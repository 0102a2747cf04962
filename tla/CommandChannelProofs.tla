------------------------ MODULE CommandChannelProofs ------------------------
(***************************************************************************)
(* Proofs about CommandChannel, for any number of callers, keys, attempts  *)
(* and sessions: type correctness, the lock and its queue under every      *)
(* fault; and, as long as no answer may come late and no command in flight *)
(* is cancelled, that an answer is always that of the command whose caller *)
(* waits for it, and that CommandChannel implements KeyDelivery.           *)
(***************************************************************************)
EXTENDS DeliveryRefinement, SequenceTheorems, TLAPS

\* Who is in the lock: a caller waits for an answer or pauses exactly while it
\* holds it, an acknowledgement is pending only while its holder waits, and
\* another attempt is left to the one that pauses.
LockIsHeld ==
    /\ \A c \in Callers : at[c] \in {"ack", "backoff"} => lock = c
    /\ lock # None => at[lock] \in {"ack", "backoff"}
    /\ pending # "none" <=> lock # None /\ at[lock] = "ack"
    /\ \A c \in Callers : at[c] = "backoff" => attempt < Attempts

\* What the session has on its way.
SessionIsRead ==
    /\ session = "up" => reader = "reading" \/ closing
    /\ session # "up" => owed = "none"

CInv == TypeOK /\ LockIsHeld

Answered == CInv /\ SessionIsRead /\ OneCommandInFlight

\* No answer comes after its caller has stopped waiting for it.
Prompt == "late" \notin Faults /\ "cancel" \notin Faults

-----------------------------------------------------------------------------
LEMMA FramesAreBounded ==
  ASSUME NEW c \in Callers
  PROVE  Frames(c) \in 1..KeyCount
BY BoundsAssumption DEF Frames

LEMMA NoneIsNoCaller == None \notin Callers
BY CallersAssumption DEF Callers

LEMMA EmptyIsASeq == ASSUME NEW S PROVE <<>> \in Seq(S)
OBVIOUS

LEMMA AppendIsASeq ==
  ASSUME NEW S, NEW s \in Seq(S), NEW e \in S
  PROVE  Append(s, e) \in Seq(S)
OBVIOUS

LEMMA InitTypes == Init => CInv
<1> SUFFICES ASSUME Init PROVE CInv
  OBVIOUS
<1> USE BoundsAssumption DEF Init
<1>1. TypeOK
  <2>1. queue \in Seq(Callers) /\ outbound \in Seq(Command)
        /\ inbound \in Seq(Response) /\ taken \in [Callers -> Seq(1..KeyCount)]
    BY EmptyIsASeq
  <2>2. at \in [Callers -> {"idle", "queued", "ack", "backoff", "sent", "failed"}]
        /\ pos \in [Callers -> 1..KeyCount]
    OBVIOUS
  <2>3. attempt \in 0..Attempts /\ sessions \in 0..MaxSessions
    OBVIOUS
  <2> QED
    BY <2>1, <2>2, <2>3 DEF TypeOK
<1>2. LockIsHeld
  BY NoneIsNoCaller DEF LockIsHeld
<1> QED
  BY <1>1, <1>2 DEF CInv

\* Writing a frame, by the holder of the lock or by one who finds it free.
LEMMA WritingKeepsTheLock ==
  ASSUME CInv, NEW c \in Callers, NEW i \in 1..KeyCount, NEW n \in 0..Attempts,
         lock \in {None, c}, WriteFrame(c, i, n)
  PROVE  /\ at' \in [Callers -> {"idle", "queued", "ack", "backoff", "sent",
                                 "failed"}]
         /\ pos' \in [Callers -> 1..KeyCount]
         /\ attempt' \in 0..Attempts
         /\ lock' \in Callers \cup {None}
         /\ pending' \in Replies \cup {"none", "open", "lost"}
         /\ outbound' \in Seq(Command)
         /\ LockIsHeld'
<1> USE NoneIsNoCaller, BoundsAssumption DEF CInv, TypeOK, LockIsHeld
<1>1. CASE session = "none"
  <2>1. /\ at' = [at EXCEPT ![c] = "failed"] /\ pos' = [pos EXCEPT ![c] = i]
        /\ lock' = None /\ pending' = "none" /\ attempt' = 0
        /\ outbound' = outbound
    BY <1>1 DEF WriteFrame, Leave
  <2>2. LockIsHeld'
    BY <2>1
  <2> QED
    BY <2>1, <2>2
<1>2. CASE session # "none"
  <2>1. /\ at' = [at EXCEPT ![c] = "ack"] /\ pos' = [pos EXCEPT ![c] = i]
        /\ lock' = c /\ pending' = "open" /\ attempt' = n
    BY <1>2 DEF WriteFrame
  <2>2. outbound' \in Seq(Command)
    <3>1. [by |-> c, n |-> i] \in Command
      BY DEF Command
    <3>2. outbound' \in Seq(Command)
      <4>1. Append(outbound, [by |-> c, n |-> i]) \in Seq(Command)
        BY <3>1, AppendIsASeq
      <4> QED
        BY <1>2, <4>1 DEF WriteFrame
    <3> QED
      BY <3>2
  <2>3. LockIsHeld'
    BY <2>1
  <2> QED
    BY <2>1, <2>2, <2>3
<1> QED
  BY <1>1, <1>2

\* Leaving the lock, with the whole sequence sent or not.
LEMMA LeavingFreesTheLock ==
  ASSUME CInv, NEW c \in Callers, lock = c,
         NEW how \in {"sent", "failed", "queued"}, Leave(c, how)
  PROVE  /\ at' \in [Callers -> {"idle", "queued", "ack", "backoff", "sent",
                                 "failed"}]
         /\ attempt' \in 0..Attempts
         /\ lock' \in Callers \cup {None}
         /\ pending' \in Replies \cup {"none", "open", "lost"}
         /\ LockIsHeld'
BY NoneIsNoCaller, BoundsAssumption DEF CInv, TypeOK, LockIsHeld, Leave

LEMMA WithoutIsASeq ==
  ASSUME NEW S, NEW s \in Seq(S), NEW i \in DOMAIN s
  PROVE  Without(s, i) \in Seq(S)
BY DEF Without

\* What a caller does keeps the types and the lock.
LEMMA CallersKeepTypes ==
  ASSUME CInv, NEW c \in Callers, Submit(c) \/ Abandons(c) \/ CallerStep(c)
  PROVE  CInv'
<1> USE DEF CInv, sessionVars, moduleVars, lockVars
<1>1. CASE Submit(c)
  <2>1. CASE LockIsFree
    <3>1. WriteFrame(c, 1, 0) /\ lock = None
      BY <1>1, <2>1 DEF Submit, LockIsFree
    <3>2. 1 \in 1..KeyCount /\ 0 \in 0..Attempts
      BY BoundsAssumption
    <3> QED
      BY <1>1, <2>1, <3>1, <3>2, WritingKeepsTheLock DEF Submit, TypeOK
  <2>2. CASE ~LockIsFree
    <3>1. queue' \in Seq(Callers)
      <4>1. Append(queue, c) \in Seq(Callers)
        BY AppendIsASeq DEF TypeOK
      <4> QED
        BY <1>1, <2>2, <4>1 DEF Submit
    <3>2. /\ at' = [at EXCEPT ![c] = "queued"] /\ at[c] = "idle"
          /\ UNCHANGED <<pos, attempt, lock, pending, outbound>>
      BY <1>1, <2>2 DEF Submit
    <3>3. LockIsHeld'
      BY <3>2, NoneIsNoCaller DEF TypeOK, LockIsHeld
    <3> QED
      BY <1>1, <3>1, <3>2, <3>3 DEF Submit, TypeOK
  <2> QED
    BY <2>1, <2>2
<1>2. CASE Abandons(c)
  <2>1. CASE at[c] = "queued"
    <3>1. PICK i \in DOMAIN queue : queue' = Without(queue, i)
      BY <1>2, <2>1, NoneIsNoCaller DEF Abandons, Awaiting
    <3>2. queue' \in Seq(Callers)
      BY <3>1, WithoutIsASeq DEF TypeOK
    <3> QED
      BY <1>2, <2>1, <3>2, NoneIsNoCaller
      DEF Abandons, Awaiting, TypeOK, LockIsHeld
  <2>2. CASE at[c] # "queued"
    <3>1. lock = c /\ Leave(c, "failed")
      BY <1>2, <2>2 DEF Abandons, Awaiting, LockIsHeld
    <3> QED
      BY <1>2, <2>2, <3>1, LeavingFreesTheLock DEF Abandons, TypeOK
  <2> QED
    BY <2>1, <2>2
<1>3. CASE Acquire(c)
  <2>1. WriteFrame(c, pos[c], 0) /\ lock = None /\ queue' \in Seq(Callers)
    BY <1>3 DEF Acquire, TypeOK
  <2>2. pos[c] \in 1..KeyCount /\ 0 \in 0..Attempts
    BY BoundsAssumption DEF TypeOK
  <2> QED
    BY <1>3, <2>1, <2>2, WritingKeepsTheLock DEF Acquire, TypeOK
<1>4. CASE Acknowledged(c)
  <2>1. CASE pos[c] = Frames(c)
    BY <1>4, <2>1, FramesAreBounded, LeavingFreesTheLock
    DEF Acknowledged, Awaiting, TypeOK
  <2>2. CASE pos[c] < Frames(c) /\ queue = <<>>
    <3>1. pos[c] + 1 \in 1..KeyCount /\ 0 \in 0..Attempts
      BY <2>2, FramesAreBounded, BoundsAssumption DEF TypeOK
    <3>2. WriteFrame(c, pos[c] + 1, 0) /\ lock = c
      BY <1>4, <2>2, FramesAreBounded DEF Acknowledged, Awaiting, TypeOK
    <3> QED
      BY <1>4, <2>2, <3>1, <3>2, FramesAreBounded, WritingKeepsTheLock
      DEF Acknowledged, Awaiting, TypeOK
  <2>3. CASE pos[c] < Frames(c) /\ queue # <<>>
    <3>1. pos[c] + 1 \in 1..KeyCount
      BY <2>3, FramesAreBounded, BoundsAssumption DEF TypeOK
    <3>2. CInv'
      <4>1. lock = c /\ Leave(c, "queued") /\ queue' = Append(queue, c)
            /\ pos' = [pos EXCEPT ![c] = pos[c] + 1] /\ UNCHANGED outbound
        BY <1>4, <2>3, FramesAreBounded DEF Acknowledged, Awaiting, TypeOK
      <4>2. queue' \in Seq(Callers)
        BY <4>1, AppendIsASeq DEF TypeOK
      <4> QED
        BY <1>4, <3>1, <4>1, <4>2, LeavingFreesTheLock DEF Acknowledged, TypeOK
    <3> QED
      BY <3>2
  <2> QED
    BY <1>4, <2>1, <2>2, <2>3 DEF Acknowledged
<1>5. CASE BacksOff(c)
  BY <1>5, NoneIsNoCaller, BoundsAssumption
  DEF BacksOff, Awaiting, MayRetry, TypeOK, LockIsHeld
<1>6. CASE Retries(c)
  <2>1. WriteFrame(c, pos[c], attempt + 1) /\ lock = c
    BY <1>6 DEF Retries, LockIsHeld
  <2>2. pos[c] \in 1..KeyCount /\ attempt + 1 \in 0..Attempts
    BY <1>6, BoundsAssumption DEF Retries, TypeOK, LockIsHeld
  <2> QED
    BY <1>6, <2>1, <2>2, WritingKeepsTheLock DEF Retries, TypeOK
<1>7. CASE CommandFails(c) \/ AckTimesOut(c)
  BY <1>7, LeavingFreesTheLock DEF CommandFails, AckTimesOut, Awaiting, TypeOK
<1> QED
  BY <1>1, <1>2, <1>3, <1>4, <1>5, <1>6, <1>7 DEF CallerStep

\* The read loop, the session and the module keep them too.
LEMMA OthersKeepTypes ==
  ASSUME CInv,
         ReaderStep \/ DisconnectStarts \/ Connect \/ ModuleStep \/ ModuleHangsUp
  PROVE  CInv'
<1> USE DEF CInv, TypeOK, LockIsHeld, callerVars, lockVars, sessionVars,
            moduleVars
<1>1. CASE Receive
  <2>1. Head(inbound) \in Response /\ inbound' \in Seq(Response)
    BY <1>1 DEF Receive
  <2>2. pending' \in {pending, Head(inbound).reply}
        /\ (pending' # pending => pending = "open")
    BY <1>1 DEF Receive
  <2>3. pending' # "none" <=> pending # "none"
    BY <2>1, <2>2 DEF Response, Replies
  <2>4. pending' \in Replies \cup {"none", "open", "lost"}
    BY <2>1, <2>2 DEF Response
  <2> QED
    BY <1>1, <2>1, <2>3, <2>4 DEF Receive
<1>2. CASE ReaderEnds
  BY <1>2 DEF ReaderEnds, AbortPendingAck
<1>3. CASE ReaderCancelled
  BY <1>3 DEF ReaderCancelled, AbortPendingAck
<1>4. CASE WriterCloses
  BY <1>4, EmptyIsASeq DEF WriterCloses
<1>5. CASE DisconnectStarts
  BY <1>5 DEF DisconnectStarts, AbortPendingAck
<1>6. CASE Connect
  BY <1>6, BoundsAssumption, EmptyIsASeq DEF Connect
<1>7. CASE ModuleTakes
  <2>1. Head(outbound) \in Command /\ outbound' \in Seq(Command)
    BY <1>7 DEF ModuleTakes
  <2>2. Code(Head(outbound).by) \in Codes
    BY DEF Code, Codes
  <2>3. \A reply \in Replies :
          Append(inbound, [code |-> Code(Head(outbound).by), reply |-> reply])
            \in Seq(Response)
    BY <2>2 DEF Response
  <2>4. inbound' \in Seq(Response)
    BY <1>7, <2>3 DEF ModuleTakes, Respond, Replies
  <2> QED
    <3>1. taken' \in [Callers -> Seq(1..KeyCount)]
      <4>1. Head(outbound).by \in Callers /\ Head(outbound).n \in 1..KeyCount
        BY <2>1 DEF Command
      <4>2. Append(taken[Head(outbound).by], Head(outbound).n)
              \in Seq(1..KeyCount)
        BY <4>1, AppendIsASeq
      <4> QED
        BY <1>7, <4>1, <4>2 DEF ModuleTakes
    <3>2. owed' \in Codes \cup {"none"} /\ busy' \in BOOLEAN
      BY <1>7, <2>2 DEF ModuleTakes
    <3> QED
      BY <1>7, <2>1, <2>4, <3>1, <3>2 DEF ModuleTakes
<1>8. CASE ModuleAnswers
  <2>1. [code |-> owed, reply |-> "accepted"] \in Response
    BY <1>8 DEF ModuleAnswers, Response, Replies
  <2> QED
    BY <1>8, <2>1 DEF ModuleAnswers, Respond
<1>9. CASE ModuleReady
  BY <1>9 DEF ModuleReady
<1>10. CASE ModuleHangsUp
  BY <1>10, EmptyIsASeq DEF ModuleHangsUp
<1> QED
  BY <1>1, <1>2, <1>3, <1>4, <1>5, <1>6, <1>7, <1>8, <1>9, <1>10
  DEF ReaderStep, ModuleStep

LEMMA CInvIsInductive == CInv /\ [Next]_vars => CInv'
<1> SUFFICES ASSUME CInv, [Next]_vars PROVE CInv'
  OBVIOUS
<1>1. CASE Next
  BY <1>1, CallersKeepTypes, OthersKeepTypes DEF Next
<1>2. CASE UNCHANGED vars
  BY <1>2 DEF vars, callerVars, lockVars, sessionVars, moduleVars, CInv,
              TypeOK, LockIsHeld
<1> QED
  BY <1>1, <1>2

\* The command lock and everything under it stay well formed, whatever the
\* module, the network and the callers do (client.py's _send and _read_loop).
THEOREM ChannelIsTyped == Spec => []TypeOK
<1>1. CInv => TypeOK
  BY DEF CInv
<1> QED
  BY InitTypes, CInvIsInductive, <1>1, PTL DEF Spec

\* The lock is held by exactly the caller that waits for an answer or pauses
\* before another attempt, and _pending_ack is that caller's.
THEOREM TheLockIsHeld == Spec => []LockIsHeld
<1>1. CInv => LockIsHeld
  BY DEF CInv
<1> QED
  BY InitTypes, CInvIsInductive, <1>1, PTL DEF Spec

-----------------------------------------------------------------------------
(* One command in flight.                                                  *)

LEMMA InitIsAnswered == Init => Answered
<1> SUFFICES ASSUME Init PROVE Answered
  OBVIOUS
<1>1. CInv
  BY InitTypes
<1> QED
  BY <1>1 DEF Answered, SessionIsRead, OneCommandInFlight, Init

\* Who writes a frame while no answer is awaited finds nothing in flight.
LEMMA WritingSendsOne ==
  ASSUME Answered, NEW c \in Callers, NEW i \in 1..KeyCount,
         NEW n \in 0..Attempts, pending # "open", WriteFrame(c, i, n),
         UNCHANGED <<sessionVars, inbound, moduleVars>>
  PROVE  SessionIsRead' /\ OneCommandInFlight'
<1> USE DEF sessionVars, moduleVars
<1>1. SessionIsRead'
  BY DEF Answered, SessionIsRead
<1>2. OneCommandInFlight'
  <2> SUFFICES ASSUME reader = "reading"
               PROVE  InFlight' <= 1 /\ (InFlight' = 1 => pending' = "open")
    BY DEF OneCommandInFlight
  <2>1. outbound \in Seq(Command) /\ inbound \in Seq(Response)
    BY DEF Answered, CInv, TypeOK
  <2>2. Len(outbound) = 0 /\ Len(inbound) = 0 /\ owed = "none"
    BY <2>1 DEF Answered, OneCommandInFlight, InFlight
  <2>3. CASE session = "up"
    <3>1. pending' = "open" /\ outbound' = Append(outbound, [by |-> c, n |-> i])
      BY <2>3 DEF WriteFrame
    <3>2. [by |-> c, n |-> i] \in Command
      BY DEF Command
    <3>3. Len(outbound') = Len(outbound) + 1
      BY <2>1, <3>1, <3>2
    <3> QED
      BY <2>2, <3>1, <3>3 DEF InFlight
  <2>4. CASE session # "up"
    <3>1. outbound' = outbound
      BY <2>4 DEF WriteFrame
    <3> QED
      BY <2>2, <3>1 DEF InFlight
  <2> QED
    BY <2>3, <2>4
<1> QED
  BY <1>1, <1>2

\* Nor does anybody leave the lock with an answer to come.
LEMMA LeavingLeavesNone ==
  ASSUME Answered, pending' = "none", pending # "open",
         UNCHANGED <<sessionVars, outbound, inbound, moduleVars>>
  PROVE  SessionIsRead' /\ OneCommandInFlight'
BY DEF Answered, SessionIsRead, OneCommandInFlight, InFlight, sessionVars,
       moduleVars

LEMMA CallersWaitForAnswers ==
  ASSUME Prompt, Answered, NEW c \in Callers,
         Submit(c) \/ Abandons(c) \/ CallerStep(c)
  PROVE  Answered'
<1>1. CInv'
  BY CallersKeepTypes DEF Answered
<1>2. TypeOK /\ LockIsHeld
  BY DEF Answered, CInv
<1>3. SessionIsRead' /\ OneCommandInFlight'
  <2>1. CASE Submit(c)
    <3>1. CASE LockIsFree
      <4>1. WriteFrame(c, 1, 0) /\ pending # "open"
        BY <1>2, <2>1, <3>1 DEF Submit, LockIsFree, LockIsHeld
      <4>2. 1 \in 1..KeyCount /\ 0 \in 0..Attempts
        BY BoundsAssumption
      <4> QED
        BY <2>1, <4>1, <4>2, WritingSendsOne DEF Submit
    <3>2. CASE ~LockIsFree
      BY <2>1, <3>2 DEF Submit, Answered, SessionIsRead, OneCommandInFlight,
                        InFlight, sessionVars, moduleVars
    <3> QED
      BY <3>1, <3>2
  <2>2. CASE Abandons(c)
    <3>1. CASE at[c] = "queued"
      <4>1. UNCHANGED <<pending, sessionVars, outbound, inbound, moduleVars>>
        BY <2>2, <3>1 DEF Abandons, Awaiting
      <4> QED
        BY <4>1 DEF Answered, SessionIsRead, OneCommandInFlight, InFlight,
                    sessionVars, moduleVars
    <3>2. CASE at[c] # "queued"
      <4>1. at[c] = "backoff" /\ pending' = "none"
            /\ UNCHANGED <<sessionVars, outbound, inbound, moduleVars>>
        BY <2>2, <3>2 DEF Abandons, Leave, Prompt
      <4>2. lock = c /\ pending = "none"
        BY <1>2, <4>1 DEF LockIsHeld
      <4> QED
        BY <4>1, <4>2, LeavingLeavesNone
    <3> QED
      BY <3>1, <3>2
  <2>3. CASE Acquire(c)
    <3>1. WriteFrame(c, pos[c], 0) /\ pending # "open"
      BY <1>2, <2>3 DEF Acquire, LockIsHeld
    <3>2. pos[c] \in 1..KeyCount /\ 0 \in 0..Attempts
      BY <1>2, BoundsAssumption DEF TypeOK
    <3> QED
      BY <2>3, <3>1, <3>2, WritingSendsOne DEF Acquire
  <2>4. CASE Acknowledged(c)
    <3>1. CASE pos[c] < Frames(c) /\ queue = <<>>
      <4>1. pos[c] + 1 \in 1..KeyCount /\ 0 \in 0..Attempts
        BY <1>2, <3>1, FramesAreBounded, BoundsAssumption DEF TypeOK
      <4>2. WriteFrame(c, pos[c] + 1, 0) /\ pending # "open"
        BY <1>2, <2>4, <3>1, FramesAreBounded DEF Acknowledged, TypeOK
      <4> QED
        BY <2>4, <4>1, <4>2, WritingSendsOne DEF Acknowledged
    <3>2. CASE ~(pos[c] < Frames(c) /\ queue = <<>>)
      <4>1. /\ pending' = "none" /\ pending # "open"
            /\ UNCHANGED <<sessionVars, outbound, inbound, moduleVars>>
        BY <2>4, <3>2 DEF Acknowledged, Leave
      <4> QED
        BY <4>1, LeavingLeavesNone
    <3> QED
      BY <3>1, <3>2
  <2>5. CASE BacksOff(c)
    <3>1. /\ pending' = "none" /\ pending # "open"
          /\ UNCHANGED <<sessionVars, outbound, inbound, moduleVars>>
      BY <2>5 DEF BacksOff
    <3> QED
      BY <3>1, LeavingLeavesNone
  <2>6. CASE Retries(c)
    <3>1. WriteFrame(c, pos[c], attempt + 1) /\ pending # "open"
      BY <1>2, <2>6 DEF Retries, LockIsHeld
    <3>2. pos[c] \in 1..KeyCount /\ attempt + 1 \in 0..Attempts
      BY <1>2, <2>6, BoundsAssumption DEF Retries, TypeOK, LockIsHeld
    <3> QED
      BY <2>6, <3>1, <3>2, WritingSendsOne DEF Retries
  <2>7. CASE CommandFails(c)
    <3>1. /\ pending' = "none" /\ pending # "open"
          /\ UNCHANGED <<sessionVars, outbound, inbound, moduleVars>>
      BY <2>7 DEF CommandFails, Leave
    <3> QED
      BY <3>1, LeavingLeavesNone
  <2>8. CASE AckTimesOut(c)
    <3>1. NoAnswerComing
          /\ UNCHANGED <<sessionVars, outbound, inbound, moduleVars>>
      BY <2>8 DEF AckTimesOut, Prompt
    <3> QED
      BY <3>1 DEF NoAnswerComing, Answered, SessionIsRead, OneCommandInFlight,
                  InFlight, sessionVars, moduleVars
  <2> QED
    BY <2>1, <2>2, <2>3, <2>4, <2>5, <2>6, <2>7, <2>8 DEF CallerStep
<1> QED
  BY <1>1, <1>3 DEF Answered

\* The read loop, the session and the module add no command.
LEMMA OthersAddNoCommand ==
  ASSUME Answered,
         ReaderStep \/ DisconnectStarts \/ Connect \/ ModuleStep \/ ModuleHangsUp
  PROVE  Answered'
<1>1. CInv'
  BY OthersKeepTypes DEF Answered
<1>2. /\ outbound \in Seq(Command) /\ inbound \in Seq(Response)
      /\ closing \in BOOLEAN
  BY DEF Answered, CInv, TypeOK
<1>3. SessionIsRead' /\ OneCommandInFlight'
  <2> USE DEF SessionIsRead, OneCommandInFlight, InFlight, sessionVars,
              moduleVars
  <2>0. SessionIsRead /\ OneCommandInFlight
    BY DEF Answered
  <2>1. CASE Receive
    <3>1. Len(inbound) >= 1 /\ Len(inbound') = Len(inbound) - 1
      BY <1>2, <2>1 DEF Receive
    <3>2. InFlight = 1 /\ InFlight' = 0
      BY <1>2, <2>0, <2>1, <3>1 DEF Receive
    <3> QED
      BY <2>0, <2>1, <3>2 DEF Receive
  <2>2. CASE ReaderEnds
    BY <2>0, <2>2 DEF ReaderEnds
  <2>3. CASE ReaderCancelled
    BY <2>0, <2>3 DEF ReaderCancelled
  <2>4. CASE WriterCloses
    BY <2>0, <2>4 DEF WriterCloses
  <2>5. CASE DisconnectStarts
    BY <2>0, <2>5 DEF DisconnectStarts
  <2>6. CASE Connect
    BY <2>0, <2>6 DEF Connect
  <2>7. CASE ModuleTakes
    <3>1. Len(outbound) >= 1 /\ Len(outbound') = Len(outbound) - 1
      BY <1>2, <2>7 DEF ModuleTakes
    <3>2. CASE ~busy /\ inbound' = inbound
      BY <1>2, <2>0, <2>7, <3>1, <3>2 DEF ModuleTakes
    <3>3. CASE Len(inbound') = Len(inbound) + 1 /\ owed' = owed
      BY <1>2, <2>0, <2>7, <3>1, <3>3 DEF ModuleTakes
    <3> QED
      BY <1>2, <2>7, <3>2, <3>3 DEF ModuleTakes, Respond
  <2>8. CASE ModuleAnswers
    <3>1. Len(inbound') = Len(inbound) + 1
      BY <1>2, <2>8 DEF ModuleAnswers, Respond
    <3> QED
      BY <1>2, <2>0, <2>8, <3>1 DEF ModuleAnswers
  <2>9. CASE ModuleReady
    BY <2>0, <2>9 DEF ModuleReady
  <2>10. CASE ModuleHangsUp
    <3>1. /\ session' = "eof" /\ owed' = "none" /\ outbound' = <<>>
          /\ reader' = reader /\ inbound' = inbound /\ pending' = pending
      BY <2>10 DEF ModuleHangsUp
    <3>2. Len(outbound) \in Nat /\ Len(inbound) \in Nat /\ Len(outbound') = 0
      BY ONLY <1>2, <3>1
    <3>3. InFlight' = Len(inbound) /\ InFlight' <= InFlight
      BY ONLY <3>1, <3>2 DEF InFlight
    <3>4. InFlight \in Nat /\ InFlight' \in Nat
      BY ONLY <3>1, <3>2 DEF InFlight
    <3>5. OneCommandInFlight'
      BY ONLY <2>0, <3>1, <3>3, <3>4 DEF OneCommandInFlight
    <3> QED
      BY <3>1, <3>5
  <2> QED
    BY <2>1, <2>2, <2>3, <2>4, <2>5, <2>6, <2>7, <2>8, <2>9, <2>10
    DEF ReaderStep, ModuleStep
<1> QED
  BY <1>1, <1>3 DEF Answered

LEMMA AnsweredIsInductive ==
  ASSUME Prompt
  PROVE  Answered /\ [Next]_vars => Answered'
<1> SUFFICES ASSUME Answered, [Next]_vars PROVE Answered'
  OBVIOUS
<1>1. CASE Next
  BY <1>1, CallersWaitForAnswers, OthersAddNoCommand DEF Next
<1>2. CASE UNCHANGED vars
  <2>1. CInv'
    BY <1>2, CInvIsInductive DEF Answered
  <2> QED
    BY <1>2, <2>1 DEF vars, callerVars, lockVars, sessionVars, moduleVars,
                      Answered, SessionIsRead, OneCommandInFlight, InFlight
<1> QED
  BY <1>1, <1>2

\* While a session is read, at most one command is without its answer, and its
\* caller is the one that waits: an answer, which names a code only, is that
\* command's.  It takes a module that answers in time and callers that are not
\* cancelled with a command in flight; find_late_ack shows why.
THEOREM AnAnswerHasOneTaker ==
  ASSUME Prompt
  PROVE  Spec => []OneCommandInFlight
<1>1. Answered => OneCommandInFlight
  BY DEF Answered
<1>2. Answered /\ [Next]_vars => Answered'
  BY AnsweredIsInductive
<1> QED
  BY InitIsAnswered, <1>1, <1>2, PTL DEF Spec

-----------------------------------------------------------------------------
(* The waiters.                                                            *)

\* Who is in the queue waits, and is in it once.
QueueWaits ==
    /\ \A i \in 1..Len(queue) : at[queue[i]] = "queued"
    /\ \A i, j \in 1..Len(queue) : i # j => queue[i] # queue[j]

LEMMA JoiningTheQueue ==
  ASSUME CInv, QueueWaits, NEW c \in Callers, at[c] # "queued",
         at' = [at EXCEPT ![c] = "queued"], queue' = Append(queue, c)
  PROVE  QueueWaits'
<1>1. queue \in Seq(Callers) /\ c \in DOMAIN at
  BY DEF CInv, TypeOK
<1>2. /\ Len(queue') = Len(queue) + 1 /\ Len(queue) \in Nat
      /\ queue'[Len(queue) + 1] = c
      /\ \A i \in 1..Len(queue) : queue'[i] = queue[i]
  BY <1>1
<1>3. \A i \in 1..Len(queue') :
         \/ i \in 1..Len(queue) /\ queue'[i] = queue[i] /\ queue'[i] # c
         \/ i = Len(queue) + 1 /\ queue'[i] = c
  BY <1>2 DEF QueueWaits
<1>4. at'[c] = "queued" /\ \A d : d # c => at'[d] = at[d]
  BY <1>1
<1> QED
  BY <1>3, <1>4 DEF QueueWaits

LEMMA OutsideTheQueue ==
  ASSUME CInv, QueueWaits, NEW c \in Callers, at[c] # "queued",
         NEW x, at' = [at EXCEPT ![c] = x], queue' = queue
  PROVE  QueueWaits'
BY DEF QueueWaits, CInv, TypeOK

LEMMA WithoutOne ==
  ASSUME NEW S, NEW s \in Seq(S), NEW k \in 1..Len(s)
  PROVE  /\ Len(Without(s, k)) = Len(s) - 1
         /\ \A i \in 1..Len(Without(s, k)) :
               Without(s, k)[i] = s[IF i < k THEN i ELSE i + 1]
<1> DEFINE a == SubSeq(s, 1, k - 1)
           b == SubSeq(s, k + 1, Len(s))
<1>1. Len(s) \in Nat /\ k \in Nat
  OBVIOUS
<1>2. /\ a \in Seq(S) /\ Len(a) = k - 1
      /\ \A i \in 1..(k - 1) : a[i] = s[i]
  BY <1>1
<1>3. /\ b \in Seq(S) /\ Len(b) = Len(s) - k
      /\ \A i \in 1..(Len(s) - k) : b[i] = s[i + k]
  BY <1>1
<1> HIDE DEF a, b
<1>4. /\ Len(a \o b) = Len(s) - 1
      /\ \A i \in 1..(Len(s) - 1) :
            (a \o b)[i] = IF i < k THEN a[i] ELSE b[i - (k - 1)]
  <2>1. /\ Len(a \o b) = Len(a) + Len(b)
        /\ \A i \in 1..(Len(a) + Len(b)) :
              (a \o b)[i] = IF i <= Len(a) THEN a[i] ELSE b[i - Len(a)]
    BY <1>2, <1>3, ConcatProperties
  <2>2. Len(a) + Len(b) = Len(s) - 1 /\ \A i \in Nat : i <= Len(a) <=> i < k
    BY <1>1, <1>2, <1>3
  <2> QED
    BY <1>2, <2>1, <2>2
<1>5. \A i \in 1..(Len(s) - 1) : i >= k => b[i - (k - 1)] = s[i + 1]
  <2> SUFFICES ASSUME NEW i \in 1..(Len(s) - 1), i >= k
               PROVE  b[i - (k - 1)] = s[i + 1]
    OBVIOUS
  <2>1. i - (k - 1) \in 1..(Len(s) - k) /\ (i - (k - 1)) + k = i + 1
    BY <1>1
  <2> QED
    BY <1>3, <2>1
<1>6. \A i \in 1..(Len(s) - 1) :
         (a \o b)[i] = s[IF i < k THEN i ELSE i + 1]
  <2> SUFFICES ASSUME NEW i \in 1..(Len(s) - 1)
               PROVE  (a \o b)[i] = s[IF i < k THEN i ELSE i + 1]
    OBVIOUS
  <2>1. CASE i < k
    <3>1. i \in 1..(k - 1)
      BY <1>1, <2>1
    <3> QED
      BY <1>2, <1>4, <2>1, <3>1
  <2>2. CASE ~(i < k)
    BY <1>1, <1>4, <1>5, <2>2
  <2> QED
    BY <2>1, <2>2
<1> QED
  BY <1>4, <1>6 DEF Without, a, b

LEMMA LeavingTheQueue ==
  ASSUME CInv, QueueWaits, NEW c \in Callers, NEW x,
         at' = [at EXCEPT ![c] = x], NEW k \in 1..Len(queue), queue[k] = c,
         queue' = Without(queue, k)
  PROVE  QueueWaits'
<1>1. queue \in Seq(Callers) /\ Len(queue) \in Nat
  BY DEF CInv, TypeOK
<1>2. /\ Len(queue') = Len(queue) - 1
      /\ \A i \in 1..Len(queue') :
            queue'[i] = queue[IF i < k THEN i ELSE i + 1]
  BY <1>1, WithoutOne
<1>3. \A i \in 1..Len(queue') :
         \E j \in 1..Len(queue) :
            j # k /\ queue'[i] = queue[j] /\ j = IF i < k THEN i ELSE i + 1
  BY <1>1, <1>2
<1>4. \A j \in 1..Len(queue) : j # k => queue[j] # c /\ at'[queue[j]] = "queued"
  <2> SUFFICES ASSUME NEW j \in 1..Len(queue), j # k
               PROVE  queue[j] # c /\ at'[queue[j]] = "queued"
    OBVIOUS
  <2>1. queue[j] \in Callers /\ queue[j] # c /\ at[queue[j]] = "queued"
    BY <1>1 DEF QueueWaits
  <2> QED
    BY <2>1 DEF CInv, TypeOK
<1>5. \A i \in 1..Len(queue') : at'[queue'[i]] = "queued"
  BY <1>3, <1>4
<1>6. \A i, j \in 1..Len(queue') : i # j => queue'[i] # queue'[j]
  <2> SUFFICES ASSUME NEW i \in 1..Len(queue'), NEW j \in 1..Len(queue'), i # j
               PROVE  queue'[i] # queue'[j]
    OBVIOUS
  <2>1. PICK m \in 1..Len(queue) :
           queue'[i] = queue[m] /\ m = IF i < k THEN i ELSE i + 1
    BY <1>3
  <2>2. PICK n \in 1..Len(queue) :
           queue'[j] = queue[n] /\ n = IF j < k THEN j ELSE j + 1
    BY <1>3
  <2>3. m # n
    BY <2>1, <2>2
  <2> QED
    BY <2>1, <2>2, <2>3 DEF QueueWaits
<1> QED
  BY <1>5, <1>6 DEF QueueWaits

LEMMA TheHeadLeaves ==
  ASSUME NEW S, NEW s \in Seq(S), s # <<>>
  PROVE  /\ 1 \in 1..Len(s) /\ s[1] = Head(s)
         /\ Tail(s) = Without(s, 1)
<1>1. Len(s) \in Nat /\ Len(s) >= 1
  OBVIOUS
<1>2. SubSeq(s, 1, 0) = <<>> /\ SubSeq(s, 2, Len(s)) = Tail(s)
  BY <1>1
<1>3. Tail(s) \in Seq(S)
  OBVIOUS
<1>4. <<>> \o Tail(s) = Tail(s)
  BY <1>3
<1> QED
  BY <1>1, <1>2, <1>4 DEF Without

LEMMA WaitersWait ==
  ASSUME CInv, QueueWaits, NEW c \in Callers,
         Submit(c) \/ Abandons(c) \/ CallerStep(c)
  PROVE  QueueWaits'
<1>0. LockIsHeld /\ queue \in Seq(Callers)
  BY DEF CInv, TypeOK
<1>1. CASE Submit(c)
  <2>1. CASE LockIsFree
    BY <1>1, <2>1, OutsideTheQueue DEF Submit, WriteFrame, Leave
  <2>2. CASE ~LockIsFree
    BY <1>1, <2>2, JoiningTheQueue DEF Submit
  <2> QED
    BY <2>1, <2>2
<1>2. CASE Abandons(c)
  <2>1. CASE at[c] = "queued"
    <3>1. /\ at' = [at EXCEPT ![c] = "failed"]
          /\ \E i \in DOMAIN queue : queue[i] = c /\ queue' = Without(queue, i)
      BY <1>2, <2>1 DEF Abandons, Awaiting
    <3>2. DOMAIN queue = 1..Len(queue)
      BY <1>0
    <3> QED
      BY <3>1, <3>2, LeavingTheQueue
  <2>2. CASE at[c] # "queued"
    BY <1>2, <2>2, OutsideTheQueue DEF Abandons, Leave
  <2> QED
    BY <2>1, <2>2
<1>3. CASE Acquire(c)
  <2>1. queue # <<>> /\ c = Head(queue) /\ queue' = Tail(queue)
        /\ \E x : at' = [at EXCEPT ![c] = x]
    BY <1>3 DEF Acquire, WriteFrame, Leave
  <2>2. 1 \in 1..Len(queue) /\ queue[1] = c /\ queue' = Without(queue, 1)
    BY <1>0, <2>1, TheHeadLeaves
  <2> QED
    BY <2>1, <2>2, LeavingTheQueue
<1>4. CASE Acknowledged(c)
  <2>1. at[c] = "ack"
    BY <1>4 DEF Acknowledged, Awaiting
  <2>2. \/ queue' = queue /\ \E x : at' = [at EXCEPT ![c] = x]
        \/ queue' = Append(queue, c) /\ at' = [at EXCEPT ![c] = "queued"]
    BY <1>4 DEF Acknowledged, WriteFrame, Leave
  <2> QED
    BY <2>1, <2>2, JoiningTheQueue, OutsideTheQueue
<1>5. CASE BacksOff(c) \/ CommandFails(c) \/ AckTimesOut(c)
  <2>1. /\ at[c] = "ack" /\ queue' = queue
        /\ \E x : at' = [at EXCEPT ![c] = x]
    BY <1>5 DEF BacksOff, CommandFails, AckTimesOut, Awaiting, Leave, lockVars
  <2> QED
    BY <2>1, OutsideTheQueue
<1>6. CASE Retries(c)
  BY <1>6, OutsideTheQueue DEF Retries, WriteFrame, Leave
<1> QED
  BY <1>1, <1>2, <1>3, <1>4, <1>5, <1>6 DEF CallerStep

LEMMA QueueIsInductive == CInv /\ QueueWaits /\ [Next]_vars => QueueWaits'
<1> SUFFICES ASSUME CInv, QueueWaits, [Next]_vars PROVE QueueWaits'
  OBVIOUS
<1>1. CASE \E c \in Callers : Submit(c) \/ Abandons(c) \/ CallerStep(c)
  BY <1>1, WaitersWait
<1>2. CASE ~ \E c \in Callers : Submit(c) \/ Abandons(c) \/ CallerStep(c)
  <2>1. UNCHANGED <<at, queue>>
    BY <1>2 DEF Next, ReaderStep, ModuleStep, Receive, ReaderEnds,
       ReaderCancelled, WriterCloses, DisconnectStarts, Connect, ModuleTakes,
       ModuleAnswers, ModuleReady, ModuleHangsUp, vars, callerVars, lockVars
  <2> QED
    BY <2>1 DEF QueueWaits
<1> QED
  BY <1>1, <1>2

\* The lock is handed to callers that still want it: one that was cancelled or
\* is through is not waiting for it any more, and nobody waits twice.
THEOREM TheQueueWaits == Spec => []QueueWaits
<1>1. Init => QueueWaits
  BY DEF Init, QueueWaits
<1> QED
  BY InitTypes, CInvIsInductive, QueueIsInductive, <1>1, PTL DEF Spec

-----------------------------------------------------------------------------
(* Ordered delivery.                                                       *)

Done(c) == Len(taken[c]) = pos[c]

\* The module has taken all of a caller's frames but the one it is at, or that
\* one too; all but that one while the caller has to write it yet.
FramesCount ==
    \A c \in Callers :
        /\ pos[c] <= Frames(c)
        /\ Len(taken[c]) \in {pos[c] - 1, pos[c]}
        /\ at[c] \in {"idle", "queued", "backoff"} => ~Done(c)
        /\ at[c] = "idle" => pos[c] = 1

\* A caller has one frame at most on its way to the module, the next that the
\* module is to take, and waits for its answer or has given up.
FramesAreDue ==
    /\ \A j \in 1..Len(outbound), c \in Callers :
          outbound[j].by = c =>
              /\ outbound[j].n = pos[c]
              /\ ~Done(c)
              /\ at[c] \in {"ack", "failed"}
              /\ at[c] = "ack" => pending \notin Replies
    /\ \A j, k \in 1..Len(outbound) :
          j # k => outbound[j].by # outbound[k].by

\* What comes back on a session that is read is the truth about the frame of
\* the caller that holds the lock.
RepliesAreTrue ==
    /\ pending = "accepted" => Done(lock)
    /\ pending = "overrun" => ~Done(lock)
    /\ reader = "reading" =>
          /\ outbound # <<>> => outbound[1].by = lock
          /\ owed # "none" => Done(lock)
          /\ inbound # <<>> =>
                /\ inbound[1].reply = "accepted" => Done(lock)
                /\ inbound[1].reply = "overrun" => ~Done(lock)

InOrder == FramesCount /\ FramesAreDue /\ RepliesAreTrue

DInv == Answered /\ QueueWaits /\ InOrder

LEMMA InitIsInOrder == Init => DInv
<1> SUFFICES ASSUME Init PROVE InOrder
  <2>1. Init => QueueWaits
    BY DEF Init, QueueWaits
  <2> QED
    BY <2>1, InitIsAnswered DEF DInv
<1>1. outbound = <<>> /\ inbound = <<>> /\ Len(outbound) = 0 /\ owed = "none"
      /\ pending = "none"
  BY DEF Init
<1>2. \A c \in Callers : at[c] = "idle" /\ pos[c] = 1 /\ Len(taken[c]) = 0
  BY DEF Init
<1>3. FramesCount
  <2>1. \A c \in Callers : Frames(c) \in Nat \ {0}
    BY BoundsAssumption DEF Frames
  <2> QED
    BY <1>2, <2>1 DEF FramesCount, Done
<1>4. FramesAreDue
  BY <1>1 DEF FramesAreDue
<1>5. RepliesAreTrue
  BY <1>1 DEF RepliesAreTrue
<1> QED
  BY <1>3, <1>4, <1>5 DEF InOrder

LEMMA FramesAreNumbered ==
  ASSUME DInv, NEW c \in Callers
  PROVE  /\ pos[c] \in Nat /\ Len(taken[c]) \in Nat /\ Frames(c) \in Nat
         /\ pos[c] \in 1..KeyCount
<1>1. pos[c] \in 1..KeyCount /\ taken[c] \in Seq(1..KeyCount)
  BY DEF DInv, Answered, CInv, TypeOK
<1>2. Frames(c) \in Nat
  BY FramesAreBounded, BoundsAssumption
<1> QED
  BY <1>1, <1>2, BoundsAssumption

\* On a session that is read, nothing is on its way unless it is waited for.
LEMMA NothingUnawaited ==
  ASSUME Answered, reader = "reading", pending # "open"
  PROVE  outbound = <<>> /\ inbound = <<>> /\ owed = "none"
<1>1. outbound \in Seq(Command) /\ inbound \in Seq(Response)
  BY DEF Answered, CInv, TypeOK
<1>2. Len(outbound) = 0 /\ Len(inbound) = 0 /\ owed = "none"
  BY <1>1 DEF Answered, OneCommandInFlight, InFlight
<1> QED
  BY <1>1, <1>2

\* A caller that is neither waiting nor has failed has no frame on its way,
\* and one that has its answer has none either.
LEMMA NoFrameOnItsWay ==
  ASSUME FramesAreDue, NEW c \in Callers,
         at[c] \notin {"ack", "failed"} \/ (at[c] = "ack" /\ pending \in Replies)
  PROVE  \A j \in 1..Len(outbound) : outbound[j].by # c
BY DEF FramesAreDue

LEMMA WritingIsDue ==
  ASSUME DInv, NEW c \in Callers, NEW i \in 1..KeyCount, NEW n \in 0..Attempts,
         lock \in {None, c}, pending # "open", at[c] # "failed",
         i <= Frames(c), Len(taken[c]) = i - 1,
         \A j \in 1..Len(outbound) : outbound[j].by # c,
         WriteFrame(c, i, n), UNCHANGED <<sessionVars, inbound, moduleVars>>
  PROVE  InOrder'
<1> USE DEF sessionVars, moduleVars
<1>1. /\ at \in [Callers -> {"idle", "queued", "ack", "backoff", "sent", "failed"}]
      /\ pos \in [Callers -> 1..KeyCount]
      /\ outbound \in Seq(Command) /\ inbound \in Seq(Response)
      /\ LockIsHeld
  BY DEF DInv, Answered, CInv, TypeOK
<1>2. /\ \/ at' = [at EXCEPT ![c] = "failed"]
         \/ at' = [at EXCEPT ![c] = "ack"] /\ lock' = c
      /\ pos' = [pos EXCEPT ![c] = i]
      /\ pending' \in {"none", "open"}
      /\ UNCHANGED <<reader, inbound, owed, taken>>
  BY DEF WriteFrame, Leave
<1>3. ~Done(c)' /\ \A d \in Callers \ {c} : Done(d)' = Done(d)
  <2>1. Len(taken'[c]) = i - 1 /\ pos'[c] = i
    BY <1>1, <1>2
  <2> QED
    BY <1>1, <1>2, <2>1 DEF Done
<1>4. FramesCount'
  <2> SUFFICES ASSUME NEW d \in Callers
               PROVE  /\ pos'[d] <= Frames(d)
                      /\ Len(taken'[d]) \in {pos'[d] - 1, pos'[d]}
                      /\ at'[d] \in {"idle", "queued", "backoff"} => ~Done(d)'
                      /\ at'[d] = "idle" => pos'[d] = 1
    BY DEF FramesCount
  <2>1. CASE d = c
    <3>1. pos'[d] = i /\ at'[d] \in {"failed", "ack"} /\ Len(taken'[d]) = i - 1
      BY <1>1, <1>2, <2>1
    <3> QED
      BY <2>1, <3>1
  <2>2. CASE d # c
    <3>1. pos'[d] = pos[d] /\ at'[d] = at[d] /\ taken'[d] = taken[d]
          /\ Done(d)' = Done(d)
      BY <1>1, <1>2, <1>3, <2>2
    <3> QED
      BY <3>1 DEF DInv, InOrder, FramesCount
  <2> QED
    BY <2>1, <2>2
<1>5. \A j \in 1..Len(outbound) : \A d \in Callers :
         outbound[j].by = d =>
            /\ d # c /\ outbound[j].n = pos'[d] /\ ~Done(d)'
            /\ at'[d] = "failed"
  <2> SUFFICES ASSUME NEW j \in 1..Len(outbound), NEW d \in Callers,
                      outbound[j].by = d
               PROVE  /\ d # c /\ outbound[j].n = pos'[d] /\ ~Done(d)'
                      /\ at'[d] = "failed"
    OBVIOUS
  <2>1. d # c
    OBVIOUS
  <2>2. /\ outbound[j].n = pos[d] /\ ~Done(d) /\ at[d] \in {"ack", "failed"}
    BY DEF DInv, InOrder, FramesAreDue
  <2>3. at[d] # "ack"
    BY <1>1, <2>1, NoneIsNoCaller DEF LockIsHeld
  <2> QED
    BY <1>1, <1>2, <1>3, <2>1, <2>2, <2>3
<1>6. CASE outbound' = outbound
  <2>1. FramesAreDue'
    <3>1. \A j, k \in 1..Len(outbound) :
             j # k => outbound[j].by # outbound[k].by
      BY DEF DInv, InOrder, FramesAreDue
    <3> QED
      BY <1>5, <1>6, <3>1 DEF FramesAreDue
  <2>2. RepliesAreTrue'
    <3>1. reader' = "reading" => outbound' = <<>> /\ inbound' = <<>> /\ owed' = "none"
      BY <1>2, <1>6, NothingUnawaited DEF DInv
    <3> QED
      BY <1>2, <3>1 DEF RepliesAreTrue
  <2> QED
    BY <1>4, <2>1, <2>2 DEF InOrder
<1>7. CASE outbound' # outbound
  <2>1. /\ outbound' = Append(outbound, [by |-> c, n |-> i])
        /\ at' = [at EXCEPT ![c] = "ack"] /\ lock' = c /\ pending' = "open"
    BY <1>7 DEF WriteFrame, Leave
  <2>2. /\ Len(outbound') = Len(outbound) + 1
        /\ outbound'[Len(outbound) + 1] = [by |-> c, n |-> i]
        /\ \A j \in 1..Len(outbound) : outbound'[j] = outbound[j]
    <3>1. [by |-> c, n |-> i] \in Command
      BY DEF Command
    <3> QED
      BY <1>1, <2>1, <3>1
  <2>3. Len(outbound) \in Nat
    BY <1>1
  <2>4. at'[c] = "ack" /\ pos'[c] = i
    BY <1>1, <1>2, <2>1
  <2>5. FramesAreDue'
    <3>1. \A j \in 1..Len(outbound') :
             \/ j \in 1..Len(outbound) /\ outbound'[j] = outbound[j]
             \/ j = Len(outbound) + 1 /\ outbound'[j] = [by |-> c, n |-> i]
      BY ONLY <2>2, <2>3
    <3>2. \A j \in 1..Len(outbound') : \A d \in Callers :
             outbound'[j].by = d =>
                /\ outbound'[j].n = pos'[d] /\ ~Done(d)'
                /\ at'[d] \in {"ack", "failed"}
                /\ pending' \notin Replies \/ at'[d] # "ack"
      <4> SUFFICES ASSUME NEW j \in 1..Len(outbound'), NEW d \in Callers,
                          outbound'[j].by = d
                   PROVE  /\ outbound'[j].n = pos'[d] /\ ~Done(d)'
                          /\ at'[d] \in {"ack", "failed"}
                          /\ pending' \notin Replies \/ at'[d] # "ack"
        OBVIOUS
      <4>1. CASE j \in 1..Len(outbound) /\ outbound'[j] = outbound[j]
        BY <1>5, <4>1
      <4>2. CASE outbound'[j] = [by |-> c, n |-> i]
        BY <1>3, <2>1, <2>4, <4>2 DEF Replies
      <4> QED
        BY <3>1, <4>1, <4>2
    <3>3. \A j, k \in 1..Len(outbound') :
             j # k => outbound'[j].by # outbound'[k].by
      BY <1>5, <3>1 DEF DInv, InOrder, FramesAreDue
    <3> QED
      BY <3>2, <3>3 DEF FramesAreDue
  <2>6. RepliesAreTrue'
    <3>1. CASE reader' = "reading"
      <4>1. outbound = <<>> /\ inbound' = <<>> /\ owed' = "none"
        BY <1>2, <3>1, NothingUnawaited DEF DInv
      <4>2. outbound'[1] = [by |-> c, n |-> i]
        BY <2>2, <4>1
      <4> QED
        BY <1>2, <2>1, <4>1, <4>2 DEF RepliesAreTrue
    <3>2. CASE reader' # "reading"
      BY <2>1, <3>2 DEF RepliesAreTrue
    <3> QED
      BY <3>1, <3>2
  <2> QED
    BY <1>4, <2>5, <2>6 DEF InOrder
<1> QED
  BY <1>6, <1>7

\* Leaving the lock: with everything sent, with a frame accepted and more to
\* come, or failed.
LEMMA LeavingIsInOrder ==
  ASSUME DInv, NEW c \in Callers, lock = c,
         NEW how \in {"sent", "queued", "failed"}, Leave(c, how),
         UNCHANGED <<sessionVars, outbound, inbound, moduleVars>>,
         how # "failed" => at[c] = "ack" /\ pending = "accepted",
         how = "queued" => pos[c] < Frames(c),
         pos' = IF how = "queued" THEN [pos EXCEPT ![c] = pos[c] + 1] ELSE pos,
         reader = "reading" => outbound = <<>> /\ inbound = <<>> /\ owed = "none"
  PROVE  InOrder'
<1> USE DEF sessionVars, moduleVars
<1>1. /\ at \in [Callers -> {"idle", "queued", "ack", "backoff", "sent", "failed"}]
      /\ pos \in [Callers -> 1..KeyCount]
      /\ outbound \in Seq(Command)
      /\ LockIsHeld
  BY DEF DInv, Answered, CInv, TypeOK
<1>2. at' = [at EXCEPT ![c] = how] /\ pending' = "none" /\ taken' = taken
      /\ reader' = reader /\ owed' = owed
  BY DEF Leave
<1>3. FramesCount /\ FramesAreDue /\ RepliesAreTrue
  BY DEF DInv, InOrder
<1>4. \A d \in Callers : pos[d] \in Nat /\ Len(taken[d]) \in Nat /\ Frames(d) \in Nat
  BY FramesAreNumbered
<1>5. FramesCount'
  <2> SUFFICES ASSUME NEW d \in Callers
               PROVE  /\ pos'[d] <= Frames(d)
                      /\ Len(taken'[d]) \in {pos'[d] - 1, pos'[d]}
                      /\ at'[d] \in {"idle", "queued", "backoff"} => ~Done(d)'
                      /\ at'[d] = "idle" => pos'[d] = 1
    BY DEF FramesCount
  <2>1. CASE how = "queued" /\ d = c
    <3>1. pos'[d] = pos[d] + 1 /\ at'[d] = "queued" /\ taken'[d] = taken[d]
      BY <1>1, <1>2, <2>1
    <3>2. Len(taken[d]) = pos[d] /\ pos[d] < Frames(d)
      BY <1>3, <2>1 DEF RepliesAreTrue, Done
    <3> QED
      BY <1>4, <3>1, <3>2 DEF Done
  <2>2. CASE ~(how = "queued" /\ d = c)
    <3>1. pos'[d] = pos[d] /\ at'[d] \in {at[d], "sent", "failed"}
          /\ taken'[d] = taken[d] /\ Done(d)' = Done(d)
      BY <1>1, <1>2, <2>2 DEF Done
    <3> QED
      BY <1>3, <3>1 DEF FramesCount
  <2> QED
    BY <2>1, <2>2
<1>6. FramesAreDue'
  <2> SUFFICES ASSUME NEW j \in 1..Len(outbound), NEW d \in Callers,
                      outbound[j].by = d
               PROVE  /\ outbound[j].n = pos'[d] /\ ~Done(d)'
                      /\ at'[d] \in {"ack", "failed"}
    BY <1>2, <1>3 DEF FramesAreDue, Replies
  <2>1. /\ outbound[j].n = pos[d] /\ ~Done(d) /\ at[d] \in {"ack", "failed"}
        /\ at[d] = "ack" => pending \notin Replies
    BY <1>3 DEF FramesAreDue
  <2>2. d = c => how = "failed"
    BY <2>1 DEF Replies
  <2>3. pos'[d] = pos[d] /\ at'[d] \in {at[d], "failed"} /\ Done(d)' = Done(d)
    BY <1>1, <1>2, <2>2 DEF Done
  <2> QED
    BY <2>1, <2>3
<1>7. RepliesAreTrue'
  BY <1>2 DEF RepliesAreTrue
<1> QED
  BY <1>5, <1>6, <1>7 DEF InOrder

-----------------------------------------------------------------------------
(* What a caller does, seen as a step of KeyDelivery.                      *)

\* It goes on.
LEMMA GoingOnIsUnseen ==
  ASSUME CInv, NEW c \in Callers, UNCHANGED taken,
         NEW x, x \notin {"sent", "failed"}, at[c] \notin {"sent", "failed"},
         at' = [at EXCEPT ![c] = x]
  PROVE  [Delivery!Next]_Delivery!dvars
<1>1. \A d \in Callers : Outcome(d)' = Outcome(d)
  BY DEF Outcome, CInv, TypeOK
<1> QED
  BY <1>1 DEF Delivery!dvars

\* It fails.
LEMMA FailingIsSeen ==
  ASSUME CInv, NEW c \in Callers, UNCHANGED taken,
         at[c] \notin {"sent", "failed"}, at' = [at EXCEPT ![c] = "failed"]
  PROVE  [Delivery!Next]_Delivery!dvars
<1>1. [d \in Callers |-> Outcome(d)]'
        = [[d \in Callers |-> Outcome(d)] EXCEPT ![c] = "failed"]
  BY DEF Outcome, CInv, TypeOK
<1>2. Delivery!Fail(c)
  BY <1>1 DEF Delivery!Fail, Outcome
<1> QED
  BY <1>2 DEF Delivery!Next

\* All its frames are accepted.
LEMMA SucceedingIsSeen ==
  ASSUME CInv, NEW c \in Callers, UNCHANGED taken, Len(taken[c]) = Frames(c),
         at[c] \notin {"sent", "failed"}, at' = [at EXCEPT ![c] = "sent"]
  PROVE  [Delivery!Next]_Delivery!dvars
<1>1. [d \in Callers |-> Outcome(d)]'
        = [[d \in Callers |-> Outcome(d)] EXCEPT ![c] = "sent"]
  BY DEF Outcome, CInv, TypeOK
<1>2. Delivery!Succeed(c)
  BY <1>1 DEF Delivery!Succeed, Outcome
<1> QED
  BY <1>2 DEF Delivery!Next

LEMMA WritingIsMapped ==
  ASSUME CInv, NEW c \in Callers, NEW i, NEW n, UNCHANGED taken,
         at[c] \notin {"sent", "failed"}, WriteFrame(c, i, n)
  PROVE  [Delivery!Next]_Delivery!dvars
<1>1. CASE session = "none"
  BY <1>1, FailingIsSeen DEF WriteFrame, Leave
<1>2. CASE session # "none"
  BY <1>2, GoingOnIsUnseen DEF WriteFrame
<1> QED
  BY <1>1, <1>2

\* Neither the module nor the outcome of a caller: nothing is seen.
LEMMA OthersAreUnseen ==
  ASSUME UNCHANGED <<taken, at>>
  PROVE  [Delivery!Next]_Delivery!dvars
<1>1. \A d \in Callers : Outcome(d)' = Outcome(d)
  BY DEF Outcome
<1> QED
  BY <1>1 DEF Delivery!dvars

-----------------------------------------------------------------------------
LEMMA CallersDeliverInOrder ==
  ASSUME Prompt, DInv, NEW c \in Callers,
         Submit(c) \/ Abandons(c) \/ CallerStep(c)
  PROVE  InOrder' /\ [Delivery!Next]_Delivery!dvars
<1> USE DEF sessionVars, moduleVars
<1>1. CInv /\ TypeOK /\ LockIsHeld /\ Answered
      /\ FramesCount /\ FramesAreDue /\ RepliesAreTrue
  BY DEF DInv, Answered, CInv, InOrder
<1>2. /\ pos[c] \in 1..KeyCount /\ pos[c] \in Nat /\ Len(taken[c]) \in Nat
      /\ Frames(c) \in 1..KeyCount /\ 0 \in 0..Attempts
      /\ pos[c] <= Frames(c) /\ Len(taken[c]) \in {pos[c] - 1, pos[c]}
  BY <1>1, FramesAreNumbered, FramesAreBounded, BoundsAssumption
  DEF FramesCount
<1>3. reader = "reading" /\ pending # "open" =>
         outbound = <<>> /\ inbound = <<>> /\ owed = "none"
  BY <1>1, NothingUnawaited
\* The frame that c is at, before it is written.
<1>4. ASSUME at[c] \in {"idle", "queued", "backoff"}
      PROVE  /\ Len(taken[c]) = pos[c] - 1
             /\ \A j \in 1..Len(outbound) : outbound[j].by # c
  BY <1>1, <1>2, <1>4, NoFrameOnItsWay DEF FramesCount, Done
<1>5. CASE Submit(c)
  <2>1. CASE LockIsFree
    <3>1. WriteFrame(c, 1, 0) /\ pending # "open" /\ lock = None
      BY <1>1, <1>5, <2>1 DEF Submit, LockIsFree, LockIsHeld
    <3>2. at[c] = "idle" /\ pos[c] = 1
      BY <1>1, <1>5 DEF Submit, FramesCount
    <3>3. InOrder'
      BY <1>2, <1>4, <1>5, <3>1, <3>2, WritingIsDue DEF Submit
    <3> QED
      BY <1>1, <1>5, <3>1, <3>2, <3>3, WritingIsMapped DEF Submit
  <2>2. CASE ~LockIsFree
    <3>1. /\ at' = [at EXCEPT ![c] = "queued"] /\ at[c] = "idle"
          /\ UNCHANGED <<pos, lock, pending, reader, outbound, inbound, owed,
                         taken>>
      BY <1>5, <2>2 DEF Submit
    <3>2. \A d \in Callers : /\ at'[d] = at[d] \/ (d = c /\ at'[d] = "queued")
                             /\ Done(d)' = Done(d)
      BY <1>1, <3>1 DEF TypeOK, Done
    <3>3. FramesCount' /\ FramesAreDue'
      BY <1>1, <3>1, <3>2 DEF FramesCount, FramesAreDue
    <3>4. RepliesAreTrue'
      BY <1>1, <3>1 DEF RepliesAreTrue, Done
    <3> QED
      BY <1>1, <3>1, <3>3, <3>4, GoingOnIsUnseen DEF InOrder
  <2> QED
    BY <2>1, <2>2
<1>6. CASE Abandons(c)
  <2>1. CASE at[c] = "queued"
    <3>1. /\ at' = [at EXCEPT ![c] = "failed"]
          /\ UNCHANGED <<pos, lock, pending, reader, outbound, inbound, owed,
                         taken>>
      BY <1>6, <2>1 DEF Abandons, Awaiting
    <3>2. \A d \in Callers : /\ at'[d] = at[d] \/ (d = c /\ at'[d] = "failed")
                             /\ Done(d)' = Done(d)
      BY <1>1, <3>1 DEF TypeOK, Done
    <3>3. FramesCount' /\ FramesAreDue'
      BY <1>1, <3>1, <3>2 DEF FramesCount, FramesAreDue
    <3>4. RepliesAreTrue'
      BY <1>1, <3>1 DEF RepliesAreTrue, Done
    <3> QED
      BY <1>1, <2>1, <3>1, <3>3, <3>4, FailingIsSeen DEF InOrder
  <2>2. CASE at[c] # "queued"
    <3>1. /\ at[c] = "backoff" /\ Leave(c, "failed")
          /\ UNCHANGED <<pos, sessionVars, outbound, inbound, moduleVars>>
      BY <1>6, <2>2 DEF Abandons, Prompt
    <3>2. lock = c /\ pending # "open"
      BY <1>1, <3>1 DEF LockIsHeld
    <3>3. InOrder'
      BY <1>3, <3>1, <3>2, LeavingIsInOrder
    <3> QED
      BY <1>1, <3>1, <3>3, FailingIsSeen DEF Leave
  <2> QED
    BY <2>1, <2>2
<1>7. CASE Acquire(c)
  <2>1. WriteFrame(c, pos[c], 0) /\ lock = None /\ pending # "open"
    BY <1>1, <1>7 DEF Acquire, LockIsHeld
  <2>2. at[c] = "queued"
    <3>1. queue \in Seq(Callers) /\ queue # <<>> /\ c = Head(queue)
      BY <1>1, <1>7 DEF Acquire, TypeOK
    <3> QED
      BY <3>1, TheHeadLeaves DEF DInv, QueueWaits
  <2>3. InOrder'
    BY <1>2, <1>4, <1>7, <2>1, <2>2, WritingIsDue DEF Acquire
  <2> QED
    BY <1>1, <1>7, <2>1, <2>2, <2>3, WritingIsMapped DEF Acquire
<1>8. CASE Acknowledged(c)
  <2>1. /\ lock = c /\ at[c] = "ack" /\ pending = "accepted"
        /\ Len(taken[c]) = pos[c]
    BY <1>1, <1>8 DEF Acknowledged, Awaiting, RepliesAreTrue, Done
  <2>2. CASE pos[c] = Frames(c)
    <3>1. Leave(c, "sent") /\ UNCHANGED <<pos, outbound>>
      BY <1>2, <1>8, <2>2 DEF Acknowledged
    <3>2. InOrder'
      BY <1>3, <1>8, <2>1, <3>1, LeavingIsInOrder DEF Acknowledged
    <3> QED
      BY <1>1, <1>8, <2>1, <2>2, <3>1, <3>2, SucceedingIsSeen
      DEF Acknowledged, Leave
  <2>3. CASE pos[c] < Frames(c) /\ queue = <<>>
    <3>1. WriteFrame(c, pos[c] + 1, 0)
      BY <1>2, <1>8, <2>3 DEF Acknowledged
    <3>2. /\ pos[c] + 1 \in 1..KeyCount /\ pos[c] + 1 <= Frames(c)
          /\ Len(taken[c]) = (pos[c] + 1) - 1
      BY <1>2, <2>1, <2>3, BoundsAssumption
    <3>3. \A j \in 1..Len(outbound) : outbound[j].by # c
      BY <1>1, <2>1, NoFrameOnItsWay DEF Replies
    <3>4. InOrder'
      BY <1>2, <1>8, <2>1, <3>1, <3>2, <3>3, WritingIsDue DEF Acknowledged
    <3> QED
      BY <1>1, <1>8, <2>1, <3>1, <3>4, WritingIsMapped DEF Acknowledged
  <2>4. CASE pos[c] < Frames(c) /\ queue # <<>>
    <3>1. /\ Leave(c, "queued") /\ pos' = [pos EXCEPT ![c] = pos[c] + 1]
          /\ UNCHANGED outbound
      BY <1>2, <1>8, <2>4 DEF Acknowledged
    <3>2. InOrder'
      BY <1>3, <1>8, <2>1, <2>4, <3>1, LeavingIsInOrder DEF Acknowledged
    <3> QED
      BY <1>1, <1>8, <2>1, <3>1, <3>2, GoingOnIsUnseen
      DEF Acknowledged, Leave
  <2> QED
    BY <1>2, <2>2, <2>3, <2>4
<1>9. CASE BacksOff(c)
  <2>1. /\ lock = c /\ at[c] = "ack" /\ pending = "overrun"
        /\ at' = [at EXCEPT ![c] = "backoff"] /\ pending' = "none"
        /\ UNCHANGED <<pos, lock, reader, outbound, inbound, owed, taken>>
    BY <1>9 DEF BacksOff, Awaiting, lockVars
  <2>2. ~Done(c) /\ \A j \in 1..Len(outbound) : outbound[j].by # c
    BY <1>1, <2>1, NoFrameOnItsWay DEF RepliesAreTrue, Replies
  <2>3. \A d \in Callers : /\ at'[d] = at[d] \/ (d = c /\ at'[d] = "backoff")
                           /\ Done(d)' = Done(d)
    BY <1>1, <2>1 DEF TypeOK, Done
  <2>4. FramesCount'
    BY <1>1, <2>1, <2>2, <2>3 DEF FramesCount
  <2>5. FramesAreDue'
    BY <1>1, <2>1, <2>2, <2>3 DEF FramesAreDue, Replies
  <2>6. RepliesAreTrue'
    BY <1>3, <2>1 DEF RepliesAreTrue
  <2> QED
    BY <1>1, <2>1, <2>4, <2>5, <2>6, GoingOnIsUnseen DEF InOrder
<1>10. CASE Retries(c)
  <2>1. WriteFrame(c, pos[c], attempt + 1) /\ pending # "open" /\ lock = c
        /\ at[c] = "backoff"
    BY <1>1, <1>10 DEF Retries, LockIsHeld
  <2>2. attempt + 1 \in 0..Attempts
    BY <1>1, <2>1, BoundsAssumption DEF TypeOK, LockIsHeld
  <2>3. InOrder'
    BY <1>2, <1>4, <1>10, <2>1, <2>2, WritingIsDue DEF Retries
  <2> QED
    BY <1>1, <1>10, <2>1, <2>3, WritingIsMapped DEF Retries
<1>11. CASE CommandFails(c) \/ AckTimesOut(c)
  <2>1. /\ Leave(c, "failed") /\ lock = c /\ at[c] = "ack"
        /\ UNCHANGED <<pos, sessionVars, outbound, inbound, moduleVars>>
    BY <1>11 DEF CommandFails, AckTimesOut, Awaiting
  <2>2. reader = "reading" => outbound = <<>> /\ inbound = <<>> /\ owed = "none"
    BY <1>3, <1>11 DEF CommandFails, AckTimesOut, NoAnswerComing, Prompt
  <2>3. InOrder'
    BY <2>1, <2>2, LeavingIsInOrder
  <2> QED
    BY <1>1, <2>1, <2>3, FailingIsSeen DEF Leave
<1> QED
  BY <1>5, <1>6, <1>7, <1>8, <1>9, <1>10, <1>11 DEF CallerStep

\* The module takes the frame that is next for its caller.
LEMMA TakingIsSeen ==
  ASSUME DInv, NEW f, f = Head(outbound), outbound # <<>>,
         taken' = [taken EXCEPT ![f.by] = Append(@, f.n)], at' = at
  PROVE  [Delivery!Next]_Delivery!dvars
<1>1. f \in Command /\ f = outbound[1] /\ 1 \in 1..Len(outbound)
  <2>1. outbound \in Seq(Command)
    BY DEF DInv, Answered, CInv, TypeOK
  <2> QED
    BY <2>1
<1>2. f.by \in Callers
  BY <1>1 DEF Command
<1>3. f.n = pos[f.by] /\ ~Done(f.by) /\ at[f.by] \in {"ack", "failed"}
  BY <1>1, <1>2 DEF DInv, InOrder, FramesAreDue
<1>4. /\ pos[f.by] \in Nat /\ Len(taken[f.by]) \in Nat /\ Frames(f.by) \in Nat
      /\ pos[f.by] <= Frames(f.by)
      /\ Len(taken[f.by]) \in {pos[f.by] - 1, pos[f.by]}
  BY <1>2, FramesAreNumbered DEF DInv, InOrder, FramesCount
<1>5. f.n = Len(taken[f.by]) + 1 /\ Len(taken[f.by]) < Frames(f.by)
  BY <1>3, <1>4 DEF Done
<1>6. Outcome(f.by) # "sent" /\ \A d \in Callers : Outcome(d)' = Outcome(d)
  BY <1>3 DEF Outcome
<1>7. Delivery!Take(f.by)
  BY <1>2, <1>5, <1>6 DEF Delivery!Take
<1> QED
  BY <1>2, <1>7 DEF Delivery!Next

\* What the module does with a command keeps the order.
LEMMA TakingIsInOrder ==
  ASSUME DInv, ModuleTakes
  PROVE  InOrder' /\ [Delivery!Next]_Delivery!dvars
<1> USE DEF sessionVars, moduleVars, callerVars, lockVars
<1>0. PICK f, c : f = Head(outbound) /\ c = f.by
  OBVIOUS
<1>1. CInv /\ TypeOK /\ LockIsHeld /\ FramesCount /\ FramesAreDue /\ RepliesAreTrue
  BY DEF DInv, Answered, CInv, InOrder
<1>2. /\ outbound \in Seq(Command) /\ outbound # <<>> /\ Len(outbound) \in Nat
      /\ inbound \in Seq(Response) /\ Len(inbound) \in Nat
      /\ outbound' = Tail(outbound)
      /\ UNCHANGED <<at, pos, lock, pending, reader>>
  BY <1>1 DEF ModuleTakes, TypeOK
<1>3. /\ f = outbound[1] /\ 1 \in 1..Len(outbound) /\ c \in Callers
      /\ f.n = pos[c] /\ Len(taken[c]) = pos[c] - 1
      /\ at[c] = "ack" => pending \notin Replies
  <2>1. f \in Command /\ f = outbound[1] /\ 1 \in 1..Len(outbound)
    BY <1>0, <1>2
  <2>2. c \in Callers
    BY <1>0, <2>1 DEF Command
  <2>3. f.n = pos[c] /\ ~Done(c) /\ (at[c] = "ack" => pending \notin Replies)
    BY <1>0, <1>1, <2>1, <2>2 DEF FramesAreDue
  <2>4. Len(taken[c]) \in {pos[c] - 1, pos[c]}
    BY <1>1, <2>2 DEF FramesCount
  <2> QED
    BY <2>1, <2>2, <2>3, <2>4 DEF Done
\* The frames behind it are of other callers.
<1>4. /\ Len(outbound') = Len(outbound) - 1
      /\ \A j \in 1..Len(outbound') : outbound'[j] = outbound[j + 1]
      /\ \A j \in 1..Len(outbound') :
            j + 1 \in 1..Len(outbound) /\ outbound'[j].by # c
  <2>1. /\ Len(outbound') = Len(outbound) - 1
        /\ \A j \in 1..Len(outbound') : outbound'[j] = outbound[j + 1]
    BY <1>2
  <2>2. \A j \in 1..Len(outbound') : j + 1 \in 1..Len(outbound) /\ j + 1 # 1
    BY <1>2, <2>1
  <2> QED
    BY <1>0, <1>1, <1>3, <2>1, <2>2 DEF FramesAreDue
<1>5. reader = "reading" =>
         outbound' = <<>> /\ inbound = <<>> /\ owed = "none" /\ c = lock
  <2> SUFFICES ASSUME reader = "reading"
               PROVE  outbound' = <<>> /\ inbound = <<>> /\ owed = "none"
                      /\ c = lock
    OBVIOUS
  <2>1. InFlight <= 1
    BY DEF DInv, Answered, OneCommandInFlight
  <2>2. Len(outbound) = 1 /\ Len(inbound) = 0 /\ owed = "none"
    <3>1. Len(outbound) >= 1
      BY <1>2
    <3>2. Len(outbound) \in Nat /\ Len(inbound) \in Nat
      BY <1>2
    <3>3. owed = "none"
      BY ONLY <2>1, <3>1, <3>2 DEF InFlight
    <3> QED
      BY ONLY <2>1, <3>1, <3>2, <3>3 DEF InFlight
  <2>3. outbound' = <<>>
    BY <1>2, <2>2
  <2>4. c = lock
    BY <1>0, <1>1, <1>2, <1>3 DEF RepliesAreTrue
  <2> QED
    BY <1>2, <2>2, <2>3, <2>4
<1>6. CASE /\ taken' = [taken EXCEPT ![c] = Append(@, f.n)]
           /\ owed' # "none" /\ inbound' = inbound
  <2>1. Len(taken'[c]) = pos[c] /\ \A d \in Callers \ {c} : taken'[d] = taken[d]
    <3>1. taken[c] \in Seq(1..KeyCount) /\ c \in DOMAIN taken
      BY <1>1, <1>3 DEF TypeOK
    <3>2. taken'[c] = Append(taken[c], f.n)
      BY <1>6, <3>1
    <3>3. Len(taken'[c]) = Len(taken[c]) + 1
      BY <3>1, <3>2
    <3>4. Len(taken[c]) \in Nat /\ pos[c] \in Nat
      BY <1>3, FramesAreNumbered
    <3> QED
      BY <1>3, <1>6, <3>1, <3>3, <3>4
  <2>2. Done(c)' /\ \A d \in Callers \ {c} : Done(d)' = Done(d)
    BY <1>2, <2>1 DEF Done
  <2>3. at[c] \in {"ack", "failed"}
    BY <1>0, <1>1, <1>3 DEF FramesAreDue
  <2>4. FramesCount'
    <3> SUFFICES ASSUME NEW d \in Callers
                 PROVE  /\ pos[d] <= Frames(d)
                        /\ Len(taken'[d]) \in {pos[d] - 1, pos[d]}
                        /\ at[d] \in {"idle", "queued", "backoff"} => ~Done(d)'
                        /\ at[d] = "idle" => pos[d] = 1
      BY <1>2 DEF FramesCount
    <3>1. CASE d = c
      BY <1>1, <2>1, <2>3, <3>1 DEF FramesCount
    <3>2. CASE d # c
      BY <1>1, <2>1, <2>2, <3>2 DEF FramesCount
    <3> QED
      BY <3>1, <3>2
  <2>5. FramesAreDue'
    <3>1. \A j \in 1..Len(outbound'), d \in Callers :
             outbound'[j].by = d =>
                /\ outbound'[j].n = pos[d] /\ ~Done(d)'
                /\ at[d] \in {"ack", "failed"}
                /\ at[d] = "ack" => pending \notin Replies
      BY <1>1, <1>4, <2>2 DEF FramesAreDue
    <3>2. \A j, k \in 1..Len(outbound') :
             j # k => outbound'[j].by # outbound'[k].by
      BY <1>1, <1>2, <1>4 DEF FramesAreDue
    <3> QED
      BY <1>2, <3>1, <3>2 DEF FramesAreDue
  <2>6. RepliesAreTrue'
    <3>1. pending \in Replies => lock \in Callers \ {c} /\ at[lock] = "ack"
      BY <1>1, <1>3 DEF LockIsHeld, TypeOK, Replies
    <3>2. /\ pending = "accepted" => Done(lock)'
          /\ pending = "overrun" => ~Done(lock)'
      BY <1>1, <1>2, <2>2, <3>1 DEF RepliesAreTrue, Replies
    <3>3. reader = "reading" => Done(lock)' /\ outbound' = <<>> /\ inbound' = <<>>
      BY <1>2, <1>5, <1>6, <2>2
    <3> QED
      BY <1>2, <3>2, <3>3 DEF RepliesAreTrue
  <2> QED
    BY <1>0, <1>2, <1>6, <2>4, <2>5, <2>6, TakingIsSeen DEF InOrder
<1>7. CASE /\ UNCHANGED <<taken, owed>>
           /\ \E reply \in {"refused", "overrun"} :
                 inbound' = Append(inbound, [code |-> Code(c), reply |-> reply])
  <2>1. \A d \in Callers : Done(d)' = Done(d)
    BY <1>2, <1>7 DEF Done
  <2>2. FramesCount'
    BY <1>1, <1>2, <1>7, <2>1 DEF FramesCount
  <2>3. FramesAreDue'
    <3>1. \A j \in 1..Len(outbound'), d \in Callers :
             outbound'[j].by = d =>
                /\ outbound'[j].n = pos[d] /\ ~Done(d)'
                /\ at[d] \in {"ack", "failed"}
                /\ at[d] = "ack" => pending \notin Replies
      BY <1>1, <1>4, <2>1 DEF FramesAreDue
    <3>2. \A j, k \in 1..Len(outbound') :
             j # k => outbound'[j].by # outbound'[k].by
      BY <1>1, <1>2, <1>4 DEF FramesAreDue
    <3> QED
      BY <1>2, <3>1, <3>2 DEF FramesAreDue
  <2>4. RepliesAreTrue'
    <3>1. Done(lock)' = Done(lock)
      BY <1>2, <1>7 DEF Done
    <3>2. ASSUME reader = "reading"
          PROVE  /\ outbound' = <<>> /\ owed' = "none"
                 /\ inbound'[1].reply \in {"refused", "overrun"} /\ ~Done(lock)
      <4>1. PICK reply \in {"refused", "overrun"} :
               inbound' = Append(inbound, [code |-> Code(c), reply |-> reply])
        BY <1>7
      <4>2. inbound'[1] = [code |-> Code(c), reply |-> reply]
        BY <1>5, <3>2, <4>1
      <4>3. ~Done(c)
        <5>1. pos[c] \in Nat
          BY <1>3, FramesAreNumbered
        <5> QED
          BY <1>3, <5>1 DEF Done
      <4> QED
        BY <1>5, <1>7, <3>2, <4>2, <4>3
    <3> QED
      BY <1>1, <1>2, <3>1, <3>2 DEF RepliesAreTrue
  <2> QED
    BY <1>2, <1>7, <2>2, <2>3, <2>4, OthersAreUnseen DEF InOrder
<1> QED
  <2>1. Code(c) # "none"
    BY DEF Code
  <2> QED
    BY <1>0, <1>6, <1>7, <2>1 DEF ModuleTakes, Respond

\* The rest changes no frame and no caller; a reply that arrives is the truth.
LEMMA OthersKeepTheOrder ==
  ASSUME DInv,
         \/ Receive \/ ReaderEnds \/ ReaderCancelled \/ WriterCloses
         \/ DisconnectStarts \/ Connect \/ ModuleAnswers \/ ModuleReady
         \/ ModuleHangsUp
  PROVE  InOrder' /\ [Delivery!Next]_Delivery!dvars
<1> USE DEF sessionVars, moduleVars, callerVars, lockVars
<1>1. /\ CInv /\ TypeOK /\ LockIsHeld /\ SessionIsRead /\ OneCommandInFlight
      /\ FramesCount /\ FramesAreDue /\ RepliesAreTrue
  BY DEF DInv, Answered, CInv, InOrder
<1>2. UNCHANGED <<at, pos, lock, taken>>
  BY DEF Receive, ReaderEnds, ReaderCancelled, WriterCloses,
     DisconnectStarts, Connect, ModuleAnswers, ModuleReady, ModuleHangsUp
<1>3. [Delivery!Next]_Delivery!dvars
  BY <1>2, OthersAreUnseen
<1>4. FramesCount' /\ Done(lock)' = Done(lock)
      /\ \A c \in Callers : Done(c)' = Done(c)
  BY <1>1, <1>2 DEF FramesCount, Done
<1>5. ASSUME outbound' \in {outbound, <<>>},
             pending' \in Replies => pending' = pending \/ outbound' = <<>>
      PROVE  FramesAreDue'
  <2>1. CASE outbound' = <<>>
    <3>1. Len(outbound') = 0
      BY <2>1
    <3> QED
      BY <3>1 DEF FramesAreDue
  <2>2. CASE outbound' = outbound
    BY <1>1, <1>2, <1>4, <1>5, <2>2 DEF FramesAreDue
  <2> QED
    BY <1>5, <2>1, <2>2
<1>6. CASE Receive
  <2>1. reader = "reading" /\ inbound # <<>> /\ inbound' = Tail(inbound)
        /\ UNCHANGED <<reader, outbound, owed>>
    BY <1>6 DEF Receive
  <2>2. outbound \in Seq(Command) /\ inbound \in Seq(Response)
    BY <1>1 DEF TypeOK
  <2>3. Len(outbound) = 0 /\ Len(inbound) = 1 /\ owed = "none"
    <3>1. InFlight <= 1 /\ Len(inbound) >= 1
      BY <1>1, <2>1, <2>2 DEF OneCommandInFlight
    <3>2. Len(outbound) \in Nat /\ Len(inbound) \in Nat
      BY <2>2
    <3>3. owed = "none"
      BY ONLY <3>1, <3>2 DEF InFlight
    <3> QED
      BY ONLY <3>1, <3>2, <3>3 DEF InFlight
  <2>4. outbound = <<>> /\ inbound' = <<>> /\ Head(inbound) = inbound[1]
    BY <2>1, <2>2, <2>3
  <2>5. pending' = pending \/ pending' = inbound[1].reply
    BY <1>6, <2>4 DEF Receive
  <2>6. FramesAreDue'
    BY <1>5, <2>1, <2>4
  <2>7. RepliesAreTrue'
    BY <1>1, <1>2, <1>4, <2>1, <2>3, <2>4, <2>5 DEF RepliesAreTrue
  <2> QED
    BY <1>3, <1>4, <2>6, <2>7 DEF InOrder
<1>7. CASE ReaderEnds \/ ReaderCancelled \/ WriterCloses \/ DisconnectStarts
  <2>1. /\ pending' \in {pending, "lost"} /\ reader' # "reading"
        /\ outbound' \in {outbound, <<>>}
    BY <1>1, <1>7 DEF ReaderEnds, ReaderCancelled, WriterCloses,
       DisconnectStarts, AbortPendingAck, TypeOK
  <2>2. FramesAreDue'
    BY <1>5, <2>1 DEF Replies
  <2>3. RepliesAreTrue'
    BY <1>1, <1>4, <2>1 DEF RepliesAreTrue
  <2> QED
    BY <1>3, <1>4, <2>2, <2>3 DEF InOrder
<1>8. CASE Connect
  <2>1. /\ outbound' = <<>> /\ inbound' = <<>> /\ pending' = pending
        /\ owed' = "none"
    BY <1>1, <1>8 DEF Connect, SessionIsRead
  <2>2. FramesAreDue'
    BY <1>5, <2>1
  <2>3. RepliesAreTrue'
    BY <1>1, <1>4, <2>1 DEF RepliesAreTrue
  <2> QED
    BY <1>3, <1>4, <2>2, <2>3 DEF InOrder
<1>9. CASE ModuleAnswers
  <2>1. /\ UNCHANGED <<outbound, reader, pending>> /\ owed # "none"
        /\ owed' = "none"
        /\ inbound' = Append(inbound, [code |-> owed, reply |-> "accepted"])
    BY <1>9 DEF ModuleAnswers, Respond
  <2>2. FramesAreDue'
    BY <1>5, <2>1
  <2>3. reader = "reading" => outbound = <<>> /\ inbound = <<>> /\ Done(lock)
    <3>1. Len(outbound) \in Nat /\ Len(inbound) \in Nat
          /\ outbound \in Seq(Command) /\ inbound \in Seq(Response)
      BY <1>1 DEF TypeOK
    <3>2. reader = "reading" => Len(outbound) = 0 /\ Len(inbound) = 0
      BY <1>1, <2>1, <3>1 DEF OneCommandInFlight, InFlight
    <3> QED
      BY <1>1, <2>1, <3>1, <3>2 DEF RepliesAreTrue
  <2>4. reader = "reading" =>
           inbound' = << [code |-> owed, reply |-> "accepted"] >>
    BY <2>1, <2>3
  <2>5. RepliesAreTrue'
    BY <1>1, <1>2, <1>4, <2>1, <2>3, <2>4 DEF RepliesAreTrue
  <2> QED
    BY <1>3, <1>4, <2>2, <2>5 DEF InOrder
<1>10. CASE ModuleReady
  <2>1. UNCHANGED <<outbound, inbound, owed, reader, pending>>
    BY <1>10 DEF ModuleReady
  <2>2. FramesAreDue'
    BY <1>5, <2>1
  <2>3. RepliesAreTrue'
    BY <1>1, <1>2, <1>4, <2>1 DEF RepliesAreTrue
  <2> QED
    BY <1>3, <1>4, <2>2, <2>3 DEF InOrder
<1>11. CASE ModuleHangsUp
  <2>1. /\ outbound' = <<>> /\ owed' = "none"
        /\ UNCHANGED <<inbound, reader, pending>>
    BY <1>11 DEF ModuleHangsUp
  <2>2. FramesAreDue'
    BY <1>5, <2>1
  <2>3. RepliesAreTrue'
    BY <1>1, <1>4, <2>1 DEF RepliesAreTrue
  <2> QED
    BY <1>3, <1>4, <2>2, <2>3 DEF InOrder
<1> QED
  BY <1>6, <1>7, <1>8, <1>9, <1>10, <1>11

LEMMA DInvIsInductive ==
  ASSUME Prompt
  PROVE  DInv /\ [Next]_vars => DInv' /\ [Delivery!Next]_Delivery!dvars
<1> SUFFICES ASSUME DInv, [Next]_vars
             PROVE  DInv' /\ [Delivery!Next]_Delivery!dvars
  OBVIOUS
<1>1. Answered' /\ QueueWaits'
  BY AnsweredIsInductive, QueueIsInductive DEF DInv, Answered
<1>2. InOrder' /\ [Delivery!Next]_Delivery!dvars
  <2>1. CASE \E c \in Callers : Submit(c) \/ Abandons(c) \/ CallerStep(c)
    BY <2>1, CallersDeliverInOrder
  <2>2. CASE ModuleTakes
    BY <2>2, TakingIsInOrder
  <2>3. CASE \/ ReaderStep \/ DisconnectStarts \/ Connect
             \/ ModuleAnswers \/ ModuleReady \/ ModuleHangsUp
    BY <2>3, OthersKeepTheOrder DEF ReaderStep
  <2>4. CASE UNCHANGED vars
    <3>1. [Delivery!Next]_Delivery!dvars
      BY <2>4, OthersAreUnseen DEF vars, callerVars, moduleVars
    <3>2. InOrder'
      BY <2>4 DEF vars, callerVars, moduleVars, lockVars, sessionVars, DInv,
                  InOrder, FramesCount, FramesAreDue, RepliesAreTrue, Done
    <3> QED
      BY <3>1, <3>2
  <2> QED
    BY <2>1, <2>2, <2>3, <2>4 DEF Next, ModuleStep
<1> QED
  BY <1>1, <1>2 DEF DInv

\* Every caller's frames reach the module in their order, none twice and none
\* left out, across overruns, retries, lost sessions and other callers' frames;
\* and a sequence is reported as sent only when the module has taken all of it
\* (client.py's send_keystrokes and _send).
THEOREM KeysAreDelivered ==
  ASSUME Prompt
  PROVE  Spec => ImplementsDelivery
<1>1. Init => Delivery!Init
  BY DEF Init, Delivery!Init, Outcome
<1>2. DInv /\ [Next]_vars => DInv' /\ [Delivery!Next]_Delivery!dvars
  BY DInvIsInductive
<1> QED
  BY InitIsInOrder, <1>1, <1>2, PTL
     DEF Spec, ImplementsDelivery, Delivery!Spec

\* What KeyDelivery's steps add up to.
TakenInFull ==
    \A c \in Callers :
        /\ \A i \in 1..Len(taken[c]) : taken[c][i] = i
        /\ at[c] = "sent" => Len(taken[c]) = Frames(c)

LEMMA DeliveryAddsUp ==
  ASSUME TypeOK, TakenInFull, [Delivery!Next]_Delivery!dvars
  PROVE  TakenInFull'
<1>1. \A c \in Callers : taken[c] \in Seq(1..KeyCount)
  BY DEF TypeOK
<1>2. \A c \in Callers : at'[c] = "sent" <=> Outcome(c)' = "sent"
  BY DEF Outcome
<1>3. \A c \in Callers : at[c] = "sent" <=> Outcome(c) = "sent"
  BY DEF Outcome
<1>4. CASE UNCHANGED Delivery!dvars
  <2>1. taken' = taken /\ \A c \in Callers : Outcome(c)' = Outcome(c)
    BY <1>4 DEF Delivery!dvars
  <2> QED
    BY <1>2, <1>3, <2>1 DEF TakenInFull
<1>5. ASSUME NEW s \in Callers, Delivery!Take(s)
      PROVE  TakenInFull'
  <2>1. /\ Outcome(s) # "sent" /\ \A c \in Callers : Outcome(c)' = Outcome(c)
        /\ taken' = [taken EXCEPT ![s] = Append(taken[s], Len(taken[s]) + 1)]
    BY <1>5 DEF Delivery!Take
  <2>2. taken'[s] = Append(taken[s], Len(taken[s]) + 1)
        /\ \A c \in Callers \ {s} : taken'[c] = taken[c]
    BY <2>1 DEF TypeOK
  <2>3. \A i \in 1..Len(taken'[s]) : taken'[s][i] = i
    BY <1>1, <2>2 DEF TakenInFull
  <2> QED
    BY <1>2, <1>3, <2>1, <2>2, <2>3 DEF TakenInFull
<1>6. ASSUME NEW s \in Callers, Delivery!Succeed(s) \/ Delivery!Fail(s)
      PROVE  TakenInFull'
  <2>1. /\ taken' = taken
        /\ \A c \in Callers : Outcome(c)' = Outcome(c) \/ c = s
        /\ Outcome(s)' = "sent" => Len(taken[s]) = Frames(s)
    BY <1>6 DEF Delivery!Succeed, Delivery!Fail
  <2> QED
    BY <1>2, <1>3, <2>1 DEF TakenInFull
<1> QED
  BY <1>4, <1>5, <1>6 DEF Delivery!Next

\* A sequence reported as sent was accepted by the module key by key, as the
\* outcome SUCCESS says, where answers are prompt; find_late_ack shows a
\* sequence reported as sent that was not.
THEOREM PromptSuccessMeansEveryKey ==
  ASSUME Prompt
  PROVE  Spec => []SuccessMeansEveryKey
<1>1. Init => TakenInFull
  BY DEF Init, TakenInFull
<1>2. DInv /\ TakenInFull /\ [Next]_vars => DInv' /\ TakenInFull'
  BY DInvIsInductive, DeliveryAddsUp DEF DInv, Answered, CInv
<1>3. DInv /\ TakenInFull => SuccessMeansEveryKey
  <2> SUFFICES ASSUME DInv, TakenInFull, NEW c \in Typists, at[c] = "sent",
                      NEW k \in 1..KeyCount
               PROVE  \E i \in DOMAIN taken[c] : taken[c][i] = k
    BY DEF SuccessMeansEveryKey
  <2>1. taken[c] \in Seq(1..KeyCount) /\ Len(taken[c]) = KeyCount
    BY DEF DInv, Answered, CInv, TypeOK, TakenInFull, Frames, Callers
  <2>2. k \in DOMAIN taken[c] /\ taken[c][k] = k
    BY <2>1 DEF TakenInFull, Callers
  <2> QED
    BY <2>2
<1> QED
  BY InitIsInOrder, <1>1, <1>2, <1>3, PTL DEF Spec
=============================================================================
