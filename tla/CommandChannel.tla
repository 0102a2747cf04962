--------------------------- MODULE CommandChannel ---------------------------
(***************************************************************************)
(* The command channel of one TPI client (client.py: _send and what feeds  *)
(* its acknowledgements).  Any number of coroutines send keystroke         *)
(* sequences and polls through one FIFO asyncio.Lock, one frame per        *)
(* acquisition; the module answers every frame, but an answer carries only *)
(* the command's code, not which command of that code it answers.          *)
(*                                                                         *)
(* A step is what a coroutine does between two awaits.  The module is      *)
(* external: it takes one command at a time and rejects another as an      *)
(* overrun while it is still answering or clocking the last one.           *)
(* The session comes and goes as TpiSession has it; here it is enough that *)
(* no connect() replaces a session whose read loop runs (NoReaderDropped). *)
(***************************************************************************)
EXTENDS Naturals, Sequences, FiniteSets

CONSTANTS
    Typists,       \* callers of send_keystrokes, each with one sequence
    Pollers,       \* callers of keep_alive
    KeyCount,      \* keys in a sequence
    Attempts,      \* COMMAND_RETRY_ATTEMPTS
    MaxSessions,   \* bound: sessions the client opens
    None,          \* nobody
    Faults         \* "loss" of the session by either side, and a module that
                   \* may "refuse" a command or answer "late"; callers may
                   \* "cancel" with a command in flight

ASSUME CallersAssumption ==
    /\ Typists \cap Pollers = {}
    /\ None \notin Typists \cup Pollers

ASSUME BoundsAssumption ==
    /\ KeyCount \in Nat \ {0}
    /\ Attempts \in Nat
    /\ MaxSessions \in Nat
    /\ Faults \subseteq {"loss", "refuse", "late", "cancel"}

Callers == Typists \cup Pollers
Code(c) == IF c \in Typists THEN "key" ELSE "poll"
Frames(c) == IF c \in Typists THEN KeyCount ELSE 1

VARIABLES
    at,         \* where each caller is
    pos,        \* the frame of its sequence each caller is at
    attempt,    \* the lock holder's attempt at its frame
    lock,       \* the holder of _command_lock
    queue,      \* the lock's waiters
    pending,    \* _pending_ack, always the lock holder's
    session,    \* the socket: "none", "up", or "eof" (closed by the module)
    reader,     \* the read loop
    closing,    \* a disconnect() is awaiting the read loop
    sessions,   \* sessions opened so far
    outbound,   \* frames on their way to the module
    inbound,    \* responses on their way to the client
    owed,       \* the code of the command the module has yet to answer
    busy,       \* the module cannot take another command
    taken       \* each caller's frames that the module has accepted, in order

callerVars == <<at, pos, attempt>>
lockVars == <<lock, queue>>
sessionVars == <<session, reader, closing, sessions>>
moduleVars == <<owed, busy, taken>>
vars == <<callerVars, lockVars, pending, sessionVars, outbound, inbound,
          moduleVars>>

Command == [by : Callers, n : 1..KeyCount]
Codes == {"key", "poll"}
Replies == {"accepted", "overrun", "refused"}
Response == [code : Codes, reply : Replies]

TypeOK ==
    /\ at \in [Callers -> {"idle", "queued", "ack", "backoff", "sent", "failed"}]
    /\ pos \in [Callers -> 1..KeyCount]
    /\ attempt \in 0..Attempts
    /\ lock \in Callers \cup {None}
    /\ queue \in Seq(Callers)
    /\ pending \in Replies \cup {"none", "open", "lost"}
    /\ session \in {"none", "up", "eof"}
    /\ reader \in {"none", "reading", "cancelled"}
    /\ closing \in BOOLEAN
    /\ sessions \in 0..MaxSessions
    /\ outbound \in Seq(Command)
    /\ inbound \in Seq(Response)
    /\ owed \in Codes \cup {"none"}
    /\ busy \in BOOLEAN
    /\ taken \in [Callers -> Seq(1..KeyCount)]

Init ==
    /\ at = [c \in Callers |-> "idle"]
    /\ pos = [c \in Callers |-> 1]
    /\ attempt = 0
    /\ lock = None /\ queue = <<>>
    /\ pending = "none"
    /\ session = "none" /\ reader = "none" /\ closing = FALSE /\ sessions = 0
    /\ outbound = <<>> /\ inbound = <<>>
    /\ owed = "none" /\ busy = FALSE
    /\ taken = [c \in Callers |-> <<>>]

-----------------------------------------------------------------------------
(* _send: under the lock.                                                  *)

\* c lets go of the lock, having sent everything or having given up.
Leave(c, how) ==
    /\ at' = [at EXCEPT ![c] = how]
    /\ lock' = None
    /\ pending' = "none"
    /\ attempt' = 0

\* Mutant: the lock covers the write and not the wait for the answer.
WriteFrameUnderLock(c, i, n) ==
    /\ pos' = [pos EXCEPT ![c] = i]
    /\ at' = [at EXCEPT ![c] = "ack"]
    /\ lock' = None
    /\ pending' = "open"
    /\ attempt' = n
    /\ outbound' = Append(outbound, [by |-> c, n |-> i])

\* c, holding the lock, tries frame i for the n-th time.
WriteFrame(c, i, n) ==
    /\ pos' = [pos EXCEPT ![c] = i]
    /\ IF session = "none"
         THEN /\ Leave(c, "failed")
              /\ UNCHANGED outbound
         ELSE /\ at' = [at EXCEPT ![c] = "ack"]
              /\ lock' = c
              /\ pending' = "open"
              /\ attempt' = n
              /\ outbound' = IF session = "up"
                               THEN Append(outbound, [by |-> c, n |-> i])
                               ELSE outbound

LockIsFree == lock = None /\ queue = <<>>

Submit(c) ==
    /\ at[c] = "idle"
    /\ IF LockIsFree
         THEN WriteFrame(c, 1, 0) /\ UNCHANGED queue
         ELSE /\ at' = [at EXCEPT ![c] = "queued"]
              /\ queue' = Append(queue, c)
              /\ UNCHANGED <<pos, attempt, lock, pending, outbound>>
    /\ UNCHANGED <<sessionVars, inbound, moduleVars>>

Acquire(c) ==
    /\ lock = None /\ queue # <<>> /\ c = Head(queue)
    /\ queue' = Tail(queue)
    /\ WriteFrame(c, pos[c], 0)
    /\ UNCHANGED <<sessionVars, inbound, moduleVars>>

Awaiting(c) == lock = c /\ at[c] = "ack"

\* Mutant: an overrun counts as an acknowledgement.
AcknowledgedOnAnyReply(c) ==
    /\ Awaiting(c) /\ pending \in {"accepted", "overrun"}
    /\ \/ /\ pos[c] = Frames(c)
          /\ Leave(c, "sent")
          /\ UNCHANGED <<pos, outbound>>
       \/ pos[c] < Frames(c) /\ WriteFrame(c, pos[c] + 1, 0)
    /\ UNCHANGED <<queue, sessionVars, inbound, moduleVars>>

\* Accepted: on to the next frame, behind whoever is waiting for the lock.
Acknowledged(c) ==
    /\ Awaiting(c) /\ pending = "accepted"
    /\ \/ /\ pos[c] = Frames(c)
          /\ Leave(c, "sent")
          /\ UNCHANGED <<pos, queue, outbound>>
       \/ /\ pos[c] < Frames(c) /\ queue = <<>>
          /\ WriteFrame(c, pos[c] + 1, 0)
          /\ UNCHANGED queue
       \/ /\ pos[c] < Frames(c) /\ queue # <<>>
          /\ Leave(c, "queued")
          /\ queue' = Append(queue, c)
          /\ pos' = [pos EXCEPT ![c] = pos[c] + 1]
          /\ UNCHANGED outbound
    /\ UNCHANGED <<sessionVars, inbound, moduleVars>>

\* Mutant: an overrun is retried for ever.
MayRetryForever == TRUE

MayRetry == attempt < Attempts

\* An overrun is retried after a pause, without letting go of the lock.
BacksOff(c) ==
    /\ Awaiting(c) /\ pending = "overrun" /\ MayRetry
    /\ at' = [at EXCEPT ![c] = "backoff"]
    /\ pending' = "none"
    /\ UNCHANGED <<pos, attempt, lockVars, sessionVars, outbound, inbound,
                   moduleVars>>

Retries(c) ==
    /\ at[c] = "backoff"
    /\ WriteFrame(c, pos[c], attempt + 1)
    /\ UNCHANGED <<queue, sessionVars, inbound, moduleVars>>

CommandFails(c) ==
    /\ Awaiting(c)
    /\ \/ pending \in {"refused", "lost"}
       \/ pending = "overrun" /\ ~MayRetry
    /\ Leave(c, "failed")
    /\ UNCHANGED <<pos, queue, sessionVars, outbound, inbound, moduleVars>>

\* Without the fault "late" the module answers well within the ack timeout, so
\* a timeout means that no answer is on its way to a read loop.
NoAnswerComing ==
    \/ reader = "none"
    \/ outbound = <<>> /\ inbound = <<>> /\ owed = "none"

\* Mutant: a timed-out command is left in _pending_ack, holding the lock.
AckTimesOutKeepingTheLock(c) ==
    /\ Awaiting(c) /\ pending = "open"
    /\ "late" \in Faults \/ NoAnswerComing
    /\ at' = [at EXCEPT ![c] = "failed"]
    /\ UNCHANGED <<pos, attempt, lockVars, pending, sessionVars, outbound,
                   inbound, moduleVars>>

AckTimesOut(c) ==
    /\ Awaiting(c) /\ pending = "open"
    /\ "late" \in Faults \/ NoAnswerComing
    /\ Leave(c, "failed")
    /\ UNCHANGED <<pos, queue, sessionVars, outbound, inbound, moduleVars>>

Without(s, i) == SubSeq(s, 1, i - 1) \o SubSeq(s, i + 1, Len(s))

\* The caller's task is cancelled; "cancel" allows it with a command in flight.
Abandons(c) ==
    /\ \/ /\ at[c] = "queued"
          /\ at' = [at EXCEPT ![c] = "failed"]
          /\ \E i \in DOMAIN queue :
                queue[i] = c /\ queue' = Without(queue, i)
          /\ UNCHANGED <<lock, pending, attempt>>
       \/ /\ at[c] = "backoff" \/ (Awaiting(c) /\ "cancel" \in Faults)
          /\ Leave(c, "failed")
          /\ UNCHANGED queue
    /\ UNCHANGED <<pos, sessionVars, outbound, inbound, moduleVars>>

-----------------------------------------------------------------------------
(* _read_loop, _consume_buffer and the end of a session.                   *)

\* A response resolves the pending acknowledgement of its code, or nothing.
Receive ==
    /\ reader = "reading" /\ inbound # <<>>
    /\ inbound' = Tail(inbound)
    /\ pending' = IF pending = "open" /\ Head(inbound).code = Code(lock)
                    THEN Head(inbound).reply
                    ELSE pending
    /\ UNCHANGED <<callerVars, lockVars, sessionVars, outbound, moduleVars>>

AbortPendingAck == pending' = IF pending = "open" THEN "lost" ELSE pending

ReaderEnds ==
    /\ reader = "reading" /\ session = "eof" /\ inbound = <<>>
    /\ reader' = "none"
    /\ AbortPendingAck
    /\ UNCHANGED <<callerVars, lockVars, session, closing, sessions, outbound,
                   inbound, moduleVars>>

\* disconnect() up to awaiting the cancelled read loop.
DisconnectStarts ==
    /\ "loss" \in Faults /\ session # "none" /\ ~closing
    /\ closing' = TRUE
    /\ reader' = IF reader = "reading" THEN "cancelled" ELSE reader
    /\ AbortPendingAck
    /\ UNCHANGED <<callerVars, lockVars, session, sessions, outbound, inbound,
                   moduleVars>>

ReaderCancelled ==
    /\ reader = "cancelled"
    /\ reader' = "none"
    /\ AbortPendingAck
    /\ UNCHANGED <<callerVars, lockVars, session, closing, sessions, outbound,
                   inbound, moduleVars>>

\* The read loop is over: _writer is taken and closed.
WriterCloses ==
    /\ closing /\ reader = "none"
    /\ closing' = FALSE
    /\ session' = "none"
    /\ outbound' = <<>> /\ inbound' = <<>> /\ owed' = "none"
    /\ UNCHANGED <<callerVars, lockVars, pending, reader, sessions, busy, taken>>

\* connect(), from nothing or over a socket whose read loop has ended.
Connect ==
    /\ session # "up" /\ reader = "none" /\ ~closing
    /\ sessions < MaxSessions
    /\ session' = "up" /\ reader' = "reading"
    /\ sessions' = sessions + 1
    /\ outbound' = <<>> /\ inbound' = <<>>
    /\ UNCHANGED <<callerVars, lockVars, pending, closing, moduleVars>>

-----------------------------------------------------------------------------
(* The module.                                                             *)

Respond(code, reply) == inbound' = Append(inbound, [code |-> code, reply |-> reply])

ModuleTakes ==
    /\ session = "up" /\ outbound # <<>>
    /\ outbound' = Tail(outbound)
    /\ \/ /\ ~busy
          /\ taken' = [taken EXCEPT ![Head(outbound).by] =
                                Append(@, Head(outbound).n)]
          /\ owed' = Code(Head(outbound).by)
          /\ busy' = TRUE
          /\ UNCHANGED inbound
       \/ /\ ~busy /\ "refuse" \in Faults
          /\ Respond(Code(Head(outbound).by), "refused")
          /\ UNCHANGED moduleVars
       \/ /\ busy
          /\ Respond(Code(Head(outbound).by), "overrun")
          /\ UNCHANGED moduleVars
    /\ UNCHANGED <<callerVars, lockVars, pending, sessionVars>>

ModuleAnswers ==
    /\ session = "up" /\ owed # "none"
    /\ Respond(owed, "accepted")
    /\ owed' = "none"
    /\ UNCHANGED <<callerVars, lockVars, pending, sessionVars, outbound, busy,
                   taken>>

\* The keypress has been clocked onto the keybus.
ModuleReady ==
    /\ busy /\ owed = "none"
    /\ busy' = FALSE
    /\ UNCHANGED <<callerVars, lockVars, pending, sessionVars, outbound,
                   inbound, owed, taken>>

ModuleHangsUp ==
    /\ "loss" \in Faults /\ session = "up"
    /\ session' = "eof"
    /\ outbound' = <<>>
    /\ owed' = "none"
    /\ UNCHANGED <<callerVars, lockVars, pending, reader, closing, sessions,
                   inbound, busy, taken>>

-----------------------------------------------------------------------------
CallerStep(c) ==
    \/ Acquire(c) \/ Acknowledged(c) \/ BacksOff(c) \/ Retries(c)
    \/ CommandFails(c) \/ AckTimesOut(c)

ReaderStep == Receive \/ ReaderEnds \/ ReaderCancelled \/ WriterCloses

ModuleStep == ModuleTakes \/ ModuleAnswers \/ ModuleReady

Next ==
    \/ \E c \in Callers : Submit(c) \/ Abandons(c) \/ CallerStep(c)
    \/ ReaderStep
    \/ DisconnectStarts \/ Connect
    \/ ModuleStep \/ ModuleHangsUp

\* The event loop runs what can run, pauses and timeouts end, and a module
\* whose session is up deals with what it was sent.  Nobody has to submit,
\* cancel, connect, disconnect or hang up.
Fairness ==
    /\ \A c \in Callers : WF_vars(CallerStep(c))
    /\ WF_vars(ReaderStep) /\ WF_vars(ModuleStep)

Spec == Init /\ [][Next]_vars
FairSpec == Spec /\ Fairness

-----------------------------------------------------------------------------
InFlight == Len(outbound) + Len(inbound) + IF owed = "none" THEN 0 ELSE 1

\* On a session that is being read there is at most one command whose answer
\* has not arrived, and it is the one whose caller is waiting for it: so the
\* answer that arrives next, though it names only a code, is that command's.
OneCommandInFlight ==
    reader = "reading" =>
        /\ InFlight <= 1
        /\ InFlight = 1 => pending = "open"

\* The lock is never left behind: every sequence and every poll that was
\* submitted ends, sent or failed, whatever happens to the session.
CommandsFinish ==
    \A c \in Callers : at[c] # "idle" ~> at[c] \in {"sent", "failed"}

-----------------------------------------------------------------------------
(* What the documents promise: kept where no answer comes too late.        *)

\* "The panel acknowledged every keystroke of the sequence", says the outcome
\* SUCCESS: a sequence reported as sent was accepted by the module, key by key.
SuccessMeansEveryKey ==
    \A c \in Typists : at[c] = "sent" =>
        \A k \in 1..KeyCount : \E i \in DOMAIN taken[c] : taken[c][i] = k
=============================================================================
