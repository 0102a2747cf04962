------------------------ MODULE ProgrammingFormProofs ------------------------
(***************************************************************************)
(* The programming form is well typed and spends every authorization on    *)
(* one attempt, for any number of presses, any panel and any faults.       *)
(***************************************************************************)
EXTENDS ProgrammingForm, TLAPS

\* The press that is away at the client is the one that has the turn.
SenderHasTurn == \A p \in Presses : at[p] = "sending" => turn = p

FInv == TypeOK /\ SenderHasTurn

\* The parts of a step that only sets an entity of the form.
Edits == \/ SetZone \/ SetTiming \/ SetKey \/ StateConnection
         \/ \E s \in Switches : SetSwitch(s)

\* No button has been pressed on a fresh form (coordinator.__init__).
LEMMA InitFInv == Init => FInv
BY ConstantsAssumption DEF Init, FInv, TypeOK, SenderHasTurn, Ops

\* Setting an entity leaves presses alone and the form typed.
LEMMA EditsKeepFInv == FInv /\ Edits => FInv'
<1> SUFFICES ASSUME FInv, Edits PROVE FInv'
  OBVIOUS
<1> USE DEF FInv, TypeOK, SenderHasTurn, pressVars, grantVars
<1>1. CASE SetZone
  BY <1>1 DEF SetZone
<1>2. CASE SetTiming
  BY <1>2 DEF SetTiming
<1>3. CASE SetKey
  BY <1>3 DEF SetKey
<1>4. CASE StateConnection
  BY <1>4 DEF StateConnection, valueVars
<1>5. CASE \E s \in Switches : SetSwitch(s)
  BY <1>5 DEF SetSwitch, valueVars
<1> QED
  BY <1>1, <1>2, <1>3, <1>4, <1>5 DEF Edits

\* What a sequence rests on is a set of authorizations, never an empty one.
LEMMA RisksAreGrants ==
  ASSUME NEW o \in Ops
  PROVE  Risks(o) \subseteq Switches \cup {"wired"} /\ Risks(o) # {}
BY DEF Risks, Switches

\* A step of async_press, its turn's beginning and end included.
LEMMA PressKeepsFInv ==
  ASSUME FInv, NEW p \in Presses, PressStep(p)
  PROVE  FInv'
<1> USE DEF FInv, TypeOK, SenderHasTurn, valueVars, grantVars, pressVars
<1>1. CASE Press(p)
  BY <1>1 DEF Press
<1>2. CASE Cancelled(p)
  BY <1>2 DEF Cancelled
<1>3. CASE Unauthorized(p)
  BY <1>3 DEF Unauthorized, HasTurn
<1>4. CASE Unconfirmed(p)
  BY <1>4 DEF Unconfirmed, HasTurn, Outcomes
<1>5. CASE Refused(p)
  BY <1>5 DEF Refused, HasTurn, Spend, Outcomes
<1>6. CASE Sends(p)
  <2>1. /\ turn = None /\ turn' = p /\ at' = [at EXCEPT ![p] = "sending"]
        /\ sequence' = Risks(op[p])
        /\ UNCHANGED <<number, type, timing, key, connection, switches, op,
                       result>>
    BY <1>6 DEF Sends, HasTurn
  <2>2. Risks(op[p]) \subseteq Switches \cup {"wired"} /\ Risks(op[p]) # {}
    BY RisksAreGrants
  <2>3. TypeOK'
    BY <2>1, <2>2, ConstantsAssumption
  <2>4. SenderHasTurn'
    BY <2>1, ConstantsAssumption
  <2> QED
    BY <2>3, <2>4
<1>7. CASE Ends(p)
  <2>1. /\ turn = p /\ turn' = None /\ at' = [at EXCEPT ![p] = "done"]
        /\ sequence' = {} /\ switches' = {} /\ connection' = "unset"
        /\ UNCHANGED <<number, type, timing, key, op>>
    BY <1>7 DEF Ends, Spend
  <2>2. result' \in Outcomes \cup {"none"}
    BY <1>7 DEF Ends, Ending, Record, Outcomes
  <2>3. TypeOK'
    BY <2>1, <2>2, ConstantsAssumption
  <2>4. SenderHasTurn'
    BY <2>1, ConstantsAssumption
  <2> QED
    BY <2>3, <2>4
<1> QED
  BY <1>1, <1>2, <1>3, <1>4, <1>5, <1>6, <1>7 DEF PressStep

\* Every step is an edit of the form or a step of a press.
LEMMA NextKeepsFInv == FInv /\ [Next]_vars => FInv'
<1> SUFFICES ASSUME FInv, [Next]_vars PROVE FInv'
  OBVIOUS
<1>1. CASE Edits
  BY <1>1, EditsKeepFInv
<1>2. CASE \E p \in Presses : PressStep(p)
  BY <1>2, PressKeepsFInv
<1>3. CASE UNCHANGED vars
  BY <1>3 DEF FInv, TypeOK, SenderHasTurn, vars, valueVars, grantVars,
              pressVars
<1> QED
  BY <1>1, <1>2, <1>3 DEF Next, Edits

\* The form, the presses and the result stay well typed, and the platform's
\* turn is with the one press that sends.
LEMMA FormInvariant == Spec => []FInv
BY InitFInv, NextKeepsFInv, PTL DEF Spec

\* Type correctness, which is not inductive without SenderHasTurn.
THEOREM FormIsTyped == Spec => []TypeOK
BY FormInvariant, PTL DEF FInv

-----------------------------------------------------------------------------
(* The form implements Authorization.                                      *)

\* Setting an entity gives or withdraws one authorization at most.
LEMMA EditsGiveOrWithdraw ==
  FInv /\ Edits => [Promise!Next]_Promise!avars
<1> SUFFICES ASSUME FInv, Edits PROVE [Promise!Next]_Promise!avars
  OBVIOUS
<1> USE DEF FInv, TypeOK, grantVars, Granted
<1>1. CASE SetZone
  BY <1>1 DEF SetZone, Promise!avars
<1>2. CASE SetTiming
  BY <1>2 DEF SetTiming, Promise!avars
<1>3. CASE SetKey
  BY <1>3 DEF SetKey, Promise!avars
<1>4. CASE StateConnection
  <2>1. UNCHANGED sequence /\ UNCHANGED switches
    BY <1>4 DEF StateConnection
  <2>2. CASE connection' = "wired"
    <3>1. Granted' = Granted \cup {"wired"}
      BY <2>1, <2>2
    <3>2. Promise!Give("wired")
      BY <2>1, <3>1 DEF Promise!Give
    <3> QED
      BY <3>2 DEF Promise!Next
  <2>3. CASE connection' = "wireless"
    <3>1. Granted' = Granted \ {"wired"}
      BY <2>1, <2>3 DEF Switches
    <3>2. Promise!Withdraw("wired")
      BY <2>1, <3>1 DEF Promise!Withdraw
    <3> QED
      BY <3>2 DEF Promise!Next
  <2> QED
    BY <1>4, <2>2, <2>3 DEF StateConnection
<1>5. ASSUME NEW s \in Switches, SetSwitch(s)
      PROVE  [Promise!Next]_Promise!avars
  <2>1. UNCHANGED sequence /\ UNCHANGED connection
    BY <1>5 DEF SetSwitch
  <2>2. CASE switches' = switches \cup {s}
    <3>1. Granted' = Granted \cup {s}
      BY <2>1, <2>2
    <3>2. Promise!Give(s)
      BY <2>1, <3>1 DEF Promise!Give
    <3> QED
      BY <3>2 DEF Promise!Next
  <2>3. CASE switches' = switches \ {s}
    <3>1. Granted' = Granted \ {s}
      BY <2>1, <2>3 DEF Switches
    <3>2. Promise!Withdraw(s)
      BY <2>1, <3>1 DEF Promise!Withdraw
    <3> QED
      BY <3>2 DEF Promise!Next
  <2> QED
    BY <1>5, <2>2, <2>3 DEF SetSwitch
<1> QED
  BY <1>1, <1>2, <1>3, <1>4, <1>5 DEF Edits

\* A press begins an attempt on what stands, spends everything, or does nothing.
LEMMA PressBeginsOrSpends ==
  ASSUME FInv, NEW p \in Presses, PressStep(p)
  PROVE  [Promise!Next]_Promise!avars
<1> USE DEF FInv, TypeOK, grantVars, Granted
<1>1. CASE Press(p)
  BY <1>1 DEF Press, Promise!avars
<1>2. CASE Cancelled(p)
  BY <1>2 DEF Cancelled, Promise!avars
<1>3. CASE Unauthorized(p)
  BY <1>3 DEF Unauthorized, Promise!avars
<1>4. CASE Unconfirmed(p)
  BY <1>4 DEF Unconfirmed, Promise!avars
<1>5. CASE Refused(p)
  <2>1. /\ "confirm" \in Granted /\ Granted' = {} /\ sequence' = {}
    BY <1>5 DEF Refused, HasTurn, Spend
  <2> QED
    BY <2>1 DEF Promise!Spend, Promise!Next
<1>6. CASE Sends(p)
  <2>1. /\ sequence = {} /\ UNCHANGED <<connection, switches>>
        /\ sequence' = Risks(op[p])
    BY <1>6 DEF Sends, HasTurn
  <2>2. Risks(op[p]) \subseteq Granted /\ "confirm" \in Risks(op[p])
    BY <1>6 DEF Sends, Passes, Risks
  <2> QED
    BY <2>1, <2>2 DEF Promise!Begin, Promise!Next
<1>7. CASE Ends(p)
  <2>1. turn = p
    BY <1>7 DEF Ends, SenderHasTurn
  <2>2. sequence # {} /\ Granted' = {} /\ sequence' = {}
    BY <1>7, <2>1, ConstantsAssumption DEF Ends, Spend
  <2> QED
    BY <2>2 DEF Promise!Spend, Promise!Next
<1> QED
  BY <1>1, <1>2, <1>3, <1>4, <1>5, <1>6, <1>7 DEF PressStep

\* Each step of the form maps to a step of Authorization or to a stutter.
LEMMA StepsMap == FInv /\ [Next]_vars => [Promise!Next]_Promise!avars
<1> SUFFICES ASSUME FInv, [Next]_vars PROVE [Promise!Next]_Promise!avars
  OBVIOUS
<1>1. CASE Edits
  BY <1>1, EditsGiveOrWithdraw
<1>2. CASE \E p \in Presses : PressStep(p)
  BY <1>2, PressBeginsOrSpends
<1>3. CASE UNCHANGED vars
  BY <1>3 DEF Promise!avars, Granted, vars, grantVars
<1> QED
  BY <1>1, <1>2, <1>3 DEF Next, Edits

\* One attempt per authorization: whatever is pressed, edited, refused, failed
\* or cancelled, the form's confirmations are spent as Authorization says.
THEOREM OneAttemptPerAuthorization == Spec => ImplementsAuthorization
<1>1. Init => Promise!Init
  BY DEF Init, Promise!Init, Granted
<1> QED
  BY <1>1, FormInvariant, StepsMap, PTL
     DEF Spec, ImplementsAuthorization, Promise!Spec
=============================================================================
