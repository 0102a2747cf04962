----------------------------- MODULE KeyDelivery -----------------------------
(***************************************************************************)
(* What sending a sequence of frames promises: the module takes them one   *)
(* by one, in their order, none twice and none left out; a sequence is     *)
(* reported as sent only when it has taken all of them, and one that is    *)
(* reported as failed has been taken up to some frame.                     *)
(***************************************************************************)
EXTENDS Naturals, Sequences

CONSTANTS Senders, Length(_)

VARIABLES
    took,      \* the numbers of each sender's frames, as the module took them
    outcome    \* "running", "sent" or "failed"

dvars == <<took, outcome>>

Init ==
    /\ took = [s \in Senders |-> <<>>]
    /\ outcome = [s \in Senders |-> "running"]

\* The frame after the last one; a frame already on its way may still be taken
\* after its sender has given up.
Take(s) ==
    /\ outcome[s] # "sent"
    /\ Len(took[s]) < Length(s)
    /\ took' = [took EXCEPT ![s] = Append(@, Len(@) + 1)]
    /\ UNCHANGED outcome

Succeed(s) ==
    /\ outcome[s] = "running"
    /\ Len(took[s]) = Length(s)
    /\ outcome' = [outcome EXCEPT ![s] = "sent"]
    /\ UNCHANGED took

Fail(s) ==
    /\ outcome[s] = "running"
    /\ outcome' = [outcome EXCEPT ![s] = "failed"]
    /\ UNCHANGED took

Next == \E s \in Senders : Take(s) \/ Succeed(s) \/ Fail(s)

Spec == Init /\ [][Next]_dvars
=============================================================================
