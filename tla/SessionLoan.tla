----------------------------- MODULE SessionLoan -----------------------------
(***************************************************************************)
(* What the coordinator and the reconfigure flow promise the module, which *)
(* admits one TPI client: at any time one party at most has a socket open  *)
(* to it, and while the session is lent to a flow the entry opens none.    *)
(* The promise ends when Home Assistant stops under a loaded entry.        *)
(***************************************************************************)
VARIABLES
    owner,   \* who has a socket open to the module
    lent,    \* a flow has borrowed the session
    over     \* Home Assistant is stopping

lvars == <<owner, lent, over>>

Init == owner = "nobody" /\ ~lent /\ ~over

EntryDials ==
    /\ ~over /\ owner = "nobody" /\ ~lent
    /\ owner' = "entry"
    /\ UNCHANGED <<lent, over>>

EntryCloses ==
    /\ ~over /\ owner = "entry"
    /\ owner' = "nobody"
    /\ UNCHANGED <<lent, over>>

\* Lending may have to close the entry's socket first, at once or later.
Lend ==
    /\ ~over /\ ~lent
    /\ lent' = TRUE
    /\ owner' \in {owner, "nobody"}
    /\ UNCHANGED over

FlowDials ==
    /\ ~over /\ lent /\ owner = "nobody"
    /\ owner' = "flow"
    /\ UNCHANGED <<lent, over>>

FlowCloses ==
    /\ ~over /\ owner = "flow"
    /\ owner' = "nobody"
    /\ UNCHANGED <<lent, over>>

\* Handed back: the entry may dial in the same step.
Return ==
    /\ ~over /\ lent /\ owner = "nobody"
    /\ lent' = FALSE
    /\ owner' \in {"nobody", "entry"}
    /\ UNCHANGED over

Stop ==
    /\ over'
    /\ lent' \in BOOLEAN
    /\ owner' \in {"nobody", "entry", "flow"}

Next == EntryDials \/ EntryCloses \/ Lend \/ FlowDials \/ FlowCloses
            \/ Return \/ Stop

Spec == Init /\ [][Next]_lvars
=============================================================================
