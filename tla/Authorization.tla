---------------------------- MODULE Authorization ----------------------------
(***************************************************************************)
(* What the device page promises of writes to the panel: an administrator  *)
(* gives authorizations, one attempt at a time rests on those it needs,    *)
(* and an attempt, however it goes, spends every authorization there is.   *)
(***************************************************************************)
CONSTANTS
    Grants,    \* the authorizations there are
    Consent    \* the one that every attempt needs

VARIABLES
    granted,   \* the authorizations that stand
    attempt    \* those the attempt under way rests on; {} between attempts

avars == <<granted, attempt>>

Init == granted = {} /\ attempt = {}

Give(g) == granted' = granted \cup {g} /\ UNCHANGED attempt

Withdraw(g) == granted' = granted \ {g} /\ UNCHANGED attempt

Begin ==
    /\ attempt = {}
    /\ Consent \in granted
    /\ \E needs \in SUBSET granted : Consent \in needs /\ attempt' = needs
    /\ UNCHANGED granted

\* The attempt is over, or was refused before anything was sent.
Spend ==
    /\ attempt # {} \/ Consent \in granted
    /\ granted' = {}
    /\ attempt' = {}

Next == (\E g \in Grants : Give(g) \/ Withdraw(g)) \/ Begin \/ Spend

Spec == Init /\ [][Next]_avars
=============================================================================
