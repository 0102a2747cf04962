-------------------------- MODULE SessionRefinement --------------------------
(***************************************************************************)
(* TpiSession implements SessionLoan.                                      *)
(***************************************************************************)
EXTENDS TpiSession

Probing == \E f \in Flows : flow[f] = "probe" /\ Holding(f)

Owner ==
    IF Probing THEN "flow"
    ELSE IF Alive \/ \E a \in Dialers : Holding(a) THEN "entry"
    ELSE "nobody"

Loan == INSTANCE SessionLoan
          WITH owner <- Owner, lent <- released, over <- StoppingWhileLoaded

\* The entry dials only while it has not lent the session out and nobody else
\* has a socket to the module; the flow only while it has borrowed it and the
\* entry's own socket is gone.
ImplementsLoan == Loan!Spec
=============================================================================
