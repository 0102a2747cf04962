---------------------------- MODULE MC_PanelFeed ----------------------------
(* PanelFeed for TLC: a panel with a partition and a zone more than the    *)
(* entry, and bytes of four values.                                        *)
EXTENDS PanelFeed

CONSTANTS u1, u2

\* Users act or the panel changes, with a fault; they mix, or users act four
\* times, without one.
FewOfEach ==
    {[acts |-> 2, changes |-> 0, faults |-> 1],
     [acts |-> 0, changes |-> 2, faults |-> 1],
     [acts |-> 1, changes |-> 1, faults |-> 0],
     [acts |-> 4, changes |-> 0, faults |-> 0]}
=============================================================================
