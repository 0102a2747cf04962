------------------------- MODULE MC_EntryLifecycle -------------------------
(* EntryLifecycle for TLC: two entries and the module they are for. *)
EXTENDS EntryLifecycle

CONSTANTS m1, m2, right, wrong, c1

Accepted == [m \in Modules |-> IF m = m1 THEN right ELSE wrong]

\* Every way the stored entries can be but for the zones and the code, which
\* change later, with every module at some host.
Start ==
    /\ Init
    /\ \A e \in Entries : Present(e) => data[e].zones = MaxZones
    /\ \A e \in Entries : options[e] = c1
    /\ \A m \in Modules : \E h \in Hosts : at[h] = m
StartSpec == Start /\ [][Next]_vars
StartFairSpec == StartSpec /\ Fairness
=============================================================================
