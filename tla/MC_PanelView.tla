----------------------------- MODULE MC_PanelView -----------------------------
(* PanelView for TLC: two zones, a few calls on them. *)
EXTENDS PanelView, TLC

Everything == {"early", "hasty", "fail", "outage", "refuse"}
Symmetry == Permutations(SwitchCalls) \cup Permutations(Zones)
=============================================================================
