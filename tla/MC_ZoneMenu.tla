------------------------------ MODULE MC_ZoneMenu ------------------------------
(* ZoneMenu for TLC: every model, and the zones and wirings on either side of *)
(* each bound.                                                                *)
EXTENDS ZoneMenu

AllModels == {"21iP", "15P", "10P"}
Boundaries == {1, 2, 6, 7, 8, 9, 10, 16, 17, 34, 35, 48, 49}
Wirings == {0, 2, 3, 4}
=============================================================================
