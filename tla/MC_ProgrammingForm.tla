-------------------------- MODULE MC_ProgrammingForm --------------------------
(* ProgrammingForm for TLC: presses on a residential VISTA panel (verified, *)
(* every operation).                                                        *)
EXTENDS ProgrammingForm, TLC

Everything == {"reset", "cancel"}
Symmetry == Permutations(Presses)
=============================================================================
