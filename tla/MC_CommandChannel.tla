-------------------------- MODULE MC_CommandChannel --------------------------
(* CommandChannel for TLC: one or two typists and keepalive polls. *)
EXTENDS DeliveryRefinement

Ordinary == {"loss", "refuse"}
Everything == {"loss", "refuse", "late", "cancel"}
Slow == {"late"}
=============================================================================
