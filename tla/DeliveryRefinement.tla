-------------------------- MODULE DeliveryRefinement --------------------------
(***************************************************************************)
(* CommandChannel implements KeyDelivery, as long as no answer comes after *)
(* its command has timed out or been cancelled.                            *)
(***************************************************************************)
EXTENDS CommandChannel

Outcome(c) == IF at[c] \in {"sent", "failed"} THEN at[c] ELSE "running"

Delivery == INSTANCE KeyDelivery
              WITH Senders <- Callers, Length <- Frames,
                   took <- taken,
                   outcome <- [c \in Callers |-> Outcome(c)]

\* Every sequence reaches the module in order, without a gap or a repetition,
\* across overruns, retries, lost sessions and other callers' frames.
ImplementsDelivery == Delivery!Spec
=============================================================================
