----------------------------- MODULE MCEventBus -----------------------------
(* Small instances of EventBus. *)
EXTENDS EventBus

\* A long run that fills the channel twice over, and a short one
MCEventCount == [w \in Workflow |-> IF w = "long" THEN 3 ELSE 2]
=============================================================================
