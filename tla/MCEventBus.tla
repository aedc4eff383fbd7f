----------------------------- MODULE MCEventBus -----------------------------
(* A ring of three events and a channel of two under a log of up to six. *)
EXTENDS EventBus

=============================================================================
