---------------------------- MODULE MCSupervise ----------------------------
(* Model-checking instance of the supervise loop. *)
EXTENDS SuperviseProps
=============================================================================
