---------------------------- MODULE MCTelemetry ----------------------------
(* Telemetry for TLC: two hosts that share the outbox file. *)
EXTENDS TelemetryProps, TLC

CONSTANTS h1, h2

MCKinds == <<"bulky", "poison", "huge">>
=============================================================================
