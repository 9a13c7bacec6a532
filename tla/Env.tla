-------------------------------- MODULE Env --------------------------------
(* What every party of the access path shares: wall-clock time, and mishaps. *)
EXTENDS Naturals, Sequences, FiniteSets

CONSTANTS None,
          MaxTime,   \* bound on the clock
          Trouble    \* bound on mishaps: crashes, losses, refusals of the host

ASSUME EnvAssumption == MaxTime \in Nat /\ Trouble \in Nat

VARIABLES now, luck

EnvInit == now = 0 /\ luck = Trouble

\* One more mishap happens.
GoesWrong == luck > 0 /\ luck' = luck - 1
Smooth    == UNCHANGED luck

Tick == now < MaxTime /\ now' = now + 1
=============================================================================
