------------------------------ MODULE MCEngine ------------------------------
(* Model-checking instance of the engine. *)
EXTENDS EngineInv, TLC

CONSTANTS c1, c2, k1, k2

\* Connections and callers are interchangeable: no constant singles one out.
Symmetry == Permutations({c1, c2}) \cup Permutations({k1, k2})
ConnSymmetry == Permutations({c1, c2})
=============================================================================
