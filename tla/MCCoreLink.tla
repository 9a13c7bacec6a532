---------------------------- MODULE MCCoreLink ----------------------------
(* CoreLink for TLC: a thread that tears down and starts again next to one  *)
(* that only ensures (the relay refresh, a page load).                      *)
EXTENDS CoreLinkProps, TLC

CONSTANTS p1, p2, p3, user, page

MCCores   == {p1, p2, p3}
MCThreads == {user, page}
MCMayCall == (user :> {"stop", "restart", "elevate"}) @@ (page :> {"ensure"})
MCEnsureOnly == [k \in MCThreads |-> {"ensure"}]
MCSymmetry == Permutations(MCCores)
=============================================================================
