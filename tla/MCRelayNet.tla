----------------------------- MODULE MCRelayNet -----------------------------
(* RelayNet for TLC: one relay, two hub sessions, two relays elsewhere. *)
EXTENDS RelayNetProps, TLC

CONSTANTS s1, s2, n1, r1, r2, r3, p1, p2, h443

\* Hub sessions share the hub's address.
MCSourceOf == [c \in Callers |-> IF c \in Sess THEN "hub" ELSE "node"]

MCHome == 443 :> h443
MCCandidates == <<443, 443>>

\* A volunteer on auto; a foundation token whose mode would use the hub; a
\* foundation class on auto, which must not start at all.
MCConfigs == {c \in Config :
    /\ c.hub = "set" /\ c.fronts = "none"
    /\ \/ c.mode = "auto" /\ c.token = "none" /\ c.cls # "volunteer"
       \/ c.mode = "tunnel" /\ c.token = "foundation" /\ c.cls = ""}
=============================================================================
