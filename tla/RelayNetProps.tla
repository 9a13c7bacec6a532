--------------------------- MODULE RelayNetProps ---------------------------
(* What relay, hub and broker promise together. *)
EXTENDS RelayNet

\* Type correctness.
TypeOK ==
    /\ rows \subseteq Row
    /\ call \in [Callers -> Call]
    /\ lease \in [Callers -> Tokens]
    /\ ledger \subseteq Ids /\ Cardinality(ledger) <= LedgerMax
    /\ spent \in [Sources -> 0 .. Limit]
    /\ luck \in 0..Trouble
    /\ pc \in [Sess -> Points]
    /\ beat \in [Sess -> BeatPoints]
    /\ hello \in [Sess -> Ids \cup {None}]
    /\ port \in [Sess -> Ports \cup {None}]
    /\ open \subseteq Sess
    /\ inUse \subseteq Ports
    /\ registry \in [Ids -> Sess \cup {None}]
    /\ cfg \in Config /\ eng \in {"off", "live", "cancelled"}
    /\ phase \in Phases /\ run \in RunPoints
    /\ why \in Reasons /\ spot \in DirectPorts
    /\ xray \in {"off", "up", "dead"}
    /\ client \in ClientPoints /\ conn \in Sess \cup {None}

\* Ports are neither shared nor leaked: the allocator has exactly the ports of
\* the sessions that still need one
\* (handleControl's error paths, tunnel.run).
PortsAccounted ==
    /\ inUse = {port[s] : s \in {t \in Sess : port[t] # None}}
    /\ \A s, t \in Sess : port[s] # None /\ port[s] = port[t] => s = t
    /\ \A s \in Sess : port[s] # None <=> pc[s] \in {"register", "run"}

\* The registry never names a tunnel that is gone, nor a tunnel under an id it
\* does not have, however re-registrations, takeovers and teardowns overlap
\* (addTunnel, claimTunnel, removeTunnel).
RegistryLive ==
    \A i \in Ids : registry[i] # None =>
        /\ pc[registry[i]] \in {"run", "remove"}
        /\ hello[registry[i]] = i

\* The units that registrations have kept: those reserved beyond what requests
\* under way hold.
Kept == {u \in Sources \X (1 .. Limit) : Held(u[1]) < u[2] /\ u[2] <= spent[u[1]]}

\* While the ledger has room no identity drains more than one unit of the budgets
\* for new relays, however many of its registrations are carried out at once and
\* from wherever (registerHandler: "the losers of the commit race hand their
\* units back").  A full ledger charges an identity it cannot record every time.
ChargedOnce ==
    Cardinality(ledger) < LedgerMax => Cardinality(Kept) <= Cardinality(ledger)

\* Once Stop returns nothing of the relay is left running: no xray child, no
\* client goroutine, no hub connection ("xray reaped, listeners closed").
StoppedHoldsNothing ==
    eng = "off" => xray = "off" /\ client = "off" /\ conn = None /\ run = "off"

\* A foundation posture never meets a hub: neither a probe, which sends the
\* registration token, nor a HELLO (requireDirectModeForFoundation).
FoundationNeverHub ==
    cfg.cls = "foundation" \/ cfg.token = "foundation"
        => run # "probe" /\ client = "off" /\ conn = None

\* The stored registration is that of the session the relay is served by.
Published ==
    \E r \in rows :
        /\ r.id = Id
        /\ \/ run \in DirectPoints /\ r.by = Node /\ r.tok = lease[Node]
           \/ /\ client = "up"
              /\ r.by = conn /\ r.tok = lease[conn] /\ r.end = port[conn]

\* Once failures cease, a relay that keeps running comes to be what the directory
\* names and stays so, whatever stale sessions of the same identity wrote last; and
\* one that was told to stop does not keep running: Stop returns
\* (handleRegistrationLost, reregister, the direct re-registration; Stop, run).
RowConverges == <>[](eng # "off") => <>[](eng = "live" /\ Published)

-----------------------------------------------------------------------------
(* What makes the invariants inductive. *)

\* A tunnel runs as long as its goroutines do, under the identity of its HELLO.
HubInv ==
    /\ pc \in [Sess -> Points] /\ beat \in [Sess -> BeatPoints]
    /\ hello \in [Sess -> Ids \cup {None}] /\ port \in [Sess -> Ports \cup {None}]
    /\ open \subseteq Sess /\ registry \in [Ids -> Sess \cup {None}]
    /\ \A s \in Sess : /\ pc[s] # "free" => hello[s] \in Ids
                       /\ s \in open => pc[s] = "run"
                       /\ beat[s] # "off" <=> pc[s] = "run"
    /\ PortsAccounted /\ RegistryLive

\* The client goroutine belongs to a tunnel session, xray to a session, and a
\* foundation posture has no tunnel session.
NodeInv ==
    /\ cfg \in Config
    /\ eng = "off" <=> run = "off"
    /\ client # "off" => run \in {"hosted", "join"}
    /\ conn # None <=> client \in {"hello", "up"}
    /\ run \in {"off", "begin", "probe", "backoff"} => xray = "off"
    /\ cfg.cls = "foundation" \/ cfg.token = "foundation"
         => run \notin {"probe", "hosted", "join"}

\* A unit is held only while the store is asked, and nobody sends a request while
\* an earlier one may hold a unit.
Calls ==
    DOMAIN call = Callers /\ \A c \in Callers : {"at", "unit"} \subseteq DOMAIN call[c]
CallInv ==
    /\ Calls
    /\ \A c \in Callers : call[c].unit = "held" => call[c].at = "admitted"
    /\ \A s \in Sess : beat[s] = "idle" => call[s].at = "idle"
    /\ run = "serve" => call[Node].at = "idle"

\* The units that requests hold are reserved ones.
CapInv ==
    /\ spent \in [Sources -> 0 .. Limit]
    /\ IsFiniteSet(rows) /\ IsFiniteSet(ledger)
    /\ \A a \in Sources : Held(a) <= spent[a]
    /\ ChargedOnce
=============================================================================
