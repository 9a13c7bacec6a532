---------------------------- MODULE Rendezvous -----------------------------
(***************************************************************************)
(* A NAT-punched path: the client's Establish and the relay's              *)
(* RespondToDirective (internal/punch/session.go), the hub's coordinator   *)
(* between them (internal/tunnel/punch.go), and the UDP hole punch they    *)
(* both run (punchcore/probe.go).                                          *)
(*                                                                         *)
(* A punch is named by the session id its coordinator draws; its token is  *)
(* known to its two ends only, so probes of other punches do not count.    *)
(* Any datagram may be lost.                                               *)
(***************************************************************************)
EXTENDS Env, Functions

CONSTANTS Punches,       \* punch session ids
          Reflectors,    \* the hub's reflector addresses
          MaxRelay,      \* the coordinator's cap per relay
          MaxIP          \* and per client address

ASSUME PunchAssumption ==
    None \notin Punches /\ IsFiniteSet(Punches) /\ MaxRelay \in Nat /\ MaxIP \in Nat

VARIABLES
    est,        \* the client's Establish: where it is, its punch, what the hub saw of it
    coord,      \* punch -> its request at the coordinator, and the directive
    inflight,   \* the coordinator's inflightCap, of the one relay and the one address
    rsp,        \* punch -> the relay's end
    heard,      \* punch -> the ends that got a probe of the other
    home        \* whether the relay's control connection to the hub is up

punchVars == <<est, coord, inflight, rsp, heard, home>>

\* sym: the client's NAT is symmetric; peers: there is a client address to probe.
Establishing(at, id) == [at |-> at, id |-> id, sym |-> FALSE, peers |-> FALSE]
NoPunch  == Establishing("off", None)
Failed   == Establishing("failed", None)
NoDirective(at) == [at |-> at, sym |-> FALSE, peers |-> FALSE]

PunchInit ==
    /\ est = NoPunch /\ coord = [p \in Punches |-> NoDirective("none")] /\ inflight = 0
    /\ rsp = [p \in Punches |-> "none"] /\ heard = [p \in Punches |-> {}]
    /\ home = TRUE

Ends == {"client", "relay"}

\* Whether an end is in Attempt, and sends probes.
Probing(p, e) == IF e = "client" THEN est = Establishing("attempt", p)
                                 ELSE rsp[p] = "attempt"

-----------------------------------------------------------------------------
(* Candidates *)

\* The ports reflectors saw a socket under: any of them may see nothing, and a
\* symmetric NAT shows a port of its own to each.
Observed == UNION {[S -> {"port a", "port b"}] : S \in SUBSET Reflectors}

Classify(obs) ==
    CASE Cardinality(DOMAIN obs) < 2 -> "unknown"
      [] Cardinality(DOMAIN obs) >= 2 /\ Cardinality(Range(obs)) = 1 -> "eim"
      [] OTHER -> "symmetric"

\* The addresses of a host's interfaces, by whether they are globally routable.
LocalCandidates == SUBSET {"lan", "wan"}

\* A peer is probed where reflectors saw it, and on its private addresses.
SanitizePeers(obs, local) == Range(obs) \cup (local \ {"wan"})

\* An end gathers: seen is what the reflectors recorded of it, of which got came back.
\* All that counts is whether it has any candidate, its class and who may probe it.
Outcome(seen, got, local) ==
    [none |-> got = {} /\ local = {}, sym |-> Classify(seen) = "symmetric",
     peers |-> SanitizePeers(seen, local) # {}]

\* The hub goes by the reflectors' own record of the client.
ClientGathers ==
    UNION {{Outcome(seen, got, local) : got \in SUBSET DOMAIN seen} :
             seen \in Observed, local \in LocalCandidates}

RelayGathers ==
    {Outcome(obs, DOMAIN obs, local) : obs \in Observed, local \in LocalCandidates}

-----------------------------------------------------------------------------
(* The request *)

Fresh == {p \in Punches : coord[p].at = "none"}

\* The reflectors' addresses arrive.
FetchConfig ==
    /\ est.at = "config" /\ est' = Establishing("gather", None)
    /\ UNCHANGED <<coord, inflight, rsp, heard, home>>

\* Without any candidate the client gives up.
Gather ==
    /\ est.at = "gather"
    /\ \E g \in ClientGathers :
         est' = IF g.none THEN Failed
                ELSE [at |-> "request", id |-> None, sym |-> g.sym, peers |-> g.peers]
    /\ UNCHANGED <<coord, inflight, rsp, heard, home>>

acquire == inflight < MaxRelay /\ inflight < MaxIP /\ inflight' = inflight + 1
release == inflight' = inflight - 1

\* The coordinator has a slot for the request and the relay is connected: the
\* directive goes out.
handleRequest ==
    /\ est.at = "request" /\ est.id = None /\ Fresh # {} /\ home /\ acquire
    /\ LET p == CHOOSE q \in Fresh : TRUE IN
         /\ est' = Establishing("request", p)
         /\ coord' = [coord EXCEPT ![p] =
                        [at |-> "directive", sym |-> est.sym, peers |-> est.peers]]
    /\ UNCHANGED <<rsp, heard, home>>

\* The coordinator's answer, after which its slot is free again.
Answered(p, ok) ==
    /\ coord' = [coord EXCEPT ![p] = NoDirective("done")] /\ release
    /\ est' = IF est # Establishing("request", p) THEN est
              ELSE IF ok THEN Establishing("attempt", p) ELSE Failed

\* The relay gathers candidates of its own, or declines.  It punches from now on if
\* it has a peer to probe; so does the client, unless both NATs are symmetric.
RespondToDirective(p) ==
    /\ coord[p].at = "directive" /\ home
    /\ \E g \in RelayGathers :
         IF g.none THEN Answered(p, FALSE) /\ UNCHANGED rsp
         ELSE /\ rsp' = [rsp EXCEPT ![p] = IF coord[p].peers THEN "attempt" ELSE "closed"]
              /\ Answered(p, ~(coord[p].sym /\ g.sym) /\ g.peers)
    /\ UNCHANGED <<heard, home>>

\* The directive or its acknowledgement does not get through.
SendPunchDirective(p) ==
    /\ coord[p].at = "directive" /\ Answered(p, FALSE)
    /\ UNCHANGED <<rsp, heard, home>>

-----------------------------------------------------------------------------
(* Attempt *)

\* A probe of the other end arrives, and is answered with an ack.
ProbeArrives(p, e) ==
    /\ Probing(p, e) /\ \A o \in Ends : Probing(p, o)
    /\ heard' = [heard EXCEPT ![p] = @ \cup {e}]
    /\ UNCHANGED <<est, coord, inflight, rsp, home>>

\* The relay listens on the punched socket, or cannot.
ListenQUIC(ok) == IF ok THEN {"listen", "closed"} ELSE {"closed"}

Leaves(p, e, ok) ==
    /\ est' = IF e # "client" THEN est
              ELSE IF ok THEN Establishing("quic", p) ELSE Failed
    /\ IF e # "relay" THEN UNCHANGED rsp
       ELSE \E at \in ListenQUIC(ok) : rsp' = [rsp EXCEPT ![p] = at]
    /\ heard' = IF \A o \in Ends : Probing(p, o) THEN heard ELSE [heard EXCEPT ![p] = {}]
    /\ UNCHANGED <<coord, inflight, home>>

\* The other end's ack arrives: it got a probe, or it lingers after an ack of
\* its own, and so has seen this end.
Confirmed(p, e) ==
    /\ Probing(p, e)
    /\ \E o \in Ends \ {e} : o \in heard[p] \/ (e \in heard[p] /\ ~Probing(p, o))
    /\ Leaves(p, e, TRUE)

\* At the deadline a probe that was heard is good enough.
Deadline(p, e) == Probing(p, e) /\ Leaves(p, e, e \in heard[p])

-----------------------------------------------------------------------------
(* QUIC over the hole *)

NewClientBridge == est' \in {[est EXCEPT !.at = "path"], Failed}

\* The pinned certificate is that of the relay's end of this punch.  The client's
\* loopback listener is opened last: without it the connection is dropped again.
DialQUIC ==
    /\ est.at = "quic" /\ rsp[est.id] = "listen"
    /\ rsp' = [rsp EXCEPT ![est.id] = "bridged"]
    /\ NewClientBridge
    /\ UNCHANGED <<coord, inflight, heard, home>>

\* Any other step of Establish fails: the socket is closed, the hub path is taken.
EstablishFails ==
    /\ est.at \in {"config", "request", "quic"}
    /\ est' = Failed
    /\ UNCHANGED <<coord, inflight, rsp, heard, home>>

\* RelayBridge returns when the client's connection drops.  Until there is one it
\* waits in Accept, for as long as the relay runs.
BridgeEnds(p) ==
    /\ rsp[p] = "bridged" /\ est.id # p
    /\ rsp' = [rsp EXCEPT ![p] = "closed"]
    /\ UNCHANGED <<est, coord, inflight, heard, home>>

\* The relay loses the hub.  What it runs for punches runs under the context of the
\* client's Run, not of that connection, and goes on.  Without any punch there is
\* nothing to see of it.
AnyPunch == est # NoPunch \/ \E p \in Punches : rsp[p] \notin {"none", "closed"}
HubLost ==
    /\ home /\ home' = FALSE /\ AnyPunch
    /\ UNCHANGED <<est, coord, inflight, rsp, heard>>

\* The relay is shut down, and with it every end of a punch.
RelayStops ==
    /\ AnyPunch /\ home' = FALSE
    /\ rsp' = [p \in Punches |-> IF rsp[p] = "none" THEN "none" ELSE "closed"]
    /\ UNCHANGED <<est, coord, inflight, heard>>

HubBack == ~home /\ home' = TRUE /\ UNCHANGED <<est, coord, inflight, rsp, heard>>

PunchStep ==
    \/ FetchConfig \/ Gather \/ handleRequest \/ DialQUIC \/ EstablishFails
    \/ \E p \in Punches :
         \/ RespondToDirective(p) \/ SendPunchDirective(p) \/ BridgeEnds(p)
         \/ \E e \in Ends : ProbeArrives(p, e) \/ Confirmed(p, e) \/ Deadline(p, e)

-----------------------------------------------------------------------------
(* What holds throughout: a directive has one slot of the coordinator's *)

Directed == {p \in Punches : coord[p].at = "directive"}

PunchInv ==
    /\ DOMAIN coord = Punches /\ \A p \in Punches : "at" \in DOMAIN coord[p]
    /\ inflight = Cardinality(Directed)
=============================================================================
