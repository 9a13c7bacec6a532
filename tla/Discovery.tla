----------------------------- MODULE Discovery -----------------------------
(***************************************************************************)
(* Relay discovery: the page a broker serves (internal/broker/ranking.go,  *)
(* server.go, wss_ticket.go), and the client's race for it over the broker *)
(* fronts (brokerapi/relay.go, signing.go, types.go).                      *)
(***************************************************************************)
EXTENDS Env, Ranking

CONSTANTS Desc,          \* relay -> its descriptor
          Rosters,       \* the sets of relays that may be registered: one of them is
          Histories,     \* what may have been reported of a relay
          PageSize,      \* the limit a client asks for
          Window,        \* age up to which a signed list is accepted
          Defaults,      \* DefaultBrokerURLs, in order
          Primary,       \* the configured broker URL, None without one
          Loopback,      \* the broker URLs on this host, for development
          Unbound        \* the fronts TLS authenticates only without a host name

VARIABLES
    roster,     \* the registered relays
    race        \* the fetch under way: its phase, attempts begun and failed

Relays == DOMAIN Desc
NoRace == [phase |-> 0, begun |-> 0, failed |-> {}]

DiscoveryInit == roster = {} /\ race = NoRace

-----------------------------------------------------------------------------
(* The broker's page *)

wssRelayEligible(d) ==
    /\ d.class = "foundation" /\ d.transport = "direct" /\ d.exit = "direct"
    /\ d.port = 443 /\ d.identity /\ d.fronts # <<>>

\* Only relays whose lease runs are listed, ranked by what is known of them.
List(registered, known) ==
    LET live == {r \in registered : Desc[r].leased}
    IN  sortRelayCandidates(live, Desc,
          [r \in live |-> relayScore(Desc[r], metricSnapshot(Recorded(known[r]), ListTime))])

\* A short page without a WSS-capable relay gives its last place to the first one
\* beyond it.
reserveWSSCandidate(relays, limit) ==
    LET page == SubSeq(relays, 1, limit)
        beyond == SelectSeq(SubSeq(relays, limit + 1, Len(relays)),
                            LAMBDA r : wssRelayEligible(Desc[r]))
    IN  IF \/ Len(relays) <= limit \/ beyond = <<>>
           \/ \E i \in DOMAIN page : wssRelayEligible(Desc[page[i]])
        THEN SubSeq(relays, 1, IF Len(relays) < limit THEN Len(relays) ELSE limit)
        ELSE [page EXCEPT ![limit] = Head(beyond)]

\* The signed answer to a request for limit relays.
listRelaysHandler(registered, limit) ==
    {[signed |-> TRUE, limit |-> limit, age |-> 0,
      relays |-> reserveWSSCandidate(List(registered, known), limit)] :
        known \in [registered -> Histories]}

-----------------------------------------------------------------------------
(* One request *)

\* What a front may hand out: the broker's answer, one it kept for too long, one
\* to another request, or a page of its own.
Replies(registered, limit) ==
    UNION {{r, [r EXCEPT !.age = Window + 1], [r EXCEPT !.limit = limit + 1],
            [r EXCEPT !.signed = FALSE]} : r \in listRelaysHandler(registered, limit)}

\* A broker on this host need not sign.
verifyRelayList(reply, limit, loopback) ==
    loopback \/ (reply.signed /\ reply.limit = limit /\ reply.age <= Window)

\* The pages a request may return; it may also fail, however the front behaves.
ListRelays(registered, limit, loopback) ==
    {r.relays : r \in {q \in Replies(registered, limit) : verifyRelayList(q, limit, loopback)}}

-----------------------------------------------------------------------------
(* The race *)

\* BrokerCandidates and race: a configured broker that is not a default one is asked
\* alone; then all fronts by their host names; then those that can do without, without.
Phases == SelectSeq(<<IF Primary \in Range(Defaults) \cup {None} THEN <<>> ELSE <<Primary>>,
                      Defaults,
                      SelectSeq(Defaults, LAMBDA u : u \in Unbound)>>,
                    LAMBDA urls : urls # <<>>)

Attempts == DOMAIN Phases[race.phase]
Phase(k) == [phase |-> k, begun |-> 1, failed |-> {}]

URL(i) == Phases[race.phase][i]

FirstReachable == race' = Phase(1)

\* racePhase's ticker: another front joins, however the ones before it fare.
Stagger ==
    /\ race # NoRace /\ race.begun < Cardinality(Attempts)
    /\ race' = [race EXCEPT !.begun = @ + 1]

Pending == IF race = NoRace THEN {} ELSE (1..race.begun) \ race.failed

\* Attempt i is the last of its phase.
PhaseFails(i) == race.failed \cup {i} = Attempts

\* It was the last that could succeed.
AllFail(i) == i \in Pending /\ PhaseFails(i) /\ race.phase = Len(Phases)

\* Attempt i fails: the next phase begins only when all of this one have failed.
AttemptFails(i) ==
    /\ i \in Pending /\ ~AllFail(i)
    /\ race' = IF PhaseFails(i) THEN Phase(race.phase + 1)
               ELSE [race EXCEPT !.failed = @ \cup {i}]

\* Attempt i has a verified list: the others are cancelled.
Wins(i) == i \in Pending /\ race' = NoRace
=============================================================================
