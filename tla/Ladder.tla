------------------------------- MODULE Ladder -------------------------------
(***************************************************************************)
(* The connect ladder (connectcore/engine.go, wss.go, punch.go, ranker.go):*)
(* the relays a directory page offers are tried one by one, each over its  *)
(* direct or punched path first and, when that path fails, over the WSS    *)
(* fronts it advertises, until sing-box reaches the internet through one.  *)
(***************************************************************************)
EXTENDS WssClient, Rendezvous, Discovery, SingBox, Panel

CONSTANTS Pinned,       \* the relays an identity target matches, None without one
          Country,      \* the relays in the country asked for, None without one
          DirectorySize,\* DirectoryRelayLimit
          Probes        \* RelayRankMaxProbes

VARIABLES
    lad,        \* where the ladder is
    asking,     \* the ticket request: its round and broker front, and the hint so far
    held,       \* what the candidate holds: "run", "punch", "wss"
    retryUsed,  \* conn.wssTicketRetryUsed
    blamed      \* relay -> relay_attempt_failed events of this ladder

ladderVars == <<roster, panelVars, race, lad, asking, held, retryUsed, blamed>>

NoAsk  == [round |-> 0, broker |-> 1, hint |-> FALSE]

\* No ladder is under way.  via is the broker that answered, unless a default one;
\* again says that a rate limit is waited out, once.
NoLadder(at) == [at |-> at, order |-> <<>>, rung |-> 1, path |-> "direct",
                 front |-> 1, failed |-> None, via |-> None, again |-> FALSE]
Blameless == [r \in Relays |-> 0]

LadderInit ==
    /\ DiscoveryInit /\ PanelInit /\ lad = NoLadder("idle")
    /\ asking = NoAsk /\ held = {} /\ retryUsed = FALSE /\ blamed = Blameless

Relay == lad.order[lad.rung]

-----------------------------------------------------------------------------
(* The order of the rungs *)

IsUsableRelay(d) == d.vision /\ d.exit = "direct" /\ d.leased /\ d.complete

usableRelays(page) == SelectSeq(page, LAMBDA r : IsUsableRelay(Desc[r]))

FilterCandidates(cands) ==
    SelectSeq(cands, LAMBDA r : IF Pinned # None THEN r \in Pinned
                                ELSE Country # None => r \in Country)

candidatesFor(page) == FilterCandidates(usableRelays(page))

\* The full directory page is asked for when a relay has to be found in it.
RelayLimit == IF Pinned # None \/ Country # None THEN DirectorySize ELSE PageSize

unranked(cands) == cands

\* The first MaxProbes candidates are probed: ms maps those that answer to their
\* latency bucket.  They come first, fastest bucket first and in broker order
\* within a bucket; then those that did not answer, then the others.
rankByTCPLatency(cands, ms) ==
    LET head == SubSeq(cands, 1, IF Len(cands) > Probes THEN Probes ELSE Len(cands))
        rest == SubSeq(cands, Len(head) + 1, Len(cands))
        order == {i \in DOMAIN head : head[i] \in DOMAIN ms}
        Faster(i, j) == \/ ms[head[i]] < ms[head[j]]
                        \/ ms[head[i]] = ms[head[j]] /\ i < j
        failed == SelectSeq(head, LAMBDA r : r \notin DOMAIN ms)
    IN  [k \in 1..Cardinality(order) |-> head[Sorted(order, Faster)[k]]]
          \o failed \o unranked(rest)

rankLadder(cands, ms) ==
    IF Pinned # None \/ Len(cands) < 2 THEN unranked(cands)
    ELSE rankByTCPLatency(cands, ms)

\* Whatever is measured: two buckets tell any two relays apart.
Measured(cands) == UNION {[S -> {0, 1}] : S \in SUBSET Range(cands)}

\* The ladders a page may turn into, none if it has no relay for this connect.
LadderOrders ==
    [registered \in Rosters, loopback \in BOOLEAN |->
        UNION {{rankLadder(candidatesFor(page), ms) : ms \in Measured(candidatesFor(page))} :
                 page \in ListRelays(registered, RelayLimit, loopback)}]

demoteRelay(cands, id) ==
    SelectSeq(cands, LAMBDA r : r # id) \o SelectSeq(cands, LAMBDA r : r = id)

\* A ladder has one rung for each of its relays.
IsLadder(s) == /\ s \in Seq(Relays)
               /\ \A i, j \in 1..Len(s) : s[i] = s[j] => i = j

\* Sorting and filtering a page of registered relays repeats none of them, and
\* demoting one loses none.
ASSUME OrdersAssumption ==
    \A registered \in Rosters, loopback \in BOOLEAN :
      \A order \in LadderOrders[registered, loopback] :
        order # <<>> => \A id \in Relays \cup {None} :
            demoteRelay(order, id) # <<>> /\ IsLadder(demoteRelay(order, id))

-----------------------------------------------------------------------------
(* Steps of the ladder: what each leaves the other components to *)

Apart   == UNCHANGED <<replayVars, sidecarVars, cli, punchVars, claims>>
Onto(p) == lad' = [lad EXCEPT !.at = p]

\* Everything a candidate holds is released, in one step, before what follows.
teardown ==
    /\ held' = {} /\ asking' = NoAsk /\ Close /\ est' = NoPunch
    /\ UNCHANGED <<coord, inflight, rsp, heard, home, claims>>

\* recordRelayAttemptFailed.
Blame(r) == [blamed EXCEPT ![r] = @ + 1]

\* runLadder is left: what it knew is gone with it.
Leave(l) == lad' = l /\ retryUsed' = FALSE /\ blamed' = Blameless

LadderFails == Leave(NoLadder("over"))

\* A relay is done with: the next rung, or the ladder has failed.
NextRung(blames) ==
    IF lad.rung = Len(lad.order) THEN LadderFails
    ELSE /\ lad' = [lad EXCEPT !.at = "rung", !.rung = @ + 1, !.path = "direct", !.front = 1]
         /\ blamed' = blames /\ UNCHANGED retryUsed

\* A failure that says nothing of the relay stops the ladder.
LocalFailure == GoesWrong /\ teardown /\ LadderFails

\* Fronts must be in canonical form already: none is repaired.
supportedWSSFronts(d) ==
    IF /\ d.class = "foundation" /\ d.transport = "direct" /\ d.exit = "direct"
       /\ d.port = 443 /\ d.canonical
    THEN d.fronts ELSE <<>>

\* A front's own connection would go into the tunnel that takes everything.
Fronts(r) == IF mode = "tun" THEN <<>> ELSE supportedWSSFronts(Desc[r])

\* The relay's own path failed.  This is recorded once, here, and the relay's WSS
\* fronts are tried if it has any.
DirectFails ==
    /\ teardown
    /\ IF Fronts(Relay) # <<>>
       THEN /\ lad' = [lad EXCEPT !.at = "ticket", !.path = "wss", !.front = 1]
            /\ blamed' = Blame(Relay) /\ UNCHANGED retryUsed
       ELSE NextRung(Blame(Relay))

\* Mutant: the failure of the last front is recorded against the relay as well.
FrontFailsBlames ==
    IF lad.front < Len(Fronts(Relay))
    THEN /\ lad' = [lad EXCEPT !.at = "ticket", !.front = @ + 1]
         /\ UNCHANGED <<retryUsed, blamed>>
    ELSE NextRung(Blame(Relay))

\* A ticket, a handshake or a session failed: the front's fault, not the relay's,
\* which has its record already.
FrontFails ==
    IF lad.front < Len(Fronts(Relay))
    THEN /\ lad' = [lad EXCEPT !.at = "ticket", !.front = @ + 1]
         /\ UNCHANGED <<retryUsed, blamed>>
    ELSE NextRung(blamed)

-----------------------------------------------------------------------------
(* Connect, runLadder *)

\* The race for a page begins, of whatever relays have registered by now.
fetchCandidates ==
    /\ lad.at = "idle" /\ handleConnect /\ roster' \in Rosters
    /\ Onto("fetch") /\ FirstReachable
    /\ Smooth /\ Apart /\ UNCHANGED <<asking, held, retryUsed, blamed>>

Racing ==
    /\ Stagger \/ \E i \in Pending : AttemptFails(i)
    /\ Smooth /\ Apart /\ UNCHANGED <<lad, asking, held, retryUsed, blamed>>

\* A front has answered: the page is filtered and ranked, a relay that was lost goes
\* last, and a page that has none for this connect ends it.
connectFlow ==
    /\ \E i \in Pending : \E order \in LadderOrders[roster, URL(i) \in Loopback] :
         /\ Wins(i)
         /\ IF order = <<>> THEN LadderFails
            ELSE /\ lad' = [NoLadder("rung") EXCEPT
                             !.order = demoteRelay(order, lad.failed),
                             !.via = IF URL(i) \in Range(Defaults) THEN None ELSE URL(i)]
                 /\ UNCHANGED <<retryUsed, blamed>>
    /\ Smooth /\ Apart /\ UNCHANGED <<asking, held>>

\* No broker front answers.  In a recovery a rate limit is waited out once.
fetchFails ==
    /\ \E i \in Pending : AllFail(i)
    /\ \/ race' = NoRace /\ LadderFails
       \/ lad.again /\ lad' = [lad EXCEPT !.again = FALSE] /\ FirstReachable
          /\ UNCHANGED <<retryUsed, blamed>>
    /\ Smooth /\ Apart /\ UNCHANGED <<asking, held>>

\* The relay's TCP port answers, or not.
attemptDirectCandidate ==
    /\ lad.at = "rung"
    /\ \/ DirectFails /\ Smooth
       \/ LocalFailure
       \/ /\ IF Desc[Relay].punch
             THEN Onto("punch") /\ est' = Establishing("config", None)
             ELSE Onto("start") /\ UNCHANGED est
          /\ Smooth
          /\ UNCHANGED <<coord, inflight, rsp, heard, home, replayVars, sidecarVars, cli,
                         claims, asking, held, retryUsed, blamed>>

\* AttemptPunch returns: the punched path or, without one, the relay's hub.
maybePunch ==
    /\ lad.at = "punch"
    /\ \/ est.at = "path" /\ held' = held \cup {"punch"} /\ UNCHANGED est
          /\ lad' = [lad EXCEPT !.at = "start", !.path = "punch"]
       \/ est.at = "failed" /\ est' = NoPunch /\ Onto("start") /\ UNCHANGED held
    /\ Smooth
    /\ UNCHANGED <<coord, inflight, rsp, heard, home, replayVars, sidecarVars, cli,
                   claims, asking, retryUsed, blamed>>

\* The configuration sing-box is given: over a punched path or a WSS session it
\* talks to a local bridge, and the peer of a punched path is known by address.
PeerOf(r)  == [literal |-> TRUE, addr |-> <<"peer", r>>]
FrontOf(r) == [literal |-> FALSE, addr |-> <<"front", r>>]
CandidateConfig ==
    LET input == candidateConfigInput(Desc[Relay], mode) IN
    BuildSingBoxConfig(
        IF lad.path = "direct" THEN input
        ELSE [input EXCEPT !.bridge = "bridge",
                           !.peers = IF lad.path = "punch" THEN {PeerOf(Relay)} ELSE {}])

\* sing-box runs and its inbound is ready; or it is not, or the transport ended.
startCandidate ==
    /\ lad.at = "start"
    /\ \/ Onto("probe") /\ held' = held \cup {"run"} /\ Smooth
          /\ Apart /\ UNCHANGED <<asking, retryUsed, blamed>>
       \/ LocalFailure
       \/ transportErr /\ FrontFails /\ teardown /\ Smooth

\* The internet is reached through the candidate, or not.
probeCandidate ==
    /\ lad.at = "probe"
    /\ \/ Onto("up") /\ retryUsed' = FALSE /\ Smooth
          /\ Apart /\ UNCHANGED <<asking, held, blamed>>
       \/ LocalFailure
       \/ lad.path # "wss" /\ DirectFails /\ Smooth
       \/ lad.path = "wss" /\ FrontFails /\ teardown /\ Smooth

-----------------------------------------------------------------------------
(* attemptWSSCandidate *)

\* A bearer ticket is only asked for where TLS authenticates the very broker.
wssTicketBrokerFronts(primary) ==
    (IF primary \in Unbound \cup {None} THEN <<>> ELSE <<primary>>)
      \o SelectSeq(Defaults, LAMBDA u : u \notin Unbound)

\* How a request ends without a ticket: by its status, or 0 without a usable answer.
Refusals == {0, 404, 429, 503}

wssRetryAfter(status) == status \in {429, 503}

\* One broker front after the other, a second round only if one of them asked
\* for it, it fits the deadline, and no rung of this ladder has had one.
NextBroker(status) ==
    LET hint == asking.hint \/ wssRetryAfter(status) IN
    IF asking.broker < Len(wssTicketBrokerFronts(lad.via))
    THEN /\ asking' = [asking EXCEPT !.broker = @ + 1, !.hint = hint]
         /\ UNCHANGED <<lad, retryUsed, blamed>>
    ELSE \/ /\ asking.round = 0 /\ hint /\ ~retryUsed
            /\ asking' = [NoAsk EXCEPT !.round = 1] /\ retryUsed' = TRUE
            /\ UNCHANGED <<lad, blamed>>
         \/ asking' = NoAsk /\ FrontFails

requestWSSSessionTicket ==
    /\ lad.at = "ticket"
    /\ LET f == Fronts(Relay)[lad.front] IN
       \/ /\ wssTicketHandler(f) /\ DialClient(newWSSTicketID, f)
          /\ Onto("wdial") /\ asking' = NoAsk /\ Smooth
          /\ UNCHANGED <<punchVars, held, retryUsed, blamed>>
       \/ /\ \E status \in Refusals : NextBroker(status)
          /\ Smooth /\ Apart /\ UNCHANGED held
       \/ \* the answer is lost
          /\ wssTicketHandler(f) /\ NextBroker(0) /\ GoesWrong
          /\ UNCHANGED <<replayVars, sidecarVars, cli, punchVars, held>>
       \/ \* out of time
          /\ FrontFails /\ asking' = NoAsk
          /\ Smooth /\ Apart /\ UNCHANGED held
       \/ LocalFailure

attemptWSSCandidate ==
    /\ lad.at = "wdial"
    /\ \/ Dialed /\ Onto("start") /\ held' = held \cup {"wss"} /\ Smooth
          /\ UNCHANGED <<retryUsed, blamed>>
       \/ DialFails /\ FrontFails /\ UNCHANGED held
    /\ UNCHANGED <<punchVars, claims, asking>>

-----------------------------------------------------------------------------
(* The session, and its end *)

gracefulWSSSessionEnd == transportErr /\ Graceful(cli.end)

\* The path is lost, and a page is fetched anew.  A relay is not held responsible
\* for an orderly end.
reladder ==
    /\ lad.at = "up" /\ GoesWrong /\ teardown /\ FirstReachable
    /\ Leave([NoLadder("fetch") EXCEPT !.again = TRUE,
                !.failed = IF gracefulWSSSessionEnd THEN None ELSE Relay])

\* It is lost and there is no further recovery.
givesUp == lad.at = "up" /\ transportErr /\ Smooth /\ teardown /\ LadderFails

\* The user disconnects: whatever is under way ends, and no relay is blamed.
Cancelled ==
    /\ lad.at \notin {"idle", "over"}
    /\ teardown /\ race' = NoRace /\ Leave(NoLadder("over")) /\ Smooth
    /\ UNCHANGED <<roster, panelVars>>

\* Steps of a rung, which fetch nothing.
Rung ==
    \/ attemptDirectCandidate \/ maybePunch \/ startCandidate \/ probeCandidate
    \/ requestWSSSessionTicket \/ attemptWSSCandidate \/ givesUp

Ongoing == Racing \/ connectFlow \/ fetchFails \/ reladder \/ (Rung /\ UNCHANGED race)

LadderStep == UNCHANGED <<roster, panelVars>> /\ lad.at \notin {"idle", "over"} /\ Ongoing
=============================================================================
