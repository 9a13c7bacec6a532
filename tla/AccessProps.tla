---------------------------- MODULE AccessProps ----------------------------
(* What the access path promises. *)
EXTENDS Access

-----------------------------------------------------------------------------
(* Tickets *)

\* A ticket is claimed while its record is being written; one that was honoured
\* twice, or is claimed after it was honoured, has no counterpart.
Stage(t) ==
    IF grants[t] = 0
    THEN IF t \notin Issued THEN "none" ELSE IF tail = t THEN "claimed" ELSE "issued"
    ELSE IF grants[t] = 1 /\ tail # t THEN "spent" ELSE "abused"

Once == INSTANCE OneShot WITH
    tk <- [t \in Tickets |-> Stage(t)],
    life <- [t \in Tickets |-> IF t \in Issued THEN replayUntil(t) ELSE 0],
    clock <- now

\* Every ticket is honoured at most once, and only if presented within its life,
\* whatever the sidecar's crashes, failed writes, compactions and pruned entries,
\* and however often and how late a front delivers its requests
\* (wssTicketHandler, Verify, Consume, handleBridge).
HonouredOnce == Once!Spec

-----------------------------------------------------------------------------
(* The app's pages *)

\* However refreshes, tests and restarts of the core overlap, a list that is shown or
\* tested was, when handed out, of the broker it was asked of and within its not_after.
\* At most one request is under way, and only for a list the cache does not have: one
\* who waited while it was fetched takes it from the cache.  (The cache has room for
\* one list: lists and tests, which are of different brokers, displace each other's,
\* and a failed request leaves none, so a broker may well be asked more than once in
\* MinDirectoryRefreshInterval)
\* (directoryCache.fetch, snapshotFor; UpdateFromRemote, StartAutoRefresh).
ListsSound ==
    /\ \A j \in Jobs : job[j].at = "listed" => job[j].got = "good"
    /\ \A j \in Jobs : job[j].at = "fetch" => flight = j /\ ~snapshotFor(URLOf(j), TRUE)

\* Saving the mode never takes back DNS servers that have been saved, nor the other
\* way round, however the two overlap: a job that could read the file keeps the other
\* half as it is at that moment.  One that could not resets it
\* (settingsMu: a mode write racing a DNS write would drop the other half;
\* loadSettings, saveSettings).
HalvesKept ==
    [][\A j \in Jobs :
         job[j].at = "save" /\ job'[j].at = "off" /\ file' # file =>
             Half(j, file') = Half(j, IF job[j].got = None THEN Unset ELSE file)]_vars

-----------------------------------------------------------------------------
Count(S) == Cardinality(S)
Streams == Count({s \in Handlers \X (1 .. Budget) : s[2] <= hs[s[1]].live})

\* Every slot is held by a handler that is still there, and every one of those
\* holds its own, so no early return, refusal or crash leaks capacity or frees
\* it twice; the coordinator's in-flight count is that of its directives
\* (handleBridge's defers, sourceUsage, inflightCap).
SlotsAccounted ==
    /\ slots.hand = Count({h \in Handlers : hs[h].at \in {"check", "sync"}})
    /\ slots.sess = Count({h \in Handlers : hs[h].at \in {"serve", "idle", "used", "drain"}})
    /\ slots.src = slots.sess /\ slots.streams = Streams /\ slots.srcStreams = Streams
    /\ slots.src <= SourceSessions /\ slots.streams <= MaxStreams
    /\ \A h \in Handlers : hs[h].live + hs[h].left <= Budget
    /\ inflight = Count({p \in Punches : coord[p].at = "directive"})

\* A ladder leaves exactly one relay_attempt_failed for each relay whose own path
\* failed and none for the others: tickets, fronts, sessions, local failures and
\* a user who disconnects never count against a relay
\* (runLadder, attemptCandidate, markRelayFailureRecorded).
BlamedOnce ==
    \A i \in DOMAIN lad.order :
        blamed[lad.order[i]] =
            IF i < lad.rung \/ (i = lad.rung /\ lad.path = "wss") THEN 1 ELSE 0

Snapshot(known) == metricSnapshot(Recorded(known), ListTime)
Steady(s) == 4 * (s.ok + 1) >= 3 * (s.ok + s.bad + 2)
Failing(s) == 4 * (s.ok + 1) <= s.ok + s.bad + 2
Alike(l, sl, r, sr) == /\ observedLatencyScore(sl) = observedLatencyScore(sr)
                       /\ observedSpeedScore(Desc[l], sl) = observedSpeedScore(Desc[r], sr)
RankedFairly(registered) ==
    \A known \in [registered -> Histories] :
        LET list == List(registered, known)
            S(i) == Snapshot(known[list[i]])
        IN  \A j \in DOMAIN list : \A i \in 1 .. j - 1 :
                Steady(S(j)) /\ Failing(S(i)) => ~Alike(list[i], S(i), list[j], S(j))
FairRosters == {registered \in Rosters : RankedFairly(registered)}

\* No load a relay carries puts it behind one that keeps failing: of two relays with
\* like latency scores and like speed scores, one that works three times out of four
\* is listed before one that fails as often, however many sessions each has.  (A speed
\* score is the measured rate by the rate the relay says it has, so two relays may be
\* as fast as each other and score differently)
\* (relayScore's weights, overCapacityPenalty's limit, metricSnapshots).
ReliableFirst == RankingMode = "global" /\ race # NoRace => roster \in FairRosters

\* The socket a punched path or a WSS session runs over is the client's own, and
\* sing-box's tunnel takes it in on no rung: the tunnel would have to carry itself
\* (buildInbound's exclusions, attemptCandidate's refusal of fronts in TUN mode).
OutsideTunnel ==
    lad.at \in {"probe", "up"} =>
        /\ lad.path = "punch" => ~Captures(CandidateConfig, PeerOf(Relay))
        /\ lad.path = "wss" => ~Captures(CandidateConfig, FrontOf(Relay))

Bypassed(in) == Range(in.countries) \cup {t \in {"private"} : in.lan}
Preferred(in, lookup) ==
    LET local == SelectSeq(in.countries,
                           LAMBDA c : c \in lookup /\ splitTunnelDirectResolvers[c] # None)
    IN  (IF "probe" \in lookup THEN <<>> ELSE [i \in DOMAIN local |-> Direct(local[i])])
          \o [i \in DOMAIN DNSServers(in) |-> Proxied(i)]
FirstReal(servers, rcode) ==
    LET real == {i \in DOMAIN servers : rcode[servers[i]] # "SERVFAIL"}
    IN  servers[IF real = {} THEN Len(servers) ELSE Min(real)]

Proven(in) ==
    LET cfg == BuildSingBoxConfig(in) IN
    /\ \A flow \in Flows :
         LET to == Routed(cfg, flow) IN
         /\ to = "hijack" <=> flow \cap {"dns", "53"} # {}
         /\ /\ {"tcp", "probe"} \subseteq flow
            /\ "private" \notin flow \/ in.countries # <<>>
            => to # "direct"
         /\ to = "direct" => flow \cap Bypassed(in) # {}
         /\ {"udp", "443"} \subseteq flow => to # "proxy"
    /\ in.shape = "doh" =>
         \A lookup \in Lookups, rcode \in [Resolvers -> Rcodes] :
             LET answer == Resolved(cfg, lookup, rcode) IN
             /\ answer.by = FirstReal(Preferred(in, lookup), rcode)
             /\ "probe" \in lookup => answer.fresh
ProvenModes == {m \in Modes : \A in \in ConfigInputs : in.mode = m => Proven(in)}

\* Whatever is split off, a probe of a public address goes through the tunnel and so
\* does its lookup, past every cache (a private one goes with the
\* LAN if that is all that is split off); no plain lookup escapes to the LAN or a
\* bypassed country, only what is bypassed goes direct, and QUIC is never left to a
\* proxy that cannot carry it.  A lookup ends with the first resolver that really
\* answers, its own country's before the proxied ones
\* (buildRouteConfig, buildDNSConfig, dnsFailoverRules, countryDNSRules).
ProbesProven == lad.at = "start" => mode \in ProvenModes

\* Nothing is left of a connect, but for a relay that may be listening.
Released ==
    /\ held = {} /\ cli = NoClient /\ est = NoPunch /\ inflight = 0
    /\ \A h \in Handlers : hs[h].at = "free"
    /\ \A p \in Punches : rsp[p] \notin {"attempt", "bridged"}

\* Whatever fails, a connect or recovery comes to a tunnel or gives up, and once
\* given up nothing of it is left: no candidate, no session at the sidecar, no punch
\* request at the coordinator, no hole punching and no punched path.  One thing may be
\* left, and is not claimed here: a relay whose peer gave up before it dialled listens
\* on the punched socket until it is shut down
\* (teardown, serveSession's timers, Attempt's deadline; RelayBridge).
Settles ==
    lad.at \notin {"idle", "up"} ~> lad.at = "up" \/ (lad.at = "over" /\ Released)

-----------------------------------------------------------------------------
(* What holds throughout: what each party keeps, and that a front is tried in the
   course of a ladder only, and not with a tunnel device *)

TunnelInv ==
    /\ {"at", "path"} \subseteq DOMAIN lad
    /\ lad.path = "wss" => mode # "tun" /\ lad.at # "idle"

AccessInv == TicketInv /\ SlotInv /\ PunchInv /\ PanelInv /\ TunnelInv

\* Where no rung is being tried; and what is known of the rungs: a relay's own path
\* comes first, its fronts after it has failed, and a session belongs to a front.
Between == {"idle", "fetch", "over"}
BlameInv ==
    /\ {"at", "order", "rung", "path", "failed"} \subseteq DOMAIN lad
    /\ lad.failed \in Relays \cup {None}
    /\ blamed \in [Relays -> Nat]
    /\ lad.at # "idle" => roster \in Rosters
    /\ race # NoRace => lad.at = "fetch"
    /\ lad.at \in Between => /\ lad.order = <<>> /\ lad.path = "direct"
                             /\ blamed = Blameless
    /\ lad.at \notin Between => IsLadder(lad.order) /\ lad.rung \in 1..Len(lad.order)
    /\ lad.at \in {"rung", "punch"} => lad.path = "direct"
    /\ lad.at \in {"ticket", "wdial"} => lad.path = "wss"
    /\ cli.at # "none" => lad.path = "wss" /\ lad.at \in {"start", "probe", "up"}
    /\ BlamedOnce
=============================================================================
