------------------------------ MODULE Ranking ------------------------------
(***************************************************************************)
(* How the broker ranks relays (internal/broker/ranking.go, store.go,      *)
(* postgres_store.go): what clients report of a relay becomes sessions and *)
(* observations, these a snapshot, and the snapshot a score.               *)
(*                                                                         *)
(* A history is the sequence of the events reported of one relay, in the   *)
(* order of their arrival times; 0 is the zero time.  Scores are in        *)
(* millionths, which is what two scores must differ by to differ.          *)
(***************************************************************************)
EXTENDS Integers, Sequences, FiniteSets, Functions, TLC

CONSTANTS ActiveTimeout,  \* activeSessionTimeout
          RankWindow,     \* rankingWindow
          RankingMode,    \* "global" or "legacy"
          ListTime        \* when the relays are listed

Million == 1000000

\* A sequence taken in from its first element to its last.  (This and Sorted are all
\* that is needed of the library's SequencesExt, which is a burden to the provers.)
Through(Op(_, _), base, seq) ==
    LET upTo[i \in 0 .. Len(seq)] == IF i = 0 THEN base ELSE Op(upTo[i - 1], seq[i])
    IN  upTo[Len(seq)]

\* The elements of a set in the order a comparison sorts them.
Sorted(S, Before(_, _)) ==
    SortSeq(CHOOSE listed \in Bijection(1 .. Cardinality(S), S) : TRUE, Before)

-----------------------------------------------------------------------------
(* The metrics of a relay *)

NoSession == [beat |-> 0, ended |-> 0]
NoMetrics(names) == [sessions |-> [s \in names |-> NoSession], seen |-> <<>>]

\* A heartbeat revives a session unless it was ended later than that.
sessionHeartbeat(session, at) ==
    [beat |-> at, ended |-> IF session.ended >= at THEN session.ended ELSE 0]
markSessionTerminal(session, at) == [session EXCEPT !.ended = at]

recordRelayTelemetry(m, e) ==
    CASE e.kind = "heartbeat" -> [m EXCEPT !.sessions[e.sess] = sessionHeartbeat(@, e.at)]
      [] e.kind = "ended" -> [m EXCEPT !.sessions[e.sess] = markSessionTerminal(@, e.at)]
      [] OTHER -> [m EXCEPT !.seen = Append(@, e)]

\* Observations that have left the window go, and so do sessions that ended before it.
pruneMetrics(m, cutoff) ==
    [sessions |-> [s \in DOMAIN m.sessions |->
                     IF m.sessions[s].ended \in 1 .. cutoff - 1 THEN NoSession
                     ELSE m.sessions[s]],
     seen |-> SelectSeq(m.seen, LAMBDA e : e.at >= cutoff)]

SessionsOf(history) == {history[i].sess : i \in DOMAIN history}
Recorded(history) ==
    Through(LAMBDA m, e : pruneMetrics(recordRelayTelemetry(m, e), e.at - RankWindow),
            NoMetrics(SessionsOf(history)), history)

activeSessions(m, at) ==
    Cardinality({s \in DOMAIN m.sessions : /\ m.sessions[s].beat > 0
                                           /\ m.sessions[s].ended = 0
                                           /\ m.sessions[s].beat > at - ActiveTimeout})

addMetricValue(v, measured) ==
    IF measured <= 0 THEN v ELSE [total |-> v.total + measured, count |-> v.count + 1]
average(v) == IF v.count = 0 THEN 0 ELSE v.total \div v.count

metricSnapshot(m, at) ==
    LET seen == SelectSeq(m.seen, LAMBDA e : e.at >= at - RankWindow /\ e.at <= at)
        Tests(k) == Len(SelectSeq(seen, LAMBDA e : e.kind = k))
        Value(k, Of(_)) ==
            Through(LAMBDA v, e : IF e.kind = k THEN addMetricValue(v, Of(e)) ELSE v,
                    [total |-> 0, count |-> 0], seen)
    IN  [active |-> activeSessions(m, at),
         ok |-> Tests("succeeded"), bad |-> Tests("failed"),
         tcp |-> Value("succeeded", LAMBDA e : e.tcp),
         probe |-> Value("succeeded", LAMBDA e : e.probe),
         ttfb |-> Value("speed", LAMBDA e : e.ttfb),
         mbps |-> Value("speed", LAMBDA e : e.mbps)]

-----------------------------------------------------------------------------
(* The score *)

\* n / d, cut to 0 and 1.
clamp01(n, d) == IF n <= 0 THEN 0 ELSE IF n >= d THEN Million ELSE (Million * n) \div d

successRate(s) == clamp01(s.ok + 1, s.ok + s.bad + 2)

headroom(d, s) ==
    IF d.maxSessions > 0 THEN clamp01(d.maxSessions - s.active, d.maxSessions)
    ELSE Million \div 2

\* The mean of the averages there are: best at 100 ms, worst at two seconds.
observedLatencyScore(s) ==
    LET known == SelectSeq(<<average(s.tcp), average(s.probe), average(s.ttfb)>>,
                           LAMBDA ms : ms > 0)
        mean  == FoldFunction(+, 0, known) \div Len(known)
    IN  IF known = <<>> THEN Million \div 2 ELSE Million - clamp01(mean - 100, 1900)

observedSpeedScore(d, s) ==
    IF s.mbps.count = 0 \/ d.maxMbps <= 0 THEN Million \div 2
    ELSE clamp01(average(s.mbps), d.maxMbps)

\* Mutant: a relay loses more the further it is over its capacity, without a limit.
overCapacityPenaltyUnbounded(d, s) ==
    IF d.maxSessions <= 0 \/ s.active <= d.maxSessions THEN 0
    ELSE (40000 * (s.active - d.maxSessions)) \div d.maxSessions

overCapacityPenalty(d, s) ==
    IF d.maxSessions <= 0 \/ s.active <= d.maxSessions THEN 0
    ELSE (4 * clamp01(s.active - d.maxSessions, d.maxSessions)) \div 100

relayScore(d, s) ==
    LET score == (50 * successRate(s) + 20 * headroom(d, s)
                    + 20 * observedLatencyScore(s) + 10 * observedSpeedScore(d, s)) \div 100
        left  == score - overCapacityPenalty(d, s)
    IN  IF left < 0 THEN 0 ELSE left

\* By address family, then by heartbeat.
sortLegacyRelays(relays, Desc) ==
    Sorted(relays, LAMBDA l, r :
        IF Desc[l].v6 # Desc[r].v6 THEN Desc[l].v6 ELSE Desc[l].beat > Desc[r].beat)

\* By score, then by heartbeat, address family and name.  A difference of up to a
\* millionth is none.
sortRelayCandidates(relays, Desc, score) ==
    IF RankingMode = "legacy" THEN sortLegacyRelays(relays, Desc)
    ELSE Sorted(relays, LAMBDA l, r :
             IF score[l] - score[r] \notin -1 .. 1 THEN score[l] > score[r]
             ELSE IF Desc[l].beat # Desc[r].beat THEN Desc[l].beat > Desc[r].beat
             ELSE IF Desc[l].v6 # Desc[r].v6 THEN Desc[l].v6
             ELSE Desc[l].rank < Desc[r].rank)
=============================================================================
