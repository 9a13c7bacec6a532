---------------------------- MODULE AccessProofs ----------------------------
(***************************************************************************)
(* AccessInv is an invariant of Access, and with it what AccessProps says  *)
(* of tickets, slots, lists, settings and the tunnel, for any number of    *)
(* tickets, handlers, punches and jobs and for any limits.                 *)
(***************************************************************************)
EXTENDS AccessProps, AccessStepProofs

-----------------------------------------------------------------------------
(* The ladder *)

\* What a step of the ladder does to the path of its rung.
PathSound ==
    /\ {"at", "path"} \subseteq DOMAIN lad' /\ lad'.at # "idle"
    /\ lad'.path = "wss" => lad.path = "wss" \/ mode # "tun"

LEMMA OntoSound ==
    ASSUME TunnelInv, NEW at, at # "idle", Onto(at)
    PROVE  PathSound
BY DEF TunnelInv, Onto, PathSound

LEMMA FailsSound ==
    ASSUME LadderFails
    PROVE  PathSound
BY DEF LadderFails, Leave, NoLadder, PathSound

LEMMA NextRungSound ==
    ASSUME TunnelInv, NEW blames, NextRung(blames)
    PROVE  PathSound
<1>1. CASE LadderFails
  BY <1>1, FailsSound
<1>2. CASE lad' = [lad EXCEPT !.at = "rung", !.rung = @ + 1, !.path = "direct", !.front = 1]
  BY <1>2 DEF TunnelInv, PathSound
<1> QED BY <1>1, <1>2 DEF NextRung

LEMMA FrontFailsSound ==
    ASSUME TunnelInv, FrontFails
    PROVE  PathSound
<1>1. CASE lad' = [lad EXCEPT !.at = "ticket", !.front = @ + 1]
  BY <1>1 DEF TunnelInv, PathSound
<1> QED BY <1>1, NextRungSound DEF FrontFails

\* A front is turned to where the mode lets it.
LEMMA DirectFailsSound ==
    ASSUME TunnelInv, DirectFails
    PROVE  PathSound
<1>1. CASE /\ Fronts(Relay) # <<>>
           /\ lad' = [lad EXCEPT !.at = "ticket", !.path = "wss", !.front = 1]
  BY <1>1 DEF TunnelInv, PathSound, Fronts
<1> QED BY <1>1, NextRungSound DEF DirectFails

LEMMA NextBrokerSound ==
    ASSUME TunnelInv, lad.at # "idle", NEW status, NextBroker(status)
    PROVE  PathSound
<1>1. CASE UNCHANGED lad
  BY <1>1 DEF TunnelInv, PathSound
<1> QED BY <1>1, FrontFailsSound DEF NextBroker

LEMMA RungSound ==
    ASSUME TunnelInv, lad.at # "idle", Rung
    PROVE  PathSound
<1>1. CASE attemptDirectCandidate
  BY <1>1, DirectFailsSound, FailsSound, OntoSound DEF attemptDirectCandidate, LocalFailure
<1>2. CASE maybePunch
  <2>1. CASE lad' = [lad EXCEPT !.at = "start", !.path = "punch"]
    BY <2>1 DEF TunnelInv, PathSound
  <2> QED BY <1>2, <2>1, OntoSound DEF maybePunch
<1>3. CASE startCandidate
  BY <1>3, OntoSound, FailsSound, FrontFailsSound DEF startCandidate, LocalFailure
<1>4. CASE probeCandidate
  BY <1>4, OntoSound, FailsSound, DirectFailsSound, FrontFailsSound
  DEF probeCandidate, LocalFailure
<1>5. CASE requestWSSSessionTicket
  BY <1>5, OntoSound, FailsSound, NextBrokerSound, FrontFailsSound
  DEF requestWSSSessionTicket, LocalFailure
<1>6. CASE attemptWSSCandidate
  BY <1>6, OntoSound, FrontFailsSound DEF attemptWSSCandidate
<1>7. CASE givesUp
  BY <1>7, FailsSound DEF givesUp
<1> QED BY <1>1, <1>2, <1>3, <1>4, <1>5, <1>6, <1>7 DEF Rung

LEMMA LadderSound ==
    ASSUME TunnelInv, fetchCandidates \/ LadderStep \/ Cancelled
    PROVE  PathSound
<1>1. CASE fetchCandidates
  BY <1>1, OntoSound DEF fetchCandidates
<1>2. CASE Cancelled
  BY <1>2 DEF Cancelled, Leave, NoLadder, PathSound
<1>3. CASE LadderStep
  <2>1. lad.at # "idle"
    BY <1>3 DEF LadderStep
  <2>2. CASE Racing
    BY <2>1, <2>2 DEF Racing, TunnelInv, PathSound
  <2>3. CASE connectFlow
    <3>1. ASSUME NEW order, NEW via,
                 lad' = [NoLadder("rung") EXCEPT !.order = demoteRelay(order, lad.failed),
                                                 !.via = via]
          PROVE  PathSound
      BY <3>1 DEF NoLadder, PathSound
    <3> QED BY <2>3, <3>1, FailsSound, Zenon DEF connectFlow
  <2>4. CASE fetchFails
    <3>1. CASE lad' = [lad EXCEPT !.again = FALSE]
      BY <2>1, <3>1 DEF TunnelInv, PathSound
    <3> QED BY <2>4, <3>1, FailsSound DEF fetchFails
  <2>5. CASE reladder
    BY <2>5 DEF reladder, Leave, NoLadder, PathSound
  <2> QED BY <1>3, <2>1, <2>2, <2>3, <2>4, <2>5, RungSound DEF LadderStep, Ongoing
<1> QED BY <1>1, <1>2, <1>3

-----------------------------------------------------------------------------
(* Who is blamed *)

\* Steps of the others, and of the pages before a connect.
LEMMA BlameStill ==
    ASSUME BlameInv, UNCHANGED <<lad, blamed, roster, race>>,
           cli'.at # "none" => cli.at # "none"
    PROVE  BlameInv'
BY DEF BlameInv, BlamedOnce

\* The ladder is left, and what it knew with it.
LEMMA BlameOver ==
    ASSUME BlameInv, lad.at # "idle", LadderFails, roster' = roster, race' = NoRace,
           cli'.at = "none"
    PROVE  BlameInv'
<1>1. lad' = NoLadder("over") /\ blamed' = Blameless
  BY DEF LadderFails, Leave
<1>2. /\ {"at", "order", "rung", "path", "failed"} \subseteq DOMAIN lad'
      /\ lad'.at = "over" /\ lad'.order = <<>> /\ lad'.path = "direct"
      /\ lad'.failed = None
  BY <1>1 DEF NoLadder
<1>3. BlamedOnce'
  BY <1>2 DEF BlamedOnce
<1>4. Blameless \in [Relays -> Nat]
  BY DEF Blameless
<1> QED BY <1>1, <1>2, <1>3, <1>4 DEF BlameInv, Between

\* The same rung goes on, on the same kind of path.
LEMMA BlameOnto ==
    ASSUME BlameInv, lad.at \notin Between, NEW at, at \notin Between,
           {"at", "order", "rung", "path", "failed"} \subseteq DOMAIN lad',
           lad'.at = at, lad'.order = lad.order, lad'.rung = lad.rung,
           lad'.failed = lad.failed, UNCHANGED <<blamed, roster, race>>,
           lad'.path = "wss" <=> lad.path = "wss",
           at \in {"rung", "punch"} => lad'.path = "direct",
           at \in {"ticket", "wdial"} => lad'.path = "wss",
           cli'.at # "none" => lad'.path = "wss" /\ at \in {"start", "probe", "up"}
    PROVE  BlameInv'
<1>1. BlamedOnce'
  BY DEF BlameInv, BlamedOnce
<1>2. race' = NoRace /\ roster' \in Rosters
  BY DEF BlameInv, Between
<1> QED BY <1>1, <1>2 DEF BlameInv

\* The next rung, when the relays so far have their one record and no other has.
LEMMA BlameNext ==
    ASSUME BlameInv, lad.at \notin Between, NEW blames \in [Relays -> Nat],
           \A i \in DOMAIN lad.order :
              blames[lad.order[i]] = IF i <= lad.rung THEN 1 ELSE 0,
           NextRung(blames), UNCHANGED <<roster, race>>, cli'.at = "none"
    PROVE  BlameInv'
<1>1. /\ race' = NoRace /\ roster' \in Rosters /\ lad.at # "idle"
      /\ IsLadder(lad.order) /\ lad.rung \in 1..Len(lad.order)
      /\ lad.failed \in Relays \cup {None}
      /\ {"at", "order", "rung", "path", "failed"} \subseteq DOMAIN lad
  BY DEF BlameInv, Between
<1>2. CASE LadderFails
  BY <1>1, <1>2, BlameOver
<1>3. CASE /\ lad.rung # Len(lad.order) /\ blamed' = blames
           /\ lad' = [lad EXCEPT !.at = "rung", !.rung = @ + 1, !.path = "direct", !.front = 1]
  <2>1. /\ {"at", "order", "rung", "path", "failed"} \subseteq DOMAIN lad'
        /\ lad'.at = "rung" /\ lad'.order = lad.order /\ lad'.rung = lad.rung + 1
        /\ lad'.path = "direct" /\ lad'.failed = lad.failed
    BY <1>1, <1>3
  <2>2. lad.order \in Seq(Relays)
    BY <1>1 DEF IsLadder
  <2>3. lad'.rung \in 1..Len(lad.order)
    BY <1>1, <1>3, <2>1, <2>2
  <2>4. \A i \in DOMAIN lad.order : i < lad.rung + 1 <=> i <= lad.rung
    BY <1>1, <2>2
  <2>5. BlamedOnce'
    BY <1>3, <2>1, <2>4 DEF BlamedOnce
  <2> QED BY <1>1, <1>3, <2>1, <2>3, <2>5 DEF BlameInv, Between
<1> QED BY <1>2, <1>3 DEF NextRung

\* The relay's own path fails: its one record is made.
LEMMA BlameDirect ==
    ASSUME BlameInv, lad.at \notin Between, lad.path # "wss", DirectFails,
           UNCHANGED <<roster, race>>
    PROVE  BlameInv'
<1>1. /\ race' = NoRace /\ roster' \in Rosters
      /\ IsLadder(lad.order) /\ lad.rung \in 1..Len(lad.order)
      /\ lad.failed \in Relays \cup {None} /\ blamed \in [Relays -> Nat]
      /\ {"at", "order", "rung", "path", "failed"} \subseteq DOMAIN lad
  BY DEF BlameInv, Between
<1>2. cli'.at = "none"
  BY DEF DirectFails, teardown, Close, NoClient
<1>3. /\ lad.order \in Seq(Relays) /\ Relay \in Relays /\ Relay = lad.order[lad.rung]
      /\ \A i \in DOMAIN lad.order : lad.order[i] = Relay => i = lad.rung
      /\ \A i \in DOMAIN lad.order : i \in Nat /\ lad.order[i] \in Relays
  BY <1>1 DEF IsLadder, Relay
<1>4. /\ Blame(Relay) \in [Relays -> Nat]
      /\ Blame(Relay)[Relay] = blamed[Relay] + 1
      /\ \A r \in Relays : r # Relay => Blame(Relay)[r] = blamed[r]
  BY <1>1, <1>3 DEF Blame
<1> HIDE DEF Blame
<1>5. \A i \in DOMAIN lad.order : blamed[lad.order[i]] = IF i < lad.rung THEN 1 ELSE 0
  BY DEF BlameInv, BlamedOnce
<1>6. \A i \in DOMAIN lad.order :
         Blame(Relay)[lad.order[i]] = IF i <= lad.rung THEN 1 ELSE 0
  <2> SUFFICES ASSUME NEW i \in DOMAIN lad.order
               PROVE  Blame(Relay)[lad.order[i]] = IF i <= lad.rung THEN 1 ELSE 0
    OBVIOUS
  <2>1. CASE i = lad.rung
    BY <1>1, <1>3, <1>4, <1>5, <2>1
  <2>2. CASE i # lad.rung
    BY <1>1, <1>3, <1>4, <1>5, <2>2
  <2> QED BY <2>1, <2>2
<1>7. CASE NextRung(Blame(Relay))
  BY <1>2, <1>4, <1>6, <1>7, BlameNext
<1>8. CASE /\ lad' = [lad EXCEPT !.at = "ticket", !.path = "wss", !.front = 1]
           /\ blamed' = Blame(Relay)
  <2>1. /\ {"at", "order", "rung", "path", "failed"} \subseteq DOMAIN lad'
        /\ lad'.at = "ticket" /\ lad'.order = lad.order /\ lad'.rung = lad.rung
        /\ lad'.path = "wss" /\ lad'.failed = lad.failed
    BY <1>1, <1>8
  <2>2. \A i \in DOMAIN lad.order : i <= lad.rung <=> i < lad.rung \/ i = lad.rung
    BY <1>1, <1>3
  <2>3. BlamedOnce'
    BY <1>6, <1>8, <2>1, <2>2 DEF BlamedOnce
  <2> QED BY <1>1, <1>2, <1>4, <1>8, <2>1, <2>3 DEF BlameInv, Between
<1> QED BY <1>7, <1>8 DEF DirectFails

\* A front fails: the relay has its record already.
LEMMA BlameFront ==
    ASSUME BlameInv, lad.at \notin Between, lad.path = "wss", FrontFails,
           UNCHANGED <<roster, race>>, cli'.at = "none"
    PROVE  BlameInv'
<1>1. /\ IsLadder(lad.order) /\ lad.rung \in 1..Len(lad.order)
      /\ blamed \in [Relays -> Nat]
      /\ {"at", "order", "rung", "path", "failed"} \subseteq DOMAIN lad
  BY DEF BlameInv
<1>2. CASE lad' = [lad EXCEPT !.at = "ticket", !.front = @ + 1] /\ UNCHANGED blamed
  <2>1. /\ {"at", "order", "rung", "path", "failed"} \subseteq DOMAIN lad'
        /\ lad'.at = "ticket" /\ lad'.order = lad.order /\ lad'.rung = lad.rung
        /\ lad'.path = lad.path /\ lad'.failed = lad.failed
    BY <1>1, <1>2
  <2>2. "ticket" \notin Between
    BY DEF Between
  <2> QED BY <1>2, <2>1, <2>2, BlameOnto
<1>3. CASE NextRung(blamed)
  <2>1. \A i \in DOMAIN lad.order : i <= lad.rung <=> i < lad.rung \/ i = lad.rung
    BY <1>1 DEF IsLadder
  <2>2. \A i \in DOMAIN lad.order :
           blamed[lad.order[i]] = IF i <= lad.rung THEN 1 ELSE 0
    BY <2>1 DEF BlameInv, BlamedOnce
  <2> QED BY <1>1, <1>3, <2>2, BlameNext
<1> QED BY <1>2, <1>3 DEF FrontFails

LEMMA BlameRung ==
    ASSUME BlameInv, lad.at # "idle", Rung, UNCHANGED <<roster, race>>
    PROVE  BlameInv'
<1>1. lad.at \notin Between
  BY Zenon DEF Between, Rung, attemptDirectCandidate, maybePunch, startCandidate, probeCandidate,
         requestWSSSessionTicket, attemptWSSCandidate, givesUp
<1>2. /\ race' = NoRace
      /\ {"at", "order", "rung", "path", "failed"} \subseteq DOMAIN lad
      /\ {"punch", "start", "probe", "up", "wdial"} \cap Between = {}
  BY <1>1 DEF BlameInv, Between
<1>3. teardown => cli'.at = "none"
  BY DEF teardown, Close, NoClient
<1>4. ASSUME LocalFailure PROVE BlameInv'
  BY <1>2, <1>3, <1>4, BlameOver DEF LocalFailure
<1>5. ASSUME NEW at, at \notin Between, Onto(at), UNCHANGED blamed,
             at \in {"rung", "punch"} => lad.path = "direct",
             at \in {"ticket", "wdial"} => lad.path = "wss",
             cli'.at # "none" => lad.path = "wss" /\ at \in {"start", "probe", "up"}
      PROVE  BlameInv'
  <2>1. /\ {"at", "order", "rung", "path", "failed"} \subseteq DOMAIN lad'
        /\ lad'.at = at /\ lad'.order = lad.order /\ lad'.rung = lad.rung
        /\ lad'.path = lad.path /\ lad'.failed = lad.failed
    BY <1>2, <1>5 DEF Onto
  <2> QED BY <1>1, <1>5, <2>1, BlameOnto
<1>6. CASE attemptDirectCandidate
  <2>1. lad.at = "rung" /\ lad.path = "direct" /\ cli.at = "none"
    BY <1>6 DEF attemptDirectCandidate, BlameInv
  <2>2. CASE DirectFails
    BY <1>1, <2>1, <2>2, BlameDirect
  <2>3. CASE (Onto("punch") \/ Onto("start")) /\ UNCHANGED <<cli, blamed>>
    BY <1>2, <1>5, <2>1, <2>3
  <2> QED BY <1>4, <1>6, <2>2, <2>3 DEF attemptDirectCandidate
<1>7. CASE maybePunch
  <2>1. lad.path = "direct" /\ cli'.at = "none" /\ UNCHANGED blamed
    BY <1>7 DEF maybePunch, BlameInv
  <2>2. CASE lad' = [lad EXCEPT !.at = "start", !.path = "punch"]
    <3>1. /\ {"at", "order", "rung", "path", "failed"} \subseteq DOMAIN lad'
          /\ lad'.at = "start" /\ lad'.order = lad.order /\ lad'.rung = lad.rung
          /\ lad'.path = "punch" /\ lad'.failed = lad.failed
      BY <1>2, <2>2
    <3> QED BY <1>1, <1>2, <2>1, <3>1, BlameOnto
  <2>3. CASE Onto("start")
    BY <1>2, <1>5, <2>1, <2>3
  <2> QED BY <1>7, <2>2, <2>3 DEF maybePunch
<1>8. CASE startCandidate
  <2>1. cli.at # "none" => lad.path = "wss"
    BY DEF BlameInv
  <2>2. CASE Onto("probe") /\ Apart /\ UNCHANGED blamed
    BY <1>2, <1>5, <2>1, <2>2 DEF Apart
  <2>3. CASE transportErr /\ FrontFails /\ teardown
    BY <1>1, <1>3, <2>1, <2>3, BlameFront DEF transportErr
  <2> QED BY <1>4, <1>8, <2>2, <2>3 DEF startCandidate
<1>9. CASE probeCandidate
  <2>1. cli.at # "none" => lad.path = "wss"
    BY DEF BlameInv
  <2>2. CASE Onto("up") /\ Apart /\ UNCHANGED blamed
    BY <1>2, <1>5, <2>1, <2>2 DEF Apart
  <2>3. CASE lad.path # "wss" /\ DirectFails
    BY <1>1, <2>3, BlameDirect
  <2>4. CASE lad.path = "wss" /\ FrontFails /\ teardown
    BY <1>1, <1>3, <2>4, BlameFront
  <2> QED BY <1>4, <1>9, <2>2, <2>3, <2>4 DEF probeCandidate
<1>10. CASE requestWSSSessionTicket
  <2>1. lad.at = "ticket" /\ lad.path = "wss" /\ cli.at = "none"
    BY <1>10 DEF requestWSSSessionTicket, BlameInv
  <2>2. CASE Onto("wdial") /\ UNCHANGED <<cli, blamed>>
    BY <1>2, <1>5, <2>1, <2>2
  <2>3. ASSUME FrontFails, UNCHANGED cli PROVE BlameInv'
    BY <1>1, <2>1, <2>3, BlameFront
  <2>4. ASSUME NEW status, NextBroker(status), UNCHANGED cli PROVE BlameInv'
    BY <2>3, <2>4, BlameStill DEF NextBroker
  <2>5. CASE \E status \in Refusals : NextBroker(status) /\ Apart
    BY <2>4, <2>5 DEF Apart
  <2>6. CASE FrontFails /\ Apart
    BY <2>3, <2>6 DEF Apart
  <2>7. CASE NextBroker(0) /\ UNCHANGED cli
    BY <2>4, <2>7
  <2>8. DialClient(newWSSTicketID, Fronts(Relay)[lad.front]) => UNCHANGED cli
    BY DEF DialClient
  <2> QED BY <1>4, <1>10, <2>2, <2>5, <2>6, <2>7, <2>8, Zenon DEF requestWSSSessionTicket
<1>11. CASE attemptWSSCandidate
  <2>1. lad.at = "wdial" /\ lad.path = "wss" /\ cli.at = "none"
    BY <1>11 DEF attemptWSSCandidate, BlameInv
  <2>2. CASE Onto("start") /\ UNCHANGED blamed
    BY <1>2, <1>5, <2>1, <2>2
  <2>3. CASE DialFails /\ FrontFails
    BY <1>1, <2>1, <2>3, BlameFront DEF DialFails
  <2> QED BY <1>11, <2>2, <2>3 DEF attemptWSSCandidate
<1>12. CASE givesUp
  BY <1>2, <1>3, <1>12, BlameOver DEF givesUp
<1> QED BY <1>6, <1>7, <1>8, <1>9, <1>10, <1>11, <1>12 DEF Rung

\* Whatever order the relays of a list come in, each is in it once, the one to be
\* demoted included.
LEMMA RungsAre ==
    ASSUME NEW r \in Rosters, NEW b \in BOOLEAN, NEW order \in LadderOrders[r, b],
           order # <<>>, NEW id \in Relays \cup {None}
    PROVE  demoteRelay(order, id) # <<>> /\ IsLadder(demoteRelay(order, id))
BY OrdersAssumption, Zenon

LEMMA AtLoopback == \A u : (u \in Loopback) \in BOOLEAN
OBVIOUS

LEMMA BlameFetch ==
    ASSUME BlameInv, lad.at # "idle", roster' = roster,
           Racing \/ connectFlow \/ fetchFails \/ reladder
    PROVE  BlameInv'
<1>1. /\ {"at", "order", "rung", "path", "failed"} \subseteq DOMAIN lad
      /\ lad.failed \in Relays \cup {None} /\ roster \in Rosters
      /\ cli.at # "none" => lad.at \notin Between
  BY DEF BlameInv, Between
<1>2. teardown => cli'.at = "none"
  <2>1. teardown => cli' = NoClient
    BY ZenonT(40) DEF teardown, Close
  <2>2. NoClient.at = "none"
    BY DEF NoClient
  <2> QED BY <2>1, <2>2, ZenonT(40)
<1>3. \A i \in Pending : race # NoRace
  BY DEF Pending
<1>4. race # NoRace => /\ lad.at = "fetch" /\ cli.at = "none" /\ lad.order = <<>>
                       /\ lad.path = "direct" /\ blamed = Blameless
  BY <1>1 DEF BlameInv, Between
<1>5. Blameless \in [Relays -> Nat]
  BY DEF Blameless
<1>6. CASE Racing
  <2>1. race # NoRace /\ UNCHANGED <<lad, blamed, cli>>
    BY <1>3, <1>6 DEF Racing, Stagger, AttemptFails, Apart
  <2> QED BY <1>4, <2>1 DEF BlameInv, BlamedOnce
<1>7. CASE connectFlow
  <2> DEFINE Orders(i) == LadderOrders[roster, URL(i) \in Loopback]
  <2>0. PICK i \in Pending : \E order \in Orders(i) :
          /\ Wins(i)
          /\ IF order = <<>> THEN LadderFails
             ELSE /\ lad' = [NoLadder("rung") EXCEPT
                              !.order = demoteRelay(order, lad.failed),
                              !.via = IF URL(i) \in Range(Defaults) THEN None ELSE URL(i)]
                  /\ UNCHANGED <<retryUsed, blamed>>
    BY <1>7, Zenon DEF connectFlow
  <2>1. PICK order \in Orders(i) :
          /\ Wins(i)
          /\ IF order = <<>> THEN LadderFails
             ELSE /\ lad' = [NoLadder("rung") EXCEPT
                              !.order = demoteRelay(order, lad.failed),
                              !.via = IF URL(i) \in Range(Defaults) THEN None ELSE URL(i)]
                  /\ UNCHANGED <<retryUsed, blamed>>
    BY <2>0, Zenon
  <2>2. race # NoRace /\ race' = NoRace /\ cli'.at = "none"
    BY <1>3, <1>4, <1>7, <2>1, Zenon DEF connectFlow, Wins, Apart
  <2>3. CASE order = <<>>
    BY <2>1, <2>2, <2>3, BlameOver, Zenon
  <2>4. CASE order # <<>>
    <3> DEFINE rungs == demoteRelay(order, lad.failed)
    <3>1. rungs # <<>> /\ IsLadder(rungs)
      BY <1>1, <2>4, AtLoopback, RungsAre, Zenon
    <3> HIDE DEF Orders
    <3>2. rungs \in Seq(Relays) /\ Len(rungs) \in Nat \ {0}
      BY <3>1 DEF IsLadder
    <3>3. /\ {"at", "order", "rung", "path", "failed"} \subseteq DOMAIN lad'
          /\ lad'.at = "rung" /\ lad'.order = rungs /\ lad'.rung = 1
          /\ lad'.path = "direct" /\ lad'.failed = None
      BY <2>1, <2>4, Zenon DEF NoLadder
    <3> HIDE DEF rungs
    <3>4. blamed' = Blameless
      BY <1>4, <2>1, <2>2, <2>4, Zenon
    <3>5. BlamedOnce'
      BY <3>2, <3>3, <3>4 DEF BlamedOnce, Blameless
    <3>6. 1 \in 1..Len(rungs)
      BY <3>2
    <3> QED BY <1>1, <1>5, <2>2, <3>1, <3>3, <3>4, <3>5, <3>6, ZenonT(40) DEF BlameInv, Between
  <2> QED BY <2>3, <2>4, Zenon
<1>8. CASE fetchFails
  <2>1. race # NoRace /\ cli'.at = "none"
    BY <1>3, <1>4, <1>8 DEF fetchFails, AllFail, Apart
  <2>2. CASE race' = NoRace /\ LadderFails
    BY <2>1, <2>2, BlameOver
  <2>3. CASE lad' = [lad EXCEPT !.again = FALSE] /\ UNCHANGED blamed
    <3>1. /\ {"at", "order", "rung", "path", "failed"} \subseteq DOMAIN lad'
          /\ lad'.at = "fetch" /\ lad'.order = <<>> /\ lad'.path = "direct"
          /\ lad'.failed = lad.failed /\ blamed' = Blameless
      BY <1>1, <1>4, <2>1, <2>3
    <3>2. BlamedOnce'
      BY <3>1 DEF BlamedOnce
    <3> QED BY <1>1, <1>5, <2>1, <3>1, <3>2 DEF BlameInv, Between
  <2> QED BY <1>8, <2>2, <2>3 DEF fetchFails
<1>9. CASE reladder
  <2>1. Relay \in Relays
    BY <1>9 DEF reladder, BlameInv, Between, IsLadder, Relay
  <2>2. /\ {"at", "order", "rung", "path", "failed"} \subseteq DOMAIN lad'
        /\ lad'.at = "fetch" /\ lad'.order = <<>> /\ lad'.path = "direct"
        /\ lad'.failed \in {None, Relay}
        /\ blamed' = Blameless
    BY <1>9 DEF reladder, Leave, NoLadder
  <2>3. BlamedOnce'
    BY <2>2 DEF BlamedOnce
  <2> QED BY <1>1, <1>2, <1>5, <1>9, <2>1, <2>2, <2>3 DEF BlameInv, Between, reladder
<1> QED BY <1>6, <1>7, <1>8, <1>9

LEMMA BlameStep == BlameInv /\ [Next]_vars => BlameInv'
<1> SUFFICES ASSUME BlameInv, [Next]_vars PROVE BlameInv'
  OBVIOUS
<1>1. CASE Relayed \/ Punched \/ Passing \/ UNCHANGED vars
  <2>1. UNCHANGED <<cli, ladderVars>>
    BY <1>1 DEF Relayed, Serving, AtRelay, Punched, AtHub, Passing, vars
  <2> QED BY <2>1, BlameStill DEF ladderVars
<1>2. CASE Watched
  <2>1. UNCHANGED ladderVars /\ cli.at = "open"
    BY <1>2 DEF Watched, AtWatch, SessionEnds, PathBreaks
  <2> QED BY <2>1, BlameStill DEF ladderVars
<1>3. CASE Idling
  BY <1>3, BlameStill DEF Idling
<1>4. CASE fetchCandidates
  <2>1. /\ lad.at = "idle" /\ roster' \in Rosters
        /\ lad' = [lad EXCEPT !.at = "fetch"] /\ UNCHANGED <<cli, blamed>>
    BY <1>4 DEF fetchCandidates, Onto, Apart
  <2>2. /\ {"at", "order", "rung", "path", "failed"} \subseteq DOMAIN lad'
        /\ lad'.at = "fetch" /\ lad'.order = <<>> /\ lad'.path = "direct"
        /\ lad'.failed = lad.failed /\ blamed' = Blameless
    BY <2>1 DEF BlameInv, Between
  <2>3. BlamedOnce'
    BY <2>2 DEF BlamedOnce
  <2> QED BY <2>1, <2>2, <2>3 DEF BlameInv, Between
<1>5. CASE Cancelled
  <2>1. cli'.at = "none" /\ lad.at # "idle" /\ LadderFails /\ race' = NoRace /\ roster' = roster
    BY <1>5 DEF Cancelled, teardown, Close, NoClient, LadderFails
  <2> QED BY <2>1, BlameOver
<1>6. CASE LadderStep
  BY <1>6, BlameRung, BlameFetch DEF LadderStep, Ongoing
<1> QED BY <1>1, <1>2, <1>3, <1>4, <1>5, <1>6 DEF Next, Connecting

LEMMA BlameStart == Init => BlameInv
<1> SUFFICES ASSUME Init PROVE BlameInv
  OBVIOUS
<1>1. lad = NoLadder("idle") /\ blamed = Blameless /\ race = NoRace /\ cli.at = "none"
  BY DEF Init, LadderInit, DiscoveryInit, ClientInit, NoClient
<1>2. /\ {"at", "order", "rung", "path", "failed"} \subseteq DOMAIN lad
      /\ lad.at = "idle" /\ lad.order = <<>> /\ lad.path = "direct" /\ lad.failed = None
  BY <1>1 DEF NoLadder
<1>3. BlamedOnce
  BY SMTT(30), <1>2 DEF BlamedOnce
<1>4. Blameless \in [Relays -> Nat]
  BY DEF Blameless
<1> QED BY <1>1, <1>2, <1>3, <1>4 DEF BlameInv, Between

\* A ladder leaves one relay_attempt_failed for each relay whose own path failed and
\* none for the others, whatever relays are registered and however they are ranked,
\* and whichever of tickets, fronts, sessions and local causes fail in between
\* (runLadder, attemptCandidate, markRelayFailureRecorded).
THEOREM RelaysBlamedOnce == Spec => []BlamedOnce
<1>1. BlameInv => BlamedOnce
  BY DEF BlameInv
<1> QED BY <1>1, BlameStart, BlameStep, PTL DEF Spec

-----------------------------------------------------------------------------
(* What the client does to the broker, the relay and the hub *)

\* No ticket, or one that is issued and perhaps presented.
Asks ==
    \/ UNCHANGED <<claims, post>>
    \/ \E f : /\ wssTicketHandler(f)
              /\ \/ UNCHANGED post
                 \/ post' = [post EXCEPT ![newWSSTicketID] = [n |-> @.n + 1, via |-> f]]

ClientAside == Asks /\ UNCHANGED <<coord, inflight>>

LEMMA ApartAside == Apart => ClientAside
BY DEF Apart, ClientAside, Asks, sidecarVars, punchVars

LEMMA TeardownAside == teardown => ClientAside
BY DEF teardown, Close, ClientAside, Asks

LEMMA RequestAside ==
    ASSUME requestWSSSessionTicket
    PROVE  ClientAside
<1> DEFINE f == Fronts(Relay)[lad.front]
<1>1. CASE wssTicketHandler(f) /\ DialClient(newWSSTicketID, f) /\ UNCHANGED punchVars
  BY <1>1, Zenon DEF DialClient, ClientAside, Asks, punchVars
<1>2. CASE wssTicketHandler(f) /\ UNCHANGED <<sidecarVars, punchVars>>
  BY <1>2 DEF ClientAside, Asks, sidecarVars, punchVars
<1> QED
  BY <1>1, <1>2, ApartAside, TeardownAside DEF requestWSSSessionTicket, LocalFailure

LEMMA ClientSteps ==
    ASSUME fetchCandidates \/ LadderStep \/ Cancelled
    PROVE  ClientAside
<1>1. CASE fetchCandidates \/ Racing \/ connectFlow \/ fetchFails
  BY <1>1, ApartAside, Zenon DEF fetchCandidates, Racing, connectFlow, fetchFails
<1>2. CASE Cancelled \/ reladder \/ givesUp
  BY <1>2, TeardownAside DEF Cancelled, reladder, givesUp
<1>3. CASE attemptDirectCandidate
  BY <1>3, TeardownAside
  DEF attemptDirectCandidate, DirectFails, LocalFailure, ClientAside, Asks, sidecarVars
<1>4. CASE maybePunch
  BY <1>4 DEF maybePunch, ClientAside, Asks, sidecarVars
<1>5. CASE startCandidate
  BY <1>5, ApartAside, TeardownAside DEF startCandidate, LocalFailure
<1>6. CASE probeCandidate
  BY <1>6, ApartAside, TeardownAside DEF probeCandidate, DirectFails, LocalFailure
<1>7. CASE attemptWSSCandidate
  BY <1>7 DEF attemptWSSCandidate, Dialed, DialFails, ClientAside, Asks, punchVars
<1> QED
  BY <1>1, <1>2, <1>3, <1>4, <1>5, <1>6, <1>7, RequestAside DEF LadderStep, Ongoing, Rung

-----------------------------------------------------------------------------
(* The invariant *)

LEMMA SlotAside ==
    ASSUME SlotInv, UNCHANGED <<hs, slots>>
    PROVE  SlotInv'
BY DEF SlotInv, HandlerInv, HandlersIn, LiveStreams

LEMMA TicketsAside ==
    ASSUME TicketInv, UNCHANGED ticketVars, UNCHANGED hs
    PROVE  TicketInv'
BY DEF TicketInv, TicketTypes, HandlerInv, Presented, Recording, Remembered, Issued,
       replayUntil, ticketVars, replayVars

LEMMA TunnelAside ==
    ASSUME TunnelInv, UNCHANGED <<lad, mode>>
    PROVE  TunnelInv'
BY DEF TunnelInv

\* What becomes of tickets in one step of the relay.
LEMMA RelayTickets ==
    ASSUME TicketInv, Relayed
    PROVE  TicketInv'
<1>1. UNCHANGED <<now, claims>>
  BY DEF Relayed, Serving, AtRelay
<1>2. ASSUME NEW h \in Handlers, Handshake(h) PROVE TicketInv'
  BY <1>1, <1>2, TicketRequest, TicketRejected, TicketConsume, TicketConsumeFails,
     TicketConsumed DEF Handshake
<1> QED BY <1>1, <1>2, TicketSession, TicketRestart, TicketCrash, TicketRepeat
  DEF Relayed, Serving

LEMMA RelaySlots ==
    ASSUME SlotInv, Relayed
    PROVE  SlotInv'
<1>1. ASSUME UNCHANGED <<hs, slots>> PROVE SlotInv'
  BY <1>1, SlotAside
<1>2. CASE Restart \/ \E t \in Tickets : Repeat(t)
  BY <1>1, <1>2 DEF Restart, Repeat, sidecarVars
<1> QED BY <1>2, SlotHandshake, SlotSession, SlotCrash DEF Relayed, Serving

LEMMA Inductive == AccessInv /\ [Next]_vars => AccessInv'
<1> SUFFICES ASSUME AccessInv, [Next]_vars PROVE AccessInv'
  OBVIOUS
<1>0. TicketInv /\ SlotInv /\ PunchInv /\ PanelInv /\ TunnelInv
  BY DEF AccessInv
<1>1. CASE Relayed
  <2>1. UNCHANGED <<punchVars, ladderVars>>
    BY <1>1 DEF Relayed, Serving, AtRelay
  <2>2. UNCHANGED <<coord, inflight, panelVars, lad, mode>>
    BY <2>1 DEF punchVars, ladderVars, panelVars, settingsVars
  <2> QED BY <1>0, <1>1, <2>2, RelayTickets, RelaySlots, PunchAside, PanelAside, TunnelAside
    DEF AccessInv
<1>2. CASE Watched
  <2>1. UNCHANGED <<now, claims, punchVars, ladderVars, hs, slots, post, grants, replayVars>>
    BY <1>2 DEF Watched, AtWatch, SessionEnds, PathBreaks, closeWith
  <2>2. UNCHANGED <<coord, inflight, panelVars, lad, mode, ticketVars>>
    BY <2>1 DEF punchVars, ladderVars, panelVars, settingsVars, ticketVars
  <2> QED BY <1>0, <2>1, <2>2, TicketsAside, SlotAside, PunchAside, PanelAside, TunnelAside
    DEF AccessInv
<1>3. CASE Punched
  <2>1. /\ UNCHANGED <<now, claims, replayVars, sidecarVars, ladderVars>>
        /\ PunchStep \/ HubBack \/ HubLost \/ RelayStops
    BY <1>3 DEF Punched, AtHub
  <2>2. UNCHANGED <<hs, slots, panelVars, lad, mode, ticketVars>>
    BY <2>1 DEF sidecarVars, ladderVars, panelVars, settingsVars, ticketVars
  <2> QED BY <1>0, <2>1, <2>2, TicketsAside, SlotAside, PunchKeeps, PanelAside, TunnelAside
    DEF AccessInv
<1>4. CASE Passing
  <2>1. Tick /\ UNCHANGED <<claims, replayVars, sidecarVars, punchVars, ladderVars>>
    BY <1>4 DEF Passing
  <2>2. UNCHANGED <<hs, slots, coord, inflight, panelVars, lad, mode>>
    BY <2>1 DEF sidecarVars, punchVars, ladderVars, panelVars, settingsVars
  <2> QED BY <1>0, <2>1, <2>2, TicketTick, SlotAside, PunchAside, PanelAside, TunnelAside
    DEF AccessInv
<1>5. CASE Idling
  <2>1. /\ PanelStep /\ lad.at = "idle"
        /\ UNCHANGED <<now, claims, replayVars, sidecarVars, punchVars, lad>>
    BY <1>5 DEF Idling
  <2>2. UNCHANGED <<hs, slots, coord, inflight, ticketVars>>
    BY <2>1 DEF sidecarVars, punchVars, ticketVars
  <2>3. TunnelInv'
    BY <1>0, <2>1 DEF TunnelInv
  <2> QED BY <1>0, <2>1, <2>2, <2>3, TicketsAside, SlotAside, PunchAside, PanelKeeps
    DEF AccessInv
<1>6. CASE Connecting
  <2>1. /\ UNCHANGED <<now, replayVars, hs, slots, grants>>
        /\ fetchCandidates \/ LadderStep \/ Cancelled
    BY <1>6 DEF Connecting, AtClient
  <2>2. Asks /\ UNCHANGED <<coord, inflight>>
    BY <2>1, ClientSteps DEF ClientAside
  <2>3. TicketInv'
    BY <1>0, <2>1, <2>2, TicketsAside, TicketIssued DEF Asks, ticketVars
  <2>4. PanelInv' /\ UNCHANGED mode
    <3>1. CASE fetchCandidates
      BY <1>0, <3>1, ConnectKeeps, Zenon DEF fetchCandidates, handleConnect
    <3>2. CASE LadderStep \/ Cancelled
      BY <1>0, <3>2, PanelAside DEF LadderStep, Cancelled, panelVars, settingsVars
    <3> QED BY <2>1, <3>1, <3>2
  <2>5. TunnelInv'
    BY <1>0, <2>1, <2>4, LadderSound DEF PathSound, TunnelInv
  <2> QED BY <1>0, <2>1, <2>2, <2>3, <2>4, <2>5, SlotAside, PunchAside DEF AccessInv
<1>7. CASE UNCHANGED vars
  <2>1. UNCHANGED <<hs, slots, coord, inflight, panelVars, lad, mode, ticketVars>>
    BY <1>7 DEF vars, sidecarVars, punchVars, ladderVars, panelVars, settingsVars, ticketVars
  <2> QED BY <1>0, <2>1, TicketsAside, SlotAside, PunchAside, PanelAside, TunnelAside
    DEF AccessInv
<1> QED BY <1>1, <1>2, <1>3, <1>4, <1>5, <1>6, <1>7 DEF Next

LEMMA Initial == Init => AccessInv
<1> SUFFICES ASSUME Init PROVE AccessInv
  OBVIOUS
<1>1. TicketInv /\ SlotInv /\ PanelInv
  BY TicketStart, SlotStart, PanelStart DEF Init, LadderInit
<1>2. Directed = {} /\ PunchInv
  BY FS_EmptySet, Zenon DEF Init, PunchInit, PunchInv, Directed, NoDirective
<1>3. TunnelInv
  BY DEF Init, LadderInit, TunnelInv, NoLadder
<1> QED BY <1>1, <1>2, <1>3 DEF AccessInv

\* AccessInv is an invariant.
THEOREM AccessInvariant == Spec => []AccessInv
BY Initial, Inductive, PTL DEF Spec

-----------------------------------------------------------------------------
(* What follows from it *)

\* Every slot is held by a handler, a stream or a directive that is still there, and
\* every one of those holds its own (handleBridge's defers, sourceUsage, inflightCap).
THEOREM SlotsStayAccounted == Spec => []SlotsAccounted
<1>1. AccessInv => SlotsAccounted
  BY DEF AccessInv, SlotInv, PunchInv, SlotsAccounted, Count, Streams, HandlersIn,
         LiveStreams, Directed, Shaking, InUse
<1> QED BY <1>1, AccessInvariant, PTL

\* A list that is handed out to be shown or tested is its broker's and within its
\* not_after, and the one request under way is for a list the cache does not have
\* (directoryCache.fetch, snapshotFor).
THEOREM ListsStaySound == Spec => []ListsSound
<1>1. AccessInv => ListsSound
  BY Zenon DEF AccessInv, PanelInv, ListInv, ListsSound
<1> QED BY <1>1, AccessInvariant, PTL

\* The inbound never takes in the socket that the candidate runs over
\* (buildInbound, attemptCandidate).
THEOREM SocketsStayOutside == Spec => []OutsideTunnel
<1>1. ASSUME AccessInv PROVE OutsideTunnel
  <2>1. lad.path = "wss" => mode = "proxy"
    BY <1>1 DEF AccessInv, TunnelInv, PanelInv, ModeInv, CaptureModes
  <2> DEFINE direct == candidateConfigInput(Desc[Relay], mode)
             in == [direct EXCEPT !.bridge = "bridge",
                      !.peers = IF lad.path = "punch" THEN {PeerOf(Relay)} ELSE {}]
  <2>2. /\ in.mode = mode /\ in.owns = FALSE
        /\ lad.path = "punch" => in.peers = {PeerOf(Relay)}
    BY DEF candidateConfigInput
  <2>3. lad.path \in {"punch", "wss"} => CandidateConfig.inbound = buildInbound(in)
    BY DEF CandidateConfig, BuildSingBoxConfig
  <2> HIDE DEF in
  <2>7. mode = "proxy" => buildInbound(in).type # "tun"
    BY <2>2 DEF buildInbound
  <2>4. lad.path = "wss" => ~Captures(CandidateConfig, FrontOf(Relay))
    BY <2>1, <2>3, <2>7, ZenonT(40) DEF Captures
  <2>5. PeerOf(Relay).addr \in relayRouteExcludeAddress(PeerOf(Relay))
    BY DEF PeerOf, relayRouteExcludeAddress
  <2>6. lad.path = "punch" => ~Captures(CandidateConfig, PeerOf(Relay))
    <3> SUFFICES ASSUME lad.path = "punch", mode # "proxy"
                 PROVE  PeerOf(Relay).addr \in buildInbound(in).exclude
      BY <2>3, <2>7, ZenonT(40) DEF Captures
    <3>1. buildInbound(in).exclude = relayRouteExcludeAddress(in.relay.host) \cup
                                     UNION {relayRouteExcludeAddress(p) : p \in in.peers}
      BY <2>2 DEF buildInbound
    <3> QED BY <2>2, <2>5, <3>1
  <2> QED BY <2>4, <2>6 DEF OutsideTunnel
<1> QED BY <1>1, AccessInvariant, PTL

\* A save of one half of the settings leaves the other as the file has it at that
\* moment, or resets it when the file could not be read (settingsMu, loadSettings).
THEOREM HalvesStayKept == Spec => HalvesKept
<1> DEFINE Keeps(j) == Half(j, file') = Half(j, IF job[j].got = None THEN Unset ELSE file)
           A == \A j \in Jobs :
                   job[j].at = "save" /\ job'[j].at = "off" /\ file' # file => Keeps(j)
<1>1. AccessInv /\ [Next]_vars => [A]_vars
  <2> SUFFICES ASSUME AccessInv, Next, NEW j \in Jobs,
                      job[j].at = "save", job'[j].at = "off", file' # file
               PROVE  Keeps(j)
    OBVIOUS
  <2>0. ~Quiet
    BY DEF Quiet, Busy
  <2>1. PanelStep
    <3>1. CASE Relayed \/ Watched \/ Punched \/ Passing
      BY <3>1 DEF Relayed, Serving, AtRelay, Watched, AtWatch, Punched, AtHub, Passing,
                  ladderVars, panelVars, settingsVars
    <3>2. CASE Connecting
      BY <2>0, <3>2 DEF Connecting, fetchCandidates, handleConnect, LadderStep, Cancelled,
                  panelVars, settingsVars
    <3> QED BY <3>1, <3>2 DEF Next, Idling
  <2>2. PICK k \in Jobs :
          /\ Alone(k) /\ Half(k, file') = Half(k, Contents(job[k].got))
    BY <2>1, PanelKeeps DEF AccessInv
  <2>3. k = j
    BY <2>2 DEF Alone
  <2>4. Contents(job[j].got) = IF job[j].got = None THEN Unset ELSE file
    BY ContentsKept DEF AccessInv
  <2> QED BY <2>2, <2>3, <2>4, Zenon
<1> QED BY <1>1, AccessInvariant, PTL DEF Spec, HalvesKept

-----------------------------------------------------------------------------
(* Tickets are one-shot: every step is one of OneShot's, or none *)

stage == [t \in Tickets |-> Stage(t)]
lives == [t \in Tickets |-> IF t \in Issued THEN replayUntil(t) ELSE 0]

LEMMA OnceSame ==
    ASSUME UNCHANGED <<claims, tail, grants>>
    PROVE  stage' = stage /\ lives' = lives
BY DEF stage, lives, Stage, Issued, replayUntil

LEMMA OnceLives ==
    ASSUME UNCHANGED claims
    PROVE  lives' = lives
BY DEF lives, Issued, replayUntil

\* A ticket is issued.
LEMMA OnceIssue ==
    ASSUME TicketInv, NEW f, wssTicketHandler(f), UNCHANGED <<now, tail, grants>>,
           NEW t \in Tickets, t \notin Issued, Issued' = Issued \cup {t},
           claims'[t].exp + Skew > now, \A u \in Tickets \ {t} : claims'[u] = claims[u]
    PROVE  Once!Issue(t)
<1>1. grants[t] = 0 /\ tail # t
  BY TicketAssumption DEF TicketInv, TicketTypes, Presented, Recording
<1>2. stage[t] = "none" /\ stage' = [stage EXCEPT ![t] = "issued"]
  BY <1>1, Zenon DEF stage, Stage
<1>3. lives' = [lives EXCEPT ![t] = lives'[t]] /\ lives'[t] > now
  BY Zenon DEF lives, replayUntil
<1> QED BY <1>2, <1>3 DEF Once!Issue, Once!Moves, stage, lives

\* A record is being written.
LEMMA OnceClaim ==
    ASSUME TicketInv, UNCHANGED <<now, claims, grants>>, NEW t \in Tickets, t \in Issued,
           grants[t] = 0, tail = None, tail' = t, replayUntil(t) > now
    PROVE  Once!Claim(t)
<1>1. stage[t] = "issued" /\ stage' = [stage EXCEPT ![t] = "claimed"]
  BY TicketAssumption, Zenon DEF stage, Stage, Issued
<1>2. lives' = lives /\ now < lives[t]
  <2>1. lives[t] = replayUntil(t)
    BY Zenon DEF lives
  <2> QED BY <2>1, OnceLives, Zenon
<1> QED BY <1>1, <1>2 DEF Once!Claim, Once!Moves, stage, lives

\* It was not, or not to the knowledge of any handler.
LEMMA OnceUnclaim ==
    ASSUME TicketInv, UNCHANGED <<now, claims, grants>>, tail # None, tail' = None
    PROVE  tail \in Tickets /\ Once!Unclaim(tail)
<1>1. tail \in Tickets /\ tail \in Issued /\ grants[tail] = 0
  BY DEF TicketInv, TicketTypes, Recording
<1>2. stage[tail] = "claimed" /\ stage' = [stage EXCEPT ![tail] = "issued"]
  BY <1>1, TicketAssumption, Zenon DEF stage, Stage, Issued
<1> QED BY <1>1, <1>2, OnceLives DEF Once!Unclaim, Once!Moves, stage, lives

\* It was, and the ticket is honoured.
LEMMA OnceSpend ==
    ASSUME TicketInv, UNCHANGED <<now, claims>>, tail \in Tickets, tail' = None,
           grants' = [grants EXCEPT ![tail] = 1]
    PROVE  Once!Spend(tail)
<1>1. tail \in Issued /\ grants[tail] = 0 /\ grants \in [Tickets -> {0, 1}]
  BY TicketAssumption DEF TicketInv, TicketTypes, Recording
<1>2. /\ grants'[tail] = 1 /\ Issued' = Issued /\ tail # None
      /\ \A u \in Tickets \ {tail} : grants'[u] = grants[u]
  BY <1>1, TicketAssumption DEF Issued
<1>3. ASSUME NEW u \in Tickets
      PROVE  Stage(u)' = IF u = tail THEN "spent" ELSE Stage(u)
  BY <1>1, <1>2, TicketAssumption DEF Stage
<1>4. stage[tail] = "claimed" /\ stage' = [stage EXCEPT ![tail] = "spent"]
  <2>1. stage[tail] = "claimed"
    BY <1>1 DEF stage, Stage
  <2> QED BY <1>3, <2>1, Zenon DEF stage
<1> QED BY <1>4, OnceLives DEF Once!Spend, Once!Moves, stage, lives

\* What a step of the relay is to OneShot.
LEMMA OnceRelay ==
    ASSUME TicketInv, Relayed
    PROVE  \/ UNCHANGED <<now, claims, tail, grants>>
           \/ \E t \in Tickets : Once!Claim(t) \/ Once!Unclaim(t) \/ Once!Spend(t)
<1>1. UNCHANGED <<now, claims>>
  BY DEF Relayed, Serving, AtRelay
<1>2. CASE Restart \/ Crash \/ \E t \in Tickets : Repeat(t)
  BY <1>1, <1>2, TicketRestart, TicketCrash, TicketRepeat, OnceUnclaim
<1>3. ASSUME NEW h \in Handlers, Session(h) PROVE UNCHANGED <<tail, grants>>
  BY <1>3 DEF Session, replayVars
<1>4. ASSUME NEW h \in Handlers, NEW t \in Tickets, handleBridge(h, t)
      PROVE  UNCHANGED <<tail, grants>>
  BY <1>4 DEF handleBridge, replayVars
<1>5. ASSUME NEW h \in Handlers, Rejected(h) PROVE UNCHANGED <<tail, grants>>
  BY <1>1, <1>5, TicketRejected
<1>6. ASSUME NEW h \in Handlers, Consume(h) PROVE \E t \in Tickets : Once!Claim(t)
  <2>1. hs[h].tk \in Tickets
    BY <1>1, <1>6, TicketConsume DEF Issued
  <2> QED BY <1>1, <1>6, <2>1, TicketConsume, OnceClaim
<1>7. ASSUME NEW h \in Handlers, ConsumeFails(h)
      PROVE  UNCHANGED <<tail, grants>> \/ \E t \in Tickets : Once!Unclaim(t)
  BY <1>1, <1>7, TicketConsumeFails, OnceUnclaim
<1>8. ASSUME NEW h \in Handlers, Consumed(h) PROVE \E t \in Tickets : Once!Spend(t)
  BY <1>1, <1>8, TicketConsumed, OnceSpend
<1> QED BY <1>1, <1>2, <1>3, <1>4, <1>5, <1>6, <1>7, <1>8 DEF Relayed, Serving, Handshake

LEMMA OnceStep == AccessInv /\ [Next]_vars => [Once!Next]_(Once!vars)
<1> SUFFICES ASSUME AccessInv, [Next]_vars PROVE Once!Next \/ UNCHANGED Once!vars
  OBVIOUS
<1>0. TicketInv
  BY DEF AccessInv
<1>1. ASSUME UNCHANGED <<now, claims, tail, grants>> PROVE UNCHANGED Once!vars
  BY <1>1, OnceSame DEF Once!vars, stage, lives
<1>2. CASE Relayed
  BY <1>0, <1>1, <1>2, OnceRelay DEF Once!Next
<1>3. CASE Passing
  <2>1. now' = now + 1 /\ UNCHANGED <<claims, tail, grants>>
    BY <1>3 DEF Passing, Tick, replayVars, sidecarVars
  <2> QED BY <2>1, OnceSame DEF Once!Next, Once!Tick, stage, lives
<1>4. CASE Watched \/ Punched \/ Idling
  BY <1>1, <1>4, Zenon DEF Watched, AtWatch, SessionEnds, PathBreaks, closeWith, Punched, AtHub,
                    Idling, replayVars, sidecarVars
<1>5. CASE Connecting
  <2>1. UNCHANGED <<now, tail, grants>> /\ Asks /\ UNCHANGED <<replayVars, hs>>
    BY <1>5, ClientSteps DEF Connecting, AtClient, ClientAside, replayVars
  <2>2. ASSUME NEW f, wssTicketHandler(f),
               \/ UNCHANGED post
               \/ post' = [post EXCEPT ![newWSSTicketID] = [n |-> @.n + 1, via |-> f]]
        PROVE  \E t \in Tickets : Once!Issue(t)
    BY <1>0, <2>1, <2>2, NewTicket, TicketIssued, OnceIssue
  <2> QED BY <1>1, <2>1, <2>2 DEF Asks, Once!Next
<1>6. CASE UNCHANGED vars
  BY <1>1, <1>6 DEF vars, replayVars, sidecarVars
<1> QED BY <1>2, <1>3, <1>4, <1>5, <1>6 DEF Next

\* Every ticket is honoured at most once, and only if presented within its life
\* (wssTicketHandler, Verify, Consume, handleBridge).
THEOREM TicketsHonouredOnce == Spec => HonouredOnce
<1>1. ASSUME Init PROVE Once!Init
  <2>1. /\ now = 0 /\ claims = [t \in Tickets |-> Unissued] /\ tail = None
        /\ grants = [t \in Tickets |-> 0]
    BY <1>1, Zenon DEF Init, EnvInit, TicketInit, ReplayInit, SidecarInit
  <2>2. \A t \in Tickets : claims[t].exp = 0 /\ grants[t] = 0
    BY <2>1 DEF Unissued
  <2>3. \A t \in Tickets : t \notin Issued /\ Stage(t) = "none"
    BY <2>2, Zenon DEF Issued, Stage
  <2> QED BY <2>1, <2>3, Zenon DEF Once!Init
<1> QED BY <1>1, OnceStep, AccessInvariant, PTL DEF Spec, HonouredOnce, Once!Spec
=============================================================================
