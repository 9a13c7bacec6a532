--------------------------- MODULE RelayNetProofs ---------------------------
(* Proofs about relay, hub and broker, for any number of hub sessions, callers,
   identities, ports and sources, whatever goes wrong and however often. *)
EXTENDS RelayNetProps, FiniteSetTheorems, TLAPS

-----------------------------------------------------------------------------
(* The hub *)

\* What handleControl and its error paths do to ports: one is given back, one is
\* taken, or none changes hands.
LEMMA PortFreed ==
    ASSUME HubInv, NEW s \in Sess, NEW l \in {"free", "remove"},
           pc[s] \in {"register", "run"}, pc' = [pc EXCEPT ![s] = l],
           port' = [port EXCEPT ![s] = None], inUse' = inUse \ {port[s]}
    PROVE  PortsAccounted'
  <1>1. /\ inUse = {port[t] : t \in {u \in Sess : port[u] # None}}
        /\ \A t, u \in Sess : port[t] # None /\ port[t] = port[u] => t = u
        /\ \A t \in Sess : port[t] # None <=> pc[t] \in {"register", "run"}
        /\ pc \in [Sess -> Points] /\ port \in [Sess -> Ports \cup {None}]
    BY DEF HubInv, PortsAccounted
  <1>2. \A t \in Sess : /\ port'[t] = IF t = s THEN None ELSE port[t]
                        /\ pc'[t] = IF t = s THEN l ELSE pc[t]
    BY <1>1
  <1>3. inUse' = {port'[t] : t \in {u \in Sess : port'[u] # None}}
    BY <1>1, <1>2
  <1> QED BY <1>1, <1>2, <1>3 DEF PortsAccounted

LEMMA PortTaken ==
    ASSUME HubInv, NEW s \in Sess, NEW p \in Ports \ inUse,
           pc[s] = "free", pc' = [pc EXCEPT ![s] = "register"],
           port' = [port EXCEPT ![s] = p], inUse' = inUse \cup {p}
    PROVE  PortsAccounted'
  <1>1. /\ inUse = {port[t] : t \in {u \in Sess : port[u] # None}}
        /\ \A t, u \in Sess : port[t] # None /\ port[t] = port[u] => t = u
        /\ \A t \in Sess : port[t] # None <=> pc[t] \in {"register", "run"}
        /\ pc \in [Sess -> Points] /\ port \in [Sess -> Ports \cup {None}]
    BY DEF HubInv, PortsAccounted
  <1>2. p # None
    BY HubAssumption, DirectoryAssumption
  <1>3. \A t \in Sess : /\ port'[t] = IF t = s THEN p ELSE port[t]
                        /\ pc'[t] = IF t = s THEN "register" ELSE pc[t]
    BY <1>1
  <1>4. inUse' = {port'[t] : t \in {u \in Sess : port'[u] # None}}
    BY <1>1, <1>2, <1>3
  <1>5. \A t \in Sess : port[t] # None => port[t] \in inUse
    BY <1>1
  <1> QED BY <1>1, <1>2, <1>3, <1>4, <1>5 DEF PortsAccounted

LEMMA PortsKept ==
    ASSUME HubInv, UNCHANGED <<port, inUse>>,
           \A s \in Sess : pc[s] \in {"register", "run"} <=> pc'[s] \in {"register", "run"}
    PROVE  PortsAccounted'
  BY DEF HubInv, PortsAccounted

\* What a session that ends, or another one that takes over, does to the registry.
LEMMA RegistryKept ==
    ASSUME HubInv, NEW s \in Sess, NEW l \in Points,
           pc' = [pc EXCEPT ![s] = l], UNCHANGED registry,
           \/ l \in {"run", "remove"} /\ UNCHANGED hello
           \/ pc[s] \in {"free", "register"} /\ \A t \in Sess \ {s} : hello'[t] = hello[t]
    PROVE  RegistryLive'
  BY DEF HubInv, RegistryLive

LEMMA RegistryAdds ==
    ASSUME HubInv, NEW s \in Sess, pc[s] # "free", addTunnel(s, hello[s]),
           pc' = [pc EXCEPT ![s] = "run"], UNCHANGED hello
    PROVE  RegistryLive' /\ registry' \in [Ids -> Sess \cup {None}]
  BY DEF HubInv, RegistryLive, addTunnel

\* Every step of the hub keeps its invariant.
LEMMA AllocateStep ==
    ASSUME HubInv, NEW s \in Sess, NEW id \in Ids, Allocate(s, id)
    PROVE  HubInv'
  <1>1. PICK p \in Ports \ inUse : port' = [port EXCEPT ![s] = p] /\ inUse' = inUse \cup {p}
    BY Zenon DEF Allocate
  <1>2. /\ pc[s] = "free" /\ pc' = [pc EXCEPT ![s] = "register"]
        /\ hello' = [hello EXCEPT ![s] = id]
        /\ UNCHANGED <<beat, open, registry>>
    BY DEF Allocate, FreeSessions, Goto
  <1>3. PortsAccounted'
    BY <1>1, <1>2, PortTaken, Zenon
  <1>4. RegistryLive'
    BY <1>2, RegistryKept, Zenon DEF Points, HubInv
  <1> QED BY <1>1, <1>2, <1>3, <1>4 DEF HubInv, Points

LEMMA GiveUpStep ==
    ASSUME HubInv, NEW s \in Sess, pc[s] = "register", GiveUp(s)
    PROVE  HubInv'
  <1>1. /\ pc' = [pc EXCEPT ![s] = "free"] /\ inUse' = inUse \ {port[s]}
        /\ port' = [port EXCEPT ![s] = None] /\ hello' = [hello EXCEPT ![s] = None]
        /\ UNCHANGED <<beat, open, registry>>
    BY DEF GiveUp, Goto
  <1>2. PortsAccounted'
    BY <1>1, PortFreed, Zenon
  <1>3. RegistryLive'
    BY <1>1, RegistryKept, Zenon DEF Points, HubInv
  <1> QED BY <1>1, <1>2, <1>3 DEF HubInv, Points

LEMMA EstablishedStep ==
    ASSUME HubInv, NEW s \in Sess, Established(s)
    PROVE  HubInv'
  <1>1. /\ pc[s] = "register" /\ pc' = [pc EXCEPT ![s] = "run"]
        /\ beat' = [beat EXCEPT ![s] = "idle"] /\ open' = open \cup {s}
        /\ addTunnel(s, hello[s]) /\ UNCHANGED <<hello, port, inUse>>
    BY DEF Established, Goto, Beat
  <1>2. PortsAccounted'
    BY <1>1, PortsKept DEF HubInv
  <1>3. RegistryLive' /\ registry' \in [Ids -> Sess \cup {None}]
    BY <1>1, RegistryAdds, Zenon
  <1> QED BY <1>1, <1>2, <1>3 DEF HubInv, Points, BeatPoints

LEMMA ReleaseStep ==
    ASSUME HubInv, NEW s \in Sess, Release(s)
    PROVE  HubInv'
  <1>1. /\ pc[s] = "run" /\ s \notin open /\ pc' = [pc EXCEPT ![s] = "remove"]
        /\ beat' = [beat EXCEPT ![s] = "off"] /\ inUse' = inUse \ {port[s]}
        /\ port' = [port EXCEPT ![s] = None] /\ UNCHANGED <<hello, open, registry>>
    BY DEF Release, Goto, Beat
  <1>2. PortsAccounted'
    BY <1>1, PortFreed, Zenon
  <1>3. RegistryLive'
    BY <1>1, RegistryKept, Zenon DEF Points
  <1> QED BY <1>1, <1>2, <1>3 DEF HubInv, Points, BeatPoints

LEMMA RemovalStep ==
    ASSUME HubInv, NEW s \in Sess, Removal(s)
    PROVE  HubInv'
  <1>1. /\ pc[s] = "remove" /\ removeTunnel(s, hello[s])
        /\ pc' = [pc EXCEPT ![s] = "free"] /\ hello' = [hello EXCEPT ![s] = None]
        /\ UNCHANGED <<beat, port, open, inUse>>
    BY DEF Removal, Goto
  <1>2. PortsAccounted'
    BY <1>1, PortsKept DEF HubInv
  <1>3. hello[s] \in Ids
    BY <1>1 DEF HubInv
  <1>4. registry' = [registry EXCEPT ![hello[s]] = IF @ = s THEN None ELSE @]
    BY <1>1 DEF removeTunnel
  <1>5. RegistryLive' /\ registry' \in [Ids -> Sess \cup {None}]
    BY <1>1, <1>3, <1>4 DEF HubInv, RegistryLive
  <1> QED BY <1>1, <1>2, <1>5 DEF HubInv, Points

\* Steps of a running session's heartbeat goroutine, and the end of a session.
LEMMA BeatStep ==
    ASSUME HubInv, NEW s \in Sess,
           \/ Tick(s) \/ Beaten(s) \/ handleRegistrationLost(s) \/ reregister(s)
           \/ SessionCloses(s)
    PROVE  HubInv'
  <1>1. pc[s] = "run" /\ hello[s] \in Ids
    BY DEF Tick, Beaten, handleRegistrationLost, reregister, SessionCloses, HubInv
  <1>2. UNCHANGED <<pc, hello, port, inUse>>
    BY DEF Tick, Beaten, handleRegistrationLost, reregister, SessionCloses
  <1>3. open' \in {open, open \ {s}}
    BY DEF Tick, Beaten, handleRegistrationLost, reregister, SessionCloses, claimTunnel
  <1>4. \/ UNCHANGED beat
        \/ beat[s] # "off" /\ \E b \in BeatPoints \ {"off"} : beat' = [beat EXCEPT ![s] = b]
    BY DEF Tick, Beaten, handleRegistrationLost, reregister, SessionCloses, Beat, BeatPoints
  <1>5. UNCHANGED registry \/ addTunnel(s, hello[s])
    BY DEF Tick, Beaten, handleRegistrationLost, reregister, SessionCloses, claimTunnel
  <1>6. PortsAccounted'
    BY <1>2, PortsKept
  <1>7. RegistryLive' /\ registry' \in [Ids -> Sess \cup {None}]
    <2>1. CASE UNCHANGED registry
      BY <2>1, <1>2 DEF HubInv, RegistryLive
    <2>2. CASE addTunnel(s, hello[s])
      BY <2>2, <1>1, <1>2 DEF HubInv, RegistryLive, addTunnel
    <2> QED BY <1>5, <2>1, <2>2
  <1>8. beat' \in [Sess -> BeatPoints] /\ \A t \in Sess : beat'[t] # "off" <=> beat[t] # "off"
    BY <1>4 DEF HubInv, BeatPoints
  <1> QED BY <1>1, <1>2, <1>3, <1>6, <1>7, <1>8 DEF HubInv

LEMMA HubSteps ==
    ASSUME HubInv, NEW s \in Sess, HubStep(s) \/ HubNotices(s)
    PROVE  HubInv'
  <1>1. CASE NotRegistered(s) \/ AckFails(s)
    BY <1>1, GiveUpStep DEF NotRegistered, AckFails
  <1> QED
    BY <1>1, EstablishedStep, ReleaseStep, RemovalStep, BeatStep DEF HubStep, HubNotices

-----------------------------------------------------------------------------
(* The relay *)

\* A foundation posture that Start accepts serves directly.
LEMMA Posture ==
    ASSUME NEW c \in Config, c.cls = "foundation" \/ c.token = "foundation"
    PROVE  /\ effectiveConfig(c).mode # "tunnel"
           /\ ~(effectiveConfig(c).mode = "auto" /\ effectiveConfig(c).hub = "set")
  <1> DEFINE p == applyFoundationTokenPosture(c)
             n == [p EXCEPT !.cls = IF @ = "" THEN "volunteer" ELSE @]
  <1>1. n \in Config /\ n.cls = "foundation"
    BY Zenon DEF Config, applyFoundationTokenPosture
  <1>2. \/ effectiveConfig(c) = n /\ requireDirectModeForFoundation(n)
        \/ effectiveConfig(c) = NoConfig
    BY Zenon DEF effectiveConfig
  <1>3. NoConfig.mode = "error"
    BY DEF NoConfig
  <1> HIDE DEF n
  <1>4. requireDirectModeForFoundation(n) =>
            n.mode # "tunnel" /\ ~(n.mode = "auto" /\ n.hub = "set")
    BY <1>1, Zenon DEF requireDirectModeForFoundation, resolvesToDirect, Config
  <1> QED BY <1>2, <1>3, <1>4

\* The supervisor's steps.
LEMMA SupervisorStep ==
    ASSUME NodeInv, Supervisor
    PROVE  NodeInv'
  <1>1. CASE runSession
    <2>1. cfg' = cfg /\ conn' = conn /\ run = "begin"
      BY <1>1 DEF runSession
    <2>2. CASE StartDirect(ListenPort)
      BY <2>1, <2>2 DEF StartDirect, NodeInv, Run
    <2>3. CASE StartTunnel /\ effectiveConfig(cfg).mode = "tunnel"
      BY <2>1, <2>3, Posture DEF StartTunnel, NodeInv, Run, Stopped
    <2>4. CASE /\ effectiveConfig(cfg).mode = "auto" /\ effectiveConfig(cfg).hub = "set"
               /\ Run("probe") /\ UNCHANGED <<eng, xray, client>>
      BY <2>1, <2>4, Posture DEF NodeInv, Run
    <2> QED BY <1>1, <2>2, <2>3, <2>4 DEF runSession
  <1>2. CASE Resolved
    <2>1. /\ run = "probe" /\ UNCHANGED <<cfg, conn, eng>> /\ xray' = "up"
          /\ \/ run' = "enroll" /\ client' = client
             \/ run' = "hosted" /\ client' = "dial"
      BY <1>2 DEF Resolved, StartDirect, StartTunnel, Run
    <2> QED BY <2>1 DEF NodeInv
  <1>3. CASE StartFails \/ Backoff \/ Join
    BY <1>3 DEF StartFails, Backoff, Join, SessionOver, Run, Stopped, NodeInv
  <1>4. CASE Enrolled \/ DirectTick \/ DirectBeaten \/ Renewed
    <2>1. UNCHANGED <<cfg, client, conn>> /\ run \in DirectPoints
      BY <1>4 DEF Enrolled, DirectTick, DirectBeaten, Renewed, frame, DirectPoints
    <2>2. \/ run' \in DirectPoints /\ UNCHANGED <<eng, xray>>
          \/ xray' = "off" /\ run' = "off" /\ eng' = "off"
          \/ xray' = "off" /\ run' \in {"begin", "backoff"} /\ eng' = eng
      BY <1>4 DEF Enrolled, DirectTick, DirectBeaten, Renewed, Keeps, Verified, Unverified,
                  SessionOver, Run, DirectPoints
    <2> QED BY <2>1, <2>2 DEF NodeInv, DirectPoints
  <1> QED BY <1>1, <1>2, <1>3, <1>4 DEF Supervisor

LEMMA NodeSteps ==
    ASSUME NodeInv, Next
    PROVE  NodeInv'
  <1>1. CASE Start \/ Stop \/ UpdateConfig \/ XrayDies \/ watchForModeChange
    BY <1>1, NodeAssumption
       DEF Start, Stop, UpdateConfig, XrayDies, watchForModeChange, Leaves, Run, NodeInv
  <1>2. CASE SessionEnds
    <2>1. CASE HostedEnds
      BY <2>1 DEF HostedEnds, Leaves, Run, NodeInv
    <2>2. CASE DirectStopped \/ DirectBroken
      BY <2>2 DEF DirectStopped, DirectBroken, SessionOver, Run, frame, NodeInv, DirectPoints
    <2> QED BY <1>2, <2>1, <2>2 DEF SessionEnds
  <1>3. CASE Client
    <2>1. CASE Dial
      <3>1. conn' \in Sess /\ run = "hosted" /\ client' = "hello" /\ UNCHANGED clientFrame
        BY <2>1 DEF Dial, FreeSessions, SessionCancelled
      <3> QED BY <3>1, DirectoryAssumption, HubAssumption DEF NodeInv, clientFrame
    <2>2. CASE DialFails \/ OnRegistered \/ ConnectionLost \/ Reconnect
      BY <2>2 DEF DialFails, OnRegistered, ConnectionLost, Reconnect, Disconnected,
                  SessionCancelled, clientFrame, NodeInv
    <2> QED BY <1>3, <2>1, <2>2 DEF Client
  <1>4. CASE UNCHANGED nodeVars
    BY <1>4 DEF nodeVars, NodeInv
  <1> QED
    BY <1>1, <1>2, <1>3, <1>4, SupervisorStep DEF Next, AtHub, AtBroker

-----------------------------------------------------------------------------
(* Requests *)

\* One request replaced by another.
LEMMA Sent ==
    ASSUME Calls, NEW c \in Callers, NEW r, Send(c, r), {"at", "unit"} \subseteq DOMAIN r
    PROVE  Calls' /\ \A d \in Callers : call'[d] = IF d = c THEN r ELSE call[d]
  <1>1. DOMAIN call' = Callers /\ \A d \in Callers : call'[d] = IF d = c THEN r ELSE call[d]
    BY DEF Send, Calls
  <1> QED BY <1>1 DEF Calls

\* Steps that leave the units alone: only caller c's request changes, and requests
\* hold a unit as before.
Quiet(c) ==
    /\ Calls'
    /\ \A d \in Callers \ {c} : call'[d] = call[d]
    /\ call'[c].unit = "held" <=> call[c].unit = "held"
    /\ call'[c].unit = "held" => call'[c].at = "admitted"

LEMMA SendsQuietly ==
    ASSUME CallInv, NEW c \in Callers, call[c].at # "admitted",
           NEW id, NEW end, NEW cls, NEW tok, NEW proof, NEW at,
           \/ Taken(c)
           \/ Send(c, RegisterCall(id, end, cls))
           \/ Send(c, registerRequest(id, end, proof))
           \/ Send(c, HeartbeatCall(id, tok, cls))
           \/ Reply(c, at, tok)
    PROVE  /\ Quiet(c)
           /\ Taken(c) => call'[c].at = "idle"
  <1>1. Calls /\ call[c].unit # "held"
    BY DEF CallInv
  <1> DEFINE Fresh(r) == {"at", "unit"} \subseteq DOMAIN r /\ r.unit = "none"
  <1>2. ASSUME NEW r, Fresh(r), Send(c, r)
        PROVE  Quiet(c) /\ call'[c] = r
    BY <1>1, <1>2, Sent DEF Quiet
  <1>3. Fresh(NoCall) /\ NoCall.at = "idle"
    BY DEF NoCall
  <1>4. /\ Fresh(RegisterCall(id, end, cls)) /\ Fresh(HeartbeatCall(id, tok, cls))
        /\ Fresh([NoCall EXCEPT !.at = at, !.tok = tok])
    BY DEF RegisterCall, HeartbeatCall, NoCall
  <1>5. Fresh(registerRequest(id, end, proof))
    BY DEF registerRequest, RegisterCall, NoCall
  <1>6. Reply(c, at, tok) => \/ Send(c, NoCall)
                             \/ Send(c, [NoCall EXCEPT !.at = at, !.tok = tok])
    BY DEF Reply
  <1> HIDE DEF Fresh
  <1> QED BY <1>2, <1>3, <1>4, <1>5, <1>6 DEF Taken

LEMMA AbandonsQuietly ==
    ASSUME CallInv, NEW c \in Callers, Abandon(c)
    PROVE  Quiet(c)
  <1>1. Calls /\ (call[c].unit = "held" => call[c].at = "admitted")
    BY DEF CallInv
  <1>2. CASE call[c].at \in Pending
    <2> DEFINE r == [call[c] EXCEPT !.wait = "no"]
    <2>1. {"at", "unit"} \subseteq DOMAIN r /\ r.unit = call[c].unit /\ r.at = call[c].at
      BY <1>1 DEF Calls
    <2>2. Send(c, r)
      BY <1>2 DEF Abandon, Send
    <2> HIDE DEF r
    <2> QED BY <1>1, <2>1, <2>2, Sent DEF Quiet
  <1>3. CASE call[c].at \notin Pending
    <2>1. Taken(c) /\ call[c].at # "admitted"
      BY <1>3 DEF Abandon, Taken, Send, Pending
    <2> QED BY <2>1, SendsQuietly
  <1> QED BY <1>2, <1>3

LEMMA NoCallQuiet ==
    ASSUME CallInv, NEW c \in Callers, UNCHANGED call
    PROVE  Quiet(c)
  BY DEF CallInv, Quiet, Calls

\* The hub's requests: one at a time and session.
LEMMA HubCalls ==
    ASSUME HubInv, CallInv, NEW s \in Sess, AtHub, HubStep(s) \/ HubNotices(s)
    PROVE  CallInv' /\ Quiet(s) /\ UNCHANGED brokerVars
  <1>1. s \in Callers /\ Node \in Callers \ Sess
    BY HubAssumption, NodeAssumption
  <1>2. /\ UNCHANGED brokerVars
        /\ \A t \in Sess \ {s} : beat'[t] = beat[t]
    <2>1. CASE Established(s) \/ NotRegistered(s) \/ Release(s) \/ Removal(s)
      BY <2>1 DEF Established, NotRegistered, Release, Removal, GiveUp, HubInv, Beat
    <2>2. CASE Tick(s) \/ Beaten(s) \/ handleRegistrationLost(s) \/ reregister(s)
      BY <2>2, Zenon DEF Tick, Beaten, handleRegistrationLost, reregister, HubInv, Beat
    <2>3. CASE SessionCloses(s) \/ AckFails(s)
      BY <2>3 DEF SessionCloses, AckFails, GiveUp
    <2> QED BY <2>1, <2>2, <2>3 DEF HubStep, HubNotices
  <1>3. Quiet(s) /\ (beat'[s] = "idle" => call'[s].at = "idle")
    <2>1. CASE Established(s) \/ NotRegistered(s) \/ AckFails(s)
      <3>1. Taken(s) /\ call[s].at # "admitted"
        BY <2>1 DEF Established, NotRegistered, AckFails, Replies
      <3> QED BY <1>1, <3>1, SendsQuietly
    <2>2. CASE Beaten(s) \/ reregister(s)
      <3>1. Taken(s) /\ call[s].at # "admitted"
        BY <2>2 DEF Beaten, reregister, Answered, Replies
      <3> QED BY <1>1, <3>1, SendsQuietly
    <2>3. CASE Removal(s) \/ SessionCloses(s)
      <3>1. UNCHANGED <<call, beat>>
        BY <2>3 DEF Removal, SessionCloses
      <3> QED BY <1>1, <3>1, NoCallQuiet DEF CallInv
    <2>4. CASE Release(s)
      <3>1. Abandon(s) /\ beat' = [beat EXCEPT ![s] = "off"]
        BY <2>4 DEF Release, Beat
      <3> QED BY <1>1, <3>1, AbandonsQuietly DEF HubInv
    <2>5. CASE Tick(s)
      <3>1. /\ call[s].at # "admitted" /\ beat' = [beat EXCEPT ![s] = "wait"]
            /\ Send(s, HeartbeatCall(hello[s], lease[s], "volunteer"))
        BY <2>5 DEF Tick, Beat, CallInv
      <3> QED BY <1>1, <3>1, SendsQuietly DEF HubInv
    <2>6. CASE handleRegistrationLost(s)
      <3>1. /\ call[s].at # "admitted"
            /\ \/ Taken(s)
               \/ /\ Send(s, registerRequest(hello[s], port[s], "stored"))
                  /\ beat' = [beat EXCEPT ![s] = "rewait"]
        BY <2>6, Zenon DEF handleRegistrationLost, Beat
      <3> QED BY <1>1, <3>1, SendsQuietly, Zenon DEF HubInv
    <2> QED BY <2>1, <2>2, <2>3, <2>4, <2>5, <2>6 DEF HubStep, HubNotices
  <1>4. run' = run
    BY DEF AtHub, nodeVars
  <1>5. \A c \in Callers : call'[c].unit = "held" => call'[c].at = "admitted"
    <2>1. \A c \in Callers : call[c].unit = "held" => call[c].at = "admitted"
      BY ZenonT(40) DEF CallInv
    <2>2. /\ \A d \in Callers \ {s} : call'[d] = call[d]
          /\ call'[s].unit = "held" => call'[s].at = "admitted"
      BY <1>3, ZenonT(40) DEF Quiet
    <2> QED BY <2>1, <2>2, ZenonT(40)
  <1>6. \A t \in Sess : beat'[t] = "idle" => call'[t].at = "idle"
    BY <1>1, <1>2, <1>3, HubAssumption DEF Quiet, CallInv
  <1>7. run' = "serve" => call'[Node].at = "idle"
    BY <1>1, <1>3, <1>4 DEF Quiet, CallInv
  <1> QED BY <1>2, <1>3, <1>5, <1>6, <1>7 DEF CallInv, Quiet

\* The relay's own requests, and the one its HELLO leads to.
NodeStep ==
    \/ Start \/ Stop \/ UpdateConfig \/ XrayDies \/ watchForModeChange
    \/ Supervisor \/ SessionEnds \/ Client

LEMMA NodeIdle ==
    ASSUME CallInv, NodeStep, ~Dial
    PROVE  /\ UNCHANGED <<hubVars, brokerVars>>
           /\ Quiet(Node) /\ (run' = "serve" => call'[Node].at = "idle")
  <1>0. Node \in Callers
    BY NodeAssumption
  <1>1. CASE Start \/ Stop \/ UpdateConfig \/ XrayDies \/ watchForModeChange
    <2>1. UNCHANGED <<hubVars, brokerVars, call>> /\ (run' = "serve" => run = "serve")
      BY <1>1 DEF Start, Stop, UpdateConfig, XrayDies, watchForModeChange, Leaves, Run,
                  directoryVars
    <2> QED BY <1>0, <2>1, NoCallQuiet DEF CallInv
  <1>2. CASE StartFails \/ Backoff \/ Join \/ HostedEnds
    <2>1. UNCHANGED <<hubVars, brokerVars, call>> /\ run' # "serve"
      BY <1>2 DEF StartFails, Backoff, Join, HostedEnds, Leaves, SessionOver, Run
    <2> QED BY <1>0, <2>1, NoCallQuiet
  <1>3. CASE DialFails \/ OnRegistered \/ ConnectionLost \/ Reconnect
    <2>1. UNCHANGED <<hubVars, brokerVars, call, run>>
      BY <1>3 DEF DialFails, OnRegistered, ConnectionLost, Reconnect, Disconnected,
                  clientFrame, directoryVars
    <2> QED BY <1>0, <2>1, NoCallQuiet DEF CallInv
  <1>4. CASE runSession \/ Resolved
    <2>1. /\ UNCHANGED <<hubVars, brokerVars>> /\ run' # "serve"
          /\ \/ UNCHANGED call
             \/ \E p : call[Node].at = "idle" /\ Send(Node, directRequest(p))
      BY <1>4 DEF runSession, Resolved, StartDirect, StartTunnel, Run
    <2> QED BY <1>0, <2>1, NoCallQuiet, SendsQuietly, Zenon DEF directRequest
  <1>5. CASE Enrolled \/ DirectBeaten \/ Renewed
    <2>1. /\ UNCHANGED <<hubVars, brokerVars>> /\ call[Node].at # "admitted"
          /\ \/ Taken(Node)
             \/ Send(Node, directRequest(spot)) /\ run' # "serve"
      BY <1>5 DEF Enrolled, DirectBeaten, Renewed, frame, Answered, Replies, Run
    <2> QED BY <1>0, <2>1, SendsQuietly, Zenon DEF directRequest
  <1>6. CASE DirectTick
    <2>1. /\ UNCHANGED <<hubVars, brokerVars>> /\ call[Node].at # "admitted"
          /\ Send(Node, HeartbeatCall(Id, lease[Node], effectiveConfig(cfg).cls))
          /\ run' # "serve"
      BY <1>6 DEF DirectTick, frame, Run, CallInv
    <2> QED BY <1>0, <2>1, SendsQuietly
  <1>7. CASE DirectStopped \/ DirectBroken
    <2>1. /\ UNCHANGED <<hubVars, brokerVars>> /\ run' # "serve"
          /\ Abandon(Node) \/ UNCHANGED call
      BY <1>7 DEF DirectStopped, DirectBroken, frame, SessionOver, Run
    <2> QED BY <1>0, <2>1, NoCallQuiet, AbandonsQuietly
  <1> QED BY <1>1, <1>2, <1>3, <1>4, <1>5, <1>6, <1>7
          DEF NodeStep, Supervisor, SessionEnds, Client

LEMMA NodeCalls ==
    ASSUME HubInv, CallInv, NodeStep
    PROVE  /\ CallInv' /\ UNCHANGED brokerVars
           /\ \E c \in Callers : Quiet(c)
  <1>0. Node \in Callers \ Sess /\ Sess \subseteq Callers
    BY NodeAssumption, HubAssumption
  <1>1. CASE Dial
    <2>1. PICK s \in Sess : /\ Allocate(s, Id) /\ call[s].at = "idle" /\ pc[s] = "free"
                            /\ UNCHANGED <<beat, run, brokerVars>>
      BY <1>1, Zenon DEF Dial, FreeSessions, Allocate, clientFrame
    <2>2. \E p : Send(s, registerRequest(Id, p, "signed"))
      BY <2>1 DEF Allocate
    <2>3. Quiet(s)
      BY <1>0, <2>1, <2>2, SendsQuietly
    <2>4. beat[s] # "idle"
      BY <2>1 DEF HubInv
    <2>5. \A t \in Sess : beat'[t] = "idle" => call'[t].at = "idle"
      BY <1>0, <2>1, <2>3, <2>4 DEF Quiet, CallInv
    <2>6. run' = "serve" => call'[Node].at = "idle"
      BY <1>0, <2>1, <2>3 DEF Quiet, CallInv
    <2>7. \A c \in Callers : call'[c].unit = "held" => call'[c].at = "admitted"
      BY <2>3 DEF Quiet, CallInv
    <2> QED BY <1>0, <2>1, <2>3, <2>5, <2>6, <2>7 DEF CallInv, Quiet
  <1>2. CASE ~Dial
    <2>1. /\ UNCHANGED <<beat, brokerVars>>
          /\ Quiet(Node) /\ (run' = "serve" => call'[Node].at = "idle")
      BY <1>2, NodeIdle DEF hubVars
    <2>2. \A t \in Sess : beat'[t] = "idle" => call'[t].at = "idle"
      BY <1>0, <2>1 DEF Quiet, CallInv
    <2>3. \A c \in Callers : call'[c].unit = "held" => call'[c].at = "admitted"
      BY <2>1 DEF Quiet, CallInv
    <2> QED BY <1>0, <2>1, <2>2, <2>3 DEF CallInv, Quiet
  <1> QED BY <1>1, <1>2

-----------------------------------------------------------------------------
(* Counting units *)

LEMMA FiniteConstants == IsFiniteSet(Callers) /\ IsFiniteSet(Sources) /\ Limit \in Nat
  BY DirectoryAssumption, Zenon

\* The units requests hold, per address, as requests take and return them.
HeldAt(a) == {c \in Callers : SourceOf[c] = a /\ call[c].unit = "held"}

LEMMA HeldFinite ==
    \A a \in Sources : /\ IsFiniteSet(HeldAt(a)) /\ Held(a) = Cardinality(HeldAt(a))
                       /\ Held(a) \in Nat
  <1> SUFFICES ASSUME NEW a \in Sources
               PROVE  IsFiniteSet(HeldAt(a)) /\ Held(a) = Cardinality(HeldAt(a)) /\ Held(a) \in Nat
    OBVIOUS
  <1>1. HeldAt(a) \subseteq Callers
    BY DEF HeldAt
  <1>2. IsFiniteSet(HeldAt(a))
    BY <1>1, FS_Subset, FiniteConstants
  <1>3. Held(a) = Cardinality(HeldAt(a))
    BY Zenon DEF Held, HeldAt
  <1> QED BY <1>2, <1>3, FS_CardinalityType

LEMMA HeldFiniteNext ==
    \A a \in Sources : /\ IsFiniteSet(HeldAt(a)') /\ Held(a)' = Cardinality(HeldAt(a)')
                       /\ Held(a)' \in Nat
  <1> SUFFICES ASSUME NEW a \in Sources
               PROVE  IsFiniteSet(HeldAt(a)') /\ Held(a)' = Cardinality(HeldAt(a)') /\ Held(a)' \in Nat
    OBVIOUS
  <1>1. HeldAt(a)' \subseteq Callers
    BY DEF HeldAt
  <1>2. IsFiniteSet(HeldAt(a)')
    BY <1>1, FS_Subset, FiniteConstants
  <1>3. Held(a)' = Cardinality(HeldAt(a)')
    BY Zenon DEF Held, HeldAt
  <1> QED BY <1>2, <1>3, FS_CardinalityType

LEMMA HeldKept ==
    ASSUME NEW c \in Callers, Quiet(c)
    PROVE  \A a \in Sources : Held(a)' = Held(a)
  <1>1. \A a \in Sources : HeldAt(a)' = HeldAt(a)
    BY DEF HeldAt, Quiet
  <1> QED BY <1>1, HeldFinite, HeldFiniteNext

LEMMA HeldTaken ==
    ASSUME NEW c \in Callers, call[c].unit # "held", call'[c].unit = "held",
           \A d \in Callers \ {c} : call'[d] = call[d]
    PROVE  \A a \in Sources : Held(a)' = IF a = SourceOf[c] THEN Held(a) + 1 ELSE Held(a)
  <1> SUFFICES ASSUME NEW a \in Sources
               PROVE  Held(a)' = IF a = SourceOf[c] THEN Held(a) + 1 ELSE Held(a)
    OBVIOUS
  <1>1. CASE a = SourceOf[c]
    <2>1. HeldAt(a)' = HeldAt(a) \cup {c} /\ c \notin HeldAt(a)
      BY <1>1 DEF HeldAt
    <2>2. Cardinality(HeldAt(a)') = Cardinality(HeldAt(a)) + 1
      BY <2>1, HeldFinite, FS_AddElement, ZenonT(40)
    <2> QED BY <1>1, <2>2, HeldFinite, HeldFiniteNext, ZenonT(40)
  <1>2. CASE a # SourceOf[c]
    <2>1. HeldAt(a)' = HeldAt(a)
      BY <1>2 DEF HeldAt
    <2> QED BY <1>2, <2>1, HeldFinite, HeldFiniteNext
  <1> QED BY <1>1, <1>2

LEMMA HeldReturned ==
    ASSUME NEW c \in Callers, call[c].unit = "held", call'[c].unit # "held",
           \A d \in Callers \ {c} : call'[d] = call[d]
    PROVE  \A a \in Sources : Held(a)' = IF a = SourceOf[c] THEN Held(a) - 1 ELSE Held(a)
  <1> SUFFICES ASSUME NEW a \in Sources
               PROVE  Held(a)' = IF a = SourceOf[c] THEN Held(a) - 1 ELSE Held(a)
    OBVIOUS
  <1>1. CASE a = SourceOf[c]
    <2>1. HeldAt(a)' = HeldAt(a) \ {c} /\ c \in HeldAt(a)
      BY <1>1 DEF HeldAt
    <2>2. Cardinality(HeldAt(a)') = Cardinality(HeldAt(a)) - 1
      BY <2>1, HeldFinite, FS_RemoveElement, ZenonT(40)
    <2> QED BY <1>1, <2>2, HeldFinite, HeldFiniteNext, ZenonT(40)
  <1>2. CASE a # SourceOf[c]
    <2>1. HeldAt(a)' = HeldAt(a)
      BY <1>2 DEF HeldAt
    <2> QED BY <1>2, <2>1, HeldFinite, HeldFiniteNext
  <1> QED BY <1>1, <1>2

\* Sets of units compared by size.
LEMMA Swapped ==
    ASSUME NEW S, IsFiniteSet(S), NEW x \in S, NEW y, NEW T, T \subseteq (S \ {x}) \cup {y}
    PROVE  Cardinality(T) <= Cardinality(S)
  <1> DEFINE U == S \ {x}
  <1>1. /\ IsFiniteSet(U) /\ Cardinality(U) = Cardinality(S) - 1
        /\ Cardinality(S) \in Nat /\ T \subseteq U \cup {y}
    BY FS_RemoveElement, FS_CardinalityType
  <1> HIDE DEF U
  <1> DEFINE V == U \cup {y}
  <1>2. IsFiniteSet(V) /\ Cardinality(V) <= Cardinality(S)
    BY <1>1, FS_AddElement
  <1>3. T \subseteq V
    BY <1>1
  <1> HIDE DEF V
  <1>4. Cardinality(T) <= Cardinality(V) /\ IsFiniteSet(T)
    BY <1>2, <1>3, FS_Subset
  <1> QED BY <1>1, <1>2, <1>4, FS_CardinalityType

LEMMA KeptFinite ==
    /\ IsFiniteSet(Kept) /\ Cardinality(Kept) \in Nat
    /\ IsFiniteSet(Kept') /\ Cardinality(Kept') \in Nat
  <1>1. IsFiniteSet(1 .. Limit)
    BY FiniteConstants, FS_Interval
  <1>2. IsFiniteSet(Sources \X (1 .. Limit))
    BY <1>1, FiniteConstants, FS_Product
  <1>3. IsFiniteSet(Kept) /\ IsFiniteSet(Kept')
    BY <1>2, FS_Subset, Zenon DEF Kept
  <1> QED BY <1>3, FS_CardinalityType

LEMMA KeptIs ==
    /\ \A a \in Sources, k \in 1 .. Limit :
          /\ <<a, k>> \in Kept  <=> Held(a) < k /\ k <= spent[a]
          /\ <<a, k>> \in Kept' <=> Held(a)' < k /\ k <= spent'[a]
    /\ \A u \in Kept \cup Kept' : \E a \in Sources, k \in 1 .. Limit : u = <<a, k>>
  <1>1. /\ \A a \in Sources, k \in 1 .. Limit :
              <<a, k>> \in Kept  <=> Held(a) < k /\ k <= spent[a]
        /\ \A u \in Kept : \E a \in Sources, k \in 1 .. Limit : u = <<a, k>>
    BY DEF Kept
  <1>2. /\ \A a \in Sources, k \in 1 .. Limit :
              <<a, k>> \in Kept' <=> Held(a)' < k /\ k <= spent'[a]
        /\ \A u \in Kept' : \E a \in Sources, k \in 1 .. Limit : u = <<a, k>>
    BY DEF Kept
  <1> QED BY <1>1, <1>2

\* reserve: what is held and what is reserved grow together.
LEMMA Reserved1 ==
    ASSUME CapInv, NEW a \in Sources, spent[a] < Limit,
           spent' = [spent EXCEPT ![a] = @ + 1],
           \A b \in Sources : Held(b)' = IF b = a THEN Held(b) + 1 ELSE Held(b)
    PROVE  /\ spent' \in [Sources -> 0 .. Limit]
           /\ \A b \in Sources : Held(b)' <= spent'[b]
           /\ Cardinality(Kept') <= Cardinality(Kept)
  <1>1. /\ spent \in [Sources -> 0 .. Limit] /\ Limit \in Nat
        /\ \A b \in Sources : Held(b) \in Nat /\ Held(b) <= spent[b]
    BY HeldFinite, FiniteConstants DEF CapInv
  <1>2. \A b \in Sources : spent'[b] = IF b = a THEN spent[b] + 1 ELSE spent[b]
    BY <1>1
  <1>3. CASE Held(a) < spent[a]
    <2>1. <<a, Held(a) + 1>> \in Kept
      BY <1>1, <1>3, KeptIs
    <2>2. Kept' \subseteq (Kept \ {<<a, Held(a) + 1>>}) \cup {<<a, spent[a] + 1>>}
      BY <1>1, <1>2, KeptIs
    <2> QED BY <1>1, <1>2, <2>1, <2>2, Swapped, KeptFinite
  <1>4. CASE ~(Held(a) < spent[a])
    <2>1. Kept' \subseteq Kept
      BY <1>1, <1>2, <1>4, KeptIs
    <2> QED BY <1>1, <1>2, <2>1, FS_Subset, KeptFinite
  <1> QED BY <1>3, <1>4

\* release: they shrink together.
LEMMA Released1 ==
    ASSUME CapInv, NEW a \in Sources, spent' = [spent EXCEPT ![a] = @ - 1], 0 < Held(a),
           \A b \in Sources : Held(b)' = IF b = a THEN Held(b) - 1 ELSE Held(b)
    PROVE  /\ spent' \in [Sources -> 0 .. Limit]
           /\ \A b \in Sources : Held(b)' <= spent'[b]
           /\ Cardinality(Kept') <= Cardinality(Kept)
  <1>1. /\ spent \in [Sources -> 0 .. Limit] /\ Limit \in Nat
        /\ \A b \in Sources : Held(b) \in Nat /\ Held(b) <= spent[b]
    BY HeldFinite, FiniteConstants DEF CapInv
  <1>2. \A b \in Sources : spent'[b] = IF b = a THEN spent[b] - 1 ELSE spent[b]
    BY <1>1
  <1>a. /\ spent' \in [Sources -> 0 .. Limit]
        /\ \A b \in Sources : Held(b)' <= spent'[b]
    BY <1>1, <1>2
  <1>3. CASE Held(a) < spent[a]
    <2>1. <<a, spent[a]>> \in Kept
      BY <1>1, <1>3, KeptIs
    <2>2. Kept' \subseteq (Kept \ {<<a, spent[a]>>}) \cup {<<a, Held(a)>>}
      BY <1>1, <1>2, KeptIs
    <2> QED BY <1>a, <2>1, <2>2, Swapped, KeptFinite, Zenon
  <1>4. CASE ~(Held(a) < spent[a])
    <2>1. Kept' \subseteq Kept
      BY <1>1, <1>2, <1>4, KeptIs
    <2> QED BY <1>a, <2>1, FS_Subset, KeptFinite
  <1> QED BY <1>3, <1>4

\* A registration that established its identity keeps its unit.
LEMMA Kept1 ==
    ASSUME CapInv, NEW a \in Sources, UNCHANGED spent, 0 < Held(a),
           \A b \in Sources : Held(b)' = IF b = a THEN Held(b) - 1 ELSE Held(b)
    PROVE  /\ \A b \in Sources : Held(b)' <= spent'[b]
           /\ Cardinality(Kept') <= Cardinality(Kept) + 1
  <1>1. /\ spent \in [Sources -> 0 .. Limit] /\ Limit \in Nat
        /\ \A b \in Sources : Held(b) \in Nat /\ Held(b) <= spent[b]
    BY HeldFinite, FiniteConstants DEF CapInv
  <1>2. Kept' \subseteq Kept \cup {<<a, Held(a)>>}
    BY <1>1, KeptIs
  <1> DEFINE u == <<a, Held(a)>>
             V == Kept \cup {u}
  <1> HIDE DEF u
  <1>3. IsFiniteSet(V) /\ Cardinality(V) <= Cardinality(Kept) + 1
    <2>1. IsFiniteSet(Kept) /\ Cardinality(Kept) \in Nat
      BY KeptFinite, FS_CardinalityType
    <2>2. /\ IsFiniteSet(V)
          /\ \/ Cardinality(V) = Cardinality(Kept)
             \/ Cardinality(V) = Cardinality(Kept) + 1
      BY <2>1, FS_AddElement, ZenonT(40)
    <2> QED BY <2>1, <2>2
  <1>4. Kept' \subseteq V
    BY <1>2 DEF u
  <1> HIDE DEF V
  <1>5. Cardinality(Kept') <= Cardinality(V)
    BY <1>3, <1>4, FS_Subset
  <1> QED BY <1>1, <1>3, <1>5, KeptFinite, FS_CardinalityType

\* What the budgets say when they stay.
LEMMA SpentSame ==
    ASSUME CapInv, UNCHANGED spent
    PROVE  /\ spent' \in [Sources -> 0 .. Limit]
           /\ \A b \in Sources : Held(b) <= spent'[b] /\ spent'[b] <= spent[b]
  <1>1. \A b \in Sources : spent[b] \in Int
    BY FiniteConstants DEF CapInv
  <1>2. \A n \in Int : n <= n
    OBVIOUS
  <1> QED BY <1>1, <1>2, Zenon DEF CapInv

\* Neither requests nor budgets change, or only the budget of one address shrinks.
LEMMA Unheld ==
    ASSUME CapInv, \A b \in Sources : Held(b)' = Held(b),
           spent' \in [Sources -> 0 .. Limit],
           \A b \in Sources : Held(b) <= spent'[b] /\ spent'[b] <= spent[b]
    PROVE  /\ \A b \in Sources : Held(b)' <= spent'[b]
           /\ Cardinality(Kept') <= Cardinality(Kept)
  <1>1. /\ spent \in [Sources -> 0 .. Limit] /\ Limit \in Nat
        /\ \A b \in Sources : Held(b) \in Nat /\ Held(b) <= spent[b]
    BY HeldFinite, FiniteConstants DEF CapInv
  <1>2. Kept' \subseteq Kept
    BY <1>1, KeptIs
  <1> QED BY <1>2, FS_Subset, KeptFinite

\* The ledger only grows, short of a restart of the broker: one that has room had
\* room before.
LEMMA LedgerGrows ==
    ASSUME CapInv, ledger \subseteq ledger', IsFiniteSet(ledger'),
           Cardinality(Kept') <= Cardinality(Kept)
    PROVE  ChargedOnce'
  <1>1. /\ Cardinality(ledger) <= Cardinality(ledger') /\ IsFiniteSet(ledger)
        /\ Cardinality(ledger) < LedgerMax => Cardinality(Kept) <= Cardinality(ledger)
    BY FS_Subset DEF CapInv, ChargedOnce
  <1>2. /\ Cardinality(ledger) \in Nat /\ Cardinality(ledger') \in Nat
        /\ LedgerMax \in Nat
    BY <1>1, FS_CardinalityType, DirectoryAssumption
  <1> QED BY <1>1, <1>2, KeptFinite DEF ChargedOnce

\* A registration that keeps its unit is recorded, unless the ledger is full.
LEMMA LedgerTakes ==
    ASSUME CapInv, NEW id, id \notin ledger, remember(id),
           Cardinality(Kept') <= Cardinality(Kept) + 1
    PROVE  ChargedOnce'
  <1> DEFINE n == Cardinality(ledger)
             k == Cardinality(Kept)
  <1>1. /\ Cardinality(ledger \cup {id}) = n + 1 /\ n \in Nat
        /\ k \in Nat /\ Cardinality(Kept') \in Nat
    BY KeptFinite, FS_AddElement, FS_CardinalityType DEF CapInv
  <1>2. n < LedgerMax => k <= n
    BY DEF CapInv, ChargedOnce
  <1>3. CASE n < LedgerMax
    <2>1. Cardinality(ledger') = n + 1
      BY <1>1, <1>3, Zenon DEF remember
    <2>2. Cardinality(Kept') <= n + 1
      <3> HIDE DEF n, k
      <3> QED BY <1>1, <1>2, <1>3 DEF k
    <2> QED BY <2>1, <2>2, Zenon DEF ChargedOnce
  <1>4. CASE ~(n < LedgerMax)
    <2>1. ledger' = ledger
      BY <1>4, Zenon DEF remember
    <2> QED BY <1>4, <2>1, Zenon DEF ChargedOnce
  <1> QED BY <1>3, <1>4, Zenon

\* Steps of relay and hub.
LEMMA CapQuiet ==
    ASSUME CapInv, NEW c \in Callers, Quiet(c), UNCHANGED brokerVars
    PROVE  CapInv'
  <1>1. UNCHANGED <<rows, ledger, spent>>
    BY DEF brokerVars
  <1>2. \A b \in Sources : Held(b)' = Held(b)
    BY HeldKept
  <1>3. /\ spent' \in [Sources -> 0 .. Limit]
        /\ \A b \in Sources : Held(b) <= spent'[b] /\ spent'[b] <= spent[b]
    BY <1>1, FiniteConstants DEF CapInv
  <1>4. /\ \A b \in Sources : Held(b)' <= spent'[b]
        /\ Cardinality(Kept') <= Cardinality(Kept)
    BY <1>2, <1>3, Unheld
  <1>5. IsFiniteSet(rows') /\ IsFiniteSet(ledger') /\ ledger \subseteq ledger'
    BY <1>1 DEF CapInv
  <1>6. ChargedOnce'
    BY <1>4, <1>5, LedgerGrows
  <1> QED BY <1>3, <1>4, <1>5, <1>6 DEF CapInv

-----------------------------------------------------------------------------
(* The broker *)

\* A reply returns the caller to where it holds nothing.
LEMMA Replied ==
    ASSUME Calls, NEW c \in Callers, NEW r, NEW tok, Reply(c, r, tok)
    PROVE  /\ Calls' /\ call'[c].unit = "none"
           /\ \A d \in Callers \ {c} : call'[d] = call[d]
  <1> DEFINE q == IF call[c].wait = "no" THEN NoCall
                  ELSE [NoCall EXCEPT !.at = r, !.tok = tok]
  <1>1. {"at", "unit"} \subseteq DOMAIN q /\ q.unit = "none"
    BY DEF NoCall
  <1>2. Send(c, q)
    BY DEF Reply
  <1> HIDE DEF q
  <1> QED BY <1>1, <1>2, Sent

\* registerHandler up to the store: a unit is reserved and held, or none is.
LEMMA AdmitStep ==
    ASSUME CallInv, NEW c \in Callers, Admit(c)
    PROVE  /\ call[c].at = "register" /\ UNCHANGED <<rows, ledger>>
           /\ \/ Quiet(c) /\ UNCHANGED spent
              \/ /\ reserve(c) /\ Calls' /\ call[c].unit # "held" /\ call'[c].unit = "held"
                 /\ call'[c].at = "admitted"
                 /\ \A d \in Callers \ {c} : call'[d] = call[d]
  <1>1. /\ call[c].at = "register" /\ UNCHANGED <<rows, ledger>>
        /\ Calls /\ call[c].unit # "held"
    BY DEF Admit, CallInv
  <1>2. CASE Reply(c, "err", "none") /\ UNCHANGED spent
    BY <1>1, <1>2, Replied DEF Quiet
  <1>3. CASE UNCHANGED spent /\ Send(c, [call[c] EXCEPT !.at = "admitted"])
    <2> DEFINE r == [call[c] EXCEPT !.at = "admitted"]
    <2>1. {"at", "unit"} \subseteq DOMAIN r /\ r.unit = call[c].unit
      BY <1>1 DEF Calls
    <2>2. Send(c, r)
      BY <1>3
    <2> HIDE DEF r
    <2> QED BY <1>1, <1>3, <2>1, <2>2, Sent DEF Quiet
  <1>4. CASE reserve(c) /\ Send(c, [call[c] EXCEPT !.at = "admitted", !.unit = "held"])
    <2> DEFINE r == [call[c] EXCEPT !.at = "admitted", !.unit = "held"]
    <2>1. {"at", "unit"} \subseteq DOMAIN r /\ r.unit = "held" /\ r.at = "admitted"
      BY <1>1 DEF Calls
    <2>2. Send(c, r)
      BY <1>4
    <2> HIDE DEF r
    <2> QED BY <1>1, <1>4, <2>1, <2>2, Sent
  <1> QED BY <1>1, <1>2, <1>3, <1>4 DEF Admit

\* The store's answer: the unit is handed back, or kept by an identity it established.
LEMMA StoreStep ==
    ASSUME CallInv, NEW c \in Callers, Register(c) \/ RegisterRefused(c)
    PROVE  /\ call[c].at = "admitted" /\ Calls' /\ call'[c].unit # "held"
           /\ \A d \in Callers \ {c} : call'[d] = call[d]
           /\ \/ call[c].unit = "held" /\ release(c)
              \/ call[c].unit # "held" /\ UNCHANGED spent
              \/ /\ call[c].unit = "held" /\ UNCHANGED spent
                 /\ call[c].id \notin ledger /\ remember(call[c].id)
           /\ ledger' \in {ledger, ledger \cup {call[c].id}}
           /\ \E S \in SUBSET rows : \E r : rows' \in {S, S \cup {r}}
  <1>1. call[c].at = "admitted" /\ Calls
    BY Zenon DEF Register, RegisterRefused, CallInv
  <1>2. \E r, tok : Reply(c, r, tok)
    BY Zenon DEF Register, RegisterRefused
  <1>3. /\ Calls' /\ call'[c].unit = "none"
        /\ \A d \in Callers \ {c} : call'[d] = call[d]
    BY <1>1, <1>2, Replied, Zenon
  <1>4. CASE Register(c)
    <2>1. /\ remember(call[c].id)
          /\ IF call[c].unit = "held" /\ ~rememberIfNew(call[c].id) THEN release(c)
             ELSE UNCHANGED spent
          /\ \E S \in SUBSET rows : \E r : rows' = S \cup {r}
      BY <1>4, Zenon DEF Register
    <2>2. ledger' \in {ledger, ledger \cup {call[c].id}}
      BY <2>1, Zenon DEF remember
    <2> QED BY <1>1, <1>3, <2>1, <2>2, Zenon DEF rememberIfNew
  <1>5. CASE RegisterRefused(c)
    BY <1>1, <1>3, <1>5, Zenon DEF RegisterRefused
  <1> QED BY <1>4, <1>5, Zenon

LEMMA AnswerStep ==
    ASSUME CallInv, NEW c \in Callers, Heartbeat(c) \/ LoseReply(c) \/ ProofAges(c)
    PROVE  /\ Quiet(c) /\ call[c].at # "idle" /\ UNCHANGED <<rows, spent>>
           /\ ledger' \in {ledger, ledger \cup {call[c].id}}
  <1>1. Calls /\ call[c].at \notin {"admitted", "idle"}
    BY DEF Heartbeat, LoseReply, ProofAges, CallInv
  <1>2. UNCHANGED <<rows, spent>> /\ ledger' \in {ledger, ledger \cup {call[c].id}}
    <2>1. CASE Heartbeat(c)
      <3>1. remember(call[c].id) \/ UNCHANGED ledger
        BY <2>1, Zenon DEF Heartbeat
      <3>2. UNCHANGED <<rows, spent>>
        BY <2>1 DEF Heartbeat
      <3> QED BY <3>1, <3>2, Zenon DEF remember
    <2>2. CASE LoseReply(c) \/ ProofAges(c)
      BY <2>2 DEF LoseReply, ProofAges, brokerVars
    <2> QED BY <2>1, <2>2
  <1>3. CASE \E r, tok : Reply(c, r, tok)
    BY <1>1, <1>2, <1>3, SendsQuietly, Zenon
  <1>4. CASE ProofAges(c)
    <2> DEFINE r == [call[c] EXCEPT !.proof = "aged"]
    <2>1. /\ {"at", "unit"} \subseteq DOMAIN r /\ r.unit = call[c].unit
          /\ call[c].unit # "held"
      BY <1>1 DEF Calls, CallInv
    <2>2. Send(c, r)
      BY <1>4 DEF ProofAges, Send
    <2> HIDE DEF r
    <2> QED BY <1>1, <1>2, <2>1, <2>2, Sent DEF Quiet
  <1> QED BY <1>3, <1>4, Zenon DEF Heartbeat, LoseReply

\* A restart takes every unit back, those of requests under way included.
LEMMA RestartStep ==
    ASSUME CallInv, CapInv, BrokerRestart
    PROVE  /\ Calls' /\ CapInv'
           /\ \A c \in Callers : /\ call'[c].unit # "held"
                                 /\ call[c].at = "idle" => call'[c].at = "idle"
  <1>2. /\ Calls'
        /\ \A c \in Callers : /\ call'[c].unit # "held"
                              /\ call[c].at = "idle" => call'[c].at = "idle"
    <2>1. \A c \in Callers :
            \/ call'[c] = call[c] /\ call[c].at # "admitted"
            \/ /\ call'[c] \in {NoCall, [NoCall EXCEPT !.at = "err"]}
               /\ call[c].at = "admitted"
      BY Zenon DEF BrokerRestart
    <2>2. DOMAIN call' = Callers
      BY DEF BrokerRestart
    <2>3. /\ {"at", "unit"} \subseteq DOMAIN NoCall /\ NoCall.unit = "none"
          /\ {"at", "unit"} \subseteq DOMAIN [NoCall EXCEPT !.at = "err"]
          /\ [NoCall EXCEPT !.at = "err"].unit = "none"
      BY DEF NoCall
    <2> QED BY <2>1, <2>2, <2>3 DEF CallInv, Calls
  <1>3. \A a \in Sources : Held(a)' = 0
    <2>1. \A a \in Sources : HeldAt(a)' = {}
      BY <1>2 DEF HeldAt
    <2> QED BY <2>1, HeldFiniteNext, FS_EmptySet
  <1>4. spent' = [a \in Sources |-> 0]
    BY DEF BrokerRestart
  <1>5. Kept' = {}
    BY <1>3, <1>4, KeptIs, FiniteConstants
  <1>6. IsFiniteSet(rows')
    BY FS_EmptySet DEF BrokerRestart, CapInv
  <1>7. IsFiniteSet(ledger')
    <2> DEFINE S == rows'
               T == {r.id : r \in S}
               f == [r \in S |-> r.id]
    <2>1. f \in Surjection(S, T)
      BY DEF Surjection
    <2>2. ledger' \subseteq T
      BY DEF BrokerRestart, seedRelayLedger
    <2> HIDE DEF f, T
    <2> QED BY <1>6, <2>1, <2>2, FS_Surjection, FS_Subset
  <1>8. ChargedOnce'
    BY <1>5, <1>7, FS_EmptySet, FS_CardinalityType DEF ChargedOnce
  <1>9. /\ spent' \in [Sources -> 0 .. Limit]
        /\ \A b \in Sources : Held(b)' <= spent'[b]
    BY <1>3, <1>4, FiniteConstants
  <1> QED BY <1>2, <1>6, <1>7, <1>8, <1>9 DEF CapInv

LEMMA ServeStep ==
    ASSUME CallInv, CapInv, NEW c \in Callers,
           Handler(c) \/ LoseReply(c) \/ ProofAges(c)
    PROVE  /\ Calls' /\ call[c].at # "idle" /\ CapInv'
           /\ \A d \in Callers \ {c} : call'[d] = call[d]
           /\ call'[c].unit = "held" => call'[c].at = "admitted"
  <1>0. SourceOf[c] \in Sources
    BY DirectoryAssumption
  <1>1. /\ IsFiniteSet(ledger \cup {call[c].id}) /\ IsFiniteSet(ledger) /\ IsFiniteSet(rows)
        /\ spent \in [Sources -> 0 .. Limit]
    BY FS_AddElement DEF CapInv
  <1>2. CASE /\ Quiet(c) /\ UNCHANGED <<rows, spent>> /\ call[c].at # "idle"
             /\ ledger' \in {ledger, ledger \cup {call[c].id}}
    <2>1. \A b \in Sources : Held(b)' = Held(b)
      BY <1>2, HeldKept, Zenon
    <2>2. /\ spent' \in [Sources -> 0 .. Limit]
          /\ \A b \in Sources : Held(b) <= spent'[b] /\ spent'[b] <= spent[b]
      BY <1>2, SpentSame, Zenon
    <2>3. /\ \A b \in Sources : Held(b)' <= spent'[b]
          /\ Cardinality(Kept') <= Cardinality(Kept)
      BY <2>1, <2>2, Unheld
    <2>4. IsFiniteSet(ledger') /\ ledger \subseteq ledger' /\ IsFiniteSet(rows')
      BY <1>1, <1>2
    <2>5. ChargedOnce'
      BY <2>3, <2>4, LedgerGrows
    <2> QED BY <1>2, <2>2, <2>3, <2>4, <2>5, Zenon DEF CapInv, Quiet
  <1>3. CASE Admit(c) /\ ~Quiet(c)
    <2>1. /\ call[c].at = "register" /\ UNCHANGED <<rows, ledger>> /\ reserve(c) /\ Calls'
          /\ call[c].unit # "held" /\ call'[c].unit = "held" /\ call'[c].at = "admitted"
          /\ \A d \in Callers \ {c} : call'[d] = call[d]
      BY <1>3, AdmitStep, Zenon
    <2>2. \A b \in Sources : Held(b)' = IF b = SourceOf[c] THEN Held(b) + 1 ELSE Held(b)
      BY <2>1, HeldTaken, Zenon
    <2>3. /\ spent[SourceOf[c]] < Limit
          /\ spent' = [spent EXCEPT ![SourceOf[c]] = @ + 1]
      BY <2>1, Zenon DEF reserve
    <2>4. /\ spent' \in [Sources -> 0 .. Limit]
          /\ \A b \in Sources : Held(b)' <= spent'[b]
          /\ Cardinality(Kept') <= Cardinality(Kept)
      BY <1>0, <2>2, <2>3, Reserved1, Zenon
    <2>5. IsFiniteSet(ledger') /\ ledger \subseteq ledger' /\ IsFiniteSet(rows')
      BY <1>1, <2>1, Zenon
    <2>6. ChargedOnce'
      BY <2>4, <2>5, LedgerGrows
    <2> QED BY <2>1, <2>4, <2>5, <2>6 DEF CapInv
  <1>4. CASE Register(c) \/ RegisterRefused(c)
    <2>1. /\ call[c].at = "admitted" /\ Calls' /\ call'[c].unit # "held"
          /\ \A d \in Callers \ {c} : call'[d] = call[d]
          /\ ledger' \in {ledger, ledger \cup {call[c].id}}
      BY <1>4, StoreStep, Zenon
    <2>2. IsFiniteSet(rows')
      <3>1. PICK S \in SUBSET rows : \E r : rows' \in {S, S \cup {r}}
        BY <1>4, StoreStep, Zenon
      <3>2. IsFiniteSet(S)
        BY <1>1, FS_Subset
      <3> QED BY <3>1, <3>2, FS_AddElement
    <2>3. IsFiniteSet(ledger') /\ ledger \subseteq ledger'
      BY <1>1, <2>1
    <2>4. CASE call[c].unit # "held" /\ UNCHANGED spent
      <3>1. \A b \in Sources : Held(b)' = Held(b)
        BY <2>1, <2>4, HeldKept, Zenon DEF Quiet
      <3>2. /\ \A b \in Sources : Held(b)' <= spent'[b]
            /\ Cardinality(Kept') <= Cardinality(Kept)
        BY <2>4, <3>1, SpentSame, Unheld, Zenon
      <3>3. ChargedOnce'
        BY <2>3, <3>2, LedgerGrows
      <3> QED BY <1>1, <2>1, <2>2, <2>3, <2>4, <3>2, <3>3, Zenon DEF CapInv
    <2>5. CASE call[c].unit = "held"
      <3>1. \A b \in Sources : Held(b)' = IF b = SourceOf[c] THEN Held(b) - 1 ELSE Held(b)
        BY <2>1, <2>5, HeldReturned, Zenon
      <3>2. 0 < Held(SourceOf[c])
        <4>1. Held(SourceOf[c]) \in Nat /\ Held(SourceOf[c])' \in Nat
          BY <1>0, HeldFinite, HeldFiniteNext
        <4> QED BY <1>0, <3>1, <4>1
      <3>3. CASE release(c)
        <4>1. /\ spent' \in [Sources -> 0 .. Limit]
              /\ \A b \in Sources : Held(b)' <= spent'[b]
              /\ Cardinality(Kept') <= Cardinality(Kept)
          BY <1>0, <3>1, <3>2, <3>3, Released1, Zenon DEF release
        <4>2. ChargedOnce'
          BY <2>3, <4>1, LedgerGrows
        <4> QED BY <2>1, <2>2, <2>3, <4>1, <4>2, Zenon DEF CapInv
      <3>4. CASE /\ UNCHANGED spent /\ call[c].id \notin ledger
                 /\ remember(call[c].id)
        <4>1. /\ \A b \in Sources : Held(b)' <= spent'[b]
              /\ Cardinality(Kept') <= Cardinality(Kept) + 1
          BY <1>0, <3>1, <3>2, <3>4, Kept1, Zenon
        <4>2. ChargedOnce'
          BY <3>4, <4>1, LedgerTakes, Zenon
        <4> QED BY <1>1, <2>1, <2>2, <2>3, <3>4, <4>1, <4>2 DEF CapInv
      <3> QED BY <1>4, <2>5, <3>3, <3>4, StoreStep, Zenon
    <2> QED BY <1>4, <2>4, <2>5, StoreStep, Zenon
  <1>5. CASE Admit(c) /\ Quiet(c)
    <2>1. CASE UNCHANGED spent
      BY <1>2, <1>5, <2>1, AdmitStep, Zenon
    <2>2. CASE call[c].unit # "held" /\ call'[c].unit = "held"
      BY <1>5, <2>2, Zenon DEF Quiet
    <2> QED BY <1>5, <2>1, <2>2, AdmitStep
  <1>6. CASE Heartbeat(c) \/ LoseReply(c) \/ ProofAges(c)
    BY <1>2, <1>6, AnswerStep, Zenon
  <1> QED BY <1>3, <1>4, <1>5, <1>6, Zenon DEF Handler

LEMMA BrokerSteps ==
    ASSUME CallInv, CapInv, AtBroker, DirectoryNext
    PROVE  CallInv' /\ CapInv'
  <1>0. /\ UNCHANGED <<beat, run>>
        /\ Sess \subseteq Callers /\ Node \in Callers
    BY HubAssumption, NodeAssumption DEF AtBroker, hubVars, nodeVars
  <1>1. ASSUME NEW c \in Callers, Handler(c) \/ LoseReply(c) \/ ProofAges(c)
        PROVE  CallInv' /\ CapInv'
    <2>1. /\ Calls' /\ call[c].at # "idle" /\ CapInv'
          /\ \A d \in Callers \ {c} : call'[d] = call[d]
          /\ call'[c].unit = "held" => call'[c].at = "admitted"
      BY <1>1, ServeStep
    <2> QED BY <1>0, <2>1 DEF CallInv
  <1>2. ASSUME NEW a \in Sources, UnitExpires(a)
        PROVE  CallInv' /\ CapInv'
    <2>1. /\ UNCHANGED <<call, rows, ledger>> /\ Held(a) < spent[a]
          /\ spent' = [spent EXCEPT ![a] = @ - 1]
      BY <1>2 DEF UnitExpires
    <2>2. \A b \in Sources : Held(b)' = Held(b)
      BY <2>1 DEF Held
    <2>3. /\ spent' \in [Sources -> 0 .. Limit]
          /\ \A b \in Sources : Held(b) <= spent'[b] /\ spent'[b] <= spent[b]
      BY <2>1, HeldFinite, FiniteConstants DEF CapInv
    <2>4. /\ \A b \in Sources : Held(b)' <= spent'[b]
          /\ Cardinality(Kept') <= Cardinality(Kept)
      BY <2>2, <2>3, Unheld
    <2>5. IsFiniteSet(ledger') /\ ledger \subseteq ledger' /\ IsFiniteSet(rows')
      BY <2>1 DEF CapInv
    <2>6. ChargedOnce'
      BY <2>4, <2>5, LedgerGrows
    <2>7. CallInv'
      BY <1>0, <2>1 DEF CallInv, Calls
    <2> QED BY <2>3, <2>4, <2>5, <2>6, <2>7 DEF CapInv
  <1>3. ASSUME NEW r \in rows, Prune(r)
        PROVE  CallInv' /\ CapInv'
    <2>1. UNCHANGED <<call, ledger, spent>> /\ rows' = rows \ {r}
      BY <1>3 DEF Prune
    <2>2. IsFiniteSet(rows')
      BY <2>1, FS_RemoveElement DEF CapInv
    <2>3. ChargedOnce' /\ \A b \in Sources : Held(b)' <= spent'[b]
      BY <2>1 DEF CapInv, ChargedOnce, Kept, Held
    <2>4. CallInv'
      BY <1>0, <2>1 DEF CallInv, Calls
    <2> QED BY <2>1, <2>2, <2>3, <2>4 DEF CapInv
  <1>4. CASE BrokerRestart
    BY <1>0, <1>4, RestartStep DEF CallInv
  <1>5. CASE LedgerFills
    <2>1. UNCHANGED <<call, rows, spent>>
      BY <1>5 DEF LedgerFills
    <2>2. IsFiniteSet(ledger') /\ ledger \subseteq ledger'
      <3>1. PICK S \in SUBSET (Others \ ledger) : ledger' = ledger \cup S
        BY <1>5, Zenon DEF LedgerFills
      <3>2. IsFiniteSet(S)
        BY FS_Subset, DirectoryAssumption
      <3> QED BY <3>1, <3>2, FS_Union, Zenon DEF CapInv
    <2>3. /\ Kept' = Kept /\ IsFiniteSet(Kept)
          /\ \A b \in Sources : Held(b)' <= spent'[b]
      BY <2>1, KeptFinite DEF CapInv, Kept, Held
    <2>4. ChargedOnce'
      <3>1. Cardinality(Kept') <= Cardinality(Kept)
        BY <2>3, FS_CardinalityType
      <3> QED BY <2>2, <3>1, LedgerGrows
    <2>5. CallInv'
      BY <1>0, <2>1 DEF CallInv, Calls
    <2> QED BY <2>1, <2>2, <2>3, <2>4, <2>5 DEF CapInv
  <1> QED BY <1>1, <1>2, <1>3, <1>4, <1>5 DEF DirectoryNext

-----------------------------------------------------------------------------
(* The theorems *)

RelayInv == HubInv /\ NodeInv /\ CallInv /\ CapInv

LEMMA RelayInit == Init => RelayInv
  <1> SUFFICES ASSUME Init PROVE RelayInv
    OBVIOUS
  <1>1. HubInv
    BY DEF Init, HubInit, HubInv, Points, BeatPoints, PortsAccounted, RegistryLive
  <1>2. NodeInv
    BY NodeAssumption DEF Init, NodeInv
  <1>3. CallInv
    BY Zenon DEF Init, DirectoryInit, HubInit, CallInv, Calls, NoCall
  <1>4. CapInv
    <2>1. \A a \in Sources : HeldAt(a) = {}
      BY DEF Init, DirectoryInit, HeldAt, NoCall
    <2>2. \A a \in Sources : Held(a) = 0
      BY <2>1, HeldFinite, FS_EmptySet
    <2>3. Kept = {}
      BY <2>2, KeptIs, FiniteConstants DEF Init, DirectoryInit
    <2>4. ChargedOnce
      BY <2>3, FS_EmptySet DEF ChargedOnce, Init, DirectoryInit
    <2> QED BY <2>2, <2>4, FS_EmptySet, FiniteConstants DEF CapInv, Init, DirectoryInit
  <1> QED BY <1>1, <1>2, <1>3, <1>4 DEF RelayInv

\* A hub, or a node, that is left alone.
LEMMA HubSame ==
    ASSUME HubInv, UNCHANGED hubVars
    PROVE  HubInv'
  <1>1. PortsAccounted'
    BY SMTT(30) DEF hubVars, HubInv, PortsAccounted
  <1>2. RegistryLive'
    BY ZenonT(40) DEF hubVars, HubInv, RegistryLive
  <1> QED BY <1>1, <1>2, ZenonT(40) DEF hubVars, HubInv

LEMMA NodeSame ==
    ASSUME NodeInv, UNCHANGED nodeVars
    PROVE  NodeInv'
  BY DEF nodeVars, NodeInv

LEMMA RelayStep == RelayInv /\ [Next]_vars => RelayInv'
  <1> SUFFICES ASSUME RelayInv, [Next]_vars PROVE RelayInv'
    OBVIOUS
  <1>0. HubInv /\ NodeInv /\ CallInv /\ CapInv
    BY DEF RelayInv
  <1>1. CASE NodeStep
    <2>1. NodeInv'
      BY <1>0, <1>1, NodeSteps DEF NodeStep, Next
    <2>2. CallInv' /\ CapInv'
      BY <1>0, <1>1, NodeCalls, CapQuiet
    <2>3. HubInv'
      <3>1. CASE Dial
        <4>1. \E s \in Sess : Allocate(s, Id)
          BY <3>1, Zenon DEF Dial, FreeSessions
        <4> QED BY <1>0, <4>1, AllocateStep, NodeAssumption
      <3>2. CASE ~Dial
        BY <1>0, <1>1, <3>2, NodeIdle, HubSame, Zenon
      <3> QED BY <3>1, <3>2
    <2> QED BY <2>1, <2>2, <2>3 DEF RelayInv
  <1>2. CASE AtHub /\ \E s \in Sess : HubStep(s) \/ HubNotices(s)
    <2>1. NodeInv'
      BY <1>0, <1>2, NodeSteps DEF Next
    <2>2. CallInv' /\ CapInv'
      BY <1>0, <1>2, HubCalls, CapQuiet, HubAssumption
    <2>3. HubInv'
      BY <1>0, <1>2, HubSteps
    <2> QED BY <2>1, <2>2, <2>3 DEF RelayInv
  <1>3. CASE AtBroker /\ DirectoryNext
    <2>1. HubInv' /\ NodeInv'
      BY <1>0, <1>3, HubSame, NodeSame, Zenon DEF AtBroker
    <2> QED BY <1>0, <1>3, <2>1, BrokerSteps DEF RelayInv
  <1>4. CASE UNCHANGED vars
    <2>1. HubInv' /\ NodeInv'
      BY <1>0, <1>4, HubSame, NodeSame, Zenon DEF vars
    <2>2. CallInv' /\ CapInv'
      BY <1>0, <1>4, Zenon DEF vars, hubVars, nodeVars, directoryVars, brokerVars, CallInv, Calls,
                        CapInv, ChargedOnce, Kept, Held
    <2> QED BY <2>1, <2>2 DEF RelayInv
  <1> QED BY <1>1, <1>2, <1>3, <1>4 DEF Next, NodeStep

\* The combined invariant of hub, relay, requests and budgets holds throughout.
THEOREM RelayInvariant == Spec => []RelayInv
  BY RelayInit, RelayStep, PTL DEF Spec

\* The allocator has exactly the ports of the sessions that need one, and no port
\* twice, whatever handleControl's error paths and the teardown of run interleave.
THEOREM PortsStayAccounted == Spec => []PortsAccounted
  <1>1. RelayInv => PortsAccounted
    BY DEF RelayInv, HubInv
  <1> QED BY <1>1, RelayInvariant, PTL

\* The registry names live tunnels only, each under its own id, through takeovers,
\* re-registrations and removeTunnel.
THEOREM RegistryStaysLive == Spec => []RegistryLive
  <1>1. RelayInv => RegistryLive
    BY DEF RelayInv, HubInv
  <1> QED BY <1>1, RelayInvariant, PTL

\* While relayIDLedger has room, each identity drains at most one unit of newRelayCap's
\* budgets, for any number of callers, addresses and units.
THEOREM IdentitiesChargedOnce == Spec => []ChargedOnce
  <1>1. RelayInv => ChargedOnce
    BY DEF RelayInv, CapInv
  <1> QED BY <1>1, RelayInvariant, PTL

\* After Stop nothing of the relay runs: no xray child, no client, no hub connection.
THEOREM StopHoldsNothing == Spec => []StoppedHoldsNothing
  <1>1. RelayInv => StoppedHoldsNothing
    BY DEF RelayInv, NodeInv, StoppedHoldsNothing
  <1> QED BY <1>1, RelayInvariant, PTL

\* A foundation posture, by class or by token, never probes or joins a hub.
THEOREM FoundationStaysDirect == Spec => []FoundationNeverHub
  <1>1. RelayInv => FoundationNeverHub
    BY DEF RelayInv, NodeInv, FoundationNeverHub
  <1> QED BY <1>1, RelayInvariant, PTL
=============================================================================
