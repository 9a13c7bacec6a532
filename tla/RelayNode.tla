----------------------------- MODULE RelayNode -----------------------------
(***************************************************************************)
(* The volunteer relay (relayruntime/engine) and its tunnel client         *)
(* (internal/tunnel/client.go): Start, Stop and UpdateConfig, the          *)
(* supervisor goroutine that runs one session after the other, the direct  *)
(* session that registers itself, and the tunnel session with its client   *)
(* goroutine and the auto-mode watcher, against the hub and the broker.    *)
(***************************************************************************)
EXTENDS Hub, Reach

CONSTANTS Node,     \* the relay, as a caller of the broker
          Id,       \* its identity
          Home,     \* the endpoint of its direct sessions, per port
          Configs   \* the configurations it may be given

\* What a configuration says about transport and class; withDefaults is applied.
Config == [mode : {"auto", "direct", "tunnel"}, hub : {"set", "unset"},
           cls : {"", "volunteer", "foundation"}, token : {"none", "foundation"},
           fronts : {"none", "set"}]

ASSUME NodeAssumption ==
    /\ Node \in Callers \ Sess /\ Id \in Ids /\ Home \in [DirectPorts -> Endpoints \ Ports]
    /\ Configs \subseteq Config

VARIABLES
    cfg,     \* Engine.cfg
    eng,     \* Engine.cancel: "off", "live", or "cancelled"
    phase,   \* Engine.phase
    run,     \* where the supervisor goroutine is
    why,     \* why a tunnel session is being wound up
    spot,    \* the port of a direct session
    xray,    \* the xray child
    client,  \* where the tunnel client goroutine is
    conn     \* the hub session it holds a connection to

nodeVars == <<cfg, eng, phase, run, why, spot, xray, client, conn>>
vars     == <<directoryVars, hubVars, nodeVars>>

Phases == {"idle", "starting", "probing", "registering", "online", "retrying",
           "stopping"}
DirectPoints == {"enroll", "serve", "beat", "renew"}
RunPoints == {"off", "begin", "probe", "hosted", "join", "backoff"} \cup DirectPoints
Reasons == {"none", "failed", "restart"}
ClientPoints == {"off", "dial", "hello", "up", "backoff"}

-----------------------------------------------------------------------------
(* Configuration *)

resolvesToDirect(c) == c.mode = "direct" \/ (c.mode = "auto" /\ c.hub = "unset")

\* A foundation token forces foundation class and direct mode.
applyFoundationTokenPosture(c) ==
    IF c.token = "none" THEN c
    ELSE [c EXCEPT !.cls = "foundation", !.mode = "direct"]
Contradictory(c) == c.token = "foundation" /\ c.cls = "volunteer"

requireDirectModeForFoundation(c) == c.cls = "foundation" => resolvesToDirect(c)

\* WSS fronts belong to foundation relays that serve directly.
validateWSSFronts(c) ==
    c.fronts = "set" => c.cls = "foundation" /\ resolvesToDirect(c)

\* NoConfig where the code returns an error; an empty class is volunteer.
NoConfig == [mode |-> "error", hub |-> "unset", cls |-> "", token |-> "none",
             fronts |-> "none"]
effectiveConfig(c) ==
    LET p == applyFoundationTokenPosture(c)
        n == [p EXCEPT !.cls = IF @ = "" THEN "volunteer" ELSE @]
    IN  IF /\ ~Contradictory(c)
           /\ requireDirectModeForFoundation(n) /\ validateWSSFronts(n)
        THEN n ELSE NoConfig

validate(c) ==
    LET e == effectiveConfig(c)
    IN  e # NoConfig /\ ~(e.mode = "tunnel" /\ e.hub = "unset")

-----------------------------------------------------------------------------
Init ==
    /\ DirectoryInit /\ HubInit
    /\ cfg \in Configs
    /\ eng = "off" /\ phase = "idle" /\ run = "off" /\ why = "none"
    /\ spot = ListenPort
    /\ xray = "off" /\ client = "off" /\ conn = None

Run(l)   == run' = l
Phase(p) == phase' = p
Stopped  == eng = "cancelled"

\* sessionCtx of a tunnel session: cancelled by the user or by its own end.
SessionCancelled == Stopped \/ run # "hosted"

\* The registration of a direct session on a port.
directRequest(p) == RegisterCall(Id, Home[p], effectiveConfig(cfg).cls)

-----------------------------------------------------------------------------
(* Start, Stop, UpdateConfig: the user *)

\* A configuration that does not validate is refused; a running engine is left
\* alone.
Start ==
    /\ eng = "off" /\ validate(cfg)
    /\ eng' = "live" /\ Run("begin")
    /\ UNCHANGED <<cfg, phase, why, spot, xray, client, conn, hubVars, directoryVars>>

\* Stop announces itself, cancels and blocks until the supervisor is gone.
Stop ==
    /\ GoesWrong /\ eng = "live"
    /\ Phase("stopping") /\ eng' = "cancelled"
    /\ UNCHANGED <<cfg, run, why, spot, xray, client, conn, hubVars, brokerVars, call,
                   lease>>

UpdateConfig ==
    /\ GoesWrong /\ eng = "off"
    /\ cfg' \in Configs
    /\ UNCHANGED <<eng, phase, run, why, spot, xray, client, conn, hubVars,
                   brokerVars, call, lease>>

-----------------------------------------------------------------------------
(* run and runSession: the supervisor *)

\* A session is over, xray reaped: a child that was killed is taken to be gone
\* within the last second that stopProcess waits for it.  The streams of the
\* tunnel that the client has handed on are not joined, and not modelled.  A
\* cancelled supervisor is gone; after a deliberate restart it begins again at
\* once, otherwise after a pause.
SessionOver(w) ==
    /\ xray' = "off" /\ why' = "none" /\ spot' = ListenPort
    /\ lease' = [lease EXCEPT ![Node] = "none"]
    /\ IF Stopped
       THEN Run("off") /\ Phase("idle") /\ eng' = "off"
       ELSE /\ UNCHANGED eng
            /\ IF w = "restart" THEN Run("begin") /\ Phase("starting")
               ELSE Run("backoff") /\ Phase("retrying")

Backoff ==
    /\ run = "backoff"
    /\ IF Stopped THEN SessionOver("failed")
       ELSE Run("begin") /\ UNCHANGED <<eng, phase, why, spot, xray, lease>>
    /\ UNCHANGED <<cfg, client, conn, hubVars, call, brokerVars, luck>>

\* startXray, and the observer on the public port; then the registration.
StartDirect(p) ==
    /\ ~Stopped /\ call[Node].at = "idle"
    /\ xray' = "up" /\ Phase("registering") /\ Run("enroll")
    /\ spot' = p /\ Send(Node, directRequest(p))
    /\ UNCHANGED <<eng, why, client, lease, luck>>

\* startXray, then the client goroutine.
StartTunnel ==
    /\ ~Stopped
    /\ xray' = "up" /\ Phase("registering") /\ Run("hosted")
    /\ client' = "dial"
    /\ UNCHANGED <<eng, why, spot, call, lease, luck>>

\* Preparing the identity, starting xray or binding the port fails, as starting
\* it under a cancelled context always does.
StartFails ==
    /\ run \in {"begin", "probe"}
    /\ IF Stopped THEN UNCHANGED luck ELSE GoesWrong
    /\ SessionOver("failed")
    /\ UNCHANGED <<cfg, client, conn, hubVars, call, brokerVars>>

\* Mutant: the session trusts the configuration that Start validated.
runSessionRaw ==
    /\ run = "begin"
    /\ \/ /\ cfg.mode = "auto" /\ cfg.hub = "set"
          /\ Run("probe") /\ Phase("probing")
          /\ UNCHANGED <<eng, why, spot, xray, client, call, lease, luck>>
       \/ resolvesToDirect(cfg) /\ StartDirect(ListenPort)
       \/ cfg.mode = "tunnel" /\ StartTunnel
    /\ UNCHANGED <<cfg, conn, hubVars, brokerVars>>

\* runSession re-derives the effective configuration and picks the transport.
runSession ==
    /\ run = "begin"
    /\ LET c == effectiveConfig(cfg)
       IN  \/ /\ c.mode = "auto" /\ c.hub = "set"
              /\ Run("probe") /\ Phase("probing")
              /\ UNCHANGED <<eng, why, spot, xray, client, call, lease, luck>>
           \/ resolvesToDirect(c) /\ StartDirect(ListenPort)
           \/ c.mode = "tunnel" /\ StartTunnel
    /\ UNCHANGED <<cfg, conn, hubVars, brokerVars>>

\* The probe is over: direct on the port it confirmed, else tunnel.
Resolved ==
    /\ run = "probe"
    /\ \E r \in Resolutions : IF r.mode = "direct" THEN StartDirect(r.port)
                              ELSE StartTunnel
    /\ UNCHANGED <<cfg, conn, hubVars, brokerVars>>

XrayDies ==
    /\ GoesWrong /\ xray = "up"
    /\ xray' = "dead"
    /\ UNCHANGED <<cfg, eng, phase, run, why, spot, client, conn, hubVars, brokerVars,
                   call, lease>>

-----------------------------------------------------------------------------
(* runDirectSession *)

frame == <<cfg, client, conn, hubVars, brokerVars>>
Keeps == UNCHANGED <<eng, phase, why, spot, xray>>

\* verifyRegisteredDescriptor: a broker that does not attest the foundation
\* class or echo the fronts ends the session.
Unverified ==
    /\ GoesWrong /\ effectiveConfig(cfg).cls = "foundation"
    /\ SessionOver("failed")
Verified ==
    /\ lease' = [lease EXCEPT ![Node] = call[Node].tok]
    /\ Run("serve") /\ UNCHANGED <<eng, why, spot, xray, luck>>

\* registerWithRetry: a few attempts, then the session fails.
Enrolled ==
    /\ run = "enroll" /\ Answered(Node) /\ ~Stopped
    /\ IF call[Node].at = "ok"
       THEN Taken(Node) /\ ((Verified /\ Phase("online")) \/ Unverified)
       ELSE /\ UNCHANGED luck
            /\ \/ Send(Node, directRequest(spot)) /\ Keeps /\ UNCHANGED <<run, lease>>
               \/ Taken(Node) /\ SessionOver("failed")
    /\ UNCHANGED frame

DirectTick ==
    /\ run = "serve" /\ ~Stopped
    /\ Send(Node, HeartbeatCall(Id, lease[Node], effectiveConfig(cfg).cls))
    /\ Run("beat")
    /\ Keeps /\ UNCHANGED <<lease, luck, frame>>

\* Mutant: every heartbeat error waits for the next tick.
DirectBeatenDeaf ==
    /\ run = "beat" /\ Answered(Node) /\ ~Stopped
    /\ Taken(Node) /\ Run("serve")
    /\ Keeps /\ UNCHANGED <<lease, luck, frame>>

\* A lost registration is signed and registered afresh; other errors wait.
DirectBeaten ==
    /\ run = "beat" /\ Answered(Node) /\ ~Stopped
    /\ IF call[Node].at = "notfound"
       THEN Send(Node, directRequest(spot)) /\ Run("renew")
       ELSE Taken(Node) /\ Run("serve")
    /\ Keeps /\ UNCHANGED <<lease, luck, frame>>

\* One attempt per heartbeat; a failure keeps the old descriptor.
Renewed ==
    /\ run = "renew" /\ Answered(Node) /\ ~Stopped
    /\ Taken(Node)
    /\ IF call[Node].at = "ok" THEN (Verified /\ UNCHANGED phase) \/ Unverified
       ELSE Run("serve") /\ Keeps /\ UNCHANGED <<lease, luck>>
    /\ UNCHANGED frame

\* The context ends the session loop and any request it waits for.
DirectStopped ==
    /\ run \in DirectPoints /\ Stopped
    /\ Abandon(Node) /\ SessionOver("failed")
    /\ UNCHANGED <<luck, frame>>

\* xray exits, the listener fails, or the public address moves.
DirectBroken ==
    /\ run = "serve"
    /\ \/ xray = "dead" /\ SessionOver("failed") /\ UNCHANGED luck
       \/ GoesWrong /\ \E w \in {"failed", "restart"} : SessionOver(w)
    /\ UNCHANGED <<call, frame>>

-----------------------------------------------------------------------------
(* runTunnelSession and tunnel.Client *)

\* The session's select is left: the client is cancelled and then joined.
Leaves(w) ==
    /\ run = "hosted"
    /\ why' = w /\ Run("join")
    /\ UNCHANGED <<cfg, eng, phase, spot, xray, client, conn, hubVars, brokerVars, call,
                   lease>>

\* Stopped, or xray gone.
HostedEnds == (Stopped \/ xray = "dead") /\ Leaves("failed") /\ UNCHANGED luck

\* Auto mode probes again from time to time and changes over when the relay is
\* directly reachable after all.
watchForModeChange ==
    /\ effectiveConfig(cfg).mode = "auto" /\ ~Stopped
    /\ \E r \in Resolutions : r.mode # "tunnel"
    /\ GoesWrong /\ Leaves("restart")

\* Mutant: the client goroutine is not joined.
JoinEarly ==
    /\ run = "join"
    /\ SessionOver(why)
    /\ UNCHANGED <<cfg, client, conn, hubVars, call, brokerVars, luck>>

\* Client and watcher joined, xray reaped.
Join ==
    /\ run = "join" /\ client = "off"
    /\ SessionOver(why)
    /\ UNCHANGED <<cfg, client, conn, hubVars, call, brokerVars, luck>>

clientFrame == <<cfg, eng, run, why, spot, xray>>

\* runOnce ends.  Run tells OnDisconnected and waits, unless it was cancelled.
Disconnected ==
    /\ conn' = None
    /\ IF SessionCancelled THEN client' = "off" /\ UNCHANGED phase
       ELSE client' = "backoff" /\ Phase("registering")
    /\ UNCHANGED <<clientFrame, hubVars, brokerVars, call, lease>>

\* dial and HELLO, down to the port the hub allocates.  Which of the free
\* sessions stands for the new connection makes no difference.
Dial ==
    /\ client = "dial" /\ ~SessionCancelled
    /\ FreeSessions # {}
    /\ LET s == CHOOSE t \in FreeSessions : TRUE
       IN  Allocate(s, Id) /\ conn' = s
    /\ client' = "hello"
    /\ UNCHANGED <<phase, clientFrame>>

DialFails ==
    /\ client = "dial"
    /\ IF SessionCancelled THEN UNCHANGED luck ELSE GoesWrong
    /\ Disconnected

\* Reading the ack is not interrupted by the context, so OnRegistered may come
\* after Stop.
OnRegistered ==
    /\ client = "hello" /\ pc[conn] = "run" /\ conn \in open
    /\ client' = "up" /\ Phase("online")
    /\ UNCHANGED <<conn, clientFrame, hubVars, directoryVars>>

\* The hub refuses, the handshake times out, the session dies or is cancelled.
HubGone == \/ pc[conn] \in {"free", "remove"}
           \/ pc[conn] = "run" /\ conn \notin open
ConnectionLost ==
    /\ client \in {"hello", "up"}
    /\ IF HubGone \/ (client = "up" /\ SessionCancelled)
       THEN UNCHANGED luck ELSE GoesWrong
    /\ Disconnected

Reconnect ==
    /\ client = "backoff"
    /\ client' = IF SessionCancelled THEN "off" ELSE "dial"
    /\ UNCHANGED <<phase, conn, clientFrame, hubVars, directoryVars>>

=============================================================================
