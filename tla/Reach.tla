------------------------------- MODULE Reach -------------------------------
(***************************************************************************)
(* Whether a relay can be reached directly: the probe of one port          *)
(* (relayruntime/probe.go) against the hub's self-check service            *)
(* (tunnel/probe.go), and auto mode's walk over the candidate ports.       *)
(***************************************************************************)
EXTENDS Sequences, Functions, FiniteSetsExt

CONSTANTS ListenPort,               \* the configured port
          AutomaticPortCandidates,  \* the ports auto mode is given, in order
          DetectAttempts            \* bound: calls of the probe API per port

\* Without candidates of its own auto mode probes the configured port.
automaticPortCandidates ==
    LET ports == IF AutomaticPortCandidates = << >> THEN <<ListenPort>>
                 ELSE AutomaticPortCandidates
        first == {i \in DOMAIN ports : \A j \in 1 .. (i - 1) : ports[j] # ports[i]}
        nth(k) == CHOOSE i \in first : Cardinality({j \in first : j <= i}) = k
    IN  [k \in 1 .. Cardinality(first) |-> ports[nth(k)]]

CandidatePorts == Range(automaticPortCandidates)
DirectPorts == CandidatePorts \cup {ListenPort}

\* What a port of the relay's machine is good for: no nonce or listener can be
\* had; or the hub's dial back fails, is not answered, meets another device, or
\* meets the relay's own listener.
Unbindable == {"denied", "taken", "broken"}
Sites == {"no nonce"} \cup Unbindable \cup {"closed", "mute", "stranger", "open"}

\* What a call of the probe API meets: nobody, a wrong token, the rate or
\* concurrency limits, or the handler.
Gates == {0, 401, 429, 200}
World == [CandidatePorts -> [site : Sites, gates : [1 .. DetectAttempts -> Gates]]]

classifyProbeBindError(site) ==
    CASE site = "denied" -> "permission_denied"
      [] site = "taken"  -> "port_in_use"
      [] OTHER           -> "bind_failed"

\* Only the nonce, read back from the caller's own address, proves the port.
dialAndVerify(site) == site = "open"

\* ReachabilityProber.handle, and doProbe: any status but OK is an error.
handle(gate, site) ==
    [status |-> gate, reachable |-> gate = 200 /\ dialAndVerify(site)]
doProbe(gate, site) ==
    LET resp == handle(gate, site)
    IN  IF resp.status # 200 THEN "error"
        ELSE IF resp.reachable THEN "reachable" ELSE "externally_unreachable"

\* The first call that is answered decides.
ProbeDirectReachability(p) ==
    LET answered == {i \in 1 .. DetectAttempts : doProbe(p.gates[i], p.site) # "error"}
    IN  CASE p.site = "no nonce"    -> "internal_failure"
          [] p.site \in Unbindable  -> classifyProbeBindError(p.site)
          [] p.site \notin Unbindable \cup {"no nonce"} /\ answered = {} ->
                 "probe_api_unavailable"
          [] OTHER -> doProbe(p.gates[Min(answered)], p.site)

\* Direct on the first candidate that is positively reachable; a probe that
\* could not be carried out ends the walk, and tunnel is the answer.
Tunnelled == [mode |-> "tunnel", port |-> ListenPort]
Final == {"reachable", "probe_api_unavailable", "internal_failure"}
autoResolve(world) ==
    LET ports == automaticPortCandidates
        outcome(i) == ProbeDirectReachability(world[ports[i]])
        final == {i \in DOMAIN ports : outcome(i) \in Final}
        last  == Min(final)
    IN  IF final # {} /\ outcome(last) = "reachable"
        THEN [mode |-> "direct", port |-> ports[last]]
        ELSE Tunnelled

\* What the world may answer at one time or another.
Resolutions == {autoResolve(w) : w \in World}
=============================================================================
