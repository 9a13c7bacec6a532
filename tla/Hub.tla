-------------------------------- MODULE Hub --------------------------------
(***************************************************************************)
(* The relay hub (internal/tunnel): control connections of relays behind   *)
(* NAT, the public port and broker registration each of them gets, the     *)
(* heartbeat goroutine that keeps or renews it, and the registry by relay  *)
(* id.                                                                     *)
(*                                                                         *)
(* A session is one control connection and later its tunnel; its requests  *)
(* to the broker are those of caller s.  A session whose control           *)
(* connection is free may be used for the next one.                        *)
(***************************************************************************)
EXTENDS Directory

CONSTANTS Sess,        \* concurrent control connections
          Ports        \* the hub's public endpoints

ASSUME HubAssumption ==
    /\ Sess \subseteq Callers /\ Ports \subseteq Endpoints

VARIABLES
    pc,        \* per session: where handleControl is
    beat,      \* per session: where heartbeatLoop is
    hello,     \* per session: the relay id its HELLO proves
    port,      \* per session: its public port, with the listener on it
    open,      \* sessions whose yamux session and run context are open
    inUse,     \* the allocator's ports
    registry   \* relay id -> tunnel

hubVars == <<pc, beat, hello, port, open, inUse, registry>>

\* Steps that touch only their goroutine's own state are taken together with
\* the one before or after them that others can see.
Points     == {"free", "register", "run", "remove"}
BeatPoints == {"off", "idle", "wait", "rewait"}

HubInit ==
    /\ pc = [s \in Sess |-> "free"] /\ beat = [s \in Sess |-> "off"]
    /\ hello = [s \in Sess |-> None] /\ port = [s \in Sess |-> None]
    /\ open = {} /\ inUse = {} /\ registry = [i \in Ids |-> None]

Goto(s, l) == pc' = [pc EXCEPT ![s] = l]
Beat(s, l) == beat' = [beat EXCEPT ![s] = l]

\* The request every registration of a session carries, with the proof of its
\* HELLO: fresh at first, stored from then on.
registerRequest(id, p, proof) ==
    [RegisterCall(id, p, "volunteer") EXCEPT !.proof = proof]

-----------------------------------------------------------------------------
(* handleControl *)

FreeSessions == {s \in Sess : pc[s] = "free" /\ call[s].at = "idle"}

\* A HELLO from relay id that passes the version and token checks gets a port,
\* a listener on it, and is registered.  Allocate goes round the range and skips
\* ports in use or not bindable at the moment; which free port comes out makes
\* no difference.
\* A rejection closes the connection and leaves nothing behind.
Allocate(s, id) ==
    /\ s \in FreeSessions
    /\ Ports \ inUse # {}
    /\ LET p == CHOOSE q \in Ports \ inUse : TRUE
       IN  /\ port' = [port EXCEPT ![s] = p]
           /\ inUse' = inUse \cup {p}
           /\ Send(s, registerRequest(id, p, "signed"))
    /\ hello' = [hello EXCEPT ![s] = id]
    /\ Goto(s, "register")
    /\ UNCHANGED <<beat, open, registry, brokerVars, lease, luck>>

\* Mutant: the port stays allocated.
GiveUpKeepsPort(s) ==
    /\ Goto(s, "free")
    /\ port' = [port EXCEPT ![s] = None]
    /\ hello' = [hello EXCEPT ![s] = None]
    /\ UNCHANGED <<beat, open, inUse, registry, lease>>

\* Any failure before the tunnel runs: listener closed, port released.
GiveUp(s) ==
    /\ Goto(s, "free")
    /\ inUse' = inUse \ {port[s]}
    /\ port' = [port EXCEPT ![s] = None]
    /\ hello' = [hello EXCEPT ![s] = None]
    /\ UNCHANGED <<beat, open, registry, lease>>

addTunnel(s, id) == registry' = [registry EXCEPT ![id] = s]

\* Registered: the ack is written, the yamux session opens, the tunnel is
\* published without asking who held the id, and run starts.
Established(s) ==
    /\ pc[s] = "register" /\ call[s].at = "ok"
    /\ Taken(s) /\ lease' = [lease EXCEPT ![s] = call[s].tok]
    /\ addTunnel(s, hello[s])
    /\ Goto(s, "run") /\ Beat(s, "idle") /\ open' = open \cup {s}
    /\ UNCHANGED <<hello, port, inUse, brokerVars, luck>>

NotRegistered(s) ==
    /\ pc[s] = "register" /\ call[s].at \in Replies \ {"ok"}
    /\ Taken(s) /\ GiveUp(s)
    /\ UNCHANGED <<brokerVars, luck>>

\* The ack cannot be written or yamux fails: the broker row is left behind.
AckFails(s) ==
    /\ pc[s] = "register" /\ call[s].at = "ok"
    /\ Taken(s) /\ GiveUp(s)
    /\ UNCHANGED brokerVars

-----------------------------------------------------------------------------
(* tunnel.run *)

\* The relay disconnects, its death is detected, or the hub shuts down; the
\* watcher goroutine cancels the context and closes the listener.
SessionCloses(s) ==
    /\ s \in open
    /\ open' = open \ {s}
    /\ UNCHANGED <<pc, beat, hello, port, inUse, registry, brokerVars, call, lease>>

\* The accept loop is over and the heartbeat goroutine joined, whatever request
\* it was waiting for; handleControl releases the port.
Release(s) ==
    /\ pc[s] = "run" /\ s \notin open
    /\ Goto(s, "remove") /\ Beat(s, "off") /\ Abandon(s)
    /\ inUse' = inUse \ {port[s]} /\ port' = [port EXCEPT ![s] = None]
    /\ UNCHANGED <<hello, open, registry, brokerVars, lease, luck>>

\* Mutant: the entry is left to the next session.
removeTunnelNever(s, id) == UNCHANGED registry

\* removeTunnel deletes only the caller's own entry.
removeTunnel(s, id) ==
    registry' = [registry EXCEPT ![id] = IF @ = s THEN None ELSE @]

Removal(s) ==
    /\ pc[s] = "remove"
    /\ removeTunnel(s, hello[s])
    /\ Goto(s, "free")
    /\ hello' = [hello EXCEPT ![s] = None]
    /\ lease' = [lease EXCEPT ![s] = "none"]
    /\ UNCHANGED <<beat, port, open, inUse, call, brokerVars, luck>>

-----------------------------------------------------------------------------
(* heartbeatLoop *)

Tick(s) ==
    /\ beat[s] = "idle" /\ s \in open
    /\ Send(s, HeartbeatCall(hello[s], lease[s], "volunteer"))
    /\ Beat(s, "wait")
    /\ UNCHANGED <<pc, hello, port, open, inUse, registry, brokerVars, lease, luck>>

\* Any answer but not-found, errors included, waits for the next tick.
Beaten(s) ==
    /\ beat[s] = "wait" /\ call[s].at \in Replies \ {"notfound"}
    /\ Taken(s) /\ Beat(s, "idle")
    /\ UNCHANGED <<pc, hello, port, open, inUse, registry, brokerVars, lease, luck>>

\* claimTunnel takes an id that is free or already ours; losing it means that a
\* newer session took over, and this one retires.
MayClaim(s, id) == registry[id] \in {None, s}
claimTunnel(s, id) ==
    IF MayClaim(s, id)
    THEN addTunnel(s, id) /\ UNCHANGED open
    ELSE open' = open \ {s} /\ UNCHANGED registry

\* handleRegistrationLost: retire, or register again with the stored request.
handleRegistrationLost(s) ==
    /\ beat[s] = "wait" /\ call[s].at = "notfound"
    /\ claimTunnel(s, hello[s])
    /\ IF MayClaim(s, hello[s])
       THEN /\ Send(s, registerRequest(hello[s], port[s], "stored"))
            /\ Beat(s, "rewait")
       ELSE Taken(s) /\ Beat(s, "idle")
    /\ UNCHANGED <<pc, hello, port, inUse, brokerVars, lease, luck>>

\* reregister, on the broker's answer: take over the new token and claim the id
\* again.  A proof that aged out recycles the session.
reregister(s) ==
    /\ beat[s] = "rewait" /\ Answered(s)
    /\ Taken(s) /\ Beat(s, "idle")
    /\ \/ /\ call[s].at = "ok"
          /\ lease' = [lease EXCEPT ![s] = call[s].tok]
          /\ claimTunnel(s, hello[s])
       \/ /\ call[s].at = "expired"
          /\ open' = open \ {s} /\ UNCHANGED <<lease, registry>>
       \/ /\ call[s].at \notin {"ok", "expired"}
          /\ UNCHANGED <<open, lease, registry>>
    /\ UNCHANGED <<pc, hello, port, inUse, brokerVars, luck>>

-----------------------------------------------------------------------------
HubStep(s) ==
    \/ Established(s) \/ NotRegistered(s) \/ Release(s) \/ Removal(s)
    \/ Tick(s) \/ Beaten(s) \/ handleRegistrationLost(s) \/ reregister(s)
=============================================================================
