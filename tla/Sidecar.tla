------------------------------ MODULE Sidecar ------------------------------
(***************************************************************************)
(* The WSS sidecar of a relay (internal/wssbridge/sidecar.go, limits.go)   *)
(* and the connections that a CDN front makes to it for its viewers.       *)
(*                                                                         *)
(* A handler is one request goroutine.  All requests come from one viewer  *)
(* address, so the per-source counters are single numbers.  A front may    *)
(* deliver a request late, or repeat one whose answer it did not see.      *)
(***************************************************************************)
EXTENDS ReplayStore, Integers

CONSTANTS Handlers,
          MaxHandshakes, MaxSessions, SourceSessions,   \* concurrency limits
          MaxStreams, SourceStreams,
          Budget         \* a ticket's max_streams, capped per session

ASSUME SidecarAssumption ==
    /\ IsFiniteSet(Handlers) /\ None \notin Handlers /\ Budget \in Nat
    /\ {SourceSessions, MaxStreams} \subseteq Nat

VARIABLES
    hs,       \* handler -> where it is, its ticket, stream budget and streams
    slots,    \* the semaphores and the source's usage
    link,     \* handler -> its connection to the client
    post,     \* ticket -> requests with it that are under way, and their front
    dial,     \* the client's handshake: its ticket and the answer to it
    grants    \* ticket -> how often it was honoured (history)

sidecarVars == <<hs, slots, link, post, dial, grants>>

\* "check": has a handshake slot; "sync": in Consume; "serve"/"used": a session
\* without and with a stream so far; "idle": its IdleGuard has expired; "drain": it
\* waits for its streams.
Free == [at |-> "free", tk |-> None, left |-> 0, live |-> 0]
NoDial == [tk |-> None, answer |-> None]

SidecarInit ==
    /\ hs = [h \in Handlers |-> Free]
    /\ slots = [hand |-> 0, sess |-> 0, src |-> 0, streams |-> 0, srcStreams |-> 0]
    /\ link = [h \in Handlers |-> "none"]
    /\ post = [t \in Tickets |-> [n |-> 0, via |-> None]] /\ dial = NoDial
    /\ grants = [t \in Tickets |-> 0]

\* A new goroutine; which of the idle names it gets is immaterial.
Idle == {h \in Handlers : hs[h].at = "free" /\ link[h] = "none"}
Spawned == IF Idle = {} THEN None ELSE CHOOSE h \in Idle : TRUE

InSession(h) == hs[h].at \in {"serve", "idle", "used"}

\* The client learns the answer unless it no longer waits for it.
Awaited(t)  == dial.tk = t /\ dial.answer = None
Reply(t, a) == dial' = IF Awaited(t) THEN [dial EXCEPT !.answer = a] ELSE dial

-----------------------------------------------------------------------------
(* Limits: operations on slots *)

\* A token bucket: refuses whenever enough requests came before.
allow == BOOLEAN

takeHandshake(s) == [s EXCEPT !.hand = @ + 1]
dropHandshake(s) == [s EXCEPT !.hand = @ - 1]

\* Usage of the source, then the semaphore: what was acquired is released when the
\* next is not to be had.
sessionRoom       == slots.src < SourceSessions /\ slots.sess < MaxSessions
acquireSession(s) == [s EXCEPT !.src = @ + 1, !.sess = @ + 1]
releaseSession(s) == [s EXCEPT !.src = @ - 1, !.sess = @ - 1]

streamRoom       == slots.streams < MaxStreams /\ slots.srcStreams < SourceStreams
acquireStream(s) == [s EXCEPT !.streams = @ + 1, !.srcStreams = @ + 1]
releaseStream(s) == [s EXCEPT !.streams = @ - 1, !.srcStreams = @ - 1]

-----------------------------------------------------------------------------
(* handleBridge *)

\* The front is known by the token it adds to what it forwards.
authenticateOrigin(t) == post[t].via

\* A request a front forwards is well formed.  It is turned away by a rate limit, or
\* for want of a handshake slot.
handleBridge(h, t) ==
    /\ store # "down" /\ post[t].n > 0 /\ h = Spawned
    /\ post' = [post EXCEPT ![t].n = @ - 1]
    /\ \E allowed \in allow :
         IF allowed /\ slots.hand < MaxHandshakes
         THEN /\ hs' = [hs EXCEPT ![h] = [Free EXCEPT !.at = "check", !.tk = t]]
              /\ slots' = takeHandshake(slots) /\ UNCHANGED dial
         ELSE Reply(t, "refused") /\ UNCHANGED <<hs, slots>>
    /\ Smooth /\ UNCHANGED <<replayVars, link, grants>>

\* Mutant: the handshake slot is not released.
TurnedKeepsSlot(h) ==
    /\ hs' = [hs EXCEPT ![h] = Free] /\ UNCHANGED slots
    /\ Reply(hs[h].tk, "refused")
    /\ UNCHANGED <<link, post, grants>>

\* The deferred releases of a handler that answers with an error.
Turned(h) ==
    /\ hs' = [hs EXCEPT ![h] = Free] /\ slots' = dropHandshake(slots)
    /\ Reply(hs[h].tk, "refused")
    /\ UNCHANGED <<link, post, grants>>

\* The front that authenticated itself is the one the ticket names.
Valid(h) == Verify(hs[h].tk, authenticateOrigin(hs[h].tk))

\* The ticket is refused, used, or cannot be recorded; or the client hung up.
Rejected(h) ==
    /\ hs[h].at = "check"
    /\ \/ (~Valid(h) \/ ~Awaited(hs[h].tk)) /\ UNCHANGED replayVars /\ Smooth
       \/ Valid(h) /\ ConsumeRefused(hs[h].tk) /\ Smooth
       \/ Valid(h) /\ WriteFails(hs[h].tk) /\ GoesWrong
    /\ Turned(h)

Consume(h) ==
    /\ hs[h].at = "check" /\ Valid(h)
    /\ Write(hs[h].tk)
    /\ hs' = [hs EXCEPT ![h].at = "sync"]
    /\ Smooth /\ UNCHANGED <<slots, link, post, dial, grants>>

ConsumeFails(h) == hs[h].at = "sync" /\ SyncFails /\ Turned(h) /\ GoesWrong

\* The ticket is spent whatever comes next: no room, a failing upgrade, a session.
\* The slots of a session are taken one after the other, and those taken are given
\* back when the next is not to be had: one step, with the same net effect.
Consumed(h) ==
    /\ hs[h].at = "sync" /\ Sync /\ Smooth
    /\ grants' = [grants EXCEPT ![hs[h].tk] = @ + 1]
    /\ \E upgraded \in BOOLEAN :
         IF sessionRoom /\ upgraded
         THEN /\ hs' = [hs EXCEPT ![h].at = "serve", ![h].left = Budget]
              /\ slots' = acquireSession(dropHandshake(slots))
              /\ link' = [link EXCEPT ![h] = IF Awaited(hs[h].tk) THEN "open" ELSE "gone"]
              /\ Reply(hs[h].tk, h) /\ UNCHANGED post
         ELSE /\ hs' = [hs EXCEPT ![h] = Free] /\ slots' = dropHandshake(slots)
              /\ Reply(hs[h].tk, "refused") /\ UNCHANGED <<link, post>>

-----------------------------------------------------------------------------
(* serveSession *)

\* The session is closed, with a close frame if the client is still there.
End(h) ==
    /\ hs' = [hs EXCEPT ![h].at = "drain", ![h].left = 0]
    /\ link' = [link EXCEPT ![h] = IF @ = "open" THEN "closed" ELSE @]

\* IdleGuard.Start.
Start(h) == hs[h].at # "idle"

\* A stream is accepted.  The ticket's budget is never replenished: it is charged
\* even for a stream that is then refused for want of a slot, or because the guard
\* has expired.  Its slots are taken in one step too.
acceptStream(h) ==
    /\ InSession(h) /\ link[h] = "open"
    /\ IF hs[h].left = 0
       THEN End(h) /\ UNCHANGED slots
       ELSE /\ UNCHANGED link
            /\ IF streamRoom /\ Start(h)
               THEN /\ hs' = [hs EXCEPT ![h].at = "used", ![h].left = @ - 1,
                                        ![h].live = @ + 1]
                    /\ slots' = acquireStream(slots)
               ELSE hs' = [hs EXCEPT ![h].left = @ - 1] /\ UNCHANGED slots

\* handleStream returns: its target or the client is done, or the session closes.
handleStream(h) ==
    /\ hs[h].live > 0
    /\ hs' = [hs EXCEPT ![h].live = @ - 1]
    /\ slots' = releaseStream(slots) /\ UNCHANGED link

\* Only a session that never carried a stream expires: the first one disarms the
\* guard.  The lock is let go before the session is closed.
expire(h) ==
    /\ hs[h].at = "serve" /\ hs' = [hs EXCEPT ![h].at = "idle"]
    /\ UNCHANGED <<slots, link>>

onExpire(h) == hs[h].at = "idle" /\ End(h) /\ UNCHANGED slots

\* The session's lifetime is over, or its client is gone.
lifetimeOver(h) == InSession(h) /\ End(h) /\ UNCHANGED slots

\* wg.Wait, and the deferred releases.
Drained(h) ==
    /\ hs[h].at = "drain" /\ hs[h].live = 0
    /\ hs' = [hs EXCEPT ![h] = Free]
    /\ slots' = releaseSession(slots)
    /\ link' = [link EXCEPT ![h] = IF @ = "gone" THEN "none" ELSE @]

Session(h) ==
    /\ \/ acceptStream(h) \/ handleStream(h) \/ expire(h) \/ onExpire(h)
       \/ lifetimeOver(h) \/ Drained(h)
    /\ Smooth /\ UNCHANGED <<replayVars, post, dial, grants>>

Handshake(h) ==
    \/ \E t \in Tickets : handleBridge(h, t)
    \/ Rejected(h) \/ Consume(h) \/ ConsumeFails(h) \/ Consumed(h)

-----------------------------------------------------------------------------
\* The process dies or is stopped: every connection to it breaks.
Crash ==
    /\ GoesWrong /\ Stop
    /\ hs' = [h \in Handlers |-> Free]
    /\ slots' = [f \in DOMAIN slots |-> 0]
    /\ link' = [h \in Handlers |-> IF link[h] = "open" THEN "cut"
                                  ELSE IF link[h] = "gone" THEN "none" ELSE link[h]]
    /\ UNCHANGED <<post, dial, grants>>

\* NewSidecarHandler, with the store of the process before it.
Restart == load /\ Smooth /\ UNCHANGED sidecarVars

\* The front repeats a request.
Repeat(t) ==
    /\ GoesWrong /\ t \in Issued /\ dial.tk = t /\ post[t].n < 2
    /\ post' = [post EXCEPT ![t].n = @ + 1]
    /\ UNCHANGED <<replayVars, hs, slots, link, dial, grants>>

-----------------------------------------------------------------------------
(* What holds throughout *)

Shaking == {"check", "sync"}
InUse   == {"serve", "idle", "used", "drain"}

HandlerFields == {"at", "tk", "left", "live"}
HandlerInv ==
    DOMAIN hs = Handlers /\ \A h \in Handlers : HandlerFields \subseteq DOMAIN hs[h]

TicketTypes ==
    /\ now \in Nat /\ DOMAIN claims = Tickets /\ \A t \in Tickets : claims[t].exp \in Nat
    /\ journal \subseteq Tickets /\ index \subseteq Tickets /\ tail \in Tickets \cup {None}
    /\ store \in {"open", "broken", "down"} /\ grants \in [Tickets -> {0, 1}]
    /\ DOMAIN post = Tickets /\ \A t \in Tickets : "n" \in DOMAIN post[t] /\ post[t].n \in Nat

\* Only what the broker issued is ever presented, recorded or honoured.
Presented ==
    /\ \A t \in Tickets : post[t].n > 0 \/ grants[t] = 1 => t \in Issued
    /\ \A h \in Handlers : hs[h].at \in Shaking => hs[h].tk \in Issued

\* The record being written is that of one handler, for a ticket not honoured yet.
Recording ==
    /\ \A h \in Handlers : hs[h].at = "sync" => tail = hs[h].tk /\ store = "open"
    /\ \A h, k \in Handlers : hs[h].at = "sync" /\ hs[k].at = "sync" => h = k
    /\ tail # None => grants[tail] = 0 /\ tail \in Issued

\* A ticket that was honoured is remembered for as long as it could be presented: on
\* disk, and in the index of a store that is running.
Remembered ==
    \A t \in Tickets :
        grants[t] = 1 /\ replayUntil(t) > now =>
            t \in journal /\ (store # "down" => t \in index)

TicketInv == TicketTypes /\ HandlerInv /\ Presented /\ Recording /\ Remembered

HandlersIn(P) == {h \in Handlers : hs[h].at \in P}
LiveStreams   == {s \in Handlers \X (1 .. Budget) : s[2] <= hs[s[1]].live}

\* Every slot is that of a handler or a stream, and a handler's streams stay within
\* its ticket's budget.
SlotInv ==
    /\ HandlerInv /\ {"hand", "sess", "src", "streams", "srcStreams"} \subseteq DOMAIN slots
    /\ \A h \in Handlers :
         /\ hs[h].live \in Nat /\ hs[h].left \in Nat /\ hs[h].live + hs[h].left <= Budget
         /\ hs[h].at \in Shaking \cup InUse \cup {"free"}
         /\ hs[h].at \notin InUse => hs[h].live = 0
    /\ slots.hand = Cardinality(HandlersIn(Shaking))
    /\ slots.sess = Cardinality(HandlersIn(InUse)) /\ slots.src = slots.sess
    /\ slots.streams = Cardinality(LiveStreams) /\ slots.srcStreams = slots.streams
    /\ slots.src <= SourceSessions /\ slots.streams <= MaxStreams
=============================================================================
