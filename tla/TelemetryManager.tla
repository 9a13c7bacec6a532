-------------------------- MODULE TelemetryManager --------------------------
(***************************************************************************)
(* The telemetry manager (clienttelemetry/manager.go) over the outbox:     *)
(* sessions one after the other, events recorded into the outbox or, while *)
(* that is unavailable, into memory, the heartbeat loop and the flushes.   *)
(*                                                                         *)
(* up[h] is the goroutine that uploads: the heartbeat loop, a flush after  *)
(* a failover, or the terminal flush, one at a time.                       *)
(***************************************************************************)
EXTENDS Outbox

VARIABLES
    begun,  \* sessions begun so far
    sess,   \* per host: its session and how far it is
    mem,    \* per host: Manager.outbox, the in-memory queue
    up      \* per host: the uploading goroutine

managerVars == <<begun, sess, mem, up>>

Session == [id : 0..MaxSessions, at : {"none", "on", "up", "ended", "dead"}]
\* "drain" is the top of Flush's loop; "post" has a request on its way.
Upload == [at : {"idle", "drain", "post"}, via : {"store", "memory"},
           beat : {"yes", "no"}, batch : SUBSET Event]
Idle == [at |-> "idle", via |-> "store", beat |-> "no", batch |-> {}]

ManagerInit ==
    /\ begun = 0
    /\ sess = [h \in Hosts |-> [id |-> 0, at |-> "none"]]
    /\ mem = [h \in Hosts |-> <<>>]
    /\ up = [h \in Hosts |-> Idle]

Enter(h, at) == sess' = [sess EXCEPT ![h].at = at]
Active(h)    == sess[h].at \in {"on", "up"}
\* A heartbeat or flush that finds nothing to send changes nothing here, and is
\* left out.
Waiting(h)   == mem[h] # <<>> \/ box[h].events # <<>>

Go(h, point) == up' = [up EXCEPT ![h] = [Idle EXCEPT !.at = point]]
Post(h, via, beat, batch) ==
    up' = [up EXCEPT ![h] = [at |-> "post", via |-> via, beat |-> beat,
                             batch |-> batch]]

snapshotLocked(h, limit) == {mem[h][i] : i \in {j \in 1..Len(mem[h]) : j <= limit}}
Ids(events) == {e.n : e \in events}

-----------------------------------------------------------------------------
(* Recording *)

enqueueLocked(h, e) ==
    LET all == Append(mem[h], e)
    IN  /\ mem' = [mem EXCEPT ![h] = Newest(all)]
        /\ gone' = gone \cup Ids(Elems(all) \ Elems(Newest(all)))

\* Into the outbox, behind anything that waits in memory, or into memory while
\* the outbox is not available.
storeEventLocked(h, kind) ==
    LET e == [n |-> made + 1, sess |-> sess[h].id, kind |-> kind]
    IN  /\ made < MaxEvents /\ made' = made + 1
        /\ \/ /\ Available(h) /\ mem[h] = <<>>
              /\ appendLocked(h, e) /\ UNCHANGED mem
           \/ /\ Unavailable(h)
              /\ enqueueLocked(h, e) /\ UNCHANGED <<file, box, lag>>
        /\ UNCHANGED lock

Record(h) ==
    /\ Active(h) /\ made < MaxEvents
    /\ storeEventLocked(h, Kinds[made + 1])
    /\ UNCHANGED <<begun, sess, up>>

\* migrateFallbackLocked, one event: the way to the outbox is free again.
\* Recording and heartbeats start with it.
migrateFallbackLocked(h) ==
    /\ Active(h) /\ mem[h] # <<>> /\ Available(h)
    /\ appendLocked(h, Head(mem[h]))
    /\ mem' = [mem EXCEPT ![h] = Tail(@)]
    /\ UNCHANGED <<lock, made, begun, sess, up>>

-----------------------------------------------------------------------------
(* The session *)

\* A new session, with a manager of its own, once the host's last one is over; at
\* most MaxActive hosts have one.  What the old manager still had in memory is
\* lost.  Which of the hosts not yet seen comes next makes no difference.
BeginSession(h) ==
    /\ begun < MaxSessions /\ begun' = begun + 1
    /\ sess[h].at \in {"none", "ended"} /\ up[h].at = "idle"
    /\ Cardinality({g \in Hosts : Active(g)}) < MaxActive
    /\ sess[h].at = "none" => h = CHOOSE g \in Hosts : sess[g].at = "none"
    /\ sess' = [sess EXCEPT ![h] = [id |-> begun + 1, at |-> "on"]]
    /\ gone' = gone \cup Ids(Elems(mem[h])) /\ mem' = [mem EXCEPT ![h] = <<>>]
    /\ UNCHANGED <<up, file, lock, box, lag, made, luck>>

\* Connected: what was recorded so far is flushed, then the loop starts.
MarkConnected(h) ==
    /\ sess[h].at = "on" /\ up[h].at = "idle"
    /\ Enter(h, "up") /\ Go(h, IF Waiting(h) THEN "drain" ELSE "idle")
    /\ UNCHANGED <<begun, mem, outboxVars>>

\* The flush after a failover.
Flush(h) ==
    /\ sess[h].at = "up" /\ up[h].at = "idle" /\ Waiting(h)
    /\ Go(h, "drain")
    /\ UNCHANGED <<begun, sess, mem, outboxVars>>

\* The heartbeat loop is joined, connection_ended recorded (while the bound on
\* events allows), and terminalFlush drains once.
EndSession(h) ==
    /\ Active(h) /\ up[h].at = "idle"
    /\ IF made < MaxEvents THEN storeEventLocked(h, "ended")
       ELSE UNCHANGED <<mem, outboxVars>>
    /\ Enter(h, "ended") /\ Go(h, "drain")
    /\ UNCHANGED begun

\* The process ends at any point, in the middle of an append included.
Crash(h) ==
    /\ GoesWrong /\ sess[h].at \in {"on", "up", "ended"}
    /\ Enter(h, "dead")
    /\ file' \in {file} \cup (IF Available(h)
                              THEN {[Appended(file, Torn) EXCEPT !.tail = "torn"]}
                              ELSE {})
    /\ box' = [box EXCEPT ![h] = [NewOutbox EXCEPT !.closed = "yes"]]
    /\ lock' = IF lock = h THEN None ELSE lock
    /\ gone' = gone \cup Ids((Elems(box[h].events) \cup Elems(mem[h])) \ OnDisk(file'))
    /\ mem' = [mem EXCEPT ![h] = <<>>]
    /\ up' = [up EXCEPT ![h] = Idle]
    /\ UNCHANGED <<begun, lag, made>>

-----------------------------------------------------------------------------
(* Uploading *)

\* Mutant: whatever heads the queue rides along with the heartbeat.
SendHeartbeatAny(h) ==
    /\ Post(h, "store", "yes", outboxUploadBatch(box[h].events, BatchSize - 1))
    /\ UNCHANGED <<box, file, lag, luck, gone>>

\* SendHeartbeat: events of the same session at the head of the queue ride
\* along.  The heartbeat itself is never stored.
SendHeartbeat(h) ==
    LET q   == box[h].events
        own == q # <<>> /\ q[1].sess = sess[h].id
        big == IF own THEN Oversized(q, BatchSize - 1) ELSE {}
    IN  /\ Post(h, "store", "yes",
                IF own THEN outboxUploadBatch(q, BatchSize - 1) ELSE {})
        /\ removeSent(h, big) /\ gone' = gone \cup Ids(big)

\* Heartbeat: through the outbox once memory has been migrated; with what
\* waits in memory when the outbox takes nothing.
Heartbeat(h) ==
    /\ sess[h].at = "up" /\ up[h].at = "idle" /\ Waiting(h)
    /\ \/ Available(h) /\ mem[h] = <<>> /\ SendHeartbeat(h)
       \/ /\ Unavailable(h) /\ mem[h] # <<>>
          /\ Post(h, "memory", "yes", snapshotLocked(h, BatchSize - 1))
          /\ UNCHANGED <<box, file, lag, gone>>
    /\ UNCHANGED <<lock, made, begun, sess, mem>>

\* Flush's second loop, over the queue in memory.
FlushMemory(h) ==
    IF mem[h] = <<>> THEN Go(h, "idle")
    ELSE Post(h, "memory", "no", snapshotLocked(h, BatchSize))

\* Mutant: a flush sends full batches only.
FlushNextBatchFull(h) ==
    /\ up[h].at = "drain"
    /\ LET q     == box[h].events
           batch == outboxUploadBatch(q, BatchSize)
       IN  IF ~Available(h) \/ Cardinality(batch) < BatchSize
           THEN Go(h, "idle") ELSE Post(h, "store", "no", batch)
    /\ UNCHANGED <<box, file, lag, luck, gone, lock, made, begun, sess, mem>>

\* FlushNextBatch: an event no request can carry is discarded.  A closed outbox
\* ends the flush; an empty or unavailable one leaves it to the second loop.
FlushNextBatch(h) ==
    /\ up[h].at = "drain"
    /\ LET q     == box[h].events
           big   == Oversized(q, BatchSize)
           batch == outboxUploadBatch(q, BatchSize)
       IN  \/ /\ box[h].closed = "yes"
              /\ Go(h, "idle") /\ UNCHANGED <<box, file, lag, luck, gone>>
           \/ /\ box[h].closed = "no" /\ Unavailable(h)
              /\ FlushMemory(h) /\ UNCHANGED <<box, file, lag, gone>>
           \/ /\ Available(h) /\ q = <<>>
              /\ FlushMemory(h) /\ UNCHANGED <<box, file, lag, luck, gone>>
           \/ /\ Available(h) /\ q # <<>>
              /\ IF batch = {} THEN Go(h, "drain") ELSE Post(h, "store", "no", batch)
              /\ removeSent(h, big) /\ gone' = gone \cup Ids(big)
    /\ UNCHANGED <<lock, made, begun, sess, mem>>

\* The answer to a request.  A batch that was sent leaves its queue; one that
\* the broker refuses for good is discarded, unless a heartbeat carried it; any
\* other error ends the flush and leaves the queue to the next one.
Answered(h, answer) ==
    LET u       == up[h]
        discard == answer = "rejected" /\ u.via = "store" /\ u.beat = "no"
        done    == answer = "ok" \/ discard
    IN  /\ IF done /\ u.via = "store" THEN removeSent(h, u.batch)
           ELSE UNCHANGED <<box, file, lag>> /\ (answer # "failed" => Smooth)
        /\ mem' = IF done /\ u.via = "memory"
                  THEN [mem EXCEPT ![h] = Without(@, u.batch)] ELSE mem
        /\ gone' = IF discard THEN gone \cup Ids(u.batch) ELSE gone
        /\ Go(h, IF answer = "ok" /\ (u.via = "store" \/ u.batch # {})
                 THEN "drain" ELSE "idle")
        /\ UNCHANGED <<lock, made, begun, sess>>
=============================================================================
