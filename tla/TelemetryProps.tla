--------------------------- MODULE TelemetryProps ---------------------------
(* What the telemetry path promises. *)
EXTENDS Telemetry

\* The file holds what its owner has queued, in order and with a terminated
\* last line, unless a write failed and no rewrite has succeeded since; no
\* other host's late commit disturbs it
\* (appendLocked, loadLocked's repair, removeSent after Close).
FileHoldsCache ==
    \A h \in Hosts : Available(h) /\ lag[h] = "no" =>
        /\ lock = h /\ file.tail = "clean"
        /\ Len(file.lines) = box[h].lines
        /\ \E k \in 0..Len(file.lines) :
             SubSeq(file.lines, k + 1, Len(file.lines)) = box[h].events

\* The events that still wait to be sent.
Unsent ==
    OnDisk(file) \cup (UNION {Elems(mem[h]) : h \in Hosts})
                 \cup (UNION {Elems(box[h].events) : h \in {g \in Hosts : Available(g)}})
\* The numbers of those that reached the broker.
Received ==
    Elems(pending) \cup Elems(taking) \cup stored \cup Elems(log) \cup wiped \cup shed

\* No event goes missing: it waits in a queue, has reached the sink, or was
\* given up for a reason the code states; and Postgres counts it once however
\* often it was sent
\* (migrateFallbackLocked, removeSent, flush, insertMetric).
Accounted ==
    \A n \in 1..made :
        /\ n \in gone \cup Ids(Unsent) \cup Received
        /\ backend = "postgres" => counted[n] <= 1

\* A request speaks for one session: brokerapi refuses mixed ones
\* (outboxUploadBatch, SendHeartbeat).
OneIdentity ==
    \A h \in Hosts : up[h].at = "post" =>
        \A e, f \in up[h].batch :
            /\ e.sess = f.sess
            /\ up[h].beat = "yes" => e.sess = sess[h].id

\* A heartbeat that carries an event of its own session which the broker
\* refuses for good never gets through.  FlushNextBatch counts on the next flush to
\* send that event alone and have it discarded; between two heartbeats of a session
\* there need not be one.
Poisoned(h) ==
    \/ \E e \in Elems(box[h].events) : e.sess = sess[h].id /\ ~validateTelemetryEvent(e)
    \/ \E e \in Elems(mem[h]) : ~validateTelemetryEvent(e)

\* While a session is up the queues drain, whatever heads the backlog that an
\* earlier session left (Heartbeat, Flush).
Drains ==
    \A h \in Hosts :
        <>[](sess[h].at = "up" /\ box[h].closed = "no" /\ ~Poisoned(h) /\ broken = "no")
            => <>[](mem[h] = <<>> /\ box[h].events = <<>>)

-----------------------------------------------------------------------------
\* The inductive invariant of the queues and the sinks.

OutboxTypes ==
    /\ file \in [lines : Seq(Event \cup {Torn}), tail : {"clean", "torn"}]
    /\ lock \in Hosts \cup {None}
    /\ box \in [Hosts -> Box]
    /\ lag \in [Hosts -> {"yes", "no"}]
    /\ made \in 0..MaxEvents /\ luck \in 0..Trouble
    /\ gone \subseteq Numbers
ManagerTypes ==
    /\ begun \in 0..MaxSessions
    /\ sess \in [Hosts -> Session]
    /\ \A h \in Hosts : Active(h) => sess[h].id # 0
    /\ mem \in [Hosts -> Seq(Event)]
    /\ up \in [Hosts -> Upload]
IngestTypes ==
    /\ backend \in {"memory", "postgres"} /\ relay \in {"known", "forgotten"}
    /\ broken \in {"no", "yes", "down"}
    /\ pending \in Seq(Numbers) /\ taking \in Seq(Numbers) /\ log \in Seq(Numbers)
    /\ flushed \in 0..Len(log)
    /\ stored \subseteq Numbers /\ shed \subseteq Numbers /\ wiped \subseteq Numbers
    /\ counted \in [Numbers -> Nat]
    /\ late \subseteq SUBSET Event

\* Type correctness; a session that is on has a number, and no more of the log
\* is in its file than was written.
TypeOK == OutboxTypes /\ ManagerTypes /\ IngestTypes

\* Whoever uses the file has the lock; an outbox not loaded queues nothing.
OwnerInv ==
    \A h \in Hosts : /\ Available(h) => lock = h
                     /\ box[h].loaded = "no" => box[h].events = <<>>

\* What waits in memory is of the session that is on.
MemoryInv == \A h \in Hosts : \A e \in Elems(mem[h]) : e.sess = sess[h].id

\* The numbers of events that need not wait any more.
Settled == gone \cup Received

\* A line of the file that its owner no longer queues is settled, so that a
\* rewrite, a torn append or a crash may take it away.
StaleInv ==
    \A h \in Hosts : Available(h) =>
        \A e \in OnDisk(file) : e \in Elems(box[h].events) \/ e.n \in Settled

\* Postgres counts no event twice, recorded or not.
CountInv == backend = "postgres" => \A n \in Numbers : counted[n] <= 1

TelemetryInv ==
    /\ TypeOK /\ OwnerInv /\ FileHoldsCache /\ MemoryInv /\ OneIdentity
    /\ StaleInv /\ CountInv /\ Accounted
=============================================================================
