------------------------------- MODULE Ingest -------------------------------
(***************************************************************************)
(* Telemetry at the broker: the handler that validates a batch, drops what *)
(* names a relay the broker does not know, writes the rest to the          *)
(* telemetry sink and then to the relay metrics that ranking reads         *)
(* (telemetry.go, postgres_telemetry.go, store.go, postgres_store.go).     *)
(*                                                                         *)
(* Both sinks answer before anything is on disk: records wait in a buffer  *)
(* that a timer flushes.  Postgres may hold a record twice, by design, and *)
(* is a set here; the metrics are counted.                                 *)
(***************************************************************************)
EXTENDS TelemetryManager

CONSTANTS RecordSize,    \* bytes per record
          PendingLimit,  \* bytes the Postgres sink holds after a failed insert
          MemoryLimit,   \* bytes of records the JSONL sink keeps in memory
          FileLimit      \* bytes of its file past which it is compacted

ASSUME IngestAssumption ==
    /\ RecordSize \in Nat \ {0}
    /\ PendingLimit \in Nat /\ MemoryLimit \in Nat /\ FileLimit \in Nat

VARIABLES
    backend,  \* "memory": JSONL sink and memory store; or "postgres" for both
    relay,    \* whether lease or ledger vouch for the relay the events name
    pending,  \* Postgres sink: records buffered
    taking,   \* Postgres sink: the batch a flush has in hand
    stored,   \* Postgres sink: records inserted
    log,      \* JSONL sink: the file and, behind it, the write buffer
    flushed,  \* JSONL sink: how much of it is in the file
    broken,   \* JSONL sink: "yes" is writeErr, "down" a broker that cannot start
    shed,     \* records the broker discards on purpose
    wiped,    \* records that a broker restart took with the buffer
    counted,  \* relay metrics: how often each event is counted
    late      \* batches whose client has given up on them

sinkVars   == <<pending, taking, stored, log, flushed, broken, shed>>
ingestVars == <<backend, relay, sinkVars, wiped, counted, late>>

Numbers == 1..MaxEvents

IngestInit ==
    /\ backend \in {"memory", "postgres"} /\ broken = "no" /\ relay = "known"
    /\ pending = <<>> /\ taking = <<>> /\ stored = {}
    /\ log = <<>> /\ flushed = 0
    /\ shed = {} /\ wiped = {}
    /\ counted = [n \in Numbers |-> 0]
    /\ late = {}

InOrder(batch) == Ascending(Ids(batch))

-----------------------------------------------------------------------------
(* The sinks *)

Postgres == backend = "postgres"

\* The newest records that fit a limit, and the ones that go with the rest.
Fitting(all, limit) ==
    LET k == limit \div RecordSize
    IN  IF Len(all) > k THEN SubSeq(all, Len(all) - k + 1, Len(all)) ELSE all
Shed(ids, all, kept) == shed' = shed \cup ids \cup (Elems(all) \ Elems(kept))

\* The Postgres sink buffers; only what a failed insert puts back is capped.
dropOldestPendingOverCapLocked(all) == Fitting(all, PendingLimit)
Buffered(records, ids) ==
    /\ pending' = pending \o records /\ shed' = shed \cup ids
    /\ UNCHANGED <<taking, stored, log, flushed, broken>>

\* The JSONL sink appends to its write buffer and keeps the newest in memory.
\* A file over budget is rewritten to what memory has, when that shrinks it.
dropOldestOverBudget(all) == Fitting(all, MemoryLimit)
OverBudget(all) ==
    LET fileBytes   == RecordSize * Len(all)
        memoryBytes == RecordSize * Len(dropOldestOverBudget(all))
    IN  ~(fileBytes <= FileLimit \/ memoryBytes >= fileBytes \div 2)
compactLocked(all) == dropOldestOverBudget(all)
Logged(records, ids) ==
    LET all == log \o records
    IN  /\ IF OverBudget(all) THEN log' = compactLocked(all) /\ flushed' = Len(log')
           ELSE log' = all /\ UNCHANGED flushed
        /\ Shed(ids, all, log')
        /\ UNCHANGED <<pending, taking, stored, broken>>

\* Writing a line or compacting fails: the error is kept, and refuses every
\* later write.
LogFails(records) ==
    /\ \E k \in 0 .. Len(records) : log' = log \o SubSeq(records, 1, k)
    /\ flushed' \in {flushed, Len(log')} /\ broken' = "yes"
    /\ UNCHANGED <<pending, taking, stored, shed>>

\* The records of a batch go in; ids are the events that were held back.
WriteTelemetry(records, ids) ==
    /\ broken = "no"
    /\ IF Postgres THEN Buffered(records, ids) ELSE Logged(records, ids)

\* The Postgres sink takes the buffer out, inserts without the lock, and puts
\* it back when that fails, part of it perhaps inserted.  An insert that goes
\* well is one step.
flush ==
    /\ Postgres /\ taking = <<>> /\ pending # <<>>
    /\ stored' = stored \cup Elems(pending) /\ pending' = <<>>
    /\ UNCHANGED <<taking, log, flushed, broken, shed, luck>>
insertBatchFails ==
    /\ GoesWrong /\ Postgres /\ taking = <<>> /\ pending # <<>>
    /\ taking' = pending /\ pending' = <<>>
    /\ stored' \in {stored, stored \cup Elems(pending)}
    /\ UNCHANGED <<log, flushed, broken, shed>>

\* Mutant: the buffer is put back over what was written meanwhile.
PutBackOver ==
    /\ taking # <<>>
    /\ pending' = taking /\ taking' = <<>>
    /\ UNCHANGED <<stored, log, flushed, broken, shed, luck>>

PutBack ==
    /\ taking # <<>>
    /\ LET all == taking \o pending
       IN  /\ pending' = dropOldestPendingOverCapLocked(all)
           /\ Shed({}, all, pending')
    /\ taking' = <<>>
    /\ UNCHANGED <<stored, log, flushed, broken, luck>>

\* The JSONL sink flushes under the lock; here too an error is kept.
flushLocked ==
    /\ ~Postgres /\ flushed < Len(log) /\ broken = "no"
    /\ \/ Smooth /\ flushed' = Len(log) /\ UNCHANGED broken
       \/ GoesWrong /\ broken' = "yes" /\ UNCHANGED flushed
    /\ UNCHANGED <<pending, taking, stored, log, shed>>

Sink == flush \/ PutBack \/ flushLocked

-----------------------------------------------------------------------------
(* The handler *)

\* One event that does not validate refuses the batch, and so does its size.
validateTelemetryEvent(e) == e.kind \notin {"poison", "huge"}
Refused(batch) == \E e \in batch : ~validateTelemetryEvent(e)

\* An event that names a relay without a lease is kept while the ledger
\* remembers the relay.
gateUnknownRelayTelemetry(batch) ==
    {e \in batch : relay = "known" \/ e.kind \notin Reports}

\* Store.recordRelayTelemetryLocked counts what it is given ...
recordRelayTelemetryLocked(n) == counted[n] + 1
\* ... and insertMetric inserts an event id once.
insertMetric(n) == 1
Measured(batch) == Ids({e \in batch : e.kind \in Reports \ {"ended"}})
RecordRelayTelemetry(batch) ==
    counted' = [n \in Numbers |->
                  IF n \notin Measured(batch) THEN counted[n]
                  ELSE IF Postgres THEN insertMetric(n)
                  ELSE recordRelayTelemetryLocked(n)]

\* What is left of the batch goes to the sink and to the metrics.
HeldBack(batch) == Ids(batch \ gateUnknownRelayTelemetry(batch))
Accepted(batch) ==
    LET kept == gateUnknownRelayTelemetry(batch)
    IN  /\ ~Refused(batch) /\ broken # "down"
        /\ IF kept = {}
           THEN /\ shed' = shed \cup HeldBack(batch)
                /\ UNCHANGED <<pending, taking, stored, log, flushed, broken, counted>>
           ELSE /\ WriteTelemetry(InOrder(kept), HeldBack(batch))
                /\ RecordRelayTelemetry(kept)

\* The request handled, with the answer the handler gives; a failure uses up
\* luck: the relay classes cannot be had, or the sink, or, once the sink has it
\* all, the metrics.
telemetryHandler(batch, answer) ==
    \/ /\ answer = "rejected" /\ Refused(batch) /\ broken # "down"
       /\ UNCHANGED <<sinkVars, counted>>
    \/ /\ answer = "failed" /\ broken = "down" /\ Smooth
       /\ UNCHANGED <<sinkVars, counted>>
    \/ /\ answer = "failed" /\ ~Refused(batch) /\ Postgres
       /\ GoesWrong
       /\ \/ UNCHANGED sinkVars
          \/ WriteTelemetry(InOrder(gateUnknownRelayTelemetry(batch)), {})
       /\ UNCHANGED counted
    \/ /\ answer = "failed" /\ ~Refused(batch) /\ ~Postgres
       /\ LET kept == gateUnknownRelayTelemetry(batch)
          IN  /\ kept # {}
              /\ \/ broken = "yes" /\ Smooth /\ UNCHANGED sinkVars
                 \/ broken = "no" /\ GoesWrong /\ LogFails(InOrder(kept))
       /\ UNCHANGED counted
    \/ answer = "ok" /\ Accepted(batch)

-----------------------------------------------------------------------------
(* Restarts *)

\* The broker stops, with its sinks closed or without, and comes back: a memory
\* store has lost metrics, leases and ledger.  A write buffer that was cut in
\* the middle of a line leaves a file that loadRecent refuses to read.
Reloaded(lines) ==
    /\ log' = IF OverBudget(lines) THEN dropOldestOverBudget(lines) ELSE lines
    /\ flushed' = Len(log') /\ Shed({}, lines, log')
loadRecent ==
    LET lines == SubSeq(log, 1, flushed)
    IN  \/ broken' = "no" /\ Reloaded(lines)
        \/ /\ flushed < Len(log) /\ broken' = "down"
           /\ log' = lines /\ UNCHANGED <<flushed, shed>>
Lost == Elems(pending) \cup Elems(taking) \cup Elems(SubSeq(log, flushed + 1, Len(log)))
BrokerCrash ==
    /\ wiped' = wiped \cup Lost
    /\ pending' = <<>> /\ taking' = <<>> /\ UNCHANGED stored
    /\ IF Postgres THEN UNCHANGED <<log, flushed, broken, shed>> ELSE loadRecent
CloseSink ==
    /\ taking = <<>> /\ broken = "no"
    /\ stored' = stored \cup Elems(pending) /\ pending' = <<>>
    /\ Reloaded(log)
    /\ UNCHANGED <<taking, broken, wiped>>
BrokerRestart ==
    /\ GoesWrong /\ broken # "down"
    /\ BrokerCrash \/ CloseSink
    /\ IF Postgres THEN UNCHANGED <<relay, counted>>
       ELSE relay' = "forgotten" /\ counted' = [n \in Numbers |-> 0]
    /\ UNCHANGED <<backend, late>>

\* The relay registers again.
RelayReturns ==
    /\ relay = "forgotten"
    /\ relay' = "known"
    /\ UNCHANGED <<backend, sinkVars, wiped, counted, late>>
=============================================================================
