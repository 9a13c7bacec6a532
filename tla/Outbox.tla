------------------------------- MODULE Outbox -------------------------------
(***************************************************************************)
(* The telemetry outbox (clienttelemetry/outbox.go): a queue of events     *)
(* cached in memory and kept in one NDJSON file that only the holder of    *)
(* the lock may write.  A host is a process and the outbox it opens.       *)
(***************************************************************************)
EXTENDS Naturals, Sequences, FiniteSets

CONSTANTS Hosts,      \* processes that open the outbox
          MaxEvents,  \* bound: events recorded, all told
          MaxSessions, \* bound: telemetry sessions, all told
          MaxActive,  \* bound: hosts with a session under way at one time
          Kinds,      \* what the n-th event is, see Event
          Cap,        \* OutboxMaxQueued
          Compact,    \* outboxCompactThreshold
          BatchSize,  \* outboxBatchSize
          Trouble,    \* bound: how often something goes wrong, all told
          None

ASSUME OutboxAssumption ==
    /\ MaxEvents \in Nat /\ MaxSessions \in Nat /\ Trouble \in Nat /\ None \notin Hosts
    /\ MaxActive \in Nat
    /\ Cap \in Nat \ {0} /\ Compact \in Nat /\ Compact >= Cap
    /\ BatchSize \in Nat /\ BatchSize > 1

\* "huge" fits no request, no two "app" events fit the flow budget of one, and no
\* two events that are "bulky" or "poison" its byte budget; "poison" is refused by
\* the broker for good.
EventKinds == {"metric", "app", "bulky", "huge", "poison", "ended"}
Reports == {"metric", "bulky", "ended"}   \* about the relay of the session
Event == [n : 1..MaxEvents, sess : 1..MaxSessions, kind : EventKinds]

ASSUME KindsAssumption == Kinds \in [1..MaxEvents -> EventKinds]

VARIABLES
    file,   \* the outbox file: its lines, and whether the last one is terminated
    lock,   \* who holds the advisory lock
    box,    \* per host: the Outbox object
    lag,    \* per host: "yes" once a write failed that no rewrite has made good
    made,   \* events recorded so far
    gone,   \* events discarded on purpose or lost with the memory that held them
    luck    \* how much may still go wrong

outboxVars == <<file, lock, box, lag, made, gone, luck>>

Torn == [n |-> 0, sess |-> 0, kind |-> "torn"]   \* a line that does not decode
Box == [loaded : {"yes", "no"}, closed : {"yes", "no"}, events : Seq(Event),
        lines : Nat]

NewOutbox == [loaded |-> "no", closed |-> "no", events |-> <<>>, lines |-> 0]

OutboxInit ==
    /\ file = [lines |-> <<>>, tail |-> "clean"] /\ lock = None
    /\ box = [h \in Hosts |-> NewOutbox] /\ lag = [h \in Hosts |-> "no"]
    /\ made = 0 /\ gone = {} /\ luck = Trouble

GoesWrong == luck > 0 /\ luck' = luck - 1
Smooth    == UNCHANGED luck

Elems(s)   == {s[i] : i \in 1..Len(s)}
Newest(s)  == IF Len(s) > Cap THEN SubSeq(s, Len(s) - Cap + 1, Len(s)) ELSE s

\* A set of numbers in ascending order, and what a sequence has there.
Ascending(S) ==
    [k \in 1..Cardinality(S) |-> CHOOSE i \in S : Cardinality({j \in S : j <= i}) = k]
Selected(s, keep) ==
    [k \in 1..Cardinality(keep) |-> s[Ascending(keep)[k]]]
Decoded(s) == Selected(s, {i \in 1..Len(s) : s[i] # Torn})
Without(s, sent) == Selected(s, {i \in 1..Len(s) : s[i] \notin sent})

OnDisk(f) == Elems(f.lines) \ {Torn}

-----------------------------------------------------------------------------
(* The file *)

\* rewriteLocked: temp file, fsync, rename; all or nothing.
Rewritten(events) == [lines |-> events, tail |-> "clean"]

\* appendOutboxFile: one line at the end.  On an unterminated tail the new line
\* becomes part of it, and neither decodes any more.
Appended(f, e) ==
    [lines |-> IF f.tail = "clean" THEN Append(f.lines, e)
               ELSE [f.lines EXCEPT ![Len(f.lines)] = Torn],
     tail |-> "clean"]

\* A write that stops part-way: nothing, a fragment, or all but the newline.
PartlyAppended(f, e) ==
    {f} \cup {[g EXCEPT !.tail = "torn"] : g \in {Appended(f, Torn), Appended(f, e)}}

-----------------------------------------------------------------------------
(* Operations under the outbox's mutex *)

\* The file is not exactly what was loaded from it: undecodable lines, more
\* than the cap, or an unterminated tail.
Dirty(f) == f.tail = "torn" \/ f.lines # Newest(Decoded(f.lines))

Available(h) == box[h].closed = "no" /\ box[h].loaded = "yes"

\* The first operation takes the lock, reads the file and repairs it.  When
\* the repair cannot be written the outbox keeps the lock and stays unloaded.
\* Every operation starts with it; here it is the operation before.
loadLocked(h) ==
    /\ box[h].closed = "no" /\ box[h].loaded = "no" /\ lock \in {None, h}
    /\ lock' = h
    /\ LET events == Newest(Decoded(file.lines))
       IN  \/ /\ Smooth
              /\ box' = [box EXCEPT ![h].loaded = "yes", ![h].events = events,
                                    ![h].lines = Len(events)]
              /\ file' = IF Dirty(file) THEN Rewritten(events) ELSE file
              /\ gone' = gone \cup {e.n : e \in OnDisk(file) \ Elems(events)}
              /\ lag' = [lag EXCEPT ![h] = "no"]
           \/ Dirty(file) /\ GoesWrong /\ UNCHANGED <<box, file, gone, lag>>
    /\ UNCHANGED made

\* The operation finds the outbox closed, owned by somebody else or unreadable.
Unavailable(h) ==
    \/ box[h].closed = "yes" /\ Smooth
    \/ box[h].loaded = "no" /\ lock \notin {None, h} /\ Smooth
    \/ box[h].loaded = "no" /\ lock \in {None, h} /\ GoesWrong

\* rewriteLocked with its failure, which leaves the file f it found, of so many
\* lines.
rewriteLocked(h, events, f, lines) ==
    \/ /\ Smooth /\ file' = Rewritten(events)
       /\ box' = [box EXCEPT ![h].events = events, ![h].lines = Len(events)]
       /\ lag' = [lag EXCEPT ![h] = "no"]
    \/ /\ GoesWrong /\ file' = f
       /\ box' = [box EXCEPT ![h].events = events, ![h].lines = lines]
       /\ lag' = [lag EXCEPT ![h] = "yes"]

\* appendLocked: queue, drop the oldest past the cap, append to the file; a
\* failed append, or too many lines, rewrites it.
appendLocked(h, e) ==
    LET all    == Append(box[h].events, e)
        events == Newest(all)
        lines  == box[h].lines + 1
    IN  /\ gone' = gone \cup {d.n : d \in Elems(all) \ Elems(events)}
        /\ \/ /\ lines > Compact
              /\ rewriteLocked(h, events, Appended(file, e), lines)
           \/ /\ lines <= Compact /\ Smooth
              /\ file' = Appended(file, e)
              /\ box' = [box EXCEPT ![h].events = events, ![h].lines = lines]
              /\ UNCHANGED lag
           \/ /\ GoesWrong /\ file' = Rewritten(events)
              /\ box' = [box EXCEPT ![h].events = events, ![h].lines = Len(events)]
              /\ lag' = [lag EXCEPT ![h] = "no"]
           \/ /\ GoesWrong /\ file' \in PartlyAppended(file, e)
              /\ box' = [box EXCEPT ![h].events = events, ![h].lines = lines]
              /\ lag' = [lag EXCEPT ![h] = "yes"]

\* Mutant: the commit of a send that outlived Close writes the file.
removeSentClosed(h, sent) ==
    IF Elems(box[h].events) \cap sent # {}
    THEN rewriteLocked(h, Without(box[h].events, sent), file, box[h].lines)
    ELSE UNCHANGED <<box, file, lag, luck>>

\* removeSent: a send that outlived Close commits nothing, for the file may
\* have another owner by now.
removeSent(h, sent) ==
    IF box[h].closed = "no" /\ Elems(box[h].events) \cap sent # {}
    THEN rewriteLocked(h, Without(box[h].events, sent), file, box[h].lines)
    ELSE UNCHANGED <<box, file, lag, luck>>

\* The geo back-patch rewrites the file under events that keep their places.
ApplySessionAttributes(h, session) ==
    /\ Available(h) /\ \E e \in Elems(box[h].events) : e.sess = session
    /\ rewriteLocked(h, box[h].events, file, box[h].lines)
    /\ UNCHANGED <<lock, made, gone>>

\* Close releases the lock and leaves the file alone; what only the cache had
\* is lost.
Close(h) ==
    /\ box[h].closed = "no"
    /\ box' = [box EXCEPT ![h].closed = "yes"]
    /\ lock' = IF lock = h THEN None ELSE lock
    /\ gone' = gone \cup {e.n : e \in Elems(box[h].events) \ OnDisk(file)}
    /\ UNCHANGED <<file, lag, made, luck>>

-----------------------------------------------------------------------------
(* Selecting a request *)

\* outboxUploadBatch: from the head's session only, up to the limit and the byte
\* budget, one "app" event; an event that fits no request is reported to be
\* discarded.
Large == {"bulky", "poison"}
PastBytes(q, i) == q[i].kind \in Large /\ \E j \in 1..(i - 1) : q[j].kind \in Large
Prefix(q) ==
    {i \in 1..Len(q) : \A j \in 1..i : q[j].sess = q[1].sess /\ ~PastBytes(q, j)}
Fits(q, i) ==
    /\ q[i].kind # "huge"
    /\ q[i].kind = "app" => \A j \in 1..(i - 1) : q[j].kind # "app"
Before(q, i) == Cardinality({j \in Prefix(q) : j < i /\ Fits(q, j)})
outboxUploadBatch(q, limit) ==
    {q[i] : i \in {j \in Prefix(q) : Fits(q, j) /\ Before(q, j) < limit}}
Oversized(q, limit) ==
    {q[i] : i \in {j \in Prefix(q) : q[j].kind = "huge" /\ Before(q, j) < limit}}
=============================================================================
