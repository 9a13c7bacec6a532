---------------------------- MODULE ReplayStore ----------------------------
(***************************************************************************)
(* The relay-local replay journal (internal/wssbridge/replay.go): which    *)
(* tickets have been consumed, on disk before any of them is honoured.     *)
(*                                                                         *)
(* A record carries a ticket's hash and replayUntil, so the journal is a   *)
(* set of tickets; a record of which the disk holds only a part is no      *)
(* record (load drops an unterminated tail).  mu is held from the write of *)
(* a record to the end of its fsync: tail is that record.                  *)
(***************************************************************************)
EXTENDS Tickets

CONSTANTS MaxEntries,   \* the store's bound
          Stale         \* stale records from which on the journal is compacted

ASSUME ReplayAssumption == MaxEntries \in Nat /\ Stale \in Nat \ {0}

VARIABLES
    journal,   \* tickets with a record that is on disk
    tail,      \* the ticket whose record is written and not yet synced, or None
    index,     \* the in-memory index
    store      \* "open", "broken" (until restarted) or "down"

replayVars == <<journal, tail, index, store>>

ReplayInit == journal = {} /\ tail = None /\ index = {} /\ store = "open"

Current(S) == {t \in S : replayUntil(t) > now}

\* Mutant: entries are forgotten at their expiry, without the clock skew.
pruneUnskewed == {t \in index : claims[t].exp > now}

\* index.prune: what has expired is forgotten.
prune == Current(index)

contains(t) == t \in prune

shouldCompact(records, entries) == Cardinality(records) - Cardinality(entries) >= Stale

\* The journal compactLocked writes, before the record of t is appended.
compactLocked == IF shouldCompact(journal, prune) THEN prune ELSE journal

\* Consume turns t down: the store is unusable or full, t has expired or is used.
Refuses(t) ==
    \/ store # "open" \/ replayUntil(t) <= now
    \/ contains(t) \/ Cardinality(prune) >= MaxEntries

ConsumeRefused(t) ==
    /\ tail = None /\ Refuses(t)
    /\ index' \in {index, prune}
    /\ UNCHANGED <<journal, tail, store>>

\* Consume up to the write of the record.
Write(t) ==
    /\ tail = None /\ ~Refuses(t)
    /\ index' = prune /\ journal' = compactLocked /\ tail' = t
    /\ UNCHANGED store

\* The compaction fails, before its rename (nothing changed) or after it; or the
\* record is not written, or only in part.
WriteFails(t) ==
    /\ tail = None /\ ~Refuses(t)
    /\ index' = prune
    /\ \/ shouldCompact(journal, prune) /\ UNCHANGED <<journal, store>>
       \/ journal' = compactLocked /\ store' = "broken"
    /\ UNCHANGED tail

\* The record is durable and only now indexed.
Sync ==
    /\ journal' = journal \cup {tail} /\ index' = index \cup {tail}
    /\ tail' = None /\ UNCHANGED store

\* The record may be on disk all the same; nothing is appended after it.
SyncFails ==
    /\ journal' \in {journal, journal \cup {tail}}
    /\ tail' = None /\ store' = "broken" /\ UNCHANGED index

\* The process ends; a record that was not synced may or may not have made it.
Stop ==
    /\ store # "down" /\ store' = "down" /\ index' = {}
    /\ journal' \in {journal} \cup {journal \cup {t} : t \in {tail} \ {None}}
    /\ tail' = None

\* Expired records are skipped; if there is one, or a torn tail, the journal is
\* compacted.
load ==
    /\ store = "down" /\ Cardinality(Current(journal)) <= MaxEntries
    /\ index' = Current(journal) /\ journal' = index'
    /\ store' = "open" /\ UNCHANGED tail
=============================================================================
