----------------------------- MODULE Directory -----------------------------
(***************************************************************************)
(* The broker's relay directory as its callers meet it: register and       *)
(* heartbeat requests (server.go) against a relay store (store.go,         *)
(* postgres_store.go), leases that run out, and a broker that restarts.    *)
(*                                                                         *)
(* Each caller has at most one request in flight; call[c] is the request   *)
(* and, once answered, the reply.  A request that reached the broker is    *)
(* carried out whether or not its caller still waits.                      *)
(***************************************************************************)
EXTENDS Naturals, FiniteSets

CONSTANTS Callers,      \* who sends requests
          Ids,          \* relay ids, each derived from an identity key
          Endpoints,    \* public host:port pairs
          Trouble,      \* bound: how often something goes wrong, all told
          Durable,      \* "yes" for the Postgres store, "no" for the memory one
          Sources,      \* the addresses requests come from
          SourceOf,     \* the address of each caller
          Exempt,       \* the addresses outside the cap on new relays
          Limit,        \* new relays per address and window
          LedgerMax,    \* relayLedgerMaxEntries
          Others,       \* ids of relays elsewhere, which fill the ledger
          None

\* Lease tokens do not repeat, and only the caller that registered is given
\* one: which caller, and a bit that tells the new token from the one the same
\* caller still holds, are all that a comparison can see.
Tokens  == {"none", "one", "two"}
Classes == {"volunteer", "foundation"}

ASSUME DirectoryAssumption ==
    /\ Trouble \in Nat /\ Durable \in {"yes", "no"}
    /\ SourceOf \in [Callers -> Sources] /\ Exempt \subseteq Sources /\ Limit \in Nat
    /\ None \notin Ids \cup Endpoints \cup Callers
    /\ IsFiniteSet(Callers) /\ IsFiniteSet(Sources)
    /\ LedgerMax \in Nat /\ Others \subseteq Ids /\ IsFiniteSet(Others)

VARIABLES
    rows,     \* the stored descriptors
    call,     \* per caller: its request or the reply to it
    lease,    \* per caller: the lease token it was given last
    ledger,   \* relayIDLedger: the ids that were leased
    spent,    \* newRelayCap: the units each source has reserved in the window
    luck      \* how much may still go wrong

brokerVars    == <<rows, ledger, spent>>
directoryVars == <<brokerVars, call, lease, luck>>

Row == [id : Ids, end : Endpoints, by : Callers, tok : Tokens, cls : Classes]

Replies == {"ok", "err", "notfound", "expired"}
Pending == {"register", "admitted", "beat"}

\* The proof of an identity is signed for the request, stored since an earlier
\* one, or older than it may be; a unit of the source's budget may be reserved.
Call == [at : {"idle"} \cup Pending \cup Replies,
         id : Ids \cup {None}, end : Endpoints \cup {None},
         cls : Classes, tok : Tokens, wait : {"yes", "no"},
         proof : {"signed", "stored", "aged"}, unit : {"none", "held"}]

NoCall == [at |-> "idle", id |-> None, end |-> None, cls |-> "volunteer",
           tok |-> "none", wait |-> "yes", proof |-> "signed", unit |-> "none"]
RegisterCall(id, end, cls) ==
    [NoCall EXCEPT !.at = "register", !.id = id, !.end = end, !.cls = cls]
HeartbeatCall(id, tok, cls) ==
    [NoCall EXCEPT !.at = "beat", !.id = id, !.tok = tok, !.cls = cls]

Answered(c)  == call[c].at \in Replies
Send(c, req) == call' = [call EXCEPT ![c] = req]
Taken(c)     == Send(c, NoCall)

\* The caller's context ends: a request not served yet is served for nobody.
Abandon(c) ==
    call' = [call EXCEPT ![c] = IF @.at \in Pending
                                THEN [@ EXCEPT !.wait = "no"] ELSE NoCall]
Reply(c, r, tok) ==
    Send(c, IF call[c].wait = "no" THEN NoCall
            ELSE [NoCall EXCEPT !.at = r, !.tok = tok])

GoesWrong == luck > 0 /\ luck' = luck - 1

DirectoryInit ==
    /\ rows = {} /\ ledger = {} /\ luck = Trouble
    /\ spent = [a \in Sources |-> 0]
    /\ call = [c \in Callers |-> NoCall]
    /\ lease = [c \in Callers |-> "none"]

-----------------------------------------------------------------------------
(* Register and heartbeat *)

\* VerifyIdentity, on a registration: a proof holds for a limited time.  What a
\* session stored may have aged when it is used.
VerifyIdentity(c) == call[c].proof # "aged"
ProofAges(c) ==
    /\ GoesWrong
    /\ call[c].at = "register" /\ call[c].proof = "stored"
    /\ call' = [call EXCEPT ![c].proof = "aged"]
    /\ UNCHANGED <<brokerVars, lease>>

\* Only an identity that the ledger does not know draws on the budget of its
\* address; a proof that does not verify counts as one.
newIdentity(c) == VerifyIdentity(c) => call[c].id \notin ledger
Charged(c) ==
    newIdentity(c) /\ call[c].cls # "foundation" /\ SourceOf[c] \notin Exempt

\* newRelayCap.reserve, and the release it hands out.
reserve(c) ==
    /\ spent[SourceOf[c]] < Limit
    /\ spent' = [spent EXCEPT ![SourceOf[c]] = @ + 1]
release(c) == spent' = [spent EXCEPT ![SourceOf[c]] = @ - 1]

\* registerHandler, up to the call of the store.
Admit(c) ==
    /\ call[c].at = "register"
    /\ \/ /\ Charged(c) /\ reserve(c)
          /\ Send(c, [call[c] EXCEPT !.at = "admitted", !.unit = "held"])
       \/ /\ ~Charged(c) /\ UNCHANGED spent
          /\ Send(c, [call[c] EXCEPT !.at = "admitted"])
       \/ /\ Charged(c) /\ ~(spent[SourceOf[c]] < Limit) /\ UNCHANGED spent
          /\ Reply(c, "err", "none")
    /\ UNCHANGED <<rows, ledger, lease, luck>>

\* A live foundation row keeps its endpoint from a volunteer.
Reserved(c) ==
    /\ call[c].cls # "foundation"
    /\ \E r \in rows : r.end = call[c].end /\ r.cls = "foundation"

newRelayLeaseToken(c) == IF lease[c] = "one" THEN "two" ELSE "one"

\* The rows a registration displaces: its id's, and the one at its endpoint.
Displaced(id, end) == {r \in rows : r.id = id \/ r.end = end}

\* Mutant: every registration that reserved a unit keeps it.
rememberIfNewAlways(id) == TRUE

\* Whether this sighting established the identity, and what the ledger holds
\* after it: one that is full does not take a newcomer, and still reports it as
\* new.  An entry outlives the window of the budgets, so none expires here.
rememberIfNew(id) == id \notin ledger
remember(id) ==
    ledger' = IF Cardinality(ledger) < LedgerMax THEN ledger \cup {id} ELSE ledger

\* Store.Register: the new row, under a fresh lease token, takes the place of
\* the displaced ones.  The unit is kept only by the request that established
\* the identity.
Register(c) ==
    /\ call[c].at = "admitted"
    /\ VerifyIdentity(c) /\ ~Reserved(c)
    /\ LET row == [id |-> call[c].id, end |-> call[c].end, by |-> c,
                   tok |-> newRelayLeaseToken(c), cls |-> call[c].cls]
       IN  /\ rows' = (rows \ Displaced(row.id, row.end)) \cup {row}
           /\ remember(row.id)
           /\ IF call[c].unit = "held" /\ ~rememberIfNew(row.id) THEN release(c)
              ELSE UNCHANGED spent
           /\ Reply(c, "ok", row.tok)
    /\ UNCHANGED <<lease, luck>>

\* The proof aged out, the endpoint is reserved or, while things go wrong, the
\* store failed and rolled back.  The unit is handed back.
RegisterRefused(c) ==
    /\ call[c].at = "admitted"
    /\ \/ ~VerifyIdentity(c) /\ Reply(c, "expired", "none") /\ UNCHANGED luck
       \/ VerifyIdentity(c) /\ Reserved(c) /\ Reply(c, "err", "none") /\ UNCHANGED luck
       \/ GoesWrong /\ Reply(c, "err", "none")
    /\ IF call[c].unit = "held" THEN release(c) ELSE UNCHANGED spent
    /\ UNCHANGED <<rows, ledger, lease>>

\* The row a request speaks for: an identity's row, only with its lease token.
Holds(r, c) == r.id = call[c].id /\ r.by = c /\ r.tok = call[c].tok
Barred(c) ==
    /\ call[c].cls # "foundation"
    /\ \E r \in rows : r.id = call[c].id /\ r.cls = "foundation"

\* Store.Heartbeat renews the lease of the registration its token was minted
\* for; a stale session is told that the registration is gone.
Heartbeat(c) ==
    /\ call[c].at = "beat"
    /\ Reply(c, IF Barred(c) THEN "err"
                ELSE IF \E r \in rows : Holds(r, c) THEN "ok" ELSE "notfound",
             "none")
    /\ IF ~Barred(c) /\ \E r \in rows : Holds(r, c) THEN remember(call[c].id)
       ELSE UNCHANGED ledger
    /\ UNCHANGED <<rows, spent, lease, luck>>

-----------------------------------------------------------------------------
(* Time and faults *)

\* Relays that come and go elsewhere, from addresses of their own, fill the ledger.
LedgerFills ==
    /\ GoesWrong
    /\ \E S \in SUBSET (Others \ ledger) :
          ledger' = ledger \cup S /\ Cardinality(ledger') = LedgerMax
    /\ UNCHANGED <<rows, spent, call, lease>>

\* Somebody has the row's lease token, or the reply that brings it.
Attended(r) ==
    r.tok = lease[r.by] \/ (call[r.by].at = "ok" /\ call[r.by].tok = r.tok)

\* A lease runs out and the row is pruned: sooner or later when nobody renews
\* it, and when the heartbeats of its holder come late.
Prune(r) ==
    /\ r \in rows
    /\ IF Attended(r) THEN GoesWrong ELSE UNCHANGED luck
    /\ rows' = rows \ {r}
    /\ UNCHANGED <<ledger, spent, call, lease>>
PruneUnattended == \E r \in rows : ~Attended(r) /\ Prune(r)

\* A request or a reply is lost, or the caller's HTTP client gives up first.
LoseReply(c) ==
    /\ GoesWrong
    /\ call[c].at \in {"register", "beat", "ok", "notfound"}
    /\ Reply(c, "err", "none")
    /\ UNCHANGED <<brokerVars, lease>>

\* A unit that was kept leaves the trailing window.  When it does makes a
\* difference only to a registration that finds no other.
Held(a) == Cardinality({c \in Callers : SourceOf[c] = a /\ call[c].unit = "held"})
UnitExpires(a) ==
    /\ spent[a] > Held(a)
    /\ \E c \in Callers : /\ SourceOf[c] = a /\ call[c].at = "register"
                          /\ Charged(c) /\ spent[a] = Limit
    /\ spent' = [spent EXCEPT ![a] = @ - 1]
    /\ UNCHANGED <<rows, ledger, call, lease, luck>>

\* The ledger of a broker that starts: as many of the stored ids as it takes, or
\* none when the store cannot be read.
seedRelayLedger ==
    LET ids == {r.id : r \in rows'}
    IN  \/ ledger' = {}
        \/ /\ ledger' \in SUBSET ids /\ Cardinality(ledger') <= LedgerMax
           /\ ledger' = ids \/ Cardinality(ledger') = LedgerMax

\* The broker restarts: only the memory store loses its rows, the ledger is
\* seeded from the rows, the budgets are full again, and the requests that were
\* being carried out fail.
BrokerRestart ==
    /\ GoesWrong
    /\ rows' = IF Durable = "yes" THEN rows ELSE {}
    /\ seedRelayLedger
    /\ spent' = [a \in Sources |-> 0]
    /\ call' = [c \in Callers |->
                   IF call[c].at # "admitted" THEN call[c]
                   ELSE IF call[c].wait = "no" THEN NoCall
                   ELSE [NoCall EXCEPT !.at = "err"]]
    /\ UNCHANGED lease

Handler(c) == Admit(c) \/ Register(c) \/ RegisterRefused(c) \/ Heartbeat(c)

DirectoryNext ==
    \/ \E c \in Callers : Handler(c) \/ LoseReply(c) \/ ProofAges(c)
    \/ \E a \in Sources : UnitExpires(a)
    \/ (\E r \in rows : Prune(r)) \/ LedgerFills \/ BrokerRestart
=============================================================================
