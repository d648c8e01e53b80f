---------------------------------- MODULE Indexer ----------------------------------
(***************************************************************************)
(* indexer/src/sync.ts with its database (db-postgres.ts, db-sqlite.ts)    *)
(* and the page served to wallets: a syncer copies the token contract's    *)
(* note and nullifier events from an RPC node into the database, page by   *)
(* page, and remembers the ledger to resume from.                          *)
(*                                                                         *)
(* Every await is a step boundary: between any two of them ledgers close,  *)
(* wallets read, another syncer on the same database runs, and the process *)
(* may fail or restart. An event is named by its position on the chain.    *)
(***************************************************************************)
EXTENDS Integers, Sequences, FiniteSets, FiniteSetsExt

CONSTANTS
  Syncers,       \* processes that run Syncer on one database
  PageLimit,     \* the limit of getEvents: 1000 in the code
  NotesLimit,    \* the limit of /notes: 500 in the code
  StartLedger,   \* INDEXER_START_LEDGER, the ledger of the deployment
  LastLedger,    \* bound: ledgers that close
  MaxEvents,     \* bound: events on the chain
  MaxFaults,     \* bound: failures and restarts
  NoToken        \* pagingToken undefined

ASSUME IndexerAssumption ==
  /\ PageLimit \in Nat \ {0}
  /\ NotesLimit \in Nat \ {0}
  /\ StartLedger \in Nat
  /\ LastLedger \in Nat /\ StartLedger <= LastLedger
  /\ MaxEvents \in Nat
  /\ MaxFaults \in Nat
  /\ NoToken \notin Nat

VARIABLES
  tip,       \* the last closed ledger
  chain,     \* the contract's events so far: [kind, ledger]
  synced,    \* last_synced_ledger, StartLedger while there is no row
  stored,    \* the events with a row in notes or nullifiers
  pc,        \* where each syncer is: "idle", "request", "store"
  from,      \* ledgerCursor of its syncOnce
  token,     \* pagingToken
  page,      \* the events of the last response that are not handled yet
  response,  \* [full, last, latest] of that response
  faults     \* failures so far (not in the code)

syncerVars == <<pc, from, token, page, response>>
vars == <<tip, chain, synced, stored, syncerVars, faults>>

Events == DOMAIN chain

Init ==
  /\ tip = StartLedger
  /\ chain = << >>
  /\ synced = StartLedger
  /\ stored = {}
  /\ pc = [s \in Syncers |-> "idle"]
  /\ from = [s \in Syncers |-> StartLedger]
  /\ token = [s \in Syncers |-> NoToken]
  /\ page = [s \in Syncers |-> << >>]
  /\ response = [s \in Syncers |-> [full |-> FALSE, last |-> NoToken, latest |-> tip]]
  /\ faults = 0

\* a ledger closes with some events of the contract
CloseLedger(kinds) ==
  /\ tip < LastLedger
  /\ Len(chain) + Len(kinds) <= MaxEvents
  /\ tip' = tip + 1
  /\ chain' = chain \o [i \in DOMAIN kinds |-> [kind |-> kinds[i], ledger |-> tip + 1]]
  /\ UNCHANGED <<synced, stored, syncerVars, faults>>

BeginSync(s) ==
  /\ pc[s] = "idle"
  /\ pc' = [pc EXCEPT ![s] = "request"]
  /\ from' = [from EXCEPT ![s] = synced]
  /\ token' = [token EXCEPT ![s] = NoToken]
  /\ UNCHANGED <<tip, chain, synced, stored, page, response, faults>>

\* the events a request asks for: after the paging token or from a ledger on
Wanted(s) ==
  IF token[s] # NoToken
    THEN {e \in Events : e > token[s]}
    ELSE {e \in Events : chain[e].ledger >= from[s]}

\* getEvents answers with the first PageLimit of them, and its latest ledger; a
\* start ledger that has not closed yet is an error
GetEvents(s) ==
  LET first == IF Wanted(s) = {} THEN 0 ELSE Min(Wanted(s))
      count == Min({Cardinality(Wanted(s)), PageLimit})
  IN
  /\ pc[s] = "request"
  /\ token[s] # NoToken \/ from[s] <= tip
  /\ pc' = [pc EXCEPT ![s] = "store"]
  /\ page' = [page EXCEPT ![s] = [i \in 1..count |-> first + i - 1]]
  /\ response' = [response EXCEPT ![s] =
       [full |-> count = PageLimit,
        last |-> IF count = 0 THEN NoToken ELSE first + count - 1,
        latest |-> tip]]
  /\ UNCHANGED <<tip, chain, synced, stored, from, token, faults>>

GetEventsTooEarly(s) ==
  /\ pc[s] = "request"
  /\ token[s] = NoToken /\ from[s] > tip
  /\ pc' = [pc EXCEPT ![s] = "idle"]
  /\ UNCHANGED <<tip, chain, synced, stored, from, token, page, response, faults>>

\* upsertNote or markNullifierSpent; a row that exists is left as it is
StoreEvent(s) ==
  /\ pc[s] = "store"
  /\ page[s] # << >>
  /\ stored' = stored \cup {Head(page[s])}
  /\ page' = [page EXCEPT ![s] = Tail(@)]
  /\ UNCHANGED <<tip, chain, synced, pc, from, token, response, faults>>

\* Deviation: the next sync starts after the ledger of the last event.
ResumeLedgerAfter(s) ==
  IF response[s].full THEN chain[response[s].last].ledger + 1 ELSE response[s].latest + 1

\* the ledger to persist after a page: a full one may end within a ledger
ResumeLedger(s) ==
  IF response[s].full THEN chain[response[s].last].ledger ELSE response[s].latest + 1

\* Deviation: one page per poll, also when it is a full one.
FinishPageOnce(s) ==
  /\ pc[s] = "store"
  /\ page[s] = << >>
  /\ synced' = ResumeLedger(s)
  /\ pc' = [pc EXCEPT ![s] = "idle"]
  /\ token' = [token EXCEPT ![s] = response[s].last]
  /\ UNCHANGED <<tip, chain, stored, from, page, response, faults>>

FinishPage(s) ==
  /\ pc[s] = "store"
  /\ page[s] = << >>
  /\ synced' = ResumeLedger(s)
  /\ pc' = [pc EXCEPT ![s] = IF response[s].full THEN "request" ELSE "idle"]
  /\ token' = [token EXCEPT ![s] = response[s].last]
  /\ UNCHANGED <<tip, chain, stored, from, page, response, faults>>

\* a call of the node or the database fails or times out, or the process is
\* restarted: the next syncOnce starts over from the persisted ledger
Fault(s) ==
  /\ faults < MaxFaults
  /\ pc[s] # "idle"
  /\ faults' = faults + 1
  /\ pc' = [pc EXCEPT ![s] = "idle"]
  /\ page' = [page EXCEPT ![s] = << >>]
  /\ UNCHANGED <<tip, chain, synced, stored, from, token, response>>

SyncStep(s) == BeginSync(s) \/ GetEvents(s) \/ GetEventsTooEarly(s) \/ StoreEvent(s) \/ FinishPage(s)

ChainStep ==
  \E n \in 0..MaxEvents : \E kinds \in [1..n -> {"note", "nf"}] : CloseLedger(kinds)

Next == ChainStep \/ \E s \in Syncers : SyncStep(s) \/ Fault(s)

\* run() loops forever, and ledgers keep closing
Fairness ==
  /\ WF_vars(ChainStep)
  /\ \A s \in Syncers : WF_vars(SyncStep(s))

Spec == Init /\ [][Next]_vars
FairSpec == Spec /\ Fairness

---------------------------------------------------------------------------
(* What wallets read. *)

StoredNotesFrom(ledger) ==
  {e \in stored : chain[e].kind = "note" /\ chain[e].ledger >= ledger}

\* Deviation: the rest of the boundary ledger is not added to a full page.
GetNotesFromCut(ledger) ==
  {e \in StoredNotesFrom(ledger) :
     Cardinality({f \in StoredNotesFrom(ledger) : f < e}) < NotesLimit}

\* getNotesFrom: the first notes by leaf, and every note of the last one's ledger
GetNotesFrom(ledger) ==
  LET found == StoredNotesFrom(ledger)
      first == {e \in found : Cardinality({f \in found : f < e}) < NotesLimit}
  IN  {e \in found : \E f \in first : e <= f \/ (Cardinality(first) = NotesLimit
                                                   /\ chain[e].ledger = chain[f].ledger)}

NextLedger(ledger, notes) == IF notes = {} THEN ledger ELSE chain[Max(notes)].ledger + 1

---------------------------------------------------------------------------
(* Properties. *)

TypeOK ==
  /\ tip \in Nat /\ StartLedger <= tip
  /\ chain \in Seq([kind : {"note", "nf"}, ledger : Nat])
  /\ synced \in Nat
  /\ stored \subseteq Events
  /\ pc \in [Syncers -> {"idle", "request", "store"}]
  /\ from \in [Syncers -> Nat]
  /\ token \in [Syncers -> Nat \cup {NoToken}]
  /\ page \in [Syncers -> Seq(Nat)]
  /\ response \in [Syncers -> [full : BOOLEAN, last : Nat \cup {NoToken}, latest : Nat]]
  /\ faults \in 0..MaxFaults

\* No event is skipped for good: everything before the ledger a restarted syncer
\* resumes from is in the database, also when a page ends within a ledger, a poll
\* fails half way, or two syncers share the database.
NothingSkipped == \A e \in Events : chain[e].ledger < synced => e \in stored

\* Every event gets into the database, whatever fails on the way.
EverythingIndexed == \A e \in 1..MaxEvents : e \in Events ~> e \in stored
=============================================================================
