---------------------------------- MODULE Wallet ----------------------------------
(***************************************************************************)
(* ZKELLAWallet (sdk/src/wallet/wallet.ts) for one asset: the note list,   *)
(* sync, and the shield, transfer and unshield calls, next to a chain, a   *)
(* mempool and an indexer that answers from the ledgers it has stored.     *)
(* JavaScript runs one piece of code up to its next await: an action is    *)
(* such a piece, and what a piece read before an await is kept in a        *)
(* variable.  Every operation of the token has a ledger of its own, so a   *)
(* ledger number also names the Merkle root that ledger left.              *)
(***************************************************************************)
EXTENDS Integers, Sequences, FiniteSets, SequencesExt, Sorting

CONSTANTS
  Calls,        \* the calls the application makes, each once
  Kind,         \* Kind[c]: "shield", "transfer" or "unshield"
  Amount,       \* Amount[c]: the value moved
  Received,     \* the values of the notes others send to this wallet, in order
  Sender,       \* stands for the others
  History,      \* ROOT_HISTORY_SIZE
  Attempts,     \* attempts of withTransientRetry
  MaxLedger,    \* bound: others stop using the token at this ledger
  MaxCalls      \* bound on how many of the calls are made

ASSUME WalletAssumption ==
  /\ Kind \in [Calls -> {"shield", "transfer", "unshield"}]
  /\ Amount \in [Calls -> Nat]
  /\ Received \in Seq(Nat)
  /\ Sender \notin Calls
  /\ History \in Nat \ {0} /\ Attempts \in Nat \ {0} /\ MaxLedger \in Nat /\ MaxCalls \in Nat

VARIABLES
  ledger,    \* the last closed ledger
  leaf,      \* leaf[n]: the ledger that inserted note n
  spent,     \* spent[f]: the ledger in which nullifier f was used
  indexed,   \* the last ledger the indexer has stored
  account,   \* sequence number of the wallet's Stellar account
  txs,       \* txs[h]: what was submitted under hash h, and its status
  notes,     \* the wallet's note list
  lastSync,  \* lastSyncLedger
  sync,      \* the running sync
  pc,        \* pc[c]: where call c is
  plan,      \* plan[c]: what its proof spends and creates, and its sequence number
  try        \* try[c]: <<which build of the proof, which attempt to submit it>>

chain == <<ledger, leaf, spent, indexed, account, txs>>
calls == <<pc, plan, try>>
vars == <<chain, notes, lastSync, sync, calls>>

\* a rho, by the note it was drawn for
Rho == (Calls \cup {Sender}) \X Nat

\* a note of this wallet's: who made it, its number among those, its value and its rho,
\* which whoever makes it may also take from another note
Note == [by: Calls \cup {Sender}, n: Nat, value: Nat, rho: Rho]
MakeNote(c, n, v, rho) == [by |-> c, n |-> n, value |-> v, rho |-> rho]

\* Poseidon2 of this wallet's nullifier key and the note's rho
Nullifier(n) == n.rho
Nullifiers(S) == {Nullifier(n) : n \in S}

Plan == [ins: SUBSET Note, out: Seq(Note), anchor: Nat, seq: Nat]
NoPlan == [ins |-> {}, out |-> <<>>, anchor |-> 0, seq |-> 0]

\* `page' is what is left of a page; `list' is the array sync iterates over and `same' says that it still is the
\* wallet's note list; `asked' are the nullifiers it asked about, `gone' those that are spent
NotSyncing == [at |-> "off", cursor |-> 0, page |-> {}, list |-> <<>>, same |-> FALSE,
               asked |-> <<>>, gone |-> {}]

Init ==
  /\ ledger = 0 /\ indexed = 0 /\ account = 0
  /\ leaf = <<>> /\ spent = <<>> /\ txs = <<>>
  /\ notes = <<>> /\ lastSync = 0 /\ sync = NotSyncing
  /\ pc = [c \in Calls |-> "idle"]
  /\ plan = [c \in Calls |-> NoPlan]
  /\ try = [c \in Calls |-> <<0, 0>>]

Stamp(f, S) == [n \in DOMAIN f \cup S |-> IF n \in S THEN ledger + 1 ELSE f[n]]

-----------------------------------------------------------------------------
(* The chain.  The token refuses a proof whose anchor has left the history  *)
(* of roots before it looks at the nullifiers.                              *)

Verdict(p) ==
  IF p.ins # {} /\ ledger - p.anchor >= History THEN "InvalidAnchor"
  ELSE IF Nullifiers(p.ins) \cap DOMAIN spent # {} \/ ToSet(p.out) \cap DOMAIN leaf # {} THEN "Refused"
  ELSE "Accepted"

\* what others have sent, and what shields have shown them: rho is one of their arguments
Sent == {n \in DOMAIN leaf : n.by = Sender}
Shown == UNION {ToSet(txs[h].plan.out) : h \in {g \in DOMAIN txs : Kind[g[1]] = "shield"}}
KnownRhos == {n.rho : n \in Sent \cup Shown}

\* somebody else uses the token, perhaps to send this wallet its next note, with a
\* rho of its own or one they know
OthersAct ==
  LET k == 1 + Cardinality(Sent)
      sent == [i : {k} \cap DOMAIN Received, rho : {<<Sender, k>>} \cup KnownRhos]
  IN
  /\ ledger < MaxLedger
  /\ \E mine \in {{}} \cup {{MakeNote(Sender, s.i, Received[s.i], s.rho)} : s \in sent} :
       leaf' = Stamp(leaf, mine)
  /\ ledger' = ledger + 1
  /\ UNCHANGED <<spent, indexed, account, txs, notes, lastSync, sync, calls>>

\* a pending transaction is applied once the account has come to its sequence
\* number, which it uses up even when the contract refuses
Land(h) ==
  LET p == txs[h].plan
      ok == Verdict(p) = "Accepted"
  IN
  /\ txs[h].status = "pending" /\ p.seq = account + 1
  /\ account' = account + 1
  /\ txs' = [txs EXCEPT ![h].status = IF ok THEN "success" ELSE "failed"]
  /\ ledger' = IF ok THEN ledger + 1 ELSE ledger
  /\ leaf' = IF ok THEN Stamp(leaf, ToSet(p.out)) ELSE leaf
  /\ spent' = IF ok THEN Stamp(spent, Nullifiers(p.ins)) ELSE spent
  /\ UNCHANGED <<indexed, notes, lastSync, sync, calls>>

Index ==
  /\ indexed < ledger
  /\ indexed' = indexed + 1
  /\ UNCHANGED <<ledger, leaf, spent, account, txs, notes, lastSync, sync, calls>>

-----------------------------------------------------------------------------
(* sync.  this.notes = ... makes a new array: a sync that is iterating      *)
(* stays with the old one, whereas a push changes the array both hold.      *)

\* a filter: the entries at these positions, in their order
EntriesAt(list, positions) ==
  LET order == Ascending(positions)
  IN  [k \in DOMAIN order |-> list[order[k]]]

Push(list, n) == IF Contains(list, n) THEN list ELSE Append(list, n)

Replace(new) ==
  /\ notes' = new
  /\ sync' = IF sync.same THEN [sync EXCEPT !.same = FALSE, !.list = notes] ELSE sync

SyncStart ==
  /\ sync.at = "off"
  /\ sync' = [NotSyncing EXCEPT !.at = "fetch", !.cursor = lastSync]
  /\ UNCHANGED <<chain, notes, lastSync, calls>>

\* one getNotes call answered; what this wallet cannot decrypt is dropped. Every
\* ledger holds a note of somebody, so only the end of the feed gives none.
Fetch ==
  LET mine == {n \in DOMAIN leaf : leaf[n] \in sync.cursor..indexed}
  IN
  /\ sync.at = "fetch" /\ sync.page = {}
  /\ sync' = IF sync.cursor > indexed
             THEN [sync EXCEPT !.at = "dedup", !.same = TRUE]
             ELSE [sync EXCEPT !.cursor = indexed + 1, !.page = mine]
  /\ UNCHANGED <<chain, notes, lastSync, calls>>

\* the next note of the page, unless the wallet has it
PushFetched ==
  /\ \E n \in sync.page :
       /\ \A m \in sync.page : leaf[n] <= leaf[m]
       /\ sync' = [sync EXCEPT !.page = @ \ {n}]
       /\ notes' = Push(notes, n)
  /\ UNCHANGED <<chain, lastSync, calls>>

\* Deviation: only a note that is there twice is dropped.
FirstOfEachNote(list) ==
  EntriesAt(list, {i \in DOMAIN list : \A j \in 1..(i - 1) : list[j] # list[i]})

FirstOfEachNullifier(list) ==
  EntriesAt(list, {i \in DOMAIN list : \A j \in 1..(i - 1) : Nullifier(list[j]) # Nullifier(list[i])})

\* the loop over the nullifiers ends: of the notes that share one, only the first is
\* kept, since only one of them can ever be spent
KeepOnePerNullifier ==
  LET keep == FirstOfEachNullifier(IF sync.same THEN notes ELSE sync.list)
  IN
  /\ sync.at = "dedup"
  /\ notes' = keep
  /\ sync' = [sync EXCEPT !.at = "ask", !.same = FALSE, !.list = <<>>,
                !.asked = [i \in DOMAIN keep |-> Nullifier(keep[i])]]
  /\ UNCHANGED <<chain, lastSync, calls>>

\* the indexer answers batchCheckNullifiers
AnswerSpent ==
  /\ sync.at = "ask"
  /\ sync' = [sync EXCEPT !.at = "drop",
                !.gone = {f \in ToSet(sync.asked) \cap DOMAIN spent : spent[f] <= indexed}]
  /\ UNCHANGED <<chain, notes, lastSync, calls>>

\* the i-th note goes if the i-th nullifier that was asked about is spent
StillUnspent ==
  EntriesAt(notes, {i \in DOMAIN notes : i \in DOMAIN sync.asked => sync.asked[i] \notin sync.gone})

\* Deviation: the next sync starts after what the indexer has by now.
DropSpentLate ==
  /\ sync.at = "drop"
  /\ notes' = StillUnspent
  /\ lastSync' = indexed + 1
  /\ sync' = NotSyncing
  /\ UNCHANGED <<chain, calls>>

\* the answer arrives
DropSpent ==
  /\ sync.at = "drop"
  /\ notes' = StillUnspent
  /\ lastSync' = sync.cursor
  /\ sync' = NotSyncing
  /\ UNCHANGED <<chain, calls>>

\* the indexer cannot be reached: sync throws
SyncFails ==
  /\ sync.at \in {"fetch", "ask"}
  /\ sync' = NotSyncing
  /\ UNCHANGED <<chain, notes, lastSync, calls>>

Sync ==
  \/ SyncStart \/ Fetch \/ PushFetched \/ KeepOnePerNullifier
  \/ AnswerSpent \/ DropSpent \/ SyncFails

-----------------------------------------------------------------------------
(* The calls.  transfer and unshield build a proof and return submit, which *)
(* the application calls when it likes.                                     *)

\* the sort of the candidates: by value, of equal ones the later in the list first
Larger(i, j) == notes[i].value > notes[j].value \/ (notes[i].value = notes[j].value /\ i > j)
Smaller(i, j) == notes[i].value < notes[j].value \/ (notes[i].value = notes[j].value /\ i > j)

\* the positions a call selects: the two largest notes, or the smallest that covers
Selected(c) ==
  LET covering == {i \in DOMAIN notes : notes[i].value >= Amount[c]}
  IN CASE Kind[c] = "shield"   -> {}
       [] Kind[c] = "transfer" -> {i \in DOMAIN notes :
                                     Cardinality({j \in DOMAIN notes : Larger(j, i)}) < 2}
       [] Kind[c] = "unshield" -> {i \in covering : \A j \in covering \ {i} : Smaller(i, j)}

Total(ins) == FoldSet(LAMBDA n, v : n.value + v, 0, ins)

\* the start of shield, transfer or unshield: a wallet without the notes throws
Select(c) ==
  LET ins == {notes[i] : i \in Selected(c)}
      n == try[c][1] + 1
      enough == /\ Cardinality(Selected(c)) = (IF Kind[c] = "transfer" THEN 2 ELSE 1)
                /\ Total(ins) >= Amount[c]
      value == IF Kind[c] = "shield" THEN Amount[c] ELSE Total(ins) - Amount[c]
  IN
  /\ pc[c] \in {"idle", "rebuild"}
  /\ pc[c] = "idle" => Cardinality({d \in Calls : pc[d] # "idle"}) < MaxCalls
  /\ try' = [try EXCEPT ![c] = <<n, 0>>]
  /\ IF Kind[c] = "shield" \/ enough
     THEN /\ plan' = [plan EXCEPT ![c] = [NoPlan EXCEPT !.ins = ins, !.out = <<MakeNote(c, n, value, <<c, n>>)>>]]
          /\ pc' = [pc EXCEPT ![c] = IF Kind[c] = "shield" THEN "built" ELSE "root"]
     ELSE /\ pc' = [pc EXCEPT ![c] = "failed"]
          /\ UNCHANGED plan
  /\ UNCHANGED <<chain, notes, lastSync, sync>>

ReadRoot(c) ==
  /\ pc[c] = "root"
  /\ plan' = [plan EXCEPT ![c].anchor = ledger]
  /\ pc' = [pc EXCEPT ![c] = "paths"]
  /\ UNCHANGED <<chain, notes, lastSync, sync, try>>

\* reads the Merkle paths: of another root, or of two notes with one nullifier, the
\* proof cannot be made. A rebuilt call is submitted right away.
Prove(c) ==
  LET clash == \E m, n \in plan[c].ins : m # n /\ Nullifier(m) = Nullifier(n)
  IN
  /\ pc[c] = "paths"
  /\ pc' = [pc EXCEPT ![c] = IF ledger # plan[c].anchor \/ clash THEN "failed"
                             ELSE IF try[c][1] = 1 THEN "built" ELSE "prepare"]
  /\ UNCHANGED <<chain, notes, lastSync, sync, plan, try>>

Submit(c) ==
  /\ pc[c] = "built"
  /\ pc' = [pc EXCEPT ![c] = "prepare"]
  /\ UNCHANGED <<chain, notes, lastSync, sync, plan, try>>

\* Deviation: a failed attempt starts over with a new proof.
TryAgainRebuild(c, attempt) == IF attempt < Attempts THEN "rebuild" ELSE "failed"

\* a transient failure: the next of the attempts, or the call throws
TryAgain(c, attempt) == IF attempt < Attempts THEN "prepare" ELSE "failed"

\* getAccount and prepareTransaction: the transaction takes the account's next
\* sequence number and is simulated
Prepare(c) ==
  LET verdict == Verdict(plan[c])
  IN
  /\ pc[c] = "prepare"
  /\ try' = [try EXCEPT ![c][2] = @ + 1]
  /\ \/ /\ pc' = [pc EXCEPT ![c] = CASE verdict = "InvalidAnchor" -> "rebuild"
                                     [] verdict = "Refused" -> "failed"
                                     [] verdict = "Accepted" -> "send"]
        /\ plan' = [plan EXCEPT ![c].seq = account + 1]
     \/ /\ pc' = [pc EXCEPT ![c] = TryAgain(c, try[c][2] + 1)]
        /\ UNCHANGED plan
  /\ UNCHANGED <<chain, notes, lastSync, sync>>

Hash(c) == <<c, try[c][1], try[c][2]>>

\* sendTransaction: taken; or a failure, which may have come after it was taken;
\* or an error, for a sequence number that is used up
Send(c) ==
  LET fresh == plan[c].seq = account + 1
      reached == [h \in DOMAIN txs \cup {Hash(c)} |->
                    IF h = Hash(c) THEN [plan |-> plan[c], status |-> "pending"] ELSE txs[h]]
  IN
  /\ pc[c] = "send"
  /\ \/ fresh /\ txs' = reached /\ pc' = [pc EXCEPT ![c] = "poll"]
     \/ fresh /\ txs' = reached /\ pc' = [pc EXCEPT ![c] = "check"]
     \/ txs' = txs /\ pc' = [pc EXCEPT ![c] = "check"]
     \/ ~fresh /\ txs' = txs /\ pc' = [pc EXCEPT ![c] = "failed"]
  /\ UNCHANGED <<ledger, leaf, spent, indexed, account, notes, lastSync, sync, plan, try>>

\* whether getTransaction knows the hash: it knows what was applied
Applied(h) == h \in DOMAIN txs /\ txs[h].status # "pending"

\* after an ambiguous failure the hash is looked up, and the lookup may fail too
CheckSent(c) ==
  /\ pc[c] = "check"
  /\ \/ Applied(Hash(c)) /\ pc' = [pc EXCEPT ![c] = "poll"]
     \/ pc' = [pc EXCEPT ![c] = TryAgain(c, try[c][2])]
  /\ UNCHANGED <<chain, notes, lastSync, sync, plan, try>>

\* the call returns: the spent notes leave the list, the change enters it
Confirm(c) ==
  LET p == plan[c]
      rest == EntriesAt(notes, {i \in DOMAIN notes : notes[i] \notin p.ins})
      kept == IF Kind[c] = "unshield" /\ p.out[1].value = 0 THEN <<>> ELSE p.out
  IN
  /\ pc[c] = "poll"
  /\ Applied(Hash(c)) /\ txs[Hash(c)].status = "success"
  /\ pc' = [pc EXCEPT ![c] = "done"]
  /\ IF Kind[c] = "shield"
     THEN notes' = notes \o kept /\ UNCHANGED sync
     ELSE Replace(rest \o kept)
  /\ UNCHANGED <<chain, lastSync, plan, try>>

\* the node cannot be reached, the transaction failed, or it was not seen in time
Throw(c) ==
  /\ pc[c] \in {"root", "paths", "rebuild", "poll"}
  /\ pc' = [pc EXCEPT ![c] = "failed"]
  /\ UNCHANGED <<chain, notes, lastSync, sync, plan, try>>

Call(c) ==
  \/ Select(c) \/ ReadRoot(c) \/ Prove(c) \/ Submit(c)
  \/ Prepare(c) \/ Send(c) \/ CheckSent(c) \/ Confirm(c) \/ Throw(c)

Next ==
  \/ OthersAct \/ Index
  \/ \E h \in DOMAIN txs : Land(h)
  \/ Sync
  \/ \E c \in Calls : Call(c)

Spec == Init /\ [][Next]_vars

-----------------------------------------------------------------------------
(* How the application uses the wallet.                                     *)

Running == {c \in Calls : pc[c] \notin {"idle", "built", "done", "failed"}}

\* it awaits every call before it makes the next one
OneAtATime ==
  /\ Cardinality(Running) <= 1
  /\ sync.at # "off" => Running = {}

\* and submits what it has built before it does anything else
SubmitsAtOnce ==
  \A c \in Calls : pc[c] = "built" => sync.at = "off" /\ Running = {}
                                      /\ \A d \in Calls \ {c} : pc[d] # "built"

AwaitingSpec == Init /\ [][Next /\ OneAtATime']_vars
PromptSpec == Init /\ [][Next /\ OneAtATime' /\ SubmitsAtOnce']_vars

-----------------------------------------------------------------------------
Payments(c) == {h \in DOMAIN txs : h[1] = c /\ txs[h].status = "success"}

TypeOK ==
  /\ ledger \in Nat /\ indexed \in 0..ledger /\ account \in Nat
  /\ DOMAIN leaf \subseteq Note /\ DOMAIN spent \subseteq Nullifiers(DOMAIN leaf)
  /\ notes \in Seq(Note) /\ lastSync \in 0..(indexed + 1)
  /\ sync.asked \in Seq(Rho) /\ sync.page \subseteq Note
  /\ plan \in [Calls -> Plan]
  /\ pc \in [Calls -> {"idle", "root", "paths", "built", "prepare", "send", "check", "poll",
                       "rebuild", "done", "failed"}]

\* the notes of the ledgers that the wallet has synced
Synced == {n \in DOMAIN leaf : leaf[n] < lastSync}

\* Between calls, what can be spent of the ledgers already synced can be spent from
\* the list: for each unused nullifier of theirs it has a note.
NothingForgotten ==
  sync.at = "off" /\ Running = {} =>
    \A n \in Synced :
      Nullifier(n) \notin DOMAIN spent => \E m \in ToSet(notes) : Nullifier(m) = Nullifier(n)

\* Between calls the list is the chain's (and everything has its type): nothing
\* forgotten, no note twice, and of the ledgers already synced no two notes that
\* exclude each other and none that was spent by then.
ListMatchesChain ==
  /\ TypeOK /\ NothingForgotten
  /\ sync.at = "off" /\ Running = {} =>
       /\ IsInjective(notes)
       /\ \A m, n \in ToSet(notes) \cap Synced : Nullifier(m) = Nullifier(n) => m = n
       /\ \A n \in ToSet(notes) \cap Synced :
            Nullifier(n) \in DOMAIN spent => spent[Nullifier(n)] >= lastSync

\* A call moves its value at most once, however often it is retried or rebuilt.
PaysOnce == \A c \in Calls : Cardinality(Payments(c)) <= 1
=============================================================================
