------------------------------ MODULE IndexerProofs ------------------------------
(***************************************************************************)
(* Proofs about Indexer.tla: type correctness, and that no event is        *)
(* skipped, for every number of syncers, every page size, and every        *)
(* distribution of events over ledgers.                                    *)
(***************************************************************************)
EXTENDS WalletFeed, DataTheorems, SequenceTheorems

\* what a position of the chain holds
ChainEvent == [kind : {"note", "nf"}, ledger : Nat]

---------------------------------------------------------------------------
(* The inductive invariant. *)

\* Events are on the chain in the order of their ledgers, none of which is ahead
\* of the tip: any ledger cuts the chain in two.
ChainOrdered ==
  /\ \A e \in 1..Len(chain) : chain[e].ledger \in StartLedger..tip
  /\ \A ledger \in Nat : \E k \in 0..Len(chain) :
       /\ \A e \in 1..k : chain[e].ledger < ledger
       /\ \A e \in (k + 1)..Len(chain) : chain[e].ledger >= ledger

StoredBefore(ledger) == \A e \in 1..Len(chain) : chain[e].ledger < ledger => e \in stored
StoredUpTo(last) == \A e \in 1..last : e \in stored

\* The ledger a sync resumes from has nothing behind it that is not stored.
ResumeOK(ledger) == ledger \in StartLedger..(tip + 1) /\ StoredBefore(ledger)

\* What a request leaves out is stored.
RequestOK(s) ==
  pc[s] = "request" =>
    IF token[s] = NoToken THEN ResumeOK(from[s])
    ELSE token[s] \in 1..Len(chain) /\ StoredUpTo(token[s])

\* What is left of a page is its end, and what is before that is stored; a page
\* that is not full has every event up to the latest ledger of its response.
PageOK(s) ==
  pc[s] = "store" =>
    /\ response[s].latest \in StartLedger..tip
    /\ response[s].full => response[s].last # NoToken
    /\ IF response[s].last = NoToken
         THEN page[s] = << >> /\ StoredBefore(response[s].latest + 1)
         ELSE /\ response[s].last \in 1..Len(chain)
              /\ Len(page[s]) <= response[s].last
              /\ StoredUpTo(response[s].last - Len(page[s]))
              /\ \A i \in 1..Len(page[s]) :
                   page[s][i] = response[s].last - Len(page[s]) + i
              /\ response[s].full \/ \A e \in 1..Len(chain) :
                   chain[e].ledger <= response[s].latest => e <= response[s].last

Inv ==
  /\ TypeOK
  /\ ChainOrdered
  /\ ResumeOK(synced)
  /\ \A s \in Syncers : RequestOK(s) /\ PageOK(s)

LEMMA InvInitially == Init => Inv
<1>. SUFFICES ASSUME Init PROVE Inv
  OBVIOUS
<1>1. chain = << >> /\ Len(chain) = 0 /\ chain \in Seq(ChainEvent)
  BY DEF Init
<1>2. TypeOK
  BY <1>1, IndexerAssumption DEF Init, TypeOK, ChainEvent
<1>3. ChainOrdered
  <2>1. 0 \in 0..Len(chain)
    BY <1>1
  <2>. QED
    BY <1>1, <2>1 DEF ChainOrdered
<1>4. ResumeOK(synced)
  BY <1>1, IndexerAssumption DEF Init, ResumeOK, StoredBefore
<1>. QED
  BY <1>2, <1>3, <1>4 DEF Init, Inv, RequestOK, PageOK

---------------------------------------------------------------------------
(* What a request asks for is the end of the chain. *)

LEMMA LedgersAreNumbers ==
  ASSUME Inv
  PROVE  \A e \in 1..Len(chain) : chain[e].ledger \in Nat
<1>1. tip \in Nat /\ StartLedger \in Nat
  BY IndexerAssumption DEF Inv, TypeOK
<1>2. \A e \in 1..Len(chain) : chain[e].ledger \in StartLedger..tip
  BY DEF Inv, ChainOrdered
<1>. QED
  BY <1>1, <1>2

LEMMA Suffix ==
  ASSUME NEW n \in Nat, NEW k \in 0..n, NEW S, S = (k + 1)..n, S # {}
  PROVE  /\ k < n
         /\ Min(S) = k + 1
         /\ Cardinality(S) = n - k
<1>1. k < n
  OBVIOUS
<1>2. k + 1 \in S /\ \A e \in S : k + 1 <= e /\ e \in Int
  BY <1>1
<1>3. Min(S) = k + 1
  BY <1>2 DEF Min
<1>4. k + 1 \in Int /\ n \in Int
  OBVIOUS
<1>5. Cardinality((k + 1)..n) = IF k + 1 > n THEN 0 ELSE n - (k + 1) + 1
  BY <1>4, FS_Interval
<1>. QED
  BY <1>1, <1>3, <1>5

LEMMA FunctionIsSequence ==
  ASSUME NEW S, NEW m \in Nat, NEW f \in [1..m -> S]
  PROVE  f \in Seq(S) /\ Len(f) = m
<1>1. f \in Seq(S)
  BY SeqDef
<1>2. Len(f) \in Nat /\ DOMAIN f = 1..Len(f)
  BY <1>1, LenProperties
<1>. QED
  BY <1>1, <1>2

LEMMA MinOfTwo ==
  ASSUME NEW a \in Nat, NEW b \in Nat
  PROVE  Min({a, b}) = IF a <= b THEN a ELSE b
BY DEF Min

\* ... and everything before it is stored.
LEMMA WantedIsSuffix ==
  ASSUME Inv, NEW s \in Syncers, pc[s] = "request"
  PROVE  \E k \in 0..Len(chain) : Wanted(s) = (k + 1)..Len(chain) /\ StoredUpTo(k)
<1>1. Len(chain) \in Nat /\ Events = 1..Len(chain)
  BY LenProperties DEF Inv, TypeOK, Events
<1>2. CASE token[s] # NoToken
  <2>1. token[s] \in 1..Len(chain) /\ StoredUpTo(token[s])
    BY <1>2 DEF Inv, RequestOK
  <2>2. Wanted(s) = (token[s] + 1)..Len(chain)
    BY <1>1, <1>2, <2>1 DEF Wanted
  <2>. QED
    BY <1>1, <2>1, <2>2
<1>3. CASE token[s] = NoToken
  <2>1. from[s] \in Nat /\ StoredBefore(from[s])
    BY <1>3 DEF Inv, TypeOK, RequestOK, ResumeOK
  <2>2. PICK k \in 0..Len(chain) :
          /\ \A e \in 1..k : chain[e].ledger < from[s]
          /\ \A e \in (k + 1)..Len(chain) : chain[e].ledger >= from[s]
    BY <2>1 DEF Inv, ChainOrdered
  <2>3. \A e \in 1..Len(chain) : chain[e].ledger \in Nat
    BY LedgersAreNumbers
  <2>4. Wanted(s) = (k + 1)..Len(chain)
    <3>1. \A e \in 1..Len(chain) : chain[e].ledger >= from[s] <=> e \in (k + 1)..Len(chain)
      BY <1>1, <2>1, <2>2, <2>3
    <3>2. Wanted(s) = {e \in 1..Len(chain) : chain[e].ledger >= from[s]}
      BY <1>1, <1>3 DEF Wanted
    <3>. QED
      BY <1>1, <3>1, <3>2
  <2>5. StoredUpTo(k)
    BY <1>1, <2>1, <2>2 DEF StoredUpTo, StoredBefore
  <2>. QED
    BY <2>4, <2>5
<1>. QED
  BY <1>2, <1>3

---------------------------------------------------------------------------
(* The steps. *)

\* A step of one syncer leaves the others as they are, and forgets no event.
LEMMA OthersKept ==
  ASSUME Inv, NEW s \in Syncers, TypeOK', ChainOrdered', tip' = tip, chain' = chain,
         stored \subseteq stored', ResumeOK(synced)', RequestOK(s)', PageOK(s)',
         \A t \in Syncers \ {s} :
           /\ pc'[t] = pc[t] /\ from'[t] = from[t] /\ token'[t] = token[t]
           /\ page'[t] = page[t] /\ response'[t] = response[t]
  PROVE  Inv'
<1>1. ASSUME NEW t \in Syncers \ {s}
      PROVE  RequestOK(t)'
  BY <1>1 DEF Inv, RequestOK, ResumeOK, StoredBefore, StoredUpTo
<1>2. ASSUME NEW t \in Syncers \ {s}
      PROVE  PageOK(t)'
  <2>1. PageOK(t)
    BY DEF Inv
  <2>2. /\ \A k : StoredUpTo(k) => StoredUpTo(k)'
        /\ \A l : StoredBefore(l) => StoredBefore(l)'
    BY DEF StoredUpTo, StoredBefore
  <2>. QED
    BY <2>1, <2>2 DEF PageOK
<1>. QED
  BY <1>1, <1>2 DEF Inv

LEMMA BeginSyncStep ==
  ASSUME Inv, NEW s \in Syncers, BeginSync(s)
  PROVE  Inv'
<1>1. TypeOK'
  BY DEF Inv, TypeOK, BeginSync, Events
<1>2. RequestOK(s)' /\ PageOK(s)'
  BY DEF Inv, TypeOK, BeginSync, RequestOK, PageOK, ResumeOK, StoredBefore
<1>3. ChainOrdered' /\ ResumeOK(synced)'
  BY DEF Inv, BeginSync, ChainOrdered, ResumeOK, StoredBefore
<1>. QED
  BY <1>1, <1>2, <1>3, OthersKept DEF BeginSync, Inv, TypeOK

LEMMA GetEventsTooEarlyStep ==
  ASSUME Inv, NEW s \in Syncers, GetEventsTooEarly(s)
  PROVE  Inv'
<1>1. TypeOK'
  BY DEF Inv, TypeOK, GetEventsTooEarly, Events
<1>2. RequestOK(s)' /\ PageOK(s)'
  BY DEF Inv, TypeOK, GetEventsTooEarly, RequestOK, PageOK
<1>3. ChainOrdered' /\ ResumeOK(synced)'
  BY DEF Inv, GetEventsTooEarly, ChainOrdered, ResumeOK, StoredBefore
<1>. QED
  BY <1>1, <1>2, <1>3, OthersKept DEF GetEventsTooEarly, Inv, TypeOK

LEMMA FaultStep ==
  ASSUME Inv, NEW s \in Syncers, Fault(s)
  PROVE  Inv'
<1>1. TypeOK'
  BY IndexerAssumption DEF Inv, TypeOK, Fault, Events
<1>2. RequestOK(s)' /\ PageOK(s)'
  BY DEF Inv, TypeOK, Fault, RequestOK, PageOK
<1>3. ChainOrdered' /\ ResumeOK(synced)'
  BY DEF Inv, Fault, ChainOrdered, ResumeOK, StoredBefore
<1>. QED
  BY <1>1, <1>2, <1>3, OthersKept DEF Fault, Inv, TypeOK

LEMMA FinishPageStep ==
  ASSUME Inv, NEW s \in Syncers, FinishPage(s)
  PROVE  Inv'
<1>1. Len(chain) \in Nat /\ Events = 1..Len(chain) /\ tip \in Nat
  BY LenProperties DEF Inv, TypeOK, Events
<1>2. PageOK(s) /\ pc[s] = "store" /\ page[s] = << >> /\ Len(page[s]) = 0
  BY DEF Inv, FinishPage
<1>3. /\ response[s].full \in BOOLEAN
      /\ response[s].last \in Nat \cup {NoToken}
      /\ response[s].latest \in StartLedger..tip
  BY <1>2 DEF Inv, TypeOK, PageOK
<1>4. response[s].last # NoToken =>
        response[s].last \in 1..Len(chain) /\ StoredUpTo(response[s].last)
  BY <1>2, <1>3 DEF PageOK
<1>5. ResumeOK(ResumeLedger(s))
  <2>1. CASE response[s].full
    <3>. DEFINE last == response[s].last
    <3>1. last \in 1..Len(chain) /\ StoredUpTo(last) /\ ResumeLedger(s) = chain[last].ledger
      BY <1>2, <1>4, <2>1 DEF PageOK, ResumeLedger
    <3>2. chain[last].ledger \in StartLedger..tip /\ chain[last].ledger \in Nat
      BY <3>1, LedgersAreNumbers DEF Inv, ChainOrdered
    <3>3. PICK k \in 0..Len(chain) :
            /\ \A e \in 1..k : chain[e].ledger < chain[last].ledger
            /\ \A e \in (k + 1)..Len(chain) : chain[e].ledger >= chain[last].ledger
      BY <3>2 DEF Inv, ChainOrdered
    <3>4. last > k
      BY <1>1, <3>1, <3>2, <3>3
    <3>5. \A e \in 1..Len(chain) : chain[e].ledger \in Nat
      BY LedgersAreNumbers
    <3>6. \A e \in 1..Len(chain) : chain[e].ledger < chain[last].ledger => e \in 1..k
      BY <1>1, <3>2, <3>3, <3>5
    <3>7. StoredBefore(chain[last].ledger)
      BY <1>1, <3>1, <3>4, <3>6 DEF StoredBefore, StoredUpTo
    <3>. QED
      BY <1>1, <3>1, <3>2, <3>7, IndexerAssumption DEF ResumeOK
  <2>2. CASE ~response[s].full
    <3>1. ResumeLedger(s) = response[s].latest + 1
      BY <2>2 DEF ResumeLedger
    <3>2. \A e \in 1..Len(chain) : chain[e].ledger \in Nat
      BY LedgersAreNumbers
    <3>3. StoredBefore(response[s].latest + 1)
      <4>1. CASE response[s].last = NoToken
        BY <1>2, <4>1 DEF PageOK
      <4>2. CASE response[s].last # NoToken
        <5>1. \A e \in 1..Len(chain) :
                chain[e].ledger <= response[s].latest => e \in 1..response[s].last
          BY <1>1, <1>2, <1>4, <2>2, <4>2 DEF PageOK
        <5>. QED
          BY <1>1, <1>3, <1>4, <3>2, <4>2, <5>1, IndexerAssumption DEF StoredBefore, StoredUpTo
      <4>. QED
        BY <4>1, <4>2
    <3>. QED
      BY <1>1, <1>3, <3>1, <3>3, IndexerAssumption DEF ResumeOK
  <2>. QED
    BY <1>3, <2>1, <2>2
<1>6. TypeOK'
  <2>1. synced' \in Nat
    BY <1>1, <1>5, IndexerAssumption DEF FinishPage, ResumeOK
  <2>. QED
    BY <1>3, <2>1 DEF Inv, TypeOK, FinishPage, Events
<1>7. RequestOK(s)' /\ PageOK(s)'
  BY <1>1, <1>2, <1>3, <1>4
     DEF Inv, TypeOK, FinishPage, RequestOK, PageOK, StoredUpTo
<1>8. ChainOrdered' /\ ResumeOK(synced)'
  BY <1>5 DEF Inv, FinishPage, ChainOrdered, ResumeOK, StoredBefore
<1>. QED
  BY <1>6, <1>7, <1>8, OthersKept DEF FinishPage, Inv, TypeOK

LEMMA StoreEventStep ==
  ASSUME Inv, NEW s \in Syncers, StoreEvent(s)
  PROVE  Inv'
<1>. DEFINE last == response[s].last
            left == Len(page[s])
<1>1. /\ Len(chain) \in Nat /\ Events = 1..Len(chain)
      /\ left \in Nat /\ left > 0
      /\ page[s] \in Seq(Nat) /\ page[s] # << >>
  <2>1. page[s] \in Seq(Nat) /\ page[s] # << >> /\ chain \in Seq(ChainEvent)
    BY DEF Inv, TypeOK, StoreEvent, ChainEvent
  <2>. QED
    BY <2>1, LenProperties, EmptySeq DEF Events
<1>2. /\ Head(page[s]) = page[s][1]
      /\ Tail(page[s]) \in Seq(Nat)
      /\ Len(Tail(page[s])) = left - 1
      /\ \A i \in 1..(left - 1) : Tail(page[s])[i] = page[s][i + 1]
  BY <1>1, HeadTailProperties
<1>3. /\ last # NoToken /\ last \in 1..Len(chain) /\ left <= last
      /\ StoredUpTo(last - left)
      /\ \A i \in 1..left : page[s][i] = last - left + i
  BY <1>1 DEF Inv, PageOK, StoreEvent
<1>4. Head(page[s]) = last - left + 1 /\ Head(page[s]) \in 1..Len(chain)
  <2>1. page[s][1] = last - left + 1
    BY <1>1, <1>3
  <2>2. last - left + 1 \in 1..Len(chain)
    <3>. HIDE DEF last, left
    <3>. QED
      BY <1>1, <1>3
  <2>. QED
    BY <1>2, <2>1, <2>2
<1>5. stored' = stored \cup {Head(page[s])} /\ page'[s] = Tail(page[s])
  BY DEF Inv, TypeOK, StoreEvent
<1>6. TypeOK'
  BY <1>1, <1>2, <1>4, <1>5 DEF Inv, TypeOK, StoreEvent, Events
<1>7. PageOK(s)'
  <2>1. ASSUME NEW e \in 1..(last - (left - 1)) PROVE e \in stored'
    <3>1. left \in Nat /\ last \in Nat /\ e \in Nat
      BY <1>1, <1>3
    <3>2. e \in 1..(last - left) \/ e = last - left + 1
      <4>. HIDE DEF last, left
      <4>. QED
        BY <3>1
    <3>3. CASE e \in 1..(last - left)
      BY <1>3, <1>5, <3>3 DEF StoredUpTo
    <3>4. CASE e = last - left + 1
      BY <1>4, <1>5, <3>4
    <3>. QED
      BY <3>2, <3>3, <3>4
  <2>2. \A i \in 1..(left - 1) : page'[s][i] = last - (left - 1) + i
    <3>. SUFFICES ASSUME NEW i \in 1..(left - 1)
                  PROVE  page'[s][i] = last - (left - 1) + i
      OBVIOUS
    <3>1. i + 1 \in 1..left /\ i \in Int /\ last \in Int /\ left \in Int
      BY <1>1, <1>3
    <3>2. page'[s][i] = page[s][i + 1]
      BY <1>2, <1>5
    <3>3. page[s][i + 1] = last - left + (i + 1)
      BY <1>3, <3>1
    <3>4. last - left + (i + 1) = last - (left - 1) + i
      BY <3>1
    <3>. QED
      BY <3>2, <3>3, <3>4
  <2>3. Len(page'[s]) = left - 1
    BY <1>2, <1>5
  <2>4. /\ response[s].latest \in StartLedger..tip
        /\ response[s].full \/ \A e \in 1..Len(chain) :
             chain[e].ledger <= response[s].latest => e <= last
    BY <1>3 DEF Inv, PageOK, StoreEvent
  <2>. QED
    BY <1>1, <1>3, <2>1, <2>2, <2>3, <2>4 DEF StoreEvent, PageOK, StoredUpTo
<1>8. RequestOK(s)'
  BY DEF StoreEvent, RequestOK
<1>9. ChainOrdered' /\ ResumeOK(synced)'
  BY DEF Inv, StoreEvent, ChainOrdered, ResumeOK, StoredBefore
<1>. QED
  BY <1>6, <1>7, <1>8, <1>9, OthersKept DEF StoreEvent, Inv, TypeOK

LEMMA GetEventsStep ==
  ASSUME Inv, NEW s \in Syncers, GetEvents(s)
  PROVE  Inv'
<1>. DEFINE first == IF Wanted(s) = {} THEN 0 ELSE Min(Wanted(s))
            count == Min({Cardinality(Wanted(s)), PageLimit})
            n == Len(chain)
<1>1. n \in Nat /\ Events = 1..n /\ tip \in Nat /\ StartLedger \in Nat /\ StartLedger <= tip
  BY LenProperties, IndexerAssumption DEF Inv, TypeOK, Events
<1>2. /\ pc[s] = "request"
      /\ tip' = tip /\ chain' = chain /\ stored' = stored /\ synced' = synced
      /\ from' = from /\ token' = token
      /\ \A t \in Syncers \ {s} :
           pc'[t] = pc[t] /\ page'[t] = page[t] /\ response'[t] = response[t]
  BY DEF GetEvents, Inv, TypeOK
<1>3. /\ pc'[s] = "store"
      /\ page'[s] = [i \in 1..count |-> first + i - 1]
      /\ response'[s].full <=> count = PageLimit
      /\ response'[s].last = (IF count = 0 THEN NoToken ELSE first + count - 1)
      /\ response'[s].latest = tip
      /\ response'[s] = [full |-> count = PageLimit,
                         last |-> IF count = 0 THEN NoToken ELSE first + count - 1,
                         latest |-> tip]
  BY DEF GetEvents, Inv, TypeOK
<1>. HIDE DEF first, count
<1>4. PICK k \in 0..n : Wanted(s) = (k + 1)..n /\ StoredUpTo(k)
  BY <1>2, WantedIsSuffix
<1>5. PageLimit \in Nat /\ PageLimit > 0 /\ NoToken \notin Nat
  BY IndexerAssumption
<1>6. Cardinality(Wanted(s)) = n - k
  <2>1. k + 1 \in Int /\ n \in Int
    BY <1>1
  <2>2. Cardinality((k + 1)..n) = IF k + 1 > n THEN 0 ELSE n - (k + 1) + 1
    BY <2>1, FS_Interval
  <2>. QED
    BY <1>1, <1>4, <2>2
<1>7. /\ count \in Nat /\ count <= n - k /\ count <= PageLimit
      /\ count # PageLimit => count = n - k
  <2>1. n - k \in Nat
    BY <1>1
  <2>2. count = IF n - k <= PageLimit THEN n - k ELSE PageLimit
    BY <1>5, <1>6, <2>1, MinOfTwo DEF count
  <2>. QED
    BY <1>5, <2>1, <2>2
<1>8. count # 0 => first = k + 1
  <2>. SUFFICES ASSUME count # 0 PROVE first = k + 1
    OBVIOUS
  <2>1. (k + 1)..n # {}
    BY <1>1, <1>7
  <2>. QED
    BY <1>1, <1>4, <2>1, Suffix DEF first
<1>9. /\ page'[s] \in Seq(Nat) /\ Len(page'[s]) = count
      /\ count = 0 => page'[s] = << >>
      /\ count # 0 => \A i \in 1..count : page'[s][i] = k + i
  <2>1. page'[s] \in [1..count -> Nat]
    <3>1. CASE count = 0
      BY <1>3, <3>1
    <3>2. CASE count # 0
      BY <1>1, <1>3, <1>7, <1>8, <3>2
    <3>. QED
      BY <3>1, <3>2
  <2>2. page'[s] \in Seq(Nat) /\ Len(page'[s]) = count
    BY <1>7, <2>1, FunctionIsSequence
  <2>3. count = 0 => page'[s] = << >>
    BY <2>2, EmptySeq
  <2>4. count # 0 => \A i \in 1..count : page'[s][i] = k + i
    BY <1>1, <1>3, <1>7, <1>8
  <2>. QED
    BY <2>2, <2>3, <2>4
<1>10. count # 0 => response'[s].last = k + count /\ k + count \in 1..n
  <2>. SUFFICES ASSUME count # 0 PROVE response'[s].last = k + count /\ k + count \in 1..n
    OBVIOUS
  <2>1. k + count \in 1..n /\ (k + 1) + count - 1 = k + count
    BY <1>1, <1>7
  <2>2. response'[s].last = first + count - 1 /\ first = k + 1
    BY <1>3, <1>8
  <2>. QED
    BY <2>1, <2>2
<1>11. TypeOK'
  <2>1. response'[s] \in [full : BOOLEAN, last : Nat \cup {NoToken}, latest : Nat]
    BY <1>1, <1>3, <1>10
  <2>2. page' \in [Syncers -> Seq(Nat)]
    BY <1>9 DEF GetEvents, Inv, TypeOK
  <2>3. response' \in
          [Syncers -> [full : BOOLEAN, last : Nat \cup {NoToken}, latest : Nat]]
    BY <2>1 DEF GetEvents, Inv, TypeOK
  <2>. QED
    BY <2>2, <2>3 DEF GetEvents, Inv, TypeOK, Events
<1>12. PageOK(s)'
  <2>1. response'[s].latest \in StartLedger..tip
    BY <1>1, <1>3
  <2>2. response'[s].full => response'[s].last # NoToken
    <3>1. response'[s].full => count # 0
      BY <1>3, <1>5
    <3>. QED
      BY <1>1, <1>5, <1>10, <3>1
  <2>3. CASE count = 0
    <3>1. response'[s].last = NoToken /\ page'[s] = << >>
      BY <1>3, <1>9, <2>3
    <3>2. k = n
      BY <1>1, <1>5, <1>7, <2>3
    <3>3. StoredBefore(tip + 1)'
      BY <1>2, <1>4, <3>2 DEF StoredBefore, StoredUpTo
    <3>. QED
      BY <1>2, <1>3, <2>1, <2>2, <3>1, <3>3 DEF PageOK
  <2>4. CASE count # 0
    <3>1. response'[s].last = k + count /\ k + count \in 1..n /\ response'[s].last # NoToken
      BY <1>1, <1>5, <1>10, <2>4
    <3>2. Len(page'[s]) = count /\ count <= k + count /\ (k + count) - count = k
      BY <1>1, <1>7, <1>9
    <3>3. \A i \in 1..count : page'[s][i] = k + i
      BY <1>9, <2>4
    <3>4. response'[s].full \/ k + count = n
      BY <1>1, <1>3, <1>7
    <3>5. \A e \in 1..n : e <= n
      BY <1>1
    <3>6. StoredUpTo(k)'
      BY <1>2, <1>4 DEF StoredUpTo
    <3>7. Len(chain') = n
      BY <1>2
    <3>8. response'[s].last - Len(page'[s]) = k
      BY <3>1, <3>2
    <3>9. response'[s].full \/ \A e \in 1..Len(chain') :
            chain'[e].ledger <= response'[s].latest => e <= response'[s].last
      BY <3>1, <3>4, <3>5, <3>7
    <3>10. \A i \in 1..Len(page'[s]) :
             page'[s][i] = response'[s].last - Len(page'[s]) + i
      BY <3>2, <3>3, <3>8
    <3>11. Len(page'[s]) <= response'[s].last /\ response'[s].last \in 1..Len(chain')
      BY <3>1, <3>2, <3>7
    <3>12. \A e \in 1..(response'[s].last - Len(page'[s])) : e \in stored'
      BY <3>6, <3>8 DEF StoredUpTo
    <3>. QED
      BY <1>2, <2>1, <2>2, <3>1, <3>9, <3>10, <3>11, <3>12 DEF PageOK, StoredUpTo
  <2>. QED
    BY <2>3, <2>4
<1>13. RequestOK(s)'
  BY <1>3 DEF RequestOK
<1>14. ChainOrdered' /\ ResumeOK(synced)'
  BY <1>2 DEF Inv, ChainOrdered, ResumeOK, StoredBefore
<1>. QED
  BY <1>2, <1>11, <1>12, <1>13, <1>14, OthersKept

\* New events come after all others, in a ledger of their own.
LEMMA CloseLedgerStep ==
  ASSUME Inv, NEW m \in Nat, NEW kinds \in [1..m -> {"note", "nf"}], CloseLedger(kinds)
  PROVE  Inv'
<1>. DEFINE n == Len(chain)
            new == [i \in 1..m |-> [kind |-> kinds[i], ledger |-> tip + 1]]
<1>1. n \in Nat /\ chain \in Seq(ChainEvent) /\ Events = 1..n /\ tip \in Nat /\ StartLedger \in Nat
      /\ StartLedger <= tip
  BY LenProperties, IndexerAssumption DEF Inv, TypeOK, Events, ChainEvent
<1>2. new \in Seq(ChainEvent) /\ Len(new) = m
  <2>1. new \in [1..m -> ChainEvent]
    BY <1>1 DEF ChainEvent
  <2>. QED
    BY <2>1, FunctionIsSequence
<1>3. chain' = chain \o new /\ tip' = tip + 1 /\ DOMAIN kinds = 1..m
  BY DEF CloseLedger
<1>4. /\ chain' \in Seq(ChainEvent) /\ Len(chain') = n + m
      /\ \A e \in 1..(n + m) : chain'[e] = IF e <= n THEN chain[e] ELSE new[e - n]
  BY <1>1, <1>2, <1>3, ConcatProperties
<1>5. /\ \A e \in 1..n : chain'[e] = chain[e]
      /\ \A e \in (n + 1)..(n + m) : chain'[e].ledger = tip + 1
  <2>1. ASSUME NEW e \in (n + 1)..(n + m)
        PROVE  chain'[e].ledger = tip + 1
    <3>1. e \in 1..(n + m) /\ ~(e <= n) /\ e - n \in 1..m
      BY <1>1, <2>1
    <3>2. chain'[e] = new[e - n]
      BY <1>4, <3>1
    <3>. QED
      BY <3>1, <3>2
  <2>2. \A e \in 1..n : e \in 1..(n + m) /\ e <= n
    BY <1>1
  <2>. QED
    BY <1>4, <2>1, <2>2
<1>6. TypeOK'
  <2>1. Events' = 1..(n + m) /\ 1..n \subseteq 1..(n + m)
    BY <1>1, <1>4, LenProperties DEF Events
  <2>2. stored' \subseteq Events'
    BY <1>1, <2>1 DEF CloseLedger, Inv, TypeOK
  <2>. QED
    BY <1>1, <1>3, <1>4, <2>2 DEF CloseLedger, syncerVars, Inv, TypeOK, ChainEvent
<1>7. ChainOrdered'
  <2>1. ASSUME NEW e \in 1..(n + m)
        PROVE  chain'[e].ledger \in StartLedger..(tip + 1)
    <3>1. CASE e \in 1..n
      <4>1. chain[e].ledger \in StartLedger..tip /\ chain'[e] = chain[e]
        BY <1>5, <3>1 DEF Inv, ChainOrdered
      <4>. QED
        BY <1>1, <4>1
    <3>2. CASE e \in (n + 1)..(n + m)
      BY <1>1, <1>5, <3>2
    <3>. QED
      BY <1>1, <3>1, <3>2
  <2>2. ASSUME NEW ledger \in Nat
        PROVE  \E k \in 0..(n + m) :
                 /\ \A e \in 1..k : chain'[e].ledger < ledger
                 /\ \A e \in (k + 1)..(n + m) : chain'[e].ledger >= ledger
    <3>1. CASE ledger <= tip + 1
      <4>1. PICK k \in 0..n : /\ \A e \in 1..k : chain[e].ledger < ledger
                              /\ \A e \in (k + 1)..n : chain[e].ledger >= ledger
        BY DEF Inv, ChainOrdered
      <4>2. \A e \in 1..k : chain'[e].ledger < ledger
        BY <1>1, <1>5, <4>1
      <4>3. ASSUME NEW e \in (k + 1)..(n + m)
            PROVE  chain'[e].ledger >= ledger
        <5>1. CASE e <= n
          BY <1>1, <1>5, <4>1, <5>1
        <5>2. CASE ~(e <= n)
          <6>1. e \in (n + 1)..(n + m)
            BY <1>1, <5>2
          <6>2. chain'[e].ledger = tip + 1
            BY <1>5, <6>1
          <6>. QED
            BY <1>1, <3>1, <6>2
        <5>. QED
          BY <5>1, <5>2
      <4>. QED
        BY <1>1, <4>2, <4>3
    <3>2. CASE ~(ledger <= tip + 1)
      <4>1. \A e \in 1..(n + m) : chain'[e].ledger < ledger
        BY <1>1, <2>1, <3>2
      <4>2. n + m \in 0..(n + m) /\ ((n + m) + 1)..(n + m) = {}
        BY <1>1
      <4>. QED
        BY <4>1, <4>2
    <3>. QED
      BY <3>1, <3>2
  <2>. QED
    BY <1>3, <1>4, <2>1, <2>2 DEF ChainOrdered
<1>8. ASSUME NEW ledger \in Nat, ResumeOK(ledger)
      PROVE  ResumeOK(ledger)'
  <2>1. ledger \in StartLedger..(tip + 1) /\ StoredBefore(ledger)
    BY <1>8 DEF ResumeOK
  <2>2. ledger \in StartLedger..(tip' + 1)
    BY <1>1, <1>3, <2>1
  <2>3. ASSUME NEW e \in 1..(n + m), chain'[e].ledger < ledger
        PROVE  e \in stored'
    <3>1. CASE e \in 1..n
      BY <1>5, <2>1, <2>3, <3>1 DEF StoredBefore, CloseLedger
    <3>2. CASE e \in (n + 1)..(n + m)
      BY <1>1, <1>5, <2>1, <2>3, <3>2
    <3>. QED
      BY <1>1, <3>1, <3>2
  <2>. QED
    BY <1>4, <2>2, <2>3 DEF ResumeOK, StoredBefore
<1>9. ASSUME NEW t \in Syncers
      PROVE  RequestOK(t)'
  <2>1. from[t] \in Nat /\ RequestOK(t)
    BY DEF Inv, TypeOK
  <2>2. 1..n \subseteq 1..(n + m)
    BY <1>1
  <2>. QED
    BY <1>4, <1>8, <2>1, <2>2 DEF RequestOK, CloseLedger, syncerVars, StoredUpTo
<1>10. ASSUME NEW t \in Syncers, pc[t] = "store"
       PROVE  PageOK(t)'
  <2>1. PageOK(t) /\ response[t].latest \in StartLedger..tip
    BY <1>10 DEF Inv, PageOK
  <2>2. /\ pc' = pc /\ response' = response /\ page' = page /\ stored' = stored
    BY DEF CloseLedger, syncerVars
  <2>3. response[t].latest \in StartLedger..tip'
    BY <1>1, <1>3, <2>1
  <2>4. \A e \in (n + 1)..(n + m) : ~(chain'[e].ledger < response[t].latest + 1)
    BY <1>1, <1>5, <2>1
  <2>5. StoredBefore(response[t].latest + 1) => StoredBefore(response[t].latest + 1)'
    <3>1. \A e \in 1..(n + m) : e \in 1..n \/ e \in (n + 1)..(n + m)
      BY <1>1
    <3>. QED
      BY <1>4, <1>5, <2>2, <2>4, <3>1 DEF StoredBefore
  <2>6. ASSUME NEW e \in 1..(n + m), chain'[e].ledger <= response[t].latest
        PROVE  e \in 1..n /\ chain[e].ledger <= response[t].latest
    <3>1. e \notin (n + 1)..(n + m)
      BY <1>1, <1>5, <2>1, <2>6
    <3>2. e \in 1..n
      BY <1>1, <3>1
    <3>. QED
      BY <1>5, <2>6, <3>2
  <2>7. 1..n \subseteq 1..(n + m)
    BY <1>1
  <2>8. CASE response[t].last = NoToken
    BY <1>10, <2>1, <2>2, <2>3, <2>5, <2>8 DEF PageOK
  <2>9. CASE response[t].last # NoToken
    <3>1. /\ response[t].last \in 1..n
          /\ Len(page[t]) <= response[t].last
          /\ StoredUpTo(response[t].last - Len(page[t]))
          /\ \A i \in 1..Len(page[t]) :
               page[t][i] = response[t].last - Len(page[t]) + i
          /\ response[t].full \/ \A e \in 1..n :
               chain[e].ledger <= response[t].latest => e <= response[t].last
      BY <1>10, <2>1, <2>9 DEF PageOK
    <3>2. response[t].full \/ \A e \in 1..(n + m) :
            chain'[e].ledger <= response[t].latest => e <= response[t].last
      BY <2>6, <3>1
    <3>. QED
      BY <1>4, <2>2, <2>3, <2>7, <2>9, <3>1, <3>2 DEF PageOK, StoredUpTo
  <2>. QED
    BY <2>8, <2>9
<1>11. ASSUME NEW t \in Syncers
       PROVE  PageOK(t)'
  <2>1. CASE pc[t] = "store"
    BY <1>10, <2>1
  <2>2. CASE pc[t] # "store"
    BY <2>2 DEF PageOK, CloseLedger, syncerVars
  <2>. QED
    BY <2>1, <2>2
<1>12. ResumeOK(synced)'
  <2>1. synced \in Nat /\ ResumeOK(synced) /\ synced' = synced
    BY DEF Inv, TypeOK, CloseLedger
  <2>2. ResumeOK(synced)' <=> synced' \in StartLedger..(tip' + 1) /\ StoredBefore(synced)'
    BY DEF ResumeOK
  <2>. QED
    BY <1>8, <2>1 DEF ResumeOK, StoredBefore
<1>. QED
  BY <1>6, <1>7, <1>9, <1>11, <1>12 DEF Inv

LEMMA InvStep == Inv /\ [Next]_vars => Inv'
<1>. SUFFICES ASSUME Inv, [Next]_vars PROVE Inv'
  OBVIOUS
<1>1. CASE ChainStep
  <2>1. PICK m \in 0..MaxEvents : \E kinds \in [1..m -> {"note", "nf"}] : CloseLedger(kinds)
    BY <1>1 DEF ChainStep
  <2>2. m \in Nat
    BY IndexerAssumption
  <2>. QED
    BY <2>1, <2>2, CloseLedgerStep
<1>2. ASSUME NEW s \in Syncers, SyncStep(s)
      PROVE  Inv'
  BY <1>2, BeginSyncStep, GetEventsStep, GetEventsTooEarlyStep, StoreEventStep, FinishPageStep
     DEF SyncStep
<1>3. ASSUME NEW s \in Syncers, Fault(s)
      PROVE  Inv'
  BY <1>3, FaultStep
<1>4. CASE UNCHANGED vars
  BY <1>4
     DEF vars, syncerVars, Inv, TypeOK, Events, ChainOrdered, ResumeOK, StoredBefore, StoredUpTo,
         RequestOK, PageOK
<1>. QED
  BY <1>1, <1>2, <1>3, <1>4 DEF Next

LEMMA InvImplies == Inv => NothingSkipped
BY LenProperties DEF Inv, TypeOK, ResumeOK, StoredBefore, NothingSkipped, Events

\* Every value is of the type the tables and the node's answers declare.
THEOREM IndexerTypes == Spec => []TypeOK
<1>. QED
  BY InvInitially, InvStep, PTL DEF Spec, Inv

\* The ledger a syncer resumes from never passes an event that is not in the
\* database: for every page size, also when pages end within ledgers; for every
\* number of syncers that share the database; and for failures and restarts
\* between any two awaits.
THEOREM IndexerSkipsNothing == Spec => []NothingSkipped
<1>. QED
  BY InvInitially, InvStep, InvImplies, PTL DEF Spec

---------------------------------------------------------------------------
(* What a wallet is served. *)

FeedInv == Inv /\ cursor \in Nat /\ lastSync \in 0..cursor

LEMMA EventsAreOrdered ==
  ASSUME Inv, NEW e \in 1..Len(chain), NEW f \in 1..Len(chain), e <= f
  PROVE  chain[e].ledger <= chain[f].ledger
<1>1. Len(chain) \in Nat /\ chain[e].ledger \in Nat /\ chain[f].ledger \in Nat
  BY LenProperties, LedgersAreNumbers DEF Inv, TypeOK
<1>2. PICK k \in 0..Len(chain) :
        /\ \A d \in 1..k : chain[d].ledger < chain[e].ledger
        /\ \A d \in (k + 1)..Len(chain) : chain[d].ledger >= chain[e].ledger
  BY <1>1 DEF Inv, ChainOrdered
<1>3. e > k
  BY <1>1, <1>2
<1>. QED
  BY <1>1, <1>2, <1>3

\* What is stored from a ledger on, and the first of it.
Found(ledger) == StoredNotesFrom(ledger)
First(ledger) == {e \in Found(ledger) : Cardinality({f \in Found(ledger) : f < e}) < NotesLimit}

LEMMA FoundFacts ==
  ASSUME Inv, NEW ledger
  PROVE  /\ Len(chain) \in Nat
         /\ Found(ledger) \in SUBSET (0..Len(chain)) /\ Found(ledger) \subseteq 1..Len(chain)
         /\ First(ledger) = Found(ledger) \/ Cardinality(First(ledger)) = NotesLimit
<1>1. Len(chain) \in Nat /\ Events = 1..Len(chain) /\ stored \subseteq Events
  BY LenProperties DEF Inv, TypeOK, Events
<1>2. Found(ledger) \in SUBSET (0..Len(chain)) /\ Found(ledger) \subseteq 1..Len(chain)
  <2>1. Found(ledger) \subseteq stored
    BY DEF Found, StoredNotesFrom
  <2>2. 1..Len(chain) \subseteq 0..Len(chain)
    BY <1>1
  <2>3. Found(ledger) \subseteq 1..Len(chain)
    BY <1>1, <2>1
  <2>. QED
    BY <2>2, <2>3
<1>3. First(ledger) = Found(ledger) \/ Cardinality(First(ledger)) = NotesLimit
  BY <1>1, <1>2, IndexerAssumption, FirstMembers DEF First
<1>. QED
  BY <1>1, <1>2, <1>3

LEMMA PageFacts ==
  ASSUME Inv, NEW ledger
  PROVE  GetNotesFrom(ledger) =
           {e \in Found(ledger) :
              \E f \in First(ledger) : e <= f \/ (Cardinality(First(ledger)) = NotesLimit
                                                     /\ chain[e].ledger = chain[f].ledger)}
BY DEF GetNotesFrom, First, Found

\* A page has every stored note up to the ledger of its last one.
LEMMA PageIsComplete ==
  ASSUME Inv, NEW ledger, NEW last \in GetNotesFrom(ledger),
         \A e \in GetNotesFrom(ledger) : e <= last,
         NEW e \in Found(ledger), chain[e].ledger <= chain[last].ledger
  PROVE  e \in GetNotesFrom(ledger)
<1>. DEFINE notes == GetNotesFrom(ledger)
            first == First(ledger)
            found == Found(ledger)
            full == Cardinality(first) = NotesLimit
<1>1. found \subseteq 1..Len(chain) /\ Len(chain) \in Nat /\ (first = found \/ full)
      /\ first \subseteq found
  BY FoundFacts DEF First
<1>2. notes = {d \in found : \E f \in first : d <= f \/ (full /\ chain[d].ledger = chain[f].ledger)}
  BY PageFacts
<1>3. \A d \in 1..Len(chain) : chain[d].ledger \in Nat
  BY LedgersAreNumbers
<1>4. \A c, d \in 1..Len(chain) : c <= d => chain[c].ledger <= chain[d].ledger
  BY EventsAreOrdered
<1>. HIDE DEF notes, first, found, full
<1>5. PICK f \in first : last <= f \/ (full /\ chain[last].ledger = chain[f].ledger)
  BY <1>2 DEF notes
<1>6. first \subseteq notes
  BY <1>1, <1>2
<1>7. chain[last].ledger = chain[f].ledger
  <2>1. f \in notes /\ f \in found /\ last \in found
    BY <1>1, <1>2, <1>5, <1>6 DEF notes
  <2>2. f \in Nat /\ last \in Nat
    BY <1>1, <2>1
  <2>3. f <= last
    BY <2>1 DEF notes
  <2>4. last <= f => last = f
    BY <2>2, <2>3
  <2>. QED
    BY <1>5, <2>4
<1>8. CASE first = found
  BY <1>1, <1>2, <1>8 DEF found, notes
<1>9. CASE full
  <2>1. e \in found /\ e \in 1..Len(chain) /\ f \in 1..Len(chain)
    BY <1>1, <1>5 DEF found
  <2>2. CASE e <= f
    BY <1>2, <1>5, <2>1, <2>2 DEF notes
  <2>3. CASE f <= e
    <3>1. chain[e].ledger = chain[f].ledger
      BY <1>3, <1>4, <1>7, <2>1, <2>3
    <3>. QED
      BY <1>2, <1>5, <1>9, <2>1, <3>1 DEF notes
  <2>. QED
    BY <2>1, <2>2, <2>3
<1>. QED
  BY <1>1, <1>8, <1>9

LEMMA LastOfPage ==
  ASSUME Inv, NEW ledger, GetNotesFrom(ledger) # {}
  PROVE  /\ Max(GetNotesFrom(ledger)) \in GetNotesFrom(ledger)
         /\ \A e \in GetNotesFrom(ledger) : e <= Max(GetNotesFrom(ledger))
<1>. DEFINE S == GetNotesFrom(ledger)
<1>1. Len(chain) \in Nat /\ S \in SUBSET (0..Len(chain))
  BY FoundFacts, PageFacts
<1>. HIDE DEF S
<1>2. \E m \in S : \A x \in S : x <= m
  BY <1>1, GreatestMember DEF S
<1>3. \E m \in S : \A x \in S : m >= x
  BY <1>1, <1>2
<1>4. Max(S) \in S /\ \A x \in S : Max(S) >= x
  BY <1>3 DEF Max
<1>. QED
  BY <1>1, <1>4 DEF S

LEMMA FetchStep ==
  ASSUME FeedInv, FetchNotes
  PROVE  /\ FeedInv'
         /\ \A e \in StoredNotesFrom(cursor) : chain[e].ledger < cursor' => e \in received'
<1>. DEFINE notes == GetNotesFrom(cursor)
            last == Max(notes)
<1>0. Inv /\ cursor \in Nat /\ lastSync \in 0..cursor
  BY DEF FeedInv
<1>1. Inv'
  BY <1>0, InvStep DEF FetchNotes
<1>2. /\ UNCHANGED vars /\ received' = received \cup notes
      /\ cursor' \in {cursor, NextLedger(cursor, notes)} /\ lastSync' \in {cursor, lastSync}
  BY DEF FetchNotes
<1>3. \A e \in StoredNotesFrom(cursor) : chain[e].ledger \in Nat /\ chain[e].ledger >= cursor
  <2>1. \A e \in StoredNotesFrom(cursor) : e \in 1..Len(chain)
    BY <1>0, FoundFacts DEF Found
  <2>. QED
    BY <1>0, <2>1, LedgersAreNumbers DEF StoredNotesFrom
<1>4. CASE cursor' = cursor
  BY <1>0, <1>1, <1>2, <1>3, <1>4 DEF FeedInv
<1>5. CASE cursor' # cursor
  <2>1. notes # {} /\ cursor' = chain[last].ledger + 1
    BY <1>2, <1>5 DEF NextLedger
  <2>2. last \in notes /\ \A e \in notes : e <= last
    BY <1>0, <2>1, LastOfPage
  <2>3. chain[last].ledger \in Nat
    BY <1>0, <2>2, FoundFacts, PageFacts, LedgersAreNumbers
  <2>4. ASSUME NEW e \in StoredNotesFrom(cursor), chain[e].ledger < cursor'
        PROVE  e \in notes
    <3>1. e \in Found(cursor) /\ chain[e].ledger <= chain[last].ledger
      BY <1>3, <2>1, <2>3, <2>4 DEF Found
    <3>. HIDE DEF last
    <3>. QED
      BY <1>0, <2>2, <3>1, PageIsComplete
  <2>. HIDE DEF notes, last
  <2>5. cursor' \in Nat /\ cursor' > cursor
    <3>1. ~(cursor' <= cursor)
      BY <1>5 DEF FetchNotes, notes
    <3>2. cursor' \in Nat
      BY <2>1, <2>3
    <3>. QED
      BY <1>0, <3>1, <3>2
  <2>6. lastSync' \in 0..cursor'
    BY <1>0, <1>2, <2>5
  <2>. QED
    BY <1>1, <1>2, <2>4, <2>5, <2>6 DEF FeedInv
<1>. QED
  BY <1>4, <1>5

LEMMA FeedStep ==
  ASSUME FeedInv, [FeedNext]_<<vars, walletVars>>
  PROVE  /\ FeedInv'
         /\ \A e \in StoredNotesFrom(cursor) : chain[e].ledger < cursor' => e \in received'
<1>0. Inv /\ cursor \in Nat /\ lastSync \in 0..cursor
  BY DEF FeedInv
<1>1. \A e \in StoredNotesFrom(cursor) : ~(chain[e].ledger < cursor)
  <2>1. \A e \in StoredNotesFrom(cursor) : e \in 1..Len(chain)
    BY <1>0, FoundFacts DEF Found
  <2>2. \A e \in StoredNotesFrom(cursor) : chain[e].ledger \in Nat /\ chain[e].ledger >= cursor
    BY <1>0, <2>1, LedgersAreNumbers DEF StoredNotesFrom
  <2>. QED
    BY <1>0, <2>2
<1>2. CASE Next /\ UNCHANGED walletVars
  BY <1>0, <1>1, <1>2, InvStep DEF FeedInv, walletVars
<1>3. CASE FetchNotes
  BY <1>3, FetchStep
<1>4. CASE FetchFails
  <2>1. UNCHANGED vars /\ cursor' = lastSync /\ lastSync' = lastSync
    BY <1>4 DEF FetchFails
  <2>2. Inv'
    BY <1>0, <2>1, InvStep
  <2>3. \A e \in StoredNotesFrom(cursor) : ~(chain[e].ledger < cursor')
    <3>1. \A e \in StoredNotesFrom(cursor) : e \in 1..Len(chain)
      BY <1>0, FoundFacts DEF Found
    <3>2. \A e \in StoredNotesFrom(cursor) : chain[e].ledger \in Nat /\ chain[e].ledger >= cursor
      BY <1>0, <3>1, LedgersAreNumbers DEF StoredNotesFrom
    <3>. QED
      BY <1>0, <2>1, <3>2
  <2>. QED
    BY <1>0, <2>1, <2>2, <2>3 DEF FeedInv
<1>5. CASE UNCHANGED <<vars, walletVars>>
  <2>1. UNCHANGED vars /\ cursor' = cursor /\ lastSync' = lastSync
    BY <1>5 DEF walletVars
  <2>2. Inv'
    BY <1>0, <2>1, InvStep
  <2>. QED
    BY <1>0, <1>1, <2>1, <2>2 DEF FeedInv
<1>. QED
  BY <1>2, <1>3, <1>4, <1>5 DEF FeedNext

\* No page makes the wallet pass a stored note it was not given: for every page
\* size, and wherever a page ends within a ledger (getNotesFrom of both databases).
THEOREM WalletIsServedTheStored == FeedSpec => StoredNotesServed
<1>1. FeedInit => FeedInv
  BY InvInitially DEF FeedInit, FeedInv
<1>. QED
  BY <1>1, FeedStep, PTL DEF FeedSpec, StoredNotesServed
=============================================================================
