------------------------------- MODULE WalletProofs -------------------------------
(***************************************************************************)
(* Wallet.tla: a call pays at most once, and between calls the note list   *)
(* is the chain's, for any number of calls, attempts and notes, any        *)
(* history of roots and any bound on the ledgers, as long as the           *)
(* application makes its calls one at a time and submits a proof before it *)
(* does anything else.                                                     *)
(*                                                                         *)
(* A call may leave several transactions behind: attempts given up for     *)
(* lost, under other sequence numbers and around rebuilt proofs.  What     *)
(* keeps the second one out is that they all spend the same notes, since   *)
(* the list a proof is rebuilt from does not change during the call; or,   *)
(* if they spend none, that they all create the same note.                 *)
(***************************************************************************)
EXTENDS Wallet, DataTheorems, SequenceTheorems

Live(c) == pc[c] \notin {"idle", "done", "failed"}

\* what the call spends if its proof is built from the present list
Chosen(c) == {notes[i] : i \in Selected(c)}

Mine(c) == {h \in DOMAIN txs : h[1] = c}

\* two plans of which the token accepts at most one
Exclusive(p, q) == p.ins = q.ins /\ (p.ins = {} => p.out = q.out)

IsPlan(p) == p = [ins |-> p.ins, out |-> p.out, anchor |-> p.anchor, seq |-> p.seq]

Shapes ==
  /\ pc \in [Calls -> {"idle", "root", "paths", "built", "prepare", "send", "check", "poll",
                       "rebuild", "done", "failed"}]
  /\ DOMAIN plan = Calls /\ plan = [c \in Calls |-> plan[c]]
  /\ \A c \in Calls : IsPlan(plan[c])
  /\ txs = [h \in DOMAIN txs |-> txs[h]]
  /\ \A h \in DOMAIN txs : txs[h] = [plan |-> txs[h].plan, status |-> txs[h].status]
  /\ "at" \in DOMAIN sync
  /\ IsFiniteSet({c \in Calls : pc[c] # "idle"})

\* While a call is under way nothing else runs.
Alone ==
  /\ \A c, d \in Calls : Live(c) /\ Live(d) => c = d
  /\ \A c \in Calls : Live(c) => sync.at = "off"
  /\ sync.at = "off" => sync = NotSyncing

\* What a call has submitted is exclusive, also with what it may submit yet.
CallOK(c) ==
  /\ \A h, i \in Mine(c) : Exclusive(txs[h].plan, txs[i].plan)
  /\ pc[c] = "idle" => Mine(c) = {}
  /\ Live(c) =>
       /\ plan[c].ins = Chosen(c)
       /\ ToSet(plan[c].out) # {}
       /\ \A h \in Mine(c) : Exclusive(txs[h].plan, plan[c])
  /\ pc[c] = "rebuild" => plan[c].ins # {}

\* What a successful transaction spends is spent, and what it creates is in the tree.
Settled ==
  \A h \in DOMAIN txs :
    /\ ToSet(txs[h].plan.out) # {}
    /\ txs[h].status = "success" =>
         /\ Nullifiers(txs[h].plan.ins) \subseteq DOMAIN spent
         /\ ToSet(txs[h].plan.out) \subseteq DOMAIN leaf

\* of the transactions of a call at most one has succeeded
Once == \A c \in Calls : \A h, i \in Payments(c) : h = i

Inv == Shapes /\ Alone /\ Settled /\ Once /\ \A c \in Calls : CallOK(c)

---------------------------------------------------------------------------
(* What the pieces of a step come to. *)

\* A set with at most one element.
LEMMA AtMostOne ==
  ASSUME NEW S, IsFiniteSet(S), Cardinality(S) <= 1
  PROVE  \A x, y \in S : x = y
<1>1. Cardinality(S) \in Nat
  BY FS_CardinalityType
<1>2. CASE Cardinality(S) = 0
  BY <1>2, FS_EmptySet
<1>3. CASE Cardinality(S) = 1
  BY <1>3, FS_Singleton
<1>. QED
  BY <1>1, <1>2, <1>3

\* How the application uses the wallet: one call, and no sync next to it.
LEMMA AloneKept ==
  ASSUME Shapes', OneAtATime', SubmitsAtOnce', (sync.at = "off" => sync = NotSyncing)'
  PROVE  Alone'
<1>1. IsFiniteSet(Running')
  <2>1. Running' \subseteq {c \in Calls : pc[c] # "idle"}'
    BY DEF Running
  <2>2. IsFiniteSet({c \in Calls : pc[c] # "idle"}')
    BY DEF Shapes
  <2>. QED
    BY <2>1, <2>2, FS_Subset
<1>2. \A c, d \in Running' : c = d
  <2>1. Cardinality(Running') <= 1
    BY DEF OneAtATime
  <2>. QED
    BY <1>1, <2>1, AtMostOne
<1>3. ASSUME NEW c \in Calls, Live(c)'
      PROVE  c \in Running' \/ pc'[c] = "built"
  BY <1>3 DEF Live, Running
<1>4. ASSUME NEW c \in Calls, NEW d \in Calls, Live(c)', Live(d)'
      PROVE  c = d
  BY <1>2, <1>3, <1>4 DEF SubmitsAtOnce
<1>5. ASSUME NEW c \in Calls, Live(c)'
      PROVE  sync'.at = "off"
  BY <1>3, <1>5 DEF SubmitsAtOnce, OneAtATime
<1>. QED
  BY <1>4, <1>5 DEF Alone

\* A list that has not changed offers the same notes.
LEMMA ChosenKept ==
  ASSUME NEW c \in Calls, notes' = notes
  PROVE  Chosen(c)' = Chosen(c)
BY DEF Chosen, Selected, Larger, Smaller

\* A call that a step passes over.
LEMMA CallKept ==
  ASSUME NEW c \in Calls, CallOK(c), pc'[c] = pc[c], plan'[c] = plan[c],
         Live(c) => notes' = notes,
         Mine(c)' = Mine(c), \A h \in Mine(c) : txs'[h].plan = txs[h].plan
  PROVE  CallOK(c)'
<1>1. Live(c)' <=> Live(c)
  BY DEF Live
<1>2. Live(c) => Chosen(c)' = Chosen(c)
  BY ChosenKept
<1>. QED
  BY <1>1, <1>2 DEF CallOK

\* A step that leaves the transactions and the calls alone, and takes nothing
\* back on the chain.
LEMMA CallsUntouched ==
  ASSUME Inv, UNCHANGED <<txs, pc, plan>>, "at" \in DOMAIN sync',
         \A c \in Calls : Live(c) => notes' = notes,
         DOMAIN spent \subseteq DOMAIN spent', DOMAIN leaf \subseteq DOMAIN leaf',
         OneAtATime', SubmitsAtOnce', (sync.at = "off" => sync = NotSyncing)'
  PROVE  Inv'
<1>1. Shapes'
  BY DEF Inv, Shapes, IsPlan
<1>2. Alone'
  BY <1>1, AloneKept
<1>3. Settled'
  BY DEF Inv, Settled
<1>4. Once'
  BY DEF Inv, Once, Payments
<1>5. ASSUME NEW c \in Calls
      PROVE  CallOK(c)'
  <2>1. Mine(c)' = Mine(c)
    BY DEF Mine
  <2>. QED
    BY <2>1, CallKept DEF Inv, Mine
<1>. QED
  BY <1>1, <1>2, <1>3, <1>4, <1>5 DEF Inv

\* Nothing has happened yet.
LEMMA InvInit == Init => Inv
<1>. SUFFICES ASSUME Init PROVE Inv
  OBVIOUS
<1>0. {c \in Calls : pc[c] # "idle"} = {}
  BY DEF Init
<1>1. DOMAIN txs = {}
  BY DEF Init
<1>2. Shapes
  <2>1. txs = [h \in DOMAIN txs |-> txs[h]]
    <3>1. <<>> \in Seq({})
      OBVIOUS
    <3>2. \A s \in Seq({}) : s = [h \in DOMAIN s |-> s[h]]
      OBVIOUS
    <3>. QED
      BY <3>1, <3>2 DEF Init
  <2>2. DOMAIN plan = Calls /\ plan = [c \in Calls |-> plan[c]]
    BY DEF Init
  <2>3. \A c \in Calls : IsPlan(plan[c])
    BY DEF Init, IsPlan, NoPlan
  <2>4. pc \in [Calls -> {"idle"}]
    BY DEF Init
  <2>5. "at" \in DOMAIN sync
    BY DEF Init, NotSyncing
  <2>6. IsFiniteSet({c \in Calls : pc[c] # "idle"})
    BY <1>0, FS_EmptySet
  <2>. QED
    BY <1>1, <2>1, <2>2, <2>3, <2>4, <2>5, <2>6 DEF Shapes
<1>3. Alone
  <2>1. \A c \in Calls : ~Live(c)
    BY DEF Init, Live
  <2>2. sync = NotSyncing
    BY DEF Init
  <2>. QED
    BY <2>1, <2>2 DEF Alone
<1>4. Settled /\ Once
  BY <1>1 DEF Settled, Once, Payments
<1>5. \A c \in Calls : CallOK(c)
  BY <1>1 DEF Init, CallOK, Mine, Live
<1>. QED
  BY <1>2, <1>3, <1>4, <1>5 DEF Inv

---------------------------------------------------------------------------
(* The chain and the sync. *)

\* Somebody else's operation only adds to the tree.
LEMMA OthersKeep ==
  ASSUME Inv, OthersAct, OneAtATime', SubmitsAtOnce'
  PROVE  Inv'
<1>1. DOMAIN leaf \subseteq DOMAIN leaf'
  BY DEF OthersAct, Stamp
<1>2. UNCHANGED <<txs, pc, plan, sync, notes, spent>>
  BY DEF OthersAct, calls
<1>. QED
  BY <1>1, <1>2, CallsUntouched DEF Inv, Shapes, Alone

LEMMA IndexKeeps ==
  ASSUME Inv, Index, OneAtATime', SubmitsAtOnce'
  PROVE  Inv'
<1>1. UNCHANGED <<txs, pc, plan, sync, notes, spent, leaf>>
  BY DEF Index, calls
<1>. QED
  BY <1>1, CallsUntouched DEF Inv, Shapes, Alone

\* A sync does not run next to a call, so the list it changes is nobody's.
LEMMA SyncKeeps ==
  ASSUME Inv, Sync, OneAtATime', SubmitsAtOnce'
  PROVE  Inv'
<1>0. "at" \in DOMAIN sync /\ (sync.at = "off" => sync = NotSyncing)
  BY DEF Inv, Shapes, Alone
<1>1. UNCHANGED <<txs, pc, plan, spent, leaf>>
  BY DEF Sync, SyncStart, Fetch, PushFetched, KeepOnePerNullifier, AnswerSpent, DropSpent,
         SyncFails, chain, calls
<1>2. NotSyncing.at = "off" /\ "at" \in DOMAIN NotSyncing /\ NotSyncing.page = {}
  BY DEF NotSyncing
<1>3. "at" \in DOMAIN sync' /\ (sync'.at = "off" => sync' = NotSyncing)
  <2>1. CASE SyncStart
    BY <1>2, <2>1 DEF SyncStart, NotSyncing
  <2>2. CASE Fetch
    BY <1>0, <2>2 DEF Fetch
  <2>3. CASE PushFetched
    BY <1>0, <1>2, <2>3 DEF PushFetched
  <2>4. CASE KeepOnePerNullifier
    BY <1>0, <2>4 DEF KeepOnePerNullifier
  <2>5. CASE AnswerSpent
    BY <1>0, <2>5 DEF AnswerSpent
  <2>6. CASE DropSpent
    BY <1>2, <2>6 DEF DropSpent
  <2>7. CASE SyncFails
    BY <1>2, <2>7 DEF SyncFails
  <2>. QED
    BY <2>1, <2>2, <2>3, <2>4, <2>5, <2>6, <2>7 DEF Sync
<1>4. sync.at = "off" => notes' = notes
  BY <1>0, <1>2 DEF Sync, SyncStart, Fetch, PushFetched, KeepOnePerNullifier, AnswerSpent,
                    DropSpent, SyncFails
<1>5. \A c \in Calls : Live(c) => notes' = notes
  BY <1>4 DEF Inv, Alone
<1>. QED
  BY <1>1, <1>3, <1>5, CallsUntouched

\* A payment of a call that has paid before spends what is spent, or creates
\* what is in the tree: it is refused.
LEMMA SecondRefused ==
  ASSUME Inv, NEW c \in Calls, NEW h \in Mine(c), NEW i \in Payments(c)
  PROVE  Verdict(txs[h].plan) # "Accepted"
<1>1. i \in Mine(c) /\ i \in DOMAIN txs /\ txs[i].status = "success"
  BY DEF Payments, Mine
<1>2. Exclusive(txs[h].plan, txs[i].plan)
  BY <1>1 DEF Inv, CallOK
<1>3. /\ ToSet(txs[i].plan.out) # {}
      /\ Nullifiers(txs[i].plan.ins) \subseteq DOMAIN spent
      /\ ToSet(txs[i].plan.out) \subseteq DOMAIN leaf
  BY <1>1 DEF Inv, Settled
<1>4. CASE txs[h].plan.ins = {}
  <2>1. ToSet(txs[h].plan.out) \cap DOMAIN leaf # {}
    BY <1>2, <1>3, <1>4 DEF Exclusive
  <2>. QED
    BY <2>1 DEF Verdict
<1>5. CASE txs[h].plan.ins # {}
  <2>1. Nullifiers(txs[h].plan.ins) \cap DOMAIN spent # {}
    BY <1>2, <1>3, <1>5 DEF Exclusive, Nullifiers
  <2>. QED
    BY <2>1 DEF Verdict
<1>. QED
  BY <1>4, <1>5

\* A transaction is applied.
LEMMA LandKeeps ==
  ASSUME Inv, NEW h \in DOMAIN txs, Land(h), OneAtATime', SubmitsAtOnce'
  PROVE  Inv'
<1>. DEFINE ok == Verdict(txs[h].plan) = "Accepted"
<1>0. \A i \in DOMAIN txs : txs[i] = [plan |-> txs[i].plan, status |-> txs[i].status]
  BY DEF Inv, Shapes
<1>1. /\ DOMAIN txs' = DOMAIN txs
      /\ \A i \in DOMAIN txs : txs'[i].plan = txs[i].plan
      /\ \A i \in DOMAIN txs \ {h} : txs'[i] = txs[i]
      /\ txs'[h].status = IF ok THEN "success" ELSE "failed"
  <2>1. txs' = [txs EXCEPT ![h].status = IF ok THEN "success" ELSE "failed"]
    BY DEF Land
  <2>2. \A i \in DOMAIN txs \ {h} : txs'[i] = txs[i]
    BY <2>1
  <2>3. txs'[h] = [txs[h] EXCEPT !.status = IF ok THEN "success" ELSE "failed"]
    BY <2>1
  <2>4. txs'[h].plan = txs[h].plan /\ txs'[h].status = IF ok THEN "success" ELSE "failed"
    BY <1>0, <2>3
  <2>. QED
    BY <2>1, <2>2, <2>4
<1>2. UNCHANGED <<pc, plan, sync, notes>>
  BY DEF Land, calls
<1>3. DOMAIN leaf \subseteq DOMAIN leaf' /\ DOMAIN spent \subseteq DOMAIN spent'
  BY DEF Land, Stamp
<1>4. ok => /\ Nullifiers(txs[h].plan.ins) \subseteq DOMAIN spent'
            /\ ToSet(txs[h].plan.out) \subseteq DOMAIN leaf'
  BY DEF Land, Stamp
<1>5. Shapes'
  <2>1. txs' = [i \in DOMAIN txs' |-> txs'[i]]
    BY DEF Land
  <2>2. \A i \in DOMAIN txs' : txs'[i] = [plan |-> txs'[i].plan, status |-> txs'[i].status]
    <3>1. txs'[h] = [txs[h] EXCEPT !.status = IF ok THEN "success" ELSE "failed"]
      BY DEF Land
    <3>2. txs'[h] = [plan |-> txs'[h].plan, status |-> txs'[h].status]
      BY <1>0, <3>1
    <3>. QED
      BY <1>0, <1>1, <3>2
  <2>. QED
    BY <1>2, <2>1, <2>2 DEF Inv, Shapes, IsPlan
<1>6. Alone'
  BY <1>2, <1>5, AloneKept DEF Inv, Alone
<1>7. Settled'
  <2>. SUFFICES ASSUME NEW i \in DOMAIN txs
                PROVE  /\ ToSet(txs'[i].plan.out) # {}
                       /\ txs'[i].status = "success" =>
                            /\ Nullifiers(txs'[i].plan.ins) \subseteq DOMAIN spent'
                            /\ ToSet(txs'[i].plan.out) \subseteq DOMAIN leaf'
    BY <1>1 DEF Settled
  <2>1. CASE i = h
    BY <1>1, <1>4, <2>1 DEF Inv, Settled
  <2>2. CASE i # h
    BY <1>1, <1>3, <2>2 DEF Inv, Settled
  <2>. QED
    BY <2>1, <2>2
<1>8. Once'
  <2>. SUFFICES ASSUME NEW c \in Calls, NEW i \in Payments(c)', NEW j \in Payments(c)'
                PROVE  i = j
    BY DEF Once
  <2>1. i \in Mine(c) /\ j \in Mine(c)
    BY <1>1 DEF Payments, Mine
  <2>2. i # h => i \in Payments(c)
    BY <1>1 DEF Payments
  <2>3. j # h => j \in Payments(c)
    BY <1>1 DEF Payments
  <2>4. i = h \/ j = h => ok
    BY <1>1 DEF Payments
  <2>5. i = h /\ j # h => FALSE
    BY <2>1, <2>3, <2>4, SecondRefused
  <2>6. j = h /\ i # h => FALSE
    BY <2>1, <2>2, <2>4, SecondRefused
  <2>. QED
    BY <2>2, <2>3, <2>5, <2>6 DEF Inv, Once
<1>9. ASSUME NEW c \in Calls
      PROVE  CallOK(c)'
  <2>1. Mine(c)' = Mine(c)
    BY <1>1 DEF Mine
  <2>2. \A i \in Mine(c) : txs'[i].plan = txs[i].plan
    BY <1>1 DEF Mine
  <2>. QED
    BY <1>2, <2>1, <2>2, CallKept DEF Inv
<1>. QED
  BY <1>5, <1>6, <1>7, <1>8, <1>9 DEF Inv

---------------------------------------------------------------------------
(* The calls. *)

\* A step of one call: what is left of the invariant is what it says of that
\* call, of its transactions and of how the application uses the wallet.
LEMMA OneCallSteps ==
  ASSUME Inv, NEW c \in Calls, sync' = sync,
         UNCHANGED <<spent, leaf>>,
         \A d \in Calls \ {c} : pc'[d] = pc[d] /\ plan'[d] = plan[d],
         \A d \in Calls \ {c} : Live(d) => notes' = notes,
         \A d \in Calls \ {c} : Mine(d)' = Mine(d) /\ \A h \in Mine(d) : txs'[h] = txs[h],
         Shapes', Settled', \A h, i \in Payments(c)' : h = i, CallOK(c)',
         OneAtATime', SubmitsAtOnce'
  PROVE  Inv'
<1>1. Alone'
  BY AloneKept DEF Inv, Alone
<1>2. Once'
  <2>. SUFFICES ASSUME NEW d \in Calls, NEW h \in Payments(d)', NEW i \in Payments(d)'
                PROVE  h = i
    BY DEF Once
  <2>1. CASE d = c
    BY <2>1
  <2>2. CASE d # c
    <3>1. h \in Mine(d)' /\ i \in Mine(d)'
      BY DEF Payments, Mine
    <3>2. h \in Payments(d) /\ i \in Payments(d)
      BY <2>2, <3>1 DEF Payments, Mine
    <3>. QED
      BY <3>2 DEF Inv, Once
  <2>. QED
    BY <2>1, <2>2
<1>3. ASSUME NEW d \in Calls
      PROVE  CallOK(d)'
  <2>1. CASE d = c
    BY <2>1
  <2>2. CASE d # c
    BY <2>2, CallKept DEF Inv
  <2>. QED
    BY <2>1, <2>2
<1>. QED
  BY <1>1, <1>2, <1>3 DEF Inv

\* The same for the steps that submit nothing.
LEMMA OneCallMoves ==
  ASSUME Inv, NEW c \in Calls, UNCHANGED <<sync, spent, leaf, txs, notes>>,
         NEW to \in {"root", "paths", "built", "prepare", "send", "check", "poll",
                     "rebuild", "done", "failed"},
         NEW p, IsPlan(p), plan' = [plan EXCEPT ![c] = p],
         pc' = [pc EXCEPT ![c] = to],
         CallOK(c)', OneAtATime', SubmitsAtOnce'
  PROVE  Inv'
<1>0. pc \in [Calls -> {"idle", "root", "paths", "built", "prepare", "send", "check", "poll",
                        "rebuild", "done", "failed"}]
      /\ DOMAIN plan = Calls /\ \A d \in Calls : IsPlan(plan[d])
  BY DEF Inv, Shapes
<1>1. IsFiniteSet({d \in Calls : pc'[d] # "idle"})
  <2>1. IsFiniteSet({d \in Calls : pc[d] # "idle"} \cup {c})
    BY FS_AddElement DEF Inv, Shapes
  <2>2. {d \in Calls : pc'[d] # "idle"} \subseteq {d \in Calls : pc[d] # "idle"} \cup {c}
    BY <1>0
  <2>. QED
    BY <2>1, <2>2, FS_Subset
<1>2. /\ pc' \in [Calls -> {"idle", "root", "paths", "built", "prepare", "send", "check", "poll",
                            "rebuild", "done", "failed"}]
      /\ DOMAIN plan' = Calls /\ plan' = [d \in Calls |-> plan'[d]]
      /\ \A d \in Calls : IsPlan(plan[d])'
  BY <1>0 DEF IsPlan
<1>3. Shapes'
  BY <1>1, <1>2 DEF Inv, Shapes
<1>4. Settled'
  BY DEF Inv, Settled
<1>5. \A h, i \in Payments(c)' : h = i
  BY DEF Inv, Once, Payments
<1>6. \A d \in Calls \ {c} : pc'[d] = pc[d] /\ plan'[d] = plan[d]
  BY <1>0
<1>7. \A d \in Calls \ {c} : Mine(d)' = Mine(d) /\ \A h \in Mine(d) : txs'[h] = txs[h]
  BY DEF Mine
<1>. QED
  BY <1>3, <1>4, <1>5, <1>6, <1>7, OneCallSteps

\* A call starts, or builds its proof anew: from the list it was built from before,
\* which has not changed since.
LEMMA SelectKeeps ==
  ASSUME Inv, NEW c \in Calls, Select(c), OneAtATime', SubmitsAtOnce'
  PROVE  Inv'
<1>. DEFINE out == plan'[c].out
<1>1. UNCHANGED <<sync, spent, leaf, txs, notes>>
  BY DEF Select, chain
<1>2. pc[c] \in {"idle", "rebuild"}
  BY DEF Select
<1>3. Mine(c)' = Mine(c)
  BY <1>1 DEF Mine
<1>4. PICK n, v : 
        \/ /\ pc' = [pc EXCEPT ![c] = IF Kind[c] = "shield" THEN "built" ELSE "root"]
           /\ plan' = [plan EXCEPT ![c] = [NoPlan EXCEPT !.ins = Chosen(c),
                                                         !.out = <<MakeNote(c, n, v, <<c, n>>)>>]]
        \/ pc' = [pc EXCEPT ![c] = "failed"] /\ plan' = plan
  BY DEF Select, Chosen
<1>5. Chosen(c)' = Chosen(c)
  BY <1>1, ChosenKept
<1>6. CASE pc' = [pc EXCEPT ![c] = "failed"] /\ plan' = plan
  <2>1. pc'[c] = "failed"
    BY <1>6 DEF Inv, Shapes
  <2>2. CallOK(c)'
    BY <1>1, <1>3, <2>1 DEF Inv, CallOK, Live
  <2>3. plan' = [plan EXCEPT ![c] = plan[c]] /\ IsPlan(plan[c])
    BY <1>6 DEF Inv, Shapes
  <2>. QED
    BY <1>1, <1>6, <2>2, <2>3, OneCallMoves
<1>7. CASE /\ pc' = [pc EXCEPT ![c] = IF Kind[c] = "shield" THEN "built" ELSE "root"]
           /\ plan' = [plan EXCEPT ![c] = [NoPlan EXCEPT !.ins = Chosen(c),
                                                         !.out = <<MakeNote(c, n, v, <<c, n>>)>>]]
  <2>. DEFINE p == [ins |-> Chosen(c), out |-> <<MakeNote(c, n, v, <<c, n>>)>>, anchor |-> 0, seq |-> 0]
  <2>0. [NoPlan EXCEPT !.ins = Chosen(c), !.out = <<MakeNote(c, n, v, <<c, n>>)>>] = p
    <3>1. \A x : [NoPlan EXCEPT !.ins = x] = [ins |-> x, out |-> <<>>, anchor |-> 0, seq |-> 0]
      BY DEF NoPlan
    <3>2. \A x, y : [[ins |-> x, out |-> <<>>, anchor |-> 0, seq |-> 0] EXCEPT !.out = y]
                    = [ins |-> x, out |-> y, anchor |-> 0, seq |-> 0]
      OBVIOUS
    <3>3. [NoPlan EXCEPT !.ins = Chosen(c), !.out = <<MakeNote(c, n, v, <<c, n>>)>>]
          = [[NoPlan EXCEPT !.ins = Chosen(c)] EXCEPT !.out = <<MakeNote(c, n, v, <<c, n>>)>>]
      OBVIOUS
    <3>. QED
      BY <3>1, <3>2, <3>3
  <2>1. IsPlan(p) /\ p.ins = Chosen(c) /\ p.out = <<MakeNote(c, n, v, <<c, n>>)>>
    BY DEF IsPlan
  <2>2. plan' = [plan EXCEPT ![c] = p]
    BY <1>7, <2>0
  <2>3. plan'[c] = p /\ pc'[c] \in {"built", "root"}
    BY <1>7, <2>2 DEF Inv, Shapes
  <2>4. ToSet(p.out) # {}
    <3>1. MakeNote(c, n, v, <<c, n>>) \in ToSet(<<MakeNote(c, n, v, <<c, n>>)>>)
      BY DEF ToSet
    <3>. QED
      BY <2>1, <3>1
  <2>5. \A h \in Mine(c) : Exclusive(txs[h].plan, p)
    <3>1. CASE pc[c] = "idle"
      BY <3>1 DEF Inv, CallOK
    <3>2. CASE pc[c] = "rebuild"
      BY <2>1, <3>2 DEF Inv, CallOK, Live, Exclusive
    <3>. QED
      BY <1>2, <3>1, <3>2
  <2>. HIDE DEF p
  <2>6. CallOK(c)'
    BY <1>1, <1>3, <1>5, <2>1, <2>3, <2>4, <2>5 DEF Inv, CallOK
  <2>7. PICK to \in {"built", "root"} : pc' = [pc EXCEPT ![c] = to]
    BY <1>7
  <2>. QED
    BY <1>1, <2>1, <2>2, <2>6, <2>7, OneCallMoves
<1>. QED
  BY <1>4, <1>6, <1>7

\* The steps that only move on: what the call spends and creates stays.
LEMMA MoveKeeps ==
  ASSUME Inv, NEW c \in Calls, Live(c), UNCHANGED <<sync, spent, leaf, txs, notes>>,
         NEW to \in {"root", "paths", "built", "prepare", "send", "check", "poll", "failed"},
         NEW p, IsPlan(p), p.ins = plan[c].ins, p.out = plan[c].out,
         plan' = [plan EXCEPT ![c] = p], pc' = [pc EXCEPT ![c] = to],
         OneAtATime', SubmitsAtOnce'
  PROVE  Inv'
<1>1. plan'[c] = p /\ pc'[c] = to
  BY DEF Inv, Shapes
<1>2. Mine(c)' = Mine(c) /\ Chosen(c)' = Chosen(c)
  BY ChosenKept DEF Mine
<1>3. CallOK(c)'
  BY <1>1, <1>2 DEF Inv, CallOK, Exclusive, Live
<1>. QED
  BY <1>3, OneCallMoves

LEMMA ReadRootKeeps ==
  ASSUME Inv, NEW c \in Calls, ReadRoot(c), OneAtATime', SubmitsAtOnce'
  PROVE  Inv'
<1>. DEFINE p == [plan[c] EXCEPT !.anchor = ledger]
<1>1. IsPlan(plan[c])
  BY DEF Inv, Shapes
<1>2. IsPlan(p) /\ p.ins = plan[c].ins /\ p.out = plan[c].out
  BY <1>1 DEF IsPlan
<1>3. plan' = [plan EXCEPT ![c] = p] /\ pc' = [pc EXCEPT ![c] = "paths"] /\ Live(c)
  BY DEF ReadRoot, Live
<1>4. UNCHANGED <<sync, spent, leaf, txs, notes>>
  BY DEF ReadRoot, chain
<1>. HIDE DEF p
<1>. QED
  BY <1>2, <1>3, <1>4, MoveKeeps

\* A build that fails, a proof that is made, its submission, a lookup, an error.
LEMMA PlainMovesKeep ==
  ASSUME Inv, NEW c \in Calls, Prove(c) \/ Submit(c) \/ CheckSent(c) \/ Throw(c),
         OneAtATime', SubmitsAtOnce'
  PROVE  Inv'
<1>1. UNCHANGED <<sync, spent, leaf, txs, notes, plan>>
  BY DEF Prove, Submit, CheckSent, Throw, chain
<1>2. Live(c)
  BY DEF Prove, Submit, CheckSent, Throw, Live
<1>3. PICK to \in {"built", "prepare", "poll", "failed"} : pc' = [pc EXCEPT ![c] = to]
  BY DEF Prove, Submit, CheckSent, Throw, TryAgain
<1>4. IsPlan(plan[c]) /\ plan' = [plan EXCEPT ![c] = plan[c]]
  BY <1>1 DEF Inv, Shapes
<1>. QED
  BY <1>1, <1>2, <1>3, <1>4, MoveKeeps

\* The simulation: only a proof that spends notes has an anchor to be too old.
LEMMA PrepareKeeps ==
  ASSUME Inv, NEW c \in Calls, Prepare(c), OneAtATime', SubmitsAtOnce'
  PROVE  Inv'
<1>. DEFINE p == [plan[c] EXCEPT !.seq = account + 1]
<1>1. IsPlan(plan[c]) /\ plan = [plan EXCEPT ![c] = plan[c]]
  BY DEF Inv, Shapes
<1>2. IsPlan(p) /\ p.ins = plan[c].ins /\ p.out = plan[c].out
  BY <1>1 DEF IsPlan
<1>3. UNCHANGED <<sync, spent, leaf, txs, notes>> /\ Live(c) /\ pc[c] = "prepare"
  BY DEF Prepare, chain, Live
<1>4. ASSUME NEW to \in {"failed", "send", "prepare"}, pc' = [pc EXCEPT ![c] = to],
             plan' = [plan EXCEPT ![c] = p] \/ plan' = plan
      PROVE  Inv'
  <2>. HIDE DEF p
  <2>. QED
    BY <1>1, <1>2, <1>3, <1>4, MoveKeeps
<1>5. ASSUME pc' = [pc EXCEPT ![c] = "rebuild"], plan' = [plan EXCEPT ![c] = p],
             plan[c].ins # {}
      PROVE  Inv'
  <2>. HIDE DEF p
  <2>1. plan'[c] = p /\ pc'[c] = "rebuild"
    BY <1>5 DEF Inv, Shapes
  <2>2. Mine(c)' = Mine(c) /\ Chosen(c)' = Chosen(c)
    BY <1>3, ChosenKept DEF Mine
  <2>3. CallOK(c)'
    BY <1>2, <1>3, <1>5, <2>1, <2>2 DEF Inv, CallOK, Exclusive, Live
  <2>. QED
    BY <1>2, <1>3, <1>5, <2>3, OneCallMoves
<1>6. Verdict(plan[c]) \in {"InvalidAnchor", "Refused", "Accepted"}
      /\ (Verdict(plan[c]) = "InvalidAnchor" => plan[c].ins # {})
  BY DEF Verdict
<1>7. CASE pc' = [pc EXCEPT ![c] = TryAgain(c, try[c][2] + 1)] /\ plan' = plan
  BY <1>4, <1>7 DEF TryAgain
<1>8. CASE /\ pc' = [pc EXCEPT ![c] = CASE Verdict(plan[c]) = "InvalidAnchor" -> "rebuild"
                                        [] Verdict(plan[c]) = "Refused" -> "failed"
                                        [] Verdict(plan[c]) = "Accepted" -> "send"]
           /\ plan' = [plan EXCEPT ![c] = p]
  <2>. HIDE DEF p
  <2>1. CASE Verdict(plan[c]) = "InvalidAnchor"
    BY <1>5, <1>6, <1>8, <2>1
  <2>2. CASE Verdict(plan[c]) = "Refused"
    <3>1. pc' = [pc EXCEPT ![c] = "failed"]
      BY <1>8, <2>2
    <3>. QED
      BY <1>4, <1>8, <3>1
  <2>3. CASE Verdict(plan[c]) = "Accepted"
    <3>1. pc' = [pc EXCEPT ![c] = "send"]
      BY <1>8, <2>3
    <3>. QED
      BY <1>4, <1>8, <3>1
  <2>. QED
    BY <1>6, <2>1, <2>2, <2>3
<1>. QED
  BY <1>7, <1>8 DEF Prepare

\* A transaction is sent, perhaps without the call learning of it.
LEMMA SendKeeps ==
  ASSUME Inv, NEW c \in Calls, Send(c), OneAtATime', SubmitsAtOnce'
  PROVE  Inv'
<1>. DEFINE sent == [plan |-> plan[c], status |-> "pending"]
<1>1. UNCHANGED <<sync, spent, leaf, notes, plan>> /\ Live(c)
  BY DEF Send, Live
<1>2. PICK to \in {"poll", "check", "failed"} : pc' = [pc EXCEPT ![c] = to]
  BY DEF Send
<1>3. \/ txs' = txs
      \/ txs' = [h \in DOMAIN txs \cup {Hash(c)} |-> IF h = Hash(c) THEN sent ELSE txs[h]]
  BY DEF Send
<1>4. CASE txs' = txs
  <2>1. IsPlan(plan[c]) /\ plan' = [plan EXCEPT ![c] = plan[c]]
    BY <1>1 DEF Inv, Shapes
  <2>. QED
    BY <1>1, <1>2, <1>4, <2>1, MoveKeeps
<1>5. CASE txs' = [h \in DOMAIN txs \cup {Hash(c)} |-> IF h = Hash(c) THEN sent ELSE txs[h]]
  <2>1. Hash(c)[1] = c
    BY DEF Hash
  <2>2. /\ DOMAIN txs' = DOMAIN txs \cup {Hash(c)}
        /\ txs'[Hash(c)] = sent /\ sent.plan = plan[c] /\ sent.status = "pending"
        /\ \A h \in DOMAIN txs \ {Hash(c)} : txs'[h] = txs[h]
    BY <1>5
  <2>3. pc'[c] = to /\ \A d \in Calls \ {c} : pc'[d] = pc[d]
    BY <1>2 DEF Inv, Shapes
  <2>4. Shapes'
    <3>1. \A h \in DOMAIN txs' : txs'[h] = [plan |-> txs'[h].plan, status |-> txs'[h].status]
      BY <2>2 DEF Inv, Shapes
    <3>2. txs' = [h \in DOMAIN txs' |-> txs'[h]]
      BY <1>5
    <3>3. pc' \in [Calls -> {"idle", "root", "paths", "built", "prepare", "send", "check",
                             "poll", "rebuild", "done", "failed"}]
      BY <1>2 DEF Inv, Shapes
    <3>4. {d \in Calls : pc'[d] # "idle"} = {d \in Calls : pc[d] # "idle"}
      BY <1>1, <2>3 DEF Live
    <3>. QED
      BY <1>1, <3>1, <3>2, <3>3, <3>4 DEF Inv, Shapes, IsPlan
  <2>5. ToSet(plan[c].out) # {} /\ plan[c].ins = Chosen(c)
        /\ \A h \in Mine(c) : Exclusive(txs[h].plan, plan[c])
    BY <1>1 DEF Inv, CallOK
  <2>. HIDE DEF sent
  <2>6. Settled'
    <3>. SUFFICES ASSUME NEW h \in DOMAIN txs'
                  PROVE  /\ ToSet(txs'[h].plan.out) # {}
                         /\ txs'[h].status = "success" =>
                              /\ Nullifiers(txs'[h].plan.ins) \subseteq DOMAIN spent'
                              /\ ToSet(txs'[h].plan.out) \subseteq DOMAIN leaf'
      BY DEF Settled
    <3>1. CASE h = Hash(c)
      BY <2>2, <2>5, <3>1
    <3>2. CASE h # Hash(c)
      BY <1>1, <2>2, <3>2 DEF Inv, Settled
    <3>. QED
      BY <3>1, <3>2
  <2>7. \A h, i \in Payments(c)' : h = i
    <3>1. Payments(c)' \subseteq Payments(c)
      BY <2>2 DEF Payments
    <3>. QED
      BY <3>1 DEF Inv, Once
  <2>8. CallOK(c)'
    <3>1. Mine(c)' \subseteq Mine(c) \cup {Hash(c)}
      BY <2>2 DEF Mine
    <3>2. \A h \in Mine(c)' : \/ txs'[h].plan = plan[c]
                              \/ h \in Mine(c) /\ txs'[h].plan = txs[h].plan
      BY <2>2, <3>1 DEF Mine
    <3>3. \A h, i \in Mine(c)' : Exclusive(txs'[h].plan, txs'[i].plan)
      BY <2>5, <3>2 DEF Inv, CallOK, Exclusive
    <3>4. \A h \in Mine(c)' : Exclusive(txs'[h].plan, plan[c])
      BY <2>5, <3>2 DEF Exclusive
    <3>5. Chosen(c)' = Chosen(c)
      BY <1>1, ChosenKept
    <3>. QED
      BY <1>1, <2>3, <2>5, <3>3, <3>4, <3>5 DEF CallOK
  <2>9. \A d \in Calls \ {c} : Mine(d)' = Mine(d) /\ \A h \in Mine(d) : txs'[h] = txs[h]
    BY <2>1, <2>2 DEF Mine
  <2>. QED
    BY <1>1, <2>3, <2>4, <2>6, <2>7, <2>8, <2>9, OneCallSteps
<1>. QED
  BY <1>3, <1>4, <1>5

\* The call returns and changes the list; nothing else is under way.
LEMMA ConfirmKeeps ==
  ASSUME Inv, NEW c \in Calls, Confirm(c), OneAtATime', SubmitsAtOnce'
  PROVE  Inv'
<1>1. UNCHANGED <<spent, leaf, txs, plan>> /\ pc' = [pc EXCEPT ![c] = "done"] /\ Live(c)
  BY DEF Confirm, chain, Live
<1>2. sync' = sync
  <2>1. sync.at = "off" => ~sync.same
    BY DEF Inv, Alone, NotSyncing
  <2>2. ~sync.same
    BY <1>1, <2>1 DEF Inv, Alone
  <2>. QED
    BY <2>2 DEF Confirm, Replace
<1>3. pc'[c] = "done" /\ \A d \in Calls \ {c} : pc'[d] = pc[d] /\ ~Live(d)
  BY <1>1 DEF Inv, Shapes, Alone
<1>4. Shapes'
  <2>1. pc' \in [Calls -> {"idle", "root", "paths", "built", "prepare", "send", "check",
                           "poll", "rebuild", "done", "failed"}]
    BY <1>1 DEF Inv, Shapes
  <2>2. {d \in Calls : pc'[d] # "idle"} = {d \in Calls : pc[d] # "idle"}
    BY <1>1, <1>3 DEF Live
  <2>3. UNCHANGED <<txs, plan, sync>>
    BY <1>1, <1>2
  <2>. QED
    BY <2>1, <2>2, <2>3 DEF Inv, Shapes, IsPlan
<1>5. Settled' /\ \A h, i \in Payments(c)' : h = i
  BY <1>1 DEF Inv, Settled, Once, Payments
<1>6. \A d \in Calls : Mine(d)' = Mine(d) /\ \A h \in Mine(d) : txs'[h] = txs[h]
  BY <1>1 DEF Mine
<1>7. CallOK(c)'
  BY <1>1, <1>3, <1>6 DEF Inv, CallOK, Live
<1>. QED
  BY <1>1, <1>2, <1>3, <1>4, <1>5, <1>6, <1>7, OneCallSteps

---------------------------------------------------------------------------
LEMMA InvKept ==
  ASSUME Inv, [Next /\ OneAtATime' /\ SubmitsAtOnce']_vars
  PROVE  Inv'
<1>1. CASE UNCHANGED vars
  <2>1. UNCHANGED <<spent, leaf, txs, pc, plan, sync, notes>>
    BY <1>1 DEF vars, chain, calls
  <2>2. Shapes' /\ Alone' /\ Settled' /\ Once'
    BY <2>1 DEF Inv, Shapes, IsPlan, Alone, Live, Settled, Once, Payments
  <2>3. \A c \in Calls : CallOK(c)'
    <3>1. \A c \in Calls : Mine(c)' = Mine(c) /\ \A h \in Mine(c) : txs'[h].plan = txs[h].plan
      BY <2>1 DEF Mine
    <3>. QED
      BY <2>1, <3>1, CallKept DEF Inv
  <2>. QED
    BY <2>2, <2>3 DEF Inv
<1>2. CASE Next /\ OneAtATime' /\ SubmitsAtOnce'
  <2>1. CASE OthersAct
    BY <1>2, <2>1, OthersKeep
  <2>2. CASE Index
    BY <1>2, <2>2, IndexKeeps
  <2>3. CASE \E h \in DOMAIN txs : Land(h)
    BY <1>2, <2>3, LandKeeps
  <2>4. CASE Sync
    BY <1>2, <2>4, SyncKeeps
  <2>5. ASSUME NEW c \in Calls, Call(c)
        PROVE  Inv'
    BY <1>2, <2>5, SelectKeeps, ReadRootKeeps, PlainMovesKeep, PrepareKeeps, SendKeeps,
       ConfirmKeeps DEF Call
  <2>. QED
    BY <1>2, <2>1, <2>2, <2>3, <2>4, <2>5 DEF Next
<1>. QED
  BY <1>1, <1>2

\* What a call has submitted is exclusive among itself and with what it may
\* submit yet, and a list a call works from does not change under it.
THEOREM WalletInvariant == PromptSpec => []Inv
<1>1. Init => Inv
  BY InvInit
<1>2. Inv /\ [Next /\ OneAtATime' /\ SubmitsAtOnce']_vars => Inv'
  BY InvKept
<1>. QED
  BY <1>1, <1>2, PTL DEF PromptSpec

\* A call moves its value at most once, through transient failures, lost answers,
\* transactions that land late and proofs rebuilt after the anchor grew old
\* (wallet.ts, submit and withTransientRetry).
THEOREM CallPaysOnce == PromptSpec => []PaysOnce
<1>1. Inv => PaysOnce
  <2>. SUFFICES ASSUME Inv, NEW c \in Calls
                PROVE  Cardinality(Payments(c)) <= 1
    BY DEF PaysOnce
  <2>1. CASE Payments(c) = {}
    BY <2>1, FS_EmptySet
  <2>2. CASE Payments(c) # {}
    <3>1. PICK h : h \in Payments(c)
      BY <2>2
    <3>2. Payments(c) = {h}
      BY <3>1 DEF Inv, Once
    <3>. QED
      BY <3>2, FS_Singleton
  <2>. QED
    BY <2>1, <2>2
<1>. QED
  BY <1>1, WalletInvariant, PTL

---------------------------------------------------------------------------
(* The list. *)

\* Ledgers are those of the past; the others number their notes, and a rho that was
\* drawn for a call is known through what the call has submitted.
ChainOK ==
  /\ ledger \in Nat /\ indexed \in 0..ledger /\ account \in Nat
  /\ DOMAIN leaf \subseteq Note /\ DOMAIN spent \subseteq Nullifiers(DOMAIN leaf)
  /\ \A n \in DOMAIN leaf : leaf[n] \in 1..ledger
  /\ \A f \in DOMAIN spent : spent[f] \in 1..ledger
  /\ IsFiniteSet(Sent) /\ \A n \in Sent : n.n <= Cardinality(Sent)
  /\ \A n \in DOMAIN leaf : n.rho[1] \in Calls => Mine(n.rho[1]) # {}

\* a plan creates at most one note of this wallet's, and that and its rho are the call's
ByCall(p, c) ==
  DOMAIN p.out \subseteq {1} /\ \A i \in DOMAIN p.out : p.out[i].by = c /\ p.out[i].rho[1] = c

PlansOK ==
  /\ try \in [Calls -> Nat \X Nat]
  /\ \A c \in Calls : plan[c] \in Plan /\ ByCall(plan[c], c)
  /\ \A h \in DOMAIN txs :
       /\ h[1] \in Calls
       /\ txs[h].plan \in Plan /\ ByCall(txs[h].plan, h[1])
       /\ txs[h].plan.ins \subseteq DOMAIN leaf

\* What a call polls is what it sent: no attempt has the hash of an earlier one.
HashesOK(c) ==
  /\ \A h \in Mine(c) :
       /\ h[2] \in Nat /\ h[3] \in Nat /\ h[2] <= try[c][1]
       /\ h[2] = try[c][1] => h[3] <= try[c][2]
  /\ pc[c] = "send" => Hash(c) \notin DOMAIN txs
  /\ pc[c] \in {"check", "poll"} /\ Hash(c) \in DOMAIN txs => txs[Hash(c)].plan = plan[c]

\* A rho of a call under way is on no note before the last sync, and on none in the list.
OwnNew(c) ==
  Live(c) =>
    /\ \A n \in ToSet(notes) : n.rho[1] # c
    /\ \A n \in DOMAIN leaf : n.rho[1] = c => leaf[n] >= lastSync

\* no two notes of S exclude each other
NoneExclude(S) == \A m, n \in S : Nullifier(m) = Nullifier(n) => m = n

\* list has a note for every unused nullifier of the ledgers before upto
Has(upto, list) ==
  \A n \in DOMAIN leaf :
    leaf[n] < upto /\ Nullifier(n) \notin DOMAIN spent =>
      \E m \in list : Nullifier(m) = Nullifier(n)

\* those notes of S that are spent were spent in ledger from or later
SpentFrom(from, S) ==
  \A n \in S : Nullifier(n) \in DOMAIN spent => spent[Nullifier(n)] >= from

ListOK ==
  /\ notes \in Seq(Note) /\ IsInjective(notes)
  /\ ToSet(notes) \subseteq DOMAIN leaf
  /\ lastSync \in 0..(indexed + 1)
  /\ Has(lastSync, ToSet(notes))
  /\ NoneExclude(ToSet(notes) \cap Synced) /\ SpentFrom(lastSync, ToSet(notes) \cap Synced)

\* With what is left of the page, the list has everything before the cursor; when
\* the answer arrives, what it misses was spent at the cursor or later.
SyncOK ==
  /\ DOMAIN sync = {"at", "cursor", "page", "list", "same", "asked", "gone"}
  /\ sync.page \subseteq DOMAIN leaf /\ \A n \in sync.page : leaf[n] >= lastSync
  /\ sync.asked \in Seq(Rho)
  /\ sync.at # "off" =>
       /\ sync.cursor \in lastSync..(indexed + 1)
       /\ Has(sync.cursor, ToSet(notes) \cup sync.page)
  /\ sync.at # "fetch" => sync.page = {}
  /\ sync.at = "dedup" => sync.same
  /\ sync.at \in {"ask", "drop"} =>
       /\ sync.asked = [i \in DOMAIN notes |-> Nullifier(notes[i])]
       /\ NoneExclude(ToSet(notes))
  /\ sync.at = "drop" =>
       /\ sync.gone \subseteq DOMAIN spent
       /\ SpentFrom(sync.cursor, {n \in ToSet(notes) : Nullifier(n) \notin sync.gone})

ListInv == ChainOK /\ PlansOK /\ ListOK /\ SyncOK /\ \A c \in Calls : HashesOK(c) /\ OwnNew(c)

---------------------------------------------------------------------------
(* What the operators on lists and sets of notes come to. *)

\* A filter keeps what is at its positions, and repeats nothing.
LEMMA EntriesFacts ==
  ASSUME NEW X, NEW list \in Seq(X), NEW positions \in SUBSET DOMAIN list
  PROVE  /\ EntriesAt(list, positions) \in Seq(X)
         /\ ToSet(EntriesAt(list, positions)) = {list[i] : i \in positions}
         /\ (\A i, j \in positions : list[i] = list[j] => i = j) =>
              IsInjective(EntriesAt(list, positions))
<1>. DEFINE order == Ascending(positions)
            kept == EntriesAt(list, positions)
            k == Cardinality(positions)
<1>1. Len(list) \in Nat /\ DOMAIN list = 1..Len(list) /\ positions \in SUBSET (0..Len(list))
  OBVIOUS
<1>2. k \in Nat /\ order \in [1..k -> positions] /\ Ascends(order, positions)
  BY <1>1, AscendingSorts
<1>3. IsInjective(order)
  BY <1>1, AscendingSequence
<1>. HIDE DEF order, k
<1>4. kept = [i \in 1..k |-> list[order[i]]]
  BY <1>2 DEF EntriesAt, order
<1>5. DOMAIN order = 1..k /\ \A i \in 1..k : order[i] \in positions
  BY <1>2
<1>. HIDE DEF kept
<1>6. \A i \in positions : list[i] \in X
  BY <1>1
<1>7. kept \in Seq(X)
  <2>1. kept \in [1..k -> X]
    BY <1>4, <1>5, <1>6
  <2>. QED
    BY <1>2, <2>1
<1>8. positions = {order[i] : i \in 1..k}
  BY <1>2, <1>5 DEF Ascends
<1>9. ToSet(kept) = {list[i] : i \in positions}
  <2>1. ToSet(kept) = {list[order[i]] : i \in 1..k}
    BY <1>4 DEF ToSet
  <2>. QED
    BY <1>8, <2>1
<1>10. ASSUME \A i, j \in positions : list[i] = list[j] => i = j
       PROVE  IsInjective(kept)
  <2>1. \A i, j \in 1..k : kept[i] = kept[j] => i = j
    BY <1>3, <1>4, <1>5, <1>10 DEF IsInjective
  <2>2. DOMAIN kept = 1..k
    BY <1>4
  <2>. QED
    BY <2>1, <2>2 DEF IsInjective
<1>. QED
  BY <1>7, <1>9, <1>10 DEF kept

\* A set of two members at most.
LEMMA TwoAtMost ==
  ASSUME NEW S, IsFiniteSet(S), Cardinality(S) \in {1, 2}
  PROVE  \E x, y \in S : S = {x, y}
<1>1. PICK x \in S : TRUE
  BY FS_EmptySet
<1>2. IsFiniteSet(S \ {x}) /\ Cardinality(S \ {x}) = Cardinality(S) - 1
  BY <1>1, FS_RemoveElement
<1>3. CASE Cardinality(S) = 1
  <2>1. S \ {x} = {}
    BY <1>2, <1>3, FS_EmptySet
  <2>. QED
    BY <1>1, <2>1
<1>4. CASE Cardinality(S) = 2
  <2>. DEFINE R == S \ {x}
  <2>1. IsFiniteSet(R) /\ Cardinality(R) = 1
    BY <1>2, <1>4
  <2>. HIDE DEF R
  <2>2. PICK y : R = {y}
    BY <2>1, FS_Singleton
  <2>. QED
    BY <1>1, <2>2 DEF R
<1>. QED
  BY <1>3, <1>4

\* The recursive function behind the sum exists, which has to be shown: for two
\* notes it can be written down.
LEMMA SumOfTwo ==
  ASSUME NEW x, NEW y, x.value \in Nat, y.value \in Nat
  PROVE  Total({x, y}) \in Nat
<1>. DEFINE S == {x, y}
            pick(s) == CHOOSE n \in s : TRUE
            Rec(f) == [s \in SUBSET S |-> IF s = {} THEN 0
                                          ELSE pick(s).value + f[s \ {pick(s)}]]
            g == [s \in SUBSET S |->
                    IF s = {} THEN 0
                    ELSE pick(s).value + (IF s \ {pick(s)} = {} THEN 0
                                          ELSE pick(s \ {pick(s)}).value + 0)]
            it == CHOOSE f : f = Rec(f)
<1>1. \A s \in SUBSET S : /\ s # {} => pick(s) \in s
                          /\ s \ {pick(s)} \in SUBSET S
  OBVIOUS
<1>2. \A s \in SUBSET S : (s \ {pick(s)}) \ {pick(s \ {pick(s)})} = {}
  <2>. SUFFICES ASSUME NEW s \in SUBSET S
                PROVE  (s \ {pick(s)}) \ {pick(s \ {pick(s)})} = {}
    OBVIOUS
  <2>1. CASE s = {}
    BY <2>1
  <2>2. CASE s # {} /\ s \ {pick(s)} = {}
    BY <2>2
  <2>3. CASE s # {} /\ s \ {pick(s)} # {}
    <3>1. pick(s) \in s /\ pick(s \ {pick(s)}) \in s \ {pick(s)}
      BY <1>1, <2>3
    <3>. HIDE DEF pick
    <3>. QED
      BY <3>1
  <2>. QED
    BY <2>1, <2>2, <2>3
<1>3. \A s \in SUBSET S : g[s] = IF s = {} THEN 0 ELSE pick(s).value + g[s \ {pick(s)}]
  <2>. HIDE DEF pick
  <2>. QED
    BY <1>1, <1>2
<1>4. g = Rec(g)
  <2>1. g = [s \in SUBSET S |-> g[s]]
    OBVIOUS
  <2>. HIDE DEF g, pick
  <2>. QED
    BY <1>3, <2>1
<1>5. it = Rec(it)
  <2>. HIDE DEF g, Rec
  <2>. QED
    BY <1>4
<1>6. Total(S) = it[S]
  BY DEF Total, FoldSet, MapThenFoldSet
<1>7. \A s \in SUBSET S : it[s] = IF s = {} THEN 0 ELSE pick(s).value + it[s \ {pick(s)}]
  <2>. HIDE DEF it, pick
  <2>. QED
    BY <1>5
<1>. DEFINE a == pick(S)
            rest == S \ {a}
            b == pick(rest)
<1>8. a \in S /\ rest \in SUBSET S /\ S # {} /\ (rest # {} => b \in S)
  BY <1>1
<1>9. rest # {} => it[rest] = b.value + it[{}]
  BY <1>2, <1>7, <1>8
<1>10. it[{}] = 0 /\ (rest = {} => it[rest] = 0) /\ it[S] = a.value + it[rest]
  BY <1>7, <1>8
<1>11. \A n \in S : n.value \in Nat
  OBVIOUS
<1>. HIDE DEF a, rest, b, it, S
<1>. QED
  BY <1>6, <1>8, <1>9, <1>10, <1>11 DEF S

---------------------------------------------------------------------------
(* The chain grows. *)

\* What the list and the sync are measured against has not changed.
LEMMA ListingKept ==
  ASSUME ListOK, SyncOK, UNCHANGED <<leaf, spent, indexed, notes, lastSync, sync>>
  PROVE  ListOK' /\ SyncOK'
<1>1. ListOK'
  BY DEF ListOK, Has, NoneExclude, SpentFrom, Synced, Nullifier
<1>2. SyncOK'
  BY DEF SyncOK, Has, NoneExclude, SpentFrom, Nullifier
<1>. QED
  BY <1>1, <1>2

\* Notes enter the tree and others are spent: the list stays as good as it was,
\* since what changes is of a ledger no sync has come to.
LEMMA ListKept ==
  ASSUME ListInv, NEW new, NEW used,
         ledger' = ledger + 1, UNCHANGED <<indexed, notes, lastSync, sync>>,
         new \cap DOMAIN leaf = {}, new \subseteq Note,
         DOMAIN leaf' = DOMAIN leaf \cup new,
         \A n \in DOMAIN leaf : leaf'[n] = leaf[n], \A n \in new : leaf'[n] = ledger + 1,
         used \subseteq Nullifiers(DOMAIN leaf),
         DOMAIN spent' = DOMAIN spent \cup used,
         \A f \in DOMAIN spent : spent'[f] = spent[f], \A f \in used : spent'[f] = ledger + 1,
         used \cap DOMAIN spent = {}
  PROVE  /\ ListOK' /\ SyncOK'
         /\ DOMAIN leaf' \subseteq Note /\ DOMAIN spent' \subseteq Nullifiers(DOMAIN leaf')
         /\ \A n \in DOMAIN leaf' : leaf'[n] \in 1..ledger'
         /\ \A f \in DOMAIN spent' : spent'[f] \in 1..ledger'
<1>1. /\ ledger \in Nat /\ indexed \in 0..ledger /\ lastSync \in 0..(indexed + 1)
      /\ DOMAIN leaf \subseteq Note /\ DOMAIN spent \subseteq Nullifiers(DOMAIN leaf)
      /\ \A n \in DOMAIN leaf : leaf[n] \in 1..ledger
      /\ \A f \in DOMAIN spent : spent[f] \in 1..ledger
  BY DEF ListInv, ChainOK, ListOK
<1>2. ASSUME NEW upto \in 0..(indexed + 1), NEW list, Has(upto, list)
      PROVE  Has(upto, list)'
  <2>. SUFFICES ASSUME NEW n \in DOMAIN leaf', leaf'[n] < upto, Nullifier(n) \notin DOMAIN spent'
                PROVE  \E m \in list : Nullifier(m) = Nullifier(n)
    BY DEF Has, Nullifier
  <2>1. n \notin new
    BY <1>1
  <2>. QED
    BY <1>2, <2>1 DEF Has
<1>3. ASSUME NEW from \in 0..(indexed + 1), NEW S, SpentFrom(from, S)
      PROVE  SpentFrom(from, S)'
  <2>. SUFFICES ASSUME NEW n \in S, Nullifier(n) \in DOMAIN spent'
                PROVE  spent'[Nullifier(n)] >= from
    BY DEF SpentFrom, Nullifier
  <2>1. CASE Nullifier(n) \in DOMAIN spent
    BY <1>3, <2>1 DEF SpentFrom
  <2>2. CASE Nullifier(n) \in used
    BY <1>1, <2>2
  <2>. QED
    BY <2>1, <2>2
<1>4. ToSet(notes)' = ToSet(notes) /\ ToSet(notes) \cap Synced' = ToSet(notes) \cap Synced
  <2>1. ToSet(notes) \subseteq DOMAIN leaf
    BY DEF ListInv, ListOK
  <2>. QED
    BY <2>1 DEF Synced
<1>5. ListOK'
  <2>1. Has(lastSync, ToSet(notes))' /\ SpentFrom(lastSync, ToSet(notes) \cap Synced)'
    BY <1>1, <1>2, <1>3, <1>4 DEF ListInv, ListOK
  <2>2. NoneExclude(ToSet(notes) \cap Synced)'
    BY <1>4 DEF ListInv, ListOK, NoneExclude, Nullifier
  <2>. QED
    BY <2>1, <2>2 DEF ListInv, ListOK
<1>6. SyncOK'
  <2>1. ASSUME sync.at # "off"
        PROVE  /\ sync.cursor \in lastSync..(indexed + 1) /\ sync.cursor \in 0..(indexed + 1)
               /\ Has(sync.cursor, ToSet(notes) \cup sync.page)'
    <3>1. sync.cursor \in lastSync..(indexed + 1) /\ Has(sync.cursor, ToSet(notes) \cup sync.page)
      BY <2>1 DEF ListInv, SyncOK
    <3>2. sync.cursor \in 0..(indexed + 1)
      BY <1>1, <3>1
    <3>3. Has(sync.cursor, ToSet(notes) \cup sync.page)'
      BY <1>2, <3>1, <3>2
    <3>. QED
      BY <3>1, <3>2, <3>3
  <2>2. ASSUME sync.at = "drop"
        PROVE  /\ sync.gone \subseteq DOMAIN spent'
               /\ SpentFrom(sync.cursor, {n \in ToSet(notes) : Nullifier(n) \notin sync.gone})'
    <3>. DEFINE S == {n \in ToSet(notes) : Nullifier(n) \notin sync.gone}
    <3>1. SpentFrom(sync.cursor, S) /\ sync.gone \subseteq DOMAIN spent
      BY <2>2 DEF ListInv, SyncOK
    <3>2. S' = S
      BY DEF Nullifier
    <3>. HIDE DEF S
    <3>. QED
      BY <1>3, <2>1, <2>2, <3>1, <3>2 DEF S
  <2>3. /\ DOMAIN sync = {"at", "cursor", "page", "list", "same", "asked", "gone"}
        /\ sync.page \subseteq DOMAIN leaf' /\ \A n \in sync.page : leaf'[n] >= lastSync
        /\ sync.asked \in Seq(Rho)
        /\ sync.at # "fetch" => sync.page = {}
        /\ sync.at = "dedup" => sync.same
    BY DEF ListInv, SyncOK
  <2>4. sync.at \in {"ask", "drop"} =>
          /\ sync.asked = [i \in DOMAIN notes |-> Nullifier(notes[i])]'
          /\ NoneExclude(ToSet(notes))'
    BY DEF ListInv, SyncOK, NoneExclude, Nullifier
  <2>. QED
    BY <2>1, <2>2, <2>3, <2>4 DEF SyncOK
<1>7. DOMAIN spent' \subseteq Nullifiers(DOMAIN leaf')
  BY <1>1 DEF Nullifiers, Nullifier
<1>. QED
  BY <1>1, <1>5, <1>6, <1>7

\* Somebody sends this wallet its next note.
LEMMA OthersKeepList ==
  ASSUME Inv, ListInv, OthersAct
  PROVE  ListInv'
<1>. DEFINE k == Cardinality(Sent)
<1>1. /\ ledger' = ledger + 1
      /\ UNCHANGED <<spent, indexed, account, txs, notes, lastSync, sync, pc, plan, try>>
  BY DEF OthersAct, calls
<1>2. IsFiniteSet(Sent) /\ k \in Nat /\ \A n \in Sent : n.n <= k
  BY FS_CardinalityType DEF ListInv, ChainOK
<1>3. PICK mine :
        /\ leaf' = Stamp(leaf, mine)
        /\ \/ mine = {}
           \/ \E i \in {1 + k} \cap DOMAIN Received, rho \in {<<Sender, 1 + k>>} \cup KnownRhos :
                mine = {MakeNote(Sender, i, Received[i], rho)}
  BY DEF OthersAct
<1>. HIDE DEF k
<1>4. \A rho \in KnownRhos : rho \in Rho /\ (rho[1] \in Calls => Mine(rho[1]) # {})
  <2>. SUFFICES ASSUME NEW n \in Sent \cup Shown
                PROVE  n.rho \in Rho /\ (n.rho[1] \in Calls => Mine(n.rho[1]) # {})
    BY DEF KnownRhos
  <2>1. CASE n \in Sent
    <3>1. n \in DOMAIN leaf /\ n \in Note
      BY <2>1 DEF Sent, ListInv, ChainOK
    <3>. QED
      BY <3>1 DEF Note, ListInv, ChainOK
  <2>2. CASE n \in Shown
    <3>1. PICK h \in DOMAIN txs : n \in ToSet(txs[h].plan.out)
      BY <2>2 DEF Shown
    <3>2. /\ txs[h].plan \in Plan /\ ByCall(txs[h].plan, h[1]) /\ h \in Mine(h[1])
      BY DEF ListInv, PlansOK, Mine
    <3>3. txs[h].plan.out \in Seq(Note)
      BY <3>2 DEF Plan
    <3>4. PICK i \in DOMAIN txs[h].plan.out : n = txs[h].plan.out[i]
      BY <3>1 DEF ToSet
    <3>5. n \in Note /\ n.rho[1] = h[1]
      BY <3>2, <3>3, <3>4 DEF ByCall
    <3>. QED
      BY <3>2, <3>5 DEF Note
  <2>. QED
    BY <2>1, <2>2
<1>5. \A n \in mine : /\ mine = {n} /\ n \in Note /\ n.by = Sender /\ n.n = k + 1
                      /\ n.rho[1] \in Calls => Mine(n.rho[1]) # {}
  <2>. SUFFICES ASSUME NEW i \in {1 + k} \cap DOMAIN Received,
                       NEW rho \in {<<Sender, 1 + k>>} \cup KnownRhos,
                       mine = {MakeNote(Sender, i, Received[i], rho)}
                PROVE  LET n == MakeNote(Sender, i, Received[i], rho)
                       IN  /\ n \in Note /\ n.by = Sender /\ n.n = k + 1
                           /\ n.rho[1] \in Calls => Mine(n.rho[1]) # {}
    BY <1>3
  <2>1. i = k + 1 /\ i \in Nat /\ Received[i] \in Nat
    BY <1>2, WalletAssumption
  <2>2. rho \in Rho /\ (rho[1] \in Calls => Mine(rho[1]) # {})
    <3>1. CASE rho = <<Sender, 1 + k>>
      BY <1>2, <3>1, WalletAssumption DEF Rho
    <3>. QED
      BY <1>4, <3>1
  <2>. QED
    BY <2>1, <2>2 DEF MakeNote, Note
<1>6. mine \cap DOMAIN leaf = {}
  <2>. SUFFICES ASSUME NEW n \in mine, n \in DOMAIN leaf
                PROVE  FALSE
    OBVIOUS
  <2>1. n.by = Sender /\ n.n = k + 1
    BY <1>5
  <2>2. n \in Sent
    BY <2>1 DEF Sent
  <2>3. n.n <= k
    BY <1>2, <2>2
  <2>. QED
    BY <1>2, <2>1, <2>3
<1>7. /\ DOMAIN leaf' = DOMAIN leaf \cup mine
      /\ \A n \in DOMAIN leaf : leaf'[n] = leaf[n]
      /\ \A n \in mine : leaf'[n] = ledger + 1
  BY <1>3, <1>6 DEF Stamp
<1>8. /\ ListOK' /\ SyncOK'
      /\ DOMAIN leaf' \subseteq Note /\ DOMAIN spent' \subseteq Nullifiers(DOMAIN leaf')
      /\ \A n \in DOMAIN leaf' : leaf'[n] \in 1..ledger'
      /\ \A f \in DOMAIN spent' : spent'[f] \in 1..ledger'
  <2>1. mine \subseteq Note /\ {} \subseteq Nullifiers(DOMAIN leaf)
    BY <1>5
  <2>2. DOMAIN spent' = DOMAIN spent \cup {}
    BY <1>1
  <2>. QED
    BY <1>1, <1>6, <1>7, <2>1, <2>2, ListKept
<1>9. IsFiniteSet(Sent') /\ \A n \in Sent' : n.n <= Cardinality(Sent')
  <2>1. Sent' = Sent \cup mine
    BY <1>5, <1>7 DEF Sent
  <2>2. CASE mine = {}
    <3>1. Sent' = Sent
      BY <2>1, <2>2
    <3>. QED
      BY <1>2, <3>1 DEF k
  <2>3. CASE mine # {}
    <3>1. PICK n : mine = {n} /\ n.n = k + 1 /\ n \notin Sent
      BY <1>5, <1>6, <2>3 DEF Sent
    <3>2. Sent' = Sent \cup {n}
      BY <2>1, <3>1
    <3>3. IsFiniteSet(Sent') /\ Cardinality(Sent') = k + 1
      BY <1>2, <3>1, <3>2, FS_AddElement DEF k
    <3>4. ASSUME NEW m \in Sent
          PROVE  m.n <= k + 1
      <4>1. m.n \in Nat
        BY DEF Sent, ListInv, ChainOK, Note
      <4>. QED
        BY <1>2, <4>1
    <3>. QED
      BY <1>2, <3>1, <3>2, <3>3, <3>4
  <2>. QED
    BY <2>2, <2>3
<1>10. \A n \in DOMAIN leaf' : n.rho[1] \in Calls => Mine(n.rho[1])' # {}
  <2>1. \A c \in Calls : Mine(c)' = Mine(c)
    BY <1>1 DEF Mine
  <2>. QED
    BY <1>5, <1>7, <2>1 DEF ListInv, ChainOK
<1>11. ChainOK'
  <2>1. ledger' \in Nat /\ indexed' \in 0..ledger' /\ account' \in Nat
    BY <1>1 DEF ListInv, ChainOK
  <2>. QED
    BY <1>8, <1>9, <1>10, <2>1 DEF ChainOK
<1>12. PlansOK'
  BY <1>1, <1>7 DEF ListInv, PlansOK, ByCall
<1>13. ASSUME NEW c \in Calls
       PROVE  HashesOK(c)' /\ OwnNew(c)'
  <2>1. HashesOK(c)'
    BY <1>1 DEF ListInv, HashesOK, Mine, Hash
  <2>2. \A n \in mine : leaf'[n] >= lastSync
    BY <1>7 DEF ListInv, ListOK, ChainOK
  <2>3. OwnNew(c)'
    BY <1>1, <1>7, <2>2 DEF ListInv, OwnNew, Live
  <2>. QED
    BY <2>1, <2>3
<1>. QED
  BY <1>8, <1>11, <1>12, <1>13 DEF ListInv

\* A transaction is applied.
LEMMA LandKeepsList ==
  ASSUME Inv, ListInv, NEW h \in DOMAIN txs, Land(h)
  PROVE  ListInv'
<1>. DEFINE p == txs[h].plan
            ok == Verdict(p) = "Accepted"
<1>1. UNCHANGED <<indexed, notes, lastSync, sync, pc, plan, try>> /\ account' = account + 1
  BY DEF Land, calls
<1>2. /\ DOMAIN txs' = DOMAIN txs
      /\ \A i \in DOMAIN txs : txs'[i].plan = txs[i].plan
  BY DEF Land, Inv, Shapes
<1>3. /\ h[1] \in Calls /\ p \in Plan /\ ByCall(p, h[1]) /\ p.ins \subseteq DOMAIN leaf
  BY DEF ListInv, PlansOK
<1>4. ok => Nullifiers(p.ins) \cap DOMAIN spent = {} /\ ToSet(p.out) \cap DOMAIN leaf = {}
  BY DEF Verdict
<1>5. \A n \in ToSet(p.out) : n \in Note /\ n.by = h[1] /\ n.rho[1] = h[1]
  <2>1. p.out \in Seq(Note)
    BY <1>3 DEF Plan
  <2>2. \A i \in DOMAIN p.out : p.out[i] \in Note /\ p.out[i].by = h[1] /\ p.out[i].rho[1] = h[1]
    <3>1. \A i \in DOMAIN p.out : p.out[i] \in Note
      BY <2>1
    <3>. QED
      BY <1>3, <3>1 DEF ByCall
  <2>. HIDE DEF p
  <2>. QED
    BY <2>2 DEF ToSet
<1>6. \A c \in Calls : Mine(c)' = Mine(c)
  BY <1>2 DEF Mine
<1>7. CASE ok
  <2>0. /\ ledger' = ledger + 1
        /\ leaf' = Stamp(leaf, ToSet(p.out)) /\ spent' = Stamp(spent, Nullifiers(p.ins))
    BY <1>7 DEF Land
  <2>. HIDE DEF p, ok
  <2>1. /\ DOMAIN leaf' = DOMAIN leaf \cup ToSet(p.out)
        /\ \A n \in DOMAIN leaf : leaf'[n] = leaf[n]
        /\ \A n \in ToSet(p.out) : leaf'[n] = ledger + 1
    BY <1>4, <1>7, <2>0 DEF Stamp
  <2>2. /\ DOMAIN spent' = DOMAIN spent \cup Nullifiers(p.ins)
        /\ \A f \in DOMAIN spent : spent'[f] = spent[f]
        /\ \A f \in Nullifiers(p.ins) : spent'[f] = ledger + 1
    BY <1>4, <1>7, <2>0 DEF Stamp
  <2>3. /\ ListOK' /\ SyncOK'
        /\ DOMAIN leaf' \subseteq Note /\ DOMAIN spent' \subseteq Nullifiers(DOMAIN leaf')
        /\ \A n \in DOMAIN leaf' : leaf'[n] \in 1..ledger'
        /\ \A f \in DOMAIN spent' : spent'[f] \in 1..ledger'
    <3>1. ToSet(p.out) \subseteq Note /\ Nullifiers(p.ins) \subseteq Nullifiers(DOMAIN leaf)
      BY <1>3, <1>5 DEF Nullifiers
    <3>. QED
      BY <1>1, <1>3, <1>4, <1>7, <2>0, <2>1, <2>2, <3>1, ListKept
  <2>4. Sent' = Sent
    BY <1>3, <1>5, <2>1, WalletAssumption DEF Sent
  <2>5. \A n \in DOMAIN leaf' : n.rho[1] \in Calls => Mine(n.rho[1])' # {}
    <3>1. h \in Mine(h[1])
      BY DEF Mine
    <3>2. \A n \in ToSet(p.out) : Mine(n.rho[1])' # {}
      BY <1>3, <1>5, <1>6, <3>1
    <3>. QED
      BY <1>6, <2>1, <3>2 DEF ListInv, ChainOK
  <2>6. ChainOK'
    <3>1. ledger' \in Nat /\ indexed' \in 0..ledger' /\ account' \in Nat
      BY <1>1, <2>0 DEF ListInv, ChainOK
    <3>2. IsFiniteSet(Sent') /\ \A n \in Sent' : n.n <= Cardinality(Sent')
      BY <2>4 DEF ListInv, ChainOK
    <3>. QED
      BY <2>3, <2>5, <3>1, <3>2 DEF ChainOK
  <2>7. PlansOK'
    BY <1>1, <1>2, <2>1 DEF ListInv, PlansOK, ByCall
  <2>8. ASSUME NEW c \in Calls
        PROVE  HashesOK(c)' /\ OwnNew(c)'
    <3>1. HashesOK(c)'
      BY <1>1, <1>2, <1>6 DEF ListInv, HashesOK, Mine, Hash
    <3>2. \A n \in ToSet(p.out) : leaf'[n] >= lastSync
      BY <2>1 DEF ListInv, ListOK, ChainOK
    <3>3. OwnNew(c)'
      BY <1>1, <2>1, <3>2 DEF ListInv, OwnNew, Live
    <3>. QED
      BY <3>1, <3>3
  <2>. QED
    BY <2>3, <2>6, <2>7, <2>8 DEF ListInv
<1>8. CASE ~ok
  <2>0. UNCHANGED <<ledger, leaf, spent>>
    BY <1>8 DEF Land
  <2>1. ChainOK'
    BY <1>1, <1>6, <2>0 DEF ListInv, ChainOK, Sent
  <2>2. PlansOK'
    BY <1>1, <1>2, <2>0 DEF ListInv, PlansOK, ByCall
  <2>3. ListOK' /\ SyncOK'
    BY <1>1, <2>0, ListingKept DEF ListInv
  <2>4. ASSUME NEW c \in Calls
        PROVE  HashesOK(c)' /\ OwnNew(c)'
    BY <1>1, <1>2, <1>6, <2>0 DEF ListInv, HashesOK, Mine, Hash, OwnNew, Live
  <2>. QED
    BY <2>1, <2>2, <2>3, <2>4 DEF ListInv
<1>. QED
  BY <1>7, <1>8

---------------------------------------------------------------------------
(* The sync. *)

\* The indexer and the sync leave everything but the list and the sync alone.
LEMMA SyncFrame ==
  ASSUME ListInv, UNCHANGED <<ledger, leaf, spent, account, txs, pc, plan, try>>,
         indexed' \in 0..ledger, ListOK', SyncOK',
         \A c \in Calls : Live(c) => notes' = notes /\ lastSync' = lastSync
  PROVE  ListInv'
<1>1. ChainOK'
  <2>1. \A c \in Calls : Mine(c)' = Mine(c)
    BY DEF Mine
  <2>. QED
    BY <2>1 DEF ListInv, ChainOK, Sent
<1>2. PlansOK'
  BY DEF ListInv, PlansOK, ByCall
<1>3. \A c \in Calls : HashesOK(c)' /\ OwnNew(c)'
  BY DEF ListInv, HashesOK, OwnNew, Mine, Hash, Live
<1>. QED
  BY <1>1, <1>2, <1>3 DEF ListInv

LEMMA IndexKeepsList ==
  ASSUME Inv, ListInv, Index
  PROVE  ListInv'
<1>1. UNCHANGED <<ledger, leaf, spent, account, txs, pc, plan, try, notes, lastSync, sync>>
  BY DEF Index, calls
<1>2. indexed \in Nat /\ indexed' = indexed + 1 /\ indexed' \in 0..ledger
  BY DEF Index, ListInv, ChainOK
<1>3. lastSync \in 0..(indexed' + 1)
  BY <1>2 DEF ListInv, ListOK
<1>4. ListOK'
  BY <1>1, <1>3 DEF ListInv, ListOK, Has, NoneExclude, SpentFrom, Synced, Nullifier
<1>5. SyncOK'
  <2>1. sync.at # "off" => sync.cursor \in lastSync..(indexed' + 1)
    BY <1>2 DEF ListInv, SyncOK, ListOK
  <2>. QED
    BY <1>1, <2>1 DEF ListInv, SyncOK, Has, NoneExclude, SpentFrom, Nullifier
<1>. QED
  BY <1>1, <1>2, <1>4, <1>5, SyncFrame

\* A step of a sync that leaves the list alone.
LEMMA ListLeft ==
  ASSUME ListOK, UNCHANGED <<leaf, spent, indexed, notes, lastSync>>
  PROVE  ListOK'
BY DEF ListOK, Has, NoneExclude, SpentFrom, Synced, Nullifier

LEMMA SyncStartKeepsList ==
  ASSUME Inv, ListInv, SyncStart
  PROVE  ListOK' /\ SyncOK'
<1>1. UNCHANGED <<leaf, spent, indexed, notes, lastSync>>
  BY DEF SyncStart, chain
<1>2. sync' = [NotSyncing EXCEPT !.at = "fetch", !.cursor = lastSync]
  BY DEF SyncStart
<1>3. /\ sync'.at = "fetch" /\ sync'.cursor = lastSync /\ sync'.page = {}
      /\ sync'.asked = <<>>
      /\ DOMAIN sync' = {"at", "cursor", "page", "list", "same", "asked", "gone"}
  BY <1>2 DEF NotSyncing
<1>4. ListOK'
  BY <1>1, ListLeft DEF ListInv
<1>5. lastSync \in lastSync..(indexed + 1)
  BY DEF ListInv, ListOK, ChainOK
<1>6. Has(lastSync, ToSet(notes) \cup {})'
  BY <1>1 DEF ListInv, ListOK, Has, Nullifier
<1>. QED
  BY <1>1, <1>3, <1>4, <1>5, <1>6 DEF SyncOK

\* A page: what the indexer has from the cursor on.
LEMMA FetchKeepsList ==
  ASSUME Inv, ListInv, Fetch
  PROVE  ListOK' /\ SyncOK'
<1>. DEFINE mine == {n \in DOMAIN leaf : leaf[n] \in sync.cursor..indexed}
<1>1. UNCHANGED <<leaf, spent, indexed, notes, lastSync>>
  BY DEF Fetch, chain
<1>2. /\ sync.at = "fetch" /\ sync.page = {} /\ sync.asked \in Seq(Rho)
      /\ DOMAIN sync = {"at", "cursor", "page", "list", "same", "asked", "gone"}
      /\ sync.cursor \in lastSync..(indexed + 1)
      /\ Has(sync.cursor, ToSet(notes) \cup sync.page)
  BY DEF Fetch, ListInv, SyncOK
<1>3. ListOK'
  BY <1>1, ListLeft DEF ListInv
<1>4. /\ indexed \in Nat /\ lastSync \in Nat /\ sync.cursor \in Nat
      /\ \A n \in DOMAIN leaf : leaf[n] \in Nat
  BY <1>2 DEF ListInv, ChainOK, ListOK
<1>5. CASE sync.cursor > indexed
  <2>1. sync' = [sync EXCEPT !.at = "dedup", !.same = TRUE]
    BY <1>5 DEF Fetch
  <2>2. /\ sync'.at = "dedup" /\ sync'.page = sync.page /\ sync'.asked = sync.asked
        /\ sync'.cursor = sync.cursor /\ DOMAIN sync' = DOMAIN sync
    BY <1>2, <2>1
  <2>3. sync'.same
    <3>1. "same" \in DOMAIN sync
      BY DEF ListInv, SyncOK
    <3>. QED
      BY <2>1, <3>1
  <2>. QED
    BY <1>1, <1>2, <1>3, <2>2, <2>3 DEF SyncOK, Has, Nullifier
<1>6. CASE ~(sync.cursor > indexed)
  <2>1. sync' = [sync EXCEPT !.cursor = indexed + 1, !.page = mine]
    BY <1>6 DEF Fetch
  <2>2. /\ sync'.at = "fetch" /\ sync'.page = mine /\ sync'.asked = sync.asked
        /\ sync'.cursor = indexed + 1 /\ DOMAIN sync' = DOMAIN sync
    BY <1>2, <2>1
  <2>3. \A n \in mine : leaf[n] >= lastSync
    BY <1>2, <1>4
  <2>4. Has(indexed + 1, ToSet(notes) \cup mine)
    <3>. SUFFICES ASSUME NEW n \in DOMAIN leaf, Nullifier(n) \notin DOMAIN spent, leaf[n] < indexed + 1
                  PROVE  \E m \in ToSet(notes) \cup mine : Nullifier(m) = Nullifier(n)
      BY DEF Has
    <3>1. CASE leaf[n] < sync.cursor
      BY <1>2, <3>1 DEF Has
    <3>2. CASE ~(leaf[n] < sync.cursor)
      BY <1>4, <3>2
    <3>. QED
      BY <3>1, <3>2
  <2>5. indexed + 1 \in lastSync..(indexed + 1)
    BY <1>2, <1>4
  <2>. HIDE DEF mine
  <2>. QED
    BY <1>1, <1>2, <1>3, <2>2, <2>3, <2>4, <2>5 DEF SyncOK, Has, mine, Nullifier
<1>. QED
  BY <1>5, <1>6

\* A note of the page enters the list, if it is new.
LEMMA PushKeepsList ==
  ASSUME Inv, ListInv, PushFetched
  PROVE  ListOK' /\ SyncOK'
<1>1. UNCHANGED <<leaf, spent, indexed, lastSync>>
  BY DEF PushFetched, chain
<1>2. PICK n \in sync.page : sync' = [sync EXCEPT !.page = @ \ {n}] /\ notes' = Push(notes, n)
  BY DEF PushFetched
<1>3. sync.at = "fetch" /\ n \in DOMAIN leaf /\ n \in Note /\ leaf[n] >= lastSync
  BY DEF ListInv, SyncOK, ChainOK
<1>4. /\ notes \in Seq(Note) /\ IsInjective(notes) /\ ToSet(notes) \subseteq DOMAIN leaf
      /\ lastSync \in 0..(indexed + 1) /\ Has(lastSync, ToSet(notes))
      /\ NoneExclude(ToSet(notes) \cap Synced) /\ SpentFrom(lastSync, ToSet(notes) \cap Synced)
  BY DEF ListInv, ListOK
<1>5. /\ notes' \in Seq(Note) /\ IsInjective(notes')
      /\ ToSet(notes') = ToSet(notes) \cup {n}
  <2>1. CASE Contains(notes, n)
    <3>1. n \in ToSet(notes)
      BY <1>4, <2>1 DEF Contains, ToSet
    <3>. QED
      BY <1>2, <1>4, <2>1, <3>1 DEF Push
  <2>2. CASE ~Contains(notes, n)
    <3>. DEFINE k == Len(notes)
    <3>1. k \in Nat /\ DOMAIN notes = 1..k /\ notes' = Append(notes, n)
      BY <1>2, <1>4, <2>2 DEF Push
    <3>2. notes' \in Seq(Note) /\ DOMAIN notes' = 1..(k + 1) /\ notes'[k + 1] = n
          /\ \A i \in 1..k : notes'[i] = notes[i]
      BY <1>3, <1>4, <3>1
    <3>. HIDE DEF k
    <3>3. \A i \in 1..k : notes[i] # n
      BY <2>2, <3>1 DEF Contains, k
    <3>4. \A i \in 1..(k + 1) : i \in 1..k \/ i = k + 1
      BY <3>1
    <3>5. IsInjective(notes')
      BY <1>4, <3>1, <3>2, <3>3, <3>4 DEF IsInjective
    <3>6. ToSet(notes') = ToSet(notes) \cup {n}
      <4>1. k + 1 \in 1..(k + 1) /\ \A i \in 1..k : i \in 1..(k + 1)
        BY <3>1
      <4>. QED
        BY <3>1, <3>2, <3>4, <4>1 DEF ToSet
    <3>. QED
      BY <3>2, <3>5, <3>6
  <2>. QED
    BY <2>1, <2>2
<1>6. Synced' = Synced /\ n \notin Synced
  <2>1. lastSync \in Nat /\ leaf[n] \in Nat
    BY <1>3, <1>4 DEF ListInv, ChainOK
  <2>. QED
    BY <1>1, <1>3, <2>1 DEF Synced
<1>7. ToSet(notes') \cap Synced' = ToSet(notes) \cap Synced
  BY <1>5, <1>6
<1>8. ListOK'
  <2>1. Has(lastSync, ToSet(notes'))
    BY <1>4, <1>5 DEF Has
  <2>2. NoneExclude(ToSet(notes) \cap Synced)' /\ SpentFrom(lastSync, ToSet(notes) \cap Synced)'
    BY <1>1, <1>4, <1>7 DEF NoneExclude, SpentFrom, Nullifier
  <2>. QED
    BY <1>1, <1>3, <1>4, <1>5, <2>1, <2>2 DEF ListOK, Has, Nullifier
<1>9. /\ sync'.at = "fetch" /\ sync'.page = sync.page \ {n} /\ sync'.asked = sync.asked
      /\ sync'.cursor = sync.cursor
      /\ DOMAIN sync' = {"at", "cursor", "page", "list", "same", "asked", "gone"}
  <2>1. "page" \in DOMAIN sync
    BY DEF ListInv, SyncOK
  <2>2. DOMAIN sync' = {"at", "cursor", "page", "list", "same", "asked", "gone"}
    BY <1>2 DEF ListInv, SyncOK
  <2>. QED
    BY <1>2, <1>3, <2>1, <2>2
<1>10. SyncOK'
  <2>1. /\ sync.page \subseteq DOMAIN leaf /\ \A m \in sync.page : leaf[m] >= lastSync
        /\ sync.asked \in Seq(Rho)
        /\ sync.cursor \in lastSync..(indexed + 1)
        /\ Has(sync.cursor, ToSet(notes) \cup sync.page)
    BY <1>3 DEF ListInv, SyncOK
  <2>2. Has(sync.cursor, ToSet(notes') \cup (sync.page \ {n}))
    BY <1>5, <2>1 DEF Has
  <2>. QED
    BY <1>1, <1>9, <2>1, <2>2 DEF SyncOK, Has, Nullifier
<1>. QED
  BY <1>8, <1>10

\* Of the notes that share a nullifier the first stays, and the others go.
LEMMA FirstOfEach ==
  ASSUME NEW list \in Seq(Note), IsInjective(list)
  PROVE  LET keep == FirstOfEachNullifier(list)
         IN  /\ keep \in Seq(Note) /\ IsInjective(keep) /\ ToSet(keep) \subseteq ToSet(list)
             /\ NoneExclude(ToSet(keep))
             /\ \A n \in ToSet(list) : \E m \in ToSet(keep) : Nullifier(m) = Nullifier(n)
<1>. DEFINE first == {i \in DOMAIN list : \A j \in 1..(i - 1) : Nullifier(list[j]) # Nullifier(list[i])}
            keep == EntriesAt(list, first)
<1>1. first \in SUBSET DOMAIN list /\ DOMAIN list \in SUBSET Nat /\ DOMAIN list = 1..Len(list)
      /\ Len(list) \in Nat
  OBVIOUS
<1>2. \A i \in first : i \in DOMAIN list /\ \A j \in 1..(i - 1) : Nullifier(list[j]) # Nullifier(list[i])
  OBVIOUS
<1>3. ASSUME NEW i \in DOMAIN list
      PROVE  \E j \in first : Nullifier(list[j]) = Nullifier(list[i])
  <2>. DEFINE S == {j \in DOMAIN list : Nullifier(list[j]) = Nullifier(list[i])}
  <2>1. S \in SUBSET Nat /\ S # {}
    BY <1>1
  <2>2. PICK j \in S : \A l \in S : j <= l
    BY <2>1, LeastMember
  <2>3. j \in DOMAIN list /\ \A l \in 1..(j - 1) : l \in DOMAIN list /\ ~(j <= l)
    BY <1>1
  <2>4. \A l \in 1..(j - 1) : Nullifier(list[l]) # Nullifier(list[j])
    BY <2>2, <2>3
  <2>. QED
    BY <2>3, <2>4
<1>. HIDE DEF first
<1>4. /\ keep \in Seq(Note) /\ ToSet(keep) = {list[i] : i \in first}
      /\ (\A i, j \in first : list[i] = list[j] => i = j) => IsInjective(keep)
  BY <1>1, EntriesFacts
<1>5. \A i, j \in first : list[i] = list[j] => i = j
  BY <1>1 DEF IsInjective
<1>6. \A i, j \in first : Nullifier(list[i]) = Nullifier(list[j]) => i = j
  <2>. SUFFICES ASSUME NEW i \in first, NEW j \in first, i < j,
                       Nullifier(list[i]) = Nullifier(list[j])
                PROVE  FALSE
    BY <1>1
  <2>1. i \in 1..(j - 1)
    BY <1>1
  <2>. QED
    BY <1>2, <2>1
<1>. HIDE DEF keep
<1>7. NoneExclude(ToSet(keep))
  BY <1>4, <1>6 DEF NoneExclude
<1>8. ToSet(keep) \subseteq ToSet(list)
  BY <1>1, <1>4 DEF ToSet
<1>9. ASSUME NEW n \in ToSet(list)
      PROVE  \E m \in ToSet(keep) : Nullifier(m) = Nullifier(n)
  <2>1. PICK i \in DOMAIN list : n = list[i]
    BY DEF ToSet
  <2>. QED
    BY <1>3, <1>4, <2>1
<1>. QED
  BY <1>4, <1>5, <1>7, <1>8, <1>9 DEF FirstOfEachNullifier, keep, first

\* The nullifiers are walked through.
LEMMA KeepOneKeepsList ==
  ASSUME Inv, ListInv, KeepOnePerNullifier
  PROVE  ListOK' /\ SyncOK'
<1>. DEFINE keep == FirstOfEachNullifier(notes)
            asked == [i \in DOMAIN keep |-> Nullifier(keep[i])]
<1>1. UNCHANGED <<leaf, spent, indexed, lastSync>>
  BY DEF KeepOnePerNullifier, chain
<1>2. /\ sync.at = "dedup" /\ sync.same /\ sync.page = {}
      /\ DOMAIN sync = {"at", "cursor", "page", "list", "same", "asked", "gone"}
      /\ sync.cursor \in lastSync..(indexed + 1)
      /\ Has(sync.cursor, ToSet(notes) \cup sync.page)
  BY DEF KeepOnePerNullifier, ListInv, SyncOK
<1>3. /\ notes' = keep
      /\ sync' = [sync EXCEPT !.at = "ask", !.same = FALSE, !.list = <<>>, !.asked = asked]
  BY <1>2 DEF KeepOnePerNullifier
<1>4. /\ notes \in Seq(Note) /\ IsInjective(notes) /\ ToSet(notes) \subseteq DOMAIN leaf
      /\ lastSync \in 0..(indexed + 1) /\ Has(lastSync, ToSet(notes))
      /\ SpentFrom(lastSync, ToSet(notes) \cap Synced)
  BY DEF ListInv, ListOK
<1>5. /\ keep \in Seq(Note) /\ IsInjective(keep) /\ ToSet(keep) \subseteq ToSet(notes)
      /\ NoneExclude(ToSet(keep))
      /\ \A n \in ToSet(notes) : \E m \in ToSet(keep) : Nullifier(m) = Nullifier(n)
  BY <1>4, FirstOfEach
<1>6. asked \in Seq(Rho)
  <2>0. \A i \in DOMAIN keep : keep[i] \in Note
    <3>. HIDE DEF keep
    <3>. QED
      BY <1>5
  <2>1. \A i \in DOMAIN keep : Nullifier(keep[i]) \in Rho
    <3>. HIDE DEF keep
    <3>. QED
      BY <2>0 DEF Nullifier, Note
  <2>2. DOMAIN keep = 1..Len(keep) /\ Len(keep) \in Nat
    BY <1>5
  <2>. HIDE DEF keep
  <2>. QED
    BY <2>1, <2>2
<1>. HIDE DEF keep
<1>7. ASSUME NEW upto, Has(upto, ToSet(notes))
      PROVE  Has(upto, ToSet(keep))
  BY <1>5, <1>7 DEF Has
<1>8. ListOK'
  <2>1. NoneExclude(ToSet(keep) \cap Synced) /\ SpentFrom(lastSync, ToSet(keep) \cap Synced)
    BY <1>4, <1>5 DEF NoneExclude, SpentFrom
  <2>2. Has(lastSync, ToSet(keep)) /\ ToSet(keep) \subseteq DOMAIN leaf
    BY <1>4, <1>5, <1>7
  <2>. QED
    BY <1>1, <1>3, <1>4, <1>5, <2>1, <2>2 DEF ListOK, Has, NoneExclude, SpentFrom, Synced, Nullifier
<1>9. /\ sync'.at = "ask" /\ sync'.page = {} /\ sync'.asked = asked
      /\ sync'.cursor = sync.cursor /\ DOMAIN sync' = DOMAIN sync
  BY <1>2, <1>3
<1>10. Has(sync.cursor, ToSet(keep) \cup {})
  BY <1>2, <1>7
<1>11. sync'.asked = [i \in DOMAIN notes' |-> Nullifier(notes'[i])]
  BY <1>3, <1>9
<1>. HIDE DEF asked
<1>. QED
  BY <1>1, <1>2, <1>3, <1>5, <1>6, <1>8, <1>9, <1>10, <1>11 DEF SyncOK, Has, NoneExclude, Nullifier

\* The indexer answers: what it does not report spent was spent later than it knows.
LEMMA AnswerKeepsList ==
  ASSUME Inv, ListInv, AnswerSpent
  PROVE  ListOK' /\ SyncOK'
<1>. DEFINE gone == {f \in ToSet(sync.asked) \cap DOMAIN spent : spent[f] <= indexed}
<1>1. UNCHANGED <<leaf, spent, indexed, notes, lastSync>>
  BY DEF AnswerSpent, chain
<1>2. /\ sync.at = "ask" /\ sync.page = {} /\ sync.asked \in Seq(Rho)
      /\ sync.asked = [i \in DOMAIN notes |-> Nullifier(notes[i])] /\ NoneExclude(ToSet(notes))
      /\ DOMAIN sync = {"at", "cursor", "page", "list", "same", "asked", "gone"}
      /\ sync.cursor \in lastSync..(indexed + 1)
      /\ Has(sync.cursor, ToSet(notes) \cup sync.page)
  BY DEF AnswerSpent, ListInv, SyncOK
<1>3. /\ sync'.at = "drop" /\ sync'.page = {} /\ sync'.asked = sync.asked
      /\ sync'.cursor = sync.cursor /\ DOMAIN sync' = DOMAIN sync /\ sync'.gone = gone
  BY <1>2 DEF AnswerSpent
<1>4. ListOK'
  BY <1>1, ListLeft DEF ListInv
<1>5. ASSUME NEW n \in ToSet(notes), Nullifier(n) \notin gone, Nullifier(n) \in DOMAIN spent
      PROVE  spent[Nullifier(n)] >= sync.cursor
  <2>1. Nullifier(n) \in ToSet(sync.asked)
    <3>1. PICK i \in DOMAIN notes : n = notes[i]
      BY DEF ToSet
    <3>2. i \in DOMAIN sync.asked /\ sync.asked[i] = Nullifier(n)
      BY <1>2, <3>1
    <3>. QED
      BY <3>2 DEF ToSet
  <2>2. spent[Nullifier(n)] \in Nat
    BY <1>5 DEF ListInv, ChainOK
  <2>3. indexed \in Nat /\ sync.cursor \in Nat /\ sync.cursor <= indexed + 1
    BY <1>2 DEF ListInv, ChainOK, ListOK
  <2>. QED
    BY <1>5, <2>1, <2>2, <2>3
<1>6. SpentFrom(sync.cursor, {n \in ToSet(notes) : Nullifier(n) \notin gone})
  BY <1>5 DEF SpentFrom
<1>7. gone \subseteq DOMAIN spent
  OBVIOUS
<1>. HIDE DEF gone
<1>. QED
  BY <1>1, <1>2, <1>3, <1>4, <1>6, <1>7 DEF SyncOK, Has, NoneExclude, SpentFrom, Nullifier

\* The answer arrives at the list it was asked about.
LEMMA DropKeepsList ==
  ASSUME Inv, ListInv, DropSpent
  PROVE  ListOK' /\ SyncOK'
<1>. DEFINE rest == {i \in DOMAIN notes : i \in DOMAIN sync.asked => sync.asked[i] \notin sync.gone}
            unspent == {n \in ToSet(notes) : Nullifier(n) \notin sync.gone}
<1>1. UNCHANGED <<leaf, spent, indexed>> /\ sync' = NotSyncing
  BY DEF DropSpent, chain
<1>2. /\ sync.at = "drop" /\ sync.page = {}
      /\ sync.asked = [i \in DOMAIN notes |-> Nullifier(notes[i])] /\ NoneExclude(ToSet(notes))
      /\ sync.cursor \in lastSync..(indexed + 1)
      /\ Has(sync.cursor, ToSet(notes) \cup sync.page)
      /\ SpentFrom(sync.cursor, unspent) /\ sync.gone \subseteq DOMAIN spent
  BY DEF DropSpent, ListInv, SyncOK
<1>3. /\ notes' = EntriesAt(notes, rest) /\ lastSync' = sync.cursor
  BY DEF DropSpent, StillUnspent
<1>4. /\ notes \in Seq(Note) /\ IsInjective(notes) /\ ToSet(notes) \subseteq DOMAIN leaf
      /\ lastSync \in 0..(indexed + 1) /\ indexed \in Nat
  BY DEF ListInv, ListOK, ChainOK
<1>5. rest = {i \in DOMAIN notes : Nullifier(notes[i]) \notin sync.gone}
  BY <1>2
<1>6. /\ notes' \in Seq(Note) /\ IsInjective(notes') /\ ToSet(notes') = unspent
  <2>1. rest \in SUBSET DOMAIN notes
    OBVIOUS
  <2>. HIDE DEF rest
  <2>2. /\ EntriesAt(notes, rest) \in Seq(Note)
        /\ ToSet(EntriesAt(notes, rest)) = {notes[i] : i \in rest}
        /\ (\A i, j \in rest : notes[i] = notes[j] => i = j) => IsInjective(EntriesAt(notes, rest))
    BY <1>4, <2>1, EntriesFacts
  <2>3. \A i, j \in rest : notes[i] = notes[j] => i = j
    BY <1>4, <2>1 DEF IsInjective
  <2>4. {notes[i] : i \in rest} = unspent
    BY <1>5 DEF ToSet
  <2>. QED
    BY <1>3, <2>2, <2>3, <2>4
<1>. HIDE DEF rest
<1>7. Has(sync.cursor, unspent)
  <2>. SUFFICES ASSUME NEW n \in DOMAIN leaf, leaf[n] < sync.cursor, Nullifier(n) \notin DOMAIN spent
                PROVE  \E m \in unspent : Nullifier(m) = Nullifier(n)
    BY DEF Has
  <2>1. PICK m \in ToSet(notes) : Nullifier(m) = Nullifier(n)
    BY <1>2 DEF Has
  <2>. QED
    BY <1>2, <2>1
<1>8. ListOK'
  <2>1. lastSync' \in 0..(indexed' + 1)
    BY <1>1, <1>2, <1>3, <1>4
  <2>2. unspent \subseteq ToSet(notes)
    OBVIOUS
  <2>3. ToSet(notes') \subseteq DOMAIN leaf'
    BY <1>1, <1>4, <1>6, <2>2
  <2>. HIDE DEF unspent
  <2>4. Has(lastSync, ToSet(notes))'
    BY <1>1, <1>3, <1>6, <1>7 DEF Has, Nullifier
  <2>5. NoneExclude(ToSet(notes) \cap Synced)' /\ SpentFrom(lastSync, ToSet(notes) \cap Synced)'
    BY <1>1, <1>2, <1>3, <1>6, <2>2 DEF NoneExclude, SpentFrom, Nullifier
  <2>. QED
    BY <1>6, <2>1, <2>3, <2>4, <2>5 DEF ListOK
<1>9. SyncOK'
  BY <1>1 DEF SyncOK, NotSyncing
<1>. QED
  BY <1>8, <1>9

LEMMA SyncKeepsList ==
  ASSUME Inv, ListInv, Sync
  PROVE  ListInv'
<1>1. UNCHANGED <<ledger, leaf, spent, indexed, account, txs, pc, plan, try>>
  BY DEF Sync, SyncStart, Fetch, PushFetched, KeepOnePerNullifier, AnswerSpent, DropSpent,
         SyncFails, chain, calls
<1>2. sync.at = "off" => notes' = notes /\ lastSync' = lastSync
  <2>1. sync.at # "fetch" => sync.page = {}
    BY DEF ListInv, SyncOK
  <2>. QED
    BY <2>1 DEF Sync, SyncStart, Fetch, PushFetched, KeepOnePerNullifier, AnswerSpent,
                DropSpent, SyncFails
<1>3. \A c \in Calls : Live(c) => notes' = notes /\ lastSync' = lastSync
  BY <1>2 DEF Inv, Alone
<1>4. ListOK' /\ SyncOK'
  <2>1. CASE SyncFails
    <3>1. UNCHANGED <<notes, lastSync>> /\ sync' = NotSyncing
      BY <2>1 DEF SyncFails
    <3>2. ListOK'
      BY <1>1, <3>1, ListLeft DEF ListInv
    <3>3. SyncOK'
      BY <3>1 DEF SyncOK, NotSyncing
    <3>. QED
      BY <3>2, <3>3
  <2>. QED
    BY <2>1, SyncStartKeepsList, FetchKeepsList, PushKeepsList, KeepOneKeepsList,
       AnswerKeepsList, DropKeepsList DEF Sync
<1>5. indexed' \in 0..ledger
  BY <1>1 DEF ListInv, ChainOK
<1>. QED
  BY <1>1, <1>3, <1>4, <1>5, SyncFrame

---------------------------------------------------------------------------
(* The calls and the list. *)

\* A step of one call that leaves the chain, the list and the sync alone.
LEMMA CallFrame ==
  ASSUME ListInv, NEW c \in Calls,
         UNCHANGED <<ledger, leaf, spent, indexed, account, notes, lastSync, sync>>,
         \A d \in Calls \ {c} : pc'[d] = pc[d] /\ plan'[d] = plan[d] /\ try'[d] = try[d],
         \A d \in Calls \ {c} : Mine(d)' = Mine(d) /\ \A h \in Mine(d) : txs'[h] = txs[h],
         Mine(c) \subseteq Mine(c)',
         Live(c)' => Live(c) \/ Mine(c) = {},
         PlansOK', HashesOK(c)'
  PROVE  ListInv'
<1>1. ChainOK'
  <2>1. \A d \in Calls : Mine(d) \subseteq Mine(d)'
    OBVIOUS
  <2>2. \A n \in DOMAIN leaf : n.rho[1] \in Calls => Mine(n.rho[1])' # {}
    BY <2>1 DEF ListInv, ChainOK
  <2>. QED
    BY <2>2 DEF ListInv, ChainOK, Sent
<1>2. ListOK' /\ SyncOK'
  BY ListingKept DEF ListInv
<1>3. ASSUME NEW d \in Calls, d # c
      PROVE  HashesOK(d)' /\ OwnNew(d)'
  <2>1. pc'[d] = pc[d] /\ plan'[d] = plan[d] /\ try'[d] = try[d]
    BY <1>3
  <2>2. Mine(d)' = Mine(d) /\ \A h \in Mine(d) : txs'[h] = txs[h]
    BY <1>3
  <2>3. Hash(d)' = Hash(d) /\ (Hash(d) \in DOMAIN txs' <=> Hash(d) \in DOMAIN txs)
    <3>1. Hash(d)[1] = d /\ Hash(d)' = Hash(d)
      BY <2>1 DEF Hash
    <3>. QED
      BY <2>2, <3>1 DEF Mine
  <2>4. Hash(d) \in DOMAIN txs => txs'[Hash(d)] = txs[Hash(d)]
    <3>1. Hash(d)[1] = d
      BY DEF Hash
    <3>. QED
      BY <2>2, <3>1 DEF Mine
  <2>5. HashesOK(d)'
    BY <2>1, <2>2, <2>3, <2>4 DEF ListInv, HashesOK
  <2>6. OwnNew(d)'
    BY <2>1 DEF ListInv, OwnNew, Live
  <2>. QED
    BY <2>5, <2>6
<1>4. OwnNew(c)'
  <2>1. CASE Live(c)
    BY <2>1 DEF ListInv, OwnNew
  <2>2. CASE Mine(c) = {}
    <3>1. \A n \in DOMAIN leaf : n.rho[1] # c
      BY <2>2 DEF ListInv, ChainOK
    <3>2. ToSet(notes) \subseteq DOMAIN leaf
      BY DEF ListInv, ListOK
    <3>. QED
      BY <3>1, <3>2 DEF OwnNew
  <2>. QED
    BY <2>1, <2>2 DEF OwnNew
<1>5. \A d \in Calls : HashesOK(d)' /\ OwnNew(d)'
  BY <1>3, <1>4
<1>. QED
  BY <1>1, <1>2, <1>5 DEF ListInv

\* The steps that submit nothing and keep the number of the attempt.
LEMMA MoveKeepsList ==
  ASSUME Inv, ListInv, NEW c \in Calls, Live(c),
         UNCHANGED <<ledger, leaf, spent, indexed, account, txs, notes, lastSync, sync, try>>,
         NEW to \in {"root", "paths", "built", "prepare", "check", "poll", "failed"},
         pc' = [pc EXCEPT ![c] = to],
         NEW p \in Plan, ByCall(p, c), plan' = [plan EXCEPT ![c] = p],
         to \in {"check", "poll"} => pc[c] \in {"check", "poll"} /\ p = plan[c]
  PROVE  ListInv'
<1>1. /\ pc'[c] = to /\ \A d \in Calls \ {c} : pc'[d] = pc[d]
      /\ plan'[c] = p /\ \A d \in Calls \ {c} : plan'[d] = plan[d]
  BY DEF Inv, Shapes
<1>2. \A d \in Calls : Mine(d)' = Mine(d)
  BY DEF Mine
<1>3. PlansOK'
  <2>1. \A d \in Calls : plan'[d] \in Plan /\ ByCall(plan'[d], d)
    BY <1>1 DEF ListInv, PlansOK
  <2>. QED
    BY <2>1 DEF ListInv, PlansOK, ByCall
<1>4. HashesOK(c)'
  BY <1>1, <1>2 DEF ListInv, HashesOK, Hash
<1>. QED
  BY <1>1, <1>2, <1>3, <1>4, CallFrame

\* A call starts or builds anew.
LEMMA SelectKeepsList ==
  ASSUME Inv, ListInv, NEW c \in Calls, Select(c)
  PROVE  ListInv'
<1>. DEFINE ins == {notes[i] : i \in Selected(c)}
            n == try[c][1] + 1
            enough == /\ Cardinality(Selected(c)) = (IF Kind[c] = "transfer" THEN 2 ELSE 1)
                      /\ Total(ins) >= Amount[c]
            value == IF Kind[c] = "shield" THEN Amount[c] ELSE Total(ins) - Amount[c]
            note == MakeNote(c, n, value, <<c, n>>)
            p == [ins |-> ins, out |-> <<note>>, anchor |-> 0, seq |-> 0]
<1>1. /\ UNCHANGED <<ledger, leaf, spent, indexed, account, txs, notes, lastSync, sync>>
      /\ try' = [try EXCEPT ![c] = <<n, 0>>]
      /\ pc[c] \in {"idle", "rebuild"}
  BY DEF Select, chain
<1>2. try \in [Calls -> Nat \X Nat] /\ n \in Nat
  BY DEF ListInv, PlansOK
<1>3. \A d \in Calls : Mine(d)' = Mine(d)
  BY <1>1 DEF Mine
<1>4. pc[c] = "idle" => Mine(c) = {}
  BY DEF Inv, CallOK
<1>5. Live(c) \/ Mine(c) = {}
  BY <1>1, <1>4 DEF Live
<1>6. \A d \in Calls \ {c} : try'[d] = try[d]
  BY <1>1, <1>2
<1>7. try'[c] = <<n, 0>> /\ try' \in [Calls -> Nat \X Nat]
  BY <1>1, <1>2
<1>8. \A h \in Mine(c) : h[2] \in Nat /\ h[3] \in Nat /\ h[2] < n
  BY <1>2 DEF ListInv, HashesOK, PlansOK
<1>9. ASSUME NEW to \in {"built", "root", "failed"}, pc' = [pc EXCEPT ![c] = to]
      PROVE  HashesOK(c)' /\ \A d \in Calls \ {c} : pc'[d] = pc[d]
  <2>1. pc'[c] = to /\ \A d \in Calls \ {c} : pc'[d] = pc[d]
    BY <1>9 DEF Inv, Shapes
  <2>2. \A h \in Mine(c)' : h[2] \in Nat /\ h[3] \in Nat /\ h[2] <= n /\ h[2] # n
    BY <1>2, <1>3, <1>8
  <2>. HIDE DEF n
  <2>. QED
    BY <1>7, <2>1, <2>2 DEF HashesOK
<1>10. ASSUME pc' = [pc EXCEPT ![c] = "failed"], plan' = plan
       PROVE  ListInv'
  <2>1. PlansOK'
    BY <1>1, <1>7, <1>10 DEF ListInv, PlansOK, ByCall
  <2>. QED
    BY <1>1, <1>3, <1>5, <1>6, <1>9, <1>10, <2>1, CallFrame
<1>11. ASSUME Kind[c] = "shield" \/ enough
       PROVE  p \in Plan /\ ByCall(p, c)
  <2>1. notes \in Seq(Note) /\ Selected(c) \subseteq DOMAIN notes
    <3>1. Kind[c] \in {"shield", "transfer", "unshield"}
      BY WalletAssumption
    <3>. QED
      BY <3>1 DEF ListInv, ListOK, Selected
  <2>2. ins \subseteq Note
    BY <2>1
  <2>3. value \in Nat
    <3>1. Amount[c] \in Nat /\ Kind[c] \in {"shield", "transfer", "unshield"}
      BY WalletAssumption
    <3>2. CASE Kind[c] # "shield"
      <4>1. IsFiniteSet(Selected(c))
        <5>1. IsFiniteSet(1..Len(notes)) /\ DOMAIN notes = 1..Len(notes)
          BY <2>1, FS_Interval
        <5>. QED
          BY <2>1, <5>1, FS_Subset
      <4>2. Cardinality(Selected(c)) \in {1, 2}
        BY <1>11, <3>2
      <4>3. PICK i, j \in Selected(c) : Selected(c) = {i, j}
        BY <4>1, <4>2, TwoAtMost
      <4>4. ins = {notes[i], notes[j]}
        BY <4>3
      <4>5. notes[i].value \in Nat /\ notes[j].value \in Nat
        <5>1. notes[i] \in Note /\ notes[j] \in Note
          BY <2>1
        <5>. QED
          BY <5>1 DEF Note
      <4>6. Total(ins) \in Nat
        BY <4>4, <4>5, SumOfTwo
      <4>7. Total(ins) >= Amount[c]
        BY <1>11, <3>2
      <4>. HIDE DEF ins
      <4>. QED
        BY <3>1, <3>2, <4>6, <4>7
    <3>. QED
      BY <3>1, <3>2
  <2>. HIDE DEF value, n, ins
  <2>4. note \in Note /\ note.by = c /\ note.rho[1] = c
    <3>1. <<c, n>> \in Rho /\ <<c, n>>[1] = c
      BY <1>2 DEF Rho
    <3>. QED
      BY <1>2, <2>3, <3>1 DEF MakeNote, Note
  <2>. HIDE DEF note
  <2>5. <<note>> \in Seq(Note) /\ DOMAIN <<note>> = 1..1 /\ <<note>>[1] = note
    BY <2>4
  <2>6. p \in Plan
    BY <2>2, <2>5 DEF Plan
  <2>7. ByCall(p, c)
    BY <2>4, <2>5 DEF ByCall
  <2>. QED
    BY <2>6, <2>7
<1>12. ASSUME NEW to \in {"built", "root"}, pc' = [pc EXCEPT ![c] = to],
              plan' = [plan EXCEPT ![c] = p], Kind[c] = "shield" \/ enough
       PROVE  ListInv'
  <2>1. p \in Plan /\ ByCall(p, c)
    BY <1>11, <1>12
  <2>. HIDE DEF p
  <2>2. plan'[c] = p /\ \A d \in Calls \ {c} : plan'[d] = plan[d]
    BY <1>12 DEF Inv, Shapes
  <2>3. PlansOK'
    <3>1. \A d \in Calls : plan'[d] \in Plan /\ ByCall(plan'[d], d)
      BY <2>1, <2>2 DEF ListInv, PlansOK
    <3>. QED
      BY <1>1, <1>7, <3>1 DEF ListInv, PlansOK, ByCall
  <2>4. HashesOK(c)' /\ \A d \in Calls \ {c} : pc'[d] = pc[d]
    BY <1>9, <1>12
  <2>. QED
    BY <1>1, <1>3, <1>5, <1>6, <2>2, <2>3, <2>4, CallFrame
<1>13. \A x, y : [NoPlan EXCEPT !.ins = x, !.out = y] = [ins |-> x, out |-> y, anchor |-> 0, seq |-> 0]
  <2>1. \A x : [NoPlan EXCEPT !.ins = x] = [ins |-> x, out |-> <<>>, anchor |-> 0, seq |-> 0]
    BY DEF NoPlan
  <2>2. \A x, y : [[ins |-> x, out |-> <<>>, anchor |-> 0, seq |-> 0] EXCEPT !.out = y]
                  = [ins |-> x, out |-> y, anchor |-> 0, seq |-> 0]
    OBVIOUS
  <2>3. \A x, y : [NoPlan EXCEPT !.ins = x, !.out = y] = [[NoPlan EXCEPT !.ins = x] EXCEPT !.out = y]
    OBVIOUS
  <2>. QED
    BY <2>1, <2>2, <2>3
<1>14. \/ /\ Kind[c] = "shield" \/ enough
          /\ pc' = [pc EXCEPT ![c] = IF Kind[c] = "shield" THEN "built" ELSE "root"]
          /\ plan' = [plan EXCEPT ![c] = p]
       \/ pc' = [pc EXCEPT ![c] = "failed"] /\ plan' = plan
  <2>1. \/ /\ Kind[c] = "shield" \/ enough
           /\ pc' = [pc EXCEPT ![c] = IF Kind[c] = "shield" THEN "built" ELSE "root"]
           /\ plan' = [plan EXCEPT ![c] = [NoPlan EXCEPT !.ins = ins, !.out = <<note>>]]
        \/ pc' = [pc EXCEPT ![c] = "failed"] /\ plan' = plan
    BY DEF Select
  <2>2. [NoPlan EXCEPT !.ins = ins, !.out = <<note>>] = p
    BY <1>13
  <2>. HIDE DEF ins, note, enough, p
  <2>. QED
    BY <2>1, <2>2
<1>. HIDE DEF p, enough
<1>. QED
  BY <1>10, <1>12, <1>14

LEMMA PrepareKeepsList ==
  ASSUME Inv, ListInv, NEW c \in Calls, Prepare(c)
  PROVE  ListInv'
<1>. DEFINE p == [plan[c] EXCEPT !.seq = account + 1]
<1>1. /\ UNCHANGED <<ledger, leaf, spent, indexed, account, txs, notes, lastSync, sync>>
      /\ pc[c] = "prepare" /\ Live(c)
      /\ try' = [try EXCEPT ![c][2] = @ + 1]
  BY DEF Prepare, chain, Live
<1>2. try \in [Calls -> Nat \X Nat]
  BY DEF ListInv, PlansOK
<1>3. /\ try' \in [Calls -> Nat \X Nat]
      /\ try'[c][1] = try[c][1] /\ try'[c][2] = try[c][2] + 1
      /\ \A d \in Calls \ {c} : try'[d] = try[d]
  BY <1>1, <1>2
<1>4. \A d \in Calls : Mine(d)' = Mine(d)
  BY <1>1 DEF Mine
<1>5. plan' = plan \/ plan' = [plan EXCEPT ![c] = p]
  BY DEF Prepare
<1>6. p \in Plan /\ ByCall(p, c)
  <2>1. plan[c] \in Plan /\ ByCall(plan[c], c) /\ account \in Nat
    BY DEF ListInv, PlansOK, ChainOK
  <2>2. p \in Plan /\ p.out = plan[c].out
    BY <2>1 DEF Plan
  <2>. QED
    BY <2>1, <2>2 DEF ByCall
<1>7. PICK to \in {"rebuild", "failed", "send", "prepare"} : pc' = [pc EXCEPT ![c] = to]
  <2>1. Verdict(plan[c]) \in {"InvalidAnchor", "Refused", "Accepted"}
    BY DEF Verdict
  <2>2. TryAgain(c, try[c][2] + 1) \in {"prepare", "failed"}
    BY DEF TryAgain
  <2>3. \/ pc' = [pc EXCEPT ![c] = TryAgain(c, try[c][2] + 1)]
        \/ pc' = [pc EXCEPT ![c] = CASE Verdict(plan[c]) = "InvalidAnchor" -> "rebuild"
                                     [] Verdict(plan[c]) = "Refused" -> "failed"
                                     [] Verdict(plan[c]) = "Accepted" -> "send"]
    BY DEF Prepare
  <2>4. (CASE Verdict(plan[c]) = "InvalidAnchor" -> "rebuild"
           [] Verdict(plan[c]) = "Refused" -> "failed"
           [] Verdict(plan[c]) = "Accepted" -> "send") \in {"rebuild", "failed", "send"}
    BY <2>1
  <2>. QED
    BY <2>2, <2>3, <2>4
<1>8. /\ pc'[c] = to /\ \A d \in Calls \ {c} : pc'[d] = pc[d]
      /\ \A d \in Calls \ {c} : plan'[d] = plan[d]
      /\ plan'[c] = plan[c] \/ plan'[c] = p
  BY <1>5, <1>7 DEF Inv, Shapes
<1>. HIDE DEF p
<1>9. PlansOK'
  <2>1. \A d \in Calls : plan'[d] \in Plan /\ ByCall(plan'[d], d)
    BY <1>6, <1>8 DEF ListInv, PlansOK
  <2>. QED
    BY <1>1, <1>3, <2>1 DEF ListInv, PlansOK, ByCall
<1>10. HashesOK(c)'
  <2>1. \A h \in Mine(c) : /\ h[2] \in Nat /\ h[3] \in Nat /\ h[2] <= try[c][1]
                           /\ h[2] = try[c][1] => h[3] <= try[c][2]
    BY DEF ListInv, HashesOK
  <2>2. try[c][2] \in Nat
    BY <1>2
  <2>3. \A h \in Mine(c)' : /\ h[2] \in Nat /\ h[3] \in Nat /\ h[2] <= try'[c][1]
                            /\ h[2] = try'[c][1] => h[3] <= try'[c][2] /\ h[3] # try'[c][2]
    BY <1>3, <1>4, <2>1, <2>2
  <2>4. Hash(c)' \notin DOMAIN txs'
    <3>1. Hash(c)'[1] = c /\ Hash(c)'[2] = try'[c][1] /\ Hash(c)'[3] = try'[c][2]
      BY DEF Hash
    <3>2. Hash(c)' \notin Mine(c)'
      BY <2>3, <3>1
    <3>. QED
      BY <3>1, <3>2 DEF Mine
  <2>. QED
    BY <1>7, <1>8, <2>3, <2>4 DEF HashesOK
<1>. QED
  BY <1>1, <1>3, <1>4, <1>8, <1>9, <1>10, CallFrame

LEMMA SendKeepsList ==
  ASSUME Inv, ListInv, NEW c \in Calls, Send(c)
  PROVE  ListInv'
<1>. DEFINE sent == [plan |-> plan[c], status |-> "pending"]
<1>1. /\ UNCHANGED <<ledger, leaf, spent, indexed, account, notes, lastSync, sync, plan, try>>
      /\ pc[c] = "send" /\ Live(c)
  BY DEF Send, Live
<1>2. PICK to \in {"poll", "check", "failed"} : pc' = [pc EXCEPT ![c] = to]
  BY DEF Send
<1>3. \/ txs' = txs
      \/ txs' = [h \in DOMAIN txs \cup {Hash(c)} |-> IF h = Hash(c) THEN sent ELSE txs[h]]
  BY DEF Send
<1>4. /\ pc'[c] = to /\ \A d \in Calls \ {c} : pc'[d] = pc[d]
  BY <1>2 DEF Inv, Shapes
<1>5. Hash(c) \notin DOMAIN txs /\ Hash(c)' = Hash(c)
      /\ Hash(c) = <<c, try[c][1], try[c][2]>> /\ Hash(c)[1] = c
  BY <1>1 DEF ListInv, HashesOK, Hash
<1>6. /\ \A h \in DOMAIN txs : h \in DOMAIN txs' /\ txs'[h] = txs[h]
      /\ \A h \in DOMAIN txs' : h \in DOMAIN txs \/ (h = Hash(c) /\ txs'[h].plan = plan[c])
  BY <1>3, <1>5
<1>7. Mine(c) \subseteq Mine(c)' /\ Mine(c)' \subseteq Mine(c) \cup {Hash(c)}
  BY <1>6 DEF Mine
<1>8. \A d \in Calls \ {c} : Mine(d)' = Mine(d) /\ \A h \in Mine(d) : txs'[h] = txs[h]
  BY <1>5, <1>6 DEF Mine
<1>9. PlansOK'
  <2>1. \A d \in Calls : plan[d] \in Plan /\ ByCall(plan[d], d)
    BY DEF ListInv, PlansOK
  <2>2. plan[c].ins \subseteq DOMAIN leaf
    <3>1. plan[c].ins = Chosen(c)
      BY <1>1 DEF Inv, CallOK
    <3>2. Selected(c) \subseteq DOMAIN notes
      <4>1. Kind[c] \in {"shield", "transfer", "unshield"}
        BY WalletAssumption
      <4>. QED
        BY <4>1 DEF Selected
    <3>3. ToSet(notes) \subseteq DOMAIN leaf
      BY DEF ListInv, ListOK
    <3>. QED
      BY <3>1, <3>2, <3>3 DEF Chosen, ToSet
  <2>3. ASSUME NEW h \in DOMAIN txs'
        PROVE  /\ h[1] \in Calls
               /\ txs'[h].plan \in Plan /\ ByCall(txs'[h].plan, h[1])
               /\ txs'[h].plan.ins \subseteq DOMAIN leaf
    <3>1. CASE h \in DOMAIN txs
      BY <1>6, <3>1 DEF ListInv, PlansOK
    <3>2. CASE h = Hash(c) /\ txs'[h].plan = plan[c]
      BY <1>5, <2>1, <2>2, <3>2
    <3>. QED
      BY <1>6, <3>1, <3>2
  <2>. QED
    BY <1>1, <2>1, <2>3 DEF ListInv, PlansOK, ByCall
<1>10. HashesOK(c)'
  <2>1. try[c] \in Nat \X Nat
    BY DEF ListInv, PlansOK
  <2>2. \A h \in Mine(c)' : /\ h[2] \in Nat /\ h[3] \in Nat /\ h[2] <= try[c][1]
                            /\ h[2] = try[c][1] => h[3] <= try[c][2]
    BY <1>5, <1>7, <2>1 DEF ListInv, HashesOK
  <2>3. Hash(c) \in DOMAIN txs' => txs'[Hash(c)].plan = plan[c]
    BY <1>5, <1>6
  <2>. QED
    BY <1>1, <1>2, <1>4, <1>5, <2>2, <2>3 DEF HashesOK
<1>. QED
  BY <1>1, <1>4, <1>7, <1>8, <1>9, <1>10, CallFrame

\* The call returns: what it spent leaves the list and its change enters it, which
\* no sync can have brought in before.
LEMMA ConfirmKeepsList ==
  ASSUME Inv, ListInv, NEW c \in Calls, Confirm(c)
  PROVE  ListInv'
<1>. DEFINE p == plan[c]
            rest == {i \in DOMAIN notes : notes[i] \notin p.ins}
            old == IF Kind[c] = "shield" THEN notes ELSE EntriesAt(notes, rest)
            kept == IF Kind[c] = "unshield" /\ p.out[1].value = 0 THEN <<>> ELSE p.out
<1>1. /\ UNCHANGED <<ledger, leaf, spent, indexed, account, txs, lastSync, plan, try>>
      /\ pc' = [pc EXCEPT ![c] = "done"] /\ Live(c) /\ pc[c] = "poll"
      /\ Hash(c) \in DOMAIN txs /\ txs[Hash(c)].status = "success"
  BY DEF Confirm, chain, Live, Applied
<1>2. sync' = sync
  <2>1. sync.at = "off" => ~sync.same
    BY DEF Inv, Alone, NotSyncing
  <2>2. ~sync.same
    BY <1>1, <2>1 DEF Inv, Alone
  <2>. QED
    BY <2>2 DEF Confirm, Replace
<1>3. pc'[c] = "done" /\ \A d \in Calls \ {c} : pc'[d] = pc[d] /\ ~Live(d)
  BY <1>1 DEF Inv, Shapes, Alone
<1>4. notes' = old \o kept
  BY DEF Confirm, Replace
<1>5. txs[Hash(c)].plan = p
  BY <1>1 DEF ListInv, HashesOK
<1>6. Nullifiers(p.ins) \subseteq DOMAIN spent /\ ToSet(p.out) \subseteq DOMAIN leaf
  BY <1>1, <1>5 DEF Inv, Settled
<1>7. /\ notes \in Seq(Note) /\ IsInjective(notes) /\ ToSet(notes) \subseteq DOMAIN leaf
      /\ lastSync \in 0..(indexed + 1) /\ Has(lastSync, ToSet(notes))
      /\ NoneExclude(ToSet(notes) \cap Synced) /\ SpentFrom(lastSync, ToSet(notes) \cap Synced)
  BY DEF ListInv, ListOK
<1>8. /\ old \in Seq(Note) /\ IsInjective(old) /\ ToSet(old) \subseteq ToSet(notes)
      /\ ToSet(notes) \subseteq ToSet(old) \cup p.ins
  <2>1. CASE Kind[c] = "shield"
    BY <1>7, <2>1
  <2>2. CASE Kind[c] # "shield"
    <3>1. rest \in SUBSET DOMAIN notes
      OBVIOUS
    <3>2. {notes[i] : i \in rest} = ToSet(notes) \ p.ins
      BY DEF ToSet
    <3>. HIDE DEF rest
    <3>3. /\ EntriesAt(notes, rest) \in Seq(Note)
          /\ ToSet(EntriesAt(notes, rest)) = {notes[i] : i \in rest}
          /\ (\A i, j \in rest : notes[i] = notes[j] => i = j) => IsInjective(EntriesAt(notes, rest))
      BY <1>7, <3>1, EntriesFacts
    <3>4. \A i, j \in rest : notes[i] = notes[j] => i = j
      BY <1>7, <3>1 DEF IsInjective
    <3>. QED
      BY <2>2, <3>2, <3>3, <3>4
  <2>. QED
    BY <2>1, <2>2
<1>9. /\ kept \in Seq(Note) /\ IsInjective(kept) /\ ToSet(kept) \subseteq ToSet(p.out)
      /\ \A n \in ToSet(p.out) : n.rho[1] = c
  <2>1. p.out \in Seq(Note) /\ ByCall(p, c)
    BY DEF ListInv, PlansOK, Plan
  <2>2. IsInjective(p.out) /\ \A n \in ToSet(p.out) : n.rho[1] = c
    BY <2>1 DEF ByCall, IsInjective, ToSet
  <2>3. <<>> \in Seq(Note) /\ IsInjective(<<>>) /\ ToSet(<<>>) = {}
    BY DEF IsInjective, ToSet
  <2>. HIDE DEF p
  <2>. QED
    BY <2>1, <2>2, <2>3
<1>10. /\ \A n \in ToSet(notes) : n.rho[1] # c
       /\ \A n \in DOMAIN leaf : n.rho[1] = c => leaf[n] >= lastSync
  BY <1>1 DEF ListInv, OwnNew
<1>. HIDE DEF old, kept, p
<1>11. /\ notes' \in Seq(Note) /\ IsInjective(notes')
       /\ ToSet(notes') = ToSet(old) \cup ToSet(kept)
  <2>1. ToSet(old) \cap ToSet(kept) = {}
    BY <1>8, <1>9, <1>10
  <2>. QED
    BY <1>4, <1>8, <1>9, <2>1, ConcatInjective
<1>12. ListOK'
  <2>1. Has(lastSync, ToSet(notes'))
    <3>. SUFFICES ASSUME NEW n \in DOMAIN leaf, leaf[n] < lastSync, Nullifier(n) \notin DOMAIN spent
                  PROVE  \E m \in ToSet(notes') : Nullifier(m) = Nullifier(n)
      BY DEF Has
    <3>1. PICK m \in ToSet(notes) : Nullifier(m) = Nullifier(n)
      BY <1>7 DEF Has
    <3>2. m \notin p.ins
      BY <1>6, <3>1 DEF Nullifiers
    <3>. QED
      BY <1>8, <1>11, <3>1, <3>2
  <2>2. ToSet(notes') \subseteq DOMAIN leaf
    BY <1>6, <1>7, <1>8, <1>9, <1>11
  <2>3. ToSet(notes') \cap Synced \subseteq ToSet(notes) \cap Synced
    <3>1. ASSUME NEW n \in ToSet(kept) PROVE n \notin Synced
      <4>1. n \in DOMAIN leaf /\ leaf[n] >= lastSync /\ leaf[n] \in Nat /\ lastSync \in Nat
        BY <1>6, <1>7, <1>9, <1>10 DEF ListInv, ChainOK
      <4>. QED
        BY <4>1 DEF Synced
    <3>. QED
      BY <1>8, <1>11, <3>1
  <2>4. NoneExclude(ToSet(notes') \cap Synced) /\ SpentFrom(lastSync, ToSet(notes') \cap Synced)
    BY <1>7, <2>3 DEF NoneExclude, SpentFrom
  <2>. QED
    BY <1>1, <1>7, <1>11, <2>1, <2>2, <2>4 DEF ListOK, Has, NoneExclude, SpentFrom, Synced, Nullifier
<1>13. SyncOK'
  <2>1. sync = NotSyncing
    BY <1>1 DEF Inv, Alone
  <2>. QED
    BY <1>2, <2>1 DEF SyncOK, NotSyncing
<1>14. ChainOK' /\ PlansOK'
  <2>1. \A d \in Calls : Mine(d)' = Mine(d)
    BY <1>1 DEF Mine
  <2>. QED
    BY <1>1, <2>1 DEF ListInv, ChainOK, PlansOK, ByCall, Sent
<1>15. ASSUME NEW d \in Calls
       PROVE  HashesOK(d)' /\ OwnNew(d)'
  <2>1. ~Live(d)'
    BY <1>3 DEF Live
  <2>2. OwnNew(d)'
    BY <2>1 DEF OwnNew
  <2>3. Mine(d)' = Mine(d)
    BY <1>1 DEF Mine
  <2>4. pc'[d] = pc[d] \/ pc'[d] = "done"
    BY <1>3
  <2>5. HashesOK(d)'
    BY <1>1, <2>3, <2>4 DEF ListInv, HashesOK, Hash
  <2>. QED
    BY <2>2, <2>5
<1>. QED
  BY <1>12, <1>13, <1>14, <1>15 DEF ListInv

LEMMA CallKeepsList ==
  ASSUME Inv, ListInv, NEW c \in Calls, Call(c)
  PROVE  ListInv'
<1>1. plan[c] \in Plan /\ ByCall(plan[c], c) /\ ledger \in Nat /\ plan = [plan EXCEPT ![c] = plan[c]]
  BY DEF ListInv, PlansOK, ChainOK, Inv, Shapes
<1>2. CASE ReadRoot(c)
  <2>. DEFINE p == [plan[c] EXCEPT !.anchor = ledger]
  <2>1. p \in Plan /\ p.out = plan[c].out
    BY <1>1 DEF Plan
  <2>2. ByCall(p, c)
    BY <1>1, <2>1 DEF ByCall
  <2>3. /\ plan' = [plan EXCEPT ![c] = p] /\ pc' = [pc EXCEPT ![c] = "paths"] /\ Live(c)
        /\ UNCHANGED <<ledger, leaf, spent, indexed, account, txs, notes, lastSync, sync, try>>
    BY <1>2 DEF ReadRoot, Live, chain
  <2>. HIDE DEF p
  <2>. QED
    BY <2>1, <2>2, <2>3, MoveKeepsList
<1>3. CASE Prove(c) \/ Submit(c) \/ CheckSent(c) \/ Throw(c)
  <2>1. /\ UNCHANGED <<ledger, leaf, spent, indexed, account, txs, notes, lastSync, sync, try, plan>>
        /\ Live(c)
    BY <1>3 DEF Prove, Submit, CheckSent, Throw, chain, Live
  <2>2. PICK to \in {"built", "prepare", "poll", "failed"} :
          pc' = [pc EXCEPT ![c] = to] /\ (to = "poll" => pc[c] = "check")
    BY <1>3 DEF Prove, Submit, CheckSent, Throw, TryAgain
  <2>. QED
    BY <1>1, <2>1, <2>2, MoveKeepsList
<1>. QED
  BY <1>2, <1>3, SelectKeepsList, PrepareKeepsList, SendKeepsList, ConfirmKeepsList DEF Call

---------------------------------------------------------------------------
LEMMA ListInvInit == Init => ListInv
<1>. SUFFICES ASSUME Init PROVE ListInv
  OBVIOUS
<1>1. DOMAIN leaf = {} /\ DOMAIN spent = {} /\ DOMAIN txs = {} /\ notes = <<>>
      /\ ledger = 0 /\ indexed = 0 /\ account = 0 /\ lastSync = 0 /\ sync = NotSyncing
  BY DEF Init
<1>2. ChainOK
  <2>1. Sent = {} /\ IsFiniteSet(Sent) /\ Cardinality(Sent) = 0
    BY <1>1, FS_EmptySet DEF Sent
  <2>. QED
    BY <1>1, <2>1 DEF ChainOK
<1>3. PlansOK
  <2>1. NoPlan \in Plan
    BY DEF NoPlan, Plan
  <2>2. \A c \in Calls : plan[c] = NoPlan
    BY DEF Init
  <2>3. \A c \in Calls : ByCall(NoPlan, c)
    BY DEF NoPlan, ByCall
  <2>4. try \in [Calls -> Nat \X Nat]
    BY DEF Init
  <2>. QED
    BY <1>1, <2>1, <2>2, <2>3, <2>4 DEF PlansOK
<1>4. ListOK
  <2>1. ToSet(notes) = {} /\ IsInjective(notes) /\ notes \in Seq(Note)
    BY <1>1 DEF IsInjective, ToSet
  <2>. QED
    BY <1>1, <2>1 DEF ListOK, Has, NoneExclude, SpentFrom
<1>5. SyncOK
  BY <1>1 DEF SyncOK, NotSyncing
<1>6. ASSUME NEW c \in Calls
      PROVE  HashesOK(c) /\ OwnNew(c)
  <2>1. pc[c] = "idle" /\ Mine(c) = {}
    BY <1>1 DEF Init, Mine
  <2>. QED
    BY <2>1 DEF HashesOK, OwnNew, Live
<1>. QED
  BY <1>2, <1>3, <1>4, <1>5, <1>6 DEF ListInv

LEMMA ListInvKept ==
  ASSUME Inv, ListInv, [Next /\ OneAtATime' /\ SubmitsAtOnce']_vars
  PROVE  ListInv'
<1>1. CASE UNCHANGED vars
  <2>1. UNCHANGED <<ledger, leaf, spent, indexed, account, txs, notes, lastSync, sync, pc, plan, try>>
    BY <1>1 DEF vars, chain, calls
  <2>2. \A c \in Calls : Mine(c)' = Mine(c)
    BY <2>1 DEF Mine
  <2>3. ChainOK' /\ PlansOK'
    <3>1. ChainOK /\ PlansOK
      BY DEF ListInv
    <3>2. ChainOK'
      BY <2>1, <2>2, <3>1 DEF ChainOK, Sent
    <3>3. PlansOK'
      BY <2>1, <3>1 DEF PlansOK, ByCall
    <3>. QED
      BY <3>2, <3>3
  <2>4. ListOK' /\ SyncOK'
    BY <2>1, ListingKept DEF ListInv
  <2>5. \A c \in Calls : HashesOK(c)' /\ OwnNew(c)'
    BY <2>1, <2>2 DEF ListInv, HashesOK, Hash, OwnNew, Live
  <2>. QED
    BY <2>3, <2>4, <2>5 DEF ListInv
<1>2. CASE Next
  BY <1>2, OthersKeepList, LandKeepsList, IndexKeepsList, SyncKeepsList, CallKeepsList DEF Next
<1>. QED
  BY <1>1, <1>2

\* What keeps the list and the chain together through syncs, calls and their
\* failures, whatever lands while a sync runs and however far the indexer lags.
THEOREM ListInvariant == PromptSpec => []ListInv
<1>1. Init => Inv /\ ListInv
  BY InvInit, ListInvInit
<1>2. Inv /\ ListInv /\ [Next /\ OneAtATime' /\ SubmitsAtOnce']_vars => (Inv /\ ListInv)'
  BY InvKept, ListInvKept
<1>. QED
  BY <1>1, <1>2, PTL DEF PromptSpec

\* Between calls the list is the chain's (wallet.ts, sync and the ends of submit): of
\* the ledgers already synced, no nullifier that can still be used is without a note, no
\* two notes share one, and none was spent by then; and no note is there twice.
THEOREM TheListMatches == PromptSpec => []ListMatchesChain
<1>1. Inv /\ ListInv => ListMatchesChain
  <2>. SUFFICES ASSUME Inv, ListInv PROVE ListMatchesChain
    OBVIOUS
  <2>1. TypeOK
    <3>1. sync.page \subseteq Note
      BY DEF ListInv, SyncOK, ChainOK
    <3>2. plan \in [Calls -> Plan]
      BY DEF ListInv, PlansOK, Inv, Shapes
    <3>. QED
      BY <3>1, <3>2 DEF TypeOK, Inv, Shapes, ListInv, ChainOK, ListOK, SyncOK
  <2>2. ListOK
    BY DEF ListInv
  <2>3. NothingForgotten
    BY <2>2 DEF NothingForgotten, ListOK, Has, Synced
  <2>. QED
    BY <2>1, <2>2, <2>3 DEF ListMatchesChain, ListOK, NoneExclude, SpentFrom
<1>2. PromptSpec => [](Inv /\ ListInv)
  BY WalletInvariant, ListInvariant, PTL
<1>. QED
  BY <1>1, <1>2, PTL
=============================================================================
