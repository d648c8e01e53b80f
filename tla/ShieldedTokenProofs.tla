--------------------------- MODULE ShieldedTokenProofs ---------------------------
(***************************************************************************)
(* Proofs about ShieldedToken.tla: type correctness, the agreement of the  *)
(* commitment set with the tree, the bound on what the pool can fall short *)
(* of, solvency, the conservation of value, the ageing of anchors, the     *)
(* switches, and the refinement of NotePool, for every value of the        *)
(* constants.                                                              *)
(***************************************************************************)
EXTENDS ShieldedToken, FiniteSetTheorems, SequenceTheorems, TLAPS

---------------------------------------------------------------------------
(* Sums of note values: the worth of sets of notes is additive and monotone, and *)
(* a sequence of distinct notes is worth what the set of them is worth.          *)

\* A finite set of notes has finitely many units.
LEMMA UnitsFinite ==
  ASSUME NEW S, IsFiniteSet(S)
  PROVE  IsFiniteSet(Units(S)) /\ Worth(S) \in Nat
<1>1. IsFiniteSet(1..MaxValue)
  BY FS_Interval, ValueAssumption
<1>2. IsFiniteSet(S \X (1..MaxValue))
  BY <1>1, FS_Product
<1>3. Units(S) \in SUBSET (S \X (1..MaxValue))
  BY DEF Units
<1>4. IsFiniteSet(Units(S))
  BY <1>2, <1>3, FS_Subset
<1>. QED
  BY <1>4, FS_CardinalityType DEF Worth

\* The units of a union are those of its parts.
LEMMA UnitsUnion ==
  ASSUME NEW S, NEW T
  PROVE  Units(S \cup T) = Units(S) \cup Units(T)
BY DEF Units

LEMMA UnitsDisjoint ==
  ASSUME NEW S, NEW T, S \cap T = {}
  PROVE  Units(S) \cap Units(T) = {}
BY DEF Units

\* Together, two sets of notes are worth at most the sum of both, and exactly
\* that when they have no note in common.
LEMMA WorthUnion ==
  ASSUME NEW S, IsFiniteSet(S), NEW T, IsFiniteSet(T)
  PROVE  /\ Worth(S \cup T) <= Worth(S) + Worth(T)
         /\ S \cap T = {} => Worth(S \cup T) = Worth(S) + Worth(T)
<1>1. IsFiniteSet(Units(S)) /\ IsFiniteSet(Units(T)) /\ Worth(S) \in Nat /\ Worth(T) \in Nat
  BY UnitsFinite
<1>2. Worth(S \cup T) = Worth(S) + Worth(T) - Cardinality(Units(S) \cap Units(T))
  BY <1>1, FS_Union, UnitsUnion DEF Worth
<1>3. Cardinality(Units(S) \cap Units(T)) \in Nat
  BY <1>1, FS_Intersection, FS_CardinalityType
<1>4. S \cap T = {} => Cardinality(Units(S) \cap Units(T)) = 0
  BY UnitsDisjoint, FS_EmptySet
<1>. QED
  BY <1>1, <1>2, <1>3, <1>4

\* Taking notes away takes their worth away.
LEMMA WorthWithout ==
  ASSUME NEW S, IsFiniteSet(S), NEW T \in SUBSET S
  PROVE  /\ IsFiniteSet(S \ T)
         /\ Worth(S \ T) = Worth(S) - Worth(T)
         /\ Worth(T) <= Worth(S)
<1>1. IsFiniteSet(T) /\ IsFiniteSet(S \ T)
  BY FS_Subset, FS_Difference
<1>2. (S \ T) \cup T = S /\ (S \ T) \cap T = {}
  OBVIOUS
<1>3. Worth(S) = Worth(S \ T) + Worth(T)
  BY <1>1, <1>2, WorthUnion
<1>4. Worth(S \ T) \in Nat /\ Worth(T) \in Nat
  BY <1>1, UnitsFinite
<1>. QED
  BY <1>1, <1>3, <1>4

\* The units of one amount.
LEMMA BlockSize ==
  ASSUME NEW i, NEW m \in Nat
  PROVE  IsFiniteSet({i} \X (1..m)) /\ Cardinality({i} \X (1..m)) = m
<1>1. IsFiniteSet({i}) /\ Cardinality({i}) = 1
  BY FS_Singleton
<1>2. IsFiniteSet(1..m) /\ Cardinality(1..m) = m
  <2>1. Cardinality(1..m) = IF 1 > m THEN 0 ELSE m - 1 + 1
    BY FS_Interval
  <2>. QED
    BY <2>1, FS_Interval
<1>. DEFINE S == {i}
            T == 1..m
<1>3. IsFiniteSet(S) /\ IsFiniteSet(T) /\ Cardinality(S) = 1 /\ Cardinality(T) = m
  BY <1>1, <1>2
<1>. HIDE DEF S, T
<1>4. IsFiniteSet(S \X T) /\ Cardinality(S \X T) = Cardinality(S) * Cardinality(T)
  BY <1>3, FS_Product
<1>5. IsFiniteSet(S \X T) /\ Cardinality(S \X T) = m
  BY <1>3, <1>4
<1>. QED
  BY <1>5 DEF S, T

\* A note alone is worth its value.
LEMMA WorthOne ==
  ASSUME NEW note, note.value \in 0..MaxValue
  PROVE  IsFiniteSet({note}) /\ Worth({note}) = note.value
<1>1. PICK v \in Nat : v = note.value
  BY ValueAssumption
<1>2. Units({note}) = {note} \X (1..v)
  BY <1>1, ValueAssumption DEF Units
<1>3. IsFiniteSet({note})
  BY FS_Singleton
<1>4. Cardinality({note} \X (1..v)) = v
  BY BlockSize
<1>5. Worth({note}) = Cardinality({note} \X (1..v))
  BY <1>2, Zenon DEF Worth
<1>. QED
  BY <1>1, <1>3, <1>4, <1>5, Zenon

\* The range of a finite sequence is finite, and when the sequence repeats no
\* note its slots are worth what the notes in its range are worth.
LEMMA SequenceWorth ==
  ASSUME NEW n \in Nat, NEW notes, DOMAIN notes = 1..n, IsInjective(notes)
  PROVE  /\ IsFiniteSet(Range(notes))
         /\ ValueOf(notes) = Worth(Range(notes))
         /\ ValueOf(notes) \in Nat
<1>1. IsFiniteSet(1..n)
  BY FS_Interval
<1>2. IsFiniteSet(Range(notes))
  <2>1. ExistsSurjection(1..n, Range(notes))
    <3>. DEFINE f == [i \in 1..n |-> notes[i]]
    <3>1. f \in Surjection(1..n, Range(notes))
      BY DEF Surjection, Range
    <3>. QED
      BY <3>1 DEF ExistsSurjection
  <2>. QED
    BY <2>1, FS_NatSurjection
<1>3. IsFiniteSet(SlotUnits(notes))
  <2>. IsFiniteSet(1..MaxValue)
    BY FS_Interval, ValueAssumption
  <2>1. IsFiniteSet((1..n) \X (1..MaxValue))
    BY <1>1, FS_Product
  <2>2. SlotUnits(notes) \in SUBSET ((1..n) \X (1..MaxValue))
    BY DEF SlotUnits
  <2>. QED
    BY <2>1, <2>2, FS_Subset
<1>4. ExistsBijection(SlotUnits(notes), Units(Range(notes)))
  <2>. DEFINE g == [unit \in SlotUnits(notes) |-> <<notes[unit[1]], unit[2]>>]
  <2>1. ASSUME NEW unit \in SlotUnits(notes)
        PROVE  g[unit] \in Units(Range(notes))
    BY DEF SlotUnits, Units, Range
  <2>2. ASSUME NEW u \in SlotUnits(notes), NEW v \in SlotUnits(notes), g[u] = g[v]
        PROVE  u = v
    <3>1. notes[u[1]] = notes[v[1]] /\ u[2] = v[2]
      BY <2>2
    <3>2. u[1] = v[1]
      BY <3>1 DEF IsInjective, SlotUnits
    <3>. QED
      BY <3>1, <3>2 DEF SlotUnits
  <2>3. ASSUME NEW unit \in Units(Range(notes))
        PROVE  \E u \in SlotUnits(notes) : g[u] = unit
    <3>1. PICK i \in 1..n : notes[i] = unit[1]
      BY DEF Units, Range
    <3>2. <<i, unit[2]>> \in SlotUnits(notes)
      BY <3>1 DEF SlotUnits, Units
    <3>3. g[<<i, unit[2]>>] = unit
      BY <3>1, <3>2 DEF Units
    <3>. QED
      BY <3>2, <3>3
  <2>4. g \in Bijection(SlotUnits(notes), Units(Range(notes)))
    BY <2>1, <2>2, <2>3 DEF Bijection, Injection, Surjection, IsInjective
  <2>. QED
    BY <2>4 DEF ExistsBijection
<1>5. Cardinality(Units(Range(notes))) = Cardinality(SlotUnits(notes))
  BY <1>3, <1>4, FS_Bijection
<1>. QED
  BY <1>2, <1>3, <1>5, FS_CardinalityType DEF ValueOf, Worth

---------------------------------------------------------------------------
(* The operators of the contract. *)

BalanceType == [Assets -> [Holders -> Nat]]

\* A function on 1..n is a sequence of length n.
LEMMA FunctionIsSequence ==
  ASSUME NEW S, NEW n \in Nat, NEW f \in [1..n -> S]
  PROVE  f \in Seq(S) /\ Len(f) = n
<1>1. f \in Seq(S)
  BY SeqDef
<1>2. Len(f) \in Nat /\ DOMAIN f = 1..Len(f)
  BY <1>1, LenProperties
<1>. QED
  BY <1>1, <1>2

\* A sequence of one note.
LEMMA OneNote ==
  ASSUME NEW note \in Note
  PROVE  /\ <<note>> \in [1..1 -> Note]
         /\ Range(<<note>>) = {note}
         /\ IsInjective(<<note>>)
<1>1. <<note>> \in Seq(Note) /\ Len(<<note>>) = 1 /\ <<note>>[1] = note
  OBVIOUS
<1>2. DOMAIN <<note>> = 1..1
  BY <1>1, LenProperties
<1>3. <<note>> \in [1..1 -> Note]
  BY <1>1, LenProperties
<1>. QED
  BY <1>1, <1>2, <1>3 DEF Range, IsInjective

\* What insert_many does to the tree and its window, when the new notes are
\* distinct and none of them is a leaf yet.
LEMMA InsertManyEffect ==
  ASSUME leaves \in Seq(Note), history \in Seq(1..MaxLeaves), Len(history) <= RootHistorySize,
         NEW n \in Nat, NEW notes \in [1..n -> Note],
         InsertMany(notes)
  PROVE  /\ leaves' \in Seq(Note)
         /\ history' \in Seq(1..MaxLeaves) /\ Len(history') <= RootHistorySize
         /\ Range(leaves') = Range(leaves) \cup Range(notes)
         /\ IsInjective(leaves) /\ IsInjective(notes) /\ Range(leaves) \cap Range(notes) = {}
              => IsInjective(leaves')
<1>1. notes \in Seq(Note) /\ Len(notes) = n
  BY FunctionIsSequence
<1>2. leaves' = leaves \o notes
  BY DEF InsertMany
<1>3. leaves' \in Seq(Note)
  BY <1>1, <1>2, ConcatProperties
<1>4. Range(leaves') = Range(leaves) \cup Range(notes)
  BY <1>1, <1>2, RangeConcatenation
<1>5. history' \in Seq(1..MaxLeaves) /\ Len(history') <= RootHistorySize
  <2>. DEFINE root == Len(leaves) + n
              pushed == Append(history, root)
  <2>1. root \in 1..MaxLeaves
    <3>1. Len(leaves) \in Nat
      BY LenProperties
    <3>2. n >= 1 /\ Len(leaves) + n <= MaxLeaves
      BY <1>1, LogAssumption DEF InsertMany, HasCapacity
    <3>. QED
      BY <3>1, <3>2, LogAssumption
  <2>2. pushed \in Seq(1..MaxLeaves) /\ pushed # << >> /\ Len(pushed) = Len(history) + 1
    <3>. DEFINE S == 1..MaxLeaves
    <3>1. history \in Seq(S) /\ root \in S
      BY <2>1
    <3>. HIDE DEF S, root
    <3>. QED
      BY <3>1, AppendProperties, SMTT(30) DEF S
  <2>3. Tail(pushed) \in Seq(1..MaxLeaves) /\ Len(Tail(pushed)) = Len(pushed) - 1
    <3>. DEFINE S == 1..MaxLeaves
    <3>1. pushed \in Seq(S) /\ pushed # << >>
      BY <2>2
    <3>. HIDE DEF S, pushed
    <3>. QED
      BY <3>1, HeadTailProperties DEF S
  <2>4. history' = IF Len(pushed) > RootHistorySize THEN Tail(pushed) ELSE pushed
    BY <1>1 DEF InsertMany, PushRoot
  <2>5. Len(history) \in Nat /\ RootHistorySize \in Nat
    BY LenProperties, LogAssumption
  <2>6. CASE Len(pushed) > RootHistorySize
    <3>1. history' = Tail(pushed) /\ Len(history') <= RootHistorySize
      BY <2>2, <2>3, <2>4, <2>5, <2>6
    <3>. QED
      BY <2>3, <3>1
  <2>7. CASE ~(Len(pushed) > RootHistorySize)
    <3>1. history' = pushed
      BY <2>4, <2>7
    <3>. QED
      BY <2>2, <2>5, <2>7, <3>1
  <2>. QED
    BY <2>6, <2>7
<1>6. ASSUME IsInjective(leaves), IsInjective(notes), Range(leaves) \cap Range(notes) = {}
      PROVE  IsInjective(leaves')
  <2>1. /\ Len(leaves) \in Nat
        /\ DOMAIN leaves = 1..Len(leaves)
        /\ DOMAIN notes = 1..n
        /\ DOMAIN leaves' = 1..(Len(leaves) + n)
    BY <1>1, <1>2, <1>3, ConcatProperties, LenProperties
  <2>2. \A i \in 1..(Len(leaves) + n) :
          leaves'[i] = IF i <= Len(leaves) THEN leaves[i] ELSE notes[i - Len(leaves)]
    BY <1>1, <1>2, ConcatProperties
  <2>3. \A i \in 1..Len(leaves), j \in 1..n : leaves[i] # notes[j]
    BY <1>6, <2>1 DEF Range
  <2>4. ASSUME NEW i \in 1..(Len(leaves) + n), NEW j \in 1..(Len(leaves) + n),
               leaves'[i] = leaves'[j]
        PROVE  i = j
    <3>1. CASE i <= Len(leaves) /\ j <= Len(leaves)
      <4>1. i \in 1..Len(leaves) /\ j \in 1..Len(leaves)
        BY <2>1, <3>1
      <4>2. leaves[i] = leaves[j]
        BY <2>2, <2>4, <3>1
      <4>. QED
        BY <1>6, <2>1, <4>1, <4>2 DEF IsInjective
    <3>2. CASE i <= Len(leaves) /\ j > Len(leaves)
      <4>1. i \in 1..Len(leaves) /\ j - Len(leaves) \in 1..n
        BY <2>1, <3>2
      <4>2. leaves'[i] = leaves[i] /\ leaves'[j] = notes[j - Len(leaves)]
        BY <2>1, <2>2, <3>2
      <4>. QED
        BY <2>3, <2>4, <4>1, <4>2
    <3>3. CASE i > Len(leaves) /\ j <= Len(leaves)
      <4>1. i - Len(leaves) \in 1..n /\ j \in 1..Len(leaves)
        BY <2>1, <3>3
      <4>2. leaves'[i] = notes[i - Len(leaves)] /\ leaves'[j] = leaves[j]
        BY <2>1, <2>2, <3>3
      <4>. QED
        BY <2>3, <2>4, <4>1, <4>2
    <3>4. CASE i > Len(leaves) /\ j > Len(leaves)
      <4>1. i - Len(leaves) \in 1..n /\ j - Len(leaves) \in 1..n
        BY <2>1, <3>4
      <4>2. notes[i - Len(leaves)] = notes[j - Len(leaves)]
        BY <2>1, <2>2, <2>4, <3>4
      <4>3. i - Len(leaves) = j - Len(leaves)
        BY <1>6, <2>1, <4>1, <4>2 DEF IsInjective
      <4>. QED
        BY <2>1, <4>3
    <3>. QED
      BY <2>1, <3>1, <3>2, <3>3, <3>4
  <2>. QED
    BY <2>1, <2>4 DEF IsInjective
<1>. QED
  BY <1>3, <1>4, <1>5, <1>6

\* What a SEP-41 transfer does to the pool's own balance; from and to may be the
\* same holder.
LEMMA PaidEffect ==
  ASSUME balance \in BalanceType,
         NEW asset \in Assets, NEW from \in Holders, NEW to \in Holders,
         NEW amount \in Nat, amount <= balance[asset][from]
  PROVE  /\ Paid(asset, from, to, amount) \in BalanceType
         /\ \A a \in Assets \ {asset} : Paid(asset, from, to, amount)[a] = balance[a]
         /\ Paid(asset, from, to, amount)[asset][Pool] =
              balance[asset][Pool] - (IF from = Pool THEN amount ELSE 0)
                                   + (IF to = Pool THEN amount ELSE 0)
<1>. DEFINE row == [h \in Holders |-> balance[asset][h] - (IF h = from THEN amount ELSE 0)
                                                      + (IF h = to THEN amount ELSE 0)]
<1>1. balance[asset] \in [Holders -> Nat] /\ Pool \in Holders
  BY DEF Holders, BalanceType
<1>2. row \in [Holders -> Nat]
  BY <1>1
<1>3. Paid(asset, from, to, amount) = [balance EXCEPT ![asset] = row]
  BY DEF Paid
<1>. HIDE DEF row
<1>4. /\ [balance EXCEPT ![asset] = row] \in BalanceType
      /\ [balance EXCEPT ![asset] = row][asset] = row
      /\ \A a \in Assets \ {asset} : [balance EXCEPT ![asset] = row][a] = balance[a]
  BY <1>2 DEF BalanceType
<1>5. row[Pool] = balance[asset][Pool] - (IF from = Pool THEN amount ELSE 0)
                                       + (IF to = Pool THEN amount ELSE 0)
  BY <1>1 DEF row
<1>. QED
  BY <1>3, <1>4, <1>5

\* A pro rata payout is at most what is asked for and at most what is there, and
\* takes no more than its share.
LEMMA ProRata ==
  ASSUME NEW value \in Nat, NEW held \in Nat, NEW owed \in Nat, value <= owed, held < owed
  PROVE  LET q == (value * held) \div owed
         IN  q \in Nat /\ q <= value /\ q <= held /\ q * owed <= value * held
<1>. DEFINE num == value * held
            q == num \div owed
<1>1. num \in Nat /\ owed \in Nat \ {0}
  OBVIOUS
<1>2. q \in Nat /\ q * owed <= num
  <2>. HIDE DEF num
  <2>. QED
    BY <1>1
<1>3. num <= owed * held /\ num <= value * owed
  <2>1. \A x, y, z \in Nat : x <= y => x * z <= y * z
    OBVIOUS
  <2>. QED
    BY <2>1
<1>4. \A x, y, z \in Nat : z > 0 /\ x * z <= y * z => x <= y
  OBVIOUS
<1>5. q <= value /\ q <= held
  <2>1. q * owed <= value * owed /\ q * owed <= held * owed
    BY <1>1, <1>2, <1>3
  <2>. HIDE DEF q
  <2>. QED
    BY <1>1, <1>2, <1>4, <2>1
<1>. QED
  BY <1>2, <1>5

---------------------------------------------------------------------------
(* Types, the commitment set and custody. *)

Books == TypeOK /\ SeenMatchesTree /\ CustodyCoversSupply

\* New leaves that the handler has checked against CommitmentSeen, and against
\* each other, keep the commitment set and the tree in step.
LEMMA InsertKeepsTree ==
  ASSUME TypeOK, SeenMatchesTree,
         NEW n \in Nat, NEW notes \in [1..n -> Note], IsInjective(notes),
         Range(notes) \cap seen = {},
         InsertMany(notes), seen' = seen \cup Range(notes)
  PROVE  /\ leaves' \in Seq(Note)
         /\ history' \in Seq(1..MaxLeaves) /\ Len(history') <= RootHistorySize
         /\ seen' \subseteq Note
         /\ SeenMatchesTree'
<1>1. leaves \in Seq(Note) /\ history \in Seq(1..MaxLeaves) /\ Len(history) <= RootHistorySize /\ seen \subseteq Note
  BY DEF TypeOK
<1>2. seen = Range(leaves) /\ IsInjective(leaves)
  BY DEF SeenMatchesTree
<1>3. Range(notes) \subseteq Note
  BY DEF Range
<1>4. /\ leaves' \in Seq(Note)
      /\ history' \in Seq(1..MaxLeaves) /\ Len(history') <= RootHistorySize
      /\ Range(leaves') = Range(leaves) \cup Range(notes)
      /\ IsInjective(leaves')
  BY <1>1, <1>2, InsertManyEffect
<1>. QED
  BY <1>1, <1>2, <1>3, <1>4 DEF SeenMatchesTree

\* Calls on the pool leave the settings alone.
LEMMA SettingsKept ==
  ASSUME SettingsTypeOK, UNCHANGED settings
  PROVE  SettingsTypeOK'
BY DEF SettingsTypeOK, settings

\* The pool is a holder of its own, and every account is one.
LEMMA Parties == Pool \in Holders /\ Pool \notin Accounts /\ Accounts \subseteq Holders
BY TokenAssumption DEF Holders

\* What the books hold, asset by asset.
LEMMA BooksAre ==
  ASSUME Books
  PROVE  /\ balance \in BalanceType /\ supply \in [Assets -> Nat] /\ clawed \in [Assets -> Nat]
         /\ \A a \in Assets : balance[a][Pool] \in Nat
         /\ \A a \in Assets : balance[a][Pool] + clawed[a] >= supply[a]
<1>1. TypeOK /\ CustodyCoversSupply
  BY DEF Books
<1>2. balance \in BalanceType /\ supply \in [Assets -> Nat] /\ clawed \in [Assets -> Nat]
  BY <1>1 DEF TypeOK, BalanceType
<1>3. \A a \in Assets : balance[a][Pool] \in Nat
  BY <1>2, Parties DEF BalanceType
<1>4. \A a \in Assets : balance[a][Pool] + clawed[a] >= supply[a]
  BY <1>1 DEF CustodyCoversSupply
<1>. QED
  BY <1>2, <1>3, <1>4

\* Payments into and out of the pool's books: the balance type and custody.
LEMMA Deposited ==
  ASSUME Books, NEW asset \in Assets, NEW from \in Accounts, NEW amount \in Nat,
         amount <= balance[asset][from],
         balance' = Paid(asset, from, Pool, amount),
         supply' = [supply EXCEPT ![asset] = @ + amount],
         UNCHANGED clawed
  PROVE  /\ balance' \in BalanceType /\ supply' \in [Assets -> Nat] /\ clawed' \in [Assets -> Nat]
         /\ CustodyCoversSupply'
<1>1. /\ balance \in BalanceType /\ supply \in [Assets -> Nat] /\ clawed \in [Assets -> Nat]
      /\ \A a \in Assets : balance[a][Pool] \in Nat
      /\ \A a \in Assets : balance[a][Pool] + clawed[a] >= supply[a]
      /\ from \in Holders /\ Pool \in Holders /\ from # Pool
  BY BooksAre, Parties
<1>2. /\ balance' \in BalanceType
      /\ \A a \in Assets \ {asset} : balance'[a] = balance[a]
      /\ balance'[asset][Pool] = balance[asset][Pool] - 0 + amount
  BY <1>1, PaidEffect
<1>3. supply' \in [Assets -> Nat] /\ clawed' \in [Assets -> Nat]
  BY <1>1
<1>4. ASSUME NEW a \in Assets PROVE balance'[a][Pool] + clawed'[a] >= supply'[a]
  BY <1>1, <1>2
<1>. QED
  BY <1>2, <1>3, <1>4 DEF CustodyCoversSupply

\* `paid' leaves the pool while at least as much is taken off the books.
LEMMA PaidOut ==
  ASSUME Books, NEW asset \in Assets, NEW to \in Holders, NEW amount \in Nat, NEW paid \in Nat,
         paid <= amount, amount <= supply[asset], paid <= balance[asset][Pool],
         balance' = Paid(asset, Pool, to, paid),
         supply' = [supply EXCEPT ![asset] = @ - amount],
         UNCHANGED clawed
  PROVE  /\ balance' \in BalanceType /\ supply' \in [Assets -> Nat] /\ clawed' \in [Assets -> Nat]
         /\ CustodyCoversSupply'
<1>1. /\ balance \in BalanceType /\ supply \in [Assets -> Nat] /\ clawed \in [Assets -> Nat]
      /\ \A a \in Assets : balance[a][Pool] \in Nat
      /\ \A a \in Assets : balance[a][Pool] + clawed[a] >= supply[a]
      /\ Pool \in Holders
  BY BooksAre, Parties
<1>2. /\ balance' \in BalanceType
      /\ \A a \in Assets \ {asset} : balance'[a] = balance[a]
      /\ balance'[asset][Pool] = balance[asset][Pool] - paid + (IF to = Pool THEN paid ELSE 0)
  BY <1>1, PaidEffect
<1>3. supply' \in [Assets -> Nat] /\ clawed' \in [Assets -> Nat]
  BY <1>1
<1>4. ASSUME NEW a \in Assets PROVE balance'[a][Pool] + clawed'[a] >= supply'[a]
  BY <1>1, <1>2
<1>. QED
  BY <1>2, <1>3, <1>4 DEF CustodyCoversSupply

\* The fields of a note.
LEMMA NoteFields ==
  ASSUME NEW note \in Note
  PROVE  /\ note.asset \in Assets
         /\ note.value \in 0..MaxValue
         /\ note.value \in Nat
         /\ note.owner \in Owners
         /\ note.rho \in Rhos
         /\ Nullifier(note) \in NullifierSet
BY ValueAssumption DEF Note, Nullifier, NullifierSet

LEMMA ShieldBooks ==
  ASSUME Books, NEW from \in Accounts, NEW note \in Note, Shield(from, note)
  PROVE  Books'
<1>. USE DEF Books
<1>1. <<note>> \in [1..1 -> Note] /\ Range(<<note>>) = {note} /\ IsInjective(<<note>>)
  BY OneNote
<1>2. /\ InsertMany(<<note>>) /\ seen' = seen \cup {note} /\ note \notin seen
      /\ note.value <= balance[note.asset][from]
      /\ supply' = [supply EXCEPT ![note.asset] = @ + note.value]
      /\ balance' = Paid(note.asset, from, Pool, note.value)
      /\ UNCHANGED nullifiers /\ UNCHANGED clawed /\ UNCHANGED settings
  BY DEF Shield, TakeNote, Credited
<1>3. /\ leaves' \in Seq(Note) /\ history' \in Seq(1..MaxLeaves) /\ Len(history') <= RootHistorySize
      /\ seen' \subseteq Note /\ SeenMatchesTree'
  BY <1>1, <1>2, InsertKeepsTree
<1>4. /\ balance' \in BalanceType /\ supply' \in [Assets -> Nat] /\ clawed' \in [Assets -> Nat]
      /\ CustodyCoversSupply'
  BY <1>2, NoteFields, Deposited
<1>5. nullifiers' \subseteq NullifierSet /\ SettingsTypeOK'
  BY <1>2, SettingsKept DEF TypeOK
<1>. QED
  BY <1>3, <1>4, <1>5 DEF TypeOK, BalanceType

\* The items a batch has checked are distinct.
LEMMA BatchItems ==
  ASSUME NEW from, NEW asset, NEW n \in BatchSizes, NEW items \in [1..n -> Note],
         ShieldBatch(from, asset, items)
  PROVE  IsInjective(items) /\ Range(items) \cap seen = {}
<1>1. n \in Nat /\ DOMAIN items = 1..n
  BY TokenAssumption, LogAssumption DEF BatchSizes
<1>2. \A i \in 1..n : items[i] \notin seen /\ \A j \in 1..(i - 1) : items[i] # items[j]
  BY <1>1 DEF ShieldBatch, BatchAccepted
<1>3. ASSUME NEW i \in 1..n, NEW j \in 1..n, items[i] = items[j]
      PROVE  i = j
  <2>1. CASE j < i
    BY <1>1, <1>2, <1>3, <2>1
  <2>2. CASE i < j
    BY <1>1, <1>2, <1>3, <2>2
  <2>. QED
    BY <1>1, <2>1, <2>2
<1>. QED
  BY <1>1, <1>2, <1>3 DEF IsInjective, Range

LEMMA ShieldBatchBooks ==
  ASSUME Books, NEW from \in Accounts, NEW asset \in Assets,
         NEW n \in BatchSizes, NEW items \in [1..n -> Note],
         ShieldBatch(from, asset, items)
  PROVE  Books'
<1>. USE DEF Books
<1>1. n \in Nat /\ DOMAIN items = 1..n
  BY TokenAssumption, LogAssumption DEF BatchSizes
<1>2. IsInjective(items) /\ Range(items) \cap seen = {}
  BY BatchItems
<1>3. /\ InsertMany(items) /\ seen' = seen \cup Range(items)
      /\ ValueOf(items) <= balance[asset][from]
      /\ supply' = [supply EXCEPT ![asset] = @ + ValueOf(items)]
      /\ balance' = Paid(asset, from, Pool, ValueOf(items))
      /\ UNCHANGED nullifiers /\ UNCHANGED clawed /\ UNCHANGED settings
  BY DEF ShieldBatch, BatchAccepted, Credited
<1>4. ValueOf(items) \in Nat
  BY <1>1, <1>2, SequenceWorth
<1>5. /\ leaves' \in Seq(Note) /\ history' \in Seq(1..MaxLeaves) /\ Len(history') <= RootHistorySize
      /\ seen' \subseteq Note /\ SeenMatchesTree'
  BY <1>1, <1>2, <1>3, InsertKeepsTree
<1>6. /\ balance' \in BalanceType /\ supply' \in [Assets -> Nat] /\ clawed' \in [Assets -> Nat]
      /\ CustodyCoversSupply'
  BY <1>3, <1>4, Deposited
<1>7. nullifiers' \subseteq NullifierSet /\ SettingsTypeOK'
  BY <1>3, SettingsKept DEF TypeOK
<1>. QED
  BY <1>5, <1>6, <1>7 DEF TypeOK, BalanceType

LEMMA TransferBooks ==
  ASSUME Books, NEW n \in TransferArities,
         NEW ins \in [1..n -> Note], NEW outs \in [1..n -> Note],
         NEW fee \in 0..MaxValue, NEW asset \in Assets,
         NEW relayer, fee > 0 => relayer \in Accounts, NEW anchor,
         Transfer(ins, outs, fee, asset, relayer, anchor)
  PROVE  Books'
<1>. USE DEF Books
<1>1. n \in Nat /\ DOMAIN ins = 1..n /\ DOMAIN outs = 1..n /\ fee \in Nat
  BY TokenAssumption, LogAssumption, ValueAssumption
<1>2. /\ FreshCommitments(outs) /\ InsertMany(outs)
      /\ nullifiers' = nullifiers \cup {Nullifier(ins[i]) : i \in DOMAIN ins}
      /\ seen' = seen \cup Range(outs)
      /\ fee <= supply[asset] /\ fee <= balance[asset][Pool]
      /\ supply' = [supply EXCEPT ![asset] = @ - fee]
      /\ balance' = IF fee > 0 THEN Paid(asset, Pool, relayer, fee) ELSE balance
      /\ UNCHANGED clawed /\ UNCHANGED settings
  BY DEF Transfer, TransferAccepted, Debited
<1>3. IsInjective(outs) /\ Range(outs) \cap seen = {}
  BY <1>1, <1>2 DEF FreshCommitments, IsInjective, Range
<1>4. /\ leaves' \in Seq(Note) /\ history' \in Seq(1..MaxLeaves) /\ Len(history') <= RootHistorySize
      /\ seen' \subseteq Note /\ SeenMatchesTree'
  BY <1>1, <1>2, <1>3, InsertKeepsTree
<1>5. /\ balance' \in BalanceType /\ supply' \in [Assets -> Nat] /\ clawed' \in [Assets -> Nat]
      /\ CustodyCoversSupply'
  <2>1. CASE fee > 0
    <3>1. relayer \in Holders /\ balance' = Paid(asset, Pool, relayer, fee)
      BY <1>2, <2>1 DEF Holders
    <3>2. fee <= fee
      BY <1>1
    <3>. QED
      BY <1>1, <1>2, <3>1, <3>2, PaidOut
  <2>2. CASE fee = 0
    <3>1. balance' = balance /\ \A a \in Assets : supply'[a] = supply[a]
      BY <1>2, <2>2 DEF TypeOK
    <3>2. supply' \in [Assets -> Nat]
      BY <1>1, <1>2, <2>2 DEF TypeOK
    <3>3. balance' \in BalanceType /\ clawed' \in [Assets -> Nat]
      BY <1>2, <3>1 DEF TypeOK, BalanceType
    <3>4. CustodyCoversSupply'
      BY <1>2, <3>1 DEF CustodyCoversSupply
    <3>. QED
      BY <3>2, <3>3, <3>4
  <2>. QED
    BY <1>1, <2>1, <2>2
<1>6. nullifiers' \subseteq NullifierSet /\ SettingsTypeOK'
  BY <1>1, <1>2, NoteFields, SettingsKept DEF TypeOK
<1>. QED
  BY <1>4, <1>5, <1>6 DEF TypeOK, BalanceType

\* A withdrawal is paid no more than was asked for, and no more than is there.
LEMMA PayoutBounds ==
  ASSUME Books, NEW asset \in Assets, NEW value \in Nat, value <= supply[asset]
  PROVE  /\ Payout(asset, value) \in Nat
         /\ Payout(asset, value) <= value
         /\ Payout(asset, value) <= balance[asset][Pool]
<1>1. supply[asset] \in Nat /\ balance[asset][Pool] \in Nat
  BY DEF Books, TypeOK, Holders
<1>2. CASE balance[asset][Pool] >= supply[asset]
  BY <1>1, <1>2 DEF Payout
<1>3. CASE balance[asset][Pool] < supply[asset]
  <2>1. Payout(asset, value) = (value * balance[asset][Pool]) \div supply[asset]
    BY <1>1, <1>3 DEF Payout
  <2>. QED
    BY <1>1, <1>3, <2>1, ProRata
<1>. QED
  BY <1>1, <1>2, <1>3

LEMMA UnshieldBooks ==
  ASSUME Books, NEW note \in Note, NEW change \in Note, NEW to \in Holders,
         NEW pubValue \in 1..MaxValue, NEW anchor,
         Unshield(note, pubValue, change, to, anchor)
  PROVE  Books'
<1>. USE DEF Books
<1>1. note.asset \in Assets /\ pubValue \in Nat
  BY NoteFields, ValueAssumption
<1>2. /\ change \notin seen /\ pubValue <= supply[note.asset]
      /\ InsertMany(<<change>>)
      /\ nullifiers' = nullifiers \cup {Nullifier(note)}
      /\ seen' = seen \cup {change}
      /\ supply' = [supply EXCEPT ![note.asset] = @ - pubValue]
      /\ balance' = Paid(note.asset, Pool, to, Payout(note.asset, pubValue))
      /\ UNCHANGED clawed /\ UNCHANGED settings
  BY DEF Unshield, UnshieldAccepted, Debited
<1>3. <<change>> \in [1..1 -> Note] /\ Range(<<change>>) = {change} /\ IsInjective(<<change>>)
  BY OneNote
<1>4. /\ leaves' \in Seq(Note) /\ history' \in Seq(1..MaxLeaves) /\ Len(history') <= RootHistorySize
      /\ seen' \subseteq Note /\ SeenMatchesTree'
  BY <1>2, <1>3, InsertKeepsTree
<1>5. /\ balance' \in BalanceType /\ supply' \in [Assets -> Nat] /\ clawed' \in [Assets -> Nat]
      /\ CustodyCoversSupply'
  BY <1>1, <1>2, PayoutBounds, PaidOut
<1>6. nullifiers' \subseteq NullifierSet /\ SettingsTypeOK'
  BY <1>2, NoteFields, SettingsKept DEF TypeOK
<1>. QED
  BY <1>4, <1>5, <1>6 DEF TypeOK, BalanceType

LEMMA ClawbackBooks ==
  ASSUME Books, NEW asset \in Assets, NEW amount \in 1..balance[asset][Pool],
         Clawback(asset, amount)
  PROVE  Books'
<1>. USE DEF Books
<1>1. balance \in BalanceType /\ clawed \in [Assets -> Nat] /\ Pool \in Holders
  BY DEF TypeOK, BalanceType, Holders
<1>2. balance[asset][Pool] \in Nat /\ amount \in Nat /\ amount <= balance[asset][Pool]
  BY <1>1 DEF BalanceType
<1>3. /\ balance' = [balance EXCEPT ![asset][Pool] = @ - amount]
      /\ clawed' = [clawed EXCEPT ![asset] = @ + amount]
      /\ UNCHANGED <<leaves, history, nullifiers, seen, supply>> /\ UNCHANGED settings
  BY DEF Clawback, poolVars
<1>4. /\ balance' \in BalanceType /\ clawed' \in [Assets -> Nat]
      /\ \A a \in Assets : balance'[a][Pool] + clawed'[a] = balance[a][Pool] + clawed[a]
  BY <1>1, <1>2, <1>3 DEF BalanceType
<1>5. TypeOK'
  BY <1>3, <1>4, SettingsKept DEF TypeOK, BalanceType
<1>6. CustodyCoversSupply'
  BY <1>3, <1>4 DEF CustodyCoversSupply
<1>7. SeenMatchesTree'
  BY <1>3 DEF SeenMatchesTree
<1>. QED
  BY <1>5, <1>6, <1>7

LEMMA DonateBooks ==
  ASSUME Books, NEW asset \in Assets, NEW from \in Accounts,
         NEW amount \in 1..balance[asset][from], Donate(asset, from, amount)
  PROVE  Books'
<1>. USE DEF Books
<1>1. /\ balance \in BalanceType /\ from \in Holders /\ Pool \in Holders /\ from # Pool
      /\ \A a \in Assets : balance[a][Pool] \in Nat /\ clawed[a] \in Nat /\ supply[a] \in Nat
  BY BooksAre, Parties
<1>2. amount \in Nat /\ amount <= balance[asset][from]
  BY <1>1 DEF BalanceType
<1>3. /\ balance' = Paid(asset, from, Pool, amount)
      /\ UNCHANGED <<leaves, history, nullifiers, seen, supply>>
      /\ UNCHANGED clawed /\ UNCHANGED settings
  BY DEF Donate, poolVars
<1>4. /\ balance' \in BalanceType
      /\ \A a \in Assets \ {asset} : balance'[a] = balance[a]
      /\ balance'[asset][Pool] = balance[asset][Pool] - 0 + amount
  BY <1>1, <1>2, <1>3, PaidEffect
<1>5. TypeOK'
  BY <1>3, <1>4, SettingsKept DEF TypeOK, BalanceType
<1>6. CustodyCoversSupply'
  BY <1>1, <1>2, <1>3, <1>4 DEF CustodyCoversSupply
<1>7. SeenMatchesTree'
  BY <1>3 DEF SeenMatchesTree
<1>. QED
  BY <1>5, <1>6, <1>7

\* Admin calls keep the settings well typed and touch nothing else.
LEMMA AdminBooks ==
  ASSUME Books, AdminStep
  PROVE  Books'
<1>. USE DEF Books
<1>1. UNCHANGED <<leaves, history, nullifiers, seen, supply, balance, clawed>>
  BY DEF AdminStep, poolVars
<1>2. SettingsTypeOK'
  <2>1. SettingsTypeOK /\ SettingsStep
    BY DEF TypeOK, AdminStep
  <2>. QED
    BY <2>1, SettingsAssumption
       DEF SettingsTypeOK, SettingsStep, SetMinShieldAmount, SetAssetApproved, SetRelayer,
           SetPaused, TransferAdmin, AcceptAdmin
<1>. QED
  BY <1>1, <1>2 DEF TypeOK, SeenMatchesTree, CustodyCoversSupply

---------------------------------------------------------------------------
(* The calls of Next, with the types of what they are called with. *)

\* What a property has to be checked for: each call of the contract and of the
\* assets, in turn.
ShieldCalls ==
  \/ \E from \in Accounts, note \in Note : Shield(from, note)
  \/ \E from \in Accounts, asset \in Assets, n \in BatchSizes :
       \E items \in [1..n -> Note] : ShieldBatch(from, asset, items)

TransferCalls ==
  \E n \in TransferArities, asset \in Assets, fee \in 0..MaxValue :
    \E ins, outs \in [1..n -> Note], relayer \in Accounts \cup {None}, anchor \in KnownRoots :
      (fee > 0 => relayer \in Accounts) /\ Transfer(ins, outs, fee, asset, relayer, anchor)

UnshieldCalls ==
  \E note, change \in Note, to \in Holders, pubValue \in 1..MaxValue, anchor \in KnownRoots :
    Unshield(note, pubValue, change, to, anchor)

LEMMA LeavesAreNotes ==
  ASSUME Books
  PROVE  Range(leaves) \subseteq Note /\ \A i \in DOMAIN leaves : leaves[i] \in Note
<1>1. leaves \in Seq(Note)
  BY DEF Books, TypeOK
<1>. QED
  BY <1>1, RangeOfSeq DEF Range

LEMMA TransferStepCalls ==
  ASSUME Books, TransferStep
  PROVE  TransferCalls
<1>. PICK n \in TransferArities :
       \E ins \in InputSlots(n) :
         \E outs \in [1..n -> Note], anchor \in KnownRoots, fee \in 0..MaxValue :
           \E relayer \in IF fee = 0 THEN {None} ELSE Accounts :
             Transfer(ins, outs, fee, outs[1].asset, relayer, anchor)
  BY DEF TransferStep
<1>1. PICK ins \in InputSlots(n), outs \in [1..n -> Note], anchor \in KnownRoots, fee \in 0..MaxValue :
         \E relayer \in IF fee = 0 THEN {None} ELSE Accounts :
           Transfer(ins, outs, fee, outs[1].asset, relayer, anchor)
  OBVIOUS
<1>2. PICK relayer \in IF fee = 0 THEN {None} ELSE Accounts :
             Transfer(ins, outs, fee, outs[1].asset, relayer, anchor)
  BY <1>1
<1>3. ins \in [1..n -> Note]
  BY LeavesAreNotes DEF InputSlots
<1>4. outs[1].asset \in Assets
  <2>1. 1 \in 1..n
    BY TokenAssumption, LogAssumption
  <2>. QED
    BY <2>1, NoteFields
<1>5. relayer \in Accounts \cup {None} /\ (fee > 0 => relayer \in Accounts)
  BY <1>2, ValueAssumption
<1>. QED
  BY <1>2, <1>3, <1>4, <1>5 DEF TransferCalls

LEMMA UnshieldStepCalls ==
  ASSUME Books, UnshieldStep
  PROVE  UnshieldCalls
BY LeavesAreNotes DEF UnshieldStep, UnshieldCalls

LEMMA Calls ==
  ASSUME Books, Next
  PROVE  ShieldCalls \/ TransferCalls \/ UnshieldCalls \/ AdminStep \/ AssetStep
<1>1. ASSUME ShieldStep PROVE ShieldCalls
  BY <1>1 DEF ShieldStep, ShieldCalls
<1>. QED
  BY <1>1, TransferStepCalls, UnshieldStepCalls DEF Next, PoolStep

LEMMA BooksStep ==
  ASSUME Books, [Next]_vars
  PROVE  Books'
<1>1. CASE ShieldCalls
  BY <1>1, ShieldBooks, ShieldBatchBooks DEF ShieldCalls
<1>2. CASE TransferCalls
  BY <1>2, TransferBooks DEF TransferCalls
<1>3. CASE UnshieldCalls
  BY <1>3, UnshieldBooks DEF UnshieldCalls
<1>4. CASE AdminStep
  BY <1>4, AdminBooks
<1>5. CASE AssetStep
  BY <1>5, ClawbackBooks, DonateBooks DEF AssetStep
<1>6. CASE UNCHANGED vars
  BY <1>6 DEF vars, poolVars, settings, Books, TypeOK, SettingsTypeOK, SeenMatchesTree,
              CustodyCoversSupply
<1>. QED
  BY <1>1, <1>2, <1>3, <1>4, <1>5, <1>6, Calls

LEMMA BooksInit ==
  ASSUME Init
  PROVE  Books
<1>. USE DEF Init, LogInit, SettingsInit
<1>1. TypeOK
  <2>1. leaves \in Seq(Note) /\ history \in Seq(1..MaxLeaves) /\ Len(history) <= RootHistorySize
    BY EmptySeq, LogAssumption
  <2>2. balance \in [Assets -> [Holders -> Nat]]
    BY TokenAssumption DEF Holders
  <2>3. SettingsTypeOK
    BY SettingsAssumption DEF SettingsTypeOK
  <2>. QED
    BY <2>1, <2>2, <2>3 DEF TypeOK
<1>2. SeenMatchesTree
  BY DEF SeenMatchesTree, Range, IsInjective
<1>3. CustodyCoversSupply
  BY DEF CustodyCoversSupply, Holders
<1>. QED
  BY <1>1, <1>2, <1>3 DEF Books

\* The books of the contract are in order in every reachable state.
THEOREM BooksInvariant == Spec => []Books
BY BooksInit, BooksStep, PTL DEF Spec

\* Every variable keeps its type: supply and balances never go negative, whatever
\* is deposited, spent, withdrawn or clawed back.
THEOREM TypeCorrect == Spec => []TypeOK
BY BooksInvariant, PTL DEF Books

\* CommitmentSeen and the leaves of the tree always agree, and no commitment is
\* two leaves.
THEOREM CommitmentsMatchTree == Spec => []SeenMatchesTree
BY BooksInvariant, PTL DEF Books

\* The pool's balance falls short of the recorded supply by no more than what
\* issuers have clawed back.
THEOREM CustodyCorrect == Spec => []CustodyCoversSupply
BY BooksInvariant, PTL DEF Books

---------------------------------------------------------------------------
(* Solvency. *)

\* There are finitely many live notes.
LEMMA LiveFinite ==
  ASSUME Books, NEW asset
  PROVE  /\ LiveNotesOf(asset) \subseteq LiveNotes
         /\ LiveNotes \subseteq seen
         /\ IsFiniteSet(LiveNotesOf(asset))
         /\ LiveValue(asset) \in Nat
<1>1. /\ Len(leaves) \in Nat /\ DOMAIN leaves = 1..Len(leaves)
      /\ IsInjective(leaves) /\ seen = Range(leaves)
  BY LenProperties DEF Books, TypeOK, SeenMatchesTree
<1>2. IsFiniteSet(seen)
  BY <1>1, SequenceWorth
<1>3. LiveNotesOf(asset) \subseteq LiveNotes /\ LiveNotes \subseteq seen
  BY <1>1 DEF LiveNotesOf, LiveNotes
<1>4. IsFiniteSet(LiveNotesOf(asset))
  BY <1>2, <1>3, FS_Subset
<1>. QED
  BY <1>3, <1>4, UnitsFinite DEF LiveValue

\* The live notes after a step that adds the notes `created' to the tree.
LEMMA LiveAfter ==
  ASSUME Books, Books', NEW created, seen' = seen \cup created, nullifiers \subseteq nullifiers',
         NEW asset
  PROVE  LiveNotesOf(asset)' \subseteq
           LiveNotesOf(asset) \cup {note \in created : note.asset = asset}
<1>1. seen = Range(leaves) /\ seen' = Range(leaves')
  BY DEF Books, SeenMatchesTree
<1>. QED
  BY <1>1 DEF LiveNotesOf, LiveNotes

\* When live notes are replaced by others, the live value changes by at most what
\* they are worth.
LEMMA LiveReplaced ==
  ASSUME Books, NEW asset, NEW spent, NEW created, IsFiniteSet(created),
         spent \subseteq LiveNotesOf(asset),
         LiveNotesOf(asset)' \subseteq (LiveNotesOf(asset) \ spent) \cup created
  PROVE  /\ Worth(spent) \in Nat /\ Worth(created) \in Nat
         /\ LiveValue(asset)' \in Nat
         /\ LiveValue(asset)' <= LiveValue(asset) - Worth(spent) + Worth(created)
<1>. DEFINE rest == LiveNotesOf(asset) \ spent
            after == LiveNotesOf(asset)'
<1>1. IsFiniteSet(LiveNotesOf(asset)) /\ LiveValue(asset) \in Nat
  BY LiveFinite
<1>2. /\ IsFiniteSet(rest)
      /\ Worth(rest) = LiveValue(asset) - Worth(spent)
  BY <1>1, WorthWithout DEF LiveValue
<1>3. Worth(rest \cup created) <= Worth(rest) + Worth(created)
  BY <1>2, WorthUnion
<1>4. IsFiniteSet(rest \cup created)
  BY <1>2, FS_Union
<1>5. IsFiniteSet(after) /\ Worth(after) <= Worth(rest \cup created)
  BY <1>4, WorthWithout, FS_Subset
<1>6. IsFiniteSet(spent)
  BY <1>1, FS_Subset
<1>7. /\ Worth(after) \in Nat /\ Worth(rest \cup created) \in Nat
      /\ Worth(spent) \in Nat /\ Worth(created) \in Nat /\ Worth(rest) \in Nat
  BY <1>2, <1>4, <1>5, <1>6, UnitsFinite
<1>8. LiveValue(asset)' = Worth(after)
  BY DEF LiveValue
<1>. QED
  BY <1>1, <1>2, <1>3, <1>5, <1>7, <1>8

\* A call that adds no note of an asset does not raise its live value.
LEMMA LiveUntouched ==
  ASSUME Books, Books', NEW created, seen' = seen \cup created, nullifiers \subseteq nullifiers',
         NEW asset, \A note \in created : note.asset # asset
  PROVE  LiveValue(asset)' \in Nat /\ LiveValue(asset)' <= LiveValue(asset)
<1>1. LiveNotesOf(asset)' \subseteq LiveNotesOf(asset)
  BY LiveAfter
<1>2. IsFiniteSet(LiveNotesOf(asset))
  BY LiveFinite
<1>3. IsFiniteSet(LiveNotesOf(asset)') /\ Worth(LiveNotesOf(asset)') <= Worth(LiveNotesOf(asset))
  BY <1>1, <1>2, WorthWithout, FS_Subset
<1>. QED
  BY <1>3, UnitsFinite DEF LiveValue

\* A deposit: notes of one asset join, and the supply grows by what they are worth.
LEMMA DepositSolvent ==
  ASSUME Books, Books', Solvency, NEW asset \in Assets, NEW created, IsFiniteSet(created),
         \A note \in created : note.asset = asset,
         seen' = seen \cup created, UNCHANGED nullifiers,
         supply' = [supply EXCEPT ![asset] = @ + Worth(created)]
  PROVE  Solvency'
<1>1. supply \in [Assets -> Nat] /\ Worth(created) \in Nat
  BY UnitsFinite DEF Books, TypeOK
<1>2. ASSUME NEW a \in Assets PROVE LiveValue(a)' <= supply'[a]
  <2>1. LiveValue(a) \in Nat /\ LiveValue(a) <= supply[a]
    BY LiveFinite DEF Solvency
  <2>2. CASE a = asset
    <3>1. LiveNotesOf(a)' \subseteq (LiveNotesOf(a) \ {}) \cup created
      BY LiveAfter
    <3>2. /\ Worth({}) \in Nat /\ LiveValue(a)' \in Nat
          /\ LiveValue(a)' <= LiveValue(a) - Worth({}) + Worth(created)
      BY <3>1, LiveReplaced
    <3>. QED
      BY <1>1, <2>1, <2>2, <3>2
  <2>3. CASE a # asset
    <3>1. LiveValue(a)' \in Nat /\ LiveValue(a)' <= LiveValue(a)
      BY <2>3, LiveUntouched
    <3>. QED
      BY <1>1, <2>1, <2>3, <3>1
  <2>. QED
    BY <2>2, <2>3
<1>. QED
  BY <1>2 DEF Solvency

\* Notes of one asset are spent for notes worth `amount' less, and the supply is
\* lowered by the difference.
LEMMA SpendSolvent ==
  ASSUME Books, Books', Solvency, NEW asset \in Assets, NEW spent, NEW created, NEW amount \in Nat,
         IsFiniteSet(created), \A note \in created : note.asset = asset,
         spent \subseteq LiveNotesOf(asset),
         Worth(spent) = Worth(created) + amount,
         seen' = seen \cup created,
         nullifiers' = nullifiers \cup {Nullifier(note) : note \in spent},
         supply' = [supply EXCEPT ![asset] = @ - amount]
  PROVE  Solvency'
<1>1. supply \in [Assets -> Nat]
  BY DEF Books, TypeOK
<1>2. ASSUME NEW a \in Assets PROVE LiveValue(a)' <= supply'[a]
  <2>1. LiveValue(a) \in Nat /\ LiveValue(a) <= supply[a]
    BY LiveFinite DEF Solvency
  <2>2. CASE a = asset
    <3>1. LiveNotesOf(a)' \subseteq LiveNotesOf(a) \cup created
      BY LiveAfter
    <3>2. LiveNotesOf(a)' \cap spent = {}
      BY DEF LiveNotesOf, LiveNotes
    <3>3. LiveNotesOf(a)' \subseteq (LiveNotesOf(a) \ spent) \cup created
      BY <3>1, <3>2
    <3>4. /\ Worth(spent) \in Nat /\ Worth(created) \in Nat /\ LiveValue(a)' \in Nat
          /\ LiveValue(a)' <= LiveValue(a) - Worth(spent) + Worth(created)
      BY <2>2, <3>3, LiveReplaced
    <3>. QED
      BY <1>1, <2>1, <2>2, <3>4
  <2>3. CASE a # asset
    <3>1. LiveValue(a)' \in Nat /\ LiveValue(a)' <= LiveValue(a)
      BY <2>3, LiveUntouched
    <3>. QED
      BY <1>1, <2>1, <2>3, <3>1
  <2>. QED
    BY <2>2, <2>3
<1>. QED
  BY <1>2 DEF Solvency

\* What the circuits establish, together with the contract's nullifier checks: the
\* inputs of an accepted transfer are live notes of one asset, no two the same,
\* and worth what the outputs and the fee are worth.
LEMMA TransferInputs ==
  ASSUME Books, NEW n \in TransferArities,
         NEW ins \in [1..n -> Note], NEW outs \in [1..n -> Note],
         NEW fee \in 0..MaxValue, NEW asset \in Assets, NEW relayer, NEW anchor,
         Transfer(ins, outs, fee, asset, relayer, anchor)
  PROVE  /\ Range(ins) \subseteq LiveNotesOf(asset)
         /\ \A note \in Range(outs) : note.asset = asset
         /\ IsFiniteSet(Range(outs))
         /\ Worth(Range(ins)) = Worth(Range(outs)) + fee
         /\ nullifiers' = nullifiers \cup {Nullifier(note) : note \in Range(ins)}
<1>1. n \in Nat /\ DOMAIN ins = 1..n /\ DOMAIN outs = 1..n
  BY TokenAssumption, LogAssumption
<1>2. /\ FreshNullifiers(ins) /\ FreshCommitments(outs)
      /\ TransferCircuit(ins, outs, fee, asset, anchor)
      /\ nullifiers' = nullifiers \cup {Nullifier(ins[i]) : i \in DOMAIN ins}
  BY DEF Transfer, TransferAccepted, Debited
<1>3. IsInjective(ins) /\ IsInjective(outs)
  BY <1>1, <1>2 DEF FreshNullifiers, FreshCommitments, IsInjective
<1>4. \A i \in 1..n : ins[i] \in LiveNotesOf(asset)
  <2>1. leaves \in Seq(Note) /\ Len(leaves) \in Nat /\ DOMAIN leaves = 1..Len(leaves)
    BY LenProperties DEF Books, TypeOK
  <2>2. ASSUME NEW i \in 1..n PROVE ins[i] \in Range(leaves)
    <3>1. InTree(ins[i], anchor)
      BY <1>1, <1>2 DEF TransferCircuit
    <3>2. PICK k \in 1..anchor : k <= Len(leaves) /\ leaves[k] = ins[i]
      BY <3>1 DEF InTree
    <3>3. k \in DOMAIN leaves
      BY <2>1, <3>2
    <3>. QED
      BY <3>2, <3>3 DEF Range
  <2>3. \A i \in 1..n : ins[i].asset = asset /\ Nullifier(ins[i]) \notin nullifiers
    BY <1>1, <1>2 DEF TransferCircuit, FreshNullifiers
  <2>. QED
    BY <2>2, <2>3 DEF LiveNotesOf, LiveNotes
<1>5. /\ ValueOf(ins) = Worth(Range(ins))
      /\ ValueOf(outs) = Worth(Range(outs)) /\ IsFiniteSet(Range(outs))
  BY <1>1, <1>3, SequenceWorth
<1>6. ValueOf(ins) = ValueOf(outs) + fee /\ \A i \in 1..n : outs[i].asset = asset
  BY <1>1, <1>2 DEF TransferCircuit
<1>. QED
  BY <1>1, <1>2, <1>4, <1>5, <1>6 DEF Range

LEMMA SolvencyStep ==
  ASSUME Books, Books', Solvency, [Next]_vars
  PROVE  Solvency'
<1>1. ASSUME NEW from \in Accounts, NEW note \in Note, Shield(from, note)
      PROVE  Solvency'
  <2>1. /\ seen' = seen \cup {note} /\ UNCHANGED nullifiers
        /\ supply' = [supply EXCEPT ![note.asset] = @ + note.value]
    BY <1>1 DEF Shield, TakeNote, Credited
  <2>2. note.asset \in Assets /\ IsFiniteSet({note}) /\ Worth({note}) = note.value
    BY NoteFields, WorthOne
  <2>3. \A x \in {note} : x.asset = note.asset
    OBVIOUS
  <2>. QED
    BY <2>1, <2>2, <2>3, DepositSolvent
<1>2. ASSUME NEW from \in Accounts, NEW asset \in Assets, NEW n \in BatchSizes,
             NEW items \in [1..n -> Note], ShieldBatch(from, asset, items)
      PROVE  Solvency'
  <2>1. /\ seen' = seen \cup Range(items) /\ UNCHANGED nullifiers
        /\ supply' = [supply EXCEPT ![asset] = @ + ValueOf(items)]
    BY <1>2 DEF ShieldBatch, BatchAccepted, Credited
  <2>2. \A note \in Range(items) : note.asset = asset
    BY <1>2 DEF ShieldBatch, BatchAccepted, Range
  <2>3. IsFiniteSet(Range(items)) /\ ValueOf(items) = Worth(Range(items))
    <3>1. n \in Nat /\ DOMAIN items = 1..n
      BY TokenAssumption, LogAssumption DEF BatchSizes
    <3>. QED
      BY <1>2, <3>1, BatchItems, SequenceWorth
  <2>. QED
    BY <2>1, <2>2, <2>3, DepositSolvent
<1>3. ASSUME NEW n \in TransferArities, NEW ins \in [1..n -> Note], NEW outs \in [1..n -> Note],
             NEW fee \in 0..MaxValue, NEW asset \in Assets, NEW relayer, NEW anchor,
             Transfer(ins, outs, fee, asset, relayer, anchor)
      PROVE  Solvency'
  <2>1. /\ Range(ins) \subseteq LiveNotesOf(asset)
        /\ \A note \in Range(outs) : note.asset = asset
        /\ IsFiniteSet(Range(outs))
        /\ Worth(Range(ins)) = Worth(Range(outs)) + fee
        /\ nullifiers' = nullifiers \cup {Nullifier(note) : note \in Range(ins)}
    BY <1>3, TransferInputs
  <2>2. seen' = seen \cup Range(outs) /\ supply' = [supply EXCEPT ![asset] = @ - fee]
    BY <1>3 DEF Transfer, TransferAccepted, Debited
  <2>3. fee \in Nat
    BY ValueAssumption
  <2>. QED
    BY <2>1, <2>2, <2>3, SpendSolvent
<1>4. ASSUME NEW note \in Note, NEW change \in Note, NEW to \in Holders,
             NEW pubValue \in 1..MaxValue, NEW anchor, Unshield(note, pubValue, change, to, anchor)
      PROVE  Solvency'
  <2>1. /\ InTree(note, anchor) /\ change.asset = note.asset
        /\ pubValue <= note.value /\ change.value = note.value - pubValue
        /\ Nullifier(note) \notin nullifiers
        /\ nullifiers' = nullifiers \cup {Nullifier(note)}
        /\ seen' = seen \cup {change}
        /\ supply' = [supply EXCEPT ![note.asset] = @ - pubValue]
    BY <1>4 DEF Unshield, UnshieldAccepted, UnshieldCircuit, Debited
  <2>2. note \in LiveNotesOf(note.asset)
    <3>1. PICK k \in 1..anchor : k <= Len(leaves) /\ leaves[k] = note
      BY <2>1 DEF InTree
    <3>2. k \in DOMAIN leaves
      BY <3>1, LenProperties DEF Books, TypeOK
    <3>. QED
      BY <2>1, <3>1, <3>2 DEF LiveNotesOf, LiveNotes, Range
  <2>3. /\ note.asset \in Assets /\ note.value \in Nat /\ change.value \in Nat /\ pubValue \in Nat
        /\ IsFiniteSet({change}) /\ Worth({note}) = note.value /\ Worth({change}) = change.value
    <3>1. note.value \in 0..MaxValue /\ change.value \in 0..MaxValue
      BY NoteFields
    <3>2. IsFiniteSet({change}) /\ Worth({note}) = note.value /\ Worth({change}) = change.value
      BY <3>1, WorthOne
    <3>. QED
      BY <3>2, NoteFields, ValueAssumption
  <2>4. Worth({note}) = Worth({change}) + pubValue
    BY <2>1, <2>3
  <2>5. {note} \subseteq LiveNotesOf(note.asset) /\ \A x \in {change} : x.asset = note.asset
    BY <2>1, <2>2
  <2>6. {Nullifier(x) : x \in {note}} = {Nullifier(note)}
    OBVIOUS
  <2>. QED
    BY <2>1, <2>3, <2>4, <2>5, <2>6, SpendSolvent
<1>5. ASSUME UNCHANGED <<leaves, nullifiers, supply>>
      PROVE  Solvency'
  BY <1>5 DEF Solvency, LiveValue, LiveNotesOf, LiveNotes
<1>6. CASE AdminStep \/ AssetStep \/ UNCHANGED vars
  BY <1>5, <1>6 DEF AdminStep, AssetStep, Clawback, Donate, vars, poolVars
<1>. QED
  BY <1>1, <1>2, <1>3, <1>4, <1>6, Calls DEF ShieldCalls, TransferCalls, UnshieldCalls

LEMMA SolventInitially == Init => Solvency
<1>1. ASSUME Init, NEW asset \in Assets PROVE LiveValue(asset) <= supply[asset]
  <2>1. LiveNotesOf(asset) = {}
    BY <1>1 DEF Init, LogInit, LiveNotesOf, LiveNotes, Range
  <2>2. Units({}) = {}
    BY DEF Units
  <2>3. LiveValue(asset) = 0
    BY <2>1, <2>2, FS_EmptySet DEF LiveValue, Worth
  <2>. QED
    BY <1>1, <2>3 DEF Init
<1>. QED
  BY <1>1 DEF Solvency

\* The notes that can still be spent are worth no more than the shielded supply on
\* the books, for any number of notes, owners, assets and calls: no sequence of
\* deposits, transfers and withdrawals creates spendable value.
THEOREM SolvencyCorrect == Spec => []Solvency
<1>1. Books /\ Books' /\ Solvency /\ [Next]_vars => Solvency'
  BY SolvencyStep
<1>. QED
  BY <1>1, SolventInitially, BooksInvariant, PTL DEF Spec

\* With a solvent pool the supply covers every note, so that an accepted proof over
\* the current root passes every check of unshield.
LEMMA SolventExit ==
  ASSUME Books, Solvency
  PROVE  OwnerCanExit
<1>. SUFFICES ASSUME ~paused, NEW note \in LiveNotes, NEW change \in Note \ seen,
                     NEW pubValue \in 1..MaxValue,
                     UnshieldCircuit(note, pubValue, change, CurrentRoot)
              PROVE  UnshieldAccepted(note, pubValue, change, CurrentRoot)
  BY DEF OwnerCanExit
<1>1. note \in Note /\ note.asset \in Assets /\ note.value \in Nat
  BY LiveFinite, NoteFields DEF Books, TypeOK
<1>2. {note} \subseteq LiveNotesOf(note.asset)
  BY DEF LiveNotesOf
<1>3. IsFiniteSet(LiveNotesOf(note.asset)) /\ LiveValue(note.asset) \in Nat
  BY LiveFinite
<1>4. Worth({note}) <= LiveValue(note.asset) /\ Worth({note}) = note.value
  BY <1>1, <1>2, <1>3, WorthWithout, WorthOne, NoteFields DEF LiveValue
<1>5. supply[note.asset] \in Nat /\ LiveValue(note.asset) <= supply[note.asset]
  BY <1>1 DEF Books, TypeOK, Solvency
<1>6. pubValue \in Nat /\ pubValue > 0 /\ pubValue <= note.value
  BY ValueAssumption DEF UnshieldCircuit
<1>7. pubValue <= supply[note.asset]
  BY <1>1, <1>3, <1>4, <1>5, <1>6
<1>. QED
  BY <1>6, <1>7 DEF UnshieldAccepted, KnownRoot, LiveNotes

\* No state refuses an owner.
THEOREM OwnersCanExit == Spec => []OwnerCanExit
<1>1. Books /\ Solvency => OwnerCanExit
  BY SolventExit
<1>. QED
  BY <1>1, BooksInvariant, SolvencyCorrect, PTL

---------------------------------------------------------------------------
(* Nothing but a clawback dilutes. *)

\* the backing of one asset, held per owed, is complete or no worse than before
NotDiluted(asset) ==
  \/ balance'[asset][Pool] >= supply'[asset]
  \/ balance'[asset][Pool] * supply[asset] >= balance[asset][Pool] * supply'[asset]

\* A deposit moves the backing towards one to one.
LEMMA DepositDoesNotDilute ==
  ASSUME NEW held \in Nat, NEW owed \in Nat, NEW amount \in Nat
  PROVE  held + amount >= owed + amount \/ (held + amount) * owed >= held * (owed + amount)
<1>1. CASE held >= owed
  BY <1>1
<1>2. CASE held < owed
  <2>1. held * amount <= owed * amount
    BY <1>2
  <2>2. (held + amount) * owed = held * owed + owed * amount
    OBVIOUS
  <2>3. held * (owed + amount) = held * owed + held * amount
    OBVIOUS
  <2>4. held * owed \in Nat /\ owed * amount \in Nat /\ held * amount \in Nat
    OBVIOUS
  <2>. QED
    BY <2>1, <2>2, <2>3, <2>4
<1>. QED
  BY <1>1, <1>2

\* A pro rata payment leaves the others at least what they had per unit.
LEMMA PayoutDoesNotDilute ==
  ASSUME NEW held \in Nat, NEW owed \in Nat, NEW value \in Nat, NEW paid \in Nat,
         paid <= held, value <= owed, paid * owed <= value * held
  PROVE  (held - paid) * owed >= held * (owed - value)
<1>1. (held - paid) * owed = held * owed - paid * owed
  OBVIOUS
<1>2. held * (owed - value) = held * owed - value * held
  OBVIOUS
<1>3. held * owed \in Nat /\ paid * owed \in Nat /\ value * held \in Nat
  OBVIOUS
<1>. QED
  BY <1>1, <1>2, <1>3

LEMMA DilutionStep ==
  ASSUME Books, Next, NEW a \in Assets, clawed'[a] = clawed[a]
  PROVE  NotDiluted(a)
<1>0. /\ balance \in BalanceType /\ Pool \in Holders /\ Pool \notin Accounts
      /\ supply \in [Assets -> Nat] /\ clawed \in [Assets -> Nat]
      /\ \A x \in Assets : balance[x][Pool] \in Nat
      /\ Accounts \subseteq Holders
  BY BooksAre, Parties
<1>1. ASSUME balance'[a] = balance[a], supply'[a] = supply[a]
      PROVE  NotDiluted(a)
  <2>1. balance[a][Pool] * supply[a] >= balance[a][Pool] * supply[a]
    BY <1>0
  <2>. QED
    BY <1>1, <2>1 DEF NotDiluted
<1>2. ASSUME NEW from \in Accounts, NEW asset \in Assets, NEW amount \in Nat,
             amount <= balance[asset][from],
             balance' = Paid(asset, from, Pool, amount),
             supply' = [supply EXCEPT ![asset] = @ + amount]
      PROVE  NotDiluted(a)
  <2>1. /\ \A x \in Assets \ {asset} : balance'[x] = balance[x]
        /\ balance'[asset][Pool] = balance[asset][Pool] + amount
    BY <1>0, <1>2, PaidEffect
  <2>2. CASE a = asset
    BY <1>0, <1>2, <2>1, <2>2, DepositDoesNotDilute DEF NotDiluted
  <2>3. CASE a # asset
    BY <1>0, <1>1, <1>2, <2>1, <2>3
  <2>. QED
    BY <2>2, <2>3
<1>3. CASE ShieldCalls
  <2>1. ASSUME NEW from \in Accounts, NEW note \in Note, Shield(from, note)
        PROVE  NotDiluted(a)
    BY <1>2, <2>1, NoteFields DEF Shield, TakeNote, Credited
  <2>2. ASSUME NEW from \in Accounts, NEW asset \in Assets, NEW n \in BatchSizes,
               NEW items \in [1..n -> Note], ShieldBatch(from, asset, items)
        PROVE  NotDiluted(a)
    <3>1. n \in Nat /\ DOMAIN items = 1..n
      BY TokenAssumption, LogAssumption DEF BatchSizes
    <3>. IsInjective(items)
      BY <2>2, BatchItems
    <3>2. ValueOf(items) \in Nat
      BY <3>1, SequenceWorth
    <3>. QED
      BY <1>2, <2>2, <3>2 DEF ShieldBatch, BatchAccepted, Credited
  <2>. QED
    BY <1>3, <2>1, <2>2 DEF ShieldCalls
<1>4. CASE TransferCalls
  <2>. SUFFICES ASSUME NEW n \in TransferArities, NEW asset \in Assets, NEW fee \in 0..MaxValue,
                       NEW ins \in [1..n -> Note], NEW outs \in [1..n -> Note],
                       NEW relayer, NEW anchor, fee > 0 => relayer \in Accounts,
                       Transfer(ins, outs, fee, asset, relayer, anchor)
                PROVE  NotDiluted(a)
    BY <1>4 DEF TransferCalls
  <2>1. /\ fee \in Nat /\ fee <= supply[asset] /\ fee <= balance[asset][Pool]
        /\ fee > 0 => Shortfall(asset) = 0
        /\ supply' = [supply EXCEPT ![asset] = @ - fee]
        /\ balance' = IF fee > 0 THEN Paid(asset, Pool, relayer, fee) ELSE balance
    BY ValueAssumption DEF Transfer, TransferAccepted, Debited
  <2>2. CASE fee = 0
    <3>1. balance'[a] = balance[a] /\ supply'[a] = supply[a]
      BY <1>0, <2>1, <2>2
    <3>. QED
      BY <1>1, <3>1
  <2>3. CASE fee > 0
    <3>1. relayer \in Holders /\ relayer # Pool
      BY <1>0, <2>3
    <3>2. /\ \A x \in Assets \ {asset} : balance'[x] = balance[x]
          /\ balance'[asset][Pool] = balance[asset][Pool] - fee
      BY <1>0, <2>1, <2>3, <3>1, PaidEffect
    <3>3. balance[asset][Pool] >= supply[asset]
      BY <1>0, <2>1, <2>3 DEF Shortfall
    <3>4. CASE a = asset
      BY <1>0, <2>1, <3>2, <3>3, <3>4 DEF NotDiluted
    <3>5. CASE a # asset
      BY <1>0, <1>1, <2>1, <3>2, <3>5
    <3>. QED
      BY <3>4, <3>5
  <2>. QED
    BY <2>1, <2>2, <2>3
<1>5. CASE UnshieldCalls
  <2>. SUFFICES ASSUME NEW note \in Note, NEW change \in Note, NEW to \in Holders,
                       NEW pubValue \in 1..MaxValue, NEW anchor,
                       Unshield(note, pubValue, change, to, anchor)
                PROVE  NotDiluted(a)
    BY <1>5 DEF UnshieldCalls
  <2>. DEFINE asset == note.asset
              paid == Payout(asset, pubValue)
              held == balance[asset][Pool]
              owed == supply[asset]
  <2>1. /\ asset \in Assets /\ pubValue \in Nat /\ pubValue <= owed
        /\ supply' = [supply EXCEPT ![asset] = @ - pubValue]
        /\ balance' = Paid(asset, Pool, to, paid)
    BY NoteFields, ValueAssumption DEF Unshield, UnshieldAccepted, Debited
  <2>2. paid \in Nat /\ paid <= held /\ paid <= pubValue
    BY <2>1, PayoutBounds
  <2>3. /\ \A x \in Assets \ {asset} : balance'[x] = balance[x]
        /\ balance'[asset][Pool] = held - paid + (IF to = Pool THEN paid ELSE 0)
        /\ supply'[asset] = owed - pubValue
        /\ held \in Nat /\ owed \in Nat
    BY <1>0, <2>1, <2>2, PaidEffect
  <2>4. CASE a # asset
    BY <1>0, <1>1, <2>1, <2>3, <2>4
  <2>5. CASE a = asset /\ held >= owed
    <3>1. paid = pubValue
      BY <2>5 DEF Payout
    <3>. QED
      BY <2>1, <2>2, <2>3, <2>5, <3>1 DEF NotDiluted
  <2>6. CASE a = asset /\ held < owed
    <3>1. paid * owed <= pubValue * held
      <4>1. paid = (pubValue * held) \div owed
        BY <2>3, <2>6 DEF Payout
      <4>. QED
        BY <2>1, <2>3, <2>6, <4>1, ProRata
    <3>2. (held - paid) * owed >= held * (owed - pubValue)
      BY <2>1, <2>2, <2>3, <3>1, PayoutDoesNotDilute
    <3>3. CASE to # Pool
      <4>1. balance'[asset][Pool] = held - paid
        BY <2>2, <2>3, <3>3
      <4>. QED
        BY <2>3, <2>6, <3>2, <4>1 DEF NotDiluted
    <3>4. CASE to = Pool
      <4>1. balance'[asset][Pool] = held
        BY <2>2, <2>3, <3>4
      <4>2. held * owed >= held * (owed - pubValue)
        BY <2>1, <2>3
      <4>. QED
        BY <2>3, <2>6, <4>1, <4>2 DEF NotDiluted
    <3>. QED
      BY <3>3, <3>4
  <2>. QED
    BY <2>3, <2>4, <2>5, <2>6
<1>6. CASE AdminStep
  BY <1>1, <1>6 DEF AdminStep, poolVars
<1>7. CASE AssetStep
  <2>1. ASSUME NEW asset \in Assets, NEW amount \in 1..balance[asset][Pool],
               Clawback(asset, amount)
        PROVE  NotDiluted(a)
    <3>1. /\ amount \in Nat /\ amount > 0
          /\ clawed' = [clawed EXCEPT ![asset] = @ + amount]
          /\ balance' = [balance EXCEPT ![asset][Pool] = @ - amount]
          /\ UNCHANGED supply
      BY <1>0, <2>1 DEF Clawback, poolVars
    <3>2. a # asset
      <4>1. clawed[asset] \in Nat /\ clawed'[asset] = clawed[asset] + amount
        BY <1>0, <3>1
      <4>. QED
        BY <3>1, <4>1
    <3>. QED
      BY <1>0, <1>1, <3>1, <3>2
  <2>2. ASSUME NEW asset \in Assets, NEW from \in Accounts, NEW amount \in 1..balance[asset][from],
               Donate(asset, from, amount)
        PROVE  NotDiluted(a)
    <3>1. /\ amount \in Nat /\ amount <= balance[asset][from] /\ from \in Holders /\ from # Pool
          /\ balance' = Paid(asset, from, Pool, amount)
          /\ UNCHANGED supply
      BY <1>0, <2>2 DEF Donate, poolVars, BalanceType
    <3>2. /\ \A x \in Assets \ {asset} : balance'[x] = balance[x]
          /\ balance'[asset][Pool] = balance[asset][Pool] + amount
      BY <1>0, <3>1, PaidEffect
    <3>3. CASE a = asset
      <4>1. (balance[a][Pool] + amount) * supply[a] >= balance[a][Pool] * supply[a]
        BY <1>0, <3>1
      <4>. QED
        BY <3>1, <3>2, <3>3, <4>1 DEF NotDiluted
    <3>4. CASE a # asset
      BY <1>1, <3>1, <3>2, <3>4
    <3>. QED
      BY <3>3, <3>4
  <2>. QED
    BY <1>7, <2>1, <2>2 DEF AssetStep
<1>. QED
  BY <1>3, <1>4, <1>5, <1>6, <1>7, Calls

\* Whatever is called, other than a clawback by the issuer, no holder of notes ends
\* up with less backing than before: the pro rata payout, rounded down, and the
\* refusal of fees during a shortfall protect those who stay.
THEOREM NothingElseDilutes == Spec => OnlyClawbackDilutes
<1>1. Books /\ [Next]_vars =>
        [\A asset \in Assets :
           clawed'[asset] = clawed[asset] =>
             \/ balance'[asset][Pool] >= supply'[asset]
             \/ balance'[asset][Pool] * supply[asset] >= balance[asset][Pool] * supply'[asset]]_vars
  BY DilutionStep DEF NotDiluted
<1>. QED
  BY <1>1, BooksInvariant, PTL DEF Spec, OnlyClawbackDilutes

---------------------------------------------------------------------------
(* The switches. *)

\* A call of the pool that succeeds moves the supply of an asset up only while
\* the asset is approved, and none succeeds while the contract is paused.
LEMMA SwitchStep ==
  ASSUME Books, Next
  PROVE  /\ paused => UNCHANGED poolVars
         /\ \A asset \in Assets \ approved : supply'[asset] <= supply[asset]
<1>0. supply \in [Assets -> Nat]
  BY BooksAre
<1>1. ASSUME supply' = supply
      PROVE  \A asset \in Assets \ approved : supply'[asset] <= supply[asset]
  BY <1>0, <1>1
<1>2. ASSUME NEW credited \in Assets \cap approved, NEW amount \in Nat,
             supply' = [supply EXCEPT ![credited] = @ + amount]
      PROVE  \A asset \in Assets \ approved : supply'[asset] <= supply[asset]
  BY <1>0, <1>2
<1>3. ASSUME NEW debited \in Assets, NEW amount \in Nat,
             supply' = [supply EXCEPT ![debited] = @ - amount]
      PROVE  \A asset \in Assets \ approved : supply'[asset] <= supply[asset]
  BY <1>0, <1>3
<1>4. CASE ShieldCalls
  <2>1. ASSUME NEW from \in Accounts, NEW note \in Note, Shield(from, note)
        PROVE  ~paused /\ \A asset \in Assets \ approved : supply'[asset] <= supply[asset]
    <3>1. /\ ~paused /\ note.asset \in Assets \cap approved /\ note.value \in Nat
          /\ supply' = [supply EXCEPT ![note.asset] = @ + note.value]
      BY <2>1, NoteFields DEF Shield, TakeNote, Credited
    <3>. QED
      BY <1>2, <3>1
  <2>2. ASSUME NEW from \in Accounts, NEW asset \in Assets, NEW n \in BatchSizes,
               NEW items \in [1..n -> Note], ShieldBatch(from, asset, items)
        PROVE  ~paused /\ \A a \in Assets \ approved : supply'[a] <= supply[a]
    <3>1. /\ ~paused /\ asset \in Assets \cap approved
          /\ supply' = [supply EXCEPT ![asset] = @ + ValueOf(items)]
      BY <2>2 DEF ShieldBatch, BatchAccepted, Credited
    <3>2. ValueOf(items) \in Nat
      <4>1. n \in Nat /\ DOMAIN items = 1..n
        BY TokenAssumption, LogAssumption DEF BatchSizes
      <4>. QED
        BY <2>2, <4>1, BatchItems, SequenceWorth
    <3>. QED
      BY <1>2, <3>1, <3>2
  <2>. QED
    BY <1>4, <2>1, <2>2 DEF ShieldCalls
<1>5. CASE TransferCalls
  <2>1. PICK n \in TransferArities, asset \in Assets, fee \in 0..MaxValue :
          \E ins, outs \in [1..n -> Note], relayer \in Accounts \cup {None}, anchor \in KnownRoots :
            Transfer(ins, outs, fee, asset, relayer, anchor)
    BY <1>5 DEF TransferCalls
  <2>2. ~paused /\ supply' = [supply EXCEPT ![asset] = @ - fee]
    BY <2>1 DEF Transfer, TransferAccepted, Debited
  <2>3. fee \in Nat
    BY ValueAssumption
  <2>. QED
    BY <1>3, <2>2, <2>3
<1>6. CASE UnshieldCalls
  <2>1. PICK note \in Note, pubValue \in 1..MaxValue :
          ~paused /\ supply' = [supply EXCEPT ![note.asset] = @ - pubValue]
    BY <1>6 DEF UnshieldCalls, Unshield, UnshieldAccepted, Debited
  <2>2. note.asset \in Assets /\ pubValue \in Nat
    BY NoteFields, ValueAssumption
  <2>. QED
    BY <1>3, <2>1, <2>2
<1>7. CASE AdminStep \/ AssetStep
  <2>1. UNCHANGED poolVars
    BY <1>7 DEF AdminStep, AssetStep, Clawback, Donate
  <2>. QED
    BY <1>1, <2>1 DEF poolVars
<1>. QED
  BY <1>4, <1>5, <1>6, <1>7, Calls

\* The pause switch stops every movement of notes, nullifiers and supply, and a
\* revoked asset takes no deposit, in each of the handlers.
THEOREM TheSwitchesHold == Spec => SwitchesHold
<1>1. Books /\ [Next]_vars =>
        [/\ paused => UNCHANGED poolVars
         /\ \A asset \in Assets \ approved : supply'[asset] <= supply[asset]]_vars
  BY SwitchStep
<1>. QED
  BY <1>1, BooksInvariant, PTL DEF Spec, SwitchesHold

---------------------------------------------------------------------------
(* How a proof ages. *)

\* The window ends with the current root. The calls of the pool need it: a call
\* may only forget the current root because it is the newest of the window.
WindowIsCurrent ==
  IF history = << >> THEN leaves = << >> ELSE history[Len(history)] = CurrentRoot

\* An inserting call adds its root at the end of the window.
LEMMA WindowAfterInsert ==
  ASSUME Books, NEW n \in Nat, NEW notes \in [1..n -> Note], InsertMany(notes)
  PROVE  /\ Len(history) \in Nat
         /\ CurrentRoot' = CurrentRoot + n /\ CurrentRoot' \in Nat
         /\ \/ /\ Len(history) < RootHistorySize
               /\ Len(history') = Len(history) + 1
               /\ \A i \in 1..Len(history) : history'[i] = history[i]
            \/ /\ Len(history) = RootHistorySize
               /\ Len(history') = Len(history)
               /\ \A i \in 2..Len(history) : history'[i - 1] = history[i]
         /\ history'[Len(history')] = CurrentRoot'
<1>. DEFINE S == 1..MaxLeaves
            root == Len(leaves) + n
            pushed == Append(history, root)
<1>1. notes \in Seq(Note) /\ Len(notes) = n
  BY FunctionIsSequence
<1>2. leaves \in Seq(Note) /\ Len(leaves) \in Nat /\ history \in Seq(S)
      /\ Len(history) \in Nat /\ Len(history) <= RootHistorySize
      /\ RootHistorySize \in Nat \ {0}
  BY LenProperties, LogAssumption DEF Books, TypeOK
<1>3. root \in S /\ root \in Nat
  BY <1>1, <1>2, LogAssumption DEF InsertMany, HasCapacity
<1>4. leaves' = leaves \o notes /\ history' = IF Len(pushed) > RootHistorySize THEN Tail(pushed) ELSE pushed
  BY <1>1 DEF InsertMany, PushRoot
<1>5. CurrentRoot' = root
  BY <1>1, <1>2, <1>4, ConcatProperties DEF CurrentRoot
<1>. HIDE DEF S, root
<1>6. /\ pushed \in Seq(S) /\ pushed # << >> /\ Len(pushed) = Len(history) + 1
      /\ pushed[Len(history) + 1] = root
      /\ \A i \in 1..Len(history) : pushed[i] = history[i]
  BY <1>2, <1>3, AppendProperties
<1>. HIDE DEF pushed
<1>7. /\ Len(Tail(pushed)) = Len(history)
      /\ \A i \in 1..Len(history) : Tail(pushed)[i] = pushed[i + 1]
  BY <1>2, <1>6, HeadTailProperties
<1>8. CASE Len(pushed) > RootHistorySize
  <2>1. history' = Tail(pushed) /\ Len(history) = RootHistorySize /\ Len(history') = Len(history)
    BY <1>2, <1>4, <1>6, <1>7, <1>8
  <2>2. \A i \in 2..Len(history) : history'[i - 1] = history[i]
    BY <1>2, <1>6, <1>7, <2>1
  <2>3. history'[Len(history')] = root
    BY <1>2, <1>6, <1>7, <2>1
  <2>. QED
    BY <1>2, <1>3, <1>5, <2>1, <2>2, <2>3 DEF CurrentRoot, root
<1>9. CASE ~(Len(pushed) > RootHistorySize)
  <2>1. history' = pushed /\ Len(history) < RootHistorySize /\ Len(history') = Len(history) + 1
    BY <1>2, <1>4, <1>6, <1>9
  <2>. QED
    BY <1>2, <1>3, <1>5, <1>6, <2>1 DEF CurrentRoot, root
<1>. QED
  BY <1>8, <1>9

\* The calls of the pool that change the tree insert one batch of notes.
LEMMA OneInsert ==
  ASSUME Books, [Next]_vars
  PROVE  \/ UNCHANGED <<leaves, history>>
         \/ \E n \in Nat : \E notes \in [1..n -> Note] : InsertMany(notes)
<1>1. CASE ShieldCalls
  <2>1. ASSUME NEW from \in Accounts, NEW note \in Note, Shield(from, note)
        PROVE  \E n \in Nat : \E notes \in [1..n -> Note] : InsertMany(notes)
    BY <2>1, OneNote DEF Shield, TakeNote
  <2>2. ASSUME NEW from \in Accounts, NEW asset \in Assets, NEW n \in BatchSizes,
               NEW items \in [1..n -> Note], ShieldBatch(from, asset, items)
        PROVE  n \in Nat /\ InsertMany(items)
    BY <2>2, TokenAssumption, LogAssumption DEF ShieldBatch, BatchSizes
  <2>. QED
    BY <1>1, <2>1, <2>2 DEF ShieldCalls
<1>2. CASE TransferCalls
  <2>1. PICK n \in TransferArities : \E outs \in [1..n -> Note] : InsertMany(outs)
    BY <1>2 DEF TransferCalls, Transfer
  <2>. QED
    BY <2>1, TokenAssumption, LogAssumption
<1>3. CASE UnshieldCalls
  <2>1. PICK change \in Note : InsertMany(<<change>>)
    BY <1>3 DEF UnshieldCalls, Unshield
  <2>. QED
    BY <2>1, OneNote
<1>4. CASE AdminStep \/ AssetStep \/ UNCHANGED vars
  BY <1>4 DEF AdminStep, AssetStep, Clawback, Donate, vars, poolVars
<1>. QED
  BY <1>1, <1>2, <1>3, <1>4, Calls

LEMMA WindowStep ==
  ASSUME Books, WindowIsCurrent, [Next]_vars
  PROVE  WindowIsCurrent'
<1>1. CASE UNCHANGED <<leaves, history>>
  BY <1>1 DEF WindowIsCurrent, CurrentRoot
<1>2. ASSUME NEW n \in Nat, NEW notes \in [1..n -> Note], InsertMany(notes)
      PROVE  WindowIsCurrent'
  <2>1. history'[Len(history')] = CurrentRoot' /\ Len(history') > 0
    BY <1>2, WindowAfterInsert, LogAssumption
  <2>2. history' # << >>
    BY <2>1
  <2>. QED
    BY <2>1, <2>2 DEF WindowIsCurrent
<1>. QED
  BY <1>1, <1>2, OneInsert

LEMMA AnchorStep ==
  ASSUME Books, WindowIsCurrent, Next, NEW root \in KnownRoots \ KnownRoots'
  PROVE  root = 0 \/ (root = history[1] /\ Len(history) = RootHistorySize)
<1>0. Len(history) \in Nat /\ DOMAIN history = 1..Len(history) /\ DOMAIN history' = 1..Len(history')
      /\ Len(history') \in Nat
  BY BooksStep, LenProperties DEF Books, TypeOK
<1>1. CASE UNCHANGED <<leaves, history>>
  BY <1>1 DEF KnownRoots, CurrentRoot
<1>2. ASSUME NEW n \in Nat, NEW notes \in [1..n -> Note], InsertMany(notes)
      PROVE  root = 0 \/ (root = history[1] /\ Len(history) = RootHistorySize)
  <2>1. CASE history = << >>
    <3>1. root = CurrentRoot /\ leaves = << >>
      BY <1>0, <2>1 DEF KnownRoots, WindowIsCurrent
    <3>2. Len(<< >>) = 0
      BY EmptySeq
    <3>. QED
      BY <3>1, <3>2 DEF CurrentRoot
  <2>2. CASE history # << >>
    <3>1. Len(history) >= 1 /\ history[Len(history)] = CurrentRoot
      <4>1. history \in Seq(1..MaxLeaves)
        BY DEF Books, TypeOK
      <4>. QED
        BY <2>2, <4>1, EmptySeq, <1>0 DEF WindowIsCurrent
    <3>2. PICK i \in 1..Len(history) : history[i] = root
      BY <1>0, <3>1 DEF KnownRoots
    <3>3. \A j \in 1..Len(history') : history'[j] # root
      BY <1>0 DEF KnownRoots
    <3>4. \/ /\ Len(history) < RootHistorySize
             /\ Len(history') = Len(history) + 1
             /\ \A k \in 1..Len(history) : history'[k] = history[k]
          \/ /\ Len(history) = RootHistorySize
             /\ Len(history') = Len(history)
             /\ \A k \in 2..Len(history) : history'[k - 1] = history[k]
      BY <1>2, WindowAfterInsert
    <3>5. CASE /\ Len(history') = Len(history) + 1
               /\ \A k \in 1..Len(history) : history'[k] = history[k]
      <4>1. i \in 1..Len(history') /\ history'[i] = root
        BY <1>0, <3>2, <3>5
      <4>. QED
        BY <3>3, <4>1
    <3>6. CASE /\ Len(history) = RootHistorySize
               /\ Len(history') = Len(history)
               /\ \A k \in 2..Len(history) : history'[k - 1] = history[k]
      <4>1. CASE i = 1
        BY <3>2, <3>6, <4>1
      <4>2. CASE i \in 2..Len(history)
        <5>1. i - 1 \in 1..Len(history') /\ history'[i - 1] = root
          BY <1>0, <3>2, <3>6, <4>2
        <5>. QED
          BY <3>3, <5>1
      <4>. QED
        BY <1>0, <4>1, <4>2
    <3>. QED
      BY <3>4, <3>5, <3>6
  <2>. QED
    BY <2>1, <2>2
<1>. QED
  BY <1>1, <1>2, OneInsert

\* A call makes at most one root unknown, the oldest of a full window: a proof made
\* against any root stays acceptable for RootHistorySize inserting calls, however
\* large their batches are.
THEOREM RootsAgeByCalls == Spec => AnchorsAgeSlowly
<1>1. Init => WindowIsCurrent
  BY DEF Init, LogInit, WindowIsCurrent
<1>2. Books /\ WindowIsCurrent /\ [Next]_vars => WindowIsCurrent'
  BY WindowStep
<1>3. Books /\ WindowIsCurrent /\ [Next]_vars =>
        [\A root \in KnownRoots \ KnownRoots' :
           \/ root = 0
           \/ root = history[1] /\ Len(history) = RootHistorySize]_vars
  BY AnchorStep
<1>. QED
  BY <1>1, <1>2, <1>3, BooksInvariant, PTL DEF Spec, AnchorsAgeSlowly

---------------------------------------------------------------------------
(* Every successful call of the pool, seen as an exchange of notes: live notes *)
(* of one asset are spent, new notes of the asset are created, and the supply   *)
(* changes by what they are worth and what is paid in or out.                   *)

Exchanges(asset, spent, created) ==
  /\ spent \subseteq LiveNotesOf(asset)
  /\ IsFiniteSet(created) /\ created \cap seen = {}
  /\ \A note \in created : note.asset = asset
  /\ seen' = seen \cup created
  /\ nullifiers' = nullifiers \cup {Nullifier(note) : note \in spent}

LEMMA ShieldExchanges ==
  ASSUME Books, NEW from \in Accounts, NEW note \in Note, Shield(from, note)
  PROVE  /\ Exchanges(note.asset, {}, {note})
         /\ supply' = [supply EXCEPT ![note.asset] = @ + Worth({note})]
<1>1. /\ seen' = seen \cup {note} /\ UNCHANGED nullifiers /\ note \notin seen
      /\ supply' = [supply EXCEPT ![note.asset] = @ + note.value]
  BY DEF Shield, TakeNote, Credited
<1>2. IsFiniteSet({note}) /\ Worth({note}) = note.value
  BY NoteFields, WorthOne
<1>. QED
  BY <1>1, <1>2 DEF Exchanges

LEMMA ShieldBatchExchanges ==
  ASSUME Books, NEW from \in Accounts, NEW asset \in Assets, NEW n \in BatchSizes,
         NEW items \in [1..n -> Note], ShieldBatch(from, asset, items)
  PROVE  /\ Exchanges(asset, {}, Range(items))
         /\ supply' = [supply EXCEPT ![asset] = @ + Worth(Range(items))]
<1>1. n \in Nat /\ DOMAIN items = 1..n
  BY TokenAssumption, LogAssumption DEF BatchSizes
<1>2. /\ seen' = seen \cup Range(items) /\ UNCHANGED nullifiers
      /\ supply' = [supply EXCEPT ![asset] = @ + ValueOf(items)]
  BY DEF ShieldBatch, BatchAccepted, Credited
<1>3. \A note \in Range(items) : note.asset = asset
  BY DEF ShieldBatch, BatchAccepted, Range
<1>4. Range(items) \cap seen = {} /\ IsInjective(items)
  BY BatchItems
<1>5. IsFiniteSet(Range(items)) /\ ValueOf(items) = Worth(Range(items))
  BY <1>1, <1>4, SequenceWorth
<1>6. {} \subseteq LiveNotesOf(asset) /\ {Nullifier(note) : note \in {}} = {}
  OBVIOUS
<1>. QED
  BY <1>2, <1>3, <1>4, <1>5, <1>6 DEF Exchanges

LEMMA TransferExchanges ==
  ASSUME Books, NEW n \in TransferArities, NEW asset \in Assets, NEW fee \in 0..MaxValue,
         NEW ins \in [1..n -> Note], NEW outs \in [1..n -> Note], NEW relayer, NEW anchor,
         Transfer(ins, outs, fee, asset, relayer, anchor)
  PROVE  /\ Exchanges(asset, Range(ins), Range(outs))
         /\ supply' = [supply EXCEPT ![asset] = @ - fee]
         /\ Worth(Range(ins)) = Worth(Range(outs)) + fee
<1>1. /\ Range(ins) \subseteq LiveNotesOf(asset)
      /\ \A note \in Range(outs) : note.asset = asset
      /\ IsFiniteSet(Range(outs))
      /\ Worth(Range(ins)) = Worth(Range(outs)) + fee
      /\ nullifiers' = nullifiers \cup {Nullifier(note) : note \in Range(ins)}
  BY TransferInputs
<1>2. /\ seen' = seen \cup Range(outs) /\ FreshCommitments(outs)
      /\ supply' = [supply EXCEPT ![asset] = @ - fee]
  BY DEF Transfer, TransferAccepted, Debited
<1>3. Range(outs) \cap seen = {}
  BY <1>2 DEF FreshCommitments, Range
<1>. QED
  BY <1>1, <1>2, <1>3 DEF Exchanges

LEMMA UnshieldExchanges ==
  ASSUME Books, NEW note \in Note, NEW change \in Note, NEW to \in Holders,
         NEW pubValue \in 1..MaxValue, NEW anchor, Unshield(note, pubValue, change, to, anchor)
  PROVE  /\ Exchanges(note.asset, {note}, {change})
         /\ supply' = [supply EXCEPT ![note.asset] = @ - pubValue]
<1>1. /\ InTree(note, anchor) /\ change.asset = note.asset
      /\ Nullifier(note) \notin nullifiers /\ change \notin seen
      /\ nullifiers' = nullifiers \cup {Nullifier(note)}
      /\ seen' = seen \cup {change}
      /\ supply' = [supply EXCEPT ![note.asset] = @ - pubValue]
  BY DEF Unshield, UnshieldAccepted, UnshieldCircuit, Debited
<1>2. note \in LiveNotesOf(note.asset)
  <2>1. PICK k \in 1..anchor : k <= Len(leaves) /\ leaves[k] = note
    BY <1>1 DEF InTree
  <2>2. k \in DOMAIN leaves
    BY <2>1, LenProperties DEF Books, TypeOK
  <2>. QED
    BY <1>1, <2>1, <2>2 DEF LiveNotesOf, LiveNotes, Range
<1>3. IsFiniteSet({change})
  BY FS_Singleton, Zenon
<1>4. {Nullifier(x) : x \in {note}} = {Nullifier(note)}
  OBVIOUS
<1>. QED
  BY <1>1, <1>2, <1>3, <1>4 DEF Exchanges

---------------------------------------------------------------------------
(* The books are exact. *)

\* Every recorded nullifier is that of a note in the tree. The exactness of the
\* books needs it: a nullifier from elsewhere would kill a note at its creation.
SpentAreSeen == nullifiers \subseteq {Nullifier(note) : note \in seen}

Distinct == \A x, y \in seen : Nullifier(x) = Nullifier(y) => x = y

\* As no commitment is two leaves, the leaves have nullifiers of their own exactly
\* when the commitments have.
LEMMA DistinctNullifiers ==
  ASSUME NEW list, IsInjective(list)
  PROVE  IsInjective([i \in DOMAIN list |-> Nullifier(list[i])]) <=>
           \A x, y \in Range(list) : Nullifier(x) = Nullifier(y) => x = y
<1>. DEFINE own == [i \in DOMAIN list |-> Nullifier(list[i])]
            distinct == \A x, y \in Range(list) : Nullifier(x) = Nullifier(y) => x = y
<1>1. IsInjective(own) <=> \A i, j \in DOMAIN list : own[i] = own[j] => i = j
  BY DEF IsInjective
<1>2. \A i, j \in DOMAIN list : list[i] = list[j] => i = j
  BY DEF IsInjective
<1>3. IsInjective(own) => distinct
  BY <1>1 DEF Range
<1>4. distinct => IsInjective(own)
  BY <1>1, <1>2 DEF Range
<1>. QED
  BY <1>3, <1>4

\* An exchange keeps the recorded nullifiers within the tree, and as long as
\* nullifiers are distinct it changes the live notes by exactly what it spends and
\* creates.
LEMMA ExactExchange ==
  ASSUME Books, Books', SpentAreSeen,
         NEW asset \in Assets, NEW spent, NEW created, Exchanges(asset, spent, created)
  PROVE  /\ SpentAreSeen'
         /\ Distinct' =>
              /\ Distinct
              /\ LiveNotesOf(asset)' = (LiveNotesOf(asset) \ spent) \cup created
              /\ \A a \in Assets \ {asset} : LiveNotesOf(a)' = LiveNotesOf(a)
<1>1. seen = Range(leaves) /\ seen' = Range(leaves')
  BY DEF Books, SeenMatchesTree
<1>2. /\ spent \subseteq LiveNotesOf(asset) /\ spent \subseteq seen
      /\ created \cap seen = {} /\ seen' = seen \cup created
      /\ \A note \in created : note.asset = asset
      /\ \A note \in spent : note.asset = asset
      /\ nullifiers' = nullifiers \cup {Nullifier(note) : note \in spent}
  BY LiveFinite DEF Exchanges, LiveNotesOf
<1>3. SpentAreSeen'
  BY <1>2 DEF SpentAreSeen
<1>4. ASSUME Distinct', NEW note \in seen', note \notin spent
      PROVE  Nullifier(note) \in nullifiers' <=> Nullifier(note) \in nullifiers
  BY <1>2, <1>4 DEF Distinct
<1>5. ASSUME Distinct', NEW note \in created
      PROVE  Nullifier(note) \notin nullifiers'
  <2>1. note \notin seen /\ note \in seen' /\ seen \subseteq seen'
    BY <1>2
  <2>2. \A y \in seen : Nullifier(y) # Nullifier(note)
    BY <1>5, <2>1 DEF Distinct
  <2>3. \A y \in spent : y \in seen
    BY <1>2
  <2>. QED
    BY <1>2, <2>2, <2>3 DEF SpentAreSeen
<1>6. \A a : \A note : note \in LiveNotesOf(a) <=>
                       note \in seen /\ Nullifier(note) \notin nullifiers /\ note.asset = a
  BY <1>1 DEF LiveNotesOf, LiveNotes
<1>7. \A a : \A note : note \in LiveNotesOf(a)' <=>
                       note \in seen' /\ Nullifier(note) \notin nullifiers' /\ note.asset = a
  BY <1>1 DEF LiveNotesOf, LiveNotes
<1>8. ASSUME NEW note \in spent PROVE Nullifier(note) \in nullifiers'
  BY <1>2
<1>9. ASSUME Distinct'
      PROVE  /\ Distinct
             /\ LiveNotesOf(asset)' = (LiveNotesOf(asset) \ spent) \cup created
             /\ \A a \in Assets \ {asset} : LiveNotesOf(a)' = LiveNotesOf(a)
  <2>1. Distinct
    BY <1>2, <1>9 DEF Distinct
  <2>2. ASSUME NEW note
        PROVE  note \in LiveNotesOf(asset)' <=> note \in (LiveNotesOf(asset) \ spent) \cup created
    <3>1. CASE note \in spent
      BY <1>2, <1>7, <1>8, <3>1
    <3>2. CASE note \in created
      BY <1>2, <1>5, <1>7, <1>9, <3>2
    <3>3. CASE note \in seen /\ note \notin spent
      BY <1>2, <1>4, <1>6, <1>7, <1>9, <3>3
    <3>4. CASE note \notin seen'
      BY <1>2, <1>6, <1>7, <3>4
    <3>. QED
      BY <1>2, <3>1, <3>2, <3>3, <3>4
  <2>3. ASSUME NEW a \in Assets \ {asset}, NEW note
        PROVE  note \in LiveNotesOf(a)' <=> note \in LiveNotesOf(a)
    <3>1. CASE note \in seen /\ note \notin spent
      BY <1>2, <1>4, <1>6, <1>7, <1>9, <3>1
    <3>2. CASE note \in spent \/ note \in created
      BY <1>2, <1>6, <1>7, <3>2
    <3>3. CASE note \notin seen'
      BY <1>2, <1>6, <1>7, <3>3
    <3>. QED
      BY <1>2, <3>1, <3>2, <3>3
  <2>4. LiveNotesOf(asset)' = (LiveNotesOf(asset) \ spent) \cup created
    BY <2>2
  <2>5. \A a \in Assets \ {asset} : LiveNotesOf(a)' = LiveNotesOf(a)
    BY <2>3
  <2>. QED
    BY <2>1, <2>4, <2>5
<1>. QED
  BY <1>3, <1>9

LEMMA ExactBooks ==
  ASSUME Books, Books', SpentAreSeen, NoValueLost,
         NEW asset \in Assets, NEW spent, NEW created, Exchanges(asset, spent, created),
         supply'[asset] = supply[asset] - Worth(spent) + Worth(created),
         \A a \in Assets \ {asset} : supply'[a] = supply[a]
  PROVE  SpentAreSeen' /\ NoValueLost'
<1>1. SpentAreSeen'
  BY ExactExchange
<1>2. /\ IsInjective([i \in DOMAIN leaves |-> Nullifier(leaves[i])]) <=> Distinct
      /\ IsInjective([i \in DOMAIN leaves' |-> Nullifier(leaves'[i])]) <=> Distinct'
  BY DistinctNullifiers DEF Books, SeenMatchesTree, Distinct
<1>3. ASSUME Distinct', NEW a \in Assets
      PROVE  LiveValue(a)' = supply'[a]
  <2>1. Distinct
    BY <1>3, ExactExchange
  <2>2. /\ LiveNotesOf(asset)' = (LiveNotesOf(asset) \ spent) \cup created
        /\ \A x \in Assets \ {asset} : LiveNotesOf(x)' = LiveNotesOf(x)
    BY <1>3, ExactExchange
  <2>3. \A x \in Assets : LiveValue(x) = supply[x]
    BY <1>2, <2>1 DEF NoValueLost
  <2>4. CASE a # asset
    BY <2>2, <2>3, <2>4 DEF LiveValue
  <2>5. CASE a = asset
    <3>. DEFINE old == LiveNotesOf(asset)
                rest == old \ spent
    <3>1. IsFiniteSet(old) /\ Worth(old) = supply[asset] /\ Worth(old) \in Nat
      BY <2>3, LiveFinite DEF LiveValue
    <3>2. spent \subseteq old /\ IsFiniteSet(created) /\ old \cap created = {}
      BY LiveFinite DEF Exchanges
    <3>. HIDE DEF old
    <3>3. IsFiniteSet(rest) /\ Worth(rest) = Worth(old) - Worth(spent)
      BY <3>1, <3>2, WorthWithout
    <3>4. rest \cap created = {}
      BY <3>2
    <3>5. Worth(rest \cup created) = Worth(rest) + Worth(created)
      BY <3>2, <3>3, <3>4, WorthUnion
    <3>6. LiveValue(asset)' = Worth(rest \cup created)
      BY <2>2 DEF LiveValue, old
    <3>. QED
      BY <2>5, <3>1, <3>3, <3>5, <3>6
  <2>. QED
    BY <2>4, <2>5
<1>. QED
  BY <1>1, <1>2, <1>3 DEF NoValueLost

LEMMA NoValueLostStep ==
  ASSUME Books, Books', SpentAreSeen, NoValueLost, [Next]_vars
  PROVE  SpentAreSeen' /\ NoValueLost'
<1>0. supply \in [Assets -> Nat] /\ Worth({}) = 0
  <2>1. Units({}) = {}
    BY DEF Units
  <2>. QED
    BY <2>1, BooksAre, FS_EmptySet DEF Worth
<1>1. ASSUME NEW from \in Accounts, NEW note \in Note, Shield(from, note)
      PROVE  SpentAreSeen' /\ NoValueLost'
  <2>1. /\ Exchanges(note.asset, {}, {note})
        /\ supply' = [supply EXCEPT ![note.asset] = @ + Worth({note})]
    BY <1>1, ShieldExchanges
  <2>2. note.asset \in Assets /\ Worth({note}) \in Nat
    BY NoteFields, WorthOne
  <2>3. /\ supply'[note.asset] = supply[note.asset] - Worth({}) + Worth({note})
        /\ \A a \in Assets \ {note.asset} : supply'[a] = supply[a]
    BY <1>0, <2>1, <2>2
  <2>. QED
    BY <2>1, <2>2, <2>3, ExactBooks
<1>2. ASSUME NEW from \in Accounts, NEW asset \in Assets, NEW n \in BatchSizes,
             NEW items \in [1..n -> Note], ShieldBatch(from, asset, items)
      PROVE  SpentAreSeen' /\ NoValueLost'
  <2>1. /\ Exchanges(asset, {}, Range(items))
        /\ supply' = [supply EXCEPT ![asset] = @ + Worth(Range(items))]
    BY <1>2, ShieldBatchExchanges
  <2>2. Worth(Range(items)) \in Nat
    BY <2>1, UnitsFinite DEF Exchanges
  <2>3. /\ supply'[asset] = supply[asset] - Worth({}) + Worth(Range(items))
        /\ \A a \in Assets \ {asset} : supply'[a] = supply[a]
    BY <1>0, <2>1, <2>2
  <2>. QED
    BY <2>1, <2>3, ExactBooks
<1>3. ASSUME NEW n \in TransferArities, NEW ins \in [1..n -> Note], NEW outs \in [1..n -> Note],
             NEW fee \in 0..MaxValue, NEW asset \in Assets, NEW relayer, NEW anchor,
             Transfer(ins, outs, fee, asset, relayer, anchor)
      PROVE  SpentAreSeen' /\ NoValueLost'
  <2>1. /\ Exchanges(asset, Range(ins), Range(outs))
        /\ supply' = [supply EXCEPT ![asset] = @ - fee]
        /\ Worth(Range(ins)) = Worth(Range(outs)) + fee
    BY <1>3, TransferExchanges
  <2>2. fee \in Nat /\ Worth(Range(outs)) \in Nat
    BY <2>1, UnitsFinite, ValueAssumption DEF Exchanges
  <2>3. /\ supply'[asset] = supply[asset] - Worth(Range(ins)) + Worth(Range(outs))
        /\ \A a \in Assets \ {asset} : supply'[a] = supply[a]
    BY <1>0, <2>1, <2>2
  <2>. QED
    BY <2>1, <2>3, ExactBooks
<1>4. ASSUME NEW note \in Note, NEW change \in Note, NEW to \in Holders,
             NEW pubValue \in 1..MaxValue, NEW anchor, Unshield(note, pubValue, change, to, anchor)
      PROVE  SpentAreSeen' /\ NoValueLost'
  <2>0. /\ note.value \in Nat /\ change.value \in Nat /\ pubValue \in Nat
        /\ change.value = note.value - pubValue
    BY <1>4, NoteFields, ValueAssumption DEF Unshield, UnshieldAccepted, UnshieldCircuit
  <2>1. Exchanges(note.asset, {note}, {change})
    BY <1>4, UnshieldExchanges
  <2>2. supply' = [supply EXCEPT ![note.asset] = @ - pubValue]
    BY <1>4, UnshieldExchanges, Zenon
  <2>3. note.asset \in Assets /\ Worth({note}) = note.value /\ Worth({change}) = change.value
    BY NoteFields, WorthOne
  <2>4. /\ supply'[note.asset] = supply[note.asset] - Worth({note}) + Worth({change})
        /\ \A a \in Assets \ {note.asset} : supply'[a] = supply[a]
    BY <1>0, <2>0, <2>2, <2>3
  <2>. QED
    BY <2>1, <2>3, <2>4, ExactBooks
<1>5. ASSUME UNCHANGED <<leaves, nullifiers, seen, supply>>
      PROVE  SpentAreSeen' /\ NoValueLost'
  BY <1>5 DEF SpentAreSeen, NoValueLost, LiveValue, LiveNotesOf, LiveNotes
<1>6. CASE AdminStep \/ AssetStep \/ UNCHANGED vars
  BY <1>5, <1>6 DEF AdminStep, AssetStep, Clawback, Donate, vars, poolVars
<1>. QED
  BY <1>1, <1>2, <1>3, <1>4, <1>6, Calls DEF ShieldCalls, TransferCalls, UnshieldCalls

LEMMA ExactInitially ==
  ASSUME Init
  PROVE  SpentAreSeen /\ NoValueLost
<1>1. SpentAreSeen
  BY DEF Init, SpentAreSeen
<1>2. ASSUME NEW asset \in Assets PROVE LiveValue(asset) = supply[asset]
  <2>1. LiveNotesOf(asset) = {} /\ Units({}) = {}
    BY DEF Init, LogInit, LiveNotesOf, LiveNotes, Range, Units
  <2>2. LiveValue(asset) = 0
    BY <2>1, FS_EmptySet DEF LiveValue, Worth
  <2>. QED
    BY <2>2 DEF Init
<1>. QED
  BY <1>1, <1>2 DEF NoValueLost

\* As long as wallets draw a rho of its own for every note, the recorded supply is
\* exactly what the notes that can still be spent are worth: value does not get
\* stuck in the pool whatever is deposited, transferred, paid as a fee or withdrawn.
THEOREM NoValueIsLost == Spec => []NoValueLost
<1>1. Init => SpentAreSeen /\ NoValueLost
  BY ExactInitially
<1>2. Books /\ Books' /\ (SpentAreSeen /\ NoValueLost) /\ [Next]_vars
        => (SpentAreSeen /\ NoValueLost)'
  BY NoValueLostStep
<1>. QED
  BY <1>1, <1>2, BooksInvariant, PTL DEF Spec

---------------------------------------------------------------------------
(* The pool implements the ideal one. *)

LEMMA IdealWorth ==
  ASSUME NEW notes
  PROVE  Ideal!Worth(notes) = Worth(notes)
<1>1. Ideal!Units(notes) = Units(notes)
  BY DEF Ideal!Units, Units
<1>2. Ideal!Cardinality(Units(notes)) = Cardinality(Units(notes))
  BY Zenon DEF Ideal!Cardinality, Cardinality
<1>. QED
  BY <1>1, <1>2, Zenon DEF Ideal!Worth, Worth

\* An exchange replaces the notes it spends, which are not live any more, by those
\* it creates.
LEMMA IdealReplace ==
  ASSUME Books, Books', NEW asset \in Assets, NEW spent, NEW created,
         Exchanges(asset, spent, created)
  PROVE  /\ Ideal!Created = created
         /\ Ideal!Replace(spent)
         /\ spent \subseteq LiveNotes \ LiveNotes'
         /\ Ideal!AllOf(asset, spent \cup created)
         /\ Ideal!AllOf(asset, created)
<1>1. /\ spent \subseteq LiveNotes /\ \A note \in spent : note.asset = asset
      /\ created \cap seen = {} /\ seen' = seen \cup created
      /\ \A note \in created : note.asset = asset
      /\ nullifiers' = nullifiers \cup {Nullifier(note) : note \in spent}
  BY DEF Exchanges, LiveNotesOf
<1>2. LiveNotes = {note \in seen : Nullifier(note) \notin nullifiers}
      /\ LiveNotes' = {note \in seen' : Nullifier(note) \notin nullifiers'}
  BY DEF Books, SeenMatchesTree, LiveNotes
<1>3. Ideal!Created = created
  BY <1>1 DEF Ideal!Created
<1>4. spent \cap LiveNotes' = {}
  BY <1>1, <1>2
<1>5. LiveNotes' \subseteq (LiveNotes \ spent) \cup created
  BY <1>1, <1>2, <1>4
<1>6. Ideal!Replace(spent)
  BY <1>1, <1>3, <1>5 DEF Ideal!Replace
<1>7. Ideal!AllOf(asset, spent \cup created) /\ Ideal!AllOf(asset, created)
  BY <1>1 DEF Ideal!AllOf
<1>. QED
  BY <1>1, <1>3, <1>4, <1>6, <1>7

LEMMA IdealStep ==
  ASSUME Books, Books', [Next]_vars
  PROVE  [Ideal!Next]_Ideal!poolVars
<1>0. supply \in [Assets -> Nat]
  BY BooksAre
<1>1. ASSUME NEW from \in Accounts, NEW note \in Note, Shield(from, note)
      PROVE  Ideal!Next
  <2>1. /\ Exchanges(note.asset, {}, {note}) /\ note.asset \in Assets
        /\ supply' = [supply EXCEPT ![note.asset] = @ + Worth({note})]
    BY <1>1, ShieldExchanges, NoteFields
  <2>2. Ideal!Deposit(note.asset)
    BY <2>1, IdealReplace, IdealWorth DEF Ideal!Deposit
  <2>. QED
    BY <2>1, <2>2 DEF Ideal!Next
<1>2. ASSUME NEW from \in Accounts, NEW asset \in Assets, NEW n \in BatchSizes,
             NEW items \in [1..n -> Note], ShieldBatch(from, asset, items)
      PROVE  Ideal!Next
  <2>1. /\ Exchanges(asset, {}, Range(items))
        /\ supply' = [supply EXCEPT ![asset] = @ + Worth(Range(items))]
    BY <1>2, ShieldBatchExchanges
  <2>2. Ideal!Deposit(asset)
    BY <2>1, IdealReplace, IdealWorth DEF Ideal!Deposit
  <2>. QED
    BY <2>2 DEF Ideal!Next
<1>3. ASSUME NEW n \in TransferArities, NEW ins \in [1..n -> Note], NEW outs \in [1..n -> Note],
             NEW fee \in 0..MaxValue, NEW asset \in Assets, NEW relayer, NEW anchor,
             Transfer(ins, outs, fee, asset, relayer, anchor)
      PROVE  Ideal!Next
  <2>1. /\ Exchanges(asset, Range(ins), Range(outs))
        /\ supply' = [supply EXCEPT ![asset] = @ - fee]
        /\ Worth(Range(ins)) = Worth(Range(outs)) + fee
    BY <1>3, TransferExchanges
  <2>2. fee \in Nat /\ Worth(Range(outs)) \in Nat
    BY <2>1, UnitsFinite, ValueAssumption DEF Exchanges
  <2>3. /\ Worth(Range(outs)) <= Worth(Range(ins))
        /\ fee = Worth(Range(ins)) - Worth(Range(outs))
    BY <2>1, <2>2
  <2>4. Ideal!Exchange(asset, Range(ins))
    BY <2>1, <2>3, IdealReplace, IdealWorth DEF Ideal!Exchange
  <2>5. Range(ins) \in SUBSET (LiveNotes \ LiveNotes')
    BY <2>1, IdealReplace
  <2>. QED
    BY <2>4, <2>5 DEF Ideal!Next
<1>4. ASSUME NEW note \in Note, NEW change \in Note, NEW to \in Holders,
             NEW pubValue \in 1..MaxValue, NEW anchor, Unshield(note, pubValue, change, to, anchor)
      PROVE  Ideal!Next
  <2>0. /\ note.asset \in Assets
        /\ note.value \in Nat /\ change.value \in Nat /\ pubValue \in Nat
        /\ pubValue > 0 /\ change.value = note.value - pubValue
    BY <1>4, NoteFields, ValueAssumption DEF Unshield, UnshieldAccepted, UnshieldCircuit
  <2>1. Exchanges(note.asset, {note}, {change})
    BY <1>4, UnshieldExchanges
  <2>2. supply' = [supply EXCEPT ![note.asset] = @ - pubValue]
    BY <1>4, UnshieldExchanges, Zenon
  <2>3. change.value < note.value /\ pubValue = note.value - change.value
    BY <2>0
  <2>4. /\ Ideal!Created = {change} /\ Ideal!Replace({note})
        /\ {note} \subseteq LiveNotes \ LiveNotes'
        /\ Ideal!AllOf(note.asset, {note} \cup {change})
    BY <2>0, <2>1, IdealReplace
  <2>5. Ideal!Withdraw(note.asset, note)
    BY <2>3, <2>4, <2>2 DEF Ideal!Withdraw
  <2>. QED
    BY <2>0, <2>4, <2>5 DEF Ideal!Next
<1>5. CASE AdminStep \/ AssetStep \/ UNCHANGED vars
  <2>1. UNCHANGED <<leaves, nullifiers, seen, supply>>
    BY <1>5 DEF AdminStep, AssetStep, Clawback, Donate, vars, poolVars
  <2>. QED
    BY <2>1 DEF Ideal!poolVars, LiveNotes
<1>. QED
  BY <1>1, <1>2, <1>3, <1>4, <1>5, Calls DEF ShieldCalls, TransferCalls, UnshieldCalls

\* The contract, with its tree, roots, nullifiers and proofs, implements the ideal
\* pool: notes come and go, each is spent at most once, none comes back, and the
\* vault changes by exactly what they are worth.
THEOREM PoolImplementsIdeal == Spec => IdealSpec
<1>1. Init => Ideal!Init
  BY DEF Init, LogInit, Ideal!Init, LiveNotes, Range
<1>2. Books /\ Books' /\ [Next]_vars => [Ideal!Next]_Ideal!poolVars
  BY IdealStep
<1>. QED
  BY <1>1, <1>2, BooksInvariant, PTL DEF Spec, IdealSpec, Ideal!Spec
=============================================================================
