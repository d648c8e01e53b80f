-------------------------------- MODULE SwapProofs --------------------------------
(***************************************************************************)
(* Proofs about ShieldedSwap.tla: its state is well typed, its one balance *)
(* of an asset covers every open swap, and the books and the solvency of   *)
(* the token survive the composition with it, for every value of the       *)
(* constants.                                                              *)
(***************************************************************************)
EXTENDS ShieldedSwap, ShieldedTokenProofs

---------------------------------------------------------------------------
(* SEP-41 transfers, seen by every holder. *)

LEMMA TheContracts ==
  /\ SwapContract \in Accounts /\ SwapContract \in Holders /\ SwapContract # Pool
  /\ Pool \in Holders /\ Pool \notin Users
  /\ Users \subseteq Holders /\ Users \subseteq Accounts /\ SwapContract \notin Users
BY SwapAssumption, TokenAssumption DEF Holders, Users

LEMMA PaidRows ==
  ASSUME balance \in BalanceType,
         NEW asset \in Assets, NEW from \in Holders, NEW to \in Holders,
         NEW amount \in Nat, amount <= balance[asset][from]
  PROVE  /\ Paid(asset, from, to, amount) \in BalanceType
         /\ \A a \in Assets, h \in Holders :
              Paid(asset, from, to, amount)[a][h] =
                balance[a][h] - (IF a = asset /\ h = from THEN amount ELSE 0)
                              + (IF a = asset /\ h = to THEN amount ELSE 0)
<1>1. /\ Paid(asset, from, to, amount) \in BalanceType
      /\ \A a \in Assets \ {asset} : Paid(asset, from, to, amount)[a] = balance[a]
  BY PaidEffect
<1>2. \A h \in Holders :
        Paid(asset, from, to, amount)[asset][h] =
          balance[asset][h] - (IF h = from THEN amount ELSE 0) + (IF h = to THEN amount ELSE 0)
  BY DEF Paid, BalanceType
<1>3. \A a \in Assets, h \in Holders : balance[a][h] \in Nat
  BY DEF BalanceType
<1>4. ASSUME NEW a \in Assets, NEW h \in Holders
      PROVE  Paid(asset, from, to, amount)[a][h] =
               balance[a][h] - (IF a = asset /\ h = from THEN amount ELSE 0)
                             + (IF a = asset /\ h = to THEN amount ELSE 0)
  <2>1. CASE a = asset
    BY <1>2, <2>1
  <2>2. CASE a # asset
    BY <1>1, <1>3, <2>2
  <2>. QED
    BY <2>1, <2>2
<1>. QED
  BY <1>1, <1>4

\* Two transfers out of the escrow to others leave every balance a natural number
\* when the escrow holds what both take.
LEMMA PaidTwiceRows ==
  ASSUME balance \in BalanceType,
         NEW asset1 \in Assets, NEW to1 \in Holders \ {SwapContract}, NEW amount1 \in Nat,
         NEW asset2 \in Assets, NEW to2 \in Holders \ {SwapContract}, NEW amount2 \in Nat,
         EscrowHolds(asset1, amount1, asset2, amount2)
  PROVE  /\ PaidTwice(asset1, to1, amount1, asset2, to2, amount2) \in BalanceType
         /\ \A a \in Assets :
              /\ PaidTwice(asset1, to1, amount1, asset2, to2, amount2)[a][SwapContract] =
                   balance[a][SwapContract] - (IF a = asset1 THEN amount1 ELSE 0)
                                            - (IF a = asset2 THEN amount2 ELSE 0)
              /\ PaidTwice(asset1, to1, amount1, asset2, to2, amount2)[a][Pool] =
                   balance[a][Pool] + (IF a = asset1 /\ Pool = to1 THEN amount1 ELSE 0)
                                    + (IF a = asset2 /\ Pool = to2 THEN amount2 ELSE 0)
<1>. DEFINE Entry(a, h) ==
       balance[a][h]
         + (IF a = asset1 /\ h = to1 THEN amount1 ELSE 0)
         + (IF a = asset2 /\ h = to2 THEN amount2 ELSE 0)
         - (IF a = asset1 /\ h = SwapContract THEN amount1 ELSE 0)
         - (IF a = asset2 /\ h = SwapContract THEN amount2 ELSE 0)
<1>1. \A a \in Assets, h \in Holders : balance[a][h] \in Nat
  BY DEF BalanceType
<1>2. PaidTwice(asset1, to1, amount1, asset2, to2, amount2)
        = [a \in Assets |-> [h \in Holders |-> Entry(a, h)]]
  BY DEF PaidTwice
<1>3. ASSUME NEW a \in Assets PROVE Entry(a, SwapContract) \in Nat
  <2>1. balance[a][SwapContract] \in Nat
    BY <1>1, TheContracts
  <2>2. /\ Entry(a, SwapContract) = balance[a][SwapContract]
             - (IF a = asset1 THEN amount1 ELSE 0) - (IF a = asset2 THEN amount2 ELSE 0)
    BY <2>1
  <2>3. /\ balance[asset1][SwapContract] >= amount1 + (IF asset1 = asset2 THEN amount2 ELSE 0)
        /\ balance[asset2][SwapContract] >= amount2
    BY DEF EscrowHolds
  <2>. HIDE DEF Entry
  <2>4. CASE a = asset1
    BY <2>1, <2>2, <2>3, <2>4
  <2>5. CASE a # asset1
    BY <2>1, <2>2, <2>3, <2>5
  <2>. QED
    BY <2>4, <2>5
<1>4. ASSUME NEW a \in Assets, NEW h \in Holders, h # SwapContract PROVE Entry(a, h) \in Nat
  BY <1>1, <1>4
<1>5. \A a \in Assets, h \in Holders : Entry(a, h) \in Nat
  BY <1>3, <1>4
<1>6. PaidTwice(asset1, to1, amount1, asset2, to2, amount2) \in BalanceType
  <2>. HIDE DEF Entry
  <2>. QED
    BY <1>2, <1>5 DEF BalanceType
<1>7. \A a \in Assets, h \in Holders :
        PaidTwice(asset1, to1, amount1, asset2, to2, amount2)[a][h] = Entry(a, h)
  <2>. HIDE DEF Entry
  <2>. QED
    BY <1>2
<1>8. ASSUME NEW a \in Assets
      PROVE  /\ Entry(a, SwapContract) = balance[a][SwapContract]
                  - (IF a = asset1 THEN amount1 ELSE 0) - (IF a = asset2 THEN amount2 ELSE 0)
             /\ Entry(a, Pool) = balance[a][Pool]
                  + (IF a = asset1 /\ Pool = to1 THEN amount1 ELSE 0)
                  + (IF a = asset2 /\ Pool = to2 THEN amount2 ELSE 0)
  <2>1. balance[a][SwapContract] \in Nat /\ balance[a][Pool] \in Nat
    BY <1>1, TheContracts
  <2>. QED
    BY <2>1, TheContracts
<1>. QED
  BY <1>6, <1>7, <1>8, TheContracts

\* The same, of the balances after such a call.
LEMMA PaidTwiceAfter ==
  ASSUME balance \in BalanceType,
         NEW asset1 \in Assets, NEW to1 \in Holders \ {SwapContract}, NEW amount1 \in Nat,
         NEW asset2 \in Assets, NEW to2 \in Holders \ {SwapContract}, NEW amount2 \in Nat,
         EscrowHolds(asset1, amount1, asset2, amount2),
         balance' = PaidTwice(asset1, to1, amount1, asset2, to2, amount2)
  PROVE  /\ balance' \in BalanceType
         /\ \A a \in Assets :
              /\ balance'[a][SwapContract] =
                   balance[a][SwapContract] - (IF a = asset1 THEN amount1 ELSE 0)
                                            - (IF a = asset2 THEN amount2 ELSE 0)
              /\ balance'[a][Pool] =
                   balance[a][Pool] + (IF a = asset1 /\ Pool = to1 THEN amount1 ELSE 0)
                                    + (IF a = asset2 /\ Pool = to2 THEN amount2 ELSE 0)
<1>. DEFINE after == PaidTwice(asset1, to1, amount1, asset2, to2, amount2)
<1>1. /\ after \in BalanceType
      /\ \A a \in Assets :
           /\ after[a][SwapContract] =
                balance[a][SwapContract] - (IF a = asset1 THEN amount1 ELSE 0)
                                         - (IF a = asset2 THEN amount2 ELSE 0)
           /\ after[a][Pool] =
                balance[a][Pool] + (IF a = asset1 /\ Pool = to1 THEN amount1 ELSE 0)
                                 + (IF a = asset2 /\ Pool = to2 THEN amount2 ELSE 0)
  BY PaidTwiceRows
<1>2. balance' = after
  OBVIOUS
<1>. HIDE DEF after
<1>. QED
  BY <1>1, <1>2

\* ... and of the balances of the users.
LEMMA PaidTwiceUsers ==
  ASSUME balance \in BalanceType,
         NEW asset1 \in Assets, NEW to1 \in Holders, NEW amount1 \in Nat,
         NEW asset2 \in Assets, NEW to2 \in Holders, NEW amount2 \in Nat,
         balance' = PaidTwice(asset1, to1, amount1, asset2, to2, amount2),
         NEW a \in Assets, NEW u \in Users
  PROVE  balance'[a][u] = balance[a][u] + (IF a = asset1 /\ u = to1 THEN amount1 ELSE 0)
                                        + (IF a = asset2 /\ u = to2 THEN amount2 ELSE 0)
<1>1. u \in Holders /\ u # SwapContract
  BY TheContracts
<1>2. balance[a][u] \in Nat
  BY <1>1 DEF BalanceType
<1>3. balance'[a][u] =
        balance[a][u]
         + (IF a = asset1 /\ u = to1 THEN amount1 ELSE 0)
         + (IF a = asset2 /\ u = to2 THEN amount2 ELSE 0)
         - (IF a = asset1 /\ u = SwapContract THEN amount1 ELSE 0)
         - (IF a = asset2 /\ u = SwapContract THEN amount2 ELSE 0)
  BY <1>1 DEF PaidTwice
<1>. QED
  BY <1>1, <1>2, <1>3

---------------------------------------------------------------------------
(* Amounts as units. *)

LEMMA UnitSetsFinite ==
  ASSUME NEW S \in SUBSET (Intents \X (1..MaxValue))
  PROVE  IsFiniteSet(S) /\ Cardinality(S) \in Nat
<1>1. IsFiniteSet(1..MaxValue)
  BY FS_Interval, ValueAssumption
<1>2. IsFiniteSet(Intents \X (1..MaxValue))
  BY <1>1, FS_Product, SwapAssumption
<1>. QED
  BY <1>2, FS_Subset, FS_CardinalityType

\* The units of one intent are replaced by those of another amount.
LEMMA UnitsReplaced ==
  ASSUME NEW S \in SUBSET (Intents \X (1..MaxValue)), NEW i \in Intents,
         NEW m \in 0..MaxValue, NEW n \in 0..MaxValue,
         S \cap ({i} \X (1..MaxValue)) = {i} \X (1..m)
  PROVE  LET T == (S \ ({i} \X (1..MaxValue))) \cup ({i} \X (1..n))
         IN  Cardinality(T) = Cardinality(S) - m + n
<1>. DEFINE whole == {i} \X (1..MaxValue)
            old == {i} \X (1..m)
            new == {i} \X (1..n)
            rest == S \ whole
<1>1. IsFiniteSet(S) /\ Cardinality(S) \in Nat
  BY UnitSetsFinite
<1>2. m \in Nat /\ n \in Nat
  BY ValueAssumption
<1>3. /\ IsFiniteSet(new) /\ Cardinality(new) = n
      /\ IsFiniteSet(old) /\ Cardinality(old) = m
  BY <1>2, BlockSize
<1>4. new \subseteq whole
  BY ValueAssumption
<1>5. S \cap whole = old
  OBVIOUS
<1>. HIDE DEF whole, old, new
<1>6. IsFiniteSet(rest) /\ Cardinality(rest) = Cardinality(S) - Cardinality(S \cap whole)
  BY <1>1, FS_Difference
<1>7. rest \cap new = {}
  BY <1>4
<1>. HIDE DEF rest
<1>8. Cardinality(rest \cup new) = Cardinality(rest) + Cardinality(new) - Cardinality(rest \cap new)
  BY <1>3, <1>6, FS_Union
<1>9. Cardinality(rest \cap new) = 0
  BY <1>7, FS_EmptySet
<1>10. Cardinality(rest) \in Nat
  BY <1>6, FS_CardinalityType
<1>11. Cardinality(rest \cup new) = Cardinality(S) - m + n
  BY <1>1, <1>2, <1>3, <1>5, <1>6, <1>8, <1>9, <1>10
<1>. QED
  BY <1>11 DEF rest, whole, new

---------------------------------------------------------------------------
(* The swaps and what they are owed. *)

\* what holds of one entry; SwapTypeOK says all but the last conjunct
EntryOK(s) ==
  /\ s \in SwapEntry \cup {None}
  /\ s # None /\ s.status \in {"Executed", "Claimed"} =>
       s.relayer \in Users /\ s.amountOut >= s.minOut /\ s.amountOut > 0

SwapTypes ==
  /\ swaps \in [Intents -> SwapEntry \cup {None}]
  /\ \A i \in Intents : EntryOK(swaps[i])
  /\ ledger \in 0..MaxLedger
  /\ swapRelayers \subseteq Users
  /\ swapPaused \in BOOLEAN
  /\ seized \in [Assets -> Nat]

LEMMA SwapTypesSuffice == TypeOK /\ SwapTypes => SwapTypeOK
BY DEF SwapTypeOK, SwapTypes, EntryOK, HasStatus

\* One entry is replaced by a good one.
LEMMA EntryReplaced ==
  ASSUME SwapTypes, NEW k \in Intents, NEW s, EntryOK(s),
         swaps' = [swaps EXCEPT ![k] = s],
         ledger' = ledger, swapRelayers' = swapRelayers, swapPaused' = swapPaused,
         seized' = seized
  PROVE  /\ SwapTypes'
         /\ \A i \in Intents : swaps'[i] = IF i = k THEN s ELSE swaps[i]
<1>1. s \in SwapEntry \cup {None}
  BY DEF EntryOK
<1>2. swaps' \in [Intents -> SwapEntry \cup {None}]
  BY <1>1 DEF SwapTypes
<1>3. \A i \in Intents : swaps'[i] = IF i = k THEN s ELSE swaps[i]
  BY DEF SwapTypes
<1>4. \A i \in Intents : EntryOK(swaps'[i])
  BY <1>3 DEF SwapTypes
<1>. QED
  BY <1>2, <1>3, <1>4 DEF SwapTypes, EntryOK

\* what a swap's maker has in escrow of an asset, and what its relayer has
OfferedBy(s, a) ==
  IF s # None /\ s.status \in {"Committed", "Executed"} /\ s.assetIn = a THEN s.amountIn ELSE 0
FrontedBy(s, a) ==
  IF s # None /\ s.status = "Executed" /\ s.assetOut = a THEN s.amountOut ELSE 0

Due(a) == Cardinality(OfferedUnits(a)) + Cardinality(FrontedUnits(a))

LEMMA PartsAreAmounts ==
  ASSUME NEW s, EntryOK(s), NEW a
  PROVE  OfferedBy(s, a) \in 0..MaxValue /\ FrontedBy(s, a) \in 0..MaxValue
BY ValueAssumption DEF EntryOK, SwapEntry, OfferedBy, FrontedBy

LEMMA UnitsAreUnits ==
  ASSUME NEW a
  PROVE  /\ OfferedUnits(a) \in SUBSET (Intents \X (1..MaxValue))
         /\ FrontedUnits(a) \in SUBSET (Intents \X (1..MaxValue))
         /\ Due(a) \in Nat
<1>1. /\ OfferedUnits(a) \in SUBSET (Intents \X (1..MaxValue))
      /\ FrontedUnits(a) \in SUBSET (Intents \X (1..MaxValue))
  BY DEF OfferedUnits, FrontedUnits
<1>. QED
  BY <1>1, UnitSetsFinite DEF Due

\* The units due of an asset change by what the one swap that changes is owed.
LEMMA DueReplaced ==
  ASSUME SwapTypes, NEW k \in Intents, NEW s, EntryOK(s), NEW a,
         \A i \in Intents : swaps'[i] = IF i = k THEN s ELSE swaps[i]
  PROVE  Due(a)' = Due(a) - OfferedBy(swaps[k], a) - FrontedBy(swaps[k], a)
                          + OfferedBy(s, a) + FrontedBy(s, a)
<1>1. EntryOK(swaps[k])
  BY DEF SwapTypes
<1>2. /\ OfferedBy(swaps[k], a) \in 0..MaxValue /\ FrontedBy(swaps[k], a) \in 0..MaxValue
      /\ OfferedBy(s, a) \in 0..MaxValue /\ FrontedBy(s, a) \in 0..MaxValue
  BY <1>1, PartsAreAmounts
<1>. DEFINE whole == {k} \X (1..MaxValue)
<1>3. Cardinality(OfferedUnits(a)') = Cardinality(OfferedUnits(a)) - OfferedBy(swaps[k], a) + OfferedBy(s, a)
  <2>1. OfferedUnits(a) \cap whole = {k} \X (1..OfferedBy(swaps[k], a))
    BY <1>1, ValueAssumption DEF OfferedUnits, OfferedBy, OpenSwap, HasStatus, EntryOK, SwapEntry
  <2>2. OfferedUnits(a)' = (OfferedUnits(a) \ whole) \cup ({k} \X (1..OfferedBy(s, a)))
    BY ValueAssumption DEF OfferedUnits, OfferedBy, OpenSwap, HasStatus, EntryOK, SwapEntry
  <2>. QED
    BY <1>2, <2>1, <2>2, UnitsReplaced, UnitsAreUnits
<1>4. Cardinality(FrontedUnits(a)') = Cardinality(FrontedUnits(a)) - FrontedBy(swaps[k], a) + FrontedBy(s, a)
  <2>1. FrontedUnits(a) \cap whole = {k} \X (1..FrontedBy(swaps[k], a))
    BY <1>1, ValueAssumption DEF FrontedUnits, FrontedBy, HasStatus, EntryOK, SwapEntry
  <2>2. FrontedUnits(a)' = (FrontedUnits(a) \ whole) \cup ({k} \X (1..FrontedBy(s, a)))
    BY ValueAssumption DEF FrontedUnits, FrontedBy, HasStatus, EntryOK, SwapEntry
  <2>. QED
    BY <1>2, <2>1, <2>2, UnitsReplaced, UnitsAreUnits
<1>5. Cardinality(OfferedUnits(a)) \in Nat /\ Cardinality(FrontedUnits(a)) \in Nat
  BY UnitsAreUnits, UnitSetsFinite
<1>. QED
  BY <1>2, <1>3, <1>4, <1>5, ValueAssumption DEF Due

LEMMA DueKept ==
  ASSUME UNCHANGED swaps, NEW a
  PROVE  Due(a)' = Due(a)
BY DEF Due, OfferedUnits, FrontedUnits, OpenSwap, HasStatus

---------------------------------------------------------------------------
(* The swaps that the handlers write. *)

LEMMA CommittedEntry ==
  ASSUME NEW terms \in Terms, NEW asset \in Assets
  PROVE  LET s == [status |-> "Committed", assetIn |-> asset, assetOut |-> terms.assetOut,
                   amountIn |-> terms.amountIn, amountOut |-> 0, refundTo |-> terms.refundTo,
                   outOwner |-> terms.outOwner, outRho |-> terms.outRho, minOut |-> terms.minOut,
                   expiry |-> terms.expiry, relayer |-> None]
         IN  EntryOK(s) /\ s # None /\ s \in SwapEntry
<1>. DEFINE s == [status |-> "Committed", assetIn |-> asset, assetOut |-> terms.assetOut,
                  amountIn |-> terms.amountIn, amountOut |-> 0, refundTo |-> terms.refundTo,
                  outOwner |-> terms.outOwner, outRho |-> terms.outRho, minOut |-> terms.minOut,
                  expiry |-> terms.expiry, relayer |-> None]
<1>1. s \in SwapEntry
  BY ValueAssumption DEF Terms, SwapEntry
<1>2. s.status = "Committed"
  OBVIOUS
<1>. HIDE DEF s
<1>3. s # None
  BY <1>1, SwapAssumption
<1>. QED
  BY <1>1, <1>2, <1>3 DEF EntryOK, s

\* the swap once a relayer has fronted amountOut
Fronted(s, amountOut, relayer) ==
  [s EXCEPT !.status = "Executed", !.relayer = relayer, !.amountOut = amountOut]

LEMMA FrontedEntry ==
  ASSUME NEW s \in SwapEntry, NEW relayer \in Users, NEW amountOut \in 1..MaxValue,
         amountOut >= s.minOut
  PROVE  LET t == Fronted(s, amountOut, relayer)
         IN  /\ EntryOK(t) /\ t # None
             /\ t.status = "Executed" /\ t.amountOut = amountOut /\ t.relayer = relayer
             /\ t.assetIn = s.assetIn /\ t.assetOut = s.assetOut /\ t.amountIn = s.amountIn
             /\ t.minOut = s.minOut /\ t.refundTo = s.refundTo
<1>. DEFINE t == Fronted(s, amountOut, relayer)
<1>1. /\ t \in SwapEntry
      /\ t.status = "Executed" /\ t.amountOut = amountOut /\ t.relayer = relayer
      /\ t.assetIn = s.assetIn /\ t.assetOut = s.assetOut /\ t.amountIn = s.amountIn
      /\ t.minOut = s.minOut /\ t.refundTo = s.refundTo
  <2>. DEFINE s1 == [s EXCEPT !.status = "Executed"]
              s2 == [s1 EXCEPT !.relayer = relayer]
              s3 == [s2 EXCEPT !.amountOut = amountOut]
  <2>1. /\ s1 \in SwapEntry /\ s1.status = "Executed" /\ s1.assetIn = s.assetIn
        /\ s1.assetOut = s.assetOut /\ s1.amountIn = s.amountIn
        /\ s1.minOut = s.minOut /\ s1.refundTo = s.refundTo
    BY DEF SwapEntry
  <2>. HIDE DEF s1
  <2>2. /\ s2 \in SwapEntry /\ s2.status = "Executed" /\ s2.assetIn = s.assetIn
        /\ s2.assetOut = s.assetOut /\ s2.amountIn = s.amountIn /\ s2.relayer = relayer
        /\ s2.minOut = s.minOut /\ s2.refundTo = s.refundTo
    BY <2>1 DEF SwapEntry
  <2>. HIDE DEF s2
  <2>3. /\ s3 \in SwapEntry /\ s3.status = "Executed" /\ s3.assetIn = s.assetIn
        /\ s3.assetOut = s.assetOut /\ s3.amountIn = s.amountIn /\ s3.relayer = relayer
        /\ s3.minOut = s.minOut /\ s3.refundTo = s.refundTo /\ s3.amountOut = amountOut
    BY <2>2, ValueAssumption DEF SwapEntry
  <2>4. t = s3
    BY DEF Fronted, s1, s2
  <2>. HIDE DEF s3, t
  <2>. QED
    BY <2>3, <2>4
<1>. HIDE DEF t
<1>2. t # None /\ amountOut > 0
  BY <1>1, SwapAssumption, ValueAssumption
<1>. QED
  BY <1>1, <1>2 DEF EntryOK, t

\* the swap with another status
Marked(s, status) == [s EXCEPT !.status = status]

LEMMA MarkedEntry ==
  ASSUME NEW s, EntryOK(s), s # None,
         NEW status \in {"Claimed", "Cancelled"},
         status = "Claimed" => s.status = "Executed"
  PROVE  LET t == Marked(s, status)
         IN  /\ EntryOK(t) /\ t # None /\ t.status = status
             /\ t.assetIn = s.assetIn /\ t.assetOut = s.assetOut
<1>. DEFINE t == Marked(s, status)
<1>1. s \in SwapEntry
  BY DEF EntryOK
<1>2. /\ t \in SwapEntry
      /\ t.status = status
      /\ t.relayer = s.relayer /\ t.amountOut = s.amountOut /\ t.minOut = s.minOut
      /\ t.assetIn = s.assetIn /\ t.assetOut = s.assetOut
  BY <1>1 DEF Marked, SwapEntry
<1>. HIDE DEF t
<1>3. t # None
  BY <1>2, SwapAssumption
<1>4. EntryOK(t)
  BY <1>2, <1>3 DEF EntryOK
<1>. QED
  BY <1>2, <1>3, <1>4 DEF t

\* The entry of a swap in progress.
LEMMA OpenEntry ==
  ASSUME SwapTypes, NEW i \in Intents, NEW status, HasStatus(i, status)
  PROVE  /\ swaps[i] \in SwapEntry /\ swaps[i] # None /\ EntryOK(swaps[i])
         /\ swaps[i].status = status
         /\ swaps[i].assetIn \in Assets /\ swaps[i].assetOut \in Assets
         /\ swaps[i].amountIn \in 1..MaxValue /\ swaps[i].amountIn \in Nat
         /\ swaps[i].amountOut \in 0..MaxValue /\ swaps[i].amountOut \in Nat
         /\ swaps[i].refundTo \in Users
         /\ swaps[i].outOwner \in Owners /\ swaps[i].outRho \in Rhos
         /\ status = "Executed" => swaps[i].relayer \in Users /\ swaps[i].amountOut > 0
BY ValueAssumption DEF SwapTypes, EntryOK, HasStatus, SwapEntry

---------------------------------------------------------------------------
(* The escrow. *)

SwapInv == Books /\ SwapTypes /\ EscrowCoversSwaps

Held(a) == balance[a][SwapContract] + seized[a]

LEMMA CoveredMeansHeld ==
  EscrowCoversSwaps <=> \A a \in Assets : Held(a) >= Due(a)
BY DEF EscrowCoversSwaps, Held, Due

LEMMA Amounts ==
  ASSUME SwapInv
  PROVE  /\ balance \in BalanceType
         /\ \A a \in Assets : \A h \in Holders : balance[a][h] \in Nat
         /\ \A a \in Assets : /\ balance[a][SwapContract] \in Nat /\ balance[a][Pool] \in Nat
                             /\ seized[a] \in Nat /\ Held(a) \in Nat /\ Held(a) >= Due(a)
BY TheContracts, CoveredMeansHeld
   DEF SwapInv, Books, TypeOK, BalanceType, SwapTypes, Held

\* Payments between others do not touch the pool's books.
LEMMA BooksUntouched ==
  ASSUME Books, balance' \in BalanceType, UNCHANGED tokenVars,
         \A a \in Assets : balance'[a][Pool] = balance[a][Pool]
  PROVE  Books'
<1>1. UNCHANGED <<leaves, history, nullifiers, seen, supply, clawed>> /\ UNCHANGED settings
  BY DEF tokenVars, poolVars
<1>2. SettingsTypeOK'
  BY <1>1, SettingsKept DEF Books, TypeOK
<1>3. TypeOK'
  BY <1>1, <1>2 DEF Books, TypeOK, BalanceType
<1>. QED
  BY <1>1, <1>3 DEF Books, SeenMatchesTree, CustodyCoversSupply

\* A transfer paid by somebody else never lowers what the escrow has.
LEMMA PaidByAnother ==
  ASSUME SwapInv, NEW asset \in Assets, NEW from \in Holders \ {SwapContract},
         NEW to \in Holders, NEW amount \in Nat, amount <= balance[asset][from],
         balance' = Paid(asset, from, to, amount)
  PROVE  \A a \in Assets : balance'[a][SwapContract] \in Nat
                           /\ balance'[a][SwapContract] >= balance[a][SwapContract]
BY Amounts, TheContracts, PaidRows

\* What is true of the escrow stays true while no swap changes and the escrow
\* loses nothing.
LEMMA EscrowUndisturbed ==
  ASSUME SwapInv, UNCHANGED <<swapVars, ledger, seized>>,
         \A a \in Assets : balance'[a][SwapContract] \in Nat
                           /\ balance'[a][SwapContract] >= balance[a][SwapContract]
  PROVE  SwapTypes' /\ EscrowCoversSwaps'
<1>1. SwapTypes'
  BY DEF SwapInv, SwapTypes, EntryOK, swapVars
<1>2. ASSUME NEW a \in Assets PROVE Held(a)' >= Due(a)'
  <2>1. Due(a)' = Due(a) /\ Due(a) \in Nat
    BY DueKept, UnitsAreUnits DEF swapVars
  <2>. QED
    BY <2>1, Amounts DEF Held
<1>3. EscrowCoversSwaps'
  BY <1>2 DEF EscrowCoversSwaps, Held, Due
<1>. QED
  BY <1>1, <1>3

\* One swap changes, and the escrow gains at least what it is owed more.
LEMMA EscrowMoved ==
  ASSUME SwapInv, NEW k \in Intents, NEW s, EntryOK(s),
         swaps' = [swaps EXCEPT ![k] = s],
         UNCHANGED <<swapRelayers, swapPaused, ledger, seized>>,
         \A a \in Assets :
           balance'[a][SwapContract] =
             balance[a][SwapContract] - OfferedBy(swaps[k], a) - FrontedBy(swaps[k], a)
                                      + OfferedBy(s, a) + FrontedBy(s, a)
  PROVE  SwapTypes' /\ EscrowCoversSwaps'
<1>1. /\ SwapTypes'
      /\ \A i \in Intents : swaps'[i] = IF i = k THEN s ELSE swaps[i]
  <2>1. SwapTypes
    BY DEF SwapInv
  <2>2. /\ ledger' = ledger /\ swapRelayers' = swapRelayers
        /\ swapPaused' = swapPaused /\ seized' = seized
    OBVIOUS
  <2>. QED
    BY <2>1, <2>2, EntryReplaced, ZenonT(60)
<1>2. ASSUME NEW a \in Assets PROVE Held(a)' >= Due(a)'
  <2>1. Due(a)' = Due(a) - OfferedBy(swaps[k], a) - FrontedBy(swaps[k], a)
                         + OfferedBy(s, a) + FrontedBy(s, a)
    BY <1>1, DueReplaced DEF SwapInv
  <2>2. /\ OfferedBy(swaps[k], a) \in Nat /\ FrontedBy(swaps[k], a) \in Nat
        /\ OfferedBy(s, a) \in Nat /\ FrontedBy(s, a) \in Nat
    <3>1. EntryOK(swaps[k])
      BY DEF SwapInv, SwapTypes
    <3>. QED
      BY <3>1, PartsAreAmounts, ValueAssumption
  <2>3. Due(a) \in Nat
    BY UnitsAreUnits
  <2>. QED
    BY <2>1, <2>2, <2>3, Amounts DEF Held
<1>3. EscrowCoversSwaps'
  BY <1>2 DEF EscrowCoversSwaps, Held, Due
<1>. QED
  BY <1>1, <1>3

---------------------------------------------------------------------------
(* Every call keeps the invariant. *)

\* commit_swap escrows exactly what the swap records.
LEMMA CommitKeeps ==
  ASSUME SwapInv, NEW k \in Intents, NEW note \in LiveNotes, NEW change \in Note,
         NEW anchor \in KnownRoots, NEW terms \in Terms,
         CommitSwap(k, note, change, anchor, terms)
  PROVE  SwapInv'
<1>. DEFINE s == [status |-> "Committed", assetIn |-> note.asset, assetOut |-> terms.assetOut,
                  amountIn |-> terms.amountIn, amountOut |-> 0, refundTo |-> terms.refundTo,
                  outOwner |-> terms.outOwner, outRho |-> terms.outRho, minOut |-> terms.minOut,
                  expiry |-> terms.expiry, relayer |-> None]
<1>1. note \in Note /\ note.asset \in Assets
  BY LeavesAreNotes, NoteFields DEF SwapInv, LiveNotes
<1>2. /\ Unshield(note, terms.amountIn, change, SwapContract, anchor)
      /\ EscrowedInFull(note.asset, terms.amountIn)
      /\ swaps[k] = None
      /\ swaps' = [swaps EXCEPT ![k] = s]
      /\ UNCHANGED <<swapRelayers, swapPaused, ledger, seized>>
  BY DEF CommitSwap
<1>3. terms.amountIn \in 1..MaxValue /\ terms.amountIn \in Nat
  BY ValueAssumption DEF Terms
<1>4. EntryOK(s) /\ s # None
  BY <1>1, CommittedEntry
<1>5. Books'
  BY <1>1, <1>2, <1>3, TheContracts, UnshieldBooks DEF SwapInv
<1>6. \A a \in Assets :
        /\ OfferedBy(swaps[k], a) = 0 /\ FrontedBy(swaps[k], a) = 0
        /\ OfferedBy(s, a) = IF a = note.asset THEN terms.amountIn ELSE 0
        /\ FrontedBy(s, a) = 0
  BY <1>2, <1>4 DEF OfferedBy, FrontedBy
<1>. HIDE DEF s
<1>7. \A a \in Assets :
        /\ a # note.asset => balance'[a] = balance[a]
        /\ balance'[a][SwapContract] \in Nat
  <2>1. balance' = Paid(note.asset, Pool, SwapContract, Payout(note.asset, terms.amountIn))
    BY <1>2 DEF Unshield
  <2>2. \A a \in Assets : balance'[a][SwapContract] \in Nat
    BY <1>5, TheContracts DEF Books, TypeOK, BalanceType
  <2>3. terms.amountIn <= supply[note.asset]
    BY <1>2 DEF Unshield, UnshieldAccepted
  <2>4. Payout(note.asset, terms.amountIn) \in Nat
        /\ Payout(note.asset, terms.amountIn) <= balance[note.asset][Pool]
    BY <1>1, <1>3, <2>3, PayoutBounds DEF SwapInv
  <2>. QED
    BY <1>1, <2>1, <2>2, <2>4, Amounts, TheContracts, PaidEffect
<1>8. \A a \in Assets :
        balance'[a][SwapContract] =
          balance[a][SwapContract] - OfferedBy(swaps[k], a) - FrontedBy(swaps[k], a)
                                   + OfferedBy(s, a) + FrontedBy(s, a)
  <2>1. \A a \in Assets : balance[a][SwapContract] \in Nat
    BY Amounts
  <2>2. balance'[note.asset][SwapContract] - balance[note.asset][SwapContract] = terms.amountIn
    BY <1>2 DEF EscrowedInFull
  <2>3. ASSUME NEW a \in Assets, a = note.asset
        PROVE  balance'[a][SwapContract] = balance[a][SwapContract] + terms.amountIn
    BY <1>3, <1>7, <2>1, <2>2, <2>3
  <2>. QED
    BY <1>3, <1>6, <1>7, <2>1, <2>3
<1>. QED
  BY <1>2, <1>4, <1>5, <1>8, EscrowMoved DEF SwapInv

\* execute_swap takes from the relayer exactly what the swap records.
LEMMA ExecuteKeeps ==
  ASSUME SwapInv, NEW k \in Intents, NEW amountOut \in 1..MaxValue, NEW relayer \in Users,
         ExecuteSwap(k, amountOut, relayer)
  PROVE  SwapInv' /\ swaps' = [swaps EXCEPT ![k] = Fronted(swaps[k], amountOut, relayer)]
<1>. DEFINE s == swaps[k]
            t == Fronted(s, amountOut, relayer)
<1>1. /\ HasStatus(k, "Committed") /\ amountOut >= s.minOut
      /\ amountOut <= balance[s.assetOut][relayer]
      /\ swaps' = [swaps EXCEPT ![k].status = "Executed", ![k].relayer = relayer,
                                ![k].amountOut = amountOut]
      /\ balance' = Paid(s.assetOut, relayer, SwapContract, amountOut)
      /\ UNCHANGED <<swapRelayers, swapPaused, ledger, seized>>
      /\ UNCHANGED tokenVars
  BY DEF ExecuteSwap
<1>2. /\ s \in SwapEntry /\ s # None /\ s.status = "Committed"
      /\ s.assetOut \in Assets /\ s.assetIn \in Assets /\ s.amountIn \in Nat
      /\ amountOut \in Nat
  BY <1>1, OpenEntry, ValueAssumption DEF SwapInv
<1>3. /\ EntryOK(t) /\ t # None
      /\ t.status = "Executed" /\ t.amountOut = amountOut
      /\ t.assetIn = s.assetIn /\ t.assetOut = s.assetOut /\ t.amountIn = s.amountIn
  BY <1>1, <1>2, FrontedEntry
<1>4. swaps' = [swaps EXCEPT ![k] = t]
  BY <1>1 DEF Fronted, SwapInv, SwapTypes
<1>. HIDE DEF s, t
<1>5. /\ balance' \in BalanceType
      /\ \A a \in Assets :
           /\ balance'[a][Pool] = balance[a][Pool]
           /\ balance'[a][SwapContract] =
                balance[a][SwapContract] + (IF a = s.assetOut THEN amountOut ELSE 0)
  <2>1. relayer \in Holders /\ relayer # Pool /\ relayer # SwapContract
    BY TheContracts
  <2>. QED
    BY <1>1, <1>2, <2>1, Amounts, TheContracts, PaidRows
<1>6. \A a \in Assets :
        /\ OfferedBy(s, a) = OfferedBy(t, a) /\ OfferedBy(s, a) \in Nat
        /\ FrontedBy(s, a) = 0
        /\ FrontedBy(t, a) = IF a = s.assetOut THEN amountOut ELSE 0
  BY <1>2, <1>3 DEF OfferedBy, FrontedBy
<1>7. \A a \in Assets :
        balance'[a][SwapContract] =
          balance[a][SwapContract] - OfferedBy(s, a) - FrontedBy(s, a)
                                   + OfferedBy(t, a) + FrontedBy(t, a)
  BY <1>2, <1>5, <1>6, Amounts
<1>8. Books'
  BY <1>1, <1>5, BooksUntouched DEF SwapInv
<1>9. SwapTypes' /\ EscrowCoversSwaps'
  BY <1>1, <1>3, <1>4, <1>7, EscrowMoved DEF s
<1>. QED
  BY <1>4, <1>8, <1>9 DEF SwapInv, s, t

\* What closing a swap releases.
LEMMA ReleasedBy ==
  ASSUME NEW s, EntryOK(s), s # None, NEW t, t.status \in {"Claimed", "Cancelled"}, NEW a
  PROVE  /\ OfferedBy(t, a) = 0 /\ FrontedBy(t, a) = 0
         /\ s.status \in {"Committed", "Executed"} =>
              OfferedBy(s, a) = (IF a = s.assetIn THEN s.amountIn ELSE 0)
         /\ s.status = "Executed" => FrontedBy(s, a) = (IF a = s.assetOut THEN s.amountOut ELSE 0)
         /\ s.status = "Committed" => FrontedBy(s, a) = 0
BY DEF OfferedBy, FrontedBy

LEMMA WithStatusMarks ==
  ASSUME SwapTypes, NEW k \in Intents, NEW status
  PROVE  WithStatus(k, status) = [swaps EXCEPT ![k] = Marked(swaps[k], status)]
BY DEF WithStatus, Marked, SwapTypes

\* cancel_swap returns what the maker has in escrow.
LEMMA CancelKeeps ==
  ASSUME SwapInv, NEW k \in Intents, CancelSwap(k)
  PROVE  SwapInv'
<1>. DEFINE s == swaps[k]
            t == Marked(s, "Cancelled")
<1>1. /\ HasStatus(k, "Committed")
      /\ s.amountIn <= balance[s.assetIn][SwapContract]
      /\ swaps' = [swaps EXCEPT ![k] = t]
      /\ balance' = Paid(s.assetIn, SwapContract, s.refundTo, s.amountIn)
      /\ UNCHANGED <<swapRelayers, swapPaused, ledger, seized>>
      /\ UNCHANGED tokenVars
  BY WithStatusMarks DEF CancelSwap, SwapInv
<1>2. /\ EntryOK(s) /\ s # None /\ s.status = "Committed"
      /\ s.assetIn \in Assets /\ s.amountIn \in Nat /\ s.refundTo \in Users
  BY <1>1, OpenEntry DEF SwapInv
<1>3. EntryOK(t) /\ t.status = "Cancelled"
  BY <1>2, MarkedEntry
<1>. HIDE DEF s, t
<1>4. /\ balance' \in BalanceType
      /\ \A a \in Assets :
           /\ balance'[a][Pool] = balance[a][Pool]
           /\ balance'[a][SwapContract] =
                balance[a][SwapContract] - (IF a = s.assetIn THEN s.amountIn ELSE 0)
  <2>1. s.refundTo \in Holders /\ s.refundTo # Pool /\ s.refundTo # SwapContract
    BY <1>2, TheContracts
  <2>. QED
    BY <1>1, <1>2, <2>1, Amounts, TheContracts, PaidRows
<1>5. \A a \in Assets :
        /\ OfferedBy(t, a) = 0 /\ FrontedBy(t, a) = 0 /\ FrontedBy(s, a) = 0
        /\ OfferedBy(s, a) = IF a = s.assetIn THEN s.amountIn ELSE 0
  BY <1>2, <1>3, ReleasedBy
<1>6. \A a \in Assets :
        balance'[a][SwapContract] =
          balance[a][SwapContract] - OfferedBy(s, a) - FrontedBy(s, a)
                                   + OfferedBy(t, a) + FrontedBy(t, a)
  BY <1>2, <1>4, <1>5, Amounts
<1>7. Books'
  BY <1>1, <1>4, BooksUntouched DEF SwapInv
<1>8. SwapTypes' /\ EscrowCoversSwaps'
  BY <1>1, <1>3, <1>6, EscrowMoved DEF s
<1>. QED
  BY <1>7, <1>8 DEF SwapInv

\* reclaim_expired_swap returns what both parties have in escrow.
LEMMA ReclaimKeeps ==
  ASSUME SwapInv, NEW k \in Intents, ReclaimExpiredSwap(k)
  PROVE  SwapInv'
<1>. DEFINE s == swaps[k]
            t == Marked(s, "Cancelled")
<1>1. /\ HasStatus(k, "Executed")
      /\ EscrowHolds(s.assetOut, s.amountOut, s.assetIn, s.amountIn)
      /\ swaps' = [swaps EXCEPT ![k] = t]
      /\ balance' = PaidTwice(s.assetOut, s.relayer, s.amountOut, s.assetIn, s.refundTo, s.amountIn)
      /\ UNCHANGED <<swapRelayers, swapPaused, ledger, seized>>
      /\ UNCHANGED tokenVars
  BY WithStatusMarks DEF ReclaimExpiredSwap, SwapInv
<1>2. /\ EntryOK(s) /\ s # None /\ s.status = "Executed"
      /\ s.assetIn \in Assets /\ s.amountIn \in Nat /\ s.refundTo \in Users
      /\ s.assetOut \in Assets /\ s.amountOut \in Nat /\ s.relayer \in Users
  BY <1>1, OpenEntry DEF SwapInv
<1>3. EntryOK(t) /\ t.status = "Cancelled"
  BY <1>2, MarkedEntry
<1>. HIDE DEF s, t
<1>4. /\ s.refundTo \in Holders \ {SwapContract} /\ s.refundTo # Pool
      /\ s.relayer \in Holders \ {SwapContract} /\ s.relayer # Pool
  BY <1>2, TheContracts
<1>5. /\ balance' \in BalanceType
      /\ \A a \in Assets :
           /\ balance'[a][SwapContract] =
                balance[a][SwapContract] - (IF a = s.assetOut THEN s.amountOut ELSE 0)
                                         - (IF a = s.assetIn THEN s.amountIn ELSE 0)
           /\ balance'[a][Pool] =
                balance[a][Pool] + (IF a = s.assetOut /\ Pool = s.relayer THEN s.amountOut ELSE 0)
                                 + (IF a = s.assetIn /\ Pool = s.refundTo THEN s.amountIn ELSE 0)
  <2>1. balance \in BalanceType
    BY Amounts
  <2>2. balance' = PaidTwice(s.assetOut, s.relayer, s.amountOut, s.assetIn, s.refundTo, s.amountIn)
    BY <1>1
  <2>3. EscrowHolds(s.assetOut, s.amountOut, s.assetIn, s.amountIn)
    BY <1>1
  <2>. QED
    BY <1>2, <1>4, <2>1, <2>2, <2>3, PaidTwiceAfter
<1>6. \A a \in Assets : balance'[a][Pool] = balance[a][Pool]
  BY <1>4, <1>5, Amounts
<1>7. \A a \in Assets :
        /\ OfferedBy(t, a) = 0 /\ FrontedBy(t, a) = 0
        /\ OfferedBy(s, a) = IF a = s.assetIn THEN s.amountIn ELSE 0
        /\ FrontedBy(s, a) = IF a = s.assetOut THEN s.amountOut ELSE 0
  BY <1>2, <1>3, ReleasedBy
<1>8. \A a \in Assets :
        balance'[a][SwapContract] =
          balance[a][SwapContract] - OfferedBy(s, a) - FrontedBy(s, a)
                                   + OfferedBy(t, a) + FrontedBy(t, a)
  BY <1>2, <1>5, <1>7, Amounts
<1>9. Books'
  BY <1>1, <1>5, <1>6, BooksUntouched DEF SwapInv
<1>10. SwapTypes' /\ EscrowCoversSwaps'
  BY <1>1, <1>3, <1>8, EscrowMoved DEF s
<1>. QED
  BY <1>9, <1>10 DEF SwapInv

\* the note reveal_and_claim shields for the maker
ClaimedNote(s) == [asset |-> s.assetOut, value |-> s.amountOut, owner |-> s.outOwner, rho |-> s.outRho]

\* What a claim does, with the types of everything in it.
LEMMA ClaimEffect ==
  ASSUME SwapInv, NEW k \in Intents, RevealAndClaim(k)
  PROVE  /\ HasStatus(k, "Executed") /\ swaps[k].amountOut >= swaps[k].minOut
         /\ ClaimedNote(swaps[k]) \in Note
         /\ TakeNote(ClaimedNote(swaps[k]))
         /\ EscrowHolds(swaps[k].assetIn, swaps[k].amountIn, swaps[k].assetOut, swaps[k].amountOut)
         /\ swaps' = [swaps EXCEPT ![k] = Marked(swaps[k], "Claimed")]
         /\ balance' = PaidTwice(swaps[k].assetIn, swaps[k].relayer, swaps[k].amountIn,
                                 swaps[k].assetOut, Pool, swaps[k].amountOut)
         /\ UNCHANGED <<swapRelayers, swapPaused, ledger, seized>>
<1>1. /\ HasStatus(k, "Executed")
      /\ FairnessCircuit(FairnessPublicInputs(k))
      /\ TakeNote(ClaimedNote(swaps[k]))
      /\ EscrowHolds(swaps[k].assetIn, swaps[k].amountIn, swaps[k].assetOut, swaps[k].amountOut)
      /\ swaps' = [swaps EXCEPT ![k] = Marked(swaps[k], "Claimed")]
      /\ balance' = PaidTwice(swaps[k].assetIn, swaps[k].relayer, swaps[k].amountIn,
                              swaps[k].assetOut, Pool, swaps[k].amountOut)
      /\ UNCHANGED <<swapRelayers, swapPaused, ledger, seized>>
  BY WithStatusMarks DEF RevealAndClaim, ClaimAccepted, ClaimedNote, SwapInv
<1>2. swaps[k].amountOut >= swaps[k].minOut
  BY <1>1 DEF FairnessCircuit, FairnessPublicInputs
<1>3. ClaimedNote(swaps[k]) \in Note
  BY <1>1, OpenEntry DEF ClaimedNote, Note, SwapInv
<1>. QED
  BY <1>1, <1>2, <1>3

\* reveal_and_claim pays the relayer what was offered, and the pool what was
\* fronted; the pool's books gain the note it pays for.
LEMMA ClaimKeeps ==
  ASSUME SwapInv, NEW k \in Intents, RevealAndClaim(k)
  PROVE  SwapInv'
<1>. DEFINE s == swaps[k]
            t == Marked(s, "Claimed")
            note == ClaimedNote(s)
<1>1. /\ HasStatus(k, "Executed") /\ note \in Note /\ TakeNote(note)
      /\ EscrowHolds(s.assetIn, s.amountIn, s.assetOut, s.amountOut)
      /\ swaps' = [swaps EXCEPT ![k] = t]
      /\ balance' = PaidTwice(s.assetIn, s.relayer, s.amountIn, s.assetOut, Pool, s.amountOut)
      /\ UNCHANGED <<swapRelayers, swapPaused, ledger, seized>>
  BY ClaimEffect
<1>2. /\ EntryOK(s) /\ s # None /\ s.status = "Executed"
      /\ s.assetIn \in Assets /\ s.amountIn \in Nat
      /\ s.assetOut \in Assets /\ s.amountOut \in Nat /\ s.relayer \in Users
  BY <1>1, OpenEntry DEF SwapInv
<1>3. EntryOK(t) /\ t.status = "Claimed"
  BY <1>2, MarkedEntry
<1>4. note.asset = s.assetOut /\ note.value = s.amountOut
  BY DEF ClaimedNote
<1>. HIDE DEF s, t, note
<1>5. /\ s.relayer \in Holders \ {SwapContract} /\ s.relayer # Pool
      /\ Pool \in Holders \ {SwapContract}
  BY <1>2, TheContracts
<1>6. /\ balance' \in BalanceType
      /\ \A a \in Assets :
           /\ balance'[a][SwapContract] =
                balance[a][SwapContract] - (IF a = s.assetIn THEN s.amountIn ELSE 0)
                                         - (IF a = s.assetOut THEN s.amountOut ELSE 0)
           /\ balance'[a][Pool] =
                balance[a][Pool] + (IF a = s.assetIn /\ Pool = s.relayer THEN s.amountIn ELSE 0)
                                 + (IF a = s.assetOut /\ Pool = Pool THEN s.amountOut ELSE 0)
  <2>1. balance \in BalanceType
    BY Amounts
  <2>2. balance' = PaidTwice(s.assetIn, s.relayer, s.amountIn, s.assetOut, Pool, s.amountOut)
    BY <1>1
  <2>3. EscrowHolds(s.assetIn, s.amountIn, s.assetOut, s.amountOut)
    BY <1>1
  <2>. QED
    BY <1>2, <1>5, <2>1, <2>2, <2>3, PaidTwiceAfter
<1>7. \A a \in Assets :
        balance'[a][Pool] = balance[a][Pool] + (IF a = s.assetOut THEN s.amountOut ELSE 0)
  BY <1>2, <1>5, <1>6, Amounts
<1>8. \A a \in Assets :
        /\ OfferedBy(t, a) = 0 /\ FrontedBy(t, a) = 0
        /\ OfferedBy(s, a) = IF a = s.assetIn THEN s.amountIn ELSE 0
        /\ FrontedBy(s, a) = IF a = s.assetOut THEN s.amountOut ELSE 0
  BY <1>2, <1>3, ReleasedBy
<1>9. \A a \in Assets :
        balance'[a][SwapContract] =
          balance[a][SwapContract] - OfferedBy(s, a) - FrontedBy(s, a)
                                   + OfferedBy(t, a) + FrontedBy(t, a)
  BY <1>2, <1>6, <1>8, Amounts
<1>10. SwapTypes' /\ EscrowCoversSwaps'
  BY <1>1, <1>3, <1>9, EscrowMoved DEF s
<1>11. Books'
  <2>. USE DEF Books
  <2>1. <<note>> \in [1..1 -> Note] /\ Range(<<note>>) = {note} /\ IsInjective(<<note>>)
    BY <1>1, OneNote
  <2>2. /\ InsertMany(<<note>>) /\ seen' = seen \cup {note} /\ note \notin seen
        /\ supply' = [supply EXCEPT ![s.assetOut] = @ + s.amountOut]
        /\ UNCHANGED nullifiers /\ UNCHANGED clawed /\ UNCHANGED settings
    BY <1>1, <1>4 DEF TakeNote, Credited
  <2>3. /\ leaves' \in Seq(Note) /\ history' \in Seq(1..MaxLeaves) /\ Len(history') <= RootHistorySize
        /\ seen' \subseteq Note /\ SeenMatchesTree'
    BY <2>1, <2>2, InsertKeepsTree DEF SwapInv
  <2>4. /\ supply' \in [Assets -> Nat] /\ clawed' \in [Assets -> Nat]
        /\ \A a \in Assets : supply'[a] = supply[a] + (IF a = s.assetOut THEN s.amountOut ELSE 0)
    BY <1>2, <2>2 DEF SwapInv, TypeOK
  <2>5. \A a \in Assets : /\ balance[a][Pool] + clawed[a] >= supply[a]
                          /\ balance[a][Pool] \in Nat /\ clawed[a] \in Nat /\ supply[a] \in Nat
    BY Amounts DEF SwapInv, TypeOK, CustodyCoversSupply
  <2>6. CustodyCoversSupply'
    BY <1>2, <1>7, <2>2, <2>4, <2>5 DEF CustodyCoversSupply
  <2>7. nullifiers' \subseteq NullifierSet /\ SettingsTypeOK'
    BY <2>2, SettingsKept DEF TypeOK, SwapInv
  <2>. QED
    BY <1>6, <2>3, <2>4, <2>6, <2>7 DEF TypeOK, BalanceType
<1>. QED
  BY <1>10, <1>11 DEF SwapInv

\* An issuer's clawback from the escrow is accounted for.
LEMMA SeizeKeeps ==
  ASSUME SwapInv, NEW asset \in Assets, NEW amount \in 1..balance[asset][SwapContract],
         SeizeEscrow(asset, amount)
  PROVE  SwapInv'
<1>1. /\ balance' = [balance EXCEPT ![asset][SwapContract] = @ - amount]
      /\ seized' = [seized EXCEPT ![asset] = @ + amount]
      /\ UNCHANGED tokenVars /\ UNCHANGED swapVars /\ UNCHANGED ledger
  BY DEF SeizeEscrow
<1>2. /\ balance \in BalanceType /\ seized \in [Assets -> Nat]
      /\ balance[asset][SwapContract] \in Nat
  BY Amounts DEF SwapInv, SwapTypes
<1>3. amount \in Nat /\ amount <= balance[asset][SwapContract]
  BY <1>2
<1>4. /\ balance' \in BalanceType /\ seized' \in [Assets -> Nat]
      /\ \A a \in Assets : /\ balance'[a][Pool] = balance[a][Pool]
                          /\ Held(a)' = Held(a)
  BY <1>1, <1>2, <1>3, TheContracts DEF BalanceType, Held
<1>5. Books'
  BY <1>1, <1>4, BooksUntouched DEF SwapInv
<1>6. SwapTypes'
  BY <1>1, <1>4 DEF SwapInv, SwapTypes, EntryOK, swapVars
<1>7. EscrowCoversSwaps'
  <2>1. \A a \in Assets : Due(a)' = Due(a)
    BY <1>1, DueKept DEF swapVars
  <2>2. \A a \in Assets : Held(a)' >= Due(a)'
    BY <1>4, <2>1, Amounts
  <2>. QED
    BY <2>2 DEF EscrowCoversSwaps, Held, Due
<1>. QED
  BY <1>5, <1>6, <1>7 DEF SwapInv

\* A call that does not come from the swap contract is one of the token's own.
LEMMA DirectIsNext == DirectStep => Next
BY TheContracts DEF DirectStep, Next, PoolStep, ShieldStep, AssetStep

\* Nobody else can pay out of the escrow.
LEMMA DirectKeeps ==
  ASSUME SwapInv, DirectStep
  PROVE  SwapInv'
<1>1. Books'
  BY DirectIsNext, BooksStep DEF SwapInv
<1>2. UNCHANGED <<swapVars, ledger, seized>>
  BY DEF DirectStep
<1>. DEFINE Kept == \A a \in Assets : /\ balance'[a][SwapContract] \in Nat
                                    /\ balance'[a][SwapContract] >= balance[a][SwapContract]
<1>3. ASSUME NEW from \in Users, NEW note \in Note, Shield(from, note) PROVE Kept
  <2>1. /\ note.asset \in Assets /\ note.value \in Nat
        /\ note.value <= balance[note.asset][from]
        /\ balance' = Paid(note.asset, from, Pool, note.value)
    BY <1>3, NoteFields DEF Shield
  <2>. QED
    BY <2>1, TheContracts, PaidByAnother
<1>4. ASSUME NEW from \in Users, NEW asset \in Assets, NEW n \in BatchSizes,
             NEW items \in [1..n -> Note], ShieldBatch(from, asset, items)
      PROVE  Kept
  <2>1. n \in Nat /\ DOMAIN items = 1..n
    BY TokenAssumption, LogAssumption DEF BatchSizes
  <2>. IsInjective(items)
    BY <1>4, BatchItems
  <2>2. /\ ValueOf(items) \in Nat /\ ValueOf(items) <= balance[asset][from]
        /\ balance' = Paid(asset, from, Pool, ValueOf(items))
    BY <1>4, <2>1, SequenceWorth DEF ShieldBatch
  <2>. QED
    BY <2>2, TheContracts, PaidByAnother
<1>5. ASSUME TransferStep PROVE Kept
  <2>1. PICK n \in TransferArities, asset \in Assets, fee \in 0..MaxValue :
          \E ins, outs \in [1..n -> Note], relayer \in Accounts \cup {None}, anchor \in KnownRoots :
            (fee > 0 => relayer \in Accounts) /\ Transfer(ins, outs, fee, asset, relayer, anchor)
    BY <1>5, TransferStepCalls DEF TransferCalls, SwapInv
  <2>2. PICK relayer \in Accounts \cup {None} :
          /\ fee > 0 => relayer \in Accounts
          /\ fee <= balance[asset][Pool]
          /\ balance' = IF fee > 0 THEN Paid(asset, Pool, relayer, fee) ELSE balance
    BY <2>1 DEF Transfer, TransferAccepted
  <2>3. CASE fee > 0
    <3>1. relayer \in Holders /\ fee \in Nat /\ balance' = Paid(asset, Pool, relayer, fee)
      BY <2>2, <2>3, ValueAssumption DEF Holders
    <3>. QED
      BY <2>2, <3>1, TheContracts, PaidByAnother
  <2>4. CASE ~(fee > 0)
    BY <2>2, <2>4, Amounts
  <2>. QED
    BY <2>3, <2>4
<1>6. ASSUME UnshieldStep PROVE Kept
  <2>1. PICK note \in Note, change \in Note, to \in Holders, pubValue \in 1..MaxValue, anchor \in KnownRoots :
          Unshield(note, pubValue, change, to, anchor)
    BY <1>6, UnshieldStepCalls DEF UnshieldCalls, SwapInv
  <2>2. /\ note.asset \in Assets /\ pubValue \in Nat /\ pubValue <= supply[note.asset]
        /\ balance' = Paid(note.asset, Pool, to, Payout(note.asset, pubValue))
    BY <2>1, NoteFields, ValueAssumption DEF Unshield, UnshieldAccepted
  <2>3. /\ Payout(note.asset, pubValue) \in Nat
        /\ Payout(note.asset, pubValue) <= balance[note.asset][Pool]
    BY <2>2, PayoutBounds DEF SwapInv
  <2>. QED
    BY <2>2, <2>3, TheContracts, PaidByAnother
<1>7. ASSUME AdminStep PROVE Kept
  BY <1>7, Amounts DEF AdminStep
<1>8. ASSUME NEW asset \in Assets, NEW amount \in 1..balance[asset][Pool], Clawback(asset, amount)
      PROVE  Kept
  <2>1. balance' = [balance EXCEPT ![asset][Pool] = @ - amount]
    BY <1>8 DEF Clawback
  <2>2. \A a \in Assets : balance'[a][SwapContract] = balance[a][SwapContract]
    BY <2>1, Amounts, TheContracts DEF BalanceType
  <2>. QED
    BY <2>2, Amounts
<1>9. ASSUME NEW asset \in Assets, NEW from \in Users, NEW amount \in 1..balance[asset][from],
             Donate(asset, from, amount)
      PROVE  Kept
  <2>1. balance[asset][from] \in Nat
    BY Amounts, TheContracts
  <2>2. /\ amount \in Nat /\ amount <= balance[asset][from]
        /\ balance' = Paid(asset, from, Pool, amount)
    BY <1>9, <2>1 DEF Donate
  <2>. QED
    BY <2>2, TheContracts, PaidByAnother
<1>10. Kept
  BY <1>3, <1>4, <1>5, <1>6, <1>7, <1>8, <1>9 DEF DirectStep
<1>. QED
  BY <1>1, <1>2, <1>10, EscrowUndisturbed DEF SwapInv

\* Time, the swap contract's switches and stuttering.
LEMMA OthersKeep ==
  ASSUME SwapInv, SwapAdminStep \/ Tick \/ UNCHANGED allVars
  PROVE  SwapInv'
<1>1. UNCHANGED vars /\ UNCHANGED seized /\ UNCHANGED swaps
  BY DEF SwapAdminStep, SetSwapPaused, SetSwapRelayer, Tick, allVars, swapVars
<1>2. Books'
  BY <1>1, BooksStep DEF SwapInv
<1>3. SwapTypes'
  BY SwapAssumption
     DEF SwapInv, SwapTypes, EntryOK, SwapAdminStep, SetSwapPaused, SetSwapRelayer, Tick,
         allVars, swapVars
<1>4. EscrowCoversSwaps'
  <2>1. \A a \in Assets : Due(a)' = Due(a) /\ Held(a)' = Held(a)
    BY <1>1, DueKept DEF Held, vars
  <2>2. \A a \in Assets : Held(a)' >= Due(a)'
    BY <2>1, Amounts
  <2>. QED
    BY <2>2 DEF EscrowCoversSwaps, Held, Due
<1>. QED
  BY <1>2, <1>3, <1>4 DEF SwapInv

LEMMA SwapInvStep == SwapInv /\ [SwapNext]_allVars => SwapInv'
<1>. SUFFICES ASSUME SwapInv, [SwapNext]_allVars PROVE SwapInv'
  OBVIOUS
<1>1. CASE CommitStep
  BY <1>1, CommitKeeps DEF CommitStep
<1>2. CASE SettleStep
  BY <1>2, ExecuteKeeps, ClaimKeeps, CancelKeeps, ReclaimKeeps DEF SettleStep
<1>3. CASE SeizeStep
  BY <1>3, SeizeKeeps DEF SeizeStep
<1>. QED
  BY <1>1, <1>2, <1>3, DirectKeeps, OthersKeep DEF SwapNext

LEMMA SwapInvInitially == SwapInit => SwapInv
<1>. SUFFICES ASSUME SwapInit PROVE SwapInv
  OBVIOUS
<1>1. Books
  BY BooksInit DEF SwapInit
<1>2. SwapTypes
  <2>1. \A i \in Intents : swaps[i] = None
    BY DEF SwapInit
  <2>2. swaps \in [Intents -> SwapEntry \cup {None}] /\ \A i \in Intents : EntryOK(swaps[i])
    BY <2>1 DEF SwapInit, EntryOK
  <2>3. ledger \in 0..MaxLedger /\ seized \in [Assets -> Nat]
    BY SwapAssumption DEF SwapInit
  <2>. QED
    BY <2>2, <2>3 DEF SwapInit, SwapTypes
<1>3. EscrowCoversSwaps
  <2>1. ASSUME NEW a \in Assets PROVE Held(a) >= Due(a)
    <3>1. OfferedUnits(a) = {} /\ FrontedUnits(a) = {}
      BY DEF SwapInit, OfferedUnits, FrontedUnits, OpenSwap, HasStatus
    <3>2. Due(a) = 0
      BY <3>1, FS_EmptySet DEF Due
    <3>3. balance[a][SwapContract] \in Nat /\ seized[a] \in Nat
      BY <1>1, <1>2, TheContracts DEF Books, TypeOK, SwapTypes
    <3>. QED
      BY <3>2, <3>3 DEF Held
  <2>. QED
    BY <2>1, CoveredMeansHeld
<1>. QED
  BY <1>1, <1>2, <1>3 DEF SwapInv

THEOREM SwapInvariant == SwapSpec => []SwapInv
BY SwapInvInitially, SwapInvStep, PTL DEF SwapSpec

\* Every state of the two contracts together is well typed, and every swap that
\* was executed has a relayer and a price its maker agreed to.
THEOREM SwapTypeCorrect == SwapSpec => []SwapTypeOK
<1>1. SwapInv => SwapTypeOK
  BY SwapTypesSuffice DEF SwapInv, Books
<1>. QED
  BY <1>1, SwapInvariant, PTL

\* The one balance of an asset covers all open swaps, for any number of swaps,
\* parties, assets and amounts, any order in which they are settled, and any
\* shortfall of the pool; only what issuers seize is missing.
THEOREM EscrowCorrect == SwapSpec => []EscrowCoversSwaps
<1>1. SwapInv => EscrowCoversSwaps
  BY DEF SwapInv
<1>. QED
  BY <1>1, SwapInvariant, PTL

---------------------------------------------------------------------------
(* The pool stays solvent. *)

\* The swap contract only unshields and, at a claim, takes what it pays as a note.
LEMMA SwapSolvencyStep == SwapInv /\ SwapInv' /\ Solvency /\ [SwapNext]_allVars => Solvency'
<1>. SUFFICES ASSUME SwapInv, SwapInv', Solvency, [SwapNext]_allVars PROVE Solvency'
  OBVIOUS
<1>1. Books /\ Books'
  BY DEF SwapInv
<1>2. CASE Next
  BY <1>1, <1>2, SolvencyStep
<1>3. CASE DirectStep
  BY <1>2, <1>3, DirectIsNext
<1>4. CASE CommitStep
  <2>1. PICK k \in Intents, terms \in Terms, note \in LiveNotes, change \in Note, anchor \in KnownRoots :
          CommitSwap(k, note, change, anchor, terms)
    BY <1>4 DEF CommitStep
  <2>2. Unshield(note, terms.amountIn, change, SwapContract, anchor)
    BY <2>1 DEF CommitSwap
  <2>3. note \in Range(leaves) /\ SwapContract \in Holders /\ terms.amountIn \in 1..MaxValue
    BY <2>1, TheContracts DEF LiveNotes, Terms
  <2>4. UnshieldStep
    BY <2>1, <2>2, <2>3 DEF UnshieldStep
  <2>. QED
    BY <1>2, <2>4 DEF Next, PoolStep
<1>5. ASSUME NEW k \in Intents, RevealAndClaim(k) PROVE Solvency'
  <2>. DEFINE note == ClaimedNote(swaps[k])
  <2>1. note \in Note /\ TakeNote(note)
    BY <1>5, ClaimEffect
  <2>. HIDE DEF note
  <2>2. /\ seen' = seen \cup {note} /\ UNCHANGED nullifiers
        /\ supply' = [supply EXCEPT ![note.asset] = @ + note.value]
    BY <2>1 DEF TakeNote, Credited
  <2>3. note.asset \in Assets /\ IsFiniteSet({note}) /\ Worth({note}) = note.value
    BY <2>1, NoteFields, WorthOne
  <2>4. \A x \in {note} : x.asset = note.asset
    OBVIOUS
  <2>. QED
    BY <1>1, <2>2, <2>3, <2>4, DepositSolvent
<1>6. ASSUME UNCHANGED <<leaves, nullifiers, supply>> PROVE Solvency'
  BY <1>6 DEF Solvency, LiveValue, LiveNotesOf, LiveNotes
<1>7. ASSUME NEW k \in Intents,
             \/ \E amountOut \in 1..MaxValue, relayer \in Users : ExecuteSwap(k, amountOut, relayer)
             \/ CancelSwap(k) \/ ReclaimExpiredSwap(k)
      PROVE  Solvency'
  <2>1. CASE \E amountOut \in 1..MaxValue, relayer \in Users : ExecuteSwap(k, amountOut, relayer)
    BY <1>6, <2>1 DEF ExecuteSwap, tokenVars, poolVars
  <2>2. CASE CancelSwap(k)
    BY <1>6, <2>2 DEF CancelSwap, tokenVars, poolVars
  <2>3. CASE ReclaimExpiredSwap(k)
    BY <1>6, <2>3 DEF ReclaimExpiredSwap, tokenVars, poolVars
  <2>. QED
    BY <1>7, <2>1, <2>2, <2>3
<1>8. CASE SeizeStep
  BY <1>6, <1>8 DEF SeizeStep, SeizeEscrow, tokenVars, poolVars
<1>9. CASE SwapAdminStep \/ Tick \/ UNCHANGED allVars
  BY <1>6, <1>9 DEF SwapAdminStep, SetSwapPaused, SetSwapRelayer, Tick, allVars, vars, poolVars
<1>. QED
  BY <1>3, <1>4, <1>5, <1>7, <1>8, <1>9 DEF SwapNext, SettleStep

\* However swaps are committed, executed and settled, the notes that can still be
\* spent are worth no more than the pool's recorded supply.
THEOREM SolventWithSwaps == SwapSpec => []Solvency
<1>1. SwapInit => Solvency
  BY SolventInitially DEF SwapInit
<1>. QED
  BY <1>1, SwapInvariant, SwapSolvencyStep, PTL DEF SwapSpec

\* ... and no state of the two contracts refuses the owner of a live note.
THEOREM OwnersCanExitWithSwaps == SwapSpec => []OwnerCanExit
<1>1. SwapInv /\ Solvency => OwnerCanExit
  BY SolventExit DEF SwapInv
<1>. QED
  BY <1>1, SwapInvariant, SolventWithSwaps, PTL

---------------------------------------------------------------------------
(* The escrow implements the atomic trade. *)

\* OfferOf, of a swap instead of an intent
OfferFrom(s) ==
  IF s = None THEN None
  ELSE IF s.status \in {"Committed", "Executed"}
       THEN [asset |-> s.assetIn, amount |-> s.amountIn, wants |-> s.assetOut,
             atLeast |-> s.minOut, refundTo |-> s.refundTo]
       ELSE Closed

LEMMA OffersAre ==
  /\ Offers = [i \in Intents |-> OfferFrom(swaps[i])]
  /\ Offers' = [i \in Intents |-> OfferFrom(swaps'[i])]
<1>1. ASSUME NEW i \in Intents PROVE OfferOf(i) = OfferFrom(swaps[i])
  BY DEF OfferOf, OfferFrom, OpenSwap, HasStatus
<1>2. ASSUME NEW i \in Intents PROVE OfferOf(i)' = OfferFrom(swaps'[i])
  BY DEF OfferOf, OfferFrom, OpenSwap, HasStatus
<1>. QED
  BY <1>1, <1>2 DEF Offers

\* The offer of an open swap tells its terms, and is none of the two marks.
LEMMA OpenOffer ==
  ASSUME NEW s \in SwapEntry, s.status \in {"Committed", "Executed"}
  PROVE  /\ OfferFrom(s) \in Offer
         /\ OfferFrom(s) # None /\ OfferFrom(s) # Closed
         /\ OfferFrom(s).asset = s.assetIn /\ OfferFrom(s).amount = s.amountIn
         /\ OfferFrom(s).wants = s.assetOut /\ OfferFrom(s).atLeast = s.minOut
         /\ OfferFrom(s).refundTo = s.refundTo
<1>1. s # None
  BY SwapAssumption
<1>2. OfferFrom(s) = [asset |-> s.assetIn, amount |-> s.amountIn, wants |-> s.assetOut,
                      atLeast |-> s.minOut, refundTo |-> s.refundTo]
  BY <1>1 DEF OfferFrom
<1>3. OfferFrom(s) \in Offer
  BY <1>2 DEF Offer, SwapEntry
<1>. QED
  BY <1>2, <1>3, SwapAssumption

\* what a user has fronted
FrontedFor(a, u) == Cardinality({unit \in FrontedUnits(a) : swaps[unit[1]].relayer = u})
FrontedTo(s, a, u) == IF s # None /\ s.relayer = u THEN FrontedBy(s, a) ELSE 0

LEMMA FrontedForReplaced ==
  ASSUME SwapTypes, NEW k \in Intents, NEW s, EntryOK(s), NEW a, NEW u,
         \A i \in Intents : swaps'[i] = IF i = k THEN s ELSE swaps[i]
  PROVE  FrontedFor(a, u)' = FrontedFor(a, u) - FrontedTo(swaps[k], a, u) + FrontedTo(s, a, u)
<1>. DEFINE S == {unit \in FrontedUnits(a) : swaps[unit[1]].relayer = u}
            whole == {k} \X (1..MaxValue)
            m == FrontedTo(swaps[k], a, u)
            n == FrontedTo(s, a, u)
<1>1. EntryOK(swaps[k])
  BY DEF SwapTypes
<1>2. m \in 0..MaxValue /\ n \in 0..MaxValue
  BY <1>1, PartsAreAmounts, ValueAssumption DEF FrontedTo
<1>3. S \in SUBSET (Intents \X (1..MaxValue))
  BY DEF FrontedUnits
<1>4. S \cap whole = {k} \X (1..m)
  BY <1>1, ValueAssumption DEF FrontedUnits, FrontedTo, FrontedBy, HasStatus, EntryOK, SwapEntry
<1>5. S' = (S \ whole) \cup ({k} \X (1..n))
  BY ValueAssumption DEF FrontedUnits, FrontedTo, FrontedBy, HasStatus, EntryOK, SwapEntry
<1>. HIDE DEF m, n
<1>6. Cardinality(S') = Cardinality(S) - m + n
  BY <1>2, <1>3, <1>4, <1>5, UnitsReplaced
<1>. QED
  BY <1>6 DEF FrontedFor, m, n

LEMMA FrontedForKept ==
  ASSUME UNCHANGED swaps, NEW a, NEW u
  PROVE  FrontedFor(a, u)' = FrontedFor(a, u)
BY DEF FrontedFor, FrontedUnits, HasStatus

LEMMA FrontedForNat ==
  ASSUME NEW a, NEW u
  PROVE  FrontedFor(a, u) \in Nat /\ FrontedFor(a, u)' \in Nat
<1>. DEFINE S == {unit \in FrontedUnits(a) : swaps[unit[1]].relayer = u}
<1>1. S \in SUBSET (Intents \X (1..MaxValue)) /\ S' \in SUBSET (Intents \X (1..MaxValue))
  BY DEF FrontedUnits
<1>2. Cardinality(S) \in Nat /\ Cardinality(S') \in Nat
  BY <1>1, UnitSetsFinite
<1>. QED
  BY <1>2 DEF FrontedFor

WealthType == [Assets -> [Users -> Int]]

LEMMA WealthsAre ==
  ASSUME balance \in BalanceType
  PROVE  /\ Wealths \in [Assets -> [Users -> Nat]] /\ Wealths \in WealthType
         /\ \A a \in Assets, u \in Users : Wealths[a][u] = balance[a][u] + FrontedFor(a, u)
<1>1. \A a \in Assets, u \in Users : Wealth(a, u) = balance[a][u] + FrontedFor(a, u)
  BY DEF Wealth, FrontedFor
<1>2. \A a \in Assets, u \in Users : balance[a][u] \in Nat /\ FrontedFor(a, u) \in Nat
  BY TheContracts, FrontedForNat DEF BalanceType
<1>3. \A a \in Assets, u \in Users : Wealth(a, u) \in Nat
  BY <1>1, <1>2
<1>. QED
  BY <1>1, <1>3 DEF Wealths, WealthType

LEMMA WealthsAfter ==
  ASSUME balance' \in BalanceType
  PROVE  /\ Wealths' \in WealthType
         /\ \A a \in Assets, u \in Users : Wealths'[a][u] = balance'[a][u] + FrontedFor(a, u)'
<1>1. ASSUME NEW a \in Assets, NEW u \in Users
      PROVE  Wealth(a, u)' = balance'[a][u] + FrontedFor(a, u)'
  BY DEF Wealth, FrontedFor
<1>2. ASSUME NEW a \in Assets, NEW u \in Users
      PROVE  balance'[a][u] \in Nat /\ FrontedFor(a, u)' \in Nat
  BY FrontedForNat, TheContracts DEF BalanceType
<1>3. Wealths' = [a \in Assets |-> [u \in Users |-> Wealth(a, u)']]
  BY DEF Wealths
<1>4. \A a \in Assets, u \in Users : Wealth(a, u)' \in Int
  BY <1>1, <1>2
<1>. QED
  BY <1>1, <1>3, <1>4 DEF WealthType

LEMMA WealthEqual ==
  ASSUME NEW V \in WealthType, NEW W \in WealthType,
         \A a \in Assets, u \in Users : V[a][u] = W[a][u]
  PROVE  V = W
<1>1. ASSUME NEW a \in Assets PROVE V[a] = W[a]
  BY DEF WealthType
<1>. QED
  BY <1>1 DEF WealthType

LEMMA GainsAre ==
  ASSUME NEW W \in WealthType, NEW user \in Users, NEW asset \in Assets, NEW amount \in Int
  PROVE  /\ Trades!Gains(W, user, asset, amount) \in WealthType
         /\ \A a \in Assets, u \in Users :
              Trades!Gains(W, user, asset, amount)[a][u] =
                W[a][u] + (IF a = asset /\ u = user THEN amount ELSE 0)
BY DEF Trades!Gains, WealthType

LEMMA BalancesNext ==
  ASSUME SwapInv'
  PROVE  /\ balance' \in BalanceType /\ supply' \in [Assets -> Nat]
         /\ \A a \in Assets, u \in Users : balance'[a][u] \in Nat
         /\ \A a \in Assets : supply'[a] \in Nat
BY TheContracts DEF SwapInv, Books, TypeOK, BalanceType

LEMMA BalancesNow ==
  ASSUME SwapInv
  PROVE  /\ balance \in BalanceType /\ supply \in [Assets -> Nat]
         /\ \A a \in Assets, u \in Users : balance[a][u] \in Nat
         /\ \A a \in Assets : supply[a] \in Nat
BY TheContracts DEF SwapInv, Books, TypeOK, BalanceType

\* Nothing of the trade changes when no offer, no user's balance and no debt of
\* the pool does.
LEMMA NoTrade ==
  ASSUME SwapInv, SwapInv', UNCHANGED swaps, supply' = supply,
         \A a \in Assets, u \in Users : balance'[a][u] = balance[a][u]
  PROVE  UNCHANGED Trades!tradeVars
<1>1. Offers' = Offers
  BY OffersAre
<1>2. Wealths \in WealthType /\ Wealths' \in WealthType
  BY BalancesNow, BalancesNext, WealthsAre, WealthsAfter
<1>3. ASSUME NEW a \in Assets, NEW u \in Users PROVE Wealths'[a][u] = Wealths[a][u]
  BY BalancesNow, BalancesNext, WealthsAre, WealthsAfter, FrontedForKept
<1>4. Wealths' = Wealths
  BY <1>2, <1>3, WealthEqual
<1>. QED
  BY <1>1, <1>4 DEF Trades!tradeVars

\* A payment between one user and the pool, for reasons of their own.
LEMMA PoolTrade ==
  ASSUME SwapInv, SwapInv', UNCHANGED swaps, NEW asset \in Assets, NEW user \in Users,
         \A a \in Assets, u \in Users :
           a # asset \/ u # user => balance'[a][u] = balance[a][u],
         \A a \in Assets \ {asset} : supply'[a] = supply[a],
         balance'[asset][user] - balance[asset][user] <= supply[asset] - supply'[asset]
  PROVE  Trades!Next
<1>1. Offers' = Offers
  BY OffersAre
<1>2. /\ Wealths \in WealthType /\ Wealths' \in WealthType
      /\ supply \in [Assets -> Nat] /\ supply' \in [Assets -> Nat]
  BY BalancesNow, BalancesNext, WealthsAre, WealthsAfter
<1>3. ASSUME NEW a \in Assets, NEW u \in Users
      PROVE  Wealths'[a][u] - Wealths[a][u] = balance'[a][u] - balance[a][u]
  BY BalancesNow, BalancesNext, WealthsAre, WealthsAfter, FrontedForKept, FrontedForNat
<1>4. ASSUME NEW a \in Assets, NEW u \in Users, a # asset \/ u # user
      PROVE  Wealths'[a][u] = Wealths[a][u]
  <2>1. Wealths'[a][u] = balance'[a][u] + FrontedFor(a, u)'
    BY BalancesNext, WealthsAfter
  <2>2. Wealths[a][u] = balance[a][u] + FrontedFor(a, u)
    BY BalancesNow, WealthsAre
  <2>. QED
    BY <1>4, <2>1, <2>2, FrontedForKept
<1>5. Wealths' = [Wealths EXCEPT ![asset][user] = Wealths'[asset][user]]
  <2>. DEFINE W == [Wealths EXCEPT ![asset][user] = Wealths'[asset][user]]
  <2>1. Wealths'[asset][user] \in Int
    BY <1>2 DEF WealthType
  <2>2. W \in WealthType
    BY <1>2, <2>1 DEF WealthType
  <2>3. ASSUME NEW a \in Assets, NEW u \in Users PROVE Wealths'[a][u] = W[a][u]
    <3>1. W[a][u] = IF a = asset /\ u = user THEN Wealths'[asset][user] ELSE Wealths[a][u]
      BY <1>2 DEF WealthType
    <3>. QED
      BY <1>4, <3>1
  <2>. HIDE DEF W
  <2>4. Wealths' = W
    BY <1>2, <2>2, <2>3, WealthEqual
  <2>. QED
    BY <2>4 DEF W
<1>6. supply' = [supply EXCEPT ![asset] = supply'[asset]]
  BY <1>2
<1>7. Wealths'[asset][user] - Wealths[asset][user] <= supply[asset] - supply'[asset]
  BY <1>3
<1>8. Trades!Elsewhere(asset, user)
  BY <1>1, <1>5, <1>6, <1>7 DEF Trades!Elsewhere
<1>. QED
  BY <1>8 DEF Trades!Next

\* ... into the pool,
LEMMA TradePaidIn ==
  ASSUME SwapInv, SwapInv', UNCHANGED swaps, NEW asset \in Assets, NEW from \in Users,
         NEW amount \in Nat, amount <= balance[asset][from],
         balance' = Paid(asset, from, Pool, amount),
         NEW credit \in Nat, credit <= amount, supply' = [supply EXCEPT ![asset] = @ + credit]
  PROVE  Trades!Next
<1>1. /\ from \in Holders /\ from # Pool /\ Pool \in Holders
      /\ \A u \in Users : u \in Holders /\ u # Pool
  BY TheContracts
<1>2. \A a \in Assets, u \in Users :
        balance'[a][u] = balance[a][u] - (IF a = asset /\ u = from THEN amount ELSE 0)
  BY <1>1, BalancesNow, PaidRows
<1>3. \A a \in Assets, u \in Users : a # asset \/ u # from => balance'[a][u] = balance[a][u]
  BY <1>2, BalancesNow
<1>4. /\ supply[asset] - supply'[asset] = -credit
      /\ \A a \in Assets \ {asset} : supply'[a] = supply[a]
  BY BalancesNow
<1>5. balance'[asset][from] - balance[asset][from] <= supply[asset] - supply'[asset]
  BY <1>2, <1>4, BalancesNow
<1>. QED
  BY <1>3, <1>4, <1>5, PoolTrade

\* ... or out of it, to a user or to somebody whose wealth does not count.
LEMMA TradePaidOut ==
  ASSUME SwapInv, SwapInv', UNCHANGED swaps, NEW asset \in Assets, NEW to \in Holders,
         NEW amount \in Nat, amount <= balance[asset][Pool],
         balance' = Paid(asset, Pool, to, amount),
         NEW debit \in Nat, amount <= debit, supply' = [supply EXCEPT ![asset] = @ - debit]
  PROVE  Trades!Next
<1>1. Pool \in Holders /\ SwapAdmin \in Users /\ \A u \in Users : u \in Holders /\ u # Pool
  BY TheContracts, SwapAssumption
<1>2. \A a \in Assets, u \in Users :
        balance'[a][u] = balance[a][u] + (IF a = asset /\ u = to THEN amount ELSE 0)
  BY <1>1, BalancesNow, PaidRows
<1>3. /\ supply[asset] - supply'[asset] = debit
      /\ \A a \in Assets \ {asset} : supply'[a] = supply[a]
  BY BalancesNow
<1>. DEFINE user == IF to \in Users THEN to ELSE SwapAdmin
<1>4. user \in Users
  BY <1>1
<1>5. \A a \in Assets, u \in Users : a # asset \/ u # user => balance'[a][u] = balance[a][u]
  BY <1>2, BalancesNow
<1>6. balance'[asset][user] - balance[asset][user] <= supply[asset] - supply'[asset]
  <2>1. balance'[asset][user] - balance[asset][user] \in {0, amount}
    BY <1>2, <1>4, BalancesNow
  <2>. QED
    BY <1>3, <2>1
<1>. HIDE DEF user
<1>. QED
  BY <1>3, <1>4, <1>5, <1>6, PoolTrade

LEMMA TradeDirect ==
  ASSUME SwapInv, SwapInv', DirectStep
  PROVE  [Trades!Next]_Trades!tradeVars
<1>. DEFINE Moved == Trades!Next \/ UNCHANGED Trades!tradeVars
<1>1. UNCHANGED swaps
  BY DEF DirectStep, swapVars
<1>2. ASSUME NEW from \in Users, NEW note \in Note, Shield(from, note) PROVE Moved
  <2>1. /\ note.asset \in Assets /\ note.value \in Nat /\ note.value <= note.value
        /\ note.value <= balance[note.asset][from]
        /\ balance' = Paid(note.asset, from, Pool, note.value)
        /\ supply' = [supply EXCEPT ![note.asset] = @ + note.value]
    BY <1>2, NoteFields DEF Shield, TakeNote, Credited
  <2>. QED
    BY <1>1, <2>1, TradePaidIn
<1>3. ASSUME NEW from \in Users, NEW asset \in Assets, NEW n \in BatchSizes,
             NEW items \in [1..n -> Note], ShieldBatch(from, asset, items)
      PROVE  Moved
  <2>1. n \in Nat /\ DOMAIN items = 1..n
    BY TokenAssumption, LogAssumption DEF BatchSizes
  <2>. IsInjective(items)
    BY <1>3, BatchItems
  <2>2. /\ ValueOf(items) \in Nat /\ ValueOf(items) <= ValueOf(items)
        /\ ValueOf(items) <= balance[asset][from]
        /\ balance' = Paid(asset, from, Pool, ValueOf(items))
        /\ supply' = [supply EXCEPT ![asset] = @ + ValueOf(items)]
    BY <1>3, <2>1, SequenceWorth DEF ShieldBatch, Credited
  <2>. QED
    BY <1>1, <2>2, TradePaidIn
<1>4. ASSUME TransferStep PROVE Moved
  <2>1. PICK n \in TransferArities, asset \in Assets, fee \in 0..MaxValue :
          \E ins, outs \in [1..n -> Note], relayer \in Accounts \cup {None}, anchor \in KnownRoots :
            (fee > 0 => relayer \in Accounts) /\ Transfer(ins, outs, fee, asset, relayer, anchor)
    BY <1>4, TransferStepCalls DEF TransferCalls, SwapInv
  <2>2. PICK relayer \in Accounts \cup {None} :
          /\ fee > 0 => relayer \in Accounts
          /\ fee <= balance[asset][Pool]
          /\ balance' = IF fee > 0 THEN Paid(asset, Pool, relayer, fee) ELSE balance
          /\ supply' = [supply EXCEPT ![asset] = @ - fee]
    BY <2>1 DEF Transfer, TransferAccepted, Debited
  <2>3. fee \in Nat
    BY ValueAssumption
  <2>4. CASE fee > 0
    <3>1. relayer \in Holders /\ balance' = Paid(asset, Pool, relayer, fee) /\ fee <= fee
      BY <2>2, <2>3, <2>4 DEF Holders
    <3>. QED
      BY <1>1, <2>2, <2>3, <3>1, TradePaidOut
  <2>5. CASE fee = 0
    <3>1. supply' = supply
      BY <2>2, <2>5, BalancesNow
    <3>. QED
      BY <1>1, <2>2, <2>5, <3>1, NoTrade
  <2>. QED
    BY <2>3, <2>4, <2>5
<1>5. ASSUME UnshieldStep PROVE Moved
  <2>1. PICK note \in Note, change \in Note, to \in Holders, pubValue \in 1..MaxValue, anchor \in KnownRoots :
          Unshield(note, pubValue, change, to, anchor)
    BY <1>5, UnshieldStepCalls DEF UnshieldCalls, SwapInv
  <2>2. /\ note.asset \in Assets /\ pubValue \in Nat /\ pubValue <= supply[note.asset]
        /\ balance' = Paid(note.asset, Pool, to, Payout(note.asset, pubValue))
        /\ supply' = [supply EXCEPT ![note.asset] = @ - pubValue]
    BY <2>1, NoteFields, ValueAssumption DEF Unshield, UnshieldAccepted, Debited
  <2>3. /\ Payout(note.asset, pubValue) \in Nat
        /\ Payout(note.asset, pubValue) <= pubValue
        /\ Payout(note.asset, pubValue) <= balance[note.asset][Pool]
    BY <2>2, PayoutBounds DEF SwapInv
  <2>. QED
    BY <1>1, <2>2, <2>3, TradePaidOut
<1>6. ASSUME AdminStep PROVE Moved
  BY <1>1, <1>6, NoTrade DEF AdminStep, poolVars
<1>7. ASSUME NEW asset \in Assets, NEW amount \in 1..balance[asset][Pool], Clawback(asset, amount)
      PROVE  Moved
  <2>1. balance' = [balance EXCEPT ![asset][Pool] = @ - amount] /\ supply' = supply
    BY <1>7 DEF Clawback, poolVars
  <2>2. \A a \in Assets, u \in Users : balance'[a][u] = balance[a][u]
    BY <2>1, BalancesNow, TheContracts DEF BalanceType
  <2>. QED
    BY <1>1, <2>1, <2>2, NoTrade
<1>8. ASSUME NEW asset \in Assets, NEW from \in Users, NEW amount \in 1..balance[asset][from],
             Donate(asset, from, amount)
      PROVE  Moved
  <2>1. balance[asset][from] \in Nat
    BY BalancesNow
  <2>2. /\ amount \in Nat /\ amount <= balance[asset][from]
        /\ balance' = Paid(asset, from, Pool, amount)
        /\ supply' = supply
    BY <1>8, <2>1 DEF Donate, poolVars
  <2>3. 0 \in Nat /\ 0 <= amount /\ supply' = [supply EXCEPT ![asset] = @ + 0]
    BY <2>2, BalancesNow
  <2>. QED
    BY <1>1, <2>2, <2>3, TradePaidIn
<1>. QED
  BY <1>2, <1>3, <1>4, <1>5, <1>6, <1>7, <1>8 DEF DirectStep

\* A commit places the offer: the escrow's gain is the pool's, and nobody's wealth
\* has changed.
LEMMA TradeCommit ==
  ASSUME SwapInv, SwapInv', NEW k \in Intents, NEW note \in LiveNotes, NEW change \in Note,
         NEW anchor \in KnownRoots, NEW terms \in Terms,
         CommitSwap(k, note, change, anchor, terms)
  PROVE  Trades!Next
<1>. DEFINE s == [status |-> "Committed", assetIn |-> note.asset, assetOut |-> terms.assetOut,
                  amountIn |-> terms.amountIn, amountOut |-> 0, refundTo |-> terms.refundTo,
                  outOwner |-> terms.outOwner, outRho |-> terms.outRho, minOut |-> terms.minOut,
                  expiry |-> terms.expiry, relayer |-> None]
<1>1. note \in Note /\ note.asset \in Assets
  BY LeavesAreNotes, NoteFields DEF SwapInv, LiveNotes
<1>2. /\ Unshield(note, terms.amountIn, change, SwapContract, anchor)
      /\ swaps[k] = None
      /\ swaps' = [swaps EXCEPT ![k] = s]
      /\ UNCHANGED <<swapRelayers, swapPaused, ledger, seized>>
  BY DEF CommitSwap
<1>3. terms.amountIn \in Nat /\ terms.amountIn > 0 /\ terms.amountIn \in 1..MaxValue
  BY ValueAssumption DEF Terms
<1>4. EntryOK(s) /\ s \in SwapEntry /\ s.status = "Committed"
      /\ s.assetIn = note.asset /\ s.amountIn = terms.amountIn
  BY <1>1, CommittedEntry
<1>. HIDE DEF s
<1>5. \A i \in Intents : swaps'[i] = IF i = k THEN s ELSE swaps[i]
  <2>1. SwapTypes
    BY DEF SwapInv
  <2>2. /\ swaps' = [swaps EXCEPT ![k] = s]
        /\ ledger' = ledger /\ swapRelayers' = swapRelayers
        /\ swapPaused' = swapPaused /\ seized' = seized
    BY <1>2
  <2>. QED
    BY <1>4, <2>1, <2>2, EntryReplaced, ZenonT(60)
<1>6. /\ Offers[k] = None
      /\ Offers'[k] = OfferFrom(s)
      /\ Offers' = [Offers EXCEPT ![k] = Offers'[k]]
  <2>1. \A i \in Intents : i # k => Offers'[i] = Offers[i]
    BY <1>5, OffersAre
  <2>2. Offers' = [Offers EXCEPT ![k] = Offers'[k]]
    BY <2>1, OffersAre
  <2>3. Offers[k] = None
    BY <1>2, OffersAre DEF OfferFrom
  <2>4. Offers'[k] = OfferFrom(s)
    BY <1>5, OffersAre
  <2>. QED
    BY <2>2, <2>3, <2>4
<1>7. /\ OfferFrom(s) \notin {None, Closed}
      /\ OfferFrom(s).asset = note.asset /\ OfferFrom(s).amount = terms.amountIn
  BY <1>4, OpenOffer
<1>8. supply' = Trades!Plus(supply, note.asset, -terms.amountIn)
  <2>1. supply' = [supply EXCEPT ![note.asset] = @ - terms.amountIn]
    BY <1>2 DEF Unshield, Debited
  <2>. QED
    BY <1>3, <2>1, BalancesNow DEF Trades!Plus
<1>9. Wealths' = Wealths
  <2>1. terms.amountIn <= supply[note.asset]
    BY <1>2 DEF Unshield, UnshieldAccepted
  <2>2. Payout(note.asset, terms.amountIn) \in Nat
        /\ Payout(note.asset, terms.amountIn) <= balance[note.asset][Pool]
    BY <1>1, <1>3, <2>1, PayoutBounds DEF SwapInv
  <2>3. balance' = Paid(note.asset, Pool, SwapContract, Payout(note.asset, terms.amountIn))
    BY <1>2 DEF Unshield
  <2>4. \A a \in Assets, u \in Users : u \in Holders /\ u # Pool /\ u # SwapContract
    BY TheContracts
  <2>5. \A a \in Assets, u \in Users : balance'[a][u] = balance[a][u]
    BY <1>1, <2>2, <2>3, <2>4, BalancesNow, TheContracts, PaidRows
  <2>6. \A a \in Assets, u \in Users : FrontedFor(a, u)' = FrontedFor(a, u)
    <3>1. \A a, u : FrontedTo(swaps[k], a, u) = 0 /\ FrontedTo(s, a, u) = 0
      BY <1>2, <1>4 DEF FrontedTo, FrontedBy
    <3>2. ASSUME NEW a \in Assets, NEW u \in Users
          PROVE  FrontedFor(a, u)' = FrontedFor(a, u) - FrontedTo(swaps[k], a, u) + FrontedTo(s, a, u)
      BY <1>4, <1>5, FrontedForReplaced DEF SwapInv
    <3>. QED
      BY <3>1, <3>2, FrontedForNat
  <2>7. Wealths \in WealthType /\ Wealths' \in WealthType
    BY BalancesNow, BalancesNext, WealthsAre, WealthsAfter
  <2>8. ASSUME NEW a \in Assets, NEW u \in Users PROVE Wealths'[a][u] = Wealths[a][u]
    BY <2>5, <2>6, BalancesNow, BalancesNext, WealthsAre, WealthsAfter
  <2>. QED
    BY <2>7, <2>8, WealthEqual
<1>10. Trades!Place(k)
  BY <1>3, <1>6, <1>7, <1>8, <1>9 DEF Trades!Place
<1>. QED
  BY <1>10 DEF Trades!Next

\* What the abstract state is after one swap changes.
LEMMA TradeMoved ==
  ASSUME SwapInv, SwapInv', NEW k \in Intents, NEW s, EntryOK(s),
         swaps' = [swaps EXCEPT ![k] = s]
  PROVE  /\ Offers' = [Offers EXCEPT ![k] = OfferFrom(s)]
         /\ \A a \in Assets, u \in Users :
              Wealths'[a][u] = Wealths[a][u] + balance'[a][u] - balance[a][u]
                                 - FrontedTo(swaps[k], a, u) + FrontedTo(s, a, u)
<1>1. \A i \in Intents : swaps'[i] = IF i = k THEN s ELSE swaps[i]
  BY DEF SwapInv, SwapTypes
<1>2. Offers' = [Offers EXCEPT ![k] = OfferFrom(s)]
  BY <1>1, OffersAre
<1>3. ASSUME NEW a \in Assets, NEW u \in Users
      PROVE  Wealths'[a][u] = Wealths[a][u] + balance'[a][u] - balance[a][u]
                                - FrontedTo(swaps[k], a, u) + FrontedTo(s, a, u)
  <2>1. FrontedFor(a, u)' = FrontedFor(a, u) - FrontedTo(swaps[k], a, u) + FrontedTo(s, a, u)
    BY <1>1, FrontedForReplaced DEF SwapInv
  <2>2. /\ Wealths[a][u] = balance[a][u] + FrontedFor(a, u)
        /\ Wealths'[a][u] = balance'[a][u] + FrontedFor(a, u)'
        /\ balance[a][u] \in Nat /\ balance'[a][u] \in Nat
        /\ FrontedFor(a, u) \in Nat
    BY BalancesNow, BalancesNext, WealthsAre, WealthsAfter, FrontedForNat
  <2>3. FrontedTo(swaps[k], a, u) \in Nat /\ FrontedTo(s, a, u) \in Nat
    <3>1. EntryOK(swaps[k])
      BY DEF SwapInv, SwapTypes
    <3>. QED
      BY <3>1, PartsAreAmounts, ValueAssumption DEF FrontedTo
  <2>. QED
    BY <2>1, <2>2, <2>3
<1>. QED
  BY <1>2, <1>3

\* What a relayer fronts is still theirs: to execute trades nothing yet.
LEMMA TradeExecute ==
  ASSUME SwapInv, SwapInv', NEW k \in Intents, NEW amountOut \in 1..MaxValue,
         NEW relayer \in Users, ExecuteSwap(k, amountOut, relayer)
  PROVE  UNCHANGED Trades!tradeVars
<1>. DEFINE s == swaps[k]
            t == Fronted(s, amountOut, relayer)
<1>1. /\ HasStatus(k, "Committed") /\ amountOut >= s.minOut
      /\ amountOut <= balance[s.assetOut][relayer]
      /\ balance' = Paid(s.assetOut, relayer, SwapContract, amountOut)
      /\ UNCHANGED tokenVars
      /\ swaps' = [swaps EXCEPT ![k] = t]
  BY ExecuteKeeps DEF ExecuteSwap
<1>2. /\ s \in SwapEntry /\ s # None /\ s.status = "Committed"
      /\ s.assetOut \in Assets /\ amountOut \in Nat
  BY <1>1, OpenEntry, ValueAssumption DEF SwapInv
<1>3. /\ EntryOK(t) /\ t # None
      /\ t.status = "Executed" /\ t.amountOut = amountOut /\ t.relayer = relayer
      /\ t.assetIn = s.assetIn /\ t.assetOut = s.assetOut /\ t.amountIn = s.amountIn
      /\ t.minOut = s.minOut /\ t.refundTo = s.refundTo
  BY <1>1, <1>2, FrontedEntry
<1>. HIDE DEF t
<1>4. /\ Offers' = [Offers EXCEPT ![k] = OfferFrom(t)]
      /\ \A a \in Assets, u \in Users :
           Wealths'[a][u] = Wealths[a][u] + balance'[a][u] - balance[a][u]
                              - FrontedTo(s, a, u) + FrontedTo(t, a, u)
  <2>1. EntryOK(t) /\ swaps' = [swaps EXCEPT ![k] = t]
    BY <1>1, <1>3
  <2>. QED
    BY <2>1, TradeMoved
<1>5. Offers' = Offers
  <2>1. OfferFrom(t) = OfferFrom(s)
    BY <1>2, <1>3 DEF OfferFrom
  <2>. QED
    BY <1>4, <2>1, OffersAre
<1>. HIDE DEF s
<1>6. ASSUME NEW a \in Assets, NEW u \in Users PROVE Wealths'[a][u] = Wealths[a][u]
  <2>1. u \in Holders /\ u # SwapContract /\ relayer \in Holders /\ SwapContract \in Holders
    BY TheContracts
  <2>2. balance'[a][u] = balance[a][u] - (IF a = s.assetOut /\ u = relayer THEN amountOut ELSE 0)
    <3>1. balance'[a][u] = balance[a][u] - (IF a = s.assetOut /\ u = relayer THEN amountOut ELSE 0)
                                         + (IF a = s.assetOut /\ u = SwapContract THEN amountOut ELSE 0)
      BY <1>1, <1>2, <2>1, BalancesNow, PaidRows
    <3>2. balance[a][u] \in Nat
      BY BalancesNow
    <3>. QED
      BY <1>2, <2>1, <3>1, <3>2
  <2>3. /\ FrontedTo(s, a, u) = 0
        /\ FrontedTo(t, a, u) = IF a = s.assetOut /\ u = relayer THEN amountOut ELSE 0
    BY <1>2, <1>3 DEF FrontedTo, FrontedBy
  <2>4. Wealths[a][u] \in Int /\ balance[a][u] \in Nat /\ balance'[a][u] \in Nat
    BY BalancesNow, BalancesNext, WealthsAre DEF WealthType
  <2>. QED
    BY <1>2, <1>4, <2>2, <2>3, <2>4
<1>7. Wealths' = Wealths
  BY <1>6, BalancesNow, BalancesNext, WealthsAre, WealthsAfter, WealthEqual
<1>. QED
  BY <1>1, <1>5, <1>7 DEF Trades!tradeVars, tokenVars, poolVars

\* A swap that closes is closed for good, and its relayer is owed nothing more.
LEMMA TradeClosed ==
  ASSUME NEW s, EntryOK(s), s # None, s.status \in {"Committed", "Executed"},
         NEW status \in {"Claimed", "Cancelled"}, status = "Claimed" => s.status = "Executed"
  PROVE  /\ EntryOK(Marked(s, status))
         /\ OfferFrom(Marked(s, status)) = Closed
         /\ \A a, u : FrontedTo(Marked(s, status), a, u) = 0
<1>. DEFINE t == Marked(s, status)
<1>1. EntryOK(t) /\ t # None /\ t.status = status
  BY MarkedEntry
<1>. HIDE DEF t
<1>2. OfferFrom(t) = Closed /\ \A a, u : FrontedTo(t, a, u) = 0
  BY <1>1 DEF OfferFrom, FrontedTo, FrontedBy
<1>. QED
  BY <1>1, <1>2 DEF t

\* the payments that make both parties of a swap whole
MadeWhole(s) ==
  \A a \in Assets, u \in Users :
    balance'[a][u] = balance[a][u] + FrontedTo(s, a, u)
      + (IF a = s.assetIn /\ u = s.refundTo THEN s.amountIn ELSE 0)

\* Both ways out pay the maker back, whatever was fronted going back with it.
LEMMA TradeUnwound ==
  ASSUME SwapInv, SwapInv', NEW k \in Intents,
         EntryOK(swaps[k]), swaps[k] # None, swaps[k].status \in {"Committed", "Executed"},
         swaps' = [swaps EXCEPT ![k] = Marked(swaps[k], "Cancelled")], supply' = supply,
         MadeWhole(swaps[k])
  PROVE  Trades!Next
<1>. DEFINE s == swaps[k]
            t == Marked(s, "Cancelled")
            W == Trades!Gains(Wealths, s.refundTo, s.assetIn, s.amountIn)
<1>1. EntryOK(t) /\ OfferFrom(t) = Closed /\ \A a, u : FrontedTo(t, a, u) = 0
  BY TradeClosed
<1>2. /\ s \in SwapEntry /\ s.refundTo \in Users /\ s.assetIn \in Assets /\ s.amountIn \in Nat
  BY ValueAssumption DEF EntryOK, SwapEntry
<1>3. /\ Offers[k] = OfferFrom(s) /\ OfferFrom(s) \notin {None, Closed}
      /\ OfferFrom(s).asset = s.assetIn /\ OfferFrom(s).amount = s.amountIn
      /\ OfferFrom(s).refundTo = s.refundTo
  BY <1>2, OffersAre, OpenOffer
<1>. swaps' = [swaps EXCEPT ![k] = t]
  OBVIOUS
<1>. HIDE DEF t
<1>4. /\ Offers' = [Offers EXCEPT ![k] = OfferFrom(t)]
      /\ \A a \in Assets, u \in Users :
           Wealths'[a][u] = Wealths[a][u] + balance'[a][u] - balance[a][u]
                              - FrontedTo(s, a, u) + FrontedTo(t, a, u)
  BY <1>1, TradeMoved
<1>5. \A a \in Assets, u \in Users :
        balance'[a][u] = balance[a][u] + FrontedTo(s, a, u)
          + (IF a = s.assetIn /\ u = s.refundTo THEN s.amountIn ELSE 0)
  BY DEF MadeWhole
<1>6. ASSUME NEW a \in Assets, NEW u \in Users PROVE FrontedTo(s, a, u) \in Nat
  <2>1. FrontedBy(s, a) \in Nat
    BY PartsAreAmounts, ValueAssumption
  <2>. QED
    BY <2>1 DEF FrontedTo
<1>7. /\ Wealths \in WealthType /\ Wealths' \in WealthType
      /\ \A a \in Assets, u \in Users : balance[a][u] \in Nat /\ Wealths[a][u] \in Int
  BY BalancesNow, BalancesNext, WealthsAre, WealthsAfter DEF WealthType
<1>8. /\ W \in WealthType
      /\ \A a \in Assets, u \in Users :
           W[a][u] = Wealths[a][u] + (IF a = s.assetIn /\ u = s.refundTo THEN s.amountIn ELSE 0)
  <2>. DEFINE user == s.refundTo
              asset == s.assetIn
              amount == s.amountIn
  <2>1. user \in Users /\ asset \in Assets /\ amount \in Int /\ Wealths \in WealthType
    BY <1>2, <1>7
  <2>. HIDE DEF s, user, asset, amount
  <2>2. /\ Trades!Gains(Wealths, user, asset, amount) \in WealthType
        /\ \A a \in Assets, u \in Users :
             Trades!Gains(Wealths, user, asset, amount)[a][u] =
               Wealths[a][u] + (IF a = asset /\ u = user THEN amount ELSE 0)
    BY <2>1, GainsAre
  <2>. QED
    BY <2>2 DEF user, asset, amount
<1>. HIDE DEF s, W
<1>9. ASSUME NEW a \in Assets, NEW u \in Users PROVE Wealths'[a][u] = W[a][u]
  BY <1>1, <1>2, <1>4, <1>5, <1>6, <1>7, <1>8
<1>10. Wealths' = W
  BY <1>7, <1>8, <1>9, WealthEqual
<1>11. Wealths' = Trades!Gains(Wealths, Offers[k].refundTo, Offers[k].asset, Offers[k].amount)
  BY <1>3, <1>10 DEF W
<1>12. Trades!Unwind(k)
  BY <1>1, <1>3, <1>4, <1>11 DEF Trades!Unwind, Trades!Open
<1>. QED
  BY <1>12 DEF Trades!Next

LEMMA TradeCancel ==
  ASSUME SwapInv, SwapInv', NEW k \in Intents, CancelSwap(k)
  PROVE  Trades!Next
<1>. DEFINE s == swaps[k]
<1>1. /\ HasStatus(k, "Committed")
      /\ s.amountIn <= balance[s.assetIn][SwapContract]
      /\ swaps' = [swaps EXCEPT ![k] = Marked(s, "Cancelled")]
      /\ balance' = Paid(s.assetIn, SwapContract, s.refundTo, s.amountIn)
      /\ supply' = supply
  BY WithStatusMarks DEF CancelSwap, SwapInv, tokenVars, poolVars
<1>2. /\ EntryOK(s) /\ s # None /\ s.status = "Committed"
      /\ s.assetIn \in Assets /\ s.amountIn \in Nat /\ s.refundTo \in Users
  BY <1>1, OpenEntry DEF SwapInv
<1>. HIDE DEF s
<1>3. ASSUME NEW a \in Assets, NEW u \in Users
      PROVE  balance'[a][u] = balance[a][u] + FrontedTo(s, a, u)
               + (IF a = s.assetIn /\ u = s.refundTo THEN s.amountIn ELSE 0)
  <2>1. u \in Holders /\ u # SwapContract /\ s.refundTo \in Holders /\ SwapContract \in Holders
    BY <1>2, TheContracts
  <2>2. balance[a][u] \in Nat /\ FrontedTo(s, a, u) = 0
    BY <1>2, BalancesNow DEF FrontedTo, FrontedBy
  <2>3. balance'[a][u] = balance[a][u] - (IF a = s.assetIn /\ u = SwapContract THEN s.amountIn ELSE 0)
                                       + (IF a = s.assetIn /\ u = s.refundTo THEN s.amountIn ELSE 0)
    BY <1>1, <1>2, <2>1, BalancesNow, PaidRows
  <2>. QED
    BY <1>2, <2>1, <2>2, <2>3
<1>4. MadeWhole(s)
  BY <1>3 DEF MadeWhole
<1>. QED
  BY <1>1, <1>2, <1>4, TradeUnwound DEF s

LEMMA TradeReclaim ==
  ASSUME SwapInv, SwapInv', NEW k \in Intents, ReclaimExpiredSwap(k)
  PROVE  Trades!Next
<1>. DEFINE s == swaps[k]
<1>1. /\ HasStatus(k, "Executed")
      /\ swaps' = [swaps EXCEPT ![k] = Marked(s, "Cancelled")]
      /\ balance' = PaidTwice(s.assetOut, s.relayer, s.amountOut, s.assetIn, s.refundTo, s.amountIn)
      /\ supply' = supply
  BY WithStatusMarks DEF ReclaimExpiredSwap, SwapInv, tokenVars, poolVars
<1>2. /\ EntryOK(s) /\ s # None /\ s.status = "Executed"
      /\ s.assetIn \in Assets /\ s.amountIn \in Nat /\ s.refundTo \in Users
      /\ s.assetOut \in Assets /\ s.amountOut \in Nat /\ s.relayer \in Users
  BY <1>1, OpenEntry DEF SwapInv
<1>. HIDE DEF s
<1>3. ASSUME NEW a \in Assets, NEW u \in Users
      PROVE  balance'[a][u] = balance[a][u] + FrontedTo(s, a, u)
               + (IF a = s.assetIn /\ u = s.refundTo THEN s.amountIn ELSE 0)
  <2>. DEFINE wants == s.assetOut
              taker == s.relayer
              paid == s.amountOut
              asset == s.assetIn
              maker == s.refundTo
              amount == s.amountIn
  <2>3. /\ wants \in Assets /\ paid \in Nat /\ asset \in Assets /\ amount \in Nat
        /\ taker \in Holders /\ maker \in Holders
    BY <1>2, TheContracts DEF Users
  <2>4. balance' = PaidTwice(wants, taker, paid, asset, maker, amount)
    BY <1>1
  <2>5. balance \in BalanceType
    BY BalancesNow
  <2>. HIDE DEF wants, taker, paid, asset, maker, amount
  <2>6. balance'[a][u] = balance[a][u] + (IF a = wants /\ u = taker THEN paid ELSE 0)
                                       + (IF a = asset /\ u = maker THEN amount ELSE 0)
    BY <2>3, <2>4, <2>5, PaidTwiceUsers
  <2>1. balance'[a][u] = balance[a][u] + (IF a = s.assetOut /\ u = s.relayer THEN s.amountOut ELSE 0)
                                       + (IF a = s.assetIn /\ u = s.refundTo THEN s.amountIn ELSE 0)
    BY <2>6 DEF wants, taker, paid, asset, maker, amount
  <2>2. FrontedTo(s, a, u) = IF a = s.assetOut /\ u = s.relayer THEN s.amountOut ELSE 0
    BY <1>2 DEF FrontedTo, FrontedBy
  <2>. QED
    BY <2>1, <2>2
<1>4. MadeWhole(s)
  BY <1>3 DEF MadeWhole
<1>. QED
  BY <1>1, <1>2, <1>4, TradeUnwound DEF s

\* A claim is the trade: the pool gains what the relayer fronted, as a note for the
\* maker, and the relayer gets what was offered.
LEMMA TradeClaim ==
  ASSUME SwapInv, SwapInv', NEW k \in Intents, RevealAndClaim(k)
  PROVE  Trades!Next
<1>. DEFINE s == swaps[k]
            t == Marked(s, "Claimed")
            taker == s.relayer
            wants == s.assetOut
            paid == s.amountOut
            asset == s.assetIn
            amount == s.amountIn
            V == Trades!Gains(Wealths, taker, wants, -paid)
            W == Trades!Gains(V, taker, asset, amount)
<1>1. /\ HasStatus(k, "Executed") /\ paid >= s.minOut
      /\ swaps' = [swaps EXCEPT ![k] = t]
      /\ balance' = PaidTwice(asset, taker, amount, wants, Pool, paid)
      /\ supply' = [supply EXCEPT ![wants] = @ + paid]
  <2>1. /\ HasStatus(k, "Executed") /\ swaps[k].amountOut >= swaps[k].minOut
        /\ TakeNote(ClaimedNote(swaps[k]))
        /\ swaps' = [swaps EXCEPT ![k] = Marked(swaps[k], "Claimed")]
        /\ balance' = PaidTwice(swaps[k].assetIn, swaps[k].relayer, swaps[k].amountIn,
                                swaps[k].assetOut, Pool, swaps[k].amountOut)
    BY ClaimEffect
  <2>. QED
    BY <2>1 DEF TakeNote, Credited, ClaimedNote
<1>2. /\ s \in SwapEntry /\ EntryOK(s) /\ s # None /\ s.status = "Executed"
      /\ asset \in Assets /\ amount \in Nat /\ wants \in Assets
      /\ paid \in Nat /\ paid > 0 /\ taker \in Users
  BY <1>1, OpenEntry DEF SwapInv
<1>3. EntryOK(t) /\ OfferFrom(t) = Closed /\ \A a, u : FrontedTo(t, a, u) = 0
  BY <1>2, TradeClosed
<1>4. /\ Offers[k] = OfferFrom(s) /\ OfferFrom(s) \notin {None, Closed}
      /\ OfferFrom(s).asset = asset /\ OfferFrom(s).amount = amount
      /\ OfferFrom(s).wants = wants /\ OfferFrom(s).atLeast = s.minOut
  BY <1>2, OffersAre, OpenOffer
<1>. HIDE DEF t, V, W
<1>5. /\ Offers' = [Offers EXCEPT ![k] = OfferFrom(t)]
      /\ \A a \in Assets, u \in Users :
           Wealths'[a][u] = Wealths[a][u] + balance'[a][u] - balance[a][u]
                              - FrontedTo(s, a, u) + FrontedTo(t, a, u)
  BY <1>1, <1>3, TradeMoved
<1>6. \A a, u : FrontedTo(s, a, u) = IF a = wants /\ u = taker THEN paid ELSE 0
  BY <1>2 DEF FrontedTo, FrontedBy
<1>7. /\ Wealths \in WealthType /\ Wealths' \in WealthType
      /\ \A a \in Assets, u \in Users : balance[a][u] \in Nat /\ Wealths[a][u] \in Int
  BY BalancesNow, BalancesNext, WealthsAre, WealthsAfter DEF WealthType
<1>. HIDE DEF s, taker, wants, paid, asset, amount
<1>8. ASSUME NEW a \in Assets, NEW u \in Users
      PROVE  balance'[a][u] = balance[a][u] + (IF a = asset /\ u = taker THEN amount ELSE 0)
  <2>1. balance'[a][u] = balance[a][u] + (IF a = asset /\ u = taker THEN amount ELSE 0)
                                       + (IF a = wants /\ u = Pool THEN paid ELSE 0)
    <3>1. balance \in BalanceType
      BY BalancesNow
    <3>2. balance' = PaidTwice(asset, taker, amount, wants, Pool, paid)
      BY <1>1
    <3>3. /\ asset \in Assets /\ amount \in Nat /\ wants \in Assets /\ paid \in Nat
          /\ taker \in Holders /\ Pool \in Holders
      BY <1>2, TheContracts
    <3>. QED
      BY <3>1, <3>2, <3>3, PaidTwiceUsers
  <2>2. u # Pool
    BY TheContracts
  <2>. QED
    BY <1>2, <1>7, <2>1, <2>2
<1>9. /\ V \in WealthType
      /\ \A a \in Assets, u \in Users :
           V[a][u] = Wealths[a][u] + (IF a = wants /\ u = taker THEN -paid ELSE 0)
  <2>. DEFINE spent == -paid
  <2>1. taker \in Users /\ wants \in Assets /\ spent \in Int /\ Wealths \in WealthType
    BY <1>2, <1>7
  <2>. HIDE DEF spent
  <2>2. /\ Trades!Gains(Wealths, taker, wants, spent) \in WealthType
        /\ \A a \in Assets, u \in Users :
             Trades!Gains(Wealths, taker, wants, spent)[a][u] =
               Wealths[a][u] + (IF a = wants /\ u = taker THEN spent ELSE 0)
    BY <2>1, GainsAre
  <2>3. V = Trades!Gains(Wealths, taker, wants, spent)
    BY DEF V, spent
  <2>. QED
    BY <2>2, <2>3 DEF spent
<1>10. /\ W \in WealthType
       /\ \A a \in Assets, u \in Users :
            W[a][u] = V[a][u] + (IF a = asset /\ u = taker THEN amount ELSE 0)
  <2>1. taker \in Users /\ asset \in Assets /\ amount \in Int /\ V \in WealthType
    BY <1>2, <1>9
  <2>2. /\ Trades!Gains(V, taker, asset, amount) \in WealthType
        /\ \A a \in Assets, u \in Users :
             Trades!Gains(V, taker, asset, amount)[a][u] =
               V[a][u] + (IF a = asset /\ u = taker THEN amount ELSE 0)
    BY <2>1, GainsAre
  <2>. QED
    BY <2>2 DEF W
<1>11. ASSUME NEW a \in Assets, NEW u \in Users PROVE Wealths'[a][u] = W[a][u]
  BY <1>2, <1>3, <1>5, <1>6, <1>7, <1>8, <1>9, <1>10
<1>12. Wealths' = W
  BY <1>7, <1>10, <1>11, WealthEqual
<1>13. supply'[wants] - supply[wants] = paid
  BY <1>1, <1>2, BalancesNow
<1>14. supply' = Trades!Plus(supply, wants, paid)
  BY <1>1 DEF Trades!Plus
<1>15. /\ Trades!Open(k)
       /\ Offers[k].wants = wants /\ Offers[k].asset = asset
       /\ Offers[k].amount = amount /\ Offers[k].atLeast = s.minOut
       /\ Offers' = [Offers EXCEPT ![k] = Closed]
  BY <1>3, <1>4, <1>5 DEF Trades!Open
<1>16. Wealths' = Trades!Gains(Trades!Gains(Wealths, taker, Offers[k].wants, -paid),
                               taker, Offers[k].asset, Offers[k].amount)
  BY <1>12, <1>15 DEF V, W
<1>17. paid > 0 /\ paid >= Offers[k].atLeast
  BY <1>1, <1>2, <1>15
<1>18. Trades!Trade(k, taker, paid)
  BY <1>14, <1>15, <1>16, <1>17 DEF Trades!Trade
<1>. QED
  BY <1>2, <1>13, <1>15, <1>18 DEF Trades!Next

LEMMA TradeStep ==
  ASSUME SwapInv, SwapInv', [SwapNext]_allVars
  PROVE  [Trades!Next]_Trades!tradeVars
<1>1. CASE CommitStep
  BY <1>1, TradeCommit DEF CommitStep
<1>2. CASE SettleStep
  BY <1>2, TradeExecute, TradeClaim, TradeCancel, TradeReclaim DEF SettleStep
<1>3. CASE SwapAdminStep \/ Tick \/ UNCHANGED allVars
  BY <1>3, NoTrade
     DEF SwapAdminStep, SetSwapPaused, SetSwapRelayer, Tick, allVars, swapVars, vars, poolVars
<1>4. ASSUME NEW asset \in Assets, NEW amount \in 1..balance[asset][SwapContract],
             SeizeEscrow(asset, amount)
      PROVE  UNCHANGED Trades!tradeVars
  <2>1. /\ balance' = [balance EXCEPT ![asset][SwapContract] = @ - amount]
        /\ supply' = supply /\ UNCHANGED swaps
    BY <1>4 DEF SeizeEscrow, tokenVars, poolVars, swapVars
  <2>2. \A a \in Assets, u \in Users : balance'[a][u] = balance[a][u]
    BY <2>1, BalancesNow, TheContracts DEF BalanceType
  <2>. QED
    BY <2>1, <2>2, NoTrade
<1>5. CASE DirectStep
  BY <1>5, TradeDirect
<1>. QED
  BY <1>1, <1>2, <1>3, <1>4, <1>5 DEF SwapNext, SeizeStep

LEMMA TradeInitially ==
  ASSUME SwapInit
  PROVE  Trades!Init
<1>1. Offers = [i \in Intents |-> None]
  BY OffersAre DEF SwapInit, OfferFrom
<1>2. SwapInv
  BY SwapInvInitially
<1>3. Wealths \in [Assets -> [Users -> Nat]] /\ supply \in [Assets -> Nat]
  BY <1>2, BalancesNow, WealthsAre
<1>. QED
  BY <1>1, <1>3 DEF Trades!Init

\* The escrow of three separate calls implements the atomic trade, for any number
\* of swaps, parties and assets, and whatever else happens to the token, the
\* pool and the clock in between.
THEOREM EscrowImplementsTrade == SwapSpec => TradeSpec
<1>1. SwapInv /\ SwapInv' /\ [SwapNext]_allVars => [Trades!Next]_Trades!tradeVars
  BY TradeStep
<1>. QED
  BY <1>1, TradeInitially, SwapInvariant, PTL DEF SwapSpec, TradeSpec, Trades!Spec
=============================================================================
