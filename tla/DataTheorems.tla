------------------------------- MODULE DataTheorems -------------------------------
(***************************************************************************)
(* Facts about data that several proofs need and the library does not      *)
(* state: induction over a set of naturals, what sorting a set of them     *)
(* gives, that a recursive definition has a value at each step, and what   *)
(* sums, residues and numbers in digits (Numerals.tla) come to.            *)
(***************************************************************************)
EXTENDS Sorting, Numerals, Sequences, SequencesExt, WellFoundedInduction, FiniteSetTheorems, TLAPS

\* Induction: a set that has 0 and with every number its successor has them all.
LEMMA SetInduction ==
  ASSUME NEW T, 0 \in T, \A n \in Nat : n \in T => n + 1 \in T
  PROVE  Nat \subseteq T
<1>. DEFINE Out == Nat \ T
<1>. SUFFICES ASSUME Out # {} PROVE FALSE
  OBVIOUS
<1>1. PICK m \in Out : \A y \in Out : ~(<<y, m>> \in OpToRel(<, Nat))
  <2>1. Out \subseteq Nat
    OBVIOUS
  <2>. HIDE DEF Out
  <2>. QED
    BY <2>1, NatLessThanWellFounded, WFMin
<1>2. \A y \in Out : ~(y < m)
  BY <1>1 DEF OpToRel
<1>3. m \in Nat /\ m # 0
  OBVIOUS
<1>4. m - 1 \in Nat /\ m - 1 < m
  BY <1>3
<1>5. m - 1 \in T
  BY <1>2, <1>4
<1>. QED
  BY <1>4, <1>5

\* Up to a bound.
LEMMA RangeInduction ==
  ASSUME NEW N \in Nat, NEW T, 0 \in T, \A n \in 0..(N - 1) : n \in T => n + 1 \in T
  PROVE  0..N \subseteq T
<1>. DEFINE U == {n \in Nat : n <= N => n \in T}
<1>1. 0 \in U /\ \A n \in Nat : n \in U => n + 1 \in U
  OBVIOUS
<1>2. Nat \subseteq U
  <2>. HIDE DEF U
  <2>. QED
    BY <1>1, SetInduction
<1>. QED
  BY <1>2

---------------------------------------------------------------------------
(* Sets of numbers in ascending order. *)

\* A finite set of numbers can be listed in ascending order.
LEMMA AscendingExists ==
  ASSUME NEW N \in Nat, NEW S \in SUBSET (0..N)
  PROVE  IsFiniteSet(S) /\ \E s \in [1..Cardinality(S) -> S] : Ascends(s, S)
<1>. DEFINE Listed(X) == \E s \in [1..Cardinality(X) -> X] : Ascends(s, X)
            T == {n \in Nat : \A X \in SUBSET (0..(n - 1)) : Listed(X)}
<1>1. ASSUME NEW n \in Nat, NEW X \in SUBSET (0..n)
      PROVE  IsFiniteSet(X) /\ Cardinality(X) \in Nat
  <2>1. IsFiniteSet(0..n)
    BY FS_Interval
  <2>2. IsFiniteSet(X)
    BY <2>1, FS_Subset
  <2>. QED
    BY <2>2, FS_CardinalityType
<1>2. 0 \in T
  <2>1. Listed({})
    <3>1. Cardinality({}) = 0
      BY FS_EmptySet
    <3>2. [i \in 1..0 |-> i] \in [1..Cardinality({}) -> {}] /\ Ascends([i \in 1..0 |-> i], {})
      BY <3>1 DEF Ascends
    <3>. QED
      BY <3>2
  <2>2. \A X \in SUBSET (0..(0 - 1)) : X = {}
    OBVIOUS
  <2>. QED
    BY <2>1, <2>2
<1>3. ASSUME NEW n \in Nat, n \in T
      PROVE  n + 1 \in T
  <2>. SUFFICES ASSUME NEW X \in SUBSET (0..n) PROVE Listed(X)
    OBVIOUS
  <2>1. CASE n \notin X
    <3>1. X \in SUBSET (0..(n - 1))
      BY <2>1
    <3>. QED
      BY <1>3, <3>1
  <2>2. CASE n \in X
    <3>. DEFINE Y == X \ {n}
    <3>1. Y \in SUBSET (0..(n - 1)) /\ n \notin Y /\ X = Y \cup {n}
      BY <2>2
    <3>. HIDE DEF Y
    <3>2. IsFiniteSet(Y) /\ Cardinality(Y) \in Nat
      <4>1. Y \in SUBSET (0..n)
        BY <3>1
      <4>. QED
        BY <1>1, <4>1
    <3>3. Cardinality(X) = Cardinality(Y) + 1
      BY <3>1, <3>2, FS_AddElement
    <3>4. PICK s \in [1..Cardinality(Y) -> Y] : Ascends(s, Y)
      BY <1>3, <3>1
    <3>. DEFINE k == Cardinality(Y)
                t == [i \in 1..(k + 1) |-> IF i <= k THEN s[i] ELSE n]
    <3>. HIDE DEF T, Listed
    <3>5. \A i \in 1..k : t[i] = s[i] /\ s[i] \in Y /\ s[i] \in 0..(n - 1)
      <4>. SUFFICES ASSUME NEW i \in 1..k
                    PROVE  t[i] = s[i] /\ s[i] \in Y /\ s[i] \in 0..(n - 1)
        OBVIOUS
      <4>1. i \in 1..(k + 1) /\ i <= k
        BY <3>2
      <4>2. t[i] = s[i]
        BY <4>1
      <4>3. s[i] \in Y
        OBVIOUS
      <4>. QED
        BY <3>1, <4>2, <4>3
    <3>6. t[k + 1] = n
      BY <3>2
    <3>7. t \in [1..(k + 1) -> X]
      BY <3>1, <3>2
    <3>8. \A a \in X : \E i \in 1..(k + 1) : t[i] = a
      <4>1. \A a \in Y : \E i \in 1..k : s[i] = a
        BY <3>4 DEF Ascends
      <4>2. k + 1 \in 1..(k + 1) /\ \A i \in 1..k : i \in 1..(k + 1)
        BY <3>2
      <4>. HIDE DEF t
      <4>. QED
        BY <3>1, <3>5, <3>6, <4>1, <4>2
    <3>9. \A i, j \in 1..(k + 1) : i < j => t[i] < t[j]
      <4>1. \A i, j \in 1..k : i < j => s[i] < s[j]
        BY <3>4 DEF Ascends
      <4>2. \A i \in 1..k : s[i] < n
        <5>. HIDE DEF t
        <5>. QED
          BY <3>5
      <4>3. ASSUME NEW i \in 1..(k + 1), NEW j \in 1..(k + 1), i < j PROVE t[i] < t[j]
        <5>1. i \in 1..k
          BY <3>2, <4>3
        <5>2. j \in 1..k \/ j = k + 1
          BY <3>2
        <5>. HIDE DEF t
        <5>. QED
          BY <3>5, <3>6, <4>1, <4>2, <4>3, <5>1, <5>2
      <4>. QED
        BY <4>3
    <3>10. DOMAIN t = 1..(k + 1)
      OBVIOUS
    <3>. HIDE DEF t
    <3>11. {t[i] : i \in 1..(k + 1)} = X
      BY <3>7, <3>8
    <3>12. Ascends(t, X) /\ t \in [1..Cardinality(X) -> X]
      BY <3>3, <3>7, <3>9, <3>10, <3>11 DEF Ascends
    <3>. QED
      BY <3>12 DEF Listed
  <2>. QED
    BY <2>1, <2>2
<1>4. Nat \subseteq T
  <2>. HIDE DEF T
  <2>. QED
    BY <1>2, <1>3, SetInduction
<1>5. N + 1 \in Nat /\ S \in SUBSET (0..((N + 1) - 1))
  OBVIOUS
<1>6. Listed(S)
  BY <1>4, <1>5
<1>. QED
  BY <1>1, <1>6

LEMMA AscendingSorts ==
  ASSUME NEW N \in Nat, NEW S \in SUBSET (0..N)
  PROVE  /\ Cardinality(S) \in Nat
         /\ Ascending(S) \in [1..Cardinality(S) -> S]
         /\ Ascends(Ascending(S), S)
<1>1. IsFiniteSet(S) /\ \E s \in [1..Cardinality(S) -> S] : Ascends(s, S)
  BY AscendingExists
<1>2. Cardinality(S) \in Nat
  BY <1>1, FS_CardinalityType
<1>. QED
  BY <1>1, <1>2 DEF Ascending

---------------------------------------------------------------------------
(* Sequences without repetition. *)

\* One put after the other repeats nothing if they have nothing in common.
LEMMA ConcatInjective ==
  ASSUME NEW X, NEW old \in Seq(X), NEW more \in Seq(X),
         IsInjective(old), IsInjective(more), ToSet(old) \cap ToSet(more) = {}
  PROVE  /\ old \o more \in Seq(X)
         /\ IsInjective(old \o more)
         /\ ToSet(old \o more) = ToSet(old) \cup ToSet(more)
<1>. DEFINE new == old \o more
            m == Len(old)
            k == Len(more)
<1>1. /\ m \in Nat /\ k \in Nat /\ DOMAIN old = 1..m /\ DOMAIN more = 1..k
      /\ new \in Seq(X) /\ DOMAIN new = 1..(m + k)
  OBVIOUS
<1>2. /\ \A i \in 1..m : i \in 1..(m + k) /\ new[i] = old[i]
      /\ \A i \in 1..k : m + i \in 1..(m + k) /\ new[m + i] = more[i]
  OBVIOUS
<1>. HIDE DEF new, m, k
<1>3. \A i \in 1..(m + k) :
        \/ i \in 1..m /\ new[i] = old[i]
        \/ i - m \in 1..k /\ new[i] = more[i - m]
  <2>. SUFFICES ASSUME NEW i \in 1..(m + k), i \notin 1..m
                PROVE  i - m \in 1..k /\ new[i] = more[i - m]
    BY <1>2
  <2>1. i - m \in 1..k /\ m + (i - m) = i
    BY <1>1
  <2>. QED
    BY <1>2, <2>1
<1>4. /\ ToSet(new) = {new[i] : i \in 1..(m + k)}
      /\ ToSet(old) = {old[i] : i \in 1..m} /\ ToSet(more) = {more[i] : i \in 1..k}
  BY <1>1 DEF ToSet
<1>5. ToSet(new) = ToSet(old) \cup ToSet(more)
  <2>1. ToSet(new) \subseteq ToSet(old) \cup ToSet(more)
    BY <1>3, <1>4
  <2>2. ToSet(old) \subseteq ToSet(new)
    BY <1>2, <1>4
  <2>3. ToSet(more) \subseteq ToSet(new)
    BY <1>2, <1>4
  <2>. QED
    BY <2>1, <2>2, <2>3
<1>6. ASSUME NEW i \in 1..(m + k), NEW j \in 1..(m + k), new[i] = new[j]
      PROVE  i = j
  <2>1. CASE i \in 1..m /\ new[i] = old[i] /\ j \in 1..m /\ new[j] = old[j]
    BY <1>1, <1>6, <2>1 DEF IsInjective
  <2>2. CASE /\ i - m \in 1..k /\ new[i] = more[i - m]
             /\ j - m \in 1..k /\ new[j] = more[j - m]
    <3>1. i - m = j - m
      BY <1>1, <1>6, <2>2 DEF IsInjective
    <3>. QED
      BY <1>1, <3>1
  <2>3. ~(i \in 1..m /\ new[i] = old[i] /\ j - m \in 1..k /\ new[j] = more[j - m])
    BY <1>4, <1>6
  <2>4. ~(j \in 1..m /\ new[j] = old[j] /\ i - m \in 1..k /\ new[i] = more[i - m])
    BY <1>4, <1>6
  <2>. QED
    BY <1>3, <2>1, <2>2, <2>3, <2>4
<1>7. IsInjective(new)
  BY <1>1, <1>6 DEF IsInjective
<1>. QED
  BY <1>1, <1>5, <1>7 DEF new

\* A list in ascending order is a sequence without repetition.
LEMMA AscendingSequence ==
  ASSUME NEW N \in Nat, NEW S \in SUBSET (0..N)
  PROVE  /\ Ascending(S) \in Seq(Nat) /\ IsInjective(Ascending(S)) /\ ToSet(Ascending(S)) = S
<1>. DEFINE k == Cardinality(S)
            s == Ascending(S)
<1>1. k \in Nat /\ s \in [1..k -> S] /\ Ascends(s, S)
  BY AscendingSorts
<1>. HIDE DEF k, s
<1>2. DOMAIN s = 1..k
  BY <1>1
<1>3. s \in Seq(Nat)
  <2>1. S \subseteq Nat
    OBVIOUS
  <2>2. s \in [1..k -> Nat]
    <3>. HIDE DEF Ascends
    <3>. QED
      BY <1>1, <2>1
  <2>. QED
    BY <1>1, <2>2
<1>4. ToSet(s) = S
  BY <1>1 DEF ToSet, Ascends
<1>5. \A i, j \in 1..k : s[i] = s[j] => i = j
  <2>1. \A i \in 1..k : s[i] \in Nat
    <3>1. \A i \in 1..k : s[i] \in S
      BY <1>1
    <3>2. S \subseteq Nat
      OBVIOUS
    <3>. QED
      BY <3>1, <3>2
  <2>2. \A i, j \in 1..k : i < j => s[i] < s[j]
    BY <1>1, <1>2 DEF Ascends
  <2>. QED
    BY <1>1, <2>1, <2>2
<1>. QED
  BY <1>2, <1>3, <1>4, <1>5 DEF IsInjective, s

---------------------------------------------------------------------------
(* Least and greatest members, and the first few. *)

LEMMA LeastMember ==
  ASSUME NEW S \in SUBSET Nat, S # {}
  PROVE  \E m \in S : \A x \in S : m <= x
<1>1. PICK m \in S : \A y \in S : ~(<<y, m>> \in OpToRel(<, Nat))
  BY NatLessThanWellFounded, WFMin
<1>2. \A y \in S : ~(y < m)
  BY <1>1 DEF OpToRel
<1>3. \A y \in S : m <= y
  BY <1>2
<1>. QED
  BY <1>3

LEMMA GreatestMember ==
  ASSUME NEW N \in Nat, NEW S \in SUBSET (0..N), S # {}
  PROVE  \E m \in S : \A x \in S : x <= m
<1>. DEFINE R == {r \in 0..N : N - r \in S}
<1>0. \A x \in S : N - x \in 0..N /\ N - (N - x) = x /\ x \in Nat
  OBVIOUS
<1>1. R \in SUBSET Nat /\ R # {}
  <2>1. PICK x \in S : TRUE
    OBVIOUS
  <2>2. N - x \in R
    BY <1>0, <2>1
  <2>3. R \subseteq Nat
    OBVIOUS
  <2>. HIDE DEF R
  <2>. QED
    BY <2>2, <2>3
<1>2. PICK r \in R : \A x \in R : r <= x
  <2>. HIDE DEF R
  <2>. QED
    BY <1>1, LeastMember
<1>3. N - r \in S /\ r \in 0..N
  BY <1>2
<1>4. \A x \in S : r <= N - x
  BY <1>0, <1>2
<1>5. \A x \in S : x <= N - r
  BY <1>0, <1>3, <1>4
<1>. QED
  BY <1>3, <1>5

\* The members with fewer than a number of smaller ones: that many, or all.
LEMMA FirstMembers ==
  ASSUME NEW N \in Nat, NEW S \in SUBSET (0..N), NEW count \in Nat \ {0}
  PROVE  LET first == {e \in S : Cardinality({f \in S : f < e}) < count}
         IN  first = S \/ Cardinality(first) = count
<1>. DEFINE Below(e) == {f \in S : f < e}
            first == {e \in S : Cardinality(Below(e)) < count}
<1>0. \A e \in S : e \in Nat
  OBVIOUS
<1>1. \A X \in SUBSET S : IsFiniteSet(X) /\ Cardinality(X) \in Nat
  <2>1. IsFiniteSet(0..N)
    BY FS_Interval
  <2>2. \A X \in SUBSET S : IsFiniteSet(X)
    BY <2>1, FS_Subset
  <2>. QED
    BY <2>2, FS_CardinalityType
<1>2. \A e \in S : Cardinality(Below(e)) \in Nat /\ Below(e) \in SUBSET S
  BY <1>1
<1>. SUFFICES ASSUME first # S PROVE Cardinality(first) = count
  OBVIOUS
<1>3. PICK e \in S \ first : \A x \in S \ first : e <= x
  <2>. DEFINE rest == S \ first
  <2>1. rest \in SUBSET Nat /\ rest # {}
    <3>1. first \subseteq S
      OBVIOUS
    <3>. HIDE DEF first
    <3>. QED
      BY <1>0, <3>1
  <2>. HIDE DEF rest
  <2>2. \E m \in rest : \A x \in rest : m <= x
    BY <2>1, LeastMember
  <2>. QED
    BY <2>2 DEF rest
<1>4. Cardinality(Below(e)) >= count
  BY <1>2, <1>3
<1>5. first = Below(e)
  <2>1. ASSUME NEW x \in S, x < e PROVE x \in first
    BY <1>3, <2>1
  <2>2. ASSUME NEW x \in first PROVE x < e
    <3>1. SUFFICES ASSUME e <= x PROVE FALSE
      OBVIOUS
    <3>2. Below(e) \subseteq Below(x)
      <4>1. \A f \in S : f < e => f < x
        BY <1>0, <1>3, <2>2, <3>1
      <4>. QED
        BY <4>1
    <3>3. Cardinality(Below(e)) <= Cardinality(Below(x))
      <4>1. IsFiniteSet(Below(x))
        BY <1>1
      <4>. HIDE DEF Below
      <4>. QED
        BY <3>2, <4>1, FS_Subset
    <3>. QED
      BY <1>2, <1>4, <2>2, <3>3
  <2>. QED
    BY <2>1, <2>2
<1>6. first # {}
  <2>. HIDE DEF first
  <2>1. first = {} => Cardinality(first) = 0
    BY FS_EmptySet
  <2>2. Cardinality(first) >= count
    BY <1>4, <1>5
  <2>. QED
    BY <2>1, <2>2
<1>7. PICK m \in first : \A x \in first : x <= m
  <2>1. first \in SUBSET (0..N)
    OBVIOUS
  <2>. HIDE DEF first
  <2>. QED
    BY <1>6, <2>1, GreatestMember
<1>8. first \ {m} \subseteq Below(m)
  <2>1. \A x \in first : x \in S /\ (x # m => x < m)
    BY <1>0, <1>7
  <2>. HIDE DEF first
  <2>. QED
    BY <2>1
<1>9. Cardinality(first) - 1 < count
  <2>1. IsFiniteSet(first) /\ IsFiniteSet(Below(m)) /\ Cardinality(Below(m)) < count
    BY <1>1, <1>7
  <2>2. Cardinality(first \ {m}) = Cardinality(first) - 1
    <3>. HIDE DEF first
    <3>. QED
      BY <1>7, <2>1, FS_RemoveElement
  <2>3. Cardinality(first \ {m}) <= Cardinality(Below(m))
    <3>. HIDE DEF first, Below
    <3>. QED
      BY <1>8, <2>1, FS_Subset
  <2>4. Cardinality(first) \in Nat /\ Cardinality(Below(m)) \in Nat
    BY <1>1, <1>2, <1>7
  <2>. QED
    BY <2>1, <2>2, <2>3, <2>4
<1>10. Cardinality(first) \in Nat
  BY <1>1
<1>11. Cardinality(first) >= count
  <2>. HIDE DEF first
  <2>. QED
    BY <1>4, <1>5
<1>. HIDE DEF first
<1>. QED
  BY <1>9, <1>10, <1>11

-----------------------------------------------------------------------------
(* Recursion, sums and numerals. *)

\* f starts with first, and each value follows from the one before
Iterates(f, D, V, first, step) ==
  /\ f \in [D -> V] /\ f[0] = first
  /\ \A n \in D : n + 1 \in D => f[n + 1] = step[n][f[n]]

\* A function on the naturals can be defined by its first value and its steps.
LEMMA NatRecursion ==
  ASSUME NEW V, NEW first \in V, NEW step \in [Nat -> [V -> V]]
  PROVE  \E f : Iterates(f, Nat, V, first, step)
<1>. DEFINE Runs(n, f) == Iterates(f, 0..n, V, first, step)
            Exists == {n \in Nat : \E f : Runs(n, f)}
            Agree == {m \in Nat : \A n, l \in Nat : \A f, g :
                        Runs(n, f) /\ Runs(l, g) /\ m <= n /\ m <= l => f[m] = g[m]}
            run == [n \in Nat |-> CHOOSE f : Runs(n, f)]
            limit == [n \in Nat |-> run[n][n]]
<1>1. 0 \in Exists
  <2>1. Runs(0, [k \in 0..0 |-> first])
    BY DEF Iterates
  <2>. QED
    BY <2>1
<1>2. ASSUME NEW n \in Nat, n \in Exists PROVE n + 1 \in Exists
  <2>1. PICK f : Runs(n, f)
    BY <1>2
  <2>. DEFINE g == [k \in 0..(n + 1) |-> IF k <= n THEN f[k] ELSE step[n][f[n]]]
  <2>2. f \in [0..n -> V] /\ f[0] = first /\ step[n][f[n]] \in V
    BY <2>1 DEF Iterates
  <2>3. g \in [0..(n + 1) -> V] /\ g[0] = first
    BY <2>2
  <2>4. g[n + 1] = step[n][f[n]] /\ \A k \in 0..n : g[k] = f[k]
    OBVIOUS
  <2>5. \A k \in 0..(n - 1) : k \in 0..n /\ k + 1 \in 0..n /\ f[k + 1] = step[k][f[k]]
    BY <2>1 DEF Iterates
  <2>. HIDE DEF g
  <2>6. \A k \in 0..n : g[k + 1] = step[k][g[k]]
    BY <2>4, <2>5
  <2>7. \A k \in 0..(n + 1) : k + 1 \in 0..(n + 1) => k \in 0..n
    OBVIOUS
  <2>8. Runs(n + 1, g)
    BY <2>3, <2>6, <2>7 DEF Iterates
  <2>. QED
    BY <2>8
<1>3. Nat \subseteq Exists
  <2>. HIDE DEF Exists
  <2>. QED
    BY <1>1, <1>2, SetInduction
<1>4. 0 \in Agree
  BY DEF Iterates
<1>5. ASSUME NEW m \in Nat, m \in Agree PROVE m + 1 \in Agree
  <2>. SUFFICES ASSUME NEW n \in Nat, NEW l \in Nat, NEW f, NEW g, Runs(n, f), Runs(l, g),
                       m + 1 <= n, m + 1 <= l
                PROVE  f[m + 1] = g[m + 1]
    OBVIOUS
  <2>1. f[m] = g[m]
    BY <1>5
  <2>2. m \in 0..n /\ m + 1 \in 0..n /\ m \in 0..l /\ m + 1 \in 0..l
    OBVIOUS
  <2>. QED
    BY <2>1, <2>2 DEF Iterates
<1>6. Nat \subseteq Agree
  <2>. HIDE DEF Agree
  <2>. QED
    BY <1>4, <1>5, SetInduction
<1>7. ASSUME NEW n \in Nat PROVE Runs(n, run[n])
  <2>1. \E f : Runs(n, f)
    BY <1>3
  <2>. HIDE DEF Runs
  <2>. QED
    BY <2>1
<1>8. limit \in [Nat -> V] /\ limit[0] = first
  <2>. HIDE DEF run
  <2>1. \A n \in Nat : run[n][n] \in V
    BY <1>7 DEF Iterates
  <2>2. run[0][0] = first
    BY <1>7 DEF Iterates
  <2>. QED
    BY <2>1, <2>2
<1>9. ASSUME NEW n \in Nat PROVE limit[n + 1] = step[n][limit[n]]
  <2>1. Runs(n, run[n])
    BY <1>7
  <2>2. Runs(n + 1, run[n + 1])
    <3>. HIDE DEF run, Runs
    <3>. QED
      BY <1>7
  <2>3. run[n + 1][n] = run[n][n]
    <3>1. n \in Agree
      BY <1>6
    <3>. HIDE DEF run, Runs
    <3>. QED
      BY <2>1, <2>2, <3>1
  <2>. HIDE DEF run
  <2>4. run[n + 1][n + 1] = step[n][run[n + 1][n]]
    BY <2>2 DEF Iterates
  <2>. QED
    BY <2>3, <2>4
<1>. HIDE DEF limit
<1>10. Iterates(limit, Nat, V, first, step)
  BY <1>8, <1>9 DEF Iterates
<1>. QED
  BY <1>10

\* The same up to a bound.
LEMMA RangeRecursion ==
  ASSUME NEW V, NEW first \in V, NEW N \in Nat, NEW step \in [0..(N - 1) -> [V -> V]]
  PROVE  \E f : Iterates(f, 0..N, V, first, step)
<1>. DEFINE more == [n \in Nat |-> IF n < N THEN step[n] ELSE [v \in V |-> v]]
<1>1. more \in [Nat -> [V -> V]] /\ \A n \in 0..(N - 1) : more[n] = step[n]
  OBVIOUS
<1>. HIDE DEF more
<1>2. PICK f : Iterates(f, Nat, V, first, more)
  BY <1>1, NatRecursion
<1>. DEFINE g == [n \in 0..N |-> f[n]]
<1>3. g \in [0..N -> V] /\ g[0] = first
  BY <1>2 DEF Iterates
<1>4. ASSUME NEW n \in 0..N, n + 1 \in 0..N PROVE g[n + 1] = step[n][g[n]]
  BY <1>1, <1>2, <1>4 DEF Iterates
<1>. HIDE DEF g
<1>5. Iterates(g, 0..N, V, first, step)
  BY <1>3, <1>4 DEF Iterates
<1>. QED
  BY <1>5


---------------------------------------------------------------------------
(* Sums. *)

\* A sum, term by term.
LEMMA SumSteps ==
  ASSUME NEW w \in Nat, NEW x, \A i \in 1..w : x[i] \in Int
  PROVE  /\ SumUpTo(x, 0) = 0
         /\ \A k \in 0..w : SumUpTo(x, k) \in Int
         /\ \A k \in 0..(w - 1) : SumUpTo(x, k + 1) = SumUpTo(x, k) + x[k + 1]
<1>. DEFINE V == Int
            step == [i \in 0..(w - 1) |-> [v \in V |-> v + x[i + 1]]]
            Is(k, f) == f = [i \in 0..k |-> IF i = 0 THEN 0 ELSE f[i - 1] + x[i]]
<1>1. \A i \in 0..(w - 1) : i + 1 \in 1..w /\ x[i + 1] \in Int
  OBVIOUS
<1>2. step \in [0..(w - 1) -> [V -> V]] /\ 0 \in V
  BY <1>1
<1>3. \A i \in 0..(w - 1), v \in Int : step[i][v] = v + x[i + 1]
  OBVIOUS
<1>. HIDE DEF step, V
<1>4. PICK low : Iterates(low, 0..w, V, 0, step)
  BY <1>2, RangeRecursion
<1>. USE DEF V
<1>5. ASSUME NEW k \in 0..w PROVE SumUpTo(x, k) = low[k]
  <2>. DEFINE cut == [i \in 0..k |-> low[i]]
              chosen == CHOOSE f : Is(k, f)
  <2>1. \A i \in 0..k : i # 0 => i - 1 \in 0..k /\ i - 1 \in 0..w /\ i - 1 \in 0..(w - 1) /\ (i - 1) + 1 = i /\ i \in 0..w
    OBVIOUS
  <2>2. \A i \in 0..k : i # 0 => low[i] = low[i - 1] + x[i]
    <3>1. ASSUME NEW i \in 0..k, i # 0 PROVE low[(i - 1) + 1] = step[i - 1][low[i - 1]] /\ low[i - 1] \in Int
      BY <1>4, <2>1, <3>1 DEF Iterates
    <3>. QED
      BY <1>3, <2>1, <3>1
  <2>3. \A i \in 0..k : cut[i] = low[i]
    OBVIOUS
  <2>4. Is(k, cut)
    BY <1>4, <2>1, <2>2 DEF Iterates
  <2>5. Is(k, chosen)
    <3>1. \E f : Is(k, f)
      <4>. HIDE DEF Is, cut
      <4>. QED
        BY <2>4
    <3>. HIDE DEF Is
    <3>. QED
      BY <3>1
  <2>6. SumUpTo(x, k) = chosen[k]
    BY DEF SumUpTo
  <2>. HIDE DEF chosen
  <2>7. chosen[0] = 0 /\ \A i \in 0..(k - 1) : chosen[i + 1] = chosen[i] + x[i + 1]
    BY <2>5
  <2>. DEFINE same == {i \in 0..k : chosen[i] = low[i]}
  <2>8. 0 \in same
    BY <1>4, <2>7 DEF Iterates
  <2>9. ASSUME NEW i \in 0..(k - 1), i \in same PROVE i + 1 \in same
    <3>1. i \in 0..w /\ i + 1 \in 0..w /\ i \in 0..(w - 1) /\ i + 1 \in 0..k /\ chosen[i] = low[i]
      BY <2>9
    <3>2. low[i + 1] = low[i] + x[i + 1]
      BY <1>3, <1>4, <3>1 DEF Iterates
    <3>. QED
      BY <2>7, <3>1, <3>2
  <2>10. 0..k \subseteq same
    <3>. HIDE DEF same
    <3>. QED
      BY <2>8, <2>9, RangeInduction
  <2>. QED
    BY <2>6, <2>10
<1>6. low \in [0..w -> Int] /\ low[0] = 0
  BY <1>4 DEF Iterates
<1>7. ASSUME NEW k \in 0..(w - 1)
      PROVE  low[k + 1] = low[k] + x[k + 1]
  <2>1. k \in 0..w /\ k + 1 \in 0..w
    OBVIOUS
  <2>. QED
    BY <1>3, <1>4, <2>1 DEF Iterates
<1>. QED
  BY <1>5, <1>6, <1>7

\* A sum depends on its terms only.
LEMMA SumAgrees ==
  ASSUME NEW w \in Nat, NEW x, NEW y, \A i \in 1..w : x[i] \in Int /\ y[i] = x[i]
  PROVE  SumUpTo(y, w) = SumUpTo(x, w)
<1>. DEFINE same == {k \in 0..w : SumUpTo(y, k) = SumUpTo(x, k)}
<1>1. (\A i \in 1..w : x[i] \in Int) /\ (\A i \in 1..w : y[i] \in Int)
  OBVIOUS
<1>2. 0 \in same
  BY <1>1, SumSteps
<1>3. ASSUME NEW k \in 0..(w - 1), k \in same PROVE k + 1 \in same
  <2>1. SumUpTo(x, k + 1) = SumUpTo(x, k) + x[k + 1] /\ SumUpTo(y, k + 1) = SumUpTo(y, k) + y[k + 1]
    BY <1>1, SumSteps
  <2>2. y[k + 1] = x[k + 1]
    OBVIOUS
  <2>. QED
    BY <1>3, <2>1, <2>2
<1>4. 0..w \subseteq same
  <2>. HIDE DEF same
  <2>. QED
    BY <1>2, <1>3, RangeInduction
<1>. QED
  BY <1>4

---------------------------------------------------------------------------
(* Powers. *)

LEMMA PowerFacts ==
  ASSUME NEW base \in Nat \ {0}
  PROVE  /\ Power(base, 0) = 1
         /\ \A k \in Nat : Power(base, k) \in Nat \ {0} /\ Power(base, k + 1) = base * Power(base, k)
<1>. DEFINE V == Nat \ {0}
            step == [i \in Nat |-> [v \in V |-> base * v]]
            Is(f) == f = [i \in Nat |-> IF i = 0 THEN 1 ELSE base * f[i - 1]]
            power == CHOOSE f : Is(f)
<1>1. step \in [Nat -> [V -> V]] /\ 1 \in V
  OBVIOUS
<1>2. PICK f : Iterates(f, Nat, V, 1, step)
  <2>. HIDE DEF step, V
  <2>. QED
    BY <1>1, NatRecursion
<1>3. f \in [Nat -> V] /\ f[0] = 1 /\ \A n \in Nat : f[n + 1] = base * f[n]
  <2>1. \A n \in Nat, v \in V : n + 1 \in Nat /\ step[n][v] = base * v
    OBVIOUS
  <2>. HIDE DEF step, V
  <2>. QED
    BY <1>2, <2>1 DEF Iterates
<1>4. \A n \in Nat \ {0} : n - 1 \in Nat /\ (n - 1) + 1 = n
  OBVIOUS
<1>5. f = [i \in Nat |-> IF i = 0 THEN 1 ELSE base * f[i - 1]]
  BY <1>3, <1>4
<1>6. Is(power)
  <2>. HIDE DEF power
  <2>1. Is(f)
    BY <1>5
  <2>2. \E g : Is(g)
    BY <2>1
  <2>. HIDE DEF Is
  <2>. QED
    BY <2>2 DEF power
<1>7. \A k \in Nat : Power(base, k) = power[k]
  BY DEF Power
<1>. HIDE DEF power
<1>8. power[0] = 1 /\ \A k \in Nat : power[k + 1] = base * power[k]
  BY <1>6
<1>. DEFINE good == {k \in Nat : power[k] \in Nat \ {0}}
<1>9. 0 \in good /\ \A k \in Nat : k \in good => k + 1 \in good
  BY <1>8
<1>10. Nat \subseteq good
  <2>. HIDE DEF good
  <2>. QED
    BY <1>9, SetInduction
<1>. QED
  BY <1>7, <1>8, <1>10

---------------------------------------------------------------------------
(* Quotients and remainders. *)

\* They are the only ones.
LEMMA DivisionUnique ==
  ASSUME NEW m \in Nat \ {0}, NEW q \in Int, NEW r \in 0..(m - 1)
  PROVE  (q * m + r) \div m = q /\ (q * m + r) % m = r
OBVIOUS

LEMMA Division ==
  ASSUME NEW m \in Nat \ {0}, NEW n \in Int
  PROVE  n \div m \in Int /\ n % m \in 0..(m - 1) /\ n = (n \div m) * m + (n % m)
OBVIOUS

LEMMA SameParts ==
  ASSUME NEW m \in Nat \ {0}, NEW a \in 0..(m - 1), NEW b \in Int, NEW c \in 0..(m - 1), NEW d \in Int,
         a + b * m = c + d * m
  PROVE  a = c /\ b = d
<1>1. (b * m + a) \div m = b /\ (b * m + a) % m = a
  BY DivisionUnique
<1>2. (d * m + c) \div m = d /\ (d * m + c) % m = c
  BY DivisionUnique
<1>3. b * m \in Int /\ d * m \in Int
  OBVIOUS
<1>4. b * m + a = d * m + c
  BY <1>3
<1>. QED
  BY <1>1, <1>2, <1>4

\* One more digit of a remainder.
LEMMA RemainderSplits ==
  ASSUME NEW m \in Nat \ {0}, NEW base \in Nat \ {0}, NEW n \in Int
  PROVE  n % (base * m) = (n % m) + ((n \div m) % base) * m
<1>. DEFINE q == n \div m
            r == n % m
            e == q \div base
            d == q % base
<1>1. q \in Int /\ r \in 0..(m - 1) /\ n = q * m + r
  BY Division
<1>. HIDE DEF q, r
<1>2. e \in Int /\ d \in 0..(base - 1) /\ q = e * base + d
  BY <1>1, Division
<1>. HIDE DEF e, d
<1>3. base * m \in Nat \ {0}
  OBVIOUS
<1>4. d * m + r \in 0..(base * m - 1)
  <2>1. d * m <= (base - 1) * m
    BY <1>2
  <2>2. (base - 1) * m = base * m - m
    OBVIOUS
  <2>3. d * m \in Nat
    BY <1>2
  <2>. QED
    BY <1>1, <1>3, <2>1, <2>2, <2>3
<1>5. n = e * (base * m) + (d * m + r)
  <2>1. q * m = (e * base) * m + d * m
    BY <1>2
  <2>2. (e * base) * m = e * (base * m)
    BY <1>2
  <2>. QED
    BY <1>1, <1>2, <2>1, <2>2
<1>6. n % (base * m) = d * m + r
  <2>. DEFINE mm == base * m
              rr == d * m + r
  <2>1. mm \in Nat \ {0} /\ rr \in 0..(mm - 1) /\ n = e * mm + rr
    BY <1>3, <1>4, <1>5
  <2>. HIDE DEF mm, rr
  <2>2. n % mm = rr
    BY <1>2, <2>1, DivisionUnique
  <2>. QED
    BY <2>2 DEF mm, rr
<1>. QED
  BY <1>1, <1>2, <1>6 DEF q, r, d

---------------------------------------------------------------------------
(* Numerals. *)

\* The value of the lowest digits, digit by digit.
LEMMA LowValueSteps ==
  ASSUME NEW base \in Nat \ {0}, NEW w \in Nat, NEW x, \A i \in 0..(w - 1) : x[i] \in Int
  PROVE  /\ LowValue(x, base, 0) = 0
         /\ \A k \in 0..w : LowValue(x, base, k) \in Int
         /\ \A k \in 0..(w - 1) :
              LowValue(x, base, k + 1) = LowValue(x, base, k) + x[k] * Power(base, k)
<1>. DEFINE terms(k) == [i \in 1..k |-> x[i - 1] * Power(base, i - 1)]
<1>1. ASSUME NEW k \in 0..w PROVE \A i \in 1..k : terms(k)[i] = x[i - 1] * Power(base, i - 1) /\ terms(k)[i] \in Int
  <2>. SUFFICES ASSUME NEW i \in 1..k PROVE x[i - 1] * Power(base, i - 1) \in Int
    OBVIOUS
  <2>1. i - 1 \in Nat /\ i - 1 \in 0..(w - 1)
    OBVIOUS
  <2>2. Power(base, i - 1) \in Int /\ x[i - 1] \in Int
    BY <2>1, PowerFacts
  <2>. QED
    BY <2>2
<1>2. \A k \in 0..w : LowValue(x, base, k) = SumUpTo(terms(k), k)
  BY DEF LowValue
<1>. HIDE DEF terms
<1>3. \A k \in 0..w : SumUpTo(terms(k), k) \in Int
  <2>. TAKE k \in 0..w
  <2>1. k \in Nat /\ k \in 0..k /\ \A i \in 1..k : terms(k)[i] \in Int
    BY <1>1
  <2>. QED
    BY <2>1, SumSteps
<1>4. SumUpTo(terms(0), 0) = 0
  <2>1. 0 \in Nat /\ \A i \in 1..0 : terms(0)[i] \in Int
    OBVIOUS
  <2>. QED
    BY <2>1, SumSteps
<1>5. ASSUME NEW k \in 0..(w - 1)
      PROVE  SumUpTo(terms(k + 1), k + 1) = SumUpTo(terms(k), k) + x[k] * Power(base, k)
  <2>1. /\ k \in 0..w /\ k + 1 \in 0..w /\ k + 1 \in Nat /\ k \in 0..((k + 1) - 1)
        /\ k + 1 \in 1..(k + 1) /\ (k + 1) - 1 = k
    OBVIOUS
  <2>2. \A i \in 1..(k + 1) : terms(k + 1)[i] \in Int
    BY <1>1, <2>1
  <2>3. SumUpTo(terms(k + 1), k + 1) = SumUpTo(terms(k + 1), k) + terms(k + 1)[k + 1]
    BY <2>1, <2>2, SumSteps
  <2>4. terms(k + 1)[k + 1] = x[k] * Power(base, k)
    BY <1>1, <2>1
  <2>5. \A i \in 1..k : terms(k)[i] \in Int /\ terms(k + 1)[i] = terms(k)[i]
    <3>1. \A i \in 1..k : i \in 1..(k + 1)
      OBVIOUS
    <3>. QED
      BY <1>1, <2>1, <3>1
  <2>6. SumUpTo(terms(k + 1), k) = SumUpTo(terms(k), k)
    BY <2>1, <2>5, SumAgrees
  <2>. QED
    BY <2>3, <2>4, <2>6
<1>6. \A k \in 0..(w - 1) : k \in 0..w /\ k + 1 \in 0..w
  OBVIOUS
<1>. QED
  BY <1>2, <1>3, <1>4, <1>5, <1>6

\* k digits stand for less than base^k.
LEMMA LowValueBounds ==
  ASSUME NEW base \in Nat \ {0}, NEW w \in Nat, NEW x, \A i \in 0..(w - 1) : x[i] \in 0..(base - 1)
  PROVE  \A k \in 0..w : LowValue(x, base, k) \in 0..(Power(base, k) - 1)
<1>. DEFINE T == {k \in 0..w : LowValue(x, base, k) \in 0..(Power(base, k) - 1)}
<1>0. \A i \in 0..(w - 1) : x[i] \in Int
  OBVIOUS
<1>1. 0 \in T
  <2>1. LowValue(x, base, 0) = 0
    BY <1>0, LowValueSteps
  <2>2. Power(base, 0) = 1
    BY PowerFacts
  <2>. QED
    BY <2>1, <2>2
<1>2. ASSUME NEW k \in 0..(w - 1), k \in T PROVE k + 1 \in T
  <2>. DEFINE p == Power(base, k)
              v == LowValue(x, base, k)
  <2>1. p \in Nat \ {0} /\ Power(base, k + 1) = base * p
    BY PowerFacts
  <2>2. LowValue(x, base, k + 1) = v + x[k] * p
    BY <1>0, LowValueSteps
  <2>3. v \in 0..(p - 1)
    BY <1>2
  <2>. HIDE DEF p, v
  <2>4. x[k] \in 0..(base - 1)
    OBVIOUS
  <2>5. x[k] * p \in Nat /\ x[k] * p <= (base - 1) * p /\ (base - 1) * p = base * p - p /\ base * p \in Nat
    BY <2>1, <2>4
  <2>6. v + x[k] * p \in 0..(base * p - 1)
    BY <2>1, <2>3, <2>5
  <2>. QED
    BY <2>1, <2>2, <2>6
<1>3. 0..w \subseteq T
  <2>. HIDE DEF T
  <2>. QED
    BY <1>1, <1>2, RangeInduction
<1>. QED
  BY <1>3

\* The k lowest digits of n stand for the remainder of n by base^k.
LEMMA DigitsValue ==
  ASSUME NEW base \in Nat \ {0}, NEW w \in Nat, NEW n \in Nat
  PROVE  /\ DigitsOf(n, base, w) \in [0..(w - 1) -> 0..(base - 1)]
         /\ \A k \in 0..w : LowValue(DigitsOf(n, base, w), base, k) = n % Power(base, k)
<1>. DEFINE x == DigitsOf(n, base, w)
            T == {k \in 0..w : LowValue(x, base, k) = n % Power(base, k)}
<1>1. \A k \in Nat : Power(base, k) \in Nat \ {0}
  BY PowerFacts
<1>2. \A i \in 0..(w - 1) : x[i] = (n \div Power(base, i)) % base /\ x[i] \in 0..(base - 1)
  <2>1. ASSUME NEW i \in 0..(w - 1) PROVE (n \div Power(base, i)) % base \in 0..(base - 1)
    <3>. DEFINE p == Power(base, i)
    <3>1. p \in Nat \ {0}
      BY <1>1
    <3>. HIDE DEF p
    <3>2. (n \div p) % base \in 0..(base - 1)
      BY <3>1
    <3>. QED
      BY <3>2 DEF p
  <2>. QED
    BY <2>1 DEF DigitsOf
<1>3. x \in [0..(w - 1) -> 0..(base - 1)]
  BY <1>2 DEF DigitsOf
<1>. HIDE DEF x
<1>4. 0 \in T
  <2>1. LowValue(x, base, 0) = 0
    BY <1>2, LowValueSteps
  <2>2. Power(base, 0) = 1 /\ n % 1 = 0
    BY PowerFacts
  <2>. QED
    BY <2>1, <2>2
<1>5. ASSUME NEW k \in 0..(w - 1), k \in T PROVE k + 1 \in T
  <2>1. Power(base, k) \in Nat \ {0} /\ Power(base, k + 1) = base * Power(base, k)
    BY PowerFacts
  <2>2. LowValue(x, base, k + 1) = LowValue(x, base, k) + x[k] * Power(base, k)
    BY <1>2, LowValueSteps
  <2>3. n % (base * Power(base, k)) = (n % Power(base, k)) + ((n \div Power(base, k)) % base) * Power(base, k)
    <3>. DEFINE p == Power(base, k)
    <3>1. p \in Nat \ {0} /\ n \in Int
      BY <2>1
    <3>. HIDE DEF p
    <3>2. n % (base * p) = (n % p) + ((n \div p) % base) * p
      BY <3>1, RemainderSplits
    <3>. QED
      BY <3>2 DEF p
  <2>4. LowValue(x, base, k) = n % Power(base, k)
    BY <1>5
  <2>. QED
    BY <1>2, <2>1, <2>2, <2>3, <2>4
<1>6. 0..w \subseteq T
  <2>. HIDE DEF T
  <2>. QED
    BY <1>4, <1>5, RangeInduction
<1>. QED
  BY <1>3, <1>6 DEF x

\* Two numerals of as many digits that stand for one number are equal.
LEMMA NumeralsUnique ==
  ASSUME NEW base \in Nat \ {0}, NEW w \in Nat,
         NEW x \in [0..(w - 1) -> 0..(base - 1)], NEW y \in [0..(w - 1) -> 0..(base - 1)],
         LowValue(x, base, w) = LowValue(y, base, w)
  PROVE  x = y
<1>. DEFINE Same(k) == LowValue(x, base, k) = LowValue(y, base, k)
            T == {k \in 0..w : Same(w - k)}
<1>1. ASSUME NEW k \in 0..(w - 1), Same(k + 1) PROVE Same(k) /\ x[k] = y[k]
  <2>. DEFINE p == Power(base, k)
              a == LowValue(x, base, k)
              c == LowValue(y, base, k)
  <2>1. p \in Nat \ {0}
    <3>1. k \in Nat
      OBVIOUS
    <3>. QED
      BY <3>1, PowerFacts
  <2>2. a \in 0..(p - 1) /\ c \in 0..(p - 1)
    <3>1. k \in 0..w /\ (\A i \in 0..(w - 1) : x[i] \in 0..(base - 1)) /\ (\A i \in 0..(w - 1) : y[i] \in 0..(base - 1))
      OBVIOUS
    <3>. QED
      BY <3>1, LowValueBounds
  <2>3. a + x[k] * p = c + y[k] * p
    <3>1. (\A i \in 0..(w - 1) : x[i] \in Int) /\ (\A i \in 0..(w - 1) : y[i] \in Int)
      OBVIOUS
    <3>2. LowValue(x, base, k + 1) = a + x[k] * p /\ LowValue(y, base, k + 1) = c + y[k] * p
      BY <3>1, LowValueSteps
    <3>. QED
      BY <1>1, <3>2
  <2>4. x[k] \in Int /\ y[k] \in Int
    OBVIOUS
  <2>5. a = c /\ x[k] = y[k]
    <3>. DEFINE b == x[k]
                d == y[k]
    <3>1. a + b * p = c + d * p /\ b \in Int /\ d \in Int
      BY <2>3, <2>4
    <3>. HIDE DEF a, b, c, d, p
    <3>2. a = c /\ b = d
      BY <2>1, <2>2, <3>1, SameParts
    <3>. QED
      BY <3>2 DEF b, d
  <2>. QED
    BY <2>5
<1>2. 0 \in T
  OBVIOUS
<1>3. ASSUME NEW k \in 0..(w - 1), k \in T PROVE k + 1 \in T
  <2>1. w - k - 1 \in 0..(w - 1) /\ (w - k - 1) + 1 = w - k /\ w - k - 1 = w - (k + 1) /\ k + 1 \in 0..w
    OBVIOUS
  <2>2. Same(w - k - 1)
    BY <1>1, <1>3, <2>1
  <2>. QED
    BY <2>1, <2>2
<1>4. 0..w \subseteq T
  <2>. HIDE DEF T
  <2>. QED
    BY <1>2, <1>3, RangeInduction
<1>5. ASSUME NEW k \in 0..(w - 1) PROVE x[k] = y[k]
  <2>1. w - (k + 1) \in 0..w /\ w - (w - (k + 1)) = k + 1
    OBVIOUS
  <2>2. Same(k + 1)
    BY <1>4, <2>1
  <2>. QED
    BY <1>1, <2>2
<1>. QED
  BY <1>5

\* What borrowing does: the difference of the numbers, up to base^k.
LEMMA MinusValue ==
  ASSUME NEW base \in Nat \ {0}, NEW w \in Nat,
         NEW x \in [0..(w - 1) -> 0..(base - 1)], NEW y \in [0..(w - 1) -> 0..(base - 1)]
  PROVE  /\ Minus(x, y, base, w) \in [0..(w - 1) -> 0..(base - 1)]
         /\ LowValue(Minus(x, y, base, w), base, w)
              = (LowValue(x, base, w) - LowValue(y, base, w)) % Power(base, w)
<1>. DEFINE V == Int
            step == [i \in 0..(w - 1) |-> [v \in V |-> x[i] - y[i] - (IF v < 0 THEN 1 ELSE 0)]]
            Is(f) == f = [i \in 0..w |-> IF i = 0 THEN 0
                                         ELSE x[i - 1] - y[i - 1] - (IF f[i - 1] < 0 THEN 1 ELSE 0)]
            diff == CHOOSE f : Is(f)
            z == Minus(x, y, base, w)
<1>1. step \in [0..(w - 1) -> [V -> V]] /\ 0 \in V
  OBVIOUS
<1>2. \A i \in 0..(w - 1), v \in Int : step[i][v] = x[i] - y[i] - (IF v < 0 THEN 1 ELSE 0)
  OBVIOUS
<1>3. PICK g : Iterates(g, 0..w, V, 0, step)
  <2>. HIDE DEF step, V
  <2>. QED
    BY <1>1, RangeRecursion
<1>4. Is(g)
  <2>1. g \in [0..w -> Int] /\ g[0] = 0
    BY <1>3 DEF Iterates
  <2>2. ASSUME NEW i \in 0..w, i # 0
        PROVE  g[i] = x[i - 1] - y[i - 1] - (IF g[i - 1] < 0 THEN 1 ELSE 0)
    <3>1. i - 1 \in 0..w /\ i - 1 \in 0..(w - 1) /\ (i - 1) + 1 = i
      BY <2>2
    <3>. HIDE DEF step
    <3>2. g[(i - 1) + 1] = step[i - 1][g[i - 1]] /\ g[i - 1] \in Int
      BY <1>3, <3>1 DEF Iterates
    <3>. QED
      BY <1>2, <3>1, <3>2
  <2>. QED
    BY <2>1, <2>2
<1>5. Is(diff)
  <2>1. \E f : Is(f)
    BY <1>4
  <2>. HIDE DEF Is
  <2>. QED
    BY <2>1
<1>6. z = [i \in 0..(w - 1) |-> diff[i + 1] % base]
  BY DEF Minus
<1>. HIDE DEF diff, z
<1>7. diff[0] = 0 /\ \A i \in 0..(w - 1) :
        diff[i + 1] = x[i] - y[i] - (IF diff[i] < 0 THEN 1 ELSE 0)
  BY <1>5
<1>. HIDE DEF Is
<1>. DEFINE Borrow(i) == IF diff[i] < 0 THEN 1 ELSE 0
<1>8. ASSUME NEW i \in 0..(w - 1)
      PROVE  z[i] \in 0..(base - 1) /\ z[i] = x[i] - y[i] - Borrow(i) + Borrow(i + 1) * base
  <2>1. x[i] \in 0..(base - 1) /\ y[i] \in 0..(base - 1)
    OBVIOUS
  <2>2. diff[i + 1] = x[i] - y[i] - Borrow(i) /\ Borrow(i) \in {0, 1}
    BY <1>7
  <2>. DEFINE d == diff[i + 1]
              a == x[i]
              c == y[i]
              b == Borrow(i)
  <2>3. d \in Int /\ -base <= d /\ d < base /\ d = a - c - b
    <3>. HIDE DEF d, a, c, b
    <3>1. a \in 0..(base - 1) /\ c \in 0..(base - 1) /\ b \in {0, 1} /\ d = a - c - b
      BY <2>1, <2>2 DEF d, a, c, b
    <3>. QED
      BY <3>1
  <2>4. z[i] = d % base
    BY <1>6
  <2>5. d % base \in 0..(base - 1) /\ d % base = IF d < 0 THEN d + base ELSE d
    <3>. HIDE DEF d
    <3>1. CASE d < 0
      <4>. DEFINE q == -1
                  e == d + base
      <4>1. q \in Int /\ e \in 0..(base - 1) /\ d = q * base + e
        BY <2>3, <3>1
      <4>. HIDE DEF q, e
      <4>2. (q * base + e) % base = e
        BY <4>1, DivisionUnique
      <4>. QED
        BY <3>1, <4>1, <4>2 DEF e
    <3>2. CASE ~(d < 0)
      <4>. DEFINE q == 0
      <4>1. q \in Int /\ d \in 0..(base - 1) /\ d = q * base + d
        BY <2>3, <3>2
      <4>. HIDE DEF q
      <4>2. (q * base + d) % base = d
        BY <4>1, DivisionUnique
      <4>. QED
        BY <3>2, <4>1, <4>2
    <3>. QED
      BY <3>1, <3>2
  <2>6. Borrow(i + 1) * base = IF d < 0 THEN base ELSE 0
    OBVIOUS
  <2>. HIDE DEF d, a, c, b, Borrow
  <2>7. z[i] = d + Borrow(i + 1) * base
    BY <2>3, <2>4, <2>5, <2>6
  <2>. QED
    BY <2>3, <2>4, <2>5, <2>7 DEF a, c, b
<1>9. z \in [0..(w - 1) -> 0..(base - 1)]
  BY <1>6, <1>8
<1>10. /\ \A i \in 0..(w - 1) : x[i] \in Int
       /\ \A i \in 0..(w - 1) : y[i] \in Int
       /\ \A i \in 0..(w - 1) : z[i] \in Int
       /\ \A i \in 0..(w - 1) : z[i] \in 0..(base - 1)
  BY <1>9
<1>x. /\ \A k \in 0..w : LowValue(x, base, k) \in Int
      /\ \A k \in 0..(w - 1) : LowValue(x, base, k + 1) = LowValue(x, base, k) + x[k] * Power(base, k)
  BY <1>10, LowValueSteps
<1>y. /\ \A k \in 0..w : LowValue(y, base, k) \in Int
      /\ \A k \in 0..(w - 1) : LowValue(y, base, k + 1) = LowValue(y, base, k) + y[k] * Power(base, k)
  BY <1>10, LowValueSteps
<1>z. /\ \A k \in 0..w : LowValue(z, base, k) \in Int
      /\ \A k \in 0..(w - 1) : LowValue(z, base, k + 1) = LowValue(z, base, k) + z[k] * Power(base, k)
  <2>. HIDE DEF z
  <2>. QED
    BY <1>10, LowValueSteps
<1>. DEFINE T == {k \in 0..w : LowValue(x, base, k) - LowValue(y, base, k)
                                 = LowValue(z, base, k) - Borrow(k) * Power(base, k)}
<1>11. 0 \in T
  <2>1. LowValue(x, base, 0) = 0 /\ LowValue(y, base, 0) = 0 /\ LowValue(z, base, 0) = 0
    BY <1>10, LowValueSteps
  <2>2. Borrow(0) = 0 /\ Power(base, 0) = 1
    BY <1>7, PowerFacts
  <2>. QED
    BY <2>1, <2>2
<1>12. ASSUME NEW k \in 0..(w - 1), k \in T PROVE k + 1 \in T
  <2>. DEFINE p == Power(base, k)
              p1 == Power(base, k + 1)
              a == LowValue(x, base, k)   a1 == LowValue(x, base, k + 1)
              c == LowValue(y, base, k)   c1 == LowValue(y, base, k + 1)
              e == LowValue(z, base, k)   e1 == LowValue(z, base, k + 1)
              b == Borrow(k)              b1 == Borrow(k + 1)
              xk == x[k]  yk == y[k]  zk == z[k]
  <2>1. p \in Nat \ {0} /\ p1 = base * p
    BY PowerFacts
  <2>2. a \in Int /\ c \in Int /\ e \in Int /\ a1 = a + xk * p /\ c1 = c + yk * p /\ e1 = e + zk * p
    <3>1. k \in 0..w
      OBVIOUS
    <3>2. a \in Int /\ a1 = a + xk * p
      BY <1>x, <3>1
    <3>3. c \in Int /\ c1 = c + yk * p
      BY <1>y, <3>1
    <3>4. e \in Int /\ e1 = e + zk * p
      BY <1>z, <3>1
    <3>. QED
      BY <3>2, <3>3, <3>4
  <2>3. a - c = e - b * p
    BY <1>12
  <2>4. xk \in Int /\ yk \in Int /\ zk \in Int /\ b \in Int /\ b1 \in Int /\ zk = xk - yk - b + b1 * base
    BY <1>8, <1>10
  <2>. HIDE DEF p, p1, a, c, e, a1, c1, e1, b, b1, xk, yk, zk
  <2>5. zk * p = xk * p - yk * p - b * p + (b1 * base) * p
    BY <2>1, <2>4
  <2>6. (b1 * base) * p = b1 * p1
    BY <2>1, <2>4
  <2>7. xk * p \in Int /\ yk * p \in Int /\ b * p \in Int /\ b1 * p1 \in Int
    BY <2>1, <2>4
  <2>8. a1 - c1 = e1 - b1 * p1
    <3>. DEFINE xp == xk * p  yp == yk * p  zp == zk * p  bp == b * p  bp1 == b1 * p1
    <3>1. /\ xp \in Int /\ yp \in Int /\ bp \in Int /\ bp1 \in Int
          /\ a \in Int /\ c \in Int /\ e \in Int
          /\ zp = xp - yp - bp + bp1 /\ a - c = e - bp
          /\ a1 = a + xp /\ c1 = c + yp /\ e1 = e + zp
      BY <2>2, <2>3, <2>5, <2>6, <2>7
    <3>. HIDE DEF xp, yp, zp, bp, bp1
    <3>2. a1 - c1 = e1 - bp1
      BY <3>1
    <3>. QED
      BY <3>2 DEF bp1
  <2>. QED
    BY <2>8 DEF p1, a1, c1, e1, b1
<1>13. w \in T
  <2>1. 0..w \subseteq T
    <3>. HIDE DEF T
    <3>. QED
      BY <1>11, <1>12, RangeInduction
  <2>. QED
    BY <2>1
<1>14. LowValue(z, base, w) = (LowValue(x, base, w) - LowValue(y, base, w)) % Power(base, w)
  <2>. DEFINE p == Power(base, w)
              e == LowValue(z, base, w)
              a == LowValue(x, base, w)
              c == LowValue(y, base, w)
              b == Borrow(w)
  <2>1. p \in Nat \ {0}
    BY PowerFacts
  <2>2. e \in 0..(p - 1)
    <3>1. w \in 0..w
      OBVIOUS
    <3>. QED
      BY <1>10, <3>1, LowValueBounds
  <2>3. a - c = e - b * p /\ b \in {0, 1}
    BY <1>13
  <2>. HIDE DEF p, e, a, c, b
  <2>4. a - c = (-b) * p + e /\ -b \in Int
    BY <2>1, <2>2, <2>3
  <2>5. ((-b) * p + e) % p = e
    BY <2>1, <2>2, <2>4, DivisionUnique
  <2>. QED
    BY <2>4, <2>5 DEF p, e, a, c
<1>. QED
  BY <1>9, <1>14 DEF z

---------------------------------------------------------------------------
(* Sums with the first term apart, and residues. *)

LEMMA SumFromFirst ==
  ASSUME NEW w \in Nat, NEW x, NEW y, \A i \in 1..(w + 1) : x[i] \in Int, \A i \in 1..w : y[i] = x[i + 1]
  PROVE  SumUpTo(x, w + 1) = x[1] + SumUpTo(y, w)
<1>. DEFINE T == {k \in 0..w : SumUpTo(x, k + 1) = x[1] + SumUpTo(y, k)}
            n == w + 1
<1>1. n \in Nat /\ \A i \in 1..n : x[i] \in Int
  OBVIOUS
<1>2. \A k \in 0..w : k \in 0..(n - 1) /\ SumUpTo(x, k) \in Int
  <2>1. \A k \in 0..w : k \in 0..n /\ k \in 0..(n - 1)
    OBVIOUS
  <2>. HIDE DEF n
  <2>. QED
    BY <1>1, <2>1, SumSteps
<1>3. SumUpTo(x, 0) = 0 /\ \A k \in 0..(n - 1) : SumUpTo(x, k + 1) = SumUpTo(x, k) + x[k + 1]
  <2>. HIDE DEF n
  <2>. QED
    BY <1>1, SumSteps
<1>4. \A i \in 1..w : y[i] \in Int
  <2>1. \A i \in 1..w : i + 1 \in 1..(w + 1)
    OBVIOUS
  <2>. QED
    BY <2>1
<1>5. 0 \in T
  <2>1. SumUpTo(y, 0) = 0
    BY <1>4, SumSteps
  <2>2. 0 \in 0..w /\ 0 + 1 = 1 /\ x[1] \in Int
    OBVIOUS
  <2>3. SumUpTo(x, 0 + 1) = SumUpTo(x, 0) + x[0 + 1]
    BY <1>2, <1>3, <2>2
  <2>. HIDE DEF n
  <2>. QED
    BY <1>3, <2>1, <2>2, <2>3
<1>6. ASSUME NEW k \in 0..(w - 1), k \in T PROVE k + 1 \in T
  <2>1. k \in 0..w /\ k + 1 \in 0..w /\ k + 1 \in 0..(n - 1) /\ k + 1 \in 1..w /\ 1 \in 1..(w + 1)
    OBVIOUS
  <2>2. SumUpTo(x, (k + 1) + 1) = SumUpTo(x, k + 1) + x[(k + 1) + 1]
    BY <1>3, <2>1
  <2>3. SumUpTo(y, k + 1) = SumUpTo(y, k) + y[k + 1] /\ SumUpTo(y, k) \in Int
    BY <1>4, <2>1, SumSteps
  <2>4. SumUpTo(x, k + 1) = x[1] + SumUpTo(y, k) /\ y[k + 1] = x[(k + 1) + 1]
    BY <1>6, <2>1
  <2>5. x[1] \in Int /\ y[k + 1] \in Int
    BY <1>4, <2>1
  <2>6. SumUpTo(x, (k + 1) + 1) = x[1] + SumUpTo(y, k + 1)
    <3>. DEFINE a == SumUpTo(x, (k + 1) + 1)  b == SumUpTo(x, k + 1)  c == SumUpTo(y, k + 1)
                d == SumUpTo(y, k)  e == y[k + 1]  f == x[1]
    <3>1. a = b + e /\ c = d + e /\ b = f + d /\ d \in Int /\ e \in Int /\ f \in Int
      BY <2>2, <2>3, <2>4, <2>5
    <3>. HIDE DEF a, b, c, d, e, f
    <3>2. a = f + c
      BY <3>1
    <3>. QED
      BY <3>2 DEF a, c, f
  <2>. QED
    BY <2>1, <2>6
<1>7. 0..w \subseteq T
  <2>. HIDE DEF T
  <2>. QED
    BY <1>5, <1>6, RangeInduction
<1>. QED
  BY <1>7

\* Adding a multiple of the modulus changes no residue, and nothing else keeps it.
LEMMA SameResidue ==
  ASSUME NEW m \in Nat \ {0}, NEW a \in Int, NEW b \in Int
  PROVE  a % m = b % m <=> \E k \in Int : a = b + k * m
<1>. DEFINE p == a \div m  r == a % m  q == b \div m  s == b % m
<1>1. p \in Int /\ r \in 0..(m - 1) /\ a = p * m + r
  BY Division
<1>2. q \in Int /\ s \in 0..(m - 1) /\ b = q * m + s
  BY Division
<1>. HIDE DEF p, r, q, s
<1>3. ASSUME r = s PROVE \E k \in Int : a = b + k * m
  <2>1. p - q \in Int /\ (p - q) * m = p * m - q * m
    BY <1>1, <1>2
  <2>2. a = b + (p - q) * m
    BY <1>1, <1>2, <1>3, <2>1
  <2>. QED
    BY <2>1, <2>2
<1>4. ASSUME NEW k \in Int, a = b + k * m PROVE r = s
  <2>1. (q + k) * m = q * m + k * m /\ q + k \in Int
    BY <1>2
  <2>2. a = (q + k) * m + s
    BY <1>2, <1>4, <2>1
  <2>. DEFINE t == q + k
  <2>3. t \in Int /\ a = t * m + s
    BY <2>1, <2>2
  <2>. HIDE DEF t
  <2>4. (t * m + s) % m = s
    BY <1>2, <2>3, DivisionUnique
  <2>. QED
    BY <2>3, <2>4 DEF r
<1>. QED
  BY <1>3, <1>4 DEF r, s

LEMMA ResidueOfResidue ==
  ASSUME NEW m \in Nat \ {0}, NEW a \in Int
  PROVE  a % m \in 0..(m - 1) /\ (a % m) % m = a % m
<1>. DEFINE r == a % m
<1>1. r \in 0..(m - 1)
  BY Division
<1>. HIDE DEF r
<1>2. r % m = r
  BY <1>1
<1>. QED
  BY <1>1, <1>2 DEF r

\* The same with the multiple under a name.
Apart(a, b, m) == \E k \in Int : a = b + k * m

LEMMA ResiduesApart ==
  ASSUME NEW m \in Nat \ {0}
  PROVE  /\ \A a, b \in Int : a % m = b % m <=> Apart(a, b, m)
         /\ \A a \in Int : a % m = 0 <=> Apart(a, 0, m)
<1>1. \A a, b \in Int : a % m = b % m <=> Apart(a, b, m)
  BY SameResidue DEF Apart
<1>. DEFINE z == 0
<1>2. z \in Int /\ z % m = z
  OBVIOUS
<1>. HIDE DEF z
<1>3. \A a \in Int : a % m = z <=> Apart(a, z, m)
  BY <1>1, <1>2
<1>. QED
  BY <1>1, <1>3 DEF z

\* What is added to a multiple of the modulus to make another is one.
LEMMA MultipleOrNot ==
  ASSUME NEW m \in Nat \ {0}, NEW a \in Int, NEW b \in Int, (a + b) % m = 0
  PROVE  a % m = 0 <=> b % m = 0
<1>. DEFINE c == a + b
<1>1. c \in Int /\ c % m = 0
  OBVIOUS
<1>. HIDE DEF c
<1>2. PICK k \in Int : c = 0 + k * m
  BY <1>1, ResiduesApart DEF Apart
<1>3. ASSUME NEW x \in Int, NEW y \in Int, x + y = c, Apart(x, 0, m) PROVE Apart(y, 0, m)
  <2>1. PICK l \in Int : x = 0 + l * m
    BY <1>3 DEF Apart
  <2>2. k - l \in Int /\ (k - l) * m = k * m - l * m
    OBVIOUS
  <2>3. y = 0 + (k - l) * m
    BY <1>2, <1>3, <2>1, <2>2
  <2>. QED
    BY <2>2, <2>3 DEF Apart
<1>4. b + a = c /\ a + b = c
  BY DEF c
<1>. QED
  BY <1>3, <1>4, ResiduesApart

\* One equation, with w known up to the modulus, and what is wrong with it.
LEMMA EquationAndError ==
  ASSUME NEW m \in Nat \ {0}, NEW ab \in Int, NEW albe \in Int, NEW w \in Int, NEW ga \in Int, NEW cde \in Int,
         NEW vx \in Int, NEW e \in Int, NEW d \in Int, NEW s \in Int,
         vx % m = w % m, e % m = d % m,
         d = ab - albe - w * ga - cde, s = -ab + albe + vx * ga + cde + e
  PROVE  Apart(s, 0, m)
<1>0. Apart(vx, w, m) /\ Apart(e, d, m)
  BY ResiduesApart
<1>1. PICK k \in Int : vx = w + k * m
  BY <1>0 DEF Apart
<1>2. PICK l \in Int : e = d + l * m
  BY <1>0 DEF Apart
<1>. DEFINE n == k * ga + l
<1>3. s = 0 + n * m /\ n \in Int
  <2>1. vx * ga = w * ga + (k * ga) * m
    BY <1>1
  <2>2. n * m = (k * ga) * m + l * m
    OBVIOUS
  <2>. QED
    BY <1>2, <2>1, <2>2
<1>. HIDE DEF n
<1>. QED
  BY <1>3 DEF Apart

\* An equation between five terms and its error, and the sum of several.
Equation(ab, v, c, e, al, be, ga, de, m) == Apart(-ab + al * be + v * ga + c * de + e, 0, m)
EquationSum(sab, sal, sv, sc, t, al, be, ga, de, m) ==
  Apart(sab + (sal * al) * be + sv * ga + sc * de + t, 0, m)

\* One more equation, times r.
LEMMA SumsOfEquations ==
  ASSUME NEW m \in Nat \ {0}, NEW al \in Int, NEW be \in Int, NEW ga \in Int, NEW de \in Int,
         NEW sab \in Int, NEW sal \in Int, NEW sv \in Int, NEW sc \in Int, NEW t \in Int,
         EquationSum(sab, sal, sv, sc, t, al, be, ga, de, m),
         NEW r \in Int, NEW ab \in Int, NEW v \in Int, NEW c \in Int, NEW e \in Int,
         Equation(ab, v, c, e, al, be, ga, de, m),
         NEW sab1 \in Int, NEW sal1 \in Int, NEW sv1 \in Int, NEW sc1 \in Int, NEW t1, t1 = t + r * e,
         NEW xab, xab = sab - r * ab, Apart(sab1, xab, m), NEW xal, xal = sal + r, Apart(sal1, xal, m),
         NEW xv, xv = sv + r * v, Apart(sv1, xv, m), NEW xc, xc = sc + r * c, Apart(sc1, xc, m)
  PROVE  EquationSum(sab1, sal1, sv1, sc1, t1, al, be, ga, de, m)
<1>. DEFINE old == sab + (sal * al) * be + sv * ga + sc * de + t
            item == -ab + al * be + v * ga + c * de + e
            new == sab1 + (sal1 * al) * be + sv1 * ga + sc1 * de + t1
<1>1. PICK i, j \in Int : old = 0 + i * m /\ item = 0 + j * m
  BY DEF EquationSum, Equation, Apart
<1>2. PICK k1, k2 \in Int : sab1 = (sab - r * ab) + k1 * m /\ sal1 = (sal + r) + k2 * m
  BY DEF Apart
<1>3. PICK k3, k4 \in Int : sv1 = (sv + r * v) + k3 * m /\ sc1 = (sc + r * c) + k4 * m
  BY DEF Apart
<1>. DEFINE n == i + r * j + k1 + (k2 * al) * be + k3 * ga + k4 * de
<1>4. new = 0 + n * m /\ n \in Int
  <2>1. new = old + r * item + (k1 + (k2 * al) * be + k3 * ga + k4 * de) * m
    BY <1>2, <1>3
  <2>2. r * item = (r * j) * m
    <3>1. item = j * m
      BY <1>1
    <3>. HIDE DEF item
    <3>. QED
      BY <3>1
  <2>3. n * m = i * m + (r * j) * m + (k1 + (k2 * al) * be + k3 * ga + k4 * de) * m
    OBVIOUS
  <2>4. old = i * m
    BY <1>1
  <2>5. n \in Int
    OBVIOUS
  <2>. HIDE DEF n, old, item, new
  <2>. QED
    BY <2>1, <2>2, <2>3, <2>4, <2>5
<1>. HIDE DEF n
<1>. QED
  BY <1>4 DEF EquationSum, Apart

Scaled(a, sal, al, m) == Apart(a, sal * al, m)
ThreeAndOne(ab, a, v, c, be, ga, de) == ab + a * be + v * ga + c * de

\* The verdict on the sums: the coefficient of alpha may be reduced.
LEMMA SumOfEquations ==
  ASSUME NEW m \in Nat \ {0}, NEW al \in Int, NEW be \in Int, NEW ga \in Int, NEW de \in Int,
         NEW sab \in Int, NEW sal \in Int, NEW sv \in Int, NEW sc \in Int, NEW t \in Int,
         EquationSum(sab, sal, sv, sc, t, al, be, ga, de, m),
         NEW a \in Int, Scaled(a, sal, al, m)
  PROVE  Apart(ThreeAndOne(sab, a, sv, sc, be, ga, de), 0, m) <=> Apart(t, 0, m)
<1>. DEFINE d == sab + (sal * al) * be + sv * ga + sc * de
            s == d + t
            ta == sal * al
            g == ThreeAndOne(sab, a, sv, sc, be, ga, de)
<1>1. PICK k \in Int : a = ta + k * m
  BY DEF Apart, Scaled
<1>. DEFINE n == k * be
<1>2. g = d + n * m /\ n \in Int /\ d \in Int /\ g \in Int
  <2>1. a * be = ta * be + n * m
    BY <1>1
  <2>2. ta \in Int /\ ta * be \in Int /\ n * m \in Int /\ sv * ga \in Int /\ sc * de \in Int /\ a * be \in Int
        /\ n \in Int
    OBVIOUS
  <2>3. d = sab + ta * be + sv * ga + sc * de /\ g = sab + a * be + sv * ga + sc * de
    BY DEF ThreeAndOne
  <2>. HIDE DEF d, n, g
  <2>. QED
    BY <2>1, <2>2, <2>3
<1>3. Apart(s, 0, m)
  BY DEF EquationSum
<1>4. s \in Int
  BY <1>2
<1>. HIDE DEF d, n
<1>5. Apart(g, d, m)
  BY <1>2 DEF Apart
<1>6. g % m = d % m
  BY <1>2, <1>5, ResiduesApart
<1>7. (d + t) % m = 0
  <2>. HIDE DEF s
  <2>1. s % m = 0
    BY <1>3, <1>4, ResiduesApart
  <2>. QED
    BY <2>1 DEF s
<1>8. d % m = 0 <=> t % m = 0
  BY <1>2, <1>7, MultipleOrNot
<1>9. (g % m = 0 <=> Apart(g, 0, m)) /\ (t % m = 0 <=> Apart(t, 0, m))
  BY <1>2, ResiduesApart
<1>. QED
  BY <1>6, <1>8, <1>9

---------------------------------------------------------------------------
(* Loops, and numerals in parts. *)

\* A loop that makes something smaller at each turn, and what it leaves alone.
Loops(f, D, more, next, size, g) ==
  /\ more \subseteq D /\ \A x \in D : size[x] \in Nat
  /\ \A x \in more : next[x] \in D /\ size[next[x]] < size[x] /\ g[next[x]] = g[x]
  /\ f = [x \in D |-> IF x \in more THEN f[next[x]] ELSE g[x]]

\* Such a loop gives what it leaves alone.
LEMMA LoopResult ==
  ASSUME NEW f, NEW D, NEW more, NEW next, NEW size, NEW g, Loops(f, D, more, next, size, g)
  PROVE  \A x \in D : f[x] = g[x]
<1>0. /\ more \subseteq D /\ \A x \in D : size[x] \in Nat
      /\ \A x \in more : next[x] \in D /\ size[next[x]] < size[x] /\ g[next[x]] = g[x]
      /\ f = [x \in D |-> IF x \in more THEN f[next[x]] ELSE g[x]]
  BY DEF Loops
<1>. DEFINE W == {n \in Nat : \A x \in D : size[x] < n => f[x] = g[x]}
<1>1. 0 \in W
  BY <1>0
<1>2. ASSUME NEW n \in Nat, n \in W PROVE n + 1 \in W
  <2>1. ASSUME NEW x \in D, size[x] < n + 1 PROVE f[x] = g[x]
    <3>1. CASE x \in more
      <4>1. f[x] = f[next[x]] /\ next[x] \in D /\ size[next[x]] < n /\ g[next[x]] = g[x]
        BY <1>0, <2>1, <3>1
      <4>. QED
        BY <1>2, <4>1
    <3>2. CASE x \notin more
      BY <1>0, <3>2
    <3>. QED
      BY <3>1, <3>2
  <2>. QED
    BY <2>1
<1>3. Nat \subseteq W
  <2>. HIDE DEF W
  <2>. QED
    BY <1>1, <1>2, SetInduction
<1>4. ASSUME NEW x \in D PROVE f[x] = g[x]
  <2>1. size[x] + 1 \in W /\ size[x] < size[x] + 1
    BY <1>0, <1>3
  <2>. QED
    BY <2>1
<1>. QED
  BY <1>4

\* Powers of sums.
LEMMA PowerOfSum ==
  ASSUME NEW base \in Nat \ {0}, NEW i \in Nat
  PROVE  \A k \in Nat : Power(base, i + k) = Power(base, i) * Power(base, k)
<1>. DEFINE W == {k \in Nat : Power(base, i + k) = Power(base, i) * Power(base, k)}
<1>1. 0 \in W
  BY PowerFacts
<1>2. ASSUME NEW k \in Nat, k \in W PROVE k + 1 \in W
  <2>. DEFINE n == i + k  p == Power(base, n)  q == Power(base, i)  s == Power(base, k)
  <2>0. k \in Nat /\ n \in Nat /\ i + (k + 1) = n + 1
    OBVIOUS
  <2>1. p \in Nat /\ q \in Nat /\ s \in Nat
    <3>. HIDE DEF n
    <3>. QED
      BY <2>0, PowerFacts
  <2>2. p = q * s
    BY <1>2
  <2>3. Power(base, n + 1) = base * p /\ Power(base, k + 1) = base * s
    <3>. HIDE DEF n
    <3>. QED
      BY <2>0, PowerFacts
  <2>4. base * p = q * (base * s)
    <3>. HIDE DEF p, q, s
    <3>. QED
      BY <2>1, <2>2
  <2>5. Power(base, i + (k + 1)) = Power(base, i) * Power(base, k + 1)
    <3>. HIDE DEF n
    <3>. QED
      BY <2>0, <2>3, <2>4
  <2>. QED
    BY <2>5
<1>3. Nat \subseteq W
  <2>. HIDE DEF W
  <2>. QED
    BY <1>1, <1>2, SetInduction
<1>. QED
  BY <1>3

\* Digits times c, plus digits.
Linear(z, c, x, y, w) == \A i \in 0..(w - 1) : x[i] \in Int /\ y[i] \in Int /\ z[i] = c * x[i] + y[i]

\* The value of a sum of multiples of digits is the sum of multiples.
LEMMA LowValueLinear ==
  ASSUME NEW base \in Nat \ {0}, NEW w \in Nat, NEW x, NEW y, NEW z, NEW c \in Int, Linear(z, c, x, y, w)
  PROVE  \A k \in 0..w : LowValue(z, base, k) = c * LowValue(x, base, k) + LowValue(y, base, k)
<1>. DEFINE vx(k) == LowValue(x, base, k)
            vy(k) == LowValue(y, base, k)
            vz(k) == LowValue(z, base, k)
            W == {k \in 0..w : vz(k) = c * vx(k) + vy(k)}
<1>1. /\ \A i \in 0..(w - 1) : x[i] \in Int
      /\ \A i \in 0..(w - 1) : y[i] \in Int
      /\ \A i \in 0..(w - 1) : z[i] \in Int
      /\ \A i \in 0..(w - 1) : z[i] = c * x[i] + y[i]
  BY DEF Linear
<1>2. /\ vx(0) = 0 /\ vy(0) = 0 /\ vz(0) = 0
      /\ \A k \in 0..w : vx(k) \in Int /\ vy(k) \in Int /\ vz(k) \in Int
      /\ \A k \in 0..(w - 1) : /\ vx(k + 1) = vx(k) + x[k] * Power(base, k)
                               /\ vy(k + 1) = vy(k) + y[k] * Power(base, k)
                               /\ vz(k + 1) = vz(k) + z[k] * Power(base, k)
  BY <1>1, LowValueSteps
<1>. HIDE DEF vx, vy, vz
<1>3. 0 \in W
  BY <1>2
<1>4. ASSUME NEW k \in 0..(w - 1), k \in W PROVE k + 1 \in W
  <2>. DEFINE p == Power(base, k)  a == vx(k)  b == vy(k)  d == x[k]  e == y[k]
  <2>0. k \in Nat /\ k \in 0..w
    OBVIOUS
  <2>1. p \in Int /\ a \in Int /\ b \in Int /\ d \in Int /\ e \in Int
    <3>1. p \in Int
      BY <2>0, PowerFacts
    <3>2. a \in Int /\ b \in Int
      BY <1>2, <2>0
    <3>3. d \in Int /\ e \in Int
      BY <1>1
    <3>. QED
      BY <3>1, <3>2, <3>3
  <2>2. vz(k) = c * a + b /\ z[k] = c * d + e
    BY <1>1, <1>4
  <2>3. vx(k + 1) = a + d * p /\ vy(k + 1) = b + e * p /\ vz(k + 1) = vz(k) + z[k] * p
    BY <1>2
  <2>. HIDE DEF p, a, b, d, e
  <2>4. (c * d + e) * p = c * (d * p) + e * p
    BY <2>1
  <2>5. c * (a + d * p) = c * a + c * (d * p)
    BY <2>1
  <2>6. vz(k + 1) = c * vx(k + 1) + vy(k + 1)
    <3>1. d * p \in Int /\ e * p \in Int /\ c * a \in Int /\ c * (d * p) \in Int
      BY <2>1
    <3>. QED
      BY <2>1, <2>2, <2>3, <2>4, <2>5, <3>1
  <2>. QED
    BY <2>6
<1>5. \A k \in 0..w : k \in W
  <2>. HIDE DEF W
  <2>. QED
    BY <1>3, <1>4, RangeInduction
<1>. QED
  BY <1>5 DEF vx, vy, vz

\* Digits in two parts.
SplitAt(x, i, y, w) == (\A j \in 0..(i + w - 1) : x[j] \in Int) /\ \A j \in 0..(w - 1) : y[j] = x[i + j]

\* The value of a numeral is that of its lowest digits and, shifted, of the rest.
LEMMA LowValueSplits ==
  ASSUME NEW base \in Nat \ {0}, NEW i \in Nat, NEW w \in Nat, NEW x, NEW y, SplitAt(x, i, y, w)
  PROVE  \A k \in 0..w : LowValue(x, base, i + k) = LowValue(x, base, i) + Power(base, i) * LowValue(y, base, k)
<1>. DEFINE vx(k) == LowValue(x, base, k)
            vy(k) == LowValue(y, base, k)
            n == i + w
            q == Power(base, i)
            W == {k \in 0..w : vx(i + k) = vx(i) + q * vy(k)}
<1>0. (\A j \in 0..(i + w - 1) : x[j] \in Int) /\ \A j \in 0..(w - 1) : y[j] = x[i + j]
  BY DEF SplitAt
<1>1. n \in Nat /\ (\A j \in 0..(n - 1) : x[j] \in Int) /\ (\A j \in 0..(w - 1) : y[j] \in Int)
  <2>1. \A j \in 0..(w - 1) : i + j \in 0..(i + w - 1)
    OBVIOUS
  <2>. QED
    BY <1>0, <2>1
<1>2. /\ \A k \in 0..n : vx(k) \in Int
      /\ \A k \in 0..(n - 1) : vx(k + 1) = vx(k) + x[k] * Power(base, k)
  <2>. HIDE DEF n
  <2>. QED
    BY <1>1, LowValueSteps
<1>3. /\ vy(0) = 0 /\ \A k \in 0..w : vy(k) \in Int
      /\ \A k \in 0..(w - 1) : vy(k + 1) = vy(k) + y[k] * Power(base, k)
  BY <1>1, LowValueSteps
<1>4. q \in Int
  BY PowerFacts
<1>. HIDE DEF vx, vy
<1>5. 0 \in W
  BY <1>2, <1>3, <1>4
<1>6. ASSUME NEW k \in 0..(w - 1), k \in W PROVE k + 1 \in W
  <2>. DEFINE l == i + k  p == Power(base, k)  a == vx(i)  b == vy(k)  d == y[k]
  <2>1. l \in 0..(n - 1) /\ i + (k + 1) = l + 1 /\ i \in 0..n
    OBVIOUS
  <2>2. p \in Int /\ a \in Int /\ b \in Int /\ d \in Int
    <3>1. p \in Int
      <4>1. k \in Nat
        OBVIOUS
      <4>. QED
        BY <4>1, PowerFacts
    <3>2. k \in 0..w
      OBVIOUS
    <3>. QED
      BY <1>1, <1>2, <1>3, <2>1, <3>1, <3>2
  <2>3. x[l] = d /\ Power(base, l) = q * p
    BY <1>0, PowerOfSum
  <2>4. vx(l + 1) = vx(l) + d * (q * p)
    BY <1>2, <2>1, <2>3
  <2>5. vx(l) = a + q * b
    BY <1>6
  <2>6. vy(k + 1) = b + d * p
    BY <1>3
  <2>. HIDE DEF l, p, a, b, d, q, n
  <2>7. q * (b + d * p) = q * b + d * (q * p)
    BY <1>4, <2>2
  <2>8. vx(l + 1) = a + q * vy(k + 1)
    <3>1. q * b \in Int /\ d * (q * p) \in Int
      BY <1>4, <2>2
    <3>. QED
      BY <2>2, <2>4, <2>5, <2>6, <2>7, <3>1
  <2>9. vx(i + (k + 1)) = vx(i) + q * vy(k + 1)
    BY <2>1, <2>8 DEF a
  <2>. QED
    BY <2>9
<1>7. \A k \in 0..w : k \in W
  <2>. HIDE DEF W
  <2>. QED
    BY <1>5, <1>6, RangeInduction
<1>. QED
  BY <1>7 DEF vx, vy

\* x is greater than y: it is at the highest digit that differs.
Exceeds(x, y, k) == \E i \in 0..(k - 1) : x[i] > y[i] /\ \A j \in (i + 1)..(k - 1) : x[j] = y[j]

\* Numerals compare as their most significant difference does.
LEMMA NumeralsCompare ==
  ASSUME NEW base \in Nat \ {0}, NEW w \in Nat,
         NEW x \in [0..(w - 1) -> 0..(base - 1)], NEW y \in [0..(w - 1) -> 0..(base - 1)]
  PROVE  \A k \in 0..w : Exceeds(x, y, k) <=> LowValue(x, base, k) > LowValue(y, base, k)
<1>. DEFINE vx(k) == LowValue(x, base, k)
            vy(k) == LowValue(y, base, k)
            W == {k \in 0..w : Exceeds(x, y, k) <=> vx(k) > vy(k)}
<1>1. \A i \in 0..(w - 1) : x[i] \in 0..(base - 1) /\ y[i] \in 0..(base - 1) /\ x[i] \in Int /\ y[i] \in Int
  OBVIOUS
<1>2. /\ vx(0) = 0 /\ vy(0) = 0
      /\ \A k \in 0..(w - 1) : vx(k + 1) = vx(k) + x[k] * Power(base, k)
      /\ \A k \in 0..(w - 1) : vy(k + 1) = vy(k) + y[k] * Power(base, k)
  BY <1>1, LowValueSteps
<1>3. \A k \in 0..w : vx(k) \in 0..(Power(base, k) - 1) /\ vy(k) \in 0..(Power(base, k) - 1)
  BY LowValueBounds
<1>. HIDE DEF vx, vy
<1>4. 0 \in W
  BY <1>2 DEF Exceeds
<1>5. ASSUME NEW k \in 0..(w - 1), k \in W PROVE k + 1 \in W
  <2>. DEFINE p == Power(base, k)  a == vx(k)  b == vy(k)  d == x[k]  e == y[k]
              a1 == vx(k + 1)  b1 == vy(k + 1)
  <2>1. k \in Nat /\ k \in 0..w /\ k + 1 \in 0..w
    OBVIOUS
  <2>2. p \in Nat \ {0}
    BY <2>1, PowerFacts
  <2>3. a \in 0..(p - 1) /\ b \in 0..(p - 1) /\ d \in Int /\ e \in Int
    BY <1>1, <1>3, <2>1
  <2>4. a1 = a + d * p /\ b1 = b + e * p
    BY <1>2
  <2>5. Exceeds(x, y, k + 1) <=> d > e \/ (d = e /\ Exceeds(x, y, k))
    <3>1. ASSUME Exceeds(x, y, k + 1) PROVE d > e \/ (d = e /\ Exceeds(x, y, k))
      <4>1. PICK i \in 0..k : x[i] > y[i] /\ \A j \in (i + 1)..k : x[j] = y[j]
        BY <3>1 DEF Exceeds
      <4>2. CASE i = k
        BY <4>1, <4>2
      <4>3. CASE i # k
        <5>1. i \in 0..(k - 1) /\ k \in (i + 1)..k /\ \A j \in (i + 1)..(k - 1) : j \in (i + 1)..k
          BY <4>3
        <5>. QED
          BY <4>1, <5>1 DEF Exceeds
      <4>. QED
        BY <4>2, <4>3
    <3>2. ASSUME d > e PROVE Exceeds(x, y, k + 1)
      <4>1. k \in 0..((k + 1) - 1) /\ (k + 1)..((k + 1) - 1) = {}
        OBVIOUS
      <4>. QED
        BY <3>2, <4>1 DEF Exceeds
    <3>3. ASSUME d = e, Exceeds(x, y, k) PROVE Exceeds(x, y, k + 1)
      <4>1. PICK i \in 0..(k - 1) : x[i] > y[i] /\ \A j \in (i + 1)..(k - 1) : x[j] = y[j]
        BY <3>3 DEF Exceeds
      <4>2. i \in 0..((k + 1) - 1) /\ \A j \in (i + 1)..((k + 1) - 1) : j \in (i + 1)..(k - 1) \/ j = k
        OBVIOUS
      <4>. QED
        BY <3>3, <4>1, <4>2 DEF Exceeds
    <3>. QED
      BY <3>1, <3>2, <3>3
  <2>6. Exceeds(x, y, k) <=> a > b
    BY <1>5
  <2>. HIDE DEF p, a, b, d, e, a1, b1
  <2>7. CASE d > e
    <3>. DEFINE f == d - e
    <3>1. f \in Nat \ {0} /\ d = e + f
      BY <2>3, <2>7
    <3>. HIDE DEF f
    <3>2. f * p >= p /\ (e + f) * p = e * p + f * p /\ e * p \in Int /\ f * p \in Int
      BY <2>2, <2>3, <3>1
    <3>3. a1 > b1
      <4>. DEFINE u == e * p  v == f * p
      <4>1. u \in Int /\ v \in Int /\ v >= p /\ a1 = a + (u + v) /\ b1 = b + u
        BY <2>4, <3>1, <3>2
      <4>. HIDE DEF u, v
      <4>. QED
        BY <2>2, <2>3, <4>1
    <3>. QED
      BY <2>1, <2>5, <2>7, <3>3 DEF a1, b1
  <2>8. CASE d < e
    <3>. DEFINE f == e - d
    <3>1. f \in Nat \ {0} /\ e = d + f
      BY <2>3, <2>8
    <3>. HIDE DEF f
    <3>2. f * p >= p /\ (d + f) * p = d * p + f * p /\ d * p \in Int /\ f * p \in Int
      BY <2>2, <2>3, <3>1
    <3>3. a1 < b1 /\ a1 \in Int /\ b1 \in Int
      <4>. DEFINE u == d * p  v == f * p
      <4>1. u \in Int /\ v \in Int /\ v >= p /\ a1 = a + u /\ b1 = b + (u + v)
        BY <2>4, <3>1, <3>2
      <4>. HIDE DEF u, v
      <4>. QED
        BY <2>2, <2>3, <4>1
    <3>4. ~(a1 > b1) /\ ~(d > e) /\ d # e
      BY <2>3, <2>8, <3>3
    <3>. QED
      BY <2>1, <2>5, <3>4 DEF a1, b1
  <2>9. CASE d = e
    <3>1. d * p \in Int /\ a1 = a + d * p /\ b1 = b + d * p
      BY <2>2, <2>3, <2>4, <2>9
    <3>2. a1 > b1 <=> a > b
      BY <2>2, <2>3, <3>1
    <3>3. ~(d > e)
      BY <2>3, <2>9
    <3>. QED
      BY <2>1, <2>5, <2>6, <2>9, <3>2, <3>3 DEF a1, b1
  <2>. QED
    BY <2>3, <2>7, <2>8, <2>9
<1>6. \A k \in 0..w : k \in W
  <2>. HIDE DEF W
  <2>. QED
    BY <1>4, <1>5, RangeInduction
<1>. QED
  BY <1>6 DEF vx, vy

\* A quotient is less than what bounds the number, divided.
LEMMA QuotientBound ==
  ASSUME NEW m \in Nat \ {0}, NEW c \in Nat, NEW l, l = c * m, NEW n \in Nat, n < l
  PROVE  n \div m \in Nat /\ n \div m < c
<1>. DEFINE q == n \div m  r == n % m
<1>1. q \in Int /\ r \in 0..(m - 1) /\ n = q * m + r
  BY Division
<1>. HIDE DEF q, r
<1>2. ASSUME q < 0 PROVE FALSE
  <2>. DEFINE d == -1 - q
  <2>1. d \in Nat /\ q = -1 - d
    BY <1>1, <1>2
  <2>. HIDE DEF d
  <2>2. q * m = -m - d * m /\ d * m \in Nat
    BY <2>1
  <2>. DEFINE u == d * m  v == q * m
  <2>3. v = -m - u /\ u \in Nat /\ v + r = n
    BY <1>1, <2>2
  <2>. HIDE DEF u, v
  <2>. QED
    BY <1>1, <2>3
<1>3. ASSUME q >= c PROVE FALSE
  <2>. DEFINE d == q - c
  <2>1. d \in Nat /\ q = c + d
    BY <1>1, <1>3
  <2>. HIDE DEF d
  <2>2. q * m = c * m + d * m /\ d * m \in Nat /\ c * m \in Nat
    BY <2>1
  <2>. DEFINE u == d * m  v == q * m
  <2>3. v = l + u /\ u \in Nat /\ v + r = n /\ l \in Nat
    BY <1>1, <2>2
  <2>. HIDE DEF u, v
  <2>. QED
    BY <1>1, <2>3
<1>. QED
  BY <1>1, <1>2, <1>3 DEF q

\* Below a modulus a number is its residue.
LEMMA SmallResidue ==
  ASSUME NEW m \in Nat \ {0}, NEW n \in 0..(m - 1)
  PROVE  n % m = n
OBVIOUS

\* The same digits stand for the same number, and zeros above them for nothing.
LEMMA LowValueAgrees ==
  ASSUME NEW base \in Nat \ {0}, NEW w \in Nat, NEW x, NEW y, \A i \in 0..(w - 1) : x[i] \in Int /\ y[i] = x[i]
  PROVE  LowValue(y, base, w) = LowValue(x, base, w)
<1>. DEFINE vx(k) == LowValue(x, base, k)
            vy(k) == LowValue(y, base, k)
            W == {k \in 0..w : vy(k) = vx(k)}
<1>1. (\A i \in 0..(w - 1) : x[i] \in Int) /\ (\A i \in 0..(w - 1) : y[i] \in Int)
  OBVIOUS
<1>2. /\ vx(0) = 0 /\ vy(0) = 0
      /\ \A k \in 0..(w - 1) : vx(k + 1) = vx(k) + x[k] * Power(base, k)
      /\ \A k \in 0..(w - 1) : vy(k + 1) = vy(k) + y[k] * Power(base, k)
  BY <1>1, LowValueSteps
<1>. HIDE DEF vx, vy
<1>3. 0 \in W
  BY <1>2
<1>4. ASSUME NEW k \in 0..(w - 1), k \in W PROVE k + 1 \in W
  <2>1. x[k] = y[k] /\ k + 1 \in 0..w
    OBVIOUS
  <2>2. vy(k + 1) = vx(k + 1)
    BY <1>2, <1>4, <2>1
  <2>. QED
    BY <2>1, <2>2
<1>5. \A k \in 0..w : k \in W
  <2>. HIDE DEF W
  <2>. QED
    BY <1>3, <1>4, RangeInduction
<1>6. w \in 0..w
  OBVIOUS
<1>. QED
  BY <1>5, <1>6 DEF vx, vy

ZerosOnTop(x, h, d) == (\A i \in 0..(h + d - 1) : x[i] \in Int) /\ \A i \in 0..(d - 1) : x[h + i] = 0

\* Zeros on top do not count.
LEMMA ZerosAbove ==
  ASSUME NEW base \in Nat \ {0}, NEW h \in Nat, NEW d \in Nat, NEW x, ZerosOnTop(x, h, d)
  PROVE  LowValue(x, base, h + d) = LowValue(x, base, h)
<1>. DEFINE vx(k) == LowValue(x, base, k)
            w == h + d
            W == {k \in 0..d : vx(h + k) = vx(h)}
<1>1. w \in Nat /\ (\A i \in 0..(w - 1) : x[i] \in Int) /\ \A i \in 0..(d - 1) : x[h + i] = 0
  BY DEF ZerosOnTop
<1>2. /\ \A k \in 0..w : vx(k) \in Int
      /\ \A k \in 0..(w - 1) : vx(k + 1) = vx(k) + x[k] * Power(base, k)
  <2>. HIDE DEF w
  <2>. QED
    BY <1>1, LowValueSteps
<1>. HIDE DEF vx
<1>3. 0 \in W
  BY <1>1
<1>4. ASSUME NEW k \in 0..(d - 1), k \in W PROVE k + 1 \in W
  <2>. DEFINE l == h + k
  <2>1. l \in 0..(w - 1) /\ l \in 0..w /\ l \in Nat /\ h + (k + 1) = l + 1 /\ k + 1 \in 0..d /\ x[l] = 0
    BY <1>1
  <2>2. Power(base, l) \in Nat
    <3>. HIDE DEF l
    <3>. QED
      BY <2>1, PowerFacts
  <2>3. x[l] * Power(base, l) = 0
    BY <2>1, <2>2
  <2>. HIDE DEF l
  <2>4. vx(l + 1) = vx(l) /\ vx(l) = vx(h)
    BY <1>2, <1>4, <2>1, <2>3 DEF l
  <2>. QED
    BY <2>1, <2>4
<1>5. \A k \in 0..d : k \in W
  <2>. HIDE DEF W
  <2>. QED
    BY <1>3, <1>4, RangeInduction
<1>6. d \in 0..d
  OBVIOUS
<1>. QED
  BY <1>5, <1>6 DEF vx
=============================================================================
