------------------------------- MODULE NoteProofs -------------------------------
(***************************************************************************)
(* What notes are made of and who finds them: Poseidon as the contracts    *)
(* compute it (Poseidon.tla), for every modulus, limb and number of        *)
(* rounds; what is hashed (NoteHashes.tla), for every modulus; and viewing *)
(* keys (ViewingKeys.tla), for every number of epochs and notes.           *)
(*                                                                         *)
(* The arithmetic of limbs is arithmetic modulo r.  A state then stands    *)
(* for a state of the textbook permutation: the same in the full rounds,   *)
(* up to constants that are added later; in another basis in the partial   *)
(* rounds, where the constants that are skipped have become an offset.     *)
(* That the constants of the code are derived so is the assumption         *)
(* PoseidonDerivation.                                                     *)
(***************************************************************************)
EXTENDS Poseidon, NoteHashes, ViewingKeys, DataTheorems

---------------------------------------------------------------------------
(* Poseidon: limbs and carries. *)

\* Facts about the constants of the hash.
LEMMA BaseIsBase == Base \in Nat \ {0} /\ Base \in Int
  BY PoseidonAssumption

DoubleBase == Base * Base

\* A square has room for a product of digits and two more.
LEMMA BaseFacts ==
  /\ Base \in Nat \ {0, 1} /\ Base \in Nat \ {0} /\ Limbs \in Nat \ {0} /\ Modulus \in Nat \ {0}
  /\ DoubleBase \in Nat \ {0} /\ DoubleBase >= Base + Base - 2 + Base
<1>1. Base \in Nat \ {0, 1} /\ Limbs \in Nat \ {0} /\ Modulus \in Nat \ {0}
  BY PoseidonAssumption
<1>. DEFINE c == Base - 2
<1>2. c \in Nat /\ Base = c + 2
  BY <1>1
<1>. HIDE DEF c
<1>3. Base * Base = c * c + 4 * c + 4 /\ c * c \in Nat /\ c * c >= 0
  BY <1>2
<1>4. (c = 0 \/ c * c >= c)
  BY <1>2
<1>. DEFINE u == c * c
<1>5. DoubleBase = u + 4 * c + 4 /\ u \in Nat /\ (c = 0 \/ u >= c)
  BY <1>3, <1>4 DEF DoubleBase
<1>. HIDE DEF u
<1>. QED
  BY <1>1, <1>2, <1>5

\* Numbers of two limbs.
LEMMA Words ==
  ASSUME NEW v \in 0..(DoubleBase - 1)
  PROVE  /\ DoubleWord(v) = v
         /\ v \div Base \in 0..(Base - 1) /\ Word(v \div Base) = v \div Base
         /\ Word(v) \in 0..(Base - 1) /\ v = (v \div Base) * Base + Word(v)
<1>1. v \in Nat /\ v < DoubleBase /\ DoubleBase = Base * Base /\ DoubleBase \in Nat \ {0}
  BY BaseFacts DEF DoubleBase
<1>2. v % DoubleBase = v
  BY <1>1
<1>3. v \div Base \in Nat /\ v \div Base < Base
  BY <1>1, BaseFacts, QuotientBound
<1>4. v % Base \in 0..(Base - 1) /\ v = (v \div Base) * Base + (v % Base)
  BY <1>1, BaseFacts, Division
<1>. DEFINE q == v \div Base
<1>5. q \in 0..(Base - 1)
  BY <1>3, BaseFacts
<1>. HIDE DEF q
<1>6. q % Base = q
  BY <1>5, BaseFacts
<1>. QED
  BY <1>1, <1>2, <1>4, <1>5, <1>6 DEF DoubleWord, Word, DoubleBase, q

\* The sums and the carries of a row of terms.
RowSums(terms, n, sum) ==
  \A i \in 0..n :
    /\ sum[i] \in 0..(DoubleBase - 1)
    /\ sum[i] = terms[i] + (IF i > 0 THEN sum[i - 1] \div Base ELSE 0)

\* The sums of with-carry addition stay within two limbs.
LEMMA SumsOfRow ==
  ASSUME NEW n \in Nat, NEW terms, DOMAIN terms = 0..n,
         \A i \in 0..n : terms[i] \in 0..(DoubleBase - Base)
  PROVE  WithCarries(terms) \in [0..n -> Nat] /\ RowSums(terms, n, WithCarries(terms))
<1>. DEFINE V == Nat
            first == DoubleWord(terms[0] + 0)
            Carry(v) == Word(v \div Base)
            next(i, v) == DoubleWord(terms[i + 1] + Carry(v))
            step == [i \in 0..(n - 1) |-> [v \in V |-> next(i, v)]]
            Is(f) == f = [i \in 0..n |-> DoubleWord(terms[i] + (IF i > 0 THEN Word(f[i - 1] \div Base) ELSE 0))]
            sum == CHOOSE f : Is(f)
<1>1. \A m \in Int : DoubleWord(m) \in 0..(DoubleBase - 1) /\ DoubleWord(m) \in Nat
  <2>. SUFFICES ASSUME NEW m \in Int PROVE DoubleWord(m) \in 0..(DoubleBase - 1) /\ DoubleWord(m) \in Nat
    OBVIOUS
  <2>1. m % DoubleBase \in 0..(DoubleBase - 1) /\ m % DoubleBase \in Nat
    BY BaseFacts, Division
  <2>2. DoubleWord(m) = m % DoubleBase
    BY DEF DoubleWord, DoubleBase
  <2>. QED
    BY <2>1, <2>2
<1>2. \A m \in Nat : Carry(m) \in 0..(Base - 1) /\ Carry(m) \in Nat
  <2>. SUFFICES ASSUME NEW m \in Nat PROVE Carry(m) \in 0..(Base - 1) /\ Carry(m) \in Nat
    OBVIOUS
  <2>. DEFINE q == m \div Base
  <2>1. q \in Int
    BY BaseFacts, Division
  <2>. HIDE DEF q
  <2>2. q % Base \in 0..(Base - 1)
    BY <2>1, BaseIsBase, Division
  <2>3. q % Base \in Nat
    BY <2>2, BaseIsBase
  <2>. QED
    BY <2>2, <2>3 DEF Word, q
<1>3. \A i \in 0..n : terms[i] \in Int
  BY BaseFacts
<1>4. first \in V /\ step \in [0..(n - 1) -> [V -> V]]
  <2>1. 0 \in 0..n /\ \A i \in 0..(n - 1) : i + 1 \in 0..n
    OBVIOUS
  <2>2. first \in Nat
    <3>. DEFINE a == terms[0] + 0
    <3>1. a \in Int
      BY <1>3, <2>1
    <3>. HIDE DEF a
    <3>2. DoubleWord(a) \in Nat
      BY <1>1, <3>1
    <3>. QED
      BY <3>2 DEF a
  <2>3. ASSUME NEW i \in 0..(n - 1), NEW v \in Nat PROVE next(i, v) \in Nat
    <3>. DEFINE a == terms[i + 1]  b == Carry(v)
    <3>1. a + b \in Int
      <4>1. a \in Int
        BY <1>3, <2>1
      <4>2. b \in Nat
        <5>. HIDE DEF Carry
        <5>. QED
          BY <1>2
      <4>. HIDE DEF a, b
      <4>. QED
        BY <4>1, <4>2
    <3>. HIDE DEF a, b
    <3>2. DoubleWord(a + b) \in Nat
      BY <1>1, <3>1
    <3>. QED
      BY <3>2 DEF a, b
  <2>4. first \in V /\ \A i \in 0..(n - 1), v \in V : next(i, v) \in V
    BY <2>2, <2>3
  <2>. HIDE DEF first, next, V
  <2>. QED
    BY <2>4
<1>5. \A i \in 0..(n - 1), v \in Nat : step[i][v] = next(i, v)
  OBVIOUS
<1>6. PICK g : Iterates(g, 0..n, V, first, step)
  <2>. HIDE DEF V, first, step
  <2>. QED
    BY <1>4, RangeRecursion
<1>7. Is(g)
  <2>1. g \in [0..n -> Nat] /\ g[0] = first
    BY <1>6 DEF Iterates
  <2>2. ASSUME NEW i \in 0..n, i > 0 PROVE g[i] = DoubleWord(terms[i] + Word(g[i - 1] \div Base))
    <3>1. i - 1 \in 0..n /\ i - 1 \in 0..(n - 1) /\ (i - 1) + 1 = i
      BY <2>2
    <3>. HIDE DEF step, next, first
    <3>2. g[(i - 1) + 1] = step[i - 1][g[i - 1]] /\ g[i - 1] \in Nat
      BY <1>6, <3>1 DEF Iterates
    <3>3. g[i] = next(i - 1, g[i - 1])
      BY <1>5, <3>1, <3>2
    <3>. QED
      BY <3>1, <3>3 DEF next
  <2>3. ASSUME NEW i \in 0..n
        PROVE  g[i] = DoubleWord(terms[i] + (IF i > 0 THEN Word(g[i - 1] \div Base) ELSE 0))
    <3>1. CASE i > 0
      BY <2>2, <3>1
    <3>2. CASE ~(i > 0)
      <4>1. i = 0
        BY <3>2
      <4>. QED
        BY <2>1, <4>1
    <3>. QED
      BY <3>1, <3>2
  <2>. QED
    BY <2>1, <2>3
<1>8. Is(sum)
  <2>1. \E f : Is(f)
    BY <1>7
  <2>. HIDE DEF Is
  <2>. QED
    BY <2>1
<1>9. WithCarries(terms) = sum
  BY DEF WithCarries
<1>. HIDE DEF sum
<1>. DEFINE carry(i) == IF i > 0 THEN Carry(sum[i - 1]) ELSE 0
<1>10. DOMAIN sum = 0..n /\ \A i \in 0..n : sum[i] = DoubleWord(terms[i] + carry(i))
  BY <1>8
<1>11. sum[0] \in Nat
  <2>1. 0 \in 0..n /\ carry(0) = 0 /\ terms[0] + carry(0) \in Int
    BY <1>3
  <2>. QED
    BY <1>1, <1>10, <2>1
<1>12. ASSUME NEW i \in 0..(n - 1), sum[i] \in Nat PROVE sum[i + 1] \in Nat
  <2>1. i + 1 \in 0..n /\ i + 1 > 0 /\ (i + 1) - 1 = i
    OBVIOUS
  <2>2. terms[i + 1] + carry(i + 1) \in Int
    <3>. HIDE DEF Carry
    <3>1. carry(i + 1) = Carry(sum[i]) /\ Carry(sum[i]) \in Nat
      BY <1>2, <1>12, <2>1
    <3>. HIDE DEF carry
    <3>2. terms[i + 1] \in Int /\ carry(i + 1) \in Int
      BY <1>3, <2>1, <3>1
    <3>. QED
      BY <3>2
  <2>. QED
    BY <1>1, <1>10, <2>1, <2>2
<1>13. \A i \in 0..n : sum[i] \in Nat
  <2>. DEFINE W == {i \in 0..n : sum[i] \in Nat}
  <2>1. 0 \in W /\ \A i \in 0..(n - 1) : i \in W => i + 1 \in W
    BY <1>11, <1>12
  <2>2. \A i \in 0..n : i \in W
    <3>. HIDE DEF W
    <3>. QED
      BY <2>1, RangeInduction
  <2>. QED
    BY <2>2
<1>14. \A i \in 0..n : carry(i) \in 0..(Base - 1)
  <2>1. \A i \in 0..n : i > 0 => i - 1 \in 0..n
    OBVIOUS
  <2>. HIDE DEF Carry
  <2>2. 0 \in 0..(Base - 1)
    BY BaseFacts
  <2>. QED
    BY <1>2, <1>13, <2>1, <2>2
<1>15. \A i \in 0..n : sum[i] \in 0..(DoubleBase - 1)
  <2>. SUFFICES ASSUME NEW i \in 0..n PROVE sum[i] \in 0..(DoubleBase - 1)
    OBVIOUS
  <2>1. terms[i] + carry(i) \in Int
    BY <1>3, <1>14, BaseFacts
  <2>. QED
    BY <1>1, <1>10, <2>1
<1>16. \A i \in 0..n : sum[i] = terms[i] + (IF i > 0 THEN sum[i - 1] \div Base ELSE 0)
  <2>. SUFFICES ASSUME NEW i \in 0..n PROVE sum[i] = terms[i] + (IF i > 0 THEN sum[i - 1] \div Base ELSE 0)
    OBVIOUS
  <2>1. carry(i) = IF i > 0 THEN sum[i - 1] \div Base ELSE 0
    <3>1. i > 0 => i - 1 \in 0..n
      OBVIOUS
    <3>. QED
      BY <1>15, <3>1, Words
  <2>. DEFINE a == terms[i]  b == carry(i)  v == a + b
  <2>2. a \in 0..(DoubleBase - Base) /\ b \in 0..(Base - 1)
    BY <1>14
  <2>3. v \in 0..(DoubleBase - 1)
    <3>. HIDE DEF a, b
    <3>. QED
      BY <2>2, BaseFacts
  <2>4. DoubleWord(v) = v
    <3>. HIDE DEF v
    <3>. QED
      BY <2>3, Words
  <2>. QED
    BY <1>10, <2>1, <2>4
<1>17. sum \in [0..n -> Nat]
  <2>1. sum = [i \in 0..n |-> DoubleWord(terms[i] + carry(i))]
    BY <1>8
  <2>. QED
    BY <1>13, <2>1
<1>. QED
  BY <1>9, <1>15, <1>16, <1>17 DEF RowSums

\* What a row's words and last carry stand for is the terms.
IsRow(terms, n, sum, words) ==
  /\ DOMAIN terms = 0..n /\ \A i \in 0..n : terms[i] \in 0..(DoubleBase - Base)
  /\ sum = WithCarries(terms) /\ \A i \in 0..n : words[i] = Word(sum[i])

\* A row of limbs with its last carry has the value of the terms.
LEMMA ValueOfRow ==
  ASSUME NEW n \in Nat, NEW terms, NEW sum, NEW words, IsRow(terms, n, sum, words)
  PROVE  \A k \in 0..n : /\ words[k] \in 0..(Base - 1) /\ sum[k] \div Base \in 0..(Base - 1)
                         /\ Word(sum[k] \div Base) = sum[k] \div Base
                         /\ LowValue(words, Base, k + 1) + (sum[k] \div Base) * Power(Base, k + 1)
                              = LowValue(terms, Base, k + 1)
<1>. DEFINE w == n + 1
            vw(k) == LowValue(words, Base, k)
            vt(k) == LowValue(terms, Base, k)
            carry(k) == sum[k] \div Base
            p(k) == Power(Base, k)
            W == {k \in 0..n : vw(k + 1) + carry(k) * p(k + 1) = vt(k + 1)}
<1>0. /\ DOMAIN terms = 0..n /\ \A i \in 0..n : terms[i] \in 0..(DoubleBase - Base)
      /\ sum = WithCarries(terms) /\ \A i \in 0..n : words[i] = Word(sum[i])
  BY DEF IsRow
<1>1. RowSums(terms, n, sum)
  BY <1>0, SumsOfRow
<1>2. \A k \in 0..n : /\ words[k] \in 0..(Base - 1) /\ carry(k) \in 0..(Base - 1) /\ Word(carry(k)) = carry(k)
                      /\ sum[k] = carry(k) * Base + words[k]
  <2>. SUFFICES ASSUME NEW k \in 0..n
                PROVE  /\ words[k] \in 0..(Base - 1) /\ carry(k) \in 0..(Base - 1) /\ Word(carry(k)) = carry(k)
                       /\ sum[k] = carry(k) * Base + words[k]
    OBVIOUS
  <2>1. sum[k] \in 0..(DoubleBase - 1) /\ words[k] = Word(sum[k])
    BY <1>0, <1>1 DEF RowSums
  <2>. QED
    BY <2>1, Words
<1>3. \A k \in 0..n : sum[k] = terms[k] + (IF k > 0 THEN carry(k - 1) ELSE 0)
  BY <1>1 DEF RowSums
<1>4. w \in Nat /\ (\A i \in 0..(w - 1) : words[i] \in Int) /\ (\A i \in 0..(w - 1) : terms[i] \in Int)
      /\ w - 1 = n
  <2>1. \A i \in 0..n : words[i] \in Int /\ terms[i] \in Int
    BY <1>0, <1>2, BaseFacts
  <2>. QED
    BY <2>1
<1>5. /\ vw(0) = 0 /\ vt(0) = 0
      /\ \A k \in 0..n : vw(k) \in Int /\ vt(k) \in Int
      /\ \A k \in 0..n : vw(k + 1) = vw(k) + words[k] * p(k)
      /\ \A k \in 0..n : vt(k + 1) = vt(k) + terms[k] * p(k)
  <2>1. \A k \in 0..n : k \in 0..w
    OBVIOUS
  <2>2. \A k \in 0..n : k \in 0..(w - 1)
    OBVIOUS
  <2>. HIDE DEF w
  <2>3. vw(0) = 0 /\ (\A k \in 0..w : vw(k) \in Int) /\ \A k \in 0..(w - 1) : vw(k + 1) = vw(k) + words[k] * p(k)
    BY <1>4, BaseIsBase, LowValueSteps
  <2>4. vt(0) = 0 /\ (\A k \in 0..w : vt(k) \in Int) /\ \A k \in 0..(w - 1) : vt(k + 1) = vt(k) + terms[k] * p(k)
    BY <1>4, BaseIsBase, LowValueSteps
  <2>. HIDE DEF vw, vt, p
  <2>. QED
    BY <2>1, <2>2, <2>3, <2>4
<1>6. p(0) = 1 /\ \A k \in 0..n : p(k) \in Int /\ p(k + 1) = Base * p(k)
  <2>1. p(0) = 1 /\ \A k \in Nat : p(k) \in Nat \ {0} /\ p(k + 1) = Base * p(k)
    BY BaseIsBase, PowerFacts
  <2>2. ASSUME NEW k \in 0..n PROVE p(k) \in Int /\ p(k + 1) = Base * p(k)
    <3>1. k \in Nat
      OBVIOUS
    <3>. HIDE DEF p
    <3>2. p(k) \in Nat \ {0} /\ p(k + 1) = Base * p(k)
      BY <2>1, <3>1, Zenon
    <3>. QED
      BY <3>2
  <2>. QED
    BY <2>1, <2>2
<1>. HIDE DEF vw, vt, p, carry
<1>7. ASSUME NEW k \in 0..n, vw(k) + (IF k > 0 THEN carry(k - 1) ELSE 0) * p(k) = vt(k) PROVE k \in W
  <2>. DEFINE c0 == IF k > 0 THEN carry(k - 1) ELSE 0
              c == carry(k)  d == words[k]  t == terms[k]  q == p(k)  a == vw(k)  b == vt(k)
  <2>1. c0 \in Int
    <3>1. k > 0 => k - 1 \in 0..n
      OBVIOUS
    <3>. QED
      BY <1>2, <3>1, BaseFacts
  <2>2. c \in Int /\ d \in Int /\ t \in Int /\ q \in Int /\ a \in Int /\ b \in Int
    <3>1. c \in Int /\ d \in Int
      BY <1>2, BaseIsBase
    <3>2. t \in Int
      BY <1>4
    <3>. QED
      BY <1>5, <1>6, <3>1, <3>2
  <2>3. a + c0 * q = b
    BY <1>7
  <2>4. c * Base + d = t + c0
    BY <1>2, <1>3
  <2>5. vw(k + 1) = a + d * q /\ vt(k + 1) = b + t * q /\ p(k + 1) = Base * q
    BY <1>5, <1>6
  <2>6. Base \in Int
    BY BaseFacts
  <2>. HIDE DEF c0, c, d, t, q, a, b
  <2>7. (c * Base + d) * q = c * (Base * q) + d * q /\ (t + c0) * q = t * q + c0 * q
    BY <2>1, <2>2, <2>6
  <2>8. c * (Base * q) + d * q = t * q + c0 * q
    BY <2>4, <2>7
  <2>9. a + d * q + c * (Base * q) = b + t * q
    <3>. DEFINE u == c * (Base * q)  v == d * q  x == t * q  y == c0 * q
    <3>1. u \in Int /\ v \in Int /\ x \in Int /\ y \in Int
      BY <2>1, <2>2, <2>6
    <3>2. u + v = x + y /\ a + y = b
      BY <2>3, <2>8
    <3>. HIDE DEF u, v, x, y
    <3>3. a + v + u = b + x
      BY <2>2, <3>1, <3>2
    <3>. QED
      BY <3>3 DEF u, v, x
  <2>10. vw(k + 1) + carry(k) * p(k + 1) = vt(k + 1)
    BY <2>5, <2>9 DEF c
  <2>. QED
    BY <2>10
<1>8. 0 \in W
  <2>1. 0 \in 0..n /\ 0 * p(0) = 0
    BY <1>6
  <2>2. vw(0) + (IF 0 > 0 THEN carry(0 - 1) ELSE 0) * p(0) = vt(0)
    BY <1>5, <2>1
  <2>. HIDE DEF W
  <2>. QED
    BY <1>7, <2>1, <2>2
<1>9. ASSUME NEW k \in 0..(n - 1), k \in W PROVE k + 1 \in W
  <2>1. k + 1 \in 0..n /\ k + 1 > 0 /\ (k + 1) - 1 = k
    OBVIOUS
  <2>2. vw(k + 1) + (IF k + 1 > 0 THEN carry((k + 1) - 1) ELSE 0) * p(k + 1) = vt(k + 1)
    BY <1>9, <2>1
  <2>. DEFINE l == k + 1
  <2>. HIDE DEF W, l
  <2>. QED
    BY <1>7, <2>1, <2>2 DEF l
<1>10. \A k \in 0..n : k \in W
  <2>. HIDE DEF W
  <2>. QED
    BY <1>8, <1>9, RangeInduction
<1>. QED
  BY <1>2, <1>10 DEF vw, vt, p, carry

\* What four limbs hold, and the field within it.
LEMMA SpanFacts ==
  /\ Span \in Nat \ {0} /\ Modulus \in Nat \ {0} /\ 1 < Modulus /\ Modulus + Modulus <= Span
  /\ Modulus \in 0..(Span - 1) /\ Field \subseteq 0..(Span - 1) /\ Field \subseteq Int /\ 0 \in Field /\ 1 \in Field
<1>1. Base \in Nat \ {0} /\ Limbs \in Nat
  BY PoseidonAssumption
<1>2. Span \in Nat \ {0}
  BY <1>1, PowerFacts DEF Span
<1>3. Modulus \in 2..(Span \div 2)
  BY PoseidonAssumption
<1>. DEFINE q == Span \div 2
<1>4. q \in Int /\ q + q <= Span
  BY <1>2
<1>. HIDE DEF q
<1>5. Modulus \in 2..q
  BY <1>3 DEF q
<1>6. 1 < Modulus /\ Modulus + Modulus <= Span /\ Modulus \in Nat
  BY <1>2, <1>4, <1>5
<1>. QED
  BY <1>2, <1>6 DEF Field

\* Limbs and their values correspond.
LEMMA BytesFacts ==
  /\ At = 0..(Limbs - 1) /\ Bytes = [0..(Limbs - 1) -> 0..(Base - 1)]
  /\ \A x \in Bytes : ValueOf(x) \in 0..(Span - 1)
  /\ \A x, y \in Bytes : ValueOf(x) = ValueOf(y) => x = y
  /\ \A n \in 0..(Span - 1) : LimbsOf(n) \in Bytes /\ ValueOf(LimbsOf(n)) = n
  /\ \A x \in Bytes : LimbsOf(ValueOf(x)) = x
<1>1. Base \in Nat \ {0} /\ Limbs \in Nat
  BY PoseidonAssumption
<1>2. At = 0..(Limbs - 1) /\ Bytes = [0..(Limbs - 1) -> 0..(Base - 1)]
  BY DEF At, Bytes
<1>3. ASSUME NEW x \in Bytes PROVE ValueOf(x) \in 0..(Span - 1)
  <2>1. (\A i \in 0..(Limbs - 1) : x[i] \in 0..(Base - 1)) /\ Limbs \in 0..Limbs
    BY <1>1, <1>2
  <2>. QED
    BY <1>1, <2>1, LowValueBounds DEF ValueOf, Span
<1>4. ASSUME NEW x \in Bytes, NEW y \in Bytes, ValueOf(x) = ValueOf(y) PROVE x = y
  BY <1>1, <1>2, <1>4, NumeralsUnique DEF ValueOf
<1>5. ASSUME NEW n \in 0..(Span - 1) PROVE LimbsOf(n) \in Bytes /\ ValueOf(LimbsOf(n)) = n
  <2>1. n \in Nat /\ Limbs \in 0..Limbs
    BY <1>1, SpanFacts
  <2>. DEFINE x == DigitsOf(n, Base, Limbs)
  <2>2. x \in [0..(Limbs - 1) -> 0..(Base - 1)] /\ LowValue(x, Base, Limbs) = n % Power(Base, Limbs)
    <3>1. /\ x \in [0..(Limbs - 1) -> 0..(Base - 1)]
          /\ \A k \in 0..Limbs : LowValue(x, Base, k) = n % Power(Base, k)
      BY <1>1, <2>1, DigitsValue
    <3>. HIDE DEF x
    <3>. QED
      BY <2>1, <3>1
  <2>4. LimbsOf(n) \in Bytes /\ ValueOf(LimbsOf(n)) = n % Span
    BY <1>2, <2>2 DEF ValueOf, LimbsOf, Span
  <2>3. n % Span = n
    BY SpanFacts, SmallResidue
  <2>. QED
    BY <2>3, <2>4
<1>6. ASSUME NEW x \in Bytes PROVE LimbsOf(ValueOf(x)) = x
  <2>. DEFINE n == ValueOf(x)  y == LimbsOf(n)
  <2>1. n \in 0..(Span - 1)
    BY <1>3
  <2>. HIDE DEF n
  <2>2. y \in Bytes /\ ValueOf(y) = n
    BY <1>5, <2>1
  <2>. HIDE DEF y
  <2>3. y = x
    BY <1>4, <2>2 DEF n
  <2>. QED
    BY <2>3 DEF y, n
<1>. QED
  BY <1>2, <1>3, <1>4, <1>5, <1>6

\* The limbs of r, of 0 and of 2^256 mod r.
LEMMA RFacts ==
  /\ R \in Bytes /\ ValueOf(R) = Modulus
  /\ Zero \in Bytes /\ ValueOf(Zero) = 0
  /\ Two256ModR \in Bytes /\ ValueOf(Two256ModR) = Span % Modulus /\ Span % Modulus \in 0..(Modulus - 1)
<1>1. Span % Modulus \in 0..(Modulus - 1)
  BY SpanFacts, Division
<1>2. Span % Modulus \in 0..(Span - 1) /\ 0 \in 0..(Span - 1) /\ Modulus \in 0..(Span - 1)
  BY <1>1, SpanFacts
<1>. QED
  BY <1>1, <1>2, BytesFacts DEF R, Zero, Two256ModR

\* geq_modulus and sub_modulus.
LEMMA ComparingElements ==
  ASSUME NEW x \in Bytes
  PROVE  GeqR(x) <=> ValueOf(x) >= Modulus
<1>1. Base \in Nat \ {0} /\ Limbs \in Nat /\ Limbs \in 0..Limbs
  BY PoseidonAssumption
<1>2. x \in [0..(Limbs - 1) -> 0..(Base - 1)] /\ R \in [0..(Limbs - 1) -> 0..(Base - 1)]
  BY BytesFacts, RFacts
<1>3. Exceeds(x, R, Limbs) <=> ValueOf(x) > ValueOf(R)
  <2>. HIDE DEF R
  <2>. QED
    BY <1>1, <1>2, NumeralsCompare DEF ValueOf
<1>4. GeqR(x) <=> x = R \/ Exceeds(x, R, Limbs)
  <2>. HIDE DEF R
  <2>. QED
    BY DEF GeqR, Exceeds, At
<1>5. x = R <=> ValueOf(x) = Modulus
  BY BytesFacts, RFacts
<1>6. ValueOf(x) \in Int /\ Modulus \in Int
  BY BytesFacts, SpanFacts
<1>. QED
  BY <1>3, <1>4, <1>5, <1>6, RFacts

\* sub_r subtracts r from what is not below it.
LEMMA Subtracting ==
  ASSUME NEW x \in Bytes, ValueOf(x) >= Modulus
  PROVE  SubR(x) \in Bytes /\ ValueOf(SubR(x)) = ValueOf(x) - Modulus
<1>1. Base \in Nat \ {0} /\ Limbs \in Nat
  BY PoseidonAssumption
<1>2. x \in [0..(Limbs - 1) -> 0..(Base - 1)] /\ R \in [0..(Limbs - 1) -> 0..(Base - 1)]
  BY BytesFacts, RFacts
<1>3. SubR(x) \in Bytes /\ ValueOf(SubR(x)) = (ValueOf(x) - ValueOf(R)) % Span
  <2>. HIDE DEF R
  <2>. QED
    <3>1. /\ Minus(x, R, Base, Limbs) \in [0..(Limbs - 1) -> 0..(Base - 1)]
          /\ LowValue(Minus(x, R, Base, Limbs), Base, Limbs)
               = (LowValue(x, Base, Limbs) - LowValue(R, Base, Limbs)) % Power(Base, Limbs)
      BY <1>1, <1>2, MinusValue
    <3>. QED
      BY <3>1, BytesFacts DEF ValueOf, SubR, Span
<1>. DEFINE d == ValueOf(x) - Modulus
<1>4. d \in 0..(Span - 1)
  BY BytesFacts, SpanFacts
<1>. HIDE DEF d
<1>5. d % Span = d
  BY <1>4, SpanFacts, SmallResidue
<1>6. ValueOf(SubR(x)) = d % Span
  BY <1>3, RFacts DEF d
<1>. QED
  BY <1>3, <1>5, <1>6 DEF d

\* from_bytes and the last loop of reduce_512 give the residue.
LEMMA Reducing ==
  \A x \in Bytes : Reduced[x] = LimbsOf(ValueOf(x) % Modulus)
<1>. DEFINE more == {x \in Bytes : GeqR(x)}
            next == [x \in Bytes |-> SubR(x)]
            size == [x \in Bytes |-> ValueOf(x)]
            g == [x \in Bytes |-> LimbsOf(ValueOf(x) % Modulus)]
            Is(f) == f = [x \in Bytes |-> IF GeqR(x) THEN f[SubR(x)] ELSE x]
<1>1. \A x \in Bytes : size[x] \in Nat
  BY BytesFacts, SpanFacts
<1>2. ASSUME NEW x \in more PROVE next[x] \in Bytes /\ size[next[x]] < size[x] /\ g[next[x]] = g[x]
  <2>. DEFINE y == SubR(x)  v == ValueOf(x)  u == ValueOf(y)
  <2>1. x \in Bytes /\ y \in Bytes /\ u = v - Modulus
    BY ComparingElements, Subtracting
  <2>2. u \in Int /\ v \in Int /\ Modulus \in Nat \ {0}
    BY <2>1, BytesFacts, SpanFacts
  <2>3. next[x] = y /\ size[x] = v /\ size[y] = u /\ g[x] = LimbsOf(v % Modulus) /\ g[y] = LimbsOf(u % Modulus)
    BY <2>1
  <2>. HIDE DEF y, v, u, next, size, g
  <2>4. v = u + 1 * Modulus /\ u < v
    BY <2>1, <2>2
  <2>5. v % Modulus = u % Modulus
    <3>. DEFINE one == 1
    <3>1. one \in Int /\ v = u + one * Modulus
      BY <2>4
    <3>. HIDE DEF one
    <3>. QED
      BY <2>2, <3>1, SameResidue
  <2>. QED
    BY <2>1, <2>3, <2>4, <2>5
<1>3. \A x \in Bytes : x \notin more => g[x] = x
  <2>. SUFFICES ASSUME NEW x \in Bytes, x \notin more PROVE LimbsOf(ValueOf(x) % Modulus) = x
    OBVIOUS
  <2>1. ValueOf(x) \in 0..(Modulus - 1)
    BY ComparingElements, BytesFacts, SpanFacts
  <2>2. ValueOf(x) % Modulus = ValueOf(x)
    BY <2>1, SpanFacts, SmallResidue
  <2>. QED
    BY <2>2, BytesFacts
<1>4. Is(g)
  <2>1. g = [x \in Bytes |-> g[x]]
    OBVIOUS
  <2>2. \A x \in more : next[x] = SubR(x)
    OBVIOUS
  <2>3. \A x \in Bytes : x \in more <=> GeqR(x)
    OBVIOUS
  <2>. HIDE DEF g, next, more
  <2>4. \A x \in Bytes : g[x] = IF GeqR(x) THEN g[SubR(x)] ELSE x
    BY <1>2, <1>3, <2>2, <2>3
  <2>. QED
    BY <2>1, <2>4
<1>5. Is(Reduced)
  <2>1. \E f : Is(f)
    BY <1>4
  <2>2. Reduced = CHOOSE f : Is(f)
    BY DEF Reduced
  <2>. HIDE DEF Is
  <2>. QED
    BY <2>1, <2>2
<1>6. Reduced = [x \in Bytes |-> IF x \in more THEN Reduced[next[x]] ELSE g[x]]
  <2>1. \A x \in more : next[x] = SubR(x)
    OBVIOUS
  <2>2. \A x \in Bytes : x \in more <=> GeqR(x)
    OBVIOUS
  <2>. HIDE DEF g, next, more
  <2>. QED
    BY <1>3, <1>5, <2>1, <2>2
<1>7. \A x \in Bytes : Reduced[x] = g[x]
  <2>1. more \subseteq Bytes
    OBVIOUS
  <2>. HIDE DEF g, next, more, size, Is
  <2>2. Loops(Reduced, Bytes, more, next, size, g)
    BY <1>1, <1>2, <1>6, <2>1 DEF Loops
  <2>. QED
    BY <2>2, LoopResult
<1>. QED
  BY <1>7

\* Sums of limbs, the last carry left out.
LEMMA AddingLimbs ==
  ASSUME NEW n \in Nat, NEW x \in [0..n -> 0..(Base - 1)], NEW y \in [0..n -> 0..(Base - 1)]
  PROVE  /\ AddLimbs(x, y) \in [0..n -> 0..(Base - 1)]
         /\ LowValue(AddLimbs(x, y), Base, n + 1)
              = (LowValue(x, Base, n + 1) + LowValue(y, Base, n + 1)) % Power(Base, n + 1)
<1>. DEFINE terms == [i \in DOMAIN x |-> x[i] + y[i]]
            sum == WithCarries(terms)
            words == AddLimbs(x, y)
            w == n + 1
            p == Power(Base, w)
            vx == LowValue(x, Base, w)  vy == LowValue(y, Base, w)
            vt == LowValue(terms, Base, w)  vw == LowValue(words, Base, w)
<1>1. DOMAIN terms = 0..n /\ \A i \in 0..n : terms[i] = x[i] + y[i]
  OBVIOUS
<1>2. \A i \in 0..n : x[i] \in 0..(Base - 1) /\ y[i] \in 0..(Base - 1) /\ x[i] \in Int /\ y[i] \in Int
  OBVIOUS
<1>3. words = [i \in 0..n |-> Word(sum[i])]
  BY DEF AddLimbs
<1>. HIDE DEF terms, words
<1>4. \A i \in 0..n : terms[i] \in 0..(DoubleBase - Base)
  BY <1>1, <1>2, BaseFacts
<1>5. \A i \in 0..n : words[i] = Word(sum[i])
  BY <1>3
<1>6. /\ \A k \in 0..n : words[k] \in 0..(Base - 1)
      /\ sum[n] \div Base \in 0..(Base - 1)
      /\ vw + (sum[n] \div Base) * p = vt
  <2>. HIDE DEF sum
  <2>1. n \in 0..n /\ sum = WithCarries(terms)
    BY DEF sum
  <2>2. \A k \in 0..n : /\ words[k] \in 0..(Base - 1) /\ sum[k] \div Base \in 0..(Base - 1)
                        /\ Word(sum[k] \div Base) = sum[k] \div Base
                        /\ LowValue(words, Base, k + 1) + (sum[k] \div Base) * Power(Base, k + 1)
                             = LowValue(terms, Base, k + 1)
    <3>1. IsRow(terms, n, sum, words)
      BY <1>1, <1>4, <1>5, <2>1 DEF IsRow
    <3>. QED
      BY <3>1, ValueOfRow
  <2>. QED
    BY <2>1, <2>2
<1>7. w \in Nat /\ w \in 0..w /\ 0..(w - 1) = 0..n
  OBVIOUS
<1>8. vt = 1 * vx + vy
  <2>. DEFINE one == 1
  <2>1. \A i \in 0..(w - 1) : x[i] \in Int /\ y[i] \in Int /\ terms[i] = one * x[i] + y[i]
    BY <1>1, <1>2
  <2>2. one \in Int
    OBVIOUS
  <2>3. \A k \in 0..w : LowValue(terms, Base, k) = one * LowValue(x, Base, k) + LowValue(y, Base, k)
    <3>. HIDE DEF w, one
    <3>. QED
      <4>1. Linear(terms, one, x, y, w)
        BY <2>1 DEF Linear
      <4>. QED
        BY <1>7, <2>2, <4>1, BaseIsBase, LowValueLinear
  <2>. QED
    BY <1>7, <2>3
<1>9. vw \in 0..(p - 1) /\ p \in Nat \ {0}
  <2>1. \A i \in 0..(w - 1) : words[i] \in 0..(Base - 1)
    BY <1>6
  <2>2. \A k \in 0..w : LowValue(words, Base, k) \in 0..(Power(Base, k) - 1)
    <3>. HIDE DEF w
    <3>. QED
      BY <1>7, <2>1, BaseIsBase, LowValueBounds
  <2>3. p \in Nat \ {0}
    <3>. HIDE DEF w
    <3>. QED
      BY <1>7, BaseIsBase, PowerFacts
  <2>. QED
    BY <1>7, <2>2, <2>3
<1>10. vx \in Int /\ vy \in Int
  <2>1. (\A i \in 0..(w - 1) : x[i] \in Int) /\ (\A i \in 0..(w - 1) : y[i] \in Int)
    BY <1>2
  <2>2. (\A k \in 0..w : LowValue(x, Base, k) \in Int) /\ (\A k \in 0..w : LowValue(y, Base, k) \in Int)
    <3>. HIDE DEF w
    <3>. QED
      BY <1>7, <2>1, BaseIsBase, LowValueSteps
  <2>. QED
    BY <1>7, <2>2
<1>. DEFINE c == sum[n] \div Base
<1>11. c \in Int
  BY <1>6, BaseIsBase
<1>12. vx + vy = c * p + vw
  BY <1>6, <1>8, <1>9, <1>10, <1>11
<1>13. words \in [0..n -> 0..(Base - 1)]
  BY <1>3, <1>6
<1>. HIDE DEF c, p, vx, vy, vw
<1>14. (c * p + vw) % p = vw
  BY <1>9, <1>11, DivisionUnique
<1>15. vw = (vx + vy) % p
  BY <1>12, <1>14
<1>. QED
  BY <1>13, <1>15 DEF words, vw, vx, vy, p

\* The limbs of an element are reduced.
LEMMA Elements ==
  ASSUME NEW n \in Field
  PROVE  LimbsOf(n) \in Bytes /\ ValueOf(LimbsOf(n)) = n /\ ~GeqR(LimbsOf(n))
<1>1. LimbsOf(n) \in Bytes /\ ValueOf(LimbsOf(n)) = n
  BY SpanFacts, BytesFacts
<1>2. n \in 0..(Modulus - 1)
  BY DEF Field
<1>. QED
  BY <1>1, <1>2, ComparingElements, SpanFacts

\* from_bytes: the residue's limbs
LEMMA FromBytesValue ==
  ASSUME NEW x \in Bytes
  PROVE  FromBytes(x) = LimbsOf(ValueOf(x) % Modulus) /\ ValueOf(x) % Modulus \in Field
<1>1. ValueOf(x) \in Int
  BY BytesFacts, SpanFacts
<1>2. ValueOf(x) % Modulus \in 0..(Modulus - 1)
  BY <1>1, SpanFacts, Division
<1>. QED
  BY <1>2, Reducing DEF FromBytes, Field

\* Fr::add
LEMMA AddElements ==
  ASSUME NEW m \in Field, NEW n \in Field
  PROVE  Add(LimbsOf(m), LimbsOf(n)) = LimbsOf((m + n) % Modulus) /\ (m + n) % Modulus \in Field
<1>. DEFINE x == LimbsOf(m)  y == LimbsOf(n)  z == AddLimbs(x, y)  l == Limbs - 1  v == m + n
<1>1. x \in Bytes /\ y \in Bytes /\ ValueOf(x) = m /\ ValueOf(y) = n
  BY Elements
<1>2. l \in Nat /\ l + 1 = Limbs
  BY PoseidonAssumption
<1>3. v \in 0..(Span - 1) /\ v < Modulus + Modulus /\ v \in Int
  BY SpanFacts DEF Field
<1>4. z \in Bytes /\ ValueOf(z) = (ValueOf(x) + ValueOf(y)) % Span
  <2>. HIDE DEF x, y
  <2>1. x \in [0..l -> 0..(Base - 1)] /\ y \in [0..l -> 0..(Base - 1)]
    BY <1>1, BytesFacts
  <2>. HIDE DEF l
  <2>2. /\ AddLimbs(x, y) \in [0..l -> 0..(Base - 1)]
        /\ LowValue(AddLimbs(x, y), Base, l + 1)
             = (LowValue(x, Base, l + 1) + LowValue(y, Base, l + 1)) % Power(Base, l + 1)
    BY <1>2, <2>1, AddingLimbs
  <2>3. Bytes = [0..l -> 0..(Base - 1)]
    BY BytesFacts DEF l
  <2>. QED
    BY <1>2, <2>2, <2>3 DEF ValueOf, Span
<1>. HIDE DEF x, y, z
<1>5. ValueOf(z) = v
  <2>1. v % Span = v
    <3>. HIDE DEF v
    <3>. QED
      BY <1>3, SpanFacts, SmallResidue
  <2>. QED
    BY <1>1, <1>4, <2>1
<1>. HIDE DEF v
<1>6. v % Modulus \in 0..(Modulus - 1)
  BY <1>3, SpanFacts, Division
<1>7. CASE v >= Modulus
  <2>. DEFINE u == v - Modulus
  <2>1. SubR(z) \in Bytes /\ ValueOf(SubR(z)) = u /\ GeqR(z)
    BY <1>4, <1>5, <1>7, ComparingElements, Subtracting
  <2>2. u \in 0..(Modulus - 1) /\ v = 1 * Modulus + u
    BY <1>3, <1>7, SpanFacts
  <2>3. v % Modulus = u
    <3>. DEFINE one == 1
    <3>1. one \in Int /\ v = one * Modulus + u
      BY <2>2
    <3>. HIDE DEF one, u
    <3>2. (one * Modulus + u) % Modulus = u
      BY <2>2, <3>1, SpanFacts, DivisionUnique
    <3>. QED
      BY <3>1, <3>2
  <2>. HIDE DEF u
  <2>4. LimbsOf(ValueOf(SubR(z))) = SubR(z)
    BY <2>1, BytesFacts
  <2>5. Add(x, y) = SubR(z)
    BY <2>1 DEF Add, z
  <2>. QED
    BY <1>6, <2>1, <2>3, <2>4, <2>5 DEF x, y, v, Field
<1>8. CASE v < Modulus
  <2>1. v \in 0..(Modulus - 1)
    BY <1>3, <1>8, SpanFacts
  <2>2. v % Modulus = v
    BY <2>1, SpanFacts, SmallResidue
  <2>3. ~GeqR(z)
    BY <1>3, <1>4, <1>5, <1>8, ComparingElements, SpanFacts
  <2>4. LimbsOf(ValueOf(z)) = z
    BY <1>4, BytesFacts
  <2>5. Add(x, y) = z
    BY <2>3 DEF Add, z
  <2>. QED
    BY <1>5, <1>6, <2>2, <2>4, <2>5 DEF x, y, v, Field
<1>. QED
  BY <1>3, <1>7, <1>8, SpanFacts

\* Products of limbs fit two of them, with what is added.
LEMMA LimbProducts ==
  ASSUME NEW a \in 0..(Base - 1), NEW b \in 0..(Base - 1), NEW c \in 0..(Base - 1)
  PROVE  a * b + c \in 0..(DoubleBase - Base)
<1>. DEFINE m == Base - 1
<1>1. m \in Nat /\ Base = m + 1
  BY BaseIsBase
<1>. HIDE DEF m
<1>2. a \in 0..m /\ b \in 0..m /\ c \in 0..m
  BY <1>1
<1>3. a * b \in Nat /\ a * b <= m * m
  <2>1. a * b <= a * m
    BY <1>1, <1>2
  <2>2. a * m <= m * m
    BY <1>1, <1>2
  <2>. QED
    BY <1>1, <1>2, <2>1, <2>2
<1>4. DoubleBase = m * m + 2 * m + 1 /\ m * m \in Nat
  BY <1>1 DEF DoubleBase
<1>. DEFINE u == a * b  v == m * m
<1>5. u \in Nat /\ v \in Nat /\ u <= v /\ DoubleBase = v + 2 * m + 1
  BY <1>3, <1>4
<1>. HIDE DEF u, v
<1>6. u + c \in 0..(DoubleBase - Base)
  BY <1>1, <1>2, <1>5
<1>. QED
  BY <1>6 DEF u

-----------------------------------------------------------------------------
(* Products. *)

\* One limb of a times all of b, added to a product that is zero above.
ZeroFrom(x, h) == \A k \in h..(2 * Limbs - 1) : x[k] = 0

DoubleValue(n) == LowValue(n, Base, 2 * Limbs)

RowParts(row, product, a, i, b, carry, words, terms, mid) ==
  /\ row = [k \in 0..(2 * Limbs - 1) |->
              IF k - i \in At THEN words[k - i] ELSE IF k = i + Limbs THEN carry ELSE product[k]]
  /\ carry \in 0..(Base - 1) /\ words \in [At -> 0..(Base - 1)] /\ mid \in [At -> 0..(Base - 1)]
  /\ \A j \in At : mid[j] = product[i + j] /\ terms[j] = a[i] * b[j] + mid[j]
  /\ LowValue(words, Base, Limbs) + carry * Power(Base, Limbs) = LowValue(terms, Base, Limbs)

\* A row of mul_512 gives limbs, and how.
LEMMA RowStays ==
  ASSUME NEW product \in DoubleBytes, NEW a \in Bytes, NEW b \in Bytes, NEW i \in At
  PROVE  /\ MulRow(product, a, i, b) \in DoubleBytes
         /\ \E carry, words, terms, mid :
              RowParts(MulRow(product, a, i, b), product, a, i, b, carry, words, terms, mid)
<1>. DEFINE l == Limbs - 1
            terms == [j \in At |-> a[i] * b[j] + product[i + j]]
            sum == WithCarries(terms)
            words == [j \in At |-> Word(sum[j])]
            mid == [j \in At |-> product[i + j]]
            carry == sum[l] \div Base
<1>1. l \in Nat /\ l + 1 = Limbs /\ At = 0..l /\ l \in 0..l /\ Limbs \in Nat \ {0}
  BY PoseidonAssumption DEF At
<1>2. /\ \A j \in At : a[j] \in 0..(Base - 1) /\ b[j] \in 0..(Base - 1)
      /\ \A k \in 0..(2 * Limbs - 1) : product[k] \in 0..(Base - 1)
  BY DEF Bytes, DoubleBytes
<1>3. \A j \in At : i + j \in 0..(2 * Limbs - 1)
  BY <1>1
<1>4. \A j \in At : terms[j] \in 0..(DoubleBase - Base)
  <2>. SUFFICES ASSUME NEW j \in At PROVE a[i] * b[j] + product[i + j] \in 0..(DoubleBase - Base)
    OBVIOUS
  <2>. DEFINE x == a[i]  y == b[j]  z == product[i + j]
  <2>1. x \in 0..(Base - 1) /\ y \in 0..(Base - 1) /\ z \in 0..(Base - 1)
    BY <1>2, <1>3
  <2>. HIDE DEF x, y, z
  <2>2. x * y + z \in 0..(DoubleBase - Base)
    BY <2>1, LimbProducts
  <2>. QED
    BY <2>2 DEF x, y, z
<1>5. /\ \A k \in 0..l : words[k] \in 0..(Base - 1)
      /\ carry \in 0..(Base - 1) /\ Word(carry) = carry
      /\ LowValue(words, Base, Limbs) + carry * Power(Base, Limbs) = LowValue(terms, Base, Limbs)
  <2>1. DOMAIN terms = 0..l /\ (\A k \in 0..l : terms[k] \in 0..(DoubleBase - Base)) /\ \A k \in 0..l : words[k] = Word(sum[k])
    BY <1>1, <1>4
  <2>. HIDE DEF terms, words
  <2>2. IsRow(terms, l, sum, words)
    BY <2>1 DEF IsRow, sum
  <2>. HIDE DEF sum
  <2>3. \A k \in 0..l : /\ words[k] \in 0..(Base - 1) /\ sum[k] \div Base \in 0..(Base - 1)
                        /\ Word(sum[k] \div Base) = sum[k] \div Base
                        /\ LowValue(words, Base, k + 1) + (sum[k] \div Base) * Power(Base, k + 1)
                             = LowValue(terms, Base, k + 1)
    <3>. HIDE DEF l
    <3>. QED
      BY <1>1, <2>2, ValueOfRow
  <2>. QED
    BY <1>1, <2>3
<1>6. MulRow(product, a, i, b) = [k \in 0..(2 * Limbs - 1) |->
        IF k - i \in At THEN words[k - i] ELSE IF k = i + Limbs THEN carry ELSE product[k]]
  <2>1. DOMAIN product = 0..(2 * Limbs - 1)
    BY DEF DoubleBytes
  <2>2. MulRow(product, a, i, b) = [k \in 0..(2 * Limbs - 1) |->
          IF k - i \in At THEN Word(sum[k - i]) ELSE IF k = i + Limbs THEN Word(sum[l] \div Base) ELSE product[k]]
    BY <2>1 DEF MulRow
  <2>3. \A j \in At : words[j] = Word(sum[j])
    OBVIOUS
  <2>4. Word(sum[l] \div Base) = carry
    BY <1>5
  <2>. HIDE DEF words, sum, carry
  <2>. QED
    BY <2>2, <2>3, <2>4
<1>7. words \in [At -> 0..(Base - 1)] /\ mid \in [At -> 0..(Base - 1)]
  <2>1. (\A j \in At : Word(sum[j]) \in 0..(Base - 1)) /\ (\A j \in At : product[i + j] \in 0..(Base - 1))
    <3>1. \A j \in At : words[j] = Word(sum[j])
      OBVIOUS
    <3>. HIDE DEF words, sum
    <3>. QED
      BY <1>1, <1>2, <1>3, <1>5, <3>1
  <2>. HIDE DEF sum
  <2>. QED
    BY <2>1
<1>8. \A j \in At : mid[j] = product[i + j] /\ terms[j] = a[i] * b[j] + mid[j]
  OBVIOUS
<1>. HIDE DEF words, carry, terms, mid, sum
<1>9. MulRow(product, a, i, b) \in DoubleBytes
  BY <1>2, <1>5, <1>6, <1>7 DEF DoubleBytes
<1>10. RowParts(MulRow(product, a, i, b), product, a, i, b, carry, words, terms, mid)
  BY <1>5, <1>6, <1>7, <1>8 DEF RowParts
<1>. QED
  BY <1>9, <1>10

\* A row of mul_512 adds one limb of a times b, shifted to its place.
LEMMA RowValue ==
  ASSUME NEW product \in DoubleBytes, NEW a \in Bytes, NEW b \in Bytes, NEW i \in At,
         ZeroFrom(product, i + Limbs), NEW row, row = MulRow(product, a, i, b)
  PROVE  /\ ZeroFrom(row, (i + 1) + Limbs)
         /\ DoubleValue(row) = DoubleValue(product) + (a[i] * Power(Base, i)) * ValueOf(b)
<1>1. row \in DoubleBytes
  BY RowStays
<1>2. PICK carry, words, terms, mid : RowParts(row, product, a, i, b, carry, words, terms, mid)
  BY RowStays
<1>3. /\ row = [k \in 0..(2 * Limbs - 1) |->
                  IF k - i \in At THEN words[k - i] ELSE IF k = i + Limbs THEN carry ELSE product[k]]
      /\ carry \in 0..(Base - 1) /\ words \in [At -> 0..(Base - 1)] /\ mid \in [At -> 0..(Base - 1)]
      /\ \A j \in At : mid[j] = product[i + j] /\ terms[j] = a[i] * b[j] + mid[j]
      /\ LowValue(words, Base, Limbs) + carry * Power(Base, Limbs) = LowValue(terms, Base, Limbs)
  BY <1>2 DEF RowParts
<1>4. Limbs \in Nat \ {0} /\ At = 0..(Limbs - 1) /\ i \in 0..(Limbs - 1) /\ i \in Nat
  BY PoseidonAssumption DEF At
<1>5. /\ \A k \in 0..(i - 1) : row[k] = product[k]
      /\ \A j \in At : row[i + j] = words[j]
      /\ row[i + Limbs] = carry
      /\ \A k \in (i + Limbs + 1)..(2 * Limbs - 1) : row[k] = product[k] /\ product[k] = 0
  <2>1. ASSUME NEW k \in 0..(i - 1) PROVE row[k] = product[k]
    <3>1. k \in 0..(2 * Limbs - 1) /\ k - i \notin At /\ k # i + Limbs
      BY <1>4
    <3>. QED
      BY <1>3, <3>1
  <2>2. ASSUME NEW j \in At PROVE row[i + j] = words[j]
    <3>. DEFINE k == i + j
    <3>1. k \in 0..(2 * Limbs - 1) /\ k - i = j
      BY <1>4
    <3>. HIDE DEF k
    <3>2. row[k] = words[j]
      BY <1>3, <3>1
    <3>. QED
      BY <3>2 DEF k
  <2>3. row[i + Limbs] = carry
    <3>. DEFINE k == i + Limbs
    <3>1. k \in 0..(2 * Limbs - 1) /\ k - i \notin At /\ k = i + Limbs
      BY <1>4
    <3>. HIDE DEF k
    <3>2. row[k] = carry
      BY <1>3, <3>1
    <3>. QED
      BY <3>2 DEF k
  <2>4. ASSUME NEW k \in (i + Limbs + 1)..(2 * Limbs - 1) PROVE row[k] = product[k] /\ product[k] = 0
    <3>1. k \in 0..(2 * Limbs - 1) /\ k - i \notin At /\ k # i + Limbs /\ k \in (i + Limbs)..(2 * Limbs - 1)
      BY <1>4
    <3>. QED
      BY <1>3, <3>1 DEF ZeroFrom
  <2>. QED
    BY <2>1, <2>2, <2>3, <2>4
<1>6. ZeroFrom(row, (i + 1) + Limbs)
  BY <1>4, <1>5 DEF ZeroFrom
<1>. DEFINE w == 2 * Limbs
            h == i + Limbs
            vr(k) == LowValue(row, Base, k)
            vp(k) == LowValue(product, Base, k)
            vw == LowValue(words, Base, Limbs)
            vm == LowValue(mid, Base, Limbs)
            vb == LowValue(b, Base, Limbs)
            q == Power(Base, i)
            pw == Power(Base, Limbs)
            ai == a[i]
<1>7. /\ \A k \in 0..(w - 1) : row[k] \in Int
      /\ \A k \in 0..(w - 1) : product[k] \in Int
      /\ \A k \in 0..(Limbs - 1) : words[k] \in Int /\ mid[k] \in Int /\ b[k] \in Int
      /\ ai \in Int
  <2>1. \A k \in 0..(Base - 1) : k \in Int
    OBVIOUS
  <2>2. /\ \A k \in 0..(w - 1) : row[k] \in 0..(Base - 1)
        /\ \A k \in 0..(w - 1) : product[k] \in 0..(Base - 1)
    BY <1>1 DEF DoubleBytes
  <2>3. /\ \A k \in 0..(Limbs - 1) : words[k] \in 0..(Base - 1) /\ mid[k] \in 0..(Base - 1) /\ b[k] \in 0..(Base - 1)
        /\ ai \in 0..(Base - 1)
    BY <1>3, <1>4 DEF Bytes
  <2>. QED
    BY <2>1, <2>2, <2>3
<1>8. vr(h) = vr(i) + q * vw
  <2>1. \A j \in 0..(i + Limbs - 1) : row[j] \in Int
    BY <1>4, <1>7
  <2>2. \A j \in 0..(Limbs - 1) : words[j] = row[i + j]
    BY <1>4, <1>5
  <2>3. \A k \in 0..Limbs : LowValue(row, Base, i + k)
          = LowValue(row, Base, i) + Power(Base, i) * LowValue(words, Base, k)
    <3>1. SplitAt(row, i, words, Limbs) /\ Limbs \in Nat
      BY <1>4, <2>1, <2>2 DEF SplitAt
    <3>. QED
      BY <1>4, <3>1, BaseIsBase, LowValueSplits
  <2>4. Limbs \in 0..Limbs
    BY <1>4
  <2>. QED
    BY <2>3, <2>4
<1>9. vp(h) = vp(i) + q * vm
  <2>1. \A j \in 0..(i + Limbs - 1) : product[j] \in Int
    BY <1>4, <1>7
  <2>2. \A j \in 0..(Limbs - 1) : mid[j] = product[i + j]
    BY <1>3, <1>4
  <2>3. \A k \in 0..Limbs : LowValue(product, Base, i + k)
          = LowValue(product, Base, i) + Power(Base, i) * LowValue(mid, Base, k)
    <3>1. SplitAt(product, i, mid, Limbs) /\ Limbs \in Nat
      BY <1>4, <2>1, <2>2 DEF SplitAt
    <3>. QED
      BY <1>4, <3>1, BaseIsBase, LowValueSplits
  <2>4. Limbs \in 0..Limbs
    BY <1>4
  <2>. QED
    BY <2>3, <2>4
<1>10. vr(i) = vp(i)
  <2>1. \A k \in 0..(i - 1) : product[k] \in Int /\ row[k] = product[k]
    BY <1>4, <1>5, <1>7
  <2>. QED
    BY <1>4, <2>1, BaseIsBase, LowValueAgrees
<1>11. vw + carry * pw = ai * vb + vm
  <2>1. Linear(terms, ai, b, mid, Limbs)
    BY <1>3, <1>4, <1>7 DEF Linear
  <2>2. \A k \in 0..Limbs : LowValue(terms, Base, k) = ai * LowValue(b, Base, k) + LowValue(mid, Base, k)
    <3>. HIDE DEF ai
    <3>. QED
      BY <1>4, <1>7, <2>1, BaseIsBase, LowValueLinear
  <2>3. Limbs \in 0..Limbs
    BY <1>4
  <2>. QED
    BY <1>3, <2>2, <2>3
<1>12. vr(h + 1) = vr(h) + carry * (q * pw)
  <2>1. w \in Nat /\ h \in 0..(w - 1)
    BY <1>4
  <2>2. vr(h + 1) = vr(h) + row[h] * Power(Base, h)
    <3>. HIDE DEF w, h
    <3>. QED
      BY <1>7, <2>1, BaseIsBase, LowValueSteps
  <2>3. Power(Base, h) = q * pw
    BY <1>4, BaseIsBase, PowerOfSum
  <2>. QED
    BY <1>5, <2>2, <2>3
<1>13. vr(w) = vr(h + 1) /\ vp(w) = vp(h)
  <2>. DEFINE e == w - h  d == e - 1  g == h + 1
  <2>1. e \in Nat /\ d \in Nat /\ h \in Nat /\ g \in Nat /\ h + e = w /\ g + d = w
    BY <1>4
  <2>2. \A j \in 0..(d - 1) : row[g + j] = 0
    BY <1>4, <1>5
  <2>3. \A j \in 0..(e - 1) : product[h + j] = 0
    BY <1>4 DEF ZeroFrom
  <2>4. (\A k \in 0..(g + d - 1) : row[k] \in Int) /\ (\A k \in 0..(h + e - 1) : product[k] \in Int)
    BY <1>7, <2>1
  <2>. HIDE DEF w, h, e, d, g
  <2>5. LowValue(row, Base, g + d) = LowValue(row, Base, g)
    <3>1. ZerosOnTop(row, g, d)
      BY <2>2, <2>4 DEF ZerosOnTop
    <3>. QED
      BY <2>1, <3>1, BaseIsBase, ZerosAbove
  <2>6. LowValue(product, Base, h + e) = LowValue(product, Base, h)
    <3>1. ZerosOnTop(product, h, e)
      BY <2>3, <2>4 DEF ZerosOnTop
    <3>. QED
      BY <2>1, <3>1, BaseIsBase, ZerosAbove
  <2>. QED
    BY <2>1, <2>5, <2>6 DEF g
<1>14. /\ vp(i) \in Int /\ vw \in Int /\ vm \in Int /\ vb \in Int /\ q \in Int /\ pw \in Int
       /\ carry \in Int
  <2>1. w \in Nat /\ i \in 0..w /\ Limbs \in 0..Limbs /\ Limbs \in Nat
    BY <1>4
  <2>2. vp(i) \in Int
    <3>1. \A k \in 0..w : LowValue(product, Base, k) \in Int
      <4>. HIDE DEF w
      <4>. QED
        BY <1>7, <2>1, BaseIsBase, LowValueSteps
    <3>. QED
      BY <2>1, <3>1
  <2>3. vw \in Int /\ vm \in Int /\ vb \in Int
    <3>1. (\A k \in 0..(Limbs - 1) : words[k] \in Int) /\ (\A k \in 0..(Limbs - 1) : mid[k] \in Int)
          /\ (\A k \in 0..(Limbs - 1) : b[k] \in Int)
      BY <1>7
    <3>2. (\A k \in 0..Limbs : LowValue(words, Base, k) \in Int)
          /\ (\A k \in 0..Limbs : LowValue(mid, Base, k) \in Int)
          /\ (\A k \in 0..Limbs : LowValue(b, Base, k) \in Int)
      BY <2>1, <3>1, BaseIsBase, LowValueSteps
    <3>. QED
      BY <2>1, <3>2
  <2>4. q \in Int /\ pw \in Int
    <3>1. \A k \in Nat : Power(Base, k) \in Nat \ {0}
      BY BaseIsBase, PowerFacts
    <3>2. \A k \in Nat : Power(Base, k) \in Int
      BY <3>1
    <3>. QED
      BY <1>4, <2>1, <3>2
  <2>5. carry \in Int
    BY <1>3, BaseIsBase
  <2>. QED
    BY <2>2, <2>3, <2>4, <2>5
<1>15. vr(w) = vp(w) + (ai * q) * vb
  <2>. DEFINE x == vr(w)  y == vp(w)  z == vp(i)
  <2>1. x = (z + q * vw) + carry * (q * pw) /\ y = z + q * vm
    BY <1>8, <1>9, <1>10, <1>12, <1>13
  <2>2. z \in Int
    BY <1>14
  <2>. HIDE DEF x, y, z, vw, vm, vb, q, pw, ai
  <2>3. q * vw + carry * (q * pw) = q * (vw + carry * pw)
    BY <1>14
  <2>4. q * (ai * vb + vm) = (ai * q) * vb + q * vm
    BY <1>7, <1>14
  <2>5. q * vw + carry * (q * pw) = (ai * q) * vb + q * vm
    BY <1>11, <2>3, <2>4
  <2>6. x = y + (ai * q) * vb
    <3>. DEFINE s == q * vw  t == carry * (q * pw)  u == (ai * q) * vb  v == q * vm
    <3>1. s \in Int /\ t \in Int /\ u \in Int /\ v \in Int
      BY <1>7, <1>14
    <3>2. x = (z + s) + t /\ y = z + v /\ s + t = u + v
      BY <2>1, <2>5
    <3>. HIDE DEF s, t, u, v
    <3>3. x = y + u
      BY <2>2, <3>1, <3>2
    <3>. QED
      BY <3>3 DEF u
  <2>. QED
    BY <2>6 DEF x, y
<1>. QED
  BY <1>6, <1>15 DEF DoubleValue, ValueOf

\* mul_512: the product.
LEMMA Multiplying ==
  ASSUME NEW a \in Bytes, NEW b \in Bytes
  PROVE  Mul512(a, b) \in DoubleBytes /\ DoubleValue(Mul512(a, b)) = ValueOf(a) * ValueOf(b)
<1>. DEFINE V == DoubleBytes
            first == [k \in 0..(2 * Limbs - 1) |-> 0]
            step == [n \in 0..(Limbs - 1) |-> [v \in V |-> MulRow(v, a, n, b)]]
            Is(f) == f = [n \in 0..Limbs |-> IF n = 0 THEN first ELSE MulRow(f[n - 1], a, n - 1, b)]
            rows == CHOOSE f : Is(f)
<1>1. Limbs \in Nat \ {0} /\ Limbs \in Nat /\ Limbs \in 0..Limbs /\ At = 0..(Limbs - 1)
  BY PoseidonAssumption DEF At
<1>2. first \in V /\ step \in [0..(Limbs - 1) -> [V -> V]]
  <2>1. first \in V
    BY BaseIsBase DEF DoubleBytes
  <2>2. \A n \in 0..(Limbs - 1), v \in V : MulRow(v, a, n, b) \in V
    BY <1>1, RowStays
  <2>. HIDE DEF V
  <2>. QED
    BY <2>1, <2>2
<1>3. PICK g : Iterates(g, 0..Limbs, V, first, step)
  <2>. HIDE DEF V, first, step
  <2>. QED
    BY <1>1, <1>2, RangeRecursion
<1>4. Is(g)
  <2>1. g \in [0..Limbs -> V] /\ g[0] = first
    <3>. HIDE DEF V, first, step
    <3>. QED
      BY <1>3 DEF Iterates
  <2>2. ASSUME NEW n \in 0..Limbs, n # 0 PROVE g[n] = MulRow(g[n - 1], a, n - 1, b)
    <3>1. n - 1 \in 0..Limbs /\ n - 1 \in 0..(Limbs - 1) /\ (n - 1) + 1 = n
      BY <1>1, <2>2
    <3>2. g[(n - 1) + 1] = step[n - 1][g[n - 1]] /\ g[n - 1] \in V
      <4>. HIDE DEF V, first, step
      <4>. QED
        BY <1>3, <3>1 DEF Iterates
    <3>. HIDE DEF V
    <3>. QED
      BY <3>1, <3>2
  <2>. HIDE DEF V, first
  <2>. QED
    BY <2>1, <2>2
<1>5. Is(rows)
  <2>1. \E f : Is(f)
    BY <1>4
  <2>. HIDE DEF Is
  <2>. QED
    BY <2>1
<1>6. Mul512(a, b) = rows[Limbs]
  BY DEF Mul512
<1>. HIDE DEF rows
<1>7. rows[0] = first /\ \A n \in 0..(Limbs - 1) : rows[n + 1] = MulRow(rows[n], a, n, b)
  <2>1. \A n \in 0..(Limbs - 1) : n + 1 \in 0..Limbs /\ n + 1 # 0 /\ (n + 1) - 1 = n
    BY <1>1
  <2>2. 0 \in 0..Limbs
    BY <1>1
  <2>. HIDE DEF first
  <2>. QED
    BY <1>5, <2>1, <2>2
<1>. HIDE DEF Is, step
<1>. DEFINE va(n) == LowValue(a, Base, n)
            vb == ValueOf(b)
            Holds(n) == rows[n] \in V /\ ZeroFrom(rows[n], n + Limbs) /\ DoubleValue(rows[n]) = va(n) * vb
            W == {n \in 0..Limbs : Holds(n)}
<1>8. /\ va(0) = 0 /\ vb \in Int
      /\ \A n \in 0..Limbs : va(n) \in Int
      /\ \A n \in 0..(Limbs - 1) : va(n + 1) = va(n) + a[n] * Power(Base, n) /\ a[n] \in Int
  <2>1. \A n \in 0..(Limbs - 1) : a[n] \in Int
    BY BytesFacts, BaseIsBase
  <2>2. /\ va(0) = 0
        /\ \A n \in 0..Limbs : va(n) \in Int
        /\ \A n \in 0..(Limbs - 1) : va(n + 1) = va(n) + a[n] * Power(Base, n)
    BY <1>1, <2>1, BaseIsBase, LowValueSteps
  <2>3. vb \in Int
    BY BytesFacts, SpanFacts
  <2>. QED
    BY <2>1, <2>2, <2>3
<1>9. 0 \in W
  <2>1. ZeroFrom(first, 0 + Limbs)
    BY <1>1 DEF ZeroFrom
  <2>2. DoubleValue(first) = 0
    <3>. DEFINE w == 2 * Limbs
    <3>1. w \in Nat /\ (\A k \in 0..(w - 1) : first[k] \in Int) /\ \A k \in 0..(w - 1) : first[0 + k] = 0
      BY <1>1
    <3>. HIDE DEF first, w
    <3>2. ZerosOnTop(first, 0, w)
      BY <3>1 DEF ZerosOnTop
    <3>3. LowValue(first, Base, 0 + w) = LowValue(first, Base, 0)
      BY <3>1, <3>2, BaseIsBase, ZerosAbove
    <3>4. LowValue(first, Base, 0) = 0
      BY <3>1, BaseIsBase, LowValueSteps
    <3>5. LowValue(first, Base, w) = 0
      BY <3>1, <3>3, <3>4
    <3>. QED
      BY <3>5 DEF DoubleValue, w
  <2>3. va(0) * vb = 0
    BY <1>8
  <2>. HIDE DEF first, va, vb
  <2>. QED
    BY <1>1, <1>2, <1>7, <2>1, <2>2, <2>3
<1>10. ASSUME NEW n \in 0..(Limbs - 1), n \in W PROVE n + 1 \in W
  <2>. DEFINE x == rows[n]  y == rows[n + 1]  c == a[n] * Power(Base, n)
  <2>1. n \in At /\ n + 1 \in 0..Limbs /\ n \in 0..Limbs
    BY <1>1
  <2>2. x \in DoubleBytes /\ ZeroFrom(x, n + Limbs) /\ DoubleValue(x) = va(n) * vb /\ y = MulRow(x, a, n, b)
    BY <1>7, <1>10
  <2>. HIDE DEF x, y
  <2>3. y \in DoubleBytes
    BY <2>1, <2>2, RowStays
  <2>4. ZeroFrom(y, (n + 1) + Limbs) /\ DoubleValue(y) = DoubleValue(x) + c * vb
    BY <2>1, <2>2, RowValue
  <2>5. va(n + 1) = va(n) + c /\ va(n) \in Int /\ c \in Int
    <3>1. n \in Nat
      OBVIOUS
    <3>2. \A k \in Nat : Power(Base, k) \in Nat \ {0}
      BY BaseIsBase, PowerFacts
    <3>3. Power(Base, n) \in Int
      BY <3>1, <3>2
    <3>. QED
      BY <1>8, <2>1, <3>3
  <2>. HIDE DEF c, va, vb
  <2>6. DoubleValue(y) = va(n + 1) * vb
    <3>1. (va(n) + c) * vb = va(n) * vb + c * vb
      BY <1>8, <2>5
    <3>. QED
      BY <2>2, <2>4, <2>5, <3>1
  <2>. QED
    BY <2>1, <2>3, <2>4, <2>6 DEF y
<1>11. \A n \in 0..Limbs : n \in W
  <2>. HIDE DEF W
  <2>. QED
    BY <1>1, <1>9, <1>10, RangeInduction
<1>12. rows[Limbs] \in V /\ DoubleValue(rows[Limbs]) = va(Limbs) * vb
  BY <1>1, <1>11
<1>. QED
  BY <1>6, <1>12 DEF ValueOf

\* The two halves of a product.
LEMMA LowAndHigh ==
  ASSUME NEW n \in DoubleBytes
  PROVE  /\ Low(n) \in Bytes /\ High(n) \in Bytes
         /\ DoubleValue(n) = ValueOf(Low(n)) + ValueOf(High(n)) * Span
<1>. DEFINE low == Low(n)  high == High(n)  w == 2 * Limbs
<1>1. Limbs \in Nat /\ At = 0..(Limbs - 1) /\ Limbs \in 0..Limbs /\ Limbs + Limbs = w
  BY PoseidonAssumption DEF At
<1>2. \A k \in 0..(w - 1) : n[k] \in 0..(Base - 1)
  BY DEF DoubleBytes
<1>3. low \in Bytes /\ high \in Bytes
  BY <1>1, <1>2 DEF Low, High, Bytes
<1>4. (\A i \in 0..(Limbs - 1) : low[i] = n[i]) /\ \A i \in 0..(Limbs - 1) : high[i] = n[Limbs + i]
  BY <1>1 DEF Low, High
<1>5. \A k \in 0..(w - 1) : n[k] \in Int
  BY <1>2, BaseIsBase
<1>. HIDE DEF low, high
<1>6. LowValue(n, Base, Limbs + Limbs)
        = LowValue(n, Base, Limbs) + Power(Base, Limbs) * LowValue(high, Base, Limbs)
  <2>1. SplitAt(n, Limbs, high, Limbs)
    BY <1>1, <1>4, <1>5 DEF SplitAt
  <2>2. \A k \in 0..Limbs : LowValue(n, Base, Limbs + k)
          = LowValue(n, Base, Limbs) + Power(Base, Limbs) * LowValue(high, Base, k)
    BY <1>1, <2>1, BaseIsBase, LowValueSplits
  <2>. QED
    BY <1>1, <2>2
<1>7. LowValue(low, Base, Limbs) = LowValue(n, Base, Limbs)
  <2>1. \A i \in 0..(Limbs - 1) : n[i] \in Int /\ low[i] = n[i]
    BY <1>1, <1>4, <1>5
  <2>. QED
    BY <1>1, <2>1, BaseIsBase, LowValueAgrees
<1>. DEFINE vn == DoubleValue(n)  vl == ValueOf(low)  vh == ValueOf(high)
<1>8. vn = vl + Span * vh
  BY <1>1, <1>6, <1>7 DEF DoubleValue, ValueOf, Span
<1>9. vl \in Int /\ vh \in Int /\ Span \in Int
  BY <1>3, BytesFacts, SpanFacts
<1>. HIDE DEF vn, vl, vh
<1>10. Span * vh = vh * Span
  BY <1>9
<1>11. vn = vl + vh * Span
  BY <1>8, <1>10
<1>. QED
  BY <1>3, <1>11 DEF vn, vl, vh, low, high

\* A turn of the loop of reduce_512.
LEMMA Folding ==
  ASSUME NEW n \in DoubleBytes
  PROVE  /\ Folded(n) \in DoubleBytes
         /\ DoubleValue(Folded(n)) = ValueOf(Low(n)) + ValueOf(High(n)) * (Span % Modulus)
<1>. DEFINE w == 2 * Limbs
            l == w - 1
            part == [k \in DOMAIN n |-> IF k \in At THEN n[k] ELSE 0]
            prod == Mul512(High(n), Two256ModR)
            low == Low(n)
            vl == ValueOf(low)
            vh == ValueOf(High(n))
            t == Span % Modulus
            v == vl + vh * t
<1>1. /\ Limbs \in Nat /\ At = 0..(Limbs - 1) /\ Limbs + Limbs = w /\ l \in Nat /\ l + 1 = w /\ w \in Nat
  BY PoseidonAssumption DEF At
<1>2. DoubleBytes = [0..l -> 0..(Base - 1)] /\ DOMAIN n = 0..l
  BY DEF DoubleBytes
<1>3. part \in DoubleBytes
  BY <1>2, BaseIsBase DEF DoubleBytes
<1>4. prod \in DoubleBytes /\ DoubleValue(prod) = vh * t
  <2>. DEFINE a == High(n)  b == Two256ModR
  <2>1. a \in Bytes /\ b \in Bytes /\ ValueOf(b) = t
    BY LowAndHigh, RFacts
  <2>. HIDE DEF a, b
  <2>2. Mul512(a, b) \in DoubleBytes /\ DoubleValue(Mul512(a, b)) = ValueOf(a) * ValueOf(b)
    BY <2>1, Multiplying
  <2>. QED
    BY <2>1, <2>2 DEF a, b
<1>5. DoubleValue(part) = vl
  <2>1. /\ \A k \in 0..(Limbs + Limbs - 1) : part[k] \in Int
        /\ \A k \in 0..(Limbs - 1) : part[Limbs + k] = 0
        /\ \A k \in 0..(Limbs - 1) : low[k] \in Int /\ part[k] = low[k]
    <3>1. \A k \in 0..(Limbs + Limbs - 1) : part[k] \in Int
      <4>1. \A k \in 0..l : n[k] \in 0..(Base - 1)
        BY <1>2
      <4>. QED
        BY <1>1, <1>2, <4>1, BaseIsBase
    <3>2. \A k \in 0..(Limbs - 1) : part[Limbs + k] = 0
      BY <1>1, <1>2
    <3>3. ASSUME NEW k \in 0..(Limbs - 1) PROVE low[k] \in Int /\ part[k] = low[k]
      <4>1. k \in At /\ k \in 0..l /\ k \in 0..(Limbs + Limbs - 1)
        BY <1>1
      <4>2. low[k] = n[k] /\ part[k] = n[k]
        BY <1>2, <4>1 DEF Low
      <4>. QED
        BY <3>1, <4>1, <4>2
    <3>. QED
      BY <3>1, <3>2, <3>3
  <2>. HIDE DEF part, low
  <2>2. ZerosOnTop(part, Limbs, Limbs)
    BY <2>1 DEF ZerosOnTop
  <2>3. LowValue(part, Base, Limbs + Limbs) = LowValue(part, Base, Limbs)
    BY <1>1, <2>2, BaseIsBase, ZerosAbove
  <2>4. LowValue(part, Base, Limbs) = LowValue(low, Base, Limbs)
    BY <1>1, <2>1, BaseIsBase, LowValueAgrees
  <2>. QED
    BY <1>1, <2>3, <2>4 DEF DoubleValue, ValueOf
<1>6. Folded(n) = AddLimbs(part, prod)
  BY DEF Folded
<1>7. /\ AddLimbs(part, prod) \in [0..l -> 0..(Base - 1)]
      /\ LowValue(AddLimbs(part, prod), Base, w)
           = (LowValue(part, Base, w) + LowValue(prod, Base, w)) % Power(Base, w)
  <2>1. part \in [0..l -> 0..(Base - 1)] /\ prod \in [0..l -> 0..(Base - 1)]
    BY <1>2, <1>3, <1>4
  <2>. HIDE DEF part, prod, l, w
  <2>2. /\ AddLimbs(part, prod) \in [0..l -> 0..(Base - 1)]
        /\ LowValue(AddLimbs(part, prod), Base, l + 1)
             = (LowValue(part, Base, l + 1) + LowValue(prod, Base, l + 1)) % Power(Base, l + 1)
    BY <1>1, <2>1, AddingLimbs
  <2>. QED
    BY <1>1, <2>2
<1>8. Power(Base, w) = Span * Span
  <2>1. Power(Base, Limbs + Limbs) = Power(Base, Limbs) * Power(Base, Limbs)
    BY <1>1, BaseIsBase, PowerOfSum
  <2>. QED
    BY <1>1, <2>1 DEF Span
<1>9. DoubleValue(Folded(n)) = (vl + vh * t) % (Span * Span)
  <2>1. LowValue(Folded(n), Base, w) = (LowValue(part, Base, w) + LowValue(prod, Base, w)) % (Span * Span)
    BY <1>6, <1>7, <1>8
  <2>2. LowValue(part, Base, w) = vl /\ LowValue(prod, Base, w) = vh * t
    BY <1>4, <1>5 DEF DoubleValue
  <2>. QED
    BY <2>1, <2>2 DEF DoubleValue
<1>10. vl \in 0..(Span - 1) /\ vh \in 0..(Span - 1) /\ t \in 0..(Span - 1) /\ Span \in Nat \ {0}
  <2>1. Low(n) \in Bytes /\ High(n) \in Bytes
    BY LowAndHigh
  <2>2. t \in 0..(Span - 1)
    BY RFacts, SpanFacts
  <2>. QED
    BY <2>1, <2>2, BytesFacts, SpanFacts
<1>. HIDE DEF vl, vh, t
<1>11. v \in 0..(Span * Span - 1) /\ Span * Span \in Nat \ {0}
  <2>. DEFINE e == Span - 1
  <2>1. e \in Nat /\ Span = e + 1 /\ vl \in 0..e /\ vh \in 0..e /\ t \in 0..e
    BY <1>10
  <2>. HIDE DEF e
  <2>2. vh * t \in Nat /\ vh * t <= e * e
    <3>1. vh * t <= vh * e
      BY <2>1
    <3>2. vh * e <= e * e
      BY <2>1
    <3>. QED
      BY <2>1, <3>1, <3>2
  <2>3. Span * Span = e * e + 2 * e + 1 /\ e * e \in Nat
    BY <2>1
  <2>. DEFINE x == vh * t  y == e * e  s == Span * Span
  <2>4. x \in Nat /\ y \in Nat /\ x <= y /\ s = y + 2 * e + 1
    BY <2>2, <2>3
  <2>. HIDE DEF x, y, s
  <2>5. vl + x \in 0..(s - 1) /\ s \in Nat \ {0}
    BY <2>1, <2>4
  <2>. QED
    BY <2>5 DEF x, s
<1>. DEFINE s == Span * Span
<1>. HIDE DEF v, s
<1>12. v % s = v
  BY <1>11, SmallResidue DEF s
<1>. QED
  BY <1>2, <1>6, <1>7, <1>9, <1>12 DEF v, s, vl, vh, t, low

\* reduce_512 ends, with the residue.
LEMMA ReducingProducts ==
  \A n \in DoubleBytes : Reduce512[n] = LimbsOf(DoubleValue(n) % Modulus)
<1>. DEFINE more == {n \in DoubleBytes : High(n) # Zero}
            next == [n \in DoubleBytes |-> Folded(n)]
            size == [n \in DoubleBytes |-> DoubleValue(n)]
            g == [n \in DoubleBytes |-> LimbsOf(DoubleValue(n) % Modulus)]
            Is(f) == f = [n \in DoubleBytes |-> IF High(n) = Zero THEN Reduced[Low(n)] ELSE f[Folded(n)]]
<1>1. \A n \in DoubleBytes : size[n] \in Nat
  <2>. SUFFICES ASSUME NEW n \in DoubleBytes PROVE DoubleValue(n) \in Nat
    OBVIOUS
  <2>. DEFINE vl == ValueOf(Low(n))  vh == ValueOf(High(n))
  <2>1. vl \in Nat /\ vh \in Nat /\ Span \in Nat
    BY LowAndHigh, BytesFacts, SpanFacts
  <2>2. DoubleValue(n) = vl + vh * Span
    BY LowAndHigh
  <2>. HIDE DEF vl, vh
  <2>. QED
    BY <2>1, <2>2
<1>2. ASSUME NEW n \in more PROVE next[n] \in DoubleBytes /\ size[next[n]] < size[n] /\ g[next[n]] = g[n]
  <2>. DEFINE m == Folded(n)  v == DoubleValue(n)  u == DoubleValue(m)
              vl == ValueOf(Low(n))  vh == ValueOf(High(n))  t == Span % Modulus  d == Span \div Modulus
  <2>1. n \in DoubleBytes /\ m \in DoubleBytes /\ u = vl + vh * t /\ v = vl + vh * Span
    BY LowAndHigh, Folding
  <2>2. vl \in Nat /\ vh \in Nat /\ vh # 0
    <3>1. High(n) \in Bytes /\ Low(n) \in Bytes /\ High(n) # Zero
      BY <2>1, LowAndHigh
    <3>2. ValueOf(High(n)) # ValueOf(Zero)
      BY <3>1, BytesFacts, RFacts
    <3>. QED
      BY <3>1, <3>2, BytesFacts, RFacts, SpanFacts
  <2>3. d \in Int /\ t \in 0..(Modulus - 1) /\ Span = d * Modulus + t
    BY SpanFacts, Division
  <2>4. next[n] = m /\ size[n] = v /\ size[m] = u /\ g[n] = LimbsOf(v % Modulus) /\ g[m] = LimbsOf(u % Modulus)
    BY <2>1
  <2>5. Modulus \in Nat \ {0} /\ Span \in Nat /\ t < Span
    BY <2>3, SpanFacts
  <2>. HIDE DEF m, v, u, vl, vh, next, size, g, t, d
  <2>6. vh * t < vh * Span /\ vh * t \in Int /\ vh * Span \in Int
    <3>. DEFINE e == Span - t
    <3>1. e \in Nat \ {0} /\ Span = t + e /\ t \in Int
      BY <2>3, <2>5
    <3>. HIDE DEF e
    <3>2. vh * (t + e) = vh * t + vh * e /\ vh * e \in Nat \ {0} /\ vh * t \in Int
      BY <2>2, <3>1
    <3>. DEFINE x == vh * t  y == vh * e  z == vh * Span
    <3>3. z = x + y /\ y \in Nat \ {0} /\ x \in Int
      BY <3>1, <3>2
    <3>. HIDE DEF x, y, z
    <3>4. x < z /\ z \in Int
      BY <3>3
    <3>. QED
      BY <3>3, <3>4 DEF x, z
  <2>7. u < v /\ u \in Int /\ v \in Int
    <3>. DEFINE x == vh * t  z == vh * Span
    <3>1. x < z /\ x \in Int /\ z \in Int /\ u = vl + x /\ v = vl + z
      BY <2>1, <2>6
    <3>. HIDE DEF x, z
    <3>. QED
      BY <2>2, <3>1
  <2>8. v % Modulus = u % Modulus
    <3>. DEFINE k == vh * d
    <3>1. vh * (d * Modulus + t) = (vh * d) * Modulus + vh * t
      BY <2>2, <2>3, <2>5
    <3>2. v = u + k * Modulus
      <4>. DEFINE x == vh * t  z == vh * Span  y == k * Modulus
      <4>1. u = vl + x /\ v = vl + z /\ z = y + x /\ x \in Int /\ y \in Int
        BY <2>1, <2>2, <2>3, <2>5, <2>6, <3>1
      <4>. HIDE DEF x, y, z
      <4>2. v = u + y
        BY <2>2, <4>1
      <4>. QED
        BY <4>2 DEF y
    <3>3. k \in Int
      BY <2>2, <2>3
    <3>. HIDE DEF k
    <3>. QED
      BY <2>5, <2>7, <3>2, <3>3, SameResidue
  <2>. QED
    BY <2>1, <2>4, <2>7, <2>8
<1>3. \A n \in DoubleBytes : High(n) = Zero => g[n] = Reduced[Low(n)]
  <2>. SUFFICES ASSUME NEW n \in DoubleBytes, High(n) = Zero
                PROVE  LimbsOf(DoubleValue(n) % Modulus) = Reduced[Low(n)]
    OBVIOUS
  <2>1. ValueOf(High(n)) = 0 /\ Low(n) \in Bytes /\ ValueOf(Low(n)) \in Int
    BY LowAndHigh, RFacts, BytesFacts, SpanFacts
  <2>2. DoubleValue(n) = ValueOf(Low(n)) + 0 * Span
    BY <2>1, LowAndHigh
  <2>3. DoubleValue(n) = ValueOf(Low(n))
    BY <2>1, <2>2, SpanFacts
  <2>. QED
    BY <2>1, <2>3, Reducing
<1>4. \A n \in more : next[n] = Folded(n)
  OBVIOUS
<1>5. \A n \in DoubleBytes : n \in more <=> High(n) # Zero
  OBVIOUS
<1>6. more \subseteq DoubleBytes /\ g = [n \in DoubleBytes |-> g[n]]
  OBVIOUS
<1>. HIDE DEF g, next, more, size
<1>7. Is(g)
  <2>1. \A n \in DoubleBytes : g[n] = IF High(n) = Zero THEN Reduced[Low(n)] ELSE g[Folded(n)]
    BY <1>2, <1>3, <1>4, <1>5
  <2>. QED
    BY <1>6, <2>1
<1>8. Is(Reduce512)
  <2>1. \E f : Is(f)
    BY <1>7
  <2>2. Reduce512 = CHOOSE f : Is(f)
    BY DEF Reduce512
  <2>. HIDE DEF Is
  <2>. QED
    BY <2>1, <2>2
<1>9. Reduce512 = [n \in DoubleBytes |-> IF n \in more THEN Reduce512[next[n]] ELSE g[n]]
  BY <1>3, <1>4, <1>5, <1>8
<1>10. \A n \in DoubleBytes : Reduce512[n] = g[n]
  <2>. HIDE DEF Is
  <2>1. Loops(Reduce512, DoubleBytes, more, next, size, g)
    BY <1>1, <1>2, <1>6, <1>9 DEF Loops
  <2>. QED
    BY <2>1, LoopResult
<1>. QED
  BY <1>10 DEF g

\* Fr::mul and Fr::pow5
LEMMA MultiplyElements ==
  ASSUME NEW m \in Field, NEW n \in Field
  PROVE  Mul(LimbsOf(m), LimbsOf(n)) = LimbsOf((m * n) % Modulus) /\ (m * n) % Modulus \in Field
<1>. DEFINE x == LimbsOf(m)  y == LimbsOf(n)  v == m * n
<1>1. x \in Bytes /\ y \in Bytes /\ ValueOf(x) = m /\ ValueOf(y) = n
  BY Elements
<1>2. v \in Int
  BY SpanFacts
<1>. HIDE DEF x, y
<1>3. Mul512(x, y) \in DoubleBytes /\ DoubleValue(Mul512(x, y)) = ValueOf(x) * ValueOf(y)
  BY <1>1, Multiplying
<1>4. DoubleValue(Mul512(x, y)) = v
  BY <1>1, <1>3
<1>. HIDE DEF v
<1>5. Mul(x, y) = LimbsOf(v % Modulus)
  BY <1>3, <1>4, ReducingProducts DEF Mul
<1>6. v % Modulus \in Field
  BY <1>2, SpanFacts, Division DEF Field
<1>. QED
  BY <1>5, <1>6 DEF x, y, v

\* Residues add and multiply.
Alike(a, b) == a % Modulus = b % Modulus

\* A number has the residue of its residue.
LEMMA AlikeFacts ==
  \A a \in Int : a % Modulus \in Field /\ a % Modulus \in Int /\ Alike(a % Modulus, a) /\ Alike(a, a)
<1>. SUFFICES ASSUME NEW a \in Int
              PROVE  a % Modulus \in Field /\ a % Modulus \in Int /\ Alike(a % Modulus, a) /\ Alike(a, a)
  OBVIOUS
<1>1. a % Modulus \in 0..(Modulus - 1) /\ (a % Modulus) % Modulus = a % Modulus
  BY SpanFacts, ResidueOfResidue
<1>. QED
  BY <1>1, SpanFacts DEF Field, Alike

\* Residues of sums.
LEMMA AlikeSum ==
  ASSUME NEW a \in Int, NEW b \in Int, NEW c \in Int, NEW d \in Int, Alike(a, b), Alike(c, d),
         NEW x, x = a + c, NEW y, y = b + d
  PROVE  Alike(x, y)
<1>1. Modulus \in Nat \ {0}
  BY SpanFacts
<1>2. PICK k \in Int : a = b + k * Modulus
  BY <1>1, SameResidue DEF Alike
<1>3. PICK l \in Int : c = d + l * Modulus
  BY <1>1, SameResidue DEF Alike
<1>. DEFINE n == k + l
<1>4. n * Modulus = k * Modulus + l * Modulus /\ k * Modulus \in Int /\ l * Modulus \in Int
  BY <1>1
<1>. DEFINE u == a + c  v == b + d
<1>5. u = v + n * Modulus /\ u \in Int /\ v \in Int /\ n \in Int
  BY <1>1, <1>2, <1>3, <1>4
<1>. HIDE DEF n, u, v
<1>6. u % Modulus = v % Modulus
  BY <1>1, <1>5, SameResidue
<1>. QED
  BY <1>6 DEF Alike, u, v

\* Residues of products.
LEMMA AlikeProduct ==
  ASSUME NEW a \in Int, NEW b \in Int, NEW c \in Int, NEW d \in Int, Alike(a, b), Alike(c, d),
         NEW x, x = a * c, NEW y, y = b * d
  PROVE  Alike(x, y)
<1>1. Modulus \in Nat \ {0}
  BY SpanFacts
<1>2. PICK k \in Int : a = b + k * Modulus
  BY <1>1, SameResidue DEF Alike
<1>3. PICK l \in Int : c = d + l * Modulus
  BY <1>1, SameResidue DEF Alike
<1>. DEFINE n == k * c + b * l
<1>4. x = b * c + (k * Modulus) * c
  BY <1>1, <1>2
<1>5. b * c = b * d + b * (l * Modulus)
  BY <1>1, <1>3
<1>6. (k * Modulus) * c = (k * c) * Modulus /\ b * (l * Modulus) = (b * l) * Modulus
      /\ n * Modulus = (k * c) * Modulus + (b * l) * Modulus
  BY <1>1
<1>7. y \in Int /\ x \in Int /\ n \in Int /\ (k * c) * Modulus \in Int /\ (b * l) * Modulus \in Int
  BY <1>1
<1>. HIDE DEF n
<1>8. x = y + n * Modulus
  BY <1>4, <1>5, <1>6, <1>7
<1>9. x % Modulus = y % Modulus
  BY <1>1, <1>7, <1>8, SameResidue
<1>. QED
  BY <1>9 DEF Alike

\* pow5.
LEMMA FifthPower ==
  ASSUME NEW n \in Field
  PROVE  Pow5(LimbsOf(n)) = LimbsOf(Fifth(n) % Modulus) /\ Fifth(n) % Modulus \in Field
<1>. DEFINE x == LimbsOf(n)  s2 == n * n  n2 == s2 % Modulus  s4 == n2 * n2  n4 == s4 % Modulus
            s5 == n4 * n  n5 == s5 % Modulus  c4 == s2 * s2  c5 == c4 * n
<1>1. n \in Int /\ Alike(n, n) /\ s2 \in Int
  BY SpanFacts, AlikeFacts
<1>2. Mul(x, x) = LimbsOf(n2) /\ n2 \in Field
  BY MultiplyElements
<1>. HIDE DEF s2
<1>3. n2 \in Int /\ Alike(n2, s2)
  BY <1>1, AlikeFacts
<1>. HIDE DEF n2
<1>4. s4 \in Int /\ c4 \in Int /\ c5 \in Int
  BY <1>1, <1>3
<1>5. Mul(LimbsOf(n2), LimbsOf(n2)) = LimbsOf(n4) /\ n4 \in Field
  BY <1>2, MultiplyElements
<1>6. Alike(s4, c4)
  BY <1>1, <1>3, AlikeProduct
<1>. HIDE DEF s4, c4
<1>7. n4 \in Int /\ Alike(n4, c4)
  BY <1>4, <1>6, AlikeFacts DEF Alike
<1>. HIDE DEF n4
<1>8. Mul(LimbsOf(n4), x) = LimbsOf(n5) /\ n5 \in Field
  BY <1>5, MultiplyElements
<1>9. Alike(s5, c5)
  BY <1>1, <1>4, <1>7, AlikeProduct
<1>10. c5 = Fifth(n)
  BY <1>1 DEF c4, s2, Fifth
<1>11. n5 = Fifth(n) % Modulus
  BY <1>9, <1>10 DEF Alike
<1>12. Pow5(x) = LimbsOf(n5)
  BY <1>2, <1>5, <1>8 DEF Pow5
<1>. QED
  BY <1>8, <1>11, <1>12

-----------------------------------------------------------------------------
(* Vectors of three and their matrices. *)

IsVector(v) == v[1] \in Int /\ v[2] \in Int /\ v[3] \in Int

IsMatrix(m) == IsVector(m[1]) /\ IsVector(m[2]) /\ IsVector(m[3])

\* a product of a row and a column
ThreeProducts(v, c1, c2, c3) == v[1] * c1 + v[2] * c2 + v[3] * c3

\* The state has three elements.
LEMMA ThreeIndices ==
  1..T = {1, 2, 3}
BY DEF T

\* Vectors are congruent element by element.
LEMMA Congruences ==
  ASSUME NEW v, NEW w
  PROVE  Congruent(v, w) <=> Alike(v[1], w[1]) /\ Alike(v[2], w[2]) /\ Alike(v[3], w[3])
BY ThreeIndices DEF Congruent, Alike

\* The elements of a row times a matrix.
LEMMA TimesRows ==
  ASSUME NEW v, NEW m
  PROVE  /\ Times(v, m)[1] = ThreeProducts(v, m[1][1], m[2][1], m[3][1])
         /\ Times(v, m)[2] = ThreeProducts(v, m[1][2], m[2][2], m[3][2])
         /\ Times(v, m)[3] = ThreeProducts(v, m[1][3], m[2][3], m[3][3])
BY ThreeIndices DEF Times, ThreeProducts

\* The elements of a sum of rows.
LEMMA PlusRows ==
  ASSUME NEW v, NEW w
  PROVE  Plus(v, w)[1] = v[1] + w[1] /\ Plus(v, w)[2] = v[2] + w[2] /\ Plus(v, w)[3] = v[3] + w[3]
BY ThreeIndices DEF Plus

\* Congruent rows and columns have congruent products.
LEMMA ThreeAlike ==
  ASSUME NEW v, NEW w, IsVector(v), IsVector(w), Congruent(v, w),
         NEW a \in Int, NEW b \in Int, NEW c \in Int, NEW d \in Int, NEW e \in Int, NEW f \in Int,
         Alike(a, d), Alike(b, e), Alike(c, f)
  PROVE  /\ ThreeProducts(v, a, b, c) \in Int /\ ThreeProducts(w, d, e, f) \in Int
         /\ Alike(ThreeProducts(v, a, b, c), ThreeProducts(w, d, e, f))
<1>. DEFINE v1 == v[1]  v2 == v[2]  v3 == v[3]  w1 == w[1]  w2 == w[2]  w3 == w[3]
            p1 == v1 * a  p2 == v2 * b  p3 == v3 * c  q1 == w1 * d  q2 == w2 * e  q3 == w3 * f
            p12 == p1 + p2  q12 == q1 + q2  p == p12 + p3  q == q12 + q3
<1>1. /\ v1 \in Int /\ v2 \in Int /\ v3 \in Int /\ w1 \in Int /\ w2 \in Int /\ w3 \in Int
      /\ Alike(v1, w1) /\ Alike(v2, w2) /\ Alike(v3, w3)
  BY Congruences DEF IsVector
<1>2. ThreeProducts(v, a, b, c) = p /\ ThreeProducts(w, d, e, f) = q
  BY DEF ThreeProducts
<1>. HIDE DEF v1, v2, v3, w1, w2, w3
<1>3. p1 \in Int /\ p2 \in Int /\ p3 \in Int /\ q1 \in Int /\ q2 \in Int /\ q3 \in Int
  BY <1>1
<1>4. Alike(p1, q1)
  BY <1>1, AlikeProduct
<1>5. Alike(p2, q2)
  BY <1>1, AlikeProduct
<1>6. Alike(p3, q3)
  BY <1>1, AlikeProduct
<1>. HIDE DEF p1, p2, p3, q1, q2, q3
<1>7. p12 \in Int /\ q12 \in Int /\ Alike(p12, q12)
  BY <1>3, <1>4, <1>5, AlikeSum
<1>. HIDE DEF p12, q12
<1>8. p \in Int /\ q \in Int /\ Alike(p, q)
  BY <1>3, <1>6, <1>7, AlikeSum
<1>. QED
  BY <1>2, <1>8

\* Congruence is an equivalence.
LEMMA VectorsAlike ==
  /\ \A v : Congruent(v, v)
  /\ \A v, w : Congruent(v, w) => Congruent(w, v)
  /\ \A u, v, w : Congruent(u, v) /\ Congruent(v, w) => Congruent(u, w)
BY DEF Congruent

\* Congruent rows times a matrix are congruent.
LEMMA TimesAlike ==
  ASSUME NEW v, NEW w, IsVector(v), IsVector(w), Congruent(v, w), NEW m, IsMatrix(m)
  PROVE  IsVector(Times(v, m)) /\ IsVector(Times(w, m)) /\ Congruent(Times(v, m), Times(w, m))
<1>1. /\ m[1][1] \in Int /\ m[1][2] \in Int /\ m[1][3] \in Int
      /\ m[2][1] \in Int /\ m[2][2] \in Int /\ m[2][3] \in Int
      /\ m[3][1] \in Int /\ m[3][2] \in Int /\ m[3][3] \in Int
  BY DEF IsMatrix, IsVector
<1>2. /\ Alike(m[1][1], m[1][1]) /\ Alike(m[1][2], m[1][2]) /\ Alike(m[1][3], m[1][3])
      /\ Alike(m[2][1], m[2][1]) /\ Alike(m[2][2], m[2][2]) /\ Alike(m[2][3], m[2][3])
      /\ Alike(m[3][1], m[3][1]) /\ Alike(m[3][2], m[3][2]) /\ Alike(m[3][3], m[3][3])
  BY DEF Alike
<1>3. Times(v, m)[1] \in Int /\ Times(w, m)[1] \in Int /\ Alike(Times(v, m)[1], Times(w, m)[1])
  BY <1>1, <1>2, TimesRows, ThreeAlike
<1>4. Times(v, m)[2] \in Int /\ Times(w, m)[2] \in Int /\ Alike(Times(v, m)[2], Times(w, m)[2])
  BY <1>1, <1>2, TimesRows, ThreeAlike
<1>5. Times(v, m)[3] \in Int /\ Times(w, m)[3] \in Int /\ Alike(Times(v, m)[3], Times(w, m)[3])
  BY <1>1, <1>2, TimesRows, ThreeAlike
<1>. QED
  BY <1>3, <1>4, <1>5, Congruences DEF IsVector

\* Sums of congruent rows are congruent.
LEMMA PlusAlike ==
  ASSUME NEW u, NEW v, NEW w, NEW x, IsVector(u), IsVector(v), IsVector(w), IsVector(x),
         Congruent(u, v), Congruent(w, x)
  PROVE  IsVector(Plus(u, w)) /\ IsVector(Plus(v, x)) /\ Congruent(Plus(u, w), Plus(v, x))
<1>1. /\ Alike(u[1], v[1]) /\ Alike(u[2], v[2]) /\ Alike(u[3], v[3])
      /\ Alike(w[1], x[1]) /\ Alike(w[2], x[2]) /\ Alike(w[3], x[3])
  BY Congruences
<1>2. /\ u[1] \in Int /\ u[2] \in Int /\ u[3] \in Int /\ v[1] \in Int /\ v[2] \in Int /\ v[3] \in Int
      /\ w[1] \in Int /\ w[2] \in Int /\ w[3] \in Int /\ x[1] \in Int /\ x[2] \in Int /\ x[3] \in Int
  BY DEF IsVector
<1>3. ASSUME NEW k \in {1, 2, 3} PROVE Alike(Plus(u, w)[k], Plus(v, x)[k])
  <2>. DEFINE a == u[k]  b == v[k]  c == w[k]  d == x[k]  y == Plus(u, w)[k]  z == Plus(v, x)[k]
  <2>1. a \in Int /\ b \in Int /\ c \in Int /\ d \in Int /\ Alike(a, b) /\ Alike(c, d)
    BY <1>1, <1>2
  <2>2. y = a + c /\ z = b + d
    BY PlusRows
  <2>. HIDE DEF a, b, c, d, y, z
  <2>3. Alike(y, z)
    BY <2>1, <2>2, AlikeSum
  <2>. QED
    BY <2>3 DEF y, z
<1>6. IsVector(Plus(u, w)) /\ IsVector(Plus(v, x))
  BY <1>2, PlusRows DEF IsVector
<1>. QED
  BY <1>3, <1>6, Congruences

\* Times distributes over Plus.
LEMMA TimesOfPlus ==
  ASSUME NEW v, NEW w, NEW m, IsVector(v), IsVector(w), IsMatrix(m)
  PROVE  Congruent(Times(Plus(v, w), m), Plus(Times(v, m), Times(w, m)))
<1>. DEFINE s == Plus(v, w)
<1>1. s[1] = v[1] + w[1] /\ s[2] = v[2] + w[2] /\ s[3] = v[3] + w[3]
  BY PlusRows
<1>. HIDE DEF s
<1>2. ASSUME NEW a \in Int, NEW b \in Int, NEW c \in Int
      PROVE  ThreeProducts(s, a, b, c) = ThreeProducts(v, a, b, c) + ThreeProducts(w, a, b, c)
  <2>. DEFINE v1 == v[1]  v2 == v[2]  v3 == v[3]  w1 == w[1]  w2 == w[2]  w3 == w[3]
  <2>1. v1 \in Int /\ v2 \in Int /\ v3 \in Int /\ w1 \in Int /\ w2 \in Int /\ w3 \in Int
    BY DEF IsVector
  <2>2. /\ ThreeProducts(s, a, b, c) = (v1 + w1) * a + (v2 + w2) * b + (v3 + w3) * c
        /\ ThreeProducts(v, a, b, c) = v1 * a + v2 * b + v3 * c
        /\ ThreeProducts(w, a, b, c) = w1 * a + w2 * b + w3 * c
    BY <1>1 DEF ThreeProducts
  <2>. HIDE DEF v1, v2, v3, w1, w2, w3
  <2>3. (v1 + w1) * a + (v2 + w2) * b + (v3 + w3) * c = (v1 * a + v2 * b + v3 * c) + (w1 * a + w2 * b + w3 * c)
    BY <2>1
  <2>. QED
    BY <2>2, <2>3
<1>3. /\ m[1][1] \in Int /\ m[1][2] \in Int /\ m[1][3] \in Int
      /\ m[2][1] \in Int /\ m[2][2] \in Int /\ m[2][3] \in Int
      /\ m[3][1] \in Int /\ m[3][2] \in Int /\ m[3][3] \in Int
  BY DEF IsMatrix, IsVector
<1>4. /\ Times(s, m)[1] = Plus(Times(v, m), Times(w, m))[1]
      /\ Times(s, m)[2] = Plus(Times(v, m), Times(w, m))[2]
      /\ Times(s, m)[3] = Plus(Times(v, m), Times(w, m))[3]
  BY <1>2, <1>3, TimesRows, PlusRows
<1>. QED
  BY <1>4, Congruences DEF s, Alike

\* Times of a product of matrices.
LEMMA TimesOfTimes ==
  ASSUME NEW v, NEW m, NEW n, NEW q, IsVector(v), IsMatrix(m), IsMatrix(n), IsMatrix(q),
         Congruent(Times(m[1], n), q[1]), Congruent(Times(m[2], n), q[2]), Congruent(Times(m[3], n), q[3])
  PROVE  Congruent(Times(Times(v, m), n), Times(v, q))
<1>. DEFINE s == Times(v, m)
<1>1. /\ m[1][1] \in Int /\ m[1][2] \in Int /\ m[1][3] \in Int
      /\ m[2][1] \in Int /\ m[2][2] \in Int /\ m[2][3] \in Int
      /\ m[3][1] \in Int /\ m[3][2] \in Int /\ m[3][3] \in Int
      /\ n[1][1] \in Int /\ n[1][2] \in Int /\ n[1][3] \in Int
      /\ n[2][1] \in Int /\ n[2][2] \in Int /\ n[2][3] \in Int
      /\ n[3][1] \in Int /\ n[3][2] \in Int /\ n[3][3] \in Int
      /\ q[1][1] \in Int /\ q[1][2] \in Int /\ q[1][3] \in Int
      /\ q[2][1] \in Int /\ q[2][2] \in Int /\ q[2][3] \in Int
      /\ q[3][1] \in Int /\ q[3][2] \in Int /\ q[3][3] \in Int
  BY DEF IsMatrix, IsVector
<1>2. /\ s[1] = ThreeProducts(v, m[1][1], m[2][1], m[3][1])
      /\ s[2] = ThreeProducts(v, m[1][2], m[2][2], m[3][2])
      /\ s[3] = ThreeProducts(v, m[1][3], m[2][3], m[3][3])
  BY TimesRows
<1>. HIDE DEF s
<1>3. ASSUME NEW a \in Int, NEW b \in Int, NEW c \in Int
      PROVE  /\ ThreeProducts(s, a, b, c)
                  = ThreeProducts(v, ThreeProducts(m[1], a, b, c), ThreeProducts(m[2], a, b, c), ThreeProducts(m[3], a, b, c))
             /\ ThreeProducts(m[1], a, b, c) \in Int /\ ThreeProducts(m[2], a, b, c) \in Int
             /\ ThreeProducts(m[3], a, b, c) \in Int
  <2>. DEFINE v1 == v[1]  v2 == v[2]  v3 == v[3]
              m11 == m[1][1]  m12 == m[1][2]  m13 == m[1][3]
              m21 == m[2][1]  m22 == m[2][2]  m23 == m[2][3]
              m31 == m[3][1]  m32 == m[3][2]  m33 == m[3][3]
  <2>1. /\ v1 \in Int /\ v2 \in Int /\ v3 \in Int
        /\ m11 \in Int /\ m12 \in Int /\ m13 \in Int /\ m21 \in Int /\ m22 \in Int /\ m23 \in Int
        /\ m31 \in Int /\ m32 \in Int /\ m33 \in Int
    BY <1>1 DEF IsVector
  <2>2. /\ ThreeProducts(m[1], a, b, c) = m11 * a + m12 * b + m13 * c
        /\ ThreeProducts(m[2], a, b, c) = m21 * a + m22 * b + m23 * c
        /\ ThreeProducts(m[3], a, b, c) = m31 * a + m32 * b + m33 * c
    BY DEF ThreeProducts
  <2>3. ThreeProducts(s, a, b, c) = (v1 * m11 + v2 * m21 + v3 * m31) * a + (v1 * m12 + v2 * m22 + v3 * m32) * b
                                      + (v1 * m13 + v2 * m23 + v3 * m33) * c
    BY <1>2 DEF ThreeProducts
  <2>4. ThreeProducts(v, ThreeProducts(m[1], a, b, c), ThreeProducts(m[2], a, b, c), ThreeProducts(m[3], a, b, c))
          = v1 * (m11 * a + m12 * b + m13 * c) + v2 * (m21 * a + m22 * b + m23 * c) + v3 * (m31 * a + m32 * b + m33 * c)
    BY <2>2 DEF ThreeProducts
  <2>. HIDE DEF v1, v2, v3, m11, m12, m13, m21, m22, m23, m31, m32, m33
  <2>5. (v1 * m11 + v2 * m21 + v3 * m31) * a + (v1 * m12 + v2 * m22 + v3 * m32) * b
            + (v1 * m13 + v2 * m23 + v3 * m33) * c
          = v1 * (m11 * a + m12 * b + m13 * c) + v2 * (m21 * a + m22 * b + m23 * c) + v3 * (m31 * a + m32 * b + m33 * c)
    BY <2>1
  <2>6. m11 * a + m12 * b + m13 * c \in Int /\ m21 * a + m22 * b + m23 * c \in Int /\ m31 * a + m32 * b + m33 * c \in Int
    BY <2>1
  <2>. QED
    BY <2>2, <2>3, <2>4, <2>5, <2>6
<1>4. /\ Alike(Times(m[1], n)[1], q[1][1]) /\ Alike(Times(m[1], n)[2], q[1][2]) /\ Alike(Times(m[1], n)[3], q[1][3])
      /\ Alike(Times(m[2], n)[1], q[2][1]) /\ Alike(Times(m[2], n)[2], q[2][2]) /\ Alike(Times(m[2], n)[3], q[2][3])
      /\ Alike(Times(m[3], n)[1], q[3][1]) /\ Alike(Times(m[3], n)[2], q[3][2]) /\ Alike(Times(m[3], n)[3], q[3][3])
  BY Congruences
<1>5. Congruent(v, v)
  BY VectorsAlike
<1>6. ASSUME NEW a \in Int, NEW b \in Int, NEW c \in Int, NEW d \in Int, NEW e \in Int, NEW f \in Int,
             Alike(ThreeProducts(m[1], a, b, c), d), Alike(ThreeProducts(m[2], a, b, c), e),
             Alike(ThreeProducts(m[3], a, b, c), f)
      PROVE  Alike(ThreeProducts(s, a, b, c), ThreeProducts(v, d, e, f))
  <2>. DEFINE x == ThreeProducts(m[1], a, b, c)  y == ThreeProducts(m[2], a, b, c)
              z == ThreeProducts(m[3], a, b, c)
  <2>1. ThreeProducts(s, a, b, c) = ThreeProducts(v, x, y, z) /\ x \in Int /\ y \in Int /\ z \in Int
    BY <1>3
  <2>2. Alike(x, d) /\ Alike(y, e) /\ Alike(z, f)
    BY <1>6
  <2>. HIDE DEF x, y, z
  <2>3. Alike(ThreeProducts(v, x, y, z), ThreeProducts(v, d, e, f))
    BY <1>5, <2>1, <2>2, ThreeAlike
  <2>. QED
    BY <2>1, <2>3
<1>7. Alike(Times(s, n)[1], Times(v, q)[1])
  <2>1. /\ Alike(ThreeProducts(m[1], n[1][1], n[2][1], n[3][1]), q[1][1])
        /\ Alike(ThreeProducts(m[2], n[1][1], n[2][1], n[3][1]), q[2][1])
        /\ Alike(ThreeProducts(m[3], n[1][1], n[2][1], n[3][1]), q[3][1])
    BY <1>4, TimesRows
  <2>2. Alike(ThreeProducts(s, n[1][1], n[2][1], n[3][1]), ThreeProducts(v, q[1][1], q[2][1], q[3][1]))
    BY <1>1, <1>6, <2>1
  <2>. QED
    BY <2>2, TimesRows
<1>8. Alike(Times(s, n)[2], Times(v, q)[2])
  <2>1. /\ Alike(ThreeProducts(m[1], n[1][2], n[2][2], n[3][2]), q[1][2])
        /\ Alike(ThreeProducts(m[2], n[1][2], n[2][2], n[3][2]), q[2][2])
        /\ Alike(ThreeProducts(m[3], n[1][2], n[2][2], n[3][2]), q[3][2])
    BY <1>4, TimesRows
  <2>2. Alike(ThreeProducts(s, n[1][2], n[2][2], n[3][2]), ThreeProducts(v, q[1][2], q[2][2], q[3][2]))
    BY <1>1, <1>6, <2>1
  <2>. QED
    BY <2>2, TimesRows
<1>9. Alike(Times(s, n)[3], Times(v, q)[3])
  <2>1. /\ Alike(ThreeProducts(m[1], n[1][3], n[2][3], n[3][3]), q[1][3])
        /\ Alike(ThreeProducts(m[2], n[1][3], n[2][3], n[3][3]), q[2][3])
        /\ Alike(ThreeProducts(m[3], n[1][3], n[2][3], n[3][3]), q[3][3])
    BY <1>4, TimesRows
  <2>2. Alike(ThreeProducts(s, n[1][3], n[2][3], n[3][3]), ThreeProducts(v, q[1][3], q[2][3], q[3][3]))
    BY <1>1, <1>6, <2>1
  <2>. QED
    BY <2>2, TimesRows
<1>. QED
  BY <1>7, <1>8, <1>9, Congruences DEF s

-----------------------------------------------------------------------------
(* Elements that stand for integers, and states for vectors. *)

Stands(e, x) == x \in Int /\ e = LimbsOf(x % Modulus)

\* A constant of the permutation stands for itself.
LEMMA ConstantsStand ==
  /\ \A n \in Field : Stands(LimbsOf(n), n)
  /\ Stands(Zero, 0)
<1>1. ASSUME NEW n \in Field PROVE Stands(LimbsOf(n), n)
  <2>1. n \in 0..(Modulus - 1) /\ n \in Int
    BY SpanFacts DEF Field
  <2>2. n % Modulus = n
    BY <2>1, SpanFacts, SmallResidue
  <2>. QED
    BY <2>1, <2>2 DEF Stands
<1>. QED
  BY <1>1, SpanFacts DEF Zero

\* add gives what stands for the sum.
LEMMA SumsStand ==
  ASSUME NEW e, NEW x, NEW f, NEW y, Stands(e, x), Stands(f, y), NEW z, z = x + y
  PROVE  Stands(Add(e, f), z)
<1>. DEFINE m == x % Modulus  n == y % Modulus  s == m + n
<1>1. m \in Field /\ n \in Field /\ m \in Int /\ n \in Int /\ Alike(m, x) /\ Alike(n, y) /\ x \in Int /\ y \in Int
      /\ e = LimbsOf(m) /\ f = LimbsOf(n)
  BY AlikeFacts DEF Stands
<1>. HIDE DEF m, n
<1>2. Add(LimbsOf(m), LimbsOf(n)) = LimbsOf(s % Modulus)
  BY <1>1, AddElements
<1>3. Alike(s, z)
  BY <1>1, AlikeSum
<1>4. z \in Int
  BY <1>1
<1>. QED
  BY <1>1, <1>2, <1>3, <1>4 DEF Stands, Alike

\* mul gives what stands for the product.
LEMMA ProductsStand ==
  ASSUME NEW e, NEW x, NEW f, NEW y, Stands(e, x), Stands(f, y), NEW z, z = x * y
  PROVE  Stands(Mul(e, f), z)
<1>. DEFINE m == x % Modulus  n == y % Modulus  s == m * n
<1>1. m \in Field /\ n \in Field /\ m \in Int /\ n \in Int /\ Alike(m, x) /\ Alike(n, y) /\ x \in Int /\ y \in Int
      /\ e = LimbsOf(m) /\ f = LimbsOf(n)
  BY AlikeFacts DEF Stands
<1>. HIDE DEF m, n
<1>2. Mul(LimbsOf(m), LimbsOf(n)) = LimbsOf(s % Modulus)
  BY <1>1, MultiplyElements
<1>3. Alike(s, z)
  BY <1>1, AlikeProduct
<1>4. z \in Int
  BY <1>1
<1>. QED
  BY <1>1, <1>2, <1>3, <1>4 DEF Stands, Alike

\* Residues of fifth powers.
LEMMA FifthAlike ==
  ASSUME NEW m \in Int, NEW x \in Int, Alike(m, x)
  PROVE  Fifth(m) \in Int /\ Fifth(x) \in Int /\ Alike(Fifth(m), Fifth(x))
<1>. DEFINE m2 == m * m  x2 == x * x  m3 == m2 * m  x3 == x2 * x  m4 == m3 * m  x4 == x3 * x  m5 == m4 * m  x5 == x4 * x
<1>1. m2 \in Int /\ x2 \in Int /\ Alike(m2, x2)
  BY AlikeProduct
<1>2. Fifth(m) = m5 /\ Fifth(x) = x5
  BY DEF Fifth
<1>. HIDE DEF m2, x2
<1>3. m3 \in Int /\ x3 \in Int /\ Alike(m3, x3)
  BY <1>1, AlikeProduct
<1>. HIDE DEF m3, x3
<1>4. m4 \in Int /\ x4 \in Int /\ Alike(m4, x4)
  BY <1>3, AlikeProduct
<1>. HIDE DEF m4, x4
<1>5. m5 \in Int /\ x5 \in Int /\ Alike(m5, x5)
  BY <1>4, AlikeProduct
<1>. QED
  BY <1>2, <1>5

\* pow5 gives what stands for the fifth power.
LEMMA FifthsStand ==
  ASSUME NEW e, NEW x, Stands(e, x)
  PROVE  Stands(Pow5(e), Fifth(x))
<1>. DEFINE m == x % Modulus
<1>1. m \in Field /\ m \in Int /\ Alike(m, x) /\ x \in Int /\ e = LimbsOf(m)
  BY AlikeFacts DEF Stands
<1>. HIDE DEF m
<1>2. Fifth(x) \in Int /\ Alike(Fifth(m), Fifth(x))
  BY <1>1, FifthAlike
<1>3. Pow5(LimbsOf(m)) = LimbsOf(Fifth(m) % Modulus)
  BY <1>1, FifthPower
<1>. QED
  BY <1>1, <1>2, <1>3 DEF Stands, Alike

StandsFor(s, v) == IsVector(v) /\ s = [i \in 1..T |-> LimbsOf(v[i] % Modulus)]

\* A state stands for a vector element by element.
LEMMA StatesStand ==
  ASSUME NEW s, NEW v
  PROVE  StandsFor(s, v) <=>
           s = [i \in 1..T |-> s[i]] /\ Stands(s[1], v[1]) /\ Stands(s[2], v[2]) /\ Stands(s[3], v[3])
<1>1. ASSUME StandsFor(s, v)
      PROVE  s = [i \in 1..T |-> s[i]] /\ Stands(s[1], v[1]) /\ Stands(s[2], v[2]) /\ Stands(s[3], v[3])
  BY <1>1, ThreeIndices DEF StandsFor, Stands, IsVector
<1>2. ASSUME s = [i \in 1..T |-> s[i]], Stands(s[1], v[1]), Stands(s[2], v[2]), Stands(s[3], v[3])
      PROVE  StandsFor(s, v)
  <2>1. IsVector(v)
    BY <1>2 DEF Stands, IsVector
  <2>2. \A i \in 1..T : s[i] = LimbsOf(v[i] % Modulus)
    BY <1>2, ThreeIndices DEF Stands
  <2>. QED
    BY <1>2, <2>1, <2>2 DEF StandsFor
<1>. QED
  BY <1>1, <1>2

\* The values of a state's elements.
ValuesOf(s) == [i \in 1..T |-> ValueOf(s[i])]

\* A state stands for its values and for any vector congruent to them.
LEMMA ValuesStand ==
  ASSUME NEW s, NEW v, StandsFor(s, v)
  PROVE  /\ StandsFor(s, ValuesOf(s)) /\ Congruent(ValuesOf(s), v) /\ ValuesOf(s) \in [1..T -> Field]
         /\ \A w : IsVector(w) /\ Congruent(v, w) => StandsFor(s, w)
<1>1. \A i \in 1..T : v[i] \in Int /\ s[i] = LimbsOf(v[i] % Modulus)
  BY ThreeIndices DEF StandsFor, IsVector
<1>2. ASSUME NEW i \in 1..T PROVE ValueOf(s[i]) = v[i] % Modulus /\ v[i] % Modulus \in Field
  <2>. DEFINE n == v[i] % Modulus
  <2>1. n \in Field /\ s[i] = LimbsOf(n)
    BY <1>1, AlikeFacts
  <2>. HIDE DEF n
  <2>2. ValueOf(s[i]) = n
    BY <2>1, Elements
  <2>. QED
    BY <2>1, <2>2 DEF n
<1>3. \A i \in 1..T : ValuesOf(s)[i] = v[i] % Modulus
  BY <1>2 DEF ValuesOf
<1>4. ValuesOf(s) \in [1..T -> Field]
  BY <1>2 DEF ValuesOf
<1>5. \A i \in 1..T : ValuesOf(s)[i] % Modulus = v[i] % Modulus /\ ValuesOf(s)[i] \in Int
  BY <1>1, <1>3, AlikeFacts DEF Alike
<1>6. Congruent(ValuesOf(s), v)
  BY <1>5 DEF Congruent
<1>7. IsVector(ValuesOf(s))
  BY <1>5, ThreeIndices DEF IsVector
<1>8. \A w : IsVector(w) /\ Congruent(v, w) => StandsFor(s, w)
  BY DEF StandsFor, Congruent
<1>9. StandsFor(s, ValuesOf(s))
  BY <1>6, <1>7, <1>8, VectorsAlike
<1>. QED
  BY <1>4, <1>6, <1>8, <1>9

-----------------------------------------------------------------------------
(* Rounds. *)

Fifths(v) == [i \in 1..T |-> Fifth(v[i])]

FirstFifth(v) == [i \in 1..T |-> IF i = 1 THEN Fifth(v[1]) ELSE v[i]]

\* The constants of the permutation are where the rounds look for them.
LEMMA ConstantFacts ==
  /\ C \in Seq(Field) /\ Len(C) = (HalfF + 1) * T + Partial + (HalfF - 1) * T /\ HalfF \in Nat \ {0} /\ Partial \in Nat
  /\ \A i \in 1..Len(C) : C[i] \in Field
  /\ \A i \in 1..Len(S) : S[i] \in Field
  /\ M \in Matrices /\ P \in Matrices /\ IsMatrix(M) /\ IsMatrix(P)
  /\ \A t \in 1..Rounds : IsVector(RoundConstants[t])
  /\ \A r \in 1..(Partial + 1) : IsMatrix(Basis[r]) /\ IsVector(Offset[r])
<1>1. Field \subseteq Int
  BY SpanFacts
<1>2. \A v \in [1..T -> Field] : IsVector(v)
  BY <1>1, ThreeIndices DEF IsVector
<1>3. \A m \in Matrices : IsMatrix(m)
  BY <1>2, ThreeIndices DEF IsMatrix, Matrices
<1>4. (\A i \in 1..Len(C) : C[i] \in Field) /\ (\A i \in 1..Len(S) : S[i] \in Field)
  <2>1. C \in Seq(Field) /\ S \in Seq(Field)
    BY PoseidonConstants
  <2>. QED
    BY <2>1
<1>5. M \in Matrices /\ P \in Matrices /\ IsMatrix(M) /\ IsMatrix(P)
  BY <1>3, PoseidonConstants
<1>6. \A t \in 1..Rounds : IsVector(RoundConstants[t])
  <2>1. RoundConstants \in [1..Rounds -> [1..T -> Field]]
    BY PoseidonConstants
  <2>2. \A t \in 1..Rounds : RoundConstants[t] \in [1..T -> Field]
    BY <2>1
  <2>. QED
    BY <1>2, <2>2
<1>7. \A r \in 1..(Partial + 1) : IsMatrix(Basis[r]) /\ IsVector(Offset[r])
  <2>1. Basis \in [1..(Partial + 1) -> Matrices] /\ Offset \in [1..(Partial + 1) -> [1..T -> Field]]
    BY PoseidonConstants
  <2>2. \A r \in 1..(Partial + 1) : Basis[r] \in Matrices /\ Offset[r] \in [1..T -> Field]
    BY <2>1
  <2>. QED
    BY <1>2, <1>3, <2>2
<1>8. C \in Seq(Field) /\ Len(C) = (HalfF + 1) * T + Partial + (HalfF - 1) * T
  BY PoseidonConstants
<1>. QED
  BY <1>4, <1>5, <1>6, <1>7, <1>8, PoseidonAssumption

\* Adding constants to a state.
LEMMA AddedConstants ==
  ASSUME NEW s, NEW v, StandsFor(s, v), NEW first \in Nat, first + T <= Len(C)
  PROVE  /\ IsVector(ConstantsAt(first)) /\ IsVector(Plus(v, ConstantsAt(first)))
         /\ StandsFor(AddConstants(s, first), Plus(v, ConstantsAt(first)))
<1>. DEFINE c == ConstantsAt(first)
<1>1. \A i \in 1..T : first + i \in 1..Len(C) /\ C[first + i] \in Field /\ c[i] = C[first + i]
  <2>1. \A i \in 1..T : first + i \in 1..Len(C)
    BY ConstantFacts DEF T
  <2>2. \A i \in 1..T : c[i] = C[first + i]
    BY DEF ConstantsAt
  <2>. QED
    BY <2>1, <2>2, ConstantFacts
<1>. HIDE DEF c
<1>2. ASSUME NEW i \in 1..T PROVE Stands(Constant(first + i - 1), c[i]) /\ c[i] \in Int
  <2>1. first + i - 1 + 1 = first + i
    BY DEF T
  <2>2. Constant(first + i - 1) = LimbsOf(c[i]) /\ c[i] \in Field
    BY <1>1, <2>1 DEF Constant, Element
  <2>. QED
    BY <2>2, ConstantsStand, SpanFacts
<1>3. Stands(s[1], v[1]) /\ Stands(s[2], v[2]) /\ Stands(s[3], v[3])
  BY StatesStand
<1>4. \A i \in 1..T : Stands(s[i], v[i]) /\ v[i] \in Int
  BY <1>3, ThreeIndices DEF Stands
<1>5. \A i \in 1..T : Stands(Add(s[i], Constant(first + i - 1)), v[i] + c[i]) /\ v[i] + c[i] \in Int
  <2>. SUFFICES ASSUME NEW i \in 1..T
                PROVE  Stands(Add(s[i], Constant(first + i - 1)), v[i] + c[i]) /\ v[i] + c[i] \in Int
    OBVIOUS
  <2>. DEFINE e == s[i]  f == Constant(first + i - 1)  x == v[i]  y == c[i]
  <2>1. Stands(e, x) /\ Stands(f, y) /\ x \in Int /\ y \in Int
    BY <1>2, <1>4
  <2>. HIDE DEF e, f, x, y
  <2>. DEFINE w == x + y
  <2>2. w \in Int /\ w = x + y
    BY <2>1
  <2>. HIDE DEF w
  <2>3. Stands(Add(e, f), w)
    BY <2>1, <2>2, SumsStand
  <2>. QED
    BY <2>2, <2>3 DEF e, f, x, y, w
<1>. DEFINE u == Plus(v, c)  z == AddConstants(s, first)
<1>6. \A i \in 1..T : z[i] = Add(s[i], Constant(first + i - 1)) /\ u[i] = v[i] + c[i]
  BY DEF AddConstants, Plus
<1>7. z = [i \in 1..T |-> z[i]]
  BY DEF AddConstants
<1>. HIDE DEF u, z
<1>8. \A i \in 1..T : Stands(z[i], u[i]) /\ u[i] \in Int
  BY <1>5, <1>6
<1>9. StandsFor(z, u)
  BY <1>7, <1>8, ThreeIndices, StatesStand
<1>10. IsVector(c) /\ IsVector(u)
  BY <1>2, <1>8, ThreeIndices DEF IsVector
<1>. QED
  BY <1>9, <1>10 DEF u, z, c

\* Fifth powers of a state.
LEMMA FifthPowers ==
  ASSUME NEW s, NEW v, StandsFor(s, v)
  PROVE  IsVector(Fifths(v)) /\ StandsFor(Pow5All(s), Fifths(v))
<1>1. \A i \in 1..T : Stands(s[i], v[i])
  BY ThreeIndices, StatesStand
<1>2. \A i \in 1..T : Stands(Pow5(s[i]), Fifth(v[i]))
  BY <1>1, FifthsStand
<1>. DEFINE z == Pow5All(s)  u == Fifths(v)
<1>3. z = [i \in 1..T |-> z[i]] /\ \A i \in 1..T : z[i] = Pow5(s[i]) /\ u[i] = Fifth(v[i])
  BY DEF Pow5All, Fifths
<1>. HIDE DEF z, u
<1>4. Stands(z[1], u[1]) /\ Stands(z[2], u[2]) /\ Stands(z[3], u[3])
  BY <1>2, <1>3, ThreeIndices
<1>5. StandsFor(z, u)
  BY <1>3, <1>4, StatesStand
<1>. QED
  BY <1>5 DEF StandsFor, z, u

\* mds_mul
LEMMA MatrixProducts ==
  ASSUME NEW s, NEW v, StandsFor(s, v), NEW m \in Matrices
  PROVE  IsVector(Times(v, m)) /\ StandsFor(MdsMul(s, m), Times(v, m))
<1>. DEFINE z == MdsMul(s, m)  u == Times(v, m)
            term(j, i) == Mul(Element(m[j][i]), s[j])
<1>1. \A i \in 1..T : Stands(s[i], v[i]) /\ v[i] \in Int
  BY ThreeIndices, StatesStand DEF Stands
<1>2. ASSUME NEW i \in 1..T, NEW j \in 1..T
      PROVE  Stands(term(j, i), v[j] * m[j][i]) /\ v[j] * m[j][i] \in Int
  <2>. DEFINE c == m[j][i]  e == s[j]  x == v[j]
  <2>1. c \in Field
    BY DEF Matrices
  <2>2. Stands(LimbsOf(c), c) /\ Stands(e, x) /\ c \in Int /\ x \in Int
    BY <1>1, <2>1, ConstantsStand, SpanFacts
  <2>. HIDE DEF c, e, x
  <2>3. c * x = x * c /\ x * c \in Int
    BY <2>2
  <2>. DEFINE y == x * c
  <2>4. y = c * x
    BY <2>3
  <2>. HIDE DEF y
  <2>5. Stands(Mul(LimbsOf(c), e), y)
    BY <2>2, <2>4, ProductsStand
  <2>. QED
    BY <2>3, <2>5 DEF c, e, x, y, Element
<1>3. ASSUME NEW i \in 1..T PROVE Stands(z[i], u[i]) /\ u[i] \in Int
  <2>. DEFINE a == v[1] * m[1][i]  b == v[2] * m[2][i]  c == v[3] * m[3][i]
              ab == a + b  abc == ab + c
              e == term(1, i)  f == term(2, i)  g == term(3, i)
  <2>1. Stands(e, a) /\ Stands(f, b) /\ Stands(g, c) /\ a \in Int /\ b \in Int /\ c \in Int
    BY <1>2, ThreeIndices
  <2>2. z[i] = Add(Add(Add(Zero, e), f), g) /\ u[i] = abc
    BY DEF MdsMul, Times
  <2>. HIDE DEF a, b, c, e, f, g
  <2>3. a = 0 + a
    BY <2>1
  <2>4. Stands(Add(Zero, e), a)
    BY <2>1, <2>3, ConstantsStand, SumsStand
  <2>5. Stands(Add(Add(Zero, e), f), ab) /\ ab \in Int
    BY <2>1, <2>4, SumsStand
  <2>. HIDE DEF ab
  <2>6. Stands(Add(Add(Add(Zero, e), f), g), abc) /\ abc \in Int
    BY <2>1, <2>5, SumsStand
  <2>. QED
    BY <2>2, <2>6
<1>4. z = [i \in 1..T |-> z[i]]
  BY DEF MdsMul
<1>. HIDE DEF z, u
<1>5. StandsFor(z, u)
  BY <1>3, <1>4, ThreeIndices, StatesStand
<1>6. IsVector(u)
  BY <1>3, ThreeIndices DEF IsVector
<1>. QED
  BY <1>5, <1>6 DEF z, u

\* A full round: fifth powers, constants, a matrix.
LEMMA FullRoundValue ==
  ASSUME NEW s, NEW v, StandsFor(s, v), NEW first \in Nat, first + T <= Len(C), NEW m \in Matrices
  PROVE  /\ IsVector(Fifths(v)) /\ IsVector(ConstantsAt(first)) /\ IsVector(Plus(Fifths(v), ConstantsAt(first)))
         /\ StandsFor(FullRound(s, first, m), Times(Plus(Fifths(v), ConstantsAt(first)), m))
<1>1. IsVector(Fifths(v)) /\ StandsFor(Pow5All(s), Fifths(v))
  BY FifthPowers
<1>2. /\ IsVector(ConstantsAt(first)) /\ IsVector(Plus(Fifths(v), ConstantsAt(first)))
      /\ StandsFor(AddConstants(Pow5All(s), first), Plus(Fifths(v), ConstantsAt(first)))
  BY <1>1, AddedConstants
<1>3. StandsFor(MdsMul(AddConstants(Pow5All(s), first), m), Times(Plus(Fifths(v), ConstantsAt(first)), m))
  BY <1>2, MatrixProducts
<1>. QED
  BY <1>1, <1>2, <1>3 DEF FullRound

\* The state after partial round r + 1.
FirstAdded(s, r) == Add(Pow5(s[1]), Constant((HalfF + 1) * T + r))

PartialState(s, r) ==
  LET s0 == FirstAdded(s, r)
      base == (T * 2 - 1) * r
  IN  <<Add(Add(Mul(s0, Sparse(base)), Mul(s[2], Sparse(base + 1))), Mul(s[3], Sparse(base + 2))),
        Add(s[2], Mul(s0, Sparse(base + 3))), Add(s[3], Mul(s0, Sparse(base + 4)))>>

FirstConstant(r) == <<SparseConstant(r), 0, 0>>

\* The constants of a partial round.
LEMMA SparseFacts ==
  ASSUME NEW r \in 0..(Partial - 1)
  PROVE  /\ SparseConstant(r + 1) \in Field /\ Constant((HalfF + 1) * T + r) = LimbsOf(SparseConstant(r + 1))
         /\ \A i \in 1..5 : /\ S[(T * 2 - 1) * r + i] \in Field
                            /\ Sparse((T * 2 - 1) * r + (i - 1)) = LimbsOf(S[(T * 2 - 1) * r + i])
         /\ SparseMatrix(r + 1) =
              <<<<S[(T * 2 - 1) * r + 1], S[(T * 2 - 1) * r + 4], S[(T * 2 - 1) * r + 5]>>,
                <<S[(T * 2 - 1) * r + 2], 1, 0>>, <<S[(T * 2 - 1) * r + 3], 0, 1>>>>
         /\ IsMatrix(SparseMatrix(r + 1)) /\ IsVector(FirstConstant(r + 1))
<1>. DEFINE n == (T * 2 - 1) * r
<1>1. n \in Nat /\ n + 5 <= Len(S)
  <2>1. Partial \in Nat /\ Len(S) = (2 * T - 1) * Partial
    BY PoseidonAssumption, PoseidonConstants
  <2>. QED
    BY <2>1 DEF T
<1>2. (HalfF + 1) * T + (r + 1) \in 1..Len(C) /\ (HalfF + 1) * T + r + 1 = (HalfF + 1) * T + (r + 1)
  BY ConstantFacts DEF T
<1>3. SparseConstant(r + 1) \in Field /\ Constant((HalfF + 1) * T + r) = LimbsOf(SparseConstant(r + 1))
  <2>1. C[(HalfF + 1) * T + (r + 1)] \in Field
    BY <1>2, ConstantFacts
  <2>. QED
    BY <1>2, <2>1 DEF SparseConstant, Constant, Element
<1>4. \A i \in 1..5 : S[n + i] \in Field /\ Sparse(n + (i - 1)) = LimbsOf(S[n + i])
  <2>. SUFFICES ASSUME NEW i \in 1..5 PROVE S[n + i] \in Field /\ Sparse(n + (i - 1)) = LimbsOf(S[n + i])
    OBVIOUS
  <2>1. n + i \in 1..Len(S) /\ (n + (i - 1)) + 1 = n + i
    <3>. HIDE DEF n
    <3>. QED
      BY <1>1, PoseidonConstants
  <2>. HIDE DEF n
  <2>. QED
    BY <2>1, ConstantFacts DEF Sparse, Element
<1>5. SparseMatrix(r + 1) = <<<<S[n + 1], S[n + 4], S[n + 5]>>, <<S[n + 2], 1, 0>>, <<S[n + 3], 0, 1>>>>
  <2>1. (2 * T - 1) * ((r + 1) - 1) = n
    BY DEF T
  <2>. HIDE DEF n
  <2>. QED
    BY <2>1 DEF SparseMatrix
<1>6. IsMatrix(SparseMatrix(r + 1))
  <2>1. /\ S[n + 1] \in Int /\ S[n + 2] \in Int /\ S[n + 3] \in Int /\ S[n + 4] \in Int /\ S[n + 5] \in Int
    <3>. HIDE DEF n
    <3>1. \A i \in 1..5 : S[n + i] \in Int
      BY <1>4, SpanFacts
    <3>2. 1 \in 1..5 /\ 2 \in 1..5 /\ 3 \in 1..5 /\ 4 \in 1..5 /\ 5 \in 1..5
      OBVIOUS
    <3>. QED
      BY <3>1, <3>2
  <2>. DEFINE a == S[n + 1]  b == S[n + 2]  c == S[n + 3]  d == S[n + 4]  e == S[n + 5]
  <2>2. SparseMatrix(r + 1) = <<<<a, d, e>>, <<b, 1, 0>>, <<c, 0, 1>>>>
    BY <1>5
  <2>3. a \in Int /\ b \in Int /\ c \in Int /\ d \in Int /\ e \in Int
    BY <2>1
  <2>. HIDE DEF a, b, c, d, e
  <2>. QED
    BY <2>2, <2>3 DEF IsMatrix, IsVector
<1>7. IsVector(FirstConstant(r + 1))
  BY <1>3, SpanFacts DEF IsVector, FirstConstant
<1>. QED
  BY <1>3, <1>4, <1>5, <1>6, <1>7

\* A partial round: one fifth power, one constant, a sparse matrix.
LEMMA PartialRoundValue ==
  ASSUME NEW s, NEW v, StandsFor(s, v), NEW r \in 0..(Partial - 1)
  PROVE  /\ IsVector(FirstFifth(v)) /\ IsVector(Plus(FirstFifth(v), FirstConstant(r + 1)))
         /\ StandsFor(PartialState(s, r), Times(Plus(FirstFifth(v), FirstConstant(r + 1)), SparseMatrix(r + 1)))
<1>. DEFINE n == (T * 2 - 1) * r
            k == SparseConstant(r + 1)
            c1 == S[n + 1]  c2 == S[n + 2]  c3 == S[n + 3]  c4 == S[n + 4]  c5 == S[n + 5]
            s0 == FirstAdded(s, r)  s2 == s[2]  s3 == s[3]
            f == Fifth(v[1])  x == f + k  y == v[2]  z == v[3]
            u == Plus(FirstFifth(v), FirstConstant(r + 1))
            m == SparseMatrix(r + 1)
            e0 == Sparse(n)  e1 == Sparse(n + 1)  e2 == Sparse(n + 2)  e3 == Sparse(n + 3)  e4 == Sparse(n + 4)
<1>1. Stands(s[1], v[1]) /\ Stands(s2, y) /\ Stands(s3, z) /\ y \in Int /\ z \in Int
  BY StatesStand DEF Stands
<1>2. Stands(Pow5(s[1]), f) /\ f \in Int
  BY <1>1, FifthsStand DEF Stands
<1>3. Stands(Constant((HalfF + 1) * T + r), k) /\ k \in Int
  BY SparseFacts, ConstantsStand, SpanFacts
<1>4. Stands(s0, x) /\ x \in Int
  <2>. HIDE DEF f, k
  <2>1. x \in Int
    BY <1>2, <1>3
  <2>2. Stands(Add(Pow5(s[1]), Constant((HalfF + 1) * T + r)), x)
    BY <1>2, <1>3, SumsStand
  <2>. QED
    BY <2>1, <2>2 DEF FirstAdded
<1>5. /\ Stands(e0, c1) /\ Stands(e1, c2) /\ Stands(e2, c3) /\ Stands(e3, c4) /\ Stands(e4, c5)
      /\ c1 \in Int /\ c2 \in Int /\ c3 \in Int /\ c4 \in Int /\ c5 \in Int
  <2>1. \A i \in 1..5 : S[n + i] \in Field /\ Sparse(n + (i - 1)) = LimbsOf(S[n + i])
    BY SparseFacts
  <2>2. n \in Int
    BY PoseidonAssumption DEF T
  <2>. HIDE DEF n
  <2>3. \A i \in 1..5 : Stands(Sparse(n + (i - 1)), S[n + i]) /\ S[n + i] \in Int
    BY <2>1, ConstantsStand, SpanFacts
  <2>4. n + (1 - 1) = n /\ n + (2 - 1) = n + 1 /\ n + (3 - 1) = n + 2 /\ n + (4 - 1) = n + 3 /\ n + (5 - 1) = n + 4
    BY <2>2
  <2>. QED
    BY <2>3, <2>4
<1>6. IsVector(FirstFifth(v)) /\ FirstFifth(v)[1] = f /\ FirstFifth(v)[2] = y /\ FirstFifth(v)[3] = z
  BY <1>1, <1>2, ThreeIndices DEF FirstFifth, IsVector
<1>7. FirstConstant(r + 1)[1] = k /\ FirstConstant(r + 1)[2] = 0 /\ FirstConstant(r + 1)[3] = 0
  BY DEF FirstConstant
<1>8. IsVector(u) /\ u[1] = x /\ u[2] = y /\ u[3] = z
  <2>1. u[1] = f + k /\ u[2] = y + 0 /\ u[3] = z + 0
    BY <1>6, <1>7, PlusRows
  <2>. HIDE DEF u, f, k, y, z
  <2>. QED
    BY <1>1, <1>2, <1>3, <2>1 DEF IsVector
<1>9. m = <<<<c1, c4, c5>>, <<c2, 1, 0>>, <<c3, 0, 1>>>>
  BY SparseFacts
<1>. HIDE DEF u, x, y, z, m, c1, c2, c3, c4, c5, e0, e1, e2, e3, e4, s0, s2, s3
<1>10. /\ Times(u, m)[1] = x * c1 + y * c2 + z * c3
       /\ Times(u, m)[2] = x * c4 + y * 1 + z * 0
       /\ Times(u, m)[3] = x * c5 + y * 0 + z * 1
  <2>1. /\ m[1][1] = c1 /\ m[1][2] = c4 /\ m[1][3] = c5 /\ m[2][1] = c2 /\ m[2][2] = 1 /\ m[2][3] = 0
        /\ m[3][1] = c3 /\ m[3][2] = 0 /\ m[3][3] = 1
    BY <1>9
  <2>. QED
    BY <1>8, <2>1, TimesRows DEF ThreeProducts
<1>. DEFINE p1 == x * c1  p2 == y * c2  p3 == z * c3  p4 == x * c4  p5 == x * c5
            p12 == p1 + p2  q1 == p12 + p3  q2 == y + p4  q3 == z + p5
            f1 == Mul(s0, e0)  f2 == Mul(s2, e1)  f3 == Mul(s3, e2)  f4 == Mul(s0, e3)  f5 == Mul(s0, e4)
<1>11. Times(u, m)[1] = q1 /\ Times(u, m)[2] = q2 /\ Times(u, m)[3] = q3
  BY <1>1, <1>4, <1>5, <1>10
<1>12. Stands(f1, p1) /\ Stands(f2, p2) /\ Stands(f3, p3) /\ Stands(f4, p4) /\ Stands(f5, p5)
  BY <1>1, <1>4, <1>5, ProductsStand
<1>. HIDE DEF p1, p2, p3, p4, p5, f1, f2, f3, f4, f5
<1>13. Stands(Add(f1, f2), p12)
  BY <1>12, SumsStand
<1>. HIDE DEF p12
<1>14. Stands(Add(Add(f1, f2), f3), q1) /\ Stands(Add(s2, f4), q2) /\ Stands(Add(s3, f5), q3)
  BY <1>1, <1>12, <1>13, SumsStand
<1>15. PartialState(s, r) = <<Add(Add(f1, f2), f3), Add(s2, f4), Add(s3, f5)>>
  BY DEF PartialState, f1, f2, f3, f4, f5, s0, s2, s3, e0, e1, e2, e3, e4
<1>. HIDE DEF q1, q2, q3
<1>. DEFINE g1 == Add(Add(f1, f2), f3)  g2 == Add(s2, f4)  g3 == Add(s3, f5)  g == PartialState(s, r)
<1>16. Stands(g1, q1) /\ Stands(g2, q2) /\ Stands(g3, q3) /\ g = <<g1, g2, g3>>
  BY <1>14, <1>15
<1>. HIDE DEF g1, g2, g3, g
<1>17. g = [i \in 1..T |-> g[i]] /\ g[1] = g1 /\ g[2] = g2 /\ g[3] = g3
  BY <1>16, ThreeIndices
<1>18. StandsFor(g, Times(u, m))
  BY <1>11, <1>16, <1>17, StatesStand
<1>. QED
  BY <1>6, <1>8, <1>18 DEF g, u, m

-----------------------------------------------------------------------------
(* The textbook. *)

\* Fifth powers of congruent vectors are congruent.
LEMMA FifthsAlike ==
  ASSUME NEW v, NEW w, IsVector(v), IsVector(w), Congruent(v, w)
  PROVE  /\ IsVector(Fifths(v)) /\ IsVector(Fifths(w)) /\ Congruent(Fifths(v), Fifths(w))
         /\ IsVector(FirstFifth(v)) /\ IsVector(FirstFifth(w)) /\ Congruent(FirstFifth(v), FirstFifth(w))
<1>1. \A i \in 1..T : v[i] \in Int /\ w[i] \in Int /\ Alike(v[i], w[i])
  BY Congruences, ThreeIndices DEF IsVector
<1>2. \A i \in 1..T : Fifth(v[i]) \in Int /\ Fifth(w[i]) \in Int /\ Alike(Fifth(v[i]), Fifth(w[i]))
  BY <1>1, FifthAlike
<1>3. \A i \in 1..T : Fifths(v)[i] = Fifth(v[i]) /\ Fifths(w)[i] = Fifth(w[i])
  BY DEF Fifths
<1>4. /\ FirstFifth(v)[1] = Fifth(v[1]) /\ FirstFifth(v)[2] = v[2] /\ FirstFifth(v)[3] = v[3]
      /\ FirstFifth(w)[1] = Fifth(w[1]) /\ FirstFifth(w)[2] = w[2] /\ FirstFifth(w)[3] = w[3]
  BY ThreeIndices DEF FirstFifth
<1>5. IsVector(Fifths(v)) /\ IsVector(Fifths(w)) /\ Congruent(Fifths(v), Fifths(w))
  BY <1>2, <1>3, ThreeIndices, Congruences DEF IsVector
<1>6. IsVector(FirstFifth(v)) /\ IsVector(FirstFifth(w)) /\ Congruent(FirstFifth(v), FirstFifth(w))
  BY <1>1, <1>2, <1>4, ThreeIndices, Congruences DEF IsVector
<1>. QED
  BY <1>5, <1>6

IsFull(t) == t <= HalfF \/ t > HalfF + Partial

Powers(v, t) == IF IsFull(t) THEN Fifths(v) ELSE FirstFifth(v)

\* A textbook round: constants, fifth powers, the matrix.
LEMMA TextbookRounds ==
  ASSUME NEW v \in [1..T -> Field], NEW t \in 1..Rounds
  PROVE  /\ TextbookRound(v, t) \in [1..T -> Field]
         /\ IsVector(v) /\ IsVector(Plus(v, RoundConstants[t])) /\ IsVector(Powers(Plus(v, RoundConstants[t]), t))
         /\ Congruent(TextbookRound(v, t), Times(Powers(Plus(v, RoundConstants[t]), t), M))
<1>. DEFINE c == RoundConstants[t]
            u == Plus(v, c)
            x == [i \in 1..T |-> (v[i] + c[i]) % Modulus]
            y == Powered(x, t)
            z == Powers(u, t)
<1>1. IsVector(v) /\ IsVector(c)
  BY ConstantFacts, SpanFacts, ThreeIndices DEF IsVector
<1>2. IsVector(u)
  BY <1>1, VectorsAlike, PlusAlike
<1>3. \A i \in 1..T : x[i] = u[i] % Modulus
  BY DEF Plus
<1>4. \A i \in 1..T : y[i] = IF i = 1 \/ IsFull(t) THEN Fifth(x[i]) % Modulus ELSE x[i]
  BY DEF Powered, IsFull
<1>5. TextbookRound(v, t) = [i \in 1..T |-> Times(y, M)[i] % Modulus]
  BY DEF TextbookRound
<1>. HIDE DEF c, u, x, y
<1>6. \A i \in 1..T : u[i] \in Int /\ x[i] \in Int /\ Alike(x[i], u[i])
  BY <1>2, <1>3, AlikeFacts, ThreeIndices DEF IsVector
<1>7. \A i \in 1..T : Fifth(x[i]) \in Int /\ Fifth(u[i]) \in Int /\ Alike(Fifth(x[i]), Fifth(u[i]))
  BY <1>6, FifthAlike
<1>8. \A i \in 1..T : Fifth(x[i]) % Modulus \in Int /\ Alike(Fifth(x[i]) % Modulus, Fifth(u[i]))
  BY <1>7, AlikeFacts DEF Alike
<1>9. \A i \in 1..T : z[i] = IF i = 1 \/ IsFull(t) THEN Fifth(u[i]) ELSE u[i]
  BY DEF Powers, Fifths, FirstFifth
<1>. HIDE DEF z
<1>10. \A i \in 1..T : y[i] \in Int /\ z[i] \in Int /\ Alike(y[i], z[i])
  BY <1>4, <1>6, <1>7, <1>8, <1>9
<1>11. IsVector(y) /\ IsVector(z) /\ Congruent(y, z)
  BY <1>10, ThreeIndices, Congruences DEF IsVector
<1>12. IsVector(Times(y, M)) /\ Congruent(Times(y, M), Times(z, M))
  BY <1>11, ConstantFacts, TimesAlike
<1>. DEFINE p == Times(y, M)  q == Times(z, M)  w == TextbookRound(v, t)
<1>13. IsVector(p) /\ Congruent(p, q) /\ w = [i \in 1..T |-> p[i] % Modulus]
  BY <1>5, <1>12
<1>. HIDE DEF p, q, w
<1>14. \A i \in 1..T : p[i] \in Int /\ p[i] % Modulus \in Field /\ Alike(p[i] % Modulus, p[i])
  BY <1>13, AlikeFacts, ThreeIndices DEF IsVector
<1>15. w \in [1..T -> Field] /\ Congruent(w, p)
  BY <1>13, <1>14 DEF Congruent, Alike
<1>16. Congruent(w, q)
  BY <1>13, <1>15, VectorsAlike
<1>. QED
  BY <1>1, <1>2, <1>11, <1>15, <1>16 DEF c, u, z, q, w

\* The textbook, round by round.
LEMMA TextbookStates ==
  ASSUME NEW a \in Field, NEW b \in Field
  PROVE  /\ TextbookState(a, b, 0) = <<0, a, b>>
         /\ \A t \in 0..Rounds : TextbookState(a, b, t) \in [1..T -> Field]
         /\ \A t \in 1..Rounds : TextbookState(a, b, t) = TextbookRound(TextbookState(a, b, t - 1), t)
<1>. DEFINE V == [1..T -> Field]
            first == <<0, a, b>>
            step == [n \in 0..(Rounds - 1) |-> [v \in V |-> TextbookRound(v, n + 1)]]
            Is(f) == f = [k \in 0..Rounds |-> IF k = 0 THEN first ELSE TextbookRound(f[k - 1], k)]
            after == CHOOSE f : Is(f)
<1>1. Rounds \in Nat /\ Rounds \in Int
  BY PoseidonAssumption DEF Rounds
<1>2. first \in V /\ step \in [0..(Rounds - 1) -> [V -> V]]
  <2>1. first \in V
    BY SpanFacts, ThreeIndices
  <2>2. \A n \in 0..(Rounds - 1) : n + 1 \in 1..Rounds
    BY <1>1
  <2>3. \A n \in 0..(Rounds - 1), v \in V : TextbookRound(v, n + 1) \in V
    BY <2>2, TextbookRounds
  <2>. HIDE DEF V
  <2>. QED
    BY <2>1, <2>3
<1>3. PICK g : Iterates(g, 0..Rounds, V, first, step)
  <2>. HIDE DEF V, first, step
  <2>. QED
    BY <1>1, <1>2, RangeRecursion
<1>4. g \in [0..Rounds -> V] /\ g[0] = first
  <2>. HIDE DEF V, first, step
  <2>. QED
    BY <1>3 DEF Iterates
<1>5. ASSUME NEW k \in 0..Rounds, k # 0 PROVE g[k] = TextbookRound(g[k - 1], k)
  <2>1. k - 1 \in 0..Rounds /\ k - 1 \in 0..(Rounds - 1) /\ (k - 1) + 1 = k
    BY <1>1, <1>5
  <2>2. g[(k - 1) + 1] = step[k - 1][g[k - 1]] /\ g[k - 1] \in V
    <3>. HIDE DEF V, first, step
    <3>. QED
      BY <1>3, <1>4, <2>1 DEF Iterates
  <2>. HIDE DEF V
  <2>. QED
    BY <2>1, <2>2
<1>6. Is(g)
  <2>. HIDE DEF V, first
  <2>. QED
    BY <1>4, <1>5
<1>7. Is(after)
  <2>1. \E f : Is(f)
    BY <1>6
  <2>. HIDE DEF Is
  <2>. QED
    BY <2>1
<1>8. \A t : TextbookState(a, b, t) = after[t]
  BY DEF TextbookState
<1>. HIDE DEF after
<1>9. 0 \in 0..Rounds /\ 1..Rounds \subseteq 0..Rounds /\ \A t \in 1..Rounds : t # 0 /\ t - 1 \in 0..Rounds
  BY <1>1
<1>10. /\ after[0] = first
       /\ \A t \in 1..Rounds : after[t] = TextbookRound(after[t - 1], t)
  <2>. HIDE DEF first
  <2>. QED
    BY <1>7, <1>9
<1>11. \A t \in 0..Rounds : after[t] \in V
  <2>. DEFINE W == {t \in 0..Rounds : after[t] \in V}
  <2>1. 0 \in W
    BY <1>2, <1>9, <1>10
  <2>2. ASSUME NEW t \in 0..(Rounds - 1), t \in W PROVE t + 1 \in W
    <3>1. t + 1 \in 1..Rounds /\ (t + 1) - 1 = t /\ t + 1 \in 0..Rounds
      BY <1>1
    <3>2. after[t + 1] = TextbookRound(after[t], t + 1)
      BY <1>10, <3>1
    <3>3. after[t] \in V
      BY <2>2
    <3>4. TextbookRound(after[t], t + 1) \in V
      BY <3>1, <3>3, TextbookRounds
    <3>. QED
      BY <3>1, <3>2, <3>4
  <2>. HIDE DEF W
  <2>3. 0..Rounds \subseteq W
    BY <1>1, <2>1, <2>2, RangeInduction
  <2>. QED
    BY <2>3 DEF W
<1>. QED
  BY <1>8, <1>10, <1>11

\* Products and sums of integers are integers.
LEMMA StayVectors ==
  /\ \A v, m : IsVector(v) /\ IsMatrix(m) => IsVector(Times(v, m))
  /\ \A v, w : IsVector(v) /\ IsVector(w) => IsVector(Plus(v, w))
<1>1. ASSUME NEW v, NEW m, IsVector(v), IsMatrix(m) PROVE IsVector(Times(v, m))
  <2>1. Congruent(v, v)
    BY VectorsAlike
  <2>. QED
    BY <1>1, <2>1, TimesAlike
<1>2. ASSUME NEW v, NEW w, IsVector(v), IsVector(w) PROVE IsVector(Plus(v, w))
  <2>1. Congruent(v, v) /\ Congruent(w, w)
    BY VectorsAlike
  <2>. QED
    BY <1>2, <2>1, PlusAlike
<1>. QED
  BY <1>1, <1>2

\* Plus is associative.
LEMMA PlusInAnyOrder ==
  ASSUME NEW u, NEW v, NEW w, IsVector(u), IsVector(v), IsVector(w)
  PROVE  Congruent(Plus(Plus(u, v), w), Plus(u, Plus(v, w)))
<1>1. /\ Plus(Plus(u, v), w)[1] = Plus(u, v)[1] + w[1] /\ Plus(Plus(u, v), w)[2] = Plus(u, v)[2] + w[2]
      /\ Plus(Plus(u, v), w)[3] = Plus(u, v)[3] + w[3]
  BY PlusRows
<1>2. /\ Plus(u, Plus(v, w))[1] = u[1] + Plus(v, w)[1] /\ Plus(u, Plus(v, w))[2] = u[2] + Plus(v, w)[2]
      /\ Plus(u, Plus(v, w))[3] = u[3] + Plus(v, w)[3]
  BY PlusRows
<1>3. /\ Plus(u, v)[1] = u[1] + v[1] /\ Plus(u, v)[2] = u[2] + v[2] /\ Plus(u, v)[3] = u[3] + v[3]
      /\ Plus(v, w)[1] = v[1] + w[1] /\ Plus(v, w)[2] = v[2] + w[2] /\ Plus(v, w)[3] = v[3] + w[3]
  BY PlusRows
<1>4. /\ Plus(Plus(u, v), w)[1] = Plus(u, Plus(v, w))[1] /\ Plus(Plus(u, v), w)[2] = Plus(u, Plus(v, w))[2]
      /\ Plus(Plus(u, v), w)[3] = Plus(u, Plus(v, w))[3]
  BY <1>1, <1>2, <1>3 DEF IsVector
<1>. QED
  BY <1>4, Congruences DEF Alike

\* Constants that are added before a matrix, and an offset after two of them.
LEMMA ConstantsMoved ==
  ASSUME NEW f, NEW c, NEW p, NEW q, NEW m, NEW o, NEW k,
         IsVector(f), IsVector(c), IsMatrix(p), IsMatrix(q), IsMatrix(m), IsVector(o), IsVector(k),
         Congruent(Times(p[1], q), m[1]), Congruent(Times(p[2], q), m[2]), Congruent(Times(p[3], q), m[3]),
         Congruent(Plus(Times(Times(c, p), q), o), k)
  PROVE  /\ IsVector(Times(f, m)) /\ IsVector(Plus(f, c)) /\ IsVector(Times(Plus(f, c), p))
         /\ Congruent(Plus(Times(Times(Plus(f, c), p), q), o), Plus(Times(f, m), k))
<1>. DEFINE fc == Plus(f, c)  fcp == Times(fc, p)  fp == Times(f, p)  cp == Times(c, p)  fpcp == Plus(fp, cp)
            fcpq == Times(fcp, q)  fpq == Times(fp, q)  cpq == Times(cp, q)  sum == Plus(fpq, cpq)
            fm == Times(f, m)  cpqo == Plus(cpq, o)
<1>1. IsVector(fc)
  BY StayVectors
<1>2. IsVector(fp) /\ IsVector(cp) /\ IsVector(fm)
  BY StayVectors
<1>3. IsVector(fcp)
  BY <1>1, StayVectors
<1>4. Congruent(fcp, fpcp)
  BY TimesOfPlus
<1>5. Congruent(fpq, fm)
  BY TimesOfTimes
<1>. HIDE DEF fc, fcp, fp, cp, fm
<1>6. IsVector(fpcp) /\ IsVector(fpq) /\ IsVector(cpq)
  BY <1>2, StayVectors
<1>7. IsVector(fcpq) /\ IsVector(Times(fpcp, q)) /\ Congruent(fcpq, Times(fpcp, q))
  BY <1>3, <1>4, <1>6, TimesAlike
<1>8. Congruent(Times(fpcp, q), sum)
  BY <1>2, TimesOfPlus
<1>. HIDE DEF fpcp, fcpq, fpq, cpq
<1>9. IsVector(sum) /\ Congruent(fcpq, sum)
  BY <1>6, <1>7, <1>8, VectorsAlike, PlusAlike
<1>. HIDE DEF sum
<1>10. Congruent(Plus(fcpq, o), Plus(sum, o))
  BY <1>7, <1>9, VectorsAlike, PlusAlike
<1>11. Congruent(Plus(sum, o), Plus(fpq, cpqo))
  BY <1>6, PlusInAnyOrder DEF sum
<1>12. IsVector(cpqo) /\ Congruent(cpqo, k)
  <2>1. Congruent(cpqo, k)
    BY DEF cpqo, cpq, cp
  <2>2. IsVector(cpqo)
    BY <1>6, StayVectors
  <2>. QED
    BY <2>1, <2>2
<1>. HIDE DEF cpqo
<1>13. Congruent(Plus(fpq, cpqo), Plus(fm, k))
  BY <1>2, <1>5, <1>6, <1>12, PlusAlike
<1>14. Congruent(Plus(fcpq, o), Plus(fm, k))
  BY <1>10, <1>11, <1>13, VectorsAlike
<1>. QED
  BY <1>1, <1>2, <1>3, <1>14 DEF fc, fcp, fcpq, fm

\* What the textbook applies round t + 1 to.
Shifted(a, b, t) == Plus(TextbookState(a, b, t), RoundConstants[t + 1])

\* What a state stands for before partial round r.
Unmixed(v, r) == Plus(Times(v, Basis[r]), Offset[r])

\* A textbook round, its constants added.
LEMMA NextStates ==
  ASSUME NEW a \in Field, NEW b \in Field, NEW t \in 0..(Rounds - 1)
  PROVE  /\ IsVector(RoundConstants[t + 1]) /\ IsVector(Shifted(a, b, t)) /\ IsVector(TextbookState(a, b, t + 1))
         /\ IsVector(Powers(Shifted(a, b, t), t + 1))
         /\ Congruent(TextbookState(a, b, t + 1), Times(Powers(Shifted(a, b, t), t + 1), M))
<1>1. Rounds \in Nat
  BY PoseidonAssumption DEF Rounds
<1>2. t + 1 \in 1..Rounds /\ (t + 1) - 1 = t /\ t \in 0..Rounds /\ t + 1 \in 0..Rounds
  BY <1>1
<1>. DEFINE x == TextbookState(a, b, t)  y == TextbookState(a, b, t + 1)
<1>3. x \in [1..T -> Field] /\ y \in [1..T -> Field] /\ y = TextbookRound(x, t + 1)
  BY <1>2, TextbookStates
<1>4. IsVector(y)
  BY <1>3, SpanFacts, ThreeIndices DEF IsVector
<1>5. IsVector(RoundConstants[t + 1])
  BY <1>2, ConstantFacts
<1>6. Shifted(a, b, t) = Plus(x, RoundConstants[t + 1])
  BY DEF Shifted
<1>. HIDE DEF x, y
<1>7. /\ IsVector(Plus(x, RoundConstants[t + 1])) /\ IsVector(Powers(Plus(x, RoundConstants[t + 1]), t + 1))
      /\ Congruent(y, Times(Powers(Plus(x, RoundConstants[t + 1]), t + 1), M))
  BY <1>2, <1>3, TextbookRounds
<1>. QED
  BY <1>4, <1>5, <1>6, <1>7 DEF y

\* A full round, with constants c before matrix p, that leaves what is to be
\* multiplied by q and offset by o.
LEMMA AfterFullRound ==
  ASSUME NEW a \in Field, NEW b \in Field, NEW t \in 0..(Rounds - 2), IsFull(t + 1),
         NEW v, IsVector(v), Congruent(v, Shifted(a, b, t)),
         NEW c, NEW p, NEW q, NEW o, IsVector(c), IsMatrix(p), IsMatrix(q), IsVector(o),
         Congruent(Times(p[1], q), M[1]), Congruent(Times(p[2], q), M[2]), Congruent(Times(p[3], q), M[3]),
         Congruent(Plus(Times(Times(c, p), q), o), RoundConstants[t + 2])
  PROVE  Congruent(Plus(Times(Times(Plus(Fifths(v), c), p), q), o), Shifted(a, b, t + 1))
<1>. DEFINE f == Fifths(v)  s == Shifted(a, b, t)  k == RoundConstants[t + 2]  x == TextbookState(a, b, t + 1)
<1>1. t \in 0..(Rounds - 1) /\ t + 1 \in 0..(Rounds - 1) /\ (t + 1) + 1 = t + 2
  BY PoseidonAssumption DEF Rounds
<1>2. /\ IsVector(s) /\ IsVector(x) /\ IsVector(Powers(s, t + 1)) /\ Congruent(x, Times(Powers(s, t + 1), M))
  BY <1>1, NextStates
<1>3. IsVector(k)
  BY <1>1, NextStates
<1>4. Shifted(a, b, t + 1) = Plus(x, k) /\ Powers(s, t + 1) = Fifths(s)
  BY <1>1 DEF Shifted, Powers
<1>. HIDE DEF s, k, x
<1>5. IsVector(f) /\ IsVector(Fifths(s)) /\ Congruent(f, Fifths(s))
  BY <1>2, FifthsAlike DEF s
<1>. HIDE DEF f
<1>6. IsMatrix(M)
  BY ConstantFacts
<1>7. IsVector(Times(f, M)) /\ Congruent(Times(f, M), Times(Fifths(s), M))
  BY <1>5, <1>6, TimesAlike
<1>8. Congruent(Times(f, M), x)
  BY <1>2, <1>4, <1>7, VectorsAlike
<1>9. Congruent(Plus(Times(f, M), k), Plus(x, k))
  BY <1>2, <1>3, <1>7, <1>8, VectorsAlike, PlusAlike
<1>10. Congruent(Plus(Times(Times(Plus(f, c), p), q), o), Plus(Times(f, M), k))
  BY <1>3, <1>5, <1>6, ConstantsMoved DEF k
<1>11. Congruent(Plus(Times(Times(Plus(f, c), p), q), o), Plus(x, k))
  BY <1>9, <1>10, VectorsAlike
<1>. QED
  BY <1>4, <1>11 DEF f

\* After the last partial round a state stands for itself.
LEMMA LastBasis ==
  ASSUME NEW v, IsVector(v)
  PROVE  /\ IsVector(Times(v, Basis[Partial + 1])) /\ Congruent(Times(v, Basis[Partial + 1]), v)
         /\ IsVector(Unmixed(v, Partial + 1)) /\ Congruent(Unmixed(v, Partial + 1), v)
         /\ IsMatrix(Basis[Partial + 1]) /\ IsVector(Offset[Partial + 1])
<1>. DEFINE q == Basis[Partial + 1]  o == Offset[Partial + 1]  w == Times(v, q)
<1>1. q = <<<<1, 0, 0>>, <<0, 1, 0>>, <<0, 0, 1>>>> /\ o = <<0, 0, 0>>
  BY PoseidonDerivation DEF ChangesOfBasis
<1>2. v[1] \in Int /\ v[2] \in Int /\ v[3] \in Int
  BY DEF IsVector
<1>. HIDE DEF q, o
<1>3. IsMatrix(q) /\ IsVector(o)
  BY <1>1 DEF IsMatrix, IsVector
<1>4. w[1] = v[1] /\ w[2] = v[2] /\ w[3] = v[3]
  <2>1. /\ w[1] = v[1] * 1 + v[2] * 0 + v[3] * 0 /\ w[2] = v[1] * 0 + v[2] * 1 + v[3] * 0
        /\ w[3] = v[1] * 0 + v[2] * 0 + v[3] * 1
    BY <1>1, TimesRows DEF ThreeProducts
  <2>. QED
    BY <1>2, <2>1
<1>5. IsVector(w) /\ Congruent(w, v)
  BY <1>2, <1>4, Congruences DEF IsVector, Alike
<1>. HIDE DEF w
<1>6. Plus(w, o)[1] = w[1] + 0 /\ Plus(w, o)[2] = w[2] + 0 /\ Plus(w, o)[3] = w[3] + 0
  BY <1>1, PlusRows
<1>7. Plus(w, o)[1] = v[1] /\ Plus(w, o)[2] = v[2] /\ Plus(w, o)[3] = v[3]
  BY <1>2, <1>4, <1>6
<1>8. IsVector(Plus(w, o)) /\ Congruent(Plus(w, o), v)
  BY <1>2, <1>7, Congruences DEF IsVector, Alike
<1>. QED
  BY <1>3, <1>5, <1>8 DEF Unmixed, w, q, o

\* A full round whose matrix is the textbook's.
LEMMA FullStep ==
  ASSUME NEW a \in Field, NEW b \in Field, NEW t \in 0..(Rounds - 2), IsFull(t + 1),
         NEW v, IsVector(v), Congruent(v, Shifted(a, b, t)),
         NEW c, IsVector(c), Congruent(Times(c, M), RoundConstants[t + 2])
  PROVE  Congruent(Times(Plus(Fifths(v), c), M), Shifted(a, b, t + 1))
<1>. DEFINE q == Basis[Partial + 1]  o == Offset[Partial + 1]  w == Times(Plus(Fifths(v), c), M)  d == Times(c, M)
<1>1. IsMatrix(M) /\ IsVector(M[1]) /\ IsVector(M[2]) /\ IsVector(M[3])
  BY ConstantFacts DEF IsMatrix
<1>2. IsVector(Fifths(v))
  BY VectorsAlike, FifthsAlike
<1>3. IsVector(Plus(Fifths(v), c))
  BY <1>2, StayVectors
<1>4. IsVector(w) /\ IsVector(d)
  BY <1>1, <1>3, StayVectors
<1>5. Congruent(Times(M[1], q), M[1]) /\ Congruent(Times(M[2], q), M[2]) /\ Congruent(Times(M[3], q), M[3])
  BY <1>1, LastBasis
<1>6. IsMatrix(q) /\ IsVector(o)
  BY <1>4, LastBasis
<1>7. Congruent(Plus(Times(d, q), o), d) /\ Congruent(Plus(Times(w, q), o), w)
  BY <1>4, LastBasis DEF Unmixed
<1>8. Congruent(Plus(Times(d, q), o), RoundConstants[t + 2])
  BY <1>7, VectorsAlike
<1>. HIDE DEF q, o
<1>9. Congruent(Plus(Times(w, q), o), Shifted(a, b, t + 1))
  BY <1>1, <1>5, <1>6, <1>8, AfterFullRound
<1>. HIDE DEF w
<1>10. Congruent(w, Shifted(a, b, t + 1))
  BY <1>7, <1>9, VectorsAlike
<1>. QED
  BY <1>10 DEF w

\* The last full round before the partial ones.
LEMMA TransitionStep ==
  ASSUME NEW a \in Field, NEW b \in Field, NEW v, IsVector(v), Congruent(v, Shifted(a, b, HalfF - 1))
  PROVE  Congruent(Unmixed(Times(Plus(Fifths(v), ConstantsAt(HalfF * T)), P), 1), Shifted(a, b, HalfF))
<1>. DEFINE c == ConstantsAt(HalfF * T)  q == Basis[1]  o == Offset[1]  t == HalfF - 1
<1>1. /\ t \in 0..(Rounds - 2) /\ t + 1 = HalfF /\ t + 2 = HalfF + 1 /\ IsFull(t + 1) /\ 1 \in 1..(Partial + 1)
      /\ HalfF * T \in Nat /\ HalfF * T + T <= Len(C)
  BY PoseidonAssumption, ConstantFacts DEF Rounds, IsFull, T
<1>2. IsVector(c)
  <2>1. \A i \in 1..3 : HalfF * T + i \in 1..Len(C)
    BY <1>1 DEF T
  <2>2. \A i \in 1..3 : C[HalfF * T + i] \in Int
    BY <2>1, ConstantFacts, SpanFacts
  <2>3. c[1] = C[HalfF * T + 1] /\ c[2] = C[HalfF * T + 2] /\ c[3] = C[HalfF * T + 3]
    BY ThreeIndices DEF ConstantsAt
  <2>. HIDE DEF c
  <2>. QED
    BY <2>2, <2>3 DEF IsVector
<1>3. IsMatrix(P) /\ IsMatrix(q) /\ IsVector(o)
  BY <1>1, ConstantFacts
<1>4. /\ Congruent(Times(P[1], q), M[1]) /\ Congruent(Times(P[2], q), M[2]) /\ Congruent(Times(P[3], q), M[3])
      /\ Congruent(Plus(Times(Times(c, P), q), o), RoundConstants[HalfF + 1])
  BY PoseidonDerivation, ThreeIndices DEF ChangesOfBasis
<1>. HIDE DEF c, q, o, t
<1>5. Congruent(v, Shifted(a, b, t)) /\ Congruent(Plus(Times(Times(c, P), q), o), RoundConstants[t + 2])
  BY <1>1, <1>4 DEF t
<1>6. Congruent(Plus(Times(Times(Plus(Fifths(v), c), P), q), o), Shifted(a, b, t + 1))
  BY <1>1, <1>2, <1>3, <1>4, <1>5, AfterFullRound
<1>. QED
  BY <1>1, <1>6 DEF Unmixed, c, q, o

\* The first element stands for itself: its fifth power may be taken before or after.
LEMMA FirstStandsForItself ==
  ASSUME NEW r \in 1..(Partial + 1), NEW v, IsVector(v)
  PROVE  /\ IsVector(FirstFifth(v)) /\ IsVector(Unmixed(v, r))
         /\ Unmixed(FirstFifth(v), r)[1] = FirstFifth(Unmixed(v, r))[1]
         /\ Unmixed(FirstFifth(v), r)[2] = FirstFifth(Unmixed(v, r))[2]
         /\ Unmixed(FirstFifth(v), r)[3] = FirstFifth(Unmixed(v, r))[3]
<1>. DEFINE q == Basis[r]  o == Offset[r]  g == FirstFifth(v)  f == Fifth(v[1])
<1>1. IsMatrix(q) /\ IsVector(o)
  BY ConstantFacts
<1>2. q[1] = <<1, 0, 0>> /\ q[2][1] = 0 /\ q[3][1] = 0 /\ o[1] = 0
  BY PoseidonDerivation DEF FirstIsItself
<1>3. v[1] \in Int /\ v[2] \in Int /\ v[3] \in Int /\ f \in Int
  BY FifthAlike DEF IsVector, Alike
<1>4. g[1] = f /\ g[2] = v[2] /\ g[3] = v[3]
  BY ThreeIndices DEF FirstFifth
<1>5. q[2][2] \in Int /\ q[2][3] \in Int /\ q[3][2] \in Int /\ q[3][3] \in Int /\ o[2] \in Int /\ o[3] \in Int
  BY <1>1 DEF IsMatrix, IsVector
<1>6. ASSUME NEW u, u[1] \in Int, u[2] \in Int, u[3] \in Int
      PROVE  /\ Unmixed(u, r)[1] = u[1]
             /\ Unmixed(u, r)[2] = (u[2] * q[2][2] + u[3] * q[3][2]) + o[2]
             /\ Unmixed(u, r)[3] = (u[2] * q[2][3] + u[3] * q[3][3]) + o[3]
  <2>1. /\ Unmixed(u, r)[1] = Times(u, q)[1] + o[1] /\ Unmixed(u, r)[2] = Times(u, q)[2] + o[2]
        /\ Unmixed(u, r)[3] = Times(u, q)[3] + o[3]
    BY PlusRows DEF Unmixed
  <2>. HIDE DEF q, o
  <2>2. /\ Times(u, q)[1] = u[1] * 1 + u[2] * 0 + u[3] * 0
        /\ Times(u, q)[2] = u[1] * 0 + u[2] * q[2][2] + u[3] * q[3][2]
        /\ Times(u, q)[3] = u[1] * 0 + u[2] * q[2][3] + u[3] * q[3][3]
    BY <1>2, TimesRows DEF ThreeProducts
  <2>. DEFINE u2 == u[2] * q[2][2]  u3 == u[3] * q[3][2]  w2 == u[2] * q[2][3]  w3 == u[3] * q[3][3]
  <2>3. u2 \in Int /\ u3 \in Int /\ w2 \in Int /\ w3 \in Int
    BY <1>5, <1>6
  <2>4. /\ Times(u, q)[1] = u[1] * 1 + u[2] * 0 + u[3] * 0
        /\ Times(u, q)[2] = u[1] * 0 + u2 + u3 /\ Times(u, q)[3] = u[1] * 0 + w2 + w3
    BY <2>2
  <2>. HIDE DEF u2, u3, w2, w3
  <2>5. Times(u, q)[1] = u[1] /\ Times(u, q)[2] = u2 + u3 /\ Times(u, q)[3] = w2 + w3
    BY <1>6, <2>3, <2>4
  <2>6. /\ Unmixed(u, r)[1] = u[1] /\ Unmixed(u, r)[2] = (u2 + u3) + o[2] /\ Unmixed(u, r)[3] = (w2 + w3) + o[3]
    BY <1>2, <1>6, <2>1, <2>5
  <2>. QED
    BY <2>6 DEF u2, u3, w2, w3
<1>7. IsVector(g)
  BY <1>3, <1>4 DEF IsVector
<1>8. IsVector(Unmixed(v, r))
  <2>1. IsVector(Times(v, q))
    BY <1>1, StayVectors
  <2>. QED
    BY <1>1, <2>1, StayVectors DEF Unmixed
<1>. HIDE DEF q, o, g, f
<1>9. /\ Unmixed(g, r)[1] = f
      /\ Unmixed(g, r)[2] = (v[2] * q[2][2] + v[3] * q[3][2]) + o[2]
      /\ Unmixed(g, r)[3] = (v[2] * q[2][3] + v[3] * q[3][3]) + o[3]
  BY <1>3, <1>4, <1>6
<1>. DEFINE z == Unmixed(v, r)
<1>10. /\ z[1] = v[1] /\ z[2] = (v[2] * q[2][2] + v[3] * q[3][2]) + o[2]
       /\ z[3] = (v[2] * q[2][3] + v[3] * q[3][3]) + o[3]
  BY <1>3, <1>6
<1>. HIDE DEF z
<1>11. FirstFifth(z)[1] = Fifth(z[1]) /\ FirstFifth(z)[2] = z[2] /\ FirstFifth(z)[3] = z[3]
  BY ThreeIndices DEF FirstFifth
<1>12. Unmixed(g, r)[1] = FirstFifth(z)[1] /\ Unmixed(g, r)[2] = FirstFifth(z)[2] /\ Unmixed(g, r)[3] = FirstFifth(z)[3]
  BY <1>9, <1>10, <1>11 DEF f
<1>. QED
  BY <1>7, <1>8, <1>12 DEF g, z

\* A partial round.
LEMMA PartialStep ==
  ASSUME NEW a \in Field, NEW b \in Field, NEW r \in 0..(Partial - 1),
         NEW v, IsVector(v), Congruent(Unmixed(v, r + 1), Shifted(a, b, HalfF + r))
  PROVE  Congruent(Unmixed(Times(Plus(FirstFifth(v), FirstConstant(r + 1)), SparseMatrix(r + 1)), (r + 1) + 1),
                   Shifted(a, b, HalfF + r + 1))
<1>. DEFINE f == FirstFifth(v)  c == FirstConstant(r + 1)  p == SparseMatrix(r + 1)
            n == Basis[r + 1]  d == Offset[r + 1]  q == Basis[(r + 1) + 1]  o == Offset[(r + 1) + 1]
            m == <<Times(n[1], M), Times(n[2], M), Times(n[3], M)>>
            t == HalfF + r  l == RoundConstants[t + 2]  dm == Times(d, M)  k == Plus(dm, l)
            s == Shifted(a, b, t)  x == TextbookState(a, b, t + 1)
            w == Plus(Times(Times(Plus(f, c), p), q), o)
<1>1. /\ t \in 0..(Rounds - 1) /\ t + 1 \in 0..(Rounds - 1) /\ (t + 1) + 1 = t + 2 /\ ~IsFull(t + 1)
      /\ HalfF + (r + 1) + 1 = t + 2 /\ HalfF + r + 1 = t + 1 /\ r + 1 \in 1..Partial
      /\ r + 1 \in 1..(Partial + 1) /\ (r + 1) + 1 \in 1..(Partial + 1)
  BY PoseidonAssumption DEF Rounds, IsFull
<1>2. IsMatrix(n) /\ IsVector(d) /\ IsMatrix(q) /\ IsVector(o) /\ IsMatrix(M) /\ IsMatrix(p) /\ IsVector(c)
  BY <1>1, ConstantFacts, SparseFacts
<1>3. IsVector(f) /\ IsVector(Unmixed(v, r + 1))
  BY <1>1, FirstStandsForItself
<1>4. IsVector(l) /\ IsVector(s) /\ IsVector(x) /\ IsVector(Powers(s, t + 1)) /\ Congruent(x, Times(Powers(s, t + 1), M))
  BY <1>1, NextStates
<1>5. /\ Congruent(Times(p[1], q), Times(n[1], M)) /\ Congruent(Times(p[2], q), Times(n[2], M))
      /\ Congruent(Times(p[3], q), Times(n[3], M))
      /\ Congruent(Plus(Times(Times(c, p), q), o), k)
  BY <1>1, PoseidonDerivation, ThreeIndices DEF ChangesOfBasis, FirstConstant
<1>6. Powers(s, t + 1) = FirstFifth(s) /\ Shifted(a, b, t + 1) = Plus(x, l)
  BY <1>1 DEF Powers, Shifted
<1>7. /\ m[1] = Times(n[1], M) /\ m[2] = Times(n[2], M) /\ m[3] = Times(n[3], M)
  OBVIOUS
<1>. HIDE DEF f, c, p, n, d, q, o, m, l, s, x
<1>8. IsVector(n[1]) /\ IsVector(n[2]) /\ IsVector(n[3])
  BY <1>2 DEF IsMatrix
<1>9. IsVector(m[1]) /\ IsVector(m[2]) /\ IsVector(m[3]) /\ IsMatrix(m)
  <2>1. IsVector(m[1]) /\ IsVector(m[2]) /\ IsVector(m[3])
    BY <1>2, <1>7, <1>8, StayVectors
  <2>. QED
    BY <2>1 DEF IsMatrix
<1>10. IsVector(dm) /\ IsVector(k)
  <2>1. IsVector(dm)
    BY <1>2, StayVectors
  <2>. QED
    BY <1>4, <2>1, StayVectors
<1>11. IsVector(Times(f, m)) /\ Congruent(w, Plus(Times(f, m), k))
  <2>1. Congruent(Times(p[1], q), m[1]) /\ Congruent(Times(p[2], q), m[2]) /\ Congruent(Times(p[3], q), m[3])
    BY <1>5, <1>7
  <2>. HIDE DEF k
  <2>. QED
    BY <1>2, <1>3, <1>5, <1>9, <1>10, <2>1, ConstantsMoved DEF f
<1>12. Congruent(Times(Times(f, n), M), Times(f, m))
  <2>1. Congruent(Times(n[1], M), m[1]) /\ Congruent(Times(n[2], M), m[2]) /\ Congruent(Times(n[3], M), m[3])
    BY <1>7, VectorsAlike
  <2>. QED
    BY <1>2, <1>3, <1>9, <2>1, TimesOfTimes DEF f
<1>. DEFINE fn == Times(f, n)  fnM == Times(fn, M)  fm == Times(f, m)  u == Plus(fn, d)
<1>13. IsVector(fn) /\ IsVector(fnM) /\ IsVector(u)
  <2>1. IsVector(fn)
    BY <1>2, <1>3, StayVectors DEF f
  <2>. HIDE DEF fn
  <2>. QED
    BY <1>2, <2>1, StayVectors

\* f * m + (d * M + l) = (f * n + d) * M + l
<1>14. Congruent(Plus(fm, k), Plus(Times(u, M), l))
  <2>1. Congruent(fm, fnM) /\ IsVector(fm)
    BY <1>11, <1>12, VectorsAlike
  <2>2. Congruent(Times(u, M), Plus(fnM, dm))
    BY <1>2, <1>13, TimesOfPlus
  <2>. HIDE DEF fm, fnM, fn, u
  <2>3. Congruent(Plus(fm, k), Plus(fnM, k))
    BY <1>10, <1>13, <2>1, VectorsAlike, PlusAlike
  <2>4. Congruent(Plus(Plus(fnM, dm), l), Plus(fnM, k))
    BY <1>4, <1>10, <1>13, PlusInAnyOrder
  <2>5. IsVector(Times(u, M)) /\ IsVector(Plus(fnM, dm))
    BY <1>2, <1>10, <1>13, StayVectors
  <2>. HIDE DEF k, dm
  <2>6. Congruent(Plus(Times(u, M), l), Plus(Plus(fnM, dm), l))
    BY <1>4, <2>2, <2>5, VectorsAlike, PlusAlike
  <2>. QED
    BY <2>3, <2>4, <2>6, VectorsAlike
<1>15. Congruent(u, FirstFifth(s))
  <2>1. /\ Unmixed(f, r + 1)[1] = FirstFifth(Unmixed(v, r + 1))[1]
        /\ Unmixed(f, r + 1)[2] = FirstFifth(Unmixed(v, r + 1))[2]
        /\ Unmixed(f, r + 1)[3] = FirstFifth(Unmixed(v, r + 1))[3]
    BY <1>1, FirstStandsForItself DEF f
  <2>2. u = Unmixed(f, r + 1)
    BY DEF Unmixed, n, d
  <2>. DEFINE z == Unmixed(v, r + 1)
  <2>3. Congruent(u, FirstFifth(z))
    BY <2>1, <2>2, Congruences DEF Alike
  <2>4. Congruent(z, s) /\ IsVector(z)
    BY <1>3 DEF s
  <2>. HIDE DEF z
  <2>5. Congruent(FirstFifth(z), FirstFifth(s))
    BY <1>4, <2>4, FifthsAlike
  <2>. QED
    BY <2>3, <2>5, VectorsAlike
<1>16. Congruent(Plus(Times(u, M), l), Plus(x, l))
  <2>1. IsVector(FirstFifth(s))
    BY <1>4, <1>6
  <2>. HIDE DEF u
  <2>2. IsVector(Times(u, M)) /\ Congruent(Times(u, M), Times(FirstFifth(s), M))
    BY <1>2, <1>13, <1>15, <2>1, TimesAlike
  <2>3. Congruent(Times(u, M), x)
    BY <1>4, <1>6, <2>2, VectorsAlike
  <2>. QED
    BY <1>4, <2>2, <2>3, VectorsAlike, PlusAlike
<1>17. Congruent(w, Plus(x, l))
  <2>. HIDE DEF u, k, w
  <2>. QED
    BY <1>11, <1>14, <1>16, VectorsAlike
<1>. QED
  BY <1>1, <1>6, <1>17 DEF Unmixed, f, c, p, q, o

\* The last round, after which nothing is added.
LEMMA FinalStep ==
  ASSUME NEW a \in Field, NEW b \in Field, NEW v, IsVector(v), Congruent(v, Shifted(a, b, Rounds - 1))
  PROVE  Congruent(Times(Fifths(v), M), TextbookState(a, b, Rounds))
<1>. DEFINE t == Rounds - 1  s == Shifted(a, b, t)
<1>1. t \in 0..(Rounds - 1) /\ t + 1 = Rounds /\ IsFull(t + 1)
  BY PoseidonAssumption DEF Rounds, IsFull
<1>2. Congruent(TextbookState(a, b, t + 1), Times(Powers(s, t + 1), M)) /\ IsVector(s)
  BY <1>1, NextStates
<1>3. Powers(s, t + 1) = Fifths(s) /\ IsMatrix(M)
  BY <1>1, ConstantFacts DEF Powers
<1>4. Congruent(v, s)
  OBVIOUS
<1>. HIDE DEF s
<1>5. IsVector(Fifths(v)) /\ IsVector(Fifths(s)) /\ Congruent(Fifths(v), Fifths(s))
  BY <1>2, <1>4, FifthsAlike
<1>6. Congruent(Times(Fifths(v), M), Times(Fifths(s), M))
  BY <1>3, <1>5, TimesAlike
<1>. HIDE DEF t
<1>. QED
  BY <1>1, <1>2, <1>3, <1>6, VectorsAlike

-----------------------------------------------------------------------------
(* The invariant. *)

\* Vector v is the textbook's after round t, up to the constants that are added
\* early and the basis of the partial rounds.
Represents(v, a, b, t) ==
  /\ t = Rounds => Congruent(v, TextbookState(a, b, t))
  /\ t < HalfF \/ t \in (HalfF + Partial + 1)..(Rounds - 1) => Congruent(v, Shifted(a, b, t))
  /\ t \in HalfF..(HalfF + Partial) => Congruent(Unmixed(v, t - HalfF + 1), Shifted(a, b, t))

Hashing ==
  /\ input \in [1..2 -> Bytes] /\ round \in 0..Rounds
  /\ StandsFor(state, ValuesOf(state))
  /\ Represents(ValuesOf(state), ValueOf(input[1]) % Modulus, ValueOf(input[2]) % Modulus, round)

HashIInv == (input = <<>> /\ state = <<>> /\ round = 0) \/ Hashing

\* What congruent vectors represent.
LEMMA RepresentsAlike ==
  ASSUME NEW v, NEW w, IsVector(v), IsVector(w), Congruent(v, w), NEW a, NEW b, NEW t \in 0..Rounds,
         Represents(w, a, b, t)
  PROVE  Represents(v, a, b, t)
<1>1. ASSUME t \in HalfF..(HalfF + Partial)
      PROVE  Congruent(Unmixed(v, t - HalfF + 1), Unmixed(w, t - HalfF + 1))
  <2>. DEFINE q == Basis[t - HalfF + 1]  o == Offset[t - HalfF + 1]
  <2>1. IsMatrix(q) /\ IsVector(o)
    <3>1. t - HalfF + 1 \in 1..(Partial + 1)
      BY <1>1, PoseidonAssumption
    <3>. QED
      BY <3>1, ConstantFacts
  <2>2. Unmixed(v, t - HalfF + 1) = Plus(Times(v, q), o) /\ Unmixed(w, t - HalfF + 1) = Plus(Times(w, q), o)
    BY DEF Unmixed
  <2>. HIDE DEF q, o
  <2>3. IsVector(Times(v, q)) /\ IsVector(Times(w, q)) /\ Congruent(Times(v, q), Times(w, q))
    BY <2>1, TimesAlike
  <2>4. Congruent(Plus(Times(v, q), o), Plus(Times(w, q), o))
    BY <2>1, <2>3, VectorsAlike, PlusAlike
  <2>. QED
    BY <2>2, <2>4
<1>. QED
  BY <1>1, VectorsAlike DEF Represents

\* A round that leads to what the textbook has next keeps the invariant.
LEMMA NextHashing ==
  ASSUME Hashing, round < Rounds, input' = input, round' = round + 1, NEW w, StandsFor(state', w),
         Represents(w, ValueOf(input[1]) % Modulus, ValueOf(input[2]) % Modulus, round + 1)
  PROVE  Hashing'
<1>1. round' \in 0..Rounds
  BY PoseidonAssumption DEF Hashing, Rounds
<1>2. StandsFor(state', ValuesOf(state')) /\ Congruent(ValuesOf(state'), w)
  BY ValuesStand
<1>3. IsVector(w) /\ IsVector(ValuesOf(state'))
  BY <1>2 DEF StandsFor
<1>4. Represents(ValuesOf(state'), ValueOf(input[1]) % Modulus, ValueOf(input[2]) % Modulus, round')
  <2>. DEFINE a == ValueOf(input[1]) % Modulus  b == ValueOf(input[2]) % Modulus  t == round + 1
  <2>1. Represents(w, a, b, t) /\ t \in 0..Rounds
    BY <1>1
  <2>. HIDE DEF a, b, t
  <2>2. Represents(ValuesOf(state'), a, b, t)
    BY <1>2, <1>3, <2>1, RepresentsAlike
  <2>. QED
    BY <2>2 DEF a, b, t
<1>5. input' \in [1..2 -> Bytes]
  BY DEF Hashing
<1>. QED
  BY <1>1, <1>2, <1>4, <1>5 DEF Hashing

\* The parts of the invariant.
LEMMA HashingFacts ==
  ASSUME Hashing
  PROVE  /\ input[1] \in Bytes /\ input[2] \in Bytes
         /\ ValueOf(input[1]) % Modulus \in Field /\ ValueOf(input[2]) % Modulus \in Field
         /\ IsVector(ValuesOf(state)) /\ StandsFor(state, ValuesOf(state)) /\ round \in 0..Rounds
         /\ Represents(ValuesOf(state), ValueOf(input[1]) % Modulus, ValueOf(input[2]) % Modulus, round)
<1>1. input[1] \in Bytes /\ input[2] \in Bytes
  BY DEF Hashing
<1>. QED
  BY <1>1, FromBytesValue DEF Hashing, StandsFor

\* Absorbing two inputs starts the invariant.
LEMMA AbsorbStarts ==
  ASSUME NEW x \in Bytes, NEW y \in Bytes, Absorb(x, y)
  PROVE  Hashing'
<1>. DEFINE a == ValueOf(x) % Modulus  b == ValueOf(y) % Modulus  v == <<0, a, b>>
            w == Plus(v, ConstantsAt(0))
            s == <<Zero, FromBytes(x), FromBytes(y)>>
<1>1. a \in Field /\ b \in Field /\ FromBytes(x) = LimbsOf(a) /\ FromBytes(y) = LimbsOf(b)
  BY FromBytesValue
<1>2. input' = <<x, y>> /\ state' = AddConstants(s, 0) /\ round' = 0
  BY DEF Absorb
<1>. HIDE DEF a, b
<1>3. Stands(Zero, 0) /\ Stands(FromBytes(x), a) /\ Stands(FromBytes(y), b)
  BY <1>1, ConstantsStand
<1>4. StandsFor(s, v)
  <2>1. s = [i \in 1..T |-> s[i]]
    BY ThreeIndices
  <2>2. Stands(s[1], v[1]) /\ Stands(s[2], v[2]) /\ Stands(s[3], v[3])
    BY <1>3
  <2>. HIDE DEF s, v
  <2>. QED
    BY <2>1, <2>2, StatesStand
<1>5. 0 \in Nat /\ 0 + T <= Len(C)
  BY ConstantFacts DEF T
<1>. HIDE DEF s
<1>6. IsVector(v) /\ IsVector(ConstantsAt(0)) /\ IsVector(w) /\ StandsFor(AddConstants(s, 0), w)
  BY <1>4, <1>5, AddedConstants DEF StandsFor
<1>. HIDE DEF v
<1>7. Congruent(w, Shifted(a, b, 0))
  <2>1. TextbookState(a, b, 0) = v
    BY <1>1, TextbookStates DEF v
  <2>2. Congruent(ConstantsAt(0), RoundConstants[1])
    BY PoseidonDerivation DEF MovedThroughMatrices
  <2>3. 1 \in 1..Rounds /\ 0 + 1 = 1
    BY PoseidonAssumption DEF Rounds
  <2>4. IsVector(RoundConstants[1])
    BY <2>3, ConstantFacts
  <2>5. Congruent(Plus(v, ConstantsAt(0)), Plus(v, RoundConstants[1]))
    BY <1>6, <2>2, <2>4, VectorsAlike, PlusAlike
  <2>. QED
    BY <2>1, <2>3, <2>5 DEF Shifted
<1>. HIDE DEF w
<1>8. Represents(w, a, b, 0)
  <2>1. 0 < HalfF /\ 0 # Rounds /\ ~(0 \in HalfF..(HalfF + Partial))
    BY PoseidonAssumption DEF Rounds
  <2>. QED
    BY <1>7, <2>1 DEF Represents
<1>9. StandsFor(state', ValuesOf(state')) /\ Congruent(ValuesOf(state'), w) /\ IsVector(ValuesOf(state'))
  BY <1>2, <1>6, ValuesStand DEF StandsFor
<1>10. 0 \in 0..Rounds
  BY PoseidonAssumption DEF Rounds
<1>11. Represents(ValuesOf(state'), a, b, 0)
  BY <1>6, <1>8, <1>9, <1>10, RepresentsAlike
<1>12. input' \in [1..2 -> Bytes] /\ input'[1] = x /\ input'[2] = y
  BY <1>2
<1>. QED
  BY <1>2, <1>9, <1>10, <1>11, <1>12 DEF Hashing, a, b

\* The first full rounds keep it: their constants were moved through M.
LEMMA FirstFullRoundKeeps ==
  ASSUME Hashing, FirstFullRound
  PROVE  Hashing'
<1>. DEFINE a == ValueOf(input[1]) % Modulus  b == ValueOf(input[2]) % Modulus  v == ValuesOf(state)
            first == (round + 1) * T  c == ConstantsAt(first)  w == Times(Plus(Fifths(v), c), M)
            k == round + 1
<1>1. a \in Field /\ b \in Field /\ StandsFor(state, v) /\ IsVector(v) /\ Represents(v, a, b, round)
  BY HashingFacts
<1>2. /\ round \in 0..(Rounds - 2) /\ round < Rounds /\ round < HalfF /\ round + 1 < HalfF /\ round + 1 # Rounds
      /\ ~(round + 1 \in HalfF..(HalfF + Partial)) /\ IsFull(round + 1)
      /\ first \in Nat /\ first + T <= Len(C) /\ k \in 1..(HalfF - 1) /\ k + 1 = round + 2
  BY PoseidonAssumption, ConstantFacts DEF Hashing, FirstFullRound, Rounds, IsFull, T
<1>3. input' = input /\ round' = round + 1 /\ state' = FullRound(state, first, M)
  BY DEF FirstFullRound, Step
<1>. HIDE DEF a, b, v
<1>4. Congruent(v, Shifted(a, b, round))
  BY <1>1, <1>2 DEF Represents
<1>5. Congruent(Times(c, M), RoundConstants[round + 2])
  <2>1. Congruent(Times(ConstantsAt(k * T), M), RoundConstants[k + 1])
    BY <1>2, PoseidonDerivation DEF MovedThroughMatrices
  <2>. QED
    BY <1>2, <2>1
<1>. HIDE DEF first
<1>6. IsVector(c) /\ StandsFor(state', w)
  BY <1>1, <1>2, <1>3, ConstantFacts, FullRoundValue
<1>. HIDE DEF c
<1>7. Congruent(w, Shifted(a, b, round + 1))
  BY <1>1, <1>2, <1>4, <1>5, <1>6, FullStep
<1>. HIDE DEF w
<1>8. Represents(w, a, b, round + 1)
  BY <1>2, <1>7 DEF Represents
<1>. QED
  BY <1>2, <1>3, <1>6, <1>8, NextHashing DEF a, b

\* The last of them leads into the first basis.
LEMMA TransitionKeeps ==
  ASSUME Hashing, Transition
  PROVE  Hashing'
<1>. DEFINE a == ValueOf(input[1]) % Modulus  b == ValueOf(input[2]) % Modulus  v == ValuesOf(state)
            w == Times(Plus(Fifths(v), ConstantsAt(HalfF * T)), P)
<1>1. a \in Field /\ b \in Field /\ StandsFor(state, v) /\ IsVector(v) /\ Represents(v, a, b, round)
  BY HashingFacts
<1>2. /\ round < Rounds /\ round = HalfF - 1 /\ round < HalfF /\ round + 1 = HalfF /\ ~(HalfF < HalfF) /\ HalfF # Rounds
      /\ ~(HalfF \in (HalfF + Partial + 1)..(Rounds - 1)) /\ HalfF - HalfF + 1 = 1
      /\ HalfF * T \in Nat /\ HalfF * T + T <= Len(C)
  BY PoseidonAssumption, ConstantFacts DEF Hashing, Transition, Rounds, T
<1>3. input' = input /\ round' = round + 1 /\ state' = FullRound(state, HalfF * T, P)
  BY DEF Transition, Step
<1>. HIDE DEF a, b, v
<1>4. Congruent(v, Shifted(a, b, HalfF - 1))
  BY <1>1, <1>2 DEF Represents
<1>5. StandsFor(state', w)
  BY <1>1, <1>2, <1>3, ConstantFacts, FullRoundValue
<1>6. Congruent(Unmixed(w, 1), Shifted(a, b, HalfF))
  BY <1>1, <1>4, TransitionStep
<1>. HIDE DEF w
<1>7. Represents(w, a, b, HalfF)
  BY <1>2, <1>6 DEF Represents
<1>8. Represents(w, a, b, round + 1)
  BY <1>2, <1>7
<1>. QED
  BY <1>2, <1>3, <1>5, <1>8, NextHashing DEF a, b

\* A partial round leads from one basis to the next.
LEMMA PartialRoundKeeps ==
  ASSUME Hashing, PartialRound
  PROVE  Hashing'
<1>. DEFINE a == ValueOf(input[1]) % Modulus  b == ValueOf(input[2]) % Modulus  v == ValuesOf(state)
            r == round - HalfF  w == Times(Plus(FirstFifth(v), FirstConstant(r + 1)), SparseMatrix(r + 1))
            t == HalfF + r + 1
<1>1. a \in Field /\ b \in Field /\ StandsFor(state, v) /\ IsVector(v) /\ Represents(v, a, b, round)
  BY HashingFacts
<1>2. r \in 0..(Partial - 1) /\ input' = input /\ round' = round + 1
  BY DEF PartialRound, Step
<1>3. /\ round < Rounds /\ round \in HalfF..(HalfF + Partial) /\ round - HalfF + 1 = r + 1 /\ round = HalfF + r
      /\ round + 1 = t /\ t # Rounds /\ ~(t < HalfF) /\ ~(t \in (HalfF + Partial + 1)..(Rounds - 1))
      /\ t - HalfF + 1 = (r + 1) + 1
  BY <1>2, PoseidonAssumption DEF Hashing, Rounds
<1>4. state' = PartialState(state, r)
  BY DEF PartialRound, Step, PartialState, FirstAdded
<1>. HIDE DEF a, b, v, r
<1>5. Congruent(Unmixed(v, r + 1), Shifted(a, b, HalfF + r))
  <2>1. Congruent(Unmixed(v, round - HalfF + 1), Shifted(a, b, round))
    BY <1>1, <1>3 DEF Represents
  <2>. QED
    BY <1>3, <2>1
<1>6. StandsFor(state', w)
  BY <1>1, <1>2, <1>4, PartialRoundValue
<1>7. Congruent(Unmixed(w, (r + 1) + 1), Shifted(a, b, t))
  BY <1>1, <1>2, <1>5, PartialStep
<1>. HIDE DEF w, t
<1>8. Represents(w, a, b, t)
  BY <1>3, <1>7 DEF Represents
<1>9. Represents(w, a, b, round + 1)
  BY <1>3, <1>8
<1>. QED
  BY <1>2, <1>3, <1>6, <1>9, NextHashing DEF a, b

\* The last full rounds begin where a state stands for itself.
LEMMA LastFullRoundKeeps ==
  ASSUME Hashing, LastFullRound
  PROVE  Hashing'
<1>. DEFINE a == ValueOf(input[1]) % Modulus  b == ValueOf(input[2]) % Modulus  v == ValuesOf(state)
            r == round - HalfF - Partial  first == LastConstants(r)  k == r + 1
            c == ConstantsAt(first)  w == Times(Plus(Fifths(v), c), M)
<1>1. a \in Field /\ b \in Field /\ StandsFor(state, v) /\ IsVector(v) /\ Represents(v, a, b, round)
  BY HashingFacts
<1>2. r \in 0..(HalfF - 2) /\ input' = input /\ round' = round + 1 /\ state' = FullRound(state, first, M)
  BY DEF LastFullRound, Step
<1>3. /\ round \in 0..(Rounds - 2) /\ round < Rounds /\ round # Rounds /\ IsFull(round + 1)
      /\ round + 1 # Rounds /\ ~(round + 1 < HalfF) /\ ~(round + 1 \in HalfF..(HalfF + Partial))
      /\ k \in 1..(HalfF - 1) /\ HalfF + Partial + k + 1 = round + 2 /\ k - 1 = r
      /\ first \in Nat /\ first + T <= Len(C)
  BY <1>2, PoseidonAssumption, ConstantFacts DEF Hashing, Rounds, IsFull, T, LastConstants
<1>4. r = 0 \/ round \in (HalfF + Partial + 1)..(Rounds - 1)
  BY <1>2, <1>3, PoseidonAssumption DEF Rounds
<1>5. r = 0 => round = HalfF + Partial /\ round \in HalfF..(HalfF + Partial) /\ round - HalfF + 1 = Partial + 1
  BY <1>3, PoseidonAssumption
<1>6. Congruent(Times(c, M), RoundConstants[round + 2])
  <2>1. Congruent(Times(ConstantsAt((HalfF + 1) * T + Partial + (k - 1) * T), M), RoundConstants[HalfF + Partial + k + 1])
    BY <1>3, PoseidonDerivation DEF MovedThroughMatrices
  <2>2. first = (HalfF + 1) * T + Partial + (k - 1) * T
    BY <1>3 DEF LastConstants
  <2>. HIDE DEF first, k
  <2>. QED
    BY <1>3, <2>1, <2>2
<1>. HIDE DEF a, b, v, r, first, k
<1>7. Congruent(v, Shifted(a, b, round))
  <2>1. CASE r = 0
    <3>1. Congruent(Unmixed(v, Partial + 1), Shifted(a, b, round))
      BY <1>1, <1>5, <2>1 DEF Represents
    <3>2. Congruent(Unmixed(v, Partial + 1), v)
      BY <1>1, LastBasis
    <3>. QED
      BY <3>1, <3>2, VectorsAlike
  <2>2. CASE round \in (HalfF + Partial + 1)..(Rounds - 1)
    BY <1>1, <2>2 DEF Represents
  <2>. QED
    BY <1>4, <2>1, <2>2
<1>8. IsVector(c) /\ StandsFor(state', w)
  BY <1>1, <1>2, <1>3, ConstantFacts, FullRoundValue
<1>. HIDE DEF c
<1>9. Congruent(w, Shifted(a, b, round + 1))
  BY <1>1, <1>3, <1>6, <1>7, <1>8, FullStep
<1>. HIDE DEF w
<1>10. Represents(w, a, b, round + 1)
  BY <1>3, <1>9 DEF Represents
<1>. QED
  BY <1>2, <1>3, <1>8, <1>10, NextHashing DEF a, b

\* After the final round the state is the textbook's.
LEMMA FinalRoundKeeps ==
  ASSUME Hashing, FinalRound
  PROVE  Hashing'
<1>. DEFINE a == ValueOf(input[1]) % Modulus  b == ValueOf(input[2]) % Modulus  v == ValuesOf(state)
            w == Times(Fifths(v), M)
<1>1. a \in Field /\ b \in Field /\ StandsFor(state, v) /\ IsVector(v) /\ Represents(v, a, b, round)
  BY HashingFacts
<1>2. /\ round < Rounds /\ round # Rounds /\ round = Rounds - 1 /\ round + 1 = Rounds
      /\ ~(Rounds < HalfF) /\ ~(Rounds \in HalfF..(HalfF + Partial)) /\ ~(Rounds \in (HalfF + Partial + 1)..(Rounds - 1))
      /\ round - HalfF + 1 = HalfF + Partial
      /\ (HalfF = 1 => round \in HalfF..(HalfF + Partial) /\ round - HalfF + 1 = Partial + 1)
      /\ (HalfF # 1 => round \in (HalfF + Partial + 1)..(Rounds - 1))
  BY PoseidonAssumption DEF Hashing, FinalRound, Rounds
<1>3. input' = input /\ round' = round + 1 /\ state' = MdsMul(Pow5All(state), M)
  BY DEF FinalRound, Step
<1>. HIDE DEF a, b, v
<1>4. Congruent(v, Shifted(a, b, round))
  <2>1. CASE HalfF = 1
    <3>1. Congruent(Unmixed(v, Partial + 1), Shifted(a, b, round))
      BY <1>1, <1>2, <2>1 DEF Represents
    <3>2. Congruent(Unmixed(v, Partial + 1), v)
      BY <1>1, LastBasis
    <3>. QED
      BY <3>1, <3>2, VectorsAlike
  <2>2. CASE HalfF # 1
    BY <1>1, <1>2, <2>2 DEF Represents
  <2>. QED
    BY <2>1, <2>2
<1>5. IsVector(w) /\ StandsFor(state', w)
  <2>1. IsVector(Fifths(v)) /\ StandsFor(Pow5All(state), Fifths(v))
    BY <1>1, FifthPowers
  <2>. QED
    BY <1>3, <2>1, ConstantFacts, MatrixProducts
<1>6. Congruent(w, TextbookState(a, b, Rounds))
  BY <1>1, <1>2, <1>4, FinalStep
<1>. HIDE DEF w
<1>7. Represents(w, a, b, Rounds)
  BY <1>2, <1>6 DEF Represents
<1>8. Represents(w, a, b, round + 1)
  BY <1>2, <1>7
<1>. QED
  BY <1>2, <1>3, <1>5, <1>8, NextHashing DEF a, b

\* Between a hash's rounds its state stands for the textbook's, up to the
\* constants that poseidon.rs adds early and the basis of its sparse matrices.
LEMMA HashInvariant ==
  HashSpec => []HashIInv
<1>1. HashInit => HashIInv
  BY DEF HashInit, HashIInv
<1>2. HashIInv /\ [HashNext]_hashVars => HashIInv'
  <2>. SUFFICES ASSUME HashIInv, [HashNext]_hashVars PROVE HashIInv'
    OBVIOUS
  <2>1. ASSUME NEW a \in Inputs, NEW b \in Inputs, Absorb(LimbsOf(a), LimbsOf(b)) PROVE HashIInv'
    <3>1. LimbsOf(a) \in Bytes /\ LimbsOf(b) \in Bytes
      BY PoseidonAssumption, BytesFacts
    <3>. QED
      BY <2>1, <3>1, AbsorbStarts DEF HashIInv
  <2>2. ASSUME input # <<>> PROVE Hashing
    BY <2>2 DEF HashIInv
  <2>3. CASE FirstFullRound
    BY <2>2, <2>3, FirstFullRoundKeeps DEF HashIInv, FirstFullRound, Step
  <2>4. CASE Transition
    BY <2>2, <2>4, TransitionKeeps DEF HashIInv, Transition, Step
  <2>5. CASE PartialRound
    <3>1. input # <<>>
      BY <2>5 DEF PartialRound, Step
    <3>. QED
      BY <2>2, <2>5, <3>1, PartialRoundKeeps DEF HashIInv
  <2>6. CASE LastFullRound
    <3>1. input # <<>>
      BY <2>6 DEF LastFullRound, Step
    <3>. QED
      BY <2>2, <2>6, <3>1, LastFullRoundKeeps DEF HashIInv
  <2>7. CASE FinalRound
    BY <2>2, <2>7, FinalRoundKeeps DEF HashIInv, FinalRound, Step
  <2>8. CASE Forget
    BY <2>8 DEF Forget, HashIInv
  <2>9. CASE UNCHANGED hashVars
    <3>1. input' = input /\ state' = state /\ round' = round
      BY <2>9 DEF hashVars
    <3>2. CASE input = <<>> /\ state = <<>> /\ round = 0
      BY <3>1, <3>2 DEF HashIInv
    <3>3. CASE Hashing
      BY <3>1, <3>3 DEF HashIInv, Hashing
    <3>. QED
      BY <3>2, <3>3 DEF HashIInv
  <2>. QED
    BY <2>1, <2>3, <2>4, <2>5, <2>6, <2>7, <2>8, <2>9 DEF HashNext
<1>. QED
  BY <1>1, <1>2, PTL DEF HashSpec

\* Every element is reduced after every round, whatever was hashed: add and
\* to_bytes of poseidon.rs rely on it.
THEOREM StatesAreReduced ==
  HashSpec => []ElementsReduced
<1>1. HashIInv => ElementsReduced
  <2>1. CASE input = <<>> /\ state = <<>> /\ round = 0
    BY <2>1 DEF ElementsReduced
  <2>2. CASE Hashing
    <3>. DEFINE v == ValuesOf(state)
    <3>1. StandsFor(state, v) /\ input \in [1..2 -> Bytes]
      BY <2>2 DEF Hashing
    <3>. HIDE DEF v
    <3>2. \A i \in 1..T : v[i] \in Int /\ state = [j \in 1..T |-> LimbsOf(v[j] % Modulus)]
      BY <3>1, ThreeIndices DEF StandsFor, IsVector
    <3>3. \A i \in 1..T : v[i] % Modulus \in Field
      BY <3>2, AlikeFacts
    <3>4. \A i \in 1..T : state[i] \in Bytes /\ ~GeqR(state[i])
      BY <3>2, <3>3, Elements
    <3>5. DOMAIN state = 1..T /\ Len(state) = T
      BY <3>1 DEF StandsFor, T
    <3>. QED
      BY <3>1, <3>4, <3>5 DEF ElementsReduced
  <2>. QED
    BY <2>1, <2>2 DEF HashIInv
<1>. QED
  BY <1>1, HashInvariant, PTL

\* What the contracts hand to the host is the value of the reduced input.
LEMMA HandedToTheHost ==
  ASSUME NEW x \in Bytes
  PROVE  /\ BigEndian([i \in 1..Limbs |-> FromBytes(x)[Limbs - i]]) = ValueOf(x) % Modulus
         /\ BigEndian(Reverse(ToBytes(FromBytes(x)))) = ValueOf(x) % Modulus
         /\ ValueOf(x) % Modulus \in Field
<1>. DEFINE a == ValueOf(x) % Modulus  y == FromBytes(x)
            p == [i \in 1..Limbs |-> y[Limbs - i]]  q == Reverse(ToBytes(y))
<1>1. a \in Field /\ y = LimbsOf(a)
  BY FromBytesValue
<1>. HIDE DEF a, y
<1>2. y \in Bytes /\ ValueOf(y) = a
  BY <1>1, Elements
<1>3. Limbs \in Nat \ {0} /\ Base \in Nat \ {0} /\ Limbs \in Nat
  BY PoseidonAssumption
<1>4. \A i \in 0..(Limbs - 1) : y[i] \in Int
  BY <1>2, <1>3, BytesFacts
<1>5. q = p
  <2>1. Len(ToBytes(y)) = Limbs
    BY <1>3 DEF ToBytes
  <2>2. \A i \in 1..Limbs : (Limbs - i) + 1 \in 1..Limbs /\ ((Limbs - i) + 1) - 1 = Limbs - i
    BY <1>3
  <2>3. \A i \in 1..Limbs : ToBytes(y)[(Limbs - i) + 1] = y[Limbs - i]
    BY <2>2 DEF ToBytes
  <2>4. q = [i \in 1..Limbs |-> ToBytes(y)[(Limbs - i) + 1]]
    BY <2>1 DEF Reverse
  <2>. QED
    BY <2>3, <2>4
<1>6. BigEndian(p) = a
  <2>. DEFINE z == [i \in At |-> p[Limbs - i]]
  <2>1. \A i \in 0..(Limbs - 1) : Limbs - i \in 1..Limbs /\ Limbs - (Limbs - i) = i
    BY <1>3
  <2>2. \A i \in 0..(Limbs - 1) : z[i] = y[i]
    BY <2>1 DEF At
  <2>3. BigEndian(p) = LowValue(z, Base, Limbs)
    BY DEF BigEndian
  <2>. HIDE DEF z, p
  <2>4. LowValue(z, Base, Limbs) = LowValue(y, Base, Limbs)
    BY <1>3, <1>4, <2>2, LowValueAgrees
  <2>. QED
    BY <1>2, <2>3, <2>4 DEF ValueOf
<1>. QED
  BY <1>1, <1>5, <1>6 DEF a, y

\* The permutation of poseidon.rs, with its moved constants and sparse matrices,
\* and what either contract's hasher gets from the host are Poseidon as it is
\* published, of the inputs modulo r.
THEOREM HashesAreTheTextbooks ==
  HashSpec => []HashersAgree
<1>1. HashIInv => HashersAgree
  <2>. SUFFICES ASSUME HashIInv, round = Rounds PROVE HashersAgree
    BY DEF HashersAgree
  <2>. DEFINE a == ValueOf(input[1]) % Modulus  b == ValueOf(input[2]) % Modulus  v == ValuesOf(state)
              x == TextbookState(a, b, Rounds)
  <2>1. Rounds # 0 /\ Rounds \in 0..Rounds
    BY PoseidonAssumption DEF Rounds
  <2>2. Hashing
    BY <2>1 DEF HashIInv
  <2>3. /\ input[1] \in Bytes /\ input[2] \in Bytes /\ a \in Field /\ b \in Field
        /\ StandsFor(state, v) /\ Represents(v, a, b, round)
    BY <2>2, HashingFacts
  <2>4. BigEndian([i \in 1..Limbs |-> FromBytes(input[1])[Limbs - i]]) = a
        /\ BigEndian([i \in 1..Limbs |-> FromBytes(input[2])[Limbs - i]]) = b
        /\ BigEndian(Reverse(ToBytes(FromBytes(input[1])))) = a
        /\ BigEndian(Reverse(ToBytes(FromBytes(input[2])))) = b
    BY <2>3, HandedToTheHost
  <2>5. v \in [1..T -> Field] /\ v[1] = ValueOf(Digest)
    BY <2>3, ValuesStand, ThreeIndices DEF ValuesOf, Digest
  <2>. HIDE DEF a, b, v
  <2>6. x \in [1..T -> Field]
    BY <2>1, <2>3, TextbookStates
  <2>7. Congruent(v, x)
    BY <2>3 DEF Represents
  <2>8. Textbook(a, b) = x[1]
    BY DEF Textbook
  <2>. HIDE DEF x
  <2>9. v[1] = x[1]
    <3>1. v[1] \in Field /\ x[1] \in Field /\ Alike(v[1], x[1])
      BY <2>5, <2>6, <2>7, Congruences, ThreeIndices
    <3>2. \A n \in Field : n % Modulus = n
      BY SpanFacts, SmallResidue DEF Field
    <3>. QED
      BY <3>1, <3>2 DEF Alike
  <2>10. HostHash(a, b) = Textbook(a, b)
    <3>1. a < Modulus /\ b < Modulus
      BY <2>3, SpanFacts DEF Field
    <3>. QED
      BY <3>1 DEF HostHash
  <2>11. TokenHash(input[1], input[2]) = HostHash(a, b) /\ SwapHash(input[1], input[2]) = HostHash(a, b)
    BY <2>4 DEF TokenHash, SwapHash
  <2>12. ValueOf(Digest) = Textbook(a, b) /\ TokenHash(input[1], input[2]) = Textbook(a, b)
         /\ SwapHash(input[1], input[2]) = Textbook(a, b)
    BY <2>5, <2>8, <2>9, <2>10, <2>11
  <2>. QED
    BY <2>12 DEF HashersAgree, a, b
<1>. QED
  BY <1>1, HashInvariant, PTL

---------------------------------------------------------------------------
(* What is hashed. *)

\* What is compared are two notes, or two uses of a proof.
ComparedOK ==
  \/ compared = <<>>
  \/ \E m, n \in Notes : compared = <<"notes", m, n>>
  \/ \E p, q \in Uses : compared = <<"uses", p, q>>

LEMMA ComparedInvariant == NoteHashesSpec => []ComparedOK
<1>1. compared = <<>> => ComparedOK
  BY DEF ComparedOK
<1>2. ComparedOK /\ [NoteHashesNext]_compared => ComparedOK'
  BY DEF ComparedOK, NoteHashesNext, CompareNotes, CompareUses, EndComparison
<1>. QED
  BY <1>1, <1>2, PTL DEF NoteHashesSpec

\* Digests are equal if and only if what was hashed is.
LEMMA DigestsInjective ==
  ASSUME NEW a, NEW b, NEW c, NEW d
  PROVE  Poseidon2(a, b) = Poseidon2(c, d) <=> a = c /\ b = d
BY DEF Poseidon2

\* What is small enough is its own residue.
LEMMA ResidueOfSmall ==
  ASSUME NEW x \in 0..(FieldModulus - 1)
  PROVE  Residue(x) = x
BY NoteHashesAssumption DEF Residue

LEMMA CommitmentsEqual ==
  ASSUME NEW m \in Notes, NEW n \in Notes
  PROVE  ComputeCommitment(m) = ComputeCommitment(n) <=> SameResidues(m, n)
<1>1. DOMAIN m = {"value", "asset", "rho", "rcm", "ownerPk"}
  BY DEF Notes
<1>2. SameResidues(m, n) <=>
        /\ Residue(m.value) = Residue(n.value) /\ Residue(m.asset) = Residue(n.asset)
        /\ Residue(m.rho) = Residue(n.rho) /\ Residue(m.rcm) = Residue(n.rcm)
        /\ Residue(m.ownerPk) = Residue(n.ownerPk)
  BY <1>1 DEF SameResidues
<1>3. m.value \in TokenAmounts /\ n.value \in TokenAmounts
  BY DEF Notes
<1>4. Residue(m.value) = m.value /\ Residue(n.value) = n.value
  BY <1>3, ResidueOfSmall, NoteHashesAssumption
<1>5. ComputeCommitment(m) = ComputeCommitment(n) <=>
        /\ m.value = n.value /\ AddressToField(m.asset) = AddressToField(n.asset)
        /\ Residue(m.rho) = Residue(n.rho) /\ Residue(m.rcm) = Residue(n.rcm)
        /\ Residue(m.ownerPk) = Residue(n.ownerPk)
  BY DigestsInjective DEF ComputeCommitment
<1>6. AddressToField(m.asset) = Residue(m.asset) /\ AddressToField(n.asset) = Residue(n.asset)
  BY DEF AddressToField, Residue
<1>. QED
  BY <1>2, <1>4, <1>5, <1>6

LEMMA TagsEqual ==
  ASSUME NEW s \in SwapTerms, NEW t \in SwapTerms
  PROVE  BindingTag(s) = BindingTag(t) <=> SameResidues(s, t)
<1>1. DOMAIN s = {"intent", "refundTo", "ownerPk", "assetOut", "expiry"}
  BY DEF SwapTerms
<1>2. SameResidues(s, t) <=>
        /\ Residue(s.intent) = Residue(t.intent) /\ Residue(s.refundTo) = Residue(t.refundTo)
        /\ Residue(s.ownerPk) = Residue(t.ownerPk) /\ Residue(s.assetOut) = Residue(t.assetOut)
        /\ Residue(s.expiry) = Residue(t.expiry)
  BY <1>1 DEF SameResidues
<1>3. s.expiry \in Expiries /\ t.expiry \in Expiries
  BY DEF SwapTerms
<1>4. Residue(s.expiry) = s.expiry /\ Residue(t.expiry) = t.expiry
  BY <1>3, ResidueOfSmall, NoteHashesAssumption
<1>5. \A id : SwapAddressToField(id) = Residue(id)
  BY DEF SwapAddressToField, Residue
<1>6. BindingTag(s) = BindingTag(t) <=>
        /\ Residue(s.intent) = Residue(t.intent)
        /\ SwapAddressToField(s.refundTo) = SwapAddressToField(t.refundTo)
        /\ Residue(s.ownerPk) = Residue(t.ownerPk)
        /\ SwapAddressToField(s.assetOut) = SwapAddressToField(t.assetOut)
        /\ s.expiry = t.expiry
  BY DigestsInjective DEF BindingTag
<1>. QED
  BY <1>2, <1>4, <1>5, <1>6

\* Two uses take the same proof if they pay the same recipient under the same tag.
LEMMA HashesEqual ==
  ASSUME NEW p \in Uses, NEW q \in Uses
  PROVE  ExpectedHash(p) = ExpectedHash(q) <=>
           \/ p.swap /\ q.swap /\ SameResidues(p.terms, q.terms)
           \/ ~p.swap /\ ~q.swap /\ Residue(p.to) = Residue(q.to) /\ p.tag = q.tag
           \/ PaysLike(p, q) \/ PaysLike(q, p)
<1>1. ASSUME NEW u \in Uses
      PROVE  u.swap \in BOOLEAN /\ (u.swap => u.terms \in SwapTerms)
  BY DEF Uses
<1>2. ASSUME NEW u \in Uses, u.swap
      PROVE  ExpectedHash(u) = Poseidon2(Residue(SwapId), BindingTag(u.terms))
  BY <1>2 DEF ExpectedHash, OwnershipHash, RecipientHash, SwapAddressToField, AddressToField,
              Residue
<1>3. ASSUME NEW u \in Uses, ~u.swap
      PROVE  ExpectedHash(u) = Poseidon2(Residue(u.to), u.tag)
  BY <1>3 DEF ExpectedHash, RecipientHash, AddressToField, Residue
<1>4. CASE p.swap /\ q.swap
  <2>1. ExpectedHash(p) = ExpectedHash(q) <=> BindingTag(p.terms) = BindingTag(q.terms)
    BY <1>2, <1>4, DigestsInjective
  <2>2. p.terms \in SwapTerms /\ q.terms \in SwapTerms
    BY <1>1, <1>4
  <2>3. BindingTag(p.terms) = BindingTag(q.terms) <=> SameResidues(p.terms, q.terms)
    BY <2>2, TagsEqual
  <2>. QED
    BY <1>4, <2>1, <2>3 DEF PaysLike
<1>5. CASE ~p.swap /\ ~q.swap
  <2>1. ExpectedHash(p) = ExpectedHash(q) <=> Residue(p.to) = Residue(q.to) /\ p.tag = q.tag
    BY <1>3, <1>5, DigestsInjective
  <2>. QED
    BY <1>5, <2>1 DEF PaysLike
<1>6. ASSUME NEW c \in Uses, NEW w \in Uses, c.swap, ~w.swap
      PROVE  ExpectedHash(c) = ExpectedHash(w) <=> PaysLike(w, c)
  <2>1. ExpectedHash(c) = ExpectedHash(w) <=>
          Residue(SwapId) = Residue(w.to) /\ BindingTag(c.terms) = w.tag
    BY <1>2, <1>3, <1>6, DigestsInjective
  <2>. QED
    BY <1>6, <2>1 DEF PaysLike
<1>7. CASE ~(p.swap <=> q.swap)
  <2>1. \/ p.swap /\ ~q.swap
        \/ ~p.swap /\ q.swap
    BY <1>1, <1>7
  <2>2. CASE p.swap /\ ~q.swap
    BY <1>6, <2>2 DEF PaysLike
  <2>3. CASE ~p.swap /\ q.swap
    BY <1>6, <2>3 DEF PaysLike
  <2>. QED
    BY <2>1, <2>2, <2>3
<1>. QED
  BY <1>1, <1>4, <1>5, <1>7

\* A commitment opens to one note, up to the modulus (compute_commitment of the
\* token), for every modulus that amounts stay below.
THEOREM CommitmentsBind == NoteHashesSpec => []CommitmentBinds
<1>1. ComparedOK => CommitmentBinds
  <2>. SUFFICES ASSUME ComparedOK, Comparing("notes")
                PROVE  CommitmentBinds
    BY DEF CommitmentBinds
  <2>1. PICK m, n \in Notes : compared = <<"notes", m, n>>
    BY DEF ComparedOK, Comparing
  <2>2. OutNoteBindingHash(m.rho, m.rcm) = OutNoteBindingHash(n.rho, n.rcm)
          <=> m.rho = n.rho /\ m.rcm = n.rcm
    BY DEF OutNoteBindingHash
  <2>. QED
    BY <2>1, <2>2, CommitmentsEqual DEF CommitmentBinds
<1>. QED
  BY <1>1, ComparedInvariant, PTL

\* An ownership proof is good for one recipient and one tag: a commit's for one set of
\* swap terms, and for the withdrawal to the swap contract under that very tag (unshield
\* of the token, commit_swap of the swap contract).
THEOREM ProofsBindTheirUse == NoteHashesSpec => []ProofBindsUse
<1>1. ComparedOK => ProofBindsUse
  <2>. SUFFICES ASSUME ComparedOK, Comparing("uses")
                PROVE  ProofBindsUse
    BY DEF ProofBindsUse
  <2>1. PICK p, q \in Uses : compared = <<"uses", p, q>>
    BY DEF ComparedOK, Comparing
  <2>. QED
    BY <2>1, HashesEqual DEF ProofBindsUse
<1>. QED
  BY <1>1, ComparedInvariant, PTL

---------------------------------------------------------------------------
(* Viewing keys. *)

Cursors == 0..(Len(sent) + 1)

\* Types, and no cursor past the next ledger.
ViewingShape ==
  /\ epoch \in Nat
  /\ sent \in Seq(0..epoch)
  /\ lastSync \in Cursors
  /\ syncing = [keys |-> syncing.keys, cursor |-> syncing.cursor]
  /\ syncing.cursor \in Cursors

\* What the auditor has reported is what it could read up to its cursor.
AuditInv ==
  /\ auditor = [epoch |-> auditor.epoch, birthday |-> auditor.birthday,
                lastSync |-> auditor.lastSync, cursor |-> auditor.cursor,
                reports |-> auditor.reports]
  /\ auditor.birthday \in Cursors
  /\ auditor.lastSync \in auditor.birthday..(Len(sent) + 1)
  /\ auditor.cursor \in auditor.birthday..(Len(sent) + 1)
  /\ auditor.reports \in Seq(Nat)
  /\ ReportsTheGrantedEpoch
  /\ Decryptable(auditor.birthday..(auditor.lastSync - 1), {auditor.epoch})
       \subseteq ToSet(auditor.reports)

\* What the wallet has found is all there is, of the ledgers before its cursors.
SyncInv ==
  /\ EveryEpochReceived
  /\ syncing # NotRunning =>
       /\ syncing.keys = 0..epoch
       /\ \A n \in DOMAIN sent : n < syncing.cursor => n \in found

\* A note more, or an epoch more, changes nothing about the ledgers before.
LEMMA SendNoteKeepsShape ==
  ASSUME ViewingShape, SendNote
  PROVE  /\ ViewingShape' /\ Len(sent') = Len(sent) + 1
         /\ DOMAIN sent' = 1..(Len(sent) + 1) /\ DOMAIN sent = 1..Len(sent) /\ Len(sent) \in Nat
         /\ \A n \in 1..Len(sent) : sent'[n] = sent[n]
         /\ sent'[Len(sent) + 1] \in 0..epoch
<1>1. PICK e \in 0..epoch : sent' = Append(sent, e)
  BY DEF SendNote
<1>2. sent \in Seq(0..epoch)
  BY DEF ViewingShape
<1>3. /\ Len(sent) \in Nat /\ DOMAIN sent = 1..Len(sent)
      /\ sent' \in Seq(0..epoch) /\ Len(sent') = Len(sent) + 1
      /\ DOMAIN sent' = 1..(Len(sent) + 1)
      /\ \A n \in 1..Len(sent) : sent'[n] = sent[n]
      /\ sent'[Len(sent) + 1] = e
  BY <1>1, <1>2
<1>4. UNCHANGED <<epoch, lastSync, syncing>>
  BY DEF SendNote
<1>5. Cursors \subseteq Cursors'
  BY <1>3 DEF Cursors
<1>6. ViewingShape'
  BY <1>3, <1>4, <1>5 DEF ViewingShape
<1>. QED
  BY <1>1, <1>3, <1>6

LEMMA ViewingShapeKept ==
  ASSUME ViewingShape, [ViewingNext]_viewingVars
  PROVE  ViewingShape'
<1>0. Len(sent) \in Nat
  BY DEF ViewingShape
<1>1. CASE SendNote
  BY <1>1, SendNoteKeepsShape
<1>2. CASE RotateViewingKey
  <2>1. epoch + 1 \in Nat /\ 0..epoch \subseteq 0..(epoch + 1) /\ epoch' = epoch + 1
    BY <1>2 DEF RotateViewingKey, ViewingShape
  <2>2. sent \in Seq(0..(epoch + 1))
    BY <2>1 DEF ViewingShape
  <2>3. UNCHANGED <<sent, lastSync, syncing>>
    BY <1>2 DEF RotateViewingKey
  <2>. QED
    BY <2>1, <2>2, <2>3 DEF ViewingShape, Cursors
<1>3. CASE FetchPage
  <2>1. PICK last \in syncing.cursor..Len(sent) : syncing' = [syncing EXCEPT !.cursor = last + 1]
    BY <1>3 DEF FetchPage
  <2>2. last + 1 \in Cursors
    BY <1>0, <2>1 DEF ViewingShape, Cursors
  <2>3. syncing' = [keys |-> syncing.keys, cursor |-> last + 1]
    BY <2>1 DEF ViewingShape
  <2>4. UNCHANGED <<sent, epoch, lastSync>>
    BY <1>3 DEF FetchPage
  <2>. QED
    BY <2>2, <2>3, <2>4 DEF ViewingShape, Cursors
<1>4. CASE StartSync
  BY <1>4 DEF StartSync, ViewingShape, Cursors
<1>5. CASE EndSync
  BY <1>0, <1>5 DEF EndSync, NotRunning, ViewingShape, Cursors
<1>6. CASE SyncThrows
  BY <1>0, <1>6 DEF SyncThrows, NotRunning, ViewingShape, Cursors
<1>7. CASE Restart
  BY <1>0, <1>7 DEF Restart, NotRunning, ViewingShape, Cursors
<1>8. CASE RegisterKey \/ RevokeKey \/ Grant \/ AuditPage \/ EndAudit \/ UNCHANGED viewingVars
  <2>1. UNCHANGED <<sent, epoch, lastSync, syncing>>
    BY <1>8 DEF RegisterKey, RevokeKey, Grant, AuditPage, EndAudit, walletVars, viewingVars
  <2>. QED
    BY <2>1 DEF ViewingShape, Cursors
<1>. QED
  BY <1>1, <1>2, <1>3, <1>4, <1>5, <1>6, <1>7, <1>8 DEF ViewingNext

LEMMA ViewingShapeInit == ViewingInit => ViewingShape
<1>. SUFFICES ASSUME ViewingInit PROVE ViewingShape
  OBVIOUS
<1>1. epoch = 0 /\ sent = <<>> /\ lastSync = 0 /\ syncing = NotRunning
  BY DEF ViewingInit
<1>2. sent \in Seq(0..0) /\ Len(sent) = 0
  BY <1>1
<1>. QED
  BY <1>1, <1>2 DEF ViewingShape, Cursors, NotRunning

---------------------------------------------------------------------------
(* The auditor. *)

\* A page more: what is new in it is appended, in order.
LEMMA AuditPageKeeps ==
  ASSUME ViewingShape, AuditInv, AuditPage
  PROVE  AuditInv'
<1>. DEFINE old == auditor.reports
<1>1. PICK last \in auditor.cursor..Len(sent) :
        LET readable == Decryptable(auditor.cursor..last, {auditor.epoch})
        IN  auditor' = [auditor EXCEPT !.cursor = last + 1,
                          !.reports = @ \o Ascending(readable \ ToSet(@))]
  BY DEF AuditPage
<1>. DEFINE readable == Decryptable(auditor.cursor..last, {auditor.epoch})
            fresh == readable \ ToSet(old)
            new == old \o Ascending(fresh)
<1>2. /\ auditor'.epoch = auditor.epoch /\ auditor'.birthday = auditor.birthday
      /\ auditor'.lastSync = auditor.lastSync /\ auditor'.cursor = last + 1
      /\ auditor'.reports = new
      /\ auditor' = [epoch |-> auditor'.epoch, birthday |-> auditor'.birthday,
                     lastSync |-> auditor'.lastSync, cursor |-> auditor'.cursor,
                     reports |-> auditor'.reports]
  <2>1. auditor = [epoch |-> auditor.epoch, birthday |-> auditor.birthday,
                   lastSync |-> auditor.lastSync, cursor |-> auditor.cursor, reports |-> old]
    BY DEF AuditInv
  <2>2. auditor' = [auditor EXCEPT !.cursor = last + 1, !.reports = new]
    BY <1>1
  <2>. HIDE DEF new
  <2>3. auditor' = [epoch |-> auditor.epoch, birthday |-> auditor.birthday,
                    lastSync |-> auditor.lastSync, cursor |-> last + 1, reports |-> new]
    BY <2>1, <2>2
  <2>. QED
    BY <2>3
<1>3. UNCHANGED sent
  BY DEF AuditPage, walletVars
<1>4. /\ Len(sent) \in Nat /\ DOMAIN sent = 1..Len(sent) /\ old \in Seq(Nat)
      /\ auditor.birthday \in Nat
      /\ auditor.cursor \in Nat /\ auditor.birthday <= auditor.cursor
      /\ last \in Nat /\ auditor.cursor <= last /\ last <= Len(sent)
  BY DEF ViewingShape, AuditInv, Cursors
<1>5. fresh \in SUBSET (0..Len(sent)) /\ fresh \cap ToSet(old) = {}
  BY <1>4 DEF Decryptable
<1>6. /\ Ascending(fresh) \in Seq(Nat) /\ IsInjective(Ascending(fresh)) /\ ToSet(Ascending(fresh)) = fresh
  <2>. HIDE DEF fresh
  <2>. QED
    BY <1>4, <1>5, AscendingSequence
<1>7. IsInjective(old)
  BY DEF AuditInv, ReportsTheGrantedEpoch
<1>8. new \in Seq(Nat) /\ IsInjective(new) /\ ToSet(new) = ToSet(old) \cup fresh
  <2>. HIDE DEF fresh, old
  <2>. QED
    BY <1>4, <1>5, <1>6, <1>7, ConcatInjective
<1>. HIDE DEF fresh, readable, old, new
<1>9. fresh \subseteq readable /\ readable \subseteq fresh \cup ToSet(old)
  BY DEF fresh
<1>10. readable \subseteq Decryptable(auditor.birthday..Len(sent), {auditor.epoch})
  BY <1>4 DEF readable, Decryptable
<1>11. Decryptable(auditor.birthday..last, {auditor.epoch})
         \subseteq Decryptable(auditor.birthday..(auditor.cursor - 1), {auditor.epoch})
                     \cup readable
  BY <1>4 DEF readable, Decryptable
<1>12. ReportsTheGrantedEpoch'
  <2>1. /\ ToSet(old) \subseteq Decryptable(auditor.birthday..Len(sent), {auditor.epoch})
        /\ Decryptable(auditor.birthday..(auditor.cursor - 1), {auditor.epoch}) \subseteq ToSet(old)
    BY DEF AuditInv, ReportsTheGrantedEpoch, old
  <2>2. ToSet(new) \subseteq Decryptable(auditor.birthday..Len(sent), {auditor.epoch})
    BY <1>8, <1>9, <1>10, <2>1
  <2>3. Decryptable(auditor.birthday..last, {auditor.epoch}) \subseteq ToSet(new)
    BY <1>8, <1>9, <1>11, <2>1
  <2>4. (last + 1) - 1 = last
    BY <1>4
  <2>. QED
    BY <1>2, <1>3, <1>8, <2>2, <2>3, <2>4 DEF ReportsTheGrantedEpoch, Decryptable
<1>13. Decryptable(auditor.birthday..(auditor.lastSync - 1), {auditor.epoch}) \subseteq ToSet(new)
  BY <1>8 DEF AuditInv, old
<1>14. last + 1 \in auditor.birthday..(Len(sent) + 1)
  BY <1>4
<1>. QED
  BY <1>2, <1>3, <1>8, <1>12, <1>13, <1>14 DEF AuditInv, Cursors, Decryptable

\* What the others do: a note is sent, which nobody has read yet.
LEMMA AuditOthersKeep ==
  ASSUME ViewingShape, AuditInv, auditor' = auditor,
         Len(sent) \in Nat, Len(sent') \in Nat, Len(sent) <= Len(sent'),
         DOMAIN sent = 1..Len(sent), DOMAIN sent' = 1..Len(sent'),
         \A n \in 1..Len(sent) : sent'[n] = sent[n]
  PROVE  AuditInv'
<1>1. /\ auditor.birthday \in Nat /\ auditor.lastSync \in Nat /\ auditor.cursor \in Nat
      /\ auditor.lastSync <= Len(sent) + 1 /\ auditor.cursor <= Len(sent) + 1
  BY DEF AuditInv, Cursors
<1>2. ASSUME NEW ledgers, NEW keys
      PROVE  Decryptable(ledgers, keys) \subseteq Decryptable(ledgers, keys)'
  BY DEF Decryptable
<1>3. ASSUME NEW ledgers, NEW keys, ledgers \subseteq 0..Len(sent)
      PROVE  Decryptable(ledgers, keys)' \subseteq Decryptable(ledgers, keys)
  BY <1>3 DEF Decryptable
<1>4. /\ auditor.birthday..(auditor.lastSync - 1) \subseteq 0..Len(sent)
      /\ auditor.birthday..(auditor.cursor - 1) \subseteq 0..Len(sent)
  BY <1>1
<1>5. Decryptable(auditor.birthday..Len(sent), {auditor.epoch})
        \subseteq Decryptable(auditor.birthday..Len(sent), {auditor.epoch})'
  BY <1>1 DEF Decryptable
<1>6. /\ Decryptable(auditor.birthday..(auditor.lastSync - 1), {auditor.epoch})'
           \subseteq Decryptable(auditor.birthday..(auditor.lastSync - 1), {auditor.epoch})
      /\ Decryptable(auditor.birthday..(auditor.cursor - 1), {auditor.epoch})'
           \subseteq Decryptable(auditor.birthday..(auditor.cursor - 1), {auditor.epoch})
  BY <1>4 DEF Decryptable
<1>7. Cursors \subseteq Cursors'
  BY DEF Cursors
<1>8. /\ auditor.lastSync \in auditor.birthday..(Len(sent') + 1)
      /\ auditor.cursor \in auditor.birthday..(Len(sent') + 1)
  BY DEF AuditInv, Cursors
<1>9. ReportsTheGrantedEpoch'
  BY <1>5, <1>6 DEF AuditInv, ReportsTheGrantedEpoch
<1>10. (Decryptable(auditor.birthday..(auditor.lastSync - 1), {auditor.epoch})
         \subseteq ToSet(auditor.reports))'
  BY <1>6 DEF AuditInv
<1>. QED
  BY <1>7, <1>8, <1>9, <1>10 DEF AuditInv

\* The grant: there is nothing to report before the birthday.
LEMMA GrantKeeps ==
  ASSUME ViewingShape, Grant
  PROVE  AuditInv'
<1>1. /\ auditor' = [epoch |-> epoch, birthday |-> lastSync, lastSync |-> lastSync,
                     cursor |-> lastSync, reports |-> <<>>]
      /\ sent' = sent
  BY DEF Grant, walletVars
<1>2. Len(sent) \in Nat /\ lastSync \in 0..(Len(sent) + 1)
  BY DEF ViewingShape, Cursors
<1>3. lastSync..(lastSync - 1) = {}
  BY <1>2
<1>4. auditor'.reports = <<>> /\ <<>> \in Seq(Nat) /\ ToSet(<<>>) = {} /\ IsInjective(<<>>)
  BY <1>1 DEF ToSet, IsInjective
<1>5. ReportsTheGrantedEpoch'
  BY <1>1, <1>3, <1>4 DEF ReportsTheGrantedEpoch, Decryptable
<1>6. /\ auditor'.birthday = lastSync /\ auditor'.lastSync = lastSync /\ auditor'.cursor = lastSync
      /\ auditor'.epoch = epoch
  BY <1>1
<1>7. auditor' = [epoch |-> auditor'.epoch, birthday |-> auditor'.birthday,
                  lastSync |-> auditor'.lastSync, cursor |-> auditor'.cursor,
                  reports |-> auditor'.reports]
  BY <1>1
<1>8. lastSync \in Cursors' /\ lastSync \in lastSync..(Len(sent') + 1)
  BY <1>1, <1>2 DEF Cursors
<1>9. (Decryptable(auditor.birthday..(auditor.lastSync - 1), {auditor.epoch})
         \subseteq ToSet(auditor.reports))'
  BY <1>1, <1>3, <1>6 DEF Decryptable
<1>. QED
  BY <1>4, <1>5, <1>6, <1>7, <1>8, <1>9 DEF AuditInv

\* The auditor's sync ends, or starts over from where the last one ended.
LEMMA EndAuditKeeps ==
  ASSUME ViewingShape, AuditInv, EndAudit
  PROVE  AuditInv'
<1>1. sent' = sent
  BY DEF EndAudit, walletVars
<1>2. auditor = [epoch |-> auditor.epoch, birthday |-> auditor.birthday,
                 lastSync |-> auditor.lastSync, cursor |-> auditor.cursor,
                 reports |-> auditor.reports]
  BY DEF AuditInv
<1>3. PICK to \in {auditor.lastSync, auditor.cursor} :
        auditor' = [epoch |-> auditor.epoch, birthday |-> auditor.birthday,
                    lastSync |-> to, cursor |-> to, reports |-> auditor.reports]
  <2>1. CASE auditor' = [auditor EXCEPT !.lastSync = auditor.cursor]
    <3>1. auditor' = [epoch |-> auditor.epoch, birthday |-> auditor.birthday,
                      lastSync |-> auditor.cursor, cursor |-> auditor.cursor,
                      reports |-> auditor.reports]
      BY <1>2, <2>1
    <3>. QED
      BY <3>1
  <2>2. CASE auditor' = [auditor EXCEPT !.cursor = auditor.lastSync]
    <3>1. auditor' = [epoch |-> auditor.epoch, birthday |-> auditor.birthday,
                      lastSync |-> auditor.lastSync, cursor |-> auditor.lastSync,
                      reports |-> auditor.reports]
      BY <1>2, <2>2
    <3>. QED
      BY <3>1
  <2>. QED
    BY <2>1, <2>2 DEF EndAudit
<1>4. /\ auditor'.epoch = auditor.epoch /\ auditor'.birthday = auditor.birthday
      /\ auditor'.lastSync = to /\ auditor'.cursor = to /\ auditor'.reports = auditor.reports
  BY <1>3
<1>5. to \in auditor.birthday..(Len(sent) + 1)
  BY DEF AuditInv
<1>6. Decryptable(auditor.birthday..(to - 1), {auditor.epoch}) \subseteq ToSet(auditor.reports)
  BY DEF AuditInv, ReportsTheGrantedEpoch
<1>7. ReportsTheGrantedEpoch'
  BY <1>1, <1>4, <1>6 DEF AuditInv, ReportsTheGrantedEpoch, Decryptable
<1>8. (Decryptable(auditor.birthday..(auditor.lastSync - 1), {auditor.epoch})
         \subseteq ToSet(auditor.reports))'
  BY <1>1, <1>4, <1>6 DEF Decryptable
<1>9. auditor' = [epoch |-> auditor'.epoch, birthday |-> auditor'.birthday,
                  lastSync |-> auditor'.lastSync, cursor |-> auditor'.cursor,
                  reports |-> auditor'.reports]
  BY <1>3
<1>10. Cursors' = Cursors
  BY <1>1 DEF Cursors
<1>. QED
  BY <1>1, <1>4, <1>5, <1>7, <1>8, <1>9, <1>10 DEF AuditInv

LEMMA AuditInit == ViewingInit => AuditInv
<1>. SUFFICES ASSUME ViewingInit PROVE AuditInv
  OBVIOUS
<1>1. auditor = NoAuditor /\ sent = <<>> /\ Len(sent) = 0 /\ DOMAIN sent = {}
  BY DEF ViewingInit
<1>2. auditor.reports = <<>> /\ <<>> \in Seq(Nat) /\ ToSet(<<>>) = {} /\ IsInjective(<<>>)
  BY <1>1 DEF NoAuditor, ToSet, IsInjective
<1>3. \A ledgers, keys : Decryptable(ledgers, keys) = {}
  BY <1>1 DEF Decryptable
<1>4. ReportsTheGrantedEpoch
  BY <1>2, <1>3 DEF ReportsTheGrantedEpoch
<1>. QED
  BY <1>1, <1>2, <1>3, <1>4 DEF AuditInv, Cursors, NoAuditor

LEMMA AuditKept ==
  ASSUME ViewingShape, AuditInv, [ViewingNext]_viewingVars
  PROVE  AuditInv'
<1>0. Len(sent) \in Nat /\ DOMAIN sent = 1..Len(sent)
  BY DEF ViewingShape
<1>1. CASE SendNote
  <2>1. auditor' = auditor
    BY <1>1 DEF SendNote
  <2>2. /\ Len(sent') = Len(sent) + 1 /\ DOMAIN sent' = 1..(Len(sent) + 1)
        /\ \A n \in 1..Len(sent) : sent'[n] = sent[n]
    BY <1>1, SendNoteKeepsShape
  <2>3. Len(sent') \in Nat /\ Len(sent) <= Len(sent') /\ DOMAIN sent' = 1..Len(sent')
    BY <1>0, <2>2
  <2>. QED
    BY <1>0, <2>1, <2>2, <2>3, AuditOthersKeep
<1>2. CASE UNCHANGED <<sent, auditor>>
  BY <1>0, <1>2, AuditOthersKeep
<1>. QED
  BY <1>1, <1>2, AuditPageKeeps, GrantKeeps, EndAuditKeeps
     DEF ViewingNext, viewingVars, walletVars, RotateViewingKey, Restart, RegisterKey, RevokeKey,
         StartSync, FetchPage, EndSync, SyncThrows

\* An auditor reports exactly what was paid to its epoch since its birthday, each
\* receipt once, through any number of syncs, failures and rotations (auditor.ts).
THEOREM AuditorReportsItsEpoch == ViewingSpec => []ReportsTheGrantedEpoch
<1>1. ViewingInit => ViewingShape /\ AuditInv
  BY ViewingShapeInit, AuditInit
<1>2. (ViewingShape /\ AuditInv) /\ [ViewingNext]_viewingVars => (ViewingShape /\ AuditInv)'
  BY ViewingShapeKept, AuditKept
<1>3. AuditInv => ReportsTheGrantedEpoch
  BY DEF AuditInv
<1>. QED
  BY <1>1, <1>2, <1>3, PTL DEF ViewingSpec

---------------------------------------------------------------------------
(* The wallet. *)

LEMMA FetchPageKeepsSync ==
  ASSUME ViewingShape, SyncInv, FetchPage
  PROVE  SyncInv'
<1>1. PICK last \in syncing.cursor..Len(sent) :
        /\ found' = found \cup Decryptable(syncing.cursor..last, syncing.keys)
        /\ syncing' = [syncing EXCEPT !.cursor = last + 1]
  BY DEF FetchPage
<1>2. /\ syncing = [keys |-> syncing.keys, cursor |-> syncing.cursor]
      /\ Len(sent) \in Nat /\ DOMAIN sent = 1..Len(sent)
      /\ syncing.cursor \in Nat /\ last \in Nat /\ syncing.cursor <= last
      /\ \A n \in DOMAIN sent : sent[n] \in 0..epoch
  BY DEF ViewingShape, Cursors
<1>3. syncing.keys = 0..epoch /\ \A n \in DOMAIN sent : n < syncing.cursor => n \in found
  BY DEF SyncInv, FetchPage
<1>4. syncing' = [keys |-> syncing.keys, cursor |-> last + 1]
  BY <1>1, <1>2
<1>5. UNCHANGED <<sent, epoch, lastSync>>
  BY DEF FetchPage
<1>6. \A n \in DOMAIN sent : n < last + 1 => n \in found'
  <2>. SUFFICES ASSUME NEW n \in DOMAIN sent, n < last + 1, ~(n < syncing.cursor)
                PROVE  n \in found'
    BY <1>1, <1>3
  <2>1. n \in syncing.cursor..last
    BY <1>2
  <2>2. n \in Decryptable(syncing.cursor..last, syncing.keys)
    BY <1>2, <1>3, <2>1 DEF Decryptable
  <2>. QED
    BY <1>1, <2>2
<1>7. EveryEpochReceived'
  BY <1>1, <1>5 DEF SyncInv, EveryEpochReceived
<1>8. syncing'.keys = 0..epoch /\ syncing'.cursor = last + 1
  BY <1>3, <1>4
<1>. QED
  BY <1>5, <1>6, <1>7, <1>8 DEF SyncInv

LEMMA SyncKept ==
  ASSUME ViewingShape, SyncInv, [ViewingNext /\ RotatesBetweenSyncs]_viewingVars
  PROVE  SyncInv'
<1>0. Len(sent) \in Nat /\ DOMAIN sent = 1..Len(sent) /\ lastSync \in 0..(Len(sent) + 1)
      /\ syncing.cursor \in 0..(Len(sent) + 1)
  BY DEF ViewingShape, Cursors
<1>1. CASE SendNote
  <2>1. UNCHANGED <<epoch, lastSync, found, syncing>>
    BY <1>1 DEF SendNote
  <2>2. DOMAIN sent' = 1..(Len(sent) + 1)
    BY <1>1, SendNoteKeepsShape
  <2>3. \A n \in DOMAIN sent' : n < lastSync \/ n < syncing.cursor => n \in DOMAIN sent
    BY <1>0, <2>2
  <2>. QED
    BY <2>1, <2>3 DEF SyncInv, EveryEpochReceived
<1>2. CASE RotateViewingKey /\ RotatesBetweenSyncs
  <2>1. epoch' # epoch
    BY <1>2 DEF RotateViewingKey, ViewingShape
  <2>2. syncing' = NotRunning
    BY <1>2, <2>1 DEF RotatesBetweenSyncs, RotateViewingKey
  <2>. QED
    BY <1>2, <2>2 DEF RotateViewingKey, SyncInv, EveryEpochReceived
<1>3. CASE FetchPage
  BY <1>3, FetchPageKeepsSync
<1>4. CASE StartSync
  <2>1. syncing' = [keys |-> 0..epoch, cursor |-> lastSync]
    BY <1>4 DEF StartSync, EpochKeys
  <2>2. syncing'.keys = 0..epoch /\ syncing'.cursor = lastSync
    BY <2>1
  <2>3. UNCHANGED <<sent, epoch, lastSync, found>>
    BY <1>4 DEF StartSync
  <2>. QED
    BY <2>2, <2>3 DEF SyncInv, EveryEpochReceived
<1>5. CASE EndSync
  BY <1>5 DEF EndSync, SyncInv, EveryEpochReceived
<1>6. CASE SyncThrows
  BY <1>6 DEF SyncThrows, SyncInv, EveryEpochReceived
<1>7. CASE Restart
  <2>1. lastSync' = 0 /\ syncing' = NotRunning /\ sent' = sent
    BY <1>7 DEF Restart
  <2>2. \A n \in DOMAIN sent : ~(n < 0)
    BY <1>0
  <2>. QED
    BY <2>1, <2>2 DEF SyncInv, EveryEpochReceived
<1>8. CASE UNCHANGED walletVars
  BY <1>8 DEF walletVars, SyncInv, EveryEpochReceived
<1>. QED
  BY <1>1, <1>2, <1>3, <1>4, <1>5, <1>6, <1>7, <1>8
     DEF ViewingNext, viewingVars, RegisterKey, RevokeKey, Grant, AuditPage, EndAudit

\* The wallet receives what was paid to any of its epochs, however often it rotates
\* its key or starts over, if it does not rotate while a sync runs (wallet.ts).
THEOREM WalletReceivesEveryEpoch == RotatingSpec => []EveryEpochReceived
<1>1. ViewingInit => ViewingShape /\ SyncInv
  <2>1. ViewingInit => SyncInv
    BY DEF ViewingInit, SyncInv, EveryEpochReceived
  <2>. QED
    BY <2>1, ViewingShapeInit
<1>2. (ViewingShape /\ SyncInv) /\ [ViewingNext /\ RotatesBetweenSyncs]_viewingVars
        => (ViewingShape /\ SyncInv)'
  BY ViewingShapeKept, SyncKept
<1>3. SyncInv => EveryEpochReceived
  BY DEF SyncInv
<1>. QED
  BY <1>1, <1>2, <1>3, PTL DEF RotatingSpec
=============================================================================
