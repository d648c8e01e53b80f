---------------------------- MODULE ProofSystemProofs ----------------------------
(***************************************************************************)
(* What a proof is checked against: the pairing check of the verifier      *)
(* (Groth16.tla), for every odd modulus, base and width, and the tree of   *)
(* commitments (MerkleTree.tla), for every depth, batch size and length of *)
(* the window.                                                             *)
(*                                                                         *)
(* Encodings are injective, so that subtraction with borrow negates a      *)
(* point; the pairing check is then an equation modulo r, which is linear  *)
(* in what a batch adds up.                                                *)
(***************************************************************************)
EXTENDS Groth16, MerkleTree, DataTheorems

---------------------------------------------------------------------------
(* The pairing check: encodings. *)

Byte == 0..(Radix - 1)

\* The coordinates of a point are below q.
LEMMA Coordinates ==
  ASSUME NEW k \in Logarithms
  PROVE  X(k) \in 0..(FieldMod - 1) /\ Y(k) \in 0..(FieldMod - 1)
BY Groth16Assumption DEF X, Y, Logarithms

\* Different points have different coordinates.
LEMMA CoordinatesUnique ==
  ASSUME NEW k \in Logarithms, NEW l \in Logarithms, X(k) = X(l), Y(k) = Y(l)
  PROVE  k = l
BY Groth16Assumption DEF X, Y, Logarithms

\* The inverse of a point has the same x and, but for the neutral element, q - y.
LEMMA CoordinatesOfInverse ==
  /\ \A k \in Logarithms \ {0} :
       ScalarMod - k \in Logarithms /\ X(ScalarMod - k) = X(k)
         /\ Y(ScalarMod - k) = FieldMod - Y(k) /\ Y(k) # 0
  /\ X(0) = 0 /\ Y(0) = 0
<1>1. ASSUME NEW k \in Logarithms PROVE 2 * k # ScalarMod
  <2>1. (k * 2 + 0) % 2 = 0
    BY DivisionUnique DEF Logarithms
  <2>. QED
    BY <2>1, Groth16Assumption DEF Logarithms
<1>. QED
  BY <1>1, Groth16Assumption DEF X, Y, Logarithms

\* Digits write down a number, and only that one.
LEMMA DigitsWrite ==
  ASSUME NEW n \in 0..(FieldMod)
  PROVE  /\ Digits(n) \in [1..Width -> Byte]
         /\ LowFirst(Digits(n)) = DigitsOf(n, Radix, Width)
         /\ Number(Digits(n)) = n
<1>. DEFINE x == DigitsOf(n, Radix, Width)
            p == Power(Radix, Width)
<1>1. Radix \in Nat \ {0} /\ Width \in Nat /\ n \in Nat /\ Width \in 0..Width
  BY Groth16Assumption
<1>2. x \in [0..(Width - 1) -> Byte] /\ LowValue(x, Radix, Width) = n % p
  <2>1. /\ DigitsOf(n, Radix, Width) \in [0..(Width - 1) -> 0..(Radix - 1)]
        /\ \A k \in 0..Width : LowValue(DigitsOf(n, Radix, Width), Radix, k) = n % Power(Radix, k)
    BY <1>1, DigitsValue
  <2>. QED
    BY <1>1, <2>1 DEF Byte
<1>3. p \in Nat \ {0} /\ n < p
  <2>1. p \in Nat \ {0}
    BY <1>1, PowerFacts
  <2>. QED
    BY <2>1, Groth16Assumption
<1>. HIDE DEF x, p
<1>4. n % p = n
  BY <1>1, <1>3
<1>5. \A i \in 1..Width : Width - i \in 0..(Width - 1)
  BY <1>1
<1>6. \A i \in 0..(Width - 1) : Width - i \in 1..Width /\ Width - (Width - i) = i
  BY <1>1
<1>7. Digits(n) = [i \in 1..Width |-> x[Width - i]]
  BY DEF Digits, HighFirst, x
<1>8. Digits(n) \in [1..Width -> Byte]
  BY <1>2, <1>5, <1>7
<1>9. LowFirst(Digits(n)) = x
  <2>1. \A i \in 0..(Width - 1) : Digits(n)[Width - i] = x[i]
    BY <1>6, <1>7
  <2>2. LowFirst(Digits(n)) = [i \in 0..(Width - 1) |-> x[i]]
    BY <2>1 DEF LowFirst
  <2>. QED
    BY <1>2, <2>2
<1>. QED
  BY <1>2, <1>4, <1>8, <1>9 DEF Number, x

LEMMA NumberRead ==
  ASSUME NEW d \in [1..Width -> Byte]
  PROVE  /\ LowFirst(d) \in [0..(Width - 1) -> Byte]
         /\ HighFirst(LowFirst(d)) = d
         /\ Number(d) \in 0..(Power(Radix, Width) - 1)
<1>1. Radix \in Nat \ {0} /\ Width \in Nat /\ Width \in 0..Width
  BY Groth16Assumption
<1>2. \A i \in 0..(Width - 1) : Width - i \in 1..Width
  BY <1>1
<1>3. LowFirst(d) \in [0..(Width - 1) -> Byte]
  BY <1>2 DEF LowFirst
<1>4. \A i \in 1..Width : Width - i \in 0..(Width - 1) /\ Width - (Width - i) = i
  BY <1>1
<1>5. HighFirst(LowFirst(d)) = d
  BY <1>4 DEF HighFirst, LowFirst
<1>6. \A i \in 0..(Width - 1) : LowFirst(d)[i] \in 0..(Radix - 1)
  BY <1>3 DEF Byte
<1>7. LowValue(LowFirst(d), Radix, Width) \in 0..(Power(Radix, Width) - 1)
  BY <1>1, <1>6, LowValueBounds
<1>. QED
  BY <1>3, <1>5, <1>7 DEF Number

\* Every number below base^Width has one numeral.
LEMMA NumberUnique ==
  ASSUME NEW d \in [1..Width -> Byte], NEW e \in [1..Width -> Byte], Number(d) = Number(e)
  PROVE  d = e
<1>1. LowFirst(d) \in [0..(Width - 1) -> Byte] /\ LowFirst(e) \in [0..(Width - 1) -> Byte]
  BY NumberRead
<1>2. LowFirst(d) = LowFirst(e)
  <2>1. Radix \in Nat \ {0} /\ Width \in Nat
    BY Groth16Assumption
  <2>2. LowValue(LowFirst(d), Radix, Width) = LowValue(LowFirst(e), Radix, Width)
    BY DEF Number
  <2>3. LowFirst(d) \in [0..(Width - 1) -> 0..(Radix - 1)] /\ LowFirst(e) \in [0..(Width - 1) -> 0..(Radix - 1)]
    BY <1>1 DEF Byte
  <2>. QED
    BY <2>1, <2>2, <2>3, NumeralsUnique
<1>. QED
  BY <1>2, NumberRead

---------------------------------------------------------------------------
(* Bytes in a row. *)

LEMMA SameSequence ==
  ASSUME NEW D, NEW s \in Seq(D), NEW t \in Seq(D), Len(s) = Len(t), \A i \in 1..Len(s) : s[i] = t[i]
  PROVE  s = t
<1>1. s = [i \in 1..Len(s) |-> s[i]] /\ t = [i \in 1..Len(t) |-> t[i]]
  OBVIOUS
<1>. QED
  BY <1>1

LEMMA SliceIs ==
  ASSUME NEW D, NEW s \in Seq(D), NEW o \in Nat, NEW c \in Nat, o + c <= Len(s)
  PROVE  /\ Slice(s, o, c) \in Seq(D) /\ Len(Slice(s, o, c)) = c
         /\ \A i \in 1..c : Slice(s, o, c)[i] = s[o + i]
BY DEF Slice

LEMMA SliceOfFirst ==
  ASSUME NEW D, NEW s \in Seq(D), NEW t \in Seq(D), NEW o \in Nat, NEW c \in Nat, o + c <= Len(s)
  PROVE  Slice(s \o t, o, c) = Slice(s, o, c)
<1>1. s \o t \in Seq(D) /\ o + c <= Len(s \o t)
  OBVIOUS
<1>2. \A i \in 1..c : (s \o t)[o + i] = s[o + i]
  OBVIOUS
<1>. DEFINE a == Slice(s \o t, o, c)
            b == Slice(s, o, c)
<1>3. a \in Seq(D) /\ Len(a) = c /\ \A i \in 1..c : a[i] = (s \o t)[o + i]
  BY <1>1, SliceIs
<1>4. b \in Seq(D) /\ Len(b) = c /\ \A i \in 1..c : b[i] = s[o + i]
  BY SliceIs
<1>. HIDE DEF a, b
<1>5. a = b
  BY <1>2, <1>3, <1>4, SameSequence
<1>. QED
  BY <1>5 DEF a, b

LEMMA SliceOfSecond ==
  ASSUME NEW D, NEW s \in Seq(D), NEW t \in Seq(D), NEW o \in Nat, NEW c \in Nat, o + c <= Len(t)
  PROVE  Slice(s \o t, Len(s) + o, c) = Slice(t, o, c)
<1>1. s \o t \in Seq(D) /\ (Len(s) + o) + c <= Len(s \o t) /\ Len(s) + o \in Nat
  OBVIOUS
<1>2. \A i \in 1..c : (s \o t)[(Len(s) + o) + i] = t[o + i]
  OBVIOUS
<1>. DEFINE m == Len(s) + o
            a == Slice(s \o t, m, c)
            b == Slice(t, o, c)
<1>3. a \in Seq(D) /\ Len(a) = c /\ \A i \in 1..c : a[i] = (s \o t)[m + i]
  <2>. HIDE DEF m
  <2>1. s \o t \in Seq(D) /\ m \in Nat /\ m + c <= Len(s \o t)
    BY <1>1 DEF m
  <2>. QED
    BY <2>1, SliceIs
<1>4. b \in Seq(D) /\ Len(b) = c /\ \A i \in 1..c : b[i] = t[o + i]
  BY SliceIs
<1>. HIDE DEF a, b
<1>5. a = b
  BY <1>2, <1>3, <1>4, SameSequence
<1>. QED
  BY <1>5 DEF a, b

LEMMA SliceOfAll ==
  ASSUME NEW D, NEW s \in Seq(D)
  PROVE  Slice(s, 0, Len(s)) = s
<1>. DEFINE o == 0
            c == Len(s)
<1>1. o \in Nat /\ c \in Nat /\ o + c <= Len(s) /\ \A i \in 1..c : o + i = i
  OBVIOUS
<1>. HIDE DEF o, c
<1>2. /\ Slice(s, o, c) \in Seq(D) /\ Len(Slice(s, o, c)) = c
      /\ \A i \in 1..c : Slice(s, o, c)[i] = s[o + i]
  BY <1>1, SliceIs
<1>3. Slice(s, o, c) = s
  BY <1>1, <1>2, SameSequence DEF c
<1>. QED
  BY <1>3 DEF o, c
---------------------------------------------------------------------------
(* Points. *)

LEMMA PointLengths ==
  /\ G1Len \in Nat \ {0} /\ G2Len \in Nat \ {0} /\ G1Len = Width + Width /\ G2Len = G1Len + G1Len
  /\ Width \in Nat \ {0} /\ Width < G1Len /\ G1Len # G2Len
  /\ VkFixedLen = G1Len + G2Len + G2Len + G2Len /\ ProofLen = G1Len + G2Len + G1Len
BY Groth16Assumption DEF G1Len, G2Len, VkFixedLen, ProofLen

LEMMA DigitsBytes ==
  ASSUME NEW n \in 0..FieldMod
  PROVE  Digits(n) \in Seq(Byte) /\ Len(Digits(n)) = Width
<1>1. Digits(n) \in [1..Width -> Byte] /\ Width \in Nat
  BY DigitsWrite, Groth16Assumption
<1>. QED
  BY <1>1

LEMMA PointBytes ==
  ASSUME NEW k \in Logarithms
  PROVE  /\ G1(k) \in Seq(Byte) /\ Len(G1(k)) = G1Len
         /\ G2(k) \in Seq(Byte) /\ Len(G2(k)) = G2Len
<1>1. X(k) \in 0..FieldMod /\ Y(k) \in 0..FieldMod /\ 0 \in 0..FieldMod
  BY Coordinates, Groth16Assumption
<1>. DEFINE z == Digits(0)  x == Digits(X(k))  y == Digits(Y(k))
<1>2. /\ z \in Seq(Byte) /\ Len(z) = Width
      /\ x \in Seq(Byte) /\ Len(x) = Width
      /\ y \in Seq(Byte) /\ Len(y) = Width
  BY <1>1, DigitsBytes
<1>. HIDE DEF x, y, z
<1>3. x \o y \in Seq(Byte) /\ Len(x \o y) = Width + Width
  BY <1>2, PointLengths
<1>4. z \o x \o z \o y \in Seq(Byte) /\ Len(z \o x \o z \o y) = Width + Width + Width + Width
  BY <1>2, PointLengths
<1>. QED
  BY <1>3, <1>4, PointLengths DEF G1, G2, x, y, z

\* The second coordinate, and the first.
LEMMA PointCoordinates ==
  ASSUME NEW k \in Logarithms
  PROVE  /\ Slice(G1(k), 0, Width) = Digits(X(k)) /\ Slice(G1(k), Width, Width) = Digits(Y(k))
         /\ Slice(G2(k), Width, Width) = Digits(X(k))
         /\ Slice(G2(k), Width + Width + Width, Width) = Digits(Y(k))
<1>1. X(k) \in 0..FieldMod /\ Y(k) \in 0..FieldMod /\ 0 \in 0..FieldMod
  BY Coordinates, Groth16Assumption
<1>. DEFINE z == Digits(0)  x == Digits(X(k))  y == Digits(Y(k))
<1>2. /\ z \in Seq(Byte) /\ Len(z) = Width
      /\ x \in Seq(Byte) /\ Len(x) = Width
      /\ y \in Seq(Byte) /\ Len(y) = Width
  BY <1>1, DigitsBytes
<1>. HIDE DEF x, y, z
<1>3. Width \in Nat
  BY PointLengths
<1>4. Slice(x \o y, 0, Width) = x
  BY <1>2, <1>3, SliceOfFirst, SliceOfAll
<1>5. Slice(x \o y, Width, Width) = y
  <2>1. Slice(x \o y, Len(x) + 0, Width) = Slice(y, 0, Width)
    BY <1>2, <1>3, SliceOfSecond
  <2>. QED
    BY <1>2, <1>3, <2>1, SliceOfAll
<1>. DEFINE zx == z \o x
            zxz == zx \o z
<1>6. zx \in Seq(Byte) /\ Len(zx) = Width + Width
  BY <1>2, <1>3
<1>7. Slice(zx, Width, Width) = x
  <2>1. Slice(z \o x, Len(z) + 0, Width) = Slice(x, 0, Width)
    BY <1>2, <1>3, SliceOfSecond
  <2>. QED
    BY <1>2, <1>3, <2>1, SliceOfAll
<1>. HIDE DEF zx
<1>8. zxz \in Seq(Byte) /\ Len(zxz) = Width + Width + Width
  BY <1>2, <1>3, <1>6
<1>9. Slice(zxz, Width, Width) = x
  <2>1. Width + Width <= Len(zx)
    BY <1>3, <1>6
  <2>2. Slice(zx \o z, Width, Width) = Slice(zx, Width, Width)
    BY <1>2, <1>3, <1>6, <2>1, SliceOfFirst
  <2>. QED
    BY <1>7, <2>2
<1>. HIDE DEF zxz
<1>10. Slice(zxz \o y, Width, Width) = x
  <2>1. Width + Width <= Len(zxz)
    BY <1>3, <1>8
  <2>2. Slice(zxz \o y, Width, Width) = Slice(zxz, Width, Width)
    BY <1>2, <1>3, <1>8, <2>1, SliceOfFirst
  <2>. QED
    BY <1>9, <2>2
<1>11. Slice(zxz \o y, Width + Width + Width, Width) = y
  <2>. DEFINE o == 0
  <2>1. o \in Nat /\ o + Width <= Len(y) /\ Len(zxz) + o = Width + Width + Width
    BY <1>2, <1>3, <1>8
  <2>2. Slice(y, o, Width) = y
    BY <1>2, SliceOfAll
  <2>. HIDE DEF o
  <2>3. Slice(zxz \o y, Len(zxz) + o, Width) = Slice(y, o, Width)
    <3>1. zxz \in Seq(Byte) /\ y \in Seq(Byte) /\ o \in Nat /\ Width \in Nat /\ o + Width <= Len(y)
      BY <1>2, <1>3, <1>8, <2>1
    <3>. QED
      BY <3>1, SliceOfSecond
  <2>. QED
    BY <2>1, <2>2, <2>3
<1>. QED
  BY <1>4, <1>5, <1>10, <1>11 DEF G1, G2, x, y, z, zx, zxz

LEMMA PointsDiffer ==
  ASSUME NEW k \in Logarithms, NEW l \in Logarithms
  PROVE  /\ G1(k) = G1(l) => k = l
         /\ G2(k) = G2(l) => k = l
         /\ G1(k) # G2(l)
<1>1. Digits(X(k)) = Digits(X(l)) /\ Digits(Y(k)) = Digits(Y(l)) => k = l
  <2>1. /\ X(k) \in 0..FieldMod /\ Y(k) \in 0..FieldMod
        /\ X(l) \in 0..FieldMod /\ Y(l) \in 0..FieldMod
    BY Coordinates, Groth16Assumption
  <2>2. /\ Number(Digits(X(k))) = X(k) /\ Number(Digits(Y(k))) = Y(k)
        /\ Number(Digits(X(l))) = X(l) /\ Number(Digits(Y(l))) = Y(l)
    BY <2>1, DigitsWrite
  <2>. QED
    BY <2>2, CoordinatesUnique
<1>. QED
  BY <1>1, PointCoordinates, PointBytes, PointLengths

\* A decoded point is the one that was encoded.
LEMMA Decoding ==
  /\ \A k \in Logarithms : LogOf(G1(k)) = k /\ LogOf(G2(k)) = k
  /\ \A point : /\ LogOf(point) \in Logarithms \cup {NoPoint}
                /\ LogOf(point) # NoPoint =>
                     LogOf(point) \in Logarithms /\ point \in {G1(LogOf(point)), G2(LogOf(point))}
  /\ NoPoint \notin Logarithms
<1>1. NoPoint \notin Logarithms
  BY Groth16Assumption DEF NoPoint, Logarithms
<1>2. ASSUME NEW point
      PROVE  /\ LogOf(point) \in Logarithms \cup {NoPoint}
             /\ LogOf(point) # NoPoint =>
                  LogOf(point) \in Logarithms /\ point \in {G1(LogOf(point)), G2(LogOf(point))}
  BY DEF LogOf, Logarithms
<1>3. ASSUME NEW k \in Logarithms PROVE LogOf(G1(k)) = k /\ LogOf(G2(k)) = k
  <2>1. \A l \in Logarithms : G1(k) \in {G1(l), G2(l)} => l = k
    BY PointsDiffer
  <2>2. \A l \in Logarithms : G2(k) \in {G1(l), G2(l)} => l = k
    BY PointsDiffer
  <2>3. LogOf(G1(k)) = k
    BY <2>1 DEF LogOf, Logarithms
  <2>4. LogOf(G2(k)) = k
    BY <2>2 DEF LogOf, Logarithms
  <2>. QED
    BY <2>3, <2>4
<1>. QED
  BY <1>1, <1>2, <1>3

---------------------------------------------------------------------------
(* The inverse of a point. *)

\* A point is its two halves.
LEMMA Halves ==
  ASSUME NEW point \in Seq(Byte), Len(point) = G1Len
  PROVE  /\ Slice(point, 0, Width) \in [1..Width -> Byte]
         /\ Slice(point, Width, Width) \in [1..Width -> Byte]
         /\ Slice(point, 0, Width) \in Seq(Byte) /\ Len(Slice(point, 0, Width)) = Width
         /\ point = Slice(point, 0, Width) \o Slice(point, Width, Width)
<1>. DEFINE o == 0
            x == Slice(point, o, Width)
            y == Slice(point, Width, Width)
<1>1. Width \in Nat /\ o \in Nat /\ o + Width <= Len(point) /\ Width + Width <= Len(point)
  BY PointLengths
<1>2. \A i \in 1..Width : o + i = i
  BY <1>1
<1>. HIDE DEF o
<1>3. x \in Seq(Byte) /\ Len(x) = Width /\ \A i \in 1..Width : x[i] = point[o + i]
  BY <1>1, SliceIs
<1>4. y \in Seq(Byte) /\ Len(y) = Width /\ \A i \in 1..Width : y[i] = point[Width + i]
  BY <1>1, SliceIs
<1>. HIDE DEF x, y
<1>5. x \in [1..Width -> Byte] /\ y \in [1..Width -> Byte]
  BY <1>1, <1>3, <1>4
<1>6. x \o y \in Seq(Byte) /\ Len(x \o y) = G1Len
  <2>0. x \in Seq(Byte) /\ y \in Seq(Byte)
    BY <1>3, <1>4
  <2>1. Len(x \o y) = Len(x) + Len(y) /\ x \o y \in Seq(Byte)
    BY <2>0
  <2>. QED
    BY <1>3, <1>4, <2>1, PointLengths
<1>7. ASSUME NEW i \in 1..G1Len PROVE (x \o y)[i] = point[i]
  <2>1. CASE i \in 1..Width
    BY <1>2, <1>3, <1>4, <2>1
  <2>2. CASE i \notin 1..Width
    <3>1. i - Width \in 1..Width /\ Width + (i - Width) = i
      BY <1>1, <2>2, PointLengths
    <3>2. (x \o y)[i] = y[i - Width]
      <4>1. i \in 1..(Len(x) + Len(y)) /\ ~(i <= Len(x)) /\ Len(x) = Width
        BY <1>3, <1>4, <1>1, <2>2, PointLengths
      <4>. QED
        BY <1>3, <1>4, <4>1
    <3>. QED
      BY <1>4, <3>1, <3>2
  <2>. QED
    BY <2>1, <2>2
<1>8. x \o y = point
  BY <1>6, <1>7, SameSequence
<1>. QED
  BY <1>3, <1>5, <1>8 DEF o, x, y

\* What the subtraction with a borrow comes to.
LEMMA NegatedBytes ==
  ASSUME NEW point \in Seq(Byte), Len(point) = G1Len
  PROVE  LET n == Number(Slice(point, Width, Width))
         IN  NegateG1Bytes(point) =
               IF n \in 1..(FieldMod - 1) THEN Slice(point, 0, Width) \o Digits(FieldMod - n) ELSE point
<1>. DEFINE y == Slice(point, Width, Width)
            low == LowFirst(y)
            q == DigitsOf(FieldMod, Radix, Width)
            p == Power(Radix, Width)
            n == Number(y)
            z == Minus(q, low, Radix, Width)
<1>1. y \in [1..Width -> Byte]
  BY Halves
<1>2. n \in Nat /\ n = LowValue(low, Radix, Width) /\ low \in [0..(Width - 1) -> Byte]
  <2>. HIDE DEF y
  <2>1. p \in Nat
    BY PowerFacts, Groth16Assumption
  <2>2. n \in 0..(p - 1)
    BY <1>1, NumberRead
  <2>. QED
    BY <1>1, <2>1, <2>2, NumberRead DEF Number
<1>3. CASE n \notin 1..(FieldMod - 1)
  <2>1. n = 0 \/ n >= FieldMod
    BY <1>2, <1>3, Groth16Assumption
  <2>. QED
    BY <1>2, <1>3, <2>1 DEF NegateG1Bytes
<1>4. CASE n \in 1..(FieldMod - 1)
  <2>1. ~(n = 0 \/ n >= FieldMod) /\ FieldMod - n \in 0..FieldMod /\ FieldMod \in Nat
    BY <1>4, Groth16Assumption
  <2>2. Radix \in Nat \ {0} /\ Width \in Nat /\ Width \in 0..Width /\ p \in Nat \ {0} /\ FieldMod < p
    BY Groth16Assumption, PowerFacts
  <2>3. q \in [0..(Width - 1) -> 0..(Radix - 1)] /\ LowValue(q, Radix, Width) = FieldMod % p
    <3>1. FieldMod \in Nat
      BY <2>1
    <3>. HIDE DEF n, y
    <3>2. /\ q \in [0..(Width - 1) -> 0..(Radix - 1)]
          /\ \A k \in 0..Width : LowValue(q, Radix, k) = FieldMod % Power(Radix, k)
      BY <2>2, <3>1, DigitsValue
    <3>. HIDE DEF q
    <3>. QED
      BY <2>2, <3>2
  <2>4. FieldMod % p = FieldMod
    <3>. HIDE DEF p
    <3>. QED
      BY <2>1, <2>2
  <2>5. low \in [0..(Width - 1) -> 0..(Radix - 1)]
    BY <1>2 DEF Byte
  <2>6. z \in [0..(Width - 1) -> 0..(Radix - 1)]
        /\ LowValue(z, Radix, Width) = (LowValue(q, Radix, Width) - LowValue(low, Radix, Width)) % p
    <3>. HIDE DEF q, low
    <3>. QED
      BY <2>2, <2>3, <2>5, MinusValue
  <2>7. LowValue(z, Radix, Width) = FieldMod - n
    <3>. HIDE DEF p, z, q, low, n
    <3>1. FieldMod - n \in 0..(p - 1)
      BY <1>2, <2>1, <2>2, <1>4
    <3>2. (FieldMod - n) % p = FieldMod - n
      BY <2>2, <3>1
    <3>. QED
      BY <1>2, <2>3, <2>4, <2>6, <3>2
  <2>. HIDE DEF z
  <2>8. \A i \in 1..Width : Width - i \in 0..(Width - 1)
    BY <2>2
  <2>9. \A i \in 0..(Width - 1) : Width - i \in 1..Width /\ Width - (Width - i) = i
    BY <2>2
  <2>10. HighFirst(z) \in [1..Width -> Byte]
    BY <2>6, <2>8 DEF HighFirst, Byte
  <2>11. LowFirst(HighFirst(z)) = z
    <3>1. LowFirst(HighFirst(z)) = [i \in 0..(Width - 1) |-> z[i]]
      BY <2>9 DEF HighFirst, LowFirst
    <3>. QED
      BY <2>6, <3>1
  <2>12. Number(HighFirst(z)) = FieldMod - n
    BY <2>7, <2>11 DEF Number
  <2>13. HighFirst(z) = Digits(FieldMod - n)
    <3>1. Digits(FieldMod - n) \in [1..Width -> Byte] /\ Number(Digits(FieldMod - n)) = FieldMod - n
      BY <2>1, DigitsWrite
    <3>. HIDE DEF n
    <3>. QED
      BY <2>10, <2>12, <3>1, NumberUnique
  <2>14. NegateG1Bytes(point) = Slice(point, 0, Width) \o HighFirst(z)
    BY <1>2, <2>1 DEF NegateG1Bytes, z
  <2>. QED
    BY <1>4, <2>13, <2>14
<1>. QED
  BY <1>3, <1>4

Opposite(k) == IF k = 0 THEN 0 ELSE ScalarMod - k

\* Negating the bytes of a point gives those of its inverse, and of anything else no point.
LEMMA Negation ==
  ASSUME NEW point \in Seq(Byte), Len(point) = G1Len
  PROVE  LogOf(NegateG1Bytes(point)) =
           IF LogOf(point) = NoPoint THEN NoPoint ELSE Opposite(LogOf(point))
<1>. DEFINE x == Slice(point, 0, Width)
            y == Slice(point, Width, Width)
            n == Number(y)
            negated == NegateG1Bytes(point)
<1>1. /\ x \in [1..Width -> Byte] /\ y \in [1..Width -> Byte] /\ x \in Seq(Byte) /\ Len(x) = Width
      /\ point = x \o y
  BY Halves
<1>2. negated = IF n \in 1..(FieldMod - 1) THEN x \o Digits(FieldMod - n) ELSE point
  BY NegatedBytes
<1>3. ASSUME NEW k \in Logarithms, point = G1(k) PROVE LogOf(negated) = Opposite(k)
  <2>1. x = Digits(X(k)) /\ y = Digits(Y(k))
    BY <1>3, PointCoordinates
  <2>2. n = Y(k)
    <3>1. Y(k) \in 0..FieldMod
      BY Coordinates, Groth16Assumption
    <3>. QED
      BY <2>1, <3>1, DigitsWrite
  <2>. HIDE DEF n, x, negated
  <2>3. CASE k = 0
    <3>1. negated = point
      BY <1>2, <2>2, <2>3, CoordinatesOfInverse
    <3>. QED
      BY <1>3, <2>3, <3>1, Decoding DEF Opposite
  <2>4. CASE k # 0
    <3>1. n \in 1..(FieldMod - 1)
      BY <2>2, <2>4, Coordinates, CoordinatesOfInverse, Groth16Assumption
    <3>2. ScalarMod - k \in Logarithms /\ X(ScalarMod - k) = X(k) /\ Y(ScalarMod - k) = FieldMod - n
      BY <2>2, <2>4, CoordinatesOfInverse
    <3>3. negated = G1(ScalarMod - k)
      BY <1>2, <2>1, <3>1, <3>2 DEF G1
    <3>. QED
      BY <2>4, <3>2, <3>3, Decoding DEF Opposite
  <2>. QED
    BY <2>3, <2>4
<1>4. ASSUME LogOf(point) # NoPoint PROVE LogOf(negated) = Opposite(LogOf(point))
  <2>1. LogOf(point) \in Logarithms /\ point = G1(LogOf(point))
    BY <1>4, Decoding, PointBytes, PointLengths
  <2>. HIDE DEF negated
  <2>. QED
    BY <1>3, <2>1
<1>5. ASSUME LogOf(point) = NoPoint, LogOf(negated) # NoPoint PROVE FALSE
  <2>. DEFINE k == LogOf(negated)
  <2>1. n \in 1..(FieldMod - 1) /\ negated = x \o Digits(FieldMod - n)
    BY <1>2, <1>5
  <2>2. FieldMod - n \in 0..FieldMod /\ FieldMod - n \in 1..(FieldMod - 1) /\ n \in Nat
    BY <2>1, Groth16Assumption
  <2>. HIDE DEF n
  <2>3. Digits(FieldMod - n) \in Seq(Byte) /\ Len(Digits(FieldMod - n)) = Width
    BY <2>2, DigitsBytes
  <2>4. Len(negated) = G1Len
    <3>. DEFINE d == Digits(FieldMod - n)
    <3>. HIDE DEF d, x
    <3>1. Len(x \o d) = Len(x) + Len(d)
      BY <1>1, <2>3 DEF d
    <3>. QED
      BY <1>1, <2>1, <2>3, <3>1, PointLengths DEF d
  <2>5. k \in Logarithms /\ negated = G1(k)
    BY <1>5, <2>4, Decoding, PointBytes, PointLengths
  <2>. HIDE DEF k, negated
  <2>6. x = Digits(X(k)) /\ Digits(FieldMod - n) = Digits(Y(k))
    <3>1. Slice(negated, 0, Width) = Digits(X(k)) /\ Slice(negated, Width, Width) = Digits(Y(k))
      BY <2>5, PointCoordinates
    <3>. DEFINE d == Digits(FieldMod - n)
                o == 0
    <3>. HIDE DEF d, x
    <3>2. Width \in Nat /\ o \in Nat /\ o + Width <= Len(x) /\ o + Width <= Len(d) /\ Len(x) + o = Width
      BY <1>1, <2>3, PointLengths DEF d, x
    <3>3. Slice(x, o, Width) = x /\ Slice(d, o, Width) = d
      BY <1>1, <2>3, SliceOfAll DEF d
    <3>. HIDE DEF o
    <3>4. x \in Seq(Byte) /\ d \in Seq(Byte) /\ negated = x \o d
      BY <1>1, <2>1, <2>3 DEF d
    <3>5. Slice(x \o d, o, Width) = x
      BY <3>2, <3>3, <3>4, SliceOfFirst
    <3>6. Slice(x \o d, Len(x) + o, Width) = d
      BY <3>2, <3>3, <3>4, SliceOfSecond
    <3>. QED
      BY <3>1, <3>2, <3>4, <3>5, <3>6 DEF o, d
  <2>7. FieldMod - n = Y(k)
    <3>1. Y(k) \in 0..FieldMod
      BY <2>5, Coordinates, Groth16Assumption
    <3>. QED
      BY <2>2, <2>6, <3>1, DigitsWrite
  <2>8. k # 0
    BY <2>2, <2>7, CoordinatesOfInverse
  <2>. DEFINE l == ScalarMod - k
  <2>9. l \in Logarithms /\ X(l) = X(k) /\ Y(l) = n
    BY <2>2, <2>5, <2>7, <2>8, CoordinatesOfInverse, Groth16Assumption
  <2>. HIDE DEF l, y
  <2>10. y = Digits(Y(l))
    <3>1. Y(l) \in 0..FieldMod
      BY <2>9, Coordinates, Groth16Assumption
    <3>2. Number(y) = Number(Digits(Y(l))) /\ Digits(Y(l)) \in [1..Width -> Byte]
      BY <2>9, <3>1, DigitsWrite DEF n
    <3>. QED
      BY <1>1, <3>2, NumberUnique
  <2>11. point = G1(l)
    BY <1>1, <2>6, <2>9, <2>10 DEF G1
  <2>. QED
    BY <1>5, <2>9, <2>11, Decoding
<1>. QED
  BY <1>4, <1>5

---------------------------------------------------------------------------
(* The bytes of keys and proofs. *)

\* What is appended can be cut off again, and moves nothing before it.
LEMMA SliceOfJoin ==
  ASSUME NEW D, NEW s \in Seq(D), NEW t \in Seq(D), NEW n \in Nat, NEW m \in Nat, Len(s) = n, Len(t) = m
  PROVE  /\ s \o t \in Seq(D) /\ Len(s \o t) = n + m
         /\ Slice(s \o t, n, m) = t
         /\ \A o, c \in Nat : o + c <= n => Slice(s \o t, o, c) = Slice(s, o, c)
<1>1. s \o t \in Seq(D) /\ Len(s \o t) = n + m
  <2>1. s \o t \in Seq(D) /\ Len(s \o t) = Len(s) + Len(t)
    OBVIOUS
  <2>. QED
    BY <2>1
<1>2. Slice(s \o t, n, m) = t
  <2>. DEFINE o == 0
  <2>1. o \in Nat /\ o + m <= Len(t) /\ Len(s) + o = n
    OBVIOUS
  <2>2. Slice(t, o, m) = t
    BY SliceOfAll
  <2>. HIDE DEF o
  <2>3. Slice(s \o t, Len(s) + o, m) = Slice(t, o, m)
    BY <2>1, SliceOfSecond
  <2>. QED
    BY <2>1, <2>2, <2>3
<1>3. \A o, c \in Nat : o + c <= n => Slice(s \o t, o, c) = Slice(s, o, c)
  BY SliceOfFirst
<1>. QED
  BY <1>1, <1>2, <1>3

\* A proof is read as it was written.
LEMMA ProofDecodes ==
  ASSUME NEW p \in [a : Logarithms, b : Logarithms, c : Logarithms]
  PROVE  /\ ProofBytes(p) \in Seq(Byte) /\ Len(ProofBytes(p)) = ProofLen
         /\ ParseProof(ProofBytes(p)) = p
         /\ IsProof(ProofBytes(p))
         /\ Slice(ProofBytes(p), 0, G1Len) = G1(p.a)
<1>. DEFINE a == G1(p.a)  b == G2(p.b)  c == G1(p.c)
            ab == a \o b
            o == 0
<1>1. p.a \in Logarithms /\ p.b \in Logarithms /\ p.c \in Logarithms
  OBVIOUS
<1>2. /\ a \in Seq(Byte) /\ Len(a) = G1Len
      /\ b \in Seq(Byte) /\ Len(b) = G2Len
      /\ c \in Seq(Byte) /\ Len(c) = G1Len
  BY <1>1, PointBytes
<1>3. /\ G1Len \in Nat /\ G2Len \in Nat /\ o \in Nat /\ G1Len + G2Len \in Nat
      /\ o + G1Len <= G1Len /\ o + G1Len <= G1Len + G2Len
  BY PointLengths
<1>. HIDE DEF a, b, c, o
<1>4. /\ ab \in Seq(Byte) /\ Len(ab) = G1Len + G2Len
      /\ Slice(ab, G1Len, G2Len) = b
      /\ \A i, j \in Nat : i + j <= G1Len => Slice(ab, i, j) = Slice(a, i, j)
  BY <1>2, <1>3, SliceOfJoin
<1>5. Slice(ab, o, G1Len) = a
  BY <1>2, <1>3, <1>4, SliceOfAll DEF o
<1>. HIDE DEF ab
<1>. DEFINE bytes == ab \o c
<1>6. /\ bytes \in Seq(Byte) /\ Len(bytes) = (G1Len + G2Len) + G1Len
      /\ Slice(bytes, G1Len + G2Len, G1Len) = c
      /\ \A i, j \in Nat : i + j <= G1Len + G2Len => Slice(bytes, i, j) = Slice(ab, i, j)
  <2>. DEFINE n == G1Len + G2Len
  <2>1. n \in Nat /\ Len(ab) = n
    BY <1>3, <1>4
  <2>. HIDE DEF n
  <2>2. /\ ab \o c \in Seq(Byte) /\ Len(ab \o c) = n + G1Len
        /\ Slice(ab \o c, n, G1Len) = c
        /\ \A i, j \in Nat : i + j <= n => Slice(ab \o c, i, j) = Slice(ab, i, j)
    <3>1. /\ ab \in Seq(Byte) /\ c \in Seq(Byte) /\ n \in Nat /\ G1Len \in Nat
          /\ Len(ab) = n /\ Len(c) = G1Len
      BY <1>2, <1>3, <1>4, <2>1
    <3>. QED
      BY <3>1, SliceOfJoin
  <2>. QED
    BY <2>2 DEF n
<1>7. Slice(bytes, o, G1Len) = a /\ Slice(bytes, G1Len, G2Len) = b
  BY <1>3, <1>4, <1>5, <1>6
<1>8. ProofBytes(p) = bytes
  BY DEF ProofBytes, a, b, c, ab
<1>. HIDE DEF bytes
<1>9. ParseProof(bytes) = [a |-> p.a, b |-> p.b, c |-> p.c]
  <2>1. LogOf(a) = p.a /\ LogOf(b) = p.b /\ LogOf(c) = p.c
    BY <1>1, Decoding DEF a, b, c
  <2>. QED
    BY <1>6, <1>7, <2>1 DEF ParseProof, o
<1>10. p = [a |-> p.a, b |-> p.b, c |-> p.c]
  OBVIOUS
<1>11. ParseProof(bytes) = p
  BY <1>9, <1>10
<1>12. Len(bytes) = ProofLen
  BY <1>6, PointLengths
<1>13. IsProof(bytes)
  BY <1>1, <1>11, <1>12, Decoding DEF IsProof
<1>. QED
  BY <1>6, <1>7, <1>8, <1>11, <1>12, <1>13 DEF a, o

\* The IC is its points one after the other.
LEMMA IcDecodes ==
  ASSUME NEW ic \in Seq(Logarithms)
  PROVE  /\ IcBytes(ic) \in Seq(Byte) /\ Len(IcBytes(ic)) = Len(ic) * G1Len
         /\ \A i \in 1..Len(ic) : /\ (i - 1) * G1Len \in Nat /\ (i - 1) * G1Len + G1Len <= Len(ic) * G1Len
                                  /\ Slice(IcBytes(ic), (i - 1) * G1Len, G1Len) = G1(ic[i])
<1>. DEFINE m == G1Len
            size == Len(ic) * m
            bytes == IcBytes(ic)
<1>1. m \in Nat \ {0} /\ Len(ic) \in Nat /\ size \in Nat
  BY PointLengths
<1>2. \A i \in 1..Len(ic) : ic[i] \in Logarithms /\ G1(ic[i]) \in Seq(Byte) /\ Len(G1(ic[i])) = m
  BY PointBytes
<1>3. bytes = [n \in 1..size |-> G1(ic[(n - 1) \div m + 1])[((n - 1) % m) + 1]]
  BY DEF IcBytes
<1>. HIDE DEF bytes
<1>4. ASSUME NEW n \in 1..size PROVE bytes[n] \in Byte
  <2>. DEFINE k == (n - 1) \div m
              j == (n - 1) % m
  <2>1. n - 1 \in Nat /\ n - 1 \in Int
    BY <1>1
  <2>2. k \in Int /\ j \in 0..(m - 1) /\ n - 1 = k * m + j
    <3>. DEFINE n1 == n - 1
    <3>. HIDE DEF m, n1
    <3>1. n1 \in Int
      BY <2>1 DEF n1
    <3>2. n1 \div m \in Int /\ n1 % m \in 0..(m - 1) /\ n1 = (n1 \div m) * m + (n1 % m)
      BY <1>1, <3>1, Division
    <3>. QED
      BY <3>2 DEF n1
  <2>3. bytes[n] = G1(ic[k + 1])[j + 1]
    BY <1>3
  <2>. HIDE DEF k, j
  <2>4. k >= 0
    <3>. HIDE DEF m
    <3>1. k * m + j >= 0 /\ j < m
      BY <1>1, <2>1, <2>2
    <3>2. ASSUME k <= -1 PROVE FALSE
      <4>1. k * m <= (-1) * m
        BY <1>1, <2>2, <3>2
      <4>. QED
        BY <1>1, <2>2, <3>1, <4>1
    <3>. QED
      BY <2>2, <3>2
  <2>5. k < Len(ic)
    <3>. HIDE DEF m
    <3>1. k * m + j < Len(ic) * m /\ k * m \in Int /\ Len(ic) * m \in Int
      BY <1>1, <2>1, <2>2 DEF size
    <3>2. ASSUME k >= Len(ic) PROVE FALSE
      <4>1. k * m >= Len(ic) * m
        BY <1>1, <2>2, <3>2
      <4>. QED
        BY <1>1, <2>2, <3>1, <4>1
    <3>. QED
      BY <1>1, <2>2, <3>2
  <2>6. k + 1 \in 1..Len(ic) /\ j + 1 \in 1..m
    BY <1>1, <2>2, <2>4, <2>5
  <2>. QED
    BY <1>2, <2>3, <2>6
<1>5. bytes \in Seq(Byte) /\ Len(bytes) = size
  <2>. HIDE DEF size
  <2>1. bytes \in [1..size -> Byte]
    BY <1>3, <1>4
  <2>. QED
    BY <1>1, <2>1
<1>6. ASSUME NEW i \in 1..Len(ic)
      PROVE  (i - 1) * m \in Nat /\ (i - 1) * m + m <= size /\ Slice(bytes, (i - 1) * m, m) = G1(ic[i])
  <2>. DEFINE o == (i - 1) * m
  <2>1. i - 1 \in Nat /\ o \in Nat
    BY <1>1
  <2>2. o + m <= size
    <3>. HIDE DEF m
    <3>1. (i - 1) * m + m = i * m /\ i * m <= Len(ic) * m
      BY <1>1
    <3>. QED
      BY <3>1
  <2>3. \A j \in 1..m : bytes[o + j] = G1(ic[i])[j]
    <3>. TAKE j \in 1..m
    <3>1. j - 1 \in 0..(m - 1) /\ i - 1 \in Int
      BY <1>1
    <3>2. (o + (j - 1)) \div m = i - 1 /\ (o + (j - 1)) % m = j - 1
      <4>. DEFINE q == i - 1
                  r == j - 1
      <4>1. q \in Int /\ r \in 0..(m - 1)
        BY <3>1
      <4>. HIDE DEF m, q, r
      <4>2. (q * m + r) \div m = q /\ (q * m + r) % m = r
        BY <1>1, <4>1, DivisionUnique
      <4>. QED
        BY <4>2 DEF q, r
    <3>. HIDE DEF m, o, size
    <3>3. o + j \in 1..size /\ (o + j) - 1 = o + (j - 1) /\ (i - 1) + 1 = i /\ (j - 1) + 1 = j
      BY <1>1, <2>1, <2>2
    <3>4. bytes[o + j] = G1(ic[((o + j) - 1) \div m + 1])[(((o + j) - 1) % m) + 1]
      BY <1>3, <3>3
    <3>. QED
      BY <3>2, <3>3, <3>4
  <2>4. Slice(bytes, o, m) = G1(ic[i])
    <3>. HIDE DEF m, o, size
    <3>. DEFINE cut == Slice(bytes, o, m)
    <3>1. cut \in Seq(Byte) /\ Len(cut) = m /\ \A j \in 1..m : cut[j] = bytes[o + j]
      <4>1. m \in Nat /\ o + m <= Len(bytes)
        BY <1>1, <1>5, <2>2
      <4>. QED
        BY <1>5, <2>1, <4>1, SliceIs
    <3>. HIDE DEF cut
    <3>2. cut = G1(ic[i])
      BY <1>2, <2>3, <3>1, SameSequence
    <3>. QED
      BY <3>2 DEF cut
  <2>. QED
    BY <2>1, <2>2, <2>4
<1>. QED
  BY <1>5, <1>6 DEF bytes

KeyRecords == [alpha : Logarithms, beta : Logarithms, gamma : Logarithms, delta : Logarithms, ic : Seq(Logarithms)]

\* A key is read as it was written.
LEMMA KeyDecodes ==
  ASSUME NEW key \in KeyRecords
  PROVE  /\ KeyBytes(key) \in Seq(Byte) /\ Len(KeyBytes(key)) = VkFixedLen + Len(key.ic) * G1Len
         /\ ParseVk(KeyBytes(key)) = key
<1>. DEFINE a == G1(key.alpha)  b == G2(key.beta)  g == G2(key.gamma)  d == G2(key.delta)
            ic == IcBytes(key.ic)
            ab == a \o b
            abg == ab \o g
            fixed == abg \o d
            bytes == fixed \o ic
            one == G1Len
            two == G1Len + G2Len
            three == G1Len + 2 * G2Len
            four == VkFixedLen
            size == Len(key.ic) * G1Len
<1>1. /\ key.alpha \in Logarithms /\ key.beta \in Logarithms /\ key.gamma \in Logarithms
      /\ key.delta \in Logarithms /\ key.ic \in Seq(Logarithms)
  BY DEF KeyRecords
<1>2. /\ a \in Seq(Byte) /\ Len(a) = one
      /\ b \in Seq(Byte) /\ Len(b) = G2Len
      /\ g \in Seq(Byte) /\ Len(g) = G2Len
      /\ d \in Seq(Byte) /\ Len(d) = G2Len
      /\ ic \in Seq(Byte) /\ Len(ic) = size
  BY <1>1, PointBytes, IcDecodes
<1>3. /\ one \in Nat /\ one = 0 + one /\ 0 \in Nat /\ G2Len \in Nat /\ Len(key.ic) \in Nat
      /\ two \in Nat /\ two = one + G2Len /\ three \in Nat /\ three = two + G2Len
      /\ four \in Nat /\ four = three + G2Len /\ size \in Nat
  <2>1. Len(key.ic) \in Nat
    BY <1>1
  <2>2. size \in Nat
    <3>. DEFINE n == Len(key.ic)
    <3>. HIDE DEF n
    <3>1. n \in Nat /\ G1Len \in Nat
      BY <2>1, PointLengths DEF n
    <3>. QED
      BY <3>1 DEF n
  <2>3. two \in Nat /\ three = two + G2Len /\ four = three + G2Len
    BY PointLengths
  <2>. HIDE DEF size, three, four
  <2>. QED
    BY <2>1, <2>2, <2>3, PointLengths
<1>. HIDE DEF a, b, g, d, ic, one, two, three, four, size
<1>4. /\ ab \in Seq(Byte) /\ Len(ab) = two
      /\ Slice(ab, one, G2Len) = b
      /\ \A i, j \in Nat : i + j <= one => Slice(ab, i, j) = Slice(a, i, j)
  <2>1. a \in Seq(Byte) /\ b \in Seq(Byte) /\ one \in Nat /\ G2Len \in Nat /\ Len(a) = one /\ Len(b) = G2Len
    BY <1>2, <1>3
  <2>. QED
    BY <1>3, <2>1, SliceOfJoin
<1>. HIDE DEF ab
<1>5. /\ abg \in Seq(Byte) /\ Len(abg) = three
      /\ Slice(abg, two, G2Len) = g
      /\ \A i, j \in Nat : i + j <= two => Slice(abg, i, j) = Slice(ab, i, j)
  <2>1. ab \in Seq(Byte) /\ g \in Seq(Byte) /\ two \in Nat /\ G2Len \in Nat /\ Len(ab) = two /\ Len(g) = G2Len
    BY <1>2, <1>3, <1>4
  <2>. QED
    BY <1>3, <2>1, SliceOfJoin
<1>. HIDE DEF abg
<1>6. /\ fixed \in Seq(Byte) /\ Len(fixed) = four
      /\ Slice(fixed, three, G2Len) = d
      /\ \A i, j \in Nat : i + j <= three => Slice(fixed, i, j) = Slice(abg, i, j)
  <2>1. abg \in Seq(Byte) /\ d \in Seq(Byte) /\ three \in Nat /\ G2Len \in Nat /\ Len(abg) = three /\ Len(d) = G2Len
    BY <1>2, <1>3, <1>5
  <2>. QED
    BY <1>3, <2>1, SliceOfJoin
<1>. HIDE DEF fixed
<1>7. /\ bytes \in Seq(Byte) /\ Len(bytes) = four + size
      /\ Slice(bytes, four, size) = ic
      /\ \A i, j \in Nat : i + j <= four => Slice(bytes, i, j) = Slice(fixed, i, j)
  <2>1. fixed \in Seq(Byte) /\ ic \in Seq(Byte) /\ four \in Nat /\ size \in Nat /\ Len(fixed) = four /\ Len(ic) = size
    BY <1>2, <1>3, <1>6
  <2>. QED
    BY <2>1, SliceOfJoin
<1>8. KeyBytes(key) = bytes
  BY DEF KeyBytes, a, b, g, d, ic, ab, abg, fixed
<1>9. \A i \in 1..Len(key.ic) : Slice(bytes, four + (i - 1) * one, one) = G1(key.ic[i])
  <2>. TAKE i \in 1..Len(key.ic)
  <2>. DEFINE o == (i - 1) * one
  <2>1. o \in Nat /\ o + one <= size /\ Slice(ic, o, one) = G1(key.ic[i])
    BY <1>1, IcDecodes DEF one, size, ic
  <2>. HIDE DEF o
  <2>2. fixed \in Seq(Byte) /\ ic \in Seq(Byte) /\ one \in Nat /\ o + one <= Len(ic)
    BY <1>2, <1>3, <1>6, <2>1
  <2>3. Slice(fixed \o ic, Len(fixed) + o, one) = Slice(ic, o, one)
    BY <2>1, <2>2, SliceOfSecond
  <2>. QED
    BY <1>6, <2>1, <2>3 DEF o
<1>. HIDE DEF bytes
<1>10. /\ Slice(bytes, 0, one) = a /\ Slice(bytes, one, G2Len) = b
       /\ Slice(bytes, two, G2Len) = g /\ Slice(bytes, three, G2Len) = d
  <2>1. 0 + one <= one /\ 0 + one <= two /\ 0 + one <= three /\ 0 + one <= four
        /\ one + G2Len <= two /\ one + G2Len <= three /\ one + G2Len <= four
        /\ two + G2Len <= three /\ two + G2Len <= four /\ three + G2Len <= four
    BY <1>3
  <2>2. Slice(a, 0, one) = a
    BY <1>2, SliceOfAll
  <2>3. Slice(bytes, 0, one) = a
    BY <1>3, <1>4, <1>5, <1>6, <1>7, <2>1, <2>2
  <2>4. Slice(bytes, one, G2Len) = b
    BY <1>3, <1>4, <1>5, <1>6, <1>7, <2>1
  <2>5. Slice(bytes, two, G2Len) = g
    BY <1>3, <1>5, <1>6, <1>7, <2>1
  <2>6. Slice(bytes, three, G2Len) = d
    BY <1>3, <1>6, <1>7, <2>1
  <2>. QED
    BY <2>3, <2>4, <2>5, <2>6
<1>11. (Len(bytes) - four) \div one = Len(key.ic)
  <2>. DEFINE n == Len(key.ic)
              o == 0
  <2>1. n \in Int /\ o \in 0..(one - 1) /\ one \in Nat \ {0} /\ n * one + o = size /\ Len(bytes) - four = size
    BY <1>3, <1>7, PointLengths DEF one, size
  <2>. HIDE DEF n, o
  <2>2. (n * one + o) \div one = n
    BY <2>1, DivisionUnique
  <2>. QED
    BY <2>1, <2>2 DEF n
<1>12. ParseVk(bytes) = key
  <2>1. LogOf(a) = key.alpha /\ LogOf(b) = key.beta /\ LogOf(g) = key.gamma /\ LogOf(d) = key.delta
    BY <1>1, Decoding DEF a, b, g, d
  <2>2. \A i \in 1..Len(key.ic) : LogOf(Slice(bytes, four + (i - 1) * one, one)) = key.ic[i]
    BY <1>1, <1>9, Decoding
  <2>3. key.ic = [i \in 1..Len(key.ic) |-> key.ic[i]]
    BY <1>1
  <2>4. [i \in 1..((Len(bytes) - four) \div one) |-> LogOf(Slice(bytes, four + (i - 1) * one, one))] = key.ic
    BY <1>11, <2>2, <2>3
  <2>5. ParseVk(bytes) = [alpha |-> key.alpha, beta |-> key.beta, gamma |-> key.gamma,
                          delta |-> key.delta, ic |-> key.ic]
    BY <1>10, <2>1, <2>4 DEF ParseVk, one, two, three, four
  <2>6. key = [alpha |-> key.alpha, beta |-> key.beta, gamma |-> key.gamma,
               delta |-> key.delta, ic |-> key.ic]
    BY DEF KeyRecords
  <2>. QED
    BY <2>5, <2>6
<1>. QED
  BY <1>7, <1>8, <1>12 DEF four, size

---------------------------------------------------------------------------
(* The equation. *)

ProofRecords == [a : Logarithms, b : Logarithms, c : Logarithms]
Canonical(inputs) == \A i \in DOMAIN inputs : Number(Reverse(inputs[i])) < ScalarMod
Values(inputs) == [i \in DOMAIN inputs |-> Number(Reverse(inputs[i]))]
Multiples(key, xs) == [i \in DOMAIN xs |-> xs[i] * key.ic[i + 1]]

\* Inputs come as they are unless one is refused.
LEMMA InputsToFr ==
  ASSUME NEW inputs \in InputLists
  PROVE  /\ Len(inputs) \in Nat /\ DOMAIN inputs = 1..Len(inputs)
         /\ ToFr(inputs) \in Seq(Int) /\ Len(ToFr(inputs)) = Len(inputs)
         /\ NonCanonical \notin Range(ToFr(inputs)) <=> Canonical(inputs)
         /\ Canonical(inputs) => ToFr(inputs) = Values(inputs)
<1>. DEFINE n == Len(inputs)
<1>1. inputs \in Seq([1..Width -> Byte])
  BY Groth16Inputs DEF Byte
<1>2. n \in Nat /\ DOMAIN inputs = 1..n
  BY <1>1
<1>3. ASSUME NEW i \in 1..n PROVE Number(Reverse(inputs[i])) \in Nat
  <2>1. inputs[i] \in [1..Width -> Byte]
    BY <1>1, <1>2
  <2>. DEFINE d == inputs[i]
  <2>. HIDE DEF d
  <2>2. d \in Seq(Byte) /\ Len(d) = Width /\ d \in [1..Width -> Byte]
    <3>1. Width \in Nat
      BY Groth16Assumption
    <3>. QED
      BY <2>1, <3>1 DEF d
  <2>3. Reverse(d) \in [1..Width -> Byte]
    <3>1. \A j \in 1..Width : (Width - j) + 1 \in 1..Width
      BY Groth16Assumption
    <3>. QED
      BY <2>2, <3>1 DEF Reverse
  <2>4. Power(Radix, Width) \in Nat
    BY PowerFacts, Groth16Assumption
  <2>5. Number(Reverse(d)) \in 0..(Power(Radix, Width) - 1)
    BY <2>3, NumberRead
  <2>. QED
    BY <2>4, <2>5 DEF d
<1>4. \A i \in 1..n : ToFr(inputs)[i] = IF Number(Reverse(inputs[i])) < ScalarMod
                                        THEN Number(Reverse(inputs[i])) ELSE NonCanonical
  BY <1>2 DEF ToFr, PublicInputToFr
<1>5. DOMAIN ToFr(inputs) = 1..n /\ ToFr(inputs) = [i \in 1..n |-> ToFr(inputs)[i]]
  BY <1>2 DEF ToFr
<1>6. \A i \in 1..n : ToFr(inputs)[i] \in Int
  BY <1>3, <1>4, Groth16Assumption DEF NonCanonical
<1>7. ToFr(inputs) \in Seq(Int) /\ Len(ToFr(inputs)) = n
  BY <1>2, <1>5, <1>6
<1>8. NonCanonical \notin Range(ToFr(inputs)) <=> Canonical(inputs)
  <2>1. \A i \in 1..n : ToFr(inputs)[i] # NonCanonical <=> Number(Reverse(inputs[i])) < ScalarMod
    BY <1>3, <1>4, Groth16Assumption DEF NonCanonical
  <2>. QED
    BY <1>2, <1>5, <2>1 DEF Range, Canonical
<1>9. Canonical(inputs) => ToFr(inputs) = Values(inputs)
  BY <1>2, <1>4 DEF Canonical, Values, ToFr, PublicInputToFr
<1>. QED
  BY <1>2, <1>7, <1>8, <1>9

\* vk_x is what the equation asks for.
LEMMA VkXValue ==
  ASSUME NEW key, key.ic \in Seq(Logarithms), NEW xs \in Seq(Int), Len(key.ic) = Len(xs) + 1
  PROVE  /\ VkX(key.ic, xs) \in Logarithms
         /\ key.ic[1] + SumUpTo(Multiples(key, xs), Len(xs)) \in Int
         /\ VkX(key.ic, xs) = (key.ic[1] + SumUpTo(Multiples(key, xs), Len(xs))) % ScalarMod
<1>. DEFINE ic == key.ic
            n == Len(xs)
            ones == <<1>> \o xs
            x == [i \in DOMAIN ic |-> ones[i] * ic[i]]
            y == Multiples(key, xs)
<1>1. n \in Nat /\ DOMAIN ic = 1..(n + 1) /\ DOMAIN xs = 1..n /\ Len(ic) = n + 1
  OBVIOUS
<1>2. \A i \in 1..(n + 1) : ic[i] \in Logarithms /\ ic[i] \in Int
  <2>1. \A i \in 1..(n + 1) : ic[i] \in Logarithms
    BY <1>1
  <2>. QED
    BY <2>1 DEF Logarithms
<1>3. NoPoint \notin Range(ic)
  BY <1>1, <1>2, Decoding DEF Range
<1>4. ones[1] = 1 /\ \A i \in 1..n : ones[i + 1] = xs[i]
  OBVIOUS
<1>5. \A i \in 1..(n + 1) : ones[i] \in Int
  OBVIOUS
<1>. HIDE DEF ones, n
<1>6. \A i \in 1..n : xs[i] \in Int /\ i + 1 \in 1..(n + 1) /\ i \in 1..(n + 1)
  BY <1>1
<1>7. \A i \in 1..(n + 1) : x[i] = ones[i] * ic[i] /\ x[i] \in Int
  BY <1>1, <1>2, <1>5
<1>8. \A i \in 1..n : y[i] = xs[i] * ic[i + 1]
  BY <1>1 DEF Multiples
<1>9. \A i \in 1..n : y[i] = x[i + 1]
  BY <1>4, <1>6, <1>7, <1>8
<1>. HIDE DEF x, y
<1>10. SumUpTo(x, n + 1) = x[1] + SumUpTo(y, n)
  BY <1>1, <1>7, <1>9, SumFromFirst
<1>11. SumUpTo(y, n) \in Int
  <2>1. \A i \in 1..n : x[i + 1] \in Int
    BY <1>6, <1>7
  <2>2. \A i \in 1..n : y[i] \in Int
    BY <1>9, <2>1
  <2>3. n \in Nat /\ n \in 0..n
    BY <1>1
  <2>. QED
    BY <2>2, <2>3, SumSteps
<1>12. x[1] = ic[1] /\ ic[1] \in Int
  BY <1>1, <1>2, <1>4, <1>7
<1>13. VkX(ic, xs) = SumUpTo(x, n + 1) % ScalarMod
  BY <1>1, <1>3 DEF VkX, Sum, ones, x
<1>14. ic[1] + SumUpTo(y, n) \in Int
  BY <1>11, <1>12
<1>15. (ic[1] + SumUpTo(y, n)) % ScalarMod \in Logarithms
  <2>. DEFINE t == ic[1] + SumUpTo(y, n)
  <2>. HIDE DEF t
  <2>1. t % ScalarMod \in 0..(ScalarMod - 1)
    BY <1>14, Groth16Assumption, ResidueOfResidue DEF t
  <2>. QED
    BY <2>1 DEF t, Logarithms
<1>. QED
  BY <1>10, <1>12, <1>13, <1>14, <1>15 DEF n, y

\* With no point missing, the host's answer is whether the sum of the products vanishes.
LEMMA PairingOfPoints ==
  ASSUME NEW a1 \in Logarithms, NEW a2 \in Logarithms, NEW a3 \in Logarithms, NEW a4 \in Logarithms,
         NEW b1 \in Logarithms, NEW b2 \in Logarithms, NEW b3 \in Logarithms, NEW b4 \in Logarithms,
         NEW t, t = a1 * b1 + a2 * b2 + a3 * b3 + a4 * b4
  PROVE  PairingCheck(<<a1, a2, a3, a4>>, <<b1, b2, b3, b4>>) =
           IF Apart(t, 0, ScalarMod) THEN "Ok(true)" ELSE "Ok(false)"
<1>. DEFINE as == <<a1, a2, a3, a4>>  bs == <<b1, b2, b3, b4>>
            x == [i \in DOMAIN bs |-> as[i] * bs[i]]
<1>1. NoPoint \notin Range(as) \cup Range(bs)
  BY Decoding DEF Range
<1>2. Len(bs) = 4 /\ x[1] = a1 * b1 /\ x[2] = a2 * b2 /\ x[3] = a3 * b3 /\ x[4] = a4 * b4
  OBVIOUS
<1>3. a1 * b1 \in Int /\ a2 * b2 \in Int /\ a3 * b3 \in Int /\ a4 * b4 \in Int
  BY DEF Logarithms
<1>4. \A i \in 1..4 : x[i] \in Int
  BY <1>2, <1>3
<1>. HIDE DEF x
<1>5. SumUpTo(x, 4) = t
  <2>1. SumUpTo(x, 0) = 0 /\ \A k \in 0..3 : SumUpTo(x, k + 1) = SumUpTo(x, k) + x[k + 1]
    <3>. DEFINE four == 4
    <3>1. four \in Nat /\ (\A i \in 1..four : x[i] \in Int) /\ four - 1 = 3
      BY <1>4
    <3>. HIDE DEF four
    <3>2. SumUpTo(x, 0) = 0 /\ \A k \in 0..(four - 1) : SumUpTo(x, k + 1) = SumUpTo(x, k) + x[k + 1]
      BY <3>1, SumSteps
    <3>. QED
      BY <3>1, <3>2
  <2>2. SumUpTo(x, 1) = x[1]
    <3>1. SumUpTo(x, 0 + 1) = SumUpTo(x, 0) + x[0 + 1] /\ x[1] \in Int
      BY <1>4, <2>1
    <3>. QED
      BY <2>1, <3>1
  <2>3. SumUpTo(x, 2) = SumUpTo(x, 1) + x[2]
    BY <2>1
  <2>4. SumUpTo(x, 3) = SumUpTo(x, 2) + x[3]
    BY <2>1
  <2>5. SumUpTo(x, 4) = SumUpTo(x, 3) + x[4]
    BY <2>1
  <2>. QED
    BY <1>2, <1>3, <2>2, <2>3, <2>4, <2>5
<1>6. PairingCheck(as, bs) = IF SumUpTo(x, 4) % ScalarMod = 0 THEN "Ok(true)" ELSE "Ok(false)"
  BY <1>1, <1>2, Groth16Assumption DEF PairingCheck, Sum, x
<1>7. t \in Int
  BY <1>3
<1>8. t % ScalarMod = 0 <=> Apart(t, 0, ScalarMod)
  BY <1>7, Groth16Assumption, ResiduesApart
<1>. QED
  BY <1>5, <1>6, <1>8

\* Without a point the host traps.
LEMMA PairingOfNoPoint ==
  ASSUME NEW a1, NEW a2, NEW a3, NEW a4, NEW b1, NEW b2, NEW b3, NEW b4
  PROVE  PairingCheck(<<a1, a2, a3, a4>>, <<b1, b2, b3, b4>>) = "Trap"
           <=> NoPoint \in {a1, a2, a3, a4, b1, b2, b3, b4}
<1>. DEFINE as == <<a1, a2, a3, a4>>  bs == <<b1, b2, b3, b4>>
<1>1. Range(as) = {a1, a2, a3, a4} /\ Range(bs) = {b1, b2, b3, b4}
  BY DEF Range
<1>2. PairingCheck(as, bs) = "Trap" <=> NoPoint \in Range(as) \cup Range(bs)
  BY DEF PairingCheck
<1>. QED
  BY <1>1, <1>2

---------------------------------------------------------------------------
(* What callers can send. *)

LEMMA GrothSets ==
  /\ KeySet \subseteq KeyRecords /\ ProofSet \subseteq ProofRecords
  /\ \A bytes \in BadBytes : bytes \in Seq(Byte) /\ ~IsKey(bytes) /\ ~IsProof(bytes)
  /\ Sendable \subseteq Seq(Byte) /\ Registered \subseteq Seq(Byte) /\ <<>> \notin Registered
  /\ \A item \in Items : item.inputs \in InputLists /\ item.proof \in Sendable
<1>1. KeySet \subseteq KeyRecords /\ ProofSet \subseteq ProofRecords
  BY Groth16Inputs DEF KeyRecords, ProofRecords
<1>2. \A bytes \in BadBytes : bytes \in Seq(Byte) /\ ~IsKey(bytes) /\ ~IsProof(bytes)
  BY Groth16Inputs DEF Byte
<1>3. \A p \in ProofSet : ProofBytes(p) \in Seq(Byte)
  BY <1>1, ProofDecodes DEF ProofRecords
<1>4. \A key \in KeySet : KeyBytes(key) \in Seq(Byte)
  BY <1>1, KeyDecodes
<1>5. ~ValidShape(<<>>)
  BY PointLengths DEF ValidShape
<1>. QED
  BY <1>1, <1>2, <1>3, <1>4, <1>5 DEF Sendable, Registered, Items

\* The points of a parsed key.
LEMMA ParsedKey ==
  ASSUME NEW vkBytes \in Registered
  PROVE  /\ ParseVk(vkBytes).ic \in Seq(Logarithms \cup {NoPoint})
         /\ ParseVk(vkBytes).alpha \in Logarithms \cup {NoPoint}
         /\ ParseVk(vkBytes).beta \in Logarithms \cup {NoPoint}
         /\ ParseVk(vkBytes).gamma \in Logarithms \cup {NoPoint}
         /\ ParseVk(vkBytes).delta \in Logarithms \cup {NoPoint}
         /\ (NoPoint \notin Range(ParseVk(vkBytes).ic) => ParseVk(vkBytes).ic \in Seq(Logarithms))
<1>. DEFINE n == (Len(vkBytes) - VkFixedLen) \div G1Len
            ic == ParseVk(vkBytes).ic
<1>1. n \in Nat
  <2>. DEFINE d == Len(vkBytes) - VkFixedLen
  <2>1. d \in Nat /\ G1Len \in Nat \ {0}
    BY GrothSets, PointLengths DEF Registered, ValidShape
  <2>. HIDE DEF d
  <2>2. d \div G1Len \in Nat
    BY <2>1
  <2>. QED
    BY <2>2 DEF d
<1>2. ic = [i \in 1..n |-> LogOf(Slice(vkBytes, VkFixedLen + (i - 1) * G1Len, G1Len))]
  BY DEF ParseVk
<1>. HIDE DEF n, ic
<1>3. \A i \in 1..n : ic[i] \in Logarithms \cup {NoPoint}
  BY <1>2, Decoding
<1>4. ic \in [1..n -> Logarithms \cup {NoPoint}]
  BY <1>2, <1>3
<1>5. ic \in Seq(Logarithms \cup {NoPoint}) /\ DOMAIN ic = 1..n
  BY <1>1, <1>4
<1>6. ASSUME NoPoint \notin Range(ic) PROVE ic \in Seq(Logarithms)
  <2>1. \A i \in 1..n : ic[i] \in Logarithms
    BY <1>3, <1>5, <1>6 DEF Range
  <2>2. ic \in [1..n -> Logarithms]
    BY <1>4, <2>1
  <2>. QED
    BY <1>1, <2>2
<1>. QED
  BY <1>5, <1>6, Decoding DEF ParseVk, ic

\* Of what can be registered, the keys are those made of points, and read as they were written.
LEMMA KeysOfPoints ==
  ASSUME NEW vkBytes \in Registered
  PROVE  /\ IsKey(vkBytes) <=> vkBytes \in {KeyBytes(k) : k \in KeySet}
         /\ IsKey(vkBytes) => /\ ParseVk(vkBytes) \in KeySet /\ ParseVk(vkBytes) \in KeyRecords
                              /\ KeyBytes(ParseVk(vkBytes)) = vkBytes
<1>1. ValidShape(vkBytes) /\ (vkBytes \in BadBytes \/ vkBytes \in {KeyBytes(k) : k \in KeySet})
  BY DEF Registered
<1>2. ASSUME NEW k \in KeySet, vkBytes = KeyBytes(k) PROVE IsKey(vkBytes) /\ ParseVk(vkBytes) = k
  <2>1. k \in KeyRecords /\ ParseVk(vkBytes) = k
    BY <1>2, GrothSets, KeyDecodes
  <2>2. /\ k.alpha \in Logarithms /\ k.beta \in Logarithms /\ k.gamma \in Logarithms
        /\ k.delta \in Logarithms /\ k.ic \in Seq(Logarithms)
    BY <2>1 DEF KeyRecords
  <2>3. NoPoint \notin Range(k.ic)
    BY <2>2, Decoding DEF Range
  <2>. QED
    BY <1>1, <2>1, <2>2, <2>3, Decoding DEF IsKey
<1>3. vkBytes \in BadBytes => ~IsKey(vkBytes)
  BY GrothSets
<1>. QED
  BY <1>1, <1>2, <1>3, GrothSets

LEMMA ProofsOfPoints ==
  ASSUME NEW proof \in Sendable
  PROVE  /\ IsProof(proof) <=> proof \in {ProofBytes(p) : p \in ProofSet}
         /\ IsProof(proof) => /\ ParseProof(proof) \in ProofSet /\ ParseProof(proof) \in ProofRecords
                              /\ ProofBytes(ParseProof(proof)) = proof
<1>1. proof \in BadBytes \/ proof \in {ProofBytes(p) : p \in ProofSet}
  BY DEF Sendable
<1>2. ASSUME NEW p \in ProofSet, proof = ProofBytes(p) PROVE IsProof(proof) /\ ParseProof(proof) = p
  BY <1>2, GrothSets, ProofDecodes DEF ProofRecords
<1>3. proof \in BadBytes => ~IsProof(proof)
  BY GrothSets
<1>. QED
  BY <1>1, <1>2, <1>3, GrothSets

\* When a key's check goes on to the points.
LEMMA InputsPass ==
  ASSUME NEW vkBytes \in Registered, NEW item \in Items
  PROVE  InputsError(ParseVk(vkBytes), ToFr(item.inputs)) = "None"
           <=> Len(ParseVk(vkBytes).ic) = Len(item.inputs) + 1 /\ Canonical(item.inputs)
<1>1. item.inputs \in InputLists
  BY GrothSets
<1>. QED
  BY <1>1, InputsToFr DEF InputsError

\* The items the answers speak of, and what is wrong with them, by what is read.
LEMMA WellFormedItems ==
  ASSUME NEW vkBytes \in Registered, NEW item \in Items
  PROVE  /\ WellFormed(vkBytes, item) <=>
              /\ IsKey(vkBytes) /\ IsProof(item.proof)
              /\ Len(ParseVk(vkBytes).ic) = Len(item.inputs) + 1 /\ Canonical(item.inputs)
         /\ WellFormed(vkBytes, item) =>
              ResidualOf(vkBytes, item) = Residual(ParseVk(vkBytes), ToFr(item.inputs), ParseProof(item.proof))
<1>1. item.inputs \in InputLists /\ item.proof \in Sendable
  BY GrothSets
<1>2. \A k \in KeySet : KeyBytes(k) = vkBytes => ParseVk(vkBytes) = k
  BY GrothSets, KeyDecodes
<1>3. \A p \in ProofSet : ProofBytes(p) = item.proof => ParseProof(item.proof) = p
  BY GrothSets, ProofDecodes DEF ProofRecords
<1>4. WellFormed(vkBytes, item) <=>
        /\ IsKey(vkBytes) /\ IsProof(item.proof)
        /\ Len(ParseVk(vkBytes).ic) = Len(item.inputs) + 1 /\ Canonical(item.inputs)
  BY <1>1, <1>2, <1>3, KeysOfPoints, ProofsOfPoints DEF WellFormed, Canonical
<1>5. ASSUME WellFormed(vkBytes, item)
      PROVE  ResidualOf(vkBytes, item) = Residual(ParseVk(vkBytes), ToFr(item.inputs), ParseProof(item.proof))
  <2>1. /\ ParseVk(vkBytes) \in KeySet /\ KeyBytes(ParseVk(vkBytes)) = vkBytes
        /\ ParseProof(item.proof) \in ProofSet /\ ProofBytes(ParseProof(item.proof)) = item.proof
    BY <1>1, <1>4, <1>5, KeysOfPoints, ProofsOfPoints
  <2>2. (CHOOSE k \in KeySet : KeyBytes(k) = vkBytes) = ParseVk(vkBytes)
    BY <1>2, <2>1
  <2>3. (CHOOSE q \in ProofSet : ProofBytes(q) = item.proof) = ParseProof(item.proof)
    BY <1>3, <2>1
  <2>4. Values(item.inputs) = ToFr(item.inputs)
    BY <1>1, <1>4, <1>5, InputsToFr
  <2>. QED
    BY <2>2, <2>3, <2>4 DEF ResidualOf, Values
<1>. QED
  BY <1>4, <1>5

\* What the equation leaves, next to what the pairing check adds up.
LEMMA EquationOfItem ==
  ASSUME NEW key \in KeyRecords, NEW xs \in Seq(Int), Len(key.ic) = Len(xs) + 1, NEW p \in ProofRecords
  PROVE  /\ Residual(key, xs, p) \in Logarithms
         /\ Apart(-(p.a * p.b) + key.alpha * key.beta + VkX(key.ic, xs) * key.gamma + p.c * key.delta
                    + Residual(key, xs, p), 0, ScalarMod)
<1>. DEFINE w == key.ic[1] + SumUpTo(Multiples(key, xs), Len(xs))
            vx == VkX(key.ic, xs)
            ab == p.a * p.b
            albe == key.alpha * key.beta
            cde == p.c * key.delta
            ga == key.gamma
            d == ab - albe - w * ga - cde
            e == Residual(key, xs, p)
<1>1. ScalarMod \in Nat \ {0} /\ \A k \in Logarithms : k \in Int
  BY Groth16Assumption DEF Logarithms
<1>2. /\ key.alpha \in Int /\ key.beta \in Int /\ ga \in Int /\ key.delta \in Int
      /\ p.a \in Int /\ p.b \in Int /\ p.c \in Int
  BY <1>1 DEF KeyRecords, ProofRecords
<1>3. key.ic \in Seq(Logarithms)
  BY DEF KeyRecords
<1>4. w \in Int /\ vx \in Logarithms /\ vx = w % ScalarMod
  BY <1>3, VkXValue
<1>5. e = (ab - albe - w * ga - cde) % ScalarMod
  BY DEF Residual, Multiples
<1>6. ab \in Int /\ albe \in Int /\ cde \in Int /\ ga \in Int
  <2>1. \A i, j \in Int : i * j \in Int
    OBVIOUS
  <2>2. ab \in Int
    BY <1>2, <2>1, Zenon
  <2>3. albe \in Int
    BY <1>2, <2>1, Zenon
  <2>4. cde \in Int
    BY <1>2, <2>1, Zenon
  <2>. QED
    BY <1>2, <2>2, <2>3, <2>4
<1>. HIDE DEF w, vx, ab, albe, cde, ga, e
<1>7. d \in Int
  BY <1>4, <1>6
<1>8. e = d % ScalarMod
  BY <1>5
<1>. HIDE DEF d
<1>9. e \in 0..(ScalarMod - 1) /\ e % ScalarMod = d % ScalarMod
  BY <1>1, <1>7, <1>8, ResidueOfResidue
<1>10. vx % ScalarMod = w % ScalarMod /\ vx \in Int
  BY <1>1, <1>4, ResidueOfResidue
<1>11. e \in Int
  BY <1>9
<1>. DEFINE s == -ab + albe + vx * ga + cde + e
<1>12. s \in Int /\ s = -ab + albe + vx * ga + cde + e /\ d = ab - albe - w * ga - cde
  BY <1>6, <1>10, <1>11 DEF d
<1>. HIDE DEF s
<1>13. Apart(s, 0, ScalarMod)
  BY <1>1, <1>4, <1>6, <1>7, <1>9, <1>10, <1>11, <1>12, EquationAndError
<1>. QED
  BY <1>9, <1>13 DEF Logarithms, s, ab, albe, vx, ga, cde, e

---------------------------------------------------------------------------
(* verify. *)

LEMMA OppositeIs ==
  ASSUME NEW k \in Logarithms
  PROVE  Opposite(k) \in Logarithms /\ \E j \in {0, 1} : Opposite(k) = -k + j * ScalarMod
BY Groth16Assumption DEF Opposite, Logarithms

\* The pairing check of a proof under a key is the equation.
LEMMA PairingIsEquation ==
  ASSUME NEW key \in KeyRecords, NEW xs \in Seq(Int), Len(key.ic) = Len(xs) + 1, NEW p \in ProofRecords
  PROVE  PairingCheck(<<Opposite(p.a), key.alpha, VkX(key.ic, xs), p.c>>,
                      <<p.b, key.beta, key.gamma, key.delta>>)
           = IF Residual(key, xs, p) = 0 THEN "Ok(true)" ELSE "Ok(false)"
<1>. DEFINE a == p.a  b == p.b  c == p.c  al == key.alpha  be == key.beta  ga == key.gamma  de == key.delta
            vx == VkX(key.ic, xs)
            e == Residual(key, xs, p)
            i == Opposite(a)
            s == -(a * b) + al * be + vx * ga + c * de + e
            f == i * b + al * be + vx * ga + c * de
<1>1. /\ a \in Logarithms /\ b \in Logarithms /\ c \in Logarithms
      /\ al \in Logarithms /\ be \in Logarithms /\ ga \in Logarithms /\ de \in Logarithms
      /\ key.ic \in Seq(Logarithms)
  BY DEF KeyRecords, ProofRecords
<1>2. vx \in Logarithms /\ e \in Logarithms /\ i \in Logarithms
  BY <1>1, VkXValue, EquationOfItem, OppositeIs
<1>3. Apart(s, 0, ScalarMod)
  BY EquationOfItem
<1>4. PICK j \in {0, 1} : i = -a + j * ScalarMod
  BY <1>1, OppositeIs
<1>5. PairingCheck(<<i, al, vx, c>>, <<b, be, ga, de>>) = IF Apart(f, 0, ScalarMod) THEN "Ok(true)" ELSE "Ok(false)"
  <2>1. f = i * b + al * be + vx * ga + c * de
    OBVIOUS
  <2>. HIDE DEF a, b, c, al, be, ga, de, vx, i, f
  <2>. QED
    BY <1>1, <1>2, <2>1, PairingOfPoints
<1>. HIDE DEF a, b, c, al, be, ga, de, vx, e, i
<1>6. /\ a \in Int /\ b \in Int /\ c \in Int /\ al \in Int /\ be \in Int /\ ga \in Int /\ de \in Int
      /\ vx \in Int /\ e \in Int /\ e \in 0..(ScalarMod - 1) /\ i \in Int /\ j \in Int
      /\ ScalarMod \in Nat \ {0}
  BY <1>1, <1>2, Groth16Assumption DEF Logarithms
<1>7. f \in Int /\ s \in Int /\ f + e = s + (j * b) * ScalarMod /\ j * b \in Int
  <2>1. i * b = -(a * b) + (j * b) * ScalarMod
    BY <1>4, <1>6
  <2>. QED
    BY <1>6, <2>1
<1>. HIDE DEF f, s
<1>8. (f + e) % ScalarMod = 0
  <2>. DEFINE t == f + e
  <2>1. PICK k \in Int : s = 0 + k * ScalarMod
    BY <1>3 DEF Apart
  <2>2. t = 0 + (k + j * b) * ScalarMod /\ k + j * b \in Int /\ t \in Int
    <3>1. (k + j * b) * ScalarMod = k * ScalarMod + (j * b) * ScalarMod
      BY <1>6, <1>7
    <3>. QED
      BY <1>6, <1>7, <2>1, <3>1
  <2>. HIDE DEF t
  <2>3. Apart(t, 0, ScalarMod)
    BY <2>2 DEF Apart
  <2>. QED
    BY <1>6, <2>2, <2>3, ResiduesApart DEF t
<1>9. f % ScalarMod = 0 <=> e % ScalarMod = 0
  BY <1>6, <1>7, <1>8, MultipleOrNot
<1>10. e % ScalarMod = e
  BY <1>6
<1>11. Apart(f, 0, ScalarMod) <=> e = 0
  BY <1>6, <1>7, <1>9, <1>10, ResiduesApart
<1>. QED
  BY <1>5, <1>11 DEF a, b, c, al, be, ga, de, vx, e, i

\* What one key answers.
LEMMA VerifyAnswer ==
  ASSUME NEW vkBytes \in Registered, NEW item \in Items, Len(item.proof) = ProofLen
  PROVE  LET key   == ParseVk(vkBytes)
             xs    == ToFr(item.inputs)
             error == InputsError(key, xs)
         IN  VerifyAgainstVk(vkBytes, item.inputs, item.proof) =
               IF error # "None" THEN error
               ELSE IF ~IsKey(vkBytes) \/ ~IsProof(item.proof) THEN "Trap"
               ELSE IF Residual(key, xs, ParseProof(item.proof)) = 0 THEN "Ok(true)" ELSE "Ok(false)"
<1>. DEFINE key == ParseVk(vkBytes)
            xs == ToFr(item.inputs)
            error == InputsError(key, xs)
            p == ParseProof(item.proof)
            half == Slice(item.proof, 0, G1Len)
            negA == LogOf(NegateG1Bytes(half))
            vx == VkX(key.ic, xs)
            pairing == PairingCheck(<<negA, key.alpha, vx, p.c>>, <<p.b, key.beta, key.gamma, key.delta>>)
<1>1. VerifyAgainstVk(vkBytes, item.inputs, item.proof) = IF error # "None" THEN error ELSE pairing
  BY DEF VerifyAgainstVk
<1>2. item.inputs \in InputLists /\ item.proof \in Sendable /\ item.proof \in Seq(Byte) /\ vkBytes \in Seq(Byte)
  BY GrothSets
<1>3. xs \in Seq(Int) /\ Len(xs) = Len(item.inputs)
  BY <1>2, InputsToFr
<1>4. ASSUME error = "None" PROVE Len(key.ic) = Len(xs) + 1
  BY <1>3, <1>4, InputsPass
<1>5. half \in Seq(Byte) /\ Len(half) = G1Len
  <2>. DEFINE o == 0
  <2>1. o \in Nat /\ G1Len \in Nat /\ o + G1Len <= Len(item.proof)
    BY PointLengths
  <2>. HIDE DEF o
  <2>2. Slice(item.proof, o, G1Len) \in Seq(Byte) /\ Len(Slice(item.proof, o, G1Len)) = G1Len
    BY <1>2, <2>1, SliceIs
  <2>. QED
    BY <2>2 DEF o
<1>6. p.a = LogOf(half)
  BY DEF ParseProof
<1>. HIDE DEF half
<1>7. negA = IF p.a = NoPoint THEN NoPoint ELSE Opposite(p.a)
  BY <1>5, <1>6, Negation
<1>. HIDE DEF negA, p
<1>8. p.a \in Logarithms \cup {NoPoint}
  BY <1>6, Decoding
<1>9. negA = NoPoint <=> p.a = NoPoint
  BY <1>7, <1>8, OppositeIs, Decoding
<1>10. IsProof(item.proof) <=> NoPoint \notin {p.a, p.b, p.c}
  BY DEF IsProof, p
<1>11. IsKey(vkBytes) <=> NoPoint \notin {key.alpha, key.beta, key.gamma, key.delta} \cup Range(key.ic)
  BY DEF IsKey, Registered
<1>12. ASSUME error = "None" PROVE vx = NoPoint <=> NoPoint \in Range(key.ic)
  <2>1. ASSUME NoPoint \in Range(key.ic) PROVE vx = NoPoint
    BY <2>1 DEF VkX, Sum
  <2>2. ASSUME NoPoint \notin Range(key.ic) PROVE vx # NoPoint
    <3>1. key.ic \in Seq(Logarithms)
      BY <2>2, ParsedKey
    <3>. HIDE DEF key, xs
    <3>2. vx \in Logarithms
      BY <1>3, <1>4, <1>12, <3>1, VkXValue
    <3>. QED
      BY <3>2, Decoding
  <2>. QED
    BY <2>1, <2>2
<1>13. ASSUME error = "None" PROVE pairing = "Trap" <=> ~IsKey(vkBytes) \/ ~IsProof(item.proof)
  <2>. HIDE DEF vx, key, error
  <2>1. pairing = "Trap" <=> NoPoint \in {negA, key.alpha, vx, p.c, p.b, key.beta, key.gamma, key.delta}
    BY PairingOfNoPoint
  <2>. QED
    BY <1>9, <1>10, <1>11, <1>12, <1>13, <2>1
<1>14. ASSUME error = "None", IsKey(vkBytes), IsProof(item.proof)
       PROVE  pairing = IF Residual(key, xs, p) = 0 THEN "Ok(true)" ELSE "Ok(false)"
  <2>1. key \in KeyRecords /\ p \in ProofRecords
    BY <1>2, <1>14, KeysOfPoints, ProofsOfPoints DEF p
  <2>2. negA = Opposite(p.a)
    BY <1>7, <1>10, <1>14
  <2>3. Len(key.ic) = Len(xs) + 1
    BY <1>4, <1>14
  <2>. HIDE DEF key, xs, error
  <2>. QED
    BY <1>3, <2>1, <2>2, <2>3, PairingIsEquation
<1>. QED
  BY <1>1, <1>13, <1>14 DEF p

Verdicts == {"Ok(true)", "Ok(false)", "Trap"} \cup Errors

\* One key says yes to what is genuine for it, and traps on what fits it but is not
\* made of points.
LEMMA OneKey ==
  ASSUME NEW vkBytes \in Registered, NEW item \in Items, Len(item.proof) = ProofLen
  PROVE  LET fits == Len(ParseVk(vkBytes).ic) = Len(item.inputs) + 1
             first == VerifyAgainstVk(vkBytes, item.inputs, item.proof)
         IN  /\ first \in Verdicts
             /\ first = "Ok(true)" <=> Genuine(vkBytes, item)
             /\ first = "Trap" <=> fits /\ Canonical(item.inputs) /\ (~IsKey(vkBytes) \/ ~IsProof(item.proof))
<1>. DEFINE key == ParseVk(vkBytes)
            xs == ToFr(item.inputs)
            error == InputsError(key, xs)
            e == Residual(key, xs, ParseProof(item.proof))
            first == VerifyAgainstVk(vkBytes, item.inputs, item.proof)
            fits == Len(key.ic) = Len(item.inputs) + 1
<1>1. first = IF error # "None" THEN error
              ELSE IF ~IsKey(vkBytes) \/ ~IsProof(item.proof) THEN "Trap"
              ELSE IF e = 0 THEN "Ok(true)" ELSE "Ok(false)"
  BY VerifyAnswer
<1>2. error \in {"None", "PublicInputCountMismatch", "NonCanonicalInput"}
  BY DEF InputsError
<1>3. error = "None" <=> fits /\ Canonical(item.inputs)
  BY InputsPass
<1>4. /\ WellFormed(vkBytes, item) <=>
           IsKey(vkBytes) /\ IsProof(item.proof) /\ fits /\ Canonical(item.inputs)
      /\ WellFormed(vkBytes, item) => ResidualOf(vkBytes, item) = e
  BY WellFormedItems
<1>. HIDE DEF key, xs, error, e, first, fits
<1>5. first \in Verdicts
  BY <1>1, <1>2 DEF Verdicts, Errors
<1>6. first = "Ok(true)" <=> error = "None" /\ IsKey(vkBytes) /\ IsProof(item.proof) /\ e = 0
  BY <1>1, <1>2
<1>7. first = "Trap" <=> error = "None" /\ (~IsKey(vkBytes) \/ ~IsProof(item.proof))
  BY <1>1, <1>2
<1>8. first = "Ok(true)" <=> Genuine(vkBytes, item)
  BY <1>3, <1>4, <1>6 DEF Genuine
<1>. QED
  BY <1>3, <1>5, <1>7, <1>8 DEF first, fits, key

LEMMA VerifyAccepts ==
  ASSUME NEW vkBytes \in Registered, NEW retained \in Registered \cup {<<>>}, NEW item \in Items
  PROVE  LET usable == vkBytes \in {KeyBytes(k) : k \in KeySet}
             fits   == Len(ParseVk(vkBytes).ic) = Len(item.inputs) + 1
             verdict == VerifyBytes(vkBytes, retained, item.inputs, item.proof)
         IN  /\ verdict \in Verdicts
             /\ verdict = "Ok(true)" <=>
                  Genuine(vkBytes, item) \/ (Genuine(retained, item) /\ (usable \/ ~fits))
<1>. DEFINE usable == vkBytes \in {KeyBytes(k) : k \in KeySet}
            fits == Len(ParseVk(vkBytes).ic) = Len(item.inputs) + 1
            first == VerifyAgainstVk(vkBytes, item.inputs, item.proof)
            second == VerifyAgainstVk(retained, item.inputs, item.proof)
            verdict == VerifyBytes(vkBytes, retained, item.inputs, item.proof)
<1>1. ~Genuine(<<>>, item)
  <2>1. ASSUME NEW k \in KeySet PROVE KeyBytes(k) # <<>>
    <3>1. k \in KeyRecords
      BY GrothSets
    <3>2. k.ic \in Seq(Logarithms)
      BY <3>1 DEF KeyRecords
    <3>. DEFINE n == Len(k.ic)
    <3>3. n \in Nat /\ Len(KeyBytes(k)) = VkFixedLen + n * G1Len
      BY <3>1, <3>2, KeyDecodes
    <3>. HIDE DEF n
    <3>4. n * G1Len \in Nat /\ VkFixedLen \in Nat \ {0}
      BY <3>3, PointLengths
    <3>5. Len(KeyBytes(k)) > 0
      BY <3>3, <3>4
    <3>. QED
      BY <3>5
  <2>. QED
    BY <2>1 DEF Genuine, WellFormed
<1>2. \A vk \in Registered : Genuine(vk, item) =>
        IsKey(vk) /\ IsProof(item.proof) /\ Canonical(item.inputs)
  BY WellFormedItems DEF Genuine
<1>3. usable <=> IsKey(vkBytes)
  BY KeysOfPoints
<1>4. ASSUME Len(item.proof) # ProofLen
      PROVE  /\ verdict \in Verdicts
             /\ verdict = "Ok(true)" <=> Genuine(vkBytes, item) \/ (Genuine(retained, item) /\ (usable \/ ~fits))
  <2>1. verdict = "InvalidProofLength"
    BY <1>4 DEF VerifyBytes
  <2>2. ~IsProof(item.proof)
    BY <1>4 DEF IsProof
  <2>3. ~Genuine(vkBytes, item) /\ ~Genuine(retained, item)
    BY <1>1, <1>2, <2>2
  <2>. QED
    BY <2>1, <2>3 DEF Verdicts, Errors
<1>5. ASSUME Len(item.proof) = ProofLen
      PROVE  /\ verdict \in Verdicts
             /\ verdict = "Ok(true)" <=> Genuine(vkBytes, item) \/ (Genuine(retained, item) /\ (usable \/ ~fits))
  <2>1. verdict = IF first \in {"Ok(true)", "Trap"} \/ retained = <<>> THEN first ELSE second
    BY <1>5 DEF VerifyBytes
  <2>2. /\ first \in Verdicts
        /\ first = "Ok(true)" <=> Genuine(vkBytes, item)
        /\ first = "Trap" <=> fits /\ Canonical(item.inputs) /\ (~IsKey(vkBytes) \/ ~IsProof(item.proof))
    BY <1>5, OneKey
  <2>3. ASSUME retained \in Registered
        PROVE  second \in Verdicts /\ (second = "Ok(true)" <=> Genuine(retained, item))
    BY <1>5, <2>3, OneKey
  <2>4. Genuine(retained, item) => retained \in Registered /\ IsProof(item.proof) /\ Canonical(item.inputs)
    BY <1>1, <1>2
  <2>. HIDE DEF verdict, first, second, fits, usable
  <2>5. retained # <<>> => retained \in Registered
    OBVIOUS
  <2>6. CASE first = "Ok(true)"
    BY <2>1, <2>2, <2>6
  <2>7. CASE first = "Trap"
    <3>1. fits /\ Canonical(item.inputs) /\ (~IsKey(vkBytes) \/ ~IsProof(item.proof))
      BY <2>2, <2>7
    <3>2. ~(Genuine(retained, item) /\ (usable \/ ~fits))
      BY <1>3, <2>4, <3>1
    <3>3. verdict = "Trap" /\ ~Genuine(vkBytes, item) /\ verdict \in Verdicts
      BY <2>1, <2>2, <2>7
    <3>. QED
      BY <3>2, <3>3
  <2>8. CASE first \notin {"Ok(true)", "Trap"} /\ retained = <<>>
    <3>1. verdict = first /\ ~Genuine(vkBytes, item) /\ ~Genuine(retained, item)
      BY <1>1, <2>1, <2>2, <2>8
    <3>. QED
      BY <2>2, <2>8, <3>1
  <2>9. CASE first \notin {"Ok(true)", "Trap"} /\ retained # <<>>
    <3>1. verdict = second /\ ~Genuine(vkBytes, item)
      BY <2>1, <2>2, <2>9
    <3>2. second \in Verdicts /\ (second = "Ok(true)" <=> Genuine(retained, item))
      BY <2>3, <2>5, <2>9
    <3>3. Genuine(retained, item) => usable \/ ~fits
      BY <1>3, <2>2, <2>4, <2>9
    <3>. QED
      BY <3>1, <3>2, <3>3
  <2>. QED
    BY <2>6, <2>7, <2>8, <2>9
<1>. QED
  BY <1>4, <1>5

---------------------------------------------------------------------------
(* The calls. *)

\* An item whose weight has been added.
Weighable(vkBytes, item) ==
  /\ Len(item.proof) = ProofLen
  /\ Len(ParseVk(vkBytes).ic) = Len(item.inputs) + 1 /\ Canonical(item.inputs)
  /\ ParseVk(vkBytes).ic \in Seq(Logarithms) /\ ParseProof(item.proof).a \in Logarithms

\* What is wrong with it, times its weight.
WeighedError(vkBytes, item, weight) ==
  weight * Residual(ParseVk(vkBytes), ToFr(item.inputs), ParseProof(item.proof))

WeighedErrors(vkBytes, items, weights) ==
  [i \in DOMAIN weights |-> WeighedError(vkBytes, items[i], weights[i])]

\* The pairing check over the sums so far, and all the errors in them.
Balance(vkBytes, items, sums) ==
  LET key == ParseVk(vkBytes)
  IN  sums.ab + (sums.alpha * key.alpha) * key.beta + sums.vkX * key.gamma + sums.c * key.delta
        + SumUpTo(WeighedErrors(vkBytes, items, sums.weights), Len(sums.weights))

SumsOK(vkBytes, items, sums) ==
  /\ sums = [weights |-> sums.weights, alpha |-> sums.alpha, vkX |-> sums.vkX, c |-> sums.c, ab |-> sums.ab]
  /\ sums.weights \in Seq(Logarithms) /\ Len(sums.weights) <= Len(items)
  /\ sums.alpha \in Logarithms /\ sums.vkX \in Logarithms
  /\ sums.c \in Logarithms \cup {NoPoint} /\ sums.ab \in Logarithms \cup {NoPoint}
  /\ \A i \in 1..Len(sums.weights) :
       /\ Weighable(vkBytes, items[i])
       /\ sums.c # NoPoint => ParseProof(items[i].proof).c \in Logarithms
       /\ sums.ab # NoPoint => ParseProof(items[i].proof).b \in Logarithms
  /\ IsKey(vkBytes) /\ sums.c # NoPoint /\ sums.ab # NoPoint =>
       Apart(Balance(vkBytes, items, sums), 0, ScalarMod)

\* An answer to a batch: of all of it, made of points, by the sum of its weighed errors.
Judged(vkBytes, items, sums) ==
  /\ items # <<>> /\ Len(sums.weights) = Len(items)
  /\ IsKey(vkBytes) /\ sums.c # NoPoint /\ sums.ab # NoPoint
  /\ answer = "Ok(true)" <=>
       SumUpTo(WeighedErrors(vkBytes, items, sums.weights), Len(sums.weights)) % ScalarMod = 0

VerifyOK ==
  \E vkBytes \in Registered, retained \in Registered \cup {<<>>}, item \in Items :
    /\ call = [kind |-> "verify", vk |-> vkBytes, retained |-> retained, items |-> <<item>>]
    /\ answer = VerifyBytes(vkBytes, retained, item.inputs, item.proof)
    /\ weighed = NothingWeighed

BatchOK ==
  \E vkBytes \in Registered, items \in Batches :
    /\ call = [kind |-> "batch", vk |-> vkBytes, items |-> items]
    /\ SumsOK(vkBytes, items, weighed)
    /\ answer \in Verdicts \cup {"None"}
    /\ items = <<>> => answer = "EmptyBatch"
    /\ answer \in {"Ok(true)", "Ok(false)"} => Judged(vkBytes, items, weighed)

Groth16IInv ==
  \/ call = <<>> /\ weighed = NothingWeighed /\ answer = "None"
  \/ VerifyOK
  \/ BatchOK

\* Two kinds of calls, and none.
LEMMA CallKinds ==
  /\ \A v, r, i : /\ [kind |-> "verify", vk |-> v, retained |-> r, items |-> i] # <<>>
                  /\ [kind |-> "verify", vk |-> v, retained |-> r, items |-> i].kind = "verify"
  /\ \A v, i : [kind |-> "batch", vk |-> v, items |-> i] # <<>> /\ [kind |-> "batch", vk |-> v, items |-> i].kind = "batch"
<1>1. ASSUME NEW v, NEW r, NEW i PROVE [kind |-> "verify", vk |-> v, retained |-> r, items |-> i] # <<>>
  <2>1. "kind" \in DOMAIN [kind |-> "verify", vk |-> v, retained |-> r, items |-> i] /\ "kind" \notin DOMAIN <<>>
    OBVIOUS
  <2>. QED
    BY <2>1
<1>2. ASSUME NEW v, NEW i PROVE [kind |-> "batch", vk |-> v, items |-> i] # <<>>
  <2>1. "kind" \in DOMAIN [kind |-> "batch", vk |-> v, items |-> i] /\ "kind" \notin DOMAIN <<>>
    OBVIOUS
  <2>. QED
    BY <2>1
<1>. QED
  BY <1>1, <1>2

\* Of a call being answered, what is known of it.
LEMMA BatchKnown ==
  ASSUME Groth16IInv, call # <<>>, call.kind = "batch"
  PROVE  /\ call = [kind |-> "batch", vk |-> call.vk, items |-> call.items]
         /\ call.vk \in Registered /\ call.items \in Batches
         /\ SumsOK(call.vk, call.items, weighed)
         /\ call.items = <<>> => answer = "EmptyBatch"
         /\ answer \in {"Ok(true)", "Ok(false)"} => Judged(call.vk, call.items, weighed)
<1>1. ~VerifyOK
  BY CallKinds DEF VerifyOK
<1>2. BatchOK
  BY <1>1 DEF Groth16IInv
<1>. QED
  BY <1>2 DEF BatchOK

\* Before the first item there is nothing to add up.
LEMMA NothingBalances ==
  ASSUME NEW vkBytes \in Registered, NEW items \in Batches
  PROVE  SumsOK(vkBytes, items, NothingWeighed)
<1>. DEFINE s == NothingWeighed
            key == ParseVk(vkBytes)
            es == WeighedErrors(vkBytes, items, s.weights)
            b == Balance(vkBytes, items, s)
<1>1. s.weights = <<>> /\ s.alpha = 0 /\ s.vkX = 0 /\ s.c = 0 /\ s.ab = 0
      /\ s = [weights |-> s.weights, alpha |-> s.alpha, vkX |-> s.vkX, c |-> s.c, ab |-> s.ab]
  BY DEF NothingWeighed
<1>2. 0 \in Logarithms /\ items \in Seq(Items)
  BY Groth16Assumption, Groth16Inputs DEF Logarithms
<1>. HIDE DEF s
<1>3. s.weights \in Seq(Logarithms) /\ Len(s.weights) = 0 /\ Len(items) \in Nat
  BY <1>1, <1>2
<1>4. SumUpTo(es, 0) = 0
  <2>. DEFINE o == 0
  <2>1. o \in Nat /\ \A i \in 1..o : es[i] \in Int
    OBVIOUS
  <2>. HIDE DEF o, es
  <2>2. SumUpTo(es, 0) = 0
    BY <2>1, SumSteps
  <2>. QED
    BY <2>2
<1>5. ASSUME IsKey(vkBytes) PROVE Apart(b, 0, ScalarMod)
  <2>1. key \in KeyRecords
    BY <1>5, KeysOfPoints
  <2>2. key.alpha \in Int /\ key.beta \in Int /\ key.gamma \in Int /\ key.delta \in Int
    BY <2>1 DEF KeyRecords, Logarithms
  <2>. HIDE DEF key, es
  <2>3. b = 0 + (0 * key.alpha) * key.beta + 0 * key.gamma + 0 * key.delta + SumUpTo(es, 0)
    BY <1>1, <1>3 DEF Balance, key, es
  <2>4. b = 0
    BY <1>4, <2>2, <2>3
  <2>5. 0 = 0 + 0 * ScalarMod /\ 0 \in Int
    BY Groth16Assumption
  <2>. HIDE DEF b
  <2>. QED
    BY <2>4, <2>5 DEF Apart
<1>6. SumsOK(vkBytes, items, s)
  <2>1. 1..Len(s.weights) = {}
    BY <1>3
  <2>2. Len(s.weights) <= Len(items)
    BY <1>3
  <2>. HIDE DEF b
  <2>. QED
    BY <1>1, <1>2, <1>3, <1>5, <2>1, <2>2 DEF SumsOK, b
<1>. QED
  BY <1>6 DEF s

\* If the sums are of points, so were the items, whose errors can be added up.
LEMMA ErrorsAddUp ==
  ASSUME NEW vkBytes \in Registered, NEW items \in Batches, NEW sums, SumsOK(vkBytes, items, sums),
         IsKey(vkBytes), sums.c # NoPoint, sums.ab # NoPoint
  PROVE  LET es == WeighedErrors(vkBytes, items, sums.weights)
         IN  /\ \A i \in 1..Len(sums.weights) :
                  /\ WellFormed(vkBytes, items[i])
                  /\ es[i] = sums.weights[i] * ResidualOf(vkBytes, items[i])
                  /\ es[i] \in Int
             /\ SumUpTo(es, Len(sums.weights)) \in Int
<1>. DEFINE es == WeighedErrors(vkBytes, items, sums.weights)
            n == Len(sums.weights)
            key == ParseVk(vkBytes)
<1>1. sums.weights \in Seq(Logarithms) /\ n \in Nat /\ n <= Len(items) /\ items \in Seq(Items)
  BY Groth16Inputs DEF SumsOK
<1>2. key \in KeyRecords /\ \A k \in Logarithms : k \in Int
  BY KeysOfPoints DEF Logarithms
<1>3. ASSUME NEW i \in 1..n
      PROVE  /\ WellFormed(vkBytes, items[i])
             /\ es[i] = sums.weights[i] * ResidualOf(vkBytes, items[i])
             /\ es[i] \in Int
  <2>. DEFINE it == items[i]
              q == ParseProof(it.proof)
              ys == ToFr(it.inputs)
              e == Residual(key, ys, q)
              u == sums.weights[i]
  <2>1. it \in Items /\ i \in DOMAIN sums.weights /\ u \in Logarithms
    BY <1>1
  <2>2. Weighable(vkBytes, it) /\ q.c \in Logarithms /\ q.b \in Logarithms
    BY DEF SumsOK
  <2>3. es[i] = WeighedError(vkBytes, it, u)
    BY <2>1 DEF WeighedErrors
  <2>. HIDE DEF it
  <2>4. /\ q.a \in Logarithms /\ Len(key.ic) = Len(it.inputs) + 1 /\ Canonical(it.inputs)
        /\ it.inputs \in InputLists /\ it.proof \in Sendable /\ Len(it.proof) = ProofLen
    BY <2>1, <2>2, GrothSets DEF Weighable
  <2>5. q = [a |-> q.a, b |-> q.b, c |-> q.c]
    BY DEF ParseProof
  <2>6. q \in ProofRecords
    BY <2>2, <2>4, <2>5 DEF ProofRecords
  <2>7. ys \in Seq(Int) /\ Len(key.ic) = Len(ys) + 1
    BY <2>4, InputsToFr
  <2>8. IsProof(it.proof)
    BY <2>2, <2>4, Decoding DEF IsProof
  <2>9. WellFormed(vkBytes, it) /\ ResidualOf(vkBytes, it) = e
    BY <2>1, <2>4, <2>8, WellFormedItems
  <2>10. es[i] = u * e
    BY <2>3 DEF WeighedError
  <2>11. e \in Int /\ u \in Int
    <3>. HIDE DEF q, ys, key
    <3>1. e \in Logarithms
      BY <1>2, <2>6, <2>7, EquationOfItem
    <3>. QED
      BY <1>2, <2>1, <3>1
  <2>. HIDE DEF e, u, es
  <2>12. es[i] = u * ResidualOf(vkBytes, it) /\ es[i] \in Int
    BY <2>9, <2>10, <2>11
  <2>. QED
    BY <2>9, <2>12 DEF it, u
<1>4. SumUpTo(es, n) \in Int
  <2>1. \A i \in 1..n : es[i] \in Int
    BY <1>3
  <2>2. n \in 0..n
    BY <1>1
  <2>. HIDE DEF es, n
  <2>. QED
    BY <1>1, <2>1, <2>2, SumSteps
<1>. QED
  BY <1>3, <1>4

\* A sum of points is a residue of what was added.
LEMMA AddWeightedIs ==
  ASSUME NEW sum \in Logarithms, NEW x \in Logarithms, NEW r \in Int, NEW t, t = sum + r * x
  PROVE  AddWeighted(sum, r, x) \in Logarithms /\ Apart(AddWeighted(sum, r, x), t, ScalarMod)
<1>1. NoPoint \notin {sum, x} /\ sum \in Int /\ x \in Int /\ ScalarMod \in Nat \ {0}
  BY Decoding, Groth16Assumption DEF Logarithms
<1>2. t \in Int
  BY <1>1
<1>3. AddWeighted(sum, r, x) = t % ScalarMod
  BY <1>1 DEF AddWeighted
<1>4. t % ScalarMod \in 0..(ScalarMod - 1) /\ (t % ScalarMod) % ScalarMod = t % ScalarMod
  BY <1>1, <1>2, ResidueOfResidue
<1>. DEFINE u == t % ScalarMod
<1>5. u \in Int /\ u % ScalarMod = t % ScalarMod
  BY <1>1, <1>4
<1>. HIDE DEF u
<1>6. Apart(u, t, ScalarMod)
  BY <1>1, <1>2, <1>5, ResiduesApart
<1>. QED
  BY <1>3, <1>4, <1>6 DEF u, Logarithms

\* A sum with no point in it is none.
LEMMA AddWeightedPoints ==
  ASSUME NEW sum \in Logarithms \cup {NoPoint}, NEW x \in Logarithms \cup {NoPoint}, NEW r \in Int
  PROVE  /\ AddWeighted(sum, r, x) \in Logarithms \cup {NoPoint}
         /\ AddWeighted(sum, r, x) # NoPoint => sum \in Logarithms /\ x \in Logarithms
<1>1. CASE NoPoint \in {sum, x}
  BY <1>1 DEF AddWeighted
<1>2. CASE NoPoint \notin {sum, x}
  <2>. DEFINE t == sum + r * x
  <2>1. sum \in Logarithms /\ x \in Logarithms /\ t = sum + r * x
    BY <1>2
  <2>. HIDE DEF t
  <2>. QED
    BY <2>1, AddWeightedIs
<1>. QED
  BY <1>1, <1>2

\* What multiplies out of a residue.
LEMMA AddResidue ==
  ASSUME NEW m \in Nat \ {0}, NEW sum \in Int, NEW r \in Int, NEW ab \in Int, NEW x \in Int, Apart(x, ab, m),
         NEW new \in Int, NEW t, t = sum + (-r) * x, Apart(new, t, m), NEW u, u = sum - r * ab
  PROVE  Apart(new, u, m)
<1>1. PICK k \in Int : new = t + k * m
  BY DEF Apart
<1>2. PICK l \in Int : x = ab + l * m
  BY DEF Apart
<1>. DEFINE n == k - r * l
<1>3. new = u + n * m /\ n \in Int
  <2>1. r * x = r * ab + (r * l) * m
    BY <1>2
  <2>2. n * m = k * m - (r * l) * m
    OBVIOUS
  <2>3. (-r) * x = -(r * x)
    OBVIOUS
  <2>4. r * x \in Int /\ r * ab \in Int /\ k * m \in Int /\ (r * l) * m \in Int /\ n \in Int
    OBVIOUS
  <2>. HIDE DEF n
  <2>. QED
    BY <1>1, <2>1, <2>2, <2>3, <2>4
<1>. HIDE DEF n
<1>. QED
  BY <1>3 DEF Apart

AfterWeighing(vkBytes, item, sums, r) ==
  LET ic == ParseVk(vkBytes).ic
      p  == ParseProof(item.proof)
  IN  [weights |-> Append(sums.weights, r),
       alpha   |-> AddWeight(sums.alpha, r),
       vkX     |-> AddWeighted(sums.vkX, r, VkX(ic, ToFr(item.inputs))),
       c       |-> AddWeighted(sums.c, r, p.c),
       ab      |-> AddWeighted(sums.ab, -r, IF p.b = NoPoint THEN NoPoint ELSE (p.a * p.b) % ScalarMod)]

\* One more item leaves the sums as they should be.
LEMMA WeighingKeeps ==
  ASSUME NEW vkBytes \in Registered, NEW items \in Batches, NEW sums, SumsOK(vkBytes, items, sums),
         Len(sums.weights) < Len(items), NEW r \in Logarithms,
         Weighable(vkBytes, items[Len(sums.weights) + 1])
  PROVE  SumsOK(vkBytes, items, AfterWeighing(vkBytes, items[Len(sums.weights) + 1], sums, r))
<1>. DEFINE n == Len(sums.weights)
            item == items[n + 1]
            key == ParseVk(vkBytes)
            xs == ToFr(item.inputs)
            p == ParseProof(item.proof)
            vx == VkX(key.ic, xs)
            new == AfterWeighing(vkBytes, item, sums, r)
            ab == IF p.b = NoPoint THEN NoPoint ELSE (p.a * p.b) % ScalarMod
            e == Residual(key, xs, p)
            es == WeighedErrors(vkBytes, items, sums.weights)
            es1 == WeighedErrors(vkBytes, items, new.weights)
<1>1. /\ sums.weights \in Seq(Logarithms) /\ n \in Nat /\ n <= Len(items)
      /\ sums.alpha \in Logarithms /\ sums.vkX \in Logarithms
      /\ sums.c \in Logarithms \cup {NoPoint} /\ sums.ab \in Logarithms \cup {NoPoint}
  BY DEF SumsOK
<1>2. \A i \in 1..n : /\ Weighable(vkBytes, items[i])
                      /\ sums.c # NoPoint => ParseProof(items[i].proof).c \in Logarithms
                      /\ sums.ab # NoPoint => ParseProof(items[i].proof).b \in Logarithms
  BY DEF SumsOK
<1>3. items \in Seq(Items) /\ n + 1 \in 1..Len(items) /\ item \in Items
  <2>1. items \in Seq(Items)
    BY Groth16Inputs
  <2>2. n + 1 \in 1..Len(items)
    BY <1>1, <2>1
  <2>. HIDE DEF n
  <2>. QED
    BY <2>1, <2>2
<1>4. /\ key.ic \in Seq(Logarithms) /\ p.a \in Logarithms /\ Len(key.ic) = Len(item.inputs) + 1
      /\ Weighable(vkBytes, item)
  BY DEF Weighable
<1>5. xs \in Seq(Int) /\ Len(key.ic) = Len(xs) + 1
  <2>1. item.inputs \in InputLists
    BY <1>3, GrothSets
  <2>. HIDE DEF item, key
  <2>. QED
    BY <1>4, <2>1, InputsToFr
<1>6. p.b \in Logarithms \cup {NoPoint} /\ p.c \in Logarithms \cup {NoPoint}
  BY Decoding DEF ParseProof
<1>7. vx \in Logarithms
  <2>. HIDE DEF key, xs
  <2>. QED
    BY <1>4, <1>5, VkXValue
<1>8. /\ new = [weights |-> new.weights, alpha |-> new.alpha, vkX |-> new.vkX, c |-> new.c, ab |-> new.ab]
      /\ new.weights = Append(sums.weights, r) /\ new.alpha = AddWeight(sums.alpha, r)
      /\ new.vkX = AddWeighted(sums.vkX, r, vx) /\ new.c = AddWeighted(sums.c, r, p.c)
      /\ new.ab = AddWeighted(sums.ab, -r, ab)
  <2>. HIDE DEF item
  <2>. QED
    BY DEF AfterWeighing
<1>. HIDE DEF new, item, key, xs, p, vx, n
<1>9. ScalarMod \in Nat \ {0} /\ r \in Int /\ -r \in Int /\ \A k \in Logarithms : k \in Int
  BY Groth16Assumption DEF Logarithms
<1>10. ab \in Logarithms \cup {NoPoint} /\ (ab = NoPoint <=> p.b = NoPoint)
  <2>1. ASSUME p.b # NoPoint PROVE (p.a * p.b) % ScalarMod \in Logarithms
    <3>. DEFINE y == p.a * p.b
    <3>1. y \in Int
      <4>1. p.a \in Int /\ p.b \in Int
        BY <1>4, <1>6, <1>9, <2>1
      <4>. QED
        BY <4>1
    <3>. HIDE DEF y
    <3>2. y % ScalarMod \in 0..(ScalarMod - 1)
      BY <1>9, <3>1, ResidueOfResidue
    <3>. QED
      BY <3>2 DEF y, Logarithms
  <2>. QED
    BY <2>1, Decoding
<1>. HIDE DEF ab
<1>. DEFINE xal == sums.alpha + r  xv == sums.vkX + r * vx  xc == sums.c + r * p.c
<1>. DEFINE sal == sums.alpha  sv == sums.vkX  sc == sums.c  sab == sums.ab
            sal1 == new.alpha  sv1 == new.vkX  sc1 == new.c  sab1 == new.ab
            pc == p.c  minus == -r
<1>11. /\ sal \in Logarithms /\ sv \in Logarithms
      /\ sc \in Logarithms \cup {NoPoint} /\ sab \in Logarithms \cup {NoPoint}
      /\ pc \in Logarithms \cup {NoPoint}
  BY <1>1, <1>6
<1>12. /\ sal1 = AddWeight(sal, r) /\ sv1 = AddWeighted(sv, r, vx) /\ sc1 = AddWeighted(sc, r, pc)
      /\ sab1 = AddWeighted(sab, minus, ab)
  BY <1>8
<1>13. r \in Int /\ minus \in Int
  BY <1>9
<1>14. xal = sal + r /\ xv = sv + r * vx /\ xc = sc + r * pc
  OBVIOUS
<1>. HIDE DEF xal, xv, xc, sal, sv, sc, sab, sal1, sv1, sc1, sab1, pc, minus
<1>15. sal1 \in Logarithms /\ Apart(sal1, xal, ScalarMod)
  <2>. DEFINE o == 1
  <2>1. o \in Logarithms /\ NoPoint \notin {sal, o} /\ r * o = r
    BY <1>11, <1>13, Groth16Assumption, Decoding DEF Logarithms
  <2>2. AddWeighted(sal, r, o) = AddWeight(sal, r)
    BY <2>1 DEF AddWeighted, AddWeight
  <2>3. xal = sal + r * o
    BY <1>14, <2>1
  <2>. HIDE DEF o
  <2>4. AddWeighted(sal, r, o) \in Logarithms /\ Apart(AddWeighted(sal, r, o), xal, ScalarMod)
    BY <1>11, <1>13, <2>1, <2>3, AddWeightedIs
  <2>. QED
    BY <1>12, <2>2, <2>4
<1>16. sv1 \in Logarithms /\ Apart(sv1, xv, ScalarMod)
  <2>1. AddWeighted(sv, r, vx) \in Logarithms /\ Apart(AddWeighted(sv, r, vx), xv, ScalarMod)
    BY <1>7, <1>11, <1>13, <1>14, AddWeightedIs
  <2>. QED
    BY <1>12, <2>1
<1>17. /\ sc1 \in Logarithms \cup {NoPoint}
       /\ sc1 # NoPoint => sc \in Logarithms /\ pc \in Logarithms
  <2>. DEFINE g == AddWeighted(sc, r, pc)
  <2>1. g \in Logarithms \cup {NoPoint} /\ (g # NoPoint => sc \in Logarithms /\ pc \in Logarithms)
    BY <1>11, <1>13, AddWeightedPoints
  <2>. QED
    BY <1>12, <2>1
<1>18. /\ sab1 \in Logarithms \cup {NoPoint}
       /\ sab1 # NoPoint => sab \in Logarithms /\ ab \in Logarithms
  <2>. DEFINE g == AddWeighted(sab, minus, ab)
  <2>1. g \in Logarithms \cup {NoPoint} /\ (g # NoPoint => sab \in Logarithms /\ ab \in Logarithms)
    BY <1>10, <1>11, <1>13, AddWeightedPoints
  <2>. QED
    BY <1>12, <2>1
<1>19. sab1 # NoPoint => p.b \in Logarithms
  BY <1>6, <1>10, <1>18, Decoding
<1>20. /\ new.weights \in Seq(Logarithms) /\ Len(new.weights) = n + 1 /\ n + 1 <= Len(items)
       /\ \A i \in 1..n : new.weights[i] = sums.weights[i]
       /\ new.weights[n + 1] = r
  BY <1>1, <1>3, <1>8 DEF n
<1>21. \A i \in 1..(n + 1) : /\ Weighable(vkBytes, items[i])
                             /\ new.c # NoPoint => ParseProof(items[i].proof).c \in Logarithms
                             /\ new.ab # NoPoint => ParseProof(items[i].proof).b \in Logarithms
  <2>1. \A i \in 1..(n + 1) : i \in 1..n \/ i = n + 1
    BY <1>1
  <2>2. new.c # NoPoint => sums.c # NoPoint /\ p.c \in Logarithms
    BY <1>17, Decoding DEF sc1, sc, pc
  <2>3. new.ab # NoPoint => sums.ab # NoPoint /\ p.b \in Logarithms
    BY <1>18, <1>19, Decoding DEF sab1, sab
  <2>4. /\ Weighable(vkBytes, items[n + 1]) /\ p.c = ParseProof(items[n + 1].proof).c
        /\ p.b = ParseProof(items[n + 1].proof).b
    BY <1>4 DEF item, p
  <2>. QED
    BY <1>2, <2>1, <2>2, <2>3, <2>4
<1>22. ASSUME IsKey(vkBytes), new.c # NoPoint, new.ab # NoPoint
       PROVE  Apart(Balance(vkBytes, items, new), 0, ScalarMod)
  <2>0. sc1 # NoPoint /\ sab1 # NoPoint
    BY <1>22 DEF sc1, sab1
  <2>1. key \in KeyRecords
    BY <1>22, KeysOfPoints DEF key
  <2>2. p = [a |-> p.a, b |-> p.b, c |-> p.c]
    BY DEF p, ParseProof
  <2>3. p \in ProofRecords
    BY <1>4, <1>17, <1>19, <2>0, <2>2 DEF ProofRecords, pc
  <2>4. /\ sums.c \in Logarithms /\ sums.ab \in Logarithms /\ ab \in Logarithms
        /\ sums.c # NoPoint /\ sums.ab # NoPoint
    BY <1>17, <1>18, <2>0, Decoding DEF sc, sab
  <2>5. /\ key.alpha \in Int /\ key.beta \in Int /\ key.gamma \in Int /\ key.delta \in Int
        /\ p.a \in Int /\ p.b \in Int /\ p.c \in Int /\ p.b # NoPoint
    BY <1>9, <1>10, <2>1, <2>3, <2>4, Decoding DEF KeyRecords, ProofRecords
  <2>6. e \in Logarithms /\ e \in Int
    BY <1>5, <1>9, <2>1, <2>3, EquationOfItem
  <2>7. \A i \in 1..n : es[i] \in Int /\ es1[i] = es[i]
    <3>. SUFFICES ASSUME NEW i \in 1..n PROVE es[i] \in Int /\ es1[i] = es[i]
      OBVIOUS
    <3>1. i \in DOMAIN sums.weights /\ i \in DOMAIN new.weights
      BY <1>1, <1>20 DEF n
    <3>2. es[i] = WeighedError(vkBytes, items[i], sums.weights[i]) /\ es1[i] = es[i]
      BY <1>20, <3>1 DEF WeighedErrors
    <3>3. es[i] \in Int
      BY <1>22, <2>4, ErrorsAddUp DEF n, es
    <3>. QED
      BY <3>2, <3>3
  <2>8. es1[n + 1] = r * e
    <3>1. n + 1 \in DOMAIN new.weights
      BY <1>1, <1>20
    <3>. QED
      BY <1>20, <3>1 DEF WeighedErrors, WeighedError, item, key, xs, p
  <2>9. r * e \in Int
    BY <1>9, <2>6
  <2>. DEFINE t == SumUpTo(es, n)
              t1 == SumUpTo(es1, n + 1)
              al == key.alpha  be == key.beta  ga == key.gamma  de == key.delta
              pab == p.a * p.b
  <2>. HIDE DEF es, es1, e
  <2>10. t \in Int /\ SumUpTo(es1, n + 1) = t + r * e
    <3>1. \A i \in 1..(n + 1) : es1[i] \in Int
      <4>1. \A i \in 1..(n + 1) : i \in 1..n \/ i = n + 1
        BY <1>1
      <4>. QED
        BY <2>7, <2>8, <2>9, <4>1
    <3>2. (\A i \in 1..n : es[i] \in Int) /\ n \in 0..n
      BY <1>1, <2>7
    <3>3. SumUpTo(es, n) \in Int
      BY <1>1, <3>2, SumSteps
    <3>4. SumUpTo(es1, n) = SumUpTo(es, n)
      BY <1>1, <2>7, SumAgrees
    <3>5. SumUpTo(es1, n + 1) = SumUpTo(es1, n) + es1[n + 1]
      <4>. DEFINE w == n + 1
      <4>1. w \in Nat /\ n \in 0..(w - 1) /\ (\A i \in 1..w : es1[i] \in Int)
        BY <1>1, <3>1
      <4>. HIDE DEF w
      <4>. QED
        BY <4>1, SumSteps
    <3>. QED
      BY <2>8, <3>3, <3>4, <3>5
  <2>11. EquationSum(sab, sal, sv, sc, t, al, be, ga, de, ScalarMod)
    <3>1. Apart(Balance(vkBytes, items, sums), 0, ScalarMod)
      BY <1>22, <2>4 DEF SumsOK
    <3>. QED
      BY <3>1 DEF EquationSum, Balance, key, es, n, sab, sal, sv, sc
  <2>12. EquationSum(sab1, sal1, sv1, sc1, t1, al, be, ga, de, ScalarMod)
           => Apart(Balance(vkBytes, items, new), 0, ScalarMod)
    BY <1>20 DEF EquationSum, Balance, key, es1, sab1, sal1, sv1, sc1
  <2>13. Equation(pab, vx, pc, e, al, be, ga, de, ScalarMod)
    BY <1>5, <2>1, <2>3, EquationOfItem DEF Equation, vx, e, pc
  <2>15. /\ sab \in Int /\ sal \in Int /\ sv \in Int /\ sc \in Int /\ sab1 \in Int /\ sal1 \in Int
         /\ sv1 \in Int /\ sc1 \in Int /\ al \in Int /\ be \in Int /\ ga \in Int /\ de \in Int
         /\ pc \in Int /\ vx \in Int /\ e \in Int /\ pab \in Int /\ ab \in Int
    <3>1. sab1 \in Logarithms /\ sc1 \in Logarithms
      BY <1>17, <1>18, <2>0
    <3>2. pab \in Int
      BY <2>5
    <3>3. sab \in Logarithms /\ sc \in Logarithms /\ pc \in Int
      BY <2>4, <2>5 DEF sab, sc, pc
    <3>. QED
      BY <1>7, <1>9, <1>15, <1>16, <1>11, <2>4, <2>5, <2>6, <3>1, <3>2, <3>3
  <2>. DEFINE xab == sab - r * pab
  <2>17. Apart(sc1, xc, ScalarMod)
    <3>1. sc \in Logarithms /\ pc \in Logarithms
      BY <1>17, <2>0
    <3>2. Apart(AddWeighted(sc, r, pc), xc, ScalarMod)
      BY <1>13, <1>14, <3>1, AddWeightedIs
    <3>. QED
      BY <1>12, <3>2
  <2>18. Apart(sab1, xab, ScalarMod)
    <3>. DEFINE u == sab + minus * ab
    <3>0. u = sab + minus * ab
      OBVIOUS
    <3>. HIDE DEF u
    <3>1. Apart(sab1, u, ScalarMod)
      <4>1. sab \in Logarithms /\ ab \in Logarithms
        BY <1>18, <2>0
      <4>2. Apart(AddWeighted(sab, minus, ab), u, ScalarMod)
        BY <1>13, <3>0, <4>1, AddWeightedIs
      <4>. QED
        BY <1>12, <4>2
    <3>2. Apart(ab, pab, ScalarMod)
      <4>1. ab = pab % ScalarMod
        BY <2>5 DEF ab
      <4>. HIDE DEF pab
      <4>2. ab % ScalarMod = pab % ScalarMod
        BY <1>9, <2>15, <4>1, ResidueOfResidue
      <4>. QED
        BY <1>9, <2>15, <4>2, ResiduesApart
    <3>3. xab = sab - r * pab
      OBVIOUS
    <3>4. u = sab + (-r) * ab
      BY <3>0 DEF minus
    <3>. HIDE DEF xab, pab
    <3>. QED
      BY <1>9, <2>15, <3>4, <3>1, <3>2, <3>3, AddResidue
  <2>19. /\ xab = sab - r * pab /\ xal = sal + r /\ xv = sv + r * vx /\ xc = sc + r * pc
         /\ t1 = t + r * e /\ t \in Int
    BY <1>14, <2>10
  <2>20. /\ Apart(sal1, xal, ScalarMod) /\ Apart(sv1, xv, ScalarMod)
    BY <1>15, <1>16
  <2>. HIDE DEF t, t1, al, be, ga, de, pab, xab
  <2>21. EquationSum(sab1, sal1, sv1, sc1, t1, al, be, ga, de, ScalarMod)
    BY <1>9, <2>11, <2>13, <2>15, <2>17, <2>18, <2>19, <2>20, SumsOfEquations, ZenonT(40)
  <2>. QED
    BY <2>12, <2>21
<1>23. /\ new.alpha \in Logarithms /\ new.vkX \in Logarithms
       /\ new.c \in Logarithms \cup {NoPoint} /\ new.ab \in Logarithms \cup {NoPoint}
  BY <1>15, <1>16, <1>17, <1>18 DEF sal1, sv1, sc1, sab1
<1>24. /\ new.weights \in Seq(Logarithms) /\ Len(new.weights) <= Len(items)
       /\ \A i \in 1..Len(new.weights) :
            /\ Weighable(vkBytes, items[i])
            /\ new.c # NoPoint => ParseProof(items[i].proof).c \in Logarithms
            /\ new.ab # NoPoint => ParseProof(items[i].proof).b \in Logarithms
  BY <1>20, <1>21
<1>25. new = [weights |-> new.weights, alpha |-> new.alpha, vkX |-> new.vkX, c |-> new.c, ab |-> new.ab]
  BY <1>8
<1>26. SumsOK(vkBytes, items, new)
  BY <1>22, <1>23, <1>24, <1>25 DEF SumsOK
<1>. QED
  BY <1>26 DEF new, item, n

\* So the pairing check over the sums is a test of the sum of the errors.
LEMMA PairingOfSums ==
  ASSUME NEW sab \in Logarithms, NEW a \in Logarithms, NEW sv \in Logarithms, NEW sc \in Logarithms,
         NEW al \in Logarithms, NEW be \in Logarithms, NEW ga \in Logarithms, NEW de \in Logarithms,
         NEW sal \in Logarithms, NEW t \in Int, Scaled(a, sal, al, ScalarMod),
         EquationSum(sab, sal, sv, sc, t, al, be, ga, de, ScalarMod)
  PROVE  PairingCheck(<<sab, a, sv, sc>>, <<1, be, ga, de>>)
           = IF Apart(t, 0, ScalarMod) THEN "Ok(true)" ELSE "Ok(false)"
<1>. DEFINE one == 1
            f == sab * one + a * be + sv * ga + sc * de
            g == ThreeAndOne(sab, a, sv, sc, be, ga, de)
<1>1. one \in Logarithms /\ ScalarMod \in Nat \ {0}
  BY Groth16Assumption DEF Logarithms
<1>2. /\ sab \in Int /\ sal \in Int /\ sv \in Int /\ sc \in Int /\ a \in Int
      /\ al \in Int /\ be \in Int /\ ga \in Int /\ de \in Int
  BY DEF Logarithms
<1>3. f = sab * one + a * be + sv * ga + sc * de
  OBVIOUS
<1>4. f = g
  BY <1>2 DEF ThreeAndOne
<1>5. Apart(g, 0, ScalarMod) <=> Apart(t, 0, ScalarMod)
  BY <1>1, <1>2, SumOfEquations
<1>. HIDE DEF f, g, one
<1>6. PairingCheck(<<sab, a, sv, sc>>, <<one, be, ga, de>>)
        = IF Apart(f, 0, ScalarMod) THEN "Ok(true)" ELSE "Ok(false)"
  BY <1>1, <1>3, PairingOfPoints
<1>. QED
  BY <1>4, <1>5, <1>6 DEF one

\* An item that passes all tests can be added to the sums.
LEMMA WeighableItem ==
  ASSUME NEW vkBytes \in Registered, NEW item \in Items, Len(item.proof) = ProofLen,
         NEW ic, ic = ParseVk(vkBytes).ic, InputsError([ic |-> ic], ToFr(item.inputs)) = "None",
         NoPoint \notin Range(ic) \cup {ParseProof(item.proof).a}
  PROVE  Weighable(vkBytes, item)
<1>1. item.inputs \in InputLists
  BY GrothSets
<1>2. [ic |-> ic].ic = ic
  OBVIOUS
<1>3. Len(ic) = Len(ToFr(item.inputs)) + 1 /\ NonCanonical \notin Range(ToFr(item.inputs))
  BY <1>2 DEF InputsError
<1>4. Len(ic) = Len(item.inputs) + 1 /\ Canonical(item.inputs)
  BY <1>1, <1>3, InputsToFr
<1>5. ic \in Seq(Logarithms)
  BY ParsedKey
<1>6. ParseProof(item.proof).a \in Logarithms
  BY Decoding DEF ParseProof
<1>. QED
  BY <1>4, <1>5, <1>6 DEF Weighable

\* What the pairing check says of the sums over a whole batch.
LEMMA BatchVerdict ==
  ASSUME NEW vkBytes \in Registered, NEW items \in Batches, items # <<>>, NEW sums,
         SumsOK(vkBytes, items, sums), Len(sums.weights) = Len(items),
         NEW key, key = ParseVk(vkBytes), NEW alpha,
         alpha = IF key.alpha = NoPoint THEN NoPoint ELSE (sums.alpha * key.alpha) % ScalarMod,
         NEW g, g = PairingCheck(<<sums.ab, alpha, sums.vkX, sums.c>>, <<1, key.beta, key.gamma, key.delta>>)
  PROVE  /\ g \in Verdicts
         /\ g # "Trap" =>
              /\ IsKey(vkBytes) /\ sums.c # NoPoint /\ sums.ab # NoPoint
              /\ g = "Ok(true)" <=>
                   SumUpTo(WeighedErrors(vkBytes, items, sums.weights), Len(sums.weights)) % ScalarMod = 0
<1>. DEFINE one == 1
            sab == sums.ab  sal == sums.alpha  sv == sums.vkX  sc == sums.c
            al == key.alpha  be == key.beta  ga == key.gamma  de == key.delta
            t == SumUpTo(WeighedErrors(vkBytes, items, sums.weights), Len(sums.weights))
            gs == <<sab, alpha, sv, sc>>
            hs == <<one, be, ga, de>>
<1>1. g = PairingCheck(gs, hs)
  OBVIOUS
<1>. HIDE DEF one, sab, sal, sv, sc, al, be, ga, de
<1>2. g = "Trap" <=> NoPoint \in {sab, alpha, sv, sc, one, be, ga, de}
  BY <1>1, PairingOfNoPoint
<1>3. CASE g = "Trap"
  BY <1>3 DEF Verdicts
<1>4. CASE g # "Trap"
  <2>1. NoPoint \notin {al, be, ga, de} /\ sab # NoPoint /\ sc # NoPoint
    BY <1>2, <1>4 DEF al
  <2>2. Weighable(vkBytes, items[1])
    <3>1. Len(items) \in Nat /\ Len(items) # 0
      <4>1. items \in Seq(Items)
        BY Groth16Inputs
      <4>. QED
        BY <4>1
    <3>2. 1 \in 1..Len(sums.weights)
      BY <3>1
    <3>. QED
      BY <3>2 DEF SumsOK
  <2>3. NoPoint \notin Range(key.ic)
    <3>1. key.ic \in Seq(Logarithms)
      BY <2>2 DEF Weighable
    <3>2. Range(key.ic) \subseteq Logarithms
      BY <3>1 DEF Range
    <3>. QED
      BY <3>2, Decoding
  <2>4. IsKey(vkBytes)
    <3>1. ValidShape(vkBytes)
      BY DEF Registered
    <3>. QED
      BY <2>1, <2>3, <3>1 DEF IsKey, al, be, ga, de
  <2>5. al \in Logarithms /\ be \in Logarithms /\ ga \in Logarithms /\ de \in Logarithms
    <3>1. key \in KeyRecords
      BY <2>4, KeysOfPoints
    <3>. QED
      BY <3>1 DEF KeyRecords, al, be, ga, de
  <2>6. sab \in Logarithms /\ sc \in Logarithms /\ sal \in Logarithms /\ sv \in Logarithms
    BY <2>1 DEF SumsOK, sab, sc, sal, sv
  <2>7. ScalarMod \in Nat \ {0} /\ one \in Logarithms /\ \A k \in Logarithms : k \in Int
    BY Groth16Assumption DEF Logarithms, one
  <2>8. /\ sab \in Int /\ sal \in Int /\ sv \in Int /\ sc \in Int
        /\ al \in Int /\ be \in Int /\ ga \in Int /\ de \in Int
    BY <2>5, <2>6, <2>7
  <2>. DEFINE ta == sal * al
  <2>9. ta \in Int /\ ta = sal * al
    BY <2>8
  <2>10. alpha = ta % ScalarMod
    BY <2>1 DEF al, sal
  <2>. HIDE DEF ta
  <2>11. alpha \in Logarithms /\ alpha \in Int /\ Apart(alpha, ta, ScalarMod)
    <3>1. ta % ScalarMod \in 0..(ScalarMod - 1) /\ (ta % ScalarMod) % ScalarMod = ta % ScalarMod
      BY <2>7, <2>9, ResidueOfResidue
    <3>2. alpha \in Logarithms
      BY <2>10, <3>1 DEF Logarithms
    <3>3. alpha \in Int /\ alpha % ScalarMod = ta % ScalarMod
      BY <2>7, <2>10, <3>1, <3>2
    <3>. QED
      BY <2>7, <2>9, <3>2, <3>3, ResiduesApart
  <2>12. EquationSum(sab, sal, sv, sc, t, al, be, ga, de, ScalarMod)
    <3>1. Apart(Balance(vkBytes, items, sums), 0, ScalarMod)
      BY <2>1, <2>4 DEF SumsOK, sc, sab
    <3>. QED
      BY <3>1 DEF EquationSum, Balance, sab, sal, sv, sc, al, be, ga, de
  <2>13. t \in Int
    BY <2>1, <2>4, ErrorsAddUp DEF sab, sc
  <2>. HIDE DEF t
  <2>14. Scaled(alpha, sal, al, ScalarMod)
    BY <2>9, <2>11 DEF Scaled
  <2>15. PairingCheck(<<sab, alpha, sv, sc>>, <<one, be, ga, de>>)
           = IF Apart(t, 0, ScalarMod) THEN "Ok(true)" ELSE "Ok(false)"
    <3>1. alpha \in Logarithms
      BY <2>11
    <3>2. PairingCheck(<<sab, alpha, sv, sc>>, <<1, be, ga, de>>)
            = IF Apart(t, 0, ScalarMod) THEN "Ok(true)" ELSE "Ok(false)"
      BY <2>5, <2>6, <2>12, <2>13, <2>14, <3>1, PairingOfSums, SMTT(40)
    <3>. QED
      BY <3>2 DEF one
  <2>16. t % ScalarMod = 0 <=> Apart(t, 0, ScalarMod)
    BY <2>7, <2>13, ResiduesApart
  <2>17. g = IF t % ScalarMod = 0 THEN "Ok(true)" ELSE "Ok(false)"
    BY <1>1, <2>15, <2>16
  <2>. QED
    BY <2>1, <2>4, <2>17 DEF Verdicts, t, sab, sc
<1>. QED
  BY <1>3, <1>4

\* Between calls nothing is weighed.
LEMMA IdleKnown ==
  ASSUME Groth16IInv, call = <<>>
  PROVE  weighed = NothingWeighed
<1>1. ~VerifyOK
  BY CallKinds DEF VerifyOK
<1>2. ~BatchOK
  BY CallKinds DEF BatchOK
<1>. QED
  BY <1>1, <1>2 DEF Groth16IInv

\* Each item leaves the batch as it was, and the sums as they should be.
LEMMA WeighItemKeeps ==
  ASSUME Groth16IInv, NEW r \in Logarithms, WeighItem(r)
  PROVE  Groth16IInv'
<1>. DEFINE n == Len(weighed.weights)
            item == call.items[n + 1]
            ic == ParseVk(call.vk).ic
            xs == ToFr(item.inputs)
            p == ParseProof(item.proof)
            error == IF Len(item.proof) # ProofLen THEN "InvalidProofLength"
                     ELSE IF InputsError([ic |-> ic], xs) # "None" THEN InputsError([ic |-> ic], xs)
                     ELSE IF NoPoint \in Range(ic) \cup {p.a} THEN "Trap" ELSE "None"
<1>1. /\ call # <<>> /\ call.kind = "batch" /\ answer = "None" /\ n < Len(call.items)
      /\ answer' = error /\ call' = call
      /\ weighed' = IF error # "None" THEN weighed ELSE AfterWeighing(call.vk, item, weighed, r)
  BY DEF WeighItem, AfterWeighing
<1>2. /\ call = [kind |-> "batch", vk |-> call.vk, items |-> call.items]
      /\ call.vk \in Registered /\ call.items \in Batches /\ SumsOK(call.vk, call.items, weighed)
      /\ call.items # <<>>
  BY <1>1, BatchKnown
<1>3. InputsError([ic |-> ic], xs) \in {"PublicInputCountMismatch", "NonCanonicalInput", "None"}
  BY DEF InputsError
<1>4. error \in Verdicts \cup {"None"} /\ error \notin {"Ok(true)", "Ok(false)"}
  BY <1>3 DEF Verdicts, Errors
<1>5. SumsOK(call.vk, call.items, weighed')
  <2>1. CASE error # "None"
    BY <1>1, <1>2, <2>1
  <2>2. CASE error = "None"
    <3>1. item \in Items
      <4>1. call.items \in Seq(Items)
        BY <1>2, Groth16Inputs
      <4>2. n \in Nat
        BY <1>2 DEF SumsOK
      <4>. HIDE DEF n
      <4>. QED
        BY <1>1, <4>1, <4>2
    <3>2. Len(item.proof) = ProofLen /\ InputsError([ic |-> ic], xs) = "None"
          /\ NoPoint \notin Range(ic) \cup {p.a}
      BY <1>3, <2>2
    <3>3. Weighable(call.vk, item)
      BY <1>2, <3>1, <3>2, WeighableItem
    <3>4. SumsOK(call.vk, call.items, AfterWeighing(call.vk, item, weighed, r))
      BY <1>1, <1>2, <3>3, WeighingKeeps
    <3>. QED
      BY <1>1, <2>2, <3>4
  <2>. QED
    BY <2>1, <2>2
<1>. HIDE DEF error
<1>6. BatchOK'
  BY <1>1, <1>2, <1>4, <1>5 DEF BatchOK
<1>. QED
  BY <1>6 DEF Groth16IInv

\* The verdict is that of the sum of the weighed errors.
LEMMA CheckBatchKeeps ==
  ASSUME Groth16IInv, CheckBatch
  PROVE  Groth16IInv'
<1>. DEFINE key == ParseVk(call.vk)
            alpha == IF key.alpha = NoPoint THEN NoPoint ELSE (weighed.alpha * key.alpha) % ScalarMod
            g == PairingCheck(<<weighed.ab, alpha, weighed.vkX, weighed.c>>,
                              <<1, key.beta, key.gamma, key.delta>>)
<1>1. /\ call # <<>> /\ call.kind = "batch" /\ answer = "None" /\ Len(weighed.weights) = Len(call.items)
      /\ answer' = g /\ call' = call /\ weighed' = weighed
  BY DEF CheckBatch
<1>2. /\ call = [kind |-> "batch", vk |-> call.vk, items |-> call.items]
      /\ call.vk \in Registered /\ call.items \in Batches /\ SumsOK(call.vk, call.items, weighed)
      /\ call.items # <<>>
  BY <1>1, BatchKnown
<1>3. /\ g \in Verdicts
      /\ g # "Trap" =>
           /\ IsKey(call.vk) /\ weighed.c # NoPoint /\ weighed.ab # NoPoint
           /\ g = "Ok(true)" <=>
                SumUpTo(WeighedErrors(call.vk, call.items, weighed.weights), Len(weighed.weights)) % ScalarMod = 0
  <2>1. key = ParseVk(call.vk)
    OBVIOUS
  <2>. HIDE DEF key
  <2>2. alpha = IF key.alpha = NoPoint THEN NoPoint ELSE (weighed.alpha * key.alpha) % ScalarMod
    OBVIOUS
  <2>. HIDE DEF alpha
  <2>3. g = PairingCheck(<<weighed.ab, alpha, weighed.vkX, weighed.c>>,
                         <<1, key.beta, key.gamma, key.delta>>)
    OBVIOUS
  <2>. HIDE DEF g
  <2>4. /\ call.vk \in Registered /\ call.items \in Batches /\ call.items # <<>>
        /\ SumsOK(call.vk, call.items, weighed) /\ Len(weighed.weights) = Len(call.items)
    BY <1>1, <1>2
  <2>. QED
    BY <2>1, <2>2, <2>3, <2>4, BatchVerdict
<1>. HIDE DEF g
<1>4. g \in {"Ok(true)", "Ok(false)"} => Judged(call.vk, call.items, weighed)'
  BY <1>1, <1>2, <1>3 DEF Judged
<1>5. BatchOK'
  BY <1>1, <1>2, <1>3, <1>4 DEF BatchOK
<1>. QED
  BY <1>5 DEF Groth16IInv

\* Groth16IInv is inductive: an answered verification is the verdict on its arguments,
\* and the sums of a batch balance the errors of the items weighed so far.
LEMMA Groth16Inductive ==
  /\ Groth16Init => Groth16IInv
  /\ Groth16IInv /\ [Groth16Next]_groth16Vars => Groth16IInv'
<1>1. Groth16Init => Groth16IInv
  BY DEF Groth16Init, Groth16IInv
<1>2. ASSUME Groth16IInv, [Groth16Next]_groth16Vars PROVE Groth16IInv'
  <2>1. CASE CallVerify
    <3>1. call = <<>> /\ weighed' = NothingWeighed
      BY <1>2, <2>1, IdleKnown DEF CallVerify
    <3>2. VerifyOK'
      BY <2>1, <3>1 DEF CallVerify, VerifyOK
    <3>. QED
      BY <3>2 DEF Groth16IInv
  <2>2. CASE CallVerifyBatch
    <3>1. call = <<>> /\ weighed' = NothingWeighed
      BY <1>2, <2>2, IdleKnown DEF CallVerifyBatch
    <3>2. PICK vkBytes \in Registered, items \in Batches :
            /\ call' = [kind |-> "batch", vk |-> vkBytes, items |-> items]
            /\ answer' = IF items = <<>> THEN "EmptyBatch" ELSE "None"
      BY <2>2 DEF CallVerifyBatch
    <3>3. SumsOK(vkBytes, items, NothingWeighed)
      BY NothingBalances
    <3>4. answer' \in Verdicts \cup {"None"} /\ answer' \notin {"Ok(true)", "Ok(false)"}
          /\ (items = <<>> => answer' = "EmptyBatch")
      BY <3>2 DEF Verdicts, Errors
    <3>5. BatchOK'
      BY <3>1, <3>2, <3>3, <3>4 DEF BatchOK
    <3>. QED
      BY <3>5 DEF Groth16IInv
  <2>3. CASE CheckBatch
    BY <1>2, <2>3, CheckBatchKeeps
  <2>4. CASE Return
    BY <2>4 DEF Return, Groth16IInv
  <2>5. ASSUME NEW r \in 0..(ScalarMod - 1), WeighItem(r) PROVE Groth16IInv'
    <3>1. r \in Logarithms
      BY DEF Logarithms
    <3>. QED
      BY <1>2, <2>5, <3>1, WeighItemKeeps
  <2>6. CASE UNCHANGED groth16Vars
    <3>1. call' = call /\ weighed' = weighed /\ answer' = answer
      BY <2>6 DEF groth16Vars
    <3>. QED
      BY <1>2, <3>1 DEF Groth16IInv, VerifyOK, BatchOK, Judged
  <2>. QED
    BY <1>2, <2>1, <2>2, <2>3, <2>4, <2>5, <2>6 DEF Groth16Next
<1>. QED
  BY <1>1, <1>2

LEMMA Groth16Invariant == Groth16Spec => []Groth16IInv
<1>1. Groth16Init => Groth16IInv
  BY Groth16Inductive
<1>2. Groth16IInv /\ [Groth16Next]_groth16Vars => Groth16IInv'
  BY Groth16Inductive
<1>. QED
  BY <1>1, <1>2, PTL DEF Groth16Spec

\* A call is answered with one of the verdicts, and no more items are weighed than there are.
THEOREM Groth16TypesHold == Groth16Spec => []Groth16TypeOK
<1>1. ASSUME Groth16IInv PROVE Groth16TypeOK
  <2>1. CASE call = <<>> /\ weighed = NothingWeighed /\ answer = "None"
    BY <2>1 DEF Groth16TypeOK, NothingWeighed
  <2>2. CASE VerifyOK
    <3>1. PICK vkBytes \in Registered, retained \in Registered \cup {<<>>}, item \in Items :
            /\ call = [kind |-> "verify", vk |-> vkBytes, retained |-> retained, items |-> <<item>>]
            /\ answer = VerifyBytes(vkBytes, retained, item.inputs, item.proof)
            /\ weighed = NothingWeighed
      BY <2>2 DEF VerifyOK
    <3>2. answer \in Verdicts
      BY <3>1, VerifyAccepts
    <3>3. call # <<>> /\ Len(weighed.weights) = 0 /\ Len(call.items) = 1
      BY <3>1, CallKinds DEF NothingWeighed
    <3>. QED
      BY <3>2, <3>3 DEF Groth16TypeOK, Verdicts
  <2>3. CASE BatchOK
    <3>1. PICK vkBytes \in Registered, items \in Batches :
            /\ call = [kind |-> "batch", vk |-> vkBytes, items |-> items]
            /\ SumsOK(vkBytes, items, weighed) /\ answer \in Verdicts \cup {"None"}
      BY <2>3 DEF BatchOK
    <3>2. call # <<>> /\ call.items = items /\ Len(weighed.weights) <= Len(items)
      BY <3>1, CallKinds DEF SumsOK
    <3>. QED
      BY <3>1, <3>2 DEF Groth16TypeOK, Verdicts
  <2>. QED
    BY <1>1, <2>1, <2>2, <2>3 DEF Groth16IInv
<1>. QED
  BY <1>1, Groth16Invariant, PTL

\* For every modulus, base and width, and all keys, proofs and inputs: verify (the pairing
\* check of contracts/verifier/src/lib.rs with the negation in bytes, the IC sum and
\* the retained key) says yes to genuine proofs and to nothing else.
THEOREM OnlyTheGenuine == Groth16Spec => []AcceptsTheGenuine
<1>1. ASSUME Groth16IInv, call # <<>>, call.kind = "verify"
      PROVE  LET item   == call.items[1]
                 usable == call.vk \in {KeyBytes(k) : k \in KeySet}
                 fits   == Len(ParseVk(call.vk).ic) = Len(item.inputs) + 1
             IN  answer = "Ok(true)" <=>
                   Genuine(call.vk, item) \/ (Genuine(call.retained, item) /\ (usable \/ ~fits))
  <2>1. ~BatchOK
    BY <1>1 DEF BatchOK
  <2>2. PICK vkBytes \in Registered, retained \in Registered \cup {<<>>}, item \in Items :
          /\ call = [kind |-> "verify", vk |-> vkBytes, retained |-> retained, items |-> <<item>>]
          /\ answer = VerifyBytes(vkBytes, retained, item.inputs, item.proof)
    BY <1>1, <2>1 DEF Groth16IInv, VerifyOK
  <2>3. call.vk = vkBytes /\ call.retained = retained /\ call.items[1] = item
    BY <2>2
  <2>. QED
    BY <2>2, <2>3, VerifyAccepts
<1>2. Groth16IInv => AcceptsTheGenuine
  BY <1>1 DEF AcceptsTheGenuine
<1>. QED
  BY <1>2, Groth16Invariant, PTL

\* And verify_batch, of a batch of points, is a test of the weighed sum of the errors,
\* whatever the weights.
THEOREM BatchesAreWeighed == Groth16Spec => []BatchIsWeighedSum
<1>1. ASSUME Groth16IInv, call # <<>>, call.kind = "batch", answer \in {"Ok(true)", "Ok(false)"}
      PROVE  /\ \A i \in DOMAIN call.items : WellFormed(call.vk, call.items[i])
             /\ answer = "Ok(true)" <=>
                  SumUpTo([i \in DOMAIN call.items |-> weighed.weights[i] * ResidualOf(call.vk, call.items[i])],
                        Len(call.items)) % ScalarMod = 0
  <2>. DEFINE n == Len(weighed.weights)
              es == WeighedErrors(call.vk, call.items, weighed.weights)
              fs == [i \in DOMAIN call.items |-> weighed.weights[i] * ResidualOf(call.vk, call.items[i])]
  <2>1. /\ call.vk \in Registered /\ call.items \in Batches /\ SumsOK(call.vk, call.items, weighed)
        /\ Judged(call.vk, call.items, weighed)
    BY <1>1, BatchKnown
  <2>2. /\ n = Len(call.items) /\ IsKey(call.vk) /\ weighed.c # NoPoint /\ weighed.ab # NoPoint
        /\ answer = "Ok(true)" <=> SumUpTo(es, n) % ScalarMod = 0
    BY <2>1 DEF Judged
  <2>3. \A i \in 1..n : /\ WellFormed(call.vk, call.items[i])
                        /\ es[i] = weighed.weights[i] * ResidualOf(call.vk, call.items[i])
                        /\ es[i] \in Int
    BY <2>1, <2>2, ErrorsAddUp
  <2>4. call.items \in Seq(Items)
    BY <2>1, Groth16Inputs
  <2>5. DOMAIN call.items = 1..n /\ n \in Nat
    BY <2>2, <2>4
  <2>6. \A i \in 1..n : es[i] \in Int /\ fs[i] = es[i]
    BY <2>3, <2>5
  <2>. HIDE DEF n, es, fs
  <2>7. SumUpTo(fs, n) = SumUpTo(es, n)
    BY <2>5, <2>6, SumAgrees
  <2>. QED
    BY <2>2, <2>3, <2>5, <2>7 DEF fs
<1>2. Groth16IInv => BatchIsWeighedSum
  BY <1>1 DEF BatchIsWeighedSum
<1>. QED
  BY <1>2, Groth16Invariant, PTL

-----------------------------------------------------------------------------
(* The tree. Batched, incremental insertion computes the root of the full   *)
(* tree, every stored path leads to it, and the node store implements the    *)
(* log of commitments the token contract relies on. A recursive function of  *)
(* the model is a CHOOSE: before its equation can be used it has to be shown *)
(* that a function that satisfies it exists, level by level.                 *)

(* Powers of two and the nodes above a leaf. *)

LEMMA Pow2Exists ==
  Pow2 = [level \in 0..TreeDepth |-> IF level = 0 THEN 1 ELSE 2 * Pow2[level - 1]]
<1>. DEFINE Holds(g, n) == \A level \in 0..n : g[level] = IF level = 0 THEN 1 ELSE 2 * g[level - 1]
            T == {n \in 0..TreeDepth : \E g : Holds(g, n)}
<1>0. TreeDepth \in Nat
  BY TreeAssumption
<1>1. 0 \in T
  <2>. DEFINE g == [level \in 0..0 |-> 1]
  <2>1. Holds(g, 0)
    OBVIOUS
  <2>. HIDE DEF g, Holds
  <2>. QED
    BY <1>0, <2>1
<1>2. ASSUME NEW n \in 0..(TreeDepth - 1), n \in T
      PROVE  n + 1 \in T
  <2>1. PICK g : Holds(g, n)
    BY <1>2
  <2>. DEFINE h == [level \in 0..(n + 1) |-> IF level <= n THEN g[level] ELSE 2 * g[n]]
  <2>2. ASSUME NEW level \in 0..(n + 1)
        PROVE  h[level] = IF level = 0 THEN 1 ELSE 2 * h[level - 1]
    <3>1. CASE level = 0
      BY <2>1, <3>1
    <3>2. CASE level \in 1..n
      BY <2>1, <3>2
    <3>3. CASE level = n + 1
      BY <3>3
    <3>. QED
      BY <3>1, <3>2, <3>3
  <2>. HIDE DEF h
  <2>3. Holds(h, n + 1)
    BY <2>2
  <2>. HIDE DEF Holds
  <2>. QED
    BY <1>0, <2>3
<1>3. 0..TreeDepth \subseteq T
  <2>. HIDE DEF T
  <2>. QED
    BY <1>0, <1>1, <1>2, RangeInduction
<1>4. PICK g : Holds(g, TreeDepth)
  <2>. HIDE DEF Holds
  <2>. QED
    BY <1>0, <1>3
<1>. DEFINE f == [level \in 0..TreeDepth |-> g[level]]
<1>5. f = [level \in 0..TreeDepth |-> IF level = 0 THEN 1 ELSE 2 * f[level - 1]]
  BY <1>0, <1>4
<1>. HIDE DEF f
<1>. QED
  BY <1>5 DEF Pow2

LEMMA Pow2Facts ==
  /\ TreeDepth \in Nat
  /\ Pow2[0] = 1
  /\ \A level \in 1..TreeDepth : level - 1 \in 0..TreeDepth /\ Pow2[level] = 2 * Pow2[level - 1]
  /\ \A level \in 0..TreeDepth : Pow2[level] \in Nat \ {0}
<1>1. /\ TreeDepth \in Nat
      /\ Pow2[0] = 1
      /\ \A level \in 1..TreeDepth : level - 1 \in 0..TreeDepth /\ Pow2[level] = 2 * Pow2[level - 1]
  BY Pow2Exists, TreeAssumption
<1>. DEFINE T == {level \in 0..TreeDepth : Pow2[level] \in Nat \ {0}}
<1>2. 0 \in T
  BY <1>1
<1>3. \A n \in 0..(TreeDepth - 1) : n \in T => n + 1 \in T
  BY <1>1
<1>4. 0..TreeDepth \subseteq T
  <2>. HIDE DEF T
  <2>. QED
    BY <1>1, <1>2, <1>3, RangeInduction
<1>. QED
  BY <1>1, <1>4

\* One level up halves the index; the order of leaves is kept; neighbours have the
\* same node above them or neighbouring ones; the root is above every leaf.
LEMMA AboveFacts ==
  /\ \A i \in Nat, level \in 0..TreeDepth : Above(i, level) \in Nat /\ Above(i, level) <= i
  /\ \A i \in Nat : Above(i, 0) = i
  /\ \A i \in Nat, level \in 1..TreeDepth : Above(i, level) = Above(i, level - 1) \div 2
  /\ \A i, j \in Nat, level \in 0..TreeDepth : i <= j => Above(i, level) <= Above(j, level)
  /\ \A i \in Nat, level \in 0..TreeDepth : Above(i + 1, level) <= Above(i, level) + 1
  /\ \A i \in 0..MaxLeaves : Above(i, TreeDepth) = 0
<1>. USE DEF Above
<1>0. \A level \in 0..TreeDepth : Pow2[level] \in Nat \ {0}
  BY Pow2Facts
<1>1. ASSUME NEW i \in Nat, NEW level \in 0..TreeDepth
      PROVE  Above(i, level) \in Nat /\ Above(i, level) <= i
  <2>. DEFINE P == Pow2[level]
  <2>1. P \in Nat \ {0}
    BY <1>0
  <2>. HIDE DEF P
  <2>2. i \div P \in Nat /\ i \div P <= i
    BY <2>1
  <2>. QED
    BY <2>2 DEF P
<1>2. ASSUME NEW i \in Nat PROVE Above(i, 0) = i
  BY Pow2Facts
<1>3. ASSUME NEW i \in Nat, NEW level \in 1..TreeDepth
      PROVE  Above(i, level) = Above(i, level - 1) \div 2
  <2>. DEFINE P == Pow2[level - 1]
  <2>1. P \in Nat \ {0} /\ Pow2[level] = 2 * P
    BY Pow2Facts
  <2>. HIDE DEF P
  <2>2. (i \div P) \div 2 = i \div (2 * P)
    BY <2>1
  <2>. QED
    BY <2>1, <2>2 DEF P
<1>4. ASSUME NEW i \in Nat, NEW j \in Nat, NEW level \in 0..TreeDepth, i <= j
      PROVE  Above(i, level) <= Above(j, level)
  <2>. DEFINE P == Pow2[level]
  <2>1. P \in Nat \ {0}
    BY <1>0
  <2>. HIDE DEF P
  <2>2. i \div P <= j \div P
    BY <1>4, <2>1
  <2>. QED
    BY <2>2 DEF P
<1>5. ASSUME NEW i \in Nat, NEW level \in 0..TreeDepth
      PROVE  Above(i + 1, level) <= Above(i, level) + 1
  <2>. DEFINE P == Pow2[level]
  <2>1. P \in Nat \ {0}
    BY <1>0
  <2>. HIDE DEF P
  <2>2. (i + 1) \div P <= (i \div P) + 1
    BY <2>1
  <2>. QED
    BY <2>2 DEF P
<1>6. ASSUME NEW i \in 0..MaxLeaves PROVE Above(i, TreeDepth) = 0
  <2>. DEFINE P == Pow2[TreeDepth]
  <2>1. P \in Nat \ {0} /\ i \in Nat /\ i < P
    BY Pow2Facts DEF MaxLeaves
  <2>. HIDE DEF P
  <2>2. i \div P = 0
    BY <2>1
  <2>. QED
    BY <2>2 DEF P
<1>. QED
  BY <1>1, <1>2, <1>3, <1>4, <1>5, <1>6

---------------------------------------------------------------------------
(* The reference tree. *)

\* the leaf at a place of the padded tree
LeafAt(list, p) == IF p < Len(list) THEN list[p + 1] ELSE EmptyLeaf

LEMMA EmptyRootsExist ==
  EmptyRoots = [level \in 0..TreeDepth |->
                  IF level = 0 THEN EmptyLeaf ELSE Hash(EmptyRoots[level - 1], EmptyRoots[level - 1])]
<1>. DEFINE Holds(g, n) == \A level \in 0..n : g[level] = IF level = 0 THEN EmptyLeaf ELSE Hash(g[level - 1], g[level - 1])
            T == {n \in 0..TreeDepth : \E g : Holds(g, n)}
<1>0. TreeDepth \in Nat
  BY TreeAssumption
<1>1. 0 \in T
  <2>. DEFINE g == [level \in 0..0 |-> EmptyLeaf]
  <2>1. Holds(g, 0)
    OBVIOUS
  <2>. HIDE DEF g, Holds
  <2>. QED
    BY <1>0, <2>1
<1>2. ASSUME NEW n \in 0..(TreeDepth - 1), n \in T
      PROVE  n + 1 \in T
  <2>1. PICK g : Holds(g, n)
    BY <1>2
  <2>. DEFINE h == [level \in 0..(n + 1) |-> IF level <= n THEN g[level] ELSE Hash(g[n], g[n])]
  <2>2. ASSUME NEW level \in 0..(n + 1)
        PROVE  h[level] = IF level = 0 THEN EmptyLeaf ELSE Hash(h[level - 1], h[level - 1])
    <3>1. CASE level = 0
      BY <2>1, <3>1
    <3>2. CASE level \in 1..n
      BY <2>1, <3>2
    <3>3. CASE level = n + 1
      BY <3>3
    <3>. QED
      BY <3>1, <3>2, <3>3
  <2>. HIDE DEF h
  <2>3. Holds(h, n + 1)
    BY <2>2
  <2>. HIDE DEF Holds
  <2>. QED
    BY <1>0, <2>3
<1>3. 0..TreeDepth \subseteq T
  <2>. HIDE DEF T
  <2>. QED
    BY <1>0, <1>1, <1>2, RangeInduction
<1>4. PICK g : Holds(g, TreeDepth)
  <2>. HIDE DEF Holds
  <2>. QED
    BY <1>0, <1>3
<1>. DEFINE f == [level \in 0..TreeDepth |-> g[level]]
<1>5. f = [level \in 0..TreeDepth |-> IF level = 0 THEN EmptyLeaf ELSE Hash(f[level - 1], f[level - 1])]
  BY <1>0, <1>4
<1>. HIDE DEF f
<1>. QED
  BY <1>5 DEF EmptyRoots

LEMMA EmptyRootsFacts ==
  /\ EmptyRoots[0] = EmptyLeaf
  /\ \A level \in 1..TreeDepth : EmptyRoots[level] = Hash(EmptyRoots[level - 1], EmptyRoots[level - 1])
BY EmptyRootsExist, TreeAssumption

LEMMA ReferenceNodesExist ==
  ASSUME NEW list
  PROVE  ReferenceNodes(list) =
           [level \in 0..TreeDepth |->
              [p \in Nat |->
                 IF level = 0
                   THEN IF p < Len(list) THEN list[p + 1] ELSE EmptyLeaf
                   ELSE Hash(ReferenceNodes(list)[level - 1][2 * p],
                             ReferenceNodes(list)[level - 1][2 * p + 1])]]
<1>. DEFINE Row(below) == [p \in Nat |-> Hash(below[2 * p], below[2 * p + 1])]
            row == [p \in Nat |-> IF p < Len(list) THEN list[p + 1] ELSE EmptyLeaf]
<1>. HIDE DEF Row, row
<1>. DEFINE Holds(g, n) == \A level \in 0..n : g[level] = IF level = 0 THEN row ELSE Row(g[level - 1])
            T == {n \in 0..TreeDepth : \E g : Holds(g, n)}
<1>0. TreeDepth \in Nat
  BY TreeAssumption
<1>1. 0 \in T
  <2>. DEFINE g == [level \in 0..0 |-> row]
  <2>1. Holds(g, 0)
    OBVIOUS
  <2>. HIDE DEF g, Holds
  <2>. QED
    BY <1>0, <2>1
<1>2. ASSUME NEW n \in 0..(TreeDepth - 1), n \in T
      PROVE  n + 1 \in T
  <2>1. PICK g : Holds(g, n)
    BY <1>2
  <2>. DEFINE h == [level \in 0..(n + 1) |-> IF level <= n THEN g[level] ELSE Row(g[n])]
  <2>2. ASSUME NEW level \in 0..(n + 1)
        PROVE  h[level] = IF level = 0 THEN row ELSE Row(h[level - 1])
    <3>1. CASE level = 0
      BY <2>1, <3>1
    <3>2. CASE level \in 1..n
      BY <2>1, <3>2
    <3>3. CASE level = n + 1
      BY <3>3
    <3>. QED
      BY <3>1, <3>2, <3>3
  <2>. HIDE DEF h
  <2>3. Holds(h, n + 1)
    BY <2>2
  <2>. HIDE DEF Holds
  <2>. QED
    BY <1>0, <2>3
<1>3. 0..TreeDepth \subseteq T
  <2>. HIDE DEF T
  <2>. QED
    BY <1>0, <1>1, <1>2, RangeInduction
<1>4. PICK g : Holds(g, TreeDepth)
  <2>. HIDE DEF Holds
  <2>. QED
    BY <1>0, <1>3
<1>. DEFINE f == [level \in 0..TreeDepth |-> g[level]]
<1>5. f = [level \in 0..TreeDepth |-> IF level = 0 THEN row ELSE Row(f[level - 1])]
  BY <1>0, <1>4
<1>. HIDE DEF f
<1>6. \A level \in 0..TreeDepth :
        (IF level = 0 THEN row ELSE Row(f[level - 1])) =
          [p \in Nat |-> IF level = 0
                           THEN IF p < Len(list) THEN list[p + 1] ELSE EmptyLeaf
                           ELSE Hash(f[level - 1][2 * p], f[level - 1][2 * p + 1])]
  BY DEF Row, row
<1>7. f = [level \in 0..TreeDepth |->
             [p \in Nat |-> IF level = 0
                              THEN IF p < Len(list) THEN list[p + 1] ELSE EmptyLeaf
                              ELSE Hash(f[level - 1][2 * p], f[level - 1][2 * p + 1])]]
  BY <1>5, <1>6
<1>. QED
  BY <1>7 DEF ReferenceNodes

LEMMA ReferenceNodesFacts ==
  ASSUME NEW list
  PROVE  /\ \A p \in Nat : ReferenceNodes(list)[0][p] = LeafAt(list, p)
         /\ \A level \in 1..TreeDepth, p \in Nat :
              ReferenceNodes(list)[level][p] =
                Hash(ReferenceNodes(list)[level - 1][2 * p], ReferenceNodes(list)[level - 1][2 * p + 1])
<1>1. TreeDepth \in Nat
  BY TreeAssumption
<1>2. ReferenceNodes(list)[0] = [p \in Nat |-> IF p < Len(list) THEN list[p + 1] ELSE EmptyLeaf]
  BY <1>1, ReferenceNodesExist
<1>3. ASSUME NEW level \in 1..TreeDepth
      PROVE  ReferenceNodes(list)[level] =
               [p \in Nat |-> Hash(ReferenceNodes(list)[level - 1][2 * p],
                                   ReferenceNodes(list)[level - 1][2 * p + 1])]
  BY <1>1, ReferenceNodesExist
<1>. QED
  BY <1>2, <1>3 DEF LeafAt

\* The leaves below a node are those below its two children.
LEMMA Children ==
  ASSUME NEW i \in Nat, NEW level \in 1..TreeDepth, NEW p \in Nat
  PROVE  Above(i, level) = p <=> Above(i, level - 1) = 2 * p \/ Above(i, level - 1) = 2 * p + 1
<1>1. level - 1 \in 0..TreeDepth
  BY Pow2Facts
<1>2. Above(i, level - 1) \in Nat /\ Above(i, level) = Above(i, level - 1) \div 2
  BY <1>1, AboveFacts
<1>. QED
  BY <1>2

\* Two trees have the same node exactly when they have the same leaves below it:
\* the root of a subtree commits to everything in it.
LEMMA TreesAgree ==
  ASSUME NEW a, NEW b, NEW level \in 0..TreeDepth, NEW p \in Nat
  PROVE  ReferenceNodes(a)[level][p] = ReferenceNodes(b)[level][p]
           <=> \A i \in Nat : Above(i, level) = p => LeafAt(a, i) = LeafAt(b, i)
<1>. DEFINE A == ReferenceNodes(a)
            B == ReferenceNodes(b)
            Same(n, q) == \A i \in Nat : Above(i, n) = q => LeafAt(a, i) = LeafAt(b, i)
            T == {n \in 0..TreeDepth : \A q \in Nat : A[n][q] = B[n][q] <=> Same(n, q)}
<1>0. TreeDepth \in Nat
  BY TreeAssumption
<1>. HIDE DEF A, B
<1>1. 0 \in T
  <2>1. \A q \in Nat : A[0][q] = LeafAt(a, q) /\ B[0][q] = LeafAt(b, q)
    BY ReferenceNodesFacts DEF A, B
  <2>2. \A i \in Nat : Above(i, 0) = i
    BY AboveFacts
  <2>. QED
    BY <1>0, <2>1, <2>2
<1>2. ASSUME NEW n \in 0..(TreeDepth - 1), n \in T
      PROVE  n + 1 \in T
  <2>1. n + 1 \in 1..TreeDepth /\ (n + 1) - 1 = n
    BY <1>0
  <2>2. ASSUME NEW q \in Nat PROVE A[n + 1][q] = B[n + 1][q] <=> Same(n + 1, q)
    <3>1. /\ A[n + 1][q] = Hash(A[n][2 * q], A[n][2 * q + 1])
          /\ B[n + 1][q] = Hash(B[n][2 * q], B[n][2 * q + 1])
      <4>. USE DEF A, B
      <4>1. A[n + 1][q] = Hash(A[(n + 1) - 1][2 * q], A[(n + 1) - 1][2 * q + 1])
        BY <2>1, ReferenceNodesFacts
      <4>2. B[n + 1][q] = Hash(B[(n + 1) - 1][2 * q], B[(n + 1) - 1][2 * q + 1])
        BY <2>1, ReferenceNodesFacts
      <4>. QED
        BY <2>1, <4>1, <4>2
    <3>2. A[n + 1][q] = B[n + 1][q]
            <=> A[n][2 * q] = B[n][2 * q] /\ A[n][2 * q + 1] = B[n][2 * q + 1]
      BY <3>1 DEF Hash
    <3>3. \A i \in Nat : Above(i, n + 1) = q <=> Above(i, n) = 2 * q \/ Above(i, n) = 2 * q + 1
      BY <2>1, Children
    <3>4. Same(n + 1, q) <=> Same(n, 2 * q) /\ Same(n, 2 * q + 1)
      BY <3>3
    <3>5. /\ A[n][2 * q] = B[n][2 * q] <=> Same(n, 2 * q)
          /\ A[n][2 * q + 1] = B[n][2 * q + 1] <=> Same(n, 2 * q + 1)
      <4>1. 2 * q \in Nat /\ 2 * q + 1 \in Nat
        OBVIOUS
      <4>. HIDE DEF Same
      <4>. QED
        BY <1>2, <4>1
    <3>. QED
      BY <3>2, <3>4, <3>5
  <2>. HIDE DEF Same
  <2>. QED
    BY <2>1, <2>2
<1>3. 0..TreeDepth \subseteq T
  <2>. HIDE DEF T
  <2>. QED
    BY <1>0, <1>1, <1>2, RangeInduction
<1>. HIDE DEF Same
<1>4. A[level][p] = B[level][p] <=> Same(level, p)
  BY <1>3
<1>. QED
  BY <1>4 DEF A, B, Same

\* A node with no leaf below it is that of an empty subtree.
LEMMA EmptySubtree ==
  ASSUME NEW list, Len(list) \in Nat, NEW level \in 0..TreeDepth, NEW p \in Nat,
         \A i \in Nat : Above(i, level) = p => i >= Len(list)
  PROVE  ReferenceNodes(list)[level][p] = EmptyRoots[level]
<1>. DEFINE A == ReferenceNodes(list)
            Bare(n, q) == \A i \in Nat : Above(i, n) = q => i >= Len(list)
            T == {n \in 0..TreeDepth : \A q \in Nat : Bare(n, q) => A[n][q] = EmptyRoots[n]}
<1>0. TreeDepth \in Nat
  BY TreeAssumption
<1>. HIDE DEF A
<1>1. 0 \in T
  <2>1. \A q \in Nat : A[0][q] = LeafAt(list, q)
    BY ReferenceNodesFacts DEF A
  <2>2. \A i \in Nat : Above(i, 0) = i
    BY AboveFacts
  <2>3. ASSUME NEW q \in Nat, Bare(0, q) PROVE A[0][q] = EmptyRoots[0]
    <3>1. ~(q < Len(list))
      BY <2>2, <2>3
    <3>. QED
      BY <2>1, <3>1, EmptyRootsFacts DEF LeafAt
  <2>. HIDE DEF Bare
  <2>. QED
    BY <1>0, <2>3
<1>2. ASSUME NEW n \in 0..(TreeDepth - 1), n \in T
      PROVE  n + 1 \in T
  <2>1. n + 1 \in 1..TreeDepth /\ (n + 1) - 1 = n
    BY <1>0
  <2>2. ASSUME NEW q \in Nat, Bare(n + 1, q) PROVE A[n + 1][q] = EmptyRoots[n + 1]
    <3>1. A[n + 1][q] = Hash(A[n][2 * q], A[n][2 * q + 1])
      <4>1. A[n + 1][q] = Hash(A[(n + 1) - 1][2 * q], A[(n + 1) - 1][2 * q + 1])
        BY <2>1, ReferenceNodesFacts DEF A
      <4>. QED
        BY <2>1, <4>1
    <3>2. \A i \in Nat : Above(i, n + 1) = q <=> Above(i, n) = 2 * q \/ Above(i, n) = 2 * q + 1
      BY <2>1, Children
    <3>3. Bare(n, 2 * q) /\ Bare(n, 2 * q + 1)
      BY <2>2, <3>2
    <3>4. A[n][2 * q] = EmptyRoots[n] /\ A[n][2 * q + 1] = EmptyRoots[n]
      <4>1. 2 * q \in Nat /\ 2 * q + 1 \in Nat
        OBVIOUS
      <4>. HIDE DEF Bare
      <4>. QED
        BY <1>2, <3>3, <4>1
    <3>5. EmptyRoots[n + 1] = Hash(EmptyRoots[n], EmptyRoots[n])
      <4>1. EmptyRoots[n + 1] = Hash(EmptyRoots[(n + 1) - 1], EmptyRoots[(n + 1) - 1])
        BY <2>1, EmptyRootsFacts
      <4>. QED
        BY <2>1, <4>1
    <3>. QED
      BY <3>1, <3>4, <3>5
  <2>. HIDE DEF Bare
  <2>. QED
    BY <2>1, <2>2
<1>3. 0..TreeDepth \subseteq T
  <2>. HIDE DEF T
  <2>. QED
    BY <1>0, <1>1, <1>2, RangeInduction
<1>4. Bare(level, p)
  OBVIOUS
<1>. HIDE DEF Bare
<1>5. A[level][p] = EmptyRoots[level]
  BY <1>3, <1>4
<1>. QED
  BY <1>5 DEF A

---------------------------------------------------------------------------
(* What a batch writes. *)

LEMMA BatchNodesExist ==
  ASSUME NEW c
  PROVE  BatchNodes(c) =
           [level \in 0..TreeDepth |->
              [p \in Above(nextLeaf, level)..Above(nextLeaf + Len(c) - 1, level) |->
                 IF level = 0
                   THEN c[p - nextLeaf + 1]
                   ELSE Hash(LeftChild(BatchNodes(c)[level - 1], level - 1, 2 * p),
                             RightChild(BatchNodes(c)[level - 1], level - 1, 2 * p + 1))]]
<1>. DEFINE Span(level) == Above(nextLeaf, level)..Above(nextLeaf + Len(c) - 1, level)
            Row(below, level) ==
              [p \in Span(level) |-> Hash(LeftChild(below, level - 1, 2 * p),
                                          RightChild(below, level - 1, 2 * p + 1))]
            row == [p \in Span(0) |-> c[p - nextLeaf + 1]]
<1>. HIDE DEF Row, row
<1>. DEFINE Holds(g, n) == \A level \in 0..n : g[level] = IF level = 0 THEN row ELSE Row(g[level - 1], level)
            T == {n \in 0..TreeDepth : \E g : Holds(g, n)}
<1>0. TreeDepth \in Nat
  BY TreeAssumption
<1>1. 0 \in T
  <2>. DEFINE g == [level \in 0..0 |-> row]
  <2>1. Holds(g, 0)
    OBVIOUS
  <2>. HIDE DEF g, Holds
  <2>. QED
    BY <1>0, <2>1
<1>2. ASSUME NEW n \in 0..(TreeDepth - 1), n \in T
      PROVE  n + 1 \in T
  <2>1. PICK g : Holds(g, n)
    BY <1>2
  <2>. DEFINE h == [level \in 0..(n + 1) |-> IF level <= n THEN g[level] ELSE Row(g[n], n + 1)]
  <2>2. ASSUME NEW level \in 0..(n + 1)
        PROVE  h[level] = IF level = 0 THEN row ELSE Row(h[level - 1], level)
    <3>1. CASE level = 0
      BY <2>1, <3>1
    <3>2. CASE level \in 1..n
      BY <2>1, <3>2
    <3>3. CASE level = n + 1
      BY <3>3
    <3>. QED
      BY <3>1, <3>2, <3>3
  <2>. HIDE DEF h
  <2>3. Holds(h, n + 1)
    BY <2>2
  <2>. HIDE DEF Holds
  <2>. QED
    BY <1>0, <2>3
<1>3. 0..TreeDepth \subseteq T
  <2>. HIDE DEF T
  <2>. QED
    BY <1>0, <1>1, <1>2, RangeInduction
<1>4. PICK g : Holds(g, TreeDepth)
  <2>. HIDE DEF Holds
  <2>. QED
    BY <1>0, <1>3
<1>. DEFINE f == [level \in 0..TreeDepth |-> g[level]]
<1>5. f = [level \in 0..TreeDepth |-> IF level = 0 THEN row ELSE Row(f[level - 1], level)]
  BY <1>0, <1>4
<1>. HIDE DEF f
<1>6. \A level \in 0..TreeDepth :
        (IF level = 0 THEN row ELSE Row(f[level - 1], level)) =
          [p \in Span(level) |->
             IF level = 0
               THEN c[p - nextLeaf + 1]
               ELSE Hash(LeftChild(f[level - 1], level - 1, 2 * p),
                         RightChild(f[level - 1], level - 1, 2 * p + 1))]
  <2>. HIDE DEF Span
  <2>. QED
    BY DEF Row, row
<1>7. f = [level \in 0..TreeDepth |->
             [p \in Span(level) |->
                IF level = 0
                  THEN c[p - nextLeaf + 1]
                  ELSE Hash(LeftChild(f[level - 1], level - 1, 2 * p),
                            RightChild(f[level - 1], level - 1, 2 * p + 1))]]
  <2>. HIDE DEF Span
  <2>. QED
    BY <1>5, <1>6
<1>. QED
  BY <1>7 DEF BatchNodes

LEMMA BatchNodesFacts ==
  ASSUME NEW c
  PROVE  /\ \A level \in 0..TreeDepth :
              DOMAIN BatchNodes(c)[level] =
                Above(nextLeaf, level)..Above(nextLeaf + Len(c) - 1, level)
         /\ \A p \in Above(nextLeaf, 0)..Above(nextLeaf + Len(c) - 1, 0) :
              BatchNodes(c)[0][p] = c[p - nextLeaf + 1]
         /\ \A level \in 1..TreeDepth :
              \A p \in Above(nextLeaf, level)..Above(nextLeaf + Len(c) - 1, level) :
                BatchNodes(c)[level][p] =
                  Hash(LeftChild(BatchNodes(c)[level - 1], level - 1, 2 * p),
                       RightChild(BatchNodes(c)[level - 1], level - 1, 2 * p + 1))
<1>0. TreeDepth \in Nat
  BY TreeAssumption
<1>. DEFINE Span(level) == Above(nextLeaf, level)..Above(nextLeaf + Len(c) - 1, level)
            vals == BatchNodes(c)
<1>. HIDE DEF vals, Span
<1>1. vals = [level \in 0..TreeDepth |->
                [p \in Span(level) |->
                   IF level = 0
                     THEN c[p - nextLeaf + 1]
                     ELSE Hash(LeftChild(vals[level - 1], level - 1, 2 * p),
                               RightChild(vals[level - 1], level - 1, 2 * p + 1))]]
  BY BatchNodesExist DEF vals, Span
<1>2. ASSUME NEW level \in 0..TreeDepth
      PROVE  vals[level] = [p \in Span(level) |->
                              IF level = 0
                                THEN c[p - nextLeaf + 1]
                                ELSE Hash(LeftChild(vals[level - 1], level - 1, 2 * p),
                                          RightChild(vals[level - 1], level - 1, 2 * p + 1))]
  BY <1>1
<1>3. \A level \in 0..TreeDepth : DOMAIN vals[level] = Span(level)
  BY <1>2
<1>4. \A p \in Span(0) : vals[0][p] = c[p - nextLeaf + 1]
  <2>1. vals[0] = [p \in Span(0) |-> c[p - nextLeaf + 1]]
    BY <1>0, <1>2
  <2>. QED
    BY <2>1
<1>5. ASSUME NEW level \in 1..TreeDepth, NEW p \in Span(level)
      PROVE  vals[level][p] = Hash(LeftChild(vals[level - 1], level - 1, 2 * p),
                                   RightChild(vals[level - 1], level - 1, 2 * p + 1))
  <2>1. level \in 0..TreeDepth /\ level # 0
    BY <1>0
  <2>. QED
    BY <1>2, <2>1
<1>. QED
  BY <1>3, <1>4, <1>5 DEF vals, Span

---------------------------------------------------------------------------
(* The node store. *)

LeavesOK ==
  /\ nextLeaf \in 0..MaxLeaves
  /\ \A i \in 0..(nextLeaf - 1) : node[<<0, i>>] \in Commitments

\* at every level the nodes above a leaf, and no others, are stored
RowsOK ==
  DOMAIN node = {pos \in (0..TreeDepth) \X (0..MaxLeaves) :
                   nextLeaf > 0 /\ pos[2] <= Above(nextLeaf - 1, pos[1])}

\* every stored node is that of the full tree over the leaves so far, those that an
\* insertion did not touch included
NodesOK == \A pos \in DOMAIN node : node[pos] = ReferenceNodes(Leaves)[pos[1]][pos[2]]

TreeOK == LeavesOK /\ RowsOK /\ NodesOK /\ RootIsReferenceRoot

LEMMA LeavesFacts ==
  ASSUME LeavesOK
  PROVE  /\ MaxLeaves \in Nat /\ nextLeaf \in Nat
         /\ Leaves \in Seq(Commitments) /\ Len(Leaves) = nextLeaf
         /\ \A i \in 1..nextLeaf : Leaves[i] = node[<<0, i - 1>>]
         /\ \A i \in Nat : LeafAt(Leaves, i) = IF i < nextLeaf THEN node[<<0, i>>] ELSE EmptyLeaf
<1>1. MaxLeaves \in Nat /\ nextLeaf \in Nat
  BY Pow2Facts DEF MaxLeaves, LeavesOK
<1>2. Leaves \in [1..nextLeaf -> Commitments]
  BY <1>1 DEF Leaves, LeavesOK
<1>3. Leaves \in Seq(Commitments) /\ Len(Leaves) = nextLeaf
  <2>. HIDE DEF Leaves
  <2>. QED
    BY <1>1, <1>2
<1>4. \A i \in 1..nextLeaf : Leaves[i] = node[<<0, i - 1>>]
  BY DEF Leaves
<1>5. ASSUME NEW i \in Nat
      PROVE  LeafAt(Leaves, i) = IF i < nextLeaf THEN node[<<0, i>>] ELSE EmptyLeaf
  <2>1. CASE i < nextLeaf
    <3>1. i + 1 \in 1..nextLeaf /\ (i + 1) - 1 = i
      BY <1>1, <2>1
    <3>2. Leaves[i + 1] = node[<<0, i>>]
      BY <1>4, <3>1
    <3>. QED
      BY <1>3, <2>1, <3>2 DEF LeafAt
  <2>2. CASE ~(i < nextLeaf)
    BY <1>3, <2>2 DEF LeafAt
  <2>. QED
    BY <2>1, <2>2
<1>. QED
  BY <1>1, <1>3, <1>4, <1>5

LEMMA Appended ==
  ASSUME LeavesOK, NEW m \in Nat, NEW c \in [1..m -> Commitments]
  PROVE  /\ c \in Seq(Commitments) /\ Len(c) = m
         /\ Leaves \o c \in Seq(Commitments) /\ Len(Leaves \o c) = nextLeaf + m
         /\ \A i \in Nat :
              LeafAt(Leaves \o c, i) =
                IF i < nextLeaf THEN LeafAt(Leaves, i)
                ELSE IF i < nextLeaf + m THEN c[i - nextLeaf + 1] ELSE EmptyLeaf
<1>. DEFINE old == Leaves
            n == nextLeaf
            list == old \o c
<1>1. n \in Nat /\ old \in Seq(Commitments) /\ Len(old) = n
  BY LeavesFacts
<1>2. c \in Seq(Commitments) /\ Len(c) = m
  OBVIOUS
<1>. HIDE DEF old, n
<1>3. /\ list \in Seq(Commitments) /\ Len(list) = n + m
      /\ \A k \in 1..n : list[k] = old[k]
      /\ \A k \in 1..m : list[n + k] = c[k]
  BY <1>1, <1>2
<1>. HIDE DEF list
<1>4. ASSUME NEW i \in Nat
      PROVE  LeafAt(list, i) = IF i < n THEN LeafAt(old, i)
                               ELSE IF i < n + m THEN c[i - n + 1] ELSE EmptyLeaf
  <2>1. CASE i < n
    <3>1. i + 1 \in 1..n /\ i < n + m
      BY <1>1, <2>1
    <3>2. list[i + 1] = old[i + 1]
      BY <1>3, <3>1
    <3>. QED
      BY <1>1, <1>3, <2>1, <3>1, <3>2 DEF LeafAt
  <2>2. CASE ~(i < n) /\ i < n + m
    <3>1. i - n + 1 \in 1..m /\ n + (i - n + 1) = i + 1
      BY <1>1, <2>2
    <3>2. list[i + 1] = c[i - n + 1]
      BY <1>3, <3>1
    <3>. QED
      BY <1>3, <2>2, <3>2 DEF LeafAt
  <2>3. CASE ~(i < n + m)
    <3>1. ~(i < n)
      BY <1>1, <2>3
    <3>. QED
      BY <1>3, <2>3, <3>1 DEF LeafAt
  <2>. QED
    BY <2>1, <2>2, <2>3
<1>. QED
  BY <1>2, <1>3, <1>4 DEF list, old, n

\* The nodes left of a batch are stored already, and stay what they are.
LEMMA LeftOfBatch ==
  ASSUME TreeOK, NEW m \in Nat, NEW c \in [1..m -> Commitments],
         NEW level \in 0..TreeDepth, NEW p \in Nat, p < Above(nextLeaf, level)
  PROVE  /\ <<level, p>> \in DOMAIN node
         /\ node[<<level, p>>] = ReferenceNodes(Leaves \o c)[level][p]
<1>. DEFINE n == nextLeaf
<1>0. LeavesOK /\ n \in Nat /\ n <= MaxLeaves /\ MaxLeaves \in Nat
  BY LeavesFacts DEF TreeOK, LeavesOK
<1>1. Above(n, level) \in Nat /\ Above(n, level) <= n
  BY <1>0, AboveFacts
<1>2. n > 0 /\ n - 1 \in Nat
  BY <1>0, <1>1
<1>3. /\ Above(n - 1, level) \in Nat /\ Above(n - 1, level) <= n - 1
      /\ Above(n, level) <= Above(n - 1, level) + 1
  <2>1. (n - 1) + 1 = n
    BY <1>0
  <2>2. Above((n - 1) + 1, level) <= Above(n - 1, level) + 1
    BY <1>2, AboveFacts
  <2>. QED
    BY <1>2, <2>1, <2>2, AboveFacts
<1>4. p <= Above(n - 1, level) /\ p \in 0..MaxLeaves
  BY <1>0, <1>1, <1>2, <1>3
<1>5. <<level, p>> \in DOMAIN node
  BY <1>2, <1>4 DEF TreeOK, RowsOK
<1>6. node[<<level, p>>] = ReferenceNodes(Leaves)[level][p]
  BY <1>5 DEF TreeOK, NodesOK
<1>7. ASSUME NEW i \in Nat, Above(i, level) = p
      PROVE  LeafAt(Leaves, i) = LeafAt(Leaves \o c, i)
  <2>1. i < n
    <3>1. n <= i => Above(n, level) <= Above(i, level)
      BY <1>0, AboveFacts
    <3>. QED
      BY <1>0, <1>1, <1>7, <3>1
  <2>. QED
    BY <1>0, <2>1, Appended
<1>8. ReferenceNodes(Leaves)[level][p] = ReferenceNodes(Leaves \o c)[level][p]
  <2>. DEFINE a == Leaves
              b == Leaves \o c
  <2>1. \A i \in Nat : Above(i, level) = p => LeafAt(a, i) = LeafAt(b, i)
    BY <1>7
  <2>. HIDE DEF a, b
  <2>2. ReferenceNodes(a)[level][p] = ReferenceNodes(b)[level][p]
    BY <2>1, TreesAgree
  <2>. QED
    BY <2>2 DEF a, b
<1>. QED
  BY <1>5, <1>6, <1>8

\* The nodes a batch writes are those of the full tree over all leaves.
LEMMA BatchIsReference ==
  ASSUME TreeOK, NEW m \in Nat \ {0}, NEW c \in [1..m -> Commitments],
         NEW level \in 0..TreeDepth,
         NEW p \in Above(nextLeaf, level)..Above(nextLeaf + m - 1, level)
  PROVE  BatchNodes(c)[level][p] = ReferenceNodes(Leaves \o c)[level][p]
<1>. DEFINE first == nextLeaf
            last == nextLeaf + m - 1
            list == Leaves \o c
            vals == BatchNodes(c)
            tree == ReferenceNodes(list)
            T == {k \in 0..TreeDepth :
                    \A q \in Above(first, k)..Above(last, k) : vals[k][q] = tree[k][q]}
<1>0. /\ TreeDepth \in Nat /\ LeavesOK /\ first \in Nat /\ last \in Nat /\ first <= last
      /\ last = nextLeaf + m - 1
  BY TreeAssumption, LeavesFacts DEF TreeOK
<1>1. Len(c) = m /\ Len(list) = nextLeaf + m /\ Len(list) \in Nat
  BY <1>0, Appended
<1>2. /\ \A k \in 0..TreeDepth : DOMAIN vals[k] = Above(first, k)..Above(last, k)
      /\ \A q \in Above(first, 0)..Above(last, 0) : vals[0][q] = c[q - nextLeaf + 1]
      /\ \A k \in 1..TreeDepth : \A q \in Above(first, k)..Above(last, k) :
           vals[k][q] = Hash(LeftChild(vals[k - 1], k - 1, 2 * q),
                             RightChild(vals[k - 1], k - 1, 2 * q + 1))
  <2>1. nextLeaf + Len(c) - 1 = last
    BY <1>1
  <2>. HIDE DEF vals, last
  <2>. QED
    BY <2>1, BatchNodesFacts DEF vals
<1>3. 0 \in T
  <2>1. ASSUME NEW q \in Above(first, 0)..Above(last, 0) PROVE vals[0][q] = tree[0][q]
    <3>1. q \in Nat /\ q >= nextLeaf /\ q < nextLeaf + m
      BY <1>0, AboveFacts
    <3>2. tree[0][q] = LeafAt(list, q)
      BY <3>1, ReferenceNodesFacts
    <3>3. LeafAt(list, q) = c[q - nextLeaf + 1]
      BY <1>0, <3>1, Appended
    <3>. HIDE DEF vals, tree, first, last
    <3>. QED
      BY <1>2, <3>2, <3>3
  <2>. HIDE DEF vals, tree, first, last
  <2>. QED
    BY <1>0, <2>1
<1>4. ASSUME NEW k \in 0..(TreeDepth - 1), k \in T
      PROVE  k + 1 \in T
  <2>1. /\ k + 1 \in 1..TreeDepth /\ (k + 1) - 1 = k
        /\ k \in 0..TreeDepth /\ k + 1 \in 0..TreeDepth
    BY <1>0
  <2>2. ASSUME NEW q \in Above(first, k + 1)..Above(last, k + 1)
        PROVE  vals[k + 1][q] = tree[k + 1][q]
    <3>1. /\ Above(first, k) \in Nat /\ Above(last, k) \in Nat
          /\ Above(first, k + 1) = Above(first, k) \div 2
          /\ Above(last, k + 1) = Above(last, k) \div 2
      <4>1. /\ Above(first, k + 1) = Above(first, (k + 1) - 1) \div 2
            /\ Above(last, k + 1) = Above(last, (k + 1) - 1) \div 2
        <5>. HIDE DEF first, last
        <5>. QED
          BY <1>0, <2>1, AboveFacts
      <4>. HIDE DEF first, last
      <4>. QED
        BY <1>0, <2>1, <4>1, AboveFacts
    <3>. DEFINE lo == Above(first, k)
                hi == Above(last, k)
    <3>2. lo \in Nat /\ hi \in Nat /\ q \in (lo \div 2)..(hi \div 2)
      BY <3>1
    <3>3. vals[k + 1][q] = Hash(LeftChild(vals[k], k, 2 * q), RightChild(vals[k], k, 2 * q + 1))
      <4>1. vals[k + 1][q] = Hash(LeftChild(vals[(k + 1) - 1], (k + 1) - 1, 2 * q),
                                  RightChild(vals[(k + 1) - 1], (k + 1) - 1, 2 * q + 1))
        <5>. HIDE DEF vals, first, last
        <5>. QED
          BY <1>2, <2>1
      <4>. HIDE DEF vals
      <4>. QED
        BY <2>1, <4>1
    <3>. HIDE DEF lo, hi
    <3>4. q \in Nat /\ 2 * q \in Nat /\ 2 * q + 1 \in Nat
          /\ 2 * q <= hi /\ 2 * q + 1 >= lo
      BY <3>2
    <3>5. LeftChild(vals[k], k, 2 * q) = tree[k][2 * q]
      <4>1. CASE 2 * q \in lo..hi
        <5>. HIDE DEF vals, tree, first, last
        <5>. QED
          BY <1>2, <1>4, <2>1, <4>1 DEF LeftChild, lo, hi
      <4>2. CASE ~(2 * q \in lo..hi)
        <5>1. 2 * q < Above(first, k)
          BY <3>2, <3>4, <4>2 DEF lo
        <5>2. /\ <<k, 2 * q>> \in DOMAIN node
              /\ node[<<k, 2 * q>>] = tree[k][2 * q]
          BY <2>1, <3>4, <5>1, LeftOfBatch
        <5>3. ~(2 * q \in DOMAIN vals[k])
          <6>. HIDE DEF vals, first, last
          <6>. QED
            BY <1>2, <2>1, <4>2 DEF lo, hi
        <5>. HIDE DEF vals, tree
        <5>. QED
          BY <5>2, <5>3 DEF LeftChild, Stored
      <4>. QED
        BY <4>1, <4>2
    <3>6. RightChild(vals[k], k, 2 * q + 1) = tree[k][2 * q + 1]
      <4>1. CASE 2 * q + 1 \in lo..hi
        <5>. HIDE DEF vals, tree, first, last
        <5>. QED
          BY <1>2, <1>4, <2>1, <4>1 DEF RightChild, lo, hi
      <4>2. CASE ~(2 * q + 1 \in lo..hi)
        <5>1. 2 * q + 1 > Above(last, k)
          BY <3>2, <3>4, <4>2 DEF hi
        <5>2. ASSUME NEW i \in Nat, Above(i, k) = 2 * q + 1
              PROVE  i >= Len(list)
          <6>1. i <= last => Above(i, k) <= Above(last, k)
            <7>. HIDE DEF last
            <7>. QED
              BY <1>0, <2>1, AboveFacts
          <6>2. ~(i <= last)
            BY <3>1, <3>4, <5>1, <5>2, <6>1
          <6>. HIDE DEF list
          <6>. QED
            BY <1>0, <1>1, <6>2
        <5>3. tree[k][2 * q + 1] = EmptyRoots[k]
          <6>. HIDE DEF list
          <6>. QED
            BY <1>1, <2>1, <3>4, <5>2, EmptySubtree
        <5>4. ~(2 * q + 1 \in DOMAIN vals[k])
          <6>. HIDE DEF vals, first, last
          <6>. QED
            BY <1>2, <2>1, <4>2 DEF lo, hi
        <5>. HIDE DEF vals, tree
        <5>. QED
          BY <5>3, <5>4 DEF RightChild
      <4>. QED
        BY <4>1, <4>2
    <3>7. tree[k + 1][q] = Hash(tree[k][2 * q], tree[k][2 * q + 1])
      <4>1. tree[k + 1][q] = Hash(tree[(k + 1) - 1][2 * q], tree[(k + 1) - 1][2 * q + 1])
        <5>. HIDE DEF list
        <5>. QED
          BY <2>1, <3>4, ReferenceNodesFacts
      <4>. HIDE DEF tree
      <4>. QED
        BY <2>1, <4>1
    <3>. HIDE DEF vals, tree
    <3>. QED
      BY <3>3, <3>5, <3>6, <3>7
  <2>. HIDE DEF vals, tree, first, last
  <2>. QED
    BY <2>1, <2>2
<1>5. 0..TreeDepth \subseteq T
  <2>. HIDE DEF T
  <2>. QED
    BY <1>0, <1>3, <1>4, RangeInduction
<1>6. level \in T
  BY <1>5
<1>. QED
  BY <1>6

\* What an inserting call does to the node store and the list of leaves.
LEMMA InsertEffect ==
  ASSUME TreeOK, NEW m \in Nat \ {0}, NEW c \in [1..m -> Commitments], InsertMany(c)
  PROVE  /\ nextLeaf' = nextLeaf + m /\ nextLeaf' \in 0..MaxLeaves
         /\ DOMAIN node' = {pos \in (0..TreeDepth) \X (0..MaxLeaves) :
                              pos[2] <= Above(nextLeaf' - 1, pos[1])}
         /\ \A pos \in DOMAIN node' : node'[pos] = ReferenceNodes(Leaves \o c)[pos[1]][pos[2]]
         /\ merkleRoot' = ReferenceRoot(Leaves \o c)
<1>. DEFINE first == nextLeaf
            last == nextLeaf + m - 1
            vals == BatchNodes(c)
            tree == ReferenceNodes(Leaves \o c)
            written == {pos \in (0..TreeDepth) \X (0..MaxLeaves) : pos[2] \in DOMAIN vals[pos[1]]}
<1>0. /\ TreeDepth \in Nat /\ LeavesOK /\ first \in Nat /\ last \in Nat /\ MaxLeaves \in Nat
      /\ Len(c) = m /\ first <= last
  BY TreeAssumption, LeavesFacts, Appended DEF TreeOK
<1>1. /\ nextLeaf' = nextLeaf + m /\ nextLeaf + m <= MaxLeaves
      /\ node' = [pos \in DOMAIN node \cup written |->
                    IF pos \in written THEN vals[pos[1]][pos[2]] ELSE node[pos]]
      /\ merkleRoot' = vals[TreeDepth][0]
  BY <1>0 DEF InsertMany, HasCapacity
<1>2. nextLeaf' \in 0..MaxLeaves /\ nextLeaf' - 1 = last /\ last \in 0..MaxLeaves
  BY <1>0, <1>1
<1>3. \A level \in 0..TreeDepth : DOMAIN vals[level] = Above(first, level)..Above(last, level)
  <2>1. nextLeaf + Len(c) - 1 = last
    BY <1>0
  <2>. HIDE DEF last
  <2>. QED
    BY <2>1, BatchNodesFacts
<1>4. \A level \in 0..TreeDepth : \A p \in Above(first, level)..Above(last, level) :
        vals[level][p] = tree[level][p]
  BY BatchIsReference
<1>5. ASSUME NEW level \in 0..TreeDepth
      PROVE  /\ Above(first, level) \in Nat /\ Above(last, level) \in 0..MaxLeaves
             /\ Above(first, level) <= Above(last, level)
  <2>. HIDE DEF first, last
  <2>1. Above(first, level) \in Nat /\ Above(last, level) \in Nat /\ Above(last, level) <= last
        /\ Above(first, level) <= Above(last, level)
    BY <1>0, AboveFacts
  <2>. QED
    BY <1>0, <1>2, <2>1
<1>6. ASSUME NEW level \in 0..TreeDepth, NEW p \in 0..MaxLeaves
      PROVE  /\ <<level, p>> \in written <=> p \in Above(first, level)..Above(last, level)
             /\ <<level, p>> \in DOMAIN node =>
                  p <= Above(last, level) /\ node[<<level, p>>] = ReferenceNodes(Leaves)[level][p]
             /\ p < Above(first, level) =>
                  <<level, p>> \in DOMAIN node /\ node[<<level, p>>] = tree[level][p]
  <2>1. <<level, p>> \in written <=> p \in Above(first, level)..Above(last, level)
    <3>. HIDE DEF vals, first, last
    <3>. QED
      BY <1>3
  <2>2. ASSUME <<level, p>> \in DOMAIN node
        PROVE  p <= Above(last, level) /\ node[<<level, p>>] = ReferenceNodes(Leaves)[level][p]
    <3>1. nextLeaf > 0 /\ p <= Above(nextLeaf - 1, level)
      BY <2>2 DEF TreeOK, RowsOK
    <3>2. nextLeaf - 1 \in Nat /\ nextLeaf - 1 <= last
      BY <1>0, <3>1
    <3>3. Above(nextLeaf - 1, level) \in Nat /\ Above(nextLeaf - 1, level) <= Above(last, level)
      <4>. HIDE DEF last
      <4>. QED
        BY <1>0, <3>2, AboveFacts
    <3>4. p <= Above(last, level)
      <4>. HIDE DEF last
      <4>. QED
        BY <1>5, <3>1, <3>3
    <3>5. node[<<level, p>>] = ReferenceNodes(Leaves)[level][p]
      BY <2>2 DEF TreeOK, NodesOK
    <3>. QED
      BY <3>4, <3>5
  <2>3. ASSUME p < Above(first, level)
        PROVE  <<level, p>> \in DOMAIN node /\ node[<<level, p>>] = tree[level][p]
    BY <2>3, LeftOfBatch
  <2>. QED
    BY <2>1, <2>2, <2>3
<1>. HIDE DEF tree, vals
<1>7. DOMAIN node' = DOMAIN node \cup written
  <2>. HIDE DEF written
  <2>. QED
    BY <1>1
<1>8. DOMAIN node \subseteq (0..TreeDepth) \X (0..MaxLeaves)
  BY DEF TreeOK, RowsOK
<1>9. ASSUME NEW level \in 0..TreeDepth, NEW p \in 0..MaxLeaves
      PROVE  /\ <<level, p>> \in DOMAIN node' <=> p <= Above(last, level)
             /\ <<level, p>> \in DOMAIN node' => node'[<<level, p>>] = tree[level][p]
  <2>. HIDE DEF written, first, last
  <2>1. CASE p \in Above(first, level)..Above(last, level)
    <3>1. <<level, p>> \in written /\ node'[<<level, p>>] = vals[level][p]
      BY <1>1, <1>6, <2>1
    <3>. QED
      BY <1>4, <1>5, <1>7, <2>1, <3>1
  <2>2. CASE p < Above(first, level)
    <3>1. <<level, p>> \notin written
      BY <1>5, <1>6, <2>2
    <3>2. <<level, p>> \in DOMAIN node /\ node[<<level, p>>] = tree[level][p]
      BY <1>6, <2>2
    <3>3. node'[<<level, p>>] = node[<<level, p>>]
      BY <1>1, <3>1, <3>2
    <3>4. p <= Above(last, level)
      BY <1>5, <2>2
    <3>. QED
      BY <1>7, <3>2, <3>3, <3>4
  <2>3. CASE p > Above(last, level)
    <3>1. <<level, p>> \notin written /\ ~(p <= Above(last, level))
      BY <1>5, <1>6, <2>3
    <3>. QED
      BY <1>6, <1>7, <3>1
  <2>. QED
    BY <1>5, <2>1, <2>2, <2>3
<1>10. DOMAIN node' \subseteq (0..TreeDepth) \X (0..MaxLeaves)
  BY <1>7, <1>8
<1>11. DOMAIN node' = {pos \in (0..TreeDepth) \X (0..MaxLeaves) :
                         pos[2] <= Above(nextLeaf' - 1, pos[1])}
  <2>. HIDE DEF last, written
  <2>1. \A pos \in (0..TreeDepth) \X (0..MaxLeaves) :
          pos \in DOMAIN node' <=> pos[2] <= Above(last, pos[1])
    BY <1>9
  <2>. QED
    BY <1>2, <1>10, <2>1
<1>12. \A pos \in DOMAIN node' : node'[pos] = tree[pos[1]][pos[2]]
  <2>. HIDE DEF last, written
  <2>1. \A pos \in (0..TreeDepth) \X (0..MaxLeaves) :
          pos \in DOMAIN node' => node'[pos] = tree[pos[1]][pos[2]]
    BY <1>9
  <2>. QED
    BY <1>10, <2>1
<1>13. merkleRoot' = ReferenceRoot(Leaves \o c)
  <2>1. Above(first, TreeDepth) = 0 /\ Above(last, TreeDepth) = 0
    <3>1. first \in 0..MaxLeaves
      BY DEF TreeOK, LeavesOK
    <3>. HIDE DEF first, last
    <3>. QED
      BY <1>2, <3>1, AboveFacts
  <2>2. vals[TreeDepth][0] = tree[TreeDepth][0]
    <3>. HIDE DEF first, last
    <3>. QED
      BY <1>0, <1>4, <2>1
  <2>. QED
    BY <1>1, <2>2 DEF ReferenceRoot, tree
<1>. QED
  BY <1>1, <1>2, <1>11, <1>12, <1>13 DEF tree

\* The list of leaves grows by the batch.
LEMMA LeavesGrow ==
  ASSUME TreeOK, NEW m \in Nat \ {0}, NEW c \in [1..m -> Commitments], InsertMany(c)
  PROVE  LeavesOK' /\ Leaves' = Leaves \o c
<1>. DEFINE list == Leaves \o c
            n == nextLeaf
<1>0. LeavesOK /\ n \in Nat /\ MaxLeaves \in Nat /\ TreeDepth \in Nat
  BY LeavesFacts, TreeAssumption DEF TreeOK
<1>1. /\ nextLeaf' = n + m /\ nextLeaf' \in 0..MaxLeaves
      /\ DOMAIN node' = {pos \in (0..TreeDepth) \X (0..MaxLeaves) :
                           pos[2] <= Above(nextLeaf' - 1, pos[1])}
      /\ \A pos \in DOMAIN node' : node'[pos] = ReferenceNodes(list)[pos[1]][pos[2]]
  BY InsertEffect
<1>2. list \in Seq(Commitments) /\ Len(list) = n + m
  BY <1>0, Appended
<1>. HIDE DEF list
<1>3. ASSUME NEW i \in 0..(n + m - 1)
      PROVE  node'[<<0, i>>] = list[i + 1] /\ list[i + 1] \in Commitments
  <2>1. /\ i \in Nat /\ i \in 0..MaxLeaves /\ 0 \in 0..TreeDepth
        /\ nextLeaf' - 1 \in Nat /\ i <= nextLeaf' - 1 /\ i + 1 \in 1..(n + m)
    BY <1>0, <1>1
  <2>2. i <= Above(nextLeaf' - 1, 0)
    BY <2>1, AboveFacts
  <2>3. <<0, i>> \in DOMAIN node'
    BY <1>1, <2>1, <2>2
  <2>4. node'[<<0, i>>] = ReferenceNodes(list)[0][i]
    BY <1>1, <2>3
  <2>5. ReferenceNodes(list)[0][i] = LeafAt(list, i)
    BY <2>1, ReferenceNodesFacts
  <2>6. i < Len(list)
    BY <1>0, <1>2, <2>1
  <2>7. LeafAt(list, i) = list[i + 1]
    BY <2>6 DEF LeafAt
  <2>8. list[i + 1] \in Commitments
    BY <1>2, <2>1
  <2>. QED
    BY <2>4, <2>5, <2>7, <2>8
<1>4. LeavesOK'
  <2>1. nextLeaf' - 1 = n + m - 1
    BY <1>0, <1>1
  <2>2. \A i \in 0..(nextLeaf' - 1) : node'[<<0, i>>] \in Commitments
    <3>. HIDE DEF n
    <3>. QED
      BY <1>3, <2>1
  <2>. QED
    BY <1>1, <2>2 DEF LeavesOK
<1>5. Leaves' = [i \in 1..(n + m) |-> list[i]]
  <2>1. \A i \in 1..(n + m) : node'[<<0, i - 1>>] = list[i]
    <3>1. \A i \in 1..(n + m) : i - 1 \in 0..(n + m - 1) /\ (i - 1) + 1 = i
      BY <1>0
    <3>. QED
      BY <1>3, <3>1
  <2>. QED
    BY <1>1, <2>1 DEF Leaves
<1>6. list = [i \in 1..(n + m) |-> list[i]]
  BY <1>2
<1>. QED
  BY <1>4, <1>5, <1>6 DEF list

LEMMA TreeStep ==
  ASSUME TreeOK, [Next]_vars
  PROVE  TreeOK'
<1>1. ASSUME NEW m \in 1..MaxInsertBatch, NEW c \in [1..m -> Commitments], InsertMany(c)
      PROVE  TreeOK'
  <2>0. m \in Nat \ {0}
    BY TreeAssumption
  <2>1. LeavesOK' /\ Leaves' = Leaves \o c
    BY <1>1, <2>0, LeavesGrow
  <2>2. /\ nextLeaf' = nextLeaf + m /\ nextLeaf' \in 0..MaxLeaves
        /\ DOMAIN node' = {pos \in (0..TreeDepth) \X (0..MaxLeaves) :
                             pos[2] <= Above(nextLeaf' - 1, pos[1])}
        /\ \A pos \in DOMAIN node' : node'[pos] = ReferenceNodes(Leaves \o c)[pos[1]][pos[2]]
        /\ merkleRoot' = ReferenceRoot(Leaves \o c)
    BY <1>1, <2>0, InsertEffect
  <2>3. nextLeaf' > 0
    BY <2>0, <2>2, LeavesFacts DEF TreeOK
  <2>4. RowsOK'
    BY <2>2, <2>3 DEF RowsOK
  <2>5. NodesOK' /\ RootIsReferenceRoot'
    BY <2>1, <2>2 DEF NodesOK, RootIsReferenceRoot
  <2>. QED
    BY <2>1, <2>4, <2>5 DEF TreeOK
<1>2. CASE UNCHANGED vars
  BY <1>2 DEF vars, TreeOK, LeavesOK, RowsOK, NodesOK, RootIsReferenceRoot, Leaves
<1>. QED
  BY <1>1, <1>2 DEF Next

LEMMA TreeInitially ==
  ASSUME Init
  PROVE  TreeOK
<1>0. TreeDepth \in Nat /\ MaxLeaves \in Nat
  BY Pow2Facts DEF MaxLeaves
<1>1. /\ DOMAIN node = {} /\ nextLeaf = 0 /\ merkleRoot = EmptyRoots[TreeDepth]
  BY DEF Init
<1>2. LeavesOK
  BY <1>0, <1>1 DEF LeavesOK
<1>3. RowsOK /\ NodesOK
  BY <1>1 DEF RowsOK, NodesOK
<1>4. RootIsReferenceRoot
  <2>1. Len(Leaves) = 0
    BY <1>1, <1>2, LeavesFacts
  <2>2. \A i \in Nat : Above(i, TreeDepth) = 0 => i >= Len(Leaves)
    BY <2>1
  <2>3. ReferenceNodes(Leaves)[TreeDepth][0] = EmptyRoots[TreeDepth]
    BY <1>0, <2>1, <2>2, EmptySubtree
  <2>. QED
    BY <1>1, <2>3 DEF RootIsReferenceRoot, ReferenceRoot
<1>. QED
  BY <1>2, <1>3, <1>4 DEF TreeOK

\* Every node in the store is that of the full tree over the leaves inserted so
\* far, and exactly the nodes above a leaf are stored.
THEOREM TreeInvariant == Spec => []TreeOK
BY TreeInitially, TreeStep, PTL DEF Spec

\* The root that batched, incremental insertion arrives at is that of the full tree,
\* for every depth, every sequence of batch sizes and every alignment of a batch.
THEOREM RootIsCorrect == Spec => []RootIsReferenceRoot
BY TreeInvariant, PTL DEF TreeOK

---------------------------------------------------------------------------
(* The path of every leaf. *)

\* What storage returns for a node of the row is that of the full tree, the empty
\* subtree included: nothing is missing from the store and nothing in it is stale.
LEMMA StoredIsReference ==
  ASSUME TreeOK, NEW level \in 0..TreeDepth, NEW p \in Nat
  PROVE  Stored(level, p) = ReferenceNodes(Leaves)[level][p]
<1>0. LeavesOK /\ nextLeaf \in Nat /\ MaxLeaves \in Nat /\ nextLeaf <= MaxLeaves
  BY LeavesFacts DEF TreeOK, LeavesOK
<1>1. CASE <<level, p>> \in DOMAIN node
  <2>1. node[<<level, p>>] = ReferenceNodes(Leaves)[level][p]
    BY <1>1 DEF TreeOK, NodesOK
  <2>. QED
    BY <1>1, <2>1 DEF Stored
<1>2. CASE ~(<<level, p>> \in DOMAIN node)
  <2>1. ASSUME NEW i \in Nat, Above(i, level) = p
        PROVE  i >= Len(Leaves)
    <3>1. SUFFICES ASSUME i < nextLeaf PROVE FALSE
      BY <1>0, LeavesFacts
    <3>2. nextLeaf > 0 /\ nextLeaf - 1 \in Nat /\ i <= nextLeaf - 1
      BY <1>0, <3>1
    <3>3. p <= Above(nextLeaf - 1, level) /\ p <= i
      BY <2>1, <3>2, AboveFacts
    <3>4. p \in 0..MaxLeaves
      BY <1>0, <3>2, <3>3
    <3>5. <<level, p>> \in DOMAIN node
      BY <3>2, <3>3, <3>4 DEF TreeOK, RowsOK
    <3>. QED
      BY <1>2, <3>5
  <2>2. Len(Leaves) \in Nat
    BY <1>0, LeavesFacts
  <2>. DEFINE list == Leaves
  <2>. HIDE DEF list
  <2>3. ReferenceNodes(list)[level][p] = EmptyRoots[level]
    BY <2>1, <2>2, EmptySubtree DEF list
  <2>. QED
    BY <1>2, <2>3 DEF Stored, list
<1>. QED
  BY <1>1, <1>2

LEMMA NodesOnPathExist ==
  ASSUME NEW i
  PROVE  NodesOnPath(i) =
           [level \in 0..TreeDepth |->
              IF level = 0
                THEN node[<<0, i>>]
                ELSE LET below == NodesOnPath(i)[level - 1]
                         sibling == GetPath(i)[level - 1]
                     IN  IF Above(i, level - 1) % 2 = 0
                           THEN Hash(below, sibling) ELSE Hash(sibling, below)]
<1>. DEFINE Parent(below, level) ==
              IF Above(i, level - 1) % 2 = 0
                THEN Hash(below, GetPath(i)[level - 1]) ELSE Hash(GetPath(i)[level - 1], below)
            leaf == node[<<0, i>>]
<1>. HIDE DEF Parent, leaf
<1>. DEFINE Holds(g, n) == \A level \in 0..n : g[level] = IF level = 0 THEN leaf ELSE Parent(g[level - 1], level)
            T == {n \in 0..TreeDepth : \E g : Holds(g, n)}
<1>0. TreeDepth \in Nat
  BY TreeAssumption
<1>1. 0 \in T
  <2>. DEFINE g == [level \in 0..0 |-> leaf]
  <2>1. Holds(g, 0)
    OBVIOUS
  <2>. HIDE DEF g, Holds
  <2>. QED
    BY <1>0, <2>1
<1>2. ASSUME NEW n \in 0..(TreeDepth - 1), n \in T
      PROVE  n + 1 \in T
  <2>1. PICK g : Holds(g, n)
    BY <1>2
  <2>. DEFINE h == [level \in 0..(n + 1) |-> IF level <= n THEN g[level] ELSE Parent(g[n], n + 1)]
  <2>2. ASSUME NEW level \in 0..(n + 1)
        PROVE  h[level] = IF level = 0 THEN leaf ELSE Parent(h[level - 1], level)
    <3>1. CASE level = 0
      BY <2>1, <3>1
    <3>2. CASE level \in 1..n
      BY <2>1, <3>2
    <3>3. CASE level = n + 1
      BY <3>3
    <3>. QED
      BY <3>1, <3>2, <3>3
  <2>. HIDE DEF h
  <2>3. Holds(h, n + 1)
    BY <2>2
  <2>. HIDE DEF Holds
  <2>. QED
    BY <1>0, <2>3
<1>3. 0..TreeDepth \subseteq T
  <2>. HIDE DEF T
  <2>. QED
    BY <1>0, <1>1, <1>2, RangeInduction
<1>4. PICK g : Holds(g, TreeDepth)
  <2>. HIDE DEF Holds
  <2>. QED
    BY <1>0, <1>3
<1>. DEFINE f == [level \in 0..TreeDepth |-> g[level]]
<1>5. f = [level \in 0..TreeDepth |-> IF level = 0 THEN leaf ELSE Parent(f[level - 1], level)]
  BY <1>0, <1>4
<1>. HIDE DEF f
<1>6. f = [level \in 0..TreeDepth |->
             IF level = 0
               THEN leaf
               ELSE LET below == f[level - 1]
                        sibling == GetPath(i)[level - 1]
                    IN  IF Above(i, level - 1) % 2 = 0
                          THEN Hash(below, sibling) ELSE Hash(sibling, below)]
  BY <1>5 DEF Parent
<1>. QED
  BY <1>6 DEF NodesOnPath, leaf

LEMMA NodesOnPathFacts ==
  ASSUME NEW i
  PROVE  /\ NodesOnPath(i)[0] = node[<<0, i>>]
         /\ \A level \in 0..(TreeDepth - 1) :
              NodesOnPath(i)[level + 1] =
                IF Above(i, level) % 2 = 0
                  THEN Hash(NodesOnPath(i)[level], Stored(level, Above(i, level) + 1))
                  ELSE Hash(Stored(level, Above(i, level) - 1), NodesOnPath(i)[level])
<1>0. TreeDepth \in Nat
  BY TreeAssumption
<1>. DEFINE up == NodesOnPath(i)
            path == GetPath(i)
<1>1. up = [level \in 0..TreeDepth |->
              IF level = 0
                THEN node[<<0, i>>]
                ELSE IF Above(i, level - 1) % 2 = 0
                       THEN Hash(up[level - 1], path[level - 1])
                       ELSE Hash(path[level - 1], up[level - 1])]
  <2>1. up = [level \in 0..TreeDepth |->
                IF level = 0
                  THEN node[<<0, i>>]
                  ELSE LET below == up[level - 1]
                           sibling == path[level - 1]
                       IN  IF Above(i, level - 1) % 2 = 0
                             THEN Hash(below, sibling) ELSE Hash(sibling, below)]
    BY NodesOnPathExist
  <2>. HIDE DEF up, path
  <2>. QED
    BY <2>1
<1>2. \A level \in 0..(TreeDepth - 1) :
        path[level] = Stored(level, IF Above(i, level) % 2 = 0
                                      THEN Above(i, level) + 1 ELSE Above(i, level) - 1)
  BY DEF GetPath
<1>. HIDE DEF up, path
<1>3. up[0] = node[<<0, i>>]
  BY <1>0, <1>1
<1>4. ASSUME NEW level \in 0..(TreeDepth - 1)
      PROVE  up[level + 1] =
               IF Above(i, level) % 2 = 0
                 THEN Hash(up[level], Stored(level, Above(i, level) + 1))
                 ELSE Hash(Stored(level, Above(i, level) - 1), up[level])
  <2>1. level + 1 \in 0..TreeDepth /\ level + 1 # 0 /\ (level + 1) - 1 = level
    BY <1>0
  <2>2. up[level + 1] = IF Above(i, level) % 2 = 0
                          THEN Hash(up[level], path[level]) ELSE Hash(path[level], up[level])
    BY <1>1, <2>1
  <2>. QED
    BY <1>2, <2>2
<1>. QED
  BY <1>3, <1>4 DEF up

\* Folding a leaf with the siblings of its path visits the nodes above it in the
\* full tree, whether the leaf is a left or a right child on the way.
LEMMA PathIsReference ==
  ASSUME TreeOK, NEW i \in 0..(nextLeaf - 1)
  PROVE  Climb(i) = merkleRoot
<1>. DEFINE up == NodesOnPath(i)
            tree == ReferenceNodes(Leaves)
            T == {n \in 0..TreeDepth : up[n] = tree[n][Above(i, n)]}
<1>0. /\ TreeDepth \in Nat /\ LeavesOK /\ nextLeaf \in Nat /\ i \in Nat /\ i < nextLeaf
      /\ i \in 0..MaxLeaves
  <2>1. TreeDepth \in Nat /\ LeavesOK /\ nextLeaf \in Nat /\ MaxLeaves \in Nat
    BY TreeAssumption, LeavesFacts DEF TreeOK
  <2>2. nextLeaf <= MaxLeaves
    BY <2>1 DEF LeavesOK
  <2>. QED
    BY <2>1, <2>2
<1>1. /\ up[0] = node[<<0, i>>]
      /\ \A n \in 0..(TreeDepth - 1) :
           up[n + 1] = IF Above(i, n) % 2 = 0
                         THEN Hash(up[n], Stored(n, Above(i, n) + 1))
                         ELSE Hash(Stored(n, Above(i, n) - 1), up[n])
  <2>. HIDE DEF up
  <2>. QED
    BY NodesOnPathFacts DEF up
<1>2. \A n \in 0..TreeDepth, p \in Nat : Stored(n, p) = tree[n][p]
  BY StoredIsReference
<1>3. 0 \in T
  <2>1. tree[0][i] = LeafAt(Leaves, i)
    BY <1>0, ReferenceNodesFacts
  <2>2. LeafAt(Leaves, i) = node[<<0, i>>]
    BY <1>0, LeavesFacts
  <2>3. Above(i, 0) = i
    BY <1>0, AboveFacts
  <2>. HIDE DEF up, tree
  <2>. QED
    BY <1>0, <1>1, <2>1, <2>2, <2>3
<1>4. ASSUME NEW n \in 0..(TreeDepth - 1), n \in T
      PROVE  n + 1 \in T
  <2>1. n + 1 \in 1..TreeDepth /\ (n + 1) - 1 = n /\ n \in 0..TreeDepth
    BY <1>0
  <2>. DEFINE a == Above(i, n)
              b == Above(i, n + 1)
  <2>2. a \in Nat /\ b = a \div 2
    <3>1. Above(i, n + 1) = Above(i, (n + 1) - 1) \div 2
      BY <1>0, <2>1, AboveFacts
    <3>. QED
      BY <1>0, <2>1, <3>1, AboveFacts
  <2>3. tree[n + 1][b] = Hash(tree[n][2 * b], tree[n][2 * b + 1])
    <3>1. b \in Nat
      BY <2>2
    <3>. HIDE DEF b
    <3>2. tree[n + 1][b] = Hash(tree[(n + 1) - 1][2 * b], tree[(n + 1) - 1][2 * b + 1])
      BY <2>1, <3>1, ReferenceNodesFacts
    <3>. HIDE DEF tree
    <3>. QED
      BY <2>1, <3>2
  <2>4. up[n] = tree[n][a]
    BY <1>4
  <2>5. up[n + 1] = IF a % 2 = 0 THEN Hash(up[n], Stored(n, a + 1))
                                 ELSE Hash(Stored(n, a - 1), up[n])
    BY <1>1
  <2>. HIDE DEF a, b, up, tree
  <2>6. CASE a % 2 = 0
    <3>1. 2 * b = a /\ 2 * b + 1 = a + 1 /\ a + 1 \in Nat
      BY <2>2, <2>6
    <3>. QED
      BY <1>2, <2>1, <2>3, <2>4, <2>5, <2>6, <3>1 DEF b
  <2>7. CASE ~(a % 2 = 0)
    <3>1. 2 * b = a - 1 /\ 2 * b + 1 = a /\ a - 1 \in Nat
      BY <2>2, <2>7
    <3>. QED
      BY <1>2, <2>1, <2>3, <2>4, <2>5, <2>7, <3>1 DEF b
  <2>. QED
    BY <2>6, <2>7
<1>5. TreeDepth \in T
  <2>1. 0..TreeDepth \subseteq T
    <3>. HIDE DEF T
    <3>. QED
      BY <1>0, <1>3, <1>4, RangeInduction
  <2>. HIDE DEF T
  <2>. QED
    BY <1>0, <2>1
<1>6. Above(i, TreeDepth) = 0
  BY <1>0, AboveFacts
<1>. QED
  BY <1>5, <1>6 DEF Climb, TreeOK, RootIsReferenceRoot, ReferenceRoot

\* The path merkle_path returns for any leaf leads to the current root, for every
\* depth and whatever batches were inserted after it.
THEOREM EveryPathLeadsToTheRoot == Spec => []EveryPathVerifies
<1>1. TreeOK => EveryPathVerifies
  BY PathIsReference DEF EveryPathVerifies
<1>. QED
  BY <1>1, TreeInvariant, PTL

---------------------------------------------------------------------------
(* The log the tree implements. *)

\* the number of leaves whose tree has a given root
PrefixOf(root, list) == CHOOSE n \in 0..Len(list) : root = ReferenceRoot(SubSeq(list, 1, n))

\* every remembered root is that of a prefix of the leaves, and the window is bounded
HistoryOK ==
  /\ rootHistory \in Seq({ReferenceRoot(SubSeq(Leaves, 1, n)) : n \in 0..nextLeaf})
  /\ Len(rootHistory) <= RootHistorySize

\* No two prefixes of the leaves share a root: a commitment is never the empty leaf,
\* and a root commits to every leaf, the empty ones included.
LEMMA PrefixRootsDiffer ==
  ASSUME NEW list \in Seq(Commitments), Len(list) <= MaxLeaves,
         NEW n \in 0..Len(list), NEW k \in 0..Len(list), n < k
  PROVE  ReferenceRoot(SubSeq(list, 1, n)) # ReferenceRoot(SubSeq(list, 1, k))
<1>. DEFINE a == SubSeq(list, 1, n)
            b == SubSeq(list, 1, k)
<1>0. /\ TreeDepth \in 0..TreeDepth /\ MaxLeaves \in Nat /\ EmptyLeaf \notin Commitments
      /\ n \in Nat /\ n \in 0..MaxLeaves
  BY TreeAssumption, Pow2Facts DEF MaxLeaves
<1>1. Len(a) = n
  OBVIOUS
<1>2. Len(b) = k /\ b[n + 1] = list[n + 1] /\ list[n + 1] \in Commitments
  OBVIOUS
<1>. HIDE DEF a, b
<1>3. LeafAt(a, n) = EmptyLeaf /\ LeafAt(b, n) \in Commitments
  BY <1>0, <1>1, <1>2 DEF LeafAt
<1>4. Above(n, TreeDepth) = 0
  BY <1>0, AboveFacts
<1>5. LeafAt(a, n) # LeafAt(b, n)
  BY <1>0, <1>3
<1>6. ReferenceNodes(a)[TreeDepth][0] # ReferenceNodes(b)[TreeDepth][0]
  <2>1. ReferenceNodes(a)[TreeDepth][0] = ReferenceNodes(b)[TreeDepth][0]
          <=> \A i \in Nat : Above(i, TreeDepth) = 0 => LeafAt(a, i) = LeafAt(b, i)
    <3>1. \A level \in 0..TreeDepth, p \in Nat :
            ReferenceNodes(a)[level][p] = ReferenceNodes(b)[level][p]
              <=> \A i \in Nat : Above(i, level) = p => LeafAt(a, i) = LeafAt(b, i)
      BY TreesAgree
    <3>2. TreeDepth \in 0..TreeDepth /\ 0 \in Nat
      BY <1>0
    <3>. QED
      BY <3>1, <3>2
  <2>. QED
    BY <1>0, <1>4, <1>5, <2>1
<1>. QED
  BY <1>6 DEF ReferenceRoot, a, b

LEMMA PrefixIsFound ==
  ASSUME NEW list \in Seq(Commitments), Len(list) <= MaxLeaves, NEW n \in 0..Len(list)
  PROVE  PrefixOf(ReferenceRoot(SubSeq(list, 1, n)), list) = n
<1>. DEFINE Root(k) == ReferenceRoot(SubSeq(list, 1, k))
            k == PrefixOf(Root(n), list)
<1>1. k \in 0..Len(list) /\ Root(n) = Root(k)
  BY DEF PrefixOf
<1>2. \A i, j \in 0..Len(list) : i < j => Root(i) # Root(j)
  BY PrefixRootsDiffer
<1>. HIDE DEF k, Root
<1>3. k = n
  BY <1>1, <1>2
<1>. QED
  BY <1>3 DEF k, Root

\* The roots remembered before a batch, and their places, are not disturbed by it.
LEMMA PrefixesStay ==
  ASSUME NEW list \in Seq(Commitments), NEW more \in Seq(Commitments)
  PROVE  \A n \in 0..Len(list) : SubSeq(list \o more, 1, n) = SubSeq(list, 1, n)
OBVIOUS

\* What a batch does to the history, the roots written as their prefixes.
LEMMA HistoryGrows ==
  ASSUME TreeOK, HistoryOK, NEW m \in Nat \ {0}, NEW c \in [1..m -> Commitments], InsertMany(c)
  PROVE  /\ HistoryOK'
         /\ Leaves' = Leaves \o c /\ Len(Leaves) = nextLeaf /\ Len(Leaves') = nextLeaf + m
         /\ LET pushed == Append([i \in DOMAIN rootHistory |-> PrefixOf(rootHistory[i], Leaves)],
                                 nextLeaf + m)
            IN  [i \in DOMAIN rootHistory' |-> PrefixOf(rootHistory'[i], Leaves')]
                  = IF Len(pushed) > RootHistorySize THEN Tail(pushed) ELSE pushed
<1>. DEFINE list == Leaves
            more == list \o c
            n == nextLeaf
            old == rootHistory
            root == ReferenceRoot(more)
            RootsUpTo(l, k) == {ReferenceRoot(SubSeq(l, 1, i)) : i \in 0..k}
            next == Append(old, root)
            place == [i \in DOMAIN old |-> PrefixOf(old[i], list)]
            places == Append(place, n + m)
<1>0. /\ RootHistorySize \in Nat \ {0} /\ MaxLeaves \in Nat /\ n \in Nat
      /\ list \in Seq(Commitments) /\ Len(list) = n /\ n <= MaxLeaves
      /\ c \in Seq(Commitments) /\ Len(c) = m
      /\ more \in Seq(Commitments) /\ Len(more) = n + m
  <2>1. LeavesOK /\ nextLeaf <= MaxLeaves
    BY DEF TreeOK, LeavesOK
  <2>. QED
    BY <2>1, TreeAssumption, LeavesFacts, Appended
<1>1. /\ nextLeaf' = n + m /\ n + m <= MaxLeaves /\ merkleRoot' = root /\ Leaves' = more
  <2>1. nextLeaf' = nextLeaf + m /\ nextLeaf' \in 0..MaxLeaves /\ merkleRoot' = ReferenceRoot(Leaves \o c)
    BY InsertEffect
  <2>2. Leaves' = Leaves \o c
    BY LeavesGrow
  <2>. QED
    BY <1>0, <2>1, <2>2
<1>2. rootHistory' = IF Len(next) > RootHistorySize THEN Tail(next) ELSE next
  <2>1. merkleRoot' = BatchNodes(c)[TreeDepth][0] /\ PushRoot(BatchNodes(c)[TreeDepth][0])
    BY DEF InsertMany
  <2>2. PushRoot(root)
    BY <1>1, <2>1
  <2>. HIDE DEF root
  <2>. QED
    BY <2>2 DEF PushRoot
<1>3. old \in Seq(RootsUpTo(list, n)) /\ Len(old) <= RootHistorySize
  BY DEF HistoryOK
<1>4. \A i \in 0..n : SubSeq(more, 1, i) = SubSeq(list, 1, i)
  BY <1>0, PrefixesStay
<1>5. SubSeq(more, 1, n + m) = more
  <2>. HIDE DEF more
  <2>. QED
    BY <1>0
<1>6. RootsUpTo(list, n) \subseteq RootsUpTo(more, n + m) /\ root \in RootsUpTo(more, n + m)
  <2>1. \A i \in 0..n : i \in 0..(n + m)
    BY <1>0
  <2>2. n + m \in 0..(n + m)
    BY <1>0
  <2>. HIDE DEF more, list, n
  <2>. QED
    BY <1>4, <1>5, <2>1, <2>2
<1>7. \A r \in RootsUpTo(list, n) : PrefixOf(r, list) \in 0..n /\ PrefixOf(r, more) = PrefixOf(r, list)
  <2>1. ASSUME NEW i \in 0..n
        PROVE  /\ PrefixOf(ReferenceRoot(SubSeq(list, 1, i)), list) = i
               /\ PrefixOf(ReferenceRoot(SubSeq(list, 1, i)), more) = i
    <3>1. i \in 0..Len(list) /\ i \in 0..Len(more)
      BY <1>0
    <3>2. SubSeq(more, 1, i) = SubSeq(list, 1, i)
      BY <1>4
    <3>. HIDE DEF list, more, n
    <3>3. PrefixOf(ReferenceRoot(SubSeq(list, 1, i)), list) = i
      BY <1>0, <3>1, PrefixIsFound
    <3>4. PrefixOf(ReferenceRoot(SubSeq(more, 1, i)), more) = i
      BY <1>0, <1>1, <3>1, PrefixIsFound
    <3>. QED
      BY <3>2, <3>3, <3>4
  <2>. HIDE DEF list, more, n
  <2>. QED
    BY <2>1
<1>8. PrefixOf(root, more) = n + m
  <2>1. n + m \in 0..Len(more)
    BY <1>0
  <2>. HIDE DEF more, n
  <2>2. PrefixOf(ReferenceRoot(SubSeq(more, 1, n + m)), more) = n + m
    BY <1>0, <1>1, <2>1, PrefixIsFound
  <2>. QED
    BY <1>5, <2>2
<1>. HIDE DEF list, more, n, old, root, RootsUpTo
<1>9. /\ next \in Seq(RootsUpTo(more, n + m)) /\ Len(next) = Len(old) + 1
      /\ \A i \in 1..Len(old) : next[i] = old[i] /\ old[i] \in RootsUpTo(list, n)
      /\ next[Len(old) + 1] = root
  BY <1>3, <1>6
<1>10. place \in Seq(Nat) /\ Len(place) = Len(old)
       /\ \A i \in 1..Len(old) : place[i] = PrefixOf(old[i], list)
  <2>1. DOMAIN old = 1..Len(old) /\ Len(old) \in Nat
    BY <1>3
  <2>2. \A i \in 1..Len(old) : PrefixOf(old[i], list) \in Nat
    BY <1>0, <1>7, <1>9
  <2>3. place \in [1..Len(old) -> Nat]
    BY <2>1, <2>2
  <2>4. \A i \in 1..Len(old) : place[i] = PrefixOf(old[i], list)
    BY <2>1
  <2>. HIDE DEF place
  <2>. QED
    BY <2>1, <2>3, <2>4
<1>. HIDE DEF place, next
<1>11. places \in Seq(Nat) /\ Len(places) = Len(old) + 1
       /\ \A i \in 1..(Len(old) + 1) : places[i] = PrefixOf(next[i], more)
  <2>1. /\ places \in Seq(Nat) /\ Len(places) = Len(place) + 1
        /\ \A i \in 1..Len(place) : places[i] = place[i]
        /\ places[Len(place) + 1] = n + m
    BY <1>0, <1>10
  <2>2. ASSUME NEW i \in 1..Len(old) PROVE places[i] = PrefixOf(next[i], more)
    BY <1>7, <1>9, <1>10, <2>1
  <2>3. places[Len(old) + 1] = PrefixOf(next[Len(old) + 1], more)
    <3>1. places[Len(old) + 1] = n + m
      BY <1>10, <2>1
    <3>2. next[Len(old) + 1] = root
      BY <1>9
    <3>. QED
      BY <1>8, <3>1, <3>2
  <2>4. Len(old) \in Nat
    BY <1>3
  <2>. HIDE DEF places
  <2>. QED
    BY <1>10, <2>1, <2>2, <2>3, <2>4
<1>. HIDE DEF places
<1>12. /\ rootHistory' \in Seq(RootsUpTo(more, n + m)) /\ Len(rootHistory') <= RootHistorySize
       /\ [i \in DOMAIN rootHistory' |-> PrefixOf(rootHistory'[i], more)]
            = IF Len(places) > RootHistorySize THEN Tail(places) ELSE places
  <2>0. Len(old) \in Nat
    BY <1>3
  <2>1. CASE Len(old) + 1 > RootHistorySize
    <3>1. /\ rootHistory' = Tail(next) /\ rootHistory' \in Seq(RootsUpTo(more, n + m))
          /\ Len(rootHistory') = Len(old) /\ DOMAIN rootHistory' = 1..Len(old)
          /\ \A i \in 1..Len(old) : rootHistory'[i] = next[i + 1]
      BY <1>2, <1>9, <2>0, <2>1
    <3>2. /\ Tail(places) \in Seq(Nat) /\ Len(Tail(places)) = Len(old)
          /\ \A i \in 1..Len(old) : Tail(places)[i] = places[i + 1]
      BY <1>11, <2>0
    <3>3. Tail(places) = [i \in 1..Len(old) |-> Tail(places)[i]]
      <4>. DEFINE t == Tail(places)
      <4>1. t \in Seq(Nat) /\ Len(t) = Len(old)
        BY <3>2
      <4>. HIDE DEF t
      <4>2. t = [i \in 1..Len(old) |-> t[i]]
        BY <4>1
      <4>. QED
        BY <4>2 DEF t
    <3>4. \A i \in 1..Len(old) : i + 1 \in 1..(Len(old) + 1)
      BY <2>0
    <3>5. \A i \in 1..Len(old) : Tail(places)[i] = PrefixOf(rootHistory'[i], more)
      BY <1>11, <3>1, <3>2, <3>4
    <3>6. [i \in DOMAIN rootHistory' |-> PrefixOf(rootHistory'[i], more)] = Tail(places)
      BY <3>1, <3>3, <3>5
    <3>. QED
      BY <1>3, <1>11, <2>1, <3>1, <3>6
  <2>2. CASE ~(Len(old) + 1 > RootHistorySize)
    <3>1. /\ rootHistory' = next /\ DOMAIN next = 1..(Len(old) + 1)
      BY <1>2, <1>9, <2>0, <2>2
    <3>2. places = [i \in 1..(Len(old) + 1) |-> places[i]]
      BY <1>11
    <3>3. [i \in DOMAIN rootHistory' |-> PrefixOf(rootHistory'[i], more)] = places
      BY <1>11, <3>1, <3>2
    <3>4. Len(old) + 1 <= RootHistorySize
      BY <1>0, <2>0, <2>2
    <3>. QED
      BY <1>9, <1>11, <2>2, <3>1, <3>3, <3>4
  <2>. QED
    BY <2>1, <2>2
<1>13. HistoryOK'
  BY <1>1, <1>12 DEF HistoryOK, RootsUpTo
<1>. QED
  BY <1>0, <1>1, <1>12, <1>13 DEF places, place, old, list, more, n

LEMMA HistoryStep ==
  ASSUME TreeOK, HistoryOK, [Next]_vars
  PROVE  HistoryOK'
<1>1. ASSUME NEW m \in 1..MaxInsertBatch, NEW c \in [1..m -> Commitments], InsertMany(c)
      PROVE  HistoryOK'
  <2>1. m \in Nat \ {0}
    BY TreeAssumption
  <2>. QED
    BY <1>1, <2>1, HistoryGrows
<1>2. CASE UNCHANGED vars
  BY <1>2 DEF vars, HistoryOK, Leaves
<1>. QED
  BY <1>1, <1>2 DEF Next

LEMMA HistoryInitially ==
  ASSUME Init
  PROVE  HistoryOK
BY TreeAssumption DEF Init, HistoryOK

\* The history of the log, read off the remembered roots.
LEMMA LogHistory ==
  ASSUME Len(Leaves) = nextLeaf
  PROVE  [i \in DOMAIN rootHistory |->
            CHOOSE n \in 0..nextLeaf : rootHistory[i] = ReferenceRoot(SubSeq(Leaves, 1, n))]
           = [i \in DOMAIN rootHistory |-> PrefixOf(rootHistory[i], Leaves)]
BY DEF PrefixOf

\* A batch of leaves is one step of the log, whatever the depth of the tree.
LEMMA LogStep ==
  ASSUME TreeOK, HistoryOK, TreeOK', [Next]_vars
  PROVE  [Log!Grow]_(Log!logVars)
<1>1. ASSUME NEW m \in 1..MaxInsertBatch, NEW c \in [1..m -> Commitments], InsertMany(c)
      PROVE  Log!Grow
  <2>. DEFINE hist == [i \in DOMAIN rootHistory |-> PrefixOf(rootHistory[i], Leaves)]
              pushed == Append(hist, nextLeaf + m)
  <2>0. /\ m \in Nat \ {0} /\ nextLeaf \in Nat /\ MaxLeaves \in Nat
        /\ Leaves \in Seq(Commitments) /\ c \in Seq(Commitments) /\ Len(c) = m
        /\ m \in 1..MaxInsertBatch
    BY TreeAssumption, LeavesFacts, Appended DEF TreeOK
  <2>1. /\ Leaves' = Leaves \o c /\ Len(Leaves) = nextLeaf /\ Len(Leaves') = nextLeaf + m
        /\ hist' = IF Len(pushed) > RootHistorySize THEN Tail(pushed) ELSE pushed
    BY <1>1, <2>0, HistoryGrows
  <2>2. nextLeaf' = nextLeaf + m /\ nextLeaf + m <= MaxLeaves
    BY <1>1, <2>0 DEF InsertMany, HasCapacity
  <2>3. SubSeq(Leaves', Len(Leaves) + 1, Len(Leaves')) = c
    <3>. DEFINE list == Leaves
    <3>1. Len(list) = nextLeaf /\ list \in Seq(Commitments)
      BY <2>0, <2>1
    <3>. HIDE DEF list
    <3>2. SubSeq(list \o c, Len(list) + 1, Len(list) + m) = c
      BY <2>0, <3>1
    <3>. QED
      BY <2>1, <3>1, <3>2 DEF list
  <2>4. [i \in DOMAIN rootHistory |->
            CHOOSE n \in 0..nextLeaf : rootHistory[i] = ReferenceRoot(SubSeq(Leaves, 1, n))] = hist
    BY <2>1, LogHistory
  <2>5. [i \in DOMAIN rootHistory |->
            CHOOSE n \in 0..nextLeaf : rootHistory[i] = ReferenceRoot(SubSeq(Leaves, 1, n))]' = hist'
    <3>1. Len(Leaves') = nextLeaf'
      BY <2>1, <2>2
    <3>. QED
      BY <3>1 DEF PrefixOf
  <2>6. Len(Leaves') > Len(Leaves)
    BY <2>0, <2>1
  <2>7. Log!InsertMany(SubSeq(Leaves', Len(Leaves) + 1, Len(Leaves')))
    <3>1. Log!InsertMany(c)
      <4>. HIDE DEF hist
      <4>1. Log!HasCapacity(Len(c))
        BY <2>0, <2>1, <2>2 DEF Log!HasCapacity
      <4>2. Log!PushRoot(Len(Leaves) + Len(c))
        BY <2>0, <2>1, <2>4, <2>5 DEF Log!PushRoot
      <4>. QED
        BY <2>0, <2>1, <4>1, <4>2 DEF Log!InsertMany
    <3>. QED
      BY <2>3, <3>1
  <2>. QED
    BY <2>6, <2>7 DEF Log!Grow
<1>2. CASE UNCHANGED vars
  BY <1>2 DEF vars, Leaves, Log!logVars
<1>. QED
  BY <1>1, <1>2 DEF Next

LEMMA LogInitially ==
  ASSUME Init
  PROVE  Log!LogInit
<1>1. nextLeaf = 0 /\ rootHistory = << >>
  BY DEF Init
<1>2. Leaves = << >>
  BY <1>1 DEF Leaves
<1>3. DOMAIN rootHistory = {}
  BY <1>1
<1>. QED
  BY <1>2, <1>3 DEF Log!LogInit

\* The node store and its window of roots implement the append-only log the token
\* contract is written against: one root per call, the oldest one dropped when the
\* window is full, and no root that is not that of a prefix of the leaves.
THEOREM TreeImplementsLog == Spec => ImplementsLog
<1>1. Init => TreeOK /\ HistoryOK
  BY TreeInitially, HistoryInitially
<1>2. TreeOK /\ HistoryOK /\ [Next]_vars => TreeOK' /\ HistoryOK'
  BY TreeStep, HistoryStep
<1>3. TreeOK /\ HistoryOK /\ TreeOK' /\ [Next]_vars => [Log!Grow]_(Log!logVars)
  BY LogStep
<1>4. Init => Log!LogInit
  BY LogInitially
<1>. QED
  BY <1>1, <1>2, <1>3, <1>4, PTL DEF Spec, ImplementsLog, Log!LogSpec

\* Nodes, leaves and the window of roots are of their types: the window is never
\* longer than what is kept.
THEOREM TreeTypes == Spec => []TypeOK
<1>1. TreeOK /\ HistoryOK => TypeOK
  <2>. SUFFICES ASSUME TreeOK, HistoryOK PROVE TypeOK
    OBVIOUS
  <2>1. LeavesOK /\ DOMAIN node \subseteq (0..TreeDepth) \X (0..MaxLeaves)
    BY DEF TreeOK, RowsOK
  <2>2. Len(rootHistory) \in 0..RootHistorySize
    BY TreeAssumption DEF HistoryOK
  <2>. QED
    BY <2>1, <2>2 DEF LeavesOK, TypeOK
<1>2. Init => TreeOK /\ HistoryOK
  BY TreeInitially, HistoryInitially
<1>3. TreeOK /\ HistoryOK /\ [Next]_vars => TreeOK' /\ HistoryOK'
  BY TreeStep, HistoryStep
<1>. QED
  BY <1>1, <1>2, <1>3, PTL DEF Spec
=============================================================================
