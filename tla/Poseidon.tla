-------------------------------- MODULE Poseidon --------------------------------
(***************************************************************************)
(* contracts/token/src/poseidon.rs and contracts/swap/src/poseidon.rs:     *)
(* field elements as limbs, and the optimised Poseidon permutation of      *)
(* three of them, one action per kind of round.  A byte string of the code *)
(* is its limbs here, least significant first.  The contracts hash with    *)
(* the host's permutation; the one in limbs is what they are tested with.  *)
(***************************************************************************)
EXTENDS Numerals, Sequences, SequencesExt

CONSTANTS
  Base,      \* of a limb: 2^64 in the code
  Limbs,     \* of a field element: 4
  Modulus,   \* r
  HalfF,     \* NRF2, half of the full rounds: 4
  Partial,   \* NRP, the partial rounds: 57
  C, M, P, S,       \* POSEIDON_C, POSEIDON_M, POSEIDON_P, POSEIDON_S, as integers
  RoundConstants,   \* of the textbook permutation that C, P and S were derived from
  Basis, Offset,    \* the derivation: what the elements stand for in the partial rounds
  Inputs            \* the values that are hashed, as integers

T == 3
At == 0..(Limbs - 1)
Bytes == [At -> 0..(Base - 1)]
LimbsOf(n) == DigitsOf(n, Base, Limbs)
Span == Power(Base, Limbs)
R == LimbsOf(Modulus)   \* and its limbs
Zero == LimbsOf(0)
Two256ModR == LimbsOf(Span % Modulus)   \* TWO256_MOD_R

ASSUME PoseidonAssumption ==
  /\ Base \in Nat \ {0, 1} /\ Limbs \in Nat \ {0}
  /\ Modulus \in 2..(Span \div 2)
  /\ HalfF \in Nat \ {0} /\ Partial \in Nat
  /\ Inputs \subseteq 0..(Span - 1)

-----------------------------------------------------------------------------
(* The constants. The element at a position of the partial rounds is an      *)
(* offset plus a multiple of a basis; the first element is itself, so that   *)
(* its fifth power is too.                                                   *)

Field == 0..(Modulus - 1)
Rounds == 2 * HalfF + Partial
Matrices == [1..T -> [1..T -> Field]]

\* a row of three, times a matrix
Times(v, m) == [i \in 1..T |-> v[1] * m[1][i] + v[2] * m[2][i] + v[3] * m[3][i]]
Plus(v, w) == [i \in 1..T |-> v[i] + w[i]]
Congruent(v, w) == \A i \in 1..T : v[i] % Modulus = w[i] % Modulus

ConstantsAt(first) == [i \in 1..T |-> C[first + i]]
\* of partial round r, from 1 on
SparseMatrix(r) ==
  LET s(i) == S[(2 * T - 1) * (r - 1) + i]
  IN  <<<<s(1), s(4), s(5)>>, <<s(2), 1, 0>>, <<s(3), 0, 1>>>>
SparseConstant(r) == C[(HalfF + 1) * T + r]

ASSUME PoseidonConstants ==
  /\ C \in Seq(Field) /\ Len(C) = (HalfF + 1) * T + Partial + (HalfF - 1) * T
  /\ S \in Seq(Field) /\ Len(S) = (2 * T - 1) * Partial
  /\ M \in Matrices /\ P \in Matrices
  /\ RoundConstants \in [1..Rounds -> [1..T -> Field]]
  /\ Basis \in [1..(Partial + 1) -> Matrices] /\ Offset \in [1..(Partial + 1) -> [1..T -> Field]]

\* The constants of a full round are added before the matrix of the round before.
MovedThroughMatrices ==
  /\ Congruent(ConstantsAt(0), RoundConstants[1])
  /\ \A k \in 1..(HalfF - 1) : Congruent(Times(ConstantsAt(k * T), M), RoundConstants[k + 1])
  /\ \A k \in 1..(HalfF - 1) :
       Congruent(Times(ConstantsAt((HalfF + 1) * T + Partial + (k - 1) * T), M),
                 RoundConstants[HalfF + Partial + k + 1])

FirstIsItself ==
  \A r \in 1..(Partial + 1) :
    /\ Basis[r][1] = <<1, 0, 0>> /\ Basis[r][2][1] = 0 /\ Basis[r][3][1] = 0
    /\ Offset[r][1] = 0

\* Into the basis, from one to the next, and out of it.
ChangesOfBasis ==
  /\ \A j \in 1..T : Congruent(Times(P[j], Basis[1]), M[j])
  /\ Congruent(Plus(Times(Times(ConstantsAt(HalfF * T), P), Basis[1]), Offset[1]),
               RoundConstants[HalfF + 1])
  /\ \A r \in 1..Partial :
       /\ \A j \in 1..T :
            Congruent(Times(SparseMatrix(r)[j], Basis[r + 1]), Times(Basis[r][j], M))
       /\ Congruent(Plus(Times(Times(<<SparseConstant(r), 0, 0>>, SparseMatrix(r)), Basis[r + 1]),
                         Offset[r + 1]),
                    Plus(Times(Offset[r], M), RoundConstants[HalfF + r + 1]))
  /\ Basis[Partial + 1] = <<<<1, 0, 0>>, <<0, 1, 0>>, <<0, 0, 1>>>>
  /\ Offset[Partial + 1] = <<0, 0, 0>>

\* how poseidon_constants_opt.json is derived from Poseidon's constants
ASSUME PoseidonDerivation == MovedThroughMatrices /\ FirstIsItself /\ ChangesOfBasis

VARIABLES
  input,   \* the two byte strings being hashed, <<>> before
  state,   \* state
  round    \* rounds done, after the first addition of constants

hashVars == <<input, state, round>>

-----------------------------------------------------------------------------
(* Fr.  A sum or a product of limbs has twice a limb's width.               *)

ValueOf(x) == LowValue(x, Base, Limbs)
Element(n) == LimbsOf(n)
Word(x) == x % Base
DoubleWord(x) == x % (Base * Base)

GeqR(x) ==
  \/ x = R
  \/ \E i \in At : x[i] > R[i] /\ \A j \in (i + 1)..(Limbs - 1) : x[j] = R[j]

\* Deviation: a limb that is equal does not hand the borrow on.
SubREarly(x) ==
  LET diff[i \in At] ==
        x[i] - R[i] - (IF i > 0 /\ x[i - 1] < R[i - 1] THEN 1 ELSE 0)
  IN  [i \in At |-> diff[i] % Base]

SubR(x) == Minus(x, R, Base, Limbs)

Reduced[x \in Bytes] == IF GeqR(x) THEN Reduced[SubR(x)] ELSE x

\* Deviation: r is subtracted once.
FromBytesOnce(bytes) == IF GeqR(bytes) THEN SubR(bytes) ELSE bytes

FromBytes(bytes) == Reduced[bytes]

\* sums in 128 bits, the carry of each in 64 bits added to the next
WithCarries(terms) ==
  LET sum[i \in DOMAIN terms] ==
        DoubleWord(terms[i] + (IF i > 0 THEN Word(sum[i - 1] \div Base) ELSE 0))
  IN  sum

\* the sum of two arrays of limbs, the last carry left out
AddLimbs(x, y) ==
  LET sum == WithCarries([i \in DOMAIN x |-> x[i] + y[i]])
  IN  [i \in DOMAIN x |-> Word(sum[i])]

Add(x, y) ==
  LET sum == AddLimbs(x, y)
  IN  IF GeqR(sum) THEN SubR(sum) ELSE sum

\* one limb of a times all of b, added to what the product has so far
MulRow(product, a, i, b) ==
  LET sum == WithCarries([j \in At |-> a[i] * b[j] + product[i + j]])
  IN  [k \in DOMAIN product |->
         IF k - i \in At THEN Word(sum[k - i])
         ELSE IF k = i + Limbs THEN Word(sum[Limbs - 1] \div Base)
         ELSE product[k]]

Mul512(a, b) ==
  LET rows[n \in 0..Limbs] ==
        IF n = 0 THEN [k \in 0..(2 * Limbs - 1) |-> 0] ELSE MulRow(rows[n - 1], a, n - 1, b)
  IN  rows[Limbs]

\* n = low + 2^256 * high is congruent to low + TWO256_MOD_R * high
DoubleBytes == [0..(2 * Limbs - 1) -> 0..(Base - 1)]
Low(n) == [i \in At |-> n[i]]
High(n) == [i \in At |-> n[i + Limbs]]
Folded(n) ==
  AddLimbs([k \in DOMAIN n |-> IF k \in At THEN n[k] ELSE 0], Mul512(High(n), Two256ModR))
Reduce512[n \in DoubleBytes] ==
  IF High(n) = Zero THEN Reduced[Low(n)] ELSE Reduce512[Folded(n)]

Mul(a, b) == Reduce512[Mul512(a, b)]

Pow5(x) == LET x2 == Mul(x, x) IN Mul(Mul(x2, x2), x)

-----------------------------------------------------------------------------
(* The permutation.                                                         *)

Constant(i) == Element(C[i + 1])
Sparse(i) == Element(S[i + 1])

Pow5All(s) == [i \in 1..T |-> Pow5(s[i])]
AddConstants(s, first) == [i \in 1..T |-> Add(s[i], Constant(first + i - 1))]

MdsMul(s, m) ==
  LET term(j, i) == Mul(Element(m[j][i]), s[j])
  IN  [i \in 1..T |-> Add(Add(Add(Zero, term(1, i)), term(2, i)), term(3, i))]

HashInit == input = <<>> /\ state = <<>> /\ round = 0

\* poseidon2_bytes: both inputs reduced, the capacity 0, the first constants added
Absorb(a, b) ==
  /\ input = <<>>
  /\ input' = <<a, b>>
  /\ state' = AddConstants(<<Zero, FromBytes(a), FromBytes(b)>>, 0)
  /\ round' = 0

FullRound(s, first, m) == MdsMul(AddConstants(Pow5All(s), first), m)

Step(next) == input # <<>> /\ state' = next /\ round' = round + 1 /\ UNCHANGED input

FirstFullRound ==
  /\ round < HalfF - 1
  /\ Step(FullRound(state, (round + 1) * T, M))

Transition ==
  /\ round = HalfF - 1
  /\ Step(FullRound(state, HalfF * T, P))

PartialRound ==
  LET r == round - HalfF
      s0 == Add(Pow5(state[1]), Constant((HalfF + 1) * T + r))
      base == (T * 2 - 1) * r
      mixed == Add(Add(Mul(s0, Sparse(base)), Mul(state[2], Sparse(base + 1))),
                   Mul(state[3], Sparse(base + 2)))
  IN
  /\ r \in 0..(Partial - 1)
  /\ Step(<<mixed, Add(state[2], Mul(s0, Sparse(base + 3))),
                   Add(state[3], Mul(s0, Sparse(base + 4)))>>)

\* Deviation: the constants of the partial rounds are not skipped.
LastConstantsEarly(r) == (HalfF + 1) * T + r * T
\* where the constants of the last full rounds begin
LastConstants(r) == (HalfF + 1) * T + Partial + r * T

LastFullRound ==
  LET r == round - HalfF - Partial
  IN
  /\ r \in 0..(HalfF - 2)
  /\ Step(FullRound(state, LastConstants(r), M))

FinalRound ==
  /\ round = Rounds - 1
  /\ Step(MdsMul(Pow5All(state), M))

Forget ==
  /\ round = Rounds
  /\ input' = <<>> /\ state' = <<>> /\ round' = 0

HashNext ==
  \/ \E a, b \in Inputs : Absorb(LimbsOf(a), LimbsOf(b))
  \/ FirstFullRound \/ Transition \/ PartialRound \/ LastFullRound \/ FinalRound
  \/ Forget

HashSpec == HashInit /\ [][HashNext]_hashVars

Digest == state[1]

-----------------------------------------------------------------------------
(* The textbook permutation over the integers modulo r, which the host      *)
(* implements and refuses to apply to an input that is not reduced.         *)

Fifth(n) == n * n * n * n * n
Powered(x, t) ==
  [i \in 1..T |-> IF i = 1 \/ t <= HalfF \/ t > HalfF + Partial THEN Fifth(x[i]) % Modulus ELSE x[i]]
TextbookRound(v, t) ==
  LET x == [i \in 1..T |-> (v[i] + RoundConstants[t][i]) % Modulus]
  IN  [i \in 1..T |-> Times(Powered(x, t), M)[i] % Modulus]

TextbookState(a, b, t) ==
  LET after[k \in 0..Rounds] == IF k = 0 THEN <<0, a, b>> ELSE TextbookRound(after[k - 1], k)
  IN  after[t]
Textbook(a, b) == TextbookState(a, b, Rounds)[1]

Refused == -1
HostHash(a, b) == IF a < Modulus /\ b < Modulus THEN Textbook(a, b) ELSE Refused

\* U256::from_parts and from_be_bytes: the most significant part first
BigEndian(parts) == LowValue([i \in At |-> parts[Limbs - i]], Base, Limbs)
ToBytes(x) == [i \in 1..Limbs |-> x[i - 1]]

\* Poseidon2Hasher::hash of the token: the limbs go to the host as they are
TokenHash(a, b) ==
  LET parts(bytes) == [i \in 1..Limbs |-> FromBytes(bytes)[Limbs - i]]
  IN  HostHash(BigEndian(parts(a)), BigEndian(parts(b)))

\* Poseidon2Hasher::hash of swap: through bytes, which are reversed
SwapHash(a, b) ==
  LET reversed(bytes) == Reverse(ToBytes(FromBytes(bytes)))
  IN  HostHash(BigEndian(reversed(a)), BigEndian(reversed(b)))

-----------------------------------------------------------------------------
\* Every element is reduced after every round: add and to_bytes rely on it, and
\* two encodings of one element would be two commitments.
ElementsReduced ==
  /\ input = <<>> \/ (input \in [1..2 -> Bytes] /\ Len(state) = T)
  /\ \A i \in DOMAIN state : state[i] \in Bytes /\ ~GeqR(state[i])

\* The permutation in limbs, with its moved constants and sparse matrices, and
\* both contracts' hashers give the textbook digest, for inputs reduced or not.
HashersAgree ==
  round = Rounds =>
    LET digest == Textbook(ValueOf(input[1]) % Modulus, ValueOf(input[2]) % Modulus)
    IN  /\ ValueOf(Digest) = digest
        /\ TokenHash(input[1], input[2]) = digest
        /\ SwapHash(input[1], input[2]) = digest
=============================================================================
