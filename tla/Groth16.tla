--------------------------------- MODULE Groth16 ---------------------------------
(***************************************************************************)
(* The pairing check of contracts/verifier/src/lib.rs, from the bytes of a *)
(* key, a proof and its inputs to the answer of verify and verify_batch.   *)
(* The groups are the host's: a point is written by its discrete logarithm *)
(* and pairing multiplies logarithms, so that the equation is one over     *)
(* integers. Points and inputs are encoded as in the code, in digits, with *)
(* small moduli.                                                           *)
(***************************************************************************)
EXTENDS Numerals, Sequences, SequencesExt

CONSTANTS
  ScalarMod,    \* r: of the inputs and of the groups
  FieldMod,     \* q: of the coordinates, FQ_MODULUS_BE
  Radix, Width, \* a number is Width digits to the base Radix (32 bytes)
  KeySet,       \* verifying keys: alpha, beta, gamma, delta and ic, as logarithms
  ProofSet,     \* proofs: a, b and c, as logarithms
  BadBytes,     \* bytes that are no key or no proof
  InputLists,   \* lists of encoded inputs
  Batches       \* lists of items, of a list of inputs and a proof each

\* r is an odd prime, of which only the first counts here: no point but the neutral
\* element is its own inverse
ASSUME Groth16Assumption ==
  /\ ScalarMod \in Nat \ {0, 1} /\ ScalarMod % 2 = 1 /\ FieldMod \in Nat
  /\ Radix \in Nat \ {0, 1} /\ Width \in Nat \ {0}
  /\ ScalarMod <= FieldMod /\ FieldMod < Power(Radix, Width)

VARIABLES
  call,    \* the call being answered, <<>> if there is none
  weighed, \* of a batch: the items weighed, their weights and the sums over them
  answer   \* Ok(true), Ok(false), an error, or a trap of the host

groth16Vars == <<call, weighed, answer>>

-----------------------------------------------------------------------------
(* Encodings. *)

\* big-endian, from digits the least significant first, and back
HighFirst(low) == [i \in 1..Width |-> low[Width - i]]
LowFirst(digits) == [i \in 0..(Width - 1) |-> digits[Width - i]]

Digits(n) == HighFirst(DigitsOf(n, Radix, Width))
Number(digits) == LowValue(LowFirst(digits), Radix, Width)

\* the coordinates of the point with logarithm k; the inverse has the same x and
\* the opposite y, and (0, 0) stands for the neutral element
X(k) == IF 2 * k < ScalarMod THEN k ELSE ScalarMod - k
Y(k) == IF 2 * k < ScalarMod THEN k ELSE FieldMod - (ScalarMod - k)
G1(k) == Digits(X(k)) \o Digits(Y(k))
G2(k) == Digits(0) \o Digits(X(k)) \o Digits(0) \o Digits(Y(k))

NoPoint == ScalarMod
\* the two groups' encodings differ in length
LogOf(point) ==
  IF \E k \in 0..(ScalarMod - 1) : point \in {G1(k), G2(k)}
  THEN CHOOSE k \in 0..(ScalarMod - 1) : point \in {G1(k), G2(k)} ELSE NoPoint

G1Len == 2 * Width
G2Len == 4 * Width
VkFixedLen == G1Len + G2Len * 3
ProofLen == G1Len * 2 + G2Len

\* what the SDK writes: of a key the points, the IC one after the other
IcBytes(ic) ==
  [n \in 1..(Len(ic) * G1Len) |-> G1(ic[(n - 1) \div G1Len + 1])[((n - 1) % G1Len) + 1]]
KeyBytes(key) ==
  G1(key.alpha) \o G2(key.beta) \o G2(key.gamma) \o G2(key.delta) \o IcBytes(key.ic)
ProofBytes(p) == G1(p.a) \o G2(p.b) \o G1(p.c)

\* validate_vk_shape: the fixed part and at least IC[0], in whole points
ValidShape(vkBytes) ==
  /\ Len(vkBytes) > VkFixedLen
  /\ (Len(vkBytes) - VkFixedLen) % G1Len = 0

\* bytes.slice(offset..offset + count)
Slice(bytes, offset, count) == SubSeq(bytes, offset + 1, offset + count)

ParseVk(vkBytes) ==
  [alpha |-> LogOf(Slice(vkBytes, 0, G1Len)),
   beta  |-> LogOf(Slice(vkBytes, G1Len, G2Len)),
   gamma |-> LogOf(Slice(vkBytes, G1Len + G2Len, G2Len)),
   delta |-> LogOf(Slice(vkBytes, G1Len + 2 * G2Len, G2Len)),
   ic    |-> [i \in 1..((Len(vkBytes) - VkFixedLen) \div G1Len) |->
                LogOf(Slice(vkBytes, VkFixedLen + (i - 1) * G1Len, G1Len))]]

\* Deviation: the subtraction does not borrow.
NegateG1BytesNoBorrow(point) ==
  LET y == Slice(point, Width, Width)
      q == Digits(FieldMod)
  IN  IF Number(y) = 0 \/ Number(y) >= FieldMod THEN point
      ELSE Slice(point, 0, Width) \o [i \in 1..Width |-> (q[i] - y[i]) % Radix]

\* (x, y) becomes (x, q - y), digit by digit from the last
NegateG1Bytes(point) ==
  LET y == LowFirst(Slice(point, Width, Width))
      q == DigitsOf(FieldMod, Radix, Width)
  IN  IF LowValue(y, Radix, Width) = 0 \/ LowValue(y, Radix, Width) >= FieldMod THEN point
      ELSE Slice(point, 0, Width) \o HighFirst(Minus(q, y, Radix, Width))

NonCanonical == ScalarMod

\* Deviation: any encoding of an input counts for its residue.
PublicInputToFrReduced(input) == Number(Reverse(input)) % ScalarMod

\* inputs are little-endian and must be below r
PublicInputToFr(input) ==
  LET n == Number(Reverse(input)) IN IF n < ScalarMod THEN n ELSE NonCanonical

-----------------------------------------------------------------------------
(* verify. *)

\* the host's sums of multiples and products of pairings: no point, no result
Sum(scalars, points) ==
  IF NoPoint \in Range(points) THEN NoPoint
  ELSE SumUpTo([i \in DOMAIN points |-> scalars[i] * points[i]], Len(points)) % ScalarMod

PairingCheck(g1s, g2s) ==
  IF NoPoint \in Range(g1s) \cup Range(g2s) THEN "Trap"
  ELSE IF Sum(g1s, g2s) = 0 THEN "Ok(true)" ELSE "Ok(false)"

\* vk_x = IC[0] + the inputs' multiples of the others
VkX(ic, xs) == Sum(<<1>> \o xs, ic)

\* the refusals a verification can end in (registering a key has its own)
Errors == {"InvalidProofLength", "PublicInputCountMismatch", "EmptyBatch", "NonCanonicalInput"}

InputsError(key, xs) ==
  IF Len(key.ic) # Len(xs) + 1 THEN "PublicInputCountMismatch"
  ELSE IF NonCanonical \in Range(xs) THEN "NonCanonicalInput" ELSE "None"

ParseProof(proof) ==
  [a |-> LogOf(Slice(proof, 0, G1Len)),
   b |-> LogOf(Slice(proof, G1Len, G2Len)),
   c |-> LogOf(Slice(proof, G1Len + G2Len, G1Len))]

ToFr(inputs) == [i \in DOMAIN inputs |-> PublicInputToFr(inputs[i])]

VerifyAgainstVk(vkBytes, inputs, proof) ==
  LET key  == ParseVk(vkBytes)
      xs   == ToFr(inputs)
      negA == LogOf(NegateG1Bytes(Slice(proof, 0, G1Len)))
      p    == ParseProof(proof)
  IN  IF InputsError(key, xs) # "None" THEN InputsError(key, xs)
      ELSE PairingCheck(<<negA, key.alpha, VkX(key.ic, xs), p.c>>,
                        <<p.b, key.beta, key.gamma, key.delta>>)

\* The current key, then the one still retained (<<>> if there is none). A trap
\* ends the call; after any other refusal the answer is the retained key's.
VerifyBytes(vkBytes, retained, inputs, proof) ==
  LET first == VerifyAgainstVk(vkBytes, inputs, proof)
  IN  IF Len(proof) # ProofLen THEN "InvalidProofLength"
      ELSE IF first \in {"Ok(true)", "Trap"} \/ retained = <<>> THEN first
      ELSE VerifyAgainstVk(retained, inputs, proof)

-----------------------------------------------------------------------------
(* The calls. verify_batch takes its items one by one; the weight of an item *)
(* is a hash of the whole batch, which may come out as anything.             *)

\* the keys that can have been registered, and everything a caller can send
Registered == {vkBytes \in {KeyBytes(k) : k \in KeySet} \cup BadBytes : ValidShape(vkBytes)}
Sendable == {ProofBytes(p) : p \in ProofSet} \cup BadBytes
Items == [inputs : InputLists, proof : Sendable]

\* BadBytes stand for everything that is no key and no proof: cut short or too long,
\* or not made of points.
IsKey(bytes) ==
  LET key == ParseVk(bytes)
  IN  /\ ValidShape(bytes)
      /\ NoPoint \notin {key.alpha, key.beta, key.gamma, key.delta} \cup Range(key.ic)
IsProof(bytes) ==
  LET p == ParseProof(bytes) IN Len(bytes) = ProofLen /\ NoPoint \notin {p.a, p.b, p.c}

Logarithms == 0..(ScalarMod - 1)
ASSUME Groth16Inputs ==
  /\ \A key \in KeySet :
       key \in [alpha : Logarithms, beta : Logarithms, gamma : Logarithms, delta : Logarithms,
                ic : Seq(Logarithms)]
  /\ ProofSet \subseteq [a : Logarithms, b : Logarithms, c : Logarithms]
  /\ \A b \in BadBytes : b \in Seq(0..(Radix - 1)) /\ ~IsKey(b) /\ ~IsProof(b)
  /\ \A list \in InputLists : list \in Seq([1..Width -> 0..(Radix - 1)])
  /\ \A items \in Batches : items \in Seq(Items)

\* the sums of the weights, and of the weighted vk_x, C and -A paired with B
NothingWeighed == [weights |-> <<>>, alpha |-> 0, vkX |-> 0, c |-> 0, ab |-> 0]

CallVerify ==
  /\ call = <<>>
  /\ \E vkBytes \in Registered, retained \in Registered \cup {<<>>}, item \in Items :
       /\ call' = [kind |-> "verify", vk |-> vkBytes, retained |-> retained, items |-> <<item>>]
       /\ answer' = VerifyBytes(vkBytes, retained, item.inputs, item.proof)
  /\ UNCHANGED weighed

CallVerifyBatch ==
  /\ call = <<>>
  /\ \E vkBytes \in Registered, items \in Batches :
       call' = [kind |-> "batch", vk |-> vkBytes, items |-> items]
  /\ answer' = IF call'.items = <<>> THEN "EmptyBatch" ELSE "None"
  /\ UNCHANGED weighed

\* Deviation: every item counts once in the coefficient of alpha.
AddWeightOnce(sum, r) == (sum + 1) % ScalarMod

AddWeight(sum, r) == (sum + r) % ScalarMod

AddWeighted(sum, r, x) == IF NoPoint \in {sum, x} THEN NoPoint ELSE (sum + r * x) % ScalarMod

\* Computing with A and the IC traps at once; B and C wait for the pairing.
WeighItem(r) ==
  LET item  == call.items[Len(weighed.weights) + 1]
      ic    == ParseVk(call.vk).ic
      xs    == ToFr(item.inputs)
      p     == ParseProof(item.proof)
      ab    == IF p.b = NoPoint THEN NoPoint ELSE (p.a * p.b) % ScalarMod
      error == IF Len(item.proof) # ProofLen THEN "InvalidProofLength"
               ELSE IF InputsError([ic |-> ic], xs) # "None" THEN InputsError([ic |-> ic], xs)
               ELSE IF NoPoint \in Range(ic) \cup {p.a} THEN "Trap" ELSE "None"
  IN
  /\ call # <<>> /\ call.kind = "batch" /\ answer = "None"
  /\ Len(weighed.weights) < Len(call.items)
  /\ answer' = error
  /\ weighed' = IF error # "None" THEN weighed ELSE
       [weights |-> Append(weighed.weights, r),
        alpha   |-> AddWeight(weighed.alpha, r),
        vkX     |-> AddWeighted(weighed.vkX, r, VkX(ic, xs)),
        c       |-> AddWeighted(weighed.c, r, p.c),
        ab      |-> AddWeighted(weighed.ab, -r, ab)]
  /\ UNCHANGED call

\* one pairing check over the sums
CheckBatch ==
  LET key == ParseVk(call.vk)
      alpha == IF key.alpha = NoPoint THEN NoPoint ELSE (weighed.alpha * key.alpha) % ScalarMod
  IN
  /\ call # <<>> /\ call.kind = "batch" /\ answer = "None"
  /\ Len(weighed.weights) = Len(call.items)
  /\ answer' = PairingCheck(<<weighed.ab, alpha, weighed.vkX, weighed.c>>,
                            <<1, key.beta, key.gamma, key.delta>>)
  /\ UNCHANGED <<call, weighed>>

Return ==
  /\ answer # "None"
  /\ call' = <<>> /\ weighed' = NothingWeighed /\ answer' = "None"

Groth16Init == call = <<>> /\ weighed = NothingWeighed /\ answer = "None"

Groth16Next ==
  \/ CallVerify \/ CallVerifyBatch \/ CheckBatch \/ Return
  \/ \E r \in 0..(ScalarMod - 1) : WeighItem(r)

Groth16Spec == Groth16Init /\ [][Groth16Next]_groth16Vars

Groth16TypeOK ==
  /\ answer \in {"None", "Ok(true)", "Ok(false)", "Trap"} \cup Errors
  /\ Len(weighed.weights) <= IF call = <<>> THEN 0 ELSE Len(call.items)

-----------------------------------------------------------------------------
(* What the answers mean, in terms of what the bytes were made from. *)

\* the equation e(A,B) = e(alpha,beta) e(vk_x,gamma) e(C,delta): left less right
Residual(key, xs, p) ==
  LET vkX == key.ic[1] + SumUpTo([i \in DOMAIN xs |-> xs[i] * key.ic[i + 1]], Len(xs))
  IN  (p.a * p.b - key.alpha * key.beta - vkX * key.gamma - p.c * key.delta) % ScalarMod

\* an item whose proof is for the key: right arity, canonical inputs, and made of points
WellFormed(vkBytes, item) ==
  \E key \in KeySet, p \in ProofSet :
    /\ vkBytes = KeyBytes(key) /\ item.proof = ProofBytes(p)
    /\ Len(key.ic) = Len(item.inputs) + 1
    /\ \A i \in DOMAIN item.inputs : Number(Reverse(item.inputs[i])) < ScalarMod

ResidualOf(vkBytes, item) ==
  LET key == CHOOSE k \in KeySet : KeyBytes(k) = vkBytes
      p   == CHOOSE q \in ProofSet : ProofBytes(q) = item.proof
  IN  Residual(key, [i \in DOMAIN item.inputs |-> Number(Reverse(item.inputs[i]))], p)

Genuine(vkBytes, item) == WellFormed(vkBytes, item) /\ ResidualOf(vkBytes, item) = 0

\* verify says yes to the proofs that satisfy the equation of the current key, or of
\* the retained one unless computing with the current key traps, and to nothing
\* else: every encoding of every point, no second encoding of an input, no other arity.
AcceptsTheGenuine ==
  call # <<>> /\ call.kind = "verify" =>
    LET item   == call.items[1]
        usable == call.vk \in {KeyBytes(k) : k \in KeySet}
        fits   == Len(ParseVk(call.vk).ic) = Len(item.inputs) + 1
    IN  answer = "Ok(true)" <=>
          Genuine(call.vk, item) \/ (Genuine(call.retained, item) /\ (usable \/ ~fits))

\* verify_batch says yes to well-formed items whose errors, under the weights, add up
\* to nothing: whatever the weights, a batch of genuine proofs passes, and one with
\* a single forgery fails unless the forgery's weight is zero. It has no say on a
\* batch with a malformed item, and does not try the retained key.
BatchIsWeighedSum ==
  call # <<>> /\ call.kind = "batch" /\ answer \in {"Ok(true)", "Ok(false)"} =>
    /\ \A i \in DOMAIN call.items : WellFormed(call.vk, call.items[i])
    /\ answer = "Ok(true)" <=>
         SumUpTo([i \in DOMAIN call.items |->
                    weighed.weights[i] * ResidualOf(call.vk, call.items[i])],
                 Len(call.items)) % ScalarMod = 0
=============================================================================
