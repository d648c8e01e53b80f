-------------------------------- MODULE Verifier --------------------------------
(***************************************************************************)
(* contracts/verifier/src/lib.rs: the registry of Groth16 verifying keys.  *)
(* A rotation keeps the outgoing key acceptable for a while, next to its   *)
(* successor. A proof is genuine under exactly one key, so what verify     *)
(* answers is whether it honours that key.                                 *)
(***************************************************************************)
EXTENDS Integers, FiniteSets

CONSTANTS
  Circuits,       \* CircuitType
  Keys,           \* verifying keys, as bytes
  MalformedKeys,  \* the ones validate_vk_shape refuses
  UnusableKeys,   \* of the right shape, but with a point that is on no curve
  Registrar,      \* the verifier's admin; initialize sets it and nothing changes it
  Retention,      \* VK_RETENTION_WINDOW_LEDGERS
  MaxLedger,      \* u32::MAX
  NoKey           \* no entry in storage

ASSUME VerifierAssumption ==
  /\ MalformedKeys \subseteq Keys
  /\ UnusableKeys \subseteq Keys \ MalformedKeys
  /\ NoKey \notin Keys
  /\ Retention \in Nat
  /\ MaxLedger \in Nat

VARIABLES
  seq,             \* the ledger sequence number
  vk,              \* VerifyingKey(circuit)
  previousVk,      \* PreviousVerifyingKey(circuit)
  previousExpiry,  \* PreviousVkExpiry(circuit), 0 when there is none
  verifierPaused,  \* Paused
  promised         \* the honour a rotation promised its outgoing key (not in the code)

verifierVars == <<vk, previousVk, previousExpiry, verifierPaused, promised>>

VerifierInit ==
  /\ seq = 0
  /\ vk = [c \in Circuits |-> NoKey]
  /\ previousVk = [c \in Circuits |-> NoKey]
  /\ previousExpiry = [c \in Circuits |-> 0]
  /\ verifierPaused = FALSE
  /\ promised = {}

\* Deviation: the addition may pass u32::MAX.
SaturatingAddUnbounded(ledger, count) == ledger + count

\* u32::saturating_add
SaturatingAdd(ledger, count) == IF ledger + count > MaxLedger THEN MaxLedger ELSE ledger + count

\* how long a replaced key stays valid
RetainedUntil == SaturatingAdd(seq, Retention)

RegisterVerifyingKey(caller, circuit, key) ==
  /\ caller = Registrar
  /\ ~verifierPaused
  /\ vk[circuit] = NoKey
  /\ key \notin MalformedKeys
  /\ vk' = [vk EXCEPT ![circuit] = key]
  /\ UNCHANGED <<previousVk, previousExpiry, verifierPaused, promised>>

UpdateVerifyingKey(caller, circuit, key) ==
  /\ caller = Registrar
  /\ ~verifierPaused
  /\ vk[circuit] # NoKey
  /\ key \notin MalformedKeys
  /\ vk' = [vk EXCEPT ![circuit] = key]
  /\ previousVk' = [previousVk EXCEPT ![circuit] = vk[circuit]]
  /\ previousExpiry' = [previousExpiry EXCEPT ![circuit] = RetainedUntil]
  /\ promised' = promised \cup
                   {[circuit |-> circuit, key |-> vk[circuit], until |-> seq + Retention]}
  /\ UNCHANGED verifierPaused

RevokePreviousVk(caller, circuit) ==
  /\ caller = Registrar
  /\ previousVk' = [previousVk EXCEPT ![circuit] = NoKey]
  /\ previousExpiry' = [previousExpiry EXCEPT ![circuit] = 0]
  /\ promised' = {p \in promised : p.circuit # circuit}
  /\ UNCHANGED <<vk, verifierPaused>>

\* pause and unpause
SetVerifierPaused(caller, value) ==
  /\ caller = Registrar
  /\ verifierPaused' = value
  /\ UNCHANGED <<vk, previousVk, previousExpiry, promised>>

\* Deviation: the last ledger of the window is not part of it.
VerifyShort(circuit, key) ==
  /\ vk[circuit] \notin UnusableKeys \cup {NoKey}
  /\ \/ key = vk[circuit]
     \/ seq < previousExpiry[circuit] /\ key = previousVk[circuit]

\* Deviation: the retained key never expires.
VerifyForever(circuit, key) ==
  /\ vk[circuit] \notin UnusableKeys \cup {NoKey}
  /\ key \in {vk[circuit], previousVk[circuit]}

\* verify, for a proof made with `key': the current key, then the retained one.
\* The expiry is compared before the key is looked up. The host refuses a point
\* that is on no curve, which ends the call: the retained key is not tried.
Verify(circuit, key) ==
  /\ vk[circuit] \notin UnusableKeys \cup {NoKey}
  /\ \/ key = vk[circuit]
     \/ seq <= previousExpiry[circuit] /\ key = previousVk[circuit]

\* the keys verify honours while the verifier is not paused
Honoured(circuit) == {key \in Keys \ UnusableKeys : Verify(circuit, key)}

VerifierTypeOK ==
  /\ seq \in 0..MaxLedger
  /\ vk \in [Circuits -> (Keys \ MalformedKeys) \cup {NoKey}]
  /\ previousVk \in [Circuits -> (Keys \ MalformedKeys) \cup {NoKey}]
  /\ previousExpiry \in [Circuits -> 0..MaxLedger]
  /\ verifierPaused \in BOOLEAN
  /\ promised \subseteq [circuit : Circuits, key : Keys \ MalformedKeys, until : Nat]

\* A proof made just before a rotation is still good for the whole retention
\* window after it, whatever is queued, executed or paused meanwhile, unless the
\* key was revoked. The exception: a rotation to an unusable key takes the
\* outgoing one out of use with it, at once and until the next rotation.
KeyHonouredForRetention ==
  \A p \in promised :
    seq <= p.until /\ {p.key, vk[p.circuit]} \cap UnusableKeys = {}
      => p.key \in Honoured(p.circuit)

\* ... and not a ledger longer: a key that is neither current nor within the
\* window of its own retirement is refused, also after a chain of rotations and
\* after a rotation back to an earlier key.
NoKeyOutlivesRetirement ==
  \A c \in Circuits : \A key \in Honoured(c) \ {vk[c]} :
    \E p \in promised : p.circuit = c /\ p.key = key /\ seq <= p.until
=============================================================================
