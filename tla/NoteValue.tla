-------------------------------- MODULE NoteValue --------------------------------
(***************************************************************************)
(* What notes are worth together. The code adds u64 values up in i128      *)
(* integers, which cannot overflow for the few notes of a call; the        *)
(* circuits add them in a field of 254 bits, with every value in range.    *)
(*                                                                         *)
(* A sum is written as a number of units: a note of value v contributes    *)
(* the units <<note, 1>> to <<note, v>>. Sums then obey the laws of finite *)
(* cardinalities, which the proofs use.                                    *)
(***************************************************************************)
EXTENDS Integers, FiniteSets

CONSTANT MaxValue  \* the largest value Range64 admits, 2^64 - 1

ASSUME ValueAssumption == MaxValue \in Nat \ {0}

\* the units of a set of notes
Units(notes) == {unit \in notes \X (1..MaxValue) : unit[2] <= unit[1].value}

Worth(notes) == Cardinality(Units(notes))

\* the units of a sequence of notes, a note in two places counting twice
SlotUnits(notes) == {unit \in (DOMAIN notes) \X (1..MaxValue) : unit[2] <= notes[unit[1]].value}

ValueOf(notes) == Cardinality(SlotUnits(notes))
=============================================================================
