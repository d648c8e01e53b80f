-------------------------------- MODULE NotePool --------------------------------
(***************************************************************************)
(* What a shielded pool promises, without commitments, nullifiers, roots   *)
(* or proofs: a set of notes that can be spent, each at most once, and for *)
(* every asset a vault whose content changes by exactly what the notes     *)
(* that come and go are worth. A note that was ever in the pool never      *)
(* comes back.                                                             *)
(***************************************************************************)
EXTENDS NoteValue

CONSTANT Assets

VARIABLES
  live,   \* the notes that can be spent
  ever,   \* every note there has been
  vault   \* what each asset's vault holds for them

poolVars == <<live, ever, vault>>

Init ==
  /\ live = {}
  /\ ever = {}
  /\ vault = [a \in Assets |-> 0]

Created == ever' \ ever

\* `spent' leave the pool and the created notes join it. A created note may be
\* unusable from the start and others may become so, but none becomes usable
\* again.
Replace(spent) ==
  /\ ever \subseteq ever'
  /\ spent \subseteq live
  /\ live' \subseteq (live \ spent) \cup Created

AllOf(asset, notes) == \A note \in notes : note.asset = asset

Deposit(asset) ==
  /\ AllOf(asset, Created)
  /\ Replace({})
  /\ vault' = [vault EXCEPT ![asset] = @ + Worth(Created)]

\* what is spent beyond what is created leaves as a fee
Exchange(asset, spent) ==
  /\ AllOf(asset, spent \cup Created)
  /\ Replace(spent)
  /\ Worth(Created) <= Worth(spent)
  /\ vault' = [vault EXCEPT ![asset] = @ - (Worth(spent) - Worth(Created))]

\* one note is spent, in part or in full, and the change is a new note
Withdraw(asset, note) ==
  /\ AllOf(asset, {note} \cup Created)
  /\ Replace({note})
  /\ \E change \in Created :
       /\ Created = {change}
       /\ change.value < note.value
       /\ vault' = [vault EXCEPT ![asset] = @ - (note.value - change.value)]

Next ==
  \E asset \in Assets :
    \/ Deposit(asset)
    \/ \E spent \in SUBSET (live \ live') : Exchange(asset, spent)
    \/ \E note \in live \ live' : Withdraw(asset, note)

Spec == Init /\ [][Next]_poolVars
=============================================================================
