-------------------------------- MODULE MCWallet --------------------------------
(* Instances of Wallet for TLC: one call of each kind. *)
EXTENDS Wallet, TLC

CONSTANTS t, u, s, sender

MCKind == [c \in Calls |-> CASE c = t -> "transfer" [] c = u -> "unshield" [] c = s -> "shield"]
MCAmount == [c \in Calls |-> IF c = u THEN 1 ELSE 2]
MCReceived == <<2, 1>>

Ended(c) == pc[c] \in {"done", "failed"}

\* What the rest of a behaviour can depend on: nothing of an ended call's proof, of
\* a sequence number that is not about to be used, of a pending transaction that
\* has lost its own, and of a refused transaction nobody asks about.
View ==
  LET live(h) == txs[h].status = "pending" /\ txs[h].plan.seq > account
      asked(h) == txs[h].status # "pending" /\ ~Ended(h[1])
      kept == {h \in DOMAIN txs : live(h) \/ asked(h) \/ txs[h].status = "success"}
  IN << ledger, leaf, spent, indexed, account, KnownRhos,
        [h \in kept |-> IF live(h) THEN txs[h] ELSE [status |-> txs[h].status]],
        notes, lastSync, sync, pc,
        [c \in Calls |-> IF Ended(c) THEN <<>> ELSE
           <<[plan[c] EXCEPT !.seq = IF pc[c] = "send" THEN @ ELSE 0], try[c]>>] >>
=============================================================================
