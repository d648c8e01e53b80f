-------------------------------- MODULE WalletFeed --------------------------------
(***************************************************************************)
(* The loop at the top of ZKELLAWallet.sync (sdk/src/wallet/wallet.ts) and *)
(* of ZKELLAAuditor.sync: a wallet pages through the indexer's notes by    *)
(* ledger, next to the syncer that fills the database. Decryption is left  *)
(* out: every note is the wallet's own.                                    *)
(***************************************************************************)
EXTENDS Indexer

VARIABLES
  lastSync,   \* lastSyncLedger
  cursor,     \* the cursor of the running sync, lastSync between syncs
  received    \* the notes the wallet has been given

walletVars == <<lastSync, cursor, received>>

FeedInit ==
  /\ Init
  /\ lastSync = 0
  /\ cursor = 0
  /\ received = {}

\* one getNotes call; the sync ends with the first page that brings nothing
FetchNotes ==
  LET notes == GetNotesFrom(cursor)
      next == NextLedger(cursor, notes)
      done == notes = {} \/ next <= cursor
  IN
  /\ received' = received \cup notes
  /\ cursor' = IF done THEN cursor ELSE next
  /\ lastSync' = IF done THEN cursor ELSE lastSync
  /\ UNCHANGED vars

\* the indexer cannot be reached: sync throws, the next one starts over
FetchFails ==
  /\ cursor' = lastSync
  /\ UNCHANGED <<vars, lastSync, received>>

FeedNext ==
  \/ Next /\ UNCHANGED walletVars
  \/ FetchNotes
  \/ FetchFails

FeedSpec == FeedInit /\ [][FeedNext]_<<vars, walletVars>>

\* The comment on getNotesFrom's boundary ledger: the cursor a wallet continues
\* from never passes a note of a ledger that the wallet was not given.
FeedComplete ==
  \A e \in Events : chain[e].kind = "note" /\ chain[e].ledger < cursor => e \in received

\* What holds: no page makes the wallet pass a note that was in the database when
\* it was served, whatever the page size and the ledger boundaries.
StoredNotesServed ==
  [][\A e \in StoredNotesFrom(cursor) : chain[e].ledger < cursor' => e \in received']_<<vars, walletVars>>
=============================================================================
