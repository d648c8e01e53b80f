------------------------------- MODULE ViewingKeys -------------------------------
(***************************************************************************)
(* Viewing-key epochs (docs/VIEWING_KEYS.md): the wallet's rotation and    *)
(* its sync over every epoch's key (sdk/src/wallet/wallet.ts), an auditor  *)
(* with the exported key of one epoch (auditor.ts), and senders who hold   *)
(* addresses of any epoch so far; and the registry in which the owner      *)
(* advertises a key (contracts/viewing_keys). A note is encrypted to one   *)
(* epoch's key; no other key decrypts it.                                  *)
(***************************************************************************)
EXTENDS Integers, SequencesExt, Sorting

CONSTANTS
  MaxEpoch,    \* bound on the rotations
  MaxNotes     \* bound on the notes sent, one a ledger

ASSUME ViewingKeysAssumption == MaxEpoch \in Nat /\ MaxNotes \in Nat

VARIABLES
  sent,      \* sent[n]: the epoch whose key the note of ledger n is encrypted to
  epoch,     \* epoch; the application persists it
  lastSync,  \* lastSyncLedger
  found,     \* the ledgers whose note is in the wallet's list
  syncing,   \* the running sync: the epochs of its keys, and its cursor
  advertised, \* the epoch whose key the registry contract holds for the owner, or none
  auditor    \* the auditor: its epoch and birthday, its lastSyncLedger, the cursor of
             \* its sync, and the receipts it reports

walletVars == <<sent, epoch, lastSync, found, syncing>>
viewingVars == <<walletVars, advertised, auditor>>

NotAdvertised == -1
NotRunning == [keys |-> {}, cursor |-> 0]
NoAuditor == [epoch |-> -1, birthday |-> 0, lastSync |-> 0, cursor |-> 0, reports |-> <<>>]

ViewingInit ==
  /\ sent = <<>>
  /\ epoch = 0 /\ lastSync = 0 /\ found = {}
  /\ syncing = NotRunning
  /\ advertised = NotAdvertised
  /\ auditor = NoAuditor

Decryptable(ledgers, keys) == {n \in ledgers \cap DOMAIN sent : sent[n] \in keys}

\* a sender pays to an address of this epoch or, if it kept one, of an earlier
SendNote ==
  /\ Len(sent) < MaxNotes
  /\ \E e \in 0..epoch : sent' = Append(sent, e)
  /\ UNCHANGED <<epoch, lastSync, found, syncing, advertised, auditor>>

\* Deviation: the current epoch's key is not among them.
EpochKeysBefore == 0..(epoch - 1)

\* the keys sync tries: derived when it starts
EpochKeys == 0..epoch

StartSync ==
  /\ syncing = NotRunning
  /\ syncing' = [keys |-> EpochKeys, cursor |-> lastSync]
  /\ UNCHANGED <<sent, epoch, lastSync, found, advertised, auditor>>

\* one page, which covers some of the ledgers from the cursor on
FetchPage ==
  /\ syncing # NotRunning
  /\ \E last \in syncing.cursor..Len(sent) :
       /\ found' = found \cup Decryptable(syncing.cursor..last, syncing.keys)
       /\ syncing' = [syncing EXCEPT !.cursor = last + 1]
  /\ UNCHANGED <<sent, epoch, lastSync, advertised, auditor>>

\* a page without notes ends it
EndSync ==
  /\ syncing # NotRunning
  /\ syncing.cursor > Len(sent)
  /\ lastSync' = syncing.cursor
  /\ syncing' = NotRunning
  /\ UNCHANGED <<sent, epoch, found, advertised, auditor>>

\* the indexer cannot be reached: sync throws
SyncThrows ==
  /\ syncing # NotRunning
  /\ syncing' = NotRunning
  /\ UNCHANGED <<sent, epoch, lastSync, found, advertised, auditor>>

RotateViewingKey ==
  /\ epoch < MaxEpoch
  /\ epoch' = epoch + 1
  /\ UNCHANGED <<sent, lastSync, found, syncing, advertised, auditor>>

\* the process ends, and a new wallet is made with viewingEpoch as persisted
Restart ==
  /\ lastSync' = 0 /\ found' = {} /\ syncing' = NotRunning
  /\ UNCHANGED <<sent, epoch, advertised, auditor>>

\* register, in the registry: the owner advertises a key it has, in place of any before
RegisterKey ==
  /\ \E e \in 0..epoch : advertised' = e
  /\ UNCHANGED <<walletVars, auditor>>

\* revoke withdraws what is advertised, and nothing else: nobody reads the registry to
\* decrypt
RevokeKey ==
  /\ advertised' = NotAdvertised
  /\ UNCHANGED <<walletVars, auditor>>

\* exportCurrentViewingKey, given to an auditor: the birthday is the ledger of the
\* wallet's last sync
Grant ==
  /\ auditor = NoAuditor
  /\ auditor' = [epoch |-> epoch, birthday |-> lastSync, lastSync |-> lastSync, cursor |-> lastSync,
                 reports |-> <<>>]
  /\ UNCHANGED <<walletVars, advertised>>

\* Deviation: what the auditor has seen before is reported again.
AuditPageAgain ==
  /\ auditor # NoAuditor
  /\ \E last \in auditor.cursor..Len(sent) :
       LET readable == Decryptable(auditor.cursor..last, {auditor.epoch})
       IN  auditor' = [auditor EXCEPT !.cursor = last + 1, !.reports = @ \o Ascending(readable)]
  /\ UNCHANGED <<walletVars, advertised>>

\* a page of ZKELLAAuditor.sync: what it has not seen yet and can decrypt
AuditPage ==
  /\ auditor # NoAuditor
  /\ \E last \in auditor.cursor..Len(sent) :
       LET readable == Decryptable(auditor.cursor..last, {auditor.epoch})
       IN  auditor' = [auditor EXCEPT !.cursor = last + 1,
                         !.reports = @ \o Ascending(readable \ ToSet(@))]
  /\ UNCHANGED <<walletVars, advertised>>

\* its sync ends with an empty page, or throws: the next starts where the last ended
EndAudit ==
  /\ auditor # NoAuditor
  /\ \/ auditor.cursor > Len(sent) /\ auditor' = [auditor EXCEPT !.lastSync = auditor.cursor]
     \/ auditor' = [auditor EXCEPT !.cursor = auditor.lastSync]
  /\ UNCHANGED <<walletVars, advertised>>

ViewingNext ==
  \/ SendNote \/ RotateViewingKey \/ Restart \/ RegisterKey \/ RevokeKey
  \/ StartSync \/ FetchPage \/ EndSync \/ SyncThrows
  \/ Grant \/ AuditPage \/ EndAudit

ViewingSpec == ViewingInit /\ [][ViewingNext]_viewingVars

\* the application does not rotate while a sync runs
RotatesBetweenSyncs == epoch' # epoch => syncing = NotRunning
RotatingSpec == ViewingInit /\ [][ViewingNext /\ RotatesBetweenSyncs]_viewingVars

-----------------------------------------------------------------------------
\* The wallet has every note of a ledger it has synced, whichever epoch's address it
\* was paid to, through rotations and restarts. It needs RotatesBetweenSyncs: a sync
\* that was started before a rotation moves past the notes of the new epoch.
EveryEpochReceived ==
  \A n \in DOMAIN sent : n < lastSync => n \in found

\* An auditor reports what was paid to the epoch it was granted since its birthday:
\* every receipt once, however often it syncs or fails to, and nothing that was paid
\* to an address of another epoch, such as any handed out after a rotation. Advertising
\* another key or revoking the one advertised makes no difference to it.
ReportsTheGrantedEpoch ==
  /\ IsInjective(auditor.reports)
  /\ ToSet(auditor.reports) \subseteq Decryptable(auditor.birthday..Len(sent), {auditor.epoch})
  /\ Decryptable(auditor.birthday..(auditor.cursor - 1), {auditor.epoch}) \subseteq ToSet(auditor.reports)

\* docs/VIEWING_KEYS.md: what is granted is read access to the shielded history, and
\* the key decrypts every note encrypted to it.
AuditorReadsHistory ==
  Decryptable(0..(auditor.cursor - 1), {auditor.epoch}) \subseteq ToSet(auditor.reports)
=============================================================================
