----------------------------- MODULE FolderSync -----------------------------
(***************************************************************************)
(* worker._sync_folder: one pass after another brings the cached rows of a *)
(* folder in line with its IMAP mailbox, while the mailbox changes between *)
(* any two IMAP calls, API handlers touch the same rows, and a pass can    *)
(* fail or be cancelled at every await.  Passes of a folder never overlap  *)
(* (SyncRequests).                                                         *)
(*                                                                         *)
(* A message is identified by the mailbox's UIDVALIDITY and its uid; the   *)
(* only flag kept is \Seen, \Flagged and \Answered being treated alike.    *)
(* The batches of SYNC_BATCH_SIZE are prefixes of any length.              *)
(***************************************************************************)
EXTENDS Naturals

CONSTANTS MaxUid,       \* bound: uids the server assigns in an epoch
          MaxEpoch,     \* bound: UIDVALIDITY values the mailbox goes through
          MaxChanges    \* bound: changes and failures the environment causes

ASSUME BoundsAssumption == /\ MaxUid \in Nat
                           /\ MaxEpoch \in Nat \ {0}
                           /\ MaxChanges \in Nat

VARIABLES
  epoch,              \* the server: UIDVALIDITY of the mailbox,
  mail,               \*   its messages, uid -> seen,
  next_uid,           \*   and UIDNEXT
  rows,               \* Message rows of the folder, by uid
  last_uidvalidity,   \* columns of the Folder row; NULL is 0
  last_seen_uid,
  history_complete,
  pc,                 \* await the running pass is suspended in
  validity,           \* locals of _sync_folder
  remote_uids,
  batch,              \* uids being fetched
  loaded,             \* rows the walk has read, uid -> seen
  fetched,            \* the server's answer, uid -> [seen, epoch]
  after_uid,
  history,            \* ghost: uids there when last_uidvalidity was recorded
  changes             \* bound: environment steps so far

server == <<epoch, mail, next_uid>>
folder == <<last_uidvalidity, last_seen_uid, history_complete>>
locals == <<validity, remote_uids, batch, loaded, fetched, after_uid>>
vars == <<server, rows, folder, pc, locals, history, changes>>

Uids == 1 .. MaxUid
Epochs == 1 .. MaxEpoch
PartialFunctions(S, T) == UNION {[D -> T] : D \in SUBSET S}
Row == [uidvalidity : Epochs,              \* column
        source : Epochs,                   \* ghost: epoch of the header read
        is_seen : BOOLEAN,
        notification_eligible : BOOLEAN]
None == [u \in {} |-> FALSE]               \* no rows, no answer

PC == {"idle", "selected", "listing", "fetching", "storing", "walking",
       "flags", "applying"}

ResetLocals ==
  /\ validity' = 0 /\ remote_uids' = {} /\ batch' = {}
  /\ loaded' = None /\ fetched' = None /\ after_uid' = 0

Init ==
  /\ epoch = 1
  /\ \E n \in 0 .. MaxUid : /\ mail = [u \in 1 .. n |-> FALSE]
                            /\ next_uid = n + 1
  /\ rows = None
  /\ last_uidvalidity = 0 /\ last_seen_uid = 0 /\ history_complete = FALSE
  /\ pc = "idle"
  /\ validity = 0 /\ remote_uids = {} /\ batch = {}
  /\ loaded = None /\ fetched = None /\ after_uid = 0
  /\ history = {}
  /\ changes = 0

-----------------------------------------------------------------------------
(* The environment: other mail clients, delivery, and the API handlers.    *)

Change == changes < MaxChanges /\ changes' = changes + 1

Arrive(seen) ==
  /\ Change
  /\ next_uid \in Uids
  /\ mail' = [u \in DOMAIN mail \cup {next_uid} |->
                IF u = next_uid THEN seen ELSE mail[u]]
  /\ next_uid' = next_uid + 1
  /\ UNCHANGED <<epoch, rows, folder, pc, locals, history>>

Expunge(u) ==
  /\ Change
  /\ u \in DOMAIN mail
  /\ mail' = [v \in DOMAIN mail \ {u} |-> mail[v]]
  /\ UNCHANGED <<epoch, next_uid, rows, folder, pc, locals, history>>

ToggleSeen(u) ==
  /\ Change
  /\ u \in DOMAIN mail
  /\ mail' = [mail EXCEPT ![u] = ~@]
  /\ UNCHANGED <<epoch, next_uid, rows, folder, pc, locals, history>>

\* The mailbox is recreated: a new UIDVALIDITY, uids assigned from 1 again.
NewEpoch ==
  /\ Change
  /\ epoch < MaxEpoch
  /\ epoch' = epoch + 1
  /\ \E n \in 0 .. MaxUid : /\ mail' = [u \in 1 .. n |-> FALSE]
                            /\ next_uid' = n + 1
  /\ UNCHANGED <<rows, folder, pc, locals, history>>

\* delete_message drops its row once the server has expunged the message.
DropRow(u) ==
  /\ Change
  /\ u \in DOMAIN rows
  /\ epoch = last_uidvalidity => u \notin DOMAIN mail
  /\ rows' = [v \in DOMAIN rows \ {u} |-> rows[v]]
  /\ UNCHANGED <<server, folder, pc, locals, history>>

\* update_flags, get_message and mark_all_read store the flag they set.
MarkRow(u, seen) ==
  /\ Change
  /\ u \in DOMAIN rows
  /\ rows' = [rows EXCEPT ![u].is_seen = seen]
  /\ UNCHANGED <<server, folder, pc, locals, history>>

-----------------------------------------------------------------------------
(* The pass.  Every database change is one committed transaction.          *)

\* SELECT: the epoch this pass believes it is working in.
ReadValidity ==
  /\ pc = "idle"
  /\ validity' = epoch
  /\ pc' = "selected"
  /\ UNCHANGED <<server, rows, folder, remote_uids, batch, loaded, fetched,
                 after_uid, history, changes>>

\* Another epoch than the cached one empties the cache and restarts history.
\* Faulty variant: the progress marker survives the reset.
SeenAfterResetKept == last_seen_uid
SeenAfterReset == 0
\* Faulty variant: the rows of the old epoch survive it.
RowsAfterResetKept == rows
RowsAfterReset == None

RecordValidity ==
  /\ pc = "selected"
  /\ IF last_uidvalidity # validity
     THEN /\ rows' = RowsAfterReset
          /\ last_seen_uid' = SeenAfterReset
          /\ history_complete' = FALSE
          /\ history' = IF epoch = validity THEN DOMAIN mail ELSE {}
     ELSE UNCHANGED <<rows, last_seen_uid, history_complete, history>>
  /\ last_uidvalidity' = validity
  /\ pc' = "listing"
  /\ UNCHANGED <<server, locals, changes>>

\* SEARCH ALL: bounds the pass.  The SELECT before it is not checked again.
ListUids ==
  /\ pc = "listing"
  /\ remote_uids' = DOMAIN mail
  /\ pc' = "fetching"
  /\ UNCHANGED <<server, rows, folder, validity, batch, loaded, fetched,
                 after_uid, history, changes>>

NewUids == {u \in remote_uids : u > last_seen_uid}

Answer(uids) == [u \in uids \cap DOMAIN mail |->
                   [seen |-> mail[u], epoch |-> epoch]]

FetchHeaders ==
  /\ pc = "fetching"
  /\ \E last \in NewUids : batch' = {u \in NewUids : u <= last}
  /\ fetched' = Answer(batch')
  /\ pc' = "storing"
  /\ UNCHANGED <<server, rows, folder, validity, remote_uids, loaded,
                 after_uid, history, changes>>

\* Faulty variant: eligible whatever the backfill's state.
NewRowEligible(header) ==
  [uidvalidity |-> validity, source |-> header.epoch,
   is_seen |-> header.seen, notification_eligible |-> TRUE]
NewRow(header) ==
  [uidvalidity |-> validity, source |-> header.epoch,
   is_seen |-> header.seen, notification_eligible |-> history_complete]

Newest(uids) == CHOOSE u \in uids : \A v \in uids : v <= u

BatchEnd == Newest(batch)

\* The batch's messages and the progress marker commit together.
StoreBatch ==
  /\ pc = "storing"
  /\ rows' = [u \in DOMAIN rows \cup DOMAIN fetched |->
                IF u \in DOMAIN rows THEN rows[u] ELSE NewRow(fetched[u])]
  /\ last_seen_uid' = BatchEnd
  /\ batch' = {} /\ fetched' = None
  /\ pc' = "fetching"
  /\ UNCHANGED <<server, last_uidvalidity, history_complete, validity,
                 remote_uids, loaded, after_uid, history, changes>>

\* The walk over the cached rows begins when nothing is left to fetch.
Walking == pc = "walking" \/ (pc = "fetching" /\ NewUids = {})
Unwalked == {u \in DOMAIN rows : u > after_uid}

LoadRows ==
  /\ Walking
  /\ \E last \in Unwalked :
       loaded' = [u \in {v \in Unwalked : v <= last} |-> rows[u].is_seen]
  /\ pc' = "flags"
  /\ UNCHANGED <<server, rows, folder, validity, remote_uids, batch, fetched,
                 after_uid, history, changes>>

FetchFlags ==
  /\ pc = "flags"
  /\ fetched' = Answer(DOMAIN loaded \cap remote_uids)
  /\ pc' = "applying"
  /\ UNCHANGED <<server, rows, folder, validity, remote_uids, batch, loaded,
                 after_uid, history, changes>>

\* The ORM writes only flags that differ from the value it has loaded.
Differs(u) == u \in DOMAIN loaded \cap DOMAIN fetched
                /\ fetched[u].seen # loaded[u]
\* Faulty variants: only rows of uids still listed are ever removed; the answer
\* for one batch of rows is taken for an answer about all of them.
VanishedListed == (DOMAIN loaded \cap remote_uids) \ DOMAIN fetched
VanishedOfAllRows == DOMAIN rows \ DOMAIN fetched
Vanished == DOMAIN loaded \ DOMAIN fetched

ApplyFlags ==
  /\ pc = "applying"
  /\ \A u \in DOMAIN loaded : Differs(u) => u \in DOMAIN rows
  /\ rows' = [u \in DOMAIN rows \ Vanished |->
                IF Differs(u) THEN [rows[u] EXCEPT !.is_seen = fetched[u].seen]
                ELSE rows[u]]
  /\ after_uid' = Newest(DOMAIN loaded)
  /\ loaded' = None /\ fetched' = None
  /\ pc' = "walking"
  /\ UNCHANGED <<server, folder, validity, remote_uids, batch, history,
                 changes>>

FinishPass ==
  /\ Walking
  /\ Unwalked = {}
  /\ history_complete' = TRUE
  /\ pc' = "idle"
  /\ ResetLocals
  /\ UNCHANGED <<server, rows, last_uidvalidity, last_seen_uid, history,
                 changes>>

\* The UPDATE of a row deleted meanwhile raises StaleDataError.
StaleRowFails ==
  /\ pc = "applying"
  /\ \E u \in DOMAIN loaded : Differs(u) /\ u \notin DOMAIN rows
  /\ pc' = "idle"
  /\ ResetLocals
  /\ UNCHANGED <<server, rows, folder, history, changes>>

\* An IMAP or database error, a cancellation or a restart: what is not
\* committed is rolled back, sync_account goes on to the next folder.
FailPass ==
  /\ Change
  /\ pc # "idle"
  /\ pc' = "idle"
  /\ ResetLocals
  /\ UNCHANGED <<server, rows, folder, history>>

-----------------------------------------------------------------------------
PassStep == \/ ReadValidity \/ RecordValidity \/ ListUids \/ FetchHeaders
            \/ StoreBatch \/ LoadRows \/ FetchFlags \/ ApplyFlags
            \/ FinishPass \/ StaleRowFails

Next == \/ PassStep
        \/ FailPass
        \/ NewEpoch
        \/ \E seen \in BOOLEAN : Arrive(seen)
        \/ \E u \in Uids : \/ Expunge(u) \/ ToggleSeen(u) \/ DropRow(u)
                           \/ \E seen \in BOOLEAN : MarkRow(u, seen)

Spec == Init /\ [][Next]_vars

\* The supervisor requests every folder again at each refresh interval, and
\* IMAP calls time out, so a pass is always started and always advances.
FairSpec == Spec /\ WF_vars(PassStep)

-----------------------------------------------------------------------------
(* Properties.                                                             *)

Answers == PartialFunctions(Uids, [seen : BOOLEAN, epoch : Epochs])

TypeOK ==
  /\ epoch \in Epochs
  /\ mail \in PartialFunctions(Uids, BOOLEAN)
  /\ next_uid \in 1 .. MaxUid + 1
  /\ rows \in PartialFunctions(Uids, Row)
  /\ last_uidvalidity \in 0 .. MaxEpoch
  /\ last_seen_uid \in 0 .. MaxUid
  /\ history_complete \in BOOLEAN
  /\ pc \in PC
  /\ validity \in 0 .. MaxEpoch
  /\ remote_uids \in SUBSET Uids
  /\ batch \in SUBSET Uids
  /\ loaded \in PartialFunctions(Uids, BOOLEAN)
  /\ fetched \in Answers
  /\ after_uid \in 0 .. MaxUid
  /\ history \in SUBSET Uids
  /\ changes \in 0 .. MaxChanges

\* Whatever the order of deliveries, expunges, resets and failed passes,
\* last_seen_uid never moves past a message that is not cached: a message it
\* has passed would not be fetched again.
NoMailSkipped ==
  epoch = last_uidvalidity =>
    \A u \in DOMAIN mail : u <= last_seen_uid => u \in DOMAIN rows

\* A row never shows the header of one epoch under the uid of another one
\* that is still current, although SEARCH and FETCH select the mailbox again
\* without looking at its UIDVALIDITY.
NoForeignRows ==
  epoch = last_uidvalidity =>
    \A u \in DOMAIN rows : rows[u].source = epoch

\* Rows are cached in the epoch the folder records and never ahead of its
\* progress marker, so no uid is fetched into two rows.
RowsBehindMarker ==
  \A u \in DOMAIN rows : /\ rows[u].uidvalidity = last_uidvalidity
                         /\ u <= last_seen_uid

\* Mail that was there before the first pass of an epoch is never announced,
\* even when that pass fails half way and later ones resume it.
HistoryNotAnnounced ==
  \A u \in DOMAIN rows : rows[u].source = last_uidvalidity /\ u \in history
                           => ~rows[u].notification_eligible

\* A pass drops the row of a message of the current epoch only when the
\* message is gone from the server, never because it arrived or was listed
\* at an awkward moment.
DropsJustified ==
  [][\A u \in DOMAIN rows \ DOMAIN rows' :
       epoch = last_uidvalidity => u \notin DOMAIN mail]_vars

\* Once the mailbox is left alone the cache becomes and stays its mirror.
Mirrors ==
  /\ last_uidvalidity = epoch
  /\ DOMAIN rows = DOMAIN mail
  /\ \A u \in DOMAIN mail : rows[u].source = epoch /\ rows[u].is_seen = mail[u]
Converges == <>[]Mirrors
-----------------------------------------------------------------------------
(* What makes the safety properties inductive.                             *)

Current == epoch = last_uidvalidity
Listed == pc \in {"fetching", "storing", "walking", "flags", "applying"}

\* The epoch the folder records and the one a pass works in are never ahead
\* of the mailbox; behind it, they disagree only until the pass has compared.
EpochsOrdered ==
  /\ last_uidvalidity <= validity \/ pc = "idle"
  /\ validity <= epoch /\ last_uidvalidity <= epoch
  /\ pc # "idle" => validity \in Epochs
  /\ pc \notin {"idle", "selected"} => validity = last_uidvalidity
  /\ \A u \in DOMAIN rows : /\ last_uidvalidity <= rows[u].source
                            /\ rows[u].source <= epoch

\* UIDNEXT is ahead of all that is known of the current epoch.
UidsOrdered ==
  /\ \A u \in DOMAIN mail : u < next_uid
  /\ Current => /\ last_seen_uid < next_uid
                /\ \A u \in history : u < next_uid

\* While the epoch lasts, the UID snapshot misses only mail that is newer
\* than all of it.
SnapshotBounds ==
  Listed /\ epoch = validity =>
    /\ \A u \in remote_uids : u < next_uid
    /\ \A u \in DOMAIN mail \ remote_uids :
         /\ u \notin history
         /\ u > last_seen_uid
         /\ \A v \in remote_uids : v < u

\* A fetched batch is the next part of the snapshot, and its answer lacks
\* only messages that are gone.
BatchSound ==
  pc = "storing" =>
    /\ batch \in SUBSET NewUids
    /\ \E last \in batch : \A u \in NewUids : u \in batch <=> u <= last
    /\ \A u \in DOMAIN fetched :
         /\ u \in batch
         /\ validity <= fetched[u].epoch
         /\ fetched[u].epoch <= epoch
         /\ fetched[u].epoch = validity /\ history_complete => u \notin history
    /\ epoch = validity => batch \cap DOMAIN mail \in SUBSET DOMAIN fetched

\* So is the answer the walk compares its rows with.
WalkSound ==
  /\ pc \in {"walking", "flags", "applying"} => NewUids = {}
  /\ pc \in {"flags", "applying"} =>
       /\ \E last \in DOMAIN loaded : \A u \in DOMAIN loaded : u <= last
       /\ \A u \in DOMAIN loaded : u <= last_seen_uid
  /\ pc = "applying" /\ epoch = validity =>
       DOMAIN loaded \cap DOMAIN mail \in SUBSET DOMAIN fetched

\* A complete history is behind the progress marker.
HistoryBehind ==
  history_complete /\ Current =>
    \A u \in history \cap DOMAIN mail : u <= last_seen_uid

PassSound == /\ EpochsOrdered /\ UidsOrdered /\ SnapshotBounds
             /\ BatchSound /\ WalkSound /\ HistoryBehind
=============================================================================
