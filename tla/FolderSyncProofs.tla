--------------------------- MODULE FolderSyncProofs ---------------------------
(***************************************************************************)
(* The safety of _sync_folder for any number of uids, epochs and changes,  *)
(* and for any batch size: the passes keep TypeOK and PassSound, from      *)
(* which the properties of FolderSync follow.                              *)
(***************************************************************************)
EXTENDS FolderSync, TLAPS

\* TypeOK with its partial functions spelt out, the form the provers use.
TypedServer ==
  /\ epoch \in Epochs
  /\ DOMAIN mail \in SUBSET Uids /\ mail \in [DOMAIN mail -> BOOLEAN]
  /\ next_uid \in 1 .. MaxUid + 1

TypedCache ==
  /\ DOMAIN rows \in SUBSET Uids /\ rows \in [DOMAIN rows -> Row]
  /\ last_uidvalidity \in 0 .. MaxEpoch
  /\ last_seen_uid \in 0 .. MaxUid
  /\ history_complete \in BOOLEAN

TypedPass ==
  /\ pc \in PC
  /\ validity \in 0 .. MaxEpoch
  /\ remote_uids \in SUBSET Uids /\ batch \in SUBSET Uids
  /\ DOMAIN loaded \in SUBSET Uids /\ loaded \in [DOMAIN loaded -> BOOLEAN]
  /\ DOMAIN fetched \in SUBSET Uids
  /\ fetched \in [DOMAIN fetched -> [seen : BOOLEAN, epoch : Epochs]]
  /\ after_uid \in 0 .. MaxUid

TypedGhosts == history \in SUBSET Uids /\ changes \in 0 .. MaxChanges

Typed == TypedServer /\ TypedCache /\ TypedPass /\ TypedGhosts

\* The inductive invariant.
IInv == /\ Typed
        /\ RowsBehindMarker /\ NoMailSkipped /\ HistoryNotAnnounced
        /\ PassSound

USE BoundsAssumption
USE DEF PC, Uids, Epochs, Typed, TypedServer, TypedCache, TypedPass, TypedGhosts

-----------------------------------------------------------------------------
(* Partial functions, and the largest uid of a set.                        *)

\* A partial function is a function whose domain lies in the given set.
LEMMA PartialFunction ==
  ASSUME NEW S, NEW T, NEW f
  PROVE  f \in PartialFunctions(S, T)
           <=> DOMAIN f \in SUBSET S /\ f \in [DOMAIN f -> T]
BY DEF PartialFunctions

\* The empty function has no argument and any range.
LEMMA NoneType ==
  ASSUME NEW T
  PROVE  DOMAIN None = {} /\ None \in [DOMAIN None -> T]
BY DEF None

\* Newest is the largest uid wherever there is one.
LEMMA NewestIsLargest ==
  ASSUME NEW S, \E u \in S : \A v \in S : v <= u
  PROVE  Newest(S) \in S /\ \A v \in S : v <= Newest(S)
BY DEF Newest

\* Typed says what TypeOK says.
LEMMA TypedIsTypeOK == TypeOK <=> Typed
<1>1. /\ mail \in PartialFunctions(Uids, BOOLEAN)
           <=> DOMAIN mail \in SUBSET Uids /\ mail \in [DOMAIN mail -> BOOLEAN]
      /\ rows \in PartialFunctions(Uids, Row)
           <=> DOMAIN rows \in SUBSET Uids /\ rows \in [DOMAIN rows -> Row]
      /\ loaded \in PartialFunctions(Uids, BOOLEAN)
           <=> /\ DOMAIN loaded \in SUBSET Uids
               /\ loaded \in [DOMAIN loaded -> BOOLEAN]
  BY PartialFunction
<1>2. fetched \in Answers
        <=> /\ DOMAIN fetched \in SUBSET Uids
            /\ fetched \in [DOMAIN fetched -> [seen : BOOLEAN, epoch : Epochs]]
  BY PartialFunction DEF Answers
<1> QED BY <1>1, <1>2 DEF TypeOK

\* The server answers with uids it was asked for, in its present epoch.
LEMMA AnswerType ==
  ASSUME Typed, NEW S \in SUBSET Uids
  PROVE  /\ DOMAIN Answer(S) = S \cap DOMAIN mail
         /\ Answer(S) \in [S \cap DOMAIN mail ->
                            [seen : BOOLEAN, epoch : Epochs]]
         /\ \A u \in S \cap DOMAIN mail : Answer(S)[u].epoch = epoch
BY DEF Answer

-----------------------------------------------------------------------------
(* Initially nothing is cached.                                            *)

\* The first start: an empty cache and a mailbox of any size.
LEMMA InitInvariant == Init => IInv
<1> SUFFICES ASSUME Init PROVE IInv
  OBVIOUS
<1>1. PICK n \in 0 .. MaxUid : /\ mail = [u \in 1 .. n |-> FALSE]
                               /\ next_uid = n + 1
  BY DEF Init
<1>2. DOMAIN mail \in SUBSET Uids /\ mail \in [DOMAIN mail -> BOOLEAN]
  BY <1>1
<1>3. /\ DOMAIN rows = {} /\ rows \in [DOMAIN rows -> Row]
      /\ DOMAIN loaded = {} /\ loaded \in [DOMAIN loaded -> BOOLEAN]
      /\ DOMAIN fetched = {}
      /\ fetched \in [DOMAIN fetched -> [seen : BOOLEAN, epoch : Epochs]]
  BY NoneType DEF Init
<1>4. TypedServer /\ TypedGhosts
  BY <1>1, <1>2 DEF Init
<1>5. TypedCache
  <2>1. DOMAIN rows \in SUBSET Uids /\ rows \in [DOMAIN rows -> Row]
    BY <1>3
  <2>2. last_uidvalidity \in 0 .. MaxEpoch /\ last_seen_uid \in 0 .. MaxUid
    BY DEF Init
  <2>3. history_complete \in BOOLEAN
    BY DEF Init
  <2> QED BY <2>1, <2>2, <2>3, Zenon
<1>6. TypedPass
  BY <1>3 DEF Init
<1>7. Typed
  BY <1>4, <1>5, <1>6
<1> QED BY <1>1, <1>2, <1>3, <1>7
        DEF Init, IInv, RowsBehindMarker, NoMailSkipped, HistoryNotAnnounced,
            PassSound, EpochsOrdered, UidsOrdered, SnapshotBounds, Listed,
            BatchSound, WalkSound, HistoryBehind, Current

-----------------------------------------------------------------------------
(* The environment.                                                        *)

\* A delivery takes a uid above everything known of the epoch, so neither the
\* marker nor a snapshot, a batch or a walk under way has passed it.
LEMMA ArriveInvariant ==
  ASSUME IInv, NEW seen \in BOOLEAN, Arrive(seen) PROVE IInv'
<1> USE DEF IInv, PassSound, Arrive, folder, locals
<1>1. DOMAIN mail' = DOMAIN mail \cup {next_uid}
  OBVIOUS
<1>2. Typed'
  BY <1>1 DEF Change
<1>3. RowsBehindMarker' /\ HistoryNotAnnounced' /\ EpochsOrdered'
  BY DEF RowsBehindMarker, HistoryNotAnnounced, EpochsOrdered
<1>4. NoMailSkipped'
  BY <1>1 DEF NoMailSkipped, UidsOrdered, Current
<1>5. UidsOrdered'
  BY <1>1 DEF UidsOrdered, Current
<1>6. SnapshotBounds'
  BY <1>1 DEF SnapshotBounds, Listed, EpochsOrdered, UidsOrdered, Current
<1>7. BatchSound'
  <2>1. pc = "storing" /\ epoch = validity => next_uid \notin batch
    BY DEF BatchSound, NewUids, SnapshotBounds, Listed
  <2> QED BY <1>1, <2>1 DEF BatchSound, NewUids
<1>8. WalkSound'
  <2>1. pc = "applying" /\ epoch = validity => next_uid \notin DOMAIN loaded
    BY DEF WalkSound, EpochsOrdered, UidsOrdered, Current
  <2> QED BY <1>1, <2>1 DEF WalkSound, NewUids
<1>9. HistoryBehind'
  BY <1>1 DEF HistoryBehind, UidsOrdered, Current
<1> QED BY <1>2, <1>3, <1>4, <1>5, <1>6, <1>7, <1>8, <1>9

\* An expunge only weakens what is required of the mailbox's uids.
LEMMA ExpungeInvariant ==
  ASSUME IInv, NEW u \in Uids, Expunge(u) PROVE IInv'
<1> USE DEF IInv, PassSound, Expunge, folder, locals
<1>1. DOMAIN mail' = DOMAIN mail \ {u}
  OBVIOUS
<1>2. Typed'
  BY <1>1 DEF Change
<1>3. RowsBehindMarker' /\ HistoryNotAnnounced' /\ EpochsOrdered'
  BY DEF RowsBehindMarker, HistoryNotAnnounced, EpochsOrdered
<1>4. NoMailSkipped' /\ UidsOrdered' /\ HistoryBehind'
  BY <1>1 DEF NoMailSkipped, UidsOrdered, HistoryBehind, Current
<1>5. SnapshotBounds' /\ BatchSound' /\ WalkSound'
  BY <1>1 DEF SnapshotBounds, Listed, BatchSound, WalkSound, NewUids
<1> QED BY <1>2, <1>3, <1>4, <1>5

\* No conjunct looks at the flags of the mailbox.
LEMMA ToggleSeenInvariant ==
  ASSUME IInv, NEW u \in Uids, ToggleSeen(u) PROVE IInv'
<1> USE DEF IInv, PassSound, ToggleSeen, folder, locals
<1>1. DOMAIN mail' = DOMAIN mail
  OBVIOUS
<1>2. Typed'
  BY <1>1 DEF Change
<1>3. RowsBehindMarker' /\ HistoryNotAnnounced' /\ EpochsOrdered'
  BY DEF RowsBehindMarker, HistoryNotAnnounced, EpochsOrdered
<1>4. NoMailSkipped' /\ UidsOrdered' /\ HistoryBehind'
  BY <1>1 DEF NoMailSkipped, UidsOrdered, HistoryBehind, Current
<1>5. SnapshotBounds' /\ BatchSound' /\ WalkSound'
  BY <1>1 DEF SnapshotBounds, Listed, BatchSound, WalkSound, NewUids
<1> QED BY <1>2, <1>3, <1>4, <1>5

\* A recreated mailbox leaves every epoch that is recorded anywhere behind, so
\* nothing is required of it until the next pass has compared them.
LEMMA NewEpochInvariant == ASSUME IInv, NewEpoch PROVE IInv'
<1> USE DEF folder, locals
<1>1. /\ UNCHANGED <<rows, folder, pc, locals, history>>
      /\ epoch' = epoch + 1 /\ epoch' \in Epochs
      /\ changes' \in 0 .. MaxChanges
  BY DEF NewEpoch, Change, IInv
<1>2. PICK n \in 0 .. MaxUid : /\ mail' = [u \in 1 .. n |-> FALSE]
                               /\ next_uid' = n + 1
  BY DEF NewEpoch
<1>3. /\ \A u \in DOMAIN mail' : u < next_uid'
      /\ DOMAIN mail' \in SUBSET Uids /\ mail' \in [DOMAIN mail' -> BOOLEAN]
  BY <1>2
<1>4. epoch < epoch' /\ last_uidvalidity' # epoch' /\ validity' # epoch'
  BY <1>1 DEF IInv, PassSound, EpochsOrdered
<1>5. Typed'
  <2>1. TypedServer'
    BY <1>1, <1>2, <1>3
  <2>2. TypedCache'
    BY <1>1 DEF IInv
  <2>3. TypedPass'
    BY <1>1 DEF IInv
  <2> QED BY <1>1, <2>1, <2>2, <2>3 DEF IInv
<1>6. RowsBehindMarker' /\ HistoryNotAnnounced'
  BY <1>1 DEF IInv, RowsBehindMarker, HistoryNotAnnounced
<1>7. EpochsOrdered'
  <2>1. \A u \in DOMAIN rows : rows[u].source \in Epochs
    BY DEF IInv, Row
  <2> QED BY <1>1, <1>4, <2>1 DEF IInv, PassSound, EpochsOrdered
<1>8. ~Current'
  BY <1>4 DEF Current
<1>9. UidsOrdered' /\ HistoryBehind'
  BY <1>3, <1>8 DEF UidsOrdered, HistoryBehind
<1>10. NoMailSkipped' /\ SnapshotBounds'
  BY <1>4 DEF NoMailSkipped, SnapshotBounds
<1>11. BatchSound'
  <2>1. \A u \in DOMAIN fetched : fetched[u].epoch \in Epochs
    BY DEF IInv
  <2>2. NewUids' = NewUids
    BY <1>1 DEF NewUids
  <2> QED BY <1>1, <1>4, <2>1, <2>2 DEF IInv, PassSound, BatchSound
<1>12. WalkSound'
  BY <1>1, <1>4 DEF IInv, PassSound, WalkSound, NewUids
<1> QED BY <1>5, <1>6, <1>7, <1>9, <1>10, <1>11, <1>12 DEF IInv, PassSound

\* A handler drops only the row of a message that is gone.
LEMMA DropRowInvariant ==
  ASSUME IInv, NEW u \in Uids, DropRow(u) PROVE IInv'
<1> USE DEF IInv, PassSound, DropRow, folder, locals, server
<1>1. /\ DOMAIN rows' = DOMAIN rows \ {u}
      /\ \A v \in DOMAIN rows' : rows'[v] = rows[v]
  OBVIOUS
<1>2. Typed'
  BY <1>1 DEF Change
<1>3. RowsBehindMarker' /\ HistoryNotAnnounced' /\ EpochsOrdered'
  BY <1>1 DEF RowsBehindMarker, HistoryNotAnnounced, EpochsOrdered
<1>4. NoMailSkipped'
  BY <1>1 DEF NoMailSkipped
<1>5. UidsOrdered' /\ SnapshotBounds' /\ HistoryBehind'
  BY DEF UidsOrdered, SnapshotBounds, Listed, HistoryBehind, Current
<1>6. BatchSound' /\ WalkSound'
  BY DEF BatchSound, WalkSound, NewUids
<1> QED BY <1>2, <1>3, <1>4, <1>5, <1>6

\* A handler that stores a flag changes no other column of a row.
LEMMA MarkRowInvariant ==
  ASSUME IInv, NEW u \in Uids, NEW seen \in BOOLEAN, MarkRow(u, seen)
  PROVE  IInv'
<1> USE DEF IInv, PassSound, MarkRow, folder, locals, server
<1>1. /\ DOMAIN rows' = DOMAIN rows
      /\ \A v \in DOMAIN rows :
           /\ rows'[v].source = rows[v].source
           /\ rows'[v].uidvalidity = rows[v].uidvalidity
           /\ rows'[v].notification_eligible = rows[v].notification_eligible
  BY DEF Row
<1>2. Typed'
  BY <1>1 DEF Row, Change
<1>3. RowsBehindMarker' /\ HistoryNotAnnounced' /\ EpochsOrdered'
  BY <1>1 DEF RowsBehindMarker, HistoryNotAnnounced, EpochsOrdered
<1>4. NoMailSkipped'
  BY <1>1 DEF NoMailSkipped
<1>5. UidsOrdered' /\ SnapshotBounds' /\ HistoryBehind'
  BY DEF UidsOrdered, SnapshotBounds, Listed, HistoryBehind, Current
<1>6. BatchSound' /\ WalkSound'
  BY DEF BatchSound, WalkSound, NewUids
<1> QED BY <1>2, <1>3, <1>4, <1>5, <1>6

-----------------------------------------------------------------------------
(* The pass.                                                               *)

\* SELECT reads the newest epoch there has been.
LEMMA ReadValidityInvariant == ASSUME IInv, ReadValidity PROVE IInv'
<1> USE DEF IInv, PassSound, ReadValidity, folder, server
<1>1. Typed'
  OBVIOUS
<1>2. RowsBehindMarker' /\ NoMailSkipped' /\ HistoryNotAnnounced'
  BY DEF RowsBehindMarker, NoMailSkipped, HistoryNotAnnounced
<1>3. EpochsOrdered'
  BY DEF EpochsOrdered
<1>4. UidsOrdered' /\ HistoryBehind'
  BY DEF UidsOrdered, HistoryBehind, Current
<1>5. SnapshotBounds' /\ BatchSound' /\ WalkSound'
  BY DEF SnapshotBounds, Listed, BatchSound, WalkSound
<1> QED BY <1>1, <1>2, <1>3, <1>4, <1>5

\* A changed epoch empties the cache; an unchanged one changes nothing. With no
\* row left, every conjunct about rows holds of the epoch recorded now.
LEMMA RecordValidityInvariant == ASSUME IInv, RecordValidity PROVE IInv'
<1> USE DEF IInv, PassSound, RecordValidity, locals, server
<1>1. /\ pc = "selected" /\ pc' = "listing" /\ last_uidvalidity' = validity
      /\ validity \in Epochs /\ last_uidvalidity <= validity
      /\ validity <= epoch
  BY DEF EpochsOrdered
<1>2. CASE last_uidvalidity = validity
  <2>1. /\ last_uidvalidity' = last_uidvalidity
        /\ UNCHANGED <<rows, last_seen_uid, history_complete, history>>
    BY <1>2
  <2>2. Typed'
    BY <1>1, <2>1
  <2>3. RowsBehindMarker' /\ NoMailSkipped' /\ HistoryNotAnnounced'
    BY <2>1 DEF RowsBehindMarker, NoMailSkipped, HistoryNotAnnounced
  <2>4. EpochsOrdered' /\ UidsOrdered' /\ HistoryBehind'
    BY <1>1, <1>2, <2>1 DEF EpochsOrdered, UidsOrdered, HistoryBehind, Current
  <2>5. SnapshotBounds' /\ BatchSound' /\ WalkSound'
    BY <1>1 DEF SnapshotBounds, Listed, BatchSound, WalkSound
  <2> QED BY <2>2, <2>3, <2>4, <2>5
<1>3. CASE last_uidvalidity # validity
  <2>1. /\ DOMAIN rows' = {} /\ rows' \in [DOMAIN rows' -> Row]
        /\ last_seen_uid' = 0 /\ history_complete' = FALSE
    BY <1>3, NoneType DEF RowsAfterReset, SeenAfterReset
  <2>2. history' \in SUBSET DOMAIN mail
    BY <1>3
  <2>3. Typed'
    <3>1. history' \in SUBSET Uids
      BY <2>2
    <3>2. TypedServer' /\ TypedPass' /\ TypedGhosts'
      BY <1>1, <3>1
    <3>3. TypedCache'
      <4>1. DOMAIN rows' \in SUBSET Uids /\ rows' \in [DOMAIN rows' -> Row]
        BY <2>1
      <4>2. last_uidvalidity' \in 0 .. MaxEpoch
        BY <1>1
      <4>3. last_seen_uid' \in 0 .. MaxUid
        BY <2>1
      <4>4. history_complete' \in BOOLEAN
        BY <2>1
      <4> QED BY <4>1, <4>2, <4>3, <4>4, Zenon
    <3> QED BY <3>2, <3>3
  <2>4. RowsBehindMarker' /\ HistoryNotAnnounced'
    BY <2>1 DEF RowsBehindMarker, HistoryNotAnnounced
  <2>5. NoMailSkipped'
    BY <2>1 DEF NoMailSkipped
  <2>6. EpochsOrdered'
    BY <1>1, <2>1 DEF EpochsOrdered
  <2>7. UidsOrdered' /\ HistoryBehind'
    BY <2>1, <2>2 DEF UidsOrdered, HistoryBehind, Current
  <2>8. SnapshotBounds' /\ BatchSound' /\ WalkSound'
    BY <1>1 DEF SnapshotBounds, Listed, BatchSound, WalkSound
  <2> QED BY <2>3, <2>4, <2>5, <2>6, <2>7, <2>8
<1> QED BY <1>2, <1>3

\* SEARCH lists all of the mailbox.
LEMMA ListUidsInvariant == ASSUME IInv, ListUids PROVE IInv'
<1> USE DEF IInv, PassSound, ListUids, folder, server
<1>1. Typed'
  OBVIOUS
<1>2. RowsBehindMarker' /\ NoMailSkipped' /\ HistoryNotAnnounced'
  BY DEF RowsBehindMarker, NoMailSkipped, HistoryNotAnnounced
<1>3. EpochsOrdered' /\ UidsOrdered' /\ HistoryBehind'
  BY DEF EpochsOrdered, UidsOrdered, HistoryBehind, Current
<1>4. SnapshotBounds'
  BY DEF SnapshotBounds, Listed, UidsOrdered
<1>5. BatchSound' /\ WalkSound'
  BY DEF BatchSound, WalkSound
<1> QED BY <1>1, <1>2, <1>3, <1>4, <1>5

\* A batch is the part of the new uids up to some uid, and the answer lacks only
\* those of its messages that are gone.
LEMMA FetchHeadersInvariant == ASSUME IInv, FetchHeaders PROVE IInv'
<1> USE DEF IInv, PassSound, FetchHeaders, folder, server
<1>1. PICK last \in NewUids : batch' = {u \in NewUids : u <= last}
  OBVIOUS
<1>2. NewUids' = NewUids /\ NewUids \in SUBSET Uids
  BY DEF NewUids
<1>3. batch' \in SUBSET NewUids /\ last \in batch' /\ batch' \in SUBSET Uids
  BY <1>1, <1>2
<1>4. /\ DOMAIN fetched' = batch' \cap DOMAIN mail
      /\ fetched' \in [batch' \cap DOMAIN mail ->
                         [seen : BOOLEAN, epoch : Epochs]]
      /\ \A u \in DOMAIN fetched' : fetched'[u].epoch = epoch
  <2>1. /\ DOMAIN Answer(batch') = batch' \cap DOMAIN mail
        /\ Answer(batch') \in [batch' \cap DOMAIN mail ->
                                 [seen : BOOLEAN, epoch : Epochs]]
        /\ \A u \in batch' \cap DOMAIN mail : Answer(batch')[u].epoch = epoch
    BY <1>3, AnswerType
  <2>2. fetched' = Answer(batch')
    OBVIOUS
  <2> QED BY <2>1, <2>2, Zenon
<1>5. Typed'
  BY <1>3, <1>4
<1>6. RowsBehindMarker' /\ NoMailSkipped' /\ HistoryNotAnnounced'
  BY DEF RowsBehindMarker, NoMailSkipped, HistoryNotAnnounced
<1>7. EpochsOrdered' /\ UidsOrdered' /\ HistoryBehind'
  BY DEF EpochsOrdered, UidsOrdered, HistoryBehind, Current
<1>8. SnapshotBounds'
  BY DEF SnapshotBounds, Listed
<1>9. BatchSound'
  <2>1. \A u \in NewUids' : u \in batch' <=> u <= last
    BY <1>1, <1>2
  <2>2. \A u \in DOMAIN fetched' :
          /\ u \in batch' /\ fetched'[u].epoch = epoch /\ validity <= epoch
          /\ epoch = validity /\ history_complete => u \notin history
    BY <1>2, <1>3, <1>4 DEF EpochsOrdered, HistoryBehind, Current, NewUids
  <2>3. batch' \cap DOMAIN mail' \in SUBSET DOMAIN fetched'
    BY <1>4
  <2> QED BY <1>2, <1>3, <2>1, <2>2, <2>3 DEF BatchSound
<1>10. WalkSound'
  BY DEF WalkSound
<1> QED BY <1>5, <1>6, <1>7, <1>8, <1>9, <1>10

\* The marker moves to the end of the batch. A message of the current epoch up
\* to there was behind the old marker, or is in the batch and its answer: the
\* snapshot misses nothing below its own uids.
LEMMA StoreBatchInvariant == ASSUME IInv, StoreBatch PROVE IInv'
<1> USE DEF IInv, PassSound, StoreBatch, server
<1>1. /\ pc = "storing" /\ pc' = "fetching" /\ validity = last_uidvalidity
      /\ validity \in Epochs
  BY DEF EpochsOrdered
<1>2. /\ batch \in SUBSET NewUids /\ BatchEnd \in batch
      /\ \A u \in batch : u <= BatchEnd
      /\ \A u \in NewUids : u <= BatchEnd => u \in batch
  <2>1. PICK last \in batch : \A u \in NewUids : u \in batch <=> u <= last
    BY <1>1 DEF BatchSound
  <2>2. batch \in SUBSET NewUids /\ NewUids \in SUBSET Uids
    BY <1>1 DEF BatchSound, NewUids
  <2>3. \E u \in batch : \A v \in batch : v <= u
    BY <2>1, <2>2
  <2>4. BatchEnd \in batch /\ \A u \in batch : u <= BatchEnd
    BY <2>3, NewestIsLargest DEF BatchEnd
  <2> QED BY <2>1, <2>2, <2>4
<1>3. last_seen_uid < BatchEnd /\ BatchEnd \in remote_uids /\ BatchEnd \in Uids
  BY <1>2 DEF NewUids
<1>4. /\ last_seen_uid' = BatchEnd /\ DOMAIN fetched \in SUBSET batch
      /\ DOMAIN rows' = DOMAIN rows \cup DOMAIN fetched
      /\ \A u \in DOMAIN rows : rows'[u] = rows[u]
      /\ \A u \in DOMAIN fetched \ DOMAIN rows : rows'[u] = NewRow(fetched[u])
  BY <1>1 DEF BatchSound
<1>5. \A u \in DOMAIN rows : /\ rows[u].uidvalidity = last_uidvalidity
                             /\ u <= last_seen_uid
  BY DEF RowsBehindMarker
<1>6. \A u \in DOMAIN fetched : NewRow(fetched[u]) \in Row
  BY <1>1 DEF NewRow, Row
<1>7. Typed'
  <2>1. DOMAIN rows' \in SUBSET Uids /\ rows' \in [DOMAIN rows' -> Row]
    BY <1>4, <1>6
  <2>2. TypedCache'
    BY <1>3, <1>4, <2>1
  <2>3. DOMAIN fetched' = {}
        /\ fetched' \in [DOMAIN fetched' -> [seen : BOOLEAN, epoch : Epochs]]
    BY NoneType
  <2>4. TypedPass'
    BY <1>1, <2>3
  <2> QED BY <2>2, <2>4
<1>8. RowsBehindMarker'
  <2> SUFFICES ASSUME NEW u \in DOMAIN rows'
               PROVE  /\ rows'[u].uidvalidity = last_uidvalidity
                      /\ u <= BatchEnd
    BY <1>4 DEF RowsBehindMarker
  <2>1. CASE u \in DOMAIN rows
    BY <1>3, <1>4, <1>5, <2>1
  <2>2. CASE u \in DOMAIN fetched \ DOMAIN rows
    BY <1>1, <1>2, <1>4, <2>2 DEF NewRow
  <2> QED BY <1>4, <2>1, <2>2
<1>9. NoMailSkipped'
  <2> SUFFICES ASSUME epoch = last_uidvalidity,
                      NEW u \in DOMAIN mail, u <= BatchEnd
               PROVE  u \in DOMAIN rows \cup DOMAIN fetched
    BY <1>4 DEF NoMailSkipped
  <2>1. CASE u <= last_seen_uid
    BY <2>1 DEF NoMailSkipped
  <2>2. CASE last_seen_uid < u
    <3>1. u \in remote_uids
      BY <1>1, <1>3 DEF SnapshotBounds, Listed
    <3>2. u \in batch
      BY <1>2, <2>2, <3>1 DEF NewUids
    <3> QED BY <1>1, <3>2 DEF BatchSound
  <2> QED BY <2>1, <2>2
<1>10. HistoryNotAnnounced'
  <2> SUFFICES ASSUME NEW u \in DOMAIN rows', u \in history,
                      rows'[u].source = last_uidvalidity
               PROVE  ~rows'[u].notification_eligible
    BY DEF HistoryNotAnnounced
  <2>1. CASE u \in DOMAIN rows
    BY <1>4, <2>1 DEF HistoryNotAnnounced
  <2>2. CASE u \in DOMAIN fetched \ DOMAIN rows
    <3>1. /\ rows'[u].notification_eligible = history_complete
          /\ fetched[u].epoch = validity
      BY <1>1, <1>4, <2>2 DEF NewRow
    <3>2. ~history_complete
      BY <1>1, <2>2, <3>1 DEF BatchSound
    <3> QED BY <3>1, <3>2
  <2> QED BY <1>4, <2>1, <2>2
<1>11. EpochsOrdered'
  <2>1. \A u \in DOMAIN rows' : /\ last_uidvalidity <= rows'[u].source
                                /\ rows'[u].source <= epoch
    BY <1>1, <1>4 DEF EpochsOrdered, BatchSound, NewRow
  <2> QED BY <1>1, <2>1 DEF EpochsOrdered
<1>12. UidsOrdered'
  BY <1>1, <1>3, <1>4
     DEF UidsOrdered, Current, SnapshotBounds, Listed
<1>13. SnapshotBounds'
  BY <1>1, <1>3, <1>4 DEF SnapshotBounds, Listed
<1>14. BatchSound' /\ WalkSound'
  BY <1>1 DEF BatchSound, WalkSound
<1>15. HistoryBehind'
  BY <1>1, <1>3, <1>4 DEF HistoryBehind, Current
<1> QED BY <1>7, <1>8, <1>9, <1>10, <1>11, <1>12, <1>13, <1>14, <1>15

\* The walk starts when nothing of the snapshot is new.
LEMMA WalkingMeans ==
  ASSUME IInv, Walking
  PROVE  /\ NewUids = {} /\ Listed
         /\ validity \in Epochs /\ validity = last_uidvalidity
BY DEF IInv, PassSound, Walking, WalkSound, Listed, EpochsOrdered

\* Rows are behind the marker, so the walk reads only such rows.
LEMMA LoadRowsInvariant == ASSUME IInv, LoadRows PROVE IInv'
<1> USE DEF IInv, PassSound, LoadRows, folder, server
<1>1. PICK last \in Unwalked :
        loaded' = [u \in {v \in Unwalked : v <= last} |-> rows[u].is_seen]
  OBVIOUS
<1>2. /\ DOMAIN loaded' \in SUBSET DOMAIN rows
      /\ last \in DOMAIN loaded' /\ \A u \in DOMAIN loaded' : u <= last
  <2>1. Unwalked \in SUBSET DOMAIN rows /\ Unwalked \in SUBSET Uids
    BY DEF Unwalked
  <2>2. DOMAIN loaded' = {v \in Unwalked : v <= last}
    BY <1>1
  <2>3. last \in Unwalked /\ last <= last
    BY <1>1, <2>1
  <2> QED BY <2>1, <2>2, <2>3
<1>3. Typed'
  <2>1. \A u \in DOMAIN rows : rows[u].is_seen \in BOOLEAN
    BY DEF Row
  <2>2. /\ DOMAIN loaded' \in SUBSET Uids
        /\ loaded' \in [DOMAIN loaded' -> BOOLEAN]
    BY <1>1, <1>2, <2>1 DEF Unwalked
  <2> QED BY <2>2
<1>4. RowsBehindMarker' /\ NoMailSkipped' /\ HistoryNotAnnounced'
  BY DEF RowsBehindMarker, NoMailSkipped, HistoryNotAnnounced
<1>5. EpochsOrdered' /\ UidsOrdered' /\ HistoryBehind'
  BY WalkingMeans DEF EpochsOrdered, UidsOrdered, HistoryBehind, Current
<1>6. SnapshotBounds' /\ BatchSound'
  BY WalkingMeans DEF SnapshotBounds, Listed, BatchSound
<1>7. WalkSound'
  <2>1. NewUids' = {}
    BY WalkingMeans DEF NewUids
  <2>2. \A u \in DOMAIN loaded' : u <= last_seen_uid
    BY <1>2 DEF RowsBehindMarker
  <2> QED BY <1>2, <2>1, <2>2 DEF WalkSound
<1> QED BY <1>3, <1>4, <1>5, <1>6, <1>7

\* The answer to FETCH FLAGS lacks no row whose message is there: such a message
\* is behind the marker, so the snapshot has it.
LEMMA FetchFlagsInvariant == ASSUME IInv, FetchFlags PROVE IInv'
<1> USE DEF IInv, PassSound, FetchFlags, folder, server
<1> DEFINE asked == DOMAIN loaded \cap remote_uids
<1>1. /\ DOMAIN fetched' = asked \cap DOMAIN mail
      /\ fetched' \in [DOMAIN fetched' -> [seen : BOOLEAN, epoch : Epochs]]
  BY AnswerType
<1>2. Typed'
  BY <1>1
<1>3. RowsBehindMarker' /\ NoMailSkipped' /\ HistoryNotAnnounced'
  BY DEF RowsBehindMarker, NoMailSkipped, HistoryNotAnnounced
<1>4. EpochsOrdered' /\ UidsOrdered' /\ HistoryBehind'
  BY DEF EpochsOrdered, UidsOrdered, HistoryBehind, Current
<1>5. SnapshotBounds' /\ BatchSound'
  BY DEF SnapshotBounds, Listed, BatchSound
<1>6. WalkSound'
  <2>1. epoch = validity => DOMAIN loaded \cap DOMAIN mail \in SUBSET asked
    BY DEF WalkSound, SnapshotBounds, Listed
  <2> QED BY <1>1, <2>1 DEF WalkSound, NewUids
<1> QED BY <1>2, <1>3, <1>4, <1>5, <1>6

\* Rows that vanished have no message of the current epoch; the others keep all
\* but the flag.
LEMMA ApplyFlagsInvariant == ASSUME IInv, ApplyFlags PROVE IInv'
<1> USE DEF IInv, PassSound, ApplyFlags, folder, server
<1>1. /\ DOMAIN rows' = DOMAIN rows \ Vanished
      /\ \A u \in DOMAIN rows' :
           /\ rows'[u] \in Row
           /\ rows'[u].source = rows[u].source
           /\ rows'[u].uidvalidity = rows[u].uidvalidity
           /\ rows'[u].notification_eligible = rows[u].notification_eligible
  BY DEF Row, Differs
<1>2. epoch = last_uidvalidity => Vanished \cap DOMAIN mail = {}
  BY DEF WalkSound, EpochsOrdered, Vanished
<1>3. Newest(DOMAIN loaded) \in DOMAIN loaded
  BY NewestIsLargest DEF WalkSound
<1>4. Typed'
  <2>1. DOMAIN rows' \in SUBSET Uids /\ rows' \in [DOMAIN rows' -> Row]
    BY <1>1
  <2>2. TypedCache'
    BY <2>1
  <2>3. /\ DOMAIN loaded' = {} /\ loaded' \in [DOMAIN loaded' -> BOOLEAN]
        /\ DOMAIN fetched' = {}
        /\ fetched' \in [DOMAIN fetched' -> [seen : BOOLEAN, epoch : Epochs]]
    BY NoneType
  <2>4. TypedPass'
    BY <1>3, <2>3
  <2> QED BY <2>2, <2>4
<1>5. RowsBehindMarker' /\ HistoryNotAnnounced' /\ EpochsOrdered'
  BY <1>1 DEF RowsBehindMarker, HistoryNotAnnounced, EpochsOrdered
<1>6. NoMailSkipped'
  BY <1>1, <1>2 DEF NoMailSkipped
<1>7. UidsOrdered' /\ HistoryBehind'
  BY DEF UidsOrdered, HistoryBehind, Current
<1>8. SnapshotBounds' /\ BatchSound' /\ WalkSound'
  BY DEF SnapshotBounds, Listed, BatchSound, WalkSound, NewUids
<1> QED BY <1>4, <1>5, <1>6, <1>7, <1>8

\* Where a pass is over, nothing is required of its locals.
LEMMA PassOver ==
  ASSUME IInv, pc' = "idle", ResetLocals, UNCHANGED <<server, rows, history>>,
         UNCHANGED <<last_uidvalidity, last_seen_uid>>,
         history_complete' \in BOOLEAN, HistoryBehind',
         history_complete' # history_complete => Walking,
         changes' \in 0 .. MaxChanges
  PROVE  IInv'
<1> USE DEF IInv, PassSound, ResetLocals, server
<1>1. Typed'
  <2>1. /\ DOMAIN loaded' = {} /\ loaded' \in [DOMAIN loaded' -> BOOLEAN]
        /\ DOMAIN fetched' = {}
        /\ fetched' \in [DOMAIN fetched' -> [seen : BOOLEAN, epoch : Epochs]]
    BY NoneType
  <2>2. TypedPass'
    BY <2>1
  <2>3. TypedServer' /\ TypedGhosts'
    OBVIOUS
  <2>4. TypedCache'
    OBVIOUS
  <2> QED BY <2>2, <2>3, <2>4
<1>2. RowsBehindMarker' /\ NoMailSkipped' /\ HistoryNotAnnounced'
  BY DEF RowsBehindMarker, NoMailSkipped, HistoryNotAnnounced
<1>3. EpochsOrdered' /\ UidsOrdered'
  BY DEF EpochsOrdered, UidsOrdered, Current
<1>4. SnapshotBounds' /\ BatchSound' /\ WalkSound'
  BY DEF SnapshotBounds, Listed, BatchSound, WalkSound
<1> QED BY <1>1, <1>2, <1>3, <1>4

\* A pass that ends has fetched all history that is still there.
LEMMA FinishPassInvariant == ASSUME IInv, FinishPass PROVE IInv'
<1> USE DEF FinishPass, server
<1>1. HistoryBehind'
  <2>1. /\ NewUids = {} /\ Listed
        /\ validity \in Epochs /\ validity = last_uidvalidity
    BY WalkingMeans
  <2>2. epoch = validity =>
          \A u \in history \cap DOMAIN mail : u <= last_seen_uid
    BY <2>1 DEF IInv, PassSound, SnapshotBounds, NewUids
  <2> QED BY <2>1, <2>2 DEF HistoryBehind, Current
<1>2. changes' \in 0 .. MaxChanges
  BY DEF IInv
<1> QED BY <1>1, <1>2, PassOver

\* A pass that fails, for whatever reason, leaves what it has committed.
LEMMA FailureInvariant == ASSUME IInv, StaleRowFails \/ FailPass PROVE IInv'
<1>1. /\ pc' = "idle" /\ ResetLocals
      /\ UNCHANGED <<server, rows, folder, history>>
  BY DEF StaleRowFails, FailPass
<1>2. changes' \in 0 .. MaxChanges
  BY DEF StaleRowFails, FailPass, Change, IInv
<1>3. HistoryBehind'
  BY <1>1 DEF IInv, PassSound, HistoryBehind, Current, server, folder
<1>4. history_complete' \in BOOLEAN /\ history_complete' = history_complete
  BY <1>1 DEF IInv, folder
<1> QED BY <1>1, <1>2, <1>3, <1>4, PassOver DEF folder

-----------------------------------------------------------------------------
(* The theorems.                                                           *)

\* A step that changes nothing keeps the invariant.
LEMMA StutterInvariant == ASSUME IInv, UNCHANGED vars PROVE IInv'
<1> USE DEF IInv, PassSound, vars, server, folder, locals
<1>1. Typed'
  OBVIOUS
<1>2. RowsBehindMarker' /\ NoMailSkipped' /\ HistoryNotAnnounced'
  BY DEF RowsBehindMarker, NoMailSkipped, HistoryNotAnnounced
<1>3. EpochsOrdered' /\ UidsOrdered' /\ HistoryBehind'
  BY DEF EpochsOrdered, UidsOrdered, HistoryBehind, Current
<1>4. SnapshotBounds' /\ BatchSound' /\ WalkSound'
  BY DEF SnapshotBounds, Listed, BatchSound, WalkSound, NewUids
<1> QED BY <1>1, <1>2, <1>3, <1>4

\* Every step of the system keeps the invariant.
LEMMA NextInvariant == IInv /\ [Next]_vars => IInv'
<1> SUFFICES ASSUME IInv, [Next]_vars PROVE IInv'
  OBVIOUS
<1>1. CASE PassStep
  BY <1>1, ReadValidityInvariant, RecordValidityInvariant, ListUidsInvariant,
     FetchHeadersInvariant, StoreBatchInvariant, LoadRowsInvariant,
     FetchFlagsInvariant, ApplyFlagsInvariant, FinishPassInvariant,
     FailureInvariant DEF PassStep
<1>2. CASE FailPass
  BY <1>2, FailureInvariant
<1>3. CASE NewEpoch
  BY <1>3, NewEpochInvariant
<1>4. ASSUME NEW seen \in BOOLEAN, Arrive(seen) PROVE IInv'
  BY <1>4, ArriveInvariant
<1>5. ASSUME NEW u \in Uids, Expunge(u) PROVE IInv'
  BY <1>5, ExpungeInvariant
<1>6. ASSUME NEW u \in Uids, ToggleSeen(u) PROVE IInv'
  BY <1>6, ToggleSeenInvariant
<1>7. ASSUME NEW u \in Uids, DropRow(u) PROVE IInv'
  BY <1>7, DropRowInvariant
<1>8. ASSUME NEW u \in Uids, NEW seen \in BOOLEAN, MarkRow(u, seen) PROVE IInv'
  BY <1>8, MarkRowInvariant
<1>9. CASE UNCHANGED vars
  BY <1>9, StutterInvariant
<1> QED BY <1>1, <1>2, <1>3, <1>4, <1>5, <1>6, <1>7, <1>8, <1>9 DEF Next

\* The inductive invariant holds of every execution: InitInvariant and
\* NextInvariant put together.
THEOREM Invariance == Spec => []IInv
BY InitInvariant, NextInvariant, PTL DEF Spec

\* Every variable keeps its type, for any bounds.
THEOREM TypeCorrect == Spec => []TypeOK
<1>1. IInv => TypeOK
  BY TypedIsTypeOK DEF IInv
<1> QED BY <1>1, Invariance, PTL

\* last_seen_uid, which decides what _sync_folder fetches, never passes a
\* message of the mailbox that is not cached.
THEOREM NoMailIsSkipped == Spec => []NoMailSkipped
<1>1. IInv => NoMailSkipped
  BY DEF IInv
<1> QED BY <1>1, Invariance, PTL

\* Rows are never cached ahead of the marker or outside the folder's epoch, so
\* the unique constraint of messages is never at risk.
THEOREM RowsStayBehindMarker == Spec => []RowsBehindMarker
<1>1. IInv => RowsBehindMarker
  BY DEF IInv
<1> QED BY <1>1, Invariance, PTL

\* In the current epoch no row shows a header of another one, although SEARCH
\* and FETCH do not look at the UIDVALIDITY they run under.
THEOREM RowsAreOfTheirEpoch == Spec => []NoForeignRows
<1>1. IInv => NoForeignRows
  <2> SUFFICES ASSUME IInv, epoch = last_uidvalidity, NEW u \in DOMAIN rows
               PROVE  rows[u].source = epoch
    BY DEF NoForeignRows
  <2>1. /\ rows[u].source \in Epochs /\ epoch \in Epochs
        /\ epoch <= rows[u].source /\ rows[u].source <= epoch
    BY DEF IInv, PassSound, EpochsOrdered, Row
  <2> QED BY <2>1
<1> QED BY <1>1, Invariance, PTL

\* Mail from before an epoch's first pass is never marked for announcement,
\* however often the pass is broken off and resumed.
THEOREM HistoryIsNotAnnounced == Spec => []HistoryNotAnnounced
<1>1. IInv => HistoryNotAnnounced
  BY DEF IInv
<1> QED BY <1>1, Invariance, PTL

\* Of the current epoch no step drops the row of a message that is there: of the
\* steps that drop rows, a reset leaves the epoch, a handler drops what it has
\* expunged, and the walk what the server has not answered.
THEOREM DropsAreJustified == Spec => DropsJustified
<1>1. IInv /\ [Next]_vars =>
        [\A u \in DOMAIN rows \ DOMAIN rows' :
           epoch = last_uidvalidity => u \notin DOMAIN mail]_vars
  <2> SUFFICES ASSUME IInv, Next, epoch = last_uidvalidity,
                      NEW u \in DOMAIN rows \ DOMAIN rows'
               PROVE  u \notin DOMAIN mail
    OBVIOUS
  <2>1. CASE RecordValidity
    <3>1. last_uidvalidity <= validity /\ validity <= epoch
      BY <2>1 DEF RecordValidity, IInv, PassSound, EpochsOrdered
    <3>2. UNCHANGED rows
      BY <2>1, <3>1 DEF RecordValidity, IInv
    <3> QED BY <3>2
  <2>2. CASE StoreBatch
    BY <2>2 DEF StoreBatch
  <2>3. CASE ApplyFlags
    <3>1. u \in Vanished /\ validity = last_uidvalidity
      BY <2>3 DEF ApplyFlags, IInv, PassSound, EpochsOrdered
    <3> QED BY <2>3, <3>1 DEF ApplyFlags, Vanished, IInv, PassSound, WalkSound
  <2>4. ASSUME NEW v \in Uids, DropRow(v) PROVE u \notin DOMAIN mail
    BY <2>4 DEF DropRow
  <2>5. ASSUME NEW v \in Uids, NEW seen \in BOOLEAN, MarkRow(v, seen)
        PROVE  u \notin DOMAIN mail
    BY <2>5 DEF MarkRow
  <2>6. CASE UNCHANGED rows
    BY <2>6
  <2>7. \/ RecordValidity \/ StoreBatch \/ ApplyFlags
        \/ \E v \in Uids : DropRow(v) \/ \E seen \in BOOLEAN : MarkRow(v, seen)
        \/ UNCHANGED rows
    BY DEF Next, PassStep, ReadValidity, ListUids, FetchHeaders, LoadRows,
           FetchFlags, FinishPass, StaleRowFails, FailPass, NewEpoch, Arrive,
           Expunge, ToggleSeen
  <2> QED BY <2>1, <2>2, <2>3, <2>4, <2>5, <2>6, <2>7
<1> QED BY <1>1, Invariance, PTL DEF Spec, DropsJustified
=============================================================================
