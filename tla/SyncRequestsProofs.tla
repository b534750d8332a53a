------------------------- MODULE SyncRequestsProofs -------------------------
(***************************************************************************)
(* Proofs about SyncRequests for any number of accounts, folders and       *)
(* drain tasks and any max_concurrent_syncs.                               *)
(***************************************************************************)
EXTENDS SyncRequests, FiniteSetTheorems, TLAPS

\* The inductive invariant: the typing, who supervises a drain, and that the
\* lock and the semaphore agree with where each task is.
IInv == TypeOK /\ Supervision /\ PassesSerialized /\ PermitsConserved

USE DEF PC

-----------------------------------------------------------------------------
\* Merging scopes yields a scope of the same type.
LEMMA MergeType ==
  ASSUME NEW p \in {NoRequest} \cup Request,
         NEW f \in FolderScope, NEW d \in BOOLEAN
  PROVE  Merge(p, f, d) \in Request
BY DEF Merge, Request, FolderScope

\* The server starts with no drain, no request and every permit free.
LEMMA InitInvariant == Init => IInv
<1> SUFFICES ASSUME Init PROVE IInv
  OBVIOUS
<1> USE ConstantsAssumption DEF Init
<1>1. TypeOK
  BY DEF TypeOK
<1>2. Supervision /\ PassesSerialized
  BY DEF Supervision, PassesSerialized, Live, HoldsLock, HoldsPermit
<1>3. PermitHolders = {}
  BY DEF PermitHolders, HoldsPermit
<1>4. PermitsConserved
  BY <1>3, FS_EmptySet DEF PermitsConserved
<1> QED BY <1>1, <1>2, <1>4 DEF IInv

\* The semaphore's bookkeeping when the set of holders does not change.
LEMMA SameHolders ==
  ASSUME PermitsConserved, PermitHolders' = PermitHolders,
         permits' = permits
  PROVE  PermitsConserved'
BY DEF PermitsConserved

\* A task that enters the pass proper takes exactly one permit out.
LEMMA PermitTaken ==
  ASSUME TypeOK, PermitsConserved, NEW t \in Tasks, ~HoldsPermit(t),
         PermitHolders' = PermitHolders \cup {t},
         permits > 0, permits' = permits - 1
  PROVE  PermitsConserved' /\ permits' \in 0 .. MaxConcurrent
<1>1. IsFiniteSet(PermitHolders)
  BY ConstantsAssumption, FS_Subset DEF PermitHolders
<1>2. t \notin PermitHolders
  BY DEF PermitHolders
<1>3. /\ Cardinality(PermitHolders) \in Nat
      /\ Cardinality(PermitHolders') = Cardinality(PermitHolders) + 1
  BY <1>1, <1>2, FS_CardinalityType, FS_AddElement
<1> QED BY <1>3, ConstantsAssumption DEF PermitsConserved, TypeOK

\* A task that leaves the pass proper puts exactly one permit back.
LEMMA PermitFreed ==
  ASSUME TypeOK, PermitsConserved, NEW t \in Tasks, HoldsPermit(t),
         PermitHolders' = PermitHolders \ {t}, permits' = permits + 1
  PROVE  PermitsConserved' /\ permits' \in 0 .. MaxConcurrent
<1>1. IsFiniteSet(PermitHolders) /\ t \in PermitHolders
  BY ConstantsAssumption, FS_Subset DEF PermitHolders
<1>2. IsFiniteSet(PermitHolders')
  BY <1>1, FS_RemoveElement
<1>3. /\ Cardinality(PermitHolders) \in Nat
      /\ Cardinality(PermitHolders') \in Nat
      /\ Cardinality(PermitHolders') = Cardinality(PermitHolders) - 1
  BY <1>1, <1>2, FS_CardinalityType, FS_RemoveElement
<1> QED BY <1>3, ConstantsAssumption DEF PermitsConserved, TypeOK

-----------------------------------------------------------------------------
(* Steps that only move one task along, or touch nothing a drain holds.    *)

\* request_sync keeps the invariant: a new drain is registered with its
\* request, and an existing one has still to look at pending.
LEMMA RequestSyncInvariant ==
  ASSUME IInv, NEW a \in Accounts, NEW f \in FolderScope, NEW d \in BOOLEAN,
         RequestSync(a, f, d)
  PROVE  IInv'
<1> USE ConstantsAssumption, NoneAssumption
    DEF RequestSync, IInv, Live, HoldsLock, HoldsPermit, queueVars, syncVars
<1>1. Merge(pending[a], f, d) \in Request
  BY MergeType DEF TypeOK
<1>2. /\ pending_activity' \in [Accounts -> ActivityIds \cup {NoActivity}]
      /\ activities' \in SUBSET ActivityIds
  <2>1. CASE pending_activity[a] # NoActivity
    BY <2>1 DEF TypeOK, QueueActivity
  <2>2. CASE pending_activity[a] = NoActivity
    <3>1. \E id \in ActivityIds : id \notin activities
      <4>1. activities \subseteq ActivityIds /\ activities # ActivityIds
        BY <2>2 DEF TypeOK, QueueActivity
      <4> QED BY <4>1
    <3>2. FreshActivity \in ActivityIds
      BY <3>1 DEF FreshActivity
    <3> QED BY <2>2, <3>2 DEF TypeOK, QueueActivity
  <2> QED BY <2>1, <2>2
<1>3. CASE running[a] # NoTask
  <2>1. TypeOK'
    BY <1>1, <1>2, <1>3 DEF EnsureDrain, TypeOK
  <2>2. Supervision'
    BY <1>3 DEF EnsureDrain, TypeOK, Supervision
  <2>3. PassesSerialized'
    BY <1>3 DEF EnsureDrain, PassesSerialized
  <2>4. PermitsConserved'
    BY <1>3, SameHolders DEF EnsureDrain, PermitHolders
  <2> QED BY <2>1, <2>2, <2>3, <2>4
<1>4. CASE running[a] = NoTask
  <2>1. PICK t \in Tasks :
          /\ pc[t] = "free"
          /\ running' = [running EXCEPT ![a] = t]
          /\ pc' = [pc EXCEPT ![t] = "created"]
          /\ account_of' = [account_of EXCEPT ![t] = a]
    BY <1>4 DEF EnsureDrain
  <2>2. TypeOK'
    BY <1>1, <1>2, <2>1 DEF TypeOK
  <2>3. Supervision'
    BY <1>4, <2>1 DEF TypeOK, Supervision
  <2>4. PassesSerialized'
    BY <2>1 DEF TypeOK, PassesSerialized
  <2>5. PermitsConserved'
    BY <2>1, SameHolders DEF TypeOK, PermitHolders
  <2> QED BY <2>2, <2>3, <2>4, <2>5
<1> QED BY <1>3, <1>4

\* cancel_account keeps the invariant: the drain it forgets moves to retired
\* in the same step in which the queue of its account is emptied.
LEMMA CancelAccountInvariant ==
  ASSUME IInv, NEW a \in Accounts, CancelAccount(a)
  PROVE  IInv'
<1> USE ConstantsAssumption
    DEF CancelAccount, Retire, FinishQueued, IInv, Live, HoldsLock,
        HoldsPermit, syncVars
<1>1. TypeOK'
  BY DEF TypeOK
<1>2. Supervision'
  BY DEF TypeOK, Supervision
<1>3. PassesSerialized'
  BY DEF PassesSerialized
<1>4. PermitsConserved'
  BY SameHolders DEF PermitHolders
<1> QED BY <1>1, <1>2, <1>3, <1>4

\* Lock holders that are not drain tasks, and committed account edits.
LEMMA EnvironmentInvariant ==
  ASSUME IInv, NEW a \in Accounts,
         CommitAccount(a) \/ OutsiderLocks(a) \/ OutsiderUnlocks(a)
  PROVE  IInv'
<1> USE ConstantsAssumption
    DEF IInv, Live, HoldsLock, HoldsPermit, queueVars, taskVars, syncVars
<1> USE DEF CommitAccount, OutsiderLocks, OutsiderUnlocks
<1>1. TypeOK'
  <2>1. /\ is_active' \in [Accounts -> BOOLEAN]
        /\ lock' \in [Accounts -> Tasks \cup {NoTask, Outsider}]
    BY DEF TypeOK
  <2>2. UNCHANGED <<queueVars, activities, permits, taskVars>>
    OBVIOUS
  <2> HIDE DEF CommitAccount, OutsiderLocks, OutsiderUnlocks
  <2> QED BY <2>1, <2>2 DEF TypeOK
<1>2. Supervision'
  BY DEF Supervision
<1>3. PassesSerialized'
  BY DEF TypeOK, PassesSerialized
<1>4. PermitsConserved'
  BY SameHolders DEF PermitHolders
<1> QED BY <1>1, <1>2, <1>3, <1>4

-----------------------------------------------------------------------------
(* Steps of a drain task.                                                  *)

\* A pass moves from one of its awaits to another, holding the same things.
LEMMA MoveInvariant ==
  ASSUME IInv, NEW t \in Tasks, NEW to \in PC, to # "free",
         pc[t] # "free",
         pc' = [pc EXCEPT ![t] = to],
         pc[t] = "semaphore" <=> to = "semaphore",
         to \in {"abandoned", "unwinding"} => t \in retired,
         HoldsPermit(t)' = HoldsPermit(t),
         cancelling' \in [Tasks -> BOOLEAN],
         \A u \in Tasks : cancelling'[u] => cancelling[u],
         UNCHANGED <<queueVars, activities, is_active, syncVars,
                     account_of, activity_of>>
  PROVE  IInv'
<1> USE ConstantsAssumption DEF IInv, Live, queueVars, syncVars
<1>1. TypeOK'
  BY DEF TypeOK
<1>2. Supervision'
  BY DEF TypeOK, Supervision
<1>3. \A u \in Tasks : HoldsPermit(u)' = HoldsPermit(u)
  BY DEF TypeOK, HoldsPermit
<1>4. PassesSerialized'
  BY <1>3 DEF TypeOK, PassesSerialized, HoldsLock
<1>5. PermitsConserved'
  BY <1>3, SameHolders DEF PermitHolders
<1> QED BY <1>1, <1>2, <1>4, <1>5

\* Taking the account lock keeps the invariant.
LEMMA AcquireLockInvariant ==
  ASSUME IInv, NEW t \in Tasks, AcquireLock(t)
  PROVE  IInv'
<1> USE ConstantsAssumption
    DEF IInv, Live, HoldsLock, HoldsPermit, queueVars, Resume, AcquireLock
<1>1. account_of[t] \in Accounts
  BY DEF Supervision
<1>2. TypeOK' /\ Supervision'
  BY <1>1 DEF TypeOK, Supervision
<1>3. PassesSerialized'
  BY <1>1 DEF TypeOK, PassesSerialized
<1>4. PermitsConserved'
  BY SameHolders DEF TypeOK, PermitHolders
<1> QED BY <1>2, <1>3, <1>4

\* Taking a permit keeps the invariant.
LEMMA AcquireSemaphoreInvariant ==
  ASSUME IInv, NEW t \in Tasks, AcquireSemaphore(t)
  PROVE  IInv'
<1> USE DEF IInv, Live, HoldsLock, HoldsPermit, queueVars, Resume,
            AcquireSemaphore
<1>1. PermitHolders' = PermitHolders \cup {t}
  BY DEF TypeOK, PermitHolders
<1>2. PermitsConserved' /\ permits' \in 0 .. MaxConcurrent
  BY <1>1, PermitTaken
<1>3. TypeOK' /\ Supervision' /\ PassesSerialized'
  BY <1>2 DEF TypeOK, Supervision, PassesSerialized
<1> QED BY <1>2, <1>3

\* What the end of a pass does to the lock and the semaphore.
LEMMA ReleaseInvariant ==
  ASSUME IInv, NEW t \in Tasks, Release(t), NEW to \in {"free", "lock"},
         pc' = [pc EXCEPT ![t] = to]
  PROVE  /\ lock' \in [Accounts -> Tasks \cup {NoTask, Outsider}]
         /\ permits' \in 0 .. MaxConcurrent
         /\ \A a \in Accounts, u \in Tasks :
              HoldsLock(u)' /\ account_of[u] = a <=> lock'[a] = u
         /\ PermitsConserved'
<1> USE ConstantsAssumption DEF IInv, Release, HoldsLock
<1>1. ~HoldsPermit(t)' /\ ~HoldsLock(t)'
  BY DEF TypeOK, HoldsPermit
<1>2. \A u \in Tasks \ {t} : HoldsPermit(u)' = HoldsPermit(u)
                              /\ HoldsLock(u)' = HoldsLock(u)
  BY DEF TypeOK, HoldsPermit
<1>3. \A a \in Accounts, u \in Tasks :
        HoldsLock(u)' /\ account_of[u] = a <=> lock'[a] = u
  BY <1>1, <1>2 DEF PassesSerialized, FreeLock
<1>4. CASE HoldsPermit(t)
  <2>1. PermitHolders' = PermitHolders \ {t}
    BY <1>1, <1>2 DEF PermitHolders
  <2>2. PermitsConserved' /\ permits' \in 0 .. MaxConcurrent
    BY <1>4, <2>1, PermitFreed DEF FreePermit
  <2> QED BY <1>3, <2>2 DEF TypeOK, FreeLock
<1>5. CASE ~HoldsPermit(t)
  <2>1. PermitHolders' = PermitHolders
    BY <1>1, <1>2, <1>5 DEF PermitHolders
  <2>2. PermitsConserved' /\ permits' \in 0 .. MaxConcurrent
    BY <1>5, <2>1, SameHolders DEF FreePermit, TypeOK
  <2> QED BY <1>3, <2>2 DEF TypeOK, FreeLock
<1> QED BY <1>4, <1>5

\* Going round the loop of _drain keeps the invariant.
LEMMA TakeRequestInvariant ==
  ASSUME IInv, NEW t \in Tasks, TakeRequest(t)
  PROVE  IInv'
<1> USE ConstantsAssumption DEF IInv, Live
<1>1. account_of[t] \in Accounts
  BY DEF TakeRequest, Supervision
<1>2. /\ lock' \in [Accounts -> Tasks \cup {NoTask, Outsider}]
      /\ permits' \in 0 .. MaxConcurrent
      /\ \A a \in Accounts, u \in Tasks :
           HoldsLock(u)' /\ account_of[u] = a <=> lock'[a] = u
      /\ PermitsConserved'
  BY ReleaseInvariant, "lock" \in {"free", "lock"} DEF TakeRequest
<1>3. TypeOK'
  BY <1>1, <1>2 DEF TakeRequest, TypeOK
<1>4. Supervision'
  BY <1>1 DEF TakeRequest, TypeOK, Supervision
<1>5. PassesSerialized'
  BY <1>2 DEF TakeRequest, PassesSerialized
<1> QED BY <1>2, <1>3, <1>4, <1>5

\* A drain may leave when nothing is queued for its account, or when it was
\* cancelled: then it is in retired, and the queue belongs to another drain.
LEMMA LeaveInvariant ==
  ASSUME IInv, NEW t \in Tasks, Live(t), Leave(t),
         pending[account_of[t]] = NoRequest \/ t \in retired
  PROVE  IInv'
<1> USE ConstantsAssumption DEF IInv, Live
<1>1. account_of[t] \in Accounts
  BY DEF Supervision
<1>2. /\ lock' \in [Accounts -> Tasks \cup {NoTask, Outsider}]
      /\ permits' \in 0 .. MaxConcurrent
      /\ \A a \in Accounts, u \in Tasks :
           HoldsLock(u)' /\ account_of[u] = a <=> lock'[a] = u
      /\ PermitsConserved'
  BY ReleaseInvariant, "free" \in {"free", "lock"} DEF Leave
<1>3. TypeOK'
  BY <1>1, <1>2 DEF Leave, PopRunning, TypeOK
<1>4. Supervision'
  BY <1>1 DEF Leave, PopRunning, TypeOK, Supervision
<1>5. PassesSerialized'
  <2>1. HoldsLock(t)' = FALSE
    BY DEF Leave, HoldsLock, HoldsPermit, TypeOK
  <2>2. \A u \in Tasks \ {t} : account_of'[u] = account_of[u]
    BY DEF Leave, TypeOK
  <2> QED BY <1>2, <2>1, <2>2 DEF PassesSerialized
<1> QED BY <1>2, <1>3, <1>4, <1>5

-----------------------------------------------------------------------------
(* The invariant of the specification and the theorems that follow from it *)

\* The awaits of a pass that has its semaphore permit.
PermitPC == {"select", "opening", "abandoned", "syncing", "closing",
             "unwinding"}

\* A step between two such awaits; it may reach the last one of a cancelled
\* pass only from one that is cancelled already.
LEMMA StepInvariant ==
  ASSUME IInv, NEW t \in Tasks, NEW from \in PermitPC, NEW to \in PermitPC,
         Step(t, from, to),
         to \in {"abandoned", "unwinding"} => from = "abandoned"
  PROVE  IInv'
<1>1. /\ pc[t] = from
      /\ pc' = [pc EXCEPT ![t] = to]
      /\ UNCHANGED <<queueVars, activities, is_active, syncVars,
                     account_of, activity_of, cancelling>>
  BY DEF Step, Resume
<1>2. HoldsPermit(t)' = HoldsPermit(t)
  BY <1>1 DEF HoldsPermit, PermitPC, IInv, TypeOK
<1>3. from = "abandoned" => t \in retired
  BY <1>1 DEF IInv, Supervision
<1>4. cancelling \in [Tasks -> BOOLEAN]
  BY DEF IInv, TypeOK
<1> QED BY <1>1, <1>2, <1>3, <1>4, MoveInvariant DEF PermitPC

\* CancelledError raised in a pass that goes on awaiting.
LEMMA CancelledInvariant ==
  ASSUME IInv, NEW t \in Tasks, NEW from \in PermitPC, NEW to \in PermitPC,
         Cancelled(t, from, to)
  PROVE  IInv'
<1>1. /\ pc[t] = from
      /\ pc' = [pc EXCEPT ![t] = to]
      /\ cancelling[t]
      /\ cancelling' = [cancelling EXCEPT ![t] = FALSE]
      /\ UNCHANGED <<queueVars, activities, is_active, syncVars,
                     account_of, activity_of>>
  BY DEF Cancelled
<1>2. HoldsPermit(t)' = HoldsPermit(t)
  BY <1>1 DEF HoldsPermit, PermitPC, IInv, TypeOK
<1>3. t \in retired
  BY <1>1 DEF IInv, Supervision
<1>4. /\ cancelling' \in [Tasks -> BOOLEAN]
      /\ \A u \in Tasks : cancelling'[u] => cancelling[u]
  BY <1>1 DEF IInv, TypeOK
<1> QED BY <1>1, <1>2, <1>3, <1>4, MoveInvariant DEF PermitPC

\* No step of a drain task breaks the invariant.
LEMMA ProgressInvariant ==
  ASSUME IInv, NEW t \in Tasks, Progress(t)
  PROVE  IInv'
<1>1. CASE TakeRequest(t)
  BY <1>1, TakeRequestInvariant
<1>2. CASE DrainExits(t)
  BY <1>2, LeaveInvariant DEF DrainExits, Live
<1>3. CASE SelectAccount(t)
  BY <1>3, StepInvariant DEF SelectAccount, PermitPC
<1>4. CASE OpenSucceeds(t) \/ OpenFails(t)
  BY <1>4, StepInvariant DEF OpenSucceeds, OpenFails, PermitPC
<1>5. CASE SyncFinishes(t)
  BY <1>5, StepInvariant DEF SyncFinishes, PermitPC
<1>6. CASE AbandonedOpens(t) \/ AbandonedFails(t)
  BY <1>6, StepInvariant DEF AbandonedOpens, AbandonedFails, PermitPC
<1>7. CASE CancelledOpening(t) \/ CancelledSyncing(t)
  BY <1>7, CancelledInvariant
     DEF CancelledOpening, CancelledSyncing, PermitPC
<1>8. CASE CancelledUnconnected(t)
  BY <1>8, LeaveInvariant DEF CancelledUnconnected, IInv, Supervision, Live
<1>9. CASE Unwind(t)
  BY <1>9, LeaveInvariant DEF Unwind, IInv, Supervision, Live
<1> QED BY <1>1, <1>2, <1>3, <1>4, <1>5, <1>6, <1>7, <1>8, <1>9 DEF Progress

\* The invariant is inductive.
LEMMA NextInvariant == IInv /\ [Next]_vars => IInv'
<1> SUFFICES ASSUME IInv, [Next]_vars PROVE IInv'
  OBVIOUS
<1>1. CASE UNCHANGED vars
  BY <1>1, SameHolders
     DEF IInv, TypeOK, Supervision, PassesSerialized, PermitHolders, Live,
         HoldsLock, HoldsPermit, vars, queueVars, syncVars, taskVars
<1>2. ASSUME NEW a \in Accounts, NEW f \in FolderScope, NEW d \in BOOLEAN,
             RequestSync(a, f, d)
      PROVE  IInv'
  BY <1>2, RequestSyncInvariant
<1>3. ASSUME NEW a \in Accounts, CancelAccount(a) PROVE IInv'
  BY <1>3, CancelAccountInvariant
<1>4. ASSUME NEW a \in Accounts,
             CommitAccount(a) \/ OutsiderLocks(a) \/ OutsiderUnlocks(a)
      PROVE  IInv'
  BY <1>4, EnvironmentInvariant
<1>5. ASSUME NEW t \in Tasks,
             Progress(t) \/ AcquireLock(t) \/ AcquireSemaphore(t)
      PROVE  IInv'
  BY <1>5, ProgressInvariant, AcquireLockInvariant, AcquireSemaphoreInvariant
<1> QED BY <1>1, <1>2, <1>3, <1>4, <1>5 DEF Next

\* IInv, the strengthening all theorems below draw on, holds in every
\* reachable state.
THEOREM Invariance == Spec => []IInv
BY InitInvariant, NextInvariant, PTL DEF Spec

\* In every reachable state every variable has its type: in particular the
\* semaphore is never released more often than it was acquired.
THEOREM TypeCorrect == Spec => []TypeOK
BY Invariance, PTL DEF IInv

\* A request waiting in pending always has a registered, uncancelled drain
\* that has not looked at pending yet: requests.py loses no wakeup.
THEOREM RequestsAreNotLost == Spec => []NoLostRequest
<1>1. IInv => NoLostRequest
  BY ConstantsAssumption
     DEF IInv, TypeOK, Supervision, NoLostRequest, Live
<1> QED BY <1>1, Invariance, PTL

\* Whatever is alive can be cancelled or awaited: each drain alive is either
\* the registered task of its account or in retired.
THEOREM DrainsAreSupervised == Spec => []EveryDrainSupervised
<1>1. IInv => EveryDrainSupervised
  BY ConstantsAssumption
     DEF IInv, TypeOK, Supervision, EveryDrainSupervised, Live
<1> QED BY <1>1, Invariance, PTL

\* Passes of one account never overlap, with any number of retired drains.
THEOREM PassesExclude == Spec => []PassesSerialized
BY Invariance, PTL DEF IInv

\* Permits are neither lost nor invented on any path out of sync_account.
THEOREM PermitsBalance == Spec => []PermitsConserved
BY Invariance, PTL DEF IInv

-----------------------------------------------------------------------------
(* The activities: a second layer on top of IInv.                          *)

\* What makes ActivitiesAccounted inductive: a task slot nobody uses holds no
\* activity, so a drain starts without one.
FreeTasksIdle == \A t \in Tasks : pc[t] = "free" => activity_of[t] = NoActivity
AInv == ActivitiesAccounted /\ FreeTasksIdle

\* request_sync begins an activity exactly when the account had nothing
\* queued, and with an id that neither a queue entry nor a drain has.
LEMMA RequestSyncActivities ==
  ASSUME IInv, AInv, NEW a \in Accounts,
         NEW f \in FolderScope, NEW d \in BOOLEAN, RequestSync(a, f, d)
  PROVE  AInv'
<1> USE ConstantsAssumption, NoneAssumption
<1>1. /\ pending' = [pending EXCEPT ![a] = Merge(@, f, d)]
      /\ pending'[a] # NoRequest
  BY MergeType DEF RequestSync, IInv, TypeOK
<1>2. FreeTasksIdle'
  BY DEF AInv, FreeTasksIdle, RequestSync, EnsureDrain, IInv, TypeOK
<1>3. UNCHANGED activity_of
  BY DEF RequestSync
<1>4. CASE pending_activity[a] # NoActivity
  <2>1. UNCHANGED <<pending_activity, activities>>
    BY <1>4 DEF RequestSync, QueueActivity
  <2>2. \A b \in Accounts : pending'[b] = NoRequest <=> pending[b] = NoRequest
    BY <1>1, <1>4 DEF AInv, ActivitiesAccounted, IInv, TypeOK
  <2>3. ActivitiesAccounted'
    BY <1>3, <2>1, <2>2 DEF AInv, ActivitiesAccounted
  <2> QED BY <1>2, <2>3 DEF AInv
<1>5. CASE pending_activity[a] = NoActivity
  <2>1. \E id \in ActivityIds : id \notin activities
    <3>1. activities \subseteq ActivityIds /\ activities # ActivityIds
      BY <1>5 DEF RequestSync, QueueActivity, IInv, TypeOK
    <3> QED BY <3>1
  <2>2. PICK id : /\ id \in ActivityIds \ activities
                  /\ pending_activity' = [pending_activity EXCEPT ![a] = id]
                  /\ activities' = activities \cup {id}
    BY <1>5, <2>1 DEF RequestSync, QueueActivity, FreshActivity
  <2>3. /\ \A b \in Accounts : pending_activity[b] # id
        /\ \A t \in Tasks : activity_of[t] # id
    BY <2>2 DEF AInv, ActivitiesAccounted
  <2>4. ActivitiesAccounted'
    BY <1>1, <1>3, <1>5, <2>2, <2>3
       DEF AInv, ActivitiesAccounted, IInv, TypeOK
  <2> QED BY <1>2, <2>4 DEF AInv
<1> QED BY <1>2, <1>4, <1>5 DEF AInv

\* cancel_account finishes the queued activity of its account and no other.
LEMMA CancelAccountActivities ==
  ASSUME IInv, AInv, NEW a \in Accounts, CancelAccount(a)
  PROVE  AInv'
<1> USE ConstantsAssumption
    DEF CancelAccount, FinishQueued, AInv, IInv, TypeOK
<1>1. FreeTasksIdle'
  BY DEF FreeTasksIdle
<1>2. ActivitiesAccounted'
  BY DEF ActivitiesAccounted
<1> QED BY <1>1, <1>2

\* The next pass takes the queued activity over and finishes the previous.
LEMMA TakeRequestActivities ==
  ASSUME IInv, AInv, NEW t \in Tasks, TakeRequest(t)
  PROVE  AInv'
<1> USE ConstantsAssumption DEF TakeRequest, AInv, IInv, TypeOK
<1>1. account_of[t] \in Accounts
  BY DEF Supervision, Live
<1>2. FreeTasksIdle'
  BY DEF FreeTasksIdle
<1>3. ActivitiesAccounted'
  BY <1>1 DEF ActivitiesAccounted
<1> QED BY <1>2, <1>3

\* A drain that leaves finishes the activity of its pass and no other.
LEMMA LeaveActivities ==
  ASSUME IInv, AInv, NEW t \in Tasks, Leave(t)
  PROVE  AInv'
<1> USE ConstantsAssumption DEF Leave, AInv, IInv, TypeOK
<1>1. FreeTasksIdle'
  BY DEF FreeTasksIdle
<1>2. ActivitiesAccounted'
  BY DEF ActivitiesAccounted
<1> QED BY <1>1, <1>2

\* Every other step leaves the activities and the queue alone, and no drain
\* becomes free.
LEMMA OtherActivities ==
  ASSUME IInv, AInv,
         UNCHANGED <<pending, pending_activity, activities, activity_of>>,
         \A t \in Tasks : pc'[t] = "free" => pc[t] = "free"
  PROVE  AInv'
BY DEF AInv, ActivitiesAccounted, FreeTasksIdle

\* No step loses track of an activity.
LEMMA NextActivities == IInv /\ AInv /\ [Next]_vars => AInv'
<1> SUFFICES ASSUME IInv, AInv, [Next]_vars PROVE AInv'
  OBVIOUS
<1>1. CASE UNCHANGED vars
  BY <1>1, OtherActivities DEF vars, queueVars, taskVars
<1>2. ASSUME NEW a \in Accounts, NEW f \in FolderScope, NEW d \in BOOLEAN,
             RequestSync(a, f, d)
      PROVE  AInv'
  BY <1>2, RequestSyncActivities
<1>3. ASSUME NEW a \in Accounts, CancelAccount(a) PROVE AInv'
  BY <1>3, CancelAccountActivities
<1>4. ASSUME NEW a \in Accounts,
             CommitAccount(a) \/ OutsiderLocks(a) \/ OutsiderUnlocks(a)
      PROVE  AInv'
  BY <1>4, OtherActivities
     DEF CommitAccount, OutsiderLocks, OutsiderUnlocks, queueVars, taskVars
<1>5. ASSUME NEW t \in Tasks, NEW from \in PC, NEW to \in PC \ {"free"},
             Step(t, from, to) \/ Cancelled(t, from, to)
      PROVE  AInv'
  BY <1>5, OtherActivities
     DEF Step, Resume, Cancelled, queueVars, IInv, TypeOK
<1>6. ASSUME NEW t \in Tasks, AcquireLock(t) \/ AcquireSemaphore(t)
      PROVE  AInv'
  BY <1>6, OtherActivities
     DEF AcquireLock, AcquireSemaphore, Resume, queueVars, IInv, TypeOK
<1>7. ASSUME NEW t \in Tasks,
             DrainExits(t) \/ CancelledUnconnected(t) \/ Unwind(t)
      PROVE  AInv'
  BY <1>7, LeaveActivities DEF DrainExits, CancelledUnconnected, Unwind
<1>8. ASSUME NEW t \in Tasks, Progress(t) PROVE AInv'
  <2>1. CASE TakeRequest(t)
    BY <2>1, TakeRequestActivities
  <2>2. CASE SelectAccount(t) \/ OpenSucceeds(t) \/ OpenFails(t)
              \/ SyncFinishes(t)
    BY <1>5, <2>2 DEF SelectAccount, OpenSucceeds, OpenFails, SyncFinishes
  <2>3. CASE CancelledOpening(t) \/ CancelledSyncing(t)
              \/ AbandonedOpens(t) \/ AbandonedFails(t)
    BY <1>5, <2>3
       DEF CancelledOpening, CancelledSyncing, AbandonedOpens, AbandonedFails
  <2> QED BY <1>7, <1>8, <2>1, <2>2, <2>3 DEF Progress
<1> QED BY <1>1, <1>2, <1>3, <1>4, <1>6, <1>8 DEF Next

\* The activities clients are shown are exactly those of queued requests and
\* of passes under way, each with one owner: none outlives its request.
THEOREM ActivitiesAreAccounted == Spec => []ActivitiesAccounted
<1>1. Init => AInv
  BY ConstantsAssumption
     DEF Init, AInv, ActivitiesAccounted, FreeTasksIdle
<1>2. AInv => ActivitiesAccounted
  BY DEF AInv
<1> QED BY <1>1, <1>2, NextActivities, Invariance, PTL DEF Spec

-----------------------------------------------------------------------------
(* SyncRequests implements SyncService.                                    *)

AbstractWanted == [a \in Accounts |-> ScopeItems(pending[a])]
AbstractSyncing == {account_of[t] : t \in PermitHolders}

\* A scope stands for a set of items of the abstract service.
LEMMA ScopeItemsType ==
  ASSUME NEW r \in {NoRequest} \cup Request
  PROVE  ScopeItems(r) \subseteq Folders \cup {Discovery}
BY NoneAssumption DEF ScopeItems, Request, FolderScope

\* The merged scope covers exactly what was covered before and what is asked.
LEMMA MergeUnites ==
  ASSUME NEW p \in {NoRequest} \cup Request,
         NEW f \in FolderScope, NEW d \in BOOLEAN
  PROVE  ScopeItems(Merge(p, f, d)) =
           ScopeItems(p) \cup ScopeItems([folders |-> f, discover |-> d])
<1>1. Merge(p, f, d) # NoRequest /\ [folders |-> f, discover |-> d] # NoRequest
  BY MergeType, NoneAssumption DEF Request
<1>2. CASE p = NoRequest
  BY <1>1, <1>2 DEF Merge, ScopeItems
<1>3. CASE p # NoRequest
  <2>1. /\ p.folders \in FolderScope /\ p.discover \in BOOLEAN
        /\ p # NoRequest
    BY <1>3 DEF Request
  <2>2. CASE AllFolders \in {p.folders, f}
    BY <1>1, <2>1, <2>2, NoneAssumption DEF Merge, ScopeItems, FolderScope
  <2>3. CASE AllFolders \notin {p.folders, f}
    <3>1. p.folders \cup f \in SUBSET Folders
      BY <2>1, <2>3 DEF FolderScope
    <3>2. p.folders \cup f # AllFolders
      BY <3>1, NoneAssumption
    <3> QED BY <1>1, <2>1, <2>3, <3>2 DEF Merge, ScopeItems
  <2> QED BY <2>2, <2>3
<1> QED BY <1>2, <1>3

\* Holders of permits work on different accounts, so their number bounds the
\* number of accounts being synchronised.
LEMMA SyncingBounded ==
  ASSUME IInv
  PROVE  /\ IsFiniteSet(AbstractSyncing)
         /\ Cardinality(AbstractSyncing) \in Nat
         /\ Cardinality(AbstractSyncing) + permits <= MaxConcurrent
<1> DEFINE f == [t \in PermitHolders |-> account_of[t]]
<1>1. IsFiniteSet(PermitHolders)
  BY ConstantsAssumption, FS_Subset DEF PermitHolders
<1>2. f \in Surjection(PermitHolders, AbstractSyncing)
  BY DEF Surjection, AbstractSyncing
<1>3. /\ IsFiniteSet(AbstractSyncing)
      /\ Cardinality(AbstractSyncing) <= Cardinality(PermitHolders)
  <2> HIDE DEF f
  <2> QED BY <1>1, <1>2, FS_Surjection
<1>4. /\ Cardinality(PermitHolders) \in Nat
      /\ Cardinality(AbstractSyncing) \in Nat
  BY <1>1, <1>3, FS_CardinalityType
<1> QED BY <1>3, <1>4, ConstantsAssumption DEF IInv, TypeOK, PermitsConserved

\* While t holds a permit no other holder works on its account.
LEMMA HolderUnique ==
  ASSUME IInv, NEW t \in Tasks, NEW u \in PermitHolders,
         HoldsLock(t), account_of[u] = account_of[t]
  PROVE  u = t
<1>1. account_of[t] \in Accounts
  BY DEF IInv, Supervision, HoldsLock, HoldsPermit, Live
<1>2. lock[account_of[t]] = t
  BY <1>1 DEF IInv, PassesSerialized
<1>3. lock[account_of[t]] = u
  BY <1>1 DEF IInv, PassesSerialized, PermitHolders, HoldsLock
<1> QED BY <1>2, <1>3

\* SyncService's Cardinality, seen through the INSTANCE, is FiniteSets'.
LEMMA SameCardinality == \A S : Service!Cardinality(S) = Cardinality(S)
BY DEF Service!Cardinality, Cardinality

\* Taking a permit is the Begin of the abstract service.
LEMMA AcquireRefines ==
  ASSUME IInv, NEW t \in Tasks, AcquireSemaphore(t)
  PROVE  Service!Next
<1>0. PICK a \in Accounts : a = account_of[t]
  BY DEF AcquireSemaphore, Resume, IInv, Supervision, Live
<1>1. /\ HoldsLock(t) /\ ~HoldsPermit(t)
      /\ permits > 0
  BY DEF AcquireSemaphore, Resume, HoldsLock, HoldsPermit
<1>2. a \notin AbstractSyncing
  BY <1>0, <1>1, HolderUnique DEF AbstractSyncing, PermitHolders
<1>3. PermitHolders' = PermitHolders \cup {t}
  BY DEF AcquireSemaphore, Resume, PermitHolders, HoldsPermit, IInv, TypeOK
<1>4. AbstractSyncing' = AbstractSyncing \cup {a}
  BY <1>0, <1>3 DEF AbstractSyncing, AcquireSemaphore
<1>5. Cardinality(AbstractSyncing) < MaxConcurrent
  BY <1>1, SyncingBounded, ConstantsAssumption DEF IInv, TypeOK
<1>6. AbstractWanted' = AbstractWanted
  BY DEF AbstractWanted, AcquireSemaphore, queueVars
<1>7. Service!Begin(a)
  BY <1>2, <1>4, <1>5, <1>6, SameCardinality
     DEF Service!Begin, AbstractSyncing, AbstractWanted
<1> QED BY <1>7 DEF Service!Next

\* What the end of a pass looks like from outside.
LEMMA ReleaseRefines ==
  ASSUME IInv, NEW t \in Tasks, HoldsPermit(t),
         PermitHolders' = PermitHolders \ {t},
         \A u \in Tasks \ {t} : account_of'[u] = account_of[u]
  PROVE  /\ account_of[t] \in AbstractSyncing
         /\ AbstractSyncing' = AbstractSyncing \ {account_of[t]}
<1>1. t \in PermitHolders
  BY DEF PermitHolders
<1>2. \A u \in PermitHolders : account_of[u] = account_of[t] => u = t
  BY HolderUnique DEF HoldsLock
<1>3. PermitHolders \subseteq Tasks
  BY DEF PermitHolders
<1>4. AbstractSyncing' = {account_of[u] : u \in PermitHolders \ {t}}
  BY <1>3 DEF AbstractSyncing
<1> QED BY <1>1, <1>2, <1>4 DEF AbstractSyncing

\* While no permit changes hands, neither does the set of accounts syncing.
LEMMA SameHoldersRefine ==
  ASSUME PermitHolders' = PermitHolders,
         \A u \in PermitHolders : account_of'[u] = account_of[u]
  PROVE  AbstractSyncing' = AbstractSyncing
BY DEF AbstractSyncing

\* Going round the loop hands the whole wish to a pass and, from the second
\* time on, ends the pass before.
LEMMA TakeRequestRefines ==
  ASSUME IInv, NEW t \in Tasks, TakeRequest(t)
  PROVE  Service!Next
<1>1. PICK a \in Accounts : a = account_of[t]
  BY DEF TakeRequest, IInv, Supervision, Live
<1>2. AbstractWanted' = [AbstractWanted EXCEPT ![a] = {}]
  BY <1>1 DEF TakeRequest, AbstractWanted, ScopeItems, IInv, TypeOK
<1>3. CASE HoldsPermit(t)
  <2>1. PermitHolders' = PermitHolders \ {t}
    BY DEF TakeRequest, PermitHolders, HoldsPermit, IInv, TypeOK
  <2>2. a \in AbstractSyncing /\ AbstractSyncing' = AbstractSyncing \ {a}
    BY <1>3, <2>1, <1>1, ReleaseRefines DEF TakeRequest
  <2>3. Service!End(a)
    BY <1>2, <2>2 DEF Service!End, AbstractSyncing, AbstractWanted
  <2> QED BY <2>3 DEF Service!Next
<1>4. CASE ~HoldsPermit(t)
  <2>1. PermitHolders' = PermitHolders
    BY <1>4 DEF TakeRequest, PermitHolders, HoldsPermit, IInv, TypeOK
  <2>2. AbstractSyncing' = AbstractSyncing
    BY <2>1, SameHoldersRefine DEF TakeRequest
  <2>3. Service!Clear(a)
    BY <1>2, <2>2 DEF Service!Clear, AbstractSyncing, AbstractWanted
  <2> QED BY <2>3 DEF Service!Next
<1> QED BY <1>3, <1>4

\* A drain that leaves with a permit ends a pass; without one it stutters.
LEMMA LeaveRefines ==
  ASSUME IInv, NEW t \in Tasks, Live(t), Leave(t)
  PROVE  [Service!Next]_(Service!vars)
<1>1. PICK a \in Accounts : a = account_of[t]
  BY DEF IInv, Supervision
<1>2. AbstractWanted' = AbstractWanted
  BY DEF Leave, AbstractWanted
<1>3. \A u \in Tasks \ {t} : account_of'[u] = account_of[u]
  BY DEF Leave, IInv, TypeOK
<1>4. CASE HoldsPermit(t)
  <2>1. PermitHolders' = PermitHolders \ {t}
    BY DEF Leave, PermitHolders, HoldsPermit, IInv, TypeOK
  <2>2. a \in AbstractSyncing /\ AbstractSyncing' = AbstractSyncing \ {a}
    BY <1>1, <1>3, <1>4, <2>1, ReleaseRefines
  <2>3. Service!End(a)
    BY <1>2, <2>2 DEF Service!End, AbstractSyncing, AbstractWanted
  <2> QED BY <2>3 DEF Service!Next
<1>5. CASE ~HoldsPermit(t)
  <2>1. PermitHolders' = PermitHolders
    BY <1>5 DEF Leave, PermitHolders, HoldsPermit, IInv, TypeOK
  <2>2. t \notin PermitHolders /\ PermitHolders \subseteq Tasks
    BY <1>5 DEF PermitHolders
  <2>3. AbstractSyncing' = AbstractSyncing
    BY <1>3, <2>1, <2>2, SameHoldersRefine
  <2> QED BY <1>2, <2>3 DEF Service!vars, AbstractSyncing, AbstractWanted
<1> QED BY <1>4, <1>5

\* Steps that neither queue, take nor drop a request and keep all permits.
LEMMA StutterRefines ==
  ASSUME UNCHANGED pending, PermitHolders' = PermitHolders,
         \A u \in PermitHolders : account_of'[u] = account_of[u]
  PROVE  UNCHANGED Service!vars
<1>1. AbstractSyncing' = AbstractSyncing
  BY SameHoldersRefine
<1> QED BY <1>1 DEF Service!vars, AbstractSyncing

\* What the callers do is an Ask, a Clear or nothing to the abstract service.
LEMMA CallersRefine ==
  ASSUME IInv, NEW a \in Accounts
  PROVE  /\ \A f \in FolderScope, d \in BOOLEAN :
              RequestSync(a, f, d) => Service!Next
         /\ CancelAccount(a) => Service!Next
         /\ CommitAccount(a) \/ OutsiderLocks(a) \/ OutsiderUnlocks(a)
              => UNCHANGED Service!vars
<1>1. ASSUME NEW f \in FolderScope, NEW d \in BOOLEAN, RequestSync(a, f, d)
      PROVE  Service!Next
  <2> DEFINE S == ScopeItems([folders |-> f, discover |-> d])
  <2>1. S \in SUBSET (Folders \cup {Discovery})
    BY ScopeItemsType DEF Request
  <2>2. AbstractWanted' = [AbstractWanted EXCEPT ![a] = @ \cup S]
    <3>1. /\ pending \in [Accounts -> {NoRequest} \cup Request]
          /\ pending' = [pending EXCEPT ![a] = Merge(pending[a], f, d)]
      BY <1>1 DEF RequestSync, IInv, TypeOK
    <3>2. ScopeItems(Merge(pending[a], f, d)) = ScopeItems(pending[a]) \cup S
      BY <3>1, MergeUnites
    <3> HIDE DEF S, IInv
    <3> QED BY <3>1, <3>2 DEF AbstractWanted
  <2>3. /\ PermitHolders' = PermitHolders
        /\ \A u \in PermitHolders : account_of'[u] = account_of[u]
    BY <1>1 DEF RequestSync, EnsureDrain, PermitHolders, HoldsPermit, IInv,
                TypeOK
  <2>4. AbstractSyncing' = AbstractSyncing
    BY <2>3, SameHoldersRefine
  <2>5. Service!Ask(a, S)
    BY <2>2, <2>4 DEF Service!Ask, AbstractSyncing, AbstractWanted
  <2> QED BY <2>1, <2>5 DEF Service!Next
<1>2. ASSUME CancelAccount(a) PROVE Service!Next
  <2>1. AbstractWanted' = [AbstractWanted EXCEPT ![a] = {}]
    BY <1>2 DEF CancelAccount, AbstractWanted, ScopeItems, IInv, TypeOK
  <2>2. AbstractSyncing' = AbstractSyncing
    BY <1>2, SameHoldersRefine
       DEF CancelAccount, PermitHolders, HoldsPermit
  <2>3. Service!Clear(a)
    BY <2>1, <2>2 DEF Service!Clear, AbstractSyncing, AbstractWanted
  <2> QED BY <2>3 DEF Service!Next
<1>3. ASSUME CommitAccount(a) \/ OutsiderLocks(a) \/ OutsiderUnlocks(a)
      PROVE  UNCHANGED Service!vars
  BY <1>3, StutterRefines
     DEF CommitAccount, OutsiderLocks, OutsiderUnlocks, queueVars, taskVars,
         PermitHolders, HoldsPermit
<1> QED BY <1>1, <1>2, <1>3

\* What a drain task does is a Clear, a Begin, an End or nothing to it.
LEMMA TaskRefines ==
  ASSUME IInv, NEW t \in Tasks,
         Progress(t) \/ AcquireLock(t) \/ AcquireSemaphore(t)
  PROVE  [Service!Next]_(Service!vars)
<1>1. CASE TakeRequest(t)
  BY <1>1, TakeRequestRefines
<1>2. CASE DrainExits(t) \/ CancelledUnconnected(t) \/ Unwind(t)
  BY <1>2, LeaveRefines DEF DrainExits, CancelledUnconnected, Unwind, Live
<1>3. CASE AcquireSemaphore(t)
  BY <1>3, AcquireRefines
<1>4. CASE AcquireLock(t)
  <2>1. /\ PermitHolders' = PermitHolders
        /\ UNCHANGED <<pending, account_of>>
    BY <1>4 DEF AcquireLock, Resume, PermitHolders, HoldsPermit, queueVars,
                IInv, TypeOK
  <2> QED BY <2>1, StutterRefines
<1>5. ASSUME NEW from \in PermitPC, NEW to \in PermitPC,
             Step(t, from, to) \/ Cancelled(t, from, to)
      PROVE  UNCHANGED Service!vars
  <2>1. /\ PermitHolders' = PermitHolders
        /\ UNCHANGED <<pending, account_of>>
    BY <1>5 DEF Step, Cancelled, Resume, PermitHolders, HoldsPermit,
                queueVars, IInv, TypeOK, PermitPC
  <2> QED BY <2>1, StutterRefines
<1>6. CASE SelectAccount(t) \/ OpenSucceeds(t) \/ OpenFails(t)
            \/ SyncFinishes(t)
  BY <1>5, <1>6
     DEF SelectAccount, OpenSucceeds, OpenFails, SyncFinishes, PermitPC
<1>7. CASE CancelledOpening(t) \/ CancelledSyncing(t)
            \/ AbandonedOpens(t) \/ AbandonedFails(t)
  BY <1>5, <1>7
     DEF CancelledOpening, CancelledSyncing, AbandonedOpens, AbandonedFails,
         PermitPC
<1> QED BY <1>1, <1>2, <1>3, <1>4, <1>6, <1>7 DEF Progress

\* Every step maps to a step of the abstract service or to a stutter.
LEMMA NextRefines == IInv /\ [Next]_vars => [Service!Next]_(Service!vars)
<1> SUFFICES ASSUME IInv, [Next]_vars PROVE [Service!Next]_(Service!vars)
  OBVIOUS
<1>1. CASE UNCHANGED vars
  BY <1>1, StutterRefines
     DEF vars, queueVars, taskVars, PermitHolders, HoldsPermit
<1>2. ASSUME NEW a \in Accounts, NEW f \in FolderScope, NEW d \in BOOLEAN,
             RequestSync(a, f, d)
      PROVE  Service!Next
  BY <1>2, CallersRefine
<1>3. ASSUME NEW a \in Accounts,
             CancelAccount(a) \/ CommitAccount(a) \/ OutsiderLocks(a)
               \/ OutsiderUnlocks(a)
      PROVE  [Service!Next]_(Service!vars)
  BY <1>3, CallersRefine
<1>4. ASSUME NEW t \in Tasks,
             Progress(t) \/ AcquireLock(t) \/ AcquireSemaphore(t)
      PROVE  [Service!Next]_(Service!vars)
  BY <1>4, TaskRefines
<1> QED BY <1>1, <1>2, <1>3, <1>4 DEF Next

\* The queue, the drains and sync_account's locking implement the service:
\* merging drops no item, scopes are taken whole, passes of one account
\* exclude each other, and at most max_concurrent_syncs accounts run.
THEOREM Refinement == Spec => ImplementsService
<1>1. Init => Service!Init
  <2> SUFFICES ASSUME Init PROVE Service!Init
    OBVIOUS
  <2>1. PermitHolders = {}
    BY DEF Init, PermitHolders, HoldsPermit
  <2> QED BY <2>1 DEF Init, Service!Init, ScopeItems
<1> QED BY <1>1, NextRefines, Invariance, PTL
        DEF Spec, ImplementsService, Service!Spec
=============================================================================
