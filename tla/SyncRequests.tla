---------------------------- MODULE SyncRequests ----------------------------
(***************************************************************************)
(* backend/app/sync/requests.py: the queue every caller of a sync goes     *)
(* through, composed with the control skeleton of worker.sync_account (the *)
(* account lock, the global semaphore, the shielded connection attempt and *)
(* the paths out of a pass).  All of it runs on one asyncio event loop, so *)
(* a step is the code between two awaits; task.cancel() only marks a task, *)
(* and CancelledError is raised at the await the task is suspended in.     *)
(*                                                                         *)
(* A task is one asyncio.Task running _drain.  Its pc names the await it   *)
(* is suspended in:                                                        *)
(*   created     scheduled, its body not entered yet                       *)
(*   lock        in sync_account, waiting for the account lock             *)
(*   semaphore   lock held, waiting for _sync_semaphore                    *)
(*   select      reading the account row                                   *)
(*   opening     awaiting shield(opening), the connection attempt          *)
(*   abandoned   cancelled, awaiting that attempt in the except clause     *)
(*   syncing     connected: discovery and the folders of the scope         *)
(*   closing     in the finally clause, no cancellation in flight          *)
(*   unwinding   in the finally clause, CancelledError in flight           *)
(***************************************************************************)
EXTENDS Naturals, FiniteSets

CONSTANTS Accounts,
          Folders,         \* folder ids a caller can name
          Tasks,           \* bound: drain tasks alive at the same time
          ActivityIds,     \* bound: uuids; one per account and task suffices
          MaxConcurrent,   \* settings.max_concurrent_syncs
          AllFolders,      \* folder_ids = None
          NoRequest, NoTask, NoAccount, NoActivity,
          Outsider         \* holds an account lock: _watch, token refresh

ASSUME ConstantsAssumption ==
  /\ MaxConcurrent \in Nat \ {0}
  /\ IsFiniteSet(Tasks)
  /\ NoTask \notin Tasks
  /\ Outsider \notin Tasks \cup {NoTask}
  /\ NoActivity \notin ActivityIds
  /\ NoAccount \notin Accounts

FolderScope == {AllFolders} \cup SUBSET Folders
Request == [folders : FolderScope, discover : BOOLEAN]

\* None differs from every set of ids, and no queue entry from every request.
ASSUME NoneAssumption ==
  /\ \A F \in SUBSET Folders : F # AllFolders
  /\ \A r \in Request : r # NoRequest

VARIABLES
  running,            \* requests.running: the drain task of an account
  pending,            \* requests.pending: the merged follow-up scope
  pending_activity,   \* requests.pending_activity: its queued activity
  retired,            \* requests.retired: cancelled drains, not done yet
  activities,         \* keys of activity._active that belong to requests
  is_active,          \* Account.is_active as committed
  lock,               \* worker._account_locks: holder of an account's lock
  permits,            \* worker._sync_semaphore: free permits
  pc, account_of, activity_of,
  cancelling          \* task.cancel() called, CancelledError not raised yet

queueVars == <<running, pending, pending_activity, retired>>
taskVars == <<pc, account_of, activity_of, cancelling>>
syncVars == <<lock, permits>>
vars == <<queueVars, activities, is_active, syncVars, taskVars>>

PC == {"free", "created", "lock", "semaphore", "select", "opening",
       "abandoned", "syncing", "closing", "unwinding"}

HoldsPermit(t) == pc[t] \in {"select", "opening", "abandoned", "syncing",
                             "closing", "unwinding"}
HoldsLock(t) == HoldsPermit(t) \/ pc[t] = "semaphore"
Live(t) == pc[t] # "free"

Init ==
  /\ running = [a \in Accounts |-> NoTask]
  /\ pending = [a \in Accounts |-> NoRequest]
  /\ pending_activity = [a \in Accounts |-> NoActivity]
  /\ retired = {}
  /\ activities = {}
  /\ is_active = [a \in Accounts |-> TRUE]
  /\ lock = [a \in Accounts |-> NoTask]
  /\ permits = MaxConcurrent
  /\ pc = [t \in Tasks |-> "free"]
  /\ account_of = [t \in Tasks |-> NoAccount]
  /\ activity_of = [t \in Tasks |-> NoActivity]
  /\ cancelling = [t \in Tasks |-> FALSE]

-----------------------------------------------------------------------------
(* The callers' side: request_sync and cancel_account never suspend.       *)

\* Faulty variant: the newest folder scope replaces the queued one.
MergeKeepsNewest(previous, folders, discover) ==
  [folders |-> folders,
   discover |-> discover \/ (previous # NoRequest /\ previous.discover)]

\* None (every folder) absorbs any set; discovery is sticky.
Merge(previous, folders, discover) ==
  IF previous = NoRequest
  THEN [folders |-> folders, discover |-> discover]
  ELSE [folders  |-> IF AllFolders \in {previous.folders, folders}
                     THEN AllFolders
                     ELSE previous.folders \cup folders,
        discover |-> discover \/ previous.discover]

\* A uuid not in use; which one makes no difference.
FreshActivity == CHOOSE id \in ActivityIds : id \notin activities

\* Queue activity: updated in place when there is one, begun otherwise.
QueueActivity(a) ==
  IF pending_activity[a] # NoActivity
  THEN UNCHANGED <<pending_activity, activities>>
  ELSE /\ activities # ActivityIds
       /\ pending_activity' = [pending_activity EXCEPT ![a] = FreshActivity]
       /\ activities' = activities \cup {FreshActivity}

EnsureDrain(a) ==
  IF running[a] # NoTask
  THEN UNCHANGED <<running, pc, account_of>>
  ELSE \E t \in Tasks :
         /\ pc[t] = "free"
         /\ running' = [running EXCEPT ![a] = t]
         /\ pc' = [pc EXCEPT ![t] = "created"]
         /\ account_of' = [account_of EXCEPT ![t] = a]

RequestSync(a, folders, discover) ==
  /\ pending' = [pending EXCEPT ![a] = Merge(@, folders, discover)]
  /\ QueueActivity(a)
  /\ EnsureDrain(a)
  /\ UNCHANGED <<retired, is_active, syncVars, activity_of, cancelling>>

\* Faulty variant: the queued activity of a cancelled account stays shown.
FinishQueuedForgotten(a) == activities
FinishQueued(a) == activities \ {pending_activity[a]}

\* Faulty variant: the cancelled drain is not remembered.
RetireForgotten(a) == retired
Retire(a) == retired \cup ({running[a]} \ {NoTask})

CancelAccount(a) ==
  /\ pending' = [pending EXCEPT ![a] = NoRequest]
  /\ pending_activity' = [pending_activity EXCEPT ![a] = NoActivity]
  /\ activities' = FinishQueued(a)
  /\ running' = [running EXCEPT ![a] = NoTask]
  /\ retired' = Retire(a)
  /\ cancelling' = [t \in Tasks |-> cancelling[t] \/ t = running[a]]
  /\ UNCHANGED <<is_active, syncVars, pc, account_of, activity_of>>

\* The API commits an account edit before it cancels the account's work.
CommitAccount(a) ==
  /\ is_active' = [is_active EXCEPT ![a] = ~@]
  /\ UNCHANGED <<queueVars, activities, syncVars, taskVars>>

\* A watcher opening its connection, or the token refresh, has the lock.
OutsiderLocks(a) ==
  /\ lock[a] = NoTask
  /\ lock' = [lock EXCEPT ![a] = Outsider]
  /\ UNCHANGED <<queueVars, activities, is_active, permits, taskVars>>

OutsiderUnlocks(a) ==
  /\ lock[a] = Outsider
  /\ lock' = [lock EXCEPT ![a] = NoTask]
  /\ UNCHANGED <<queueVars, activities, is_active, permits, taskVars>>

-----------------------------------------------------------------------------
(* The drain task: the loop of _drain around sync_account.                 *)

Resume(t, from, to) ==
  /\ pc[t] = from
  /\ ~cancelling[t]
  /\ pc' = [pc EXCEPT ![t] = to]

\* The async with of sync_account gives back whatever the task acquired.
\* Faulty variants: a waiter frees a lock it was never granted; a cancelled
\* task keeps its permit.
FreeLockUnheld(t) == [a \in Accounts |-> IF a = account_of[t]
                                         THEN NoTask ELSE lock[a]]
FreeLock(t) == [a \in Accounts |-> IF HoldsLock(t) /\ a = account_of[t]
                                   THEN NoTask ELSE lock[a]]

FreePermitUncancelled(t) ==
  IF HoldsPermit(t) /\ pc[t] # "unwinding" THEN permits + 1 ELSE permits
FreePermit(t) == IF HoldsPermit(t) THEN permits + 1 ELSE permits

Release(t) == lock' = FreeLock(t) /\ permits' = FreePermit(t)

\* Top of the while loop with work queued: pop the merged scope and its
\* activity, after the finally clause finished the previous pass.
TakeRequest(t) ==
  LET a == account_of[t] IN
  /\ pc[t] \in {"created", "closing"}
  /\ ~cancelling[t]
  /\ pending[a] # NoRequest
  /\ Release(t)
  /\ pending' = [pending EXCEPT ![a] = NoRequest]
  /\ pending_activity' = [pending_activity EXCEPT ![a] = NoActivity]
  /\ activity_of' = [activity_of EXCEPT ![t] = pending_activity[a]]
  /\ activities' = activities \ {activity_of[t]}
  /\ pc' = [pc EXCEPT ![t] = "lock"]
  /\ UNCHANGED <<running, retired, is_active, account_of, cancelling>>

\* Only the registered task of an account removes itself from running.
\* Faulty variants: whoever leaves pops the entry; nobody does.
PopRunningOfAnyone(t) == [a \in Accounts |-> IF a = account_of[t]
                                             THEN NoTask ELSE running[a]]
PopRunningNever(t) == running
PopRunning(t) == [a \in Accounts |-> IF a = account_of[t] /\ running[a] = t
                                     THEN NoTask ELSE running[a]]

\* _drain returns or is unwound: both finally clauses, then the callback
\* that discards the task from retired.
Leave(t) ==
  /\ Release(t)
  /\ activities' = activities \ {activity_of[t]}
  /\ running' = PopRunning(t)
  /\ retired' = retired \ {t}
  /\ pc' = [pc EXCEPT ![t] = "free"]
  /\ account_of' = [account_of EXCEPT ![t] = NoAccount]
  /\ activity_of' = [activity_of EXCEPT ![t] = NoActivity]
  /\ cancelling' = [cancelling EXCEPT ![t] = FALSE]
  /\ UNCHANGED <<pending, pending_activity, is_active>>

DrainExits(t) ==
  /\ pc[t] \in {"created", "closing"}
  /\ ~cancelling[t]
  /\ pending[account_of[t]] = NoRequest
  /\ Leave(t)

-----------------------------------------------------------------------------
(* The pass: sync_account up to its awaits.                                *)

AcquireLock(t) ==
  /\ Resume(t, "lock", "semaphore")
  /\ lock[account_of[t]] = NoTask
  /\ lock' = [lock EXCEPT ![account_of[t]] = t]
  /\ UNCHANGED <<queueVars, activities, is_active, permits,
                 account_of, activity_of, cancelling>>

AcquireSemaphore(t) ==
  /\ Resume(t, "semaphore", "select")
  /\ permits > 0
  /\ permits' = permits - 1
  /\ UNCHANGED <<queueVars, activities, is_active, lock,
                 account_of, activity_of, cancelling>>

Step(t, from, to) ==
  /\ Resume(t, from, to)
  /\ UNCHANGED <<queueVars, activities, is_active, syncVars,
                 account_of, activity_of, cancelling>>

\* A missing or inactive account returns from inside the try block.
SelectAccount(t) ==
  \/ Step(t, "select", "opening") /\ is_active[account_of[t]]
  \/ Step(t, "select", "closing") /\ ~is_active[account_of[t]]

OpenSucceeds(t) == Step(t, "opening", "syncing")
OpenFails(t) == Step(t, "opening", "closing")
SyncFinishes(t) == Step(t, "syncing", "closing")

-----------------------------------------------------------------------------
(* CancelledError at the await the task is suspended in.                   *)

Cancelled(t, from, to) ==
  /\ pc[t] = from
  /\ cancelling[t]
  /\ pc' = [pc EXCEPT ![t] = to]
  /\ cancelling' = [cancelling EXCEPT ![t] = FALSE]
  /\ UNCHANGED <<queueVars, activities, is_active, syncVars,
                 account_of, activity_of>>

\* No connection of this pass exists (or only its logout is left): the
\* exception leaves _drain.  A task cancelled before it starts never runs.
CancelledUnconnected(t) ==
  /\ pc[t] \in {"created", "lock", "semaphore", "select", "closing"}
  /\ cancelling[t]
  /\ Leave(t)

\* except CancelledError: client = await opening
CancelledOpening(t) == Cancelled(t, "opening", "abandoned")
CancelledSyncing(t) == Cancelled(t, "syncing", "unwinding")

\* The attempt connected after all: re-raise, shut the client down.
AbandonedOpens(t) == Step(t, "abandoned", "unwinding")

\* The attempt failed: its exception replaces the cancellation, and the
\* except Exception clause of sync_account handles it as a failed sync.
AbandonedFails(t) == Step(t, "abandoned", "closing")

Unwind(t) ==
  /\ pc[t] = "unwinding"
  /\ Leave(t)

-----------------------------------------------------------------------------
Progress(t) ==
  \/ TakeRequest(t) \/ DrainExits(t)
  \/ SelectAccount(t) \/ OpenSucceeds(t) \/ OpenFails(t) \/ SyncFinishes(t)
  \/ CancelledUnconnected(t) \/ CancelledOpening(t) \/ CancelledSyncing(t)
  \/ AbandonedOpens(t) \/ AbandonedFails(t) \/ Unwind(t)

Next ==
  \/ \E a \in Accounts :
       \/ \E f \in FolderScope, d \in BOOLEAN : RequestSync(a, f, d)
       \/ CancelAccount(a)
       \/ CommitAccount(a)
       \/ OutsiderLocks(a)
       \/ OutsiderUnlocks(a)
  \/ \E t \in Tasks : Progress(t) \/ AcquireLock(t) \/ AcquireSemaphore(t)

Spec == Init /\ [][Next]_vars

\* The event loop resumes every ready task, IMAP calls time out after 30 s,
\* and asyncio's Lock and Semaphore wake their waiters first in, first out.
Fairness ==
  /\ \A t \in Tasks : /\ WF_vars(Progress(t))
                      /\ SF_vars(AcquireLock(t))
                      /\ SF_vars(AcquireSemaphore(t))
  /\ \A a \in Accounts : WF_vars(OutsiderUnlocks(a))

FairSpec == Spec /\ Fairness

-----------------------------------------------------------------------------
(* Properties.                                                             *)

TypeOK ==
  /\ running \in [Accounts -> Tasks \cup {NoTask}]
  /\ pending \in [Accounts -> {NoRequest} \cup Request]
  /\ pending_activity \in [Accounts -> ActivityIds \cup {NoActivity}]
  /\ retired \in SUBSET Tasks
  /\ activities \in SUBSET ActivityIds
  /\ is_active \in [Accounts -> BOOLEAN]
  /\ lock \in [Accounts -> Tasks \cup {NoTask, Outsider}]
  /\ permits \in 0 .. MaxConcurrent
  /\ pc \in [Tasks -> PC]
  /\ account_of \in [Tasks -> Accounts \cup {NoAccount}]
  /\ activity_of \in [Tasks -> ActivityIds \cup {NoActivity}]
  /\ cancelling \in [Tasks -> BOOLEAN]

\* A queued request always has a drain of its account that is registered in
\* running, not cancelled, and still has to look at pending: no interleaving
\* of requests, cancellations and exits of older drains loses a wakeup.
NoLostRequest ==
  \A a \in Accounts : pending[a] # NoRequest =>
    /\ running[a] \in Tasks \ retired
    /\ Live(running[a])
    /\ account_of[running[a]] = a
    /\ ~cancelling[running[a]]

\* Every drain alive is reachable for a later cancel or for the shutdown's
\* gather: it is its account's running task or in retired, never both.
EveryDrainSupervised ==
  /\ \A t \in Tasks :
       Live(t) => (t \in retired <=> running[account_of[t]] # t)
  /\ \A t \in retired : Live(t)

\* What makes the two facts above inductive.  A registered drain is alive,
\* works for the account it is registered under and was not cancelled; every
\* other drain alive is in retired; only retired drains see a cancellation.
Supervision ==
  /\ \A a \in Accounts : running[a] # NoTask =>
       /\ Live(running[a])
       /\ account_of[running[a]] = a
       /\ running[a] \notin retired
  /\ \A a \in Accounts : pending[a] # NoRequest => running[a] # NoTask
  /\ \A t \in Tasks : Live(t) =>
       /\ account_of[t] \in Accounts
       /\ t \in retired \/ running[account_of[t]] = t
  /\ \A t \in Tasks : cancelling[t] \/ pc[t] \in {"abandoned", "unwinding"}
                        => t \in retired
  /\ \A t \in retired : Live(t)

\* A pass works on an account only under that account's lock, so the passes
\* of retired drains and of their replacement never overlap.
PassesSerialized ==
  \A a \in Accounts, t \in Tasks :
    HoldsLock(t) /\ account_of[t] = a <=> lock[a] = t

\* No path out of a pass, cancelled or not, leaks or double-frees a permit.
PermitHolders == {t \in Tasks : HoldsPermit(t)}
PermitsConserved == permits + Cardinality(PermitHolders) = MaxConcurrent

\* The activities shown to clients are exactly those of queued requests and
\* of passes under way: none outlives its request, and none is shared.
ActivitiesAccounted ==
  /\ activities = ({pending_activity[a] : a \in Accounts}
                    \cup {activity_of[t] : t \in Tasks}) \ {NoActivity}
  /\ \A a, b \in Accounts : pending_activity[a] = pending_activity[b]
                              => a = b \/ pending_activity[a] = NoActivity
  /\ \A t, u \in Tasks : activity_of[t] = activity_of[u]
                              => t = u \/ activity_of[t] = NoActivity
  /\ \A a \in Accounts, t \in Tasks : pending_activity[a] = activity_of[t]
                              => activity_of[t] = NoActivity
  /\ \A a \in Accounts :
       pending[a] = NoRequest <=> pending_activity[a] = NoActivity

\* requests.py's first line, "one running pass and one merged follow-up
\* scope per account": no two drains of an account both have a scope to work
\* on, unless one of them is cancelled or already giving up its pass.
Working(t) == ~cancelling[t] /\ pc[t] \in {"lock", "semaphore", "select",
                                         "opening", "syncing"}
OneRunningPass ==
  \A t, u \in Tasks : Working(t) /\ Working(u)
                        => t = u \/ account_of[t] # account_of[u]

\* The abstract service: an item is wanted while a queued scope covers it.
Discovery == "discovery"
ScopeItems(r) ==
  IF r = NoRequest THEN {}
  ELSE (IF r.folders = AllFolders THEN Folders ELSE r.folders)
       \cup (IF r.discover THEN {Discovery} ELSE {})

Service == INSTANCE SyncService WITH
  Items <- Folders \cup {Discovery},
  wanted <- [a \in Accounts |-> ScopeItems(pending[a])],
  syncing <- {account_of[t] : t \in PermitHolders}

\* Merging never drops an item, whole scopes are taken or dropped, passes of
\* an account exclude each other and are globally bounded.
ImplementsService == Service!Spec

\* Whatever was requested is eventually handed to a pass or cancelled.
RequestsServed == Service!Served
=============================================================================
