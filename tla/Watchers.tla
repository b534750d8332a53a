------------------------------ MODULE Watchers ------------------------------
(***************************************************************************)
(* sync/scheduler.py: the supervisor keeps one IDLE watcher (_watch) per   *)
(* inbox folder of an active account.  Its view of the database may be     *)
(* stale by the time it acts on it, account edits cancel watchers at any   *)
(* await, and a cancelled watcher lives on until its connection is closed. *)
(* The account lock is shared with Outsiders: the passes and the token     *)
(* refresh.  One account is modelled; the tasks of different accounts      *)
(* share no lock and no entry.                                             *)
(*                                                                         *)
(* The pc of a watcher names the await it is suspended in:                 *)
(*   created     scheduled, not entered yet                                *)
(*   lock        waiting for the account lock                              *)
(*   select      reading the account row                                   *)
(*   opening     awaiting shield(opening)                                  *)
(*   abandoned   cancelled, awaiting that attempt in the except clause     *)
(*   opened      connected, leaving the session under the lock             *)
(*   setup       registered in _clients, entering IDLE                     *)
(*   logout      logging out, the server has no IDLE                       *)
(*   subscribed  IDLE entered, the catch-up not requested yet              *)
(*   idling      in idle_check                                             *)
(*   renewing    in idle_done, after idle_check returned                   *)
(*   resuming    in the IDLE after it                                      *)
(*   polling     sleeping after that                                       *)
(*   backoff     sleeping after a failure                                  *)
(*   closing     in client.shutdown, to reconnect afterwards               *)
(*   unwinding   in client.shutdown, CancelledError in flight              *)
(*   leaving     joining the executor                                      *)
(*   done        finished, still registered in _tasks                      *)
(***************************************************************************)
EXTENDS Naturals

CONSTANTS Folders,      \* folders of the account that may be marked as inbox
          Watchers,     \* bound: watcher tasks alive at the same time
          MaxEdits,     \* bound: account edits
          Outsiders,    \* other tasks that take the account lock
          NoTask, NoFolder

ASSUME WatcherAssumption == /\ NoTask \notin Watchers \cup Outsiders
                            /\ Watchers \cap Outsiders = {}
                            /\ MaxEdits \in Nat

VARIABLES
  is_active, inbox,    \* the account row and its is_inbox folders, committed
  edit,                \* an edit is committed, the scheduler not told yet
  edits,               \* bound: edits so far
  sup, seen,           \* the supervisor: its pc and what _tick has read
  last_full,           \* the account has an entry in _last_full
  tasks, clients,      \* _tasks (and _accounts), _clients: a watcher or NoTask
  background,          \* _background: cancelled watchers, not done yet
  status,              \* state in live.watchers
  lock,                \* _account_locks[account]
  pc, folder_of,       \* the watchers: where they are, what they watch,
  client,              \*   their local client and
  cancelling,          \*   task.cancel() called, not raised yet
  notice,              \* the server has a response for this IDLE connection
  heard,               \* responses of the idle_check just returned
  news,                \* mail nobody has requested a sync for
  missed               \* ghost: all that was heard of it is what idle_done returned

account == <<is_active, inbox, edit, edits>>
supervisor == <<sup, seen, last_full>>
registry == <<tasks, clients, background>>
task == <<pc, folder_of, client, cancelling>>
idle == <<notice, heard>>
mail == <<news, missed>>
vars == <<account, supervisor, registry, status, lock, task, idle, mail>>

Connected == {"subscribed", "idling", "renewing", "resuming"}
HasLock == {"select", "opening", "abandoned", "opened"}
Gone == {"free", "done"}
PC == Connected \cup HasLock \cup Gone \cup
      {"created", "lock", "setup", "logout", "polling", "backoff",
       "closing", "unwinding", "leaving"}
Status == {"none", "connecting", "polling", "reconciling", "connected",
           "reconnecting"}

Init ==
  /\ is_active = TRUE /\ inbox = Folders
  /\ edit = FALSE /\ edits = 0
  /\ sup = "waiting" /\ seen = [active |-> FALSE, inbox |-> {}]
  /\ last_full = FALSE
  /\ tasks = [f \in Folders |-> NoTask]
  /\ clients = [f \in Folders |-> NoTask]
  /\ background = {}
  /\ status = [f \in Folders |-> "none"]
  /\ lock = NoTask
  /\ pc = [t \in Watchers |-> "free"]
  /\ folder_of = [t \in Watchers |-> NoFolder]
  /\ client = [t \in Watchers |-> "none"]
  /\ cancelling = [t \in Watchers |-> FALSE]
  /\ notice = [t \in Watchers |-> FALSE]
  /\ heard = [t \in Watchers |-> FALSE]
  /\ news = [f \in Folders |-> TRUE] /\ missed = [f \in Folders |-> FALSE]

-----------------------------------------------------------------------------
(* Shared pieces: request_sync, _close and _stop_folder.                   *)

\* A pass over S begins after this request, so it lists what is there now.
Request(S) == /\ news' = [f \in Folders |-> news[f] /\ f \notin S]
              /\ missed' = [f \in Folders |-> missed[f] /\ f \notin S]

\* cancel_account: what was requested is not done.
Withdraw == /\ news' = [f \in Folders |-> TRUE]
            /\ missed' = [f \in Folders |-> FALSE]

Forget(T) == [f \in Folders |-> IF clients[f] \in T THEN NoTask ELSE clients[f]]
Sever(T) == [t \in Watchers |-> IF t \in T THEN "severed" ELSE client[t]]

\* The clients _close(folder_id, client) shuts down: only the caller's own.
\* Faulty variants: whichever is registered for the folder; none.
ClosedByNone(t) == {}
ClosedByAny(t) == {clients[folder_of[t]]} \ {NoTask}
ClosedBy(t) == {clients[folder_of[t]]} \cap {t}

\* _stop_folder: the watcher is cancelled and kept in _background until it is
\* done.  Faulty variant: it is forgotten.
RetireForgotten(S) == background
Retire(S) == background \cup {t \in Watchers : /\ pc[t] # "done"
                                               /\ \E f \in S : tasks[f] = t}

\* _stop_folder for the registered folders in S, then a new watcher for each
\* folder in the domain of started.
Restart(S, started) ==
  LET Stops(t) == \E f \in S : tasks[f] = t
      Starts(t) == \E f \in DOMAIN started : started[f] = t
      closed == {clients[f] : f \in S}
  IN
  /\ tasks' = [f \in Folders |-> IF f \in DOMAIN started THEN started[f]
                                 ELSE IF f \in S THEN NoTask ELSE tasks[f]]
  /\ clients' = Forget(closed)
  /\ client' = Sever(closed)
  /\ background' = Retire(S)
  /\ cancelling' = [t \in Watchers |->
                      cancelling[t] \/ (Stops(t) /\ pc[t] # "done")]
  /\ pc' = [t \in Watchers |-> IF Starts(t) THEN "created"
                               ELSE IF Stops(t) /\ pc[t] = "done" THEN "free"
                               ELSE pc[t]]
  /\ folder_of' = [t \in Watchers |->
                     IF Starts(t) THEN CHOOSE f \in DOMAIN started : started[f] = t
                     ELSE IF Stops(t) /\ pc[t] = "done" THEN NoFolder
                     ELSE folder_of[t]]

\* live.watchers after the same: stopped folders lose their entry, started
\* ones get a new one.  Faulty variant: stopped folders keep theirs.
StatusAfterKept(S, started) ==
  [f \in Folders |-> IF f \in started THEN "connecting" ELSE status[f]]
StatusAfter(S, started) ==
  [f \in Folders |-> IF f \in started THEN "connecting"
                     ELSE IF f \in S THEN "none" ELSE status[f]]

Registered == {f \in Folders : tasks[f] # NoTask}

-----------------------------------------------------------------------------
(* Account edits: update_account, update_account_folders, delete_account   *)
(* and /retry commit first and tell the scheduler after another await.     *)

CommitEdit ==
  /\ ~edit /\ edits < MaxEdits
  /\ edit' = TRUE /\ edits' = edits + 1
  /\ is_active' \in BOOLEAN
  /\ inbox' \in SUBSET Folders
  /\ UNCHANGED <<supervisor, registry, status, lock, task, idle, mail>>

\* unschedule_account_sync; the requests queued for the account are dropped.
Unschedule ==
  /\ edit
  /\ edit' = FALSE
  /\ Restart(Registered, <<>>)
  /\ status' = StatusAfter(Registered, {})
  /\ last_full' = FALSE
  /\ Withdraw
  /\ UNCHANGED <<is_active, inbox, edits, sup, seen, lock, idle>>

-----------------------------------------------------------------------------
(* The supervisor: _tick reads in one transaction and acts after it.       *)

TickReads ==
  /\ sup = "waiting"
  /\ seen' = [active |-> is_active, inbox |-> inbox]
  /\ sup' = "ticking"
  /\ UNCHANGED <<account, last_full, registry, status, lock, task, idle, mail>>

Desired == IF seen.active THEN seen.inbox ELSE {}

\* Folders whose watcher goes: not wanted, finished, or their account gone.
\* Faulty variant: only finished watchers are looked for.
StoppingFinished == {f \in Registered : pc[tasks[f]] = "done"}
Stopping == {f \in Registered : f \notin Desired \/ pc[tasks[f]] = "done"}
Dropped == last_full /\ ~seen.active

\* A first full request, or one for whatever has not been refreshed for an
\* interval: the timers of the folders in due have run out.
\* Faulty variant: the timers are not looked at.
RefreshedOnce(due) == IF ~seen.active \/ last_full THEN {} ELSE Folders
Refreshed(due) == IF ~seen.active THEN {} ELSE IF last_full THEN due ELSE Folders

Starting == {f \in Desired : tasks[f] = NoTask \/ f \in Stopping}

TickActs(due) ==
  /\ sup = "ticking"
  /\ sup' = "waiting"
  /\ \E started \in [Starting -> {t \in Watchers : pc[t] = "free"}] :
       /\ \A f, g \in Starting : started[f] = started[g] => f = g
       /\ Restart(Stopping, started)
  /\ status' = StatusAfter(IF seen.active THEN Stopping ELSE Folders, Starting)
  /\ IF Dropped THEN Withdraw ELSE Request(Refreshed(due))
  /\ last_full' = seen.active
  /\ seen' = [active |-> FALSE, inbox |-> {}]
  /\ UNCHANGED <<account, lock, idle>>

-----------------------------------------------------------------------------
(* A watcher connects: under the account lock up to the open connection.   *)

Goes(t, from, to) ==
  /\ pc[t] = from
  /\ ~cancelling[t]
  /\ pc' = [pc EXCEPT ![t] = to]
  /\ UNCHANGED <<folder_of, cancelling>>

SetWatcher(t, state) == status' = [status EXCEPT ![folder_of[t]] = state]
Unlock(t) == lock' = IF lock = t THEN NoTask ELSE lock

Enter(t) ==
  /\ Goes(t, "created", "lock")
  /\ SetWatcher(t, "connecting")
  /\ UNCHANGED <<account, supervisor, registry, lock, client, idle, mail>>

AcquireLock(t) ==
  /\ Goes(t, "lock", "select")
  /\ lock = NoTask
  /\ lock' = t
  /\ UNCHANGED <<account, supervisor, registry, status, client, idle, mail>>

SelectAccount(t) ==
  /\ \/ Goes(t, "select", "opening") /\ is_active /\ lock' = lock
     \/ Goes(t, "select", "leaving") /\ ~is_active /\ Unlock(t)
  /\ UNCHANGED <<account, supervisor, registry, status, client, idle, mail>>

OpenSucceeds(t) ==
  /\ Goes(t, "opening", "opened")
  /\ client' = [client EXCEPT ![t] = "open"]
  /\ UNCHANGED <<account, supervisor, registry, status, lock, idle, mail>>

OpenFails(t) ==
  /\ Goes(t, "opening", "backoff")
  /\ Unlock(t)
  /\ SetWatcher(t, "reconnecting")
  /\ UNCHANGED <<account, supervisor, registry, client, idle, mail>>

Register(t) ==
  /\ Goes(t, "opened", "setup")
  /\ Unlock(t)
  /\ clients' = [clients EXCEPT ![folder_of[t]] = t]
  /\ UNCHANGED <<account, supervisor, tasks, background, status, client, idle,
                 mail>>

-----------------------------------------------------------------------------
(* A watcher idles.  What the server has to say waits in notice until an   *)
(* idle_check returns it.                                                  *)

EnterIdle(t) ==
  /\ Goes(t, "setup", "subscribed")
  /\ client[t] = "open"
  /\ UNCHANGED <<account, supervisor, registry, status, lock, client, idle,
                 mail>>

\* No IDLE: log out, forget whatever is registered, and poll.
FallBack(t) ==
  /\ Goes(t, "setup", "logout")
  /\ client[t] = "open"
  /\ SetWatcher(t, "polling")
  /\ UNCHANGED <<account, supervisor, registry, lock, client, idle, mail>>

LoggedOut(t) ==
  /\ Goes(t, "logout", "polling")
  /\ client[t] = "open"
  /\ client' = [client EXCEPT ![t] = "none"]
  /\ clients' = [clients EXCEPT ![folder_of[t]] = NoTask]
  /\ UNCHANGED <<account, supervisor, tasks, background, status, lock, idle, mail>>

\* Faulty variant: the request before IDLE is relied upon.
CatchUpRelied(t) ==
  /\ Goes(t, "subscribed", "idling")
  /\ SetWatcher(t, "reconciling")
  /\ UNCHANGED <<account, supervisor, registry, lock, client, idle, mail>>
CatchUp(t) ==
  /\ Goes(t, "subscribed", "idling")
  /\ SetWatcher(t, "reconciling")
  /\ Request({folder_of[t]})
  /\ UNCHANGED <<account, supervisor, registry, lock, client, idle>>

\* Responses, or IDLE_RENEW_SECONDS without any.
CheckReturns(t) ==
  /\ Goes(t, "idling", "renewing")
  /\ client[t] = "open"
  /\ heard' = [heard EXCEPT ![t] = notice[t]]
  /\ notice' = [notice EXCEPT ![t] = FALSE]
  /\ UNCHANGED <<account, supervisor, registry, status, lock, client, mail>>

\* idle_done returns what arrived since idle_check; the result is not used.
IdleDone(t) ==
  /\ Goes(t, "renewing", "resuming")
  /\ client[t] = "open"
  /\ notice' = [notice EXCEPT ![t] = FALSE]
  /\ missed' = [missed EXCEPT ![folder_of[t]] = @ \/ (notice[t] /\ news[folder_of[t]])]
  /\ UNCHANGED <<account, supervisor, registry, status, lock, client, heard,
                 news>>

EventFolders(t) == IF heard[t] THEN {folder_of[t]} ELSE {}

IdleAgain(t) ==
  /\ Goes(t, "resuming", "idling")
  /\ client[t] = "open"
  /\ Request(EventFolders(t))
  /\ heard' = [heard EXCEPT ![t] = FALSE]
  /\ UNCHANGED <<account, supervisor, registry, status, lock, client, notice>>

\* live.synced, by whichever pass over the folder ends first.
Synced(f) ==
  /\ status[f] = "reconciling"
  /\ status' = [status EXCEPT ![f] = "connected"]
  /\ UNCHANGED <<account, supervisor, registry, lock, task, idle, mail>>

-----------------------------------------------------------------------------
(* A watcher fails and reconnects.                                         *)

Quiet(t) == /\ notice' = [notice EXCEPT ![t] = FALSE]
            /\ heard' = [heard EXCEPT ![t] = FALSE]

\* BYE, a lost or shut down socket, a database error before connecting.
\* The state "error" of a failed login is shown alike and not told apart.
\* Faulty variant: a state the health computation has no case for.
FailureStateUnknown(t) == "failed"
FailureState(t) == "reconnecting"

Fails(t) ==
  /\ \E from \in {"select", "setup", "logout"} \cup Connected : Goes(t, from, "backoff")
  /\ Unlock(t)
  /\ SetWatcher(t, FailureState(t))
  /\ clients' = Forget(ClosedBy(t))
  /\ client' = Sever(ClosedBy(t))
  /\ Quiet(t)
  /\ UNCHANGED <<account, supervisor, tasks, background, mail>>

BackoffEnds(t) ==
  /\ \/ /\ Goes(t, "backoff", "closing") /\ client[t] # "none"
        /\ status' = status
     \/ /\ Goes(t, "backoff", "lock") /\ client[t] = "none"
        /\ SetWatcher(t, "connecting")
     \/ /\ Goes(t, "polling", "lock")
        /\ SetWatcher(t, "connecting")
  /\ UNCHANGED <<account, supervisor, registry, lock, client, idle, mail>>

Closed(t) ==
  /\ Goes(t, "closing", "lock")
  /\ client' = [client EXCEPT ![t] = "none"]
  /\ SetWatcher(t, "connecting")
  /\ UNCHANGED <<account, supervisor, registry, lock, idle, mail>>

-----------------------------------------------------------------------------
(* CancelledError at the await the watcher is suspended in.                *)

\* A finished task stays registered until a tick or an edit removes it.
Exits(t) ==
  /\ pc' = [pc EXCEPT ![t] = IF tasks[folder_of[t]] = t THEN "done" ELSE "free"]
  /\ folder_of' = [folder_of EXCEPT ![t] = IF tasks[folder_of[t]] = t THEN @
                                           ELSE NoFolder]
  /\ background' = background \ {t}
  /\ cancelling' = [cancelling EXCEPT ![t] = FALSE]
  /\ UNCHANGED <<account, supervisor, tasks, clients, status, lock, client,
                 idle, mail>>

\* Before its first step, or while the executor is joined.
CancelledOutside(t) ==
  /\ pc[t] \in {"created", "leaving"}
  /\ cancelling[t]
  /\ Exits(t)

Cancelled(t, to) ==
  /\ cancelling[t]
  /\ pc' = [pc EXCEPT ![t] = to]
  /\ cancelling' = [cancelling EXCEPT ![t] = FALSE]
  /\ Unlock(t)
  /\ clients' = Forget(ClosedBy(t))
  /\ client' = IF to = "leaving" THEN [client EXCEPT ![t] = "none"]
               ELSE Sever(ClosedBy(t))
  /\ Quiet(t)
  /\ UNCHANGED <<account, supervisor, tasks, background, status, folder_of, mail>>

\* No connection, or its shutdown already under way in the executor.
CancelledUnconnected(t) ==
  /\ \/ pc[t] \in {"lock", "select", "polling", "closing"}
     \/ pc[t] = "backoff" /\ client[t] = "none"
  /\ Cancelled(t, "leaving")

CancelledConnected(t) ==
  /\ \/ pc[t] \in {"opened", "setup", "logout"} \cup Connected
     \/ pc[t] = "backoff" /\ client[t] # "none"
  /\ Cancelled(t, "unwinding")

\* except CancelledError: client = await opening
CancelledOpening(t) ==
  /\ pc[t] = "opening"
  /\ cancelling[t]
  /\ pc' = [pc EXCEPT ![t] = "abandoned"]
  /\ cancelling' = [cancelling EXCEPT ![t] = FALSE]
  /\ UNCHANGED <<account, supervisor, registry, status, lock, folder_of,
                 client, idle, mail>>

AbandonedOpens(t) ==
  /\ Goes(t, "abandoned", "unwinding")
  /\ Unlock(t)
  /\ client' = [client EXCEPT ![t] = "open"]
  /\ UNCHANGED <<account, supervisor, registry, status, idle, mail>>

\* The attempt's own exception replaces the cancellation, and the watcher
\* goes on like any other that failed to connect.
AbandonedFails(t) ==
  /\ Goes(t, "abandoned", "backoff")
  /\ Unlock(t)
  /\ SetWatcher(t, "reconnecting")
  /\ UNCHANGED <<account, supervisor, registry, client, idle, mail>>

Unwind(t) ==
  /\ Goes(t, "unwinding", "leaving")
  /\ client' = [client EXCEPT ![t] = "none"]
  /\ UNCHANGED <<account, supervisor, registry, status, lock, idle, mail>>

Leave(t) ==
  /\ pc[t] = "leaving"
  /\ ~cancelling[t]
  /\ Exits(t)

-----------------------------------------------------------------------------
(* The environment.                                                        *)

\* The server tells every IDLE connection to the folder.
Arrive(f) ==
  /\ news' = [news EXCEPT ![f] = TRUE] /\ missed' = [missed EXCEPT ![f] = FALSE]
  /\ notice' = [t \in Watchers |-> \/ notice[t]
                                   \/ /\ pc[t] \in Connected
                                      /\ folder_of[t] = f
                                      /\ client[t] = "open"]
  /\ UNCHANGED <<account, supervisor, registry, status, lock, task, heard>>

OutsiderLocks(o) ==
  /\ lock = NoTask
  /\ lock' = o
  /\ UNCHANGED <<account, supervisor, registry, status, task, idle, mail>>

OutsiderUnlocks(o) ==
  /\ lock = o
  /\ lock' = NoTask
  /\ UNCHANGED <<account, supervisor, registry, status, task, idle, mail>>

-----------------------------------------------------------------------------
Progress(t) ==
  \/ Enter(t) \/ SelectAccount(t) \/ OpenSucceeds(t) \/ OpenFails(t)
  \/ Register(t) \/ EnterIdle(t) \/ FallBack(t) \/ LoggedOut(t) \/ CatchUp(t)
  \/ CheckReturns(t) \/ IdleDone(t) \/ IdleAgain(t)
  \/ Fails(t) \/ BackoffEnds(t) \/ Closed(t)
  \/ CancelledOutside(t) \/ CancelledUnconnected(t) \/ CancelledConnected(t)
  \/ CancelledOpening(t) \/ AbandonedOpens(t) \/ AbandonedFails(t)
  \/ Unwind(t) \/ Leave(t)

Next ==
  \/ CommitEdit \/ Unschedule
  \/ TickReads \/ \E due \in SUBSET Folders : TickActs(due)
  \/ \E t \in Watchers : Progress(t) \/ AcquireLock(t)
  \/ \E f \in Folders : Arrive(f) \/ Synced(f)
  \/ \E o \in Outsiders : OutsiderLocks(o) \/ OutsiderUnlocks(o)

Spec == Init /\ [][Next]_vars

\* The event loop resumes every task, calls on a connection time out, the
\* supervisor ticks every 5 s, and every refresh interval runs out.
Fairness ==
  /\ \A t \in Watchers : WF_vars(Progress(t)) /\ SF_vars(AcquireLock(t))
  /\ WF_vars(Unschedule) /\ WF_vars(TickReads)
  /\ \A o \in Outsiders : WF_vars(OutsiderUnlocks(o))
  /\ WF_vars(\E due \in SUBSET Folders : TickActs(due))
  /\ \A f \in Folders :
       SF_vars(\E due \in SUBSET Folders : f \in due /\ TickActs(due))

FairSpec == Spec /\ Fairness

-----------------------------------------------------------------------------
(* Properties.                                                             *)

TypeOK ==
  /\ is_active \in BOOLEAN /\ inbox \in SUBSET Folders
  /\ edit \in BOOLEAN /\ edits \in 0 .. MaxEdits
  /\ sup \in {"waiting", "ticking"}
  /\ seen \in [active : BOOLEAN, inbox : SUBSET Folders]
  /\ last_full \in BOOLEAN
  /\ tasks \in [Folders -> Watchers \cup {NoTask}]
  /\ clients \in [Folders -> Watchers \cup {NoTask}]
  /\ background \in SUBSET Watchers
  /\ status \in [Folders -> Status]
  /\ lock \in Watchers \cup Outsiders \cup {NoTask}
  /\ pc \in [Watchers -> PC]
  /\ folder_of \in [Watchers -> Folders \cup {NoFolder}]
  /\ client \in [Watchers -> {"none", "open", "severed"}]
  /\ cancelling \in [Watchers -> BOOLEAN]
  /\ notice \in [Watchers -> BOOLEAN]
  /\ heard \in [Watchers -> BOOLEAN]
  /\ news \in [Folders -> BOOLEAN] /\ missed \in [Folders -> BOOLEAN]

\* Every watcher alive is the registered one of its folder or in _background,
\* where the shutdown waits for it; cancelled ones are never registered, so an
\* edit never stops a watcher twice and never misses one.
WatchersSupervised ==
  /\ \A t \in Watchers \ background : pc[t] # "free" => tasks[folder_of[t]] = t
  /\ \A t \in background :
       /\ pc[t] \notin Gone
       /\ \A f \in Folders : tasks[f] # t
  /\ \A t \in Watchers : cancelling[t] => t \in background

\* A connection belongs to a task that will still shut it down, and what
\* _clients names is an open connection of a watcher of that folder, never one
\* that its owner has given up.  Connecting, and with
\* it the use of the stored token cache, is done by one task at a time,
\* cancelled ones included.
ConnectionsOwned ==
  /\ \A t \in Watchers : pc[t] \in HasLock <=> lock = t
  /\ \A t \in Watchers : client[t] # "none" => pc[t] \notin Gone \cup {"leaving"}
  /\ \A f \in Folders : clients[f] # NoTask =>
       /\ folder_of[clients[f]] = f
       /\ client[clients[f]] = "open"

\* A folder is shown as connected or reconciling only while a watcher of it
\* that is not cancelled has an IDLE connection.
Subscribes(t, f) == /\ pc[t] \in Connected \ {"subscribed"}
                    /\ folder_of[t] = f /\ ~cancelling[t]
StatusHonest ==
  \A f \in Folders : status[f] \in {"reconciling", "connected"}
                       => \E t \in Watchers : Subscribes(t, f)

\* What arrives in a folder that is shown as connected or reconciling waits in
\* its IDLE connection, or has been requested: no gap is left between a pass and
\* IDLE, by a new connection or by one that is renewed.  The exception is what
\* idle_done returns, which is thrown away.
Heard(t) == notice[t] \/ (heard[t] /\ pc[t] # "idling")
NewsNoticed ==
  \A f \in Folders :
    tasks[f] # NoTask /\ Subscribes(tasks[f], f) /\ news[f] => Heard(tasks[f]) \/ missed[f]

\* A watcher that gives up its connection, perhaps long after it was replaced,
\* never shuts down the connection of another one: a socket is shut down by
\* its owner, or because the watcher of its folder is being stopped.
ClosesOnlyItsOwn ==
  [][\A t \in Watchers :
       client[t] = "open" /\ client'[t] = "severed" =>
         \/ pc'[t] # pc[t]
         \/ tasks'[folder_of[t]] # tasks[folder_of[t]]]_vars

\* Once edits stop, every inbox of an active account is registered with a
\* watcher that is running, and no other folder is: stale reads of _tick, slow
\* exits of older watchers and finished ones are all made up for.
Watched(f) == /\ tasks[f] # NoTask
              /\ pc[tasks[f]] \notin Gone
              /\ ~cancelling[tasks[f]]
SettlesOnDesired ==
  <>[](\A f \in Folders : IF is_active /\ f \in inbox THEN Watched(f)
                          ELSE tasks[f] = NoTask)

\* Whatever arrives, whenever it does, a sync is requested for it eventually.
NewsServed == \A f \in Folders : news[f] ~> (~news[f] \/ ~is_active)
=============================================================================
