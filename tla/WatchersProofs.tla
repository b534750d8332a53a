--------------------------- MODULE WatchersProofs ---------------------------
(***************************************************************************)
(* Proofs about Watchers for any number of folders, of watchers alive at   *)
(* the same time, of account edits and of other tasks at the account lock. *)
(***************************************************************************)
EXTENDS Watchers, TLAPS

\* Where a watcher may have a connection that nobody has shut down yet.
HasClient == {"opened", "setup", "logout", "backoff", "closing", "unwinding"} \cup Connected

\* A task knows its folder, and _tasks names it under that folder.
TasksNamed ==
  /\ \A t \in Watchers : pc[t] # "free" => folder_of[t] \in Folders
  /\ \A f \in Folders : tasks[f] # NoTask =>
       folder_of[tasks[f]] = f /\ pc[tasks[f]] # "free"

\* Connections are where their owner can shut them down, and registered only
\* while it uses them.
ClientsPlaced ==
  /\ \A t \in Watchers : client[t] # "none" => pc[t] \in HasClient
  /\ \A t \in Watchers : pc[t] = "opened" => client[t] = "open"
  /\ \A f \in Folders : clients[f] # NoTask => pc[clients[f]] \in {"setup", "logout"} \cup Connected

\* The inductive invariant.
IInv == /\ TypeOK /\ WatchersSupervised /\ ConnectionsOwned /\ StatusHonest
        /\ TasksNamed /\ ClientsPlaced

USE WatcherAssumption
USE DEF account, supervisor, registry, task, idle, mail,
        PC, Connected, HasLock, Gone, Status, HasClient

-----------------------------------------------------------------------------
\* The server starts with no watcher.
LEMMA InitInvariant == Init => IInv
<1> SUFFICES ASSUME Init PROVE IInv
  OBVIOUS
<1> USE DEF Init
<1>1. TypeOK
  <2>1. seen \in [active : BOOLEAN, inbox : SUBSET Folders] /\ edits \in 0 .. MaxEdits
    OBVIOUS
  <2> QED BY <2>1 DEF TypeOK
<1>2. WatchersSupervised /\ TasksNamed
  BY DEF WatchersSupervised, TasksNamed
<1>3. ConnectionsOwned /\ ClientsPlaced
  BY DEF ConnectionsOwned, ClientsPlaced
<1>4. StatusHonest
  BY DEF StatusHonest
<1> QED BY <1>1, <1>2, <1>3, <1>4 DEF IInv

-----------------------------------------------------------------------------
(* Stopping and starting watchers.                                         *)

\* A registered watcher is registered once, for the folder it watches, and is
\* not cancelled yet.
LEMMA StopsItsFolder ==
  ASSUME IInv, NEW t \in Watchers, NEW f \in Folders, tasks[f] = t
  PROVE  /\ folder_of[t] = f /\ pc[t] # "free" /\ t \notin background
         /\ ~ cancelling[t]
         /\ \A g \in Folders : tasks[g] = t => g = f
BY DEF IInv, TypeOK, WatchersSupervised, TasksNamed

\* _stop_folder for the folders in S and new watchers for those in D keep the
\* invariant if no folder loses a watcher that is still registered, and no
\* stopped folder is shown as connected.
LEMMA RestartInvariant ==
  ASSUME IInv, NEW S \in SUBSET Registered, NEW D \in SUBSET Folders,
         NEW started \in [D -> {t \in Watchers : pc[t] = "free"}],
         \A f, g \in D : started[f] = started[g] => f = g,
         \A f \in D : tasks[f] = NoTask \/ f \in S,
         Restart(S, started), UNCHANGED <<lock, idle>>,
         \A f \in Folders : status'[f] \in {"reconciling", "connected"}
           => f \notin S /\ status'[f] = status[f]
  PROVE  /\ tasks' \in [Folders -> Watchers \cup {NoTask}]
         /\ clients' \in [Folders -> Watchers \cup {NoTask}]
         /\ background' \in SUBSET Watchers
         /\ pc' \in [Watchers -> PC]
         /\ folder_of' \in [Watchers -> Folders \cup {NoFolder}]
         /\ client' \in [Watchers -> {"none", "open", "severed"}]
         /\ cancelling' \in [Watchers -> BOOLEAN]
         /\ WatchersSupervised' /\ ConnectionsOwned' /\ StatusHonest'
         /\ TasksNamed' /\ ClientsPlaced'
<1> DEFINE Stops(t) == \E f \in S : tasks[f] = t
           Starts(t) == \E f \in D : started[f] = t
           FolderFor(t) == CHOOSE f \in D : started[f] = t
<1> USE DEF IInv
<1>1. S \subseteq Folders /\ \A f \in S : tasks[f] \in Watchers
  BY DEF Registered, TypeOK
<1>2. /\ tasks' = [f \in Folders |-> IF f \in D THEN started[f]
                                     ELSE IF f \in S THEN NoTask ELSE tasks[f]]
      /\ background' = background \cup {t \in Watchers : pc[t] # "done" /\ Stops(t)}
      /\ cancelling' = [t \in Watchers |->
                          cancelling[t] \/ (Stops(t) /\ pc[t] # "done")]
      /\ pc' = [t \in Watchers |-> IF Starts(t) THEN "created"
                                   ELSE IF Stops(t) /\ pc[t] = "done" THEN "free"
                                   ELSE pc[t]]
      /\ folder_of' = [t \in Watchers |->
                         IF Starts(t) THEN FolderFor(t)
                         ELSE IF Stops(t) /\ pc[t] = "done" THEN NoFolder
                         ELSE folder_of[t]]
  BY DEF Restart, Retire
<1>3. /\ clients' = [f \in Folders |-> IF clients[f] \in {clients[g] : g \in S}
                                       THEN NoTask ELSE clients[f]]
      /\ client' = [t \in Watchers |-> IF t \in {clients[g] : g \in S}
                                       THEN "severed" ELSE client[t]]
  BY DEF Restart, Forget, Sever
<1>4. \A t \in Watchers : Starts(t) =>
        /\ pc[t] = "free" /\ FolderFor(t) \in D /\ started[FolderFor(t)] = t
  OBVIOUS
<1>5. \A f \in D : started[f] \in Watchers /\ Starts(started[f])
                   /\ FolderFor(started[f]) = f
  BY <1>4
<1>6. \A t \in Watchers : Stops(t) =>
        /\ ~ Starts(t) /\ folder_of[t] \in S /\ tasks[folder_of[t]] = t
        /\ t \notin background
  BY <1>1, <1>4, StopsItsFolder
<1>7. \A t \in Watchers : pc[t] = "free" =>
        /\ t \notin background /\ client[t] = "none" /\ ~ cancelling[t]
        /\ \A f \in Folders : tasks[f] # t /\ clients[f] # t
  BY DEF WatchersSupervised, ConnectionsOwned, TasksNamed, ClientsPlaced, TypeOK
<1>8. \A f \in Folders : \A g \in Folders :
        clients[f] = clients[g] /\ clients[f] # NoTask => f = g
  BY DEF ConnectionsOwned, TypeOK
<1> HIDE DEF Stops, Starts, FolderFor
<1>10. /\ tasks' \in [Folders -> Watchers \cup {NoTask}]
       /\ clients' \in [Folders -> Watchers \cup {NoTask}]
       /\ background' \in SUBSET Watchers
       /\ pc' \in [Watchers -> PC]
       /\ folder_of' \in [Watchers -> Folders \cup {NoFolder}]
       /\ client' \in [Watchers -> {"none", "open", "severed"}]
       /\ cancelling' \in [Watchers -> BOOLEAN]
  BY <1>2, <1>3, <1>4, <1>5 DEF TypeOK
<1>11. WatchersSupervised'
  BY <1>1, <1>2, <1>4, <1>5, <1>6, <1>7 DEF TypeOK, WatchersSupervised, TasksNamed, Stops
<1>12. TasksNamed'
  BY <1>1, <1>2, <1>4, <1>5, <1>6, <1>7 DEF TypeOK, TasksNamed, Stops
<1>13. \A f \in Folders : clients'[f] # NoTask => clients'[f] = clients[f]
  BY <1>3 DEF TypeOK
<1>14. \A t \in Watchers : client'[t] # "none" => client[t] # "none"
  BY <1>1, <1>3 DEF TypeOK, ConnectionsOwned
<1>15. \A t \in Watchers : pc[t] \notin Gone => pc'[t] = pc[t] /\ folder_of'[t] = folder_of[t]
  BY <1>2, <1>4
<1>16. \A t \in Watchers : pc[t] \in Gone => pc'[t] \in Gone \cup {"created"}
  BY <1>2
<1>17. ConnectionsOwned'
  BY <1>3, <1>13, <1>14, <1>15, <1>16 DEF TypeOK, ConnectionsOwned, ClientsPlaced
<1>18. ClientsPlaced'
  BY <1>1, <1>3, <1>13, <1>14, <1>15, <1>16 DEF TypeOK, ConnectionsOwned, ClientsPlaced
<1>19. StatusHonest'
  BY <1>1, <1>2, <1>6, <1>15 DEF TypeOK, StatusHonest, Subscribes
<1> QED BY <1>10, <1>11, <1>12, <1>17, <1>18, <1>19

\* Nobody is told of an edit yet when it is committed.
LEMMA CommitEditInvariant == ASSUME IInv, CommitEdit PROVE IInv'
<1> USE DEF IInv, CommitEdit
<1>1. TypeOK'
  BY DEF TypeOK
<1>2. WatchersSupervised' /\ TasksNamed'
  BY DEF WatchersSupervised, TasksNamed
<1>3. ConnectionsOwned' /\ ClientsPlaced' /\ StatusHonest'
  BY DEF ConnectionsOwned, ClientsPlaced, StatusHonest, Subscribes
<1> QED BY <1>1, <1>2, <1>3

\* An edit stops every registered watcher, and shows no folder any more.
LEMMA UnscheduleInvariant == ASSUME IInv, Unschedule PROVE IInv'
<1> DEFINE none == <<>>
<1>1. none \in [{} -> {t \in Watchers : pc[t] = "free"}] /\ DOMAIN none = {}
  OBVIOUS
<1>2. /\ status' = [f \in Folders |-> IF f \in Registered THEN "none" ELSE status[f]]
      /\ Restart(Registered, none) /\ UNCHANGED <<lock, idle>>
  BY DEF Unschedule, StatusAfter
<1>3. \A f \in Folders : status'[f] \in {"reconciling", "connected"}
        => f \notin Registered /\ status'[f] = status[f]
  BY <1>2
<1>4. /\ tasks' \in [Folders -> Watchers \cup {NoTask}]
      /\ clients' \in [Folders -> Watchers \cup {NoTask}]
      /\ background' \in SUBSET Watchers
      /\ pc' \in [Watchers -> PC]
      /\ folder_of' \in [Watchers -> Folders \cup {NoFolder}]
      /\ client' \in [Watchers -> {"none", "open", "severed"}]
      /\ cancelling' \in [Watchers -> BOOLEAN]
      /\ WatchersSupervised' /\ ConnectionsOwned' /\ StatusHonest'
      /\ TasksNamed' /\ ClientsPlaced'
  <2> HIDE DEF none
  <2> QED BY <1>1, <1>2, <1>3, RestartInvariant
<1>5. TypeOK'
  <2>1. status' \in [Folders -> Status] /\ UNCHANGED <<lock, idle>>
    BY <1>2 DEF IInv, TypeOK
  <2>2. /\ edit' \in BOOLEAN /\ last_full' \in BOOLEAN
        /\ news' \in [Folders -> BOOLEAN] /\ missed' \in [Folders -> BOOLEAN]
        /\ UNCHANGED <<is_active, inbox, edits, sup, seen>>
    BY DEF Unschedule, Withdraw
  <2> QED BY <1>4, <2>1, <2>2 DEF IInv, TypeOK
<1> QED BY <1>4, <1>5 DEF IInv

\* Reading the database changes nothing but what the supervisor knows.
LEMMA TickReadsInvariant == ASSUME IInv, TickReads PROVE IInv'
<1> USE DEF IInv, TickReads
<1>1. TypeOK'
  BY DEF TypeOK
<1>2. WatchersSupervised' /\ TasksNamed'
  BY DEF WatchersSupervised, TasksNamed
<1>3. ConnectionsOwned' /\ ClientsPlaced' /\ StatusHonest'
  BY DEF ConnectionsOwned, ClientsPlaced, StatusHonest, Subscribes
<1> QED BY <1>1, <1>2, <1>3

\* A tick starts no watcher for a folder whose registered one it keeps.
LEMMA TickActsInvariant ==
  ASSUME IInv, NEW due \in SUBSET Folders, TickActs(due)
  PROVE  IInv'
<1>1. PICK started \in [Starting -> {t \in Watchers : pc[t] = "free"}] :
        /\ \A f, g \in Starting : started[f] = started[g] => f = g
        /\ Restart(Stopping, started)
  BY DEF TickActs
<1>2. /\ Stopping \in SUBSET Registered /\ Starting \in SUBSET Folders
      /\ \A f \in Starting : tasks[f] = NoTask \/ f \in Stopping
  BY DEF Stopping, Starting, Desired, IInv, TypeOK
<1>3. Registered \subseteq Folders
  BY DEF Registered
<1>4. /\ \A f \in Folders : status'[f] \in {"reconciling", "connected"}
           => f \notin Stopping /\ status'[f] = status[f]
      /\ status' \in [Folders -> Status]
  BY <1>2, <1>3 DEF TickActs, StatusAfter, IInv, TypeOK
<1>5. UNCHANGED <<lock, idle, account>>
  BY DEF TickActs
<1>6. /\ tasks' \in [Folders -> Watchers \cup {NoTask}]
      /\ clients' \in [Folders -> Watchers \cup {NoTask}]
      /\ background' \in SUBSET Watchers
      /\ pc' \in [Watchers -> PC]
      /\ folder_of' \in [Watchers -> Folders \cup {NoFolder}]
      /\ client' \in [Watchers -> {"none", "open", "severed"}]
      /\ cancelling' \in [Watchers -> BOOLEAN]
      /\ WatchersSupervised' /\ ConnectionsOwned' /\ StatusHonest'
      /\ TasksNamed' /\ ClientsPlaced'
  BY <1>1, <1>2, <1>4, <1>5, RestartInvariant
<1>7. news' \in [Folders -> BOOLEAN] /\ missed' \in [Folders -> BOOLEAN]
  <2>1. CASE Withdraw
    BY <2>1 DEF Withdraw
  <2>2. CASE Request(Refreshed(due))
    BY <2>2 DEF Request, IInv, TypeOK
  <2> QED BY <2>1, <2>2 DEF TickActs
<1>8. sup' = "waiting" /\ seen' \in [active : BOOLEAN, inbox : SUBSET Folders]
      /\ last_full' \in BOOLEAN
  BY DEF TickActs, IInv, TypeOK
<1>9. TypeOK'
  BY <1>4, <1>5, <1>6, <1>7, <1>8 DEF IInv, TypeOK
<1> QED BY <1>6, <1>9 DEF IInv

-----------------------------------------------------------------------------
(* The watchers.                                                           *)

\* A new watcher joins the queue for the account lock.
LEMMA EnterInvariant ==
  ASSUME IInv, NEW t \in Watchers, Enter(t)
  PROVE  IInv'
<1> USE DEF IInv, Enter, Goes, SetWatcher
<1>1. ClientsPlaced'
  BY DEF TypeOK, ConnectionsOwned, ClientsPlaced, TasksNamed
<1>2. ConnectionsOwned'
  BY DEF TypeOK, ConnectionsOwned, ClientsPlaced, TasksNamed
<1>3. StatusHonest'
  BY DEF TypeOK, StatusHonest, Subscribes, TasksNamed
<1>4. TasksNamed' /\ WatchersSupervised'
  BY DEF TypeOK, WatchersSupervised, TasksNamed
<1>5. TypeOK'
  BY DEF TypeOK
<1> QED BY <1>1, <1>2, <1>3, <1>4, <1>5

\* Whoever takes the lock found it free, so nobody else is connecting.
LEMMA AcquireLockInvariant ==
  ASSUME IInv, NEW t \in Watchers, AcquireLock(t)
  PROVE  IInv'
<1> USE DEF IInv, AcquireLock, Goes
<1>1. ClientsPlaced'
  BY DEF TypeOK, ConnectionsOwned, ClientsPlaced, TasksNamed
<1>2. ConnectionsOwned'
  BY DEF TypeOK, ConnectionsOwned, ClientsPlaced, TasksNamed
<1>3. StatusHonest'
  BY DEF TypeOK, StatusHonest, Subscribes, TasksNamed
<1>4. TasksNamed' /\ WatchersSupervised'
  BY DEF TypeOK, WatchersSupervised, TasksNamed
<1>5. TypeOK'
  BY DEF TypeOK
<1> QED BY <1>1, <1>2, <1>3, <1>4, <1>5

\* A watcher whose account is inactive lets go of the lock as it leaves.
LEMMA SelectAccountInvariant ==
  ASSUME IInv, NEW t \in Watchers, SelectAccount(t)
  PROVE  IInv'
<1> USE DEF IInv, SelectAccount, Goes, Unlock
<1>1. ClientsPlaced'
  BY DEF TypeOK, ConnectionsOwned, ClientsPlaced, TasksNamed
<1>2. ConnectionsOwned'
  BY DEF TypeOK, ConnectionsOwned, ClientsPlaced, TasksNamed
<1>3. StatusHonest'
  BY DEF TypeOK, StatusHonest, Subscribes, TasksNamed
<1>4. TasksNamed' /\ WatchersSupervised'
  BY DEF TypeOK, WatchersSupervised, TasksNamed
<1>5. TypeOK'
  BY DEF TypeOK
<1> QED BY <1>1, <1>2, <1>3, <1>4, <1>5

\* The connection that opens belongs to the holder of the lock.
LEMMA OpenSucceedsInvariant ==
  ASSUME IInv, NEW t \in Watchers, OpenSucceeds(t)
  PROVE  IInv'
<1> USE DEF IInv, OpenSucceeds, Goes
<1>1. ClientsPlaced'
  BY DEF TypeOK, ConnectionsOwned, ClientsPlaced, TasksNamed
<1>2. ConnectionsOwned'
  BY DEF TypeOK, ConnectionsOwned, ClientsPlaced, TasksNamed
<1>3. StatusHonest'
  BY DEF TypeOK, StatusHonest, Subscribes, TasksNamed
<1>4. TasksNamed' /\ WatchersSupervised'
  BY DEF TypeOK, WatchersSupervised, TasksNamed
<1>5. TypeOK'
  BY DEF TypeOK
<1> QED BY <1>1, <1>2, <1>3, <1>4, <1>5

\* A failed attempt leaves the lock, and no connection.
LEMMA OpenFailsInvariant ==
  ASSUME IInv, NEW t \in Watchers, OpenFails(t)
  PROVE  IInv'
<1> USE DEF IInv, OpenFails, Goes, Unlock, SetWatcher
<1>1. ClientsPlaced'
  BY DEF TypeOK, ConnectionsOwned, ClientsPlaced, TasksNamed
<1>2. ConnectionsOwned'
  BY DEF TypeOK, ConnectionsOwned, ClientsPlaced, TasksNamed
<1>3. StatusHonest'
  BY DEF TypeOK, StatusHonest, Subscribes, TasksNamed
<1>4. TasksNamed' /\ WatchersSupervised'
  BY DEF TypeOK, WatchersSupervised, TasksNamed
<1>5. TypeOK'
  BY DEF TypeOK
<1> QED BY <1>1, <1>2, <1>3, <1>4, <1>5

\* What is registered is open, and its owner waits to enter IDLE.
LEMMA RegisterInvariant ==
  ASSUME IInv, NEW t \in Watchers, Register(t)
  PROVE  IInv'
<1> USE DEF IInv, Register, Goes, Unlock
<1>1. ClientsPlaced'
  BY DEF TypeOK, ConnectionsOwned, ClientsPlaced, TasksNamed
<1>2. ConnectionsOwned'
  BY DEF TypeOK, ConnectionsOwned, ClientsPlaced, TasksNamed
<1>3. StatusHonest'
  BY DEF TypeOK, StatusHonest, Subscribes, TasksNamed
<1>4. TasksNamed' /\ WatchersSupervised'
  BY DEF TypeOK, WatchersSupervised, TasksNamed
<1>5. TypeOK'
  BY DEF TypeOK
<1> QED BY <1>1, <1>2, <1>3, <1>4, <1>5

\* Entering IDLE changes neither locks nor connections.
LEMMA EnterIdleInvariant ==
  ASSUME IInv, NEW t \in Watchers, EnterIdle(t)
  PROVE  IInv'
<1> USE DEF IInv, EnterIdle, Goes
<1>1. ClientsPlaced'
  BY DEF TypeOK, ConnectionsOwned, ClientsPlaced, TasksNamed
<1>2. ConnectionsOwned'
  BY DEF TypeOK, ConnectionsOwned, ClientsPlaced, TasksNamed
<1>3. StatusHonest'
  BY DEF TypeOK, StatusHonest, Subscribes, TasksNamed
<1>4. TasksNamed' /\ WatchersSupervised'
  BY DEF TypeOK, WatchersSupervised, TasksNamed
<1>5. TypeOK'
  BY DEF TypeOK
<1> QED BY <1>1, <1>2, <1>3, <1>4, <1>5

\* Without IDLE the connection stays registered while the watcher logs out.
LEMMA FallBackInvariant ==
  ASSUME IInv, NEW t \in Watchers, FallBack(t)
  PROVE  IInv'
<1> USE DEF IInv, FallBack, Goes, SetWatcher
<1>1. ClientsPlaced'
  BY DEF TypeOK, ConnectionsOwned, ClientsPlaced, TasksNamed
<1>2. ConnectionsOwned'
  BY DEF TypeOK, ConnectionsOwned, ClientsPlaced, TasksNamed
<1>3. StatusHonest'
  BY DEF TypeOK, StatusHonest, Subscribes, TasksNamed
<1>4. TasksNamed' /\ WatchersSupervised'
  BY DEF TypeOK, WatchersSupervised, TasksNamed
<1>5. TypeOK'
  BY DEF TypeOK
<1> QED BY <1>1, <1>2, <1>3, <1>4, <1>5

\* A watcher that has logged out leaves no connection behind, nor its name.
LEMMA LoggedOutInvariant ==
  ASSUME IInv, NEW t \in Watchers, LoggedOut(t)
  PROVE  IInv'
<1> USE DEF IInv, LoggedOut, Goes
<1>1. ClientsPlaced'
  BY DEF TypeOK, ConnectionsOwned, ClientsPlaced, TasksNamed
<1>2. ConnectionsOwned'
  BY DEF TypeOK, ConnectionsOwned, ClientsPlaced, TasksNamed
<1>3. StatusHonest'
  BY DEF TypeOK, StatusHonest, Subscribes, TasksNamed
<1>4. TasksNamed' /\ WatchersSupervised'
  BY DEF TypeOK, WatchersSupervised, TasksNamed
<1>5. TypeOK'
  BY DEF TypeOK
<1> QED BY <1>1, <1>2, <1>3, <1>4, <1>5

\* The folder is shown as reconciling by a watcher that idles.
LEMMA CatchUpInvariant ==
  ASSUME IInv, NEW t \in Watchers, CatchUp(t)
  PROVE  IInv'
<1> USE DEF IInv, CatchUp, Goes, SetWatcher, Request
<1>1. ClientsPlaced'
  BY DEF TypeOK, ConnectionsOwned, ClientsPlaced, TasksNamed
<1>2. ConnectionsOwned'
  BY DEF TypeOK, ConnectionsOwned, ClientsPlaced, TasksNamed
<1>3. StatusHonest'
  BY DEF TypeOK, StatusHonest, Subscribes, TasksNamed
<1>4. TasksNamed' /\ WatchersSupervised'
  BY DEF TypeOK, WatchersSupervised, TasksNamed
<1>5. TypeOK'
  BY DEF TypeOK
<1> QED BY <1>1, <1>2, <1>3, <1>4, <1>5

\* A watcher that renews its IDLE still subscribes.
LEMMA CheckReturnsInvariant ==
  ASSUME IInv, NEW t \in Watchers, CheckReturns(t)
  PROVE  IInv'
<1> USE DEF IInv, CheckReturns, Goes
<1>1. ClientsPlaced'
  BY DEF TypeOK, ConnectionsOwned, ClientsPlaced, TasksNamed
<1>2. ConnectionsOwned'
  BY DEF TypeOK, ConnectionsOwned, ClientsPlaced, TasksNamed
<1>3. StatusHonest'
  BY DEF TypeOK, StatusHonest, Subscribes, TasksNamed
<1>4. TasksNamed' /\ WatchersSupervised'
  BY DEF TypeOK, WatchersSupervised, TasksNamed
<1>5. TypeOK'
  BY DEF TypeOK
<1> QED BY <1>1, <1>2, <1>3, <1>4, <1>5

\* A watcher that resumes its IDLE still subscribes.
LEMMA IdleDoneInvariant ==
  ASSUME IInv, NEW t \in Watchers, IdleDone(t)
  PROVE  IInv'
<1> USE DEF IInv, IdleDone, Goes
<1>1. ClientsPlaced'
  BY DEF TypeOK, ConnectionsOwned, ClientsPlaced, TasksNamed
<1>2. ConnectionsOwned'
  BY DEF TypeOK, ConnectionsOwned, ClientsPlaced, TasksNamed
<1>3. StatusHonest'
  BY DEF TypeOK, StatusHonest, Subscribes, TasksNamed
<1>4. TasksNamed' /\ WatchersSupervised'
  BY DEF TypeOK, WatchersSupervised, TasksNamed
<1>5. TypeOK'
  BY DEF TypeOK
<1> QED BY <1>1, <1>2, <1>3, <1>4, <1>5

\* Back in IDLE, with the connection that was registered.
LEMMA IdleAgainInvariant ==
  ASSUME IInv, NEW t \in Watchers, IdleAgain(t)
  PROVE  IInv'
<1> USE DEF IInv, IdleAgain, Goes, Request, EventFolders
<1>1. ClientsPlaced'
  BY DEF TypeOK, ConnectionsOwned, ClientsPlaced, TasksNamed
<1>2. ConnectionsOwned'
  BY DEF TypeOK, ConnectionsOwned, ClientsPlaced, TasksNamed
<1>3. StatusHonest'
  BY DEF TypeOK, StatusHonest, Subscribes, TasksNamed
<1>4. TasksNamed' /\ WatchersSupervised'
  BY DEF TypeOK, WatchersSupervised, TasksNamed
<1>5. TypeOK'
  BY DEF TypeOK
<1> QED BY <1>1, <1>2, <1>3, <1>4, <1>5

\* A failure takes the connection out of the registry before it is shut down
\* and shows the folder as reconnecting.
LEMMA FailsInvariant ==
  ASSUME IInv, NEW t \in Watchers, Fails(t)
  PROVE  IInv'
<1> USE DEF IInv, Fails, Goes, Unlock, SetWatcher, Forget, Sever,
            ClosedBy, Quiet, FailureState
<1>1. ClientsPlaced'
  <2>1. \A u \in Watchers \ {t} : pc'[u] = pc[u] /\ client'[u] = client[u]
    BY DEF TypeOK
  <2>2. \A f \in Folders : clients'[f] # NoTask =>
          clients'[f] = clients[f] /\ clients[f] # t
    <3>1. \A f \in Folders : clients[f] = t => clients[folder_of[t]] = t
      BY DEF ConnectionsOwned
    <3>2. clients' = Forget(ClosedBy(t))
      OBVIOUS
    <3> QED BY <3>1, <3>2
  <2>3. client'[t] # "none" => pc'[t] \in HasClient
    BY DEF TypeOK
  <2>4. pc'[t] # "opened"
    BY DEF TypeOK
  <2> QED BY <2>1, <2>2, <2>3, <2>4 DEF TypeOK, ClientsPlaced
<1>2. ConnectionsOwned'
  BY DEF TypeOK, ConnectionsOwned, ClientsPlaced, TasksNamed
<1>3. StatusHonest'
  BY DEF TypeOK, StatusHonest, Subscribes, TasksNamed
<1>4. TasksNamed' /\ WatchersSupervised'
  BY DEF TypeOK, WatchersSupervised, TasksNamed
<1>5. TypeOK'
  BY DEF TypeOK
<1> QED BY <1>1, <1>2, <1>3, <1>4, <1>5

\* What a failed connection left is closed before the next attempt.
LEMMA BackoffEndsInvariant ==
  ASSUME IInv, NEW t \in Watchers, BackoffEnds(t)
  PROVE  IInv'
<1> USE DEF IInv, BackoffEnds, Goes, SetWatcher
<1>1. ClientsPlaced'
  BY DEF TypeOK, ConnectionsOwned, ClientsPlaced, TasksNamed
<1>2. ConnectionsOwned'
  BY DEF TypeOK, ConnectionsOwned, ClientsPlaced, TasksNamed
<1>3. StatusHonest'
  BY DEF TypeOK, StatusHonest, Subscribes, TasksNamed
<1>4. TasksNamed' /\ WatchersSupervised'
  BY DEF TypeOK, WatchersSupervised, TasksNamed
<1>5. TypeOK'
  BY DEF TypeOK
<1> QED BY <1>1, <1>2, <1>3, <1>4, <1>5

\* After the shutdown there is no connection left.
LEMMA ClosedInvariant ==
  ASSUME IInv, NEW t \in Watchers, Closed(t)
  PROVE  IInv'
<1> USE DEF IInv, Closed, Goes, SetWatcher
<1>1. ClientsPlaced'
  BY DEF TypeOK, ConnectionsOwned, ClientsPlaced, TasksNamed
<1>2. ConnectionsOwned'
  BY DEF TypeOK, ConnectionsOwned, ClientsPlaced, TasksNamed
<1>3. StatusHonest'
  BY DEF TypeOK, StatusHonest, Subscribes, TasksNamed
<1>4. TasksNamed' /\ WatchersSupervised'
  BY DEF TypeOK, WatchersSupervised, TasksNamed
<1>5. TypeOK'
  BY DEF TypeOK
<1> QED BY <1>1, <1>2, <1>3, <1>4, <1>5

\* A cancelled watcher ends without a connection, and leaves _background.
LEMMA CancelledOutsideInvariant ==
  ASSUME IInv, NEW t \in Watchers, CancelledOutside(t)
  PROVE  IInv'
<1> USE DEF IInv, CancelledOutside, Exits
<1>1. ClientsPlaced'
  BY DEF TypeOK, ConnectionsOwned, ClientsPlaced, TasksNamed
<1>2. ConnectionsOwned'
  BY DEF TypeOK, ConnectionsOwned, ClientsPlaced, TasksNamed
<1>3. StatusHonest'
  BY DEF TypeOK, StatusHonest, Subscribes, TasksNamed
<1>4. TasksNamed' /\ WatchersSupervised'
  BY DEF TypeOK, WatchersSupervised, TasksNamed
<1>5. TypeOK'
  BY DEF TypeOK
<1> QED BY <1>1, <1>2, <1>3, <1>4, <1>5

\* A watcher that is cancelled without a connection only has to leave.
LEMMA CancelledUnconnectedInvariant ==
  ASSUME IInv, NEW t \in Watchers, CancelledUnconnected(t)
  PROVE  IInv'
<1> USE DEF IInv, CancelledUnconnected, Cancelled, Unlock, Forget,
            Sever, ClosedBy, Quiet
<1>1. ClientsPlaced'
  BY DEF TypeOK, ConnectionsOwned, ClientsPlaced, TasksNamed
<1>2. ConnectionsOwned'
  BY DEF TypeOK, ConnectionsOwned, ClientsPlaced, TasksNamed
<1>3. StatusHonest'
  BY DEF TypeOK, StatusHonest, Subscribes, TasksNamed
<1>4. TasksNamed' /\ WatchersSupervised'
  BY DEF TypeOK, WatchersSupervised, TasksNamed
<1>5. TypeOK'
  BY DEF TypeOK
<1> QED BY <1>1, <1>2, <1>3, <1>4, <1>5

\* A cancelled watcher gives up its registration before it shuts down.
LEMMA CancelledConnectedInvariant ==
  ASSUME IInv, NEW t \in Watchers, CancelledConnected(t)
  PROVE  IInv'
<1> USE DEF IInv, CancelledConnected, Cancelled, Unlock, Forget,
            Sever, ClosedBy, Quiet
<1>1. ClientsPlaced'
  <2>1. \A u \in Watchers \ {t} : pc'[u] = pc[u] /\ client'[u] = client[u]
    BY DEF TypeOK
  <2>2. \A f \in Folders : clients'[f] # NoTask =>
          clients'[f] = clients[f] /\ clients[f] # t
    <3>1. \A f \in Folders : clients[f] = t => clients[folder_of[t]] = t
      BY DEF ConnectionsOwned
    <3>2. clients' = Forget(ClosedBy(t))
      OBVIOUS
    <3> QED BY <3>1, <3>2
  <2>3. client'[t] # "none" => pc'[t] \in HasClient
    BY DEF TypeOK
  <2>4. pc'[t] # "opened"
    BY DEF TypeOK
  <2> QED BY <2>1, <2>2, <2>3, <2>4 DEF TypeOK, ClientsPlaced
<1>2. ConnectionsOwned'
  BY DEF TypeOK, ConnectionsOwned, ClientsPlaced, TasksNamed
<1>3. StatusHonest'
  BY DEF TypeOK, StatusHonest, Subscribes, TasksNamed
<1>4. TasksNamed' /\ WatchersSupervised'
  BY DEF TypeOK, WatchersSupervised, TasksNamed
<1>5. TypeOK'
  BY DEF TypeOK
<1> QED BY <1>1, <1>2, <1>3, <1>4, <1>5

\* A cancelled attempt keeps the lock until it has ended.
LEMMA CancelledOpeningInvariant ==
  ASSUME IInv, NEW t \in Watchers, CancelledOpening(t)
  PROVE  IInv'
<1> USE DEF IInv, CancelledOpening
<1>1. ClientsPlaced'
  BY DEF TypeOK, ConnectionsOwned, ClientsPlaced, TasksNamed
<1>2. ConnectionsOwned'
  BY DEF TypeOK, ConnectionsOwned, ClientsPlaced, TasksNamed
<1>3. StatusHonest'
  BY DEF TypeOK, StatusHonest, Subscribes, TasksNamed
<1>4. TasksNamed' /\ WatchersSupervised'
  BY DEF TypeOK, WatchersSupervised, TasksNamed
<1>5. TypeOK'
  BY DEF TypeOK
<1> QED BY <1>1, <1>2, <1>3, <1>4, <1>5

\* The connection of an abandoned attempt is never registered.
LEMMA AbandonedOpensInvariant ==
  ASSUME IInv, NEW t \in Watchers, AbandonedOpens(t)
  PROVE  IInv'
<1> USE DEF IInv, AbandonedOpens, Goes, Unlock
<1>1. ClientsPlaced'
  BY DEF TypeOK, ConnectionsOwned, ClientsPlaced, TasksNamed
<1>2. ConnectionsOwned'
  BY DEF TypeOK, ConnectionsOwned, ClientsPlaced, TasksNamed
<1>3. StatusHonest'
  BY DEF TypeOK, StatusHonest, Subscribes, TasksNamed
<1>4. TasksNamed' /\ WatchersSupervised'
  BY DEF TypeOK, WatchersSupervised, TasksNamed
<1>5. TypeOK'
  BY DEF TypeOK
<1> QED BY <1>1, <1>2, <1>3, <1>4, <1>5

\* An abandoned attempt that fails leaves the lock like any other.
LEMMA AbandonedFailsInvariant ==
  ASSUME IInv, NEW t \in Watchers, AbandonedFails(t)
  PROVE  IInv'
<1> USE DEF IInv, AbandonedFails, Goes, Unlock, SetWatcher
<1>1. ClientsPlaced'
  BY DEF TypeOK, ConnectionsOwned, ClientsPlaced, TasksNamed
<1>2. ConnectionsOwned'
  BY DEF TypeOK, ConnectionsOwned, ClientsPlaced, TasksNamed
<1>3. StatusHonest'
  BY DEF TypeOK, StatusHonest, Subscribes, TasksNamed
<1>4. TasksNamed' /\ WatchersSupervised'
  BY DEF TypeOK, WatchersSupervised, TasksNamed
<1>5. TypeOK'
  BY DEF TypeOK
<1> QED BY <1>1, <1>2, <1>3, <1>4, <1>5

\* The shutdown is over before the watcher leaves.
LEMMA UnwindInvariant ==
  ASSUME IInv, NEW t \in Watchers, Unwind(t)
  PROVE  IInv'
<1> USE DEF IInv, Unwind, Goes
<1>1. ClientsPlaced'
  BY DEF TypeOK, ConnectionsOwned, ClientsPlaced, TasksNamed
<1>2. ConnectionsOwned'
  BY DEF TypeOK, ConnectionsOwned, ClientsPlaced, TasksNamed
<1>3. StatusHonest'
  BY DEF TypeOK, StatusHonest, Subscribes, TasksNamed
<1>4. TasksNamed' /\ WatchersSupervised'
  BY DEF TypeOK, WatchersSupervised, TasksNamed
<1>5. TypeOK'
  BY DEF TypeOK
<1> QED BY <1>1, <1>2, <1>3, <1>4, <1>5

\* A watcher ends without a connection, and leaves _background.
LEMMA LeaveInvariant ==
  ASSUME IInv, NEW t \in Watchers, Leave(t)
  PROVE  IInv'
<1> USE DEF IInv, Leave, Exits
<1>1. ClientsPlaced'
  BY DEF TypeOK, ConnectionsOwned, ClientsPlaced, TasksNamed
<1>2. ConnectionsOwned'
  BY DEF TypeOK, ConnectionsOwned, ClientsPlaced, TasksNamed
<1>3. StatusHonest'
  BY DEF TypeOK, StatusHonest, Subscribes, TasksNamed
<1>4. TasksNamed' /\ WatchersSupervised'
  BY DEF TypeOK, WatchersSupervised, TasksNamed
<1>5. TypeOK'
  BY DEF TypeOK
<1> QED BY <1>1, <1>2, <1>3, <1>4, <1>5

-----------------------------------------------------------------------------
(* The environment, and the theorems.                                      *)

\* Mail that arrives wakes only who listens.
LEMMA ArriveInvariant ==
  ASSUME IInv, NEW f \in Folders, Arrive(f)
  PROVE  IInv'
<1> USE DEF IInv, Arrive
<1>1. TypeOK'
  BY DEF TypeOK
<1>2. WatchersSupervised' /\ TasksNamed'
  BY DEF WatchersSupervised, TasksNamed
<1>3. ConnectionsOwned' /\ ClientsPlaced' /\ StatusHonest'
  BY DEF ConnectionsOwned, ClientsPlaced, StatusHonest, Subscribes
<1> QED BY <1>1, <1>2, <1>3

\* A folder becomes connected only where it was reconciling.
LEMMA SyncedInvariant ==
  ASSUME IInv, NEW f \in Folders, Synced(f)
  PROVE  IInv'
<1> USE DEF IInv, Synced
<1>1. TypeOK'
  BY DEF TypeOK
<1>2. WatchersSupervised' /\ TasksNamed'
  BY DEF WatchersSupervised, TasksNamed
<1>3. ConnectionsOwned' /\ ClientsPlaced'
  BY DEF ConnectionsOwned, ClientsPlaced
<1>4. StatusHonest'
  BY DEF StatusHonest, Subscribes, TypeOK
<1> QED BY <1>1, <1>2, <1>3, <1>4

\* Passes and the token refresh take the lock only from nobody.
LEMMA OutsiderInvariant ==
  ASSUME IInv, NEW o \in Outsiders, OutsiderLocks(o) \/ OutsiderUnlocks(o)
  PROVE  IInv'
<1> USE DEF IInv, OutsiderLocks, OutsiderUnlocks
<1>1. TypeOK'
  BY DEF TypeOK
<1>2. WatchersSupervised' /\ TasksNamed'
  BY DEF WatchersSupervised, TasksNamed
<1>3. ConnectionsOwned'
  BY DEF ConnectionsOwned
<1>4. ClientsPlaced' /\ StatusHonest'
  BY DEF ClientsPlaced, StatusHonest, Subscribes
<1> QED BY <1>1, <1>2, <1>3, <1>4

\* Nothing changes.
LEMMA StutterInvariant == ASSUME IInv, UNCHANGED vars PROVE IInv'
<1> USE DEF IInv, vars
<1>1. TypeOK'
  BY DEF TypeOK
<1>2. WatchersSupervised' /\ TasksNamed'
  BY DEF WatchersSupervised, TasksNamed
<1>3. ConnectionsOwned' /\ ClientsPlaced' /\ StatusHonest'
  BY DEF ConnectionsOwned, ClientsPlaced, StatusHonest, Subscribes
<1> QED BY <1>1, <1>2, <1>3

\* One step of a watcher.
LEMMA ProgressInvariant ==
  ASSUME IInv, NEW t \in Watchers, Progress(t)
  PROVE  IInv'
BY EnterInvariant, SelectAccountInvariant, OpenSucceedsInvariant,
   OpenFailsInvariant, RegisterInvariant, EnterIdleInvariant,
   FallBackInvariant, LoggedOutInvariant, CatchUpInvariant, CheckReturnsInvariant,
   IdleDoneInvariant, IdleAgainInvariant, FailsInvariant,
   BackoffEndsInvariant, ClosedInvariant, CancelledOutsideInvariant,
   CancelledUnconnectedInvariant, CancelledConnectedInvariant,
   CancelledOpeningInvariant, AbandonedOpensInvariant,
   AbandonedFailsInvariant, UnwindInvariant, LeaveInvariant
   DEF Progress

\* Every step keeps the invariant.
LEMMA NextInvariant == IInv /\ [Next]_vars => IInv'
<1> SUFFICES ASSUME IInv, [Next]_vars PROVE IInv'
  OBVIOUS
<1>1. CASE UNCHANGED vars
  BY <1>1, StutterInvariant
<1>2. CASE CommitEdit \/ Unschedule \/ TickReads
  BY <1>2, CommitEditInvariant, UnscheduleInvariant, TickReadsInvariant
<1>3. ASSUME NEW due \in SUBSET Folders, TickActs(due) PROVE IInv'
  BY <1>3, TickActsInvariant
<1>4. ASSUME NEW t \in Watchers, Progress(t) \/ AcquireLock(t) PROVE IInv'
  BY <1>4, ProgressInvariant, AcquireLockInvariant
<1>5. ASSUME NEW f \in Folders, Arrive(f) \/ Synced(f) PROVE IInv'
  BY <1>5, ArriveInvariant, SyncedInvariant
<1>6. ASSUME NEW o \in Outsiders, OutsiderLocks(o) \/ OutsiderUnlocks(o) PROVE IInv'
  BY <1>6, OutsiderInvariant
<1> QED BY <1>1, <1>2, <1>3, <1>4, <1>5, <1>6 DEF Next

\* The invariant holds throughout.
LEMMA Invariance == Spec => []IInv
BY InitInvariant, NextInvariant, PTL DEF Spec

\* The state of the scheduler is well typed.
THEOREM TypeCorrect == Spec => []TypeOK
BY Invariance, PTL DEF IInv

\* No watcher is lost: it is registered or in _background, and only the latter
\* are cancelled (_stop_folder, _start_watch).
THEOREM Supervised == Spec => []WatchersSupervised
BY Invariance, PTL DEF IInv

\* One task connects at a time, every connection has an owner that will shut
\* it down, and _clients names only open connections of their folder (_watch,
\* _close).
THEOREM Owned == Spec => []ConnectionsOwned
BY Invariance, PTL DEF IInv

\* A folder is shown as connected only while a watcher idles on it
\* (live.set_watcher, live.synced).
THEOREM Honest == Spec => []StatusHonest
BY Invariance, PTL DEF IInv

-----------------------------------------------------------------------------
\* The conclusion of ClosesOnlyItsOwn for one step.
ClosesOwn ==
  \A t \in Watchers :
    client[t] = "open" /\ client'[t] = "severed" =>
      pc'[t] # pc[t] \/ tasks'[folder_of[t]] # tasks[folder_of[t]]

\* Stopping the folders in S shuts down the connections of their watchers only,
\* and those folders have another watcher, or none, from then on.
LEMMA RestartCloses ==
  ASSUME IInv, NEW S \in SUBSET Registered, NEW D \in SUBSET Folders,
         NEW started \in [D -> {t \in Watchers : pc[t] = "free"}],
         Restart(S, started)
  PROVE  ClosesOwn
<1> SUFFICES ASSUME NEW t \in Watchers, client[t] = "open", client'[t] = "severed"
             PROVE  tasks'[folder_of[t]] # tasks[folder_of[t]]
  BY DEF ClosesOwn
<1>1. PICK f \in S : clients[f] = t
  BY DEF Restart, Sever
<1>2. f \in Folders /\ tasks[f] \in Watchers /\ pc[tasks[f]] # "free"
  BY DEF Registered, IInv, TypeOK, TasksNamed
<1>3. folder_of[t] = f
  BY <1>1, <1>2 DEF IInv, ConnectionsOwned
<1>4. tasks'[f] = IF f \in D THEN started[f] ELSE NoTask
  BY <1>2 DEF Restart
<1> QED BY <1>2, <1>3, <1>4

\* A watcher that gives up its connection shuts down its own.
LEMMA ProgressCloses ==
  ASSUME IInv, NEW t \in Watchers, Progress(t) \/ AcquireLock(t)
  PROVE  ClosesOwn
<1> USE DEF ClosesOwn, IInv, TypeOK, Goes
<1>1. CASE Fails(t)
  BY <1>1 DEF Fails, Sever, ClosedBy
<1>2. CASE CancelledConnected(t) \/ CancelledUnconnected(t)
  BY <1>2 DEF CancelledConnected, CancelledUnconnected, Cancelled, Sever, ClosedBy
<1>3. CASE OpenSucceeds(t) \/ LoggedOut(t) \/ Closed(t) \/ AbandonedOpens(t) \/ Unwind(t)
  BY <1>3 DEF OpenSucceeds, LoggedOut, Closed, AbandonedOpens, Unwind
<1>4. CASE client' = client
  BY <1>4
<1>5. CASE Enter(t) \/ SelectAccount(t) \/ OpenFails(t) \/ Register(t)
           \/ EnterIdle(t) \/ FallBack(t) \/ CatchUp(t) \/ CheckReturns(t) \/ IdleDone(t)
           \/ IdleAgain(t) \/ BackoffEnds(t) \/ CancelledOutside(t)
           \/ CancelledOpening(t) \/ AbandonedFails(t) \/ Leave(t)
           \/ AcquireLock(t)
  BY <1>4, <1>5 DEF Enter, SelectAccount, OpenFails, Register, EnterIdle,
     FallBack, CatchUp, CheckReturns, IdleDone, IdleAgain, BackoffEnds,
     CancelledOutside, CancelledOpening, AbandonedFails, Leave, AcquireLock, Exits
<1> QED BY <1>1, <1>2, <1>3, <1>5 DEF Progress

\* No watcher ever shuts down the connection of another one, except when the
\* folder's watcher is being stopped (_close compares the client it was given).
THEOREM ClosesOwnOnly == Spec => ClosesOnlyItsOwn
<1>1. IInv /\ [Next]_vars =>
        [\A t \in Watchers :
           client[t] = "open" /\ client'[t] = "severed" =>
             \/ pc'[t] # pc[t]
             \/ tasks'[folder_of[t]] # tasks[folder_of[t]]]_vars
  <2> SUFFICES ASSUME IInv, Next PROVE ClosesOwn
    BY DEF ClosesOwn
  <2>1. CASE Unschedule
    <3> DEFINE none == <<>>
    <3>1. none \in [{} -> {t \in Watchers : pc[t] = "free"}]
      OBVIOUS
    <3>2. Restart(Registered, none)
      BY <2>1 DEF Unschedule
    <3> HIDE DEF none
    <3> QED BY <3>1, <3>2, RestartCloses
  <2>2. ASSUME NEW due \in SUBSET Folders, TickActs(due) PROVE ClosesOwn
    <3>1. /\ Stopping \in SUBSET Registered /\ Starting \in SUBSET Folders
      BY DEF Stopping, Starting, Desired, IInv, TypeOK
    <3> QED BY <2>2, <3>1, RestartCloses DEF TickActs
  <2>3. ASSUME NEW t \in Watchers, Progress(t) \/ AcquireLock(t) PROVE ClosesOwn
    BY <2>3, ProgressCloses
  <2>4. CASE client' = client
    BY <2>4 DEF ClosesOwn
  <2>5. ASSUME NEW f \in Folders, Arrive(f) \/ Synced(f) PROVE client' = client
    BY <2>5 DEF Arrive, Synced
  <2>6. ASSUME NEW o \in Outsiders, OutsiderLocks(o) \/ OutsiderUnlocks(o)
        PROVE  client' = client
    BY <2>6 DEF OutsiderLocks, OutsiderUnlocks
  <2>7. CASE CommitEdit \/ TickReads
    BY <2>4, <2>7 DEF CommitEdit, TickReads
  <2> QED BY <2>1, <2>2, <2>3, <2>4, <2>5, <2>6, <2>7 DEF Next
<1> QED BY <1>1, Invariance, PTL DEF Spec, ClosesOnlyItsOwn

-----------------------------------------------------------------------------
(* What arrives while a folder is watched.                                 *)

\* The connection of a registered watcher is shut down only by itself, so it is
\* told of all that arrives.
Open(t) == pc[t] \in {"opened", "setup", "logout"} \cup Connected => client[t] = "open"
RegisteredOpen == \A f \in Folders : tasks[f] # NoTask => Open(tasks[f])

\* What NewsNoticed says of one watcher.
Notices(t, f) == Subscribes(t, f) /\ news[f] => Heard(t) \/ missed[f]

NInv == RegisteredOpen /\ NewsNoticed

\* A registered watcher is of its folder.
LEMMA RegisteredOf ==
  ASSUME IInv, NEW f \in Folders, tasks[f] # NoTask
  PROVE  tasks[f] \in Watchers /\ folder_of[tasks[f]] = f /\ ~ cancelling[tasks[f]]
BY DEF IInv, TypeOK, TasksNamed, WatchersSupervised

\* A stop or a start leaves the watchers of the other folders as they are, and
\* a new watcher has nothing to show.
LEMMA RestartKeeps ==
  ASSUME IInv, NEW S \in SUBSET Registered, NEW D \in SUBSET Folders,
         NEW started \in [D -> {t \in Watchers : pc[t] = "free"}],
         Restart(S, started),
         NEW f \in Folders, tasks'[f] # NoTask
  PROVE  \/ f \in D /\ pc'[tasks'[f]] = "created"
         \/ /\ f \notin S /\ tasks'[f] = tasks[f] /\ pc'[tasks[f]] = pc[tasks[f]]
            /\ client'[tasks[f]] = client[tasks[f]]
            /\ folder_of'[tasks[f]] = folder_of[tasks[f]]
<1>1. tasks'[f] = IF f \in D THEN started[f] ELSE IF f \in S THEN NoTask ELSE tasks[f]
  BY DEF Restart
<1>2. CASE f \in D
  <2>1. started[f] \in Watchers
    BY <1>2
  <2>2. \E g \in DOMAIN started : started[g] = started[f]
    BY <1>2
  <2>3. pc'[started[f]] = "created"
    BY <2>1, <2>2 DEF Restart
  <2> QED BY <1>1, <1>2, <2>3
<1>3. CASE f \notin D /\ f \notin S
  <2> DEFINE t == tasks[f]
  <2>1. tasks'[f] = t /\ t # NoTask /\ t \in Watchers /\ pc[t] # "free" /\ folder_of[t] = f
    BY <1>1, <1>3, RegisteredOf DEF IInv, TasksNamed
  <2>2. \A g \in S : g \in Folders /\ tasks[g] # t /\ clients[g] # t
    BY <1>3, <2>1 DEF Registered, IInv, TasksNamed, ConnectionsOwned, TypeOK
  <2>3. \A g \in D : started[g] # t
    BY <2>1
  <2> HIDE DEF t
  <2>4. pc'[t] = pc[t] /\ folder_of'[t] = folder_of[t]
    BY <2>1, <2>2, <2>3 DEF Restart
  <2>5. client'[t] = client[t]
    BY <2>1, <2>2 DEF Restart, Sever
  <2> QED BY <1>3, <2>1, <2>4, <2>5 DEF t
<1> QED BY <1>1, <1>2, <1>3

\* What is requested is no longer news; the rest stays as it was.
LEMMA RequestNotices ==
  ASSUME NEW S, Request(S), NEW f \in Folders
  PROVE  /\ news'[f] => news[f] /\ f \notin S
         /\ f \notin S => (missed[f] => missed'[f])
<1>1. /\ news' = [g \in Folders |-> news[g] /\ g \notin S]
      /\ missed' = [g \in Folders |-> missed[g] /\ g \notin S]
  BY DEF Request
<1>2. news'[f] = (news[f] /\ f \notin S) /\ missed'[f] = (missed[f] /\ f \notin S)
  BY <1>1, Zenon
<1> QED BY <1>2

\* An edit leaves no watcher registered.
LEMMA UnscheduleNotices == ASSUME IInv, NInv, Unschedule PROVE NInv'
<1> DEFINE none == <<>>
<1>1. none \in [{} -> {t \in Watchers : pc[t] = "free"}]
  OBVIOUS
<1>2. Restart(Registered, none)
  BY DEF Unschedule
<1>3. ASSUME NEW f \in Folders, tasks'[f] # NoTask PROVE FALSE
  <2> HIDE DEF none
  <2>1. f \notin Registered /\ tasks'[f] = tasks[f]
    <3>1. Registered \in SUBSET Registered /\ {} \in SUBSET Folders
      OBVIOUS
    <3> QED BY <1>1, <1>2, <1>3, <3>1, RestartKeeps
  <2> QED BY <1>3, <2>1 DEF Registered
<1> QED BY <1>3 DEF NInv, RegisteredOpen, NewsNoticed

\* A tick keeps a watcher only of an active account, whose requests stand.
LEMMA TickActsNotices ==
  ASSUME IInv, NInv, NEW due \in SUBSET Folders, TickActs(due)
  PROVE  NInv'
<1>1. PICK started \in [Starting -> {t \in Watchers : pc[t] = "free"}] :
        Restart(Stopping, started)
  BY DEF TickActs
<1>2. Stopping \in SUBSET Registered /\ Starting \in SUBSET Folders
  BY DEF Stopping, Starting, Desired, IInv, TypeOK
<1>3. \A f \in Folders : tasks'[f] # NoTask =>
        \/ pc'[tasks'[f]] = "created"
        \/ /\ f \notin Stopping /\ tasks'[f] = tasks[f] /\ pc'[tasks[f]] = pc[tasks[f]]
           /\ client'[tasks[f]] = client[tasks[f]]
           /\ folder_of'[tasks[f]] = folder_of[tasks[f]]
  BY <1>1, <1>2, RestartKeeps
<1>4. RegisteredOpen'
  BY <1>3 DEF NInv, RegisteredOpen, Open
<1>5. NewsNoticed'
  <2> SUFFICES ASSUME NEW f \in Folders, tasks'[f] # NoTask,
                      Subscribes(tasks[f], f)', news'[f]
               PROVE  Heard(tasks[f])' \/ missed'[f]
    BY DEF NewsNoticed
  <2>1. /\ f \notin Stopping /\ tasks'[f] = tasks[f] /\ pc'[tasks[f]] = pc[tasks[f]]
        /\ folder_of'[tasks[f]] = folder_of[tasks[f]]
    BY <1>3 DEF Subscribes
  <2>2. Subscribes(tasks[f], f)
    BY <2>1, RegisteredOf DEF Subscribes
  <2>3. seen.active
    BY <2>1 DEF Stopping, Registered, Desired
  <2>4. Request(Refreshed(due)) /\ UNCHANGED idle
    BY <2>3 DEF TickActs, Dropped
  <2>5. news[f] /\ (missed[f] => missed'[f])
    BY <2>4, RequestNotices
  <2>6. Heard(tasks[f]) \/ missed[f]
    BY <2>1, <2>2, <2>5 DEF NInv, NewsNoticed
  <2> QED BY <2>1, <2>4, <2>5, <2>6 DEF Heard
<1> QED BY <1>4, <1>5 DEF NInv

\* A step of one watcher leaves the others alone, and loses no word of what
\* is still news.
LEMMA ProgressLeaves ==
  ASSUME IInv, NEW t \in Watchers, Progress(t) \/ AcquireLock(t)
  PROVE  /\ tasks' = tasks
         /\ \A u \in Watchers \ {t} :
              /\ pc'[u] = pc[u] /\ client'[u] = client[u] /\ folder_of'[u] = folder_of[u]
              /\ cancelling'[u] = cancelling[u]
              /\ notice'[u] = notice[u] /\ heard'[u] = heard[u]
         /\ \A f \in Folders : news'[f] => news[f] /\ (missed[f] => missed'[f])
<1> USE DEF IInv, TypeOK
<1>1. CASE CatchUp(t)
  BY <1>1, RequestNotices DEF CatchUp, Goes
<1>2. CASE IdleAgain(t)
  BY <1>2, RequestNotices DEF IdleAgain, Goes
<1>3. CASE IdleDone(t) \/ CheckReturns(t)
  BY <1>3 DEF IdleDone, CheckReturns, Goes
<1>4. CASE Fails(t)
  BY <1>4 DEF Fails, Goes, Sever, ClosedBy, Quiet
<1>5. CASE CancelledConnected(t) \/ CancelledUnconnected(t)
  BY <1>5 DEF CancelledConnected, CancelledUnconnected, Cancelled, Sever, ClosedBy, Quiet
<1>6. CASE OpenSucceeds(t) \/ LoggedOut(t) \/ Closed(t) \/ AbandonedOpens(t) \/ Unwind(t)
  BY <1>6 DEF OpenSucceeds, LoggedOut, Closed, AbandonedOpens, Unwind, Goes
<1>7. CASE CancelledOutside(t) \/ Leave(t)
  BY <1>7 DEF CancelledOutside, Leave, Exits
<1>8. CASE \/ Enter(t) \/ SelectAccount(t) \/ OpenFails(t) \/ Register(t) \/ EnterIdle(t)
           \/ FallBack(t) \/ BackoffEnds(t) \/ CancelledOpening(t) \/ AbandonedFails(t)
           \/ AcquireLock(t)
  BY <1>8 DEF Enter, SelectAccount, OpenFails, Register, EnterIdle, FallBack,
     BackoffEnds, CancelledOpening, AbandonedFails, AcquireLock, Goes
<1> QED BY <1>1, <1>2, <1>3, <1>4, <1>5, <1>6, <1>7, <1>8 DEF Progress

\* A watcher that moves on keeps its connection, or is done with it.
LEMMA ProgressOpen ==
  ASSUME IInv, NInv, NEW t \in Watchers, Progress(t) \/ AcquireLock(t)
  PROVE  RegisteredOpen'
<1>1. ~ cancelling[t] /\ Open(t) => Open(t)'
  <2> USE DEF IInv, TypeOK, Open
  <2>1. CASE OpenSucceeds(t) \/ LoggedOut(t) \/ Closed(t) \/ AbandonedOpens(t) \/ Unwind(t)
    BY <2>1 DEF OpenSucceeds, LoggedOut, Closed, AbandonedOpens, Unwind, Goes
  <2>2. CASE Fails(t)
    BY <2>2 DEF Fails, Goes
  <2>3. CASE CancelledConnected(t) \/ CancelledUnconnected(t) \/ CancelledOutside(t)
    BY <2>3 DEF CancelledConnected, CancelledUnconnected, Cancelled, CancelledOutside
  <2>4. CASE \/ Enter(t) \/ SelectAccount(t) \/ OpenFails(t) \/ Register(t) \/ EnterIdle(t)
             \/ FallBack(t) \/ CatchUp(t) \/ CheckReturns(t) \/ IdleDone(t)
             \/ IdleAgain(t) \/ BackoffEnds(t) \/ CancelledOpening(t)
             \/ AbandonedFails(t) \/ Leave(t) \/ AcquireLock(t)
    BY <2>4 DEF Enter, SelectAccount, OpenFails, Register, EnterIdle, FallBack, CatchUp,
       CheckReturns, IdleDone, IdleAgain, BackoffEnds, CancelledOpening, AbandonedFails,
       Leave, AcquireLock, Exits, Goes
  <2> QED BY <2>1, <2>2, <2>3, <2>4 DEF Progress
<1>2. \A u \in Watchers \ {t} : Open(u) => Open(u)'
  BY ProgressLeaves DEF Open
<1> QED BY <1>1, <1>2, ProgressLeaves, RegisteredOf DEF NInv, RegisteredOpen

\* A watcher takes along what it was told, until it has requested it.
LEMMA ProgressNotices ==
  ASSUME IInv, NInv, NEW t \in Watchers, Progress(t) \/ AcquireLock(t)
  PROVE  NewsNoticed'
<1>1. ASSUME NEW f \in Folders, folder_of[t] = f, ~ cancelling[t], Notices(t, f)
      PROVE  Notices(t, f)'
  <2> USE <1>1 DEF IInv, TypeOK, Notices, Subscribes, Heard
  <2>1. CASE CatchUp(t)
    <3>1. Request({f})
      BY <2>1 DEF CatchUp
    <3>2. ~ news'[f]
      BY <3>1, RequestNotices
    <3> QED BY <3>2
  <2>2. CASE CheckReturns(t)
    BY <2>2 DEF CheckReturns, Goes
  <2>3. CASE IdleDone(t)
    BY <2>3 DEF IdleDone, Goes
  <2>4. CASE IdleAgain(t)
    BY <2>4, RequestNotices DEF IdleAgain, EventFolders, Goes
  <2>5. CASE pc'[t] \notin Connected \ {"subscribed"}
    BY <2>5
  <2>6. CASE \/ Enter(t) \/ SelectAccount(t) \/ OpenSucceeds(t) \/ OpenFails(t)
             \/ Register(t) \/ EnterIdle(t) \/ FallBack(t) \/ LoggedOut(t) \/ Fails(t)
             \/ BackoffEnds(t) \/ Closed(t) \/ CancelledOutside(t)
             \/ CancelledUnconnected(t) \/ CancelledConnected(t) \/ CancelledOpening(t)
             \/ AbandonedOpens(t) \/ AbandonedFails(t) \/ Unwind(t) \/ Leave(t)
             \/ AcquireLock(t)
    BY <2>5, <2>6 DEF Enter, SelectAccount, OpenSucceeds, OpenFails, Register, EnterIdle,
       FallBack, LoggedOut, Fails, BackoffEnds, Closed, CancelledOutside,
       CancelledUnconnected, CancelledConnected, Cancelled, CancelledOpening,
       AbandonedOpens, AbandonedFails, Unwind, Leave, AcquireLock, Exits, Goes
  <2> QED BY <2>1, <2>2, <2>3, <2>4, <2>6 DEF Progress
<1>2. ASSUME NEW u \in Watchers \ {t}, NEW g \in Folders, Notices(u, g)
      PROVE  Notices(u, g)'
  BY <1>2, ProgressLeaves DEF Notices, Subscribes, Heard
<1>3. SUFFICES ASSUME NEW g \in Folders, NEW u, u = tasks'[g], u # NoTask
               PROVE  Notices(u, g)'
  BY DEF NewsNoticed, Notices
<1>4. u \in Watchers /\ folder_of[u] = g /\ ~ cancelling[u] /\ Notices(u, g)
  BY <1>3, ProgressLeaves, RegisteredOf DEF NInv, NewsNoticed, Notices
<1> QED BY <1>1, <1>2, <1>4

\* Who listens is told.
LEMMA ArriveNotices ==
  ASSUME IInv, NInv, NEW f \in Folders, Arrive(f)
  PROVE  NInv'
<1>1. tasks' = tasks
  BY DEF Arrive
<1>2. SUFFICES ASSUME NEW g \in Folders, NEW u, u = tasks[g], u # NoTask
               PROVE  Open(u)' /\ Notices(u, g)'
  BY <1>1 DEF NInv, RegisteredOpen, NewsNoticed, Notices
<1>3. u \in Watchers /\ folder_of[u] = g /\ Open(u) /\ Notices(u, g)
  BY <1>2, RegisteredOf DEF NInv, RegisteredOpen, NewsNoticed, Notices
<1>4. Open(u)'
  BY <1>3 DEF Arrive, Open
<1>5. Notices(u, g)'
  BY <1>3 DEF Arrive, Open, Notices, Subscribes, Heard, IInv, TypeOK
<1> QED BY <1>4, <1>5

\* Every step keeps it.
LEMMA NextNotices == IInv /\ NInv /\ [Next]_vars => NInv'
<1> SUFFICES ASSUME IInv, NInv, [Next]_vars PROVE NInv'
  OBVIOUS
<1>1. CASE UNCHANGED <<tasks, task, idle, mail>>
  BY <1>1 DEF NInv, RegisteredOpen, Open, NewsNoticed, Subscribes, Heard
<1>2. CASE Unschedule
  BY <1>2, UnscheduleNotices
<1>3. ASSUME NEW due \in SUBSET Folders, TickActs(due) PROVE NInv'
  BY <1>3, TickActsNotices
<1>4. ASSUME NEW t \in Watchers, Progress(t) \/ AcquireLock(t) PROVE NInv'
  BY <1>4, ProgressOpen, ProgressNotices DEF NInv
<1>5. ASSUME NEW f \in Folders, Arrive(f) PROVE NInv'
  BY <1>5, ArriveNotices
<1>6. CASE CommitEdit \/ TickReads \/ UNCHANGED vars
  BY <1>1, <1>6 DEF CommitEdit, TickReads, vars
<1>7. ASSUME NEW f \in Folders, Synced(f) PROVE NInv'
  BY <1>1, <1>7 DEF Synced
<1>8. ASSUME NEW o \in Outsiders, OutsiderLocks(o) \/ OutsiderUnlocks(o) PROVE NInv'
  BY <1>1, <1>8 DEF OutsiderLocks, OutsiderUnlocks
<1> QED BY <1>2, <1>3, <1>4, <1>5, <1>6, <1>7, <1>8 DEF Next

\* What arrives in a folder that is shown as watched waits in its connection or
\* has been requested, but for what idle_done returns (_watch subscribes before
\* it catches up).
THEOREM GapsClosed == Spec => []NewsNoticed
<1>1. Init => NInv
  BY DEF Init, NInv, RegisteredOpen, NewsNoticed
<1>2. NInv => NewsNoticed
  BY DEF NInv
<1> QED BY <1>1, <1>2, NextNotices, Invariance, PTL DEF Spec
=============================================================================
