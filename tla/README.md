# A TLA+ model of inboxone

inboxone is a self-hosted webmail aggregator: one Python process (FastAPI,
asyncio, SQLAlchemy over SQLite) that keeps a cache of message headers in line
with any number of IMAP mailboxes, serves it to a React frontend, and sends mail.
This directory holds TLA+ modules for the parts of it that run concurrently, the
TLC configurations that check them on small instances, and TLAPS proofs of their
safety for instances of any size. Source paths below are relative to
`src/backend/app/`, those of the browser's code (`.ts`, `.tsx`) to `src/frontend/src/`.

## 1. Inventory

Everything in the backend runs on one asyncio event loop. Code between two
`await`s is atomic; blocking IMAP calls run in threads and are awaited;
`task.cancel()` only marks a task, and `CancelledError` is raised at the await
the task is suspended in. The interesting behaviour is what may happen at those
awaits.

| Component | State | Operations | What makes it correct |
|---|---|---|---|
| **Sync requests** `sync/requests.py` | `running`, `pending`, `pending_activity`, `retired` | `request_sync` merges a scope, `_drain` works scopes off, `cancel_account` drops and retires | no request lost, one pass and one follow-up scope per account, nothing outlives its drain unnoticed |
| **Account pass** `sync/worker.py:sync_account` | `_account_locks`, `_sync_semaphore`, the connection | lock, semaphore, read account, shielded connect, discovery, folders, finally | lock and permits given back on every path; passes of an account exclude each other |
| **Folder sync** `sync/worker.py:_sync_folder` | `Folder.last_uidvalidity`, `last_seen_uid`, `history_complete`; `Message` rows | SELECT, SEARCH, batched FETCH of headers, walk over cached rows with FETCH FLAGS | the cache converges to the mailbox; nothing skipped, mixed up, wrongly dropped or announced |
| **Folder discovery** `sync/worker.py:_discover_folders` | `Folder` rows | reconcile with LIST | user's inbox choice survives; vanished folders go |
| **Watchers and supervisor** `sync/scheduler.py` | `_tasks`, `_clients`, `_background`, `_accounts`, `_last_full`, `_last_inbox` | `_watch` (connect, IDLE, renew, poll, back off), `_tick`, `_stop_folder`, `_close`, `schedule_account_sync`, `unschedule_account_sync` | exactly the inbox folders of active accounts are watched; every connection is closed by its owner; no news missed |
| **Start, stop, token refresh** `sync/scheduler.py`, `main.py` | `_loop_task`, `_token_refresh`, `_started` | `start_scheduler`, `stop_scheduler`, `_refresh_all_oauth_tokens` | shutdown ends; tokens are refreshed under the account lock |
| **Live events** `sync/live.py`, `api/routes_sync.py` | `subscribers`, `leases`, `watchers` | `publish`, `presence`, the SSE generator, `health` | a client that lost events refetches; health is honest |
| **Activity registry** `core/activity.py` | `_active`, `_parent` | `begin`, `update`, `finish`, `track`, `snapshot` | nothing is shown for ever |
| **Message routes** `api/routes_messages.py` | rows, the mailbox | mark all read, open, flags, delete, reply, forward | no mail erased or hidden; what is reported was done; read means read on the server |
| **Outgoing mail** `services/outgoing_mail.py`, `frontend/src/components/ComposeModal.tsx` | Sent folder, the compose window | send, save a copy, try again | mail is sent once and reported as sent; a copy that failed is a warning |
| **Microsoft OAuth** `services/oauth_microsoft.py`, `account_connection.py`, `api/routes_oauth_ms.py` | `_flows`, `_pending_metadata`, the encrypted token cache column | start, drive, poll, reconnect, acquire | one account per flow; the newest cache survives |
| **Account routes** `api/routes_accounts.py` | `Account`, `Folder` rows | create, update, delete, choose inbox folders | committed before the scheduler is told |
| **Settings, auth, encryption, parser, schemas, migrations, CLI** | rows, session cookie | sequential | conversions; no protocol |
| **Frontend live updates** `components/LiveUpdates.tsx`, `store/activityStore.ts` | EventSource, revision counters, the query cache | reconnect, refetch, fall back on polling; snapshot against stream | an old snapshot never replaces newer events; what is shown catches up |
| **Notifications** `components/NewMailWatcher.tsx` | set of known ids | compare refetched lists | announce what is new, and only that |
| **Undo delete** `pages/InboxPage.tsx`, `store/toastStore.ts` | hidden messages, timers, toasts | hide, offer Undo, delete after the undo window | a delete is done or undone; nothing stays hidden for nothing |
| **Account settings page** `pages/SettingsAccountsPage.tsx`, `components/AccountEditorModal.tsx`, `components/OAuthMicrosoftLinkFlow.tsx` | one dialog and its form, the sign-in and its poll query, the folder list | add, edit, remove, sign in, choose inbox folders | settings are saved for the account they were typed for; a sign-in is used once and told |

How they interact. API handlers, the supervisor's `_tick` and the watchers call
`request_sync`; its drain calls `sync_account`, which shares the account lock with
`_watch` (while it connects) and with the token refresh, and the semaphore with
the passes of other accounts. `sync_account` runs `_sync_folder` folder by folder,
each database change a transaction of its own. Handlers change the same rows and
the same mailbox without any lock. An account edit commits, then calls
`schedule_account_sync` or `unschedule_account_sync`, which cancels the account's
drain and watchers and drops its queue; cancelled tasks live on until their
connection is closed. Everything visible is published to the subscribers, and
reaches a tab through its event stream: `LiveUpdates` puts activities into the
store and has lists fetched again, from which `NewMailWatcher` raises
notifications. In the browser everything runs on one thread as well; what
interleaves there are answers, timers, events and the user.

The hard behaviours, each at its line, are the `hazards` of `PROJECT.json`.
They are of six kinds: cancellation that arrives while another task is already
replacing the cancelled one; data read before an await and acted on after it (the
UID snapshot, UIDVALIDITY, the rows `_tick` or a handler has read); a pass that
ends at any point and is resumed by another; wakeups that could fall between two
awaits; an operation on two stores (mailbox and database, provider and Sent folder) of
which one step fails, before or after it took effect; and answers, events and
timers in the browser that come back to a page, a dialog or a window that has
changed since.

## 2. Modules

| Module | Models | Role |
|---|---|---|
| `SyncService` | what `sync/` promises a caller | abstract specification |
| `SyncRequests` | `requests.py` and the control of `sync_account` | detailed; implements `SyncService` |
| `SyncRequestsProofs` | | safety and refinement, proved |
| `FolderSync` | `_sync_folder`, the mailbox, the handlers' effect on rows | detailed |
| `FolderSyncProofs` | | safety, proved |
| `Watchers` | `scheduler.py` for one account | detailed |
| `WatchersProofs` | | safety, proved |
| `MessageActions` | the handlers that open, flag and delete mail, beside sync passes and other mail clients | detailed |
| `MessageActionsProofs` | | safety, proved |
| `OutgoingMail` | reply and forward: window, handler, provider, Sent folder | detailed |
| `OutgoingMailProofs` | | safety, proved |
| `LiveEvents` | from `publish` to what a tab shows, lists and announces | detailed |
| `LiveEventsProofs` | | safety, proved |
| `DeleteUndo` | the inbox page's deletes, their timers and toasts | detailed |
| `DeleteUndoProofs` | | safety, proved |
| `AccountSettings` | the settings page, the handlers it calls and the device flow | detailed |
| `AccountSettingsProofs` | | safety, proved |
| `MCSyncRequests`, `MCFolderSync`, `MCWatchers`, `MCMessageActions`, `MCOutgoingMail`, `MCLiveEvents`, `MCDeleteUndo`, `MCAccountSettings` | | instances for TLC |

Each detailed module stands for itself and sees its neighbours through what they
do to the state they share: `FolderSync` has the handlers' effect on rows as single
steps, `MessageActions` has the handlers in full and a sync pass as a read and a
later store, `SyncRequests` has a pass's control and only the end of its work.
`DeleteUndo` has the DELETE request as an answer that comes some time, `LiveEvents`
has a pass as a batch that is stored and published.

### SyncRequests

A member of `Tasks` is an `asyncio.Task` running `_drain`; its `pc` names the await
it is suspended in. `RequestSync`, `CancelAccount` and `CommitAccount` are the
callers' operations, atomic because they never await. `TakeRequest` and
`DrainExits` are the two outcomes of `while account_id in pending`, including the
finally clauses executed on the way there. `AcquireLock`, `AcquireSemaphore`,
`SelectAccount`, `OpenSucceeds`, `OpenFails` and `SyncFinishes` are the steps of a
pass; `CancelledUnconnected`, `CancelledOpening`, `CancelledSyncing` are
`CancelledError` raised at the respective awaits, and `AbandonedOpens` and
`AbandonedFails` the two ways `client = await opening` in the except clause ends.
`OutsiderLocks` stands for a watcher or the token refresh holding the account
lock. `syncing` covers discovery and the folder loop, of which only the end
matters here; `FolderSync` models the inside of it.

`SyncService` knows two things, what is `wanted` of an account and which accounts
are `syncing`. In the refinement `wanted[a]` is the set of folders (plus
discovery) covered by `pending[a]` and `syncing` the accounts of the tasks that
hold a permit. That merging never forgets an item, that scopes are taken or
dropped whole, that passes of one account exclude each other and that the
semaphore bounds them is then one statement, `ImplementsService`.

### FolderSync

One folder and its mailbox. The server's side is `epoch` (UIDVALIDITY), `mail` and
`next_uid`; the cache's is `rows` and the three columns of the folder; the locals
of `_sync_folder` are `validity`, `remote_uids`, `batch`, `loaded`, `fetched` and
`after_uid`. A pass is `ReadValidity` (SELECT), `RecordValidity` (the reset of the
cache and its commit), `ListUids` (SEARCH), then `FetchHeaders` and `StoreBatch`
until nothing of the snapshot is new, then `LoadRows`, `FetchFlags` and
`ApplyFlags` until all rows were walked, then `FinishPass`. `StaleRowFails` is the
`StaleDataError` of an UPDATE whose row a handler deleted, `FailPass` any other
failure, cancellation or restart: locals are lost, what was committed stays.
Between any two of these the environment may deliver, expunge or flag mail,
recreate the mailbox, or use a handler (`DropRow`, `MarkRow`). Batches are
prefixes of any length, so `SYNC_BATCH_SIZE` is any number. Ghosts: a row's
`source` is the epoch its header was read in, and `history` the messages present
when an epoch was recorded.

### Watchers

One account (tasks of different accounts share no lock and no entry), its folders
and a pool of watcher tasks. `CommitEdit` and `Unschedule` are the two halves of an
account edit with an await in between; `TickReads` and `TickActs` those of
`_tick`. The watcher's actions follow `_watch` await by await, from `Enter` and
`AcquireLock` to `Register`, `EnterIdle`, `CatchUp`, `CheckReturns`, `IdleDone` and
`IdleAgain`, or to `FallBack` and `LoggedOut` where the server has no IDLE, with
`Fails`, `BackoffEnds` and `Closed` for the reconnect and one
action per class of await at which a cancellation may arrive. The time limits
(`IDLE_RENEW_SECONDS`, back-off, polling, the refresh interval) are
nondeterministic: the step may be taken at any time. `news[f]` is mail for which
no sync has been requested, `notice[t]` a response the server has queued on a
watcher's connection, `heard[t]` what `idle_check` has just returned; the ghost
`missed[f]` says that the only word of the news was in an answer of `idle_done`,
which is thrown away.

### MessageActions

Every account has an inbox and a Trash; a message is what an account's mailbox
names by a uid under one UIDVALIDITY (`epoch`), and `Named` is what the same uid
means now. A request is a record whose `pc` is the await it is suspended in:
`Receive` and `ReceiveAll` load the rows, `Connects`, `ConnectFails` and
`PersistsToken` are `open_imap_connection`, then come the commands of the one kind
of request (`SelectForOpen` and `FetchBody` for opening, `StoreSeen` for the flag,
`CopyToTrash`, `MarkDeleted` and `ExpungeFolder` for `move_to_trash`), and `Logout`
and `Commit` are the finally clause and the end of the transaction. A command that
raises may have been carried out (the `ok = FALSE` branch of each) or not
(`CommandFails`). `mark_all_read` goes through its accounts in any order, swallows
the failures of one and commits once at the end, except where a refreshed token
is committed on the way. The session issues an UPDATE only for an attribute whose
value differs from the one loaded (`Differing`), and raises when the row is gone.
`SyncReads`, `SyncStores` and `SyncStops` are a pass, reduced to what it is going to
change (`snapshot`); the other mail clients are the
`Other...` actions. `others` are the messages another client had its hands on, and
`Misaddressed` those that a delete hit through a uid of an earlier epoch; the
properties make an exception of both.

The row of a message is found by its `id`, and SQLite gives a new row the largest id
there is plus one: once the newest rows are gone, their ids come back (`db/models.py:118`
has no AUTOINCREMENT). So `Commit` and `SyncStores` drop and mark the rows that the ids
they hold denote by then (`Denoted`), and a session notices a vanished row only
while its id is nobody's (`HaveRows`). Mail filed under an id that a handler or a pass
was still using is remembered in `heirs`: it may be dropped or marked in place
of its predecessor, and `NothingHidden` and `ReadOnlyIfFlagged` except it.

### OutgoingMail

A draft is one opening of the compose window, all drafts about one original.
`HandleSend` and `NotFound` are a press on Send; `Connects`, `EnsuresSent`,
`Submits`, `AppendsSent`, `Logout` and `Commit` the awaits of the handler and of
`send_smtp_and_save`, each on the routes that have it: SMTP with a copy appended,
Gmail, which files what it submits, and Graph. `CallFails`, `SubmitRaises`,
`AppendsSent` with `ok = FALSE` and `CommitFails` are their failures,
`ConnectionLost` a restart or a broken connection to the browser. The answer
reaches `Succeed` or `Fail`, the continuation of `handleSend`, which closes or locks
whatever window is open then. `excused` counts the attempts whose fate nobody
could report: the provider raised after it had accepted the mail, or the answer
was lost. The row of the original may go, and its id may then be given to new mail
(`RowGoes` and `IdTaken`; `taken`): a press on Send that would have ended in `NotFound`
finds a row again. `misled` are the drafts that were sent and yet reported as failed
because the UPDATE of `is_answered` found no row; a draft that is both is the exception
of `SentOnce`.

### LiveEvents

One tab and the server. The registry of activities is its version, `act`, and each
change publishes it; a batch of a pass (`BatchStored`) or a change of flags made
here (`MarkHere`, `Marked`) changes what is `unread`. `Published` is the queue with
its overflow, `StreamAnswered`, `Subscribe`, `SnapshotRead` and `Dequeue` the
generator of the stream: a `snapshot` event is filled in when it is taken from the
queue. The tab's `LiveUpdates` is `conn` (`Opened`, `Receive`, `Break`, `Reconnect`,
`Hide`, `Show`, and the two intervals `Fallback` and `ActivityFallback`). The activity
store takes what the stream brings, and answers of `refreshActivity` only while
`StillValid`; a fetch that a later event has outdated is dropped from `refreshes`,
as nothing reads its answer. `fetch` and `data` are the query of recent unread
mail: an invalidation fetches again and throws away what is under way, except on
the first load, which goes on (`missed`). The server answers with the unread messages
that were sent last, as many as the list holds (`Newest`, `ListLimit`); messages are
numbered by `date_sent`, and may come in any order. `FetchDone` is the effect of
`NewMailWatcher`, which compares a list with the one before; the `baseline` is what
was unread when the first one was answered, and `lapsed` remembers what of it was read
since, or unread without being in an answer. A message is its row id, as it is for the tab. Assumed: the tab's other
requests succeed (a query tries twice), a stream that breaks is noticed by the
browser, the inboxes and the permission to notify do not change.

### DeleteUndo

A press is one use of Delete that took effect, a visit one mounting of `InboxPage`.
`pending_delete_ids` goes with the visit; the `armed` timers, the `toasts` and the
selection stay when the page is left, and `delete_timers` of an old visit is what
the closures of its toasts still hold. `HandleDelete`, `Undo`, `Dismiss`,
`ToastExpires`, `CommitDelete`, `Answered` and `ListArrives` are the page's
functions; `SelectRow`, `OpenNotification`, `DetailArrives` and `Retry` are the ways
a message gets into the reading pane, hidden or not (a message is its row id: new mail
that gets the id of a removed row counts as the same message); `RowGoes` is a pass that drops
the row, `ReloadTab` the end of the tab. `Tick` is time: no timer is overtaken by it.

### AccountSettings

A setting is known by the account it was loaded from or typed for, so that a
mixed-up one is seen. `Open`, `SwitchTab`, `Type`, `Save`, `Close` are the dialog,
`UpdateAnswered` and `CreateAnswered` the continuations after its two requests,
which act on the dialog as it is then. `Start`, `Started`, `FlowEnds`, `Poll`,
`PollHandled`, `PollApplied` and `PollArrives` are a sign-in: the poll that finds it
finished takes flow and metadata before its first await (`Take`), a poll whose
connection is lost (`PollLost`) or that is refused is tried once more while the
first may still be at work (`tries`), and the query asks again only as `Due` says.
`unheard` remembers that the poll that took a finished sign-in failed (`Spent`): the
next one is told that the flow is unknown. `Toggle` sends the whole list of folders as the
picker knows it, `ServerChooses` changes the folders that are named and may fail before
or after its commit, `ChoiceAnswered` asks for the list again after a success, and
`Refetch` is `LiveUpdates` doing the same at any time. The ghosts `doubted` (folders of
failed choices, until one succeeds) and `owed` (the list asked for after a choice has
not arrived) say what the user cannot know. `ServerUpdates`, `ServerCreates`, `ServerRemoves` and `ServerChooses` are the
handlers. A row's primary key is the largest there is plus one (`NextId`), so the
key of a removed account may come back, and requests name accounts by key (`Row`).

## 3. Runs

| Run | Instance | Shows |
|---|---|---|
| `sync_requests` | 2 accounts, 1 folder, 2 drain tasks, 1 permit, 4 activity ids | `NoLostRequest`, `EveryDrainSupervised`, `PassesSerialized`, `PermitsConserved`, `ActivitiesAccounted`, `ImplementsService` |
| `sync_requests_live` | 1 account, 2 folders, 2 drain tasks | `RequestsServed` |
| `sync_requests_one_pass` | 1 account, 1 folder, 2 drain tasks | `OneRunningPass` is violated |
| `folder_sync` | 3 uids, 2 epochs, 3 changes | `NoMailSkipped`, `NoForeignRows`, `HistoryNotAnnounced`, `DropsJustified`, `Converges` |
| `watchers` | 1 folder, 2 watchers, 2 edits, 1 competitor | `TypeOK`, `WatchersSupervised`, `ConnectionsOwned`, `StatusHonest`, `NewsNoticed`, `ClosesOnlyItsOwn` |
| `watchers_live` | 1 folder, 2 watchers, 1 edit | `SettlesOnDesired`, `NewsServed` |
| `message_actions` | 2 accounts, 1 uid, 2 epochs, 2 requests, 2 passes, ids up to 3, 1 change | `NothingErased`, `NothingHidden`, `DeleteHonoured`, `ReadOnlyIfFlagged` |
| `message_actions_chosen` | 1 account, 1 uid, 2 epochs, 1 request, 2 changes | `DeletesWhatWasChosen` is violated |
| `outgoing_mail` | 2 drafts, 2 attempts each | `SentReported`, `SentOnce`, `CopyKept` |
| `live_events` | 2 messages, list of 1, queue of 1, 2 changes, 1 upset, 2 fetches | `NothingLost`, `NoOlderSnapshot`, `NoWall`, `ActivityConverges`, `ListConverges`, `AnnouncedOrRead` |
| `delete_undo` | 2 messages, 2 visits, 2 presses | `UndoHonoured`, `HiddenForAReason`, `DeletesCarriedOut` |
| `account_settings` | 2 accounts (1 Microsoft's) and 2 more, 2 folders, 1 sign-in, 2 steps, 2 upsets | `OwnSettings`, `ChoicesKept`, `SignInUsedOnce`, `SignInTold` |

Type invariants are proved for all eight detailed modules, and run only for `Watchers`,
where a fault in the code would break it: a state a watcher cannot be in.

Each property is paired in `PROJECT.json` with a mutant: a plausible fault in one
mapped definition (a dropped guard, an off-by-one, a missing reset) under which
the same run finds the property violated. The faulty operators stand beside the
ones they replace, marked as faulty variants, and are used nowhere.

Deadlock is not checked in the runs of `SyncRequests` and `Watchers`: when all task
slots are taken the model has no room for another drain or watcher, and with
everything quiet and the edits used up the system may rest. Nor is it in those of
`MessageActions` and `OutgoingMail`, where the requests or drafts run out, nor in
those of `LiveEvents`, `DeleteUndo` and `AccountSettings`, where a tab at rest may
stay so; what must happen there are their liveness properties.

### Bounds

- Task slots (`Tasks`, `Watchers`): two, so that a cancelled task and its
  replacement coexist, which is what all hazards of cancellation need. A third
  would add a second cancelled task, which interacts with the others only through
  the same lock. The proofs hold for any number.
- `ActivityIds`: one per account and task, so a fresh one always exists.
- `MaxUid = 3`: a batch that ends before, at and after a given message, with one
  more that arrives during the pass. `MaxEpoch = 2`: one reset, at any point of any
  pass; a reset compares two epochs. `MaxChanges = 3`: an arrival, an expunge and a
  reset or failure can all fall into one pass. The safety proofs hold for all values.
- `MaxEdits = 2`: an edit while the watchers stopped by the previous one are still
  shutting down; one edit in the liveness run, since after the last edit nothing
  depends on how many there were.
- `Outsiders`: one competitor for the account lock stands for any number, as only
  whether the lock is free matters. The liveness run of `Watchers` has none, the
  connection attempts of the two watchers already compete.
- `Requests = 2`: each property is about one handler beside another that acts on
  the same message. One uid per account is enough for that, and two accounts for a
  `mark_all_read` that fails on one of them. `MCSpec` starts with one message.
  `MaxChanges = 1`: one reset, restart or interference of another client at any
  await, or the arrival of a message in the other account, which a pass then files.
  The proofs cover any number of messages and sequences of changes.
  `Permits = 2`: the passes of both accounts at once, since ids are shared by all
  accounts and one pass may file mail under an id the other one holds. `MaxId = 3`: an id
  that is freed and given again, and one above it.
- `Drafts = 2`: a window that closes while its request is under way, and another
  that is open when the answer comes. `MaxAttempts = 2`: one repetition.
- `QueueSize = 1` (the code's is 64): the second event overflows the queue.
  `MaxChanges = 2`, of activities and mail together: a change before and one after any
  point of a fetch, a break or an overflow. `MaxUpsets = 1`: one break, lost answer or hiding of the tab; the
  stream may in any case stay unanswered. `MaxRefreshes = 2` fetches of the activities
  under way that still count: one overtakes the other. Activities and the list share only
  the stream, so the two changes may as well be of one kind.
  `Messages = {1, 2}` and `ListLimit = 1` (the code's is 200): one message more than the
  list holds, the older or the newer one first. The safety proofs hold for any limit.
- `MaxPresses = 2`, `MaxVisits = 2`: Delete used again on the same or another message,
  on the same page, a later one or after a reload. `UNDO_WINDOW = 1` and
  `DELETE_COMMIT = 2` keep the order of 5000 and 5300 ms.
- `MaxSteps = 2`: a dialog and the one opened while the first one's request is under
  way, or two choices of folders; dialog and folders share no state, so no behaviour
  has both. `MaxUpsets = 2`: both tries of a poll lost; one removal, of whichever
  account, takes their place. `MaxFlows = 1`: flows share only the two dictionaries,
  by key. `MaxAccounts = 4`: one account by the form, one by the sign-in.
- Symmetry is used in safety runs only, over accounts, folders, requests, drafts and
  task slots,
  which no action distinguishes. Activity ids are not symmetric: a CHOOSE picks one.

### Fairness

- `SyncRequests` and `Watchers`: weak fairness of every task's progress, because
  the event loop resumes each ready task and every IMAP call has a timeout; strong
  fairness of taking a lock or semaphore, because asyncio's are first in, first
  out; weak fairness of a lock holder's release. No fairness of requests, cancels,
  edits, arrivals or failures of the environment's choice.
- `Watchers` in addition: the supervisor ticks every five seconds, an edit's
  handler gets to its second half, and the refresh interval of each folder runs
  out again and again (strong fairness of a tick that finds it due).
- `FolderSync`: weak fairness of `PassStep`. A pass is always started again, because
  the supervisor requests each folder at every refresh interval and
  `RequestsServed` says requests reach a pass; `Converges` then needs the mailbox
  to be left alone, which the bound on changes expresses.
- `LiveEvents`: weak fairness of what the server's generator does next, of what the tab's
  connection does next, of a fetch and its answer together with the interval that asks
  for the next one, and of the answer to a change of flags. None of the answer to the
  stream's request: a proxy may hold it back for ever, for which the code has the
  intervals. None of changes, breaks, lost answers or the user.
- `DeleteUndo`: weak fairness of time, of the timers and of the answers; none of
  clicks and of leaving. A reload may prevent a delete, which is what `forgotten` says.
- `AccountSettings`: weak fairness of the poll's interval and of the server's and the
  browser's part of a poll; none of the user, at Microsoft or here.
- `MessageActions` and `OutgoingMail` state safety only and assume no fairness: a
  handler may stop anywhere, which is what their properties have to survive.

### Findings

1. **A cancelled drain can come back** (`sync_requests_one_pass`, `worker.py:171`).
   `except CancelledError: client = await opening` re-raises only if the attempt
   succeeds. If it fails, its exception replaces the cancellation, the pass is
   handled as failed, and the drain goes on to the next queued scope beside the
   drain that replaced it. The passes still exclude each other
   (`PassesSerialized`), but `requests.py:1` promises one running pass and one
   merged follow-up, and two drains then share the work.
2. **A delete can move another message** (`message_actions_chosen`,
   `routes_messages.py:377`). `delete_message` passes the cached uid to
   `move_to_trash` without comparing UIDVALIDITY, as `_fetch_raw` does. After a reset
   of the mailbox the message that has the uid now goes to Trash, and the handler
   reports success. It is in Trash, not erased.

Further divergences met while modelling, which no run repeats. The properties above
state the exceptions they need for them:

- A cancelled watcher can come back (`scheduler.py:120`): the pattern of finding 1.
  It is then in `_background` only, where no edit or tick reaches it, and idles on a
  second connection beside the folder's new watcher.
- A reply that was sent can be reported as failed (`routes_messages.py:434`), against
  `outgoing_mail.py:23`. When the original's row goes while the reply is sent, the UPDATE
  of `is_answered` raises after the submission. `RowLost` is the exception in
  `SentReported`. Another press ends in 404, unless the row's id is new mail's by then:
  it sends the mail again.
- Old mail can be announced as new (`NewMailWatcher.tsx:70`), against its line 30. The known
  ids are replaced by the list last fetched, which holds the 200 newest unread messages.
  With more unread mail than that, each message read lets an old one in. Likewise new mail
  that is dated further back than the list reaches is not announced. `lapsed` and `Newest`
  are the exceptions in `NoWall` and `AnnouncedOrRead`.
- Mail can be heard of and not synced (`scheduler.py:155`), against `README.md:189`. What the
  server says between an `idle_check` that timed out and the `idle_done` after it is
  returned by the latter and thrown away; the mail waits for the next event or the refresh
  interval. `missed` is the exception in `NewsNoticed`, which shows that it is the only gap.
- The id of a removed message can come back (`db/models.py:118`). A handler or a pass
  that was still using it then drops, or marks as read, the row of the new mail
  (`routes_messages.py:383`, `329`); the row is behind `last_seen_uid` and not fetched
  again. `heirs` is the exception in `NothingHidden` and `ReadOnlyIfFlagged`, and
  `misled` together with `taken` that in `SentOnce`.
- Delete can be used again while the DELETE request is under way
  (`InboxPage.tsx:95`), from a later visit or the reading pane; its Undo then comes
  too late, against `InboxPage.tsx:19`. The Undo of each press keeps its own promise
  (`UndoHonoured`).
- The key of a removed account can come back (`db/models.py:43`, no AUTOINCREMENT). A
  sign-in, save or removal begun for the old account then reaches the new one
  (`routes_oauth_ms.py:65` looks at neither protocol nor identity). `Succeeds` is the
  exception in `OwnSettings` and `SignInUsedOnce`.
- A quick second choice of a folder takes back the first (`SettingsAccountsPage.tsx:26`):
  the list it is made from has not been fetched anew. `hasty` is the exception in
  `ChoicesKept`.
- A choice of a folder can be committed and reported as failed (`routes_accounts.py:209`, or
  a lost answer), and the page goes on showing the old list. `doubted` is the exception.
- A sign-in that succeeded is reported as an unknown flow when the poll that took it was
  lost or failed (`oauth_microsoft.py:141`). `unheard` is the exception in `SignInTold`.
- The very first poll of a sign-in may fail twice; the query then never asks again,
  while the dialog goes on waiting (`useMicrosoftOAuth.ts:40`). `stalled` is the
  exception in `SignInTold`.
- An announcement that meets the first load of a list is lost, as an invalidation
  does not restart a first load. `missed` is the exception in `ListConverges`.
- A message marked unread again is announced once more (`NewMailWatcher.tsx:30`);
  `lapsed` is the exception in `NoWall`.

## 4. Proofs

Every safety property of the passing runs is proved as well, for all values of the
constants that satisfy the named assumption of its module. Each proof has the same
shape: an inductive invariant `IInv`, a lemma that `Init` implies it, one lemma for
each action or group of actions that keeps it, and the theorems that follow. Bounds
are constants like any other, so the theorems do not depend on how large they are.

`SyncRequestsProofs`, from `ConstantsAssumption` (finitely many tasks, a positive
semaphore, distinct null values) and `NoneAssumption` (`None` is no set of folders):

- Inductive invariant `TypeOK /\ Supervision /\ PassesSerialized /\
  PermitsConserved`. `NoLostRequest` is not inductive: whether a registered drain
  is uncancelled depends on cancelled ones being retired, and whether the entry a
  leaving drain pops is its own depends on who is registered where. `Supervision`
  says both, and the two supervision properties follow from it.
- The activities are a second layer, `AInv`, kept by steps of which `IInv` is known
  before and after: `ActivitiesAccounted` needs that a free task slot holds no
  activity (`FreeTasksIdle`), or the drain that gets the slot would start with one
  that belongs to another.
- Theorems `TypeCorrect`, `RequestsAreNotLost`, `DrainsAreSupervised`,
  `PassesExclude`, `PermitsBalance`, `ActivitiesAreAccounted`, and `Refinement`:
  `Spec => ImplementsService`, by a step-by-step simulation under the invariant.

`FolderSyncProofs`, from `BoundsAssumption` (the bounds are numbers, at least one
epoch):

- Inductive invariant: the types, `RowsBehindMarker`, `NoMailSkipped`,
  `HistoryNotAnnounced` and `PassSound`. The last says what a pass under way knows:
  recorded epochs never run ahead of the mailbox (`EpochsOrdered`), UIDNEXT is
  ahead of everything known of the epoch (`UidsOrdered`), while the epoch lasts the
  snapshot misses only mail newer than all of it (`SnapshotBounds`), a batch is the
  next part of the snapshot and its answer lacks only what is gone (`BatchSound`),
  so does the answer for the walk (`WalkSound`), and a complete history is behind
  the marker (`HistoryBehind`).
- The argument turns on epochs only growing: if the mailbox is in the epoch the
  pass selected, nothing was reset since, although SEARCH and FETCH do not look.
  Moving the marker to the end of a batch then skips nothing, since a message up to
  there is behind the old marker or in the snapshot, hence in the batch, hence in
  the answer. And a row the walk drops has no message: one would be behind the
  marker, hence in the snapshot, hence in the answer.
- Theorems `TypeCorrect`, `NoMailIsSkipped`, `RowsStayBehindMarker`,
  `RowsAreOfTheirEpoch`, `HistoryIsNotAnnounced`, and for steps
  `DropsAreJustified`.

`WatchersProofs`, from `WatcherAssumption` (`NoTask` is no task, and the competitors for
the lock are none of the watchers):

- Inductive invariant: `TypeOK`, `WatchersSupervised`, `ConnectionsOwned`,
  `StatusHonest`, and two facts none of these says. `TasksNamed`: a watcher is
  registered under the folder it watches and no other, so that stopping a folder
  cancels its own watcher. `ClientsPlaced`: a connection exists only where its owner
  will still shut it down, and is registered only while the owner uses it, so that
  whoever is named by `_clients` has a socket that can be shut down.
- A second layer, `NInv`, kept by steps of which `IInv` is known: `NewsNoticed`, with the
  reason why a watcher that is shown as connected is told of what arrives. Its socket
  is shut down only by itself while it is registered (`RegisteredOpen`), for an entry
  of `_clients` that a stop shuts down is of the folder that is stopped.
- The hard part is `_tick` and an edit, which stop and start any set of folders at
  once (`RestartInvariant`); each step of a watcher then changes one watcher, one
  folder and one connection.
- Theorems `TypeCorrect`, `Supervised`, `Owned`, `Honest`, `GapsClosed`, and for steps
  `ClosesOwnOnly`.

`MessageActionsProofs`, from `BoundsAssumption`:

- Inductive invariant: the types, the four properties but `DeleteHonoured`, and what
  they rest on. `ServerSound`: a mailbox holds messages of its present epoch only,
  so a uid still denotes its message if that is there at all (`HitsContain`).
  `MarkedSafe`: what is flagged `\Deleted` is in Trash, another client's, or
  misaddressed. Anybody's EXPUNGE removes only such messages, which is why it need
  not name uids. `SnapshotSound`: what a pass will drop is gone for good.
  `HandlerSound`: how far each handler has got, in particular `DeleteSound` (a handler
  past COPY has its message in Trash or out of the inbox, one that can still succeed
  past EXPUNGE has it out) and `ReadSound` (rows changed in a session are flagged).
  `IdsSound`: rows have different ids, and the ids that a handler or a pass goes by
  denote the rows they were read with, no row, or an heir's. New mail gets an id above
  those of all rows, so the id of a row that stays is never given away.
- A handler's knowledge is stable because of `Evolves`: Trash and the ghosts only
  grow, mail that left the inbox does not return, and a `\Deleted` flag goes only
  with the message or by another client. Every other step is shown to evolve, so
  each action needs an argument about its own handler only (`KeptHandlerSound`).
- Theorems `TypeCorrect`, `DeletingErasesNothing`, `CacheHidesNothing`,
  `DeletesAreHonoured`, `ReadMeansFlagged`.

`OutgoingMailProofs`, from `DraftsAssumption`:

- Inductive invariant, draft by draft: `HandlerSound` (where the handler is tells
  whether the submission has returned and whether a copy exists), `Counted` (an
  attempt delivers once and is excused once at most) and `Unspent`, the heart of
  `SentOnce`: a draft that has delivered a mail which nothing excuses is one whose
  handler is past submission, whose window is closed or locked by the warning, or a
  reply reported as failed for want of the original's row, whose further presses end in
  `NotFound` for as long as the row's id is not given to other mail (`Stranded`); from
  then on it is what `SentOnce` excepts (`Misled`).
- Theorems `TypeCorrect`, `SendsAreReported`, `SendsAreNotRepeated`, `CopiesAreKept`.

`LiveEventsProofs`, from `LiveEventsAssumption` (a queue, a list and a number of fetches of
at least one; messages are positive numbers):

- Inductive invariant: `TypeOK`, `NoOlderSnapshot`, `NoWall`, and what they rest on.
  `StreamComplete` is the reason why a bounded queue that is emptied when it is full
  loses nothing: as long as a stream runs, the last event for the activities on its
  way, first in the queue and then on the wire, is of the server's version or will be
  read when it is sent, or nothing is on its way and the tab has heard that version.
  `VersionsKnown`: nothing on its way is newer than the server, and an HTTP snapshot
  that still counts is not older than what the stream has brought. `ListKept`: mail
  of the baseline is in every list fetched since, unless it was read or did not fit.
- `NothingLost` follows at once: with nothing on its way, the tab has heard the
  server's version, which is shown because `NoOlderSnapshot` and `VersionsKnown`
  bound what is shown from both sides.
- Theorems `TypeCorrect`, `SnapshotsAreNotOlder`, `StreamLosesNothing`,
  `NoWallOfNotifications`.

`DeleteUndoProofs`, from `DeleteUndoAssumption` (the window for Undo is shorter than the
time to the DELETE, and `NoMessage` is none):

- Inductive invariant: `TypeOK`, the two properties, and what the code relies on
  without saying so. `TimersAgree`: a timer that runs is the one its page has for the
  message, since a second Delete clears the first one's, so clearing by message
  clears the right timer. `ToastsInTime`: a toast is gone when its press is as old as
  the window, so Undo is never offered for a delete already sent.
  `NotPressedYet`, `HiddenWhileMounted`: presses to come have no effects, pages that
  are gone hide nothing. `Accounted` says that every press has its timer, was sent,
  was undone or went with the tab: what remains of `DeletesCarriedOut` is that a timer
  that runs ends.
- Theorems `UndoIsHonoured`, `HiddenWithReason`, `PressesAccounted`.

`AccountSettingsProofs`, from `AccountSettingsAssumption` (the accounts there are at first
have the keys from 1 on, and the bound on accounts leaves room for the sign-ins):

- Inductive invariant, by groups of variables: the rows, the dialog with its
  requests, the sign-in, the folders. Frame lemmas say which actions touch a group,
  and one or two lemmas show for each group that they keep its part.
- `OwnSettings` needs that the dialog shows, and a request carries, settings of the
  account it names only (`FormsOwn`), and that a row found by the key of one of the
  first accounts is that account or one that succeeds it: keys are handed out in
  order of creation and the largest plus one is never above the number of accounts
  made (`KeysInOrder`, `NextIdIsNew`).
- `SignInUsedOnce` needs to know who has a sign-in. The server knows it, and then its
  metadata is what it was started for and nobody uses it (`FlowsOwned`); or one try
  has taken it, never both (`TriesOwned`); or an account uses it. The dialog is
  told of a success only by a try of its own flow that has made an account use it
  (`LinkOwned`), which is what could go wrong with tries that overlap.
- `ChoicesKept` needs to know what a choice under way was made from: unless it was
  hasty, from the folders as the server has them, but for those whose fate nobody
  knows (`ListKnown`, `Unsettled`). A list on its way was read after the last choice that
  succeeded, because that one threw away whatever was on its way before it.
- Theorems `TypeCorrect`, `SettingsAreOwn`, `SignInsUsedOnce`, `ChoicesAreKept`.

Only model-checked: liveness (`RequestsServed`, `Converges`, `SettlesOnDesired`,
`NewsServed`, `ActivityConverges`, `ListConverges`, `AnnouncedOrRead`,
`DeletesCarriedOut`, `SignInTold`), which depends on fairness and so on ENABLED, outside
the prover's reach. The models contain no recursive definition, so nothing is left
to induction over data. The inductive invariants were checked by TLC on the instances
of the runs, some of them on larger ones, before they were proved.

## 5. Not modelled

- Message contents, wording, dates and the parser: no property depends on them.
  `\Flagged` is handled exactly like `\Seen`; of `\Answered` only the column that
  reply writes is kept.
- Folders other than the inbox and Trash in `MessageActions`, and attachments: a
  handler works in the folder of its message, and folders share no message.
- Wall-clock time: timeouts and intervals may run out at any moment.
- The database's own failures beyond a pass or a commit that fails; row ids of
  folders that come back after deletion. Those of accounts (`AccountSettings`) and of
  messages (`MessageActions`, `OutgoingMail`) are modelled; `FolderSync` names a row by its
  message, so a handler there drops and marks the row of the message it is about.
- A folder choice that is still being handled when its connection breaks and the next
  choice arrives: `ServerChooses` is over before the page hears of a failure.
- The token cache that passes, watchers, handlers and the refresh write over each
  other; presence leases; folder discovery; start and stop of the scheduler.
- In the browser: the activities a request shows of its own until the server's
  appear (`api/client.ts`), changes of which folders are inboxes while a tab is open,
  paging, filters, search, theme, installation, the login page. They render state or
  hold one value.
- `scripts/verify-live-sync.cjs`: a test script.
- Authentication, encryption, settings, migrations, schemas, rendering: sequential
  or declarative.

## 6. Plan

Done, in this order, the most important behaviour first: the request queue and the
passes (everything else relies on them), the folder sync (what the cache is
worth), the watchers (how news gets in), the handlers of messages, outgoing mail,
then the browser: live events, delete with Undo, and the settings page with the
sign-in. Next:

1. Proofs: the safety of all eight detailed modules is proved. What is left is to
   compose it: an abstract specification of what a folder's watcher promises, and one of
   the delete that is done or undone, with the detailed modules shown to implement
   them; and the safety parts of the liveness properties, as `Accounted` is for
   `DeletesCarriedOut`.
2. `FolderDiscovery` and the shutdown of the scheduler, composed with what
   `Watchers` shows of surviving tasks; the token cache and its writers.
