----------------------------- MODULE LiveEvents -----------------------------
(***************************************************************************)
(* How a tab of the browser learns what the server does: the event stream  *)
(* with its bounded queue (live.py, routes_sync.py), LiveUpdates, which    *)
(* reconnects and falls back on polling, the activity store, which takes   *)
(* both streamed and fetched snapshots, and the list of recent unread mail *)
(* from which NewMailWatcher raises notifications.                         *)
(*                                                                         *)
(* The activity registry is its version, counted by its changes.  The      *)
(* messages are those eligible for a notification, in inboxes that stay    *)
(* inboxes, as the tab knows them: by row id, a reused one being the same  *)
(* message.  They are numbered by date_sent.  A request of the tab other   *)
(* than for the activities succeeds.                                       *)
(***************************************************************************)
EXTENDS Naturals, Sequences, FiniteSets, SequencesExt

CONSTANTS Messages,       \* a later date_sent is a larger number
          ListLimit,      \* messages the list holds, 200 in the code
          QueueSize,      \* events a subscriber's queue holds
          MaxChanges,     \* bound: changes of activities and of what is unread
          MaxUpsets,      \* bound: breaks, lost snapshots, hidings of the tab
          MaxRefreshes    \* bound: such fetches under way

ASSUME LiveEventsAssumption ==
  /\ QueueSize \in Nat \ {0} /\ MaxChanges \in Nat
  /\ MaxUpsets \in Nat /\ MaxRefreshes \in Nat \ {0}
  /\ Messages \subseteq Nat \ {0} /\ ListLimit \in Nat \ {0}

VARIABLES
  act,            \* server: version of the activity registry
  unread,         \* server: unread messages
  streaming,      \* server: none, headers (answered), running (subscribed)
  queue,          \* server: the subscriber's queue
  wire,           \* the event on its way to the tab, if any
  conn,           \* LiveUpdates: its EventSource
  visible,        \* the tab is shown
  shown,          \* activityStore: the server's part
  heard,          \* ghost: the last version taken from this stream
  refreshes,      \* refreshActivity: the fetches under way that still count
  data,           \* cache: recent unread mail
  fetch, answer,  \* its fetch, and what the server answered to it
  missed,         \* ghost: an invalidation was lost on the first load
  marking,        \* a change of flags made here waits for its answer
  seenIds, notified,        \* NewMailWatcher
  baseline,       \* ghost: unread when the server answered to the first fetch
  lapsed,         \* ghost: of those, read since or not in an answer for its limit
  changes,        \* ghost: changes of what is unread
  upsets          \* bound

server == <<act, unread, changes>>
stream == <<streaming, queue, wire>>
store == <<shown, heard, refreshes>>
list == <<data, fetch, answer, missed>>
watcher == <<seenIds, notified, baseline>>
tab == <<conn, visible>>
vars == <<server, stream, store, list, watcher, tab, marking, lapsed, upsets>>

Versions == 0 .. MaxChanges
Cleared == MaxChanges + 1         \* receiveActivity([])
NotRead == MaxChanges + 2         \* the snapshot has not been read yet
Nothing == {0}                 \* no data, no baseline
connected == conn = "open"

Event(kind, version) == [kind |-> kind, version |-> version]
Snapshot == Event("snapshot", NotRead)

Init ==
  /\ act = 0 /\ unread \in SUBSET Messages /\ changes = 0
  /\ streaming = "none" /\ queue = <<>> /\ wire = <<>>
  /\ conn = "connecting" /\ visible = TRUE
  /\ shown = Cleared /\ heard = Cleared
  /\ refreshes = <<NotRead>>
  /\ data = Nothing /\ fetch = "asked" /\ answer = {} /\ missed = FALSE
  /\ marking = FALSE
  /\ seenIds = Nothing /\ notified = {} /\ baseline = {}
  /\ lapsed = {}
  /\ upsets = 0

-----------------------------------------------------------------------------
(* The server.                                                             *)

\* Faulty variant: a full queue drops the event.
PublishedDropped(event) == IF Len(queue) = QueueSize THEN queue ELSE Append(queue, event)
Published(event) == IF Len(queue) = QueueSize THEN <<Snapshot>> ELSE Append(queue, event)

Publish(event) ==
  queue' = IF streaming = "running" THEN Published(event) ELSE queue

\* begin, update or finish of an activity.
WorkChanges ==
  /\ act + changes < MaxChanges
  /\ act' = act + 1
  /\ Publish(Event("activity", act'))
  /\ UNCHANGED <<unread, changes, streaming, wire, store, list, watcher, tab,
                 marking, lapsed, upsets>>

Toggled(m) == IF m \in unread THEN unread \ {m} ELSE unread \cup {m}

Toggle(m) ==
  /\ act + changes < MaxChanges
  /\ changes' = changes + 1
  /\ unread' = Toggled(m)
  /\ lapsed' = lapsed \cup ({m} \cap unread \cap baseline)

\* A pass commits a batch, and publishes it as soon as it runs again; whoever
\* reads in between reads the same as before the event arrives.
BatchStored(m) ==
  /\ Toggle(m)
  /\ Publish(Event("folder", NotRead))
  /\ UNCHANGED <<act, streaming, wire, store, list, watcher, tab, marking, upsets>>

\* events: the response starts before its generator does.
StreamAnswered ==
  /\ conn = "connecting" /\ streaming = "none"
  /\ streaming' = "headers"
  /\ UNCHANGED <<server, queue, wire, store, list, watcher, tab, marking, lapsed, upsets>>

Subscribe ==
  /\ streaming = "headers"
  /\ streaming' = "running" /\ queue' = <<>> /\ wire' = <<Snapshot>>
  /\ UNCHANGED <<server, store, list, watcher, tab, marking, lapsed, upsets>>

\* live.snapshot has been awaited, and the activities are read for the event.
SnapshotRead ==
  /\ wire = <<Snapshot>>
  /\ wire' = <<Event("snapshot", act)>>
  /\ UNCHANGED <<server, streaming, queue, store, list, watcher, tab, marking,
                 lapsed, upsets>>

Dequeue ==
  /\ streaming = "running" /\ wire = <<>> /\ queue # <<>>
  /\ wire' = <<Head(queue)>> /\ queue' = Tail(queue)
  /\ UNCHANGED <<server, streaming, store, list, watcher, tab, marking, lapsed, upsets>>

-----------------------------------------------------------------------------
(* The activity store.                                                     *)

\* receiveActivity counts a revision, by which the snapshots asked for before it
\* are ignored when they arrive.
\* Faulty variant: it does not count.
StillValidAll == refreshes
StillValid == <<>>

receiveActivity(version) ==
  /\ shown' = version /\ heard' = version
  /\ refreshes' = StillValid

RefreshAnswered(i) ==
  /\ i \in DOMAIN refreshes /\ refreshes[i] = NotRead
  /\ refreshes' = [refreshes EXCEPT ![i] = act]
  /\ UNCHANGED <<server, stream, shown, heard, list, watcher, tab, marking, lapsed, upsets>>

\* The requests before one that has been applied do not count any more.
RefreshArrives(i) ==
  /\ i \in DOMAIN refreshes /\ refreshes[i] # NotRead
  /\ shown' = refreshes[i]
  /\ refreshes' = SubSeq(refreshes, i + 1, Len(refreshes))
  /\ UNCHANGED <<server, stream, heard, list, watcher, tab, marking, lapsed, upsets>>

\* It times out or is refused.
RefreshFails(i) ==
  /\ i \in DOMAIN refreshes /\ upsets < MaxUpsets
  /\ upsets' = upsets + 1
  /\ refreshes' = RemoveAt(refreshes, i)
  /\ UNCHANGED <<server, stream, shown, heard, list, watcher, tab, marking, lapsed>>

-----------------------------------------------------------------------------
(* The list and its notifications.                                         *)

\* invalidateQueries starts a running fetch again, unless it is the first.
Invalidate ==
  IF data = Nothing
  THEN /\ missed' = (fetch = "answered")
       /\ UNCHANGED <<data, fetch, answer>>
  ELSE /\ fetch' = "asked" /\ missed' = FALSE
       /\ UNCHANGED <<data, answer>>

\* The list is of the unread messages that were sent last.
Newest(s) == {m \in s : Cardinality({n \in s : n > m}) < ListLimit}

FetchAnswered ==
  /\ fetch = "asked"
  /\ fetch' = "answered" /\ answer' = Newest(unread)
  /\ baseline' = IF data = Nothing THEN unread ELSE baseline
  /\ lapsed' = lapsed \cup ((unread \cap baseline') \ answer')
  /\ UNCHANGED <<server, stream, store, data, missed, seenIds, notified, tab,
                 marking, upsets>>

\* Faulty variant: the first list is no baseline.
ToNotifyAll(items) == items \ seenIds
ToNotify(items) == IF seenIds = Nothing THEN {} ELSE items \ seenIds

\* The new data arrives, and NewMailWatcher's effect runs: it forgets what is
\* not in the list any more.
FetchDone ==
  /\ fetch = "answered"
  /\ fetch' = "none" /\ data' = answer
  /\ notified' = notified \cup ToNotify(answer)
  /\ seenIds' = answer
  /\ answer' = {}
  /\ UNCHANGED <<server, stream, store, missed, baseline, tab, marking,
                 lapsed, upsets>>

\* The user marks a message of the list read or unread: update_flags commits,
\* and its answer invalidates the list.
MarkHere(m) ==
  /\ ~ marking
  /\ Toggle(m)
  /\ marking' = TRUE
  /\ UNCHANGED <<act, stream, store, list, watcher, tab, upsets>>

Marked ==
  /\ marking
  /\ marking' = FALSE
  /\ Invalidate
  /\ UNCHANGED <<server, stream, store, watcher, tab, lapsed, upsets>>

-----------------------------------------------------------------------------
(* LiveUpdates.                                                            *)

\* onopen
Opened ==
  /\ conn = "connecting" /\ streaming # "none"
  /\ conn' = "open"
  /\ Invalidate
  /\ UNCHANGED <<server, stream, store, watcher, visible, marking, lapsed, upsets>>

\* Faulty variant: a snapshot is taken for a change of activities only.
RefetchesFolder(event) == event.kind = "folder"
Refetches(event) == event.kind \in {"snapshot", "folder"}

\* onmessage
Receive ==
  /\ connected /\ wire # <<>> /\ wire # <<Snapshot>>
  /\ wire' = <<>>
  /\ LET event == Head(wire) IN
       /\ IF event.kind \in {"activity", "snapshot"}
          THEN receiveActivity(event.version)
          ELSE UNCHANGED store
       /\ IF Refetches(event) THEN Invalidate ELSE UNCHANGED list
  /\ UNCHANGED <<server, streaming, queue, watcher, tab, marking, lapsed, upsets>>

\* onerror: the connection fails or breaks.
Break ==
  /\ conn # "waiting" /\ upsets < MaxUpsets
  /\ upsets' = upsets + 1
  /\ conn' = "waiting"
  /\ streaming' = "none" /\ queue' = <<>> /\ wire' = <<>>
  /\ shown' = Cleared /\ heard' = Cleared
  /\ refreshes' = IF visible THEN Append(StillValid, NotRead) ELSE StillValid
  /\ UNCHANGED <<server, list, watcher, visible, marking, lapsed>>

\* The reconnect timer.
Reconnect ==
  /\ conn = "waiting"
  /\ conn' = "connecting"
  /\ UNCHANGED <<server, stream, store, list, watcher, visible, marking, lapsed, upsets>>

\* A shown tab that is not connected polls the activities.
\* Faulty variant: it polls while the first connection is tried.
PollsWaiting == visible /\ conn = "waiting"
Polls == visible /\ ~ connected

ActivityFallback ==
  /\ Polls
  /\ Len(refreshes) < MaxRefreshes
  /\ refreshes' = Append(refreshes, NotRead)
  /\ UNCHANGED <<server, stream, shown, heard, list, watcher, tab, marking, lapsed, upsets>>

\* Once a minute, by when the last fetch is done.
Fallback ==
  /\ ~ connected /\ fetch = "none"
  /\ Invalidate
  /\ UNCHANGED <<server, stream, store, watcher, tab, marking, lapsed, upsets>>

\* onVisibility
Hide ==
  /\ visible /\ upsets < MaxUpsets
  /\ upsets' = upsets + 1
  /\ visible' = FALSE
  /\ UNCHANGED <<server, stream, store, list, watcher, conn, marking, lapsed>>

Show ==
  /\ ~ visible /\ Len(refreshes) < MaxRefreshes
  /\ visible' = TRUE
  /\ refreshes' = Append(refreshes, NotRead)
  /\ UNCHANGED <<server, stream, shown, heard, list, watcher, conn, marking, lapsed, upsets>>

-----------------------------------------------------------------------------
Next ==
  \/ WorkChanges
  \/ \E m \in Messages : BatchStored(m) \/ MarkHere(m)
  \/ StreamAnswered \/ Subscribe \/ SnapshotRead \/ Dequeue
  \/ \E i \in 1 .. MaxRefreshes : RefreshAnswered(i) \/ RefreshArrives(i) \/ RefreshFails(i)
  \/ FetchAnswered \/ FetchDone \/ Marked
  \/ Opened \/ Receive \/ Break \/ Reconnect
  \/ ActivityFallback \/ Fallback \/ Hide \/ Show

Spec == Init /\ [][Next]_vars

\* What the server's generator, the fetches and the connection of the tab have
\* begun goes on, and timers fire.  The server need not answer the request for
\* the stream.
Fairness ==
  /\ WF_vars(Subscribe \/ SnapshotRead \/ Dequeue)
  /\ WF_vars(RefreshAnswered(1) \/ RefreshArrives(1) \/ ActivityFallback)
  /\ WF_vars(FetchAnswered \/ FetchDone \/ Fallback)
  /\ WF_vars(Marked)
  /\ WF_vars(Reconnect \/ Opened \/ Receive)

FairSpec == Spec /\ Fairness

-----------------------------------------------------------------------------
Events == [kind : {"activity", "folder", "snapshot"}, version : Versions \cup {NotRead}]

TypeOK ==
  /\ act \in Versions /\ unread \subseteq Messages
  /\ streaming \in {"none", "headers", "running"}
  /\ queue \in Seq(Events) /\ Len(queue) <= QueueSize
  /\ wire \in Seq(Events) /\ Len(wire) <= 1
  /\ conn \in {"connecting", "open", "waiting"} /\ visible \in BOOLEAN
  /\ shown \in Versions \cup {Cleared} /\ heard \in Versions \cup {Cleared}
  /\ refreshes \in Seq(Versions \cup {NotRead})
  /\ Len(refreshes) <= MaxRefreshes
  /\ data = Nothing \/ data \subseteq Messages
  /\ fetch \in {"none", "asked", "answered"} /\ answer \subseteq Messages
  /\ seenIds = data
  /\ {missed, marking} \subseteq BOOLEAN
  /\ notified \subseteq Messages /\ baseline \subseteq Messages /\ lapsed \subseteq Messages
  /\ changes \in 0 .. MaxChanges /\ upsets \in 0 .. MaxUpsets

\* "A slow HTTP snapshot must never overwrite a newer event received on the
\* stream": what is shown is never older than what the stream has brought,
\* however the two race.
NoOlderSnapshot == heard # Cleared => shown # Cleared /\ shown >= heard

\* A stream loses nothing that matters, although its queue is bounded and a full
\* one is emptied, and a fetch may arrive in between: once the tab has taken all
\* events there are, it shows the activities the server has.
NothingLost ==
  /\ Len(queue) <= QueueSize
  /\ streaming = "running" /\ queue = <<>> /\ wire = <<>> => shown = act

\* Mail that was unread when the session began is never announced, whatever is
\* lost or fetched again, unless it was read in the meantime, or did not fit into
\* the list for a time: NewMailWatcher compares one list with the one before.
NoWall == notified \cap baseline \subseteq lapsed

\* A shown tab ends up showing the activities of the server: with or without
\* a stream, whatever overflowed, broke or arrived late.
ActivityConverges == <>[](visible => shown = act)

\* The list ends up as the server would answer, unless the first load overlapped
\* with the only announcement of a change.
ListConverges == <>[](data = Newest(unread) \/ missed)

\* Mail that comes to be among the newest unread, and stays there, is announced,
\* also when its event is lost, unless it was unread at the baseline.
AnnouncedOrRead ==
  \A m \in Messages :
    []<>(m \in Newest(unread) => m \in notified \cup baseline \/ missed)
=============================================================================
