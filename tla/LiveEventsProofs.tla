-------------------------- MODULE LiveEventsProofs --------------------------
(***************************************************************************)
(* Proofs about LiveEvents for any messages, any size of the queue and the *)
(* list, and any number of changes, upsets and fetches under way.          *)
(***************************************************************************)
EXTENDS LiveEvents, SequenceTheorems, TLAPS

\* What an event says of the activities, v being their version at the server.
Informs(event) == event.kind \in {"activity", "snapshot"}
Current(event, v) == event = Snapshot \/ event.version = v

\* A sequence of events without any for the activities, and one whose last one
\* for them is current, or is read when it is sent.
Silent(s) == \A k \in 1 .. Len(s) : ~ Informs(s[k])
EndsCurrent(s, v) ==
  \E k \in 1 .. Len(s) :
    /\ Informs(s[k]) /\ Current(s[k], v)
    /\ \A j \in k + 1 .. Len(s) : ~ Informs(s[j])

\* The stream still has to bring the server's version, or has brought it last.
StreamComplete ==
  streaming = "running" =>
    \/ EndsCurrent(queue, act)
    \/ /\ Silent(queue)
       /\ EndsCurrent(wire, act) \/ (Silent(wire) /\ heard = act)

\* No event is of a version to come.
Known(s, v) == \A k \in 1 .. Len(s) : Informs(s[k]) => s[k] = Snapshot \/ s[k].version <= v

\* Nothing in the tab is either, and a snapshot that still counts was not read
\* before the events the stream has brought.
VersionsKnown ==
  /\ Known(queue, act) /\ Known(wire, act)
  /\ heard # Cleared => heard <= act
  /\ shown # Cleared => shown <= act
  /\ \A i \in DOMAIN refreshes : refreshes[i] # NotRead =>
       /\ refreshes[i] <= act
       /\ heard # Cleared => refreshes[i] >= heard

\* Mail of the baseline is in every list since, unless it was read or did not
\* fit.
ListKept ==
  /\ baseline \subseteq unread \cup lapsed
  /\ IF seenIds = Nothing THEN notified = {}
     ELSE baseline \subseteq seenIds \cup lapsed
  /\ fetch = "answered" => baseline \subseteq answer \cup lapsed

\* The inductive invariant.
IInv == TypeOK /\ NoOlderSnapshot /\ VersionsKnown /\ StreamComplete /\ NoWall /\ ListKept

USE LiveEventsAssumption
USE DEF server, stream, store, list, watcher, tab, Versions, Cleared, NotRead,
        Nothing, connected

-----------------------------------------------------------------------------
(* Sequences.                                                              *)

\* What Append returns.
LEMMA Appended ==
  ASSUME NEW S, NEW s \in Seq(S), NEW e \in S
  PROVE  /\ Append(s, e) \in Seq(S) /\ Len(Append(s, e)) = Len(s) + 1
         /\ Append(s, e)[Len(s) + 1] = e
         /\ \A k \in 1 .. Len(s) : Append(s, e)[k] = s[k]
OBVIOUS

\* A sequence of one element.
LEMMA Single ==
  ASSUME NEW S, NEW e \in S
  PROVE  <<e>> \in Seq(S) /\ Len(<<e>>) = 1 /\ <<e>>[1] = e /\ <<e>> # <<>>
OBVIOUS

\* What Head and Tail return.
LEMMA HeadAndTail ==
  ASSUME NEW S, NEW s \in Seq(S), s # <<>>
  PROVE  /\ Head(s) \in S /\ Head(s) = s[1] /\ Len(s) \in Nat /\ Len(s) > 0
         /\ Tail(s) \in Seq(S) /\ Len(Tail(s)) = Len(s) - 1
         /\ \A k \in 1 .. Len(s) - 1 : Tail(s)[k] = s[k + 1]
OBVIOUS

\* What RemoveAt returns.
LEMMA Removed ==
  ASSUME NEW S, NEW s \in Seq(S), NEW i \in 1 .. Len(s)
  PROVE  /\ RemoveAt(s, i) \in Seq(S) /\ Len(RemoveAt(s, i)) = Len(s) - 1
         /\ \A k \in 1 .. Len(s) - 1 : \E j \in 1 .. Len(s) : RemoveAt(s, i)[k] = s[j]
<1> DEFINE a == SubSeq(s, 1, i - 1)
           b == SubSeq(s, i + 1, Len(s))
<1>1. /\ a \in Seq(S) /\ Len(a) = i - 1
      /\ \A k \in 1 .. i - 1 : a[k] = s[k]
  OBVIOUS
<1>2. /\ b \in Seq(S) /\ Len(b) = Len(s) - i
      /\ \A k \in 1 .. Len(s) - i : b[k] = s[k + i]
  OBVIOUS
<1> HIDE DEF a, b
<1>3. /\ a \o b \in Seq(S) /\ Len(a \o b) = Len(s) - 1
      /\ \A k \in 1 .. Len(s) - 1 : (a \o b)[k] = IF k < i THEN a[k] ELSE b[k - (i - 1)]
  BY <1>1, <1>2
<1>4. RemoveAt(s, i) = a \o b
  BY DEF RemoveAt, a, b
<1>5. ASSUME NEW k \in 1 .. Len(s) - 1
      PROVE  \E j \in 1 .. Len(s) : RemoveAt(s, i)[k] = s[j]
  <2>1. CASE k < i
    BY <1>1, <1>3, <1>4, <2>1
  <2>2. CASE ~ k < i
    <3>1. k - (i - 1) \in 1 .. Len(s) - i /\ k + 1 \in 1 .. Len(s)
      BY <2>2
    <3>2. RemoveAt(s, i)[k] = s[k + 1]
      BY <1>2, <1>3, <1>4, <2>2, <3>1
    <3> QED BY <3>1, <3>2
  <2> QED BY <2>1, <2>2
<1> QED BY <1>3, <1>4, <1>5

\* An event that says nothing of the activities changes nothing about the end.
LEMMA AppendSilent ==
  ASSUME NEW s \in Seq(Events), NEW e \in Events, ~ Informs(e), NEW v
  PROVE  /\ EndsCurrent(s, v) => EndsCurrent(Append(s, e), v)
         /\ Silent(s) => Silent(Append(s, e))
         /\ Known(s, v) => Known(Append(s, e), v)
BY Appended DEF EndsCurrent, Silent, Known

\* A current event makes the end current.
LEMMA AppendCurrent ==
  ASSUME NEW s \in Seq(Events), NEW e \in Events, NEW v, Informs(e), Current(e, v)
  PROVE  EndsCurrent(Append(s, e), v)
BY Appended DEF EndsCurrent

\* The end is in the tail, or the head is the last event for the activities.
LEMMA TailCurrent ==
  ASSUME NEW s \in Seq(Events), s # <<>>, NEW v
  PROVE  /\ EndsCurrent(s, v) =>
              \/ EndsCurrent(Tail(s), v)
              \/ Silent(Tail(s)) /\ Informs(Head(s)) /\ Current(Head(s), v)
         /\ Silent(s) => Silent(Tail(s)) /\ ~ Informs(Head(s))
         /\ Known(s, v) =>
              /\ Known(Tail(s), v)
              /\ Informs(Head(s)) => Head(s) = Snapshot \/ Head(s).version <= v
<1>1. EndsCurrent(s, v) =>
        \/ EndsCurrent(Tail(s), v)
        \/ Silent(Tail(s)) /\ Informs(Head(s)) /\ Current(Head(s), v)
  <2> SUFFICES ASSUME NEW k \in 1 .. Len(s), Informs(s[k]), Current(s[k], v),
                      \A j \in k + 1 .. Len(s) : ~ Informs(s[j])
               PROVE  \/ EndsCurrent(Tail(s), v)
                      \/ Silent(Tail(s)) /\ Informs(Head(s)) /\ Current(Head(s), v)
    BY DEF EndsCurrent
  <2>1. CASE k = 1
    BY <2>1, HeadAndTail DEF Silent
  <2>2. CASE k # 1
    <3>1. k - 1 \in 1 .. Len(Tail(s)) /\ Tail(s)[k - 1] = s[k]
      BY <2>2, HeadAndTail
    <3>2. \A j \in k .. Len(Tail(s)) : ~ Informs(Tail(s)[j])
      <4>1. \A j \in k .. Len(Tail(s)) :
              Tail(s)[j] = s[j + 1] /\ j + 1 \in k + 1 .. Len(s)
        BY HeadAndTail
      <4> QED BY <4>1
    <3>3. (k - 1) + 1 = k
      OBVIOUS
    <3> QED BY <3>1, <3>2, <3>3, Zenon DEF EndsCurrent
  <2> QED BY <2>1, <2>2
<1>2. Silent(s) => Silent(Tail(s)) /\ ~ Informs(Head(s))
  BY HeadAndTail DEF Silent
<1>3. Known(s, v) =>
        /\ Known(Tail(s), v)
        /\ Informs(Head(s)) => Head(s) = Snapshot \/ Head(s).version <= v
  BY HeadAndTail DEF Known
<1> QED BY <1>1, <1>2, <1>3

\* The same of a single event, and of none.
LEMMA SingleCurrent ==
  ASSUME NEW e \in Events, NEW v
  PROVE  /\ EndsCurrent(<<e>>, v) <=> Informs(e) /\ Current(e, v)
         /\ Silent(<<e>>) <=> ~ Informs(e)
         /\ Known(<<e>>, v) <=> (Informs(e) => e = Snapshot \/ e.version <= v)
         /\ Silent(<<>>) /\ Known(<<>>, v) /\ ~ EndsCurrent(<<>>, v)
BY Single DEF EndsCurrent, Silent, Known

\* What is known stays known.
LEMMA KnownLonger ==
  ASSUME NEW s \in Seq(Events), NEW v \in Nat, NEW w \in Nat, v <= w, Known(s, v)
  PROVE  Known(s, w)
<1> SUFFICES ASSUME NEW k \in 1 .. Len(s), Informs(s[k]), s[k] # Snapshot
             PROVE  s[k].version <= w
  BY DEF Known
<1>1. s[k].version <= v
  BY DEF Known
<1>2. s[k] \in Events
  OBVIOUS
<1>3. s[k].version \in Nat
  BY <1>2 DEF Events
<1> QED BY <1>1, <1>3

\* What is on its way is one event at most.
LEMMA OneOnWire ==
  ASSUME TypeOK
  PROVE  wire = <<>> \/ \E e \in Events : wire = <<e>>
<1>1. wire \in Seq(Events) /\ Len(wire) \in {0, 1}
  <2>1. wire \in Seq(Events) /\ Len(wire) <= 1
    BY DEF TypeOK
  <2>2. Len(wire) \in Nat
    BY <2>1, LenProperties
  <2>3. \A n \in Nat : n <= 1 => n \in {0, 1}
    OBVIOUS
  <2> QED BY <2>1, <2>2, <2>3
<1>2. CASE Len(wire) = 0
  BY <1>1, <1>2
<1>3. CASE Len(wire) = 1
  <2>1. wire[1] \in Events
    BY <1>1, <1>3
  <2>2. wire = <<wire[1]>>
    BY <1>1, <1>3
  <2> QED BY <2>1, <2>2
<1> QED BY <1>1, <1>2, <1>3

-----------------------------------------------------------------------------
\* The page is loaded: no stream, and a snapshot asked for.
LEMMA InitInvariant == Init => IInv
<1> SUFFICES ASSUME Init PROVE IInv
  OBVIOUS
<1> USE DEF Init
<1>1. refreshes \in Seq(Versions \cup {NotRead}) /\ Len(refreshes) = 1 /\ refreshes[1] = NotRead
  OBVIOUS
<1>2. TypeOK
  <2>1. queue \in Seq(Events) /\ Len(queue) = 0 /\ wire = queue
    OBVIOUS
  <2>2. act \in Versions /\ changes \in 0 .. MaxChanges /\ upsets \in 0 .. MaxUpsets
    OBVIOUS
  <2>3. /\ unread \subseteq Messages /\ data = Nothing /\ seenIds = data
        /\ answer \subseteq Messages /\ notified \subseteq Messages
        /\ baseline \subseteq Messages /\ lapsed \subseteq Messages
    OBVIOUS
  <2>4. {missed, marking} \subseteq BOOLEAN /\ visible \in BOOLEAN
    OBVIOUS
  <2>5. shown = Cleared /\ heard = Cleared /\ streaming = "none"
        /\ conn = "connecting" /\ fetch = "asked"
    OBVIOUS
  <2> HIDE DEF Init
  <2> QED BY <1>1, <2>1, <2>2, <2>3, <2>4, <2>5 DEF TypeOK
<1>3. VersionsKnown
  BY <1>1 DEF VersionsKnown, Known
<1>4. StreamComplete /\ NoOlderSnapshot
  BY DEF StreamComplete, NoOlderSnapshot
<1>5. NoWall /\ ListKept
  BY DEF NoWall, ListKept
<1> QED BY <1>2, <1>3, <1>4, <1>5 DEF IInv

-----------------------------------------------------------------------------
(* Steps of one part leave the invariant of the others alone.              *)

\* Nothing of the list, its notifications or what is unread changes.
LEMMA ListAside ==
  ASSUME ListKept, NoWall, UNCHANGED <<unread, lapsed, list, watcher>>
  PROVE  ListKept' /\ NoWall'
BY DEF ListKept, NoWall

\* Nothing of the activities changes.
LEMMA ActivitiesAside ==
  ASSUME VersionsKnown, StreamComplete, NoOlderSnapshot,
         UNCHANGED <<act, changes, stream, store>>
  PROVE  VersionsKnown' /\ StreamComplete' /\ NoOlderSnapshot'
BY DEF VersionsKnown, StreamComplete, NoOlderSnapshot

\* Nothing of the stream or what it has brought changes; snapshots may come and
\* go, as long as they are of no version to come and no older than the stream.
LEMMA StreamAside ==
  ASSUME VersionsKnown, StreamComplete, UNCHANGED <<act, changes, stream, heard>>,
         shown' # Cleared => shown' <= act,
         \A i \in DOMAIN refreshes' : refreshes'[i] # NotRead =>
           /\ refreshes'[i] <= act
           /\ heard # Cleared => refreshes'[i] >= heard
  PROVE  VersionsKnown' /\ StreamComplete'
BY DEF VersionsKnown, StreamComplete

\* Invalidating the list has it asked for again, or notes that the first load
\* missed something.
LEMMA InvalidateKeeps ==
  ASSUME TypeOK, ListKept, NoWall, Invalidate, UNCHANGED <<unread, lapsed, watcher>>
  PROVE  /\ data' = data /\ fetch' \in {"none", "asked", "answered"}
         /\ answer' = answer /\ missed' \in BOOLEAN
         /\ ListKept' /\ NoWall'
<1>1. /\ data' = data /\ answer' = answer /\ missed' \in BOOLEAN
      /\ fetch' = fetch \/ fetch' = "asked"
  BY DEF Invalidate, TypeOK
<1>2. fetch' \in {"none", "asked", "answered"}
  BY <1>1 DEF TypeOK
<1>3. ListKept' /\ NoWall'
  BY <1>1 DEF ListKept, NoWall
<1> QED BY <1>1, <1>2, <1>3

\* An event is published by appending it, or by one snapshot in place of all.
LEMMA Publishing ==
  ASSUME TypeOK, NEW e \in Events, Publish(e)
  PROVE  /\ queue' \in Seq(Events) /\ Len(queue') <= QueueSize
         /\ \/ streaming # "running" /\ queue' = queue
            \/ queue' = <<Snapshot>>
            \/ queue' = Append(queue, e)
<1>1. CASE streaming # "running"
  BY <1>1 DEF Publish, TypeOK
<1>2. CASE streaming = "running" /\ Len(queue) = QueueSize
  <2>1. queue' = <<Snapshot>> /\ Snapshot \in Events
    BY <1>2 DEF Publish, Published, Snapshot, Event, Events
  <2> QED BY <2>1, Single
<1>3. CASE streaming = "running" /\ Len(queue) # QueueSize
  <2>1. queue' = Append(queue, e) /\ Len(queue) + 1 <= QueueSize
    BY <1>3 DEF Publish, Published, TypeOK
  <2> QED BY <2>1, Appended DEF TypeOK
<1> QED BY <1>1, <1>2, <1>3

\* The snapshot that replaces a full queue, or begins a stream, is current.
LEMMA SnapshotCurrent ==
  ASSUME NEW v
  PROVE  /\ Snapshot \in Events /\ Informs(Snapshot)
         /\ EndsCurrent(<<Snapshot>>, v) /\ Known(<<Snapshot>>, v)
<1>1. Snapshot \in Events /\ Informs(Snapshot) /\ Current(Snapshot, v)
  BY DEF Snapshot, Event, Events, Informs, Current
<1> QED BY <1>1, SingleCurrent

-----------------------------------------------------------------------------
(* The server.                                                             *)

\* A change of the activities is on its way to whoever listens.
LEMMA WorkChangesInvariant == ASSUME IInv, WorkChanges PROVE IInv'
<1> USE DEF IInv, WorkChanges
<1> DEFINE e == Event("activity", act')
<1>1. act \in Nat /\ act' = act + 1 /\ act' \in Versions
  BY DEF TypeOK
<1>2. e \in Events /\ Informs(e) /\ Current(e, act')
  BY <1>1 DEF Event, Events, Informs, Current
<1>3. e.version <= act' /\ Publish(e)
  BY <1>1 DEF Event
<1> HIDE DEF e
<1>4. /\ queue' \in Seq(Events) /\ Len(queue') <= QueueSize
      /\ \/ streaming # "running" /\ queue' = queue
         \/ queue' = <<Snapshot>>
         \/ queue' = Append(queue, e)
  BY <1>2, <1>3, Publishing
<1>5. TypeOK'
  BY <1>1, <1>4 DEF TypeOK
<1>6. queue \in Seq(Events) /\ wire \in Seq(Events) /\ Known(queue, act') /\ Known(wire, act')
  BY <1>1, KnownLonger DEF TypeOK, VersionsKnown
<1>7. Known(queue', act')
  <2>1. CASE queue' = Append(queue, e)
    BY <2>1, <1>2, <1>3, <1>6, Appended DEF Known
  <2> QED BY <2>1, <1>4, <1>6, SnapshotCurrent
<1>8. VersionsKnown'
  <2>1. /\ heard # Cleared => heard <= act'
        /\ shown # Cleared => shown <= act'
        /\ \A i \in DOMAIN refreshes : refreshes[i] # NotRead =>
             /\ refreshes[i] <= act'
             /\ heard # Cleared => refreshes[i] >= heard
    <3>1. /\ heard \in Nat /\ shown \in Nat
          /\ \A i \in DOMAIN refreshes : refreshes[i] \in Nat
      BY DEF TypeOK
    <3>2. \A n \in Nat : n <= act => n <= act'
      BY <1>1
    <3> HIDE DEF WorkChanges
    <3> QED BY <3>1, <3>2 DEF VersionsKnown
  <2> QED BY <1>1, <1>6, <1>7, <2>1 DEF VersionsKnown
<1>9. StreamComplete'
  BY <1>2, <1>4, <1>6, AppendCurrent, SnapshotCurrent DEF StreamComplete
<1>10. NoOlderSnapshot'
  BY DEF NoOlderSnapshot
<1> QED BY <1>5, <1>8, <1>9, <1>10, ListAside

\* What Toggle does to the list: who was unread still is, or has been read.
LEMMA ToggleKeeps ==
  ASSUME TypeOK, ListKept, NoWall, NEW m \in Messages, Toggle(m),
         UNCHANGED <<list, watcher>>
  PROVE  /\ unread' \subseteq Messages /\ lapsed' \subseteq Messages
         /\ changes' \in 0 .. MaxChanges /\ changes' = changes + 1
         /\ ListKept' /\ NoWall'
<1>1. /\ unread' \subseteq Messages /\ lapsed' \subseteq Messages
      /\ changes' \in 0 .. MaxChanges /\ changes' = changes + 1
  BY DEF Toggle, Toggled, TypeOK
<1>2. baseline \cap unread \subseteq unread' \cup lapsed' /\ lapsed \subseteq lapsed'
  BY DEF Toggle, Toggled
<1> QED BY <1>1, <1>2 DEF ListKept, NoWall

\* A batch changes what is unread, and its event says nothing of activities.
LEMMA BatchStoredInvariant ==
  ASSUME IInv, NEW m \in Messages, BatchStored(m)
  PROVE  IInv'
<1> USE DEF IInv, BatchStored
<1> DEFINE e == Event("folder", NotRead)
<1>1. e \in Events /\ ~ Informs(e) /\ Publish(e)
  BY DEF Event, Events, Informs
<1> HIDE DEF e
<1>2. /\ queue' \in Seq(Events) /\ Len(queue') <= QueueSize
      /\ \/ streaming # "running" /\ queue' = queue
         \/ queue' = <<Snapshot>>
         \/ queue' = Append(queue, e)
  BY <1>1, Publishing
<1>3. /\ unread' \subseteq Messages /\ lapsed' \subseteq Messages
      /\ changes' \in 0 .. MaxChanges /\ changes' = changes + 1
      /\ ListKept' /\ NoWall'
  BY ToggleKeeps
<1>4. TypeOK'
  BY <1>2, <1>3 DEF TypeOK
<1>5. /\ queue \in Seq(Events)
      /\ queue' = Append(queue, e) =>
           /\ EndsCurrent(queue, act) => EndsCurrent(queue', act)
           /\ Silent(queue) => Silent(queue')
           /\ Known(queue, act) => Known(queue', act)
  BY <1>1, AppendSilent DEF TypeOK
<1>6. Known(queue', act)
  BY <1>2, <1>5, SnapshotCurrent DEF VersionsKnown
<1>7. VersionsKnown'
  BY <1>6 DEF VersionsKnown
<1>8. StreamComplete'
  BY <1>2, <1>5, SnapshotCurrent DEF StreamComplete
<1>9. NoOlderSnapshot'
  BY DEF NoOlderSnapshot
<1> QED BY <1>3, <1>4, <1>7, <1>8, <1>9

\* The headers of the response bring nothing.
LEMMA StreamAnsweredInvariant == ASSUME IInv, StreamAnswered PROVE IInv'
<1> USE DEF IInv, StreamAnswered
<1>1. TypeOK'
  BY DEF TypeOK
<1>2. VersionsKnown' /\ StreamComplete' /\ NoOlderSnapshot'
  BY DEF VersionsKnown, StreamComplete, NoOlderSnapshot
<1> QED BY <1>1, <1>2, ListAside

\* A subscription begins with a snapshot.
LEMMA SubscribeInvariant == ASSUME IInv, Subscribe PROVE IInv'
<1> USE DEF IInv, Subscribe
<1>1. wire' \in Seq(Events) /\ Len(wire') = 1
  BY Single, SnapshotCurrent
<1>2. TypeOK'
  BY <1>1 DEF TypeOK
<1>3. VersionsKnown'
  BY SnapshotCurrent, SingleCurrent DEF VersionsKnown
<1>4. StreamComplete'
  BY SnapshotCurrent, SingleCurrent DEF StreamComplete
<1>5. NoOlderSnapshot'
  BY DEF NoOlderSnapshot
<1> QED BY <1>2, <1>3, <1>4, <1>5, ListAside

\* A snapshot is of the version there is when it is read.
LEMMA SnapshotReadInvariant == ASSUME IInv, SnapshotRead PROVE IInv'
<1> USE DEF IInv, SnapshotRead
<1> DEFINE e == Event("snapshot", act)
<1>1. e \in Events /\ Informs(e) /\ Current(e, act) /\ e.version <= act /\ act \in Nat
  BY DEF Event, Events, Informs, Current, TypeOK
<1>2. wire' = <<e>>
  OBVIOUS
<1> HIDE DEF e
<1>3. EndsCurrent(wire', act) /\ Known(wire', act) /\ wire' \in Seq(Events) /\ Len(wire') = 1
  BY <1>1, <1>2, Single, SingleCurrent
<1>4. TypeOK'
  BY <1>3 DEF TypeOK
<1>5. VersionsKnown'
  BY <1>3 DEF VersionsKnown
<1>6. StreamComplete'
  BY <1>3, SnapshotCurrent DEF StreamComplete
<1>7. NoOlderSnapshot'
  BY DEF NoOlderSnapshot
<1> QED BY <1>4, <1>5, <1>6, <1>7, ListAside

\* The event that goes out leaves the end of the stream as it is.
LEMMA DequeueInvariant == ASSUME IInv, Dequeue PROVE IInv'
<1> USE DEF IInv, Dequeue
<1> DEFINE e == Head(queue)
<1>1. /\ queue \in Seq(Events) /\ e \in Events /\ queue' \in Seq(Events)
      /\ Len(queue') = Len(queue) - 1 /\ Len(queue) \in Nat
  BY HeadAndTail DEF TypeOK
<1>2. /\ EndsCurrent(queue, act) =>
           EndsCurrent(queue', act) \/ (Silent(queue') /\ Informs(e) /\ Current(e, act))
      /\ Silent(queue) => Silent(queue') /\ ~ Informs(e)
      /\ Known(queue, act) =>
           Known(queue', act) /\ (Informs(e) => e = Snapshot \/ e.version <= act)
  BY <1>1, TailCurrent
<1>3. wire' = <<e>>
  OBVIOUS
<1> HIDE DEF e
<1>4. /\ EndsCurrent(wire', act) <=> Informs(e) /\ Current(e, act)
      /\ Silent(wire') <=> ~ Informs(e)
      /\ Known(wire', act) <=> (Informs(e) => e = Snapshot \/ e.version <= act)
      /\ wire' \in Seq(Events) /\ Len(wire') = 1
  BY <1>1, <1>3, Single, SingleCurrent
<1>5. TypeOK'
  BY <1>1, <1>4 DEF TypeOK
<1>6. VersionsKnown'
  BY <1>2, <1>4 DEF VersionsKnown
<1>7. ~ EndsCurrent(wire, act) /\ Silent(wire)
  BY DEF EndsCurrent, Silent
<1>8. StreamComplete'
  BY <1>2, <1>4, <1>7 DEF StreamComplete
<1>9. NoOlderSnapshot'
  BY DEF NoOlderSnapshot
<1> QED BY <1>5, <1>6, <1>8, <1>9, ListAside

-----------------------------------------------------------------------------
(* The activity store.                                                     *)

\* A snapshot is no older than what the stream had brought when it is read.
LEMMA RefreshAnsweredInvariant ==
  ASSUME IInv, NEW i \in 1 .. MaxRefreshes, RefreshAnswered(i)
  PROVE  IInv'
<1> USE DEF IInv, RefreshAnswered
<1>1. /\ refreshes' \in Seq(Versions \cup {NotRead}) /\ Len(refreshes') = Len(refreshes)
      /\ DOMAIN refreshes' = DOMAIN refreshes
      /\ \A j \in DOMAIN refreshes : refreshes'[j] = IF j = i THEN act ELSE refreshes[j]
  BY DEF TypeOK
<1>2. TypeOK'
  BY <1>1 DEF TypeOK
<1>3. \A j \in DOMAIN refreshes' : refreshes'[j] # NotRead =>
        /\ refreshes'[j] <= act
        /\ heard # Cleared => refreshes'[j] >= heard
  BY <1>1 DEF VersionsKnown, TypeOK
<1>4. VersionsKnown' /\ StreamComplete'
  BY <1>3, StreamAside DEF VersionsKnown
<1>5. NoOlderSnapshot'
  BY DEF NoOlderSnapshot
<1> QED BY <1>2, <1>4, <1>5, ListAside

\* A snapshot that still counts is no older than the stream.
LEMMA RefreshArrivesInvariant ==
  ASSUME IInv, NEW i \in 1 .. MaxRefreshes, RefreshArrives(i)
  PROVE  IInv'
<1> USE DEF IInv, RefreshArrives
<1>1. /\ i \in 1 .. Len(refreshes) /\ refreshes \in Seq(Versions \cup {NotRead})
      /\ Len(refreshes) \in Nat /\ i \in DOMAIN refreshes
      /\ refreshes[i] \in Versions
  BY DEF TypeOK
<1>2. /\ refreshes' \in Seq(Versions \cup {NotRead})
      /\ Len(refreshes') = Len(refreshes) - i
      /\ \A j \in 1 .. Len(refreshes) - i : refreshes'[j] = refreshes[j + i]
  BY <1>1
<1>3. TypeOK'
  <2>1. shown' \in Versions \cup {Cleared} /\ Len(refreshes') <= MaxRefreshes
    BY <1>1, <1>2 DEF TypeOK
  <2>2. UNCHANGED <<server, stream, heard, list, watcher, tab, marking, lapsed, upsets>>
    OBVIOUS
  <2> HIDE DEF RefreshArrives
  <2> QED BY <1>2, <2>1, <2>2 DEF TypeOK
<1>4. \A j \in DOMAIN refreshes' : refreshes'[j] # NotRead =>
        /\ refreshes'[j] <= act
        /\ heard # Cleared => refreshes'[j] >= heard
  <2>1. \A j \in DOMAIN refreshes' : \E k \in DOMAIN refreshes : refreshes'[j] = refreshes[k]
    <3>1. /\ DOMAIN refreshes = 1 .. Len(refreshes)
          /\ DOMAIN refreshes' = 1 .. Len(refreshes) - i
      BY <1>1, <1>2, LenProperties
    <3>2. \A j \in 1 .. Len(refreshes) - i : j + i \in 1 .. Len(refreshes)
      BY <1>1
    <3> QED BY <1>2, <3>1, <3>2
  <2> QED BY <2>1 DEF VersionsKnown
<1>5. /\ shown' = refreshes[i] /\ shown' <= act
      /\ heard # Cleared => shown' >= heard
  BY <1>1 DEF VersionsKnown
<1>6. VersionsKnown' /\ StreamComplete'
  BY <1>4, <1>5, StreamAside
<1>7. NoOlderSnapshot'
  BY <1>1, <1>5 DEF NoOlderSnapshot
<1> QED BY <1>3, <1>6, <1>7, ListAside

\* A snapshot that is lost changes nothing that is shown.
LEMMA RefreshFailsInvariant ==
  ASSUME IInv, NEW i \in 1 .. MaxRefreshes, RefreshFails(i)
  PROVE  IInv'
<1> USE DEF IInv, RefreshFails
<1>1. /\ refreshes \in Seq(Versions \cup {NotRead}) /\ Len(refreshes) \in Nat
      /\ i \in 1 .. Len(refreshes)
  BY DEF TypeOK
<1>2. /\ refreshes' \in Seq(Versions \cup {NotRead}) /\ Len(refreshes') = Len(refreshes) - 1
      /\ \A k \in 1 .. Len(refreshes) - 1 :
           \E j \in 1 .. Len(refreshes) : refreshes'[k] = refreshes[j]
  <2> DEFINE S == Versions \cup {NotRead}
  <2>1. refreshes \in Seq(S) /\ i \in 1 .. Len(refreshes)
    BY <1>1
  <2>2. refreshes' = RemoveAt(refreshes, i)
    OBVIOUS
  <2> HIDE DEF S, IInv, RefreshFails
  <2>3. RemoveAt(refreshes, i) \in Seq(S)
    BY <2>1, Removed
  <2>4. Len(RemoveAt(refreshes, i)) = Len(refreshes) - 1
    BY <2>1, Removed
  <2>5. \A k \in 1 .. Len(refreshes) - 1 :
          \E j \in 1 .. Len(refreshes) : RemoveAt(refreshes, i)[k] = refreshes[j]
    BY <2>1, Removed
  <2> QED BY <2>2, <2>3, <2>4, <2>5 DEF S
<1>3. TypeOK'
  BY <1>1, <1>2 DEF TypeOK
<1>4. \A j \in DOMAIN refreshes' : refreshes'[j] # NotRead =>
        /\ refreshes'[j] <= act
        /\ heard # Cleared => refreshes'[j] >= heard
  <2>1. \A j \in DOMAIN refreshes' : \E k \in DOMAIN refreshes : refreshes'[j] = refreshes[k]
    <3>1. /\ DOMAIN refreshes = 1 .. Len(refreshes)
          /\ DOMAIN refreshes' = 1 .. Len(refreshes) - 1
      BY <1>1, <1>2, LenProperties
    <3> QED BY <1>2, <3>1
  <2> QED BY <2>1 DEF VersionsKnown
<1>5. VersionsKnown' /\ StreamComplete'
  BY <1>4, StreamAside DEF VersionsKnown
<1>6. NoOlderSnapshot'
  BY DEF NoOlderSnapshot
<1> QED BY <1>3, <1>5, <1>6, ListAside

\* One more snapshot is asked for; it counts when it has been read.
LEMMA AskedOnce ==
  ASSUME TypeOK, VersionsKnown, NEW r,
         r = <<>> \/ (r = refreshes /\ Len(refreshes) < MaxRefreshes)
  PROVE  /\ Append(r, NotRead) \in Seq(Versions \cup {NotRead})
         /\ Len(Append(r, NotRead)) <= MaxRefreshes
         /\ \A j \in DOMAIN Append(r, NotRead) : Append(r, NotRead)[j] # NotRead =>
              /\ Append(r, NotRead)[j] <= act
              /\ heard # Cleared => Append(r, NotRead)[j] >= heard
<1>1. r \in Seq(Versions \cup {NotRead}) /\ Len(r) + 1 <= MaxRefreshes /\ Len(r) \in Nat
  <2>1. CASE r = <<>>
    BY <2>1
  <2>2. CASE r = refreshes /\ Len(refreshes) < MaxRefreshes
    <3>1. r \in Seq(Versions \cup {NotRead})
      BY <2>2 DEF TypeOK
    <3>2. Len(r) \in Nat
      BY <3>1, LenProperties
    <3> QED BY <2>2, <3>1, <3>2
  <2> QED BY <2>1, <2>2
<1>2. /\ Append(r, NotRead) \in Seq(Versions \cup {NotRead})
      /\ Len(Append(r, NotRead)) = Len(r) + 1
      /\ Append(r, NotRead)[Len(r) + 1] = NotRead
      /\ \A k \in 1 .. Len(r) : Append(r, NotRead)[k] = r[k]
  BY <1>1, Appended
<1>3. DOMAIN Append(r, NotRead) = 1 .. Len(r) + 1
  BY <1>2
<1>4. \A k \in 1 .. Len(r) : r[k] # NotRead =>
        /\ r[k] <= act
        /\ heard # Cleared => r[k] >= heard
  BY DEF VersionsKnown, TypeOK
<1> QED BY <1>1, <1>2, <1>3, <1>4

\* A poll asks for a snapshot.
LEMMA ActivityFallbackInvariant == ASSUME IInv, ActivityFallback PROVE IInv'
<1> USE DEF IInv, ActivityFallback
<1>1. TypeOK'
  BY AskedOnce DEF TypeOK
<1>2. VersionsKnown' /\ StreamComplete'
  BY AskedOnce, StreamAside DEF VersionsKnown
<1>3. NoOlderSnapshot'
  BY DEF NoOlderSnapshot
<1> QED BY <1>1, <1>2, <1>3, ListAside

\* So does a tab that is shown again.
LEMMA ShowInvariant == ASSUME IInv, Show PROVE IInv'
<1> USE DEF IInv, Show
<1>1. TypeOK'
  BY AskedOnce DEF TypeOK
<1>2. VersionsKnown' /\ StreamComplete'
  BY AskedOnce, StreamAside DEF VersionsKnown
<1>3. NoOlderSnapshot'
  BY DEF NoOlderSnapshot
<1> QED BY <1>1, <1>2, <1>3, ListAside

-----------------------------------------------------------------------------
(* The list and LiveUpdates.                                               *)

\* The server answers with the newest unread mail; the rest of the baseline
\* has lapsed.
LEMMA FetchAnsweredInvariant == ASSUME IInv, FetchAnswered PROVE IInv'
<1> USE DEF IInv, FetchAnswered
<1>1. /\ answer' \subseteq unread /\ unread \subseteq Messages
      /\ baseline' = IF data = Nothing THEN unread ELSE baseline
      /\ lapsed' = lapsed \cup ((unread \cap baseline') \ answer')
      /\ data' = data /\ seenIds' = seenIds /\ seenIds = data
      /\ notified' = notified /\ unread' = unread
  BY DEF TypeOK, Newest
<1>2. TypeOK'
  BY <1>1 DEF TypeOK
<1>3. ListKept' /\ NoWall'
  <2> HIDE DEF FetchAnswered
  <2> QED BY <1>1 DEF ListKept, NoWall
<1> QED BY <1>2, <1>3, ActivitiesAside

\* The first list is the baseline; a later one announces what the one before
\* did not have.
LEMMA FetchDoneInvariant == ASSUME IInv, FetchDone PROVE IInv'
<1> USE DEF IInv, FetchDone
<1>1. answer # {0} /\ ToNotify(answer) \subseteq answer /\ answer \subseteq Messages
  BY DEF TypeOK, ToNotify
<1>2. TypeOK'
  BY <1>1 DEF TypeOK
<1>3. ListKept'
  BY <1>1 DEF ListKept, TypeOK
<1>4. NoWall'
  BY DEF NoWall, ListKept, ToNotify
<1> QED BY <1>2, <1>3, <1>4, ActivitiesAside

\* What the user marks changes what is unread.
LEMMA MarkHereInvariant ==
  ASSUME IInv, NEW m \in Messages, MarkHere(m)
  PROVE  IInv'
<1> USE DEF IInv, MarkHere
<1>1. /\ unread' \subseteq Messages /\ lapsed' \subseteq Messages
      /\ changes' \in 0 .. MaxChanges /\ changes' = changes + 1
      /\ ListKept' /\ NoWall'
  BY ToggleKeeps
<1>2. TypeOK'
  BY <1>1 DEF TypeOK
<1>3. VersionsKnown'
  BY DEF VersionsKnown
<1>4. StreamComplete' /\ NoOlderSnapshot'
  BY DEF StreamComplete, NoOlderSnapshot
<1> QED BY <1>1, <1>2, <1>3, <1>4

\* What invalidates the list does no more.
LEMMA InvalidatesInvariant ==
  ASSUME IInv, Marked \/ Opened \/ Fallback
  PROVE  IInv'
<1> USE DEF IInv, Marked, Opened, Fallback
<1>1. /\ data' = data /\ fetch' \in {"none", "asked", "answered"}
      /\ answer' = answer /\ missed' \in BOOLEAN
      /\ ListKept' /\ NoWall'
  BY InvalidateKeeps
<1>2. TypeOK'
  BY <1>1 DEF TypeOK
<1> QED BY <1>1, <1>2, ActivitiesAside

\* An event for the activities shows its version, and voids the snapshots asked
\* for before it.
LEMMA ReceiveInvariant == ASSUME IInv, Receive PROVE IInv'
<1> USE DEF IInv
<1> DEFINE e == Head(wire)
<1>1. e \in Events /\ wire = <<e>> /\ e # Snapshot
  BY OneOnWire DEF Receive
<1>2. /\ wire' = <<>>
      /\ IF Informs(e) THEN receiveActivity(e.version) ELSE UNCHANGED store
      /\ IF Refetches(e) THEN Invalidate ELSE UNCHANGED list
      /\ UNCHANGED <<server, streaming, queue, watcher, tab, marking, lapsed, upsets>>
  BY DEF Receive, Informs
<1> HIDE DEF e
<1>3. /\ data' = data /\ fetch' \in {"none", "asked", "answered"}
      /\ answer' = answer /\ missed' \in BOOLEAN
      /\ ListKept' /\ NoWall'
  <2>1. CASE Refetches(e)
    BY <1>2, <2>1, InvalidateKeeps
  <2>2. CASE ~ Refetches(e)
    BY <1>2, <2>2, ListAside DEF TypeOK
  <2> QED BY <2>1, <2>2
<1>4. /\ EndsCurrent(wire, act) <=> Informs(e) /\ Current(e, act)
      /\ Silent(wire) <=> ~ Informs(e)
      /\ Known(wire, act) <=> (Informs(e) => e = Snapshot \/ e.version <= act)
      /\ Silent(wire') /\ Known(wire', act)
  BY <1>1, <1>2, SingleCurrent
<1>5. CASE Informs(e)
  <2>1. /\ shown' = e.version /\ heard' = e.version /\ refreshes' = <<>>
        /\ e.version \in Versions /\ e.version <= act
    <3>1. e.version <= act
      BY <1>1, <1>4, <1>5 DEF VersionsKnown
    <3>2. e.version \in Versions
      BY <1>1, <3>1 DEF Events, TypeOK
    <3> QED BY <1>2, <1>5, <3>1, <3>2 DEF receiveActivity, StillValid
  <2>2. refreshes' \in Seq(Versions \cup {NotRead}) /\ Len(refreshes') = 0
    BY <2>1
  <2>3. TypeOK'
    <3>1. /\ wire' \in Seq(Events) /\ Len(wire') <= 1
          /\ refreshes' \in Seq(Versions \cup {NotRead}) /\ Len(refreshes') <= MaxRefreshes
          /\ shown' \in Versions \cup {Cleared} /\ heard' \in Versions \cup {Cleared}
      BY <1>2, <2>1, <2>2
    <3>2. TypeOK /\ seenIds' = data'
      BY <1>2, <1>3 DEF TypeOK
    <3> QED BY <1>2, <1>3, <3>1, <3>2 DEF TypeOK
  <2>4. VersionsKnown'
    BY <1>2, <1>4, <2>1, <2>2 DEF VersionsKnown
  <2>5. StreamComplete'
    BY <1>1, <1>2, <1>4, <1>5, <2>1 DEF StreamComplete, Current
  <2>6. NoOlderSnapshot'
    BY <2>1 DEF NoOlderSnapshot
  <2> QED BY <1>3, <2>3, <2>4, <2>5, <2>6
<1>6. CASE ~ Informs(e)
  <2>1. TypeOK'
    BY <1>2, <1>3, <1>6 DEF TypeOK
  <2>2. VersionsKnown' /\ NoOlderSnapshot'
    BY <1>2, <1>4, <1>6 DEF VersionsKnown, NoOlderSnapshot
  <2>3. StreamComplete'
    BY <1>2, <1>4, <1>6 DEF StreamComplete
  <2> QED BY <1>3, <2>1, <2>2, <2>3
<1> QED BY <1>5, <1>6

\* A break forgets what the stream has brought.
LEMMA BreakInvariant == ASSUME IInv, Break PROVE IInv'
<1> USE DEF IInv, Break, StillValid
<1>1. /\ refreshes' \in Seq(Versions \cup {NotRead}) /\ Len(refreshes') <= MaxRefreshes
      /\ \A j \in DOMAIN refreshes' : refreshes'[j] # NotRead =>
           /\ refreshes'[j] <= act
           /\ heard # Cleared => refreshes'[j] >= heard
  <2>1. CASE visible
    BY <2>1, AskedOnce
  <2>2. CASE ~ visible
    BY <2>2
  <2> QED BY <2>1, <2>2
<1>2. TypeOK'
  BY <1>1 DEF TypeOK
<1>3. VersionsKnown'
  BY <1>1, SingleCurrent DEF VersionsKnown, Known
<1>4. StreamComplete' /\ NoOlderSnapshot'
  BY DEF StreamComplete, NoOlderSnapshot
<1> QED BY <1>2, <1>3, <1>4, ListAside

\* The reconnect timer and hiding the tab touch neither.
LEMMA ReconnectHideInvariant ==
  ASSUME IInv, Reconnect \/ Hide
  PROVE  IInv'
<1> USE DEF IInv, Reconnect, Hide
<1>1. TypeOK'
  <2>1. /\ conn' \in {"connecting", "open", "waiting"} /\ visible' \in BOOLEAN
        /\ upsets' \in 0 .. MaxUpsets
    <3>1. CASE Reconnect
      BY <3>1 DEF TypeOK
    <3>2. CASE Hide
      <4>1. conn' = conn /\ visible' = FALSE
        BY <3>2
      <4>2. upsets' \in 0 .. MaxUpsets
        BY <3>2 DEF TypeOK
      <4> QED BY <4>1, <4>2 DEF TypeOK
    <3> QED BY <3>1, <3>2
  <2> QED BY <2>1 DEF TypeOK
<1> QED BY <1>1, ActivitiesAside, ListAside

\* Every step keeps the invariant.
LEMMA NextInvariant == IInv /\ [Next]_vars => IInv'
<1> SUFFICES ASSUME IInv, [Next]_vars PROVE IInv'
  OBVIOUS
<1>1. CASE UNCHANGED vars
  <2>1. TypeOK'
    BY <1>1 DEF IInv, TypeOK, vars
  <2> QED BY <1>1, <2>1, ActivitiesAside, ListAside DEF IInv, vars
<1>2. CASE WorkChanges
  BY <1>2, WorkChangesInvariant
<1>3. ASSUME NEW m \in Messages, BatchStored(m) \/ MarkHere(m) PROVE IInv'
  BY <1>3, BatchStoredInvariant, MarkHereInvariant
<1>4. CASE StreamAnswered \/ Subscribe \/ SnapshotRead \/ Dequeue
  BY <1>4, StreamAnsweredInvariant, SubscribeInvariant, SnapshotReadInvariant,
     DequeueInvariant
<1>5. ASSUME NEW i \in 1 .. MaxRefreshes,
             RefreshAnswered(i) \/ RefreshArrives(i) \/ RefreshFails(i)
      PROVE  IInv'
  BY <1>5, RefreshAnsweredInvariant, RefreshArrivesInvariant, RefreshFailsInvariant
<1>6. CASE FetchAnswered \/ FetchDone \/ Marked \/ Opened \/ Fallback
  BY <1>6, FetchAnsweredInvariant, FetchDoneInvariant, InvalidatesInvariant
<1>7. CASE Receive \/ Break \/ Reconnect \/ ActivityFallback \/ Hide \/ Show
  BY <1>7, ReceiveInvariant, BreakInvariant, ReconnectHideInvariant,
     ActivityFallbackInvariant, ShowInvariant
<1> QED BY <1>1, <1>2, <1>3, <1>4, <1>5, <1>6, <1>7 DEF Next

\* The invariant holds throughout.
LEMMA Invariance == Spec => []IInv
BY InitInvariant, NextInvariant, PTL DEF Spec

\* The tab and the server's part of it are well typed; a queue never holds
\* more than its size (publish).
THEOREM TypeCorrect == Spec => []TypeOK
BY Invariance, PTL DEF IInv

\* A snapshot fetched over HTTP never overwrites a newer event of the stream
\* (refreshActivity, receiveActivity).
THEOREM SnapshotsAreNotOlder == Spec => []NoOlderSnapshot
BY Invariance, PTL DEF IInv

\* When the last event has been taken, the tab shows the server's activities,
\* whatever overflowed (publish, events).
THEOREM StreamLosesNothing == Spec => []NothingLost
<1>1. IInv => NothingLost
  <2> SUFFICES ASSUME IInv, streaming = "running", queue = <<>>, wire = <<>>
               PROVE  shown = act
    BY DEF IInv, TypeOK, NothingLost
  <2>1. heard = act
    BY DEF IInv, StreamComplete, EndsCurrent
  <2>2. heard # Cleared /\ shown \in Nat /\ act \in Nat
    BY <2>1 DEF IInv, TypeOK
  <2> QED BY <2>1, <2>2 DEF IInv, NoOlderSnapshot, VersionsKnown
<1> QED BY <1>1, Invariance, PTL

\* Mail that was unread at the baseline is announced only when it was read in the
\* meantime or did not fit into a list (NewMailWatcher), for any limit of it.
THEOREM NoWallOfNotifications == Spec => []NoWall
BY Invariance, PTL DEF IInv
=============================================================================
