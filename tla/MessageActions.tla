--------------------------- MODULE MessageActions ---------------------------
(***************************************************************************)
(* routes_messages.py: opening, flagging and deleting a message and        *)
(* marking everything read.  Each handler loads its rows, works on the     *)
(* mail server await by await, and then stores what it did.  Handlers take *)
(* no lock: between any two awaits another handler, a sync pass or another *)
(* mail client may act on the same message, and any call can fail, before  *)
(* or after the server carried it out.                                     *)
(*                                                                         *)
(* Each account has one inbox folder and a Trash.  A message is what the   *)
(* mailbox of an account names by a uid in one UIDVALIDITY; handlers       *)
(* address it by the uid alone, and its row by an id that SQLite gives to  *)
(* another row once the newest ones are deleted.  The inside of a sync     *)
(* pass is FolderSync.                                                     *)
(***************************************************************************)
EXTENDS Naturals, FiniteSets

CONSTANTS Accounts,
          Uids,
          Requests,     \* bound: requests the browser makes
          Permits,      \* _sync_semaphore: sync passes at a time
          MaxEpoch,     \* bound: UIDVALIDITY values a mailbox goes through
          MaxId,        \* bound: ids of rows
          MaxChanges    \* bound: steps of other clients, and restarts

ASSUME BoundsAssumption ==
  MaxEpoch \in Nat \ {0} /\ MaxId \in Nat /\ MaxChanges \in Nat

VARIABLES
  epoch,          \* the server: UIDVALIDITY of an account's mailbox,
  inbox,          \*   the messages there,
  marked,         \*   those flagged \Deleted,
  seen,           \*   those flagged \Seen,
  trash,          \*   messages with a copy in Trash,
  rows,           \* the cache: Message rows,
  row_seen,       \*   those with is_seen,
  id,             \*   and the id a message has or had, 0 before it is filed
  snapshot,       \* what a sync pass under way will store for an account
  handler,        \* the request handlers
  arrived,        \* ghost: messages ever delivered
  flagged,        \* ghost: messages that had \Seen at some time
  filed,          \* ghost: messages behind a folder's last_seen_uid
  heirs,          \* ghost: messages filed under an id somebody was still using
  others,         \* ghost: messages another client removed, marked, unmarked
  changes         \* bound: environment steps so far

mailbox == <<epoch, inbox, marked, seen, trash>>
cache == <<rows, row_seen, id>>
filing == <<filed, heirs>>
ghosts == <<arrived, flagged, others>>
vars == <<mailbox, cache, snapshot, handler, ghosts, filing, changes>>

Message == [account : Accounts, epoch : 1 .. MaxEpoch, uid : Uids]
Of(a, S) == {m \in S : m.account = a}

\* The message in the mailbox that the uid of m denotes now.
Named(m) == [m EXCEPT !.epoch = epoch[m.account]]
Hits(S) == {Named(m) : m \in S} \cap inbox

\* The rows that the ids of messages denote now, and whether each has one.
Ids == 1 .. MaxId
Denoted(S) == {n \in rows : \E m \in S : id[m] = id[n]}
HaveRows(S) == \A m \in S : \E n \in rows : id[m] = id[n]

Single == {"open", "read", "unread", "delete"}   \* about one message
Kind == Single \cup {"read_all"}

Handler == [
  pc : {"new", "connecting", "selecting", "fetching", "storing", "copying",
        "marking", "expunging", "logout", "committing", "done"},
  kind : Kind,
  messages : SUBSET Message,    \* the rows loaded and not dealt with yet
  work : SUBSET Message,        \*   and those of the account connected to
  to_update : SUBSET Message,   \* those whose attribute the handler changes
  left : SUBSET Message,        \* uids not stored yet
  selected : 0 .. MaxEpoch,     \* UIDVALIDITY of the folder move_to_trash selected
  dirty : SUBSET Message,       \* rows changed in the session
  failed : BOOLEAN,             \* an exception is on its way
  outcome : {"none", "ok", "error", "lost"}]

Fresh == [pc |-> "new", kind |-> "open", messages |-> {}, work |-> {},
          to_update |-> {}, left |-> {}, selected |-> 0, dirty |-> {},
          failed |-> FALSE, outcome |-> "none"]

Snapshot == [taken : BOOLEAN, new : SUBSET Message, new_seen : SUBSET Message,
             gone : SUBSET Message, unseen : SUBSET Message, newly : SUBSET Message]
NoSnapshot == [taken |-> FALSE, new |-> {}, new_seen |-> {}, gone |-> {},
               unseen |-> {}, newly |-> {}]

Init ==
  /\ epoch = [a \in Accounts |-> 1]
  /\ inbox \in SUBSET [account : Accounts, epoch : {1}, uid : Uids]
  /\ marked = {} /\ trash = {}
  /\ seen \in {{}, inbox}
  /\ rows = inbox /\ row_seen = seen
  /\ id \in [Message -> 0 .. MaxId]
  /\ \A m \in Message : id[m] = 0 <=> m \notin inbox
  /\ \A m, n \in inbox : id[m] = id[n] => m = n
  /\ snapshot = [a \in Accounts |-> NoSnapshot]
  /\ handler = [r \in Requests |-> Fresh]
  /\ arrived = inbox /\ flagged = seen /\ filed = inbox /\ others = {}
  /\ heirs = {}
  /\ changes = 0

Alter(r, change) == handler' = [handler EXCEPT ![r] = change]
Goto(r, where) == handler' = [handler EXCEPT ![r].pc = where]
\* What a delete was about is remembered, for the properties.
Over(h, result) ==
  IF h.kind # "delete" THEN [Fresh EXCEPT !.pc = "done"]
  ELSE [Fresh EXCEPT !.pc = "done", !.kind = "delete", !.outcome = result,
                     !.messages = h.messages]
Finish(r, result) == Alter(r, Over(handler[r], result))
At(r, where) == handler[r].pc = where
Is(r, kinds) == handler[r].kind \in kinds

-----------------------------------------------------------------------------
(* The environment: other mail clients, the provider, the sync, restarts.  *)

Change == changes < MaxChanges /\ changes' = changes + 1

Arrive(m) ==
  /\ Change
  /\ m.epoch = epoch[m.account] /\ m \notin arrived
  /\ inbox' = inbox \cup {m} /\ arrived' = arrived \cup {m}
  /\ UNCHANGED <<epoch, marked, seen, trash, cache, snapshot, handler,
                 flagged, filing, others>>

OtherRemoves(m) ==
  /\ Change
  /\ m \in inbox
  /\ inbox' = inbox \ {m} /\ marked' = marked \ {m} /\ seen' = seen \ {m}
  /\ others' = others \cup {m}
  /\ UNCHANGED <<epoch, trash, cache, snapshot, handler, arrived,
                 flagged, filing>>

OtherMarks(m) ==
  /\ Change
  /\ m \in inbox
  /\ marked' = (marked \ {m}) \cup ({m} \ marked)
  /\ others' = others \cup {m}
  /\ UNCHANGED <<epoch, inbox, seen, trash, cache, snapshot, handler,
                 arrived, flagged, filing>>

OtherExpunges(a) ==
  /\ Change
  /\ Of(a, marked) # {}
  /\ inbox' = inbox \ Of(a, marked) /\ seen' = seen \ Of(a, marked)
  /\ marked' = marked \ Of(a, marked)
  /\ UNCHANGED <<epoch, trash, cache, snapshot, handler, ghosts, filing>>

OtherFlags(m) ==
  /\ Change
  /\ m \in inbox
  /\ seen' = (seen \ {m}) \cup ({m} \ seen)
  /\ flagged' = flagged \cup {m}
  /\ UNCHANGED <<epoch, inbox, marked, trash, cache, snapshot, handler,
                 arrived, filing, others>>

\* The mailbox is recreated: other messages under the same uids.
Recreate(a) ==
  /\ Change
  /\ epoch[a] < MaxEpoch
  /\ epoch' = [epoch EXCEPT ![a] = @ + 1]
  /\ \E new \in SUBSET {[account |-> a, epoch |-> epoch[a] + 1, uid |-> u] : u \in Uids} :
        /\ inbox' = (inbox \ Of(a, inbox)) \cup new
        /\ arrived' = arrived \cup new
  /\ marked' = marked \ Of(a, inbox) /\ seen' = seen \ Of(a, inbox)
  /\ others' = others \cup Of(a, inbox)
  /\ UNCHANGED <<trash, cache, snapshot, handler, flagged, filing>>

\* A sync pass reads mailbox and rows, and stores later where they differ:
\* mail that is new, rows of mail that is gone, rows to be marked unread or
\* read.  Messages behind last_seen_uid are not new, row or no row.
SyncReads(a) ==
  LET present == Of(a, inbox)
      loaded == Of(a, rows)
  IN /\ ~ snapshot[a].taken
     /\ Cardinality({b \in Accounts : snapshot[b].taken}) < Permits
     /\ snapshot' = [snapshot EXCEPT ![a] =
           [taken |-> TRUE,
            new |-> present \ filed, new_seen |-> (present \ filed) \cap seen,
            gone |-> loaded \ present,
            unseen |-> (loaded \cap present \cap row_seen) \ seen,
            newly |-> (loaded \cap seen) \ row_seen]]
     /\ UNCHANGED <<mailbox, cache, handler, ghosts, filing, changes>>

\* Whose ids the requests under way and the passes of other accounts go by.
InUse(a) == {m \in filed :
  \/ \E r \in Requests :
       ~ At(r, "done") /\ m \in handler[r].messages \cup handler[r].dirty
  \/ \E b \in Accounts \ {a} :
       m \in snapshot[b].gone \cup snapshot[b].unseen \cup snapshot[b].newly}

\* New rows.  SQLite takes the id after the largest in the table, which may be
\* in another folder; that of a newest row that was deleted is free again.
Files(a, new) ==
  /\ \E given \in [new -> Ids] :
       /\ \A m, n \in new : given[m] = given[n] => m = n
       /\ \A m \in new, n \in rows : id[n] < given[m]
       /\ id' = [m \in Message |-> IF m \in new THEN given[m] ELSE id[m]]
  /\ filed' = filed \cup new
  /\ heirs' = heirs \cup {m \in new : \E n \in InUse(a) : id[n] = id'[m]}

PassEnds(a) ==
  /\ snapshot' = [snapshot EXCEPT ![a] = NoSnapshot]
  /\ UNCHANGED <<mailbox, handler, ghosts, changes>>

\* New messages are added, the rows of vanished ones go, and the flags of the
\* others are taken over: an UPDATE by id where the loaded row differs.
SyncStores(a) ==
  LET s == snapshot[a]
  IN /\ s.taken
     /\ HaveRows(s.unseen \cup s.newly)
     /\ Files(a, s.new)
     /\ rows' = (rows \ Denoted(s.gone)) \cup s.new
     /\ row_seen' = (((row_seen \ Denoted(s.unseen)) \cup Denoted(s.newly))
                       \ Denoted(s.gone)) \cup s.new_seen
     /\ PassEnds(a)

\* The pass ends early, be it with the StaleDataError of an UPDATE whose row a
\* handler has deleted; new messages may have been stored before.
SyncStops(a) ==
  LET s == snapshot[a]
  IN /\ s.taken
     /\ \/ /\ Files(a, s.new)
           /\ rows' = rows \cup s.new
           /\ row_seen' = row_seen \cup s.new_seen
        \/ UNCHANGED <<cache, filing>>
     /\ PassEnds(a)

Restart ==
  /\ Change
  /\ handler' = [r \in Requests |->
        IF handler[r].pc \in {"new", "done"} THEN handler[r]
        ELSE Over(handler[r], "lost")]
  /\ snapshot' = [a \in Accounts |-> NoSnapshot]
  /\ UNCHANGED <<mailbox, cache, ghosts, filing>>

-----------------------------------------------------------------------------
(* A handler loads its rows and opens a connection.                        *)

\* The rows whose attribute the handler will write, given the rows it read:
\* the session issues no UPDATE for an attribute that keeps its value.
Differing(kind, S) ==
  CASE kind \in {"open", "read", "read_all"} -> S \ row_seen
    [] kind = "unread" -> S \cap row_seen
    [] OTHER -> {}

LocalStep == UNCHANGED <<mailbox, cache, snapshot, ghosts, filing, changes>>
ServerStep == UNCHANGED <<epoch, cache, snapshot, arrived, filing, others,
                          changes>>

Receive(r, kind, m) ==
  /\ At(r, "new")
  /\ m \in filed
  /\ \/ \E n \in Denoted({m}) :
          Alter(r, [Fresh EXCEPT !.kind = kind, !.messages = {n},
                      !.to_update = Differing(kind, {n}), !.pc = "connecting"])
     \/ /\ Denoted({m}) = {}              \* 404
        /\ Alter(r, Over([Fresh EXCEPT !.kind = kind], "error"))
  /\ LocalStep

ReceiveAll(r) ==
  LET unread == Differing("read_all", rows) IN
  /\ At(r, "new")
  /\ Alter(r, [Fresh EXCEPT !.kind = "read_all", !.messages = unread,
                 !.to_update = unread,
                 !.pc = IF unread = {} THEN "committing" ELSE "connecting"])
  /\ LocalStep

\* The loop of mark_all_read goes account by account.
Batches(r) == IF Is(r, {"read_all"})
              THEN {Of(a, handler[r].messages) : a \in Accounts} \ {{}}
              ELSE {handler[r].messages}
Onward(r, work) ==
  LET rest == handler[r].messages \ work
  IN Alter(r, [handler[r] EXCEPT !.messages = rest, !.work = {}, !.left = {},
                 !.pc = IF rest = {} THEN "committing" ELSE "connecting"])

Opened(h) == CASE h.kind = "open" -> "selecting"
               [] h.kind = "delete" -> "copying"
               [] OTHER -> "storing"

\* open_imap_connection.
Connects(r) ==
  /\ At(r, "connecting")
  /\ \E work \in Batches(r) :
       Alter(r, [handler[r] EXCEPT !.work = work, !.left = work,
                                   !.pc = Opened(handler[r])])
  /\ LocalStep

\* A refreshed token is committed before it is used, and with it the rows that
\* mark_all_read has changed so far.  When one of them is gone the commit
\* raises, and so does the except clause, which reads an expired attribute.
PersistsToken(r) ==
  LET h == handler[r] IN
  /\ At(r, "connecting")
  /\ h.dirty # {}
  /\ IF HaveRows(h.dirty)
     THEN /\ row_seen' = row_seen \cup Denoted(h.dirty)
          /\ Alter(r, [h EXCEPT !.dirty = {}])
     ELSE row_seen' = row_seen /\ Finish(r, "error")
  /\ UNCHANGED <<mailbox, rows, id, snapshot, ghosts, filing, changes>>

ConnectFails(r) ==
  /\ At(r, "connecting")
  /\ IF Is(r, {"read_all"}) THEN \E work \in Batches(r) : Onward(r, work)
     ELSE Finish(r, "error")
  /\ LocalStep

-----------------------------------------------------------------------------
(* The server's side of a handler.                                         *)

\* An IMAP command fails: the handler goes on to its finally clause.
\* Faulty variant: a COPY that failed does not stop the move.
BrokenUnlessCopying(h) ==
  IF h.pc = "copying"
  THEN [h EXCEPT !.pc = "marking",
                 !.selected = epoch[(CHOOSE m \in h.work : TRUE).account]]
  ELSE [h EXCEPT !.pc = "logout", !.failed = h.kind # "read_all"]
\* Faulty variant: mark_all_read marks the rows before it stores the flags.
BrokenButRead(h) ==
  [h EXCEPT !.pc = "logout", !.failed = h.kind # "read_all",
            !.dirty = IF h.kind = "read_all" THEN @ \cup h.work ELSE @]
Broken(h) == [h EXCEPT !.pc = "logout", !.failed = h.kind # "read_all"]
Step(r, ok, next) ==
  Alter(r, IF ok THEN next ELSE Broken(handler[r]))

CommandFails(r) ==
  /\ handler[r].pc \in {"selecting", "fetching", "storing", "copying",
                        "marking", "expunging"}
  /\ Alter(r, Broken(handler[r]))
  /\ LocalStep

\* _fetch_raw: the mailbox must still be the one the row is from,
SelectForOpen(r) ==
  /\ At(r, "selecting")
  /\ Step(r, \A m \in handler[r].work : Named(m) = m,
          [handler[r] EXCEPT !.pc = "fetching"])
  /\ LocalStep

\* and the uid must be there; BODY[] flags the message \Seen.
FetchBody(r) ==
  LET hits == Hits(handler[r].work) IN
  /\ At(r, "fetching")
  /\ seen' = seen \cup hits /\ flagged' = flagged \cup hits
  /\ \E ok \in BOOLEAN :
       Step(r, ok /\ hits # {},
            [handler[r] EXCEPT !.pc = "logout", !.dirty = handler[r].to_update])
  /\ UNCHANGED <<inbox, marked, trash>> /\ ServerStep

\* STORE of \Seen, in mark_all_read for any number of uids at a time.  The
\* rows change in the session once all uids of the folder are stored.
StoreSeen(r) ==
  \E part \in SUBSET handler[r].left, ok \in BOOLEAN :
    LET hits == Hits(part)
        left == handler[r].left \ part IN
    /\ At(r, "storing")
    /\ part # {}
    /\ IF Is(r, {"unread"})
       THEN seen' = seen \ hits /\ flagged' = flagged
       ELSE seen' = seen \cup hits /\ flagged' = flagged \cup hits
    /\ Step(r, ok,
         IF left # {} THEN [handler[r] EXCEPT !.left = left]
         ELSE [handler[r] EXCEPT !.pc = "logout", !.left = {},
                 !.dirty = @ \cup (handler[r].to_update \cap handler[r].work)])
    /\ UNCHANGED <<inbox, marked, trash>> /\ ServerStep

\* move_to_trash is COPY, STORE \Deleted and EXPUNGE.  It selects the folder
\* once: when the mailbox is recreated afterwards the commands fail.
CopyToTrash(r) ==
  /\ At(r, "copying")
  /\ trash' = trash \cup Hits(handler[r].work)
  /\ \E ok \in BOOLEAN, m \in handler[r].work :
       Step(r, ok, [handler[r] EXCEPT !.pc = "marking",
                                      !.selected = epoch[m.account]])
  /\ UNCHANGED <<inbox, marked, seen, flagged>> /\ ServerStep

SameMailbox(r) == \A m \in handler[r].work : epoch[m.account] = handler[r].selected

\* Faulty variant: nobody expunges.
AfterMarkNothing == "logout"
AfterMark == "expunging"

MarkDeleted(r) ==
  /\ At(r, "marking")
  /\ SameMailbox(r)
  /\ marked' = marked \cup Hits(handler[r].work)
  /\ \E ok \in BOOLEAN : Step(r, ok, [handler[r] EXCEPT !.pc = AfterMark])
  /\ UNCHANGED <<inbox, seen, trash, flagged>> /\ ServerStep

\* EXPUNGE without uids: all of the folder's messages that are \Deleted.
ExpungeFolder(r) ==
  LET gone == UNION {Of(m.account, marked) : m \in handler[r].work} IN
  /\ At(r, "expunging")
  /\ SameMailbox(r)
  /\ inbox' = inbox \ gone /\ marked' = marked \ gone /\ seen' = seen \ gone
  /\ \E ok \in BOOLEAN : Step(r, ok, [handler[r] EXCEPT !.pc = "logout"])
  /\ UNCHANGED <<trash, flagged>> /\ ServerStep

-----------------------------------------------------------------------------
(* The finally clause, and what the database keeps.                        *)

\* Faulty variant: a return in delete_message's finally clause.
RaisesUnlessDeleting(h, ok) ==
  \/ h.failed /\ h.kind # "delete"
  \/ ~ ok /\ h.kind # "open"
Raises(h, ok) == h.failed \/ (~ ok /\ h.kind # "open")

Logout(r) ==
  /\ At(r, "logout")
  /\ \E ok \in BOOLEAN :
       IF Raises(handler[r], ok) THEN Finish(r, "error")
       ELSE IF Is(r, {"read_all"}) THEN Onward(r, handler[r].work)
       ELSE Goto(r, "committing")
  /\ LocalStep

SeenAfter(h, kept) ==
  CASE h.kind \in {"open", "read", "read_all"} -> row_seen \cup Denoted(h.dirty)
    [] h.kind = "unread" -> row_seen \ Denoted(h.dirty)
    [] OTHER -> row_seen \cap kept

\* delete_message drops the row that has the id.  The UPDATE of a row that is
\* gone raises StaleDataError and nothing of the session is stored.
Commit(r) ==
  LET h == handler[r]
      kept == IF h.kind = "delete" THEN rows \ Denoted(h.messages) ELSE rows
  IN /\ At(r, "committing")
     /\ IF HaveRows(h.dirty)
        THEN /\ Finish(r, "ok")
             /\ rows' = kept
             /\ row_seen' = SeenAfter(h, kept)
             /\ id' = id
        ELSE Finish(r, "error") /\ UNCHANGED cache
     /\ UNCHANGED <<mailbox, snapshot, ghosts, filing, changes>>

-----------------------------------------------------------------------------
Environment ==
  \/ \E m \in Message : \/ Arrive(m)
                        \/ OtherRemoves(m)
                        \/ OtherMarks(m)
                        \/ OtherFlags(m)
  \/ \E a \in Accounts : OtherExpunges(a) \/ Recreate(a)
  \/ Restart

Sync == \E a \in Accounts : SyncReads(a) \/ SyncStores(a) \/ SyncStops(a)

Handle(r) ==
  \/ \E kind \in Single, m \in Message : Receive(r, kind, m)
  \/ ReceiveAll(r)
  \/ Connects(r)
  \/ PersistsToken(r)
  \/ ConnectFails(r)
  \/ CommandFails(r)
  \/ SelectForOpen(r)
  \/ FetchBody(r)
  \/ StoreSeen(r)
  \/ CopyToTrash(r)
  \/ MarkDeleted(r)
  \/ ExpungeFolder(r)
  \/ Logout(r)
  \/ Commit(r)

Next == Environment \/ Sync \/ \E r \in Requests : Handle(r)

Spec == Init /\ [][Next]_vars

-----------------------------------------------------------------------------
TypeOK ==
  /\ epoch \in [Accounts -> 1 .. MaxEpoch]
  /\ arrived \in SUBSET Message
  /\ inbox \in SUBSET arrived
  /\ marked \in SUBSET inbox /\ seen \in SUBSET inbox
  /\ trash \in SUBSET arrived /\ others \in SUBSET arrived
  /\ flagged \in SUBSET arrived /\ filed \in SUBSET arrived
  /\ rows \in SUBSET filed
  /\ row_seen \in SUBSET rows
  /\ id \in [Message -> 0 .. MaxId]
  /\ heirs \in SUBSET filed
  /\ snapshot \in [Accounts -> Snapshot]
  /\ handler \in [Requests -> Handler]
  /\ changes \in 0 .. MaxChanges

Done(r, result) == At(r, "done") /\ handler[r].outcome = result

\* Messages whose uid somebody asked to delete when it was another message's.
Misaddressed ==
  {m \in Message : \E r \in Requests : Is(r, {"delete"}) /\
     \E n \in handler[r].messages : m # n /\ m.account = n.account /\ m.uid = n.uid}

\* Deleting never erases: whatever move_to_trash expunges has a copy in Trash,
\* wherever a handler breaks off and whoever expunges what it has flagged.
NothingErased == arrived \subseteq inbox \cup trash \cup others \cup Misaddressed

\* The cache never hides mail: a message the sync has passed and that is still
\* in the mailbox has its row, since the sync would not fetch it again.  The
\* exception is mail that was filed under an id somebody was still using, and
\* that a delete or a pass then takes for the message that had the id before.
NothingHidden == inbox \cap filed \subseteq rows \cup others \cup heirs

\* A delete reported as done has moved the message: it is in Trash and no longer
\* in the inbox, unless another client had its hands on it.
DeleteHonoured ==
  \A r \in Requests : Done(r, "ok") /\ Is(r, {"delete"}) =>
    handler[r].messages \subseteq (trash \ inbox) \cup others \cup Misaddressed

\* A message in the mailbox is cached as read only if the server has had it
\* \Seen, with the same exception.
ReadOnlyIfFlagged ==
  row_seen \cap inbox \subseteq flagged \cup heirs

\* README: "Deleting a message moves it to the account's Trash": that message
\* and no other.  Violated when the mailbox was recreated since the row was read.
DeletesWhatWasChosen ==
  trash \subseteq UNION {handler[r].messages : r \in {q \in Requests : Is(q, {"delete"})}}

=============================================================================
