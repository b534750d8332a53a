------------------------ MODULE MessageActionsProofs ------------------------
(***************************************************************************)
(* The safety of the message handlers for any number of accounts,          *)
(* messages, requests, UIDVALIDITY values and steps of the environment.    *)
(***************************************************************************)
EXTENDS MessageActions, TLAPS

\* A mailbox holds messages of its present UIDVALIDITY only, no message is of
\* a later one, and whatever is flagged was flagged.
ServerSound ==
  /\ \A m \in inbox : m.epoch = epoch[m.account]
  /\ \A m \in arrived : m.epoch <= epoch[m.account]
  /\ seen \subseteq flagged

\* A message flagged \Deleted may be expunged by anybody.
MarkedSafe == marked \subseteq trash \cup others \cup Misaddressed

\* What a sync pass is going to drop has left the mailbox, and what it takes
\* for \Seen was.
SnapshotSound(a) ==
  /\ snapshot[a].new \subseteq arrived /\ snapshot[a].gone \subseteq arrived
  /\ snapshot[a].gone \cap inbox = {} /\ snapshot[a].gone \cap snapshot[a].newly = {}
  /\ snapshot[a].new_seen \subseteq snapshot[a].new
  /\ snapshot[a].newly \cup snapshot[a].new_seen \subseteq flagged

Reading == {"open", "read", "read_all"}
Succeeds(h) == \/ h.pc = "logout" /\ ~ h.failed
               \/ h.pc = "committing"
               \/ h.pc = "done" /\ h.outcome = "ok"

\* The messages a handler knows have arrived.
Knows(h) == /\ h.messages \subseteq arrived /\ h.work \subseteq arrived
            /\ h.to_update \subseteq arrived /\ h.dirty \subseteq arrived

\* How far a delete has got with its message, as long as it is in the mailbox.
DeleteSound(h) ==
  /\ h.pc \in {"copying", "marking", "expunging"} => h.work = h.messages
  /\ h.pc = "marking" => h.messages \cap inbox \subseteq trash
  /\ h.pc = "expunging" => h.messages \cap inbox \subseteq marked \cup others
  /\ Succeeds(h) => h.messages \cap inbox \subseteq others

\* The rows a handler has changed are of messages that it has flagged.
ReadSound(h) ==
  /\ h.dirty \cap inbox \subseteq flagged
  /\ h.pc = "storing" => (h.work \ h.left) \cap inbox \subseteq flagged

\* Which handler may be where, and which messages it deals with there.
Stage(h) ==
  /\ h.pc \in {"copying", "marking", "expunging"} => h.kind = "delete"
  /\ h.pc \in {"selecting", "fetching"} => h.kind = "open" /\ h.to_update \subseteq h.work
  /\ h.pc = "storing" => h.kind \in {"read", "unread", "read_all"}
  /\ h.pc = "connecting" /\ h.kind # "read_all"
       => h.dirty = {} /\ h.to_update \subseteq h.messages
  /\ h.work \subseteq h.messages

HandlerSound(r) ==
  /\ At(r, "new") => handler[r] = Fresh
  /\ Stage(handler[r])
  /\ Knows(handler[r])
  /\ Is(r, {"delete"}) => DeleteSound(handler[r])
  /\ Is(r, Reading) => ReadSound(handler[r])

\* Whoever goes by the ids of these messages hits their rows, or an heir's.
UsedSound(S) ==
  /\ S \subseteq filed
  /\ \A m \in S, n \in rows : id[m] = id[n] => m = n \/ n \in heirs

\* What a pass of an account has read goes by ids too, and mail that it is
\* going to file has none.
PassUsed(s) == s.gone \cup s.unseen \cup s.newly
Unfiled(a, s) == s.new \cap filed = {} /\ \A m \in s.new : m.account = a

\* The ids of rows are distinct, and so are those in use but for heirs.
HandlerUsed(h) == h.messages \cup h.dirty
IdsSound ==
  /\ \A m, n \in rows : id[m] = id[n] => m = n
  /\ \A r \in Requests : ~ At(r, "done") => UsedSound(HandlerUsed(handler[r]))
  /\ \A a \in Accounts : /\ UsedSound(PassUsed(snapshot[a]))
                         /\ Unfiled(a, snapshot[a])

\* The inductive invariant.
IInv ==
  /\ TypeOK
  /\ ServerSound /\ MarkedSafe /\ IdsSound
  /\ NothingErased /\ NothingHidden /\ ReadOnlyIfFlagged
  /\ \A a \in Accounts : SnapshotSound(a)
  /\ \A r \in Requests : HandlerSound(r)

USE BoundsAssumption
USE DEF mailbox, cache, filing, ghosts

-----------------------------------------------------------------------------
(* What goes on outside a handler leaves it sound.                         *)

\* Mail that has left a mailbox does not return, and a \Deleted flag goes only
\* with the message or by another client's hand.
Evolves ==
  /\ arrived \subseteq arrived' /\ trash \subseteq trash'
  /\ others \subseteq others' /\ flagged \subseteq flagged'
  /\ inbox' \cap arrived \subseteq inbox
  /\ marked \cap inbox' \subseteq marked' \cup others'

\* A handler that does not move stays sound while the server evolves.
LEMMA KeptHandlerSound ==
  ASSUME Evolves, NEW r \in Requests, HandlerSound(r), handler'[r] = handler[r]
  PROVE  HandlerSound(r)'
<1> USE DEF Evolves, HandlerSound
<1>1. Knows(handler[r])'
  BY DEF Knows
<1>2. Is(r, {"delete"})' => DeleteSound(handler[r])'
  <2>1. handler[r].messages \subseteq arrived
    BY DEF Knows
  <2> QED BY <2>1 DEF DeleteSound, Is, Succeeds
<1>3. Is(r, Reading)' => ReadSound(handler[r])'
  <2>1. handler[r].dirty \subseteq arrived /\ handler[r].work \subseteq arrived
    BY DEF Knows
  <2> QED BY <2>1 DEF ReadSound, Is
<1> QED BY <1>1, <1>2, <1>3 DEF At, Is

\* So does what a sync pass has read: mail that is gone does not come back.
LEMMA KeptSnapshotSound ==
  ASSUME Evolves, NEW a \in Accounts, SnapshotSound(a),
         snapshot'[a] = snapshot[a]
  PROVE  SnapshotSound(a)'
BY DEF Evolves, SnapshotSound

\* What a handler goes by after a step it had before, or has just loaded.
MayUse(r, h) ==
  \/ h.pc = "done"
  \/ ~ At(r, "done") /\ HandlerUsed(h) \subseteq HandlerUsed(handler[r]) \cup rows
Uses(r) == MayUse(r, handler'[r])

\* The same of a pass.
PassUses(a) ==
  \/ snapshot'[a] = snapshot[a]
  \/ PassUsed(snapshot'[a]) \subseteq rows /\ Unfiled(a, snapshot'[a])

\* Ids stay sound in a step that files nothing.
LEMMA IdsKept ==
  ASSUME TypeOK, IdsSound, rows' \subseteq rows, UNCHANGED <<id, filing>>,
         \A r \in Requests : handler'[r] = handler[r] \/ Uses(r),
         \A a \in Accounts : PassUses(a)
  PROVE  IdsSound'
<1>1. UsedSound(rows)
  BY DEF IdsSound, UsedSound, TypeOK
<1>2. ASSUME NEW S, NEW T, UsedSound(T), S \subseteq T \cup rows
      PROVE  /\ S \subseteq filed'
             /\ \A m \in S, n \in rows' : id'[m] = id'[n] => m = n \/ n \in heirs'
  BY <1>1, <1>2 DEF UsedSound
<1>3. ASSUME NEW r \in Requests, ~ At(r, "done")'
      PROVE  UsedSound(HandlerUsed(handler[r]))'
  <2>1. /\ UsedSound(HandlerUsed(handler[r]))
        /\ HandlerUsed(handler'[r]) \subseteq HandlerUsed(handler[r]) \cup rows
    BY <1>3 DEF IdsSound, Uses, MayUse, At
  <2>2. /\ HandlerUsed(handler'[r]) \subseteq filed'
        /\ \A m \in HandlerUsed(handler'[r]), n \in rows' :
             id'[m] = id'[n] => m = n \/ n \in heirs'
    BY <1>2, <2>1
  <2> QED BY <2>2 DEF UsedSound, HandlerUsed
<1>4. ASSUME NEW a \in Accounts
      PROVE  UsedSound(PassUsed(snapshot[a]))' /\ Unfiled(a, snapshot[a])'
  <2>1. UsedSound(PassUsed(snapshot[a])) /\ Unfiled(a, snapshot[a])
    BY DEF IdsSound
  <2>2. PassUsed(snapshot'[a]) \subseteq PassUsed(snapshot[a]) \cup rows
    BY DEF PassUses
  <2>3. Unfiled(a, snapshot'[a]) /\ filed' = filed
    BY <2>1 DEF PassUses
  <2>4. Unfiled(a, snapshot[a])'
    BY <2>3 DEF Unfiled
  <2>5. /\ PassUsed(snapshot'[a]) \subseteq filed'
        /\ \A m \in PassUsed(snapshot'[a]), n \in rows' :
             id'[m] = id'[n] => m = n \/ n \in heirs'
    BY <1>2, <2>1, <2>2
  <2>6. UsedSound(PassUsed(snapshot[a]))'
    BY <2>5 DEF UsedSound, PassUsed
  <2> QED BY <2>4, <2>6
<1> QED BY <1>3, <1>4 DEF IdsSound

\* What was asked to be deleted is remembered by the handlers.
LEMMA SameHandlers ==
  ASSUME handler' = handler PROVE Misaddressed' = Misaddressed
BY DEF Misaddressed, Is

\* What is left to show of a step that no handler takes.
LEMMA OutsideStep ==
  ASSUME IInv, TypeOK', Evolves, handler' = handler, snapshot' = snapshot,
         ServerSound', marked' \subseteq marked \cup others',
         arrived' \ arrived \subseteq inbox',
         inbox \ inbox' \subseteq marked \cup others',
         UNCHANGED <<cache, filing>>
  PROVE  IInv'
<1> USE DEF IInv, Evolves
<1>1. Misaddressed' = Misaddressed
  BY SameHandlers
<1>2. MarkedSafe'
  BY <1>1 DEF MarkedSafe
<1>3. NothingErased'
  BY <1>1 DEF MarkedSafe, NothingErased
<1>4. NothingHidden' /\ ReadOnlyIfFlagged'
  <2>1. filed \subseteq arrived /\ row_seen \subseteq arrived
    BY DEF TypeOK
  <2> QED BY <2>1 DEF NothingHidden, ReadOnlyIfFlagged
<1>5. \A a \in Accounts : SnapshotSound(a)'
  BY KeptSnapshotSound
<1>6. \A r \in Requests : HandlerSound(r)'
  BY KeptHandlerSound
<1>7. IdsSound'
  BY IdsKept DEF PassUses
<1> QED BY <1>2, <1>3, <1>4, <1>5, <1>6, <1>7

-----------------------------------------------------------------------------
(* Initially.                                                              *)

\* At first the cache mirrors the mailboxes and nobody has asked for anything.
LEMMA InitInvariant == Init => IInv
<1> SUFFICES ASSUME Init PROVE IInv
  OBVIOUS
<1> USE DEF Init
<1>1. inbox \subseteq Message /\ \A m \in inbox : m.epoch = 1
  BY DEF Message
<1>2. /\ arrived = inbox /\ seen \subseteq inbox /\ flagged = seen
      /\ filed = inbox /\ rows = inbox /\ row_seen = seen
      /\ marked = {} /\ trash = {} /\ others = {} /\ heirs = {}
      /\ id \in [Message -> 0 .. MaxId]
      /\ \A m, n \in inbox : id[m] = id[n] => m = n
  OBVIOUS
<1>3. handler \in [Requests -> Handler]
  <2>1. Fresh \in Handler
    BY DEF Fresh, Handler, Kind, Single
  <2> QED BY <2>1
<1>4. \A a \in Accounts : snapshot[a] = NoSnapshot
  OBVIOUS
<1>5. TypeOK
  <2>1. epoch \in [Accounts -> 1 .. MaxEpoch]
    OBVIOUS
  <2>2. snapshot \in [Accounts -> Snapshot]
    BY DEF Snapshot, NoSnapshot
  <2>3. changes \in 0 .. MaxChanges
    OBVIOUS
  <2> QED BY <1>1, <1>2, <1>3, <2>1, <2>2, <2>3 DEF TypeOK
<1>6. ServerSound
  <2>1. \A m \in inbox : m.account \in Accounts
    BY <1>1 DEF Message
  <2> QED BY <1>1, <1>2, <2>1 DEF ServerSound
<1>7. MarkedSafe /\ NothingErased /\ NothingHidden /\ ReadOnlyIfFlagged
  BY <1>2 DEF MarkedSafe, NothingErased, NothingHidden, ReadOnlyIfFlagged
<1>8. ASSUME NEW a \in Accounts PROVE SnapshotSound(a)
  BY <1>4 DEF SnapshotSound, NoSnapshot
<1>9. ASSUME NEW r \in Requests PROVE HandlerSound(r)
  <2>1. handler[r] = Fresh
    OBVIOUS
  <2> QED BY <2>1
             DEF HandlerSound, Stage, At, Is, Fresh, Knows, DeleteSound,
                 ReadSound
<1>10. IdsSound
  <2>1. ASSUME NEW r \in Requests PROVE UsedSound(HandlerUsed(handler[r]))
    BY DEF UsedSound, HandlerUsed, Fresh
  <2>2. ASSUME NEW a \in Accounts
        PROVE  UsedSound(PassUsed(snapshot[a])) /\ Unfiled(a, snapshot[a])
    BY <1>4 DEF UsedSound, PassUsed, Unfiled, NoSnapshot
  <2> QED BY <1>2, <2>1, <2>2 DEF IdsSound
<1> QED BY <1>5, <1>6, <1>7, <1>8, <1>9, <1>10 DEF IInv

-----------------------------------------------------------------------------
(* Other clients and the provider.                                         *)

\* New mail is of the present UIDVALIDITY.
LEMMA ArriveInvariant ==
  ASSUME IInv, NEW m \in Message, Arrive(m) PROVE IInv'
<1> USE DEF Arrive, Change
<1>1. /\ inbox' = inbox \cup {m} /\ arrived' = arrived \cup {m} /\ m \notin arrived
      /\ UNCHANGED <<epoch, marked, seen, trash, cache, snapshot, handler,
                     flagged, filing, others>>
  OBVIOUS
<1>2. TypeOK'
  <2>1. snapshot' \in [Accounts -> Snapshot]
    BY <1>1 DEF IInv, TypeOK
  <2>2. changes' \in 0 .. MaxChanges
    BY DEF IInv, TypeOK
  <2> QED BY <1>1, <2>1, <2>2 DEF IInv, TypeOK
<1>3. ServerSound'
  BY <1>1 DEF IInv, TypeOK, ServerSound, Message
<1> QED BY <1>1, <1>2, <1>3, OutsideStep DEF Evolves, IInv, TypeOK

\* Another client takes a message away, and is known to have done so.
LEMMA OtherRemovesInvariant ==
  ASSUME IInv, NEW m \in Message, OtherRemoves(m) PROVE IInv'
<1> USE DEF OtherRemoves, Change
<1>1. TypeOK'
  BY DEF IInv, TypeOK
<1>2. ServerSound'
  BY DEF IInv, TypeOK, ServerSound
<1> QED BY <1>1, <1>2, OutsideStep DEF Evolves, IInv, TypeOK

\* Another client sets or clears \Deleted, and is known to have done so.
LEMMA OtherMarksInvariant ==
  ASSUME IInv, NEW m \in Message, OtherMarks(m) PROVE IInv'
<1> USE DEF OtherMarks, Change
<1>1. TypeOK'
  BY DEF IInv, TypeOK
<1>2. ServerSound'
  BY DEF IInv, TypeOK, ServerSound
<1> QED BY <1>1, <1>2, OutsideStep DEF Evolves, IInv, TypeOK

\* Another client sets or clears \Seen: the message had it at one time.
LEMMA OtherFlagsInvariant ==
  ASSUME IInv, NEW m \in Message, OtherFlags(m) PROVE IInv'
<1> USE DEF OtherFlags, Change
<1>1. TypeOK'
  BY DEF IInv, TypeOK
<1>2. ServerSound'
  BY DEF IInv, TypeOK, ServerSound
<1> QED BY <1>1, <1>2, OutsideStep DEF Evolves, IInv, TypeOK

\* Whoever expunges removes only what is flagged \Deleted.
LEMMA OtherExpungesInvariant ==
  ASSUME IInv, NEW a \in Accounts, OtherExpunges(a) PROVE IInv'
<1> USE DEF OtherExpunges, Change, Of
<1>1. TypeOK'
  BY DEF IInv, TypeOK
<1>2. ServerSound'
  BY DEF IInv, TypeOK, ServerSound
<1> QED BY <1>1, <1>2, OutsideStep DEF Evolves, IInv, TypeOK

\* A recreated mailbox holds only messages of a UIDVALIDITY nobody has seen.
LEMMA RecreateInvariant ==
  ASSUME IInv, NEW a \in Accounts, Recreate(a) PROVE IInv'
<1> USE DEF Recreate, Change
<1>1. PICK new \in SUBSET {[account |-> a, epoch |-> epoch[a] + 1, uid |-> u] : u \in Uids} :
        inbox' = (inbox \ Of(a, inbox)) \cup new /\ arrived' = arrived \cup new
  OBVIOUS
<1>2. /\ epoch' = [epoch EXCEPT ![a] = @ + 1] /\ epoch[a] \in 1 .. MaxEpoch
      /\ epoch[a] < MaxEpoch
      /\ marked' = marked \ Of(a, inbox) /\ seen' = seen \ Of(a, inbox)
      /\ others' = others \cup Of(a, inbox)
      /\ UNCHANGED <<trash, cache, snapshot, handler, flagged, filing>>
  BY DEF IInv, TypeOK
<1>3. \A m \in new : m \in Message /\ m.account = a /\ m.epoch = epoch[a] + 1
  BY <1>2 DEF Message
<1>4. new \cap arrived = {}
  BY <1>2, <1>3 DEF IInv, ServerSound
<1>5. \A m \in arrived : m \in Message /\ m.account \in Accounts
  BY DEF IInv, TypeOK, Message
<1>6. TypeOK'
  <2>1. epoch' \in [Accounts -> 1 .. MaxEpoch]
    BY <1>2 DEF IInv, TypeOK
  <2>2. /\ arrived' \in SUBSET Message /\ inbox' \in SUBSET arrived'
        /\ marked' \in SUBSET inbox' /\ seen' \in SUBSET inbox'
        /\ others' \in SUBSET arrived'
    BY <1>1, <1>2, <1>3 DEF IInv, TypeOK, Of
  <2>3. snapshot' \in [Accounts -> Snapshot]
    BY <1>1, <1>2 DEF IInv, TypeOK
  <2>4. changes' \in 0 .. MaxChanges
    BY DEF IInv, TypeOK
  <2> QED BY <1>1, <1>2, <2>1, <2>2, <2>3, <2>4 DEF IInv, TypeOK
<1>7. ServerSound'
  <2>1. ASSUME NEW m \in inbox' PROVE m.epoch = epoch'[m.account]
    BY <1>1, <1>2, <1>3, <1>5 DEF IInv, TypeOK, ServerSound, Of
  <2>2. ASSUME NEW m \in arrived' PROVE m.epoch <= epoch'[m.account]
    <3>1. CASE m \in new
      BY <1>2, <1>3, <3>1 DEF IInv, TypeOK
    <3>2. CASE m \in arrived
      <4>1. m.epoch \in Nat /\ m.epoch <= epoch[m.account]
        BY <1>5, <3>2 DEF IInv, ServerSound, Message
      <4>2. epoch[m.account] \in Nat /\ epoch'[m.account] \in Nat
            /\ epoch[m.account] <= epoch'[m.account]
        BY <1>2, <1>5, <3>2 DEF IInv, TypeOK
      <4> QED BY <4>1, <4>2
    <3> QED BY <1>1, <3>1, <3>2
  <2>3. seen' \subseteq flagged'
    BY <1>2 DEF IInv, ServerSound
  <2> QED BY <2>1, <2>2, <2>3 DEF ServerSound
<1> QED BY <1>1, <1>2, <1>4, <1>6, <1>7, OutsideStep
           DEF Evolves, IInv, TypeOK, Of

-----------------------------------------------------------------------------
(* The sync and restarts.                                                  *)

\* A step of the sync changes the cache and its snapshot only.
LEMMA SyncStep ==
  ASSUME IInv, TypeOK', NEW a \in Accounts,
         UNCHANGED <<mailbox, handler, ghosts>>,
         \A b \in Accounts \ {a} : snapshot'[b] = snapshot[b],
         SnapshotSound(a)', IdsSound', NothingHidden', ReadOnlyIfFlagged'
  PROVE  IInv'
<1>1. Evolves /\ Misaddressed' = Misaddressed
  BY SameHandlers DEF Evolves
<1>2. ServerSound' /\ MarkedSafe' /\ NothingErased'
  BY <1>1 DEF IInv, ServerSound, MarkedSafe, NothingErased
<1>3. ASSUME NEW b \in Accounts PROVE SnapshotSound(b)'
  <2>1. CASE b = a
    BY <2>1
  <2>2. CASE b # a
    BY <1>1, <2>2, KeptSnapshotSound DEF IInv
  <2> QED BY <2>1, <2>2
<1>4. \A r \in Requests : HandlerSound(r)'
  BY <1>1, KeptHandlerSound DEF IInv
<1> QED BY <1>2, <1>3, <1>4 DEF IInv

\* What a pass reads is of one moment: rows without a message are stale.
LEMMA SyncReadsInvariant ==
  ASSUME IInv, NEW a \in Accounts, SyncReads(a) PROVE IInv'
<1> DEFINE present == Of(a, inbox)
           loaded == Of(a, rows)
           s == [taken |-> TRUE,
                 new |-> present \ filed, new_seen |-> (present \ filed) \cap seen,
                 gone |-> loaded \ present,
                 unseen |-> (loaded \cap present \cap row_seen) \ seen,
                 newly |-> (loaded \cap seen) \ row_seen]
<1>1. /\ snapshot' = [snapshot EXCEPT ![a] = s]
      /\ UNCHANGED <<mailbox, cache, handler, ghosts, filing, changes>>
  BY DEF SyncReads
<1>2. /\ present \subseteq inbox /\ loaded \subseteq rows /\ loaded \cap inbox \subseteq present
      /\ inbox \subseteq arrived /\ rows \subseteq arrived /\ arrived \subseteq Message
      /\ seen \subseteq inbox /\ seen \subseteq flagged
  BY DEF IInv, TypeOK, ServerSound, Of
<1>3. s \in Snapshot
  <2>1. /\ present \ filed \in SUBSET Message /\ loaded \ present \in SUBSET Message
        /\ (present \ filed) \cap seen \in SUBSET Message
        /\ (loaded \cap present \cap row_seen) \ seen \in SUBSET Message
        /\ (loaded \cap seen) \ row_seen \in SUBSET Message
    BY <1>2
  <2> QED BY <2>1 DEF Snapshot
<1>4. snapshot'[a] = s /\ \A b \in Accounts \ {a} : snapshot'[b] = snapshot[b]
  BY <1>1 DEF IInv, TypeOK
<1>5. TypeOK'
  <2>1. snapshot' \in [Accounts -> Snapshot]
    BY <1>1, <1>3 DEF IInv, TypeOK
  <2> QED BY <1>1, <2>1 DEF IInv, TypeOK
<1>6. SnapshotSound(a)'
  BY <1>1, <1>2, <1>4 DEF SnapshotSound
<1>7. NothingHidden' /\ ReadOnlyIfFlagged'
  BY <1>1 DEF IInv, NothingHidden, ReadOnlyIfFlagged
<1>8. IdsSound'
  <2>1. PassUsed(s) \subseteq rows /\ Unfiled(a, s)
    BY <1>1 DEF PassUsed, Unfiled, Of
  <2>2. ASSUME NEW b \in Accounts PROVE PassUses(b)
    BY <1>4, <2>1 DEF PassUses
  <2> QED BY <1>1, <2>2, IdsKept DEF IInv
<1> QED BY <1>1, <1>4, <1>5, <1>6, <1>7, <1>8, SyncStep

\* What the end of a pass leaves of its snapshot.
LEMMA PassEndsFacts ==
  ASSUME IInv, NEW a \in Accounts, PassEnds(a)
  PROVE  /\ snapshot' \in [Accounts -> Snapshot]
         /\ \A b \in Accounts \ {a} : snapshot'[b] = snapshot[b]
         /\ SnapshotSound(a)'
<1>1. snapshot' = [snapshot EXCEPT ![a] = NoSnapshot]
  BY DEF PassEnds
<1>2. snapshot'[a] = NoSnapshot /\ \A b \in Accounts \ {a} : snapshot'[b] = snapshot[b]
  BY <1>1 DEF IInv, TypeOK
<1>3. snapshot' \in [Accounts -> Snapshot]
  BY <1>1 DEF IInv, TypeOK, Snapshot, NoSnapshot
<1>4. SnapshotSound(a)'
  BY <1>2 DEF SnapshotSound, NoSnapshot
<1> QED BY <1>2, <1>3, <1>4

\* New rows have ids of their own, and whoever goes by one of these is known.
LEMMA FilesFacts ==
  ASSUME IInv, NEW a \in Accounts, Files(a, snapshot[a].new), PassEnds(a),
         rows' \subseteq rows \cup snapshot[a].new
  PROVE  /\ id' \in [Message -> 0 .. MaxId] /\ filed' = filed \cup snapshot[a].new
         /\ heirs \subseteq heirs' /\ heirs' \subseteq filed'
         /\ IdsSound'
<1> DEFINE new == snapshot[a].new
<1>1. PICK given \in [new -> Ids] :
        /\ \A m, n \in new : given[m] = given[n] => m = n
        /\ \A m \in new, n \in rows : id[n] < given[m]
        /\ id' = [m \in Message |-> IF m \in new THEN given[m] ELSE id[m]]
  BY DEF Files
<1>2. /\ filed' = filed \cup new
      /\ heirs' = heirs \cup {m \in new : \E n \in InUse(a) : id[n] = id'[m]}
  BY DEF Files
<1>3. /\ new \subseteq Message /\ rows \subseteq filed /\ filed \subseteq Message
      /\ id \in [Message -> 0 .. MaxId] /\ heirs \subseteq filed
  BY DEF IInv, TypeOK, SnapshotSound
<1>4. new \cap filed = {} /\ \A m \in new : m.account = a
  BY DEF IInv, IdsSound, Unfiled
<1>5. /\ \A m \in new : id'[m] = given[m] /\ id'[m] \in Ids
      /\ \A m \in filed : id'[m] = id[m] /\ id[m] \in Nat
  BY <1>1, <1>3, <1>4
<1>6. id' \in [Message -> 0 .. MaxId]
  BY <1>1, <1>3 DEF Ids
<1>7. ASSUME NEW m \in rows', NEW n \in rows', id'[m] = id'[n] PROVE m = n
  <2>1. ASSUME NEW x \in new, NEW y \in rows PROVE id'[x] # id'[y]
    BY <1>1, <1>3, <1>5 DEF Ids
  <2>2. CASE m \in new /\ n \in new
    BY <1>1, <1>5, <1>7, <2>2
  <2>3. CASE m \in rows /\ n \in rows
    BY <1>3, <1>5, <1>7, <2>3 DEF IInv, IdsSound
  <2> QED BY <1>7, <2>1, <2>2, <2>3
<1>8. ASSUME NEW S, UsedSound(S), S \subseteq InUse(a)
      PROVE  /\ S \subseteq filed'
             /\ \A m \in S, n \in rows' : id'[m] = id'[n] => m = n \/ n \in heirs'
  <2>1. S \subseteq filed
    BY <1>8 DEF UsedSound
  <2>2. ASSUME NEW m \in S, NEW n \in rows', id'[m] = id'[n]
        PROVE  m = n \/ n \in heirs'
    <3>1. CASE n \in new
      BY <1>2, <1>5, <1>8, <2>1, <2>2, <3>1
    <3>2. CASE n \in rows
      BY <1>2, <1>3, <1>5, <1>8, <2>1, <2>2, <3>2 DEF UsedSound
    <3> QED BY <3>1, <3>2
  <2> QED BY <1>2, <2>1, <2>2
<1>9. ASSUME NEW r \in Requests, ~ At(r, "done")'
      PROVE  UsedSound(HandlerUsed(handler[r]))'
  <2>1. handler' = handler
    BY DEF PassEnds
  <2>2. ~ At(r, "done") /\ UsedSound(HandlerUsed(handler[r]))
    BY <1>9, <2>1 DEF IInv, IdsSound, At
  <2>3. HandlerUsed(handler[r]) \subseteq InUse(a)
    BY <2>2 DEF InUse, HandlerUsed, UsedSound
  <2> QED BY <1>8, <2>1, <2>2, <2>3 DEF UsedSound
<1>10. ASSUME NEW b \in Accounts
       PROVE  UsedSound(PassUsed(snapshot[b]))' /\ Unfiled(b, snapshot[b])'
  <2>1. CASE b = a
    <3>1. snapshot'[a] = NoSnapshot
      BY DEF IInv, TypeOK, PassEnds
    <3> QED BY <2>1, <3>1 DEF UsedSound, PassUsed, Unfiled, NoSnapshot
  <2>2. CASE b # a
    <3>1. snapshot'[b] = snapshot[b]
      BY <2>2 DEF IInv, TypeOK, PassEnds
    <3>2. UsedSound(PassUsed(snapshot[b]))
      BY DEF IInv, IdsSound
    <3>4. PassUsed(snapshot[b]) \subseteq InUse(a)
      <4> SUFFICES ASSUME NEW x \in PassUsed(snapshot[b]) PROVE x \in InUse(a)
        OBVIOUS
      <4> QED BY <2>2, <3>2 DEF InUse, PassUsed, UsedSound
    <3>3. Unfiled(b, snapshot[b])'
      BY <1>2, <1>4, <2>2, <3>1 DEF IInv, IdsSound, Unfiled
    <3>5. /\ PassUsed(snapshot[b]) \subseteq filed'
          /\ \A m \in PassUsed(snapshot[b]), n \in rows' :
               id'[m] = id'[n] => m = n \/ n \in heirs'
      BY <1>8, <3>2, <3>4
    <3>6. UsedSound(PassUsed(snapshot[b]))'
      BY <3>1, <3>5 DEF UsedSound, PassUsed
    <3> QED BY <2>2, <3>3, <3>6
  <2> QED BY <2>1, <2>2
<1>11. heirs' \subseteq filed'
  BY <1>2, <1>3
<1> QED BY <1>2, <1>6, <1>7, <1>9, <1>10, <1>11 DEF IdsSound

\* Whatever a pass drops has left the mailbox for good, or is an heir.
LEMMA SyncStoresInvariant ==
  ASSUME IInv, NEW a \in Accounts, SyncStores(a) PROVE IInv'
<1> DEFINE s == snapshot[a]
<1>1. /\ Files(a, s.new)
      /\ rows' = (rows \ Denoted(s.gone)) \cup s.new
      /\ row_seen' = (((row_seen \ Denoted(s.unseen)) \cup Denoted(s.newly))
                        \ Denoted(s.gone)) \cup s.new_seen
      /\ PassEnds(a)
  BY DEF SyncStores
<1>2. UNCHANGED <<mailbox, handler, ghosts, changes>>
  BY <1>1 DEF PassEnds
<1>3. /\ s.new \subseteq arrived /\ s.gone \cap inbox = {}
      /\ s.new_seen \subseteq s.new /\ s.newly \cup s.new_seen \subseteq flagged
  BY DEF IInv, SnapshotSound
<1>4. /\ Denoted(s.gone) \subseteq rows /\ Denoted(s.newly) \subseteq rows
      /\ Denoted(s.gone) \subseteq s.gone \cup heirs
      /\ Denoted(s.newly) \subseteq s.newly \cup heirs
  <2>1. UsedSound(PassUsed(s))
    BY DEF IInv, IdsSound
  <2> QED BY <2>1 DEF UsedSound, PassUsed, Denoted
<1>5. /\ id' \in [Message -> 0 .. MaxId] /\ filed' = filed \cup s.new
      /\ heirs \subseteq heirs' /\ heirs' \subseteq filed' /\ IdsSound'
  BY <1>1, FilesFacts
<1>6. TypeOK'
  <2>1. rows' \subseteq filed' /\ filed' \subseteq arrived /\ row_seen' \subseteq rows'
    BY <1>1, <1>3, <1>4, <1>5 DEF IInv, TypeOK
  <2> QED BY <1>1, <1>2, <1>5, <2>1, PassEndsFacts DEF IInv, TypeOK
<1>7. NothingHidden'
  BY <1>1, <1>2, <1>3, <1>4, <1>5 DEF IInv, NothingHidden
<1>8. ReadOnlyIfFlagged'
  BY <1>1, <1>2, <1>3, <1>4, <1>5 DEF IInv, ReadOnlyIfFlagged
<1> QED BY <1>1, <1>2, <1>5, <1>6, <1>7, <1>8, SyncStep, PassEndsFacts

\* A pass that breaks off has added rows at most.
LEMMA SyncStopsInvariant ==
  ASSUME IInv, NEW a \in Accounts, SyncStops(a) PROVE IInv'
<1> DEFINE s == snapshot[a]
<1>1. PassEnds(a) /\ UNCHANGED <<mailbox, handler, ghosts, changes>>
  BY DEF SyncStops, PassEnds
<1>2. /\ s.new \subseteq arrived /\ s.new_seen \subseteq s.new
      /\ s.new_seen \subseteq flagged
  BY DEF IInv, SnapshotSound
<1>3. CASE /\ Files(a, s.new)
           /\ rows' = rows \cup s.new
           /\ row_seen' = row_seen \cup s.new_seen
  <2>1. /\ id' \in [Message -> 0 .. MaxId] /\ filed' = filed \cup s.new
        /\ heirs \subseteq heirs' /\ heirs' \subseteq filed' /\ IdsSound'
    BY <1>1, <1>3, FilesFacts
  <2>2. rows' \subseteq filed' /\ filed' \subseteq arrived /\ row_seen' \subseteq rows'
    BY <1>2, <1>3, <2>1 DEF IInv, TypeOK
  <2>3. TypeOK'
    BY <1>1, <2>1, <2>2, PassEndsFacts DEF IInv, TypeOK
  <2>4. NothingHidden' /\ ReadOnlyIfFlagged'
    BY <1>1, <1>2, <1>3, <2>1 DEF IInv, NothingHidden, ReadOnlyIfFlagged
  <2> QED BY <1>1, <2>1, <2>3, <2>4, SyncStep, PassEndsFacts
<1>4. CASE UNCHANGED <<cache, filing>>
  <2>1. TypeOK'
    BY <1>1, <1>4, PassEndsFacts DEF IInv, TypeOK
  <2>2. NothingHidden' /\ ReadOnlyIfFlagged'
    BY <1>1, <1>4 DEF IInv, NothingHidden, ReadOnlyIfFlagged
  <2>3. ASSUME NEW b \in Accounts PROVE PassUses(b)
    <3>1. CASE b = a
      <4>1. snapshot'[a] = NoSnapshot
        BY <1>1 DEF IInv, TypeOK, PassEnds
      <4> QED BY <3>1, <4>1 DEF PassUses, PassUsed, Unfiled, NoSnapshot
    <3>2. CASE b # a
      BY <1>1, <3>2, PassEndsFacts DEF PassUses
    <3> QED BY <3>1, <3>2
  <2>4. IdsSound'
    BY <1>1, <1>4, <2>3, IdsKept DEF IInv
  <2> QED BY <1>1, <2>1, <2>2, <2>4, SyncStep, PassEndsFacts
<1> QED BY <1>3, <1>4 DEF SyncStops

\* A request that is answered remembers nothing but what it was to delete.
LEMMA OverFacts ==
  ASSUME NEW h \in Handler, NEW result \in {"ok", "error", "lost"}
  PROVE  /\ Over(h, result) \in Handler
         /\ Over(h, result).pc = "done" /\ Over(h, result).dirty = {}
         /\ Over(h, result).work = {} /\ Over(h, result).to_update = {}
         /\ Over(h, result).messages \in {{}, h.messages}
         /\ Over(h, result).kind = "delete" <=> h.kind = "delete"
         /\ h.kind = "delete" => /\ Over(h, result).messages = h.messages
                                 /\ Over(h, result).outcome = result
<1>1. Fresh \in Handler
  BY DEF Fresh, Handler, Kind, Single
<1>2. CASE h.kind # "delete"
  BY <1>1, <1>2 DEF Over, Fresh, Handler
<1>3. CASE h.kind = "delete"
  BY <1>1, <1>3 DEF Over, Fresh, Handler, Kind, Single
<1> QED BY <1>2, <1>3

\* A restart forgets the passes and handlers under way, and no promise.
LEMMA RestartInvariant ==
  ASSUME IInv, Restart PROVE IInv'
<1> USE DEF Restart, Change
<1>1. /\ UNCHANGED <<mailbox, cache, ghosts, filing>>
      /\ snapshot' = [a \in Accounts |-> NoSnapshot]
  OBVIOUS
<1>2. ASSUME NEW r \in Requests
      PROVE  handler'[r] = handler[r] \/ handler'[r] = Over(handler[r], "lost")
  OBVIOUS
<1>3. ASSUME NEW r \in Requests PROVE handler[r] \in Handler
  BY DEF IInv, TypeOK
<1>4. TypeOK'
  <2>1. handler' \in [Requests -> Handler]
    BY <1>3, OverFacts
  <2>2. snapshot' \in [Accounts -> Snapshot]
    BY <1>1 DEF Snapshot, NoSnapshot
  <2>3. changes' \in 0 .. MaxChanges
    BY DEF IInv, TypeOK
  <2> QED BY <1>1, <2>1, <2>2, <2>3 DEF IInv, TypeOK
<1>5. Misaddressed' = Misaddressed
  <2>1. \A r \in Requests : /\ handler'[r].kind = "delete" <=> handler[r].kind = "delete"
                            /\ handler[r].kind = "delete"
                                 => handler'[r].messages = handler[r].messages
    BY <1>2, <1>3, OverFacts
  <2> QED BY <2>1 DEF Misaddressed, Is
<1>6. /\ ServerSound' /\ MarkedSafe' /\ NothingErased' /\ NothingHidden'
      /\ ReadOnlyIfFlagged'
  BY <1>1, <1>5
     DEF IInv, ServerSound, MarkedSafe, NothingErased, NothingHidden,
         ReadOnlyIfFlagged
<1>7. ASSUME NEW a \in Accounts PROVE SnapshotSound(a)'
  BY <1>1 DEF SnapshotSound, NoSnapshot
<1>8. ASSUME NEW r \in Requests PROVE HandlerSound(r)'
  <2>1. CASE handler'[r] = handler[r]
    BY <1>1, <2>1, KeptHandlerSound DEF Evolves, IInv
  <2>2. CASE handler'[r] = Over(handler[r], "lost")
    BY <1>1, <1>3, <2>2, OverFacts
       DEF IInv, HandlerSound, Stage, At, Is, Knows, DeleteSound, ReadSound,
           Succeeds
  <2> QED BY <1>2, <2>1, <2>2
<1>9. IdsSound'
  <2>1. ASSUME NEW r \in Requests PROVE handler'[r] = handler[r] \/ Uses(r)
    BY <1>2, <1>3, OverFacts DEF Uses, MayUse
  <2>2. ASSUME NEW a \in Accounts PROVE PassUses(a)
    BY <1>1 DEF PassUses, PassUsed, Unfiled, NoSnapshot
  <2> QED BY <1>1, <2>1, <2>2, IdsKept DEF IInv
<1> QED BY <1>4, <1>6, <1>7, <1>8, <1>9 DEF IInv

-----------------------------------------------------------------------------
(* The steps of a handler.                                                 *)

\* The handler's record after the step.
LEMMA Altered ==
  ASSUME TypeOK, NEW r \in Requests, NEW h \in Handler, Alter(r, h)
  PROVE  /\ handler' \in [Requests -> Handler]
         /\ handler'[r] = h
         /\ \A q \in Requests \ {r} : handler'[q] = handler[q]
BY DEF TypeOK, Alter

\* A handler never forgets what it is to delete.
Remembers(r) ==
  Is(r, {"delete"}) => /\ handler'[r].kind = "delete"
                       /\ handler'[r].messages = handler[r].messages

\* A stale uid that was asked to be deleted stays on record.
LEMMA MisaddressedGrows ==
  ASSUME NEW r \in Requests, Remembers(r),
         \A q \in Requests \ {r} : handler'[q] = handler[q]
  PROVE  Misaddressed \subseteq Misaddressed'
<1> SUFFICES ASSUME NEW m \in Message, NEW q \in Requests, Is(q, {"delete"}),
                    NEW n \in handler[q].messages,
                    m # n /\ m.account = n.account /\ m.uid = n.uid
             PROVE  m \in Misaddressed'
  BY DEF Misaddressed
<1>1. handler'[q].kind = "delete" /\ handler'[q].messages = handler[q].messages
  BY DEF Remembers, Is
<1> QED BY <1>1 DEF Misaddressed, Is

\* What is left to show of a step of a handler.
LEMMA HandlerStep ==
  ASSUME IInv, TypeOK', Evolves, NEW r \in Requests, Remembers(r),
         \A q \in Requests \ {r} : handler'[q] = handler[q],
         HandlerSound(r)', snapshot' = snapshot, arrived' = arrived,
         Uses(r), rows' \subseteq rows, UNCHANGED <<id, filing>>,
         ServerSound', MarkedSafe',
         inbox \ inbox' \subseteq marked \cup others',
         NothingHidden', ReadOnlyIfFlagged'
  PROVE  IInv'
<1>1. Misaddressed \subseteq Misaddressed'
  BY MisaddressedGrows
<1>2. NothingErased'
  BY <1>1 DEF IInv, Evolves, MarkedSafe, NothingErased
<1>3. \A a \in Accounts : SnapshotSound(a)'
  BY KeptSnapshotSound DEF IInv
<1>4. ASSUME NEW q \in Requests PROVE HandlerSound(q)'
  <2>1. CASE q = r
    BY <2>1
  <2>2. CASE q # r
    BY <2>2, KeptHandlerSound DEF IInv
  <2> QED BY <2>1, <2>2
<1>5. IdsSound'
  BY IdsKept DEF IInv, PassUses
<1> QED BY <1>2, <1>3, <1>4, <1>5 DEF IInv

\* A step in which the handler touches neither the server nor the cache.
LEMMA LocalHandlerStep ==
  ASSUME IInv, NEW r \in Requests, NEW h \in Handler, Alter(r, h), LocalStep,
         Is(r, {"delete"}) => h.kind = "delete" /\ h.messages = handler[r].messages,
         HandlerSound(r)', MayUse(r, h)
  PROVE  IInv'
<1>1. /\ handler' \in [Requests -> Handler] /\ handler'[r] = h
      /\ \A q \in Requests \ {r} : handler'[q] = handler[q]
  BY Altered DEF IInv
<1>2. UNCHANGED <<mailbox, cache, snapshot, ghosts, filing, changes>>
  BY DEF LocalStep
<1>3. TypeOK'
  BY <1>1, <1>2 DEF IInv, TypeOK
<1>4. Remembers(r)
  BY <1>1 DEF Remembers
<1>5. ServerSound' /\ NothingHidden' /\ ReadOnlyIfFlagged'
  BY <1>2 DEF IInv, ServerSound, NothingHidden, ReadOnlyIfFlagged
<1>6. MarkedSafe'
  BY <1>1, <1>2, <1>4, MisaddressedGrows DEF IInv, MarkedSafe
<1>7. Uses(r)
  BY <1>1 DEF Uses
<1> QED BY <1>1, <1>2, <1>3, <1>4, <1>5, <1>6, <1>7, HandlerStep DEF Evolves

\* Answering: whatever the result, a delete that fails promises nothing.
LEMMA OverSound ==
  ASSUME IInv, NEW r \in Requests, NEW result \in {"ok", "error", "lost"},
         handler'[r] = Over(handler[r], result), UNCHANGED <<mailbox, ghosts>>,
         result = "ok" /\ Is(r, {"delete"}) => Succeeds(handler[r])
  PROVE  HandlerSound(r)'
<1>1. handler[r] \in Handler
  BY DEF IInv, TypeOK
<1>2. Knows(handler[r])'
  BY <1>1, OverFacts DEF IInv, HandlerSound, Knows
<1>3. Is(r, {"delete"})' => DeleteSound(handler[r])'
  BY <1>1, OverFacts DEF IInv, HandlerSound, DeleteSound, Succeeds, Is
<1>4. Is(r, Reading)' => ReadSound(handler[r])'
  BY <1>1, OverFacts DEF ReadSound
<1> QED BY <1>1, <1>2, <1>3, <1>4, OverFacts DEF HandlerSound, Stage, At, Is

\* A handler may give up at any point.
LEMMA FinishInvariant ==
  ASSUME IInv, NEW r \in Requests, Finish(r, "error"), LocalStep
  PROVE  IInv'
<1>1. handler[r] \in Handler
  BY DEF IInv, TypeOK
<1>2. Alter(r, Over(handler[r], "error")) /\ Over(handler[r], "error") \in Handler
  BY <1>1, OverFacts DEF Finish
<1>3. handler'[r] = Over(handler[r], "error")
  BY <1>2, Altered DEF IInv
<1>4. HandlerSound(r)'
  BY <1>3, OverSound DEF LocalStep
<1> QED BY <1>1, <1>2, <1>4, OverFacts, LocalHandlerStep DEF Is, MayUse

\* A request nobody has made yet.
LEMMA FreshFacts ==
  /\ Fresh \in Handler /\ Fresh.kind = "open" /\ Fresh.messages = {}
  /\ Fresh.work = {} /\ Fresh.dirty = {} /\ Fresh.to_update = {}
BY DEF Fresh, Handler, Kind, Single

\* A handler about one message loads its row, or answers 404.
LEMMA ReceiveInvariant ==
  ASSUME IInv, NEW r \in Requests, NEW kind \in Single, NEW m \in Message,
         Receive(r, kind, m)
  PROVE  IInv'
<1>1. handler[r] = Fresh
  BY DEF IInv, HandlerSound, Receive
<1>2. Fresh \in Handler /\ ~ Is(r, {"delete"})
  BY <1>1, FreshFacts DEF Is
<1>3. ASSUME NEW n \in rows,
             Alter(r, [Fresh EXCEPT !.kind = kind, !.messages = {n},
                    !.to_update = Differing(kind, {n}), !.pc = "connecting"])
      PROVE  IInv'
  <2> DEFINE h == [Fresh EXCEPT !.kind = kind, !.messages = {n},
                    !.to_update = Differing(kind, {n}), !.pc = "connecting"]
  <2>1. Differing(kind, {n}) \subseteq {n} /\ n \in Message
    BY DEF Differing, IInv, TypeOK
  <2>2. h \in Handler
    <3>1. kind \in Kind /\ Differing(kind, {n}) \in SUBSET Message
      BY <2>1 DEF Kind
    <3> QED BY <1>2, <2>1, <3>1 DEF Handler
  <2>3. /\ h.pc = "connecting" /\ h.messages = {n} /\ h.work = {} /\ h.dirty = {}
        /\ h.to_update \subseteq {n}
    BY <1>2, <2>1, FreshFacts DEF Handler
  <2>4. handler'[r] = h
    BY <1>3, <2>2, Altered DEF IInv
  <2>5. n \in arrived /\ LocalStep
    BY <1>3 DEF IInv, TypeOK, Receive
  <2>6. HandlerSound(r)'
    BY <2>3, <2>4, <2>5
       DEF HandlerSound, Stage, At, Is, Knows, DeleteSound, ReadSound,
           Succeeds, LocalStep
  <2>7. MayUse(r, h)
    BY <2>3 DEF Receive, MayUse, HandlerUsed, At
  <2> QED BY <1>2, <1>3, <2>2, <2>5, <2>6, <2>7, LocalHandlerStep
<1>4. CASE Alter(r, Over([Fresh EXCEPT !.kind = kind], "error"))
  <2> DEFINE h == [Fresh EXCEPT !.kind = kind]
  <2>1. h \in Handler
    <3>1. kind \in Kind
      BY DEF Kind
    <3> QED BY <1>2, <3>1 DEF Handler
  <2>5. h.messages = {}
    BY <1>2, FreshFacts DEF Handler
  <2>2. /\ Over(h, "error") \in Handler /\ Over(h, "error").pc = "done"
        /\ Over(h, "error").messages = {} /\ Over(h, "error").work = {}
        /\ Over(h, "error").dirty = {} /\ Over(h, "error").to_update = {}
    BY <2>1, <2>5, OverFacts
  <2>3. handler'[r] = Over(h, "error")
    BY <1>4, <2>2, Altered DEF IInv
  <2>4. HandlerSound(r)'
    BY <2>2, <2>3
       DEF HandlerSound, Stage, At, Is, Knows, DeleteSound, ReadSound,
           Succeeds
  <2> QED BY <1>2, <1>4, <2>2, <2>4, LocalHandlerStep DEF Receive, MayUse
<1> QED BY <1>3, <1>4 DEF Receive, Denoted

\* mark_all_read loads the unread rows of every account.
LEMMA ReceiveAllInvariant ==
  ASSUME IInv, NEW r \in Requests, ReceiveAll(r) PROVE IInv'
<1> DEFINE unread == Differing("read_all", rows)
           h == [Fresh EXCEPT !.kind = "read_all", !.messages = unread,
                   !.to_update = unread,
                   !.pc = IF unread = {} THEN "committing" ELSE "connecting"]
<1>1. handler[r] = Fresh
  BY DEF IInv, HandlerSound, ReceiveAll
<1>2. unread \subseteq rows /\ unread \subseteq Message
  BY DEF IInv, TypeOK, Differing
<1>3. h \in Handler
  <2>1. unread \in SUBSET Message
    BY <1>2
  <2> QED BY <2>1, FreshFacts DEF Handler, Kind
<1>4. /\ h.kind = "read_all" /\ h.pc \in {"committing", "connecting"}
      /\ h.messages = unread /\ h.work = {} /\ h.dirty = {} /\ h.to_update = unread
  BY FreshFacts DEF Handler
<1>5. Alter(r, h) /\ LocalStep
  BY DEF ReceiveAll
<1>6. handler'[r] = h
  BY <1>3, <1>5, Altered DEF IInv
<1>7. HandlerSound(r)'
  BY <1>2, <1>4, <1>5, <1>6
     DEF IInv, TypeOK, LocalStep, HandlerSound, Stage, At, Is, Knows,
         ReadSound
<1>8. MayUse(r, h)
  BY <1>2, <1>4 DEF ReceiveAll, MayUse, HandlerUsed, At
<1> QED BY <1>1, <1>3, <1>5, <1>7, <1>8, FreshFacts, LocalHandlerStep DEF Is

\* A call has failed: a delete that breaks off promises nothing.
LEMMA BrokenSound ==
  ASSUME IInv, Evolves, arrived' = arrived, NEW r \in Requests,
         handler'[r] = Broken(handler[r])
  PROVE  HandlerSound(r)'
<1>1. /\ handler'[r].pc = "logout" /\ handler'[r].kind = handler[r].kind
      /\ handler'[r].failed = (handler[r].kind # "read_all")
      /\ handler'[r].messages = handler[r].messages
      /\ handler'[r].work = handler[r].work
      /\ handler'[r].to_update = handler[r].to_update
      /\ handler'[r].dirty = handler[r].dirty
  BY DEF IInv, TypeOK, Handler, Broken
<1>2. HandlerSound(r)
  BY DEF IInv
<1>3. Knows(handler[r])'
  BY <1>1, <1>2 DEF HandlerSound, Knows
<1>4. Is(r, {"delete"})' => DeleteSound(handler[r])'
  BY <1>1 DEF Is, DeleteSound, Succeeds
<1>5. Is(r, Reading)' => ReadSound(handler[r])'
  BY <1>1, <1>2 DEF HandlerSound, Knows, Is, ReadSound, Evolves
<1> QED BY <1>1, <1>2, <1>3, <1>4, <1>5 DEF HandlerSound, At, Stage

\* A handler that breaks off keeps what it is about.
LEMMA BrokenType ==
  ASSUME NEW h \in Handler
  PROVE  /\ Broken(h) \in Handler /\ Broken(h).kind = h.kind
         /\ Broken(h).messages = h.messages /\ HandlerUsed(Broken(h)) = HandlerUsed(h)
BY DEF Broken, Handler, HandlerUsed

\* A command that fails without effect.
LEMMA CommandFailsInvariant ==
  ASSUME IInv, NEW r \in Requests, ~ At(r, "done"), LocalStep,
         Alter(r, Broken(handler[r]))
  PROVE  IInv'
<1>1. handler[r] \in Handler
  BY DEF IInv, TypeOK
<1>2. handler'[r] = Broken(handler[r])
  BY <1>1, BrokenType, Altered DEF IInv
<1>3. HandlerSound(r)'
  BY <1>2, BrokenSound DEF LocalStep, Evolves
<1> QED BY <1>1, <1>3, BrokenType, LocalHandlerStep DEF Is, MayUse

\* mark_all_read goes on to its next account.
LEMMA OnwardInvariant ==
  ASSUME IInv, NEW r \in Requests, ~ At(r, "done"), Is(r, {"read_all"}),
         NEW work, Onward(r, work), LocalStep
  PROVE  IInv'
<1> DEFINE rest == handler[r].messages \ work
           h == [handler[r] EXCEPT !.messages = rest, !.work = {}, !.left = {},
                   !.pc = IF rest = {} THEN "committing" ELSE "connecting"]
<1>1. handler[r] \in Handler /\ HandlerSound(r)
  BY DEF IInv, TypeOK
<1>2. /\ h.kind = "read_all" /\ h.pc \in {"committing", "connecting"}
      /\ h.messages = rest /\ h.work = {} /\ h.dirty = handler[r].dirty
      /\ h.to_update = handler[r].to_update
  BY <1>1 DEF Handler, Is
<1>3. h \in Handler
  BY <1>1 DEF Handler
<1>4. Alter(r, h)
  BY DEF Onward
<1>5. handler'[r] = h
  BY <1>3, <1>4, Altered DEF IInv
<1>6. HandlerSound(r)'
  BY <1>1, <1>2, <1>5
     DEF LocalStep, HandlerSound, Stage, At, Is, Knows, ReadSound, Reading
<1>7. MayUse(r, h)
  BY <1>2 DEF MayUse, HandlerUsed
<1> QED BY <1>3, <1>4, <1>6, <1>7, LocalHandlerStep DEF Is

\* The connection is open: the handler knows the uids it will name.
LEMMA ConnectsInvariant ==
  ASSUME IInv, NEW r \in Requests, Connects(r) PROVE IInv'
<1>1. handler[r] \in Handler /\ HandlerSound(r) /\ handler[r].pc = "connecting"
  BY DEF IInv, TypeOK, Connects, At
<1>2. PICK work \in Batches(r) :
        Alter(r, [handler[r] EXCEPT !.work = work, !.left = work,
                                    !.pc = Opened(handler[r])])
  BY DEF Connects
<1> DEFINE h == [handler[r] EXCEPT !.work = work, !.left = work,
                                   !.pc = Opened(handler[r])]
<1>3. /\ work \subseteq handler[r].messages
      /\ handler[r].kind # "read_all" => work = handler[r].messages
  BY DEF Batches, Of, Is
<1>4. /\ h.kind = handler[r].kind /\ h.messages = handler[r].messages
      /\ h.work = work /\ h.left = work /\ h.dirty = handler[r].dirty
      /\ h.to_update = handler[r].to_update
      /\ h.pc = Opened(handler[r])
  BY <1>1 DEF Handler
<1>5. /\ h.kind = "open" => h.pc = "selecting"
      /\ h.kind = "delete" => h.pc = "copying"
      /\ h.kind \notin {"open", "delete"} => h.pc = "storing"
  BY <1>4 DEF Opened
<1>6. h \in Handler
  BY <1>1, <1>3 DEF Handler, Opened
<1>7. handler'[r] = h /\ LocalStep
  BY <1>2, <1>6, Altered DEF IInv, Connects
<1>8. HandlerSound(r)'
  <2>1. Stage(h)
    BY <1>1, <1>3, <1>4, <1>5 DEF HandlerSound, Stage, Handler, Kind, Single
  <2>2. h.pc \notin {"new", "logout", "committing", "done", "marking", "expunging"}
    BY <1>5
  <2>3. Knows(handler[r])'
    BY <1>1, <1>3, <1>4, <1>7 DEF HandlerSound, Knows, LocalStep
  <2>4. Is(r, {"delete"})' => DeleteSound(handler[r])'
    BY <1>3, <1>4, <1>7, <2>2 DEF Is, DeleteSound, Succeeds
  <2>5. Is(r, Reading)' => ReadSound(handler[r])'
    BY <1>1, <1>4, <1>7 DEF HandlerSound, Is, ReadSound, LocalStep
  <2> QED BY <1>7, <2>1, <2>2, <2>3, <2>4, <2>5 DEF HandlerSound, At, Is
<1>9. MayUse(r, h)
  BY <1>1, <1>4 DEF MayUse, HandlerUsed, At
<1> QED BY <1>2, <1>4, <1>6, <1>7, <1>8, <1>9, LocalHandlerStep DEF Is

\* No connection: the error is the answer, or the account is skipped.
LEMMA ConnectFailsInvariant ==
  ASSUME IInv, NEW r \in Requests, ConnectFails(r) PROVE IInv'
BY FinishInvariant, OnwardInvariant DEF ConnectFails, At

\* Opening a message checks the UIDVALIDITY and changes nothing.
LEMMA SelectForOpenInvariant ==
  ASSUME IInv, NEW r \in Requests, SelectForOpen(r) PROVE IInv'
<1> DEFINE h == [handler[r] EXCEPT !.pc = "fetching"]
<1>1. handler[r] \in Handler /\ HandlerSound(r) /\ handler[r].pc = "selecting"
  BY DEF IInv, TypeOK, SelectForOpen, At
<1>2. CASE Alter(r, Broken(handler[r]))
  BY <1>1, <1>2, CommandFailsInvariant DEF SelectForOpen, At
<1>3. CASE Alter(r, h)
  <2>1. /\ h \in Handler /\ h.pc = "fetching" /\ h.kind = handler[r].kind
        /\ h.messages = handler[r].messages /\ h.work = handler[r].work
        /\ h.to_update = handler[r].to_update /\ h.dirty = handler[r].dirty
    BY <1>1 DEF Handler
  <2>2. handler'[r] = h /\ LocalStep
    BY <1>3, <2>1, Altered DEF IInv, SelectForOpen
  <2>3. h.kind = "open"
    BY <1>1, <2>1 DEF HandlerSound, Stage
  <2>4. HandlerSound(r)'
    BY <1>1, <2>1, <2>2, <2>3
       DEF LocalStep, HandlerSound, Stage, At, Is, Knows, ReadSound
  <2>5. MayUse(r, h)
    BY <1>1, <2>1 DEF MayUse, HandlerUsed, At
  <2> QED BY <1>3, <2>1, <2>2, <2>4, <2>5, LocalHandlerStep DEF Is
<1> QED BY <1>2, <1>3 DEF SelectForOpen, Step

\* Only a handler whose commands have succeeded goes on to its commit.
LEMMA LogoutInvariant ==
  ASSUME IInv, NEW r \in Requests, Logout(r) PROVE IInv'
<1> DEFINE h == [handler[r] EXCEPT !.pc = "committing"]
<1>1. handler[r] \in Handler /\ HandlerSound(r) /\ handler[r].pc = "logout" /\ LocalStep
  BY DEF IInv, TypeOK, Logout, At
<1>2. CASE Finish(r, "error") \/ (Is(r, {"read_all"}) /\ Onward(r, handler[r].work))
  BY <1>1, <1>2, FinishInvariant, OnwardInvariant DEF At
<1>3. CASE ~ handler[r].failed /\ Goto(r, "committing")
  <2>1. /\ h \in Handler /\ h.pc = "committing" /\ h.kind = handler[r].kind
        /\ h.messages = handler[r].messages /\ h.work = handler[r].work
        /\ h.to_update = handler[r].to_update /\ h.dirty = handler[r].dirty
    BY <1>1 DEF Handler
  <2>2. Alter(r, h)
    BY <1>3 DEF IInv, TypeOK, Goto, Alter
  <2>3. handler'[r] = h
    BY <2>1, <2>2, Altered DEF IInv
  <2>4. Succeeds(handler[r])
    BY <1>1, <1>3 DEF Succeeds
  <2>5. Is(r, {"delete"})' => DeleteSound(handler[r])'
    BY <1>1, <2>1, <2>3, <2>4
       DEF LocalStep, HandlerSound, Is, DeleteSound, Succeeds
  <2>6. HandlerSound(r)'
    BY <1>1, <2>1, <2>3, <2>5
       DEF LocalStep, HandlerSound, Stage, At, Is, Knows, ReadSound
  <2>7. MayUse(r, h)
    BY <1>1, <2>1 DEF MayUse, HandlerUsed, At
  <2> QED BY <1>1, <2>1, <2>2, <2>6, <2>7, LocalHandlerStep DEF Is
<1>4. ASSUME NEW ok \in BOOLEAN, ~ Raises(handler[r], ok) PROVE ~ handler[r].failed
  BY <1>4 DEF Raises
<1> QED BY <1>2, <1>3, <1>4 DEF Logout

-----------------------------------------------------------------------------
(* The steps on the server.                                                *)

\* A uid denotes the message it was read for, as long as that is there.
LEMMA HitsContain ==
  ASSUME IInv, NEW S \in SUBSET Message
  PROVE  /\ Hits(S) \subseteq inbox
         /\ S \cap inbox \subseteq Hits(S)
         /\ \A x \in Hits(S) : \E m \in S : x.account = m.account /\ x.uid = m.uid
<1>1. Hits(S) \subseteq inbox
  BY DEF Hits
<1>2. ASSUME NEW m \in S, m \in inbox PROVE m \in Hits(S)
  <2>1. m.epoch = epoch[m.account]
    BY <1>2 DEF IInv, ServerSound
  <2>2. Named(m) = m
    BY <2>1 DEF Named, Message
  <2> QED BY <1>2, <2>2 DEF Hits
<1>3. ASSUME NEW x \in Hits(S) PROVE \E m \in S : x.account = m.account /\ x.uid = m.uid
  <2>1. PICK m \in S : x = Named(m)
    BY DEF Hits
  <2>2. x.account = m.account /\ x.uid = m.uid
    BY <2>1 DEF Named, Message
  <2> QED BY <2>2
<1> QED BY <1>1, <1>2, <1>3

\* What is left to show of a command, be it carried out or broken off.
LEMMA ServerHandlerStep ==
  ASSUME IInv, NEW r \in Requests, NEW ok \in BOOLEAN, NEW h \in Handler,
         Step(r, ok, h), h.kind = handler[r].kind, h.messages = handler[r].messages,
         ~ At(r, "done"), HandlerUsed(h) \subseteq HandlerUsed(handler[r]),
         ServerStep, Evolves, inbox' \subseteq inbox, marked' \subseteq inbox',
         seen' \subseteq inbox' \cap flagged',
         trash' \subseteq arrived, flagged' \subseteq arrived,
         marked' \subseteq marked \cup trash' \cup others \cup Misaddressed,
         inbox \ inbox' \subseteq marked,
         handler'[r] = h => HandlerSound(r)'
  PROVE  IInv'
<1>1. PICK g \in {h, Broken(handler[r])} : Alter(r, g)
  BY DEF Step
<1>2. /\ g \in Handler /\ g.kind = handler[r].kind /\ g.messages = handler[r].messages
      /\ HandlerUsed(g) \subseteq HandlerUsed(handler[r])
  <2>1. handler[r] \in Handler
    BY DEF IInv, TypeOK
  <2> QED BY <2>1, BrokenType
<1>3. /\ handler' \in [Requests -> Handler] /\ handler'[r] = g
      /\ \A q \in Requests \ {r} : handler'[q] = handler[q]
  BY <1>1, <1>2, Altered DEF IInv
<1>4. UNCHANGED <<epoch, cache, snapshot, arrived, filing, others, changes>>
  BY DEF ServerStep
<1>5. HandlerSound(r)'
  BY <1>3, <1>4, BrokenSound
<1>6. Remembers(r)
  BY <1>2, <1>3 DEF Remembers, Is
<1>7. TypeOK'
  BY <1>3, <1>4 DEF IInv, TypeOK
<1>8. ServerSound'
  BY <1>4 DEF IInv, ServerSound
<1>9. MarkedSafe'
  BY <1>3, <1>4, <1>6, MisaddressedGrows DEF IInv, MarkedSafe, Evolves
<1>10. NothingHidden' /\ ReadOnlyIfFlagged'
  BY <1>4 DEF IInv, NothingHidden, ReadOnlyIfFlagged, Evolves
<1>11. Uses(r)
  BY <1>2, <1>3 DEF Uses, MayUse
<1> QED BY <1>3, <1>4, <1>5, <1>6, <1>7, <1>8, <1>9, <1>10, <1>11, HandlerStep

\* Fetching the body flags the message, if it is there, before the row changes.
LEMMA FetchBodyInvariant ==
  ASSUME IInv, NEW r \in Requests, FetchBody(r) PROVE IInv'
<1> DEFINE hits == Hits(handler[r].work)
           h == [handler[r] EXCEPT !.pc = "logout", !.dirty = handler[r].to_update]
<1>1. handler[r] \in Handler /\ HandlerSound(r) /\ handler[r].pc = "fetching"
  BY DEF IInv, TypeOK, FetchBody, At
<1>2. PICK ok \in BOOLEAN : Step(r, ok, h)
  <2>1. PICK ok \in BOOLEAN : Step(r, ok /\ hits # {}, h)
    BY DEF FetchBody
  <2> QED BY <2>1
<1>3. /\ seen' = seen \cup hits /\ flagged' = flagged \cup hits
      /\ UNCHANGED <<inbox, marked, trash>> /\ ServerStep
  BY DEF FetchBody
<1>4. hits \subseteq inbox /\ handler[r].work \cap inbox \subseteq hits
  <2>1. handler[r].work \in SUBSET Message
    BY <1>1 DEF Handler
  <2> QED BY <2>1, HitsContain
<1>5. /\ h \in Handler /\ h.pc = "logout" /\ h.kind = handler[r].kind
      /\ h.messages = handler[r].messages /\ h.work = handler[r].work
      /\ h.to_update = handler[r].to_update /\ h.dirty = handler[r].to_update
  BY <1>1 DEF Handler
<1>6. h.kind = "open" /\ h.to_update \subseteq h.work
  BY <1>1, <1>5 DEF HandlerSound, Stage
<1>7. ASSUME handler'[r] = h PROVE HandlerSound(r)'
  <2>1. Knows(handler[r])'
    BY <1>1, <1>3, <1>5, <1>7 DEF HandlerSound, Knows, ServerStep
  <2>2. ReadSound(handler[r])'
    BY <1>3, <1>4, <1>5, <1>6, <1>7 DEF ReadSound
  <2> QED BY <1>1, <1>5, <1>6, <1>7, <2>1, <2>2 DEF HandlerSound, Stage, At, Is
<1>8. Evolves
  BY <1>3 DEF Evolves, ServerStep
<1>9. ~ At(r, "done") /\ HandlerUsed(h) \subseteq HandlerUsed(handler[r])
  BY <1>1, <1>5, <1>6 DEF HandlerSound, Stage, At, HandlerUsed
<1> QED BY <1>2, <1>3, <1>4, <1>5, <1>7, <1>8, <1>9, ServerHandlerStep
       DEF IInv, TypeOK, ServerSound, ServerStep

\* The rows of a folder change once all of its uids have been stored.
LEMMA StoreSeenInvariant ==
  ASSUME IInv, NEW r \in Requests, StoreSeen(r) PROVE IInv'
<1>1. handler[r] \in Handler /\ HandlerSound(r) /\ handler[r].pc = "storing"
  BY DEF IInv, TypeOK, StoreSeen, At
<1>2. PICK part \in SUBSET handler[r].left, ok \in BOOLEAN :
        LET hits == Hits(part)
            left == handler[r].left \ part IN
        /\ IF Is(r, {"unread"})
           THEN seen' = seen \ hits /\ flagged' = flagged
           ELSE seen' = seen \cup hits /\ flagged' = flagged \cup hits
        /\ Step(r, ok,
             IF left # {} THEN [handler[r] EXCEPT !.left = left]
             ELSE [handler[r] EXCEPT !.pc = "logout", !.left = {},
                     !.dirty = @ \cup (handler[r].to_update \cap handler[r].work)])
        /\ UNCHANGED <<inbox, marked, trash>> /\ ServerStep
  BY DEF StoreSeen
<1> DEFINE hits == Hits(part)
           left == handler[r].left \ part
           h == IF left # {} THEN [handler[r] EXCEPT !.left = left]
                ELSE [handler[r] EXCEPT !.pc = "logout", !.left = {},
                        !.dirty = @ \cup (handler[r].to_update \cap handler[r].work)]
<1>3. /\ Step(r, ok, h) /\ UNCHANGED <<inbox, marked, trash>> /\ ServerStep
      /\ Is(r, {"unread"}) => seen' = seen \ hits /\ flagged' = flagged
      /\ ~ Is(r, {"unread"}) => seen' = seen \cup hits /\ flagged' = flagged \cup hits
  BY <1>2
<1>4. hits \subseteq inbox /\ part \cap inbox \subseteq hits
  <2>1. part \in SUBSET Message
    BY <1>1 DEF Handler
  <2> QED BY <2>1, HitsContain
<1>5. /\ h \in Handler /\ h.kind = handler[r].kind
      /\ h.messages = handler[r].messages /\ h.work = handler[r].work
      /\ h.to_update = handler[r].to_update
      /\ left # {} => h.pc = "storing" /\ h.left = left /\ h.dirty = handler[r].dirty
      /\ left = {} => h.pc = "logout" /\ h.dirty = handler[r].dirty
                                    \cup (handler[r].to_update \cap handler[r].work)
  BY <1>1 DEF Handler
<1>6. h.kind \in {"read", "unread", "read_all"}
  BY <1>1, <1>5 DEF HandlerSound, Stage
<1>7. Evolves
  BY <1>3 DEF Evolves, ServerStep
<1>8. ASSUME handler'[r] = h PROVE HandlerSound(r)'
  <2>1. Knows(handler[r])'
    BY <1>1, <1>3, <1>5, <1>8 DEF HandlerSound, Knows, ServerStep
  <2>2. ASSUME Is(r, Reading)' PROVE ReadSound(handler[r])'
    <3>1. inbox' = inbox /\ flagged' = flagged \cup hits /\ ReadSound(handler[r])
      BY <1>1, <1>3, <1>5, <1>8, <2>2 DEF HandlerSound, Is, Reading
    <3>2. (handler[r].work \ left) \cap inbox \subseteq flagged'
      BY <1>1, <1>4, <3>1 DEF ReadSound
    <3>3. CASE left # {}
      BY <1>5, <1>8, <3>1, <3>2, <3>3 DEF ReadSound
    <3>4. CASE left = {}
      BY <1>5, <1>8, <3>1, <3>2, <3>4 DEF ReadSound
    <3> QED BY <3>3, <3>4
  <2>3. h.pc \in {"storing", "logout"}
    BY <1>5
  <2> QED BY <1>1, <1>5, <1>6, <1>8, <2>1, <2>2, <2>3
             DEF HandlerSound, Stage, At, Is
<1>9. flagged' \subseteq arrived /\ seen' \subseteq inbox' \cap flagged'
  <2>1. /\ seen \subseteq inbox \cap flagged /\ flagged \subseteq arrived
        /\ inbox \subseteq arrived
    BY DEF IInv, TypeOK, ServerSound
  <2> QED BY <1>3, <1>4, <2>1
<1>10. /\ inbox' \subseteq inbox /\ marked' \subseteq inbox' /\ trash' \subseteq arrived
       /\ marked' \subseteq marked /\ inbox \ inbox' = {}
  BY <1>3 DEF IInv, TypeOK
<1>11. ~ At(r, "done") /\ HandlerUsed(h) \subseteq HandlerUsed(handler[r])
  BY <1>1, <1>5 DEF HandlerSound, Stage, At, HandlerUsed
<1> HIDE DEF h, hits, left
<1> QED BY <1>3, <1>5, <1>7, <1>8, <1>9, <1>10, <1>11, ServerHandlerStep

\* The commands of move_to_trash: what the handler knows as it goes on.
LEMMA DeleteStepFacts ==
  ASSUME IInv, NEW r \in Requests,
         handler[r].pc \in {"copying", "marking", "expunging"}
  PROVE  /\ handler[r] \in Handler /\ handler[r].kind = "delete"
         /\ handler[r].work = handler[r].messages
         /\ handler[r].messages \in SUBSET Message
         /\ handler[r].messages \subseteq arrived
         /\ Knows(handler[r]) /\ DeleteSound(handler[r])
<1>1. handler[r] \in Handler /\ HandlerSound(r)
  BY DEF IInv, TypeOK
<1>2. handler[r].kind = "delete"
  BY <1>1 DEF HandlerSound, Stage
<1>3. Knows(handler[r]) /\ DeleteSound(handler[r])
  BY <1>1, <1>2 DEF HandlerSound, Is
<1> QED BY <1>1, <1>2, <1>3 DEF DeleteSound, Knows, Handler

\* A handler in the middle of a move is sound if its delete is.
LEMMA DeleteStepSound ==
  ASSUME NEW r \in Requests, handler'[r].kind = "delete", DeleteSound(handler[r])',
         handler'[r].pc \in {"marking", "expunging", "logout"}, Knows(handler[r])',
         handler'[r].work = handler'[r].messages
  PROVE  HandlerSound(r)'
BY DEF HandlerSound, Stage, At, Is, Reading

\* After the COPY the message is in Trash, or it is not in the mailbox.
LEMMA CopyToTrashInvariant ==
  ASSUME IInv, NEW r \in Requests, CopyToTrash(r) PROVE IInv'
<1>1. handler[r].pc = "copying" /\ trash' = trash \cup Hits(handler[r].work)
      /\ UNCHANGED <<inbox, marked, seen, flagged>> /\ ServerStep
  BY DEF CopyToTrash, At
<1>2. /\ handler[r] \in Handler /\ handler[r].kind = "delete"
      /\ handler[r].work = handler[r].messages /\ handler[r].messages \subseteq arrived
      /\ handler[r].messages \in SUBSET Message /\ Knows(handler[r])
  BY <1>1, DeleteStepFacts
<1>3. PICK ok \in BOOLEAN, m \in handler[r].work :
        Step(r, ok, [handler[r] EXCEPT !.pc = "marking", !.selected = epoch[m.account]])
  BY DEF CopyToTrash
<1> DEFINE h == [handler[r] EXCEPT !.pc = "marking", !.selected = epoch[m.account]]
<1>4. epoch[m.account] \in 0 .. MaxEpoch
  BY <1>2 DEF IInv, TypeOK, Message
<1>5. /\ h \in Handler /\ h.pc = "marking" /\ h.kind = handler[r].kind
      /\ h.messages = handler[r].messages /\ h.work = handler[r].work
      /\ h.to_update = handler[r].to_update /\ h.dirty = handler[r].dirty
  BY <1>2, <1>4 DEF Handler
<1>6. Hits(handler[r].work) \subseteq inbox
      /\ handler[r].work \cap inbox \subseteq Hits(handler[r].work)
  BY <1>2, HitsContain
<1>7. ASSUME handler'[r] = h PROVE HandlerSound(r)'
  <2>1. DeleteSound(handler[r])'
    BY <1>1, <1>2, <1>5, <1>6, <1>7 DEF DeleteSound, Succeeds
  <2>2. Knows(handler[r])'
    BY <1>1, <1>2, <1>5, <1>7 DEF Knows, ServerStep
  <2> QED BY <1>2, <1>5, <1>7, <2>1, <2>2, DeleteStepSound
<1>8. Evolves
  BY <1>1 DEF Evolves, ServerStep
<1>9. ~ At(r, "done") /\ HandlerUsed(h) = HandlerUsed(handler[r])
  BY <1>1, <1>5 DEF At, HandlerUsed
<1> QED BY <1>1, <1>3, <1>5, <1>6, <1>7, <1>8, <1>9, ServerHandlerStep
       DEF IInv, TypeOK, ServerSound, ServerStep

\* What is flagged \Deleted is the message copied, or it is misaddressed.
LEMMA MarkDeletedInvariant ==
  ASSUME IInv, NEW r \in Requests, MarkDeleted(r) PROVE IInv'
<1> DEFINE hits == Hits(handler[r].work)
           h == [handler[r] EXCEPT !.pc = AfterMark]
<1>1. handler[r].pc = "marking" /\ marked' = marked \cup hits
      /\ UNCHANGED <<inbox, seen, trash, flagged>> /\ ServerStep
  BY DEF MarkDeleted, At
<1>2. /\ handler[r] \in Handler /\ handler[r].kind = "delete"
      /\ handler[r].work = handler[r].messages /\ handler[r].messages \subseteq arrived
      /\ handler[r].messages \in SUBSET Message /\ Knows(handler[r])
      /\ DeleteSound(handler[r])
  BY <1>1, DeleteStepFacts
<1>3. PICK ok \in BOOLEAN : Step(r, ok, h)
  BY DEF MarkDeleted
<1>5. /\ h \in Handler /\ h.pc = "expunging" /\ h.kind = handler[r].kind
      /\ h.messages = handler[r].messages /\ h.work = handler[r].work
      /\ h.to_update = handler[r].to_update /\ h.dirty = handler[r].dirty
  BY <1>2 DEF Handler, AfterMark
<1>6. /\ hits \subseteq inbox /\ handler[r].messages \cap inbox \subseteq hits
      /\ \A x \in hits : \E m \in handler[r].messages :
                            x.account = m.account /\ x.uid = m.uid
  BY <1>2, HitsContain
<1>7. hits \subseteq trash \cup Misaddressed
  <2> SUFFICES ASSUME NEW x \in hits, x \notin Misaddressed PROVE x \in trash
    OBVIOUS
  <2>1. PICK m \in handler[r].messages : x.account = m.account /\ x.uid = m.uid
    BY <1>6
  <2>2. x \in Message /\ x \in inbox
    BY <1>6 DEF IInv, TypeOK
  <2>3. x = m
    BY <1>2, <2>1, <2>2 DEF Misaddressed, Is
  <2> QED BY <1>1, <1>2, <2>2, <2>3 DEF DeleteSound
<1>8. ASSUME handler'[r] = h PROVE HandlerSound(r)'
  <2>1. DeleteSound(handler[r])'
    BY <1>1, <1>2, <1>5, <1>6, <1>8 DEF DeleteSound, Succeeds
  <2>2. Knows(handler[r])'
    BY <1>1, <1>2, <1>5, <1>8 DEF Knows, ServerStep
  <2> QED BY <1>2, <1>5, <1>8, <2>1, <2>2, DeleteStepSound
<1>9. Evolves
  BY <1>1 DEF Evolves, ServerStep
<1>10. ~ At(r, "done") /\ HandlerUsed(h) = HandlerUsed(handler[r])
  BY <1>1, <1>5 DEF At, HandlerUsed
<1> QED BY <1>1, <1>3, <1>5, <1>6, <1>7, <1>8, <1>9, <1>10, ServerHandlerStep
       DEF IInv, TypeOK, ServerSound, ServerStep

\* Whatever is expunged was flagged \Deleted before.
LEMMA ExpungeFolderInvariant ==
  ASSUME IInv, NEW r \in Requests, ExpungeFolder(r) PROVE IInv'
<1> DEFINE gone == UNION {Of(m.account, marked) : m \in handler[r].work}
           h == [handler[r] EXCEPT !.pc = "logout"]
<1>1. /\ handler[r].pc = "expunging"
      /\ inbox' = inbox \ gone /\ marked' = marked \ gone /\ seen' = seen \ gone
      /\ UNCHANGED <<trash, flagged>> /\ ServerStep
  BY DEF ExpungeFolder, At
<1>2. /\ handler[r] \in Handler /\ handler[r].kind = "delete"
      /\ handler[r].work = handler[r].messages /\ handler[r].messages \subseteq arrived
      /\ handler[r].messages \in SUBSET Message /\ Knows(handler[r])
      /\ DeleteSound(handler[r])
  BY <1>1, DeleteStepFacts
<1>3. PICK ok \in BOOLEAN : Step(r, ok, h)
  BY DEF ExpungeFolder
<1>4. gone \subseteq marked /\ handler[r].messages \cap marked \subseteq gone
  BY <1>2 DEF Of
<1>5. /\ h \in Handler /\ h.pc = "logout" /\ h.kind = handler[r].kind
      /\ h.messages = handler[r].messages /\ h.work = handler[r].work
      /\ h.to_update = handler[r].to_update /\ h.dirty = handler[r].dirty
  BY <1>2 DEF Handler
<1>6. ASSUME handler'[r] = h PROVE HandlerSound(r)'
  <2>1. handler[r].messages \cap inbox' \subseteq others'
    BY <1>1, <1>2, <1>4 DEF DeleteSound, ServerStep
  <2>2. DeleteSound(handler[r])'
    BY <1>5, <1>6, <2>1 DEF DeleteSound
  <2>3. Knows(handler[r])'
    BY <1>1, <1>2, <1>5, <1>6 DEF Knows, ServerStep
  <2> QED BY <1>2, <1>5, <1>6, <2>2, <2>3, DeleteStepSound
<1>7. Evolves
  BY <1>1 DEF Evolves, ServerStep
<1>8. ~ At(r, "done") /\ HandlerUsed(h) = HandlerUsed(handler[r])
  BY <1>1, <1>5 DEF At, HandlerUsed
<1> QED BY <1>1, <1>3, <1>4, <1>5, <1>6, <1>7, <1>8, ServerHandlerStep
       DEF IInv, TypeOK, ServerSound, ServerStep

-----------------------------------------------------------------------------
(* The steps on the database.                                              *)

\* What is left to show of a step that stores in the cache.
LEMMA CacheHandlerStep ==
  ASSUME IInv, NEW r \in Requests, NEW h \in Handler, Alter(r, h),
         UNCHANGED <<mailbox, id, snapshot, ghosts, filing, changes>>,
         Is(r, {"delete"}) => h.kind = "delete" /\ h.messages = handler[r].messages,
         HandlerSound(r)', MayUse(r, h), rows' \subseteq rows, row_seen' \subseteq rows',
         NothingHidden', ReadOnlyIfFlagged'
  PROVE  IInv'
<1>1. /\ handler' \in [Requests -> Handler] /\ handler'[r] = h
      /\ \A q \in Requests \ {r} : handler'[q] = handler[q]
  BY Altered DEF IInv
<1>2. TypeOK'
  BY <1>1 DEF IInv, TypeOK
<1>3. Remembers(r)
  BY <1>1 DEF Remembers
<1>4. ServerSound'
  BY DEF IInv, ServerSound
<1>5. MarkedSafe'
  BY <1>1, <1>3, MisaddressedGrows DEF IInv, MarkedSafe
<1>6. Uses(r)
  BY <1>1 DEF Uses
<1> QED BY <1>1, <1>2, <1>3, <1>4, <1>5, <1>6, HandlerStep DEF Evolves

\* The rows a handler changes are those it has loaded, or heirs.
LEMMA UsedDenoted ==
  ASSUME IInv, NEW r \in Requests, ~ (handler[r].pc = "done")
  PROVE  /\ Denoted(handler[r].messages) \subseteq handler[r].messages \cup heirs
         /\ Denoted(handler[r].dirty) \subseteq handler[r].dirty \cup heirs
         /\ Denoted(handler[r].dirty) \subseteq rows
<1>1. UsedSound(HandlerUsed(handler[r]))
  BY DEF IInv, IdsSound, At
<1> QED BY <1>1 DEF UsedSound, HandlerUsed, Denoted

\* Only mark_all_read has rows to store when it connects again.
LEMMA PersistsTokenInvariant ==
  ASSUME IInv, NEW r \in Requests, PersistsToken(r) PROVE IInv'
<1> DEFINE h == [handler[r] EXCEPT !.dirty = {}]
<1>1. /\ handler[r] \in Handler /\ HandlerSound(r) /\ handler[r].pc = "connecting"
      /\ handler[r].dirty # {} /\ UNCHANGED <<mailbox, rows, id, snapshot, ghosts, filing, changes>>
  BY DEF IInv, TypeOK, PersistsToken, At
<1>2. handler[r].kind = "read_all"
  BY <1>1 DEF HandlerSound, Stage
<1>5. Denoted(handler[r].dirty) \subseteq rows
      /\ Denoted(handler[r].dirty) \subseteq handler[r].dirty \cup heirs
  BY <1>1, UsedDenoted
<1>3. CASE /\ Alter(r, h)
           /\ row_seen' = row_seen \cup Denoted(handler[r].dirty)
  <2>1. /\ h \in Handler /\ h.pc = "connecting" /\ h.kind = "read_all"
        /\ h.messages = handler[r].messages /\ h.work = handler[r].work
        /\ h.to_update = handler[r].to_update /\ h.dirty = {}
    BY <1>1, <1>2 DEF Handler
  <2>2. handler'[r] = h
    BY <1>3, <2>1, Altered DEF IInv
  <2>3. HandlerSound(r)'
    BY <1>1, <2>1, <2>2 DEF HandlerSound, Stage, At, Is, Knows, ReadSound
  <2>4. ReadOnlyIfFlagged'
    BY <1>1, <1>2, <1>3, <1>5
       DEF IInv, HandlerSound, Is, Reading, ReadSound, ReadOnlyIfFlagged
  <2>5. NothingHidden'
    BY <1>1 DEF IInv, NothingHidden
  <2>6. row_seen' \subseteq rows'
    BY <1>1, <1>3, <1>5 DEF IInv, TypeOK
  <2>7. MayUse(r, h)
    BY <1>1, <2>1 DEF MayUse, HandlerUsed, At
  <2> QED BY <1>1, <1>2, <1>3, <2>1, <2>3, <2>4, <2>5, <2>6, <2>7,
             CacheHandlerStep DEF Is
<1>4. CASE row_seen' = row_seen /\ Finish(r, "error")
  BY <1>1, <1>4, FinishInvariant DEF LocalStep
<1> QED BY <1>3, <1>4 DEF PersistsToken

\* A row is dropped only once its message has left the mailbox, and becomes read
\* only once the server has flagged the message, unless it is an heir's.
LEMMA CommitInvariant ==
  ASSUME IInv, NEW r \in Requests, Commit(r) PROVE IInv'
<1> DEFINE h == handler[r]
           kept == IF h.kind = "delete" THEN rows \ Denoted(h.messages) ELSE rows
<1>1. /\ h \in Handler /\ HandlerSound(r) /\ h.pc = "committing"
      /\ UNCHANGED <<mailbox, snapshot, ghosts, filing, changes>>
  BY DEF IInv, TypeOK, Commit, At
<1>4. /\ Denoted(h.messages) \subseteq h.messages \cup heirs
      /\ Denoted(h.dirty) \subseteq h.dirty \cup heirs
      /\ Denoted(h.dirty) \subseteq rows
  BY <1>1, UsedDenoted
<1>2. CASE Finish(r, "error") /\ UNCHANGED cache
  BY <1>1, <1>2, FinishInvariant DEF LocalStep
<1>3. CASE /\ Finish(r, "ok") /\ id' = id
           /\ rows' = kept /\ row_seen' = SeenAfter(h, kept)
  <2>1. Alter(r, Over(h, "ok")) /\ Over(h, "ok") \in Handler
    BY <1>1, <1>3, OverFacts DEF Finish
  <2>2. handler'[r] = Over(h, "ok")
    BY <2>1, Altered DEF IInv
  <2>3. Succeeds(h)
    BY <1>1 DEF Succeeds
  <2>4. HandlerSound(r)'
    BY <1>1, <2>2, <2>3, OverSound
  <2>5. h.kind = "delete" => h.messages \cap inbox \subseteq others
    BY <1>1, <2>3 DEF HandlerSound, Is, DeleteSound
  <2>6. NothingHidden'
    BY <1>1, <1>3, <1>4, <2>5 DEF IInv, NothingHidden
  <2>7. row_seen' \subseteq rows' /\ row_seen' \subseteq row_seen \cup Denoted(h.dirty)
        /\ (h.kind \notin Reading => row_seen' \subseteq row_seen)
    BY <1>3, <1>4 DEF IInv, TypeOK, SeenAfter, Reading
  <2>8. ReadOnlyIfFlagged'
    BY <1>1, <1>4, <2>7 DEF IInv, HandlerSound, Is, ReadSound, ReadOnlyIfFlagged
  <2>9. rows' \subseteq rows
    BY <1>3
  <2>10. Is(r, {"delete"}) => /\ Over(h, "ok").kind = "delete"
                              /\ Over(h, "ok").messages = h.messages
    BY <1>1, OverFacts DEF Is
  <2>11. MayUse(r, Over(h, "ok"))
    BY <1>1, OverFacts DEF MayUse
  <2> QED BY <1>1, <1>3, <2>1, <2>4, <2>6, <2>7, <2>8, <2>9, <2>10, <2>11,
             CacheHandlerStep
<1> QED BY <1>2, <1>3 DEF Commit

-----------------------------------------------------------------------------
(* The theorems.                                                           *)

\* A step that changes nothing.
LEMMA UnchangedInvariant ==
  ASSUME IInv, UNCHANGED vars PROVE IInv'
<1> USE DEF vars
<1>1. TypeOK'
  BY DEF IInv, TypeOK
<1>2. ServerSound'
  BY DEF IInv, ServerSound
<1> QED BY <1>1, <1>2, OutsideStep DEF Evolves, IInv, TypeOK

\* Every step keeps the invariant.
LEMMA NextInvariant ==
  ASSUME IInv, [Next]_vars PROVE IInv'
<1>1. CASE Environment
  BY <1>1, ArriveInvariant, OtherRemovesInvariant, OtherMarksInvariant,
     OtherFlagsInvariant, OtherExpungesInvariant, RecreateInvariant,
     RestartInvariant DEF Environment
<1>2. CASE Sync
  BY <1>2, SyncReadsInvariant, SyncStoresInvariant, SyncStopsInvariant DEF Sync
<1>3. ASSUME NEW r \in Requests, Handle(r) PROVE IInv'
  <2>1. CASE \E kind \in Single, m \in Message : Receive(r, kind, m)
    BY <2>1, ReceiveInvariant
  <2>2. CASE CommandFails(r)
    BY <2>2, CommandFailsInvariant DEF CommandFails, At
  <2> QED BY <1>3, <2>1, <2>2, ReceiveAllInvariant, ConnectsInvariant,
             PersistsTokenInvariant, ConnectFailsInvariant,
             SelectForOpenInvariant, FetchBodyInvariant, StoreSeenInvariant,
             CopyToTrashInvariant, MarkDeletedInvariant,
             ExpungeFolderInvariant, LogoutInvariant, CommitInvariant
             DEF Handle
<1>4. CASE UNCHANGED vars
  BY <1>4, UnchangedInvariant
<1> QED BY <1>1, <1>2, <1>3, <1>4 DEF Next

\* The invariant holds throughout.
LEMMA Invariant == Spec => []IInv
BY InitInvariant, NextInvariant, PTL DEF Spec

\* The handlers, the mailboxes and the cache stay within their types.
THEOREM TypeCorrect == Spec => []TypeOK
<1>1. IInv => TypeOK
  BY DEF IInv
<1> QED BY <1>1, Invariant, PTL

\* move_to_trash erases no mail: what leaves the mailbox is in Trash, unless
\* another client took it or a delete addressed a stale uid.
THEOREM DeletingErasesNothing == Spec => []NothingErased
<1>1. IInv => NothingErased
  BY DEF IInv
<1> QED BY <1>1, Invariant, PTL

\* delete_message and the sync drop a row only of mail that has left the mailbox,
\* or that was given an id they were still going by.
THEOREM CacheHidesNothing == Spec => []NothingHidden
<1>1. IInv => NothingHidden
  BY DEF IInv
<1> QED BY <1>1, Invariant, PTL

\* A row is marked read by a handler or the sync only after the server has
\* flagged the message, unless its id was still another message's for them.
THEOREM ReadMeansFlagged == Spec => []ReadOnlyIfFlagged
<1>1. IInv => ReadOnlyIfFlagged
  BY DEF IInv
<1> QED BY <1>1, Invariant, PTL

\* A delete that is answered with success has moved its message to Trash.
THEOREM DeletesAreHonoured == Spec => []DeleteHonoured
<1>1. ASSUME IInv PROVE DeleteHonoured
  <2> SUFFICES ASSUME NEW r \in Requests, Done(r, "ok"), Is(r, {"delete"})
               PROVE  handler[r].messages \subseteq
                        (trash \ inbox) \cup others \cup Misaddressed
    BY DEF DeleteHonoured
  <2>1. HandlerSound(r)
    BY <1>1 DEF IInv
  <2>2. handler[r].messages \subseteq arrived
    BY <2>1 DEF HandlerSound, Knows
  <2>3. handler[r].messages \cap inbox \subseteq others
    BY <2>1 DEF HandlerSound, DeleteSound, Succeeds, Done, At
  <2> QED BY <1>1, <2>2, <2>3 DEF IInv, NothingErased
<1> QED BY <1>1, Invariant, PTL

=============================================================================
