-------------------------- MODULE DeleteUndoProofs --------------------------
(***************************************************************************)
(* Proofs about DeleteUndo for any messages, any number of presses and     *)
(* visits, and any two windows of which Undo's is the shorter.             *)
(***************************************************************************)
EXTENDS DeleteUndo, TLAPS

\* A timer that runs is the one its page has for the message, so that clearing
\* by message clears no other.
TimersAgree ==
  \A p \in armed : delete_timers[visit_of[p]][msg_of[p]] = p

\* A toast is gone before the timer of its press is due.
ToastsInTime == \A p \in toasts : age[p] <= UNDO_WINDOW

\* What has not been pressed yet has no effect.
NotPressedYet ==
  \A p \in Presses : p > used =>
    p \notin armed \cup toasts \cup undone /\ request[p] = "unsent" /\ age[p] = 0

\* Only a page that is there hides messages.
HiddenWhileMounted == ~ mounted => pending_delete_ids = {}

\* No press is lost: its timer runs, it has been sent, or undone, or it went
\* with the tab.
Accounted ==
  \A p \in Presses : p <= used =>
    p \in armed \cup undone \cup forgotten \/ request[p] # "unsent"

\* The inductive invariant.
IInv == /\ TypeOK /\ UndoHonoured /\ HiddenForAReason /\ Accounted
        /\ TimersAgree /\ ToastsInTime /\ NotPressedYet /\ HiddenWhileMounted

USE DeleteUndoAssumption
USE DEF page, view, press, timers, ghosts, Presses, Visits, NoPress, Panes, Requests

-----------------------------------------------------------------------------
\* A tab starts with nothing pressed.
LEMMA InitInvariant == Init => IInv
<1> SUFFICES ASSUME Init PROVE IInv
  OBVIOUS
<1> USE DEF Init
<1>1. TypeOK
  BY DEF TypeOK
<1>2. UndoHonoured /\ HiddenForAReason /\ HiddenWhileMounted
  BY DEF UndoHonoured, HiddenForAReason, HiddenWhileMounted
<1>3. Accounted /\ NotPressedYet /\ TimersAgree /\ ToastsInTime
  BY DEF Accounted, NotPressedYet, TimersAgree, ToastsInTime
<1> QED BY <1>1, <1>2, <1>3 DEF IInv

-----------------------------------------------------------------------------
\* What is hidden keeps its reason if every press that leaves the timers and
\* the requests shows its message again, or is of another page.
LEMMA HiddenKept ==
  ASSUME HiddenForAReason, UNCHANGED <<visit, msg_of, visit_of>>,
         pending_delete_ids' \subseteq pending_delete_ids,
         \A p \in armed \cup InFlight :
           \/ p \in armed' \cup InFlight'
           \/ msg_of[p] \notin pending_delete_ids' \/ visit_of[p] # visit
           \/ pending_delete_ids' = {}
  PROVE  HiddenForAReason'
BY DEF HiddenForAReason

\* Opening a message touches no timer.
LEMMA SelectRowInvariant ==
  ASSUME IInv, NEW m \in Messages, SelectRow(m)
  PROVE  IInv'
<1> USE DEF IInv, SelectRow, Select
<1>1. TypeOK'
  BY DEF TypeOK
<1>2. UndoHonoured'
  BY DEF TypeOK, UndoHonoured, TimersAgree, ToastsInTime, NotPressedYet
<1>3. HiddenForAReason' /\ HiddenWhileMounted'
  BY HiddenKept DEF TypeOK, HiddenWhileMounted, TimersAgree, InFlight
<1>4. Accounted' /\ NotPressedYet'
  BY DEF TypeOK, Accounted, NotPressedYet, TimersAgree, UndoHonoured
<1>5. TimersAgree'
  BY DEF TypeOK, TimersAgree, UndoHonoured, NotPressedYet
<1>6. ToastsInTime'
  BY DEF TypeOK, ToastsInTime, NotPressedYet
<1> QED BY <1>1, <1>2, <1>3, <1>4, <1>5, <1>6

\* A page opened by a notification hides nothing yet.
LEMMA OpenNotificationInvariant ==
  ASSUME IInv, NEW m \in Messages, OpenNotification(m)
  PROVE  IInv'
<1> USE DEF IInv, OpenNotification, Select, Mount
<1>1. TypeOK'
  <2>1. /\ selected_message_id' \in Messages /\ pane' \in Panes
        /\ visit' \in Visits /\ mounted' \in BOOLEAN
        /\ pending_delete_ids' \subseteq Messages
    <3>1. CASE mounted
      BY <3>1 DEF TypeOK
    <3>2. CASE ~ mounted
      BY <3>2 DEF TypeOK
    <3> QED BY <3>1, <3>2
  <2> QED BY <2>1 DEF TypeOK
<1>2. UndoHonoured'
  BY DEF TypeOK, UndoHonoured, TimersAgree, ToastsInTime, NotPressedYet
<1>3. HiddenForAReason' /\ HiddenWhileMounted'
  <2>1. CASE mounted
    BY <2>1, HiddenKept DEF HiddenWhileMounted, InFlight
  <2>2. CASE ~ mounted
    BY <2>2 DEF HiddenForAReason, HiddenWhileMounted
  <2> QED BY <2>1, <2>2
<1>4. Accounted' /\ NotPressedYet'
  BY DEF TypeOK, Accounted, NotPressedYet, TimersAgree, UndoHonoured
<1>5. TimersAgree'
  BY DEF TypeOK, TimersAgree, UndoHonoured, NotPressedYet
<1>6. ToastsInTime'
  BY DEF TypeOK, ToastsInTime, NotPressedYet
<1> QED BY <1>1, <1>2, <1>3, <1>4, <1>5, <1>6

\* A press that is accepted is the only one its page has for the message.
LEMMA HandleDeleteInvariant ==
  ASSUME IInv, NEW m \in Messages, HandleDelete(m)
  PROVE  IInv'
<1> USE DEF IInv, HandleDelete, OffersDelete, Accepts
<1>1. TypeOK'
  <2>1. /\ rows' \subseteq Messages /\ listed' \subseteq Messages
        /\ pending_delete_ids' \subseteq Messages
        /\ selected_message_id' \in Messages \cup {NoMessage} /\ pane' \in Panes
    BY DEF TypeOK
  <2>2. /\ used' \in 0 .. MaxPresses /\ used' \in Presses /\ used' = used + 1
        /\ UNCHANGED <<visit, mounted, undone, forgotten>>
        /\ armed' = armed \cup {used'} /\ toasts' = toasts \cup {used'}
    BY DEF TypeOK
  <2>3. /\ visit' \in Visits /\ mounted' \in BOOLEAN
        /\ armed' \subseteq Presses /\ toasts' \subseteq Presses
        /\ undone' \subseteq Presses /\ forgotten' \subseteq Presses
    BY <2>2 DEF TypeOK
  <2>4. delete_timers' \in [Visits -> [Messages -> Presses \cup {NoPress}]]
    BY DEF TypeOK
  <2>5. /\ msg_of' \in [Presses -> Messages \cup {NoMessage}]
        /\ visit_of' \in [Presses -> Visits]
        /\ age' \in [Presses -> 0 .. DELETE_COMMIT] /\ request' \in [Presses -> Requests]
    BY DEF TypeOK
  <2> QED BY <2>1, <2>2, <2>3, <2>4, <2>5 DEF TypeOK
<1>2. UndoHonoured'
  <2>1. \A q \in toasts' : q \in armed' /\ request'[q] = "unsent"
    BY DEF TypeOK, UndoHonoured, TimersAgree, ToastsInTime, NotPressedYet
  <2>2. \A q \in undone' : request'[q] = "unsent"
    BY DEF TypeOK, UndoHonoured, NotPressedYet
  <2>3. \A q \in undone' : q \in undone /\ q <= used
    BY DEF TypeOK, NotPressedYet
  <2>4. \A q \in undone', r \in armed' :
          r <= q => msg_of'[r] # msg_of'[q] \/ visit_of'[r] # visit_of'[q]
    <3>1. ASSUME NEW q \in undone', NEW r \in armed', r <= q
          PROVE  msg_of'[r] # msg_of'[q] \/ visit_of'[r] # visit_of'[q]
      <4>1. q \in Presses /\ r \in Presses /\ q <= used /\ r <= used
        BY <2>3, <3>1 DEF TypeOK
      <4>2. /\ msg_of'[q] = msg_of[q] /\ visit_of'[q] = visit_of[q]
            /\ msg_of'[r] = msg_of[r] /\ visit_of'[r] = visit_of[r]
        BY <4>1 DEF TypeOK
      <4>3. q \in undone /\ r \in armed
        BY <2>3, <3>1, <4>1 DEF TypeOK
      <4> QED BY <3>1, <4>2, <4>3 DEF UndoHonoured
    <3> QED BY <3>1
  <2> QED BY <2>1, <2>2, <2>4 DEF UndoHonoured
<1>3. HiddenForAReason' /\ HiddenWhileMounted'
  <2> DEFINE p == used + 1
  <2>1. /\ p \in Presses /\ p \in armed' /\ msg_of'[p] = m /\ visit_of'[p] = visit
        /\ mounted' /\ visit' = visit
        /\ pending_delete_ids' = pending_delete_ids \cup {m}
    BY DEF TypeOK
  <2>2. p \notin armed \cup InFlight
    BY DEF NotPressedYet, TypeOK, InFlight
  <2>3. \A q \in armed \cup InFlight :
          /\ q \in armed' \cup InFlight'
          /\ msg_of'[q] = msg_of[q] /\ visit_of'[q] = visit_of[q]
    BY <2>2 DEF TypeOK, InFlight
  <2> QED BY <2>1, <2>3 DEF HiddenForAReason, HiddenWhileMounted
<1>4. Accounted' /\ NotPressedYet'
  BY DEF TypeOK, Accounted, NotPressedYet, TimersAgree, UndoHonoured
<1>5. TimersAgree'
  BY DEF TypeOK, TimersAgree, UndoHonoured, NotPressedYet
<1>6. ToastsInTime'
  BY DEF TypeOK, ToastsInTime, NotPressedYet
<1> QED BY <1>1, <1>2, <1>3, <1>4, <1>5, <1>6

\* What the server loses touches no timer.
LEMMA RowGoesInvariant ==
  ASSUME IInv, NEW m \in Messages, RowGoes(m)
  PROVE  IInv'
<1> USE DEF IInv, RowGoes
<1>1. TypeOK'
  BY DEF TypeOK
<1>2. UndoHonoured'
  BY DEF TypeOK, UndoHonoured, TimersAgree, ToastsInTime, NotPressedYet
<1>3. HiddenForAReason' /\ HiddenWhileMounted'
  BY HiddenKept DEF TypeOK, HiddenWhileMounted, TimersAgree, InFlight
<1>4. Accounted' /\ NotPressedYet'
  BY DEF TypeOK, Accounted, NotPressedYet, TimersAgree, UndoHonoured
<1>5. TimersAgree'
  BY DEF TypeOK, TimersAgree, UndoHonoured, NotPressedYet
<1>6. ToastsInTime'
  BY DEF TypeOK, ToastsInTime, NotPressedYet
<1> QED BY <1>1, <1>2, <1>3, <1>4, <1>5, <1>6

\* A new page hides nothing yet.
LEMMA EnterPageInvariant ==
  ASSUME IInv, EnterPage
  PROVE  IInv'
<1> USE DEF IInv, EnterPage, Mount
<1>1. TypeOK'
  <2>1. visit' \in Visits /\ mounted' \in BOOLEAN /\ pending_delete_ids' \subseteq Messages
    BY DEF TypeOK
  <2> QED BY <2>1 DEF TypeOK
<1>2. UndoHonoured'
  BY DEF TypeOK, UndoHonoured, TimersAgree, ToastsInTime, NotPressedYet
<1>3. HiddenForAReason' /\ HiddenWhileMounted'
  BY DEF HiddenForAReason, HiddenWhileMounted
<1>4. Accounted' /\ NotPressedYet'
  BY DEF TypeOK, Accounted, NotPressedYet, TimersAgree, UndoHonoured
<1>5. TimersAgree'
  BY DEF TypeOK, TimersAgree, UndoHonoured, NotPressedYet
<1>6. ToastsInTime'
  BY DEF TypeOK, ToastsInTime, NotPressedYet
<1> QED BY <1>1, <1>2, <1>3, <1>4, <1>5, <1>6

\* The page goes; its timers stay.
LEMMA LeavePageInvariant ==
  ASSUME IInv, LeavePage
  PROVE  IInv'
<1> USE DEF IInv, LeavePage, TimersLeft
<1>1. TypeOK'
  BY DEF TypeOK
<1>2. UndoHonoured'
  BY DEF TypeOK, UndoHonoured, TimersAgree, ToastsInTime, NotPressedYet
<1>3. HiddenForAReason' /\ HiddenWhileMounted'
  BY DEF HiddenForAReason, HiddenWhileMounted
<1>4. Accounted' /\ NotPressedYet'
  BY DEF TypeOK, Accounted, NotPressedYet, TimersAgree, UndoHonoured
<1>5. TimersAgree'
  BY DEF TypeOK, TimersAgree, UndoHonoured, NotPressedYet
<1>6. ToastsInTime'
  BY DEF TypeOK, ToastsInTime, NotPressedYet
<1> QED BY <1>1, <1>2, <1>3, <1>4, <1>5, <1>6

\* Closing the reading pane touches no timer.
LEMMA DeselectInvariant ==
  ASSUME IInv, Deselect
  PROVE  IInv'
<1> USE DEF IInv, Deselect
<1>1. TypeOK'
  BY DEF TypeOK
<1>2. UndoHonoured'
  BY DEF TypeOK, UndoHonoured, TimersAgree, ToastsInTime, NotPressedYet
<1>3. HiddenForAReason' /\ HiddenWhileMounted'
  BY HiddenKept DEF TypeOK, HiddenWhileMounted, TimersAgree, InFlight
<1>4. Accounted' /\ NotPressedYet'
  BY DEF TypeOK, Accounted, NotPressedYet, TimersAgree, UndoHonoured
<1>5. TimersAgree'
  BY DEF TypeOK, TimersAgree, UndoHonoured, NotPressedYet
<1>6. ToastsInTime'
  BY DEF TypeOK, ToastsInTime, NotPressedYet
<1> QED BY <1>1, <1>2, <1>3, <1>4, <1>5, <1>6

\* Fetching a detail again touches no timer.
LEMMA RetryInvariant ==
  ASSUME IInv, Retry
  PROVE  IInv'
<1> USE DEF IInv, Retry
<1>1. TypeOK'
  BY DEF TypeOK
<1>2. UndoHonoured'
  BY DEF TypeOK, UndoHonoured, TimersAgree, ToastsInTime, NotPressedYet
<1>3. HiddenForAReason' /\ HiddenWhileMounted'
  BY HiddenKept DEF TypeOK, HiddenWhileMounted, TimersAgree, InFlight
<1>4. Accounted' /\ NotPressedYet'
  BY DEF TypeOK, Accounted, NotPressedYet, TimersAgree, UndoHonoured
<1>5. TimersAgree'
  BY DEF TypeOK, TimersAgree, UndoHonoured, NotPressedYet
<1>6. ToastsInTime'
  BY DEF TypeOK, ToastsInTime, NotPressedYet
<1> QED BY <1>1, <1>2, <1>3, <1>4, <1>5, <1>6

\* A detail that arrives touches no timer.
LEMMA DetailArrivesInvariant ==
  ASSUME IInv, DetailArrives
  PROVE  IInv'
<1> USE DEF IInv, DetailArrives
<1>1. TypeOK'
  BY DEF TypeOK
<1>2. UndoHonoured'
  BY DEF TypeOK, UndoHonoured, TimersAgree, ToastsInTime, NotPressedYet
<1>3. HiddenForAReason' /\ HiddenWhileMounted'
  BY HiddenKept DEF TypeOK, HiddenWhileMounted, TimersAgree, InFlight
<1>4. Accounted' /\ NotPressedYet'
  BY DEF TypeOK, Accounted, NotPressedYet, TimersAgree, UndoHonoured
<1>5. TimersAgree'
  BY DEF TypeOK, TimersAgree, UndoHonoured, NotPressedYet
<1>6. ToastsInTime'
  BY DEF TypeOK, ToastsInTime, NotPressedYet
<1> QED BY <1>1, <1>2, <1>3, <1>4, <1>5, <1>6

\* No timer passes its due time.
LEMMA TickInvariant ==
  ASSUME IInv, Tick
  PROVE  IInv'
<1> USE DEF IInv, Tick, ToastDue, CommitDue
<1>1. TypeOK'
  <2>1. \A p \in armed \cup toasts : p \in Presses /\ age[p] \in 0 .. DELETE_COMMIT
                                 /\ age[p] # DELETE_COMMIT
    BY DEF UndoHonoured, TypeOK
  <2>2. \A p \in armed \cup toasts : age[p] + 1 \in 0 .. DELETE_COMMIT
    BY <2>1
  <2>3. age' \in [Presses -> 0 .. DELETE_COMMIT]
    BY <2>2 DEF TypeOK
  <2> QED BY <2>3 DEF TypeOK
<1>2. UndoHonoured'
  BY DEF TypeOK, UndoHonoured, TimersAgree, ToastsInTime, NotPressedYet
<1>3. HiddenForAReason' /\ HiddenWhileMounted'
  BY HiddenKept DEF TypeOK, HiddenWhileMounted, TimersAgree, InFlight
<1>4. Accounted' /\ NotPressedYet'
  BY DEF TypeOK, Accounted, NotPressedYet, TimersAgree, UndoHonoured
<1>5. TimersAgree'
  BY DEF TypeOK, TimersAgree, UndoHonoured, NotPressedYet
<1>6. ToastsInTime'
  BY DEF TypeOK, ToastsInTime, NotPressedYet
<1> QED BY <1>1, <1>2, <1>3, <1>4, <1>5, <1>6

\* The list has nothing to do with what is hidden.
LEMMA ListArrivesInvariant ==
  ASSUME IInv, ListArrives
  PROVE  IInv'
<1> USE DEF IInv, ListArrives
<1>1. TypeOK'
  BY DEF TypeOK
<1>2. UndoHonoured'
  BY DEF TypeOK, UndoHonoured, TimersAgree, ToastsInTime, NotPressedYet
<1>3. HiddenForAReason' /\ HiddenWhileMounted'
  BY HiddenKept DEF TypeOK, HiddenWhileMounted, TimersAgree, InFlight
<1>4. Accounted' /\ NotPressedYet'
  BY DEF TypeOK, Accounted, NotPressedYet, TimersAgree, UndoHonoured
<1>5. TimersAgree'
  BY DEF TypeOK, TimersAgree, UndoHonoured, NotPressedYet
<1>6. ToastsInTime'
  BY DEF TypeOK, ToastsInTime, NotPressedYet
<1> QED BY <1>1, <1>2, <1>3, <1>4, <1>5, <1>6

\* The end of the tab forgets all timers, and what they were for is hidden
\* no more.
LEMMA ReloadTabInvariant ==
  ASSUME IInv, ReloadTab
  PROVE  IInv'
<1> USE DEF IInv, ReloadTab
<1>1. TypeOK'
  BY DEF TypeOK
<1>2. UndoHonoured'
  BY DEF TypeOK, UndoHonoured, TimersAgree, ToastsInTime, NotPressedYet
<1>3. HiddenForAReason' /\ HiddenWhileMounted'
  BY DEF HiddenForAReason, HiddenWhileMounted
<1>4. Accounted' /\ NotPressedYet'
  BY DEF TypeOK, Accounted, NotPressedYet, TimersAgree, UndoHonoured
<1>5. TimersAgree'
  BY DEF TypeOK, TimersAgree, UndoHonoured, NotPressedYet
<1>6. ToastsInTime'
  BY DEF TypeOK, ToastsInTime, NotPressedYet
<1> QED BY <1>1, <1>2, <1>3, <1>4, <1>5, <1>6

\* Undo clears the timer of the press it undoes, and no other.
LEMMA UndoInvariant ==
  ASSUME IInv, NEW p \in Presses, Undo(p)
  PROVE  IInv'
<1> USE DEF IInv, Undo, RemovePending, Forget, Cleared
<1>1. TypeOK'
  BY DEF TypeOK
<1>2. UndoHonoured'
  <2>1. \A q \in toasts' : q \in armed' /\ request'[q] = "unsent"
    BY DEF TypeOK, UndoHonoured, TimersAgree, ToastsInTime, NotPressedYet
  <2>2. \A q \in undone' : request'[q] = "unsent"
    BY DEF TypeOK, UndoHonoured, NotPressedYet
  <2>3. \A q \in undone', r \in armed' :
          r <= q => msg_of'[r] # msg_of'[q] \/ visit_of'[r] # visit_of'[q]
    BY DEF TypeOK, UndoHonoured, TimersAgree, NotPressedYet
  <2> QED BY <2>1, <2>2, <2>3 DEF UndoHonoured
<1>3. HiddenForAReason' /\ HiddenWhileMounted'
  <2>1. p \in armed /\ Cleared(p) = armed \ {p}
    BY DEF UndoHonoured, TimersAgree
  <2>2. InFlight' = InFlight /\ p \notin InFlight
    BY DEF InFlight, UndoHonoured
  <2> QED BY <2>1, <2>2, HiddenKept DEF TypeOK, HiddenWhileMounted
<1>4. Accounted' /\ NotPressedYet'
  BY DEF TypeOK, Accounted, NotPressedYet, TimersAgree, UndoHonoured
<1>5. TimersAgree'
  BY DEF TypeOK, TimersAgree, UndoHonoured, NotPressedYet
<1>6. ToastsInTime'
  BY DEF TypeOK, ToastsInTime, NotPressedYet
<1> QED BY <1>1, <1>2, <1>3, <1>4, <1>5, <1>6

\* A dismissed toast offers nothing any more.
LEMMA DismissInvariant ==
  ASSUME IInv, NEW p \in Presses, Dismiss(p)
  PROVE  IInv'
<1> USE DEF IInv, Dismiss
<1>1. TypeOK'
  BY DEF TypeOK
<1>2. UndoHonoured'
  BY DEF TypeOK, UndoHonoured, TimersAgree, ToastsInTime, NotPressedYet
<1>3. HiddenForAReason' /\ HiddenWhileMounted'
  BY HiddenKept DEF TypeOK, HiddenWhileMounted, TimersAgree, InFlight
<1>4. Accounted' /\ NotPressedYet'
  BY DEF TypeOK, Accounted, NotPressedYet, TimersAgree, UndoHonoured
<1>5. TimersAgree'
  BY DEF TypeOK, TimersAgree, UndoHonoured, NotPressedYet
<1>6. ToastsInTime'
  BY DEF TypeOK, ToastsInTime, NotPressedYet
<1> QED BY <1>1, <1>2, <1>3, <1>4, <1>5, <1>6

\* An expired toast offers nothing any more.
LEMMA ToastExpiresInvariant ==
  ASSUME IInv, NEW p \in Presses, ToastExpires(p)
  PROVE  IInv'
<1> USE DEF IInv, ToastExpires, ToastDue
<1>1. TypeOK'
  BY DEF TypeOK
<1>2. UndoHonoured'
  BY DEF TypeOK, UndoHonoured, TimersAgree, ToastsInTime, NotPressedYet
<1>3. HiddenForAReason' /\ HiddenWhileMounted'
  BY HiddenKept DEF TypeOK, HiddenWhileMounted, TimersAgree, InFlight
<1>4. Accounted' /\ NotPressedYet'
  BY DEF TypeOK, Accounted, NotPressedYet, TimersAgree, UndoHonoured
<1>5. TimersAgree'
  BY DEF TypeOK, TimersAgree, UndoHonoured, NotPressedYet
<1>6. ToastsInTime'
  BY DEF TypeOK, ToastsInTime, NotPressedYet
<1> QED BY <1>1, <1>2, <1>3, <1>4, <1>5, <1>6

\* The request is sent when no toast offers to undo it any more.
LEMMA CommitDeleteInvariant ==
  ASSUME IInv, NEW p \in Presses, CommitDelete(p)
  PROVE  IInv'
<1> USE DEF IInv, CommitDelete, Forget, CommitDue
<1>1. TypeOK'
  BY DEF TypeOK
<1>2. UndoHonoured'
  <2>1. \A q \in toasts' : q \in armed' /\ request'[q] = "unsent"
    BY DEF TypeOK, UndoHonoured, TimersAgree, ToastsInTime, NotPressedYet
  <2>2. \A q \in undone' : request'[q] = "unsent"
    BY DEF TypeOK, UndoHonoured, NotPressedYet
  <2>3. \A q \in undone', r \in armed' :
          r <= q => msg_of'[r] # msg_of'[q] \/ visit_of'[r] # visit_of'[q]
    BY DEF TypeOK, UndoHonoured, TimersAgree, NotPressedYet
  <2> QED BY <2>1, <2>2, <2>3 DEF UndoHonoured
<1>3. HiddenForAReason' /\ HiddenWhileMounted'
  <2>1. \A q \in armed \cup InFlight : q \in armed' \cup InFlight'
    BY DEF TypeOK, InFlight
  <2> QED BY <2>1, HiddenKept DEF HiddenWhileMounted
<1>4. Accounted' /\ NotPressedYet'
  BY DEF TypeOK, Accounted, NotPressedYet, TimersAgree, UndoHonoured
<1>5. TimersAgree'
  BY DEF TypeOK, TimersAgree, UndoHonoured, NotPressedYet
<1>6. ToastsInTime'
  BY DEF TypeOK, ToastsInTime, NotPressedYet
<1> QED BY <1>1, <1>2, <1>3, <1>4, <1>5, <1>6

\* The answer shows a message again only on the page that hid it.
LEMMA AnsweredInvariant ==
  ASSUME IInv, NEW p \in Presses, Answered(p)
  PROVE  IInv'
<1> USE DEF IInv, Answered, RemovePending
<1>1. TypeOK'
  BY DEF TypeOK
<1>2. UndoHonoured'
  <2>1. \A q \in toasts' : q \in armed' /\ request'[q] = "unsent"
    BY DEF TypeOK, UndoHonoured, TimersAgree, ToastsInTime, NotPressedYet
  <2>2. \A q \in undone' : request'[q] = "unsent"
    BY DEF TypeOK, UndoHonoured, NotPressedYet
  <2>3. \A q \in undone', r \in armed' :
          r <= q => msg_of'[r] # msg_of'[q] \/ visit_of'[r] # visit_of'[q]
    BY DEF TypeOK, UndoHonoured, TimersAgree, NotPressedYet
  <2> QED BY <2>1, <2>2, <2>3 DEF UndoHonoured
<1>3. HiddenForAReason' /\ HiddenWhileMounted'
  <2>1. \A q \in armed \cup InFlight : q # p => q \in armed' \cup InFlight'
    BY DEF TypeOK, InFlight
  <2> QED BY <2>1, HiddenKept DEF TypeOK, HiddenWhileMounted
<1>4. Accounted' /\ NotPressedYet'
  BY DEF TypeOK, Accounted, NotPressedYet, TimersAgree, UndoHonoured
<1>5. TimersAgree'
  BY DEF TypeOK, TimersAgree, UndoHonoured, NotPressedYet
<1>6. ToastsInTime'
  BY DEF TypeOK, ToastsInTime, NotPressedYet
<1> QED BY <1>1, <1>2, <1>3, <1>4, <1>5, <1>6

\* What the server answers concerns a press that was sent.
LEMMA ServerAnswersInvariant ==
  ASSUME IInv, NEW p \in Presses, ServerAnswers(p)
  PROVE  IInv'
<1> USE DEF IInv, ServerAnswers
<1>0. /\ request[p] = "sent" /\ request'[p] \in {"deleted", "refused"}
      /\ request' \in [Presses -> Requests]
      /\ \A q \in Presses : q # p => request'[q] = request[q]
      /\ rows' \subseteq Messages
  BY DEF TypeOK
<1>1. TypeOK'
  BY <1>0 DEF TypeOK
<1>2. UndoHonoured'
  BY <1>0 DEF TypeOK, UndoHonoured, TimersAgree, ToastsInTime, NotPressedYet
<1>3. HiddenForAReason' /\ HiddenWhileMounted'
  BY <1>0, HiddenKept DEF TypeOK, HiddenWhileMounted, TimersAgree, InFlight
<1>4. Accounted' /\ NotPressedYet'
  BY <1>0 DEF TypeOK, Accounted, NotPressedYet, TimersAgree, UndoHonoured
<1>5. TimersAgree'
  BY <1>0 DEF TypeOK, TimersAgree, UndoHonoured, NotPressedYet
<1>6. ToastsInTime'
  BY <1>0 DEF TypeOK, ToastsInTime, NotPressedYet
<1> QED BY <1>1, <1>2, <1>3, <1>4, <1>5, <1>6

\* Nothing changes.
LEMMA StutterInvariant == ASSUME IInv, UNCHANGED vars PROVE IInv'
<1> USE DEF IInv, vars
<1>1. TypeOK'
  BY DEF TypeOK
<1>2. UndoHonoured'
  BY DEF UndoHonoured
<1>3. HiddenForAReason' /\ HiddenWhileMounted'
  BY DEF HiddenForAReason, InFlight, HiddenWhileMounted
<1>4. Accounted' /\ NotPressedYet'
  BY DEF Accounted, NotPressedYet
<1>5. TimersAgree' /\ ToastsInTime'
  BY DEF TimersAgree, ToastsInTime
<1> QED BY <1>1, <1>2, <1>3, <1>4, <1>5

\* Every step keeps the invariant.
LEMMA NextInvariant == IInv /\ [Next]_vars => IInv'
<1> SUFFICES ASSUME IInv, [Next]_vars PROVE IInv'
  OBVIOUS
<1>1. CASE UNCHANGED vars
  BY <1>1, StutterInvariant
<1>2. ASSUME NEW m \in Messages,
             SelectRow(m) \/ OpenNotification(m) \/ HandleDelete(m) \/ RowGoes(m)
      PROVE  IInv'
  BY <1>2, SelectRowInvariant, OpenNotificationInvariant, HandleDeleteInvariant,
     RowGoesInvariant
<1>3. CASE \/ EnterPage \/ LeavePage \/ Deselect \/ Retry \/ DetailArrives
           \/ Tick \/ ListArrives \/ ReloadTab
  BY <1>3, EnterPageInvariant, LeavePageInvariant, DeselectInvariant,
     RetryInvariant, DetailArrivesInvariant, TickInvariant,
     ListArrivesInvariant, ReloadTabInvariant
<1>4. ASSUME NEW p \in Presses,
             \/ Undo(p) \/ Dismiss(p) \/ ToastExpires(p)
             \/ CommitDelete(p) \/ Answered(p) \/ ServerAnswers(p)
      PROVE  IInv'
  BY <1>4, UndoInvariant, DismissInvariant, ToastExpiresInvariant,
     CommitDeleteInvariant, AnsweredInvariant, ServerAnswersInvariant
<1> QED BY <1>1, <1>2, <1>3, <1>4 DEF Next

\* The invariant holds throughout.
LEMMA Invariance == Spec => []IInv
BY InitInvariant, NextInvariant, PTL DEF Spec

\* As long as a toast offers Undo the delete has not been sent, and what is
\* undone is never sent (handleDelete, undoDelete, commitDelete), for every
\* pair of windows with Undo's the shorter one.
THEOREM UndoIsHonoured == Spec => []UndoHonoured
BY Invariance, PTL DEF IInv

\* A message is hidden only while the page that hides it waits for a delete of
\* it (pendingDeleteIds, removePending).
THEOREM HiddenWithReason == Spec => []HiddenForAReason
BY Invariance, PTL DEF IInv

\* Every press that was accepted is under way, sent, undone, or went with its
\* tab: no other way of the page forgets one.
THEOREM PressesAccounted == Spec => []Accounted
BY Invariance, PTL DEF IInv
=============================================================================
