----------------------------- MODULE DeleteUndo -----------------------------
(***************************************************************************)
(* Deleting a message in the browser: InboxPage hides the message at once, *)
(* offers Undo in a toast and sends the DELETE request from a timer of the *)
(* window.  The set of hidden messages and the map of timers belong to one *)
(* mounted page; the timers, the toasts, the selection and the cached list *)
(* outlive it, and everything but the server goes with the tab.            *)
(*                                                                         *)
(* A visit is one mounting of InboxPage, a press one use of Delete that    *)
(* was not ignored.  Presses are numbered as they happen.  Time passes in  *)
(* ticks, and a timer that is due fires before the next one.               *)
(***************************************************************************)
EXTENDS Naturals

CONSTANTS Messages,
          UNDO_WINDOW,     \* age at which a toast goes away, in ticks
          DELETE_COMMIT,   \* age at which the DELETE is sent
          MaxVisits,       \* bound: mountings of InboxPage
          MaxPresses,      \* bound: uses of Delete
          NoMessage        \* nothing is selected

Presses == 1 .. MaxPresses
Visits == 1 .. MaxVisits
NoPress == 0

ASSUME DeleteUndoAssumption ==
  /\ NoMessage \notin Messages
  /\ MaxVisits \in Nat \ {0} /\ MaxPresses \in Nat
  /\ UNDO_WINDOW \in Nat /\ DELETE_COMMIT \in Nat
  /\ UNDO_WINDOW < DELETE_COMMIT

VARIABLES
  rows,                \* server: the messages it has
  listed,              \* cache: the message list as last fetched
  visit, mounted,      \* the visit, and whether its page is still there
  pending_delete_ids,  \* messages hidden by the visit
  delete_timers,       \* per visit: the press whose timer a message has
  selected_message_id, \* uiStore
  pane,                \* what the reading pane shows of it
  msg_of, visit_of,    \* what was pressed where
  age,                 \* ticks since the press
  armed,               \* presses whose window timer runs
  toasts,              \* presses whose toast is shown
  request,             \* the DELETE of a press
  undone,              \* ghost: presses taken back
  forgotten,           \* ghost: presses whose timer went with the tab
  used                 \* bound: presses so far

page == <<visit, mounted, pending_delete_ids>>
view == <<selected_message_id, pane>>
press == <<msg_of, visit_of, used>>
timers == <<age, armed, toasts>>
ghosts == <<undone, forgotten>>
vars == <<rows, listed, page, delete_timers, view, press, timers, request, ghosts>>

Panes == {"nothing", "loading", "detail", "error"}
\* not sent; at the server; answered there, with the answer on its way; over
Requests == {"unsent", "sent", "deleted", "refused", "over"}
InFlight == {p \in Presses : request[p] \in {"sent", "deleted", "refused"}}

Init ==
  /\ rows = Messages /\ listed = Messages
  /\ visit = 1 /\ mounted = TRUE /\ pending_delete_ids = {}
  /\ delete_timers = [v \in Visits |-> [m \in Messages |-> NoPress]]
  /\ selected_message_id = NoMessage /\ pane = "nothing"
  /\ msg_of = [p \in Presses |-> NoMessage] /\ visit_of = [p \in Presses |-> 1]
  /\ used = 0
  /\ age = [p \in Presses |-> 0] /\ armed = {} /\ toasts = {}
  /\ request = [p \in Presses |-> "unsent"]
  /\ undone = {} /\ forgotten = {}

-----------------------------------------------------------------------------
(* The inbox page.                                                         *)

Visible == listed \ pending_delete_ids

\* What the reading pane offers in each of its states.
PaneControls ==
  CASE pane = "detail" -> {"back", "attachment", "reply", "forward", "delete"}
    [] pane = "error" -> {"retry", "back"}
    [] OTHER -> {}

\* What a row of the list offers; the Delete key works on an open row too.
RowControls(m) == IF m \in Visible THEN {"mark", "open", "delete"} ELSE {}

\* Select, by a row of the list or by a notification, which also opens the
\* page.  The detail may be cached from an earlier opening.
Select(m) ==
  /\ selected_message_id' = m
  /\ pane' \in {"loading", "detail"}

SelectRow(m) ==
  /\ mounted /\ "open" \in RowControls(m)
  /\ Select(m)
  /\ UNCHANGED <<rows, listed, page, delete_timers, press, timers, request, ghosts>>

\* A page that is mounted hides nothing and knows of no timer.
Mount ==
  /\ visit < MaxVisits
  /\ visit' = visit + 1 /\ mounted' = TRUE
  /\ pending_delete_ids' = {}

EnterPage ==
  /\ ~ mounted
  /\ Mount
  /\ UNCHANGED <<rows, listed, delete_timers, view, press, timers, request, ghosts>>

OpenNotification(m) ==
  /\ IF mounted THEN UNCHANGED page ELSE Mount
  /\ Select(m)
  /\ UNCHANGED <<rows, listed, delete_timers, press, timers, request, ghosts>>

\* The link to the settings.
\* Faulty variant: unmounting clears the timers of the page.
TimersLeftNone == {}
TimersLeft == armed

LeavePage ==
  /\ mounted
  /\ mounted' = FALSE /\ pending_delete_ids' = {}
  /\ armed' = TimersLeft
  /\ UNCHANGED <<rows, listed, visit, delete_timers, view, press, age, toasts,
                 request, ghosts>>

Deselect ==
  /\ mounted /\ "back" \in PaneControls
  /\ selected_message_id' = NoMessage /\ pane' = "nothing"
  /\ UNCHANGED <<rows, listed, page, delete_timers, press, timers, request, ghosts>>

Retry ==
  /\ mounted /\ "retry" \in PaneControls
  /\ pane' = "loading"
  /\ UNCHANGED <<rows, listed, page, delete_timers, selected_message_id, press,
                 timers, request, ghosts>>

\* useMessage: the detail arrives, or a first fetch or a refetch fails.
DetailArrives ==
  /\ mounted /\ selected_message_id # NoMessage
  /\ \/ pane' = "detail" /\ selected_message_id \in rows
     \/ pane' = "error"
  /\ UNCHANGED <<rows, listed, page, delete_timers, selected_message_id, press,
                 timers, request, ghosts>>

\* Both the list and the reading pane are wired to handleDelete.
OffersDelete(m) ==
  /\ mounted
  /\ \/ "delete" \in RowControls(m)
     \/ m = selected_message_id /\ "delete" \in PaneControls

\* handleDelete, unless the page has a timer for the message.
\* Faulty variant: it does not look.
AcceptsAlways(m) == TRUE
Accepts(m) == delete_timers[visit][m] = NoPress

HandleDelete(m) ==
  /\ used < MaxPresses
  /\ OffersDelete(m)
  /\ Accepts(m)
  /\ LET p == used + 1 IN
       /\ used' = p
       /\ msg_of' = [msg_of EXCEPT ![p] = m]
       /\ visit_of' = [visit_of EXCEPT ![p] = visit]
       /\ armed' = armed \cup {p}
       /\ toasts' = toasts \cup {p}
       /\ delete_timers' = [delete_timers EXCEPT ![visit][m] = p]
  /\ pending_delete_ids' = pending_delete_ids \cup {m}
  /\ IF selected_message_id = m
     THEN selected_message_id' = NoMessage /\ pane' = "nothing"
     ELSE UNCHANGED view
  /\ UNCHANGED <<rows, listed, visit, mounted, age, request, ghosts>>

\* removePending of the page the press was made on; it does nothing when that
\* page is gone.
\* Faulty variant: a failed DELETE leaves the message hidden.
RemovePendingNever(p) == UNCHANGED pending_delete_ids
RemovePending(p) ==
  pending_delete_ids' = IF mounted /\ visit_of[p] = visit
                        THEN pending_delete_ids \ {msg_of[p]}
                        ELSE pending_delete_ids

Forget(p) == delete_timers' = [delete_timers EXCEPT ![visit_of[p]][msg_of[p]] = NoPress]

\* undoDelete clears the timer the map has for the message.
\* Faulty variant: it only shows the message again.
ClearedNone(p) == armed
Cleared(p) == armed \ {delete_timers[visit_of[p]][msg_of[p]]}

Undo(p) ==
  /\ p \in toasts
  /\ armed' = Cleared(p)
  /\ Forget(p)
  /\ RemovePending(p)
  /\ toasts' = toasts \ {p}
  /\ undone' = undone \cup {p}
  /\ UNCHANGED <<rows, listed, visit, mounted, view, press, age, request, forgotten>>

Dismiss(p) ==
  /\ p \in toasts
  /\ toasts' = toasts \ {p}
  /\ UNCHANGED <<rows, listed, page, delete_timers, view, press, age, armed,
                 request, ghosts>>

-----------------------------------------------------------------------------
(* The timers.                                                             *)

ToastDue(p) == p \in toasts /\ age[p] = UNDO_WINDOW
CommitDue(p) == p \in armed /\ age[p] = DELETE_COMMIT

Tick ==
  /\ armed \cup toasts # {}
  /\ \A p \in Presses : ~ ToastDue(p) /\ ~ CommitDue(p)
  /\ age' = [p \in Presses |-> IF p \in armed \cup toasts THEN age[p] + 1 ELSE age[p]]
  /\ UNCHANGED <<rows, listed, page, delete_timers, view, press, armed, toasts,
                 request, ghosts>>

ToastExpires(p) ==
  /\ ToastDue(p)
  /\ toasts' = toasts \ {p}
  /\ UNCHANGED <<rows, listed, page, delete_timers, view, press, age, armed,
                 request, ghosts>>

\* commitDelete up to its await.
CommitDelete(p) ==
  /\ CommitDue(p)
  /\ armed' = armed \ {p}
  /\ Forget(p)
  /\ request' = [request EXCEPT ![p] = "sent"]
  /\ UNCHANGED <<rows, listed, page, view, press, age, toasts, ghosts>>

\* The answer, or the loss of the connection, reaches commitDelete: a success
\* has the list fetched again, which is not awaited.
Answered(p) ==
  /\ request[p] \in {"deleted", "refused"}
  /\ request' = [request EXCEPT ![p] = "over"]
  /\ RemovePending(p)
  /\ UNCHANGED <<rows, listed, visit, mounted, delete_timers, view, press, timers,
                 ghosts>>

ListArrives ==
  /\ listed # rows
  /\ listed' = rows
  /\ UNCHANGED <<rows, page, delete_timers, view, press, timers, request, ghosts>>

-----------------------------------------------------------------------------
(* The server and the tab.                                                 *)

\* delete_message refuses an unknown row; it may also fail, and its answer may
\* be lost.
ServerAnswers(p) ==
  /\ request[p] = "sent"
  /\ \/ /\ msg_of[p] \in rows
        /\ rows' = rows \ {msg_of[p]}
        /\ \E answer \in {"deleted", "refused"} :
             request' = [request EXCEPT ![p] = answer]
     \/ rows' = rows /\ request' = [request EXCEPT ![p] = "refused"]
  /\ UNCHANGED <<listed, page, delete_timers, view, press, timers, ghosts>>

\* Deleted elsewhere, or by another tab.
RowGoes(m) ==
  /\ m \in rows
  /\ rows' = rows \ {m}
  /\ UNCHANGED <<listed, page, delete_timers, view, press, timers, request, ghosts>>

\* Closing or reloading the tab forgets what it has not sent.
ReloadTab ==
  /\ visit < MaxVisits
  /\ visit' = visit + 1 /\ mounted' = TRUE
  /\ pending_delete_ids' = {} /\ armed' = {} /\ toasts' = {}
  /\ selected_message_id' = NoMessage /\ pane' = "nothing"
  /\ delete_timers' = [v \in Visits |-> [m \in Messages |-> NoPress]]
  /\ listed' = rows
  /\ forgotten' = forgotten \cup armed
  /\ UNCHANGED <<rows, press, age, request, undone>>

-----------------------------------------------------------------------------
Next ==
  \/ \E m \in Messages : \/ SelectRow(m) \/ OpenNotification(m)
                         \/ HandleDelete(m) \/ RowGoes(m)
  \/ EnterPage \/ LeavePage \/ Deselect \/ Retry \/ DetailArrives
  \/ Tick \/ ListArrives \/ ReloadTab
  \/ \E p \in Presses : \/ Undo(p) \/ Dismiss(p) \/ ToastExpires(p)
                        \/ CommitDelete(p) \/ Answered(p) \/ ServerAnswers(p)

Spec == Init /\ [][Next]_vars

\* Timers fire, and a request is answered or gives up.
Fairness ==
  /\ WF_vars(Tick)
  /\ \A p \in Presses : /\ WF_vars(ToastExpires(p)) /\ WF_vars(CommitDelete(p))
                        /\ WF_vars(ServerAnswers(p)) /\ WF_vars(Answered(p))

FairSpec == Spec /\ Fairness

-----------------------------------------------------------------------------
TypeOK ==
  /\ rows \subseteq Messages /\ listed \subseteq Messages
  /\ visit \in Visits /\ mounted \in BOOLEAN
  /\ pending_delete_ids \subseteq Messages
  /\ delete_timers \in [Visits -> [Messages -> Presses \cup {NoPress}]]
  /\ selected_message_id \in Messages \cup {NoMessage} /\ pane \in Panes
  /\ msg_of \in [Presses -> Messages \cup {NoMessage}]
  /\ visit_of \in [Presses -> Visits]
  /\ used \in 0 .. MaxPresses
  /\ age \in [Presses -> 0 .. DELETE_COMMIT]
  /\ armed \subseteq Presses /\ toasts \subseteq Presses
  /\ request \in [Presses -> Requests]
  /\ undone \subseteq Presses /\ forgotten \subseteq Presses

\* Undo keeps its promise, whichever way the clicks fall between the two timers
\* and whichever page is shown: as long as a toast offers it, the delete has not
\* been sent; and once it is used, no timer that was set on the same page for
\* the same message up to then is left to delete it.
UndoHonoured ==
  /\ \A p \in toasts : p \in armed /\ request[p] = "unsent"
  /\ \A p \in undone :
       /\ request[p] = "unsent"
       /\ \A q \in armed : q <= p => msg_of[q] # msg_of[p] \/ visit_of[q] # visit_of[p]

\* A message is hidden only as long as the page that hides it has a delete of
\* it to wait for; nothing stays hidden after a failure, an Undo or a second
\* Delete.
HiddenForAReason ==
  \A m \in pending_delete_ids :
    \E p \in armed \cup InFlight : msg_of[p] = m /\ visit_of[p] = visit

\* A delete that is not undone is carried out, also after the page is left;
\* only the end of the tab forgets it.
DeletesCarriedOut ==
  \A p \in Presses :
    p \in armed ~> request[p] = "over" \/ p \in undone \/ p \in forgotten
=============================================================================
