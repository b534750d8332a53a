---------------------------- MODULE OutgoingMail ----------------------------
(***************************************************************************)
(* Replying and forwarding: the compose window, the reply and forward      *)
(* handlers of routes_messages.py, and outgoing_mail.send_smtp_and_save,   *)
(* which hands a mail to the provider and keeps a copy in Sent.  Any call  *)
(* can fail, a call that hands a mail over or stores a copy also after the *)
(* provider did it; the original's row can go, and the server restart.     *)
(* Handlers know the original by the id of its row, and SQLite gives the   *)
(* id of a newest row that was deleted to the next one.                    *)
(*                                                                         *)
(* A draft is one opening of the compose window.  All drafts are about one *)
(* original.  There is one window and one pending mutation per mode, so a  *)
(* draft has one request under way, which may outlive its window.          *)
(***************************************************************************)
EXTENDS Naturals

CONSTANTS Drafts,
          MaxAttempts,    \* bound: times Send is pressed on a draft
          NoDraft         \* the window is closed

ASSUME DraftsAssumption == MaxAttempts \in Nat /\ NoDraft \notin Drafts

VARIABLES
  window,         \* compose: the draft the window shows,
  send_warning,   \*   and whether it shows a warning instead of the form
  mode,           \* what the draft is; "unused" before it is opened
  row,            \* the row with the original's id: is_answered, or gone
  pc,             \* await the draft's handler is suspended in
  route,          \* how the sending account sends
  loaded,         \* is_answered as the handler has read it
  failed,         \* an exception is on its way to the client
  warning,        \* the handler's warning
  outcome,        \* what the browser was told last about the draft
  saved,          \* drafts with a copy in Sent
  delivered,      \* mails handed over, per draft
  returned,       \* ghost: the send call of this attempt has returned
  excused,        \* ghost: attempts whose fate nobody could tell the browser
  misled,         \* ghost: drafts reported as failed by the UPDATE of a row
  taken,          \* ghost: the original's id is another message's
  attempts        \* bound: attempts so far

compose == <<window, send_warning, mode>>
locals == <<route, loaded, failed, warning>>
mail == <<saved, delivered>>
ghosts == <<returned, excused, misled, taken>>
vars == <<compose, row, pc, locals, outcome, mail, ghosts, attempts>>

Modes == {"reply", "forward"}
Routes == {"smtp", "gmail", "graph"}
Flags == {"unanswered", "answered"}
PC == {"idle", "connecting", "ensuring", "submitting", "appending", "logout",
       "committing"}
All(value) == [d \in Drafts |-> value]

Init ==
  /\ window = NoDraft /\ send_warning = FALSE /\ mode = All("unused")
  /\ row \in Flags
  /\ pc = All("idle")
  /\ route = All("smtp") /\ loaded = All("unanswered")
  /\ failed = All(FALSE) /\ warning = All(FALSE)
  /\ outcome = All("none")
  /\ saved = {} /\ delivered = All(0)
  /\ returned = All(FALSE) /\ excused = All(0) /\ attempts = All(0)
  /\ misled = {} /\ taken = FALSE

-----------------------------------------------------------------------------
(* The environment.                                                        *)

\* delete_message or the sync drops the original's row, or a sync pass stores
\* the server's \Answered flag.
RowGoes ==
  /\ row \in Flags
  /\ row' = "gone"
  /\ UNCHANGED <<compose, pc, locals, outcome, mail, ghosts, attempts>>

\* A pass files new mail under the id.  Whoever goes by it, an open window
\* as well as a handler under way, now finds that mail's row.
IdTaken ==
  /\ row = "gone"
  /\ row' \in Flags
  /\ taken' = TRUE
  /\ UNCHANGED <<compose, pc, locals, outcome, mail, returned, excused, misled,
                 attempts>>

RowSynced ==
  /\ row \in Flags
  /\ row' \in Flags
  /\ UNCHANGED <<compose, pc, locals, outcome, mail, ghosts, attempts>>

-----------------------------------------------------------------------------
(* The compose window.                                                     *)

\* openReply, openForward: the window is modal, and opens with a clean form.
OpenCompose(d, what) ==
  /\ window = NoDraft
  /\ mode[d] = "unused"
  /\ window' = d /\ send_warning' = FALSE
  /\ mode' = [mode EXCEPT ![d] = what]
  /\ UNCHANGED <<row, pc, locals, outcome, mail, ghosts, attempts>>

\* Closing, after a confirmation when the draft is dirty; a request under way
\* goes on.
CloseCompose ==
  /\ window # NoDraft
  /\ window' = NoDraft
  /\ UNCHANGED <<send_warning, mode, row, pc, locals, outcome, mail, ghosts,
                 attempts>>

IsPending(what) == \E d \in Drafts : mode[d] = what /\ pc[d] # "idle"

\* Faulty variant: a draft that was sent can be sent again.
CanSendWarned(d) == window = d /\ ~ IsPending(mode[d])
CanSend(d) == window = d /\ ~ send_warning /\ ~ IsPending(mode[d])

\* handleSend: one more attempt.
Attempt(d) ==
  /\ CanSend(d)
  /\ attempts[d] < MaxAttempts
  /\ attempts' = [attempts EXCEPT ![d] = @ + 1]
  /\ returned' = [returned EXCEPT ![d] = FALSE]

\* The handler up to its first await on the provider.  Gmail saves what it
\* submits and needs no IMAP connection.
HandleSend(d, via) ==
  /\ Attempt(d)
  /\ row \in Flags
  /\ pc' = [pc EXCEPT ![d] = IF via = "gmail" THEN "submitting" ELSE "connecting"]
  /\ route' = [route EXCEPT ![d] = via]
  /\ loaded' = [loaded EXCEPT ![d] = row]
  /\ failed' = [failed EXCEPT ![d] = FALSE]
  /\ warning' = [warning EXCEPT ![d] = FALSE]
  /\ outcome' = [outcome EXCEPT ![d] = "none"]
  /\ UNCHANGED <<compose, row, mail, excused, misled, taken>>

\* 404: no row has the original's id, or the account to send from is gone.
NotFound(d) ==
  /\ Attempt(d)
  /\ outcome' = [outcome EXCEPT ![d] = "error"]
  /\ UNCHANGED <<compose, row, pc, locals, mail, excused, misled, taken>>

\* The answer reaches the continuation of handleSend, which knows the window
\* and not the draft it was called for: after success it closes whatever is
\* shown, or shows the warning there.
Succeed(d) ==
  /\ pc' = [pc EXCEPT ![d] = "idle"]
  /\ outcome' = [outcome EXCEPT ![d] = "ok"]
  /\ IF warning[d] THEN send_warning' = TRUE /\ window' = window
     ELSE window' = NoDraft /\ send_warning' = send_warning
  /\ UNCHANGED mode

Fail(d, how) ==
  /\ pc' = [pc EXCEPT ![d] = "idle"]
  /\ outcome' = [outcome EXCEPT ![d] = how]
  /\ UNCHANGED compose

-----------------------------------------------------------------------------
(* The handler.                                                            *)

\* A call before submission raises.  Without an IMAP connection there is
\* nothing to close.
Raise(d) ==
  IF pc[d] = "connecting" \/ route[d] # "smtp"
  THEN Fail(d, "error") /\ UNCHANGED failed
  ELSE /\ pc' = [pc EXCEPT ![d] = "logout"]
       /\ failed' = [failed EXCEPT ![d] = TRUE]
       /\ UNCHANGED <<compose, outcome>>

CallFails(d) ==
  /\ pc[d] \in {"connecting", "ensuring"}
  /\ Raise(d)
  /\ UNCHANGED <<row, route, loaded, warning, mail, ghosts, attempts>>

\* get_graph_token or open_imap_connection, then ensure_sent_folder.
Connects(d) ==
  /\ pc[d] = "connecting"
  /\ pc' = [pc EXCEPT ![d] = IF route[d] = "smtp" THEN "ensuring" ELSE "submitting"]
  /\ UNCHANGED <<compose, row, locals, outcome, mail, ghosts, attempts>>

AfterEnsure == "submitting"

EnsuresSent(d) ==
  /\ pc[d] = "ensuring"
  /\ pc' = [pc EXCEPT ![d] = AfterEnsure]
  /\ UNCHANGED <<compose, row, locals, outcome, mail, ghosts, attempts>>

\* Gmail and Graph file the mail themselves, another provider may.
HandOver(d) ==
  /\ delivered' = [delivered EXCEPT ![d] = @ + 1]
  /\ \/ saved' = saved \cup {d}
     \/ route[d] = "smtp" /\ saved' = saved

Submits(d) ==
  /\ pc[d] = "submitting"
  /\ HandOver(d)
  /\ returned' = [returned EXCEPT ![d] = TRUE]
  /\ pc' = [pc EXCEPT ![d] = IF route[d] = "smtp" THEN "appending" ELSE "committing"]
  /\ UNCHANGED <<compose, row, locals, outcome, excused, misled, taken, attempts>>

SubmitRaises(d) ==
  /\ pc[d] = "submitting"
  /\ Raise(d)
  /\ \/ UNCHANGED <<mail, excused>>
     \/ HandOver(d) /\ excused' = [excused EXCEPT ![d] = @ + 1]
  /\ UNCHANGED <<row, route, loaded, warning, returned, misled, taken, attempts>>

\* append_sent_message: a copy that is visible is not appended again.  SEARCH
\* or APPEND may fail, with the copy stored or not.
\* Faulty variant: a failure to save the copy is only logged.
WarnsNever(ok) == FALSE
Warns(ok) == ~ ok

\* Faulty variant: the exception reaches the caller.
AfterAppendRaises(d, ok) == ~ ok
AfterAppend(d, ok) == FALSE

AppendsSent(d) ==
  /\ pc[d] = "appending"
  /\ \E ok \in BOOLEAN :
       /\ \/ saved' = saved \cup {d}
          \/ ~ ok /\ saved' = saved
       /\ warning' = [warning EXCEPT ![d] = Warns(ok)]
       /\ failed' = [failed EXCEPT ![d] = AfterAppend(d, ok)]
  /\ pc' = [pc EXCEPT ![d] = "logout"]
  /\ UNCHANGED <<compose, row, route, loaded, outcome, delivered, ghosts, attempts>>

\* A failed logout is only logged.
Logout(d) ==
  /\ pc[d] = "logout"
  /\ IF failed[d] THEN Fail(d, "error")
     ELSE pc' = [pc EXCEPT ![d] = "committing"] /\ UNCHANGED <<compose, outcome>>
  /\ UNCHANGED <<row, locals, mail, ghosts, attempts>>

\* reply sets is_answered, an UPDATE by id unless it was set when loaded; when
\* no row has the id the UPDATE raises StaleDataError.
Updates(d) == mode[d] = "reply" /\ loaded[d] = "unanswered"

Commit(d) ==
  /\ pc[d] = "committing"
  /\ Updates(d) => row \in Flags
  /\ row' = IF Updates(d) THEN "answered" ELSE row
  /\ Succeed(d)
  /\ UNCHANGED <<locals, mail, ghosts, attempts>>

CommitFails(d) ==
  /\ pc[d] = "committing"
  /\ Updates(d) /\ row = "gone"
  /\ Fail(d, "error")
  /\ misled' = misled \cup {d}
  /\ UNCHANGED <<row, locals, mail, returned, excused, taken, attempts>>

\* The server restarts, or the browser's connection breaks; in that case the
\* handler goes on unheard and may still hand the mail over.
ConnectionLost(d) ==
  /\ pc[d] # "idle"
  /\ Fail(d, "lost")
  /\ \/ /\ UNCHANGED mail
        /\ excused' = IF returned[d] THEN [excused EXCEPT ![d] = @ + 1] ELSE excused
     \/ /\ pc[d] \in {"connecting", "ensuring", "submitting"}
        /\ HandOver(d)
        /\ excused' = [excused EXCEPT ![d] = @ + 1]
  /\ UNCHANGED <<row, locals, returned, misled, taken, attempts>>

-----------------------------------------------------------------------------
Next ==
  \/ RowGoes
  \/ IdTaken
  \/ RowSynced
  \/ CloseCompose
  \/ \E d \in Drafts :
       \/ \E what \in Modes : OpenCompose(d, what)
       \/ \E via \in Routes : HandleSend(d, via)
       \/ NotFound(d)
       \/ CallFails(d)
       \/ Connects(d)
       \/ EnsuresSent(d)
       \/ Submits(d)
       \/ SubmitRaises(d)
       \/ AppendsSent(d)
       \/ Logout(d)
       \/ Commit(d)
       \/ CommitFails(d)
       \/ ConnectionLost(d)

Spec == Init /\ [][Next]_vars

-----------------------------------------------------------------------------
TypeOK ==
  /\ window \in Drafts \cup {NoDraft}
  /\ send_warning \in BOOLEAN
  /\ mode \in [Drafts -> Modes \cup {"unused"}]
  /\ row \in Flags \cup {"gone"}
  /\ pc \in [Drafts -> PC]
  /\ route \in [Drafts -> Routes]
  /\ loaded \in [Drafts -> Flags] /\ failed \in [Drafts -> BOOLEAN]
  /\ warning \in [Drafts -> BOOLEAN]
  /\ outcome \in [Drafts -> {"none", "ok", "error", "lost"}]
  /\ saved \in SUBSET {d \in Drafts : delivered[d] > 0}
  /\ delivered \in [Drafts -> 0 .. MaxAttempts]
  /\ returned \in [Drafts -> BOOLEAN]
  /\ excused \in [Drafts -> 0 .. MaxAttempts]
  /\ misled \in SUBSET Drafts /\ taken \in BOOLEAN
  /\ attempts \in [Drafts -> 0 .. MaxAttempts]

\* The row of a reply's original has gone, be its id another message's by now.
RowLost(d) == mode[d] = "reply" /\ (row = "gone" \/ taken)

\* "After submission, never report a send failure": a mail whose submission
\* returned is not reported as failed, with the one exception of a reply whose
\* original has no row any more.
SentReported ==
  \A d \in Drafts : returned[d] /\ outcome[d] = "error" => RowLost(d)

\* Pressing Send again never delivers a mail again, unless the provider or the
\* connection has left an earlier attempt in doubt, or that exception has been
\* followed by new mail under the original's id: then a press that should end
\* in 404 finds a row.
SentOnce ==
  \A d \in Drafts : delivered[d] <= 1 + excused[d] \/ (d \in misled /\ taken)

\* A send reported without a warning has left a copy in Sent.
CopyKept ==
  \A d \in Drafts : outcome[d] = "ok" /\ ~ warning[d] => d \in saved
=============================================================================
