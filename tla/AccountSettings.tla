-------------------------- MODULE AccountSettings --------------------------
(***************************************************************************)
(* The settings page and the handlers behind it: the dialog that adds and  *)
(* edits accounts, the Microsoft sign-in by device code, which the browser *)
(* polls for and the server keeps in memory, the removal of accounts, and  *)
(* the choice of the folders that belong to the inbox.                     *)
(*                                                                         *)
(* The dialog is one component for all accounts: an answer acts on what it *)
(* shows by then.  The sign-in is a component inside it, and its state is  *)
(* gone when it is no longer shown.                                        *)
(***************************************************************************)
EXTENDS Naturals, FiniteSets

CONSTANTS Originals,     \* accounts there are at first
          Microsofts,    \* those of them that sign in at Microsoft
          Folders,       \* folders of one account
          MaxAccounts,   \* bound: accounts ever
          MaxFlows,      \* bound: sign-ins started
          MaxSteps,      \* bound: dialogs opened and folders toggled
          MaxUpsets      \* bound: polls lost, or 0 for no removal either

Ids == 1 .. MaxAccounts
Flows == 1 .. MaxFlows

ASSUME AccountSettingsAssumption ==
  /\ MaxAccounts \in Nat /\ MaxFlows \in Nat /\ MaxSteps \in Nat /\ MaxUpsets \in Nat
  /\ Cardinality(Originals) \in Nat
  /\ Cardinality(Originals) + MaxFlows <= MaxAccounts
  /\ Originals = 1 .. Cardinality(Originals) /\ Microsofts \subseteq Originals

\* A setting is known by the account it is of: the account it was loaded from,
\* or was typed for.
Empty == 0
Fresh == MaxAccounts + 1       \* typed for a new account
NoAccount == MaxAccounts + 1   \* the dialog is for a new account
NoFlow == 0

VARIABLES
  accounts, id,               \* server: the rows, and their primary keys
  made,                       \* ghost: accounts made so far
  name, password, signed_by,  \* server: of whom, and the sign-in in use
  _flows, _pending_metadata,  \* server: sign-ins under way, and what they are for
  modalOpen, editing,         \* SettingsAccountsPage: the dialog
  tab, form, createdId,       \* AccountEditorModal
  creating, updating,         \* its two requests
  removing,                   \* AccountRow: the key whose removal is asked for
  link,                       \* OAuthMicrosoftLinkFlow and its poll query
  starting,                   \* its request for a code
  tries,                      \* the two tries of a poll
  inbox,                      \* server: the folders chosen
  picker,                     \* FolderPicker: the folders as it knows them
  choosing, listing,          \* its request, and the fetch of its list
  purpose,                    \* ghost: what a sign-in was for
  chosen, doubted,            \* ghosts: what was chosen; what a failed choice was of
  hasty,                      \* ghost: a choice was made from an outdated list
  steps, upsets               \* bounds

rows == <<accounts, id, made, name, password, signed_by>>
signins == <<_flows, _pending_metadata>>
dialog == <<modalOpen, editing, tab, form, createdId>>
saves == <<creating, updating, removing>>
folders == <<inbox, picker, choosing, listing, chosen, doubted, hasty>>
bounds == <<steps, upsets>>
vars == <<rows, signins, dialog, saves, link, starting, tries, folders,
          purpose, bounds>>

NoLink == [flow |-> NoFlow, start |-> FALSE, told |-> "nothing", awaited |-> 0,
           stalled |-> FALSE,
           unheard |-> FALSE]   \* ghost: the poll that took the flow failed
NoTry == [stage |-> "none", flow |-> NoFlow, meta |-> Empty, answer |-> "none"]
NoSave == [stage |-> "none", of |-> Empty, name |-> Empty, password |-> Empty]
NoChoice == [stage |-> "none", list |-> {}, named |-> {}, of |-> {}]
NoListing == [stage |-> "none", list |-> {},
              owed |-> FALSE]   \* ghost: asked for after a choice
EmptyForm == [name |-> Empty, password |-> Empty]

Init ==
  /\ accounts = Originals /\ made = Cardinality(Originals) /\ id = [a \in Ids |-> a]
  /\ name = [a \in Ids |-> a] /\ password = [a \in Ids |-> a]
  /\ signed_by = [a \in Ids |-> NoFlow]
  /\ _flows = [f \in Flows |-> "none"] /\ _pending_metadata = [f \in Flows |-> Empty]
  /\ modalOpen = FALSE /\ editing = NoAccount
  /\ tab = "basic" /\ form = EmptyForm /\ createdId = FALSE
  /\ creating = NoSave /\ updating = NoSave /\ removing = Empty
  /\ link = NoLink /\ starting = Empty /\ tries = [t \in 1 .. 2 |-> NoTry]
  /\ inbox = {} /\ picker = {} /\ chosen = {} /\ doubted = {} /\ hasty = FALSE
  /\ choosing = NoChoice /\ listing = NoListing
  /\ purpose = [f \in Flows |-> Empty]
  /\ steps = 0 /\ upsets = 0

-----------------------------------------------------------------------------
(* The dialog.                                                             *)

isEdit == editing # NoAccount

\* What the dialog shows: the note that an account was added, the sign-in
\* (below the settings of a Microsoft account), or the form.
Shows ==
  CASE ~ modalOpen -> "nothing"
    [] modalOpen /\ createdId -> "added"
    [] modalOpen /\ ~ createdId /\ editing \in Microsofts -> "account and sign-in"
    [] modalOpen /\ ~ createdId /\ ~ isEdit /\ tab = "microsoft" -> "sign-in"
    [] OTHER -> "form"

LinkShown == Shows \in {"account and sign-in", "sign-in"}
FormShown == Shows \in {"form", "account and sign-in"}

\* The effect of an opened dialog loads the form.
\* Faulty variant: only from an account that is edited.
FormForEdited(a) == IF a = NoAccount THEN form ELSE [name |-> name[a], password |-> Empty]
FormFor(a) == IF a = NoAccount THEN EmptyForm ELSE [name |-> name[a], password |-> Empty]

\* Dialog and folders share no state; as a bound, the dialog is not used after
\* a choice of folders, nor a choice made after the dialog has changed something.
DialogUnused ==
  /\ accounts = Originals /\ dialog = <<FALSE, NoAccount, "basic", EmptyForm, FALSE>>
  /\ saves = <<NoSave, NoSave, Empty>> /\ starting = Empty
  /\ \A f \in Flows : purpose[f] = Empty
FoldersUnused == folders = <<{}, {}, NoChoice, NoListing, {}, {}, FALSE>>

\* openCreate, and openEdit of an account of the list (one there was at first).
Open(a) ==
  /\ ~ modalOpen /\ steps < MaxSteps /\ FoldersUnused
  /\ steps' = steps + 1
  /\ modalOpen' = TRUE /\ editing' = a
  /\ tab' = "basic" /\ form' = FormFor(a) /\ createdId' = FALSE
  /\ UNCHANGED <<rows, signins, saves, link, starting, tries, folders, purpose,
                 upsets>>

\* handleModalOpenChange(false)
CloseDialog ==
  /\ modalOpen' = FALSE /\ editing' = NoAccount
  /\ link' = NoLink

Close ==
  /\ modalOpen
  /\ CloseDialog
  /\ UNCHANGED <<rows, signins, tab, form, createdId, saves, starting, tries, folders,
                 purpose, bounds>>

SwitchTab ==
  /\ Shows \in {"form", "sign-in"} /\ ~ isEdit
  /\ tab' = IF tab = "basic" THEN "microsoft" ELSE "basic"
  /\ link' = NoLink
  /\ UNCHANGED <<rows, signins, modalOpen, editing, form, createdId, saves, starting,
                 tries, folders, purpose, bounds>>

Mine == IF isEdit THEN editing ELSE Fresh

\* A Microsoft account has no password field.
Type ==
  /\ FormShown
  /\ \/ form' = [form EXCEPT !.name = Mine]
     \/ Shows = "form" /\ form' = [form EXCEPT !.password = Mine]
  /\ form' # form
  /\ UNCHANGED <<rows, signins, modalOpen, editing, tab, createdId, saves, link,
                 starting, tries, folders, purpose, bounds>>

\* handleCreate, handleUpdateBasic and handleUpdateOAuthMeta up to their
\* await.  An empty password is not part of an update.
Save ==
  /\ FormShown /\ form.name # Empty
  /\ LET request == [stage |-> "sent", of |-> editing, name |-> form.name,
                     password |-> form.password] IN
       IF isEdit
       THEN /\ updating = NoSave
            /\ updating' = request /\ UNCHANGED <<creating, removing>>
       ELSE /\ creating = NoSave /\ made < MaxAccounts - MaxFlows
            /\ creating' = request /\ UNCHANGED <<updating, removing>>
  /\ UNCHANGED <<rows, signins, dialog, link, starting, tries, folders, purpose, bounds>>

\* The account that has the primary key i, if there is one.
Row(i) == {a \in accounts : id[a] = i}

\* update_account: refused for a row that is gone, or when the commit fails.
ServerUpdates ==
  /\ updating.stage = "sent"
  /\ \/ \E a \in Row(updating.of) :
            /\ name' = [name EXCEPT ![a] = updating.name]
            /\ password' = [password EXCEPT ![a] = IF updating.password = Empty THEN @
                                                   ELSE updating.password]
            /\ updating' = [updating EXCEPT !.stage = "done"]
     \/ updating' = [updating EXCEPT !.stage = "refused"] /\ UNCHANGED <<name, password>>
  /\ UNCHANGED <<accounts, id, made, signed_by, signins, dialog, creating, removing, link,
                 starting, tries, folders, purpose, bounds>>

\* SQLite gives a new row the largest key there is plus one, so that the key of
\* a removed account may come back.
NextId == 1 + CHOOSE i \in 0 .. MaxAccounts :
                i \in {id[a] : a \in accounts} \cup {0} /\ \A a \in accounts : id[a] <= i

Insert(n, p, f) ==
  LET a == made + 1 IN
    /\ accounts' = accounts \cup {a} /\ made' = a
    /\ id' = [id EXCEPT ![a] = NextId]
    /\ name' = [name EXCEPT ![a] = n]
    /\ password' = [password EXCEPT ![a] = p]
    /\ signed_by' = [signed_by EXCEPT ![a] = f]

\* create_account commits the account, then its folder; either may fail.
ServerCreates ==
  /\ creating.stage = "sent"
  /\ \/ /\ made < MaxAccounts
        /\ Insert(creating.name, creating.password, NoFlow)
        /\ \E stage \in {"done", "refused"} : creating' = [creating EXCEPT !.stage = stage]
     \/ creating' = [creating EXCEPT !.stage = "refused"] /\ UNCHANGED rows
  /\ UNCHANGED <<signins, dialog, updating, removing, link, starting, tries, folders,
                 purpose, bounds>>

\* A success closes the dialog, or makes it tell that an account was added,
\* whatever it is open for; a failure leaves it.
UpdateAnswered ==
  /\ updating.stage \in {"done", "refused"}
  /\ updating' = NoSave
  /\ IF updating.stage = "done" THEN CloseDialog
     ELSE UNCHANGED <<modalOpen, editing, link>>
  /\ UNCHANGED <<rows, signins, tab, form, createdId, creating, removing, starting, tries,
                 folders, purpose, bounds>>

CreateAnswered ==
  /\ creating.stage \in {"done", "refused"}
  /\ creating' = NoSave
  /\ IF creating.stage = "done" THEN createdId' = TRUE /\ link' = NoLink
     ELSE UNCHANGED <<createdId, link>>
  /\ UNCHANGED <<rows, signins, modalOpen, editing, tab, form, updating, removing, starting,
                 tries, folders, purpose, bounds>>

\* As a bound, one removal takes the place of all the lost polls.
RemovesOne == upsets = 0 /\ upsets' = MaxUpsets

\* The removal of an account of the list is confirmed.
ConfirmRemove(a) ==
  /\ ~ modalOpen /\ a \in accounts \cap Originals
  /\ RemovesOne
  /\ removing' = id[a]
  /\ UNCHANGED <<rows, signins, dialog, creating, updating, link, starting, tries, folders,
                 purpose, steps>>

\* delete_account of this tab's request: by key, whatever row that is by now.
ServerRemoves ==
  /\ removing # Empty
  /\ removing' = Empty
  /\ accounts' = accounts \ Row(removing)
  /\ UNCHANGED <<id, made, name, password, signed_by, signins, dialog, creating, updating,
                 link, starting, tries, folders, purpose, bounds>>

\* delete_account of another tab's request.
RemovedElsewhere(a) ==
  /\ a \in accounts
  /\ RemovesOne
  /\ accounts' = accounts \ {a}
  /\ UNCHANGED <<id, made, name, password, signed_by, signins, dialog, saves, link,
                 starting, tries, folders, purpose, steps>>

-----------------------------------------------------------------------------
(* Signing in at Microsoft.                                                *)

\* start.mutate, offered until there is a flow.
Start ==
  /\ LinkShown /\ link.flow = NoFlow /\ ~ link.start
  /\ starting = Empty /\ \E f \in Flows : purpose[f] = Empty
  /\ starting' = editing
  /\ link' = [link EXCEPT !.start = TRUE]
  /\ UNCHANGED <<rows, signins, dialog, saves, tries, folders, purpose, bounds>>

IsMicrosoft(a) == a \in Microsofts \/ (a \notin Originals /\ signed_by[a] # NoFlow)

\* start and reconnect; a component that is gone does not hear of the flow.
Started ==
  /\ starting # Empty
  /\ starting' = Empty
  /\ \/ /\ starting = NoAccount \/ \E a \in Row(starting) : IsMicrosoft(a)
        /\ \E f \in Flows :
             /\ purpose[f] = Empty /\ \A g \in Flows : purpose[g] = Empty => f <= g
             /\ purpose' = [purpose EXCEPT ![f] = starting]
             /\ _flows' = [_flows EXCEPT ![f] = "pending"]
             /\ _pending_metadata' = [_pending_metadata EXCEPT ![f] = starting]
             /\ link' = IF link.start THEN [link EXCEPT !.flow = f, !.start = FALSE] ELSE link
     \/ link' = [link EXCEPT !.start = FALSE] /\ UNCHANGED <<signins, purpose>>
  /\ UNCHANGED <<rows, dialog, saves, tries, folders, bounds>>

\* _drive_device_flow ends: the user has signed in, perhaps after closing the
\* dialog, or the code has expired.
FlowEnds(f) ==
  /\ _flows[f] = "pending"
  /\ \E status \in {"signed", "failed"} : _flows' = [_flows EXCEPT ![f] = status]
  /\ UNCHANGED <<rows, _pending_metadata, dialog, saves, link, starting, tries, folders,
                 purpose, bounds>>

\* The poll query fetches at once when there is a flow, and again 3 s after an
\* answer as long as the last one that arrived says "pending".
\* Faulty variant: it fetches once.
DueOnce == link.told = "nothing" /\ ~ link.stalled
Due == link.told = "pending" \/ DueOnce

Try(t, f) == tries' = [tries EXCEPT ![t] = [NoTry EXCEPT !.stage = "asked", !.flow = f]]

Poll ==
  /\ link.flow # NoFlow /\ link.awaited = 0 /\ Due
  /\ \A t \in 1 .. 2 : tries[t].stage \in {"none", "answered"}
  /\ link' = [link EXCEPT !.awaited = 1]
  /\ Try(1, link.flow)
  /\ UNCHANGED <<rows, signins, dialog, saves, starting, folders, purpose, bounds>>

\* poll_device_flow and the metadata of a flow that is complete: both are
\* taken before the handler waits for anything.
\* Faulty variant: they stay until the handler is done.
TakeNone(f) == UNCHANGED signins
Take(f) ==
  /\ _flows' = [_flows EXCEPT ![f] = "none"]
  /\ _pending_metadata' = [_pending_metadata EXCEPT ![f] = Empty]

\* Nobody waits for the answer of a try that was given up.
Answer(t, answer) ==
  tries' = [tries EXCEPT ![t] = IF link.awaited = t
                                THEN [@ EXCEPT !.stage = "answered", !.answer = answer]
                                ELSE NoTry]

PollHandled(t) ==
  /\ tries[t].stage = "asked"
  /\ LET f == tries[t].flow IN
     /\ CASE _flows[f] = "none" -> Answer(t, "error") /\ UNCHANGED signins
         [] _flows[f] = "pending" -> Answer(t, "pending") /\ UNCHANGED signins
         [] _flows[f] = "failed" -> /\ Answer(t, "error")
                                    /\ _flows' = [_flows EXCEPT ![f] = "none"]
                                    /\ UNCHANGED _pending_metadata
         [] _flows[f] = "signed" -> /\ tries' = [tries EXCEPT
                                         ![t].stage = "taken", ![t].meta = _pending_metadata[f]]
                                    /\ Take(f)
     /\ link' = [link EXCEPT !.unheard =
                   @ \/ (_flows[f] = "signed" /\ link.flow = f /\ link.awaited # t)]
  /\ UNCHANGED <<rows, dialog, saves, starting, folders, purpose, bounds>>

\* The rest of the handler.  A commit may fail, and so may the one of the
\* folder after the one of the account.
PollApplied(t) ==
  /\ tries[t].stage = "taken"
  /\ LET f == tries[t].flow IN
       \/ \E a \in Row(tries[t].meta) :
            /\ signed_by' = [signed_by EXCEPT ![a] = f]
            /\ Answer(t, "complete")
            /\ UNCHANGED <<accounts, id, made, name, password>>
       \/ /\ tries[t].meta = NoAccount /\ made < MaxAccounts
          /\ Insert(Fresh, Fresh, f)
          /\ \E answer \in {"complete", "refused"} : Answer(t, answer)
       \/ /\ Answer(t, "refused")
          /\ UNCHANGED rows
  /\ UNCHANGED <<signins, dialog, saves, link, starting, folders, purpose, bounds>>

GivenUp(t) == IF tries[t].stage = "answered" THEN NoTry ELSE tries[t]

\* A failed try is made once more; then the query stops for good, unless an
\* earlier poll has been answered.  It may have used up the flow.
Spent(try) == try.stage = "taken" \/ try.answer \in {"complete", "refused"}

TryFailed ==
  LET unheard == link.unheard \/ Spent(tries[link.awaited]) IN
  IF link.awaited = 1
  THEN /\ link' = [link EXCEPT !.awaited = 2, !.unheard = unheard]
       /\ tries' = [tries EXCEPT ![2] = [NoTry EXCEPT !.stage = "asked", !.flow = link.flow],
                                 ![1] = GivenUp(1)]
  ELSE /\ link' = [link EXCEPT !.awaited = 0, !.unheard = unheard,
                               !.stalled = link.told = "nothing"]
       /\ tries' = [tries EXCEPT ![2] = GivenUp(2)]

PollArrives ==
  /\ link.awaited # 0 /\ tries[link.awaited].stage = "answered"
  /\ IF tries[link.awaited].answer = "refused"
     THEN TryFailed
     ELSE /\ link' = [link EXCEPT !.awaited = 0, !.told = tries[link.awaited].answer]
          /\ tries' = [tries EXCEPT ![link.awaited] = NoTry]
  /\ UNCHANGED <<rows, signins, dialog, saves, starting, folders, purpose, bounds>>

\* The browser loses the connection; the server goes on.
PollLost ==
  /\ link.awaited # 0 /\ upsets < MaxUpsets
  /\ upsets' = upsets + 1
  /\ TryFailed
  /\ UNCHANGED <<rows, signins, dialog, saves, starting, folders, purpose, steps>>

-----------------------------------------------------------------------------
(* The folders of the inbox.                                               *)

\* toggle sends the whole list, as the picker knows it.
Toggled(f) == IF f \in picker THEN picker \ {f} ELSE picker \cup {f}

Toggle(f) ==
  /\ choosing = NoChoice /\ steps < MaxSteps /\ DialogUnused
  /\ steps' = steps + 1
  /\ choosing' = [stage |-> "sent", list |-> Toggled(f), named |-> Folders, of |-> {f}]
  /\ hasty' = (hasty \/ listing.owed)
  /\ UNCHANGED <<rows, signins, dialog, saves, link, starting, tries, inbox, picker,
                 listing, chosen, doubted, purpose, upsets>>

\* update_account_folders changes the folders it names.  It may also fail after
\* its commit, or its answer may be lost; it is done with either way when the
\* next choice is made.
ServerChooses ==
  /\ choosing.stage = "sent"
  /\ \/ /\ inbox' = (inbox \ choosing.named) \cup choosing.list
        /\ \E stage \in {"done", "refused"} : choosing' = [choosing EXCEPT !.stage = stage]
     \/ UNCHANGED inbox /\ choosing' = [choosing EXCEPT !.stage = "refused"]
  /\ UNCHANGED <<rows, signins, dialog, saves, link, starting, tries, picker, listing,
                 chosen, doubted, hasty, purpose, bounds>>

\* A success has the list fetched again, which nobody waits for; a fetch that
\* was under way is given up.
\* Faulty variant: such a fetch is left to do.
ListAskedOnce == IF listing = NoListing THEN [NoListing EXCEPT !.stage = "asked"] ELSE listing
ListAsked == [NoListing EXCEPT !.stage = "asked"]

\* A success settles what is chosen for the folders in doubt, too.  A failure
\* leaves the list as it is.
ChoiceAnswered ==
  /\ choosing.stage \in {"done", "refused"}
  /\ choosing' = NoChoice
  /\ LET settled == choosing.of \cup doubted IN
       IF choosing.stage = "done"
       THEN /\ chosen' = (chosen \ settled) \cup (choosing.list \cap settled)
            /\ doubted' = {}
            /\ listing' = [ListAsked EXCEPT !.owed = TRUE]
       ELSE doubted' = settled /\ UNCHANGED <<chosen, listing>>
  /\ UNCHANGED <<rows, signins, dialog, saves, link, starting, tries, inbox, picker,
                 hasty, purpose, bounds>>

\* LiveUpdates and others invalidate all that is known of accounts, any time.
Refetch ==
  /\ ~ FoldersUnused
  /\ listing' = [ListAsked EXCEPT !.owed = listing.owed]
  /\ UNCHANGED <<rows, signins, dialog, saves, link, starting, tries, inbox, picker,
                 choosing, chosen, doubted, hasty, purpose, bounds>>

\* A fetch that fails takes longer: until then the picker shows no folders.
ListingAnswered ==
  /\ listing.stage = "asked"
  /\ listing' = [listing EXCEPT !.stage = "answered", !.list = inbox]
  /\ UNCHANGED <<rows, signins, dialog, saves, link, starting, tries, inbox, picker,
                 choosing, chosen, doubted, hasty, purpose, bounds>>

ListingArrives ==
  /\ listing.stage = "answered"
  /\ listing' = NoListing /\ picker' = listing.list
  /\ UNCHANGED <<rows, signins, dialog, saves, link, starting, tries, inbox,
                 choosing, chosen, doubted, hasty, purpose, bounds>>

-----------------------------------------------------------------------------
Next ==
  \/ \E a \in (accounts \cap Originals) \cup {NoAccount} : Open(a)
  \/ Close \/ SwitchTab \/ Type \/ Save
  \/ ServerUpdates \/ ServerCreates \/ UpdateAnswered \/ CreateAnswered
  \/ \E a \in Ids : ConfirmRemove(a) \/ RemovedElsewhere(a)
  \/ ServerRemoves
  \/ Start \/ Started \/ \E f \in Flows : FlowEnds(f)
  \/ Poll \/ PollArrives \/ PollLost
  \/ \E t \in 1 .. 2 : PollHandled(t) \/ PollApplied(t)
  \/ \E f \in Folders : Toggle(f)
  \/ ServerChooses \/ ChoiceAnswered \/ Refetch \/ ListingAnswered \/ ListingArrives

Spec == Init /\ [][Next]_vars

\* The interval of the poll runs out, and what is asked of the server is
\* answered.
Fairness ==
  /\ WF_vars(Poll) /\ WF_vars(PollArrives)
  /\ \A t \in 1 .. 2 : WF_vars(PollHandled(t)) /\ WF_vars(PollApplied(t))

FairSpec == Spec /\ Fairness

-----------------------------------------------------------------------------
Owners == 0 .. MaxAccounts + 1
Metas == Owners \ {Empty}

TypeOK ==
  /\ accounts \subseteq 1 .. made /\ made \in 0 .. MaxAccounts
  /\ id \in [Ids -> Ids] /\ \A a, b \in accounts : id[a] = id[b] => a = b
  /\ name \in [Ids -> Owners] /\ password \in [Ids -> Owners]
  /\ signed_by \in [Ids -> Flows \cup {NoFlow}]
  /\ _flows \in [Flows -> {"none", "pending", "signed", "failed"}]
  /\ _pending_metadata \in [Flows -> Owners]
  /\ {modalOpen, createdId} \subseteq BOOLEAN /\ editing \in Originals \cup {NoAccount}
  /\ tab \in {"basic", "microsoft"} /\ form \in [name : Owners, password : Owners]
  /\ {creating, updating} \subseteq [stage : {"none", "sent", "done", "refused"},
                                     of : Owners, name : Owners, password : Owners]
  /\ link \in [flow : Flows \cup {NoFlow}, start : BOOLEAN, awaited : 0 .. 2,
               told : {"nothing", "pending", "complete", "error"},
               stalled : BOOLEAN, unheard : BOOLEAN]
  /\ starting \in Owners /\ removing \in Ids \cup {Empty}
  /\ tries \in [1 .. 2 -> [stage : {"none", "asked", "taken", "answered"},
                           flow : Flows \cup {NoFlow}, meta : Owners,
                           answer : {"none", "pending", "complete", "error", "refused"}]]
  /\ inbox \subseteq Folders /\ picker \subseteq Folders /\ chosen \subseteq Folders
  /\ doubted \subseteq Folders /\ hasty \in BOOLEAN
  /\ choosing \in [stage : {"none", "sent", "done", "refused"}, list : SUBSET Folders,
                   named : SUBSET Folders, of : SUBSET Folders]
  /\ listing \in [stage : {"none", "asked", "answered"}, list : SUBSET Folders,
                  owed : BOOLEAN]
  /\ purpose \in [Flows -> Owners]
  /\ steps \in 0 .. MaxSteps /\ upsets \in 0 .. MaxUpsets

\* An account whose key another one had before.
Succeeds(a) == \E b \in 1 .. made : b < a /\ id[b] = id[a]

\* The settings of an account are its own: nothing typed or loaded for one
\* account is saved for another, whichever dialog an answer meets, and a
\* password that is left blank is kept.  The exception is an account that has
\* the key of a removed one, which a dialog or a request may still name.
OwnSettings ==
  \A a \in {b \in accounts : ~ Succeeds(b)} :
    IF a \in Originals THEN name[a] = a /\ password[a] = a
    ELSE name[a] = Fresh /\ password[a] \in {Fresh, Empty}

\* The folders of the inbox are those that were chosen, and the picker comes to
\* show them, although each choice sends the whole list.  The exceptions are a
\* choice made before the list had been fetched again after the one before, and
\* the folders of failed choices, which nobody knows the fate of until a choice
\* succeeds.
ChoicesKept ==
  choosing = NoChoice /\ ~ hasty =>
    /\ inbox \ doubted = chosen \ doubted
    /\ ~ listing.owed => picker \ doubted = inbox \ doubted

Signed(f) == {a \in Ids : signed_by[a] = f}

\* A sign-in is used once, for what it was started for: lost answers, tries
\* that overlap and dialogs that were closed do not make a second account of
\* it, and never sign another account in (but for the same exception).
SignInUsedOnce ==
  /\ \A f \in Flows :
       /\ Cardinality(Signed(f)) <= 1
       /\ \A a \in Signed(f) : IF purpose[f] = NoAccount THEN a \notin Originals
                              ELSE a = purpose[f] \/ Succeeds(a)
  /\ link.told = "complete" => Signed(link.flow) # {}

\* A sign-in that succeeded is told as a success to the user who waits for it,
\* unless the dialog goes, the very first poll failed twice, or the poll that took
\* the sign-in failed: then the next one says that the flow is unknown.
SignInTold ==
  \A f \in Flows :
    _flows[f] = "signed" /\ link.flow = f ~>
      link.flow # f \/ link.told = "complete" \/ link.unheard \/ link.stalled
=============================================================================
