------------------------- MODULE OutgoingMailProofs -------------------------
(***************************************************************************)
(* What the compose window and the send handlers guarantee for any number  *)
(* of drafts and attempts.                                                 *)
(***************************************************************************)
EXTENDS OutgoingMail, TLAPS

\* The attempt has not reached the provider, has left it, or is breaking off.
BeforeSubmit(d) == pc[d] \in {"connecting", "ensuring", "submitting"}
BreaksOff(d) == pc[d] = "logout" /\ failed[d]
AfterSubmit(d) == \/ pc[d] \in {"appending", "committing"}
                  \/ pc[d] = "logout" /\ ~ failed[d]

\* What a handler knows about its attempt.
HandlerSound(d) ==
  /\ pc[d] # "idle" => outcome[d] = "none"
  /\ BeforeSubmit(d) => ~ returned[d] /\ ~ failed[d]
  /\ BreaksOff(d) => ~ returned[d]
  /\ AfterSubmit(d) => returned[d] /\ delivered[d] > 0
  /\ pc[d] \in {"logout", "committing"} /\ ~ failed[d] /\ ~ warning[d] => d \in saved
  /\ pc[d] = "committing" => ~ failed[d]

\* Every attempt hands over one mail at most, and is excused at most once.
Counted(d) ==
  /\ delivered[d] <= attempts[d] /\ excused[d] <= attempts[d]
  /\ BeforeSubmit(d) => delivered[d] < attempts[d]
  /\ BeforeSubmit(d) \/ AfterSubmit(d) => excused[d] < attempts[d]

\* A draft that was reported as failed for want of the row, and that the next
\* press sends again as soon as the id is taken.
Misled(d) == d \in misled /\ taken
Stranded(d) == d \in misled /\ row = "gone"

\* Only a draft that is under way, or cannot be sent any more, may have
\* delivered a mail that nothing excuses.
Unspent(d) ==
  \/ delivered[d] <= excused[d]
  \/ /\ delivered[d] <= 1 + excused[d]
     /\ \/ AfterSubmit(d)
        \/ pc[d] = "idle" /\ (window # d \/ send_warning \/ Stranded(d))
  \/ Misled(d)

\* A draft that was not opened yet has sent nothing.
Opened == \A d \in Drafts :
  mode[d] = "unused" => window # d /\ attempts[d] = 0

\* All of it for one draft, with what the properties say of it.
DraftSound(d) ==
  /\ HandlerSound(d) /\ Counted(d) /\ Unspent(d)
  /\ returned[d] /\ outcome[d] = "error" => RowLost(d)
  /\ outcome[d] = "ok" /\ ~ warning[d] => d \in saved

\* The inductive invariant.
IInv == TypeOK /\ Opened /\ \A d \in Drafts : DraftSound(d)

USE DraftsAssumption
USE DEF compose, locals, mail, ghosts, Modes, Routes, Flags, PC

-----------------------------------------------------------------------------
\* Nothing has been sent.
LEMMA InitInvariant == Init => IInv
<1> SUFFICES ASSUME Init PROVE IInv
  OBVIOUS
<1>1. TypeOK
  <2>1. row \in Flags \cup {"gone"}
    BY DEF Init
  <2>2. saved \in SUBSET {d \in Drafts : delivered[d] > 0}
    BY DEF Init
  <2>3. /\ window \in Drafts \cup {NoDraft} /\ send_warning \in BOOLEAN
        /\ misled \in SUBSET Drafts /\ taken \in BOOLEAN
    BY DEF Init
  <2>4. /\ mode \in [Drafts -> Modes \cup {"unused"}] /\ pc \in [Drafts -> PC]
        /\ route \in [Drafts -> Routes]
        /\ outcome \in [Drafts -> {"none", "ok", "error", "lost"}]
    BY DEF Init, All
  <2>5. /\ loaded \in [Drafts -> Flags] /\ failed \in [Drafts -> BOOLEAN]
        /\ warning \in [Drafts -> BOOLEAN] /\ returned \in [Drafts -> BOOLEAN]
    BY DEF Init, All
  <2>6. /\ delivered \in [Drafts -> 0 .. MaxAttempts]
        /\ excused \in [Drafts -> 0 .. MaxAttempts]
        /\ attempts \in [Drafts -> 0 .. MaxAttempts]
    BY DEF Init, All
  <2> QED BY <2>1, <2>2, <2>3, <2>4, <2>5, <2>6 DEF TypeOK
<1>2. Opened
  BY DEF Init, Opened, All
<1>3. ASSUME NEW d \in Drafts PROVE DraftSound(d)
  BY DEF Init, All, DraftSound, HandlerSound, Counted, Unspent, BeforeSubmit,
         AfterSubmit
<1> QED BY <1>1, <1>2, <1>3 DEF IInv

\* What a step leaves alone of a draft.
Untouched(d) ==
  /\ pc'[d] = pc[d] /\ failed'[d] = failed[d] /\ warning'[d] = warning[d]
  /\ outcome'[d] = outcome[d] /\ returned'[d] = returned[d]
  /\ delivered'[d] = delivered[d] /\ excused'[d] = excused[d]
  /\ attempts'[d] = attempts[d] /\ mode'[d] = mode[d]
  /\ d \in saved <=> d \in saved'
  /\ d \in misled <=> d \in misled'

\* The row does not come back but as another message's.
RowStays == (taken => taken') /\ (row = "gone" => row' = "gone" \/ taken')

\* A draft stays sound when a step leaves it alone, brings its row back only as
\* another message's and shows no other form in its window.
Stays(d) ==
  /\ Untouched(d)
  /\ window' = d => window = d /\ (send_warning => send_warning')

\* A draft that a step leaves alone stays sound.
LEMMA StaysSound ==
  ASSUME NEW d \in Drafts, TypeOK, TypeOK', DraftSound(d), Stays(d),
         RowStays
  PROVE  DraftSound(d)'
<1> USE DEF Stays, Untouched, DraftSound
<1>1. HandlerSound(d)' /\ Counted(d)'
  BY DEF HandlerSound, Counted, BeforeSubmit, BreaksOff, AfterSubmit
<1>2. RowLost(d) => RowLost(d)'
  BY DEF RowLost, RowStays
<1>3. Unspent(d)'
  BY DEF Unspent, AfterSubmit, Misled, Stranded, RowStays
<1>4. returned'[d] /\ outcome'[d] = "error" => RowLost(d)'
  BY <1>2
<1>5. outcome'[d] = "ok" /\ ~ warning'[d] => d \in saved'
  OBVIOUS
<1> QED BY <1>1, <1>3, <1>4, <1>5

\* A step of one draft keeps the invariant when it keeps that draft sound and
\* leaves the others alone.
LEMMA StepOfOneDraft ==
  ASSUME IInv, TypeOK', Opened', RowStays,
         NEW d \in Drafts, DraftSound(d)',
         \A e \in Drafts \ {d} : Stays(e)
  PROVE  IInv'
<1>1. ASSUME NEW e \in Drafts PROVE DraftSound(e)'
  <2>1. CASE e = d
    BY <2>1
  <2>2. CASE e # d
    BY <2>2, StaysSound DEF IInv
  <2> QED BY <2>1, <2>2
<1> QED BY <1>1 DEF IInv

\* A handler that breaks off is done, or logs out with the exception.
LEMMA RaiseTypes ==
  ASSUME NEW d \in Drafts, Raise(d), pc \in [Drafts -> PC],
         failed \in [Drafts -> BOOLEAN]
  PROVE  pc' \in [Drafts -> PC] /\ failed' \in [Drafts -> BOOLEAN]
<1>1. CASE Fail(d, "error") /\ UNCHANGED failed
  BY <1>1 DEF Fail
<1>2. CASE /\ pc' = [pc EXCEPT ![d] = "logout"]
           /\ failed' = [failed EXCEPT ![d] = TRUE]
  BY <1>2
<1> QED BY <1>1, <1>2 DEF Raise

-----------------------------------------------------------------------------
(* The environment and the window.                                         *)

\* A row that goes comes back as another message's; nothing depends on its flag.
LEMMA RowInvariant ==
  ASSUME IInv, RowGoes \/ IdTaken \/ RowSynced PROVE IInv'
<1>1. TypeOK'
  <2>1. row' \in Flags \cup {"gone"} /\ taken' \in BOOLEAN
    BY DEF IInv, TypeOK, RowGoes, IdTaken, RowSynced
  <2>2. UNCHANGED <<window, send_warning, mode, pc, locals, outcome, mail,
                    returned, excused, misled, attempts>>
    BY DEF RowGoes, IdTaken, RowSynced
  <2>3. (saved \in SUBSET {d \in Drafts : delivered[d] > 0})'
    BY <2>2 DEF IInv, TypeOK
  <2> QED BY <2>1, <2>2, <2>3 DEF IInv, TypeOK
<1>2. Opened'
  BY DEF IInv, Opened, RowGoes, IdTaken, RowSynced
<1>3. RowStays
  BY DEF RowGoes, IdTaken, RowSynced, RowStays
<1>4. \A d \in Drafts : Stays(d)
  BY DEF RowGoes, IdTaken, RowSynced, Stays, Untouched
<1> QED BY <1>1, <1>2, <1>3, <1>4, StaysSound DEF IInv

\* Closing the window takes a draft out of reach for good.
LEMMA CloseInvariant ==
  ASSUME IInv, CloseCompose PROVE IInv'
<1>1. TypeOK'
  BY DEF IInv, TypeOK, CloseCompose
<1>2. Opened'
  BY DEF IInv, Opened, CloseCompose
<1>3. \A d \in Drafts : Stays(d)
  BY DEF CloseCompose, Stays, Untouched
<1> QED BY <1>1, <1>2, <1>3, StaysSound DEF IInv, CloseCompose, RowStays

\* A draft is opened once, so the window never comes back to one that is spent.
LEMMA OpenInvariant ==
  ASSUME IInv, NEW d \in Drafts, NEW what \in Modes, OpenCompose(d, what)
  PROVE  IInv'
<1>1. TypeOK'
  BY DEF IInv, TypeOK, OpenCompose
<1>2. Opened'
  BY DEF IInv, TypeOK, Opened, OpenCompose
<1>3. \A e \in Drafts \ {d} : Stays(e)
  BY DEF OpenCompose, Stays, Untouched
<1>4. DraftSound(d)'
  <2>1. Untouched(d) \/ mode[d] = "unused"
    BY DEF OpenCompose
  <2>2. /\ pc' = pc /\ outcome' = outcome /\ returned' = returned
        /\ failed' = failed /\ warning' = warning /\ saved' = saved
        /\ delivered' = delivered /\ excused' = excused /\ attempts' = attempts
    BY DEF OpenCompose
  <2>3. mode[d] = "unused" /\ attempts[d] = 0
    BY DEF IInv, Opened, OpenCompose
  <2>4. HandlerSound(d)' /\ Counted(d)'
    BY <2>2 DEF IInv, DraftSound, HandlerSound, Counted, BeforeSubmit,
           BreaksOff, AfterSubmit
  <2>5. Unspent(d)'
    BY <2>2, <2>3 DEF IInv, TypeOK, DraftSound, Counted, Unspent, Misled
  <2>6. ~ RowLost(d)
    BY <2>3 DEF RowLost
  <2> QED BY <2>2, <2>4, <2>5, <2>6 DEF IInv, DraftSound
<1> QED BY <1>1, <1>2, <1>3, <1>4, StepOfOneDraft DEF OpenCompose, RowStays

-----------------------------------------------------------------------------
(* The handler.                                                            *)

\* Starting an attempt.
LEMMA HandleSendInvariant ==
  ASSUME IInv, NEW d \in Drafts, NEW via \in Routes, HandleSend(d, via)
  PROVE  IInv'
<1>1. TypeOK'
  BY DEF IInv, TypeOK, HandleSend, Attempt
<1>2. Opened'
  BY DEF IInv, Opened, HandleSend, Attempt, CanSend
<1>3. \A e \in Drafts \ {d} : Stays(e)
  BY DEF Stays, Untouched, HandleSend, Attempt
<1>4. DraftSound(d)'
  <2>1. HandlerSound(d)'
    BY DEF IInv, TypeOK, HandlerSound, AfterSubmit, HandleSend, Attempt
  <2>2. Counted(d)'
    BY DEF IInv, TypeOK, DraftSound, Counted, HandleSend, Attempt
  <2>3. Unspent(d)'
    BY DEF IInv, DraftSound, Unspent, Misled, Stranded, AfterSubmit, HandleSend,
           Attempt, CanSend, IsPending
  <2>4. (returned[d] /\ outcome[d] = "error" => RowLost(d))'
    BY DEF IInv, DraftSound, RowLost, HandleSend, Attempt
  <2>5. (outcome[d] = "ok" /\ ~ warning[d] => d \in saved)'
    BY DEF IInv, TypeOK, HandleSend
  <2> QED BY <2>1, <2>2, <2>3, <2>4, <2>5 DEF DraftSound
<1> QED BY <1>1, <1>2, <1>3, <1>4, StepOfOneDraft DEF HandleSend, RowStays

\* An attempt that is refused at once.
LEMMA NotFoundInvariant ==
  ASSUME IInv, NEW d \in Drafts, NotFound(d)
  PROVE  IInv'
<1>1. TypeOK'
  BY DEF IInv, TypeOK, NotFound, Attempt
<1>2. Opened'
  BY DEF IInv, Opened, NotFound, Attempt, CanSend
<1>3. \A e \in Drafts \ {d} : Stays(e)
  BY DEF Stays, Untouched, NotFound, Attempt
<1>4. DraftSound(d)'
  <2>1. HandlerSound(d)'
    BY DEF HandlerSound, BeforeSubmit, BreaksOff, AfterSubmit, NotFound,
           Attempt, CanSend, IsPending
  <2>2. Counted(d)'
    BY DEF IInv, TypeOK, DraftSound, Counted, NotFound, Attempt
  <2>3. Unspent(d)'
    BY DEF IInv, DraftSound, Unspent, Misled, Stranded, AfterSubmit, NotFound
  <2>4. (returned[d] /\ outcome[d] = "error" => RowLost(d))'
    BY DEF IInv, TypeOK, NotFound, Attempt
  <2>5. (outcome[d] = "ok" /\ ~ warning[d] => d \in saved)'
    BY DEF IInv, DraftSound, NotFound
  <2> QED BY <2>1, <2>2, <2>3, <2>4, <2>5 DEF DraftSound
<1> QED BY <1>1, <1>2, <1>3, <1>4, StepOfOneDraft DEF NotFound, RowStays

\* Nothing was sent yet.
LEMMA CallFailsInvariant ==
  ASSUME IInv, NEW d \in Drafts, CallFails(d)
  PROVE  IInv'
<1>1. TypeOK'
  <2>1. UNCHANGED <<window, send_warning, mode, row, route, loaded, warning, mail,
                    ghosts, attempts>>
    BY DEF CallFails, Raise, Fail
  <2>2. pc' \in [Drafts -> PC] /\ failed' \in [Drafts -> BOOLEAN]
    BY RaiseTypes DEF IInv, TypeOK, CallFails
  <2>3. outcome' \in [Drafts -> {"none", "ok", "error", "lost"}]
    BY DEF IInv, TypeOK, CallFails, Raise, Fail
  <2> QED BY <2>1, <2>2, <2>3 DEF IInv, TypeOK
<1>2. Opened'
  BY DEF IInv, Opened, CallFails, Raise, Fail
<1>3. \A e \in Drafts \ {d} : Stays(e)
  BY DEF IInv, TypeOK, Stays, Untouched, CallFails, Raise, Fail
<1>4. DraftSound(d)'
  <2>1. HandlerSound(d)'
    BY DEF IInv, TypeOK, DraftSound, HandlerSound, BeforeSubmit, AfterSubmit,
           CallFails, Raise, Fail
  <2>2. Counted(d)'
    BY DEF IInv, DraftSound, Counted, BeforeSubmit, CallFails
  <2>3. Unspent(d)'
    BY DEF IInv, DraftSound, Unspent, Misled, Stranded, AfterSubmit, CallFails
  <2>4. (returned[d] /\ outcome[d] = "error" => RowLost(d))'
    BY DEF IInv, DraftSound, HandlerSound, BeforeSubmit, CallFails
  <2>5. (outcome[d] = "ok" /\ ~ warning[d] => d \in saved)'
    BY DEF IInv, TypeOK, DraftSound, CallFails, Raise, Fail
  <2> QED BY <2>1, <2>2, <2>3, <2>4, <2>5 DEF DraftSound
<1> QED BY <1>1, <1>2, <1>3, <1>4, StepOfOneDraft DEF CallFails, RowStays

\* The connection is open; nothing was sent yet.
LEMMA ConnectsInvariant ==
  ASSUME IInv, NEW d \in Drafts, Connects(d)
  PROVE  IInv'
<1>1. TypeOK'
  BY DEF IInv, TypeOK, Connects
<1>2. Opened'
  BY DEF IInv, Opened, Connects
<1>3. \A e \in Drafts \ {d} : Stays(e)
  BY DEF Stays, Untouched, Connects
<1>4. DraftSound(d)'
  <2>1. HandlerSound(d)'
    BY DEF IInv, DraftSound, HandlerSound, BeforeSubmit, AfterSubmit, Connects
  <2>2. Counted(d)'
    BY DEF IInv, DraftSound, Counted, BeforeSubmit, Connects
  <2>3. Unspent(d)'
    BY DEF IInv, DraftSound, Unspent, Misled, Stranded, AfterSubmit, Connects
  <2>4. (returned[d] /\ outcome[d] = "error" => RowLost(d))'
    BY DEF IInv, DraftSound, RowLost, Connects
  <2>5. (outcome[d] = "ok" /\ ~ warning[d] => d \in saved)'
    BY DEF IInv, DraftSound, Connects
  <2> QED BY <2>1, <2>2, <2>3, <2>4, <2>5 DEF DraftSound
<1> QED BY <1>1, <1>2, <1>3, <1>4, StepOfOneDraft DEF Connects, RowStays

\* The Sent folder exists; nothing was sent yet.
LEMMA EnsuresSentInvariant ==
  ASSUME IInv, NEW d \in Drafts, EnsuresSent(d)
  PROVE  IInv'
<1>1. TypeOK'
  BY DEF IInv, TypeOK, EnsuresSent, AfterEnsure
<1>2. Opened'
  BY DEF IInv, Opened, EnsuresSent
<1>3. \A e \in Drafts \ {d} : Stays(e)
  BY DEF Stays, Untouched, EnsuresSent
<1>4. DraftSound(d)'
  <2>1. HandlerSound(d)'
    BY DEF IInv, DraftSound, HandlerSound, BeforeSubmit, AfterSubmit,
           EnsuresSent, AfterEnsure
  <2>2. Counted(d)'
    BY DEF IInv, DraftSound, Counted, BeforeSubmit, EnsuresSent
  <2>3. Unspent(d)'
    BY DEF IInv, DraftSound, Unspent, Misled, Stranded, AfterSubmit, EnsuresSent
  <2>4. (returned[d] /\ outcome[d] = "error" => RowLost(d))'
    BY DEF IInv, DraftSound, RowLost, EnsuresSent
  <2>5. (outcome[d] = "ok" /\ ~ warning[d] => d \in saved)'
    BY DEF IInv, DraftSound, EnsuresSent
  <2> QED BY <2>1, <2>2, <2>3, <2>4, <2>5 DEF DraftSound
<1> QED BY <1>1, <1>2, <1>3, <1>4, StepOfOneDraft DEF EnsuresSent, RowStays

\* The one step after which the attempt counts as sent.
LEMMA SubmitsInvariant ==
  ASSUME IInv, NEW d \in Drafts, Submits(d)
  PROVE  IInv'
<1>1. TypeOK'
  BY DEF IInv, TypeOK, DraftSound, Counted, BeforeSubmit, Submits, HandOver
<1>2. Opened'
  BY DEF IInv, Opened, Submits
<1>3. \A e \in Drafts \ {d} : Stays(e)
  BY DEF Stays, Untouched, Submits, HandOver
<1>4. DraftSound(d)'
  <2>1. HandlerSound(d)'
    BY DEF IInv, TypeOK, DraftSound, HandlerSound, BeforeSubmit, BreaksOff,
           Submits, HandOver
  <2>2. Counted(d)'
    BY DEF IInv, TypeOK, DraftSound, Counted, BeforeSubmit, Submits, HandOver
  <2>3. Unspent(d)'
    BY DEF IInv, TypeOK, DraftSound, Unspent, Misled, Stranded, AfterSubmit,
           Submits, HandOver
  <2>4. (returned[d] /\ outcome[d] = "error" => RowLost(d))'
    BY DEF IInv, DraftSound, HandlerSound, Submits
  <2>5. (outcome[d] = "ok" /\ ~ warning[d] => d \in saved)'
    BY DEF IInv, DraftSound, Submits, HandOver
  <2> QED BY <2>1, <2>2, <2>3, <2>4, <2>5 DEF DraftSound
<1> QED BY <1>1, <1>2, <1>3, <1>4, StepOfOneDraft DEF Submits, RowStays

\* A submission that raises may have delivered: it is excused then.
LEMMA SubmitRaisesInvariant ==
  ASSUME IInv, NEW d \in Drafts, SubmitRaises(d)
  PROVE  IInv'
<1>1. TypeOK'
  <2>1. UNCHANGED <<window, send_warning, mode, row, route, loaded, warning,
                    returned, misled, taken, attempts>>
    BY DEF SubmitRaises, Raise, Fail
  <2>2. pc' \in [Drafts -> PC] /\ failed' \in [Drafts -> BOOLEAN]
    BY RaiseTypes DEF IInv, TypeOK, SubmitRaises
  <2>3. outcome' \in [Drafts -> {"none", "ok", "error", "lost"}]
    BY DEF IInv, TypeOK, SubmitRaises, Raise, Fail
  <2>4. excused' \in [Drafts -> 0 .. MaxAttempts]
    BY DEF IInv, TypeOK, DraftSound, Counted, BeforeSubmit, SubmitRaises
  <2>5. CASE UNCHANGED mail
    BY <2>1, <2>2, <2>3, <2>4, <2>5 DEF IInv, TypeOK
  <2>6. CASE HandOver(d) /\ BeforeSubmit(d)
    <3>1. delivered[d] < MaxAttempts
      BY <2>6 DEF IInv, TypeOK, DraftSound, Counted
    <3>2. /\ delivered' \in [Drafts -> 0 .. MaxAttempts]
          /\ (saved \in SUBSET {e \in Drafts : delivered[e] > 0})'
      BY <2>6, <3>1 DEF IInv, TypeOK, HandOver
    <3> QED BY <2>1, <2>2, <2>3, <2>4, <3>2 DEF IInv, TypeOK
  <2> QED BY <2>5, <2>6 DEF SubmitRaises, BeforeSubmit
<1>2. Opened'
  BY DEF IInv, Opened, SubmitRaises, Raise, Fail
<1>3. \A e \in Drafts \ {d} : Stays(e)
  BY DEF IInv, TypeOK, Stays, Untouched, SubmitRaises, HandOver, Raise, Fail
<1>4. DraftSound(d)'
  <2>1. HandlerSound(d)'
    BY DEF IInv, TypeOK, DraftSound, HandlerSound, BeforeSubmit, AfterSubmit,
           SubmitRaises, Raise, Fail
  <2>2. Counted(d)'
    BY DEF IInv, TypeOK, DraftSound, Counted, BeforeSubmit, AfterSubmit,
           SubmitRaises, HandOver, Raise, Fail
  <2>3. Unspent(d)'
    BY DEF IInv, TypeOK, DraftSound, Unspent, Misled, Stranded, AfterSubmit,
           SubmitRaises, HandOver
  <2>4. (returned[d] /\ outcome[d] = "error" => RowLost(d))'
    BY DEF IInv, DraftSound, HandlerSound, BeforeSubmit, SubmitRaises
  <2>5. (outcome[d] = "ok" /\ ~ warning[d] => d \in saved)'
    BY DEF IInv, TypeOK, DraftSound, SubmitRaises, HandOver, Raise, Fail
  <2> QED BY <2>1, <2>2, <2>3, <2>4, <2>5 DEF DraftSound
<1> QED BY <1>1, <1>2, <1>3, <1>4, StepOfOneDraft DEF SubmitRaises, RowStays

\* The copy is in Sent, or the warning says that it may not be.
LEMMA AppendsSentInvariant ==
  ASSUME IInv, NEW d \in Drafts, AppendsSent(d)
  PROVE  IInv'
<1>1. TypeOK'
  BY DEF IInv, TypeOK, DraftSound, AfterSubmit, HandlerSound, AppendsSent,
         Warns, AfterAppend
<1>2. Opened'
  BY DEF IInv, Opened, AppendsSent
<1>3. \A e \in Drafts \ {d} : Stays(e)
  BY DEF Stays, Untouched, AppendsSent
<1>4. DraftSound(d)'
  <2>1. HandlerSound(d)'
    BY DEF IInv, TypeOK, DraftSound, HandlerSound, BeforeSubmit, BreaksOff,
           AfterSubmit, AppendsSent, Warns, AfterAppend
  <2>2. Counted(d)'
    BY DEF IInv, DraftSound, Counted, BeforeSubmit, AfterSubmit, AppendsSent
  <2>3. Unspent(d)'
    BY DEF IInv, TypeOK, DraftSound, Unspent, Misled, Stranded, AfterSubmit,
           AppendsSent, AfterAppend
  <2>4. (returned[d] /\ outcome[d] = "error" => RowLost(d))'
    BY DEF IInv, DraftSound, RowLost, AppendsSent
  <2>5. (outcome[d] = "ok" /\ ~ warning[d] => d \in saved)'
    BY DEF IInv, DraftSound, HandlerSound, AppendsSent
  <2> QED BY <2>1, <2>2, <2>3, <2>4, <2>5 DEF DraftSound
<1> QED BY <1>1, <1>2, <1>3, <1>4, StepOfOneDraft DEF AppendsSent, RowStays

\* The connection is closed; an exception goes on to the browser.
LEMMA LogoutInvariant ==
  ASSUME IInv, NEW d \in Drafts, Logout(d)
  PROVE  IInv'
<1>1. TypeOK'
  BY DEF IInv, TypeOK, Logout, Fail
<1>2. Opened'
  BY DEF IInv, Opened, Logout, Fail
<1>3. \A e \in Drafts \ {d} : Stays(e)
  BY DEF IInv, TypeOK, Stays, Untouched, Logout, Fail
<1>4. DraftSound(d)'
  <2>1. HandlerSound(d)'
    BY DEF IInv, TypeOK, DraftSound, HandlerSound, BeforeSubmit, BreaksOff,
           AfterSubmit, Logout, Fail
  <2>2. Counted(d)'
    BY DEF IInv, TypeOK, DraftSound, Counted, BeforeSubmit, AfterSubmit,
           Logout, Fail
  <2>3. Unspent(d)'
    BY DEF IInv, TypeOK, DraftSound, Unspent, Misled, Stranded, AfterSubmit,
           Logout
  <2>4. (returned[d] /\ outcome[d] = "error" => RowLost(d))'
    BY DEF IInv, DraftSound, HandlerSound, BreaksOff, Logout
  <2>5. (outcome[d] = "ok" /\ ~ warning[d] => d \in saved)'
    BY DEF IInv, TypeOK, DraftSound, Logout, Fail
  <2> QED BY <2>1, <2>2, <2>3, <2>4, <2>5 DEF DraftSound
<1> QED BY <1>1, <1>2, <1>3, <1>4, StepOfOneDraft DEF Logout, RowStays

\* Success: the window is closed, or locked by the warning.
LEMMA CommitInvariant ==
  ASSUME IInv, NEW d \in Drafts, Commit(d)
  PROVE  IInv'
<1>1. TypeOK'
  BY DEF IInv, TypeOK, Commit, Succeed
<1>2. Opened'
  BY DEF IInv, Opened, Commit, Succeed
<1>3. \A e \in Drafts \ {d} : Stays(e)
  BY DEF Stays, Untouched, Commit, Succeed
<1>4. DraftSound(d)'
  <2>1. HandlerSound(d)'
    BY DEF IInv, TypeOK, HandlerSound, BeforeSubmit, BreaksOff, AfterSubmit,
           Commit, Succeed
  <2>2. Counted(d)'
    BY DEF IInv, DraftSound, Counted, BeforeSubmit, AfterSubmit, Commit,
           Succeed
  <2>3. Unspent(d)'
    BY DEF IInv, DraftSound, Unspent, Misled, Stranded, AfterSubmit, Commit,
           Succeed
  <2>4. (returned[d] /\ outcome[d] = "error" => RowLost(d))'
    BY DEF IInv, DraftSound, RowLost, Commit, Succeed
  <2>5. (outcome[d] = "ok" /\ ~ warning[d] => d \in saved)'
    BY DEF IInv, DraftSound, HandlerSound, Commit
  <2> QED BY <2>1, <2>2, <2>3, <2>4, <2>5 DEF DraftSound
<1> QED BY <1>1, <1>2, <1>3, <1>4, StepOfOneDraft DEF Commit, RowStays

\* The one false failure: the original has lost its row.
LEMMA CommitFailsInvariant ==
  ASSUME IInv, NEW d \in Drafts, CommitFails(d)
  PROVE  IInv'
<1>1. TypeOK'
  BY DEF IInv, TypeOK, CommitFails, Fail
<1>2. Opened'
  BY DEF IInv, Opened, CommitFails, Fail
<1>3. \A e \in Drafts \ {d} : Stays(e)
  BY DEF Stays, Untouched, CommitFails, Fail
<1>4. DraftSound(d)'
  <2>1. HandlerSound(d)'
    BY DEF IInv, TypeOK, HandlerSound, BeforeSubmit, BreaksOff, AfterSubmit,
           CommitFails, Fail
  <2>2. Counted(d)'
    BY DEF IInv, DraftSound, Counted, BeforeSubmit, AfterSubmit, CommitFails,
           Fail
  <2>3. Unspent(d)'
    BY DEF IInv, TypeOK, DraftSound, Unspent, Misled, Stranded, AfterSubmit,
           CommitFails, Fail
  <2>4. (returned[d] /\ outcome[d] = "error" => RowLost(d))'
    BY DEF RowLost, CommitFails, Updates, Fail
  <2>5. (outcome[d] = "ok" /\ ~ warning[d] => d \in saved)'
    BY DEF IInv, DraftSound, CommitFails, Fail
  <2> QED BY <2>1, <2>2, <2>3, <2>4, <2>5 DEF DraftSound
<1> QED BY <1>1, <1>2, <1>3, <1>4, StepOfOneDraft DEF CommitFails, RowStays

\* Nobody hears the answer: the attempt is excused if it was sent.
LEMMA ConnectionLostInvariant ==
  ASSUME IInv, NEW d \in Drafts, ConnectionLost(d)
  PROVE  IInv'
<1>1. TypeOK'
  <2>1. UNCHANGED <<window, send_warning, mode, row, locals, returned, misled,
                    taken, attempts>>
    BY DEF ConnectionLost, Fail
  <2>2. pc' \in [Drafts -> PC] /\ failed' \in [Drafts -> BOOLEAN]
    BY DEF IInv, TypeOK, ConnectionLost, Fail
  <2>3. outcome' \in [Drafts -> {"none", "ok", "error", "lost"}]
    BY DEF IInv, TypeOK, ConnectionLost, Fail
  <2>4. excused' \in [Drafts -> 0 .. MaxAttempts]
    BY DEF IInv, TypeOK, DraftSound, HandlerSound, Counted, BeforeSubmit,
           BreaksOff, AfterSubmit, ConnectionLost
  <2>5. CASE UNCHANGED mail
    BY <2>1, <2>2, <2>3, <2>4, <2>5 DEF IInv, TypeOK
  <2>6. CASE HandOver(d) /\ BeforeSubmit(d)
    <3>1. delivered[d] < MaxAttempts
      BY <2>6 DEF IInv, TypeOK, DraftSound, Counted
    <3>2. /\ delivered' \in [Drafts -> 0 .. MaxAttempts]
          /\ (saved \in SUBSET {e \in Drafts : delivered[e] > 0})'
      BY <2>6, <3>1 DEF IInv, TypeOK, HandOver
    <3> QED BY <2>1, <2>2, <2>3, <2>4, <3>2 DEF IInv, TypeOK
  <2> QED BY <2>5, <2>6 DEF ConnectionLost, BeforeSubmit
<1>2. Opened'
  BY DEF IInv, Opened, ConnectionLost, Fail
<1>3. \A e \in Drafts \ {d} : Stays(e)
  BY DEF IInv, TypeOK, Stays, Untouched, ConnectionLost, Fail, HandOver
<1>4. DraftSound(d)'
  <2>1. HandlerSound(d)'
    BY DEF IInv, TypeOK, HandlerSound, BeforeSubmit, BreaksOff, AfterSubmit,
           ConnectionLost, Fail
  <2>2. Counted(d)'
    <3>1. UNCHANGED <<attempts, returned>> /\ pc'[d] = "idle" /\ pc[d] # "idle"
      BY DEF IInv, TypeOK, ConnectionLost, Fail
    <3>2. returned[d] => AfterSubmit(d)
      BY <3>1 DEF IInv, TypeOK, DraftSound, HandlerSound, BeforeSubmit,
             BreaksOff, AfterSubmit
    <3>3. delivered'[d] <= attempts[d]
      BY DEF IInv, TypeOK, DraftSound, Counted, BeforeSubmit, ConnectionLost,
             HandOver
    <3>4. excused'[d] <= attempts[d]
      BY <3>2 DEF IInv, TypeOK, DraftSound, Counted, BeforeSubmit,
             ConnectionLost
    <3> QED BY <3>1, <3>3, <3>4 DEF Counted, BeforeSubmit, AfterSubmit
  <2>3. Unspent(d)'
    BY DEF IInv, TypeOK, DraftSound, HandlerSound, Unspent, Misled, Stranded,
           AfterSubmit, ConnectionLost, HandOver
  <2>4. (returned[d] /\ outcome[d] = "error" => RowLost(d))'
    BY DEF IInv, DraftSound, RowLost, ConnectionLost, Fail
  <2>5. (outcome[d] = "ok" /\ ~ warning[d] => d \in saved)'
    BY DEF IInv, DraftSound, ConnectionLost, Fail, HandOver
  <2> QED BY <2>1, <2>2, <2>3, <2>4, <2>5 DEF DraftSound
<1> QED BY <1>1, <1>2, <1>3, <1>4, StepOfOneDraft DEF ConnectionLost, RowStays

-----------------------------------------------------------------------------
(* The theorems.                                                           *)

\* Every step keeps the invariant.
LEMMA NextInvariant == IInv /\ [Next]_vars => IInv'
<1> SUFFICES ASSUME IInv, [Next]_vars PROVE IInv'
  OBVIOUS
<1>1. CASE UNCHANGED vars
  <2>1. \A d \in Drafts : Stays(d)
    BY <1>1 DEF vars, Stays, Untouched
  <2>2. TypeOK' /\ Opened' /\ RowStays
    BY <1>1 DEF vars, IInv, TypeOK, Opened, RowStays
  <2> QED BY <2>1, <2>2, StaysSound DEF IInv
<1>2. CASE RowGoes \/ IdTaken \/ RowSynced \/ CloseCompose
  BY <1>2, RowInvariant, CloseInvariant
<1>3. ASSUME NEW d \in Drafts,
             \/ \E what \in Modes : OpenCompose(d, what)
             \/ \E via \in Routes : HandleSend(d, via)
             \/ NotFound(d)
      PROVE  IInv'
  BY <1>3, OpenInvariant, HandleSendInvariant, NotFoundInvariant
<1>4. ASSUME NEW d \in Drafts,
             CallFails(d) \/ Connects(d) \/ EnsuresSent(d) \/ Submits(d)
               \/ SubmitRaises(d)
      PROVE  IInv'
  BY <1>4, CallFailsInvariant, ConnectsInvariant, EnsuresSentInvariant,
     SubmitsInvariant, SubmitRaisesInvariant
<1>5. ASSUME NEW d \in Drafts,
             AppendsSent(d) \/ Logout(d) \/ Commit(d) \/ CommitFails(d)
               \/ ConnectionLost(d)
      PROVE  IInv'
  BY <1>5, AppendsSentInvariant, LogoutInvariant, CommitInvariant,
     CommitFailsInvariant, ConnectionLostInvariant
<1> QED BY <1>1, <1>2, <1>3, <1>4, <1>5 DEF Next

\* The invariant holds throughout.
LEMMA Invariant == Spec => []IInv
BY InitInvariant, NextInvariant, PTL DEF Spec

\* Every variable keeps its type; in particular a mail in Sent was delivered.
THEOREM TypeCorrect == Spec => []TypeOK
<1>1. IInv => TypeOK
  BY DEF IInv
<1> QED BY <1>1, Invariant, PTL

\* The handlers answer an error after submission only to a reply whose original
\* has no row any more.
THEOREM SendsAreReported == Spec => []SentReported
<1>1. IInv => SentReported
  BY DEF IInv, DraftSound, SentReported
<1> QED BY <1>1, Invariant, PTL

\* However often Send is pressed, a mail goes out once, and once more for each
\* attempt whose fate was in doubt, unless the draft was reported as failed for
\* want of the original's row and the id has become another message's.
THEOREM SendsAreNotRepeated == Spec => []SentOnce
<1>1. ASSUME IInv, NEW d \in Drafts
      PROVE  delivered[d] <= 1 + excused[d] \/ Misled(d)
  <2>1. delivered[d] \in Nat /\ excused[d] \in Nat
    BY <1>1 DEF IInv, TypeOK
  <2>2. Unspent(d)
    BY <1>1 DEF IInv, DraftSound
  <2> QED BY <2>1, <2>2 DEF Unspent
<1>2. IInv => SentOnce
  BY <1>1 DEF SentOnce, Misled
<1> QED BY <1>2, Invariant, PTL

\* A send reported without a warning has left a copy in Sent.
THEOREM CopiesAreKept == Spec => []CopyKept
<1>1. IInv => CopyKept
  BY DEF IInv, DraftSound, CopyKept
<1> QED BY <1>1, Invariant, PTL

=============================================================================
