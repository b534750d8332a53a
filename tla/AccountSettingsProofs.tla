------------------------ MODULE AccountSettingsProofs ------------------------
(***************************************************************************)
(* Proofs about AccountSettings for any number of accounts, folders,       *)
(* sign-ins, dialogs and lost polls.                                       *)
(*                                                                         *)
(* The invariant has a part for each group of variables: the rows and      *)
(* their keys, the dialog with its two requests, the sign-in, and the      *)
(* folders of the inbox.  The frame lemmas say which actions touch a       *)
(* group, and one lemma per group shows that they keep its part.           *)
(***************************************************************************)
EXTENDS AccountSettings, FiniteSetTheorems, WellFoundedInduction, TLAPS

-----------------------------------------------------------------------------
(* TypeOK, by groups.                                                      *)

RowsTyped ==
  /\ accounts \subseteq 1 .. made /\ made \in 0 .. MaxAccounts
  /\ id \in [Ids -> Ids] /\ \A a, b \in accounts : id[a] = id[b] => a = b
  /\ name \in [Ids -> Owners] /\ password \in [Ids -> Owners]
  /\ signed_by \in [Ids -> Flows \cup {NoFlow}]

DialogTyped ==
  /\ {modalOpen, createdId} \subseteq BOOLEAN /\ editing \in Originals \cup {NoAccount}
  /\ tab \in {"basic", "microsoft"} /\ form \in [name : Owners, password : Owners]
  /\ {creating, updating} \subseteq [stage : {"none", "sent", "done", "refused"},
                                     of : Owners, name : Owners, password : Owners]
  /\ removing \in Ids \cup {Empty}

LinkType == [flow : Flows \cup {NoFlow}, start : BOOLEAN, awaited : 0 .. 2,
             told : {"nothing", "pending", "complete", "error"},
             stalled : BOOLEAN, unheard : BOOLEAN]
TryType == [stage : {"none", "asked", "taken", "answered"},
            flow : Flows \cup {NoFlow}, meta : Owners,
            answer : {"none", "pending", "complete", "error", "refused"}]

SignInsTyped ==
  /\ _flows \in [Flows -> {"none", "pending", "signed", "failed"}]
  /\ _pending_metadata \in [Flows -> Owners]
  /\ link \in LinkType /\ tries \in [1 .. 2 -> TryType]
  /\ starting \in Owners /\ purpose \in [Flows -> Owners]

ChoiceType == [stage : {"none", "sent", "done", "refused"}, list : SUBSET Folders,
               named : SUBSET Folders, of : SUBSET Folders]
ListingType == [stage : {"none", "asked", "answered"}, list : SUBSET Folders,
                owed : BOOLEAN]

FoldersTyped ==
  /\ inbox \subseteq Folders /\ picker \subseteq Folders /\ chosen \subseteq Folders
  /\ doubted \subseteq Folders /\ hasty \in BOOLEAN
  /\ choosing \in ChoiceType /\ listing \in ListingType

BoundsTyped == steps \in 0 .. MaxSteps /\ upsets \in 0 .. MaxUpsets

\* The groups together are the type invariant.
LEMMA TypeGroups ==
  TypeOK <=> RowsTyped /\ DialogTyped /\ SignInsTyped /\ FoldersTyped /\ BoundsTyped
BY DEF TypeOK, RowsTyped, DialogTyped, SignInsTyped, LinkType, TryType, ChoiceType,
       ListingType, FoldersTyped, BoundsTyped

-----------------------------------------------------------------------------
(* What makes the properties inductive.                                    *)

\* The accounts there were at first have their keys for ever, and no account
\* has a larger key than its place in the order of creation.
KeysInOrder ==
  /\ Cardinality(Originals) <= made
  /\ \A a \in Originals : id[a] = a
  /\ \A a \in Ids : id[a] <= a
  /\ \A a \in Ids : signed_by[a] # NoFlow => a <= made

\* The dialog shows the settings of the account it is open for, and its
\* requests carry those of the account they name.
FormsOwn ==
  /\ modalOpen => {form.name, form.password} \subseteq {Mine, Empty}
  /\ updating.stage # "none" => /\ updating.of \in Originals
                                /\ updating.name = updating.of
                                /\ updating.password \in {updating.of, Empty}
  /\ creating.stage # "none" => /\ creating.name = Fresh
                                /\ creating.password \in {Fresh, Empty}

\* A sign-in the server still knows has not been used, and is remembered for
\* what it was started for.
FlowsOwned ==
  /\ starting \in Originals \cup {NoAccount, Empty}
  /\ \A f \in Flows : purpose[f] \in Originals \cup {NoAccount, Empty}
  /\ \A f \in Flows : purpose[f] = Empty => Signed(f) = {}
  /\ \A f \in Flows : _flows[f] # "none" => /\ purpose[f] # Empty
                                            /\ _pending_metadata[f] = purpose[f]
                                            /\ Signed(f) = {}

\* A try that has taken a sign-in is the only one to have it.
TriesOwned ==
  /\ \A t \in 1 .. 2 : tries[t].stage \in {"asked", "taken"} => tries[t].flow \in Flows
  /\ \A t \in 1 .. 2 : tries[t].stage = "answered" => tries[t].answer # "none"
  /\ \A t \in 1 .. 2 : tries[t].stage = "taken" =>
       /\ purpose[tries[t].flow] # Empty /\ tries[t].meta = purpose[tries[t].flow]
       /\ _flows[tries[t].flow] = "none" /\ Signed(tries[t].flow) = {}
  /\ tries[1].stage = "taken" /\ tries[2].stage = "taken" =>
       tries[1].flow # tries[2].flow

\* The dialog polls for its own sign-in, and is told of a success only after
\* the account is signed in.
LinkOwned ==
  /\ link.start => link.flow = NoFlow
  /\ link.flow = NoFlow => link.awaited = 0 /\ link.told = "nothing"
  /\ link.awaited # 0 => tries[link.awaited].flow = link.flow
  /\ link.awaited # 0 \/ link.told # "nothing" =>
       \A t \in 1 .. 2 : tries[t].stage \in {"asked", "taken"} => tries[t].flow = link.flow
  /\ \A t \in 1 .. 2 : t = link.awaited /\ tries[t].stage = "answered"
                       /\ tries[t].answer = "complete" => Signed(link.flow) # {}
  /\ link.told = "complete" => Signed(link.flow) # {}

\* No sign-in is in use by two accounts, and each is by one it was for.
SignedRight ==
  /\ \A a, b \in Ids : signed_by[a] = signed_by[b] /\ signed_by[a] # NoFlow => a = b
  /\ \A f \in Flows : \A a \in Signed(f) :
       IF purpose[f] = NoAccount THEN a \notin Originals ELSE a = purpose[f] \/ Succeeds(a)

\* The folders whose choice is not settled.
Unsettled == doubted \cup choosing.of
Agree(s, t) == s \ Unsettled = t \ Unsettled

\* Unless a choice was hasty, it started from the folders as they were; what the
\* server, the list being fetched and the picker have differs from what was chosen
\* only in what is not settled.
ListKnown ==
  /\ choosing.stage = "none" <=> choosing = NoChoice
  /\ listing.stage = "none" => ~ listing.owed
  /\ ~ hasty =>
       /\ choosing # NoChoice => /\ choosing.named = Folders /\ ~ listing.owed
                                 /\ Agree(choosing.list, chosen)
       /\ choosing.stage = "done" => inbox = choosing.list
       /\ Agree(inbox, chosen)
       /\ listing.stage = "answered" => Agree(listing.list, chosen)
       /\ ~ listing.owed => Agree(picker, chosen)

RowsInv == RowsTyped /\ KeysInOrder /\ OwnSettings
DialogInv == DialogTyped /\ FormsOwn
SignInsInv == SignInsTyped /\ FlowsOwned /\ TriesOwned /\ LinkOwned /\ SignedRight
FoldersInv == FoldersTyped /\ ListKnown

\* The inductive invariant.
IInv == RowsInv /\ DialogInv /\ SignInsInv /\ FoldersInv /\ BoundsTyped

USE AccountSettingsAssumption
    DEF Ids, Flows, Owners, Empty, Fresh, NoAccount, NoFlow

-----------------------------------------------------------------------------
(* Which actions touch which group.                                        *)


\* Only the folder picker and its handlers touch the folders.
LEMMA FoldersFrame ==
  ASSUME Next
  PROVE  \/ UNCHANGED folders
         \/ \E f \in Folders : Toggle(f)
         \/ ServerChooses \/ ChoiceAnswered \/ Refetch \/ ListingAnswered
           \/ ListingArrives
<1> SUFFICES ASSUME ~ \E f \in Folders : Toggle(f),
                    ~ (ServerChooses \/ ChoiceAnswered \/ Refetch \/ ListingAnswered
                         \/ ListingArrives)
             PROVE  UNCHANGED folders
  OBVIOUS
<1>1. CASE \/ \E a \in (accounts \cap Originals) \cup {NoAccount} : Open(a)
           \/ Close \/ SwitchTab \/ Type \/ Save
           \/ ServerUpdates \/ ServerCreates \/ UpdateAnswered \/ CreateAnswered
  BY <1>1 DEF Open, Close, SwitchTab, Type, Save, ServerUpdates, ServerCreates,
              UpdateAnswered, CreateAnswered
<1>2. CASE \/ \E a \in Ids : ConfirmRemove(a) \/ RemovedElsewhere(a)
           \/ ServerRemoves
           \/ Start \/ Started \/ \E f \in Flows : FlowEnds(f)
  BY <1>2 DEF ConfirmRemove, RemovedElsewhere, ServerRemoves, Start, Started, FlowEnds
<1>3. CASE \/ Poll \/ PollArrives \/ PollLost
           \/ \E t \in 1 .. 2 : PollHandled(t) \/ PollApplied(t)
  BY <1>3 DEF Poll, PollArrives, PollLost, PollHandled, PollApplied
<1> QED BY <1>1, <1>2, <1>3 DEF Next

\* Rows are written by the handlers of updates, creations and removals, and by
\* the poll that finds a sign-in complete.
LEMMA RowsFrame ==
  ASSUME Next
  PROVE  \/ UNCHANGED rows
         \/ ServerUpdates \/ ServerCreates \/ ServerRemoves
         \/ \E a \in Ids : RemovedElsewhere(a)
         \/ \E t \in 1 .. 2 : PollApplied(t)
<1>1. CASE \/ \E a \in (accounts \cap Originals) \cup {NoAccount} : Open(a)
           \/ Close \/ SwitchTab \/ Type \/ Save
           \/ UpdateAnswered \/ CreateAnswered
           \/ \E a \in Ids : ConfirmRemove(a)
  BY <1>1 DEF Open, Close, SwitchTab, Type, Save, UpdateAnswered, CreateAnswered,
              ConfirmRemove
<1>2. CASE \/ Start \/ Started \/ \E f \in Flows : FlowEnds(f)
           \/ Poll \/ PollArrives \/ PollLost
           \/ \E t \in 1 .. 2 : PollHandled(t)
  BY <1>2 DEF Start, Started, FlowEnds, Poll, PollArrives, PollLost, PollHandled
<1>3. CASE \/ \E f \in Folders : Toggle(f)
           \/ ServerChooses \/ ChoiceAnswered \/ Refetch \/ ListingAnswered
           \/ ListingArrives
  BY <1>3 DEF Toggle, ServerChooses, ChoiceAnswered, Refetch, ListingAnswered,
              ListingArrives
<1> QED BY <1>1, <1>2, <1>3 DEF Next

\* What the user does, the two requests and the removals touch the dialog.
LEMMA DialogFrame ==
  ASSUME Next
  PROVE  \/ UNCHANGED <<dialog, saves>>
         \/ \E a \in (accounts \cap Originals) \cup {NoAccount} : Open(a)
         \/ Close \/ SwitchTab \/ Type \/ Save
         \/ ServerUpdates \/ ServerCreates \/ UpdateAnswered \/ CreateAnswered
         \/ \E a \in Ids : ConfirmRemove(a)
         \/ ServerRemoves
<1>1. CASE \/ \E a \in Ids : RemovedElsewhere(a)
           \/ Start \/ Started \/ \E f \in Flows : FlowEnds(f)
           \/ Poll \/ PollArrives \/ PollLost
           \/ \E t \in 1 .. 2 : PollHandled(t) \/ PollApplied(t)
  BY <1>1 DEF RemovedElsewhere, Start, Started, FlowEnds, Poll, PollArrives, PollLost,
              PollHandled, PollApplied
<1>2. CASE \/ \E f \in Folders : Toggle(f)
           \/ ServerChooses \/ ChoiceAnswered \/ Refetch \/ ListingAnswered
           \/ ListingArrives
  BY <1>2 DEF Toggle, ServerChooses, ChoiceAnswered, Refetch, ListingAnswered,
              ListingArrives
<1> QED BY <1>1, <1>2 DEF Next

\* The sign-in is touched by its own steps, and goes when it is not shown.
LEMMA SignInsFrame ==
  ASSUME Next
  PROVE  \/ UNCHANGED <<signins, starting, tries, purpose>> /\ link' \in {link, NoLink}
         \/ Start \/ Started \/ \E f \in Flows : FlowEnds(f)
         \/ Poll \/ PollArrives \/ PollLost
         \/ \E t \in 1 .. 2 : PollHandled(t) \/ PollApplied(t)
<1>1. CASE \/ \E a \in (accounts \cap Originals) \cup {NoAccount} : Open(a)
           \/ Close \/ SwitchTab \/ Type \/ Save
           \/ ServerUpdates \/ ServerCreates \/ UpdateAnswered \/ CreateAnswered
  BY <1>1 DEF Open, Close, CloseDialog, SwitchTab, Type, Save, ServerUpdates,
              ServerCreates, UpdateAnswered, CreateAnswered
<1>2. CASE \/ \E a \in Ids : ConfirmRemove(a) \/ RemovedElsewhere(a)
           \/ ServerRemoves
  BY <1>2 DEF ConfirmRemove, RemovedElsewhere, ServerRemoves
<1>3. CASE \/ \E f \in Folders : Toggle(f)
           \/ ServerChooses \/ ChoiceAnswered \/ Refetch \/ ListingAnswered
           \/ ListingArrives
  BY <1>3 DEF Toggle, ServerChooses, ChoiceAnswered, Refetch, ListingAnswered,
              ListingArrives
<1> QED BY <1>1, <1>2, <1>3 DEF Next

-----------------------------------------------------------------------------
(* The folders of the inbox.                                               *)

\* Choosing folders and fetching the list keep their part of the invariant.
LEMMA FoldersKept ==
  ASSUME FoldersInv, [Next]_vars
  PROVE  FoldersInv'
<1> USE DEF FoldersInv
<1>1. CASE UNCHANGED folders
  BY <1>1 DEF folders, FoldersTyped, ListKnown, Agree, Unsettled
<1>2. ASSUME NEW f \in Folders, Toggle(f) PROVE FoldersInv'
  <2>1. /\ choosing = NoChoice /\ choosing.of = {}
        /\ choosing' = [stage |-> "sent", list |-> Toggled(f), named |-> Folders, of |-> {f}]
        /\ hasty' = (hasty \/ listing.owed)
        /\ UNCHANGED <<inbox, picker, listing, chosen, doubted>>
    BY <1>2 DEF Toggle, NoChoice
  <2>2. Toggled(f) \in SUBSET Folders
    BY DEF Toggled, FoldersTyped
  <2>3. /\ choosing'.stage = "sent" /\ choosing'.of = {f} /\ choosing'.named = Folders
        /\ choosing'.list = Toggled(f) /\ choosing' # NoChoice
    BY <2>1 DEF NoChoice
  <2>4. FoldersTyped'
    <3>1. choosing' \in ChoiceType
      BY <2>1, <2>2 DEF ChoiceType
    <3> QED BY <2>1, <3>1 DEF FoldersTyped, ListingType
  <2>5. Toggled(f) \ (doubted \cup {f}) = picker \ (doubted \cup {f})
    BY DEF Toggled
  <2>6. ASSUME ~ hasty, ~ listing.owed
        PROVE  \A s \in {inbox, picker, listing.list} :
                 s \ doubted = chosen \ doubted =>
                   s \ (doubted \cup {f}) = chosen \ (doubted \cup {f})
    OBVIOUS
  <2>7. ListKnown'
    BY <2>1, <2>3, <2>5, <2>6 DEF ListKnown, Agree, Unsettled
  <2> QED BY <2>4, <2>7
<1>3. CASE ServerChooses
  <2>1. /\ choosing.stage = "sent" /\ choosing # NoChoice
        /\ UNCHANGED <<picker, listing, chosen, doubted, hasty>>
    BY <1>3 DEF ServerChooses, NoChoice
  <2>2. PICK st \in {"done", "refused"} :
          /\ choosing' = [choosing EXCEPT !.stage = st]
          /\ \/ inbox' = (inbox \ choosing.named) \cup choosing.list
             \/ st = "refused" /\ inbox' = inbox
    BY <1>3 DEF ServerChooses
  <2>3. /\ choosing' \in ChoiceType /\ choosing'.stage = st /\ choosing'.list = choosing.list
        /\ choosing'.named = choosing.named /\ choosing'.of = choosing.of
        /\ choosing' # NoChoice
    <3>1. /\ choosing' \in ChoiceType /\ choosing'.stage = st
          /\ choosing'.list = choosing.list
          /\ choosing'.named = choosing.named /\ choosing'.of = choosing.of
      BY <2>2 DEF FoldersTyped, ChoiceType
    <3>2. NoChoice.stage = "none"
      BY DEF NoChoice
    <3> QED BY <2>2, <3>1, <3>2
  <2>4. FoldersTyped'
    BY <2>1, <2>2, <2>3 DEF FoldersTyped, ChoiceType
  <2>5. ASSUME ~ hasty PROVE inbox' = choosing.list \/ (st = "refused" /\ inbox' = inbox)
    BY <2>1, <2>2, <2>5 DEF ListKnown, FoldersTyped
  <2>6. ListKnown'
    <3> HIDE DEF FoldersInv
    <3> QED BY <2>1, <2>3, <2>5 DEF FoldersInv, ListKnown, Agree, Unsettled
  <2> QED BY <2>4, <2>6
<1>4. CASE ChoiceAnswered
  <2>1. /\ choosing' = NoChoice /\ choosing'.of = {} /\ choosing'.stage = "none"
        /\ choosing # NoChoice
        /\ UNCHANGED <<inbox, picker, hasty>>
    BY <1>4 DEF ChoiceAnswered, NoChoice
  <2>2. CASE choosing.stage = "done"
    <3>1. /\ chosen' = (chosen \ Unsettled) \cup (choosing.list \cap Unsettled)
          /\ doubted' = {} /\ listing' = [ListAsked EXCEPT !.owed = TRUE]
      BY <1>4, <2>2 DEF ChoiceAnswered, Unsettled
    <3>2. listing' \in ListingType /\ listing'.stage = "asked" /\ listing'.owed
      BY <3>1 DEF ListingType, ListAsked, NoListing
    <3>3. FoldersTyped'
      BY <2>1, <3>1, <3>2 DEF FoldersTyped, ChoiceType, NoChoice, Unsettled
    <3>4. ASSUME ~ hasty PROVE inbox' = chosen'
      <4>1. inbox = choosing.list /\ choosing.list \ Unsettled = chosen \ Unsettled
        BY <2>1, <2>2, <3>4 DEF ListKnown, Agree
      <4> QED BY <2>1, <3>1, <4>1
    <3>5. ListKnown'
      BY <2>1, <3>2, <3>4 DEF ListKnown, Agree
    <3> QED BY <3>3, <3>5
  <2>3. CASE choosing.stage = "refused"
    <3>1. doubted' = Unsettled /\ UNCHANGED <<chosen, listing>>
      BY <1>4, <2>3 DEF ChoiceAnswered, Unsettled
    <3>2. FoldersTyped'
      BY <2>1, <3>1 DEF FoldersTyped, ChoiceType, ListingType, NoChoice, Unsettled
    <3>3. Unsettled' = Unsettled
      BY <2>1, <3>1 DEF Unsettled
    <3>4. ListKnown'
      BY <2>1, <3>1, <3>3 DEF ListKnown, Agree
    <3> QED BY <3>2, <3>4
  <2>4. choosing.stage \in {"done", "refused"}
    BY <1>4 DEF ChoiceAnswered
  <2> HIDE DEF FoldersInv
  <2> QED BY <2>2, <2>3, <2>4
<1>5. CASE Refetch
  <2>1. /\ listing' = [ListAsked EXCEPT !.owed = listing.owed]
        /\ UNCHANGED <<inbox, picker, choosing, chosen, doubted, hasty>>
    BY <1>5 DEF Refetch
  <2>2. /\ listing' \in ListingType /\ listing'.stage = "asked"
        /\ listing'.owed <=> listing.owed
    BY <2>1 DEF FoldersTyped, ListingType, ListAsked, NoListing
  <2> QED BY <2>1, <2>2 DEF FoldersTyped, ListKnown, Agree, Unsettled
<1>6. CASE ListingAnswered
  <2>1. /\ listing' = [listing EXCEPT !.stage = "answered", !.list = inbox]
        /\ UNCHANGED <<inbox, picker, choosing, chosen, doubted, hasty>>
    BY <1>6 DEF ListingAnswered
  <2>2. /\ listing' \in ListingType /\ listing'.stage = "answered" /\ listing'.list = inbox
        /\ listing'.owed <=> listing.owed
    BY <2>1 DEF FoldersTyped, ListingType
  <2> QED BY <2>1, <2>2 DEF FoldersTyped, ListKnown, Agree, Unsettled
<1>7. CASE ListingArrives
  <2>1. /\ listing.stage = "answered" /\ listing' = NoListing /\ picker' = listing.list
        /\ UNCHANGED <<inbox, choosing, chosen, doubted, hasty>>
    BY <1>7 DEF ListingArrives
  <2>2. /\ listing' \in ListingType /\ listing'.stage = "none" /\ ~ listing'.owed
        /\ picker' \subseteq Folders
    BY <2>1 DEF FoldersTyped, ListingType, NoListing
  <2> QED BY <2>1, <2>2 DEF FoldersTyped, ListKnown, Agree, Unsettled
<1>8. CASE UNCHANGED vars
  BY <1>1, <1>8 DEF vars, folders
<1> QED BY <1>1, <1>2, <1>3, <1>4, <1>5, <1>6, <1>7, <1>8, FoldersFrame

-----------------------------------------------------------------------------
(* Keys.                                                                   *)

\* Every nonempty set of natural numbers has a least element.
LEMMA LeastElement ==
  ASSUME NEW T, T \subseteq Nat, T # {}
  PROVE  \E m \in T : \A k \in T : m <= k
<1> DEFINE Below == {p \in Nat \X Nat : p[1] < p[2]}
<1>1. IsWellFoundedOn(Below, Nat)
  BY NatLessThanWellFounded DEF OpToRel, Below, IsWellFoundedOn
<1>2. PICK m \in T : \A k \in T : ~ (<<k, m>> \in Below)
  <2> HIDE DEF Below
  <2> QED BY <1>1, WFMin
<1>3. ASSUME NEW k \in T PROVE m <= k
  <2>1. <<k, m>> \in Nat \X Nat /\ <<k, m>>[1] = k /\ <<k, m>>[2] = m
    OBVIOUS
  <2>2. ~ (k < m)
    BY <1>2, <2>1, Zenon DEF Below
  <2> QED BY <2>2
<1> QED BY <1>3

\* The key of a new row is larger than those there are, and at most one more
\* than any bound of theirs.
LEMMA NextIdIsNew ==
  ASSUME accounts \subseteq Ids, id \in [Ids -> Ids], NEW m \in Nat,
         \A a \in accounts : id[a] <= m
  PROVE  NextId \in 1 .. m + 1 /\ \A a \in accounts : id[a] < NextId
<1> DEFINE U == {u \in Nat : \A a \in accounts : id[a] <= u}
<1>1. \A a \in accounts : id[a] \in 1 .. MaxAccounts
  OBVIOUS
<1>2. PICK u \in U : \A v \in U : u <= v
  <2>1. m \in U /\ U \subseteq Nat
    OBVIOUS
  <2> HIDE DEF U
  <2> QED BY <2>1, LeastElement
<1>3. u \in {id[a] : a \in accounts} \cup {0}
  <2>1. CASE u = 0
    BY <2>1
  <2>2. CASE u # 0
    <3>1. u - 1 \in Nat /\ u - 1 \notin U
      BY <1>2, <2>2
    <3>2. PICK a \in accounts : ~ (id[a] <= u - 1)
      BY <3>1
    <3>3. id[a] = u
      BY <1>1, <1>2, <3>2
    <3> QED BY <3>3
  <2> QED BY <2>1, <2>2
<1> DEFINE i == CHOOSE j \in 0 .. MaxAccounts : /\ j \in {id[a] : a \in accounts} \cup {0}
                                                /\ \A a \in accounts : id[a] <= j
<1>4. /\ i \in 0 .. MaxAccounts
      /\ i \in {id[a] : a \in accounts} \cup {0} /\ \A a \in accounts : id[a] <= i
  <2>1. u \in 0 .. MaxAccounts
    BY <1>1, <1>3
  <2> QED BY <1>2, <1>3, <2>1
<1>5. NextId = 1 + i
  BY DEF NextId
<1> HIDE DEF i
<1>6. i <= m
  <2>1. CASE i = 0
    BY <2>1
  <2>2. CASE i # 0
    BY <1>4, <2>2
  <2> QED BY <2>1, <2>2
<1>7. NextId \in 1 .. m + 1
  BY <1>4, <1>5, <1>6
<1>8. \A a \in accounts : id[a] < NextId
  BY <1>1, <1>4, <1>5
<1> QED BY <1>7, <1>8

\* Whether an account has the key of an earlier one is settled when it is made.
LEMMA SucceedsKept ==
  ASSUME made \in Nat, made' \in Nat, made <= made',
         \A b \in 1 .. made : id'[b] = id[b], NEW a \in 1 .. made
  PROVE  Succeeds(a)' <=> Succeeds(a)
<1>1. ASSUME NEW b \in 1 .. made', b < a PROVE b \in 1 .. made
  BY <1>1
<1>2. 1 .. made \subseteq 1 .. made'
  OBVIOUS
<1>3. id'[a] = id[a]
  OBVIOUS
<1>4. Succeeds(a)' => Succeeds(a)
  BY <1>1, <1>3 DEF Succeeds
<1>5. Succeeds(a) => Succeeds(a)'
  BY <1>2, <1>3 DEF Succeeds
<1> QED BY <1>4, <1>5

\* The row that has the key of an account there was at first is this account
\* or a successor of it; and this account succeeds no other.
LEMMA RowOfOriginal ==
  ASSUME RowsTyped, KeysInOrder, NEW i \in Originals
  PROVE  /\ \A a \in Row(i) : a = i \/ Succeeds(a)
         /\ ~ Succeeds(i)
<1>1. \A b \in 1 .. i : b \in Originals
  OBVIOUS
<1>2. ~ Succeeds(i)
  BY <1>1 DEF KeysInOrder, Succeeds
<1>3. ASSUME NEW a \in Row(i) PROVE a = i \/ Succeeds(a)
  <2>1. a \in 1 .. made /\ made \in Nat /\ made <= MaxAccounts /\ id[a] = i
    BY <1>3 DEF RowsTyped, Row
  <2>2. a \in Ids
    BY <2>1
  <2>3. id[i] = i /\ i <= a /\ Cardinality(Originals) <= made
    BY <2>1, <2>2 DEF KeysInOrder
  <2>4. i \in 1 .. made
    BY <2>1, <2>3
  <2> QED BY <2>1, <2>3, <2>4 DEF Succeeds
<1> QED BY <1>2, <1>3

-----------------------------------------------------------------------------
(* The rows.                                                               *)

\* The ranges of the numbers of accounts.
LEMMA RowsRange ==
  ASSUME RowsTyped, KeysInOrder
  PROVE  /\ made \in Nat /\ made <= MaxAccounts
         /\ accounts \subseteq 1 .. made /\ accounts \subseteq Ids
         /\ 1 .. made \subseteq Ids /\ Originals \subseteq 1 .. made
         /\ \A a \in accounts : id[a] <= made
<1>1. made \in Nat /\ made <= MaxAccounts /\ accounts \subseteq 1 .. made
  BY DEF RowsTyped
<1>2. Cardinality(Originals) <= made /\ \A a \in Ids : id[a] <= a
  BY DEF KeysInOrder
<1>3. \A a \in Ids : id[a] \in Nat
  BY DEF RowsTyped
<1>4. accounts \subseteq Ids /\ 1 .. made \subseteq Ids /\ Originals \subseteq 1 .. made
  BY <1>1, <1>2
<1>5. \A a \in accounts : id[a] <= made
  BY <1>1, <1>2, <1>3, <1>4
<1> QED BY <1>1, <1>4, <1>5

\* An account that is inserted has its own settings and a key of its own.
LEMMA InsertKeeps ==
  ASSUME RowsInv, made < MaxAccounts, NEW p \in {Fresh, Empty},
         NEW f \in Flows \cup {NoFlow}, Insert(Fresh, p, f)
  PROVE  /\ RowsInv'
         /\ made' = made + 1
         /\ \A a \in 1 .. made : id'[a] = id[a]
<1> DEFINE a == made + 1
<1>1. /\ accounts' = accounts \cup {a} /\ made' = a
      /\ id' = [id EXCEPT ![a] = NextId]
      /\ name' = [name EXCEPT ![a] = Fresh]
      /\ password' = [password EXCEPT ![a] = p]
      /\ signed_by' = [signed_by EXCEPT ![a] = f]
  BY DEF Insert
<1>0. /\ made \in Nat /\ made <= MaxAccounts
      /\ accounts \subseteq 1 .. made /\ accounts \subseteq Ids
      /\ 1 .. made \subseteq Ids /\ Originals \subseteq 1 .. made
      /\ \A b \in accounts : id[b] <= made
  BY RowsRange DEF RowsInv
<1>2. a \in Ids /\ a \notin accounts /\ a \notin Originals
  BY <1>0
<1>3. NextId \in 1 .. made + 1 /\ \A b \in accounts : id[b] < NextId
  <2>1. accounts \subseteq Ids /\ made \in Nat /\ \A b \in accounts : id[b] <= made
    BY <1>0
  <2>2. id \in [Ids -> Ids]
    BY DEF RowsInv, RowsTyped
  <2> QED BY <2>1, <2>2, NextIdIsNew
<1>4. /\ \A b \in 1 .. made : id'[b] = id[b]
      /\ \A b \in Ids \ {a} : id'[b] = id[b] /\ signed_by'[b] = signed_by[b]
      /\ \A b \in accounts : name'[b] = name[b] /\ password'[b] = password[b]
      /\ id'[a] = NextId /\ name'[a] = Fresh /\ password'[a] = p
  <2>1. /\ \A b \in Ids \ {a} : /\ id'[b] = id[b] /\ signed_by'[b] = signed_by[b]
                                 /\ name'[b] = name[b] /\ password'[b] = password[b]
        /\ id'[a] = NextId /\ name'[a] = Fresh /\ password'[a] = p
    <3> HIDE DEF a
    <3> QED BY <1>1, <1>2 DEF RowsInv, RowsTyped
  <2>2. 1 .. made \subseteq Ids \ {a} /\ accounts \subseteq Ids \ {a}
    BY <1>0, <1>2
  <2> QED BY <2>1, <2>2
<1>5. RowsTyped'
  <2>1. accounts' \subseteq 1 .. made' /\ made' \in 0 .. MaxAccounts
    BY <1>0, <1>1
  <2>2. /\ id' \in [Ids -> Ids]
        /\ name' \in [Ids -> Owners] /\ password' \in [Ids -> Owners]
        /\ signed_by' \in [Ids -> Flows \cup {NoFlow}]
    <3>1. NextId \in Ids /\ Fresh \in Owners /\ p \in Owners
      BY <1>0, <1>3
    <3> QED BY <1>1, <3>1 DEF RowsInv, RowsTyped
  <2>3. ASSUME NEW b \in accounts', NEW c \in accounts', id'[b] = id'[c] PROVE b = c
    <3>1. \A d \in accounts : id'[d] = id[d] /\ id[d] # NextId
      <4>1. \A d \in accounts : id[d] \in Nat /\ id[d] < NextId /\ d \in 1 .. made
        BY <1>0, <1>3 DEF RowsInv, RowsTyped
      <4> QED BY <1>3, <1>4, <4>1
    <3>2. b \in accounts \cup {a} /\ c \in accounts \cup {a}
      BY <1>1, <2>3
    <3>3. \A d, e \in accounts : id[d] = id[e] => d = e
      BY DEF RowsInv, RowsTyped
    <3> HIDE DEF a
    <3> QED BY <1>4, <2>3, <3>1, <3>2, <3>3
  <2> QED BY <2>1, <2>2, <2>3 DEF RowsTyped
<1>6. KeysInOrder'
  <2>1. Cardinality(Originals) <= made' /\ \A b \in Originals : id'[b] = b
    BY <1>0, <1>1, <1>4 DEF RowsInv, KeysInOrder
  <2>2. \A b \in Ids : id'[b] <= b
    BY <1>3, <1>4 DEF RowsInv, KeysInOrder
  <2>3. \A b \in Ids : signed_by'[b] # NoFlow => b <= made'
    BY <1>0, <1>1, <1>4 DEF RowsInv, KeysInOrder
  <2> QED BY <2>1, <2>2, <2>3 DEF KeysInOrder
<1>7. OwnSettings'
  <2>1. \A b \in accounts : Succeeds(b)' <=> Succeeds(b)
    <3>1. made' \in Nat /\ made <= made'
      BY <1>0, <1>1
    <3> QED BY <1>0, <1>4, <3>1, SucceedsKept
  <2> HIDE DEF a
  <2> QED BY <1>1, <1>2, <1>4, <2>1 DEF RowsInv, OwnSettings
<1> QED BY <1>1, <1>4, <1>5, <1>6, <1>7 DEF RowsInv

\* No step takes an account's settings from another, except from one whose
\* key it has.
LEMMA RowsKept ==
  ASSUME RowsInv, DialogInv, SignInsInv, [Next]_vars
  PROVE  RowsInv'
<1>1. CASE UNCHANGED rows
  BY <1>1 DEF rows, RowsInv, RowsTyped, KeysInOrder, OwnSettings, Succeeds
<1>2. CASE ServerUpdates
  <2>1. UNCHANGED <<accounts, id, made, signed_by>> /\ updating.stage = "sent"
    BY <1>2 DEF ServerUpdates
  <2>2. CASE UNCHANGED <<name, password>>
    BY <1>1, <2>1, <2>2 DEF rows
  <2>3. CASE ~ UNCHANGED <<name, password>>
    <3>1. PICK a \in Row(updating.of) :
            /\ name' = [name EXCEPT ![a] = updating.name]
            /\ password' = [password EXCEPT ![a] = IF updating.password = Empty THEN @
                                                   ELSE updating.password]
      BY <1>2, <2>3 DEF ServerUpdates
    <3>2. /\ updating.of \in Originals /\ updating.name = updating.of
          /\ updating.password \in {updating.of, Empty}
      BY <2>1 DEF DialogInv, FormsOwn
    <3>3. a = updating.of \/ Succeeds(a)
      BY <3>2, RowOfOriginal DEF RowsInv
    <3>4. a \in accounts /\ accounts \subseteq Ids
      BY <3>1, RowsRange DEF Row, RowsInv
    <3>5. /\ \A b \in accounts \ {a} : name'[b] = name[b] /\ password'[b] = password[b]
          /\ name'[a] = updating.of /\ password'[a] \in {updating.of, password[a]}
      BY <3>1, <3>2, <3>4 DEF RowsInv, RowsTyped
    <3>6. RowsTyped'
      <4>1. updating.of \in Owners
        BY <3>2
      <4> QED BY <2>1, <3>1, <3>2, <4>1 DEF RowsInv, RowsTyped
    <3>7. KeysInOrder'
      BY <2>1 DEF RowsInv, KeysInOrder
    <3>8. OwnSettings'
      <4>1. \A b \in accounts : Succeeds(b)' <=> Succeeds(b)
        BY <2>1 DEF Succeeds
      <4> QED BY <2>1, <3>2, <3>3, <3>4, <3>5, <4>1 DEF RowsInv, OwnSettings
    <3> QED BY <3>6, <3>7, <3>8 DEF RowsInv
  <2> QED BY <2>2, <2>3
<1>3. CASE ServerCreates
  <2>1. CASE UNCHANGED rows
    BY <1>1, <2>1
  <2>2. CASE made < MaxAccounts /\ Insert(creating.name, creating.password, NoFlow)
    <3>1. creating.name = Fresh /\ creating.password \in {Fresh, Empty}
      BY <1>3 DEF ServerCreates, DialogInv, FormsOwn
    <3> QED BY <2>2, <3>1, InsertKeeps
  <2> QED BY <1>3, <2>1, <2>2 DEF ServerCreates
<1>4. CASE ServerRemoves \/ \E a \in Ids : RemovedElsewhere(a)
  <2>1. accounts' \subseteq accounts /\ UNCHANGED <<id, made, name, password, signed_by>>
    BY <1>4 DEF ServerRemoves, RemovedElsewhere
  <2> QED BY <2>1 DEF RowsInv, RowsTyped, KeysInOrder, OwnSettings, Succeeds
<1>5. ASSUME NEW t \in 1 .. 2, PollApplied(t) PROVE RowsInv'
  <2>1. /\ tries[t].stage = "taken" /\ tries[t].flow \in Flows
    BY <1>5 DEF PollApplied, SignInsInv, TriesOwned
  <2>2. CASE UNCHANGED rows
    BY <1>1, <2>2
  <2>3. ASSUME NEW a \in Row(tries[t].meta),
               signed_by' = [signed_by EXCEPT ![a] = tries[t].flow],
               UNCHANGED <<accounts, id, made, name, password>>
        PROVE  RowsInv'
    <3>1. a \in accounts /\ accounts \subseteq 1 .. made
      BY <2>3, RowsRange DEF Row, RowsInv
    <3>2. RowsTyped'
      BY <2>1, <2>3 DEF RowsInv, RowsTyped
    <3>3. KeysInOrder'
      <4>1. \A b \in Ids : signed_by'[b] = signed_by[b] \/ b = a
        BY <2>3 DEF RowsInv, RowsTyped
      <4> QED BY <2>3, <3>1, <4>1 DEF RowsInv, KeysInOrder
    <3>4. OwnSettings'
      BY <2>3 DEF RowsInv, OwnSettings, Succeeds
    <3> QED BY <3>2, <3>3, <3>4 DEF RowsInv
  <2>4. CASE made < MaxAccounts /\ Insert(Fresh, Fresh, tries[t].flow)
    BY <2>1, <2>4, InsertKeeps
  <2> QED BY <1>5, <2>2, <2>3, <2>4 DEF PollApplied
<1>6. CASE UNCHANGED vars
  BY <1>1, <1>6 DEF vars
<1> QED BY <1>1, <1>2, <1>3, <1>4, <1>5, <1>6, RowsFrame

-----------------------------------------------------------------------------
(* The dialog and its requests.                                            *)

\* Who uses the dialog types or sends only what belongs to its account.
LEMMA DialogKept ==
  ASSUME RowsInv, DialogInv, [Next]_vars
  PROVE  DialogInv'
<1> USE DEF DialogInv
<1>1. CASE UNCHANGED <<dialog, saves>>
  BY <1>1 DEF dialog, saves, DialogTyped, FormsOwn, Mine, isEdit
<1>2. ASSUME NEW a \in (accounts \cap Originals) \cup {NoAccount}, Open(a)
      PROVE  DialogInv'
  <2>1. /\ modalOpen' = TRUE /\ editing' = a /\ tab' = "basic" /\ createdId' = FALSE
        /\ form' = FormFor(a) /\ UNCHANGED saves
    BY <1>2 DEF Open
  <2>2. Mine' = a
    BY <2>1 DEF Mine, isEdit
  <2>3. form' \in [name : {a, Empty}, password : {a, Empty}]
    <3>1. CASE a = NoAccount
      BY <2>1, <3>1 DEF FormFor, EmptyForm
    <3>2. CASE a # NoAccount
      <4>1. name[a] = a
        BY <3>2, RowOfOriginal DEF RowsInv, OwnSettings
      <4> QED BY <2>1, <3>2, <4>1 DEF FormFor
    <3> QED BY <3>1, <3>2
  <2>4. form' \in [name : Owners, password : Owners]
    <3>1. {a, Empty} \subseteq Owners
      OBVIOUS
    <3> QED BY <2>3, <3>1
  <2>5. DialogTyped'
    <3>1. modalOpen' \in BOOLEAN /\ createdId' \in BOOLEAN
      BY <2>1
    <3> QED BY <2>1, <2>4, <3>1 DEF saves, DialogTyped
  <2>6. FormsOwn'
    BY <2>1, <2>2, <2>3 DEF saves, FormsOwn
  <2> QED BY <2>5, <2>6
<1>3. CASE CloseDialog /\ UNCHANGED <<tab, form, createdId, creating, removing>>
             /\ updating' \in {updating, NoSave}
  <2>1. modalOpen' = FALSE /\ modalOpen' \in BOOLEAN /\ editing' = NoAccount
    BY <1>3 DEF CloseDialog
  <2>2. DialogTyped'
    <3>1. NoSave \in [stage : {"none", "sent", "done", "refused"},
                      of : Owners, name : Owners, password : Owners]
      BY DEF NoSave
    <3> QED BY <1>3, <2>1, <3>1 DEF DialogTyped
  <2>3. FormsOwn'
    BY <1>3, <2>1 DEF FormsOwn, NoSave
  <2> QED BY <2>2, <2>3
<1>4. CASE Close
  BY <1>3, <1>4 DEF Close, saves
<1>5. CASE SwitchTab
  BY <1>5 DEF SwitchTab, saves, DialogTyped, FormsOwn, Mine, isEdit
<1>6. CASE Type
  <2>1. modalOpen /\ UNCHANGED <<modalOpen, editing, tab, createdId, saves>>
    BY <1>6 DEF Type, FormShown, Shows, DialogTyped
  <2>2. Mine' = Mine /\ Mine \in Owners
    BY <2>1 DEF Mine, isEdit, DialogTyped
  <2>3. form' = [form EXCEPT !.name = Mine] \/ form' = [form EXCEPT !.password = Mine]
    BY <1>6 DEF Type
  <2>4. DialogTyped'
    BY <2>1, <2>2, <2>3 DEF saves, DialogTyped
  <2>5. FormsOwn'
    BY <2>1, <2>2, <2>3 DEF saves, DialogTyped, FormsOwn
  <2> QED BY <2>4, <2>5
<1>7. CASE Save
  <2> DEFINE request == [stage |-> "sent", of |-> editing, name |-> form.name,
                         password |-> form.password]
  <2>1. /\ UNCHANGED dialog /\ form.name # Empty
        /\ \/ isEdit /\ updating' = request /\ UNCHANGED <<creating, removing>>
           \/ ~ isEdit /\ creating' = request /\ UNCHANGED <<updating, removing>>
    BY <1>7 DEF Save
  <2>2. form.name = Mine /\ form.password \in {Mine, Empty}
    <3>1. modalOpen
      BY <1>7 DEF Save, FormShown, Shows, DialogTyped
    <3>2. {form.name, form.password} \subseteq {Mine, Empty}
      BY <3>1 DEF FormsOwn
    <3> QED BY <2>1, <3>2
  <2>3. editing \in Owners /\ form.name \in Owners /\ form.password \in Owners
    BY DEF DialogTyped
  <2>4. /\ request \in [stage : {"none", "sent", "done", "refused"},
                       of : Owners, name : Owners, password : Owners]
        /\ request.of = editing /\ request.name = Mine
        /\ request.password \in {Mine, Empty}
    BY <2>2, <2>3
  <2> HIDE DEF request
  <2>5. DialogTyped'
    BY <2>1, <2>4 DEF dialog, DialogTyped
  <2>6. CASE isEdit
    <3>1. Mine = editing /\ editing \in Originals
      BY <2>6 DEF Mine, isEdit, DialogTyped
    <3> QED BY <2>1, <2>4, <2>5, <2>6, <3>1 DEF dialog, FormsOwn, Mine, isEdit
  <2>7. CASE ~ isEdit
    <3>1. Mine = Fresh
      BY <2>7 DEF Mine
    <3> QED BY <2>1, <2>4, <2>5, <2>7, <3>1 DEF dialog, FormsOwn, Mine, isEdit
  <2> QED BY <2>6, <2>7
<1>8. CASE ServerUpdates
  <2>1. /\ updating.stage = "sent" /\ UNCHANGED <<dialog, creating, removing>>
        /\ \E s \in {"done", "refused"} : updating' = [updating EXCEPT !.stage = s]
    BY <1>8 DEF ServerUpdates
  <2>2. /\ updating'.of = updating.of /\ updating'.name = updating.name
        /\ updating'.password = updating.password /\ updating'.stage # "none"
        /\ updating' \in [stage : {"none", "sent", "done", "refused"},
                          of : Owners, name : Owners, password : Owners]
    BY <2>1 DEF DialogTyped
  <2>3. DialogTyped'
    BY <2>1, <2>2 DEF dialog, DialogTyped
  <2>4. FormsOwn'
    BY <2>1, <2>2 DEF dialog, FormsOwn, Mine, isEdit
  <2> QED BY <2>3, <2>4
<1>9. CASE ServerCreates
  <2>1. /\ creating.stage = "sent" /\ UNCHANGED <<dialog, updating, removing>>
        /\ \E s \in {"done", "refused"} : creating' = [creating EXCEPT !.stage = s]
    BY <1>9 DEF ServerCreates
  <2>2. /\ creating'.name = creating.name /\ creating'.password = creating.password
        /\ creating' \in [stage : {"none", "sent", "done", "refused"},
                          of : Owners, name : Owners, password : Owners]
    BY <2>1 DEF DialogTyped
  <2>3. DialogTyped'
    BY <2>1, <2>2 DEF dialog, DialogTyped
  <2>4. FormsOwn'
    BY <2>1, <2>2 DEF dialog, FormsOwn, Mine, isEdit
  <2> QED BY <2>3, <2>4
<1>10. CASE UpdateAnswered
  <2>1. CASE CloseDialog
    BY <1>3, <1>10, <2>1 DEF UpdateAnswered
  <2>2. CASE UNCHANGED <<modalOpen, editing, link>>
    BY <1>10, <2>2 DEF UpdateAnswered, DialogTyped, FormsOwn, Mine, isEdit, NoSave
  <2> QED BY <1>10, <2>1, <2>2 DEF UpdateAnswered
<1>11. CASE CreateAnswered
  <2>1. createdId' \in BOOLEAN
    BY <1>11 DEF CreateAnswered, DialogTyped
  <2> QED BY <1>11, <2>1 DEF CreateAnswered, DialogTyped, FormsOwn, Mine, isEdit, NoSave
<1>12. CASE ServerRemoves \/ \E a \in Ids : ConfirmRemove(a)
  <2>1. UNCHANGED <<dialog, creating, updating>> /\ removing' \in Ids \cup {Empty}
    BY <1>12 DEF ServerRemoves, ConfirmRemove, RowsInv, RowsTyped
  <2> QED BY <2>1 DEF dialog, DialogTyped, FormsOwn, Mine, isEdit
<1>13. CASE UNCHANGED vars
  BY <1>1, <1>13 DEF vars
<1> HIDE DEF DialogInv
<1> QED BY <1>1, <1>2, <1>4, <1>5, <1>6, <1>7, <1>8, <1>9, <1>10, <1>11, <1>12, <1>13,
           DialogFrame

-----------------------------------------------------------------------------
(* The sign-in.                                                            *)

\* The records a poll and its tries start from, and what a failed try leaves.
LEMMA Records ==
  /\ NoLink \in LinkType /\ NoTry \in TryType
  /\ NoLink.flow = NoFlow /\ ~ NoLink.start /\ NoLink.awaited = 0
  /\ NoLink.told = "nothing" /\ NoTry.stage = "none"
  /\ \A t \in 1 .. 2 : GivenUp(t) \in {tries[t], NoTry}
BY DEF NoLink, NoTry, LinkType, TryType, GivenUp

\* What a try that fails, or takes the sign-in, makes of the poll query.
Goes(k, l, w) ==
  /\ l \in LinkType /\ l.flow = k.flow /\ l.awaited = w
  /\ l.told = k.told /\ (l.start <=> k.start)

LEMMA LinkGoesOn ==
  ASSUME NEW k \in LinkType, NEW w \in 0 .. 2, NEW b \in BOOLEAN, NEW c \in BOOLEAN
  PROVE  /\ Goes(k, [k EXCEPT !.unheard = b], k.awaited)
         /\ Goes(k, [k EXCEPT !.awaited = w, !.unheard = b], w)
         /\ Goes(k, [k EXCEPT !.awaited = w, !.unheard = b, !.stalled = c], w)
<1>1. ASSUME NEW l \in LinkType
      PROVE  /\ Goes(l, [l EXCEPT !.unheard = b], l.awaited)
             /\ Goes(l, [l EXCEPT !.stalled = c], l.awaited)
             /\ Goes(l, [l EXCEPT !.awaited = w], w)
  BY DEF Goes, LinkType
<1> DEFINE k1 == [k EXCEPT !.awaited = w]
           k2 == [k1 EXCEPT !.unheard = b]
           k3 == [k2 EXCEPT !.stalled = c]
<1>2. /\ [k EXCEPT !.awaited = w, !.unheard = b] = k2
      /\ [k EXCEPT !.awaited = w, !.unheard = b, !.stalled = c] = k3
  OBVIOUS
<1>3. Goes(k, k1, w)
  BY <1>1
<1>4. k1 \in LinkType /\ k1.awaited = w
  BY <1>3 DEF Goes
<1> HIDE DEF k1
<1>5. Goes(k1, k2, w)
  BY <1>1, <1>4
<1>6. k2 \in LinkType /\ k2.awaited = w
  BY <1>5 DEF Goes
<1> HIDE DEF k2
<1>7. Goes(k2, k3, w)
  BY <1>1, <1>6
<1> HIDE DEF k3
<1> QED BY <1>1, <1>2, <1>3, <1>5, <1>7 DEF Goes

\* An answer reaches the try's record when it is waited for, and ends it.
LEMMA AnswerRecord ==
  ASSUME tries \in [1 .. 2 -> TryType], NEW t \in 1 .. 2,
         NEW answer \in {"pending", "complete", "error", "refused"}, Answer(t, answer)
  PROVE  \E r \in TryType :
           /\ tries' = [tries EXCEPT ![t] = r]
           /\ link.awaited = t => r.flow = tries[t].flow
           /\ \/ r.stage = "none"
              \/ r.stage = "answered" /\ r.flow = tries[t].flow /\ r.answer = answer
<1>1. CASE link.awaited = t
  <2>1. tries' = [tries EXCEPT ![t] = [tries[t] EXCEPT !.stage = "answered",
                                                       !.answer = answer]]
    BY <1>1 DEF Answer
  <2>2. tries[t] \in TryType /\ Empty \in Owners
    OBVIOUS
  <2> DEFINE r == [tries[t] EXCEPT !.stage = "answered", !.answer = answer]
  <2>3. /\ r \in TryType /\ r.stage = "answered" /\ r.answer = answer
        /\ r.flow = tries[t].flow
    BY <2>2 DEF TryType
  <2> HIDE DEF r
  <2> QED BY <2>1, <2>3 DEF r
<1>2. CASE link.awaited # t
  <2>1. tries' = [tries EXCEPT ![t] = NoTry]
    BY <1>2 DEF Answer
  <2> QED BY <1>2, <2>1, Records
<1> QED BY <1>1, <1>2

\* The record of a try that has been sent.
Sent(f) == [NoTry EXCEPT !.stage = "asked", !.flow = f]

\* It is a record of a try, for that sign-in.
LEMMA SentRecord ==
  ASSUME NEW f \in Flows
  PROVE  Sent(f) \in TryType /\ Sent(f).stage = "asked" /\ Sent(f).flow = f
<1>1. \A r \in TryType :
        LET q == [r EXCEPT !.stage = "asked", !.flow = f] IN
          q \in TryType /\ q.stage = "asked" /\ q.flow = f
  BY DEF TryType
<1>2. NoTry \in TryType
  BY Records
<1> QED BY <1>1, <1>2 DEF Sent

\* A change of one try is a change of no other.
LEMMA TryChanged ==
  ASSUME tries \in [1 .. 2 -> TryType], NEW t \in 1 .. 2, NEW r \in TryType,
         tries' = [tries EXCEPT ![t] = r]
  PROVE  /\ tries' \in [1 .. 2 -> TryType] /\ tries'[t] = r
         /\ \A u \in 1 .. 2 \ {t} : tries'[u] = tries[u]
OBVIOUS

\* Which account uses which sign-in changes only when a poll is applied, and
\* who succeeds whom never does.
LEMMA SignedKept ==
  ASSUME RowsInv, [Next]_vars, ~ \E t \in 1 .. 2 : PollApplied(t)
  PROVE  /\ signed_by' = signed_by
         /\ \A a \in 1 .. made : Succeeds(a)' <=> Succeeds(a)
<1>1. CASE UNCHANGED <<id, made, signed_by>>
  BY <1>1 DEF Succeeds
<1>2. CASE ServerCreates /\ ~ UNCHANGED rows
  <2>1. /\ made < MaxAccounts
        /\ Insert(creating.name, creating.password, NoFlow)
    BY <1>2 DEF ServerCreates
  <2>2. /\ made' = made + 1
        /\ id' = [id EXCEPT ![made + 1] = NextId]
        /\ signed_by' = [signed_by EXCEPT ![made + 1] = NoFlow]
    BY <2>1 DEF Insert
  <2>3. made \in Nat /\ made + 1 \in Ids /\ 1 .. made \subseteq Ids \ {made + 1}
    BY <2>1, RowsRange DEF RowsInv
  <2>4. signed_by[made + 1] = NoFlow
    BY <2>3 DEF RowsInv, KeysInOrder
  <2>5. signed_by' = signed_by
    BY <2>2, <2>3, <2>4 DEF RowsInv, RowsTyped
  <2>6. \A a \in 1 .. made : id'[a] = id[a]
    BY <2>2, <2>3 DEF RowsInv, RowsTyped
  <2> QED BY <2>2, <2>3, <2>5, <2>6, SucceedsKept
<1>3. CASE ServerUpdates \/ ServerRemoves \/ \E a \in Ids : RemovedElsewhere(a)
  BY <1>1, <1>3 DEF ServerUpdates, ServerRemoves, RemovedElsewhere
<1>4. CASE UNCHANGED rows
  BY <1>1, <1>4 DEF rows
<1>5. CASE UNCHANGED vars
  BY <1>4, <1>5 DEF vars
<1> QED BY <1>2, <1>3, <1>4, <1>5, RowsFrame

\* The steps between the start of a sign-in and its use.
LEMMA SignInsMove ==
  ASSUME RowsInv, DialogInv, SignInsInv, [Next]_vars,
         ~ \E t \in 1 .. 2 : PollApplied(t)
  PROVE  SignInsInv'
<1>1. signed_by' = signed_by /\ \A a \in 1 .. made : Succeeds(a)' <=> Succeeds(a)
  BY SignedKept
<1>2. \A f : Signed(f)' = Signed(f)
  BY <1>1 DEF Signed
<1>3. ASSUME \A f \in Flows : Signed(f) # {} => purpose'[f] = purpose[f]
      PROVE  SignedRight'
  <2>1. ASSUME NEW f \in Flows, NEW a \in Signed(f)
        PROVE  IF purpose'[f] = NoAccount THEN a \notin Originals
               ELSE a = purpose'[f] \/ Succeeds(a)'
    <3>1. a \in Ids /\ signed_by[a] # NoFlow
      BY <2>1 DEF Signed
    <3>2. a \in 1 .. made
      BY <3>1 DEF RowsInv, KeysInOrder, RowsTyped
    <3>3. purpose'[f] = purpose[f] /\ (Succeeds(a)' <=> Succeeds(a))
      BY <1>1, <1>3, <2>1, <3>2
    <3> QED BY <2>1, <3>3 DEF SignInsInv, SignedRight
  <2> QED BY <1>1, <1>2, <2>1 DEF SignInsInv, SignedRight
<1>4. CASE UNCHANGED <<signins, starting, tries, purpose>> /\ link' \in {link, NoLink}
  <2>1. SignInsTyped'
    <3>1. link' \in LinkType
      BY <1>4, Records DEF SignInsInv, SignInsTyped
    <3> QED BY <1>4, <3>1 DEF SignInsInv, SignInsTyped, signins
  <2>2. FlowsOwned' /\ TriesOwned'
    BY <1>2, <1>4 DEF SignInsInv, FlowsOwned, TriesOwned, signins
  <2>3. CASE link' = link
    <3>1. LinkOwned'
      BY <1>2, <1>4, <2>3 DEF SignInsInv, LinkOwned
    <3> QED BY <1>3, <1>4, <2>1, <2>2, <3>1 DEF SignInsInv
  <2>4. CASE link' = NoLink
    <3>1. LinkOwned'
      BY <2>4, Records DEF LinkOwned
    <3> QED BY <1>3, <1>4, <2>1, <2>2, <3>1 DEF SignInsInv
  <2> QED BY <1>4, <2>3, <2>4
<1>5. CASE Start
  <2>1. /\ starting' = editing /\ link.flow = NoFlow
        /\ link' = [link EXCEPT !.start = TRUE] /\ UNCHANGED <<signins, tries, purpose>>
    BY <1>5 DEF Start
  <2>2. editing \in Originals \cup {NoAccount} /\ editing \in Owners
    <3>1. editing \in Originals \cup {NoAccount}
      BY DEF DialogInv, DialogTyped
    <3>2. \A a \in Originals \cup {NoAccount} : a \in Owners
      OBVIOUS
    <3> QED BY <3>1, <3>2
  <2>3. SignInsTyped'
    <3>1. link' \in LinkType
      <4>1. link \in LinkType
        BY DEF SignInsInv, SignInsTyped
      <4> QED BY <2>1, <4>1 DEF LinkType
    <3> QED BY <2>1, <2>2, <3>1 DEF SignInsInv, SignInsTyped, signins
  <2>4. FlowsOwned' /\ TriesOwned'
    BY <1>2, <2>1, <2>2 DEF SignInsInv, FlowsOwned, TriesOwned, signins
  <2>5. LinkOwned'
    BY <1>2, <2>1 DEF SignInsInv, LinkOwned, SignInsTyped, LinkType
  <2> QED BY <1>3, <2>1, <2>3, <2>4, <2>5 DEF SignInsInv
<1>6. CASE Started
  <2>1. starting # Empty /\ starting' = Empty /\ UNCHANGED tries
    BY <1>6 DEF Started
  <2>2. CASE link' = [link EXCEPT !.start = FALSE] /\ UNCHANGED <<signins, purpose>>
    <3>1. SignInsTyped'
      <4>1. link' \in LinkType
        BY <2>2 DEF SignInsInv, SignInsTyped, LinkType
      <4> QED BY <2>1, <2>2, <4>1 DEF SignInsInv, SignInsTyped, signins
    <3>2. FlowsOwned' /\ TriesOwned'
      BY <1>2, <2>1, <2>2 DEF SignInsInv, FlowsOwned, TriesOwned, signins
    <3>3. LinkOwned'
      BY <1>2, <2>1, <2>2 DEF SignInsInv, LinkOwned, SignInsTyped, LinkType
    <3> QED BY <1>3, <2>2, <3>1, <3>2, <3>3 DEF SignInsInv
  <2>3. CASE ~ (link' = [link EXCEPT !.start = FALSE] /\ UNCHANGED <<signins, purpose>>)
    <3>1. PICK f \in Flows :
            /\ purpose[f] = Empty
            /\ purpose' = [purpose EXCEPT ![f] = starting]
            /\ _flows' = [_flows EXCEPT ![f] = "pending"]
            /\ _pending_metadata' = [_pending_metadata EXCEPT ![f] = starting]
            /\ link' = IF link.start THEN [link EXCEPT !.flow = f, !.start = FALSE]
                       ELSE link
      BY <1>6, <2>3 DEF Started
    <3>2. Signed(f) = {} /\ _flows[f] = "none"
      BY <3>1 DEF SignInsInv, FlowsOwned
    <3>3. SignInsTyped'
      <4>1. link' \in LinkType
        BY <3>1 DEF SignInsInv, SignInsTyped, LinkType
      <4> QED BY <2>1, <3>1, <4>1 DEF SignInsInv, SignInsTyped
    <3>4. \A g \in Flows \ {f} : /\ purpose'[g] = purpose[g] /\ _flows'[g] = _flows[g]
                                /\ _pending_metadata'[g] = _pending_metadata[g]
      BY <3>1 DEF SignInsInv, SignInsTyped
    <3>5. FlowsOwned'
      BY <1>2, <2>1, <3>1, <3>2, <3>4 DEF SignInsInv, SignInsTyped, FlowsOwned
    <3>6. \A t \in 1 .. 2 : tries[t].stage = "taken" => tries[t].flow \in Flows \ {f}
      BY <3>1 DEF SignInsInv, TriesOwned
    <3>7. TriesOwned'
      BY <1>2, <2>1, <3>4, <3>6 DEF SignInsInv, TriesOwned
    <3>8. LinkOwned'
      <4>1. CASE link.start
        <5>1. /\ link.awaited = 0 /\ link.told = "nothing"
          BY <4>1 DEF SignInsInv, LinkOwned
        <5>2. ~ link'.start /\ link'.awaited = 0 /\ link'.told = "nothing"
          BY <3>1, <4>1, <5>1 DEF SignInsInv, SignInsTyped, LinkType
        <5> QED BY <5>2 DEF LinkOwned
      <4>2. CASE ~ link.start
        BY <1>2, <2>1, <3>1, <4>2 DEF SignInsInv, LinkOwned
      <4> QED BY <4>1, <4>2
    <3>9. \A g \in Flows : Signed(g) # {} => purpose'[g] = purpose[g]
      BY <3>2, <3>4
    <3> QED BY <1>3, <3>3, <3>5, <3>7, <3>8, <3>9 DEF SignInsInv
  <2> QED BY <2>2, <2>3
<1>7. ASSUME NEW f \in Flows, FlowEnds(f) PROVE SignInsInv'
  <2>1. /\ _flows[f] = "pending"
        /\ \E s \in {"signed", "failed"} : _flows' = [_flows EXCEPT ![f] = s]
        /\ UNCHANGED <<_pending_metadata, link, starting, tries, purpose>>
    BY <1>7 DEF FlowEnds
  <2>2. \A g \in Flows : _flows'[g] = "none" <=> _flows[g] = "none"
    BY <2>1 DEF SignInsInv, SignInsTyped
  <2>3. SignInsTyped'
    BY <2>1 DEF SignInsInv, SignInsTyped
  <2>4. FlowsOwned'
    BY <1>2, <2>1, <2>2 DEF SignInsInv, FlowsOwned
  <2>5. TriesOwned'
    BY <1>2, <2>1, <2>2 DEF SignInsInv, TriesOwned
  <2>6. LinkOwned'
    BY <1>2, <2>1 DEF SignInsInv, LinkOwned
  <2> QED BY <1>3, <2>1, <2>3, <2>4, <2>5, <2>6 DEF SignInsInv
<1>8. CASE Poll
  <2>1. /\ link.flow # NoFlow
        /\ \A t \in 1 .. 2 : tries[t].stage \in {"none", "answered"}
        /\ link' = [link EXCEPT !.awaited = 1]
        /\ tries' = [tries EXCEPT ![1] = Sent(link.flow)]
        /\ UNCHANGED <<signins, starting, purpose>>
    BY <1>8 DEF Poll, Try, Sent
  <2>2. /\ link.flow \in Flows /\ link' \in LinkType
        /\ link'.flow = link.flow /\ link'.awaited = 1 /\ link'.told = link.told
        /\ link'.start <=> link.start
    <3>1. link \in LinkType
      BY DEF SignInsInv, SignInsTyped
    <3> QED BY <2>1, <3>1 DEF LinkType
  <2>3. /\ tries' \in [1 .. 2 -> TryType]
        /\ tries'[1].stage = "asked" /\ tries'[1].flow = link.flow
        /\ tries'[2] = tries[2]
    BY <2>1, <2>2, SentRecord, TryChanged DEF SignInsInv, SignInsTyped
  <2>4. SignInsTyped' /\ FlowsOwned'
    BY <1>2, <2>1, <2>2, <2>3 DEF SignInsInv, SignInsTyped, FlowsOwned, signins
  <2>5. TriesOwned'
    BY <1>2, <2>1, <2>2, <2>3 DEF SignInsInv, TriesOwned, signins
  <2>6. LinkOwned'
    BY <1>2, <2>1, <2>2, <2>3 DEF SignInsInv, LinkOwned
  <2> QED BY <1>3, <2>1, <2>4, <2>5, <2>6 DEF SignInsInv
<1>9. CASE TryFailed /\ link.awaited # 0 /\ UNCHANGED <<signins, starting, purpose>>
  <2>1. /\ link.flow \in Flows /\ link.awaited \in 1 .. 2
        /\ \A t \in 1 .. 2 : tries[t].stage \in {"asked", "taken"}
                               => tries[t].flow = link.flow
    BY <1>9 DEF SignInsInv, SignInsTyped, LinkType, LinkOwned
  <2>2. CASE link.awaited = 1
    <3>1. /\ \E b \in BOOLEAN : link' = [link EXCEPT !.awaited = 2, !.unheard = b]
          /\ tries' = [tries EXCEPT ![2] = Sent(link.flow), ![1] = GivenUp(1)]
      BY <1>9, <2>2 DEF TryFailed, Sent
    <3>2. /\ link' \in LinkType
          /\ link'.flow = link.flow /\ link'.awaited = 2 /\ link'.told = link.told
          /\ link'.start <=> link.start
      <4>1. Goes(link, link', 2)
        <5>1. link \in LinkType /\ 2 \in 0 .. 2
          BY DEF SignInsInv, SignInsTyped
        <5>2. PICK b \in BOOLEAN :
                link' = [link EXCEPT !.awaited = 2, !.unheard = b]
          BY <3>1
        <5>3. Goes(link, [link EXCEPT !.awaited = 2, !.unheard = b], 2)
          BY <5>1, LinkGoesOn, Zenon
        <5> QED BY <5>2, <5>3
      <4> QED BY <4>1 DEF Goes
    <3>3. /\ tries' \in [1 .. 2 -> TryType]
          /\ tries'[2].stage = "asked" /\ tries'[2].flow = link.flow
          /\ tries'[1] = tries[1] \/ tries'[1].stage = "none"
      <4>1. GivenUp(1) \in {tries[1], NoTry} /\ GivenUp(1) \in TryType
        BY Records DEF SignInsInv, SignInsTyped
      <4>2. Sent(link.flow) \in TryType
        BY <2>1, SentRecord
      <4>3. /\ tries' \in [1 .. 2 -> TryType]
            /\ tries'[1] = GivenUp(1) /\ tries'[2] = Sent(link.flow)
        BY <3>1, <4>1, <4>2 DEF SignInsInv, SignInsTyped
      <4> QED BY <2>1, <4>1, <4>3, Records, SentRecord
    <3>4. SignInsTyped' /\ FlowsOwned'
      BY <1>2, <1>9, <3>2, <3>3 DEF SignInsInv, SignInsTyped, FlowsOwned, signins
    <3>5. TriesOwned'
      BY <1>2, <1>9, <2>1, <3>3 DEF SignInsInv, TriesOwned, signins
    <3>6. LinkOwned'
      BY <1>2, <2>1, <2>2, <3>2, <3>3 DEF SignInsInv, LinkOwned
    <3> QED BY <1>3, <1>9, <3>4, <3>5, <3>6 DEF SignInsInv
  <2>3. CASE link.awaited = 2
    <3>1. /\ \E b, c \in BOOLEAN :
               link' = [link EXCEPT !.awaited = 0, !.unheard = b, !.stalled = c]
          /\ tries' = [tries EXCEPT ![2] = GivenUp(2)]
      <4>1. PICK b \in BOOLEAN : b <=> link.unheard \/ Spent(tries[link.awaited])
        OBVIOUS
      <4>2. PICK c \in BOOLEAN : c <=> link.told = "nothing"
        OBVIOUS
      <4>3. /\ link' = [link EXCEPT !.awaited = 0,
                                   !.unheard = link.unheard \/ Spent(tries[link.awaited]),
                                   !.stalled = link.told = "nothing"]
            /\ tries' = [tries EXCEPT ![2] = GivenUp(2)]
        BY <1>9, <2>3 DEF TryFailed
      <4>4. link' = [link EXCEPT !.awaited = 0, !.unheard = b, !.stalled = c]
        BY <4>1, <4>2, <4>3
      <4> QED BY <4>3, <4>4
    <3>2. /\ link' \in LinkType
          /\ link'.flow = link.flow /\ link'.awaited = 0 /\ link'.told = link.told
          /\ link'.start <=> link.start
      <4>1. Goes(link, link', 0)
        <5>1. link \in LinkType /\ 0 \in 0 .. 2
          BY DEF SignInsInv, SignInsTyped
        <5>2. PICK b, c \in BOOLEAN :
                link' = [link EXCEPT !.awaited = 0, !.unheard = b, !.stalled = c]
          BY <3>1
        <5>3. Goes(link, [link EXCEPT !.awaited = 0, !.unheard = b, !.stalled = c], 0)
          BY <5>1, LinkGoesOn, Zenon
        <5> QED BY <5>2, <5>3
      <4> QED BY <4>1 DEF Goes
    <3>3. /\ tries' \in [1 .. 2 -> TryType]
          /\ tries'[1] = tries[1]
          /\ tries'[2] = tries[2] \/ tries'[2].stage = "none"
      <4>1. GivenUp(2) \in {tries[2], NoTry} /\ GivenUp(2) \in TryType
        BY Records DEF SignInsInv, SignInsTyped
      <4> QED BY <3>1, <4>1, Records, TryChanged DEF SignInsInv, SignInsTyped
    <3>4. SignInsTyped' /\ FlowsOwned'
      BY <1>2, <1>9, <3>2, <3>3 DEF SignInsInv, SignInsTyped, FlowsOwned, signins
    <3>5. TriesOwned'
      BY <1>2, <1>9, <3>3 DEF SignInsInv, TriesOwned, signins
    <3>6. LinkOwned'
      BY <1>2, <2>1, <3>2, <3>3 DEF SignInsInv, LinkOwned
    <3> QED BY <1>3, <1>9, <3>4, <3>5, <3>6 DEF SignInsInv
  <2> QED BY <2>1, <2>2, <2>3
<1>10. CASE PollLost
  BY <1>9, <1>10 DEF PollLost
<1>11. CASE PollArrives
  <2>1. link.awaited # 0 /\ UNCHANGED <<signins, starting, purpose>>
    BY <1>11 DEF PollArrives
  <2>2. CASE TryFailed
    BY <1>9, <2>1, <2>2
  <2>3. CASE ~ TryFailed
    <3>1. PICK u \in 1 .. 2 :
            /\ u = link.awaited /\ tries[u].stage = "answered"
            /\ tries[u].answer # "refused"
            /\ link' = [link EXCEPT !.awaited = 0, !.told = tries[u].answer]
            /\ tries' = [tries EXCEPT ![u] = NoTry]
      <4>1. link.awaited \in 1 .. 2
        BY <2>1 DEF SignInsInv, SignInsTyped, LinkType
      <4>2. /\ tries[link.awaited].stage = "answered"
            /\ tries[link.awaited].answer # "refused"
            /\ link' = [link EXCEPT !.awaited = 0, !.told = tries[link.awaited].answer]
            /\ tries' = [tries EXCEPT ![link.awaited] = NoTry]
        BY <1>11, <2>3 DEF PollArrives
      <4> QED BY <4>1, <4>2
    <3>2. tries[u].answer \in {"pending", "complete", "error"}
      BY <3>1 DEF SignInsInv, SignInsTyped, TriesOwned, TryType
    <3>3. /\ link' \in LinkType
          /\ link'.flow = link.flow /\ link'.awaited = 0 /\ link'.told = tries[u].answer
          /\ link'.start <=> link.start
      <4>1. link \in LinkType
        BY DEF SignInsInv, SignInsTyped
      <4>2. PICK s \in {"pending", "complete", "error"} :
              s = tries[u].answer /\ link' = [link EXCEPT !.awaited = 0, !.told = s]
        BY <3>1, <3>2
      <4>3. PICK k \in LinkType : /\ k.flow = link.flow /\ k.awaited = 0
                                /\ k.told = link.told /\ (k.start <=> link.start)
                                /\ link' = [k EXCEPT !.told = s]
        <5>1. [link EXCEPT !.awaited = 0] \in LinkType
          BY <4>1 DEF LinkType
        <5> QED BY <4>1, <4>2, <5>1 DEF LinkType
      <4>4. link' \in LinkType
        BY <4>2, <4>3 DEF LinkType
      <4> QED BY <4>2, <4>3, <4>4 DEF LinkType
    <3>4. /\ tries' \in [1 .. 2 -> TryType]
          /\ \A t \in 1 .. 2 : tries'[t] = tries[t] \/ tries'[t].stage = "none"
      BY <3>1, Records, TryChanged DEF SignInsInv, SignInsTyped
    <3>5. SignInsTyped' /\ FlowsOwned'
      BY <1>2, <2>1, <3>3, <3>4 DEF SignInsInv, SignInsTyped, FlowsOwned, signins
    <3>6. TriesOwned'
      BY <1>2, <2>1, <3>4 DEF SignInsInv, TriesOwned, signins
    <3>7. LinkOwned'
      BY <1>2, <2>1, <3>1, <3>3, <3>4 DEF SignInsInv, LinkOwned
    <3> QED BY <1>3, <2>1, <3>5, <3>6, <3>7 DEF SignInsInv
  <2> QED BY <2>2, <2>3
<1>12. ASSUME NEW t \in 1 .. 2, PollHandled(t) PROVE SignInsInv'
  <2> DEFINE f == tries[t].flow
  <2>1. /\ tries[t].stage = "asked" /\ UNCHANGED <<starting, purpose>>
        /\ link' \in LinkType /\ link'.flow = link.flow /\ link'.awaited = link.awaited
        /\ link'.told = link.told /\ (link'.start <=> link.start)
    <3>1. \E b \in BOOLEAN : link' = [link EXCEPT !.unheard = b]
      BY <1>12 DEF PollHandled
    <3>2. tries[t].stage = "asked" /\ UNCHANGED <<starting, purpose>>
      BY <1>12 DEF PollHandled
    <3>3. Goes(link, link', link.awaited)
      <4>1. link \in LinkType /\ 0 \in 0 .. 2
        BY DEF SignInsInv, SignInsTyped
      <4>2. PICK b \in BOOLEAN : link' = [link EXCEPT !.unheard = b]
        BY <3>1
      <4>3. Goes(link, [link EXCEPT !.unheard = b], link.awaited)
        BY <4>1, LinkGoesOn, Zenon
      <4> QED BY <4>2, <4>3
    <3> QED BY <3>2, <3>3 DEF Goes
  <2>2. f \in Flows
    BY <2>1 DEF SignInsInv, TriesOwned
  <2>3. CASE _flows[f] # "signed"
    <3>1. /\ \E answer \in {"pending", "error"} : Answer(t, answer)
          /\ _flows' \in {_flows, [_flows EXCEPT ![f] = "none"]}
          /\ UNCHANGED _pending_metadata
      BY <1>12, <2>2, <2>3 DEF PollHandled, SignInsInv, SignInsTyped, signins
    <3>2. PICK r \in TryType :
            /\ tries' = [tries EXCEPT ![t] = r]
            /\ link.awaited = t => r.flow = f
            /\ \/ r.stage = "none"
               \/ r.stage = "answered" /\ r.flow = f /\ r.answer \in {"pending", "error"}
      <4>1. PICK answer \in {"pending", "error"} : Answer(t, answer)
        BY <3>1
      <4>2. tries \in [1 .. 2 -> TryType]
        BY DEF SignInsInv, SignInsTyped
      <4> QED BY <4>1, <4>2, AnswerRecord
    <3>3. /\ tries' \in [1 .. 2 -> TryType] /\ tries'[t] = r
          /\ \A u \in 1 .. 2 \ {t} : tries'[u] = tries[u]
      BY <3>2, TryChanged DEF SignInsInv, SignInsTyped
    <3>4. \A g \in Flows : _flows'[g] # "none" => _flows[g] # "none"
      BY <3>1 DEF SignInsInv, SignInsTyped
    <3>5. \A g \in Flows : _flows[g] = "none" => _flows'[g] = "none"
      BY <3>1 DEF SignInsInv, SignInsTyped
    <3>6. SignInsTyped'
      BY <2>1, <3>1, <3>3 DEF SignInsInv, SignInsTyped
    <3>7. FlowsOwned'
      BY <1>2, <2>1, <3>1, <3>4 DEF SignInsInv, FlowsOwned
    <3>8. TriesOwned'
      BY <1>2, <2>1, <3>2, <3>3, <3>5 DEF SignInsInv, TriesOwned
    <3>9. LinkOwned'
      BY <1>2, <2>1, <3>2, <3>3 DEF SignInsInv, LinkOwned
    <3> QED BY <1>3, <2>1, <3>6, <3>7, <3>8, <3>9 DEF SignInsInv
  <2>4. CASE _flows[f] = "signed"
    <3>1. /\ tries' = [tries EXCEPT ![t].stage = "taken", ![t].meta = _pending_metadata[f]]
          /\ _flows' = [_flows EXCEPT ![f] = "none"]
          /\ _pending_metadata' = [_pending_metadata EXCEPT ![f] = Empty]
      BY <1>12, <2>4 DEF PollHandled, Take
    <3>2. purpose[f] # Empty /\ _pending_metadata[f] = purpose[f] /\ Signed(f) = {}
      BY <2>2, <2>4 DEF SignInsInv, FlowsOwned
    <3>3. PICK r \in TryType : /\ tries' = [tries EXCEPT ![t] = r]
                               /\ r.stage = "taken" /\ r.flow = f /\ r.meta = purpose[f]
      <4>1. purpose[f] \in Owners /\ tries[t] \in TryType
        BY <2>2 DEF SignInsInv, SignInsTyped
      <4>2. tries' = [tries EXCEPT ![t] = [tries[t] EXCEPT !.stage = "taken",
                                                           !.meta = purpose[f]]]
        BY <3>1, <3>2
      <4> DEFINE r == [tries[t] EXCEPT !.stage = "taken", !.meta = purpose[f]]
      <4>3. /\ r \in TryType /\ r.stage = "taken" /\ r.flow = f /\ r.meta = purpose[f]
        BY <4>1 DEF TryType
      <4> HIDE DEF r
      <4> QED BY <4>2, <4>3 DEF r
    <3>4. /\ tries' \in [1 .. 2 -> TryType] /\ tries'[t] = r
          /\ \A u \in 1 .. 2 \ {t} : tries'[u] = tries[u]
      BY <3>3, TryChanged DEF SignInsInv, SignInsTyped
    <3>5. /\ _flows'[f] = "none"
          /\ \A g \in Flows \ {f} : /\ _flows'[g] = _flows[g]
                                   /\ _pending_metadata'[g] = _pending_metadata[g]
      BY <2>2, <3>1 DEF SignInsInv, SignInsTyped
    <3>6. \A u \in 1 .. 2 : tries[u].stage = "taken" => tries[u].flow # f
      BY <2>4 DEF SignInsInv, TriesOwned
    <3>7. SignInsTyped'
      <4>1. /\ _flows' \in [Flows -> {"none", "pending", "signed", "failed"}]
            /\ _pending_metadata' \in [Flows -> Owners]
        <5>1. /\ _flows \in [Flows -> {"none", "pending", "signed", "failed"}]
              /\ _pending_metadata \in [Flows -> Owners]
          BY DEF SignInsInv, SignInsTyped
        <5> QED BY <2>2, <3>1, <5>1
      <4> QED BY <2>1, <3>4, <4>1 DEF SignInsInv, SignInsTyped
    <3>8. FlowsOwned'
      BY <1>2, <2>1, <3>5 DEF SignInsInv, FlowsOwned
    <3>9. TriesOwned'
      <4>1. \A u \in 1 .. 2 : tries'[u].stage = "taken" => u = t \/ tries[u].flow \in Flows \ {f}
        BY <3>4, <3>6 DEF SignInsInv, TriesOwned
      <4> QED BY <1>2, <2>1, <2>2, <3>2, <3>3, <3>4, <3>5, <3>6, <4>1
              DEF SignInsInv, TriesOwned
    <3>10. LinkOwned'
      BY <1>2, <2>1, <3>3, <3>4 DEF SignInsInv, LinkOwned
    <3> QED BY <1>3, <2>1, <3>7, <3>8, <3>9, <3>10 DEF SignInsInv
  <2> QED BY <2>3, <2>4
<1>13. CASE UNCHANGED vars
  BY <1>4, <1>13 DEF vars
<1> HIDE DEF SignInsInv
<1> QED BY <1>4, <1>5, <1>6, <1>7, <1>8, <1>10, <1>11, <1>12, <1>13, SignInsFrame

\* A sign-in that is applied becomes the one account's for which it was, and
\* no later answer can use it again.
LEMMA SignInsApply ==
  ASSUME RowsInv, SignInsInv, NEW t \in 1 .. 2, PollApplied(t)
  PROVE  SignInsInv'
<1>0. PICK f : f = tries[t].flow
  OBVIOUS
<1>1. /\ tries[t].stage = "taken" /\ f \in Flows
      /\ UNCHANGED <<_flows, _pending_metadata, link, starting, purpose>>
  BY <1>0 DEF PollApplied, SignInsInv, TriesOwned, signins
<1>2. /\ purpose[f] # Empty /\ tries[t].meta = purpose[f] /\ _flows[f] = "none"
      /\ Signed(f) = {} /\ purpose[f] \in Originals \cup {NoAccount}
  BY <1>0, <1>1 DEF SignInsInv, TriesOwned, FlowsOwned
<1>3. \A u \in 1 .. 2 \ {t} : tries[u].stage = "taken" => tries[u].flow \in Flows \ {f}
  BY <1>0, <1>1 DEF SignInsInv, TriesOwned
<1>4. link.awaited # 0 \/ link.told # "nothing" => link.flow = f
  BY <1>0, <1>1 DEF SignInsInv, LinkOwned
<1>5. signed_by \in [Ids -> Flows \cup {NoFlow}] /\ \A b \in Ids : signed_by[b] # f
  BY <1>2 DEF Signed, RowsInv, RowsTyped
<1>6. ASSUME NEW answer \in {"complete", "refused"}, Answer(t, answer)
      PROVE  /\ SignInsTyped'
             /\ \E r \in TryType :
                  /\ tries'[t] = r /\ \A u \in 1 .. 2 \ {t} : tries'[u] = tries[u]
                  /\ link.awaited = t => r.flow = f
                  /\ \/ r.stage = "none"
                     \/ r.stage = "answered" /\ r.flow = f /\ r.answer = answer
  <2>1. tries \in [1 .. 2 -> TryType]
    BY DEF SignInsInv, SignInsTyped
  <2>2. PICK r \in TryType :
          /\ tries' = [tries EXCEPT ![t] = r]
          /\ link.awaited = t => r.flow = f
          /\ \/ r.stage = "none"
             \/ r.stage = "answered" /\ r.flow = f /\ r.answer = answer
    BY <1>0, <1>6, <2>1, AnswerRecord
  <2>3. /\ tries' \in [1 .. 2 -> TryType] /\ tries'[t] = r
        /\ \A u \in 1 .. 2 \ {t} : tries'[u] = tries[u]
    BY <2>1, <2>2, TryChanged
  <2>4. SignInsTyped'
    BY <1>1, <2>3 DEF SignInsInv, SignInsTyped
  <2> QED BY <2>2, <2>3, <2>4
<1>7. ASSUME NEW a \in Ids,
             signed_by' = [signed_by EXCEPT ![a] = f],
             \A b \in 1 .. made : Succeeds(b)' <=> Succeeds(b),
             IF purpose[f] = NoAccount THEN a \notin Originals
             ELSE a = purpose[f] \/ Succeeds(a)',
             \E answer \in {"complete", "refused"} : Answer(t, answer)
      PROVE  SignInsInv'
  <2>1. PICK r \in TryType :
          /\ tries'[t] = r /\ \A u \in 1 .. 2 \ {t} : tries'[u] = tries[u]
          /\ link.awaited = t => r.flow = f
          /\ \/ r.stage = "none"
             \/ /\ r.stage = "answered" /\ r.flow = f
                /\ r.answer \in {"complete", "refused"}
    BY <1>6, <1>7
  <2>2. Signed(f)' = {a}
    <3>1. \A b \in Ids : signed_by'[b] = f <=> b = a
      BY <1>5, <1>7
    <3> QED BY <3>1 DEF Signed
  <2>3. \A g \in Flows \ {f} : Signed(g)' \subseteq Signed(g)
    BY <1>5, <1>7 DEF Signed
  <2>4. FlowsOwned'
    BY <1>1, <1>2, <2>3 DEF SignInsInv, FlowsOwned
  <2>5. TriesOwned'
    <3>1. \A u \in 1 .. 2 : tries'[u].stage \in {"asked", "taken"} => tries'[u] = tries[u]
      BY <2>1
    <3>2. \A u \in 1 .. 2 : tries'[u].stage = "answered" => tries'[u].answer # "none"
      BY <2>1 DEF SignInsInv, TriesOwned
    <3>3. \A u \in 1 .. 2 : tries'[u].stage = "taken" =>
            u # t /\ tries[u].stage = "taken" /\ tries[u].flow \in Flows \ {f}
      BY <1>3, <2>1
    <3>4. ~ (tries'[1].stage = "taken" /\ tries'[2].stage = "taken")
      BY <3>3
    <3>5. ASSUME NEW u \in 1 .. 2, tries'[u].stage = "taken"
          PROVE  /\ purpose'[tries'[u].flow] # Empty
                 /\ tries'[u].meta = purpose'[tries'[u].flow]
                 /\ _flows'[tries'[u].flow] = "none" /\ Signed(tries[u].flow)' = {}
      <4>1. tries'[u] = tries[u] /\ tries[u].stage = "taken" /\ tries[u].flow \in Flows \ {f}
        BY <3>1, <3>3, <3>5
      <4>2. Signed(tries[u].flow) = {} /\ purpose[tries[u].flow] # Empty
            /\ tries[u].meta = purpose[tries[u].flow] /\ _flows[tries[u].flow] = "none"
        BY <4>1 DEF SignInsInv, TriesOwned
      <4>3. PICK g \in Flows \ {f} : g = tries[u].flow
        BY <4>1
      <4>4. \A b \in Ids : signed_by'[b] # g
        BY <2>3, <4>2, <4>3 DEF Signed
      <4> QED BY <1>1, <4>1, <4>2, <4>3, <4>4 DEF Signed
    <3>6. \A u \in 1 .. 2 : tries'[u].stage = "asked" => tries'[u].flow \in Flows
      BY <3>1 DEF SignInsInv, TriesOwned
    <3>7. \A u \in 1 .. 2 : tries'[u].stage = "taken" => tries'[u].flow \in Flows
      BY <3>1, <3>3
    <3> QED BY <3>2, <3>4, <3>5, <3>6, <3>7 DEF TriesOwned
  <2>6. LinkOwned'
    <3>1. /\ link.start => link.flow = NoFlow
          /\ link.flow = NoFlow => link.awaited = 0 /\ link.told = "nothing"
          /\ link.awaited # 0 => tries[link.awaited].flow = link.flow
      BY DEF SignInsInv, LinkOwned
    <3>2. link.awaited # 0 => tries'[link.awaited].flow = link.flow
      <4>1. link.awaited \in 0 .. 2
        BY DEF SignInsInv, SignInsTyped, LinkType
      <4>2. CASE link.awaited = t
        BY <1>0, <1>4, <2>1, <4>2
      <4>3. CASE link.awaited \in 1 .. 2 \ {t}
        BY <2>1, <3>1, <4>3
      <4> QED BY <4>1, <4>2, <4>3
    <3>3. link.awaited # 0 \/ link.told # "nothing" => Signed(link.flow)' # {}
      <4>1. ASSUME link.awaited # 0 \/ link.told # "nothing" PROVE Signed(link.flow)' # {}
        <5>1. link.flow = f /\ link' = link
          BY <1>1, <1>4, <4>1
        <5>2. a \in Ids /\ signed_by'[a] = f
          BY <1>5, <1>7
        <5> QED BY <5>1, <5>2 DEF Signed
      <4> QED BY <4>1
    <3>4. link.awaited # 0 \/ link.told # "nothing" =>
            \A u \in 1 .. 2 :
              tries'[u].stage \in {"asked", "taken"} => tries'[u].flow = link.flow
      BY <1>1, <2>1 DEF SignInsInv, LinkOwned
    <3> QED BY <1>1, <3>1, <3>2, <3>3, <3>4 DEF LinkOwned
  <2>7. SignedRight'
    <3>1. ASSUME NEW g \in Flows, NEW b \in Signed(g)'
          PROVE  IF purpose'[g] = NoAccount THEN b \notin Originals
                 ELSE b = purpose'[g] \/ Succeeds(b)'
      <4>1. CASE g = f
        <5>1. b = a
          BY <2>2, <3>1, <4>1
        <5> QED BY <1>1, <1>7, <4>1, <5>1
      <4>2. CASE g # f
        <5>1. b \in Signed(g) /\ b \in Ids /\ signed_by[b] # NoFlow
          BY <2>3, <3>1, <4>2 DEF Signed
        <5>2. b \in 1 .. made
          BY <5>1 DEF RowsInv, KeysInOrder, RowsTyped
        <5>3. Succeeds(b)' <=> Succeeds(b)
          BY <1>7, <5>2
        <5> QED BY <1>1, <5>1, <5>3 DEF SignInsInv, SignedRight
      <4> QED BY <4>1, <4>2
    <3>2. ASSUME NEW b \in Ids, NEW c \in Ids, signed_by'[b] = signed_by'[c],
                 signed_by'[b] # NoFlow
          PROVE  b = c
      BY <1>5, <1>7, <3>2 DEF SignInsInv, SignedRight
    <3> QED BY <3>1, <3>2 DEF SignedRight
  <2>8. SignInsTyped'
    BY <1>6, <1>7
  <2> QED BY <2>4, <2>5, <2>6, <2>7, <2>8 DEF SignInsInv
<1>8. CASE Answer(t, "refused") /\ UNCHANGED rows
  <2>1. PICK r \in TryType :
          /\ tries'[t] = r /\ \A u \in 1 .. 2 \ {t} : tries'[u] = tries[u]
          /\ link.awaited = t => r.flow = f
          /\ \/ r.stage = "none"
             \/ r.stage = "answered" /\ r.flow = f /\ r.answer = "refused"
    BY <1>6, <1>8
  <2>2. /\ \A g : Signed(g)' = Signed(g)
        /\ \A b : Succeeds(b)' <=> Succeeds(b)
        /\ signed_by' = signed_by
    BY <1>8 DEF Signed, Succeeds, rows
  <2>3. FlowsOwned' /\ SignedRight'
    BY <1>1, <2>2 DEF SignInsInv, FlowsOwned, SignedRight
  <2>4. TriesOwned'
    <3>1. \A u \in 1 .. 2 : tries'[u].stage \in {"asked", "taken"} => tries'[u] = tries[u]
      BY <2>1
    <3>2. \A u \in 1 .. 2 : tries'[u].stage = "answered" => tries'[u].answer # "none"
      BY <2>1 DEF SignInsInv, TriesOwned
    <3>3. \A u \in 1 .. 2 : tries'[u].stage = "taken" =>
            u # t /\ tries[u].stage = "taken" /\ tries[u].flow \in Flows \ {f}
      BY <1>3, <2>1
    <3>4. ~ (tries'[1].stage = "taken" /\ tries'[2].stage = "taken")
      BY <3>3
    <3> QED BY <1>1, <2>2, <3>1, <3>2, <3>3, <3>4 DEF SignInsInv, TriesOwned
  <2>5. LinkOwned'
    <3>1. /\ link.start => link.flow = NoFlow
          /\ link.flow = NoFlow => link.awaited = 0 /\ link.told = "nothing"
          /\ link.awaited # 0 => tries[link.awaited].flow = link.flow
          /\ link.told = "complete" => Signed(link.flow) # {}
      BY DEF SignInsInv, LinkOwned
    <3>2. link.awaited # 0 => tries'[link.awaited].flow = link.flow
      BY <1>0, <1>4, <2>1, <3>1 DEF SignInsInv, SignInsTyped, LinkType
    <3>3. link.awaited # 0 \/ link.told # "nothing" =>
            \A u \in 1 .. 2 :
              tries'[u].stage \in {"asked", "taken"} => tries'[u].flow = link.flow
      BY <1>1, <2>1 DEF SignInsInv, LinkOwned
    <3>4. \A u \in 1 .. 2 : u = link.awaited /\ tries'[u].stage = "answered"
                            /\ tries'[u].answer = "complete" => Signed(link.flow) # {}
      BY <2>1 DEF SignInsInv, LinkOwned
    <3> QED BY <1>1, <2>2, <3>1, <3>2, <3>3, <3>4 DEF LinkOwned
  <2>6. SignInsTyped'
    BY <1>6, <1>8
  <2> QED BY <2>3, <2>4, <2>5, <2>6 DEF SignInsInv
<1>9. ASSUME NEW a \in Row(tries[t].meta),
             signed_by' = [signed_by EXCEPT ![a] = f], Answer(t, "complete"),
             UNCHANGED <<accounts, id, made, name, password>>
      PROVE  SignInsInv'
  <2>1. \A b : Succeeds(b)' <=> Succeeds(b)
    BY <1>9 DEF Succeeds
  <2>2. a \in Ids /\ id[a] = purpose[f] /\ a \in Row(purpose[f])
    BY <1>2, <1>9, RowsRange DEF Row, RowsInv
  <2>3. purpose[f] \in Originals
    <3>1. id[a] \in 1 .. MaxAccounts
      BY <2>2 DEF RowsInv, RowsTyped
    <3> QED BY <1>2, <2>2, <3>1
  <2>4. a = purpose[f] \/ Succeeds(a)
    BY <2>2, <2>3, RowOfOriginal DEF RowsInv
  <2>5. purpose[f] # NoAccount
    BY <2>3
  <2> QED BY <1>7, <1>9, <2>1, <2>2, <2>4, <2>5
<1>10. CASE /\ tries[t].meta = NoAccount /\ made < MaxAccounts
            /\ Insert(Fresh, Fresh, f)
            /\ \E answer \in {"complete", "refused"} : Answer(t, answer)
  <2>1. /\ made' = made + 1 /\ \A b \in 1 .. made : id'[b] = id[b]
    BY <1>1, <1>10, InsertKeeps
  <2>2. made \in Nat /\ Originals \subseteq 1 .. made
    BY RowsRange DEF RowsInv
  <2>3. \A b \in 1 .. made : Succeeds(b)' <=> Succeeds(b)
    BY <2>1, <2>2, SucceedsKept
  <2>4. made + 1 \in Ids /\ made + 1 \notin Originals
    BY <1>10, <2>2
  <2>5. signed_by' = [signed_by EXCEPT ![made + 1] = f]
    BY <1>10 DEF Insert
  <2>6. purpose[f] = NoAccount
    BY <1>2, <1>10
  <2> QED BY <1>7, <1>10, <2>3, <2>4, <2>5, <2>6
<1>11. \/ \E a \in Row(tries[t].meta) :
            /\ signed_by' = [signed_by EXCEPT ![a] = f]
            /\ Answer(t, "complete")
            /\ UNCHANGED <<accounts, id, made, name, password>>
       \/ /\ tries[t].meta = NoAccount /\ made < MaxAccounts
          /\ Insert(Fresh, Fresh, f)
          /\ \E answer \in {"complete", "refused"} : Answer(t, answer)
       \/ Answer(t, "refused") /\ UNCHANGED rows
  BY <1>0 DEF PollApplied
<1> QED BY <1>8, <1>9, <1>10, <1>11


-----------------------------------------------------------------------------
(* All parts together.                                                     *)

\* The bounds are kept by the guards of the steps that count.
LEMMA BoundsKept ==
  ASSUME BoundsTyped, [Next]_vars
  PROVE  BoundsTyped'
<1> USE DEF BoundsTyped
<1>1. CASE UNCHANGED bounds
  BY <1>1 DEF bounds
<1>2. ASSUME steps < MaxSteps, steps' = steps + 1, UNCHANGED upsets
      PROVE  BoundsTyped'
  BY <1>2
<1>3. ASSUME NEW a, ConfirmRemove(a) \/ RemovedElsewhere(a) PROVE BoundsTyped'
  BY <1>3 DEF ConfirmRemove, RemovedElsewhere, RemovesOne
<1>4. CASE PollLost
  BY <1>4 DEF PollLost
<1>5. CASE \/ \E a \in (accounts \cap Originals) \cup {NoAccount} : Open(a)
           \/ \E f \in Folders : Toggle(f)
  BY <1>2, <1>5 DEF Open, Toggle
<1>6. CASE \/ Close \/ SwitchTab \/ Type \/ Save
           \/ ServerUpdates \/ ServerCreates \/ UpdateAnswered \/ CreateAnswered
           \/ ServerRemoves
  BY <1>1, <1>6 DEF Close, SwitchTab, Type, Save, ServerUpdates, ServerCreates,
                    UpdateAnswered, CreateAnswered, ServerRemoves
<1>7. CASE \/ Start \/ Started \/ \E f \in Flows : FlowEnds(f)
           \/ Poll \/ PollArrives
           \/ \E t \in 1 .. 2 : PollHandled(t) \/ PollApplied(t)
  BY <1>1, <1>7 DEF Start, Started, FlowEnds, Poll, PollArrives, PollHandled, PollApplied
<1>8. CASE ServerChooses \/ ChoiceAnswered \/ Refetch \/ ListingAnswered
           \/ ListingArrives
  BY <1>1, <1>8 DEF ServerChooses, ChoiceAnswered, Refetch, ListingAnswered,
              ListingArrives
<1>9. CASE UNCHANGED vars
  BY <1>1, <1>9 DEF vars
<1> QED BY <1>3, <1>4, <1>5, <1>6, <1>7, <1>8, <1>9 DEF Next

\* The page is loaded: every account has its own settings, and nothing is open
\* or under way.
LEMMA InitInvariant ==
  ASSUME Init
  PROVE  IInv
<1> USE DEF Init
<1>1. RowsInv
  <2>1. RowsTyped
    BY DEF RowsTyped
  <2>2. KeysInOrder
    BY DEF KeysInOrder
  <2>3. OwnSettings
    BY DEF OwnSettings
  <2> QED BY <2>1, <2>2, <2>3 DEF RowsInv
<1>2. DialogInv
  <2>1. /\ NoSave \in [stage : {"none", "sent", "done", "refused"},
                       of : Owners, name : Owners, password : Owners]
        /\ NoSave.stage = "none"
    BY DEF NoSave
  <2>2. EmptyForm \in [name : Owners, password : Owners]
    BY DEF EmptyForm
  <2>3. DialogTyped
    BY <2>1, <2>2 DEF DialogTyped
  <2>4. FormsOwn
    BY <2>1 DEF FormsOwn
  <2> QED BY <2>3, <2>4 DEF DialogInv
<1>3. SignInsInv
  <2>1. \A f \in Flows : Signed(f) = {}
    BY DEF Signed
  <2>2. /\ SignInsTyped /\ \A t \in 1 .. 2 : tries[t].stage = "none"
        /\ link.flow = NoFlow /\ ~ link.start /\ link.awaited = 0 /\ link.told = "nothing"
    BY Records DEF SignInsTyped
  <2>3. FlowsOwned
    BY <2>1 DEF FlowsOwned
  <2>4. TriesOwned /\ LinkOwned
    BY <2>2 DEF TriesOwned, LinkOwned
  <2>5. SignedRight
    BY <2>1 DEF SignedRight
  <2> QED BY <2>2, <2>3, <2>4, <2>5 DEF SignInsInv
<1>4. FoldersInv
  <2>1. NoChoice \in ChoiceType /\ NoListing \in ListingType
    BY DEF ChoiceType, ListingType, NoChoice, NoListing
  <2>2. /\ NoChoice.stage = "none" /\ NoChoice.of = {}
        /\ NoListing.stage = "none" /\ ~ NoListing.owed
    BY DEF NoChoice, NoListing
  <2>3. FoldersTyped
    BY <2>1 DEF FoldersTyped
  <2>4. ListKnown
    BY <2>2 DEF ListKnown, Agree, Unsettled
  <2> QED BY <2>3, <2>4 DEF FoldersInv
<1>5. BoundsTyped
  BY DEF BoundsTyped
<1> QED BY <1>1, <1>2, <1>3, <1>4, <1>5 DEF IInv

\* Every step keeps every part.
LEMMA NextInvariant ==
  ASSUME IInv, [Next]_vars
  PROVE  IInv'
<1>1. SignInsInv'
  <2>1. CASE \E t \in 1 .. 2 : PollApplied(t)
    BY <2>1, SignInsApply DEF IInv
  <2>2. CASE ~ \E t \in 1 .. 2 : PollApplied(t)
    BY <2>2, SignInsMove DEF IInv
  <2> QED BY <2>1, <2>2
<1>2. RowsInv' /\ DialogInv' /\ FoldersInv' /\ BoundsTyped'
  BY RowsKept, DialogKept, FoldersKept, BoundsKept DEF IInv
<1> QED BY <1>1, <1>2 DEF IInv

-----------------------------------------------------------------------------
(* The theorems.                                                           *)

\* The inductive invariant holds in every state of the page and its handlers.
THEOREM Invariance == Spec => []IInv
<1>1. Init => IInv
  BY InitInvariant
<1>2. IInv /\ [Next]_vars => IInv'
  BY NextInvariant
<1> QED BY <1>1, <1>2, PTL DEF Spec

\* Every variable of the page and of its handlers has its type, and no two
\* rows have the same key.
THEOREM TypeCorrect == Spec => []TypeOK
<1>1. IInv => TypeOK
  BY TypeGroups DEF IInv, RowsInv, DialogInv, SignInsInv, FoldersInv
<1> QED BY <1>1, Invariance, PTL

\* Nothing typed or loaded for one account is saved for another, whichever
\* dialog the answer to a request meets, and whichever accounts are removed.
THEOREM SettingsAreOwn == Spec => []OwnSettings
<1>1. IInv => OwnSettings
  BY DEF IInv, RowsInv
<1> QED BY <1>1, Invariance, PTL

\* The folders of the inbox are those chosen, but for those of a failed choice,
\* unless a choice was made from an outdated list (FolderPicker,
\* update_account_folders).
THEOREM ChoicesAreKept == Spec => []ChoicesKept
<1>1. ASSUME IInv, choosing = NoChoice, ~ hasty
      PROVE  /\ inbox \ doubted = chosen \ doubted
             /\ ~ listing.owed => picker \ doubted = inbox \ doubted
  <2>1. Unsettled = doubted
    BY <1>1 DEF Unsettled, NoChoice
  <2> QED BY <1>1, <2>1 DEF IInv, FoldersInv, ListKnown, Agree
<1>2. IInv => ChoicesKept
  BY <1>1 DEF ChoicesKept
<1> QED BY <1>2, Invariance, PTL

\* A sign-in is used at most once and for what it was started for, however the
\* tries of its polls overlap and whatever the dialog is open for by then; the
\* user is told of a success only when there is one.
THEOREM SignInsUsedOnce == Spec => []SignInUsedOnce
<1>1. ASSUME IInv PROVE SignInUsedOnce
  <2>1. ASSUME NEW f \in Flows PROVE Cardinality(Signed(f)) <= 1
    <3>1. CASE Signed(f) = {}
      BY <3>1, FS_EmptySet
    <3>2. CASE Signed(f) # {}
      <4>1. PICK a : a \in Signed(f)
        BY <3>2
      <4>2. \A b \in Signed(f) : b = a
        BY <1>1, <4>1 DEF IInv, SignInsInv, SignedRight, Signed
      <4>3. Signed(f) = {a}
        BY <4>1, <4>2
      <4>4. Cardinality({a}) = 1
        BY FS_Singleton
      <4> QED BY <4>3, <4>4
    <3> QED BY <3>1, <3>2
  <2>2. \A f \in Flows : \A a \in Signed(f) :
          IF purpose[f] = NoAccount THEN a \notin Originals
          ELSE a = purpose[f] \/ Succeeds(a)
    BY <1>1 DEF IInv, SignInsInv, SignedRight
  <2>3. link.told = "complete" => Signed(link.flow) # {}
    BY <1>1 DEF IInv, SignInsInv, LinkOwned
  <2> QED BY <2>1, <2>2, <2>3 DEF SignInUsedOnce
<1> QED BY <1>1, Invariance, PTL
=============================================================================
