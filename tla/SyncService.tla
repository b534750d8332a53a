---------------------------- MODULE SyncService ----------------------------
(***************************************************************************)
(* What backend/app/sync promises to whoever asks for a synchronisation,   *)
(* with no tasks, locks or cancellation in it.  Callers name the items of  *)
(* an account they want refreshed; wishes accumulate until a pass takes    *)
(* all of them at once, or the account's queue is dropped; the passes of   *)
(* one account never overlap, and at most MaxConcurrent of them run.       *)
(***************************************************************************)
EXTENDS Naturals, FiniteSets

CONSTANTS Accounts,       \* accounts known to the server
          Items,          \* what a pass can be asked to refresh
          MaxConcurrent   \* max_concurrent_syncs

VARIABLES wanted,    \* wanted[a]: items asked for and not yet handed to a pass
          syncing    \* accounts with a pass between its semaphore and its exit

vars == <<wanted, syncing>>

Init == /\ wanted = [a \in Accounts |-> {}]
        /\ syncing = {}

\* A caller asks for S: nothing asked for earlier may be forgotten.
Ask(a, S) == /\ wanted' = [wanted EXCEPT ![a] = @ \cup S]
             /\ UNCHANGED syncing

\* A pass takes everything wanted, or cancel_account drops it: never a part.
Clear(a) == /\ wanted' = [wanted EXCEPT ![a] = {}]
            /\ UNCHANGED syncing

Begin(a) == /\ a \notin syncing
            /\ Cardinality(syncing) < MaxConcurrent
            /\ syncing' = syncing \cup {a}
            /\ UNCHANGED wanted

\* The task that ends a pass may take the follow-up scope in the same step.
End(a) == /\ a \in syncing
          /\ syncing' = syncing \ {a}
          /\ wanted' \in {wanted, [wanted EXCEPT ![a] = {}]}

Next == \E a \in Accounts :
           \/ \E S \in SUBSET Items : Ask(a, S)
           \/ Clear(a)
           \/ Begin(a)
           \/ End(a)

Spec == Init /\ [][Next]_vars

\* Every wish is eventually handed to a pass or dropped with its account.
Served == \A a \in Accounts : wanted[a] # {} ~> wanted[a] = {}
=============================================================================
