------------------------------ MODULE Debounce ------------------------------
(***************************************************************************)
(* debounced_update_automerge (src/utils/automerge.rs): the tasks that     *)
(* call it, the debounce map they share and the flag each map entry holds. *)
(*                                                                         *)
(* A call that finds no entry for its pull request becomes the leader of a *)
(* debounce window; a call that finds one raises the flag of that entry    *)
(* and returns. Each lock of the map is one step, and so is each access to *)
(* a flag outside the lock; every .await lets other tasks run in between.  *)
(* update_automerge is one phase here; module Automerge details it.        *)
(***************************************************************************)
EXTENDS FiniteSets

CONSTANTS
    Tasks,      \* the tasks that can be inside the function at one time
    PRs,        \* pull request node ids
    NoTask      \* a vacant map entry

ASSUME NoTaskAssumption == NoTask \notin Tasks

VARIABLES
    automerge_debounce_map, \* [PRs -> task that created the entry's flag]
    flag,                   \* [Tasks -> the AtomicBool the task created]
    pc,                     \* where each task is
    node_id,                \* the argument of the task's current call
    owed                    \* history: PRs called since an attempt began

vars == <<automerge_debounce_map, flag, pc, node_id, owed>>

Phases == {"idle", "sleeping", "leaving", "removed", "querying", "updating"}

TypeOK ==
    /\ automerge_debounce_map \in [PRs -> Tasks \cup {NoTask}]
    /\ flag \in [Tasks -> BOOLEAN]
    /\ pc \in [Tasks -> Phases]
    /\ node_id \in [Tasks -> PRs]
    /\ owed \subseteq PRs

Init ==
    /\ automerge_debounce_map = [p \in PRs |-> NoTask]
    /\ flag = [t \in Tasks |-> FALSE]
    /\ pc = [t \in Tasks |-> "idle"]
    /\ node_id \in [Tasks -> PRs]
    /\ owed = {}

(* A task whose window for p is open: it owns the map entry.                *)
InWindow(t, p) == pc[t] \in {"sleeping", "leaving"} /\ node_id[t] = p

(* A task that has yet to begin its update attempt on p.                    *)
WillAttempt(t, p) ==
    pc[t] \in {"sleeping", "leaving", "removed"} /\ node_id[t] = p

-----------------------------------------------------------------------------
(* Mutant: the entry is overwritten although another task holds it.         *)
RegisterAlways(t, p) ==
    /\ pc[t] = "idle"
    /\ automerge_debounce_map' = [automerge_debounce_map EXCEPT ![p] = t]
    /\ flag' = [flag EXCEPT ![t] = FALSE]
    /\ pc' = [pc EXCEPT ![t] = "sleeping"]
    /\ node_id' = [node_id EXCEPT ![t] = p]
    /\ owed' = owed \cup {p}

(* Vacant entry: insert a fresh flag, false, and start the first sleep.     *)
Register(t, p) ==
    /\ pc[t] = "idle"
    /\ automerge_debounce_map[p] = NoTask
    /\ automerge_debounce_map' = [automerge_debounce_map EXCEPT ![p] = t]
    /\ flag' = [flag EXCEPT ![t] = FALSE]
    /\ pc' = [pc EXCEPT ![t] = "sleeping"]
    /\ node_id' = [node_id EXCEPT ![t] = p]
    /\ owed' = owed \cup {p}

(* Occupied entry: raise its flag and return. The call is over at once, so  *)
(* no task of the model is spent on it.                                     *)
Coalesce(p) ==
    /\ automerge_debounce_map[p] # NoTask
    /\ flag' = [flag EXCEPT ![automerge_debounce_map[p]] = TRUE]
    /\ owed' = owed \cup {p}
    /\ UNCHANGED <<automerge_debounce_map, pc, node_id>>

(* Mutant: the flag is read but not reset, so the loop never ends.          *)
WakeWithoutReset(t) ==
    /\ pc[t] = "sleeping"
    /\ pc' = [pc EXCEPT ![t] = IF flag[t] THEN "sleeping" ELSE "leaving"]
    /\ UNCHANGED <<automerge_debounce_map, flag, node_id, owed>>

(* Mutant: the attempt follows the window at once, the entry stays behind.  *)
WakeKeepsEntry(t) ==
    /\ pc[t] = "sleeping"
    /\ flag' = [flag EXCEPT ![t] = FALSE]
    /\ pc' = [pc EXCEPT ![t] = IF flag[t] THEN "sleeping" ELSE "removed"]
    /\ UNCHANGED <<automerge_debounce_map, node_id, owed>>

(* The sleep ends: swap the flag to false; sleep again if it was raised.    *)
Wake(t) ==
    /\ pc[t] = "sleeping"
    /\ flag' = [flag EXCEPT ![t] = FALSE]
    /\ pc' = [pc EXCEPT ![t] = IF flag[t] THEN "sleeping" ELSE "leaving"]
    /\ UNCHANGED <<automerge_debounce_map, node_id, owed>>

(* Mutant: the whole map is cleared.                                        *)
RemoveAll(t) ==
    /\ pc[t] = "leaving"
    /\ automerge_debounce_map' = [p \in PRs |-> NoTask]
    /\ pc' = [pc EXCEPT ![t] = "removed"]
    /\ UNCHANGED <<flag, node_id, owed>>

(* Mutant: the argument is moved into the removal and is gone afterwards.   *)
RemoveMovesArgument(t) ==
    /\ pc[t] = "leaving"
    /\ automerge_debounce_map' =
           [automerge_debounce_map EXCEPT ![node_id[t]] = NoTask]
    /\ node_id' = [node_id EXCEPT ![t] = NoTask]
    /\ pc' = [pc EXCEPT ![t] = "removed"]
    /\ UNCHANGED <<flag, owed>>

(* Mutant: a flag raised since the last wake-up makes the task give up      *)
(* after it has removed its entry.                                          *)
RemoveOrGiveUp(t) ==
    /\ pc[t] = "leaving"
    /\ automerge_debounce_map' =
           [automerge_debounce_map EXCEPT ![node_id[t]] = NoTask]
    /\ pc' = [pc EXCEPT ![t] = IF flag[t] THEN "idle" ELSE "removed"]
    /\ UNCHANGED <<flag, node_id, owed>>

(* Lock the map and remove the entry of the task's pull request.            *)
Remove(t) ==
    /\ pc[t] = "leaving"
    /\ automerge_debounce_map' =
           [automerge_debounce_map EXCEPT ![node_id[t]] = NoTask]
    /\ pc' = [pc EXCEPT ![t] = "removed"]
    /\ UNCHANGED <<flag, node_id, owed>>

(* The attempt begins: with an installation client the query goes out,      *)
(* without one the error is logged and the task is done.                    *)
Attempt(t) ==
    /\ pc[t] = "removed"
    /\ pc' \in {[pc EXCEPT ![t] = "querying"], [pc EXCEPT ![t] = "idle"]}
    /\ owed' = owed \ {node_id[t]}
    /\ UNCHANGED <<automerge_debounce_map, flag, node_id>>

(* The query is answered, or it fails: the error is logged, nobody retries. *)
QueryReturns(t) ==
    /\ pc[t] = "querying"
    /\ pc' \in {[pc EXCEPT ![t] = "updating"], [pc EXCEPT ![t] = "idle"]}
    /\ UNCHANGED <<automerge_debounce_map, flag, node_id, owed>>

(* update_automerge is over, with or without an error to log.               *)
UpdateReturns(t) ==
    /\ pc[t] = "updating"
    /\ pc' = [pc EXCEPT ![t] = "idle"]
    /\ UNCHANGED <<automerge_debounce_map, flag, node_id, owed>>

Step(t) ==
    \/ Wake(t)
    \/ Remove(t)
    \/ Attempt(t)
    \/ QueryReturns(t)
    \/ UpdateReturns(t)

Next ==
    \/ \E p \in PRs : Coalesce(p) \/ \E t \in Tasks : Register(t, p)
    \/ \E t \in Tasks : Step(t)

Spec == Init /\ [][Next]_vars

(* Tokio polls every task whose timer has fired; nothing else stands        *)
(* between registering and the start of the attempt: no lock is held        *)
(* across an .await. Answers of the network are not assumed.                *)
Fairness ==
    \A t \in Tasks : WF_vars(Wake(t)) /\ WF_vars(Remove(t)) /\ WF_vars(Attempt(t))

FairSpec == Spec /\ Fairness

-----------------------------------------------------------------------------
(* The entry of a pull request is held by exactly the task whose window for *)
(* it is open: two tasks never debounce one pull request, and no entry      *)
(* outlives its window.                                                     *)
EntryOwner ==
    \A p \in PRs, t \in Tasks :
        automerge_debounce_map[p] = t <=> InWindow(t, p)

(* No call is lost: while a call has not been covered by an attempt that    *)
(* began after it, a task is on its way to one - although the coalesced     *)
(* caller has returned and the leader may already have left its loop.       *)
NoLostCall ==
    \A p \in owed : \E t \in Tasks : WillAttempt(t, p)

(* An entry is taken out of the map only by the task that put it there, and *)
(* only once its window is over; it is never handed to another task.        *)
RemovesOwnEntry ==
    [][\A p \in PRs :
          LET owner == automerge_debounce_map[p] IN
          owner # NoTask /\ automerge_debounce_map'[p] # owner =>
              /\ pc[owner] = "leaving" /\ pc'[owner] = "removed"
              /\ automerge_debounce_map'[p] = NoTask]_vars

(* Once events for a pull request stop being coalesced into its window,     *)
(* every call for it is covered. The proviso is the loop's: a stream of     *)
(* events closer together than the sleep postpones the update for ever.     *)
CoveredWhenQuiet ==
    \A p \in PRs :
        <>[][~Coalesce(p)]_vars => (p \in owed ~> p \notin owed)

(* Once all calls stop, the map ends up empty: a leaked entry would swallow *)
(* every later call for its pull request.                                   *)
MapDrains ==
    <>[][\A p \in PRs : ~Coalesce(p) /\ \A t \in Tasks : ~Register(t, p)]_vars
        => <>[](\A p \in PRs : automerge_debounce_map[p] = NoTask)

(* The debounce implements UpdateRequests: a pull request is busy while a   *)
(* task is on its way to an attempt on it.                                  *)
Requests ==
    INSTANCE UpdateRequests
        WITH busy <- {p \in PRs : \E t \in Tasks : WillAttempt(t, p)}

ImplementsUpdateRequests == Requests!Spec

=============================================================================
