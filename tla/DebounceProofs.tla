--------------------------- MODULE DebounceProofs ---------------------------
(***************************************************************************)
(* Proofs about Debounce for every set of tasks and of pull requests: type *)
(* correctness, the ownership of map entries, that no call is lost, and    *)
(* the refinement of UpdateRequests.                                       *)
(***************************************************************************)
EXTENDS Debounce, TLAPS

(* The inductive invariant. EntryOwner is needed for NoLostCall: a call     *)
(* coalesced into an entry is safe because the entry's owner is still in    *)
(* its window, so it has yet to begin an attempt.                           *)
IInv ==
    /\ TypeOK
    /\ EntryOwner
    /\ NoLostCall

(* A task in its window is on its way to an attempt.                        *)
LEMMA WindowLeadsToAttempt ==
    ASSUME NEW t \in Tasks, NEW p \in PRs, InWindow(t, p)
    PROVE  WillAttempt(t, p)
  BY DEF InWindow, WillAttempt

(* Initially the map is empty, nobody is in a window, nothing is owed.      *)
LEMMA InitIInv == Init => IInv
<1> SUFFICES ASSUME Init PROVE IInv
  OBVIOUS
<1>1. TypeOK
  BY DEF Init, TypeOK, Phases
<1>2. EntryOwner
  BY NoTaskAssumption DEF Init, EntryOwner, InWindow
<1>3. NoLostCall
  BY DEF Init, NoLostCall
<1> QED
  BY <1>1, <1>2, <1>3 DEF IInv

(* Types are preserved by every step.                                       *)
LEMMA NextTypeOK ==
    ASSUME TypeOK, [Next]_vars
    PROVE  TypeOK'
<1> USE DEF TypeOK, Phases
<1>1. ASSUME NEW p \in PRs, Coalesce(p) PROVE TypeOK'
  BY <1>1 DEF Coalesce
<1>2. ASSUME NEW p \in PRs, NEW t \in Tasks, Register(t, p) PROVE TypeOK'
  BY <1>2 DEF Register
<1>3. ASSUME NEW t \in Tasks, Step(t) PROVE TypeOK'
  <2>1. CASE Wake(t)
    BY <2>1 DEF Wake
  <2>2. CASE Remove(t)
    BY <2>2 DEF Remove
  <2>3. CASE Attempt(t)
    BY <2>3 DEF Attempt
  <2>4. CASE QueryReturns(t)
    BY <2>4 DEF QueryReturns
  <2>5. CASE UpdateReturns(t)
    BY <2>5 DEF UpdateReturns
  <2> QED
    BY <1>3, <2>1, <2>2, <2>3, <2>4, <2>5 DEF Step
<1>4. CASE UNCHANGED vars
  BY <1>4 DEF vars
<1> QED
  BY <1>1, <1>2, <1>3, <1>4 DEF Next

(* Only Register opens a window and only Remove closes one, and each edits  *)
(* the entry of its own pull request in the same step.                      *)
LEMMA NextEntryOwner ==
    ASSUME IInv, [Next]_vars
    PROVE  EntryOwner'
<1> USE NoTaskAssumption DEF IInv, TypeOK, EntryOwner, InWindow
<1>1. ASSUME NEW p \in PRs, Coalesce(p) PROVE EntryOwner'
  BY <1>1 DEF Coalesce
<1>2. ASSUME NEW p \in PRs, NEW t \in Tasks, Register(t, p) PROVE EntryOwner'
  BY <1>2 DEF Register
<1>3. ASSUME NEW t \in Tasks, Step(t) PROVE EntryOwner'
  <2>1. CASE Wake(t)
    BY <2>1 DEF Wake
  <2>2. CASE Remove(t)
    BY <2>2 DEF Remove
  <2>3. CASE Attempt(t)
    BY <2>3 DEF Attempt
  <2>4. CASE QueryReturns(t)
    BY <2>4 DEF QueryReturns
  <2>5. CASE UpdateReturns(t)
    BY <2>5 DEF UpdateReturns
  <2> QED
    BY <1>3, <2>1, <2>2, <2>3, <2>4, <2>5 DEF Step
<1>4. CASE UNCHANGED vars
  BY <1>4 DEF vars
<1> QED
  BY <1>1, <1>2, <1>3, <1>4 DEF Next

(* A coalesced call is covered by the entry's owner, a registering one by    *)
(* its own caller; no step takes a task off its way but the start of the     *)
(* attempt, which pays every call for its pull request.                      *)
LEMMA NextNoLostCall ==
    ASSUME IInv, [Next]_vars
    PROVE  NoLostCall'
<1> USE DEF IInv, TypeOK, NoLostCall
<1>1. ASSUME NEW p \in PRs, Coalesce(p) PROVE NoLostCall'
  <2>1. PICK t \in Tasks : WillAttempt(t, p)
    BY <1>1, NoTaskAssumption, WindowLeadsToAttempt DEF Coalesce, EntryOwner
  <2>2. \A u \in Tasks, q \in PRs : WillAttempt(u, q)' <=> WillAttempt(u, q)
    BY <1>1 DEF Coalesce, WillAttempt
  <2> QED
    BY <1>1, <2>1, <2>2 DEF Coalesce
<1>2. ASSUME NEW p \in PRs, NEW t \in Tasks, Register(t, p) PROVE NoLostCall'
  <2>1. WillAttempt(t, p)'
    BY <1>2 DEF Register, WillAttempt
  <2>2. \A u \in Tasks, q \in PRs : WillAttempt(u, q) => WillAttempt(u, q)'
    BY <1>2 DEF Register, WillAttempt
  <2> QED
    BY <1>2, <2>1, <2>2 DEF Register
<1>3. ASSUME NEW t \in Tasks, Step(t) PROVE NoLostCall'
  <2>1. CASE Wake(t)
    BY <2>1 DEF Wake, WillAttempt
  <2>2. CASE Remove(t)
    BY <2>2 DEF Remove, WillAttempt
  <2>3. CASE Attempt(t)
    <3>1. \A u \in Tasks, q \in PRs :
              WillAttempt(u, q) /\ q # node_id[t] => WillAttempt(u, q)'
      BY <2>3 DEF Attempt, WillAttempt
    <3> QED
      BY <2>3, <3>1 DEF Attempt
  <2>4. CASE QueryReturns(t)
    BY <2>4 DEF QueryReturns, WillAttempt
  <2>5. CASE UpdateReturns(t)
    BY <2>5 DEF UpdateReturns, WillAttempt
  <2> QED
    BY <1>3, <2>1, <2>2, <2>3, <2>4, <2>5 DEF Step
<1>4. CASE UNCHANGED vars
  BY <1>4 DEF vars, WillAttempt
<1> QED
  BY <1>1, <1>2, <1>3, <1>4 DEF Next

-----------------------------------------------------------------------------
(* The inductive invariant holds in every reachable state.                  *)
THEOREM Invariance == Spec => []IInv
<1>1. IInv /\ [Next]_vars => IInv'
  BY NextTypeOK, NextEntryOwner, NextNoLostCall DEF IInv
<1> QED
  BY InitIInv, <1>1, PTL DEF Spec

(* Every variable keeps its type.                                           *)
THEOREM TypeCorrect == Spec => []TypeOK
<1>1. IInv => TypeOK
  BY DEF IInv
<1> QED
  BY Invariance, <1>1, PTL

(* The owner of a map entry is the one task whose window is open.           *)
THEOREM EntryOwnership == Spec => []EntryOwner
<1>1. IInv => EntryOwner
  BY DEF IInv
<1> QED
  BY Invariance, <1>1, PTL

(* No call to debounced_update_automerge is ever lost.                      *)
THEOREM CallsNotLost == Spec => []NoLostCall
<1>1. IInv => NoLostCall
  BY DEF IInv
<1> QED
  BY Invariance, <1>1, PTL

(* Entries are removed by their owners only, at the end of their windows:   *)
(* remove(node_id) cannot hit the entry of a later window.                  *)
THEOREM OwnEntryRemoval == Spec => RemovesOwnEntry
<1> DEFINE Owner(p) == automerge_debounce_map[p]
           Removal(p) ==
               Owner(p) # NoTask /\ automerge_debounce_map'[p] # Owner(p) =>
                   /\ pc[Owner(p)] = "leaving" /\ pc'[Owner(p)] = "removed"
                   /\ automerge_debounce_map'[p] = NoTask
<1>1. ASSUME IInv, [Next]_vars, NEW p \in PRs
      PROVE  Removal(p)
  <2> USE NoTaskAssumption DEF IInv, TypeOK
  <2>1. ASSUME NEW q \in PRs, Coalesce(q) PROVE Removal(p)
    BY <2>1 DEF Coalesce
  <2>2. ASSUME NEW q \in PRs, NEW t \in Tasks, Register(t, q) PROVE Removal(p)
    BY <2>2 DEF Register
  <2>3. ASSUME NEW t \in Tasks, Remove(t) PROVE Removal(p)
    BY <1>1, <2>3 DEF Remove, EntryOwner, InWindow
  <2>4. ASSUME NEW t \in Tasks,
               Wake(t) \/ Attempt(t) \/ QueryReturns(t) \/ UpdateReturns(t)
        PROVE  Removal(p)
    BY <2>4 DEF Wake, Attempt, QueryReturns, UpdateReturns
  <2>5. CASE UNCHANGED vars
    BY <2>5 DEF vars
  <2> QED
    BY <1>1, <2>1, <2>2, <2>3, <2>4, <2>5 DEF Next, Step
<1>2. IInv /\ [Next]_vars => [\A p \in PRs : Removal(p)]_vars
  BY <1>1
<1> QED
  BY Invariance, <1>2, PTL DEF Spec, RemovesOwnEntry

-----------------------------------------------------------------------------
(* The pull requests an attempt is still to be made on: the value the        *)
(* refinement mapping gives to busy.                                        *)
Busy == {p \in PRs : \E t \in Tasks : WillAttempt(t, p)}

(* The debounce implements UpdateRequests: each of its steps is a request,   *)
(* an attempt or a stutter there.                                           *)
LEMMA StepRefines ==
    ASSUME IInv, [Next]_vars
    PROVE  [Requests!Next]_<<owed, Busy>>
<1>1. ASSUME NEW p \in PRs, Coalesce(p) PROVE Requests!Next
  <2>1. p \in Busy
    BY <1>1, NoTaskAssumption
    DEF IInv, TypeOK, EntryOwner, InWindow, Coalesce, Busy, WillAttempt
  <2>2. Busy' = Busy
    BY <1>1 DEF Coalesce, Busy, WillAttempt
  <2>3. Requests!Request(p)
    BY <1>1, <2>1, <2>2 DEF Coalesce, Requests!Request, Busy
  <2> QED
    BY <2>3 DEF Requests!Next
<1>2. ASSUME NEW p \in PRs, NEW t \in Tasks, Register(t, p) PROVE Requests!Next
  <2>1. Busy' = Busy \cup {p}
    BY <1>2 DEF IInv, TypeOK, Register, Busy, WillAttempt
  <2>2. Requests!Request(p)
    BY <1>2, <2>1 DEF Register, Requests!Request, Busy
  <2> QED
    BY <2>2 DEF Requests!Next
<1>3. ASSUME NEW t \in Tasks, Attempt(t) PROVE Requests!Next
  <2> DEFINE p == node_id[t]
  <2>1. p \in PRs /\ p \in Busy
    BY <1>3 DEF IInv, TypeOK, Attempt, Busy, WillAttempt
  <2>2. Busy \ {p} \subseteq Busy' /\ Busy' \subseteq Busy
    BY <1>3 DEF IInv, TypeOK, Attempt, Busy, WillAttempt
  <2>3. Busy' \in {Busy, Busy \ {p}}
    BY <2>1, <2>2
  <2>4. Requests!Attempt(p)
    BY <1>3, <2>1, <2>3 DEF Attempt, Requests!Attempt, Busy
  <2> QED
    BY <2>1, <2>4 DEF Requests!Next
<1>4. ASSUME NEW t \in Tasks,
             Wake(t) \/ Remove(t) \/ QueryReturns(t) \/ UpdateReturns(t)
      PROVE  UNCHANGED <<owed, Busy>>
  BY <1>4
  DEF IInv, TypeOK, Busy, WillAttempt, Wake, Remove, QueryReturns, UpdateReturns
<1>5. CASE UNCHANGED vars
  BY <1>5 DEF vars, Busy, WillAttempt
<1> QED
  BY <1>1, <1>2, <1>3, <1>4, <1>5 DEF Next, Step

THEOREM RefinesUpdateRequests == Spec => ImplementsUpdateRequests
<1>1. Init => Requests!Init
  BY DEF Init, Requests!Init, WillAttempt
<1>2. IInv /\ [Next]_vars => [Requests!Next]_(Requests!vars)
  BY StepRefines DEF Requests!vars, Busy
<1> QED
  BY Invariance, <1>1, <1>2, PTL DEF Spec, ImplementsUpdateRequests, Requests!Spec

=============================================================================
