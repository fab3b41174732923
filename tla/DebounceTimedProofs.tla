------------------------- MODULE DebounceTimedProofs -------------------------
(***************************************************************************)
(* Proofs about DebounceTimed for every set of tasks and of pull requests  *)
(* and every window: how late an update can be, how quiet it must have     *)
(* been before, and how far apart two updates are.                         *)
(***************************************************************************)
EXTENDS DebounceTimed, DebounceProofs

Clocks ==
    /\ remaining \in [Tasks -> 0..Window]
    /\ since_call \in [PRs -> 0..LongAgo]
    /\ since_attempt \in [PRs -> 0..LongAgo]

(* The last call came in the current sleep if the flag is up, else at the   *)
(* latest in the sleep before it or with it.                                *)
NotLate ==
    \A t \in Tasks :
        /\ pc[t] = "sleeping" =>
              /\ since_call[node_id[t]] + remaining[t] <= 2 * Window
              /\ flag[t] => since_call[node_id[t]] + remaining[t] <= Window
        /\ pc[t] \in {"leaving", "removed"} => since_call[node_id[t]] <= 2 * Window

(* With the flag down, no call has come since the current sleep began.      *)
QuietSoFar ==
    \A t \in Tasks :
        pc[t] = "sleeping" /\ ~flag[t] =>
            since_call[node_id[t]] + remaining[t] >= Window

(* An attempt that is still about to begin, its entry removed, belongs to   *)
(* the window before: a newer window of the same pull request has not aged. *)
Fresh ==
    \A t \in Tasks, u \in Tasks :
        t # u /\ node_id[t] = node_id[u] /\ pc[u] = "removed" =>
            /\ pc[t] = "sleeping" => remaining[t] = Window
            /\ pc[t] \notin {"leaving", "removed"}

Apart ==
    \A t \in Tasks :
        /\ pc[t] = "sleeping" => since_attempt[node_id[t]] + remaining[t] >= Window
        /\ pc[t] \in {"leaving", "removed"} => since_attempt[node_id[t]] >= Window

(* The inductive invariant. EntryOwner, from IInv, says that there is only  *)
(* one window for a pull request at a time: a call raises the flag of every *)
(* sleep it matters to, and Remove leaves no second one behind.             *)
TimedInv == IInv /\ Clocks /\ NotLate /\ QuietSoFar /\ Fresh /\ Apart

(* The clock adds nothing to what the tasks do.                             *)
LEMMA TimedStepIsStep == ASSUME [TimedNext]_timed_vars PROVE [Next]_vars
<1>1. CASE TimedNext
  BY <1>1
  DEF TimedNext, TimedCoalesce, TimedRegister, TimedWake, TimedRemove, TimedAttempt,
      TimedReturn, Tick, Next, Step
<1>2. CASE UNCHANGED timed_vars
  BY <1>2 DEF timed_vars
<1> QED
  BY <1>1, <1>2

(* Nobody sleeps at first, and no call or attempt has been.                 *)
LEMMA TimedInitInv == TimedInit => TimedInv
<1> SUFFICES ASSUME TimedInit PROVE TimedInv
  OBVIOUS
<1>1. IInv
  BY InitIInv DEF TimedInit
<1>2. Clocks
  BY WindowAssumption DEF TimedInit, Clocks, LongAgo
<1>3. NotLate /\ QuietSoFar /\ Fresh /\ Apart
  BY DEF TimedInit, Init, NotLate, QuietSoFar, Fresh, Apart
<1> QED
  BY <1>1, <1>2, <1>3 DEF TimedInv

(* A call while a window is open: its flag goes up.                         *)
LEMMA CoalesceKeeps ==
    ASSUME TimedInv, IInv', NEW p \in PRs, TimedCoalesce(p)
    PROVE  TimedInv'
<1> USE WindowAssumption DEF TimedInv, IInv, TypeOK, Clocks, LongAgo,
        TimedCoalesce, Coalesce, Called
<1>1. Clocks'
  OBVIOUS
<1>2. \A t \in Tasks : pc[t] = "sleeping" /\ node_id[t] = p => flag'[t]
  BY DEF EntryOwner, InWindow
<1>3. \A t \in Tasks : flag[t] => flag'[t]
  BY NoTaskAssumption
<1>4. \A t \in Tasks : node_id[t] # p => flag'[t] = flag[t]
  <2> SUFFICES ASSUME NEW t \in Tasks, node_id[t] # p PROVE flag'[t] = flag[t]
    OBVIOUS
  <2>1. automerge_debounce_map[p] # t
    BY DEF EntryOwner, InWindow
  <2> QED
    BY <2>1
<1>5. NotLate'
  <2> SUFFICES ASSUME NEW t \in Tasks
               PROVE  (/\ pc[t] = "sleeping" =>
                            /\ since_call[node_id[t]] + remaining[t] <= 2 * Window
                            /\ flag[t] => since_call[node_id[t]] + remaining[t] <= Window
                       /\ pc[t] \in {"leaving", "removed"} =>
                            since_call[node_id[t]] <= 2 * Window)'
    BY DEF NotLate
  <2>1. CASE node_id[t] = p
    BY <2>1
  <2>2. CASE node_id[t] # p
    BY <2>2, <1>4 DEF NotLate
  <2> QED
    BY <2>1, <2>2
<1>6. QuietSoFar'
  BY <1>2, <1>3 DEF QuietSoFar
<1>7. Fresh' /\ Apart'
  BY DEF Fresh, Apart
<1> QED
  BY <1>1, <1>5, <1>6, <1>7

(* The call that opens a window.                                            *)
LEMMA RegisterKeeps ==
    ASSUME TimedInv, IInv', NEW t \in Tasks, NEW p \in PRs, TimedRegister(t, p)
    PROVE  TimedInv'
<1> USE WindowAssumption DEF TimedInv, IInv, TypeOK, Clocks, LongAgo,
        TimedRegister, Register, Called
<1>1. Clocks'
  OBVIOUS
<1>2. \A u \in Tasks : pc[u] \in {"sleeping", "leaving"} => node_id[u] # p
  BY NoTaskAssumption DEF EntryOwner, InWindow
<1>3. NotLate'
  BY <1>2 DEF NotLate
<1>4. QuietSoFar'
  BY <1>2 DEF QuietSoFar
<1>5. Fresh'
  BY <1>2 DEF Fresh
<1>6. Apart'
  BY DEF Apart
<1> QED
  BY <1>1, <1>3, <1>4, <1>5, <1>6

(* The end of a sleep: another one, or the loop is left.                    *)
LEMMA WakeKeeps ==
    ASSUME TimedInv, IInv', NEW t \in Tasks, TimedWake(t)
    PROVE  TimedInv'
<1> USE WindowAssumption DEF TimedInv, IInv, TypeOK, Clocks, LongAgo, TimedWake, Wake
<1>1. Clocks'
  OBVIOUS
<1>2. NotLate'
  BY DEF NotLate
<1>3. QuietSoFar'
  BY DEF QuietSoFar
<1>4. \A u \in Tasks : u # t /\ node_id[t] = node_id[u] => pc[u] # "removed"
  BY DEF Fresh
<1>5. Fresh'
  BY <1>4 DEF Fresh
<1>6. Apart'
  BY DEF Apart
<1> QED
  BY <1>1, <1>2, <1>3, <1>5, <1>6

(* The entry goes; no other window of the pull request is open.             *)
LEMMA RemoveKeeps ==
    ASSUME TimedInv, IInv', NEW t \in Tasks, TimedRemove(t)
    PROVE  TimedInv'
<1> USE DEF TimedInv, IInv, TypeOK, TimedRemove, Remove, clocks
<1>1. Clocks'
  BY DEF Clocks, LongAgo
<1>2. NotLate' /\ QuietSoFar' /\ Apart'
  BY DEF NotLate, QuietSoFar, Apart
<1>3. \A u \in Tasks : pc[u] \in {"sleeping", "leaving"} /\ node_id[u] = node_id[t] => u = t
  BY DEF EntryOwner, InWindow
<1>4. \A u \in Tasks : u # t /\ pc[u] = "removed" => node_id[u] # node_id[t]
  BY DEF Fresh
<1>5. Fresh'
  BY <1>3, <1>4 DEF Fresh
<1> QED
  BY <1>1, <1>2, <1>5

(* The attempt begins; a window that follows it has just been opened.       *)
LEMMA AttemptKeeps ==
    ASSUME TimedInv, IInv', NEW t \in Tasks, TimedAttempt(t)
    PROVE  TimedInv'
<1> USE WindowAssumption DEF TimedInv, IInv, TypeOK, Clocks, LongAgo, TimedAttempt, Attempt
<1>1. Clocks'
  OBVIOUS
<1>2. NotLate' /\ QuietSoFar'
  BY DEF NotLate, QuietSoFar
<1>3. Fresh'
  BY DEF Fresh
<1>4. Apart'
  BY DEF Apart, Fresh
<1> QED
  BY <1>1, <1>2, <1>3, <1>4

(* Query and update touch no clock.                                         *)
LEMMA ReturnKeeps ==
    ASSUME TimedInv, IInv', NEW t \in Tasks, TimedReturn(t)
    PROVE  TimedInv'
<1> USE DEF TimedInv, IInv, TypeOK, TimedReturn, QueryReturns, UpdateReturns, clocks
<1>1. Clocks'
  BY DEF Clocks, LongAgo
<1>2. NotLate' /\ QuietSoFar' /\ Apart'
  BY DEF NotLate, QuietSoFar, Apart
<1>3. Fresh'
  BY DEF Fresh
<1> QED
  BY <1>1, <1>2, <1>3

(* A tick takes from every sleep what it adds to every age; it waits for    *)
(* those who are about to leave their loop or to begin their attempt.       *)
LEMMA TickKeeps ==
    ASSUME TimedInv, IInv', Tick
    PROVE  TimedInv'
<1> USE WindowAssumption DEF TimedInv, IInv, TypeOK, Clocks, LongAgo, Tick, vars, Older
<1>1. \A t \in Tasks :
         /\ pc[t] \notin {"leaving", "removed"}
         /\ pc[t] = "sleeping" => remaining[t] \in 1..Window
  BY DEF Ready
<1>2. \A t \in Tasks :
         remaining'[t] = IF pc[t] = "sleeping" THEN remaining[t] - 1 ELSE remaining[t]
  OBVIOUS
<1>3. \A p \in PRs :
         /\ since_call'[p] = Older(since_call[p])
         /\ since_attempt'[p] = Older(since_attempt[p])
  OBVIOUS
<1>4. Clocks'
  BY <1>1
<1>5. NotLate'
  BY <1>1, <1>2, <1>3 DEF NotLate
<1>6. QuietSoFar'
  BY <1>1, <1>2, <1>3 DEF QuietSoFar
<1>7. Fresh'
  BY <1>1 DEF Fresh
<1>8. Apart'
  BY <1>1, <1>2, <1>3 DEF Apart
<1> QED
  BY <1>4, <1>5, <1>6, <1>7, <1>8

LEMMA TimedNextInv ==
    ASSUME TimedInv, [TimedNext]_timed_vars
    PROVE  TimedInv'
<1>1. IInv'
  BY TimedStepIsStep, NextTypeOK, NextEntryOwner, NextNoLostCall DEF TimedInv, IInv
<1>2. CASE TimedNext
  BY <1>1, <1>2, CoalesceKeeps, RegisterKeeps, WakeKeeps, RemoveKeeps, AttemptKeeps,
     ReturnKeeps, TickKeeps
  DEF TimedNext
<1>3. CASE UNCHANGED timed_vars
  BY <1>1, <1>3
  DEF timed_vars, vars, clocks, TimedInv, Clocks, LongAgo, NotLate, QuietSoFar, Fresh, Apart
<1> QED
  BY <1>2, <1>3

(* The inductive invariant holds in every reachable state.                  *)
THEOREM TimedInvariance == TimedSpec => []TimedInv
<1>1. TimedInv /\ [TimedNext]_timed_vars => TimedInv'
  BY TimedNextInv
<1> QED
  BY TimedInitInv, <1>1, PTL DEF TimedSpec

-----------------------------------------------------------------------------
(* An update begins at most two windows after the last call it covers,      *)
(* since the task that NoLostCall promises is never later.                  *)
THEOREM UpdateWithinTwoWindows == TimedSpec => []TenSeconds
<1>1. TimedInv => TenSeconds
  <2> SUFFICES ASSUME TimedInv, NEW p \in owed
               PROVE  since_call[p] <= 2 * Window
    BY DEF TenSeconds
  <2>1. p \in PRs
    BY DEF TimedInv, IInv, TypeOK
  <2>2. PICK t \in Tasks : WillAttempt(t, p)
    BY DEF TimedInv, IInv, NoLostCall
  <2>3. since_call[p] \in Nat /\ remaining[t] \in Nat
    BY <2>1, WindowAssumption DEF TimedInv, Clocks, LongAgo
  <2> QED
    BY <2>2, <2>3, WindowAssumption DEF TimedInv, NotLate, WillAttempt
<1> QED
  BY TimedInvariance, <1>1, PTL

(* A task leaves its loop only after a whole window without a call.         *)
THEOREM QuietBeforeLeaving == TimedSpec => LeavesWhenQuiet
<1> DEFINE Leaves(t) == pc[t] = "sleeping" /\ pc'[t] = "leaving"
<1>1. ASSUME TimedInv, [TimedNext]_timed_vars, NEW t \in Tasks, Leaves(t)
      PROVE  since_call[node_id[t]] >= Window
  <2> USE DEF TimedInv, IInv, TypeOK
  <2>1. remaining[t] = 0 /\ ~flag[t]
    BY <1>1
    DEF TimedNext, timed_vars, vars, TimedCoalesce, Coalesce, TimedRegister, Register,
        TimedWake, Wake, TimedRemove, Remove, TimedAttempt, Attempt, TimedReturn,
        QueryReturns, UpdateReturns, Tick
  <2>2. node_id[t] \in PRs /\ since_call[node_id[t]] \in Nat
    BY <1>1, WindowAssumption DEF Clocks, LongAgo
  <2> QED
    BY <1>1, <2>1, <2>2, WindowAssumption DEF QuietSoFar
<1>2. TimedInv /\ [TimedNext]_timed_vars
         => [\A t \in Tasks : Leaves(t) => since_call[node_id[t]] >= Window]_timed_vars
  BY <1>1
<1> QED
  BY TimedInvariance, <1>2, PTL DEF TimedSpec, LeavesWhenQuiet

(* Attempts on one pull request begin at least a window apart.              *)
THEOREM AttemptSpacing == TimedSpec => AttemptsSpaced
<1> DEFINE Begins(t) == pc[t] = "removed" /\ pc'[t] # "removed"
<1>1. TimedInv /\ [TimedNext]_timed_vars
         => [\A t \in Tasks : Begins(t) => since_attempt[node_id[t]] >= Window]_timed_vars
  BY DEF TimedInv, Apart
<1> QED
  BY TimedInvariance, <1>1, PTL DEF TimedSpec, AttemptsSpaced

=============================================================================
