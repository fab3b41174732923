---------------------------- MODULE DebounceTimed ----------------------------
(***************************************************************************)
(* Debounce with the clock: how long debounced_update_automerge waits, how *)
(* late an update can be and how often it can happen. The runtime is taken *)
(* to keep up: no time passes while a timer has fired or a task is between *)
(* its loop and its attempt. Queries and updates take any time.            *)
(***************************************************************************)
EXTENDS Debounce, Naturals

CONSTANT Window     \* the five seconds of the sleep, in ticks

ASSUME WindowAssumption == Window \in Nat \ {0}

VARIABLES
    remaining,      \* [Tasks -> time until its sleep ends]
    since_call,     \* history: [PRs -> time since the latest call]
    since_attempt   \* history: [PRs -> time since the latest attempt began]

clocks == <<remaining, since_call, since_attempt>>
timed_vars == <<vars, clocks>>

(* The bound of the clocks: longer times are not told apart.                *)
LongAgo == 2 * Window + 1

TimedInit ==
    /\ Init
    /\ remaining = [t \in Tasks |-> 0]
    /\ since_call = [p \in PRs |-> LongAgo]
    /\ since_attempt = [p \in PRs |-> LongAgo]

-----------------------------------------------------------------------------
Called(p) == since_call' = [since_call EXCEPT ![p] = 0]

(* The first call for a pull request sleeps for a whole window.             *)
TimedRegister(t, p) ==
    /\ Register(t, p)
    /\ remaining' = [remaining EXCEPT ![t] = Window]
    /\ Called(p)
    /\ UNCHANGED since_attempt

TimedCoalesce(p) ==
    /\ Coalesce(p)
    /\ Called(p)
    /\ UNCHANGED <<remaining, since_attempt>>

(* Mutant: a raised flag makes the task look again soon, not sleep again.   *)
TimedWakeSoon(t) ==
    /\ remaining[t] = 0
    /\ Wake(t)
    /\ remaining' = [remaining EXCEPT ![t] = IF flag[t] THEN 1 ELSE 0]
    /\ UNCHANGED <<since_call, since_attempt>>

(* The sleep is over; with its flag raised the task sleeps once more.       *)
TimedWake(t) ==
    /\ remaining[t] = 0
    /\ Wake(t)
    /\ remaining' = [remaining EXCEPT ![t] = IF flag[t] THEN Window ELSE 0]
    /\ UNCHANGED <<since_call, since_attempt>>

TimedRemove(t) == Remove(t) /\ UNCHANGED clocks

TimedAttempt(t) ==
    /\ Attempt(t)
    /\ since_attempt' = [since_attempt EXCEPT ![node_id[t]] = 0]
    /\ UNCHANGED <<remaining, since_call>>

TimedReturn(t) == (QueryReturns(t) \/ UpdateReturns(t)) /\ UNCHANGED clocks

(* A task that runs without waiting for a timer or the network.             *)
Ready(t) ==
    \/ pc[t] = "sleeping" /\ remaining[t] = 0
    \/ pc[t] \in {"leaving", "removed"}

Older(age) == IF age < LongAgo THEN age + 1 ELSE age

Tick ==
    /\ \A t \in Tasks : ~Ready(t)
    /\ remaining' = [t \in Tasks |->
                        IF pc[t] = "sleeping" THEN remaining[t] - 1 ELSE remaining[t]]
    /\ since_call' = [p \in PRs |-> Older(since_call[p])]
    /\ since_attempt' = [p \in PRs |-> Older(since_attempt[p])]
    /\ UNCHANGED vars

TimedNext ==
    \/ \E p \in PRs : TimedCoalesce(p) \/ \E t \in Tasks : TimedRegister(t, p)
    \/ \E t \in Tasks :
          TimedWake(t) \/ TimedRemove(t) \/ TimedAttempt(t) \/ TimedReturn(t)
    \/ Tick

TimedSpec == TimedInit /\ [][TimedNext]_timed_vars

-----------------------------------------------------------------------------
(* An update begins at most two windows, ten seconds, after the last call   *)
(* it covers: a call just before the sleep ends costs one more whole sleep, *)
(* and never two.                                                           *)
TenSeconds == \A p \in owed : since_call[p] <= 2 * Window

(* A task leaves its loop only when its pull request has been quiet for a   *)
(* whole window - although it sees of the calls but one flag.               *)
LeavesWhenQuiet ==
    [][\A t \in Tasks :
          pc[t] = "sleeping" /\ pc'[t] = "leaving"
              => since_call[node_id[t]] >= Window]_timed_vars

(* What the debounce is for: whatever the calls, attempts on one pull       *)
(* request begin at least a window apart.                                   *)
AttemptsSpaced ==
    [][\A t \in Tasks :
          pc[t] = "removed" /\ pc'[t] # "removed"
              => since_attempt[node_id[t]] >= Window]_timed_vars

=============================================================================
