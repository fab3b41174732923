------------------------------ MODULE Automerge ------------------------------
(***************************************************************************)
(* update_automerge (src/utils/automerge.rs) and merge_pull_request        *)
(* (src/utils/pull_request.rs) at work on one pull request, next to the    *)
(* people and the rest of GitHub that change it meanwhile.                 *)
(*                                                                         *)
(* An attempt takes one snapshot of the pull request and derives from it   *)
(* the mutations it will send; each is a call that is awaited, so the pull *)
(* request moves on in between. Attempts overlap when a debounced one is   *)
(* slow or when the check command, which is not debounced, starts another. *)
(* Eligibility is a value here; module Eligibility computes it.            *)
(***************************************************************************)
EXTENDS Naturals, Sequences, SequencesExt, FiniteSets

CONSTANTS
    Workers,    \* tasks that can attempt an update at one time
    Rules,      \* [autoapprove, merge_method] of the rules that can match
    None,       \* no rule matches
    Attempts,   \* octocrab's retry: how often one call may be carried out
    MaxHead     \* bound on the commits the pull request's head goes through

MergeMethods ==
    {"InstantMerge", "InstantRebase", "InstantSquash",
     "AutoMerge", "AutoRebase", "AutoSquash", "AddToMergeQueue"}

ASSUME AutomergeAssumption ==
    /\ IsFiniteSet(Workers)
    /\ Rules \subseteq [autoapprove : BOOLEAN, merge_method : MergeMethods]
    /\ None \notin Rules
    /\ Attempts \in Nat \ {0} /\ MaxHead \in Nat \ {0}

VARIABLES
    state,      \* of the pull request: OPEN, CLOSED, MERGED
    head,       \* headRefOid, numbered
    eligible,   \* the rule that matches while it is open, or None
    auto_merge, \* who enabled auto-merge
    queue,      \* who put it into the merge queue
    approvals,  \* ids of the bot's approving reviews, oldest first
    due,        \* an event arrived and the attempt it causes has not begun
    todo,       \* [Workers -> calls left to the worker, the first under way]
    done,       \* [Workers -> how often GitHub carried that call out]
    outdated,   \* history: workers under way whose snapshot is older than the
                \* last event the app acts on
    disturbed,  \* history: an outdated worker was under way at the latest
                \* snapshot, or since then a call failed, an attempt was lost
                \* or auto-merge or queue turned off without such an event
    seen,       \* history: the number of approvals the latest snapshot showed
    vetted      \* history: heads on which an attempt found a rule

pull_request == <<state, head, eligible, auto_merge, queue, approvals>>
history == <<outdated, disturbed, seen, vetted>>
vars == <<pull_request, due, todo, done, history>>

NoOne == "nobody"
Bot == "the app"
User == "a user"
Owners == {NoOne, Bot, User}

Unpinned == 0       \* a call without expectedHeadOid

Init ==
    /\ state = "OPEN" /\ head = 1
    /\ eligible \in Rules \cup {None}
    /\ auto_merge = NoOne /\ queue = NoOne /\ approvals = <<>>
    /\ due = TRUE
    /\ todo = [w \in Workers |-> <<>>]
    /\ done = [w \in Workers |-> 0]
    /\ outdated = {} /\ disturbed = FALSE /\ seen = 0
    /\ vetted = {}

Idle(w) == todo[w] = <<>>

-----------------------------------------------------------------------------
(* What an attempt sends.                                                   *)
When(condition, call) == IF condition THEN <<call>> ELSE <<>>

(* merge_pull_request: the mutation for a merge method.                     *)
split(merge_method) ==
    CASE merge_method \in {"InstantMerge", "InstantRebase", "InstantSquash"} -> "merge"
      [] merge_method \in {"AutoMerge", "AutoRebase", "AutoSquash"} -> "enable"
      [] merge_method = "AddToMergeQueue" -> "enqueue"

(* Mutant: the dismissal goes out even when there is nothing to dismiss.    *)
UndoCallsBlind ==
    <<[op |-> "dismiss", review |-> IF approvals = <<>> THEN 0 ELSE Head(approvals)]>>
      \o When(auto_merge = Bot, [op |-> "disable"])
      \o When(queue = Bot, [op |-> "dequeue"])

(* Without a rule: take back the approval, the auto-merge and the place in  *)
(* the queue, as far as the snapshot shows them to be the bot's own.        *)
UndoCalls ==
    When(approvals # <<>>, [op |-> "dismiss", review |-> Head(approvals)])
      \o When(auto_merge = Bot, [op |-> "disable"])
      \o When(queue = Bot, [op |-> "dequeue"])

(* Mutant: an approval of its own is taken for the whole work done.         *)
MergeCallsOnce(rule) ==
    IF approvals = <<>> THEN
        When(rule.autoapprove, [op |-> "approve", head |-> head])
          \o When(auto_merge = NoOne /\ queue = NoOne,
                  [op |-> split(rule.merge_method), head |-> head])
    ELSE <<>>

(* Mutant: the mutation leaves expectedHeadOid out.                         *)
MergeCallsUnpinned(rule) ==
    When(rule.autoapprove /\ approvals = <<>>, [op |-> "approve", head |-> head])
      \o When(auto_merge = NoOne /\ queue = NoOne,
              [op |-> split(rule.merge_method), head |-> Unpinned])

(* Mutant: approve without looking for an approval of one's own.            *)
MergeCallsApproving(rule) ==
    When(rule.autoapprove, [op |-> "approve", head |-> head])
      \o When(auto_merge = NoOne /\ queue = NoOne,
              [op |-> split(rule.merge_method), head |-> head])

(* With a rule: approve unless an approval is there, then merge unless      *)
(* auto-merge or the queue is on, whoever turned it on.                     *)
MergeCalls(rule) ==
    When(rule.autoapprove /\ approvals = <<>>, [op |-> "approve", head |-> head])
      \o When(auto_merge = NoOne /\ queue = NoOne,
              [op |-> split(rule.merge_method), head |-> head])

(* Mutant: nothing is taken back from a pull request that lost its rule.    *)
PlanMergeOnly ==
    IF state = "OPEN" /\ eligible # None THEN MergeCalls(eligible) ELSE <<>>

(* check_automerge_eligibility refuses a pull request that is not open.     *)
Plan ==
    IF state = "OPEN" /\ eligible # None THEN MergeCalls(eligible) ELSE UndoCalls

(* The query answers with a snapshot and the attempt makes its plan.        *)
TakeSnapshot(w) ==
    /\ Idle(w)
    /\ todo' = [todo EXCEPT ![w] = Plan]
    /\ done' = [done EXCEPT ![w] = 0]
    /\ disturbed' = (outdated # {})
    /\ seen' = Len(approvals)
    /\ vetted' = IF state = "OPEN" /\ eligible # None THEN vetted \cup {head} ELSE vetted
    /\ UNCHANGED <<pull_request, outdated>>

(* The debounced attempt for the events so far.                             *)
Attempt(w) == due /\ TakeSnapshot(w) /\ due' = FALSE

(* "!automerge check" makes an attempt of its own, at any time.             *)
Command(w) == TakeSnapshot(w) /\ UNCHANGED due

(* The attempt is lost: no client, a failed query, a restart. No retry.     *)
AttemptLost ==
    /\ due
    /\ due' = FALSE
    /\ disturbed' = TRUE
    /\ UNCHANGED <<pull_request, todo, done, outdated, seen, vetted>>

-----------------------------------------------------------------------------
(* GitHub's side of a call. merge, enable and enqueue carry an              *)
(* expectedHeadOid; it is optional, and only guards the call when present.  *)
Accepts(call) ==
    CASE call.op = "approve" -> TRUE
      [] call.op = "dismiss" -> call.review \in ToSet(approvals)
      [] call.op = "disable" -> auto_merge # NoOne
      [] call.op = "dequeue" -> queue # NoOne
      [] call.op = "merge" -> state = "OPEN" /\ call.head \in {head, Unpinned}
      [] call.op = "enable" ->
            state = "OPEN" /\ call.head \in {head, Unpinned} /\ auto_merge = NoOne
      [] call.op = "enqueue" ->
            state = "OPEN" /\ call.head \in {head, Unpinned} /\ queue = NoOne

(* A review id that neither GitHub nor a call under way uses.               *)
FreshReview ==
    LET awaited == {todo[w][1].review :
                       w \in {v \in Workers : ~Idle(v) /\ todo[v][1].op = "dismiss"}}
    IN  CHOOSE r \in 1..(Len(approvals) + Cardinality(Workers) + 1) :
            r \notin ToSet(approvals) \cup awaited

Merged ==
    /\ state' = "MERGED" /\ auto_merge' = NoOne /\ queue' = NoOne
    /\ UNCHANGED <<head, eligible, approvals>>

Effect(call) ==
    \/ /\ call.op = "approve"
       /\ approvals' = Append(approvals, FreshReview)
       /\ UNCHANGED <<state, head, eligible, auto_merge, queue>>
    \/ /\ call.op = "dismiss"
       /\ \E i \in DOMAIN approvals :
             approvals[i] = call.review /\ approvals' = RemoveAt(approvals, i)
       /\ UNCHANGED <<state, head, eligible, auto_merge, queue>>
    \/ /\ call.op \in {"disable", "enable"}
       /\ auto_merge' = IF call.op = "enable" THEN Bot ELSE NoOne
       /\ UNCHANGED <<state, head, eligible, queue, approvals>>
    \/ /\ call.op \in {"dequeue", "enqueue"}
       /\ queue' = IF call.op = "enqueue" THEN Bot ELSE NoOne
       /\ UNCHANGED <<state, head, eligible, auto_merge, approvals>>
    \/ call.op = "merge" /\ Merged

-----------------------------------------------------------------------------
(* Every change makes GitHub send a webhook. An attempt becomes due         *)
(* (Debounce), and what is under way by then may not know of the change.    *)
debounced_update_automerge ==
    /\ due' = TRUE
    /\ outdated' = {w \in Workers : ~Idle(w)}

(* Mutant: an edited pull request is not looked at again.                   *)
HandledUnedited == {"ready_for_review", "opened", "reopened", "synchronize"}

(* The actions of pull_request webhooks that process_pr_event acts on.      *)
Handled == {"ready_for_review", "opened", "reopened", "synchronize", "edited"}

process_pr_event(action) ==
    IF action \in Handled THEN debounced_update_automerge ELSE UNCHANGED <<due, outdated>>

(* The webhooks of the bot's own calls. A review is no pull_request event   *)
(* and has no handler at all.                                               *)
Announced(call) ==
    CASE call.op = "merge" -> "closed"
      [] call.op = "enable" -> "auto_merge_enabled"
      [] call.op = "disable" -> "auto_merge_disabled"
      [] call.op = "enqueue" -> "enqueued"
      [] call.op = "dequeue" -> "dequeued"
      [] call.op \in {"approve", "dismiss"} -> "review"

-----------------------------------------------------------------------------
(* GitHub carries out the worker's call; a retry may do it once more.       *)
Apply(w) ==
    /\ ~Idle(w)
    /\ done[w] < Attempts
    /\ Accepts(todo[w][1])
    /\ Effect(todo[w][1])
    /\ done' = [done EXCEPT ![w] = @ + 1]
    /\ process_pr_event(Announced(todo[w][1]))
    /\ UNCHANGED <<todo, disturbed, seen, vetted>>

(* The worker goes on to its next call, or is done.                         *)
GoesOn(w) ==
    /\ ~Idle(w)
    /\ todo' = [todo EXCEPT ![w] = Tail(@)]
    /\ done' = [done EXCEPT ![w] = 0]
    /\ outdated' = IF Len(todo[w]) = 1 THEN outdated \ {w} ELSE outdated
    /\ UNCHANGED <<pull_request, due, seen, vetted>>

(* It gets its answer, or a refusal,                                        *)
Answer(w) ==
    /\ GoesOn(w)
    /\ done[w] > 0 \/ ~Accepts(todo[w][1])
    /\ UNCHANGED disturbed

(* or an error, whether the call was carried out or not, which is logged.   *)
CallFails(w) == GoesOn(w) /\ disturbed' = TRUE

-----------------------------------------------------------------------------
(* What others do to the pull request.                                      *)
Webhook(action) ==
    /\ process_pr_event(action)
    /\ UNCHANGED <<todo, done, seen, vetted>>

(* synchronize: the queue drops the pull request; depending on who pushes   *)
(* and on the branch's protection, so go auto-merge and approvals.          *)
Push ==
    /\ state = "OPEN" /\ head < MaxHead
    /\ head' = head + 1
    /\ eligible' \in Rules \cup {None}
    /\ auto_merge' \in {auto_merge, NoOne}
    /\ queue' = NoOne
    /\ approvals' \in {approvals, <<>>}
    /\ Webhook("synchronize")
    /\ UNCHANGED <<state, disturbed>>

(* Another rule may match after an edit, ...                                *)
Edit ==
    /\ state = "OPEN"
    /\ eligible' \in Rules \cup {None}
    /\ \E action \in {"edited", "ready_for_review"} : Webhook(action)
    /\ UNCHANGED <<state, head, auto_merge, queue, approvals, disturbed>>

(* ... and when a check run reports. process_check_run_event acts on all.   *)
CheckRun ==
    /\ state = "OPEN"
    /\ eligible' \in Rules \cup {None}
    /\ debounced_update_automerge
    /\ UNCHANGED <<state, head, auto_merge, queue, approvals>>
    /\ UNCHANGED <<todo, done, disturbed, seen, vetted>>

Reopen ==
    /\ state = "CLOSED"
    /\ state' = "OPEN"
    /\ Webhook("reopened")
    /\ UNCHANGED <<head, eligible, auto_merge, queue, approvals, disturbed>>

Close ==
    /\ state = "OPEN"
    /\ state' = "CLOSED" /\ auto_merge' = NoOne /\ queue' = NoOne
    /\ Webhook("closed")
    /\ UNCHANGED <<head, eligible, approvals, disturbed>>

GitHubMerges ==
    /\ state = "OPEN"
    /\ auto_merge # NoOne \/ queue # NoOne
    /\ Merged
    /\ Webhook("closed")
    /\ UNCHANGED disturbed

UserTurnsOn ==
    /\ state = "OPEN"
    /\ \/ /\ auto_merge = NoOne /\ auto_merge' = User /\ UNCHANGED queue
          /\ Webhook("auto_merge_enabled")
       \/ /\ queue = NoOne /\ queue' = User /\ UNCHANGED auto_merge
          /\ Webhook("enqueued")
    /\ UNCHANGED <<state, head, eligible, approvals, disturbed>>

(* A user does, or GitHub, as when the checks of the queue fail.            *)
TurnedOff ==
    /\ \/ /\ auto_merge # NoOne /\ auto_merge' = NoOne /\ UNCHANGED queue
          /\ Webhook("auto_merge_disabled")
       \/ /\ queue # NoOne /\ queue' = NoOne /\ UNCHANGED auto_merge
          /\ Webhook("dequeued")
    /\ disturbed' = TRUE
    /\ UNCHANGED <<state, head, eligible, approvals>>

Outside ==
    \/ Push \/ Edit \/ CheckRun \/ Reopen
    \/ Close \/ GitHubMerges
    \/ UserTurnsOn \/ TurnedOff

Next ==
    \/ Outside
    \/ AttemptLost
    \/ \E w \in Workers :
          Attempt(w) \/ Command(w) \/ Apply(w) \/ Answer(w) \/ CallFails(w)

Spec == Init /\ [][Next]_vars

(* The timer of the debounce fires and tokio runs the attempt; GitHub       *)
(* carries out or refuses the calls it is sent, and answers them.           *)
Fairness ==
    /\ WF_vars(\E w \in Workers : Attempt(w))
    /\ \A w \in Workers : WF_vars(Apply(w) \/ Answer(w))

FairSpec == Spec /\ Fairness

-----------------------------------------------------------------------------
Ops == {"approve", "dismiss", "disable", "dequeue", "merge", "enable", "enqueue"}

(* Every variable has its type; an attempt makes at most three calls.       *)
TypeOK ==
    /\ state \in {"OPEN", "CLOSED", "MERGED"}
    /\ head \in 1..MaxHead
    /\ eligible \in Rules \cup {None}
    /\ auto_merge \in Owners /\ queue \in Owners
    /\ approvals \in Seq(Nat \ {0})
    /\ due \in BOOLEAN
    /\ outdated \subseteq Workers /\ disturbed \in BOOLEAN /\ seen \in Nat
    /\ \A w \in Workers :
          /\ Len(todo[w]) <= 3
          /\ \A i \in DOMAIN todo[w] :
                /\ todo[w][i].op \in Ops
                /\ todo[w][i].op = "dismiss" => todo[w][i].review \in Nat \ {0}
    /\ done \in [Workers -> 0..Attempts]
    /\ vetted \subseteq 1..MaxHead

(* When no attempt is due or under way and nothing disturbed the latest one *)
(* - however many others ran next to it -                                   *)
Settled == ~due /\ ~disturbed /\ \A w \in Workers : Idle(w)

(* nothing by which an open pull request that no rule matches would be      *)
(* merged is left of what the bot did, and of its approvals one less than   *)
(* it looked at: it dismisses the first, retries may have left several;     *)
WithdrawnWhenIneligible ==
    Settled /\ state = "OPEN" /\ eligible = None =>
        /\ auto_merge # Bot /\ queue # Bot
        /\ approvals = <<>> \/ Len(approvals) < seen

(* an open pull request that a rule matches is on its way to be merged, and *)
(* approved if the rule says so.                                            *)
ServedWhenEligible ==
    Settled /\ state = "OPEN" /\ eligible # None =>
        /\ auto_merge # NoOne \/ queue # NoOne
        /\ eligible.autoapprove => approvals # <<>>

(* However attempts overlap and calls are retried, a worker adds at most    *)
(* one approval per time its call is carried out, and only workers that saw *)
(* none before: the approvals of one pull request do not pile up.           *)
ApprovalBound == Len(approvals) <= Attempts * Cardinality(Workers)

(* Whoever pushes while an attempt is under way, the bot never merges,      *)
(* queues or turns on auto-merge at a head on which no attempt found a rule.*)
MergesVettedHead ==
    [][\A w \in Workers :
          /\ Apply(w)
          /\ \/ state' # state
             \/ auto_merge' # auto_merge /\ auto_merge' = Bot
             \/ queue' # queue /\ queue' = Bot
          => head \in vetted]_vars

(* Whatever failed, was lost in a restart or was undone by others before: a *)
(* pull request that stays eligible is on its way to be merged in the end,  *)
(* approved if need be, when it is edited ever again and calls stop failing.*)
RepairedByEvents ==
    (/\ <>[](state = "OPEN" /\ eligible # None)
     /\ []<><<Edit>>_vars
     /\ <>[][/\ UNCHANGED eligible /\ ~TurnedOff /\ ~AttemptLost
             /\ \A w \in Workers : ~CallFails(w)]_vars)
        => <>[](eligible # None =>
                   /\ auto_merge # NoOne \/ queue # NoOne
                   /\ eligible.autoapprove => approvals # <<>>)

(* An attempt dismisses one approval although retries may have left several *)
(* (get_own_review finds the first). If events keep coming while the pull   *)
(* request stays ineligible, and calls stop failing, all of them go.        *)
ApprovalsDrain ==
    (/\ <>[](state = "OPEN" /\ eligible = None)
     /\ []<><<Edit>>_vars
     /\ <>[][~AttemptLost /\ \A w \in Workers : ~CallFails(w)]_vars)
        => <>[](approvals = <<>>)

=============================================================================
