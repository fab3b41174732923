# devops-automerge in TLA+

devops-automerge is a GitHub app: webhooks tell it about pull requests, a short
debounce later it fetches the pull request, matches it against the configured
rules, and approves, merges or un-merges it through GitHub's GraphQL API. This
directory holds TLA+ models of its core, the TLC runs that check them and the
TLAPS proofs about them. File names below are relative to the repository.

## Inventory

| component | code | state it keeps | operations | what makes it correct |
|---|---|---|---|---|
| webhook endpoint | `src/routes.rs`, `src/webhook/mod.rs` | none | verify signature (403), parse (400), spawn a task, 202 | only signed events are processed; a 202 event is processed unless the process ends |
| pull request events | `src/webhook/pr.rs` | none | store the id, filter the action, prefilter by rules, debounce | nothing mergeable is filtered out |
| check run events | `src/webhook/check_run.rs` | JoinSet of one task per pull request | look up the id, debounce | one query per pull request however many check runs report |
| check command | `src/webhook/comment.rs` | none | store the id, check admin, attempt an update at once, comment | the comment tells what happened |
| debounce | `src/utils/automerge.rs:25-97` | map from pull request to flag | register, coalesce, wake, remove, attempt | no event is lost; one window per pull request; entries do not leak |
| automerge update | `src/utils/automerge.rs:99-203`, `src/utils/pull_request.rs:23-87` | none (a snapshot per attempt) | dismiss, disable, dequeue / approve, merge, enable, enqueue | what it did is withdrawn when the rule is gone; it acts at the head it looked at |
| eligibility | `src/utils/rules.rs`, `src/utils/dependabot.rs`, rule types in `src/config.rs` | none | hard checks, scan of the rules, check summary, dependabot match, prefilter | the first fitting rule is found, refusals are explained |
| id cache | `src/utils/pull_request.rs:89-197` | map from repository and number to id, error or pending query | set, get, fetch | one query, an id is kept for good, nobody waits on an orphan |
| installation clients | `src/config.rs:55-70` | map from installation to client | get or create | one client per installation |
| server lifecycle | `src/modes/server.rs`, `src/main.rs` | listeners, socket file | stat, remove, bind, chmod, serve, join, signals | serves on all of its targets or ends; what is left of an old instance does no harm |
| health mode | `src/modes/health.rs` | none | one request to each target | it fails while a target is unreachable and passes otherwise |
| configuration | `src/config.rs` | none after start | read file, key, globs | the first configured place decides |

All tasks run on tokio's multi-threaded runtime and share `AppConfig`. They meet
in three mutex-protected maps (debounce, id cache, clients), none of which is
held across an `.await`, and on GitHub itself. What is hard here: interleavings
around those maps, attempts that overlap on one pull request, a snapshot acted on
after the world moved, calls that fail or are carried out twice (octocrab's
`retry` feature), events lost when a call fails or the process restarts.

## Modules

| module | models | abstract specification | theorems |
|---|---|---|---|
| `Debounce` | `debounced_update_automerge` and the debounce map | `UpdateRequests` | `DebounceProofs` |
| `DebounceTimed` | the same with the clock | - | `DebounceTimedProofs` |
| `PullRequestIdCache` | the id cache | `IdDirectory` | `PullRequestIdCacheProofs` |
| `Eligibility` | `check_automerge_eligibility` and what it calls, `has_possible_rule` | `Fits`, the documented demands | `EligibilityProofs` |
| `Automerge` | `update_automerge`, `merge_pull_request` and GitHub | - | `AutomergeProofs` |
| `CheckCommand` | the "!automerge check" command; extends `Automerge` | `Automerge` itself | `CheckCommandProofs` |
| `Service` | endpoint, event handlers, client map; composes `Debounce` and `PullRequestIdCache` | - | `ServiceProofs` |
| `Lifecycle` | `main`, `run_server`, the health mode, overlapping instances | - | `LifecycleProofs` |

`MC*.tla` give the constants values for TLC.

**Debounce.** A task is in `idle`, `sleeping`, `leaving` (left the loop, entry
still in the map), `removed`, `querying` or `updating`. Every access to the map
under its lock is one action, and so is every access to the flag outside it, so
the model interleaves exactly where the code does. The flag is an `Arc` and
outlives its entry: `flag[t]` belongs to the task that created it and the map
holds the task. Time is abstract: a sleep may end at any moment. `owed` is a
history variable: pull requests called since an attempt for them last began.

**DebounceTimed** adds the time each sleep has left, and as history the time since
the last call and the last attempt of each pull request. `Tick` waits until no
timer has fired and no task is between its loop and its attempt: the runtime is taken
to keep up. Queries and updates last as long as they like.

**PullRequestIdCache.** A task leads the query it started or waits on a clone of
its shared future; `fut` is that future. A caller that finds an id or an error
returns at once (`GetStored`). `IdsOf` allows GitHub to know a pull request by
several ids, since webhook and GraphQL payloads may use different formats.

**Eligibility.** The loop over `config.rules` is a state machine with one step per
rule. What can end the function is a set of named reasons, of which the first in
the code's order is reported (`HardOrder`, `RuleOrder`); reasons pushed by the
checks section (`CheckFailures`, one `Push` per test) come before the one that ends
the rule, as in the code, and do not end it. `Summary` keeps the counters modulo 256.
The author is an account (name, type, number), which GitHub shows in two forms:
`Actor` is what the query returns, a bare login and a node id, `Author` what a webhook
carries, where a bot's login has a suffix and four fields identify the account. The
scan tests the first form, `classify_user` the second; accounts that agree with
dependabot in some fields only are among the inputs. Inputs, not modelled: the glob
matcher (a `Glob` is the set of paths it matches) and the YAML block of a commit
message (`metadata`).

**Automerge.** An attempt's snapshot fixes its list of calls (`Plan`), because the
code decides everything from the response it got; `todo[w]` is the rest of that
list. GitHub carries a call out (`Apply`, up to `Attempts` times because of
retries) or refuses it, and the worker resumes with an answer or an error
(`Answer`, `CallFails`); both lead to the next call, since errors are only logged.
`expectedHeadOid` is the head comparison in `Accepts`. GitHub and its users are
external: pushes, edits, closing, merging and manual auto-merge happen at any time.
Every change, the bot's own included, comes with its webhook: `process_pr_event` has
the filter of `pr.rs:41-48`, `Announced` names the webhooks of the bot's own mutations,
and an action that passes makes an attempt `due` (that is all this module needs of
Debounce). A webhook takes effect together with its change. Nothing is lost by that:
all it does is to set `due`, and one that arrives late leads to one attempt more than
the model's, which `Command`, possible at any time, stands for. History: `outdated` are
the workers under way whose snapshot is older than the last event that passed;
`disturbed` says that such a worker was under way when the latest snapshot was taken,
or that since then a call failed, an attempt was lost or something was switched off
without an event that passes; `seen` is how many approvals that snapshot showed. GitHub
is assumed to refuse enabling what is enabled and enqueueing what is queued.

**CheckCommand** follows the handler of one command through filters, permission,
query, its own attempt (`Commander` is a worker of Automerge), and the comment or
the silence at its end. Everything in Automerge goes on next to it. A comment may be
posted although `AddComment` returns an error. `said` and `under_way` are history.

**Service** follows events from the signature check on. A slot is one spawned
handler; task `<<s, k>>` is what slot `s` does for pull request `k`, which for a
check run is a task of the JoinSet. The handler's first step is one action, since
it does not await; a lookup, a debounce, an attempt are the actions of
`PullRequestIdCache` and `Debounce`, conjoined with what they mean for the handler. A
payload may lack what the handlers look for; without its repository's node id a pull
request is debounced but not stored (`pr.rs:24-34`), and `unnamed` remembers it.
`unserved` is history too: accepted events for which neither an attempt has begun nor an
error was logged. `Restart` forgets everything, as the code does.

**Lifecycle.** The Unix listener's stat, remove, bind and chmod are separate steps
which the steps of other instances interleave. The path's file has a type, an owner
(the instance behind the socket) and a mode; `TypeBits` are the bits of `S_IFMT`, so
that `NonSocket` does with the mask what the code does. A path that stat fails on for
another reason than that nothing is there is `unresolvable`. A process ends when a
listener fails (`Return`), after a signal, or by a kill between any two steps; the
kernel frees its port, the socket file stays. The health check reads the same
configuration and asks its targets one after the other. `alone` and `stopped` are history.

## Runs

| run | checks | bounds |
|---|---|---|
| `debounce` | types, `EntryOwner`, `NoLostCall`, `RemovesOwnEntry`, `CoveredWhenQuiet`, `MapDrains`, refinement of `UpdateRequests` | 3 tasks, 2 pull requests: a window, the next one and an older attempt of one pull request overlap |
| `debounce_timed` | `TenSeconds`, `LeavesWhenQuiet`, `AttemptsSpaced` | 3 tasks, 2 pull requests, a window of 3 ticks: calls before, in and after the middle of a sleep; times beyond two windows are not told apart |
| `id_cache` | types, `PendingHasLeader`, `AnswerIsKept`, `AskedOnce`, `ErrorHealedByWebhook`, refinement of `IdDirectory` | 3 callers (leader, waiter, late caller), 2 pull requests, one with two ids |
| `eligibility` | types, `FirstFit`, `FailuresExplained`, `PrefilterSound` | up to 2 rules out of 29, 58 pull requests: each field of a matching pair, the author's account included, takes every value that decides a test |
| `check_command` | types, `NoFalseSuccess`, `ApprovalBound`, `MergesVettedHead`, `CommandEnds` | 1 worker, 2 heads, each call carried out up to twice, a rule that merges at once and one that approves and uses the queue, one command |
| `automerge_overlap` | `WithdrawnWhenIneligible`, `ServedWhenEligible`, `ApprovalBound`, `ApprovalsDrain`, `RepairedByEvents` | 2 workers, 2 heads, each call carried out once, a rule that approves and turns on auto-merge (the third kind of merge method) |
| `service_safety` | `NoEventLost`, `DebouncedIsKnown` | 2 slots, 2 pull requests, check runs about both next to events about one; comments, which store an id as those events do, are in `service_liveness` |
| `service_liveness` | `EventsServed`, `HandlersEnd` | 2 slots, one pull request with two node ids, events of every kind |
| `lifecycle` | types, `ServedWithMode`, `RaceHasWinner`, `OwnFilesHarmless`, `StartSettles`, `HealthConverges` | 2 instances, each of the 6 configurations, any of 6 kinds of file, none, or a path that does not resolve |

`check_command` has one worker: attempts, the command's among them, follow each
other, while users and GitHub act in between; how the bot's own attempts get in each
other's way is the question of `automerge_overlap`, where two run at once. Approvals are
doubled by octocrab's retry in the one and by overlap in the other; both at once is beyond
the time a run may take, and `AutomergeProofs` has it for any number of workers and
retries. What then can be said of a state of rest? An attempt that began
with an older one still under way may be undone by it: an old snapshot can enable
auto-merge after a newer one withdrew it. So `WithdrawnWhenIneligible` and
`ServedWhenEligible` speak of rest after an attempt at whose beginning nobody with
older knowledge was under way, and during which nothing failed (`Settled`); attempts
that start from the same events may overlap it as they like. Of approvals that were
doubled an attempt dismisses the first only, hence "one less than it saw";
`ApprovalsDrain` says that all go, one by one. What was lost before that attempt - by a
restart, a failed query, a failed call - does not matter to these properties, and
`RepairedByEvents` says that such an attempt comes: as long as the pull request is
edited ever again and calls stop failing, an eligible one ends up on its way.

In `Service` at most as many events are unserved as there are slots, so that no
stream of events postpones an attempt for ever; that it can is `Debounce`'s matter
(`CoveredWhenQuiet` has the proviso).

Three runs show that the code disagrees with what it says of itself:

- `checks_enforced`: a failed requirement on checks does not stop a rule
  (`rules.rs:265-285` lack the `continue` of the other tests).
- `check_counters`: 256 failed check runs count as none.
- `non_socket`: the test for a non-socket at the socket's path lets a regular file
  pass, because the masks of the two types overlap, and the file is deleted.

`FirstFit` therefore leaves the requirements on checks out, and its reference takes
the hard limits as the code has them: 100 commits or files are refused, where
`config.rs:138` allows them. Two more things the models have and no property rules
out: the bot can turn off an auto-merge that a user turned on between the bot's
snapshot and its call, since the call names no owner (`automerge.rs:138`); and a
restart loses accepted events.

**Fairness.** Tokio runs a task whose timer fired or whose future is ready, and no
lock is held across an `.await`; this gives weak fairness of the debounce's `Wake`,
`Remove`, `Attempt`, of an attempt that is due, and of each handler and task of
`Service`. Answers from GitHub, or
errors in their place, are assumed in `automerge_overlap`, `check_command` (those to the
command's calls only) and `service_liveness`. That is an assumption about GitHub and the network and no more:
the clients are built without a timeout (`config.rs:40-44`, 67), and an attempt that
waits for ever for an answer is never repeated by itself. `Lifecycle` assumes that listen tasks
and the join go on and that health checks are repeated, never that somebody starts or
stops a process. No event is ever assumed to come, except by `ApprovalsDrain` and
`RepairedByEvents`, which say so. `CoveredWhenQuiet` is conditional: events less than five seconds apart
postpone the update without bound.

**Deadlock** is checked everywhere but in `Eligibility`, a function that returns.

## Proofs

For every set of tasks, pull requests, identifiers, ids, rules, instances, and every
window:

- `DebounceProofs`: the inductive invariant is `TypeOK`, `EntryOwner` and
  `NoLostCall`. A coalesced call is safe because the entry's owner is still in its
  window (`EntryOwner`) and a task in its window has yet to begin an attempt. From it
  follow `RemovesOwnEntry` and the refinement of `UpdateRequests`.
- `DebounceTimedProofs`: the clock adds nothing to what the tasks do, so that invariant
  still holds; added to it, what a sleep has left bounds the age of the last call from
  above (`NotLate`) and, with the flag down, from below (`QuietSoFar`). For
  `AttemptsSpaced` a window must not have aged while an older attempt on its pull
  request has yet to begin (`Fresh`). Assumption: the window is not zero.
- `PullRequestIdCacheProofs`: the invariants need `EntryMatchesQuery`, which ties an
  entry to its query: a vacant entry has none, so a new query is the first; an
  error in the map is the query's error, so whoever saw the query's id cannot meet
  it. From it follow single query, error healing and the refinement of
  `IdDirectory`. Assumption: ids are not the markers for vacant, pending and error.
- `EligibilityProofs`: `UnblockedFits` shows that no reason blocks a rule exactly
  when the pull request meets the documented demands; the scan's invariant is that
  no rule before the current one fits. From it follow `FirstFit` and
  `PrefilterSound`, which needs that an account the scan takes for dependabot is one
  `classify_user` knows, whatever else it is like (`SameAccount`); it has a legacy node
  id in the webhook as its premise. For the types and `FailuresExplained` the second invariant
  is `Explained`: the rules given a reason so far are those passed that name the
  repository. No assumption on rules or pull requests is needed.
- `AutomergeProofs`: every merging call still to be made carries a vetted head
  (`VettedCalls`), since a list of calls is made from one snapshot and `vetted` only
  grows; hence `MergesVettedHead`. `ApprovalBound` needs a budget: a worker counts
  for as many approvals as its list may still add, and it may add any only if it
  saw none, so the approvals there are and those to come together stay within the
  bound (`WithinBudget`; `ApprovesFirst` says that only the first call of a list can be
  an approval). These hold for any number of workers and of times a call is carried out.
  The states of rest, `ServedWhenEligible` and `WithdrawnWhenIneligible`, are
  reached by attempts whose every call succeeds; the invariants `Serving` and
  `Undoing` say that whatever the pull request still lacks (or still has) is among the
  calls some worker has left (`LeftCalls`), unless something disturbed the latest
  attempt or one is due. They need that nobody else works against it: when nothing
  disturbed, no outdated worker is under way (`NoneOutdated`), and the calls of the
  others come from the same side of the decision (`Current`).
- `CheckCommandProofs`: a step of the command is a step of Automerge or none
  (`CommandIsAttempt`), so the theorems about Automerge hold with commands
  among the attempts. For `NoFalseSuccess` the invariant `KeepsItsWord` says that, while
  none of the command's calls has failed, the merge is under way or among those left.
- `ServiceProofs`: `DebounceSteps`, `CacheSteps` and `AnswerSteps` say what a step of
  the whole is to each of its parts. The invariant joins the parts: `EntryOwner`
  of the debounce, `EntryMatchesQuery` of the cache, that an id a handler goes on with
  is one of its own pull request and known to the cache, or the payload did not name
  its repository (`AnswersKnown`), and that an
  event not yet begun is unserved for its own pull requests only (`UnservedConcern`).
  `NoEventLost` follows: a task handed an id either opens a window or is
  merged into one whose owner has yet to begin its attempt, and an attempt
  leaves alone what concerns other pull requests, because ids of different pull requests
  differ. `DebouncedIsKnown` rests on `KnownKeeps`: only a restart forgets an id.
  Two more results have no run of their own: `DebounceAsModelled` and `QueriedOnce`.
  Assumptions: ids are not markers and belong to one pull request, and an event
  that is not a check run is about one pull request and carries its id.
- `LifecycleProofs`: the invariant says who can be behind the path (`Alive`), that
  a path that was bound leads to somebody or is about to be bound again (`Contested`),
  and that what an instance alone found is still so (`Undisturbed`). From it follow
  `ServedWithMode`, `RaceHasWinner` and `OwnFilesHarmless`. Assumption: the markers of
  a configuration are not sets of targets.

`EligibleIsServed`, `IneligibleIsWithdrawn` and the two theorems that carry them over to
the command (`CommandServes`, `CommandWithdraws`) hold for any number of workers, of
overlapping attempts and of times a call is carried out. What they do not promise is in
`Settled`, not in a hypothesis: rest after an attempt that was disturbed, by older
knowledge at work or by a failure.

Two definitions are as they are because of the proofs. The guards of `Reply`'s cases
exclude each other, since TLA+ leaves open which of several true guards a CASE takes;
`Plan` and the approvals of a dismissal are written so that the length of a list
follows from its parts.

Only model-checked: the liveness properties (`CoveredWhenQuiet`, `MapDrains`,
`CommandEnds`, `ApprovalsDrain`, `RepairedByEvents`, `EventsServed`,
`HandlersEnd`, `StartSettles`, `HealthConverges`): temporal proofs under fairness are
out of the prover's reach. The three disagreements are counterexamples and need no
proof.

## Not modelled, and the plan

Left out for good: signature arithmetic, TOML, base64, key and YAML parsing, globs,
generated GraphQL bindings, the build script, logging. They are computations without
state; what depends on them takes their result as an input.

Not seen by any property, though the code has it: the limit of 100 reviews in a
snapshot (a later own review is not found), two merge methods at once among overlapping
attempts, webhooks with newer node ids, by which the prefilter would drop everything
(`PrefilterSound` has that as its premise), a path of the socket that changes its kind
while the server starts.

Left for later: a third worker in `automerge_overlap`, a third instance in `lifecycle`
and three slots in the service runs, all beyond the time a run may take.
