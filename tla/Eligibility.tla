----------------------------- MODULE Eligibility -----------------------------
(***************************************************************************)
(* check_automerge_eligibility (src/utils/rules.rs): the hard-coded        *)
(* restrictions, then the scan of the configured rules in order, against   *)
(* one pull request as PullRequestQuery returned it. has_possible_rule     *)
(* (src/config.rs) is the webhook's cheaper test of the same rules.        *)
(*                                                                         *)
(* A pull request and a rule are records with the fields the code reads.   *)
(* Names, paths and dependency attributes are opaque values, a Glob is the *)
(* set of paths it matches, and check runs that agree in every field are   *)
(* one record with a count. The author is an account, which GitHub shows   *)
(* in one form to the query and in another to the webhook.                 *)
(***************************************************************************)
EXTENDS Integers, Sequences, SequencesExt, FiniteSetsExt

CONSTANTS
    PullRequests,   \* what the query can return
    Rules,          \* the rules a configuration can hold
    MaxRules,       \* bound on the number of configured rules
    None            \* a missing option, in responses and in rules

ASSUME RulesAssumption == MaxRules \in Nat

VARIABLES
    response,       \* the pull request, or None when it was not found
    rules,          \* config.rules
    next,           \* index of the rule the loop looks at
    failures,       \* <<rule index, reason>> pairs pushed so far
    result          \* EligibleResult

vars == <<response, rules, next, failures, result>>

Unchecked == [kind |-> "Unchecked"]
Scanning == [kind |-> "Scanning"]
FailedHardChecks(reason) == [kind |-> "FailedHardChecks", reason |-> reason]
FoundRule(i) == [kind |-> "FoundRule", rule |-> i]
NoRuleFound(f) == [kind |-> "NoRuleFound", failures |-> f]

Configs == UNION {[1..n -> Rules] : n \in 0..MaxRules}

Init ==
    /\ response \in PullRequests \cup {None}
    /\ rules \in Configs
    /\ next = 1
    /\ failures = <<>>
    /\ result = Unchecked

-----------------------------------------------------------------------------
(* Options: a missing one does not restrict.                                *)
Permits(option, value) == option = None \/ value \in option
AtMost(value, option) == option = None \/ value <= option
Present(nodes) == IF nodes = None THEN {} ELSE nodes \ {None}
Partial(nodes) == nodes = None \/ None \in nodes

(* The reason that is reported is the first one, in the code's order.       *)
Earliest(order, reasons) == order[SelectInSeq(order, LAMBDA r : r \in reasons)]

-----------------------------------------------------------------------------
(* The forms of an account [name, type, id, next_ids]. A legacy node id     *)
(* holds type and id ("MDM6Qm90NDk2OTkzMzM=" is "03:Bot49699333" in base64);*)
(* GitHub may show the webhook an id of the newer kind instead (next_ids).  *)
node_id(format, account) == <<format, account.type, account.id>>

(* GraphQL shows a bot under its bare name, ...                             *)
Actor(account) ==
    [login |-> <<account.name>>, id |-> node_id("legacy", account)]

(* ... a webhook with a suffix that no user's name can have.                *)
Author(account) ==
    [login |-> IF account.type = "Bot" THEN <<account.name, "[bot]">> ELSE <<account.name>>,
     id |-> account.id,
     node_id |-> node_id(IF account.next_ids THEN "next" ELSE "legacy", account),
     type |-> account.type]

(* The number of dependabot's account.                                      *)
DependabotId == 49699333

(* What the code takes dependabot to look like in a webhook.                *)
Dependabot ==
    [login |-> <<"dependabot", "[bot]">>, id |-> DependabotId,
     node_id |-> <<"legacy", "Bot", DependabotId>>, type |-> "Bot"]

-----------------------------------------------------------------------------
(* The hard-coded restrictions, in the order they are tested.               *)
HardOrder ==
    <<"not_open", "no_author", "no_commits", "many_commits", "commits_unfetched",
      "no_diff", "no_changes", "many_files", "files_unfetched", "not_modified",
      "no_last_commit">>

HardBlockers(pr) ==
    LET files == pr.files IN
    {r \in ToSet(HardOrder) :
        \/ r = "not_open" /\ pr.state # "OPEN"
        \/ r = "no_author" /\ pr.author = None
        \/ r = "no_commits" /\ pr.commits.total_count <= 0
        \/ r = "many_commits" /\ pr.commits.total_count >= 100
        \/ r = "commits_unfetched" /\ Partial(pr.commits.nodes)
        \/ r = "no_diff" /\ files = None
        \/ r = "no_changes" /\ files # None /\ files.total_count <= 0
        \/ r = "many_files" /\ files # None /\ files.total_count >= 100
        \/ r = "files_unfetched" /\ files # None /\ Partial(files.nodes)
        \/ /\ r = "not_modified"
           /\ files # None
           /\ \E f \in Present(files.nodes) : f.change_type # "MODIFIED"
        \/ r = "no_last_commit" /\ ~pr.last_commit}

(* summarize_checks: the counters are u8 and wrap in a release build; a     *)
(* required name is marked at its first position only.                      *)
Summary(suites, required) ==
    LET Count(runs) == MapThenSumSet(LAMBDA g : g.count, runs) % 256
        completed == {g \in suites : g.status = "COMPLETED" /\ g.conclusion # None}
        passed == {g \in completed : g.conclusion = "SUCCESS"}
        ignored == {g \in completed : g.conclusion \in {"STALE", "SKIPPED", "NEUTRAL"}}
    IN  [pending  |-> Count(suites \ completed),
         passed   |-> Count(passed),
         failed   |-> Count(completed \ (passed \cup ignored)),
         required |-> \A i \in DOMAIN required :
                          /\ \E g \in passed : g.name = required[i]
                          /\ \A j \in 1..(i - 1) : required[j] # required[i]]

(* The reasons the checks of a rule push, each without ending the rule.     *)
CheckFailures(checks, suites) ==
    LET summary == Summary(suites, checks.required)
        Push(condition, reason) == IF condition THEN <<reason>> ELSE <<>>
    IN  Push(~AtMost(summary.pending, checks.max_pending), "pending")
          \o Push(~AtMost(summary.failed, checks.max_failed), "failed")
          \o Push(checks.min_passed # None /\ summary.passed < checks.min_passed, "passed")
          \o Push(~summary.required, "required")

(* match_dependabot_rule, reduced to whether it has a reason to refuse. An  *)
(* update without a group or an update type counts as the empty string.     *)
Attributes == {"dependency_name", "dependency_group", "dependency_type", "update_type"}

DependabotMismatch(dependabot, pr) ==
    \/ Actor(pr.author).id # <<"legacy", "Bot", DependabotId>>
    \/ \E commit \in Present(pr.commits.nodes) :
          \/ ~commit.by_dependabot
          \/ commit.metadata = None
          \/ \E update \in commit.metadata, a \in Attributes :
                ~Permits(dependabot[a], IF update[a] = None THEN "" ELSE update[a])

-----------------------------------------------------------------------------
(* What can end a rule, in the code's order. The checks push their reasons  *)
(* between "suites_unfetched" and "not_bot".                                *)
RuleOrder ==
    <<"repository", "branch", "commits", "files", "lines", "paths",
      "suites_unfetched", "not_bot", "rebasing", "dependabot">>

AfterChecks == {"not_bot", "rebasing", "dependabot"}

RuleBlockers(rule, pr) ==
    LET bot == rule.dependabot # None /\ Actor(pr.author).login = <<"dependabot">> IN
    {r \in ToSet(RuleOrder) :
        \/ r = "repository" /\ pr.repository \notin rule.repositories
        \/ r = "branch" /\ ~Permits(rule.branches, pr.base)
        \/ r = "commits" /\ ~AtMost(pr.commits.total_count, rule.max_commits)
        \/ r = "files" /\ ~AtMost(pr.files.total_count, rule.max_files)
        \/ r = "lines" /\ ~AtMost(pr.additions + pr.deletions, rule.max_changed_lines)
        \/ /\ r = "paths"
           /\ \E f \in Present(pr.files.nodes) : ~Permits(rule.allowed_paths, f.path)
        \/ r = "suites_unfetched" /\ rule.checks # None /\ pr.suites = None
        \/ r = "not_bot" /\ ~bot
        \/ r = "rebasing" /\ bot /\ pr.rebasing
        \/ r = "dependabot" /\ bot /\ DependabotMismatch(rule.dependabot, pr)}

(* The reasons a refused rule leaves behind, the ones of its checks first.  *)
Reasons(rule, pr) ==
    LET last == Earliest(RuleOrder, RuleBlockers(rule, pr))
        checked == last \in AfterChecks /\ rule.checks # None
    IN  Append(IF checked THEN CheckFailures(rule.checks, pr.suites) ELSE <<>>, last)

-----------------------------------------------------------------------------
(* The hard-coded restrictions end the function or let the scan begin.      *)
CheckHard ==
    /\ result = Unchecked
    /\ result' =
         IF response = None
         THEN FailedHardChecks("not_found")
         ELSE LET blockers == HardBlockers(response) IN
              IF blockers = {} THEN Scanning
              ELSE FailedHardChecks(Earliest(HardOrder, blockers))
    /\ UNCHANGED <<response, rules, next, failures>>

AtRule == result = Scanning /\ next \in DOMAIN rules

(* A rule for other repositories leaves no trace.                           *)
SkipRule ==
    /\ AtRule
    /\ response.repository \notin rules[next].repositories
    /\ next' = next + 1
    /\ UNCHANGED <<response, rules, failures, result>>

(* Mutant: the reasons of a refused rule replace those of earlier rules.    *)
RefuseRuleForgetful ==
    /\ AtRule
    /\ response.repository \in rules[next].repositories
    /\ RuleBlockers(rules[next], response) # {}
    /\ LET reasons == Reasons(rules[next], response) IN
       failures' = [j \in DOMAIN reasons |-> <<next, reasons[j]>>]
    /\ next' = next + 1
    /\ UNCHANGED <<response, rules, result>>

(* A rule for this repository that does not match leaves its reasons.       *)
RefuseRule ==
    /\ AtRule
    /\ response.repository \in rules[next].repositories
    /\ RuleBlockers(rules[next], response) # {}
    /\ LET reasons == Reasons(rules[next], response) IN
       failures' = failures \o [j \in DOMAIN reasons |-> <<next, reasons[j]>>]
    /\ next' = next + 1
    /\ UNCHANGED <<response, rules, result>>

(* Mutant: the scan goes on, so a later rule can win.                       *)
MatchRuleLast ==
    /\ AtRule
    /\ RuleBlockers(rules[next], response) = {}
    /\ \/ next = Len(rules) /\ result' = FoundRule(next) /\ UNCHANGED next
       \/ next < Len(rules) /\ next' = next + 1 /\ UNCHANGED result
    /\ UNCHANGED <<response, rules, failures>>

(* The first rule that matches ends the scan.                               *)
MatchRule ==
    /\ AtRule
    /\ RuleBlockers(rules[next], response) = {}
    /\ result' = FoundRule(next)
    /\ UNCHANGED <<response, rules, next, failures>>

(* Mutant: the scan counts one rule too many.                               *)
GiveUpLate ==
    /\ result = Scanning
    /\ next \notin DOMAIN rules
    /\ next' = next + 1
    /\ result' = NoRuleFound(failures)
    /\ UNCHANGED <<response, rules, failures>>

(* Every rule was looked at.                                                *)
GiveUp ==
    /\ result = Scanning
    /\ next \notin DOMAIN rules
    /\ result' = NoRuleFound(failures)
    /\ UNCHANGED <<response, rules, next, failures>>

Next == CheckHard \/ SkipRule \/ RefuseRule \/ MatchRule \/ GiveUp

Spec == Init /\ [][Next]_vars

-----------------------------------------------------------------------------
(* Mutant: the webhook is expected to show the login that GraphQL shows.    *)
classify_user_by_login(user) ==
    IF user = [Dependabot EXCEPT !.login = <<"dependabot">>] THEN "Dependabot" ELSE "Unknown"

(* All four fields have to be dependabot's.                                 *)
classify_user(user) == IF user = Dependabot THEN "Dependabot" ELSE "Unknown"

has_possible_rule(repo, author_type) ==
    /\ author_type = "Dependabot"
    /\ \E i \in DOMAIN rules :
          repo \in rules[i].repositories /\ rules[i].dependabot # None

-----------------------------------------------------------------------------
(* Every variable has its type; next never runs past the end of the rules.  *)
TypeOK ==
    /\ response \in PullRequests \cup {None}
    /\ rules \in Configs
    /\ next \in 1..(Len(rules) + 1)
    /\ \A j \in DOMAIN failures : failures[j][1] \in 1..(next - 1)
    /\ result.kind \in
         {"Unchecked", "Scanning", "FailedHardChecks", "FoundRule", "NoRuleFound"}

(* What the documentation of AutomergeRule and DependabotRule asks of a     *)
(* pull request, written down from there and not from the scan. Left out:   *)
(* the requirements on checks (DocumentedChecks).                           *)
Fits(rule, pr) ==
    /\ pr.state = "OPEN"
    /\ pr.repository \in rule.repositories
    /\ rule.branches # None => pr.base \in rule.branches
    /\ rule.max_commits # None => pr.commits.total_count <= rule.max_commits
    /\ rule.max_files # None => pr.files.total_count <= rule.max_files
    /\ rule.max_changed_lines # None =>
           pr.additions + pr.deletions <= rule.max_changed_lines
    /\ \A f \in pr.files.nodes :
          f.change_type = "MODIFIED" /\ (rule.allowed_paths # None => f.path \in rule.allowed_paths)
    /\ rule.checks # None => pr.suites # None
    /\ rule.dependabot # None
    /\ pr.author.name = "dependabot" /\ pr.author.type = "Bot" /\ pr.author.id = DependabotId
    /\ ~pr.rebasing
    /\ \A commit \in pr.commits.nodes :
          /\ commit.by_dependabot /\ commit.metadata # None
          /\ \A update \in commit.metadata, a \in Attributes :
                \/ rule.dependabot[a] = None
                \/ update[a] = None /\ "" \in rule.dependabot[a]
                \/ update[a] # None /\ update[a] \in rule.dependabot[a]

(* Once the scan is over, the rule found is the first one that fits, and no *)
(* rule is reported missing while one fits: the order of the rules in the   *)
(* configuration decides the merge method and the approval.                 *)
FirstFit ==
    /\ result.kind = "FoundRule" =>
          /\ Fits(rules[result.rule], response)
          /\ \A j \in 1..(result.rule - 1) : ~Fits(rules[j], response)
    /\ result.kind = "NoRuleFound" =>
          \A j \in DOMAIN rules : ~Fits(rules[j], response)

(* Whoever asks why a pull request was not merged gets at least one reason  *)
(* for every rule that names the repository, and none for another rule.     *)
FailuresExplained ==
    result.kind = "NoRuleFound" =>
        {result.failures[j][1] : j \in DOMAIN result.failures} =
            {i \in DOMAIN rules : response.repository \in rules[i].repositories}

(* The webhooks drop the events of pull requests that has_possible_rule     *)
(* rules out: by the author as the webhook shows it, while the scan goes by *)
(* the author as the query shows it. No rule can be found for a pull        *)
(* request that is dropped, unless the webhook shows newer node ids: then   *)
(* everything would be.                                                     *)
PrefilterSound ==
    result.kind = "FoundRule" /\ ~response.author.next_ids =>
        has_possible_rule(response.repository, classify_user(Author(response.author)))

-----------------------------------------------------------------------------
(* What the comments of the code say of checks and sizes.                   *)
Runs(suites, conclusions) ==
    LET picked == {g \in suites : g.status = "COMPLETED" /\ g.conclusion \in conclusions}
    IN  MapThenSumSet(LAMBDA g : g.count, picked)

(* config.rs, ChecksRule: a rule applies only to a pull request whose       *)
(* checks stay within max_failed, reach min_passed and include every        *)
(* required one.                                                            *)
DocumentedChecks ==
    result.kind = "FoundRule" /\ rules[result.rule].checks # None =>
        LET checks == rules[result.rule].checks IN
        /\ AtMost(Runs(response.suites, {"FAILURE"}), checks.max_failed)
        /\ checks.min_passed # None =>
               Runs(response.suites, {"SUCCESS"}) >= checks.min_passed
        /\ \A i \in DOMAIN checks.required :
              \E g \in response.suites :
                  g.name = checks.required[i] /\ g.conclusion = "SUCCESS"

(* rules.rs, CheckSummary: failed is the number of checks that failed, so a *)
(* rule that stopped after its checks reports too many of them.             *)
DocumentedCounters ==
    result.kind = "NoRuleFound" =>
        \A i \in DOMAIN rules :
            /\ rules[i].checks # None
            /\ \E r \in AfterChecks : <<i, r>> \in ToSet(result.failures)
            /\ ~AtMost(Runs(response.suites, {"FAILURE"}), rules[i].checks.max_failed)
            => <<i, "failed">> \in ToSet(result.failures)

=============================================================================
