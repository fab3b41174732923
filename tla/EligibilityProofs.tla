-------------------------- MODULE EligibilityProofs --------------------------
(***************************************************************************)
(* Proofs about Eligibility for every set of pull requests and of rules    *)
(* and every bound on their number: the scan finds the first rule that     *)
(* fits, the webhooks' prefilter never drops a pull request that one fits, *)
(* and the reasons for finding no rule are about the repository's rules.   *)
(***************************************************************************)
EXTENDS Eligibility, SequenceTheorems, TLAPS

(* The shape of the scan: which rule it is at, and that no rule before that *)
(* one fits. Past the hard checks, the pull request passes them.            *)
IInv ==
    /\ rules \in Configs
    /\ next \in Nat \ {0}
    /\ next <= Len(rules) + 1
    /\ result.kind = "Unchecked" => next = 1
    /\ result.kind \in {"Scanning", "FoundRule", "NoRuleFound"} =>
          /\ HardBlockers(response) = {}
          /\ \A j \in 1..(next - 1) : ~Fits(rules[j], response)
    /\ result.kind = "FoundRule" =>
          /\ result.rule = next
          /\ next \in DOMAIN rules
          /\ Fits(rules[next], response)
    /\ result.kind = "NoRuleFound" => next \notin DOMAIN rules

(* The order of the hard checks leaves none of them out.                    *)
LEMMA HardReasons ==
    ToSet(HardOrder) =
        {"not_open", "no_author", "no_commits", "many_commits", "commits_unfetched",
         "no_diff", "no_changes", "many_files", "files_unfetched", "not_modified",
         "no_last_commit"}
  BY DEF ToSet, HardOrder

(* Neither does the order in which a rule's demands are tested.             *)
LEMMA RuleReasons ==
    ToSet(RuleOrder) =
        {"repository", "branch", "commits", "files", "lines", "paths",
         "suites_unfetched", "not_bot", "rebasing", "dependabot"}
  BY DEF ToSet, RuleOrder

(* A configuration is a sequence, so its domain is 1..Len(rules).           *)
LEMMA ConfigDomain ==
    ASSUME RulesAssumption, rules \in Configs
    PROVE  Len(rules) \in Nat /\ DOMAIN rules = 1..Len(rules)
  BY DEF Configs, RulesAssumption

(* What the hard checks establish for the scan.                             *)
LEMMA HardChecksPass ==
    ASSUME NEW pr, HardBlockers(pr) = {}
    PROVE  /\ pr.state = "OPEN"
           /\ pr.author # None
           /\ Present(pr.commits.nodes) = pr.commits.nodes
           /\ Present(pr.files.nodes) = pr.files.nodes
           /\ \A f \in pr.files.nodes : f.change_type = "MODIFIED"
<1>1. /\ pr.state = "OPEN"
      /\ pr.author # None
      /\ ~Partial(pr.commits.nodes)
      /\ pr.files # None
  BY HardReasons DEF HardBlockers
<1>2. /\ ~Partial(pr.files.nodes)
      /\ \A f \in Present(pr.files.nodes) : f.change_type = "MODIFIED"
  BY <1>1, HardReasons DEF HardBlockers
<1>3. ASSUME NEW nodes, ~Partial(nodes) PROVE Present(nodes) = nodes
  BY <1>3 DEF Partial, Present
<1> QED
  BY <1>1, <1>2, <1>3

(* The tests on the commits are the documented demands on them.             *)
LEMMA DependabotDemands ==
    ASSUME NEW dependabot, NEW pr, Present(pr.commits.nodes) = pr.commits.nodes
    PROVE  ~DependabotMismatch(dependabot, pr) <=>
             /\ pr.author.type = "Bot" /\ pr.author.id = DependabotId
             /\ \A commit \in pr.commits.nodes :
                   /\ commit.by_dependabot /\ commit.metadata # None
                   /\ \A update \in commit.metadata, a \in Attributes :
                         \/ dependabot[a] = None
                         \/ update[a] = None /\ "" \in dependabot[a]
                         \/ update[a] # None /\ update[a] \in dependabot[a]
<1>1. ASSUME NEW update, NEW a
      PROVE  Permits(dependabot[a], IF update[a] = None THEN "" ELSE update[a]) <=>
                \/ dependabot[a] = None
                \/ update[a] = None /\ "" \in dependabot[a]
                \/ update[a] # None /\ update[a] \in dependabot[a]
  BY DEF Permits
<1>2. Actor(pr.author).id = <<"legacy", "Bot", DependabotId>> <=>
         pr.author.type = "Bot" /\ pr.author.id = DependabotId
  BY DEF Actor, node_id
<1> QED
  BY <1>1, <1>2 DEF DependabotMismatch

(* A rule ends with a match exactly when the pull request fits it.          *)
LEMMA UnblockedFits ==
    ASSUME NEW rule, NEW pr, HardBlockers(pr) = {}
    PROVE  RuleBlockers(rule, pr) = {} <=> Fits(rule, pr)
<1> DEFINE Paths == \A f \in pr.files.nodes : Permits(rule.allowed_paths, f.path)
<1> DEFINE Demands ==
      /\ pr.repository \in rule.repositories
      /\ Permits(rule.branches, pr.base)
      /\ AtMost(pr.commits.total_count, rule.max_commits)
      /\ AtMost(pr.files.total_count, rule.max_files)
      /\ AtMost(pr.additions + pr.deletions, rule.max_changed_lines)
      /\ Paths
      /\ rule.checks # None => pr.suites # None
      /\ rule.dependabot # None
      /\ pr.author.name = "dependabot"
      /\ ~pr.rebasing
      /\ ~DependabotMismatch(rule.dependabot, pr)
<1>1. Present(pr.files.nodes) = pr.files.nodes
  BY HardChecksPass
<1>a. Actor(pr.author).login = <<"dependabot">> <=> pr.author.name = "dependabot"
  BY DEF Actor
<1>2. RuleBlockers(rule, pr) = {} <=> Demands
  BY <1>1, <1>a, RuleReasons DEF RuleBlockers
<1>3. Fits(rule, pr) <=> Demands
  BY HardChecksPass, DependabotDemands DEF Fits, Permits, AtMost
<1> QED
  BY <1>2, <1>3

(* Nothing is scanned yet.                                                  *)
LEMMA InitIInv == Init => IInv
<1> SUFFICES ASSUME Init PROVE IInv
  OBVIOUS
<1>1. rules \in Configs /\ next = 1 /\ result.kind = "Unchecked"
  BY DEF Init, Unchecked
<1> QED
  BY <1>1, RulesAssumption, ConfigDomain DEF IInv

(* Every step of the scan keeps the invariant: a rule is passed only when   *)
(* the pull request does not fit it.                                        *)
LEMMA NextIInv ==
    ASSUME IInv, [Next]_vars
    PROVE  IInv'
<1>1. Len(rules) \in Nat /\ DOMAIN rules = 1..Len(rules)
  BY RulesAssumption, ConfigDomain DEF IInv
<1>2. CASE CheckHard
  <2>1. next = 1 /\ UNCHANGED <<response, rules, next>>
    BY <1>2 DEF CheckHard, IInv, Unchecked
  <2>2. \/ result'.kind = "FailedHardChecks"
        \/ result'.kind = "Scanning" /\ HardBlockers(response) = {}
    BY <1>2 DEF CheckHard, FailedHardChecks, Scanning
  <2> QED
    BY <2>1, <2>2 DEF IInv
<1>3. ASSUME AtRule, RuleBlockers(rules[next], response) # {}, next' = next + 1,
             UNCHANGED <<response, rules, result>>
      PROVE  IInv'
  <2>1. result.kind = "Scanning" /\ next \in DOMAIN rules
    BY <1>3 DEF AtRule, Scanning
  <2>2. HardBlockers(response) = {} /\ ~Fits(rules[next], response)
    BY <1>3, <2>1, UnblockedFits DEF IInv
  <2>3. \A j \in 1..next : ~Fits(rules[j], response)
    BY <2>1, <2>2 DEF IInv
  <2> QED
    BY <1>1, <1>3, <2>1, <2>2, <2>3 DEF IInv
<1>4. CASE SkipRule
  <2>1. "repository" \in RuleBlockers(rules[next], response)
    BY <1>4, RuleReasons DEF SkipRule, RuleBlockers
  <2> QED
    BY <1>3, <1>4, <2>1 DEF SkipRule
<1>5. CASE RefuseRule
  BY <1>3, <1>5 DEF RefuseRule
<1>6. CASE MatchRule
  <2>1. result.kind = "Scanning" /\ next \in DOMAIN rules
    BY <1>6 DEF MatchRule, AtRule, Scanning
  <2>2. HardBlockers(response) = {} /\ Fits(rules[next], response)
    BY <1>6, <2>1, UnblockedFits DEF IInv, MatchRule
  <2>3. result'.kind = "FoundRule" /\ result'.rule = next
    BY <1>6 DEF MatchRule, FoundRule
  <2> QED
    BY <1>6, <2>1, <2>2, <2>3 DEF IInv, MatchRule
<1>7. CASE GiveUp
  <2>1. result.kind = "Scanning" /\ result'.kind = "NoRuleFound"
    BY <1>7 DEF GiveUp, Scanning, NoRuleFound
  <2> QED
    BY <1>7, <2>1 DEF IInv, GiveUp
<1>8. CASE UNCHANGED vars
  BY <1>8 DEF vars, IInv
<1> QED
  BY <1>2, <1>4, <1>5, <1>6, <1>7, <1>8 DEF Next

(* IInv holds in every reachable state.                                     *)
THEOREM Invariance == Spec => []IInv
  BY InitIInv, NextIInv, PTL DEF Spec

(* The rule found is the first that fits; none is missed.                   *)
THEOREM FindsFirstFit == Spec => []FirstFit
<1>1. ASSUME IInv PROVE FirstFit
  <2>1. Len(rules) \in Nat /\ DOMAIN rules = 1..Len(rules)
    BY <1>1, RulesAssumption, ConfigDomain DEF IInv
  <2> QED
    BY <1>1, <2>1 DEF IInv, FirstFit
<1> QED
  BY Invariance, <1>1, PTL

(* The account that the scan takes for dependabot, by its name and node id  *)
(* in GraphQL, is the one that the webhook test knows by all four fields.   *)
LEMMA SameAccount ==
    ASSUME NEW account, ~account.next_ids,
           account.name = "dependabot", account.type = "Bot", account.id = DependabotId
    PROVE  classify_user(Author(account)) = "Dependabot"
  BY DEF Author, node_id, Dependabot, classify_user

(* A pull request the webhooks drop is one for which no rule is found.      *)
THEOREM PrefilterIsSound == Spec => []PrefilterSound
<1>1. ASSUME IInv, result.kind = "FoundRule", ~response.author.next_ids
      PROVE  has_possible_rule(response.repository, classify_user(Author(response.author)))
  <2>1. next \in DOMAIN rules /\ Fits(rules[next], response)
    BY <1>1 DEF IInv
  <2>2. classify_user(Author(response.author)) = "Dependabot"
    BY <1>1, <2>1, SameAccount DEF Fits
  <2> QED
    BY <2>1, <2>2 DEF Fits, has_possible_rule
<1> QED
  BY Invariance, <1>1, PTL DEF PrefilterSound

-----------------------------------------------------------------------------
(* The rules that a list of failures is about.                              *)
About(f) == {f[j][1] : j \in DOMAIN f}
IsList(f) == f \in Seq({f[j] : j \in DOMAIN f})

(* The checks of a rule give a list of reasons, whatever they are.          *)
CheckReasons == {"pending", "failed", "passed", "required"}

LEMMA CheckFailuresAreList ==
    ASSUME NEW checks, NEW suites
    PROVE  CheckFailures(checks, suites) \in Seq(CheckReasons)
<1> DEFINE Push(condition, reason) == IF condition THEN <<reason>> ELSE <<>>
           summary == Summary(suites, checks.required)
           a == Push(~AtMost(summary.pending, checks.max_pending), "pending")
           b == Push(~AtMost(summary.failed, checks.max_failed), "failed")
           c == Push(checks.min_passed # None /\ summary.passed < checks.min_passed, "passed")
           d == Push(~summary.required, "required")
<1>1. ASSUME NEW S, NEW r \in S PROVE <<>> \in Seq(S) /\ <<r>> \in Seq(S)
  <2>1. <<>> \in Seq(S)
    BY EmptySeq
  <2>2. <<r>> \in Seq(S)
    OBVIOUS
  <2> QED
    BY <2>1, <2>2
<1>2. /\ a \in Seq(CheckReasons) /\ b \in Seq(CheckReasons)
      /\ c \in Seq(CheckReasons) /\ d \in Seq(CheckReasons)
  <2>1. /\ a \in {<<>>, <<"pending">>} /\ b \in {<<>>, <<"failed">>}
        /\ c \in {<<>>, <<"passed">>} /\ d \in {<<>>, <<"required">>}
    BY Zenon
  <2> HIDE DEF a, b, c, d
  <2> QED
    BY <1>1, <2>1 DEF CheckReasons
<1>3. CheckFailures(checks, suites) = ((a \o b) \o c) \o d
  BY DEF CheckFailures, Push
<1> HIDE DEF a, b, c, d
<1>4. a \o b \in Seq(CheckReasons)
  BY <1>2, ConcatProperties
<1>5. (a \o b) \o c \in Seq(CheckReasons)
  BY <1>2, <1>4, ConcatProperties
<1>6. ((a \o b) \o c) \o d \in Seq(CheckReasons)
  BY <1>2, <1>5, ConcatProperties
<1> QED
  BY <1>3, <1>6

(* A refused rule leaves at least one reason.                               *)
LEMMA ReasonsAreList ==
    ASSUME NEW rule, NEW pr
    PROVE  \E n \in Nat \ {0} : DOMAIN Reasons(rule, pr) = 1..n
<1> DEFINE last == Earliest(RuleOrder, RuleBlockers(rule, pr))
           S == CheckReasons \cup {last}
           pushed == IF last \in AfterChecks /\ rule.checks # None
                     THEN CheckFailures(rule.checks, pr.suites) ELSE <<>>
<1>1. Reasons(rule, pr) = Append(pushed, last)
  BY DEF Reasons
<1>2. pushed \in Seq(CheckReasons)
  BY CheckFailuresAreList, EmptySeq
<1> HIDE DEF pushed, last
<1>3. pushed \in Seq(S) /\ last \in S
  BY <1>2
<1> HIDE DEF S
<1>4. DOMAIN Append(pushed, last) = 1..(Len(pushed) + 1) /\ Len(pushed) + 1 \in Nat \ {0}
  BY <1>3
<1> QED
  BY <1>1, <1>4

(* What can be seen as a list of anything is a list.                        *)
LEMMA TypedList ==
    ASSUME NEW S, NEW s \in Seq(S)
    PROVE  IsList(s) /\ DOMAIN s = 1..Len(s) /\ Len(s) \in Nat
<1>1. DOMAIN s = 1..Len(s) /\ Len(s) \in Nat
  OBVIOUS
<1>2. s \in [1..Len(s) -> {s[j] : j \in DOMAIN s}]
  BY <1>1
<1> QED
  BY <1>1, <1>2 DEF IsList

(* Lists of failures one behind the other.                                  *)
LEMMA AboutBoth ==
    ASSUME NEW f, NEW t, IsList(f), IsList(t)
    PROVE  IsList(f \o t) /\ About(f \o t) = About(f) \cup About(t)
<1> DEFINE S == {f[j] : j \in DOMAIN f} \cup {t[j] : j \in DOMAIN t}
           h == f \o t
<1>1. f \in Seq(S) /\ t \in Seq(S)
  <2>1. f \in [1..Len(f) -> S] /\ Len(f) \in Nat
    BY DEF IsList
  <2>2. t \in [1..Len(t) -> S] /\ Len(t) \in Nat
    BY DEF IsList
  <2> QED
    BY <2>1, <2>2
<1> HIDE DEF S
<1>2. /\ Len(f) \in Nat /\ DOMAIN f = 1..Len(f)
      /\ Len(t) \in Nat /\ DOMAIN t = 1..Len(t)
  BY <1>1
<1>3. /\ h \in Seq(S) /\ Len(h) = Len(f) + Len(t)
      /\ \A j \in 1..Len(f) : h[j] = f[j]
      /\ \A j \in 1..Len(t) : h[Len(f) + j] = t[j]
  BY <1>1, <1>2
<1> HIDE DEF h
<1>4. IsList(h) /\ DOMAIN h = 1..(Len(f) + Len(t))
  BY <1>3, TypedList
<1>5. ASSUME NEW j \in DOMAIN f PROVE f[j][1] \in About(h)
  <2>1. j \in DOMAIN h /\ h[j] = f[j]
    BY <1>2, <1>3, <1>4
  <2> QED
    BY <2>1 DEF About
<1>6. ASSUME NEW j \in DOMAIN t PROVE t[j][1] \in About(h)
  <2>1. Len(f) + j \in DOMAIN h /\ h[Len(f) + j] = t[j]
    BY <1>2, <1>3, <1>4
  <2> QED
    BY <2>1 DEF About
<1>7. ASSUME NEW j \in DOMAIN h PROVE h[j][1] \in About(f) \cup About(t)
  <2>1. CASE j \in DOMAIN f
    BY <1>2, <1>3, <2>1 DEF About
  <2>2. CASE j \notin DOMAIN f
    <3>1. j - Len(f) \in DOMAIN t /\ j = Len(f) + (j - Len(f))
      BY <1>2, <1>4, <2>2
    <3>2. h[j] = t[j - Len(f)]
      BY <1>2, <1>3, <3>1
    <3> QED
      BY <3>1, <3>2 DEF About
  <2> QED
    BY <2>1, <2>2
<1>8. About(h) = About(f) \cup About(t)
  BY <1>5, <1>6, <1>7 DEF About
<1> QED
  BY <1>4, <1>8 DEF h

(* The failures of a rule, one for each reason.                             *)
LEMMA FailuresOfRule ==
    ASSUME NEW t, NEW n \in Nat \ {0}, NEW i, t = [j \in 1..n |-> t[j]],
           \A j \in 1..n : t[j][1] = i
    PROVE  IsList(t) /\ About(t) = {i}
<1> DEFINE S == {t[j] : j \in 1..n}
<1>1. t \in [1..n -> S] /\ DOMAIN t = 1..n
  OBVIOUS
<1>2. 1 \in 1..n
  OBVIOUS
<1> HIDE DEF S
<1>3. t \in Seq(S)
  BY <1>1
<1>4. IsList(t)
  BY <1>3, TypedList
<1>5. About(t) = {i}
  BY <1>1, <1>2 DEF About
<1> QED
  BY <1>4, <1>5

(* What was pushed so far is about the rules for this repository that the   *)
(* scan has passed, each of them.                                           *)
Explained ==
    /\ response \in PullRequests \cup {None}
    /\ IsList(failures)
    /\ About(failures) =
          {i \in 1..(next - 1) : response.repository \in rules[i].repositories}
    /\ result.kind \in
         {"Unchecked", "Scanning", "FailedHardChecks", "FoundRule", "NoRuleFound"}
    /\ result.kind = "NoRuleFound" => result.failures = failures

LEMMA InitExplained == Init => Explained
<1> SUFFICES ASSUME Init PROVE Explained
  OBVIOUS
<1>1. /\ failures = <<>> /\ next = 1 /\ result.kind = "Unchecked"
      /\ response \in PullRequests \cup {None}
  BY DEF Init, Unchecked
<1>2. IsList(failures) /\ About(failures) = {}
  BY <1>1 DEF IsList, About
<1>3. 1..(next - 1) = {}
  BY <1>1
<1> QED
  BY <1>1, <1>2, <1>3 DEF Explained

LEMMA NextExplained ==
    ASSUME IInv, Explained, [Next]_vars
    PROVE  Explained'
<1>a. next \in Nat \ {0}
  BY DEF IInv
<1>b. 1..((next + 1) - 1) = 1..(next - 1) \cup {next} /\ next \notin 1..(next - 1)
  BY <1>a
<1>1. CASE CheckHard
  <2>1. result'.kind \in {"FailedHardChecks", "Scanning"}
    BY <1>1 DEF CheckHard, FailedHardChecks, Scanning
  <2> QED
    BY <1>1, <2>1 DEF CheckHard, Explained
<1>2. CASE SkipRule
  <2>1. /\ response.repository \notin rules[next].repositories /\ next' = next + 1
        /\ UNCHANGED <<response, rules, failures, result>>
    BY <1>2 DEF SkipRule
  <2> QED
    BY <1>b, <2>1 DEF Explained
<1>3. CASE RefuseRule
  <2> DEFINE g == Reasons(rules[next], response)
             t == [j \in DOMAIN g |-> <<next, g[j]>>]
  <2>1. PICK n \in Nat \ {0} : DOMAIN g = 1..n
    BY ReasonsAreList
  <2>2. /\ response.repository \in rules[next].repositories /\ next' = next + 1
        /\ failures' = failures \o t
        /\ UNCHANGED <<response, rules, result>>
    BY <1>3 DEF RefuseRule
  <2>3. result.kind = "Scanning"
    BY <1>3 DEF RefuseRule, AtRule, Scanning
  <2>4. t = [j \in 1..n |-> t[j]] /\ \A j \in 1..n : t[j][1] = next
    BY <2>1
  <2> HIDE DEF t
  <2>5. IsList(t) /\ About(t) = {next}
    BY <2>4, FailuresOfRule
  <2>6. IsList(failures)
    BY DEF Explained
  <2>7. IsList(failures \o t) /\ About(failures \o t) = About(failures) \cup {next}
    BY <2>5, <2>6, AboutBoth
  <2>8. IsList(failures') /\ About(failures') = About(failures) \cup {next}
    BY <2>2, <2>7
  <2> QED
    BY <1>b, <2>2, <2>3, <2>8 DEF Explained, IsList, About
<1>4. CASE MatchRule
  <2>1. result'.kind = "FoundRule"
    BY <1>4 DEF MatchRule, FoundRule
  <2> QED
    BY <1>4, <2>1 DEF MatchRule, Explained
<1>5. CASE GiveUp
  <2>1. result'.kind = "NoRuleFound" /\ result'.failures = failures
    BY <1>5 DEF GiveUp, NoRuleFound
  <2> QED
    BY <1>5, <2>1 DEF GiveUp, Explained
<1>6. CASE UNCHANGED vars
  BY <1>6 DEF vars, Explained, IsList, About
<1> QED
  BY <1>1, <1>2, <1>3, <1>4, <1>5, <1>6 DEF Next

(* At every point of the scan the reasons are about the rules passed.       *)
THEOREM ScanIsExplained == Spec => []Explained
  BY InitExplained, NextExplained, Invariance, PTL DEF Spec

(* Every variable has its type; the scan never runs past the last rule and  *)
(* blames no rule it has not passed.                                        *)
THEOREM TypeCorrect == Spec => []TypeOK
<1>1. ASSUME IInv, Explained PROVE TypeOK
  <2>1. Len(rules) \in Nat
    BY <1>1, RulesAssumption, ConfigDomain DEF IInv
  <2>2. rules \in Configs /\ next \in 1..(Len(rules) + 1)
    BY <1>1, <2>1 DEF IInv
  <2>3. \A j \in DOMAIN failures : failures[j][1] \in 1..(next - 1)
    BY <1>1 DEF Explained, About
  <2> QED
    BY <1>1, <2>2, <2>3 DEF Explained, TypeOK
<1> QED
  BY Invariance, ScanIsExplained, <1>1, PTL

(* When no rule is found there is a reason for every rule that names the    *)
(* repository, and for no other.                                            *)
THEOREM FailuresAreExplained == Spec => []FailuresExplained
<1>1. ASSUME IInv, Explained, result.kind = "NoRuleFound"
      PROVE  {result.failures[j][1] : j \in DOMAIN result.failures} =
                {i \in DOMAIN rules : response.repository \in rules[i].repositories}
  <2>1. Len(rules) \in Nat /\ DOMAIN rules = 1..Len(rules)
    BY <1>1, RulesAssumption, ConfigDomain DEF IInv
  <2>2. next \in Nat \ {0} /\ next <= Len(rules) + 1 /\ next \notin DOMAIN rules
    BY <1>1 DEF IInv
  <2>3. 1..(next - 1) = DOMAIN rules
    BY <2>1, <2>2
  <2> QED
    BY <1>1, <2>3 DEF Explained, About
<1> QED
  BY Invariance, ScanIsExplained, <1>1, PTL DEF FailuresExplained

=============================================================================
