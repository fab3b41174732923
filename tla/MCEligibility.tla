---------------------------- MODULE MCEligibility ----------------------------
(***************************************************************************)
(* Inputs for Eligibility: a pull request that matches a demanding rule,   *)
(* each one-field deviation of it, a rule without demands, the demanding   *)
(* rule and each one-field deviation of both; configurations of up to two  *)
(* rules.                                                                  *)
(***************************************************************************)
EXTENDS Eligibility

CONSTANTS repo, fork, main, dev, lock, source, axios

Update == [dependency_name |-> axios, dependency_group |-> None,
           dependency_type |-> "direct", update_type |-> "patch"]
Commit == [by_dependabot |-> TRUE, metadata |-> {Update}]
Lock == [path |-> lock, change_type |-> "MODIFIED"]
Run(name, conclusion, count) ==
    [name |-> name, status |-> "COMPLETED", conclusion |-> conclusion, count |-> count]

Account == [name |-> "dependabot", type |-> "Bot", id |-> DependabotId, next_ids |-> FALSE]

(* Look-alikes: another bot of the name, a user of the name, the renamed    *)
(* bot, and anybody.                                                        *)
AccountVariants ==
    {None, [Account EXCEPT !.next_ids = TRUE], [Account EXCEPT !.id = 1],
     [Account EXCEPT !.id = 1, !.type = "User"], [Account EXCEPT !.name = "renamed"],
     [name |-> "human", type |-> "User", id |-> 2, next_ids |-> TRUE]}

BasePR ==
    [state |-> "OPEN", author |-> Account,
     commits |-> [total_count |-> 2, nodes |-> {Commit}],
     files |-> [total_count |-> 2, nodes |-> {Lock}],
     last_commit |-> TRUE, suites |-> {Run("lint", "SUCCESS", 1)},
     repository |-> repo, base |-> main, additions |-> 2, deletions |-> 1,
     rebasing |-> FALSE]

CommitVariants ==
    {[Commit EXCEPT !.by_dependabot = FALSE], [Commit EXCEPT !.metadata = None],
     [Commit EXCEPT !.metadata = {}]}
      \cup {[Commit EXCEPT !.metadata = {Update, [Update EXCEPT ![a] = v]}] :
              a \in Attributes, v \in {"other"}}
      \cup {[Commit EXCEPT !.metadata = {[Update EXCEPT !.dependency_group = "g"]}],
            [Commit EXCEPT !.metadata = {[Update EXCEPT !.update_type = None]}]}

SuiteVariants ==
    {None, {}, {Run("lint", "SUCCESS", 1), Run("test", "FAILURE", 2)},
     {Run("lint", "SUCCESS", 1), Run("test", "FAILURE", 256)},
     {Run("lint", "FAILURE", 1)}, {Run("lint", None, 1)}, {Run("lint", "SKIPPED", 1)},
     {[Run("lint", None, 3) EXCEPT !.status = "QUEUED"]}}

MCPullRequests ==
    {BasePR}
      \cup {[BasePR EXCEPT !.state = s] : s \in {"CLOSED", "MERGED"}}
      \cup {[BasePR EXCEPT !.author = a] : a \in AccountVariants}
      \cup {[BasePR EXCEPT !.commits.total_count = n] : n \in {1, 3, 99, 100, 101}}
      \cup {[BasePR EXCEPT !.commits = [total_count |-> 0, nodes |-> {}]],
            [BasePR EXCEPT !.files = [total_count |-> 0, nodes |-> {}]]}
      \cup {[BasePR EXCEPT !.commits.nodes = n] :
              n \in {None, {None, Commit}} \cup {{Commit, c} : c \in CommitVariants}
                      \cup {{c} : c \in CommitVariants}}
      \cup {[BasePR EXCEPT !.files = None]}
      \cup {[BasePR EXCEPT !.files.total_count = n] : n \in {3, 99, 100}}
      \cup {[BasePR EXCEPT !.files.nodes = n] :
              n \in {None, {None, Lock}, {Lock, [Lock EXCEPT !.path = source]},
                     {Lock, [Lock EXCEPT !.change_type = "ADDED"]}}}
      \cup {[BasePR EXCEPT !.last_commit = FALSE], [BasePR EXCEPT !.base = dev],
            [BasePR EXCEPT !.repository = fork], [BasePR EXCEPT !.rebasing = TRUE],
            [BasePR EXCEPT !.additions = 3], [BasePR EXCEPT !.deletions = 2]}
      \cup {[BasePR EXCEPT !.suites = s] : s \in SuiteVariants}

NoDemands == [a \in Attributes |-> None]
Checks == [max_pending |-> 0, min_passed |-> 1, max_failed |-> 1, required |-> <<"lint">>]

BaseRule ==
    [repositories |-> {repo}, branches |-> {main}, allowed_paths |-> {lock},
     max_commits |-> 2, max_files |-> 2, max_changed_lines |-> 3, checks |-> Checks,
     dependabot |->
         [NoDemands EXCEPT !["dependency_name"] = {axios}, !["dependency_group"] = {""},
                           !["dependency_type"] = {"direct"}, !["update_type"] = {"patch"}]]

OpenRule ==
    [repositories |-> {repo, fork}, branches |-> None, allowed_paths |-> None,
     max_commits |-> None, max_files |-> None, max_changed_lines |-> None,
     checks |-> None, dependabot |-> NoDemands]

MCRules ==
    {BaseRule, OpenRule}
      \cup UNION {
        {[r EXCEPT !.repositories = {fork}], [r EXCEPT !.branches = {}],
         [r EXCEPT !.branches = {main, dev}], [r EXCEPT !.allowed_paths = {}],
         [r EXCEPT !.max_commits = 0], [r EXCEPT !.max_commits = 3],
         [r EXCEPT !.max_files = 0], [r EXCEPT !.max_changed_lines = 4],
         [r EXCEPT !.checks = None],
         [r EXCEPT !.checks = [Checks EXCEPT !.required = <<"lint", "lint">>]],
         [r EXCEPT !.checks = [max_pending |-> None, min_passed |-> None,
                               max_failed |-> None, required |-> <<>>]],
         [r EXCEPT !.dependabot = None],
         [r EXCEPT !.dependabot = [BaseRule.dependabot EXCEPT !["dependency_group"] = {"g"}]],
         [r EXCEPT !.dependabot = [NoDemands EXCEPT !["update_type"] = {}]]} :
        r \in {BaseRule, OpenRule}}

=============================================================================
