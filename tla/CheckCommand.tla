---------------------------- MODULE CheckCommand ----------------------------
(***************************************************************************)
(* The "!automerge check" command (src/webhook/comment.rs): what           *)
(* process_comment_event does once it has stored the pull request's id,    *)
(* with process_check_command and is_user_repo_admin.                      *)
(*                                                                         *)
(* The command makes an attempt of its own, next to the debounced ones and *)
(* to everybody else who works on the pull request (module Automerge), and *)
(* then tells in a comment what came of it - or says nothing. The handler  *)
(* is followed for one command.                                            *)
(***************************************************************************)
EXTENDS Automerge

CONSTANT Commander      \* the worker that makes the command's attempt

ASSUME CommanderAssumption == Commander \in Workers

VARIABLES
    pc,             \* what the handler does next
    check_result,   \* the rule the eligibility check found, or None
    update_failed,  \* update_result.is_err()
    said,           \* history: the kinds of comment that are on GitHub
    under_way       \* history: since the command's snapshot the pull request
                    \* was merged, in the queue or had auto-merge on

handler == <<pc, check_result, update_failed, said>>
command_vars == <<vars, handler, under_way>>

Comments ==
    [action : {"created", "edited"}, sender : {None, "User", "Bot"},
     body : {None, "!automerge check", "other text"}]

CommandInit ==
    /\ Init
    /\ pc = "received"
    /\ check_result = None /\ update_failed = FALSE
    /\ said = {} /\ under_way = FALSE

Goto(step) == pc' = step

(* An error is returned and logged; the user hears nothing.                 *)
Errs == Goto("error") /\ UNCHANGED <<check_result, update_failed, said>>

UnderWay == state = "MERGED" \/ auto_merge # NoOne \/ queue # NoOne

(* A step that leaves the pull request alone.                               *)
Apart == UNCHANGED <<vars, under_way>>

(* Only a new comment by a user, with the command as its body, is acted on. *)
(* Then a payload without installation, or no client, is an error.          *)
process_comment_event ==
    /\ pc = "received" /\ Apart
    /\ \/ /\ \E comment \in Comments :
                Goto(IF /\ comment.action = "created"
                        /\ comment.sender = "User"
                        /\ comment.body = "!automerge check"
                     THEN "permission" ELSE "ignored")
          /\ UNCHANGED <<check_result, update_failed, said>>
       \/ Errs

(* GitHub tells the sender's permission, if he is a collaborator. Then the  *)
(* payload tells whether the comment is on a pull request or on an issue.   *)
is_user_repo_admin ==
    /\ pc = "permission" /\ Apart
    /\ \/ /\ Goto("deny") \/ Goto("query") \/ Goto("refuse")
          /\ UNCHANGED <<check_result, update_failed, said>>
       \/ Errs

(* PullRequestQuery and check_automerge_eligibility.                        *)
Query ==
    /\ pc = "query"
    /\ \/ /\ Command(Commander)
          /\ check_result' = IF state = "OPEN" THEN eligible ELSE None
          /\ under_way' = UnderWay
          /\ Goto("update") /\ UNCHANGED <<update_failed, said>>
       \/ Errs /\ Apart

(* Mutant: the result of merge_pull_request is dropped.                     *)
PropagatesNothing(call) == FALSE

(* Which call's error update_automerge returns; the others are only logged. *)
Propagates(call) == call.op \in {"merge", "enable", "enqueue"}

(* update_automerge, call by call; it can fail when GitHub refuses, and     *)
(* when GitHub has carried the call out but the answer is lost.             *)
Update ==
    /\ pc = "update"
    /\ \/ Apply(Commander) /\ UNCHANGED update_failed
       \/ /\ Answer(Commander)
          /\ update_failed' =
                (update_failed \/ (done[Commander] = 0 /\ Propagates(todo[Commander][1])))
       \/ /\ CallFails(Commander)
          /\ update_failed' = (update_failed \/ Propagates(todo[Commander][1]))
    /\ under_way' = (under_way \/ UnderWay')
    /\ UNCHANGED <<pc, check_result, said>>

(* No comment when autoapprove is on and the update did not fail.           *)
Silent == check_result # None /\ check_result.autoapprove /\ ~update_failed

Updated == pc = "update" /\ Idle(Commander)

EndSilently ==
    /\ Updated /\ Silent /\ Apart
    /\ Goto("silent") /\ UNCHANGED <<check_result, update_failed, said>>

Reply ==
    CASE pc = "deny" -> "You must be a repository admin"
      [] pc = "refuse" -> "must be run on a pull request"
      [] pc = "update" /\ check_result = None -> "not eligible"
      [] pc = "update" /\ check_result # None /\ ~update_failed -> "eligible"
      [] pc = "update" /\ check_result # None /\ update_failed ->
            "eligible, enabling automerge failed"

(* Mutant: a failed AddComment is tried again without end.                  *)
AddCommentInsists ==
    /\ pc \in {"deny", "refuse"} \/ (Updated /\ ~Silent)
    /\ Apart
    /\ said' \in {said, said \cup {Reply}}
    /\ Goto(pc) /\ UNCHANGED <<check_result, update_failed>>

(* AddComment. An error may come back although the comment was posted.      *)
AddComment ==
    /\ pc \in {"deny", "refuse"} \/ (Updated /\ ~Silent)
    /\ Apart
    /\ said' \in {said, said \cup {Reply}}
    /\ \/ said' # said /\ Goto("replied")
       \/ Goto("error")
    /\ UNCHANGED <<check_result, update_failed>>

Handler ==
    \/ process_comment_event \/ is_user_repo_admin \/ Query
    \/ Update \/ EndSilently \/ AddComment

(* While the command updates, its worker makes no attempts for others.      *)
Others ==
    /\ \/ Outside
       \/ AttemptLost
       \/ \E w \in Workers :
             /\ w # Commander \/ pc # "update"
             /\ Attempt(w) \/ Command(w) \/ Apply(w) \/ Answer(w) \/ CallFails(w)
    /\ under_way' = (under_way \/ (pc = "update" /\ UnderWay'))
    /\ UNCHANGED handler

CommandNext == Handler \/ Others

CommandSpec == CommandInit /\ [][CommandNext]_command_vars

(* GitHub answers each call of the command, and tokio goes on with it.      *)
FairCommandSpec == CommandSpec /\ WF_command_vars(Handler)

-----------------------------------------------------------------------------
CommandTypeOK ==
    /\ TypeOK
    /\ pc \in {"received", "permission", "deny", "refuse", "query", "update",
               "ignored", "error", "silent", "replied"}
    /\ check_result \in Rules \cup {None}
    /\ {update_failed, under_way} \subseteq BOOLEAN
    /\ Cardinality(said) <= 1

(* The command does not claim success for what did not happen: when it      *)
(* calls the pull request eligible without a failure, or keeps silent       *)
(* because the approval speaks for it, the pull request has been on its way *)
(* to be merged since the command looked at it - whatever the debounced     *)
(* attempts, users and GitHub did, and whichever calls failed.              *)
NoFalseSuccess == "eligible" \in said \/ pc = "silent" => under_way

(* Every command comes to an end, and the end is heard: a comment, an error *)
(* in the log, or silence for an autoapproving rule.                        *)
CommandEnds ==
    pc = "permission" ~> pc \in {"error", "silent", "replied"}

=============================================================================
