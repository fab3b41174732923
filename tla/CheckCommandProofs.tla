------------------------- MODULE CheckCommandProofs -------------------------
(***************************************************************************)
(* Proofs about CheckCommand, for every number of workers and of times a   *)
(* call is carried out. The command is one more user of a worker, so that  *)
(* what AutomergeProofs proves holds next to it; and it never claims       *)
(* success for what did not happen.                                        *)
(***************************************************************************)
EXTENDS CheckCommand, AutomergeProofs

(* Every step with the command is a step without it, or does not touch the  *)
(* pull request and the workers.                                            *)
LEMMA CommandStep ==
    ASSUME [CommandNext]_command_vars
    PROVE  [Next]_vars
<1> USE CommanderAssumption
<1>1. CASE process_comment_event \/ is_user_repo_admin \/ EndSilently \/ AddComment
  BY <1>1 DEF process_comment_event, is_user_repo_admin, EndSilently, AddComment, Apart
<1>2. CASE Query
  <2>1. Command(Commander) \/ UNCHANGED vars
    BY <1>2 DEF Query, Apart
  <2> QED
    BY <2>1 DEF Next
<1>3. CASE Update
  <2>1. Apply(Commander) \/ Answer(Commander) \/ CallFails(Commander)
    BY <1>3 DEF Update
  <2> QED
    BY <2>1 DEF Next
<1>4. CASE Others
  BY <1>4 DEF Others, Next
<1>5. CASE UNCHANGED command_vars
  BY <1>5 DEF command_vars
<1> QED
  BY <1>1, <1>2, <1>3, <1>4, <1>5 DEF CommandNext, Handler

(* The command does nothing to the pull request that a worker would not do, *)
(* so what holds of the workers holds with it.                              *)
THEOREM CommandIsAttempt == CommandSpec => Spec
<1>1. CommandInit => Init
  BY DEF CommandInit
<1>2. [CommandNext]_command_vars => [Next]_vars
  BY CommandStep
<1> QED
  BY <1>1, <1>2, PTL DEF CommandSpec, Spec

(* Attempts, commands and pushes in whatever order: the bot merges, queues  *)
(* or turns on auto-merge at vetted heads only.                             *)
THEOREM CommandMergesVetted == CommandSpec => MergesVettedHead
  BY CommandIsAttempt, MergesAreVetted, PTL

(* The command's attempt next to the debounced ones, before or after them:  *)
(* once all rest, an open pull request that a rule matches is served,       *)
THEOREM CommandServes == CommandSpec => []ServedWhenEligible
  BY CommandIsAttempt, EligibleIsServed, PTL

(* and of what the bot did to one that no rule matches nothing merges it.   *)
THEOREM CommandWithdraws == CommandSpec => []WithdrawnWhenIneligible
  BY CommandIsAttempt, IneligibleIsWithdrawn, PTL

-----------------------------------------------------------------------------
HandlerOK ==
    /\ pc \in {"received", "permission", "deny", "refuse", "query", "update",
               "ignored", "error", "silent", "replied"}
    /\ check_result \in Rules \cup {None}
    /\ update_failed \in BOOLEAN /\ under_way \in BOOLEAN
    /\ \/ said = {}
       \/ pc \in {"error", "replied"} /\ \E comment : said = {comment}

LEMMA NextHandlerOK ==
    ASSUME TypeOK, HandlerOK, [CommandNext]_command_vars
    PROVE  HandlerOK'
<1> USE DEF HandlerOK
<1>1. CASE process_comment_event
  BY <1>1 DEF process_comment_event, Goto, Errs, Apart
<1>2. CASE is_user_repo_admin
  BY <1>2 DEF is_user_repo_admin, Goto, Errs, Apart
<1>3. CASE Query
  BY <1>3 DEF Query, Goto, Errs, Apart, UnderWay, TypeOK
<1>4. CASE Update
  BY <1>4 DEF Update, UnderWay, Propagates
<1>5. CASE EndSilently
  BY <1>5 DEF EndSilently, Updated, Goto, Apart
<1>6. CASE AddComment
  <2>1. said = {}
    BY <1>6 DEF AddComment, Updated
  <2>2. /\ said' = {} \/ said' = {Reply}
        /\ pc' \in {"error", "replied"}
        /\ UNCHANGED <<check_result, update_failed, under_way>>
    BY <1>6, <2>1 DEF AddComment, Goto, Apart
  <2> QED
    BY <2>2
<1>7. CASE Others
  BY <1>7 DEF Others, handler, UnderWay
<1>8. CASE UNCHANGED command_vars
  BY <1>8 DEF command_vars, handler
<1> QED
  BY <1>1, <1>2, <1>3, <1>4, <1>5, <1>6, <1>7, <1>8 DEF CommandNext, Handler

(* The handler is in one of its phases and says at most one thing.          *)
THEOREM HandlerIsOK == CommandSpec => []HandlerOK
<1>1. CommandInit => HandlerOK
  BY DEF CommandInit, HandlerOK
<1>2. TypeOK /\ HandlerOK /\ [CommandNext]_command_vars => HandlerOK'
  BY NextHandlerOK
<1> QED
  BY <1>1, <1>2, CommandIsAttempt, TypeCorrect, PTL DEF CommandSpec

(* Every variable keeps its type, the command says at most one thing.       *)
THEOREM CommandTypeCorrect == CommandSpec => []CommandTypeOK
<1>1. TypeOK /\ HandlerOK => CommandTypeOK
  <2> SUFFICES ASSUME TypeOK, HandlerOK PROVE CommandTypeOK
    OBVIOUS
  <2>1. Cardinality(said) = 0 \/ Cardinality(said) = 1
    BY FS_EmptySet, FS_Singleton DEF HandlerOK
  <2>2. Cardinality(said) <= 1
    BY <2>1
  <2> QED
    BY <2>2 DEF HandlerOK, CommandTypeOK
<1> QED
  BY <1>1, HandlerIsOK, CommandIsAttempt, TypeCorrect, PTL

-----------------------------------------------------------------------------
(* What the command says or keeps silent about has come true; while it      *)
(* updates without a failure, it has come true or is left to be done.       *)
KeepsItsWord ==
    /\ "eligible" \in said \/ pc = "silent" => under_way
    /\ pc = "update" /\ check_result # None /\ ~update_failed =>
          under_way \/ \E c \in Left(Commander) : c.op \in Merging

(* The command's snapshot: a rule was found, and either the merge is under  *)
(* way or it is planned.                                                    *)
LEMMA QueryKeepsItsWord ==
    ASSUME TypeOK, VettedCalls, HandlerOK, KeepsItsWord, Query
    PROVE  KeepsItsWord'
<1> USE CommanderAssumption
<1>1. said = {} /\ said' = said
  BY DEF Query, Errs, HandlerOK
<1>2. CASE pc' # "update"
  BY <1>1, <1>2 DEF Query, Errs, Goto, KeepsItsWord
<1>3. CASE pc' = "update"
  <2>1. /\ Command(Commander)
        /\ check_result' = IF state = "OPEN" THEN eligible ELSE None
        /\ under_way' = UnderWay
    BY <1>3 DEF Query, Errs, Goto
  <2>2. CASE state = "OPEN" /\ eligible # None
    <3>1. Plan = MergeCalls(eligible) /\ split(eligible.merge_method) \in Merging
      BY <2>2, SplitMerges DEF Plan, TypeOK
    <3>2. Left(Commander)' = Entries(MergeCalls(eligible))
      BY <2>1, <3>1, SnapshotLeft DEF Command
    <3>3. CASE auto_merge = NoOne /\ queue = NoOne
      <4> DEFINE b == [op |-> split(eligible.merge_method), head |-> head]
      <4>1. b \in Entries(MergeCalls(eligible))
        BY <3>3, MergeEntries
      <4>2. b.op \in Merging
        BY <3>1
      <4> QED
        BY <1>1, <1>3, <3>2, <4>1, <4>2 DEF KeepsItsWord
    <3>4. CASE ~(auto_merge = NoOne /\ queue = NoOne)
      BY <1>1, <1>3, <2>1, <3>4 DEF KeepsItsWord, UnderWay
    <3> QED
      BY <3>3, <3>4
  <2>3. CASE ~(state = "OPEN" /\ eligible # None)
    BY <1>1, <1>3, <2>1, <2>3 DEF KeepsItsWord
  <2> QED
    BY <2>2, <2>3
<1> QED
  BY <1>2, <1>3

(* The command's calls: one that merges either brings the merge under way,  *)
(* or its failure is noticed.                                               *)
LEMMA UpdateKeepsItsWord ==
    ASSUME TypeOK, VettedCalls, HandlerOK, KeepsItsWord, Update
    PROVE  KeepsItsWord'
<1> DEFINE call == todo[Commander][1]
           w == Commander
<1> USE CommanderAssumption
<1>1. /\ pc = "update" /\ pc' = pc /\ said' = said /\ said = {}
      /\ check_result' = check_result
      /\ under_way' = (under_way \/ UnderWay')
  BY DEF Update, HandlerOK
<1>2. SUFFICES ASSUME check_result # None, ~update_failed', ~under_way'
               PROVE  \E c \in Left(w)' : c.op \in Merging
  BY <1>1 DEF KeepsItsWord
<1>3. ~under_way /\ ~UnderWay'
  BY <1>1, <1>2 DEF HandlerOK
<1>4. ~update_failed
  BY <1>2 DEF Update, HandlerOK
<1>5. PICK c \in Left(w) : c.op \in Merging
  BY <1>1, <1>2, <1>3, <1>4 DEF KeepsItsWord
<1>6. CASE Apply(w)
  <2>1. call.op \notin Merging
    BY <1>3, <1>6 DEF Apply, Effect, Merged, Merging, UnderWay, Bot, NoOne
  <2>2. Left(w) \subseteq {call} \cup Left(w)'
    BY <1>6, ApplyLeft
  <2> QED
    BY <1>5, <2>1, <2>2
<1>7. CASE Answer(w) /\ update_failed' =
                (update_failed \/ (done[w] = 0 /\ Propagates(call)))
  <2>1. \/ Left(w)' = Left(w)
        \/ done[w] = 0 /\ Left(w) \subseteq {call} \cup Left(w)'
    BY <1>7, AnswerLeft
  <2>2. done[w] = 0 => call.op \notin Merging
    BY <1>2, <1>7 DEF Propagates, Merging
  <2> QED
    BY <1>5, <2>1, <2>2
<1>8. CASE CallFails(w) /\ update_failed' = (update_failed \/ Propagates(call))
  <2>1. Left(w) \subseteq {call} \cup Left(w)'
    BY <1>8, FailureLeft
  <2>2. call.op \notin Merging
    BY <1>2, <1>8 DEF Propagates, Merging
  <2> QED
    BY <1>5, <2>1, <2>2
<1> QED
  BY <1>6, <1>7, <1>8 DEF Update

(* The other workers leave the commander's calls alone while it updates.    *)
LEMMA OthersKeepItsWord ==
    ASSUME TypeOK, VettedCalls, HandlerOK, KeepsItsWord, Others
    PROVE  KeepsItsWord'
<1> USE CommanderAssumption
<1>1. UNCHANGED handler /\ (under_way => under_way')
  BY DEF Others, HandlerOK
<1>2. ASSUME pc = "update" PROVE Left(Commander)' = Left(Commander)
  <2>1. ASSUME NEW w \in Workers, w # Commander,
               Attempt(w) \/ Command(w) \/ Apply(w) \/ Answer(w) \/ CallFails(w)
        PROVE  todo'[Commander] = todo[Commander] /\ done'[Commander] = done[Commander]
    BY <2>1 DEF Attempt, Command, TakeSnapshot, Apply, Answer, CallFails, GoesOn, VettedCalls, TypeOK
  <2>2. ASSUME Outside \/ AttemptLost
        PROVE  todo'[Commander] = todo[Commander] /\ done'[Commander] = done[Commander]
    BY <2>2 DEF Outside, Push, Edit, CheckRun, Reopen, Close, GitHubMerges, UserTurnsOn,
                TurnedOff, Webhook, AttemptLost
  <2>3. todo'[Commander] = todo[Commander] /\ done'[Commander] = done[Commander]
    BY <1>2, <2>1, <2>2 DEF Others
  <2> QED
    BY <2>3 DEF Left
<1> QED
  BY <1>1, <1>2 DEF KeepsItsWord, handler

LEMMA NextKeepsItsWord ==
    ASSUME TypeOK, VettedCalls, ApprovesFirst, HandlerOK, KeepsItsWord,
           [CommandNext]_command_vars
    PROVE  KeepsItsWord'
<1>1. CASE process_comment_event
  BY <1>1 DEF process_comment_event, Goto, Errs, Apart, KeepsItsWord
<1>2. CASE is_user_repo_admin
  BY <1>2 DEF is_user_repo_admin, Goto, Errs, Apart, KeepsItsWord
<1>3. Updated => Left(Commander) = {}
  BY CommanderAssumption, EmptyList DEF Updated, Idle, ApprovesFirst, Left
<1>4. CASE EndSilently
  <2>1. under_way
    BY <1>3, <1>4 DEF EndSilently, Updated, Silent, KeepsItsWord
  <2> QED
    BY <1>4, <2>1 DEF EndSilently, Goto, Apart, KeepsItsWord
<1>5. CASE AddComment
  <2>1. /\ said = {} /\ said' \in {said, {Reply}}
        /\ pc' \in {"error", "replied"} /\ under_way' = under_way
    BY <1>5 DEF AddComment, Updated, HandlerOK, Goto, Apart
  <2>2. CASE pc \in {"deny", "refuse"}
    <3>1. Reply # "eligible"
      BY <2>2 DEF Reply
    <3> QED
      BY <2>1, <3>1 DEF KeepsItsWord
  <2>3. CASE Updated
    <3>1. Reply = "eligible" => check_result # None /\ ~update_failed
      BY <2>3 DEF Updated, Reply
    <3>2. Reply = "eligible" => under_way
      BY <1>3, <2>3, <3>1 DEF Updated, KeepsItsWord
    <3> QED
      BY <2>1, <3>2 DEF KeepsItsWord
  <2> QED
    BY <1>5, <2>2, <2>3 DEF AddComment
<1>6. CASE UNCHANGED command_vars
  BY <1>6 DEF command_vars, vars, handler, KeepsItsWord, Left
<1> QED
  BY <1>1, <1>2, <1>4, <1>5, <1>6, QueryKeepsItsWord, UpdateKeepsItsWord, OthersKeepItsWord
  DEF CommandNext, Handler

(* Whichever calls fail or are carried out twice, and whatever others do:   *)
(* when the command calls the pull request eligible without a failure, or   *)
(* keeps silent, it has been on its way to be merged since the snapshot.    *)
THEOREM NoClaimWithoutMerge == CommandSpec => []NoFalseSuccess
<1>1. CommandInit => KeepsItsWord
  BY DEF CommandInit, KeepsItsWord
<1>2. /\ TypeOK /\ VettedCalls /\ ApprovesFirst /\ HandlerOK /\ KeepsItsWord
      /\ [CommandNext]_command_vars
      => KeepsItsWord'
  BY NextKeepsItsWord
<1>3. KeepsItsWord => NoFalseSuccess
  BY DEF KeepsItsWord, NoFalseSuccess
<1> QED
  BY <1>1, <1>2, <1>3, CommandIsAttempt, TypeCorrect, CallsAreVetted, ApprovalsComeFirst,
     HandlerIsOK, PTL DEF CommandSpec

=============================================================================
