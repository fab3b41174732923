--------------------------- MODULE MCCheckCommand ---------------------------
(* One worker: attempts follow each other, and the command's is one of them.*)
(* A rule that merges at once and one that approves and uses the queue; the *)
(* third kind of merge method is MCAutomerge's. Calls may be carried out    *)
(* twice.                                                                   *)
EXTENDS CheckCommand

CONSTANTS w1

Rule(autoapprove, merge_method) ==
    [autoapprove |-> autoapprove, merge_method |-> merge_method]

MCRules ==
    {Rule(FALSE, "InstantRebase"), Rule(TRUE, "AddToMergeQueue")}

=============================================================================
