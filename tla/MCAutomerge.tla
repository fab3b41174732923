----------------------------- MODULE MCAutomerge -----------------------------
(* Two workers, two heads, and a rule that approves and turns on auto-merge: *)
(* two calls to make and two to take back, which is where overlapping        *)
(* attempts get in each other's way.                                         *)
EXTENDS Automerge

MCRules == {[autoapprove |-> TRUE, merge_method |-> "AutoSquash"]}

=============================================================================
