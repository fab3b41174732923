------------------------------ MODULE MCService ------------------------------
(* Pull requests of one installation. In the first instance GitHub has one  *)
(* id for each, written as its number; in the second there is one pull      *)
(* request, which GitHub names by two ids.                                  *)
EXTENDS Service, TLC

CONSTANTS k1, k2, id1, id2, i1

MCIdentifiers == {k1, k2}
MCIdsOf == [k \in Identifiers |-> {k}]
MCInstallation == [k \in Identifiers |-> i1]

(* k1 has webhooks of its own, k2 is met in check runs next to it. Comments *)
(* store an id as pull request events do; they are in the second instance.  *)
MCKinds ==
    {[kind |-> "pull_request", relevant |-> TRUE, prs |-> {k1}],
     [kind |-> "check_run", relevant |-> TRUE, prs |-> {k1, k2}]}

OneIdentifier == {k1}
TwoNodeIds == {id1, id2}
TwoIdsOf == k1 :> {id1, id2}

Symmetry == Permutations(Slots)

=============================================================================
