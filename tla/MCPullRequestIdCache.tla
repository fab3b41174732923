------------------------ MODULE MCPullRequestIdCache ------------------------
(* Two pull requests. GitHub names the first by two ids: the format of a    *)
(* node id is not the same in every payload.                                *)
EXTENDS PullRequestIdCache, TLC

CONSTANTS k1, k2, legacy1, id1, id2

MCIdentifiers == {k1, k2}
MCNodeIds == {legacy1, id1, id2}
MCIdsOf == (k1 :> {legacy1, id1}) @@ (k2 :> {id2})

=============================================================================
