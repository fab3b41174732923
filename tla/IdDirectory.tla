----------------------------- MODULE IdDirectory -----------------------------
(***************************************************************************)
(* What PullRequestIdCache promises: a write-once directory of node ids.   *)
(* The id of a pull request is learned once, it is one that GitHub gave    *)
(* that pull request, and it is never forgotten, replaced or turned into   *)
(* an error.                                                               *)
(***************************************************************************)

CONSTANTS
    Identifiers,    \* repository id + pull request number
    NodeIds,
    IdsOf,          \* the node ids GitHub uses for each identifier
    Unknown

VARIABLE known      \* [Identifiers -> the id in use, or Unknown]

Init == known = [k \in Identifiers |-> Unknown]

Learn(k, id) ==
    /\ known[k] = Unknown
    /\ id \in IdsOf[k]
    /\ known' = [known EXCEPT ![k] = id]

Next == \E k \in Identifiers, id \in NodeIds : Learn(k, id)

Spec == Init /\ [][Next]_known

=============================================================================
