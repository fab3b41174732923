--------------------------- MODULE MCDebounceTimed ---------------------------
(* DebounceTimed for TLC: tasks and pull requests are interchangeable.      *)
EXTENDS DebounceTimed, TLC

Symmetry == Permutations(Tasks) \cup Permutations(PRs)

=============================================================================
