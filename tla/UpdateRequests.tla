--------------------------- MODULE UpdateRequests ---------------------------
(***************************************************************************)
(* What debounced_update_automerge promises its callers, without the       *)
(* debounce map, the flags or the timer: a call for a pull request is owed *)
(* an update attempt that begins after the call, and the service comes to  *)
(* rest on a pull request only by making such an attempt.                  *)
(***************************************************************************)

CONSTANT PRs        \* the pull requests, named by their node ids

VARIABLES
    owed,           \* pull requests called since their latest attempt began
    busy            \* pull requests some task is still going to attempt

vars == <<owed, busy>>

Init ==
    /\ owed = {}
    /\ busy = {}

(* An event asks for an update of p: from now on somebody is busy with p.   *)
Request(p) ==
    /\ owed' = owed \cup {p}
    /\ busy' = busy \cup {p}

(* An attempt on p begins and covers every earlier request for p. Another  *)
(* task may be busy with p already, so p does not always come to rest.     *)
Attempt(p) ==
    /\ p \in busy
    /\ owed' = owed \ {p}
    /\ busy' \in {busy, busy \ {p}}

Next == \E p \in PRs : Request(p) \/ Attempt(p)

Spec == Init /\ [][Next]_vars

=============================================================================
