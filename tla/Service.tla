------------------------------- MODULE Service -------------------------------
(***************************************************************************)
(* The way of a webhook through the service: the endpoint (src/routes.rs,  *)
(* src/webhook/mod.rs), the handlers of its events (pr.rs, check_run.rs,   *)
(* comment.rs) and the state all of them share in AppConfig - the debounce *)
(* map, the id cache and the installation clients.                         *)
(*                                                                         *)
(* A handler runs in a slot. Task <<s, k>> is the part of slot s that deals *)
(* with pull request k: the handler itself for an event about one pull     *)
(* request, one task of the JoinSet for a check run. Modules Debounce and  *)
(* PullRequestIdCache are instanced for what happens inside the functions  *)
(* they model; everything is in memory, so a restart forgets it all.       *)
(***************************************************************************)
EXTENDS FiniteSets

CONSTANTS
    Slots,          \* the events that can be in work at one time
    Identifiers,    \* PullRequestIdentifier: repository id and number
    NodeIds,        \* node ids of pull requests
    IdsOf,          \* [Identifiers -> the ids GitHub gives that pull request]
    Installation,   \* [Identifiers -> the installation its repository is in]
    Kinds,          \* [kind, relevant, prs] of the events that are delivered
    Vacant, Pending, Error, NoTask, None

ASSUME ServiceAssumption ==
    /\ IdsOf \in [Identifiers -> SUBSET NodeIds]
    /\ \A k, l \in Identifiers : k # l => IdsOf[k] \cap IdsOf[l] = {}
    /\ NodeIds \cap {Vacant, Pending, Error, None} = {}
    /\ Vacant # Pending /\ Vacant # Error /\ Pending # Error
    /\ NoTask \notin Slots \X Identifiers

Tasks == Slots \X Identifiers

VARIABLES
    automerge_debounce_map, flag, window, node_id, owed,    \* of Debounce
    cache, fut, lookup, identifier,         \* of PullRequestIdCache
    installation_clients,   \* installations that have a client
    event,          \* [Slots -> the event spawned and not yet begun, or None]
    joined,         \* tasks spawned for a check run and not yet begun
    pr_node_id,     \* [Tasks -> the id it goes on with, Error, or Vacant]
    unserved,       \* history: <<s, k>>, the event of s concerns k and since
                    \* it was accepted neither an attempt on k began nor was
                    \* an error logged for it
    unnamed         \* history: pull requests whose update was asked for by a
                    \* payload without the node id of their repository

debounce_vars == <<automerge_debounce_map, flag, window, node_id, owed>>
cache_vars == <<cache, fut, lookup, identifier>>
handler_vars == <<installation_clients, event, joined, pr_node_id, unserved, unnamed>>
vars == <<debounce_vars, cache_vars, handler_vars>>

D == INSTANCE Debounce WITH PRs <- NodeIds, pc <- window
C == INSTANCE PullRequestIdCache WITH pc <- lookup, result <- pr_node_id

(* What an event is to its handler: its kind, the pull requests it is about *)
(* and whether it asks for an update. For a pull_request event that is the  *)
(* outcome of process_pr_event's tests: an action it acts on, and           *)
(* has_possible_rule. An event about one pull request carries its id.       *)
EventKinds ==
    [kind : {"pull_request"}, relevant : BOOLEAN, prs : {{k} : k \in Identifiers}]
      \cup [kind : {"issue_comment"}, relevant : {FALSE}, prs : {{k} : k \in Identifiers}]
      \cup [kind : {"check_run"}, relevant : {TRUE},
            prs : {ks \in SUBSET Identifiers :
                      \A k, l \in ks : Installation[k] = Installation[l]}]

ASSUME KindsAssumption == Kinds \subseteq EventKinds

Events ==
    UNION {{[kind |-> e.kind, relevant |-> e.relevant, prs |-> e.prs, id |-> id] :
               id \in IF e.kind = "check_run" THEN {None}
                      ELSE UNION {IdsOf[k] : k \in e.prs}} : e \in Kinds}

Idle == [t \in Tasks |-> "idle"]
NoEntry == [p \in NodeIds |-> NoTask]
NothingKnown == [k \in Identifiers |-> Vacant]
NoEvent == [s \in Slots |-> None]
NoId == [t \in Tasks |-> Vacant]

Init ==
    /\ automerge_debounce_map = NoEntry /\ window = Idle /\ owed = {}
    /\ flag = [t \in Tasks |-> FALSE]
    /\ node_id = [t \in Tasks |-> CHOOSE p \in IdsOf[t[2]] : TRUE]
    /\ cache = NothingKnown /\ fut = NothingKnown /\ lookup = Idle
    /\ identifier = [t \in Tasks |-> t[2]]
    /\ installation_clients = {}
    /\ event = NoEvent /\ joined = {} /\ pr_node_id = NoId
    /\ unserved = {} /\ unnamed = {}

TasksOf(s) == {s} \X Identifiers

Working(t) ==
    \/ t \in joined
    \/ lookup[t] # "idle"
    \/ pr_node_id[t] # Vacant
    \/ window[t] # "idle"

(* join_all: the handler of a check run is there until its last task is     *)
(* done. A slot stands for its event until the event is served.             *)
Free(s) ==
    /\ event[s] = None
    /\ \A t \in TasksOf(s) : ~Working(t) /\ t \notin unserved

-----------------------------------------------------------------------------
(* The endpoint answers 403 to an unsigned request, 400 to one that does    *)
(* not parse, else 202 after it has spawned the handler.                    *)
Signatures == {"valid", "missing", "malformed", "mismatch"}
Requests == [signature : Signatures, event : Events \cup {None}]

verify_webhook_payload(request) == request.signature = "valid"

webhook(s) ==
    \E request \in Requests :
        /\ Free(s)
        /\ verify_webhook_payload(request)
        /\ request.event # None
        /\ event' = [event EXCEPT ![s] = request.event]
        /\ unserved' = IF request.event.relevant
                       THEN unserved \cup ({s} \X request.event.prs) ELSE unserved
        /\ UNCHANGED <<debounce_vars, cache_vars, installation_clients, joined, pr_node_id,
                       unnamed>>

(* The handler's first step takes the event up; if it ends the handler, an  *)
(* error is logged unless the event was of no interest.                     *)
Takes(s, kind) ==
    /\ event[s] # None
    /\ event[s].kind = kind
    /\ event' = [event EXCEPT ![s] = None]

Ends(s) ==
    /\ unserved' = unserved \ TasksOf(s)
    /\ UNCHANGED <<installation_clients, joined, pr_node_id, unnamed>>

(* The payload names the pull request.                                      *)
SetsId(s) ==
    /\ \E k \in event[s].prs : cache' = C!Update(k, event[s].id)
    /\ UNCHANGED <<fut, lookup, identifier>>

(* The handler goes on with the id that the payload carries.                *)
GoesOn(s) ==
    /\ pr_node_id' = [t \in Tasks |-> IF t \in {s} \X event[s].prs
                                     THEN event[s].id ELSE pr_node_id[t]]
    /\ UNCHANGED <<installation_clients, joined, unserved>>

(* Mutant: the id is not stored, although the payload names the repository. *)
process_pr_event_uncached(s) ==
    /\ Takes(s, "pull_request")
    /\ UNCHANGED <<debounce_vars, cache_vars>>
    /\ \/ Ends(s)
       \/ event[s].relevant /\ GoesOn(s) /\ UNCHANGED unnamed

(* A pull request event: store the id, then debounce if it is relevant. A   *)
(* payload may lack its id, its user or its installation, which ends the    *)
(* handler; without the repository's node id the id is just not stored.     *)
process_pr_event(s) ==
    /\ Takes(s, "pull_request")
    /\ UNCHANGED debounce_vars
    /\ \/ (SetsId(s) \/ UNCHANGED cache_vars) /\ Ends(s)
       \/ event[s].relevant /\ GoesOn(s) /\ SetsId(s) /\ UNCHANGED unnamed
       \/ /\ event[s].relevant /\ GoesOn(s) /\ UNCHANGED cache_vars
          /\ unnamed' = unnamed \cup event[s].prs

(* A comment: store the id if it is on a pull request. Commands are the     *)
(* subject of module CheckCommand.                                          *)
process_comment_event(s) ==
    /\ Takes(s, "issue_comment")
    /\ SetsId(s) \/ UNCHANGED cache_vars
    /\ Ends(s)
    /\ UNCHANGED debounce_vars

(* get_installation_client: a new client can fail to be made, one that is   *)
(* in the map is found.                                                     *)
get_installation_client(i) == installation_clients' = installation_clients \cup {i}
NoClient(i) == i \notin installation_clients /\ UNCHANGED installation_clients

(* A check run: get the client, then spawn a task for each pull request. A  *)
(* payload that lacks something, or no client, ends it.                     *)
process_check_run_event(s) ==
    /\ Takes(s, "check_run")
    /\ UNCHANGED <<debounce_vars, cache_vars>>
    /\ \/ Ends(s)
       \/ /\ installation_clients' =
                 installation_clients \cup {Installation[k] : k \in event[s].prs}
          /\ joined' = joined \cup ({s} \X event[s].prs)
          /\ UNCHANGED <<pr_node_id, unserved, unnamed>>

-----------------------------------------------------------------------------
(* A task of the JoinSet: get the id, then debounce.                        *)
Looks(t) ==
    /\ \/ /\ t \in joined
          /\ joined' = joined \ {t}
          /\ C!GetStored(t, t[2]) \/ C!GetPending(t, t[2]) \/ C!GetVacant(t, t[2])
       \/ UNCHANGED joined /\ (C!LeaderReturns(t) \/ C!WaiterReturns(t))
    /\ UNCHANGED <<debounce_vars, installation_clients, event, unserved, unnamed>>

(* Mutant: one failed lookup ends the handler and the tasks it joins.       *)
LookupFailsAll(t) ==
    /\ pr_node_id[t] = Error
    /\ pr_node_id' = [u \in Tasks |-> IF u[1] = t[1] THEN Vacant ELSE pr_node_id[u]]
    /\ joined' = joined \ TasksOf(t[1])
    /\ unserved' = unserved \ {t}
    /\ UNCHANGED <<debounce_vars, cache_vars, installation_clients, event, unnamed>>

(* The error of a failed lookup is logged; it ends this task alone.         *)
LookupFails(t) ==
    /\ pr_node_id[t] = Error
    /\ pr_node_id' = [pr_node_id EXCEPT ![t] = Vacant]
    /\ unserved' = unserved \ {t}
    /\ UNCHANGED <<debounce_vars, cache_vars, installation_clients, event, joined, unnamed>>

(* GitHub answers the query for an id.                                      *)
GitHubNames(k) == C!Fetch(k) /\ UNCHANGED <<debounce_vars, handler_vars>>

-----------------------------------------------------------------------------
(* debounced_update_automerge, called by whichever handler.                 *)
Debounces(t) ==
    /\ pr_node_id[t] \in NodeIds
    /\ D!Register(t, pr_node_id[t]) \/ D!Coalesce(pr_node_id[t])
    /\ pr_node_id' = [pr_node_id EXCEPT ![t] = Vacant]
    /\ UNCHANGED <<cache_vars, installation_clients, event, joined, unserved, unnamed>>

Sleeps(t) ==
    /\ D!Wake(t) \/ D!Remove(t)
    /\ UNCHANGED <<cache_vars, handler_vars>>

(* An attempt serves what was accepted for its pull request before it.      *)
Attempts(t) ==
    /\ D!Attempt(t)
    /\ \E k \in Identifiers :
          /\ node_id[t] \in IdsOf[k]
          /\ unserved' = unserved \ (Slots \X {k})
          /\ IF window'[t] = "querying"
             THEN get_installation_client(Installation[k])
             ELSE NoClient(Installation[k])
    /\ UNCHANGED <<cache_vars, event, joined, pr_node_id, unnamed>>

(* The query and update_automerge, until the last of their calls returns:   *)
(* one phase here, since nothing shared is touched (modules Debounce and    *)
(* Automerge tell them apart).                                              *)
Updates(t) ==
    /\ window[t] = "querying"
    /\ window' = [window EXCEPT ![t] = "idle"]
    /\ UNCHANGED <<automerge_debounce_map, flag, node_id, owed, cache_vars, handler_vars>>

(* The process ends, by a signal or otherwise, and is started again. GitHub *)
(* has its 202 and does not send the event again.                           *)
Restart ==
    /\ automerge_debounce_map' = NoEntry /\ window' = Idle /\ owed' = {}
    /\ cache' = NothingKnown /\ fut' = NothingKnown /\ lookup' = Idle
    /\ installation_clients' = {}
    /\ event' = NoEvent /\ joined' = {} /\ pr_node_id' = NoId
    /\ unserved' = {} /\ unnamed' = {}
    /\ UNCHANGED <<flag, node_id, identifier>>

Handles(s) == process_pr_event(s) \/ process_comment_event(s) \/ process_check_run_event(s)

(* What task t does next; it does one thing after the other.                *)
Proceeds(t) ==
    \/ Looks(t) \/ LookupFails(t)
    \/ Debounces(t) \/ Sleeps(t) \/ Attempts(t) \/ Updates(t)

Next ==
    \/ \E s \in Slots : webhook(s) \/ Handles(s)
    \/ \E t \in Tasks : Proceeds(t)
    \/ \E k \in Identifiers : GitHubNames(k)
    \/ Restart

Spec == Init /\ [][Next]_vars

(* Tokio runs what can run and GitHub answers queries and mutations, with   *)
(* an answer or an error. Nobody has to send events or to restart.          *)
Fairness ==
    /\ \A s \in Slots : WF_vars(Handles(s))
    /\ \A t \in Tasks : WF_vars(Proceeds(t))
    /\ \A k \in Identifiers : WF_vars(GitHubNames(k))

FairSpec == Spec /\ Fairness

-----------------------------------------------------------------------------
(* An event that was answered with 202 and is about a pull request is not   *)
(* lost on its way through handler, JoinSet, lookup and debounce: as long   *)
(* as neither an attempt nor a logged error has dealt with it, some task is *)
(* on its way to do so - its own, or the one whose window it was merged     *)
(* into.                                                                    *)
NoEventLost ==
    \A t \in unserved :
        \/ event[t[1]] # None
        \/ t \in joined \/ lookup[t] # "idle" \/ pr_node_id[t] # Vacant
        \/ \E u \in Tasks, p \in IdsOf[t[2]] : D!WillAttempt(u, p)

(* While a pull request is in the debounce map its id can be looked up      *)
(* without failing: whoever opened the window has stored the id, or was     *)
(* given it by a query whose leader is about to - unless a payload did not  *)
(* say which repository the id belongs to.                                  *)
DebouncedIsKnown ==
    \A k \in Identifiers \ unnamed, p \in NodeIds :
        p \in IdsOf[k] /\ automerge_debounce_map[p] # NoTask =>
            \/ cache[k] \in IdsOf[k]
            \/ cache[k] = Pending /\ fut[k] \in IdsOf[k]

(* No more events come.                                                     *)
Quiet == [][\A s \in Slots : event'[s] \in {event[s], None}]_event

(* Every accepted event is served once no more of them come: an attempt     *)
(* that begins after it, or an error in the log, or a restart.              *)
EventsServed ==
    <>Quiet => \A t \in Tasks : t \in unserved ~> t \notin unserved

(* Once no more events come, all handlers end, join_all included.           *)
HandlersEnd ==
    <>Quiet => <>[](\A s \in Slots : Free(s))

=============================================================================
