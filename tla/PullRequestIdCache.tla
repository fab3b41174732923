------------------------- MODULE PullRequestIdCache -------------------------
(***************************************************************************)
(* PullRequestIdCache (src/utils/pull_request.rs): the map from repository *)
(* and pull request number to node id, filled by webhook payloads (set)    *)
(* and, for check_run events that carry only numbers, by one shared query  *)
(* per identifier (get, fetch).                                            *)
(*                                                                         *)
(* The map is locked for single accesses only, so webhooks, callers and    *)
(* the answer of a query interleave freely between them.                   *)
(***************************************************************************)
CONSTANTS
    Tasks,          \* check_run tasks that call get
    Identifiers,    \* PullRequestIdentifier: repository id and number
    NodeIds,        \* node ids of pull requests
    IdsOf,          \* [Identifiers -> the ids GitHub gives that pull request]
    Vacant,         \* no entry in the map, no query made, no result yet
    Pending,        \* entry Pending(fut); a query without an answer yet
    Error           \* entry Error(..); a failed query; an Err result

ASSUME CacheAssumption ==
    /\ IdsOf \in [Identifiers -> SUBSET NodeIds]
    /\ NodeIds \cap {Vacant, Pending, Error} = {}
    /\ Vacant # Pending /\ Vacant # Error /\ Pending # Error

VARIABLES
    cache,          \* [Identifiers -> map entry]
    fut,            \* [Identifiers -> the Shared future of its query]
    pc,             \* [Tasks -> where the task is in get]
    identifier,     \* [Tasks -> the argument of its current call]
    result          \* [Tasks -> what its latest call returned]

vars == <<cache, fut, pc, identifier, result>>

Entries == NodeIds \cup {Vacant, Pending, Error}

TypeOK ==
    /\ cache \in [Identifiers -> Entries]
    /\ fut \in [Identifiers -> Entries]
    /\ pc \in [Tasks -> {"idle", "leading", "waiting"}]
    /\ identifier \in [Tasks -> Identifiers]
    /\ result \in [Tasks -> NodeIds \cup {Vacant, Error}]

Init ==
    /\ cache = [k \in Identifiers |-> Vacant]
    /\ fut = [k \in Identifiers |-> Vacant]
    /\ pc = [t \in Tasks |-> "idle"]
    /\ identifier \in [Tasks -> Identifiers]
    /\ result = [t \in Tasks |-> Vacant]

Answered(k) == fut[k] \in NodeIds \cup {Error}

-----------------------------------------------------------------------------
(* Mutant: the newest result wins, whatever the entry holds.                *)
OverwriteAlways(k, entry) == [cache EXCEPT ![k] = entry]

(* update: an id that is in the map stays; anything else is replaced.       *)
Update(k, entry) ==
    IF cache[k] \in NodeIds THEN cache ELSE [cache EXCEPT ![k] = entry]

(* set, from the payload of a pull_request or issue_comment event.          *)
Set(k, id) ==
    /\ id \in IdsOf[k]
    /\ cache' = Update(k, id)
    /\ UNCHANGED <<fut, pc, identifier, result>>

(* get finds an id or a stored error and returns it.                        *)
GetStored(t, k) ==
    /\ pc[t] = "idle"
    /\ cache[k] \in NodeIds \cup {Error}
    /\ identifier' = [identifier EXCEPT ![t] = k]
    /\ result' = [result EXCEPT ![t] = cache[k]]
    /\ UNCHANGED <<cache, fut, pc>>

(* get finds another caller's query and awaits a clone of its future.       *)
GetPending(t, k) ==
    /\ pc[t] = "idle"
    /\ cache[k] = Pending
    /\ identifier' = [identifier EXCEPT ![t] = k]
    /\ pc' = [pc EXCEPT ![t] = "waiting"]
    /\ UNCHANGED <<cache, fut, result>>

(* Mutant: a stored error is fetched again.                                 *)
GetRetrying(t, k) ==
    /\ pc[t] = "idle"
    /\ cache[k] \in {Vacant, Error}
    /\ cache' = [cache EXCEPT ![k] = Pending]
    /\ fut' = [fut EXCEPT ![k] = Pending]
    /\ identifier' = [identifier EXCEPT ![t] = k]
    /\ pc' = [pc EXCEPT ![t] = "leading"]
    /\ UNCHANGED result

(* get finds nothing: it stores the future of a new query before it unlocks *)
(* the map, and leads that query.                                           *)
GetVacant(t, k) ==
    /\ pc[t] = "idle"
    /\ cache[k] = Vacant
    /\ cache' = [cache EXCEPT ![k] = Pending]
    /\ fut' = [fut EXCEPT ![k] = Pending]
    /\ identifier' = [identifier EXCEPT ![t] = k]
    /\ pc' = [pc EXCEPT ![t] = "leading"]
    /\ UNCHANGED result

(* fetch ends: GitHub names the pull request, or the query, the repository  *)
(* or the pull request is an error.                                         *)
Fetch(k) ==
    /\ fut[k] = Pending
    /\ \E answer \in IdsOf[k] \cup {Error} : fut' = [fut EXCEPT ![k] = answer]
    /\ UNCHANGED <<cache, pc, identifier, result>>

(* Mutant: only a successful answer is stored.                              *)
LeaderStoresIdsOnly(t) ==
    LET k == identifier[t] IN
    /\ pc[t] = "leading"
    /\ Answered(k)
    /\ cache' = IF fut[k] = Error THEN cache ELSE Update(k, fut[k])
    /\ result' = [result EXCEPT ![t] = fut[k]]
    /\ pc' = [pc EXCEPT ![t] = "idle"]
    /\ UNCHANGED <<fut, identifier>>

(* The leader resumes: it stores the answer and returns it.                 *)
LeaderReturns(t) ==
    LET k == identifier[t] IN
    /\ pc[t] = "leading"
    /\ Answered(k)
    /\ cache' = Update(k, fut[k])
    /\ result' = [result EXCEPT ![t] = fut[k]]
    /\ pc' = [pc EXCEPT ![t] = "idle"]
    /\ UNCHANGED <<fut, identifier>>

(* Mutant: a waiter takes the entry instead of the future's answer.         *)
WaiterReadsMap(t) ==
    /\ pc[t] = "waiting"
    /\ Answered(identifier[t])
    /\ result' = [result EXCEPT ![t] = cache[identifier[t]]]
    /\ pc' = [pc EXCEPT ![t] = "idle"]
    /\ UNCHANGED <<cache, fut, identifier>>

(* Mutant: waiters are woken by an id only.                                 *)
WaiterNeedsId(t) ==
    /\ pc[t] = "waiting"
    /\ fut[identifier[t]] \in NodeIds
    /\ result' = [result EXCEPT ![t] = fut[identifier[t]]]
    /\ pc' = [pc EXCEPT ![t] = "idle"]
    /\ UNCHANGED <<cache, fut, identifier>>

(* A waiter resumes with the answer of the shared future.                   *)
WaiterReturns(t) ==
    /\ pc[t] = "waiting"
    /\ Answered(identifier[t])
    /\ result' = [result EXCEPT ![t] = fut[identifier[t]]]
    /\ pc' = [pc EXCEPT ![t] = "idle"]
    /\ UNCHANGED <<cache, fut, identifier>>

Next ==
    \/ \E k \in Identifiers :
          \/ \E id \in NodeIds : Set(k, id)
          \/ \E t \in Tasks : GetStored(t, k) \/ GetPending(t, k) \/ GetVacant(t, k)
          \/ Fetch(k)
    \/ \E t \in Tasks : LeaderReturns(t) \/ WaiterReturns(t)

Spec == Init /\ [][Next]_vars

-----------------------------------------------------------------------------
(* An entry is pending only while a caller of get is going to replace it:   *)
(* exactly one caller leads the query, so no waiter waits on an orphan and  *)
(* no answer is stored twice.                                               *)
PendingHasLeader ==
    /\ \A k \in Identifiers :
          cache[k] = Pending => \E t \in Tasks : pc[t] = "leading" /\ identifier[t] = k
    /\ \A t, u \in Tasks :
          /\ pc[t] = "leading" /\ pc[u] = "leading"
          /\ identifier[t] = identifier[u]
          => t = u

(* Once get has given somebody an id for a pull request, no call that       *)
(* starts later can fail for it: the id is in the map, or what the map      *)
(* makes the call wait for is a query already answered with an id.          *)
AnswerIsKept ==
    \A t \in Tasks :
        LET k == identifier[t] IN
        pc[t] = "idle" /\ result[t] \in NodeIds =>
            \/ cache[k] \in IdsOf[k]
            \/ cache[k] = Pending /\ fut[k] \in IdsOf[k]

(* However many check runs report on a pull request at once, and whatever   *)
(* became of the query, GitHub is asked for its id at most once.            *)
AskedOnce ==
    [][\A k \in Identifiers :
          fut'[k] # fut[k] =>
              \/ fut[k] = Vacant /\ fut'[k] = Pending /\ cache[k] = Vacant
              \/ fut[k] = Pending /\ fut'[k] \in IdsOf[k] \cup {Error}]_vars

(* A failed query is remembered: the error leaves the map only when a       *)
(* webhook payload names the pull request, never because of a later call.   *)
ErrorHealedByWebhook ==
    [][\A k \in Identifiers :
          cache[k] = Error /\ cache'[k] # Error =>
              /\ cache'[k] \in IdsOf[k]
              /\ UNCHANGED <<fut, pc, result>>]_vars

(* The cache implements IdDirectory: what it knows is what its map holds.   *)
Directory ==
    INSTANCE IdDirectory
        WITH known <- [k \in Identifiers |->
                          IF cache[k] \in NodeIds THEN cache[k] ELSE Vacant],
             Unknown <- Vacant

ImplementsIdDirectory == Directory!Spec

=============================================================================
