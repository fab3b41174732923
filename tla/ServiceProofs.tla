---------------------------- MODULE ServiceProofs ----------------------------
(***************************************************************************)
(* Proofs about Service for every number of events in work, every set of   *)
(* pull requests and node ids and whatever kinds of event come: an         *)
(* accepted event is not lost between the handlers, the id cache and the   *)
(* debounce map, and a pull request in the debounce map can be looked up   *)
(* unless a payload did not say which repository its id belongs to.        *)
(***************************************************************************)
EXTENDS Service, TLAPS

LEMMA TaskParts ==
    /\ \A t \in Tasks : t[1] \in Slots /\ t[2] \in Identifiers
    /\ \A s \in Slots, k \in Identifiers : <<s, k>> \in Tasks
  BY DEF Tasks

(* An event is about known pull requests; if it is not a check run, about   *)
(* one, whose id it carries.                                                *)
LEMMA EventShape ==
    ASSUME NEW e \in Events
    PROVE  /\ e.prs \subseteq Identifiers
           /\ e.kind # "check_run" =>
                 \E k \in Identifiers : e.prs = {k} /\ e.id \in IdsOf[k]
<1>1. PICK x \in Kinds : \E id \in IF x.kind = "check_run" THEN {None}
                                   ELSE UNION {IdsOf[k] : k \in x.prs} :
          e = [kind |-> x.kind, relevant |-> x.relevant, prs |-> x.prs, id |-> id]
  BY DEF Events
<1>2. PICK id \in IF x.kind = "check_run" THEN {None} ELSE UNION {IdsOf[k] : k \in x.prs} :
          e = [kind |-> x.kind, relevant |-> x.relevant, prs |-> x.prs, id |-> id]
  BY <1>1
<1>3. e.kind = x.kind /\ e.prs = x.prs /\ e.id = id
  BY <1>2
<1>4. /\ x.prs \subseteq Identifiers
      /\ x.kind # "check_run" => \E k \in Identifiers : x.prs = {k}
  BY KindsAssumption DEF EventKinds
<1>5. ASSUME x.kind # "check_run"
      PROVE  \E k \in Identifiers : e.prs = {k} /\ e.id \in IdsOf[k]
  <2>1. PICK k \in Identifiers : x.prs = {k}
    BY <1>4, <1>5
  <2>2. id \in IdsOf[k]
    BY <1>2, <1>5, <2>1
  <2> QED
    BY <1>3, <2>1, <2>2
<1> QED
  BY <1>3, <1>4, <1>5

-----------------------------------------------------------------------------
(* What a step of the service is to the debounce: one of its actions, on    *)
(* the id a handler has come to, or a restart.                              *)
LEMMA DebounceSteps ==
    ASSUME [Next]_vars
    PROVE  \/ \E t \in Tasks : /\ pr_node_id[t] \in NodeIds
                               /\ D!Register(t, pr_node_id[t])
                               /\ UNCHANGED cache_vars
           \/ \E t \in Tasks : /\ pr_node_id[t] \in NodeIds
                               /\ D!Coalesce(pr_node_id[t])
                               /\ UNCHANGED cache_vars
           \/ \E t \in Tasks : D!Wake(t) /\ UNCHANGED cache_vars
           \/ \E t \in Tasks : D!Remove(t) /\ UNCHANGED cache_vars
           \/ \E t \in Tasks : D!Attempt(t) /\ UNCHANGED cache_vars
           \/ \E t \in Tasks : Updates(t) /\ UNCHANGED cache_vars
           \/ Restart
           \/ UNCHANGED debounce_vars
  BY DEF Next, webhook, Handles, process_pr_event, process_comment_event,
         process_check_run_event, Proceeds, Looks, LookupFails, Debounces, Sleeps, Attempts,
         Updates, GitHubNames, vars

(* What it is to the id cache.                                              *)
LEMMA SetIsOwn ==
    ASSUME NEW s \in Slots, event \in [Slots -> Events \cup {None}], event[s] # None,
           event[s].kind # "check_run", SetsId(s)
    PROVE  \E k \in Identifiers :
              /\ event[s].prs = {k} /\ event[s].id \in IdsOf[k]
              /\ cache' = C!Update(k, event[s].id)
              /\ UNCHANGED <<fut, lookup, identifier>>
<1>1. PICK k \in Identifiers : event[s].prs = {k} /\ event[s].id \in IdsOf[k]
  BY EventShape
<1> QED
  BY <1>1 DEF SetsId

LEMMA CacheSteps ==
    ASSUME event \in [Slots -> Events \cup {None}], [Next]_vars
    PROVE  \/ \E k \in Identifiers : \E id \in IdsOf[k] :
                 cache' = C!Update(k, id) /\ UNCHANGED <<fut, lookup, identifier>>
           \/ \E t \in Tasks : C!GetStored(t, t[2])
           \/ \E t \in Tasks : C!GetPending(t, t[2])
           \/ \E t \in Tasks : C!GetVacant(t, t[2])
           \/ \E t \in Tasks : C!LeaderReturns(t)
           \/ \E t \in Tasks : C!WaiterReturns(t)
           \/ \E k \in Identifiers : C!Fetch(k)
           \/ Restart
           \/ UNCHANGED cache_vars
<1>1. ASSUME NEW s \in Slots, Handles(s), ~UNCHANGED cache_vars
      PROVE  \E k \in Identifiers : \E id \in IdsOf[k] :
                 cache' = C!Update(k, id) /\ UNCHANGED <<fut, lookup, identifier>>
  <2>1. event[s] # None /\ event[s].kind # "check_run" /\ SetsId(s)
    BY <1>1 DEF Handles, process_pr_event, process_comment_event, process_check_run_event, Takes
  <2> QED
    BY <2>1, SetIsOwn
<1>2. ASSUME NEW t \in Tasks, Proceeds(t)
      PROVE  \/ C!GetStored(t, t[2]) \/ C!GetPending(t, t[2]) \/ C!GetVacant(t, t[2])
             \/ C!LeaderReturns(t) \/ C!WaiterReturns(t)
             \/ UNCHANGED cache_vars
  BY <1>2 DEF Proceeds, Looks, LookupFails, Debounces, Sleeps, Attempts, Updates
<1> QED
  BY <1>1, <1>2 DEF Next, webhook, GitHubNames, vars

(* A handler that goes on with its payload's id has stored it, unless the   *)
(* payload did not name the repository.                                     *)
Continues(s) ==
    /\ event[s] # None /\ event[s].kind # "check_run"
    /\ pr_node_id' = [t \in Tasks |-> IF t \in {s} \X event[s].prs
                                     THEN event[s].id ELSE pr_node_id[t]]
    /\ UNCHANGED <<fut, lookup, identifier>>
    /\ \/ SetsId(s)
       \/ UNCHANGED cache /\ event[s].prs \subseteq unnamed'

(* What it is to the ids the handlers have come to.                         *)
LEMMA AnswerSteps ==
    ASSUME [Next]_vars
    PROVE  \/ \E s \in Slots : Continues(s)
           \/ \E t \in Tasks : C!GetStored(t, t[2])
           \/ \E t \in Tasks : C!LeaderReturns(t)
           \/ \E t \in Tasks : C!WaiterReturns(t)
           \/ \E t \in Tasks : pr_node_id' = [pr_node_id EXCEPT ![t] = Vacant]
           \/ Restart
           \/ UNCHANGED pr_node_id
<1>1. ASSUME NEW s \in Slots, process_pr_event(s)
      PROVE  Continues(s) \/ UNCHANGED pr_node_id
  BY <1>1 DEF process_pr_event, Takes, Ends, GoesOn, SetsId, Continues, cache_vars
<1> QED
  BY <1>1
  DEF Next, webhook, Handles, process_comment_event, process_check_run_event, Ends, Proceeds,
      Looks, LookupFails, Debounces, Sleeps, Attempts, Updates, GitHubNames, C!GetPending,
      C!GetVacant, C!Fetch, handler_vars, vars

(* Only a restart forgets which payloads came without the repository.       *)
LEMMA UnnamedGrows ==
    ASSUME [Next]_vars, ~Restart
    PROVE  unnamed \subseteq unnamed'
  BY DEF Next, webhook, Handles, process_pr_event, process_comment_event,
         process_check_run_event, Ends, Proceeds, Looks, LookupFails, Debounces, Sleeps,
         Attempts, Updates, GitHubNames, handler_vars, vars

-----------------------------------------------------------------------------
(* The inductive invariant, part by part. The types:                        *)
DebounceTypes ==
    /\ automerge_debounce_map \in [NodeIds -> Tasks \cup {NoTask}]
    /\ flag \in [Tasks -> BOOLEAN]
    /\ window \in [Tasks -> {"idle", "sleeping", "leaving", "removed", "querying"}]
    /\ node_id \in [Tasks -> {node_id[t] : t \in Tasks}]

CacheTypes ==
    /\ cache \in [Identifiers -> C!Entries]
    /\ fut \in [Identifiers -> C!Entries]
    /\ lookup \in [Tasks -> {"idle", "leading", "waiting"}]
    /\ identifier = [t \in Tasks |-> t[2]]

HandlerTypes ==
    /\ event \in [Slots -> Events \cup {None}]
    /\ pr_node_id \in [Tasks -> NodeIds \cup {Vacant, Error}]
    /\ joined \subseteq Tasks
    /\ unserved \subseteq Tasks

(* An entry of the map matches the query behind it (as in                   *)
(* PullRequestIdCacheProofs), and ids are those of the pull request.        *)
EntryMatchesQuery ==
    \A k \in Identifiers :
        /\ cache[k] \in IdsOf[k] \cup {Vacant, Pending, Error}
        /\ fut[k] \in IdsOf[k] \cup {Vacant, Pending, Error}
        /\ cache[k] = Vacant => fut[k] = Vacant
        /\ cache[k] = Pending => fut[k] # Vacant
        /\ cache[k] = Error => fut[k] = Error

(* The id of the pull request can be looked up without failing.             *)
Known(k) ==
    \/ cache[k] \in IdsOf[k]
    \/ cache[k] = Pending /\ fut[k] \in IdsOf[k]

(* A handler that has come to an id has come to one of its own pull         *)
(* request, which the cache knows by then or a payload left out.            *)
AnswersKnown ==
    \A t \in Tasks :
        pr_node_id[t] \in NodeIds =>
            pr_node_id[t] \in IdsOf[t[2]] /\ (t[2] \in unnamed \/ Known(t[2]))

(* An event waiting to be handled is unserved for its own pull requests     *)
(* only: a slot takes no event before the last one is served.               *)
UnservedConcern ==
    \A t \in unserved : event[t[1]] # None => t[2] \in event[t[1]].prs

IInv ==
    /\ DebounceTypes /\ CacheTypes /\ HandlerTypes
    /\ D!EntryOwner
    /\ EntryMatchesQuery /\ AnswersKnown /\ UnservedConcern
    /\ DebouncedIsKnown /\ NoEventLost

LEMMA InitIInv == Init => IInv
<1> SUFFICES ASSUME Init PROVE IInv
  OBVIOUS
<1> USE ServiceAssumption, TaskParts DEF Init, Idle, NoEntry, NothingKnown, NoEvent, NoId
<1>1. DebounceTypes /\ CacheTypes
  BY DEF DebounceTypes, CacheTypes, C!Entries
<1>2. HandlerTypes
  BY DEF HandlerTypes
<1>3. D!EntryOwner
  BY DEF D!EntryOwner, D!InWindow, Tasks
<1>4. EntryMatchesQuery /\ AnswersKnown /\ UnservedConcern /\ DebouncedIsKnown /\ NoEventLost
  BY DEF EntryMatchesQuery, AnswersKnown, UnservedConcern, DebouncedIsKnown, NoEventLost
<1> QED
  BY <1>1, <1>2, <1>3, <1>4 DEF IInv

LEMMA NextDebounceTypes ==
    ASSUME DebounceTypes, [Next]_vars
    PROVE  DebounceTypes'
<1> USE DEF DebounceTypes
<1>1. ASSUME NEW t \in Tasks, NEW p \in NodeIds, D!Register(t, p) PROVE DebounceTypes'
  BY <1>1 DEF D!Register
<1>2. ASSUME NEW p \in NodeIds, D!Coalesce(p) PROVE DebounceTypes'
  BY <1>2 DEF D!Coalesce
<1>3. ASSUME NEW t \in Tasks, D!Wake(t) PROVE DebounceTypes'
  BY <1>3 DEF D!Wake
<1>4. ASSUME NEW t \in Tasks, D!Remove(t) PROVE DebounceTypes'
  BY <1>4 DEF D!Remove
<1>5. ASSUME NEW t \in Tasks, D!Attempt(t) PROVE DebounceTypes'
  BY <1>5 DEF D!Attempt
<1>6. ASSUME NEW t \in Tasks, Updates(t) PROVE DebounceTypes'
  BY <1>6 DEF Updates
<1>7. CASE Restart
  BY <1>7 DEF Restart, NoEntry, Idle
<1>8. CASE UNCHANGED debounce_vars
  BY <1>8 DEF debounce_vars
<1> QED
  BY <1>1, <1>2, <1>3, <1>4, <1>5, <1>6, <1>7, <1>8, DebounceSteps

LEMMA NextCacheTypes ==
    ASSUME CacheTypes, HandlerTypes, [Next]_vars
    PROVE  CacheTypes'
<1> USE ServiceAssumption, TaskParts DEF CacheTypes, C!Entries
<1>1. ASSUME NEW k \in Identifiers, NEW id \in IdsOf[k], cache' = C!Update(k, id),
             UNCHANGED <<fut, lookup, identifier>>
      PROVE  CacheTypes'
  BY <1>1 DEF C!Update
<1>2. ASSUME NEW t \in Tasks, C!GetStored(t, t[2]) PROVE CacheTypes'
  BY <1>2 DEF C!GetStored
<1>3. ASSUME NEW t \in Tasks, C!GetPending(t, t[2]) PROVE CacheTypes'
  BY <1>3 DEF C!GetPending
<1>4. ASSUME NEW t \in Tasks, C!GetVacant(t, t[2]) PROVE CacheTypes'
  BY <1>4 DEF C!GetVacant
<1>5. ASSUME NEW t \in Tasks, C!LeaderReturns(t) PROVE CacheTypes'
  BY <1>5 DEF C!LeaderReturns, C!Answered, C!Update
<1>6. ASSUME NEW t \in Tasks, C!WaiterReturns(t) PROVE CacheTypes'
  BY <1>6 DEF C!WaiterReturns
<1>7. ASSUME NEW k \in Identifiers, C!Fetch(k) PROVE CacheTypes'
  BY <1>7 DEF C!Fetch
<1>8. CASE Restart
  BY <1>8 DEF Restart, NothingKnown, Idle
<1>9. CASE UNCHANGED cache_vars
  BY <1>9 DEF cache_vars
<1> QED
  BY <1>1, <1>2, <1>3, <1>4, <1>5, <1>6, <1>7, <1>8, <1>9, CacheSteps DEF HandlerTypes

LEMMA NextHandlerTypes ==
    ASSUME CacheTypes, HandlerTypes, [Next]_vars
    PROVE  HandlerTypes'
<1> USE TaskParts
<1>1. event' \in [Slots -> Events \cup {None}]
  <2>1. ASSUME NEW s \in Slots, webhook(s) PROVE event' \in [Slots -> Events \cup {None}]
    BY <2>1 DEF webhook, Requests, HandlerTypes
  <2>2. ASSUME NEW s \in Slots, event' = [event EXCEPT ![s] = None]
        PROVE  event' \in [Slots -> Events \cup {None}]
    BY <2>2 DEF HandlerTypes
  <2>3. CASE Restart
    BY <2>3 DEF Restart, NoEvent
  <2>4. CASE UNCHANGED event
    BY <2>4 DEF HandlerTypes
  <2> QED
    BY <2>1, <2>2, <2>3, <2>4
    DEF Next, Handles, process_pr_event, process_comment_event, process_check_run_event,
        Takes, Proceeds, Looks, LookupFails, Debounces, Sleeps, Attempts, Updates,
        GitHubNames, handler_vars, vars
<1>2. pr_node_id' \in [Tasks -> NodeIds \cup {Vacant, Error}]
  <2> USE ServiceAssumption DEF HandlerTypes
  <2>1. ASSUME NEW s \in Slots, Continues(s)
        PROVE  pr_node_id' \in [Tasks -> NodeIds \cup {Vacant, Error}]
    <3>1. event[s].id \in NodeIds
      BY <2>1, EventShape DEF Continues
    <3> QED
      BY <2>1, <3>1 DEF Continues
  <2>2. ASSUME NEW t \in Tasks, C!GetStored(t, t[2])
        PROVE  pr_node_id' \in [Tasks -> NodeIds \cup {Vacant, Error}]
    BY <2>2 DEF C!GetStored
  <2>3. ASSUME NEW t \in Tasks, C!LeaderReturns(t)
        PROVE  pr_node_id' \in [Tasks -> NodeIds \cup {Vacant, Error}]
    BY <2>3 DEF C!LeaderReturns, C!Answered
  <2>4. ASSUME NEW t \in Tasks, C!WaiterReturns(t)
        PROVE  pr_node_id' \in [Tasks -> NodeIds \cup {Vacant, Error}]
    BY <2>4 DEF C!WaiterReturns, C!Answered
  <2>5. CASE Restart
    BY <2>5 DEF Restart, NoId
  <2> QED
    BY <2>1, <2>2, <2>3, <2>4, <2>5, AnswerSteps
<1>3. joined' \subseteq Tasks
  <2>1. ASSUME NEW s \in Slots, process_check_run_event(s) PROVE joined' \subseteq Tasks
    <3>1. event[s].prs \subseteq Identifiers
      BY <2>1, EventShape DEF process_check_run_event, Takes, HandlerTypes
    <3> QED
      BY <2>1, <3>1 DEF process_check_run_event, Ends, HandlerTypes
  <2> QED
    BY <2>1
    DEF HandlerTypes, Next, webhook, Handles, process_pr_event, process_comment_event, Ends,
        GoesOn, Proceeds, Looks, LookupFails, Debounces, Sleeps, Attempts, Updates, GitHubNames,
        Restart, handler_vars, vars
<1>4. unserved' \subseteq Tasks
  <2>1. ASSUME NEW s \in Slots, webhook(s) PROVE unserved' \subseteq Tasks
    <3>1. PICK e \in Events : unserved' \subseteq unserved \cup ({s} \X e.prs)
      BY <2>1 DEF webhook, Requests
    <3>2. {s} \X e.prs \subseteq Tasks
      BY EventShape
    <3> QED
      BY <3>1, <3>2 DEF HandlerTypes
  <2> QED
    BY <2>1
    DEF HandlerTypes, Next, Handles, process_pr_event, process_comment_event,
        process_check_run_event, Ends, GoesOn, Proceeds, Looks, LookupFails, Debounces, Sleeps,
        Attempts, Updates, GitHubNames, Restart, handler_vars, vars
<1> QED
  BY <1>1, <1>2, <1>3, <1>4 DEF HandlerTypes

LEMMA NextEntryOwner ==
    ASSUME DebounceTypes, D!EntryOwner, [Next]_vars
    PROVE  D!EntryOwner'
<1> USE ServiceAssumption DEF DebounceTypes, D!EntryOwner, D!InWindow
<1>a. NoTask \notin Tasks
  BY DEF Tasks
<1>1. ASSUME NEW t \in Tasks, NEW p \in NodeIds, D!Register(t, p) PROVE D!EntryOwner'
  BY <1>a, <1>1 DEF D!Register
<1>2. ASSUME NEW p \in NodeIds, D!Coalesce(p) PROVE D!EntryOwner'
  BY <1>2 DEF D!Coalesce
<1>3. ASSUME NEW t \in Tasks, D!Wake(t) PROVE D!EntryOwner'
  BY <1>3 DEF D!Wake
<1>4. ASSUME NEW t \in Tasks, D!Remove(t) PROVE D!EntryOwner'
  BY <1>a, <1>4 DEF D!Remove
<1>5. ASSUME NEW t \in Tasks, D!Attempt(t) PROVE D!EntryOwner'
  BY <1>5 DEF D!Attempt
<1>6. ASSUME NEW t \in Tasks, Updates(t) PROVE D!EntryOwner'
  BY <1>6 DEF Updates
<1>7. CASE Restart
  BY <1>a, <1>7 DEF Restart, NoEntry, Idle
<1>8. CASE UNCHANGED debounce_vars
  BY <1>8 DEF debounce_vars
<1> QED
  BY <1>1, <1>2, <1>3, <1>4, <1>5, <1>6, <1>7, <1>8, DebounceSteps

LEMMA NextEntryMatchesQuery ==
    ASSUME CacheTypes, HandlerTypes, EntryMatchesQuery, [Next]_vars
    PROVE  EntryMatchesQuery'
<1> USE ServiceAssumption, TaskParts DEF CacheTypes, C!Entries, EntryMatchesQuery
<1>1. ASSUME NEW k \in Identifiers, NEW id \in IdsOf[k], cache' = C!Update(k, id),
             UNCHANGED <<fut, lookup, identifier>>
      PROVE  EntryMatchesQuery'
  BY <1>1 DEF C!Update
<1>2. ASSUME NEW t \in Tasks, C!GetStored(t, t[2]) PROVE EntryMatchesQuery'
  BY <1>2 DEF C!GetStored
<1>3. ASSUME NEW t \in Tasks, C!GetPending(t, t[2]) PROVE EntryMatchesQuery'
  BY <1>3 DEF C!GetPending
<1>4. ASSUME NEW t \in Tasks, C!GetVacant(t, t[2]) PROVE EntryMatchesQuery'
  BY <1>4 DEF C!GetVacant
<1>5. ASSUME NEW t \in Tasks, C!LeaderReturns(t) PROVE EntryMatchesQuery'
  BY <1>5 DEF C!LeaderReturns, C!Answered, C!Update
<1>6. ASSUME NEW t \in Tasks, C!WaiterReturns(t) PROVE EntryMatchesQuery'
  BY <1>6 DEF C!WaiterReturns
<1>7. ASSUME NEW k \in Identifiers, C!Fetch(k) PROVE EntryMatchesQuery'
  BY <1>7 DEF C!Fetch
<1>8. CASE Restart
  BY <1>8 DEF Restart, NothingKnown
<1>9. CASE UNCHANGED cache_vars
  BY <1>9 DEF cache_vars
<1> QED
  BY <1>1, <1>2, <1>3, <1>4, <1>5, <1>6, <1>7, <1>8, <1>9, CacheSteps DEF HandlerTypes

(* What is known stays known until a restart.                               *)
LEMMA KnownKeeps ==
    ASSUME CacheTypes, HandlerTypes, EntryMatchesQuery, [Next]_vars, ~Restart,
           NEW l \in Identifiers, Known(l)
    PROVE  Known(l)'
<1> USE ServiceAssumption, TaskParts DEF CacheTypes, C!Entries, EntryMatchesQuery, Known
<1>1. ASSUME NEW k \in Identifiers, NEW id \in IdsOf[k], cache' = C!Update(k, id),
             UNCHANGED <<fut, lookup, identifier>>
      PROVE  Known(l)'
  BY <1>1 DEF C!Update
<1>2. ASSUME NEW t \in Tasks, C!GetStored(t, t[2]) PROVE Known(l)'
  BY <1>2 DEF C!GetStored
<1>3. ASSUME NEW t \in Tasks, C!GetPending(t, t[2]) PROVE Known(l)'
  BY <1>3 DEF C!GetPending
<1>4. ASSUME NEW t \in Tasks, C!GetVacant(t, t[2]) PROVE Known(l)'
  BY <1>4 DEF C!GetVacant
<1>5. ASSUME NEW t \in Tasks, C!LeaderReturns(t) PROVE Known(l)'
  BY <1>5 DEF C!LeaderReturns, C!Answered, C!Update
<1>6. ASSUME NEW t \in Tasks, C!WaiterReturns(t) PROVE Known(l)'
  BY <1>6 DEF C!WaiterReturns
<1>7. ASSUME NEW k \in Identifiers, C!Fetch(k) PROVE Known(l)'
  BY <1>7 DEF C!Fetch
<1>8. CASE UNCHANGED cache_vars
  BY <1>8 DEF cache_vars
<1> QED
  BY <1>1, <1>2, <1>3, <1>4, <1>5, <1>6, <1>7, <1>8, CacheSteps DEF HandlerTypes

LEMMA NextAnswersKnown ==
    ASSUME CacheTypes, HandlerTypes, EntryMatchesQuery, AnswersKnown, [Next]_vars
    PROVE  AnswersKnown'
<1>a. CASE Restart
  BY <1>a, ServiceAssumption DEF Restart, NoId, AnswersKnown
<1>b. CASE ~Restart
  <2> SUFFICES ASSUME NEW u \in Tasks, pr_node_id'[u] \in NodeIds
               PROVE  pr_node_id'[u] \in IdsOf[u[2]] /\ (u[2] \in unnamed' \/ Known(u[2])')
    BY DEF AnswersKnown
  <2>a. u[2] \in Identifiers
    BY TaskParts
  <2>0. CASE pr_node_id'[u] = pr_node_id[u]
    BY <1>b, <2>a, <2>0, KnownKeeps, UnnamedGrows DEF AnswersKnown
  <2>1. ASSUME NEW s \in Slots, Continues(s)
        PROVE  pr_node_id'[u] \in IdsOf[u[2]] /\ (u[2] \in unnamed' \/ Known(u[2])')
    <3>1. PICK k \in Identifiers : event[s].prs = {k} /\ event[s].id \in IdsOf[k]
      BY <2>1, EventShape DEF Continues, HandlerTypes
    <3>2. ASSUME SetsId(s) PROVE Known(k)'
      <4>1. cache' = C!Update(k, event[s].id)
        BY <3>1, <3>2 DEF SetsId
      <4> QED
        BY <2>1, <3>1, <4>1, ServiceAssumption
        DEF Continues, Known, C!Update, CacheTypes, EntryMatchesQuery, C!Entries
    <3>3. k \in unnamed' \/ Known(k)'
      BY <2>1, <3>1, <3>2 DEF Continues
    <3>4. CASE u \in {s} \X event[s].prs
      <4>1. u[2] = k
        BY <3>1, <3>4
      <4>2. pr_node_id'[u] = event[s].id
        BY <2>1, <3>4 DEF Continues
      <4> QED
        BY <3>1, <3>3, <4>1, <4>2
    <3>5. CASE u \notin {s} \X event[s].prs
      BY <2>0, <2>1, <3>5 DEF Continues
    <3> QED
      BY <3>4, <3>5
  <2>2. ASSUME NEW t \in Tasks, C!GetStored(t, t[2]), pr_node_id'[u] # pr_node_id[u]
        PROVE  pr_node_id'[u] \in IdsOf[u[2]] /\ (u[2] \in unnamed' \/ Known(u[2])')
    <3>1. u = t /\ pr_node_id'[u] = cache[u[2]] /\ cache' = cache
      BY <2>2 DEF C!GetStored, HandlerTypes
    <3> QED
      BY <2>a, <3>1, ServiceAssumption DEF EntryMatchesQuery, Known
  <2>3. ASSUME NEW t \in Tasks, C!LeaderReturns(t), pr_node_id'[u] # pr_node_id[u]
        PROVE  pr_node_id'[u] \in IdsOf[u[2]] /\ (u[2] \in unnamed' \/ Known(u[2])')
    <3>1. /\ u = t /\ pr_node_id'[u] = fut[u[2]]
          /\ cache' = C!Update(u[2], fut[u[2]])
      BY <2>3 DEF C!LeaderReturns, HandlerTypes, CacheTypes
    <3> QED
      BY <2>a, <3>1, ServiceAssumption
      DEF EntryMatchesQuery, Known, C!Update, CacheTypes, C!Entries
  <2>4. ASSUME NEW t \in Tasks, C!WaiterReturns(t), pr_node_id'[u] # pr_node_id[u]
        PROVE  pr_node_id'[u] \in IdsOf[u[2]] /\ (u[2] \in unnamed' \/ Known(u[2])')
    <3>1. u = t /\ pr_node_id'[u] = fut[u[2]] /\ cache' = cache /\ fut' = fut
      BY <2>4 DEF C!WaiterReturns, HandlerTypes, CacheTypes
    <3> QED
      BY <2>a, <3>1, ServiceAssumption DEF EntryMatchesQuery, Known
  <2>5. ASSUME NEW t \in Tasks, pr_node_id' = [pr_node_id EXCEPT ![t] = Vacant]
        PROVE  pr_node_id'[u] = pr_node_id[u]
    BY <2>5, ServiceAssumption DEF HandlerTypes
  <2> QED
    BY <1>b, <2>0, <2>1, <2>2, <2>3, <2>4, <2>5, AnswerSteps
<1> QED
  BY <1>a, <1>b

LEMMA NextDebouncedIsKnown ==
    ASSUME DebounceTypes, CacheTypes, HandlerTypes, EntryMatchesQuery, AnswersKnown,
           DebouncedIsKnown, [Next]_vars
    PROVE  DebouncedIsKnown'
<1>a. CASE Restart
  BY <1>a DEF Restart, NoEntry, DebouncedIsKnown
<1>b. CASE ~Restart
  <2> SUFFICES ASSUME NEW k \in Identifiers, k \notin unnamed',
                      NEW p \in NodeIds, p \in IdsOf[k],
                      automerge_debounce_map'[p] # NoTask
               PROVE  Known(k)'
    BY DEF DebouncedIsKnown, Known
  <2>a. k \notin unnamed
    BY <1>b, UnnamedGrows
  <2>1. CASE automerge_debounce_map[p] # NoTask
    <3>1. Known(k)
      BY <2>a, <2>1 DEF DebouncedIsKnown, Known
    <3> QED
      BY <1>b, <3>1, KnownKeeps
  <2>2. CASE automerge_debounce_map[p] = NoTask
    <3>1. PICK t \in Tasks : /\ pr_node_id[t] \in NodeIds
                             /\ D!Register(t, pr_node_id[t])
      BY <1>b, <2>2, DebounceSteps
      DEF DebounceTypes, D!Coalesce, D!Wake, D!Remove, D!Attempt, Updates, debounce_vars
    <3>2. p = pr_node_id[t]
      BY <2>2, <3>1 DEF D!Register, DebounceTypes
    <3>3. p \in IdsOf[t[2]] /\ (t[2] \in unnamed \/ Known(t[2])) /\ t[2] \in Identifiers
      BY <3>1, <3>2, TaskParts DEF AnswersKnown
    <3>4. k = t[2]
      BY <3>3, ServiceAssumption
    <3> QED
      BY <1>b, <2>a, <3>3, <3>4, KnownKeeps
  <2> QED
    BY <2>1, <2>2
<1> QED
  BY <1>a, <1>b

LEMMA NextUnservedConcern ==
    ASSUME HandlerTypes, UnservedConcern, [Next]_vars
    PROVE  UnservedConcern'
<1> USE TaskParts DEF UnservedConcern, HandlerTypes
<1>1. ASSUME NEW s \in Slots, webhook(s) PROVE UnservedConcern'
  <2> SUFFICES ASSUME NEW t \in unserved', event'[t[1]] # None
               PROVE  t[2] \in event'[t[1]].prs
    OBVIOUS
  <2>1. PICK e \in Events :
            /\ event' = [event EXCEPT ![s] = e]
            /\ unserved' \subseteq unserved \cup ({s} \X e.prs)
    BY <1>1 DEF webhook, Requests
  <2>2. CASE t \in {s} \X e.prs
    BY <2>1, <2>2
  <2>3. CASE t \in unserved
    <3>1. t[1] # s
      <4>1. t \in Tasks
        BY <2>3
      <4>2. t[1] = s => t \in TasksOf(s)
        BY <4>1 DEF TasksOf, Tasks
      <4> QED
        BY <1>1, <2>3, <4>2 DEF webhook, Free
    <3> QED
      BY <2>1, <2>3, <3>1
  <2> QED
    BY <2>1, <2>2, <2>3
<1>2. ASSUME NEW s \in Slots, event' = [event EXCEPT ![s] = None], unserved' \subseteq unserved
      PROVE  UnservedConcern'
  BY <1>2
<1>3. CASE Restart
  BY <1>3 DEF Restart
<1>4. ASSUME UNCHANGED event, unserved' \subseteq unserved
      PROVE  UnservedConcern'
  BY <1>4
<1> QED
  BY <1>1, <1>2, <1>3, <1>4
  DEF Next, Handles, process_pr_event, process_comment_event, process_check_run_event, Takes,
      Ends, GoesOn, Proceeds, Looks, LookupFails, Debounces, Sleeps, Attempts, Updates,
      GitHubNames, handler_vars, vars

-----------------------------------------------------------------------------
(* A task on its way to an attempt stays on its way until it begins it.     *)
LEMMA WillAttemptKeeps ==
    ASSUME DebounceTypes, [Next]_vars, ~Restart,
           NEW u \in Tasks, NEW p, D!WillAttempt(u, p), ~D!Attempt(u)
    PROVE  D!WillAttempt(u, p)'
<1> USE DEF DebounceTypes, D!WillAttempt
<1>1. ASSUME NEW t \in Tasks, NEW q, D!Register(t, q) PROVE D!WillAttempt(u, p)'
  BY <1>1 DEF D!Register
<1>2. ASSUME NEW q, D!Coalesce(q) PROVE D!WillAttempt(u, p)'
  BY <1>2 DEF D!Coalesce
<1>3. ASSUME NEW t \in Tasks, D!Wake(t) PROVE D!WillAttempt(u, p)'
  BY <1>3 DEF D!Wake
<1>4. ASSUME NEW t \in Tasks, D!Remove(t) PROVE D!WillAttempt(u, p)'
  BY <1>4 DEF D!Remove
<1>5. ASSUME NEW t \in Tasks, D!Attempt(t) PROVE D!WillAttempt(u, p)'
  <2>1. t # u
    BY <1>5
  <2> QED
    BY <1>5, <2>1 DEF D!Attempt
<1>6. ASSUME NEW t \in Tasks, Updates(t) PROVE D!WillAttempt(u, p)'
  BY <1>6 DEF Updates
<1>7. CASE UNCHANGED debounce_vars
  BY <1>7 DEF debounce_vars
<1> QED
  BY <1>1, <1>2, <1>3, <1>4, <1>5, <1>6, <1>7, DebounceSteps

(* Where an unserved event is: not begun, with its task, or in a window.    *)
InWork(t) == t \in joined \/ lookup[t] # "idle" \/ pr_node_id[t] # Vacant
Debounced(t) == \E u \in Tasks, p \in IdsOf[t[2]] : D!WillAttempt(u, p)

LEMMA DebouncedKeeps ==
    ASSUME DebounceTypes, [Next]_vars, ~Restart, NEW t \in Tasks, Debounced(t),
           \A u \in Tasks : ~D!Attempt(u)
    PROVE  Debounced(t)'
<1>1. PICK u \in Tasks, p \in IdsOf[t[2]] : D!WillAttempt(u, p)
  BY DEF Debounced
<1>2. D!WillAttempt(u, p)'
  BY <1>1, WillAttemptKeeps
<1> QED
  BY <1>1, <1>2 DEF Debounced

(* A handler that takes an event up either ends, and answers for all of its *)
(* slot, or hands each pull request of the event to a task.                 *)
LEMMA HandlesEvent ==
    ASSUME CacheTypes, HandlerTypes, UnservedConcern, NEW s \in Slots, Handles(s),
           NEW t \in unserved', event[t[1]] # None \/ InWork(t)
    PROVE  (event'[t[1]] # None) \/ InWork(t)'
<1> USE TaskParts DEF HandlerTypes
<1>1. t \in unserved /\ t \in Tasks
  BY DEF Handles, process_pr_event, process_comment_event, process_check_run_event, Ends, GoesOn
<1>2. lookup' = lookup /\ joined \subseteq joined'
  BY DEF Handles, process_pr_event, process_comment_event, process_check_run_event, Ends, GoesOn,
         SetsId, cache_vars
<1>3. event' = [event EXCEPT ![s] = None]
  BY DEF Handles, process_pr_event, process_comment_event, process_check_run_event, Takes
<1>4. CASE Ends(s)
  <2>1. t[1] # s
    BY <1>1, <1>4 DEF Ends, TasksOf, Tasks
  <2> QED
    BY <1>1, <1>2, <1>3, <1>4, <2>1 DEF Ends, InWork
<1>5. CASE /\ process_pr_event(s)
           /\ pr_node_id' = [u \in Tasks |-> IF u \in {s} \X event[s].prs
                                             THEN event[s].id ELSE pr_node_id[u]]
  <2>1. event[s] # None /\ event[s].kind # "check_run"
    BY <1>5 DEF process_pr_event, Takes
  <2>2. event[s].id # Vacant
    BY <2>1, EventShape, ServiceAssumption
  <2>3. CASE t[1] = s
    <3>1. t[2] \in event[s].prs
      BY <1>1, <2>1, <2>3 DEF UnservedConcern
    <3>2. t \in {s} \X event[s].prs
      BY <1>1, <2>3, <3>1 DEF Tasks
    <3> QED
      BY <1>1, <1>5, <2>2, <3>2 DEF InWork
  <2>4. CASE t[1] # s
    <3>1. t \notin {s} \X event[s].prs
      BY <2>4
    <3>2. pr_node_id'[t] = pr_node_id[t]
      BY <1>1, <1>5, <3>1
    <3> QED
      BY <1>1, <1>2, <1>3, <2>4, <3>2 DEF InWork
  <2> QED
    BY <2>3, <2>4
<1>6. CASE /\ process_check_run_event(s)
           /\ joined' = joined \cup ({s} \X event[s].prs)
           /\ UNCHANGED pr_node_id
  <2>1. CASE t[1] = s
    <3>1. t[2] \in event[s].prs
      BY <1>1, <1>6, <2>1 DEF UnservedConcern, process_check_run_event, Takes
    <3> QED
      BY <1>1, <1>6, <2>1, <3>1 DEF InWork, Tasks
  <2>2. CASE t[1] # s
    BY <1>1, <1>2, <1>3, <1>6, <2>2 DEF InWork
  <2> QED
    BY <2>1, <2>2
<1> QED
  BY <1>4, <1>5, <1>6
  DEF Handles, process_pr_event, process_comment_event, process_check_run_event, GoesOn

(* A lookup passes its event on to its answer.                              *)
LEMMA LooksKeeps ==
    ASSUME CacheTypes, HandlerTypes, NEW t \in Tasks, Looks(t), NEW v \in Tasks, InWork(v)
    PROVE  InWork(v)'
<1> USE ServiceAssumption, TaskParts DEF CacheTypes, HandlerTypes, InWork
<1>1. CASE v # t
  BY <1>1 DEF Looks, C!GetStored, C!GetPending, C!GetVacant, C!LeaderReturns, C!WaiterReturns
<1>2. CASE v = t
  <2>1. CASE C!GetStored(t, t[2])
    BY <1>2, <2>1 DEF C!GetStored
  <2>2. CASE C!GetPending(t, t[2])
    BY <1>2, <2>2 DEF C!GetPending
  <2>3. CASE C!GetVacant(t, t[2])
    BY <1>2, <2>3 DEF C!GetVacant
  <2>4. CASE C!LeaderReturns(t)
    BY <1>2, <2>4 DEF C!LeaderReturns, C!Answered
  <2>5. CASE C!WaiterReturns(t)
    BY <1>2, <2>5 DEF C!WaiterReturns, C!Answered
  <2> QED
    BY <2>1, <2>2, <2>3, <2>4, <2>5 DEF Looks
<1> QED
  BY <1>1, <1>2

LEMMA NextNoEventLost ==
    ASSUME IInv, [Next]_vars
    PROVE  NoEventLost'
<1>a. /\ DebounceTypes /\ CacheTypes /\ HandlerTypes /\ D!EntryOwner
      /\ AnswersKnown /\ UnservedConcern
  BY DEF IInv
<1>b. \A t \in unserved : event[t[1]] # None \/ InWork(t) \/ Debounced(t)
  BY DEF IInv, NoEventLost, InWork, Debounced
<1> SUFFICES ASSUME NEW t \in unserved'
             PROVE  (event'[t[1]] # None) \/ InWork(t)' \/ Debounced(t)'
  BY DEF NoEventLost, InWork, Debounced
<1> DEFINE Served == (event'[t[1]] # None) \/ InWork(t)' \/ Debounced(t)'
<1>c. t \in Tasks
  BY <1>a, NextHandlerTypes DEF HandlerTypes
<1>d. t[1] \in Slots /\ t[2] \in Identifiers /\ t = <<t[1], t[2]>>
  BY <1>c DEF Tasks
<1>1. CASE Restart
  BY <1>1 DEF Restart
<1>2. ASSUME NEW s \in Slots, webhook(s), ~Restart PROVE Served
  <2>1. PICK e \in Events : /\ event' = [event EXCEPT ![s] = e] /\ e # None
                            /\ unserved' \subseteq unserved \cup ({s} \X e.prs)
    BY <1>2 DEF webhook, Requests
  <2>2. UNCHANGED <<debounce_vars, lookup, joined, pr_node_id>>
    BY <1>2 DEF webhook, cache_vars
  <2>3. CASE t[1] = s
    BY <1>a, <1>d, <2>1, <2>3 DEF HandlerTypes
  <2>4. CASE t[1] # s
    <3>1. t \in unserved /\ event'[t[1]] = event[t[1]]
      BY <1>a, <1>d, <2>1, <2>4 DEF HandlerTypes
    <3>2. InWork(t) => InWork(t)'
      BY <2>2 DEF InWork
    <3>3. Debounced(t) => Debounced(t)'
      BY <2>2 DEF Debounced, D!WillAttempt, debounce_vars
    <3> QED
      BY <1>b, <3>1, <3>2, <3>3
  <2> QED
    BY <2>3, <2>4
<1>3. ASSUME NEW s \in Slots, Handles(s), ~Restart PROVE Served
  <2>1. t \in unserved
    BY <1>3 DEF Handles, process_pr_event, process_comment_event, process_check_run_event, Ends, GoesOn
  <2>2. UNCHANGED debounce_vars
    BY <1>3 DEF Handles, process_pr_event, process_comment_event, process_check_run_event
  <2>3. Debounced(t) => Debounced(t)'
    BY <2>2 DEF Debounced, D!WillAttempt, debounce_vars
  <2>4. event[t[1]] # None \/ InWork(t) => Served
    BY <1>a, <1>3, HandlesEvent
  <2> QED
    BY <1>b, <2>1, <2>3, <2>4
<1>4. ASSUME NEW v \in Tasks, Looks(v), ~Restart PROVE Served
  <2>1. t \in unserved /\ event' = event /\ UNCHANGED debounce_vars
    BY <1>4 DEF Looks
  <2>2. Debounced(t) => Debounced(t)'
    BY <2>1 DEF Debounced, D!WillAttempt, debounce_vars
  <2>3. InWork(t) => InWork(t)'
    BY <1>a, <1>4, <1>c, LooksKeeps
  <2> QED
    BY <1>b, <2>1, <2>2, <2>3
<1>5. ASSUME NEW v \in Tasks, LookupFails(v), ~Restart PROVE Served
  <2>1. /\ t \in unserved /\ t # v /\ event' = event
        /\ UNCHANGED <<debounce_vars, lookup, joined>>
    BY <1>5 DEF LookupFails, cache_vars
  <2>2. pr_node_id'[t] = pr_node_id[t]
    BY <1>a, <1>5, <1>c, <2>1 DEF LookupFails, HandlerTypes
  <2>3. Debounced(t) => Debounced(t)'
    BY <2>1 DEF Debounced, D!WillAttempt, debounce_vars
  <2> QED
    BY <1>b, <2>1, <2>2, <2>3 DEF InWork
<1>6. ASSUME NEW v \in Tasks, Debounces(v), ~Restart PROVE Served
  <2>1. t \in unserved /\ event' = event /\ UNCHANGED <<lookup, joined>>
    BY <1>6 DEF Debounces, cache_vars
  <2>2. Debounced(t) => Debounced(t)'
    <3>1. \A u \in Tasks : ~D!Attempt(u)
      BY <1>a, <1>6 DEF Debounces, D!Register, D!Coalesce, D!Attempt, DebounceTypes
    <3> QED
      BY <1>a, <1>6, <1>c, <3>1, DebouncedKeeps
  <2>3. CASE t # v
    <3>1. pr_node_id'[t] = pr_node_id[t]
      BY <1>a, <1>6, <1>c, <2>3 DEF Debounces, HandlerTypes
    <3> QED
      BY <1>b, <2>1, <2>2, <3>1 DEF InWork
  <2>4. CASE t = v
    <3>1. pr_node_id[t] \in IdsOf[t[2]] /\ pr_node_id[t] \in NodeIds
      BY <1>a, <1>6, <1>c, <2>4 DEF Debounces, AnswersKnown
    <3>2. CASE D!Register(t, pr_node_id[t])
      <4>1. PICK p \in IdsOf[t[2]] : p = pr_node_id[t]
        BY <3>1
      <4>2. window'[t] = "sleeping" /\ node_id'[t] = p
        BY <1>a, <1>c, <3>2, <4>1 DEF D!Register, DebounceTypes
      <4>3. D!WillAttempt(t, p)'
        BY <4>2 DEF D!WillAttempt
      <4> QED
        BY <1>c, <4>1, <4>3 DEF Debounced
    <3>3. CASE D!Coalesce(pr_node_id[t])
      <4>1. PICK u \in Tasks : automerge_debounce_map[pr_node_id[t]] = u
        BY <1>a, <3>1, <3>3 DEF D!Coalesce, DebounceTypes
      <4>2. D!WillAttempt(u, pr_node_id[t])
        BY <1>a, <3>1, <4>1 DEF D!EntryOwner, D!InWindow, D!WillAttempt
      <4> QED
        BY <1>c, <2>2, <3>1, <4>2 DEF Debounced
    <3> QED
      BY <1>6, <2>4, <3>2, <3>3 DEF Debounces
  <2> QED
    BY <2>3, <2>4
<1>7. ASSUME NEW v \in Tasks, Sleeps(v), ~Restart PROVE Served
  <2>1. t \in unserved /\ event' = event /\ UNCHANGED <<lookup, joined, pr_node_id>>
    BY <1>7 DEF Sleeps, cache_vars, handler_vars
  <2>2. \A u \in Tasks : ~D!Attempt(u)
    BY <1>a, <1>7 DEF Sleeps, D!Wake, D!Remove, D!Attempt, DebounceTypes
  <2>3. Debounced(t) => Debounced(t)'
    BY <1>a, <1>7, <1>c, <2>2, DebouncedKeeps
  <2> QED
    BY <1>b, <2>1, <2>3 DEF InWork
<1>8. ASSUME NEW v \in Tasks, Attempts(v), ~Restart PROVE Served
  <2>1. event' = event /\ UNCHANGED <<lookup, joined, pr_node_id>> /\ D!Attempt(v)
    BY <1>8 DEF Attempts, cache_vars
  <2>2. PICK k \in Identifiers : node_id[v] \in IdsOf[k] /\ unserved' = unserved \ (Slots \X {k})
    BY <1>8 DEF Attempts
  <2>3. t \in unserved /\ t[2] # k
    BY <1>d, <2>2
  <2>4. ASSUME Debounced(t) PROVE Debounced(t)'
    <3>1. PICK u \in Tasks, p \in IdsOf[t[2]] : D!WillAttempt(u, p)
      BY <2>4 DEF Debounced
    <3>2. u # v
      BY <1>d, <2>2, <2>3, <3>1, ServiceAssumption DEF D!WillAttempt
    <3>3. D!WillAttempt(u, p)'
      BY <1>a, <2>1, <3>1, <3>2 DEF D!Attempt, D!WillAttempt, DebounceTypes
    <3> QED
      BY <3>1, <3>3 DEF Debounced
  <2> QED
    BY <1>b, <2>1, <2>3, <2>4 DEF InWork
<1>9. ASSUME NEW v \in Tasks, Updates(v), ~Restart PROVE Served
  <2>1. t \in unserved /\ event' = event /\ UNCHANGED <<lookup, joined, pr_node_id>>
    BY <1>9 DEF Updates, cache_vars, handler_vars
  <2>2. \A u \in Tasks : ~D!Attempt(u)
    BY <1>a, <1>9 DEF Updates, D!Attempt, DebounceTypes
  <2>3. Debounced(t) => Debounced(t)'
    BY <1>a, <1>9, <1>c, <2>2, DebouncedKeeps
  <2> QED
    BY <1>b, <2>1, <2>3 DEF InWork
<1>10. ASSUME UNCHANGED <<debounce_vars, handler_vars, lookup>> PROVE Served
  <2>1. t \in unserved /\ event' = event /\ UNCHANGED <<lookup, joined, pr_node_id>>
    BY <1>10 DEF handler_vars
  <2>2. Debounced(t) => Debounced(t)'
    BY <1>10 DEF Debounced, D!WillAttempt, debounce_vars
  <2> QED
    BY <1>b, <2>1, <2>2 DEF InWork
<1>11. ASSUME NEW k \in Identifiers, GitHubNames(k) PROVE Served
  BY <1>10, <1>11 DEF GitHubNames, C!Fetch
<1>12. CASE UNCHANGED vars
  BY <1>10, <1>12 DEF vars, cache_vars
<1> QED
  BY <1>1, <1>2, <1>3, <1>4, <1>5, <1>6, <1>7, <1>8, <1>9, <1>11, <1>12 DEF Next, Proceeds

LEMMA NextIInv == IInv /\ [Next]_vars => IInv'
  BY NextDebounceTypes, NextCacheTypes, NextHandlerTypes, NextEntryOwner, NextEntryMatchesQuery,
     NextAnswersKnown, NextUnservedConcern, NextDebouncedIsKnown, NextNoEventLost
  DEF IInv

LEMMA Invariance == Spec => []IInv
  BY InitIInv, NextIInv, PTL DEF Spec

-----------------------------------------------------------------------------
(* An event answered with 202 is not lost between its handler, the JoinSet, *)
(* the lookup of the id and the debounce, however many are in work: until   *)
(* an attempt or a logged error has dealt with it, its own task or the one  *)
(* whose window it was merged into is on its way.                           *)
THEOREM EventsNotLost == Spec => []NoEventLost
<1>1. IInv => NoEventLost
  BY DEF IInv
<1> QED
  BY <1>1, Invariance, PTL

(* While a pull request is in the debounce map, its id is in the id cache   *)
(* or about to be stored there, unless a payload came without the node id   *)
(* of its repository: whoever debounces it has made it known, and nothing   *)
(* but a restart, which empties both, forgets an id.                        *)
THEOREM DebouncedAreKnown == Spec => []DebouncedIsKnown
<1>1. IInv => DebouncedIsKnown
  BY DEF IInv
<1> QED
  BY <1>1, Invariance, PTL

-----------------------------------------------------------------------------
(* What module Debounce says of its own steps is true in the service: every *)
(* step that touches the debounce map, its flags or a caller of it is one   *)
(* of the steps modelled there, or the restart that empties it.             *)
THEOREM DebounceAsModelled == Spec => [][D!Next \/ Restart]_debounce_vars
<1>1. [Next]_vars => [D!Next \/ Restart]_debounce_vars
  BY DebounceSteps, TaskParts DEF D!Next, D!Step, Updates, D!QueryReturns
<1> QED
  BY <1>1, PTL DEF Spec

(* With webhooks, check runs and lookups of any number of handlers mixed,   *)
(* the query for an id is sent once between two restarts, for a pull        *)
(* request nothing is known about, and its answer is never replaced.        *)
THEOREM QueriedOnce ==
    Spec => [][\/ Restart
               \/ \A k \in Identifiers :
                     fut'[k] # fut[k] =>
                         \/ fut[k] = Vacant /\ fut'[k] = Pending /\ cache[k] = Vacant
                         \/ fut[k] = Pending /\ fut'[k] \in IdsOf[k] \cup {Error}]_cache_vars
<1> DEFINE Asks(k) == \/ fut[k] = Vacant /\ fut'[k] = Pending /\ cache[k] = Vacant
                      \/ fut[k] = Pending /\ fut'[k] \in IdsOf[k] \cup {Error}
           Once == \A k \in Identifiers : fut'[k] # fut[k] => Asks(k)
<1>1. IInv /\ [Next]_vars => Restart \/ Once
  <2> SUFFICES ASSUME IInv, [Next]_vars PROVE Restart \/ Once
    OBVIOUS
  <2>a. CacheTypes /\ HandlerTypes /\ EntryMatchesQuery
    BY DEF IInv
  <2>1. ASSUME NEW t \in Tasks, C!GetVacant(t, t[2]) PROVE Once
    BY <2>a, <2>1, TaskParts DEF C!GetVacant, EntryMatchesQuery, CacheTypes
  <2>2. ASSUME NEW l \in Identifiers, C!Fetch(l) PROVE Once
    BY <2>a, <2>2 DEF C!Fetch, CacheTypes
  <2>3. UNCHANGED fut => Once
    OBVIOUS
  <2> HIDE DEF Once
  <2> QED
    BY <2>a, <2>1, <2>2, <2>3, CacheSteps
    DEF HandlerTypes, C!GetStored, C!GetPending, C!LeaderReturns, C!WaiterReturns, cache_vars
<1> QED
  BY <1>1, Invariance, PTL DEF Spec

=============================================================================
