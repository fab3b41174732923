---------------------- MODULE PullRequestIdCacheProofs ----------------------
(***************************************************************************)
(* Proofs about PullRequestIdCache for every set of tasks, identifiers and *)
(* node ids: the invariants and action properties its runs check, and the  *)
(* refinement of IdDirectory.                                              *)
(***************************************************************************)
EXTENDS PullRequestIdCache, TLAPS

(* How an entry and the query behind it hang together. A vacant entry has   *)
(* no query, so a new query is the first one; an error in the map is the    *)
(* query's error, so a caller that saw the query's id cannot meet it.       *)
EntryMatchesQuery ==
    /\ \A k \in Identifiers :
          /\ cache[k] \in IdsOf[k] \cup {Vacant, Pending, Error}
          /\ fut[k] \in IdsOf[k] \cup {Vacant, Pending, Error}
          /\ cache[k] = Vacant => fut[k] = Vacant
          /\ cache[k] = Pending => fut[k] # Vacant
          /\ cache[k] = Error => fut[k] = Error
    /\ \A t \in Tasks : pc[t] # "idle" => fut[identifier[t]] # Vacant

(* The inductive invariant.                                                 *)
IInv ==
    /\ TypeOK
    /\ EntryMatchesQuery
    /\ PendingHasLeader
    /\ AnswerIsKept

(* One step of a get, or of the query or webhook behind it.                 *)
Change ==
    \/ \E k \in Identifiers, id \in NodeIds : Set(k, id)
    \/ \E k \in Identifiers, t \in Tasks : GetStored(t, k)
    \/ \E k \in Identifiers, t \in Tasks : GetPending(t, k)
    \/ \E k \in Identifiers, t \in Tasks : GetVacant(t, k)
    \/ \E k \in Identifiers : Fetch(k)
    \/ \E t \in Tasks : LeaderReturns(t)
    \/ \E t \in Tasks : WaiterReturns(t)

(* The alternatives of a step, flat, so that each proof has one case each.  *)
LEMMA NextIsChange == Next => Change
  BY DEF Next, Change

(* Initially nothing is stored, asked, running or answered.                 *)
LEMMA InitIInv == Init => IInv
<1> SUFFICES ASSUME Init PROVE IInv
  OBVIOUS
<1>1. TypeOK
  BY DEF Init, TypeOK, Entries
<1>2. EntryMatchesQuery
  BY CacheAssumption DEF Init, EntryMatchesQuery
<1>3. PendingHasLeader
  BY CacheAssumption DEF Init, PendingHasLeader
<1>4. AnswerIsKept
  BY CacheAssumption DEF Init, AnswerIsKept
<1> QED
  BY <1>1, <1>2, <1>3, <1>4 DEF IInv

(* Types are preserved: an answered query holds an id or an error.          *)
LEMMA NextTypeOK ==
    ASSUME TypeOK, [Next]_vars
    PROVE  TypeOK'
<1> USE CacheAssumption DEF TypeOK, Entries
<1>1. ASSUME NEW k \in Identifiers, NEW id \in NodeIds, Set(k, id) PROVE TypeOK'
  BY <1>1 DEF Set, Update
<1>2. ASSUME NEW k \in Identifiers, NEW t \in Tasks, GetStored(t, k) PROVE TypeOK'
  BY <1>2 DEF GetStored
<1>3. ASSUME NEW k \in Identifiers, NEW t \in Tasks, GetPending(t, k) PROVE TypeOK'
  BY <1>3 DEF GetPending
<1>4. ASSUME NEW k \in Identifiers, NEW t \in Tasks, GetVacant(t, k) PROVE TypeOK'
  BY <1>4 DEF GetVacant
<1>5. ASSUME NEW k \in Identifiers, Fetch(k) PROVE TypeOK'
  BY <1>5 DEF Fetch
<1>6. ASSUME NEW t \in Tasks, LeaderReturns(t) PROVE TypeOK'
  BY <1>6 DEF LeaderReturns, Answered, Update
<1>7. ASSUME NEW t \in Tasks, WaiterReturns(t) PROVE TypeOK'
  BY <1>7 DEF WaiterReturns, Answered
<1>8. CASE UNCHANGED vars
  BY <1>8 DEF vars
<1> QED
  BY <1>1, <1>2, <1>3, <1>4, <1>5, <1>6, <1>7, <1>8, NextIsChange DEF Change

(* Entry and query move together: GetVacant starts the query with the       *)
(* entry, and only the query's own leader writes its answer.                *)
LEMMA NextEntryMatchesQuery ==
    ASSUME IInv, [Next]_vars
    PROVE  EntryMatchesQuery'
<1> USE CacheAssumption DEF IInv, TypeOK, Entries, EntryMatchesQuery
<1>1. ASSUME NEW k \in Identifiers, NEW id \in NodeIds, Set(k, id)
      PROVE  EntryMatchesQuery'
  BY <1>1 DEF Set, Update
<1>2. ASSUME NEW k \in Identifiers, NEW t \in Tasks, GetStored(t, k)
      PROVE  EntryMatchesQuery'
  BY <1>2 DEF GetStored
<1>3. ASSUME NEW k \in Identifiers, NEW t \in Tasks, GetPending(t, k)
      PROVE  EntryMatchesQuery'
  BY <1>3 DEF GetPending
<1>4. ASSUME NEW k \in Identifiers, NEW t \in Tasks, GetVacant(t, k)
      PROVE  EntryMatchesQuery'
  BY <1>4 DEF GetVacant
<1>5. ASSUME NEW k \in Identifiers, Fetch(k) PROVE EntryMatchesQuery'
  BY <1>5 DEF Fetch
<1>6. ASSUME NEW t \in Tasks, LeaderReturns(t) PROVE EntryMatchesQuery'
  BY <1>6 DEF LeaderReturns, Answered, Update
<1>7. ASSUME NEW t \in Tasks, WaiterReturns(t) PROVE EntryMatchesQuery'
  BY <1>7 DEF WaiterReturns
<1>8. CASE UNCHANGED vars
  BY <1>8 DEF vars
<1> QED
  BY <1>1, <1>2, <1>3, <1>4, <1>5, <1>6, <1>7, <1>8, NextIsChange DEF Change

(* A new leader finds no other, because a vacant entry has no query; the    *)
(* leader that leaves takes the pending entry with it.                      *)
LEMMA NextPendingHasLeader ==
    ASSUME IInv, [Next]_vars
    PROVE  PendingHasLeader'
<1> USE CacheAssumption DEF IInv, TypeOK, Entries, PendingHasLeader
<1>1. ASSUME NEW k \in Identifiers, NEW id \in NodeIds, Set(k, id)
      PROVE  PendingHasLeader'
  BY <1>1 DEF Set, Update
<1>2. ASSUME NEW k \in Identifiers, NEW t \in Tasks, GetStored(t, k)
      PROVE  PendingHasLeader'
  BY <1>2 DEF GetStored
<1>3. ASSUME NEW k \in Identifiers, NEW t \in Tasks, GetPending(t, k)
      PROVE  PendingHasLeader'
  BY <1>3 DEF GetPending
<1>4. ASSUME NEW k \in Identifiers, NEW t \in Tasks, GetVacant(t, k)
      PROVE  PendingHasLeader'
  BY <1>4 DEF GetVacant, EntryMatchesQuery
<1>5. ASSUME NEW k \in Identifiers, Fetch(k) PROVE PendingHasLeader'
  BY <1>5 DEF Fetch
<1>6. ASSUME NEW t \in Tasks, LeaderReturns(t) PROVE PendingHasLeader'
  BY <1>6 DEF LeaderReturns, Answered, Update
<1>7. ASSUME NEW t \in Tasks, WaiterReturns(t) PROVE PendingHasLeader'
  BY <1>7 DEF WaiterReturns
<1>8. CASE UNCHANGED vars
  BY <1>8 DEF vars
<1> QED
  BY <1>1, <1>2, <1>3, <1>4, <1>5, <1>6, <1>7, <1>8, NextIsChange DEF Change

(* A waiter that returns an id leaves an id or a pending entry behind: an   *)
(* error there would be the error of the query that just gave the id.       *)
LEMMA NextAnswerIsKept ==
    ASSUME IInv, [Next]_vars
    PROVE  AnswerIsKept'
<1> USE CacheAssumption DEF IInv, TypeOK, Entries, AnswerIsKept
<1>1. ASSUME NEW k \in Identifiers, NEW id \in NodeIds, Set(k, id)
      PROVE  AnswerIsKept'
  BY <1>1 DEF Set, Update
<1>2. ASSUME NEW k \in Identifiers, NEW t \in Tasks, GetStored(t, k)
      PROVE  AnswerIsKept'
  BY <1>2 DEF GetStored, EntryMatchesQuery
<1>3. ASSUME NEW k \in Identifiers, NEW t \in Tasks, GetPending(t, k)
      PROVE  AnswerIsKept'
  BY <1>3 DEF GetPending
<1>4. ASSUME NEW k \in Identifiers, NEW t \in Tasks, GetVacant(t, k)
      PROVE  AnswerIsKept'
  BY <1>4 DEF GetVacant
<1>5. ASSUME NEW k \in Identifiers, Fetch(k) PROVE AnswerIsKept'
  BY <1>5 DEF Fetch
<1>6. ASSUME NEW t \in Tasks, LeaderReturns(t) PROVE AnswerIsKept'
  BY <1>6 DEF LeaderReturns, Answered, Update, EntryMatchesQuery
<1>7. ASSUME NEW t \in Tasks, WaiterReturns(t) PROVE AnswerIsKept'
  BY <1>7 DEF WaiterReturns, Answered, EntryMatchesQuery
<1>8. CASE UNCHANGED vars
  BY <1>8 DEF vars
<1> QED
  BY <1>1, <1>2, <1>3, <1>4, <1>5, <1>6, <1>7, <1>8, NextIsChange DEF Change

(* IInv holds in every reachable state.                                     *)
THEOREM Invariance == Spec => []IInv
<1>1. IInv /\ [Next]_vars => IInv'
  BY NextTypeOK, NextEntryMatchesQuery, NextPendingHasLeader, NextAnswerIsKept
  DEF IInv
<1> QED
  BY InitIInv, <1>1, PTL DEF Spec

(* Every variable of the cache keeps its type.                              *)
THEOREM TypeCorrect == Spec => []TypeOK
<1>1. IInv => TypeOK
  BY DEF IInv
<1> QED
  BY Invariance, <1>1, PTL

(* A pending entry always has exactly one leader to replace it.             *)
THEOREM PendingIsLed == Spec => []PendingHasLeader
<1>1. IInv => PendingHasLeader
  BY DEF IInv
<1> QED
  BY Invariance, <1>1, PTL

(* Once a call was given an id, no later call for it can fail.              *)
THEOREM AnswersKept == Spec => []AnswerIsKept
<1>1. IInv => AnswerIsKept
  BY DEF IInv
<1> QED
  BY Invariance, <1>1, PTL

(* GitHub is asked at most once for the id of a pull request.               *)
THEOREM SingleQuery == Spec => AskedOnce
<1> DEFINE Keeps ==
      \A k \in Identifiers :
          fut'[k] # fut[k] =>
              \/ fut[k] = Vacant /\ fut'[k] = Pending /\ cache[k] = Vacant
              \/ fut[k] = Pending /\ fut'[k] \in IdsOf[k] \cup {Error}
<1>1. ASSUME IInv, [Next]_vars PROVE Keeps
  <2> USE <1>1, CacheAssumption DEF IInv, TypeOK, EntryMatchesQuery
  <2>1. ASSUME NEW k \in Identifiers, NEW t \in Tasks, GetVacant(t, k) PROVE Keeps
    BY <2>1 DEF GetVacant
  <2>2. ASSUME NEW k \in Identifiers, Fetch(k) PROVE Keeps
    BY <2>2 DEF Fetch
  <2>3. ASSUME fut' = fut PROVE Keeps
    BY <2>3
  <2> QED
    BY <2>1, <2>2, <2>3, NextIsChange
    DEF Change, Set, GetStored, GetPending, LeaderReturns, WaiterReturns, vars
<1>2. IInv /\ [Next]_vars => [Keeps]_vars
  BY <1>1
<1> QED
  BY Invariance, <1>2, PTL DEF Spec, AskedOnce

(* An error leaves the map only by a webhook payload that names the pull    *)
(* request. A leader cannot replace it: its entry is still pending or an id.*)
THEOREM ErrorHealing == Spec => ErrorHealedByWebhook
<1> DEFINE Heals ==
      \A k \in Identifiers :
          cache[k] = Error /\ cache'[k] # Error =>
              /\ cache'[k] \in IdsOf[k]
              /\ UNCHANGED <<fut, pc, result>>
<1>1. ASSUME IInv, [Next]_vars PROVE Heals
  <2> USE <1>1, CacheAssumption DEF IInv, TypeOK, EntryMatchesQuery
  <2>1. ASSUME NEW k \in Identifiers, NEW id \in NodeIds, Set(k, id) PROVE Heals
    BY <2>1 DEF Set, Update
  <2>2. ASSUME NEW k \in Identifiers, NEW t \in Tasks, GetVacant(t, k) PROVE Heals
    BY <2>2 DEF GetVacant
  <2>3. ASSUME NEW t \in Tasks, LeaderReturns(t) PROVE Heals
    BY <2>3 DEF LeaderReturns, Update
  <2>4. ASSUME cache' = cache PROVE Heals
    BY <2>4
  <2> QED
    BY <2>1, <2>2, <2>3, <2>4, NextIsChange
    DEF Change, GetStored, GetPending, Fetch, WaiterReturns, vars
<1>2. IInv /\ [Next]_vars => [Heals]_vars
  BY <1>1
<1> QED
  BY Invariance, <1>2, PTL DEF Spec, ErrorHealedByWebhook

(* What the directory knows, as the refinement maps it.                     *)
Known == [k \in Identifiers |-> IF cache[k] \in NodeIds THEN cache[k] ELSE Vacant]

(* A store through update teaches the directory an id or changes nothing.   *)
LEMMA UpdateLearns ==
    ASSUME IInv,
           NEW k \in Identifiers, NEW entry \in IdsOf[k] \cup {Pending, Error},
           cache' = Update(k, entry)
    PROVE  Directory!Next \/ Known' = Known
<1> USE CacheAssumption DEF IInv, TypeOK, Entries, EntryMatchesQuery
<1>1. CASE cache[k] \in NodeIds
  BY <1>1 DEF Update, Known
<1>2. CASE cache[k] \notin NodeIds /\ entry \in {Pending, Error}
  BY <1>2 DEF Update, Known
<1>3. CASE cache[k] \notin NodeIds /\ entry \in IdsOf[k]
  <2>1. Known' = [Known EXCEPT ![k] = entry]
    BY <1>3 DEF Update, Known
  <2>2. Known[k] = Vacant /\ entry \in NodeIds
    BY <1>3 DEF Known
  <2>3. Directory!Learn(k, entry)
    BY <1>3, <2>1, <2>2 DEF Directory!Learn, Known
  <2> QED
    BY <2>2, <2>3 DEF Directory!Next
<1> QED
  BY <1>1, <1>2, <1>3

(* The cache is a write-once directory of ids that GitHub gave.             *)
THEOREM RefinesIdDirectory == Spec => ImplementsIdDirectory
<1>1. Init => Directory!Init
  BY CacheAssumption DEF Init, Directory!Init
<1>2. ASSUME IInv, [Next]_vars PROVE Directory!Next \/ Known' = Known
  <2> USE <1>2, CacheAssumption DEF IInv, TypeOK, EntryMatchesQuery
  <2>1. ASSUME NEW k \in Identifiers, NEW id \in NodeIds, Set(k, id)
        PROVE  Directory!Next \/ Known' = Known
    BY <2>1, UpdateLearns DEF Set
  <2>2. ASSUME NEW k \in Identifiers, NEW t \in Tasks, GetVacant(t, k)
        PROVE  Directory!Next \/ Known' = Known
    BY <2>2 DEF GetVacant, Known
  <2>3. ASSUME NEW t \in Tasks, LeaderReturns(t)
        PROVE  Directory!Next \/ Known' = Known
    <3>1. fut[identifier[t]] \in IdsOf[identifier[t]] \cup {Pending, Error}
      BY <2>3 DEF LeaderReturns, Answered
    <3> QED
      BY <2>3, <3>1, UpdateLearns DEF LeaderReturns
  <2>4. ASSUME cache' = cache PROVE Known' = Known
    BY <2>4 DEF Known
  <2> QED
    BY <2>1, <2>2, <2>3, <2>4, NextIsChange
    DEF Change, GetStored, GetPending, Fetch, WaiterReturns, vars
<1>3. IInv /\ [Next]_vars => [Directory!Next]_Known
  BY <1>2
<1>4. [Directory!Next]_Known <=>
          [Directory!Next]_([k \in Identifiers |->
                               IF cache[k] \in NodeIds THEN cache[k] ELSE Vacant])
  BY DEF Known
<1> QED
  BY Invariance, <1>1, <1>3, <1>4, PTL
  DEF Spec, ImplementsIdDirectory, Directory!Spec

=============================================================================
