--------------------------- MODULE AutomergeProofs ---------------------------
(***************************************************************************)
(* Proofs about Automerge, for every set of rules and whatever happens to  *)
(* the pull request meanwhile, for every number of workers and of times a  *)
(* call is carried out: the types, that the bot acts at vetted heads only, *)
(* that approvals do not pile up, and that the bot, once at rest, has done *)
(* what the last event calls for.                                          *)
(***************************************************************************)
EXTENDS Automerge, FiniteSetTheorems, SequenceTheorems, TLAPS

(* The lists of calls are handled by their entries.                         *)
Entries(s) == {s[i] : i \in DOMAIN s}
IsList(s) == s \in Seq(Entries(s))

LEMMA EmptyList == IsList(<<>>) /\ Entries(<<>>) = {} /\ Len(<<>>) = 0
  BY DEF IsList, Entries

LEMMA SingleList ==
    ASSUME NEW c
    PROVE  IsList(<<c>>) /\ Entries(<<c>>) = {c} /\ Len(<<c>>) = 1
  BY DEF IsList, Entries

(* What can be seen as a list of anything is a list.                        *)
LEMMA TypedList ==
    ASSUME NEW S, NEW s \in Seq(S)
    PROVE  IsList(s) /\ DOMAIN s = 1..Len(s) /\ Entries(s) \subseteq S
<1>1. DOMAIN s = 1..Len(s) /\ Len(s) \in Nat /\ s \in [1..Len(s) -> S]
  OBVIOUS
<1>2. s \in [1..Len(s) -> Entries(s)]
  BY <1>1 DEF Entries
<1>3. IsList(s)
  BY <1>1, <1>2 DEF IsList
<1> QED
  BY <1>1, <1>3 DEF Entries

(* The first call and the others.                                           *)
LEMMA TailEntries ==
    ASSUME NEW s, IsList(s), s # <<>>
    PROVE  /\ IsList(Tail(s))
           /\ s[1] \in Entries(s)
           /\ Entries(s) = {s[1]} \cup Entries(Tail(s))
           /\ Len(Tail(s)) = Len(s) - 1 /\ Len(s) \in Nat \ {0}
<1>1. Tail(s) \in Seq(Entries(s))
  BY DEF IsList
<1>2. IsList(Tail(s)) /\ DOMAIN Tail(s) = 1..Len(Tail(s))
  BY <1>1, TypedList
<1>3. /\ Len(Tail(s)) = Len(s) - 1 /\ Len(s) \in Nat \ {0}
      /\ DOMAIN s = 1..Len(s)
      /\ \A i \in 1..(Len(s) - 1) : Tail(s)[i] = s[i + 1]
  BY DEF IsList
<1>4. ASSUME NEW i \in DOMAIN s, i # 1 PROVE s[i] \in Entries(Tail(s))
  <2>1. i - 1 \in DOMAIN Tail(s) /\ s[i] = Tail(s)[i - 1]
    BY <1>2, <1>3, <1>4
  <2> QED
    BY <2>1 DEF Entries
<1>5. Entries(s) \subseteq {s[1]} \cup Entries(Tail(s))
  BY <1>4 DEF Entries
<1>6. s[1] \in Entries(s)
  BY <1>3 DEF Entries
<1>7. Entries(Tail(s)) \subseteq Entries(s)
  BY <1>1, TypedList
<1>8. Entries(s) = {s[1]} \cup Entries(Tail(s))
  BY <1>5, <1>6, <1>7
<1> QED
  BY <1>2, <1>3, <1>6, <1>8

LEMMA NoEntries ==
    ASSUME NEW s, IsList(s), Len(s) = 0
    PROVE  Entries(s) = {}
<1>1. DOMAIN s = 1..0
  BY DEF IsList
<1> QED
  BY <1>1 DEF Entries

LEMMA ConcatEntries ==
    ASSUME NEW s, NEW t, IsList(s), IsList(t)
    PROVE  /\ IsList(s \o t)
           /\ Entries(s \o t) = Entries(s) \cup Entries(t)
           /\ Len(s \o t) = Len(s) + Len(t) /\ Len(s) \in Nat /\ Len(t) \in Nat
<1> DEFINE S == Entries(s) \cup Entries(t)
<1>1. s \in Seq(S) /\ t \in Seq(S)
  <2>1. s \in [1..Len(s) -> S] /\ Len(s) \in Nat
    BY DEF IsList
  <2>2. t \in [1..Len(t) -> S] /\ Len(t) \in Nat
    BY DEF IsList
  <2> QED
    BY <2>1, <2>2
<1> HIDE DEF S
<1>2. s \o t \in Seq(S) /\ Len(s \o t) = Len(s) + Len(t)
  BY <1>1
<1>3. IsList(s \o t) /\ Entries(s \o t) \subseteq S
  BY <1>2, TypedList
<1>4. Len(s) \in Nat /\ Len(t) \in Nat /\ DOMAIN s = 1..Len(s) /\ DOMAIN t = 1..Len(t)
  BY <1>1
<1>5. DOMAIN (s \o t) = 1..(Len(s) + Len(t))
  BY <1>2, <1>4
<1>6. ASSUME NEW i \in DOMAIN s PROVE s[i] \in Entries(s \o t)
  <2>1. i \in DOMAIN (s \o t) /\ (s \o t)[i] = s[i]
    BY <1>1, <1>4, <1>5, <1>6
  <2> QED
    BY <2>1 DEF Entries
<1>7. ASSUME NEW i \in DOMAIN t PROVE t[i] \in Entries(s \o t)
  <2>1. Len(s) + i \in DOMAIN (s \o t) /\ (s \o t)[Len(s) + i] = t[i]
    BY <1>1, <1>4, <1>5, <1>7
  <2> QED
    BY <2>1 DEF Entries
<1> QED
  BY <1>2, <1>3, <1>4, <1>6, <1>7 DEF S, Entries

LEMMA PairTail ==
    ASSUME NEW a, NEW b
    PROVE  Entries(Tail(<<a>> \o <<b>>)) = {b}
<1> DEFINE S == {a, b}
           s == <<a>> \o <<b>>
           t == Tail(s)
<1>1. <<a>> \in Seq(S) /\ <<b>> \in Seq(S)
  OBVIOUS
<1> HIDE DEF S
<1>2. s \in Seq(S) /\ Len(s) = 2 /\ s[2] = b
  BY <1>1
<1> HIDE DEF s
<1>3. t \in Seq(S) /\ Len(t) = 1 /\ t[1] = b
  BY <1>2, HeadTailProperties
<1> HIDE DEF t
<1>4. DOMAIN t = {1}
  BY <1>3
<1>5. Entries(t) = {b}
  BY <1>3, <1>4 DEF Entries
<1> QED
  BY <1>5 DEF t, s

LEMMA WhenEntries ==
    ASSUME NEW condition, NEW call
    PROVE  /\ IsList(When(condition, call))
           /\ Entries(When(condition, call)) = IF condition THEN {call} ELSE {}
           /\ Len(When(condition, call)) \in {0, 1}
  BY EmptyList, SingleList DEF When

(* What an attempt sends when no rule matches,                              *)
LEMMA UndoEntries ==
    /\ IsList(UndoCalls) /\ Len(UndoCalls) <= 3
    /\ Entries(UndoCalls) =
          (IF approvals # <<>> THEN {[op |-> "dismiss", review |-> Head(approvals)]} ELSE {})
            \cup (IF auto_merge = Bot THEN {[op |-> "disable"]} ELSE {})
            \cup (IF queue = Bot THEN {[op |-> "dequeue"]} ELSE {})
<1> DEFINE A == When(approvals # <<>>, [op |-> "dismiss", review |-> Head(approvals)])
           B == When(auto_merge = Bot, [op |-> "disable"])
           C == When(queue = Bot, [op |-> "dequeue"])
<1>1. /\ IsList(A) /\ Len(A) \in {0, 1}
      /\ IsList(B) /\ Len(B) \in {0, 1}
      /\ IsList(C) /\ Len(C) \in {0, 1}
  BY WhenEntries
<1>2. /\ Entries(A) = IF approvals # <<>>
                      THEN {[op |-> "dismiss", review |-> Head(approvals)]} ELSE {}
      /\ Entries(B) = IF auto_merge = Bot THEN {[op |-> "disable"]} ELSE {}
      /\ Entries(C) = IF queue = Bot THEN {[op |-> "dequeue"]} ELSE {}
  BY WhenEntries
<1>3. UndoCalls = (A \o B) \o C
  BY DEF UndoCalls
<1> HIDE DEF A, B, C
<1>4. /\ IsList(A \o B) /\ Len(A \o B) = Len(A) + Len(B)
      /\ Entries(A \o B) = Entries(A) \cup Entries(B)
  BY <1>1, ConcatEntries
<1>5. /\ IsList((A \o B) \o C) /\ Len((A \o B) \o C) = Len(A \o B) + Len(C)
      /\ Entries((A \o B) \o C) = Entries(A \o B) \cup Entries(C)
  BY <1>1, <1>4, ConcatEntries
<1>6. Len(UndoCalls) <= 3
  BY <1>1, <1>3, <1>4, <1>5
<1> QED
  BY <1>2, <1>3, <1>4, <1>5, <1>6

(* and what it sends for a rule; an approval comes first.                   *)
LEMMA MergeEntries ==
    ASSUME NEW rule
    PROVE  /\ IsList(MergeCalls(rule)) /\ Len(MergeCalls(rule)) <= 2
           /\ Entries(MergeCalls(rule)) =
                 (IF rule.autoapprove /\ approvals = <<>>
                  THEN {[op |-> "approve", head |-> head]} ELSE {})
                 \cup (IF auto_merge = NoOne /\ queue = NoOne
                       THEN {[op |-> split(rule.merge_method), head |-> head]} ELSE {})
           /\ MergeCalls(rule) # <<>> =>
                 \A c \in Entries(Tail(MergeCalls(rule))) :
                     c = [op |-> split(rule.merge_method), head |-> head]
<1> DEFINE a == [op |-> "approve", head |-> head]
           b == [op |-> split(rule.merge_method), head |-> head]
           A == When(rule.autoapprove /\ approvals = <<>>, a)
           B == When(auto_merge = NoOne /\ queue = NoOne, b)
<1>1. /\ IsList(A) /\ Len(A) \in {0, 1}
      /\ IsList(B) /\ Len(B) \in {0, 1}
  BY WhenEntries
<1>2. /\ Entries(A) = IF rule.autoapprove /\ approvals = <<>> THEN {a} ELSE {}
      /\ Entries(B) = IF auto_merge = NoOne /\ queue = NoOne THEN {b} ELSE {}
  BY WhenEntries
<1>3. MergeCalls(rule) = A \o B
  BY DEF MergeCalls
<1>a. (A = <<>> \/ A = <<a>>) /\ (B = <<>> \/ B = <<b>>)
  BY DEF When
<1> HIDE DEF A, B, a, b
<1>4. /\ IsList(A \o B) /\ Len(A \o B) = Len(A) + Len(B)
      /\ Entries(A \o B) = Entries(A) \cup Entries(B)
  BY <1>1, ConcatEntries
<1>5. Len(A \o B) <= 2
  <2>1. \A i, j \in {0, 1} : i + j <= 2
    OBVIOUS
  <2> QED
    BY <1>1, <1>4, <2>1, Zenon
<1>6. ASSUME A \o B # <<>>, NEW c \in Entries(Tail(A \o B)) PROVE c = b
  <2>1. CASE A = <<>>
    <3>1. Entries(A \o B) \subseteq {b}
      BY <1>2, <1>4, <2>1, EmptyList
    <3> QED
      BY <1>4, <1>6, <3>1, TailEntries
  <2>2. CASE A # <<>> /\ B = <<>>
    <3>1. Len(Tail(A \o B)) = 0 /\ IsList(Tail(A \o B))
      BY <1>1, <1>4, <1>6, <2>2, <1>a, TailEntries, EmptyList, SingleList
    <3>2. Entries(Tail(A \o B)) = {}
      BY <3>1, NoEntries
    <3> QED
      BY <1>6, <3>2
  <2>3. CASE A # <<>> /\ B = <<b>>
    <3>1. A = <<a>>
      BY <1>a, <2>3
    <3> QED
      BY <1>6, <2>3, <3>1, PairTail
  <2> QED
    BY <1>a, <2>1, <2>2, <2>3
<1>7. \A c \in Entries(MergeCalls(rule)) : c = a \/ c = b
  BY <1>2, <1>3, <1>4
<1> QED
  BY <1>2, <1>3, <1>4, <1>5, <1>6, <1>7 DEF a, b

-----------------------------------------------------------------------------
(* Calls that merge or start a merge.                                       *)
Merging == {"merge", "enable", "enqueue"}

(* All heads of these calls have been vetted, by whichever attempt: a list  *)
(* is made at one moment, and vetted only grows afterwards.                 *)
VettedCalls ==
    /\ head \in Nat \ {0}
    /\ vetted \subseteq Nat \ {0}
    /\ todo \in [Workers -> {todo[w] : w \in Workers}]
    /\ \A w \in Workers :
          /\ IsList(todo[w])
          /\ \A c \in Entries(todo[w]) : c.op \in Merging => c.head \in vetted

(* An attempt that merges has found a rule, and pins the head it looked at. *)
LEMMA PlanPinsHead ==
    /\ IsList(Plan)
    /\ \A c \in Entries(Plan) :
          c.op \in Merging => state = "OPEN" /\ eligible # None /\ c.head = head
<1>1. IsList(UndoCalls) /\ \A c \in Entries(UndoCalls) : c.op \notin Merging
  BY UndoEntries DEF Merging
<1>2. /\ IsList(MergeCalls(eligible))
      /\ \A c \in Entries(MergeCalls(eligible)) : c.head = head
  BY MergeEntries
<1> QED
  BY <1>1, <1>2 DEF Plan

LEMMA InitVettedCalls == Init => VettedCalls
  BY EmptyList DEF Init, VettedCalls

(* A worker takes its snapshot: what it will merge is vetted by that.       *)
LEMMA SnapshotKeeps ==
    ASSUME VettedCalls, NEW w \in Workers, TakeSnapshot(w)
    PROVE  VettedCalls'
<1>1. head' = head /\ vetted \subseteq vetted' /\ vetted' \subseteq vetted \cup {head}
  BY DEF TakeSnapshot, pull_request
<1>2. \A c \in Entries(Plan) : c.op \in Merging => c.head \in vetted'
  BY PlanPinsHead DEF TakeSnapshot
<1>3. \A u \in Workers : todo'[u] = IF u = w THEN Plan ELSE todo[u]
  BY DEF TakeSnapshot, VettedCalls
<1>4. todo' \in [Workers -> {todo'[u] : u \in Workers}]
  BY DEF TakeSnapshot, VettedCalls
<1> QED
  BY <1>1, <1>2, <1>3, <1>4, PlanPinsHead DEF VettedCalls

(* A worker goes on to its next call.                                       *)
LEMMA AnswerKeeps ==
    ASSUME VettedCalls, NEW w \in Workers, Answer(w) \/ CallFails(w)
    PROVE  VettedCalls'
<1>1. head' = head /\ vetted' = vetted
  BY DEF Answer, CallFails, GoesOn, pull_request
<1>2. todo' = [todo EXCEPT ![w] = Tail(todo[w])] /\ todo[w] # <<>>
  BY DEF Answer, CallFails, GoesOn, Idle
<1>3. \A u \in Workers : todo'[u] = IF u = w THEN Tail(todo[w]) ELSE todo[u]
  BY <1>2 DEF VettedCalls
<1>4. todo' \in [Workers -> {todo'[u] : u \in Workers}]
  BY <1>2 DEF VettedCalls
<1>5. IsList(Tail(todo[w])) /\ Entries(Tail(todo[w])) \subseteq Entries(todo[w])
  BY <1>2, TailEntries DEF VettedCalls
<1> QED
  BY <1>1, <1>3, <1>4, <1>5 DEF VettedCalls

(* What leaves the lists alone; a push moves the head on.                   *)
LEMMA OtherStepsKeep ==
    ASSUME VettedCalls,
           Outside \/ AttemptLost \/ UNCHANGED vars \/ \E w \in Workers : Apply(w)
    PROVE  VettedCalls'
<1>1. CASE Outside
  <2>1. CASE Push
    BY <2>1 DEF Push, Webhook, VettedCalls
  <2>2. CASE Edit \/ CheckRun \/ Reopen
    BY <2>2 DEF Edit, CheckRun, Reopen, Webhook, VettedCalls
  <2>3. CASE Close \/ GitHubMerges
    BY <2>3 DEF Close, GitHubMerges, Merged, Webhook, VettedCalls
  <2>4. CASE UserTurnsOn \/ TurnedOff
    BY <2>4 DEF UserTurnsOn, TurnedOff, Webhook, VettedCalls
  <2> QED
    BY <1>1, <2>1, <2>2, <2>3, <2>4 DEF Outside
<1>2. CASE AttemptLost \/ UNCHANGED vars
  BY <1>2 DEF AttemptLost, vars, history, pull_request, VettedCalls
<1>3. ASSUME NEW w \in Workers, Apply(w) PROVE VettedCalls'
  <2>1. head' = head /\ vetted' = vetted /\ todo' = todo
    BY <1>3 DEF Apply, Effect, Merged
  <2> QED
    BY <2>1 DEF VettedCalls
<1> QED
  BY <1>1, <1>2, <1>3

(* The inductive invariant holds in every reachable state.                  *)
THEOREM CallsAreVetted == Spec => []VettedCalls
<1>1. VettedCalls /\ [Next]_vars => VettedCalls'
  BY SnapshotKeeps, AnswerKeeps, OtherStepsKeep DEF Next, Attempt, Command
<1> QED
  BY InitVettedCalls, <1>1, PTL DEF Spec

(* Whoever pushes while however many attempts are under way: the bot merges,*)
(* queues or turns on auto-merge only at heads on which a rule was found,   *)
(* because every such call carries the head of its snapshot.                *)
THEOREM MergesAreVetted == Spec => MergesVettedHead
<1> DEFINE Acts(w) ==
        /\ Apply(w)
        /\ \/ state' # state
           \/ auto_merge' # auto_merge /\ auto_merge' = Bot
           \/ queue' # queue /\ queue' = Bot
<1>1. ASSUME VettedCalls, NEW w \in Workers, Acts(w)
      PROVE  head \in vetted
  <2> DEFINE call == todo[w][1]
  <2>1. call.op \in Merging
    BY <1>1 DEF Apply, Effect, Merged, Merging, Bot, NoOne
  <2>2. call \in Entries(todo[w])
    <3>1. todo[w] # <<>> /\ IsList(todo[w])
      BY <1>1 DEF Apply, Idle, VettedCalls
    <3> QED
      BY <3>1, TailEntries
  <2>3. call.head \in vetted
    BY <1>1, <2>1, <2>2 DEF VettedCalls
  <2>4. call.head \in {head, Unpinned}
    BY <1>1, <2>1 DEF Apply, Accepts, Merging
  <2> QED
    BY <1>1, <2>3, <2>4 DEF VettedCalls, Unpinned
<1>2. VettedCalls => [\A w \in Workers : Acts(w) => head \in vetted]_vars
  BY <1>1
<1> QED
  BY CallsAreVetted, <1>2, PTL DEF MergesVettedHead

-----------------------------------------------------------------------------
(* The rules of a configuration name one of the merge methods.              *)
LEMMA SplitMerges ==
    ASSUME NEW rule \in Rules
    PROVE  split(rule.merge_method) \in Merging
<1>1. rule.merge_method \in MergeMethods
  BY AutomergeAssumption
<1> QED
  BY <1>1 DEF MergeMethods, split, Merging

LEMMA RemoveAtShortens ==
    ASSUME NEW S, NEW s \in Seq(S), NEW i \in DOMAIN s
    PROVE  RemoveAt(s, i) \in Seq(S) /\ Len(RemoveAt(s, i)) = Len(s) - 1
<1> DEFINE a == SubSeq(s, 1, i - 1)
           b == SubSeq(s, i + 1, Len(s))
<1>1. i \in 1..Len(s) /\ Len(s) \in Nat /\ \A j \in 1..Len(s) : s[j] \in S
  OBVIOUS
<1>2. a \in Seq(S) /\ Len(a) = i - 1
  BY <1>1, SubSeqProperties
<1>3. b \in Seq(S) /\ Len(b) = Len(s) - i
  BY <1>1, SubSeqProperties
<1> HIDE DEF a, b
<1>4. a \o b \in Seq(S) /\ Len(a \o b) = Len(a) + Len(b)
  BY <1>2, <1>3, ConcatProperties
<1>5. Len(a \o b) = Len(s) - 1
  BY <1>1, <1>2, <1>3, <1>4
<1> QED
  BY <1>4, <1>5 DEF RemoveAt, a, b

(* There are more numbers to choose from than reviews that are there or     *)
(* awaited, so GitHub finds a fresh one.                                    *)
LEMMA FreshReviewIsNumber ==
    ASSUME approvals \in Seq(Nat \ {0})
    PROVE  FreshReview \in Nat \ {0}
<1> DEFINE dismissing == {v \in Workers : ~Idle(v) /\ todo[v][1].op = "dismiss"}
           awaited == {todo[w][1].review : w \in dismissing}
           n == Len(approvals)
           m == Cardinality(Workers)
<1>1. IsFiniteSet(Workers) /\ m \in Nat /\ n \in Nat
  BY AutomergeAssumption, FS_CardinalityType
<1>2. IsFiniteSet(ToSet(approvals)) /\ Cardinality(ToSet(approvals)) <= n
  <2> HIDE DEF n
  <2>a. 1 \in Int /\ n \in Int
    BY <1>1
  <2>b. /\ IsFiniteSet(1..n)
        /\ Cardinality(1..n) = IF 1 > n THEN 0 ELSE n - 1 + 1
    BY <2>a, FS_Interval
  <2>1. IsFiniteSet(1..n) /\ Cardinality(1..n) = n
    BY <1>1, <2>b
  <2>2. approvals \in Surjection(1..n, ToSet(approvals))
    BY DEF Surjection, ToSet, n
  <2> QED
    BY <2>1, <2>2, FS_Surjection
<1>3. IsFiniteSet(awaited) /\ Cardinality(awaited) <= m
  <2> DEFINE f == [w \in dismissing |-> todo[w][1].review]
  <2>1. IsFiniteSet(dismissing) /\ Cardinality(dismissing) <= m
    BY <1>1, FS_Subset
  <2>2. f \in Surjection(dismissing, awaited)
    BY DEF Surjection
  <2>3. IsFiniteSet(awaited) /\ Cardinality(awaited) <= Cardinality(dismissing)
    BY <2>1, <2>2, FS_Surjection
  <2>4. Cardinality(awaited) \in Nat /\ Cardinality(dismissing) \in Nat
    BY <2>1, <2>3, FS_CardinalityType
  <2> HIDE DEF dismissing, awaited, m
  <2> QED
    BY <1>1, <2>1, <2>3, <2>4
<1> HIDE DEF dismissing, awaited, m, n
<1> DEFINE taken == ToSet(approvals) \cup awaited
           numbers == 1..(n + m + 1)
<1>4. IsFiniteSet(taken) /\ Cardinality(taken) <= n + m
  <2>1. /\ IsFiniteSet(taken)
        /\ Cardinality(taken) = Cardinality(ToSet(approvals)) + Cardinality(awaited)
                                  - Cardinality(ToSet(approvals) \cap awaited)
    BY <1>2, <1>3, FS_Union
  <2>2. IsFiniteSet(ToSet(approvals) \cap awaited)
    BY <1>2, FS_Intersection
  <2>3. /\ Cardinality(ToSet(approvals)) \in Nat /\ Cardinality(awaited) \in Nat
        /\ Cardinality(ToSet(approvals) \cap awaited) \in Nat
    BY <1>2, <1>3, <2>2, FS_CardinalityType
  <2> HIDE DEF taken
  <2> QED
    BY <1>1, <1>2, <1>3, <2>1, <2>3
<1>5. IsFiniteSet(numbers) /\ Cardinality(numbers) = n + m + 1
  BY <1>1, FS_Interval
<1>6. Cardinality(taken) \in Nat
  BY <1>4, FS_CardinalityType
<1>7. \E r \in numbers : r \notin taken
  <2>1. SUFFICES ASSUME numbers \subseteq taken PROVE FALSE
    BY Zenon
  <2>2. Cardinality(numbers) <= Cardinality(taken)
    BY <1>4, <2>1, FS_Subset
  <2> HIDE DEF numbers, taken
  <2> QED
    BY <1>1, <1>4, <1>5, <1>6, <2>2
<1>8. FreshReview = CHOOSE r \in numbers : r \notin taken
  BY DEF FreshReview, n, m, awaited, dismissing
<1>9. FreshReview \in numbers
  BY <1>7, <1>8
<1> QED
  BY <1>1, <1>9

(* What every call that is still to be made looks like.                     *)
CallsOK(s) ==
    /\ Len(s) <= 3
    /\ \A c \in Entries(s) :
          /\ c.op \in Ops
          /\ c.op = "dismiss" => c.review \in Nat \ {0}

LEMMA PlanOK ==
    ASSUME TypeOK
    PROVE  CallsOK(Plan)
<1>1. CASE state = "OPEN" /\ eligible # None
  <2>1. eligible \in Rules
    BY <1>1 DEF TypeOK
  <2>2. split(eligible.merge_method) \in Merging
    BY <2>1, SplitMerges
  <2>3. \A c \in Entries(MergeCalls(eligible)) : c.op \in Ops /\ c.op # "dismiss"
    BY <2>2, MergeEntries DEF Merging, Ops
  <2>4. Len(MergeCalls(eligible)) <= 3
    <3>1. Len(MergeCalls(eligible)) \in Nat /\ Len(MergeCalls(eligible)) <= 2
      BY MergeEntries DEF IsList
    <3> QED
      BY <3>1
  <2> QED
    BY <1>1, <2>3, <2>4 DEF Plan, CallsOK
<1>2. CASE ~(state = "OPEN" /\ eligible # None)
  <2>1. approvals # <<>> => Head(approvals) \in Nat \ {0}
    BY DEF TypeOK
  <2>2. \A c \in Entries(UndoCalls) :
           c.op \in Ops /\ (c.op = "dismiss" => c.review \in Nat \ {0})
    BY <2>1, UndoEntries DEF Ops
  <2> QED
    BY <1>2, <2>2, UndoEntries DEF Plan, CallsOK
<1> QED
  BY <1>1, <1>2

(* Initially every variable has its type.                                   *)
LEMMA InitTypeOK == Init => TypeOK
<1> SUFFICES ASSUME Init PROVE TypeOK
  OBVIOUS
<1>1. /\ approvals = <<>> /\ approvals \in Seq(Nat \ {0})
      /\ \A w \in Workers : todo[w] = <<>> /\ DOMAIN todo[w] = {} /\ Len(todo[w]) = 0
      /\ done \in [Workers -> 0..Attempts]
      /\ head \in 1..MaxHead
  BY AutomergeAssumption DEF Init
<1>2. \A w \in Workers :
        /\ Len(todo[w]) <= 3
        /\ \A i \in DOMAIN todo[w] :
              /\ todo[w][i].op \in Ops
              /\ todo[w][i].op = "dismiss" => todo[w][i].review \in Nat \ {0}
  BY <1>1
<1>3. /\ state = "OPEN" /\ eligible \in Rules \cup {None}
      /\ auto_merge \in Owners /\ queue \in Owners
      /\ due = TRUE /\ disturbed = FALSE /\ vetted = {}
      /\ outdated = {} /\ seen = 0
  BY DEF Init, Owners
<1> QED
  BY <1>1, <1>2, <1>3 DEF TypeOK

(* Types, as far as a call that GitHub carries out changes them.            *)
LEMMA EffectTypes ==
    ASSUME TypeOK, NEW call, Effect(call)
    PROVE  /\ state' \in {"OPEN", "CLOSED", "MERGED"}
           /\ auto_merge' \in Owners /\ queue' \in Owners
           /\ approvals' \in Seq(Nat \ {0})
           /\ head' = head /\ eligible' = eligible
<1>1. approvals' \in Seq(Nat \ {0})
  <2>1. FreshReview \in Nat \ {0}
    BY FreshReviewIsNumber DEF TypeOK
  <2>2. Append(approvals, FreshReview) \in Seq(Nat \ {0})
    BY <2>1, AppendProperties DEF TypeOK
  <2>3. \A i \in DOMAIN approvals : RemoveAt(approvals, i) \in Seq(Nat \ {0})
    BY RemoveAtShortens DEF TypeOK
  <2> QED
    BY <2>2, <2>3 DEF Effect, Merged, TypeOK
<1>2. /\ state' \in {"OPEN", "CLOSED", "MERGED"}
      /\ auto_merge' \in Owners /\ queue' \in Owners
      /\ head' = head /\ eligible' = eligible
  BY DEF Effect, Merged, TypeOK, Owners
<1> QED
  BY <1>1, <1>2

(* The lists of calls keep their type.                                      *)
LEMMA NextCallsOK ==
    ASSUME TypeOK, VettedCalls, [Next]_vars, NEW w \in Workers
    PROVE  CallsOK(todo'[w])
<1>1. CallsOK(todo[w])
  BY DEF TypeOK, CallsOK, Entries
<1>2. ASSUME NEW u \in Workers, TakeSnapshot(u) PROVE CallsOK(todo'[w])
  <2>1. todo'[w] = IF w = u THEN Plan ELSE todo[w]
    BY <1>2 DEF TakeSnapshot, VettedCalls
  <2> QED
    BY <1>1, <2>1, PlanOK
<1>3. ASSUME NEW u \in Workers, Answer(u) \/ CallFails(u) PROVE CallsOK(todo'[w])
  <2>1. todo[u] # <<>> /\ todo'[w] = IF w = u THEN Tail(todo[u]) ELSE todo[w]
    BY <1>3 DEF Answer, CallFails, GoesOn, Idle, VettedCalls
  <2>2. CASE w = u
    <3> DEFINE s == todo[w]
    <3>1. IsList(s) /\ s # <<>>
      BY <2>1, <2>2 DEF VettedCalls
    <3> HIDE DEF s
    <3>2. /\ Entries(Tail(s)) \subseteq Entries(s)
          /\ Len(Tail(s)) = Len(s) - 1 /\ Len(s) \in Nat
      BY <3>1, TailEntries
    <3>3. CallsOK(s) => CallsOK(Tail(s))
      BY <3>2 DEF CallsOK
    <3> QED
      BY <1>1, <2>1, <2>2, <3>3 DEF s
  <2> QED
    BY <1>1, <2>1, <2>2
<1>4. ASSUME UNCHANGED todo PROVE CallsOK(todo'[w])
  BY <1>1, <1>4
<1> QED
  BY <1>2, <1>3, <1>4
  DEF Next, Outside, Push, Edit, CheckRun, Reopen, Webhook, process_pr_event, debounced_update_automerge,
      Close, GitHubMerges, UserTurnsOn,
      TurnedOff, AttemptLost, Attempt, Command, Apply, vars, history

(* Every variable keeps its type.                                           *)
LEMMA NextTypeOK ==
    ASSUME TypeOK, VettedCalls, [Next]_vars
    PROVE  TypeOK'
<1> DEFINE PullRequestOK ==
      /\ state \in {"OPEN", "CLOSED", "MERGED"}
      /\ head \in 1..MaxHead
      /\ eligible \in Rules \cup {None}
      /\ auto_merge \in Owners /\ queue \in Owners
      /\ approvals \in Seq(Nat \ {0})
    HistoryOK ==
      /\ due \in BOOLEAN
      /\ outdated \subseteq Workers /\ disturbed \in BOOLEAN /\ seen \in Nat
      /\ done \in [Workers -> 0..Attempts]
      /\ vetted \subseteq 1..MaxHead
<1>a. PullRequestOK /\ HistoryOK /\ MaxHead \in Nat /\ Attempts \in Nat
  BY AutomergeAssumption DEF TypeOK
<1>1. PullRequestOK'
  <2> USE <1>a
  <2>1. CASE Push
    <3>1. head' \in 1..MaxHead
      BY <2>1 DEF Push
    <3>2. <<>> \in Seq(Nat \ {0})
      BY EmptySeq
    <3>3. approvals' \in Seq(Nat \ {0})
      BY <2>1, <3>2 DEF Push
    <3> QED
      BY <2>1, <3>1, <3>3 DEF Push, Owners
  <2>2. CASE Edit \/ CheckRun \/ Reopen
    BY <2>2 DEF Edit, CheckRun, Reopen
  <2>3. CASE Close \/ GitHubMerges
    BY <2>3 DEF Close, GitHubMerges, Merged, Owners
  <2>4. CASE UserTurnsOn \/ TurnedOff
    BY <2>4 DEF UserTurnsOn, TurnedOff, Owners
  <2>5. ASSUME NEW w \in Workers, Apply(w) PROVE PullRequestOK'
    BY <2>5, EffectTypes DEF Apply
  <2>6. ASSUME UNCHANGED pull_request PROVE PullRequestOK'
    BY <2>6 DEF pull_request
  <2> QED
    BY <2>1, <2>2, <2>3, <2>4, <2>5, <2>6
    DEF Next, Outside, AttemptLost, Attempt, Command, TakeSnapshot, Answer, CallFails, GoesOn, vars
<1>2. HistoryOK'
  <2> USE <1>a
  <2>1. CASE Outside
    BY <2>1 DEF Outside, Push, Edit, CheckRun, Reopen, Webhook, process_pr_event, debounced_update_automerge,
      Close, GitHubMerges, UserTurnsOn, TurnedOff
  <2>2. ASSUME NEW w \in Workers, Attempt(w) \/ Command(w) PROVE HistoryOK'
    <3>1. /\ done' = [done EXCEPT ![w] = 0] /\ due' \in BOOLEAN
          /\ vetted' \subseteq vetted \cup {head} /\ outdated' = outdated
          /\ disturbed' = (outdated # {}) /\ seen' = Len(approvals)
      BY <2>2 DEF Attempt, Command, TakeSnapshot
    <3> QED
      BY <3>1
  <2>3. ASSUME NEW w \in Workers, Apply(w) PROVE HistoryOK'
    <3>1. /\ done' = [done EXCEPT ![w] = done[w] + 1] /\ done[w] < Attempts
          /\ vetted' = vetted /\ seen' = seen /\ disturbed' = disturbed
      BY <2>3 DEF Apply
    <3>2. due' \in BOOLEAN /\ outdated' \subseteq Workers
      BY <2>3 DEF Apply, process_pr_event, debounced_update_automerge
    <3>3. done' \in [Workers -> 0..Attempts]
      BY <3>1
    <3> QED
      BY <3>1, <3>2, <3>3
  <2>4. ASSUME NEW w \in Workers, Answer(w) \/ CallFails(w) PROVE HistoryOK'
    <3>1. /\ done' = [done EXCEPT ![w] = 0] /\ due' = due
          /\ vetted' = vetted /\ seen' = seen
          /\ outdated' \subseteq outdated /\ disturbed' \in BOOLEAN
      BY <2>4 DEF Answer, CallFails, GoesOn
    <3> QED
      BY <3>1
  <2>5. CASE AttemptLost \/ UNCHANGED vars
    BY <2>5 DEF AttemptLost, vars, history
  <2> QED
    BY <2>1, <2>2, <2>3, <2>4, <2>5 DEF Next
<1>3. \A w \in Workers : CallsOK(todo'[w])
  BY NextCallsOK
<1> HIDE DEF PullRequestOK, HistoryOK
<1>4. TypeOK' <=> PullRequestOK' /\ HistoryOK' /\ \A w \in Workers : CallsOK(todo'[w])
  BY DEF TypeOK, PullRequestOK, HistoryOK, CallsOK, Entries
<1> QED
  BY <1>1, <1>2, <1>3, <1>4

(* For every number of workers and however often calls are carried out,     *)
(* every variable keeps its type and an attempt makes at most three calls.  *)
THEOREM TypeCorrect == Spec => []TypeOK
  BY InitTypeOK, NextTypeOK, CallsAreVetted, PTL DEF Spec

-----------------------------------------------------------------------------
(* How often calls under way can still approve, as a set of pairs: the      *)
(* worker, and one of the times its call may be carried out.                *)
Budget ==
    {b \in Workers \X (1..Attempts) :
        /\ todo[b[1]] # <<>>
        /\ todo[b[1]][1].op = "approve"
        /\ done[b[1]] < b[2]}

(* An attempt approves first, if at all; what was carried out was a call.   *)
ApprovesFirst ==
    \A w \in Workers :
        /\ todo[w] # <<>> => \A c \in Entries(Tail(todo[w])) : c.op # "approve"
        /\ todo[w] = <<>> => done[w] = 0

(* The approvals that are there and those that can still come. A worker     *)
(* starts to approve only while there is none, and each approval uses up    *)
(* one of the times its call may be carried out.                            *)
WithinBudget ==
    Len(approvals) + Cardinality(Budget) <= Attempts * Cardinality(Workers)

LEMMA PairsSize ==
    ASSUME NEW S \in SUBSET (Workers \X (1..Attempts))
    PROVE  /\ IsFiniteSet(S) /\ Cardinality(S) \in Nat
           /\ Cardinality(S) <= Attempts * Cardinality(Workers)
           /\ Cardinality(Workers) \in Nat /\ Attempts \in Nat \ {0}
<1> DEFINE m == Cardinality(Workers)
<1>1. IsFiniteSet(Workers) /\ m \in Nat /\ Attempts \in Nat \ {0}
  BY AutomergeAssumption, FS_CardinalityType
<1> HIDE DEF m
<1>2. IsFiniteSet(1..Attempts) /\ Cardinality(1..Attempts) = Attempts
  <2>1. /\ IsFiniteSet(1..Attempts)
        /\ Cardinality(1..Attempts) = IF 1 > Attempts THEN 0 ELSE Attempts - 1 + 1
    BY <1>1, FS_Interval
  <2> QED
    BY <1>1, <2>1
<1>3. /\ IsFiniteSet(Workers \X (1..Attempts))
      /\ Cardinality(Workers \X (1..Attempts)) = m * Attempts
  BY <1>1, <1>2, FS_Product DEF m
<1>4. IsFiniteSet(S) /\ Cardinality(S) <= m * Attempts
  BY <1>3, FS_Subset
<1>5. Cardinality(S) \in Nat
  BY <1>4, FS_CardinalityType
<1>6. m * Attempts = Attempts * m
  BY <1>1
<1> QED
  BY <1>1, <1>4, <1>5, <1>6 DEF m

LEMMA BudgetSize ==
    /\ IsFiniteSet(Budget) /\ Cardinality(Budget) \in Nat
    /\ Cardinality(Budget) <= Attempts * Cardinality(Workers)
    /\ Cardinality(Workers) \in Nat /\ Attempts \in Nat \ {0}
<1>1. Budget \in SUBSET (Workers \X (1..Attempts))
  BY DEF Budget
<1> QED
  BY <1>1, PairsSize

(* With the calls that may approve, the budget does not grow.               *)
LEMMA SmallerBudget ==
    ASSUME Budget' \subseteq Budget
    PROVE  Cardinality(Budget') \in Nat /\ Cardinality(Budget') <= Cardinality(Budget)
<1>1. IsFiniteSet(Budget') /\ Cardinality(Budget') <= Cardinality(Budget)
  BY BudgetSize, FS_Subset
<1> QED
  BY <1>1, FS_CardinalityType

LEMMA InitBudget == Init => ApprovesFirst /\ WithinBudget
<1> SUFFICES ASSUME Init PROVE ApprovesFirst /\ WithinBudget
  OBVIOUS
<1>1. \A w \in Workers : todo[w] = <<>> /\ done[w] = 0
  BY DEF Init
<1>2. Budget = {}
  BY <1>1 DEF Budget
<1>3. Len(approvals) = 0 /\ Cardinality(Budget) = 0
  BY <1>2, FS_EmptySet DEF Init
<1> QED
  BY <1>1, <1>2, <1>3, BudgetSize DEF ApprovesFirst, WithinBudget

(* Lists are made with the approval in front and are used up from there.    *)
LEMMA NextApprovesFirst ==
    ASSUME TypeOK, VettedCalls, ApprovesFirst, [Next]_vars
    PROVE  ApprovesFirst'
<1>1. ASSUME NEW u \in Workers, TakeSnapshot(u) PROVE ApprovesFirst'
  <2>1. \A w \in Workers : /\ todo'[w] = IF w = u THEN Plan ELSE todo[w]
                           /\ done'[w] = IF w = u THEN 0 ELSE done[w]
    BY <1>1 DEF TakeSnapshot, VettedCalls, TypeOK
  <2>2. ASSUME Plan # <<>>, NEW c \in Entries(Tail(Plan)) PROVE c.op # "approve"
    <3>1. CASE state = "OPEN" /\ eligible # None
      <4>1. split(eligible.merge_method) \in Merging
        BY <3>1, SplitMerges DEF TypeOK
      <4>2. c = [op |-> split(eligible.merge_method), head |-> head]
        BY <2>2, <3>1, MergeEntries DEF Plan
      <4> QED
        BY <4>1, <4>2 DEF Merging
    <3>2. CASE ~(state = "OPEN" /\ eligible # None)
      <4>1. Plan = UndoCalls
        BY <3>2 DEF Plan
      <4>2. c \in Entries(UndoCalls)
        BY <2>2, <4>1, UndoEntries, TailEntries
      <4> QED
        BY <4>2, UndoEntries
    <3> QED
      BY <3>1, <3>2
  <2> QED
    BY <2>1, <2>2 DEF ApprovesFirst
<1>2. ASSUME NEW u \in Workers, Answer(u) \/ CallFails(u) PROVE ApprovesFirst'
  <2>1. /\ todo[u] # <<>>
        /\ \A w \in Workers : /\ todo'[w] = IF w = u THEN Tail(todo[u]) ELSE todo[w]
                              /\ done'[w] = IF w = u THEN 0 ELSE done[w]
    BY <1>2 DEF Answer, CallFails, GoesOn, Idle, VettedCalls, TypeOK
  <2>2. ASSUME Tail(todo[u]) # <<>>, NEW c \in Entries(Tail(Tail(todo[u])))
        PROVE  c.op # "approve"
    <3>1. IsList(todo[u])
      BY DEF VettedCalls
    <3>2. IsList(Tail(todo[u]))
      BY <2>1, <3>1, TailEntries
    <3>3. c \in Entries(Tail(todo[u]))
      BY <2>2, <3>2, TailEntries
    <3> QED
      BY <2>1, <3>3 DEF ApprovesFirst
  <2> QED
    BY <2>1, <2>2 DEF ApprovesFirst
<1>3. ASSUME NEW u \in Workers, Apply(u) PROVE ApprovesFirst'
  <2>1. todo' = todo /\ todo[u] # <<>> /\ \A w \in Workers : w # u => done'[w] = done[w]
    BY <1>3 DEF Apply, Idle, TypeOK
  <2> QED
    BY <2>1 DEF ApprovesFirst
<1>4. ASSUME UNCHANGED <<todo, done>> PROVE ApprovesFirst'
  BY <1>4 DEF ApprovesFirst
<1> QED
  BY <1>1, <1>2, <1>3, <1>4
  DEF Next, Outside, Push, Edit, CheckRun, Reopen, Webhook, process_pr_event, debounced_update_automerge,
      Close, GitHubMerges, UserTurnsOn,
      TurnedOff, AttemptLost, Attempt, Command, vars, history

LEMMA ApprovalsComeFirst == Spec => []ApprovesFirst
  BY InitBudget, NextApprovesFirst, TypeCorrect, CallsAreVetted, PTL DEF Spec

(* A snapshot: either there is no approval yet, or nothing new may approve. *)
LEMMA SnapshotWithinBudget ==
    ASSUME TypeOK, VettedCalls, WithinBudget, NEW w \in Workers, TakeSnapshot(w)
    PROVE  WithinBudget'
<1>1. /\ approvals' = approvals
      /\ \A u \in Workers : /\ todo'[u] = IF u = w THEN Plan ELSE todo[u]
                            /\ done'[u] = IF u = w THEN 0 ELSE done[u]
  BY DEF TakeSnapshot, pull_request, VettedCalls, TypeOK
<1>2. CASE approvals = <<>>
  <2>1. Len(approvals') = 0
    BY <1>1, <1>2
  <2>2. Budget' \in SUBSET (Workers \X (1..Attempts))
    BY DEF Budget
  <2>3. /\ Cardinality(Budget') \in Nat
        /\ Cardinality(Budget') <= Attempts * Cardinality(Workers)
    BY <2>2, PairsSize
  <2> QED
    BY <2>1, <2>3 DEF WithinBudget
<1>3. CASE approvals # <<>>
  <2>1. \A c \in Entries(Plan) : c.op # "approve"
    <3>1. CASE state = "OPEN" /\ eligible # None
      <4>1. split(eligible.merge_method) \in Merging
        BY <3>1, SplitMerges DEF TypeOK
      <4> QED
        BY <1>3, <3>1, <4>1, MergeEntries DEF Plan, Merging
    <3>2. CASE ~(state = "OPEN" /\ eligible # None)
      BY <3>2, UndoEntries DEF Plan
    <3> QED
      BY <3>1, <3>2
  <2>2. Plan # <<>> => Plan[1].op # "approve"
    BY <2>1, PlanPinsHead, TailEntries
  <2>3. Budget' \subseteq Budget
    BY <1>1, <2>2 DEF Budget
  <2>4. Len(approvals') = Len(approvals) /\ Len(approvals) \in Nat
    BY <1>1 DEF TypeOK
  <2> QED
    BY <2>3, <2>4, SmallerBudget, BudgetSize DEF WithinBudget
<1> QED
  BY <1>2, <1>3

(* A call is carried out: an approval is paid for out of the budget.        *)
LEMMA ApplyWithinBudget ==
    ASSUME TypeOK, WithinBudget, NEW w \in Workers, Apply(w)
    PROVE  WithinBudget'
<1> DEFINE once == <<w, done[w] + 1>>
<1>1. /\ todo' = todo /\ todo[w] # <<>> /\ done[w] < Attempts
      /\ \A u \in Workers : done'[u] = IF u = w THEN done[w] + 1 ELSE done[u]
      /\ \A u \in Workers : done[u] \in Nat
      /\ Attempts \in Nat
  BY AutomergeAssumption DEF Apply, Idle, TypeOK
<1>2. Budget' \subseteq Budget
  BY <1>1 DEF Budget
<1>3. Len(approvals) \in Nat
  BY DEF TypeOK
<1>4. CASE todo[w][1].op = "approve"
  <2>1. Len(approvals') = Len(approvals) + 1
    BY <1>1, <1>4 DEF Apply, Effect, TypeOK
  <2>2. once \in Budget /\ once \notin Budget'
    BY <1>1, <1>4 DEF Budget
  <2>3. Budget' \subseteq Budget \ {once}
    BY <1>2, <2>2
  <2>4. /\ IsFiniteSet(Budget \ {once})
        /\ Cardinality(Budget \ {once}) = Cardinality(Budget) - 1
    BY <2>2, BudgetSize, FS_RemoveElement
  <2>5. Cardinality(Budget') <= Cardinality(Budget) - 1
    BY <2>3, <2>4, FS_Subset
  <2>6. Cardinality(Budget') \in Nat
    BY <1>2, SmallerBudget
  <2> QED
    BY <1>3, <2>1, <2>5, <2>6, BudgetSize DEF WithinBudget
<1>5. CASE todo[w][1].op # "approve"
  <2>1. approvals' = approvals \/ \E i \in DOMAIN approvals : approvals' = RemoveAt(approvals, i)
    BY <1>5 DEF Apply, Effect, Merged
  <2>2. Len(approvals') \in Nat /\ Len(approvals') <= Len(approvals)
    <3>1. \A i \in DOMAIN approvals : Len(RemoveAt(approvals, i)) = Len(approvals) - 1
      BY RemoveAtShortens DEF TypeOK
    <3>2. \A i \in DOMAIN approvals : Len(approvals) > 0
      BY DEF TypeOK
    <3> QED
      BY <1>3, <2>1, <3>1, <3>2
  <2> QED
    BY <1>2, <1>3, <2>2, SmallerBudget, BudgetSize DEF WithinBudget
<1> QED
  BY <1>4, <1>5

LEMMA NextWithinBudget ==
    ASSUME TypeOK, VettedCalls, ApprovesFirst, WithinBudget, [Next]_vars
    PROVE  WithinBudget'
<1>1. Len(approvals) \in Nat
  BY DEF TypeOK
<1>2. ASSUME NEW w \in Workers, Answer(w) \/ CallFails(w) PROVE WithinBudget'
  <2>1. /\ todo[w] # <<>> /\ approvals' = approvals
        /\ \A u \in Workers : /\ todo'[u] = IF u = w THEN Tail(todo[w]) ELSE todo[u]
                              /\ done'[u] = IF u = w THEN 0 ELSE done[u]
    BY <1>2 DEF Answer, CallFails, GoesOn, Idle, pull_request, VettedCalls, TypeOK
  <2>2. Tail(todo[w]) # <<>> => Tail(todo[w])[1].op # "approve"
    BY <2>1, TailEntries DEF VettedCalls, ApprovesFirst
  <2>3. Budget' \subseteq Budget
    BY <2>1, <2>2 DEF Budget
  <2> QED
    BY <1>1, <2>1, <2>3, SmallerBudget, BudgetSize DEF WithinBudget
<1>3. ASSUME UNCHANGED <<todo, done>>, approvals' \in {approvals, <<>>} PROVE WithinBudget'
  <2>1. Budget' = Budget
    BY <1>3 DEF Budget
  <2>2. Len(approvals') \in Nat /\ Len(approvals') <= Len(approvals)
    BY <1>1, <1>3
  <2> QED
    BY <1>1, <2>1, <2>2, BudgetSize DEF WithinBudget
<1> QED
  BY <1>2, <1>3, SnapshotWithinBudget, ApplyWithinBudget
  DEF Next, Outside, Push, Edit, CheckRun, Reopen, Webhook, process_pr_event, debounced_update_automerge,
      Close, GitHubMerges, Merged, UserTurnsOn,
      TurnedOff, AttemptLost, Attempt, Command, vars, history, pull_request

(* The approvals of one pull request do not pile up, however many attempts  *)
(* overlap and whatever is carried out more than once.                      *)
THEOREM ApprovalsAreBounded == Spec => []ApprovalBound
<1>1. TypeOK /\ WithinBudget => ApprovalBound
  <2> SUFFICES ASSUME TypeOK, WithinBudget PROVE ApprovalBound
    OBVIOUS
  <2>1. Len(approvals) \in Nat
    BY DEF TypeOK
  <2>2. Attempts * Cardinality(Workers) \in Nat
    BY BudgetSize
  <2> QED
    BY <2>1, <2>2, BudgetSize DEF WithinBudget, ApprovalBound
<1>2. TypeOK /\ VettedCalls /\ ApprovesFirst /\ WithinBudget /\ [Next]_vars => WithinBudget'
  BY NextWithinBudget
<1> QED
  BY <1>1, <1>2, InitBudget, TypeCorrect, CallsAreVetted, ApprovalsComeFirst, PTL DEF Spec

-----------------------------------------------------------------------------
(* What a worker still has to bring about: of its calls, the one under way  *)
(* no longer counts once GitHub has carried it out.                         *)
Left(w) == IF done[w] = 0 THEN Entries(todo[w]) ELSE Entries(Tail(todo[w]))
LeftCalls == UNION {Left(w) : w \in Workers}

(* How a step of a worker changes what is left: a new plan,                 *)
LEMMA SnapshotLeft ==
    ASSUME VettedCalls, TypeOK, NEW w \in Workers, TakeSnapshot(w)
    PROVE  /\ Entries(todo'[w]) = Entries(Plan) /\ Left(w)' = Entries(Plan)
           /\ UNCHANGED <<pull_request, outdated>>
           /\ seen' = Len(approvals) /\ disturbed' = (outdated # {})
  BY DEF VettedCalls, TypeOK, TakeSnapshot, Left

(* one call less that GitHub has yet to carry out; the app does not act on  *)
(* the webhook of a change it made itself,                                  *)
LEMMA ApplyLeft ==
    ASSUME VettedCalls, TypeOK, NEW w \in Workers, Apply(w)
    PROVE  /\ todo' = todo
           /\ todo[w][1] \in Entries(todo[w])
           /\ Left(w)' = Entries(Tail(todo[w]))
           /\ Left(w) \subseteq {todo[w][1]} \cup Left(w)'
           /\ UNCHANGED <<due, disturbed, outdated, seen>>
<1>1. todo' = todo /\ done'[w] = done[w] + 1 /\ done[w] \in Nat /\ todo[w] # <<>>
  BY AutomergeAssumption DEF Apply, Idle, TypeOK
<1>2. /\ todo[w][1] \in Entries(todo[w])
      /\ Entries(todo[w]) = {todo[w][1]} \cup Entries(Tail(todo[w]))
  BY <1>1, TailEntries DEF VettedCalls
<1>3. done'[w] # 0
  BY <1>1
<1>4. Left(w)' = Entries(Tail(todo[w]))
  BY <1>1, <1>3 DEF Left
<1>5. Announced(todo[w][1]) \notin Handled
  <2>1. CallsOK(todo[w])
    BY DEF TypeOK, CallsOK, Entries
  <2>2. todo[w][1].op \in Ops
    BY <1>2, <2>1 DEF CallsOK
  <2> QED
    BY <2>2 DEF Ops, Announced, Handled
<1>6. UNCHANGED <<due, disturbed, outdated, seen>>
  BY <1>5 DEF Apply, process_pr_event
<1> QED
  BY <1>1, <1>2, <1>4, <1>6 DEF Left

(* or the next call; the one before is left out only if GitHub refused it.  *)
LEMMA AnswerLeft ==
    ASSUME VettedCalls, TypeOK, NEW w \in Workers, Answer(w)
    PROVE  /\ todo[w][1] \in Entries(todo[w])
           /\ \/ Left(w)' = Left(w)
              \/ /\ done[w] = 0 /\ ~Accepts(todo[w][1])
                 /\ Left(w) \subseteq {todo[w][1]} \cup Left(w)'
           /\ UNCHANGED <<pull_request, due, disturbed, seen>>
<1>1. /\ todo'[w] = Tail(todo[w]) /\ done'[w] = 0 /\ todo[w] # <<>>
      /\ done[w] \in Nat /\ (done[w] > 0 \/ ~Accepts(todo[w][1]))
      /\ UNCHANGED <<pull_request, due, disturbed, seen>>
  BY AutomergeAssumption DEF Answer, GoesOn, Idle, VettedCalls, TypeOK
<1>2. /\ todo[w][1] \in Entries(todo[w])
      /\ Entries(todo[w]) = {todo[w][1]} \cup Entries(Tail(todo[w]))
  BY <1>1, TailEntries DEF VettedCalls
<1>3. Left(w)' = Entries(Tail(todo[w]))
  BY <1>1 DEF Left
<1>4. CASE done[w] > 0
  BY <1>1, <1>2, <1>3, <1>4 DEF Left
<1>5. CASE ~(done[w] > 0)
  BY <1>1, <1>2, <1>3, <1>5 DEF Left
<1> QED
  BY <1>4, <1>5

(* A call that fails is not made again.                                     *)
LEMMA FailureLeft ==
    ASSUME VettedCalls, TypeOK, NEW w \in Workers, CallFails(w)
    PROVE  /\ todo[w][1] \in Entries(todo[w])
           /\ Left(w) \subseteq {todo[w][1]} \cup Left(w)'
<1>1. todo'[w] = Tail(todo[w]) /\ done'[w] = 0 /\ todo[w] # <<>>
  BY DEF CallFails, GoesOn, Idle, VettedCalls, TypeOK
<1>2. /\ todo[w][1] \in Entries(todo[w])
      /\ Entries(todo[w]) = {todo[w][1]} \cup Entries(Tail(todo[w]))
  BY <1>1, TailEntries DEF VettedCalls
<1>3. Left(w)' = Entries(Tail(todo[w]))
  BY <1>1 DEF Left
<1> QED
  BY <1>2, <1>3 DEF Left

(* The other workers keep what they have left,                              *)
LEMMA OthersLeft ==
    ASSUME VettedCalls, TypeOK, NEW w \in Workers, NEW u \in Workers, u # w,
           TakeSnapshot(w) \/ Apply(w) \/ GoesOn(w)
    PROVE  todo'[u] = todo[u] /\ Left(u)' = Left(u)
<1>1. todo'[u] = todo[u] /\ done'[u] = done[u]
  BY DEF TakeSnapshot, Apply, GoesOn, VettedCalls, TypeOK
<1> QED
  BY <1>1 DEF Left

(* so that the same can be said of what all of them have left together.     *)
LEMMA SnapshotLeftCalls ==
    ASSUME VettedCalls, TypeOK, NEW w \in Workers, TakeSnapshot(w)
    PROVE  Entries(Plan) \subseteq LeftCalls'
  BY SnapshotLeft DEF LeftCalls

LEMMA ApplyLeftCalls ==
    ASSUME VettedCalls, TypeOK, NEW w \in Workers, Apply(w)
    PROVE  LeftCalls \subseteq {todo[w][1]} \cup LeftCalls'
<1>1. \A u \in Workers : Left(u) \subseteq {todo[w][1]} \cup Left(u)'
  BY ApplyLeft, OthersLeft
<1> QED
  BY <1>1 DEF LeftCalls

LEMMA AnswerLeftCalls ==
    ASSUME VettedCalls, TypeOK, NEW w \in Workers, Answer(w)
    PROVE  \/ LeftCalls \subseteq LeftCalls'
           \/ ~Accepts(todo[w][1]) /\ LeftCalls \subseteq {todo[w][1]} \cup LeftCalls'
<1>1. \A u \in Workers : u # w => Left(u)' = Left(u)
  BY OthersLeft DEF Answer
<1> QED
  BY <1>1, AnswerLeft DEF LeftCalls

-----------------------------------------------------------------------------
(* An open pull request that a rule matches is to be merged, at the head    *)
(* that was looked at; from another one the bot takes back what it did.     *)
Fits(c) ==
    IF eligible # None THEN c.op \in Merging \cup {"approve"} /\ c.head = head
    ELSE c.op \in {"dismiss", "disable", "dequeue"}

(* The calls of a worker that knows of the last event fit the pull request  *)
(* as that event left it, ...                                               *)
Current ==
    state = "OPEN" =>
        \A w \in Workers \ outdated : \A c \in Entries(todo[w]) : Fits(c)

(* ... and when the last event had its attempt, and none of those before it *)
(* was then still under way, all of them do.                                *)
NoneOutdated == ~due /\ ~disturbed => outdated = {}

LEMMA PlanFits ==
    ASSUME TypeOK, state = "OPEN"
    PROVE  \A c \in Entries(Plan) : Fits(c)
<1>1. CASE eligible # None
  <2>1. Plan = MergeCalls(eligible) /\ split(eligible.merge_method) \in Merging
    BY <1>1, SplitMerges DEF Plan, TypeOK
  <2> DEFINE a == [op |-> "approve", head |-> head]
             b == [op |-> split(eligible.merge_method), head |-> head]
  <2>2. /\ a.op = "approve" /\ a.head = head
        /\ b.op \in Merging /\ b.head = head
    BY <2>1
  <2>3. Entries(Plan) =
           (IF eligible.autoapprove /\ approvals = <<>> THEN {a} ELSE {})
             \cup (IF auto_merge = NoOne /\ queue = NoOne THEN {b} ELSE {})
    BY <2>1, MergeEntries
  <2> HIDE DEF a, b
  <2> QED
    BY <1>1, <2>2, <2>3 DEF Fits
<1>2. CASE eligible = None
  <2>1. Plan = UndoCalls
    BY <1>2 DEF Plan
  <2>2. \A c \in Entries(UndoCalls) : c.op \in {"dismiss", "disable", "dequeue"}
    BY UndoEntries
  <2> QED
    BY <1>2, <2>1, <2>2 DEF Fits
<1> QED
  BY <1>1, <1>2

LEMMA NextCurrent ==
    ASSUME TypeOK, VettedCalls, Current, [Next]_vars
    PROVE  Current'
<1>1. ASSUME NEW w \in Workers, TakeSnapshot(w) PROVE Current'
  <2>1. UNCHANGED <<pull_request, outdated>> /\ Entries(todo'[w]) = Entries(Plan)
    BY <1>1, SnapshotLeft
  <2>2. \A u \in Workers : u # w => todo'[u] = todo[u]
    BY <1>1, OthersLeft
  <2>3. state = "OPEN" => \A c \in Entries(todo'[w]) : Fits(c)
    BY <2>1, PlanFits
  <2> QED
    BY <2>1, <2>2, <2>3 DEF Current, Fits, pull_request
<1>2. ASSUME NEW w \in Workers, Apply(w) PROVE Current'
  <2>1. todo' = todo /\ outdated' = outdated
    BY <1>2, ApplyLeft
  <2>2. /\ eligible' = eligible /\ head' = head
        /\ state' = "OPEN" => state = "OPEN"
    BY <1>2 DEF Apply, Effect, Merged
  <2> QED
    BY <2>1, <2>2 DEF Current, Fits
<1>3. ASSUME NEW w \in Workers, GoesOn(w) PROVE Current'
  <2>1. /\ todo[w] # <<>> /\ todo'[w] = Tail(todo[w])
        /\ UNCHANGED pull_request
        /\ outdated' = IF Len(todo[w]) = 1 THEN outdated \ {w} ELSE outdated
    BY <1>3 DEF GoesOn, Idle, VettedCalls
  <2>2. \A u \in Workers : u # w => todo'[u] = todo[u]
    BY <1>3, OthersLeft
  <2>3. /\ Entries(Tail(todo[w])) \subseteq Entries(todo[w])
        /\ Len(todo[w]) = 1 => Entries(Tail(todo[w])) = {}
    <3>1. /\ IsList(Tail(todo[w])) /\ Len(Tail(todo[w])) = Len(todo[w]) - 1
          /\ Entries(Tail(todo[w])) \subseteq Entries(todo[w])
      BY <2>1, TailEntries DEF VettedCalls
    <3>2. Len(todo[w]) = 1 => Len(Tail(todo[w])) = 0
      BY <3>1
    <3> QED
      BY <3>1, <3>2, NoEntries
  <2> QED
    BY <2>1, <2>2, <2>3 DEF Current, Fits, pull_request
<1>4. ASSUME todo' = todo, debounced_update_automerge PROVE Current'
  <2>1. \A u \in Workers \ outdated' : Entries(todo'[u]) = {}
    BY <1>4, EmptyList DEF debounced_update_automerge, Idle
  <2> QED
    BY <2>1 DEF Current
<1>5. CASE Push \/ Edit \/ CheckRun \/ Reopen
  BY <1>4, <1>5 DEF Push, Edit, CheckRun, Reopen, Webhook, process_pr_event, Handled
<1>6. CASE Close \/ GitHubMerges
  BY <1>6 DEF Close, GitHubMerges, Merged, Current
<1>7. CASE UserTurnsOn \/ TurnedOff
  <2>1. UNCHANGED <<state, head, eligible, todo, outdated>>
    BY <1>7 DEF UserTurnsOn, TurnedOff, Webhook, process_pr_event, Handled
  <2> QED
    BY <2>1 DEF Current, Fits
<1>8. CASE AttemptLost \/ UNCHANGED vars
  BY <1>8 DEF AttemptLost, vars, history, pull_request, Current, Fits
<1> QED
  BY <1>1, <1>2, <1>3, <1>5, <1>6, <1>7, <1>8
  DEF Next, Outside, Attempt, Command, Answer, CallFails

LEMMA NextNoneOutdated ==
    ASSUME TypeOK, VettedCalls, NoneOutdated, [Next]_vars
    PROVE  NoneOutdated'
<1>1. ASSUME NEW w \in Workers, TakeSnapshot(w) PROVE NoneOutdated'
  BY <1>1 DEF TakeSnapshot, NoneOutdated
<1>2. ASSUME NEW w \in Workers, Apply(w) PROVE NoneOutdated'
  BY <1>2, ApplyLeft DEF NoneOutdated
<1>3. ASSUME NEW w \in Workers, Answer(w) \/ CallFails(w) PROVE NoneOutdated'
  BY <1>3 DEF Answer, CallFails, GoesOn, NoneOutdated
<1>4. CASE Push \/ Edit \/ CheckRun \/ Reopen
  BY <1>4 DEF Push, Edit, CheckRun, Reopen, Webhook, process_pr_event, Handled,
              debounced_update_automerge, NoneOutdated
<1>5. CASE Close \/ GitHubMerges \/ UserTurnsOn \/ TurnedOff
  BY <1>5 DEF Close, GitHubMerges, UserTurnsOn, TurnedOff, Webhook, process_pr_event,
              Handled, NoneOutdated
<1>6. CASE AttemptLost \/ UNCHANGED vars
  BY <1>6 DEF AttemptLost, vars, history, NoneOutdated
<1> QED
  BY <1>1, <1>2, <1>3, <1>4, <1>5, <1>6 DEF Next, Outside, Attempt, Command

LEMMA WorkersAreCurrent == Spec => [](Current /\ NoneOutdated)
<1>1. Init => Current /\ NoneOutdated
  BY EmptyList DEF Init, Current, NoneOutdated
<1>2. TypeOK /\ VettedCalls /\ Current /\ NoneOutdated /\ [Next]_vars
      => Current' /\ NoneOutdated'
  BY NextCurrent, NextNoneOutdated
<1> QED
  BY <1>1, <1>2, TypeCorrect, CallsAreVetted, PTL DEF Spec

-----------------------------------------------------------------------------
(* While the last word on an open pull request is that a rule matches it,   *)
(* what is not there yet is among the calls left to make.                   *)
Serving ==
    ~due /\ ~disturbed /\ state = "OPEN" /\ eligible # None =>
        /\ \/ auto_merge # NoOne \/ queue # NoOne
           \/ \E c \in LeftCalls : c.op \in Merging
        /\ eligible.autoapprove =>
              approvals # <<>> \/ \E c \in LeftCalls : c.op = "approve"

(* While it is that no rule matches, what is not gone yet is, except for    *)
(* further approvals that calls carried out twice left behind.              *)
Undoing ==
    ~due /\ ~disturbed /\ state = "OPEN" /\ eligible = None =>
        /\ auto_merge = Bot => \E c \in LeftCalls : c.op = "disable"
        /\ queue = Bot => \E c \in LeftCalls : c.op = "dequeue"
        /\ Len(approvals) <= seen
        /\ \/ approvals = <<>>
           \/ Len(approvals) < seen
           \/ \E c \in LeftCalls : c.op = "dismiss" /\ c.review = approvals[1]

LEMMA NextServing ==
    ASSUME TypeOK, VettedCalls, Current, NoneOutdated, Serving, [Next]_vars
    PROVE  Serving'
<1>1. ASSUME NEW w \in Workers, TakeSnapshot(w) PROVE Serving'
  <2> SUFFICES ASSUME state = "OPEN", eligible # None PROVE Serving'
    BY <1>1 DEF Serving, TakeSnapshot, pull_request
  <2>1. Plan = MergeCalls(eligible) /\ split(eligible.merge_method) \in Merging
    BY SplitMerges DEF Plan, TypeOK
  <2>2. Entries(MergeCalls(eligible)) \subseteq LeftCalls' /\ UNCHANGED pull_request
    BY <1>1, <2>1, SnapshotLeftCalls, SnapshotLeft
  <2>3. /\ \/ auto_merge # NoOne \/ queue # NoOne
           \/ \E c \in Entries(MergeCalls(eligible)) : c.op \in Merging
        /\ eligible.autoapprove =>
              \/ approvals # <<>>
              \/ \E c \in Entries(MergeCalls(eligible)) : c.op = "approve"
    <3> DEFINE a == [op |-> "approve", head |-> head]
               b == [op |-> split(eligible.merge_method), head |-> head]
    <3>1. a.op = "approve" /\ b.op \in Merging
      BY <2>1
    <3>2. Entries(MergeCalls(eligible)) =
             (IF eligible.autoapprove /\ approvals = <<>> THEN {a} ELSE {})
               \cup (IF auto_merge = NoOne /\ queue = NoOne THEN {b} ELSE {})
      BY MergeEntries
    <3> HIDE DEF a, b
    <3> QED
      BY <3>1, <3>2
  <2> QED
    BY <2>2, <2>3 DEF Serving, pull_request
<1>2. ASSUME NEW w \in Workers, Apply(w) PROVE Serving'
  <2> DEFINE call == todo[w][1]
  <2>a. UNCHANGED <<due, disturbed>> /\ call \in Entries(todo[w])
    BY <1>2, ApplyLeft
  <2> SUFFICES ASSUME ~due, ~disturbed, state' = "OPEN", eligible' # None
               PROVE  Serving'
    BY <2>a DEF Serving
  <2>1. state = "OPEN" /\ eligible' = eligible /\ Effect(call)
    BY <1>2 DEF Apply, Effect, Merged
  <2>2. LeftCalls \subseteq {call} \cup LeftCalls'
    BY <1>2, ApplyLeftCalls
  <2>3. call.op \in Merging \cup {"approve"}
    BY <2>a, <2>1 DEF Current, NoneOutdated, Fits
  <2>4. CASE call.op = "approve"
    <3>1. /\ approvals' = Append(approvals, FreshReview)
          /\ UNCHANGED <<auto_merge, queue>>
      BY <2>1, <2>4 DEF Effect
    <3>2. approvals' # <<>>
      BY <3>1, AppendProperties DEF TypeOK
    <3>3. \A c \in LeftCalls : c.op \in Merging => c \in LeftCalls'
      BY <2>2, <2>4 DEF Merging
    <3> QED
      BY <2>1, <3>1, <3>2, <3>3 DEF Serving
  <2>5. CASE call.op \in Merging
    <3>1. UNCHANGED approvals /\ (auto_merge' # NoOne \/ queue' # NoOne)
      BY <2>1, <2>5 DEF Effect, Merged, Merging, Bot, NoOne
    <3>2. \A c \in LeftCalls : c.op = "approve" => c \in LeftCalls'
      BY <2>2, <2>5 DEF Merging
    <3> QED
      BY <2>1, <3>1, <3>2 DEF Serving
  <2> QED
    BY <2>3, <2>4, <2>5
<1>3. ASSUME NEW w \in Workers, Answer(w) PROVE Serving'
  <2> DEFINE call == todo[w][1]
  <2>1. UNCHANGED <<pull_request, due, disturbed>> /\ call \in Entries(todo[w])
    BY <1>3, AnswerLeft
  <2> SUFFICES ASSUME ~due, ~disturbed, state = "OPEN", eligible # None
               PROVE  Serving'
    BY <2>1 DEF Serving, pull_request
  <2>2. CASE LeftCalls \subseteq LeftCalls'
    BY <2>1, <2>2 DEF Serving, pull_request
  <2>3. CASE ~Accepts(call) /\ LeftCalls \subseteq {call} \cup LeftCalls'
    <3>1. call.op \in Merging \cup {"approve"} /\ call.head = head
      BY <2>1 DEF Current, NoneOutdated, Fits
    <3>2. call.op \in Merging /\ (auto_merge # NoOne \/ queue # NoOne)
      BY <2>3, <3>1 DEF Accepts, Merging
    <3>3. \A c \in LeftCalls : c.op = "approve" => c \in LeftCalls'
      BY <2>3, <3>2 DEF Merging
    <3> QED
      BY <2>1, <3>2, <3>3 DEF Serving, pull_request
  <2> QED
    BY <1>3, <2>2, <2>3, AnswerLeftCalls
<1>4. ASSUME disturbed' \/ due' PROVE Serving'
  BY <1>4 DEF Serving
<1>5. ASSUME NEW w \in Workers, CallFails(w) PROVE disturbed'
  BY <1>5 DEF CallFails
<1>6. CASE AttemptLost \/ TurnedOff
  BY <1>4, <1>6 DEF AttemptLost, TurnedOff
<1>7. CASE Push \/ Edit \/ CheckRun \/ Reopen
  BY <1>4, <1>7 DEF Push, Edit, CheckRun, Reopen, Webhook, process_pr_event, Handled,
                    debounced_update_automerge
<1>8. CASE Close \/ GitHubMerges
  BY <1>8 DEF Close, GitHubMerges, Merged, Serving
<1>9. ASSUME UNCHANGED <<todo, done>> PROVE LeftCalls' = LeftCalls
  BY <1>9 DEF LeftCalls, Left
<1>10. CASE UserTurnsOn
  <2>1. /\ UNCHANGED <<state, eligible, approvals, due, disturbed, todo, done>>
        /\ auto_merge # NoOne \/ queue # NoOne => auto_merge' # NoOne \/ queue' # NoOne
    BY <1>10 DEF UserTurnsOn, Webhook, process_pr_event, Handled, User, NoOne
  <2> QED
    BY <1>9, <2>1 DEF Serving
<1>11. CASE UNCHANGED vars
  BY <1>9, <1>11 DEF vars, history, pull_request, Serving
<1> QED
  BY <1>1, <1>2, <1>3, <1>4, <1>5, <1>6, <1>7, <1>8, <1>10, <1>11
  DEF Next, Outside, Attempt, Command

(* When every worker is idle no call is left.                               *)
LEMMA NothingLeftAtRest ==
    ASSUME ApprovesFirst, Settled
    PROVE  LeftCalls = {}
<1>1. \A w \in Workers : Left(w) = {}
  BY EmptyList DEF ApprovesFirst, Settled, Idle, Left
<1> QED
  BY <1>1 DEF LeftCalls

(* However many attempts overlap and however often calls are carried out:   *)
(* once the bot rests, an open pull request that a rule matches is on its   *)
(* way to be merged, and approved if the rule says so.                      *)
THEOREM EligibleIsServed == Spec => []ServedWhenEligible
<1>1. Init => Serving
  BY DEF Init, Serving
<1>2. TypeOK /\ VettedCalls /\ Current /\ NoneOutdated /\ Serving /\ [Next]_vars => Serving'
  BY NextServing
<1>3. ApprovesFirst /\ Serving => ServedWhenEligible
  BY NothingLeftAtRest DEF Serving, ServedWhenEligible, Settled
<1> QED
  BY <1>1, <1>2, <1>3, TypeCorrect, CallsAreVetted, ApprovalsComeFirst, WorkersAreCurrent,
     PTL DEF Spec

-----------------------------------------------------------------------------
LEMMA NextUndoing ==
    ASSUME TypeOK, VettedCalls, Current, NoneOutdated, Undoing, [Next]_vars
    PROVE  Undoing'
<1>a. Len(approvals) \in Nat /\ seen \in Nat
  BY DEF TypeOK
<1>1. ASSUME NEW w \in Workers, TakeSnapshot(w) PROVE Undoing'
  <2> SUFFICES ASSUME state = "OPEN", eligible = None PROVE Undoing'
    BY <1>1 DEF Undoing, TakeSnapshot, pull_request
  <2>1. /\ Entries(UndoCalls) \subseteq LeftCalls'
        /\ UNCHANGED pull_request /\ seen' = Len(approvals)
    BY <1>1, SnapshotLeft, SnapshotLeftCalls DEF Plan
  <2>2. approvals # <<>> => Head(approvals) = approvals[1]
    BY DEF TypeOK
  <2>3. /\ auto_merge = Bot => \E c \in Entries(UndoCalls) : c.op = "disable"
        /\ queue = Bot => \E c \in Entries(UndoCalls) : c.op = "dequeue"
        /\ approvals # <<>> =>
              \E c \in Entries(UndoCalls) : c.op = "dismiss" /\ c.review = approvals[1]
    <3> DEFINE a == [op |-> "dismiss", review |-> Head(approvals)]
               b == [op |-> "disable"]
               d == [op |-> "dequeue"]
    <3>1. /\ a.op = "dismiss" /\ a.review = Head(approvals)
          /\ b.op = "disable" /\ d.op = "dequeue"
      OBVIOUS
    <3>2. Entries(UndoCalls) =
             (IF approvals # <<>> THEN {a} ELSE {})
               \cup (IF auto_merge = Bot THEN {b} ELSE {})
               \cup (IF queue = Bot THEN {d} ELSE {})
      BY UndoEntries
    <3> HIDE DEF a, b, d
    <3> QED
      BY <2>2, <3>1, <3>2
  <2>4. UNCHANGED <<auto_merge, queue, approvals>> /\ Len(approvals') <= seen'
    BY <1>a, <2>1 DEF pull_request
  <2>5. /\ auto_merge = Bot => \E c \in LeftCalls' : c.op = "disable"
        /\ queue = Bot => \E c \in LeftCalls' : c.op = "dequeue"
        /\ approvals # <<>> =>
              \E c \in LeftCalls' : c.op = "dismiss" /\ c.review = approvals[1]
    BY <2>1, <2>3, Zenon
  <2> QED
    BY <2>4, <2>5 DEF Undoing
<1>2. ASSUME NEW w \in Workers, Apply(w) PROVE Undoing'
  <2> DEFINE call == todo[w][1]
  <2>a. UNCHANGED <<due, disturbed, seen>> /\ call \in Entries(todo[w])
    BY <1>2, ApplyLeft
  <2> SUFFICES ASSUME ~due, ~disturbed, state' = "OPEN", eligible' = None
               PROVE  Undoing'
    BY <2>a DEF Undoing
  <2>1. state = "OPEN" /\ eligible = None /\ Effect(call)
    BY <1>2 DEF Apply, Effect, Merged
  <2>2. LeftCalls \subseteq {call} \cup LeftCalls'
    BY <1>2, ApplyLeftCalls
  <2>3. call.op \in {"dismiss", "disable", "dequeue"}
    BY <2>a, <2>1 DEF Current, NoneOutdated, Fits
  <2>4. CASE call.op = "dismiss"
    <3>1. UNCHANGED <<auto_merge, queue>>
      BY <2>1, <2>4 DEF Effect
    <3>2. \E i \in DOMAIN approvals : approvals' = RemoveAt(approvals, i)
      BY <2>1, <2>4 DEF Effect
    <3>3. Len(approvals') < seen' /\ Len(approvals') <= seen'
      <4>1. approvals' \in Seq(Nat \ {0}) /\ Len(approvals') = Len(approvals) - 1
        BY <3>2, RemoveAtShortens DEF TypeOK
      <4>2. Len(approvals) <= seen
        BY <2>1 DEF Undoing
      <4> QED
        BY <1>a, <2>a, <4>1, <4>2
    <3>4. \A c \in LeftCalls : c.op # "dismiss" => c \in LeftCalls'
      BY <2>2, <2>4
    <3> QED
      BY <2>1, <3>1, <3>3, <3>4 DEF Undoing
  <2>5. CASE call.op = "disable"
    <3>1. UNCHANGED <<queue, approvals, seen>> /\ auto_merge' # Bot
      BY <2>a, <2>1, <2>5 DEF Effect, Bot, NoOne
    <3>2. \A c \in LeftCalls : c.op # "disable" => c \in LeftCalls'
      BY <2>2, <2>5
    <3> QED
      BY <2>1, <3>1, <3>2 DEF Undoing
  <2>6. CASE call.op = "dequeue"
    <3>1. UNCHANGED <<auto_merge, approvals, seen>> /\ queue' # Bot
      BY <2>a, <2>1, <2>6 DEF Effect, Bot, NoOne
    <3>2. \A c \in LeftCalls : c.op # "dequeue" => c \in LeftCalls'
      BY <2>2, <2>6
    <3> QED
      BY <2>1, <3>1, <3>2 DEF Undoing
  <2> QED
    BY <2>3, <2>4, <2>5, <2>6
<1>3. ASSUME NEW w \in Workers, Answer(w) PROVE Undoing'
  <2> DEFINE call == todo[w][1]
  <2>1. UNCHANGED <<pull_request, due, disturbed, seen>> /\ call \in Entries(todo[w])
    BY <1>3, AnswerLeft
  <2> SUFFICES ASSUME ~due, ~disturbed, state = "OPEN", eligible = None
               PROVE  Undoing'
    BY <2>1 DEF Undoing, pull_request
  <2>2. CASE LeftCalls \subseteq LeftCalls'
    BY <2>1, <2>2 DEF Undoing, pull_request
  <2>3. CASE ~Accepts(call) /\ LeftCalls \subseteq {call} \cup LeftCalls'
    <3>1. call.op \in {"dismiss", "disable", "dequeue"}
      BY <2>1 DEF Current, NoneOutdated, Fits
    <3>2. /\ call.op = "disable" => auto_merge # Bot
          /\ call.op = "dequeue" => queue # Bot
          /\ call.op = "dismiss" => call.review \notin ToSet(approvals)
      BY <2>3 DEF Accepts, Bot, NoOne
    <3>3. approvals # <<>> => approvals[1] \in ToSet(approvals)
      BY DEF TypeOK, ToSet
    <3> QED
      BY <2>1, <2>3, <3>1, <3>2, <3>3 DEF Undoing, pull_request
  <2> QED
    BY <1>3, <2>2, <2>3, AnswerLeftCalls
<1>4. ASSUME disturbed' \/ due' PROVE Undoing'
  BY <1>4 DEF Undoing
<1>5. ASSUME NEW w \in Workers, CallFails(w) PROVE disturbed'
  BY <1>5 DEF CallFails
<1>6. CASE AttemptLost \/ TurnedOff
  BY <1>4, <1>6 DEF AttemptLost, TurnedOff
<1>7. CASE Push \/ Edit \/ CheckRun \/ Reopen
  BY <1>4, <1>7 DEF Push, Edit, CheckRun, Reopen, Webhook, process_pr_event, Handled,
                    debounced_update_automerge
<1>8. CASE Close \/ GitHubMerges
  BY <1>8 DEF Close, GitHubMerges, Merged, Undoing
<1>9. ASSUME UNCHANGED <<todo, done>> PROVE LeftCalls' = LeftCalls
  BY <1>9 DEF LeftCalls, Left
<1>10. CASE UserTurnsOn
  <2>1. /\ UNCHANGED <<state, eligible, approvals, due, disturbed, seen, todo, done>>
        /\ auto_merge' = Bot => auto_merge = Bot
        /\ queue' = Bot => queue = Bot
    BY <1>10 DEF UserTurnsOn, Webhook, process_pr_event, Handled, User, Bot
  <2> QED
    BY <1>9, <2>1 DEF Undoing
<1>11. CASE UNCHANGED vars
  BY <1>9, <1>11 DEF vars, history, pull_request, Undoing
<1> QED
  BY <1>1, <1>2, <1>3, <1>4, <1>5, <1>6, <1>7, <1>8, <1>10, <1>11
  DEF Next, Outside, Attempt, Command

(* However many attempts overlap and however often calls are carried out:   *)
(* once the bot rests, an open pull request that no rule matches is not     *)
(* merged by what the bot did, and has lost one of the approvals the latest *)
(* snapshot showed, if there were any.                                      *)
THEOREM IneligibleIsWithdrawn == Spec => []WithdrawnWhenIneligible
<1>1. Init => Undoing
  BY DEF Init, Undoing
<1>2. TypeOK /\ VettedCalls /\ Current /\ NoneOutdated /\ Undoing /\ [Next]_vars => Undoing'
  BY NextUndoing
<1>3. ApprovesFirst /\ Undoing => WithdrawnWhenIneligible
  BY NothingLeftAtRest DEF Undoing, WithdrawnWhenIneligible, Settled
<1> QED
  BY <1>1, <1>2, <1>3, TypeCorrect, CallsAreVetted, ApprovalsComeFirst, WorkersAreCurrent,
     PTL DEF Spec

=============================================================================
