--------------------------- MODULE LifecycleProofs ---------------------------
(***************************************************************************)
(* Proofs about Lifecycle for any number of instances and any set of       *)
(* configurations: type correctness, the mode of a socket that is served   *)
(* on, that a race of starts has a winner, and that an instance's own old  *)
(* files are never in its way.                                             *)
(***************************************************************************)
EXTENDS Lifecycle, TLAPS

LEMMA NobodyIsNone == None \notin Instances
  BY LifecycleAssumption

(* A configuration with targets is neither of the two without a set.        *)
LEMMA Configured ==
    /\ NoTable # {"unix"} /\ Broken # {"unix"}
    /\ \A c \in Configs : c \notin {NoTable, Broken} => c \subseteq Targets
<1>1. {"unix"} \in SUBSET Targets
  BY DEF Targets
<1>2. NoTable # {"unix"} /\ Broken # {"unix"}
  BY <1>1, LifecycleAssumption
<1>3. \A c \in Configs : c \notin {NoTable, Broken} => c \subseteq Targets
  BY LifecycleAssumption
<1> QED
  BY <1>2, <1>3

LEMMA TypesAre ==
    FileTypes = {"socket", "regular", "block", "directory", "character", "fifo", "unresolvable"}
  BY DEF FileTypes, TypeBits

(* A process that does not run has no tasks, and what names an instance     *)
(* names one that runs and has got that far.                                *)
Alive ==
    /\ \A i \in Instances \ running : tcp[i] = "none" /\ unix[i] = "none"
    /\ port # None => tcp[port] = "serving"
    /\ path.owner # None => unix[path.owner] \in {"bound", "serving"}

(* Once somebody has bound the socket, the path never leads to a socket     *)
(* that nobody is behind: it is one's who goes on to serve, or it is free   *)
(* and somebody is about to bind there.                                     *)
Contested ==
    /\ ~stopped => signalled = {}
    /\ config = {"unix"} => \A i \in Instances : tcp[i] = "none"
    /\ config = {"unix"} /\ ~stopped /\ (\E i \in Instances : unix[i] \in {"bound", "serving"})
          => \/ path.owner # None
             \/ path = NoFile /\ \E k \in Instances : unix[k] = "cleared"

(* What an instance that runs alone has found and done is still so.         *)
Undisturbed ==
    \A i \in alone :
        /\ running = {i}
        /\ tcp[i] # "failed"
        /\ unix[i] \in {"found", "bound"} => path # NoFile
        /\ unix[i] = "cleared" => path = NoFile
        /\ unix[i] = "failed" => path.type \notin {"nothing", "socket"}

(* The inductive invariant.                                                 *)
IInv == TypeOK /\ Alive /\ ServedWithMode /\ Contested /\ Undisturbed

LEMMA InitIInv == Init => IInv
<1> SUFFICES ASSUME Init PROVE IInv
  OBVIOUS
<1> USE NobodyIsNone DEF Init, File, NoFile
<1>1. TypeOK
  <2>1. path \in {NoFile} \cup
               [type : FileTypes, owner : Instances \cup {None},
                mode : {None, "umask", unix_mode}]
    OBVIOUS
  <2> QED
    BY <2>1 DEF TypeOK
<1>2. path.owner = None
  OBVIOUS
<1>3. Alive /\ ServedWithMode /\ Contested /\ Undisturbed
  BY <1>2 DEF Alive, ServedWithMode, Reachable, Contested, Undisturbed
<1> QED
  BY <1>1, <1>3 DEF IInv

(* A path that is not free has a type.                                      *)
LEMMA PresentHasType ==
    ASSUME TypeOK
    PROVE  /\ path.owner \in Instances \cup {None}
           /\ path # NoFile => path.type \in FileTypes /\ path.type # "nothing"
           /\ path = NoFile => path.type = "nothing" /\ path.owner = None
  BY TypesAre DEF TypeOK, NoFile, File

LEMMA StartKeeps ==
    ASSUME IInv, NEW i \in Instances, Start(i)
    PROVE  IInv'
<1> USE NobodyIsNone DEF IInv, Start, network, checks
<1>1. unix[i] = "none" /\ tcp[i] = "none"
  BY DEF Alive
<1>2. TypeOK'
  BY DEF TypeOK
<1>3. Alive'
  BY <1>1, PresentHasType DEF TypeOK, Alive
<1>4. ServedWithMode'
  BY <1>1, PresentHasType DEF TypeOK, ServedWithMode, Reachable, Alive
<1>5. Contested'
  <2>1. config = {"unix"} => tcp' = [tcp EXCEPT ![i] = "none"]
    BY Configured DEF get
  <2> QED
    BY <1>1, <2>1 DEF TypeOK, Contested, NoFile
<1>6. Undisturbed'
  BY DEF TypeOK, Undisturbed, NoFile
<1> QED
  BY <1>2, <1>3, <1>4, <1>5, <1>6

LEMMA ListenTcpKeeps ==
    ASSUME IInv, NEW i \in Instances, ListenTcp(i)
    PROVE  IInv'
<1> USE NobodyIsNone DEF IInv, ListenTcp, checks, history
<1>1. TypeOK'
  BY DEF TypeOK
<1>2. Alive'
  BY DEF TypeOK, Alive
<1>3. ServedWithMode'
  BY DEF ServedWithMode, Reachable
<1>4. Contested'
  BY DEF TypeOK, Contested, NoFile
<1>5. Undisturbed'
  BY DEF TypeOK, Undisturbed, Alive, NoFile
<1> QED
  BY <1>1, <1>2, <1>3, <1>4, <1>5

LEMMA StatKeeps ==
    ASSUME IInv, NEW i \in Instances, Stat(i)
    PROVE  IInv'
<1> DEFINE Refused == Unresolvable(path) \/ NonSocket(path)
<1> USE NobodyIsNone DEF IInv, Stat, Unix, checks, history
<1>1. unix'[i] \in {"found", "cleared", "failed"}
  BY DEF TypeOK
<1> HIDE DEF Refused
<1>2. TypeOK'
  BY <1>1 DEF TypeOK
<1>3. Alive'
  BY <1>1 DEF TypeOK, Alive
<1>4. ServedWithMode'
  BY <1>1, PresentHasType DEF TypeOK, ServedWithMode, Reachable
<1>5. Contested'
  BY <1>1 DEF TypeOK, Contested, NoFile
<1>6. /\ unix'[i] = "found" => path # NoFile
      /\ unix'[i] = "cleared" => path = NoFile
      /\ unix'[i] = "failed" => path # NoFile /\ Refused
  BY DEF TypeOK, Present, Refused
<1>7. path # NoFile /\ Refused => path.type \notin {"nothing", "socket"}
  BY PresentHasType DEF Refused, Unresolvable, NonSocket, TypeBits
<1>8. Undisturbed'
  BY <1>1, <1>6, <1>7 DEF TypeOK, Undisturbed, NoFile
<1> QED
  BY <1>2, <1>3, <1>4, <1>5, <1>8

LEMMA ClearKeeps ==
    ASSUME IInv, NEW i \in Instances, Clear(i)
    PROVE  IInv'
<1> USE NobodyIsNone DEF IInv, Clear, Unix, checks, history, Present
<1>1. unix'[i] \in {"cleared", "failed"} /\ unix[i] = "found"
  BY DEF TypeOK
<1>2. TypeOK'
  BY <1>1 DEF TypeOK
<1>3. path' = path \/ path'.owner = None
  BY DEF NoFile, File
<1>4. Alive'
  BY <1>1, <1>3, PresentHasType DEF TypeOK, Alive
<1>5. ServedWithMode'
  BY <1>1, <1>3, PresentHasType DEF TypeOK, ServedWithMode, Reachable
<1>6. Contested'
  BY <1>1 DEF TypeOK, Contested, NoFile
<1>7. Undisturbed'
  <2>1. i \in running
    BY <1>1 DEF Alive
  <2> QED
    BY <1>1, <2>1, PresentHasType DEF TypeOK, Undisturbed, NoFile
<1> QED
  BY <1>2, <1>4, <1>5, <1>6, <1>7

LEMMA BindKeeps ==
    ASSUME IInv, NEW i \in Instances, Bind(i)
    PROVE  IInv'
<1> USE NobodyIsNone DEF IInv, Bind, Unix, checks, history, Present
<1>1. CASE path = NoFile
  <2>1. /\ unix[i] = "cleared" /\ unix' = [unix EXCEPT ![i] = "bound"]
        /\ path'.owner = i /\ path'.type = "socket" /\ path' # NoFile
    BY <1>1 DEF File, NoFile
  <2>2. TypeOK'
    BY <1>1 DEF TypeOK, File, FileTypes, TypeBits
  <2>3. Alive'
    BY <1>1, <2>1 DEF TypeOK, Alive
  <2>4. ServedWithMode'
    BY <2>1 DEF TypeOK, ServedWithMode, Reachable
  <2>5. Contested'
    BY <1>1, <2>1 DEF TypeOK, Contested
  <2>6. Undisturbed'
    BY <1>1, <2>1 DEF TypeOK, Undisturbed, Alive
  <2> QED
    BY <2>2, <2>3, <2>4, <2>5, <2>6
<1>2. CASE path # NoFile
  <2>1. unix[i] = "cleared" /\ unix' = [unix EXCEPT ![i] = "failed"] /\ path' = path
    BY <1>2
  <2>2. TypeOK' /\ Alive'
    BY <1>2, <2>1 DEF TypeOK, Alive
  <2>3. ServedWithMode'
    BY <2>1, PresentHasType DEF TypeOK, ServedWithMode, Reachable
  <2>4. Contested'
    BY <1>2, <2>1 DEF TypeOK, Contested, NoFile
  <2>5. Undisturbed'
    BY <1>2, <2>1 DEF TypeOK, Undisturbed
  <2> QED
    BY <2>2, <2>3, <2>4, <2>5
<1> QED
  BY <1>1, <1>2

LEMMA SetPermissionsKeeps ==
    ASSUME IInv, NEW i \in Instances, SetPermissions(i)
    PROVE  IInv'
<1> USE NobodyIsNone DEF IInv, SetPermissions, Unix, checks, history, Present
<1>1. CASE path # NoFile
  <2>1. /\ unix[i] = "bound" /\ unix' = [unix EXCEPT ![i] = "serving"]
        /\ path' = [path EXCEPT !.mode = unix_mode]
    BY <1>1
  <2>2. /\ path'.owner = path.owner /\ path'.type = path.type
        /\ path'.mode = unix_mode /\ path' # NoFile
    BY <1>1, <2>1, PresentHasType DEF TypeOK, NoFile, File
  <2>3. TypeOK'
    BY <1>1, <2>1 DEF TypeOK
  <2>4. Alive'
    BY <1>1, <2>1, <2>2 DEF TypeOK, Alive
  <2>5. ServedWithMode'
    BY <2>2 DEF ServedWithMode
  <2>6. Contested'
    BY <1>1, <2>1, <2>2 DEF TypeOK, Contested
  <2>7. Undisturbed'
    BY <1>1, <2>1, <2>2 DEF TypeOK, Undisturbed
  <2> QED
    BY <2>3, <2>4, <2>5, <2>6, <2>7
<1>2. CASE path = NoFile
  <2>1. unix[i] = "bound" /\ unix' = [unix EXCEPT ![i] = "failed"] /\ path' = path
    BY <1>2
  <2>2. TypeOK' /\ Alive'
    BY <1>2, <2>1, PresentHasType DEF TypeOK, Alive
  <2>3. ServedWithMode'
    BY <1>2, <2>1, PresentHasType DEF ServedWithMode, Reachable
  <2>4. Contested'
    BY <1>2, <2>1, PresentHasType DEF TypeOK, Contested
  <2>5. Undisturbed'
    BY <1>2, <2>1 DEF TypeOK, Undisturbed
  <2> QED
    BY <2>2, <2>3, <2>4, <2>5
<1> QED
  BY <1>1, <1>2

(* Return and Kill. Without a signal only a process whose listen task has   *)
(* failed returns, and the path does not lead to it.                        *)
LEMMA EndKeeps ==
    ASSUME IInv, NEW i \in Instances, Return(i) \/ Kill(i)
    PROVE  IInv'
<1> USE NobodyIsNone DEF IInv, Return, Kill, End, checks
<1>1. /\ path'.owner = IF path.owner = i THEN None ELSE path.owner
      /\ path'.type = path.type /\ path'.mode = path.mode
  BY DEF TypeOK, NoFile, File
<1>2. TypeOK'
  <2>1. path' \in {NoFile} \cup
                [type : FileTypes, owner : Instances \cup {None},
                 mode : {None, "umask", unix_mode}]
    BY DEF TypeOK, NoFile, File
  <2> QED
    BY <2>1 DEF TypeOK
<1>3. Alive'
  BY <1>1, PresentHasType DEF TypeOK, Alive
<1>4. ServedWithMode'
  BY <1>1, PresentHasType DEF TypeOK, ServedWithMode, Reachable
<1>5. Contested'
  <2>0. config' = config /\ (config = {"unix"} => \A k \in Instances : tcp'[k] = "none")
    BY DEF TypeOK, Contested
  <2>1. CASE stopped'
    BY <2>0, <2>1 DEF Contested
  <2>2. CASE ~stopped'
    <3>1. ~stopped /\ signalled = {} /\ Return(i)
      BY <2>2 DEF Contested
    <3>2. config = {"unix"} => unix[i] \in {"failed", "none"}
      BY <3>1 DEF Contested, AnyFailed
    <3>3. config = {"unix"} => path' = path
      BY <3>2 DEF Alive
    <3> QED
      BY <2>2, <3>1, <3>2, <3>3 DEF TypeOK, Contested, NoFile
  <2> QED
    BY <2>1, <2>2
<1>6. alone' = {}
  BY DEF TypeOK, Undisturbed
<1>7. Undisturbed'
  BY <1>6 DEF Undisturbed
<1> QED
  BY <1>2, <1>3, <1>4, <1>5, <1>7

(* A signal, and the health check, leave tasks, port and path alone.        *)
LEMMA OtherStepsKeep ==
    ASSUME IInv,
           \/ HealthBegins \/ HealthAsks \/ UNCHANGED vars
           \/ \E i \in Instances : Signal(i)
    PROVE  IInv'
<1> USE DEF IInv, TypeOK, Alive, ServedWithMode, Reachable, Contested, Undisturbed, NoFile,
        network, processes, checks, history
<1>1. CASE HealthBegins
  <2>1. asked' \subseteq Targets /\ health' \in {None, "ok", "failed"}
    BY <1>1, Configured DEF HealthBegins, get, Targets
  <2> QED
    BY <1>1, <2>1 DEF HealthBegins
<1>2. CASE HealthAsks
  BY <1>2 DEF HealthAsks
<1>3. CASE UNCHANGED vars
  BY <1>3 DEF vars
<1>4. ASSUME NEW i \in Instances, Signal(i) PROVE IInv'
  BY <1>4 DEF Signal
<1> QED
  BY <1>1, <1>2, <1>3, <1>4

(* The inductive invariant holds in every reachable state.                  *)
THEOREM Invariance == Spec => []IInv
<1>1. IInv /\ [Next]_vars => IInv'
  BY StartKeeps, ListenTcpKeeps, StatKeeps, ClearKeeps, BindKeeps, SetPermissionsKeeps,
     EndKeeps, OtherStepsKeep
  DEF Next, Tasks, ListenUnix
<1> QED
  BY InitIInv, <1>1, PTL DEF Spec

(* Every variable keeps its type.                                           *)
THEOREM TypeCorrect == Spec => []TypeOK
<1>1. IInv => TypeOK
  BY DEF IInv
<1> QED
  BY Invariance, <1>1, PTL

(* A socket that somebody serves on has the configured mode, however starts *)
(* overlap: whoever is behind it has set the mode of what is at the path.   *)
THEOREM ModeIsSet == Spec => []ServedWithMode
<1>1. IInv => ServedWithMode
  BY DEF IInv
<1> QED
  BY Invariance, <1>1, PTL

(* However many instances race for the path, it leads to one that serves    *)
(* when all that are left serve.                                            *)
THEOREM RaceIsWon == Spec => []RaceHasWinner
<1>1. IInv => RaceHasWinner
  <2> SUFFICES ASSUME IInv, config = {"unix"}, ~stopped, running # {},
                      \A i \in running : unix[i] = "serving"
               PROVE  Reachable("unix")
    BY DEF RaceHasWinner
  <2>1. \E i \in Instances : unix[i] \in {"bound", "serving"}
    BY DEF IInv, TypeOK
  <2>2. ~ \E k \in Instances : unix[k] = "cleared"
    BY DEF IInv, Alive
  <2>3. path.owner # None
    BY <2>1, <2>2 DEF IInv, Contested
  <2>4. path.owner \in Instances /\ unix[path.owner] \in {"bound", "serving"}
    BY <2>3, PresentHasType DEF IInv, Alive
  <2> QED
    BY <2>3, <2>4 DEF IInv, Alive, Reachable
<1> QED
  BY Invariance, <1>1, PTL

(* Whatever earlier runs left behind, an instance that runs alone fails on  *)
(* nothing but a foreign file.                                              *)
THEOREM OldFilesAreHarmless == Spec => []OwnFilesHarmless
<1>1. IInv => OwnFilesHarmless
  BY DEF IInv, Undisturbed, OwnFilesHarmless
<1> QED
  BY Invariance, <1>1, PTL

=============================================================================
