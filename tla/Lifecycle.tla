------------------------------ MODULE Lifecycle ------------------------------
(***************************************************************************)
(* The life of a process: main, FileConfig::get, run_server                *)
(* (src/modes/server.rs) and, next to it, the health check                 *)
(* (src/modes/health.rs) that asks whether it serves.                      *)
(*                                                                         *)
(* Instances can overlap, as when a new one is started before the old one  *)
(* has ended; they share the TCP port and the path of the Unix socket. The *)
(* kernel frees the port of a process that ends; the socket file stays.    *)
(***************************************************************************)
CONSTANTS
    Instances,
    Configs,        \* the configurations to consider
    unix_mode,      \* the configured mode of the socket
    NoTable,        \* a configuration without a [listen] table
    Broken,         \* no configuration, or one that does not parse
    None

Targets == {"tcp", "unix"}

ASSUME LifecycleAssumption ==
    /\ Configs \subseteq (SUBSET Targets) \cup {NoTable, Broken}
    /\ \A targets \in SUBSET Targets : targets # NoTable /\ targets # Broken
    /\ None \notin Instances

VARIABLES
    config,     \* the targets in the [listen] table, or NoTable, or Broken
    running,    \* the instances that run
    tcp,        \* [Instances -> where the TCP listen task is]
    unix,       \* [Instances -> where the Unix listen task is]
    signalled,  \* instances that a signal has reached
    port,       \* the instance that has bound the port
    path,       \* the file at the socket's path: [type, owner, mode]
    asked,      \* targets the health check has still to ask
    health,     \* its latest result
    alone,      \* history: the instance that has been the only one since its start
    stopped     \* history: a process was stopped from outside

network == <<port, path>>
processes == <<running, tcp, unix, signalled>>
checks == <<asked, health>>
history == <<alone, stopped>>
vars == <<config, processes, network, checks, history>>

(* The bits of S_IFMT that a file's type sets in its mode.                  *)
TypeBits ==
    [socket |-> {15, 14}, regular |-> {15}, block |-> {14, 13},
     directory |-> {14}, character |-> {13}, fifo |-> {12}]

(* A path that does not resolve is none of these: a loop of links, or a     *)
(* directory on the way that may not be searched or is not one.             *)
FileTypes == DOMAIN TypeBits \cup {"unresolvable"}

File(type, owner, mode) == [type |-> type, owner |-> owner, mode |-> mode]
NoFile == File("nothing", None, None)
Present == path # NoFile

(* Anything may be at the path to begin with, a former run's socket too.    *)
Init ==
    /\ config \in Configs
    /\ running = {} /\ signalled = {}
    /\ tcp = [i \in Instances |-> "none"]
    /\ unix = [i \in Instances |-> "none"]
    /\ port = None
    /\ path \in {NoFile} \cup {File(type, None, None) : type \in FileTypes}
    /\ asked = {} /\ health = None
    /\ alone = {} /\ stopped = FALSE

(* FileConfig::get reads the first of three places that is set, and fails   *)
(* if that one is broken; elsewhere, the targets. Without a [listen] table  *)
(* there is a default target, in an empty one there is none.                *)
get == IF config = NoTable THEN {"tcp"} ELSE config

-----------------------------------------------------------------------------
(* run_server spawns a task for each target. A process without a            *)
(* configuration ends before that.                                          *)
Start(i) ==
    /\ i \notin running
    /\ config # Broken
    /\ running' = running \cup {i}
    /\ tcp' = [tcp EXCEPT ![i] = IF "tcp" \in get THEN "spawned" ELSE "none"]
    /\ unix' = [unix EXCEPT ![i] = IF "unix" \in get THEN "spawned" ELSE "none"]
    /\ alone' = IF running = {} THEN {i} ELSE {}
    /\ UNCHANGED <<config, signalled, network, checks, stopped>>

ListenTcp(i) ==
    /\ tcp[i] = "spawned"
    /\ \/ port = None /\ port' = i /\ tcp' = [tcp EXCEPT ![i] = "serving"]
       \/ port # None /\ UNCHANGED port /\ tcp' = [tcp EXCEPT ![i] = "failed"]
    /\ UNCHANGED <<config, running, unix, signalled, path, checks, history>>

(* The Unix listen task: stat, remove, bind, chmod. Each is a system call   *)
(* and other processes' calls fall in between.                              *)
Unix(i, from, to) ==
    /\ unix[i] = from
    /\ unix' = [unix EXCEPT ![i] = to]
    /\ UNCHANGED <<config, running, tcp, signalled, port, checks, history>>

Unresolvable(file) == file.type = "unresolvable"

(* mode & S_IFSOCK = 0                                                      *)
NonSocket(file) == TypeBits[file.type] \cap TypeBits["socket"] = {}

(* Mutant: what is found at the path is left to bind to deal with.          *)
StatOnly(i) ==
    /\ Unix(i, "spawned", "cleared")
    /\ UNCHANGED path

(* Nothing there is the one error of stat that is not an error.             *)
Stat(i) ==
    /\ Unix(i, "spawned", CASE ~Present -> "cleared"
                             [] Present /\ (Unresolvable(path) \/ NonSocket(path)) -> "failed"
                             [] OTHER -> "found")
    /\ UNCHANGED path

(* remove_file fails if the file is gone, and on a directory.               *)
Clear(i) ==
    \/ /\ Present /\ path.type # "directory"
       /\ Unix(i, "found", "cleared")
       /\ path' = NoFile
    \/ /\ ~Present \/ path.type = "directory"
       /\ Unix(i, "found", "failed")
       /\ UNCHANGED path

Bind(i) ==
    \/ ~Present /\ Unix(i, "cleared", "bound") /\ path' = File("socket", i, "umask")
    \/ Present /\ Unix(i, "cleared", "failed") /\ UNCHANGED path

(* Mutant: the mode is left to the umask.                                   *)
ServeUnprepared(i) == Unix(i, "bound", "serving") /\ UNCHANGED path

(* Mutant: a failing set_permissions is ignored.                            *)
SetPermissionsAnyway(i) ==
    /\ Unix(i, "bound", "serving")
    /\ path' = [path EXCEPT !.mode = unix_mode]

(* set_permissions acts on whatever is at the path, then the task serves.   *)
SetPermissions(i) ==
    \/ Present /\ Unix(i, "bound", "serving") /\ path' = [path EXCEPT !.mode = unix_mode]
    \/ ~Present /\ Unix(i, "bound", "failed") /\ UNCHANGED path

ListenUnix(i) == Stat(i) \/ Clear(i) \/ Bind(i) \/ SetPermissions(i)

(* Mutant: the socket file is unlinked on the way out.                      *)
EndUnlinks(i) ==
    /\ running' = running \ {i}
    /\ tcp' = [tcp EXCEPT ![i] = "none"]
    /\ unix' = [unix EXCEPT ![i] = "none"]
    /\ signalled' = signalled \ {i}
    /\ port' = IF port = i THEN None ELSE port
    /\ path' = IF unix[i] # "none" THEN NoFile ELSE path
    /\ alone' = alone \ {i}
    /\ UNCHANGED <<config, checks>>

(* The process is gone, its socket file has nobody behind it.               *)
End(i) ==
    /\ running' = running \ {i}
    /\ tcp' = [tcp EXCEPT ![i] = "none"]
    /\ unix' = [unix EXCEPT ![i] = "none"]
    /\ signalled' = signalled \ {i}
    /\ port' = IF port = i THEN None ELSE port
    /\ path' = IF path.owner = i THEN [path EXCEPT !.owner = None] ELSE path
    /\ alone' = alone \ {i}
    /\ UNCHANGED <<config, checks>>

(* Mutant: the server goes on while one of its listeners is left.           *)
AllFailed(i) == {tcp[i], unix[i]} \subseteq {"none", "failed"}

(* join_next: there was no target, or a listen task has failed.             *)
AnyFailed(i) == "failed" \in {tcp[i], unix[i]} \/ {tcp[i], unix[i]} = {"none"}

(* A task that is at its system calls is not interrupted: the runtime shuts *)
(* down when they are done.                                                 *)
AtRest(i) == unix[i] \notin {"found", "cleared", "bound"}

(* The select is biased: a failed listener comes before a signal. Both lead *)
(* to the end of main.                                                      *)
Return(i) ==
    /\ i \in running /\ AtRest(i)
    /\ AnyFailed(i) \/ i \in signalled
    /\ End(i) /\ UNCHANGED stopped

Signal(i) ==
    /\ i \in running
    /\ signalled' = signalled \cup {i}
    /\ stopped' = TRUE
    /\ UNCHANGED <<config, running, tcp, unix, network, checks, alone>>

(* A crash, or a signal that cannot be caught, between any two steps.       *)
Kill(i) == i \in running /\ End(i) /\ stopped' = TRUE

-----------------------------------------------------------------------------
Reachable(target) ==
    IF target = "tcp" THEN port # None
    ELSE path.owner # None /\ unix[path.owner] = "serving"

(* The health mode reads the configuration for itself.                      *)
HealthBegins ==
    /\ asked = {}
    /\ \/ /\ config \in {Broken, {}}
          /\ health' = IF config = Broken THEN "failed" ELSE "ok"
          /\ UNCHANGED asked
       \/ /\ config \notin {Broken, {}}
          /\ asked' = get /\ UNCHANGED health
    /\ UNCHANGED <<config, processes, network, history>>

Asks == IF "unix" \in asked THEN "unix" ELSE "tcp"

(* Mutant: one target that answers is enough.                               *)
HealthAsksOnce ==
    /\ asked # {}
    /\ asked' = {}
    /\ health' = IF Reachable(Asks) THEN "ok" ELSE "failed"
    /\ UNCHANGED <<config, processes, network, history>>

(* First the Unix socket, then TCP; no answer within a second is a failure. *)
HealthAsks ==
    /\ asked # {}
    /\ asked' = IF Reachable(Asks) THEN asked \ {Asks} ELSE {}
    /\ health' = CASE ~Reachable(Asks) -> "failed"
                   [] Reachable(Asks) /\ asked = {Asks} -> "ok"
                   [] OTHER -> health
    /\ UNCHANGED <<config, processes, network, history>>

Tasks(i) == ListenTcp(i) \/ ListenUnix(i) \/ Return(i)

Next ==
    \/ \E i \in Instances : Start(i) \/ Tasks(i) \/ Signal(i) \/ Kill(i)
    \/ HealthBegins \/ HealthAsks

Spec == Init /\ [][Next]_vars

(* Tokio runs the tasks and the join; health checks are made again and      *)
(* again. Nobody has to start, signal or kill a process.                    *)
Fairness ==
    /\ \A i \in Instances :
          WF_vars(ListenTcp(i)) /\ WF_vars(ListenUnix(i)) /\ WF_vars(Return(i))
    /\ WF_vars(HealthBegins) /\ WF_vars(HealthAsks)

FairSpec == Spec /\ Fairness

-----------------------------------------------------------------------------
TypeOK ==
    /\ config \in Configs
    /\ running \subseteq Instances /\ signalled \subseteq running
    /\ tcp \in [Instances -> {"none", "spawned", "serving", "failed"}]
    /\ unix \in [Instances ->
                    {"none", "spawned", "found", "cleared", "bound", "serving", "failed"}]
    /\ port \in Instances \cup {None}
    /\ path \in {NoFile} \cup
                [type : FileTypes, owner : Instances \cup {None},
                 mode : {None, "umask", unix_mode}]
    /\ asked \subseteq Targets /\ health \in {None, "ok", "failed"}
    /\ alone \subseteq running /\ stopped \in BOOLEAN

(* However starts overlap, a socket that somebody serves on has the         *)
(* configured mode, although the mode is set by path and not on the socket. *)
ServedWithMode == Reachable("unix") => path.mode = unix_mode

(* A process that a signal has not reached and whose listeners work serves  *)
(* on all of its targets or ends: no server is left with half of them.      *)
Serving(i) == {tcp[i], unix[i]} \subseteq {"none", "serving"} /\ ~AnyFailed(i)
StartSettles == \A i \in Instances : i \in running ~> i \notin running \/ Serving(i)

(* The health check tells the truth in the end: it fails when a configured  *)
(* target stays unreachable - because nobody serves there, or because       *)
(* another instance took the path away - and passes when both are reachable.*)
HealthConverges ==
    /\ \A target \in Targets :
          <>[](config # Broken /\ target \in get /\ ~Reachable(target))
              => <>[](health = "failed")
    /\ <>[](config # Broken /\ \A target \in Targets : Reachable(target))
          => <>[](health = "ok")

(* Unless a process is stopped from outside, instances that start at one    *)
(* time on the Unix socket alone leave the path to one that serves: a       *)
(* later one may take it over, but none wins it and then gives up.          *)
RaceHasWinner ==
    /\ config = {"unix"} /\ ~stopped
    /\ running # {} /\ \A i \in running : unix[i] = "serving"
    => Reachable("unix")

(* What a former run left, at whatever point of its life it ended, is never *)
(* in the way of an instance that runs alone.                               *)
OwnFilesHarmless ==
    \A i \in alone :
        /\ tcp[i] # "failed"
        /\ unix[i] = "failed" => path.type \notin {"nothing", "socket"}

(* server.rs: only a socket is removed, a "non-socket file found" is an     *)
(* error.                                                                   *)
NonSocketKept ==
    [][path.type \notin {"nothing", "socket"} => path' = path]_vars

=============================================================================
