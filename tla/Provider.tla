------------------------------ MODULE Provider ------------------------------
(***************************************************************************)
(* One managed service (nginx, PHP, MySQL or PostgreSQL): the class        *)
(* Provider of engine/services/providers.cpp, the operating system's       *)
(* processes, job objects and services as it uses them, crashes of the     *)
(* Engine, and the commands of service.start, stop, restart, set_version   *)
(* and rescan as they call it (engine/engine.cpp).                         *)
(*                                                                         *)
(* mutex_ covers each call, so one call is in progress at a time; restart  *)
(* is two calls.  Starting an executable is several steps, because the     *)
(* Engine may crash between any two; the other calls are one step each.    *)
(*                                                                         *)
(* The configured launch arguments and the readers of versions_, which do  *)
(* not take mutex_, are left out; a Windows service is started and stopped *)
(* by the Engine alone.                                                    *)
(***************************************************************************)
EXTENDS Naturals, Sequences, FiniteSets, SequencesExt

CONSTANTS
  Executables,  \* versions found as an executable
  Services,     \* versions that are Windows services
  Callers,      \* threads that handle commands
  MaxSpawns,    \* bound: processes created
  MaxExits,     \* bound: processes that exit by themselves
  MaxCrashes    \* bound: crashes of the Engine

ASSUME BoundsAssumption ==
  /\ MaxSpawns \in Nat \ {0} /\ MaxExits \in Nat /\ MaxCrashes \in Nat
  /\ Executables \intersect Services = {}

Versions == Executables \union Services
Pids     == 1..MaxSpawns
None     == 0
NoVersion == "no version"

VARIABLES
  versions,  \* versions_
  active,    \* active_
  shown,     \* status_.running
  held,      \* process_ and job_: the process they belong to, or None
  process,   \* the operating system's processes: unborn, suspended, runs, dead
  inJob,     \* the processes that are in a kill-on-close job the Engine has open
  service,   \* the Windows services that run
  call,      \* where the call that holds mutex_ is: free, or the step of spawn that comes next
  spawning,  \* the process that call has created
  caller,    \* what each caller still has to call: nothing, or start with a version
  spawned, exits, crashes,
  up,        \* the Engine runs
  stopped    \* history: the last call that returned was a stop, and it returned true

status == <<versions, active, shown>>
counts == <<spawned, exits, crashes>>
vars == <<status, held, process, inJob, service, call, spawning, caller, counts, up, stopped>>

Alive(p) == process[p] \in {"suspended", "runs"}

TypeOK ==
  /\ versions \in Seq(Versions) /\ IsInjective(versions)
  /\ active \in Versions \union {NoVersion} /\ shown \in BOOLEAN
  /\ held \in Pids \union {None} /\ spawning \in Pids \union {None}
  /\ process \in [Pids -> {"unborn", "suspended", "runs", "dead"}] /\ inJob \subseteq Pids
  /\ service \subseteq Services
  /\ call \in {"free", "assign", "resume", "wait"} /\ (call = "free" <=> spawning = None)
  /\ caller \in [Callers -> {"idle"} \union Versions \union {NoVersion}]
  /\ spawned \in 0..MaxSpawns /\ exits \in 0..MaxExits /\ crashes \in 0..MaxCrashes
  /\ up \in BOOLEAN /\ stopped \in BOOLEAN

Init ==
  /\ versions = <<>> /\ active = NoVersion /\ shown = FALSE /\ held = None
  /\ process = [p \in Pids |-> "unborn"] /\ inJob = {} /\ service \in SUBSET Services
  /\ call = "free" /\ spawning = None
  /\ caller = [c \in Callers |-> "idle"]
  /\ spawned = 0 /\ exits = 0 /\ crashes = 0
  /\ up = TRUE /\ stopped = FALSE

(* A call of the provider: the mutex is free and the Engine runs.            *)
Enter == up /\ call = "free"

-----------------------------------------------------------------------------
(* detect: the services first, then the executables, in the order they are   *)
(* found.  A service that runs becomes the active version.                   *)

Found(set) == {s \in UNION {[1..n -> set] : n \in 0..Cardinality(set)} : IsInjective(s)}

Detect ==
  /\ Enter
  /\ \E s \in Found(Services), e \in Found(Executables) : versions' = s \o e
  /\ shown' = (service \intersect Range(versions') # {})
  /\ active' \in IF shown' THEN service \intersect Range(versions')
                 ELSE IF active = NoVersion /\ versions' # <<>> THEN {versions'[1]} ELSE {active}
  /\ stopped' = FALSE
  /\ UNCHANGED <<held, process, inJob, service, call, spawning, caller, counts, up>>

(* select: the version asked for, the first one if there is none such.       *)
Select(v) == IF v \in Range(versions) THEN v ELSE versions[1]

-----------------------------------------------------------------------------
(* start.                                                                    *)

(* control_scm: Windows starts or stops the service, or it already was as    *)
(* asked; or that fails.  status_ is then what Windows reports, not running  *)
(* if that query fails too, and as before if the service cannot be opened.   *)
ControlService(v, start, ok) ==
  IF ok THEN service' = (IF start THEN service \union {v} ELSE service \ {v}) /\ shown' = start
        ELSE UNCHANGED service /\ shown' \in {shown, (v \in service), FALSE}

StartService(v) ==
  /\ Enter /\ versions # <<>> /\ Select(v) \in Services
  /\ active' = Select(v)
  /\ \E ok \in BOOLEAN : ControlService(Select(v), TRUE, ok)
  /\ stopped' = FALSE
  /\ UNCHANGED <<versions, held, process, inJob, call, spawning, counts, up>>

(* spawn: create the job and the process, suspended, or fail.                *)
StartProcess(v) ==
  /\ Enter /\ versions # <<>> /\ Select(v) \in Executables
  /\ active' = Select(v)
  /\ \/ /\ spawned < MaxSpawns /\ spawned' = spawned + 1
        /\ process' = [process EXCEPT ![spawned'] = "suspended"]
        /\ spawning' = spawned' /\ call' = "assign"
     \/ UNCHANGED <<spawned, process, spawning, call>>
  /\ stopped' = FALSE
  /\ UNCHANGED <<versions, shown, held, inJob, service, exits, crashes, up>>

StartNothing(v) == Enter /\ versions = <<>> /\ stopped' = FALSE
                   /\ UNCHANGED <<status, held, process, inJob, service, call, spawning, counts, up>>

Start(v) == StartService(v) \/ StartProcess(v) \/ StartNothing(v)

During(step) == up /\ call = step
LeaveWithTheHandle == call' = "free" /\ spawning' = spawning

Leave == call' = "free" /\ spawning' = None

AssignUnchecked ==
  /\ During("assign")
  /\ inJob' \in {inJob, inJob \union {spawning}} /\ call' = "resume"
  /\ UNCHANGED <<status, held, process, service, spawning, caller, counts, up, stopped>>

Assign ==
  /\ During("assign")
  /\ \/ inJob' = inJob \union {spawning} /\ call' = "resume" /\ UNCHANGED <<process, spawning>>
     \/ process' = [process EXCEPT ![spawning] = "dead"] /\ Leave /\ UNCHANGED inJob
  /\ UNCHANGED <<status, held, service, caller, counts, up, stopped>>

Resume ==
  /\ During("resume")
  /\ process' = [process EXCEPT ![spawning] = "runs"]
  /\ call' = "wait"
  /\ UNCHANGED <<status, held, inJob, service, spawning, caller, counts, up, stopped>>

(* Closing a job kills what is in it.                                        *)
Close(jobs) ==
  /\ process' = [p \in Pids |-> IF p \in jobs /\ Alive(p) THEN "dead" ELSE process[p]]
  /\ inJob' = inJob \ jobs

WaitWithoutHolding ==
  /\ During("wait") /\ Leave
  /\ shown' = (shown \/ process[spawning] = "runs")
  /\ UNCHANGED <<versions, active, held, process, inJob, service, caller, counts, up, stopped>>

WaitKeepingTheOldJob ==
  /\ During("wait") /\ Leave
  /\ \/ process[spawning] = "dead" /\ Close({spawning}) /\ UNCHANGED <<shown, held>>
     \/ process[spawning] = "runs" /\ Close({}) /\ held' = spawning /\ shown' = TRUE
  /\ UNCHANGED <<versions, active, service, caller, counts, up, stopped>>

(* A process that outlives the wait replaces the one held, whose job closes. *)
Wait ==
  /\ During("wait") /\ Leave
  /\ \/ process[spawning] = "dead" /\ Close({spawning}) /\ UNCHANGED <<shown, held>>
     \/ process[spawning] = "runs" /\ Close({held}) /\ held' = spawning /\ shown' = TRUE
  /\ UNCHANGED <<versions, active, service, caller, counts, up, stopped>>

-----------------------------------------------------------------------------
(* stop.                                                                     *)

(* TerminateJobObject, or the wait of five seconds, may fail; the process    *)
(* is then held still.                                                       *)
StopProcess(ok) ==
  /\ held # None
  /\ IF ok THEN Close({held}) /\ held' = None /\ shown' = FALSE
           ELSE /\ process' \in {process, [process EXCEPT ![held] = "dead"]}
                /\ UNCHANGED <<held, inJob, shown>>
  /\ UNCHANGED <<versions, active, service>>

(* Nothing is held: the active version, or else the first, if a service.     *)
StopService(ok) ==
  /\ held = None
  /\ IF versions # <<>> /\ Select(active) \in Services
     THEN ControlService(Select(active), FALSE, ok)
     ELSE ok = ~shown /\ UNCHANGED <<service, shown>>
  /\ UNCHANGED <<versions, active, held, process, inJob>>

Stop(ok) ==
  /\ Enter
  /\ StopProcess(ok) \/ StopService(ok)
  /\ stopped' = ok
  /\ UNCHANGED <<call, spawning, counts, up>>

-----------------------------------------------------------------------------
(* The commands.  restart and set_version stop, then start.                  *)

Command(c) ==
  /\ caller[c] = "idle"
  /\ \/ \E v \in Versions \union {NoVersion} : Start(v) /\ UNCHANGED caller
     \/ \E ok \in BOOLEAN : Stop(ok) /\ UNCHANGED caller
     \/ \E v \in Versions \union {NoVersion} : Stop(TRUE) /\ caller' = [caller EXCEPT ![c] = v]

RestartStarts(c) ==
  /\ caller[c] # "idle" /\ Start(caller[c])
  /\ caller' = [caller EXCEPT ![c] = "idle"]

-----------------------------------------------------------------------------
(* The operating system.                                                     *)

ProcessExits(p) ==
  /\ process[p] = "runs" /\ exits < MaxExits /\ exits' = exits + 1
  /\ process' = [process EXCEPT ![p] = "dead"]
  /\ UNCHANGED <<status, held, inJob, service, call, spawning, caller, spawned, crashes, up, stopped>>

(* The Engine crashes: its handles close, and every job with them.           *)
Crash ==
  /\ up /\ crashes < MaxCrashes /\ crashes' = crashes + 1
  /\ up' = FALSE /\ held' = None /\ call' = "free" /\ spawning' = None
  /\ Close(inJob)
  /\ caller' = [c \in Callers |-> "idle"]
  /\ versions' = <<>> /\ active' = NoVersion /\ shown' = FALSE /\ stopped' = FALSE
  /\ UNCHANGED <<service, spawned, exits>>

StartEngine ==
  /\ ~up /\ up' = TRUE
  /\ UNCHANGED <<status, held, process, inJob, service, call, spawning, caller, counts, stopped>>

Next ==
  \/ Detect \/ Assign \/ Resume \/ Wait \/ Crash \/ StartEngine
  \/ \E c \in Callers : Command(c) \/ RestartStarts(c)
  \/ \E p \in Pids : ProcessExits(p)

Spec == Init /\ [][Next]_vars

-----------------------------------------------------------------------------
(* Properties.                                                               *)

(* spawn 173-187: whatever step the Engine crashes in, no process it started *)
(* goes on running without it.                                               *)
CrashLeavesNothingRunning == ~up => \A p \in Pids : process[p] # "runs"

(* start 95-99, spawn 173-187, stop 100-118: between calls at most one       *)
(* process is alive, the one that stop would terminate, although start does  *)
(* not stop the one before it, restart is interleaved with other commands    *)
(* and any call may fail half-way.  A process suspended by a crash is the    *)
(* exception.                                                                *)
OnlyTheHeldProcess ==
  up /\ call = "free" => \A p \in Pids : process[p] = "runs" => p = held

(* stop 100-118: when stop has returned true and no other call has followed, *)
(* no process of this provider runs.                                         *)
StopStops == stopped => \A p \in Pids : process[p] # "runs"
=============================================================================
