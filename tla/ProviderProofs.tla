---------------------------- MODULE ProviderProofs ----------------------------
(***************************************************************************)
(* Provider, for any number of callers, versions, processes, exits and     *)
(* crashes: type correctness, and which processes can be running.          *)
(***************************************************************************)
EXTENDS Provider, TLAPS

LEMMA PidsAreNumbers == Pids \subseteq Nat \ {0}
BY BoundsAssumption DEF Pids

(* The list detect makes: services, then executables, nothing twice.         *)
LEMMA FoundConcatenates ==
  ASSUME NEW s \in Found(Services), NEW e \in Found(Executables)
  PROVE  s \o e \in Seq(Versions) /\ IsInjective(s \o e)
<1>1. PICK m \in 0..Cardinality(Services) : s \in [1..m -> Services] /\ IsInjective(s)
  BY DEF Found
<1>2. PICK n \in 0..Cardinality(Executables) : e \in [1..n -> Executables] /\ IsInjective(e)
  BY DEF Found
<1>3. m \in Nat /\ n \in Nat
  BY <1>1, <1>2
<1>4. s \in Seq(Versions) /\ e \in Seq(Versions) /\ Len(s) = m /\ Len(e) = n
  BY <1>1, <1>2, <1>3 DEF Versions
<1>5. /\ s \o e \in Seq(Versions) /\ DOMAIN (s \o e) = 1..(m + n)
      /\ \A i \in 1..(m + n) : (s \o e)[i] = IF i <= m THEN s[i] ELSE e[i - m]
  BY <1>3, <1>4
<1>6. IsInjective(s \o e)
  <2> SUFFICES ASSUME NEW i \in 1..(m + n), NEW j \in 1..(m + n), (s \o e)[i] = (s \o e)[j]
               PROVE  i = j
    BY <1>5 DEF IsInjective
  <2>1. CASE i <= m /\ j <= m
    BY <1>1, <1>3, <1>5, <2>1 DEF IsInjective
  <2>2. CASE i > m /\ j > m
    <3>1. i - m \in 1..n /\ j - m \in 1..n /\ e[i - m] = e[j - m]
      BY <1>3, <1>5, <2>2
    <3>2. i - m = j - m
      BY <1>2, <3>1 DEF IsInjective
    <3> QED
      BY <1>3, <3>2
  <2>3. CASE i <= m /\ j > m
    <3>1. s[i] \in Services /\ e[j - m] \in Executables /\ s[i] = e[j - m]
      BY <1>1, <1>2, <1>3, <1>5, <2>3
    <3> QED
      BY <3>1, BoundsAssumption
  <2>4. CASE i > m /\ j <= m
    <3>1. s[j] \in Services /\ e[i - m] \in Executables /\ s[j] = e[i - m]
      BY <1>1, <1>2, <1>3, <1>5, <2>4
    <3> QED
      BY <3>1, BoundsAssumption
  <2> QED
    BY <1>3, <2>1, <2>2, <2>3, <2>4
<1> QED
  BY <1>5, <1>6

-----------------------------------------------------------------------------
(* Type correctness.                                                         *)

LEMMA InitType == Init => TypeOK
<1> SUFFICES ASSUME Init PROVE TypeOK
  OBVIOUS
<1>1. versions \in Seq(Versions) /\ IsInjective(versions)
  BY DEF Init, IsInjective
<1>2. spawned \in 0..MaxSpawns /\ exits \in 0..MaxExits /\ crashes \in 0..MaxCrashes
  BY BoundsAssumption DEF Init
<1> QED
  BY <1>1, <1>2 DEF Init, TypeOK

LEMMA DetectType == TypeOK /\ Detect => TypeOK'
<1> SUFFICES ASSUME TypeOK, Detect PROVE TypeOK'
  OBVIOUS
<1>1. versions' \in Seq(Versions) /\ IsInjective(versions)'
  BY FoundConcatenates DEF Detect
<1>2. Range(versions') \subseteq Versions
  BY <1>1 DEF Range
<1>3. active' \in Versions \union {NoVersion}
  <2>1. CASE shown'
    BY <1>2, <2>1 DEF Detect
  <2>2. CASE ~shown' /\ active = NoVersion /\ versions' # <<>>
    <3>1. versions'[1] \in Versions
      BY <1>1, <2>2
    <3> QED
      BY <2>2, <3>1 DEF Detect
  <2>3. CASE ~shown' /\ ~(active = NoVersion /\ versions' # <<>>)
    BY <2>3 DEF Detect, TypeOK
  <2> QED
    BY <2>1, <2>2, <2>3
<1>4. shown' \in BOOLEAN /\ stopped' \in BOOLEAN
  BY DEF Detect
<1> QED
  BY <1>1, <1>3, <1>4 DEF Detect, TypeOK, counts

(* select returns a version the provider has.                                *)
LEMMA SelectsAVersion ==
  ASSUME TypeOK, versions # <<>>, NEW v
  PROVE  Select(v) \in Versions
BY DEF TypeOK, Select, Range

LEMMA ControlServiceType ==
  ASSUME TypeOK, NEW v \in Services, NEW start \in BOOLEAN, NEW ok \in BOOLEAN, ControlService(v, start, ok)
  PROVE  service' \subseteq Services /\ shown' \in BOOLEAN
<1>1. service' = service \/ service' = service \union {v} \/ service' = service \ {v}
  BY DEF ControlService
<1>2. shown' = start \/ shown' \in {shown, (v \in service), FALSE}
  BY DEF ControlService
<1>3. (v \in service) = TRUE \/ (v \in service) = FALSE
  OBVIOUS
<1>4. shown' = start \/ shown' = shown \/ shown' = TRUE \/ shown' = FALSE
  BY <1>2, <1>3, Zenon
<1> QED
  BY <1>1, <1>4 DEF TypeOK

LEMMA StartType ==
  ASSUME TypeOK, NEW v, Start(v), caller' \in [Callers -> {"idle"} \union Versions \union {NoVersion}]
  PROVE  TypeOK'
<1>1. CASE StartService(v)
  <2>1. service' \subseteq Services /\ shown' \in BOOLEAN
    BY <1>1, ControlServiceType DEF StartService
  <2>2. active' \in Versions
    BY <1>1, SelectsAVersion DEF StartService
  <2> QED
    BY <1>1, <2>1, <2>2 DEF StartService, TypeOK, counts
<1>2. CASE StartProcess(v)
  <2>1. active' \in Versions
    BY <1>2, SelectsAVersion DEF StartProcess
  <2>2. CASE spawned < MaxSpawns /\ spawned' = spawned + 1
             /\ process' = [process EXCEPT ![spawned'] = "suspended"]
             /\ spawning' = spawned' /\ call' = "assign"
    <3>1. spawned' \in 0..MaxSpawns /\ spawned' \in Pids
      BY <2>2, BoundsAssumption DEF TypeOK, Pids
    <3>2. process' \in [Pids -> {"unborn", "suspended", "runs", "dead"}]
      BY <2>2 DEF TypeOK
    <3>3. spawning' # None
      BY <2>2, <3>1, PidsAreNumbers DEF None
    <3> QED
      BY <1>2, <2>1, <2>2, <3>1, <3>2, <3>3 DEF StartProcess, TypeOK
  <2>3. CASE UNCHANGED <<spawned, process, spawning, call>>
    BY <1>2, <2>1, <2>3 DEF StartProcess, TypeOK
  <2> QED
    BY <1>2, <2>2, <2>3 DEF StartProcess
<1>3. CASE StartNothing(v)
  BY <1>3 DEF StartNothing, TypeOK, status, counts
<1> QED
  BY <1>1, <1>2, <1>3 DEF Start

LEMMA CloseType ==
  ASSUME TypeOK, NEW jobs, Close(jobs)
  PROVE  process' \in [Pids -> {"unborn", "suspended", "runs", "dead"}] /\ inJob' \subseteq Pids
BY DEF TypeOK, Close

LEMMA AssignType == TypeOK /\ Assign => TypeOK'
<1> SUFFICES ASSUME TypeOK, Assign PROVE TypeOK'
  OBVIOUS
<1>0. spawning \in Pids
  BY DEF Assign, During, TypeOK
<1>1. CASE inJob' = inJob \union {spawning} /\ call' = "resume" /\ UNCHANGED <<process, spawning>>
  BY <1>0, <1>1 DEF Assign, During, TypeOK, status, counts
<1>2. CASE process' = [process EXCEPT ![spawning] = "dead"] /\ Leave /\ UNCHANGED inJob
  BY <1>2 DEF Assign, TypeOK, Leave, status, counts
<1> QED
  BY <1>1, <1>2 DEF Assign

LEMMA ResumeType == TypeOK /\ Resume => TypeOK'
BY DEF Resume, During, TypeOK, status, counts

LEMMA WaitType == TypeOK /\ Wait => TypeOK'
<1> SUFFICES ASSUME TypeOK, Wait PROVE TypeOK'
  OBVIOUS
<1>0. spawning \in Pids
  BY DEF Wait, During, TypeOK
<1>1. process' \in [Pids -> {"unborn", "suspended", "runs", "dead"}] /\ inJob' \subseteq Pids
  BY CloseType DEF Wait
<1>2. held' \in Pids \union {None} /\ shown' \in BOOLEAN
  BY <1>0 DEF Wait, TypeOK
<1>3. call' = "free" /\ spawning' = None
  BY DEF Wait, Leave
<1>4. UNCHANGED <<versions, active, service, caller, counts, up, stopped>>
  BY DEF Wait
<1> QED
  BY <1>1, <1>2, <1>3, <1>4 DEF TypeOK, counts

LEMMA StopType ==
  ASSUME TypeOK, NEW ok \in BOOLEAN, Stop(ok),
         caller' \in [Callers -> {"idle"} \union Versions \union {NoVersion}]
  PROVE  TypeOK'
<1>1. CASE StopProcess(ok)
  <2>1. /\ process' \in [Pids -> {"unborn", "suspended", "runs", "dead"}] /\ inJob' \subseteq Pids
        /\ held' \in Pids \union {None} /\ shown' \in BOOLEAN
    BY <1>1, CloseType DEF StopProcess, TypeOK
  <2> QED
    BY <1>1, <2>1 DEF Stop, StopProcess, TypeOK, counts
<1>2. CASE StopService(ok)
  <2>1. service' \subseteq Services /\ shown' \in BOOLEAN
    BY <1>2, ControlServiceType DEF StopService, TypeOK
  <2> QED
    BY <1>2, <2>1 DEF Stop, StopService, TypeOK, counts
<1> QED
  BY <1>1, <1>2 DEF Stop

LEMMA CommandType == TypeOK => \A c \in Callers : Command(c) \/ RestartStarts(c) => TypeOK'
<1> SUFFICES ASSUME TypeOK, NEW c \in Callers, Command(c) \/ RestartStarts(c) PROVE TypeOK'
  OBVIOUS
<1>1. ASSUME NEW v, Start(v), UNCHANGED caller PROVE TypeOK'
  BY <1>1, StartType DEF TypeOK
<1>2. ASSUME NEW ok \in BOOLEAN, Stop(ok), UNCHANGED caller PROVE TypeOK'
  BY <1>2, StopType DEF TypeOK
<1>3. ASSUME NEW v \in Versions \union {NoVersion}, Stop(TRUE), caller' = [caller EXCEPT ![c] = v]
      PROVE  TypeOK'
  BY <1>3, StopType DEF TypeOK
<1>4. ASSUME RestartStarts(c) PROVE TypeOK'
  BY <1>4, StartType DEF RestartStarts, TypeOK
<1> QED
  BY <1>1, <1>2, <1>3, <1>4 DEF Command

LEMMA CrashType == TypeOK /\ Crash => TypeOK'
<1> SUFFICES ASSUME TypeOK, Crash PROVE TypeOK'
  OBVIOUS
<1>1. process' \in [Pids -> {"unborn", "suspended", "runs", "dead"}] /\ inJob' \subseteq Pids
  BY CloseType DEF Crash
<1>2. versions' \in Seq(Versions) /\ IsInjective(versions)'
  BY DEF Crash, IsInjective
<1>3. crashes' \in 0..MaxCrashes
  BY BoundsAssumption DEF Crash, TypeOK
<1> QED
  BY <1>1, <1>2, <1>3 DEF Crash, TypeOK

LEMMA ExitType == TypeOK => \A p \in Pids : ProcessExits(p) => TypeOK'
<1> SUFFICES ASSUME TypeOK, NEW p \in Pids, ProcessExits(p) PROVE TypeOK'
  OBVIOUS
<1>1. exits' \in 0..MaxExits
  BY BoundsAssumption DEF ProcessExits, TypeOK
<1> QED
  BY <1>1 DEF ProcessExits, TypeOK, status

LEMMA TypeStep == TypeOK /\ [Next]_vars => TypeOK'
<1> SUFFICES ASSUME TypeOK, [Next]_vars PROVE TypeOK'
  OBVIOUS
<1>1. CASE StartEngine
  BY <1>1 DEF StartEngine, TypeOK, status, counts
<1>2. CASE UNCHANGED vars
  BY <1>2 DEF vars, TypeOK, status, counts
<1> QED
  BY <1>1, <1>2, DetectType, AssignType, ResumeType, WaitType, CommandType, CrashType, ExitType DEF Next

(* Every reachable state of a provider, of the processes, the services and   *)
(* the callers is of the stated type.                                        *)
THEOREM TypeCorrect == Spec => []TypeOK
BY InitType, TypeStep, PTL DEF Spec

-----------------------------------------------------------------------------
(* Which processes run.                                                      *)

(* A process that runs is in a job and is the one held, or is about to be;   *)
(* none runs when the Engine is down or after a stop.                        *)
Owned ==
  /\ \A p \in Pids : process[p] = "runs" => p \in inJob /\ (p = held \/ (call = "wait" /\ p = spawning))
  /\ call = "resume" => spawning \in inJob
  /\ ~up => \A p \in Pids : process[p] # "runs"
  /\ stopped => call = "free" /\ \A p \in Pids : process[p] # "runs"

LEMMA InitOwned == Init => Owned
BY DEF Init, Owned

(* What no process and no part of the call that is under way changes.        *)
LEMMA OwnedKept ==
  ASSUME Owned, UNCHANGED <<process, inJob, held, call, spawning, up>>, stopped' => stopped
  PROVE  Owned'
BY DEF Owned

LEMMA StartOwned == ASSUME TypeOK, Owned, NEW v, Start(v) PROVE Owned'
<1>1. CASE StartService(v)
  BY <1>1, OwnedKept DEF StartService
<1>2. CASE StartNothing(v)
  BY <1>2, OwnedKept DEF StartNothing
<1>3. CASE StartProcess(v)
  <2>1. call = "free" /\ up /\ ~stopped' /\ UNCHANGED <<held, inJob, up>> /\ call' \in {"free", "assign"}
    BY <1>3 DEF StartProcess, Enter
  <2>2. \A p \in Pids : process'[p] = "runs" => process[p] = "runs"
    BY <1>3 DEF StartProcess, TypeOK
  <2> QED
    BY <2>1, <2>2 DEF Owned
<1> QED
  BY <1>1, <1>2, <1>3 DEF Start

LEMMA SpawnOwned == TypeOK /\ Owned /\ (Assign \/ Resume \/ Wait) => Owned'
<1> SUFFICES ASSUME TypeOK, Owned, Assign \/ Resume \/ Wait PROVE Owned'
  OBVIOUS
<1>0. up /\ up' /\ ~stopped /\ ~stopped' /\ spawning \in Pids
  BY DEF Assign, Resume, Wait, During, Owned, TypeOK
<1>1. CASE Assign
  BY <1>0, <1>1 DEF Assign, During, Leave, Owned, TypeOK
<1>2. CASE Resume
  BY <1>0, <1>2 DEF Resume, During, Owned, TypeOK
<1>3. CASE Wait /\ process[spawning] = "dead" /\ Close({spawning}) /\ UNCHANGED <<shown, held>>
  BY <1>0, <1>3 DEF Wait, During, Leave, Close, Alive, Owned, TypeOK
<1>4. CASE Wait /\ process[spawning] = "runs" /\ Close({held}) /\ held' = spawning
  BY <1>0, <1>4 DEF Wait, During, Leave, Close, Alive, Owned, TypeOK
<1> QED
  BY <1>1, <1>2, <1>3, <1>4 DEF Wait

LEMMA StopOwned == ASSUME TypeOK, Owned, NEW ok \in BOOLEAN, Stop(ok) PROVE Owned'
<1>0. call = "free" /\ call' = "free" /\ up /\ up' /\ stopped' = ok
  BY DEF Stop, Enter
<1>1. \A p \in Pids : process[p] = "runs" => p \in inJob /\ p = held
  BY <1>0 DEF Owned
<1>2. CASE StopProcess(ok) /\ ok
  <2>1. \A p \in Pids : process'[p] # "runs"
    BY <1>1, <1>2 DEF StopProcess, Close, Alive, TypeOK
  <2> QED
    BY <1>0, <2>1 DEF Owned
<1>3. CASE StopProcess(ok) /\ ~ok
  <2>1. \A p \in Pids : process'[p] = "runs" => process[p] = "runs"
    BY <1>3 DEF StopProcess, TypeOK
  <2> QED
    BY <1>0, <1>1, <1>3, <2>1 DEF StopProcess, Owned
<1>4. CASE StopService(ok)
  <2>1. \A p \in Pids : process[p] # "runs"
    BY <1>1, <1>4, PidsAreNumbers DEF StopService, None
  <2> QED
    BY <1>0, <1>4, <2>1 DEF StopService, Owned
<1> QED
  BY <1>2, <1>3, <1>4 DEF Stop

LEMMA WorldOwned ==
  TypeOK /\ Owned /\ (Detect \/ Crash \/ StartEngine \/ \E p \in Pids : ProcessExits(p)) => Owned'
<1> SUFFICES ASSUME TypeOK, Owned, Detect \/ Crash \/ StartEngine \/ \E p \in Pids : ProcessExits(p)
             PROVE  Owned'
  OBVIOUS
<1>1. CASE Detect
  BY <1>1, OwnedKept DEF Detect
<1>2. CASE Crash
  <2>1. \A p \in Pids : process'[p] # "runs"
    BY <1>2 DEF Crash, Close, Alive, Owned, TypeOK
  <2> QED
    BY <1>2, <2>1 DEF Crash, Owned
<1>3. CASE StartEngine
  BY <1>3 DEF StartEngine, Owned
<1>4. ASSUME NEW p \in Pids, ProcessExits(p) PROVE Owned'
  BY <1>4 DEF ProcessExits, Owned, TypeOK
<1> QED
  BY <1>1, <1>2, <1>3, <1>4

LEMMA OwnedStep == TypeOK /\ Owned /\ [Next]_vars => Owned'
<1> SUFFICES ASSUME TypeOK, Owned, [Next]_vars PROVE Owned'
  OBVIOUS
<1>1. ASSUME NEW c \in Callers, Command(c) \/ RestartStarts(c) PROVE Owned'
  BY <1>1, StartOwned, StopOwned DEF Command, RestartStarts
<1>2. CASE UNCHANGED vars
  BY <1>2, OwnedKept DEF vars
<1> QED
  BY <1>1, <1>2, SpawnOwned, WorldOwned DEF Next

(* spawn, stop: a process that runs is in its job object, and is the one the *)
(* provider holds or the one a start waits for.                              *)
THEOREM OwnedInvariant == Spec => []Owned
BY InitOwned, OwnedStep, TypeCorrect, PTL DEF Spec

(* spawn, stop: whatever step the Engine crashes in, no process it started   *)
(* goes on running without it.                                               *)
THEOREM CrashSafe == Spec => []CrashLeavesNothingRunning
<1>1. Owned => CrashLeavesNothingRunning
  BY DEF Owned, CrashLeavesNothingRunning
<1> QED
  BY <1>1, OwnedInvariant, PTL

(* start, spawn, stop: between calls at most the held process runs.          *)
THEOREM OnlyHeld == Spec => []OnlyTheHeldProcess
<1>1. Owned => OnlyTheHeldProcess
  BY DEF Owned, OnlyTheHeldProcess
<1> QED
  BY <1>1, OwnedInvariant, PTL

(* stop: when it has returned true, no process of this provider runs.        *)
THEOREM StopCorrect == Spec => []StopStops
<1>1. Owned => StopStops
  BY DEF Owned, StopStops
<1> QED
  BY <1>1, OwnedInvariant, PTL
=============================================================================
