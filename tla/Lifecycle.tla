------------------------------ MODULE Lifecycle ------------------------------
(***************************************************************************)
(* The Engine's life: service_main and the control handler (engine/-       *)
(* main.cpp), Engine::start and stop and the commands that start and stop  *)
(* parts of it (engine/engine.cpp), over FolderWatcher and DnsServer.      *)
(*                                                                         *)
(* A thread runs a program (see FolderWatcher).  The pipe server is what   *)
(* PipeServer shows of it: stop takes no new connection and returns when   *)
(* every worker is done, unless a wake-up is lost or a client says         *)
(* nothing.  The providers are one, whose starts succeed: some process of  *)
(* theirs runs, or none.  A refresh begins, under refresh_mutex_, by       *)
(* reading whether nginx runs, and ends by restarting it if it did, or by  *)
(* an exception.                                                           *)
(***************************************************************************)
EXTENDS Integers, Sequences

CONSTANT MaxEvents  \* bound: commands, each on its own connection, and changes of the root

ASSUME BoundsAssumption == MaxEvents \in Nat

Main    == 0             \* the thread of service_main
Workers == 1..MaxEvents  \* one for each connection, in their order
Threads == 0..MaxEvents
Watcher == -1
Nobody  == -2

VARIABLES
  pc,                                                \* the programs
  watching, watcher, notes, missed, owed,            \* FolderWatcher's
  answering, responder, bound, socket, taken, mail, lost,  \* DnsServer's
  terminated,  \* the process called std::terminate
  escaped,     \* history: because of an exception
  ipc,         \* the pipe server: off, on, closing, or stuck
  running,     \* the Engine's running_
  holder,      \* who holds refresh_mutex_
  wasRunning,  \* was_running of that refresh
  callback,    \* the watcher's callback: none, lock, refresh
  services,    \* a process of a provider runs
  kept,        \* history: Engine::stop has failed to stop them
  scm,         \* the service's status as it is reported
  handling,    \* g_engine is set
  stopEvent,   \* g_stop_event
  overlapped,  \* history: the parts on which two calls overlapped
  commands, changes

watcherVars == <<watching, watcher, notes, missed, owed>>
dnsVars     == <<answering, responder, bound, socket, taken, mail, lost>>
refreshVars == <<holder, wasRunning, services, kept>>
scmVars     == <<scm, handling, stopEvent>>
bounds      == <<commands, changes>>
engineVars  == <<ipc, running, callback, refreshVars>>
vars == <<pc, watcherVars, dnsVars, terminated, escaped, engineVars, scmVars, overlapped, bounds>>

W == INSTANCE FolderWatcher WITH running <- watching, thread <- watcher
D == INSTANCE DnsServer WITH running <- answering, thread <- responder

-----------------------------------------------------------------------------
(* Programs.                                                                 *)

WatcherStart == <<"watcher.stop", "watcher.start">>

EngineStart == <<"refresh", "service.start", "dns.start", "ipc.start", "serve">> \o WatcherStart

EngineStopServicesFirst == <<"cease", "service.stop", "watcher.stop", "ipc.stop", "dns.stop">>

EngineStop == <<"cease", "watcher.stop", "ipc.stop", "dns.stop", "service.stop">>

(* ~Engine stops the watcher again, which config.set may have started since, *)
(* and destroys the threads' objects.                                        *)
ServiceMain ==
  <<"construct">> \o EngineStart \o <<"reportRunning", "await">> \o EngineStop
    \o <<"reportStopped", "watcher.stop", "destroy">>

Commands ==
  { <<"refresh">> \o WatcherStart,        \* config.set
    <<"refresh">>,                        \* sites.rescan, or a config.set that fails
    <<"dns.start">>, <<"dns.stop">>,
    <<"dns.stop", "dns.start">>,          \* dns.restart
    <<"dns.stop", "service.stop">>,       \* stop_all
    <<"service.start">> }

Steps == {"refresh", "refreshing", "service.start", "service.stop", "ipc.start", "ipc.stop", "joinWorkers",
          "serve", "cease", "construct", "reportRunning", "await", "reportStopped", "destroy"}
           \union W!WatcherSteps \union D!DnsSteps

TypeOK ==
  /\ W!WatcherTypeOK /\ D!DnsTypeOK
  /\ pc \in [Threads -> Seq(Steps)]
  /\ escaped \in BOOLEAN /\ ipc \in {"off", "on", "closing", "stuck"} /\ running \in BOOLEAN
  /\ holder \in Threads \union {Watcher, Nobody} /\ wasRunning \in BOOLEAN
  /\ callback \in {"none", "lock", "refresh"} /\ (callback # "none" => watcher = "call")
  /\ services \in BOOLEAN /\ kept \in BOOLEAN
  /\ scm \in {"stopped", "startPending", "running", "stopPending"}
  /\ handling \in BOOLEAN /\ stopEvent \in BOOLEAN
  /\ overlapped \subseteq {"watcher", "dns"}
  /\ commands \in 0..MaxEvents /\ changes \in 0..MaxEvents

Init ==
  /\ W!WatcherInit /\ D!DnsInit /\ terminated = FALSE /\ escaped = FALSE
  /\ pc = [t \in Threads |-> IF t = Main THEN ServiceMain ELSE <<>>]
  /\ ipc = "off" /\ running = FALSE /\ holder = Nobody /\ wasRunning = FALSE /\ callback = "none"
  /\ services = FALSE /\ kept = FALSE
  /\ scm = "startPending" /\ handling = FALSE /\ stopEvent = FALSE
  /\ overlapped = {} /\ commands = 0 /\ changes = 0

At(t, step)   == pc[t] # <<>> /\ Head(pc[t]) = step
Then(t, next) == pc' = [pc EXCEPT ![t] = next \o Tail(@)]
Return(t)     == Then(t, <<>>)

-----------------------------------------------------------------------------
(* The calls.                                                                *)

WatcherCall(t) == W!WatcherCall(t) /\ UNCHANGED <<escaped, dnsVars, engineVars, scmVars, bounds>>
DnsCall(t)     == D!DnsCall(t) /\ UNCHANGED <<escaped, watcherVars, engineVars, scmVars, bounds>>

(* rescan_sites_and_refresh_nginx.                                           *)
BeginRefresh(who) ==
  /\ holder = Nobody /\ holder' = who
  /\ wasRunning' = services /\ owed' = FALSE /\ UNCHANGED <<services, kept>>

(* A restart that could not stop nginx starts nothing.                       *)
EndRefresh(who) ==
  /\ holder = who /\ holder' = Nobody
  /\ services' \in {services, services \/ wasRunning}
  /\ wasRunning' = FALSE /\ UNCHANGED <<owed, kept>>

Refresh(t) ==
  /\ \/ At(t, "refresh") /\ Then(t, <<"refreshing">>) /\ BeginRefresh(t)
     \/ At(t, "refreshing") /\ Return(t) /\ EndRefresh(t)
  /\ UNCHANGED <<watching, watcher, notes, missed, dnsVars, terminated, escaped, ipc, running, callback,
                 scmVars, bounds>>

(* start_default_services or service.start; the providers' stop, which may   *)
(* fail or only ask a Windows service to stop, and what it returns is not    *)
(* looked at.                                                                *)
Services(t) ==
  /\ \/ At(t, "service.start") /\ Return(t) /\ services' = TRUE /\ UNCHANGED kept
     \/ At(t, "service.stop") /\ Return(t) /\ services' = FALSE /\ UNCHANGED kept
     \/ /\ At(t, "service.stop") /\ Return(t) /\ UNCHANGED services
        /\ IF t = Main THEN kept' = TRUE ELSE UNCHANGED kept
  /\ UNCHANGED <<watcherVars, dnsVars, terminated, escaped, ipc, running, callback, holder, wasRunning,
                 scmVars, bounds>>

(* running_ is set after the pipe server listens and before the watcher is   *)
(* started.  Which of ipc.stop's waits may not end is PipeServer's.          *)
Serve(t) ==
  /\ \/ At(t, "ipc.start") /\ Return(t) /\ ipc' = "on" /\ UNCHANGED running
     \/ At(t, "serve") /\ Return(t) /\ running' = TRUE /\ UNCHANGED ipc
     \/ At(t, "cease") /\ Return(t) /\ running' = FALSE /\ UNCHANGED ipc
     \/ At(t, "ipc.stop") /\ Then(t, <<"joinWorkers">>) /\ ipc' \in {"closing", "stuck"} /\ UNCHANGED running
     \/ /\ ipc # "stuck" /\ \A w \in Workers : pc[w] = <<>>
        /\ At(t, "joinWorkers") /\ Return(t) /\ ipc' = "off" /\ UNCHANGED running
  /\ UNCHANGED <<watcherVars, dnsVars, terminated, escaped, callback, refreshVars, scmVars, bounds>>

(* service_main: a service that starts is a new process, where START_PENDING *)
(* has been reported and the event created.                                  *)
Report(t) ==
  /\ \/ At(t, "construct") /\ handling' = TRUE /\ UNCHANGED <<scm, stopEvent>>
     \/ At(t, "reportRunning") /\ scm' = "running" /\ UNCHANGED <<handling, stopEvent>>
     \/ At(t, "await") /\ stopEvent /\ UNCHANGED scmVars
     \/ At(t, "reportStopped") /\ scm' = "stopped" /\ handling' = FALSE /\ UNCHANGED stopEvent
  /\ Return(t)
  /\ UNCHANGED <<watcherVars, dnsVars, terminated, escaped, engineVars, bounds>>

(* A std::thread that is joinable when it is destroyed terminates.           *)
Destroy(t) ==
  /\ At(t, "destroy") /\ Return(t)
  /\ terminated' = (watcher # "none" \/ responder # "none")
  /\ UNCHANGED <<escaped, watcherVars, dnsVars, engineVars, scmVars, bounds>>

ThreadStep(t) ==
  WatcherCall(t) \/ DnsCall(t) \/ Refresh(t) \/ Services(t) \/ Serve(t) \/ Report(t) \/ Destroy(t)

Command ==
  /\ ipc = "on" /\ commands + changes < MaxEvents /\ commands' = commands + 1
  /\ \E program \in Commands : pc' = [pc EXCEPT ![commands + 1] = program]
  /\ UNCHANGED <<watcherVars, dnsVars, terminated, escaped, engineVars, scmVars, changes>>

(* A refresh ends by an exception when a folder has a name that no code page *)
(* has.  handle_message's catch answers a command with it, whose rest is     *)
(* dropped; neither Engine::start nor the watcher's thread catches it, nor   *)
(* what the callback throws when it publishes.                               *)
RefreshThrows ==
  /\ \/ \E w \in Workers :
          /\ At(w, "refreshing") /\ pc' = [pc EXCEPT ![w] = <<>>]
          /\ holder' = Nobody /\ wasRunning' = FALSE /\ UNCHANGED <<terminated, escaped>>
     \/ /\ At(Main, "refreshing") \/ callback = "refresh"
        /\ terminated' = TRUE /\ escaped' = TRUE /\ UNCHANGED <<pc, holder, wasRunning>>
  /\ UNCHANGED <<watcherVars, dnsVars, ipc, running, callback, services, kept, scmVars, bounds>>

-----------------------------------------------------------------------------
(* The watcher's thread and its callback, and the responder.                 *)

WatcherThread == W!WatcherThread /\ UNCHANGED <<escaped, dnsVars, engineVars, scmVars, bounds>>
DnsThread     == D!DnsThread /\ UNCHANGED <<escaped, watcherVars, engineVars, scmVars, bounds>>

(* The callback, on the watcher's thread, ends with CallbackReturns or by    *)
(* RefreshThrows.                                                            *)
Locks    == callback' = "lock" /\ UNCHANGED <<watcherVars, pc, terminated, refreshVars>>
Ignores  == W!CallbackReturns /\ owed' = FALSE /\ UNCHANGED <<callback, refreshVars>>
Begins   == callback' = "refresh" /\ BeginRefresh(Watcher)
              /\ UNCHANGED <<watching, watcher, notes, missed, pc, terminated>>
FinishesHoldingTheLock == callback' = "none" /\ W!CallbackReturns /\ UNCHANGED <<owed, refreshVars>>
Finishes == callback' = "none" /\ EndRefresh(Watcher) /\ W!CallbackReturns

Callback ==
  /\ watcher = "call"
  /\ \/ callback = "none" /\ running /\ Locks
     \/ callback = "none" /\ ~running /\ Ignores
     \/ callback = "lock" /\ Begins
     \/ callback = "refresh" /\ Finishes
  /\ UNCHANGED <<escaped, dnsVars, ipc, running, scmVars, bounds>>

FolderChanges ==
  /\ commands + changes < MaxEvents /\ changes' = changes + 1
  /\ W!FolderChanges
  /\ UNCHANGED <<escaped, dnsVars, engineVars, scmVars, commands>>

-----------------------------------------------------------------------------
(* Those who ask Windows to stop the service.                                *)

(* SERVICE_CONTROL_STOP: the handler drops it while there is no Engine.      *)
ControlStop ==
  /\ scm \in {"startPending", "running"} /\ handling /\ scm' = "stopPending" /\ stopEvent' = TRUE
  /\ UNCHANGED <<pc, watcherVars, dnsVars, terminated, escaped, engineVars, handling, bounds>>

InCall(t, steps) == pc[t] # <<>> /\ Head(pc[t]) \in steps
Two(steps)       == \E t, u \in Threads : t # u /\ InCall(t, steps) /\ InCall(u, steps)
Overlapping      == (IF Two(W!WatcherSteps) THEN {"watcher"} ELSE {})
                      \union (IF Two(D!DnsSteps) THEN {"dns"} ELSE {})

(* A step of a process that has not terminated, and what it makes overlap.   *)
Run(step) ==
  /\ ~terminated /\ step
  /\ overlapped' = overlapped \union Overlapping'

EngineRuns ==
  \/ \E t \in Threads : Run(ThreadStep(t))
  \/ Run(WatcherThread) \/ Run(Callback) \/ Run(DnsThread) \/ Run(RefreshThrows)

Next == EngineRuns \/ Run(Command) \/ Run(FolderChanges) \/ Run(ControlStop)

(* A thread of the Engine that can run is not left waiting for ever by all   *)
(* of them: commands, changes and Windows act when they like.                *)
Fairness == WF_vars(EngineRuns)

Spec == Init /\ [][Next]_vars /\ Fairness

-----------------------------------------------------------------------------
(* Properties.                                                               *)

(* Engine::stop 262-272 and service_main 39-44: once the service reports     *)
(* SERVICE_STOPPED, no command is being handled, no refresh is under way,    *)
(* DNS is off and no process of a provider runs, whatever commands and       *)
(* changes came during the stop; a refresh would start nginx again.  What    *)
(* may be left is a watcher a config.set has started meanwhile, after calls  *)
(* on DNS overlapped its thread or its socket, and a process whose provider  *)
(* failed to stop it in Engine::stop itself, or a service it only asked to.  *)
StoppedMeansQuiet ==
  scm = "stopped" /\ ~terminated =>
    /\ \A w \in Workers : pc[w] = <<>>
    /\ holder = Nobody /\ (services => kept) /\ ~running
    /\ ~answering /\ ("dns" \notin overlapped => ~bound /\ responder = "none")

(* folder_watcher.cpp 8-21 and dns_server.cpp 23-45: one client at a time,   *)
(* whatever it asks for and whatever its command throws, and the start and   *)
(* stop of the Engine never make the Engine terminate itself.  It does if    *)
(* two calls on the watcher or on DNS overlap, if the watcher's thread could *)
(* not open the root and the watcher is started again or destroyed, or if    *)
(* the refresh of Engine::start or of the callback ends by an exception.     *)
TerminatesOnlyByOverlap ==
  terminated => overlapped # {} \/ watcher = "failed" \/ escaped

(* dns_server.cpp 23-46: when no call on DNS is under way and none has ever  *)
(* overlapped, DNS is on, with the port, its socket and its thread, or off   *)
(* without them: a restart never finds the old socket in its way.            *)
DnsIsOnOrOff ==
  "dns" \notin overlapped /\ (\A t \in Threads : ~InCall(t, D!DnsSteps)) =>
    IF answering THEN bound /\ socket /\ responder \in {"test", "recv"}
                 ELSE ~bound /\ responder = "none"

(* The guards of EngineRuns, and what makes its steps change something: at   *)
(* rest no thread of the Engine can do anything but wait.                    *)
Now(t) == IF pc[t] = <<>> THEN "none" ELSE Head(pc[t])

Going(t) ==
  /\ pc[t] # <<>>
  /\ Now(t) = "refresh" => holder = Nobody
  /\ Now(t) = "refreshing" => holder = t
  /\ Now(t) = "join" => watcher \in {"none", "ended", "failed"}
  /\ Now(t) = "joinDns" => responder \in {"none", "ended"}
  /\ Now(t) = "joinWorkers" => ipc # "stuck" /\ \A w \in Workers : pc[w] = <<>>
  /\ Now(t) = "await" => stopEvent

CanMove ==
  /\ ~terminated
  /\ \/ \E t \in Threads : Going(t)
     \/ watcher \in {"open", "test", "enter", "changed"}
     \/ watcher = "read" /\ notes \in {"change", "overflow"}
     \/ watcher = "call" /\ (callback = "lock" => holder = Nobody) /\ (callback = "refresh" => holder = Watcher)
     \/ responder = "test" /\ (answering => socket)
     \/ responder = "recv" /\ mail

AtRest == ~CanMove

(* service_main 39-44, Engine::stop: nothing rests before a stop that the    *)
(* handler took has completed, although the threads it joins refresh, wait   *)
(* for refresh_mutex_ or block in a read.  The exceptions: a cancellation    *)
(* came before the read it was for, calls on the watcher overlapped, a stop  *)
(* of DNS sent no datagram, or the pipe server's stop does not return.       *)
StopFails == terminated \/ missed \/ "watcher" \in overlapped \/ lost \/ ipc = "stuck"

StopCompletes == scm = "stopPending" /\ AtRest => StopFails

(* README.md 21, engine.cpp 252-257: a change that the watcher's handle has  *)
(* recorded leads to a refresh that begins after it, unless the watcher is   *)
(* stopped, so many changes follow that none is reported, or the Engine has  *)
(* not set running_ yet.  What that refresh comes to is not said.  The       *)
(* exception: calls on the watcher overlapped; two config.set at once may    *)
(* close the handle that recorded the change after running_ is set again.    *)
ChangesAreRefreshed == owed /\ AtRest => terminated \/ "watcher" \in overlapped

(* The same two, of what happens in the end: the Engine's threads do not go  *)
(* round without completing the stop, even one that service_main has         *)
(* reported RUNNING over, or without a scan.                                 *)
EveryWaitEnds ==
  []<>(/\ stopEvent => scm = "stopped" \/ StopFails
       /\ owed => terminated \/ "watcher" \in overlapped)
=============================================================================
