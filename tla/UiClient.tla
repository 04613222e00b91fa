------------------------------- MODULE UiClient -------------------------------
(***************************************************************************)
(* The UI's end of the pipe: PipeClient (appytizer-ui/ipc/pipe_client.cpp) *)
(* with its listener and a thread for each request, the window's handlers  *)
(* (appytizer-ui/main.cpp), which run one at a time off FLTK's queue, and  *)
(* what the Engine does for them (engine/engine.cpp): a command changes    *)
(* the services, publishes a snapshot of them and answers with another.    *)
(*                                                                         *)
(* The state of the services is a number that each change increases.       *)
(* PipeServer has the Engine's threads; here a subscription is answered in *)
(* one step, and events reach the pipe in the order of broadcast.  Of the  *)
(* requests of a refresh only service.list is modelled, of the events only *)
(* status.update, and of what changes services the commands and the start  *)
(* of the Engine; a free pipe instance comes within connect_pipe's tries.  *)
(***************************************************************************)
EXTENDS Integers, Sequences, Bags, BagsExt, FiniteSetsExt

CONSTANTS
  MaxEvents  \* bound: commands of the user and absences of the Engine, together

ASSUME BoundsAssumption == MaxEvents \in Nat \ {0}

(* Beside the numbers of states: what a failed request carries and the       *)
(* window then shows; what it shows at first; two events read as one text.   *)
Offline == -1
Unknown == -2
Garbled == -3

VARIABLES
  up,         \* the Engine runs
  status,     \* the state of its services
  pc,         \* the listener
  listening,  \* listening_
  offlineAnnounced,  \* offline_announced
  conn,       \* the listener's connection: none, open, subscribed, broken
  pipe,       \* what waits in it: the answer, which is Unknown, and snapshots
  requests,   \* a bag of threads: a request's kind, step, what it carries, the epoch it was made in
  queue,      \* FLTK's queue of tasks, each a kind with what it carries
  announced,  \* history: the last of connected and disconnected to be queued
  view,       \* what the window shows of the services
  ui,         \* the window's thread: run, or where in ~PipeClient: cancel, join, gone
  epoch,      \* history: how often the window has heard of a connection
  garbled,    \* history: two events were read as one
  overtaken,  \* history: the window replaced what it showed by something older
  silent,     \* history: a command failed after it had changed the services
  missed,     \* history: the cancellation came before the read it was for
  events

engine   == <<up, status>>
wire     == <<conn, pipe>>
listener == <<pc, listening, offlineAnnounced, garbled>>
tasks    == <<queue, announced>>
window   == <<view, ui, epoch, overtaken, missed>>
vars == <<engine, wire, listener, tasks, window, requests, silent, events>>

TypeOK ==
  /\ up \in BOOLEAN /\ status \in Nat
  /\ pc \in {"connect", "wait", "answer", "test", "enter", "reading", "lost", "ended"}
  /\ listening \in BOOLEAN /\ offlineAnnounced \in BOOLEAN
  /\ conn \in {"none", "open", "subscribed", "broken"} /\ (pc \in {"connect", "wait", "ended"} <=> conn = "none")
  /\ pipe \in Seq(Nat \union {Unknown})
  /\ IsABag(requests)
  /\ DOMAIN requests \subseteq [kind : {"list", "command", "stop_all"}, value : Nat \union {Offline},
                               step : {"connect", "change", "snapshot", "broadcast", "answer", "dispatch"},
                               epoch : Nat]
  /\ queue \in Seq([kind : {"connected", "disconnected", "event", "list", "command", "stop_all"},
                    value : Nat \union {Offline, Garbled}, epoch : Nat])
  /\ announced \in {"none", "connected", "disconnected"}
  /\ view \in Nat \union {Offline, Unknown} /\ ui \in {"run", "cancel", "join", "gone"} /\ epoch \in Nat
  /\ garbled \in BOOLEAN /\ overtaken \in BOOLEAN /\ silent \in BOOLEAN /\ missed \in BOOLEAN
  /\ events \in 0..MaxEvents

Request(kind, since)     == [kind |-> kind, step |-> "connect", value |-> 0, epoch |-> since]
Task(kind, value, since) == [kind |-> kind, value |-> value, epoch |-> since]

(* App() subscribes and refreshes.                                           *)
Init ==
  /\ up \in BOOLEAN /\ status = 0
  /\ pc = "connect" /\ listening = TRUE /\ offlineAnnounced = FALSE /\ conn = "none" /\ pipe = <<>>
  /\ requests = SetToBag({Request("list", 0)}) /\ queue = <<>> /\ announced = "none"
  /\ view = Unknown /\ ui = "run" /\ epoch = 0
  /\ garbled = FALSE /\ overtaken = FALSE /\ silent = FALSE /\ missed = FALSE
  /\ events = IF up THEN 0 ELSE 1

-----------------------------------------------------------------------------
(* The listener.                                                             *)

Announce(kind) == queue' = Append(queue, Task(kind, 0, 0)) /\ announced' = kind

AnnounceEachTime == Announce("disconnected") /\ UNCHANGED offlineAnnounced

(* An outage is announced once, however often connecting fails.              *)
AnnounceOffline ==
  IF offlineAnnounced THEN UNCHANGED <<tasks, offlineAnnounced>>
                      ELSE Announce("disconnected") /\ offlineAnnounced' = TRUE

Elsewhere == UNCHANGED <<engine, window, requests, silent, events, listening>>

Connect ==
  /\ pc = "connect" /\ UNCHANGED <<pipe, garbled>> /\ Elsewhere
  /\ IF ~listening THEN pc' = "ended" /\ UNCHANGED <<conn, tasks, offlineAnnounced>>
     ELSE IF up    THEN pc' = "answer" /\ conn' = "open" /\ UNCHANGED <<tasks, offlineAnnounced>>
                   ELSE pc' = "wait" /\ AnnounceOffline /\ UNCHANGED conn

(* The delay ends, or stop_event_ is set.                                    *)
Wait ==
  /\ pc = "wait" /\ pc' = IF listening THEN "connect" ELSE "ended"
  /\ UNCHANGED <<wire, tasks, offlineAnnounced, garbled>> /\ Elsewhere

(* The answer, with whatever events came right behind it.                    *)
ReadAnswer ==
  /\ pc = "answer" /\ pipe # <<>> /\ pipe' = <<>> /\ pc' = "test"
  /\ offlineAnnounced' = FALSE /\ Announce("connected")
  /\ UNCHANGED <<conn, garbled>> /\ Elsewhere

TestListening ==
  /\ pc = "test" /\ pc' = IF listening THEN "enter" ELSE "lost"
  /\ UNCHANGED <<wire, tasks, offlineAnnounced, garbled>> /\ Elsewhere

EnterRead ==
  /\ pc = "enter" /\ pc' = "reading"
  /\ UNCHANGED <<wire, tasks, offlineAnnounced, garbled>> /\ Elsewhere

(* The client's end is in byte mode: one read takes all that is there.       *)
ReadEvents ==
  /\ pc = "reading" /\ pipe # <<>> /\ pipe' = <<>> /\ pc' = "test"
  /\ queue' = Append(queue, Task("event", IF Len(pipe) = 1 THEN pipe[1] ELSE Garbled, 0))
  /\ garbled' = (garbled \/ Len(pipe) > 1)
  /\ UNCHANGED <<conn, announced, offlineAnnounced>> /\ Elsewhere

ReadFailsAndRetries ==
  /\ pc \in {"answer", "reading"} /\ pipe = <<>> /\ conn = "broken" /\ pc' = "connect"
  /\ UNCHANGED <<wire, tasks, offlineAnnounced, garbled>> /\ Elsewhere

ReadFails ==
  /\ pc \in {"answer", "reading"} /\ pipe = <<>> /\ conn = "broken" /\ pc' = "lost"
  /\ UNCHANGED <<wire, tasks, offlineAnnounced, garbled>> /\ Elsewhere

LoseForGood ==
  /\ pc = "lost" /\ pc' = "ended" /\ conn' = "none" /\ pipe' = <<>>
  /\ IF listening THEN AnnounceOffline ELSE UNCHANGED <<tasks, offlineAnnounced>>
  /\ UNCHANGED garbled /\ Elsewhere

Lose ==
  /\ pc = "lost" /\ pc' = "connect" /\ conn' = "none" /\ pipe' = <<>>
  /\ IF listening THEN AnnounceOffline ELSE UNCHANGED <<tasks, offlineAnnounced>>
  /\ UNCHANGED garbled /\ Elsewhere

Listener ==
  \/ Connect \/ Wait \/ ReadAnswer \/ TestListening
  \/ EnterRead \/ ReadEvents \/ ReadFails \/ Lose

-----------------------------------------------------------------------------
(* Requests, and the Engine that handles them.                               *)

AnswerSubscription ==
  /\ up /\ pc = "answer" /\ conn = "open" /\ conn' = "subscribed" /\ pipe' = <<Unknown>>
  /\ UNCHANGED <<engine, listener, tasks, window, requests, silent, events>>

Becomes(r, step, value) ==
  requests' = BagAdd(BagRemove(requests, r), [r EXCEPT !.step = step, !.value = value])
Goto(r, step) == Becomes(r, step, r.value)
Outside == UNCHANGED <<listener, conn, window, events>>

Reach(r) ==
  /\ r.step = "connect"
  /\ IF ~up THEN Becomes(r, "dispatch", Offline)
            ELSE Goto(r, IF r.kind = "list" THEN "answer" ELSE "change")
  /\ UNCHANGED <<engine, pipe, tasks, silent>> /\ Outside

(* dns.restart and service.restart may fail to start what they have stopped, *)
(* and publish nothing; their answer shows nothing.                          *)
Change(r) ==
  /\ r.step = "change" /\ status' = status + 1
  /\ \/ Goto(r, "snapshot") /\ UNCHANGED silent
     \/ r.kind = "command" /\ Becomes(r, "dispatch", Offline) /\ silent' = TRUE
  /\ UNCHANGED <<up, pipe, tasks>> /\ Outside

Snapshot(r) ==
  /\ r.step = "snapshot" /\ Becomes(r, "broadcast", status)
  /\ UNCHANGED <<engine, pipe, tasks, silent>> /\ Outside

Broadcast(r) ==
  /\ r.step = "broadcast" /\ Goto(r, "answer")
  /\ pipe' = IF conn = "subscribed" THEN Append(pipe, r.value) ELSE pipe
  /\ UNCHANGED <<engine, tasks, silent>> /\ Outside

Answer(r) ==
  /\ r.step = "answer" /\ Becomes(r, "dispatch", status)
  /\ UNCHANGED <<engine, pipe, tasks, silent>> /\ Outside

DispatchAnswer(r) ==
  /\ r.step = "dispatch" /\ requests' = BagRemove(requests, r)
  /\ queue' = Append(queue, Task(r.kind, r.value, r.epoch))
  /\ UNCHANGED <<engine, pipe, announced, silent>> /\ Outside

RequestStep(r) == Reach(r) \/ Change(r) \/ Snapshot(r) \/ Broadcast(r) \/ Answer(r) \/ DispatchAnswer(r)

Refused(r) ==
  IF r.step \in {"connect", "dispatch"} THEN r ELSE [r EXCEPT !.step = "dispatch", !.value = Offline]

(* Its connections break; requests it has not answered get an empty answer.  *)
EngineEnds ==
  /\ up /\ up' = FALSE /\ events < MaxEvents /\ events' = events + 1
  /\ conn' = IF conn = "none" THEN "none" ELSE "broken"
  /\ requests' = [r \in {Refused(q) : q \in DOMAIN requests} |->
                     MapThenSumSet(LAMBDA q : requests[q], {q \in DOMAIN requests : Refused(q) = r})]
  /\ UNCHANGED <<status, pipe, listener, tasks, window, silent>>

(* Its services are what the new process finds and starts.                   *)
EngineStarts ==
  /\ ~up /\ up' = TRUE /\ status' = status + 1
  /\ UNCHANGED <<wire, listener, tasks, window, requests, silent, events>>

-----------------------------------------------------------------------------
(* The window.                                                               *)

Show(value, since) ==
  /\ view' = value
  /\ overtaken' = (overtaken \/ IF value = Offline THEN since < epoch ELSE value < view)

ShowsNothing == UNCHANGED <<view, overtaken>>
Takes == queue # <<>> /\ ui = "run" /\ queue' = Tail(queue)
Beside == UNCHANGED <<engine, wire, pc, offlineAnnounced, garbled, announced, missed, silent, events>>

HandleConnectedOnly ==
  /\ Takes /\ Head(queue).kind = "connected"
  /\ epoch' = epoch + 1
  /\ UNCHANGED <<requests, listening, ui>> /\ ShowsNothing /\ Beside

HandleConnected ==
  /\ Takes /\ Head(queue).kind = "connected"
  /\ epoch' = epoch + 1 /\ requests' = BagAdd(requests, Request("list", epoch + 1))
  /\ UNCHANGED <<listening, ui>> /\ ShowsNothing /\ Beside

HandleDisconnected ==
  /\ Takes /\ Head(queue).kind = "disconnected"
  /\ view' = Offline /\ UNCHANGED <<overtaken, requests, listening, ui, epoch>> /\ Beside

(* A text that cannot be parsed is dropped; so is a command's error.         *)
HandleState ==
  /\ Takes /\ Head(queue).kind \in {"event", "list", "command"}
  /\ LET task == Head(queue)
     IN IF task.value = Garbled \/ (task.kind = "command" /\ task.value = Offline)
        THEN ShowsNothing ELSE Show(task.value, task.epoch)
  /\ UNCHANGED <<requests, listening, ui, epoch>> /\ Beside

(* The window closes and ~PipeClient begins.  The tasks left will not run,   *)
(* and the threads of other requests, detached, are left out from here on.   *)
Quit ==
  /\ ui = "run" /\ ui' = "cancel" /\ listening' = FALSE /\ queue' = <<>> /\ requests' = EmptyBag
  /\ UNCHANGED epoch /\ ShowsNothing /\ Beside

(* Any answer to stop_all ends the window.                                   *)
HandleStopAll == queue # <<>> /\ Head(queue).kind = "stop_all" /\ Quit

(* "Exit" leaves the Engine as it is.                                        *)
TrayExit == Quit

UserCommand ==
  /\ ui = "run" /\ events < MaxEvents /\ events' = events + 1
  /\ \E kind \in {"command", "stop_all"} : requests' = BagAdd(requests, Request(kind, 0))
  /\ UNCHANGED <<engine, wire, listener, tasks, view, ui, epoch, overtaken, missed, silent>>

Afterwards ==
  UNCHANGED <<engine, wire, listening, offlineAnnounced, garbled, tasks, view, epoch, overtaken,
              requests, silent, events>>

CancelNothing ==
  /\ ui = "cancel" /\ ui' = "join" /\ UNCHANGED <<pc, missed>> /\ Afterwards

(* CancelSynchronousIo ends the read the listener is in, if it is in one.    *)
Cancel ==
  /\ ui = "cancel" /\ ui' = "join"
  /\ pc' = IF pc \in {"answer", "reading"} THEN "lost" ELSE pc
  /\ missed' = (pc = "enter")
  /\ Afterwards

Join == ui = "join" /\ pc = "ended" /\ ui' = "gone" /\ UNCHANGED <<pc, missed>> /\ Afterwards

Next ==
  \/ Listener \/ AnswerSubscription \/ EngineEnds \/ EngineStarts
  \/ \E r \in DOMAIN requests : RequestStep(r)
  \/ HandleConnected \/ HandleDisconnected \/ HandleState \/ HandleStopAll \/ TrayExit
  \/ UserCommand \/ Cancel \/ Join

Spec == Init /\ [][Next]_vars

-----------------------------------------------------------------------------
(* Properties.                                                               *)

(* pipe_client.cpp 59-87: however connecting, reading and the end of the     *)
(* Engine interleave, connected and disconnected are announced in turns.     *)
AnnouncementsAlternate ==
  [][\A kind \in {"connected", "disconnected"} :
       queue' = Append(queue, Task(kind, 0, 0)) => announced # kind]_vars

(* pipe_client.cpp 73-80 with main.cpp 670-711: when the listener reads from *)
(* a running Engine and nothing is under way, the window shows the state the *)
(* services are in: what changed before the subscription is in the refresh   *)
(* that follows it, what changed after it in an event.  Not when two events  *)
(* were read as one, when a later state was overtaken by an earlier one or   *)
(* by the failure of an earlier request, or when a failed command published  *)
(* nothing.                                                                  *)
WindowFollowsEngine ==
  /\ up /\ pc = "reading" /\ conn = "subscribed" /\ ui = "run"
  /\ pipe = <<>> /\ queue = <<>> /\ requests = EmptyBag
  /\ ~garbled /\ ~overtaken /\ ~silent
  => view = status

(* The guards of the steps that the listener, the answer to its subscription *)
(* and the closing of the window take of themselves.                         *)
CanMove ==
  \/ pc \in {"connect", "wait", "test", "enter", "lost"}
  \/ pc = "answer" /\ (pipe # <<>> \/ conn = "broken" \/ (up /\ conn = "open"))
  \/ pc = "reading" /\ (pipe # <<>> \/ conn = "broken")
  \/ ui = "cancel"
  \/ ui = "join" /\ pc = "ended"
AtRest == ~CanMove

(* pipe_client.cpp 63-71, 84-85: whatever outages there were, while the      *)
(* Engine runs the listener does not rest before it is subscribed to it.     *)
Subscribed == conn = "subscribed" /\ pc = "reading"
Reconnects == up /\ ui = "run" /\ AtRest => Subscribed

(* pipe_client.cpp 33-39: once the window has closed, its thread and the      *)
(* listener do not rest before they have ended, unless the listener was just *)
(* about to read when its read was cancelled.                                *)
QuitCompletes == ui # "run" /\ AtRest => ui = "gone" \/ missed

(* Neither the listener nor the window waits for what nobody will bring.     *)
RestsOnlyWhenDone == Reconnects /\ QuitCompletes
=============================================================================
