----------------------------- MODULE PipeServer -----------------------------
(***************************************************************************)
(* The Engine's named-pipe server, engine/ipc/pipe_server.cpp: the accept  *)
(* thread, one worker thread per connection, one writer thread per         *)
(* subscriber, the threads that broadcast and the thread that stops the    *)
(* server.                                                                 *)
(*                                                                         *)
(* A connection is named by its client.  Waiting on subscriber->ready is   *)
(* three states, as in the C++ library: "check" is about to take the mutex *)
(* and evaluate the predicate, "presleep" found it false and still holds   *)
(* the mutex, "asleep" has released it.  A notification reaches a thread   *)
(* only in "asleep"; the mutex keeps out of "presleep" only those who take *)
(* it, and of the four places that change a predicate only broadcast does. *)
(*                                                                         *)
(* The pipe delivers what is written, in order, while both ends are open;  *)
(* its buffer never fills.                                                 *)
(***************************************************************************)
EXTENDS Naturals, Sequences, SequencesExt

CONSTANTS
  Clients,       \* UI connections
  Broadcasters,  \* threads that call broadcast
  MaxEvents      \* bound: broadcasts of each of them

ASSUME MaxEventsAssumption == MaxEvents \in Nat

Wake   == "wake"   \* the connection stop() opens to release the accept thread
Nobody == "nobody"
Conns  == Clients \union {Wake}
Events == Broadcasters \X (1..MaxEvents)
Answer == <<"answer", 0>>

ASSUME NamesAssumption ==
  /\ Wake \notin Clients /\ Nobody \notin Conns
  /\ "answer" \notin Broadcasters
  /\ {"idle", "push"} \intersect Conns = {}

VARIABLES
  running,     \* running_
  acceptor,    \* pc of the accept thread
  instance,    \* who has the pipe instance the accept thread created: Nobody, or a connection
  client,      \* what each client has done: none, connected, subscribe or command (sent), closed
  worker,      \* pc of serve_client, per connection
  writer,      \* pc of the writer thread, per connection
  subscribers, \* subscribers_
  alive,       \* Subscriber::running
  messages,    \* Subscriber::messages
  inHand,      \* the message the writer has popped
  pipe,        \* the server's end of the pipe is connected
  got,         \* what has been written to the client
  caster,      \* pc of each broadcaster: idle, push, or the connection it is about to notify
  snapshot,    \* the copy of subscribers_ a broadcaster still has to serve
  sent,        \* broadcasts each broadcaster has begun
  due,         \* history: events begun after the client had its answer
  stopper,     \* pc of stop()
  toStop,      \* the copy of subscribers_ that stop() still has to release
  missed       \* history: a wake-up of the shutdown came before the wait it was for

serverVars == <<running, acceptor, instance>>
ioVars     == <<alive, inHand, pipe, got>>
connVars   == <<worker, writer, ioVars>>
castVars   == <<caster, snapshot, sent, due>>
stopVars   == <<stopper, toStop, missed>>
others     == <<serverVars, client, subscribers, messages, castVars, stopVars>>
vars == <<serverVars, client, connVars, subscribers, messages, castVars, stopVars>>

TypeOK ==
  /\ running \in BOOLEAN
  /\ acceptor \in {"test", "create", "connect", "done"}
  /\ instance \in Conns \union {Nobody}
  /\ client \in [Conns -> {"none", "connected", "subscribe", "command", "closed"}]
  /\ worker \in [Conns -> {"none", "read", "register", "answer", "check", "presleep", "asleep",
                           "erase", "release", "join", "done"}]
  /\ writer \in [Conns -> {"none", "test", "check", "presleep", "asleep", "write", "done"}]
  /\ subscribers \subseteq Conns /\ toStop \subseteq Conns
  /\ alive \in [Conns -> BOOLEAN] /\ pipe \in [Conns -> BOOLEAN]
  /\ messages \in [Conns -> Seq(Events)]
  /\ inHand \in [Conns -> {<<>>} \union {<<e>> : e \in Events}]
  /\ got \in [Conns -> Seq(Events \union {Answer})]
  /\ caster \in [Broadcasters -> {"idle", "push"} \union Conns]
  /\ snapshot \in [Broadcasters -> SUBSET Conns]
  /\ sent \in [Broadcasters -> 0..MaxEvents]
  /\ due \in [Conns -> SUBSET Events]
  /\ stopper \in {"idle", "wake", "joinAccept", "copy", "release", "joinWorkers", "clear", "returned"}
  /\ missed \in BOOLEAN

(* start() has just been called by Engine::start.                            *)
Init ==
  /\ running = TRUE /\ acceptor = "test" /\ instance = Nobody
  /\ client = [c \in Conns |-> "none"]
  /\ worker = [c \in Conns |-> "none"] /\ writer = [c \in Conns |-> "none"]
  /\ subscribers = {} /\ toStop = {}
  /\ alive = [c \in Conns |-> TRUE] /\ pipe = [c \in Conns |-> FALSE]
  /\ messages = [c \in Conns |-> <<>>] /\ inHand = [c \in Conns |-> <<>>]
  /\ got = [c \in Conns |-> <<>>]
  /\ caster = [b \in Broadcasters |-> "idle"] /\ snapshot = [b \in Broadcasters |-> {}]
  /\ sent = [b \in Broadcasters |-> 0] /\ due = [c \in Conns |-> {}]
  /\ stopper = "idle" /\ missed = FALSE

-----------------------------------------------------------------------------
(* The accept thread, run().                                                 *)

AcceptTest ==
  /\ acceptor = "test"
  /\ acceptor' = IF running THEN "create" ELSE "done"
  /\ UNCHANGED <<running, instance, client, connVars, subscribers, messages, castVars, stopVars>>

AcceptCreate ==
  /\ acceptor = "create" /\ acceptor' = "connect"
  /\ UNCHANGED <<running, instance, client, connVars, subscribers, messages, castVars, stopVars>>

(* Somebody opened the instance: a worker serves it.                         *)
AcceptConnected ==
  /\ acceptor = "connect" /\ instance # Nobody
  /\ acceptor' = "test" /\ instance' = Nobody
  /\ worker' = [worker EXCEPT ![instance] = "read"]
  /\ UNCHANGED <<running, client, writer, ioVars, subscribers, messages, castVars, stopVars>>

(* An instance can be opened from its creation on.                           *)
Listening == acceptor = "connect" /\ instance = Nobody

Open(c) ==
  /\ Listening /\ instance' = c
  /\ pipe' = [pipe EXCEPT ![c] = TRUE]
  /\ UNCHANGED <<running, acceptor, worker, writer, alive, inHand, got, subscribers, messages, castVars>>

-----------------------------------------------------------------------------
(* The clients.                                                              *)

ClientConnect(c) ==
  /\ client[c] = "none" /\ Open(c)
  /\ client' = [client EXCEPT ![c] = "connected"]
  /\ UNCHANGED stopVars

ClientMove(c, from, to) ==
  /\ client[c] \in from
  /\ client' = [client EXCEPT ![c] = to]
  /\ UNCHANGED <<serverVars, connVars, subscribers, messages, castVars, stopVars>>

ClientSend(c)  == \E kind \in {"subscribe", "command"} : ClientMove(c, {"connected"}, kind)
ClientClose(c) == ClientMove(c, {"connected", "subscribe", "command"}, "closed")

-----------------------------------------------------------------------------
(* A worker thread, serve_client.                                            *)

Writable(c) == pipe[c] /\ client[c] # "closed"

Step(c, from, to) == worker[c] = from /\ worker' = [worker EXCEPT ![c] = to]

(* ReadFile, then the handler; reading fails once the client has closed or   *)
(* the pipe was disconnected.                                                *)
WorkerRead(c) ==
  /\ client[c] # "connected"
  /\ Step(c, "read", CASE client[c] = "subscribe" -> "register"
                       [] client[c] = "command"   -> "answer"
                       [] client[c] = "closed"    -> "done")
  /\ UNCHANGED <<others, writer, ioVars>>

WorkerRegisterAndStartWriter(c) ==
  /\ Step(c, "register", "answer")
  /\ subscribers' = subscribers \union {c} /\ writer' = [writer EXCEPT ![c] = "test"]
  /\ UNCHANGED <<serverVars, client, ioVars, messages, castVars, stopVars>>

WorkerRegister(c) ==
  /\ Step(c, "register", "answer")
  /\ subscribers' = subscribers \union {c}
  /\ UNCHANGED <<serverVars, client, writer, ioVars, messages, castVars, stopVars>>

(* Write the answer; a subscriber's writer thread starts after it.           *)
WorkerAnswer(c) ==
  /\ IF Writable(c)
     THEN /\ got' = [got EXCEPT ![c] = Append(@, Answer)]
          /\ Step(c, "answer", IF c \in subscribers THEN "check" ELSE "done")
          /\ writer' = [writer EXCEPT ![c] = IF c \in subscribers THEN "test" ELSE "none"]
          /\ UNCHANGED subscribers
     ELSE /\ Step(c, "answer", "done")
          /\ subscribers' = subscribers \ {c}
          /\ UNCHANGED <<got, writer>>
  /\ UNCHANGED <<serverVars, client, alive, inHand, pipe, messages, castVars, stopVars>>

(* Nobody holds subscriber->mutex.                                           *)
Free(c) == worker[c] # "presleep" /\ writer[c] # "presleep"

WorkerCheck(c) ==
  /\ Free(c)
  /\ Step(c, "check", IF ~running \/ ~alive[c] THEN "erase" ELSE "presleep")
  /\ UNCHANGED <<others, writer, ioVars>>

WorkerSleep(c) ==
  /\ Step(c, "presleep", "asleep")
  /\ UNCHANGED <<others, writer, ioVars>>

WorkerErase(c) ==
  /\ Step(c, "erase", "release")
  /\ subscribers' = subscribers \ {c}
  /\ UNCHANGED <<serverVars, client, writer, ioVars, messages, castVars, stopVars>>

(* ready.notify_all() wakes whoever sleeps.                                  *)
Woken(pc, c) == [pc EXCEPT ![c] = IF @ = "asleep" THEN "check" ELSE @]

WorkerRelease(c) ==
  /\ Step(c, "release", "join")
  /\ alive' = [alive EXCEPT ![c] = FALSE]
  /\ writer' = Woken(writer, c)
  /\ missed' = (missed \/ writer[c] = "presleep")
  /\ UNCHANGED <<serverVars, client, subscribers, messages, castVars, stopper, toStop, inHand, pipe, got>>

WorkerJoinNobody(c) ==
  /\ Step(c, "join", "done")
  /\ pipe' = [pipe EXCEPT ![c] = FALSE]
  /\ UNCHANGED <<others, writer, alive, inHand, got>>

(* The handle closes when serve_client returns.                              *)
WorkerJoin(c) ==
  /\ writer[c] = "done"
  /\ Step(c, "join", "done")
  /\ pipe' = [pipe EXCEPT ![c] = FALSE]
  /\ UNCHANGED <<others, writer, alive, inHand, got>>

Worker(c) ==
  \/ WorkerRead(c) \/ WorkerRegister(c) \/ WorkerAnswer(c) \/ WorkerCheck(c) \/ WorkerSleep(c)
  \/ WorkerErase(c) \/ WorkerRelease(c) \/ WorkerJoin(c)

-----------------------------------------------------------------------------
(* A subscriber's writer thread.                                             *)

WriterStep(c, from, to) == writer[c] = from /\ writer' = [writer EXCEPT ![c] = to]

WriterTest(c) ==
  /\ WriterStep(c, "test", IF alive[c] THEN "check" ELSE "done")
  /\ UNCHANGED <<others, worker, ioVars>>

WriterCheckTakingAll(c) ==
  /\ Free(c) /\ messages[c] # <<>>
  /\ WriterStep(c, "check", "write")
  /\ inHand' = [inHand EXCEPT ![c] = messages[c]] /\ messages' = [messages EXCEPT ![c] = <<>>]
  /\ UNCHANGED <<serverVars, client, worker, alive, pipe, got, subscribers, castVars, stopVars>>

WriterCheckWithoutPop(c) ==
  /\ Free(c) /\ messages[c] # <<>> /\ Len(got[c]) < 4
  /\ WriterStep(c, "check", "write")
  /\ inHand' = [inHand EXCEPT ![c] = <<Head(messages[c])>>]
  /\ UNCHANGED <<others, worker, alive, pipe, got>>

WriterCheck(c) ==
  /\ Free(c)
  /\ \/ /\ messages[c] # <<>>
        /\ WriterStep(c, "check", "write")
        /\ inHand' = [inHand EXCEPT ![c] = <<Head(messages[c])>>]
        /\ messages' = [messages EXCEPT ![c] = Tail(@)]
     \/ /\ messages[c] = <<>>
        /\ WriterStep(c, "check", IF alive[c] THEN "presleep" ELSE "done")
        /\ UNCHANGED <<inHand, messages>>
  /\ UNCHANGED <<serverVars, client, worker, alive, pipe, got, subscribers, castVars, stopVars>>

WriterSleep(c) ==
  /\ WriterStep(c, "presleep", "asleep")
  /\ UNCHANGED <<others, worker, ioVars>>

WriterWrite(c) ==
  /\ IF Writable(c)
     THEN /\ got' = [got EXCEPT ![c] = @ \o inHand[c]]
          /\ WriterStep(c, "write", "test")
          /\ UNCHANGED <<alive, worker>>
     ELSE /\ alive' = [alive EXCEPT ![c] = FALSE]
          /\ worker' = Woken(worker, c)
          /\ WriterStep(c, "write", "done")
          /\ UNCHANGED got
  /\ inHand' = [inHand EXCEPT ![c] = <<>>]
  /\ UNCHANGED <<others, pipe>>

Writer(c) == WriterTest(c) \/ WriterCheck(c) \/ WriterSleep(c) \/ WriterWrite(c)

-----------------------------------------------------------------------------
(* broadcast: copy the list, then push to each member and notify it.         *)

BroadcastBegin(b) ==
  /\ caster[b] = "idle" /\ sent[b] < MaxEvents
  /\ sent' = [sent EXCEPT ![b] = @ + 1]
  /\ snapshot' = [snapshot EXCEPT ![b] = subscribers]
  /\ due' = [c \in Conns |-> IF Answer \in Range(got[c]) /\ client[c] = "subscribe"
                             THEN due[c] \union {<<b, sent'[b]>>} ELSE due[c]]
  /\ caster' = [caster EXCEPT ![b] = "push"]
  /\ UNCHANGED <<serverVars, client, connVars, subscribers, messages, stopVars>>

BroadcastPushUnlocked(b) ==
  /\ caster[b] = "push"
  /\ \E c \in snapshot[b] :
       /\ messages' = [messages EXCEPT ![c] = Append(@, <<b, sent[b]>>)]
       /\ caster' = [caster EXCEPT ![b] = c]
       /\ snapshot' = [snapshot EXCEPT ![b] = @ \ {c}]
  /\ UNCHANGED <<serverVars, client, connVars, subscribers, sent, due, stopVars>>

BroadcastPush(b) ==
  /\ caster[b] = "push"
  /\ \E c \in snapshot[b] :
       /\ Free(c)
       /\ messages' = [messages EXCEPT ![c] = Append(@, <<b, sent[b]>>)]
       /\ caster' = [caster EXCEPT ![b] = c]
       /\ snapshot' = [snapshot EXCEPT ![b] = @ \ {c}]
  /\ UNCHANGED <<serverVars, client, connVars, subscribers, sent, due, stopVars>>

BroadcastNotifyOne(b) ==
  /\ caster[b] \in Conns
  /\ \/ worker' = Woken(worker, caster[b]) /\ UNCHANGED writer
     \/ writer' = Woken(writer, caster[b]) /\ UNCHANGED worker
  /\ caster' = [caster EXCEPT ![b] = "push"]
  /\ UNCHANGED <<serverVars, client, ioVars, subscribers, messages, snapshot, sent, due, stopVars>>

BroadcastNotify(b) ==
  /\ caster[b] \in Conns
  /\ worker' = Woken(worker, caster[b]) /\ writer' = Woken(writer, caster[b])
  /\ caster' = [caster EXCEPT ![b] = "push"]
  /\ UNCHANGED <<serverVars, client, ioVars, subscribers, messages, snapshot, sent, due, stopVars>>

BroadcastEnd(b) ==
  /\ caster[b] = "push" /\ snapshot[b] = {}
  /\ caster' = [caster EXCEPT ![b] = "idle"]
  /\ UNCHANGED <<serverVars, client, connVars, subscribers, messages, snapshot, sent, due, stopVars>>

Broadcast(b) == BroadcastBegin(b) \/ BroadcastPush(b) \/ BroadcastNotify(b) \/ BroadcastEnd(b)

-----------------------------------------------------------------------------
(* stop().                                                                   *)

StopStep(from, to) == stopper = from /\ stopper' = to

StopCalled ==
  /\ StopStep("idle", "wake") /\ running' = FALSE
  /\ UNCHANGED <<acceptor, instance, client, connVars, subscribers, messages, castVars, toStop, missed>>

(* Open the pipe and write one byte; without a free instance that fails.     *)
StopWake ==
  /\ StopStep("wake", "joinAccept")
  /\ \/ Open(Wake) /\ client' = [client EXCEPT ![Wake] = "command"]
     \/ ~Listening /\ UNCHANGED <<serverVars, client, connVars, subscribers, messages, castVars>>
  /\ missed' = (missed \/ acceptor = "create") /\ UNCHANGED toStop

StopJoinAccept ==
  /\ acceptor = "done" /\ StopStep("joinAccept", "copy")
  /\ UNCHANGED <<serverVars, client, connVars, subscribers, messages, castVars, toStop, missed>>

StopCopy ==
  /\ StopStep("copy", "release") /\ toStop' = subscribers
  /\ UNCHANGED <<serverVars, client, connVars, subscribers, messages, castVars, missed>>

StopReleaseUnnotified(c) ==
  /\ stopper = "release" /\ c \in toStop
  /\ toStop' = toStop \ {c}
  /\ alive' = [alive EXCEPT ![c] = FALSE]
  /\ pipe' = [pipe EXCEPT ![c] = FALSE]
  /\ UNCHANGED <<serverVars, client, worker, writer, inHand, got, subscribers, messages, castVars, stopper, missed>>

(* running = false, notify_all and DisconnectNamedPipe for one subscriber.   *)
StopRelease(c) ==
  /\ stopper = "release" /\ c \in toStop
  /\ toStop' = toStop \ {c}
  /\ alive' = [alive EXCEPT ![c] = FALSE]
  /\ worker' = Woken(worker, c) /\ writer' = Woken(writer, c)
  /\ pipe' = [pipe EXCEPT ![c] = FALSE]
  /\ missed' = (missed \/ ~Free(c))
  /\ UNCHANGED <<serverVars, client, inHand, got, subscribers, messages, castVars, stopper>>

StopReleased ==
  /\ toStop = {} /\ StopStep("release", "joinWorkers")
  /\ UNCHANGED <<serverVars, client, connVars, subscribers, messages, castVars, toStop, missed>>

StopJoinWorkers ==
  /\ \A c \in Conns : worker[c] \in {"none", "done"}
  /\ StopStep("joinWorkers", "clear")
  /\ UNCHANGED <<serverVars, client, connVars, subscribers, messages, castVars, toStop, missed>>

StopClear ==
  /\ StopStep("clear", "returned") /\ subscribers' = {}
  /\ UNCHANGED <<serverVars, client, connVars, messages, castVars, toStop, missed>>

Stop ==
  \/ StopWake \/ StopJoinAccept \/ StopCopy \/ (\E c \in Conns : StopRelease(c))
  \/ StopReleased \/ StopJoinWorkers \/ StopClear

Accept == AcceptTest \/ AcceptCreate \/ AcceptConnected

Next ==
  \/ Accept \/ StopCalled \/ Stop
  \/ \E c \in Clients : ClientConnect(c) \/ ClientSend(c) \/ ClientClose(c)
  \/ \E c \in Conns : Worker(c) \/ Writer(c)
  \/ \E b \in Broadcasters : Broadcast(b)

Threads ==
  \/ Accept \/ Stop
  \/ \E c \in Conns : Worker(c) \/ Writer(c)
  \/ \E c \in Clients : ClientSend(c)
  \/ \E b \in Broadcasters : BroadcastPush(b) \/ BroadcastNotify(b) \/ BroadcastEnd(b)

(* The operating system schedules every runnable thread; clients and the     *)
(* callers of broadcast and stop act when they like, but a client sends the  *)
(* request it connected for.                                                 *)
Fairness ==
  /\ WF_vars(Accept) /\ WF_vars(Stop)
  /\ \A c \in Conns : WF_vars(Worker(c)) /\ WF_vars(Writer(c))
  /\ \A c \in Clients : WF_vars(ClientSend(c))
  /\ \A b \in Broadcasters : WF_vars(BroadcastPush(b) \/ BroadcastNotify(b) \/ BroadcastEnd(b))

Spec == Init /\ [][Next]_vars /\ Fairness

-----------------------------------------------------------------------------
(* Properties.                                                               *)

(* serve_client 91-117: a client that subscribed reads the answer to its     *)
(* request before any event, although it is in subscribers_ before the       *)
(* answer is written and events may be queued for it.                        *)
AnswerFirst == \A c \in Conns : got[c] # <<>> => Head(got[c]) = Answer

(* broadcast and the writer: after the answer, of which there is one, what   *)
(* one thread broadcasts reaches every subscriber in the order it was        *)
(* broadcast, and no event twice.                                            *)
Ordered(s) == \A i, j \in DOMAIN s : i < j /\ s[i][1] = s[j][1] => s[i][2] < s[j][2]
InOrder == AnswerFirst /\ \A c \in Conns : Ordered(got[c])

(* stop 33-52: when stop returns no thread of the server is left.            *)
StopLeavesNothing ==
  stopper = "returned" =>
    /\ acceptor = "done" /\ subscribers = {}
    /\ \A c \in Conns : worker[c] \in {"none", "done"} /\ writer[c] \in {"none", "done"}

(* pipe_server.hpp:21, "Sends a newline-delimited JSON event to every        *)
(* subscribed UI client": a client that has its answer gets each event       *)
(* broadcast after that, unless it closes or the server stops.               *)
EventsReachSubscribers ==
  \A c \in Clients, e \in Events :
    e \in due[c] ~> (e \in Range(got[c]) \/ client[c] = "closed" \/ ~running)

(* The guards of the threads' next steps; no step leaves everything as it    *)
(* is, so the threads are at rest when none of Threads is enabled.           *)
CanMove ==
  \/ acceptor \in {"test", "create"}
  \/ acceptor = "connect" /\ instance # Nobody
  \/ stopper \in {"wake", "copy", "release", "clear"}
  \/ stopper = "joinAccept" /\ acceptor = "done"
  \/ stopper = "joinWorkers" /\ \A c \in Conns : worker[c] \in {"none", "done"}
  \/ \E c \in Conns :
       \/ worker[c] = "read" /\ client[c] # "connected"
       \/ worker[c] \in {"register", "answer", "presleep", "erase", "release"}
       \/ worker[c] = "check" /\ Free(c)
       \/ worker[c] = "join" /\ writer[c] = "done"
       \/ writer[c] \in {"test", "presleep", "write"}
       \/ writer[c] = "check" /\ Free(c)
  \/ \E c \in Clients : client[c] = "connected"
  \/ \E b \in Broadcasters :
       \/ caster[b] \in Conns
       \/ caster[b] = "push" /\ (snapshot[b] = {} \/ \E c \in snapshot[b] : Free(c))
AtRest == ~CanMove

(* stop 33-52: stop does not rest before it has returned, unless a wake-up   *)
(* was for nothing: no pipe instance was there between the accept thread's   *)
(* test of running_ and its CreateNamedPipeW, or a notification fell between *)
(* a thread's evaluation of its predicate and its sleep, since neither       *)
(* running_ nor subscriber->running changes under the mutex.                 *)
StopReturnsUnlessMissed == stopper # "idle" /\ AtRest => stopper = "returned" \/ missed

(* broadcast 54-66 with the writer's wait: when the threads rest, every       *)
(* client that is there has what was broadcast since its answer: no event    *)
(* stays in a queue whose writer sleeps, or in the hands of a broadcaster.   *)
NoEventIsLeft ==
  running /\ AtRest => \A c \in Clients : client[c] = "closed" \/ due[c] \subseteq Range(got[c])
=============================================================================
