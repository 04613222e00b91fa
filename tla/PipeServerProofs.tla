--------------------------- MODULE PipeServerProofs ---------------------------
(***************************************************************************)
(* PipeServer, for any number of clients, broadcasters and events: type    *)
(* correctness, what a stop that has returned leaves, in which order a     *)
(* client gets what is sent to it, and that neither a stop nor an event is *)
(* ever left waiting.                                                      *)
(***************************************************************************)
EXTENDS PipeServer, TLAPS

(* The life of a connection: it is opened once, by somebody; it has no       *)
(* writer and has been sent nothing before its answer, which comes first;    *)
(* its writer does not outlive its worker.                                   *)
Connection(c) ==
  /\ instance = c => worker[c] = "none" /\ client[c] # "none"
  /\ worker[c] # "none" => client[c] # "none"
  /\ worker[c] \in {"none", "read", "register", "answer"} => writer[c] = "none" /\ got[c] = <<>>
  /\ writer[c] # "none" => got[c] # <<>>
  /\ got[c] # <<>> => Head(got[c]) = Answer
  /\ worker[c] = "done" => writer[c] \in {"none", "done"}

(* How far stop() has come says what has ended.                              *)
Stopping ==
  /\ stopper \in {"idle", "wake"} => client[Wake] = "none"
  /\ stopper \in {"copy", "release", "joinWorkers", "clear", "returned"} => acceptor = "done"
  /\ stopper \in {"clear", "returned"} => \A c \in Conns : worker[c] \in {"none", "done"}
  /\ stopper = "returned" => subscribers = {}

(* A broadcaster at work is at its first event or a later one.               *)
Casting(b) == caster[b] # "idle" => sent[b] # 0

Inv ==
  /\ TypeOK /\ Stopping
  /\ \A c \in Conns : Connection(c)
  /\ \A b \in Broadcasters : Casting(b)

-----------------------------------------------------------------------------
(* Type correctness.                                                         *)

LEMMA WokenType ==
  ASSUME NEW P, NEW pc \in [Conns -> P], "check" \in P, NEW c \in Conns
  PROVE  Woken(pc, c) \in [Conns -> P]
BY DEF Woken

LEMMA InitType == Init => TypeOK
<1> SUFFICES ASSUME Init PROVE TypeOK
  OBVIOUS
<1>1. /\ 0 \in 0..MaxEvents
      /\ <<>> \in Seq(Events) /\ <<>> \in Seq(Events \union {Answer})
  BY MaxEventsAssumption
<1>2. /\ messages \in [Conns -> Seq(Events)] /\ got \in [Conns -> Seq(Events \union {Answer})]
      /\ inHand \in [Conns -> {<<>>} \union {<<e>> : e \in Events}]
  BY <1>1 DEF Init
<1>3. /\ caster \in [Broadcasters -> {"idle", "push"} \union Conns]
      /\ snapshot \in [Broadcasters -> SUBSET Conns] /\ sent \in [Broadcasters -> 0..MaxEvents]
      /\ due \in [Conns -> SUBSET Events]
  BY <1>1 DEF Init
<1> QED
  BY <1>2, <1>3 DEF Init, TypeOK

LEMMA AcceptType == TypeOK /\ Accept => TypeOK'
<1> SUFFICES ASSUME TypeOK, Accept PROVE TypeOK'
  OBVIOUS
<1>1. CASE AcceptTest
  BY <1>1 DEF AcceptTest, TypeOK, connVars, ioVars, castVars, stopVars
<1>2. CASE AcceptCreate
  BY <1>2 DEF AcceptCreate, TypeOK, connVars, ioVars, castVars, stopVars
<1>3. CASE AcceptConnected
  BY <1>3 DEF AcceptConnected, TypeOK, ioVars, castVars, stopVars
<1> QED
  BY <1>1, <1>2, <1>3 DEF Accept

LEMMA ClientType ==
  TypeOK => \A c \in Clients : ClientConnect(c) \/ ClientSend(c) \/ ClientClose(c) => TypeOK'
<1> SUFFICES ASSUME TypeOK, NEW c \in Clients, ClientConnect(c) \/ ClientSend(c) \/ ClientClose(c)
             PROVE  TypeOK'
  OBVIOUS
<1>0. c \in Conns
  BY DEF Conns
<1>1. CASE ClientConnect(c)
  BY <1>0, <1>1 DEF ClientConnect, Open, TypeOK, castVars, stopVars
<1>2. ASSUME NEW from, NEW to \in {"subscribe", "command", "closed"}, ClientMove(c, from, to) PROVE TypeOK'
  BY <1>0, <1>2 DEF ClientMove, TypeOK, serverVars, connVars, ioVars, castVars, stopVars
<1> QED
  BY <1>1, <1>2 DEF ClientSend, ClientClose

LEMMA WorkerType == Inv => \A c \in Conns : Worker(c) => TypeOK'
<1> SUFFICES ASSUME Inv, NEW c \in Conns, Worker(c) PROVE TypeOK'
  OBVIOUS
<1> USE DEF Inv
<1>1. CASE WorkerRead(c)
  <2>1. client[c] \in {"subscribe", "command", "closed"}
    BY <1>1 DEF WorkerRead, Step, TypeOK, Connection
  <2>2. worker' \in [Conns -> {"none", "read", "register", "answer", "check", "presleep", "asleep",
                               "erase", "release", "join", "done"}]
    BY <1>1, <2>1 DEF WorkerRead, Step, TypeOK
  <2> QED
    BY <1>1, <2>2 DEF WorkerRead, TypeOK, others, serverVars, ioVars, castVars, stopVars
<1>2. CASE WorkerRegister(c)
  BY <1>2 DEF WorkerRegister, Step, TypeOK, serverVars, ioVars, castVars, stopVars
<1>3. CASE WorkerAnswer(c)
  <2>1. got[c] \in Seq(Events \union {Answer}) /\ Append(got[c], Answer) \in Seq(Events \union {Answer})
    BY DEF TypeOK
  <2>2. got' \in [Conns -> Seq(Events \union {Answer})]
    BY <1>3, <2>1 DEF WorkerAnswer, TypeOK
  <2>3. /\ worker' \in [Conns -> {"none", "read", "register", "answer", "check", "presleep", "asleep",
                                  "erase", "release", "join", "done"}]
        /\ writer' \in [Conns -> {"none", "test", "check", "presleep", "asleep", "write", "done"}]
        /\ subscribers' \subseteq Conns
    BY <1>3 DEF WorkerAnswer, Step, TypeOK
  <2> QED
    BY <1>3, <2>2, <2>3 DEF WorkerAnswer, TypeOK, serverVars, castVars, stopVars
<1>4. CASE WorkerCheck(c)
  BY <1>4 DEF WorkerCheck, Step, TypeOK, others, serverVars, ioVars, castVars, stopVars
<1>5. CASE WorkerSleep(c)
  BY <1>5 DEF WorkerSleep, Step, TypeOK, others, serverVars, ioVars, castVars, stopVars
<1>6. CASE WorkerErase(c)
  BY <1>6 DEF WorkerErase, Step, TypeOK, serverVars, ioVars, castVars, stopVars
<1>7. CASE WorkerRelease(c)
  BY <1>7, WokenType DEF WorkerRelease, Step, TypeOK, serverVars, castVars
<1>8. CASE WorkerJoin(c)
  BY <1>8 DEF WorkerJoin, Step, TypeOK, others, serverVars, castVars, stopVars
<1> QED
  BY <1>1, <1>2, <1>3, <1>4, <1>5, <1>6, <1>7, <1>8 DEF Worker

LEMMA WriterType == TypeOK => \A c \in Conns : Writer(c) => TypeOK'
<1> SUFFICES ASSUME TypeOK, NEW c \in Conns, Writer(c) PROVE TypeOK'
  OBVIOUS
<1>1. CASE WriterTest(c)
  BY <1>1 DEF WriterTest, WriterStep, TypeOK, others, serverVars, ioVars, castVars, stopVars
<1>2. CASE WriterCheck(c)
  <2>1. writer' \in [Conns -> {"none", "test", "check", "presleep", "asleep", "write", "done"}]
    BY <1>2 DEF WriterCheck, WriterStep, TypeOK
  <2>2. CASE /\ messages[c] # <<>>
             /\ inHand' = [inHand EXCEPT ![c] = <<Head(messages[c])>>]
             /\ messages' = [messages EXCEPT ![c] = Tail(@)]
    <3>1. messages[c] \in Seq(Events) /\ Head(messages[c]) \in Events /\ Tail(messages[c]) \in Seq(Events)
      BY <2>2 DEF TypeOK
    <3>2. inHand' \in [Conns -> {<<>>} \union {<<e>> : e \in Events}] /\ messages' \in [Conns -> Seq(Events)]
      BY <2>2, <3>1 DEF TypeOK
    <3> QED
      BY <1>2, <2>1, <3>2 DEF WriterCheck, TypeOK, serverVars, castVars, stopVars
  <2>3. CASE UNCHANGED <<inHand, messages>>
    BY <1>2, <2>1, <2>3 DEF WriterCheck, TypeOK, serverVars, castVars, stopVars
  <2> QED
    BY <1>2, <2>2, <2>3 DEF WriterCheck
<1>3. CASE WriterSleep(c)
  BY <1>3 DEF WriterSleep, WriterStep, TypeOK, others, serverVars, ioVars, castVars, stopVars
<1>4. CASE WriterWrite(c)
  <2>1. /\ inHand' = [inHand EXCEPT ![c] = <<>>]
        /\ UNCHANGED <<others, pipe>>
        /\ \/ /\ got' = [got EXCEPT ![c] = @ \o inHand[c]]
              /\ writer' = [writer EXCEPT ![c] = "test"]
              /\ UNCHANGED <<alive, worker>>
           \/ /\ alive' = [alive EXCEPT ![c] = FALSE]
              /\ worker' = Woken(worker, c)
              /\ writer' = [writer EXCEPT ![c] = "done"]
              /\ UNCHANGED got
    BY <1>4 DEF WriterWrite, WriterStep
  <2>2. worker' \in [Conns -> {"none", "read", "register", "answer", "check", "presleep", "asleep",
                               "erase", "release", "join", "done"}]
    <3>1. Woken(worker, c) \in [Conns -> {"none", "read", "register", "answer", "check", "presleep", "asleep",
                                          "erase", "release", "join", "done"}]
      BY WokenType DEF TypeOK
    <3> QED
      BY <2>1, <3>1 DEF TypeOK
  <2>3. /\ writer' \in [Conns -> {"none", "test", "check", "presleep", "asleep", "write", "done"}]
        /\ alive' \in [Conns -> BOOLEAN]
    BY <2>1 DEF TypeOK
  <2>4. inHand' \in [Conns -> {<<>>} \union {<<e>> : e \in Events}]
    BY <2>1 DEF TypeOK
  <2>5. got[c] \o inHand[c] \in Seq(Events \union {Answer})
    <3>1. got[c] \in Seq(Events \union {Answer}) /\ inHand[c] \in {<<>>} \union {<<e>> : e \in Events}
      BY DEF TypeOK
    <3>2. CASE inHand[c] = <<>>
      BY <3>1, <3>2
    <3>3. ASSUME NEW e \in Events, inHand[c] = <<e>> PROVE got[c] \o inHand[c] \in Seq(Events \union {Answer})
      <4>1. <<e>> \in Seq(Events \union {Answer})
        OBVIOUS
      <4> QED
        BY <3>1, <3>3, <4>1
    <3> QED
      BY <3>1, <3>2, <3>3
  <2>6. got' \in [Conns -> Seq(Events \union {Answer})]
    BY <2>1, <2>5 DEF TypeOK
  <2> QED
    BY <2>1, <2>2, <2>3, <2>4, <2>6 DEF TypeOK, others, serverVars, castVars, stopVars
<1> QED
  BY <1>1, <1>2, <1>3, <1>4 DEF Writer

LEMMA BroadcastType == Inv => \A b \in Broadcasters : Broadcast(b) => TypeOK'
<1> SUFFICES ASSUME Inv, NEW b \in Broadcasters, Broadcast(b) PROVE TypeOK'
  OBVIOUS
<1> USE DEF Inv
<1>1. CASE BroadcastBegin(b)
  <2>1. sent' \in [Broadcasters -> 0..MaxEvents] /\ sent'[b] \in 1..MaxEvents
    BY <1>1, MaxEventsAssumption DEF BroadcastBegin, TypeOK
  <2>2. due' \in [Conns -> SUBSET Events]
    BY <1>1, <2>1 DEF BroadcastBegin, TypeOK, Events
  <2>3. snapshot' \in [Broadcasters -> SUBSET Conns] /\ caster' \in [Broadcasters -> {"idle", "push"} \union Conns]
    BY <1>1 DEF BroadcastBegin, TypeOK
  <2> QED
    BY <1>1, <2>1, <2>2, <2>3 DEF BroadcastBegin, TypeOK, serverVars, connVars, ioVars, stopVars
<1>2. CASE BroadcastPush(b)
  <2>1. PICK c \in snapshot[b] : /\ messages' = [messages EXCEPT ![c] = Append(@, <<b, sent[b]>>)]
                                 /\ caster' = [caster EXCEPT ![b] = c]
                                 /\ snapshot' = [snapshot EXCEPT ![b] = @ \ {c}]
    BY <1>2 DEF BroadcastPush
  <2>2. c \in Conns /\ UNCHANGED <<serverVars, client, connVars, subscribers, sent, due, stopVars>>
    BY <1>2 DEF BroadcastPush, TypeOK
  <2>3. sent[b] \in 1..MaxEvents
    BY <1>2, MaxEventsAssumption DEF BroadcastPush, Casting, TypeOK
  <2>4. messages[c] \in Seq(Events) /\ <<b, sent[b]>> \in Events
    BY <2>2, <2>3 DEF TypeOK, Events
  <2>5. Append(messages[c], <<b, sent[b]>>) \in Seq(Events)
    BY <2>4
  <2>6. messages' \in [Conns -> Seq(Events)]
    BY <2>1, <2>2, <2>5 DEF TypeOK
  <2>7. caster' \in [Broadcasters -> {"idle", "push"} \union Conns] /\ snapshot' \in [Broadcasters -> SUBSET Conns]
    BY <2>1, <2>2 DEF TypeOK
  <2> QED
    BY <2>2, <2>6, <2>7 DEF TypeOK, serverVars, connVars, ioVars, stopVars
<1>3. CASE BroadcastNotify(b)
  BY <1>3, WokenType DEF BroadcastNotify, TypeOK, serverVars, ioVars, stopVars
<1>4. CASE BroadcastEnd(b)
  BY <1>4 DEF BroadcastEnd, TypeOK, serverVars, connVars, ioVars, stopVars
<1> QED
  BY <1>1, <1>2, <1>3, <1>4 DEF Broadcast

LEMMA StopType == TypeOK /\ (StopCalled \/ Stop) => TypeOK'
<1> SUFFICES ASSUME TypeOK, StopCalled \/ Stop PROVE TypeOK'
  OBVIOUS
<1> USE DEF StopStep
<1>1. CASE StopCalled
  BY <1>1 DEF StopCalled, TypeOK, connVars, ioVars, castVars
<1>2. CASE StopWake
  <2>1. Wake \in Conns
    BY DEF Conns
  <2>2. CASE Open(Wake) /\ client' = [client EXCEPT ![Wake] = "command"]
    BY <1>2, <2>1, <2>2 DEF StopWake, Open, TypeOK, castVars
  <2>3. CASE UNCHANGED <<serverVars, client, connVars, subscribers, messages, castVars>>
    BY <1>2, <2>3 DEF StopWake, TypeOK, serverVars, connVars, ioVars, castVars
  <2> QED
    BY <1>2, <2>2, <2>3 DEF StopWake
<1>3. CASE StopJoinAccept \/ StopCopy \/ StopReleased \/ StopJoinWorkers \/ StopClear
  BY <1>3 DEF StopJoinAccept, StopCopy, StopReleased, StopJoinWorkers, StopClear, TypeOK,
              serverVars, connVars, ioVars, castVars
<1>4. ASSUME NEW c \in Conns, StopRelease(c) PROVE TypeOK'
  BY <1>4, WokenType DEF StopRelease, TypeOK, serverVars, castVars
<1> QED
  BY <1>1, <1>2, <1>3, <1>4 DEF Stop

LEMMA TypeStep == Inv /\ [Next]_vars => TypeOK'
<1> SUFFICES ASSUME Inv, [Next]_vars PROVE TypeOK'
  OBVIOUS
<1>1. CASE UNCHANGED vars
  BY <1>1 DEF Inv, TypeOK, vars, serverVars, connVars, ioVars, castVars, stopVars
<1> QED
  BY <1>1, AcceptType, ClientType, WorkerType, WriterType, BroadcastType, StopType DEF Next, Inv

-----------------------------------------------------------------------------
(* The lives of the connections.                                             *)

LEMMA AcceptConnection == Inv /\ Accept => \A d \in Conns : Connection(d)'
<1> SUFFICES ASSUME Inv, Accept, NEW d \in Conns PROVE Connection(d)'
  OBVIOUS
<1>1. CASE AcceptTest \/ AcceptCreate
  BY <1>1 DEF AcceptTest, AcceptCreate, Inv, Connection, connVars, ioVars
<1>2. CASE AcceptConnected
  BY <1>2, NamesAssumption DEF AcceptConnected, Inv, TypeOK, Connection, ioVars
<1> QED
  BY <1>1, <1>2 DEF Accept

LEMMA ClientConnection ==
  Inv => \A c \in Clients : ClientConnect(c) \/ ClientSend(c) \/ ClientClose(c) => \A d \in Conns : Connection(d)'
<1> SUFFICES ASSUME Inv, NEW c \in Clients, ClientConnect(c) \/ ClientSend(c) \/ ClientClose(c), NEW d \in Conns
             PROVE  Connection(d)'
  OBVIOUS
<1>0. c \in Conns
  BY DEF Conns
<1>1. CASE ClientConnect(c)
  BY <1>0, <1>1 DEF ClientConnect, Open, Inv, TypeOK, Connection
<1>2. ASSUME NEW from, NEW to \in {"subscribe", "command", "closed"}, ClientMove(c, from, to) PROVE Connection(d)'
  BY <1>0, <1>2 DEF ClientMove, Inv, TypeOK, Connection, serverVars, connVars, ioVars
<1> QED
  BY <1>1, <1>2 DEF ClientSend, ClientClose

LEMMA WorkerConnection == Inv => \A c \in Conns : Worker(c) => \A d \in Conns : Connection(d)'
<1> SUFFICES ASSUME Inv, NEW c \in Conns, Worker(c), NEW d \in Conns PROVE Connection(d)'
  OBVIOUS
<1> USE DEF Inv, Step, Connection, serverVars, others, ioVars
<1>1. CASE WorkerRead(c)
  BY <1>1 DEF WorkerRead, TypeOK
<1>2. CASE WorkerRegister(c) \/ WorkerErase(c)
  BY <1>2 DEF WorkerRegister, WorkerErase, TypeOK
<1>3. CASE WorkerAnswer(c)
  <2>1. writer[c] = "none" /\ got[c] = <<>> /\ UNCHANGED <<instance, client>>
    BY <1>3 DEF WorkerAnswer
  <2>2. CASE Writable(c)
    <3>1. Append(<<>>, Answer) # <<>> /\ Head(Append(<<>>, Answer)) = Answer
      OBVIOUS
    <3>2. /\ got' = [got EXCEPT ![c] = Append(<<>>, Answer)]
          /\ \/ worker' = [worker EXCEPT ![c] = "check"] /\ writer' = [writer EXCEPT ![c] = "test"]
             \/ worker' = [worker EXCEPT ![c] = "done"] /\ writer' = [writer EXCEPT ![c] = "none"]
      BY <1>3, <2>1, <2>2 DEF WorkerAnswer
    <3> QED
      BY <1>3, <2>1, <3>1, <3>2 DEF WorkerAnswer, TypeOK
  <2>3. CASE ~Writable(c)
    BY <1>3, <2>1, <2>3 DEF WorkerAnswer, TypeOK
  <2> QED
    BY <2>2, <2>3
<1>4. CASE WorkerCheck(c) \/ WorkerSleep(c)
  BY <1>4 DEF WorkerCheck, WorkerSleep, TypeOK
<1>5. CASE WorkerRelease(c)
  BY <1>5 DEF WorkerRelease, Woken, TypeOK
<1>6. CASE WorkerJoin(c)
  BY <1>6 DEF WorkerJoin, TypeOK
<1> QED
  BY <1>1, <1>2, <1>3, <1>4, <1>5, <1>6 DEF Worker

LEMMA WriterConnection == Inv => \A c \in Conns : Writer(c) => \A d \in Conns : Connection(d)'
<1> SUFFICES ASSUME Inv, NEW c \in Conns, Writer(c), NEW d \in Conns PROVE Connection(d)'
  OBVIOUS
<1> USE DEF Inv, WriterStep, Connection, serverVars, others, ioVars
<1>1. CASE WriterTest(c) \/ WriterSleep(c)
  BY <1>1 DEF WriterTest, WriterSleep, TypeOK
<1>2. CASE WriterCheck(c)
  BY <1>2 DEF WriterCheck, TypeOK
<1>3. CASE WriterWrite(c)
  <2>1. writer[c] = "write" /\ got[c] # <<>> /\ Head(got[c]) = Answer
    BY <1>3 DEF WriterWrite
  <2>2. got[c] \o inHand[c] # <<>> /\ Head(got[c] \o inHand[c]) = Answer
    <3>1. got[c] \in Seq(Events \union {Answer})
      BY DEF TypeOK
    <3>2. CASE inHand[c] = <<>>
      BY <2>1, <3>1, <3>2
    <3>3. ASSUME NEW e \in Events, inHand[c] = <<e>> PROVE got[c] \o inHand[c] # <<>> /\ Head(got[c] \o inHand[c]) = Answer
      BY <2>1, <3>1, <3>3
    <3> QED
      BY <3>2, <3>3 DEF TypeOK
  <2>3. CASE Writable(c)
    BY <1>3, <2>1, <2>2, <2>3 DEF WriterWrite, TypeOK
  <2>4. CASE ~Writable(c)
    BY <1>3, <2>1, <2>4 DEF WriterWrite, Woken, TypeOK
  <2> QED
    BY <2>3, <2>4
<1> QED
  BY <1>1, <1>2, <1>3 DEF Writer

LEMMA BroadcastConnection == Inv => \A b \in Broadcasters : Broadcast(b) => \A d \in Conns : Connection(d)'
<1> SUFFICES ASSUME Inv, NEW b \in Broadcasters, Broadcast(b), NEW d \in Conns PROVE Connection(d)'
  OBVIOUS
<1> USE DEF Inv, Connection, serverVars, connVars, ioVars
<1>1. CASE BroadcastBegin(b) \/ BroadcastPush(b) \/ BroadcastEnd(b)
  BY <1>1 DEF BroadcastBegin, BroadcastPush, BroadcastEnd
<1>2. CASE BroadcastNotify(b)
  BY <1>2 DEF BroadcastNotify, Woken, TypeOK
<1> QED
  BY <1>1, <1>2 DEF Broadcast

LEMMA StopConnection == Inv /\ (StopCalled \/ Stop) => \A d \in Conns : Connection(d)'
<1> SUFFICES ASSUME Inv, StopCalled \/ Stop, NEW d \in Conns PROVE Connection(d)'
  OBVIOUS
<1> USE DEF Inv, Connection, StopStep
<1>1. CASE StopCalled
  BY <1>1 DEF StopCalled, connVars, ioVars
<1>2. CASE StopWake
  BY <1>2 DEF StopWake, Open, Stopping, Conns, TypeOK, serverVars, connVars, ioVars
<1>3. CASE StopJoinAccept \/ StopCopy \/ StopReleased \/ StopJoinWorkers \/ StopClear
  BY <1>3 DEF StopJoinAccept, StopCopy, StopReleased, StopJoinWorkers, StopClear, serverVars, connVars, ioVars
<1>4. ASSUME NEW c \in Conns, StopRelease(c) PROVE Connection(d)'
  BY <1>4 DEF StopRelease, Woken, TypeOK, serverVars
<1> QED
  BY <1>1, <1>2, <1>3, <1>4 DEF Stop

LEMMA ConnectionStep == Inv /\ [Next]_vars => \A d \in Conns : Connection(d)'
<1> SUFFICES ASSUME Inv, [Next]_vars PROVE \A d \in Conns : Connection(d)'
  OBVIOUS
<1>1. CASE UNCHANGED vars
  BY <1>1 DEF Inv, Connection, vars, serverVars, connVars, ioVars
<1> QED
  BY <1>1, AcceptConnection, ClientConnection, WorkerConnection, WriterConnection, BroadcastConnection,
     StopConnection DEF Next

LEMMA CastingStep == Inv /\ [Next]_vars => \A b \in Broadcasters : Casting(b)'
<1> SUFFICES ASSUME Inv, [Next]_vars, NEW b \in Broadcasters PROVE Casting(b)'
  OBVIOUS
<1>1. CASE UNCHANGED castVars
  BY <1>1 DEF Inv, Casting, castVars
<1>2. ASSUME NEW a \in Broadcasters, Broadcast(a) PROVE Casting(b)'
  <2> USE DEF Inv, TypeOK, Casting
  <2>1. CASE BroadcastBegin(a)
    <3>1. sent[a] \in Nat
      BY MaxEventsAssumption
    <3> QED
      BY <2>1, <3>1 DEF BroadcastBegin
  <2>2. CASE BroadcastPush(a)
    BY <2>2 DEF BroadcastPush
  <2>3. CASE BroadcastNotify(a) \/ BroadcastEnd(a)
    BY <2>3, NamesAssumption DEF BroadcastNotify, BroadcastEnd
  <2> QED
    BY <1>2, <2>1, <2>2, <2>3 DEF Broadcast
<1> USE DEF others
<1>3. CASE Accept \/ StopCalled \/ Stop
  BY <1>1, <1>3 DEF Accept, AcceptTest, AcceptCreate, AcceptConnected, StopCalled, Stop, StopWake, Open, StopJoinAccept,
                    StopCopy, StopRelease, StopReleased, StopJoinWorkers, StopClear
<1>4. ASSUME NEW c \in Clients, ClientConnect(c) \/ ClientSend(c) \/ ClientClose(c) PROVE Casting(b)'
  BY <1>1, <1>4 DEF ClientConnect, ClientSend, ClientClose, ClientMove, Open
<1>5. ASSUME NEW c \in Conns, Worker(c) PROVE Casting(b)'
  BY <1>1, <1>5 DEF Worker, WorkerRead, WorkerRegister, WorkerAnswer, WorkerCheck, WorkerSleep, WorkerErase,
                    WorkerRelease, WorkerJoin
<1>6. ASSUME NEW c \in Conns, Writer(c) PROVE Casting(b)'
  BY <1>1, <1>6 DEF Writer, WriterTest, WriterCheck, WriterSleep, WriterWrite
<1> QED
  BY <1>1, <1>2, <1>3, <1>4, <1>5, <1>6 DEF Next, vars

-----------------------------------------------------------------------------
(* How far stop() has come.                                                  *)

LEMMA StoppingStep == Inv /\ [Next]_vars => Stopping'
<1> SUFFICES ASSUME Inv, [Next]_vars PROVE Stopping'
  OBVIOUS
<1> USE DEF Inv, Stopping, serverVars, connVars, ioVars, stopVars, others
<1>0. Wake \in Conns /\ Wake \notin Clients
  BY NamesAssumption DEF Conns
<1>1. CASE UNCHANGED vars
  BY <1>1 DEF vars
<1>2. CASE Accept
  BY <1>2, NamesAssumption DEF Accept, AcceptTest, AcceptCreate, AcceptConnected
<1>3. CASE StopCalled \/ Stop
  <2> USE DEF StopStep
  <2>1. CASE StopCalled \/ StopJoinAccept \/ StopCopy \/ StopReleased \/ StopJoinWorkers \/ StopClear
    BY <2>1 DEF StopCalled, StopJoinAccept, StopCopy, StopReleased, StopJoinWorkers, StopClear
  <2>2. CASE StopWake
    BY <2>2 DEF StopWake, Open
  <2>3. ASSUME NEW c \in Conns, StopRelease(c) PROVE Stopping'
    BY <2>3 DEF StopRelease
  <2> QED
    BY <1>3, <2>1, <2>2, <2>3 DEF Stop
<1>4. ASSUME NEW c \in Clients, ClientConnect(c) \/ ClientSend(c) \/ ClientClose(c) PROVE Stopping'
  BY <1>0, <1>4 DEF ClientConnect, ClientSend, ClientClose, ClientMove, Open, TypeOK
<1>5. ASSUME NEW c \in Conns, Worker(c) PROVE Stopping'
  <2>1. /\ worker[c] \notin {"none", "done"}
        /\ UNCHANGED <<stopper, acceptor, client>>
    BY <1>5 DEF Worker, Step, WorkerRead, WorkerRegister, WorkerAnswer, WorkerCheck, WorkerSleep, WorkerErase,
                WorkerRelease, WorkerJoin
  <2> QED
    BY <2>1
<1>6. ASSUME NEW c \in Conns, Writer(c) PROVE Stopping'
  <2>1. UNCHANGED <<stopper, acceptor, client, subscribers>>
    BY <1>6 DEF Writer, WriterTest, WriterCheck, WriterSleep, WriterWrite
  <2>2. worker' = worker \/ worker' = Woken(worker, c)
    BY <1>6 DEF Writer, WriterTest, WriterCheck, WriterSleep, WriterWrite
  <2> QED
    BY <2>1, <2>2 DEF Woken, TypeOK
<1>7. ASSUME NEW b \in Broadcasters, Broadcast(b) PROVE Stopping'
  <2>1. UNCHANGED <<stopper, acceptor, client, subscribers>>
    BY <1>7 DEF Broadcast, BroadcastBegin, BroadcastPush, BroadcastNotify, BroadcastEnd
  <2>2. worker' = worker \/ \E c \in Conns : worker' = Woken(worker, c)
    BY <1>7 DEF Broadcast, BroadcastBegin, BroadcastPush, BroadcastNotify, BroadcastEnd
  <2> QED
    BY <2>1, <2>2 DEF Woken, TypeOK
<1> QED
  BY <1>1, <1>2, <1>3, <1>4, <1>5, <1>6, <1>7 DEF Next

-----------------------------------------------------------------------------
(* serve_client, broadcast and stop: what the threads, the queues and the    *)
(* pipe of every connection are to each other, at every step of each.        *)
THEOREM Invariant == Spec => []Inv
<1>1. Init => Inv
  <2> SUFFICES ASSUME Init PROVE Inv
    OBVIOUS
  <2>1. Wake \in Conns /\ Nobody \notin Conns
    BY NamesAssumption DEF Conns
  <2>2. Stopping /\ \A c \in Conns : Connection(c)
    BY <2>1 DEF Init, Stopping, Connection
  <2>3. \A b \in Broadcasters : Casting(b)
    BY DEF Init, Casting
  <2> QED
    BY InitType, <2>2, <2>3 DEF Inv
<1>2. Inv /\ [Next]_vars => Inv'
  BY TypeStep, ConnectionStep, StoppingStep, CastingStep DEF Inv
<1> QED
  BY <1>1, <1>2, PTL DEF Spec

(* The variables of the server have their types.                             *)
THEOREM TypeCorrect == Spec => []TypeOK
<1>1. Inv => TypeOK
  BY DEF Inv
<1> QED
  BY <1>1, Invariant, PTL

(* serve_client: nothing reaches a subscriber before its answer, the first   *)
(* part of InOrder.                                                          *)
THEOREM AnswerFirstInvariant == Spec => []AnswerFirst
<1>1. Inv => AnswerFirst
  BY DEF Inv, Connection, AnswerFirst
<1> QED
  BY <1>1, Invariant, PTL

(* stop: when it has returned no thread of the server is left, however many  *)
(* connections there are and however their threads interleave with it.       *)
THEOREM StopInvariant == Spec => []StopLeavesNothing
<1>1. Inv => StopLeavesNothing
  BY DEF Inv, Stopping, Connection, StopLeavesNothing
<1> QED
  BY <1>1, Invariant, PTL

-----------------------------------------------------------------------------
(* The order of what a client gets.  An event goes from messages to inHand   *)
(* to got; what one broadcaster sends is in order in each of the three and   *)
(* from each to the next, and nothing is numbered beyond the broadcast its   *)
(* sender is at, or reaches it while that broadcast is still to be pushed.   *)
Below(s, t) == \A i \in DOMAIN s, j \in DOMAIN t : s[i][1] = t[j][1] => s[i][2] < t[j][2]

Numbered(c, s) ==
  \A i \in DOMAIN s, b \in Broadcasters :
    s[i][1] = b => s[i][2] <= sent[b] /\ (c \in snapshot[b] => s[i][2] < sent[b])

Line(c) ==
  /\ Ordered(got[c]) /\ Ordered(messages[c])
  /\ Below(got[c], inHand[c]) /\ Below(got[c], messages[c]) /\ Below(inHand[c], messages[c])
  /\ Numbered(c, got[c]) /\ Numbered(c, inHand[c]) /\ Numbered(c, messages[c])

(* What is added behind everything that it must follow keeps the order.      *)
LEMMA OrderedAppend ==
  ASSUME NEW S, NEW s \in Seq(S), NEW e \in S, Ordered(s), Below(s, <<e>>)
  PROVE  Ordered(Append(s, e))
<1> DEFINE t == Append(s, e)
<1>1. /\ DOMAIN t = 1..(Len(s) + 1) /\ DOMAIN s = 1..Len(s) /\ Len(s) \in Nat
      /\ t[Len(s) + 1] = e /\ \A i \in 1..Len(s) : t[i] = s[i]
  OBVIOUS
<1>2. \A i \in DOMAIN s : s[i][1] = e[1] => s[i][2] < e[2]
  BY DEF Below
<1> SUFFICES ASSUME NEW i \in DOMAIN t, NEW j \in DOMAIN t, i < j, t[i][1] = t[j][1] PROVE t[i][2] < t[j][2]
  BY DEF Ordered
<1>3. i \in DOMAIN s /\ t[i] = s[i]
  BY <1>1
<1>4. CASE j = Len(s) + 1
  BY <1>1, <1>2, <1>3, <1>4
<1>5. CASE j \in DOMAIN s
  BY <1>1, <1>3, <1>5 DEF Ordered
<1> QED
  BY <1>1, <1>4, <1>5

LEMMA BelowAppend ==
  ASSUME NEW S, NEW r \in Seq(S), NEW s \in Seq(S), NEW e \in S, Below(r, s), Below(r, <<e>>)
  PROVE  Below(r, Append(s, e))
<1> DEFINE t == Append(s, e)
<1>1. /\ DOMAIN t = 1..(Len(s) + 1) /\ DOMAIN s = 1..Len(s) /\ Len(s) \in Nat
      /\ t[Len(s) + 1] = e /\ \A i \in 1..Len(s) : t[i] = s[i]
  OBVIOUS
<1> QED
  BY <1>1 DEF Below

LEMMA AppendBelow ==
  ASSUME NEW S, NEW r \in Seq(S), NEW s \in Seq(S), NEW e \in S, Below(s, r), Below(<<e>>, r)
  PROVE  Below(Append(s, e), r)
<1> DEFINE t == Append(s, e)
<1>1. /\ DOMAIN t = 1..(Len(s) + 1) /\ DOMAIN s = 1..Len(s) /\ Len(s) \in Nat
      /\ t[Len(s) + 1] = e /\ \A i \in 1..Len(s) : t[i] = s[i]
  OBVIOUS
<1> QED
  BY <1>1 DEF Below

LEMMA NumberedAppend ==
  ASSUME NEW S, NEW s \in Seq(S), NEW e \in S, NEW c, Numbered(c, s), Numbered(c, <<e>>)
  PROVE  Numbered(c, Append(s, e))
<1> DEFINE t == Append(s, e)
<1>1. /\ DOMAIN t = 1..(Len(s) + 1) /\ DOMAIN s = 1..Len(s) /\ Len(s) \in Nat
      /\ t[Len(s) + 1] = e /\ \A i \in 1..Len(s) : t[i] = s[i]
  OBVIOUS
<1> QED
  BY <1>1 DEF Numbered

(* Taking the head off a queue splits it in order.                           *)
LEMMA Popped ==
  ASSUME NEW S, NEW s \in Seq(S), s # <<>>, Ordered(s)
  PROVE  Ordered(Tail(s)) /\ Below(<<Head(s)>>, Tail(s))
<1>1. /\ DOMAIN Tail(s) = 1..(Len(s) - 1) /\ DOMAIN s = 1..Len(s) /\ Len(s) \in Nat
      /\ Head(s) = s[1] /\ \A i \in 1..(Len(s) - 1) : Tail(s)[i] = s[i + 1]
  OBVIOUS
<1>2. Ordered(Tail(s))
  BY <1>1 DEF Ordered
<1>3. Below(<<Head(s)>>, Tail(s))
  BY <1>1 DEF Ordered, Below
<1> QED
  BY <1>2, <1>3

LEMMA BelowPopped ==
  ASSUME NEW S, NEW r, NEW s \in Seq(S), s # <<>>, Below(r, s)
  PROVE  Below(r, Tail(s)) /\ Below(r, <<Head(s)>>)
<1>1. /\ DOMAIN Tail(s) = 1..(Len(s) - 1) /\ DOMAIN s = 1..Len(s) /\ Len(s) \in Nat
      /\ Head(s) = s[1] /\ \A i \in 1..(Len(s) - 1) : Tail(s)[i] = s[i + 1]
  OBVIOUS
<1> QED
  BY <1>1 DEF Below

LEMMA NumberedPopped ==
  ASSUME NEW S, NEW c, NEW s \in Seq(S), s # <<>>, Numbered(c, s)
  PROVE  Numbered(c, Tail(s)) /\ Numbered(c, <<Head(s)>>)
<1>1. /\ DOMAIN Tail(s) = 1..(Len(s) - 1) /\ DOMAIN s = 1..Len(s) /\ Len(s) \in Nat
      /\ Head(s) = s[1] /\ \A i \in 1..(Len(s) - 1) : Tail(s)[i] = s[i + 1]
  OBVIOUS
<1> QED
  BY <1>1 DEF Numbered

LEMMA LineFrame ==
  ASSUME NEW c \in Conns, Line(c), UNCHANGED <<got[c], inHand[c], messages[c], sent, snapshot>>
  PROVE  Line(c)'
BY DEF Line, Numbered

LEMMA QueueTypes ==
  ASSUME TypeOK, NEW c \in Conns
  PROVE  messages[c] \in Seq(Events) /\ inHand[c] \in Seq(Events) /\ got[c] \in Seq(Events \union {Answer})
<1>1. /\ messages[c] \in Seq(Events) /\ got[c] \in Seq(Events \union {Answer})
      /\ inHand[c] \in {<<>>} \union {<<e>> : e \in Events}
  BY DEF TypeOK
<1>2. CASE inHand[c] = <<>>
  BY <1>1, <1>2
<1>3. ASSUME NEW e \in Events, inHand[c] = <<e>> PROVE inHand[c] \in Seq(Events)
  BY <1>3
<1> QED
  BY <1>1, <1>2, <1>3

(* The answer is nobody's event.                                             *)
LEMMA AnswerLine == Inv => \A c, d \in Conns : Line(d) /\ WorkerAnswer(c) => Line(d)'
<1> SUFFICES ASSUME Inv, NEW c \in Conns, NEW d \in Conns, Line(d), WorkerAnswer(c) PROVE Line(d)'
  OBVIOUS
<1> USE DEF Inv
<1>0. UNCHANGED <<inHand, messages, sent, snapshot>> /\ got \in [Conns -> Seq(Events \union {Answer})]
  BY DEF WorkerAnswer, castVars, TypeOK
<1>1. CASE UNCHANGED got[d]
  BY <1>0, <1>1, LineFrame
<1>2. CASE ~UNCHANGED got[d]
  <2>1. c = d /\ got[d] = <<>> /\ got'[d] = <<Answer>>
    <3>1. c = d /\ worker[c] = "answer" /\ got' = [got EXCEPT ![c] = Append(@, Answer)]
      BY <1>0, <1>2 DEF WorkerAnswer, Step
    <3>2. Connection(c) /\ got[c] = <<>> /\ Append(<<>>, Answer) = <<Answer>>
      BY <3>1 DEF Connection
    <3> QED
      BY <1>0, <3>1, <3>2
  <2>2. Ordered(<<Answer>>)
    BY DEF Ordered
  <2>3. ASSUME NEW s \in Seq(Events) PROVE Below(<<Answer>>, s)
    BY <2>3, NamesAssumption DEF Below, Events, Answer
  <2>4. Numbered(d, <<Answer>>)'
    BY NamesAssumption DEF Numbered, Answer
  <2>5. messages[d] \in Seq(Events) /\ inHand[d] \in Seq(Events)
    BY QueueTypes
  <2> QED
    BY <1>0, <2>1, <2>2, <2>3, <2>4, <2>5 DEF Line, Numbered
<1> QED
  BY <1>1, <1>2

(* The writer passes the front of the queue on, or drops what it holds.      *)
LEMMA CheckLine == Inv => \A c, d \in Conns : Line(d) /\ WriterCheck(c) => Line(d)'
<1> SUFFICES ASSUME Inv, NEW c \in Conns, NEW d \in Conns, Line(d), WriterCheck(c) PROVE Line(d)'
  OBVIOUS
<1>0. UNCHANGED <<got, sent, snapshot>> /\ TypeOK
  BY DEF WriterCheck, castVars, Inv
<1>1. CASE UNCHANGED <<inHand[d], messages[d]>>
  BY <1>0, <1>1, LineFrame
<1>2. CASE ~UNCHANGED <<inHand[d], messages[d]>>
  <2>1. /\ messages[d] # <<>> /\ inHand'[d] = <<Head(messages[d])>> /\ messages'[d] = Tail(messages[d])
    BY <1>0, <1>2 DEF WriterCheck, TypeOK
  <2>2. messages[d] \in Seq(Events) /\ got[d] \in Seq(Events \union {Answer})
    BY <1>0, QueueTypes
  <2>3. /\ Ordered(Tail(messages[d])) /\ Below(<<Head(messages[d])>>, Tail(messages[d]))
    BY <2>1, <2>2, Popped DEF Line
  <2>4. /\ Below(got[d], Tail(messages[d])) /\ Below(got[d], <<Head(messages[d])>>)
        /\ Numbered(d, Tail(messages[d])) /\ Numbered(d, <<Head(messages[d])>>)
    BY <2>1, <2>2, BelowPopped, NumberedPopped DEF Line
  <2> QED
    BY <1>0, <2>1, <2>3, <2>4 DEF Line, Numbered
<1> QED
  BY <1>1, <1>2

LEMMA WriteLine == Inv => \A c, d \in Conns : Line(d) /\ WriterWrite(c) => Line(d)'
<1> SUFFICES ASSUME Inv, NEW c \in Conns, NEW d \in Conns, Line(d), WriterWrite(c) PROVE Line(d)'
  OBVIOUS
<1>0. UNCHANGED <<messages, sent, snapshot>> /\ TypeOK
  BY DEF WriterWrite, others, castVars, Inv
<1>1. CASE UNCHANGED <<inHand[d], got[d]>>
  BY <1>0, <1>1, LineFrame
<1>2. CASE UNCHANGED got[d] /\ inHand'[d] = <<>>
  <2>1. Below(got[d], <<>>) /\ Below(<<>>, messages[d]) /\ Numbered(d, <<>>)
    BY DEF Below, Numbered
  <2> QED
    BY <1>0, <1>2, <2>1 DEF Line, Numbered
<1>3. ASSUME NEW e \in Events, inHand[d] = <<e>>, got'[d] = Append(got[d], e), inHand'[d] = <<>> PROVE Line(d)'
  <2>1. /\ messages[d] \in Seq(Events \union {Answer}) /\ got[d] \in Seq(Events \union {Answer})
        /\ e \in Events \union {Answer}
    <3>1. messages[d] \in Seq(Events) /\ got[d] \in Seq(Events \union {Answer})
      BY <1>0, QueueTypes
    <3> QED
      BY <3>1
  <2>2. Below(got[d], <<e>>) /\ Below(<<e>>, messages[d]) /\ Numbered(d, <<e>>)
    BY <1>3 DEF Line
  <2>3. /\ Ordered(Append(got[d], e)) /\ Below(Append(got[d], e), messages[d]) /\ Numbered(d, Append(got[d], e))
    BY <2>1, <2>2, OrderedAppend, AppendBelow, NumberedAppend DEF Line
  <2>4. Below(Append(got[d], e), <<>>) /\ Below(<<>>, messages[d]) /\ Numbered(d, <<>>)
    BY DEF Below, Numbered
  <2> QED
    BY <1>0, <1>3, <2>3, <2>4 DEF Line, Numbered
<1>4. \/ UNCHANGED <<inHand[d], got[d]>>
      \/ UNCHANGED got[d] /\ inHand'[d] = <<>>
      \/ \E e \in Events : inHand[d] = <<e>> /\ got'[d] = Append(got[d], e) /\ inHand'[d] = <<>>
  <2>1. got[d] \in Seq(Events \union {Answer}) /\ inHand[d] \in {<<>>} \union {<<e>> : e \in Events}
    BY <1>0 DEF TypeOK
  <2>2. \/ UNCHANGED <<inHand[d], got[d]>>
        \/ UNCHANGED got[d] /\ inHand'[d] = <<>>
        \/ got'[d] = got[d] \o inHand[d] /\ inHand'[d] = <<>>
    <3>1. got \in [Conns -> Seq(Events \union {Answer})] /\ DOMAIN inHand = Conns
      BY <1>0 DEF TypeOK
    <3>2. /\ inHand' = [inHand EXCEPT ![c] = <<>>]
          /\ got' = got \/ got' = [got EXCEPT ![c] = got[c] \o inHand[c]]
      BY <1>0 DEF WriterWrite
    <3>3. got'[d] = got[d] \/ (c = d /\ got'[d] = got[d] \o inHand[d])
      BY <3>1, <3>2
    <3>4. c # d => got'[d] = got[d] /\ inHand'[d] = inHand[d]
      BY <3>1, <3>2
    <3>5. c = d => inHand'[d] = <<>>
      BY <3>1, <3>2
    <3> QED
      BY <3>3, <3>4, <3>5
  <2>3. CASE inHand[d] = <<>> /\ got'[d] = got[d] \o inHand[d]
    <3>1. got[d] \o <<>> = got[d]
      BY <2>1
    <3> QED
      BY <2>2, <2>3, <3>1
  <2>4. ASSUME NEW e \in Events, inHand[d] = <<e>> PROVE got[d] \o inHand[d] = Append(got[d], e)
    BY <2>1, <2>4
  <2> QED
    BY <2>1, <2>2, <2>3, <2>4
<1> QED
  BY <1>1, <1>2, <1>3, <1>4

(* A broadcast begins with a new number, and joins the queue behind it.      *)
LEMMA BeginLine == Inv => \A b \in Broadcasters, d \in Conns : Line(d) /\ BroadcastBegin(b) => Line(d)'
<1> SUFFICES ASSUME Inv, NEW b \in Broadcasters, NEW d \in Conns, Line(d), BroadcastBegin(b) PROVE Line(d)'
  OBVIOUS
<1>1. /\ TypeOK /\ UNCHANGED <<got, inHand, messages>>
      /\ sent' = [sent EXCEPT ![b] = @ + 1] /\ snapshot' = [snapshot EXCEPT ![b] = subscribers]
  BY DEF BroadcastBegin, connVars, ioVars, Inv
<1>2. \A a \in Broadcasters : sent[a] \in Nat /\ sent'[a] = (IF a = b THEN sent[a] + 1 ELSE sent[a])
  BY <1>1, MaxEventsAssumption DEF TypeOK
<1>3. ASSUME NEW s, \A i \in DOMAIN s : s[i][2] \in Nat, Numbered(d, s) PROVE Numbered(d, s)'
  <2> SUFFICES ASSUME NEW i \in DOMAIN s, NEW a \in Broadcasters, s[i][1] = a
               PROVE  s[i][2] <= sent'[a] /\ (d \in snapshot'[a] => s[i][2] < sent'[a])
    BY DEF Numbered
  <2>1. s[i][2] \in Nat /\ s[i][2] <= sent[a] /\ (d \in snapshot[a] => s[i][2] < sent[a])
    BY <1>3 DEF Numbered
  <2>2. a # b => snapshot'[a] = snapshot[a]
    BY <1>1 DEF TypeOK
  <2> QED
    BY <1>2, <2>1, <2>2
<1>4. \A e \in Events \union {Answer} : e[2] \in Nat
  BY MaxEventsAssumption DEF Events, Answer
<1>5. messages[d] \in Seq(Events) /\ inHand[d] \in Seq(Events) /\ got[d] \in Seq(Events \union {Answer})
  BY <1>1, QueueTypes
<1>6. ASSUME NEW s \in Seq(Events \union {Answer}), Numbered(d, s) PROVE Numbered(d, s)'
  BY <1>3, <1>4, <1>6
<1>7. messages[d] \in Seq(Events \union {Answer}) /\ inHand[d] \in Seq(Events \union {Answer})
  BY <1>5
<1>8. Numbered(d, got[d])' /\ Numbered(d, inHand[d])' /\ Numbered(d, messages[d])'
  <2>1. Numbered(d, got[d]) /\ Numbered(d, inHand[d]) /\ Numbered(d, messages[d])
    BY DEF Line
  <2> QED
    BY <1>1, <1>5, <1>6, <1>7, <2>1 DEF Numbered
<1> QED
  BY <1>1, <1>8 DEF Line

LEMMA PushLine == Inv => \A b \in Broadcasters, d \in Conns : Line(d) /\ BroadcastPush(b) => Line(d)'
<1> SUFFICES ASSUME Inv, NEW b \in Broadcasters, NEW d \in Conns, Line(d), BroadcastPush(b) PROVE Line(d)'
  OBVIOUS
<1> DEFINE e == <<b, sent[b]>>
<1>1. PICK c \in snapshot[b] : /\ messages' = [messages EXCEPT ![c] = Append(@, e)]
                               /\ snapshot' = [snapshot EXCEPT ![b] = @ \ {c}]
  BY DEF BroadcastPush
<1>2. TypeOK /\ UNCHANGED <<got, inHand, sent>> /\ c \in Conns
  BY DEF BroadcastPush, connVars, ioVars, Inv, TypeOK
<1>3. ASSUME NEW s, Numbered(d, s) PROVE Numbered(d, s)'
  BY <1>1, <1>2, <1>3 DEF Numbered, TypeOK
<1>4. Numbered(d, got[d])' /\ Numbered(d, inHand[d])'
  BY <1>2, <1>3 DEF Line, Numbered
<1>5. CASE d # c
  <2>1. messages'[d] = messages[d]
    BY <1>1, <1>2, <1>5 DEF TypeOK
  <2> QED
    BY <1>2, <1>3, <1>4, <2>1 DEF Line, Numbered
<1>6. CASE d = c
  <2>1. messages[d] \in Seq(Events) /\ inHand[d] \in Seq(Events) /\ got[d] \in Seq(Events \union {Answer})
    BY <1>2, QueueTypes
  <2>2. e \in Events
    BY MaxEventsAssumption, <1>2 DEF BroadcastPush, Casting, TypeOK, Inv, Events
  <2>3. messages'[d] = Append(messages[d], e)
    BY <1>1, <1>2, <1>6 DEF TypeOK
  <2>4. ASSUME NEW s, Numbered(d, s) PROVE Below(s, <<e>>)
    BY <1>1, <1>6, <2>4 DEF Numbered, Below
  <2>5. Below(messages[d], <<e>>) /\ Below(inHand[d], <<e>>) /\ Below(got[d], <<e>>)
    BY <2>4 DEF Line
  <2>6. Ordered(Append(messages[d], e))
    BY <2>1, <2>2, <2>5, OrderedAppend DEF Line
  <2>7. Below(inHand[d], Append(messages[d], e))
    BY <2>1, <2>2, <2>5, BelowAppend DEF Line
  <2>8. Below(got[d], Append(messages[d], e))
    <3>1. messages[d] \in Seq(Events \union {Answer}) /\ e \in Events \union {Answer}
      BY <2>1, <2>2
    <3> QED
      BY <2>1, <2>5, <3>1, BelowAppend DEF Line
  <2>9. Numbered(d, messages[d])'
    <3> DEFINE t == Append(messages[d], e)
    <3>1. /\ DOMAIN t = 1..(Len(messages[d]) + 1) /\ DOMAIN messages[d] = 1..Len(messages[d])
          /\ Len(messages[d]) \in Nat /\ t[Len(messages[d]) + 1] = e
          /\ \A i \in 1..Len(messages[d]) : t[i] = messages[d][i]
      BY <2>1, <2>2
    <3>2. snapshot'[b] = snapshot[b] \ {c} /\ sent' = sent /\ sent[b] \in Nat
      BY <1>1, <1>2, MaxEventsAssumption DEF TypeOK
    <3>3. \A i \in DOMAIN messages[d], a \in Broadcasters : messages[d][i][1] = a =>
            messages[d][i][2] <= sent'[a] /\ (d \in snapshot'[a] => messages[d][i][2] < sent'[a])
      BY <1>1, <1>2 DEF Line, Numbered, TypeOK
    <3>4. \A a \in Broadcasters : e[1] = a => e[2] <= sent'[a] /\ (d \in snapshot'[a] => e[2] < sent'[a])
      BY <1>6, <3>2
    <3>5. \A i \in DOMAIN t, a \in Broadcasters :
            t[i][1] = a => t[i][2] <= sent'[a] /\ (d \in snapshot'[a] => t[i][2] < sent'[a])
      <4> SUFFICES ASSUME NEW i \in DOMAIN t, NEW a \in Broadcasters, t[i][1] = a
                   PROVE  t[i][2] <= sent'[a] /\ (d \in snapshot'[a] => t[i][2] < sent'[a])
        OBVIOUS
      <4>1. CASE i \in DOMAIN messages[d]
        BY <3>1, <3>3, <4>1
      <4>2. CASE i = Len(messages[d]) + 1
        BY <3>1, <3>4, <4>2
      <4> QED
        BY <3>1, <4>1, <4>2
    <3> QED
      BY <2>3, <3>5 DEF Numbered
  <2> QED
    BY <1>2, <1>4, <2>3, <2>5, <2>6, <2>7, <2>8, <2>9 DEF Line, Numbered
<1> QED
  BY <1>5, <1>6

LEMMA LineStep == Inv /\ [Next]_vars => \A d \in Conns : Line(d) => Line(d)'
<1> SUFFICES ASSUME Inv, [Next]_vars, NEW d \in Conns, Line(d) PROVE Line(d)'
  OBVIOUS
<1>2. CASE UNCHANGED <<got, inHand, messages, sent, snapshot>>
  BY <1>2, LineFrame
<1> USE DEF others, connVars, ioVars, castVars
<1>3. CASE Accept \/ StopCalled \/ Stop
  BY <1>2, <1>3 DEF Accept, AcceptTest, AcceptCreate, AcceptConnected, StopCalled, Stop, StopWake, Open, StopJoinAccept,
                    StopCopy, StopRelease, StopReleased, StopJoinWorkers, StopClear
<1>4. ASSUME NEW c \in Clients, ClientConnect(c) \/ ClientSend(c) \/ ClientClose(c) PROVE Line(d)'
  BY <1>2, <1>4 DEF ClientConnect, ClientSend, ClientClose, ClientMove, Open
<1>5. ASSUME NEW c \in Conns, Worker(c) PROVE Line(d)'
  BY <1>2, <1>5, AnswerLine DEF Worker, WorkerRead, WorkerRegister, WorkerCheck, WorkerSleep, WorkerErase,
                                WorkerRelease, WorkerJoin
<1>6. ASSUME NEW c \in Conns, Writer(c) PROVE Line(d)'
  BY <1>2, <1>6, CheckLine, WriteLine DEF Writer, WriterTest, WriterSleep
<1>7. ASSUME NEW b \in Broadcasters, Broadcast(b) PROVE Line(d)'
  BY <1>2, <1>7, BeginLine, PushLine DEF Broadcast, BroadcastNotify, BroadcastEnd
<1> QED
  BY <1>2, <1>3, <1>4, <1>5, <1>6, <1>7 DEF Next, vars

(* broadcast and the writer: a subscriber gets its answer and then what each *)
(* thread broadcasts in the order it was broadcast and nothing twice, for    *)
(* any number of events, broadcasters and subscribers.                       *)
THEOREM InOrderInvariant == Spec => []InOrder
<1>1. Init => \A c \in Conns : Line(c)
  <2> SUFFICES ASSUME Init, NEW c \in Conns PROVE Line(c)
    OBVIOUS
  <2>1. got[c] = <<>> /\ messages[c] = <<>> /\ inHand[c] = <<>>
    BY DEF Init
  <2> QED
    BY <2>1 DEF Line, Ordered, Below, Numbered
<1>2. Inv /\ (\A c \in Conns : Line(c)) /\ [Next]_vars => (\A c \in Conns : Line(c))'
  BY LineStep
<1>3. (\A c \in Conns : Line(c)) /\ AnswerFirst => InOrder
  BY DEF Line, InOrder
<1> QED
  BY <1>1, <1>2, <1>3, Invariant, AnswerFirstInvariant, PTL DEF Spec

-----------------------------------------------------------------------------
(* Why stop() does not rest before it has returned.                          *)

(* The connection stop opens reaches the accept thread.                      *)
Waking ==
  /\ running <=> stopper = "idle"
  /\ client[Wake] \in {"none", "command"}
  /\ ~missed /\ stopper \notin {"idle", "wake"} =>
       \/ acceptor \in {"test", "done"}
       \/ acceptor = "connect" /\ instance # Nobody

(* A worker that may sleep is in subscribers_; the release of a subscriber   *)
(* by stop wakes it, its own of its writer wakes that, and afterwards        *)
(* neither finds a reason to sleep again.                                    *)
Releasing(c) ==
  /\ worker[c] \in {"check", "presleep", "asleep", "erase"} => c \in subscribers
  /\ worker[c] \in {"check", "presleep", "asleep", "erase", "release", "join"} => writer[c] # "none"
  /\ worker[c] = "join" => ~alive[c]
  /\ ~missed =>
       /\ worker[c] = "join" => writer[c] \notin {"presleep", "asleep"}
       /\ stopper = "release" /\ worker[c] \in {"presleep", "asleep"} => c \in toStop
       /\ stopper \in {"joinWorkers", "clear", "returned"} => worker[c] \notin {"presleep", "asleep"}

LEMMA WorkerFrame ==
  \A c \in Conns : Worker(c) => UNCHANGED <<serverVars, client, stopper, toStop>> /\ (missed => missed')
<1> SUFFICES ASSUME NEW c \in Conns, Worker(c)
             PROVE  UNCHANGED <<serverVars, client, stopper, toStop>> /\ (missed => missed')
  OBVIOUS
<1>1. CASE WorkerRelease(c)
  BY <1>1 DEF WorkerRelease
<1>2. CASE ~WorkerRelease(c)
  BY <1>2 DEF Worker, WorkerRead, WorkerRegister, WorkerAnswer, WorkerCheck, WorkerSleep, WorkerErase, WorkerJoin,
              others, stopVars
<1> QED
  BY <1>1, <1>2

LEMMA WakingStep == Inv /\ Waking /\ [Next]_vars => Waking'
<1> SUFFICES ASSUME Inv, Waking, [Next]_vars PROVE Waking'
  OBVIOUS
<1>0. Wake \in Conns /\ Wake \notin Clients /\ Nobody \notin Conns
  BY NamesAssumption DEF Conns
<1>1. CASE UNCHANGED <<serverVars, stopper, missed>> /\ client'[Wake] = client[Wake]
  BY <1>1 DEF Waking, serverVars
<1>2. CASE Accept
  BY <1>2 DEF Accept, AcceptTest, AcceptCreate, AcceptConnected, Waking, stopVars
<1>3. CASE StopCalled
  BY <1>3 DEF StopCalled, StopStep, Waking
<1>4. CASE StopWake
  <2>1. CASE Open(Wake) /\ client' = [client EXCEPT ![Wake] = "command"]
    BY <1>0, <1>4, <2>1 DEF StopWake, StopStep, Open, Listening, Waking, Inv, TypeOK
  <2>2. CASE ~Listening /\ UNCHANGED <<serverVars, client>>
    BY <1>0, <1>4, <2>2 DEF StopWake, StopStep, Listening, Waking, Inv, TypeOK, serverVars
  <2> QED
    BY <1>4, <2>1, <2>2 DEF StopWake
<1>5. CASE StopJoinAccept \/ StopCopy \/ StopReleased \/ StopJoinWorkers \/ StopClear
  BY <1>5 DEF StopJoinAccept, StopCopy, StopReleased, StopJoinWorkers, StopClear, StopStep, Waking, serverVars
<1>6. ASSUME NEW c \in Conns, StopRelease(c) PROVE Waking'
  BY <1>6 DEF StopRelease, Waking, serverVars
<1>7. ASSUME NEW c \in Clients, ClientConnect(c) \/ ClientSend(c) \/ ClientClose(c) PROVE Waking'
  <2>1. CASE ClientConnect(c)
    BY <1>0, <2>1 DEF ClientConnect, Open, Listening, Waking, Inv, TypeOK, stopVars, Conns
  <2>2. CASE ClientSend(c) \/ ClientClose(c)
    <3>1. /\ UNCHANGED <<serverVars, stopper, missed>>
          /\ \E to \in {"subscribe", "command", "closed"} : client' = [client EXCEPT ![c] = to]
      BY <2>2 DEF ClientSend, ClientClose, ClientMove, stopVars
    <3>2. client'[Wake] = client[Wake]
      BY <1>0, <3>1 DEF Inv, TypeOK
    <3> QED
      BY <1>1, <3>1, <3>2
  <2> QED
    BY <1>7, <2>1, <2>2
<1>8. ASSUME NEW c \in Conns, Worker(c) PROVE Waking'
  <2>1. UNCHANGED <<serverVars, client, stopper>> /\ (missed => missed')
    BY <1>8, WorkerFrame
  <2> QED
    BY <2>1 DEF Waking, serverVars
<1>9. ASSUME NEW c \in Conns, Writer(c) PROVE Waking'
  BY <1>1, <1>9 DEF Writer, WriterTest, WriterCheck, WriterSleep, WriterWrite, others, stopVars
<1>10. ASSUME NEW b \in Broadcasters, Broadcast(b) PROVE Waking'
  BY <1>1, <1>10 DEF Broadcast, BroadcastBegin, BroadcastPush, BroadcastNotify, BroadcastEnd, stopVars
<1>11. CASE UNCHANGED vars
  BY <1>1, <1>11 DEF vars, stopVars
<1> QED
  BY <1>2, <1>3, <1>4, <1>5, <1>6, <1>7, <1>8, <1>9, <1>10, <1>11 DEF Next, Stop

(* Being woken only takes a thread out of its sleep.                         *)
LEMMA Waken ==
  ASSUME Inv, NEW c \in Conns, NEW d \in Conns
  PROVE  /\ Woken(worker, c)[d] = worker[d] \/ (worker[d] = "asleep" /\ Woken(worker, c)[d] = "check")
         /\ Woken(writer, c)[d] = writer[d] \/ (writer[d] = "asleep" /\ Woken(writer, c)[d] = "check")
         /\ Woken(worker, c)[c] # "asleep" /\ Woken(writer, c)[c] # "asleep"
BY DEF Woken, Inv, TypeOK

LEMMA ReleasingStop ==
  ASSUME Inv, NEW d \in Conns, Releasing(d), StopCalled \/ Stop PROVE Releasing(d)'
<1> USE DEF StopStep, serverVars, connVars, ioVars, Inv
<1>1. CASE StopCalled
  BY <1>1 DEF StopCalled, Releasing
<1>2. CASE StopWake
  <2>1. UNCHANGED <<worker, writer, alive, subscribers, toStop>> /\ (missed => missed') /\ stopper' = "joinAccept"
    BY <1>2 DEF StopWake, Open
  <2> QED
    BY <2>1 DEF Releasing
<1>3. CASE StopJoinAccept
  BY <1>3 DEF StopJoinAccept, Releasing
<1>4. CASE StopCopy
  BY <1>4 DEF StopCopy, Releasing
<1>5. CASE StopReleased
  BY <1>5 DEF StopReleased, Releasing
<1>6. CASE StopJoinWorkers \/ StopClear
  BY <1>6 DEF StopJoinWorkers, StopClear, Releasing, Stopping
<1>7. ASSUME NEW c \in Conns, StopRelease(c) PROVE Releasing(d)'
  <2>1. /\ toStop' = toStop \ {c} /\ alive' = [alive EXCEPT ![c] = FALSE] /\ stopper = "release"
        /\ worker' = Woken(worker, c) /\ writer' = Woken(writer, c)
        /\ UNCHANGED <<subscribers, stopper>>
    BY <1>7 DEF StopRelease
  <2>2. missed' = (missed \/ ~Free(c))
    BY <1>7 DEF StopRelease
  <2>3. CASE c # d
    <3>1. /\ UNCHANGED <<worker[d], writer[d], alive[d]>> /\ (d \in toStop' <=> d \in toStop)
      BY <2>1, <2>3 DEF TypeOK, Woken
    <3> QED
      BY <2>1, <2>2, <3>1 DEF Releasing
  <2>4. CASE c = d
    <3>1. /\ worker'[d] = worker[d] \/ (worker[d] = "asleep" /\ worker'[d] = "check")
          /\ writer'[d] = writer[d] \/ (writer[d] = "asleep" /\ writer'[d] = "check")
          /\ worker'[d] # "asleep" /\ writer'[d] # "asleep" /\ ~alive'[d]
      BY <2>1, <2>4, Waken DEF TypeOK
    <3>2. ~missed' => ~missed /\ worker[d] # "presleep" /\ writer[d] # "presleep"
      BY <2>2, <2>4 DEF Free
    <3> QED
      BY <2>1, <2>4, <3>1, <3>2 DEF Releasing
  <2> QED
    BY <2>3, <2>4
<1> QED
  BY <1>1, <1>2, <1>3, <1>4, <1>5, <1>6, <1>7 DEF Stop

LEMMA ReleasingWorker ==
  ASSUME Inv, Waking, NEW d \in Conns, Releasing(d), NEW c \in Conns, Worker(c) PROVE Releasing(d)'
<1> USE DEF Step, others, serverVars, ioVars, stopVars, Inv
<1>1. UNCHANGED <<stopper, toStop>> /\ (missed => missed')
  BY WorkerFrame
<1>2. CASE c # d
  <2>1. worker'[d] = worker[d] /\ writer'[d] = writer[d] /\ alive'[d] = alive[d]
        /\ (d \in subscribers' <=> d \in subscribers)
    BY <1>2 DEF Worker, WorkerRead, WorkerRegister, WorkerAnswer, WorkerCheck, WorkerSleep, WorkerErase,
                WorkerRelease, WorkerJoin, TypeOK, Woken
  <2> QED
    BY <1>1, <2>1 DEF Releasing
<1>3. CASE c = d
  <2>1. CASE WorkerRead(d)
    <3>1. client[d] \in {"subscribe", "command", "closed"}
      BY <2>1 DEF WorkerRead, Connection, TypeOK
    <3>2. worker'[d] \in {"register", "answer", "done"} /\ UNCHANGED <<writer, alive, subscribers>>
      BY <2>1, <3>1 DEF WorkerRead, TypeOK
    <3> QED
      BY <1>1, <3>2 DEF Releasing
  <2>2. CASE WorkerRegister(d)
    BY <1>1, <2>2 DEF WorkerRegister, Releasing, TypeOK
  <2>3. CASE WorkerAnswer(d)
    BY <1>1, <2>3 DEF WorkerAnswer, Releasing, TypeOK
  <2>4. CASE WorkerCheck(d)
    <3>1. stopper # "idle" => worker'[d] # "presleep"
      BY <2>4 DEF WorkerCheck, Waking, TypeOK
    <3> QED
      BY <1>1, <2>4, <3>1 DEF WorkerCheck, Releasing, TypeOK
  <2>5. CASE WorkerSleep(d)
    BY <1>1, <2>5 DEF WorkerSleep, Releasing, TypeOK
  <2>6. CASE WorkerErase(d)
    BY <1>1, <2>6 DEF WorkerErase, Releasing, TypeOK
  <2>7. CASE WorkerRelease(d)
    <3>1. /\ worker' = [worker EXCEPT ![d] = "join"] /\ alive' = [alive EXCEPT ![d] = FALSE]
          /\ writer' = Woken(writer, d) /\ worker[d] = "release"
      BY <2>7 DEF WorkerRelease
    <3>2. missed' = (missed \/ writer[d] = "presleep") /\ subscribers' = subscribers
      BY <2>7 DEF WorkerRelease
    <3>3. /\ worker'[d] = "join" /\ ~alive'[d] /\ writer'[d] # "asleep"
          /\ writer'[d] = writer[d] \/ (writer[d] = "asleep" /\ writer'[d] = "check")
      BY <3>1, Waken DEF TypeOK
    <3> QED
      BY <1>1, <3>1, <3>2, <3>3 DEF Releasing
  <2>8. CASE WorkerJoin(d)
    BY <1>1, <2>8 DEF WorkerJoin, Releasing, TypeOK
  <2> QED
    BY <1>3, <2>1, <2>2, <2>3, <2>4, <2>5, <2>6, <2>7, <2>8 DEF Worker
<1> QED
  BY <1>2, <1>3

LEMMA ReleasingWriter ==
  ASSUME Inv, NEW d \in Conns, Releasing(d), NEW c \in Conns, Writer(c) PROVE Releasing(d)'
<1> USE DEF WriterStep, others, serverVars, ioVars, stopVars, castVars, Inv
<1>1. UNCHANGED <<stopper, toStop, missed, subscribers>>
  BY DEF Writer, WriterTest, WriterCheck, WriterSleep, WriterWrite
<1>2. CASE WriterTest(c) \/ WriterSleep(c)
  BY <1>1, <1>2 DEF WriterTest, WriterSleep, Releasing, TypeOK
<1>3. CASE WriterCheck(c)
  <2>1. UNCHANGED <<worker, alive>> /\ writer[c] = "check"
    BY <1>3 DEF WriterCheck
  <2>2. /\ writer' = [writer EXCEPT ![c] = writer'[c]] /\ writer'[c] \in {"write", "presleep", "done"}
        /\ writer'[c] = "presleep" => alive[c]
    BY <1>3 DEF WriterCheck, TypeOK
  <2> QED
    BY <1>1, <2>1, <2>2 DEF Releasing, TypeOK
<1>4. CASE WriterWrite(c)
  <2>1. CASE worker' = worker /\ alive' = alive /\ writer' = [writer EXCEPT ![c] = "test"]
    BY <1>1, <2>1 DEF Releasing, TypeOK
  <2>2. CASE worker' = Woken(worker, c) /\ alive' = [alive EXCEPT ![c] = FALSE] /\ writer' = [writer EXCEPT ![c] = "done"]
    BY <1>1, <2>2, Waken DEF Releasing, TypeOK
  <2> QED
    BY <1>4, <2>1, <2>2 DEF WriterWrite
<1> QED
  BY <1>2, <1>3, <1>4 DEF Writer

LEMMA ReleasingStep == Inv /\ Waking /\ [Next]_vars => \A d \in Conns : Releasing(d) => Releasing(d)'
<1> SUFFICES ASSUME Inv, Waking, [Next]_vars, NEW d \in Conns, Releasing(d) PROVE Releasing(d)'
  OBVIOUS
<1>1. CASE UNCHANGED <<worker, writer, alive, subscribers, toStop, stopper, missed>>
  BY <1>1 DEF Releasing
<1>2. CASE Accept
  <2>1. CASE AcceptConnected
    <3>1. worker' = [worker EXCEPT ![instance] = "read"]
          /\ UNCHANGED <<writer, alive, subscribers, toStop, stopper, missed>>
      BY <2>1 DEF AcceptConnected, ioVars, stopVars
    <3> QED
      BY <3>1 DEF Releasing, Inv, TypeOK
  <2>2. CASE AcceptTest \/ AcceptCreate
    BY <1>1, <2>2 DEF AcceptTest, AcceptCreate, connVars, ioVars, stopVars
  <2> QED
    BY <1>2, <2>1, <2>2 DEF Accept
<1>3. ASSUME NEW c \in Clients, ClientConnect(c) \/ ClientSend(c) \/ ClientClose(c) PROVE Releasing(d)'
  BY <1>1, <1>3 DEF ClientConnect, ClientSend, ClientClose, ClientMove, Open, connVars, ioVars, stopVars
<1>4. ASSUME NEW b \in Broadcasters, Broadcast(b) PROVE Releasing(d)'
  <2>1. CASE BroadcastNotify(b)
    <3>1. /\ caster[b] \in Conns /\ worker' = Woken(worker, caster[b]) /\ writer' = Woken(writer, caster[b])
          /\ UNCHANGED <<alive, subscribers, toStop, stopper, missed>>
      BY <2>1 DEF BroadcastNotify, ioVars, stopVars
    <3> QED
      BY <3>1, Waken DEF Releasing
  <2>2. CASE BroadcastBegin(b) \/ BroadcastPush(b) \/ BroadcastEnd(b)
    BY <1>1, <2>2 DEF BroadcastBegin, BroadcastPush, BroadcastEnd, connVars, ioVars, stopVars
  <2> QED
    BY <1>4, <2>1, <2>2 DEF Broadcast
<1>5. CASE UNCHANGED vars
  BY <1>1, <1>5 DEF vars, connVars, ioVars, stopVars
<1> QED
  BY <1>2, <1>3, <1>4, <1>5, ReleasingStop, ReleasingWorker, ReleasingWriter DEF Next

LEMMA ReleasingSpec == Spec => [](Inv /\ Waking /\ \A c \in Conns : Releasing(c))
<1> DEFINE All == \A c \in Conns : Releasing(c)
<1>1. Init => Waking /\ All
  <2>1. Wake \in Conns
    BY DEF Conns
  <2> QED
    BY <2>1 DEF Init, Waking, Releasing
<1>2. Inv /\ Waking /\ All /\ [Next]_vars => All'
  BY ReleasingStep
<1> HIDE DEF All
<1>3. Spec => [](Inv /\ Waking /\ All)
  BY <1>1, <1>2, Invariant, WakingStep, PTL DEF Spec
<1> QED
  BY <1>3 DEF All

(* stop: once it is called, its thread, the accept thread, a worker, a       *)
(* writer or a broadcaster can take another step until it has returned,      *)
(* unless a wake-up came before the wait it was for; for any number of       *)
(* connections.                                                              *)
THEOREM StopIsNeverStuck == Spec => []StopReturnsUnlessMissed
<1> DEFINE All == \A c \in Conns : Releasing(c)
<1>1. Inv /\ Waking /\ All => StopReturnsUnlessMissed
  <2> SUFFICES ASSUME Inv, Waking, All, stopper # "idle", ~CanMove, stopper # "returned", ~missed
               PROVE  FALSE
    BY DEF StopReturnsUnlessMissed, AtRest
  <2>1. stopper \in {"joinAccept", "joinWorkers"}
    BY DEF Inv, TypeOK, CanMove
  <2>2. acceptor = "done"
    BY <2>1 DEF Waking, CanMove
  <2>3. PICK c \in Conns : worker[c] \notin {"none", "done"}
    BY <2>1, <2>2 DEF CanMove
  <2>4. worker[c] \notin {"asleep", "presleep"}
    BY <2>1, <2>2 DEF Releasing, CanMove
  <2>5. worker[c] # "read"
    BY NamesAssumption DEF CanMove, Conns, Waking
  <2>6. worker[c] # "check"
    BY DEF CanMove, Free
  <2>7. CASE worker[c] = "join"
    <3>1. writer[c] \notin {"none", "asleep", "presleep"}
      BY <2>7 DEF Releasing
    <3>2. writer[c] = "check" => Free(c)
      BY <2>7 DEF Free
    <3> QED
      BY <2>7, <3>1, <3>2 DEF CanMove, Inv, TypeOK
  <2> QED
    BY <2>3, <2>4, <2>5, <2>6, <2>7 DEF Inv, TypeOK, CanMove
<1> HIDE DEF All
<1>2. Spec => [](Inv /\ Waking /\ All)
  BY ReleasingSpec DEF All
<1> QED
  BY <1>1, <1>2, PTL

-----------------------------------------------------------------------------
(* Why no event is left behind.  While the server runs, a client that has    *)
(* neither sent a command nor closed is served: what would end its           *)
(* connection has not happened, and from its registration on it is in        *)
(* subscribers_.                                                             *)
Live(c) == running /\ client[c] \in {"none", "connected", "subscribe"}

Early == {"none", "read", "register", "answer"}

Served(c) ==
  Live(c) =>
    /\ alive[c] /\ (client[c] # "none" => pipe[c])
    /\ worker[c] \in Early \union {"check", "presleep", "asleep"}
    /\ client[c] # "subscribe" => worker[c] \in {"none", "read"}
    /\ worker[c] \in {"answer", "check", "presleep", "asleep"} => c \in subscribers
    /\ worker[c] \notin Early => writer[c] \notin {"none", "done"}

LEMMA StopEndsLive == Waking /\ (StopCalled \/ Stop) => ~running'
BY DEF Waking, StopCalled, Stop, StopStep, StopWake, StopJoinAccept, StopCopy, StopRelease, StopReleased,
       StopJoinWorkers, StopClear, serverVars, Open

LEMMA ServedWorker ==
  ASSUME Inv, NEW d \in Conns, Served(d), NEW c \in Conns, Worker(c) PROVE Served(d)'
<1> USE DEF Step, others, serverVars, ioVars, stopVars, castVars, Inv
<1>1. UNCHANGED <<running, client>>
  BY WorkerFrame DEF serverVars
<1>2. CASE c # d
  <2>1. /\ worker'[d] = worker[d] /\ alive'[d] = alive[d] /\ pipe'[d] = pipe[d]
        /\ writer'[d] = writer[d] \/ (writer[d] = "asleep" /\ writer'[d] = "check")
        /\ d \in subscribers => d \in subscribers'
    <3>1. CASE WorkerRelease(c)
      <4>1. writer' = Woken(writer, c) /\ UNCHANGED <<subscribers, pipe>>
        BY <3>1 DEF WorkerRelease
      <4>2. worker'[d] = worker[d] /\ alive'[d] = alive[d]
        BY <1>2, <3>1 DEF WorkerRelease, TypeOK
      <4> QED
        BY <4>1, <4>2, Waken
    <3>2. CASE WorkerAnswer(c) \/ WorkerJoin(c)
      BY <1>2, <3>2 DEF WorkerAnswer, WorkerJoin, TypeOK
    <3> QED
      BY <1>2, <3>1, <3>2 DEF Worker, WorkerRead, WorkerRegister, WorkerCheck, WorkerSleep, WorkerErase, TypeOK
  <2> QED
    BY <1>1, <2>1 DEF Served, Live
<1>3. ASSUME c = d, Live(d) PROVE Served(d)'
  <2>1. CASE WorkerRead(d)
    <3>1. client[d] = "subscribe"
      BY <1>3, <2>1 DEF WorkerRead, Live, Connection
    <3>2. worker' = [worker EXCEPT ![d] = "register"] /\ UNCHANGED <<subscribers, writer, alive, pipe>>
      BY <1>3, <2>1, <3>1 DEF WorkerRead
    <3> QED
      BY <1>1, <1>3, <3>1, <3>2 DEF Served, Live, Early, TypeOK
  <2>2. CASE WorkerRegister(d)
    BY <1>1, <1>3, <2>2 DEF WorkerRegister, Served, Live, Early, TypeOK
  <2>3. CASE WorkerAnswer(d)
    <3>1. Writable(d) /\ d \in subscribers
      BY <1>3, <2>3 DEF WorkerAnswer, Writable, Served, Live, Early
    <3> QED
      BY <1>1, <1>3, <2>3, <3>1 DEF WorkerAnswer, Served, Live, Early, TypeOK
  <2>4. CASE WorkerCheck(d) \/ WorkerSleep(d)
    BY <1>1, <1>3, <2>4 DEF WorkerCheck, WorkerSleep, Served, Live, Early, TypeOK
  <2>5. ~(WorkerErase(d) \/ WorkerRelease(d) \/ WorkerJoin(d))
    BY <1>3 DEF WorkerErase, WorkerRelease, WorkerJoin, Served, Early
  <2> QED
    BY <1>3, <2>1, <2>2, <2>3, <2>4, <2>5 DEF Worker
<1> QED
  BY <1>1, <1>2, <1>3 DEF Served, Live

LEMMA ServedWriter ==
  ASSUME Inv, NEW d \in Conns, Served(d), NEW c \in Conns, Writer(c) PROVE Served(d)'
<1> USE DEF WriterStep, others, serverVars, ioVars, stopVars, castVars, Inv
<1>1. UNCHANGED <<running, client, subscribers, pipe>>
  BY DEF Writer, WriterTest, WriterCheck, WriterSleep, WriterWrite
<1>2. /\ writer' = [writer EXCEPT ![c] = writer'[c]]
      /\ Woken(worker, c)[d] = worker[d] \/ (worker[d] = "asleep" /\ Woken(worker, c)[d] = "check")
  BY Waken DEF Writer, WriterTest, WriterCheck, WriterSleep, WriterWrite, TypeOK
<1>3. CASE c # d
  <2>1. /\ alive'[d] = alive[d] /\ writer'[d] = writer[d]
        /\ worker'[d] = worker[d] \/ (worker[d] = "asleep" /\ worker'[d] = "check")
    BY <1>2, <1>3 DEF Writer, WriterTest, WriterCheck, WriterSleep, WriterWrite, TypeOK
  <2> QED
    BY <1>1, <2>1 DEF Served, Live, Early
<1>4. ASSUME c = d, Live(d) PROVE Served(d)'
  <2>1. worker[d] # "none" => pipe[d]
    BY <1>4 DEF Served, Connection
  <2>2. writer[d] # "none" => worker[d] # "none"
    BY DEF Connection
  <2>3. WriterWrite(d) => Writable(d)
    BY <1>4, <2>1, <2>2 DEF WriterWrite, Writable, Live
  <2>4. UNCHANGED <<worker, alive>> /\ writer'[d] \notin {"none", "done"}
    <3>1. CASE WriterCheck(d)
      BY <1>4, <3>1 DEF WriterCheck, Served, TypeOK
    <3>2. CASE WriterTest(d) \/ WriterSleep(d) \/ WriterWrite(d)
      BY <1>4, <2>3, <3>2 DEF WriterTest, WriterSleep, WriterWrite, Served, TypeOK
    <3> QED
      BY <1>4, <3>1, <3>2 DEF Writer
  <2> QED
    BY <1>1, <1>4, <2>4 DEF Served, Live
<1> QED
  BY <1>1, <1>3, <1>4 DEF Served, Live

LEMMA ServedStep == Inv /\ Waking /\ [Next]_vars => \A d \in Conns : Served(d) => Served(d)'
<1> SUFFICES ASSUME Inv, Waking, [Next]_vars, NEW d \in Conns, Served(d) PROVE Served(d)'
  OBVIOUS
<1>1. CASE UNCHANGED <<running, client, worker, writer, alive, pipe, subscribers>>
  BY <1>1 DEF Served, Live
<1>2. CASE Accept
  <2>1. CASE AcceptConnected
    <3>1. worker' = [worker EXCEPT ![instance] = "read"]
          /\ UNCHANGED <<running, client, writer, alive, pipe, subscribers>>
      BY <2>1 DEF AcceptConnected, ioVars
    <3>2. instance = d => worker[d] = "none"
      BY DEF Inv, Connection
    <3> QED
      BY <3>1, <3>2 DEF Served, Live, Early, Inv, TypeOK
  <2>2. CASE AcceptTest \/ AcceptCreate
    BY <1>1, <2>2 DEF AcceptTest, AcceptCreate, connVars, ioVars
  <2> QED
    BY <1>2, <2>1, <2>2 DEF Accept
<1>3. ASSUME NEW c \in Clients, ClientConnect(c) \/ ClientSend(c) \/ ClientClose(c) PROVE Served(d)'
  <2>0. c \in Conns /\ (client[d] = "none" => worker[d] = "none")
    BY DEF Conns, Inv, Connection
  <2>1. CASE ClientConnect(c)
    <3>1. /\ client' = [client EXCEPT ![c] = "connected"] /\ pipe' = [pipe EXCEPT ![c] = TRUE]
          /\ client[c] = "none" /\ UNCHANGED <<running, worker, writer, alive, subscribers>>
      BY <2>1 DEF ClientConnect, Open
    <3>2. client'[d] = client[d] \/ (client[d] = "none" /\ client'[d] = "connected")
      BY <2>0, <3>1 DEF Inv, TypeOK
    <3>3. client'[d] # "none" /\ Served(d) /\ Live(d) => pipe'[d]
      BY <2>0, <3>1 DEF Served, Inv, TypeOK
    <3> QED
      BY <2>0, <3>1, <3>2, <3>3 DEF Served, Live, Early
  <2>2. CASE ClientSend(c) \/ ClientClose(c)
    BY <2>0, <2>2 DEF ClientSend, ClientClose, ClientMove, serverVars, connVars, ioVars, Served, Live, Early, Inv, TypeOK
  <2> QED
    BY <1>3, <2>1, <2>2
<1>4. ASSUME NEW b \in Broadcasters, Broadcast(b) PROVE Served(d)'
  <2>1. CASE BroadcastNotify(b)
    <3>1. /\ caster[b] \in Conns /\ worker' = Woken(worker, caster[b]) /\ writer' = Woken(writer, caster[b])
          /\ UNCHANGED <<running, client, alive, pipe, subscribers>>
      BY <2>1 DEF BroadcastNotify, serverVars, ioVars
    <3> QED
      BY <3>1, Waken DEF Served, Live, Early
  <2>2. CASE BroadcastBegin(b) \/ BroadcastPush(b) \/ BroadcastEnd(b)
    BY <1>1, <2>2 DEF BroadcastBegin, BroadcastPush, BroadcastEnd, serverVars, connVars, ioVars
  <2> QED
    BY <1>4, <2>1, <2>2 DEF Broadcast
<1>5. CASE UNCHANGED vars
  BY <1>1, <1>5 DEF vars, serverVars, connVars, ioVars
<1>6. CASE StopCalled \/ Stop
  BY <1>6, StopEndsLive DEF Served, Live
<1> QED
  BY <1>2, <1>3, <1>4, <1>5, <1>6, ServedWorker, ServedWriter DEF Next

(* An event in the hands of its broadcaster.                                 *)
Carried(c, e) ==
  \E b \in Broadcasters : e = <<b, sent[b]>> /\ caster[b] # "idle" /\ c \in snapshot[b]

(* Each event is with the client, with its writer, in the queue, or still    *)
(* carried; a writer sleeps over a queue only while somebody is about to     *)
(* notify it.                                                                *)
Delivered(c) ==
  Live(c) =>
    /\ worker[c] \in Early => due[c] = {}
    /\ writer[c] # "write" => inHand[c] = <<>>
    /\ writer[c] = "presleep" => messages[c] = <<>>
    /\ writer[c] = "asleep" /\ messages[c] # <<>> => \E b \in Broadcasters : caster[b] = c
    /\ \A e \in due[c] : e \in Range(got[c]) \/ inHand[c] = <<e>> \/ e \in Range(messages[c]) \/ Carried(c, e)

(* Nothing is due to a client that did not subscribe.                        *)
Undue(c) == client[c] \notin {"subscribe", "closed"} => due[c] = {}

LEMMA RangeAppend ==
  ASSUME NEW S, NEW s \in Seq(S), NEW e \in S PROVE Range(Append(s, e)) = Range(s) \union {e}
<1>1. /\ DOMAIN Append(s, e) = 1..(Len(s) + 1) /\ DOMAIN s = 1..Len(s) /\ Len(s) \in Nat
      /\ Append(s, e)[Len(s) + 1] = e /\ \A i \in 1..Len(s) : Append(s, e)[i] = s[i]
  OBVIOUS
<1> QED
  BY <1>1 DEF Range

LEMMA RangeConcat ==
  ASSUME NEW S, NEW s \in Seq(S), NEW t \in Seq(S) PROVE Range(s) \union Range(t) \subseteq Range(s \o t)
<1>1. /\ DOMAIN (s \o t) = 1..(Len(s) + Len(t)) /\ DOMAIN s = 1..Len(s) /\ DOMAIN t = 1..Len(t)
      /\ Len(s) \in Nat /\ Len(t) \in Nat
      /\ \A i \in 1..Len(s) : (s \o t)[i] = s[i]
      /\ \A i \in 1..Len(t) : (s \o t)[Len(s) + i] = t[i]
  OBVIOUS
<1>2. \A i \in 1..Len(s) : i \in 1..(Len(s) + Len(t))
  BY <1>1
<1>3. \A i \in 1..Len(t) : Len(s) + i \in 1..(Len(s) + Len(t))
  BY <1>1
<1> QED
  BY <1>1, <1>2, <1>3 DEF Range

LEMMA RangePopped ==
  ASSUME NEW S, NEW s \in Seq(S), s # <<>> PROVE Range(s) \subseteq {Head(s)} \union Range(Tail(s))
<1>1. /\ DOMAIN Tail(s) = 1..(Len(s) - 1) /\ DOMAIN s = 1..Len(s) /\ Len(s) \in Nat
      /\ Head(s) = s[1] /\ \A i \in 1..(Len(s) - 1) : Tail(s)[i] = s[i + 1]
  OBVIOUS
<1>2. ASSUME NEW i \in 1..Len(s), i # 1 PROVE s[i] \in Range(Tail(s))
  <2>1. i - 1 \in 1..(Len(s) - 1) /\ s[i] = Tail(s)[i - 1]
    BY <1>1, <1>2
  <2> QED
    BY <1>1, <2>1 DEF Range
<1> QED
  BY <1>1, <1>2 DEF Range

LEMMA DeliveredWorker ==
  ASSUME Inv, NEW d \in Conns, Delivered(d), NEW c \in Conns, Worker(c) PROVE Delivered(d)'
<1> USE DEF Step, others, serverVars, ioVars, stopVars, castVars, Inv
<1>1. UNCHANGED <<running, client, caster, sent, snapshot, inHand, messages, due>>
  BY WorkerFrame DEF Worker, WorkerRead, WorkerRegister, WorkerAnswer, WorkerCheck, WorkerSleep, WorkerErase,
                     WorkerRelease, WorkerJoin
<1>2. CASE WorkerAnswer(c) /\ c = d
  <2>1. worker[d] \in Early /\ writer[d] = "none" /\ writer'[d] \in {"none", "test"}
    BY <1>2 DEF WorkerAnswer, Early, Connection, TypeOK
  <2>2. Live(d) => due[d] = {} /\ inHand[d] = <<>>
    BY <2>1 DEF Delivered
  <2> QED
    BY <1>1, <2>1, <2>2 DEF Delivered, Live
<1>3. CASE ~(WorkerAnswer(c) /\ c = d)
  <2>1. got'[d] = got[d]
    BY <1>3 DEF Worker, WorkerRead, WorkerRegister, WorkerAnswer, WorkerCheck, WorkerSleep, WorkerErase,
                WorkerRelease, WorkerJoin, TypeOK
  <2>2. writer'[d] = writer[d] \/ (writer[d] = "asleep" /\ writer'[d] = "check")
    <3>1. CASE WorkerRelease(c)
      BY <3>1, Waken DEF WorkerRelease
    <3> QED
      BY <1>3, <3>1 DEF Worker, WorkerRead, WorkerRegister, WorkerAnswer, WorkerCheck, WorkerSleep, WorkerErase,
                        WorkerJoin, TypeOK
  <2>3. worker'[d] \in Early => worker[d] \in Early
    BY DEF Worker, WorkerRead, WorkerRegister, WorkerAnswer, WorkerCheck, WorkerSleep, WorkerErase,
           WorkerRelease, WorkerJoin, Early, TypeOK
  <2>4. client[d]' \in {"none", "connected", "subscribe"} /\ running' => Live(d)
    BY <1>1 DEF Live
  <2>5. UNCHANGED <<inHand[d], messages[d], due[d], got[d], caster, sent, snapshot>>
    BY <1>1, <2>1
  <2> QED
    BY <2>2, <2>3, <2>4, <2>5 DEF Delivered, Live, Carried
<1> QED
  BY <1>2, <1>3

LEMMA DeliveredWriter ==
  ASSUME Inv, NEW d \in Conns, Served(d), Delivered(d), NEW c \in Conns, Writer(c) PROVE Delivered(d)'
<1> USE DEF WriterStep, others, serverVars, ioVars, stopVars, castVars, Inv
<1>0. UNCHANGED <<running, client, caster, sent, snapshot, due>>
  BY DEF Writer, WriterTest, WriterCheck, WriterSleep, WriterWrite
<1>1. UNCHANGED <<caster, sent, snapshot, due>> /\ (Live(d)' <=> Live(d))
  BY <1>0 DEF Live
<1>2. worker'[d] = worker[d] \/ (worker[d] = "asleep" /\ worker'[d] = "check")
  <2>1. worker' = worker \/ worker' = Woken(worker, c)
    BY DEF Writer, WriterTest, WriterCheck, WriterSleep, WriterWrite
  <2> QED
    BY <2>1, Waken
<1>3. CASE c # d
  <2>1. UNCHANGED <<inHand[d], messages[d], got[d], writer[d]>>
    BY <1>3 DEF Writer, WriterTest, WriterCheck, WriterSleep, WriterWrite, TypeOK
  <2>2. worker'[d] \in Early => worker[d] \in Early
    BY <1>2 DEF Early
  <2>3. UNCHANGED <<inHand[d], messages[d], due[d], got[d], caster, sent, snapshot>> /\ writer'[d] = writer[d]
    BY <1>1, <2>1
  <2>4. client[d]' \in {"none", "connected", "subscribe"} /\ running' => Live(d)
    BY <1>0 DEF Live
  <2> QED
    BY <2>2, <2>3, <2>4 DEF Delivered, Live, Carried
<1>4. ASSUME c = d, Live(d) PROVE Delivered(d)'
  <2> DEFINE Found(e) == e \in Range(got[d]) \/ inHand[d] = <<e>> \/ e \in Range(messages[d]) \/ Carried(d, e)
  <2>0. /\ worker[d] \in Early => due[d] = {}
        /\ writer[d] # "write" => inHand[d] = <<>>
        /\ writer[d] = "presleep" => messages[d] = <<>>
        /\ writer[d] = "asleep" /\ messages[d] # <<>> => \E b \in Broadcasters : caster[b] = d
        /\ \A e \in due[d] : Found(e)
    BY <1>4 DEF Delivered
  <2>1. worker'[d] \in Early => worker[d] \in Early
    BY <1>2 DEF Early
  <2>2. \A e : Carried(d, e)' <=> Carried(d, e)
    BY <1>1 DEF Carried
  <2>3. SUFFICES /\ writer'[d] # "write" => inHand'[d] = <<>>
                 /\ writer'[d] \in {"presleep", "asleep"} => messages'[d] = <<>>
                 /\ \A e : Found(e) => Found(e)'
    <3> HIDE DEF Found
    <3>1. \A e \in due'[d] : Found(e)'
      BY <1>1, <2>0, <2>3
    <3> QED
      BY <1>1, <2>0, <2>1, <2>3, <3>1 DEF Delivered, Found
  <2>4. CASE WriterTest(d) \/ WriterSleep(d)
    BY <1>4, <2>0, <2>2, <2>4 DEF WriterTest, WriterSleep, TypeOK
  <2>5. CASE WriterCheck(d)
    <3>0. inHand[d] = <<>> /\ messages[d] \in Seq(Events)
      BY <2>0, <2>5 DEF WriterCheck, TypeOK
    <3>1. CASE messages[d] # <<>>
      <4>1. /\ writer'[d] = "write" /\ inHand'[d] = <<Head(messages[d])>> /\ messages'[d] = Tail(messages[d])
            /\ got' = got
        BY <2>5, <3>1 DEF WriterCheck, TypeOK
      <4>2. Range(messages[d]) \subseteq {Head(messages[d])} \union Range(Tail(messages[d]))
        BY <3>0, <3>1, RangePopped
      <4>3. ASSUME NEW e, Found(e) PROVE Found(e)'
        <5>1. inHand[d] # <<e>>
          BY <3>0
        <5> QED
          BY <2>2, <4>1, <4>2, <4>3, <5>1
      <4> HIDE DEF Found
      <4> QED
        BY <4>1, <4>3
    <3>2. CASE messages[d] = <<>>
      <4>1. UNCHANGED <<inHand, messages, got>> /\ writer'[d] # "write"
        BY <2>5, <3>2 DEF WriterCheck, TypeOK
      <4> QED
        BY <2>2, <3>0, <3>2, <4>1
    <3> QED
      BY <3>1, <3>2
  <2>6. CASE WriterWrite(d)
    <3>1. Writable(d)
      BY <1>4, <2>6 DEF WriterWrite, WriterStep, Writable, Live, Served, Connection
    <3>2. /\ got'[d] = got[d] \o inHand[d] /\ inHand'[d] = <<>> /\ messages' = messages
          /\ writer'[d] = "test"
      BY <1>4, <2>6, <3>1 DEF WriterWrite, TypeOK
    <3>3. Range(got[d]) \union Range(inHand[d]) \subseteq Range(got'[d])
      <4>1. got[d] \in Seq(Events \union {Answer}) /\ inHand[d] \in Seq(Events)
        BY QueueTypes
      <4>2. inHand[d] \in Seq(Events \union {Answer})
        BY <4>1
      <4> QED
        BY <3>2, <4>1, <4>2, RangeConcat
    <3>4. ASSUME NEW e, Found(e) PROVE Found(e)'
      <4>1. CASE inHand[d] = <<e>>
        BY <3>3, <4>1 DEF Range
      <4> QED
        BY <2>2, <3>2, <3>3, <3>4, <4>1
    <3> HIDE DEF Found
    <3> QED
      BY <3>2, <3>4
  <2> QED
    BY <1>4, <2>4, <2>5, <2>6 DEF Writer
<1> QED
  BY <1>1, <1>3, <1>4 DEF Delivered

LEMMA DeliveredBegin ==
  ASSUME Inv, NEW d \in Conns, Served(d), Delivered(d), NEW b \in Broadcasters, BroadcastBegin(b) PROVE Delivered(d)'
<1> SUFFICES ASSUME Live(d)' PROVE Delivered(d)'
  BY DEF Delivered
<1>1. /\ UNCHANGED <<running, client, worker, writer, inHand, got, messages>>
      /\ caster[b] = "idle" /\ caster' = [caster EXCEPT ![b] = "push"] /\ snapshot' = [snapshot EXCEPT ![b] = subscribers]
      /\ sent' = [sent EXCEPT ![b] = @ + 1]
      /\ due'[d] = IF Answer \in Range(got[d]) /\ client[d] = "subscribe" THEN due[d] \union {<<b, sent'[b]>>} ELSE due[d]
  BY DEF BroadcastBegin, serverVars, connVars, ioVars
<1>2. Live(d)
  BY <1>1 DEF Live
<1>3. Answer \in Range(got[d]) => worker[d] \notin Early
  <2>1. got[d] = <<>> => Answer \notin Range(got[d])
    BY DEF Range
  <2> QED
    BY <2>1 DEF Inv, Connection, Early
<1>4. worker[d] \notin Early => d \in subscribers
  BY <1>2 DEF Served, Early
<1>5. \A e : Carried(d, e) => Carried(d, e)'
  BY <1>1 DEF Carried, Inv, TypeOK
<1>6. Answer \in Range(got[d]) => Carried(d, <<b, sent[b]>>)'
  <2>1. caster'[b] # "idle" /\ snapshot'[b] = subscribers
    BY <1>1 DEF Inv, TypeOK
  <2> QED
    BY <1>3, <1>4, <2>1 DEF Carried
<1>7. \A e \in due'[d] : \/ e \in Range(got'[d]) \/ inHand'[d] = <<e>> \/ e \in Range(messages'[d])
                         \/ Carried(d, e)'
  <2> SUFFICES ASSUME NEW e \in due'[d], ~Carried(d, e)'
               PROVE  e \in Range(got[d]) \/ inHand[d] = <<e>> \/ e \in Range(messages[d])
    BY <1>1
  <2>1. e \in due[d]
    BY <1>1, <1>6
  <2> QED
    BY <1>2, <1>5, <2>1 DEF Delivered
<1>8. \A a \in Broadcasters : caster[a] = d => caster'[a] = d
  BY <1>1, NamesAssumption DEF Inv, TypeOK, Conns
<1>9. worker[d] \in Early => due'[d] = {}
  BY <1>1, <1>2, <1>3 DEF Delivered
<1> QED
  BY <1>1, <1>2, <1>7, <1>8, <1>9 DEF Delivered

LEMMA DeliveredPush ==
  ASSUME Inv, NEW d \in Conns, Delivered(d), NEW b \in Broadcasters, BroadcastPush(b) PROVE Delivered(d)'
<1> SUFFICES ASSUME Live(d)' PROVE Delivered(d)'
  BY DEF Delivered
<1>1. PICK c \in snapshot[b] :
        /\ UNCHANGED <<running, client, worker, writer, inHand, got, due, sent>> /\ Free(c)
        /\ messages' = [messages EXCEPT ![c] = Append(@, <<b, sent[b]>>)]
        /\ caster[b] = "push" /\ caster' = [caster EXCEPT ![b] = c]
        /\ snapshot' = [snapshot EXCEPT ![b] = @ \ {c}]
  BY DEF BroadcastPush, serverVars, connVars, ioVars
<1>2. c \in Conns /\ d # "push" /\ c # "idle" /\ Live(d)
  BY <1>1, NamesAssumption DEF Live, Inv, TypeOK
<1>3. /\ sent[b] \in 1..MaxEvents /\ <<b, sent[b]>> \in Events
  BY <1>1, MaxEventsAssumption DEF Inv, TypeOK, Casting, Events
<1>4. CASE c = d
  <2>1. messages[d] \in Seq(Events) /\ messages'[d] = Append(messages[d], <<b, sent[b]>>)
    BY <1>1, <1>4 DEF Inv, TypeOK
  <2>2. Range(messages'[d]) = Range(messages[d]) \union {<<b, sent[b]>>}
    BY <1>3, <2>1, RangeAppend
  <2>3. \A e : Carried(d, e) => e = <<b, sent[b]>> \/ Carried(d, e)'
    BY <1>1, <1>2 DEF Carried, Inv, TypeOK
  <2>4. writer[d] # "presleep" /\ caster'[b] = d
    BY <1>1, <1>4 DEF Free, Inv, TypeOK
  <2> QED
    BY <1>1, <1>2, <2>2, <2>3, <2>4 DEF Delivered
<1>5. CASE c # d
  <2>1. messages'[d] = messages[d]
    BY <1>1, <1>5 DEF Inv, TypeOK
  <2>2. \A e : Carried(d, e) => Carried(d, e)'
    BY <1>1, <1>2, <1>5 DEF Carried, Inv, TypeOK
  <2>3. \A a \in Broadcasters : caster[a] = d => caster'[a] = d
    BY <1>1, <1>2 DEF Inv, TypeOK
  <2> QED
    BY <1>1, <1>2, <2>1, <2>2, <2>3 DEF Delivered
<1> QED
  BY <1>4, <1>5

LEMMA DeliveredNotify ==
  ASSUME Inv, NEW d \in Conns, Delivered(d), NEW b \in Broadcasters, BroadcastNotify(b) \/ BroadcastEnd(b)
  PROVE  Delivered(d)'
<1>1. /\ UNCHANGED <<running, client, inHand, got, messages, due, snapshot, sent>>
      /\ caster[b] # "idle" /\ caster' = [caster EXCEPT ![b] = caster'[b]]
      /\ caster'[b] = "idle" => snapshot[b] = {}
  <2>1. CASE BroadcastNotify(b)
    <3>1. caster[b] # "idle" /\ caster'[b] = "push"
      BY <2>1, NamesAssumption DEF BroadcastNotify, Inv, TypeOK
    <3> QED
      BY <2>1, <3>1 DEF BroadcastNotify, serverVars, ioVars
  <2>2. CASE BroadcastEnd(b)
    <3>1. caster'[b] = "idle"
      BY <2>2 DEF BroadcastEnd, Inv, TypeOK
    <3> QED
      BY <2>2, <3>1 DEF BroadcastEnd, serverVars, connVars, ioVars
  <2> QED
    BY <2>1, <2>2
<1>2. \A e : Carried(d, e) => Carried(d, e)'
  BY <1>1 DEF Carried, Inv, TypeOK
<1>3. worker'[d] = worker[d] \/ (worker[d] = "asleep" /\ worker'[d] = "check")
  BY Waken DEF BroadcastNotify, BroadcastEnd, connVars
<1>4. writer'[d] = writer[d] \/ (writer[d] = "asleep" /\ writer'[d] = "check")
  BY Waken DEF BroadcastNotify, BroadcastEnd, connVars
<1>5. writer'[d] = "asleep" => \A a \in Broadcasters : caster[a] = d => caster'[a] = d
  <2>1. CASE BroadcastNotify(b)
    <3>1. caster[b] = d => writer'[d] # "asleep"
      BY <2>1, Waken DEF BroadcastNotify
    <3> QED
      BY <1>1, <3>1 DEF Inv, TypeOK
  <2>2. CASE BroadcastEnd(b)
    BY <1>1, <2>2, NamesAssumption DEF BroadcastEnd, Inv, TypeOK
  <2> QED
    BY <2>1, <2>2
<1> QED
  BY <1>1, <1>2, <1>3, <1>4, <1>5 DEF Delivered, Live, Early

LEMMA DeliveredStep == Inv /\ Waking /\ [Next]_vars => \A d \in Conns : Served(d) /\ Delivered(d) => Delivered(d)'
<1> SUFFICES ASSUME Inv, Waking, [Next]_vars, NEW d \in Conns, Served(d), Delivered(d) PROVE Delivered(d)'
  OBVIOUS
<1>1. CASE /\ UNCHANGED <<writer, inHand, messages, due, got, caster, sent, snapshot>>
           /\ (Live(d)' => Live(d)) /\ (worker'[d] \in Early => worker[d] \in Early)
  BY <1>1 DEF Delivered, Carried
<1>2. CASE Accept
  <2>1. instance = d => worker[d] = "none"
    BY DEF Inv, Connection
  <2>2. UNCHANGED <<running, client, writer, inHand, messages, due, got, caster, sent, snapshot>>
    BY <1>2 DEF Accept, AcceptTest, AcceptCreate, AcceptConnected, connVars, ioVars, castVars
  <2>3. worker'[d] \in Early => worker[d] \in Early
    BY <1>2, <2>1 DEF Accept, AcceptTest, AcceptCreate, AcceptConnected, connVars, Early, Inv, TypeOK
  <2>4. Live(d)' => Live(d)
    BY <2>2 DEF Live
  <2> QED
    BY <1>1, <2>2, <2>3, <2>4
<1>3. ASSUME NEW c \in Clients, ClientConnect(c) \/ ClientSend(c) \/ ClientClose(c) PROVE Delivered(d)'
  <2>1. c \in Conns
    BY DEF Conns
  <2>2. UNCHANGED <<running, worker, writer, inHand, messages, due, got, caster, sent, snapshot>>
    BY <1>3 DEF ClientConnect, ClientSend, ClientClose, ClientMove, Open, serverVars, connVars, ioVars, castVars
  <2>3. Live(d)' => Live(d)
    BY <1>3, <2>1 DEF ClientConnect, ClientSend, ClientClose, ClientMove, Open, serverVars, Live, Inv, TypeOK
  <2> QED
    BY <1>1, <2>2, <2>3
<1>4. CASE StopCalled \/ Stop
  BY <1>4, StopEndsLive DEF Delivered, Live
<1>5. CASE UNCHANGED vars
  BY <1>1, <1>5 DEF vars, serverVars, connVars, ioVars, castVars, Live
<1> QED
  BY <1>2, <1>3, <1>4, <1>5, DeliveredWorker, DeliveredWriter, DeliveredBegin, DeliveredPush, DeliveredNotify
     DEF Next, Broadcast

LEMMA UndueStep == Inv /\ [Next]_vars => \A d \in Conns : Undue(d) => Undue(d)'
<1> SUFFICES ASSUME Inv, [Next]_vars, NEW d \in Conns, Undue(d) PROVE Undue(d)'
  OBVIOUS
<1>1. CASE UNCHANGED <<client, due>>
  BY <1>1 DEF Undue
<1>2. ASSUME NEW c \in Clients, ClientConnect(c) \/ ClientSend(c) \/ ClientClose(c) PROVE Undue(d)'
  <2>1. /\ due' = due
        /\ client' = [client EXCEPT ![c] = client'[c]]
        /\ client'[c] \in {"subscribe", "closed"} \/ client[c] \in {"none", "connected"}
    BY <1>2 DEF ClientConnect, ClientSend, ClientClose, ClientMove, Open, castVars, Inv, TypeOK, Conns
  <2> QED
    BY <2>1 DEF Undue, Inv, TypeOK
<1>3. CASE StopWake
  <2>1. due' = due /\ (client' = client \/ client' = [client EXCEPT ![Wake] = "command"])
    BY <1>3 DEF StopWake, Open, castVars
  <2>2. client[Wake] = "none"
    BY <1>3 DEF StopWake, StopStep, Inv, Stopping
  <2> QED
    BY <2>1, <2>2 DEF Undue, Inv, TypeOK
<1>4. ASSUME NEW b \in Broadcasters, BroadcastBegin(b) PROVE Undue(d)'
  BY <1>4 DEF BroadcastBegin, Undue
<1>5. ASSUME NEW b \in Broadcasters, Broadcast(b), ~BroadcastBegin(b) PROVE Undue(d)'
  BY <1>1, <1>5 DEF Broadcast, BroadcastPush, BroadcastNotify, BroadcastEnd
<1>6. ASSUME NEW c \in Conns, Worker(c) PROVE Undue(d)'
  BY <1>1, <1>6 DEF Worker, WorkerRead, WorkerRegister, WorkerAnswer, WorkerCheck, WorkerSleep, WorkerErase,
                    WorkerRelease, WorkerJoin, others, castVars
<1>7. ASSUME NEW c \in Conns, Writer(c) PROVE Undue(d)'
  BY <1>1, <1>7 DEF Writer, WriterTest, WriterCheck, WriterSleep, WriterWrite, others, castVars
<1>8. CASE Accept \/ StopCalled \/ (Stop /\ ~StopWake)
  BY <1>1, <1>8 DEF Accept, AcceptTest, AcceptCreate, AcceptConnected, StopCalled, Stop, StopJoinAccept, StopCopy,
                    StopRelease, StopReleased, StopJoinWorkers, StopClear, castVars
<1>9. CASE UNCHANGED vars
  BY <1>1, <1>9 DEF vars, castVars
<1> QED
  BY <1>2, <1>3, <1>4, <1>5, <1>6, <1>7, <1>8, <1>9 DEF Next

(* broadcast, the writer: no wake-up of a writer is lost and no event        *)
(* dropped on its way, for any number of clients, broadcasters and events;   *)
(* what a client's queue holds is never left there by threads that rest.     *)
THEOREM NoEventIsLeftInvariant == Spec => []NoEventIsLeft
<1> DEFINE All == \A c \in Conns : Served(c) /\ Delivered(c) /\ Undue(c)
<1>1. Init => All
  <2> SUFFICES ASSUME Init, NEW c \in Conns PROVE Served(c) /\ Delivered(c) /\ Undue(c)
    OBVIOUS
  <2> QED
    BY DEF Init, Served, Delivered, Undue, Live, Early
<1>2. Inv /\ Waking /\ All /\ [Next]_vars => All'
  BY ServedStep, DeliveredStep, UndueStep
<1>3. Inv /\ All => NoEventIsLeft
  <2> SUFFICES ASSUME Inv, All, running, ~CanMove, NEW c \in Clients, client[c] # "closed", NEW e \in due[c]
               PROVE  e \in Range(got[c])
    BY DEF NoEventIsLeft, AtRest
  <2>1. c \in Conns /\ Served(c) /\ Delivered(c) /\ Undue(c)
    BY DEF Conns
  <2>2. \A d \in Conns : Free(d)
    BY DEF Free, CanMove
  <2>3. \A b \in Broadcasters : caster[b] = "idle"
    <3> SUFFICES ASSUME NEW b \in Broadcasters, caster[b] # "idle" PROVE FALSE
      OBVIOUS
    <3>1. caster[b] = "push"
      BY DEF CanMove, Inv, TypeOK
    <3>2. PICK d \in snapshot[b] : d \in Conns
      BY <3>1 DEF CanMove, Inv, TypeOK
    <3> QED
      BY <2>2, <3>1, <3>2 DEF CanMove
  <2>4. client[c] # "command"
    BY <2>1 DEF Undue
  <2>5. Live(c) /\ worker[c] \notin Early
    BY <2>1, <2>4 DEF Live, Delivered, Inv, TypeOK
  <2>6. writer[c] = "asleep"
    <3>1. writer[c] \notin {"none", "done"}
      BY <2>1, <2>5 DEF Served
    <3> QED
      BY <2>1, <2>2, <3>1 DEF CanMove, Inv, TypeOK
  <2>7. messages[c] = <<>> /\ inHand[c] = <<>>
    <3>1. \A b \in Broadcasters : caster[b] # c
      BY <2>1, <2>3, NamesAssumption
    <3> QED
      BY <2>1, <2>5, <2>6, <3>1 DEF Delivered
  <2>8. ~Carried(c, e) /\ e \notin Range(messages[c]) /\ inHand[c] # <<e>>
    BY <2>3, <2>7 DEF Carried, Range
  <2> QED
    BY <2>1, <2>5, <2>8 DEF Delivered
<1> HIDE DEF All
<1>4. Spec => [](Inv /\ Waking)
  BY ReleasingSpec, PTL
<1> QED
  BY <1>1, <1>2, <1>3, <1>4, PTL DEF Spec
=============================================================================
