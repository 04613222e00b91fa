--------------------------- MODULE LifecycleProofs ---------------------------
(***************************************************************************)
(* Theorems about Lifecycle, for any number of commands and changes: what  *)
(* a stop leaves, when the Engine terminates itself, and what it never     *)
(* waits for.                                                              *)
(***************************************************************************)
EXTENDS Lifecycle, TLAPS

(* The steps a program contains at its head only.                            *)
Internal  == {"refreshing", "joinWorkers", "cancel", "join", "spawn", "publish", "create", "wake", "joinDns",
              "close", "clear"}
Stopping  == {"watcher.stop", "cancel", "join"}

(* What only service_main does.                                              *)
OfMain == {"construct", "ipc.start", "ipc.stop", "joinWorkers", "serve", "cease", "reportRunning", "await",
           "reportStopped", "destroy"}

(* A call of watcher.start follows one of watcher.stop.                      *)
Orderly(program) ==
  \A i \in 2..Len(program) :
    program[i] \notin Internal /\ (program[i] = "watcher.start" => program[i - 1] \in Stopping)

Programs == pc \in [Threads -> Seq(Steps)] /\ \A t \in Threads : Orderly(pc[t])


USE DEF Internal, Stopping

LEMMA AtNow ==
  \A t, s : (At(t, s) \/ W!At(t, s) \/ D!At(t, s)) => pc[t] # <<>> /\ Now(t) = s
BY DEF At, W!At, D!At, Now

LEMMA SameThen == \A t, next : (W!Then(t, next) \/ D!Then(t, next) \/ Then(t, next)) => Then(t, next)
BY DEF Then, W!Then, D!Then

LEMMA ReturnMoves ==
  ASSUME Programs, NEW t \in Threads, pc[t] # <<>>, Then(t, <<>>)
  PROVE  /\ Programs' /\ pc'[t] = Tail(pc[t])
         /\ \A u \in Threads \ {t} : pc'[u] = pc[u] /\ Now(u)' = Now(u)
         /\ Now(t)' \notin Internal /\ (Now(t)' = "watcher.start" => Now(t) \in Stopping)
<1>1. pc[t] \in Seq(Steps) /\ Tail(pc[t]) \in Seq(Steps) /\ <<>> \o Tail(pc[t]) = Tail(pc[t])
  BY DEF Programs
<1>2. pc' = [pc EXCEPT ![t] = Tail(pc[t])]
  BY <1>1 DEF Then
<1>3. /\ pc' \in [Threads -> Seq(Steps)] /\ pc'[t] = Tail(pc[t])
      /\ \A u \in Threads \ {t} : pc'[u] = pc[u] /\ Now(u)' = Now(u)
  BY <1>1, <1>2 DEF Programs, Now
<1>4. Len(Tail(pc[t])) = Len(pc[t]) - 1 /\ \A i \in 1..Len(Tail(pc[t])) : Tail(pc[t])[i] = pc[t][i + 1]
  BY <1>1
<1>5. Orderly(pc[t])
  BY DEF Programs
<1>6. Orderly(Tail(pc[t]))
  <2> SUFFICES ASSUME NEW i \in 2..Len(Tail(pc[t]))
               PROVE  /\ Tail(pc[t])[i] \notin Internal
                      /\ Tail(pc[t])[i] = "watcher.start" => Tail(pc[t])[i - 1] \in Stopping
    BY DEF Orderly
  <2>1. i + 1 \in 2..Len(pc[t]) /\ Tail(pc[t])[i] = pc[t][i + 1] /\ Tail(pc[t])[i - 1] = pc[t][i]
    BY <1>1, <1>4
  <2> QED
    BY <1>5, <2>1 DEF Orderly
<1>7. Programs'
  BY <1>3, <1>6 DEF Programs
<1>8. Tail(pc[t]) # <<>> => 2 \in 2..Len(pc[t]) /\ Head(Tail(pc[t])) = pc[t][2] /\ Head(pc[t]) = pc[t][1]
  BY <1>1, <1>4
<1>9. Now(t)' \notin Internal /\ (Now(t)' = "watcher.start" => Now(t) \in Stopping)
  <2>1. CASE Tail(pc[t]) = <<>>
    BY <1>3, <2>1 DEF Now
  <2>2. CASE Tail(pc[t]) # <<>>
    <3>1. pc[t][2] \notin Internal /\ (pc[t][2] = "watcher.start" => pc[t][1] \in Stopping)
      BY <1>5, <1>8, <2>2 DEF Orderly
    <3> QED
      BY <1>3, <1>8, <2>2, <3>1 DEF Now
  <2> QED
    BY <2>1, <2>2
<1> QED
  BY <1>3, <1>7, <1>9

LEMMA GoMoves ==
  ASSUME Programs, NEW t \in Threads, pc[t] # <<>>, NEW s \in Internal, Now(t) \in Stopping => s \in Stopping,
         Then(t, <<s>>)
  PROVE  /\ Programs' /\ Now(t)' = s /\ pc'[t] # <<>>
         /\ Len(pc'[t]) = Len(pc[t]) /\ \A i \in 2..Len(pc[t]) : pc'[t][i] = pc[t][i]
         /\ \A u \in Threads \ {t} : pc'[u] = pc[u] /\ Now(u)' = Now(u)
<1> DEFINE q == <<s>> \o Tail(pc[t])
<1>1. pc[t] \in Seq(Steps) /\ s \in Steps
  BY DEF Programs, Steps, W!WatcherSteps, D!DnsSteps
<1>2. /\ q \in Seq(Steps) /\ q # <<>> /\ Len(q) = Len(pc[t]) /\ Head(q) = s /\ q[1] = s
      /\ \A i \in 2..Len(pc[t]) : q[i] = pc[t][i]
  BY <1>1
<1>3. pc' = [pc EXCEPT ![t] = q]
  BY DEF Then
<1> HIDE DEF q
<1>4. /\ pc' \in [Threads -> Seq(Steps)] /\ pc'[t] = q
      /\ \A u \in Threads \ {t} : pc'[u] = pc[u] /\ Now(u)' = Now(u)
  BY <1>2, <1>3 DEF Programs, Now
<1>5. Orderly(pc[t]) /\ pc[t][1] = Now(t)
  BY <1>1 DEF Programs, Now
<1>6. Orderly(q)
  <2> SUFFICES ASSUME NEW i \in 2..Len(q)
               PROVE  q[i] \notin Internal /\ (q[i] = "watcher.start" => q[i - 1] \in Stopping)
    BY DEF Orderly
  <2>1. q[i] = pc[t][i] /\ i \in 2..Len(pc[t])
    BY <1>2
  <2>2. pc[t][i] \notin Internal /\ (pc[t][i] = "watcher.start" => pc[t][i - 1] \in Stopping)
    BY <1>5, <2>1 DEF Orderly
  <2>3. i = 2 \/ i - 1 \in 2..Len(pc[t])
    BY <1>1, <2>1
  <2>4. i # 2 => q[i - 1] = pc[t][i - 1]
    BY <1>2, <2>3
  <2>5. i = 2 => q[i - 1] = s /\ pc[t][i - 1] = Now(t)
    BY <1>2, <1>5
  <2> QED
    BY <2>1, <2>2, <2>4, <2>5
<1>7. Programs'
  BY <1>4, <1>6 DEF Programs
<1> QED
  BY <1>2, <1>4, <1>7 DEF Now

(* The call a step is one of.                                                *)
Call(s) ==
  CASE s = "refreshing"                             -> "refresh"
    [] s \in {"cancel", "join"}                     -> "watcher.stop"
    [] s = "spawn"                                  -> "watcher.start"
    [] s \in {"publish", "create"}                  -> "dns.start"
    [] s \in {"wake", "joinDns", "close", "clear"}  -> "dns.stop"
    [] s = "joinWorkers"                            -> "ipc.stop"
    [] OTHER                                        -> s

Moves(t) ==
  pc[t] # <<>> /\ (Then(t, <<>>) \/ \E s \in Internal : Call(s) = Call(Now(t)) /\ Then(t, <<s>>))

LEMMA StepMoves == ASSUME NEW t \in Threads, ThreadStep(t) PROVE Moves(t)
<1> USE AtNow, SameThen
<1> DEFINE Goes(step, next) == pc[t] # <<>> /\ Now(t) = step /\ Then(t, <<next>>)
<1>1. (pc[t] # <<>> /\ Then(t, <<>>)) => Moves(t)
  BY DEF Moves
<1>2. ASSUME NEW step, NEW next \in Internal, Call(next) = Call(step), Goes(step, next) PROVE Moves(t)
  BY <1>2 DEF Moves
<1>3. CASE WatcherCall(t)
  <2>1. \/ pc[t] # <<>> /\ Then(t, <<>>)
        \/ Goes("watcher.stop", "cancel") \/ Goes("cancel", "join") \/ Goes("watcher.start", "spawn")
    <3>1. CASE W!Exchange(t) \/ W!Cancel(t)
      BY <3>1 DEF W!Exchange, W!Cancel
    <3>2. CASE W!Join(t) \/ W!Prepare(t) \/ W!Spawn(t)
      BY <3>2 DEF W!Join, W!Prepare, W!Spawn
    <3> QED
      BY <1>3, <3>1, <3>2 DEF WatcherCall, W!WatcherCall
  <2> HIDE DEF Goes
  <2> QED
    BY <1>1, <1>2, <2>1 DEF Call
<1>4. CASE DnsCall(t)
  <2>1. \/ pc[t] # <<>> /\ Then(t, <<>>)
        \/ Goes("dns.start", "publish") \/ Goes("publish", "create")
        \/ Goes("dns.stop", "wake") \/ Goes("wake", "joinDns") \/ Goes("joinDns", "close") \/ Goes("close", "clear")
    <3>1. CASE D!Bind(t) \/ D!Publish(t) \/ D!Create(t)
      BY <3>1 DEF D!Bind, D!Publish, D!Create
    <3>2. CASE D!Stop(t) \/ D!WakeDatagram(t)
      BY <3>2 DEF D!Stop, D!WakeDatagram
    <3>3. CASE D!JoinDns(t) \/ D!CloseSocket(t) \/ D!Clear(t)
      BY <3>3 DEF D!JoinDns, D!CloseSocket, D!Clear
    <3> QED
      BY <1>4, <3>1, <3>2, <3>3 DEF DnsCall, D!DnsCall
  <2> HIDE DEF Goes
  <2> QED
    BY <1>1, <1>2, <2>1 DEF Call
<1>5. CASE Refresh(t) \/ Serve(t)
  <2>1. (pc[t] # <<>> /\ Then(t, <<>>)) \/ Goes("refresh", "refreshing") \/ Goes("ipc.stop", "joinWorkers")
    BY <1>5 DEF Refresh, Serve, Return
  <2> HIDE DEF Goes
  <2> QED
    BY <1>1, <1>2, <2>1 DEF Call
<1>6. CASE Services(t) \/ Report(t) \/ Destroy(t)
  BY <1>1, <1>6 DEF Services, Report, Destroy, Return
<1> QED
  BY <1>3, <1>4, <1>5, <1>6 DEF ThreadStep

(* What a step of a thread does to the programs, in one place.               *)
LEMMA Moved ==
  ASSUME Programs, NEW t \in Threads, Moves(t)
  PROVE  /\ Programs' /\ \A u \in Threads \ {t} : pc'[u] = pc[u] /\ Now(u)' = Now(u)
         /\ \/ /\ pc'[t] = Tail(pc[t])
               /\ Now(t)' \notin Internal /\ (Now(t)' = "watcher.start" => Now(t) \in Stopping)
            \/ /\ Len(pc'[t]) = Len(pc[t]) /\ pc'[t] # <<>> /\ \A i \in 2..Len(pc[t]) : pc'[t][i] = pc[t][i]
               /\ Now(t)' \in Internal /\ Call(Now(t))' = Call(Now(t))
<1>1. CASE Then(t, <<>>)
  BY <1>1, ReturnMoves DEF Moves
<1>2. CASE \E s \in Internal : Call(s) = Call(Now(t)) /\ Then(t, <<s>>)
  <2>1. PICK s \in Internal : Call(s) = Call(Now(t)) /\ Then(t, <<s>>)
    BY <1>2
  <2>2. pc[t] # <<>> /\ (Now(t) \in Stopping => s \in Stopping)
    BY <2>1 DEF Moves, Call
  <2>3. /\ Programs' /\ Now(t)' = s /\ pc'[t] # <<>>
        /\ Len(pc'[t]) = Len(pc[t]) /\ \A i \in 2..Len(pc[t]) : pc'[t][i] = pc[t][i]
        /\ \A u \in Threads \ {t} : pc'[u] = pc[u] /\ Now(u)' = Now(u)
    BY <2>1, <2>2, GoMoves
  <2>4. Call(Now(t))' = Call(s)
    BY <2>3 DEF Call
  <2> QED
    BY <2>1, <2>3, <2>4
<1> QED
  BY <1>1, <1>2 DEF Moves

LEMMA Literals ==
  /\ \A S : \A a \in S : <<a>> \in Seq(S) /\ Len(<<a>>) = 1 /\ Head(<<a>>) = a
  /\ \A S : \A a \in S, b \in S : <<a, b>> \in Seq(S) /\ Len(<<a, b>>) = 2 /\ Head(<<a, b>>) = a
  /\ \A S : \A a \in S, b \in S, c \in S :
       <<a, b, c>> \in Seq(S) /\ Len(<<a, b, c>>) = 3 /\ Head(<<a, b, c>>) = a
OBVIOUS

LEMMA Joined ==
  ASSUME NEW S, NEW p \in Seq(S), NEW q \in Seq(S)
  PROVE  /\ p \o q \in Seq(S) /\ Len(p \o q) = Len(p) + Len(q)
         /\ \A i \in 1..Len(p) : (p \o q)[i] = p[i]
         /\ \A i \in 1..Len(q) : (p \o q)[Len(p) + i] = q[i]
OBVIOUS

LEMMA CommandPrograms ==
  ASSUME NEW program \in Commands
  PROVE  /\ program \in Seq(Steps) /\ Orderly(program) /\ program # <<>>
         /\ Head(program) \in {"refresh", "dns.start", "dns.stop", "service.start"}
         /\ \A i \in DOMAIN program : program[i] \notin OfMain
<1>1. {"refresh", "dns.start", "dns.stop", "service.start", "service.stop", "watcher.stop", "watcher.start"}
        \subseteq Steps
  BY DEF Steps, W!WatcherSteps, D!DnsSteps
<1>2. CASE program = <<"refresh">> \o WatcherStart
  <2>1. <<"refresh">> \in Seq(Steps) /\ Len(<<"refresh">>) = 1 /\ <<"refresh">>[1] = "refresh"
    BY <1>1, Literals
  <2>2. /\ WatcherStart \in Seq(Steps) /\ Len(WatcherStart) = 2
        /\ WatcherStart[1] = "watcher.stop" /\ WatcherStart[2] = "watcher.start"
    BY <1>1, Literals DEF WatcherStart
  <2>3. /\ program \in Seq(Steps) /\ Len(program) = 3
        /\ program[1] = "refresh" /\ program[2] = "watcher.stop" /\ program[3] = "watcher.start"
    <3>1. /\ program \in Seq(Steps) /\ Len(program) = 1 + 2
          /\ \A i \in 1..1 : program[i] = <<"refresh">>[i]
          /\ \A i \in 1..2 : program[1 + i] = WatcherStart[i]
      BY <1>2, <2>1, <2>2, Joined
    <3> QED
      BY <2>1, <2>2, <3>1
  <2>4. program # <<>> /\ Head(program) = "refresh" /\ DOMAIN program = 1..3
    BY <2>3
  <2>5. \A i \in 1..3 : i = 1 \/ i = 2 \/ i = 3
    OBVIOUS
  <2>6. Orderly(program)
    BY <2>3, <2>5 DEF Orderly
  <2> QED
    BY <2>3, <2>4, <2>5, <2>6 DEF OfMain
<1>3. ASSUME NEW a \in {"refresh", "dns.start", "dns.stop", "service.start"}, program = <<a>>
      PROVE  /\ program \in Seq(Steps) /\ Len(program) = 1 /\ Head(program) = a /\ program[1] = a
  BY <1>1, <1>3, Literals
<1>4. ASSUME NEW a \in {"dns.start", "service.stop"}, program = <<"dns.stop", a>>
      PROVE  /\ program \in Seq(Steps) /\ Len(program) = 2 /\ Head(program) = "dns.stop"
             /\ program[1] = "dns.stop" /\ program[2] = a
  BY <1>1, <1>4, Literals
<1>5. CASE \E a \in {"refresh", "dns.start", "dns.stop", "service.start"} : program = <<a>>
  BY <1>3, <1>5 DEF Orderly, OfMain
<1>6. CASE \E a \in {"dns.start", "service.stop"} : program = <<"dns.stop", a>>
  <2>1. PICK a \in {"dns.start", "service.stop"} : program = <<"dns.stop", a>>
    BY <1>6
  <2>2. \A i \in 1..2 : i = 1 \/ i = 2
    OBVIOUS
  <2> QED
    BY <1>4, <2>1, <2>2 DEF Orderly, OfMain
<1> QED
  BY <1>2, <1>5, <1>6 DEF Commands

LEMMA CommandMoves ==
  ASSUME Programs, Command, commands \in Nat, changes \in Nat, NEW w, w = commands + 1
  PROVE  /\ Programs' /\ w \in Workers
         /\ \A u \in Threads \ {w} : pc'[u] = pc[u] /\ Now(u)' = Now(u)
         /\ Now(w)' \in {"refresh", "dns.start", "dns.stop", "service.start"}
         /\ \A i \in DOMAIN pc'[w] : pc'[w][i] \notin OfMain
<1>1. PICK program \in Commands : pc' = [pc EXCEPT ![w] = program]
  BY DEF Command
<1>2. /\ program \in Seq(Steps) /\ Orderly(program) /\ program # <<>>
      /\ Head(program) \in {"refresh", "dns.start", "dns.stop", "service.start"}
      /\ \A i \in DOMAIN program : program[i] \notin OfMain
  BY CommandPrograms
<1>3. w \in Workers /\ Workers \subseteq Threads
  BY BoundsAssumption DEF Command, Workers, Threads, BoundsAssumption
<1>4. /\ pc' \in [Threads -> Seq(Steps)] /\ pc'[w] = program
      /\ \A u \in Threads \ {w} : pc'[u] = pc[u]
  BY <1>1, <1>2, <1>3 DEF Programs
<1>5. Programs'
  BY <1>2, <1>4 DEF Programs
<1>6. \A u \in Threads \ {w} : Now(u)' = Now(u)
  BY <1>4 DEF Now
<1>7. Now(w)' = Head(program)
  BY <1>2, <1>4 DEF Now
<1> QED
  BY <1>2, <1>3, <1>4, <1>5, <1>6, <1>7

(* A refresh that throws: nobody catches it, or its command is dropped.      *)
Uncaught == terminated' /\ escaped' /\ UNCHANGED <<pc, holder, wasRunning>> /\ \A t : Now(t)' = Now(t)

Dropped(w) ==
  /\ pc[w] # <<>> /\ Now(w) = "refreshing" /\ pc'[w] = <<>> /\ Now(w)' = "none"
  /\ \A u \in Threads \ {w} : pc'[u] = pc[u] /\ Now(u)' = Now(u)
  /\ holder' = Nobody /\ wasRunning' = FALSE /\ UNCHANGED <<terminated, escaped>>

LEMMA Thrown ==
  ASSUME Programs, RefreshThrows
  PROVE  /\ Programs' /\ (Uncaught \/ \E w \in Workers : Dropped(w))
         /\ UNCHANGED <<watching, watcher, notes, missed, owed, dnsVars>>
         /\ UNCHANGED <<ipc, running, callback, services, kept, scm, handling, stopEvent, commands, changes>>
<1>1. /\ UNCHANGED <<watching, watcher, notes, missed, owed, dnsVars>>
      /\ UNCHANGED <<ipc, running, callback, services, kept, scm, handling, stopEvent, commands, changes>>
  BY DEF RefreshThrows, watcherVars, scmVars, bounds
<1>2. CASE terminated' = TRUE /\ escaped' = TRUE /\ UNCHANGED <<pc, holder, wasRunning>>
  BY <1>1, <1>2 DEF Uncaught, Programs, Now
<1>3. ASSUME NEW w \in Workers, At(w, "refreshing"), pc' = [pc EXCEPT ![w] = <<>>],
             holder' = Nobody, wasRunning' = FALSE, UNCHANGED <<terminated, escaped>>
      PROVE  Programs' /\ Dropped(w)
  <2>1. w \in Threads /\ pc[w] # <<>> /\ Now(w) = "refreshing"
    BY <1>3, AtNow DEF Threads, Workers
  <2>2. <<>> \in Seq(Steps) /\ Orderly(<<>>)
    BY DEF Orderly
  <2>3. /\ pc' \in [Threads -> Seq(Steps)] /\ pc'[w] = <<>> /\ Now(w)' = "none"
        /\ \A u \in Threads \ {w} : pc'[u] = pc[u] /\ Now(u)' = Now(u)
    BY <1>3, <2>1, <2>2 DEF Programs, Now
  <2>4. Programs'
    BY <2>2, <2>3 DEF Programs
  <2> QED
    BY <1>3, <2>1, <2>3, <2>4 DEF Dropped
<1> QED
  BY <1>1, <1>2, <1>3 DEF RefreshThrows

-----------------------------------------------------------------------------
(* Type correctness.                                                         *)

Typed == TypeOK /\ Programs

LEMMA InitTyped == ASSUME Init PROVE Typed
<1> DEFINE q == ServiceMain
<1>1. Main \in Threads /\ commands \in 0..MaxEvents /\ changes \in 0..MaxEvents
  BY BoundsAssumption DEF Init, Main, Threads, BoundsAssumption
<1>2. q \in Seq(Steps) /\ Orderly(q)
  BY DEF ServiceMain, EngineStart, WatcherStart, EngineStop, Steps, W!WatcherSteps, D!DnsSteps, Orderly
<1> HIDE DEF q
<1>3. pc = [t \in Threads |-> IF t = Main THEN q ELSE <<>>]
  BY DEF Init, q
<1>4. <<>> \in Seq(Steps) /\ Orderly(<<>>)
  BY DEF Orderly
<1>5. Programs
  BY <1>2, <1>3, <1>4 DEF Programs
<1>6. W!WatcherTypeOK /\ D!DnsTypeOK
  BY DEF Init, W!WatcherInit, W!WatcherTypeOK, W!WatcherStates, D!DnsInit, D!DnsTypeOK
<1> QED
  BY <1>1, <1>5, <1>6 DEF Init, Typed, TypeOK, Programs

LEMMA StepTyped == ASSUME Typed, [Next]_vars PROVE Typed'
<1> USE DEF Typed
<1>1. CASE UNCHANGED vars
  BY <1>1 DEF vars, watcherVars, dnsVars, refreshVars, scmVars, bounds, engineVars, TypeOK, W!WatcherTypeOK,
              D!DnsTypeOK, Programs
<1>2. CASE Next
  <2>1. ~terminated /\ overlapped' \subseteq {"watcher", "dns"}
    BY <1>2 DEF Next, EngineRuns, Run, Overlapping, Two, InCall, TypeOK
  <2>2. TypeOK /\ Programs
    OBVIOUS
  <2>3. ASSUME NEW t \in Threads, ThreadStep(t) PROVE Typed'
    <3>1. Programs'
      BY <2>2, <2>3, StepMoves, Moved
    <3>2. pc' \in [Threads -> Seq(Steps)]
      BY <3>1 DEF Programs
    <3>3. CASE WatcherCall(t)
      <4>1. W!WatcherTypeOK' /\ (callback # "none" => watcher' = "call")
        <5> USE DEF TypeOK, W!WatcherTypeOK, W!WatcherStates
        <5>1. CASE W!Exchange(t)
          BY <2>2, <5>1 DEF W!Exchange
        <5>2. CASE W!Cancel(t)
          BY <2>2, <5>2 DEF W!Cancel
        <5>3. CASE W!Join(t)
          BY <2>2, <5>3 DEF W!Join, W!Over
        <5>4. CASE W!Prepare(t)
          BY <2>2, <5>4 DEF W!Prepare
        <5>5. CASE W!Spawn(t)
          BY <2>2, <5>5 DEF W!Spawn
        <5> QED
          BY <3>3, <5>1, <5>2, <5>3, <5>4, <5>5 DEF WatcherCall, W!WatcherCall
      <4>2. UNCHANGED <<escaped, dnsVars, engineVars, scmVars, bounds>>
        BY <3>3 DEF WatcherCall
      <4>3. D!DnsTypeOK'
        BY <2>2, <4>2 DEF dnsVars, TypeOK, D!DnsTypeOK
      <4> QED
        BY <2>1, <2>2, <3>1, <3>2, <4>1, <4>2, <4>3 DEF engineVars, refreshVars, scmVars, bounds, TypeOK
    <3>4. CASE DnsCall(t)
      <4>1. D!DnsTypeOK' /\ terminated' \in BOOLEAN
        <5> USE DEF TypeOK, D!DnsTypeOK, W!WatcherTypeOK
        <5>1. CASE D!Bind(t) \/ D!Publish(t) \/ D!Create(t)
          BY <2>2, <5>1 DEF D!Bind, D!Publish, D!Create
        <5>2. CASE D!Stop(t) \/ D!WakeDatagram(t)
          BY <2>2, <5>2 DEF D!Stop, D!WakeDatagram
        <5>3. CASE D!JoinDns(t) \/ D!CloseSocket(t) \/ D!Clear(t)
          BY <2>2, <5>3 DEF D!JoinDns, D!CloseSocket, D!Clear
        <5> QED
          BY <3>4, <5>1, <5>2, <5>3 DEF DnsCall, D!DnsCall
      <4> QED
        BY <2>1, <2>2, <3>1, <3>2, <3>4, <4>1
        DEF DnsCall, watcherVars, engineVars, refreshVars, scmVars, bounds, TypeOK, W!WatcherTypeOK
    <3>5. CASE Refresh(t)
      <4>1. owed' = FALSE \/ owed' = owed
        BY <3>5 DEF Refresh, BeginRefresh, EndRefresh
      <4>2. UNCHANGED <<watching, watcher, notes, missed, terminated, dnsVars>>
        BY <3>5 DEF Refresh
      <4>3. owed' \in BOOLEAN
        BY <2>2, <4>1 DEF TypeOK, W!WatcherTypeOK
      <4>4. W!WatcherTypeOK'
        BY <2>2, <4>2, <4>3 DEF TypeOK, W!WatcherTypeOK
      <4>5. D!DnsTypeOK'
        BY <2>2, <4>2 DEF dnsVars, TypeOK, D!DnsTypeOK
      <4>6. /\ holder' \in Threads \union {Watcher, Nobody} /\ wasRunning' \in BOOLEAN
            /\ services' \in BOOLEAN /\ kept' = kept
        BY <2>2, <3>5 DEF Refresh, BeginRefresh, EndRefresh, TypeOK
      <4> QED
        BY <2>1, <2>2, <3>1, <3>2, <3>5, <4>4, <4>5, <4>6 DEF Refresh, scmVars, bounds, TypeOK
    <3>6. CASE Services(t) \/ Serve(t) \/ Report(t)
      <4>1. W!WatcherTypeOK' /\ D!DnsTypeOK'
        BY <2>2, <3>6
        DEF Services, Serve, Report, watcherVars, dnsVars, TypeOK, W!WatcherTypeOK, D!DnsTypeOK
      <4>2. /\ ipc' \in {"off", "on", "closing", "stuck"} /\ running' \in BOOLEAN
            /\ services' \in BOOLEAN /\ kept' \in BOOLEAN /\ escaped' = escaped
            /\ handling' \in BOOLEAN /\ stopEvent' \in BOOLEAN
            /\ scm' \in {"stopped", "startPending", "running", "stopPending"}
        <5>1. CASE Services(t)
          BY <2>2, <5>1 DEF Services, scmVars, TypeOK
        <5>2. CASE Serve(t)
          BY <2>2, <5>2 DEF Serve, scmVars, refreshVars, TypeOK
        <5>3. CASE Report(t)
          BY <2>2, <5>3 DEF Report, scmVars, engineVars, refreshVars, TypeOK
        <5> QED
          BY <3>6, <5>1, <5>2, <5>3
      <4>3. UNCHANGED <<holder, wasRunning, callback, watcher, bounds>>
        BY <3>6 DEF Services, Serve, Report, engineVars, refreshVars, watcherVars
      <4> QED
        BY <2>1, <2>2, <3>1, <3>2, <4>1, <4>2, <4>3 DEF bounds, TypeOK
    <3>7. CASE Destroy(t)
      BY <2>1, <2>2, <3>1, <3>2, <3>7
      DEF Destroy, watcherVars, dnsVars, engineVars, refreshVars, scmVars, bounds, TypeOK, W!WatcherTypeOK,
          D!DnsTypeOK
    <3> QED
      BY <2>3, <3>3, <3>4, <3>5, <3>6, <3>7 DEF ThreadStep
  <2>4. ASSUME Command PROVE Typed'
    <3>1. Programs' /\ pc' \in [Threads -> Seq(Steps)]
      BY <2>2, <2>4, CommandMoves, BoundsAssumption DEF TypeOK, BoundsAssumption, Programs
    <3>2. commands' \in 0..MaxEvents
      BY <2>2, <2>4, BoundsAssumption DEF TypeOK, Command, BoundsAssumption
    <3> QED
      BY <2>1, <2>2, <2>4, <3>1, <3>2
      DEF Command, watcherVars, dnsVars, engineVars, refreshVars, scmVars, TypeOK, W!WatcherTypeOK, D!DnsTypeOK
  <2>5. ASSUME WatcherThread \/ Callback PROVE Typed'
    <3>1. pc' = pc
      BY <2>5 DEF WatcherThread, W!WatcherThread, W!Open, W!TestRunning, W!EnterRead, W!ReadReturns, W!TestAgain,
                  Callback, Locks, Ignores, Begins, Finishes, W!CallbackReturns, W!callers
    <3>2. Programs'
      BY <2>2, <3>1 DEF Programs
    <3>3. CASE WatcherThread
      <4>1. W!WatcherTypeOK' /\ (callback # "none" => watcher' = "call")
        BY <2>2, <3>3 DEF WatcherThread, W!WatcherThread, W!Open, W!TestRunning, W!EnterRead, W!ReadReturns,
                          W!TestAgain, W!callers, TypeOK, W!WatcherTypeOK, W!WatcherStates
      <4> QED
        BY <2>1, <2>2, <3>1, <3>2, <3>3, <4>1
        DEF WatcherThread, dnsVars, engineVars, refreshVars, scmVars, bounds, TypeOK, D!DnsTypeOK
    <3>4. CASE Callback
      <4>1. (owed' = FALSE \/ owed' = owed) /\ watcher' \in {"call", "test"}
        BY <3>4 DEF Callback, Locks, Ignores, Begins, Finishes, BeginRefresh, EndRefresh, W!CallbackReturns,
                    watcherVars
      <4>2. UNCHANGED <<watching, notes, missed, terminated, dnsVars>>
        BY <3>4 DEF Callback, Locks, Ignores, Begins, Finishes, W!CallbackReturns, W!callers, watcherVars
      <4>3. owed' \in BOOLEAN /\ watcher' \in W!WatcherStates
        BY <2>2, <4>1 DEF TypeOK, W!WatcherTypeOK, W!WatcherStates
      <4>4. W!WatcherTypeOK' /\ D!DnsTypeOK'
        BY <2>2, <4>2, <4>3 DEF dnsVars, TypeOK, W!WatcherTypeOK, D!DnsTypeOK
      <4>5. callback' \in {"none", "lock", "refresh"} /\ (callback' # "none" => watcher' = "call")
        BY <3>4 DEF Callback, Locks, Ignores, Begins, Finishes, watcherVars
      <4>6. /\ holder' \in Threads \union {Watcher, Nobody} /\ wasRunning' \in BOOLEAN
            /\ services' \in BOOLEAN /\ kept' = kept
        BY <2>2, <3>4 DEF Callback, Locks, Ignores, Begins, Finishes, BeginRefresh, EndRefresh, refreshVars, TypeOK
      <4> QED
        BY <2>1, <2>2, <3>1, <3>2, <3>4, <4>4, <4>5, <4>6 DEF Callback, scmVars, bounds, TypeOK
    <3> QED
      BY <2>5, <3>3, <3>4
  <2>6. ASSUME DnsThread PROVE Typed'
    <3>1. pc' = pc /\ D!DnsTypeOK' /\ terminated' = terminated
      BY <2>2, <2>6 DEF DnsThread, D!DnsThread, D!TestRunning, D!Receive, D!rest, TypeOK, D!DnsTypeOK
    <3> QED
      BY <2>1, <2>2, <2>6, <3>1
      DEF DnsThread, watcherVars, engineVars, refreshVars, scmVars, bounds, TypeOK, W!WatcherTypeOK, Programs
  <2>7. ASSUME FolderChanges \/ ControlStop PROVE Typed'
    <3>1. pc' = pc /\ W!WatcherTypeOK' /\ D!DnsTypeOK' /\ watcher' = watcher
      <4>1. owed' \in BOOLEAN /\ notes' \in {"off", "empty", "change", "overflow"}
        BY <2>2, <2>7 DEF FolderChanges, W!FolderChanges, ControlStop, watcherVars, TypeOK, W!WatcherTypeOK
      <4>2. UNCHANGED <<pc, watching, watcher, missed, terminated, dnsVars>>
        BY <2>7 DEF FolderChanges, W!FolderChanges, W!callers, ControlStop, watcherVars
      <4> QED
        BY <2>2, <4>1, <4>2 DEF dnsVars, TypeOK, W!WatcherTypeOK, D!DnsTypeOK
    <3>2. commands' \in 0..MaxEvents /\ changes' \in 0..MaxEvents
      BY <2>2, <2>7, BoundsAssumption DEF FolderChanges, ControlStop, bounds, TypeOK, BoundsAssumption
    <3>3. /\ scm' \in {"stopped", "startPending", "running", "stopPending"}
          /\ handling' \in BOOLEAN /\ stopEvent' \in BOOLEAN /\ UNCHANGED <<escaped, engineVars>>
      BY <2>2, <2>7 DEF FolderChanges, ControlStop, scmVars, engineVars, TypeOK
    <3> QED
      BY <2>1, <2>2, <3>1, <3>2, <3>3 DEF engineVars, refreshVars, TypeOK, Programs
  <2>8. ASSUME RefreshThrows PROVE Typed'
    <3>1. /\ Programs' /\ UNCHANGED <<watching, watcher, notes, missed, owed, dnsVars>>
          /\ UNCHANGED <<ipc, running, callback, services, kept, scm, handling, stopEvent, commands, changes>>
          /\ terminated' \in BOOLEAN /\ escaped' \in BOOLEAN
      BY <2>2, <2>8, Thrown DEF RefreshThrows, TypeOK, W!WatcherTypeOK
    <3>2. holder' \in Threads \union {Watcher, Nobody} /\ wasRunning' \in BOOLEAN
      BY <2>2, <2>8 DEF RefreshThrows, TypeOK
    <3>3. pc' \in [Threads -> Seq(Steps)]
      BY <3>1 DEF Programs
    <3>4. W!WatcherTypeOK' /\ D!DnsTypeOK'
      BY <2>2, <3>1 DEF TypeOK, dnsVars, W!WatcherTypeOK, D!DnsTypeOK
    <3> QED
      BY <2>1, <2>2, <3>1, <3>2, <3>3, <3>4 DEF TypeOK
  <2> QED
    BY <1>2, <2>3, <2>4, <2>5, <2>6, <2>7, <2>8 DEF Next, EngineRuns, Run
<1> QED
  BY <1>1, <1>2

(* Steps of no thread that runs a program.                                   *)
Outside == WatcherThread \/ Callback \/ DnsThread \/ FolderChanges \/ ControlStop

LEMMA OutsideKeeps == ASSUME Outside PROVE pc' = pc /\ commands' = commands /\ \A t : Now(t)' = Now(t)
BY DEF Outside, WatcherThread, W!WatcherThread, W!Open, W!TestRunning, W!EnterRead, W!ReadReturns, W!TestAgain,
       W!callers, Callback, Locks, Ignores, Begins, Finishes, W!CallbackReturns, FolderChanges,
       W!FolderChanges, ControlStop, DnsThread, D!DnsThread, D!TestRunning, D!Receive, D!rest, bounds, Now

(* A connection that has not come yet runs nothing.                          *)
Unused == \A w \in Workers : w > commands => pc[w] = <<>>

LEMMA StepUnused == ASSUME Typed, Unused, [Next]_vars PROVE Unused'
<1>1. /\ Programs /\ Workers \subseteq Threads /\ Workers \subseteq Nat
      /\ commands \in Nat /\ changes \in Nat
  BY BoundsAssumption DEF Typed, TypeOK, Threads, Workers, BoundsAssumption
<1>2. CASE UNCHANGED <<pc, commands>>
  BY <1>2 DEF Unused
<1>3. ASSUME NEW t \in Threads, ThreadStep(t) PROVE Unused'
  <2>1. commands' = commands
    BY <1>3 DEF ThreadStep, WatcherCall, DnsCall, Refresh, Services, Serve, Report, Destroy, bounds
  <2>2. pc[t] # <<>> /\ \A w \in Threads \ {t} : pc'[w] = pc[w]
    BY <1>1, <1>3, StepMoves, Moved DEF Moves
  <2> QED
    BY <1>1, <2>1, <2>2 DEF Unused
<1>4. CASE Command
  <2>1. PICK n : n = commands + 1
    OBVIOUS
  <2>2. commands' = n /\ \A w \in Threads \ {n} : pc'[w] = pc[w]
    BY <1>1, <1>4, <2>1, CommandMoves DEF Command
  <2>3. \A w \in Workers : w > commands' => w > commands /\ w \in Threads \ {n}
    BY <1>1, <2>1, <2>2
  <2> QED
    BY <2>2, <2>3 DEF Unused
<1>5. CASE Outside
  BY <1>2, <1>5, OutsideKeeps
<1>6. CASE UNCHANGED vars
  BY <1>2, <1>6 DEF vars, bounds
<1>7. CASE RefreshThrows
  <2>1. commands' = commands /\ \A w \in Workers : pc'[w] = <<>> \/ pc'[w] = pc[w]
    BY <1>1, <1>7, Thrown DEF Uncaught, Dropped
  <2> QED
    BY <2>1 DEF Unused
<1> QED
  BY <1>3, <1>4, <1>5, <1>6, <1>7 DEF Next, EngineRuns, Run, Outside

(* The variables have their types, and a thread of the Engine only ever has  *)
(* steps of its calls before it.                                             *)
THEOREM TypeCorrect == Spec => []TypeOK
<1>1. Spec => []Typed
  <2>1. Typed /\ [Next]_vars => Typed'
    BY StepTyped
  <2> QED
    BY <2>1, InitTyped, PTL DEF Spec
<1>2. Typed => TypeOK
  BY DEF Typed
<1> QED
  BY <1>1, <1>2, PTL

(* A new connection, which ran nothing before.                               *)
LEMMA CommandArrives ==
  ASSUME Typed, Unused, Command
  PROVE  \E w \in Workers :
           /\ pc[w] = <<>> /\ Now(w) = "none" /\ Now(w)' \in {"refresh", "dns.start", "dns.stop", "service.start"}
           /\ \A i \in DOMAIN pc'[w] : pc'[w][i] \notin OfMain
           /\ \A u \in Threads \ {w} : pc'[u] = pc[u] /\ Now(u)' = Now(u)
<1>1. PICK w : w = commands + 1
  OBVIOUS
<1>2. Programs /\ commands \in Nat /\ changes \in Nat
  BY BoundsAssumption DEF Typed, TypeOK, BoundsAssumption
<1>3. /\ w \in Workers /\ Now(w)' \in {"refresh", "dns.start", "dns.stop", "service.start"}
      /\ \A i \in DOMAIN pc'[w] : pc'[w][i] \notin OfMain
      /\ \A u \in Threads \ {w} : pc'[u] = pc[u] /\ Now(u)' = Now(u)
  BY <1>1, <1>2, CommandMoves
<1>4. w > commands
  BY <1>1, <1>2
<1>5. pc[w] = <<>> /\ Now(w) = "none"
  BY <1>3, <1>4 DEF Unused, Now
<1> QED
  BY <1>3, <1>5

-----------------------------------------------------------------------------
(* DNS, while no two calls on it have overlapped.                            *)

DnsInside == {"publish", "create", "wake", "joinDns", "close", "clear"}

DnsSettled == IF answering THEN bound /\ socket /\ responder \in {"test", "recv"}
                           ELSE ~bound /\ responder = "none"

(* What holds inside a call, and between calls.                              *)
DnsCalls ==
  /\ \A t, u \in Threads : t # u => Now(t) \notin D!DnsSteps \/ Now(u) \notin D!DnsSteps
  /\ \A t \in Threads :
       /\ Now(t) = "publish" => ~answering /\ bound /\ responder = "none"
       /\ Now(t) = "create" => answering /\ bound /\ socket /\ responder = "none"
       /\ Now(t) \in {"wake", "joinDns"} => ~answering /\ bound /\ taken[t]
       /\ Now(t) = "close" => ~answering /\ bound /\ taken[t] /\ responder = "none"
       /\ Now(t) = "clear" => ~answering /\ ~bound /\ responder = "none"
  /\ (\A t \in Threads : Now(t) \notin DnsInside) => DnsSettled

DnsAlone == "dns" \notin overlapped => DnsCalls
DnsInv   == Typed /\ Unused /\ DnsAlone

USE DEF DnsInside

LEMMA DnsOverlap ==
  ASSUME overlapped' = overlapped \union Overlapping', "dns" \notin overlapped'
  PROVE  /\ "dns" \notin overlapped
         /\ (\A t, u \in Threads : t # u => Now(t) \notin D!DnsSteps \/ Now(u) \notin D!DnsSteps)'
<1>1. "dns" \notin overlapped /\ ~(\E t, u \in Threads : t # u /\ InCall(t, D!DnsSteps) /\ InCall(u, D!DnsSteps))'
  BY DEF Overlapping, Two
<1>2. \A t : Now(t)' \in D!DnsSteps => InCall(t, D!DnsSteps)'
  BY DEF Now, InCall, D!DnsSteps
<1> QED
  BY <1>1, <1>2

(* Steps that leave DNS alone and are not in the middle of a call on it.     *)
LEMMA DnsFrame ==
  ASSUME DnsCalls, UNCHANGED dnsVars,
         \A t \in Threads : Now(t)' = Now(t) \/ (Now(t) \notin DnsInside /\ Now(t)' \notin DnsInside),
         (\A t, u \in Threads : t # u => Now(t) \notin D!DnsSteps \/ Now(u) \notin D!DnsSteps)'
  PROVE  DnsCalls'
BY DEF DnsCalls, DnsSettled, dnsVars

LEMMA DnsElsewhere ==
  ASSUME Typed, NEW t \in Threads, ThreadStep(t), ~DnsCall(t)
  PROVE  /\ UNCHANGED dnsVars
         /\ \A u \in Threads : Now(u)' = Now(u) \/ (Now(u) \notin DnsInside /\ Now(u)' \notin DnsInside)
<1> USE AtNow, SameThen
<1>1. /\ UNCHANGED dnsVars /\ pc[t] # <<>> /\ Now(t) \notin DnsInside
      /\ \/ Then(t, <<>>)
         \/ \E s \in Internal \ DnsInside : (Now(t) \in Stopping => s \in Stopping) /\ Then(t, <<s>>)
  <2>1. CASE WatcherCall(t)
    <3>1. pc[t] # <<>> /\ Now(t) \in W!WatcherSteps
      BY <2>1 DEF WatcherCall, W!WatcherCall, W!Exchange, W!Cancel, W!Join, W!Prepare, W!Spawn, W!WatcherSteps
    <3>2. \/ Then(t, <<>>)
          \/ \E s \in {"cancel", "join", "spawn"} : (Now(t) \in Stopping => s \in Stopping) /\ Then(t, <<s>>)
      <4>1. CASE W!Exchange(t) \/ W!Cancel(t)
        BY <4>1 DEF W!Exchange, W!Cancel
      <4>2. CASE W!Join(t) \/ W!Prepare(t) \/ W!Spawn(t)
        BY <4>2 DEF W!Join, W!Prepare, W!Spawn
      <4> QED
        BY <2>1, <4>1, <4>2 DEF WatcherCall, W!WatcherCall
    <3> QED
      BY <2>1, <3>1, <3>2 DEF WatcherCall, W!WatcherSteps
  <2>2. CASE Refresh(t)
    BY <2>2 DEF Refresh, Return
  <2>3. CASE Services(t) \/ Report(t) \/ Destroy(t)
    BY <2>3 DEF Services, Report, Destroy, Return
  <2>4. CASE Serve(t)
    BY <2>4 DEF Serve, Return
  <2> QED
    BY <2>1, <2>2, <2>3, <2>4 DEF ThreadStep
<1>2. Programs
  BY DEF Typed
<1>3. Now(t)' \notin DnsInside /\ \A u \in Threads \ {t} : Now(u)' = Now(u)
  <2>1. CASE Then(t, <<>>)
    BY <1>1, <1>2, <2>1, ReturnMoves
  <2>2. CASE \E s \in Internal \ DnsInside : (Now(t) \in Stopping => s \in Stopping) /\ Then(t, <<s>>)
    <3>1. PICK s \in Internal \ DnsInside : (Now(t) \in Stopping => s \in Stopping) /\ Then(t, <<s>>)
      BY <2>2
    <3>2. Now(t)' = s /\ \A u \in Threads \ {t} : Now(u)' = Now(u)
      BY <1>1, <1>2, <3>1, GoMoves
    <3> QED
      BY <3>1, <3>2
  <2> QED
    BY <1>1, <2>1, <2>2
<1> QED
  BY <1>1, <1>3

(* A step inside a call on DNS: nobody else is inside one.                   *)
LEMMA DnsCallKeeps ==
  ASSUME Typed, DnsCalls, NEW t \in Threads, DnsCall(t),
         (\A v, u \in Threads : v # u => Now(v) \notin D!DnsSteps \/ Now(u) \notin D!DnsSteps)'
  PROVE  DnsCalls'
<1> USE AtNow, SameThen
<1>1. Programs /\ taken \in [Threads -> BOOLEAN]
  BY DEF Typed, TypeOK, D!DnsTypeOK
<1>2. /\ pc[t] # <<>> /\ Now(t) \in D!DnsSteps
      /\ Now(t) \notin Stopping /\ Now(t) \in DnsInside \union {"dns.start", "dns.stop"}
  <2>1. pc[t] # <<>> /\ Now(t) \in D!DnsSteps
    <3>1. CASE D!Bind(t) \/ D!Publish(t) \/ D!Create(t)
      BY <3>1 DEF D!Bind, D!Publish, D!Create, D!DnsSteps
    <3>2. CASE D!Stop(t) \/ D!WakeDatagram(t)
      BY <3>2 DEF D!Stop, D!WakeDatagram, D!DnsSteps
    <3>3. CASE D!JoinDns(t) \/ D!CloseSocket(t) \/ D!Clear(t)
      BY <3>3 DEF D!JoinDns, D!CloseSocket, D!Clear, D!DnsSteps
    <3> QED
      BY <3>1, <3>2, <3>3 DEF DnsCall, D!DnsCall
  <2> QED
    BY <2>1 DEF D!DnsSteps
<1>3. \A u \in Threads \ {t} : Now(u) \notin DnsInside /\ Now(u) \notin D!DnsSteps
  BY <1>2 DEF DnsCalls, D!DnsSteps
<1>4. ASSUME Then(t, <<>>) PROVE Now(t)' \notin DnsInside /\ \A u \in Threads \ {t} : Now(u)' = Now(u)
  BY <1>1, <1>2, <1>4, ReturnMoves
<1>5. ASSUME NEW s \in DnsInside, Then(t, <<s>>)
      PROVE  Now(t)' = s /\ \A u \in Threads \ {t} : Now(u)' = Now(u)
  BY <1>1, <1>2, <1>5, GoMoves
<1>6. CASE D!Bind(t)
  BY <1>3, <1>4, <1>5, <1>6 DEF D!Bind, DnsCalls, DnsSettled
<1>7. CASE D!Publish(t)
  BY <1>3, <1>4, <1>5, <1>7 DEF D!Publish, DnsCalls, DnsSettled
<1>8. CASE D!Create(t)
  BY <1>3, <1>4, <1>5, <1>8 DEF D!Create, DnsCalls, DnsSettled
<1>9. CASE D!Stop(t)
  BY <1>1, <1>3, <1>4, <1>5, <1>9 DEF D!Stop, DnsCalls, DnsSettled
<1>10. CASE D!WakeDatagram(t)
  BY <1>3, <1>4, <1>5, <1>10 DEF D!WakeDatagram, DnsCalls, DnsSettled
<1>11. CASE D!JoinDns(t)
  BY <1>3, <1>4, <1>5, <1>11 DEF D!JoinDns, DnsCalls, DnsSettled
<1>12. CASE D!CloseSocket(t)
  BY <1>1, <1>3, <1>4, <1>5, <1>12 DEF D!CloseSocket, DnsCalls, DnsSettled
<1>13. CASE D!Clear(t)
  BY <1>3, <1>4, <1>5, <1>13 DEF D!Clear, DnsCalls, DnsSettled
<1> QED
  BY <1>6, <1>7, <1>8, <1>9, <1>10, <1>11, <1>12, <1>13 DEF DnsCall, D!DnsCall

LEMMA InitAt == ASSUME Init PROVE Now(Main) = "construct" /\ \A w \in Workers : Now(w) = "none"
<1> DEFINE q == ServiceMain
<1>1. q # <<>> /\ Head(q) = "construct"
  BY DEF ServiceMain, EngineStart, WatcherStart, EngineStop
<1> HIDE DEF q
<1>2. pc = [t \in Threads |-> IF t = Main THEN q ELSE <<>>]
  BY DEF Init, q
<1>3. Main \in Threads /\ Workers \subseteq Threads /\ Main \notin Workers
  BY BoundsAssumption DEF Main, Threads, Workers, BoundsAssumption
<1> QED
  BY <1>1, <1>2, <1>3 DEF Now

LEMMA DnsStep == ASSUME DnsInv, [Next]_vars PROVE DnsInv'
<1>1. Typed /\ Typed' /\ Unused /\ Unused'
  BY StepTyped, StepUnused DEF DnsInv
<1> SUFFICES ASSUME "dns" \notin overlapped' PROVE DnsCalls'
  BY <1>1 DEF DnsInv, DnsAlone
<1>2. CASE UNCHANGED vars
  <2>1. UNCHANGED <<pc, dnsVars, overlapped>>
    BY <1>2 DEF vars
  <2> QED
    BY <2>1 DEF DnsInv, DnsAlone, DnsCalls, DnsSettled, Now, dnsVars
<1>3. CASE Next
  <2>1. overlapped' = overlapped \union Overlapping'
    BY <1>3 DEF Next, EngineRuns, Run
  <2>2. DnsCalls /\ (\A t, u \in Threads : t # u => Now(t) \notin D!DnsSteps \/ Now(u) \notin D!DnsSteps)'
    BY <2>1, DnsOverlap DEF DnsInv, DnsAlone
  <2>3. ASSUME NEW t \in Threads, ThreadStep(t) PROVE DnsCalls'
    BY <1>1, <2>2, <2>3, DnsCallKeeps, DnsElsewhere, DnsFrame
  <2>4. ASSUME Command PROVE DnsCalls'
    <3>1. PICK w \in Workers :
            /\ Now(w) = "none" /\ Now(w)' \in {"refresh", "dns.start", "dns.stop", "service.start"}
            /\ \A u \in Threads \ {w} : Now(u)' = Now(u)
      BY <1>1, <2>4, CommandArrives
    <3>2. UNCHANGED dnsVars
      BY <2>4 DEF Command
    <3> QED
      BY <2>2, <3>1, <3>2, DnsFrame
  <2>5. CASE WatcherThread \/ Callback \/ FolderChanges \/ ControlStop
    <3>1. UNCHANGED <<pc, dnsVars>>
      BY <2>5 DEF WatcherThread, W!WatcherThread, W!Open, W!TestRunning, W!EnterRead, W!ReadReturns, W!TestAgain,
                  W!callers, Callback, Locks, Ignores, Begins, Finishes, W!CallbackReturns, FolderChanges,
                  W!FolderChanges, ControlStop
    <3> QED
      BY <2>2, <3>1, DnsFrame DEF Now
  <2>6. CASE DnsThread
    BY <1>1, <2>2, <2>6 DEF DnsThread, D!DnsThread, D!TestRunning, D!Receive, D!rest, DnsCalls, DnsSettled, Now
  <2>7. CASE RefreshThrows
    <3>1. /\ UNCHANGED dnsVars
          /\ \A t \in Threads : Now(t)' = Now(t) \/ (Now(t) = "refreshing" /\ Now(t)' = "none")
      BY <1>1, <2>7, Thrown DEF Typed, Uncaught, Dropped
    <3> QED
      BY <2>2, <3>1, DnsFrame
  <2> QED
    BY <1>3, <2>3, <2>4, <2>5, <2>6, <2>7 DEF Next, EngineRuns, Run
<1> QED
  BY <1>2, <1>3

-----------------------------------------------------------------------------
(* The watcher, while no two calls on it have overlapped.                    *)

WatcherInside == {"cancel", "join", "spawn"}

WatcherSettled == IF watching THEN watcher \notin {"none", "ended", "failed"} ELSE watcher \in {"none", "failed"}

WatcherCalls ==
  /\ \A t, u \in Threads : t # u => Now(t) \notin W!WatcherSteps \/ Now(u) \notin W!WatcherSteps
  /\ \A t \in Threads :
       /\ Now(t) \in {"cancel", "join"} => ~watching
       /\ Now(t) = "watcher.start" => ~watching /\ watcher \in {"none", "failed"}
       /\ Now(t) = "spawn" => watching /\ watcher \in {"none", "failed"}
  /\ (\A t \in Threads : Now(t) \notin WatcherInside) => WatcherSettled

WatcherAlone == ~terminated /\ "watcher" \notin overlapped => WatcherCalls
WatcherInv   == Typed /\ Unused /\ WatcherAlone

USE DEF WatcherInside

LEMMA WatcherOverlap ==
  ASSUME overlapped' = overlapped \union Overlapping', "watcher" \notin overlapped'
  PROVE  /\ "watcher" \notin overlapped
         /\ (\A t, u \in Threads : t # u => Now(t) \notin W!WatcherSteps \/ Now(u) \notin W!WatcherSteps)'
<1>1. /\ "watcher" \notin overlapped
      /\ ~(\E t, u \in Threads : t # u /\ InCall(t, W!WatcherSteps) /\ InCall(u, W!WatcherSteps))'
  BY DEF Overlapping, Two
<1>2. \A t : Now(t)' \in W!WatcherSteps => InCall(t, W!WatcherSteps)'
  BY DEF Now, InCall, W!WatcherSteps
<1> QED
  BY <1>1, <1>2

(* Steps that leave the watcher alone and are not in the middle of a call.   *)
LEMMA WatcherFrame ==
  ASSUME WatcherCalls, UNCHANGED <<watching, watcher>>,
         \A t \in Threads : \/ Now(t)' = Now(t)
                            \/ /\ Now(t) \notin WatcherInside
                               /\ Now(t)' \notin WatcherInside /\ Now(t)' # "watcher.start",
         (\A t, u \in Threads : t # u => Now(t) \notin W!WatcherSteps \/ Now(u) \notin W!WatcherSteps)'
  PROVE  WatcherCalls'
BY DEF WatcherCalls, WatcherSettled

LEMMA WatcherElsewhere ==
  ASSUME Typed, NEW t \in Threads, ThreadStep(t), ~WatcherCall(t)
  PROVE  /\ UNCHANGED <<watching, watcher, notes, missed>>
         /\ \A u \in Threads : \/ Now(u)' = Now(u)
                               \/ /\ Now(u) \notin WatcherInside
                                  /\ Now(u)' \notin WatcherInside /\ Now(u)' # "watcher.start"
<1> USE AtNow, SameThen
<1>1. /\ UNCHANGED <<watching, watcher, notes, missed>> /\ pc[t] # <<>> /\ Now(t) \notin W!WatcherSteps
      /\ Then(t, <<>>) \/ \E s \in Internal \ WatcherInside : Then(t, <<s>>)
  <2>1. CASE DnsCall(t)
    <3>1. pc[t] # <<>> /\ Now(t) \in D!DnsSteps /\ (Then(t, <<>>) \/ \E s \in DnsInside : Then(t, <<s>>))
      <4>1. CASE D!Bind(t) \/ D!Publish(t) \/ D!Create(t)
        BY <4>1 DEF D!Bind, D!Publish, D!Create, D!DnsSteps
      <4>2. CASE D!Stop(t) \/ D!WakeDatagram(t)
        BY <4>2 DEF D!Stop, D!WakeDatagram, D!DnsSteps
      <4>3. CASE D!JoinDns(t) \/ D!CloseSocket(t) \/ D!Clear(t)
        BY <4>3 DEF D!JoinDns, D!CloseSocket, D!Clear, D!DnsSteps
      <4> QED
        BY <2>1, <4>1, <4>2, <4>3 DEF DnsCall, D!DnsCall
    <3> QED
      BY <2>1, <3>1 DEF DnsCall, watcherVars, W!WatcherSteps, D!DnsSteps
  <2>2. CASE Refresh(t)
    BY <2>2 DEF Refresh, Return, W!WatcherSteps
  <2>3. CASE Services(t) \/ Report(t) \/ Destroy(t)
    BY <2>3 DEF Services, Report, Destroy, Return, watcherVars, W!WatcherSteps
  <2>4. CASE Serve(t)
    <3>1. /\ pc[t] # <<>> /\ Now(t) \in {"ipc.start", "serve", "cease", "ipc.stop", "joinWorkers"}
          /\ Then(t, <<>>) \/ Then(t, <<"joinWorkers">>)
      BY <2>4 DEF Serve, Return
    <3> QED
      BY <2>4, <3>1 DEF Serve, watcherVars, W!WatcherSteps
  <2> QED
    BY <2>1, <2>2, <2>3, <2>4 DEF ThreadStep
<1>2. Programs /\ Now(t) \notin Stopping
  BY <1>1 DEF Typed, W!WatcherSteps
<1>3. /\ Now(t)' \notin WatcherInside /\ Now(t)' # "watcher.start"
      /\ \A u \in Threads \ {t} : Now(u)' = Now(u)
  <2>1. CASE Then(t, <<>>)
    BY <1>1, <1>2, <2>1, ReturnMoves
  <2>2. CASE \E s \in Internal \ WatcherInside : Then(t, <<s>>)
    <3>1. PICK s \in Internal \ WatcherInside : Then(t, <<s>>)
      BY <2>2
    <3>2. Now(t)' = s /\ \A u \in Threads \ {t} : Now(u)' = Now(u)
      BY <1>1, <1>2, <3>1, GoMoves
    <3> QED
      BY <3>1, <3>2
  <2> QED
    BY <1>1, <2>1, <2>2
<1> QED
  BY <1>1, <1>3 DEF W!WatcherSteps

LEMMA WatcherCallKeeps ==
  ASSUME Typed, WatcherCalls, NEW t \in Threads, WatcherCall(t), ~terminated',
         (\A v, u \in Threads : v # u => Now(v) \notin W!WatcherSteps \/ Now(u) \notin W!WatcherSteps)'
  PROVE  WatcherCalls'
<1> USE AtNow, SameThen
<1>1. Programs
  BY DEF Typed
<1>2. pc[t] # <<>> /\ Now(t) \in W!WatcherSteps
  BY DEF WatcherCall, W!WatcherCall, W!Exchange, W!Cancel, W!Join, W!Prepare, W!Spawn, W!WatcherSteps
<1>3. \A u \in Threads \ {t} : Now(u) \notin WatcherInside /\ Now(u) \notin W!WatcherSteps
  BY <1>2 DEF WatcherCalls, W!WatcherSteps
<1>4. ASSUME Then(t, <<>>)
      PROVE  /\ Now(t)' \notin WatcherInside /\ (Now(t)' = "watcher.start" => Now(t) \in Stopping)
             /\ \A u \in Threads \ {t} : Now(u)' = Now(u)
  BY <1>1, <1>2, <1>4, ReturnMoves
<1>5. ASSUME NEW s \in WatcherInside, Now(t) \in Stopping => s \in Stopping, Then(t, <<s>>)
      PROVE  Now(t)' = s /\ \A u \in Threads \ {t} : Now(u)' = Now(u)
  BY <1>1, <1>2, <1>5, GoMoves
<1>6. CASE W!Exchange(t)
  <2>1. Now(t) = "watcher.stop" /\ ~watching' /\ watcher' = watcher
        /\ IF watching THEN Then(t, <<"cancel">>) ELSE Then(t, <<>>)
    BY <1>6 DEF W!Exchange
  <2>2. ~watching => watcher \in {"none", "failed"}
    BY <1>3, <2>1 DEF WatcherCalls, WatcherSettled
  <2> QED
    BY <1>3, <1>4, <1>5, <2>1, <2>2 DEF WatcherCalls, WatcherSettled
<1>7. CASE W!Cancel(t)
  BY <1>3, <1>5, <1>7 DEF W!Cancel, WatcherCalls, WatcherSettled
<1>8. CASE W!Join(t)
  BY <1>3, <1>4, <1>8 DEF W!Join, WatcherCalls, WatcherSettled
<1>9. CASE W!Prepare(t)
  <2>1. /\ Now(t) = "watcher.start" /\ watcher' = watcher
        /\ (Then(t, <<>>) /\ watching' = watching) \/ (Then(t, <<"spawn">>) /\ watching')
    BY <1>9 DEF W!Prepare
  <2>2. ~watching /\ watcher \in {"none", "failed"}
    BY <2>1 DEF WatcherCalls
  <2>3. CASE Then(t, <<>>) /\ watching' = watching
    BY <1>3, <1>4, <2>1, <2>2, <2>3 DEF WatcherCalls, WatcherSettled
  <2>4. CASE Then(t, <<"spawn">>) /\ watching'
    BY <1>3, <1>5, <2>1, <2>2, <2>4 DEF WatcherCalls, WatcherSettled, W!WatcherSteps
  <2> QED
    BY <2>1, <2>3, <2>4
<1>10. CASE W!Spawn(t)
  BY <1>3, <1>4, <1>10 DEF W!Spawn, WatcherCalls, WatcherSettled
<1> QED
  BY <1>6, <1>7, <1>8, <1>9, <1>10 DEF WatcherCall, W!WatcherCall

LEMMA WatcherStep == ASSUME WatcherInv, [Next]_vars PROVE WatcherInv'
<1>1. Typed /\ Typed' /\ Unused /\ Unused'
  BY StepTyped, StepUnused DEF WatcherInv
<1> SUFFICES ASSUME ~terminated', "watcher" \notin overlapped' PROVE WatcherCalls'
  BY <1>1 DEF WatcherInv, WatcherAlone
<1>2. CASE UNCHANGED vars
  <2>1. UNCHANGED <<pc, watching, watcher, overlapped, terminated>>
    BY <1>2 DEF vars, watcherVars
  <2> QED
    BY <2>1 DEF WatcherInv, WatcherAlone, WatcherCalls, WatcherSettled, Now
<1>3. CASE Next
  <2>1. overlapped' = overlapped \union Overlapping' /\ ~terminated
    BY <1>3 DEF Next, EngineRuns, Run
  <2>2. /\ WatcherCalls
        /\ (\A t, u \in Threads : t # u => Now(t) \notin W!WatcherSteps \/ Now(u) \notin W!WatcherSteps)'
    BY <2>1, WatcherOverlap DEF WatcherInv, WatcherAlone
  <2>3. ASSUME NEW t \in Threads, ThreadStep(t) PROVE WatcherCalls'
    BY <1>1, <2>2, <2>3, WatcherCallKeeps, WatcherElsewhere, WatcherFrame
  <2>4. ASSUME Command PROVE WatcherCalls'
    <3>1. PICK w \in Workers :
            /\ Now(w) = "none" /\ Now(w)' \in {"refresh", "dns.start", "dns.stop", "service.start"}
            /\ \A u \in Threads \ {w} : Now(u)' = Now(u)
      BY <1>1, <2>4, CommandArrives
    <3>2. UNCHANGED <<watching, watcher>>
      BY <2>4 DEF Command, watcherVars
    <3> QED
      BY <2>2, <3>1, <3>2, WatcherFrame
  <2>5. CASE DnsThread \/ FolderChanges \/ ControlStop
    <3>1. UNCHANGED <<pc, watching, watcher>>
      BY <2>5 DEF DnsThread, D!DnsThread, D!TestRunning, D!Receive, D!rest, watcherVars, FolderChanges,
                  W!FolderChanges, W!callers, ControlStop
    <3> QED
      BY <2>2, <3>1, WatcherFrame DEF Now
  <2>6. CASE WatcherThread
    <3>1. pc' = pc /\ \A t : Now(t)' = Now(t)
      BY <2>6 DEF WatcherThread, W!WatcherThread, W!Open, W!TestRunning, W!EnterRead, W!ReadReturns, W!TestAgain,
                  W!callers, Now
    <3> QED
      BY <1>1, <2>2, <2>6, <3>1 DEF WatcherThread, W!WatcherThread, W!Open, W!TestRunning, W!EnterRead, W!ReadReturns,
                  W!TestAgain, WatcherCalls, WatcherSettled
  <2>7. CASE Callback
    <3>1. pc' = pc /\ watching' = watching /\ watcher = "call" /\ watcher' \in {"call", "test"}
      BY <2>7 DEF Callback, Locks, Ignores, Begins, Finishes, W!CallbackReturns, W!callers, watcherVars
    <3> QED
      BY <2>2, <3>1 DEF WatcherCalls, WatcherSettled, Now
  <2>8. CASE RefreshThrows
    <3>1. /\ UNCHANGED <<watching, watcher>>
          /\ \A t \in Threads : Now(t)' = Now(t) \/ (Now(t) = "refreshing" /\ Now(t)' = "none")
      BY <1>1, <2>8, Thrown DEF Typed, Uncaught, Dropped
    <3> QED
      BY <2>2, <3>1, WatcherFrame
  <2> QED
    BY <1>3, <2>3, <2>4, <2>5, <2>6, <2>7, <2>8 DEF Next, EngineRuns, Run
<1> QED
  BY <1>2, <1>3

-----------------------------------------------------------------------------
(* The end of service_main: what each step of it closes off.                 *)

(* How many steps of service_main are done, the present one included.        *)
Done == 19 - Len(pc[Main])

MainShape ==
  /\ Len(pc[Main]) <= 18
  /\ pc[Main] # <<>> => Call(Now(Main)) = ServiceMain[Done]
  /\ \A i \in 2..Len(pc[Main]) : pc[Main][i] = ServiceMain[Done - 1 + i]

WorkersShape == \A w \in Workers : \A i \in DOMAIN pc[w] : pc[w][i] \notin OfMain

Shape == Typed /\ Unused /\ MainShape /\ WorkersShape

(* A callback has a watcher that is on, or a thread that will join it.       *)
Watched == watcher = "call" => watching \/ \E t \in Threads : Now(t) \in {"cancel", "join"}

(* Who refreshes, and that the callback is made for a stop to wait for.      *)
Refreshing ==
  /\ holder \in Threads => Now(holder) = "refreshing"
  /\ holder = Watcher => callback = "refresh"
  /\ Watched

Quieting ==
  /\ Done >= 12 => ~running
  /\ Done >= 13 /\ callback # "none" => \E w \in Workers : Now(w) \in {"cancel", "join"}
  /\ ipc = "on" => Done < 14 /\ Now(Main) # "joinWorkers"
  /\ Done >= 14 => \A w \in Workers : pc[w] = <<>>
  /\ Done >= 15 \/ Now(Main) \in {"wake", "joinDns", "close", "clear"} => ~answering
  /\ Done >= 16 /\ services => kept
  /\ scm = "stopped" => Done >= 17
  /\ Done >= 18 \/ (Done = 17 /\ Now(Main) # "watcher.stop") => ~watching

QuietInv == Shape /\ Refreshing /\ Quieting

LEMMA MainProgram ==
  /\ Len(ServiceMain) = 18
  /\ ServiceMain[1] = "construct" /\ ServiceMain[2] = "refresh" /\ ServiceMain[3] = "service.start"
  /\ ServiceMain[4] = "dns.start" /\ ServiceMain[5] = "ipc.start" /\ ServiceMain[6] = "serve"
  /\ ServiceMain[7] = "watcher.stop" /\ ServiceMain[8] = "watcher.start" /\ ServiceMain[9] = "reportRunning"
  /\ ServiceMain[10] = "await" /\ ServiceMain[11] = "cease" /\ ServiceMain[12] = "watcher.stop"
  /\ ServiceMain[13] = "ipc.stop" /\ ServiceMain[14] = "dns.stop" /\ ServiceMain[15] = "service.stop"
  /\ ServiceMain[16] = "reportStopped" /\ ServiceMain[17] = "watcher.stop" /\ ServiceMain[18] = "destroy"
BY DEF ServiceMain, EngineStart, WatcherStart, EngineStop

LEMMA People ==
  /\ Main \in Threads /\ Main \notin Workers /\ Workers \subseteq Threads /\ Threads = Workers \union {Main}
  /\ Watcher \notin Threads /\ Nobody \notin Threads /\ Watcher # Nobody
BY BoundsAssumption DEF Main, Workers, Threads, Watcher, Nobody, BoundsAssumption

LEMMA Lengths ==
  /\ \A S : \A q \in Seq(S) : q # <<>> => Len(q) \in Nat \ {0}
  /\ \A n \in Nat \ {0} : n <= 18 => n \in 1..18
  /\ \A n \in 1..18 : 19 - n \in 1..18
OBVIOUS

LEMMA MainMoves ==
  ASSUME Typed, MainShape, Moves(Main)
  PROVE  /\ MainShape' /\ Done \in 1..18 /\ Call(Now(Main)) = ServiceMain[Done]
         /\ \/ Done' = Done + 1 /\ Now(Main)' \notin Internal
            \/ Done' = Done /\ Now(Main)' \in Internal /\ Call(Now(Main))' = Call(Now(Main))
<1>1. Programs /\ pc[Main] # <<>> /\ Main \in Threads
  BY People DEF Typed, Moves
<1>2. pc[Main] \in Seq(Steps) /\ Len(pc[Main]) \in 1..18
  <2>1. pc[Main] \in Seq(Steps) /\ Len(pc[Main]) <= 18
    BY <1>1 DEF Programs, MainShape
  <2> QED
    BY <1>1, <2>1, Lengths
<1>3. Done \in 1..18 /\ Call(Now(Main)) = ServiceMain[Done]
  <2>1. Done \in 1..18
    BY <1>2, Lengths DEF Done
  <2> QED
    BY <1>1, <2>1 DEF MainShape
<1>4. CASE /\ pc'[Main] = Tail(pc[Main])
           /\ Now(Main)' \notin Internal
  <2>1. /\ Len(pc'[Main]) = Len(pc[Main]) - 1
        /\ \A i \in 1..Len(pc'[Main]) : pc'[Main][i] = pc[Main][i + 1]
    BY <1>1, <1>2, <1>4
  <2>2. Done' = Done + 1
    BY <1>2, <2>1 DEF Done
  <2>3. \A i \in 2..Len(pc[Main]) : pc[Main][i] = ServiceMain[Done - 1 + i]
    BY DEF MainShape
  <2>4. \A i \in 1..Len(pc'[Main]) : pc'[Main][i] = ServiceMain[Done' - 1 + i]
    <3> SUFFICES ASSUME NEW i \in 1..Len(pc'[Main]) PROVE pc'[Main][i] = ServiceMain[Done' - 1 + i]
      OBVIOUS
    <3>1. i + 1 \in 2..Len(pc[Main]) /\ Done - 1 + (i + 1) = Done' - 1 + i
      BY <1>2, <1>3, <2>1, <2>2
    <3> QED
      BY <2>1, <2>3, <3>1
  <2>5. pc'[Main] # <<>> => Now(Main)' = ServiceMain[Done']
    <3>1. pc'[Main] # <<>> => Head(pc'[Main]) = pc'[Main][1] /\ 1 \in 1..Len(pc'[Main])
      BY <1>2, <1>4
    <3>2. Done' - 1 + 1 = Done'
      BY <1>3, <2>2
    <3> QED
      BY <2>4, <3>1, <3>2 DEF Now
  <2>6. Call(Now(Main))' = Now(Main)'
    BY <1>4 DEF Call
  <2>7. MainShape'
    BY <1>2, <2>1, <2>4, <2>5, <2>6 DEF MainShape
  <2> QED
    BY <1>3, <1>4, <2>2, <2>7
<1>5. CASE /\ Len(pc'[Main]) = Len(pc[Main]) /\ pc'[Main] # <<>>
           /\ \A i \in 2..Len(pc[Main]) : pc'[Main][i] = pc[Main][i]
           /\ Now(Main)' \in Internal /\ Call(Now(Main))' = Call(Now(Main))
  <2>1. Done' = Done
    BY <1>5 DEF Done
  <2> QED
    BY <1>1, <1>3, <1>5, <2>1 DEF MainShape
<1> QED
  BY <1>1, <1>4, <1>5, Moved

LEMMA WorkerMoves ==
  ASSUME Typed, WorkersShape, NEW w \in Workers, Moves(w)
  PROVE  /\ \A i \in DOMAIN pc'[w] : pc'[w][i] \notin OfMain
         /\ Now(w) \notin OfMain
<1>1. Programs /\ pc[w] # <<>> /\ w \in Threads
  BY People DEF Typed, Moves
<1>2. pc[w] \in Seq(Steps) /\ pc'[w] \in Seq(Steps)
  BY <1>1, Moved DEF Programs
<1>3. Now(w) = pc[w][1] /\ 1 \in DOMAIN pc[w]
  BY <1>1, <1>2 DEF Now
<1>4. Now(w) \notin OfMain
  BY <1>3 DEF WorkersShape
<1>5. CASE pc'[w] = Tail(pc[w])
  <2>1. \A i \in DOMAIN pc'[w] : pc'[w][i] = pc[w][i + 1] /\ i + 1 \in DOMAIN pc[w]
    BY <1>1, <1>2, <1>5
  <2> QED
    BY <1>4, <2>1 DEF WorkersShape
<1>6. CASE /\ Len(pc'[w]) = Len(pc[w]) /\ pc'[w] # <<>>
           /\ \A i \in 2..Len(pc[w]) : pc'[w][i] = pc[w][i]
           /\ Call(Now(w))' = Call(Now(w))
  <2>1. Now(w)' = pc'[w][1]
    BY <1>2, <1>6 DEF Now
  <2>2. Now(w)' \notin OfMain
    BY <1>4, <1>6 DEF Call, OfMain
  <2>3. \A i \in DOMAIN pc'[w] : i = 1 \/ (i \in 2..Len(pc[w]) /\ i \in DOMAIN pc[w])
    BY <1>2, <1>6
  <2> QED
    BY <1>4, <1>6, <2>1, <2>2, <2>3 DEF WorkersShape
<1> QED
  BY <1>1, <1>4, <1>5, <1>6, Moved

LEMMA ShapeStep == ASSUME Shape, [Next]_vars PROVE Shape'
<1>1. Typed /\ Unused /\ Typed' /\ Unused' /\ MainShape /\ WorkersShape /\ Programs
  BY StepTyped, StepUnused DEF Shape, Typed
<1>2. ASSUME pc' = pc, \A t : Now(t)' = Now(t) PROVE MainShape' /\ WorkersShape'
  <2>1. Done' = Done /\ Call(Now(Main))' = Call(Now(Main))
    BY <1>2 DEF Done, Call
  <2> QED
    BY <1>1, <1>2, <2>1 DEF MainShape, WorkersShape
<1>3. ASSUME NEW t \in Threads, ThreadStep(t) PROVE MainShape' /\ WorkersShape'
  <2>1. Moves(t) /\ \A u \in Threads \ {t} : pc'[u] = pc[u] /\ Now(u)' = Now(u)
    BY <1>1, <1>3, StepMoves, Moved
  <2>2. CASE t = Main
    <3>1. MainShape'
      BY <1>1, <2>1, <2>2, MainMoves
    <3>2. WorkersShape'
      BY <1>1, <2>1, <2>2, People DEF WorkersShape
    <3> QED
      BY <3>1, <3>2
  <2>3. CASE t \in Workers
    <3>1. pc'[Main] = pc[Main] /\ Now(Main)' = Now(Main)
      BY <2>1, <2>3, People
    <3>2. Done' = Done /\ Call(Now(Main))' = Call(Now(Main))
      BY <3>1 DEF Done, Call
    <3>3. MainShape'
      BY <1>1, <3>1, <3>2 DEF MainShape
    <3>4. WorkersShape'
      BY <1>1, <2>1, <2>3, WorkerMoves, People DEF WorkersShape
    <3> QED
      BY <3>3, <3>4
  <2> QED
    BY <2>2, <2>3, People
<1>4. CASE Command
  <2>1. PICK w \in Workers :
          /\ \A i \in DOMAIN pc'[w] : pc'[w][i] \notin OfMain
          /\ \A u \in Threads \ {w} : pc'[u] = pc[u] /\ Now(u)' = Now(u)
    BY <1>1, <1>4, CommandArrives
  <2>2. pc'[Main] = pc[Main] /\ Now(Main)' = Now(Main)
    BY <2>1, People
  <2>3. Done' = Done /\ Call(Now(Main))' = Call(Now(Main))
    BY <2>2 DEF Done, Call
  <2>4. MainShape'
    BY <1>1, <2>2, <2>3 DEF MainShape
  <2>5. WorkersShape'
    BY <1>1, <2>1, People DEF WorkersShape
  <2> QED
    BY <1>1, <2>4, <2>5 DEF Shape
<1>5. CASE Outside
  BY <1>1, <1>2, <1>5, OutsideKeeps DEF Shape
<1>6. CASE UNCHANGED vars
  BY <1>1, <1>2, <1>6 DEF vars, Shape, Now
<1>7. CASE RefreshThrows
  <2>1. /\ pc'[Main] = pc[Main] /\ Now(Main)' = Now(Main)
        /\ \A w \in Workers : pc'[w] = <<>> \/ pc'[w] = pc[w]
    BY <1>1, <1>7, Thrown, People DEF Uncaught, Dropped
  <2>2. Done' = Done /\ Call(Now(Main))' = Call(Now(Main))
    BY <2>1 DEF Done, Call
  <2>3. MainShape' /\ WorkersShape'
    BY <1>1, <2>1, <2>2 DEF MainShape, WorkersShape
  <2> QED
    BY <1>1, <2>3 DEF Shape
<1> QED
  BY <1>1, <1>3, <1>4, <1>5, <1>6, <1>7 DEF Next, EngineRuns, Run, Outside, Shape

(* Where the steps that this part is about stand in the programs.            *)
LEMMA Steppers ==
  ASSUME NEW t \in Threads, ThreadStep(t)
  PROVE  /\ pc[t] # <<>>
         /\ Now(t) \in {"refresh", "refreshing"} => Refresh(t)
         /\ Now(t) \in W!WatcherSteps => WatcherCall(t)
<1> USE AtNow DEF W!WatcherSteps
<1>1. CASE DnsCall(t)
  <2>1. pc[t] # <<>> /\ Now(t) \in D!DnsSteps
    <3>1. CASE D!Bind(t) \/ D!Publish(t) \/ D!Create(t)
      BY <3>1 DEF D!Bind, D!Publish, D!Create, D!DnsSteps
    <3>2. CASE D!Stop(t) \/ D!WakeDatagram(t)
      BY <3>2 DEF D!Stop, D!WakeDatagram, D!DnsSteps
    <3>3. CASE D!JoinDns(t) \/ D!CloseSocket(t) \/ D!Clear(t)
      BY <3>3 DEF D!JoinDns, D!CloseSocket, D!Clear, D!DnsSteps
    <3> QED
      BY <1>1, <3>1, <3>2, <3>3 DEF DnsCall, D!DnsCall
  <2> QED
    BY <2>1 DEF D!DnsSteps
<1>2. CASE WatcherCall(t)
  <2>1. pc[t] # <<>> /\ Now(t) \in W!WatcherSteps
    BY <1>2 DEF WatcherCall, W!WatcherCall, W!Exchange, W!Cancel, W!Join, W!Prepare, W!Spawn
  <2> QED
    BY <1>2, <2>1
<1>3. CASE Refresh(t)
  <2>1. pc[t] # <<>> /\ Now(t) \in {"refresh", "refreshing"}
    BY <1>3 DEF Refresh
  <2> QED
    BY <1>3, <2>1
<1>4. CASE Services(t)
  BY <1>4 DEF Services
<1>5. CASE Serve(t)
  BY <1>5 DEF Serve
<1>6. CASE Report(t) \/ Destroy(t)
  BY <1>6 DEF Report, Destroy
<1> QED
  BY <1>1, <1>2, <1>3, <1>4, <1>5, <1>6 DEF ThreadStep

LEMMA HolderStep ==
  ASSUME Shape, Refreshing, [Next]_vars
  PROVE  /\ (holder \in Threads => Now(holder) = "refreshing")'
         /\ (holder = Watcher => callback = "refresh")'
<1> USE People
<1>1. Programs /\ Typed /\ Unused /\ (holder \in Threads => Now(holder) = "refreshing")
        /\ (holder = Watcher => callback = "refresh")
  BY DEF Shape, Typed, Refreshing
<1>2. ASSUME NEW t \in Threads, ThreadStep(t), ~Refresh(t)
      PROVE  (holder \in Threads => Now(holder) = "refreshing")' /\ (holder = Watcher => callback = "refresh")'
  <2>1. UNCHANGED <<holder, callback>>
    BY <1>2 DEF ThreadStep, WatcherCall, DnsCall, Services, Serve, Report, Destroy, engineVars, refreshVars
  <2>2. Now(t) # "refreshing" /\ \A u \in Threads \ {t} : Now(u)' = Now(u)
    BY <1>1, <1>2, Steppers, StepMoves, Moved
  <2>3. Now(holder)' = Now(holder) \/ holder \notin Threads
    BY <1>1, <2>1, <2>2
  <2> QED
    BY <1>1, <2>1, <2>3
<1>3. ASSUME NEW t \in Threads, Refresh(t)
      PROVE  (holder \in Threads => Now(holder) = "refreshing")' /\ (holder = Watcher => callback = "refresh")'
  <2>1. \/ pc[t] # <<>> /\ Now(t) = "refresh" /\ Then(t, <<"refreshing">>) /\ holder' = t
        \/ holder' = Nobody
    BY <1>3, AtNow DEF Refresh, BeginRefresh, EndRefresh
  <2>2. CASE pc[t] # <<>> /\ Now(t) = "refresh" /\ Then(t, <<"refreshing">>) /\ holder' = t
    <3>1. pc'[t] # <<>> /\ Head(pc'[t]) = "refreshing"
      BY <1>1, <2>2, GoMoves DEF Now
    <3> QED
      BY <2>2, <3>1 DEF Now
  <2> QED
    BY <2>1, <2>2
<1>4. CASE Command
  <2>1. UNCHANGED <<holder, callback>>
    BY <1>4 DEF Command, engineVars, refreshVars
  <2>2. PICK w \in Workers : Now(w) = "none" /\ \A u \in Threads \ {w} : Now(u)' = Now(u)
    BY <1>1, <1>4, CommandArrives
  <2>3. Now(holder)' = Now(holder) \/ holder \notin Threads
    BY <1>1, <2>1, <2>2
  <2> QED
    BY <1>1, <2>1, <2>3
<1>5. CASE Callback
  <2>1. pc' = pc
    BY <1>5, OutsideKeeps DEF Outside
  <2>2. \/ holder' = holder /\ callback = "none"
        \/ holder' = Watcher /\ callback' = "refresh"
        \/ holder' = Nobody
    BY <1>5 DEF Callback, Locks, Ignores, Begins, Finishes, BeginRefresh, EndRefresh, refreshVars
  <2>3. holder' = holder => Now(holder)' = Now(holder)
    BY <2>1 DEF Now
  <2> QED
    BY <1>1, <2>2, <2>3
<1>6. CASE WatcherThread \/ DnsThread \/ FolderChanges \/ ControlStop \/ UNCHANGED vars
  <2>1. UNCHANGED <<pc, holder, callback>>
    <3>1. CASE UNCHANGED vars
      BY <3>1 DEF vars, engineVars, refreshVars
    <3>2. CASE WatcherThread \/ DnsThread \/ FolderChanges \/ ControlStop
      BY <3>2, OutsideKeeps DEF Outside, WatcherThread, DnsThread, FolderChanges, ControlStop, engineVars, refreshVars
    <3> QED
      BY <1>6, <3>1, <3>2
  <2> QED
    BY <1>1, <2>1 DEF Now
<1>7. CASE RefreshThrows
  <2>1. callback' = callback /\ (holder' = Nobody \/ (holder' = holder /\ \A t : Now(t)' = Now(t)))
    BY <1>1, <1>7, Thrown DEF Uncaught, Dropped
  <2>2. holder' = holder => Now(holder)' = Now(holder) \/ holder' = Nobody
    BY <2>1
  <2> QED
    BY <1>1, <2>1, <2>2
<1> QED
  BY <1>2, <1>3, <1>4, <1>5, <1>6, <1>7 DEF Next, EngineRuns, Run

LEMMA WatchedStep == ASSUME Shape, Watched, [Next]_vars PROVE Watched'
<1>1. Programs /\ Typed /\ Unused
  BY DEF Shape, Typed
<1>2. ASSUME NEW t \in Threads, WatcherCall(t) PROVE Watched'
  <2> USE AtNow, SameThen
  <2>1. \A u \in Threads \ {t} : Now(u)' = Now(u)
    BY <1>1, <1>2, StepMoves, Moved DEF ThreadStep
  <2>2. CASE W!Exchange(t)
    <3>1. /\ pc[t] # <<>> /\ Now(t) = "watcher.stop" /\ watcher' = watcher
          /\ watching => Then(t, <<"cancel">>)
      BY <2>2 DEF W!Exchange
    <3>2. watching => Now(t)' = "cancel"
      BY <1>1, <3>1, GoMoves
    <3> QED
      BY <2>1, <3>1, <3>2 DEF Watched
  <2>3. CASE W!Cancel(t)
    <3>1. pc[t] # <<>> /\ Now(t) = "cancel" /\ Then(t, <<"join">>)
      BY <2>3 DEF W!Cancel
    <3>2. Now(t)' = "join"
      BY <1>1, <3>1, GoMoves
    <3> QED
      BY <3>2 DEF Watched
  <2>4. CASE W!Join(t)
    BY <2>4 DEF W!Join, Watched
  <2>5. CASE W!Prepare(t)
    <3>1. Now(t) = "watcher.start" /\ watcher' = watcher /\ (watching => watching')
      BY <2>5 DEF W!Prepare
    <3> QED
      BY <2>1, <3>1 DEF Watched
  <2>6. CASE W!Spawn(t)
    <3>1. Now(t) = "spawn" /\ watching' = watching /\ (watcher' = watcher \/ watcher' = "open")
      BY <2>6 DEF W!Spawn
    <3> QED
      BY <2>1, <3>1 DEF Watched
  <2> QED
    BY <1>2, <2>2, <2>3, <2>4, <2>5, <2>6 DEF WatcherCall, W!WatcherCall
<1>3. ASSUME NEW t \in Threads, ThreadStep(t), ~WatcherCall(t) PROVE Watched'
  BY <1>1, <1>3, WatcherElsewhere DEF Watched
<1>4. CASE Command
  <2>1. UNCHANGED <<watching, watcher>>
    BY <1>4 DEF Command, watcherVars
  <2>2. PICK w \in Workers : Now(w) = "none" /\ \A u \in Threads \ {w} : Now(u)' = Now(u)
    BY <1>1, <1>4, CommandArrives
  <2> QED
    BY <2>1, <2>2 DEF Watched
<1>5. CASE Outside
  <2>1. \A t : Now(t)' = Now(t)
    BY <1>5, OutsideKeeps
  <2>2. \/ watcher' # "call"
        \/ UNCHANGED <<watching, watcher>>
        \/ watching /\ watching'
    <3>1. CASE WatcherThread
      BY <3>1 DEF WatcherThread, W!WatcherThread, W!Open, W!TestRunning, W!EnterRead, W!ReadReturns, W!TestAgain
    <3>2. CASE Callback
      BY <3>2 DEF Callback, Locks, Ignores, Begins, Finishes, W!CallbackReturns, watcherVars
    <3>3. CASE DnsThread \/ FolderChanges \/ ControlStop
      BY <3>3 DEF DnsThread, FolderChanges, W!FolderChanges, ControlStop, watcherVars
    <3> QED
      BY <1>5, <3>1, <3>2, <3>3 DEF Outside
  <2> QED
    BY <2>1, <2>2 DEF Watched
<1>6. CASE UNCHANGED vars
  BY <1>6 DEF vars, watcherVars, Watched, Now
<1>7. CASE RefreshThrows
  <2>1. /\ UNCHANGED <<watching, watcher>>
        /\ \A t \in Threads : Now(t)' = Now(t) \/ Now(t) = "refreshing"
    BY <1>1, <1>7, Thrown DEF Uncaught, Dropped
  <2> QED
    BY <2>1 DEF Watched
<1> QED
  BY <1>2, <1>3, <1>4, <1>5, <1>6, <1>7 DEF Next, EngineRuns, Run, Outside

(* The places of service_main's calls.                                       *)
LEMMA MainAt ==
  ASSUME Typed, MainShape, pc[Main] # <<>>, NEW call, call = Call(Now(Main))
  PROVE  /\ Done \in 1..18 /\ call = ServiceMain[Done]
         /\ call = "refresh" => Done = 2
         /\ call = "service.start" => Done = 3
         /\ call = "dns.start" => Done = 4
         /\ call = "ipc.start" => Done = 5
         /\ call = "serve" => Done = 6
         /\ call = "watcher.stop" => Done \in {7, 12, 17}
         /\ call = "watcher.start" => Done = 8
         /\ call = "reportRunning" => Done = 9
         /\ call = "cease" <=> Done = 11
         /\ Done \in {12, 17} => call = "watcher.stop"
         /\ call = "ipc.stop" <=> Done = 13
         /\ call = "dns.stop" <=> Done = 14
         /\ call = "service.stop" <=> Done = 15
         /\ call = "reportStopped" <=> Done = 16
         /\ call = "destroy" <=> Done = 18
<1>1. pc[Main] \in Seq(Steps) /\ Len(pc[Main]) <= 18
  BY People DEF Typed, Programs, MainShape
<1>2. Len(pc[Main]) \in 1..18
  BY <1>1, Lengths
<1>3. Done \in 1..18
  BY <1>2, Lengths DEF Done
<1>4. call = ServiceMain[Done]
  BY DEF MainShape
<1> HIDE DEF Done
<1>5. \/ Done = 1 \/ Done = 2 \/ Done = 3 \/ Done = 4 \/ Done = 5 \/ Done = 6 \/ Done = 7 \/ Done = 8 \/ Done = 9
      \/ Done = 10 \/ Done = 11 \/ Done = 12 \/ Done = 13 \/ Done = 14 \/ Done = 15 \/ Done = 16 \/ Done = 17
      \/ Done = 18
  BY <1>3
<1> QED
  BY <1>3, <1>4, <1>5, MainProgram

(* What the steps of a thread do to what the end of service_main closes off. *)
LEMMA Effects ==
  ASSUME Shape, NEW t \in Threads, ThreadStep(t)
  PROVE  /\ callback' = callback
         /\ \/ running' = running \/ Now(t) = "serve"
            \/ Now(t) = "cease" /\ ~running'
         /\ Now(t) = "cease" => ~running'
         /\ ipc' = "on" => (ipc = "on" /\ Now(t) \notin {"ipc.stop", "joinWorkers"}) \/ Now(t) = "ipc.start"
         /\ services' => services \/ Now(t) \in {"service.start", "refreshing"}
         /\ kept' = kept \/ Now(t) = "service.stop"
         /\ t = Main /\ Now(t) = "service.stop" /\ services' => kept'
         /\ answering' => (answering /\ Now(t) # "dns.stop") \/ Now(t) = "publish"
         /\ scm' = "stopped" => scm = "stopped" \/ Now(t) = "reportStopped"
         /\ watching' => (watching /\ Now(t) # "watcher.stop") \/ Now(t) = "watcher.start"
         /\ Now(t) = "ipc.stop" => Now(t)' = "joinWorkers"
         /\ Now(t) = "joinWorkers" => \A w \in Workers : pc[w] = <<>>
<1> USE AtNow, SameThen
<1>1. Programs /\ pc[t] # <<>>
  BY Steppers DEF Shape, Typed
<1>2. CASE WatcherCall(t)
  <2>1. Now(t) \in W!WatcherSteps /\ (watching' => (watching /\ Now(t) # "watcher.stop") \/ Now(t) = "watcher.start")
    BY <1>2 DEF WatcherCall, W!WatcherCall, W!Exchange, W!Cancel, W!Join, W!Prepare, W!Spawn, W!WatcherSteps
  <2>2. UNCHANGED <<callback, running, ipc, services, kept, answering, scm>>
    BY <1>2 DEF WatcherCall, engineVars, refreshVars, dnsVars, scmVars
  <2> QED
    BY <2>1, <2>2 DEF W!WatcherSteps
<1>3. CASE DnsCall(t)
  <2>1. Now(t) \in D!DnsSteps /\ (answering' => (answering /\ Now(t) # "dns.stop") \/ Now(t) = "publish")
    <3>1. CASE D!Bind(t) \/ D!Publish(t) \/ D!Create(t)
      BY <3>1 DEF D!Bind, D!Publish, D!Create, D!DnsSteps
    <3>2. CASE D!Stop(t) \/ D!WakeDatagram(t)
      BY <3>2 DEF D!Stop, D!WakeDatagram, D!DnsSteps
    <3>3. CASE D!JoinDns(t) \/ D!CloseSocket(t) \/ D!Clear(t)
      BY <3>3 DEF D!JoinDns, D!CloseSocket, D!Clear, D!DnsSteps
    <3> QED
      BY <1>3, <3>1, <3>2, <3>3 DEF DnsCall, D!DnsCall
  <2>2. UNCHANGED <<callback, running, ipc, services, kept, watching, scm>>
    BY <1>3 DEF DnsCall, engineVars, refreshVars, watcherVars, scmVars
  <2> QED
    BY <2>1, <2>2 DEF D!DnsSteps
<1>4. CASE Refresh(t)
  <2>1. Now(t) \in {"refresh", "refreshing"} /\ (services' => services \/ Now(t) = "refreshing")
    BY <1>4 DEF Refresh, BeginRefresh, EndRefresh
  <2>2. UNCHANGED <<callback, running, ipc, kept, answering, watching, scm>>
    BY <1>4 DEF Refresh, BeginRefresh, EndRefresh, dnsVars, scmVars
  <2> QED
    BY <2>1, <2>2
<1>5. CASE Services(t)
  BY <1>5 DEF Services, watcherVars, dnsVars, scmVars
<1>6. CASE Serve(t)
  <2>1. UNCHANGED <<callback, services, kept, answering, watching, scm>>
    BY <1>6 DEF Serve, refreshVars, watcherVars, dnsVars, scmVars
  <2>2. /\ Now(t) \in {"ipc.start", "serve", "cease", "ipc.stop", "joinWorkers"}
        /\ Now(t) = "ipc.stop" => Then(t, <<"joinWorkers">>)
        /\ Now(t) = "joinWorkers" => \A w \in Workers : pc[w] = <<>>
        /\ Now(t) = "cease" => ~running'
        /\ running' = running \/ Now(t) \in {"serve", "cease"}
        /\ ipc' = "on" => (ipc = "on" /\ Now(t) \notin {"ipc.stop", "joinWorkers"}) \/ Now(t) = "ipc.start"
    BY <1>6 DEF Serve
  <2>3. Now(t) = "ipc.stop" => Now(t)' = "joinWorkers"
    BY <1>1, <2>2, GoMoves
  <2> QED
    BY <2>1, <2>2, <2>3
<1>7. CASE Report(t)
  BY <1>7 DEF Report, watcherVars, dnsVars, engineVars, refreshVars, scmVars
<1>8. CASE Destroy(t)
  BY <1>8 DEF Destroy, watcherVars, dnsVars, engineVars, refreshVars, scmVars
<1> QED
  BY <1>2, <1>3, <1>4, <1>5, <1>6, <1>7, <1>8 DEF ThreadStep

(* A callback that goes on after service_main has stopped the watcher.       *)
LEMMA JoinersStay ==
  ASSUME Shape, NEW t \in Threads, ThreadStep(t), callback # "none",
         NEW w \in Threads, Now(w) \in {"cancel", "join"}
  PROVE  Now(w)' \in {"cancel", "join"}
<1>1. Programs /\ watcher = "call"
  BY DEF Shape, Typed, TypeOK
<1>2. CASE w # t
  BY <1>1, <1>2, StepMoves, Moved
<1>3. CASE w = t
  <2>1. WatcherCall(t) /\ pc[t] # <<>>
    BY <1>3, Steppers DEF W!WatcherSteps
  <2>2. Then(t, <<"join">>)
    BY <1>1, <1>3, <2>1, AtNow, SameThen
    DEF WatcherCall, W!WatcherCall, W!Exchange, W!Cancel, W!Join, W!Prepare, W!Spawn, W!Over
  <2> QED
    BY <1>1, <1>3, <2>1, <2>2, GoMoves
<1> QED
  BY <1>2, <1>3

LEMMA QuietingWorker ==
  ASSUME Shape, Refreshing, Quieting, NEW t \in Workers, ThreadStep(t)
  PROVE  Quieting'
<1>1. t \in Threads /\ Typed /\ MainShape /\ WorkersShape /\ Programs /\ pc[Main] \in Seq(Steps)
  BY People DEF Shape, Typed, Programs
<1>2. Moves(t) /\ \A u \in Threads \ {t} : pc'[u] = pc[u] /\ Now(u)' = Now(u)
  BY <1>1, StepMoves, Moved
<1>3. pc'[Main] = pc[Main] /\ Now(Main)' = Now(Main) /\ Done' = Done /\ pc[t] # <<>> /\ Now(t) \notin OfMain
  BY <1>1, <1>2, People, WorkerMoves DEF Moves, Done
<1>4. ~(Done >= 14)
  BY <1>3 DEF Quieting
<1>5. Done \in Int
  BY <1>1 DEF Done
<1>6. /\ callback' = callback /\ running' = running /\ (ipc' = "on" => ipc = "on")
      /\ scm' = "stopped" => scm = "stopped"
  BY <1>1, <1>3, Effects DEF OfMain
<1>7. Now(Main) \notin {"wake", "joinDns", "close", "clear"}
  <2> SUFFICES ASSUME Now(Main) \in {"wake", "joinDns", "close", "clear"} PROVE FALSE
    OBVIOUS
  <2>1. pc[Main] # <<>> /\ Call(Now(Main)) = "dns.stop"
    BY DEF Now, Call
  <2> QED
    BY <1>1, <1>4, <2>1, MainAt
<1>8. Done >= 13 /\ callback # "none" => \E w \in Workers : Now(w)' \in {"cancel", "join"}
  BY <1>1, JoinersStay, People DEF Quieting
<1>9. ~(Done >= 15) /\ ~(Done >= 16) /\ ~(Done >= 17) /\ ~(Done >= 18) /\ Done # 17
  BY <1>4, <1>5
<1> QED
  BY <1>3, <1>4, <1>6, <1>7, <1>8, <1>9 DEF Quieting

LEMMA QuietingOutside ==
  ASSUME Shape, Refreshing, Quieting, Outside
  PROVE  Quieting'
<1>1. pc' = pc /\ Done' = Done /\ \A t : Now(t)' = Now(t)
  BY OutsideKeeps DEF Done
<1>2. UNCHANGED <<running, ipc, answering>> /\ (watching' => watching) /\ (scm' = "stopped" => scm = "stopped")
  BY DEF Outside, WatcherThread, W!WatcherThread, W!Open, W!TestRunning, W!EnterRead, W!ReadReturns, W!TestAgain,
         Callback, Locks, Ignores, Begins, Finishes, W!CallbackReturns, FolderChanges, W!FolderChanges,
         W!callers, ControlStop, DnsThread, D!DnsThread, D!TestRunning, D!Receive, D!rest, watcherVars, dnsVars,
         engineVars, scmVars
<1>3. callback' # "none" => callback # "none" \/ running
  BY DEF Outside, WatcherThread, Callback, Locks, Ignores, Begins, Finishes, FolderChanges, ControlStop, DnsThread,
         engineVars
<1>4. Done >= 13 => Done >= 12
  BY DEF Shape, MainShape, Done
<1>5. Done >= 14 => callback = "none"
  <2> SUFFICES ASSUME Done >= 14, callback # "none" PROVE FALSE
    OBVIOUS
  <2>1. pc[Main] \in Seq(Steps)
    BY People DEF Shape, Typed, Programs
  <2>2. Done >= 13
    BY <2>1 DEF Done
  <2>3. PICK w \in Workers : Now(w) \in {"cancel", "join"}
    BY <2>2 DEF Quieting
  <2> QED
    BY <2>3 DEF Quieting, Now
<1>6. kept' = kept /\ (services' => services \/ callback # "none")
  BY DEF Outside, WatcherThread, Callback, Locks, Ignores, Begins, Finishes, BeginRefresh, EndRefresh, FolderChanges,
         ControlStop, DnsThread, engineVars, refreshVars
<1>7. Done >= 16 => Done >= 14
  BY People DEF Shape, Typed, Programs, Done
<1> QED
  BY <1>1, <1>2, <1>3, <1>4, <1>5, <1>6, <1>7 DEF Quieting

LEMMA QuietingCommand ==
  ASSUME Shape, Refreshing, Quieting, Command
  PROVE  Quieting'
<1>1. PICK w \in Workers :
        /\ pc[w] = <<>> /\ Now(w) = "none"
        /\ \A u \in Threads \ {w} : pc'[u] = pc[u] /\ Now(u)' = Now(u)
  BY CommandArrives DEF Shape
<1>2. pc'[Main] = pc[Main] /\ Now(Main)' = Now(Main) /\ Done' = Done
  BY <1>1, People DEF Done
<1>3. ipc = "on" /\ UNCHANGED <<callback, running, ipc, services, kept, answering, watching, scm>>
  BY DEF Command, watcherVars, dnsVars, engineVars, refreshVars, scmVars
<1>4. ~(Done >= 14)
  <2>1. pc[Main] \in Seq(Steps)
    BY People DEF Shape, Typed, Programs
  <2>2. Done \in Int
    BY <2>1 DEF Done
  <2> QED
    BY <1>3, <2>2 DEF Quieting
<1>5. (\E u \in Workers : Now(u) \in {"cancel", "join"}) => (\E u \in Workers : Now(u)' \in {"cancel", "join"})
  BY <1>1, People
<1> QED
  BY <1>2, <1>3, <1>4, <1>5 DEF Quieting

LEMMA QuietingMain ==
  ASSUME Shape, Refreshing, Quieting, ThreadStep(Main)
  PROVE  Quieting'
<1>1. Main \in Threads /\ Typed /\ MainShape /\ Programs
  BY People DEF Shape, Typed
<1>2. Moves(Main) /\ \A u \in Workers : pc'[u] = pc[u] /\ Now(u)' = Now(u)
  BY <1>1, People, StepMoves, Moved
<1>3. PICK call : call = Call(Now(Main))
  OBVIOUS
<1>4. /\ pc[Main] # <<>> /\ Done \in 1..18 /\ call = ServiceMain[Done]
      /\ \/ Done' = Done + 1 /\ Now(Main)' \notin Internal
         \/ Done' = Done /\ Now(Main)' \in Internal /\ Call(Now(Main))' = call
  BY <1>1, <1>2, <1>3, MainMoves DEF Moves
<1>5. /\ call = "refresh" => Done = 2
      /\ call = "service.start" => Done = 3
      /\ call = "dns.start" => Done = 4
      /\ call = "ipc.start" => Done = 5
      /\ call = "serve" => Done = 6
      /\ call = "watcher.start" => Done = 8
      /\ call = "cease" <=> Done = 11
      /\ Done \in {12, 17} => call = "watcher.stop"
      /\ call = "ipc.stop" <=> Done = 13
      /\ call = "dns.stop" <=> Done = 14
      /\ call = "service.stop" <=> Done = 15
      /\ call = "reportStopped" <=> Done = 16
  BY <1>1, <1>3, <1>4, MainAt
<1>6. Done' \in 1..19 /\ (Done' = Done \/ Done' = Done + 1)
  <2>1. Done \in 1..18 /\ (Done' = Done \/ Done' = Done + 1)
    BY <1>4
  <2> HIDE DEF Done
  <2> QED
    BY <2>1
<1> HIDE DEF Done
<1>7. (Done >= 12 => ~running)'
  <2>1. running' => (running /\ call # "cease") \/ call = "serve"
    BY <1>1, <1>3, Effects DEF Call
  <2> QED
    BY <1>4, <1>5, <1>6, <2>1 DEF Quieting
<1>8. (Done >= 13 /\ callback # "none" => \E w \in Workers : Now(w) \in {"cancel", "join"})'
  <2> SUFFICES ASSUME Done' >= 13, callback # "none" PROVE \E w \in Workers : Now(w) \in {"cancel", "join"}
    BY <1>1, <1>2, Effects
  <2>1. CASE Done >= 13
    BY <2>1 DEF Quieting
  <2>2. CASE Done = 12 /\ Done' = 13
    <3>1. Now(Main)' \notin Internal /\ call = "watcher.stop" /\ watcher = "call"
      BY <1>4, <1>5, <2>2 DEF Shape, Typed, TypeOK
    <3>2. Now(Main) \in {"watcher.stop", "cancel", "join"}
      BY <1>3, <3>1 DEF Call
    <3>3. WatcherCall(Main)
      BY <1>1, <3>2, Steppers DEF W!WatcherSteps
    <3>4. Now(Main) = "watcher.stop" /\ ~watching
      <4>1. ~(\E s \in Internal : (Now(Main) \in Stopping => s \in Stopping) /\ Then(Main, <<s>>))
        BY <1>1, <1>4, <3>1, GoMoves
      <4>2. W!Exchange(Main) \/ W!Cancel(Main) \/ W!Join(Main)
        BY <3>2, <3>3, AtNow DEF WatcherCall, W!WatcherCall, W!Prepare, W!Spawn
      <4>3. CASE W!Exchange(Main)
        BY <4>1, <4>3, AtNow, SameThen DEF W!Exchange
      <4>4. CASE W!Cancel(Main)
        BY <4>1, <4>4, SameThen DEF W!Cancel
      <4>5. CASE W!Join(Main)
        BY <3>1, <4>5 DEF W!Join, W!Over
      <4> QED
        BY <4>2, <4>3, <4>4, <4>5
    <3>5. PICK t \in Threads : Now(t) \in {"cancel", "join"}
      BY <3>1, <3>4 DEF Refreshing, Watched
    <3> QED
      BY <3>4, <3>5, People
  <2> QED
    BY <1>4, <1>6, <2>1, <2>2
<1>9. (ipc = "on" => Done < 14 /\ Now(Main) # "joinWorkers")'
  <2> SUFFICES ASSUME ipc' = "on" PROVE Done' < 14 /\ Now(Main)' # "joinWorkers"
    OBVIOUS
  <2>1. (ipc = "on" /\ Now(Main) \notin {"ipc.stop", "joinWorkers"}) \/ Now(Main) = "ipc.start"
    BY <1>1, Effects
  <2>2. call # "ipc.stop"
    BY <1>3, <2>1 DEF Call
  <2>3. Done < 13
    BY <1>3, <1>4, <1>5, <2>1, <2>2 DEF Quieting, Call
  <2>4. Now(Main)' = "joinWorkers" => Call(Now(Main))' = "ipc.stop"
    BY DEF Call
  <2> QED
    BY <1>4, <1>6, <2>2, <2>3, <2>4
<1>10. (Done >= 14 => \A w \in Workers : pc[w] = <<>>)'
  <2>1. CASE Done >= 14
    BY <1>2, <2>1 DEF Quieting
  <2>2. CASE Done = 13 /\ Done' = 14
    <3>1. call = "ipc.stop" /\ Now(Main)' \notin Internal
      BY <1>4, <1>5, <2>2
    <3>2. Now(Main) = "joinWorkers"
      BY <1>1, <1>3, <3>1, Effects DEF Call
    <3> QED
      BY <1>1, <1>2, <3>2, Effects
  <2> QED
    BY <1>4, <1>6, <2>1, <2>2
<1>11. (Done >= 15 \/ Now(Main) \in {"wake", "joinDns", "close", "clear"} => ~answering)'
  <2> SUFFICES ASSUME answering' PROVE ~(Done' >= 15) /\ Now(Main)' \notin {"wake", "joinDns", "close", "clear"}
    OBVIOUS
  <2>1. (answering /\ Now(Main) # "dns.stop") \/ Now(Main) = "publish"
    BY <1>1, Effects
  <2>2. call # "dns.stop"
    BY <1>3, <2>1 DEF Call, Quieting
  <2>3. ~(Done >= 15)
    BY <1>3, <1>4, <1>5, <2>1 DEF Quieting, Call
  <2>4. Now(Main)' \in {"wake", "joinDns", "close", "clear"} => Call(Now(Main))' = "dns.stop"
    BY DEF Call
  <2> QED
    BY <1>4, <1>5, <1>6, <2>2, <2>3, <2>4
<1>12. (Done >= 16 /\ services => kept)'
  <2>1. /\ services' => services \/ call \in {"service.start", "refresh"}
        /\ kept' = kept \/ call = "service.stop"
        /\ call = "service.stop" /\ services' => kept'
    <3>1. call = "service.stop" => Now(Main) = "service.stop"
      BY <1>3 DEF Call
    <3>2. Now(Main) \in {"service.start", "refreshing", "service.stop"} => call \in {"service.start", "refresh", "service.stop"}
      BY <1>3 DEF Call
    <3>3. /\ services' => services \/ Now(Main) \in {"service.start", "refreshing"}
          /\ kept' = kept \/ Now(Main) = "service.stop"
          /\ Now(Main) = "service.stop" /\ services' => kept'
      BY <1>1, Effects
    <3> QED
      BY <1>3, <3>1, <3>2, <3>3 DEF Call
  <2> QED
    BY <1>4, <1>5, <1>6, <2>1 DEF Quieting
<1>13. (scm = "stopped" => Done >= 17)'
  <2>1. scm' = "stopped" => scm = "stopped" \/ call = "reportStopped"
    BY <1>1, <1>3, Effects DEF Call
  <2>2. call = "reportStopped" => Done' = Done + 1
    BY <1>4 DEF Call
  <2> QED
    BY <1>4, <1>5, <1>6, <2>1, <2>2 DEF Quieting
<1>14. (Done >= 18 \/ (Done = 17 /\ Now(Main) # "watcher.stop") => ~watching)'
  <2> SUFFICES ASSUME watching' PROVE ~(Done' >= 18) /\ (Done' = 17 => Now(Main)' = "watcher.stop")
    OBVIOUS
  <2>1. (watching /\ Now(Main) # "watcher.stop") \/ Now(Main) = "watcher.start"
    BY <1>1, Effects
  <2>2. Done < 17
    BY <1>3, <1>4, <1>5, <2>1 DEF Quieting, Call
  <2>3. Done' = 17 => Now(Main)' = "watcher.stop"
    <3> SUFFICES ASSUME Done' = 17 PROVE Now(Main)' = "watcher.stop"
      OBVIOUS
    <3>1. Now(Main)' \notin Internal
      BY <1>4, <2>2
    <3>2. pc'[Main] # <<>>
      <4>1. 19 - Len(pc'[Main]) = 17
        BY DEF Done
      <4>2. Len(<<>>) = 0
        OBVIOUS
      <4> QED
        BY <4>1, <4>2
    <3>3. MainShape'
      BY <1>1, <1>2, MainMoves
    <3>4. Call(Now(Main))' = "watcher.stop"
      BY <3>2, <3>3, MainProgram DEF MainShape
    <3> QED
      BY <3>1, <3>4 DEF Call
  <2> QED
    BY <1>4, <1>6, <2>2, <2>3
<1> QED
  BY <1>7, <1>8, <1>9, <1>10, <1>11, <1>12, <1>13, <1>14 DEF Quieting

LEMMA QuietStep == ASSUME QuietInv, [Next]_vars PROVE QuietInv'
<1>1. Shape /\ Shape' /\ Refreshing /\ Quieting
  BY ShapeStep DEF QuietInv
<1>2. Refreshing'
  BY <1>1, HolderStep, WatchedStep DEF Refreshing
<1>3. Quieting'
  <2>1. ASSUME NEW t \in Threads, ThreadStep(t) PROVE Quieting'
    BY <1>1, <2>1, QuietingMain, QuietingWorker, People
  <2>2. CASE UNCHANGED vars
    <3>1. /\ UNCHANGED <<pc, running, callback, ipc, answering, services, kept, scm, watching>>
          /\ Done' = Done /\ \A t : Now(t)' = Now(t)
      BY <2>2 DEF vars, engineVars, refreshVars, scmVars, watcherVars, dnsVars, Done, Now
    <3> QED
      BY <1>1, <3>1 DEF Quieting
  <2>3. CASE RefreshThrows
    <3>1. /\ UNCHANGED <<running, callback, ipc, answering, services, kept, scm, watching>>
          /\ pc'[Main] = pc[Main] /\ Now(Main)' = Now(Main)
          /\ \A w \in Workers : /\ pc'[w] = pc[w] \/ pc'[w] = <<>>
                                /\ Now(w)' = Now(w) \/ Now(w) = "refreshing"
      BY <1>1, <2>3, Thrown, People DEF Shape, Typed, Uncaught, Dropped, dnsVars
    <3>2. Done' = Done
      BY <3>1 DEF Done
    <3> QED
      BY <1>1, <3>1, <3>2 DEF Quieting
  <2> QED
    BY <1>1, <2>1, <2>2, <2>3, QuietingCommand, QuietingOutside DEF Next, EngineRuns, Run, Outside
<1> QED
  BY <1>1, <1>2, <1>3 DEF QuietInv

LEMMA InitQuiet == ASSUME Init PROVE QuietInv
<1>1. Typed /\ Now(Main) = "construct" /\ \A w \in Workers : Now(w) = "none"
  BY InitTyped, InitAt
<1>2. pc[Main] = ServiceMain /\ \A w \in Workers : pc[w] = <<>>
  BY People DEF Init
<1>3. Unused
  BY <1>2 DEF Unused
<1>4. Done = 1 /\ Len(pc[Main]) = 18
  BY <1>2, MainProgram DEF Done
<1>5. MainShape
  BY <1>1, <1>2, <1>4, MainProgram DEF MainShape, Call
<1>6. WorkersShape
  BY <1>2 DEF WorkersShape
<1>7. Refreshing
  BY People DEF Init, W!WatcherInit, Refreshing, Watched
<1>8. Quieting
  BY <1>1, <1>4 DEF Init, D!DnsInit, W!WatcherInit, Quieting
<1> QED
  BY <1>1, <1>3, <1>5, <1>6, <1>7, <1>8 DEF QuietInv, Shape

LEMMA InitAlone == ASSUME Init PROVE DnsInv /\ WatcherInv
<1>1. Typed /\ Unused /\ Now(Main) = "construct" /\ \A w \in Workers : Now(w) = "none"
  BY InitQuiet, InitAt DEF QuietInv, Shape
<1>2. \A t \in Threads : Now(t) \notin D!DnsSteps /\ Now(t) \notin W!WatcherSteps
  BY <1>1, People DEF D!DnsSteps, W!WatcherSteps
<1>3. DnsCalls
  BY <1>2 DEF Init, D!DnsInit, DnsCalls, DnsSettled, D!DnsSteps
<1>4. WatcherCalls
  BY <1>2 DEF Init, W!WatcherInit, WatcherCalls, WatcherSettled, W!WatcherSteps
<1> QED
  BY <1>1, <1>3, <1>4 DEF DnsInv, DnsAlone, WatcherInv, WatcherAlone

LEMMA DnsAlways == Spec => []DnsInv
<1>1. DnsInv /\ [Next]_vars => DnsInv'
  BY DnsStep
<1> QED
  BY <1>1, InitAlone, PTL DEF Spec

(* dns_server.cpp 23-46: when no call on DNS is under way and none has ever  *)
(* overlapped, it is on with all its parts or off without them, for any      *)
(* number of commands: what a call leaves behind is what every call finds.   *)
THEOREM DnsIsOnOrOffInvariant == Spec => []DnsIsOnOrOff
<1>1. DnsInv => DnsIsOnOrOff
  <2>1. \A t : Now(t) \in D!DnsSteps => InCall(t, D!DnsSteps)
    BY DEF Now, InCall, D!DnsSteps
  <2> QED
    BY <2>1 DEF DnsInv, DnsAlone, DnsCalls, DnsSettled, DnsIsOnOrOff, D!DnsSteps
<1> QED
  BY <1>1, DnsAlways, PTL

LEMMA QuietAlways == Spec => []QuietInv
<1>1. QuietInv /\ [Next]_vars => QuietInv'
  BY QuietStep
<1> QED
  BY <1>1, InitQuiet, PTL DEF Spec

(* Engine::stop: once the service reports SERVICE_STOPPED nothing of the     *)
(* Engine runs but a watcher, and no process but one a provider has failed   *)
(* to stop in it, for any number of commands and changes during the stop:    *)
(* each step of it closes off something that nothing opens again.            *)
THEOREM StoppedMeansQuietInvariant == Spec => []StoppedMeansQuiet
<1>1. ASSUME QuietInv, DnsInv PROVE StoppedMeansQuiet
  <2> SUFFICES ASSUME scm = "stopped", ~terminated
               PROVE  /\ \A w \in Workers : pc[w] = <<>>
                      /\ holder = Nobody /\ (services => kept) /\ ~running
                      /\ ~answering /\ ("dns" \notin overlapped => ~bound /\ responder = "none")
    BY DEF StoppedMeansQuiet
  <2>1. Shape /\ Refreshing /\ Quieting /\ TypeOK /\ Programs /\ MainShape /\ Typed
    BY <1>1 DEF QuietInv, Shape, Typed
  <2>2. Done >= 17
    BY <2>1 DEF Quieting
  <2>3. Done \in Int
    BY <2>1, People DEF Programs, Done
  <2>4. Done >= 12 /\ Done >= 13 /\ Done >= 14 /\ Done >= 15 /\ Done >= 16
    BY <2>2, <2>3
  <2>5. ~running /\ ~answering /\ (services => kept) /\ \A w \in Workers : pc[w] = <<>>
    BY <2>1, <2>4 DEF Quieting
  <2>6. \A w \in Workers : Now(w) = "none"
    BY <2>5 DEF Now
  <2>7. pc[Main] # <<>> => Call(Now(Main)) \notin {"refresh", "dns.start", "dns.stop"}
    <3> SUFFICES ASSUME pc[Main] # <<>>, Call(Now(Main)) \in {"refresh", "dns.start", "dns.stop"} PROVE FALSE
      OBVIOUS
    <3>1. Done \in {2, 4, 14}
      BY <2>1, MainAt
    <3> QED
      BY <2>2, <3>1
  <2>8. Now(Main) \notin D!DnsSteps /\ Now(Main) # "refreshing"
    BY <2>7 DEF Now, Call, D!DnsSteps
  <2>9. holder = Nobody
    <3>1. holder \notin Threads
      BY <2>1, <2>6, <2>8, People DEF Refreshing
    <3>2. holder # Watcher
      BY <2>1, <2>4, <2>6 DEF Refreshing, Quieting
    <3> QED
      BY <2>1, <3>1, <3>2 DEF TypeOK
  <2>10. "dns" \notin overlapped => ~bound /\ responder = "none"
    BY <1>1, <2>5, <2>6, <2>8, People DEF DnsInv, DnsAlone, DnsCalls, DnsSettled, D!DnsSteps
  <2> QED
    BY <2>5, <2>9, <2>10
<1> QED
  BY <1>1, QuietAlways, DnsAlways, PTL

(* At the end of service_main only what has settled is destroyed.            *)
LEMMA DestroyIsSafe ==
  ASSUME QuietInv, DnsInv, WatcherInv, ~terminated, overlapped = {}, NEW t \in Threads, Destroy(t)
  PROVE  watcher \in {"none", "failed"} /\ responder = "none"
<1>1. pc[t] # <<>> /\ Now(t) = "destroy"
  BY AtNow DEF Destroy
<1>2. Shape /\ Quieting /\ Typed /\ Programs /\ MainShape /\ WorkersShape
  BY DEF QuietInv, Shape, Typed
<1>3. t = Main
  <2> SUFFICES ASSUME t \in Workers PROVE FALSE
    BY People
  <2>1. pc[t] \in Seq(Steps)
    BY <1>2 DEF Programs
  <2>2. 1 \in DOMAIN pc[t] /\ pc[t][1] = "destroy"
    BY <1>1, <2>1 DEF Now
  <2> QED
    BY <1>2, <2>2 DEF WorkersShape, OfMain
<1>4. Done = 18
  BY <1>1, <1>2, <1>3, MainAt DEF Call
<1>5. ~watching /\ ~answering /\ \A w \in Workers : pc[w] = <<>>
  BY <1>2, <1>4 DEF Quieting
<1>6. \A u \in Threads : Now(u) \notin D!DnsSteps /\ Now(u) \notin W!WatcherSteps
  BY <1>1, <1>3, <1>5, People DEF Now, D!DnsSteps, W!WatcherSteps
<1>7. DnsCalls /\ WatcherCalls
  BY DEF DnsInv, DnsAlone, WatcherInv, WatcherAlone
<1> QED
  BY <1>5, <1>6, <1>7 DEF DnsCalls, DnsSettled, WatcherCalls, WatcherSettled, D!DnsSteps, W!WatcherSteps

LEMMA TerminatesStep ==
  ASSUME QuietInv, DnsInv, WatcherInv, TerminatesOnlyByOverlap, [Next]_vars
  PROVE  TerminatesOnlyByOverlap'
<1>1. CASE UNCHANGED vars
  BY <1>1 DEF vars, watcherVars, TerminatesOnlyByOverlap
<1>2. CASE Next
  <2>1. ~terminated /\ overlapped' = overlapped \union Overlapping'
    BY <1>2 DEF Next, EngineRuns, Run
  <2> SUFFICES ASSUME terminated', overlapped' = {}, ~escaped' PROVE watcher' = "failed"
    BY DEF TerminatesOnlyByOverlap
  <2>2. overlapped = {} /\ DnsCalls /\ WatcherCalls
    BY <2>1 DEF DnsInv, DnsAlone, WatcherInv, WatcherAlone
  <2>3. ASSUME NEW t \in Threads, ThreadStep(t) PROVE watcher' = "failed"
    <3>1. CASE WatcherCall(t)
      <4>1. Now(t) = "spawn" /\ watcher # "none" /\ watcher' = watcher
        BY <2>1, <3>1, AtNow
        DEF WatcherCall, W!WatcherCall, W!Exchange, W!Cancel, W!Join, W!Prepare, W!Spawn
      <4> QED
        BY <2>2, <4>1 DEF WatcherCalls
    <3>2. CASE DnsCall(t)
      <4>1. Now(t) = "create" /\ responder # "none"
        BY <2>1, <3>2, AtNow
        DEF DnsCall, D!DnsCall, D!Bind, D!Publish, D!Create, D!Stop, D!WakeDatagram, D!JoinDns, D!CloseSocket, D!Clear
      <4> QED
        BY <2>2, <4>1 DEF DnsCalls
    <3>3. CASE Refresh(t) \/ Services(t) \/ Serve(t) \/ Report(t)
      BY <2>1, <3>3 DEF Refresh, Services, Serve, Report
    <3>4. CASE Destroy(t)
      BY <2>1, <2>2, <3>4, DestroyIsSafe DEF Destroy, watcherVars
    <3> QED
      BY <2>3, <3>1, <3>2, <3>3, <3>4 DEF ThreadStep
  <2>4. CASE Command \/ Outside
    BY <2>1, <2>4
    DEF Command, Outside, WatcherThread, W!WatcherThread, W!Open, W!TestRunning, W!EnterRead, W!ReadReturns,
        W!TestAgain, W!callers, Callback, Locks, Ignores, Begins, Finishes, W!CallbackReturns, FolderChanges,
        W!FolderChanges, ControlStop, DnsThread, D!DnsThread, D!TestRunning, D!Receive, D!rest
  <2>5. CASE RefreshThrows
    BY <2>1, <2>5, Thrown DEF QuietInv, Shape, Typed, Uncaught, Dropped
  <2> QED
    BY <1>2, <2>3, <2>4, <2>5 DEF Next, EngineRuns, Run, Outside
<1> QED
  BY <1>1, <1>2

(* folder_watcher.cpp 8-21, dns_server.cpp 23-45: while no two calls overlap *)
(* a std::thread is joined before it is assigned or destroyed, for any       *)
(* number of commands and whatever their refreshes throw, unless the         *)
(* watcher's ended by itself at line 26.  An exception that leaves the       *)
(* callback or Engine::start is the only other end.                          *)
THEOREM TerminatesOnlyByOverlapInvariant == Spec => []TerminatesOnlyByOverlap
<1> DEFINE I == QuietInv /\ DnsInv /\ WatcherInv /\ TerminatesOnlyByOverlap
<1>1. Init => I
  BY InitQuiet, InitAlone DEF Init, TerminatesOnlyByOverlap
<1>2. I /\ [Next]_vars => I'
  BY QuietStep, DnsStep, WatcherStep, TerminatesStep
<1>3. I => TerminatesOnlyByOverlap
  OBVIOUS
<1> QED
  BY <1>1, <1>2, <1>3, PTL DEF Spec

-----------------------------------------------------------------------------
(* What an Engine at rest can wait for.                                      *)

(* Who refreshes holds refresh_mutex_.                                       *)
Held ==
  /\ \A t \in Threads : Now(t) = "refreshing" => holder = t
  /\ callback = "refresh" => holder = Watcher

(* Port 53 is held by one at a time of a start that has bound it, DNS that   *)
(* is on, and a stop that has not closed the socket yet, however calls       *)
(* overlap; so a datagram of a stop reaches the recvfrom it waits for.       *)
AtPort == {"publish", "wake", "joinDns", "close"}

Port ==
  /\ answering => bound
  /\ \A t \in Threads : Now(t) \in AtPort => bound /\ ~answering
  /\ \A t, u \in Threads : t # u => Now(t) \notin AtPort \/ Now(u) \notin AtPort
  /\ \A t \in Threads : Now(t) = "joinDns" /\ responder = "recv" => mail \/ lost

(* A thread that is joined does not go on to read.                           *)
Cancelled ==
  ~terminated /\ ~missed /\ "watcher" \notin overlapped =>
    \A t \in Threads : Now(t) = "join" => watcher \notin {"enter", "read"}

Pending ==
  /\ scm = "stopPending" => stopEvent
  /\ Done >= 17 => scm = "stopped"

(* What the watcher owes is in its handle or in its hands.                   *)
NotesOff == watcher \in {"none", "open", "failed"} => notes = "off"

InHand == notes = "change" \/ watcher = "changed" \/ (watcher = "call" /\ callback \in {"none", "lock"})

Owing == ~terminated /\ "watcher" \notin overlapped /\ owed => watching /\ InHand

LEMMA HeldStep == ASSUME Shape, Refreshing, Held, [Next]_vars PROVE Held'
<1> USE People
<1>1. Programs /\ Typed /\ Unused
  BY DEF Shape, Typed
<1>2. ASSUME NEW t \in Threads, ThreadStep(t), ~Refresh(t) PROVE Held'
  <2>1. UNCHANGED <<holder, callback>>
    BY <1>2 DEF ThreadStep, WatcherCall, DnsCall, Services, Serve, Report, Destroy, engineVars, refreshVars
  <2>2. Moves(t) /\ Now(t) \notin {"refresh", "refreshing"}
    BY <1>2, Steppers, StepMoves
  <2>3. /\ \A u \in Threads \ {t} : Now(u)' = Now(u)
        /\ Now(t)' \notin Internal \/ Call(Now(t))' = Call(Now(t))
    BY <1>1, <2>2, Moved
  <2>4. Now(t)' # "refreshing"
    <3>1. Call(Now(t)) # "refresh"
      BY <2>2 DEF Call
    <3>2. Now(t)' = "refreshing" => Call(Now(t))' = "refresh"
      BY DEF Call
    <3> QED
      BY <2>3, <3>1, <3>2
  <2> QED
    BY <2>1, <2>3, <2>4 DEF Held
<1>3. ASSUME NEW t \in Threads, Refresh(t) PROVE Held'
  <2>1. callback' = callback /\ pc[t] # <<>>
    BY <1>3, AtNow DEF Refresh
  <2>2. CASE At(t, "refresh") /\ Then(t, <<"refreshing">>) /\ BeginRefresh(t)
    <3>1. Now(t) = "refresh" /\ Now(t)' = "refreshing" /\ \A u \in Threads \ {t} : Now(u)' = Now(u)
      BY <1>1, <2>1, <2>2, AtNow, GoMoves
    <3> QED
      BY <2>1, <2>2, <3>1 DEF BeginRefresh, Held
  <2>3. CASE At(t, "refreshing") /\ Return(t) /\ EndRefresh(t)
    <3>1. Now(t)' \notin Internal /\ \A u \in Threads \ {t} : Now(u)' = Now(u)
      BY <1>1, <2>1, <2>3, ReturnMoves DEF Return
    <3> QED
      BY <2>1, <2>3, <3>1 DEF EndRefresh, Held
  <2> QED
    BY <1>3, <2>2, <2>3 DEF Refresh
<1>4. CASE Command
  <2>1. UNCHANGED <<holder, callback>>
    BY <1>4 DEF Command, engineVars, refreshVars
  <2>2. PICK w \in Workers : /\ Now(w)' \in {"refresh", "dns.start", "dns.stop", "service.start"}
                             /\ \A u \in Threads \ {w} : Now(u)' = Now(u)
    BY <1>1, <1>4, CommandArrives
  <2> QED
    BY <2>1, <2>2 DEF Held
<1>5. CASE Callback
  <2>1. \A t \in Threads : Now(t)' = Now(t)
    BY <1>5, OutsideKeeps DEF Outside
  <2>2. CASE Locks \/ Ignores
    <3>1. callback' # "refresh" \/ callback' = callback
      BY <2>2 DEF Locks, Ignores
    <3>2. holder' = holder
      BY <2>2 DEF Locks, Ignores, refreshVars
    <3> QED
      BY <2>1, <3>1, <3>2 DEF Held
  <2>3. CASE Begins
    BY <2>1, <2>3 DEF Begins, BeginRefresh, Held
  <2>4. CASE Finishes
    BY <2>1, <2>4 DEF Finishes, EndRefresh, Held
  <2> QED
    BY <1>5, <2>2, <2>3, <2>4 DEF Callback
<1>6. CASE WatcherThread \/ DnsThread \/ FolderChanges \/ ControlStop \/ UNCHANGED vars
  <2>1. UNCHANGED <<pc, holder, callback>>
    <3>1. CASE UNCHANGED vars
      BY <3>1 DEF vars, engineVars, refreshVars
    <3>2. CASE WatcherThread \/ DnsThread \/ FolderChanges \/ ControlStop
      BY <3>2, OutsideKeeps DEF Outside, WatcherThread, DnsThread, FolderChanges, ControlStop, engineVars, refreshVars
    <3> QED
      BY <1>6, <3>1, <3>2
  <2> QED
    BY <2>1 DEF Held, Now
<1>7. CASE RefreshThrows
  <2>1. callback' = callback /\ (Uncaught \/ \E w \in Workers : Dropped(w))
    BY <1>1, <1>7, Thrown
  <2>2. CASE Uncaught
    BY <2>1, <2>2 DEF Uncaught, Held
  <2>3. ASSUME NEW w \in Workers, Dropped(w) PROVE Held'
    <3>1. holder = w /\ callback # "refresh"
      BY <2>3 DEF Held, Dropped
    <3> QED
      BY <2>1, <2>3, <3>1 DEF Held, Dropped
  <2> QED
    BY <2>1, <2>2, <2>3
<1> QED
  BY <1>2, <1>3, <1>4, <1>5, <1>6, <1>7 DEF Next, EngineRuns, Run

LEMMA PortCall == ASSUME Typed, Port, NEW t \in Threads, DnsCall(t) PROVE Port'
<1> USE AtNow, SameThen DEF AtPort
<1>1. Programs /\ pc[t] # <<>> /\ Now(t) \notin Stopping
  <2>1. pc[t] # <<>> /\ Now(t) \in D!DnsSteps
    <3>1. CASE D!Bind(t) \/ D!Publish(t) \/ D!Create(t)
      BY <3>1 DEF D!Bind, D!Publish, D!Create, D!DnsSteps
    <3>2. CASE D!Stop(t) \/ D!WakeDatagram(t)
      BY <3>2 DEF D!Stop, D!WakeDatagram, D!DnsSteps
    <3>3. CASE D!JoinDns(t) \/ D!CloseSocket(t) \/ D!Clear(t)
      BY <3>3 DEF D!JoinDns, D!CloseSocket, D!Clear, D!DnsSteps
    <3> QED
      BY <3>1, <3>2, <3>3 DEF DnsCall, D!DnsCall
  <2> QED
    BY <2>1 DEF Typed, D!DnsSteps
<1>2. ASSUME Then(t, <<>>) PROVE Now(t)' \notin AtPort /\ \A u \in Threads \ {t} : Now(u)' = Now(u)
  BY <1>1, <1>2, ReturnMoves
<1>3. ASSUME NEW s \in DnsInside, Then(t, <<s>>)
      PROVE  Now(t)' = s /\ \A u \in Threads \ {t} : Now(u)' = Now(u)
  BY <1>1, <1>3, GoMoves
<1>4. CASE D!Bind(t)
  BY <1>2, <1>3, <1>4 DEF D!Bind, Port
<1>5. CASE D!Publish(t)
  BY <1>3, <1>5 DEF D!Publish, Port
<1>6. CASE D!Create(t)
  BY <1>2, <1>6 DEF D!Create, Port
<1>7. CASE D!Stop(t)
  BY <1>2, <1>3, <1>7 DEF D!Stop, Port
<1>8. CASE D!WakeDatagram(t)
  BY <1>3, <1>8 DEF D!WakeDatagram, Port
<1>9. CASE D!JoinDns(t)
  BY <1>3, <1>9 DEF D!JoinDns, Port
<1>10. CASE D!CloseSocket(t)
  BY <1>3, <1>10 DEF D!CloseSocket, Port
<1>11. CASE D!Clear(t)
  BY <1>2, <1>11 DEF D!Clear, Port
<1> QED
  BY <1>4, <1>5, <1>6, <1>7, <1>8, <1>9, <1>10, <1>11 DEF DnsCall, D!DnsCall

LEMMA PortFrame ==
  ASSUME Port, UNCHANGED dnsVars,
         \A t \in Threads : Now(t)' = Now(t) \/ Now(t)' \notin DnsInside
  PROVE  Port'
BY DEF Port, AtPort, dnsVars

LEMMA PortStep == ASSUME Shape, Port, [Next]_vars PROVE Port'
<1>1. Typed /\ Unused
  BY DEF Shape
<1>2. ASSUME NEW t \in Threads, ThreadStep(t) PROVE Port'
  BY <1>1, <1>2, PortCall, DnsElsewhere, PortFrame
<1>3. CASE Command
  <2>1. PICK w \in Workers :
          /\ Now(w)' \in {"refresh", "dns.start", "dns.stop", "service.start"}
          /\ \A u \in Threads \ {w} : Now(u)' = Now(u)
    BY <1>1, <1>3, CommandArrives
  <2>2. UNCHANGED dnsVars
    BY <1>3 DEF Command
  <2> QED
    BY <2>1, <2>2, PortFrame
<1>4. CASE WatcherThread \/ Callback \/ FolderChanges \/ ControlStop \/ UNCHANGED vars
  <2>1. UNCHANGED dnsVars
    BY <1>4 DEF WatcherThread, Callback, FolderChanges, ControlStop, vars
  <2>2. \A t \in Threads : Now(t)' = Now(t)
    <3>1. CASE UNCHANGED vars
      BY <3>1 DEF vars, Now
    <3> QED
      BY <1>4, <3>1, OutsideKeeps DEF Outside
  <2> QED
    BY <2>1, <2>2, PortFrame
<1>5. CASE DnsThread
  <2>1. /\ UNCHANGED <<answering, bound, lost>> /\ \A t \in Threads : Now(t)' = Now(t)
        /\ responder' # "recv" \/ answering
    BY <1>5 DEF DnsThread, D!DnsThread, D!TestRunning, D!Receive, D!rest, Now
  <2> QED
    BY <2>1 DEF Port, AtPort
<1>6. CASE RefreshThrows
  <2>1. UNCHANGED dnsVars /\ \A t \in Threads : Now(t)' = Now(t) \/ Now(t)' = "none"
    BY <1>1, <1>6, Thrown DEF Typed, Uncaught, Dropped
  <2> QED
    BY <2>1, PortFrame
<1> QED
  BY <1>2, <1>3, <1>4, <1>5, <1>6 DEF Next, EngineRuns, Run

LEMMA MissedStays == ASSUME [Next]_vars PROVE missed => missed'
<1>1. ASSUME NEW t \in Threads, WatcherCall(t) PROVE missed => missed'
  BY <1>1 DEF WatcherCall, W!WatcherCall, W!Exchange, W!Cancel, W!Join, W!Prepare, W!Spawn
<1>2. ASSUME NEW t \in Threads, ThreadStep(t), ~WatcherCall(t) PROVE missed' = missed
  BY <1>2 DEF ThreadStep, DnsCall, Refresh, Services, Serve, Report, Destroy, watcherVars
<1>3. CASE Command \/ Outside
  BY <1>3 DEF Command, Outside, WatcherThread, W!WatcherThread, W!Open, W!TestRunning, W!EnterRead, W!ReadReturns,
              W!TestAgain, Callback, Locks, Ignores, Begins, Finishes, W!CallbackReturns, FolderChanges,
              W!FolderChanges, ControlStop, DnsThread, watcherVars
<1>4. CASE RefreshThrows \/ UNCHANGED vars
  BY <1>4 DEF RefreshThrows, vars, watcherVars
<1> QED
  BY <1>1, <1>2, <1>3, <1>4 DEF Next, EngineRuns, Run, Outside

LEMMA CancelledStep == ASSUME WatcherInv, Cancelled, [Next]_vars PROVE Cancelled'
<1>1. Typed /\ Unused /\ Programs
  BY DEF WatcherInv, Typed
<1> SUFFICES ASSUME ~terminated', ~missed', "watcher" \notin overlapped', NEW t \in Threads, Now(t)' = "join"
             PROVE  watcher' \notin {"enter", "read"}
  BY DEF Cancelled
<1>2. CASE UNCHANGED vars
  <2>1. UNCHANGED <<pc, watching, watcher, missed, overlapped, terminated>>
    BY <1>2 DEF vars, watcherVars
  <2> QED
    BY <2>1 DEF Cancelled, Now
<1>3. CASE Next
  <2>1. ~terminated /\ overlapped' = overlapped \union Overlapping'
    BY <1>3 DEF Next, EngineRuns, Run
  <2>2. WatcherCalls /\ \A u \in Threads : Now(u) = "join" => watcher \notin {"enter", "read"}
    BY <2>1, MissedStays DEF WatcherInv, WatcherAlone, Cancelled
  <2>3. ASSUME NEW u \in Threads, WatcherCall(u) PROVE watcher' \notin {"enter", "read"}
    <3> USE AtNow, SameThen
    <3>1. pc[u] # <<>> /\ Now(u) \in W!WatcherSteps
      BY <2>3 DEF WatcherCall, W!WatcherCall, W!Exchange, W!Cancel, W!Join, W!Prepare, W!Spawn, W!WatcherSteps
    <3>2. t = u
      <4>1. t # u => Now(t) = "join"
        BY <1>1, <2>3, StepMoves, Moved DEF ThreadStep
      <4> QED
        BY <2>2, <3>1, <4>1 DEF WatcherCalls, W!WatcherSteps
    <3>3. CASE W!Exchange(u)
      <4>1. Now(u)' \in {"cancel"} \/ Now(u)' \notin Internal
        <5>1. Then(u, <<>>) => Now(u)' \notin Internal
          BY <1>1, <3>1, ReturnMoves
        <5>2. Then(u, <<"cancel">>) => Now(u)' = "cancel"
          BY <1>1, <3>1, GoMoves
        <5> QED
          BY <3>3, <5>1, <5>2 DEF W!Exchange
      <4> QED
        BY <3>2, <4>1
    <3>4. CASE W!Cancel(u)
      BY <3>4 DEF W!Cancel
    <3>5. CASE W!Join(u)
      BY <3>5 DEF W!Join
    <3>6. CASE W!Prepare(u)
      <4>1. Now(u)' \in {"spawn"} \/ Now(u)' \notin Internal
        <5>1. Then(u, <<>>) => Now(u)' \notin Internal
          BY <1>1, <3>1, ReturnMoves
        <5>2. Now(u) = "watcher.start" /\ Then(u, <<"spawn">>) => Now(u)' = "spawn"
          BY <1>1, <3>1, GoMoves
        <5> QED
          BY <3>6, <5>1, <5>2 DEF W!Prepare
      <4> QED
        BY <3>2, <4>1
    <3>7. CASE W!Spawn(u)
      <4>1. watcher' \in {watcher, "open"} /\ Now(u) = "spawn"
        BY <3>7 DEF W!Spawn
      <4> QED
        BY <2>2, <4>1 DEF WatcherCalls
    <3> QED
      BY <2>3, <3>3, <3>4, <3>5, <3>6, <3>7 DEF WatcherCall, W!WatcherCall
  <2>4. ASSUME NEW u \in Threads, ThreadStep(u), ~WatcherCall(u) PROVE watcher' \notin {"enter", "read"}
    BY <1>1, <2>2, <2>4, WatcherElsewhere
  <2>5. ASSUME Command PROVE watcher' \notin {"enter", "read"}
    <3>1. PICK w \in Workers :
            /\ Now(w)' \in {"refresh", "dns.start", "dns.stop", "service.start"}
            /\ \A u \in Threads \ {w} : Now(u)' = Now(u)
      BY <1>1, <2>5, CommandArrives
    <3>2. watcher' = watcher /\ Now(t)' = Now(t)
      BY <2>5, <3>1 DEF Command, watcherVars
    <3> QED
      BY <2>2, <3>2
  <2>6. ASSUME Outside PROVE watcher' \notin {"enter", "read"}
    <3>1. Now(t) = "join" /\ watcher \notin {"enter", "read"} /\ ~watching
      BY <2>2, <2>6, OutsideKeeps DEF WatcherCalls
    <3>2. CASE WatcherThread
      BY <3>1, <3>2 DEF WatcherThread, W!WatcherThread, W!Open, W!TestRunning, W!EnterRead, W!ReadReturns, W!TestAgain
    <3>3. CASE Callback
      BY <3>1, <3>3 DEF Callback, Locks, Ignores, Begins, Finishes, W!CallbackReturns, watcherVars
    <3>4. CASE DnsThread \/ FolderChanges \/ ControlStop
      BY <3>1, <3>4 DEF DnsThread, FolderChanges, W!FolderChanges, ControlStop, watcherVars
    <3> QED
      BY <2>6, <3>2, <3>3, <3>4 DEF Outside
  <2>7. CASE RefreshThrows
    <3>1. watcher' = watcher /\ \A u \in Threads : Now(u)' = Now(u) \/ Now(u)' = "none"
      BY <1>1, <2>7, Thrown DEF Uncaught, Dropped
    <3> QED
      BY <2>2, <3>1
  <2> QED
    BY <1>3, <2>3, <2>4, <2>5, <2>6, <2>7 DEF Next, EngineRuns, Run, Outside
<1> QED
  BY <1>2, <1>3

LEMMA Reporters == ASSUME NEW t \in Threads, ThreadStep(t), Now(t) = "reportStopped" PROVE Report(t)
<1> USE AtNow
<1>1. ~WatcherCall(t)
  BY DEF WatcherCall, W!WatcherCall, W!Exchange, W!Cancel, W!Join, W!Prepare, W!Spawn
<1>2. ~DnsCall(t)
  <2>1. ~D!Bind(t) /\ ~D!Publish(t) /\ ~D!Create(t)
    BY DEF D!Bind, D!Publish, D!Create
  <2>2. ~D!Stop(t) /\ ~D!WakeDatagram(t)
    BY DEF D!Stop, D!WakeDatagram
  <2>3. ~D!JoinDns(t) /\ ~D!CloseSocket(t) /\ ~D!Clear(t)
    BY DEF D!JoinDns, D!CloseSocket, D!Clear
  <2> QED
    BY <2>1, <2>2, <2>3 DEF DnsCall, D!DnsCall
<1>3. ~Refresh(t) /\ ~Services(t) /\ ~Serve(t) /\ ~Destroy(t)
  BY DEF Refresh, Services, Serve, Destroy
<1> QED
  BY <1>1, <1>2, <1>3 DEF ThreadStep

LEMMA PendingStep == ASSUME Shape, Pending, [Next]_vars PROVE Pending'
<1>1. Typed /\ Unused /\ MainShape /\ WorkersShape /\ Programs
  BY DEF Shape, Typed
<1>2. ASSUME NEW t \in Threads, ThreadStep(t), ~Report(t) PROVE UNCHANGED <<scm, stopEvent>>
  BY <1>2 DEF ThreadStep, WatcherCall, DnsCall, Refresh, Services, Serve, Destroy, scmVars
<1>3. ASSUME NEW t \in Threads, Report(t)
      PROVE  /\ stopEvent' = stopEvent
             /\ \/ scm' = scm /\ Now(t) \in {"construct", "await"}
                \/ scm' = "running" /\ Now(t) = "reportRunning"
                \/ scm' = "stopped" /\ Now(t) = "reportStopped"
  BY <1>3, AtNow DEF Report, scmVars
<1>4. ASSUME ThreadStep(Main) PROVE Pending'
  <2>1. PICK call : call = Call(Now(Main))
    OBVIOUS
  <2>2. /\ pc[Main] # <<>> /\ Done \in 1..18
        /\ Done' = Done + 1 \/ (Done' = Done /\ Now(Main)' \in Internal)
    BY <1>1, <1>4, People, StepMoves, MainMoves DEF Moves
  <2>3. (call = "reportRunning" => Done = 9) /\ (call = "reportStopped" <=> Done = 16)
    BY <1>1, <2>1, <2>2, MainAt
  <2>4. (Now(Main) = "reportRunning" => call = "reportRunning") /\ (call = "reportStopped" => Now(Main) = "reportStopped")
    BY <2>1 DEF Call
  <2> HIDE DEF Done
  <2>5. Now(Main) = "reportStopped" => Report(Main)
    BY <1>4, Reporters, People
  <2> QED
    BY <1>2, <1>3, <1>4, <2>2, <2>3, <2>4, <2>5, People DEF Pending
<1>5. ASSUME NEW t \in Workers, ThreadStep(t) PROVE Pending'
  <2>1. t \in Threads /\ Now(t) \notin OfMain
    BY <1>1, <1>5, People, StepMoves, WorkerMoves
  <2>2. UNCHANGED <<scm, stopEvent>>
    BY <1>2, <1>3, <1>5, <2>1 DEF OfMain
  <2>3. pc'[Main] = pc[Main]
    BY <1>1, <1>5, <2>1, People, StepMoves, Moved
  <2> QED
    BY <2>2, <2>3 DEF Pending, Done
<1>6. CASE Command
  <2>1. UNCHANGED <<scm, stopEvent>>
    BY <1>6 DEF Command, scmVars
  <2>2. pc'[Main] = pc[Main]
    BY <1>1, <1>6, CommandArrives, People
  <2> QED
    BY <2>1, <2>2 DEF Pending, Done
<1>7. CASE Outside
  <2>1. pc' = pc
    BY <1>7, OutsideKeeps
  <2>2. CASE ControlStop
    BY <2>1, <2>2 DEF ControlStop, Pending, Done
  <2>3. CASE ~ControlStop
    BY <1>7, <2>1, <2>3 DEF Outside, WatcherThread, Callback, DnsThread, FolderChanges, scmVars, Pending, Done
  <2> QED
    BY <2>2, <2>3
<1>8. CASE UNCHANGED vars
  BY <1>8 DEF vars, scmVars, Pending, Done
<1>9. CASE RefreshThrows
  <2>1. UNCHANGED <<scm, stopEvent>> /\ pc'[Main] = pc[Main]
    BY <1>1, <1>9, Thrown, People DEF Uncaught, Dropped
  <2> QED
    BY <2>1 DEF Pending, Done
<1> QED
  BY <1>4, <1>5, <1>6, <1>7, <1>8, <1>9, People DEF Next, EngineRuns, Run, Outside

LEMMA NotesOffStep == ASSUME NotesOff, [Next]_vars PROVE NotesOff'
<1>1. ASSUME NEW t \in Threads, WatcherCall(t) PROVE NotesOff'
  BY <1>1 DEF WatcherCall, W!WatcherCall, W!Exchange, W!Cancel, W!Join, W!Prepare, W!Spawn, NotesOff
<1>2. ASSUME NEW t \in Threads, ThreadStep(t), ~WatcherCall(t) PROVE NotesOff'
  BY <1>2 DEF ThreadStep, DnsCall, Refresh, Services, Serve, Report, Destroy, watcherVars, NotesOff
<1>3. CASE Command \/ DnsThread \/ ControlStop \/ RefreshThrows \/ UNCHANGED vars
  BY <1>3 DEF Command, RefreshThrows, DnsThread, ControlStop, vars, watcherVars, NotesOff
<1>4. CASE WatcherThread
  BY <1>4 DEF WatcherThread, W!WatcherThread, W!Open, W!TestRunning, W!EnterRead, W!ReadReturns, W!TestAgain, NotesOff
<1>5. CASE Callback
  BY <1>5 DEF Callback, Locks, Ignores, Begins, Finishes, W!CallbackReturns, watcherVars, NotesOff
<1>6. CASE FolderChanges
  BY <1>6 DEF FolderChanges, W!FolderChanges, NotesOff
<1> QED
  BY <1>1, <1>2, <1>3, <1>4, <1>5, <1>6 DEF Next, EngineRuns, Run

LEMMA OwingStep == ASSUME WatcherInv, NotesOff, Owing, [Next]_vars PROVE Owing'
<1>1. Typed /\ TypeOK
  BY DEF WatcherInv, Typed
<1> SUFFICES ASSUME ~terminated', "watcher" \notin overlapped', owed' PROVE watching' /\ InHand'
  BY DEF Owing
<1>2. CASE UNCHANGED vars
  <2>1. UNCHANGED <<watching, watcher, notes, owed, callback, overlapped, terminated>>
    BY <1>2 DEF vars, watcherVars, engineVars
  <2> QED
    BY <2>1 DEF Owing, InHand
<1>3. CASE Next
  <2>1. ~terminated /\ "watcher" \notin overlapped
    BY <1>3 DEF Next, EngineRuns, Run
  <2>2. WatcherCalls /\ (owed => watching /\ InHand)
    BY <2>1 DEF WatcherInv, WatcherAlone, Owing
  <2>3. ASSUME NEW t \in Threads, WatcherCall(t) PROVE FALSE
    <3> USE AtNow
    <3>1. CASE W!Exchange(t)
      BY <3>1 DEF W!Exchange
    <3>2. CASE W!Cancel(t) \/ W!Join(t) \/ W!Prepare(t)
      <4>1. owed /\ Now(t) \in {"cancel", "join", "watcher.start"}
        BY <3>2 DEF W!Cancel, W!Join, W!Prepare
      <4> QED
        BY <2>2, <4>1 DEF WatcherCalls
    <3>3. CASE W!Spawn(t)
      <4>1. owed /\ watcher \in {"none", "failed"}
        BY <2>2, <3>3 DEF W!Spawn, WatcherCalls
      <4> QED
        BY <2>2, <4>1 DEF NotesOff, InHand
    <3> QED
      BY <2>3, <3>1, <3>2, <3>3 DEF WatcherCall, W!WatcherCall
  <2>4. ASSUME NEW t \in Threads, ThreadStep(t), ~WatcherCall(t) PROVE watching' /\ InHand'
    <3>1. UNCHANGED <<watching, watcher, notes>>
      BY <1>1, <2>4, WatcherElsewhere
    <3>2. callback' = callback /\ (owed' => owed)
      BY <2>4 DEF ThreadStep, DnsCall, Refresh, BeginRefresh, EndRefresh, Services, Serve, Report, Destroy,
                  engineVars, watcherVars
    <3> QED
      BY <2>2, <3>1, <3>2 DEF InHand
  <2>5. CASE Command \/ DnsThread \/ ControlStop \/ RefreshThrows
    <3>1. UNCHANGED <<watching, watcher, notes, owed, callback>>
      BY <2>5 DEF Command, RefreshThrows, DnsThread, ControlStop, watcherVars, engineVars
    <3> QED
      BY <2>2, <3>1 DEF InHand
  <2>6. CASE WatcherThread
    <3>1. owed /\ watching /\ InHand /\ callback' = callback
      BY <2>2, <2>6 DEF WatcherThread, W!WatcherThread, W!Open, W!TestRunning, W!EnterRead, W!ReadReturns,
                        W!TestAgain, engineVars
    <3>2. callback \in {"none", "lock", "refresh"} /\ (callback # "none" => watcher = "call")
      BY <1>1 DEF TypeOK
    <3>3. CASE W!Open
      BY <3>1, <3>3 DEF W!Open, NotesOff, InHand
    <3>4. CASE W!TestRunning \/ W!EnterRead
      BY <3>1, <3>4 DEF W!TestRunning, W!EnterRead, InHand
    <3>5. CASE W!ReadReturns
      BY <3>1, <3>5 DEF W!ReadReturns, InHand
    <3>6. CASE W!TestAgain
      BY <3>1, <3>2, <3>6 DEF W!TestAgain, InHand
    <3> QED
      BY <2>6, <3>3, <3>4, <3>5, <3>6 DEF WatcherThread, W!WatcherThread
  <2>7. CASE Callback
    <3>1. CASE callback = "none" /\ running /\ Locks
      BY <2>2, <3>1 DEF Locks, watcherVars, InHand
    <3>2. CASE Ignores \/ Begins
      BY <3>2 DEF Ignores, Begins, BeginRefresh
    <3>3. CASE callback = "refresh" /\ Finishes
      <4>1. owed /\ notes' = notes /\ watching' = watching
        BY <3>3 DEF Finishes, EndRefresh, W!CallbackReturns
      <4>2. notes = "change"
        BY <2>2, <2>7, <3>3, <4>1 DEF Callback, InHand
      <4> QED
        BY <2>2, <4>1, <4>2 DEF InHand
    <3> QED
      BY <2>7, <3>1, <3>2, <3>3 DEF Callback
  <2>8. CASE FolderChanges
    BY <2>8 DEF FolderChanges, W!FolderChanges, InHand
  <2> QED
    BY <1>3, <2>3, <2>4, <2>5, <2>6, <2>7, <2>8 DEF Next, EngineRuns, Run
<1> QED
  BY <1>2, <1>3

Resting == /\ QuietInv /\ WatcherInv
           /\ Held /\ Port /\ Cancelled /\ Pending /\ NotesOff /\ Owing

LEMMA InitResting == ASSUME Init PROVE Resting
<1>1. QuietInv /\ WatcherInv
  BY InitQuiet, InitAlone
<1>2. Now(Main) = "construct" /\ \A w \in Workers : Now(w) = "none"
  BY InitAt
<1>3. \A t \in Threads : Now(t) \notin {"refreshing", "join", "publish", "wake", "joinDns", "close"}
  BY <1>2, People
<1>4. Held /\ Port /\ Cancelled
  BY <1>3 DEF Init, D!DnsInit, Held, Port, AtPort, Cancelled
<1>5. pc[Main] = ServiceMain
  BY People DEF Init
<1>6. Pending
  <2>1. Done = 1
    BY <1>5, MainProgram DEF Done
  <2> QED
    BY <2>1 DEF Init, Pending
<1>7. NotesOff /\ Owing
  BY DEF Init, W!WatcherInit, NotesOff, Owing
<1> QED
  BY <1>1, <1>4, <1>6, <1>7 DEF Resting

LEMMA RestingStep == ASSUME Resting, [Next]_vars PROVE Resting'
<1>1. Shape /\ Refreshing
  BY DEF Resting, QuietInv
<1>2. QuietInv' /\ WatcherInv'
  BY QuietStep, WatcherStep DEF Resting
<1>3. Held' /\ Port' /\ Cancelled' /\ Pending' /\ NotesOff' /\ Owing'
  BY <1>1, HeldStep, PortStep, CancelledStep, PendingStep, NotesOffStep, OwingStep DEF Resting
<1> QED
  BY <1>2, <1>3 DEF Resting

LEMMA RestingAlways == Spec => []Resting
<1>1. Resting /\ [Next]_vars => Resting'
  BY RestingStep
<1> QED
  BY <1>1, InitResting, PTL DEF Spec

(* Neither refresh_mutex_, nor, unless a stop of DNS sent no datagram, the   *)
(* responder, nor, unless a cancellation was missed, the watcher's thread is *)
(* what an Engine at rest waits for.                                         *)
LEMMA NobodyRefreshes == ASSUME Resting, ~terminated, ~CanMove PROVE holder = Nobody
<1>1. Refreshing /\ Held /\ TypeOK
  BY DEF Resting, QuietInv, Shape, Typed
<1>2. holder \notin Threads
  <2> SUFFICES ASSUME holder \in Threads PROVE FALSE
    OBVIOUS
  <2>1. Now(holder) = "refreshing"
    BY <1>1 DEF Refreshing
  <2>2. pc[holder] # <<>>
    BY <2>1 DEF Now
  <2>3. Going(holder)
    BY <2>1, <2>2 DEF Going
  <2> QED
    BY <2>3 DEF CanMove
<1>3. holder # Watcher
  BY <1>1 DEF Refreshing, TypeOK, CanMove
<1> QED
  BY <1>1, <1>2, <1>3 DEF TypeOK

LEMMA CallbacksMove == ASSUME Resting, ~terminated, ~CanMove PROVE watcher # "call"
<1>1. holder = Nobody
  BY NobodyRefreshes
<1>2. Held /\ TypeOK
  BY DEF Resting, QuietInv, Shape, Typed
<1> QED
  BY <1>1, <1>2, People DEF Held, TypeOK, CanMove

LEMMA ResponderEnds == ASSUME Resting, ~terminated, ~CanMove, ~lost, NEW t \in Threads PROVE Now(t) # "joinDns"
<1> SUFFICES ASSUME Now(t) = "joinDns" PROVE FALSE
  OBVIOUS
<1>1. ~answering /\ (responder = "recv" => mail)
  BY DEF Resting, Port, AtPort
<1>2. responder \in {"none", "test", "recv", "ended"}
  BY DEF Resting, QuietInv, Shape, Typed, TypeOK, D!DnsTypeOK
<1>3. Now(t) = "joinDns" /\ pc[t] # <<>>
  BY DEF Now
<1>4. responder \in {"none", "ended"}
  BY <1>1, <1>2 DEF CanMove
<1>5. Going(t)
  BY <1>3, <1>4 DEF Going
<1> QED
  BY <1>5 DEF CanMove

LEMMA WatcherEnds ==
  ASSUME Resting, ~terminated, ~CanMove, ~missed, "watcher" \notin overlapped, NEW t \in Threads
  PROVE  Now(t) # "join"
<1> SUFFICES ASSUME Now(t) = "join" PROVE FALSE
  OBVIOUS
<1>1. watcher \notin {"enter", "read"}
  BY DEF Resting, Cancelled
<1>2. watcher \in W!WatcherStates
  BY DEF Resting, QuietInv, Shape, Typed, TypeOK, W!WatcherTypeOK
<1>3. watcher \in {"none", "ended", "failed"}
  BY <1>1, <1>2, CallbacksMove DEF W!WatcherStates, CanMove
<1>4. Now(t) = "join" /\ pc[t] # <<>>
  BY DEF Now
<1>5. Going(t)
  BY <1>3, <1>4 DEF Going
<1> QED
  BY <1>5 DEF CanMove

(* Engine::stop, service_main 39-44: a stop that the handler took never      *)
(* waits for anything that does not come, for any number of commands and     *)
(* changes of the root: until the service has reported that it is stopped,   *)
(* a thread of the Engine can go on, with the exceptions of StopCompletes.   *)
THEOREM StopIsNeverStuck == Spec => []StopCompletes
<1>1. Resting => StopCompletes
  <2> SUFFICES ASSUME Resting, scm = "stopPending", ~CanMove, ~terminated, ~missed, "watcher" \notin overlapped,
                      ~lost, ipc # "stuck"
               PROVE  FALSE
    BY DEF StopCompletes, StopFails, AtRest
  <2>1. Shape /\ Programs /\ WorkersShape /\ Pending
    BY DEF Resting, QuietInv, Shape, Typed
  <2>2. holder = Nobody /\ stopEvent
    BY <2>1, NobodyRefreshes DEF Pending
  <2>3. ASSUME NEW t \in Threads PROVE Now(t) # "refreshing"
    BY <2>2, <2>3, People DEF Resting, Held
  <2>4. ASSUME NEW t \in Threads, pc[t] # <<>> PROVE Now(t) = "joinWorkers" /\ \E w \in Workers : pc[w] # <<>>
    <3>1. ~Going(t)
      BY DEF CanMove
    <3>2. Now(t) \notin {"refreshing", "join", "joinDns"}
      BY <2>3, WatcherEnds, ResponderEnds
    <3> QED
      BY <2>2, <2>4, <3>1, <3>2 DEF Going
  <2>5. ASSUME NEW w \in Workers PROVE pc[w] = <<>>
    <3> SUFFICES ASSUME pc[w] # <<>> PROVE FALSE
      OBVIOUS
    <3>1. w \in Threads /\ pc[w] \in Seq(Steps)
      BY <2>1, People DEF Programs
    <3>2. Head(pc[w]) = "joinWorkers"
      BY <2>4, <3>1 DEF Now
    <3>3. 1 \in DOMAIN pc[w] /\ pc[w][1] = "joinWorkers"
      BY <3>1, <3>2
    <3> QED
      BY <2>1, <3>3 DEF WorkersShape, OfMain
  <2>6. pc[Main] # <<>>
    <3>1. Done < 17
      <4>1. Done \in Int /\ ~(Done >= 17)
        BY <2>1, People DEF Programs, Done, Pending
      <4> QED
        BY <4>1
    <3> QED
      BY <3>1 DEF Done
  <2> QED
    BY <2>4, <2>5, <2>6, People
<1> QED
  BY <1>1, RestingAlways, PTL

(* README.md 21, engine.cpp 252-257: a change that the watcher's handle has  *)
(* recorded is never left to wait for a further one, for any number of       *)
(* commands and changes: until a refresh has begun after it, a thread of the *)
(* Engine can go on.  TLC's run has two events, too few for two config.set   *)
(* and the change that the exception is about.                               *)
THEOREM ChangesNeverWait == Spec => []ChangesAreRefreshed
<1>1. Resting => ChangesAreRefreshed
  <2> SUFFICES ASSUME Resting, owed, ~CanMove, ~terminated, "watcher" \notin overlapped PROVE FALSE
    BY DEF ChangesAreRefreshed, AtRest
  <2>1. watching /\ InHand /\ WatcherCalls /\ NotesOff
    BY DEF Resting, Owing, WatcherInv, WatcherAlone
  <2>2. watcher # "ended"
    <3>1. CASE \A t \in Threads : Now(t) \notin WatcherInside
      BY <2>1, <3>1 DEF WatcherCalls, WatcherSettled
    <3>2. ASSUME NEW t \in Threads, Now(t) \in WatcherInside PROVE watcher # "ended"
      BY <2>1, <3>2 DEF WatcherCalls
    <3> QED
      BY <3>1, <3>2
  <2>3. watcher \in W!WatcherStates
    BY DEF Resting, QuietInv, Shape, Typed, TypeOK, W!WatcherTypeOK
  <2>4. watcher = "read"
    BY <2>1, <2>2, <2>3, CallbacksMove DEF W!WatcherStates, CanMove, NotesOff, InHand
  <2>5. notes = "change"
    BY <2>1, <2>4 DEF InHand
  <2> QED
    BY <2>4, <2>5 DEF CanMove
<1> QED
  BY <1>1, RestingAlways, PTL
=============================================================================
