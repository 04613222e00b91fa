---------------------------- MODULE UiClientProofs ----------------------------
(***************************************************************************)
(* Theorems about UiClient, for any number of commands of the user and     *)
(* absences of the Engine: its types, that the listener announces          *)
(* connection and outage in turns, that the window shows the present state *)
(* of the services once nothing is under way, and that neither the         *)
(* listener nor the end of the window stops half-way.                      *)
(***************************************************************************)
EXTENDS UiClient, TLAPS, Folds

FS == INSTANCE FiniteSetTheorems
WF == INSTANCE WellFoundedInduction

USE DEF Offline, Unknown, Garbled

Steps == {"connect", "change", "snapshot", "broadcast", "answer", "dispatch"}
(* Only a request that has its answer carries a failure.                     *)
Threads == {r \in [kind : {"list", "command", "stop_all"}, value : Nat \union {Offline},
                   step : Steps, epoch : Nat] : r.value = Offline => r.step = "dispatch"}
Tasks == [kind : {"connected", "disconnected", "event", "list", "command", "stop_all"},
          value : Nat \union {Offline, Unknown, Garbled}, epoch : Nat]

(* Of TypeOK, what does not rest on the order of the listener's steps.       *)
Typed ==
  /\ status \in Nat /\ epoch \in Nat
  /\ pipe \in Seq(Nat \union {Unknown})
  /\ DOMAIN requests \subseteq Threads
  /\ queue \in Seq(Tasks)

-----------------------------------------------------------------------------
(* Bags and tasks.                                                           *)

LEMMA BagAddDomain == \A B, x : DOMAIN BagAdd(B, x) \subseteq DOMAIN B \union {x}
BY DEF BagAdd

LEMMA BagRemoveDomain == \A B, x : DOMAIN BagRemove(B, x) \subseteq DOMAIN B
BY DEF BagRemove

LEMMA RequestType == \A kind \in {"list", "command", "stop_all"}, e \in Nat : Request(kind, e) \in Threads
BY DEF Request, Threads, Steps

LEMMA BecomesType ==
  ASSUME NEW r \in Threads, DOMAIN requests \subseteq Threads,
         NEW step \in Steps, NEW value \in Nat \union {Offline},
         value = Offline => step = "dispatch", Becomes(r, step, value)
  PROVE  DOMAIN requests' \subseteq Threads
<1>1. [r EXCEPT !.step = step, !.value = value] \in Threads
  BY DEF Threads
<1> QED
  BY <1>1, BagAddDomain, BagRemoveDomain DEF Becomes

LEMMA GotoType ==
  ASSUME NEW r \in Threads, DOMAIN requests \subseteq Threads,
         NEW step \in Steps, r.step # "dispatch", Goto(r, step)
  PROVE  DOMAIN requests' \subseteq Threads
<1>1. r.value \in Nat
  BY DEF Threads
<1> QED
  BY <1>1, BecomesType DEF Goto

LEMMA RefusedType == \A r \in Threads : Refused(r) \in Threads
BY DEF Refused, Threads, Steps

LEMMA TaskType ==
  \A kind \in {"connected", "disconnected", "event", "list", "command", "stop_all"},
     value \in Nat \union {Offline, Unknown, Garbled}, e \in Nat : Task(kind, value, e) \in Tasks
BY DEF Task, Tasks

(* What is appended last can be told.                                        *)
LEMMA Appended ==
  ASSUME NEW q \in Seq(Tasks), NEW a \in Tasks, NEW b \in Tasks
  PROVE  /\ Append(q, a) \in Seq(Tasks)
         /\ Append(q, a) = Append(q, b) => a = b
         /\ Append(q, a) # q /\ Append(q, a) # <<>>
         /\ q # <<>> => Tail(q) \in Seq(Tasks) /\ Append(q, a) # Tail(q)
<1>1. Len(Append(q, a)) = Len(q) + 1 /\ Append(q, a)[Len(q) + 1] = a /\ Append(q, b)[Len(q) + 1] = b
  OBVIOUS
<1>2. q # <<>> => Tail(q) \in Seq(Tasks) /\ Len(Tail(q)) = Len(q) - 1
  OBVIOUS
<1> QED
  BY <1>1, <1>2

LEMMA FirstType == ASSUME NEW S, NEW q \in Seq(S), Len(q) = 1 PROVE q[1] \in S
OBVIOUS

LEMMA EmptyType == \A S : <<>> \in Seq(S)
OBVIOUS

-----------------------------------------------------------------------------
LEMMA InitTyped == Init => Typed
<1> SUFFICES ASSUME Init PROVE Typed
  OBVIOUS
<1>1. DOMAIN requests = {Request("list", 0)}
  BY DEF Init, SetToBag
<1> QED
  BY <1>1, RequestType DEF Init, Typed

LEMMA ListenerTyped == Typed /\ Listener => Typed'
<1> SUFFICES ASSUME Typed, Listener PROVE Typed'
  OBVIOUS
<1>1. UNCHANGED <<status, epoch, requests>>
  BY DEF Listener, Connect, Wait, ReadAnswer, TestListening, EnterRead, ReadEvents, ReadFails, Lose,
         Elsewhere, engine, window
<1>2. pipe' = pipe \/ pipe' = <<>>
  BY DEF Listener, Connect, Wait, ReadAnswer, TestListening, EnterRead, ReadEvents, ReadFails, Lose,
         Elsewhere, wire
<1>3. queue' = queue \/ \E task \in Tasks : queue' = Append(queue, task)
  <2>1. \A kind \in {"connected", "disconnected"} :
          Announce(kind) => \E task \in Tasks : queue' = Append(queue, task)
    BY TaskType DEF Announce
  <2>2. CASE Connect \/ Lose
    BY <2>1, <2>2 DEF Connect, Lose, AnnounceOffline, tasks
  <2>3. CASE ReadAnswer
    BY <2>1, <2>3 DEF ReadAnswer
  <2>4. CASE ReadEvents
    <3>1. Len(pipe) = 1 => pipe[1] \in Nat \union {Unknown}
      BY FirstType DEF Typed
    <3> QED
      BY <2>4, <3>1, TaskType DEF ReadEvents
  <2>5. CASE Wait \/ TestListening \/ EnterRead \/ ReadFails
    BY <2>5 DEF Wait, TestListening, EnterRead, ReadFails, tasks
  <2> QED
    BY <2>2, <2>3, <2>4, <2>5 DEF Listener
<1>4. queue' \in Seq(Tasks)
  BY <1>3, Appended DEF Typed
<1>5. pipe' \in Seq(Nat \union {Unknown})
  BY <1>2, EmptyType DEF Typed
<1> QED
  BY <1>1, <1>4, <1>5 DEF Typed

LEMMA RequestTyped == Typed /\ (\E r \in DOMAIN requests : RequestStep(r)) => Typed'
<1> SUFFICES ASSUME Typed, NEW r \in DOMAIN requests, RequestStep(r) PROVE Typed'
  OBVIOUS
<1>1. r \in Threads /\ r.value \in Nat \union {Offline} /\ r.epoch \in Nat
      /\ r.kind \in {"list", "command", "stop_all"} /\ DOMAIN requests \subseteq Threads
  BY DEF Typed, Threads
<1> USE DEF engine, tasks, Outside, window
<1>2. CASE Reach(r)
  <2>1. DOMAIN requests' \subseteq Threads
    BY <1>1, <1>2, BecomesType, GotoType DEF Reach, Steps
  <2> QED
    BY <1>2, <2>1 DEF Reach, Typed
<1>3. CASE Change(r)
  <2>1. DOMAIN requests' \subseteq Threads
    BY <1>1, <1>3, BecomesType, GotoType DEF Change, Steps
  <2> QED
    BY <1>3, <2>1 DEF Change, Typed
<1>4. CASE Snapshot(r) \/ Answer(r)
  <2>1. DOMAIN requests' \subseteq Threads
    BY <1>1, <1>4, BecomesType DEF Snapshot, Answer, Typed, Steps
  <2> QED
    BY <1>4, <2>1 DEF Snapshot, Answer, Typed
<1>5. CASE Broadcast(r)
  <2>1. DOMAIN requests' \subseteq Threads
    BY <1>1, <1>5, GotoType DEF Broadcast, Steps
  <2>2. pipe' \in Seq(Nat \union {Unknown})
    BY <1>1, <1>5 DEF Broadcast, Typed, Threads
  <2> QED
    BY <1>5, <2>1, <2>2 DEF Broadcast, Typed
<1>6. CASE DispatchAnswer(r)
  <2>1. DOMAIN requests' \subseteq Threads
    BY <1>1, <1>6, BagRemoveDomain DEF DispatchAnswer
  <2>2. Task(r.kind, r.value, r.epoch) \in Tasks
    BY <1>1, TaskType
  <2> QED
    BY <1>6, <2>1, <2>2, Appended DEF DispatchAnswer, Typed
<1> QED
  BY <1>2, <1>3, <1>4, <1>5, <1>6 DEF RequestStep

LEMMA WindowTyped ==
  /\ Typed
  /\ HandleConnected \/ HandleDisconnected \/ HandleState \/ HandleStopAll \/ TrayExit \/ UserCommand
  => Typed'
<1> SUFFICES ASSUME Typed, HandleConnected \/ HandleDisconnected \/ HandleState \/ HandleStopAll
                           \/ TrayExit \/ UserCommand
             PROVE  Typed'
  OBVIOUS
<1> USE DEF engine, wire, tasks, Beside
<1>1. \A kind \in {"list", "command", "stop_all"}, e \in Nat :
        requests' = BagAdd(requests, Request(kind, e)) => DOMAIN requests' \subseteq Threads
  BY RequestType, BagAddDomain DEF Typed
<1>2. Takes => queue' \in Seq(Tasks)
  BY DEF Takes, Typed
<1>3. CASE HandleConnected
  <2>1. epoch' \in Nat /\ DOMAIN requests' \subseteq Threads
    BY <1>1, <1>3 DEF HandleConnected, Typed
  <2> QED
    BY <1>2, <1>3, <2>1 DEF HandleConnected, Typed
<1>4. CASE HandleDisconnected \/ HandleState
  BY <1>2, <1>4 DEF HandleDisconnected, HandleState, Typed
<1>5. CASE HandleStopAll \/ TrayExit
  <2>1. requests' = EmptyBag /\ queue' = <<>> /\ UNCHANGED <<status, epoch, pipe>>
    BY <1>5 DEF HandleStopAll, TrayExit, Quit
  <2>2. DOMAIN requests' \subseteq Threads
    BY <2>1 DEF EmptyBag, SetToBag
  <2> QED
    BY <2>1, <2>2, EmptyType DEF Typed
<1>6. CASE UserCommand
  BY <1>1, <1>6 DEF UserCommand, Typed
<1> QED
  BY <1>3, <1>4, <1>5, <1>6

LEMMA TypedStep == Typed /\ [Next]_vars => Typed'
<1> SUFFICES ASSUME Typed, [Next]_vars PROVE Typed'
  OBVIOUS
<1> USE DEF engine, wire, tasks, window, listener
<1>1. CASE AnswerSubscription
  <2>1. pipe' \in Seq(Nat \union {Unknown})
    BY <1>1 DEF AnswerSubscription
  <2> QED
    BY <1>1, <2>1 DEF AnswerSubscription, Typed
<1>2. CASE EngineEnds
  <2>1. DOMAIN requests' \subseteq Threads
    BY <1>2, RefusedType DEF EngineEnds, Typed
  <2> QED
    BY <1>2, <2>1 DEF EngineEnds, Typed
<1>3. CASE EngineStarts
  BY <1>3 DEF EngineStarts, Typed
<1>4. CASE Cancel \/ Join \/ UNCHANGED vars
  BY <1>4 DEF Cancel, Join, Afterwards, vars, Typed
<1> QED
  BY <1>1, <1>2, <1>3, <1>4, ListenerTyped, RequestTyped, WindowTyped DEF Next

-----------------------------------------------------------------------------
(* offline_announced tells which announcement was the last, and while the    *)
(* listener has no connection, or has not yet got its answer, that was not   *)
(* connected, unless the window has closed.                                  *)
Turns ==
  /\ offlineAnnounced <=> announced = "disconnected"
  /\ pc \in {"connect", "wait"} /\ listening => announced # "connected"
  /\ pc = "answer" => announced # "connected"

LEMMA TurnsStep == Turns /\ [Next]_vars => Turns'
<1> SUFFICES ASSUME Turns, [Next]_vars PROVE Turns'
  OBVIOUS
<1> USE DEF Turns, tasks, wire, listener, window
<1>1. CASE Listener
  <2>1. CASE Connect
    BY <2>1 DEF Connect, Elsewhere, AnnounceOffline, Announce
  <2>2. CASE Lose
    BY <2>2 DEF Lose, Elsewhere, AnnounceOffline, Announce
  <2>3. CASE ReadAnswer \/ ReadEvents
    BY <2>3 DEF ReadAnswer, ReadEvents, Elsewhere, Announce
  <2>4. CASE Wait \/ TestListening \/ EnterRead \/ ReadFails
    BY <2>4 DEF Wait, TestListening, EnterRead, ReadFails, Elsewhere
  <2> QED
    BY <1>1, <2>1, <2>2, <2>3, <2>4 DEF Listener
<1>2. CASE AnswerSubscription \/ EngineEnds \/ EngineStarts \/ UserCommand \/ UNCHANGED vars
  <2>1. CASE EngineEnds
    BY <2>1 DEF EngineEnds
  <2> QED
    BY <1>2, <2>1 DEF AnswerSubscription, EngineStarts, UserCommand, vars
<1>3. ASSUME NEW r \in DOMAIN requests, RequestStep(r) PROVE Turns'
  BY <1>3 DEF RequestStep, Reach, Change, Snapshot, Broadcast, Answer, DispatchAnswer, Outside
<1>4. CASE HandleConnected \/ HandleDisconnected \/ HandleState \/ HandleStopAll \/ TrayExit
  BY <1>4 DEF HandleConnected, HandleDisconnected, HandleState, HandleStopAll, TrayExit, Quit, Beside
<1>5. CASE Cancel \/ Join
  BY <1>5 DEF Cancel, Join, Afterwards
<1> QED
  BY <1>1, <1>2, <1>3, <1>4, <1>5 DEF Next

-----------------------------------------------------------------------------
InTurn == \A kind \in {"connected", "disconnected"} :
            queue' = Append(queue, Task(kind, 0, 0)) => announced # kind

LEMMA AnnouncesInTurn == Typed /\ Turns /\ [Next]_vars => InTurn
<1> SUFFICES ASSUME Typed, Turns, [Next]_vars, NEW kind \in {"connected", "disconnected"},
                    queue' = Append(queue, Task(kind, 0, 0))
             PROVE  announced # kind
  BY DEF InTurn
<1>1. queue \in Seq(Tasks) /\ Task(kind, 0, 0) \in Tasks
  BY TaskType DEF Typed
<1>2. queue' # queue /\ queue' # <<>> /\ (queue # <<>> => queue' # Tail(queue))
  BY <1>1, Appended
<1>3. ASSUME NEW task \in Tasks, queue' = Append(queue, task) PROVE task = Task(kind, 0, 0) /\ task.kind = kind
  <2>1. task = Task(kind, 0, 0)
    BY <1>1, <1>3, Appended
  <2> QED
    BY <2>1 DEF Task
<1>4. \A k \in {"connected", "disconnected"} : Announce(k) => k = kind
  BY <1>3, TaskType DEF Announce, Task
<1>5. CASE Listener
  <2>1. CASE Connect \/ Lose
    BY <1>2, <1>4, <2>1 DEF Connect, Lose, AnnounceOffline, tasks, Turns
  <2>2. CASE ReadAnswer
    BY <1>4, <2>2 DEF ReadAnswer, Turns
  <2>3. CASE ReadEvents
    <3>1. PICK value \in Nat \union {Offline, Unknown, Garbled} : queue' = Append(queue, Task("event", value, 0))
      BY <2>3, FirstType DEF ReadEvents, Typed
    <3> QED
      BY <1>3, <3>1, TaskType DEF Task
  <2>4. CASE Wait \/ TestListening \/ EnterRead \/ ReadFails
    BY <1>2, <2>4 DEF Wait, TestListening, EnterRead, ReadFails, tasks
  <2> QED
    BY <1>5, <2>1, <2>2, <2>3, <2>4 DEF Listener
<1>6. ASSUME NEW r \in DOMAIN requests, RequestStep(r) PROVE announced # kind
  <2>1. CASE DispatchAnswer(r)
    <3>1. /\ r.kind \in {"list", "command", "stop_all"}
          /\ Task(r.kind, r.value, r.epoch) \in Tasks
      BY TaskType DEF Typed, Threads
    <3> QED
      BY <1>3, <2>1, <3>1 DEF DispatchAnswer, Task
  <2>2. CASE ~DispatchAnswer(r)
    BY <1>2, <1>6, <2>2 DEF RequestStep, Reach, Change, Snapshot, Broadcast, Answer, tasks
  <2> QED
    BY <2>1, <2>2
<1>7. CASE AnswerSubscription \/ EngineEnds \/ EngineStarts \/ UserCommand \/ Cancel \/ Join
           \/ UNCHANGED vars
  BY <1>2, <1>7 DEF AnswerSubscription, EngineEnds, EngineStarts, UserCommand, Cancel, Join, Afterwards,
                    vars, tasks
<1>8. CASE HandleConnected \/ HandleDisconnected \/ HandleState \/ HandleStopAll \/ TrayExit
  BY <1>2, <1>8 DEF HandleConnected, HandleDisconnected, HandleState, HandleStopAll, TrayExit, Quit, Takes
<1> QED
  BY <1>5, <1>6, <1>7, <1>8 DEF Next

(* listen: however connecting, reading, outages and the end of the window    *)
(* interleave, connected and disconnected are announced in turns.            *)
THEOREM AnnouncementsInTurn == Spec => AnnouncementsAlternate
<1>1. Init => Turns
  BY DEF Init, Turns
<1>2. Typed /\ Turns /\ [Next]_vars => [InTurn]_vars
  BY AnnouncesInTurn
<1> QED
  BY <1>1, <1>2, InitTyped, TypedStep, TurnsStep, PTL DEF Spec, AnnouncementsAlternate, InTurn

-----------------------------------------------------------------------------
(* A bag stays one.                                                          *)

LEMMA Least ==
  ASSUME NEW T \in SUBSET Nat, T # {}
  PROVE  \E n \in T : \A m \in T : n <= m
<1>1. PICK n \in T : \A m \in T : <<m, n>> \notin WF!OpToRel(<, Nat)
  BY WF!NatLessThanWellFounded, WF!WFMin
<1>2. \A m, k \in Nat : m < k => <<m, k>> \in WF!OpToRel(<, Nat)
  BY DEF WF!OpToRel
<1>3. \A m \in T : ~(m < n)
  BY <1>1, <1>2
<1> QED
  BY <1>3

LEMMA NumberInduction ==
  ASSUME NEW T \in SUBSET Nat, 0 \in T, \A n \in T : n + 1 \in T
  PROVE  T = Nat
<1> SUFFICES ASSUME Nat \ T # {} PROVE FALSE
  OBVIOUS
<1>1. PICK n \in Nat \ T : \A m \in Nat \ T : n <= m
  BY Least
<1>2. n # 0 /\ n - 1 \in Nat /\ n - 1 \notin Nat \ T
  BY <1>1
<1> QED
  BY <1>2

(* The recursive function MapThenSumSet is: it exists, and of positive       *)
(* numbers it makes positive ones.                                           *)
First(s) == CHOOSE x \in s : TRUE
Sums(B, S, g) == [s \in SUBSET S |-> IF s = {} THEN 0 ELSE B[First(s)] + g[s \ {First(s)}]]

Total(B, S) == MapThenSumSet(LAMBDA x : B[x], S)

LEMMA Smaller ==
  ASSUME NEW S, FS!IsFiniteSet(S), NEW s \in SUBSET S
  PROVE  /\ FS!Cardinality(s) \in Nat /\ (FS!Cardinality(s) = 0 <=> s = {})
         /\ s # {} => First(s) \in s /\ FS!Cardinality(s \ {First(s)}) = FS!Cardinality(s) - 1
<1>1. FS!IsFiniteSet(s)
  BY FS!FS_Subset
<1>2. FS!Cardinality(s) \in Nat /\ (FS!Cardinality(s) = 0 <=> s = {})
  BY <1>1, FS!FS_CardinalityType, FS!FS_EmptySet
<1>3. s # {} => First(s) \in s
  BY DEF First
<1>4. s # {} => FS!Cardinality(s \ {First(s)}) = FS!Cardinality(s) - 1
  BY <1>1, <1>3, FS!FS_RemoveElement
<1> QED
  BY <1>2, <1>3, <1>4

LEMMA SumsExist ==
  ASSUME NEW B, NEW S, FS!IsFiniteSet(S)
  PROVE  \E g : g = Sums(B, S, g)
<1> DEFINE Upto(n) == {s \in SUBSET S : FS!Cardinality(s) <= n}
           N == {n \in Nat : \E g : \A s \in Upto(n) : g[s] = Sums(B, S, g)[s]}
<1>1. 0 \in N
  <2> DEFINE g == [s \in SUBSET S |-> 0]
  <2>1. ASSUME NEW s \in Upto(0) PROVE s = {}
    <3>1. FS!Cardinality(s) \in Nat /\ (FS!Cardinality(s) = 0 <=> s = {})
      BY Smaller
    <3> QED
      BY <3>1
  <2>2. \A s \in Upto(0) : g[s] = Sums(B, S, g)[s]
    BY <2>1 DEF Sums
  <2> QED
    BY <2>2
<1>2. ASSUME NEW n \in N PROVE n + 1 \in N
  <2>1. PICK g : \A s \in Upto(n) : g[s] = Sums(B, S, g)[s]
    OBVIOUS
  <2> DEFINE h == Sums(B, S, g)
  <2>2. ASSUME NEW s \in Upto(n + 1) PROVE h[s] = Sums(B, S, h)[s]
    <3>1. CASE s = {}
      BY <3>1 DEF Sums
    <3>2. CASE s # {}
      <4>1. s \ {First(s)} \in Upto(n)
        BY <3>2, Smaller
      <4>2. g[s \ {First(s)}] = h[s \ {First(s)}]
        BY <2>1, <4>1
      <4>3. h[s] = B[First(s)] + g[s \ {First(s)}]
        BY <3>2 DEF Sums
      <4> HIDE DEF h
      <4> QED
        BY <3>2, <4>2, <4>3 DEF Sums
    <3> QED
      BY <3>1, <3>2
  <2> HIDE DEF h
  <2> QED
    BY <2>2
<1> HIDE DEF N
<1>3. N = Nat
  <2>1. N \in SUBSET Nat
    BY DEF N
  <2> QED
    BY <1>1, <1>2, <2>1, NumberInduction
<1>4. FS!Cardinality(S) \in N
  BY <1>3, FS!FS_CardinalityType
<1>5. PICK g : \A s \in Upto(FS!Cardinality(S)) : g[s] = Sums(B, S, g)[s]
  BY <1>4 DEF N
<1>6. \A s \in SUBSET S : s \in Upto(FS!Cardinality(S))
  BY FS!FS_Subset
<1> DEFINE h == [s \in SUBSET S |-> g[s]]
<1>7. h = Sums(B, S, h)
  <2>1. \A s \in SUBSET S : s \ {First(s)} \in SUBSET S
    OBVIOUS
  <2>2. \A s \in SUBSET S : Sums(B, S, g)[s] = Sums(B, S, h)[s]
    BY <2>1 DEF Sums
  <2> QED
    BY <1>5, <1>6, <2>2 DEF Sums
<1> QED
  BY <1>7

LEMMA SumPositive ==
  ASSUME NEW B, NEW S, FS!IsFiniteSet(S), S # {}, \A x \in S : B[x] \in Nat /\ B[x] > 0
  PROVE  Total(B, S) \in {n \in Nat : n > 0}
<1> DEFINE h == CHOOSE g : g = Sums(B, S, g)
<1>1. h = Sums(B, S, h)
  BY SumsExist
<1>2. Total(B, S) = h[S]
  BY DEF Total, MapThenSumSet, MapThenFoldSet, Sums, First
<1> HIDE DEF h
<1> DEFINE N == {n \in Nat : \A s \in SUBSET S : FS!Cardinality(s) <= n => h[s] \in Nat /\ (s # {} => h[s] > 0)}
<1>3. 0 \in N
  <2>1. h[{}] = 0
    BY <1>1 DEF Sums
  <2>2. ASSUME NEW s \in SUBSET S, FS!Cardinality(s) <= 0 PROVE s = {}
    <3>1. FS!Cardinality(s) \in Nat /\ (FS!Cardinality(s) = 0 <=> s = {})
      BY Smaller
    <3> QED
      BY <2>2, <3>1
  <2> QED
    BY <2>1, <2>2
<1>4. ASSUME NEW n \in N PROVE n + 1 \in N
  <2>1. ASSUME NEW s \in SUBSET S, FS!Cardinality(s) <= n + 1, s # {}
        PROVE  h[s] \in Nat /\ h[s] > 0
    <3>1. First(s) \in S /\ s \ {First(s)} \in SUBSET S /\ FS!Cardinality(s \ {First(s)}) <= n
      BY <2>1, Smaller
    <3>2. h[s \ {First(s)}] \in Nat
      BY <3>1
    <3>3. h[s] = B[First(s)] + h[s \ {First(s)}]
      BY <1>1, <2>1 DEF Sums
    <3> QED
      BY <3>1, <3>2, <3>3
  <2>2. h[{}] = 0
    BY <1>1 DEF Sums
  <2> QED
    BY <2>1, <2>2
<1> HIDE DEF N
<1>5. N = Nat
  <2>1. N \in SUBSET Nat
    BY DEF N
  <2> QED
    BY <1>3, <1>4, <2>1, NumberInduction
<1>6. FS!Cardinality(S) \in N
  BY <1>5, FS!FS_CardinalityType
<1> QED
  BY <1>2, <1>6, FS!FS_CardinalityType DEF N

ABag == IsABag(requests) /\ FS!IsFiniteSet(DOMAIN requests)

LEMMA BagAddIsABag ==
  ASSUME NEW B, NEW x, IsABag(B), FS!IsFiniteSet(DOMAIN B)
  PROVE  IsABag(BagAdd(B, x)) /\ FS!IsFiniteSet(DOMAIN BagAdd(B, x))
<1>1. DOMAIN BagAdd(B, x) = DOMAIN B \union {x}
  BY DEF BagAdd
<1>2. FS!IsFiniteSet(DOMAIN B \union {x})
  BY FS!FS_AddElement
<1>3. IsABag(BagAdd(B, x))
  BY DEF BagAdd, IsABag
<1> QED
  BY <1>1, <1>2, <1>3

LEMMA BagRemoveIsABag ==
  ASSUME NEW B, NEW x, IsABag(B), FS!IsFiniteSet(DOMAIN B)
  PROVE  IsABag(BagRemove(B, x)) /\ FS!IsFiniteSet(DOMAIN BagRemove(B, x))
<1>1. FS!IsFiniteSet(DOMAIN BagRemove(B, x))
  BY BagRemoveDomain, FS!FS_Subset
<1>2. IsABag(BagRemove(B, x))
  BY DEF BagRemove, IsABag
<1> QED
  BY <1>1, <1>2

LEMMA RefusedIsABag ==
  ASSUME ABag, EngineEnds
  PROVE  ABag'
<1> DEFINE D == DOMAIN requests
           R == {Refused(q) : q \in D}
           Q(r) == {q \in D : Refused(q) = r}
<1>1. requests' = [r \in R |-> Total(requests, Q(r))]
  BY DEF EngineEnds, Total
<1>2. FS!IsFiniteSet(D) /\ \A q \in D : requests[q] \in Nat /\ requests[q] > 0
  BY DEF ABag, IsABag
<1> HIDE DEF D
<1>3. FS!IsFiniteSet(R)
  <2> DEFINE f == [q \in D |-> Refused(q)]
  <2>1. f \in FS!Surjection(D, R)
    BY DEF FS!Surjection
  <2> QED
    BY <1>2, <2>1, FS!FS_Surjection
<1>4. ASSUME NEW r \in R
      PROVE  Total(requests, Q(r)) \in {n \in Nat : n > 0}
  <2>1. Q(r) # {} /\ Q(r) \in SUBSET D
    OBVIOUS
  <2>2. FS!IsFiniteSet(Q(r))
    BY <1>2, <2>1, FS!FS_Subset
  <2>3. \A q \in Q(r) : requests[q] \in Nat /\ requests[q] > 0
    BY <1>2
  <2> HIDE DEF Q
  <2> QED
    BY <2>1, <2>2, <2>3, SumPositive
<1>5. DOMAIN requests' = R /\ \A r \in R : requests'[r] \in {n \in Nat : n > 0}
  <2> HIDE DEF R, Q
  <2> QED
    BY <1>1, <1>4
<1>6. requests' \in [DOMAIN requests' -> {n \in Nat : n > 0}]
  <2> HIDE DEF R, Q
  <2>1. requests' = [r \in R |-> requests'[r]]
    BY <1>1
  <2> QED
    BY <1>5, <2>1
<1> QED
  BY <1>3, <1>5, <1>6 DEF ABag, IsABag

LEMMA ABagStep == ABag /\ [Next]_vars => ABag'
<1> SUFFICES ASSUME ABag, [Next]_vars PROVE ABag'
  OBVIOUS
<1>1. \A x : requests' = BagAdd(requests, x) => ABag'
  BY BagAddIsABag DEF ABag
<1>2. \A x : requests' = BagRemove(requests, x) => ABag'
  BY BagRemoveIsABag DEF ABag
<1>3. \A r, step, value : Becomes(r, step, value) => ABag'
  <2> SUFFICES ASSUME NEW r, NEW n, requests' = BagAdd(BagRemove(requests, r), n) PROVE ABag'
    BY DEF Becomes
  <2>1. IsABag(BagRemove(requests, r)) /\ FS!IsFiniteSet(DOMAIN BagRemove(requests, r))
    BY BagRemoveIsABag DEF ABag
  <2> HIDE DEF ABag
  <2> QED
    BY <2>1, BagAddIsABag DEF ABag
<1>4. requests' = requests => ABag'
  BY DEF ABag
<1>5. ASSUME NEW r \in DOMAIN requests, RequestStep(r) PROVE ABag'
  BY <1>2, <1>3, <1>5 DEF RequestStep, Reach, Change, Snapshot, Broadcast, Answer, DispatchAnswer, Goto
<1>6. CASE HandleStopAll \/ TrayExit
  <2>1. requests' = EmptyBag
    BY <1>6 DEF HandleStopAll, TrayExit, Quit
  <2>2. DOMAIN requests' = {}
    BY <2>1 DEF EmptyBag, SetToBag
  <2> QED
    BY <2>1, <2>2, FS!FS_EmptySet DEF ABag, IsABag, EmptyBag, SetToBag
<1>7. CASE HandleConnected \/ UserCommand
  BY <1>1, <1>7 DEF HandleConnected, UserCommand
<1>8. CASE Listener
  BY <1>4, <1>8 DEF Listener, Connect, Wait, ReadAnswer, TestListening, EnterRead, ReadEvents, ReadFails, Lose, Elsewhere
<1>9. CASE AnswerSubscription \/ EngineStarts \/ HandleDisconnected \/ HandleState \/ Cancel \/ Join \/ UNCHANGED vars
  BY <1>4, <1>9 DEF AnswerSubscription, EngineStarts, HandleDisconnected, HandleState, Cancel, Join, Afterwards, vars
<1> QED
  BY <1>5, <1>6, <1>7, <1>8, <1>9, RefusedIsABag DEF Next

LEMMA InitABag == Init => ABag
<1> SUFFICES ASSUME Init PROVE ABag
  OBVIOUS
<1>1. requests = [e \in {Request("list", 0)} |-> 1]
  BY DEF Init, SetToBag
<1>2. FS!IsFiniteSet({Request("list", 0)})
  BY FS!FS_Singleton
<1> QED
  BY <1>1, <1>2 DEF ABag, IsABag

-----------------------------------------------------------------------------
(* The connection, and what waits in it.  No event precedes the answer, and  *)
(* the read of the answer takes it with whatever came behind it.             *)
Wire ==
  /\ pc \in {"connect", "wait", "answer", "test", "enter", "reading", "lost", "ended"}
  /\ conn \in {"none", "open", "subscribed", "broken"}
  /\ pc \in {"connect", "wait", "ended"} <=> conn = "none"
  /\ conn \in {"none", "open"} => pipe = <<>>
  /\ conn = "open" => pc \in {"answer", "lost"}
  /\ conn \in {"open", "subscribed"} => up
  /\ pc \in {"test", "enter", "reading"} => pipe \in Seq(Nat)

LEMMA WireStep == Typed /\ Wire /\ [Next]_vars => Wire'
<1> SUFFICES ASSUME Typed, Wire, [Next]_vars PROVE Wire'
  OBVIOUS
<1>1. CASE UNCHANGED <<up, pc, conn, pipe>>
  BY <1>1 DEF Wire
<1>2. CASE Listener
  <2>1. up' = up /\ <<>> \in Seq(Nat)
    BY <1>2 DEF Listener, Connect, Wait, ReadAnswer, TestListening, EnterRead, ReadEvents, ReadFails, Lose,
                Elsewhere, engine
  <2>2. CASE Connect
    BY <2>1, <2>2 DEF Connect, Wire
  <2>3. CASE ReadAnswer \/ ReadEvents
    BY <2>1, <2>3 DEF ReadAnswer, ReadEvents, Wire
  <2>4. CASE Wait \/ TestListening \/ EnterRead \/ ReadFails
    BY <2>1, <2>4 DEF Wait, TestListening, EnterRead, ReadFails, wire, Wire
  <2>5. CASE Lose
    BY <2>1, <2>5 DEF Lose, Wire
  <2> QED
    BY <1>2, <2>2, <2>3, <2>4, <2>5 DEF Listener
<1>3. CASE AnswerSubscription
  BY <1>3 DEF AnswerSubscription, Wire, engine, listener
<1>4. CASE EngineEnds
  <2>1. UNCHANGED <<pc, pipe>> /\ up' = FALSE /\ conn' = IF conn = "none" THEN "none" ELSE "broken"
    BY <1>4 DEF EngineEnds, listener
  <2> QED
    BY <2>1 DEF Wire
<1>5. CASE EngineStarts
  BY <1>5 DEF EngineStarts, Wire, listener, wire
<1>6. ASSUME NEW r \in DOMAIN requests, RequestStep(r) PROVE Wire'
  <2>1. CASE Broadcast(r)
    <3>1. r.value \in Nat
      BY <2>1 DEF Typed, Threads, Broadcast
    <3>2. pipe \in Seq(Nat) => Append(pipe, r.value) \in Seq(Nat)
      BY <3>1
    <3> QED
      BY <2>1, <3>2 DEF Broadcast, Outside, engine, listener, Wire
  <2>2. CASE ~Broadcast(r)
    BY <1>1, <1>6, <2>2 DEF RequestStep, Reach, Change, Snapshot, Answer, DispatchAnswer, Outside, engine, listener
  <2> QED
    BY <2>1, <2>2
<1>7. CASE HandleConnected \/ HandleDisconnected \/ HandleState \/ HandleStopAll \/ TrayExit \/ UserCommand
  BY <1>1, <1>7 DEF HandleConnected, HandleDisconnected, HandleState, HandleStopAll, TrayExit, Quit, UserCommand,
                    Beside, engine, wire, listener
<1>8. CASE Cancel
  BY <1>8 DEF Cancel, Afterwards, Wire, engine, wire
<1>9. CASE Join \/ UNCHANGED vars
  BY <1>1, <1>9 DEF Join, Afterwards, engine, wire, listener, vars
<1> QED
  BY <1>2, <1>3, <1>4, <1>5, <1>6, <1>7, <1>8, <1>9 DEF Next

-----------------------------------------------------------------------------
(* What is queued: the window has nothing to show that is not a state of the *)
(* services, the failure of a request or a garbled text.                     *)
Posted == {t \in [kind : {"connected", "disconnected", "event", "list", "command", "stop_all"},
                  value : Nat \union {Offline, Garbled}, epoch : Nat] :
             t.kind = "event" => t.value # Offline}

Queued == queue \in Seq(Posted)

LEMMA PostedType ==
  \A kind \in {"connected", "disconnected", "event", "list", "command", "stop_all"},
     value \in Nat \union {Offline, Garbled}, e \in Nat :
     (kind = "event" => value # Offline) => Task(kind, value, e) \in Posted
BY DEF Task, Posted

(* What a step does to the queue.                                            *)
LEMMA QueueStep ==
  ASSUME Typed, Wire, [Next]_vars
  PROVE  \/ queue' = queue
         \/ \E t \in Posted : queue' = Append(queue, t)
         \/ queue # <<>> /\ queue' = Tail(queue)
         \/ queue' = <<>>
<1> DEFINE Appends == \E t \in Posted : queue' = Append(queue, t)
<1>1. CASE Listener
  <2>1. \A kind \in {"connected", "disconnected"} : Announce(kind) => Appends
    BY PostedType DEF Announce
  <2>2. CASE Connect \/ Lose
    BY <2>1, <2>2 DEF Connect, Lose, AnnounceOffline, tasks
  <2>3. CASE ReadAnswer
    BY <2>1, <2>3 DEF ReadAnswer
  <2>4. CASE ReadEvents
    <3>1. pipe \in Seq(Nat)
      BY <2>4 DEF ReadEvents, Wire
    <3>2. Len(pipe) = 1 => pipe[1] \in Nat
      BY <3>1, FirstType
    <3> DEFINE value == IF Len(pipe) = 1 THEN pipe[1] ELSE Garbled
    <3>3. value \in Nat \union {Garbled}
      BY <3>2
    <3>4. queue' = Append(queue, Task("event", value, 0))
      BY <2>4 DEF ReadEvents
    <3> HIDE DEF value
    <3>5. Task("event", value, 0) \in Posted
      BY <3>3 DEF Task, Posted
    <3> QED
      BY <3>4, <3>5
  <2>5. CASE Wait \/ TestListening \/ EnterRead \/ ReadFails
    BY <2>5 DEF Wait, TestListening, EnterRead, ReadFails, tasks
  <2> QED
    BY <1>1, <2>2, <2>3, <2>4, <2>5 DEF Listener
<1>2. ASSUME NEW r \in DOMAIN requests, RequestStep(r) PROVE queue' = queue \/ Appends
  <2>1. CASE DispatchAnswer(r)
    <3>1. Task(r.kind, r.value, r.epoch) \in Posted
      BY PostedType DEF Typed, Threads
    <3> QED
      BY <2>1, <3>1 DEF DispatchAnswer
  <2>2. CASE ~DispatchAnswer(r)
    BY <1>2, <2>2 DEF RequestStep, Reach, Change, Snapshot, Broadcast, Answer, tasks
  <2> QED
    BY <2>1, <2>2
<1>3. CASE EngineEnds
  BY <1>3 DEF EngineEnds, tasks
<1>4. CASE AnswerSubscription \/ EngineStarts \/ UserCommand \/ Cancel \/ Join \/ UNCHANGED vars
  BY <1>4 DEF AnswerSubscription, EngineStarts, UserCommand, Cancel, Join, Afterwards, vars, tasks
<1>5. CASE HandleConnected \/ HandleDisconnected \/ HandleState
  BY <1>5 DEF HandleConnected, HandleDisconnected, HandleState, Takes
<1>6. CASE HandleStopAll \/ TrayExit
  BY <1>6 DEF HandleStopAll, TrayExit, Quit
<1> QED
  BY <1>1, <1>2, <1>3, <1>4, <1>5, <1>6 DEF Next

LEMMA QueuedStep == Typed /\ Wire /\ Queued /\ [Next]_vars => Queued'
<1> SUFFICES ASSUME Typed, Wire, Queued, [Next]_vars PROVE Queued'
  OBVIOUS
<1>1. <<>> \in Seq(Posted) /\ (queue # <<>> => Tail(queue) \in Seq(Posted))
      /\ \A t \in Posted : Append(queue, t) \in Seq(Posted)
  BY DEF Queued
<1> QED
  BY <1>1, QueueStep DEF Queued

(* The variables that the code keeps besides.                                *)
Flags ==
  /\ up \in BOOLEAN /\ listening \in BOOLEAN /\ offlineAnnounced \in BOOLEAN
  /\ announced \in {"none", "connected", "disconnected"}
  /\ view \in Nat \union {Offline, Unknown} /\ ui \in {"run", "cancel", "join", "gone"}
  /\ garbled \in BOOLEAN /\ overtaken \in BOOLEAN /\ silent \in BOOLEAN /\ missed \in BOOLEAN
  /\ events \in 0..MaxEvents

LEMMA FlagsOffline ==
  ASSUME Flags, UNCHANGED <<up, listening, view, ui, garbled, overtaken, silent, missed, events>>,
         offlineAnnounced' = offlineAnnounced \/ offlineAnnounced' = TRUE,
         announced' = announced \/ announced' = "disconnected"
  PROVE  Flags'
<1>1. offlineAnnounced' \in BOOLEAN
  BY DEF Flags
<1>2. announced' \in {"none", "connected", "disconnected"}
  BY DEF Flags
<1>3. /\ up' \in BOOLEAN /\ listening' \in BOOLEAN
      /\ garbled' \in BOOLEAN /\ overtaken' \in BOOLEAN /\ silent' \in BOOLEAN /\ missed' \in BOOLEAN
  BY DEF Flags
<1>4. /\ view' \in Nat \union {Offline, Unknown} /\ ui' \in {"run", "cancel", "join", "gone"}
      /\ events' \in 0..MaxEvents
  BY DEF Flags
<1> QED
  BY <1>1, <1>2, <1>3, <1>4 DEF Flags

LEMMA FlagsStep == Queued /\ Flags /\ [Next]_vars => Flags'
<1> SUFFICES ASSUME Queued, Flags, [Next]_vars PROVE Flags'
  OBVIOUS
<1> USE DEF engine, wire, tasks, window, listener, Elsewhere, Outside, Beside
<1>1. CASE Listener
  <2>1. CASE Connect
    <3>1. UNCHANGED <<up, listening, view, ui, garbled, overtaken, silent, missed, events>>
      BY <2>1 DEF Connect
    <3>2. /\ offlineAnnounced' = offlineAnnounced \/ offlineAnnounced' = TRUE
          /\ announced' = announced \/ announced' = "disconnected"
      BY <2>1 DEF Connect, AnnounceOffline, Announce
    <3> QED
      BY <3>1, <3>2, FlagsOffline
  <2>2. CASE Lose
    <3>1. UNCHANGED <<up, listening, view, ui, garbled, overtaken, silent, missed, events>>
      BY <2>2 DEF Lose
    <3>2. /\ offlineAnnounced' = offlineAnnounced \/ offlineAnnounced' = TRUE
          /\ announced' = announced \/ announced' = "disconnected"
      BY <2>2 DEF Lose, AnnounceOffline, Announce
    <3> QED
      BY <3>1, <3>2, FlagsOffline
  <2>3. CASE ReadAnswer
    BY <2>3 DEF ReadAnswer, Announce, Flags
  <2>4. CASE ReadEvents
    <3>1. garbled' \in BOOLEAN
      BY <2>4 DEF ReadEvents, Flags
    <3> QED
      BY <2>4, <3>1 DEF ReadEvents, Flags
  <2>5. CASE Wait \/ TestListening \/ EnterRead \/ ReadFails
    BY <2>5 DEF Wait, TestListening, EnterRead, ReadFails, Flags
  <2> QED
    BY <1>1, <2>1, <2>2, <2>3, <2>4, <2>5 DEF Listener
<1>2. CASE AnswerSubscription \/ UNCHANGED vars
  BY <1>2 DEF AnswerSubscription, vars, Flags
<1>3. CASE EngineEnds
  <2>1. /\ up' = FALSE /\ events < MaxEvents /\ events' = events + 1
        /\ UNCHANGED <<listener, tasks, window, silent>>
    BY <1>3 DEF EngineEnds
  <2>2. events' \in 0..MaxEvents
    BY <2>1, BoundsAssumption DEF Flags
  <2>3. UNCHANGED <<listening, offlineAnnounced, announced, view, ui, garbled, overtaken, silent, missed>>
    BY <2>1
  <2> QED
    BY <2>1, <2>2, <2>3 DEF Flags
<1>4. CASE EngineStarts
  BY <1>4 DEF EngineStarts, Flags
<1>5. ASSUME NEW r \in DOMAIN requests, RequestStep(r) PROVE Flags'
  <2>1. CASE DispatchAnswer(r)
    BY <2>1 DEF DispatchAnswer, Flags
  <2>2. CASE Change(r)
    <3>1. UNCHANGED <<up, listening, offlineAnnounced, announced, view, ui, garbled, overtaken, missed, events>>
      BY <2>2 DEF Change
    <3>2. silent' = silent \/ silent' = TRUE
      BY <2>2 DEF Change
    <3>3. silent' \in BOOLEAN
      BY <3>2 DEF Flags
    <3> HIDE <1>5, <2>2, <3>2
    <3> QED
      BY <3>1, <3>3 DEF Flags
  <2>3. CASE Reach(r) \/ Snapshot(r) \/ Answer(r)
    BY <2>3 DEF Reach, Snapshot, Answer, Flags
  <2>4. CASE Broadcast(r)
    BY <2>4 DEF Broadcast, Flags
  <2> QED
    BY <1>5, <2>1, <2>2, <2>3, <2>4 DEF RequestStep
<1>6. CASE HandleConnected \/ HandleDisconnected
  BY <1>6 DEF HandleConnected, HandleDisconnected, ShowsNothing, Flags
<1>7. CASE HandleState
  <2>1. overtaken' \in BOOLEAN
    BY <1>7 DEF HandleState, ShowsNothing, Show, Flags
  <2>2. view' \in Nat \union {Offline, Unknown}
    <3>1. Head(queue) \in Posted
      BY <1>7 DEF HandleState, Takes, Queued
    <3> QED
      BY <1>7, <3>1 DEF HandleState, ShowsNothing, Show, Flags, Posted
  <2>3. UNCHANGED <<up, listening, offlineAnnounced, announced, ui, garbled, silent, missed, events>>
    BY <1>7 DEF HandleState
  <2> QED
    BY <2>1, <2>2, <2>3 DEF Flags
<1>8. CASE HandleStopAll \/ TrayExit
  <2>1. /\ UNCHANGED <<up, offlineAnnounced, announced, view, garbled, overtaken, silent, missed, events>>
        /\ listening' = listening \/ listening' = FALSE
        /\ ui' \in {"run", "cancel"}
    BY <1>8 DEF HandleStopAll, TrayExit, Quit, ShowsNothing
  <2>2. listening' \in BOOLEAN /\ ui' \in {"run", "cancel", "join", "gone"}
    BY <2>1 DEF Flags
  <2> QED
    BY <2>1, <2>2 DEF Flags
<1>9. CASE UserCommand
  <2>1. events' \in 0..MaxEvents
    BY <1>9, BoundsAssumption DEF UserCommand, Flags
  <2> QED
    BY <1>9, <2>1 DEF UserCommand, Flags
<1>10. CASE Cancel \/ Join
  <2>1. missed' \in BOOLEAN
    BY <1>10 DEF Cancel, Join, Flags
  <2> QED
    BY <1>10, <2>1 DEF Cancel, Join, Afterwards, Flags
<1> QED
  BY <1>1, <1>2, <1>3, <1>4, <1>5, <1>6, <1>7, <1>8, <1>9, <1>10 DEF Next

LEMMA WiderSeq == ASSUME NEW S, NEW T, S \subseteq T, NEW q \in Seq(S) PROVE q \in Seq(T)
OBVIOUS

Sound == Typed /\ ABag /\ Wire /\ Queued /\ Flags

LEMMA InitSound == Init => Sound
<1> SUFFICES ASSUME Init PROVE Sound
  OBVIOUS
<1>1. Wire /\ Queued
  BY DEF Init, Wire, Queued
<1>2. events \in 0..MaxEvents
  BY BoundsAssumption DEF Init
<1>3. Flags
  BY <1>2 DEF Init, Flags
<1> QED
  BY <1>1, <1>3, InitTyped, InitABag DEF Sound

LEMMA SoundStep == Sound /\ [Next]_vars => Sound'
BY TypedStep, ABagStep, WireStep, QueuedStep, FlagsStep DEF Sound

LEMMA SoundSpec == Spec => []Sound
BY InitSound, SoundStep, PTL DEF Spec

(* appytizer-ui: the types of the variables; what waits in the pipe, in the  *)
(* queue and in the threads are states of services, failures and texts that  *)
(* cannot be read, and while there is no connection nothing reads from one.  *)
THEOREM TypeCorrect == Spec => []TypeOK
<1>1. Sound => TypeOK
  <2> SUFFICES ASSUME Sound PROVE TypeOK
    OBVIOUS
  <2>1. queue \in Seq([kind : {"connected", "disconnected", "event", "list", "command", "stop_all"},
                       value : Nat \union {Offline, Garbled}, epoch : Nat])
    <3>1. Posted \subseteq [kind : {"connected", "disconnected", "event", "list", "command", "stop_all"},
                            value : Nat \union {Offline, Garbled}, epoch : Nat]
      BY DEF Posted
    <3> QED
      BY <3>1, WiderSeq DEF Sound, Queued
  <2>2. DOMAIN requests \subseteq [kind : {"list", "command", "stop_all"}, value : Nat \union {Offline},
                                   step : Steps, epoch : Nat]
    BY DEF Sound, Typed, Threads
  <2> QED
    BY <2>1, <2>2 DEF Sound, Typed, ABag, Wire, Flags, TypeOK, Steps
<1> QED
  BY <1>1, SoundSpec, PTL

-----------------------------------------------------------------------------
(* What is in a sequence, and which threads there are after a step of one.   *)
Elems(q) == {q[i] : i \in DOMAIN q}

LEMMA ElemsOf ==
  ASSUME NEW S, NEW q \in Seq(S)
  PROVE  /\ Elems(q) \subseteq S /\ Elems(<<>>) = {}
         /\ \A x \in S : Elems(Append(q, x)) = Elems(q) \union {x}
         /\ q # <<>> => Head(q) \in S /\ Elems(Tail(q)) \subseteq Elems(q) /\ Elems(q) = Elems(Tail(q)) \union {Head(q)}
<1>1. Elems(q) \subseteq S /\ Elems(<<>>) = {}
  BY DEF Elems
<1>2. ASSUME NEW x \in S PROVE Elems(Append(q, x)) = Elems(q) \union {x}
  <2>1. /\ DOMAIN Append(q, x) = DOMAIN q \union {Len(q) + 1} /\ Append(q, x)[Len(q) + 1] = x
        /\ \A i \in DOMAIN q : Append(q, x)[i] = q[i]
    OBVIOUS
  <2> QED
    BY <2>1 DEF Elems
<1>3. ASSUME q # <<>>
      PROVE  Head(q) \in S /\ Elems(Tail(q)) \subseteq Elems(q) /\ Elems(q) = Elems(Tail(q)) \union {Head(q)}
  <2>1. /\ Head(q) \in S /\ Head(q) = q[1] /\ 1 \in DOMAIN q
        /\ \A i \in DOMAIN Tail(q) : i + 1 \in DOMAIN q /\ Tail(q)[i] = q[i + 1]
    BY <1>3
  <2>2. \A i \in DOMAIN q : i = 1 \/ (i - 1 \in DOMAIN Tail(q) /\ Tail(q)[i - 1] = q[i])
    BY <1>3
  <2> QED
    BY <2>1, <2>2 DEF Elems
<1> QED
  BY <1>1, <1>2, <1>3

LEMMA Becoming ==
  ASSUME NEW r \in DOMAIN requests, NEW step, NEW value, Becomes(r, step, value)
  PROVE  LET n == [r EXCEPT !.step = step, !.value = value]
         IN  /\ n \in DOMAIN requests' /\ DOMAIN requests' \subseteq DOMAIN requests \union {n}
             /\ \A q \in DOMAIN requests : q # r => q \in DOMAIN requests'
<1> DEFINE n == [r EXCEPT !.step = step, !.value = value]
<1>1. DOMAIN requests' = DOMAIN BagRemove(requests, r) \union {n}
  BY DEF Becomes, BagAdd
<1>2. /\ DOMAIN BagRemove(requests, r) \subseteq DOMAIN requests
      /\ \A q \in DOMAIN requests : q # r => q \in DOMAIN BagRemove(requests, r)
  BY DEF BagRemove
<1> QED
  BY <1>1, <1>2

LEMMA Leaving ==
  \A B, r : \A q \in DOMAIN B : q # r => q \in DOMAIN BagRemove(B, r)
BY DEF BagRemove

LEMMA Arriving == \A B, r : DOMAIN BagAdd(B, r) = DOMAIN B \union {r}
BY DEF BagAdd

-----------------------------------------------------------------------------
(* Nothing is ahead of the services or of the window: what waits anywhere is *)
(* a state the services have been in, and an epoch is one that has begun.    *)
PastThreads == \A r \in DOMAIN requests : r.value <= status /\ r.epoch <= epoch
PastTasks == \A t \in Elems(queue) : t.value <= status /\ t.epoch <= epoch
PastEvents == \A x \in Elems(pipe) : x <= status
Past == PastThreads /\ PastTasks /\ PastEvents /\ view <= status

LEMMA PastListener == Sound /\ Past /\ Listener => Past'
<1> SUFFICES ASSUME Sound, Past, Listener PROVE Past'
  OBVIOUS
<1>1. UNCHANGED <<status, epoch, requests, view>>
  BY DEF Listener, Connect, Wait, ReadAnswer, TestListening, EnterRead, ReadEvents, ReadFails, Lose,
         Elsewhere, engine, window
<1>2. pipe' = pipe \/ pipe' = <<>>
  BY DEF Listener, Connect, Wait, ReadAnswer, TestListening, EnterRead, ReadEvents, ReadFails, Lose,
         Elsewhere, wire
<1>3. status \in Nat /\ epoch \in Nat /\ pipe \in Seq(Nat \union {Unknown}) /\ queue \in Seq(Posted)
  BY DEF Sound, Typed, Queued
<1>4. PastEvents'
  BY <1>1, <1>2, <1>3, ElemsOf DEF Past, PastEvents
<1>5. \/ queue' = queue
      \/ \E t \in Posted : queue' = Append(queue, t) /\ t.value <= status /\ t.epoch <= epoch
  <2> DEFINE Appends == \E t \in Posted : queue' = Append(queue, t) /\ t.value <= status /\ t.epoch <= epoch
  <2>1. ASSUME NEW kind \in {"connected", "disconnected"}, Announce(kind) PROVE Appends
    <3>1. Task(kind, 0, 0) \in Posted /\ Task(kind, 0, 0).value = 0 /\ Task(kind, 0, 0).epoch = 0
      BY DEF Task, Posted
    <3> QED
      BY <1>3, <2>1, <3>1 DEF Announce
  <2>2. CASE Connect \/ Lose
    BY <2>1, <2>2 DEF Connect, Lose, AnnounceOffline, tasks
  <2>3. CASE ReadAnswer
    BY <2>1, <2>3 DEF ReadAnswer
  <2>4. CASE ReadEvents
    <3>1. pipe \in Seq(Nat)
      BY <2>4 DEF ReadEvents, Wire, Sound
    <3>2. Len(pipe) = 1 => pipe[1] \in Nat /\ pipe[1] \in Elems(pipe)
      BY <3>1 DEF Elems
    <3>3. Len(pipe) = 1 => pipe[1] <= status
      BY <3>2 DEF Past, PastEvents
    <3> DEFINE value == IF Len(pipe) = 1 THEN pipe[1] ELSE Garbled
    <3>4. value \in Nat \union {Garbled} /\ value <= status
      BY <1>3, <3>2, <3>3
    <3>5. queue' = Append(queue, Task("event", value, 0))
      BY <2>4 DEF ReadEvents
    <3> HIDE DEF value
    <3>6. /\ Task("event", value, 0) \in Posted
          /\ Task("event", value, 0).value = value /\ Task("event", value, 0).epoch = 0
      BY <3>4 DEF Task, Posted
    <3> QED
      BY <1>3, <3>4, <3>5, <3>6
  <2>5. CASE Wait \/ TestListening \/ EnterRead \/ ReadFails
    BY <2>5 DEF Wait, TestListening, EnterRead, ReadFails, tasks
  <2> QED
    BY <2>2, <2>3, <2>4, <2>5 DEF Listener
<1>6. PastTasks'
  <2>1. ASSUME NEW t \in Posted, queue' = Append(queue, t), t.value <= status, t.epoch <= epoch
        PROVE  PastTasks'
    <3>1. Elems(queue') = Elems(queue) \union {t}
      BY <1>3, <2>1, ElemsOf
    <3> QED
      BY <1>1, <2>1, <3>1 DEF Past, PastTasks
  <2>2. CASE queue' = queue
    BY <1>1, <2>2 DEF Past, PastTasks
  <2> QED
    BY <1>5, <2>1, <2>2
<1> QED
  BY <1>1, <1>4, <1>6 DEF Past, PastThreads

LEMMA PastRequest == ASSUME Sound, Past, NEW r \in DOMAIN requests, RequestStep(r) PROVE Past'
<1>1. /\ r \in Threads /\ r.value \in Nat \union {Offline} /\ r.epoch \in Nat /\ r.value <= status /\ r.epoch <= epoch
      /\ r.kind \in {"list", "command", "stop_all"} /\ (r.value = Offline => r.step = "dispatch")
  BY DEF Sound, Typed, Threads, Past, PastThreads
<1>2. /\ status \in Nat /\ epoch \in Nat /\ pipe \in Seq(Nat \union {Unknown}) /\ queue \in Seq(Posted)
      /\ view \in Nat \union {Offline, Unknown}
  BY DEF Sound, Typed, Queued, Flags
<1>3. UNCHANGED <<epoch, view>> /\ (status' = status \/ status' = status + 1)
  BY DEF RequestStep, Reach, Change, Snapshot, Broadcast, Answer, DispatchAnswer, Outside, window, engine
<1>4. view' <= status'
  BY <1>2, <1>3 DEF Past
<1>5. PastThreads'
  <2>1. \A q \in DOMAIN requests : q.value <= status' /\ q.epoch <= epoch'
    <3>1. \A q \in DOMAIN requests : q.value \in Int
      BY DEF Sound, Typed, Threads
    <3> QED
      BY <1>2, <1>3, <3>1 DEF Past, PastThreads
  <2>2. \/ requests' = BagRemove(requests, r)
        \/ \E step \in Steps, value \in {r.value, Offline, status} : Becomes(r, step, value)
    BY DEF RequestStep, Reach, Change, Snapshot, Broadcast, Answer, DispatchAnswer, Goto, Steps
  <2>3. CASE requests' = BagRemove(requests, r)
    BY <2>1, <2>3, BagRemoveDomain DEF PastThreads
  <2>4. ASSUME NEW step \in Steps, NEW value \in {r.value, Offline, status}, Becomes(r, step, value)
        PROVE  PastThreads'
    <3> DEFINE n == [r EXCEPT !.step = step, !.value = value]
    <3>1. n.value = value /\ n.epoch = r.epoch
      BY <1>1 DEF Threads
    <3>2. n.value <= status' /\ n.epoch <= epoch'
      BY <1>1, <1>2, <1>3, <3>1
    <3>3. DOMAIN requests' \subseteq DOMAIN requests \union {n}
      BY <2>4, Becoming
    <3> HIDE DEF n
    <3> QED
      BY <2>1, <3>2, <3>3 DEF PastThreads
  <2> QED
    BY <2>2, <2>3, <2>4
<1>6. PastTasks'
  <2>1. \A t \in Elems(queue) : t.value <= status' /\ t.epoch <= epoch'
    <3>1. \A t \in Elems(queue) : t.value \in Int
      BY <1>2, ElemsOf DEF Posted
    <3> QED
      BY <1>2, <1>3, <3>1 DEF Past, PastTasks
  <2>2. CASE DispatchAnswer(r)
    <3> DEFINE t == Task(r.kind, r.value, r.epoch)
    <3>1. t \in Posted /\ t.value = r.value /\ t.epoch = r.epoch
      BY <1>1 DEF Task, Posted
    <3>2. t.value <= status' /\ t.epoch <= epoch'
      BY <1>1, <1>2, <1>3, <3>1
    <3>3. queue' = Append(queue, t)
      BY <2>2 DEF DispatchAnswer
    <3> HIDE DEF t
    <3>4. Elems(queue') = Elems(queue) \union {t}
      BY <1>2, <3>1, <3>3, ElemsOf
    <3> QED
      BY <2>1, <3>2, <3>4 DEF PastTasks
  <2>3. CASE ~DispatchAnswer(r)
    <3>1. queue' = queue
      BY <2>3 DEF RequestStep, Reach, Change, Snapshot, Broadcast, Answer, tasks
    <3> QED
      BY <2>1, <3>1 DEF PastTasks
  <2> QED
    BY <2>2, <2>3
<1>7. PastEvents'
  <2>1. \A x \in Elems(pipe) : x <= status'
    <3>1. \A x \in Elems(pipe) : x \in Int
      BY <1>2, ElemsOf
    <3> QED
      BY <1>2, <1>3, <3>1 DEF Past, PastEvents
  <2>2. pipe' = pipe \/ pipe' = Append(pipe, r.value)
    BY DEF RequestStep, Reach, Change, Snapshot, Broadcast, Answer, DispatchAnswer
  <2>3. CASE pipe' = Append(pipe, r.value) /\ pipe' # pipe
    <3>1. r.value \in Nat
      BY <1>1, <2>3 DEF RequestStep, Reach, Change, Snapshot, Broadcast, Answer, DispatchAnswer
    <3>2. Elems(pipe') = Elems(pipe) \union {r.value}
      BY <1>2, <2>3, <3>1, ElemsOf
    <3>3. r.value <= status'
      BY <1>1, <1>2, <1>3
    <3> QED
      BY <2>1, <3>2, <3>3 DEF PastEvents
  <2> QED
    BY <2>1, <2>2, <2>3 DEF PastEvents
<1> QED
  BY <1>4, <1>5, <1>6, <1>7 DEF Past

(* One task is taken off the queue.                                          *)
LEMMA Taken ==
  ASSUME Sound, Takes
  PROVE  /\ Head(queue) \in Posted /\ Head(queue) \in Elems(queue)
         /\ Elems(queue') \subseteq Elems(queue) /\ Elems(queue) = Elems(queue') \union {Head(queue)}
<1>1. queue \in Seq(Posted) /\ queue # <<>> /\ queue' = Tail(queue)
  BY DEF Sound, Queued, Takes
<1> QED
  BY <1>1, ElemsOf

LEMMA RequestParts ==
  \A kind \in {"list", "command", "stop_all"}, e \in Nat :
     /\ Request(kind, e).kind = kind /\ Request(kind, e).value = 0
     /\ Request(kind, e).step = "connect" /\ Request(kind, e).epoch = e
BY DEF Request

LEMMA PastWindow ==
  ASSUME Sound, Past,
         HandleConnected \/ HandleDisconnected \/ HandleState \/ HandleStopAll \/ TrayExit \/ UserCommand
  PROVE  Past'
<1>1. /\ status \in Nat /\ epoch \in Nat /\ view \in Nat \union {Offline, Unknown}
      /\ \A r \in DOMAIN requests : r.epoch \in Nat
      /\ \A t \in Elems(queue) : t.epoch \in Nat
  BY ElemsOf DEF Sound, Typed, Threads, Flags, Queued, Posted
<1>2. UNCHANGED <<status, pipe>>
  BY DEF HandleConnected, HandleDisconnected, HandleState, HandleStopAll, TrayExit, UserCommand, Quit,
         Beside, engine, wire
<1>3. PastEvents'
  BY <1>2 DEF Past, PastEvents
<1>4. Takes => \A t \in Elems(queue') : t.value <= status /\ t.epoch <= epoch
  BY Taken DEF Past, PastTasks
<1>5. CASE HandleConnected
  <2>1. Takes /\ epoch' = epoch + 1 /\ view' = view /\ requests' = BagAdd(requests, Request("list", epoch + 1))
    BY <1>5 DEF HandleConnected, ShowsNothing
  <2>2. PastTasks'
    <3>1. \A t \in Elems(queue') : t.epoch \in Nat
      BY <1>1, <2>1, Taken
    <3> QED
      BY <1>1, <1>2, <1>4, <2>1, <3>1 DEF PastTasks
  <2>3. PastThreads'
    <3> DEFINE n == Request("list", epoch + 1)
    <3>1. n.value = 0 /\ n.epoch = epoch + 1
      BY <1>1, RequestParts
    <3>2. DOMAIN requests' = DOMAIN requests \union {n}
      BY <2>1, Arriving
    <3> HIDE DEF n
    <3> QED
      BY <1>1, <1>2, <2>1, <3>1, <3>2 DEF Past, PastThreads
  <2> QED
    BY <1>2, <1>3, <2>1, <2>2, <2>3 DEF Past
<1>6. CASE HandleDisconnected
  <2>1. Takes /\ view' = Offline /\ UNCHANGED <<requests, epoch>>
    BY <1>6 DEF HandleDisconnected
  <2>2. PastTasks'
    BY <1>2, <1>4, <2>1 DEF PastTasks
  <2> QED
    BY <1>1, <1>2, <1>3, <2>1, <2>2 DEF Past, PastThreads
<1>7. CASE HandleState
  <2>1. Takes /\ view' \in {view, Head(queue).value} /\ UNCHANGED <<requests, epoch>>
    BY <1>7 DEF HandleState, ShowsNothing, Show
  <2>2. PastTasks'
    BY <1>2, <1>4, <2>1 DEF PastTasks
  <2>3. Head(queue).value <= status
    BY <2>1, Taken DEF Past, PastTasks
  <2>4. view' <= status'
    BY <1>2, <2>1, <2>3 DEF Past
  <2> QED
    BY <1>2, <1>3, <2>1, <2>2, <2>4 DEF Past, PastThreads
<1>8. CASE HandleStopAll \/ TrayExit
  <2>1. queue' = <<>> /\ requests' = EmptyBag /\ UNCHANGED <<epoch, view>>
    BY <1>8 DEF HandleStopAll, TrayExit, Quit, ShowsNothing
  <2>2. Elems(queue') = {} /\ DOMAIN requests' = {}
    BY <2>1 DEF Elems, EmptyBag, SetToBag
  <2> QED
    BY <1>2, <1>3, <2>1, <2>2 DEF Past, PastThreads, PastTasks
<1>9. CASE UserCommand
  <2>1. UNCHANGED <<queue, epoch, view>>
    BY <1>9 DEF UserCommand, tasks
  <2>2. PICK kind \in {"command", "stop_all"} : requests' = BagAdd(requests, Request(kind, 0))
    BY <1>9 DEF UserCommand
  <2>3. PastThreads'
    <3> DEFINE n == Request(kind, 0)
    <3>1. n.value = 0 /\ n.epoch = 0
      BY RequestParts
    <3>2. DOMAIN requests' = DOMAIN requests \union {n}
      BY <2>2, Arriving
    <3> HIDE DEF n
    <3> QED
      BY <1>1, <1>2, <2>1, <3>1, <3>2 DEF Past, PastThreads
  <2> QED
    BY <1>2, <1>3, <2>1, <2>3 DEF Past, PastTasks
<1> QED
  BY <1>5, <1>6, <1>7, <1>8, <1>9

LEMMA PastStep == Sound /\ Past /\ [Next]_vars => Past'
<1> SUFFICES ASSUME Sound, Past, [Next]_vars PROVE Past'
  OBVIOUS
<1>1. CASE AnswerSubscription
  <2>1. pipe' = <<Unknown>> /\ UNCHANGED <<status, epoch, view, requests, queue>>
    BY <1>1 DEF AnswerSubscription, engine, tasks, window
  <2>2. Elems(pipe') = {Unknown} /\ status \in Nat
    BY <2>1 DEF Elems, Sound, Typed
  <2> QED
    BY <2>1, <2>2 DEF Past, PastThreads, PastTasks, PastEvents
<1>2. CASE EngineEnds
  <2>1. UNCHANGED <<status, epoch, view, queue, pipe>>
    BY <1>2 DEF EngineEnds, tasks, window
  <2>2. PastThreads'
    <3>1. \A n \in DOMAIN requests' : \E q \in DOMAIN requests : n = Refused(q)
      BY <1>2 DEF EngineEnds
    <3>2. ASSUME NEW q \in DOMAIN requests
          PROVE  Refused(q).value <= status /\ Refused(q).epoch <= epoch
      <4>1. q.value <= status /\ q.epoch <= epoch /\ q \in Threads /\ status \in Nat
        BY DEF Past, PastThreads, Sound, Typed
      <4> QED
        BY <4>1 DEF Refused, Threads
    <3> QED
      BY <2>1, <3>1, <3>2 DEF PastThreads
  <2> QED
    BY <2>1, <2>2 DEF Past, PastTasks, PastEvents
<1>3. CASE EngineStarts
  <2>1. status' = status + 1 /\ UNCHANGED <<epoch, view, requests, queue, pipe>>
    BY <1>3 DEF EngineStarts, tasks, window, wire
  <2>2. /\ status \in Nat /\ view \in Int /\ \A r \in DOMAIN requests : r.value \in Int
        /\ (\A t \in Elems(queue) : t.value \in Int) /\ \A x \in Elems(pipe) : x \in Int
    BY ElemsOf DEF Sound, Typed, Threads, Flags, Queued, Posted
  <2> QED
    BY <2>1, <2>2 DEF Past, PastThreads, PastTasks, PastEvents
<1>4. CASE Cancel \/ Join \/ UNCHANGED vars
  <2>1. UNCHANGED <<status, epoch, view, requests, queue, pipe>>
    BY <1>4 DEF Cancel, Join, Afterwards, vars, engine, wire, tasks, window
  <2> QED
    BY <2>1 DEF Past, PastThreads, PastTasks, PastEvents
<1> QED
  BY <1>1, <1>2, <1>3, <1>4, PastListener, PastRequest, PastWindow DEF Next

-----------------------------------------------------------------------------
(* While the window's listener waits for events of a subscription, either    *)
(* the window has still to hear of the connection, and then it refreshes, or *)
(* the present state is on its way: a request will fetch it, the Engine is   *)
(* about to publish it, or it waits in an answer, in the queue or the pipe.  *)
Watching == ui = "run" /\ conn = "subscribed" /\ pc \in {"test", "enter", "reading"}

(* No announcement of an outage is queued behind that of the connection.     *)
Heard == \A i \in DOMAIN queue : queue[i].kind = "disconnected" =>
            \E j \in DOMAIN queue : j > i /\ queue[j].kind = "connected"

ToHear == \E t \in Elems(queue) : t.kind = "connected"

(* The refreshes that failed are those of connections before this one.       *)
OlderThreads == \A r \in DOMAIN requests : r.kind = "list" /\ r.value = Offline => r.epoch < epoch
OlderTasks == \A t \in Elems(queue) : t.kind = "list" /\ t.value = Offline => t.epoch < epoch

Carries(r) ==
  \/ r.kind = "list" /\ r.step = "connect"
  \/ r.step \in {"snapshot", "broadcast", "answer"}
  \/ r.step = "dispatch" /\ r.value = status
Fetched == \E r \in DOMAIN requests : Carries(r)
Waiting == \E t \in Elems(queue) : t.kind \in {"event", "list", "command", "stop_all"} /\ t.value = status
OnItsWay == Fetched \/ Waiting \/ status \in Elems(pipe) \/ view = status

Excused == garbled \/ overtaken \/ silent
Follows == Watching => Heard /\ (ToHear \/ (OlderThreads /\ OlderTasks /\ (Excused \/ OnItsWay)))

LEMMA HeardStep ==
  ASSUME queue \in Seq(Posted)
  PROVE  /\ Heard => \A t \in Posted : t.kind # "disconnected" /\ queue' = Append(queue, t) => Heard'
         /\ \A t \in Posted : t.kind = "connected" /\ queue' = Append(queue, t) => Heard'
         /\ Heard /\ queue # <<>> /\ queue' = Tail(queue) => Heard'
         /\ Heard /\ queue # <<>> /\ queue' = Tail(queue) /\ Head(queue).kind = "disconnected" => ToHear'
<1>1. ASSUME NEW t \in Posted, queue' = Append(queue, t)
      PROVE  /\ DOMAIN queue' = DOMAIN queue \union {Len(queue) + 1} /\ queue'[Len(queue) + 1] = t
             /\ \A i \in DOMAIN queue : queue'[i] = queue[i] /\ i < Len(queue) + 1
  BY <1>1
<1>2. ASSUME queue # <<>>, queue' = Tail(queue)
      PROVE  /\ \A i \in DOMAIN queue' : i + 1 \in DOMAIN queue /\ queue'[i] = queue[i + 1] /\ i \in Nat
             /\ \A i \in DOMAIN queue : i > 1 => i - 1 \in DOMAIN queue' /\ queue'[i - 1] = queue[i]
             /\ 1 \in DOMAIN queue /\ Head(queue) = queue[1] /\ DOMAIN queue \subseteq Nat
  BY <1>2
<1>3. ASSUME Heard, NEW t \in Posted, t.kind # "disconnected", queue' = Append(queue, t) PROVE Heard'
  BY <1>1, <1>3 DEF Heard
<1>4. ASSUME NEW t \in Posted, t.kind = "connected", queue' = Append(queue, t) PROVE Heard'
  BY <1>1, <1>4 DEF Heard
<1>5. ASSUME Heard, queue # <<>>, queue' = Tail(queue) PROVE Heard'
  <2> SUFFICES ASSUME NEW i \in DOMAIN queue', queue'[i].kind = "disconnected"
               PROVE  \E j \in DOMAIN queue' : j > i /\ queue'[j].kind = "connected"
    BY DEF Heard
  <2>1. PICK j \in DOMAIN queue : j > i + 1 /\ queue[j].kind = "connected"
    BY <1>2, <1>5 DEF Heard
  <2>2. j - 1 \in DOMAIN queue' /\ queue'[j - 1] = queue[j] /\ j - 1 > i
    BY <1>2, <1>5, <2>1
  <2> QED
    BY <2>1, <2>2
<1>6. ASSUME Heard, queue # <<>>, queue' = Tail(queue), Head(queue).kind = "disconnected" PROVE ToHear'
  <2>1. PICK j \in DOMAIN queue : j > 1 /\ queue[j].kind = "connected"
    BY <1>2, <1>6 DEF Heard
  <2>2. j - 1 \in DOMAIN queue' /\ queue'[j - 1] = queue[j]
    BY <1>2, <1>6, <2>1
  <2> QED
    BY <2>1, <2>2 DEF ToHear, Elems
<1> QED
  BY <1>3, <1>4, <1>5, <1>6

LEMMA NotEmpty == ASSUME NEW S, NEW q \in Seq(S), q # <<>> PROVE Len(q) = 1 \/ Len(q) > 1
<1>1. Len(q) \in Nat
  OBVIOUS
<1>2. Len(q) > 0
  OBVIOUS
<1>3. \A n \in Nat : n > 0 => n = 1 \/ n > 1
  OBVIOUS
<1> QED
  BY <1>1, <1>2, <1>3

LEMMA FollowsListener == Sound /\ Follows /\ Listener => Follows'
<1> SUFFICES ASSUME Sound, Follows, Listener, Watching' PROVE Follows'
  BY DEF Follows
<1>1. UNCHANGED <<status, ui, epoch, view, overtaken, silent, requests>>
  BY DEF Listener, Connect, Wait, ReadAnswer, TestListening, EnterRead, ReadEvents, ReadFails, Lose,
         Elsewhere, engine, window
<1>2. queue \in Seq(Posted)
  BY DEF Sound, Queued
<1>3. CASE Connect \/ Wait \/ ReadFails \/ Lose
  BY <1>3 DEF Connect, Wait, ReadFails, Lose, Watching
<1>4. CASE ReadAnswer
  <2> DEFINE t == Task("connected", 0, 0)
  <2>1. t \in Posted /\ t.kind = "connected"
    BY DEF Task, Posted
  <2>2. queue' = Append(queue, t)
    BY <1>4 DEF ReadAnswer, Announce
  <2> HIDE DEF t
  <2>3. Heard'
    BY <1>2, <2>1, <2>2, HeardStep
  <2>4. ToHear'
    BY <1>2, <2>1, <2>2, ElemsOf DEF ToHear
  <2> QED
    BY <2>3, <2>4 DEF Follows
<1>5. CASE TestListening \/ EnterRead
  <2>1. Watching /\ UNCHANGED <<queue, pipe, garbled>>
    BY <1>1, <1>5 DEF TestListening, EnterRead, Watching, wire, tasks
  <2> QED
    BY <1>1, <2>1 DEF Follows, Heard, ToHear, OlderThreads, OlderTasks, Excused, OnItsWay, Fetched, Carries, Waiting
<1>6. CASE ReadEvents
  <2>1. Watching /\ garbled' = (garbled \/ Len(pipe) > 1) /\ pipe # <<>>
    BY <1>1, <1>6 DEF ReadEvents, Watching
  <2>2. pipe \in Seq(Nat) /\ status \in Nat
    BY <1>6 DEF ReadEvents, Sound, Wire, Typed
  <2> DEFINE value == IF Len(pipe) = 1 THEN pipe[1] ELSE Garbled
             t     == Task("event", value, 0)
  <2>3. value \in Nat \union {Garbled}
    BY <2>2
  <2>4. t \in Posted /\ t.kind = "event" /\ t.value = value
    BY <2>3 DEF Task, Posted
  <2>5. queue' = Append(queue, t)
    BY <1>6 DEF ReadEvents
  <2>6. status \in Elems(pipe) => garbled' \/ value = status
    <3>1. Len(pipe) = 1 \/ Len(pipe) > 1
      BY <2>1, <2>2, NotEmpty
    <3>2. Len(pipe) = 1 => Elems(pipe) = {pipe[1]}
      BY <2>2 DEF Elems
    <3> QED
      BY <2>1, <3>1, <3>2
  <2> HIDE DEF t, value
  <2>7. Elems(queue') = Elems(queue) \union {t}
    BY <1>2, <2>4, <2>5, ElemsOf
  <2>8. Heard'
    BY <1>2, <2>1, <2>4, <2>5, HeardStep DEF Follows
  <2>9. ToHear => ToHear'
    BY <2>7 DEF ToHear
  <2>10. OlderThreads /\ OlderTasks => OlderThreads' /\ OlderTasks'
    BY <1>1, <2>4, <2>7 DEF OlderThreads, OlderTasks
  <2>11. Excused => Excused'
    BY <1>1, <2>1 DEF Excused
  <2>12. OnItsWay => OnItsWay' \/ Excused'
    <3>1. Fetched => Fetched'
      BY <1>1 DEF Fetched, Carries
    <3>2. Waiting => Waiting'
      BY <1>1, <2>7 DEF Waiting
    <3>3. status \in Elems(pipe) => Waiting' \/ Excused'
      BY <1>1, <2>4, <2>6, <2>7 DEF Waiting, Excused
    <3> QED
      BY <1>1, <3>1, <3>2, <3>3 DEF OnItsWay
  <2> QED
    BY <2>1, <2>8, <2>9, <2>10, <2>11, <2>12 DEF Follows
<1> QED
  BY <1>3, <1>4, <1>5, <1>6 DEF Listener

(* A request that takes its step r to n: it carries a state on, or takes up  *)
(* the one there is.                                                         *)
LEMMA FollowsCarried ==
  ASSUME Sound, Follows, NEW r \in DOMAIN requests, NEW step \in Steps, NEW value \in {r.value, Offline, status},
         Becomes(r, step, value), r.step # "dispatch",
         value = Offline => r.kind = "command",
         UNCHANGED <<conn, pc, ui, queue, epoch, view, garbled, overtaken>>,
         silent => silent', Elems(pipe) \subseteq Elems(pipe'),
         \/ silent'
         \/ step \in {"snapshot", "broadcast", "answer"}
         \/ step = "dispatch" /\ value = status'
         \/ step = "change" /\ ~Carries(r) /\ status' = status
  PROVE  Follows'
<1> SUFFICES ASSUME Watching' PROVE Follows'
  BY DEF Follows
<1>1. Watching
  BY DEF Watching
<1> DEFINE n == [r EXCEPT !.step = step, !.value = value]
<1>2. r \in Threads /\ status \in Nat
  BY DEF Sound, Typed
<1>3. n.kind = r.kind /\ n.step = step /\ n.value = value
  BY <1>2 DEF Threads
<1>4. /\ n \in DOMAIN requests' /\ DOMAIN requests' \subseteq DOMAIN requests \union {n}
      /\ \A q \in DOMAIN requests : q # r => q \in DOMAIN requests'
  BY Becoming
<1> HIDE DEF n
<1>5. Heard' /\ (ToHear => ToHear')
  BY <1>1 DEF Follows, Heard, ToHear
<1>6. OlderThreads /\ OlderTasks => OlderThreads' /\ OlderTasks'
  <2>1. ~(n.kind = "list" /\ n.value = Offline)
    BY <1>2, <1>3 DEF Threads
  <2> QED
    BY <1>4, <2>1 DEF OlderThreads, OlderTasks
<1>7. Excused => Excused'
  BY DEF Excused
<1>8. OnItsWay => OnItsWay' \/ Excused'
  <2>1. CASE silent'
    BY <2>1 DEF Excused
  <2>2. CASE step \in {"snapshot", "broadcast", "answer"} \/ (step = "dispatch" /\ value = status')
    <3>1. Carries(n)'
      BY <1>3, <2>2 DEF Carries
    <3> QED
      BY <1>4, <3>1 DEF OnItsWay, Fetched
  <2>3. CASE step = "change" /\ ~Carries(r) /\ status' = status
    <3>1. Fetched => Fetched'
      BY <1>4, <2>3 DEF Fetched, Carries
    <3> QED
      BY <2>3, <3>1 DEF OnItsWay, Waiting
  <2> QED
    BY <2>1, <2>2, <2>3
<1> QED
  BY <1>1, <1>5, <1>6, <1>7, <1>8 DEF Follows

LEMMA FollowsRequest == ASSUME Sound, Follows, NEW r \in DOMAIN requests, RequestStep(r) PROVE Follows'
<1> SUFFICES ASSUME Watching' PROVE Follows'
  BY DEF Follows
<1>1. UNCHANGED <<conn, pc, ui, epoch, view, garbled, overtaken, up>>
  BY DEF RequestStep, Reach, Change, Snapshot, Broadcast, Answer, DispatchAnswer, Outside, listener, window, engine
<1>2. Watching /\ up /\ queue \in Seq(Posted) /\ status \in Nat /\ pipe \in Seq(Nat \union {Unknown})
  BY <1>1 DEF Watching, Sound, Wire, Queued, Typed
<1>3. r \in Threads
  BY DEF Sound, Typed
<1> USE DEF Steps
<1>4. CASE Reach(r)
  <2>1. UNCHANGED <<status, pipe, queue, silent>> /\ r.step = "connect"
    BY <1>4 DEF Reach, engine, tasks
  <2>2. r.value \in Nat
    BY <1>3, <2>1 DEF Threads
  <2>3. CASE r.kind = "list"
    <3>1. Becomes(r, "answer", r.value)
      BY <1>2, <1>4, <2>3 DEF Reach, Goto
    <3> QED
      BY <1>1, <2>1, <2>2, <3>1, FollowsCarried
  <2>4. CASE r.kind # "list"
    <3>1. Becomes(r, "change", r.value)
      BY <1>2, <1>4, <2>4 DEF Reach, Goto
    <3>2. ~Carries(r)
      BY <2>1, <2>4 DEF Carries
    <3> QED
      BY <1>1, <2>1, <2>2, <3>1, <3>2, FollowsCarried
  <2> QED
    BY <2>3, <2>4
<1>5. CASE Change(r)
  <2>1. UNCHANGED <<pipe, queue>> /\ r.step = "change"
    BY <1>5 DEF Change, tasks
  <2>2. r.value \in Nat
    BY <1>3, <2>1 DEF Threads
  <2>3. CASE Goto(r, "snapshot") /\ UNCHANGED silent
    <3>1. Becomes(r, "snapshot", r.value)
      BY <2>3 DEF Goto
    <3> QED
      BY <1>1, <2>1, <2>2, <2>3, <3>1, FollowsCarried
  <2>4. CASE r.kind = "command" /\ Becomes(r, "dispatch", Offline) /\ silent' = TRUE
    BY <1>1, <2>1, <2>4, FollowsCarried
  <2> QED
    BY <1>5, <2>3, <2>4 DEF Change
<1>6. CASE Snapshot(r)
  <2>1. UNCHANGED <<status, pipe, queue, silent>> /\ r.step = "snapshot" /\ Becomes(r, "broadcast", status)
    BY <1>6 DEF Snapshot, tasks, engine
  <2> QED
    BY <1>1, <1>2, <2>1, FollowsCarried
<1>7. CASE Answer(r)
  <2>1. UNCHANGED <<status, pipe, queue, silent>> /\ r.step = "answer" /\ Becomes(r, "dispatch", status)
    BY <1>7 DEF Answer, tasks, engine
  <2> QED
    BY <1>1, <1>2, <2>1, FollowsCarried
<1>8. CASE Broadcast(r)
  <2>1. UNCHANGED <<status, queue, silent>> /\ r.step = "broadcast" /\ Becomes(r, "answer", r.value)
    BY <1>8 DEF Broadcast, Goto, tasks, engine
  <2>2. r.value \in Nat
    BY <1>3, <2>1 DEF Threads
  <2>3. Elems(pipe) \subseteq Elems(pipe')
    <3>1. Elems(Append(pipe, r.value)) = Elems(pipe) \union {r.value}
      BY <1>2, <2>2, ElemsOf
    <3> QED
      BY <1>8, <3>1 DEF Broadcast
  <2> QED
    BY <1>1, <2>1, <2>2, <2>3, FollowsCarried
<1>9. CASE DispatchAnswer(r)
  <2> DEFINE t == Task(r.kind, r.value, r.epoch)
  <2>1. /\ UNCHANGED <<status, pipe, silent>> /\ r.step = "dispatch" /\ requests' = BagRemove(requests, r)
        /\ queue' = Append(queue, t)
    BY <1>9 DEF DispatchAnswer, engine
  <2>2. /\ t \in Posted /\ t.kind = r.kind /\ t.value = r.value /\ t.epoch = r.epoch
        /\ t.kind \in {"list", "command", "stop_all"}
    BY <1>3 DEF Task, Posted, Threads
  <2> HIDE DEF t
  <2>3. Elems(queue') = Elems(queue) \union {t}
    BY <1>2, <2>1, <2>2, ElemsOf
  <2>4. Heard'
    <3>1. t.kind # "disconnected"
      BY <2>2
    <3> QED
      BY <1>2, <2>1, <2>2, <3>1, HeardStep DEF Follows
  <2>5. ToHear => ToHear'
    BY <2>3 DEF ToHear
  <2>6. OlderThreads /\ OlderTasks => OlderThreads' /\ OlderTasks'
    BY <1>1, <2>1, <2>2, <2>3, BagRemoveDomain DEF OlderThreads, OlderTasks
  <2>7. Excused => Excused'
    BY <1>1, <2>1 DEF Excused
  <2>8. OnItsWay => OnItsWay'
    <3>1. Waiting => Waiting'
      BY <2>1, <2>3 DEF Waiting
    <3>2. ASSUME NEW q \in DOMAIN requests, Carries(q) PROVE Fetched' \/ Waiting'
      <4>1. CASE q # r
        <5>1. q \in DOMAIN requests'
          BY <2>1, <4>1, Leaving
        <5> QED
          BY <2>1, <3>2, <5>1 DEF Fetched, Carries
      <4>2. CASE q = r
        <5>1. t.value = status'
          BY <2>1, <2>2, <3>2, <4>2 DEF Carries
        <5> QED
          BY <2>2, <2>3, <5>1 DEF Waiting
      <4> QED
        BY <4>1, <4>2
    <3> QED
      BY <1>1, <2>1, <3>1, <3>2 DEF OnItsWay, Fetched
  <2> QED
    BY <1>2, <2>4, <2>5, <2>6, <2>7, <2>8 DEF Follows
<1> QED
  BY <1>4, <1>5, <1>6, <1>7, <1>8, <1>9 DEF RequestStep

LEMMA FollowsState == Sound /\ Past /\ Follows /\ HandleState => Follows'
<1> SUFFICES ASSUME Sound, Past, Follows, HandleState, Watching' PROVE Follows'
  BY DEF Follows
<1> DEFINE task == Head(queue)
<1>1. /\ Takes /\ task.kind \in {"event", "list", "command"}
      /\ UNCHANGED <<up, status, conn, pipe, pc, ui, epoch, requests, garbled, silent>>
  BY DEF HandleState, Beside, engine, wire
<1>2. \/ /\ view' = view /\ overtaken' = overtaken
         /\ task.value = Garbled \/ (task.kind = "command" /\ task.value = Offline)
      \/ /\ view' = task.value /\ ~(task.kind = "command" /\ task.value = Offline) /\ task.value # Garbled
         /\ overtaken' = (overtaken \/ IF task.value = Offline THEN task.epoch < epoch ELSE task.value < view)
  BY DEF HandleState, ShowsNothing, Show
<1>3. Watching /\ Heard /\ queue # <<>> /\ queue' = Tail(queue) /\ queue \in Seq(Posted)
  BY <1>1 DEF Watching, Takes, Follows, Sound, Queued
<1>4. /\ task \in Posted /\ task \in Elems(queue)
      /\ Elems(queue') \subseteq Elems(queue) /\ Elems(queue) = Elems(queue') \union {task}
  BY <1>1, Taken
<1>5. task.value \in Nat \union {Offline, Garbled} /\ (task.kind = "event" => task.value # Offline)
  BY <1>4 DEF Posted
<1>6. task.value <= status /\ status \in Nat /\ view <= status /\ view \in Nat \union {Offline, Unknown}
  BY <1>4 DEF Past, PastTasks, Sound, Typed, Flags
<1> HIDE DEF task
<1>7. Heard'
  BY <1>3, HeardStep
<1>8. ToHear => ToHear'
  BY <1>1, <1>4 DEF ToHear
<1>9. OlderThreads /\ OlderTasks => OlderThreads' /\ OlderTasks'
  BY <1>1, <1>4 DEF OlderThreads, OlderTasks
<1>10. Excused => Excused'
  BY <1>1, <1>2 DEF Excused
<1>11. OlderTasks /\ OnItsWay => OnItsWay' \/ Excused'
  <2> SUFFICES ASSUME OlderTasks, OnItsWay PROVE OnItsWay' \/ Excused'
    OBVIOUS
  <2>1. CASE Fetched \/ status \in Elems(pipe)
    BY <1>1, <2>1 DEF OnItsWay, Fetched, Carries
  <2>2. CASE Waiting
    <3>1. PICK t \in Elems(queue) : t.kind \in {"event", "list", "command", "stop_all"} /\ t.value = status
      BY <2>2 DEF Waiting
    <3>2. CASE t # task
      BY <1>1, <1>4, <3>1, <3>2 DEF OnItsWay, Waiting
    <3>3. CASE t = task
      <4>1. task.value # Garbled /\ task.value # Offline
        BY <1>6, <3>1, <3>3
      <4>2. view' = status'
        BY <1>1, <1>2, <3>1, <3>3, <4>1
      <4> QED
        BY <4>2 DEF OnItsWay
    <3> QED
      BY <3>2, <3>3
  <2>3. CASE view = status
    <3>1. CASE view' = view
      BY <1>1, <2>3, <3>1 DEF OnItsWay
    <3>2. CASE task.value = Offline /\ view' # view
      <4>1. task.kind = "list"
        BY <1>1, <1>2, <1>5, <3>2
      <4>2. task.epoch < epoch
        BY <1>4, <3>2, <4>1 DEF OlderTasks
      <4> QED
        BY <1>2, <3>2, <4>2 DEF Excused
    <3>3. CASE task.value # Offline /\ view' # view
      <4>1. task.value < view
        BY <1>2, <1>5, <1>6, <2>3, <3>3
      <4>2. overtaken' = (overtaken \/ task.value < view)
        BY <1>2, <3>3
      <4> QED
        BY <4>1, <4>2 DEF Excused
    <3> QED
      BY <3>1, <3>2, <3>3
  <2> QED
    BY <2>1, <2>2, <2>3 DEF OnItsWay
<1> QED
  BY <1>3, <1>7, <1>8, <1>9, <1>10, <1>11 DEF Follows

LEMMA FollowsConnected == Sound /\ Past /\ Follows /\ HandleConnected => Follows'
<1> SUFFICES ASSUME Sound, Past, Follows, HandleConnected, Watching' PROVE Follows'
  BY DEF Follows
<1> DEFINE n == Request("list", epoch + 1)
<1>1. /\ Takes /\ epoch' = epoch + 1 /\ requests' = BagAdd(requests, n)
      /\ UNCHANGED <<conn, pc, ui>>
  BY DEF HandleConnected, Beside, wire
<1>2. epoch \in Nat /\ queue \in Seq(Posted)
  BY DEF Sound, Typed, Queued
<1>3. n.kind = "list" /\ n.value = 0 /\ n.step = "connect"
  BY <1>2, RequestParts
<1> HIDE DEF n
<1>4. DOMAIN requests' = DOMAIN requests \union {n}
  BY <1>1, Arriving
<1>5. Heard'
  BY <1>1, <1>2, HeardStep DEF Takes, Watching, Follows
<1>6. OlderThreads'
  <2>1. \A r \in DOMAIN requests : r.epoch < epoch'
    <3>1. \A r \in DOMAIN requests : r.epoch \in Nat
      BY DEF Sound, Typed, Threads
    <3> QED
      BY <1>1, <1>2, <3>1 DEF Past, PastThreads
  <2> QED
    BY <1>3, <1>4, <2>1 DEF OlderThreads
<1>7. OlderTasks'
  <2>1. \A t \in Elems(queue) : t.epoch \in Nat
    BY <1>2, ElemsOf DEF Posted
  <2>2. \A t \in Elems(queue) : t.epoch < epoch'
    BY <1>1, <1>2, <2>1 DEF Past, PastTasks
  <2> QED
    BY <1>1, <2>2, Taken DEF OlderTasks
<1>8. OnItsWay'
  BY <1>3, <1>4 DEF OnItsWay, Fetched, Carries
<1> QED
  BY <1>5, <1>6, <1>7, <1>8 DEF Follows

LEMMA FollowsDisconnected == Sound /\ Follows /\ HandleDisconnected => Follows'
<1> SUFFICES ASSUME Sound, Follows, HandleDisconnected, Watching' PROVE Follows'
  BY DEF Follows
<1>1. Takes /\ Head(queue).kind = "disconnected" /\ UNCHANGED <<conn, pc, ui>>
  BY DEF HandleDisconnected, Beside, wire
<1>2. queue \in Seq(Posted) /\ Heard /\ queue # <<>> /\ queue' = Tail(queue)
  BY <1>1 DEF Sound, Queued, Watching, Follows, Takes
<1> QED
  BY <1>1, <1>2, HeardStep DEF Follows

LEMMA FollowsStep == Sound /\ Past /\ Follows /\ [Next]_vars => Follows'
<1> SUFFICES ASSUME Sound, Past, Follows, [Next]_vars, Watching' PROVE Follows'
  BY DEF Follows
<1>1. CASE AnswerSubscription
  BY <1>1 DEF AnswerSubscription, listener, Watching
<1>2. CASE EngineEnds
  <2>1. conn' # "subscribed"
    BY <1>2 DEF EngineEnds
  <2> QED
    BY <2>1 DEF Watching
<1>3. CASE EngineStarts
  <2>1. ~up /\ UNCHANGED <<conn, pc, ui>>
    BY <1>3 DEF EngineStarts, wire, listener, window
  <2> QED
    BY <2>1 DEF Watching, Sound, Wire
<1>4. CASE HandleStopAll \/ TrayExit \/ Cancel \/ Join
  BY <1>4 DEF HandleStopAll, TrayExit, Quit, Cancel, Join, Watching
<1>5. CASE UserCommand
  <2>1. UNCHANGED <<status, conn, pipe, pc, ui, queue, epoch, view, garbled, overtaken, silent>>
    BY <1>5 DEF UserCommand, engine, wire, listener, tasks
  <2>2. PICK kind \in {"command", "stop_all"} : requests' = BagAdd(requests, Request(kind, 0))
    BY <1>5 DEF UserCommand
  <2> DEFINE n == Request(kind, 0)
  <2>3. n.kind # "list"
    BY RequestParts
  <2> HIDE DEF n
  <2>4. DOMAIN requests' = DOMAIN requests \union {n}
    BY <2>2, Arriving DEF n
  <2>5. (OlderThreads => OlderThreads') /\ (Fetched => Fetched')
    BY <2>1, <2>3, <2>4 DEF OlderThreads, Fetched, Carries
  <2> QED
    BY <2>1, <2>5 DEF Follows, Watching, Heard, ToHear, OlderTasks, Excused, OnItsWay, Waiting
<1>6. CASE UNCHANGED vars
  BY <1>6 DEF vars, engine, wire, listener, tasks, window, Follows, Watching, Heard, ToHear, OlderThreads,
              OlderTasks, Excused, OnItsWay, Fetched, Carries, Waiting
<1> QED
  BY <1>1, <1>2, <1>3, <1>4, <1>5, <1>6, FollowsListener, FollowsRequest, FollowsState, FollowsConnected,
     FollowsDisconnected DEF Next

(* listen with the window's handlers: whenever the listener reads from a     *)
(* running Engine and nothing is under way, the window shows the present     *)
(* state of the services, however requests, events, outages and the window's *)
(* own tasks interleaved, unless a text was garbled, an older state shown    *)
(* after a later one, or a command failed after its change.                  *)
THEOREM WindowFollows == Spec => []WindowFollowsEngine
<1>1. Init => Past /\ Follows
  <2> SUFFICES ASSUME Init PROVE Past /\ Follows
    OBVIOUS
  <2>1. DOMAIN requests = {Request("list", 0)} /\ Request("list", 0).value = 0 /\ Request("list", 0).epoch = 0
    BY RequestParts DEF Init, SetToBag
  <2>2. Elems(queue) = {} /\ Elems(pipe) = {}
    BY DEF Init, Elems
  <2> QED
    BY <2>1, <2>2 DEF Init, Past, PastThreads, PastTasks, PastEvents, Follows, Watching
<1>2. Follows => WindowFollowsEngine
  <2> SUFFICES ASSUME Follows, up, pc = "reading", conn = "subscribed", ui = "run", pipe = <<>>, queue = <<>>,
                      requests = EmptyBag, ~Excused
               PROVE  view = status
    BY DEF WindowFollowsEngine, Excused
  <2>1. Elems(queue) = {} /\ Elems(pipe) = {} /\ DOMAIN requests = {}
    BY DEF Elems, EmptyBag, SetToBag
  <2> QED
    BY <2>1 DEF Follows, Watching, ToHear, OnItsWay, Fetched, Waiting
<1> QED
  BY <1>1, <1>2, SoundSpec, PastStep, FollowsStep, PTL DEF Spec

-----------------------------------------------------------------------------
(* What never rests before it is done.                                       *)

(* The listener ends only when the window has closed; what it can then still *)
(* be blocked in is a read that the cancellation came too early for.         *)
Quits ==
  /\ listening <=> ui = "run"
  /\ pc = "ended" => ~listening
  /\ pc = "answer" /\ conn = "subscribed" => pipe # <<>>
  /\ ui \in {"join", "gone"} /\ pc \in {"answer", "enter", "reading"} => missed

LEMMA QuitsStep == Sound /\ Quits /\ [Next]_vars => Quits'
<1> SUFFICES ASSUME Sound, Quits, [Next]_vars PROVE Quits'
  OBVIOUS
<1>1. CASE UNCHANGED <<pc, listening, conn, pipe, ui, missed>>
  BY <1>1 DEF Quits
<1>2. CASE Listener
  <2>1. UNCHANGED <<listening, ui, missed>>
    BY <1>2 DEF Listener, Connect, Wait, ReadAnswer, TestListening, EnterRead, ReadEvents, ReadFails, Lose,
                Elsewhere, window
  <2>2. CASE Connect \/ Lose
    BY <2>1, <2>2 DEF Connect, Lose, Quits
  <2>3. CASE Wait \/ TestListening \/ EnterRead \/ ReadFails
    BY <2>1, <2>3 DEF Wait, TestListening, EnterRead, ReadFails, wire, Quits
  <2>4. CASE ReadAnswer \/ ReadEvents
    BY <2>1, <2>4 DEF ReadAnswer, ReadEvents, Quits
  <2> QED
    BY <1>2, <2>2, <2>3, <2>4 DEF Listener
<1>3. CASE AnswerSubscription
  <2>1. pipe' # <<>>
    BY <1>3 DEF AnswerSubscription
  <2> QED
    BY <1>3, <2>1 DEF AnswerSubscription, Quits, listener, window
<1>4. CASE EngineEnds
  <2>1. UNCHANGED <<pc, pipe, listening, ui, missed>> /\ conn' # "subscribed"
    BY <1>4 DEF EngineEnds, listener, window
  <2> QED
    BY <2>1 DEF Quits
<1>5. ASSUME NEW r \in DOMAIN requests, RequestStep(r) PROVE Quits'
  <2>1. CASE Broadcast(r)
    <3>1. UNCHANGED <<pc, conn, listening, ui, missed>>
      BY <2>1 DEF Broadcast, Outside, listener, window
    <3>2. pipe # <<>> => pipe' # <<>>
      <4>1. r.value \in Nat /\ pipe \in Seq(Nat \union {Unknown})
        BY <2>1 DEF Broadcast, Sound, Typed, Threads
      <4>2. Append(pipe, r.value) # <<>>
        BY <4>1
      <4> QED
        BY <2>1, <4>2 DEF Broadcast
    <3> QED
      BY <3>1, <3>2 DEF Quits
  <2>2. CASE ~Broadcast(r)
    BY <1>1, <1>5, <2>2 DEF RequestStep, Reach, Change, Snapshot, Answer, DispatchAnswer, Outside,
                            listener, window
  <2> QED
    BY <2>1, <2>2
<1>6. CASE EngineStarts \/ UserCommand \/ HandleConnected \/ HandleDisconnected \/ HandleState \/ UNCHANGED vars
  BY <1>1, <1>6 DEF EngineStarts, UserCommand, HandleConnected, HandleDisconnected, HandleState, Beside,
                    wire, listener, window, vars
<1>7. CASE HandleStopAll \/ TrayExit
  BY <1>7 DEF HandleStopAll, TrayExit, Quit, Beside, wire, Quits
<1>8. CASE Cancel
  BY <1>8 DEF Cancel, Afterwards, wire, Quits
<1>9. CASE Join
  BY <1>9 DEF Join, Afterwards, wire, Quits
<1> QED
  BY <1>2, <1>3, <1>4, <1>5, <1>6, <1>7, <1>8, <1>9 DEF Next

LEMMA QuitsSpec == Spec => []Quits
<1>1. Init => Quits
  BY DEF Init, Quits
<1> QED
  BY <1>1, SoundSpec, QuitsStep, PTL DEF Spec

(* listen and ~PipeClient: while the Engine runs and the window is open, the *)
(* listener can always do something more until it reads from a subscription; *)
(* once the window has closed, its thread and the listener can do something  *)
(* more until both have ended, unless the cancellation came before the read  *)
(* it was for.                                                               *)
THEOREM ListenerRests == Spec => []RestsOnlyWhenDone
<1>1. Sound /\ Quits => Reconnects
  BY DEF Sound, Wire, Quits, CanMove, AtRest, Subscribed, Reconnects
<1>2. Sound /\ Quits => QuitCompletes
  BY DEF Sound, Wire, Flags, Quits, CanMove, AtRest, QuitCompletes
<1>3. Sound /\ Quits => RestsOnlyWhenDone
  BY <1>1, <1>2 DEF RestsOnlyWhenDone
<1> QED
  BY <1>3, SoundSpec, QuitsSpec, PTL
=============================================================================
