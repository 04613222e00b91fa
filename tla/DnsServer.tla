------------------------------ MODULE DnsServer ------------------------------
(***************************************************************************)
(* The DNS responder, engine/dns/dns_server.cpp: start and stop as any     *)
(* thread of the Engine calls them, the thread they start, and the port    *)
(* they share.  socket_ is a plain member, read by the thread and by stop  *)
(* and written by start and, last of all, by stop.                         *)
(*                                                                         *)
(* Threads run programs, as in FolderWatcher.  The datagrams of others     *)
(* only make the thread go round its loop.                                 *)
(***************************************************************************)
EXTENDS Sequences

CONSTANT Threads

VARIABLES
  pc,
  running,     \* running_
  thread,      \* none (not joinable), test, recv, or ended (joinable, over)
  bound,       \* a socket of the Engine has port 53
  socket,      \* socket_ is that socket
  taken,       \* so is stop's local socket, for each thread
  mail,        \* a datagram waits there
  lost,        \* history: the stop that waits for the thread has sent no datagram
  terminated   \* std::terminate was called

rest == <<pc, running, bound, socket, taken, lost, terminated>>

DnsSteps == {"dns.start", "publish", "create", "dns.stop", "wake", "joinDns", "close", "clear"}

DnsTypeOK ==
  /\ running \in BOOLEAN /\ bound \in BOOLEAN /\ socket \in BOOLEAN /\ mail \in BOOLEAN
  /\ lost \in BOOLEAN
  /\ thread \in {"none", "test", "recv", "ended"}
  /\ taken \in [Threads -> BOOLEAN]

DnsInit ==
  /\ running = FALSE /\ bound = FALSE /\ socket = FALSE /\ mail = FALSE /\ lost = FALSE /\ thread = "none"
  /\ taken = [t \in Threads |-> FALSE]

At(t, step)   == pc[t] # <<>> /\ Head(pc[t]) = step
Then(t, next) == pc' = [pc EXCEPT ![t] = next \o Tail(@)]

-----------------------------------------------------------------------------
(* start.                                                                    *)

(* Port 53 can be bound once; another program may have it.                   *)
Bind(t) ==
  /\ At(t, "dns.start")
  /\ \/ Then(t, <<>>) /\ UNCHANGED bound
     \/ ~running /\ ~bound /\ bound' = TRUE /\ Then(t, <<"publish">>)
  /\ UNCHANGED <<running, thread, socket, taken, mail, lost, terminated>>

Publish(t) ==
  /\ At(t, "publish") /\ Then(t, <<"create">>)
  /\ socket' = TRUE /\ running' = TRUE
  /\ UNCHANGED <<thread, bound, taken, mail, lost, terminated>>

Create(t) ==
  /\ At(t, "create") /\ Then(t, <<>>)
  /\ IF thread = "none" THEN thread' = "test" /\ UNCHANGED terminated
                        ELSE terminated' = TRUE /\ UNCHANGED thread
  /\ UNCHANGED <<running, bound, socket, taken, mail, lost>>

-----------------------------------------------------------------------------
(* stop.                                                                     *)

Stop(t) ==
  /\ At(t, "dns.stop")
  /\ IF running THEN Then(t, <<"wake">>) /\ taken' = [taken EXCEPT ![t] = socket]
                ELSE Then(t, <<>>) /\ UNCHANGED taken
  /\ running' = FALSE
  /\ UNCHANGED <<thread, bound, socket, mail, lost, terminated>>

NoWakeDatagram(t) ==
  /\ At(t, "wake") /\ Then(t, <<"joinDns">>)
  /\ UNCHANGED <<running, thread, bound, socket, taken, mail, lost, terminated>>

(* A datagram to port 53 ends a recvfrom that is, or will be, in progress.   *)
(* There is none without a socket to send it from, and sendto may fail.      *)
WakeDatagram(t) ==
  /\ At(t, "wake") /\ Then(t, <<"joinDns">>)
  /\ \/ mail' = bound /\ UNCHANGED lost
     \/ lost' = TRUE /\ UNCHANGED mail
  /\ UNCHANGED <<running, thread, bound, socket, taken, terminated>>

JoinDns(t) ==
  /\ thread \in {"none", "ended"}
  /\ At(t, "joinDns") /\ Then(t, <<"close">>)
  /\ thread' = "none" /\ lost' = FALSE
  /\ UNCHANGED <<running, bound, socket, taken, mail, terminated>>

KeepSocket(t) ==
  /\ At(t, "close") /\ Then(t, <<"clear">>)
  /\ UNCHANGED <<running, thread, bound, socket, taken, mail, lost, terminated>>

CloseSocket(t) ==
  /\ At(t, "close") /\ Then(t, <<"clear">>)
  /\ bound' = (bound /\ ~taken[t]) /\ mail' = (mail /\ ~taken[t])
  /\ taken' = [taken EXCEPT ![t] = FALSE]
  /\ UNCHANGED <<running, thread, socket, lost, terminated>>

Clear(t) ==
  /\ At(t, "clear") /\ Then(t, <<>>)
  /\ socket' = FALSE
  /\ UNCHANGED <<running, thread, bound, taken, mail, lost, terminated>>

DnsCall(t) ==
  \/ Bind(t) \/ Publish(t) \/ Create(t)
  \/ Stop(t) \/ WakeDatagram(t) \/ JoinDns(t) \/ CloseSocket(t) \/ Clear(t)

-----------------------------------------------------------------------------
(* run.  With a socket_ that is no socket recvfrom fails at once, and the    *)
(* thread goes round the loop.                                               *)

TestRunning ==
  /\ thread = "test"
  /\ thread' = IF ~running THEN "ended" ELSE IF socket THEN "recv" ELSE "test"
  /\ UNCHANGED <<rest, mail>>

Receive ==
  /\ thread = "recv" /\ mail
  /\ thread' = "test" /\ mail' = FALSE
  /\ UNCHANGED rest

DnsThread == TestRunning \/ Receive
=============================================================================
