---------------------------- MODULE FolderWatcher ----------------------------
(***************************************************************************)
(* The folder watcher, engine/sites/folder_watcher.cpp: start and stop as  *)
(* any thread of the Engine calls them, and the thread they start.         *)
(* start() is stop() and then the rest, which is called "watcher.start"    *)
(* here.  Nothing but running_ orders the callers; a thread is joinable    *)
(* from its creation until it is joined, even after it has ended, and      *)
(* assigning to a joinable std::thread terminates the process.             *)
(*                                                                         *)
(* What a thread does next is a program, the sequence of its steps; a call *)
(* replaces its first step by those that follow it, by none when it        *)
(* returns.  What the callback does is Lifecycle's.                        *)
(***************************************************************************)
EXTENDS Sequences

CONSTANT Threads  \* those that call start and stop

VARIABLES
  pc,          \* their programs
  running,     \* running_
  thread,      \* none (not joinable), or where the thread is; failed and ended: joinable, over
  notes,       \* what the directory handle has recorded since the last read: off before the first
  missed,      \* history: a cancellation found the thread about to read
  owed,        \* history: a change was recorded, no scan of the root has followed, and nobody stopped
  terminated   \* std::terminate was called

callers == <<pc, terminated>>

WatcherSteps  == {"watcher.stop", "cancel", "join", "watcher.start", "spawn"}
WatcherStates == {"none", "open", "test", "enter", "read", "changed", "call", "ended", "failed"}

WatcherTypeOK ==
  /\ running \in BOOLEAN /\ missed \in BOOLEAN /\ owed \in BOOLEAN /\ terminated \in BOOLEAN
  /\ thread \in WatcherStates
  /\ notes \in {"off", "empty", "change", "overflow"}

WatcherInit ==
  running = FALSE /\ thread = "none" /\ notes = "off" /\ missed = FALSE /\ owed = FALSE

At(t, step)   == pc[t] # <<>> /\ Head(pc[t]) = step
Then(t, next) == pc' = [pc EXCEPT ![t] = next \o Tail(@)]
Over == thread \in {"ended", "failed"}

-----------------------------------------------------------------------------
(* stop.                                                                     *)

Exchange(t) ==
  /\ At(t, "watcher.stop") /\ Then(t, IF running THEN <<"cancel">> ELSE <<>>)
  /\ running' = FALSE /\ owed' = FALSE
  /\ UNCHANGED <<thread, notes, missed, terminated>>

CancelTheCallback(t) ==
  /\ At(t, "cancel") /\ Then(t, <<"join">>)
  /\ thread' = IF thread \in {"read", "call"} THEN "test" ELSE thread
  /\ UNCHANGED <<running, notes, missed, owed, terminated>>

(* CancelSynchronousIo ends the read the thread is in, with no change, and   *)
(* nothing else: a thread that has evaluated running_ but not yet called     *)
(* ReadDirectoryChangesW reads all the same.                                 *)
Cancel(t) ==
  /\ At(t, "cancel") /\ Then(t, <<"join">>)
  /\ thread' = IF thread = "read" THEN "test" ELSE thread
  /\ missed' = (missed \/ thread = "enter")
  /\ UNCHANGED <<running, notes, owed, terminated>>

JoinNothing(t) ==
  /\ At(t, "join") /\ Then(t, <<>>)
  /\ UNCHANGED <<running, thread, notes, missed, owed, terminated>>

Join(t) ==
  /\ Over \/ thread = "none"
  /\ At(t, "join") /\ Then(t, <<>>)
  /\ thread' = "none" /\ notes' = "off"
  /\ UNCHANGED <<running, missed, owed, terminated>>

(* The rest of start: nothing to watch, or the new thread.                   *)
Prepare(t) ==
  /\ At(t, "watcher.start")
  /\ \/ Then(t, <<>>) /\ UNCHANGED running
     \/ Then(t, <<"spawn">>) /\ running' = TRUE
  /\ UNCHANGED <<thread, notes, missed, owed, terminated>>

Spawn(t) ==
  /\ At(t, "spawn") /\ Then(t, <<>>)
  /\ IF thread = "none"
     THEN thread' = "open" /\ notes' = "off" /\ UNCHANGED terminated
     ELSE terminated' = TRUE /\ UNCHANGED <<thread, notes>>
  /\ UNCHANGED <<running, missed, owed>>

WatcherCall(t) == Exchange(t) \/ Cancel(t) \/ Join(t) \/ Prepare(t) \/ Spawn(t)

-----------------------------------------------------------------------------
(* run.                                                                      *)

Open ==
  /\ thread = "open"
  /\ \/ thread' = "test" /\ UNCHANGED running
     \/ thread' = "failed" /\ running' = FALSE
  /\ UNCHANGED <<callers, notes, missed, owed>>

TestRunning ==
  /\ thread = "test"
  /\ thread' = IF running THEN "enter" ELSE "ended"
  /\ UNCHANGED <<callers, running, notes, missed, owed>>

EnterReadAfresh ==
  /\ thread = "enter" /\ thread' = "read" /\ notes' = "empty"
  /\ UNCHANGED <<callers, running, missed, owed>>

(* The first ReadDirectoryChangesW makes the handle record changes.          *)
EnterRead ==
  /\ thread = "enter" /\ thread' = "read"
  /\ notes' = IF notes = "off" THEN "empty" ELSE notes
  /\ UNCHANGED <<callers, running, missed, owed>>

(* An overflow completes the read with zero bytes.                           *)
ReadReturns ==
  /\ thread = "read" /\ notes \in {"change", "overflow"}
  /\ thread' = IF notes = "change" THEN "changed" ELSE "test"
  /\ notes' = "empty"
  /\ UNCHANGED <<callers, running, missed, owed>>

TestAgain ==
  /\ thread = "changed"
  /\ thread' = IF running THEN "call" ELSE "ended"
  /\ UNCHANGED <<callers, running, notes, missed, owed>>

(* What the callback does, and whether it settles what is owed, is Lifecycle's. *)
CallbackReturns ==
  /\ thread = "call" /\ thread' = "test"
  /\ UNCHANGED <<callers, running, notes, missed>>

WatcherThread == Open \/ TestRunning \/ EnterRead \/ ReadReturns \/ TestAgain

(* A direct child is created, removed or renamed.                            *)
FolderChanges ==
  /\ notes' \in IF notes = "off" THEN {"off"} ELSE {"change", "overflow"}
  /\ owed' = (notes' = "change" /\ running)
  /\ UNCHANGED <<callers, running, thread, missed>>
=============================================================================
