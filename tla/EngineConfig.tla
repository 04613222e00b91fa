---------------------------- MODULE EngineConfig ----------------------------
(***************************************************************************)
(* How the Engine changes its settings: config.set in Engine::handle_-     *)
(* message (engine/engine.cpp), the refreshes it runs forward and, after a *)
(* failure, back again, ConfigStore::save (common/config.cpp), and the     *)
(* refreshes the folder watcher and Engine::start run beside it.           *)
(*                                                                         *)
(* refresh_mutex_ covers one refresh.  Nothing covers config_: every       *)
(* connection's worker copies, assigns and restores it, and every refresh  *)
(* reads it at several points, whoever else is writing it.                 *)
(*                                                                         *)
(* The two settings that reach nginx are modelled, and config.set is given *)
(* both of them, as the UI does.  A tree is what it was generated from:    *)
(* the root the registry had scanned and https_enabled as it was read for  *)
(* the sites and again for the root file.  Installing the tree is one step *)
(* here; NginxActivation is about its steps, and Sites about a list of the *)
(* registry that ends early.                                               *)
(*                                                                         *)
(* An exception in a config.set is answered by the catch of handle_message *)
(* as it stands, without the undo; on the watcher's thread or in Engine::- *)
(* start it ends the process, as does a std::thread that is assigned while *)
(* it is joinable.  Lifecycle has the watcher's changes in full.           *)
(***************************************************************************)
EXTENDS Naturals, FiniteSets

CONSTANTS
  Setters,      \* the config.set requests
  Roots,        \* projects roots
  MaxFailures,  \* bound: calls that fail or throw
  MaxChanges,   \* bound: folder changes the watcher reports
  MaxCrashes    \* bound: crashes of the Engine

ASSUME BoundsAssumption ==
  MaxFailures \in Nat /\ MaxChanges \in Nat /\ MaxCrashes \in Nat

Watcher == "watcher"  \* the FolderWatcher thread
Main    == "main"     \* the thread that runs Engine::start
Nobody  == "nobody"
Threads == Setters \union {Watcher, Main}

ASSUME NamesAssumption == {Watcher, Main, Nobody} \intersect Setters = {}

NoRoot   == "no root" \* AppConfig{}.root_folder: an empty path
Garbled  == "garbled" \* a path read while another thread assigned it
AnyRoot  == Roots \union {NoRoot, Garbled}
Settings == [root : AnyRoot, https : BOOLEAN]
Defaults == [root |-> NoRoot, https |-> TRUE]
Requests == [root : Roots, https : BOOLEAN]
Trees    == [root : AnyRoot, sites : BOOLEAN, conf : BOOLEAN]

VARIABLES
  config,     \* config_
  file,       \* config.json; the settings load() makes of it
  cut,        \* history: config.json was last written short
  sites,      \* the root whose folders the registry holds
  staged,     \* the staging tree
  tree,       \* the active tree
  hosts,      \* the root whose sites the hosts file names
  holder,     \* who holds refresh_mutex_
  refreshed,  \* the last refresh succeeded
  published,  \* history: so did its activation; nginx not published, a refresh has none
  watching,   \* the root watcher_ watches; none when its running_ is false
  missed,     \* history: a cancellation came before the read it was for
  pc,         \* what each thread does next
  forward,    \* this refresh of a config.set is not the one that undoes it
  request,    \* the parameters of this config.set
  previous,   \* its local previous_config
  alone,      \* history: no other config.set has run during it
  saved,      \* history: config.json when it came
  threw,      \* history: it is answered by the catch
  dropped,    \* history: one has thrown after it wrote config_, and no refresh has begun since
  failures, changes, crashes

active  == <<sites, staged, tree, hosts>>
store   == <<file, cut>>
outcome == <<refreshed, published>>
watcher == <<watching, missed>>
locals  == <<forward, request, previous, alone, saved>>
thrown  == <<threw, dropped>>
bounds  == <<failures, changes, crashes>>
vars    == <<config, store, active, holder, outcome, watcher, pc, locals, thrown, bounds>>

InRefresh  == {"rescan", "certs", "stageSites", "stageConf", "activate", "hosts", "restart"}
Assigning  == {"assignRoot", "assignHttps", "restoreRoot", "restoreHttps"}
Saving     == {"save", "saveRemove", "saveRetry"}
Watching   == {"watch", "join", "startWatcher"}
InConfigSet == Assigning \union Saving \union Watching \union InRefresh \union {"lock", "ok", "error"}
PCs == InConfigSet \union {"idle", "down", "answered", "read", "ended", "publish"}

TypeOK ==
  /\ config \in Settings /\ file \in Settings
  /\ sites \in AnyRoot /\ hosts \in AnyRoot /\ watching \in AnyRoot
  /\ staged \in Trees /\ tree \in Trees
  /\ cut \in BOOLEAN /\ published \in BOOLEAN /\ missed \in BOOLEAN /\ dropped \in BOOLEAN
  /\ holder \in Threads \union {Nobody} /\ refreshed \in BOOLEAN
  /\ pc \in [Threads -> PCs]
  /\ \A t \in Threads : pc[t] \in InRefresh <=> holder = t
  /\ forward \in [Setters -> BOOLEAN] /\ alone \in [Setters -> BOOLEAN]
  /\ previous \in [Setters -> Settings] /\ request \in [Setters -> Settings]
  /\ saved \in [Setters -> Settings] /\ threw \in [Setters -> BOOLEAN]
  /\ failures \in 0..MaxFailures /\ changes \in 0..MaxChanges /\ crashes \in 0..MaxCrashes

(* Engine::start is about to run its first refresh, without a config.json.   *)
NoTree == [root |-> NoRoot, sites |-> FALSE, conf |-> FALSE]
Init ==
  /\ config = Defaults /\ file = Defaults /\ cut = FALSE
  /\ sites = NoRoot /\ hosts = NoRoot /\ watching = NoRoot
  /\ staged = NoTree /\ tree = NoTree
  /\ holder = Nobody /\ refreshed = FALSE /\ published = FALSE /\ missed = FALSE
  /\ pc = [t \in Threads |-> IF t = Main THEN "lock" ELSE "idle"]
  /\ forward = [s \in Setters |-> TRUE] /\ alone = [s \in Setters |-> TRUE]
  /\ request = [s \in Setters |-> Defaults] /\ previous = [s \in Setters |-> Defaults]
  /\ saved = [s \in Setters |-> Defaults]
  /\ threw = [s \in Setters |-> FALSE] /\ dropped = FALSE
  /\ failures = 0 /\ changes = 0 /\ crashes = 0

Go(t, from, to) == pc[t] = from /\ pc' = [pc EXCEPT ![t] = to]

Fail == failures < MaxFailures /\ failures' = failures + 1 /\ UNCHANGED <<changes, crashes>>

(* The process is gone: what is left is on the disk, and the requests of the *)
(* clients that were connected are not answered any more.                    *)
ProcessEnds ==
  /\ pc' = [t \in Threads |->
       CASE t = Main -> "down"
         [] t \in Setters /\ pc[t] # "idle" -> "answered"
         [] OTHER -> "idle"]
  /\ holder' = Nobody /\ watching' = NoRoot /\ config' = Defaults /\ sites' = NoRoot
  /\ forward' = [s \in Setters |-> TRUE] /\ alone' = [s \in Setters |-> TRUE]
  /\ request' = [s \in Setters |-> Defaults] /\ previous' = [s \in Setters |-> Defaults]
  /\ saved' = [s \in Setters |-> Defaults]
  /\ UNCHANGED <<store, staged, tree, hosts, outcome, missed, thrown>>

(* What a thread may read of config_.root_folder, which a config.set may be  *)
(* assigning: two threads then access the string without synchronisation.    *)
RootRead ==
  IF \E s \in Setters : pc[s] \in {"assignRoot", "restoreRoot"}
  THEN AnyRoot ELSE {config.root}

-----------------------------------------------------------------------------
(* rescan_sites_and_refresh_nginx, by any thread.                            *)

LockWithoutMutex(t) ==
  /\ holder' = t /\ dropped' = FALSE
  /\ Go(t, "lock", "rescan")
  /\ UNCHANGED <<config, store, active, outcome, watcher, locals, threw, bounds>>

Lock(t) ==
  /\ holder = Nobody /\ holder' = t /\ dropped' = FALSE
  /\ Go(t, "lock", "rescan")
  /\ UNCHANGED <<config, store, active, outcome, watcher, locals, threw, bounds>>

(* The watcher's loop after its callback: running_ says whether it reads on. *)
Loop == IF watching = NoRoot THEN "ended" ELSE "read"

(* Where the caller goes on.                                                 *)
Continue(t, ok) ==
  CASE t = Watcher -> IF ok THEN "publish" ELSE Loop
    [] t = Main    -> "watch"
    [] OTHER       -> IF ~forward[t] THEN "error" ELSE IF ok THEN "save" ELSE "restoreRoot"

Return(t, ok) ==
  /\ holder' = Nobody /\ refreshed' = ok
  /\ pc' = [pc EXCEPT ![t] = Continue(t, ok)]

Rescan(t) ==
  /\ pc[t] = "rescan"
  /\ \/ /\ sites' \in RootRead
        /\ Go(t, "rescan", "certs") /\ UNCHANGED <<holder, refreshed, bounds>>
     \/ Return(t, FALSE) /\ Fail /\ UNCHANGED sites
  /\ UNCHANGED <<config, store, staged, tree, hosts, published, watcher, locals, thrown>>

(* With HTTPS on the CA must be trusted and every site have its certificate. *)
Certs(t) ==
  /\ \/ Go(t, "certs", "stageSites") /\ UNCHANGED <<holder, refreshed, bounds>>
     \/ pc[t] = "certs" /\ config.https /\ Return(t, FALSE) /\ Fail
  /\ UNCHANGED <<config, store, active, published, watcher, locals, thrown>>

(* A path the code page does not have, a directory that cannot be read       *)
(* further, a file whose existence cannot be told.  The lock is released.    *)
RefreshThrows(t) ==
  /\ pc[t] \in InRefresh /\ Fail
  /\ \/ /\ t \in Setters /\ threw' = [threw EXCEPT ![t] = TRUE]
        /\ Go(t, pc[t], "error") /\ holder' = Nobody /\ refreshed' = FALSE
        /\ UNCHANGED <<config, store, active, published, watcher, locals, dropped>>
     \/ t \notin Setters /\ ProcessEnds

(* Without nginx the refresh goes on as if the tree had been activated.  Any *)
(* connection's service.rescan may have found it, or not, meanwhile.         *)
StageSites(t) ==
  /\ \/ Go(t, "stageSites", "stageConf") /\ UNCHANGED published
        /\ staged' = [staged EXCEPT !.root = sites, !.sites = config.https]
     \/ Go(t, "stageSites", "hosts") /\ published' = FALSE /\ UNCHANGED staged
  /\ UNCHANGED <<config, store, sites, tree, hosts, holder, refreshed, watcher, locals, thrown, bounds>>

StageConf(t) ==
  /\ Go(t, "stageConf", "activate")
  /\ staged' = [staged EXCEPT !.conf = config.https]
  /\ UNCHANGED <<config, store, sites, tree, hosts, holder, outcome, watcher, locals, thrown, bounds>>

(* nginx -t and the activation; a failure of either keeps the active tree.   *)
(* What may be left of the staging tree the next refresh removes.            *)
Activate(t) ==
  /\ \/ tree' = staged /\ published' = TRUE /\ Go(t, "activate", "hosts") /\ UNCHANGED <<holder, refreshed, bounds>>
     \/ pc[t] = "activate" /\ Return(t, FALSE) /\ Fail /\ UNCHANGED <<tree, published>>
  /\ staged' = NoTree
  /\ UNCHANGED <<config, store, sites, hosts, watcher, locals, thrown>>

SyncHosts(t) ==
  /\ \/ hosts' = sites /\ Go(t, "hosts", "restart") /\ UNCHANGED <<holder, refreshed, bounds>>
     \/ pc[t] = "hosts" /\ Return(t, FALSE) /\ Fail /\ UNCHANGED hosts
  /\ UNCHANGED <<config, store, sites, staged, tree, published, watcher, locals, thrown>>

RestartNginx(t) ==
  /\ pc[t] = "restart"
  /\ \/ Return(t, TRUE) /\ UNCHANGED bounds
     \/ Return(t, FALSE) /\ Fail
  /\ UNCHANGED <<config, store, active, published, watcher, locals, thrown>>

Refresh(t) ==
  \/ Lock(t) \/ Rescan(t) \/ Certs(t) \/ RefreshThrows(t) \/ StageSites(t) \/ StageConf(t)
  \/ Activate(t) \/ SyncHosts(t) \/ RestartNginx(t)

-----------------------------------------------------------------------------
(* config.set.                                                               *)

Serving == pc[Main] \in Watching \union {"idle"}

Others(s) == {o \in Setters \ {s} : pc[o] \in InConfigSet}

(* The catch answers; nothing is undone.                                     *)
Throw(s, from) == Go(s, from, "error") /\ threw' = [threw EXCEPT ![s] = TRUE] /\ Fail

(* A root_folder that is no string, or no path, throws before anything is    *)
(* assigned.                                                                 *)
Receive(s) ==
  /\ Serving
  /\ \/ Go(s, "idle", "assignRoot") /\ UNCHANGED <<threw, bounds>>
     \/ Throw(s, "idle")
  /\ \E given \in Requests : request' = [request EXCEPT ![s] = given]
  /\ \E r \in RootRead : previous' = [previous EXCEPT ![s] = [root |-> r, https |-> config.https]]
  /\ alone' = [o \in Setters |->
       CASE o = s           -> Others(s) = {}
         [] o \in Others(s) -> FALSE
         [] OTHER           -> alone[o]]
  /\ saved' = [saved EXCEPT ![s] = file]
  /\ UNCHANGED <<config, store, active, holder, outcome, watcher, forward, dropped>>

AssignRoot(s) ==
  /\ Go(s, "assignRoot", "assignHttps")
  /\ config' = [config EXCEPT !.root = request[s].root]
  /\ UNCHANGED <<store, active, holder, outcome, watcher, locals, thrown, bounds>>

(* Any of the three switches may be no boolean: https_enabled, or one of the *)
(* two that are read after it.                                               *)
AssignHttps(s) ==
  /\ \/ /\ Go(s, "assignHttps", "lock") /\ UNCHANGED <<thrown, bounds>>
        /\ config' = [config EXCEPT !.https = request[s].https]
     \/ /\ Throw(s, "assignHttps") /\ dropped' = TRUE
        /\ config' \in {config, [config EXCEPT !.https = request[s].https]}
  /\ UNCHANGED <<store, active, holder, outcome, watcher, locals>>

RestoreRoot(s) ==
  /\ Go(s, "restoreRoot", "restoreHttps")
  /\ config' = [config EXCEPT !.root = previous[s].root]
  /\ UNCHANGED <<store, active, holder, outcome, watcher, locals, thrown, bounds>>

RestoreHttpsWithoutRefresh(s) ==
  /\ Go(s, "restoreHttps", "error")
  /\ config' = [config EXCEPT !.https = previous[s].https]
  /\ UNCHANGED <<store, active, holder, outcome, watcher, locals, thrown, bounds>>

RestoreHttps(s) ==
  /\ Go(s, "restoreHttps", "lock")
  /\ config' = [config EXCEPT !.https = previous[s].https]
  /\ forward' = [forward EXCEPT ![s] = FALSE]
  /\ UNCHANGED <<store, active, holder, outcome, watcher, request, previous, alone, saved, thrown, bounds>>

(* ConfigStore::save writes config_ as it is now to a temporary file, which  *)
(* it renames over config.json; if that fails it removes config.json first.  *)
(* The stream is not asked whether it wrote all: with the disk full the file *)
(* is cut, and load() makes the defaults of it.                              *)
Write == cut' = FALSE /\ \E r \in RootRead : file' = [root |-> r, https |-> config.https]
WriteShort == cut' = TRUE /\ file' = Defaults

SaveWithoutUndo(s) ==
  /\ \/ Go(s, "save", "watch") /\ Write /\ UNCHANGED bounds
     \/ Go(s, "save", "error") /\ Fail /\ UNCHANGED store
  /\ UNCHANGED <<config, active, holder, outcome, watcher, locals, thrown>>

Save(s) ==
  /\ \/ Go(s, "save", "watch") /\ Write /\ UNCHANGED bounds
     \/ Go(s, "save", "watch") /\ WriteShort /\ Fail
     \/ Go(s, "save", "restoreRoot") /\ Fail /\ UNCHANGED store
     \/ Go(s, "save", "saveRemove") /\ Fail /\ UNCHANGED store
  /\ UNCHANGED <<config, active, holder, outcome, watcher, locals, thrown>>

SaveRemove(s) ==
  /\ Go(s, "saveRemove", "saveRetry")
  /\ file' \in {Defaults, file}
  /\ UNCHANGED <<config, cut, active, holder, outcome, watcher, locals, thrown, bounds>>

SaveRetry(s) ==
  /\ \/ Go(s, "saveRetry", "watch") /\ (Write \/ WriteShort)
     \/ Go(s, "saveRetry", "restoreRoot") /\ UNCHANGED store
  /\ UNCHANGED <<config, active, holder, outcome, watcher, locals, thrown, bounds>>

-----------------------------------------------------------------------------
(* The watcher: start(), by a config.set or by Engine::start, and its thread *)
(* outside the callback.  "read" is from the test of running_ to the end of  *)
(* ReadDirectoryChangesW, "ended" a thread that is over but not joined.      *)

JoinWithoutCancel(t) ==
  /\ pc[t] = "watch" /\ watching' = NoRoot
  /\ pc' = [pc EXCEPT ![t] = IF watching = NoRoot THEN "startWatcher" ELSE "join"]
  /\ UNCHANGED <<config, store, active, holder, outcome, missed, locals, thrown, bounds>>

(* CancelSynchronousIo ends the read if the thread is in it.  Before that it *)
(* is lost, as it is during the callback, after which running_ is tested.    *)
StopWatcher(t) ==
  /\ pc[t] = "watch" /\ watching' = NoRoot
  /\ IF watching = NoRoot
     THEN Go(t, "watch", "startWatcher") /\ UNCHANGED missed
     ELSE \/ /\ pc[Watcher] = "read"
             /\ pc' = [pc EXCEPT ![t] = "join", ![Watcher] = "ended"] /\ UNCHANGED missed
          \/ Go(t, "watch", "join") /\ missed' = (missed \/ pc[Watcher] = "read")
  /\ UNCHANGED <<config, store, active, holder, outcome, locals, thrown, bounds>>

JoinWatcher(t) ==
  /\ pc[t] = "join" /\ pc[Watcher] \in {"idle", "ended"}
  /\ pc' = [pc EXCEPT ![t] = "startWatcher", ![Watcher] = "idle"]
  /\ UNCHANGED <<config, store, active, holder, outcome, watcher, locals, thrown, bounds>>

AfterWatch(t) == IF t = Main THEN "idle" ELSE "ok"

(* Nothing to watch, or a new thread; one that cannot open the root is over  *)
(* at once.  The old one may still be joinable: another start came between.  *)
StartWatcher(t) ==
  \/ /\ Go(t, "startWatcher", AfterWatch(t))
     /\ UNCHANGED <<config, store, active, holder, outcome, watcher, locals, thrown, bounds>>
  \/ /\ pc[t] = "startWatcher" /\ pc[Watcher] = "idle"
     /\ \/ /\ watching' \in RootRead \ {NoRoot} /\ UNCHANGED bounds
           /\ pc' = [pc EXCEPT ![t] = AfterWatch(t), ![Watcher] = "read"]
        \/ /\ Fail /\ UNCHANGED watching
           /\ pc' = [pc EXCEPT ![t] = AfterWatch(t), ![Watcher] = "ended"]
     /\ UNCHANGED <<config, store, active, holder, outcome, missed, locals, thrown>>
  \/ pc[t] = "startWatcher" /\ pc[Watcher] # "idle" /\ ProcessEnds /\ UNCHANGED bounds

Watch(t) == StopWatcher(t) \/ JoinWatcher(t) \/ StartWatcher(t)

(* publish_sites_changed throws on a name that is not UTF-8.                 *)
PublishChange ==
  \/ /\ Go(Watcher, "publish", Loop)
     /\ UNCHANGED <<config, store, active, holder, outcome, watcher, locals, thrown, bounds>>
  \/ pc[Watcher] = "publish" /\ Fail /\ ProcessEnds

(* The answer of a config.set, after the events that announce it.            *)
Answer(s) ==
  \/ /\ Go(s, "ok", "answered") \/ Go(s, "error", "answered")
     /\ forward' = [forward EXCEPT ![s] = TRUE] /\ alone' = [alone EXCEPT ![s] = TRUE]
     /\ request' = [request EXCEPT ![s] = Defaults] /\ previous' = [previous EXCEPT ![s] = Defaults]
     /\ saved' = [saved EXCEPT ![s] = Defaults]
     /\ UNCHANGED <<config, store, active, holder, outcome, watcher, thrown, bounds>>
  \/ /\ Throw(s, "ok")
     /\ UNCHANGED <<config, store, active, holder, outcome, watcher, locals, dropped>>

ConfigSet(s) ==
  \/ AssignRoot(s) \/ AssignHttps(s) \/ RestoreRoot(s) \/ RestoreHttps(s)
  \/ Save(s) \/ SaveRemove(s) \/ SaveRetry(s) \/ Watch(s) \/ Answer(s)

-----------------------------------------------------------------------------
(* A change of the root, a crash and the next start.                         *)

(* A read whose stop was missed ends the thread without the callback.        *)
FolderChanges ==
  /\ changes < MaxChanges /\ changes' = changes + 1
  /\ Go(Watcher, "read", IF watching = NoRoot THEN "ended" ELSE "lock")
  /\ UNCHANGED <<config, store, active, holder, outcome, watcher, locals, thrown, failures, crashes>>

Crash ==
  /\ pc[Main] # "down" /\ crashes < MaxCrashes /\ crashes' = crashes + 1
  /\ ProcessEnds /\ UNCHANGED <<failures, changes>>

StartEngine ==
  /\ Go(Main, "down", "lock")
  /\ config' = file
  /\ UNCHANGED <<store, active, holder, outcome, watcher, locals, thrown, bounds>>

Next ==
  \/ \E t \in Threads : Refresh(t)
  \/ \E s \in Setters : Receive(s) \/ ConfigSet(s)
  \/ Watch(Main) \/ PublishChange \/ FolderChanges \/ Crash \/ StartEngine

(* Every thread that can run runs; requests, changes and crashes happen when *)
(* they like.  The mutex need not be fair: the watcher contends for it once  *)
(* for each change.                                                          *)
Fairness ==
  /\ \A t \in Threads : WF_vars(Refresh(t))
  /\ \A s \in Setters : WF_vars(ConfigSet(s))
  /\ WF_vars(Watch(Main)) /\ WF_vars(PublishChange)

Spec == Init /\ [][Next]_vars /\ Fairness

-----------------------------------------------------------------------------
(* Properties.                                                               *)

TreeOf(c) == [root |-> c.root, sites |-> c.https, conf |-> c.https]

(* handle_message 400-443: a config.set that no other one overlapped takes   *)
(* effect as a whole or not at all.  If it is about to answer ok, config_,   *)
(* config.json, the hosts file and, nginx being published, the active tree    *)
(* are the request's; config.json may have been cut by a full disk.  If it   *)
(* returns an error, config_ is what it was, config.json too or it is gone,  *)
(* and so are the tree and the hosts file if the last refresh went through,  *)
(* whichever step had failed and whatever refreshes of the watcher ran in    *)
(* between.  An exception undoes nothing: all it keeps to is that            *)
(* config.json holds the new settings only if config_ does.                  *)
Applied(c) == hosts = c.root /\ (published => tree = TreeOf(c))

ConfigSetIsAtomic ==
  \A s \in Setters : alone[s] =>
    /\ pc[s] = "ok" =>
         /\ config = request[s] /\ Applied(request[s])
         /\ file = request[s] \/ (cut /\ file = Defaults)
    /\ pc[s] = "error" /\ ~threw[s] =>
         /\ config = previous[s] /\ file \in {saved[s], Defaults}
         /\ refreshed /\ holder = Nobody => Applied(previous[s])
    /\ pc[s] = "error" /\ threw[s] =>
         file \in {saved[s], Defaults} \/ (file = request[s] /\ config = request[s])

(* engine.cpp 208-228 and 400-443: every write of config_ is followed by a   *)
(* refresh of the thread that wrote it, unless an exception comes between.   *)
(* So when nobody writes or refreshes and the last refresh succeeded, the    *)
(* hosts file and, nginx being published, the tree are those of config_,      *)
(* however many config.set overlapped, and also after the process ended and  *)
(* was started again.                                                        *)
Settled == \A t \in Threads : pc[t] \notin Assigning \union InRefresh \union {"lock", "down"}
SettledTreeAgrees == Settled /\ refreshed /\ ~dropped => Applied(config)

(* handle_message 400-443 with folder_watcher.cpp 8-35: joining the watcher  *)
(* while it waits for refresh_mutex_, and refreshing again to undo, never    *)
(* block for ever: every config.set is answered, or the process ends.  The   *)
(* exception is a thread that missed the cancellation: the request that      *)
(* joins it waits until something changes in the old root, and is answered   *)
(* after that.                                                               *)
Deaf(t) == missed /\ pc[t] = "join" /\ pc[Watcher] = "read"

EveryRequestIsAnswered ==
  \A s \in Setters : (pc[s] \in InConfigSet /\ ~Deaf(s)) ~> (pc[s] = "answered" \/ Deaf(s))

(* common/config.hpp:8, "Persisted application settings shared by engine and *)
(* UI.": when nobody is at work, config.json holds the Engine's settings.    *)
(* Of two config.set that overlap, one may save the other's values, which    *)
(* that one then takes back after its own refresh failed: the rejected       *)
(* settings stay in config.json, and the next start of the Engine adopts     *)
(* them.  Exceptions and a full disk, which need no overlap, are set aside.  *)
SettledFileAgrees ==
  /\ \A t \in Threads : pc[t] \in {"idle", "answered", "read"}
  /\ ~cut /\ \A s \in Setters : ~threw[s]
  => file = config
=============================================================================
