-------------------------- MODULE EngineConfigProofs --------------------------
(***************************************************************************)
(* EngineConfig, for any number of config.set requests, roots, failures,   *)
(* folder changes and crashes: type correctness, that one refresh runs at  *)
(* a time, that the active tree and the hosts file agree with config_ when *)
(* nobody is at work on it, that a config.set happens as a whole or not at *)
(* all, and that nobody waits for ever except behind a cancellation that   *)
(* was missed.                                                             *)
(***************************************************************************)
EXTENDS EngineConfig, TLAPS

(* What the conjuncts of TypeOK about the threads say.                       *)
LEMMA Names ==
  /\ Nobody \notin Threads /\ Watcher \in Threads /\ Main \in Threads /\ Setters \subseteq Threads
  /\ Watcher \notin Setters /\ Main \notin Setters /\ Watcher # Main
BY NamesAssumption DEF Threads, Nobody, Watcher, Main

LEMMA RootReadType == TypeOK => RootRead \subseteq AnyRoot
BY DEF RootRead, TypeOK, Settings

(* A step outside the refreshes moves a thread that is not in one to where   *)
(* it is not in one.                                                         *)
LEMMA MoveType ==
  ASSUME TypeOK, holder' = holder,
         \A u \in Threads : pc'[u] = pc[u] \/ (pc[u] \notin InRefresh /\ pc'[u] \notin InRefresh)
  PROVE  \A u \in Threads : pc'[u] \in InRefresh <=> holder' = u
BY DEF TypeOK

LEMMA GoType ==
  ASSUME TypeOK, NEW t \in Threads, NEW from, NEW to \in PCs, Go(t, from, to),
         to \in InRefresh <=> from \in InRefresh, holder' = holder
  PROVE  /\ pc' \in [Threads -> PCs]
         /\ \A u \in Threads : pc'[u] \in InRefresh <=> holder' = u
<1>1. pc \in [Threads -> PCs] /\ pc[t] = from /\ pc' = [pc EXCEPT ![t] = to]
  BY DEF TypeOK, Go
<1>2. \A u \in Threads : pc'[u] = IF u = t THEN to ELSE pc[u]
  BY <1>1
<1> QED
  BY <1>1, <1>2 DEF TypeOK

(* Where a refresh returns to.                                               *)
Returned == {"publish", "read", "ended", "watch", "error", "save", "restoreRoot"}

LEMMA ReturnType ==
  ASSUME TypeOK, NEW t \in Threads, NEW ok \in BOOLEAN, pc[t] \in InRefresh, Return(t, ok)
  PROVE  /\ pc' \in [Threads -> PCs] /\ holder' \in Threads \union {Nobody} /\ refreshed' \in BOOLEAN
         /\ \A u \in Threads : pc'[u] \in InRefresh <=> holder' = u
         /\ pc'[t] \notin InRefresh \union {"lock", "down"} /\ \A u \in Threads \ {t} : pc'[u] = pc[u]
<1>1. Continue(t, ok) \in Returned
  BY DEF Continue, Loop, Returned
<1>2. /\ pc' = [pc EXCEPT ![t] = Continue(t, ok)] /\ holder' = Nobody /\ refreshed' = ok
      /\ pc \in [Threads -> PCs] /\ \A u \in Threads : pc[u] \in InRefresh <=> holder = u
  BY DEF Return, TypeOK
<1>3. \A u \in Threads \ {t} : pc'[u] = pc[u] /\ pc[u] \notin InRefresh
  BY <1>2
<1>4. pc'[t] = Continue(t, ok) /\ Continue(t, ok) \notin InRefresh \union {"lock", "down"} /\ Continue(t, ok) \in PCs
  BY <1>1, <1>2 DEF Returned, InRefresh, PCs, InConfigSet, Assigning, Saving, Watching
<1> QED
  BY <1>2, <1>3, <1>4, Names

-----------------------------------------------------------------------------
(* Type correctness.                                                         *)

LEMMA FailType == ASSUME TypeOK, Fail PROVE failures' \in 0..MaxFailures /\ UNCHANGED <<changes, crashes>>
BY BoundsAssumption DEF Fail, TypeOK

LEMMA InitType == Init => TypeOK
<1> SUFFICES ASSUME Init PROVE TypeOK
  OBVIOUS
<1>1. Defaults \in Settings /\ NoTree \in Trees /\ NoRoot \in AnyRoot
  BY DEF Defaults, Settings, NoTree, Trees, AnyRoot
<1>2. pc \in [Threads -> PCs] /\ \A t \in Threads : pc[t] \notin InRefresh
  BY DEF Init, PCs, InConfigSet, InRefresh
<1>3. /\ forward \in [Setters -> BOOLEAN] /\ alone \in [Setters -> BOOLEAN] /\ threw \in [Setters -> BOOLEAN]
      /\ previous \in [Setters -> Settings] /\ request \in [Setters -> Settings]
      /\ saved \in [Setters -> Settings]
  BY <1>1 DEF Init
<1>4. /\ holder = Nobody /\ failures \in 0..MaxFailures /\ changes \in 0..MaxChanges /\ crashes \in 0..MaxCrashes
  BY BoundsAssumption DEF Init
<1>5. \A t \in Threads : pc[t] \in InRefresh <=> holder = t
  BY <1>2, <1>4, Names
<1>6. {refreshed, cut, published, missed, dropped} \subseteq BOOLEAN
  BY DEF Init
<1> QED
  BY <1>1, <1>2, <1>3, <1>4, <1>5, <1>6 DEF Init, TypeOK

(* The end of the process leaves nobody in a refresh.                        *)
LEMMA EndType ==
  ASSUME TypeOK, ProcessEnds,
         failures' \in 0..MaxFailures, changes' \in 0..MaxChanges, crashes' \in 0..MaxCrashes
  PROVE  TypeOK'
<1>1. \A t \in Threads : pc'[t] \in {"down", "answered", "idle"}
  BY DEF ProcessEnds
<1>2. /\ pc' \in [Threads -> PCs] /\ holder' = Nobody
  BY DEF ProcessEnds, PCs
<1>3. \A u \in Threads : pc'[u] \in InRefresh <=> holder' = u
  BY <1>1, <1>2, Names DEF InRefresh
<1>4. Defaults \in Settings /\ NoRoot \in AnyRoot
  BY DEF Defaults, Settings, AnyRoot
<1>5. /\ forward' \in [Setters -> BOOLEAN] /\ alone' \in [Setters -> BOOLEAN]
      /\ request' \in [Setters -> Settings] /\ previous' \in [Setters -> Settings] /\ saved' \in [Setters -> Settings]
  BY <1>4 DEF ProcessEnds
<1> QED
  BY <1>2, <1>3, <1>4, <1>5 DEF ProcessEnds, TypeOK, store, outcome, thrown

LEMMA RefreshType == TypeOK => \A t \in Threads : Refresh(t) => TypeOK'
<1> SUFFICES ASSUME TypeOK, NEW t \in Threads, Refresh(t) PROVE TypeOK'
  OBVIOUS
<1> USE DEF PCs, InConfigSet, InRefresh, active, store, outcome, watcher, thrown, locals, bounds
<1>1. CASE Lock(t)
  <2>1. pc' \in [Threads -> PCs] /\ \A u \in Threads : pc'[u] \in InRefresh <=> holder' = u
    <3>1. pc' = [pc EXCEPT ![t] = "rescan"] /\ pc \in [Threads -> PCs] /\ holder = Nobody /\ holder' = t
      BY <1>1 DEF Lock, Go, TypeOK
    <3>2. \A u \in Threads : pc[u] \notin InRefresh
      BY <3>1, Names DEF TypeOK
    <3> QED
      BY <3>1, <3>2
  <2> QED
    BY <1>1, <2>1 DEF Lock, TypeOK
<1>2. ASSUME pc[t] \in InRefresh, Return(t, TRUE) \/ Return(t, FALSE), failures' \in 0..MaxFailures,
             UNCHANGED <<config, store, sites, tree, hosts, published, watcher, thrown, locals, changes, crashes>>,
             staged' \in Trees
      PROVE  TypeOK'
  BY <1>2, ReturnType DEF TypeOK
<1>3. ASSUME NEW from, NEW to \in InRefresh, from \in InRefresh, Go(t, from, to),
             UNCHANGED <<config, store, holder, refreshed, watcher, thrown, locals, bounds>>, published' \in BOOLEAN,
             sites' \in AnyRoot, staged' \in Trees, tree' \in Trees, hosts' \in AnyRoot
      PROVE  TypeOK'
  <2>1. pc' \in [Threads -> PCs] /\ \A u \in Threads : pc'[u] \in InRefresh <=> holder' = u
    BY <1>3, GoType
  <2> QED
    BY <1>3, <2>1 DEF TypeOK
<1>4. sites \in AnyRoot /\ staged \in Trees /\ tree \in Trees /\ hosts \in AnyRoot /\ config.https \in BOOLEAN
      /\ failures \in 0..MaxFailures /\ published \in BOOLEAN /\ NoTree \in Trees
  BY DEF TypeOK, Settings, NoTree, Trees, AnyRoot
<1>5. CASE Rescan(t)
  BY <1>2, <1>3, <1>4, <1>5, RootReadType, FailType DEF Rescan, Go
<1>6. CASE Certs(t)
  BY <1>2, <1>3, <1>4, <1>6, FailType DEF Certs, Go
<1>7. CASE StageSites(t) \/ StageConf(t)
  BY <1>3, <1>4, <1>7 DEF StageSites, StageConf, Go, Trees
<1>8. CASE Activate(t) \/ SyncHosts(t)
  BY <1>2, <1>3, <1>4, <1>8, FailType DEF Activate, SyncHosts, Go
<1>9. CASE RestartNginx(t)
  BY <1>2, <1>4, <1>9, FailType DEF RestartNginx
<1>10. CASE RefreshThrows(t)
  <2>1. failures' \in 0..MaxFailures /\ UNCHANGED <<changes, crashes>>
    BY <1>10, FailType DEF RefreshThrows
  <2>2. CASE ProcessEnds
    BY <2>1, <2>2, EndType DEF TypeOK
  <2>3. CASE ~ProcessEnds
    <3>1. /\ pc' = [pc EXCEPT ![t] = "error"] /\ holder' = Nobody /\ refreshed' = FALSE /\ pc[t] \in InRefresh
          /\ t \in Setters /\ threw' = [threw EXCEPT ![t] = TRUE]
          /\ UNCHANGED <<config, store, active, published, watcher, locals, dropped>>
      BY <1>10, <2>3 DEF RefreshThrows, Go
    <3>2. pc \in [Threads -> PCs] /\ \A u \in Threads \ {t} : pc'[u] = pc[u] /\ pc[u] \notin InRefresh
      BY <3>1 DEF TypeOK
    <3>3. pc' \in [Threads -> PCs] /\ \A u \in Threads : pc'[u] \in InRefresh <=> holder' = u
      BY <3>1, <3>2, Names
    <3> QED
      BY <2>1, <3>1, <3>3 DEF TypeOK
  <2> QED
    BY <2>2, <2>3
<1> QED
  BY <1>1, <1>5, <1>6, <1>7, <1>8, <1>9, <1>10 DEF Refresh

(* The folder watcher's start, by any thread.                                *)
LEMMA WatchType == TypeOK => \A t \in Setters \union {Main} : Watch(t) => TypeOK'
<1> SUFFICES ASSUME TypeOK, NEW t \in Setters \union {Main}, Watch(t) PROVE TypeOK'
  OBVIOUS
<1> USE DEF active, store, outcome, watcher, thrown, locals, bounds
<1>0. /\ t \in Threads /\ t # Watcher /\ Watcher \in Threads /\ RootRead \subseteq AnyRoot /\ NoRoot \in AnyRoot
      /\ pc \in [Threads -> PCs] /\ failures \in 0..MaxFailures
  BY Names, RootReadType DEF TypeOK, AnyRoot
<1>1. {"watch", "join", "startWatcher", "ok", "idle", "read", "ended"} \subseteq PCs \ InRefresh
  BY DEF PCs, InConfigSet, Watching, InRefresh
<1>2. ASSUME NEW to \in {"join", "startWatcher", "ok", "idle"}, NEW for \in {"idle", "read", "ended"},
             pc[t] \in {"watch", "join", "startWatcher"},
             \/ pc' = [pc EXCEPT ![t] = to]
             \/ /\ pc' = [pc EXCEPT ![t] = to, ![Watcher] = for]
                /\ pc[Watcher] \in {"idle", "read", "ended"},
             UNCHANGED <<config, store, active, holder, outcome, locals, thrown, changes, crashes>>,
             watching' \in AnyRoot, missed' \in BOOLEAN, failures' \in 0..MaxFailures
      PROVE  TypeOK'
  <2>1. pc' \in [Threads -> PCs]
    BY <1>0, <1>1, <1>2
  <2>2. \A u \in Threads : pc'[u] = pc[u] \/ (pc[u] \notin InRefresh /\ pc'[u] \notin InRefresh)
    BY <1>0, <1>1, <1>2
  <2>3. \A u \in Threads : pc'[u] \in InRefresh <=> holder' = u
    BY <1>2, <2>2, MoveType
  <2> QED
    BY <1>2, <2>1, <2>3 DEF TypeOK
<1>3. CASE StopWatcher(t)
  <2>1. watching' \in AnyRoot /\ missed' \in BOOLEAN /\ failures' \in 0..MaxFailures
    BY <1>0, <1>3 DEF StopWatcher, TypeOK
  <2>2. /\ pc[t] = "watch"
        /\ UNCHANGED <<config, store, active, holder, outcome, locals, thrown, bounds>>
        /\ \/ pc' = [pc EXCEPT ![t] = "startWatcher"] \/ pc' = [pc EXCEPT ![t] = "join"]
           \/ pc[Watcher] = "read" /\ pc' = [pc EXCEPT ![t] = "join", ![Watcher] = "ended"]
    BY <1>3 DEF StopWatcher, Go
  <2> QED
    BY <1>2, <2>1, <2>2
<1>4. CASE JoinWatcher(t)
  <2>1. /\ pc[t] = "join" /\ pc[Watcher] \in {"idle", "ended"}
        /\ pc' = [pc EXCEPT ![t] = "startWatcher", ![Watcher] = "idle"]
        /\ UNCHANGED <<config, store, active, holder, outcome, watcher, locals, thrown, bounds>>
    BY <1>4 DEF JoinWatcher
  <2>2. watching' \in AnyRoot /\ missed' \in BOOLEAN /\ failures' \in 0..MaxFailures
    BY <1>0, <2>1 DEF TypeOK
  <2> QED
    BY <1>2, <2>1, <2>2
<1>5. CASE StartWatcher(t)
  <2>1. CASE ProcessEnds /\ UNCHANGED bounds
    BY <2>1, EndType DEF TypeOK
  <2>2. CASE ~(ProcessEnds /\ UNCHANGED bounds)
    <3>1. AfterWatch(t) \in {"ok", "idle"}
      BY DEF AfterWatch
    <3>2. failures' \in 0..MaxFailures /\ UNCHANGED <<changes, crashes>>
      BY <1>0, <1>5, <2>2, FailType DEF StartWatcher
    <3>3. watching' \in AnyRoot /\ missed' \in BOOLEAN
      BY <1>0, <1>5, <2>2 DEF StartWatcher, TypeOK
    <3> QED
      BY <1>2, <1>5, <2>2, <3>1, <3>2, <3>3 DEF StartWatcher, Go
  <2> QED
    BY <2>1, <2>2
<1> QED
  BY <1>3, <1>4, <1>5 DEF Watch

LEMMA ConfigSetType == TypeOK => \A s \in Setters : Receive(s) \/ ConfigSet(s) => TypeOK'
<1> SUFFICES ASSUME TypeOK, NEW s \in Setters, Receive(s) \/ ConfigSet(s) PROVE TypeOK'
  OBVIOUS
<1> USE DEF active, store, outcome, watcher, thrown, locals, bounds
<1>0. /\ s \in Threads /\ RootRead \subseteq AnyRoot /\ failures \in 0..MaxFailures
      /\ config \in Settings /\ request[s] \in Settings /\ previous[s] \in Settings
      /\ Defaults \in Settings /\ Requests \subseteq Settings
      /\ config.root \in AnyRoot /\ config.https \in BOOLEAN
  BY Names, RootReadType DEF TypeOK, Settings, Requests, AnyRoot, Defaults
<1>1. ASSUME NEW from, NEW to \in PCs \ InRefresh, from \notin InRefresh, Go(s, from, to),
             UNCHANGED <<active, holder, outcome, watcher, changes, crashes>>,
             config' \in Settings, file' \in Settings, cut' \in BOOLEAN,
             request' \in [Setters -> Settings], previous' \in [Setters -> Settings], saved' \in [Setters -> Settings],
             forward' \in [Setters -> BOOLEAN], alone' \in [Setters -> BOOLEAN], threw' \in [Setters -> BOOLEAN],
             dropped' \in BOOLEAN, failures' \in 0..MaxFailures
      PROVE  TypeOK'
  <2>1. pc' \in [Threads -> PCs] /\ \A u \in Threads : pc'[u] \in InRefresh <=> holder' = u
    BY <1>0, <1>1, GoType
  <2> QED
    BY <1>1, <2>1 DEF TypeOK
<1>2. /\ previous \in [Setters -> Settings] /\ saved \in [Setters -> Settings] /\ request \in [Setters -> Settings]
      /\ forward \in [Setters -> BOOLEAN] /\ alone \in [Setters -> BOOLEAN] /\ threw \in [Setters -> BOOLEAN]
      /\ file \in Settings /\ cut \in BOOLEAN /\ dropped \in BOOLEAN
      /\ Assigning \union Saving \union {"lock", "watch", "ok", "error", "answered", "idle"} \subseteq PCs \ InRefresh
  BY DEF TypeOK, PCs, InConfigSet, InRefresh, Assigning, Saving, Watching
<1>3. CASE Receive(s)
  <2>1. alone' \in [Setters -> BOOLEAN]
    BY <1>2, <1>3 DEF Receive
  <2>2. previous' \in [Setters -> Settings] /\ saved' \in [Setters -> Settings] /\ request' \in [Setters -> Settings]
    BY <1>0, <1>2, <1>3 DEF Receive, Settings
  <2>3. /\ Go(s, "idle", "assignRoot") \/ Go(s, "idle", "error")
        /\ threw' \in [Setters -> BOOLEAN] /\ failures' \in 0..MaxFailures /\ UNCHANGED <<changes, crashes>>
    BY <1>0, <1>2, <1>3, FailType DEF Receive, Throw
  <2>4. UNCHANGED <<config, store, active, holder, outcome, watcher, forward, dropped>>
    BY <1>3 DEF Receive
  <2> QED
    BY <1>0, <1>1, <1>2, <2>1, <2>2, <2>3, <2>4 DEF Assigning
<1>4. CASE AssignRoot(s) \/ RestoreRoot(s) \/ RestoreHttps(s)
  <2>1. config' \in Settings /\ forward' \in [Setters -> BOOLEAN]
    BY <1>0, <1>2, <1>4 DEF AssignRoot, RestoreRoot, RestoreHttps, Settings
  <2> QED
    BY <1>0, <1>1, <1>2, <1>4, <2>1 DEF AssignRoot, RestoreRoot, RestoreHttps, Assigning
<1>5. CASE AssignHttps(s)
  <2>1. config' \in Settings
    BY <1>0, <1>5 DEF AssignHttps, Settings
  <2>2. /\ Go(s, "assignHttps", "lock") \/ Go(s, "assignHttps", "error")
        /\ threw' \in [Setters -> BOOLEAN] /\ dropped' \in BOOLEAN
        /\ failures' \in 0..MaxFailures /\ UNCHANGED <<changes, crashes>>
    BY <1>0, <1>2, <1>5, FailType DEF AssignHttps, Throw
  <2> QED
    BY <1>0, <1>1, <1>2, <1>5, <2>1, <2>2 DEF AssignHttps, Assigning
<1>6. CASE Save(s) \/ SaveRemove(s) \/ SaveRetry(s)
  <2>1. file' \in Settings /\ cut' \in BOOLEAN
    <3>1. Write \/ WriteShort \/ (file' \in {Defaults, file} /\ cut' = cut)
      BY <1>6 DEF Save, SaveRemove, SaveRetry
    <3>2. RootRead \subseteq AnyRoot /\ config.https \in BOOLEAN
      BY <1>0
    <3>3. Write => file' \in Settings /\ cut' \in BOOLEAN
      <4>1. \A r \in AnyRoot, h \in BOOLEAN : [root |-> r, https |-> h] \in Settings
        BY DEF Settings
      <4> QED
        BY <3>2, <4>1 DEF Write
    <3> QED
      BY <1>0, <1>2, <3>1, <3>3 DEF WriteShort
  <2>2. failures' \in 0..MaxFailures /\ UNCHANGED <<changes, crashes>>
    BY <1>0, <1>2, <1>6, FailType DEF Save, SaveRemove, SaveRetry
  <2>3. \E from \in Saving, to \in Saving \union {"watch", "restoreRoot"} : Go(s, from, to)
    BY <1>6 DEF Save, SaveRemove, SaveRetry, Saving
  <2>4. UNCHANGED <<config, active, holder, outcome, watcher, locals, thrown>>
    BY <1>6 DEF Save, SaveRemove, SaveRetry
  <2> QED
    BY <1>0, <1>1, <1>2, <2>1, <2>2, <2>3, <2>4 DEF Assigning
<1>7. CASE Watch(s)
  BY <1>7, WatchType
<1>8. CASE Answer(s)
  <2>3. PICK from \in {"ok", "error"}, to \in {"answered", "error"} : Go(s, from, to)
    BY <1>8 DEF Answer, Throw
  <2>1. /\ threw' \in [Setters -> BOOLEAN] /\ failures' \in 0..MaxFailures /\ UNCHANGED <<changes, crashes>>
        /\ UNCHANGED <<config, store, active, holder, outcome, watcher, dropped>>
    BY <1>0, <1>2, <1>8, FailType DEF Answer, Throw
  <2>2. /\ request' \in [Setters -> Settings] /\ previous' \in [Setters -> Settings] /\ saved' \in [Setters -> Settings]
        /\ forward' \in [Setters -> BOOLEAN] /\ alone' \in [Setters -> BOOLEAN]
    <3>1. CASE UNCHANGED locals
      BY <1>2, <3>1
    <3>2. CASE ~UNCHANGED locals
      <4>1. /\ forward' = [forward EXCEPT ![s] = TRUE] /\ alone' = [alone EXCEPT ![s] = TRUE]
            /\ request' = [request EXCEPT ![s] = Defaults] /\ previous' = [previous EXCEPT ![s] = Defaults]
            /\ saved' = [saved EXCEPT ![s] = Defaults]
        BY <1>8, <3>2 DEF Answer
      <4>2. /\ request' \in [Setters -> Settings] /\ previous' \in [Setters -> Settings]
            /\ saved' \in [Setters -> Settings]
        BY <1>0, <1>2, <4>1
      <4> QED
        BY <1>2, <4>1, <4>2
    <3> QED
      BY <3>1, <3>2
  <2>4. config' \in Settings /\ file' \in Settings /\ cut' \in BOOLEAN /\ dropped' \in BOOLEAN
    BY <1>0, <1>2, <2>1
  <2> QED
    BY <1>1, <1>2, <2>1, <2>2, <2>3, <2>4
<1> QED
  BY <1>3, <1>4, <1>5, <1>6, <1>7, <1>8 DEF ConfigSet

LEMMA EnvironmentType == TypeOK /\ (PublishChange \/ FolderChanges \/ Crash \/ StartEngine) => TypeOK'
<1> SUFFICES ASSUME TypeOK, PublishChange \/ FolderChanges \/ Crash \/ StartEngine PROVE TypeOK'
  OBVIOUS
<1> USE DEF active, store, outcome, watcher, thrown, locals, bounds
<1>0. {"lock", "idle", "down", "read", "ended", "publish"} \subseteq PCs \ InRefresh
  BY DEF PCs, InConfigSet, InRefresh
<1>1. CASE PublishChange
  <2>1. CASE Go(Watcher, "publish", Loop)
                /\ UNCHANGED <<config, store, active, holder, outcome, watcher, locals, thrown, bounds>>
    <3>1. PICK to \in PCs \ InRefresh : Go(Watcher, "publish", to)
      BY <1>0, <2>1 DEF Loop
    <3>2. pc' \in [Threads -> PCs] /\ \A u \in Threads : pc'[u] \in InRefresh <=> holder' = u
      BY <1>0, <2>1, <3>1, GoType, Names
    <3> QED
      BY <2>1, <3>2 DEF TypeOK
  <2>2. CASE Fail /\ ProcessEnds
    BY <2>2, FailType, EndType DEF TypeOK
  <2> QED
    BY <1>1, <2>1, <2>2 DEF PublishChange
<1>2. CASE FolderChanges
  <2>1. pc' \in [Threads -> PCs] /\ \A u \in Threads : pc'[u] \in InRefresh <=> holder' = u
    BY <1>0, <1>2, GoType, Names DEF FolderChanges
  <2>2. changes' \in 0..MaxChanges
    BY <1>2, BoundsAssumption DEF FolderChanges, TypeOK
  <2> QED
    BY <1>2, <2>1, <2>2 DEF FolderChanges, TypeOK
<1>3. CASE Crash
  <2>1. crashes' \in 0..MaxCrashes
    BY <1>3, BoundsAssumption DEF Crash, TypeOK
  <2> QED
    BY <1>3, <2>1, EndType DEF Crash, TypeOK
<1>4. CASE StartEngine
  <2>1. pc' \in [Threads -> PCs] /\ \A u \in Threads : pc'[u] \in InRefresh <=> holder' = u
    BY <1>0, <1>4, GoType, Names DEF StartEngine
  <2> QED
    BY <1>4, <2>1 DEF StartEngine, TypeOK
<1> QED
  BY <1>1, <1>2, <1>3, <1>4

LEMMA TypeStep == TypeOK /\ [Next]_vars => TypeOK'
<1> SUFFICES ASSUME TypeOK, [Next]_vars PROVE TypeOK'
  OBVIOUS
<1>1. CASE UNCHANGED vars
  BY <1>1 DEF TypeOK, vars, active, store, outcome, watcher, thrown, locals, bounds
<1> QED
  BY <1>1, RefreshType, ConfigSetType, WatchType, EnvironmentType DEF Next

(* The variables have their types, and whoever is in a refresh holds         *)
(* refresh_mutex_, so that two refreshes never run at once.                  *)
THEOREM TypeCorrect == Spec => []TypeOK
BY InitType, TypeStep, PTL DEF Spec

-----------------------------------------------------------------------------
(* The tree and the settings.  While nobody is writing config_, or has       *)
(* written it and is still to refresh, a refresh under way has taken         *)
(* everything so far from the config_ there is, and what a refresh that      *)
(* succeeded has left is what config_ says.  An exception after a write      *)
(* suspends this until the next refresh begins.                              *)
Writing == Assigning \union {"lock"}
Calm    == pc[Main] # "down" /\ \A t \in Threads \ {Watcher} : pc[t] \notin Writing

Taken(step) ==
  /\ step \in InRefresh \ {"rescan"} => sites = config.root
  /\ step \in {"stageConf", "activate"} => staged.root = config.root /\ staged.sites = config.https
  /\ step = "activate" => staged.conf = config.https
  /\ step \in {"hosts", "restart"} /\ published => tree = TreeOf(config)
  /\ step = "restart" => hosts = config.root

Agrees == refreshed => Applied(config)

Agreement ==
  Calm /\ ~dropped =>
    /\ \A t \in Threads : Taken(pc[t])
    /\ holder = Nobody => Agrees

LEMMA InitAgreement == Init => Agreement
<1> SUFFICES ASSUME Init PROVE ~Calm
  BY DEF Agreement
<1>1. pc[Main] = "lock"
  BY Names DEF Init
<1> QED
  BY <1>1, Names DEF Calm, Writing

LEMMA GoMoves ==
  ASSUME TypeOK, NEW t \in Threads, NEW from, NEW to, Go(t, from, to)
  PROVE  pc[t] = from /\ \A u \in Threads : pc'[u] = IF u = t THEN to ELSE pc[u]
BY DEF Go, TypeOK

(* Nothing settles config_ but a refresh.                                    *)
LEMMA CalmBefore ==
  ASSUME TypeOK, NEW t \in Threads, NEW from, NEW to, Go(t, from, to), from \notin Writing \union {"down"}, Calm'
  PROVE  Calm
BY GoMoves, Names DEF Calm, Writing

LEMMA StillWriting ==
  ASSUME TypeOK, NEW t \in Threads \ {Watcher}, NEW from, NEW to \in Writing, Go(t, from, to)
  PROVE  ~Calm'
BY GoMoves DEF Calm, Writing, Assigning

LEMMA EndIsNotCalm == ASSUME TypeOK, ProcessEnds PROVE ~Calm'
<1>1. pc'[Main] = "down"
  BY Names DEF ProcessEnds
<1> QED
  BY <1>1 DEF Calm

LEMMA CalmRoot == TypeOK /\ Calm => RootRead = {config.root}
BY Names DEF Calm, Writing, Assigning, RootRead

(* A refresh keeps the agreement, and makes it.                              *)
LEMMA RefreshAgreement == TypeOK /\ Agreement => \A t \in Threads : Refresh(t) => Agreement'
<1> SUFFICES ASSUME TypeOK, Agreement, NEW t \in Threads, Refresh(t), Calm', ~dropped'
             PROVE  (\A u \in Threads : Taken(pc[u])') /\ (holder' = Nobody => Agrees')
  BY DEF Agreement
<1> USE DEF active, store, outcome, locals, bounds
<1>0. UNCHANGED config /\ (dropped' = dropped \/ Lock(t)) /\ ~ProcessEnds
  <2>1. ~ProcessEnds
    BY EndIsNotCalm
  <2> QED
    BY <2>1 DEF Refresh, Lock, Rescan, Certs, RefreshThrows, StageSites, StageConf, Activate, SyncHosts, RestartNginx,
                thrown
<1>1. CASE Lock(t)
  <2>1. /\ pc' = [pc EXCEPT ![t] = "rescan"] /\ pc \in [Threads -> PCs] /\ holder = Nobody /\ holder' = t
    BY <1>1 DEF Lock, Go, TypeOK
  <2>2. \A u \in Threads : u # t => pc'[u] \notin InRefresh
    BY <2>1, Names DEF TypeOK
  <2>3. pc'[t] = "rescan"
    BY <2>1
  <2>4. \A u \in Threads : pc'[u] \notin InRefresh \ {"rescan"}
    BY <2>2, <2>3
  <2> QED
    BY <2>1, <2>4, Names DEF Taken, InRefresh
<1>2. ASSUME \A u \in Threads : pc'[u] \notin InRefresh, refreshed' = FALSE
      PROVE  (\A u \in Threads : Taken(pc[u])') /\ (holder' = Nobody => Agrees')
  BY <1>2 DEF Taken, InRefresh, Agrees
<1>3. ASSUME pc[t] \in InRefresh, Return(t, FALSE)
      PROVE  (\A u \in Threads : Taken(pc[u])') /\ (holder' = Nobody => Agrees')
  <2>1. \A u \in Threads : pc'[u] \notin InRefresh
    BY <1>3, ReturnType DEF TypeOK
  <2> QED
    BY <1>2, <1>3, <2>1 DEF Return
<1>4. ASSUME NEW from \in InRefresh, NEW to \in InRefresh, Go(t, from, to), holder' = holder, Taken(to)'
      PROVE  (\A u \in Threads : Taken(pc[u])') /\ (holder' = Nobody => Agrees')
  <2>1. /\ pc[t] = from /\ pc'[t] = to /\ holder = t
        /\ \A u \in Threads \ {t} : pc'[u] = pc[u] /\ pc[u] \notin InRefresh
    BY <1>4, GoMoves DEF TypeOK
  <2>2. \A u \in Threads : Taken(pc[u])'
    BY <1>4, <2>1 DEF Taken, InRefresh
  <2> QED
    BY <1>4, <2>1, <2>2, Names
<1>5. ASSUME NEW from \in InRefresh, NEW to \in InRefresh, Go(t, from, to) PROVE Calm /\ Taken(from)
  <2>1. from \notin Writing \union {"down"}
    BY DEF Writing, Assigning, InRefresh
  <2>2. Calm /\ pc[t] = from
    BY <1>5, <2>1, CalmBefore DEF Go
  <2>3. ~Lock(t)
    BY <2>2 DEF Lock, Go, InRefresh
  <2> QED
    BY <1>0, <2>2, <2>3 DEF Agreement
<1> USE DEF InRefresh
<1>6. CASE Rescan(t)
  <2>1. CASE Go(t, "rescan", "certs") /\ sites' \in RootRead /\ holder' = holder
    <3>1. sites' = config.root
      BY <1>5, <2>1, CalmRoot
    <3> QED
      BY <1>0, <1>4, <1>6, <2>1, <3>1 DEF Taken
  <2> QED
    BY <1>3, <1>6, <2>1 DEF Rescan
<1>7. CASE Certs(t)
  <2>1. CASE Go(t, "certs", "stageSites") /\ holder' = holder
    BY <1>0, <1>4, <1>5, <1>7, <2>1 DEF Certs, Taken
  <2> QED
    BY <1>3, <1>7, <2>1 DEF Certs
<1>8. CASE StageSites(t)
  <2>1. staged \in Trees /\ UNCHANGED <<config, sites, holder>>
    BY <1>0, <1>8 DEF TypeOK, StageSites
  <2>2. CASE Go(t, "stageSites", "stageConf") /\ staged' = [staged EXCEPT !.root = sites, !.sites = config.https]
    <3>1. Taken("stageConf")'
      BY <1>5, <2>1, <2>2 DEF Taken, Trees
    <3> QED
      BY <1>4, <2>1, <2>2, <3>1
  <2>3. CASE Go(t, "stageSites", "hosts") /\ published' = FALSE
    <3>1. Taken("hosts")'
      BY <1>5, <2>1, <2>3 DEF Taken
    <3> QED
      BY <1>4, <2>1, <2>3, <3>1
  <2> QED
    BY <1>8, <2>2, <2>3 DEF StageSites
<1>9. CASE StageConf(t)
  <2>1. staged \in Trees
    BY DEF TypeOK
  <2>2. Go(t, "stageConf", "activate") /\ Taken("activate")'
    BY <1>0, <1>5, <1>9, <2>1 DEF StageConf, Taken, Trees
  <2> QED
    BY <1>4, <1>9, <2>2 DEF StageConf
<1>10. CASE Activate(t)
  <2>1. CASE Go(t, "activate", "hosts") /\ tree' = staged /\ holder' = holder
    <3>1. Taken("activate") /\ staged \in Trees
      BY <1>5, <2>1 DEF TypeOK
    <3>2. staged = TreeOf(config)
      BY <3>1 DEF Taken, TreeOf, Trees
    <3>3. UNCHANGED <<config, sites>>
      BY <1>0, <1>10 DEF Activate
    <3>4. Taken("hosts")'
      BY <2>1, <3>1, <3>2, <3>3 DEF Taken, TreeOf
    <3> QED
      BY <1>4, <2>1, <3>4
  <2> QED
    BY <1>3, <1>10, <2>1 DEF Activate
<1>11. CASE SyncHosts(t)
  <2>1. CASE Go(t, "hosts", "restart") /\ hosts' = sites /\ holder' = holder
    <3>1. Taken("hosts") /\ UNCHANGED <<config, sites, tree, published>>
      BY <1>0, <1>5, <1>11, <2>1 DEF SyncHosts
    <3>2. Taken("restart")'
      BY <2>1, <3>1 DEF Taken, TreeOf
    <3> QED
      BY <1>4, <2>1, <3>2
  <2> QED
    BY <1>3, <1>11, <2>1 DEF SyncHosts
<1>12. CASE RestartNginx(t)
  <2>1. CASE Return(t, TRUE) /\ pc[t] = "restart" /\ UNCHANGED <<tree, hosts, published>>
    <3>1. /\ \A u \in Threads \ {t} : pc'[u] = pc[u] /\ pc[u] \notin InRefresh
          /\ pc'[t] \notin InRefresh \union {"lock", "down"}
      BY <2>1, ReturnType DEF TypeOK
    <3>2. Calm /\ ~dropped
      BY <1>0, <2>1, <3>1, Names DEF Calm, Writing, Assigning, Lock, Go
    <3>3. Applied(config)
      BY <2>1, <3>2 DEF Agreement, Taken, Applied
    <3>4. \A u \in Threads : Taken(pc[u])'
      BY <3>1 DEF Taken
    <3> QED
      BY <1>0, <2>1, <3>3, <3>4 DEF Agrees, Applied, TreeOf
  <2> QED
    BY <1>3, <1>12, <2>1 DEF RestartNginx
<1>13. CASE RefreshThrows(t)
  <2>1. Go(t, pc[t], "error") /\ refreshed' = FALSE /\ pc[t] \in InRefresh
    BY <1>0, <1>13 DEF RefreshThrows
  <2>2. \A u \in Threads : pc'[u] \notin InRefresh
    BY <2>1, GoMoves DEF TypeOK
  <2> QED
    BY <1>2, <2>1, <2>2
<1> QED
  BY <1>1, <1>6, <1>7, <1>8, <1>9, <1>10, <1>11, <1>12, <1>13 DEF Refresh

(* Whoever writes config_ goes on to refresh, or an exception has come       *)
(* between; the other steps touch none of it.                                *)
LEMMA OtherAgreement ==
  ASSUME TypeOK, Agreement, UNCHANGED <<config, active, holder, outcome, dropped>>,
         \A u \in Threads :
           pc'[u] = pc[u] \/ (pc[u] \notin Writing \union {"down"} /\ pc'[u] \notin InRefresh)
  PROVE  Agreement'
<1> SUFFICES ASSUME Calm', ~dropped' PROVE (\A u \in Threads : Taken(pc[u])') /\ (holder' = Nobody => Agrees')
  BY DEF Agreement
<1>1. Calm /\ ~dropped
  BY Names DEF Calm, Writing
<1>2. \A u \in Threads : Taken(pc'[u])
  BY <1>1 DEF Agreement, Taken, InRefresh
<1> QED
  BY <1>1, <1>2 DEF Agreement, Taken, Agrees, Applied, TreeOf, active, outcome

LEMMA WatchAgreement == TypeOK /\ Agreement => \A t \in Setters \union {Main} : Watch(t) => Agreement'
<1> SUFFICES ASSUME TypeOK, Agreement, NEW t \in Setters \union {Main}, Watch(t) PROVE Agreement'
  OBVIOUS
<1>0. t \in Threads /\ t # Watcher /\ Watcher \in Threads /\ pc \in [Threads -> PCs]
  BY Names DEF TypeOK
<1>1. CASE ProcessEnds
  BY <1>1, EndIsNotCalm DEF Agreement
<1>2. CASE ~ProcessEnds
  <2>1. UNCHANGED <<config, active, holder, outcome, dropped>>
    BY <1>2 DEF Watch, StopWatcher, JoinWatcher, StartWatcher, thrown
  <2>2. pc[t] \in Watching
    BY <1>2 DEF Watch, StopWatcher, JoinWatcher, StartWatcher, Go, Watching
  <2>3. \E to \in {"join", "startWatcher", "ok", "idle"}, for \in {"idle", "read", "ended"} :
          \/ pc' = [pc EXCEPT ![t] = to]
          \/ pc' = [pc EXCEPT ![t] = to, ![Watcher] = for] /\ pc[Watcher] \in {"idle", "read", "ended"}
    BY <1>2 DEF Watch, StopWatcher, JoinWatcher, StartWatcher, AfterWatch, Go
  <2>4. \A u \in Threads : pc'[u] = pc[u] \/ (pc[u] \notin Writing \union {"down"} /\ pc'[u] \notin InRefresh)
    BY <1>0, <2>2, <2>3 DEF Writing, Assigning, Watching, InRefresh
  <2> QED
    BY <2>1, <2>4, OtherAgreement
<1> QED
  BY <1>1, <1>2

LEMMA AgreementStep == TypeOK /\ Agreement /\ [Next]_vars => Agreement'
<1> SUFFICES ASSUME TypeOK, Agreement, [Next]_vars PROVE Agreement'
  OBVIOUS
<1> USE DEF thrown
<1>1. CASE UNCHANGED vars
  BY <1>1 DEF Agreement, Calm, Taken, Agrees, Applied, TreeOf, vars, active, outcome
<1>2. ASSUME NEW s \in Setters, Receive(s) \/ ConfigSet(s) PROVE Agreement'
  <2>0. s \in Threads \ {Watcher}
    BY Names
  <2>1. ASSUME NEW from, NEW to \in Writing, Go(s, from, to) PROVE Agreement'
    BY <2>0, <2>1, StillWriting DEF Agreement
  <2>2. ASSUME NEW from, NEW to, Go(s, from, to), from \notin Writing \union {"down"}, to \notin InRefresh,
               UNCHANGED <<config, active, holder, outcome, dropped>>
        PROVE  Agreement'
    <3>1. \A u \in Threads : pc'[u] = pc[u] \/ (pc[u] \notin Writing \union {"down"} /\ pc'[u] \notin InRefresh)
      BY <2>0, <2>2, GoMoves
    <3> QED
      BY <2>2, <3>1, OtherAgreement
  <2> USE DEF Writing, Assigning, InRefresh
  <2>3. CASE Receive(s)
    BY <1>2, <2>1, <2>2, <2>3 DEF Receive, Throw
  <2>4. CASE AssignRoot(s) \/ RestoreRoot(s) \/ RestoreHttps(s)
    BY <2>1, <2>4 DEF AssignRoot, RestoreRoot, RestoreHttps
  <2>5. CASE AssignHttps(s)
    <3>1. CASE Go(s, "assignHttps", "lock")
      BY <2>1, <3>1
    <3>2. CASE dropped' = TRUE
      BY <3>2 DEF Agreement
    <3> QED
      BY <2>5, <3>1, <3>2 DEF AssignHttps
  <2>6. CASE Save(s) \/ SaveRemove(s) \/ SaveRetry(s)
    <3>1. /\ UNCHANGED <<config, active, holder, outcome, dropped>>
          /\ \E from \in Saving, to \in {"watch", "restoreRoot", "saveRemove", "saveRetry"} : Go(s, from, to)
      BY <2>6 DEF Save, SaveRemove, SaveRetry, Saving
    <3> QED
      BY <2>2, <3>1 DEF Saving
  <2>7. CASE Watch(s)
    BY <2>7, WatchAgreement
  <2>8. CASE Answer(s)
    BY <2>2, <2>8 DEF Answer, Throw
  <2> QED
    BY <1>2, <2>3, <2>4, <2>5, <2>6, <2>7, <2>8 DEF ConfigSet
<1>3. CASE Watch(Main)
  BY <1>3, WatchAgreement
<1>4. CASE StartEngine
  BY <1>4, Names, StillWriting DEF StartEngine, Agreement, Writing
<1>5. CASE Crash
  BY <1>5, EndIsNotCalm DEF Crash, Agreement
<1>6. ASSUME NEW from \in {"read", "publish"}, NEW to \in {"read", "ended", "lock"}, Go(Watcher, from, to),
             UNCHANGED <<config, active, holder, outcome, dropped>>
      PROVE  Agreement'
  <2>1. \A u \in Threads : pc'[u] = pc[u] \/ (pc[u] \notin Writing \union {"down"} /\ pc'[u] \notin InRefresh)
    BY <1>6, GoMoves, Names DEF Writing, Assigning, InRefresh
  <2> QED
    BY <1>6, <2>1, OtherAgreement
<1>7. CASE FolderChanges
  BY <1>6, <1>7 DEF FolderChanges
<1>8. CASE PublishChange
  BY <1>6, <1>8, EndIsNotCalm DEF PublishChange, Loop, Agreement
<1> QED
  BY <1>1, <1>2, <1>3, <1>4, <1>5, <1>7, <1>8, RefreshAgreement DEF Next

(* engine.cpp 208-228 and 400-443: when nobody is at work and the last       *)
(* refresh succeeded, the hosts file and, nginx being published, the tree    *)
(* are those of config_, unless an exception has come after a write of       *)
(* config_ and no refresh since: for any number of overlapping config.set,   *)
(* refreshes of the watcher, failures and ends of the process.               *)
THEOREM SettledTreeAgreesInvariant == Spec => []SettledTreeAgrees
<1>1. TypeOK /\ Agreement => SettledTreeAgrees
  <2> SUFFICES ASSUME TypeOK, Agreement, Settled, refreshed, ~dropped PROVE Applied(config)
    BY DEF SettledTreeAgrees
  <2>1. Calm /\ \A t \in Threads : pc[t] \notin InRefresh
    BY Names DEF Settled, Calm, Writing, Assigning, InRefresh
  <2>2. holder = Nobody
    BY <2>1 DEF TypeOK
  <2> QED
    BY <2>1, <2>2 DEF Agreement, Agrees
<1> QED
  BY <1>1, InitAgreement, AgreementStep, TypeCorrect, PTL DEF Spec

-----------------------------------------------------------------------------
(* What a config.set that nobody overlaps has done so far.                   *)
Forward(s)  == pc[s] \in InRefresh \union {"lock"} /\ forward[s]
Backward(s) == pc[s] \in InRefresh \union {"lock"} /\ ~forward[s]
Refreshed   == Saving \union Watching \union {"ok"}
Passed(s)   == pc[s] \notin {"assignRoot", "assignHttps"} /\ ~(pc[s] = "lock" /\ forward[s]) /\ ~threw[s]

KeepsFile(s) ==
  CASE pc[s] \in Watching \union {"ok"} -> file = request[s] \/ (cut /\ file = Defaults)
    [] pc[s] = "error" /\ threw[s]      -> file \in {saved[s], Defaults} \/ (file = request[s] /\ config = request[s])
    [] OTHER                            -> file \in {saved[s], Defaults}

Alone(s) ==
  /\ \A o \in Setters \ {s} : pc[o] \notin InConfigSet
  /\ pc[Main] \in Watching \union {"idle"}
  /\ threw[s] => pc[s] = "error"
  /\ pc[s] \notin InRefresh \union {"lock", "error"} => forward[s]
  /\ pc[s] = "assignRoot" => config = previous[s]
  /\ pc[s] = "assignHttps" => config = [root |-> request[s].root, https |-> previous[s].https]
  /\ pc[s] \in Refreshed \union {"restoreRoot"} \/ Forward(s) => config = request[s]
  /\ pc[s] = "restoreHttps" => config = [root |-> previous[s].root, https |-> request[s].https]
  /\ (pc[s] = "error" /\ ~threw[s]) \/ Backward(s) => config = previous[s]
  /\ KeepsFile(s)
  /\ pc[s] \in Refreshed => Applied(config)
  /\ Passed(s) => ~dropped

Fresh(s)      == pc[s] = "idle" => forward[s] /\ ~threw[s]
Undisturbed(s) == alone[s] /\ pc[s] \in InConfigSet => Alone(s)

AloneInv == \A s \in Setters : Fresh(s) /\ Undisturbed(s)

LEMMA InitAlone == Init => AloneInv
<1> SUFFICES ASSUME Init, NEW s \in Setters PROVE Fresh(s) /\ Undisturbed(s)
  BY DEF AloneInv
<1>1. pc[s] = "idle" /\ forward[s] /\ ~threw[s]
  BY Names DEF Init
<1> QED
  BY <1>1 DEF Fresh, Undisturbed, InConfigSet, Assigning, Saving, Watching, InRefresh

(* While it runs, config_ is calm except where it writes it itself.          *)
LEMMA AloneCalm ==
  ASSUME TypeOK, NEW s \in Setters, Alone(s), pc[s] \notin Writing
  PROVE  Calm
<1>1. \A o \in Setters \ {s} : pc[o] \notin Writing
  BY DEF Alone, Writing, InConfigSet
<1>2. pc[Main] \notin Writing \union {"down"}
  BY DEF Alone, Writing, Assigning, Watching
<1> QED
  BY <1>1, <1>2, Names DEF Calm, Threads

(* The end of the process leaves no request unanswered.                      *)
LEMMA EndAlone == ASSUME TypeOK, AloneInv, ProcessEnds PROVE AloneInv'
<1> SUFFICES ASSUME NEW s \in Setters PROVE Fresh(s)' /\ Undisturbed(s)'
  BY DEF AloneInv
<1>1. (pc'[s] = "idle" /\ pc[s] = "idle") \/ pc'[s] = "answered"
  BY Names DEF ProcessEnds
<1>2. UNCHANGED threw /\ forward'[s] /\ (pc[s] = "idle" => ~threw[s])
  BY DEF AloneInv, Fresh, ProcessEnds, thrown
<1> QED
  BY <1>1, <1>2 DEF Fresh, Undisturbed, InConfigSet, Assigning, Saving, Watching, InRefresh

(* The steps of its own refreshes, and of the watcher's.                     *)
LEMMA RefreshAlone == TypeOK /\ Agreement /\ AloneInv => \A t \in Threads : Refresh(t) => AloneInv'
<1> SUFFICES ASSUME TypeOK, Agreement, AloneInv, NEW t \in Threads, Refresh(t), ~ProcessEnds, NEW s \in Setters
             PROVE  Fresh(s)' /\ Undisturbed(s)'
  BY EndAlone DEF AloneInv
<1> USE DEF active, outcome, locals, bounds
<1>0. /\ UNCHANGED <<config, file, cut, locals>> /\ s \in Threads /\ pc \in [Threads -> PCs]
      /\ pc[t] \in InRefresh \union {"lock"} /\ Fresh(s) /\ Undisturbed(s) /\ forward \in [Setters -> BOOLEAN]
  BY Names DEF Refresh, Lock, Rescan, Certs, RefreshThrows, StageSites, StageConf, Activate, SyncHosts, RestartNginx,
               TypeOK, InRefresh, Go, AloneInv, store
<1>1. \/ RefreshThrows(t)
      \/ /\ UNCHANGED threw
         /\ \E to \in InRefresh \union {Continue(t, TRUE), Continue(t, FALSE)} : pc' = [pc EXCEPT ![t] = to]
  BY DEF Refresh, Lock, Rescan, Certs, StageSites, StageConf, Activate, SyncHosts, RestartNginx, InRefresh, Go, Return,
         thrown
<1>2. RefreshThrows(t) =>
        /\ t \in Setters /\ threw' = [threw EXCEPT ![t] = TRUE] /\ pc' = [pc EXCEPT ![t] = "error"]
        /\ pc[t] \in InRefresh /\ threw \in [Setters -> BOOLEAN] /\ UNCHANGED <<tree, hosts, published, dropped>>
  BY DEF RefreshThrows, Go, TypeOK
<1>3. dropped' = dropped \/ ~dropped'
  BY DEF Refresh, Lock, Rescan, Certs, RefreshThrows, StageSites, StageConf, Activate, SyncHosts, RestartNginx, thrown
<1>4. \A u \in Threads \ {t} : pc'[u] = pc[u]
  BY <1>0, <1>1, <1>2
<1>5. t \in Setters => pc'[t] \in InRefresh \union {"error", "save", "restoreRoot"}
  BY <1>0, <1>1, <1>2, Names DEF Continue
<1>6. s # t => threw'[s] = threw[s] /\ pc'[s] = pc[s]
  BY <1>0, <1>1, <1>2, <1>4
<1>7. Fresh(s)'
  <2>1. CASE s = t
    BY <1>5, <2>1 DEF Fresh, InRefresh
  <2>2. CASE s # t
    BY <1>0, <1>6, <2>2 DEF Fresh
  <2> QED
    BY <2>1, <2>2
<1>8. ASSUME alone[s], pc'[s] \in InConfigSet PROVE Alone(s)'
  <2>1. pc[s] \in InConfigSet /\ Alone(s)
    <3>1. pc[s] \in InConfigSet
      BY <1>0, <1>4, <1>8 DEF InConfigSet
    <3> QED
      BY <1>0, <1>8, <3>1 DEF Undisturbed
  <2>2. t \in {s, Watcher}
    BY <1>0, <2>1 DEF Alone, InConfigSet, Watching, InRefresh, Threads
  <2>3. CASE t = Watcher
    <3>1. /\ pc'[s] = pc[s] /\ pc'[Main] = pc[Main] /\ \A o \in Setters : pc'[o] = pc[o]
          /\ threw'[s] = threw[s]
      BY <1>4, <1>6, <2>3, Names
    <3>2. pc[s] \in Refreshed => Applied(config)'
      <4> SUFFICES ASSUME pc[s] \in Refreshed PROVE Applied(config)'
        OBVIOUS
      <4>1. Calm /\ ~dropped
        <5>1. pc[s] \notin Writing /\ Passed(s)
          BY <2>1 DEF Refreshed, Saving, Watching, Writing, Assigning, Passed, Alone
        <5> QED
          BY <2>1, <5>1, AloneCalm DEF Alone
      <4>2. Taken(pc[t]) /\ Applied(config)
        BY <2>1, <4>1 DEF Agreement, Alone
      <4>3. CASE Activate(t)
        <5>1. UNCHANGED hosts /\ (UNCHANGED <<tree, published>> \/ (tree' = staged /\ pc[t] = "activate"))
          BY <4>3 DEF Activate, Go
        <5>2. pc[t] = "activate" => staged = TreeOf(config)
          <6>1. staged \in Trees
            BY DEF TypeOK
          <6> QED
            BY <4>2, <6>1 DEF Taken, TreeOf, Trees, InRefresh
        <5> QED
          BY <1>0, <4>2, <5>1, <5>2 DEF Applied, TreeOf
      <4>4. CASE SyncHosts(t)
        BY <1>0, <4>2, <4>4 DEF SyncHosts, Go, Taken, InRefresh, Applied, TreeOf
      <4>5. CASE StageSites(t)
        BY <1>0, <4>2, <4>5 DEF StageSites, Applied, TreeOf
      <4>6. CASE UNCHANGED <<tree, hosts, published>>
        BY <1>0, <4>2, <4>6 DEF Applied, TreeOf
      <4> QED
        BY <1>2, <4>3, <4>4, <4>5, <4>6 DEF Refresh, Lock, Rescan, Certs, StageConf, RestartNginx
    <3> QED
      BY <1>0, <1>3, <2>1, <3>1, <3>2 DEF Alone, KeepsFile, Forward, Backward, Passed
  <2>4. CASE t = s
    <3>0. pc'[Main] = pc[Main] /\ \A o \in Setters \ {s} : pc'[o] = pc[o]
      BY <1>4, <2>4, Names
    <3>1. /\ file \in {saved[s], Defaults} /\ ~threw[s]
          /\ Forward(s) => config = request[s]
          /\ Backward(s) => config = previous[s]
      BY <1>0, <2>1, <2>4 DEF Alone, KeepsFile, Watching, InRefresh
    <3>2. CASE RefreshThrows(s)
      <4>1. pc'[s] = "error" /\ threw'[s]
        BY <1>0, <1>2, <2>4, <3>2
      <4> QED
        BY <1>0, <2>1, <3>0, <3>1, <4>1 DEF Alone, KeepsFile, Forward, Backward, InRefresh, Refreshed, Saving, Watching,
                                            Passed
    <3>3. CASE ~RefreshThrows(s)
      <4>0. /\ UNCHANGED threw /\ \E to \in InRefresh \union {Continue(s, TRUE), Continue(s, FALSE)} :
                                     pc' = [pc EXCEPT ![s] = to]
            /\ ~dropped'
        <5>1. ~Lock(s) => pc[s] # "lock" /\ dropped' = dropped
          BY <2>4, <3>3 DEF Refresh, Rescan, Certs, StageSites, StageConf, Activate, SyncHosts, RestartNginx, Go, InRefresh,
                            thrown
        <5>2. ~Lock(s) => ~dropped
          BY <1>0, <2>1, <2>4, <3>1, <5>1 DEF Alone, Passed, InRefresh
        <5>3. ~dropped'
          BY <5>1, <5>2 DEF Lock
        <5> QED
          BY <1>1, <2>4, <3>3, <5>3
      <4>1. CASE pc'[s] \in InRefresh
        BY <1>0, <2>1, <2>4, <3>0, <3>1, <4>0, <4>1
           DEF Alone, KeepsFile, Forward, Backward, InRefresh, Refreshed, Saving, Watching, Passed
      <4>2. CASE pc'[s] \in {"restoreRoot", "error"}
        <5>1. pc'[s] = "error" <=> ~forward[s]
          <6>1. pc' = [pc EXCEPT ![s] = Continue(s, TRUE)] \/ pc' = [pc EXCEPT ![s] = Continue(s, FALSE)]
            BY <1>0, <4>0, <4>2 DEF InRefresh
          <6> QED
            BY <1>0, <4>2, <6>1, Names DEF Continue
        <5> QED
          BY <1>0, <2>1, <2>4, <3>0, <3>1, <4>0, <4>2, <5>1
             DEF Alone, KeepsFile, Forward, Backward, InRefresh, Refreshed, Saving, Watching, Passed
      <4>3. CASE pc'[s] = "save"
        <5>1. RestartNginx(s) /\ Return(s, TRUE)
          <6>1. Continue(s, FALSE) # "save"
            BY Names DEF Continue
          <6>2. ~Return(s, FALSE)
            BY <1>0, <4>3, <6>1 DEF Return
          <6> QED
            BY <1>0, <2>4, <3>3, <4>3, <6>2 DEF Refresh, Lock, Rescan, Certs, StageSites, StageConf, Activate, SyncHosts,
                                                RestartNginx, Go
        <5>2. forward[s] /\ pc[s] = "restart" /\ UNCHANGED <<tree, hosts, published, dropped>>
          BY <1>0, <4>3, <5>1, Names DEF RestartNginx, Return, Continue, thrown
        <5>3. Calm
          BY <2>1, <5>2, AloneCalm DEF Writing, Assigning
        <5>4. Applied(config)
          BY <1>0, <4>0, <5>2, <5>3 DEF Agreement, Taken, Applied
        <5>6. Applied(config)'
          BY <1>0, <5>2, <5>4 DEF Applied, TreeOf
        <5>7. config = request[s]
          BY <3>1, <5>2 DEF Forward, InRefresh
        <5>5. Applied(config)' /\ config = request[s]
          BY <5>6, <5>7
        <5> QED
          BY <1>0, <2>1, <2>4, <3>0, <3>1, <4>0, <4>3, <5>2, <5>5
             DEF Alone, KeepsFile, Forward, Backward, InRefresh, Refreshed, Saving, Watching, Passed
      <4> QED
        BY <1>5, <2>4, <4>1, <4>2, <4>3
    <3> QED
      BY <3>2, <3>3
  <2> QED
    BY <2>2, <2>3, <2>4
<1> QED
  BY <1>0, <1>7, <1>8 DEF Undisturbed

(* The folder watcher's start touches nothing of it.                         *)
LEMMA WatchAlone == TypeOK /\ AloneInv => \A t \in Setters \union {Main} : Watch(t) => AloneInv'
<1> SUFFICES ASSUME TypeOK, AloneInv, NEW t \in Setters \union {Main}, Watch(t), ~ProcessEnds, NEW s \in Setters
             PROVE  Fresh(s)' /\ Undisturbed(s)'
  BY EndAlone DEF AloneInv
<1>1. UNCHANGED <<config, file, cut, tree, hosts, published, locals, threw, dropped>>
  BY DEF Watch, StopWatcher, JoinWatcher, StartWatcher, store, active, outcome, thrown
<1>2. /\ pc[t] \in Watching
      /\ t \in Setters => pc'[t] \in Watching \union {"ok"}
      /\ t = Main => pc'[t] \in Watching \union {"idle"}
      /\ \A u \in Threads \ {t, Watcher} : pc'[u] = pc[u]
  <2>1. t \in Threads /\ t # Watcher /\ Watcher \in Threads /\ pc \in [Threads -> PCs] /\ (t = Main => t \notin Setters)
    BY Names DEF TypeOK
  <2>2. /\ pc[t] \in Watching
        /\ \E to \in {"join", "startWatcher", AfterWatch(t)}, for \in {"idle", "read", "ended"} :
             pc' = [pc EXCEPT ![t] = to] \/ pc' = [pc EXCEPT ![t] = to, ![Watcher] = for]
    BY DEF Watch, StopWatcher, JoinWatcher, StartWatcher, Go, Watching
  <2>3. (t = Main => AfterWatch(t) = "idle") /\ (t \in Setters => AfterWatch(t) = "ok")
    BY <2>1 DEF AfterWatch
  <2> QED
    BY <2>1, <2>2, <2>3 DEF Watching
<1>3. Fresh(s) /\ Undisturbed(s) /\ s \in Threads \ {Watcher, Main} /\ Main \in Threads \ {Watcher}
  BY Names DEF AloneInv
<1>4. pc'[s] = pc[s] \/ (pc[s] \in Watching /\ pc'[s] \in Watching \union {"ok"})
  BY <1>2, <1>3
<1>5. pc'[Main] = pc[Main] \/ (pc[Main] \in Watching /\ pc'[Main] \in Watching \union {"idle"})
  BY <1>2, <1>3
<1>6. \A o \in Setters : pc[o] \notin InConfigSet => pc'[o] = pc[o]
  BY <1>2, Names DEF InConfigSet
<1>7. Fresh(s)'
  BY <1>1, <1>3, <1>4 DEF Fresh, Watching, locals
<1>8. ASSUME alone'[s], pc'[s] \in InConfigSet PROVE Alone(s)'
  <2>1. Alone(s)
    BY <1>1, <1>3, <1>4, <1>8 DEF Undisturbed, InConfigSet, locals
  <2>2. UNCHANGED <<forward, request, previous, saved>> /\ (Applied(config)' <=> Applied(config))
    BY <1>1 DEF locals, Applied, TreeOf
  <2>3. CASE pc'[s] = pc[s]
    BY <1>1, <1>5, <1>6, <2>1, <2>2, <2>3 DEF Alone, KeepsFile, Forward, Backward, Passed
  <2>4. CASE pc[s] \in Watching /\ pc'[s] \in Watching \union {"ok"}
    BY <1>1, <1>5, <1>6, <2>1, <2>2, <2>4
       DEF Alone, KeepsFile, Forward, Backward, Passed, Refreshed, Saving, Watching, InRefresh
  <2> QED
    BY <1>4, <2>3, <2>4
<1> QED
  BY <1>7, <1>8 DEF Undisturbed

(* The steps of config.set itself.                                           *)
LEMMA ReceiveAlone == TypeOK /\ AloneInv => \A o \in Setters : Receive(o) => AloneInv'
<1> SUFFICES ASSUME TypeOK, AloneInv, NEW o \in Setters, Receive(o), NEW s \in Setters
             PROVE  Fresh(s)' /\ Undisturbed(s)'
  BY DEF AloneInv
<1> USE DEF active, store, locals, bounds
<1>0. /\ s \in Threads /\ o \in Threads /\ pc \in [Threads -> PCs] /\ threw \in [Setters -> BOOLEAN]
      /\ Fresh(s) /\ Undisturbed(s) /\ o # Main /\ Main \in Threads
  BY Names DEF TypeOK, AloneInv
<1>1. /\ pc[o] = "idle" /\ Serving /\ UNCHANGED <<config, file, cut, tree, hosts, forward, dropped>>
      /\ \/ pc' = [pc EXCEPT ![o] = "assignRoot"] /\ UNCHANGED threw
         \/ pc' = [pc EXCEPT ![o] = "error"] /\ threw' = [threw EXCEPT ![o] = TRUE]
  BY DEF Receive, Throw, Go
<1>2. CASE s # o
  <2>1. pc'[s] = pc[s] /\ forward'[s] = forward[s] /\ threw'[s] = threw[s]
    BY <1>0, <1>1, <1>2
  <2>2. ~(alone'[s] /\ pc'[s] \in InConfigSet)
    BY <1>2, <2>1 DEF Receive, Others
  <2> QED
    BY <1>0, <2>1, <2>2 DEF Fresh, Undisturbed
<1>3. CASE s = o
  <2>1. /\ pc'[Main] = pc[Main] /\ pc[Main] \in Watching \union {"idle"} /\ forward[s]
        /\ \/ pc'[s] = "assignRoot" /\ ~threw'[s]
           \/ pc'[s] = "error" /\ threw'[s]
    BY <1>0, <1>1, <1>3 DEF Fresh, Serving
  <2>2. ASSUME alone'[s] PROVE Alone(s)'
    <3>1. Others(s) = {}
      BY <1>0, <1>3, <2>2 DEF Receive, TypeOK
    <3>2. \A u \in Setters \ {s} : pc[u] \notin InConfigSet /\ pc'[u] = pc[u]
      BY <1>0, <1>1, <1>3, <3>1, Names DEF Others
    <3>3. RootRead = {config.root}
      BY <1>1, <1>3, <3>2 DEF RootRead, InConfigSet, Assigning
    <3>4. config = previous'[s] /\ file = saved'[s]
      <4>1. config \in Settings /\ previous \in [Setters -> Settings] /\ saved \in [Setters -> Settings]
        BY DEF TypeOK
      <4>2. previous'[s] = [root |-> config.root, https |-> config.https] /\ saved'[s] = file
        BY <1>3, <3>3, <4>1 DEF Receive
      <4> QED
        BY <4>1, <4>2 DEF Settings
    <3> QED
      BY <1>1, <2>1, <3>2, <3>4
         DEF Alone, KeepsFile, Forward, Backward, Passed, InRefresh, Refreshed, Saving, Watching
  <2> QED
    BY <2>1, <2>2 DEF Fresh, Undisturbed
<1> QED
  BY <1>2, <1>3

LEMMA ConfigSetAlone == TypeOK /\ AloneInv => \A o \in Setters : ConfigSet(o) => AloneInv'
<1> SUFFICES ASSUME TypeOK, AloneInv, NEW o \in Setters, ConfigSet(o), ~Watch(o), NEW s \in Setters
             PROVE  Fresh(s)' /\ Undisturbed(s)'
  BY WatchAlone DEF AloneInv
<1> USE DEF active, store, outcome, locals, bounds
<1>0. /\ s \in Threads /\ o \in Threads /\ pc \in [Threads -> PCs] /\ Fresh(s) /\ Undisturbed(s) /\ o # Main /\ Main \in Threads
      /\ threw \in [Setters -> BOOLEAN] /\ forward \in [Setters -> BOOLEAN]
  BY Names DEF TypeOK, AloneInv
<1>1. /\ pc[o] \in InConfigSet /\ \A u \in Threads \ {o} : pc'[u] = pc[u]
      /\ pc'[o] \in (InConfigSet \ InRefresh) \union {"answered"}
      /\ UNCHANGED <<tree, hosts, published>>
  <2>1. /\ UNCHANGED <<tree, hosts, published>>
        /\ \E from \in Assigning \union Saving \union {"ok", "error"},
              to \in (InConfigSet \ InRefresh) \union {"answered"} : Go(o, from, to)
    BY DEF ConfigSet, AssignRoot, AssignHttps, RestoreRoot, RestoreHttps, Save, SaveRemove, SaveRetry,
           Answer, Throw, InConfigSet, Assigning, Saving, Watching, InRefresh
  <2> QED
    BY <1>0, <2>1 DEF Go, InConfigSet
<1>2. ASSUME s # o PROVE forward'[s] = forward[s] /\ threw'[s] = threw[s]
  BY <1>0, <1>2 DEF ConfigSet, AssignRoot, AssignHttps, RestoreRoot, RestoreHttps, Save, SaveRemove, SaveRetry,
                    Answer, Throw, thrown
<1>3. Fresh(s)'
  <2>1. CASE s = o
    BY <1>1, <2>1 DEF Fresh, InConfigSet, Assigning, Saving, Watching, InRefresh
  <2>2. CASE s # o
    BY <1>0, <1>1, <1>2, <2>2 DEF Fresh
  <2> QED
    BY <2>1, <2>2
<1>4. ASSUME alone'[s], pc'[s] \in InConfigSet PROVE Alone(s)'
  <2>1. ~(s # o)
    <3> SUFFICES ASSUME s # o PROVE FALSE
      OBVIOUS
    <3>1. pc[s] \in InConfigSet /\ alone[s]
      <4>1. pc[s] \in InConfigSet
        BY <1>0, <1>1, <1>4
      <4>2. alone' = alone \/ alone' = [alone EXCEPT ![o] = TRUE]
        BY DEF ConfigSet, AssignRoot, AssignHttps, RestoreRoot, RestoreHttps, Save, SaveRemove, SaveRetry, Answer
      <4> QED
        BY <1>4, <4>1, <4>2 DEF TypeOK
    <3> QED
      BY <1>0, <1>1, <3>1 DEF Undisturbed, Alone
  <2>2. s = o /\ ~Watch(s) /\ ConfigSet(s)
    BY <2>1
  <2>3. ~(Go(s, "ok", "answered") \/ Go(s, "error", "answered"))
    BY <1>0, <1>4 DEF Go, InConfigSet, Assigning, Saving, Watching, InRefresh
  <2>4. UNCHANGED <<request, previous, alone, saved>>
    BY <2>2, <2>3 DEF ConfigSet, AssignRoot, AssignHttps, RestoreRoot, RestoreHttps, Save, SaveRemove, SaveRetry, Answer
  <2>5. Alone(s)
    BY <1>0, <1>1, <1>4, <2>2, <2>4 DEF Undisturbed
  <2>6. /\ \A u \in Setters \ {s} : pc'[u] \notin InConfigSet
        /\ pc'[Main] \in Watching \union {"idle"}
    BY <1>0, <1>1, <2>2, <2>5, Names DEF Alone
  <2>7. RootRead = {config.root} \/ pc[s] \in {"assignRoot", "restoreRoot"}
    <3>1. \A u \in Setters \ {s} : pc[u] \notin {"assignRoot", "restoreRoot"}
      BY <2>5 DEF Alone, InConfigSet, Assigning
    <3> QED
      BY <3>1 DEF RootRead
  <2>8. config \in Settings /\ request[s] \in Settings /\ previous[s] \in Settings
    BY DEF TypeOK
  <2>9. CASE AssignRoot(s)
    <3>1. config' = [root |-> request[s].root, https |-> previous[s].https] /\ pc'[s] = "assignHttps"
      BY <1>0, <2>5, <2>8, <2>9 DEF AssignRoot, Go, Alone, Settings
    <3> QED
      BY <2>5, <2>6, <2>9, <3>1 DEF AssignRoot, Alone, KeepsFile, Go, Forward, Backward, Passed, InRefresh, Refreshed,
                                    Saving, Watching, thrown
  <2>10. CASE AssignHttps(s)
    <3>1. CASE pc'[s] = "lock" /\ UNCHANGED thrown /\ config' = [config EXCEPT !.https = request[s].https]
      <4>1. config' = request[s] /\ forward[s] /\ pc[s] = "assignHttps"
        BY <1>0, <2>5, <2>8, <2>10, <3>1 DEF AssignHttps, Throw, Go, Alone, Settings, InRefresh
      <4> QED
        BY <2>5, <2>6, <2>10, <3>1, <4>1 DEF AssignHttps, Alone, KeepsFile, Forward, Backward, Passed, InRefresh,
                                      Refreshed, Saving, Watching, thrown
    <3>2. CASE pc'[s] = "error" /\ threw'[s] /\ pc[s] = "assignHttps"
      BY <2>4, <2>5, <2>6, <2>10, <3>2 DEF AssignHttps, Alone, KeepsFile, Forward, Backward, Passed, InRefresh,
                                      Refreshed, Saving, Watching
    <3> QED
      BY <1>0, <2>10, <3>1, <3>2 DEF AssignHttps, Throw, Go
  <2>11. CASE RestoreRoot(s)
    <3>1. config' = [root |-> previous[s].root, https |-> request[s].https] /\ pc'[s] = "restoreHttps"
      BY <1>0, <2>5, <2>8, <2>11 DEF RestoreRoot, Go, Alone, Settings
    <3> QED
      BY <2>5, <2>6, <2>11, <3>1 DEF RestoreRoot, Alone, KeepsFile, Go, Forward, Backward, Passed, InRefresh, Refreshed,
                                     Saving, Watching, thrown
  <2>12. CASE RestoreHttps(s)
    <3>1. pc[s] = "restoreHttps" /\ pc'[s] = "lock" /\ ~forward'[s]
      BY <1>0, <2>12 DEF RestoreHttps, Go
    <3>2. config' = previous[s]
      BY <2>5, <2>8, <2>12, <3>1 DEF RestoreHttps, Alone, Settings
    <3> QED
      BY <2>5, <2>6, <2>12, <3>1, <3>2 DEF RestoreHttps, Alone, KeepsFile, Forward, Backward, Passed, InRefresh,
                                     Refreshed, Saving, Watching, thrown
  <2>13. CASE Save(s) \/ SaveRetry(s)
    <3>1. pc[s] \in {"save", "saveRetry"} /\ config = request[s]
      BY <2>5, <2>13 DEF Save, SaveRetry, Go, Alone, Refreshed, Saving
    <3>2. [root |-> config.root, https |-> config.https] = config
      BY <2>8 DEF Settings
    <3>3. \/ pc'[s] = "watch" /\ (file' = request[s] \/ (cut' /\ file' = Defaults))
          \/ pc'[s] \in {"restoreRoot", "saveRemove"} /\ UNCHANGED <<file, cut>>
      BY <1>0, <2>7, <2>13, <3>1, <3>2 DEF Save, SaveRetry, Write, WriteShort, Go
    <3>4. UNCHANGED <<config, tree, hosts, published, locals, threw, dropped>>
      BY <2>13 DEF Save, SaveRetry, thrown
    <3> QED
      BY <2>5, <2>6, <3>1, <3>3, <3>4 DEF Alone, KeepsFile, Forward, Backward, Passed, InRefresh, Refreshed, Saving,
                                    Watching, TreeOf, Applied
  <2>14. CASE SaveRemove(s)
    <3>1. pc[s] = "saveRemove" /\ pc'[s] = "saveRetry" /\ file' \in {Defaults, file}
          /\ UNCHANGED <<config, tree, hosts, published, locals, threw, dropped>>
      BY <1>0, <2>14 DEF SaveRemove, Go, thrown
    <3> QED
      BY <2>5, <2>6, <3>1 DEF Alone, KeepsFile, Forward, Backward, Passed, InRefresh, Refreshed, Saving, Watching,
                              TreeOf, Applied
  <2>15. CASE Answer(s)
    <3>1. pc[s] = "ok" /\ pc'[s] = "error" /\ threw'[s] /\ UNCHANGED <<config, file, cut, tree, hosts, published, locals, dropped>>
      BY <1>0, <2>3, <2>15 DEF Answer, Throw, Go
    <3> QED
      BY <2>5, <2>6, <3>1 DEF Alone, KeepsFile, Forward, Backward, Passed, InRefresh, Refreshed, Saving, Watching,
                              TreeOf, Applied
  <2> QED
    BY <2>2, <2>9, <2>10, <2>11, <2>12, <2>13, <2>14, <2>15 DEF ConfigSet
<1> QED
  BY <1>3, <1>4 DEF Undisturbed

LEMMA EnvironmentAlone == TypeOK /\ AloneInv /\ (PublishChange \/ FolderChanges \/ Crash \/ StartEngine) => AloneInv'
<1> SUFFICES ASSUME TypeOK, AloneInv, PublishChange \/ FolderChanges \/ Crash \/ StartEngine, ~ProcessEnds,
                    NEW s \in Setters
             PROVE  Fresh(s)' /\ Undisturbed(s)'
  BY EndAlone DEF AloneInv
<1>0. Fresh(s) /\ Undisturbed(s) /\ UNCHANGED <<locals, threw, dropped>> /\ s \in Threads /\ pc \in [Threads -> PCs]
  BY Names DEF AloneInv, PublishChange, FolderChanges, Crash, StartEngine, thrown, TypeOK
<1>1. CASE PublishChange \/ FolderChanges
  <2>1. \A u \in Threads \ {Watcher} : pc'[u] = pc[u]
    BY <1>0, <1>1 DEF PublishChange, FolderChanges, Go
  <2>2. UNCHANGED <<config, file, cut, tree, hosts, published, locals, threw, dropped>>
    BY <1>0, <1>1 DEF PublishChange, FolderChanges, active, store, outcome
  <2>3. pc'[s] = pc[s] /\ pc'[Main] = pc[Main] /\ \A o \in Setters : pc'[o] = pc[o]
    BY <2>1, Names
  <2> QED
    BY <1>0, <2>2, <2>3 DEF Fresh, Undisturbed, Alone, KeepsFile, Forward, Backward, Passed, Applied, TreeOf, locals
<1>2. CASE StartEngine
  <2>1. pc[Main] = "down" /\ pc'[s] = pc[s]
    BY <1>0, <1>2, Names DEF StartEngine, Go
  <2> QED
    BY <1>0, <2>1 DEF Fresh, Undisturbed, Alone, Watching, locals
<1> QED
  BY <1>1, <1>2 DEF Crash

LEMMA AloneStep == TypeOK /\ Agreement /\ AloneInv /\ [Next]_vars => AloneInv'
<1> SUFFICES ASSUME TypeOK, Agreement, AloneInv, [Next]_vars PROVE AloneInv'
  OBVIOUS
<1>1. CASE UNCHANGED vars
  BY <1>1 DEF AloneInv, Fresh, Undisturbed, Alone, KeepsFile, Forward, Backward, Passed, Applied, TreeOf, vars, active,
              store, outcome, thrown, locals
<1> QED
  BY <1>1, RefreshAlone, ReceiveAlone, ConfigSetAlone, WatchAlone, EnvironmentAlone DEF Next

(* handle_message 400-443: a config.set that no other one overlaps takes     *)
(* effect as a whole or not at all, whatever call of it fails, whatever the  *)
(* watcher refreshes meanwhile, and whatever other requests have left before;*)
(* and one that ends by an exception leaves its settings in config.json only *)
(* if they are those of config_.                                             *)
THEOREM ConfigSetIsAtomicInvariant == Spec => []ConfigSetIsAtomic
<1>1. TypeOK /\ Agreement /\ AloneInv => ConfigSetIsAtomic
  <2> SUFFICES ASSUME TypeOK, Agreement, AloneInv, NEW s \in Setters, alone[s], pc[s] \in {"ok", "error"}
               PROVE  /\ pc[s] = "ok" =>
                           /\ config = request[s] /\ Applied(request[s])
                           /\ file = request[s] \/ (cut /\ file = Defaults)
                      /\ pc[s] = "error" /\ ~threw[s] =>
                           /\ config = previous[s] /\ file \in {saved[s], Defaults}
                           /\ refreshed /\ holder = Nobody => Applied(previous[s])
                      /\ pc[s] = "error" /\ threw[s] =>
                           file \in {saved[s], Defaults} \/ (file = request[s] /\ config = request[s])
    BY DEF ConfigSetIsAtomic
  <2>1. Alone(s)
    BY DEF AloneInv, Undisturbed, InConfigSet
  <2>2. Calm
    BY <2>1, AloneCalm DEF Writing, Assigning
  <2>3. CASE pc[s] = "ok"
    BY <2>1, <2>3 DEF Alone, KeepsFile, Refreshed
  <2>4. CASE pc[s] = "error" /\ ~threw[s]
    <3>1. ~dropped /\ config = previous[s] /\ file \in {saved[s], Defaults}
      BY <2>1, <2>4 DEF Alone, KeepsFile, Passed, Watching
    <3> QED
      BY <2>2, <2>4, <3>1 DEF Agreement, Agrees
  <2>5. CASE pc[s] = "error" /\ threw[s]
    BY <2>1, <2>5 DEF Alone, KeepsFile, Watching
  <2> QED
    BY <2>3, <2>4, <2>5
<1> QED
  BY <1>1, InitAlone, AloneStep, InitAgreement, AgreementStep, TypeCorrect, PTL DEF Spec

-----------------------------------------------------------------------------
(* Why nobody waits for ever: what EveryRequestIsAnswered needs beside       *)
(* fairness.                                                                 *)
Callers == Setters \union {Main}

(* Where the watcher's thread, Engine::start and a config.set can be.        *)
WatcherPlaces == {"idle", "lock", "publish", "read", "ended"} \union InRefresh
MainPlaces    == {"idle", "down", "lock"} \union Watching \union InRefresh
SetterPlaces  == {"idle", "answered"} \union InConfigSet

Places ==
  /\ pc[Watcher] \in WatcherPlaces /\ pc[Main] \in MainPlaces
  /\ \A s \in Setters : pc[s] \in SetterPlaces

(* One thread at a time joins the watcher's, with running_ false; and that   *)
(* one is in its read only if it missed the cancellation.                    *)
Joined ==
  /\ watching # NoRoot => pc[Watcher] # "idle"
  /\ \A t \in Callers : pc[t] = "join" =>
       watching = NoRoot /\ pc[Watcher] # "idle" /\ (pc[Watcher] = "read" => missed)
  /\ \A t, u \in Callers : pc[t] = "join" /\ pc[u] = "join" => t = u

Waits == Places /\ Joined

LEMMA InitWaits == Init => Waits
<1> SUFFICES ASSUME Init PROVE Waits
  OBVIOUS
<1>1. watching = NoRoot /\ \A t \in Threads : pc[t] = IF t = Main THEN "lock" ELSE "idle"
  BY DEF Init
<1> QED
  BY <1>1, Names DEF Waits, Places, Joined, Callers, WatcherPlaces, MainPlaces, SetterPlaces

LEMMA EndWaits == ASSUME ProcessEnds PROVE Waits'
<1>1. watching' = NoRoot /\ pc'[Main] = "down" /\ pc'[Watcher] = "idle"
      /\ \A s \in Setters : pc'[s] \in {"idle", "answered"}
  BY Names DEF ProcessEnds
<1> QED
  BY <1>1 DEF Waits, Places, Joined, Callers, WatcherPlaces, MainPlaces, SetterPlaces

(* A step of one thread that neither starts nor ends a join.                 *)
LEMMA StepWaits ==
  ASSUME TypeOK, Waits, NEW t \in Threads, NEW from, NEW to, Go(t, from, to), from # "join", to # "join",
         t = Watcher => to \in WatcherPlaces \ {"idle"} /\ (to = "read" => watching # NoRoot),
         t = Main => to \in MainPlaces,
         t \in Setters => to \in SetterPlaces,
         UNCHANGED watcher
  PROVE  Waits'
<1>1. \A u \in Threads : pc'[u] = IF u = t THEN to ELSE pc[u]
  BY GoMoves
<1>2. Watcher \in Threads /\ Main \in Threads /\ \A s \in Callers : s \in Threads /\ s # Watcher
  BY Names DEF Callers
<1>3. Places'
  BY <1>1, <1>2, Names DEF Waits, Places
<1>4. \A u \in Callers : pc'[u] = "join" => pc[u] = "join"
  BY <1>1, <1>2
<1>5. pc'[Watcher] = pc[Watcher] \/ (pc'[Watcher] # "idle" /\ (pc'[Watcher] = "read" => watching # NoRoot))
  BY <1>1, <1>2
<1>6. UNCHANGED <<watching, missed>>
  BY DEF watcher
<1>7. Joined'
  BY <1>4, <1>5, <1>6 DEF Waits, Joined
<1> QED
  BY <1>3, <1>7 DEF Waits

LEMMA RefreshWaits == TypeOK /\ Waits => \A t \in Threads : Refresh(t) => Waits'
<1> SUFFICES ASSUME TypeOK, Waits, NEW t \in Threads, Refresh(t), ~ProcessEnds PROVE Waits'
  BY EndWaits
<1>1. /\ pc[t] \in {"lock"} \union InRefresh /\ UNCHANGED watcher
      /\ \E to \in InRefresh \union {Continue(t, TRUE), Continue(t, FALSE)} : pc' = [pc EXCEPT ![t] = to]
         \/ (t \in Setters /\ pc' = [pc EXCEPT ![t] = "error"])
  <2>1. CASE Lock(t) \/ StageSites(t) \/ StageConf(t)
    BY <2>1 DEF Lock, StageSites, StageConf, Go, InRefresh
  <2>2. CASE Rescan(t) \/ Certs(t)
    BY <2>2 DEF Rescan, Certs, Return, Go, InRefresh
  <2>3. CASE Activate(t) \/ SyncHosts(t)
    BY <2>3 DEF Activate, SyncHosts, Return, Go, InRefresh
  <2>4. CASE RestartNginx(t)
    BY <2>4 DEF RestartNginx, Return, Go, InRefresh
  <2>5. CASE RefreshThrows(t)
    BY <2>5 DEF RefreshThrows, Go
  <2> QED
    BY <2>1, <2>2, <2>3, <2>4, <2>5 DEF Refresh
<1>2. /\ t = Watcher => {Continue(t, TRUE), Continue(t, FALSE)} \subseteq {"publish", Loop}
      /\ t = Main => Continue(t, TRUE) = "watch" /\ Continue(t, FALSE) = "watch"
      /\ t \in Setters => {Continue(t, TRUE), Continue(t, FALSE)} \subseteq {"error", "save", "restoreRoot"}
  BY Names DEF Continue
<1>3. Loop \in {"ended", "read"} /\ (Loop = "read" => watching # NoRoot)
  BY DEF Loop
<1>4. PICK to : /\ Go(t, pc[t], to)
                /\ to \in InRefresh \union {Continue(t, TRUE), Continue(t, FALSE)} \/ (t \in Setters /\ to = "error")
  BY <1>1 DEF Go
<1>5. pc[t] # "join" /\ "join" \notin InRefresh /\ "read" \notin InRefresh /\ "idle" \notin InRefresh
  BY <1>1 DEF InRefresh
<1>6. /\ t = Watcher => to \in WatcherPlaces \ {"idle"} /\ (to = "read" => watching # NoRoot)
      /\ t = Main => to \in MainPlaces
      /\ t \in Setters => to \in SetterPlaces
      /\ to # "join"
  <2>1. CASE t = Watcher
    BY <1>2, <1>3, <1>4, <1>5, <2>1, Names DEF WatcherPlaces
  <2>2. CASE t = Main
    BY <1>2, <1>4, <1>5, <2>2, Names DEF MainPlaces, Watching
  <2>3. CASE t \in Setters
    BY <1>2, <1>4, <1>5, <2>3, Names DEF SetterPlaces, InConfigSet, Assigning, Saving
  <2> QED
    BY <2>1, <2>2, <2>3 DEF Threads
<1> QED
  BY <1>1, <1>4, <1>5, <1>6, StepWaits

LEMMA WatchWaits == TypeOK /\ Waits => \A t \in Callers : Watch(t) => Waits'
<1> SUFFICES ASSUME TypeOK, Waits, NEW t \in Callers, Watch(t), ~ProcessEnds PROVE Waits'
  BY EndWaits
<1>0. /\ t \in Threads /\ t # Watcher /\ Watcher \in Threads /\ pc \in [Threads -> PCs] /\ missed \in BOOLEAN
      /\ Callers \subseteq Threads \ {Watcher}
      /\ \A to \in Watching : to \in MainPlaces /\ to \in SetterPlaces
  BY Names DEF TypeOK, Callers, MainPlaces, SetterPlaces, InConfigSet
<1>1. AfterWatch(t) # "join" /\ (t = Main => AfterWatch(t) \in MainPlaces) /\ (t \in Setters => AfterWatch(t) \in SetterPlaces)
  BY Names DEF AfterWatch, MainPlaces, SetterPlaces, InConfigSet
<1>2. ASSUME NEW to, NEW for \in {"idle", "read", "ended"}, pc' = [pc EXCEPT ![t] = to, ![Watcher] = for],
             t = Main => to \in MainPlaces, t \in Setters => to \in SetterPlaces
      PROVE  /\ Places' /\ pc'[t] = to /\ pc'[Watcher] = for
             /\ \A u \in Callers \ {t} : pc'[u] = pc[u]
  <2>1. pc'[t] = to /\ pc'[Watcher] = for /\ \A u \in Threads \ {t, Watcher} : pc'[u] = pc[u]
    BY <1>0, <1>2
  <2> QED
    BY <1>0, <1>2, <2>1, Names DEF Waits, Places, WatcherPlaces, Callers
<1>3. CASE StopWatcher(t)
  <2>1. CASE watching = NoRoot
    BY <1>0, <1>3, <2>1, StepWaits, Names DEF StopWatcher, watcher, Watching
  <2>2. CASE watching # NoRoot /\ pc[Watcher] = "read" /\ pc' = [pc EXCEPT ![t] = "join", ![Watcher] = "ended"]
    <3>1. Places' /\ pc'[t] = "join" /\ pc'[Watcher] = "ended" /\ \A u \in Callers \ {t} : pc'[u] = pc[u]
      BY <1>0, <1>2, <2>2 DEF Watching
    <3>2. watching' = NoRoot /\ \A u \in Callers : pc[u] # "join"
      BY <1>3, <2>2 DEF StopWatcher, Waits, Joined
    <3> QED
      BY <3>1, <3>2 DEF Waits, Joined
  <2>3. CASE watching # NoRoot /\ Go(t, "watch", "join") /\ missed' = (missed \/ pc[Watcher] = "read")
    <3>1. watching' = NoRoot /\ pc[Watcher] # "idle" /\ \A u \in Callers : pc[u] # "join"
      BY <1>3, <2>3 DEF StopWatcher, Waits, Joined
    <3>2. \A u \in Threads : pc'[u] = IF u = t THEN "join" ELSE pc[u]
      BY <1>0, <2>3, GoMoves
    <3>3. Places'
      BY <1>0, <3>2, Names DEF Waits, Places, Watching, Callers
    <3>4. pc'[Watcher] = pc[Watcher] /\ pc'[t] = "join" /\ \A u \in Callers \ {t} : pc'[u] # "join"
      BY <1>0, <3>1, <3>2
    <3>5. pc'[Watcher] = "read" => missed'
      BY <1>0, <2>3, <3>4
    <3> QED
      BY <3>1, <3>3, <3>4, <3>5 DEF Waits, Joined
  <2> QED
    BY <1>3, <2>1, <2>2, <2>3 DEF StopWatcher
<1>4. CASE JoinWatcher(t)
  <2>1. pc[t] = "join" /\ pc' = [pc EXCEPT ![t] = "startWatcher", ![Watcher] = "idle"] /\ UNCHANGED <<watching, missed>>
    BY <1>4 DEF JoinWatcher, watcher
  <2>2. Places' /\ pc'[t] = "startWatcher" /\ pc'[Watcher] = "idle" /\ \A u \in Callers \ {t} : pc'[u] = pc[u]
    BY <1>0, <1>2, <2>1 DEF Watching
  <2>3. watching = NoRoot /\ \A u \in Callers \ {t} : pc[u] # "join"
    BY <2>1 DEF Waits, Joined
  <2> QED
    BY <2>1, <2>2, <2>3 DEF Waits, Joined
<1>5. CASE StartWatcher(t)
  <2>1. CASE Go(t, "startWatcher", AfterWatch(t)) /\ UNCHANGED watcher
    BY <1>0, <1>1, <2>1, StepWaits
  <2>2. CASE pc[Watcher] = "idle" /\ missed' = missed
              /\ \/ pc' = [pc EXCEPT ![t] = AfterWatch(t), ![Watcher] = "read"]
                 \/ pc' = [pc EXCEPT ![t] = AfterWatch(t), ![Watcher] = "ended"] /\ watching' = watching
    <3>1. /\ Places' /\ pc'[t] # "join" /\ pc'[Watcher] \in {"read", "ended"}
          /\ \A u \in Callers \ {t} : pc'[u] = pc[u]
      BY <1>0, <1>1, <1>2, <2>2
    <3>2. \A u \in Callers : pc[u] # "join"
      BY <2>2 DEF Waits, Joined
    <3> QED
      BY <3>1, <3>2 DEF Waits, Joined
  <2> QED
    BY <1>5, <2>1, <2>2 DEF StartWatcher
<1> QED
  BY <1>3, <1>4, <1>5 DEF Watch

LEMMA WaitsStep == TypeOK /\ Waits /\ [Next]_vars => Waits'
<1> SUFFICES ASSUME TypeOK, Waits, [Next]_vars PROVE Waits'
  OBVIOUS
<1>1. CASE UNCHANGED vars
  BY <1>1 DEF vars, watcher, Waits, Places, Joined
<1>2. ASSUME NEW t \in Threads, Refresh(t) PROVE Waits'
  BY <1>2, RefreshWaits
<1>3. ASSUME NEW s \in Setters, Receive(s) \/ ConfigSet(s) PROVE Waits'
  <2>1. CASE Watch(s)
    BY <2>1, WatchWaits DEF Callers
  <2>2. CASE ~Watch(s)
    <3>1. \E from \in PCs \ {"join"}, to \in SetterPlaces \ {"join"} : Go(s, from, to) /\ UNCHANGED watcher
      <4>1. CASE Receive(s) \/ AssignRoot(s) \/ AssignHttps(s) \/ RestoreRoot(s) \/ RestoreHttps(s)
        BY <4>1 DEF Receive, AssignRoot, AssignHttps, RestoreRoot, RestoreHttps, Throw, PCs, SetterPlaces, InConfigSet, Assigning
      <4>2. CASE Save(s) \/ SaveRemove(s) \/ SaveRetry(s)
        BY <4>2 DEF Save, SaveRemove, SaveRetry, PCs, SetterPlaces, InConfigSet, Assigning, Saving, Watching
      <4>3. CASE Answer(s)
        BY <4>3 DEF Answer, Throw, PCs, SetterPlaces, InConfigSet
      <4> QED
        BY <1>3, <2>2, <4>1, <4>2, <4>3 DEF ConfigSet
    <3> QED
      BY <3>1, StepWaits, Names
  <2> QED
    BY <2>1, <2>2
<1>4. CASE Watch(Main)
  BY <1>4, WatchWaits DEF Callers
<1>5. CASE FolderChanges
  BY <1>5, StepWaits, Names DEF FolderChanges, WatcherPlaces
<1>6. CASE StartEngine
  BY <1>6, StepWaits, Names DEF StartEngine, MainPlaces
<1>7. CASE PublishChange
  <2>1. Loop \in {"ended", "read"} /\ (Loop = "read" => watching # NoRoot)
    BY DEF Loop
  <2>2. CASE Go(Watcher, "publish", Loop) /\ UNCHANGED watcher
    BY <2>1, <2>2, StepWaits, Names DEF WatcherPlaces
  <2> QED
    BY <1>7, <2>2, EndWaits DEF PublishChange
<1>8. CASE Crash
  BY <1>8, EndWaits DEF Crash
<1> QED
  BY <1>1, <1>2, <1>3, <1>4, <1>5, <1>6, <1>7, <1>8 DEF Next

(* The guards of the steps of Fairness.                                      *)
CanMove ==
  \/ \E t \in Threads : pc[t] \in InRefresh \/ (pc[t] = "lock" /\ holder = Nobody)
  \/ \E s \in Setters : pc[s] \in Assigning \union Saving \union {"ok", "error"}
  \/ \E t \in Callers : pc[t] \in {"watch", "startWatcher"} \/ (pc[t] = "join" /\ pc[Watcher] \in {"idle", "ended"})
  \/ pc[Watcher] = "publish"

(* handle_message 400-443 with folder_watcher.cpp 8-35: however many         *)
(* config.set overlap each other and the watcher's refreshes, not all of     *)
(* those at work wait for refresh_mutex_ or to join the watcher's thread:    *)
(* when nobody can go on, nobody is in a request, in a refresh or at the     *)
(* start, but for one who joins a watcher that missed its cancellation and   *)
(* is in its read.                                                           *)
THEOREM NobodyIsStuck ==
  Spec => [](~CanMove => \A t \in Threads : pc[t] \in {"idle", "answered", "down", "read", "ended"} \/ Deaf(t))
<1>1. TypeOK /\ Waits =>
        (~CanMove => \A t \in Threads : pc[t] \in {"idle", "answered", "down", "read", "ended"} \/ Deaf(t))
  <2> SUFFICES ASSUME TypeOK, Waits, ~CanMove, NEW t \in Threads
               PROVE  pc[t] \in {"idle", "answered", "down", "read", "ended"} \/ Deaf(t)
    OBVIOUS
  <2>1. \A u \in Threads : pc[u] \notin InRefresh
    BY DEF CanMove
  <2>2. holder = Nobody
    BY <2>1 DEF TypeOK
  <2>3. \A u \in Threads : pc[u] # "lock"
    BY <2>2 DEF CanMove
  <2>4. pc[Watcher] \in {"idle", "read", "ended"}
    BY <2>1, <2>3, Names DEF CanMove, Waits, Places, WatcherPlaces
  <2>5. \A u \in Callers : pc[u] \notin Watching \/ Deaf(u)
    BY <2>4 DEF CanMove, Watching, Deaf, Waits, Joined
  <2>6. CASE t = Watcher
    BY <2>4, <2>6
  <2>7. CASE t = Main
    BY <2>1, <2>3, <2>5, <2>7 DEF Waits, Places, MainPlaces, Callers
  <2>8. CASE t \in Setters
    BY <2>1, <2>3, <2>5, <2>8 DEF CanMove, Waits, Places, SetterPlaces, InConfigSet, Callers
  <2> QED
    BY <2>6, <2>7, <2>8 DEF Threads
<1> QED
  BY <1>1, InitWaits, WaitsStep, TypeCorrect, PTL DEF Spec
=============================================================================
