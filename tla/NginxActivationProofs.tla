------------------------ MODULE NginxActivationProofs ------------------------
(***************************************************************************)
(* Theorems about NginxActivation, for every value of its bounds.          *)
(***************************************************************************)
EXTENDS NginxActivation, TLAPS

USE BoundsAssumption DEF BoundsAssumption

LEMMA InitType == Init => TypeOK
<1> SUFFICES ASSUME Init PROVE TypeOK
  OBVIOUS
<1> USE DEF Init, Paths, SiteDirs, StagedSites, StagedRoot, Sites, SitesPrevious, Root,
            RootPrevious, Absent, Torn, Gen
<1>1. /\ disk \in [Paths -> Gen \union {Absent, Torn}]
      /\ disk[StagedRoot] # Torn /\ disk[Root] # Torn /\ disk[RootPrevious] # Torn
  OBVIOUS
<1>2. nginx \in Loadable
  BY DEF Loadable
<1>3. /\ gen \in 0..MaxGen /\ activated \in 0..MaxGen /\ approved \in SUBSET (0..MaxGen)
      /\ before \in (Gen \union {Absent, Torn}) \X (Gen \union {Absent, Torn})
  OBVIOUS
<1>4. /\ pc = "idle" /\ result = "none" /\ faults = 0 /\ mishaps = 0 /\ crashes = 0
  OBVIOUS
<1>5. /\ hadSites \in BOOLEAN /\ hadRoot \in BOOLEAN /\ wasRunning \in BOOLEAN
      /\ launchArgs \in BOOLEAN /\ boot \in BOOLEAN /\ overlap \in BOOLEAN /\ shown \in BOOLEAN
  OBVIOUS
<1> HIDE DEF Init
<1> QED
  BY <1>1, <1>2, <1>3, <1>4, <1>5 DEF TypeOK

LEMMA ActivationType == TypeOK /\ Activation => TypeOK'
<1> SUFFICES ASSUME TypeOK, Activation PROVE TypeOK'
  OBVIOUS
<1> USE DEF TypeOK, OnlyFiles, locals, process, history, files, Fault, Rename, CanRename, Remove,
            Paths, SiteDirs, StagedSites, StagedRoot, Sites, SitesPrevious, Root,
            RootPrevious, Absent, Torn, Gen
<1>1. CASE MakeDirs BY <1>1 DEF MakeDirs
<1>2. CASE DropBackupSites BY <1>2 DEF DropBackupSites
<1>3. CASE DropBackupRoot BY <1>3 DEF DropBackupRoot
<1>4. CASE CheckSites
  <2>1. hadSites' \in BOOLEAN BY <1>4 DEF CheckSites
  <2> QED BY <1>4, <2>1 DEF CheckSites
<1>5. CASE BackupSites BY <1>5 DEF BackupSites
<1>6. CASE PromoteSites BY <1>6 DEF PromoteSites
<1>7. CASE RestoreSites BY <1>7 DEF RestoreSites
<1>8. CASE CheckRoot
  <2>1. hadRoot' \in BOOLEAN BY <1>8 DEF CheckRoot
  <2> QED BY <1>8, <2>1 DEF CheckRoot
<1>9. CASE BackupRoot BY <1>9 DEF BackupRoot
<1>10. CASE PromoteRoot BY <1>10 DEF PromoteRoot
<1>11. CASE UndoSites BY <1>11 DEF UndoSites, AfterUndoSites
<1>12. CASE UndoRestoreSites BY <1>12 DEF UndoRestoreSites, AfterUndoSites
<1>13. CASE UndoRestoreRoot BY <1>13 DEF UndoRestoreRoot
<1>14. CASE CleanSites BY <1>14 DEF CleanSites
<1>15. CASE CleanRoot BY <1>15 DEF CleanRoot
<1>16. CASE CleanStaging BY <1>16 DEF CleanStaging
<1> QED
  BY <1>1, <1>2, <1>3, <1>4, <1>5, <1>6, <1>7, <1>8, <1>9, <1>10, <1>11, <1>12, <1>13,
     <1>14, <1>15, <1>16 DEF Activation

LEMMA SpawnType == TypeOK => Spawn \in Loadable
<1> SUFFICES ASSUME TypeOK PROVE Spawn \in Loadable
  OBVIOUS
<1> USE DEF Paths, SiteDirs, StagedSites, StagedRoot, Sites, SitesPrevious, Root, RootPrevious
<1>1. disk[Sites] \in Gen \union {Absent, Torn} /\ disk[Root] \in Gen \union {Absent}
  BY DEF TypeOK
<1>2. CASE ~launchArgs
  BY <1>2 DEF Spawn, Loadable
<1>3. CASE launchArgs
  BY <1>1, <1>3 DEF Spawn, Loadable, ActiveTree
<1> QED
  BY <1>2, <1>3 DEF TypeOK

LEMMA StoppedType == Stopped \in Loadable
BY DEF Loadable

LEMMA NowRunsType == \A n \in Loadable : NowRuns(n) => nginx' \in Loadable /\ shown' \in BOOLEAN
BY DEF NowRuns

LEMMA RefreshType == TypeOK /\ Refresh => TypeOK'
<1> SUFFICES ASSUME TypeOK, Refresh PROVE TypeOK'
  OBVIOUS
<1> USE DEF TypeOK, locals, process, history, files, Return, ActiveTree,
            Paths, SiteDirs, StagedSites, StagedRoot, Sites, SitesPrevious, Root,
            RootPrevious, Absent, Torn, Gen
<1>1. CASE BeginRefresh
  <2>1. wasRunning' \in BOOLEAN BY <1>1 DEF BeginRefresh
  <2> QED BY <1>1, <2>1 DEF BeginRefresh
<1>2. CASE Configure
  <2>1. launchArgs' \in BOOLEAN BY <1>2 DEF Configure
  <2> QED BY <1>2, <2>1 DEF Configure
<1>3. CASE Stage BY <1>3 DEF Stage
<1>4. CASE Validate
  <2>1. before' \in (Gen \union {Absent, Torn}) \X (Gen \union {Absent, Torn})
    BY <1>4 DEF Validate
  <2>2. approved' \in SUBSET (0..MaxGen)
    BY <1>4 DEF Validate
  <2> QED BY <1>4, <2>1, <2>2 DEF Validate
<1>5. CASE ActivationFailed BY <1>5 DEF ActivationFailed
<1>6. CASE Activated BY <1>6 DEF Activated
<1>7. CASE SyncHosts BY <1>7 DEF SyncHosts
<1>8. CASE Restart
  <2>1. nginx' \in Loadable /\ shown' \in BOOLEAN
    BY <1>8, SpawnType, StoppedType, NowRunsType DEF Restart
  <2> QED BY <1>8, <2>1 DEF Restart
<1>9. CASE StartDefaultServices
  <2>1. nginx' \in Loadable /\ shown' \in BOOLEAN
    BY <1>9, SpawnType, StoppedType, NowRunsType DEF StartDefaultServices
  <2> QED BY <1>9, <2>1 DEF StartDefaultServices
<1> QED
  BY <1>1, <1>2, <1>3, <1>4, <1>5, <1>6, <1>7, <1>8, <1>9, ActivationType DEF Refresh

LEMMA EnvironmentType == TypeOK /\ Environment => TypeOK'
<1> SUFFICES ASSUME TypeOK, Environment PROVE TypeOK'
  OBVIOUS
<1> USE DEF TypeOK, locals, process, history, files, ProcessEnds, Serving,
            Paths, SiteDirs, StagedSites, StagedRoot, Sites, SitesPrevious, Root,
            RootPrevious, Absent, Torn, Gen
<1>1. CASE ServiceStart
  <2>1. overlap' \in BOOLEAN BY <1>1 DEF ServiceStart
  <2>2. nginx' \in Loadable /\ shown' \in BOOLEAN
    BY <1>1, SpawnType, NowRunsType DEF ServiceStart
  <2> QED BY <1>1, <2>1, <2>2 DEF ServiceStart
<1>2. CASE ServiceStop
  <2>1. overlap' \in BOOLEAN BY <1>2 DEF ServiceStop
  <2>2. nginx' \in Loadable /\ shown' \in BOOLEAN
    BY <1>2, StoppedType, NowRunsType DEF ServiceStop
  <2> QED BY <1>2, <2>1, <2>2 DEF ServiceStop
<1>3. CASE Shutdown
  <2>1. nginx' \in Loadable /\ shown' \in BOOLEAN
    BY <1>3, StoppedType, NowRunsType DEF Shutdown
  <2> QED BY <1>3, <2>1 DEF Shutdown
<1>4. CASE Crash
  <2>1. crashes' \in 0..MaxCrashes /\ mishaps' \in Nat
    BY <1>4 DEF Crash
  <2>2. nginx' \in Loadable /\ shown' \in BOOLEAN
    BY <1>4, StoppedType, NowRunsType DEF Crash
  <2> QED BY <1>4, <2>1, <2>2 DEF Crash
<1>5. CASE StartEngine BY <1>5 DEF StartEngine
<1>6. CASE Detect
  <2>1. shown' \in BOOLEAN BY <1>6 DEF Detect
  <2> QED BY <1>6, <2>1 DEF Detect
<1>7. CASE NginxExits BY <1>7, StoppedType DEF NginxExits
<1> QED
  BY <1>1, <1>2, <1>3, <1>4, <1>5, <1>6, <1>7 DEF Environment

(* The disk only ever holds whole generations, torn directories and nothing, *)
(* and nginx only ever loads a root configuration that exists.               *)
THEOREM TypeCorrect == Spec => []TypeOK
<1>1. TypeOK /\ UNCHANGED vars => TypeOK'
  BY DEF TypeOK, vars, locals, process, history
<1>2. TypeOK /\ [Next]_vars => TypeOK'
  BY <1>1, RefreshType, EnvironmentType DEF Next
<1> QED
  BY InitType, <1>2, PTL DEF Spec


-----------------------------------------------------------------------------
(* The tree an activation found can be put back: where its two halves are at *)
(* each step.  From undoSites on the claims about what an undo step left     *)
(* hold only while one call has failed, and a backup of the root that this   *)
(* activation did not make is gone, or removing it was that one failure.     *)

SitesSaved ==
  IF hadSites THEN disk[SitesPrevious] = before[1] /\ before[1] # Absent ELSE before[1] = Absent

RootSaved ==
  \/ disk[Root] = before[2] /\ (hadRoot /\ faults <= 1 => disk[RootPrevious] = Absent)
  \/ hadRoot /\ disk[Root] = Absent /\ disk[RootPrevious] = before[2] /\ before[2] # Absent

Restorable ==
  /\ pc \in {"makeDirs", "dropBackupSites", "dropBackupRoot", "checkSites", "backupSites"} =>
       ActiveTree = before
  /\ pc \in {"makeDirs", "dropBackupSites", "dropBackupRoot", "checkSites", "backupSites",
             "promoteSites"} => disk[StagedSites] # Absent
  /\ pc \in {"makeDirs", "dropBackupSites", "dropBackupRoot", "checkSites", "backupSites",
             "promoteSites", "checkRoot", "backupRoot", "promoteRoot"} => disk[StagedRoot] # Absent
  /\ pc \in {"checkSites", "backupSites", "promoteSites", "checkRoot", "backupRoot"} /\ faults = 0 =>
       disk[RootPrevious] = Absent
  /\ pc = "backupSites" => hadSites /\ disk[Sites] # Absent
  /\ pc \in {"promoteSites", "restoreSites"} => disk[Sites] = Absent
  /\ pc \in {"promoteSites", "restoreSites", "checkRoot", "backupRoot"} => disk[Root] = before[2]
  /\ pc \in {"promoteSites", "restoreSites", "checkRoot", "backupRoot", "promoteRoot", "undoSites"} =>
       SitesSaved
  /\ pc \in {"restoreSites", "undoSites", "undoRestoreSites", "undoRestoreRoot"} => faults >= 1
  /\ pc \in {"restoreSites", "undoRestoreSites"} => hadSites
  /\ pc \in {"backupRoot", "undoRestoreRoot"} => hadRoot
  /\ pc = "backupRoot" => disk[Root] # Absent
  /\ pc \in {"promoteRoot", "undoSites", "undoRestoreSites", "undoRestoreRoot"} => RootSaved
  /\ pc = "promoteRoot" => disk[Root] = Absent
  /\ pc = "undoRestoreSites" /\ faults <= 1 => disk[Sites] = Absent /\ SitesSaved
  /\ pc = "undoRestoreRoot" /\ faults <= 1 => disk[Sites] = before[1]
  /\ pc = "activationFailed" /\ faults <= 1 => ActiveTree = before

LEMMA ActivationRestorable == TypeOK /\ Restorable /\ Activation => Restorable'
<1> SUFFICES ASSUME TypeOK, Restorable, Activation PROVE Restorable'
  OBVIOUS
<1> USE DEF Restorable, SitesSaved, RootSaved, ActiveTree, TypeOK, OnlyFiles, locals, process, history,
            files, Fault, Rename, CanRename, Remove, Paths, SiteDirs, StagedSites, StagedRoot, Sites,
            SitesPrevious, Root, RootPrevious, Absent, Torn, Gen
<1>1. CASE MakeDirs BY <1>1 DEF MakeDirs
<1>2. CASE DropBackupSites BY <1>2 DEF DropBackupSites
<1>3. CASE DropBackupRoot BY <1>3 DEF DropBackupRoot
<1>4. CASE CheckSites
  <2>1. CASE disk[Sites] # Absent /\ pc' = "backupSites"
    <3>1. hadSites' /\ UNCHANGED <<disk, before, faults>>
      BY <1>4, <2>1 DEF CheckSites
    <3> QED BY <1>4, <2>1, <3>1 DEF CheckSites
  <2>2. CASE disk[Sites] = Absent /\ pc' = "promoteSites"
    <3>1. ~hadSites' /\ UNCHANGED <<disk, before, faults>>
      BY <1>4, <2>2 DEF CheckSites
    <3> QED BY <1>4, <2>2, <3>1 DEF CheckSites
  <2>3. CASE pc' = "activationFailed"
    BY <1>4, <2>3 DEF CheckSites
  <2> QED BY <1>4, <2>1, <2>2, <2>3 DEF CheckSites
<1>5. CASE BackupSites BY <1>5 DEF BackupSites
<1>6. CASE PromoteSites BY <1>6 DEF PromoteSites
<1>7. CASE RestoreSites BY <1>7 DEF RestoreSites
<1>8. CASE CheckRoot
  <2>1. CASE disk[Root] # Absent /\ pc' = "backupRoot"
    <3>1. hadRoot' /\ UNCHANGED <<disk, before, faults, hadSites>>
      BY <1>8, <2>1 DEF CheckRoot
    <3> QED BY <1>8, <2>1, <3>1 DEF CheckRoot
  <2>2. CASE disk[Root] = Absent /\ pc' = "promoteRoot"
    <3>1. ~hadRoot' /\ UNCHANGED <<disk, before, faults, hadSites>>
      BY <1>8, <2>2 DEF CheckRoot
    <3> QED BY <1>8, <2>2, <3>1 DEF CheckRoot
  <2>3. CASE pc' = "undoSites"
    <3>1. ~hadRoot' /\ faults' = faults + 1 /\ UNCHANGED <<disk, before, hadSites>>
      BY <1>8, <2>3 DEF CheckRoot
    <3> QED BY <1>8, <2>3, <3>1 DEF CheckRoot
  <2> QED BY <1>8, <2>1, <2>2, <2>3 DEF CheckRoot
<1>9. CASE BackupRoot BY <1>9 DEF BackupRoot
<1>10. CASE PromoteRoot BY <1>10 DEF PromoteRoot
<1>11. CASE UndoSites BY <1>11 DEF UndoSites, AfterUndoSites
<1>12. CASE UndoRestoreSites BY <1>12 DEF UndoRestoreSites, AfterUndoSites
<1>13. CASE UndoRestoreRoot BY <1>13 DEF UndoRestoreRoot
<1>14. CASE CleanSites BY <1>14 DEF CleanSites
<1>15. CASE CleanRoot BY <1>15 DEF CleanRoot
<1>16. CASE CleanStaging BY <1>16 DEF CleanStaging
<1> QED
  BY <1>1, <1>2, <1>3, <1>4, <1>5, <1>6, <1>7, <1>8, <1>9, <1>10, <1>11, <1>12, <1>13,
     <1>14, <1>15, <1>16 DEF Activation

(* Outside the activation only Validate sets before, and only when the staged *)
(* tree is complete.                                                          *)
StagedComplete ==
  pc = "validate" => disk[StagedSites] # Absent /\ disk[StagedRoot] # Absent

LEMMA OutsideRestorable ==
  TypeOK /\ StagedComplete /\ Restorable /\ (Next \/ UNCHANGED vars) /\ ~Activation => Restorable'
<1> SUFFICES ASSUME TypeOK, StagedComplete, Restorable, ~Activation, Next \/ UNCHANGED vars
             PROVE  Restorable'
  OBVIOUS
<1> USE DEF TypeOK, StagedComplete, Restorable, SitesSaved, RootSaved, ActiveTree, Return, locals,
            process, history, files, ProcessEnds
<1>1. CASE BeginRefresh BY <1>1 DEF BeginRefresh
<1>2. CASE Configure BY <1>2 DEF Configure
<1>3. CASE Stage BY <1>3 DEF Stage
<1>4. CASE Validate
  <2>1. CASE pc' = "makeDirs"
    BY <1>4, <2>1 DEF Validate
  <2>2. CASE pc' # "makeDirs"
    BY <1>4, <2>2 DEF Validate
  <2> QED BY <2>1, <2>2
<1>5. CASE ActivationFailed BY <1>5 DEF ActivationFailed
<1>6. CASE Activated BY <1>6 DEF Activated
<1>7. CASE SyncHosts BY <1>7 DEF SyncHosts
<1>8. CASE Restart BY <1>8 DEF Restart
<1>9. CASE StartDefaultServices BY <1>9 DEF StartDefaultServices
<1>10. CASE ServiceStart BY <1>10 DEF ServiceStart
<1>11. CASE ServiceStop BY <1>11 DEF ServiceStop
<1>12. CASE Shutdown BY <1>12 DEF Shutdown
<1>13. CASE Crash BY <1>13 DEF Crash
<1>14. CASE StartEngine BY <1>14 DEF StartEngine
<1>15. CASE Detect BY <1>15 DEF Detect
<1>16. CASE NginxExits BY <1>16 DEF NginxExits
<1>17. CASE UNCHANGED vars BY <1>17 DEF vars
<1> QED
  BY <1>1, <1>2, <1>3, <1>4, <1>5, <1>6, <1>7, <1>8, <1>9, <1>10, <1>11, <1>12, <1>13, <1>14, <1>15,
     <1>16, <1>17
  DEF Next, Refresh, Environment

LEMMA StagedCompleteStep == TypeOK /\ StagedComplete /\ [Next]_vars => StagedComplete'
<1> SUFFICES ASSUME TypeOK, StagedComplete, [Next]_vars PROVE StagedComplete'
  OBVIOUS
<1> USE DEF StagedComplete
<1>1. CASE Stage
  BY <1>1 DEF Stage, Return, TypeOK, Paths, SiteDirs, StagedSites, StagedRoot, Sites, SitesPrevious,
              Root, RootPrevious, Absent
<1>2. CASE UNCHANGED vars
  BY <1>2 DEF vars
<1>3. CASE ServiceStart \/ ServiceStop \/ Detect \/ NginxExits
  BY <1>3 DEF ServiceStart, ServiceStop, Detect, NginxExits, files
<1>4. CASE Activation
  BY <1>4 DEF Activation, MakeDirs, DropBackupSites, DropBackupRoot, CheckSites, BackupSites,
              PromoteSites, RestoreSites, CheckRoot, BackupRoot, PromoteRoot, UndoSites,
              UndoRestoreSites, UndoRestoreRoot, CleanSites, CleanRoot, CleanStaging,
              AfterUndoSites, Rename, Remove
<1>5. CASE BeginRefresh \/ Configure \/ Validate \/ ActivationFailed \/ Activated \/ SyncHosts
             \/ Restart \/ StartDefaultServices \/ Shutdown \/ Crash \/ StartEngine
  BY <1>5 DEF BeginRefresh, Configure, Validate, ActivationFailed, Activated, SyncHosts, Restart,
              StartDefaultServices, Shutdown, Crash, StartEngine, Return, ProcessEnds
<1> QED
  BY <1>1, <1>2, <1>3, <1>4, <1>5 DEF Next, Refresh, Environment

(* The invariant behind SingleFaultRestores.                                 *)
THEOREM RestorableInvariant == Spec => [](StagedComplete /\ Restorable)
<1>1. Init => StagedComplete /\ Restorable
  BY DEF Init, StagedComplete, Restorable
<1>2. TypeOK /\ StagedComplete /\ Restorable /\ [Next]_vars => (StagedComplete /\ Restorable)'
  BY StagedCompleteStep, ActivationRestorable, OutsideRestorable
<1> QED
  BY <1>1, <1>2, TypeCorrect, PTL DEF Spec

(* An activation that reports failure after at most one of its file system   *)
(* calls failed has put back exactly the tree it found, whatever backups an  *)
(* earlier failure or crash had left and for every number of generations.    *)
THEOREM RestoreCorrect == Spec => []SingleFaultRestores
<1>1. Restorable => SingleFaultRestores
  BY DEF Restorable, SingleFaultRestores
<1> QED
  BY <1>1, RestorableInvariant, PTL

-----------------------------------------------------------------------------
(* Refinement.  Outside the activation the active tree is one generation; in *)
(* it, the tree it found is an older one than the staged tree.               *)

BeforeSwapSites == {"makeDirs", "dropBackupSites", "dropBackupRoot", "checkSites", "backupSites",
                    "promoteSites"}
BeforeSwapRoot  == {"checkRoot", "backupRoot", "promoteRoot"}

OneGeneration ==
  /\ faults <= MaxFaults
  /\ InActivation \/ pc = "activationFailed" => before[1] = before[2] /\ before[1] \in 0..(gen - 1)
  /\ ~InActivation => disk[Sites] = disk[Root] /\ disk[Sites] \in 0..gen
  /\ pc = "validate" => disk[StagedSites] = gen /\ disk[StagedRoot] = gen /\ disk[Sites] < gen
  /\ pc \in BeforeSwapSites => disk[StagedSites] = gen
  /\ pc \in BeforeSwapSites \union BeforeSwapRoot => disk[StagedRoot] = gen
  /\ pc \in BeforeSwapRoot => disk[Sites] = gen

Few == MaxFaults <= 1 /\ MaxCrashes = 0

LEMMA ActivationOneGeneration ==
  Few /\ TypeOK /\ Restorable' /\ OneGeneration /\ Activation => OneGeneration'
<1> SUFFICES ASSUME Few, TypeOK, Restorable', OneGeneration, Activation PROVE OneGeneration'
  OBVIOUS
<1>1. pc' = "activationFailed" /\ faults' <= 1 => ActiveTree' = before'
  BY DEF Restorable
<1> USE DEF Few, OneGeneration, InActivation, BeforeSwapSites, BeforeSwapRoot, ActiveTree, TypeOK,
            OnlyFiles, locals, process, history, files, Fault, Rename, CanRename, Remove, Paths,
            SiteDirs, StagedSites, StagedRoot, Sites, SitesPrevious, Root, RootPrevious, Absent, Torn, Gen
<1>2. CASE MakeDirs \/ DropBackupSites \/ DropBackupRoot
  BY <1>1, <1>2 DEF MakeDirs, DropBackupSites, DropBackupRoot
<1>3. CASE CheckSites \/ BackupSites
  BY <1>1, <1>3 DEF CheckSites, BackupSites
<1>4. CASE PromoteSites \/ RestoreSites
  BY <1>1, <1>4 DEF PromoteSites, RestoreSites
<1>5. CASE CheckRoot
  BY <1>1, <1>5 DEF CheckRoot
<1>6. CASE BackupRoot
  BY <1>1, <1>6 DEF BackupRoot
<1>7. CASE PromoteRoot
  BY <1>1, <1>7 DEF PromoteRoot
<1>8. CASE UndoSites \/ UndoRestoreSites \/ UndoRestoreRoot
  BY <1>1, <1>8 DEF UndoSites, UndoRestoreSites, UndoRestoreRoot, AfterUndoSites
<1>9. CASE CleanSites \/ CleanRoot \/ CleanStaging
  BY <1>9 DEF CleanSites, CleanRoot, CleanStaging
<1> QED
  BY <1>2, <1>3, <1>4, <1>5, <1>6, <1>7, <1>8, <1>9 DEF Activation

LEMMA OutsideOneGeneration ==
  Few /\ TypeOK /\ Restorable /\ OneGeneration /\ (Next \/ UNCHANGED vars) /\ ~Activation
    => OneGeneration'
<1> SUFFICES ASSUME Few, TypeOK, Restorable, OneGeneration, Next \/ UNCHANGED vars, ~Activation
             PROVE  OneGeneration'
  OBVIOUS
<1> USE DEF Few, OneGeneration, InActivation, BeforeSwapSites, BeforeSwapRoot, ActiveTree, TypeOK, Return,
            locals, process, history, files, ProcessEnds, Paths, SiteDirs, StagedSites, StagedRoot,
            Sites, SitesPrevious, Root, RootPrevious, Absent, Torn, Gen
<1>1. CASE BeginRefresh BY <1>1 DEF BeginRefresh
<1>2. CASE Configure BY <1>2 DEF Configure
<1>3. CASE Stage BY <1>3 DEF Stage
<1>4. CASE Validate BY <1>4 DEF Validate
<1>5. CASE ActivationFailed BY <1>5 DEF ActivationFailed
<1>6. CASE Activated BY <1>6 DEF Activated
<1>7. CASE SyncHosts BY <1>7 DEF SyncHosts
<1>8. CASE Restart BY <1>8 DEF Restart
<1>9. CASE StartDefaultServices BY <1>9 DEF StartDefaultServices
<1>10. CASE ServiceStart BY <1>10 DEF ServiceStart
<1>11. CASE ServiceStop BY <1>11 DEF ServiceStop
<1>12. CASE Shutdown BY <1>12 DEF Shutdown
<1>13. CASE Crash BY <1>13 DEF Crash
<1>14. CASE StartEngine BY <1>14 DEF StartEngine
<1>15. CASE Detect BY <1>15 DEF Detect
<1>16. CASE NginxExits BY <1>16 DEF NginxExits
<1>17. CASE UNCHANGED vars BY <1>17 DEF vars
<1> QED
  BY <1>1, <1>2, <1>3, <1>4, <1>5, <1>6, <1>7, <1>8, <1>9, <1>10, <1>11, <1>12, <1>13, <1>14, <1>15,
     <1>16, <1>17
  DEF Next, Refresh, Environment

(* The value AtomicActivation sees.                                          *)
Published == IF Visible[1] = Visible[2] THEN Visible[1] ELSE Torn

LEMMA StepRefines ==
  Few /\ TypeOK /\ TypeOK' /\ Restorable' /\ OneGeneration /\ OneGeneration' /\ [Next]_vars
    => (Published' \in Nat /\ Published' > Published) \/ Published' = Published
<1> SUFFICES ASSUME Few, TypeOK, TypeOK', Restorable', OneGeneration, OneGeneration', [Next]_vars
             PROVE  (Published' \in Nat /\ Published' > Published) \/ Published' = Published
  OBVIOUS
<1> USE DEF Published, Visible, ActiveTree
<1>1. CASE PromoteRoot
  <2>1. CASE pc' = "cleanSites"
    BY <1>1, <2>1 DEF PromoteRoot, Rename, OnlyFiles, history, OneGeneration, InActivation,
       BeforeSwapRoot, BeforeSwapSites, TypeOK, Paths, SiteDirs, StagedSites, StagedRoot, Sites, SitesPrevious, Root,
       RootPrevious, Absent
  <2>2. CASE pc' # "cleanSites"
    BY <1>1, <2>2 DEF PromoteRoot, Rename, OnlyFiles, history, InActivation
  <2> QED BY <2>1, <2>2
<1>2. CASE InActivation /\ InActivation' /\ before' = before
  BY <1>2
<1>3. CASE InActivation /\ pc' = "activationFailed" /\ before' = before
  BY <1>3 DEF Restorable, OneGeneration, Few, InActivation, TypeOK
<1>4. CASE ~InActivation /\ InActivation' /\ before' = ActiveTree
  BY <1>4
<1>5. CASE ~InActivation /\ ~InActivation' /\ disk'[Sites] = disk[Sites] /\ disk'[Root] = disk[Root]
  BY <1>5
<1>6. Activation /\ ~PromoteRoot => \/ InActivation /\ InActivation' /\ before' = before
                                    \/ InActivation /\ pc' = "activationFailed" /\ before' = before
                                    \/ ~InActivation /\ ~InActivation' /\ disk'[Sites] = disk[Sites]
                                       /\ disk'[Root] = disk[Root]
  BY DEF Activation, MakeDirs, DropBackupSites, DropBackupRoot, CheckSites, BackupSites, PromoteSites,
         RestoreSites, CheckRoot, BackupRoot, UndoSites, UndoRestoreSites, UndoRestoreRoot, CleanSites,
         CleanRoot, CleanStaging, AfterUndoSites, Rename, Remove, OnlyFiles, files, history, InActivation,
         TypeOK, Paths, SiteDirs, StagedSites, StagedRoot, Sites, SitesPrevious, Root, RootPrevious
<1>7. CASE Validate
  BY <1>4, <1>5, <1>7 DEF Validate, Return, InActivation, TypeOK, Paths, SiteDirs, StagedSites,
     StagedRoot, Sites, SitesPrevious, Root, RootPrevious
<1>8. CASE Stage
  BY <1>5, <1>8 DEF Stage, Return, InActivation, TypeOK, Paths, SiteDirs, StagedSites, StagedRoot, Sites,
     SitesPrevious, Root, RootPrevious
<1>9. CASE BeginRefresh \/ Configure \/ ActivationFailed \/ Activated \/ SyncHosts \/ Restart
             \/ StartDefaultServices \/ Shutdown \/ StartEngine
  BY <1>5, <1>9 DEF BeginRefresh, Configure, ActivationFailed, Activated, SyncHosts, Restart, Serving,
     StartDefaultServices, Shutdown, StartEngine, Return, ProcessEnds, files, InActivation
<1>10. CASE ServiceStart \/ ServiceStop \/ Detect \/ NginxExits \/ UNCHANGED vars
  BY <1>10 DEF ServiceStart, ServiceStop, Detect, NginxExits, files, vars, history, InActivation
<1>11. ~Crash
  BY DEF Crash, Few, TypeOK
<1> QED
  BY <1>1, <1>2, <1>3, <1>5, <1>6, <1>7, <1>8, <1>9, <1>10, <1>11 DEF Next, Refresh, Environment

(* While at most one call fails in each activation and the Engine does not   *)
(* crash, the file by file replacement implements the single-step            *)
(* replacement of AtomicActivation, for every number of generations.         *)
THEOREM ActivationIsAtomic ==
  ASSUME MaxFaults <= 1, MaxCrashes = 0
  PROVE  Spec => AtomicSpec
<1> USE DEF AtomicSpec
<1>1. Few
  BY DEF Few
<1>2. Init => OneGeneration /\ Atomic!Init
  BY DEF Init, OneGeneration, InActivation, BeforeSwapSites, BeforeSwapRoot, Atomic!Init, Visible,
         ActiveTree, Paths, SiteDirs, StagedSites, StagedRoot, Sites, SitesPrevious, Root,
         RootPrevious, Absent
<1>3. TypeOK /\ Restorable /\ Restorable' /\ OneGeneration /\ [Next]_vars => OneGeneration'
  BY <1>1, ActivationOneGeneration, OutsideOneGeneration
<1>4. TypeOK /\ TypeOK' /\ Restorable' /\ OneGeneration /\ OneGeneration' /\ [Next]_vars
        => [Atomic!Publish]_Published
  <2> SUFFICES ASSUME TypeOK, TypeOK', Restorable', OneGeneration, OneGeneration', [Next]_vars
               PROVE  Atomic!Publish \/ Published' = Published
    OBVIOUS
  <2>1. Published' \in Nat /\ Published' > Published => Atomic!Publish
    BY DEF Published, Atomic!Publish
  <2> QED
    BY <1>1, <2>1, StepRefines
<1> QED
  BY <1>2, <1>3, <1>4, TypeCorrect, RestorableInvariant, PTL DEF Spec, Atomic!Spec, Published

-----------------------------------------------------------------------------
(* What nginx serves.  The tree that is published is the one that was staged *)
(* last, and until the refresh has returned nothing changes which process    *)
(* there is but service commands, which overlap it.                          *)

Publishing ==
  /\ pc \in {"validate", "makeDirs", "dropBackupSites", "dropBackupRoot", "checkSites", "backupSites",
             "promoteSites"} => disk[StagedSites] = gen /\ disk[StagedRoot] = gen /\ gen # Absent
  /\ pc \in {"checkRoot", "backupRoot", "promoteRoot"} =>
       disk[Sites] = gen /\ disk[StagedRoot] = gen /\ gen # Absent
  /\ pc \in {"cleanSites", "cleanRoot", "cleanStaging", "activated", "syncHosts", "restart"} =>
       ActiveTree = <<gen, gen>> /\ gen # Absent
  /\ pc \in {"syncHosts", "restart"} => launchArgs
  /\ pc \in {"idle", "defaults"} /\ result = "ok" => launchArgs /\ ActiveTree = <<gen, gen>> /\ gen # Absent

Serves ==
  /\ pc \notin {"down", "idle", "defaults"} /\ ~overlap /\ shown => wasRunning
  /\ pc = "restart" => wasRunning
  /\ pc \in {"idle", "defaults"} /\ result = "ok" /\ ~overlap /\ shown => nginx \in {Stopped, <<gen, gen>>}

LEMMA ActivationPublishing == TypeOK /\ Publishing /\ Activation => Publishing'
<1> SUFFICES ASSUME TypeOK, Publishing, Activation PROVE Publishing'
  OBVIOUS
<1> USE DEF Publishing, ActiveTree, TypeOK, OnlyFiles, locals, process, history, files, Fault, Rename,
            CanRename, Remove, Paths, SiteDirs, StagedSites, StagedRoot, Sites, SitesPrevious, Root,
            RootPrevious, Absent, Torn, Gen
<1>1. CASE MakeDirs \/ DropBackupSites \/ DropBackupRoot
  BY <1>1 DEF MakeDirs, DropBackupSites, DropBackupRoot
<1>2. CASE CheckSites \/ BackupSites
  BY <1>2 DEF CheckSites, BackupSites
<1>3. CASE PromoteSites \/ RestoreSites
  BY <1>3 DEF PromoteSites, RestoreSites
<1>4. CASE CheckRoot
  BY <1>4 DEF CheckRoot
<1>5. CASE BackupRoot
  BY <1>5 DEF BackupRoot
<1>6. CASE PromoteRoot
  BY <1>6 DEF PromoteRoot
<1>7. CASE UndoSites \/ UndoRestoreSites \/ UndoRestoreRoot
  BY <1>7 DEF UndoSites, UndoRestoreSites, UndoRestoreRoot, AfterUndoSites
<1>8. CASE CleanSites \/ CleanRoot \/ CleanStaging
  BY <1>8 DEF CleanSites, CleanRoot, CleanStaging
<1> QED
  BY <1>1, <1>2, <1>3, <1>4, <1>5, <1>6, <1>7, <1>8 DEF Activation

LEMMA OutsidePublishing ==
  TypeOK /\ Publishing /\ (Next \/ UNCHANGED vars) /\ ~Activation => Publishing'
<1> SUFFICES ASSUME TypeOK, Publishing, ~Activation, Next \/ UNCHANGED vars PROVE Publishing'
  OBVIOUS
<1> USE DEF Publishing, ActiveTree, TypeOK, Return, locals, process, history, files, ProcessEnds, Paths,
            SiteDirs, StagedSites, StagedRoot, Sites, SitesPrevious, Root, RootPrevious, Absent, Gen
<1>1. CASE BeginRefresh \/ Configure
  BY <1>1 DEF BeginRefresh, Configure
<1>2. CASE Stage
  BY <1>2 DEF Stage
<1>3. CASE Validate
  BY <1>3 DEF Validate
<1>4. CASE ActivationFailed \/ Activated \/ SyncHosts
  BY <1>4 DEF ActivationFailed, Activated, SyncHosts
<1>5. CASE Restart \/ StartDefaultServices
  BY <1>5 DEF Restart, StartDefaultServices
<1>6. CASE ServiceStart \/ ServiceStop \/ Detect \/ NginxExits \/ UNCHANGED vars
  BY <1>6 DEF ServiceStart, ServiceStop, Detect, NginxExits, vars
<1>7. CASE Shutdown \/ Crash \/ StartEngine
  BY <1>7 DEF Shutdown, Crash, StartEngine
<1> QED
  BY <1>1, <1>2, <1>3, <1>4, <1>5, <1>6, <1>7 DEF Next, Refresh, Environment

LEMMA ActivationServes == Serves /\ Activation => Serves'
BY DEF Serves, Activation, MakeDirs, DropBackupSites, DropBackupRoot, CheckSites, BackupSites, PromoteSites,
       RestoreSites, CheckRoot, BackupRoot, PromoteRoot, UndoSites, UndoRestoreSites, UndoRestoreRoot,
       CleanSites, CleanRoot, CleanStaging, AfterUndoSites, Rename, Remove, OnlyFiles, process, locals, history

LEMMA OutsideServes ==
  TypeOK /\ Publishing /\ Serves /\ (Next \/ UNCHANGED vars) /\ ~Activation => Serves'
<1> SUFFICES ASSUME TypeOK, Publishing, Serves, ~Activation, Next \/ UNCHANGED vars PROVE Serves'
  OBVIOUS
<1>1. launchArgs /\ ActiveTree = <<gen, gen>> /\ gen # Absent => Spawn = <<gen, gen>>
  BY DEF Spawn, ActiveTree
<1> USE DEF Serves, Publishing, TypeOK, Return, NowRuns, Serving
<1>2. CASE BeginRefresh \/ Configure \/ Stage \/ Validate
  BY <1>2 DEF BeginRefresh, Configure, Stage, Validate, locals, process, history
<1>3. CASE ActivationFailed \/ Activated \/ SyncHosts
  BY <1>3 DEF ActivationFailed, Activated, SyncHosts, locals, process, history
<1>4. CASE Restart
  BY <1>1, <1>4 DEF Restart, history, locals
<1>5. CASE StartDefaultServices
  BY <1>1, <1>5 DEF StartDefaultServices, history
<1>6. CASE ServiceStart \/ ServiceStop
  BY <1>1, <1>6 DEF ServiceStart, ServiceStop, history, locals
<1>7. CASE Detect \/ NginxExits \/ UNCHANGED vars
  BY <1>7 DEF Detect, NginxExits, vars, history, locals, process
<1>8. CASE Shutdown \/ Crash \/ StartEngine
  BY <1>8 DEF Shutdown, Crash, StartEngine, ProcessEnds
<1> QED
  BY <1>2, <1>3, <1>4, <1>5, <1>6, <1>7, <1>8 DEF Next, Refresh, Environment

(* After a refresh that succeeded, an nginx that is shown as running and     *)
(* that no service command touched meanwhile serves the tree this refresh    *)
(* staged, whatever failed or crashed before, for every number of refreshes. *)
THEOREM RefreshIsServed == Spec => []NginxServesTheRefresh
<1>1. Init => Publishing /\ Serves
  BY DEF Init, Publishing, Serves
<1>2. TypeOK /\ Publishing /\ Serves /\ [Next]_vars => (Publishing /\ Serves)'
  BY ActivationPublishing, OutsidePublishing, ActivationServes, OutsideServes
<1>3. Serves => NginxServesTheRefresh
  BY DEF Serves, NginxServesTheRefresh
<1> QED
  BY <1>1, <1>2, <1>3, TypeCorrect, PTL DEF Spec

-----------------------------------------------------------------------------
(* No validated configuration is lost.  Outside an activation one is in the  *)
(* active tree and its backups, and while nothing has ever failed it is the  *)
(* active tree itself.  Inside, the staged one is there until something      *)
(* fails, and then, at the first failure, the one that was found.            *)

Kept ==
  \E g \in approved :
    g >= activated /\ g \in {disk[Sites], disk[SitesPrevious]} /\ g \in {disk[Root], disk[RootPrevious]}

ActivatedIn(tree) == tree = <<activated, activated>> /\ activated \in approved

Resting  == {"down", "idle", "configure", "stage", "validate", "syncHosts", "restart", "defaults"}
Swapped  == {"cleanSites", "cleanRoot", "cleanStaging", "activated", "syncHosts", "restart"}
Swapping == {"makeDirs", "dropBackupSites", "dropBackupRoot", "checkSites", "backupSites", "promoteSites",
             "checkRoot", "backupRoot", "promoteRoot"}

Recoverable ==
  /\ faults <= mishaps
  /\ activated <= gen
  /\ pc \in Swapping \union Swapped => gen \in approved
  /\ pc \in {"syncHosts", "restart"} => activated = gen
  /\ pc = "activationFailed" => faults >= 1
  /\ pc \in {"dropBackupRoot", "checkSites", "backupSites"} /\ faults = 0 => disk[SitesPrevious] = Absent
  /\ InActivation \/ pc = "activationFailed" =>
       (mishaps <= faults /\ activated # 0 => ActivatedIn(before))
  /\ pc \in Resting /\ mishaps = 0 /\ activated # 0 => ActivatedIn(ActiveTree)
  /\ pc \in Resting \union {"makeDirs", "dropBackupSites"} /\ mishaps <= 1 /\ activated # 0 => Kept

LEMMA ActivationRecoverable ==
  TypeOK /\ Restorable /\ Publishing /\ Recoverable /\ Activation => Recoverable'
<1> SUFFICES ASSUME TypeOK, Restorable, Publishing, Recoverable, Activation PROVE Recoverable'
  OBVIOUS
<1>1. UNCHANGED <<approved, activated, gen, before>>
  BY DEF Activation, MakeDirs, DropBackupSites, DropBackupRoot, CheckSites, BackupSites, PromoteSites,
         RestoreSites, CheckRoot, BackupRoot, PromoteRoot, UndoSites, UndoRestoreSites, UndoRestoreRoot,
         CleanSites, CleanRoot, CleanStaging, OnlyFiles, history
<1> USE DEF Recoverable, ActivatedIn, InActivation, Resting, Swapped, Swapping, Fault, Rename, Remove, files
<1>2. CASE MakeDirs
  <2>1. UNCHANGED disk /\ (Kept => Kept')
    BY <1>1, <1>2 DEF MakeDirs, Kept
  <2> QED
    BY <1>1, <1>2, <2>1 DEF MakeDirs, TypeOK
<1>3. CASE DropBackupSites
  BY <1>1, <1>3 DEF DropBackupSites, TypeOK, Paths, SiteDirs, SitesPrevious
<1>4. CASE DropBackupRoot
  BY <1>1, <1>4 DEF DropBackupRoot, TypeOK, Paths, SiteDirs, Sites, StagedSites, SitesPrevious, RootPrevious
<1>5. CASE CheckSites
  BY <1>1, <1>5 DEF CheckSites, TypeOK
<1>6. CASE BackupSites
  BY <1>1, <1>6 DEF BackupSites, Restorable, CanRename, TypeOK, Sites, SitesPrevious
<1>7. CASE PromoteSites
  BY <1>1, <1>7 DEF PromoteSites, Restorable, CanRename, TypeOK
<1>8. CASE RestoreSites
  BY <1>1, <1>8 DEF RestoreSites, Restorable, TypeOK
<1>9. CASE CheckRoot
  BY <1>1, <1>9 DEF CheckRoot, TypeOK
<1>10. CASE BackupRoot \/ PromoteRoot
  BY <1>1, <1>10 DEF BackupRoot, PromoteRoot, TypeOK
<1>11. CASE UndoSites \/ UndoRestoreSites \/ UndoRestoreRoot
  BY <1>1, <1>11 DEF UndoSites, UndoRestoreSites, UndoRestoreRoot, AfterUndoSites, Restorable, TypeOK
<1>12. CASE CleanSites \/ CleanRoot \/ CleanStaging
  BY <1>1, <1>12 DEF CleanSites, CleanRoot, CleanStaging, TypeOK
<1> QED
  BY <1>2, <1>3, <1>4, <1>5, <1>6, <1>7, <1>8, <1>9, <1>10, <1>11, <1>12 DEF Activation

(* In an activation before anything failed, the tree it found is still in    *)
(* the active tree and the backups.                                          *)
LEMMA FoundKept ==
  TypeOK /\ Restorable /\ Recoverable /\ InActivation /\ mishaps = 0 /\ activated # 0 => Kept
<1> SUFFICES ASSUME TypeOK, Restorable, Recoverable, InActivation, mishaps = 0, activated # 0 PROVE Kept
  OBVIOUS
<1>1. faults = 0 /\ before = <<activated, activated>> /\ activated \in approved /\ activated \in Nat
  BY DEF Recoverable, ActivatedIn, TypeOK
<1>2. activated \in {disk[Sites], disk[SitesPrevious]} /\ activated \in {disk[Root], disk[RootPrevious]}
  BY <1>1 DEF Restorable, SitesSaved, RootSaved, InActivation, ActiveTree, Absent
<1> QED
  BY <1>1, <1>2 DEF Kept

LEMMA OutsideRecoverable ==
  TypeOK /\ Restorable /\ Publishing /\ Recoverable /\ (Next \/ UNCHANGED vars) /\ ~Activation
    => Recoverable'
<1> SUFFICES ASSUME TypeOK, Restorable, Publishing, Recoverable, ~Activation, Next \/ UNCHANGED vars
             PROVE  Recoverable'
  OBVIOUS
<1>1. ActivatedIn(ActiveTree) => Kept
  BY DEF ActivatedIn, ActiveTree, Kept, TypeOK
<1>2. pc \in Swapped => Kept
  BY DEF Publishing, Recoverable, Swapped, Kept, ActiveTree
<1>3. pc = "activationFailed" /\ mishaps <= 1 /\ activated # 0 => Kept
  BY <1>1 DEF Recoverable, Restorable, TypeOK, ActivatedIn
<1>4. disk'[Sites] = disk[Sites] /\ disk'[SitesPrevious] = disk[SitesPrevious]
        /\ disk'[Root] = disk[Root] /\ disk'[RootPrevious] = disk[RootPrevious]
        /\ activated' = activated /\ approved \subseteq approved' => (Kept => Kept') /\ ActiveTree' = ActiveTree
  BY DEF Kept, ActiveTree
<1> USE DEF Recoverable, ActivatedIn, InActivation, Resting, Swapped, Swapping, files, history
<1>5. CASE BeginRefresh \/ Configure
  BY <1>4, <1>5 DEF BeginRefresh, Configure, Return
<1>6. CASE Stage
  <2>1. disk'[Sites] = disk[Sites] /\ disk'[SitesPrevious] = disk[SitesPrevious]
        /\ disk'[Root] = disk[Root] /\ disk'[RootPrevious] = disk[RootPrevious]
    BY <1>6 DEF Stage, TypeOK, Paths, SiteDirs, StagedSites, StagedRoot, Sites, SitesPrevious, Root,
                RootPrevious
  <2> QED
    BY <1>4, <1>6, <2>1 DEF Stage, Return, TypeOK
<1>7. CASE Validate
  <2>1. disk'[Sites] = disk[Sites] /\ disk'[SitesPrevious] = disk[SitesPrevious]
        /\ disk'[Root] = disk[Root] /\ disk'[RootPrevious] = disk[RootPrevious]
    BY <1>7 DEF Validate, TypeOK, Paths, SiteDirs, StagedSites, StagedRoot, Sites, SitesPrevious, Root,
                RootPrevious
  <2> QED
    BY <1>4, <1>7, <2>1 DEF Validate, Return, TypeOK
<1>8. CASE ActivationFailed
  BY <1>3, <1>4, <1>8 DEF ActivationFailed, Return, TypeOK
<1>9. CASE Activated
  <2>1. Kept'
    BY <1>9 DEF Activated, Kept, Publishing, ActiveTree, TypeOK
  <2>2. ActivatedIn(ActiveTree)'
    BY <1>9 DEF Activated, Publishing, ActiveTree
  <2> QED
    BY <1>9, <2>1, <2>2 DEF Activated, TypeOK
<1>10. CASE SyncHosts \/ Restart \/ StartDefaultServices
  BY <1>2, <1>4, <1>10 DEF SyncHosts, Restart, StartDefaultServices, Return
<1>11. CASE ServiceStart \/ ServiceStop \/ Detect \/ NginxExits \/ UNCHANGED vars
  BY <1>4, <1>11 DEF ServiceStart, ServiceStop, Detect, NginxExits, vars
<1>12. CASE Crash
  <2>1. activated # 0 /\ mishaps = 0 => Kept
    BY <1>1, <1>2, FoundKept DEF TypeOK
  <2> QED
    BY <1>4, <1>12, <2>1 DEF Crash, ProcessEnds, TypeOK
<1>13. CASE Shutdown \/ StartEngine
  BY <1>4, <1>13 DEF Shutdown, StartEngine, ProcessEnds
<1> QED
  BY <1>5, <1>6, <1>7, <1>8, <1>9, <1>10, <1>11, <1>12, <1>13 DEF Next, Refresh, Environment

(* Once a configuration has been activated, one failed file system call or   *)
(* one crash, at any step of any activation, leaves a configuration nginx    *)
(* accepted on the disk, for every number of generations.                    *)
THEOREM ValidatedTreeKept == Spec => []ValidatedTreeOnDisk
<1>1. Init => Publishing /\ Recoverable
  BY DEF Init, Publishing, Recoverable, InActivation, Resting, Swapped, Swapping
<1>2. TypeOK /\ Restorable /\ Publishing /\ Recoverable /\ [Next]_vars => (Publishing /\ Recoverable)'
  BY ActivationPublishing, OutsidePublishing, ActivationRecoverable, OutsideRecoverable
<1>3. TypeOK /\ Restorable /\ Publishing /\ Recoverable => ValidatedTreeOnDisk
  <2> SUFFICES ASSUME TypeOK, Restorable, Publishing, Recoverable, activated # 0, mishaps <= 1
               PROVE  \E g \in approved : /\ g >= activated
                                          /\ g \in {disk[Sites], disk[SitesPrevious], disk[StagedSites]}
                                          /\ g \in {disk[Root], disk[RootPrevious], disk[StagedRoot]}
    BY DEF ValidatedTreeOnDisk
  <2>1. CASE pc \in Resting
    BY <2>1 DEF Recoverable, Kept
  <2>2. CASE pc \in Swapping \union Swapped
    <3>1. gen \in approved /\ gen >= activated
      BY <2>2 DEF Recoverable, TypeOK
    <3>2. gen \in {disk[Sites], disk[StagedSites]} /\ gen \in {disk[Root], disk[StagedRoot]}
      BY <2>2 DEF Publishing, Swapping, Swapped, ActiveTree
    <3> QED
      BY <3>1, <3>2
  <2>3. CASE pc \in {"restoreSites", "undoSites", "undoRestoreSites", "undoRestoreRoot", "activationFailed"}
    <3>1. faults = 1 /\ mishaps = 1
      BY <2>3 DEF Restorable, Recoverable, TypeOK
    <3>2. before = <<activated, activated>> /\ activated \in approved /\ activated \in Nat
      BY <2>3, <3>1 DEF Recoverable, InActivation, ActivatedIn, TypeOK
    <3>3. /\ activated \in {disk[Sites], disk[SitesPrevious]}
          /\ activated \in {disk[Root], disk[RootPrevious]}
      BY <2>3, <3>1, <3>2 DEF Restorable, SitesSaved, RootSaved, ActiveTree, Absent
    <3> QED
      BY <3>2, <3>3
  <2> QED
    BY <2>1, <2>2, <2>3 DEF TypeOK, Resting, Swapping, Swapped
<1> QED
  BY <1>1, <1>2, <1>3, TypeCorrect, RestorableInvariant, PTL DEF Spec
=============================================================================
