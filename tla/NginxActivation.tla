--------------------------- MODULE NginxActivation ---------------------------
(***************************************************************************)
(* The Engine's nginx configuration pipeline: rescan_sites_and_refresh_-   *)
(* nginx, configure_nginx, run_nginx_validation and, one file system call  *)
(* at a time, activate_staged_configuration (engine/engine.cpp), together  *)
(* with what else touches the same files and the same nginx: the IPC       *)
(* commands that start and stop nginx while a refresh is running (they do  *)
(* not take refresh_mutex_), the Engine's shutdown, and a crash between    *)
(* any two steps.                                                          *)
(*                                                                         *)
(* A refresh holds refresh_mutex_, so there is one pc.  The content of a   *)
(* configuration tree is abstracted to the generation that wrote it: the   *)
(* n-th staged tree is generation n.  An entry of the disk is a generation,*)
(* Absent, or Torn (a directory of which remove_all deleted only a part).  *)
(*                                                                         *)
(* nginx is taken to be detected; without it configure_nginx changes none  *)
(* of this state.                                                          *)
(***************************************************************************)
EXTENDS Integers, FiniteSets

CONSTANTS
  MaxGen,      \* bound: staged generations
  MaxFaults,   \* bound: file system calls that fail in one activation
  MaxCrashes   \* bound: crashes of the Engine

ASSUME BoundsAssumption ==
  MaxGen \in Nat /\ MaxFaults \in Nat /\ MaxCrashes \in Nat

Absent == 0
Torn   == -1
Gen    == 1..MaxGen

StagedSites   == "staging/sites"
StagedRoot    == "staging/nginx.conf"
Sites         == "active/sites"
SitesPrevious == "active/sites.previous"
Root          == "active/nginx.conf"
RootPrevious  == "active/nginx.conf.previous"
SiteDirs      == {StagedSites, Sites, SitesPrevious}
Paths         == SiteDirs \union {StagedRoot, Root, RootPrevious}

Stopped == <<"stopped">>
Default == <<"default">>   \* nginx started without -p and -c: its own nginx.conf
Loadable == {Stopped, Default} \union ((Gen \union {Absent, Torn}) \X Gen)

VARIABLES
  disk,        \* what each path holds
  pc,          \* the next step of the refresh that holds refresh_mutex_
  hadSites,    \* local had_sites of activate_staged_configuration
  hadRoot,     \* local had_root
  wasRunning,  \* local was_running of rescan_sites_and_refresh_nginx
  launchArgs,  \* nginx's launch arguments name the active tree
  nginx,       \* the configuration the nginx process has loaded
  shown,       \* status_.running of the nginx provider
  boot,        \* Engine::start has not reached ipc_.start yet
  result,      \* what the last refresh returned
  gen,         \* the last generation staged
  approved,    \* history: the generations nginx -t accepted
  activated,   \* history: the last generation configure_nginx activated
  before,      \* history: the active tree when this activation began
  faults,      \* history: calls that failed in this activation
  mishaps,     \* history: calls that failed, and crashes, since the beginning
  crashes,     \* crashes so far
  overlap      \* history: a service command ran during this refresh

files     == <<disk, faults, mishaps>>
locals    == <<hadSites, hadRoot, wasRunning>>
process   == <<launchArgs, nginx, shown, boot, overlap>>
history   == <<gen, approved, activated, before>>
vars      == <<disk, pc, locals, process, result, history, faults, mishaps, crashes>>

ActiveTree == <<disk[Sites], disk[Root]>>

TypeOK ==
  /\ disk \in [Paths -> Gen \union {Absent, Torn}]
  /\ disk[StagedRoot] # Torn /\ disk[Root] # Torn /\ disk[RootPrevious] # Torn
  /\ pc \in {"down", "idle", "configure", "stage", "validate", "makeDirs", "dropBackupSites",
             "dropBackupRoot", "checkSites", "backupSites", "promoteSites",
             "restoreSites", "checkRoot", "backupRoot", "promoteRoot",
             "undoSites", "undoRestoreSites", "undoRestoreRoot", "activationFailed",
             "cleanSites", "cleanRoot", "cleanStaging", "activated", "syncHosts",
             "restart", "defaults"}
  /\ hadSites \in BOOLEAN /\ hadRoot \in BOOLEAN /\ wasRunning \in BOOLEAN
  /\ launchArgs \in BOOLEAN /\ boot \in BOOLEAN /\ overlap \in BOOLEAN /\ shown \in BOOLEAN
  /\ nginx \in Loadable
  /\ result \in {"none", "ok", "failed"}
  /\ gen \in 0..MaxGen /\ activated \in 0..MaxGen /\ approved \in SUBSET (0..MaxGen)
  /\ before \in (Gen \union {Absent, Torn}) \X (Gen \union {Absent, Torn})
  /\ faults \in Nat /\ mishaps \in Nat /\ crashes \in 0..MaxCrashes

(* Engine::start: a fresh installation has no tree; the first refresh runs  *)
(* before IPC accepts a command.                                            *)
Init ==
  /\ disk = [p \in Paths |-> Absent]
  /\ pc = "idle" /\ boot = TRUE
  /\ hadSites = FALSE /\ hadRoot = FALSE /\ wasRunning = FALSE
  /\ launchArgs = FALSE /\ nginx = Stopped /\ shown = FALSE /\ overlap = FALSE
  /\ result = "none" /\ gen = 0 /\ approved = {} /\ activated = 0
  /\ before = <<Absent, Absent>> /\ faults = 0 /\ mishaps = 0 /\ crashes = 0

-----------------------------------------------------------------------------
(* File system calls.  The operators whose names say what they lack or do    *)
(* differently, here and in the other modules, are mistakes the properties   *)
(* are there to catch; no specification uses them.                           *)

(* The operating system refuses a call the state allows.                     *)
Fault ==
  /\ faults < MaxFaults
  /\ faults' = faults + 1 /\ mishaps' = mishaps + 1

(* A file is replaced by rename, a directory is not.                         *)
CanRename(from, to) ==
  /\ disk[from] # Absent
  /\ to \in SiteDirs => disk[to] = Absent

Rename(from, to, ok, bad) ==
  \/ /\ CanRename(from, to)
     /\ disk' = [disk EXCEPT ![to] = disk[from], ![from] = Absent]
     /\ pc' = ok
     /\ UNCHANGED <<faults, mishaps>>
  \/ /\ ~CanRename(from, to)
     /\ pc' = bad
     /\ UNCHANGED files
  \/ /\ Fault
     /\ pc' = bad
     /\ UNCHANGED disk

(* remove and remove_all, whose errors the code drops: all, nothing or, of a *)
(* directory, a part is gone.                                                *)
Remove(path, next) ==
  /\ pc' = next
  /\ \/ disk' = [disk EXCEPT ![path] = Absent] /\ UNCHANGED <<faults, mishaps>>
     \/ Fault /\ disk[path] # Absent
        /\ \/ UNCHANGED disk
           \/ path \in SiteDirs /\ disk' = [disk EXCEPT ![path] = Torn]

(* The file system calls that return through pc alone leave the rest alone.  *)
OnlyFiles == UNCHANGED <<locals, process, result, history, crashes>>

-----------------------------------------------------------------------------
(* rescan_sites_and_refresh_nginx, up to the staged tree.                    *)

(* A caller got refresh_mutex_ and the rescan succeeded; a rescan that fails *)
(* changes nothing here but the result.                                      *)
BeginRefresh ==
  /\ pc = "idle"
  /\ overlap' = FALSE
  /\ \/ wasRunning' = shown /\ pc' = "configure" /\ UNCHANGED result
     \/ pc' = (IF boot THEN "defaults" ELSE "idle") /\ result' = "failed" /\ UNCHANGED wasRunning
  /\ UNCHANGED <<files, hadSites, hadRoot, launchArgs, nginx, shown, boot, history, crashes>>

(* The refresh returns.  In Engine::start the default services come next.    *)
Return(r) ==
  /\ result' = r
  /\ pc' = IF boot THEN "defaults" ELSE "idle"

(* configure_nginx up to the certificates: the arguments are set when the    *)
(* active root exists; an untrusted CA or a failed leaf ends the refresh.    *)
Configure ==
  /\ pc = "configure"
  /\ launchArgs' = (launchArgs \/ disk[Root] # Absent)
  /\ \/ pc' = "stage" /\ UNCHANGED result
     \/ Return("failed")
  /\ UNCHANGED <<files, locals, nginx, shown, boot, overlap, history, crashes>>

(* write_nginx_configs and write_nginx_root_config fill an emptied staging   *)
(* tree; a failure removes it.                                               *)
Stage ==
  /\ pc = "stage"
  /\ \/ /\ gen < MaxGen /\ gen' = gen + 1
        /\ disk' = [disk EXCEPT ![StagedSites] = gen + 1, ![StagedRoot] = gen + 1]
        /\ pc' = "validate" /\ UNCHANGED result
     \/ /\ disk' = [disk EXCEPT ![StagedSites] = Absent, ![StagedRoot] = Absent]
        /\ Return("failed") /\ UNCHANGED gen
  /\ UNCHANGED <<locals, process, approved, activated, before, faults, mishaps, crashes>>

(* nginx -t accepts the staged tree, or rejects it or times out.             *)
Validate ==
  /\ pc = "validate"
  /\ \/ /\ approved' = approved \union {gen}
        /\ before' = ActiveTree /\ faults' = 0
        /\ pc' = "makeDirs" /\ UNCHANGED <<disk, result>>
     \/ /\ disk' = [disk EXCEPT ![StagedSites] = Absent, ![StagedRoot] = Absent]
        /\ Return("failed") /\ UNCHANGED <<approved, before, faults>>
  /\ UNCHANGED <<locals, process, gen, activated, mishaps, crashes>>

-----------------------------------------------------------------------------
(* activate_staged_configuration.                                            *)

MakeDirs ==
  /\ pc = "makeDirs"
  /\ \/ pc' = "dropBackupSites" /\ UNCHANGED <<faults, mishaps>>
     \/ pc' = "activationFailed" /\ Fault
  /\ UNCHANGED disk /\ OnlyFiles

DropBackupSites == pc = "dropBackupSites" /\ Remove(SitesPrevious, "dropBackupRoot") /\ OnlyFiles
DropBackupRoot  == pc = "dropBackupRoot" /\ Remove(RootPrevious, "checkSites") /\ OnlyFiles

CheckSites ==
  /\ pc = "checkSites"
  /\ \/ /\ hadSites' = (disk[Sites] # Absent)
        /\ pc' = (IF disk[Sites] # Absent THEN "backupSites" ELSE "promoteSites")
        /\ UNCHANGED <<faults, mishaps>>
     \/ Fault /\ hadSites' = FALSE /\ pc' = "activationFailed"
  /\ UNCHANGED <<disk, hadRoot, wasRunning, process, result, history, crashes>>

BackupSitesByRemoving ==
  pc = "backupSites" /\ Remove(Sites, "promoteSites") /\ OnlyFiles

BackupSites ==
  pc = "backupSites" /\ Rename(Sites, SitesPrevious, "promoteSites", "activationFailed") /\ OnlyFiles

PromoteSites ==
  /\ pc = "promoteSites"
  /\ Rename(StagedSites, Sites, "checkRoot", IF hadSites THEN "restoreSites" ELSE "activationFailed")
  /\ OnlyFiles

RestoreSites ==
  pc = "restoreSites" /\ Rename(SitesPrevious, Sites, "activationFailed", "activationFailed") /\ OnlyFiles

CheckRoot ==
  /\ pc = "checkRoot"
  /\ \/ /\ hadRoot' = (disk[Root] # Absent)
        /\ pc' = (IF disk[Root] # Absent THEN "backupRoot" ELSE "promoteRoot")
        /\ UNCHANGED <<faults, mishaps>>
     \/ Fault /\ hadRoot' = FALSE /\ pc' = "undoSites"
  /\ UNCHANGED <<disk, hadSites, wasRunning, process, result, history, crashes>>

PromoteRootWithoutUndo ==
  pc = "promoteRoot" /\ Rename(StagedRoot, Root, "cleanSites", "activationFailed") /\ OnlyFiles

BackupRoot  == pc = "backupRoot" /\ Rename(Root, RootPrevious, "promoteRoot", "undoSites") /\ OnlyFiles
PromoteRoot == pc = "promoteRoot" /\ Rename(StagedRoot, Root, "cleanSites", "undoSites") /\ OnlyFiles

AfterUndoSitesOnly == "activationFailed"

AfterUndoSites == IF hadRoot THEN "undoRestoreRoot" ELSE "activationFailed"

UndoSites ==
  /\ pc = "undoSites"
  /\ Remove(Sites, IF hadSites THEN "undoRestoreSites" ELSE AfterUndoSites)
  /\ OnlyFiles

UndoRestoreSites ==
  pc = "undoRestoreSites" /\ Rename(SitesPrevious, Sites, AfterUndoSites, AfterUndoSites) /\ OnlyFiles

UndoRestoreRoot ==
  pc = "undoRestoreRoot" /\ Rename(RootPrevious, Root, "activationFailed", "activationFailed") /\ OnlyFiles

CleanSites == pc = "cleanSites" /\ Remove(SitesPrevious, "cleanRoot") /\ OnlyFiles
CleanRoot  == pc = "cleanRoot" /\ Remove(RootPrevious, "cleanStaging") /\ OnlyFiles

(* Nothing is left in the staging tree but empty directories.                *)
CleanStaging == pc = "cleanStaging" /\ pc' = "activated" /\ UNCHANGED files /\ OnlyFiles

-----------------------------------------------------------------------------
(* configure_nginx and rescan_sites_and_refresh_nginx after the activation.  *)

ActivationFailed ==
  /\ pc = "activationFailed" /\ Return("failed")
  /\ UNCHANGED <<files, locals, process, history, crashes>>

Activated ==
  /\ pc = "activated"
  /\ launchArgs' = TRUE /\ activated' = gen /\ pc' = "syncHosts"
  /\ UNCHANGED <<files, locals, nginx, shown, boot, overlap, result, gen, approved, before, crashes>>

SyncHostsWithoutRestart ==
  /\ pc = "syncHosts"
  /\ \E r \in {"ok", "failed"} : Return(r)
  /\ UNCHANGED <<files, locals, process, history, crashes>>

SyncHosts ==
  /\ pc = "syncHosts"
  /\ \/ /\ wasRunning /\ pc' = "restart" /\ UNCHANGED result
     \/ ~wasRunning /\ Return("ok")
     \/ Return("failed")
  /\ UNCHANGED <<files, locals, process, history, crashes>>

SpawnWithoutRoot == IF ~launchArgs THEN Default ELSE ActiveTree

(* What Provider::spawn makes nginx load: the files the arguments name, as   *)
(* they are now.  Without a root configuration nginx exits at once.          *)
Spawn ==
  IF ~launchArgs THEN Default ELSE IF disk[Root] = Absent THEN Stopped ELSE ActiveTree

(* Provider::start and stop note what they did in status_.                   *)
NowRuns(loaded) == nginx' = loaded /\ shown' = (loaded # Stopped)

(* Provider::restart(active version): stop, then start; either may fail.     *)
Restart ==
  /\ pc = "restart"
  /\ \/ NowRuns(Spawn) /\ Return(IF Spawn = Stopped THEN "failed" ELSE "ok")
     \/ (NowRuns(Stopped) \/ UNCHANGED <<nginx, shown>>) /\ Return("failed")
  /\ UNCHANGED <<files, locals, launchArgs, boot, overlap, history, crashes>>

(* start_default_services, at the end of Engine::start.                      *)
StartDefaultServices ==
  /\ pc = "defaults"
  /\ NowRuns(Spawn) \/ NowRuns(Stopped)
  /\ boot' = FALSE /\ pc' = "idle"
  /\ UNCHANGED <<files, locals, launchArgs, overlap, result, history, crashes>>

-----------------------------------------------------------------------------
(* The rest of the process, at any step of a refresh.                        *)

Serving == pc # "down" /\ ~boot

(* service.start nginx: a new process replaces one that runs, whose job is   *)
(* closed.                                                                   *)
ServiceStart ==
  /\ Serving /\ Spawn # Stopped
  /\ NowRuns(Spawn) /\ overlap' = (overlap \/ pc # "idle")
  /\ UNCHANGED <<files, pc, locals, launchArgs, boot, result, history, crashes>>

ServiceStop ==
  /\ Serving /\ NowRuns(Stopped) /\ overlap' = (overlap \/ pc # "idle")
  /\ UNCHANGED <<files, pc, locals, launchArgs, boot, result, history, crashes>>

(* service.rescan detects the providers before it refreshes; detect clears   *)
(* status_, whatever the process it started is doing.                        *)
Detect ==
  /\ Serving /\ shown' = FALSE
  /\ UNCHANGED <<files, pc, locals, launchArgs, nginx, boot, overlap, result, history, crashes>>

(* nginx exits by itself; nothing in the Engine notices.                     *)
NginxExits ==
  /\ nginx # Stopped /\ nginx' = Stopped
  /\ UNCHANGED <<files, pc, locals, launchArgs, shown, boot, overlap, result, history, crashes>>

(* Everything but the disk is gone, nginx with its kill-on-close job.        *)
ProcessEnds ==
  /\ pc' = "down" /\ NowRuns(Stopped) /\ launchArgs' = FALSE /\ boot' = FALSE
  /\ hadSites' = FALSE /\ hadRoot' = FALSE /\ wasRunning' = FALSE
  /\ UNCHANGED <<disk, faults, overlap, result, history>>

(* Engine::stop joins the watcher and the workers, so no refresh is running. *)
Shutdown == Serving /\ pc = "idle" /\ ProcessEnds /\ UNCHANGED <<mishaps, crashes>>

Crash ==
  /\ pc # "down" /\ crashes < MaxCrashes
  /\ crashes' = crashes + 1 /\ mishaps' = mishaps + 1
  /\ ProcessEnds

StartEngine ==
  /\ pc = "down"
  /\ pc' = "idle" /\ boot' = TRUE /\ result' = "none"
  /\ UNCHANGED <<files, locals, launchArgs, nginx, shown, overlap, history, crashes>>

Activation ==
  \/ MakeDirs \/ DropBackupSites \/ DropBackupRoot \/ CheckSites \/ BackupSites
  \/ PromoteSites \/ RestoreSites \/ CheckRoot \/ BackupRoot \/ PromoteRoot
  \/ UndoSites \/ UndoRestoreSites \/ UndoRestoreRoot
  \/ CleanSites \/ CleanRoot \/ CleanStaging

Refresh ==
  \/ BeginRefresh \/ Configure \/ Stage \/ Validate \/ Activation
  \/ ActivationFailed \/ Activated \/ SyncHosts \/ Restart \/ StartDefaultServices

Environment ==
  ServiceStart \/ ServiceStop \/ Detect \/ NginxExits \/ Shutdown \/ Crash \/ StartEngine

Next == Refresh \/ Environment

Spec == Init /\ [][Next]_vars

-----------------------------------------------------------------------------
(* Properties.                                                               *)

Whole(tree) == \E g \in approved : tree = <<g, g>>

(* engine.cpp 73-101, the restoring branches: an activation that reports     *)
(* failure after at most one call failed has put back the active tree it     *)
(* found, whatever an earlier activation or a crash had left beside it.      *)
SingleFaultRestores == pc = "activationFailed" /\ faults <= 1 => ActiveTree = before

(* engine.cpp 58-107: once a configuration has been activated, one failed    *)
(* call or one crash at any step leaves the sites and the root of a          *)
(* generation nginx -t accepted, at least as recent, in the active tree, in  *)
(* its backups or in the staging tree.                                       *)
ValidatedTreeOnDisk ==
  activated # 0 /\ mishaps <= 1 =>
    \E g \in approved :
      /\ g >= activated
      /\ g \in {disk[Sites], disk[SitesPrevious], disk[StagedSites]}
      /\ g \in {disk[Root], disk[RootPrevious], disk[StagedRoot]}

(* engine.cpp 208-228: after a refresh that succeeded and that no service    *)
(* command overlapped, an nginx the Engine shows as running has loaded the   *)
(* generation that refresh staged; a restart forgotten, or done before the   *)
(* swap, leaves it on an older one.                                          *)
NginxServesTheRefresh ==
  pc = "idle" /\ result = "ok" /\ ~overlap /\ shown => nginx \in {Stopped, <<gen, gen>>}

(* The active tree as a caller of activate_staged_configuration sees it:     *)
(* inside the activation, the tree it will either replace or put back.       *)
InActivation ==
  pc \in {"makeDirs", "dropBackupSites", "dropBackupRoot", "checkSites", "backupSites",
          "promoteSites", "restoreSites", "checkRoot", "backupRoot", "promoteRoot",
          "undoSites", "undoRestoreSites", "undoRestoreRoot"}
Visible == IF InActivation THEN before ELSE ActiveTree

(* engine.cpp 41-109 as a whole: with at most one failing call per           *)
(* activation and no crash, the pipeline implements AtomicActivation.  A     *)
(* tree whose two halves differ maps to no value the abstract step reaches.  *)
Atomic == INSTANCE AtomicActivation WITH
  published <- IF Visible[1] = Visible[2] THEN Visible[1] ELSE Torn
AtomicSpec == Atomic!Spec

(* docs/260803_PRD_Implementation_Plan.md:34, "A complete staging tree must  *)
(* pass nginx -t before replacing the active tree", and the message at       *)
(* engine.cpp:178, which calls the activation atomic: when nginx has loaded  *)
(* sites and a root file, the two passed nginx -t together.  A service.start *)
(* that lands between the second rename (engine.cpp:73) and the fourth (:87) *)
(* loads the new sites under the old root file.  A start that finds one of   *)
(* the two files missing is left out.                                        *)
NginxServesAWholeTree == nginx \in Gen \X Gen => Whole(nginx)
=============================================================================
