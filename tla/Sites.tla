-------------------------------- MODULE Sites --------------------------------
(***************************************************************************)
(* The folders of the projects root on their way to the hosts file:        *)
(* SiteRegistry (engine/sites/site_registry.cpp) with its SQLite           *)
(* transaction, sync_hosts (engine/engine.cpp) line by line, and uninstall *)
(* (engine/main.cpp), a process of its own that rewrites the same file.    *)
(*                                                                         *)
(* refresh_mutex_ lets one refresh of the Engine run at a time; what nginx *)
(* is given is one step here, since NginxActivation has its steps.         *)
(***************************************************************************)
EXTENDS Naturals, Sequences, SequencesExt, FiniteSets

CONSTANTS
  Names,       \* folder names, each the sequence of its characters
  LabelLimit,  \* 63: the longest DNS label
  UserLines,   \* the lines of the hosts file that are not Appytizer's
  MaxChanges,  \* bound: changes of the projects root
  MaxFaults,   \* bound: failing calls
  MaxStarts    \* bound: crashes and starts of the service together

ASSUME BoundsAssumption ==
  LabelLimit \in Nat /\ MaxChanges \in Nat /\ MaxFaults \in Nat /\ MaxStarts \in Nat

(* A directory has finitely many folders, a file is a sequence of lines.     *)
ASSUME DataAssumption == IsFiniteSet(Names) /\ UserLines \in Seq(Range(UserLines))

Engine    == "engine"
Uninstall == "uninstall"
Writers   == {Engine, Uninstall}

VARIABLES
  folders,    \* the directories of the projects root
  scanned,    \* what rescan found
  rows,       \* the committed rows of the table sites
  open,       \* a transaction is open
  tx,         \* the rows inside it
  published,  \* the hostnames nginx was given
  hosts,      \* the lines of the hosts file
  pc,         \* the step of each writer
  lines,      \* the lines each has read and made
  result,     \* of the last refresh
  service,    \* the service's status: running, stopping, stopped
  torn,       \* history: a reading or a rewriting of the hosts file did not reach its end
  clashed,    \* history: the two writers rewrote it at once
  late,       \* history: uninstall did not wait for the end, or the service was started again
  short,      \* history: in the last refresh list() left out rows
  absent,     \* history: in the last refresh nginx was not detected
  changes, faults, starts

registry == <<folders, scanned, rows, open, tx>>
partial  == <<short, absent>>
history  == <<torn, clashed, late, partial>>
bounds   == <<changes, faults, starts>>
vars == <<registry, published, hosts, pc, lines, result, service, history, bounds>>

-----------------------------------------------------------------------------
(* Labels.                                                                   *)

Lower(c)               == IF c = "A" THEN "a" ELSE IF c = "B" THEN "b" ELSE c
lowercase_ascii(label) == [i \in DOMAIN label |-> Lower(label[i])]
LabelCharacters        == {"a", "b", "A", "B", "1", "-"}

validate_dns_label(label) ==
  CASE label = <<>>                                      -> "empty"
    [] Len(label) > LabelLimit                           -> "long"
    [] label[1] = "-" \/ label[Len(label)] = "-"         -> "hyphen"
    [] \E i \in DOMAIN label : label[i] \notin LabelCharacters -> "character"
    [] OTHER                                             -> "none"

(* The error of each label that has one; collisions are sought among the     *)
(* others only.                                                              *)
ErrorsByExactName(labels) == [l \in labels |-> validate_dns_label(l)]

validate_dns_labels(labels) ==
  LET sound == {l \in labels : validate_dns_label(l) = "none"}
      Collides(l) == \E m \in sound \ {l} : lowercase_ascii(m) = lowercase_ascii(l)
  IN [l \in labels |-> IF l \in sound /\ Collides(l) THEN "collision" ELSE validate_dns_label(l)]

Row(name, error) == [name |-> name, hostname |-> lowercase_ascii(name), error |-> error]
Rows == [name : Names, hostname : {lowercase_ascii(n) : n \in Names},
         error : {"none", "empty", "long", "hyphen", "character", "collision"}]

ValidHosts(sites) == {r.hostname : r \in {s \in sites : s.error = "none"}}

-----------------------------------------------------------------------------
(* What any statement on the one connection sees.                            *)
list == IF open THEN tx ELSE rows

Tagged(host)     == [tag |-> TRUE, text |-> host]
Untagged(text)   == [tag |-> FALSE, text |-> text]
UserFile         == [i \in DOMAIN UserLines |-> Untagged(UserLines[i])]
SiteLines(names) == [i \in 1..Cardinality(names) |-> Tagged(SetToSeq(names)[i])]

(* The lines that have the tag, or those that do not, in their order.        *)
Select(file, tag) ==
  LET kept[n \in 0..Len(file)] ==
        IF n = 0 THEN <<>>
        ELSE IF file[n].tag = tag THEN Append(kept[n - 1], file[n]) ELSE kept[n - 1]
  IN kept[Len(file)]
Own(file)     == Select(file, FALSE)
Entries(file) == Select(file, TRUE)

EngineSteps    == {"down", "idle", "begin", "insert", "configure", "read", "truncate", "write"}
UninstallSteps == {"not run", "wait", "read", "truncate", "write", "certificates", "removed", "failed"}

Line == [tag : {FALSE}, text : Range(UserLines)]
          \union [tag : {TRUE}, text : {lowercase_ascii(n) : n \in Names}]

TypeOK ==
  /\ folders \subseteq Names
  /\ scanned \subseteq Rows /\ rows \subseteq Rows
  /\ open \in BOOLEAN /\ tx \subseteq Rows
  /\ published \subseteq {lowercase_ascii(n) : n \in Names}
  /\ hosts \in Seq(Line) /\ \A w \in Writers : lines[w] \in Seq(Line)
  /\ pc[Engine] \in EngineSteps /\ pc[Uninstall] \in UninstallSteps
  /\ (pc[Engine] = "insert" => open) /\ (pc[Engine] = "down" => ~open)
  /\ result \in {"none", "ok", "error"}
  /\ service \in {"running", "stopping", "stopped"}
  /\ torn \in BOOLEAN /\ clashed \in BOOLEAN /\ late \in BOOLEAN
  /\ short \in BOOLEAN /\ absent \in BOOLEAN
  /\ changes \in 0..MaxChanges /\ faults \in 0..MaxFaults /\ starts \in 0..MaxStarts

Init ==
  /\ folders \in SUBSET Names /\ scanned = {} /\ rows = {} /\ open = FALSE /\ tx = {}
  /\ published = {} /\ hosts = UserFile
  /\ pc = [w \in Writers |-> IF w = Engine THEN "idle" ELSE "not run"]
  /\ lines = [w \in Writers |-> <<>>]
  /\ result = "none" /\ service = "running"
  /\ torn = FALSE /\ clashed = FALSE /\ late = FALSE /\ short = FALSE /\ absent = FALSE
  /\ changes = 0 /\ faults = 0 /\ starts = 0

At(w, step) == pc[w] = step
Goto(w, step) == pc' = [pc EXCEPT ![w] = step]
Fault == faults < MaxFaults /\ faults' = faults + 1
Sound == UNCHANGED faults

(* A refresh that fails returns; uninstall returns false.                    *)
Fail(w) ==
  IF w = Engine THEN Goto(w, "idle") /\ result' = "error"
                ELSE Goto(w, "failed") /\ UNCHANGED result

-----------------------------------------------------------------------------
(* rescan.                                                                   *)

(* The directory is read, and every name judged with all the others.  A name *)
(* that string() throws on ends the refresh, or on the watcher's thread the  *)
(* process (Crash).                                                          *)
Scan ==
  /\ At(Engine, "idle") /\ service # "stopped"
  /\ \/ /\ Sound /\ Goto(Engine, "begin") /\ UNCHANGED result
        /\ scanned' = {Row(n, validate_dns_labels(folders)[n]) : n \in folders}
     \/ Fault /\ Fail(Engine) /\ UNCHANGED scanned
  /\ short' = FALSE /\ absent' = FALSE
  /\ UNCHANGED <<folders, rows, open, tx, published, hosts, lines, service, torn, clashed, late,
                 changes, starts>>

BeginUnchecked ==
  /\ At(Engine, "begin") /\ Goto(Engine, "insert")
  /\ \/ ~open /\ Sound /\ open' = TRUE /\ tx' = {}
     \/ ~open /\ Fault /\ UNCHANGED <<open, tx>>
  /\ UNCHANGED <<folders, scanned, rows, published, hosts, lines, result, service, history, changes, starts>>

(* BEGIN IMMEDIATE; DELETE.  When DELETE is what fails the transaction stays *)
(* open, and no later BEGIN succeeds.                                        *)
Begin ==
  /\ At(Engine, "begin")
  /\ \/ ~open /\ Sound /\ open' = TRUE /\ tx' = {} /\ Goto(Engine, "insert") /\ UNCHANGED result
     \/ ~open /\ Fault /\ UNCHANGED <<open, tx>> /\ Fail(Engine)
     \/ ~open /\ Fault /\ open' = TRUE /\ tx' = rows /\ Fail(Engine)
     \/ open /\ Sound /\ UNCHANGED <<open, tx>> /\ Fail(Engine)
  /\ UNCHANGED <<folders, scanned, rows, published, hosts, lines, service, history, changes, starts>>

Ended == open' = FALSE /\ tx' = {}

InsertWithoutRollback ==
  /\ At(Engine, "insert") /\ UNCHANGED rows
  /\ \/ Sound /\ \E r \in scanned \ tx : tx' = tx \union {r} /\ UNCHANGED <<open, pc, result>>
     \/ Fault /\ UNCHANGED <<open, tx>> /\ Fail(Engine)
  /\ UNCHANGED <<folders, scanned, published, hosts, lines, service, history, changes, starts>>

(* Row by row; any failure, to prepare or to step, rolls back.               *)
Insert ==
  /\ At(Engine, "insert") /\ UNCHANGED rows
  /\ \/ Sound /\ \E r \in scanned \ tx : tx' = tx \union {r} /\ UNCHANGED <<open, pc, result>>
     \/ Fault /\ Ended /\ Fail(Engine)
  /\ UNCHANGED <<folders, scanned, published, hosts, lines, service, history, changes, starts>>

Commit ==
  /\ At(Engine, "insert") /\ tx = scanned /\ Ended
  /\ \/ Sound /\ rows' = tx /\ Goto(Engine, "configure") /\ UNCHANGED result
     \/ Fault /\ UNCHANGED rows /\ Fail(Engine)
  /\ UNCHANGED <<folders, scanned, published, hosts, lines, service, history, changes, starts>>

(* What list() returns.  A prepare that fails gives no row, and a step that  *)
(* does only those before it; nobody is told.                                *)
Listed(sites) ==
  \/ sites = list /\ Sound /\ UNCHANGED short
  \/ sites \in SUBSET list \ {list} /\ Fault /\ short' = TRUE

(* configure_nginx: the valid sites' files, staged, validated and activated; *)
(* when nginx is not detected it succeeds without.                           *)
Configure ==
  /\ At(Engine, "configure")
  /\ \/ /\ \E sites \in SUBSET list : Listed(sites) /\ published' = ValidHosts(sites)
        /\ Goto(Engine, "read") /\ UNCHANGED <<absent, result>>
     \/ /\ Sound /\ UNCHANGED <<published, short>> /\ absent' = TRUE
        /\ Goto(Engine, "read") /\ UNCHANGED result
     \/ Fault /\ UNCHANGED <<published, partial>> /\ Fail(Engine)
  /\ UNCHANGED <<registry, hosts, lines, service, torn, clashed, late, changes, starts>>

-----------------------------------------------------------------------------
(* sync_hosts, by either process.                                            *)

(* The sites to name: the Engine calls list() once more, uninstall has none. *)
Wanted(w, sites) ==
  IF w = Engine THEN Listed(sites) ELSE sites = {} /\ Sound /\ UNCHANGED short
Other(w) == CHOOSE v \in Writers : v # w

Collect(w, own, sites) ==
  /\ Goto(w, "truncate") /\ UNCHANGED result
  /\ lines' = [lines EXCEPT ![w] = own \o SiteLines(ValidHosts(sites))]
  /\ clashed' = (clashed \/ pc[Other(w)] \in {"truncate", "write"})

ReadHostsWithTags(w) ==
  /\ At(w, "read")
  /\ \/ UNCHANGED torn /\ \E sites \in SUBSET list : Wanted(w, sites) /\ Collect(w, hosts, sites)
     \/ Fault /\ Fail(w) /\ UNCHANGED <<lines, torn, clashed, short>>
  /\ UNCHANGED <<registry, published, hosts, service, late, absent, changes, starts>>

ReadHostsAfterTruncating(w) ==
  /\ At(w, "read") /\ Goto(w, "write") /\ hosts' = <<>>
  /\ \E sites \in SUBSET list :
       Wanted(w, sites) /\ lines' = [lines EXCEPT ![w] = SiteLines(ValidHosts(sites))]
  /\ UNCHANGED <<registry, published, result, service, torn, clashed, late, absent, changes, starts>>

(* Every line without the tag, then the entries.  A read error in the middle *)
(* of the file is its end to getline.                                        *)
ReadHosts(w) ==
  /\ At(w, "read")
  /\ \/ UNCHANGED torn /\ \E sites \in SUBSET list : Wanted(w, sites) /\ Collect(w, Own(hosts), sites)
     \/ /\ Fault /\ torn' = TRUE /\ UNCHANGED short
        /\ \E n \in 0..Len(hosts) : Collect(w, Own(SubSeq(hosts, 1, n)), IF w = Engine THEN list ELSE {})
     \/ Fault /\ Fail(w) /\ UNCHANGED <<lines, torn, clashed, short>>
  /\ UNCHANGED <<registry, published, hosts, service, late, absent, changes, starts>>

Truncate(w) ==
  /\ At(w, "truncate")
  /\ \/ Sound /\ hosts' = <<>> /\ Goto(w, "write") /\ UNCHANGED result
     \/ Fault /\ Fail(w) /\ UNCHANGED hosts
  /\ UNCHANGED <<registry, published, lines, service, history, changes, starts>>

(* Nothing looks at the stream after the lines: a full disk keeps some of    *)
(* them, and the call succeeds.  A writer that was overtaken writes over     *)
(* what the other has left, from the start of the file.                      *)
WriteHosts(w) ==
  /\ At(w, "write")
  /\ LET length == Len(lines[w])
         Over(k) == SubSeq(lines[w], 1, k) \o SubSeq(hosts, k + 1, Len(hosts))
     IN \/ Sound /\ hosts' = Over(length) /\ UNCHANGED torn
        \/ Fault /\ torn' = TRUE /\ \E k \in 0..length : hosts' = Over(k)
  /\ lines' = [lines EXCEPT ![w] = <<>>]
  /\ IF w = Engine THEN Goto(w, "idle") /\ result' = "ok"
                   ELSE Goto(w, "certificates") /\ UNCHANGED result
  /\ UNCHANGED <<registry, published, service, clashed, late, partial, changes, starts>>

-----------------------------------------------------------------------------
(* uninstall.                                                                *)

StopService ==
  /\ At(Uninstall, "not run") /\ Goto(Uninstall, "wait")
  /\ service' = IF service = "running" THEN "stopping" ELSE service
  /\ UNCHANGED <<registry, published, hosts, lines, result, history, bounds>>

WaitWhileRunning ==
  /\ At(Uninstall, "wait") /\ Goto(Uninstall, "read")
  /\ \/ service # "running" /\ UNCHANGED <<faults, late>>
     \/ Fault /\ late' = TRUE
  /\ UNCHANGED <<registry, published, hosts, lines, result, service, torn, clashed, partial,
                 changes, starts>>

(* Ten seconds, and then on in any case.                                     *)
WaitForService ==
  /\ At(Uninstall, "wait") /\ Goto(Uninstall, "read")
  /\ \/ service = "stopped" /\ UNCHANGED <<faults, late>>
     \/ Fault /\ late' = TRUE
  /\ UNCHANGED <<registry, published, hosts, lines, result, service, torn, clashed, partial,
                 changes, starts>>

(* The certificates, and DeleteService.                                      *)
RemoveRest ==
  /\ At(Uninstall, "certificates")
  /\ \/ Sound /\ Goto(Uninstall, "removed")
     \/ Fault /\ Goto(Uninstall, "failed")
  /\ UNCHANGED <<registry, published, hosts, lines, result, service, history, changes, starts>>

-----------------------------------------------------------------------------
(* The Engine's process and the user.                                        *)

ProcessGone ==
  /\ Goto(Engine, "down") /\ service' = "stopped" /\ Ended
  /\ lines' = [lines EXCEPT ![Engine] = <<>>] /\ scanned' = {} /\ result' = "none"
  /\ UNCHANGED <<folders, rows, published, hosts>>

(* Engine::stop ends no refresh.                                             *)
ServiceStops ==
  /\ At(Engine, "idle") /\ service = "stopping" /\ ProcessGone
  /\ UNCHANGED <<history, bounds>>

Crash ==
  /\ ~At(Engine, "down") /\ starts < MaxStarts /\ starts' = starts + 1
  /\ ProcessGone
  /\ torn' = (torn \/ At(Engine, "write"))
  /\ UNCHANGED <<clashed, late, partial, changes, faults>>

(* startWindowsService, and the new process with a new table.                *)
StartService ==
  /\ service = "stopped" /\ ~At(Uninstall, "removed") /\ starts < MaxStarts /\ starts' = starts + 1
  /\ service' = "running" /\ Goto(Engine, "idle") /\ rows' = {}
  /\ late' = (late \/ ~At(Uninstall, "not run"))
  /\ UNCHANGED <<folders, scanned, open, tx, published, hosts, lines, result, torn, clashed, partial,
                 changes, faults>>

FolderChanges ==
  /\ changes < MaxChanges /\ changes' = changes + 1
  /\ \E n \in Names : folders' \in {folders \union {n}, folders \ {n}} \ {folders}
  /\ UNCHANGED <<scanned, rows, open, tx, published, hosts, pc, lines, result, service, history, faults, starts>>

Next ==
  \/ Scan \/ Begin \/ Insert \/ Commit \/ Configure
  \/ \E w \in Writers : ReadHosts(w) \/ Truncate(w) \/ WriteHosts(w)
  \/ StopService \/ WaitForService \/ RemoveRest
  \/ ServiceStops \/ Crash \/ StartService \/ FolderChanges

Spec == Init /\ [][Next]_vars

-----------------------------------------------------------------------------
(* Properties.                                                               *)

(* site_registry.cpp 163-194: except during a rescan, list() returns the     *)
(* rows of the last rescan that succeeded, whatever failed in others.        *)
FailedRescanKeepsRows == pc[Engine] # "insert" => list = rows

Distinct(sites) ==
  \A r, s \in sites : r.error = "none" /\ s.error = "none" /\ r.hostname = s.hostname => r = s

(* site_registry.cpp 88-110, 157-161: two folders never share a hostname, in *)
(* what nginx gets as one file for each hostname or in the hosts file, also  *)
(* when their names differ in case only or the folders change.               *)
HostnamesAreUnique ==
  /\ Distinct(list)
  /\ ~clashed /\ ~torn => \A i, j \in DOMAIN Entries(hosts) : Entries(hosts)[i] = Entries(hosts)[j] => i = j

(* engine.cpp 208-222: after a refresh that succeeded the hosts file names   *)
(* the valid rows and no others, and nginx was given the same sites.  Nginx  *)
(* was given nothing when it was not detected (engine.cpp 155-158).  Not     *)
(* after a call of list() that left out rows (site_registry.cpp 203-209), a  *)
(* reading or writing of the file cut short, or uninstall's rewriting of it. *)
HostsFollowNginx ==
  At(Engine, "idle") /\ result = "ok" /\ ~torn /\ ~short /\ At(Uninstall, "not run") =>
    /\ {l.text : l \in Range(Entries(hosts))} = ValidHosts(rows)
    /\ ~absent => published = ValidHosts(rows)

(* engine.cpp 462-485: the user's own lines are in the hosts file, in their  *)
(* order, whenever nobody is between truncating and writing it, unless a     *)
(* reading or rewriting was cut off or two processes did it at once.         *)
UserLinesSurvive ==
  ~torn /\ ~clashed /\ (\A w \in Writers : pc[w] # "write") => Own(hosts) = UserFile

(* main.cpp 83-103: when uninstall succeeds no entry is left in the hosts    *)
(* file, unless it stopped waiting for the Engine, somebody started the      *)
(* service meanwhile, or a reading or a write was cut off.                   *)
UninstallLeavesNoEntries ==
  At(Uninstall, "removed") /\ ~late /\ ~torn => hosts = UserFile
=============================================================================
