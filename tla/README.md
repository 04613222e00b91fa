# Appytizer Engine: specifications, model checking and proofs

Appytizer serves every folder of a projects root as `https://<folder>.test` on
Windows. This directory holds TLA+ specifications of its Engine (the Windows
service under `src/engine` with the helpers under `src/common`) and of the UI's
end of its pipe, the TLC configurations that check them on small instances, and
theorems checked by TLAPS. Paths below are relative to `src/`.

Run a configuration with `tlc -config X.cfg M`, as the table in section 2 pairs
them, and the proofs of each module `MProofs` with `tlapm MProofs.tla`.

## 1. The system

The Engine is one process with many threads. The UI (`appytizer-ui`) is another
process that talks to it over a named pipe; setup, TLS repair and uninstall run
the Engine's executable with other arguments, each as a process of its own.

| Component | State | Operations | Called by |
|---|---|---|---|
| Engine (`engine/engine.cpp`) | `config_`, `running_`, `refresh_mutex_` | `start`, `stop`, `handle_message`, `rescan_sites_and_refresh_nginx`, `configure_nginx`, `sync_hosts` | service control; pipe workers; the watcher's thread |
| nginx configuration (`activate_staged_configuration`) | the staging tree, the active tree (`sites/`, `runtime/conf/nginx.conf`), their backups | stage, `nginx -t`, swap, undo | every refresh, under `refresh_mutex_` |
| Settings (`common/config.cpp`) | `config.json` | `load`, `save` | Engine, setup |
| Pipe server (`engine/ipc`) | accept thread, a worker for each connection, a writer and a queue for each subscriber | `start`, `stop`, `broadcast`, `serve_client` | Engine; clients |
| Providers (`engine/services/providers.cpp`) | `versions_`, `active_`, `status_`, `process_`, `job_` | `detect`, `start`, `stop`, `restart`, `status` | workers, refreshes, `Engine::start` and `stop` |
| Certificates (`engine/tls`) | the CA's key, certificate and metadata, the sites' keys and certificates, the entry in LocalMachine\Root | `provision`, `ensure_site_certificate`, `remove_unused_site_certificates`, `remove`, `status` | refreshes; setup, repair, uninstall |
| Site registry (`engine/sites/site_registry.cpp`) | an SQLite table of folders | `rescan`, `list`, the two writers of nginx files | refreshes, read-only commands |
| Folder watcher (`engine/sites/folder_watcher.cpp`) | its thread, `running_`, a callback | `start`, `stop` | `Engine::start`, `config.set` |
| Hosts file (`sync_hosts` in `engine/engine.cpp`) | the lines of Windows' hosts file, the Engine's marked by a tag | read, truncate, write | refreshes; uninstall |
| DNS responder (`engine/dns`) | a socket, a thread | `start`, `stop` | Engine, `dns.*` |
| Service control (`engine/main.cpp`, `common/windows_service.cpp`) | the service's status, `g_engine` | install, start, stop, uninstall | Windows, setup |
| UI (`appytizer-ui`) | the window's view and FLTK's queue, a listener thread, a thread for each request | requests, subscription | the user |

Interaction: a client's request runs `handle_message` on its connection's
worker, so commands run concurrently with each other, with the watcher's
refresh and with `Engine::stop`. The one lock above a component is
`refresh_mutex_`, and it covers a refresh only. `config_`, and the service
commands, are outside it. Results go back as answers; changes go to subscribers
as events through `broadcast`.

What is hard, and what makes each part correct:

* **nginx configuration.** Two renames replace the tree; either may fail, or the
  Engine may end between them, and nginx may be started there. A failed
  activation restores what it found; a validated configuration is never lost;
  after a refresh nginx serves what it staged.
* **Settings.** A `config.set` is assignment, refresh, save and a new watch, with
  an undo after each failure; others overlap it. It happens as a whole or not at
  all; the settings, the file, the tree and the hosts file agree; it is answered.
* **Pipe server.** Condition variables, queues, and a stop that has to wake every
  thread. The answer comes first; events arrive once, in order, and do arrive;
  stop returns and leaves no thread.
* **Providers.** Processes outlive calls, exit by themselves and die with the
  Engine. Exactly the process that is held runs; stop stops it; a crash leaves
  none running; the status is true.
* **Certificates.** Three files and a store entry change one at a time, in
  several processes. What is trusted is recorded; remove leaves nothing; a site's
  certificate fits its key and the CA.
* **Watcher, DNS, service control.** Threads that are cancelled and joined while
  others start them again, and a stop that takes the parts down in an order. A
  stop that was taken completes and leaves nothing; a recorded change leads to a
  refresh; DNS is on or off as a whole; no joinable thread is destroyed or
  assigned to.
* **Sites and hosts file.** A transaction whose statements may fail one by one,
  rules that decide which folders share a hostname, a file that two processes
  rewrite in place. A failed rescan keeps the rows; hostnames are unique; hosts
  file and nginx name the same sites; the user's own lines survive; uninstall
  leaves no entry.
* **UI.** Each request is a thread and a connection of its own, the Engine comes
  and goes. The window ends up showing the Engine's state; the listener
  reconnects, says so once, and ends with the window.

`PROJECT.json` lists the components with what is left out of each, and every
hazard at its line with the properties that cover it.

## 2. The modules

Every model has one action for each call or lock-free step of the code and, where
a thread can be anywhere, a program counter. Each action's comment or its
entry in `PROJECT.json` names the lines. In each module, operators whose names
say what they lack (`BackupSitesByRemoving`, `SyncHostsWithoutRestart`, ...) are
plausible mistakes; no specification uses them, and replacing the definition
that follows them makes TLC find a property violated. They show that the
properties depend on the code.

**AtomicActivation** is what `activate_staged_configuration` promises: the
published configuration is one whole generation and changes in one step.

**NginxActivation** is the refresh. `disk` maps the six paths to what they hold;
the content of a tree is the generation that wrote it, since nothing but
"which staging, whole or torn" matters to the properties. `pc` is the refresh
that holds `refresh_mutex_`. Each file system call of `engine.cpp` 41-109 is an
action with a failing alternative (`Rename`, `Remove`); a failed `remove_all` may
have removed a part (`Torn`). The other actions are `configure_nginx` and the
rest of the refresh, `Engine::start` (`boot`), `service.start`, `service.stop` and
`service.rescan` at any step, nginx exiting by itself, shutdown and crash. `shown`
is `status_.running` of the provider and `nginx` what the process has loaded: the
code acts by the first, and they differ. PHP, TLS and hosts are one failing
alternative each.

**EngineConfig** is `config.set` with its rollbacks, the refreshes of the watcher
and of the start, `ConfigStore::save` with its second attempt, and crashes. A
tree is what it was generated from, so a refresh that reads `config_` in three
places while another request writes it makes a mixed tree. Reading
`root_folder` while another thread assigns it is a data race on a string:
`RootRead` returns any root or garbage. The activation is one step here, as
`ActivationIsAtomic` justifies; without nginx (`engine.cpp` 155-158) a refresh goes on
without it, and `published` says so. An exception leaves a request for the catch of
`handle_message` at any step that may throw: a parameter of the wrong type after the
root is assigned, a rescan, an event that cannot be written (`Throw`, `RefreshThrows`);
on the watcher's thread or in the start it ends the process. A save may write a cut
file and succeed (`WriteShort`). The watcher is its stop, join and start and the state
of its thread: a cancellation that comes before the read is lost (`missed`).
**MCEngineConfig** adds the symmetry of the requests and a bound.

**PipeServer** has a program counter for the accept thread, for each connection's
worker and writer, each broadcaster and stop. A wait on the condition variable
is the three states `check`, `presleep`, `asleep`; a notification reaches only
the last, and `presleep` holds the mutex. This is the level at which a lost
wake-up shows.

**Provider** is one service. `call` is the step of `spawn` the holder of `mutex_`
has reached, because the Engine may crash between creating a process, putting it
into its job and resuming it; other calls are one step. Which versions are found
is any list; Windows services, running or not, are part of the initial state.
`restart` is two calls, as in the code.

**CertificateManager** has the files, the store and a program counter for each
process that calls it. A CA is a number, a certificate is its issuer and its key;
`atomic_write` makes each file's replacement one step, or a failure. The root
may expire, a process may end at any step. The renewal period of site
certificates is left out.

**FolderWatcher** and **DnsServer** are components without a specification of
their own: **Lifecycle** instantiates both. In these three a thread runs a
*program*, the sequence of the steps it still has before it, and a call replaces
its first step by those that follow it; so `Engine::start`, `Engine::stop`,
`~Engine` and each command are written as the sequences of calls they are.
FolderWatcher has `start`, `stop` and the thread: the test of `running_`, the
moment before `ReadDirectoryChangesW`, the read, the callback, a failed open of
the root, the handle's record of changes and its overflow. `CancelSynchronousIo`
reaches a thread in a read only. DnsServer has the port, `socket_`, the datagram
that wakes the thread, which may not be sent (`lost`), and the late
`socket_ = INVALID_SOCKET` of `stop`. Assigning to
a joinable `std::thread`, or destroying one, sets `terminated`, and nothing
happens after that. Lifecycle adds `service_main`, the control handler, the
workers of the pipe server, `refresh_mutex_` and one provider that stands for all.
A refresh may end by an exception, which drops the rest of a command and terminates
the Engine on any other thread (`escaped`); a provider's stop may fail, or only ask a
service to stop (`kept`, if it is `Engine::stop`'s); `ipc.stop` may never return (`ipc` is
`"stuck"`: PipeServer says by which waits).
`overlapped` is history: on what calls have overlapped.

**Sites** is the site registry with its SQLite transaction statement by statement
(`BEGIN IMMEDIATE; DELETE` is one call, whose second half may fail), the rules for
labels over characters, `sync_hosts` in its three steps (read, truncate, write) by
the Engine and by uninstall, uninstall's wait of ten seconds, and a service that
stops, crashes and starts again. `list()` may give a part of the rows (`short`), nginx
may not be there (`absent`), and a reading of the hosts file may end early. A line of
the hosts file is its text and whether
it has the Engine's tag. **MCSites** gives the folders: two that differ in case,
one more, one that ends in a hyphen, one that is too long.

**UiClient** is `PipeClient` and the window over an Engine that ends and starts
again. `requests` is a bag of threads, each with its step; `queue` is FLTK's; `view`
is what the window shows of the services, a number each change increases. One read
of the listener takes all that is in the pipe, since its end is in byte mode.

`NginxActivationProofs`, `CertificateManagerProofs`, `EngineConfigProofs`,
`PipeServerProofs`, `ProviderProofs`, `LifecycleProofs`, `SitesProofs` and
`UiClientProofs` hold the theorems of section 3.

### Runs

| Run | Module, configuration | Shows |
|---|---|---|
| `activation` | NginxActivation | with two failing calls per activation and a crash: types, restoration, no validated tree lost, nginx serves the refresh |
| `activation_atomic` | NginxActivation, `_atomic` | with one failing call the refresh implements AtomicActivation |
| `activation_mixed` (violation) | NginxActivation, `_mixed` | `service.start` between the renames of the two halves: nginx loads new sites under the old root file, which were never validated together |
| `engine_config` | MCEngineConfig | two overlapping requests with a failure or an exception: tree and hosts file follow `config_` |
| `engine_config_watcher` | EngineConfig, `_watcher` | a request against the watcher, failures, exceptions and a crash: whole or not at all, what an exception leaves, and answered |
| `engine_config_saved` (violation) | MCEngineConfig, `_saved` | two overlapping requests: `config.json` keeps rejected settings |
| `pipe_server` | PipeServer | answer first, order, delivery; no event is left waiting; stop leaves nothing and is not left waiting unless a wake-up was lost |
| `provider` | Provider | processes after crashes, restarts and stops |
| `certificates` | CertificateManager | trust, metadata, removal and site certificates after failures and ends at any step |
| `lifecycle` | Lifecycle | a service from its start to its end with two commands or changes at any moment: a stop completes and leaves nothing, what makes the Engine terminate, DNS on or off, changes refreshed; with refreshes that throw and waits that do not end |
| `sites` | MCSites | colliding folders, a failing rescan, the hosts file rewritten by two processes: rows, hostnames, the user's lines, uninstall |
| `ui_client` | UiClient | the window follows the Engine, the listener announces in turn, and rests only in a subscription or when it has ended |

The largest are `sites` (3.8 million states), `ui_client` (3.1 million) and
`engine_config` (1.6 million).

A violation quotes a sentence of the repository in `PROJECT.json` and in the
property's comment.

Some passing properties except what the code really does, by name. These
exceptions are the other half of what the models found out:

* `StopReturnsUnlessMissed`: neither `running_` nor `subscriber->running` changes under
  the mutex of the condition variable, so a notification can fall between the
  evaluation of a predicate and the sleep; and stop's own connection finds no pipe
  instance between the accept thread's test and `CreateNamedPipeW`. Then stop waits
  for ever. `missed` records it, and the property shows that nothing else does.
* `StopCompletes`, `EveryRequestIsAnswered` and `NobodyIsStuck` (`Deaf`), `QuitCompletes` in
  `RestsOnlyWhenDone`: the watcher's thread and the UI's listener are cancelled once, and a
  cancellation that comes before the read misses it. A stop, a `config.set` or the
  window then waits for the next change or event.
* `StopCompletes`, `EveryWaitEnds`: a DNS stop that could send no datagram joins a thread
  nobody wakes, and the pipe server's stop need not return, by a wake-up that was lost
  or a client that connected and sends nothing.
* `ConfigSetIsAtomic`, `SettledTreeAgrees`: the catch of `handle_message` undoes nothing. A
  parameter of the wrong type leaves those before it in `config_` until the next refresh
  that throws nothing (`dropped`), and an event that cannot be written makes an error of a
  request that was done. A full disk cuts `config.json` and is reported as a success (`cut`).
  Without nginx only the hosts file follows the settings (`published`).
* `StoppedMeansQuiet`: `Engine::stop` does not look at what the providers' stop returns.
* `ChangesAreRefreshed`: of two `config.set` at once one may join the watcher's old thread
  when the other has set `running_` again; a change the old handle recorded in between
  is lost with it. It takes three events, so the run with two does not need the
  exception; the attempt to prove the property without it found it.
* `StopCompletes`: the handler drops a stop that arrives before `g_engine` is set, and
  `service_main` may report RUNNING over the STOP_PENDING of one that arrives later;
  the second is still carried out.
* `TerminatesOnlyByOverlap`: two clients whose calls overlap on the watcher or on DNS,
  or a root the watcher could not open, do terminate the Engine. So does a folder name
  or a path that cannot be converted, in the refresh of the start or of the callback.
* `DnsIsOnOrOff`: after overlapping calls the late clearing of `socket_` can forget the
  socket of a later start.
* `WindowFollowsEngine`: an older answer can overtake a newer one; two events read at
  once are one text that cannot be parsed; a restart that fails publishes nothing.
* `UserLinesSurvive`: the file is truncated and rewritten in place, so a crash, a full
  disk, a read error in the middle or two processes at once lose lines.
* `HostsFollowNginx`: `list()` takes a failing statement for the end of the rows (`short`), and
  without nginx the hosts file names sites nobody serves (`absent`).
* `UninstallLeavesNoEntries`: an uninstall that stops waiting after ten seconds (`late`) leaves
  what the Engine writes afterwards; `NginxServesTheRefresh`: a service command during the
  refresh makes `was_running` stale (`overlap`), and nginx may serve an older generation.
* `FailedRescanKeepsRows`: a DELETE that fails after BEGIN leaves the transaction open,
  and every later rescan fails; and while a rescan inserts, `list` on the same
  connection sees its uncommitted rows (`site_registry.cpp:197`).
* `Detect` of Provider clears `status_` while the process is held: after
  `service.rescan` a running service is shown as stopped. `StopStops` goes by what is
  held and is not affected.
* CertificateManager's properties are of processes that follow one another: an Engine
  that is still issuing when uninstall removes the tree makes a new CA.

### Bounds, and why they are enough

* *Generations* (3): the tree before, the one being activated, and one staged
  after a failure or a crash, which meets the backups the second one left.
* *Failing calls* (2 per activation): one more than any property allows, so the
  premises of `SingleFaultRestores` and `ValidatedTreeOnDisk` are really tested.
* *Crashes* (1): each recovery starts from the disk alone; the properties speak of
  one. Requests (2), folder changes (2): the smallest numbers with an overlap, a
  change and an undo in the same run. The run with two requests has one failure or
  exception, after the start (`FailuresAfterTheStart`), the run with two failures one
  request and failures anywhere, to keep each within minutes. A request brings one
  root, which differs from the one before it, from no root and from a torn one, and
  either value of `https_enabled`; section 3 has any number of roots. The two requests
  are symmetric.
* *Pipe*: one client, one broadcaster, two events: a second event is what can
  overtake, and connections share nothing but the list of subscribers.
  `Wake`, the connection stop opens, is a second one. `InOrder` is per
  broadcaster. Two clients are beyond a run of a few minutes; section 3 has any
  number of each.
* *Provider*: three processes (one held, one that replaces it, one that fails),
  two executables and a service.
* *Certificates*: three roots, two of which expire; three site keys; two failures.
* *Lifecycle*: two events, commands of clients or changes of folders: two is the
  least with an overlap. The commands are `dns.*`, `stop_all`, `service.start`,
  `config.set` and rescans. Section 3 has all of it for any number.
* *Sites*: labels of at most two characters, five folders of which two collide, one
  change of the folders, one failing call, one start or crash; two lines of the user.
* *UiClient*: two events, commands of the user or absences of the Engine: an answer
  and an event can overtake each other, and an outage can fall on a command.

`CHECK_DEADLOCK FALSE` is in a configuration where the bounds, or the end of the
pipe server or of all requests, let the system come to rest.

### Fairness

Safety needs none. Windows schedules runnable threads, which is weak fairness of each
thread's next step, and that is what `PipeServer` and `EngineConfig` assume.
`Lifecycle` assumes less, weak fairness of all the Engine's threads together (`EngineRuns`: as
long as one can run, one does), since none of them takes steps for ever. UiClient has no
temporal property that needs any: while the Engine is away its listener tries again for
ever. Nothing is assumed of those who start things: broadcasts, requests,
commands, changes, outages, crashes, the user, stop being called. A client is assumed to
send the request it connected for, as `PipeClient` does at once. The mutex is not
assumed fair; in `EngineConfig` the watcher contends for it once for each of a bounded
number of changes.

What must happen in the end is stated in two ways. As invariants, of states *at rest*, in
which none of the threads they speak of can take a step: `StopReturnsUnlessMissed`,
`NoEventIsLeft`, `StopCompletes`, `ChangesAreRefreshed` and `RestsOnlyWhenDone` say that
whatever is at rest is done. `AtRest` is the negation of `CanMove`, the guards of those
threads' steps; that they are the guards was checked with TLC over the same instances, as
the invariant `CanMove <=> ENABLED <<...>>_vars` of those steps, and so were those of
`NobodyIsStuck`, a theorem of the same kind about EngineConfig. A thread that blocks for
ever breaks these, and they can be proved for every value of the constants. As temporal
properties, under fairness: `EveryRequestIsAnswered`, `EventsReachSubscribers` and
Lifecycle's `EveryWaitEnds` say that it does get done. A loop that never comes to rest, and
a step that `CanMove` wrongly takes for possible, break only these.

## 3. Proofs

The constants are arbitrary throughout: the only assumptions are that bounds are
numbers (`BoundsAssumption`, `MaxEventsAssumption`; in UiClient at least one, as an Engine
that is not there at first counts), that folders are finitely many and the user's hosts
file is a sequence of lines (`DataAssumption`), that executables are not services,
and that the names of threads and clients differ (`NamesAssumption`). Each proof has a
step for each action. The theorems with a further assumption say so below.

`NginxActivationProofs`, for every number of generations, failures and crashes:

* `TypeCorrect`: `Spec => []TypeOK`.
* `RestoreCorrect`: `Spec => []SingleFaultRestores`. The property speaks of one
  moment and is not inductive: whether the undo can work depends on where the
  old sites and the old root have been moved. `RestorableInvariant` says, for
  each value of `pc` inside an activation, where the two halves of `before` are,
  what `hadSites` and `hadRoot` imply, and how many calls have failed. It is
  stated for at most one failed call: after the first the code is on an undo
  path, which then meets no failure.
* `ActivationIsAtomic`: `Spec => AtomicSpec` under `MaxFaults <= 1` and
  `MaxCrashes = 0`. The refinement mapping publishes `before` during an
  activation and the active tree otherwise; the only step that changes it is the
  renaming of the root that ends the swap. It uses `RestorableInvariant`, and that
  generations only grow. With a second failure or a crash it is false, which is
  why the assumption is there and why `activation` also runs with more.
* `RefreshIsServed`: `Spec => []NginxServesTheRefresh`. `Publishing` and `Serves` add
  that what an activation ends with is what was staged last, and that until the
  refresh returns only service commands change which process there is.
* `ValidatedTreeKept`: `Spec => []ValidatedTreeOnDisk`. `Recoverable` says where a
  validated tree is at each step: outside an activation in the active tree or its
  backups, inside it the staged one until something fails, then the one found.

`CertificateManagerProofs`, for every number of processes, hosts, root CAs, keys,
failures and ends of processes:

* `TypeCorrect`: `Spec => []TypeOK`.
* `TrustRecorded`: `Spec /\ []Alone => []TrustIsRecorded`. `Alone` says that no call of
  one process runs while a call of another does; `mutex_` orders the calls within a
  process only, so this is an assumption on who calls. The inductive
  invariant `Recorded` adds that a trust entry is of the CA on disk too, that the
  store is empty from the removal of the old entry to the installation of the new
  one, and that a call that comes to record or to install holds the CA on disk.
* `RemoveComplete` and `SiteCertificateCorrect`, for one process after another (the
  assumption `\A p, q \in Processes : p = q`, with a crash ending one and beginning the
  next): `Owned` adds that every file is in the directory and that only the steps of
  `remove` answer for `remove`; `Matching` that only those of
  `ensure_site_certificate` answer for a site.

`EngineConfigProofs`, for any number of requests, roots, failures, changes and
crashes:

* `TypeCorrect`, which includes that whoever is in a refresh holds the mutex.
* `SettledTreeAgreesInvariant`. `Agreement`: while nobody writes `config_`, or has written
  it and is still to refresh, a refresh under way has taken everything so far from
  the `config_` there is, and what one that succeeded has left is what `config_` says;
  unless an exception came after a write (`dropped`), for as long as no refresh has begun.
* `ConfigSetIsAtomicInvariant`. `AloneInv` says of a request that nobody overlaps what it
  has done so far: which of `config_`, `config.json` and the tree are the request's and
  which are the previous ones at each of its steps, forward and back, and what is left
  of both when it throws. The watcher's refreshes keep it, by `Agreement`.
* `NobodyIsStuck`, what `EveryRequestIsAnswered` needs beside fairness: when no thread can go
  on (`CanMove`, by the guards of the steps), none is in a request, a refresh or the start,
  but for one that joins a thread which missed its cancellation. Who
  holds `refresh_mutex_` is in a refresh, by `TypeOK`, and `Waits` says that the watcher's
  thread, which a request joins, waits for that mutex at most, or has missed the
  cancellation.

`PipeServerProofs`, for any number of clients, broadcasters and events:

* `Invariant`: `TypeOK`, the life of a connection (`Connection`: no writer and nothing
  sent before the answer, no writer after its worker) and what has ended at each step
  of stop (`Stopping`). `TypeCorrect`, `AnswerFirstInvariant` and `StopInvariant` follow.
* `InOrderInvariant`. `Line`: what one broadcaster sends is in order in `messages`, in the
  writer's hand and in what the client got, and from each to the next; nothing is
  numbered beyond the broadcast its sender is at.
* `StopIsNeverStuck`: `Spec => []StopReturnsUnlessMissed`. `Waking`: the connection stop
  opens is one the accept thread will see. `Releasing`: a worker that may sleep is in
  `subscribers_` and its writer is there; what stop or the worker has released is not
  asleep, nor about to be, unless `missed` says so, and finds no reason to sleep again.
* `NoEventIsLeftInvariant`: `Spec => []NoEventIsLeft`. The property speaks of states at rest only.
  `Served`: while the server runs, a connection nobody has closed is alive, from its
  registration on in `subscribers_`, and has a writer from its answer on. `Delivered` follows each event
  that is due: it is with the client, in the writer's hand, in the queue or still carried
  by its broadcaster; and a writer sleeps over a queue that is not empty only while a
  broadcaster is about to notify it. `Undue`: nothing is due to who has not subscribed.

`ProviderProofs`, for any number of callers, versions, processes and crashes:
`TypeCorrect`, and `OwnedInvariant`: a process that runs is in its job, and is the one
held or the one a start is waiting for; none runs when the Engine is down or after a
stop. `CrashSafe`, `OnlyHeld` and `StopCorrect` are its consequences.

`LifecycleProofs`, for any number of commands and changes:

* `TypeCorrect`, with `Programs`: a thread has only steps of its calls before it, in
  their order.
* `DnsIsOnOrOffInvariant`: `DnsCalls` says what is on and off at each step of a call on
  DNS that is alone; as long as none overlapped, one is.
* `StoppedMeansQuietInvariant`: `Shape` (`service_main`'s program is always a suffix of
  the whole one, workers run only while the pipe server does), `Refreshing` (who
  holds `refresh_mutex_` and is inside a refresh; while the watcher's callback runs,
  its thread has not been joined) and `Quieting` (what each step of the stop has
  closed off). It is the order of `Engine::stop` that makes it inductive: services are
  stopped when nobody is left who could start them again, and what then runs is what
  that stop has failed to stop.
* `TerminatesOnlyByOverlapInvariant`: adds `WatcherCalls`, as `DnsCalls` for the watcher; a
  thread that is joinable when it is destroyed or assigned needs an overlap or an end by
  itself, and the exceptions are the third cause.
* `StopIsNeverStuck` and `ChangesNeverWait`: `Spec => []StopCompletes` and
  `Spec => []ChangesAreRefreshed`. `Resting` says of each thing a thread waits for that somebody
  there will provide it: who holds `refresh_mutex_` is inside a refresh (`Held`); the
  socket on port 53 stays until the datagram has reached the responder, however calls
  on DNS overlap, unless none was sent (`Port`); a thread that is joined does not go on to
  read unless a cancellation was missed (`Cancelled`); the event is set before STOP_PENDING is
  reported (`Pending`). `Owing`: a change that is owed is in the handle of a watcher that
  is on, or in the hands of its thread.

`SitesProofs`, for every finite set of folder names, every sequence of lines the user may
have in the hosts file (`DataAssumption`), all bounds, and any alphabet:

* `TypeCorrect`: `Spec => []TypeOK`; each line of the hosts file is one of the user's or
  the entry of a folder's hostname.
* `RowsKept` (`[]FailedRescanKeepsRows`), from `Table`, which says at each statement of a
  rescan what the connection sees and what a rollback brings back.
* `HostnamesUnique`: `Unique` rests on what `validate_dns_labels` does to any set of names.
  That no entry is in the file twice rests on `Whole` and on what `Select` keeps.
* `UserLinesKept`. The property speaks of the file between rewritings. `Whole` adds what
  a writer holds from its reading on: the user's lines, and the entries of some set of
  hostnames behind them; and that without `torn` and `clashed` there is one such writer.
* `HostsFollow`. `Followed`: from its configuring of nginx to the end of a refresh what it
  published are the valid committed rows, unless nginx was absent, and what it holds are
  their entries, unless `list()` left some out or the reading was cut.
* `NoEntriesLeft`. `Removed`: without `late`, from the wait on no Engine runs, so what
  uninstall reads, holds and leaves is its own.

`Select` is a recursive function, and what it returns is a fact about every sequence.
The library's induction theorems take an operator; these lemmas do without: a set of
numbers that is not empty has a least element (`Least`, from the well-foundedness of
`<` on Nat), so a set with 0 and every successor is Nat (`NumberInduction`) and a set
with `<<>>` and everything appended is the set of all sequences (`SequenceInduction`).

`UiClientProofs`, for any number of commands and outages:

* `AnnouncementsInTurn`, the action property `AnnouncementsAlternate`, from what
  `offline_announced` tells of the last announcement (`Turns`).
* `TypeCorrect`. `Sound` is inductive: only a request that has its answer carries a
  failure, `Wire` ties the listener's place to its connection and to what may wait in
  the pipe, and hence no `Unknown` gets into the queue. That the threads stay a bag when
  the Engine ends needs that the sum over a finite set of positive numbers is one
  (`SumPositive`, by the same induction, for the function inside `MapThenSumSet`).
* `WindowFollows`: `Spec => []WindowFollowsEngine`. The property speaks of moments with
  nothing under way. `Follows` says of every moment of a subscription that no outage is
  queued behind the connection, and that the connection is still to be heard of or the
  present state is *on its way*: in a request that will fetch it or is about to publish
  it, in an answer, in the pipe or in the queue, or it is shown. It needs `Past` (nothing
  that waits is ahead of the services: an older state that replaces a newer one is
  therefore `overtaken`) and, of refreshes that failed, that they belong to an earlier
  connection.
* `ListenerRests`: `Spec => []RestsOnlyWhenDone`, from `Quits`: the listener ends only
  when the window has closed, and a read it is still blocked in then is one that the
  cancellation missed.

Model-checked only: the three temporal properties, which hold under fairness, and the two
that a run shows to be violated. That what is at rest is done is proved; that the threads
come to rest, and that `CanMove` is ENABLED of their steps, is beyond the prover and stays
with TLC. Every invariant and action property of a passing run is a theorem.

## 4. What is not modelled

* *No state of their own*: detection of installed programs (Provider takes any list of
  versions), handle wrappers, formatting of nginx files and of JSON, parsing of requests,
  X.509 encoding, the content of DNS responses, the UI's widgets, layout and tray.
* *The Engine process seen from outside*: installation of the service and its access
  rights, console mode, setup's user interface, scripts and tests. What setup, repair
  and uninstall do to shared state is in CertificateManager and Sites.
* *Parts of modelled operations*: a `config.set` with a part of its parameters, which
  keeps the others; the migration of a per-user `config.json`; the renewal period of
  leaf certificates; a `CreateNamedPipeW` that fails; a pipe that is full.
* *nginx within a config.set*: EngineConfig has no nginx process and NginxActivation no
  `config.set`, so a restart of nginx that fails in the first refresh and is not repeated
  in the undoing one (`engine.cpp:223`) is not seen. Both have large state spaces already.
* *Data races beside `root_folder`*: readers of `versions()` while `detect` refills it
  (`providers.cpp:125`); requests of the UI whose detached threads use a destroyed
  `PipeClient`.
* *A client that connects and sends nothing*: stop joins its worker, which reads for
  ever (`pipe_server.cpp:87`). PipeServer assumes there is none; in Lifecycle it is one of
  the reasons for `ipc` to be `"stuck"`. `workers_` keeps the finished threads until stop.
* *Exceptions elsewhere*: memory that runs out, and what throws in the service commands
  and in the setup's processes.
* *A status event that is not sent*: a refresh of the watcher or of `sites.rescan` whose
  restart of nginx changes its status publishes none (`engine.cpp` 252-256, 335-341).
  `Change` of UiClient is the commands that do.

## 5. Plan

Done: every module named above. What is left, in this order:

1. **EngineConfig with nginx**: the composition that shows whether nginx runs again
   after a failed `config.set`.
2. **Provider with readers** of `versions()`, each between taking the reference and
   reading it.
3. **The DNS answer** as a pure function against a reference definition.
4. Larger instances of PipeServer (two clients) and UiClient (three events),
   which need more than minutes.
