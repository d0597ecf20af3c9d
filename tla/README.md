# rsclash in TLA+

rsclash is a Linux desktop client for the Mihomo proxy core: it runs the core
(through a privileged service or as a child process), imports and edits profiles,
builds the core's runtime configuration from them, sets the desktop's system
proxy, and shows all of it in a window with a tray icon. This directory holds TLA+
models of its parts that keep state under concurrency and failure, the TLC
configurations that check them on small instances, and TLAPS proofs of every safety
property the passing runs check. Every definition that models code is listed with its file and lines in `PROJECT.json` ("map"), and so
are the components, the hazards and the disagreements found ("findings").

## The system

| part | source | state it keeps | operations | talks to |
|---|---|---|---|---|
| core lifecycle coordinator | `rsclash-core/src/lib.rs` | published `CoreState`, active channel, failures, restart budget, timers, command queue | start, stop, restart, reload, shutdown, health checks, automatic restart | UI handles (bounded channel, oneshot answers), controller (awaited, with timeouts), watchers of the state |
| preferred controller | `rsclash-core/src/preferred.rs` | active backend | start with fallback, stop, reload, health | service client, sidecar |
| sidecar | `rsclash-core/src/linux.rs` | child process, control socket, captured output | spawn, probe, secure, terminate | the core |
| service client and server | `rsclash-service/src/{transport,server,lifecycle}.rs` | the service's core | start, stop, status | Unix socket, one request per connection, client-side timeout |
| service installation, daemon | `rsclash-service/src/{install,daemon}.rs`, `bin/*` | installed files, the unit | install, uninstall, serve | systemd, the settings worker |
| profile store and transaction | `rsclash-config/src/{store,transaction}.rs` | profile files, catalogue, rollback journals | commit, rollback, recovery | disk |
| CVR import | `rsclash-config/src/import.rs` | marker, backup, journal | import another application's files once | disk, store |
| profile worker | `rsclash-app/src/profiles.rs` | catalogue, current profile, update timers | import, edit, update, activate, chain, delete, reorder | store, deployment, application coordinator |
| enhancement pipeline | `rsclash-config/src/enhance/*` | none, but its output is its next input | enhance, merge, chain | profile worker, settings worker |
| runtime deployment | `rsclash-config/src/deployment.rs`, `rsclash-app/src/runtime.rs` | `runtime.yaml`, its journal | open, stage, validate, commit, activate, complete, restore | validator process, core coordinator |
| settings worker | `rsclash-app/src/settings.rs` | settings snapshot | apply, persist the proxy wish, service operations | `settings.yaml`, deployment, autostart, setup program |
| system proxy service and worker | `rsclash-platform/src/{lib,linux_proxy}.rs`, `rsclash-app/src/system_proxy.rs` | desktop keys, recovery journal, the target enabled | enable, disable, status, audit, restore | gsettings in blocking tasks |
| Mihomo worker | `rsclash-app/src/mihomo.rs`, `rsclash-mihomo/src/*` | connection, streams, snapshot, pending selection | poll, select, synchronise, close, publish | the core's controller API |
| application coordinator | `rsclash-app/src/lib.rs` | `AppSnapshot`, channel ends | route UI commands, follow events, keep the wished-for system proxy | every worker, with `try_send` |
| desktop integration | `rsclash-desktop/src/*` | instance socket, listener, tray icon, shortcuts session | become the instance or forward, show, hide, quit | other launches, desktop portals, coordinator |
| user interface | `rsclash-ui/src/lib.rs` | editors, settings draft, window, pending confirmations | one frame: read snapshot and events, draw, send commands | coordinator |
| proxy view, change report | `rsclash-app/src/{proxy_view,change}.rs` | none | pure functions | UI |

**What is hard here.** The core coordinator is one task suspended at many awaits
while the core dies, handles are dropped, commands queue and a biased `select!`
starves timers. The service goes on with requests its client has given up on,
and carries requests out in any order, for each has a task of its own. Core
processes share one socket path, ignore signals and outlive the desktop. Files are
written one by one under a journal, any write may fail half way (renamed but not
synced), and the process may be killed between two of them; the installer writes
its files without a journal. Two workers deploy over one directory and one core
without a lock. The desktop's proxy is written key by key, by a blocking task that
survives the abort of its caller, while the user changes the same keys. The
application coordinator relates facts that arrive over different channels in any
order, and drops what does not fit; the Mihomo worker relates a stream, a poll, the
core's state and the profile worker's orders. The user interface edits copies of
files and settings that others change meanwhile, and settings always travel whole.
Two launches of the desktop race for one socket path.

**What makes each part correct.** Coordinator: no second core, published state true
of the process, a stop is final, the restart budget is spent exactly, every request
ends with a true answer. Controller: a fallback after an acknowledged cleanup meets no
core of the service, unless the cleanup overtook a start.
Sidecar: nothing runs that nobody owns, a ready core is the one that was started,
calls end. Installation: wherever it stops, the unit and
the configuration name files that are there, but for an alpha core being removed. Transaction
and import: one commit point, durable, an error restores everything. Profiles: the
runtime is the one the current profile's files make, links are exact, a failure
leaves no trace. Pipeline: activation is idempotent, settings win, no dangling
reference. Deployment: only validated configurations are installed, files and core
agree at rest, no journal is left but by a creation or a compensation that failed. System proxy: the user's settings are never lost.
Mihomo: the stored node is selected, left connections are closed, the window shows
what is there. Application: the snapshot becomes true, the wish becomes true and is
kept, the proxy does not point at a dead core. Desktop: one instance, every forwarded
launch heard, a hidden window can be had back, no edit vanishes, and a change of one
setting does not undo another; the code keeps each of these four only with exceptions,
which the properties name and "History variables" below lists.

## The modules

| module | models | how state and actions correspond to the code |
|---|---|---|
| `CoreSupervisor` | `rsclash-core/src/lib.rs` | `pc` names the await at which `Coordinator::run` is suspended; an action is the code from one await to the next, with its early returns and every assignment it makes. Handles are `client` records (ready, sending, waiting, gone); `ProcessExits` and `StableTimeElapses` are the world. A health check, cleanup or controller call is a pair: the action that begins it, one per outcome that ends it. |
| `CoreLifecycle` | the promise of the same code | phases of the published state, who may change them (operator or supervisor) and a bound on the supervisor. No queue, await, controller or process. |
| `CoreRefinement` | the refinement mapping | `Turn` reads off `pc` whose turn it is; `ImplementsLifecycle` is `CoreLifecycle`'s specification under the mapping. |
| `PreferredController` | `preferred.rs`, the service client and the part of the server that runs a request to its end | `at` is the await of `start`/`stop`; `requests` are those delivered and not yet carried out, each with whether anybody still waits for it. They are carried out in any order (`ServiceHandles(i)`): `server.rs` spawns a task for each connection, `daemon.rs` calls the service's coordinator from it, and nothing orders the tasks. `overtaken` says that a stop was carried out before a start delivered earlier. A sidecar whose mode cannot be confirmed (`validate_running_mode`) is one that was started: the caller cleans up after either. |
| `Sidecar` | `linux.rs` | `call` is the controller call and the await it is suspended at, `proc` every process ever spawned with the signals sent to it, `socket` the one path they bind. Processes listen, exit and die as they like; the desktop may be killed and leave them. |
| `ServiceInstall` | `install.rs`, `daemon.rs`, `setup.rs`, the service part of `settings.rs` | `installer.steps` is the rest of the list of files and systemctl calls; it may fail or be killed before each, also between the removal of an alpha core (142) and the configuration without it (158). `manager` is systemd, `process` the service with the configuration it has read. |
| `Subsequences` | `Vec::retain`, `Iterator::filter` | what they leave of a sequence, as a function of the positions kept, for `ProfileCatalog` and `EnhancementPipeline`. |
| `ConfigTransaction` | `transaction.rs`, journals of `store.rs` | `pc` is the loop the commit is in (journal, writes, complete, undo, replay); each file operation has the outcomes done, refused, unsynced. |
| `CvrImport` | `import.rs` | `at` is the step of the import or the opening that replays its journal, `todo` the paths its loop has left, the marker last. |
| `ProfileCatalog` | `profiles.rs`, the catalogue of `rsclash-domain` | one action per operation of the worker; an activation, an update or an edit of the active profile takes the steps commit, deploy, save, or restore, with `job.before` what is to be put back. |
| `EnhancementPipeline` | `enhance/*`, `apply_application_settings`, `apply_proxy_chain` | the pipeline's stages as operators on partial functions of fields, composed in the code's order in `Enhance`; `Activate`, `ApplySettings`, `SetProxyChain` feed the runtime back as the next control plane. |
| `RuntimeDeployment` | `deployment.rs` with the jobs of both workers | one `job` per worker, `pc` its await; the creation of a journal may fail before or after it is on the disk; the interior of a journal replay and of a catalogue commit is `ConfigTransaction`'s. |
| `SystemProxy` | `platform/src/lib.rs`, `linux_proxy.rs` and their callers | `pc` is the await of enable, disable, restore; `task` is the blocking task awaited, `orphan` one whose caller was aborted. Three keys stand for eight: two that hold the values, and the mode, which is written last. |
| `AppCoordinator` | `rsclash-app/src/lib.rs` as far as it decides whether the system proxy is on, with the workers around it | bounded channels, commands passed on with `try_send`, the order of the biased `select!`; each worker takes a command, publishes busy, acts and publishes the outcome. |
| `MihomoWorker` | `mihomo.rs`, the streams of `rsclash-mihomo`, what `lib.rs` and `profiles.rs` do with selections | one action per command, tick and stream item; `Called` enumerates which calls of a handler succeed. `worker` is the record of `MihomoWorker`'s fields with the closed connections it keeps. |
| `DesktopShell` | `single_instance.rs`, `tray.rs`, `global_shortcuts.rs`, window handling of `rsclash-ui` | `proc[l].pc` is the step of a launch between bind, connect, write and rebind; `shell[l]` the coordinator, window, tray and shortcuts of an instance; `Frame` is one frame. |
| `ProfileEditors` | the editors of `rsclash-ui`, load and save of `profiles.rs` | `ui.editor` is the copy with its dirty mark, `ui.pending` the load awaited; a request goes by the worker's channel and comes back by bridge and `news`, which may lose its oldest (`Lag`), read at the start of `Frame`. What was loaded may not parse for the visual editor, which then keeps what is open and the rule that waits. |
| `SettingsDraft` | the settings page, tray and shortcuts as writers, `settings.rs` as the one that saves | `ui.draft` with `dirty`; every writer sends all fields as it knows them. The coordinator publishes a snapshot and emits SettingsChanged in two steps, and a frame takes the snapshot and reads the events in two (`TakeSnapshot`, `ReadEvents`), with the world between them. |

**Composition.** Five runs join modules: `MCCore` (coordinator, controller, sidecar,
installation), `MCJournals` (proxy, transaction, import), `MCProfiles` (catalogue,
pipeline, the pipeline's inputs as constants), `MCDesktop` (shell, editors, draft) and `CoreRefinement`. The parts of one
run share no variable of the program; `part` says which is in play, and the rest stand
still. Where parts do interact, the interaction is inside one module (`AppCoordinator`,
`MihomoWorker`, `RuntimeDeployment` and `SystemProxy` each have all the actors) or one
module's result is another's atomic step: `CoreSupervisor` takes a controller call for a
pair of begin and outcome, which `PreferredController` refines; that controller takes a
start of the sidecar for one step, which `Sidecar` refines (`NothingRunsUnowned`,
`CallsEnd`); `RuntimeDeployment` and `ProfileCatalog` take a commit or a replay for one
step by `OneCommitPoint`; `AppCoordinator` takes the system proxy service for an operation
that succeeds, fails, or refuses to enable twice; `SettingsDraft` takes the
deployment of settings for one of the outcomes of `RuntimeDeployment`.

**History variables.** `wanted`, `user`, `asked`, `validated`, `answered`, `touched`
and the like record what the properties compare the state with. `gaps` (and `stale`,
`unprotected`, `unjournaled`) names the ways in which a property is not promised, so that
what is excluded is named in the model and not hidden in it:

- `PreferredController` (`overtaken`): the service carried a stop out before a start
  delivered earlier, which the client had given up on.
- `Sidecar`: "refused", the kernel refused a signal; "late", an orphan of a killed desktop
  came up after the next launch had looked at the path.
- `ConfigTransaction`: "leftover", a transaction began while an earlier one's journal
  was still on disk; "unjournaled", the journal was unlinked, the directory could not
  be synced, and the undo that follows has no journal to protect it. `CvrImport`:
  "unjournaled", the same.
- `ProfileCatalog` (`stale`): a redeployment or a restoration failed, or the process was
  killed between deployment and catalogue; the next deployment ends it. An imported
  enhancement may be an empty mapping, which the restoration refuses to write back.
- `RuntimeDeployment`: "overlap", both workers had a job at once; "crash", a kill
  between files no journal covers together, or with two journals to replay;
  "uncompensated", a compensation failed; "leftover", the creation of a journal failed and
  the journal stays.
- `SystemProxy`: "failed", an operation failed with the keys half written; "aborted",
  the caller of a blocking task was aborted; "killed", the process died between two keys;
  "raced", the user changed a key while keys were being written.
- `AppCoordinator`: "dropped", a channel was full; "failed", an operation of the
  system or the disk failed; "late", the core was lost while the proxy was being
  enabled; "stale", an order decided on an older snapshot; "overwritten", settings
  saved with an older wish; "unshown", settings the worker could not read or restore.
- `MihomoWorker`: "failed", "dropped", "crossed" (a node selected, left or lost during an
  activation, or left without a controller), "unread" (a node selected by a worker that had
  not read which one was in use), "reset" (a restarted core chose another node), "kept" (a
  restore without the close policy), "overtaken" (a stream item older than a list asked
  for), and in the worker `lost` (a snapshot dropped) and `late` (one published of a core that stopped).
- `DesktopShell`: "raced", a launch replaced a socket that another had bound since it
  looked; "unlinked", an ending process removed the next one's socket; "oversize";
  "deaf", the listener failed; "iconless", the icon could not be shown again;
  "turned off", the icon was switched off while the window was hidden.
- `ProfileEditors`: "crossed", an edit was made while a save of its file was under way,
  or a save while a load of it was; "updated", a
  subscription was updated; "replaced", a file came while another had unsaved edits; "superseded", a second rule
  was generated while the first waited for its file.
- `SettingsDraft`: "unrestored", "unread", a file that could not be put back or read;
  "overtaken", SettingsChanged was read in a frame whose snapshot was no longer the
  newest; "lagged", the channel of the events let it go.

## The runs

| run | module, cfg | what it shows | bounds, and why they are enough |
|---|---|---|---|
| `core` | `MCCore` | coordinator: five invariants, true answers, it implements `CoreLifecycle`, requests end, a scheduled restart runs; a fallback after a cleanup that overtook nothing is safe; no unowned process, a ready core is the one started, calls end; the installed files name what is there, but for an alpha core | two channels (a start may ask for another than the active one), the owner and one handle contending for a queue of one, two failures and two restarts, so that a count is seen below, at and after its limit; three requests at the service (a start given up on, its cleanup, one more); three processes, of which one may be orphaned, a channel without a binary, five inputs; two releases, five inputs (install, fail, install another, uninstall, restart). No symmetry, since it checks liveness. 102,909 states |
| `two_cores` | `PreferredController` | violation: two cores run at once | as above |
| `journals` | `MCJournals` | the user's proxy settings are never lost, a clean shutdown restores them; a transaction is atomic, durable, restored on error; an import is whole | two endpoints and a PAC URL (ours, the user's, a changed one), any number of launches and kills; three files, so that a failure has writes before and after it, two versions, two journals; a bundle of three files, a script of two profiles, six inputs. The search stops at gaps but for the end of an aborted task |
| `leftover_journal` | `ConfigTransaction` | violation: an old journal undoes a committed transaction | two files |
| `deployment` | `MCRuntimeDeployment` | validated only, no orphan journal unless a creation or a compensation failed, agreement of files and core at rest | two profiles, two settings, any number of jobs and overlaps; the search stops at a crash, a failed compensation, or a journal left with an overlap, the proofs do not. 2,542,987 states |
| `lost_update` | `RuntimeDeployment` | violation: overlapping jobs leave the files in disagreement, both reporting success | as above |
| `preserved_change` | `SystemProxy` | violation: our own half-written settings are preserved as the user's | one endpoint, one URL |
| `profiles` | `MCProfiles` | the runtime follows the catalogue, links are exact, a failure leaves no trace; activation is stable, settings win, references exist, chains end | four uids beside the global enhancement (two profiles with an enhancement each, or three that share one), one linked kind for four that are treated alike, contents accepted, rejected and empty; twelve profiles with conflicting fields, three global layers, two settings, four chains, any number of activations |
| `mihomo` | `MCMihomoWorker` | the stored node is selected at rest, left connections are closed, a closed connection is listed once, the window is true | two profiles that share one of two nodes, one of them storing a node it does not offer; one connection, two kept, channels of two, three inputs; at most one kind of gap |
| `app_proxy` | `MCAppCoordinator` | the snapshot becomes true, the wish is on the disk, no proxy without a core | three inputs (states of the core, orders, settings, failures) among unboundedly many snapshots of Mihomo; channels of two, so that both full and roomy ones occur, relays of one |
| `off_is_undone` | `AppCoordinator` | violation: a proxy the user switched off comes back on | as above |
| `desktop` | `MCDesktop` | one instance, forwarded launches heard, a hidden window can be had back; editors and page show the files, no edit vanishes, a request made from what the file holds leaves others' fields alone; each with the exceptions that its comment names | two launches (one that imports), tray and shortcuts switched, channels of two, two inputs; two profiles, one of them remote, two edits, two fields beside the proxy's, four inputs on a page. 3,916,858 states |

Every property of a passing run has a mutant in `PROJECT.json`: a definition of the
model changed the way a bug in that code would change it, under which TLC finds the
property violated.

Deadlock is checked in `profiles`, where the worker can always be given another order,
and in the runs of a single module that never rests. It is not in `core`, `journals`,
`mihomo`, `app_proxy` and `desktop`: the coordinator ends with its task, and the bounded
inputs of the others are used up, after which they rest.

**Fairness** is assumed only in `core`. The coordinator's steps are weakly
fair as a whole: its task is scheduled by the runtime and every controller call it
awaits returns, bounded by a timeout or by a process signal. That is what
`CallsEnd` shows of the sidecar, except after a refused signal, where the code waits
without a bound. The abort of a dropped runtime is weakly fair, tokio delivers it at
the next await. A sender enters the queue with strong fairness, because tokio's bounded
channel grants its permits in FIFO order, and learns of a closed one with weak fairness.
The sidecar's own steps are weakly fair, and so is the end of a process that was
sent SIGKILL (`Die`). Nothing is assumed of a core that was not killed, of time or
of clients. `ScheduledRestartRuns` needs the queue to stay empty: the biased `select!`
serves commands first, and the property says so.

## What is proved

All proofs hold for every value of the constants under the named assumptions of the
modules: owner is a client, limits are naturals, and `None` (`Absent`, `File`, `Stopped`,
"file") is none of the values it stands beside. `PipelineAssumption` says of the inputs of
the pipeline that their proxies and groups are lists of what has a name, and `MCProfiles`
checks it of the inputs of its run.

| proof module | theorems | the inductive invariant, and why it is needed |
|---|---|---|
| `CoreSupervisorProofs` | `TypeCorrect`, `CoreIsAlone`, `PublishedStateIsTrue`, `ScheduleIsForFailedCore`, `StopEndsSupervision`, `CommandsFindSettledCore`, `BudgetIsRecoverable`, `AnswersTellTheTruth`, `CoordinatorImplementsLifecycle` | Whether a controller call is safe depends on what was published, and on the channel it is for, when the coordinator was suspended in it: `PhaseAtAwait`, `ChannelAtAwait`, `RestartIsWanted`. `BudgetIsRecoverable` needs one more (`Timed`). `AnswersTellTheTruth` needs `OneEnvelope` (a request has one envelope, in the queue or in hand, and only its client waits for it) and `JobAtAwait` (the call awaited is part of the command in hand). The refinement: initial states map to initial states, and by `LifecycleStep` every step maps to a step of `CoreLifecycle` or a stutter. |
| `CoreProofs` | `BackendIsSafe`, `BackendOwnsItsCore`, `NothingRunsUnowned`, `ReadinessIsReal`, `InstallationsAreSound` | The properties of the run `core` as `MCCore` states them: a behaviour of the run is one of each part. Controller: that the service has no start left to carry out when it answers the cleanup follows from the one request its client can await, the last it has sent, and from that stop having overtaken no start (`OnlyLastAwaited`, `CleanedUp`, `CallsMatchBackend`). Sidecar: a call may forget its process only where that process has ended (`Ended`); the answer at the socket is the process's own because the path was free when it was spawned (`PathIsOurs`), and whoever else could bind it is an orphan or has been killed. Installation: how far the installer has come (`Reached`): the steps left are the end of a list, and what has been passed is written or removed; an alpha core is missed only while an installer works or after one has failed. |
| `JournalsProofs` | `TypeCorrect`, `SettingsSafe`, `ShutdownClean`, `TransactionsAreTrue`, `CommitsAtOnePoint`, `ImportsAreWhole` | The run `journals` likewise. System proxy: `Journalled` (an operation past its reading has a journal), `Unharmed` (with no task the desktop holds the user's settings or our target, and the journal tells which; with a task the settings are the journal's original and the keys written so far are the task's), `Exiting`. Transaction: until a gap opens there is at most one journal, that of the last transaction (`Journaled`); what a loop has passed has its new or its old content (`Passed`); and the directory a recovery would make lists what it has (`Closed`). The import's invariant says what journal and backup hold (`Saved`, `Backed`) and what its loops have passed (`Clean`). |
| `RuntimeDeploymentProofs` | `OnlyTheValidatedRuns`, `NoJournalIsOrphaned`, `FilesAndCoreStayInAgreement` | `Sound`: what a job has validated and at which steps it may have a journal, whatever the other worker does. `Agreed`: at every step of a job that nothing overlapped, what it started from, what it has changed of it, and that its journal holds the runtime it started from. A journal that a failed creation left holds what the file holds, as long as nothing overlaps (`LeftoverAgrees`). The proofs cover the behaviours the run's constraint cuts off. |
| `ProfilesProofs` | `CatalogueIsGood`, `RuntimeFollows`, `LinksStayExact`, `NoTraceOfFailures`, `PipelineIsGood`, `ActivationStays`, `RuntimeStaysUsable` | Catalogue (`CatalogInv`): an operation changes the files first, deploys afterwards and restores what it has saved when that fails. `JobRemembers` says what it has saved and what it can have changed since, `JobProceeds` how far it is, `LinksOfSources` and `CurrentIsSource` what a deletion may take along. Pipeline (`PipelineInv`): the settings survive an activation because the control plane is read before and written after it; groups are clean because the cleaning comes last; a chain ends because its links are the only dialers and each leads to an earlier place; and a second activation reads back what the first wrote, for which the runtime has to have a `tun` (`HasTun`) and the active inputs to be admitted ones. |
| `DesktopProofs` | `DesktopIsGood`, `OnePrimaryOnly`, `ClosedKeepsIcon`, `LaunchesStayHeard`, `PagesShowFiles`, `EditsAreKept`, `OthersFieldsAreKept` | Shell: a primary's listener is the one at the path, and a process binds once (`PrimaryHasPath`, `PathsAreBound`); a request is at one place in one backlog or one queue (`Waiting`, `InQueue`); a window is hidden by closing only where an icon is wanted and shown (`IconsAreKept`). Draft: each view is the one before it or the next is on its way, and a draft with changes comes from the newest view, or a SettingsChanged that will end it is on its way (`ViewsFollow`, `Told`); a request changes no field but those its author touched (`RequestsAreHonest`). Editors: a load of a file is behind all saves of it along the whole way to the worker and back (`LoadsFollowSaves`), what is being saved of a file is what its editor holds (`EditorFits`); a frame reads all news at once, so what it makes of the first k must fit the rest (`NewsFit`). No edit vanishes because all saves of a file that are on their way agree with what its editor holds (`SavesAgree`) and every edit made is at one of the places named (`Kept`). `After` is a recursive function over the news: that it is defined there is proved from the least place at which it would not be. |
| `AppCoordinatorProofs` | `CoordinatorIsGood`, `SnapshotIsTrue`, `WishIsOnDisk`, `NoProxyWithoutCore` | The properties speak of states with nothing under way. What a worker holds and the coordinator does not know is the last message of its kind in the channel between them (`Follows`: `CoreFollows`, `ViewFollows`, `SettingsFollow`); a wish passes two channels, the second of which must end with it (`WishFollows`). With no core, a proxy that is on or being enabled has an order to switch it off behind it, or the news of the core's end (`OffFollows`). |
| `MihomoWorkerProofs` | `WorkerIsGood`, `ClosedStayClosed`, `SelectionsSurvive`, `WindowShowsTheCore` | `WorkerInv`. Three of the promises are made at rest; on the way there the last message of its kind in a channel says the truth, or there is none and it has arrived (`Follows`): of the snapshot and of the page (`WindowFollows`), of the restore under way, which is that of the node stored, and of a selection, which passes two channels on its way to the catalogue (`SelectionsFollow`, with `Restores` and `PersistsFirst`: no selection waits behind an activation). A connection of a node that was left has the order to close it in one of four forms: a leave order, a restore that closes, an event that will become one, or an activation (`LeftAreClosed`, `OnItsWay`). A connection is closed once because what is listed as closed is in no list the worker has, in no item of the stream and not open (`ListsFit`). |

**Model-checked only.** Liveness (`EveryRequestEnds`, `ScheduledRestartRuns`, `CallsEnd`)
is out of the prover's reach: fairness and ENABLED. Every other property of a passing run has a
theorem. The five runs that expect a violation are TLC's as well. That the `chain` of a profile ends is proved for the chains the
function `set_proxy_chain` admits; what the pipeline does to fields that no property names
is checked by TLC only as far as `ActivationIsStable` sees it.

**What the proofs changed in the models.** `CleanMeansStored` of `ProfileEditors` was checked
for editors at rest and is not inductive: with seven inputs instead of four TLC finds that
a save queued behind a load of the same file leaves an editor that is marked as saved and
shows the old content. The model now names that case ("crossed"), and what is left is
proved, and checked, at every step and not at rest only. `OldConnectionsAreClosed` of
`MihomoWorker`, a part of `ActivationIsFollowed`, is not an invariant at larger bounds either:
a selection closes the connections of the node the worker has read, and a worker that has not
read the one in use leaves its connections ("unread"); and an order to close what a node left
is forgotten when it arrives without a controller ("crossed"). The model now names both.
Three models had been kinder than the code, and the proofs had to be made anew: requests at
the service in any order instead of the order delivered (`overtaken`), a creation of a journal
that may fail (`LeftoverAgrees`), and a frame and a publication of two steps each
(`Told`). `NoEditVanishes` was a property of steps, about an editor that is replaced; it is an
invariant now, about every edit made, and `AlphaExists` states when a named core is missed.
`WorkerAssumption` sets `None` apart from the records of restores and jobs, and `ShellAssumption` says that
"file" is not the name of a launch. Subsequences are picked by position, and mappings
changed by `With` and `Over`, because tlapm has no facts about `SelectSeq` and `@@`.

## What the runs found

Five disagreements, each the counterexample of a run above and described with its
lines under "findings":

1. `two_cores` — a refused fallback leaves no active backend; the stop that comes
   before the next start then succeeds without asking the service.
2. `leftover_journal` — a journal that a failed commit left behind is replayed over
   transactions committed since.
3. `lost_update` — the profile and the settings worker deploy in parallel: one
   replays the other's live journal or deploys what it computed from old input.
4. `preserved_change` — shutdown aborts the proxy worker and not its blocking task;
   the half-written settings are taken for the user's and the journal is deleted.
5. `off_is_undone` — between the worker's report that the proxy is off and the
   settings that say so, any snapshot makes the coordinator enable it again.

Smaller observations, most of them behind a name in a `gaps` above:

- *Core.* A start the client gave up on may be carried out after the stop that cleaned up
  behind it (`server.rs` 59-73, `daemon.rs` 25-52): the service then runs a core beside the
  sidecar, and nothing looks for it. While the installer replaces an installation that had an
  alpha core by one without (`install.rs` 142 to 158), or where it is killed there,
  `service.json` names a core that is not there and the service cannot start. A desktop killed by SIGKILL leaves its sidecar running beside the next one.
  After a refused signal a stop waits without a bound.
- *Journals.* The import may answer that the files were imported already, of an import
  that a recovery rolls back afterwards. An imported enhancement may be an empty mapping,
  which a failed update cannot restore.
- *Deployment.* `create_journal(..)?` (`deployment.rs` 267) may fail with the journal already on
  the disk, and leaves it. It holds what the file holds, and is harmless unless the other
  worker deploys meanwhile.
- *Settings.* A draft survives a SettingsChanged that the interface reads under the busy
  snapshot before it (`rsclash-ui/src/lib.rs` 328, 347), or does not get. It then stays
  marked after its own save, and one opened before another field changed writes the old value
  of that field back. The draft is lost after a failure that the page could retry
  (`handle_settings_event` of `rsclash-app/src/lib.rs`); fields that the settings leave out
  stay in the runtime; a stop or reload persists that the proxy is not wished for; an
  installation is announced as started while the old service still runs
  (`change_service`); a failed compensation leaves the settings shown unlike the file's.
- *System proxy.* A PAC proxy is enabled with no core, and a PAC URL set while the proxy
  is being enabled is not applied to it.
- *Mihomo.* `select_proxy` takes the node that is left from its own snapshot (667-698), which
  may be older than the core; `close_connections_for_proxy` returns without a controller
  (962-964) and nothing repeats the order. Either way connections of the node that was left
  stay open.
- *Desktop.* Two launches that find the same stale socket both become primary: the second
  removes what the first has bound (`single_instance.rs` 88-99). A window closed to the tray
  stays hidden when the icon is refused after that, or switched off; another launch shows
  it. A request of more than `MAX_REQUEST_BYTES` makes the launch replace a living
  primary's socket. A full command queue ends the shortcuts' session, and the portal's
  answer is awaited by a subscription made after the call (`global_shortcuts.rs`).
- *User interface.* A save made while a load of the same file is under way (the buttons
  wait for the worker's snapshot to say busy, which comes later) may leave an editor that
  is marked as saved and shows the file as it was before. What is typed while a save is under way
  loses its mark to the answer (`ProfileContentSaved`, 396-404). A rule generated while another file is loading is lost; a file that
  arrives replaces an editor with unsaved edits; `home_settings_dialog` computes its
  cards anew in every frame, so that a ticked card does not stay.

## What is not modelled

- Formats, parsing, HTTP and the frames of the service; the length of delays; messages,
  logs, drawing, fonts, autostart files; symlink and permission checks of the store; peer
  credentials and the listener's limits; the capture of QR codes.
- `proxy_view.rs` and `change.rs`: pure functions of large records that keep nothing and
  decide only what is drawn.
- `reload` and `health_check` of the preferred controller: they forward, and change
  nothing that is modelled. The user's `RefreshSystemProxy` and the `applied` flag of its
  view.
- The installer's temporary files and two installers at once.
- The reset of the proxy chain's view in the Mihomo worker, log settings, the mode, the
  delays of nodes. The Mihomo client beyond its stream reader.
- A second process over the same directory (`control`) and the change of the PAC target
  while the proxy is being enabled: hazards without a way to tell, from the code, what is
  promised. `CvrImporter` is called by the library's tests only; the model takes its
  public interface for its callers.

## Plan

1. Done: every component that keeps state has a module, and every safety property of a
   passing run a proof.
2. Compositions that share state: `RuntimeDeployment` under `ProfileCatalog` as a
   refinement, and `Sidecar` under `PreferredController`.
3. The largest part of the code without a model is what draws (`rsclash-ui`) and the
   encoding of the Mihomo client; neither keeps state that another part relies on.
