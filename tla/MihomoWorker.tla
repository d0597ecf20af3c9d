----------------------------- MODULE MihomoWorker -----------------------------
(***************************************************************************)
(* The Mihomo worker of rsclash-app (mihomo.rs) between the core it asks   *)
(* over HTTP and WebSockets (client.rs, stream.rs) and the coordinator     *)
(* that shows its snapshots and passes the node a user selects on to the   *)
(* profile worker, which stores it, restores it when a profile is          *)
(* activated and has the connections of the node that was left closed      *)
(* (lib.rs, profiles.rs).                                                  *)
(*                                                                         *)
(* The worker is one task: it handles one command, tick or item of a       *)
(* stream to its end.  What it calls may fail, the core may come and go    *)
(* between any two of its steps, and its snapshots are sent with try_send, *)
(* so one that does not fit is lost.                                       *)
(*                                                                         *)
(* One group of nodes stands for all of them, as every group is selected,  *)
(* stored and restored on its own.  Of a snapshot only the connection and  *)
(* the busy flag are kept, of a connection its node, of the streams that   *)
(* there is an item.  The core's state reaches the worker through a watch  *)
(* and the coordinator, one step here (AppCoordinator has all of them).    *)
(*                                                                         *)
(* History `gaps' notes what the properties exclude: a call that failed    *)
(* ("failed"), a command that found its channel full ("dropped"), a node   *)
(* selected, left or lost while a profile is being activated ("crossed"),  *)
(* a node selected by a worker that did not know the one before            *)
(* ("unread"), a core that chose another node when it restarted ("reset"), *)
(* connections kept by a restore without the close policy ("kept"), an     *)
(* item of the stream older than the list the worker asked for             *)
(* ("overtaken").  The worker's own `lost' notes a snapshot that was       *)
(* dropped, `late' one it published of a core that had stopped.            *)
(***************************************************************************)
EXTENDS Naturals, Sequences, FiniteSets, SequencesExt

CONSTANTS
  Nodes,          \* the options of the group
  Profiles,       \* the profiles of the catalogue
  Offers,         \* the nodes each of them offers
  Stored,         \* the node each of them stores at first
  Modes,          \* CoreRunMode
  Pages,          \* the pages the user visits
  Calls,          \* the kinds of calls that fail on their own in the instance
  MaxConnections, \* bound on the connections the core ever has
  Kept,           \* CLOSED_CONNECTION_CAPACITY
  Capacity,       \* CORE_EVENT_CAPACITY, of each channel
  MaxInputs,      \* bound on what the user, the core and the failures bring
  None            \* Option::None

AllCalls == {"groups", "select", "close", "metadata", "streams", "stats"}
AllPages == {"home", "connections", "logs", "other"}

Sync == [node : Nodes \cup {None}, close : BOOLEAN]
Jobs == [profile : Profiles, sync : Sync, mode : Modes \cup {None}]

ASSUME WorkerAssumption ==
  /\ Offers \in [Profiles -> SUBSET Nodes] /\ \A p \in Profiles : Offers[p] # {}
  /\ Stored \in [Profiles -> Nodes \cup {None}]
  /\ Pages \subseteq AllPages /\ Calls \subseteq AllCalls
  /\ MaxConnections \in Nat /\ MaxInputs \in Nat
  /\ Kept \in Nat \ {0} /\ Capacity \in Nat \ {0}
  /\ None \notin Nodes \cup Profiles \cup Modes \cup Sync \cup Jobs

VARIABLES
  core,      \* Mihomo: its mode (None: stopped), profile, selected node and connections
  unseen,    \* the relay has not passed on the core's state yet
  worker,    \* MihomoWorker and its channel of events
  commands,  \* its channel of commands
  screen,    \* the coordinator's AppSnapshot
  catalog,   \* profiles.yaml: the current profile and the node each profile stores
  queue,     \* the profile worker's channel of commands
  job,       \* the activation the profile worker is at
  used,      \* how many connections there have been
  gaps,      \* history: what the properties exclude
  inputs     \* how many inputs there have been

vars == <<core, unseen, worker, commands, screen, catalog, queue, job, used, gaps, inputs>>

Ids == 1..MaxConnections
Connections == [Ids -> Nodes \cup {None}]
Open(conns) == {id \in Ids : conns[id] # None}
NoConnections == [id \in Ids |-> None]
Statuses == {"offline", "connecting", "connected", "degraded"}
View == [status : Statuses, busy : BOOLEAN]

Offline == [status |-> "offline", busy |-> FALSE]

\* The fields of MihomoWorker and of its snapshot that MihomoSnapshot::default() resets.
Unconnected(w) == [w EXCEPT !.view = Offline, !.node = None, !.paused = FALSE]

Init ==
  /\ core = [mode |-> None, profile |-> None, node |-> None, conns |-> NoConnections]
  /\ unseen = FALSE
  /\ worker = [active |-> None, view |-> Offline, node |-> None, paused |-> FALSE,
               page |-> "home", visible |-> TRUE, streams |-> {}, items |-> <<>>,
               connections |-> {}, closed |-> <<>>, dirty |-> FALSE, pending |-> None,
               events |-> <<>>, lost |-> FALSE, late |-> FALSE]
  /\ screen = [view |-> Offline, page |-> "home", visible |-> TRUE]
  /\ catalog \in [current : Profiles, stored : {Stored}]
  \* synchronize_current_profile, when the profile worker starts
  /\ commands = <<[do |-> "sync",
                   with |-> [node |-> catalog.stored[catalog.current], close |-> FALSE]]>>
  /\ queue = <<>> /\ job = None /\ used = 0 /\ gaps = {} /\ inputs = 0

-----------------------------------------------------------------------------
(* What the worker's handlers are built from                               *)

Recent(messages, bound) ==
  SubSeq(messages, IF Len(messages) > bound THEN Len(messages) - bound + 1 ELSE 1, Len(messages))

Publish(w) ==
  IF Len(w.events) < Capacity
  THEN [w EXCEPT !.events = Append(@, [do |-> "view", with |-> w.view])]
  ELSE [w EXCEPT !.lost = TRUE]

Showing(w, status) == Publish([w EXCEPT !.view.status = status])

MarkDegraded(w) == IF w.view.status = "degraded" THEN w ELSE Showing(w, "degraded")

SetBusy(w, busy) == IF w.view.busy = busy THEN w ELSE Publish([w EXCEPT !.view.busy = busy])

\* flush_stream_state
Flush(w) ==
  IF ~w.dirty THEN w
  ELSE [Showing(w, "connected") EXCEPT !.dirty = (Len(w.events) = Capacity),
                                       !.late = @ \/ w.active = None]

WantedStreams(page, visible) ==
  IF ~visible THEN {}
  ELSE CASE page = "home" -> {"traffic", "memory"}
         [] page = "connections" -> {"connections"}
         [] page = "logs" -> {"logs"}
         [] OTHER -> {}

Wanted(w) == IF w.active = None THEN {} ELSE WantedStreams(w.page, w.visible)

\* Reading a new stream starts with what the core sends from then on.
WithStreams(w, streams) ==
  [w EXCEPT !.streams = streams, !.items = IF "connections" \in streams THEN @ ELSE <<>>]

\* Mutant: the streams of another page stay open.
ConfigureWithoutClosing(w, up) ==
  IF Wanted(w) \subseteq w.streams \/ "streams" \in up
  THEN WithStreams(w, IF Wanted(w) = {} THEN {} ELSE w.streams \cup Wanted(w))
  ELSE MarkDegraded(w)

\* configure_streams
ConfigureStreams(w, up) ==
  IF Wanted(w) \subseteq w.streams \/ "streams" \in up
  THEN WithStreams(w, Wanted(w))
  ELSE MarkDegraded(WithStreams(w, w.streams \cap Wanted(w)))

\* refresh_metadata: the node is the core's, as the groups tell it.
RefreshMetadata(w, node, up) ==
  IF w.active = None THEN w
  ELSE IF "metadata" \in up THEN Showing([w EXCEPT !.node = node], "connected")
  ELSE MarkDegraded(w)

\* Mutant: what is in the new list counts as closed too.
UpdateKeepingClosed(w, ids) ==
  [w EXCEPT !.connections = @ \cup ids,
            !.closed = Recent(@ \o SetToSeq(w.connections \ ids), Kept),
            !.dirty = TRUE]

\* update_connections: what the new list lacks was closed.
UpdateConnections(w, ids) ==
  [w EXCEPT !.connections = ids,
            !.closed = Recent(@ \o SetToSeq(w.connections \ ids), Kept),
            !.dirty = TRUE]

\* refresh_stats
RefreshStats(w, ids, up) ==
  IF w.active = None THEN w
  ELSE IF "stats" \in up
  THEN Flush([UpdateConnections(w, ids) EXCEPT !.view.status = "connected"])
  ELSE MarkDegraded(w)

RefreshAll(w, now, up) ==
  IF w.active = None THEN w
  ELSE RefreshStats(ConfigureStreams(RefreshMetadata(w, now.node, up), up), Open(now.conns), up)

\* The core after synchronize_profile restored the node and applied the close policy.
Restored(now, sync, up) ==
  [now EXCEPT !.node = IF /\ {"groups", "select"} \subseteq up
                          /\ sync.node \in Offers[now.profile] THEN sync.node ELSE @,
              !.conns = IF sync.close /\ "close" \in up THEN NoConnections ELSE @]

-----------------------------------------------------------------------------
(* What the worker calls                                                   *)

Input == inputs < MaxInputs /\ inputs' = inputs + 1

\* The calls of one handler that succeed: none without the core, else at most one kind fails.
Succeeding(mode) ==
  IF mode = None \/ mode # core.mode THEN {{}}
  ELSE {AllCalls} \cup (IF inputs < MaxInputs THEN {AllCalls \ {c} : c \in Calls} ELSE {})

\* A handler is through, of whose calls those `needed' change something.
Called(up, mode, needed, others) ==
  /\ gaps' = gaps \cup others \cup (IF mode = None \/ needed \subseteq up THEN {} ELSE {"failed"})
  /\ inputs' = IF up \in {{}, AllCalls} THEN inputs ELSE inputs + 1

\* A list the worker asks for may be newer than what waits in the stream.
Overtaken == IF worker.items = <<>> THEN {} ELSE {"overtaken"}

Left(sync, now) ==
  IF ~sync.close /\ \E id \in Ids : now.conns[id] \notin {None, now.node} THEN {"kept"} ELSE {}

Take(kind) ==
  /\ commands # <<>> /\ Head(commands).do = kind
  /\ commands' = Tail(commands)

Given == Head(commands).with

Restoring == \E n \in DOMAIN commands : commands[n].do = "sync"

Elsewhere == <<unseen, screen, catalog, queue, job, used>>

-----------------------------------------------------------------------------
(* Commands                                                                *)

\* synchronize_profile, of a worker that has a controller.
Synchronizing(w, sync, up) ==
  LET now == IF up = {} THEN core ELSE Restored(core, sync, up) IN
  /\ core' = now
  /\ worker' = RefreshAll(w, now, up)
  /\ Called(up, w.active, {"groups", "select", "close"}, Overtaken \cup Left(sync, now))

\* Mutant: a restore that finds no controller is not kept for the next one.
SynchronizeNow ==
  /\ Take("sync")
  /\ \E up \in Succeeding(worker.active) : Synchronizing(worker, Given, up)
  /\ UNCHANGED Elsewhere

\* MihomoBridgeCommand::SynchronizeProfile
Synchronize ==
  /\ Take("sync")
  /\ IF worker.active = None
     THEN worker' = [worker EXCEPT !.pending = Given] /\ UNCHANGED <<core, gaps, inputs>>
     ELSE \E up \in Succeeding(worker.active) : Synchronizing(worker, Given, up)
  /\ UNCHANGED Elsewhere

\* handle_core_state, with Running: a client for the mode, and what has waited for one.
CoreRuns ==
  /\ Take("state") /\ Given # None
  /\ IF worker.active = Given
     THEN UNCHANGED <<core, worker, gaps, inputs>>
     ELSE LET w == Publish([Unconnected(worker) EXCEPT !.active = Given,
                                                       !.view.status = "connecting"]) IN
          \E up \in Succeeding(Given) :
            IF w.pending = None
            THEN /\ worker' = RefreshAll(w, core, up)
                 /\ Called(up, Given, {}, Overtaken)
                 /\ UNCHANGED core
            ELSE Synchronizing(RefreshAll([w EXCEPT !.pending = None], core, up), w.pending, up)
  /\ UNCHANGED Elsewhere

\* handle_core_state, with any other state.
CoreStops ==
  /\ Take("state") /\ Given = None
  /\ worker' = IF worker.active = None /\ Unconnected(worker) = worker THEN worker
               ELSE Publish([WithStreams(Unconnected(worker), {}) EXCEPT !.active = None,
                               !.connections = {}, !.closed = <<>>])
  /\ UNCHANGED <<core, gaps, inputs, Elsewhere>>

\* select_proxy, which waits until the coordinator has room for its event.
SelectProxy ==
  /\ Take("select")
  /\ \E up \in Succeeding(worker.active) :
       IF "select" \in up
       THEN LET previous == IF worker.node = Given THEN None ELSE worker.node
                w == Showing([worker EXCEPT !.node = IF @ = None THEN None ELSE Given],
                             "connected") IN
            /\ Given \in Offers[core.profile]
            /\ Len(w.events) < Capacity
            /\ core' = [core EXCEPT !.node = Given]
            /\ worker' = [w EXCEPT !.events =
                 Append(@, [do |-> "selected", with |-> [node |-> Given, previous |-> previous]])]
            /\ Called(up, worker.active, {},
                      (IF job = None /\ ~Restoring THEN {} ELSE {"crossed"})
                      \cup (IF worker.node = core.node THEN {} ELSE {"unread"}))
       ELSE /\ UNCHANGED <<core, worker>>
            /\ Called(up, worker.active, {}, {})
  /\ UNCHANGED Elsewhere

\* Without a controller the order is forgotten, though the core may still have connections.
Missed(node) ==
  IF worker.active = None /\ node # core.node /\ \E id \in Ids : core.conns[id] = node
  THEN {"crossed"} ELSE {}

\* close_connections_for_proxy
CloseConnectionsForProxy ==
  /\ Take("leave")
  /\ \E up \in Succeeding(worker.active) :
       LET conns == IF {"stats", "close"} \subseteq up
                    THEN [id \in Ids |-> IF core.conns[id] = Given THEN None ELSE core.conns[id]]
                    ELSE core.conns IN
       /\ core' = [core EXCEPT !.conns = conns]
       /\ worker' = IF "stats" \in up THEN RefreshStats(worker, Open(conns), up) ELSE worker
       /\ Called(up, worker.active, {"stats", "close"}, Overtaken \cup Missed(Given))
  /\ UNCHANGED Elsewhere

\* close_connection and close_all_connections
CloseConnections ==
  /\ Take("close")
  /\ \E up \in Succeeding(worker.active) :
       LET conns == [id \in Ids |-> IF id \in Given THEN None ELSE core.conns[id]] IN
       IF "close" \in up
       THEN /\ core' = [core EXCEPT !.conns = conns]
            /\ worker' = RefreshStats(worker, Open(conns), up)
            /\ Called(up, worker.active, {}, Overtaken)
       ELSE /\ UNCHANGED <<core, worker>>
            /\ Called(up, worker.active, {}, {})
  /\ UNCHANGED Elsewhere

\* SetPresentation
SetPresentation ==
  /\ Take("show")
  /\ \E up \in Succeeding(worker.active) :
       /\ worker' = ConfigureStreams([worker EXCEPT !.page = Given.page,
                                                    !.visible = Given.visible], up)
       /\ Called(up, worker.active, {}, {})
  /\ UNCHANGED <<core, Elsewhere>>

\* SetConnectionsPaused, ClearClosedConnections
SetPaused ==
  /\ Take("pause")
  /\ worker' = Publish([worker EXCEPT !.paused = Given])
  /\ UNCHANGED <<core, gaps, inputs, Elsewhere>>

ClearClosed ==
  /\ Take("clear")
  /\ worker' = Publish([worker EXCEPT !.closed = <<>>])
  /\ UNCHANGED <<core, gaps, inputs, Elsewhere>>

\* Refresh
Refresh ==
  /\ Take("refresh")
  /\ \E up \in Succeeding(worker.active) :
       /\ worker' = RefreshAll(worker, core, up)
       /\ Called(up, worker.active, {}, Overtaken)
  /\ UNCHANGED <<core, Elsewhere>>

\* The tests of nodes, groups and providers, and the updates of providers.
Tested(w, up) == SetBusy(RefreshMetadata(SetBusy(w, TRUE), core.node, up), FALSE)

TestProxies ==
  /\ Take("test")
  /\ \E up \in Succeeding(worker.active) :
       /\ worker' = IF worker.active = None THEN worker ELSE Tested(worker, up)
       /\ Called(up, worker.active, {}, {})
  /\ UNCHANGED <<core, Elsewhere>>

-----------------------------------------------------------------------------
(* Ticks and items of the streams                                          *)

\* poll, every STATS_INTERVAL; each METADATA_POLL_TICKS with the metadata.
Poll ==
  /\ worker.active # None
  /\ \E up \in Succeeding(worker.active), metadata \in BOOLEAN :
       /\ LET w == ConfigureStreams(worker, up) IN
          worker' = IF metadata THEN RefreshMetadata(w, core.node, up) ELSE w
       /\ Called(up, worker.active, {}, {})
  /\ UNCHANGED <<core, commands, Elsewhere>>

\* flush_interval.tick()
FlushTick ==
  /\ worker.dirty
  /\ worker' = Flush(worker)
  /\ UNCHANGED <<core, commands, gaps, inputs, Elsewhere>>

\* The core sends the connections it has.
SendItem ==
  /\ "connections" \in worker.streams /\ worker.active = core.mode
  /\ worker.items = <<>>
  /\ worker' = [worker EXCEPT !.items = <<Open(core.conns)>>]
  /\ UNCHANGED <<core, commands, gaps, inputs, Elsewhere>>

\* handle_connections_item
ConnectionsItem ==
  /\ worker.items # <<>>
  /\ worker' = LET w == [worker EXCEPT !.items = Tail(@)] IN
               IF worker.paused THEN w ELSE UpdateConnections(w, Head(worker.items))
  /\ UNCHANGED <<core, commands, gaps, inputs, Elsewhere>>

\* handle_traffic_item, handle_memory_item, handle_log_item
OtherItem ==
  /\ worker.streams \ {"connections"} # {} /\ worker.active = core.mode
  /\ worker' = [worker EXCEPT !.dirty = TRUE]
  /\ UNCHANGED <<core, commands, gaps, inputs, Elsewhere>>

\* The stream of a core that stopped ends, after what it had sent.
StreamEnds ==
  /\ worker.active # core.mode /\ worker.items = <<>>
  /\ \E kind \in worker.streams :
       worker' = MarkDegraded([worker EXCEPT !.streams = @ \ {kind}])
  /\ UNCHANGED <<core, commands, gaps, inputs, Elsewhere>>

-----------------------------------------------------------------------------
(* The coordinator                                                         *)

Accepts(channel) == Len(channel) < Capacity

Forward(do, with) ==
  IF Accepts(commands)
  THEN commands' = Append(commands, [do |-> do, with |-> with]) /\ UNCHANGED gaps
  ELSE UNCHANGED commands /\ gaps' = gaps \cup {"dropped"}

\* relay_core_states and handle_core_event
RelayCoreState ==
  /\ unseen /\ unseen' = FALSE
  /\ Forward("state", core.mode)
  /\ UNCHANGED <<core, worker, screen, catalog, queue, job, used, inputs>>

\* handle_mihomo_event: a snapshot, or a selection to store.
HandleMihomoEvent ==
  /\ worker.events # <<>>
  /\ worker' = [worker EXCEPT !.events = Tail(@)]
  /\ LET event == Head(worker.events) IN
     IF event.do = "view"
     THEN screen' = [screen EXCEPT !.view = event.with] /\ UNCHANGED <<queue, gaps>>
     ELSE /\ IF Accepts(queue)
             THEN /\ queue' = Append(queue, [do |-> "persist", with |-> event.with])
                  /\ gaps' = IF job = None /\ \A n \in DOMAIN queue : queue[n].do = "persist"
                             THEN gaps ELSE gaps \cup {"crossed"}
             ELSE UNCHANGED queue /\ gaps' = gaps \cup {"dropped"}
          /\ UNCHANGED screen
  /\ UNCHANGED <<core, unseen, commands, catalog, job, used, inputs>>

\* Navigate, SetWindowVisible and update_mihomo_presentation
Show ==
  /\ Input
  /\ \E page \in Pages, visible \in BOOLEAN :
       /\ screen' = [screen EXCEPT !.page = page, !.visible = visible]
       /\ Forward("show", [page |-> page, visible |-> visible])
  /\ UNCHANGED <<core, unseen, worker, catalog, queue, job, used>>

\* dispatch_mihomo: the user is told when a command does not fit.
Order ==
  /\ Input /\ Accepts(commands)
  /\ \/ \E node \in Nodes : Forward("select", node)
     \/ \E ids \in {Ids} \cup {{id} : id \in Ids} : Forward("close", ids)
     \/ \E paused \in BOOLEAN : Forward("pause", paused)
     \/ \E do \in {"clear", "refresh", "test"} : Forward(do, None)
  /\ UNCHANGED <<core, unseen, worker, screen, catalog, queue, job, used>>

\* dispatch_profile, with ActivateProfile
OrderActivation ==
  /\ Input /\ Accepts(queue)
  /\ \E p \in Profiles : queue' = Append(queue, [do |-> "activate", with |-> p])
  /\ UNCHANGED <<core, unseen, worker, commands, screen, catalog, job, used, gaps>>

-----------------------------------------------------------------------------
(* The profile worker                                                      *)

NextJob(kind) == job = None /\ queue # <<>> /\ Head(queue).do = kind /\ queue' = Tail(queue)

\* activate reads what it will restore first, then deploys; the core publishes Reloading.
StartActivation ==
  /\ NextJob("activate")
  /\ LET p == Head(queue).with IN
     job' = [profile |-> p, sync |-> [node |-> catalog.stored[p], close |-> TRUE],
             mode |-> core.mode]
  /\ IF core.mode = None
     THEN UNCHANGED <<core, unseen>>
     ELSE core' = [core EXCEPT !.mode = None] /\ unseen' = TRUE
  /\ gaps' = IF \E n \in DOMAIN worker.events : worker.events[n].do = "selected"
             THEN gaps \cup {"crossed"} ELSE gaps
  /\ UNCHANGED <<worker, commands, screen, catalog, used, inputs>>

\* The core runs the profile, its node whichever, and the restore is sent on.
FinishActivation ==
  /\ job # None /\ job' = None
  /\ catalog' = [catalog EXCEPT !.current = job.profile]
  /\ \E node \in Offers[job.profile] :
       core' = [core EXCEPT !.mode = job.mode,
                            !.profile = IF job.mode = None THEN @ ELSE job.profile,
                            !.node = IF job.mode = None THEN @ ELSE node]
  /\ unseen' = (unseen \/ job.mode # None)
  /\ Forward("sync", job.sync)
  /\ UNCHANGED <<worker, screen, queue, used, inputs>>

\* The deployment fails: the core runs what it ran.
FailActivation ==
  /\ Input /\ job # None /\ job' = None
  /\ core' = [core EXCEPT !.mode = job.mode]
  /\ unseen' = (unseen \/ job.mode # None)
  /\ UNCHANGED <<worker, commands, screen, catalog, queue, used, gaps>>

\* persist_profile_selection, and what SelectionPersisted makes the coordinator do.
PersistSelection ==
  /\ NextJob("persist")
  /\ LET selection == Head(queue).with IN
     /\ catalog' = [catalog EXCEPT !.stored[catalog.current] = selection.node]
     /\ IF selection.previous = None THEN UNCHANGED <<commands, gaps>>
        ELSE Forward("leave", selection.previous)
  /\ UNCHANGED <<core, unseen, worker, screen, job, used, inputs>>

-----------------------------------------------------------------------------
(* The core and its users                                                  *)

\* No restore waits for the core that starts.
Unrestored == worker.pending = None /\ ~Restoring

\* The supervisor starts Mihomo with the runtime of the current profile.
StartCore ==
  /\ Input /\ core.mode = None /\ job = None
  /\ \E mode \in Modes, node \in Offers[catalog.current] :
       /\ core' = [core EXCEPT !.mode = mode, !.profile = catalog.current, !.node = node]
       /\ gaps' = IF Unrestored /\ core.node # node THEN gaps \cup {"reset"} ELSE gaps
  /\ unseen' = TRUE
  /\ UNCHANGED <<worker, commands, screen, catalog, queue, job, used>>

\* It stops, or it is gone.
StopCore ==
  /\ Input /\ core.mode # None
  /\ core' = [core EXCEPT !.mode = None, !.conns = NoConnections]
  /\ unseen' = TRUE
  /\ UNCHANGED <<worker, commands, screen, catalog, queue, job, used, gaps>>

\* A client of the proxy connects through the selected node, or closes a connection.
Connect ==
  /\ core.mode # None /\ used < MaxConnections
  /\ used' = used + 1
  /\ core' = [core EXCEPT !.conns[used + 1] = core.node]
  /\ UNCHANGED <<unseen, worker, commands, screen, catalog, queue, job, gaps, inputs>>

Disconnect ==
  /\ \E id \in Open(core.conns) : core' = [core EXCEPT !.conns[id] = None]
  /\ UNCHANGED <<unseen, worker, commands, screen, catalog, queue, job, used, gaps, inputs>>

Next ==
  \/ Synchronize \/ CoreRuns \/ CoreStops \/ SelectProxy
  \/ CloseConnectionsForProxy \/ CloseConnections \/ SetPresentation
  \/ SetPaused \/ ClearClosed \/ Refresh \/ TestProxies
  \/ Poll \/ FlushTick \/ SendItem \/ ConnectionsItem \/ OtherItem \/ StreamEnds
  \/ RelayCoreState \/ HandleMihomoEvent \/ Show \/ Order \/ OrderActivation
  \/ StartActivation \/ FinishActivation \/ FailActivation \/ PersistSelection
  \/ StartCore \/ StopCore \/ Connect \/ Disconnect

Spec == Init /\ [][Next]_vars

-----------------------------------------------------------------------------
(* Properties                                                              *)

\* Every variable has its type and every channel its capacity.
TypeOK ==
  /\ core \in [mode : Modes \cup {None}, profile : Profiles \cup {None},
               node : Nodes \cup {None}, conns : Connections]
  /\ worker.active \in Modes \cup {None} /\ worker.view \in View
  /\ worker.pending \in Sync \cup {None}
  /\ worker.connections \subseteq Ids
  /\ Len(worker.closed) <= Kept /\ Len(worker.items) <= 1
  /\ \A channel \in {worker.events, commands, queue} : Len(channel) <= Capacity
  /\ catalog \in [current : Profiles, stored : [Profiles -> Nodes \cup {None}]]
  /\ used \in 0..MaxConnections /\ inputs \in 0..MaxInputs

\* All that was sent has been handled and the worker knows the core as it is.
AtRest ==
  /\ commands = <<>> /\ worker.events = <<>> /\ queue = <<>> /\ job = None
  /\ ~unseen /\ worker.active = core.mode

\* Streams are read for the page the window shows only, none of them when it is hidden or
\* the core is stopped, and the worker serves that page when its commands have been handled
\* (configure_streams, drop_streams, and every handler that must call them).
StreamsServeThePage ==
  /\ worker.streams \subseteq Wanted(worker)
  /\ AtRest /\ "dropped" \notin gaps => worker.streams \subseteq
       WantedStreams(screen.page, screen.visible)

\* A connection the list of the closed ones holds is not listed as active and is there once
\* (update_connections, over restarts of the core, pauses and the two ways to get a list),
\* unless an item of the stream was overtaken by a list the worker asked for.
ClosedOnceAndForAll ==
  "overtaken" \notin gaps =>
    /\ IsInjective(worker.closed)
    /\ \A n \in DOMAIN worker.closed : worker.closed[n] \notin worker.connections

\* When all is handled, the node the core runs with is the one stored for the current
\* profile, wherever the profile offers it (profile_runtime_sync, synchronize_profile, the
\* restore that waits for the core, select_proxy and persist_profile_selection).
SelectionsAreRestored ==
  LET stored == catalog.stored[catalog.current] IN
  AtRest /\ core.mode # None /\ gaps \cap {"failed", "dropped", "crossed", "reset"} = {} =>
    (stored \in Offers[catalog.current] => core.node = stored)

\* When all is handled, no connection uses a node that was left: the change of a node or of
\* the profile has closed them (close_connections_for_proxy, the close policy).
OldConnectionsAreClosed ==
  AtRest /\ gaps \cap {"failed", "dropped", "crossed", "reset", "kept", "unread"} = {} =>
    \A id \in Open(core.conns) : core.conns[id] = core.node

\* When all is handled, the window shows neither a connection of a core that is stopped nor
\* a test that goes on for ever (handle_core_state, set_proxy_busy), unless a snapshot was
\* lost or published late.
ViewIsTrue ==
  AtRest /\ "dropped" \notin gaps /\ ~worker.lost /\ ~worker.late =>
    /\ screen.view = worker.view /\ ~screen.view.busy
    /\ core.mode = None <=> screen.view.status = "offline"
=============================================================================
