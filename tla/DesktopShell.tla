----------------------------- MODULE DesktopShell -----------------------------
(***************************************************************************)
(* The desktop program around its backend: which of the processes the user *)
(* launches becomes the application (single_instance.rs), the window, the  *)
(* tray icon (tray.rs) and the global shortcuts (global_shortcuts.rs) that *)
(* send commands to its coordinator, and the frames of the user interface  *)
(* that show and hide the window and decide what closing it means.         *)
(*                                                                         *)
(* A launch is a process.  It binds the socket and is the primary          *)
(* instance, or finds the path taken and forwards its request, or cannot   *)
(* and replaces the socket.  An operation on the path is atomic, a process *)
(* may be killed between any two of them, and a path outlives the listener *)
(* that was bound to it.  `seen' is the listener a launch could not reach, *)
(* `oversize' a request of more than MAX_REQUEST_BYTES, which forward      *)
(* refuses to encode once it has connected.                                *)
(*                                                                         *)
(* Of the settings, tray.rs and the shortcuts read the three below; they   *)
(* change on their own (EnhancementPipeline and Drafts have the rest).     *)
(*                                                                         *)
(* History: `fate' is what became of a forwarded request.  `gaps' notes    *)
(* what the properties exclude: a launch that replaced a socket another    *)
(* launch had bound since it looked ("raced"), an ending process that      *)
(* removed the socket of the next ("unlinked"), an oversize request        *)
(* ("oversize"), a listener that failed ("deaf"), an icon that could not   *)
(* be shown again ("iconless"), an icon turned off while the window was    *)
(* hidden or about to be ("turned off").                                   *)
(***************************************************************************)
EXTENDS Naturals, Sequences, FiniteSets

CONSTANTS
  Launches,   \* processes
  Oversize,   \* those whose request is too long
  Importing,  \* those that bring a profile
  Varied,     \* the settings that change in the instance
  Stale,      \* a socket whose listener is gone
  Capacity,   \* of the coordinator's channel of commands
  MaxInputs,  \* bound on what the user, the settings and the failures bring
  None        \* Option::None

ASSUME ShellAssumption ==
  /\ Oversize \subseteq Launches /\ Importing \subseteq Launches
  /\ Varied \subseteq {"tray", "menu", "hotkeys"}
  /\ Stale \notin Launches /\ None \notin Launches \cup {Stale}
  /\ "file" \notin Launches \cup {Stale, None}
  /\ Capacity \in Nat \ {0} /\ MaxInputs \in Nat

VARIABLES
  path,     \* what is at socket_path: the listener bound there, Stale, "file" or None
  proc,     \* the processes
  backlog,  \* the requests that wait at each listener
  shell,    \* the coordinator and the desktop of each primary instance
  fate,     \* history: what became of the request of each launch
  gaps,     \* history: what the properties exclude
  inputs    \* how many inputs there have been

vars == <<path, proc, backlog, shell, fate, gaps, inputs>>

Steps == {"none", "bind", "connect", "write", "inspect", "remove", "rebind", "forwarded",
          "starting", "running", "quitting", "closed", "ended"}
Choices == [tray : BOOLEAN, menu : BOOLEAN, hotkeys : BOOLEAN]
Command == {"show", "hide", "toggle", "import", "shutdown"}

\* AppSettings::default, the snapshot until the settings have been read
Default == [tray |-> TRUE, menu |-> FALSE, hotkeys |-> FALSE]

Unstarted ==
  [queue |-> <<>>, ending |-> FALSE, visible |-> TRUE, applied |-> TRUE,
   settings |-> Default, synced |-> Default, icon |-> FALSE, closeToTray |-> FALSE,
   hotkeys |-> FALSE, portal |-> "none", deaf |-> FALSE, closed |-> FALSE]

TypeOK ==
  /\ path \in Launches \cup {Stale, "file", None}
  /\ proc \in [Launches -> [pc : Steps, show : BOOLEAN, seen : Launches \cup {Stale, None}]]
  /\ \A l \in Launches :
       /\ backlog[l] \in Seq(Launches)
       /\ shell[l].queue \in Seq(Command \X (Launches \cup {None}))
       /\ Len(shell[l].queue) <= Capacity
       /\ shell[l].settings \in Choices /\ shell[l].synced \in Choices
       /\ shell[l].portal \in {"none", "asked", "bound"}
       /\ shell[l].icon => shell[l].synced.tray
  /\ fate \in [Launches -> {"none", "waiting", "queued", "served", "lost"}]

Init ==
  /\ path \in {None, Stale, "file"}
  /\ proc = [l \in Launches |-> [pc |-> "none", show |-> TRUE, seen |-> None]]
  /\ backlog = [l \in Launches |-> <<>>]
  /\ shell = [l \in Launches |-> Unstarted]
  /\ fate = [l \in Launches |-> "none"] /\ gaps = {} /\ inputs = 0

Input == inputs < MaxInputs /\ inputs' = inputs + 1

Primary(l) == proc[l].pc \in {"starting", "running", "quitting"}

\* A listener is open from its bind to the end of its thread, which accepts only later.
Listens(l) == l \in Launches /\ Primary(l) /\ ~shell[l].deaf

\* A step of process l that leads to pc and leaves the shells alone.
Goes(l, pc) == proc' = [proc EXCEPT ![l].pc = pc]

-----------------------------------------------------------------------------
(* Who becomes the primary instance                                        *)

Launch(l, show) ==
  /\ proc[l].pc = "none"
  /\ proc' = [proc EXCEPT ![l] = [@ EXCEPT !.pc = "bind", !.show = show]]
  /\ UNCHANGED <<path, backlog, shell, fate, gaps, inputs>>

\* UnixListener::bind, of a path that is free
BindFree(l, free, taken) ==
  /\ Goes(l, IF path = None THEN free ELSE taken)
  /\ path' = IF path = None THEN l ELSE path
  /\ UNCHANGED <<backlog, shell, fate, gaps, inputs>>

Bind(l) == proc[l].pc = "bind" /\ BindFree(l, "starting", "connect")

\* Mutant: only an instance whose window is up answers.
ConnectToRunning(l) ==
  /\ proc[l].pc = "connect"
  /\ proc' = [proc EXCEPT ![l] = [@ EXCEPT !.seen = IF path = "file" THEN None ELSE path,
        !.pc = IF Listens(path) /\ proc[path].pc = "running" THEN "write" ELSE "inspect"]]
  /\ UNCHANGED <<path, backlog, shell, fate, gaps, inputs>>

Connect(l) ==
  /\ proc[l].pc = "connect"
  /\ proc' = [proc EXCEPT ![l] = [@ EXCEPT !.seen = IF path = "file" THEN None ELSE path,
                                           !.pc = IF Listens(path) THEN "write" ELSE "inspect"]]
  /\ UNCHANGED <<path, backlog, shell, fate, gaps, inputs>>

\* Mutant: nobody looks whether the request could be written.
WriteBlindly(l) ==
  /\ proc[l].pc = "write"
  /\ Goes(l, "forwarded")
  /\ backlog' = [backlog EXCEPT ![proc[l].seen] = Append(@, l)]
  /\ fate' = [fate EXCEPT ![l] = "waiting"]
  /\ UNCHANGED <<path, shell, gaps, inputs>>

\* write_all, to the listener it has connected to, unless that has closed or the request is
\* too long to encode: both count as an instance that cannot be reached.
Write(l) ==
  /\ proc[l].pc = "write"
  /\ IF Listens(proc[l].seen) /\ l \notin Oversize
     THEN /\ Goes(l, "forwarded")
          /\ backlog' = [backlog EXCEPT ![proc[l].seen] = Append(@, l)]
          /\ fate' = [fate EXCEPT ![l] = "waiting"]
     ELSE Goes(l, "inspect") /\ UNCHANGED <<backlog, fate>>
  /\ UNCHANGED <<path, shell, gaps, inputs>>

\* reject_non_socket
Inspect(l) ==
  /\ proc[l].pc = "inspect"
  /\ Goes(l, IF path \in {None, "file"} THEN "ended" ELSE "remove")
  /\ UNCHANGED <<path, backlog, shell, fate, gaps, inputs>>

RemoveSocket(l) ==
  /\ proc[l].pc = "remove"
  /\ Goes(l, IF path = None THEN "ended" ELSE "rebind")
  /\ path' = None
  /\ gaps' = gaps \cup (IF Listens(path) /\ path # proc[l].seen THEN {"raced"} ELSE {})
                  \cup (IF Listens(path) /\ l \in Oversize THEN {"oversize"} ELSE {})
  /\ UNCHANGED <<backlog, shell, fate, inputs>>

Rebind(l) == proc[l].pc = "rebind" /\ BindFree(l, "starting", "ended")

\* The runtime, the window or the listener's thread cannot be had: nobody unlinks the path.
StartFails(l) ==
  /\ Input /\ proc[l].pc = "starting" /\ Goes(l, "ended")
  /\ backlog' = [backlog EXCEPT ![l] = <<>>]
  /\ fate' = [m \in Launches |-> IF m \in {backlog[l][i] : i \in DOMAIN backlog[l]}
                                 THEN "lost" ELSE fate[m]]
  /\ UNCHANGED <<path, shell, gaps>>

Kill(l) ==
  /\ Input /\ proc[l].pc \notin {"none", "forwarded", "ended"} /\ Goes(l, "ended")
  /\ backlog' = [backlog EXCEPT ![l] = <<>>]
  /\ shell' = [shell EXCEPT ![l] = Unstarted]
  /\ fate' = [m \in Launches |->
       IF m \in {backlog[l][i] : i \in DOMAIN backlog[l]}
                \cup {shell[l].queue[i][2] : i \in DOMAIN shell[l].queue}
       THEN "lost" ELSE fate[m]]
  /\ UNCHANGED <<path, gaps>>

-----------------------------------------------------------------------------
(* Commands                                                                *)

\* AppClient::try_command
Tried(s, do, from) ==
  IF Len(s.queue) < Capacity /\ ~s.ending THEN [s EXCEPT !.queue = Append(@, <<do, from>>)] ELSE s

Queued(s, from) == \E i \in DOMAIN s.queue : s.queue[i][2] = from

\* dispatch_launch_request and queue_import_argument, each command on its own
Dispatched(s, l) ==
  LET shown == Tried(s, IF proc[l].show THEN "show" ELSE "hide", l)
  IN  IF l \in Importing THEN Tried(shown, "import", None) ELSE shown

\* The window, the backend with its first commands (a page and the core, which go by), the
\* launch's own request, the listener's thread and TrayHandle::new.
Start(l, spawned) ==
  /\ proc[l].pc = "starting" /\ Goes(l, "running")
  /\ shell' = [shell EXCEPT ![l] =
       [Dispatched(Unstarted, l) EXCEPT !.icon = spawned, !.closeToTray = spawned]]
  /\ UNCHANGED <<path, backlog, fate, gaps, inputs>>

\* listener_loop: one connection, to its end
Accept(l) ==
  /\ proc[l].pc \in {"running", "quitting"} /\ ~shell[l].deaf /\ backlog[l] # <<>>
  /\ LET from == Head(backlog[l])
         next == Dispatched(shell[l], from)
     IN  /\ shell' = [shell EXCEPT ![l] = next]
         /\ fate' = [fate EXCEPT ![from] = IF Queued(next, from) THEN "queued" ELSE "lost"]
  /\ backlog' = [backlog EXCEPT ![l] = Tail(@)]
  /\ UNCHANGED <<path, proc, gaps, inputs>>

\* accept fails, and the thread ends
ListenerFails(l) ==
  /\ Input /\ proc[l].pc = "running" /\ ~shell[l].deaf
  /\ shell' = [shell EXCEPT ![l].deaf = TRUE]
  /\ backlog' = [backlog EXCEPT ![l] = <<>>]
  /\ fate' = [m \in Launches |-> IF m \in {backlog[l][i] : i \in DOMAIN backlog[l]}
                                 THEN "lost" ELSE fate[m]]
  /\ gaps' = gaps \cup {"deaf"}
  /\ UNCHANGED <<path, proc>>

\* The coordinator's handler of one command
Handle(l) ==
  /\ proc[l].pc = "running" /\ shell[l].queue # <<>>
  /\ LET do == Head(shell[l].queue)[1]
         from == Head(shell[l].queue)[2]
         rest == [shell[l] EXCEPT !.queue = Tail(@)]
     IN  /\ shell' = [shell EXCEPT ![l] =
              CASE do = "show"     -> [rest EXCEPT !.visible = TRUE, !.closed = FALSE]
                [] do = "hide"     -> [rest EXCEPT !.visible = FALSE,
                                         !.closed = (from = None) \/ (rest.closed /\ ~rest.visible)]
                [] do = "toggle"   -> [rest EXCEPT !.visible = ~@, !.closed = FALSE]
                [] do = "import"   -> rest
                [] do = "shutdown" -> [rest EXCEPT !.queue = <<>>, !.ending = TRUE]]
         /\ fate' = [m \in Launches |->
              IF m = from THEN "served"
              ELSE IF do = "shutdown" /\ Queued(rest, m) THEN "lost" ELSE fate[m]]
  /\ UNCHANGED <<path, proc, backlog, gaps, inputs>>

-----------------------------------------------------------------------------
(* The window, the icon and the shortcuts                                  *)

\* Whether a hidden window, or one whose hiding is under way, loses its icon.
Hiding(s) == s.closed \/ \E i \in DOMAIN s.queue : s.queue[i] = <<"hide", None>>

\* The settings worker's view of settings.yaml has changed.
Configure(l, choice) ==
  /\ \A setting \in DOMAIN choice \ Varied : choice[setting] = Default[setting]
  /\ Input /\ proc[l].pc = "running" /\ choice # shell[l].settings
  /\ shell' = [shell EXCEPT ![l].settings = choice]
  /\ gaps' = gaps \cup (IF ~choice.tray /\ Hiding(shell[l]) THEN {"turned off"} ELSE {})
  /\ UNCHANGED <<path, proc, backlog, fate>>

\* TrayHandle::sync, of a handle that could be made at the start
Synced(s, spawned) ==
  IF ~s.closeToTray \/ (s.settings.tray = s.synced.tray /\ s.settings.menu = s.synced.menu)
  THEN s
  ELSE [s EXCEPT !.synced = s.settings, !.icon = s.settings.tray /\ spawned]

\* The icon is wanted and there is a handle, but no icon.
Iconless(s) == s.closeToTray /\ s.synced.tray /\ ~s.icon

\* RsClashUi::logic: what it shows of the window; then the icon, in the same frame.
Frame(l, spawned) ==
  /\ proc[l].pc = "running" /\ ~shell[l].ending
  /\ LET next == Synced([shell[l] EXCEPT !.applied = shell[l].visible], spawned)
     IN  /\ next # shell[l]
         /\ shell' = [shell EXCEPT ![l] = next]
         /\ gaps' = IF Iconless(next) THEN gaps \cup {"iconless"} ELSE gaps
  /\ UNCHANGED <<path, proc, backlog, fate, inputs>>

\* Mutant: closing hides whenever the settings want an icon.
TrayWanted(s) == s.settings.tray

\* tray_is_available
TrayIsAvailable(s) == s.closeToTray /\ s.settings.tray

\* A frame in which the window is closed: into the tray, or the end.
Close(l, spawned) ==
  /\ Input /\ proc[l].pc = "running" /\ shell[l].applied /\ ~shell[l].ending
  /\ LET shown == [shell[l] EXCEPT !.applied = shell[l].visible]
         next == Synced(Tried(shown, IF TrayIsAvailable(shown) THEN "hide" ELSE "shutdown", None),
                        spawned)
     IN  /\ shell' = [shell EXCEPT ![l] = next]
         /\ gaps' = IF Iconless(next) THEN gaps \cup {"iconless"} ELSE gaps
  /\ IF TrayIsAvailable(shell[l]) THEN UNCHANGED proc ELSE Goes(l, "quitting")
  /\ UNCHANGED <<path, backlog, fate>>

\* A click on the icon, or an entry of its menu
Tray(l, do) ==
  /\ Input /\ proc[l].pc = "running" /\ shell[l].icon
  /\ shell' = [shell EXCEPT ![l] = Tried(@, do, None)]
  /\ UNCHANGED <<path, proc, backlog, fate, gaps>>

\* supervise: the portal is asked again only when the setting changes.
Supervise(l) ==
  /\ proc[l].pc = "running" /\ shell[l].settings.hotkeys # shell[l].hotkeys
  /\ shell' = [shell EXCEPT ![l] = [@ EXCEPT !.hotkeys = ~shell[l].hotkeys,
                                             !.portal = IF shell[l].hotkeys THEN "none" ELSE "asked"]]
  /\ UNCHANGED <<path, proc, backlog, fate, gaps, inputs>>

\* portal_session: bound, or refused.
PortalAnswers(l, answer) ==
  /\ proc[l].pc = "running" /\ shell[l].portal = "asked"
  /\ shell' = [shell EXCEPT ![l].portal = answer]
  /\ UNCHANGED <<path, proc, backlog, fate, gaps, inputs>>

\* dispatch: a command that finds no room ends the session.
Shortcut(l) ==
  /\ Input /\ proc[l].pc = "running" /\ shell[l].portal = "bound"
  /\ shell' = [shell EXCEPT ![l] =
       IF Len(@.queue) < Capacity /\ ~@.ending THEN Tried(@, "toggle", None)
       ELSE [@ EXCEPT !.portal = "none"]]
  /\ UNCHANGED <<path, proc, backlog, fate, gaps>>

-----------------------------------------------------------------------------
(* The end of an instance                                                  *)

\* The frame after the status ShuttingDown
Quit(l) ==
  /\ proc[l].pc = "running" /\ shell[l].ending /\ Goes(l, "quitting")
  /\ UNCHANGED <<path, backlog, shell, fate, gaps, inputs>>

\* DesktopApp's drop has ended the backend; InstanceHandle's drop ends the thread.
Stop(l) ==
  /\ proc[l].pc = "quitting" /\ Goes(l, "closed")
  /\ backlog' = [backlog EXCEPT ![l] = <<>>]
  /\ shell' = [shell EXCEPT ![l] = Unstarted]
  /\ fate' = [m \in Launches |->
       IF m \in {backlog[l][i] : i \in DOMAIN backlog[l]} \/ Queued(shell[l], m)
       THEN "lost" ELSE fate[m]]
  /\ UNCHANGED <<path, gaps, inputs>>

\* ... and removes what is at the path by then.
Unlink(l) ==
  /\ proc[l].pc = "closed" /\ Goes(l, "ended")
  /\ path' = None
  /\ gaps' = gaps \cup (IF Listens(path) THEN {"unlinked"} ELSE {})
  /\ UNCHANGED <<backlog, shell, fate, inputs>>

-----------------------------------------------------------------------------
Progress(l) ==
  \/ Bind(l) \/ Connect(l) \/ Write(l) \/ Inspect(l) \/ RemoveSocket(l) \/ Rebind(l)
  \/ (\E spawned \in BOOLEAN : Start(l, spawned))
  \/ Accept(l) \/ Handle(l) \/ Quit(l) \/ Stop(l) \/ Unlink(l)

Next ==
  \E l \in Launches :
    \/ Progress(l) \/ Supervise(l)
    \/ \E show \in BOOLEAN : Launch(l, show)
    \/ StartFails(l) \/ Kill(l) \/ ListenerFails(l) \/ Shortcut(l)
    \/ \E choice \in Choices : Configure(l, choice)
    \/ \E spawned \in BOOLEAN : Frame(l, spawned) \/ Close(l, spawned)
    \/ \E do \in {"toggle", "shutdown"} : Tray(l, do)
    \/ \E answer \in {"bound", "none"} : PortalAnswers(l, answer)

Spec == Init /\ [][Next]_vars

-----------------------------------------------------------------------------
(* Properties                                                              *)

\* Two processes run a backend, with its core and its files, at once only where it has come to
\* one of four: two launches found the same stale socket and the second removed what the first
\* had bound ("raced"), an ending instance removed the socket of the next ("unlinked"), a launch
\* took a request too long to encode for an instance out of reach ("oversize"), an instance
\* stopped listening while it ran ("deaf").
OnePrimary ==
  \A l, m \in Launches : Primary(l) /\ Primary(m) /\ l # m
                         => gaps \cap {"raced", "unlinked", "oversize", "deaf"} # {}

\* Closing hides the window only where an icon is wanted and a handle for it was made at the
\* start, so that a window the user has closed can be had back from the icon, except where the
\* icon could not be shown again ("iconless") or its setting was turned off ("turned off").
ClosedWindowHasIcon ==
  \A l \in Launches : shell[l].closed /\ ~shell[l].visible
                      => shell[l].icon \/ gaps \cap {"iconless", "turned off"} # {}

\* Whatever has hidden a window, and whether there is an icon or not, the next launch finds
\* its instance at the path and listening, to be told to show it; with the exceptions of
\* OnePrimary.
HiddenWindowIsInReach ==
  \A l \in Launches : Primary(l) /\ ~shell[l].visible
                      => \/ path = l /\ Listens(l)
                         \/ gaps \cap {"raced", "unlinked", "oversize", "deaf"} # {}

\* A request that has been forwarded, so that its process ends with success, is heard: it waits
\* where somebody still listens, once, until it is carried out, or lost: with the instance or
\* its listener, or because the coordinator's queue was full when it was accepted.
EveryLaunchIsHeard ==
  \A l \in Launches :
    LET waits == {m \in Launches : \E i \in DOMAIN backlog[m] : backlog[m][i] = l}
        queued == {m \in Launches : Queued(shell[m], l)}
    IN  /\ fate[l] = "waiting" => \E m \in Launches : waits = {m} /\ Listens(m)
        /\ fate[l] = "queued" => \E m \in Launches : queued = {m} /\ Primary(m)

=============================================================================
