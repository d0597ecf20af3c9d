----------------------------- MODULE SettingsDraft -----------------------------
(***************************************************************************)
(* Who writes the application's settings: the Settings page with its draft *)
(* and the buttons of the Home page (rsclash-ui), the tray's menu and the  *)
(* shortcuts (tray.rs, global_shortcuts.rs), each with ALL of the settings *)
(* as it knows them, and the system proxy, which changes one.  The         *)
(* settings worker (settings.rs) carries the requests out one by one and   *)
(* publishes its view; the coordinator (lib.rs) publishes it and then      *)
(* emits SettingsChanged, and the interface takes the newest snapshot at   *)
(* the start of a frame and reads the events next.                         *)
(*                                                                         *)
(* A field of the settings is one that the page edits or the system        *)
(* proxy's; values are two.  What an application of the settings does to   *)
(* the runtime is RuntimeDeployment's; here it succeeds, or fails and puts *)
(* the file back, or cannot.                                               *)
(*                                                                         *)
(* History `gaps': a file that could not be put back ("unrestored") or     *)
(* read ("unread"), a SettingsChanged that was read in a frame whose       *)
(* snapshot was no longer the newest ("overtaken") or that the events'     *)
(* channel let go ("lagged").                                              *)
(***************************************************************************)
EXTENDS Naturals, Sequences

CONSTANTS
  Edited,     \* the fields that the page edits
  Proxy,      \* system_proxy_enabled
  Toggled,    \* the field that has buttons and menu entries of its own
  Capacity,   \* of the worker's channel of commands
  MaxInputs,  \* bound on what the user does and what fails
  None        \* Option::None

Fields == Edited \cup {Proxy}
Value == [Fields -> BOOLEAN]
View == [value : Value, busy : BOOLEAN]
Requests ==
  [do : {"apply"}, with : Value, from : Value, asked : SUBSET Edited]
  \cup [do : {"refresh"}] \cup [do : {"persist"}, enabled : BOOLEAN]

DraftAssumption ==
  /\ Toggled \in Edited /\ Proxy \notin Edited /\ None \notin Requests
  /\ Capacity \in Nat \ {0} /\ MaxInputs \in Nat

VARIABLES
  file,      \* settings.yaml
  requests,  \* the worker's channel of commands
  job,       \* the command it is at
  worker,    \* SettingsSnapshot: the value it knows and whether it is busy
  bridge,    \* its snapshots on their way to the coordinator
  screen,    \* the coordinator's
  news,      \* SettingsChanged: "due" from the coordinator, "sent" to the interface
  ui,        \* the interface: its snapshot, the draft, settings_dirty, whether the events of
             \* the frame are still to be read, and (history) the settings the draft was made
             \* from and the fields the user has touched since
  gaps,      \* history: what the properties exclude
  inputs     \* how many inputs there have been

vars == <<file, requests, job, worker, bridge, screen, news, ui, gaps, inputs>>

TypeOK ==
  /\ file \in Value /\ worker \in View /\ screen \in View
  /\ Len(requests) <= Capacity
  /\ news \subseteq {"due", "sent"}
  /\ ui.snap \in View /\ ui.draft \in Value /\ ui.base \in Value
  /\ ui.dirty \in BOOLEAN /\ ui.reading \in BOOLEAN /\ ui.touched \subseteq Edited

Init ==
  /\ file = [f \in Fields |-> FALSE]
  /\ requests = <<>> /\ job = None /\ bridge = <<>> /\ news = {}
  /\ worker = [value |-> file, busy |-> FALSE] /\ screen = worker
  /\ ui = [snap |-> screen, draft |-> screen.value, dirty |-> FALSE, reading |-> FALSE,
            base |-> screen.value, touched |-> {}]
  /\ gaps = {} /\ inputs = 0

Input == inputs < MaxInputs /\ inputs' = inputs + 1

\* ApplySettings of `with', by somebody who saw `from' and means to change the fields `asked'
Apply(with, from, asked) == [do |-> "apply", with |-> with, from |-> from, asked |-> asked]

Requested(request) == IF Len(requests) < Capacity THEN Append(requests, request) ELSE requests

Flipped(value, f) == [value EXCEPT ![f] = ~@]

-----------------------------------------------------------------------------
(* The user, in a frame of the interface, or at the tray                   *)

\* The draft made anew, from what the interface shows.
Fresh(u) ==
  [u EXCEPT !.draft = u.snap.value, !.dirty = FALSE, !.base = u.snap.value, !.touched = {}]

\* settings: a change of the draft, which is possible while the worker is busy, too
Edit(f) ==
  /\ Input /\ ~ui.reading
  /\ LET draft == Flipped(ui.draft, f)
     IN  ui' = IF draft = ui.snap.value THEN Fresh(ui)
               ELSE [ui EXCEPT !.draft = draft, !.dirty = TRUE, !.touched = @ \cup {f}]
  /\ UNCHANGED <<file, requests, job, worker, bridge, screen, news, gaps>>

SaveDraft ==
  /\ Input /\ ~ui.reading /\ ~ui.snap.busy /\ ui.dirty
  /\ requests' = Requested(Apply(ui.draft, ui.base, ui.touched))
  /\ UNCHANGED <<file, job, worker, bridge, screen, news, ui, gaps>>

DiscardDraft ==
  /\ Input /\ ~ui.reading /\ ~ui.snap.busy /\ ui.dirty
  /\ ui' = Fresh(ui)
  /\ UNCHANGED <<file, requests, job, worker, bridge, screen, news, gaps>>

\* Mutant: the button of the Home page sends the draft with its field toggled.
ToggleInDraft(view) ==
  /\ Input
  /\ requests' = Requested(Apply(Flipped(ui.draft, Toggled), view.value, {Toggled}))
  /\ UNCHANGED <<file, job, worker, bridge, screen, news, ui, gaps>>

\* home_network, with the interface's snapshot; the tray and the shortcuts, with the newest
Toggle(view) ==
  /\ Input
  /\ requests' = Requested(Apply(Flipped(view.value, Toggled), view.value, {Toggled}))
  /\ UNCHANGED <<file, job, worker, bridge, screen, news, ui, gaps>>

RefreshSettings ==
  /\ Input /\ requests' = Requested([do |-> "refresh"])
  /\ UNCHANGED <<file, job, worker, bridge, screen, news, ui, gaps>>

\* EnabledChanged: the system proxy has been turned on or off.
ProxyChanges(enabled) ==
  /\ Input /\ requests' = Requested([do |-> "persist", enabled |-> enabled])
  /\ UNCHANGED <<file, job, worker, bridge, screen, news, ui, gaps>>

-----------------------------------------------------------------------------
(* The settings worker                                                     *)

Publish(view) == worker' = view /\ bridge' = Append(bridge, view)

Begin ==
  /\ job = None /\ requests # <<>>
  /\ job' = Head(requests) /\ requests' = Tail(requests)
  /\ IF Head(requests).do = "apply"
     THEN Publish([worker EXCEPT !.busy = TRUE])
     ELSE UNCHANGED <<worker, bridge>>
  /\ UNCHANGED <<file, screen, news, ui, gaps, inputs>>

\* apply, and the refresh that ends it
Applied ==
  /\ job # None /\ job.do = "apply" /\ job' = None
  /\ file' = job.with
  /\ Publish([value |-> job.with, busy |-> FALSE])
  /\ UNCHANGED <<requests, screen, news, ui, gaps, inputs>>

\* ... or fail: the compensation of settings.yaml may fail as well.
NotApplied(restored) ==
  /\ Input /\ job # None /\ job.do = "apply" /\ job' = None
  /\ file' = IF restored THEN file ELSE job.with
  /\ Publish([worker EXCEPT !.busy = FALSE])
  /\ gaps' = IF restored THEN gaps ELSE gaps \cup {"unrestored"}
  /\ UNCHANGED <<requests, screen, news, ui>>

\* persist_system_proxy
PersistSystemProxy ==
  /\ job # None /\ job.do = "persist" /\ job' = None
  /\ file' = [file EXCEPT ![Proxy] = job.enabled]
  /\ Publish([worker EXCEPT !.value = file'])
  /\ UNCHANGED <<requests, screen, news, ui, gaps, inputs>>

\* refresh
Refreshed ==
  /\ job # None /\ job.do = "refresh" /\ job' = None
  /\ Publish([value |-> file, busy |-> FALSE])
  /\ UNCHANGED <<file, requests, screen, news, ui, gaps, inputs>>

\* fail, of what has changed nothing
FailsToRead ==
  /\ Input /\ job # None /\ job.do \in {"persist", "refresh"} /\ job' = None
  /\ Publish([worker EXCEPT !.busy = FALSE])
  /\ gaps' = gaps \cup {"unread"}
  /\ UNCHANGED <<file, requests, screen, news, ui>>

-----------------------------------------------------------------------------
(* The coordinator and the interface                                       *)

\* handle_settings_event: the snapshot is published ...
HandleSettingsEvent ==
  /\ "due" \notin news /\ bridge # <<>> /\ bridge' = Tail(bridge)
  /\ screen' = Head(bridge) /\ news' = news \cup {"due"}
  /\ UNCHANGED <<file, requests, job, worker, ui, gaps, inputs>>

\* ... before the event is emitted.
EmitSettingsChanged ==
  /\ "due" \in news /\ news' = {"sent"}
  /\ UNCHANGED <<file, requests, job, worker, bridge, screen, ui, gaps, inputs>>

\* The channel of the application's events has let go of the oldest.
Lag ==
  /\ Input /\ "sent" \in news /\ news' = news \ {"sent"}
  /\ gaps' = gaps \cup {"lagged"}
  /\ UNCHANGED <<file, requests, job, worker, bridge, screen, ui>>

\* RsClashUi::logic: the newest snapshot, which a clean draft follows ...
TakeSnapshot ==
  /\ ~ui.reading /\ (ui.snap # screen \/ "sent" \in news)
  /\ ui' = LET next == [ui EXCEPT !.snap = screen, !.reading = TRUE]
           IN  IF ui.dirty THEN next ELSE Fresh(next)
  /\ UNCHANGED <<file, requests, job, worker, bridge, screen, news, gaps, inputs>>

\* ... and the events of the frame: SettingsChanged ends any other draft, unless the snapshot
\* says that the worker is busy.
ReadEvents ==
  /\ ui.reading
  /\ ui' = LET next == [ui EXCEPT !.reading = FALSE]
           IN  IF "sent" \in news /\ ~ui.snap.busy THEN Fresh(next) ELSE next
  /\ news' = news \ {"sent"}
  /\ gaps' = IF "sent" \in news /\ ui.snap # screen THEN gaps \cup {"overtaken"} ELSE gaps
  /\ UNCHANGED <<file, requests, job, worker, bridge, screen, inputs>>

-----------------------------------------------------------------------------
Next ==
  \/ \E f \in Edited : Edit(f)
  \/ SaveDraft \/ DiscardDraft \/ RefreshSettings
  \/ Toggle(ui.snap) \/ Toggle(screen)
  \/ \E enabled \in BOOLEAN : ProxyChanges(enabled)
  \/ Begin \/ Applied \/ PersistSystemProxy \/ Refreshed \/ FailsToRead
  \/ \E restored \in BOOLEAN : NotApplied(restored)
  \/ HandleSettingsEvent \/ EmitSettingsChanged \/ Lag \/ TakeSnapshot \/ ReadEvents

Spec == Init /\ [][Next]_vars

-----------------------------------------------------------------------------
(* Properties                                                              *)

Quiet ==
  /\ requests = <<>> /\ job = None /\ bridge = <<>>
  /\ news = {} /\ ~ui.reading /\ ui.snap = screen

\* What the page shows is what the file holds, once everything under way has come to its end:
\* nobody is left busy, and a draft with changes was made from the file, so that saving it
\* writes no old value back.  A draft may have outlived the settings it was made from if their
\* SettingsChanged was read under an older snapshot ("overtaken") or was lost ("lagged").
PageShowsTheFile ==
  Quiet /\ "unrestored" \notin gaps
  => /\ ui.snap.value = file /\ ~ui.snap.busy
     /\ ~ui.dirty => ui.draft = file
     /\ ui.dirty => ui.base = file \/ gaps \cap {"overtaken", "lagged"} # {}

\* A request carries all of the settings, and changes those that its author touched: a field
\* changes only because somebody asked for it.  So it is of a request made from what the file
\* holds when it is carried out; one that others have overtaken writes their fields back.
FieldsKept ==
  \A f \in Fields :
    file'[f] # file[f] /\ job.do = "apply" /\ job.from = file => f \in job.asked

OthersFieldsSurvive == [][FieldsKept]_vars

=============================================================================
