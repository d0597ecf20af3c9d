---------------------------- MODULE ProfileEditors ----------------------------
(***************************************************************************)
(* The editors of the Profiles page (rsclash-ui): a YAML editor and a      *)
(* visual one for sequences, of which at most one is open, on a copy of a  *)
(* file the profile worker loads and saves (profiles.rs).  A request goes  *)
(* through the coordinator to the worker, its answer comes back as an      *)
(* event (lib.rs); the user interface reads the newest snapshot and the    *)
(* events at the start of each frame, and between two frames the world     *)
(* goes on.  The rule generator opens the sequence editor of the current   *)
(* profile's rules and leaves its rule to be appended when the file comes. *)
(*                                                                         *)
(* The content of a file is the set of the edits that are in it; its text  *)
(* and the lanes of a sequence are left out.  A refused or failed request  *)
(* is announced through the snapshot alone.  An event may be lost: the     *)
(* channel keeps the newest of all the application's.                      *)
(*                                                                         *)
(* History: `made' are the edits the user has typed or generated, `given   *)
(* up' those whose editor the user closed.  `gaps' notes what the          *)
(* properties exclude: an edit that came into an editor while a save of    *)
(* its file was under way, or a save while a load was ("crossed"), a       *)
(* subscription that was updated ("updated"), a file that came while       *)
(* another had unsaved edits ("replaced"), a rule that was made while      *)
(* another waited for its file ("superseded").                             *)
(***************************************************************************)
EXTENDS Naturals, Sequences, FiniteSets

CONSTANTS
  Profiles,   \* each with a file of its own and a file of rules
  Remote,     \* those that a subscription updates
  Edits,      \* what the user types or generates
  Capacity,   \* of the worker's channel of commands
  MaxInputs,  \* bound on what the user does and what fails
  None        \* Option::None

Uids == Profiles \X {"source", "rules"}
RulesOf(p) == <<p, "rules">>
Editor == [uid : Uids, visual : BOOLEAN, content : SUBSET Edits, dirty : BOOLEAN]
Requests ==
  [do : {"load", "save", "activate", "update"}, uid : Uids, content : SUBSET Edits]

EditorAssumption ==
  /\ Remote \subseteq Profiles
  /\ None \notin Edits \cup Uids \cup Editor \cup Requests
  /\ Capacity \in Nat \ {0} /\ MaxInputs \in Nat

VARIABLES
  files,     \* the files of the store
  current,   \* the current profile
  requests,  \* the worker's channel of commands
  job,       \* the command it is at, with its outcome
  bridge,    \* its events on their way to the coordinator
  screen,    \* the coordinator's snapshot of the profiles
  news,      \* the application's events that the interface has not read
  ui,        \* RsClashUi
  made,      \* history: the edits the user has made
  givenUp,   \* history: the edits the user gave up
  gaps,      \* history: what the properties exclude
  inputs     \* how many inputs there have been

vars == <<files, current, requests, job, bridge, screen, news, ui, made, givenUp, gaps, inputs>>

Shown == [busy : BOOLEAN, current : Profiles]

TypeOK ==
  /\ files \in [Uids -> SUBSET Edits] /\ current \in Profiles
  /\ Len(requests) <= Capacity
  /\ screen \in Shown /\ ui.snap \in Shown
  /\ ui.editor \in Editor \cup {None} /\ ui.pending \in Uids \cup {None}
  /\ ui.rule \in Edits \cup {None} /\ ui.confirm \in BOOLEAN
  /\ made \cup givenUp \subseteq Edits

Init ==
  /\ files = [u \in Uids |-> {}]
  /\ current \in Profiles
  /\ requests = <<>> /\ job = None /\ bridge = <<>> /\ news = <<>>
  /\ screen = [busy |-> FALSE, current |-> current]
  /\ ui = [snap |-> screen, editor |-> None, pending |-> None, rule |-> None, confirm |-> FALSE]
  /\ made = {} /\ givenUp = {} /\ gaps = {} /\ inputs = 0

Input == inputs < MaxInputs /\ inputs' = inputs + 1

\* dispatch_profile: a command that finds no room is refused.
Requested(request) == IF Len(requests) < Capacity THEN Append(requests, request) ELSE requests

-----------------------------------------------------------------------------
(* The user, in a frame of the interface                                   *)

Content(editor) == IF editor = None THEN {} ELSE editor.content
Unsaved == ui.editor # None /\ ui.editor.dirty

\* open_profile_editor: a click on an entry of a profile's menu or on a card
OpenProfileEditor(u) ==
  /\ Input /\ ~ui.snap.busy
  /\ ui' = [ui EXCEPT !.pending = None]
  /\ requests' = Requested([do |-> "load", uid |-> u, content |-> {}])
  /\ UNCHANGED <<files, current, job, bridge, screen, news, made, givenUp, gaps>>

\* open_sequence_editor, from the menu
OpenSequenceEditor(u) ==
  /\ Input /\ ~ui.snap.busy /\ u[2] = "rules"
  /\ ui' = [ui EXCEPT !.pending = u]
  /\ requests' = Requested([do |-> "load", uid |-> u, content |-> {}])
  /\ UNCHANGED <<files, current, job, bridge, screen, news, made, givenUp, gaps>>

Answer(do) == IF do = "load" THEN "loaded" ELSE "saved"

\* A load or a save of the file whose answer the interface has not seen.
UnderWay(do, u) ==
  \/ \E i \in DOMAIN requests : requests[i].do = do /\ requests[i].uid = u
  \/ job # None /\ job.do = do /\ job.uid = u
  \/ \E i \in DOMAIN bridge : bridge[i].do = Answer(do) /\ bridge[i].uid = u
  \/ \E i \in DOMAIN news : news[i].do = Answer(do) /\ news[i].uid = u

\* rule_tools_dialog: the generator is not disabled while the worker is busy.
AppendRule(e) ==
  /\ Input /\ e \notin made
  /\ LET u == RulesOf(ui.snap.current)
     IN  /\ ui' = [ui EXCEPT !.rule = e, !.pending = u]
         /\ requests' = Requested([do |-> "load", uid |-> u, content |-> {}])
  /\ made' = made \cup {e}
  /\ gaps' = IF ui.rule = None THEN gaps ELSE gaps \cup {"superseded"}
  /\ UNCHANGED <<files, current, job, bridge, screen, news, givenUp>>

Type(e) ==
  /\ Input /\ ui.editor # None /\ ~ui.snap.busy /\ e \notin made
  /\ made' = made \cup {e}
  /\ ui' = [ui EXCEPT !.editor.content = @ \cup {e}, !.editor.dirty = TRUE, !.confirm = FALSE]
  /\ gaps' = IF UnderWay("save", ui.editor.uid) THEN gaps \cup {"crossed"} ELSE gaps
  /\ UNCHANGED <<files, current, requests, job, bridge, screen, news, givenUp>>

Save ==
  /\ Input /\ Unsaved /\ ~ui.snap.busy
  /\ requests' = Requested([do |-> "save", uid |-> ui.editor.uid, content |-> ui.editor.content])
  /\ gaps' = IF UnderWay("load", ui.editor.uid) THEN gaps \cup {"crossed"} ELSE gaps
  /\ UNCHANGED <<files, current, job, bridge, screen, news, ui, made, givenUp>>

\* Mutant: the first click closes an editor whatever is in it.
CloseAtOnce ==
  /\ Input /\ ui.editor # None /\ ~ui.snap.busy
  /\ ui' = [ui EXCEPT !.editor = None, !.confirm = FALSE]
  /\ givenUp' = IF ui.confirm THEN givenUp \cup ui.editor.content ELSE givenUp
  /\ UNCHANGED <<files, current, requests, job, bridge, screen, news, made, gaps>>

\* The button that closes an editor asks first when there are unsaved edits.
Close ==
  /\ Input /\ ui.editor # None /\ ~ui.snap.busy
  /\ IF ui.editor.dirty /\ ~ui.confirm
     THEN ui' = [ui EXCEPT !.confirm = TRUE] /\ UNCHANGED givenUp
     ELSE /\ ui' = [ui EXCEPT !.editor = None, !.confirm = FALSE]
          /\ givenUp' = IF ui.editor.dirty THEN givenUp \cup ui.editor.content ELSE givenUp
  /\ UNCHANGED <<files, current, requests, job, bridge, screen, news, made, gaps>>

\* "keep editing"
CancelClose ==
  /\ Input /\ Unsaved /\ ui.confirm /\ ~ui.snap.busy
  /\ ui' = [ui EXCEPT !.confirm = FALSE]
  /\ UNCHANGED <<files, current, requests, job, bridge, screen, news, made, givenUp, gaps>>

\* What else keeps the worker busy: another profile is selected, a subscription updated.
Command(do, p) ==
  /\ Input /\ ~ui.snap.busy /\ (do = "update" => p \in Remote)
  /\ requests' = Requested([do |-> do, uid |-> <<p, "source">>, content |-> {}])
  /\ UNCHANGED <<files, current, job, bridge, screen, news, ui, made, givenUp, gaps>>

-----------------------------------------------------------------------------
(* The start of a frame                                                    *)

OnSaved(u, event) ==
  IF u.editor # None /\ u.editor.uid = event.uid THEN [u EXCEPT !.editor.dirty = FALSE] ELSE u

\* A file that has been loaded is opened in the editor that asked for it last, in place of
\* what is open, unless that is the visual one and cannot parse it; a pending rule goes to
\* whichever sequence comes next.
OnLoaded(u, event) ==
  LET visual == u.pending = event.uid
      rule == IF visual /\ u.rule # None THEN {u.rule} ELSE {}
  IN  IF visual /\ ~event.parses
      THEN [u EXCEPT !.pending = None]
      ELSE [u EXCEPT !.pending = None, !.confirm = FALSE, !.rule = IF visual THEN None ELSE @,
                     !.editor = [uid |-> event.uid, visual |-> visual,
                                 content |-> event.content \cup rule, dirty |-> rule # {}]]

OnEvent(u, event) == IF event.do = "loaded" THEN OnLoaded(u, event) ELSE OnSaved(u, event)

\* RsClashUi::logic: the newest snapshot, then the events in their order.
After[i \in Nat] ==
  IF i = 0 THEN [ui EXCEPT !.snap = screen] ELSE OnEvent(After[i - 1], news[i])

Lost(u, event) ==
  /\ event.do = "loaded" /\ u.editor # None /\ u.editor.dirty
  /\ event.parses \/ u.pending # event.uid

Frame ==
  /\ ui.snap # screen \/ news # <<>>
  /\ ui' = After[Len(news)]
  /\ news' = <<>>
  /\ gaps' = IF \E i \in DOMAIN news : Lost(After[i - 1], news[i])
             THEN gaps \cup {"replaced"} ELSE gaps
  /\ UNCHANGED <<files, current, requests, job, bridge, screen, made, givenUp, inputs>>

-----------------------------------------------------------------------------
(* The coordinator and the profile worker                                  *)

\* handle_profile_event
HandleProfileEvent ==
  /\ bridge # <<>> /\ bridge' = Tail(bridge)
  /\ IF Head(bridge).do = "snapshot"
     THEN screen' = Head(bridge).snap /\ UNCHANGED news
     ELSE news' = Append(news, Head(bridge)) /\ UNCHANGED screen
  /\ UNCHANGED <<files, current, requests, job, ui, made, givenUp, gaps, inputs>>

Snapshot(busy, p) == [do |-> "snapshot", snap |-> [busy |-> busy, current |-> p]]

Begin ==
  /\ job = None /\ requests # <<>>
  /\ job' = Head(requests) /\ requests' = Tail(requests)
  /\ bridge' = Append(bridge, Snapshot(TRUE, current))
  /\ UNCHANGED <<files, current, screen, news, ui, made, givenUp, gaps, inputs>>

\* The channel of the application's events has let go of the oldest.
Lag ==
  /\ Input /\ news # <<>> /\ news' = Tail(news)
  /\ UNCHANGED <<files, current, requests, job, bridge, screen, ui, made, givenUp, gaps>>

\* handle_command and handle_content: the event of a success comes before the snapshot that
\* ends the operation.  What is loaded may be no sequence, for the visual editor.
Succeed(parses) ==
  /\ job # None /\ job' = None
  /\ IF parses THEN UNCHANGED inputs ELSE Input /\ job.do = "load"
  /\ files' = CASE job.do = "save"   -> [files EXCEPT ![job.uid] = job.content]
                [] job.do = "update" -> [files EXCEPT ![job.uid] = {}]
                [] OTHER -> files
  /\ current' = IF job.do = "activate" THEN job.uid[1] ELSE current
  /\ bridge' = bridge
       \o (CASE job.do = "load" -> <<[do |-> "loaded", uid |-> job.uid,
                                      content |-> files[job.uid], parses |-> parses]>>
             [] job.do = "save" -> <<[do |-> "saved", uid |-> job.uid]>>
             [] OTHER -> <<>>)
       \o <<Snapshot(FALSE, current')>>
  /\ gaps' = IF job.do = "update" THEN gaps \cup {"updated"} ELSE gaps
  /\ UNCHANGED <<requests, screen, news, ui, made, givenUp>>

\* Mutant: the event goes out whatever the outcome.
FailSayingSaved ==
  /\ Input /\ job # None /\ job' = None
  /\ bridge' = bridge \o (IF job.do = "save" THEN <<[do |-> "saved", uid |-> job.uid]>> ELSE <<>>)
                      \o <<Snapshot(FALSE, current)>>
  /\ UNCHANGED <<files, current, requests, screen, news, ui, made, givenUp, gaps>>

\* ... of a failure there is no event of its own, and a failed save leaves the file as it was.
Fail ==
  /\ Input /\ job # None /\ job' = None
  /\ bridge' = Append(bridge, Snapshot(FALSE, current))
  /\ UNCHANGED <<files, current, requests, screen, news, ui, made, givenUp, gaps>>

-----------------------------------------------------------------------------
Next ==
  \/ \E u \in Uids : OpenProfileEditor(u) \/ OpenSequenceEditor(u)
  \/ \E e \in Edits : AppendRule(e) \/ Type(e)
  \/ Save \/ Close \/ CancelClose
  \/ \E do \in {"activate", "update"}, p \in Profiles : Command(do, p)
  \/ Frame \/ HandleProfileEvent \/ Lag \/ Begin \/ Fail
  \/ \E parses \in BOOLEAN : Succeed(parses)

Spec == Init /\ [][Next]_vars

-----------------------------------------------------------------------------
(* Properties                                                              *)

\* An editor without unsaved edits shows what is stored: the mark is not lost to a save that
\* fails or is refused, to the answer of a request for another file, to a load that comes late
\* or an event that does not come.  It is lost where edits and a save of the same file, or a
\* save and a load of it, overlap ("crossed"), and when a subscription is updated.
CleanMeansStored ==
  ui.editor # None /\ ~ui.editor.dirty /\ gaps \cap {"crossed", "updated"} = {}
  => ui.editor.content = files[ui.editor.uid]

\* No edit vanishes: all that the user has typed or generated is in the editor, waits for it, is
\* in a file, from which no later save takes it, or has been given up when its editor was closed.
\* An edit does vanish with a file that replaces unsaved edits and a rule that supersedes one
\* that waits, or by the overlaps that CleanMeansStored names.
NoEditVanishes ==
  gaps = {} => \A e \in made :
    e \in Content(ui.editor) \cup {ui.rule} \cup givenUp \cup UNION {files[u] : u \in Uids}

=============================================================================
