------------------------------- MODULE MCDesktop -------------------------------
(***************************************************************************)
(* The desktop process in one run: which process it is and what its window *)
(* does (DesktopShell), the editors (ProfileEditors) and the settings page *)
(* (SettingsDraft).  They share no state of the program, so a behaviour is *)
(* one of a single part; the variables that others need stand still.       *)
(***************************************************************************)
EXTENDS DesktopShell

CONSTANTS Profiles, Remote, Edits, Edited, Proxy, Toggled, PageInputs

VARIABLES
  part,                                       \* the part that is in play
  files, current, made, givenUp,              \* of ProfileEditors
  file, worker,                               \* of SettingsDraft
  requests, job, bridge, screen, news, ui     \* of either

Editors == INSTANCE ProfileEditors WITH MaxInputs <- PageInputs
Draft == INSTANCE SettingsDraft WITH MaxInputs <- PageInputs

ASSUME PagesAssumption == Editors!EditorAssumption /\ Draft!DraftAssumption

ofShell == <<path, proc, backlog, shell, fate>>
ofEditors == <<files, current, made, givenUp>>
ofDraft == <<file, worker>>
ofPages == <<requests, job, bridge, screen, news, ui>>
allVars == <<part, ofShell, ofEditors, ofDraft, ofPages, gaps, inputs>>

NoShell == path = None /\ proc = None /\ backlog = None /\ shell = None /\ fate = None
NoEditors == files = None /\ current = None /\ made = None /\ givenUp = None
NoDraft == file = None /\ worker = None
NoPages == /\ requests = None /\ job = None /\ bridge = None
           /\ screen = None /\ news = None /\ ui = None

DesktopInit ==
  \/ part = "shell" /\ Init /\ NoEditors /\ NoDraft /\ NoPages
  \/ part = "editors" /\ Editors!Init /\ NoShell /\ NoDraft
  \/ part = "draft" /\ Draft!Init /\ NoShell /\ NoEditors

ShellNext == part = "shell" /\ Next /\ UNCHANGED <<part, ofEditors, ofDraft, ofPages>>
EditorsNext == part = "editors" /\ Editors!Next /\ UNCHANGED <<part, ofShell, ofDraft>>
DraftNext == part = "draft" /\ Draft!Next /\ UNCHANGED <<part, ofShell, ofEditors>>

DesktopNext == ShellNext \/ EditorsNext \/ DraftNext

DesktopSpec == DesktopInit /\ [][DesktopNext]_allVars

\* OnePrimary of DesktopShell: one process runs a backend at a time, but for the four
\* exceptions it names.
OnlyOnePrimary == part = "shell" => OnePrimary

\* ClosedWindowHasIcon and HiddenWindowIsInReach of DesktopShell: a closed window can be had
\* back from the icon, unless that was turned off or refused, and a hidden one by a launch.
ClosedHasIcon == part = "shell" => ClosedWindowHasIcon /\ HiddenWindowIsInReach

\* EveryLaunchIsHeard of DesktopShell: no forwarded request waits where nobody listens.
LaunchesAreHeard == part = "shell" => TypeOK /\ EveryLaunchIsHeard

\* CleanMeansStored of ProfileEditors, an editor without unsaved edits shows the file, unless
\* edits, saves and loads of it overlap, and PageShowsTheFile of SettingsDraft, the page comes
\* to show what the file holds.
PagesShowTheFiles ==
  /\ part = "editors" => Editors!TypeOK /\ Editors!CleanMeansStored
  /\ part = "draft" => Draft!TypeOK /\ Draft!PageShowsTheFile

\* NoEditVanishes of ProfileEditors: what the user has typed or generated is in the editor, on
\* its way to it, in a file or given up, but for the exceptions it names.
NoEditVanishes == part = "editors" => Editors!NoEditVanishes

\* OthersFieldsSurvive of SettingsDraft: a field changes only because somebody asked for it.
OthersFieldsSurvive == [][part = "draft" => Draft!FieldsKept]_allVars
=============================================================================
