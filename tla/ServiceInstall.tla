---------------------------- MODULE ServiceInstall ----------------------------
(***************************************************************************)
(* The installation of the privileged service (rsclash-service): the       *)
(* desktop's settings worker (settings.rs) or the user starts the setup    *)
(* program (setup.rs), which has the installer run as root (install.rs).   *)
(* The installer writes its files one by one, each with a rename, and      *)
(* drives systemd; it may fail or be killed between any two steps and has  *)
(* no journal.  The service (service.rs) reads what is installed when it   *)
(* starts and keeps it until it stops; systemd starts it again when it     *)
(* fails.                                                                  *)
(*                                                                         *)
(* A release stands for the contents of a file.  The configuration says    *)
(* which cores there are; its other fields and the unit are the same for   *)
(* every request of one user.  One installer runs at a time.               *)
(***************************************************************************)
EXTENDS Naturals, Sequences

CONSTANTS
  Releases,   \* of the package the files come from
  MaxInputs,  \* bound on installations, failures and restarts
  None        \* Option::None

\* install_files and enable_and_start
InstallSteps == <<"service", "stable", "alpha", "config", "unit", "load", "enable">>

\* Mutant: the files go in the order in which they were written.
RemoveInOrder ==
  <<"disable", "no service", "no stable", "no alpha", "no config", "no unit", "load">>

\* uninstall and uninstall_files
UninstallSteps ==
  <<"disable", "no unit", "no config", "no alpha", "no stable", "no service", "load">>

Steps == {InstallSteps[i] : i \in DOMAIN InstallSteps}
           \cup {UninstallSteps[i] : i \in DOMAIN UninstallSteps}
Request == [release : Releases, alpha : BOOLEAN]
Installer == [steps : Seq(Steps), request : Request \cup {None}, by : {"user", "desktop"}]

InstallAssumption ==
  /\ None \notin Releases \cup {"stable", "both"} \cup Request
  /\ None \notin Installer
  /\ MaxInputs \in Nat

VARIABLES
  files,      \* InstallLayout: the release of each file, of the configuration its cores
  manager,    \* systemd: whether it has the unit loaded, enabled and active
  process,    \* the service that runs: its release, and the cores it knows
  installer,  \* the steps the installer has left, its request, and who waits for it
  view,       \* the settings worker's ServiceIntegrationView, busy flag and announcement
  result,     \* how the last installer ended
  inputs      \* how many inputs there have been

vars == <<files, manager, process, installer, view, result, inputs>>

Files == [service : Releases \cup {None}, stable : Releases \cup {None},
          alpha : Releases \cup {None}, config : {None, "stable", "both"}, unit : BOOLEAN]
Absent == [service |-> None, stable |-> None, alpha |-> None, config |-> None, unit |-> FALSE]
Process == [release : Releases, cores : {"stable", "both"}]
Unknown == [loaded |-> FALSE, enabled |-> FALSE, active |-> FALSE]

Init ==
  /\ files = Absent /\ manager = Unknown /\ process = None /\ installer = None
  /\ view = [installed |-> FALSE, reachable |-> FALSE, busy |-> FALSE,
             announced |-> FALSE]
  /\ result = "none" /\ inputs = 0

Input == inputs < MaxInputs /\ inputs' = inputs + 1

-----------------------------------------------------------------------------
(* The service and systemd                                                 *)

\* load_installed: the configuration is there, and so are the cores it names.
Loads ==
  /\ files.config # None /\ files.stable # None
  /\ files.config = "both" => files.alpha # None

\* main, started by systemd: a service that cannot load is tried again.
ServiceStarts ==
  /\ manager.active /\ process = None
  /\ files.service # None /\ Loads
  /\ process' = [release |-> files.service, cores |-> files.config]
  /\ UNCHANGED <<files, manager, installer, view, result, inputs>>

ServiceFails ==
  /\ Input /\ process # None /\ process' = None
  /\ UNCHANGED <<files, manager, installer, view, result>>

\* The machine restarts, and nobody learns how the installer would have ended.
Restart ==
  /\ Input
  /\ manager' = [loaded |-> files.unit, enabled |-> manager.enabled /\ files.unit,
                 active |-> manager.enabled /\ files.unit]
  /\ process' = None /\ installer' = None
  /\ result' = IF installer = None THEN result ELSE "failed"
  /\ view' = [installed |-> files.config # None, reachable |-> FALSE, busy |-> FALSE,
              announced |-> FALSE]
  /\ UNCHANGED files

-----------------------------------------------------------------------------
(* The steps of the installer                                              *)

\* What install_files writes to service.json.
Cores(request) == IF request.alpha THEN "both" ELSE "stable"

\* atomic_copy, atomic_write and remove_regular_file_if_present
Written(step, request) ==
  CASE step = "service"    -> [files EXCEPT !.service = request.release]
    [] step = "stable"     -> [files EXCEPT !.stable = request.release]
    [] step = "alpha"      -> [files EXCEPT !.alpha = IF request.alpha THEN request.release
                                                                       ELSE None]
    [] step = "config"     -> [files EXCEPT !.config = Cores(request)]
    [] step = "unit"       -> [files EXCEPT !.unit = TRUE]
    [] step = "no unit"    -> [files EXCEPT !.unit = FALSE]
    [] step = "no config"  -> [files EXCEPT !.config = None]
    [] step = "no alpha"   -> [files EXCEPT !.alpha = None]
    [] step = "no stable"  -> [files EXCEPT !.stable = None]
    [] step = "no service" -> [files EXCEPT !.service = None]
    [] OTHER               -> files

\* What systemctl does: `enable --now' starts a unit unless it is active, and `disable'
\* of a unit that does not exist is not an error.
Managed(step) ==
  CASE step = "load"    -> [manager EXCEPT !.loaded = files.unit]
    [] step = "enable"  -> [manager EXCEPT !.enabled = TRUE, !.active = TRUE]
    [] step = "disable" -> IF files.unit THEN [manager EXCEPT !.enabled = FALSE, !.active = FALSE]
                                         ELSE manager
    [] OTHER            -> manager

Outcome == IF installer.request = None THEN "uninstalled" ELSE "installed"

\* change_service: the worker reads the state of the service when the setup has succeeded.
Shown(success) ==
  IF installer.by = "user" THEN view
  ELSE IF success
  THEN [installed |-> files'.config # None, reachable |-> process' # None, busy |-> FALSE,
        announced |-> Outcome = "installed"]
  ELSE [view EXCEPT !.busy = FALSE]

Step ==
  /\ installer # None
  /\ LET step == Head(installer.steps) IN
     /\ files' = Written(step, installer.request)
     /\ manager' = Managed(step)
     /\ process' = IF manager'.active THEN process ELSE None
     /\ IF Len(installer.steps) = 1
        THEN installer' = None /\ result' = Outcome /\ view' = Shown(TRUE)
        ELSE /\ installer' = [installer EXCEPT !.steps = Tail(@)]
             /\ UNCHANGED <<result, view>>
  /\ UNCHANGED inputs

\* A step fails, or the installer is killed: what it has done stays.
InstallerFails ==
  /\ Input /\ installer # None /\ installer' = None
  /\ result' = "failed" /\ view' = Shown(FALSE)
  /\ UNCHANGED <<files, manager, process>>

-----------------------------------------------------------------------------
(* The desktop and the user                                                *)

Begins(steps, request, by) ==
  /\ Input /\ installer = None
  /\ installer' = [steps |-> steps, request |-> request, by |-> by]
  /\ result' = "none"
  /\ view' = [view EXCEPT !.busy = by = "desktop", !.announced = FALSE]
  /\ UNCHANGED <<files, manager, process>>

\* The setup program on the command line, after a new release was unpacked for example.
UserInstalls == \E request \in Request : Begins(InstallSteps, request, "user")

UserUninstalls == Begins(UninstallSteps, None, "user")

\* The buttons of the settings page, and InstallService and UninstallService.
DesktopInstalls ==
  /\ ~view.reachable /\ ~view.busy
  /\ \E request \in Request : Begins(InstallSteps, request, "desktop")

DesktopUninstalls ==
  /\ view.installed /\ ~view.busy
  /\ Begins(UninstallSteps, None, "desktop")

\* service_status, as the settings worker refreshes
Refresh ==
  /\ ~view.busy
  /\ view' = [view EXCEPT !.installed = files.config # None, !.reachable = process # None]
  /\ UNCHANGED <<files, manager, process, installer, result, inputs>>

Next ==
  \/ ServiceStarts \/ ServiceFails \/ Restart
  \/ Step \/ InstallerFails
  \/ UserInstalls \/ UserUninstalls \/ DesktopInstalls \/ DesktopUninstalls \/ Refresh

Spec == Init /\ [][Next]_vars

-----------------------------------------------------------------------------
(* Properties                                                              *)

\* Every variable has its type.
TypeOK ==
  /\ files \in Files
  /\ manager \in [loaded : BOOLEAN, enabled : BOOLEAN, active : BOOLEAN]
  /\ process \in Process \cup {None}
  /\ installer \in Installer \cup {None}
  /\ view \in [installed : BOOLEAN, reachable : BOOLEAN, busy : BOOLEAN,
              announced : BOOLEAN]
  /\ result \in {"none", "installed", "uninstalled", "failed"}
  /\ inputs \in 0..MaxInputs

\* Whenever the installer stops, the unit on disk has its program and configuration, and the
\* configuration the stable core: the files are written from the cores to the unit and
\* removed the other way round (install_files, uninstall_files).
StableFilesExist ==
  /\ files.unit => files.config # None /\ files.service # None
  /\ files.config # None => files.service # None /\ files.stable # None

\* The alpha core goes before the configuration that names it is rewritten: it is missed only
\* while an installer works, or once one has been cut off, and then the service cannot load.
AlphaExists ==
  files.config = "both" /\ files.alpha = None => installer # None \/ result = "failed"

NamedFilesExist == StableFilesExist /\ AlphaExists

\* An installation that succeeds leaves a service that can start, whatever an earlier one
\* that failed half-way has left (install_files, load_installed).
InstallationRuns ==
  result = "installed" => Loads /\ files.service # None /\ manager.loaded /\ manager.active

\* An uninstallation that succeeds leaves nothing that runs or would run again (uninstall).
UninstallationIsClean ==
  result = "uninstalled" => files = Absent /\ manager = Unknown /\ process = None

=============================================================================
