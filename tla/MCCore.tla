--------------------------------- MODULE MCCore ---------------------------------
(***************************************************************************)
(* The core in one run: the coordinator of its life cycle (CoreSupervisor, *)
(* with its refinement), the choice between its two backends               *)
(* (PreferredController), the process of the sidecar (Sidecar) and the     *)
(* installation of the privileged service (ServiceInstall).  Each of them  *)
(* makes steps of what is one step, or an assumption, of the one before:   *)
(* they share no variable.  A behaviour is one of a single part; the       *)
(* others rest in an initial state, so that the properties of a part hold  *)
(* of the others' behaviours.                                              *)
(***************************************************************************)
EXTENDS CoreRefinement

CONSTANTS MaxRequests, Binaries, File, MaxSpawns, SidecarInputs, Releases, InstallInputs

VARIABLES
  part,                                                          \* the part in play
  active, at, target, clean, reply, requests, overtaken,         \* of PreferredController
  service_core, sidecar_core,
  proc, socket, owned, call, answered, capturing, orphans, gaps, \* of Sidecar
  spawns, inputs,
  files, manager, service, installer, view, result, events       \* of ServiceInstall

Backend == INSTANCE PreferredController
Sidecar == INSTANCE Sidecar WITH MaxInputs <- SidecarInputs
Install == INSTANCE ServiceInstall WITH
  process <- service, inputs <- events, MaxInputs <- InstallInputs

ASSUME PartsAssumption ==
  /\ Backend!ConstantsAssumption /\ Sidecar!SidecarAssumption /\ Install!InstallAssumption

ofBackend ==
  <<active, at, target, clean, reply, requests, overtaken, service_core, sidecar_core>>
ofSidecar == <<proc, socket, owned, call, answered, capturing, orphans, gaps, spawns, inputs>>
ofInstall == <<files, manager, service, installer, view, result, events>>
allVars == <<part, vars, ofBackend, ofSidecar, ofInstall>>

PartsInit ==
  /\ Init /\ Backend!Init /\ Sidecar!Init /\ Install!Init
  /\ part \in {"coordinator", "backend", "sidecar", "install"}
  /\ part # "sidecar" => socket = None

ByCoordinator(A) == part = "coordinator" /\ A /\ UNCHANGED <<part, ofBackend, ofSidecar, ofInstall>>
ByBackend(A) == part = "backend" /\ A /\ UNCHANGED <<part, vars, ofSidecar, ofInstall>>
BySidecar(A) == part = "sidecar" /\ A /\ UNCHANGED <<part, vars, ofBackend, ofInstall>>
ByInstall(A) == part = "install" /\ A /\ UNCHANGED <<part, vars, ofBackend, ofSidecar>>

PartsNext ==
  ByCoordinator(Next) \/ ByBackend(Backend!Next) \/ BySidecar(Sidecar!Next)
    \/ ByInstall(Install!Next)

\* The fairness of CoreSupervisor and of Sidecar.
PartsFairness ==
  /\ WF_allVars(ByCoordinator(CoordinatorStep))
  /\ WF_allVars(ByCoordinator(Abort))
  /\ \A c \in Clients : /\ SF_allVars(ByCoordinator(Enqueue(c)))
                        /\ WF_allVars(ByCoordinator(SendFails(c)))
  /\ WF_allVars(BySidecar(Sidecar!Progress))
  /\ \A p \in Sidecar!Procs : WF_allVars(BySidecar(Sidecar!Die(p)))

PartsSpec == PartsInit /\ [][PartsNext]_allVars /\ PartsFairness

\* Of PreferredController: a fallback to the sidecar that follows an acknowledged cleanup
\* finds the service without a core, and without a start that it would carry out later,
\* unless the cleanup was carried out before a start that the client had given up on.
FallbackIsSafe == Backend!FallbackIsSafe

\* Of PreferredController: no sidecar is left that a stop would not reach.
ActiveBackendOwnsCore == Backend!TypeOK /\ Backend!ActiveBackendOwnsCore

\* Of Sidecar: a process that runs is the controller's, its call's, or has been killed.
OnlyOwnedLives == Sidecar!TypeOK /\ Sidecar!OnlyOwnedLives

\* Of Sidecar: a start that is ready has heard from the process that it started.
ReadyIsItsOwn == Sidecar!ReadyIsItsOwn

\* Of Sidecar: every start and stop comes to an end.
CallsEnd == Sidecar!CallsEnd

\* Of ServiceInstall: wherever the installer stops, the unit that is there finds its program
\* and configuration, and the configuration the stable core (the alpha core unless an
\* installer works or has been cut off); an installation or an uninstallation that succeeds
\* did what it says, whatever an earlier one has left.
InstallationIsSound ==
  /\ Install!TypeOK /\ Install!NamedFilesExist
  /\ Install!InstallationRuns /\ Install!UninstallationIsClean
=============================================================================
