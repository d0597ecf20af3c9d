-------------------------------- MODULE Sidecar --------------------------------
(***************************************************************************)
(* LinuxSidecarController (rsclash-core/linux.rs): Mihomo as a child of    *)
(* the desktop.  Below the await points of PreferredController, where a    *)
(* start or a stop of the sidecar is one step: the controller's calls,     *)
(* suspended wherever the code awaits, the processes it spawns, which come *)
(* up, end and ignore signals as they like, and the path of the control    *)
(* socket, which is the same for all of them.                              *)
(*                                                                         *)
(* Processes are numbered in the order in which they are spawned.  One     *)
(* whose desktop was killed is an orphan: it is in a process group of its  *)
(* own and goes on.  What a core does with the path: it unlinks what is    *)
(* there and binds, and unlinks what is there when it ends by itself or    *)
(* by SIGTERM, not by SIGKILL.                                             *)
(*                                                                         *)
(* History `gaps': a signal that was refused ("refused"), an orphan that   *)
(* came up after its desktop was killed ("late").                          *)
(***************************************************************************)
EXTENDS Naturals

CONSTANTS
  Channels,   \* core channels
  Binaries,   \* the channels there is a binary of
  MaxSpawns,  \* bound on the processes
  MaxInputs,  \* bound on calls, failures, signals and crashes
  None,       \* Option::None
  File        \* a file that is not a socket

SidecarAssumption ==
  /\ Binaries \subseteq Channels /\ {None, File} \cap Nat = {}
  /\ MaxSpawns \in Nat \ {0} /\ MaxInputs \in Nat

VARIABLES
  proc,       \* the processes: how far each is, and whether SIGTERM and SIGKILL were sent
  socket,     \* the control socket's path: free, the socket of a process, or another file
  owned,      \* LinuxSidecarController.sidecar
  call,       \* the call in progress: where it is suspended, and the process it holds
  answered,   \* the process whose answer made the last start ready
  capturing,  \* the processes whose output tasks run
  orphans,    \* history: the processes whose desktop was killed
  gaps,       \* history: what the properties exclude
  spawns,     \* how many processes there have been
  inputs      \* how many inputs there have been

vars == <<proc, socket, owned, call, answered, capturing, orphans, gaps, spawns, inputs>>

Procs == 1..MaxSpawns
Awaits == {"idle", "prepare", "spawn", "probe", "secure", "terminate", "grace", "wait",
           "join", "remove"}
Idle == [at |-> "idle", held |-> None]

TypeOK ==
  /\ proc \in [Procs -> [state : {"none", "starting", "listening", "exited"},
                         termed : BOOLEAN, killed : BOOLEAN]]
  /\ socket \in Procs \cup {None, File}
  /\ owned \in Procs \cup {None} /\ answered \in Procs \cup {None}
  /\ call \in [at : Awaits, held : Procs \cup {None}]
  /\ call.held # None <=> call.at \notin {"idle", "prepare", "spawn"}
  /\ owned = None \/ call.held = None
  /\ capturing \subseteq Procs /\ orphans \subseteq Procs /\ spawns \in 0..MaxSpawns

Init ==
  /\ proc = [p \in Procs |-> [state |-> "none", termed |-> FALSE, killed |-> FALSE]]
  /\ socket \in {None, File}
  /\ owned = None /\ call = Idle /\ answered = None
  /\ capturing = {} /\ orphans = {} /\ gaps = {} /\ spawns = 0 /\ inputs = 0

Input == inputs < MaxInputs /\ inputs' = inputs + 1

Alive(p) == proc[p].state \in {"starting", "listening"}

At(await) == call' = [call EXCEPT !.at = await]

-----------------------------------------------------------------------------
(* start                                                                   *)

\* start_sidecar, refused with a sidecar there already or no binary of the channel
CallStart(channel) ==
  /\ Input /\ call.at = "idle"
  /\ IF owned = None /\ channel \in Binaries THEN At("prepare") ELSE UNCHANGED call
  /\ UNCHANGED <<proc, socket, owned, answered, capturing, orphans, gaps, spawns>>

\* The directories or the configuration are not as they must be.
PrepareFails ==
  /\ Input /\ call.at = "prepare" /\ call' = Idle
  /\ UNCHANGED <<proc, socket, owned, answered, capturing, orphans, gaps, spawns>>

\* Mutant: what is at the path stays there until the new process binds it.
LeaveStaleSocket ==
  /\ call.at = "prepare"
  /\ call' = IF socket = File THEN Idle ELSE [call EXCEPT !.at = "spawn"]
  /\ UNCHANGED <<proc, socket, owned, answered, capturing, orphans, gaps, spawns, inputs>>

\* remove_stale_socket, whoever listens on it
RemoveStaleSocket ==
  /\ call.at = "prepare"
  /\ IF socket = File
     THEN call' = Idle /\ UNCHANGED socket
     ELSE At("spawn") /\ socket' = None
  /\ UNCHANGED <<proc, owned, answered, capturing, orphans, gaps, spawns, inputs>>

Spawn ==
  /\ call.at = "spawn" /\ spawns < MaxSpawns
  /\ spawns' = spawns + 1
  /\ proc' = [proc EXCEPT ![spawns'].state = "starting"]
  /\ capturing' = capturing \cup {spawns'}
  /\ call' = [at |-> "probe", held |-> spawns']
  /\ UNCHANGED <<socket, owned, answered, orphans, gaps, inputs>>

SpawnFails ==
  /\ call.at = "spawn" /\ (spawns = MaxSpawns \/ inputs < MaxInputs)
  /\ inputs' = IF spawns = MaxSpawns THEN inputs ELSE inputs + 1
  /\ call' = Idle
  /\ UNCHANGED <<proc, socket, owned, answered, capturing, orphans, gaps, spawns>>

\* wait_until_ready: the process has ended, or somebody answers at the path.
Probe ==
  /\ call.at = "probe"
  /\ \/ /\ ~Alive(call.held) /\ At("terminate") /\ UNCHANGED answered
     \/ /\ Alive(call.held) /\ socket \in Procs /\ proc[socket].state = "listening"
        /\ At("secure") /\ answered' = socket
  /\ UNCHANGED <<proc, socket, owned, capturing, orphans, gaps, spawns, inputs>>

StartupTimesOut ==
  /\ call.at = "probe" /\ At("terminate")
  /\ UNCHANGED <<proc, socket, owned, answered, capturing, orphans, gaps, spawns, inputs>>

\* secure_socket
SecureSocket ==
  /\ call.at = "secure"
  /\ IF socket \in Procs
     THEN owned' = call.held /\ call' = Idle
     ELSE At("terminate") /\ UNCHANGED owned
  /\ UNCHANGED <<proc, socket, answered, capturing, orphans, gaps, spawns, inputs>>

-----------------------------------------------------------------------------
(* stop, and the cleanup of a start that failed                            *)

\* stop_sidecar takes the process before it is terminated.
CallStop ==
  /\ Input /\ call.at = "idle"
  /\ owned' = None
  /\ call' = IF owned = None THEN Idle ELSE [at |-> "terminate", held |-> owned]
  /\ UNCHANGED <<proc, socket, answered, capturing, orphans, gaps, spawns>>

\* kill_process_group, of a process that is there
Signalled(p, signal) == IF Alive(p) THEN [proc EXCEPT ![p][signal] = TRUE] ELSE proc

\* terminate and stop_process: SIGTERM, unless the process has ended
Terminate ==
  /\ call.at = "terminate"
  /\ At(IF Alive(call.held) THEN "grace" ELSE "join")
  /\ proc' = Signalled(call.held, "termed")
  /\ UNCHANGED <<socket, owned, answered, capturing, orphans, gaps, spawns, inputs>>

\* Neither SIGTERM nor SIGKILL is permitted: the process is waited for.
SignalRefused ==
  /\ Input /\ call.at = "terminate" /\ Alive(call.held) /\ At("wait")
  /\ gaps' = gaps \cup {"refused"}
  /\ UNCHANGED <<proc, socket, owned, answered, capturing, orphans, spawns>>

\* Mutant: a process that does not end in time is waited for.
WaitOnly ==
  /\ call.at = "grace" /\ At("wait")
  /\ UNCHANGED <<proc, socket, owned, answered, capturing, orphans, gaps, spawns, inputs>>

GraceEnds ==
  /\ call.at = "grace" /\ At("wait")
  /\ proc' = Signalled(call.held, "killed")
  /\ UNCHANGED <<socket, owned, answered, capturing, orphans, gaps, spawns, inputs>>

\* Child::wait
Reaped ==
  /\ call.at \in {"grace", "wait"} /\ ~Alive(call.held) /\ At("join")
  /\ UNCHANGED <<proc, socket, owned, answered, capturing, orphans, gaps, spawns, inputs>>

\* join_output_tasks, each of which ends, or is aborted
Join ==
  /\ call.at = "join" /\ At("remove")
  /\ capturing' = capturing \ {call.held}
  /\ UNCHANGED <<proc, socket, owned, answered, orphans, gaps, spawns, inputs>>

\* The call ends; the socket it removes is whose it may be by then.
RemoveSocket ==
  /\ call.at = "remove" /\ call' = Idle
  /\ socket' = IF socket = File THEN socket ELSE None
  /\ UNCHANGED <<proc, owned, answered, capturing, orphans, gaps, spawns, inputs>>

\* Mutant: a process that is dropped is only asked to end.
DroppedGently(held) == [p \in Procs |-> IF p \in held /\ Alive(p)
                                        THEN [proc[p] EXCEPT !.termed = TRUE] ELSE proc[p]]

\* SidecarProcess::drop sends SIGKILL.
Dropped(held) == [p \in Procs |-> IF p \in held /\ Alive(p)
                                  THEN [proc[p] EXCEPT !.killed = TRUE] ELSE proc[p]]

\* Its result is ignored: who may not send SIGTERM may not send SIGKILL either.
Drop(held) == proc' = Dropped(held) \/ ("refused" \in gaps /\ UNCHANGED proc)

\* The process's status cannot be read, or it cannot be waited for: the call ends at once.
StatusFails ==
  /\ Input /\ call.at \in {"probe", "terminate", "grace", "wait"}
  /\ IF call.at = "probe"
     THEN At("terminate") /\ UNCHANGED <<proc, capturing>>
     ELSE /\ call' = Idle
          /\ Drop({call.held}) /\ capturing' = capturing \ {call.held}
  /\ UNCHANGED <<socket, owned, answered, orphans, gaps, spawns>>

-----------------------------------------------------------------------------
(* The desktop and the processes                                           *)

\* The coordinator's task is aborted, wherever it is: what it holds is dropped.
Abort ==
  /\ Input /\ (call # Idle \/ owned # None)
  /\ Drop({call.held, owned} \ {None})
  /\ capturing' = {} /\ owned' = None /\ call' = Idle
  /\ UNCHANGED <<socket, answered, orphans, gaps, spawns>>

\* The desktop is killed, and started again.
Crash ==
  /\ Input /\ (call # Idle \/ owned # None)
  /\ orphans' = orphans \cup ({call.held, owned} \ {None})
  /\ capturing' = {} /\ owned' = None /\ call' = Idle
  /\ UNCHANGED <<proc, socket, answered, gaps, spawns>>

Listen(p) ==
  /\ proc[p].state = "starting" /\ ~proc[p].killed /\ socket # File
  /\ proc' = [proc EXCEPT ![p].state = "listening"]
  /\ socket' = p
  /\ gaps' = IF p \in orphans THEN gaps \cup {"late"} ELSE gaps
  /\ UNCHANGED <<owned, call, answered, capturing, orphans, spawns, inputs>>

Exited(p) == proc' = [proc EXCEPT ![p].state = "exited"]

\* By itself, or by SIGTERM
Exit(p) ==
  /\ Alive(p) /\ ~proc[p].killed
  /\ IF proc[p].termed THEN UNCHANGED inputs ELSE Input
  /\ Exited(p)
  /\ socket' = IF proc[p].state = "listening" /\ socket # File THEN None ELSE socket
  /\ UNCHANGED <<owned, call, answered, capturing, orphans, gaps, spawns>>

Die(p) ==
  /\ Alive(p) /\ proc[p].killed /\ Exited(p)
  /\ UNCHANGED <<socket, owned, call, answered, capturing, orphans, gaps, spawns, inputs>>

-----------------------------------------------------------------------------
\* What the controller does of itself
Progress ==
  \/ RemoveStaleSocket \/ Spawn \/ SpawnFails \/ Probe \/ StartupTimesOut \/ SecureSocket
  \/ Terminate \/ GraceEnds \/ Reaped \/ Join \/ RemoveSocket

Next ==
  \/ \E channel \in Channels : CallStart(channel)
  \/ CallStop \/ PrepareFails \/ SignalRefused \/ StatusFails \/ Progress \/ Abort \/ Crash
  \/ \E p \in Procs : Listen(p) \/ Exit(p) \/ Die(p)

\* The runtime polls the controller, whose timers expire, and SIGKILL ends a process.
Fairness == WF_vars(Progress) /\ \A p \in Procs : WF_vars(Die(p))

Spec == Init /\ [][Next]_vars /\ Fairness

-----------------------------------------------------------------------------
(* Properties                                                              *)

\* A process that runs is the controller's, or that of its call in progress, or has been
\* killed: however a start fails and wherever a call ends, nothing is left to run unowned,
\* unless the desktop itself was killed or may not signal its child.
OnlyOwnedLives ==
  "refused" \notin gaps
  => \A p \in Procs : Alive(p) => p \in {owned, call.held} \cup orphans \/ proc[p].killed

\* A start that is ready has heard from the process that it started, not from one that was
\* left behind, and what is shown of a failure is that process's output.
ReadyIsItsOwn ==
  /\ call.at = "secure" /\ {"late", "refused"} \cap gaps = {} => answered = call.held
  /\ capturing \subseteq {owned, call.held}

\* Every start and stop comes to an end if the processes can be signalled.
CallsEnd == call.at # "idle" ~> call.at = "idle" \/ "refused" \in gaps
=============================================================================
