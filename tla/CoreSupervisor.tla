--------------------------- MODULE CoreSupervisor ---------------------------
(***************************************************************************)
(* The core lifecycle coordinator of rsclash-core: one task that owns the  *)
(* controller of the Mihomo core, serves the commands of every CoreHandle  *)
(* from a bounded queue, supervises a running core and restarts a failed   *)
(* one a bounded number of times.                                          *)
(*                                                                         *)
(* The coordinator is sequential code that is suspended at its awaits.  An *)
(* action is the code from one await to the next; `pc' names the await.    *)
(* Between two actions clients send commands, handles are dropped, the     *)
(* core process dies on its own and time passes.                           *)
(***************************************************************************)
EXTENDS Naturals, Sequences

CONSTANTS
  Channels,       \* core channels: CoreChannel::Stable, CoreChannel::Alpha
  Clients,        \* the holders of a CoreHandle, Owner included
  Owner,          \* the holder of the CoreRuntime
  None,           \* Option::None
  QueueCapacity,  \* COMMAND_CAPACITY
  MaxFailures,    \* max_consecutive_health_failures
  MaxAttempts     \* max_restart_attempts

ASSUME ConstantsAssumption ==
  /\ Owner \in Clients
  /\ None \notin Channels /\ None \notin Clients
  /\ QueueCapacity \in Nat \ {0}
  /\ MaxFailures \in Nat \ {0}   \* SupervisionConfig::validate
  /\ MaxAttempts \in Nat

VARIABLES
  state,           \* the published CoreState
  active_channel,  \* the channel the controller was last started on, or None
  failures,        \* consecutive_health_failures
  attempts,        \* restart_attempts
  restart_at,      \* restart_at.is_some(): an automatic restart is scheduled
  started_at,      \* "none", "fresh", or "stable" once stable_reset_after elapsed
  queue,           \* the envelopes in the command channel
  client,          \* what each handle's holder is doing
  pc,              \* the await the coordinator is suspended at
  job,             \* the command being handled
  process,         \* the core the controller has running, or None
  wanted           \* history: the last command taken did not ask for a stop

supervision == <<failures, attempts, restart_at, started_at>>
vars == <<state, active_channel, supervision, queue, client, pc, job, process,
          wanted>>

-----------------------------------------------------------------------------
(* Data                                                                     *)

Phases == {"Stopped", "Starting", "Running", "Stopping", "Reloading", "Failed"}
CoreState == [phase : Phases, channel : Channels \union {None}]

\* A CoreState other than Running has no channel.
Plain(phase) == [phase |-> phase, channel |-> None]
Running(channel) == [phase |-> "Running", channel |-> channel]

Op(name) == [op |-> name, channel |-> None]
LifecycleCommand ==
  [op : {"Start", "Restart"}, channel : Channels]
    \union {Op(name) : name \in {"Stop", "RestartCurrent", "Reload"}}

Shutdown == Op("Shutdown")            \* only CoreRuntime::shutdown sends it
NoCommand == Op("None")
HandlesDropped == Op("HandlesDropped")  \* the stop after the select loop

AnyCommand == LifecycleCommand \union {Shutdown, NoCommand, HandlesDropped}

\* The request being handled and the channel its calls are for.
NewJob(c, command) == [client |-> c, command |-> command, channel |-> None]
NoJob == NewJob(None, NoCommand)
Job == [client : Clients \union {None}, command : AnyCommand,
        channel : Channels \union {None}]

Answers == {"none", "ok", "invalid", "failed", "closed", "dropped"}
Holder == [at : {"ready", "sending", "waiting", "gone"},
           command : AnyCommand, answer : Answers]

RestartOps == {"Restart", "RestartCurrent"}
FinalOps == {"Shutdown", "HandlesDropped"}

\* The awaits: the select of the run loop, the instant between the two halves
\* of a restart, one per controller call, and the end of the task.
Calls == {"startCleanup", "startCall", "stopCall", "reloadCall", "healthCheck",
          "healthCleanup", "autoCleanup", "autoStart"}
Pcs == Calls \union {"select", "dispatch", "restarting", "done"}

\* Every variable has its type; the health failures stay below the limit that
\* triggers a restart and the attempts within the budget.
TypeOK ==
  /\ state \in CoreState
  /\ active_channel \in Channels \union {None}
  /\ failures \in 0..(MaxFailures - 1)
  /\ attempts \in 0..MaxAttempts
  /\ restart_at \in BOOLEAN
  /\ started_at \in {"none", "fresh", "stable"}
  /\ queue \in Seq([client : Clients, command : AnyCommand])
  /\ client \in [Clients -> Holder]
  /\ pc \in Pcs
  /\ job \in Job
  /\ process \in Channels \union {None}
  /\ wanted \in BOOLEAN

Init ==
  /\ state = Plain("Stopped")
  /\ active_channel = None
  /\ failures = 0
  /\ attempts = 0
  /\ restart_at = FALSE
  /\ started_at = "none"
  /\ queue = <<>>
  /\ client = [c \in Clients |->
                 [at |-> "ready", command |-> NoCommand, answer |-> "none"]]
  /\ pc = "select"
  /\ job = NoJob
  /\ process = None
  /\ wanted = FALSE

-----------------------------------------------------------------------------
(* Handles                                                                  *)

\* What a holder is left with once its request is over.  CoreRuntime::shutdown
\* consumes the runtime, so the owner is gone after its one request.
Over(c, answer) ==
  [at |-> IF c = Owner THEN "gone" ELSE "ready",
   command |-> NoCommand, answer |-> answer]

coordinator == <<state, active_channel, supervision, pc, job, process, wanted>>

\* CoreHandle::request: the send waits for a free slot in the queue.
Request(c, command) ==
  /\ client[c].at = "ready"
  /\ IF c = Owner THEN command = Shutdown ELSE command \in LifecycleCommand
  /\ client' = [client EXCEPT ![c] =
                  [at |-> "sending", command |-> command, answer |-> "none"]]
  /\ UNCHANGED <<coordinator, queue>>

Enqueue(c) ==
  /\ client[c].at = "sending"
  /\ pc # "done"
  /\ Len(queue) < QueueCapacity
  /\ queue' = Append(queue, [client |-> c, command |-> client[c].command])
  /\ client' = [client EXCEPT ![c].at = "waiting"]
  /\ UNCHANGED coordinator

\* The receiver is gone: LifecycleError::CoordinatorClosed.
SendFails(c) ==
  /\ client[c].at = "sending"
  /\ pc = "done"
  /\ client' = [client EXCEPT ![c] = Over(c, "closed")]
  /\ UNCHANGED <<coordinator, queue>>

\* A holder goes away, maybe in the middle of its request: a command already
\* queued is handled all the same.  Dropping the CoreRuntime aborts the task.
DropHandle(c) ==
  /\ client[c].at # "gone"
  /\ client' = [client EXCEPT ![c] =
                  [at |-> "gone", command |-> NoCommand, answer |-> "none"]]
  /\ UNCHANGED <<coordinator, queue>>

-----------------------------------------------------------------------------
(* The end of a command                                                     *)

\* Mutant: the senders of the envelopes still queued are not told.
EndTaskKeepsWaiters(holders) ==
  /\ pc' = "done"
  /\ queue' = <<>>
  /\ client' = holders

\* The task ends and the receiver is dropped with the envelopes still queued:
\* their senders get LifecycleError::ResponseDropped.
EndTask(holders) ==
  /\ pc' = "done"
  /\ queue' = <<>>
  /\ client' = [c \in Clients |->
                  IF holders[c].at = "waiting" THEN Over(c, "dropped")
                  ELSE holders[c]]

\* The reply is sent and the loop goes on, or the task returns.  Nobody sees the
\* reply to a holder that went away.
Respond(answer) ==
  LET answered == [c \in Clients |->
                     IF c = job.client /\ client[c].at = "waiting"
                     THEN Over(c, answer) ELSE client[c]]
  IN /\ job' = NoJob
     /\ IF job.command.op \in FinalOps
        THEN EndTask(answered)
        ELSE pc' = "select" /\ client' = answered /\ UNCHANGED queue

\* The handler calls the controller for `channel' and is suspended.
Await(call, channel) ==
  /\ pc' = call
  /\ job' = [job EXCEPT !.channel = channel]
  /\ UNCHANGED <<queue, client>>

ResetSupervision ==
  /\ restart_at' = FALSE
  /\ attempts' = 0
  /\ failures' = 0
  /\ started_at' = "none"

\* The task is aborted at the await it is suspended at; the controller is
\* dropped, and a core that another process runs for it stays.
Abort ==
  /\ client[Owner].at = "gone"
  /\ pc # "done"
  /\ EndTask(client)
  /\ job' = NoJob
  /\ UNCHANGED <<state, active_channel, supervision, process, wanted>>

-----------------------------------------------------------------------------
(* Commands                                                                 *)

\* The select is biased: a queued command goes before a due restart, and both
\* before a health check.
TakeCommand ==
  /\ pc = "select"
  /\ queue # <<>>
  /\ job' = NewJob(Head(queue).client, Head(queue).command)
  /\ queue' = Tail(queue)
  /\ pc' = "dispatch"
  /\ UNCHANGED <<state, active_channel, supervision, client, process, wanted>>

\* Mutant: a failed core is not stopped before the start.
BeginStartUnclean(channel) ==
  \/ /\ state.phase \in {"Stopped", "Failed"}
     /\ state' = Plain("Starting")
     /\ Await("startCall", channel)
  \/ /\ state.phase \notin {"Failed", "Stopped"}
     /\ Respond(IF state = Running(channel) THEN "ok" ELSE "invalid")
     /\ UNCHANGED state

\* Mutant: a core that runs on another channel counts as started.
BeginStartAnyChannel(channel) ==
  \/ /\ state.phase = "Failed"
     /\ Await("startCleanup", channel)
     /\ UNCHANGED state
  \/ /\ state.phase = "Stopped"
     /\ state' = Plain("Starting")
     /\ Await("startCall", channel)
  \/ /\ state.phase \notin {"Failed", "Stopped"}
     /\ Respond(IF state.phase = "Running" THEN "ok" ELSE "invalid")
     /\ UNCHANGED state

\* Coordinator::start up to its first await: a failed core is stopped first.
BeginStart(channel) ==
  \/ /\ state.phase = "Failed"
     /\ Await("startCleanup", channel)
     /\ UNCHANGED state
  \/ /\ state.phase = "Stopped"
     /\ state' = Plain("Starting")
     /\ Await("startCall", channel)
  \/ /\ state.phase \notin {"Failed", "Stopped"}
     /\ Respond(IF state = Running(channel) THEN "ok" ELSE "invalid")
     /\ UNCHANGED state

\* Coordinator::stop up to its await; `channel' is what a restart goes on with.
BeginStop(channel) ==
  \/ /\ state.phase \in {"Running", "Failed"}
     /\ state' = Plain("Stopping")
     /\ Await("stopCall", channel)
  \/ /\ state.phase \notin {"Running", "Failed"}
     /\ Respond(IF state.phase = "Stopped" THEN "ok" ELSE "invalid")
     /\ UNCHANGED state

BeginRestart(channel) ==
  IF state.phase = "Stopped" THEN BeginStart(channel) ELSE BeginStop(channel)

Dispatching(op) == pc = "dispatch" /\ job.command.op = op

Start ==
  /\ Dispatching("Start")
  /\ ResetSupervision
  /\ BeginStart(job.command.channel)
  /\ wanted' = TRUE
  /\ UNCHANGED <<active_channel, process>>

\* Mutant: a stop leaves the scheduled restart in place.
StopWithoutReset ==
  /\ Dispatching("Stop") \/ Dispatching("Shutdown")
  /\ BeginStop(None)
  /\ wanted' = FALSE
  /\ UNCHANGED <<active_channel, supervision, process>>

Stop ==
  /\ Dispatching("Stop") \/ Dispatching("Shutdown")
  /\ ResetSupervision
  /\ BeginStop(None)
  /\ wanted' = FALSE
  /\ UNCHANGED <<active_channel, process>>

Restart ==
  /\ Dispatching("Restart")
  /\ ResetSupervision
  /\ BeginRestart(job.command.channel)
  /\ wanted' = TRUE
  /\ UNCHANGED <<active_channel, process>>

RestartCurrent ==
  /\ Dispatching("RestartCurrent")
  /\ IF active_channel = None
     THEN Respond("invalid") /\ UNCHANGED <<state, supervision, wanted>>
     ELSE ResetSupervision /\ BeginRestart(active_channel) /\ wanted' = TRUE
  /\ UNCHANGED <<active_channel, process>>

\* A reload neither resets the supervision nor cancels a scheduled restart.
Reload ==
  /\ Dispatching("Reload")
  /\ IF state = Running(active_channel)
     THEN state' = Plain("Reloading") /\ Await("reloadCall", active_channel)
     ELSE Respond("invalid") /\ UNCHANGED state
  /\ UNCHANGED <<active_channel, supervision, process, wanted>>

\* Every sender is gone: the loop ends and the core is stopped.  The runtime's
\* own sender is dropped right after the task was told to abort.
AllHandlesDropped ==
  /\ pc = "select"
  /\ queue = <<>>
  /\ \A c \in Clients : client[c].at = "gone"
  /\ restart_at' = FALSE
  /\ IF state.phase \in {"Running", "Failed"}
     THEN /\ state' = Plain("Stopping")
          /\ pc' = "stopCall"
          /\ job' = NewJob(None, HandlesDropped)
          /\ UNCHANGED <<queue, client>>
     ELSE EndTask(client) /\ UNCHANGED <<state, job>>
  /\ wanted' = FALSE
  /\ UNCHANGED <<active_channel, failures, attempts, started_at, process>>

-----------------------------------------------------------------------------
(* The controller's answers to a command's calls                            *)

\* What a controller call does to the core process: a stop that succeeded left
\* none, a start that failed may have left one behind.
ControllerStops(ok) == process' = IF ok THEN None ELSE process

ControllerStarts(ok, channel) ==
  process' \in IF ok THEN {channel} ELSE {None, channel}

Fail == state' = Plain("Failed") /\ Respond("failed")

StartCleanupReturns(ok) ==
  /\ pc = "startCleanup"
  /\ ControllerStops(ok)
  /\ IF ok
     THEN /\ active_channel' = None
          /\ state' = Plain("Starting")
          /\ Await("startCall", job.channel)
     ELSE Fail /\ UNCHANGED active_channel
  /\ UNCHANGED <<supervision, wanted>>

\* Mutant: the channel of the started core is not remembered.
StartForgetsChannel(ok) ==
  /\ pc = "startCall"
  /\ ControllerStarts(ok, job.channel)
  /\ IF ok
     THEN /\ started_at' = "fresh"
          /\ failures' = 0
          /\ state' = Running(job.channel)
          /\ Respond("ok")
     ELSE Fail /\ UNCHANGED <<started_at, failures>>
  /\ UNCHANGED <<active_channel, attempts, restart_at, wanted>>

StartReturns(ok) ==
  /\ pc = "startCall"
  /\ ControllerStarts(ok, job.channel)
  /\ IF ok
     THEN /\ active_channel' = job.channel
          /\ started_at' = "fresh"
          /\ failures' = 0
          /\ state' = Running(job.channel)
          /\ Respond("ok")
     ELSE Fail /\ UNCHANGED <<active_channel, started_at, failures>>
  /\ UNCHANGED <<attempts, restart_at, wanted>>

StopReturns(ok) ==
  /\ pc = "stopCall"
  /\ ControllerStops(ok)
  /\ IF ok
     THEN /\ active_channel' = None
          /\ started_at' = "none"
          /\ failures' = 0
          /\ state' = Plain("Stopped")
          /\ IF job.command.op \in RestartOps
             THEN Await("restarting", job.channel)
             ELSE Respond("ok")
     ELSE Fail /\ UNCHANGED <<active_channel, started_at, failures>>
  /\ UNCHANGED <<attempts, restart_at, wanted>>

\* The second half of Coordinator::restart.
RestartStarts ==
  /\ pc = "restarting"
  /\ BeginStart(job.channel)
  /\ UNCHANGED <<active_channel, supervision, process, wanted>>

\* A core that died cannot be reloaded; the supervision is left as it was.
ReloadReturns(ok) ==
  /\ pc = "reloadCall"
  /\ ok => process # None
  /\ IF ok
     THEN state' = Running(job.channel) /\ Respond("ok")
     ELSE Fail
  /\ UNCHANGED <<active_channel, supervision, process, wanted>>

-----------------------------------------------------------------------------
(* Supervision                                                              *)

\* The task awaits a controller call it makes on its own behalf.
Supervise(call) == pc' = call /\ UNCHANGED <<queue, client, job>>

\* A tick of the health timer; it does nothing unless the core runs.
HealthTick ==
  /\ pc = "select"
  /\ queue = <<>>
  /\ state.phase = "Running"
  /\ Supervise("healthCheck")
  /\ UNCHANGED <<state, active_channel, supervision, process, wanted>>

\* record_healthy: a start that proved stable earns the restart budget back.
Healthy ==
  /\ pc = "healthCheck"
  /\ process # None
  /\ failures' = 0
  /\ attempts' = IF started_at = "stable" THEN 0 ELSE attempts
  /\ Supervise("select")
  /\ UNCHANGED <<state, active_channel, restart_at, started_at, process, wanted>>

\* Mutant: one health failure more than configured is tolerated.
UnhealthyOneMore(exited) ==
  /\ pc = "healthCheck"
  /\ exited => process = None
  /\ IF exited \/ failures + 1 > MaxFailures
     THEN Supervise("healthCleanup") /\ UNCHANGED failures
     ELSE Supervise("select") /\ failures' = failures + 1
  /\ UNCHANGED <<state, active_channel, attempts, restart_at, started_at,
                 process, wanted>>

\* record_health_failure.  A live core can only be unhealthy; a dead one is
\* reported as exited or, when it is out of reach, as unhealthy too.
Unhealthy(exited) ==
  /\ pc = "healthCheck"
  /\ exited => process = None
  /\ IF exited \/ failures + 1 >= MaxFailures
     THEN Supervise("healthCleanup") /\ UNCHANGED failures
     ELSE Supervise("select") /\ failures' = failures + 1
  /\ UNCHANGED <<state, active_channel, attempts, restart_at, started_at,
                 process, wanted>>

\* Mutant: the last attempt of the budget is never made.
ScheduleRestartOffByOne ==
  /\ state' = Plain("Failed")
  /\ IF attempts + 1 >= MaxAttempts
     THEN restart_at' = FALSE /\ UNCHANGED attempts
     ELSE restart_at' = TRUE /\ attempts' = attempts + 1

\* schedule_restart; its channel is the active channel in every call.
ScheduleRestart ==
  /\ state' = Plain("Failed")
  /\ IF attempts >= MaxAttempts
     THEN restart_at' = FALSE /\ UNCHANGED attempts
     ELSE restart_at' = TRUE /\ attempts' = attempts + 1

\* The cleanup's failure only changes the message.
HealthCleanupReturns(ok) ==
  /\ pc = "healthCleanup"
  /\ ControllerStops(ok)
  /\ started_at' = "none"
  /\ failures' = 0
  /\ active_channel' = state.channel
  /\ ScheduleRestart
  /\ Supervise("select")
  /\ UNCHANGED wanted

\* Mutant: the deadline of a restart that is carried out is not cleared.
RunScheduledRestartAgain ==
  /\ pc = "select"
  /\ queue = <<>>
  /\ restart_at
  /\ Supervise(IF active_channel = None THEN "select" ELSE "autoCleanup")
  /\ UNCHANGED <<state, active_channel, supervision, process, wanted>>

\* The scheduled restart is due.  Its delay is not modelled: it may pass at any
\* time, and a command may come before it.
RunScheduledRestart ==
  /\ pc = "select"
  /\ queue = <<>>
  /\ restart_at
  /\ restart_at' = FALSE
  /\ Supervise(IF active_channel = None THEN "select" ELSE "autoCleanup")
  /\ UNCHANGED <<state, active_channel, failures, attempts, started_at, process,
                 wanted>>

AutoCleanupReturns(ok) ==
  /\ pc = "autoCleanup"
  /\ ControllerStops(ok)
  /\ IF ok
     THEN /\ state' = Plain("Starting")
          /\ Supervise("autoStart")
          /\ UNCHANGED <<attempts, restart_at>>
     ELSE ScheduleRestart /\ Supervise("select")
  /\ UNCHANGED <<active_channel, failures, started_at, wanted>>

\* Mutant: an automatic restart does not start the stability timer.
AutoStartUnmarked(ok) ==
  /\ pc = "autoStart"
  /\ ControllerStarts(ok, active_channel)
  /\ IF ok
     THEN /\ failures' = 0
          /\ state' = Running(active_channel)
          /\ UNCHANGED <<attempts, restart_at>>
     ELSE ScheduleRestart /\ UNCHANGED failures
  /\ Supervise("select")
  /\ UNCHANGED <<active_channel, started_at, wanted>>

AutoStartReturns(ok) ==
  /\ pc = "autoStart"
  /\ ControllerStarts(ok, active_channel)
  /\ IF ok
     THEN /\ started_at' = "fresh"
          /\ failures' = 0
          /\ state' = Running(active_channel)
          /\ UNCHANGED <<attempts, restart_at>>
     ELSE ScheduleRestart /\ UNCHANGED <<started_at, failures>>
  /\ Supervise("select")
  /\ UNCHANGED <<active_channel, wanted>>

-----------------------------------------------------------------------------
(* The world outside                                                        *)

ProcessExits ==
  /\ process # None
  /\ process' = None
  /\ UNCHANGED <<state, active_channel, supervision, queue, client, pc, job,
                 wanted>>

\* stable_reset_after elapses since the last start.
StableTimeElapses ==
  /\ started_at = "fresh"
  /\ started_at' = "stable"
  /\ UNCHANGED <<state, active_channel, failures, attempts, restart_at, queue,
                 client, pc, job, process, wanted>>

-----------------------------------------------------------------------------
CommandStep ==
  \/ TakeCommand \/ Start \/ Stop \/ Restart \/ RestartCurrent \/ Reload
  \/ AllHandlesDropped \/ RestartStarts
  \/ \E ok \in BOOLEAN :
       StartCleanupReturns(ok) \/ StartReturns(ok) \/ StopReturns(ok)
         \/ ReloadReturns(ok)

SupervisionStep ==
  \/ HealthTick \/ Healthy \/ RunScheduledRestart
  \/ \E exited \in BOOLEAN : Unhealthy(exited)
  \/ \E ok \in BOOLEAN :
       HealthCleanupReturns(ok) \/ AutoCleanupReturns(ok) \/ AutoStartReturns(ok)

CoordinatorStep == CommandStep \/ SupervisionStep

HandleStep ==
  \E c \in Clients :
    \/ \E command \in LifecycleCommand \union {Shutdown} : Request(c, command)
    \/ Enqueue(c) \/ SendFails(c) \/ DropHandle(c)

Next ==
  CoordinatorStep \/ Abort \/ HandleStep \/ ProcessExits \/ StableTimeElapses

Spec == Init /\ [][Next]_vars

\* The runtime polls the task, every controller call returns (each is bounded
\* by a timeout of the controller), and the permits of the command channel are
\* granted in the order of the sends, so that no send is overtaken for ever.
\* Nothing makes a client send a command or a core die.
Fairness ==
  /\ WF_vars(CoordinatorStep)
  /\ WF_vars(Abort)
  /\ \A c \in Clients : SF_vars(Enqueue(c)) /\ WF_vars(SendFails(c))

FairSpec == Spec /\ Fairness
-----------------------------------------------------------------------------
(* Properties                                                               *)

\* A core is started only when none is left from before: start() and the
\* automatic restart stop a failed core first, whatever happened to it.
NoSecondCore == pc \in {"startCall", "autoStart"} => process = None

\* What the coordinator publishes is true of the process: no core outlives
\* `Stopped', and a core that is said to run, or is being reloaded, is not one
\* of another channel than the one published and remembered.
StateMatchesProcess ==
  /\ state.phase = "Stopped" => process = None
  /\ state.phase = "Running" => state.channel = active_channel
  /\ state.phase \in {"Running", "Reloading"} =>
       active_channel # None /\ process \in {None, active_channel}

\* An automatic restart is scheduled only while the core is published as failed
\* with a channel to restart, and never while a controller call is in flight.
ScheduledOnlyWhenFailed ==
  restart_at => /\ state.phase = "Failed"
                /\ active_channel # None
                /\ pc \in {"select", "dispatch", "done"}

\* Once a stop or a shutdown was taken from the queue no core is started, and
\* none is scheduled to start, before a start or a restart is taken: a stop that
\* failed leaves a failed core, not a supervised one.
StopIsFinal ==
  ~wanted => /\ ~restart_at
             /\ pc \notin {"startCleanup", "startCall", "restarting",
                           "autoCleanup", "autoStart", "healthCheck",
                           "healthCleanup", "reloadCall"}
             /\ state.phase \in {"Stopped", "Stopping", "Failed"}

\* No handler leaves the coordinator in a transient state, so the arms of start,
\* stop and reload that refuse one are never taken.
SettledBetweenCommands ==
  pc \in {"select", "dispatch"} => state.phase \in {"Stopped", "Running", "Failed"}

\* A running core that has used up part of the restart budget is timed, so it
\* can earn the budget back: no sequence of commands takes the timer away and
\* leaves the attempts spent.
BudgetCanBeEarnedBack ==
  state.phase = "Running" /\ attempts > 0 => started_at # "none"

Answered(c) == client[c].at = "waiting" /\ client'[c].answer # "none"

\* An answer tells what happened: a stop that succeeded left the core stopped
\* and a start left it running on the channel asked for, at the instant of the
\* answer, and a command that was refused changed nothing of them and of the process (the
\* supervision it has reset all the same: handle_command does so first).
AnswersAreTrue ==
  [][\A c \in Clients :
       LET command == client[c].command IN
       /\ Answered(c) /\ client'[c].answer = "ok" =>
            CASE command.op \in {"Start", "Restart"} ->
                   state' = Running(command.channel) /\ active_channel' = command.channel
              [] command.op \in {"RestartCurrent", "Reload"} ->
                   state'.phase = "Running"
              [] OTHER -> state' = Plain("Stopped") /\ process' = None
       /\ Answered(c) /\ client'[c].answer = "invalid" =>
            UNCHANGED <<state, active_channel, process>>
       /\ Answered(c) /\ client'[c].answer = "failed" =>
            state' = Plain("Failed")]_vars

\* Every command is answered or its sender learns that the coordinator is gone,
\* even if handles are dropped, the core dies or the task is aborted; and once the
\* runtime is shut down or dropped the task ends, whatever it was doing.
EveryRequestEnds ==
  /\ \A c \in Clients :
       client[c].at \in {"sending", "waiting"} ~> client[c].at \in {"ready", "gone"}
  /\ client[Owner].at \in {"gone", "waiting"} ~> pc = "done"

\* A scheduled restart is carried out or cancelled, or the task ends, unless
\* commands keep coming:
\* the biased select never reaches the timer while one is queued.
ScheduledRestartRuns ==
  (restart_at /\ [](queue = <<>>)) ~> (~restart_at \/ pc = "done")
=============================================================================
