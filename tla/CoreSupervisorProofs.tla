------------------------- MODULE CoreSupervisorProofs -------------------------
(***************************************************************************)
(* The safety of the core coordinator for every set of channels and        *)
(* handles, every queue capacity and every supervision budget.             *)
(***************************************************************************)
EXTENDS CoreRefinement, TLAPS

-----------------------------------------------------------------------------
(* Types                                                                    *)

\* The commands are typed as they are built.
LEMMA CommandTypes ==
  /\ NoCommand \in AnyCommand
  /\ Shutdown \in AnyCommand
  /\ HandlesDropped \in AnyCommand
  /\ LifecycleCommand \subseteq AnyCommand
  /\ NoJob \in Job
BY DEF AnyCommand, LifecycleCommand, Shutdown, NoCommand, HandlesDropped, Op,
       NoJob, NewJob, Job

\* A command that names a channel has one.
LEMMA CommandChannel ==
  ASSUME NEW command \in AnyCommand, command.op \in {"Start", "Restart"}
  PROVE  command.channel \in Channels
BY DEF AnyCommand, LifecycleCommand, Shutdown, NoCommand, HandlesDropped, Op

\* The published states are CoreStates.
LEMMA StateTypes ==
  /\ \A phase \in Phases : Plain(phase) \in CoreState
  /\ \A channel \in Channels \union {None} : Running(channel) \in CoreState
BY DEF Plain, Running, CoreState, Phases

\* What a request leaves its holder with is a Holder.
LEMMA OverType ==
  ASSUME NEW c \in Clients, NEW answer \in Answers
  PROVE  Over(c, answer) \in Holder
BY CommandTypes DEF Over, Holder

\* The end of the task and the end of a command keep the types.
LEMMA EndTaskType ==
  ASSUME NEW holders \in [Clients -> Holder], EndTask(holders)
  PROVE  /\ pc' \in Pcs
         /\ queue' \in Seq([client : Clients, command : AnyCommand])
         /\ client' \in [Clients -> Holder]
<1>1. "dropped" \in Answers BY DEF Answers
<1>2. \A c \in Clients : Over(c, "dropped") \in Holder BY <1>1, OverType
<1> QED BY <1>2 DEF EndTask, Pcs

\* The end of a command keeps the types.
LEMMA RespondType ==
  ASSUME TypeOK, NEW answer \in Answers, Respond(answer)
  PROVE  /\ pc' \in Pcs
         /\ queue' \in Seq([client : Clients, command : AnyCommand])
         /\ client' \in [Clients -> Holder]
         /\ job' \in Job
<1> DEFINE answered ==
      [c \in Clients |-> IF c = job.client /\ client[c].at = "waiting"
                         THEN Over(c, answer) ELSE client[c]]
<1>1. answered \in [Clients -> Holder] BY OverType DEF TypeOK
<1>2. job' \in Job BY CommandTypes DEF Respond
<1>3. CASE job.command.op \in FinalOps
  <2>1. EndTask(answered) BY <1>3 DEF Respond
  <2> HIDE DEF answered
  <2> QED BY <1>1, <1>2, <2>1, EndTaskType
<1>4. CASE job.command.op \notin FinalOps
  <2>1. pc' = "select" /\ client' = answered /\ queue' = queue
    BY <1>4 DEF Respond
  <2> QED BY <1>1, <1>2, <2>1 DEF TypeOK, Pcs
<1> QED BY <1>3, <1>4

\* So does a controller call made for a command.
LEMMA AwaitType ==
  ASSUME TypeOK, NEW call \in Pcs, NEW channel \in Channels \union {None},
         Await(call, channel)
  PROVE  /\ pc' \in Pcs
         /\ queue' \in Seq([client : Clients, command : AnyCommand])
         /\ client' \in [Clients -> Holder]
         /\ job' \in Job
BY DEF Await, TypeOK, Job

\* So do the first halves of the commands.
ControlTypeOK ==
  /\ state \in CoreState
  /\ queue \in Seq([client : Clients, command : AnyCommand])
  /\ client \in [Clients -> Holder]
  /\ pc \in Pcs
  /\ job \in Job

\* The first half of a start keeps the types.
LEMMA BeginStartType ==
  ASSUME TypeOK, NEW channel \in Channels \union {None}, BeginStart(channel)
  PROVE  ControlTypeOK'
<1> USE StateTypes DEF ControlTypeOK
<1>1. CASE Await("startCleanup", channel) /\ UNCHANGED state
  BY <1>1, AwaitType DEF TypeOK, Pcs, Calls
<1>2. CASE state' = Plain("Starting") /\ Await("startCall", channel)
  BY <1>2, AwaitType DEF Pcs, Calls, Phases
<1>3. CASE /\ Respond(IF state = Running(channel) THEN "ok" ELSE "invalid")
           /\ UNCHANGED state
  BY <1>3, RespondType DEF Answers, TypeOK
<1> QED BY <1>1, <1>2, <1>3 DEF BeginStart

\* The first half of a stop keeps the types.
LEMMA BeginStopType ==
  ASSUME TypeOK, NEW channel \in Channels \union {None}, BeginStop(channel)
  PROVE  ControlTypeOK'
<1> USE StateTypes DEF ControlTypeOK
<1>1. CASE state' = Plain("Stopping") /\ Await("stopCall", channel)
  BY <1>1, AwaitType DEF Pcs, Calls, Phases
<1>2. CASE /\ Respond(IF state.phase = "Stopped" THEN "ok" ELSE "invalid")
           /\ UNCHANGED state
  BY <1>2, RespondType DEF Answers, TypeOK
<1> QED BY <1>1, <1>2 DEF BeginStop

\* A published failure keeps the types.
LEMMA FailType ==
  ASSUME TypeOK, Fail
  PROVE  ControlTypeOK'
BY StateTypes, RespondType DEF Fail, ControlTypeOK, Answers, Phases

\* A fresh budget is a budget.
SupervisionTypeOK ==
  /\ failures \in 0..(MaxFailures - 1)
  /\ attempts \in 0..MaxAttempts
  /\ restart_at \in BOOLEAN
  /\ started_at \in {"none", "fresh", "stable"}

\* A reset supervision is typed.
LEMMA ResetType == ResetSupervision => SupervisionTypeOK'
<1> SUFFICES ASSUME ResetSupervision PROVE SupervisionTypeOK'
  OBVIOUS
<1>1. failures' = 0 /\ attempts' = 0 BY DEF ResetSupervision
<1>2. failures' \in 0..(MaxFailures - 1) /\ attempts' \in 0..MaxAttempts
  BY <1>1, ConstantsAssumption
<1>3. restart_at' \in BOOLEAN BY DEF ResetSupervision
<1>4. started_at' \in {"none", "fresh", "stable"} BY DEF ResetSupervision
<1> QED BY <1>2, <1>3, <1>4 DEF SupervisionTypeOK

\* Scheduling a restart keeps the attempts within the budget.
LEMMA ScheduleType ==
  ASSUME TypeOK, ScheduleRestart
  PROVE  attempts' \in 0..MaxAttempts /\ restart_at' \in BOOLEAN /\ state' \in CoreState
<1>1. \/ attempts' = attempts
      \/ attempts < MaxAttempts /\ attempts' = attempts + 1
  <2>1. attempts \in Nat /\ MaxAttempts \in Nat
    BY ConstantsAssumption DEF TypeOK
  <2>2. CASE attempts >= MaxAttempts
    <3>1. attempts' = attempts BY <2>2, Zenon DEF ScheduleRestart
    <3> QED BY <3>1
  <2>3. CASE ~(attempts >= MaxAttempts)
    <3>1. attempts' = attempts + 1 BY <2>3, Zenon DEF ScheduleRestart
    <3> QED BY <2>1, <2>3, <3>1
  <2> QED BY <2>2, <2>3
<1>2. attempts' \in 0..MaxAttempts BY <1>1, ConstantsAssumption DEF TypeOK
<1>3. restart_at' \in BOOLEAN BY Zenon DEF ScheduleRestart
<1> QED BY <1>2, <1>3, StateTypes DEF ScheduleRestart, Phases

\* The coordinator is spawned with typed variables.
LEMMA TypeInit == Init => TypeOK
<1> SUFFICES ASSUME Init PROVE TypeOK
  OBVIOUS
<1>1. failures = 0 /\ attempts = 0 BY DEF Init
<1>2. failures \in 0..(MaxFailures - 1) /\ attempts \in 0..MaxAttempts
  BY <1>1, ConstantsAssumption
<1>3. restart_at \in BOOLEAN /\ wanted \in BOOLEAN BY DEF Init
<1>4. queue \in Seq([client : Clients, command : AnyCommand]) BY DEF Init
<1>5. client \in [Clients -> Holder]
  <2>1. [at |-> "ready", command |-> NoCommand, answer |-> "none"] \in Holder
    BY CommandTypes DEF Holder, Answers
  <2> QED BY <2>1 DEF Init
<1>6. state \in CoreState BY StateTypes DEF Init, Phases
<1>7. /\ active_channel \in Channels \union {None}
      /\ process \in Channels \union {None}
      /\ started_at \in {"none", "fresh", "stable"}
      /\ pc \in Pcs /\ job \in Job
  BY CommandTypes DEF Init, Pcs
<1> QED BY <1>2, <1>3, <1>4, <1>5, <1>6, <1>7 DEF TypeOK

\* Every step keeps the types.
LEMMA TypeStep == TypeOK /\ [Next]_vars => TypeOK'
<1> SUFFICES ASSUME TypeOK, [Next]_vars PROVE TypeOK'
  OBVIOUS
<1> USE ConstantsAssumption DEF supervision
<1>1. CASE TakeCommand
  <2> DEFINE Envelope == [client : Clients, command : AnyCommand]
  <2>0. queue \in Seq(Envelope) /\ queue # <<>> BY <1>1 DEF TakeCommand, TypeOK
  <2>1. Head(queue) \in Envelope
    <3> HIDE DEF Envelope
    <3> QED BY <2>0
  <2>2. Tail(queue) \in Seq([client : Clients, command : AnyCommand])
    BY <1>1 DEF TakeCommand, TypeOK
  <2>3. NewJob(Head(queue).client, Head(queue).command) \in Job
    BY <2>1 DEF NewJob, Job
  <2> QED BY <1>1, <2>2, <2>3 DEF TakeCommand, TypeOK, Pcs
<1>2. CASE Start
  <2>1. job.command.channel \in Channels
    BY <1>2, CommandChannel DEF Start, Dispatching, TypeOK, Job
  <2>2. ControlTypeOK' BY <1>2, <2>1, BeginStartType DEF Start
  <2>3. SupervisionTypeOK' BY <1>2, ResetType DEF Start
  <2>4. UNCHANGED <<active_channel, process>> /\ wanted' \in BOOLEAN
    BY <1>2 DEF Start
  <2> QED BY <2>2, <2>3, <2>4 DEF SupervisionTypeOK, ControlTypeOK, TypeOK
<1>3. CASE Stop
  <2>1. ControlTypeOK' BY <1>3, BeginStopType DEF Stop
  <2>2. SupervisionTypeOK' BY <1>3, ResetType DEF Stop
  <2>3. UNCHANGED <<active_channel, process>> /\ wanted' \in BOOLEAN
    BY <1>3 DEF Stop
  <2> QED BY <2>1, <2>2, <2>3 DEF SupervisionTypeOK, ControlTypeOK, TypeOK
<1>4. CASE Restart
  <2>1. job.command.channel \in Channels
    BY <1>4, CommandChannel DEF Restart, Dispatching, TypeOK, Job
  <2>2. ControlTypeOK'
    BY <1>4, <2>1, BeginStartType, BeginStopType DEF Restart, BeginRestart
  <2>3. SupervisionTypeOK' BY <1>4, ResetType DEF Restart
  <2>4. UNCHANGED <<active_channel, process>> /\ wanted' \in BOOLEAN
    BY <1>4 DEF Restart
  <2> QED BY <2>2, <2>3, <2>4 DEF SupervisionTypeOK, ControlTypeOK, TypeOK
<1>5. CASE RestartCurrent
  <2>1. CASE active_channel = None
    <3>1. Respond("invalid") /\ UNCHANGED <<state, supervision, wanted>>
      BY <1>5, <2>1 DEF RestartCurrent
    <3>2. ControlTypeOK'
      BY <3>1, RespondType DEF ControlTypeOK, Answers, TypeOK
    <3> QED BY <1>5, <3>1, <3>2 DEF RestartCurrent, ControlTypeOK, TypeOK
  <2>2. CASE active_channel # None
    <3>1. ResetSupervision /\ BeginRestart(active_channel) /\ wanted' = TRUE
      BY <1>5, <2>2 DEF RestartCurrent
    <3>2. ControlTypeOK'
      BY <3>1, BeginStartType, BeginStopType DEF BeginRestart, TypeOK
    <3>3. SupervisionTypeOK' BY <3>1, ResetType
    <3>4. UNCHANGED <<active_channel, process>> /\ wanted' \in BOOLEAN
      BY <1>5, <3>1 DEF RestartCurrent
    <3> QED BY <3>2, <3>3, <3>4 DEF SupervisionTypeOK, ControlTypeOK, TypeOK
  <2> QED BY <2>1, <2>2
<1>6. CASE Reload
  <2>1. ControlTypeOK'
    <3>1. CASE state' = Plain("Reloading") /\ Await("reloadCall", active_channel)
      BY <3>1, AwaitType, StateTypes DEF ControlTypeOK, TypeOK, Pcs, Calls, Phases
    <3>2. CASE Respond("invalid") /\ UNCHANGED state
      BY <3>2, RespondType DEF ControlTypeOK, Answers, TypeOK
    <3> QED BY <1>6, <3>1, <3>2 DEF Reload
  <2> QED BY <1>6, <2>1 DEF Reload, ControlTypeOK, TypeOK
<1>7. CASE AllHandlesDropped
  <2>1. ControlTypeOK'
    <3>1. CASE /\ state' = Plain("Stopping")
               /\ pc' = "stopCall"
               /\ job' = NewJob(None, HandlesDropped)
               /\ UNCHANGED <<queue, client>>
      BY <3>1, StateTypes, CommandTypes
         DEF ControlTypeOK, TypeOK, Pcs, Calls, Phases, NewJob, Job
    <3>2. CASE EndTask(client) /\ UNCHANGED <<state, job>>
      BY <3>2, EndTaskType DEF ControlTypeOK, TypeOK
    <3> QED BY <1>7, <3>1, <3>2 DEF AllHandlesDropped
  <2> QED BY <1>7, <2>1 DEF AllHandlesDropped, ControlTypeOK, TypeOK
<1>8. ASSUME NEW ok \in BOOLEAN, StartCleanupReturns(ok) PROVE TypeOK'
  <2>1. ControlTypeOK'
    <3>1. CASE state' = Plain("Starting") /\ Await("startCall", job.channel)
      BY <3>1, AwaitType, StateTypes
         DEF ControlTypeOK, TypeOK, Pcs, Calls, Phases, Job
    <3>2. CASE Fail BY <3>2, FailType
    <3> QED BY <1>8, <3>1, <3>2 DEF StartCleanupReturns
  <2> QED BY <1>8, <2>1
          DEF StartCleanupReturns, ControllerStops, ControlTypeOK, TypeOK
<1>9. ASSUME NEW ok \in BOOLEAN, StartReturns(ok) PROVE TypeOK'
  <2>0. job.channel \in Channels \union {None} BY DEF TypeOK, Job
  <2>1. ControlTypeOK'
    <3>1. CASE state' = Running(job.channel) /\ Respond("ok")
      BY <2>0, <3>1, RespondType, StateTypes DEF ControlTypeOK, Answers
    <3>2. CASE Fail BY <3>2, FailType
    <3> QED BY <1>9, <3>1, <3>2 DEF StartReturns
  <2> QED BY <1>9, <2>0, <2>1
          DEF StartReturns, ControllerStarts, ControlTypeOK, TypeOK
<1>10. ASSUME NEW ok \in BOOLEAN, StopReturns(ok) PROVE TypeOK'
  <2>1. ControlTypeOK'
    <3>1. CASE state' = Plain("Stopped") /\ Await("restarting", job.channel)
      BY <3>1, AwaitType, StateTypes DEF ControlTypeOK, TypeOK, Pcs, Phases, Job
    <3>2. CASE state' = Plain("Stopped") /\ Respond("ok")
      BY <3>2, RespondType, StateTypes DEF ControlTypeOK, Answers, Phases
    <3>3. CASE Fail BY <3>3, FailType
    <3> QED BY <1>10, <3>1, <3>2, <3>3 DEF StopReturns
  <2> QED BY <1>10, <2>1
          DEF StopReturns, ControllerStops, ControlTypeOK, TypeOK
<1>11. CASE RestartStarts
  <2>1. ControlTypeOK'
    BY <1>11, BeginStartType DEF RestartStarts, TypeOK, Job
  <2> QED BY <1>11, <2>1 DEF RestartStarts, ControlTypeOK, TypeOK
<1>12. ASSUME NEW ok \in BOOLEAN, ReloadReturns(ok) PROVE TypeOK'
  <2>1. ControlTypeOK'
    <3>1. CASE state' = Running(job.channel) /\ Respond("ok")
      BY <3>1, RespondType, StateTypes DEF ControlTypeOK, Answers, TypeOK, Job
    <3>2. CASE Fail BY <3>2, FailType
    <3> QED BY <1>12, <3>1, <3>2 DEF ReloadReturns
  <2> QED BY <1>12, <2>1 DEF ReloadReturns, ControlTypeOK, TypeOK
<1>13. CASE HealthTick
  BY <1>13 DEF HealthTick, Supervise, TypeOK, Pcs, Calls
<1>14. CASE Healthy
  BY <1>14 DEF Healthy, Supervise, TypeOK, Pcs
<1>15. ASSUME NEW exited \in BOOLEAN, Unhealthy(exited) PROVE TypeOK'
  BY <1>15 DEF Unhealthy, Supervise, TypeOK, Pcs, Calls
<1>16. ASSUME NEW ok \in BOOLEAN, HealthCleanupReturns(ok) PROVE TypeOK'
  <2>1. /\ attempts' \in 0..MaxAttempts /\ restart_at' \in BOOLEAN
        /\ state' \in CoreState
    BY <1>16, ScheduleType DEF HealthCleanupReturns
  <2>2. failures' = 0 BY <1>16 DEF HealthCleanupReturns
  <2>3. failures' \in 0..(MaxFailures - 1) BY <2>2
  <2> QED BY <1>16, <2>1, <2>3 DEF HealthCleanupReturns, ControllerStops,
      Supervise, TypeOK, Pcs, CoreState
<1>17. CASE RunScheduledRestart
  BY <1>17 DEF RunScheduledRestart, Supervise, TypeOK, Pcs, Calls
<1>18. ASSUME NEW ok \in BOOLEAN, AutoCleanupReturns(ok) PROVE TypeOK'
  <2>1. /\ attempts' \in 0..MaxAttempts /\ restart_at' \in BOOLEAN
        /\ state' \in CoreState
    <3>1. CASE ok
      BY <1>18, <3>1, StateTypes DEF AutoCleanupReturns, TypeOK, Phases
    <3>2. CASE ~ok BY <1>18, <3>2, ScheduleType DEF AutoCleanupReturns
    <3> QED BY <3>1, <3>2
  <2>2. pc' \in Pcs /\ UNCHANGED <<queue, client, job>>
    BY <1>18 DEF AutoCleanupReturns, Supervise, Pcs, Calls
  <2> QED BY <1>18, <2>1, <2>2 DEF AutoCleanupReturns, ControllerStops, TypeOK
<1>19. ASSUME NEW ok \in BOOLEAN, AutoStartReturns(ok) PROVE TypeOK'
  <2>1. /\ attempts' \in 0..MaxAttempts /\ restart_at' \in BOOLEAN
        /\ state' \in CoreState
    <3>1. CASE ok
      BY <1>19, <3>1, StateTypes DEF AutoStartReturns, TypeOK
    <3>2. CASE ~ok BY <1>19, <3>2, ScheduleType DEF AutoStartReturns
    <3> QED BY <3>1, <3>2
  <2>2. failures' \in 0..(MaxFailures - 1) /\ started_at' \in {"none", "fresh", "stable"}
    <3>1. failures' = 0 \/ failures' = failures BY <1>19 DEF AutoStartReturns
    <3>2. started_at' = "fresh" \/ started_at' = started_at
      BY <1>19 DEF AutoStartReturns
    <3> QED BY <3>1, <3>2 DEF TypeOK
  <2>3. pc' \in Pcs /\ UNCHANGED <<queue, client, job>>
    BY <1>19 DEF AutoStartReturns, Supervise, Pcs
  <2>4. process' \in Channels \union {None}
    BY <1>19 DEF AutoStartReturns, ControllerStarts, TypeOK
  <2> QED BY <1>19, <2>1, <2>2, <2>3, <2>4 DEF AutoStartReturns, TypeOK
<1>20. CASE Abort
  <2>1. job' = NoJob BY <1>20 DEF Abort
  <2> QED BY <1>20, <2>1, EndTaskType, CommandTypes DEF Abort, TypeOK
<1>21. CASE HandleStep
  <2> USE DEF coordinator
  <2>1. ASSUME NEW c \in Clients, NEW command \in LifecycleCommand \union {Shutdown},
               Request(c, command)
        PROVE  TypeOK'
    <3>1. [at |-> "sending", command |-> command, answer |-> "none"] \in Holder
      BY CommandTypes DEF Holder, Answers
    <3> QED BY <2>1, <3>1 DEF Request, TypeOK
  <2>2. ASSUME NEW c \in Clients, Enqueue(c) PROVE TypeOK'
    <3>1. [client |-> c, command |-> client[c].command]
            \in [client : Clients, command : AnyCommand]
      BY DEF TypeOK, Holder
    <3>2. [client[c] EXCEPT !.at = "waiting"] \in Holder BY DEF TypeOK, Holder
    <3>3. client' = [client EXCEPT ![c] = [client[c] EXCEPT !.at = "waiting"]]
      BY <2>2 DEF Enqueue
    <3>4. client' \in [Clients -> Holder] BY <3>2, <3>3 DEF TypeOK
    <3> QED BY <2>2, <3>1, <3>4 DEF Enqueue, TypeOK
  <2>3. ASSUME NEW c \in Clients, SendFails(c) PROVE TypeOK'
    BY <2>3, OverType DEF SendFails, TypeOK, Answers
  <2>4. ASSUME NEW c \in Clients, DropHandle(c) PROVE TypeOK'
    <3>1. [at |-> "gone", command |-> NoCommand, answer |-> "none"] \in Holder
      BY CommandTypes DEF Holder, Answers
    <3> QED BY <2>4, <3>1 DEF DropHandle, TypeOK
  <2> QED BY <1>21, <2>1, <2>2, <2>3, <2>4 DEF HandleStep
<1>22. CASE ProcessExits BY <1>22 DEF ProcessExits, TypeOK
<1>23. CASE StableTimeElapses BY <1>23 DEF StableTimeElapses, TypeOK
<1>24. CASE UNCHANGED vars BY <1>24 DEF vars, TypeOK
<1> QED
  BY <1>1, <1>2, <1>3, <1>4, <1>5, <1>6, <1>7, <1>8, <1>9, <1>10, <1>11, <1>12,
     <1>13, <1>14, <1>15, <1>16, <1>17, <1>18, <1>19, <1>20, <1>21, <1>22, <1>23,
     <1>24 DEF Next, CoordinatorStep, CommandStep, SupervisionStep

\* Every variable of the coordinator keeps its type: in particular the health
\* failures stay below their limit and the attempts within the budget.
THEOREM TypeCorrect == Spec => []TypeOK
BY TypeInit, TypeStep, PTL DEF Spec

-----------------------------------------------------------------------------
(* The inductive invariant                                                  *)

\* The state published while the coordinator is suspended.
PhaseAtAwait ==
  /\ pc \in {"startCleanup", "autoCleanup"} => state.phase = "Failed"
  /\ pc \in {"startCall", "autoStart"} => state.phase = "Starting"
  /\ pc = "stopCall" => state.phase = "Stopping"
  /\ pc = "restarting" => state.phase = "Stopped"
  /\ pc = "reloadCall" => state.phase = "Reloading"
  /\ pc \in {"healthCheck", "healthCleanup"} => state.phase = "Running"

Restarting == pc = "stopCall" /\ job.command.op \in RestartOps

\* A call that will end in a running core is for a channel.
ChannelAtAwait ==
  /\ pc \in {"startCleanup", "startCall", "restarting"} \/ Restarting =>
       job.channel \in Channels
  /\ pc = "reloadCall" => job.channel = active_channel
  /\ pc \in {"autoCleanup", "autoStart"} => active_channel # None

\* The stop of a restart, and no other, belongs to a command that wants a core.
RestartIsWanted ==
  /\ Restarting => wanted
  /\ pc = "stopCall" /\ job.command.op \notin RestartOps => ~wanted

IInv ==
  /\ PhaseAtAwait
  /\ ChannelAtAwait
  /\ RestartIsWanted
  /\ SettledBetweenCommands
  /\ NoSecondCore
  /\ StateMatchesProcess
  /\ ScheduledOnlyWhenFailed
  /\ StopIsFinal

\* The inductive invariant holds when the coordinator is spawned.
LEMMA InvInit == Init => IInv
BY DEF Init, IInv, PhaseAtAwait, ChannelAtAwait, RestartIsWanted, Restarting,
       SettledBetweenCommands, NoSecondCore, StateMatchesProcess,
       ScheduledOnlyWhenFailed, StopIsFinal, Plain

\* The end of a command leaves the coordinator in its select, or done.
LEMMA RespondEffect ==
  ASSUME NEW answer, Respond(answer)
  PROVE  pc' \in {"select", "done"}
BY Zenon DEF Respond, EndTask

\* Every step of the coordinator, of a handle and of the world preserves it.
LEMMA InvStep == TypeOK /\ IInv /\ [Next]_vars => IInv'
<1> SUFFICES ASSUME TypeOK, IInv, [Next]_vars PROVE IInv'
  OBVIOUS
<1> USE ConstantsAssumption
    DEF IInv, PhaseAtAwait, ChannelAtAwait, RestartIsWanted, Restarting,
        SettledBetweenCommands, NoSecondCore, StateMatchesProcess,
        ScheduledOnlyWhenFailed, StopIsFinal, Plain, Running, supervision
<1>1. CASE TakeCommand
  BY <1>1 DEF TakeCommand
<1>2. CASE Start
  BY <1>2, CommandChannel, RespondEffect
     DEF Start, Dispatching, BeginStart, Await, ResetSupervision, TypeOK, Job
<1>3. CASE Stop
  BY <1>3, RespondEffect
     DEF Stop, Dispatching, BeginStop, Await, ResetSupervision, TypeOK, Job, RestartOps
<1>4. CASE Restart
  BY <1>4, CommandChannel, RespondEffect
     DEF Restart, Dispatching, BeginRestart, BeginStart, BeginStop, Await, ResetSupervision, TypeOK, Job, RestartOps
<1>5. CASE RestartCurrent
  BY <1>5, RespondEffect
     DEF RestartCurrent, Dispatching, BeginRestart, BeginStart, BeginStop, Await, ResetSupervision, TypeOK, Job, RestartOps
<1>6. CASE Reload
  BY <1>6, RespondEffect DEF Reload, Dispatching, Await, TypeOK, Job
<1>7. CASE AllHandlesDropped
  BY <1>7 DEF AllHandlesDropped, EndTask, NewJob, HandlesDropped, Op, RestartOps
<1>8. ASSUME NEW ok \in BOOLEAN, StartCleanupReturns(ok) PROVE IInv'
  BY <1>8, RespondEffect DEF StartCleanupReturns, ControllerStops, Await, Fail, TypeOK, Job
<1>9. ASSUME NEW ok \in BOOLEAN, StartReturns(ok) PROVE IInv'
  BY <1>9, RespondEffect DEF StartReturns, ControllerStarts, Fail
<1>10. ASSUME NEW ok \in BOOLEAN, StopReturns(ok) PROVE IInv'
  BY <1>10, RespondEffect DEF StopReturns, ControllerStops, Await, Fail, TypeOK, Job
<1>11. CASE RestartStarts
  BY <1>11, RespondEffect DEF RestartStarts, BeginStart, Await, TypeOK, Job
<1>12. ASSUME NEW ok \in BOOLEAN, ReloadReturns(ok) PROVE IInv'
  BY <1>12, RespondEffect DEF ReloadReturns, Fail
<1>13. CASE HealthTick
  BY <1>13 DEF HealthTick, Supervise
<1>14. CASE Healthy
  BY <1>14, Zenon DEF Healthy, Supervise
<1>15. ASSUME NEW exited \in BOOLEAN, Unhealthy(exited) PROVE IInv'
  BY <1>15 DEF Unhealthy, Supervise
<1>16. ASSUME NEW ok \in BOOLEAN, HealthCleanupReturns(ok) PROVE IInv'
  BY <1>16 DEF HealthCleanupReturns, ControllerStops, ScheduleRestart, Supervise
<1>17. CASE RunScheduledRestart
  BY <1>17 DEF RunScheduledRestart, Supervise
<1>18. ASSUME NEW ok \in BOOLEAN, AutoCleanupReturns(ok) PROVE IInv'
  BY <1>18 DEF AutoCleanupReturns, ControllerStops, ScheduleRestart, Supervise
<1>19. ASSUME NEW ok \in BOOLEAN, AutoStartReturns(ok) PROVE IInv'
  BY <1>19 DEF AutoStartReturns, ControllerStarts, ScheduleRestart, Supervise
<1>20. CASE Abort
  BY <1>20 DEF Abort, EndTask
<1>21. CASE HandleStep
  BY <1>21 DEF HandleStep, Request, Enqueue, SendFails, DropHandle, coordinator
<1>22. CASE ProcessExits
  BY <1>22 DEF ProcessExits
<1>23. CASE StableTimeElapses
  BY <1>23 DEF StableTimeElapses
<1>24. CASE UNCHANGED vars
  BY <1>24 DEF vars
<1> QED
  BY <1>1, <1>2, <1>3, <1>4, <1>5, <1>6, <1>7, <1>8, <1>9, <1>10, <1>11, <1>12,
     <1>13, <1>14, <1>15, <1>16, <1>17, <1>18, <1>19, <1>20, <1>21, <1>22, <1>23,
     <1>24 DEF Next, CoordinatorStep, CommandStep, SupervisionStep

\* The types and the inductive invariant hold for good.
LEMMA Invariance == Spec => [](TypeOK /\ IInv)
<1>1. Init => TypeOK /\ IInv BY TypeInit, InvInit
<1>2. TypeOK /\ IInv /\ [Next]_vars => (TypeOK /\ IInv)' BY TypeStep, InvStep
<1> QED BY <1>1, <1>2, PTL DEF Spec

\* No core is started over another one.
THEOREM CoreIsAlone == Spec => []NoSecondCore
BY Invariance, PTL DEF IInv

\* The published state is true of the core process.
THEOREM PublishedStateIsTrue == Spec => []StateMatchesProcess
BY Invariance, PTL DEF IInv

\* An automatic restart is scheduled only for a core published as failed.
THEOREM ScheduleIsForFailedCore == Spec => []ScheduledOnlyWhenFailed
BY Invariance, PTL DEF IInv

\* A stop ends the supervision until the next start.
THEOREM StopEndsSupervision == Spec => []StopIsFinal
BY Invariance, PTL DEF IInv

\* A command always finds the core in a settled state.
THEOREM CommandsFindSettledCore == Spec => []SettledBetweenCommands
BY Invariance, PTL DEF IInv

-----------------------------------------------------------------------------
(* The budget                                                               *)

Timed ==
  state.phase \in {"Running", "Reloading"} => attempts = 0 \/ started_at # "none"

\* A core that runs or is reloaded with attempts spent stays timed.
LEMMA TimedStep == TypeOK /\ IInv /\ Timed /\ [Next]_vars => Timed'
<1> SUFFICES ASSUME TypeOK, IInv, Timed, [Next]_vars PROVE Timed'
  OBVIOUS
<1> USE DEF Timed, Plain, Running, supervision
<1>1. CASE TakeCommand BY <1>1 DEF TakeCommand
<1>2. CASE Start \/ Stop \/ Restart
  BY <1>2 DEF Start, Stop, Restart, ResetSupervision
<1>3. CASE RestartCurrent
  BY <1>3 DEF RestartCurrent, ResetSupervision
<1>4. CASE Reload BY <1>4 DEF Reload
<1>5. CASE AllHandlesDropped BY <1>5 DEF AllHandlesDropped
<1>6. ASSUME NEW ok \in BOOLEAN, StartCleanupReturns(ok) PROVE Timed'
  BY <1>6 DEF StartCleanupReturns, Fail
<1>7. ASSUME NEW ok \in BOOLEAN, StartReturns(ok) PROVE Timed'
  BY <1>7 DEF StartReturns, Fail
<1>8. ASSUME NEW ok \in BOOLEAN, StopReturns(ok) PROVE Timed'
  BY <1>8 DEF StopReturns, Fail
<1>9. CASE RestartStarts
  BY <1>9 DEF RestartStarts, BeginStart
<1>10. ASSUME NEW ok \in BOOLEAN, ReloadReturns(ok) PROVE Timed'
  BY <1>10 DEF ReloadReturns, Fail, IInv, PhaseAtAwait
<1>11. CASE HealthTick BY <1>11 DEF HealthTick
<1>12. CASE Healthy BY <1>12 DEF Healthy
<1>13. ASSUME NEW exited \in BOOLEAN, Unhealthy(exited) PROVE Timed'
  BY <1>13 DEF Unhealthy
<1>14. ASSUME NEW ok \in BOOLEAN, HealthCleanupReturns(ok) PROVE Timed'
  BY <1>14 DEF HealthCleanupReturns, ScheduleRestart
<1>15. CASE RunScheduledRestart BY <1>15 DEF RunScheduledRestart
<1>16. ASSUME NEW ok \in BOOLEAN, AutoCleanupReturns(ok) PROVE Timed'
  BY <1>16 DEF AutoCleanupReturns, ScheduleRestart
<1>17. ASSUME NEW ok \in BOOLEAN, AutoStartReturns(ok) PROVE Timed'
  BY <1>17 DEF AutoStartReturns, ScheduleRestart
<1>18. CASE Abort BY <1>18 DEF Abort
<1>19. CASE HandleStep
  BY <1>19 DEF HandleStep, Request, Enqueue, SendFails, DropHandle, coordinator
<1>20. CASE ProcessExits BY <1>20 DEF ProcessExits
<1>21. CASE StableTimeElapses BY <1>21 DEF StableTimeElapses
<1>22. CASE UNCHANGED vars BY <1>22 DEF vars
<1> QED
  BY <1>1, <1>2, <1>3, <1>4, <1>5, <1>6, <1>7, <1>8, <1>9, <1>10, <1>11, <1>12,
     <1>13, <1>14, <1>15, <1>16, <1>17, <1>18, <1>19, <1>20, <1>21, <1>22
     DEF Next, CoordinatorStep, CommandStep, SupervisionStep

\* A running core with restarts spent is timed and can earn them back.
THEOREM BudgetIsRecoverable == Spec => []BudgetCanBeEarnedBack
<1>1. Init => Timed BY DEF Init, Timed, Plain
<1>2. Timed => BudgetCanBeEarnedBack BY DEF Timed, BudgetCanBeEarnedBack
<1> QED BY <1>1, <1>2, TimedStep, Invariance, PTL DEF Spec

-----------------------------------------------------------------------------
(* Refinement                                                               *)

\* A spawned coordinator is a stopped lifecycle.
LEMMA LifecycleInit == Init => Lifecycle!Init
BY DEF Init, Plain, Turn, Lifecycle!Init

\* schedule_restart plans a restart while budget is left.
LEMMA ScheduleIsPlan ==
  ASSUME TypeOK, ScheduleRestart
  PROVE  Lifecycle!PlanRestart
<1>1. attempts \in Nat /\ MaxAttempts \in Nat BY ConstantsAssumption DEF TypeOK
<1>2. CASE attempts >= MaxAttempts
  <2>1. ~(attempts < MaxAttempts) BY <1>1, <1>2
  <2>2. ~restart_at' /\ attempts' = attempts BY <1>2, Zenon DEF ScheduleRestart
  <2> QED BY <2>1, <2>2, Zenon DEF Lifecycle!PlanRestart
<1>3. CASE ~(attempts >= MaxAttempts)
  <2>1. attempts < MaxAttempts BY <1>1, <1>3
  <2>2. restart_at' /\ attempts' = attempts + 1 BY <1>3, Zenon DEF ScheduleRestart
  <2> QED BY <2>1, <2>2, Zenon DEF Lifecycle!PlanRestart
<1> QED BY <1>2, <1>3

\* Every step is one the lifecycle allows, or changes nothing it can see.
LEMMA LifecycleStep ==
  TypeOK /\ IInv /\ [Next]_vars => [Lifecycle!Next]_(Lifecycle!vars)
<1> SUFFICES ASSUME TypeOK, IInv, [Next]_vars
             PROVE  Lifecycle!Next \/ UNCHANGED Lifecycle!vars
  OBVIOUS
<1> USE ConstantsAssumption
    DEF IInv, PhaseAtAwait, RestartIsWanted, Restarting, SettledBetweenCommands,
        StateMatchesProcess, ScheduledOnlyWhenFailed, StopIsFinal, Plain, Running,
        supervision, Turn, Lifecycle!vars, Lifecycle!Settled
<1>1. CASE TakeCommand
  BY <1>1 DEF TakeCommand
<1>2. CASE Start
  <2>1. Lifecycle!Ask(TRUE)
    BY <1>2, RespondEffect
       DEF Start, Dispatching, BeginStart, Await, ResetSupervision, Lifecycle!Ask
  <2> QED BY <2>1 DEF Lifecycle!Next
<1>3. CASE Stop
  <2>1. Lifecycle!Ask(FALSE)
    BY <1>3, RespondEffect
       DEF Stop, Dispatching, BeginStop, Await, ResetSupervision, Lifecycle!Ask
  <2> QED BY <2>1 DEF Lifecycle!Next
<1>4. CASE Restart
  <2>1. Lifecycle!Ask(TRUE)
    BY <1>4, RespondEffect
       DEF Restart, Dispatching, BeginRestart, BeginStart, BeginStop, Await,
           ResetSupervision, Lifecycle!Ask
  <2> QED BY <2>1 DEF Lifecycle!Next
<1>5. CASE RestartCurrent
  <2>1. CASE active_channel = None
    <3>1. Respond("invalid") /\ UNCHANGED <<state, supervision, wanted>>
      BY <1>5, <2>1 DEF RestartCurrent
    <3>2. pc = "dispatch" BY <1>5 DEF RestartCurrent, Dispatching
    <3>3. CASE pc' = "select" BY <3>1, <3>2, <3>3
    <3>4. CASE pc' = "done"
      <4>1. Lifecycle!CutOff BY <3>1, <3>4 DEF Lifecycle!CutOff
      <4> QED BY <4>1 DEF Lifecycle!Next
    <3> QED BY <3>1, <3>3, <3>4, RespondEffect
  <2>2. CASE active_channel # None
    <3>1. Lifecycle!Ask(TRUE)
      BY <1>5, <2>2, RespondEffect
         DEF RestartCurrent, Dispatching, BeginRestart, BeginStart, BeginStop,
             Await, ResetSupervision, Lifecycle!Ask
    <3> QED BY <3>1 DEF Lifecycle!Next
  <2> QED BY <2>1, <2>2
<1>6. CASE Reload
  <2>1. CASE state = Running(active_channel)
    <3>1. Lifecycle!AskReload
      BY <1>6, <2>1 DEF Reload, Dispatching, Await, Lifecycle!AskReload
    <3> QED BY <3>1 DEF Lifecycle!Next
  <2>2. CASE state # Running(active_channel)
    <3>1. Respond("invalid") /\ UNCHANGED <<state, supervision, wanted>>
      BY <1>6, <2>2 DEF Reload
    <3>2. pc = "dispatch" BY <1>6 DEF Reload, Dispatching
    <3>3. CASE pc' = "select" BY <3>1, <3>2, <3>3
    <3>4. CASE pc' = "done"
      <4>1. Lifecycle!CutOff BY <3>1, <3>4 DEF Lifecycle!CutOff
      <4> QED BY <4>1 DEF Lifecycle!Next
    <3> QED BY <3>1, <3>3, <3>4, RespondEffect
  <2> QED BY <2>1, <2>2
<1>7. CASE AllHandlesDropped
  <2>1. Lifecycle!LastUserLeaves
    BY <1>7 DEF AllHandlesDropped, EndTask, Lifecycle!LastUserLeaves
  <2> QED BY <2>1 DEF Lifecycle!Next
<1>8. ASSUME NEW ok \in BOOLEAN, StartCleanupReturns(ok)
      PROVE  Lifecycle!Next \/ UNCHANGED Lifecycle!vars
  <2>1. Lifecycle!Begin \/ Lifecycle!Conclude
    BY <1>8, RespondEffect DEF StartCleanupReturns, Await, Fail,
       Lifecycle!Begin, Lifecycle!Conclude
  <2> QED BY <2>1 DEF Lifecycle!Next
<1>9. ASSUME NEW ok \in BOOLEAN, StartReturns(ok)
      PROVE  Lifecycle!Next \/ UNCHANGED Lifecycle!vars
  <2>1. Lifecycle!Conclude
    BY <1>9, RespondEffect DEF StartReturns, Fail, Lifecycle!Conclude
  <2> QED BY <2>1 DEF Lifecycle!Next
<1>10. ASSUME NEW ok \in BOOLEAN, StopReturns(ok)
       PROVE  Lifecycle!Next \/ UNCHANGED Lifecycle!vars
  <2>1. Lifecycle!StopFirst \/ Lifecycle!Conclude
    BY <1>10, RespondEffect DEF StopReturns, Await, Fail,
       Lifecycle!StopFirst, Lifecycle!Conclude
  <2> QED BY <2>1 DEF Lifecycle!Next
<1>11. CASE RestartStarts
  <2>1. Lifecycle!Begin
    BY <1>11 DEF RestartStarts, BeginStart, Await, Lifecycle!Begin
  <2> QED BY <2>1 DEF Lifecycle!Next
<1>12. ASSUME NEW ok \in BOOLEAN, ReloadReturns(ok)
       PROVE  Lifecycle!Next \/ UNCHANGED Lifecycle!vars
  <2>1. Lifecycle!Conclude
    BY <1>12, RespondEffect DEF ReloadReturns, Fail, Lifecycle!Conclude
  <2> QED BY <2>1 DEF Lifecycle!Next
<1>13. CASE HealthTick
  BY <1>13 DEF HealthTick, Supervise
<1>14. CASE Healthy
  <2>1. CASE attempts' = attempts BY <1>14, <2>1 DEF Healthy, Supervise
  <2>2. CASE attempts' = 0
    <3>1. Lifecycle!EarnBack
      BY <1>14, <2>2 DEF Healthy, Supervise, Lifecycle!EarnBack
    <3> QED BY <3>1 DEF Lifecycle!Next
  <2> QED BY <1>14, <2>1, <2>2 DEF Healthy
<1>15. ASSUME NEW exited \in BOOLEAN, Unhealthy(exited)
       PROVE  Lifecycle!Next \/ UNCHANGED Lifecycle!vars
  BY <1>15 DEF Unhealthy, Supervise
<1>16. ASSUME NEW ok \in BOOLEAN, HealthCleanupReturns(ok)
       PROVE  Lifecycle!Next \/ UNCHANGED Lifecycle!vars
  <2>1. Lifecycle!PlanRestart BY <1>16, ScheduleIsPlan DEF HealthCleanupReturns
  <2>2. Lifecycle!NoticeFailure
    BY <1>16, <2>1 DEF HealthCleanupReturns, ScheduleRestart, Supervise,
       Lifecycle!NoticeFailure
  <2> QED BY <2>2 DEF Lifecycle!Next
<1>17. CASE RunScheduledRestart
  <2>1. Lifecycle!Retry
    BY <1>17 DEF RunScheduledRestart, Supervise, Lifecycle!Retry
  <2> QED BY <2>1 DEF Lifecycle!Next
<1>18. ASSUME NEW ok \in BOOLEAN, AutoCleanupReturns(ok)
       PROVE  Lifecycle!Next \/ UNCHANGED Lifecycle!vars
  <2>1. CASE ok
    <3>1. Lifecycle!RetryStep
      BY <1>18, <2>1 DEF AutoCleanupReturns, Supervise, Lifecycle!RetryStep
    <3> QED BY <3>1 DEF Lifecycle!Next
  <2>2. CASE ~ok
    <3>1. Lifecycle!PlanRestart
      BY <1>18, <2>2, ScheduleIsPlan DEF AutoCleanupReturns
    <3>2. Lifecycle!RetryStep
      BY <1>18, <2>2, <3>1 DEF AutoCleanupReturns, ScheduleRestart, Supervise,
         Lifecycle!RetryStep
    <3> QED BY <3>2 DEF Lifecycle!Next
  <2> QED BY <2>1, <2>2
<1>19. ASSUME NEW ok \in BOOLEAN, AutoStartReturns(ok)
       PROVE  Lifecycle!Next \/ UNCHANGED Lifecycle!vars
  <2>1. CASE ok
    <3>1. Lifecycle!RetryStep
      BY <1>19, <2>1 DEF AutoStartReturns, Supervise, Lifecycle!RetryStep
    <3> QED BY <3>1 DEF Lifecycle!Next
  <2>2. CASE ~ok
    <3>1. Lifecycle!PlanRestart
      BY <1>19, <2>2, ScheduleIsPlan DEF AutoStartReturns
    <3>2. Lifecycle!RetryStep
      BY <1>19, <2>2, <3>1 DEF AutoStartReturns, ScheduleRestart, Supervise,
         Lifecycle!RetryStep
    <3> QED BY <3>2 DEF Lifecycle!Next
  <2> QED BY <2>1, <2>2
<1>20. CASE Abort
  <2>1. Lifecycle!CutOff
    BY <1>20 DEF Abort, EndTask, Lifecycle!CutOff
  <2> QED BY <2>1 DEF Lifecycle!Next
<1>21. CASE HandleStep
  BY <1>21 DEF HandleStep, Request, Enqueue, SendFails, DropHandle, coordinator
<1>22. CASE ProcessExits BY <1>22 DEF ProcessExits
<1>23. CASE StableTimeElapses BY <1>23 DEF StableTimeElapses
<1>24. CASE UNCHANGED vars BY <1>24 DEF vars
<1> QED
  BY <1>1, <1>2, <1>3, <1>4, <1>5, <1>6, <1>7, <1>8, <1>9, <1>10, <1>11, <1>12,
     <1>13, <1>14, <1>15, <1>16, <1>17, <1>18, <1>19, <1>20, <1>21, <1>22, <1>23,
     <1>24 DEF Next, CoordinatorStep, CommandStep, SupervisionStep

\* The coordinator implements the lifecycle it promises: bounded automatic
\* restarts, no start after a stop, and only the published transitions.
THEOREM CoordinatorImplementsLifecycle == Spec => ImplementsLifecycle
BY Invariance, LifecycleInit, LifecycleStep, PTL DEF Spec, ImplementsLifecycle,
   Lifecycle!Spec

-----------------------------------------------------------------------------
(* The answers                                                              *)

\* An envelope is its client's, who waits for the answer or has gone away.
Envelope(holders, e) ==
  /\ holders[e.client].at \in {"waiting", "gone"}
  /\ holders[e.client].at = "waiting" => holders[e.client].command = e.command

\* Every request has one envelope, in the queue or in hand.
OneEnvelope ==
  /\ \A c \in Clients : client[c].at \in {"sending", "waiting"} => client[c].answer = "none"
  /\ \A i \in DOMAIN queue : Envelope(client, queue[i]) /\ queue[i].client # job.client
  /\ \A i, j \in DOMAIN queue : queue[i].client = queue[j].client => i = j
  /\ job.client \in Clients => Envelope(client, job)

\* What is awaited is part of the command in hand.
JobAtAwait ==
  /\ pc \in {"startCleanup", "startCall", "restarting"} =>
       job.command.op \in {"Start"} \union RestartOps
  /\ pc = "stopCall" => job.command.op \notin {"Start", "Reload"}
  /\ pc = "reloadCall" => job.command.op = "Reload"
  /\ pc \in {"startCleanup", "startCall", "restarting", "stopCall"}
       /\ job.command.op \in {"Start", "Restart"} => job.channel = job.command.channel
  /\ state.phase # "Running" => state.channel = None

\* An envelope has a client.
LEMMA EnvelopeClients ==
  ASSUME TypeOK
  PROVE  \A i \in DOMAIN queue : queue[i].client \in Clients
<1>0. ASSUME NEW S, queue \in Seq(S) PROVE \A i \in DOMAIN queue : queue[i] \in S
  BY <1>0
<1>1. \A i \in DOMAIN queue : queue[i] \in [client : Clients, command : AnyCommand]
  BY <1>0 DEF TypeOK
<1>2. \A e \in [client : Clients, command : AnyCommand] : e.client \in Clients OBVIOUS
<1> QED BY <1>1, <1>2

\* The task ends and nothing is queued or in hand any more.
LEMMA EndTaskEnvelopes ==
  ASSUME NEW holders \in [Clients -> Holder], EndTask(holders),
         \A c \in Clients : holders[c].at = "sending" => holders[c].answer = "none",
         job'.client = None
  PROVE  OneEnvelope'
<1>1. queue' = <<>> /\ client' = [c \in Clients |-> IF holders[c].at = "waiting"
                                    THEN Over(c, "dropped") ELSE holders[c]]
  BY DEF EndTask
<1>2. \A c \in Clients : client'[c].at \in {"sending", "waiting"} => client'[c].answer = "none"
  BY <1>1 DEF Over
<1>3. DOMAIN queue' = {} BY <1>1
<1>4. job'.client \notin Clients BY ConstantsAssumption
<1> QED BY <1>2, <1>3, <1>4 DEF OneEnvelope

\* So it is after the end of a command.
LEMMA RespondEnvelopes ==
  ASSUME TypeOK, OneEnvelope, NEW answer \in Answers, Respond(answer)
  PROVE  OneEnvelope'
<1> DEFINE answered ==
      [c \in Clients |-> IF c = job.client /\ client[c].at = "waiting"
                         THEN Over(c, answer) ELSE client[c]]
<1>1. answered \in [Clients -> Holder] BY OverType DEF TypeOK
<1>2. job'.client = None BY DEF Respond, NoJob, NewJob
<1>3. \A c \in Clients :
        /\ answered[c].at \in {"sending", "waiting"} => answered[c] = client[c]
        /\ c # job.client => answered[c] = client[c]
  BY DEF Over
<1>4. \A c \in Clients :
        answered[c].at \in {"sending", "waiting"} => answered[c].answer = "none"
  BY <1>3 DEF OneEnvelope
<1>5. CASE job.command.op \in FinalOps
  <2>1. EndTask(answered) BY <1>5 DEF Respond
  <2> HIDE DEF answered
  <2> QED BY <1>1, <1>2, <1>4, <2>1, EndTaskEnvelopes
<1>6. CASE job.command.op \notin FinalOps
  <2>1. client' = answered /\ queue' = queue BY <1>6 DEF Respond
  <2> HIDE DEF answered
  <2>3. \A i \in DOMAIN queue : /\ queue[i].client \in Clients
                                /\ client'[queue[i].client] = client[queue[i].client]
    <3> TAKE i \in DOMAIN queue
    <3>1. queue[i].client \in Clients BY EnvelopeClients
    <3>2. queue[i].client # job.client BY DEF OneEnvelope
    <3> QED BY <1>3, <2>1, <3>1, <3>2
  <2>4. \A i \in DOMAIN queue' : Envelope(client', queue'[i]) /\ queue'[i].client # job'.client
    BY <1>2, <2>1, <2>3, ConstantsAssumption DEF OneEnvelope, Envelope
  <2>5. job'.client \notin Clients BY <1>2, ConstantsAssumption
  <2> QED BY <1>4, <2>1, <2>4, <2>5 DEF OneEnvelope
<1> QED BY <1>5, <1>6

\* A command that awaits a call leaves the envelopes alone, as supervision does.
LEMMA StillEnvelopes ==
  ASSUME OneEnvelope, UNCHANGED <<queue, client>>, job'.client = job.client,
         job'.command = job.command
  PROVE  OneEnvelope'
BY DEF OneEnvelope, Envelope

\* A command's step awaits a call or ends the command.
LEMMA CommandEnvelopes ==
  ASSUME TypeOK, OneEnvelope,
         \/ \E call, channel : Await(call, channel)
         \/ \E answer \in Answers : Respond(answer)
  PROVE  OneEnvelope'
<1>1. ASSUME NEW call, NEW channel, Await(call, channel) PROVE OneEnvelope'
  <2>1. job'.client = job.client /\ job'.command = job.command
    BY <1>1 DEF Await, TypeOK, Job
  <2> QED BY <1>1, <2>1, StillEnvelopes DEF Await
<1> QED BY <1>1, RespondEnvelopes

\* The first half of a start, a stop or a restart awaits a call or answers; a failure answers.
LEMMA BeginsOrEnds ==
  /\ \A channel : BeginStart(channel) \/ BeginStop(channel) \/ BeginRestart(channel) =>
       \/ \E call, to : Await(call, to)
       \/ \E answer \in Answers : Respond(answer)
  /\ Fail => \E answer \in Answers : Respond(answer)
<1>1. {"ok", "invalid", "failed"} \subseteq Answers BY DEF Answers
<1>2. ASSUME NEW channel, BeginStart(channel)
      PROVE  \/ \E call, to : Await(call, to)
             \/ \E answer \in Answers : Respond(answer)
  BY <1>1, <1>2 DEF BeginStart
<1>3. ASSUME NEW channel, BeginStop(channel)
      PROVE  \/ \E call, to : Await(call, to)
             \/ \E answer \in Answers : Respond(answer)
  BY <1>1, <1>3 DEF BeginStop
<1>4. Fail => \E answer \in Answers : Respond(answer) BY <1>1 DEF Fail
<1> QED BY <1>2, <1>3, <1>4 DEF BeginRestart

\* Every step keeps one envelope for every request.
LEMMA EnvelopeStep == TypeOK /\ OneEnvelope /\ [Next]_vars => OneEnvelope'
<1> SUFFICES ASSUME TypeOK, OneEnvelope, [Next]_vars PROVE OneEnvelope'
  OBVIOUS
<1>1. {"ok", "invalid", "failed"} \subseteq Answers BY DEF Answers
<1>2. CASE TakeCommand
  <2>1. /\ Len(queue) \in Nat \ {0} /\ queue' = Tail(queue)
        /\ job'.client = queue[1].client /\ job'.command = queue[1].command
        /\ UNCHANGED client
    BY <1>2 DEF TakeCommand, NewJob, TypeOK
  <2>2. /\ DOMAIN queue = 1..Len(queue) /\ DOMAIN queue' = 1..(Len(queue) - 1)
        /\ \A i \in DOMAIN queue' : queue'[i] = queue[i + 1] /\ i + 1 \in DOMAIN queue
    BY <2>1 DEF TypeOK
  <2>3. 1 \in DOMAIN queue BY <2>1, <2>2
  <2>4. \A i \in DOMAIN queue' : Envelope(client', queue'[i]) /\ queue'[i].client # job'.client
    <3> TAKE i \in DOMAIN queue'
    <3>1. i + 1 \in DOMAIN queue /\ i + 1 # 1 BY <2>2
    <3> QED BY <2>1, <2>2, <2>3, <3>1 DEF OneEnvelope, Envelope
  <2>5. Envelope(client', job') BY <2>1, <2>3 DEF OneEnvelope, Envelope
  <2>6. \A i, j \in DOMAIN queue' : queue'[i].client = queue'[j].client => i = j
    <3> TAKE i, j \in DOMAIN queue'
    <3>1. i \in Nat /\ j \in Nat /\ i + 1 \in DOMAIN queue /\ j + 1 \in DOMAIN queue
      BY <2>1, <2>2
    <3>2. queue'[i].client = queue'[j].client => i + 1 = j + 1
      BY <2>2, <3>1 DEF OneEnvelope
    <3> QED BY <3>1, <3>2
  <2> QED BY <2>1, <2>4, <2>5, <2>6 DEF OneEnvelope
<1>3. CASE Start \/ Stop \/ Restart \/ RestartStarts
  BY <1>3, BeginsOrEnds, CommandEnvelopes DEF Start, Stop, Restart, RestartStarts
<1>4. CASE RestartCurrent
  BY <1>1, <1>4, BeginsOrEnds, CommandEnvelopes DEF RestartCurrent
<1>5. CASE Reload
  BY <1>1, <1>5, CommandEnvelopes DEF Reload
<1>6. CASE AllHandlesDropped
  <2>1. \A c \in Clients : client[c].at = "gone" BY <1>6 DEF AllHandlesDropped
  <2>2. CASE state.phase \in {"Running", "Failed"}
    <3>1. job'.client = None /\ UNCHANGED <<queue, client>> /\ queue = <<>>
      BY <1>6, <2>2 DEF AllHandlesDropped, NewJob
    <3> QED BY <3>1, ConstantsAssumption DEF OneEnvelope
  <2>3. CASE state.phase \notin {"Running", "Failed"}
    <3>1. EndTask(client) /\ job' = job /\ queue = <<>> BY <1>6, <2>3 DEF AllHandlesDropped
    <3>2. client' = client /\ queue' = queue BY <2>1, <3>1 DEF EndTask, TypeOK
    <3> QED BY <3>1, <3>2, StillEnvelopes
  <2> QED BY <2>2, <2>3
<1>7. ASSUME NEW ok \in BOOLEAN,
             StartCleanupReturns(ok) \/ StartReturns(ok) \/ StopReturns(ok) \/ ReloadReturns(ok)
      PROVE  OneEnvelope'
  <2>1. \/ \E call, to : Await(call, to)
        \/ \E answer \in Answers : Respond(answer)
    <3>1. CASE StartCleanupReturns(ok) BY <3>1, BeginsOrEnds DEF StartCleanupReturns
    <3>2. CASE StartReturns(ok) BY <1>1, <3>2, BeginsOrEnds DEF StartReturns
    <3>3. CASE StopReturns(ok) BY <1>1, <3>3, BeginsOrEnds DEF StopReturns
    <3>4. CASE ReloadReturns(ok) BY <1>1, <3>4, BeginsOrEnds DEF ReloadReturns
    <3> QED BY <1>7, <3>1, <3>2, <3>3, <3>4
  <2> QED BY <2>1, CommandEnvelopes
<1>8. CASE SupervisionStep
  BY <1>8, StillEnvelopes
     DEF SupervisionStep, HealthTick, Healthy, RunScheduledRestart, Unhealthy,
         HealthCleanupReturns, AutoCleanupReturns, AutoStartReturns, Supervise
<1>9. CASE Abort
  <2>1. EndTask(client) /\ job'.client = None BY <1>9 DEF Abort, NoJob, NewJob
  <2> QED BY <2>1, EndTaskEnvelopes DEF TypeOK, OneEnvelope
<1>10. CASE HandleStep
  <2> PICK c \in Clients :
        \/ \E command \in LifecycleCommand \union {Shutdown} : Request(c, command)
        \/ Enqueue(c) \/ SendFails(c) \/ DropHandle(c)
    BY <1>10 DEF HandleStep
  <2>1. /\ job' = job
        /\ \A other \in Clients : other # c => client'[other] = client[other]
    BY DEF Request, Enqueue, SendFails, DropHandle, coordinator, TypeOK
  <2>2. \A i \in DOMAIN queue : queue[i].client \in Clients BY EnvelopeClients
  <2>3. CASE DropHandle(c)
    <3>1. queue' = queue /\ client'[c].at = "gone"
      BY <2>3 DEF DropHandle, TypeOK
    <3> QED BY <2>1, <2>2, <3>1 DEF OneEnvelope, Envelope
  <2>4. CASE ~DropHandle(c)
    <3>1. /\ client[c].at \in {"ready", "sending"}
          /\ client'[c].at \in {"sending", "waiting"} => client'[c].answer = "none"
      <4>1. ASSUME NEW command, Request(c, command)
            PROVE  client[c].at = "ready" /\ client'[c].answer = "none"
        BY <4>1 DEF Request, TypeOK
      <4>2. CASE Enqueue(c)
        BY <4>2 DEF Enqueue, TypeOK, Holder, OneEnvelope
      <4>3. CASE SendFails(c)
        BY <4>3 DEF SendFails, Over, TypeOK
      <4> QED BY <2>4, <4>1, <4>2, <4>3
    <3>2. /\ \A i \in DOMAIN queue : queue[i].client # c
          /\ job.client # c
      BY <3>1 DEF OneEnvelope, Envelope
    <3>3. \A i \in DOMAIN queue : Envelope(client', queue[i])
      BY <2>1, <2>2, <3>2 DEF OneEnvelope, Envelope
    <3>4. job'.client \in Clients => Envelope(client', job')
      BY <2>1, <3>2 DEF OneEnvelope, Envelope
    <3>5. CASE Enqueue(c)
      <4>1. /\ queue' = Append(queue, [client |-> c, command |-> client[c].command])
            /\ client'[c].at = "waiting" /\ client'[c].command = client[c].command
        BY <3>5 DEF Enqueue, TypeOK, Holder
      <4>2. /\ Len(queue) \in Nat /\ DOMAIN queue = 1..Len(queue)
            /\ DOMAIN queue' = 1..(Len(queue) + 1)
            /\ \A i \in DOMAIN queue : queue'[i] = queue[i]
            /\ queue'[Len(queue) + 1].client = c
            /\ queue'[Len(queue) + 1].command = client[c].command
        BY <4>1 DEF TypeOK
      <4>3. \A i \in DOMAIN queue' : i \in DOMAIN queue \/ i = Len(queue) + 1
        BY <4>2
      <4>4. \A i \in DOMAIN queue' : /\ queue'[i].client # job.client
                                     /\ Envelope(client', queue'[i])
        <5> TAKE i \in DOMAIN queue'
        <5>1. CASE i \in DOMAIN queue
          BY <4>2, <3>3, <5>1 DEF OneEnvelope, Envelope
        <5>2. CASE i = Len(queue) + 1
          BY <4>1, <4>2, <3>2, <5>2 DEF Envelope
        <5> QED BY <4>3, <5>1, <5>2
      <4>5. \A i, j \in DOMAIN queue' : queue'[i].client = queue'[j].client => i = j
        BY <3>2, <4>2, <4>3 DEF OneEnvelope
      <4> QED BY <2>1, <3>1, <3>4, <4>4, <4>5 DEF OneEnvelope
    <3>6. CASE ~Enqueue(c)
      <4>1. queue' = queue BY <2>4, <3>6 DEF Request, SendFails
      <4> QED BY <2>1, <3>1, <3>2, <3>3, <3>4, <4>1 DEF OneEnvelope, Envelope
    <3> QED BY <3>5, <3>6
  <2> QED BY <2>3, <2>4
<1>11. CASE ProcessExits \/ StableTimeElapses \/ UNCHANGED vars
  BY <1>11, StillEnvelopes DEF ProcessExits, StableTimeElapses, vars
<1> QED
  BY <1>2, <1>3, <1>4, <1>5, <1>6, <1>7, <1>8, <1>9, <1>10, <1>11
     DEF Next, CoordinatorStep, CommandStep

\* The end of a command awaits nothing.
LEMMA RespondEnds ==
  ASSUME NEW answer, Respond(answer)
  PROVE  pc' \notin {"startCleanup", "startCall", "restarting", "stopCall", "reloadCall"}
BY RespondEffect

\* Every step keeps what is awaited part of the command in hand.
LEMMA JobStep == TypeOK /\ IInv /\ JobAtAwait /\ [Next]_vars => JobAtAwait'
<1> SUFFICES ASSUME TypeOK, IInv, JobAtAwait, [Next]_vars PROVE JobAtAwait'
  OBVIOUS
<1> USE DEF JobAtAwait, Plain, Running
<1>1. CASE TakeCommand BY <1>1 DEF TakeCommand
<1>2. CASE Start
  BY <1>2, RespondEnds DEF Start, Dispatching, BeginStart, Await, TypeOK, Job
<1>3. CASE Stop
  BY <1>3, RespondEnds DEF Stop, Dispatching, BeginStop, Await, TypeOK, Job
<1>4. CASE Restart
  BY <1>4, RespondEnds
     DEF Restart, Dispatching, BeginRestart, BeginStart, BeginStop, Await, TypeOK, Job, RestartOps
<1>5. CASE RestartCurrent
  BY <1>5, RespondEnds
     DEF RestartCurrent, Dispatching, BeginRestart, BeginStart, BeginStop, Await, TypeOK, Job,
         RestartOps
<1>6. CASE Reload
  BY <1>6, RespondEnds DEF Reload, Dispatching, Await, TypeOK, Job
<1>7. CASE AllHandlesDropped
  BY <1>7 DEF AllHandlesDropped, EndTask, NewJob, HandlesDropped, Op
<1>8. ASSUME NEW ok \in BOOLEAN, StartCleanupReturns(ok) PROVE JobAtAwait'
  BY <1>8, RespondEnds DEF StartCleanupReturns, Await, Fail, TypeOK, Job
<1>9. ASSUME NEW ok \in BOOLEAN, StartReturns(ok) PROVE JobAtAwait'
  BY <1>9, RespondEnds DEF StartReturns, Fail
<1>10. ASSUME NEW ok \in BOOLEAN, StopReturns(ok) PROVE JobAtAwait'
  BY <1>10, RespondEnds DEF StopReturns, Await, Fail, TypeOK, Job, RestartOps
<1>11. CASE RestartStarts
  BY <1>11, RespondEnds DEF RestartStarts, BeginStart, Await, TypeOK, Job
<1>12. ASSUME NEW ok \in BOOLEAN, ReloadReturns(ok) PROVE JobAtAwait'
  BY <1>12, RespondEnds DEF ReloadReturns, Fail
<1>13. CASE HealthTick BY <1>13 DEF HealthTick, Supervise
<1>14. CASE Healthy BY <1>14 DEF Healthy, Supervise
<1>15. ASSUME NEW exited \in BOOLEAN, Unhealthy(exited) PROVE JobAtAwait'
  BY <1>15 DEF Unhealthy, Supervise
<1>16. ASSUME NEW ok \in BOOLEAN, HealthCleanupReturns(ok) PROVE JobAtAwait'
  BY <1>16 DEF HealthCleanupReturns, ScheduleRestart, Supervise
<1>17. CASE RunScheduledRestart BY <1>17 DEF RunScheduledRestart, Supervise
<1>18. ASSUME NEW ok \in BOOLEAN, AutoCleanupReturns(ok) PROVE JobAtAwait'
  BY <1>18 DEF AutoCleanupReturns, ScheduleRestart, Supervise
<1>19. ASSUME NEW ok \in BOOLEAN, AutoStartReturns(ok) PROVE JobAtAwait'
  BY <1>19 DEF AutoStartReturns, ScheduleRestart, Supervise
<1>20. CASE Abort BY <1>20 DEF Abort, EndTask
<1>21. CASE HandleStep
  BY <1>21 DEF HandleStep, Request, Enqueue, SendFails, DropHandle, coordinator
<1>22. CASE ProcessExits \/ StableTimeElapses \/ UNCHANGED vars
  BY <1>22 DEF ProcessExits, StableTimeElapses, vars
<1> QED
  BY <1>1, <1>2, <1>3, <1>4, <1>5, <1>6, <1>7, <1>8, <1>9, <1>10, <1>11, <1>12,
     <1>13, <1>14, <1>15, <1>16, <1>17, <1>18, <1>19, <1>20, <1>21, <1>22
     DEF Next, CoordinatorStep, CommandStep, SupervisionStep

Verdicts == {"ok", "invalid", "failed"}

\* Who gets a verdict is the one whose command ended, and gets its answer.
LEMMA VerdictIsTheAnswer ==
  ASSUME TypeOK, OneEnvelope, NEW answer \in Answers, Respond(answer), NEW c \in Clients,
         Answered(c), client'[c].answer \in Verdicts
  PROVE  /\ client'[c].answer = answer
         /\ client[c].command = job.command
<1> DEFINE answered ==
      [d \in Clients |-> IF d = job.client /\ client[d].at = "waiting"
                         THEN Over(d, answer) ELSE client[d]]
<1>1. client[c].at = "waiting" /\ client[c].answer = "none"
  BY DEF Answered, OneEnvelope
<1>2. CASE c = job.client
  <2>1. answered[c] = Over(c, answer) BY <1>1, <1>2
  <2>2. client'[c] = answered[c]
    BY <1>1, <1>2, <2>1 DEF Respond, EndTask, Over
  <2> QED BY <1>1, <1>2, <2>1, <2>2 DEF Over, OneEnvelope, Envelope
<1>3. CASE c # job.client
  <2>1. client'[c] = client[c] \/ client'[c] = Over(c, "dropped")
    BY <1>1, <1>3 DEF Respond, EndTask
  <2> QED BY <1>1, <2>1 DEF Over, Verdicts
<1> QED BY <1>2, <1>3

\* A step that ends no command gives no verdict.
LEMMA NoVerdict ==
  ASSUME TypeOK, OneEnvelope, NEW c \in Clients, Answered(c),
         \/ UNCHANGED client
         \/ EndTask(client)
         \/ HandleStep
  PROVE  client'[c].answer \notin Verdicts
<1>1. client[c].at = "waiting" /\ client[c].answer = "none"
  BY DEF Answered, OneEnvelope
<1>2. CASE UNCHANGED client BY <1>1, <1>2 DEF Verdicts
<1>3. CASE EndTask(client)
  <2>1. client'[c] = Over(c, "dropped") BY <1>1, <1>3 DEF EndTask
  <2> QED BY <2>1 DEF Over, Verdicts
<1>4. CASE HandleStep
  <2> PICK d \in Clients :
        \/ \E command \in LifecycleCommand \union {Shutdown} : Request(d, command)
        \/ Enqueue(d) \/ SendFails(d) \/ DropHandle(d)
    BY <1>4 DEF HandleStep
  <2>1. CASE c # d
    <3>1. client'[c] = client[c]
      BY <2>1 DEF Request, Enqueue, SendFails, DropHandle, TypeOK
    <3> QED BY <1>1, <3>1 DEF Verdicts
  <2>2. CASE c = d
    <3>1. DropHandle(c) BY <1>1, <2>2 DEF Request, Enqueue, SendFails
    <3>2. client'[c].answer = "none" BY <3>1 DEF DropHandle, TypeOK
    <3> QED BY <3>2 DEF Verdicts
  <2> QED BY <2>1, <2>2
<1> QED BY <1>2, <1>3, <1>4

\* What AnswersAreTrue says of a step and of a client.
TrueAnswer(c) ==
  LET command == client[c].command IN
  /\ Answered(c) /\ client'[c].answer = "ok" =>
       CASE command.op \in {"Start", "Restart"} ->
              state' = Running(command.channel) /\ active_channel' = command.channel
         [] command.op \in {"RestartCurrent", "Reload"} ->
              state'.phase = "Running"
         [] OTHER -> state' = Plain("Stopped") /\ process' = None
  /\ Answered(c) /\ client'[c].answer = "invalid" =>
       UNCHANGED <<state, active_channel, process>>
  /\ Answered(c) /\ client'[c].answer = "failed" =>
       state' = Plain("Failed")

\* What has happened when a command has succeeded.
Done(command) ==
  /\ command.op \in {"Start", "Restart"} =>
       state' = Running(command.channel) /\ active_channel' = command.channel
  /\ command.op \in {"RestartCurrent", "Reload"} => state'.phase = "Running"
  /\ command.op \notin {"Start", "Restart", "RestartCurrent", "Reload"} =>
       state' = Plain("Stopped") /\ process' = None

\* An answer is true if what it says has happened.
LEMMA TrueIf ==
  ASSUME TypeOK, OneEnvelope, NEW c \in Clients, NEW answer \in Verdicts, Respond(answer),
         answer = "ok" => Done(job.command),
         answer = "invalid" => UNCHANGED <<state, active_channel, process>>,
         answer = "failed" => state' = Plain("Failed")
  PROVE  TrueAnswer(c)
<1>1. answer \in Answers BY DEF Answers, Verdicts
<1>2. Answered(c) /\ client'[c].answer \in Verdicts =>
        client'[c].answer = answer /\ client[c].command = job.command
  BY <1>1, VerdictIsTheAnswer
<1>3. CASE client'[c].answer = "ok"
  <2>1. Answered(c) => answer = "ok" /\ client[c].command = job.command
    BY <1>2, <1>3 DEF Verdicts
  <2> QED BY <1>3, <2>1 DEF Done, TrueAnswer
<1>4. CASE client'[c].answer = "invalid"
  BY <1>2, <1>4 DEF Verdicts, TrueAnswer
<1>5. CASE client'[c].answer = "failed"
  BY <1>2, <1>5 DEF Verdicts, TrueAnswer
<1>6. CASE client'[c].answer \notin Verdicts
  BY <1>6 DEF Verdicts, TrueAnswer
<1> QED BY <1>3, <1>4, <1>5, <1>6 DEF Verdicts

\* A step that gives no verdict gives no false one.
LEMMA TrueUnless ==
  ASSUME TypeOK, OneEnvelope, NEW c \in Clients,
         UNCHANGED client \/ EndTask(client) \/ HandleStep
  PROVE  TrueAnswer(c)
BY NoVerdict DEF TrueAnswer, Verdicts

\* A command that is settled without a call is answered truly.
LEMMA SettledAnswers ==
  ASSUME TypeOK, IInv, OneEnvelope, JobAtAwait, NEW c \in Clients, NEW channel,
         UNCHANGED <<active_channel, process>>,
         \/ BeginStart(channel) /\ job.command.op = "Start" /\ channel = job.command.channel
         \/ BeginStart(channel) /\ state.phase = "Stopped"
         \/ BeginStop(channel) /\ job.command.op \in {"Stop", "Shutdown"}
         \/ BeginStop(channel) /\ state.phase # "Stopped"
  PROVE  TrueAnswer(c)
<1>1. state = Plain(state.phase) \/ state.phase = "Running"
  BY DEF TypeOK, CoreState, Plain, JobAtAwait
<1>2. CASE \E call, to : Await(call, to)
  BY <1>2, TrueUnless DEF Await
<1>3. CASE /\ ~\E call, to : Await(call, to)
           /\ \/ BeginStart(channel) /\ job.command.op = "Start" /\ channel = job.command.channel
              \/ BeginStart(channel) /\ state.phase = "Stopped"
  <2>1. /\ Respond(IF state = Running(channel) THEN "ok" ELSE "invalid") /\ UNCHANGED state
        /\ state.phase # "Stopped"
    BY <1>3 DEF BeginStart
  <2>2. job.command.op = "Start" /\ channel = job.command.channel
    BY <1>3, <2>1
  <2>3. CASE state = Running(channel)
    <3>1. Respond("ok") BY <2>1, <2>3
    <3>2. Done(job.command)
      BY <2>1, <2>2, <2>3 DEF Done, IInv, StateMatchesProcess, Running
    <3> QED BY <3>1, <3>2, TrueIf DEF Verdicts
  <2>4. CASE state # Running(channel)
    <3>1. Respond("invalid") BY <2>1, <2>4
    <3> QED BY <2>1, <3>1, TrueIf DEF Verdicts
  <2> QED BY <2>3, <2>4
<1>4. CASE /\ ~\E call, to : Await(call, to)
           /\ \/ BeginStop(channel) /\ job.command.op \in {"Stop", "Shutdown"}
              \/ BeginStop(channel) /\ state.phase # "Stopped"
  <2>1. Respond(IF state.phase = "Stopped" THEN "ok" ELSE "invalid") /\ UNCHANGED state
    BY <1>4 DEF BeginStop
  <2>2. CASE state.phase = "Stopped"
    <3>1. Respond("ok") BY <2>1, <2>2
    <3>2. job.command.op \in {"Stop", "Shutdown"}
      BY <1>4, <2>2
    <3>3. Done(job.command)
      BY <1>1, <2>1, <2>2, <3>2 DEF Done, IInv, StateMatchesProcess
    <3> QED BY <3>1, <3>3, TrueIf DEF Verdicts
  <2>3. CASE state.phase # "Stopped"
    <3>1. Respond("invalid") BY <2>1, <2>3
    <3> QED BY <2>1, <3>1, TrueIf DEF Verdicts
  <2> QED BY <2>2, <2>3
<1> QED BY <1>2, <1>3, <1>4

\* Every step answers truly.
LEMMA AnswerStep ==
  ASSUME TypeOK, IInv, OneEnvelope, JobAtAwait, Next, NEW c \in Clients
  PROVE  TrueAnswer(c)
<1>1. CASE TakeCommand BY <1>1, TrueUnless DEF TakeCommand
<1>2. CASE Start
  BY <1>2, SettledAnswers DEF Start, Dispatching
<1>3. CASE Stop
  <2>1. BeginStop(None) /\ UNCHANGED <<active_channel, process>>
        /\ job.command.op \in {"Stop", "Shutdown"}
    BY <1>3 DEF Stop, Dispatching
  <2> QED BY <2>1, SettledAnswers
<1>4. CASE Restart
  <2>1. BeginRestart(job.command.channel) /\ UNCHANGED <<active_channel, process>>
    BY <1>4 DEF Restart
  <2> QED BY <2>1, SettledAnswers DEF BeginRestart
<1>5. CASE RestartCurrent
  <2>1. CASE active_channel = None
    <3>1. Respond("invalid") /\ UNCHANGED <<state, active_channel, process>>
      BY <1>5, <2>1 DEF RestartCurrent
    <3> QED BY <3>1, TrueIf DEF Verdicts
  <2>2. CASE active_channel # None
    <3>1. BeginRestart(active_channel) /\ UNCHANGED <<active_channel, process>>
      BY <1>5, <2>2 DEF RestartCurrent
    <3> QED BY <3>1, SettledAnswers DEF BeginRestart
  <2> QED BY <2>1, <2>2
<1>6. CASE Reload
  <2>1. CASE state = Running(active_channel)
    BY <1>6, <2>1, TrueUnless DEF Reload, Await
  <2>2. CASE state # Running(active_channel)
    <3>1. Respond("invalid") /\ UNCHANGED <<state, active_channel, process>>
      BY <1>6, <2>2 DEF Reload
    <3> QED BY <3>1, TrueIf DEF Verdicts
  <2> QED BY <2>1, <2>2
<1>7. CASE AllHandlesDropped
  BY <1>7, TrueUnless DEF AllHandlesDropped
<1>8. CASE Fail
  <2>1. Respond("failed") /\ state' = Plain("Failed") BY <1>8 DEF Fail
  <2> QED BY <2>1, TrueIf DEF Verdicts
<1>9. ASSUME NEW ok \in BOOLEAN, StartCleanupReturns(ok) PROVE TrueAnswer(c)
  BY <1>8, <1>9, TrueUnless DEF StartCleanupReturns, Await
<1>10. ASSUME NEW ok \in BOOLEAN, StartReturns(ok) PROVE TrueAnswer(c)
  <2>1. CASE ok
    <3>1. /\ state' = Running(job.channel) /\ active_channel' = job.channel /\ Respond("ok")
          /\ pc = "startCall"
      BY <1>10, <2>1 DEF StartReturns
    <3>2. Done(job.command)
      BY <3>1 DEF Done, JobAtAwait, RestartOps, Running
    <3> QED BY <3>1, <3>2, TrueIf DEF Verdicts
  <2>2. CASE ~ok BY <1>8, <1>10, <2>2 DEF StartReturns
  <2> QED BY <2>1, <2>2
<1>11. ASSUME NEW ok \in BOOLEAN, StopReturns(ok) PROVE TrueAnswer(c)
  <2>1. CASE ok /\ job.command.op \in RestartOps
    BY <1>11, <2>1, TrueUnless DEF StopReturns, Await
  <2>2. CASE ok /\ job.command.op \notin RestartOps
    <3>1. state' = Plain("Stopped") /\ process' = None /\ Respond("ok") /\ pc = "stopCall"
      BY <1>11, <2>2 DEF StopReturns, ControllerStops
    <3>2. Done(job.command)
      BY <2>2, <3>1 DEF Done, JobAtAwait, RestartOps
    <3> QED BY <3>1, <3>2, TrueIf DEF Verdicts
  <2>3. CASE ~ok BY <1>8, <1>11, <2>3 DEF StopReturns
  <2> QED BY <2>1, <2>2, <2>3
<1>12. CASE RestartStarts
  <2>1. BeginStart(job.channel) /\ UNCHANGED <<active_channel, process>>
        /\ state.phase = "Stopped"
    BY <1>12 DEF RestartStarts, IInv, PhaseAtAwait
  <2> QED BY <2>1, SettledAnswers
<1>13. ASSUME NEW ok \in BOOLEAN, ReloadReturns(ok) PROVE TrueAnswer(c)
  <2>1. CASE ok
    <3>1. state' = Running(job.channel) /\ Respond("ok") /\ pc = "reloadCall"
      BY <1>13, <2>1 DEF ReloadReturns
    <3>2. Done(job.command)
      BY <3>1 DEF Done, JobAtAwait, Running
    <3> QED BY <3>1, <3>2, TrueIf DEF Verdicts
  <2>2. CASE ~ok BY <1>8, <1>13, <2>2 DEF ReloadReturns
  <2> QED BY <2>1, <2>2
<1>14. CASE SupervisionStep
  BY <1>14, TrueUnless
     DEF SupervisionStep, HealthTick, Healthy, RunScheduledRestart, Unhealthy,
         HealthCleanupReturns, AutoCleanupReturns, AutoStartReturns, Supervise
<1>15. CASE Abort BY <1>15, TrueUnless DEF Abort
<1>16. CASE HandleStep BY <1>16, TrueUnless
<1>17. CASE ProcessExits \/ StableTimeElapses
  BY <1>17, TrueUnless DEF ProcessExits, StableTimeElapses
<1> QED
  BY <1>1, <1>2, <1>3, <1>4, <1>5, <1>6, <1>7, <1>9, <1>10, <1>11, <1>12, <1>13, <1>14, <1>15,
     <1>16, <1>17 DEF Next, CoordinatorStep, CommandStep

\* Every answer tells its client what happened: who is told that the core was started, stopped
\* or left alone finds it so at the instant of the answer (Coordinator::run, CoreHandle::request).
THEOREM AnswersTellTheTruth == Spec => AnswersAreTrue
<1>1. Init => OneEnvelope /\ JobAtAwait
  BY ConstantsAssumption
     DEF Init, OneEnvelope, JobAtAwait, NoJob, NewJob, Plain
<1>2. TypeOK /\ IInv /\ OneEnvelope /\ JobAtAwait /\ [Next]_vars => (OneEnvelope /\ JobAtAwait)'
  BY EnvelopeStep, JobStep
<1>3. TypeOK /\ IInv /\ OneEnvelope /\ JobAtAwait /\ [Next]_vars
        => [\A c \in Clients : TrueAnswer(c)]_vars
  BY AnswerStep
<1>4. [][\A c \in Clients : TrueAnswer(c)]_vars => AnswersAreTrue
  BY PTL DEF AnswersAreTrue, TrueAnswer
<1> QED BY <1>1, <1>2, <1>3, <1>4, Invariance, PTL DEF Spec

=============================================================================
