---------------------------- MODULE CoreLifecycle ----------------------------
(***************************************************************************)
(* What the core coordinator promises to the rest of rsclash, without its  *)
(* queue, its awaits, its controller and its process: the transitions of   *)
(* the published state, who may cause each of them, and a bound on what    *)
(* the supervisor does on its own.                                         *)
(***************************************************************************)
EXTENDS Naturals

CONSTANT MaxAttempts  \* automatic restarts the supervisor may plan in a row

VARIABLES
  phase,    \* the kind of the published state
  wanted,   \* the operator's last command asked for a running core
  pending,  \* an automatic restart is planned
  spent,    \* automatic restarts planned since the budget was last full
  turn      \* who is changing the core: "nobody", "operator", "supervisor";
            \* "closed" once the coordinator is gone

vars == <<phase, wanted, pending, spent, turn>>

Settled == {"Stopped", "Running", "Failed"}

Init ==
  /\ phase = "Stopped"
  /\ ~wanted
  /\ ~pending
  /\ spent = 0
  /\ turn = "nobody"

\* A command of the operator: it cancels what the supervisor planned and fills
\* its budget, and is answered at once or begins to change the core.
Ask(run) ==
  /\ turn = "nobody"
  /\ phase \in Settled
  /\ wanted' = run
  /\ ~pending'
  /\ spent' = 0
  /\ \/ turn' \in {"nobody", "closed"} /\ UNCHANGED phase
     \/ turn' = "operator" /\ phase = "Stopped" /\ run /\ phase' = "Starting"
     \/ turn' = "operator" /\ phase = "Failed" /\ run /\ UNCHANGED phase
     \/ turn' = "operator" /\ phase \in {"Running", "Failed"} /\ phase' = "Stopping"

AskReload ==
  /\ turn = "nobody"
  /\ phase = "Running"
  /\ phase' = "Reloading"
  /\ turn' = "operator"
  /\ UNCHANGED <<wanted, pending, spent>>

\* The operator's command goes on.  Only one that wants a core starts one, and
\* a restart passes through a stopped core.
Begin ==
  /\ turn = "operator"
  /\ wanted
  /\ phase \in {"Stopped", "Failed"}
  /\ phase' = "Starting"
  /\ UNCHANGED <<wanted, pending, spent, turn>>

StopFirst ==
  /\ turn = "operator"
  /\ wanted
  /\ phase = "Stopping"
  /\ phase' = "Stopped"
  /\ UNCHANGED <<wanted, pending, spent, turn>>

Conclude ==
  /\ turn = "operator"
  /\ turn' \in {"nobody", "closed"}
  /\ \/ phase' = "Failed" /\ phase # "Stopped"
     \/ phase \in {"Starting", "Reloading"} /\ phase' = "Running" /\ wanted
     \/ phase = "Stopping" /\ phase' = "Stopped" /\ ~wanted
  /\ UNCHANGED <<wanted, pending, spent>>

\* The supervisor's turn: it plans a restart while budget is left, and then
\* gives the core up.
PlanRestart ==
  IF spent < MaxAttempts
  THEN pending' /\ spent' = spent + 1
  ELSE ~pending' /\ UNCHANGED spent

NoticeFailure ==
  /\ turn = "nobody"
  /\ phase = "Running"
  /\ wanted
  /\ phase' = "Failed"
  /\ PlanRestart
  /\ UNCHANGED <<wanted, turn>>

Retry ==
  /\ turn = "nobody"
  /\ pending
  /\ wanted
  /\ phase = "Failed"
  /\ ~pending'
  /\ turn' = "supervisor"
  /\ UNCHANGED <<phase, wanted, spent>>

RetryStep ==
  /\ turn = "supervisor"
  /\ wanted
  /\ \/ phase = "Failed" /\ phase' = "Starting" /\ UNCHANGED <<pending, spent, turn>>
     \/ phase = "Starting" /\ phase' = "Running" /\ turn' = "nobody"
          /\ UNCHANGED <<pending, spent>>
     \/ phase' = "Failed" /\ turn' = "nobody" /\ PlanRestart
  /\ UNCHANGED wanted

\* A core that stayed up long enough fills the budget again.
EarnBack ==
  /\ turn = "nobody"
  /\ phase = "Running"
  /\ spent' = 0
  /\ UNCHANGED <<phase, wanted, pending, turn>>

\* The last user is gone: the core is stopped as if asked to, or the task is
\* cut off where it is.
LastUserLeaves ==
  /\ turn = "nobody"
  /\ ~wanted' /\ ~pending'
  /\ \/ phase = "Stopped" /\ turn' = "closed" /\ UNCHANGED phase
     \/ phase \in {"Running", "Failed"} /\ phase' = "Stopping" /\ turn' = "operator"
  /\ UNCHANGED spent

CutOff == turn' = "closed" /\ UNCHANGED <<phase, wanted, pending, spent>>

Next ==
  \/ \E run \in BOOLEAN : Ask(run)
  \/ AskReload \/ Begin \/ StopFirst \/ Conclude
  \/ NoticeFailure \/ Retry \/ RetryStep \/ EarnBack
  \/ LastUserLeaves \/ CutOff

Spec == Init /\ [][Next]_vars
=============================================================================
