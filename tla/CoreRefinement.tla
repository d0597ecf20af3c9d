---------------------------- MODULE CoreRefinement ----------------------------
(* The coordinator implements what CoreLifecycle promises.                    *)
EXTENDS CoreSupervisor

\* A command is being carried out from its dispatch to its answer; an automatic
\* restart from the timer to its outcome.  A health check changes nothing yet.
Turn ==
  CASE pc = "done" -> "closed"
    [] pc \in {"autoCleanup", "autoStart"} -> "supervisor"
    [] pc \in {"startCleanup", "startCall", "stopCall", "restarting", "reloadCall"} ->
         "operator"
    [] OTHER -> "nobody"

Lifecycle == INSTANCE CoreLifecycle WITH
  phase <- state.phase, pending <- restart_at, spent <- attempts, turn <- Turn

\* Every step of the coordinator is one the lifecycle allows: nobody but the
\* operator starts a core that is not planned to restart, no core is started
\* after a stop, and between two commands the supervisor restarts a core that
\* never proves stable at most MaxAttempts times.
ImplementsLifecycle == Lifecycle!Spec
=============================================================================
