----------------------------- MODULE MCMihomoWorker -----------------------------
(***************************************************************************)
(* The Mihomo worker with two profiles that share a node.                  *)
(***************************************************************************)
EXTENDS MihomoWorker, FiniteSets, TLC

CONSTANTS a, b, work, home

TwoProfiles == {work, home}
SharedNode == work :> {a, b} @@ home :> {b}
Unavailable == work :> b @@ home :> a

\* The search goes on until two different things have happened that a property excludes.
Bound == Cardinality(gaps) <= 1

\* When all is handled, the core runs with the node stored for the current profile, and no
\* connection uses a node that was left.
ActivationIsFollowed == SelectionsAreRestored /\ OldConnectionsAreClosed

\* The worker's state is well formed, it reads the streams of the page that is shown, and
\* when all is handled the window shows what the worker and the core do.
WindowIsTrue == TypeOK /\ StreamsServeThePage /\ ViewIsTrue
=============================================================================
