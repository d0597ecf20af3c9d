---------------------------- MODULE MCAppCoordinator ----------------------------
(* AppCoordinator for TLC.                                                  *)
EXTENDS AppCoordinator

\* The coordinator's state is well typed, no channel holds more than its capacity, and a
\* core that is lost does not leave the desktop on its port.
ProxyFollowsCore == TypeOK /\ ProxyNeedsCore
=============================================================================
