---------------------------- MODULE MCRouteDaemon ----------------------------
(* Instances of RouteDaemon for TLC.  Daemons, ensure processes and         *)
(* installers are interchangeable.                                          *)
EXTENDS RouteDaemon, TLC

Symmetry ==
  Permutations(Daemon) \cup Permutations(Ensure) \cup Permutations(Installer)
=============================================================================
