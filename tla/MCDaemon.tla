------------------------------ MODULE MCDaemon ------------------------------
(* Instances of Daemon for TLC, one per configuration. MCDaemonSafety has  *)
(* those of the larger safety run.                                         *)
EXTENDS DaemonProperties
=============================================================================
