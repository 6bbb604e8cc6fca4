--------------------------- MODULE MCDaemonSafety ---------------------------
(* Safety of Daemon for TLC, with the history of its ends.                 *)
EXTENDS DaemonHistory, TLC

\* The objects of one kind are interchangeable.
Symmetric == Permutations(Shms) \cup Permutations(Sems) \cup Permutations(Queues)

\* Bound: once the daemon has been ended abruptly, only the processes that can
\* send too make requests, and no controller reports.
OneAfterAbrupt ==
    abrupt # {} => sample \notin Reports /\ \A p \in Cgis \ Senders : cgi[p] = "idle"
=============================================================================
