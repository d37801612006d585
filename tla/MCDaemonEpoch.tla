--------------------------- MODULE MCDaemonEpoch ---------------------------
(* Two daemons of two threads and as many effects as an order needs.       *)
EXTENDS DaemonEpoch

\* Runtime calls of a replaced daemon come to an end, and a daemon that was started
\* takes over or dies: see DaemonEpoch.
HandoverCompletes == ReplacedRuntimeEnds /\ TakeoverHappens
=============================================================================
