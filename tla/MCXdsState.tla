------------------------------ MODULE MCXdsState ------------------------------
(* A small instance of XdsState for TLC.                                   *)
EXTENDS XdsState

CONSTANTS lds, sds, s1, s2

\* Two listener streams: which of them is the first is a race.  The secrets
\* are updated as well; they share the version and the channel.
BothListeners == [s \in {s1, s2} |-> lds]
=============================================================================
