------------------------- MODULE MCReconnectingChannel -------------------------
(* Model-checking instances of ReconnectingChannel.                        *)
EXTENDS ReconnectingChannel

\* Enough for an exchange in each phase of a read, one of them a double one.
ManyProcesses == 6
\* Enough for one exchange of a pipe that has been exchanged already.
ThreeProcesses == 3
================================================================================
