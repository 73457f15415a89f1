--------------------------- MODULE MCServerShutdown ----------------------------
(* Model-checking instances of ServerShutdown.                             *)
EXTENDS ServerShutdown, TLC

\* The client's shared flag decides; incoming clients take priority.
FlagDecides == {[alwaysShared |-> FALSE, neverShared |-> FALSE,
                 disconnectExisting |-> TRUE]}
================================================================================
