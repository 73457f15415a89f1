---------------------------- MODULE MCClientManager ----------------------------
(* Model-checking instances of ClientManager.                              *)
EXTENDS ClientManager, TLC

Config(always, never, disconnect) ==
  [alwaysShared |-> always, neverShared |-> never,
   disconnectExisting |-> disconnect]

\* The client's flag decides and incoming clients take priority; or never
\* shared, and existing clients take priority.
TwoConfigs == {Config(FALSE, FALSE, TRUE), Config(FALSE, TRUE, FALSE)}

\* The client threads are interchangeable; safety runs only.
ClientSymmetry == Permutations(Clients)
================================================================================
