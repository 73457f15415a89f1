--------------------------- MODULE MCControlServer ---------------------------
(* One configuration: every message is to be authenticated.                  *)
EXTENDS ControlServer

MCOneConfig ==
  {[useControlAuth |-> TRUE, alwaysChecking |-> TRUE, password |-> "p"]}
===============================================================================
