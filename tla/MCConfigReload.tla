---------------------------- MODULE MCConfigReload ----------------------------
(* Configurations that differ in the port, in the host, in the extra ports   *)
(* and in whether connections are accepted at all.                           *)
EXTENDS ConfigReload

Conf(accept, loopback, port, extra, http) ==
  [acceptRfb |-> accept, loopbackOnly |-> loopback, rfbPort |-> port,
   extraPorts |-> extra, httpPort |-> http]

MCConfigs == {Conf(TRUE, FALSE, 1, {3}, 5), Conf(TRUE, TRUE, 2, {3}, 0),
              Conf(FALSE, FALSE, 1, {4}, 6)}
===============================================================================
