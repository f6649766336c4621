-------------------------- MODULE MCIP2UnixSocket --------------------------
(* Model-checking instances of IP2UnixSocket.                             *)
EXTENDS IP2UnixSocket

MCEphPorts == 32768..32771
MCUserPort == 8080
MCFds == 3..5
MCFds4 == 3..6
MCFds5 == 3..7
=============================================================================
