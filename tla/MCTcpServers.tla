---------------------------- MODULE MCTcpServers ----------------------------
(* TcpServers for TLC: both servers. *)
EXTENDS TcpServers
MCServers == {"binary", "telnet"}
=============================================================================
