---------------------------- MODULE MCTcpServer ----------------------------
(* Instances of TcpServer for TLC.                                         *)
EXTENDS TcpServer

MCPrioThreads == <<0, 1, 1>>
=============================================================================
