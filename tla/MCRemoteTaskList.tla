-------------------------- MODULE MCRemoteTaskList --------------------------
(* Instances of RemoteTaskList for TLC.                                    *)
EXTENDS RemoteTaskList
=============================================================================
