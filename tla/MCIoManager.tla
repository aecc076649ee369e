---------------------------- MODULE MCIoManager ----------------------------
(* Instances of IoManager for TLC.                                         *)
EXTENDS IoManager

MCNoHangUp == {}
MCResets   == {Events}   \* EPOLLHUP with EPOLLIN and EPOLLOUT
=============================================================================
