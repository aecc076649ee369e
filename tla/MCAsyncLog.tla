----------------------------- MODULE MCAsyncLog -----------------------------
(* Instances of AsyncLog for TLC.                                          *)
EXTENDS AsyncLog
=============================================================================
