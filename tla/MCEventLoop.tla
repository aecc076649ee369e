---------------------------- MODULE MCEventLoop ----------------------------
(* Instances of EventLoop for TLC.                                         *)
EXTENDS EventLoop, TLC

MCStopping == {<<TRUE, FALSE>>, <<FALSE, TRUE>>}

MCSymmetry == Permutations(Tasks) \cup Permutations(Producers)
=============================================================================
