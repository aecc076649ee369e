---------------------------- MODULE MCFdManager ----------------------------
(* Instances of FdManager for TLC.                                         *)
EXTENDS FdManager, TLC

\* Sockets are only ever made non-blocking, by FIONBIO.
MCIoctlOn == {"ioctl", "co_ioctl"} \X {TRUE}
\* Users of sockets set and clear O_NONBLOCK with F_SETFL.
MCSetFlags == {"co_fcntl"} \X BOOLEAN

MCSymmetry == Permutations(Callers) \cup Permutations(Fds) \cup Permutations(Ptrs)
=============================================================================
