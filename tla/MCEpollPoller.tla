---------------------------- MODULE MCEpollPoller ----------------------------
(* Instances of EpollPoller for TLC.                                        *)
EXTENDS EpollPoller, TLC

(* The descriptors are interchangeable, and so are the channels that have   *)
(* every callback.                                                          *)
Symmetry == Permutations(Fds) \cup Permutations(Channels \ ReadOnly)
=============================================================================
