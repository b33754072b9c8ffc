----------------------------- MODULE MCEventLoop -----------------------------
(* Instances of EventLoop for TLC.  No symmetry: the same run checks        *)
(* liveness.                                                                *)
EXTENDS EventLoop
=============================================================================
