---------------------------- MODULE MCEventLoop ----------------------------
(* Model values and symmetry for the runs of EventLoop.                    *)
EXTENDS EventLoop, TLC

CONSTANTS t1, t2, t3, x1, x2

ObjectSymmetry == Permutations(Timers) \union Permutations(SigNodes)
=============================================================================
