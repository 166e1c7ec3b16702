------------------------------- MODULE MCLoop -------------------------------
(* A bound for the run Loop: timers and signal objects that are registered *)
(* at one time.                                                            *)
EXTENDS MCEventLoop, FiniteSets

CONSTANT MaxRegistered

Waiting == {x \in SigNodes : waits[x] # 0}
WithinBound == Cardinality(Active) + Cardinality(Waiting) <= MaxRegistered

\* Fair as FairSpec: neither LoopNext nor Tick registers anything.
BoundedSpec == Init /\ [][Next /\ WithinBound']_vars /\ WF_vars(LoopNext) /\ WF_vars(Tick)
=============================================================================
