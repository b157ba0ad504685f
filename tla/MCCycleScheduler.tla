-------------------------- MODULE MCCycleScheduler --------------------------
(* CycleScheduler on small instances.                                        *)
EXTENDS CycleScheduler, TLC

\* The keys are interchangeable; used by the runs without liveness.
KeySymmetry == Permutations(Keys)
=============================================================================
