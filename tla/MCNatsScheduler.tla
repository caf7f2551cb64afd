---------------------------- MODULE MCNatsScheduler ----------------------------
(* Instances of NatsScheduler for TLC.                                       *)
EXTENDS NatsScheduler, TLC

\* Workers are interchangeable: sound for the safety properties.
WorkerSymmetry == Permutations(Workers)
=============================================================================
