--------------------------- MODULE MCKafkaScheduler ---------------------------
(* Instances of KafkaScheduler for TLC.                                      *)
EXTENDS KafkaScheduler, TLC

CONSTANTS p1, p2   \* model values for partitions

OnePartition == [id \in Ids |-> p1]

\* Workers are interchangeable: sound for the safety properties.
WorkerSymmetry == Permutations(Workers)
=============================================================================
