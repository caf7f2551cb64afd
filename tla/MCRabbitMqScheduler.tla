-------------------------- MODULE MCRabbitMqScheduler --------------------------
(* Instances of RabbitMqScheduler for TLC.                                   *)
EXTENDS RabbitMqScheduler, TLC

\* Workers are interchangeable: sound for the safety properties.
WorkerSymmetry == Permutations(Workers)
=============================================================================
