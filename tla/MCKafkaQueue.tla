---------------------------- MODULE MCKafkaQueue ----------------------------
(* Instances of KafkaQueue for TLC.                                        *)
EXTENDS KafkaQueue, TLC

CONSTANTS w1, w2, s1, s2

(* Every job on the last partition: the first is owned and empty.          *)
LastPartition == [j \in Jobs |-> NParts]

OneSlotWorkers == (s1 :> w1) @@ (s2 :> w2)
TwoSlotWorker == (s1 :> w1) @@ (s2 :> w1)
=============================================================================
