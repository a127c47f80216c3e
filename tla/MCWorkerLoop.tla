---------------------------- MODULE MCWorkerLoop ----------------------------
(* Instances of WorkerLoop for TLC: two queues, the first with a limit of  *)
(* one job in flight.                                                      *)
EXTENDS WorkerLoop, TLC

CONSTANTS j1, j2, j3, high, low

MCJobs == {j1, j2, j3}
MCQueues == <<high, low>>
MCQueueOf == [j \in MCJobs |-> IF j = j3 THEN low ELSE high]
MCMaxAttempts == [j \in MCJobs |-> IF j = j1 THEN 2 ELSE 1]
MCFailing == {j1}
MCOptions == {[stopWhenEmpty |-> TRUE, maxTime |-> FALSE, tries |-> 3],
              [stopWhenEmpty |-> FALSE, maxTime |-> TRUE, tries |-> 1]}
MCQueueLimits == [q \in {high, low} |-> IF q = high THEN 1 ELSE 2]
=============================================================================
