CONSTANTS
    j1 = j1
    j2 = j2
    j3 = j3
    high = high
    low = low
    Jobs <- MCJobs
    Queues <- MCQueues
    QueueOf <- MCQueueOf
    QueueLimits <- MCQueueLimits
    Concurrency = 2
    MaxJobs = 2
    Options <- MCOptions
    MaxAttempts <- MCMaxAttempts
    BrokerFails = TRUE
    MaxConsecutive = 2
    MaxLapses = 1
    Failing <- MCFailing
SPECIFICATION Spec
CHECK_DEADLOCK FALSE
INVARIANTS WithinLimits  
PROPERTIES EveryJobAnswered StopEnds
