SPECIFICATION FairSpec
CONSTANTS
    spam = spam
    benchq = benchq
    w1 = w1
    w2 = w2
    p1 = p1
    Queue = {spam, benchq}
    Payload = {p1}
    Spam = spam
    Bench = benchq
    Worker = {w1, w2}
    StreamRest = 2
    Concurrency = 1
    BenchCount = 3
    BenchConcurrency = 2
    MaxCounter = 2
    MaxFaults = 2
INVARIANTS TypeOK ThroughputIsBacked BenchReportIsTrue
PROPERTIES ProducerKeepsGoing ConsumerDrainsTheQueue
CHECK_DEADLOCK FALSE
