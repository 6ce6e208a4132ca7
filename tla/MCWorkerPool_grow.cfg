\* A pool that grows, shrinks and is stopped by a client or the console, fair threads.
SPECIFICATION FairSpec
CONSTANTS
    Worker = {u, v}
    Client = {j, k}
    Main = Main
    Kill = Kill
    Shutdown = Shutdown
    None = None
    minWorkers = 1
    maxWorkers = 2
    ReloadsCount = FALSE
    SendsShutdown = TRUE
    MaxPosted = 1
\* The server stops.
CHECK_DEADLOCK FALSE
INVARIANTS
    TypeOK
    CountersAreExact
    OneWorkerPerClient
    PoolIsBounded
PROPERTIES
    PortClosesLast
    ShutdownEnds
    WorkersTakeIO
