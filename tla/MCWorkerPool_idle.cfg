\* A pool that grows and shrinks, with fair threads.
SPECIFICATION FairSpec
CONSTANTS
    Worker = {u, v}
    Client = {j, k}
    Main = Main
    Kill = Kill
    Shutdown = Shutdown
    None = None
    minWorkers = 1
    maxWorkers = 2
    ReloadsCount = TRUE
    SendsShutdown = FALSE
    MaxPosted = 1
\* The server stops.
CHECK_DEADLOCK FALSE
PROPERTIES
    IOIsAnswered
