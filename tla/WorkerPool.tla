----------------------------- MODULE WorkerPool -----------------------------
(***************************************************************************)
(* The worker threads of the SDB lock server (sdb_lock_server.c): the      *)
(* completion port they wait on, the counters by which they decide to      *)
(* create a thread or to leave, and the shutdown of the server.            *)
(*                                                                         *)
(* An action is one access to the state the threads share: an interlocked  *)
(* change of workersBusy, with the receipt from the port before it, a      *)
(* critical section of the server, a post to the port, or an               *)
(* unsynchronised load of a counter.  What a worker does for a client      *)
(* between two of these is LockServer's.                                   *)
(***************************************************************************)
EXTENDS Integers, Sequences, FiniteSets

CONSTANTS
    Worker,        \* SDB_LS_WORKER structures and their threads
    Client,        \* client structures; a new connection may reuse a freed one
    Main,          \* the thread that stops the server: the console or the service
    Kill,          \* COMPLETION_KEY_KILL_WORKER
    Shutdown,      \* COMPLETION_KEY_SHUTDOWN
    None,
    minWorkers,
    maxWorkers,
    ReloadsCount,  \* the compiler loads workersCount for each of its two comparisons
    SendsShutdown, \* clients send the SHUTDOWN command to a console server
    MaxPosted      \* bound on the Kill and on the Shutdown packets in the port

ASSUME PoolAssumption ==
    /\ IsFiniteSet(Worker)
    /\ Main \notin Worker
    /\ Kill \notin Client /\ Shutdown \notin Client /\ None \notin Client
    /\ Kill # Shutdown /\ None # Shutdown
    /\ None \notin Worker
    /\ minWorkers \in Nat \ {0}
    /\ maxWorkers \in Nat
    /\ minWorkers =< maxWorkers
    /\ minWorkers =< Cardinality(Worker)
    /\ ReloadsCount \in BOOLEAN
    /\ SendsShutdown \in BOOLEAN
    /\ MaxPosted \in Nat \ {0}

VARIABLES
    isRunning,    \* server->isRunning
    port,         \* server->completionPort
    queue,        \* the completions in the port
    reading,      \* clients with an operation pending in the kernel
    accepting,    \* the client that the listener thread is accepting
    workersCount, \* server->workersCount
    workersBusy,  \* server->workersBusy
    listed,       \* the list of workers that ends in server->tailWorker
    pc,           \* where each thread is
    job,          \* the client a worker serves, or Shutdown for shutdownSrv
    child,        \* the worker a worker is creating
    seen          \* the counter a worker has loaded, until it knows if it creates

counters == <<workersCount, workersBusy, listed>>
clients == <<queue, reading, accepting>>
vars == <<isRunning, port, counters, clients, pc, job, child, seen>>

Thread == Worker \cup {Main}

(* runServer has created the first minWorkers threads.                     *)
Init ==
    /\ isRunning = TRUE
    /\ port = "open"
    /\ queue = <<>>
    /\ reading = {}
    /\ accepting = None
    /\ workersCount = minWorkers
    /\ workersBusy = 0
    /\ \E first \in SUBSET Worker :
          /\ Cardinality(first) = minWorkers
          /\ listed = first
          /\ pc = [t \in Thread |->
                IF t = Main THEN "console" ELSE IF t \in first THEN "created" ELSE "off"]
    /\ job = [w \in Worker |-> None]
    /\ child = [w \in Worker |-> None]
    /\ seen = [w \in Worker |-> 0]

Goto(t, label) == pc' = [pc EXCEPT ![t] = label]

Occurs(x) == Cardinality({i \in DOMAIN queue : queue[i] = x})

(* PostQueuedCompletionStatus; a closed port takes nothing.                *)
Posted(x) == IF port = "open" THEN Append(queue, x) ELSE queue

-----------------------------------------------------------------------------
(* Clients and the kernel.                                                 *)

InQueue(k) == \E i \in DOMAIN queue : queue[i] = k
Served(k) == \E w \in Worker : job[w] = k
Known(k) == k \in reading \/ InQueue(k) \/ Served(k) \/ accepting = k

(* acceptConnection, up to its test of isRunning.                          *)
BeginAccept(k) ==
    /\ isRunning
    /\ accepting = None
    /\ ~Known(k)
    /\ accepting' = k
    /\ UNCHANGED <<isRunning, port, counters, queue, reading, pc, job, child, seen>>

(* The rest: the socket joins the port and waits for a command, unless the *)
(* port is closed or the first read fails.                                 *)
EndAccept ==
    /\ accepting # None
    /\ \/ port = "open" /\ reading' = reading \cup {accepting}
       \/ UNCHANGED reading
    /\ accepting' = None
    /\ UNCHANGED <<isRunning, port, counters, queue, pc, job, child, seen>>

(* The pending operation of a client ends, well or badly.                  *)
Complete(k) ==
    /\ k \in reading
    /\ reading' = reading \ {k}
    /\ queue' = Posted(k)
    /\ UNCHANGED <<isRunning, port, counters, accepting, pc, job, child, seen>>

-----------------------------------------------------------------------------
(* The loop of a worker.                                                   *)

Start(w) ==
    /\ pc[w] = "created"
    /\ workersBusy' = workersBusy + 1
    /\ Goto(w, "loop")
    /\ UNCHANGED <<isRunning, port, clients, workersCount, listed, job, child, seen>>

Loop(w) ==
    /\ pc[w] = "loop"
    /\ \/ /\ isRunning
          /\ workersBusy' = workersBusy - 1
          /\ Goto(w, "waiting")
       \/ /\ ~isRunning
          /\ Goto(w, "ending")
          /\ UNCHANGED workersBusy
    /\ UNCHANGED <<isRunning, port, clients, workersCount, listed, job, child, seen>>

(* GetQueuedCompletionStatus returns a completion that succeeded.          *)
Take(w) ==
    /\ pc[w] = "waiting"
    /\ queue # <<>>
    /\ queue' = Tail(queue)
    /\ workersBusy' = workersBusy + 1
    /\ \/ /\ Head(queue) \in Client
          /\ job' = [job EXCEPT ![w] = Head(queue)]
          /\ Goto(w, "took")
       \/ /\ Head(queue) = Kill
          /\ Goto(w, "ending")
          /\ UNCHANGED job
       \/ /\ Head(queue) = Shutdown
          /\ job' = [job EXCEPT ![w] = Shutdown]
          /\ Goto(w, "ending")
    /\ UNCHANGED <<isRunning, port, reading, accepting, workersCount, listed, child, seen>>

(* It returns a failed completion of a client: the client is released.     *)
TakeLost(w) ==
    /\ pc[w] = "waiting"
    /\ queue # <<>>
    /\ Head(queue) \in Client
    /\ queue' = Tail(queue)
    /\ workersBusy' = workersBusy + 1
    /\ job' = [job EXCEPT ![w] = Head(queue)]
    /\ Goto(w, "dropping")
    /\ UNCHANGED <<isRunning, port, reading, accepting, workersCount, listed, child, seen>>

(* clientDisconnection                                                     *)
Drop(w) ==
    /\ pc[w] = "dropping"
    /\ job' = [job EXCEPT ![w] = None]
    /\ Goto(w, "loop")
    /\ UNCHANGED <<isRunning, port, counters, clients, child, seen>>

(* Nothing to do for 30 seconds.  The wait does not end otherwise: the port *)
(* is not closed while a worker waits (PortClosesLast).                    *)
SpareWorker == workersCount > minWorkers

Timeout(w) ==
    /\ pc[w] = "waiting"
    /\ queue = <<>>
    /\ workersBusy' = workersBusy + 1
    /\ Goto(w, IF SpareWorker THEN "ending" ELSE "loop")
    /\ UNCHANGED <<isRunning, port, clients, workersCount, listed, job, child, seen>>

(* workersBusy == workersCount && workersCount < maxWorkers loads plain    *)
(* integers that other threads change.  C leaves open which of the first   *)
(* two is loaded first (ReadCounter, CompareCounters), and the compiler    *)
(* may or may not load workersCount again (NeedsWorker).                   *)
ReadCounter(w) ==
    /\ pc[w] = "took"
    /\ \/ seen' = [seen EXCEPT ![w] = workersBusy] /\ Goto(w, "readBusy")
       \/ seen' = [seen EXCEPT ![w] = workersCount] /\ Goto(w, "readCount")
    /\ UNCHANGED <<isRunning, port, counters, clients, job, child>>

(* The worker goes on without a new one.                                   *)
GoOn(w) == Goto(w, "serving") /\ seen' = [seen EXCEPT ![w] = 0]

OtherCounter(w) == IF pc[w] = "readBusy" THEN workersCount ELSE workersBusy

CompareCounters(w) ==
    /\ pc[w] \in {"readBusy", "readCount"}
    /\ \/ OtherCounter(w) = seen[w] /\ Goto(w, "equal") /\ UNCHANGED seen
       \/ OtherCounter(w) # seen[w] /\ GoOn(w)
    /\ UNCHANGED <<isRunning, port, counters, clients, job, child>>

CountOf(w) == IF ReloadsCount THEN workersCount ELSE seen[w]

OneTooMany(w) == CountOf(w) =< maxWorkers \* a faulty NeedsWorker
NeedsWorker(w) == CountOf(w) < maxWorkers

CompareMax(w) ==
    /\ pc[w] = "equal"
    /\ \/ NeedsWorker(w) /\ Goto(w, "creating") /\ UNCHANGED seen
       \/ ~NeedsWorker(w) /\ GoOn(w)
    /\ UNCHANGED <<isRunning, port, counters, clients, job, child>>

(* A faulty Create that does not look at hThread.                          *)
CreateUnchecked(w) ==
    /\ pc[w] = "creating"
    /\ \/ \E v \in Worker :
             /\ pc[v] = "off"
             /\ pc' = [pc EXCEPT ![w] = "inserting", ![v] = "created"]
             /\ child' = [child EXCEPT ![w] = v]
       \/ /\ Goto(w, "inserting")
          /\ UNCHANGED child
    /\ UNCHANGED <<isRunning, port, counters, clients, job, seen>>

(* CreateThread: the new thread may run before it is entered in the list.  *)
(* When it fails the worker goes on.                                       *)
Create(w) ==
    /\ pc[w] = "creating"
    /\ \/ \E v \in Worker :
             /\ pc[v] = "off"
             /\ pc' = [pc EXCEPT ![w] = "inserting", ![v] = "created"]
             /\ child' = [child EXCEPT ![w] = v]
             /\ UNCHANGED seen
       \/ /\ GoOn(w)
          /\ UNCHANGED child
    /\ UNCHANGED <<isRunning, port, counters, clients, job>>

Insert(w) ==
    /\ pc[w] = "inserting"
    /\ listed' = listed \cup {child[w]}
    /\ workersCount' = workersCount + 1
    /\ child' = [child EXCEPT ![w] = None]
    /\ GoOn(w)
    /\ UNCHANGED <<isRunning, port, clients, workersBusy, job>>

(* A faulty Respond that reads on while the answer is being written.       *)
RespondAndRead(k) == queue' = Posted(k) /\ reading' = reading \cup {k}

(* executeCommand: the answer is written by whoever takes the completion.  *)
Respond(k) == queue' = Posted(k) /\ UNCHANGED reading

(* processIOMessage: the client has a next operation pending, an answer to *)
(* be written, or is released; after the answer to SHUTDOWN a packet is    *)
(* posted for the worker that will shut the server down.                   *)
Serve(w) ==
    /\ pc[w] = "serving"
    /\ \/ Respond(job[w])
       \/ UNCHANGED queue /\ reading' = reading \cup {job[w]}
       \/ UNCHANGED <<queue, reading>>
       \/ /\ SendsShutdown
          /\ Occurs(Shutdown) < MaxPosted
          /\ queue' = Posted(Shutdown)
          /\ reading' = reading \cup {job[w]}
    /\ job' = [job EXCEPT ![w] = None]
    /\ Goto(w, "loop")
    /\ UNCHANGED <<isRunning, port, counters, accepting, child, seen>>

-----------------------------------------------------------------------------
(* The end of a worker.                                                    *)

(* Two faulty LeaveBusy: one forgets the counter, the other shuts the      *)
(* server down before the worker has left it.                              *)
StayingBusy(w) ==
    /\ pc[w] = "ending"
    /\ Goto(w, "releasing")
    /\ UNCHANGED <<isRunning, port, counters, clients, job, child, seen>>

StoppingFirst(w) ==
    /\ pc[w] = "ending"
    /\ workersBusy' = workersBusy - 1
    /\ Goto(w, IF job[w] = Shutdown THEN "stopping" ELSE "releasing")
    /\ UNCHANGED <<isRunning, port, clients, workersCount, listed, job, child, seen>>

LeaveBusy(w) ==
    /\ pc[w] = "ending"
    /\ workersBusy' = workersBusy - 1
    /\ Goto(w, "releasing")
    /\ UNCHANGED <<isRunning, port, clients, workersCount, listed, job, child, seen>>

(* A structure that is freed and listed, or still to be entered.           *)
Dangles(w) == w \in listed \/ \E u \in Worker : child[u] = w

(* releaseWorker.  A thread that ends before it is entered in the list is  *)
(* counted and freed all the same, and its creator will enter it.          *)
ReleaseWorker(w) ==
    /\ pc[w] = "releasing"
    /\ listed' = listed \ {w}
    /\ workersCount' = workersCount - 1
    /\ Goto(w, IF job[w] = Shutdown THEN "stopping" ELSE "stopped")
    /\ UNCHANGED <<isRunning, port, clients, workersBusy, job, child, seen>>

(* The thread ends; its structure can be reused unless it dangles.         *)
Exit(w) ==
    /\ pc[w] = "stopped"
    /\ ~Dangles(w)
    /\ job' = [job EXCEPT ![w] = None]
    /\ Goto(w, "off")
    /\ UNCHANGED <<isRunning, port, counters, clients, child, seen>>

-----------------------------------------------------------------------------
(* shutdownServer, in a worker that took Shutdown or in the main thread.   *)

Ask ==
    /\ pc[Main] = "console"
    /\ Goto(Main, "stopping")
    /\ UNCHANGED <<isRunning, port, counters, clients, job, child, seen>>

TestRunning(t) ==
    /\ pc[t] = "stopping"
    /\ Goto(t, IF isRunning THEN "clearing" ELSE "stopped")
    /\ UNCHANGED <<isRunning, port, counters, clients, job, child, seen>>

ClearRunning(t) ==
    /\ pc[t] = "clearing"
    /\ isRunning' = FALSE
    /\ Goto(t, "killing")
    /\ UNCHANGED <<port, counters, clients, job, child, seen>>

PostKill(t) ==
    /\ pc[t] = "killing"
    /\ workersCount > 0
    /\ Occurs(Kill) < MaxPosted
    /\ queue' = Posted(Kill)
    /\ UNCHANGED <<isRunning, port, counters, reading, accepting, pc, job, child, seen>>

OneLeft == workersCount =< 1 \* a faulty AllLeft
AllLeft == workersCount =< 0

(* The port and the sockets are closed, the clients released.              *)
ClosePort(t) ==
    /\ pc[t] = "killing"
    /\ AllLeft
    /\ port' = "closed"
    /\ queue' = <<>>
    /\ reading' = {}
    /\ Goto(t, "stopped")
    /\ UNCHANGED <<isRunning, counters, accepting, job, child, seen>>

-----------------------------------------------------------------------------
(* workerThreadProc                                                        *)
WorkerStep(w) ==
    \/ Start(w)
    \/ Loop(w)
    \/ Take(w)
    \/ TakeLost(w)
    \/ Drop(w)
    \/ Timeout(w)
    \/ ReadCounter(w)
    \/ CompareCounters(w)
    \/ CompareMax(w)
    \/ Create(w)
    \/ Insert(w)
    \/ Serve(w)
    \/ LeaveBusy(w)
    \/ ReleaseWorker(w)
    \/ Exit(w)

StopStep(t) ==
    \/ TestRunning(t)
    \/ ClearRunning(t)
    \/ PostKill(t)
    \/ ClosePort(t)

ClientStep(k) == BeginAccept(k) \/ Complete(k)

Next ==
    \/ \E w \in Worker : WorkerStep(w)
    \/ \E t \in Thread : StopStep(t)
    \/ \E k \in Client : ClientStep(k)
    \/ EndAccept
    \/ Ask

Spec == Init /\ [][Next]_vars

(* Threads run; the wait for a completion ends after 30 seconds at most.   *)
FairSpec ==
    /\ Spec
    /\ \A w \in Worker : WF_vars(WorkerStep(w))
    /\ \A t \in Thread : WF_vars(StopStep(t))

-----------------------------------------------------------------------------
(* Properties.                                                             *)

Labels == {"off", "created", "loop", "waiting", "took", "readBusy", "readCount", "equal",
           "creating", "inserting", "serving", "dropping", "ending", "releasing",
           "console", "stopping", "clearing", "killing", "stopped"}

TypeOK ==
    /\ isRunning \in BOOLEAN
    /\ port \in {"open", "closed"}
    /\ queue \in Seq(Client \cup {Kill, Shutdown})
    /\ reading \in SUBSET Client
    /\ accepting \in Client \cup {None}
    /\ workersCount \in Int
    /\ workersBusy \in Int
    /\ listed \in SUBSET Worker
    /\ pc \in [Thread -> Labels]
    /\ job \in [Worker -> Client \cup {Shutdown, None}]
    /\ child \in [Worker -> Worker \cup {None}]
    /\ seen \in [Worker -> Int]

(* The workers between two receipts from the port, those that create one,  *)
(* and those that have not left the pool.                                  *)
BusyLabels == {"loop", "took", "readBusy", "readCount", "equal", "creating", "inserting",
               "serving", "dropping", "ending"}
CreatingLabels == {"creating", "inserting"}
AliveLabels == BusyLabels \cup {"created", "waiting", "releasing"}
At(labels) == {w \in Worker : pc[w] \in labels}

(* The counters by which workers are created, leave and are waited for are *)
(* exact whatever way each worker leaves its loop: workersBusy counts those *)
(* that are not waiting, workersCount all but those not yet in the list,   *)
(* of which there is one for each worker that is entering one.             *)
CountersAreExact ==
    /\ workersBusy = Cardinality(At(BusyLabels))
    /\ workersCount = Cardinality(At(AliveLabels)) - Cardinality(At({"inserting"}))

(* The most workers that the unsynchronised loads let the pool grow to: at *)
(* most maxWorkers - 1 are counted when workersCount last was below the    *)
(* limit, as many are being created, and as many workers may still create  *)
(* one, who loaded workersCount then and load workersBusy later.           *)
PoolLimit ==
    IF minWorkers > 3 * (maxWorkers - 1) THEN minWorkers ELSE 3 * (maxWorkers - 1)

(* The workers counted and those being created keep within this limit.     *)
PoolIsBounded == workersCount + Cardinality(At(CreatingLabels)) =< PoolLimit

(* At most one worker serves a client, and none has an operation pending   *)
(* while it is served: the commands of one client are served one at a time.*)
OneWorkerPerClient ==
    \A k \in Client :
        /\ \A v, w \in Worker : job[v] = k /\ job[w] = k => v = w
        /\ Served(k) => k \notin reading /\ ~InQueue(k)

(* The port is closed, and the clients are released, after the last worker *)
(* has left.  The one exception is a worker that is entering a thread in   *)
(* the list: the count misses it when this thread has already ended.       *)
PortClosesLast ==
    [][port' # port => \A w \in At(AliveLabels) : pc[w] = "inserting"]_vars

(* A shutdown that began ends, whatever the workers were doing.            *)
ShutdownEnds == \A t \in Thread : pc[t] = "killing" ~> port = "closed"

(* A completion does not stay in the port: "If is possible, keep one       *)
(* thread free to response to new IO operations" (sdb_lock_server.c:1486). *)
IOIsAnswered == \A k \in Client : InQueue(k) ~> ~InQueue(k)

(* A completion waits only for a worker to be free: it stays in the port   *)
(* only when every worker has left.                                        *)
WorkersTakeIO ==
    \A k \in Client : InQueue(k) ~> (~InQueue(k) \/ At(AliveLabels) = {})
=============================================================================
