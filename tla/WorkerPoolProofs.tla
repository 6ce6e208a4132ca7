-------------------------- MODULE WorkerPoolProofs --------------------------
(***************************************************************************)
(* Theorems about WorkerPool, for every number of workers and clients.     *)
(***************************************************************************)
EXTENDS WorkerPool, FiniteSetTheorems, SequenceTheorems, TLAPS

Serving == {"took", "readBusy", "readCount", "equal", "creating", "inserting", "serving", "dropping"}

(* A worker that serves has a client, one that inserts has a new worker.   *)
JobOK == \A w \in Worker :
    /\ pc[w] \in Serving => job[w] \in Client
    /\ pc[w] = "inserting" => child[w] \in Worker

Typed == TypeOK /\ JobOK

LEMMA TypedInit == Init => Typed
  <1> SUFFICES ASSUME Init
               PROVE  Typed
    OBVIOUS
  <1>1. PICK first \in SUBSET Worker :
          /\ listed = first
          /\ pc = [t \in Thread |->
                IF t = Main THEN "console" ELSE IF t \in first THEN "created" ELSE "off"]
    BY DEF Init
  <1>2. pc \in [Thread -> {"console", "created", "off"}]
    BY <1>1
  <1>3. pc \in [Thread -> Labels]
    BY <1>2 DEF Labels
  <1>4. \A w \in Worker : pc[w] \in {"console", "created", "off"}
    BY <1>2 DEF Thread
  <1>5. /\ listed \in SUBSET Worker
        /\ workersCount \in Int
    BY <1>1, PoolAssumption DEF Init
  <1>6. queue \in Seq(Client \cup {Kill, Shutdown})
    BY DEF Init
  <1>7. TypeOK
    BY <1>3, <1>5, <1>6 DEF Init, TypeOK
  <1>8. JobOK
    BY <1>4 DEF JobOK, Serving
  <1> QED
    BY <1>7, <1>8 DEF Typed

(* A post leaves in the port what was there and at most one packet more.   *)
LEMMA PostedType ==
    ASSUME NEW S, queue \in Seq(S), NEW x \in S
    PROVE  Posted(x) \in Seq(S)
  BY AppendProperties DEF Posted

(* Moving a thread keeps the labels, and the other threads where they are. *)
LEMMA GotoType ==
    ASSUME Typed, NEW t \in Thread, NEW label \in Labels, Goto(t, label)
    PROVE  /\ pc' \in [Thread -> Labels]
           /\ pc'[t] = label
           /\ \A other \in Thread \ {t} : pc'[other] = pc[other]
  BY DEF Typed, TypeOK, Goto

LEMMA TypedNext == Typed /\ [Next]_vars => Typed'
  <1> SUFFICES ASSUME Typed, [Next]_vars
               PROVE  Typed'
    OBVIOUS
  <1> USE PoolAssumption
  <1> USE DEF Typed
  <1>t. \A w \in Worker : w \in Thread /\ w # Main
    BY DEF Thread
  <1>q. /\ queue \in Seq(Client \cup {Kill, Shutdown})
        /\ queue # <<>> => /\ Head(queue) \in Client \cup {Kill, Shutdown}
                           /\ Tail(queue) \in Seq(Client \cup {Kill, Shutdown})
        /\ \A x \in Client \cup {Kill, Shutdown} : Posted(x) \in Seq(Client \cup {Kill, Shutdown})
    BY HeadTailProperties, PostedType DEF TypeOK
  <1>1. ASSUME NEW w \in Worker, Start(w) PROVE Typed'
    BY <1>1, <1>t DEF Start, TypeOK, JobOK, Serving, Goto, Labels, clients
  <1>2. ASSUME NEW w \in Worker, Loop(w) PROVE Typed'
    <2>1. /\ workersBusy' \in Int
          /\ UNCHANGED <<isRunning, port, clients, workersCount, listed, job, child, seen>>
          /\ \E label \in {"waiting", "ending"} : Goto(w, label)
      BY <1>2 DEF Loop, TypeOK
    <2>2. TypeOK'
      BY <2>1, <1>t DEF TypeOK, Goto, Labels, clients
    <2>3. JobOK'
      BY <2>1, <1>t DEF TypeOK, JobOK, Serving, Goto
    <2> QED
      BY <2>2, <2>3
  <1>3. ASSUME NEW w \in Worker, Take(w) PROVE Typed'
    <2>1. \E label \in {"took", "ending"} :
             /\ Goto(w, label)
             /\ label = "took" => job'[w] \in Client
      BY <1>3 DEF Take, TypeOK
    <2>2. /\ job' \in [Worker -> Client \cup {Shutdown, None}]
          /\ \A other \in Worker \ {w} : job'[other] = job[other]
      <3>1. \/ job' = job
            \/ \E x \in Client \cup {Shutdown} : job' = [job EXCEPT ![w] = x]
        BY <1>3 DEF Take
      <3>2. job \in [Worker -> Client \cup {Shutdown, None}]
        BY DEF TypeOK
      <3> QED
        BY <3>1, <3>2
    <2>3. /\ queue' \in Seq(Client \cup {Kill, Shutdown})
          /\ workersBusy' \in Int
      BY <1>3, <1>q DEF Take, TypeOK
    <2>4. UNCHANGED <<isRunning, port, reading, accepting, workersCount, listed, child, seen>>
      BY <1>3 DEF Take
    <2>5. TypeOK'
      BY <2>1, <2>2, <2>3, <2>4, <1>t DEF TypeOK, Goto, Labels
    <2>6. JobOK'
      BY <2>1, <2>2, <2>4, <1>t DEF TypeOK, JobOK, Serving, Goto
    <2> QED
      BY <2>5, <2>6
  <1>4. ASSUME NEW w \in Worker, TakeLost(w) PROVE Typed'
    BY <1>4, <1>t, <1>q DEF TakeLost, TypeOK, JobOK, Serving, Goto, Labels
  <1>5. ASSUME NEW w \in Worker, Drop(w) PROVE Typed'
    BY <1>5, <1>t DEF Drop, TypeOK, JobOK, Serving, Goto, Labels, clients, counters
  <1>6. ASSUME NEW w \in Worker, Timeout(w) PROVE Typed'
    BY <1>6, <1>t DEF Timeout, TypeOK, JobOK, Serving, Goto, Labels, clients
  <1>7. ASSUME NEW w \in Worker, ReadCounter(w) PROVE Typed'
    <2>1. /\ pc[w] = "took"
          /\ UNCHANGED <<isRunning, port, counters, clients, job, child>>
          /\ \E n \in Int : seen' = [seen EXCEPT ![w] = n]
          /\ \E label \in {"readBusy", "readCount"} : Goto(w, label)
      BY <1>7 DEF ReadCounter, TypeOK
    <2>2. TypeOK'
      BY <2>1, <1>t DEF TypeOK, Goto, Labels, clients, counters
    <2>3. JobOK'
      BY <2>1, <1>t DEF TypeOK, JobOK, Serving, Goto
    <2> QED
      BY <2>2, <2>3
  <1>8. ASSUME NEW w \in Worker, CompareCounters(w) PROVE Typed'
    <2>1. /\ pc[w] \in {"readBusy", "readCount"}
          /\ UNCHANGED <<isRunning, port, counters, clients, job, child>>
          /\ seen' = seen \/ seen' = [seen EXCEPT ![w] = 0]
          /\ \E label \in {"equal", "serving"} : Goto(w, label)
      BY <1>8 DEF CompareCounters, GoOn
    <2>2. TypeOK'
      BY <2>1, <1>t DEF TypeOK, Goto, Labels, clients, counters
    <2>3. JobOK'
      BY <2>1, <1>t DEF TypeOK, JobOK, Serving, Goto
    <2> QED
      BY <2>2, <2>3
  <1>9. ASSUME NEW w \in Worker, CompareMax(w) PROVE Typed'
    <2>1. /\ pc[w] = "equal"
          /\ UNCHANGED <<isRunning, port, counters, clients, job, child>>
          /\ seen' = seen \/ seen' = [seen EXCEPT ![w] = 0]
          /\ \E label \in {"creating", "serving"} : Goto(w, label)
      BY <1>9 DEF CompareMax, GoOn
    <2>2. TypeOK'
      BY <2>1, <1>t DEF TypeOK, Goto, Labels, clients, counters
    <2>3. JobOK'
      BY <2>1, <1>t DEF TypeOK, JobOK, Serving, Goto
    <2> QED
      BY <2>2, <2>3
  <1>10. ASSUME NEW w \in Worker, Create(w) PROVE Typed'
    <2>1. CASE GoOn(w) /\ UNCHANGED child
      <3>1. UNCHANGED <<isRunning, port, counters, clients, job>> /\ pc[w] = "creating"
        BY <1>10 DEF Create
      <3> QED
        BY <2>1, <3>1, <1>t DEF GoOn, TypeOK, JobOK, Serving, Goto, Labels, clients, counters
    <2>2. CASE \E v \in Worker : /\ pc[v] = "off"
                                 /\ pc' = [pc EXCEPT ![w] = "inserting", ![v] = "created"]
                                 /\ child' = [child EXCEPT ![w] = v]
                                 /\ UNCHANGED seen
      <3>1. UNCHANGED <<isRunning, port, counters, clients, job>> /\ pc[w] = "creating"
        BY <1>10 DEF Create
      <3>2. TypeOK'
        BY <2>2, <3>1, <1>t DEF TypeOK, Labels, clients, counters
      <3>3. JobOK'
        BY <2>2, <3>1, <1>t DEF TypeOK, JobOK, Serving
      <3> QED
        BY <3>2, <3>3
    <2> QED
      BY <1>10, <2>1, <2>2 DEF Create
  <1>11. ASSUME NEW w \in Worker, Insert(w) PROVE Typed'
    BY <1>11, <1>t DEF Insert, GoOn, TypeOK, JobOK, Serving, Goto, Labels, clients
  <1>12. ASSUME NEW w \in Worker, Serve(w) PROVE Typed'
    <2>1. job[w] \in Client
      BY <1>12 DEF Serve, JobOK, Serving
    <2>2. /\ queue' \in Seq(Client \cup {Kill, Shutdown})
          /\ reading' \in SUBSET Client
      BY <1>12, <1>q, <2>1 DEF Serve, Respond, TypeOK
    <2> QED
      BY <1>12, <1>t, <2>2 DEF Serve, TypeOK, JobOK, Serving, Goto, Labels, counters
  <1>13. ASSUME NEW w \in Worker, LeaveBusy(w) PROVE Typed'
    BY <1>13, <1>t DEF LeaveBusy, TypeOK, JobOK, Serving, Goto, Labels, clients
  <1>14. ASSUME NEW w \in Worker, ReleaseWorker(w) PROVE Typed'
    BY <1>14, <1>t DEF ReleaseWorker, TypeOK, JobOK, Serving, Goto, Labels, clients
  <1>15. ASSUME NEW w \in Worker, Exit(w) PROVE Typed'
    BY <1>15, <1>t DEF Exit, TypeOK, JobOK, Serving, Goto, Labels, clients, counters
  <1>16. ASSUME NEW t \in Thread, StopStep(t) PROVE Typed'
    <2>1. ASSUME TestRunning(t) PROVE Typed'
      BY <2>1 DEF TestRunning, TypeOK, JobOK, Serving, Goto, Labels, clients, counters
    <2>2. ASSUME ClearRunning(t) PROVE Typed'
      <3>1. TypeOK'
        BY <2>2 DEF ClearRunning, TypeOK, Goto, Labels, clients, counters
      <3>2. JobOK'
        BY <2>2 DEF ClearRunning, TypeOK, JobOK, Serving, Goto
      <3> QED
        BY <3>1, <3>2
    <2>3. ASSUME PostKill(t) PROVE Typed'
      BY <2>3, <1>q DEF PostKill, TypeOK, JobOK, counters
    <2>4. ASSUME ClosePort(t) PROVE Typed'
      BY <2>4 DEF ClosePort, TypeOK, JobOK, Serving, Goto, Labels, counters
    <2> QED
      BY <1>16, <2>1, <2>2, <2>3, <2>4 DEF StopStep
  <1>17. ASSUME NEW k \in Client, ClientStep(k) PROVE Typed'
    BY <1>17, <1>q DEF ClientStep, BeginAccept, Complete, TypeOK, JobOK, counters
  <1>18. ASSUME EndAccept PROVE Typed'
    BY <1>18 DEF EndAccept, TypeOK, JobOK, counters
  <1>19. ASSUME Ask PROVE Typed'
    BY <1>19 DEF Thread, Ask, TypeOK, JobOK, Serving, Goto, Labels, clients, counters
  <1>20. ASSUME UNCHANGED vars PROVE Typed'
    BY <1>20 DEF vars, TypeOK, JobOK, clients, counters
  <1> QED
    BY <1>1, <1>2, <1>3, <1>4, <1>5, <1>6, <1>7, <1>8, <1>9, <1>10, <1>11, <1>12, <1>13,
       <1>14, <1>15, <1>16, <1>17, <1>18, <1>19, <1>20 DEF Next, WorkerStep

(* The type invariant of the pool holds.                                   *)
THEOREM PoolTypeCorrect == Spec => []TypeOK
  <1>1. Spec => []Typed
    BY TypedInit, TypedNext, PTL DEF Spec
  <1> QED
    BY <1>1, PTL DEF Typed

-----------------------------------------------------------------------------
(* The counters.                                                           *)

One(label, labels) == IF label \in labels THEN 1 ELSE 0

LEMMA FinitePart ==
    ASSUME NEW labels
    PROVE  IsFiniteSet(At(labels)) /\ Cardinality(At(labels)) \in Nat
  BY PoolAssumption, FS_Subset, FS_CardinalityType DEF At

LEMMA FinitePartNext ==
    ASSUME NEW labels
    PROVE  Cardinality(At(labels)') \in Nat
  <1>1. At(labels)' \subseteq Worker
    BY DEF At
  <1> QED
    BY <1>1, PoolAssumption, FS_Subset, FS_CardinalityType

(* The effect of one worker's move on the sets that the counters count.    *)
LEMMA MoveCounts ==
    ASSUME Typed, NEW w \in Worker, NEW label \in Labels, Goto(w, label), NEW labels
    PROVE  Cardinality(At(labels)') =
               Cardinality(At(labels)) + One(label, labels) - One(pc[w], labels)
  <1>1. /\ pc'[w] = label
        /\ \A other \in Worker \ {w} : pc'[other] = pc[other]
    BY GotoType DEF Thread
  <1>2. At(labels)' = IF label \in labels THEN At(labels) \cup {w} ELSE At(labels) \ {w}
    BY <1>1 DEF At
  <1>3. w \in At(labels) <=> pc[w] \in labels
    BY DEF At
  <1>4. /\ Cardinality(At(labels) \cup {w}) =
              IF w \in At(labels) THEN Cardinality(At(labels)) ELSE Cardinality(At(labels)) + 1
        /\ Cardinality(At(labels) \ {w}) =
              IF w \in At(labels) THEN Cardinality(At(labels)) - 1 ELSE Cardinality(At(labels))
    BY FinitePart, FS_AddElement, FS_RemoveElement
  <1> QED
    BY <1>2, <1>3, <1>4, FinitePart DEF One

(* Steps that move no worker into or out of these sets.                    *)
LEMMA StillCounts ==
    ASSUME NEW labels, \A w \in Worker : pc'[w] \in labels <=> pc[w] \in labels
    PROVE  At(labels)' = At(labels)
  BY DEF At

PoolInv == Typed /\ CountersAreExact

LEMMA PoolInvInit == Init => PoolInv
  <1> SUFFICES ASSUME Init
               PROVE  PoolInv
    OBVIOUS
  <1>1. Typed
    BY TypedInit
  <1>2. PICK first \in SUBSET Worker :
          /\ Cardinality(first) = minWorkers
          /\ pc = [t \in Thread |->
                IF t = Main THEN "console" ELSE IF t \in first THEN "created" ELSE "off"]
    BY DEF Init
  <1>3. \A w \in Worker : pc[w] = IF w \in first THEN "created" ELSE "off"
    BY <1>2, PoolAssumption DEF Thread
  <1>4. /\ At(BusyLabels) = {}
        /\ At({"inserting"}) = {}
    BY <1>3 DEF At, BusyLabels
  <1>5. At(AliveLabels) = first
    BY <1>3 DEF At, BusyLabels, AliveLabels
  <1>6. workersCount = minWorkers /\ workersBusy = 0
    BY DEF Init
  <1>7. CountersAreExact
    BY <1>2, <1>4, <1>5, <1>6, FS_EmptySet, PoolAssumption DEF CountersAreExact
  <1> QED
    BY <1>1, <1>7 DEF PoolInv

(* The numbers of workers that the counters stand for.                     *)
busy == Cardinality(At(BusyLabels))
alive == Cardinality(At(AliveLabels))
inserting == Cardinality(At({"inserting"}))

(* What each step does to the counters and the sets they count.            *)
LEMMA PoolInvNext == PoolInv /\ [Next]_vars => PoolInv'
  <1> SUFFICES ASSUME PoolInv, [Next]_vars
               PROVE  PoolInv'
    OBVIOUS
  <1>t. Typed /\ Typed'
    BY TypedNext DEF PoolInv
  <1>n. /\ workersBusy = busy
        /\ workersCount = alive - inserting
        /\ workersCount \in Int /\ workersBusy \in Int
        /\ busy \in Nat /\ alive \in Nat /\ inserting \in Nat
    BY <1>t, FinitePart DEF PoolInv, CountersAreExact, Typed, TypeOK, busy, alive, inserting
  <1>c. ASSUME workersBusy' = busy', workersCount' = alive' - inserting'
        PROVE  PoolInv'
    BY <1>t, <1>c DEF PoolInv, CountersAreExact, busy, alive, inserting
  <1>m. ASSUME NEW w \in Worker, NEW label \in Labels, Goto(w, label)
        PROVE  /\ busy' = busy + One(label, BusyLabels) - One(pc[w], BusyLabels)
               /\ alive' = alive + One(label, AliveLabels) - One(pc[w], AliveLabels)
               /\ inserting' = inserting + One(label, {"inserting"}) - One(pc[w], {"inserting"})
    BY <1>t, <1>m, MoveCounts DEF busy, alive, inserting
  <1>s. ASSUME UNCHANGED <<workersCount, workersBusy>>,
               \A w \in Worker :
                   pc'[w] = pc[w] \/ {pc[w], pc'[w]} \subseteq {"off", "stopping", "clearing", "killing", "stopped"}
        PROVE  PoolInv'
    <2>1. /\ busy' = busy
          /\ alive' = alive
          /\ inserting' = inserting
      <3>1. \A w \in Worker : /\ pc'[w] \in AliveLabels <=> pc[w] \in AliveLabels
                              /\ pc'[w] \in BusyLabels <=> pc[w] \in BusyLabels
                              /\ pc'[w] \in {"inserting"} <=> pc[w] \in {"inserting"}
        BY <1>s DEF AliveLabels, BusyLabels
      <3> QED
        BY <3>1, StillCounts DEF busy, alive, inserting
    <2> QED
      BY <1>c, <1>s, <1>n, <2>1
  <1>1. ASSUME NEW w \in Worker, Start(w) PROVE PoolInv'
    BY <1>1, <1>n, <1>c, <1>m DEF Start, One, AliveLabels, BusyLabels, Labels
  <1>2. ASSUME NEW w \in Worker, Loop(w) PROVE PoolInv'
    BY <1>2, <1>n, <1>c, <1>m DEF Loop, One, AliveLabels, BusyLabels, Labels
  <1>3. ASSUME NEW w \in Worker, Take(w) PROVE PoolInv'
    <2>1. PICK label \in {"took", "ending"} : Goto(w, label)
      BY <1>3 DEF Take
    <2> QED
      BY <1>3, <1>n, <1>c, <1>m, <2>1 DEF Take, One, AliveLabels, BusyLabels, Labels
  <1>4. ASSUME NEW w \in Worker, TakeLost(w) PROVE PoolInv'
    <2>1. /\ pc[w] = "waiting"
          /\ workersBusy' = workersBusy + 1
          /\ workersCount' = workersCount
          /\ Goto(w, "dropping")
      BY <1>4 DEF TakeLost
    <2> QED
      BY <2>1, <1>n, <1>c, <1>m DEF One, AliveLabels, BusyLabels, Labels
  <1>5. ASSUME NEW w \in Worker, Drop(w) PROVE PoolInv'
    BY <1>5, <1>n, <1>c, <1>m DEF Drop, One, AliveLabels, BusyLabels, Labels, counters
  <1>6. ASSUME NEW w \in Worker, Timeout(w) PROVE PoolInv'
    BY <1>6, <1>n, <1>c, <1>m DEF Timeout, One, AliveLabels, BusyLabels, Labels
  <1>7. ASSUME NEW w \in Worker, ReadCounter(w) \/ CompareCounters(w) \/ CompareMax(w) PROVE PoolInv'
    <2>1. /\ UNCHANGED counters
          /\ pc[w] \in {"took", "readBusy", "readCount", "equal"}
          /\ \E label \in {"readBusy", "readCount", "equal", "creating", "serving"} : Goto(w, label)
      BY <1>7 DEF ReadCounter, CompareCounters, CompareMax, GoOn
    <2>2. PICK label \in {"readBusy", "readCount", "equal", "creating", "serving"} : Goto(w, label)
      BY <2>1
    <2>3. label \in Labels
      BY DEF Labels
    <2>4. busy' = busy /\ alive' = alive /\ inserting' = inserting
      BY <1>m, <1>n, <2>1, <2>2, <2>3 DEF One, AliveLabels, BusyLabels
    <2> QED
      BY <1>c, <1>n, <2>1, <2>4 DEF counters
  <1>8. ASSUME NEW w \in Worker, Create(w) PROVE PoolInv'
    <2>1. UNCHANGED <<workersCount, workersBusy>> /\ pc[w] = "creating"
      BY <1>8 DEF Create, counters
    <2>2. CASE Goto(w, "serving")
      BY <2>1, <2>2, <1>n, <1>c, <1>m DEF One, AliveLabels, BusyLabels, Labels
    <2>3. CASE \E v \in Worker : /\ pc[v] = "off"
                                 /\ pc' = [pc EXCEPT ![w] = "inserting", ![v] = "created"]
      <3>1. PICK v \in Worker : /\ pc[v] = "off"
                               /\ pc' = [pc EXCEPT ![w] = "inserting", ![v] = "created"]
        BY <2>3
      <3>2. pc \in [Thread -> Labels] /\ Worker \subseteq Thread /\ v # w
        BY <1>t, <2>1, <3>1 DEF Typed, TypeOK, Thread
      <3>3. /\ At(BusyLabels)' = At(BusyLabels)
            /\ At(AliveLabels)' = At(AliveLabels) \cup {v}
            /\ At({"inserting"})' = At({"inserting"}) \cup {w}
        BY <2>1, <3>1, <3>2 DEF At, AliveLabels, BusyLabels
      <3>4. v \notin At(AliveLabels) /\ w \notin At({"inserting"})
        BY <2>1, <3>1 DEF At, AliveLabels, BusyLabels
      <3>5. alive' = alive + 1 /\ inserting' = inserting + 1 /\ busy' = busy
        BY <3>3, <3>4, FinitePart, FS_AddElement DEF busy, alive, inserting
      <3> QED
        BY <1>c, <1>n, <2>1, <3>5
    <2> QED
      BY <1>8, <2>2, <2>3 DEF Create, GoOn
  <1>9. ASSUME NEW w \in Worker, Insert(w) PROVE PoolInv'
    BY <1>9, <1>n, <1>c, <1>m DEF Insert, GoOn, One, AliveLabels, BusyLabels, Labels
  <1>10. ASSUME NEW w \in Worker, Serve(w) PROVE PoolInv'
    BY <1>10, <1>n, <1>c, <1>m DEF Serve, One, AliveLabels, BusyLabels, Labels, counters
  <1>11. ASSUME NEW w \in Worker, LeaveBusy(w) PROVE PoolInv'
    BY <1>11, <1>n, <1>c, <1>m DEF LeaveBusy, One, AliveLabels, BusyLabels, Labels
  <1>12. ASSUME NEW w \in Worker, ReleaseWorker(w) PROVE PoolInv'
    BY <1>12, <1>n, <1>c, <1>m DEF ReleaseWorker, One, AliveLabels, BusyLabels, Labels
  <1>13. ASSUME NEW w \in Worker, Exit(w) PROVE PoolInv'
    BY <1>13, <1>n, <1>c, <1>m DEF Exit, One, AliveLabels, BusyLabels, Labels, counters
  <1>14. ASSUME NEW t \in Thread, StopStep(t) PROVE PoolInv'
    <2>1. /\ UNCHANGED counters
          /\ \/ pc' = pc
             \/ /\ pc[t] \in {"stopping", "clearing", "killing"}
                /\ \E label \in {"clearing", "stopped", "killing"} : Goto(t, label)
      BY <1>14 DEF StopStep, TestRunning, ClearRunning, PostKill, ClosePort, counters
    <2>2. \A w \in Worker :
              pc'[w] = pc[w] \/ {pc[w], pc'[w]} \subseteq {"off", "stopping", "clearing", "killing", "stopped"}
      BY <2>1, <1>t DEF Goto, Thread, Typed, TypeOK
    <2> QED
      BY <1>s, <2>1, <2>2 DEF counters
  <1>15. ASSUME NEW k \in Client, ClientStep(k) PROVE PoolInv'
    BY <1>15, <1>s DEF ClientStep, BeginAccept, Complete, counters
  <1>16. ASSUME EndAccept PROVE PoolInv'
    BY <1>16, <1>s DEF EndAccept, counters
  <1>17. ASSUME Ask PROVE PoolInv'
    BY <1>17, <1>s, <1>t, PoolAssumption DEF Ask, Goto, Thread, Typed, TypeOK, counters
  <1>18. ASSUME UNCHANGED vars PROVE PoolInv'
    BY <1>18, <1>s DEF vars, counters
  <1> QED
    BY <1>1, <1>2, <1>3, <1>4, <1>5, <1>6, <1>7, <1>8, <1>9, <1>10, <1>11, <1>12, <1>13,
       <1>14, <1>15, <1>16, <1>17, <1>18 DEF Next, WorkerStep

LEMMA PoolInvHolds == Spec => []PoolInv
  BY PoolInvInit, PoolInvNext, PTL DEF Spec

(* The counters of the pool are exact.                                     *)
THEOREM CountersAreExactAlways == Spec => []CountersAreExact
  BY PoolInvHolds, PTL DEF PoolInv

-----------------------------------------------------------------------------
(* How far the unsynchronised loads let the pool grow, in a build that     *)
(* loads workersCount once.                                                *)

(* A worker that has loaded workersBusy, and may still create a worker or  *)
(* is creating one, was itself busy then, with all who were so before it:  *)
(* so at most v of them have found v or fewer workers busy.                *)
Candidates == At({"readBusy", "equal", "creating", "inserting"})
Ahead(v) == {w \in Candidates : seen[w] =< v}
Ranked == \A v \in Int : v >= 0 => Cardinality(Ahead(v)) =< v

(* Those that will create a worker or do, and those that may still decide  *)
(* to, by a count below the limit that they have loaded.                   *)
Below(w) == seen[w] < maxWorkers
Passed == {w \in At({"equal", "creating", "inserting"}) : Below(w)}
Pending == {w \in At({"readCount"}) : Below(w)}

passed == Cardinality(Passed)
pending == Cardinality(Pending)

(* The pool and those that will create a worker are few, or the counted    *)
(* workers are at the limit and no worker decides to create one but those  *)
(* that loaded the count before.                                           *)
EarlyLimit == IF minWorkers > 2 * (maxWorkers - 1) THEN minWorkers ELSE 2 * (maxWorkers - 1)

Fits(count, making, deciding) ==
    \/ count + making =< EarlyLimit
    \/ count >= maxWorkers /\ count + making + deciding =< PoolLimit

GrowthInv ==
    /\ Ranked
    /\ \A w \in At(CreatingLabels) : Below(w)
    /\ Fits(workersCount, passed, pending)

LEMMA Limits ==
    /\ EarlyLimit \in Nat /\ PoolLimit \in Nat
    /\ EarlyLimit =< PoolLimit
    /\ 2 * (maxWorkers - 1) =< EarlyLimit
    /\ maxWorkers > 1 => EarlyLimit + maxWorkers - 1 =< PoolLimit
  BY PoolAssumption DEF EarlyLimit, PoolLimit

(* Fewer that decide or create, or a worker that leaves.                   *)
LEMMA FitsFewer ==
    ASSUME NEW c \in Int, NEW p \in Nat, NEW t \in Nat, Fits(c, p, t), p =< maxWorkers - 1,
           NEW d \in {c, c - 1}, NEW q \in Nat, NEW u \in Nat,
           q =< p, c >= maxWorkers => u =< t
    PROVE  Fits(d, q, u)
  BY Limits, PoolAssumption DEF Fits

(* One more that will create a worker: it has found the count below the    *)
(* limit just now, or before, and then few workers busy just now.          *)
LEMMA FitsEarly ==
    ASSUME NEW c \in Int, c =< maxWorkers - 1, NEW p \in Nat, p =< maxWorkers - 1, NEW t
    PROVE  Fits(c, p, t)
  BY Limits, PoolAssumption DEF Fits

LEMMA FitsLate ==
    ASSUME NEW c \in Int, NEW p \in Nat, NEW t \in Nat, Fits(c, p, t),
           NEW u \in Nat, t = u + 1, p + t =< maxWorkers - 1
    PROVE  Fits(c, p + 1, u)
  <1>1. maxWorkers > 1 /\ c + p + 1 + u = c + p + t
    BY PoolAssumption
  <1>2. CASE c < maxWorkers
    BY <1>2, FitsEarly, PoolAssumption
  <1>3. CASE c >= maxWorkers
    BY <1>1, <1>3, Limits, PoolAssumption DEF Fits
  <1> QED
    BY <1>2, <1>3, PoolAssumption

LEMMA FitsEntered ==
    ASSUME NEW c \in Int, NEW p \in Nat, NEW t \in Nat, Fits(c, p, t)
    PROVE  Fits(c + 1, p - 1, t)
  BY Limits, PoolAssumption DEF Fits

LEMMA SubsetCounts ==
    ASSUME NEW S, NEW T, S \subseteq T, T \subseteq Worker
    PROVE  /\ IsFiniteSet(S) /\ IsFiniteSet(T)
           /\ Cardinality(S) \in Nat /\ Cardinality(T) \in Nat
           /\ Cardinality(S) =< Cardinality(T)
  BY PoolAssumption, FS_Subset, FS_CardinalityType

LEMMA PartsCount ==
    ASSUME NEW S, NEW T, NEW U, S \cup T \subseteq U, S \cap T = {}, U \subseteq Worker
    PROVE  Cardinality(S) + Cardinality(T) =< Cardinality(U)
  <1>1. /\ IsFiniteSet(S) /\ IsFiniteSet(T)
        /\ Cardinality(S) \in Nat /\ Cardinality(T) \in Nat /\ Cardinality(U) \in Nat
        /\ Cardinality(S \cup T) =< Cardinality(U)
    BY SubsetCounts
  <1>2. Cardinality(S \cap T) = 0
    BY FS_EmptySet
  <1>3. Cardinality(S \cup T) = Cardinality(S) + Cardinality(T) - Cardinality(S \cap T)
    BY <1>1, FS_Union
  <1> QED
    BY <1>1, <1>2, <1>3

LEMMA GrowthTypes ==
    /\ passed \in Nat /\ pending \in Nat
    /\ passed' \in Nat /\ pending' \in Nat
  <1>1. /\ Passed \subseteq Worker /\ Pending \subseteq Worker
        /\ Passed' \subseteq Worker /\ Pending' \subseteq Worker
    BY DEF Passed, Pending, At
  <1> QED
    BY <1>1, SubsetCounts DEF passed, pending

(* At most maxWorkers - 1 workers create one, or will.                     *)
LEMMA FewPassed ==
    ASSUME Typed, Ranked
    PROVE  passed =< maxWorkers - 1
  <1>1. maxWorkers - 1 \in Int /\ maxWorkers - 1 >= 0
    BY PoolAssumption
  <1>2. Passed \subseteq Ahead(maxWorkers - 1)
    BY PoolAssumption DEF Passed, Ahead, Candidates, At, Below, Typed, TypeOK
  <1>3. Ahead(maxWorkers - 1) \subseteq Worker
    BY DEF Ahead, Candidates, At
  <1>4. Cardinality(Ahead(maxWorkers - 1)) =< maxWorkers - 1
    BY <1>1 DEF Ranked
  <1>5. Cardinality(Passed) =< Cardinality(Ahead(maxWorkers - 1))
    BY <1>2, <1>3, SubsetCounts
  <1> QED
    BY <1>1, <1>2, <1>3, <1>4, <1>5, SubsetCounts DEF passed

LEMMA FewPassedNext ==
    ASSUME Typed', Ranked'
    PROVE  passed' =< maxWorkers - 1
  <1>1. maxWorkers - 1 \in Int /\ maxWorkers - 1 >= 0
    BY PoolAssumption
  <1>2. Passed' \subseteq Ahead(maxWorkers - 1)'
    BY PoolAssumption DEF Passed, Ahead, Candidates, At, Below, Typed, TypeOK
  <1>3. Ahead(maxWorkers - 1)' \subseteq Worker
    BY DEF Ahead, Candidates, At
  <1>4. Cardinality(Ahead(maxWorkers - 1)') =< maxWorkers - 1
    BY <1>1 DEF Ranked
  <1> QED
    BY <1>1, <1>2, <1>3, <1>4, SubsetCounts DEF passed

(* A step by which no worker comes to be a candidate keeps the order.      *)
LEMMA RankedStays ==
    ASSUME Ranked, \A w \in Candidates' : w \in Candidates /\ seen'[w] = seen[w]
    PROVE  Ranked'
  <1> SUFFICES ASSUME NEW v \in Int, v >= 0
               PROVE  Cardinality(Ahead(v)') =< v
    BY DEF Ranked
  <1>1. Ahead(v)' \subseteq Ahead(v)
    BY DEF Ahead
  <1>2. Ahead(v) \subseteq Worker
    BY DEF Ahead, Candidates, At
  <1>3. Cardinality(Ahead(v)) =< v
    BY DEF Ranked
  <1> QED
    BY <1>1, <1>2, <1>3, SubsetCounts

(* One that becomes a candidate has found all candidates busy, and itself. *)
LEMMA RankedJoins ==
    ASSUME Ranked, NEW w \in Worker, seen'[w] = busy', busy' \in Nat, w \in At(BusyLabels)',
           \A x \in Candidates' \ {w} : x \in Candidates /\ seen'[x] = seen[x]
    PROVE  Ranked'
  <1> SUFFICES ASSUME NEW v \in Int, v >= 0
               PROVE  Cardinality(Ahead(v)') =< v
    BY DEF Ranked
  <1>1. CASE busy' =< v
    <2>1. Ahead(v)' \subseteq At(BusyLabels)' /\ At(BusyLabels)' \subseteq Worker
      BY DEF Ahead, Candidates, At, BusyLabels
    <2> QED
      BY <1>1, <2>1, SubsetCounts DEF busy
  <1>2. CASE ~(busy' =< v)
    <2>1. Ahead(v)' \subseteq Ahead(v)
      BY <1>2 DEF Ahead
    <2>2. Ahead(v) \subseteq Worker
      BY DEF Ahead, Candidates, At
    <2>3. Cardinality(Ahead(v)) =< v
      BY DEF Ranked
    <2> QED
      BY <2>1, <2>2, <2>3, SubsetCounts
  <1> QED
    BY <1>1, <1>2

(* A step of the pool that brings no worker nearer to creating one.        *)
Watched == {"readBusy", "readCount", "equal", "creating", "inserting"}

LEMMA GrowthQuiet ==
    ASSUME Typed, Typed', GrowthInv,
           workersCount' \in {workersCount, workersCount - 1},
           \A w \in Worker : pc'[w] \in Watched => pc'[w] = pc[w] /\ seen'[w] = seen[w]
    PROVE  GrowthInv'
  <1>1. Ranked'
    <2>1. \A w \in Candidates' : w \in Candidates /\ seen'[w] = seen[w]
      BY DEF Candidates, At, Watched
    <2> QED
      BY <2>1, RankedStays DEF GrowthInv
  <1>2. \A w \in At(CreatingLabels)' : Below(w)'
    BY DEF GrowthInv, At, CreatingLabels, Below, Watched
  <1>3. Fits(workersCount, passed, pending)'
    <2>1. Passed' \subseteq Passed /\ Passed \subseteq Worker
      BY DEF Passed, At, Below, Watched
    <2>2. Pending' \subseteq Pending /\ Pending \subseteq Worker
      BY DEF Pending, At, Below, Watched
    <2>3. passed' =< passed /\ pending' =< pending
      BY <2>1, <2>2, SubsetCounts DEF passed, pending
    <2>4. passed =< maxWorkers - 1
      BY FewPassed DEF GrowthInv
    <2>5. workersCount \in Int
      BY DEF Typed, TypeOK
    <2>6. Fits(workersCount', passed', pending')
      BY <2>3, <2>4, <2>5, GrowthTypes, FitsFewer DEF GrowthInv
    <2> QED
      BY <2>6 DEF Fits, EarlyLimit, PoolLimit
  <1> QED
    BY <1>1, <1>2, <1>3 DEF GrowthInv

(* A worker that goes on, and one that moves elsewhere.                    *)
LEMMA GrowthMoves ==
    ASSUME Typed, Typed', GrowthInv, NEW w \in Worker, NEW label \in Labels \ Watched,
           Goto(w, label), workersCount' \in {workersCount, workersCount - 1},
           \A x \in Worker \ {w} : seen'[x] = seen[x]
    PROVE  GrowthInv'
  <1>1. \A x \in Worker : pc'[x] \in Watched => pc'[x] = pc[x] /\ seen'[x] = seen[x]
    BY GotoType DEF Thread
  <1> QED
    BY <1>1, GrowthQuiet

(* The first load.                                                         *)
LEMMA GrowthReads ==
    ASSUME PoolInv, PoolInv', GrowthInv, NEW w \in Worker, ReadCounter(w)
    PROVE  GrowthInv'
  <1>1. /\ pc[w] = "took"
        /\ UNCHANGED counters
    BY DEF ReadCounter
  <1>2. \A x \in Worker \ {w} : pc'[x] = pc[x] /\ seen'[x] = seen[x]
    BY DEF ReadCounter, Goto, PoolInv, Typed, TypeOK, Thread
  <1>3. \/ pc'[w] = "readBusy" /\ seen'[w] = workersBusy
        \/ pc'[w] = "readCount" /\ seen'[w] = workersCount
    BY DEF ReadCounter, Goto, PoolInv, Typed, TypeOK, Thread
  <1>4. Ranked'
    <2>1. CASE pc'[w] = "readBusy" /\ seen'[w] = workersBusy
      <3>1. seen'[w] = busy' /\ busy' \in Nat
        BY <1>1, <2>1, FinitePartNext DEF PoolInv, CountersAreExact, busy, counters
      <3>2. w \in At(BusyLabels)'
        BY <2>1 DEF At, BusyLabels
      <3>3. \A x \in Candidates' \ {w} : x \in Candidates /\ seen'[x] = seen[x]
        BY <1>2 DEF Candidates, At
      <3> QED
        BY <3>1, <3>2, <3>3, RankedJoins DEF GrowthInv
    <2>2. CASE pc'[w] = "readCount"
      <3>1. \A x \in Candidates' : x \in Candidates /\ seen'[x] = seen[x]
        BY <1>2, <2>2 DEF Candidates, At
      <3> QED
        BY <3>1, RankedStays DEF GrowthInv
    <2> QED
      BY <1>3, <2>1, <2>2
  <1>5. \A x \in At(CreatingLabels)' : Below(x)'
    BY <1>2, <1>3 DEF GrowthInv, At, CreatingLabels, Below
  <1>6. passed' = passed
    <2>1. Passed' = Passed
      BY <1>1, <1>2, <1>3 DEF Passed, At, Below
    <2> QED
      BY <2>1 DEF passed
  <1>7. workersCount >= maxWorkers => pending' =< pending
    <2> SUFFICES ASSUME workersCount >= maxWorkers
                 PROVE  pending' =< pending
      OBVIOUS
    <2>1. workersCount \in Int /\ maxWorkers \in Int
      BY PoolAssumption DEF PoolInv, Typed, TypeOK
    <2>2. ~(workersCount < maxWorkers)
      BY <2>1
    <2>3. w \notin Pending'
      BY <1>3, <2>2 DEF Pending, At, Below
    <2>4. Pending' \subseteq Pending /\ Pending \subseteq Worker
      BY <1>2, <2>3 DEF Pending, At, Below
    <2> QED
      BY <2>4, SubsetCounts DEF pending
  <1>8. workersCount' = workersCount /\ workersCount \in Int
    BY <1>1 DEF counters, PoolInv, Typed, TypeOK
  <1>9. Fits(workersCount, passed, pending)'
    <2>1. passed =< maxWorkers - 1 /\ passed' =< passed
      BY <1>6, FewPassed, GrowthTypes DEF GrowthInv, PoolInv
    <2>2. Fits(workersCount', passed', pending')
      BY <1>7, <1>8, <2>1, GrowthTypes, FitsFewer DEF GrowthInv
    <2> QED
      BY <2>2 DEF Fits, EarlyLimit, PoolLimit
  <1> QED
    BY <1>4, <1>5, <1>9 DEF GrowthInv

(* The second load, when the counters are found equal.                     *)
LEMMA GrowthEquals ==
    ASSUME PoolInv, PoolInv', GrowthInv, NEW w \in Worker,
           pc[w] \in {"readBusy", "readCount"}, OtherCounter(w) = seen[w],
           Goto(w, "equal"), UNCHANGED <<counters, seen>>
    PROVE  GrowthInv'
  <1>1. /\ pc'[w] = "equal"
        /\ \A x \in Worker \ {w} : pc'[x] = pc[x]
    BY GotoType DEF PoolInv, Thread, Labels
  <1>2. /\ workersCount' = workersCount /\ workersCount \in Int /\ workersBusy' = workersBusy
        /\ seen[w] \in Int
    BY DEF counters, PoolInv, Typed, TypeOK
  <1>3. Ranked'
    <2>1. CASE pc[w] = "readBusy"
      <3>1. \A x \in Candidates' : x \in Candidates /\ seen'[x] = seen[x]
        BY <1>1, <2>1 DEF Candidates, At
      <3> QED
        BY <3>1, RankedStays DEF GrowthInv
    <2>2. CASE pc[w] = "readCount"
      <3>1. seen'[w] = busy' /\ busy' \in Nat
        BY <1>2, <2>2, FinitePartNext DEF OtherCounter, PoolInv, CountersAreExact, busy
      <3>2. w \in At(BusyLabels)'
        BY <1>1 DEF At, BusyLabels
      <3>3. \A x \in Candidates' \ {w} : x \in Candidates /\ seen'[x] = seen[x]
        BY <1>1 DEF Candidates, At
      <3> QED
        BY <3>1, <3>2, <3>3, RankedJoins DEF GrowthInv
    <2> QED
      BY <2>1, <2>2
  <1>4. \A x \in At(CreatingLabels)' : Below(x)'
    BY <1>1 DEF GrowthInv, At, CreatingLabels, Below
  <1>5. Passed' = IF Below(w) THEN Passed \cup {w} ELSE Passed
    BY <1>1 DEF Passed, At, Below
  <1>6. Pending' = Pending \ {w}
    BY <1>1 DEF Pending, At, Below
  <1>7. Fits(workersCount, passed', pending')
    <2>1. passed =< maxWorkers - 1 /\ passed' =< maxWorkers - 1
      BY <1>3, FewPassed, FewPassedNext DEF GrowthInv, PoolInv
    <2>2. Fits(workersCount, passed, pending)
      BY DEF GrowthInv
    <2>3. CASE ~Below(w)
      <3>1. passed' = passed
        BY <1>5, <2>3 DEF passed
      <3>2. Pending' \subseteq Pending /\ Pending \subseteq Worker
        BY <1>6 DEF Pending, At
      <3>3. pending' =< pending
        BY <3>2, SubsetCounts DEF pending
      <3>4. passed' =< passed
        BY <3>1, GrowthTypes
      <3> QED
        BY <1>2, <2>1, <2>2, <3>3, <3>4, GrowthTypes, FitsFewer
    <2>4. CASE Below(w) /\ pc[w] = "readBusy"
      <3>1. workersCount =< maxWorkers - 1
        BY <1>2, <2>4, PoolAssumption DEF OtherCounter, Below
      <3> QED
        BY <1>2, <2>1, <3>1, GrowthTypes, FitsEarly
    <2>5. CASE Below(w) /\ pc[w] = "readCount"
      <3>1. w \in Pending /\ w \notin Passed
        BY <2>5 DEF Pending, Passed, At
      <3>2. /\ Passed \subseteq Worker /\ Pending \subseteq Worker
            /\ IsFiniteSet(Passed) /\ IsFiniteSet(Pending)
        <4>1. Passed \subseteq Worker /\ Pending \subseteq Worker
          BY DEF Passed, Pending, At
        <4> QED
          BY <4>1, SubsetCounts
      <3>3. passed' = passed + 1 /\ pending' = pending - 1
        BY <1>5, <1>6, <2>5, <3>1, <3>2, FS_AddElement, FS_RemoveElement DEF passed, pending
      <3>4. Passed \cup Pending \subseteq At(BusyLabels) /\ At(BusyLabels) \subseteq Worker
        BY DEF Passed, Pending, At, BusyLabels
      <3>5. Passed \cap Pending = {}
        BY DEF Passed, Pending, At
      <3>6. passed + pending =< busy
        BY <3>4, <3>5, PartsCount DEF passed, pending, busy
      <3>7. busy = seen[w] /\ seen[w] < maxWorkers
        BY <2>5 DEF OtherCounter, Below, PoolInv, CountersAreExact, busy
      <3>8. passed + pending =< maxWorkers - 1
        BY <1>2, <3>6, <3>7, GrowthTypes, PoolAssumption
      <3>9. PICK left \in Nat : left = pending'
        BY GrowthTypes
      <3>10. pending = left + 1
        BY <3>3, <3>9, GrowthTypes
      <3>11. Fits(workersCount, passed + 1, left)
        BY <1>2, <2>2, <3>8, <3>10, GrowthTypes, FitsLate
      <3> QED
        BY <3>3, <3>9, <3>11
    <2> QED
      BY <2>3, <2>4, <2>5
  <1>8. Fits(workersCount, passed, pending)'
    BY <1>2, <1>7 DEF Fits, EarlyLimit, PoolLimit
  <1> QED
    BY <1>3, <1>4, <1>8 DEF GrowthInv

(* A worker that has decided to create one moves on to do so.              *)
LEMMA GrowthCreates ==
    ASSUME Typed, Typed', GrowthInv, NEW w \in Worker, Below(w), seen' = seen,
           pc[w] \in {"equal", "creating"}, pc'[w] \in CreatingLabels, UNCHANGED workersCount,
           \A x \in Worker \ {w} : pc'[x] \in Watched => pc'[x] = pc[x],
           \A x \in Worker \ {w} : pc[x] \in Watched => pc'[x] = pc[x]
    PROVE  GrowthInv'
  <1>1. Ranked'
    <2>1. \A x \in Candidates' : x \in Candidates /\ seen'[x] = seen[x]
      BY DEF Candidates, At, Watched
    <2> QED
      BY <2>1, RankedStays DEF GrowthInv
  <1>2. \A x \in At(CreatingLabels)' : Below(x)'
    BY DEF GrowthInv, At, CreatingLabels, Below, Watched
  <1>3. Passed' = Passed /\ Pending' = Pending
    BY DEF Passed, Pending, At, Below, Watched, CreatingLabels
  <1>4. Fits(workersCount, passed, pending)'
    BY <1>3 DEF GrowthInv, Fits, passed, pending, EarlyLimit, PoolLimit
  <1> QED
    BY <1>1, <1>2, <1>4 DEF GrowthInv

(* A worker enters the one it has created.                                 *)
LEMMA GrowthInserts ==
    ASSUME Typed, Typed', GrowthInv, NEW w \in Worker, Insert(w)
    PROVE  GrowthInv'
  <1>1. /\ pc[w] = "inserting"
        /\ workersCount' = workersCount + 1
    BY DEF Insert
  <1>2. /\ pc'[w] = "serving"
        /\ \A x \in Worker \ {w} : pc'[x] = pc[x] /\ seen'[x] = seen[x]
    BY DEF Insert, GoOn, Goto, Typed, TypeOK, Thread
  <1>3. Ranked'
    <2>1. \A x \in Candidates' : x \in Candidates /\ seen'[x] = seen[x]
      BY <1>2 DEF Candidates, At
    <2> QED
      BY <2>1, RankedStays DEF GrowthInv
  <1>4. \A x \in At(CreatingLabels)' : Below(x)'
    BY <1>2 DEF GrowthInv, At, CreatingLabels, Below
  <1>5. w \in Passed
    BY <1>1 DEF GrowthInv, Passed, At, CreatingLabels
  <1>6. Passed' = Passed \ {w} /\ Pending' = Pending
    BY <1>1, <1>2 DEF Passed, Pending, At, Below
  <1>7. IsFiniteSet(Passed)
    <2>1. Passed \subseteq Worker
      BY DEF Passed, At
    <2> QED
      BY <2>1, SubsetCounts
  <1>8. passed' = passed - 1 /\ pending' = pending
    BY <1>5, <1>6, <1>7, FS_RemoveElement DEF passed, pending
  <1>9. workersCount \in Int
    BY DEF Typed, TypeOK
  <1>10. Fits(workersCount + 1, passed - 1, pending)
    BY <1>9, GrowthTypes, FitsEntered DEF GrowthInv
  <1>11. Fits(workersCount, passed, pending)'
    BY <1>1, <1>8, <1>10 DEF Fits, EarlyLimit, PoolLimit
  <1> QED
    BY <1>3, <1>4, <1>11 DEF GrowthInv

LEMMA GrowthInit == Init => GrowthInv
  <1> SUFFICES ASSUME Init
               PROVE  GrowthInv
    OBVIOUS
  <1>1. PICK first \in SUBSET Worker :
          pc = [t \in Thread |->
                IF t = Main THEN "console" ELSE IF t \in first THEN "created" ELSE "off"]
    BY DEF Init
  <1>2. \A w \in Worker : pc[w] \in {"created", "off"}
    BY <1>1, PoolAssumption DEF Thread
  <1>3. /\ Candidates = {}
        /\ At(CreatingLabels) = {}
        /\ Passed = {}
    BY <1>2 DEF Candidates, Passed, At, CreatingLabels
  <1>4. Ranked
    <2>1. \A v \in Int : Ahead(v) = {}
      BY <1>3 DEF Ahead
    <2> QED
      BY <2>1, FS_EmptySet DEF Ranked
  <1>5. Fits(workersCount, passed, pending)
    <2>1. passed = 0 /\ workersCount = minWorkers
      BY <1>3, FS_EmptySet DEF passed, Init
    <2> QED
      BY <2>1, PoolAssumption DEF Fits, EarlyLimit
  <1> QED
    BY <1>3, <1>4, <1>5 DEF GrowthInv

LEMMA GrowthNext ==
    ASSUME ~ReloadsCount
    PROVE  PoolInv /\ PoolInv' /\ GrowthInv /\ [Next]_vars => GrowthInv'
  <1> SUFFICES ASSUME PoolInv, PoolInv', GrowthInv, [Next]_vars
               PROVE  GrowthInv'
    OBVIOUS
  <1>t. /\ Typed /\ Typed'
        /\ workersCount \in Int
        /\ Worker \subseteq Thread
    BY DEF PoolInv, Typed, TypeOK, Thread
  <1>m. ASSUME NEW w \in Worker, UNCHANGED <<workersCount, seen>>,
               \E label \in Labels \ Watched : Goto(w, label)
        PROVE  GrowthInv'
    BY <1>m, <1>t, GrowthMoves
  <1>g. ASSUME NEW w \in Worker, UNCHANGED workersCount, GoOn(w)
        PROVE  GrowthInv'
    <2>1. "serving" \in Labels \ Watched
      BY DEF Labels, Watched
    <2>2. \A x \in Worker \ {w} : seen'[x] = seen[x]
      BY <1>g, <1>t DEF GoOn, Typed, TypeOK
    <2> QED
      BY <1>g, <1>t, <2>1, <2>2, GrowthMoves DEF GoOn
  <1>s. ASSUME UNCHANGED <<workersCount, seen>>,
               \A w \in Worker : pc'[w] \in Watched => pc'[w] = pc[w]
        PROVE  GrowthInv'
    BY <1>s, <1>t, GrowthQuiet
  <1>1. ASSUME NEW w \in Worker,
               \/ Start(w) \/ Loop(w) \/ TakeLost(w) \/ Drop(w) \/ Timeout(w)
               \/ Serve(w) \/ LeaveBusy(w) \/ Exit(w)
        PROVE  GrowthInv'
    <2>1. UNCHANGED <<workersCount, seen>>
      BY <1>1 DEF Start, Loop, TakeLost, Drop, Timeout, Serve, LeaveBusy, Exit, counters
    <2>2. \E label \in {"loop", "waiting", "ending", "dropping", "releasing", "off"} : Goto(w, label)
      BY <1>1 DEF Start, Loop, TakeLost, Drop, Timeout, Serve, LeaveBusy, Exit
    <2>3. {"loop", "waiting", "ending", "dropping", "releasing", "off"} \subseteq Labels \ Watched
      BY DEF Labels, Watched
    <2> QED
      BY <1>m, <2>1, <2>2, <2>3
  <1>2. ASSUME NEW w \in Worker, Take(w) PROVE GrowthInv'
    <2>1. UNCHANGED <<workersCount, seen>> /\ \E label \in {"took", "ending"} : Goto(w, label)
      BY <1>2 DEF Take
    <2>2. {"took", "ending"} \subseteq Labels \ Watched
      BY DEF Labels, Watched
    <2> QED
      BY <1>m, <2>1, <2>2
  <1>3. ASSUME NEW w \in Worker, ReadCounter(w) PROVE GrowthInv'
    BY <1>3, GrowthReads
  <1>4. ASSUME NEW w \in Worker, CompareCounters(w) PROVE GrowthInv'
    <2>1. pc[w] \in {"readBusy", "readCount"} /\ UNCHANGED counters
      BY <1>4 DEF CompareCounters
    <2>2. CASE OtherCounter(w) = seen[w] /\ Goto(w, "equal") /\ UNCHANGED seen
      BY <2>1, <2>2, GrowthEquals
    <2>3. CASE GoOn(w)
      BY <1>g, <2>1, <2>3 DEF counters
    <2> QED
      BY <1>4, <2>2, <2>3 DEF CompareCounters
  <1>5. ASSUME NEW w \in Worker, CompareMax(w) PROVE GrowthInv'
    <2>1. pc[w] = "equal" /\ UNCHANGED counters
      BY <1>5 DEF CompareMax
    <2>2. CASE NeedsWorker(w) /\ Goto(w, "creating") /\ UNCHANGED seen
      <3>1. Below(w)
        BY <2>2 DEF NeedsWorker, CountOf, Below
      <3>2. /\ pc'[w] = "creating"
            /\ \A x \in Worker \ {w} : pc'[x] = pc[x]
        BY <1>t, <2>2, GotoType DEF Labels
      <3> QED
        BY <1>t, <2>1, <2>2, <3>1, <3>2, GrowthCreates DEF CreatingLabels, counters
    <2>3. CASE GoOn(w)
      BY <1>g, <2>1, <2>3 DEF counters
    <2> QED
      BY <1>5, <2>2, <2>3 DEF CompareMax
  <1>6. ASSUME NEW w \in Worker, Create(w) PROVE GrowthInv'
    <2>1. pc[w] = "creating" /\ UNCHANGED counters
      BY <1>6 DEF Create
    <2>2. CASE GoOn(w)
      BY <1>g, <2>1, <2>2 DEF counters
    <2>3. CASE /\ \E v \in Worker : /\ pc[v] = "off"
                                    /\ pc' = [pc EXCEPT ![w] = "inserting", ![v] = "created"]
               /\ UNCHANGED seen
      <3>1. PICK v \in Worker : /\ pc[v] = "off"
                               /\ pc' = [pc EXCEPT ![w] = "inserting", ![v] = "created"]
        BY <2>3
      <3>2. pc \in [Thread -> Labels] /\ v # w
        BY <1>t, <2>1, <3>1 DEF Typed, TypeOK
      <3>3. /\ pc'[w] = "inserting"
            /\ pc'[v] = "created"
            /\ \A x \in Worker \ {w, v} : pc'[x] = pc[x]
        BY <1>t, <3>1, <3>2
      <3>4. Below(w)
        BY <2>1 DEF GrowthInv, At, CreatingLabels
      <3>5. pc[v] \notin Watched /\ pc'[v] \notin Watched
        BY <3>1, <3>3 DEF Watched
      <3> QED
        BY <1>t, <2>1, <2>3, <3>3, <3>4, <3>5, GrowthCreates DEF CreatingLabels, counters
    <2> QED
      BY <1>6, <2>2, <2>3 DEF Create
  <1>7. ASSUME NEW w \in Worker, Insert(w) PROVE GrowthInv'
    BY <1>7, <1>t, GrowthInserts
  <1>8. ASSUME NEW w \in Worker, ReleaseWorker(w) PROVE GrowthInv'
    <2>1. /\ workersCount' = workersCount - 1
          /\ seen' = seen
          /\ \E label \in {"stopping", "stopped"} : Goto(w, label)
      BY <1>8 DEF ReleaseWorker
    <2>2. {"stopping", "stopped"} \subseteq Labels \ Watched
      BY DEF Labels, Watched
    <2> QED
      BY <1>t, <2>1, <2>2, GrowthMoves
  <1>9. ASSUME NEW t \in Thread, StopStep(t) PROVE GrowthInv'
    <2>1. UNCHANGED <<workersCount, seen>>
      BY <1>9 DEF StopStep, TestRunning, ClearRunning, PostKill, ClosePort, counters
    <2>2. pc' = pc \/ \E label \in {"clearing", "stopped", "killing"} : Goto(t, label)
      BY <1>9 DEF StopStep, TestRunning, ClearRunning, PostKill, ClosePort
    <2>3. \A w \in Worker : pc'[w] \in Watched => pc'[w] = pc[w]
      BY <1>t, <2>2 DEF Goto, Typed, TypeOK, Watched
    <2> QED
      BY <1>s, <2>1, <2>3
  <1>10. ASSUME NEW k \in Client, ClientStep(k) PROVE GrowthInv'
    BY <1>10, <1>s DEF ClientStep, BeginAccept, Complete, counters
  <1>11. ASSUME EndAccept PROVE GrowthInv'
    BY <1>11, <1>s DEF EndAccept, counters
  <1>12. ASSUME Ask PROVE GrowthInv'
    BY <1>12, <1>s, <1>t, PoolAssumption DEF Ask, Goto, Thread, Typed, TypeOK, counters
  <1>13. ASSUME UNCHANGED vars PROVE GrowthInv'
    BY <1>13, <1>s DEF vars, counters
  <1> QED
    BY <1>1, <1>2, <1>3, <1>4, <1>5, <1>6, <1>7, <1>8, <1>9, <1>10, <1>11, <1>12, <1>13
       DEF Next, WorkerStep

(* The pool never grows beyond PoolLimit, although the loads by which it   *)
(* decides to grow are not synchronised.                                   *)
THEOREM PoolStaysBounded ==
    ASSUME ~ReloadsCount
    PROVE  Spec => []PoolIsBounded
  <1>1. PoolInv /\ GrowthInv => PoolIsBounded
    <2> SUFFICES ASSUME PoolInv, GrowthInv
                 PROVE  PoolIsBounded
      OBVIOUS
    <2>1. At(CreatingLabels) \subseteq Passed /\ Passed \subseteq Worker
      BY DEF GrowthInv, Passed, At, CreatingLabels
    <2>2. Cardinality(At(CreatingLabels)) =< passed /\ Cardinality(At(CreatingLabels)) \in Nat
      BY <2>1, SubsetCounts DEF passed
    <2>3. workersCount \in Int
      BY DEF PoolInv, Typed, TypeOK
    <2>4. workersCount + passed =< PoolLimit
      BY <2>3, GrowthTypes, Limits DEF GrowthInv, Fits
    <2>5. workersCount + Cardinality(At(CreatingLabels)) =< PoolLimit
      BY <2>2, <2>3, <2>4, GrowthTypes, Limits
    <2> QED
      BY <2>5 DEF PoolIsBounded
  <1>2. Init => GrowthInv
    BY GrowthInit
  <1>3. PoolInv /\ PoolInv' /\ GrowthInv /\ [Next]_vars => GrowthInv'
    BY GrowthNext
  <1> QED
    BY <1>1, <1>2, <1>3, PoolInvHolds, PTL DEF Spec

-----------------------------------------------------------------------------
(* The port is closed only when no worker is left but those that enter a   *)
(* thread in the list.                                                     *)
THEOREM PortClosesAfterWorkers == Spec => PortClosesLast
  <1>1. ASSUME PoolInv, [Next]_vars, port' # port, NEW w \in At(AliveLabels)
        PROVE  pc[w] = "inserting"
    <2>1. AllLeft
      BY <1>1 DEF Next, WorkerStep, StopStep, ClientStep, Start, Loop, Take, TakeLost, Drop,
                  Timeout, ReadCounter, CompareCounters, CompareMax, Create, Insert, Serve, LeaveBusy, ReleaseWorker, Exit,
                  TestRunning, ClearRunning, PostKill, ClosePort, BeginAccept, Complete,
                  EndAccept, Ask, vars
    <2>2. Cardinality(At(AliveLabels)) =< Cardinality(At({"inserting"}))
      BY <1>1, <2>1, FinitePart DEF PoolInv, CountersAreExact, AllLeft
    <2>3. At({"inserting"}) \subseteq At(AliveLabels)
      BY DEF At, AliveLabels, BusyLabels
    <2>4. Cardinality(At({"inserting"})) =< Cardinality(At(AliveLabels))
      BY <2>3, FinitePart, FS_Subset
    <2>5. Cardinality(At(AliveLabels)) = Cardinality(At({"inserting"}))
      BY <2>2, <2>4, FinitePart
    <2>6. At({"inserting"}) = At(AliveLabels)
      BY <2>3, <2>5, FinitePart, FS_Subset
    <2> QED
      BY <1>1, <2>6 DEF At
  <1>2. PoolInv /\ [Next]_vars => [port' # port => \A w \in At(AliveLabels) : pc[w] = "inserting"]_vars
    BY <1>1
  <1> QED
    BY <1>2, PoolInvHolds, PTL DEF Spec, PortClosesLast

-----------------------------------------------------------------------------
(* Where a client is: in the port, in the kernel, at a worker or with the  *)
(* listener, and nowhere twice.                                            *)

NoDuplicates ==
    \A i, j \in DOMAIN queue : queue[i] = queue[j] /\ queue[i] \in Client => i = j

Places ==
    /\ OneWorkerPerClient
    /\ NoDuplicates
    /\ \A k \in Client : k \in reading => ~InQueue(k)
    /\ \A k \in Client : accepting = k => k \notin reading /\ ~InQueue(k) /\ ~Served(k)

(* A post adds one packet to the port.                                     *)
LEMMA PostOne ==
    ASSUME Typed, NEW x \in Client \cup {Kill, Shutdown}, queue' = Posted(x),
           NoDuplicates, x \in Client => ~InQueue(x)
    PROVE  /\ NoDuplicates'
           /\ \A k : InQueue(k)' => InQueue(k) \/ k = x
  <1> DEFINE P == Client \cup {Kill, Shutdown}
  <1>1. queue \in Seq(P)
    BY DEF Typed, TypeOK
  <1>2. CASE queue' = queue
    BY <1>2 DEF NoDuplicates, InQueue
  <1>3. CASE queue' = Append(queue, x)
    <2>1. /\ Len(queue) \in Nat
          /\ DOMAIN queue = 1..Len(queue)
          /\ DOMAIN queue' = 1..(Len(queue) + 1)
          /\ \A i \in 1..Len(queue) : queue'[i] = queue[i]
          /\ queue'[Len(queue) + 1] = x
      <3>1. queue' \in Seq(P) /\ Len(queue') = Len(queue) + 1
        BY <1>1, <1>3, AppendProperties
      <3> QED
        BY <1>1, <1>3, <3>1, AppendProperties, LenProperties
    <2>2. \A i \in DOMAIN queue' : i \in DOMAIN queue \/ i = Len(queue) + 1
      BY <2>1
    <2>3. \A k : InQueue(k)' => InQueue(k) \/ k = x
      BY <2>1, <2>2 DEF InQueue
    <2>4. NoDuplicates'
      BY <2>1, <2>2 DEF NoDuplicates, InQueue
    <2> QED
      BY <2>3, <2>4
  <1> QED
    BY <1>2, <1>3 DEF Posted

(* A receipt takes out the head of the port, and every copy of a client.   *)
LEMMA TailOne ==
    ASSUME Typed, queue # <<>>, queue' = Tail(queue), NoDuplicates
    PROVE  /\ NoDuplicates'
           /\ InQueue(Head(queue))
           /\ \A k \in Client : k = Head(queue) => ~InQueue(k)'
           /\ \A k : InQueue(k)' => InQueue(k)
  <1> DEFINE P == Client \cup {Kill, Shutdown}
  <1>1. queue \in Seq(P)
    BY DEF Typed, TypeOK
  <1>2. /\ Len(queue) \in Nat
        /\ DOMAIN queue = 1..Len(queue)
        /\ 1 \in DOMAIN queue
        /\ Head(queue) = queue[1]
        /\ DOMAIN queue' = 1..(Len(queue) - 1)
        /\ \A i \in 1..(Len(queue) - 1) : queue'[i] = queue[i + 1]
    <2>1. queue' \in Seq(P) /\ Len(queue') = Len(queue) - 1
      BY <1>1, HeadTailProperties
    <2>2. \A i \in 1..Len(queue') : queue'[i] = queue[i + 1]
      BY <1>1, HeadTailProperties
    <2>3. Len(queue) \in Nat /\ DOMAIN queue = 1..Len(queue)
      BY <1>1, LenProperties
    <2>4. Len(queue') \in Nat /\ DOMAIN queue' = 1..Len(queue')
      BY <2>1, LenProperties
    <2>5. Head(queue) = queue[1]
      BY <1>1
    <2> QED
      BY <2>1, <2>2, <2>3, <2>4, <2>5
  <1>3. \A i \in DOMAIN queue' : i + 1 \in DOMAIN queue /\ i + 1 # 1 /\ queue'[i] = queue[i + 1]
    BY <1>2
  <1>4. NoDuplicates'
    BY <1>2, <1>3 DEF NoDuplicates
  <1>5. InQueue(Head(queue))
    BY <1>2 DEF InQueue
  <1>6. \A k \in Client : k = Head(queue) => ~InQueue(k)'
    <2> SUFFICES ASSUME NEW k \in Client, k = Head(queue), NEW i \in DOMAIN queue', queue'[i] = k
                 PROVE  FALSE
      BY DEF InQueue
    <2> QED
      BY <1>2, <1>3 DEF NoDuplicates
  <1>7. \A k : InQueue(k)' => InQueue(k)
    BY <1>3 DEF InQueue
  <1> QED
    BY <1>4, <1>5, <1>6, <1>7

LEMMA PlacesInit == Init => Places
  BY PoolAssumption DEF Init, Places, OneWorkerPerClient, NoDuplicates, InQueue, Served

(* Steps that leave the clients where they are.                            *)
LEMMA PlacesStill ==
    ASSUME Places, UNCHANGED clients, \A w \in Worker : job'[w] = job[w]
    PROVE  Places'
  BY DEF Places, OneWorkerPerClient, NoDuplicates, InQueue, Served, clients

(* A client that a worker lets go is at no worker any more.                *)
LEMMA LetGo ==
    ASSUME Typed, Places, NEW w \in Worker, job' = [job EXCEPT ![w] = None]
    PROVE  /\ \A v \in Worker, k \in Client : job'[v] = k => job[v] = k
           /\ \A k \in Client : job[w] = k => \A v \in Worker : job'[v] # k
  BY PoolAssumption DEF Typed, TypeOK, Places, OneWorkerPerClient

(* A worker takes the client at the head of the port.                      *)
LEMMA PlacesTake ==
    ASSUME Typed, Places, NEW w \in Worker, queue # <<>>, queue' = Tail(queue),
           UNCHANGED <<reading, accepting>>,
           NEW x \in {Head(queue), Shutdown}, job' = [job EXCEPT ![w] = x]
    PROVE  Places'
  <1>1. /\ NoDuplicates'
        /\ InQueue(Head(queue))
        /\ \A k \in Client : k = Head(queue) => ~InQueue(k)'
        /\ \A k : InQueue(k)' => InQueue(k)
    BY TailOne DEF Places
  <1>2. /\ job'[w] = x
        /\ \A v \in Worker \ {w} : job'[v] = job[v]
    BY DEF Typed, TypeOK
  <1>3. OneWorkerPerClient'
    <2>1. ASSUME NEW k \in Client, NEW u \in Worker, NEW v \in Worker, job'[u] = k, job'[v] = k
          PROVE  u = v
      BY <2>1, <1>1, <1>2, PoolAssumption DEF Places, OneWorkerPerClient, Served
    <2>2. ASSUME NEW k \in Client, NEW v \in Worker, job'[v] = k
          PROVE  k \notin reading' /\ ~InQueue(k)'
      BY <2>2, <1>1, <1>2, PoolAssumption DEF Places, OneWorkerPerClient, Served
    <2> QED
      BY <2>1, <2>2 DEF OneWorkerPerClient, Served
  <1>4. \A k \in Client : accepting' = k => k \notin reading' /\ ~InQueue(k)' /\ ~Served(k)'
    BY <1>1, <1>2, PoolAssumption DEF Places, Served
  <1> QED
    BY <1>1, <1>3, <1>4 DEF Places

LEMMA PlacesNext == Typed /\ Places /\ [Next]_vars => Places'
  <1> SUFFICES ASSUME Typed, Places, [Next]_vars
               PROVE  Places'
    OBVIOUS
  <1> USE PoolAssumption
  <1>1. ASSUME NEW w \in Worker, Take(w) PROVE Places'
    <2>1. queue # <<>> /\ queue' = Tail(queue) /\ UNCHANGED <<reading, accepting>>
      BY <1>1 DEF Take
    <2>2. CASE \E x \in {Head(queue), Shutdown} : job' = [job EXCEPT ![w] = x]
      BY <2>1, <2>2, PlacesTake
    <2>3. CASE Head(queue) = Kill /\ UNCHANGED job
      <3>1. NoDuplicates' /\ \A k : InQueue(k)' => InQueue(k)
        BY <2>1, TailOne DEF Places
      <3> QED
        BY <2>1, <2>3, <3>1 DEF Places, OneWorkerPerClient, Served
    <2> QED
      BY <1>1, <2>2, <2>3 DEF Take
  <1>2. ASSUME NEW w \in Worker, TakeLost(w) PROVE Places'
    BY <1>2, PlacesTake DEF TakeLost
  <1>3. ASSUME NEW w \in Worker, Drop(w) PROVE Places'
    <2>1. UNCHANGED clients
      BY <1>3 DEF Drop
    <2>2. \A v \in Worker, k \in Client : job'[v] = k => job[v] = k
      BY <1>3, LetGo DEF Drop
    <2> QED
      BY <2>1, <2>2 DEF Places, OneWorkerPerClient, NoDuplicates, InQueue, Served, clients
  <1>4. ASSUME NEW w \in Worker, Exit(w) PROVE Places'
    <2>1. UNCHANGED clients
      BY <1>4 DEF Exit
    <2>2. \A v \in Worker, k \in Client : job'[v] = k => job[v] = k
      BY <1>4, LetGo DEF Exit
    <2> QED
      BY <2>1, <2>2 DEF Places, OneWorkerPerClient, NoDuplicates, InQueue, Served, clients
  <1>5. ASSUME NEW w \in Worker, Serve(w) PROVE Places'
    <2>1. /\ job[w] \in Client
          /\ job' = [job EXCEPT ![w] = None]
          /\ accepting' = accepting
      BY <1>5 DEF Serve, Typed, JobOK, Serving
    <2>2. PICK k \in Client : job[w] = k
      BY <2>1
    <2>3. /\ \A v \in Worker, c \in Client : job'[v] = c => job[v] = c
          /\ \A v \in Worker : job'[v] # k
      BY <2>1, <2>2, LetGo
    <2>4. k \notin reading /\ ~InQueue(k) /\ accepting # k
      BY <2>2 DEF Places, OneWorkerPerClient, Served
    <2>5. /\ NoDuplicates'
          /\ \A c \in Client : InQueue(c)' => InQueue(c) \/ (c = k /\ reading' = reading)
          /\ reading' \in {reading, reading \cup {k}}
      <3>1. CASE queue' = Posted(k) /\ reading' = reading
        BY <2>4, <3>1, PostOne DEF Places
      <3>2. CASE queue' = Posted(Shutdown) /\ reading' = reading \cup {k}
        BY <3>2, PostOne DEF Places
      <3>3. CASE queue' = queue /\ reading' \in {reading, reading \cup {k}}
        BY <3>3 DEF Places, NoDuplicates, InQueue
      <3> QED
        BY <1>5, <2>2, <3>1, <3>2, <3>3 DEF Serve, Respond
    <2>6. \A c \in Client : Served(c)' => Served(c) /\ c # k
      BY <2>3 DEF Served
    <2>7. \A c \in Client : c \in reading' => ~InQueue(c)'
      BY <2>4, <2>5 DEF Places
    <2>8. OneWorkerPerClient'
      <3>1. \A c \in Client : \A u, v \in Worker : job'[u] = c /\ job'[v] = c => u = v
        BY <2>3 DEF Places, OneWorkerPerClient
      <3>2. \A c \in Client : Served(c)' => c \notin reading' /\ ~InQueue(c)'
        BY <2>5, <2>6 DEF Places, OneWorkerPerClient
      <3> QED
        BY <3>1, <3>2 DEF OneWorkerPerClient
    <2>9. \A c \in Client : accepting' = c => c \notin reading' /\ ~InQueue(c)' /\ ~Served(c)'
      BY <2>1, <2>4, <2>5, <2>6 DEF Places
    <2> QED
      BY <2>5, <2>7, <2>8, <2>9 DEF Places
  <1>6. ASSUME NEW k \in Client, BeginAccept(k) PROVE Places'
    BY <1>6 DEF BeginAccept, Known, Places, OneWorkerPerClient, NoDuplicates, InQueue, Served
  <1>7. ASSUME NEW k \in Client, Complete(k) PROVE Places'
    <2>1. /\ k \in reading
          /\ reading' = reading \ {k}
          /\ queue' = Posted(k)
          /\ UNCHANGED <<accepting, job>>
      BY <1>7 DEF Complete
    <2>2. ~InQueue(k) /\ ~Served(k) /\ accepting # k
      BY <2>1 DEF Places, OneWorkerPerClient
    <2>3. NoDuplicates' /\ \A c : InQueue(c)' => InQueue(c) \/ c = k
      BY <2>1, <2>2, PostOne DEF Places
    <2>4. \A c : Served(c)' <=> Served(c)
      BY <2>1 DEF Served
    <2>5. OneWorkerPerClient'
      BY <2>1, <2>2, <2>3, <2>4 DEF Places, OneWorkerPerClient
    <2> QED
      BY <2>1, <2>2, <2>3, <2>4, <2>5 DEF Places
  <1>8. ASSUME EndAccept PROVE Places'
    BY <1>8 DEF EndAccept, Places, OneWorkerPerClient, NoDuplicates, InQueue, Served, Typed, TypeOK
  <1>9. ASSUME NEW t \in Thread, PostKill(t) PROVE Places'
    <2>1. NoDuplicates' /\ \A c \in Client : InQueue(c)' => InQueue(c)
      BY <1>9, PostOne DEF PostKill, Places
    <2> QED
      BY <1>9, <2>1 DEF PostKill, Places, OneWorkerPerClient, Served
  <1>10. ASSUME NEW t \in Thread, ClosePort(t) PROVE Places'
    BY <1>10 DEF ClosePort, Places, OneWorkerPerClient, NoDuplicates, InQueue, Served
  <1>11. ASSUME UNCHANGED <<clients, job>> PROVE Places'
    BY <1>11, PlacesStill
  <1> QED
    BY <1>1, <1>2, <1>3, <1>4, <1>5, <1>6, <1>7, <1>8, <1>9, <1>10, <1>11
       DEF Next, WorkerStep, StopStep, ClientStep, Start, Loop, Timeout, ReadCounter,
           CompareCounters, CompareMax, Create, Insert, LeaveBusy, ReleaseWorker, Ask, TestRunning, ClearRunning, vars

(* One worker at a time serves a client: the lock tables of LockServer are *)
(* right to take the commands of a client one after the other.             *)
THEOREM OneWorkerPerClientHolds == Spec => []OneWorkerPerClient
  <1>1. Init => Typed /\ Places
    BY TypedInit, PlacesInit
  <1>2. Typed /\ Places /\ [Next]_vars => (Typed /\ Places)'
    BY TypedNext, PlacesNext
  <1>3. Typed /\ Places => OneWorkerPerClient
    BY DEF Places
  <1> QED
    BY <1>1, <1>2, <1>3, PTL DEF Spec
=============================================================================
