# Verification of the SDB RDD and its lock server

SDB RDD is a replaceable database driver for Harbour and xHarbour: a program
opens a work area on an Oracle table as it would open a DBF file, locks
records or the file, appends, updates and navigates.  Oracle has no lock that
survives a commit, so the driver can keep its record and file locks in a
process of its own, the lock server, that every program of a site is connected
to.  This directory holds TLA+ models of this system, the TLC configurations
that check them and the TLAPS proofs about them.  All paths below are relative
to the repository.

## 1. Inventory

| Part | Source | State it keeps | Operations | What is hard |
|---|---|---|---|---|
| Lock tables of the server | `sdb-lck-server-app/.../sdb_lock_server.c` 519-577, 740-1071, 1248-1333 | contexts (counter of shared opens, exclusive flag, file-lock flag, owner, record locks), per client: open contexts, record locks | CONNECT, OPEN_SHARED, OPEN_EXCLUSIVE, CLOSE, CLOSE_ALL, LOCK_FILE, LOCK_REC, UNLOCK_REC, UNLOCK_ALL, DISCONNECT, loss of the connection | commands of different clients run in parallel; a lock is entered in two tables with different keys; departures in many steps |
| Dictionary of the server | same file, 579-738 | databases, schemas, tables, contexts, the next context id | find or create a context | search and creation are two critical sections |
| Worker pool and shutdown | same file, 356-450, 1335-1368, 1452-1768 | number of workers, number of busy workers, list of workers, completion queue, running flag | take a completion, create a worker, time out, kill, shut down, release | unsynchronised counters, threads that end while others are created, two threads that shut down |
| Session commands | same file, 458-501, 1073-1152 | none of their own | LIST_SESSIONS, SESSION_INFO, LOG_LEVEL, SHUTDOWN | read the tables of clients whose commands run |
| Service program | `sdb_lock_server_main.c` | service status | install, remove, start, stop | stop runs beside the listener and the workers |
| Lock client and framing | `sdb-rdd-lib/.../sdb_lock_client.c`; server 503-516, 1256-1271, 1370-1450 | socket, request buffer, bytes in flight | send a command and wait for its answer | timeout with a late answer, partial reads |
| Work area locks | `sdb_api.c` 402-471, 897-990; `sdb_rdd_api.c` 390-640, 2690-2736 | `table->locked`, `area->isLocked`, `recordLocked`, `record->isLocked`, the server's context id | FLOCK, RLOCK, UNLOCK, open, close | four copies of one fact, of which one is shared by all areas of a table |
| Navigation of a work area | `sdb_rdd_api.c`, `sdb_area.c`, `sdb_api.c` 474-1460 | the record, isHot, isAppend, bof/eof/found, order, filters, one prepared statement per command, the result set of the last query | GO TOP, GO BOTTOM, GOTO, SKIP, SEEK, RLOCK, PUT, DELETE, append, flush, orders, filters | a result set is older than the table, and the statement behind it may be older than the settings |
| Record and field values | `sdb_record.c`, `sdb_field.c`, `sdb_param.c`, `sdb_api.c` 1462-1900, `sdb_oci_stmt.c`, `sdb_oci_var.c` | the cells of the record, the parameters of INSERT and UPDATE, the memo rows | get, put, insert, update, memos | a save writes every field, the untouched ones too; writes that fail half way |
| Appended rows and their numbers | `sdb_api.c` 1706-1800, `sdb_table.c`, `sdb_dict.c` 600-744 | `next_recno` in the dictionary, the block of numbers in the descriptor, the running append | draw a number, insert, retry, refresh | two programs that ask for a number, a number that is taken, transactions, a program that ends |
| Connections, products, registry | `sdb_api.c`, `sdb_connection.c`, `sdb_product.c`, `sdb_c_api.c` | list of connections, list of products, per-thread connection | login, logout, default connection | what is freed while areas still use it |
| Transactions | `sdb_transaction.c`, `sdb_connection.c` | the connection's transaction | begin, prepare, commit, rollback | writes delayed by a transaction |
| Statements and buffers | `sdb_statement.c`, `sdb_oci_stmt.c`, `sdb_oci_var.c` | fetched rows, position in the buffer, end of the cursor | prepare, execute, fetch, close | limits of the buffer |
| Descriptors and dictionary | `sdb_table.c`, `sdb_field.c`, `sdb_index.c`, `sdb_dict.c`, `sdb_schema.c` | tables, fields, indexes | load, create, rename, drop | SQL over tables of its own, written at setup |
| Oracle driver | `sdb-ora-lib` | handles of the Oracle client | the functions of `dbAPI` | outside the program's control |
| Clipper expressions | `ClipperExpressionParser.c`, `sdb_expr.c`, `sdb_ora_expr.c` | the slots of the memoised rules, the tree | parse, build the tree, translate to SQL | a grammar that tries every level twice; precedence and types of two languages |
| Clipper API, log, utilities | `sdb_clipper_api.c`, `sdb_log.c`, `sdb_util.c`, ... | none that lasts | marshalling, formatting | nothing concurrent |

What makes each part correct:

* lock tables: a file lock and a record lock never coexist in a context; an
  exclusive open is alone; only the owner's own commands take a lock from it;
  the two tables a lock is entered in agree; who leaves releases everything;
* dictionary: one name has one context, one context one id, for ever;
* worker pool: a completion that is queued is served, the pool keeps within
  its limits, and nothing is freed that a thread still uses;
* framing: an answer belongs to the last command sent;
* work area locks: an area that believes it has a lock has it on the server;
* navigation: a call ends on the record the rows and the settings say, whatever
  result set it read on; a save undoes nothing another session wrote;
* values: what the program puts in a field, or does not touch, is what the row
  holds after the save and what GET shows;
* appended rows: two appends never have one number, and an append returns;
* expressions: the SQL means what the expression means.

`PROJECT.json` lists under `hazards` where the code is exposed to each of
these going wrong.

## 2. Plan

What a user of the driver relies on first is that a lock he was given is his;
so the modules follow the way of a lock from the server outwards.

| # | Module | Models | State |
|---|---|---|---|
| 1 | `LockServer`, abstract `RecordLocks` | the lock tables of the server | done, proved |
| 2 | `WorkerPool` | the threads that execute the commands, shutdown | done, safety proved |
| 3 | `ContextDictionary`, abstract `ContextRegistry` | how a name becomes a context | done, proved |
| 4 | `AreaLocks` over `LockTable` | the copies of a lock in the driver (`table->locked`, `area->isLocked`, `recordLocked`, `record->isLocked`) and the server's table they are copies of | done, proved, most of it for one area of a program on a table |
| 5 | `AreaCommands`; `WorkArea` over it, abstract `RowCursor` | the prepared statements of a work area; the calls that move, change and append | done, proved |
| 6 | `Appends` | the numbers of appended rows, between programs, transactions and crashes | done, safety proved |
| 7 | `ClipperParser`, `ExprToSql`, reference `ClipperTrees`, composed in `Expressions` | from the text of an expression to SQL | done, recursive: TLC only |
| 8 | `FieldValues` | the way of a value between program and column | done, proved |
| 9 | a module for framing | requests, answers, timeouts, loss of the connection | not done (section 11) |
| 10 | a module for connections and sessions | login, logout, session commands | not done (section 11) |

`AreaLocks` needs the answers of the server, refusals included, which
`RecordLocks` leaves open; so it stands on `LockTable`, one context as a value
with a function for each command, and `ServesAsLockTable` ties this to
`LockServer`.  `WorkArea` has of the locks only the one of the current record;
what that is worth at the server is the matter of `AreaLocks`.  `WorkArea` and
`FieldValues` let the server number the rows; `Appends` is the other way to a
number.

All invariants, action properties and refinements that the runs check are
theorems, but for those of `Expressions`, which are recursive.  The liveness
properties are TLC's.

## 3. LockServer: the lock tables

Each variable is a field of a structure of the server, indexed by the
structure.

| Variable | Code |
|---|---|
| `openShared`, `isOpenExclusive`, `isLocked`, `clientLocking` | the fields of `SDB_LS_CONTEXT` |
| `lockedRecords` | `context->lockedRecords`: who owns the lock of a record |
| `freed` | records whose entry in `context->lockedRecords` points to a structure that was freed |
| `openContexts` | `client->openContexts`: how many entries a context has |
| `recLocks` | `client->lockedRecords`: how many structures of a record it has |
| `pc`, `pending` | the command a worker is in the middle of, and the contexts it has still to visit |
| `reply` | the result the client was sent last |

**Atomicity.** An action is one critical section of `context->lock` with the
accesses to the client's own tables around it.  This is what threads can
observe: the tables of a client are used only by the worker that serves it,
and `OneWorkerPerClient` of `WorkerPool` shows that there is one.  Commands
with several critical sections are several actions: `CloseAll` ...
`CloseAllDone`, `CheckFileLock` and `UnlockFile` (the owner of the file lock
is tested outside the lock), `ReleaseRecord`, `ReleaseContext`, `FreeClient`
(the departure of a client).

**Keys.** `client->lockedRecords` is keyed by record number alone, and its
entries are structures that also stand in the table of a context.  With one
number in two contexts a lookup may return the wrong structure, and the code
frees it while its own context still lists it.  Such an entry goes to `freed`.
A read of freed memory is undefined: a search that meets it may find any owner
(`FoundOwner`), and a removal of its key may miss it (`Remove`).

**cfl_hash** is a library outside the repository, and whether an insertion
under an existing key replaces the entry or adds a second one is not to be
seen here.  `KeepDuplicates` is this choice; theorems hold for both, and each
run names the one it takes.

**Constants.** `Records` are the pairs of context and record number that
clients lock; two contexts share a number in every run (`SharedNumber`,
`SameNumber`).  `SendsCloseAll` is FALSE for the
clients under `src/`, none of which sends CLOSE_ALL.  `MaxOpen` bounds the
openings and the entries of a context.  A context is never freed while the
server runs, so contexts are a constant; how they come to be is
`ContextDictionary`.  A client structure may be reused by a later connection
(`Connect`), with whatever stale pointers to it contexts still have.

| Run | Question | Instance | Distinct states |
|---|---|---|---|
| `lockserver_own` | as long as each command meets the structure of its own record: are the tables right, does a client that leaves release its locks, and is this an implementation of `RecordLocks` and a server as `LockTable` describes it? | 2 clients, 2 contexts with one and two records, one number in both, duplicates kept, with fairness, no symmetry | 46 529 |
| `lockserver_same` | do file and record locks exclude each other also when freed structures are still listed? | 2 clients, 2 contexts, one number, entries replaced, CLOSE_ALL | 979 694 |
| `lockserver_left` | is everything released when all have left? | one number, duplicates kept | violated |

Two clients suffice for every conflict the code decides, since each test is
about "another client"; two contexts are the least in which a number can be
shared; `MaxOpen = 2` allows a context to be opened twice by one client and
once by each.  In `lockserver_same`, which has no liveness, clients are
symmetric, and the two contexts, which have the same records, as well.

`LockTable` is the server as a caller sees it: one context as a record
(`shared`, `exclusive`, `locked`, `owner`, `holder`, `opens`), for each command
the condition under which it succeeds and what it does.  `ServesAsLockTable`
says that every step of a command does this to the context and answers so.  So
`AreaLocks`, which has the server as one such value, stands on what the server
of the source does.

**The condition.** By the finding below, a command may change the structure of
another record with the same number, and after that neither the tables agree nor
is the server as `LockTable` says.  `OwnStructure` is an action: what a step takes
from or enters in a client's table is of the record the command names.
`lockserver_own` and the theorems named below are about the behaviours all of
whose steps are so (`OwnSpec`): numbers may be shared, contexts be locked side by
side by one client and by several, and all holds up to the first command that
meets a wrong structure.  That there is no such command when a client uses no
number in two contexts is the theorem `OwnNumbersSuffice`; the work areas of
`AreaLocks`, which are all of one table, are such clients.

**Fairness.** `Fairness`, in `OwnSpec`, asks that a worker in `releaseClient` goes on (WF of
`Leave`).  It is a running thread; all it waits for are context locks, which
every holder releases without waiting for anything.

**Finding.** `lockserver_left`: the key of `client->lockedRecords` contradicts
the comment at `sdb_lock_server.c:518`, by which a departure releases all that
the client locked.  A client has two contexts open (in one shortest trace the
first exclusively), locks a record of the second and sends UNLOCK_REC of the
same number for the first: the structure is found by its number and freed, the
entry is removed from the context of the command, which has none, and the second
context still lists the record when the client has left.

**Known, and without a property.** A file lock outlives the departure of its
owner: neither CLOSE nor `releaseClient` clears `isLocked`; a connection that
gets the same structure inherits it (`Connect`).  Where the hash table replaces
entries, a client that locks number 1 in two contexts and sends UNLOCK_ALL for
the first keeps its lock there, since the entry of the second has replaced it.
UNLOCK_ALL of a file lock that has been overtaken by an exclusive open clears `clientLocking`, and the
CLOSE that follows leaves `isOpenExclusive` set for ever.  Nothing in the
repository says what should happen, so nothing is checked; the model has both.

### Proofs (`LockServerProofs`)

All theorems are for any set of clients, contexts and records.

* `TypeCorrect`: `TypeOK` is inductive.
* `FileLockExcludes`: `FileLockExcludesRecords` with `TypeOK` is inductive,
  over freed entries too: they only ever shrink what a lock can meet.
* `ExclusiveAlone` (without CLOSE_ALL): `ExclusiveIsAlone` is not inductive, as
  it says nothing of `openShared`.  `OpenInv` counts: the entries of a context
  in the tables of all clients are finite and at most `openShared`, or one when
  it is open exclusively.
* `ClearsOwn`, `FileLockIsKept` (without CLOSE_ALL): `FileInv` adds that a
  worker between `CheckFileLock` and `UnlockFile` has the context open and owns
  its file lock; an opened context cannot be opened exclusively (`OpenInv`), the
  one way to lose the ownership to another.
* `TablesAgreeKept`, `RecordLockIsKept` (for behaviours with `OwnStructure`): a
  step changes entries of its actor only (`OwnEntries`) and leaves the actor's
  tables in agreement (`ActorAgrees`).
* `ExclusiveExcludes` and `ServerRefinesRecordLocks` (`OwnStructure`, without
  CLOSE_ALL): each step is a grant, a release, a shut, a reopening or a stutter
  of `RecordLocks`.
* `ServerServesAsLockTable` (the same two): a lemma for each command compares its condition and its effect with those of `LockTable`.  The code
  decides by its counters and the client's own tables, `LockTable` by the
  contexts; that they agree is `OpenInv` and `TablesAgree`.
* `OwnNumbersSuffice`: with every number in one context the steps of `Spec` all
  satisfy `OwnStructure`.

The conditions are stated in each theorem; `lockserver_own` has both of them,
with a number that two contexts share.  Liveness and the two violations are TLC's alone.

## 4. WorkerPool: threads, completions and shutdown

| Variable | Code |
|---|---|
| `isRunning`, `workersCount`, `workersBusy` | the fields of `SDB_LS_SERVER` |
| `port`, `queue` | the I/O completion port and what is in it |
| `reading` | clients with a WSARecv or WSASend pending |
| `accepting` | the client `acceptConnection` is setting up in the listener |
| `listed` | the workers in the list that ends in `tailWorker` |
| `pc`, `job`, `child` | where a thread is, the client it serves, the worker it is creating |
| `seen` | the counter a worker has loaded and will compare |

An action is one access to what threads share.  `Take` is the return of
`GetQueuedCompletionStatus` with the increment of `workersBusy`.  The condition
`workersBusy == workersCount && workersCount < maxWorkers` is two or three plain
loads, each an action: the one or the other counter first (`ReadCounter`), then
the other (`CompareCounters`), and then the limit (`CompareMax`), for which the
compiler may load `workersCount` once more or not: `ReloadsCount` is this
choice.  `Create` starts a thread, which may run and end before `Insert` enters
it in the list; `Serve` is `processIOMessage`, whose last act is the one post or the one I/O request by
which another worker may get the client.  `LeaveBusy`, `ReleaseWorker`, and
for the worker that took SHUTDOWN the shutdown itself, follow the loop.
`Ask` is the console or the service; it may coincide with a client's SHUTDOWN,
and then two threads are in `shutdownServer`, whose test and clearing of
`isRunning` are two actions.  The wait of 30 seconds ends when nothing is in
the port (`Timeout`).  `MaxPosted` bounds the copies of a KILL or SHUTDOWN in
the port; the code posts a KILL every 100 ms as long as workers are left, so
the bound only removes repetitions.

| Run | Question | Instance | Distinct states |
|---|---|---|---|
| `pool_grow` | do counters and clients hold together while the pool grows, shrinks and is shut down, does the shutdown end, and is the port closed last? | 2 workers, 2 clients, pool of 1 to 2, one load of `workersCount`, shutdown by client, console or both, fair threads | 67 865 |
| `pool_idle` | and when it may shrink? | as `pool_grow`, with two loads and no SHUTDOWN command | violated |

Two clients are served by two workers at once, one of which may be in any phase
of its growth or end while the other is in any other and two threads shut down;
a structure that is free again is the next thread.  `WorkersTakeIO` says that a
completion stays in the port only when all workers have left; that they can all
leave is the finding of `pool_idle`.

The pool may grow beyond its maximum.  While fewer than `maxWorkers` are counted,
up to `maxWorkers - 1` are being created and as many more have loaded this count
and not yet the other, so that the counted and the created can come to
`PoolLimit`, three times `maxWorkers - 1` (or `minWorkers`, if that is more).
That they come no further is proved for any number of workers, in a build that
loads `workersCount` once; of a build that loads it twice nothing is claimed.

**Fairness.** `FairSpec` asks that every thread goes on (WF of each worker and
of each thread in `shutdownServer`).  A worker's only wait is the completion
port, with its timeout of 30 s, and `shutdownServer` sleeps 100 ms at a time.
Nothing is asked of clients or of the kernel.

**Finding.** `pool_idle`: two workers of a pool whose minimum is one both time
out, both read `workersCount = 2 > 1`, both leave.  The server has no worker
left, only workers create workers, and every client waits for ever, while the
comment at `sdb_lock_server.c:1486` wants a thread kept free "to response to
new IO operations".

**Proofs (`WorkerPoolProofs`)**, for any number of workers and any limits:
`PoolTypeCorrect`; `CountersAreExactAlways` (`PoolInv`): each step moves one
thread from one label to another, and lemma `MoveCounts` gives what this does to
the cardinality of every set of threads that a counter stands for.
`PoolStaysBounded`, for `~ReloadsCount`: what a worker loaded is stale when it
compares, so the invariant `GrowthInv` counts the workers that will create one
(`Passed`) and those that hold a count below the limit and may still find it equal
(`Pending`).  `Fits` says that the counted and the passed are at most
`2 * (maxWorkers - 1)`, or that the limit is reached and nobody joins the pending
any more; `Ranked` that of the workers that loaded `workersBusy` and go on, at most
`v` have found `v` or fewer busy.  `PortClosesAfterWorkers` follows from the exact
counters.  `OneWorkerPerClientHolds` rests on `Places`: a client is in the
port, in the kernel, at a worker or with the listener, and nowhere twice.
`ShutdownEnds`, `WorkersTakeIO` and `IOIsAnswered` are liveness and model-checked only.

**Not modelled.** A start that fails (`runServer` shuts down again); the
DISCONNECT completion, whose sender `sdb_lcksrv_disconnectClient` has no
caller; `releaseServer`; and the links of the list.  A thread that ends before
it is entered runs `releaseWorker` on links nobody has set, and is entered
after it was freed: the model follows the counters and `listed`, where the
freed structure stays (`Dangles`), not what the stray pointers do.  In the
console program `main` returns from `shutdownServer` at once when a worker is
already in it, and frees the server under it; without a third argument `main`
does not wait at all.

## 5. ContextDictionary: from a name to a context

`server` holds the four levels of hash tables in one function, `entries`, from
level, owner and name to a structure, with the ids of contexts and the two
counters (`allocated` stands for `malloc`).  `Search` is the first critical
section of `findCreateContext`, `Create` the second; `found` are the pointers
carried from the one to the other.  Nothing is removed before the server is
shut down, when no worker is left.

| Run | Question | Instance | Distinct states |
|---|---|---|---|
| `dictionary_race` | do all who ask for a name get one context with one id? | 3 workers, 4 names: 2 schemas, a table with its default context and one more | 4 794 |

Every level is missing at first, so every level has its race; two schemas
share a database, two contexts share a table, and with three workers one may
be overtaken twice.  Workers and schemas are symmetric.

`ContextRegistry` is the abstract specification: a name is registered once,
with its table's default context, under an id of its own, for ever.

**Proofs (`ContextDictionaryProofs`)**, for any names and workers: the type
invariant, `HeldIsListed`, and `DictionaryImplementsRegistry`.  An operation keeps
the dictionary well formed (`DictOK`) and every entry it has (`Extends`), so what
a search found stays true, and `CreateOK` puts the levels together.  For the
refinement the invariant needs more: an entry of the dictionary has one parent
and one name, every context has an id and no two have the same, and a table is
never without its default context.  A search that finds nothing is a stutter; a
search that finds gives what is registered; a creation registers the levels that
are still missing, or finds that another worker was faster.

## 6. AreaLocks: the locks as the driver keeps them

| Variable | Code |
|---|---|
| `server` | the context of the table at the lock server, a value of `LockTable` |
| `tableLocked` | `table->locked`, one for all work areas of a program on the table |
| `inUse`, `ctxId`, `isShared` | the area is open, `area->lockServerCtxId` is not 0, `area->isShared` |
| `isLocked`, `recordLocked` | `area->isLocked`, the list `area->recordLocked` |
| `buffer` | the record in memory: its number, `eof`, `isHot`, `isAppend`, `record->isLocked` |
| `inTransaction` | `connection->transaction` |

**Atomicity.** An action is one call of the RDD with every command it sends.
A program is single-threaded and waits for each answer, and what the driver
decides between two commands of a call it decides from its own copies; the
commands of another program that come between them could as well come before
or after, as far as the answers go.

**Data.** Rows are left out: a movement may end on any record or after the
last, an insertion may get any number or fail (number 0), the SELECT FOR UPDATE
that follows the server's lock may fail.  `MaxRecno` is 1: all that the code
asks of two numbers is whether they are equal, and 0, the number of a record
whose insertion failed, is the second one; records of two numbers meet in the
`lockserver` runs.

| Run | Question | Instance | Distinct states |
|---|---|---|---|
| `area_one` | do the driver's copies agree with the server after any order of calls? | 2 programs, an area each, delayed insertion | 30 804 |
| `area_context` | is a shared area always open at the server? | 1 program, 2 areas on one connection, SDB_LOCKCONTEXT, insertion at once, a hash table that keeps an entry for each opening | 52 532 |
| `area_relock` | is a record that RLOCK grants locked at the server? | as `area_one` | violated |

Two programs are the two sides of every conflict; the areas, with their
connections and programs, are symmetric.

**Finding.** `area_relock`: an exclusive RLOCK first sends UNLOCK_REC for all
that is listed, the current record among them, and then finds
`record->isLocked` still set, so that it does not ask the server, lists the
record and returns true, and another program can lock it.  The comment at
`sdb_rdd_api.c:541` takes the flag for the lock.

**Known, and without a property.** With two areas of one program on a table
the copies do not agree, and TLC shows it at once when the instance of
`area_context` is given the invariants of `area_one`: FLOCK of the second area
finds `table->locked` set and takes the lock of the first for its own
(`FileLockIsHeld` fails when either unlocks or closes); a refused open of the
second clears `table->locked`.  With SDB_LOCKCONTEXT, `(.T., .F.)` in an area
with FLOCK gives its lock up and `(.F.)` closes the table under it, with the
file lock left at the server.  A changed record is accepted after
UNLOCK, since `record->isLocked` is still set; RLOCK after the last record
lists a number nobody asked the server for; COMMIT unlocks and commits without
writing what is changed in memory, ROLLBACK leaves it to the next flush.  The
repository does not say what should happen, so nothing is checked but
`SharedHasContext`, which holds in all of this and keeps an UNLOCK from opening
the table once more.  It does so only if `cfl_hash`, which is not under `src/`,
keeps an entry for each opening (`KeepDuplicates`): if the second opening of a
connection replaces the entry of the first, closing one area closes the table
under the other, and TLC finds this at once.

### Proofs (`AreaLocksProofs`)

`AreaTypeCorrect` holds for any areas, connections and programs.
`SharedContextOpen` holds for any finite number of areas and with SDB_LOCKCONTEXT,
provided that each connection has one area or that the server's hash table keeps
an entry for each opening; the theorem names this as its second assumption.  Its invariant `ContextInv` counts: the server has as many entries of
a connection as areas of the connection have opened the context, so that a close
of one leaves the others theirs.  The others
assume that a program has one area on the table (`OneAreaEach`), that
SDB_LOCKCONTEXT is not called, and that the areas are finite in number; what is
said above shows that the first two are needed.  For any number of programs
and records,

* `LockInvariant` proves `LockInv`, the conjunction of `LockTypes`, `Modes` (an
  area that is open has a context, and only one that is open shared has the file lock),
  `Counts` (the server has as many openings of a connection as it has open
  areas, and its counters fit them), `Owners` (who has the file lock or the
  exclusive open in his area owns it at the server, and conversely), `Flags`
  (`table->locked` is one of these two) and `Holders` (a record is held by a
  connection that has the table open, and by nobody while there is a file lock);
* most calls change no more than records of their own connection (`Quiet`), and
  one lemma keeps the invariant for all of these; FLOCK, opening, closing,
  commit and what gives up a file lock (`GivesUpFile`) have a lemma each;
* `FileLockHeld`, `TableFlagExact`, `FileLocksExclude`, `ExclusiveAreaIsAlone`,
  `ClosedHoldsNothing` and `UnlockGivesAllUp` follow from `LockInv`.

`FileLockIsHeld` alone is not inductive: whether FLOCK asks the server depends
on `table->locked`, whether the server grants it on its counters, and whether
UNLOCK_REC takes the file lock along on who owns it.

**Not modelled.** Lock control by the database; the automatic locks of GET and
PUT; contexts within a table (SDB_SetContext); DBI_SDB_DBRUNLOCK64 of xHarbour;
a SKIP 0 of an appended record; queries and areas that are read-only; a program
that ends without closing (the departure of its client is in `LockServer`).

## 7. AreaCommands and WorkArea: moving over a table

A work area keeps one prepared statement for each navigation command and reads
rows from the result set of the last query, which the database keeps as it was
when the query ran.

| Variable | Code |
|---|---|
| `area.commands`, `current`, `redo`, `unpositioned` | `area->commands`, `pCurrentCommand`, `isRedoQueries`, `isUnpositioned` |
| `area.order`, `orders`, `filter`, `block`, `limits`, `exact`, `immediate` | the order, whether the index is open, the SQL filter, whether Harbour has a filter, and the modes of the area |
| `area.result`, `fetched` | the rows of the result set not fetched yet, `fetchCount` |
| `area.record`, `keyValue`, `changed`, `hot`, `append`, `bof`, `eof`, `found`, `bottom` | the record in memory and the flags of the area |
| `area.record.locked`, `granted` | `record->isLocked`; whether the lock server has given the lock, which rdd_append does not ask |
| `area.steady`, `area.lost` | no state of the program: the rows nobody changed since the last query, and whether the record is still the one the result set stands at |
| `setDeleted` | SET DELETED of the thread |
| `rows` | the table |
| `call` | the call of the step, for `RowCursor`; left out of the view |

`AreaCommands` has the life of the statements: how each query decides between
the statement it has and a new one (`DiscardCommand`, `isRedoQueries`), and the
early release of unused statements, of any subset at any query.  `WorkArea`
extends it with rows: an action is a call of the RDD with the flush it begins
with and the filter skipping of Harbour it ends with.

**The abstract cursor.** `RowCursor` knows the rows, the settings and the place
where the program stands.  GO TOP, GO BOTTOM and SEEK end where the rows say
now.  SKIP may read on in an older result set, so what it promises is about
the rows nobody changed since: it passes over none that is shown, never comes
back, and never stops on one that is not shown.  `RefinesRowCursor` is the
refinement, with `Place` for the place of the program.

| Run | Question | Instance | Distinct states |
|---|---|---|---|
| `nav` | does every call end where the cursor says, does every reused statement fit, does the save of a row whose lock was granted undo no write of another session? | 3 tables and settings to start from, 2 keys, up to 3 rows, 2 changes of the table and of the settings | 204 329 |

Two keys, one of them on two rows, are the least in which the result set of one
key ends and the next key has to be asked for, up and down.  The three starts
put each mode (limits, exact or prefix seek, immediate insertion) and each
setting (order, SQL filter, filter of Harbour, SET DELETED) together with the
others once.  `MaxChanges` bounds what changes between movements; movements are
not bounded.  `MaxTurns` bounds the hidden rows that one movement passes, and is not less than
the rows it can come to.  The released statements are those of all commands but
GO TOP.

**What is kept out, and why.** The first three restrictions are guards with a
comment: they stand for faults with which the refinement fails at once, and of
which no text of the repository speaks.  The others bound the model.

* GOTO takes numbers of existing rows, or 0: for a missing number the driver
  goes on to ask for the next key, without an index;
* a lock or SKIP 0 reads the current row again only while no statement is to be
  discarded (`~redo`) and the area has a position: it puts back a statement that
  the discarding freed (`sdb_rdd_api.c:361`);
* a translated filter is not combined with the limits modes, whose subquery
  takes the limit over all rows, filtered or not;
* SKIP 0 of a changed record, which loses the change, and a soft SEEK to the
  last row are left out; SKIP n is the repetition of SKIP 1;
* the program does not unlock the row it stands on, and the others do not write
  the row whose lock the server has granted it; a row that the program appended they
  do write; calls are atomic for the other sessions;
* the modes are fixed (SDB_GOTOPMODE does not discard what was prepared under
  the old one); there is one index, on a field; row ids are not modelled;
  SDB_QUERYAREA is in `AreaCommands` only.

**Known, and without a property.** rdd_append sets `record->isLocked` without
asking the lock server (`sdb_rdd_api.c:1728`).  A row that is inserted at once can be
locked and changed by another session, and when the program changes its own once
more the save writes every field and undoes that: `NoLostUpdate` is therefore
about rows whose lock the server granted.  SKIP -n for n > 1 goes straight to the raw
movement and steps over nothing it should hide.  GO BOTTOM and SEEK LAST that
find nothing set BOF and keep the old record (for `RowCursor` the program is then
nowhere, which promises nothing of the next movement); SKIP -1 on an empty set leaves
EOF false on the blank record.  Closing and opening indexes reuses statements
of another index under the same number, and orderListFocus takes any number.
`releaseThreadUnusedStatements` frees a statement `area->pStatement` still
names, and after a lock a CLOB is read from the statement of the earlier query.
A soft SEEK sets FOUND() on any row.  A failed fetch looks like the end of the
table.  COMMIT drops the transaction when it failed.

**Proofs (`AreaCommandsProofs`)**, for any orders and filters, and for any
choice of the statements that are released: `CommandsTypes` and
`StatementsAlwaysFit`.  `StatementsFit` is not inductive: it speaks of what
would be reused now.  The invariant `Noted` says of every statement that what
the driver noted beside it (direction, order, SET DELETED) is what its SQL has,
that its filter is the filter of the area unless `isRedoQueries` is set, and that
the statement of a condition of the program is noted with no direction, with
which no command is used.

**Proofs (`WorkAreaProofs`)**, for any tables of up to any number of rows, any
keys, modes, settings and filters to start from: `RecordAndResultAgree` (the type
invariant), `MovementsFit` (`StatementsFit` again, with rows and movements) and
`NoUpdateIsLost`.  None is inductive alone: whether a save loses something depends
on when the record was read, and whether a fetched row is a row of the table on
which result set is open.  `WorkInv` says that a record with something to save is
locked, that a locked record is a row of the table or is not appended yet, and
that one whose lock was granted is a row of the table and is as that row is where
the program changed nothing; then all that others write meets a record whose lock
was not granted.  A movement begins when everything is
saved and ends so (`Settled`); the lemmas follow its layers, from the statement
over query and fetch to the skipping of hidden rows.  That a query which
has rows has a least one is by the well-founded order on finite sets of rows
(`LeastNumber`).  The skipping over hidden rows is a recursion of `MaxTurns`
turns, and its induction looks for the least turn that went wrong.

`WorkAreaFollowsCursor` proves the refinement, `Spec => RefinesRowCursor`.
Whether a SKIP ends where the cursor says depends on a result set that an earlier
call left behind, so the refinement needs an invariant of its own, `PosInv`:

* what is left of the result set is ahead of the place of the program, in the
  direction and the order of its statement (`Ahead`);
* each steady row that the statement selects and that is ahead is left in the
  result set, or has a key beyond the current one while a query for the next key
  would still follow (`Covers`);
* a row in the result set that is steady is as the table has it, and no row is
  there twice (`Primed`);
* the marks tell when nothing of this is promised (`WellMarked`, `Stands`): after a
  GOTO, an append or a row read again with another key, and at BOF for a result set
  that goes down.  The place counts with the key it had when the program came
  there (`keyValue`), for from that one the result set goes on.

The lemmas follow a movement once more: a query that was just made covers the
places before its first row; to take a row, or to ask for the next key, keeps what is
covered; rows that are hidden are passed, and `MaxTurns` turns pass them all, as each
turn leaves fewer rows that are ahead.  Then each action is shown to be one of
`RowCursor`: a call that moves is its flush (`Saves`) and the movement on the
rows as saved.

One assumption of `WorkArea` is about `Starts` and is needed here: an area that
begins with an SQL filter has it as the filter of Harbour too, and no limits.
rdd_setFilter sets both filters together (`sdb_rdd_api.c:1370`), and the limits
modes with a translated filter are left out as said above.

## 8. Appends: numbers of appended rows

| Variable | Code |
|---|---|
| `nextRecno` | `sdb_tables.next_recno` |
| `rows`, `pending`, `open` | committed rows, the rows of each program's transaction, `connection->transaction` |
| `table` | `nextRecno` and `maxRecno` of the descriptor, one per program |
| `append` | `insertRecord` while it runs: its step, the number, `tryCount`, `tryAgain` |
| `reset` | history: `next_recno` was set back to the highest number of the table |

An action is one statement at the database, or the part of the loop of
`insertRecord` between two.  A program may end at any moment (`Crash`).  An
INSERT is refused when its number is taken, and at any time for another unique
key of the row, which `IS_RETRY_INSERT` does not tell apart (`Refuse`).  A number in the transaction of another program makes the INSERT wait.

| Run | Question | Instance | Distinct states |
|---|---|---|---|
| `append` | can two appends have one number, and does an append return? | 2 programs, blocks of 2, 3 attempts with a refresh at each third, number 4 written by others, numbers to 6 | 655 718 |

Two programs and three blocks are the least in which one reserves while the
other still has numbers left and ends; 4 lies inside the block of either; with
`MaxAttempts = RefreshAttempts = 3` an append meets retry, refresh and giving
up.  `MaxNumber` bounds the reservations.

`AppendsDoNotCollide` holds until `next_recno` was set back.  The refresh takes
the highest number of the table, which is below the blocks other programs have
reserved, and afterwards numbers do collide; it is a retry that the code makes
on purpose, so the collision is not a finding but the limit of the property.
`AppendsReturn` holds for an append whose number was not refused: after a
refusal `tryAgain` is never reset, and the loop of a retried append that
succeeds inserts again (`Accept`), or, after another error, runs on without
noticing (`ExecuteStuck`).

**Fairness.** A program in `insertRecord` runs on (`RunsOn`: WF of drawing a
number and of the INSERT, which is accepted, or refused for a number that is
taken).  It is the thread the program called; it waits only
for the database, and for the transaction of another only when that has the
same number, which the property shows not to happen.

**Proofs (`AppendsProofs`)**, for any programs, sizes of blocks and rows of
others: `AppendsTypes`, `NumbersAreApart`.  The inductive invariant says where a
number can be: in what is left of one block (`BlocksApart`), in the hand of one
append (`HandsApart`), or in rows (`RowsBelow`), each below the next block
(`MaximaBelow`, `Highest`).  The block of a program is one wider than the code
believes, since it draws `next + 1`: the invariant has `Highest = nextRecno +
CacheSize`.  `AppendsReturn` is liveness and model-checked only.

**Not modelled.** Numbers given by the program or an expression; two threads of
one program, which share the descriptor without a lock (there
`AppendsDoNotCollide` does not hold); the NULL of the maximum of an empty table;
memos of the row; overflow of `tryCount`.  The refresh is one atomic step.
The record does not get the number the program gave, and `dbExpression` numbers
have no parameter (`pkParam` is NULL): both without a property.

## 9. ClipperParser, ExprToSql: expressions as SQL

`ClipperParser` has the rules of the grammar as values, built from literals,
sequence, ordered choice, option, repetition and look-ahead; `Match` is what the
generated code does with each of them, and threads the slots of the memoised
rules.  `ExprToSql` has the visitor that builds the expression, the types of its
operands and the translation, with SQL as a sequence of tokens.  `Expressions`
puts them behind SDB_CLIPPEREXPRTOSQL.

`ClipperTrees` is the reference and follows none of this: trees with Clipper's
precedence, how a tree is written in a style (spelling and gaps), the SQL that
means the same (`SqlOf`), and how SQL is read by the precedence of SQL
(`ReadSql`).

| Run | Question | Instance | Distinct states |
|---|---|---|---|
| `to_sql` | has every expression SQL that means the same? is a field's value kept? | trees of up to four levels in four styles; the values of section 10 | 8 799 |

The trees put every operator under every other one that may stand there, as far
as the translation keeps their meaning; styles are tight, wide, with block
comments, and continued over lines with a comment at their end.

**Known, and without a property.** The slots of the memoised rules hold one
position each, so they do not bound the work: an IF with two arguments is tried by
IfInLine, fails at its second comma and is parsed again by FunctionCall, and when
such calls stand in one another the work doubles at every level.

Kept out of the requests, because the translation is known to be wrong or to be
refused there and no text of the repository says otherwise.  The parser leans to
the right and gives a sign all that follows it, which shows where an operator
becomes a function: `a ** b + c` is translated as `a ** (b + c)`.  A `.T.`
followed by a space becomes `'N'` (`sdb_ora_expr.c:462`); `"()"`, `nil` and
`iif(c,,)` read a NULL node; a prefix `+` becomes `-`; the numeric `-` and dates
are never translated; `&&` right after a digit, leading spaces and some names
that begin with `in` are refused; a `.not. l` at top level is not a condition.

All of this is recursion over data, which TLAPS cannot do here; it stays with
TLC.

## 10. FieldValues: from the program to the column and back

| Variable | Code |
|---|---|
| `field` | the field: type, length, decimals |
| `record` | the cell of the field in the record, and `isValidBuffer`, `isHot`, `isAppend`, whether the record has the number of its row |
| `row` | the column, and the row of the memo table |
| `expected` | history: what the program is to find in the field |

Conversions are what the code does: `setFieldValue`, `setFieldEmpty` and
`resultsetGetFieldValue` for the cell, with the widths of `fieldSize` and
wrapping; `stmtSetParam` for the parameter, which may be refused; what the
column takes, as `createTable` defines it.  Types are CHARACTER, NUMERIC,
LOGICAL, DATE, TIMESTAMP, MEMO_LONG and CLOB.  A number is counted in tenths, and
the year stands for a date, since it is the part that a width cuts.

`ValueIsKept` (in run `to_sql`): as long as a value fits its column, GET shows
it, and once the record is saved the row stands for it, put, untouched or left
blank, whatever failed on the way.  Excepted is a record that lost its number:
after a failed UPDATE the number is 0, a retry changes no row and reports
success (`sdb_api_updateRecord`).  Lengths 2, 3, 5 and 4.1 are on both sides of
each width of a cell; texts are empty, blank, padded, with a leading blank and
too long; numbers are on both sides of what a byte and three digits hold.

**Proofs (`FieldValuesProofs`)**: `FieldsKeepTheirValues` is `ValueIsKept` for any
columns of these types and any texts, numbers and years.  `FieldsAssumption` (a
field is at least one wide, a year has four digits at most) is a hypothesis and
is evaluated by TLC in `MCConversions`.  `ValueIsKept` alone does not say what the
cell and the row can hold: `FieldInv` adds that a cell is one of its type
(`Cells`), that a column holds what its type takes (`RowOf`, `Held`), and that a
record with something to save is a valid one, an appended record has something to
save, and its large fields have no memo yet (`Hot`).  The rest is a lemma for
each conversion: to trim a text twice is to trim it once (`TrimmedAgain`), what a
column takes of a parameter and gives back to a cell is what the cell showed
(`TextOfParam`, `NumberOfCell`, `DateOfCell`), and a failed memo leaves the expected
value (`FailedMemo`).

The harness `MCConversions` has this and the expressions in one run: a behaviour
is about one or the other, and they share no state.

**Assumed.** The session locks the table while the record is valid and runs no
transaction; the server sets the numbers of rows; text fields are padded;
parameters are scalar.  FLOAT, INTEGER, BIGINT, DOUBLE, LONG_RAW, ROWID and CURSOR are left out
(LONG_RAW has no size in `fieldSize` and no item in `initData`: reading it is
undefined).

**Known, and without a property.** A memo that fails on insertion leaves the row
inserted and the record hot, so that the retry inserts it twice.  `updateMemos`
tests the reverse of what it means (`sdb_api.c:1809`).  CLOB and TIMESTAMP
fields that the program touched or loaded are always refused on save; the model
has it, as an outcome without effect.  Values wider than the field wrap
silently.  `setFieldEmpty` of a FLOAT clears half of it.  DOUBLE with no decimals
loses the fraction.

## 11. What is not modelled

The components with status `not_modelled` in `PROJECT.json`, each with its
reason, and in short:

* framing and the lock client: a command and its answer are one exchange in
  every module here.  What a timeout does to that (a late answer is taken for
  the next command's) is in the hazards, without a property;
* session commands: they read the tables of `LockServer` and format them.  That
  they do so under a lock which the worker of the other client does not take is
  in the hazards;
* connections, products, thread data: lists of one thread each;
* the fetch buffer, defines and binds: `WorkArea` takes the rows in the order of
  the result set;
* console program, service, log, marshalling, the loading of the client library:
  calls of the operating system and of libraries, and formatting;
* parts of modelled components are named at the end of each section above.

## 12. Properties and mutants

Each property of a passing run has a mutant in `PROJECT.json`: a definition of
the model replaced by a faulty form, a dropped guard or a missing reset, that
the property catches under the run's own configuration.  The faulty forms
stand in the modules, before the definition they replace, and are used by
nothing else.
