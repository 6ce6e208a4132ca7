----------------------------- MODULE LockServer -----------------------------
(***************************************************************************)
(* The lock tables of the SDB lock server                                  *)
(* (sdb-lck-server-app/src/main/c/sdb_lock_server.c): the contexts, which  *)
(* stand for a table or a partition of a table, the clients connected to   *)
(* the server, and the commands that open, close, lock and unlock.         *)
(*                                                                         *)
(* The commands of one client are served one at a time; the commands of    *)
(* different clients are served by different worker threads.  A worker     *)
(* holds the lock of a context while it reads or writes it, and the tables *)
(* of a client are used by the worker that serves this client only.  An    *)
(* action is therefore one critical section of a context together with the *)
(* accesses to the client's own tables around it; a command that enters    *)
(* several critical sections is several actions.                           *)
(*                                                                         *)
(* A context table maps a record to an SDB_LS_REC_LOCK structure, and the  *)
(* client's table holds the same structure under the record number alone:  *)
(* the records of two contexts with one number share a key.  UNLOCK_REC    *)
(* frees the structure it finds in the client's table, which need not be   *)
(* the one it removes from the context.                                    *)
(***************************************************************************)
EXTENDS Integers, FiniteSets

CONSTANTS
    Client,         \* client structures; a new connection may reuse a freed one
    Context,        \* SDB_LS_CONTEXT structures, which are never freed while serving
    Recno,          \* record numbers
    Records,        \* the (context, record number) pairs that clients lock
    NoClient,       \* the NULL of clientLocking
    KeepDuplicates, \* cfl_hash keeps the older entries of a key on insertion
    SendsCloseAll,  \* some client sends CLOSE_ALL (nothing under src/ does)
    MaxOpen         \* bound on the entries of one context or one client

ASSUME ServerAssumption ==
    /\ NoClient \notin Client
    /\ Records \subseteq Context \X Recno
    /\ KeepDuplicates \in BOOLEAN
    /\ SendsCloseAll \in BOOLEAN
    /\ MaxOpen \in Nat \ {0}

VARIABLES
    openShared,      \* ctx->openShared
    isOpenExclusive, \* ctx->isOpenExclusive
    isLocked,        \* ctx->isLocked: the file lock
    clientLocking,   \* ctx->clientLocking: of the exclusive open and of the file lock
    lockedRecords,   \* ctx->lockedRecords: owner of the lock of each record
    freed,           \* entries of ctx->lockedRecords whose structure was freed
    openContexts,    \* client->openContexts: entries of each context
    recLocks,        \* client->lockedRecords: structures of each record
    pc,              \* where the worker that serves the client is
    pending,         \* contexts that the command in progress has still to visit
    reply            \* result of the client's last command

context == <<openShared, isOpenExclusive, isLocked, clientLocking>>
entries == <<lockedRecords, freed>>
vars == <<context, entries, openContexts, recLocks, pc, pending, reply>>

InContext(c) == {x \in Records : x[1] = c}
NoPending == [c \in Context |-> 0]
NoRecLocks == [x \in Records |-> 0]

Init ==
    /\ openShared = [c \in Context |-> 0]
    /\ isOpenExclusive = [c \in Context |-> FALSE]
    /\ isLocked = [c \in Context |-> FALSE]
    /\ clientLocking = [c \in Context |-> NoClient]
    /\ lockedRecords = [x \in Records |-> NoClient]
    /\ freed = {}
    /\ openContexts = [cl \in Client |-> NoPending]
    /\ recLocks = [cl \in Client |-> NoRecLocks]
    /\ pc = [cl \in Client |-> "off"]
    /\ pending = [cl \in Client |-> NoPending]
    /\ reply = [cl \in Client |-> "none"]

-----------------------------------------------------------------------------
(* The client structure and its answers.                                   *)

Ready(cl) == pc[cl] = "ready"

(* prepareResponse: the worker answers and waits for the next command.     *)
Answer(cl, code) == reply' = [reply EXCEPT ![cl] = code]

HasOpen(cl, c) == openContexts[cl][c] > 0
OwnsFile(cl, c) == isLocked[c] /\ clientLocking[c] = cl

(* createClient: empty tables.  Nothing else changes, and in particular a  *)
(* clientLocking left by an earlier user of the structure's address stays. *)
Connect(cl) ==
    /\ pc[cl] = "off"
    /\ pc' = [pc EXCEPT ![cl] = "ready"]
    /\ UNCHANGED <<context, entries, openContexts, recLocks, pending, reply>>

(* cfl_hash_insert on client->openContexts.                                *)
RegisterOpen(cl, c) ==
    openContexts' = [openContexts EXCEPT ![cl][c] = IF KeepDuplicates THEN @ + 1 ELSE 1]

OpenShared(cl, c) ==
    /\ Ready(cl)
    /\ \/ /\ ~isOpenExclusive[c]
          /\ openShared[c] < MaxOpen
          /\ openShared' = [openShared EXCEPT ![c] = @ + 1]
          /\ RegisterOpen(cl, c)
          /\ Answer(cl, "success")
       \/ /\ isOpenExclusive[c]
          /\ Answer(cl, "failed")
          /\ UNCHANGED <<openShared, openContexts>>
    /\ UNCHANGED <<isOpenExclusive, isLocked, clientLocking, entries, recLocks, pc, pending>>

IgnoringShared(c) == ~isOpenExclusive[c] \* a faulty CanOpenExclusive
CanOpenExclusive(c) == openShared[c] = 0 /\ ~isOpenExclusive[c]

(* The new owner replaces the owner of a file lock that is still set.      *)
OpenExclusive(cl, c) ==
    /\ Ready(cl)
    /\ \/ /\ CanOpenExclusive(c)
          /\ isOpenExclusive' = [isOpenExclusive EXCEPT ![c] = TRUE]
          /\ clientLocking' = [clientLocking EXCEPT ![c] = cl]
          /\ RegisterOpen(cl, c)
          /\ Answer(cl, "success")
       \/ /\ ~CanOpenExclusive(c)
          /\ Answer(cl, "failed")
          /\ UNCHANGED <<isOpenExclusive, clientLocking, openContexts>>
    /\ UNCHANGED <<openShared, isLocked, entries, recLocks, pc, pending>>

-----------------------------------------------------------------------------
(* The record lock structures.                                             *)

(* Removes the keys R from context tables and frees the client's           *)
(* structures of F.  A structure of F that a context still lists becomes   *)
(* an entry over freed memory.  An entry over freed memory may or may not  *)
(* match its key: the removal may miss it, or meet it instead of the live  *)
(* entry of the key.                                                       *)
Remove(cl, R, F) ==
    \E missed \in SUBSET (R \cap freed), kept \in SUBSET (R \cap freed) :
        LET gone == R \ missed
            dangling == {x \in F \ gone : lockedRecords[x] = cl}
        IN  /\ lockedRecords' = [x \in Records |->
                   IF x \in gone \cup dangling THEN NoClient ELSE lockedRecords[x]]
            /\ freed' = (freed \ R) \cup kept \cup dangling

(* A faulty ReleaseInContext that leaves the client's table as it is.      *)
KeepingTable(cl, c) ==
    LET mine == {x \in InContext(c) : recLocks[cl][x] > 0}
    IN  Remove(cl, mine, mine) /\ UNCHANGED recLocks

(* clientReleaseContextLockedRecords, and the same loop in UNLOCK_ALL.     *)
ReleaseInContext(cl, c) ==
    LET mine == {x \in InContext(c) : recLocks[cl][x] > 0}
    IN  /\ Remove(cl, mine, mine)
        /\ recLocks' = [recLocks EXCEPT ![cl] = [x \in Records |-> IF x[1] = c THEN 0 ELSE @[x]]]

(* A faulty CloseContext that counts down an exclusive open too.           *)
CountingDown(cl, c) ==
    /\ ReleaseInContext(cl, c)
    /\ openShared' = [openShared EXCEPT ![c] = @ - 1]
    /\ isOpenExclusive' = [isOpenExclusive EXCEPT ![c] = FALSE]
    /\ clientLocking' = [clientLocking EXCEPT ![c] = NoClient]
    /\ UNCHANGED isLocked

(* clientCloseContext.  The file lock of the client is not released.       *)
CloseContext(cl, c) ==
    /\ ReleaseInContext(cl, c)
    /\ \/ /\ isOpenExclusive[c]
          /\ clientLocking[c] = cl
          /\ isOpenExclusive' = [isOpenExclusive EXCEPT ![c] = FALSE]
          /\ clientLocking' = [clientLocking EXCEPT ![c] = NoClient]
          /\ UNCHANGED openShared
       \/ /\ isOpenExclusive[c]
          /\ clientLocking[c] # cl
          /\ UNCHANGED <<openShared, isOpenExclusive, clientLocking>>
       \/ /\ ~isOpenExclusive[c]
          /\ openShared' = [openShared EXCEPT ![c] = IF @ > 0 THEN @ - 1 ELSE @]
          /\ UNCHANGED <<isOpenExclusive, clientLocking>>
    /\ UNCHANGED isLocked

Close(cl, c) ==
    /\ Ready(cl)
    /\ \/ /\ HasOpen(cl, c)
          /\ CloseContext(cl, c)
          /\ openContexts' = [openContexts EXCEPT ![cl][c] = @ - 1]
          /\ Answer(cl, "success")
       \/ /\ ~HasOpen(cl, c)
          /\ Answer(cl, "failed")
          /\ UNCHANGED <<context, entries, openContexts, recLocks>>
    /\ UNCHANGED <<pc, pending>>

(* CLOSE_ALL closes every entry of client->openContexts, one critical      *)
(* section each, and leaves the entries in the table.                      *)
CloseAll(cl) ==
    /\ SendsCloseAll
    /\ Ready(cl)
    /\ pc' = [pc EXCEPT ![cl] = "closing all"]
    /\ pending' = [pending EXCEPT ![cl] = openContexts[cl]]
    /\ UNCHANGED <<context, entries, openContexts, recLocks, reply>>

CloseAllNext(cl, c) ==
    /\ pc[cl] = "closing all"
    /\ pending[cl][c] > 0
    /\ CloseContext(cl, c)
    /\ pending' = [pending EXCEPT ![cl][c] = @ - 1]
    /\ UNCHANGED <<openContexts, pc, reply>>

CloseAllDone(cl) ==
    /\ pc[cl] = "closing all"
    /\ pending[cl] = NoPending
    /\ pc' = [pc EXCEPT ![cl] = "ready"]
    /\ Answer(cl, "success")
    /\ UNCHANGED <<context, entries, openContexts, recLocks, pending>>

-----------------------------------------------------------------------------
(* Locks.                                                                  *)

(* cfl_hash_count(ctx->lockedRecords) == 0                                 *)
NoEntries(c) == \A x \in InContext(c) : lockedRecords[x] = NoClient /\ x \notin freed

IgnoringRecords(c) == ~isLocked[c] \* two faulty CanLockFile
IgnoringOwner(c) == NoEntries(c)
CanLockFile(c) == ~isLocked[c] /\ NoEntries(c)

LockFile(cl, c) ==
    /\ Ready(cl)
    /\ \/ /\ HasOpen(cl, c)
          /\ CanLockFile(c)
          /\ isLocked' = [isLocked EXCEPT ![c] = TRUE]
          /\ clientLocking' = [clientLocking EXCEPT ![c] = cl]
          /\ Answer(cl, "success")
       \/ /\ HasOpen(cl, c)
          /\ OwnsFile(cl, c)
          /\ Answer(cl, "success")
          /\ UNCHANGED <<isLocked, clientLocking>>
       \/ /\ \/ ~HasOpen(cl, c)
             \/ ~CanLockFile(c) /\ ~OwnsFile(cl, c)
          /\ Answer(cl, "failed")
          /\ UNCHANGED <<isLocked, clientLocking>>
    /\ UNCHANGED <<openShared, isOpenExclusive, entries, openContexts, recLocks, pc, pending>>

NotSearching(x) == {NoClient} \* a faulty FoundOwner

(* What a search of the context table for the record x may return: the     *)
(* owner read from freed memory can be any.                                *)
FoundOwner(x) ==
    IF x \in freed THEN Client \cup {lockedRecords[x]} ELSE {lockedRecords[x]}

NotRegistering(cl, x) == UNCHANGED recLocks \* a faulty RegisterRecLock

(* cfl_hash_insert on client->lockedRecords, whose key is the number only. *)
RegisterRecLock(cl, x) ==
    recLocks' = [recLocks EXCEPT ![cl] = [y \in Records |->
        IF y = x THEN (IF KeepDuplicates THEN @[y] + 1 ELSE 1)
        ELSE IF ~KeepDuplicates /\ y[2] = x[2] THEN 0 ELSE @[y]]]

(* While the context is locked or open exclusively a success adds no lock. *)
LockRec(cl, x) ==
    LET c == x[1] IN
    /\ Ready(cl)
    /\ \/ /\ HasOpen(cl, c)
          /\ ~isLocked[c] /\ ~isOpenExclusive[c]
          /\ \E owner \in FoundOwner(x) :
                \/ /\ owner = NoClient
                   /\ recLocks[cl][x] < MaxOpen
                   /\ lockedRecords' = [lockedRecords EXCEPT ![x] = cl]
                   /\ RegisterRecLock(cl, x)
                   /\ Answer(cl, "success")
                \/ /\ owner # NoClient
                   /\ Answer(cl, IF owner = cl THEN "success" ELSE "failed")
                   /\ UNCHANGED <<lockedRecords, recLocks>>
       \/ /\ HasOpen(cl, c)
          /\ isLocked[c] \/ isOpenExclusive[c]
          /\ Answer(cl, IF clientLocking[c] = cl THEN "success" ELSE "failed")
          /\ UNCHANGED <<lockedRecords, recLocks>>
       \/ /\ ~HasOpen(cl, c)
          /\ Answer(cl, "failed")
          /\ UNCHANGED <<lockedRecords, recLocks>>
    /\ UNCHANGED <<context, freed, openContexts, pc, pending>>

DropFileLock(c) ==
    /\ isLocked' = [isLocked EXCEPT ![c] = FALSE]
    /\ clientLocking' = [clientLocking EXCEPT ![c] = NoClient]

DropAnyFileLock(cl, c) == DropFileLock(c) \* a faulty DropOwnFileLock
DropOwnFileLock(cl, c) ==
    IF OwnsFile(cl, c) THEN DropFileLock(c) ELSE UNCHANGED <<isLocked, clientLocking>>

(* A faulty FoundRecLock that searches the contexts for the record.        *)
FoundInContexts(cl, recno) == {s \in Records : s[2] = recno /\ lockedRecords[s] # NoClient}

(* The structures that a search of client->lockedRecords may return.       *)
FoundRecLock(cl, recno) == {s \in Records : s[2] = recno /\ recLocks[cl][s] > 0}

(* UNLOCK_REC with a record of this number in the client's table.          *)
UnlockRec(cl, x) ==
    /\ Ready(cl)
    /\ HasOpen(cl, x[1])
    /\ \E s \in FoundRecLock(cl, x[2]) :
          /\ Remove(cl, {x}, {s})
          /\ recLocks' = [recLocks EXCEPT ![cl][s] = @ - 1]
    /\ DropOwnFileLock(cl, x[1])
    /\ Answer(cl, "success")
    /\ UNCHANGED <<openShared, isOpenExclusive, openContexts, pc, pending>>

(* UNLOCK_REC without: the owner of the file lock is tested before the     *)
(* context is locked (CheckFileLock), and cleared after (UnlockFile).      *)
CheckFileLock(cl, x) ==
    /\ Ready(cl)
    /\ \/ /\ HasOpen(cl, x[1])
          /\ FoundRecLock(cl, x[2]) = {}
          /\ OwnsFile(cl, x[1])
          /\ pc' = [pc EXCEPT ![cl] = "unlocking"]
          /\ pending' = [pending EXCEPT ![cl][x[1]] = 1]
          /\ UNCHANGED reply
       \/ /\ \/ ~HasOpen(cl, x[1])
             \/ FoundRecLock(cl, x[2]) = {} /\ ~OwnsFile(cl, x[1])
          /\ Answer(cl, "failed")
          /\ UNCHANGED <<pc, pending>>
    /\ UNCHANGED <<context, entries, openContexts, recLocks>>

UnlockFile(cl, c) ==
    /\ pc[cl] = "unlocking"
    /\ pending[cl][c] > 0
    /\ DropFileLock(c)
    /\ pc' = [pc EXCEPT ![cl] = "ready"]
    /\ pending' = [pending EXCEPT ![cl] = NoPending]
    /\ Answer(cl, "success")
    /\ UNCHANGED <<openShared, isOpenExclusive, entries, openContexts, recLocks>>

UnlockAll(cl, c) ==
    /\ Ready(cl)
    /\ \/ /\ HasOpen(cl, c)
          /\ ReleaseInContext(cl, c)
          /\ DropOwnFileLock(cl, c)
          /\ Answer(cl, "success")
       \/ /\ ~HasOpen(cl, c)
          /\ Answer(cl, "failed")
          /\ UNCHANGED <<isLocked, clientLocking, entries, recLocks>>
    /\ UNCHANGED <<openShared, isOpenExclusive, openContexts, pc, pending>>

-----------------------------------------------------------------------------
(* DISCONNECT, the loss of the connection and a request to drop the client *)
(* all end in releaseClient, which visits every record lock of the client, *)
(* then every open context, one critical section each.                     *)

Disconnect(cl) ==
    /\ Ready(cl)
    /\ pc' = [pc EXCEPT ![cl] = "leaving"]
    /\ UNCHANGED <<context, entries, openContexts, recLocks, pending, reply>>

(* clientReleaseLockedRecords: removes the key from the structure's        *)
(* context, whoever owns the entry of this key there.                      *)
ReleaseRecord(cl, x) ==
    /\ pc[cl] = "leaving"
    /\ recLocks[cl][x] > 0
    /\ Remove(cl, {x}, {x})
    /\ recLocks' = [recLocks EXCEPT ![cl][x] = @ - 1]
    /\ UNCHANGED <<context, openContexts, pc, pending, reply>>

ReleaseContext(cl, c) ==
    /\ pc[cl] = "leaving"
    /\ recLocks[cl] = NoRecLocks
    /\ HasOpen(cl, c)
    /\ CloseContext(cl, c)
    /\ openContexts' = [openContexts EXCEPT ![cl][c] = @ - 1]
    /\ UNCHANGED <<pc, pending, reply>>

FreeClient(cl) ==
    /\ pc[cl] = "leaving"
    /\ recLocks[cl] = NoRecLocks
    /\ openContexts[cl] = NoPending
    /\ pc' = [pc EXCEPT ![cl] = "off"]
    /\ Answer(cl, "none")
    /\ UNCHANGED <<context, entries, openContexts, recLocks, pending>>

-----------------------------------------------------------------------------
Leave(cl) ==
    \/ \E x \in Records : ReleaseRecord(cl, x)
    \/ \E c \in Context : ReleaseContext(cl, c)
    \/ FreeClient(cl)

OnContext(cl, c) ==
    \/ OpenShared(cl, c)
    \/ OpenExclusive(cl, c)
    \/ Close(cl, c)
    \/ CloseAllNext(cl, c)
    \/ LockFile(cl, c)
    \/ UnlockFile(cl, c)
    \/ UnlockAll(cl, c)

OnRecord(cl, x) ==
    \/ LockRec(cl, x)
    \/ UnlockRec(cl, x)
    \/ CheckFileLock(cl, x)

(* executeCommand and the end of a connection.                             *)
Step(cl) ==
    \/ Connect(cl)
    \/ \E c \in Context : OnContext(cl, c)
    \/ \E x \in Records : OnRecord(cl, x)
    \/ CloseAll(cl)
    \/ CloseAllDone(cl)
    \/ Disconnect(cl)
    \/ Leave(cl)

Next == \E cl \in Client : Step(cl)

Spec == Init /\ [][Next]_vars

(* A step that changes one structure of a client's table is no command on  *)
(* another record: LOCK_REC and UNLOCK_REC find and replace no structure   *)
(* but that of the record they name.  The server does not see to it: they  *)
(* do otherwise when a client has a lock on a record of the same number in *)
(* another context and the search meets this one.                          *)
OwnStructure ==
    \A cl \in Client, x, y \in Records :
        y # x /\ recLocks'[cl][y] # recLocks[cl][y] => ~OnRecord(cl, x)

(* A worker that runs releaseClient is a running thread that waits only    *)
(* for context locks, which every holder releases without waiting.         *)
Fairness == \A cl \in Client : WF_vars(Leave(cl))

(* The behaviours up to the first command that meets the structure of      *)
(* another record.                                                         *)
OwnSpec == Init /\ [][Next /\ OwnStructure]_vars /\ Fairness

-----------------------------------------------------------------------------
(* Properties.                                                             *)

TypeOK ==
    /\ openShared \in [Context -> Nat]
    /\ isOpenExclusive \in [Context -> BOOLEAN]
    /\ isLocked \in [Context -> BOOLEAN]
    /\ clientLocking \in [Context -> Client \cup {NoClient}]
    /\ lockedRecords \in [Records -> Client \cup {NoClient}]
    /\ freed \in SUBSET Records
    /\ openContexts \in [Client -> [Context -> Nat]]
    /\ recLocks \in [Client -> [Records -> Nat]]
    /\ pc \in [Client -> {"off", "ready", "closing all", "unlocking", "leaving"}]
    /\ pending \in [Client -> [Context -> Nat]]
    /\ reply \in [Client -> {"none", "success", "failed"}]

(* A file lock leaves no room for record locks: LOCK_FILE is refused while *)
(* a record of the context is locked and LOCK_REC adds none while the file *)
(* is, in every order in which the commands of several clients run.        *)
FileLockExcludesRecords == \A c \in Context : isLocked[c] => NoEntries(c)

(* A context open exclusively is open nowhere else: of all the entries of  *)
(* all the clients, at most one names it.                                  *)
ExclusiveIsAlone ==
    \A c \in Context : isOpenExclusive[c] =>
        \A a, b \in Client : HasOpen(a, c) /\ HasOpen(b, c) => a = b /\ openContexts[a][c] = 1

(* UNLOCK_REC clears, under the lock of the context, the file lock that it *)
(* found before it took this lock: it is still the client's.               *)
ClearsOwnFileLock ==
    \A cl \in Client, c \in Context :
        pc[cl] = "unlocking" /\ pending[cl][c] > 0 => OwnsFile(cl, c)

HoldsFile(cl, c) == HasOpen(cl, c) /\ OwnsFile(cl, c)
OtherStep(cl) == \E other \in Client \ {cl} : Step(other)

(* No command of another client takes a file lock from a client that has   *)
(* the context open.                                                       *)
FileLockKept ==
    [][\A cl \in Client, c \in Context :
          HoldsFile(cl, c) /\ ~HoldsFile(cl, c)' => ~OtherStep(cl)]_vars

(* Nor a record lock.                                                      *)
RecordLockKept ==
    [][\A cl \in Client, x \in Records :
          lockedRecords[x] = cl /\ lockedRecords'[x] # cl => ~OtherStep(cl)]_vars

(* The two tables a record lock is entered in agree: a context lists a     *)
(* client as the owner exactly when this client, and no other, lists the   *)
(* record; the client has the context open, and nothing listed is freed.   *)
TablesAgree ==
    /\ freed = {}
    /\ \A cl \in Client, x \in Records :
          /\ lockedRecords[x] = cl => recLocks[cl][x] = 1 /\ HasOpen(cl, x[1])
          /\ lockedRecords[x] # cl => recLocks[cl][x] = 0

(* Nobody has a record lock in a context that is open exclusively.         *)
ExclusiveExcludesRecords == \A c \in Context : isOpenExclusive[c] => NoEntries(c)

(* The server keeps the promise about record locks, contexts being shut by *)
(* a file lock or an exclusive open.                                       *)
Promise == INSTANCE RecordLocks WITH
    owner <- lockedRecords,
    shut <- {c \in Context : isLocked[c] \/ isOpenExclusive[c]}
RefinesRecordLocks == Promise!Spec

(* A context of the server as a value of LockTable.                        *)
Single == INSTANCE LockTable

table(c) ==
    [shared |-> openShared[c], exclusive |-> isOpenExclusive[c], locked |-> isLocked[c],
     owner |-> clientLocking[c],
     holder |-> [r \in Recno |-> IF <<c, r>> \in Records THEN lockedRecords[<<c, r>>] ELSE NoClient],
     opens |-> [cl \in Client |-> openContexts[cl][c]]]

Answers(cl, c, can, next) ==
    /\ table(c)' = IF can THEN next ELSE table(c)
    /\ reply'[cl] = IF can THEN "success" ELSE "failed"

(* Every command of the server, with all its paths, does to a context and  *)
(* answers what LockTable says: this is what the work areas of the driver  *)
(* rely on.  It is so as long as no command meets the structure of another *)
(* record (OwnSpec): the UNLOCK_REC and UNLOCK_ALL that do leave a lock in *)
(* the context or take one out of another.  UNLOCK_REC of a file lock has  *)
(* its effect at its second step.                                          *)
ServesAsLockTable ==
    [][\A cl \in Client, c \in Context :
        /\ OpenShared(cl, c) =>
               Answers(cl, c, Single!CanOpenShared(table(c)), Single!OpenShared(table(c), cl))
        /\ OpenExclusive(cl, c) =>
               Answers(cl, c, Single!CanOpenExclusive(table(c)), Single!OpenExclusive(table(c), cl))
        /\ Close(cl, c) =>
               Answers(cl, c, Single!HasOpen(table(c), cl), Single!Close(table(c), cl))
        /\ LockFile(cl, c) =>
               Answers(cl, c, Single!CanLockFile(table(c), cl), Single!LockFile(table(c), cl))
        /\ UnlockAll(cl, c) =>
               Answers(cl, c, Single!HasOpen(table(c), cl), Single!UnlockAll(table(c), cl))
        /\ UnlockFile(cl, c) =>
               Answers(cl, c, Single!OwnsFile(table(c), cl), Single!UnlockAll(table(c), cl))
        /\ ReleaseContext(cl, c) => table(c)' = Single!Close(table(c), cl)
        /\ \A r \in {x[2] : x \in InContext(c)} :
              /\ LockRec(cl, <<c, r>>) =>
                     Answers(cl, c, Single!CanLockRec(table(c), cl, r), Single!LockRec(table(c), cl, r))
              /\ UnlockRec(cl, <<c, r>>) =>
                     Answers(cl, c, Single!CanUnlockRec(table(c), cl, r), Single!UnlockRec(table(c), cl, r))
              /\ CheckFileLock(cl, <<c, r>>) =>
                     /\ table(c)' = table(c)
                     /\ reply' # reply => ~Single!CanUnlockRec(table(c), cl, r)
      ]_vars

(* When every client has left no record is locked: a client that leaves    *)
(* releases all its locks, "Percorrer todos os registros bloqueados pelo   *)
(* cliente, liberando-os" (sdb_lock_server.c:518).                         *)
EmptyWhenAllLeft ==
    (\A cl \in Client : pc[cl] = "off") => \A c \in Context : NoEntries(c)

(* The records of a client that leaves are free for others in the end.     *)
LeaverReleasesRecords ==
    \A cl \in Client, x \in Records :
        pc[cl] = "leaving" /\ lockedRecords[x] = cl ~> lockedRecords[x] # cl
=============================================================================
