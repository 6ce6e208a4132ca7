----------------------------- MODULE AreaLocks -----------------------------
(***************************************************************************)
(* The locks of a table as the driver keeps them (lock control SERVER):    *)
(* table->locked, which all work areas of a program on one table share,    *)
(* area->isLocked and the list area->recordLocked of each work area, and   *)
(* record->isLocked of the record in memory; and the context of the lock   *)
(* server they are copies of, LockTable.                                   *)
(*                                                                         *)
(* A program is single-threaded and waits for the answer of each command,  *)
(* so an action is one call of the RDD with all its commands: no other     *)
(* call of the program comes between them, and the driver decides nothing  *)
(* from what another program may change between two of its commands.       *)
(*                                                                         *)
(* Of the record in memory (buffer) the model keeps its number, whether it *)
(* is changed or appended and not yet written, and its lock flag.  The     *)
(* next read of a buffer that is not valid clears the flag, so an action   *)
(* that leaves the buffer invalid clears it at once.  The rows of the      *)
(* database are not modelled: a movement may end on any record or after    *)
(* the last, an insertion may get any number or fail.                      *)
(***************************************************************************)
EXTENDS Integers, FiniteSets

CONSTANTS
    Area,            \* work areas, all on one table of the database
    Connection,      \* connections, each a client of the lock server
    Program,         \* programs, each with one SDB_TABLE for the table
    connectionOf,    \* area->connection
    programOf,       \* the program a connection belongs to
    MaxRecno,        \* bound on the record numbers
    InsertImmediate, \* the driver inserts a record when it is appended
    UsesLockContext, \* the programs call SDB_LOCKCONTEXT
    NoClient, KeepDuplicates

ASSUME AreaAssumption ==
    /\ connectionOf \in [Area -> Connection]
    /\ programOf \in [Connection -> Program]
    /\ MaxRecno \in Nat \ {0}
    /\ InsertImmediate \in BOOLEAN
    /\ UsesLockContext \in BOOLEAN
    /\ KeepDuplicates \in BOOLEAN
    /\ NoClient \notin Connection

(* 0 is the number of a record whose insertion failed.                     *)
Recno == 0 .. MaxRecno

Server == INSTANCE LockTable WITH Client <- Connection

VARIABLES
    server,        \* the context of the table at the lock server
    tableLocked,   \* table->locked
    inUse,         \* work areas that are open
    ctxId,         \* area->lockServerCtxId is not 0
    isShared,      \* area->isShared
    isLocked,      \* area->isLocked
    recordLocked,  \* area->recordLocked
    buffer,        \* area->record and the area's flags about it
    inTransaction  \* connection->transaction

openVars == <<inUse, ctxId, isShared>>
vars == <<server, tableLocked, openVars, isLocked, recordLocked, buffer, inTransaction>>

Conn(a) == connectionOf[a]
Prog(a) == programOf[Conn(a)]
AreasOf(c) == {a \in Area : inUse[a] /\ Conn(a) = c}

-----------------------------------------------------------------------------
(* The record in memory.  An outcome is what a flush or an insertion may   *)
(* lead to: whether it is done, and the buffer.                            *)

Row(r) == [recno |-> r, eof |-> FALSE, isHot |-> FALSE, isAppend |-> FALSE, isLocked |-> FALSE]
Numbers == 1 .. MaxRecno
Buffers == [recno: Recno, eof: BOOLEAN, isHot: BOOLEAN, isAppend: BOOLEAN, isLocked: BOOLEAN]
Outcome(b) == [done |-> TRUE, buffer |-> b]

(* Where a movement may end: on a record, or after the last on a blank one *)
(* with the next number (sdb_rdd_blankRecord).                             *)
Blanks == {[Row(r) EXCEPT !.eof = TRUE] : r \in Numbers}
Positions == {Row(r) : r \in Numbers} \cup Blanks

(* A record that was not read again is read when it is needed, unlocked.   *)
Unread(b) == [b EXCEPT !.isLocked = FALSE, !.eof = FALSE]

CountingOn(b) == {Outcome([b EXCEPT !.recno = @ + 1, !.isAppend = FALSE])}

(* sdb_api_insertRecord: a new number, or a failure that leaves none.      *)
Insertions(b) ==
    {Outcome([b EXCEPT !.recno = r, !.isAppend = FALSE]) : r \in Numbers}
    \cup {[done |-> FALSE, buffer |-> [b EXCEPT !.recno = 0]]}

(* sdb_rdd_flushRecord and goCold: in a transaction a flush that is not    *)
(* forced writes nothing.                                                  *)
Writes(b) ==
    {[o EXCEPT !.buffer.isHot = ~o.done] :
        o \in IF b.isAppend THEN Insertions(b) ELSE {Outcome(b), [done |-> FALSE, buffer |-> b]}}
Flushes(a, b, bForce) ==
    IF b.isHot /\ (bForce \/ ~inTransaction[Conn(a)]) THEN Writes(b) ELSE {Outcome(b)}

(* SELF_RECID inserts an appended record to learn its number.              *)
Numbered(b) == IF b.isAppend /\ ~InsertImmediate THEN Insertions(b) ELSE {Outcome(b)}

Becomes(a, b) == buffer' = [buffer EXCEPT ![a] = b]

-----------------------------------------------------------------------------
(* The commands to the server.  The driver names the context by its id.    *)

SetTableLocked(a, value) == tableLocked' = [tableLocked EXCEPT ![Prog(a)] = value]

WhenTableLocked(c, R) ==
    LET held == {r \in R : Server!CanUnlockRec(server, c, r)}
    IN  IF tableLocked[programOf[c]] THEN Server!Released(server, c, held) ELSE server

(* tableUnlockRecord for the records R: nothing is sent when the table is  *)
(* locked.                                                                 *)
AfterUnlockRecords(c, R) ==
    LET held == {r \in R : Server!CanUnlockRec(server, c, r)}
    IN  IF tableLocked[programOf[c]] \/ held = {} THEN server ELSE Server!Released(server, c, held)

(* lockAreaTable(SHARED) of an area that is open shared.                   *)
AfterUnlockAll(t, c) == IF Server!HasOpen(t, c) THEN Server!UnlockAll(t, c) ELSE t

RecordsOnly(a, R) == AfterUnlockRecords(Conn(a), R)

(* rdd_unlock, after the flush: the records R, and the file.               *)
AfterUnlock(a, R) ==
    LET t == AfterUnlockRecords(Conn(a), R)
    IN  IF isLocked[a] THEN AfterUnlockAll(t, Conn(a)) ELSE t

(* closeTable of unlockAreaTable.                                          *)
AfterClose(t, a) ==
    IF ctxId[a] /\ Server!HasOpen(t, Conn(a)) THEN Server!Close(t, Conn(a)) ELSE t

-----------------------------------------------------------------------------
Init ==
    /\ server = Server!EmptyTable
    /\ tableLocked = [p \in Program |-> FALSE]
    /\ inUse = [a \in Area |-> FALSE]
    /\ ctxId = [a \in Area |-> FALSE]
    /\ isShared = [a \in Area |-> FALSE]
    /\ isLocked = [a \in Area |-> FALSE]
    /\ recordLocked = [a \in Area |-> {}]
    /\ buffer = [a \in Area |-> Row(0)]
    /\ inTransaction = [c \in Connection |-> FALSE]

(* rdd_open.  Harbour closes an area that could not be opened, which       *)
(* clears table->locked.                                                   *)
Open(a, shared) ==
    /\ ~inUse[a]
    /\ IF IF shared THEN Server!CanOpenShared(server) ELSE Server!CanOpenExclusive(server)
       THEN /\ server' = IF shared THEN Server!OpenShared(server, Conn(a))
                         ELSE Server!OpenExclusive(server, Conn(a))
            /\ inUse' = [inUse EXCEPT ![a] = TRUE]
            /\ ctxId' = [ctxId EXCEPT ![a] = TRUE]
            /\ isShared' = [isShared EXCEPT ![a] = shared]
            /\ \E p \in Positions : Becomes(a, p)
            /\ tableLocked' = IF shared THEN tableLocked
                              ELSE [tableLocked EXCEPT ![Prog(a)] = TRUE]
       ELSE /\ SetTableLocked(a, FALSE)
            /\ UNCHANGED <<server, openVars, buffer>>
    /\ UNCHANGED <<isLocked, recordLocked, inTransaction>>

(* rdd_close: an area whose record cannot be written stays open.           *)
Close(a) ==
    /\ inUse[a]
    /\ \E o \in Flushes(a, buffer[a], TRUE) :
          /\ IF o.done
             THEN /\ server' = AfterClose(IF isShared[a] THEN AfterUnlock(a, recordLocked[a])
                                          ELSE server, a)
                  /\ SetTableLocked(a, FALSE)
                  /\ inUse' = [inUse EXCEPT ![a] = FALSE]
                  /\ ctxId' = [ctxId EXCEPT ![a] = FALSE]
                  /\ isShared' = [isShared EXCEPT ![a] = FALSE]
                  /\ isLocked' = [isLocked EXCEPT ![a] = FALSE]
                  /\ recordLocked' = [recordLocked EXCEPT ![a] = {}]
                  /\ Becomes(a, Row(0))
             ELSE /\ Becomes(a, o.buffer)
                  /\ UNCHANGED <<server, tableLocked, openVars, isLocked, recordLocked>>
    /\ UNCHANGED inTransaction

-----------------------------------------------------------------------------
(* Unlock.                                                                 *)

KeepingFlag(a, R) ==
    /\ server' = AfterUnlock(a, R)
    /\ recordLocked' = [recordLocked EXCEPT ![a] = @ \ R]
    /\ IF isLocked[a] THEN SetTableLocked(a, FALSE) ELSE UNCHANGED tableLocked
    /\ UNCHANGED isLocked

KeepingTable(a, R) ==
    /\ server' = AfterUnlock(a, R)
    /\ recordLocked' = [recordLocked EXCEPT ![a] = @ \ R]
    /\ isLocked' = [isLocked EXCEPT ![a] = FALSE]
    /\ UNCHANGED tableLocked

(* The calls to the server, the list and the two flags of rdd_unlock.      *)
Unlocked(a, R) ==
    /\ server' = AfterUnlock(a, R)
    /\ recordLocked' = [recordLocked EXCEPT ![a] = @ \ R]
    /\ IF isLocked[a] THEN SetTableLocked(a, FALSE) ELSE UNCHANGED tableLocked
    /\ isLocked' = [isLocked EXCEPT ![a] = FALSE]

(* rdd_unlock of everything: a write that fails does not keep the locks.   *)
UnlockAll(a) ==
    /\ inUse[a] /\ isShared[a]
    /\ recordLocked[a] # {} \/ isLocked[a]
    /\ \E o \in Flushes(a, buffer[a], FALSE) : Becomes(a, o.buffer)
    /\ Unlocked(a, recordLocked[a])
    /\ UNCHANGED <<openVars, inTransaction>>

(* rdd_unlock of one record: a write that fails keeps the record lock.     *)
UnlockRecord(a, r) ==
    /\ inUse[a] /\ isShared[a]
    /\ r \in recordLocked[a] \/ isLocked[a]
    /\ \E o \in Flushes(a, buffer[a], FALSE) :
          /\ Becomes(a, o.buffer)
          /\ Unlocked(a, IF o.done THEN {r} \cap recordLocked[a] ELSE {})
    /\ UNCHANGED <<openVars, inTransaction>>

-----------------------------------------------------------------------------
(* Lock.                                                                   *)

(* sdb_rdd_lockFile: the record locks go first, and the server is asked    *)
(* only when the table is not locked yet.                                  *)
FLock(a) ==
    /\ inUse[a] /\ isShared[a] /\ ~isLocked[a]
    /\ recordLocked' = [recordLocked EXCEPT ![a] = {}]
    /\ \E o \in Flushes(a, buffer[a], FALSE) :
          LET t == AfterUnlockRecords(Conn(a), recordLocked[a])
              granted == Server!CanLockFile(t, Conn(a))
          IN  /\ Becomes(a, o.buffer)
              /\ \/ /\ ~o.done \/ (~tableLocked[Prog(a)] /\ ~granted)
                    /\ server' = t
                    /\ UNCHANGED <<tableLocked, isLocked>>
                 \/ /\ o.done /\ tableLocked[Prog(a)]
                    /\ server' = t
                    /\ isLocked' = [isLocked EXCEPT ![a] = TRUE]
                    /\ UNCHANGED tableLocked
                 \/ /\ o.done /\ ~tableLocked[Prog(a)] /\ granted
                    /\ server' = Server!LockFile(t, Conn(a))
                    /\ isLocked' = [isLocked EXCEPT ![a] = TRUE]
                    /\ SetTableLocked(a, TRUE)
    /\ UNCHANGED <<openVars, inTransaction>>

(* rawLock(REC_LOCK), with b, t and listed as the calls before left them.  *)
(* The current record is not asked for when record->isLocked is set, nor   *)
(* after the last record.  The server's lock is followed by a SELECT FOR   *)
(* UPDATE, and stays when this one fails.                                  *)
RawLock(a, r, b, t, listed) ==
    LET current == r = b.recno
        known == current /\ (b.isLocked \/ b.eof)
        granted == Server!CanLockRec(t, Conn(a), r)
    IN  \/ /\ known
           /\ server' = t
           /\ recordLocked' = [recordLocked EXCEPT ![a] = listed \cup {r}]
           /\ Becomes(a, b)
        \/ /\ ~known /\ granted
           /\ server' = Server!LockRec(t, Conn(a), r)
           /\ \E selected \in BOOLEAN :
                 /\ recordLocked' = [recordLocked EXCEPT ![a] =
                                        IF selected THEN listed \cup {r} ELSE listed]
                 /\ Becomes(a, [b EXCEPT !.isLocked = IF current THEN selected ELSE @])
        \/ /\ ~known /\ ~granted
           /\ server' = t
           /\ recordLocked' = [recordLocked EXCEPT ![a] = listed]
           /\ Becomes(a, b)

(* sdb_rdd_lockRecord, exclusive: the current record instead of all that   *)
(* are locked.  A changed record is taken for locked.                      *)
RLock(a) ==
    /\ inUse[a] /\ isShared[a] /\ ~isLocked[a]
    /\ \E i \in Numbered(buffer[a]) :
          LET r == i.buffer.recno
              t == AfterUnlockRecords(Conn(a), recordLocked[a])
          IN  \E o \in IF recordLocked[a] = {} THEN {i} ELSE Flushes(a, i.buffer, FALSE) :
                \/ /\ o.buffer.isHot
                   /\ server' = t
                   /\ recordLocked' = [recordLocked EXCEPT ![a] = {r}]
                   /\ Becomes(a, [o.buffer EXCEPT !.isLocked = TRUE])
                \/ /\ ~o.buffer.isHot
                   /\ RawLock(a, r, o.buffer, t, {})
    /\ UNCHANGED <<tableLocked, openVars, isLocked, inTransaction>>

(* sdb_rdd_lockRecord, multiple: the record r in addition to those locked. *)
RLockMore(a, r) ==
    /\ inUse[a] /\ isShared[a] /\ ~isLocked[a]
    /\ \E o \in Numbered(buffer[a]) :
          LET changed == o.buffer.isHot /\ r = o.buffer.recno
          IN  \/ /\ r \in recordLocked[a]
                 /\ Becomes(a, o.buffer)
                 /\ UNCHANGED <<server, recordLocked>>
              \/ /\ r \notin recordLocked[a] /\ changed
                 /\ Becomes(a, [o.buffer EXCEPT !.isLocked = TRUE])
                 /\ UNCHANGED <<server, recordLocked>>
              \/ /\ r \notin recordLocked[a] /\ ~changed
                 /\ RawLock(a, r, o.buffer, server, recordLocked[a])
    /\ UNCHANGED <<tableLocked, openVars, isLocked, inTransaction>>

(* SDB_GOTO with a lock: moves to a record it locks, and lists nothing.    *)
(* The buffer of a record that was not found is the blank one; where the   *)
(* lock or the SELECT fails the old record is read again without its lock. *)
GoToLock(a, r) ==
    LET granted == ctxId[a] /\ Server!CanLockRec(server, Conn(a), r)
    IN  /\ inUse[a]
        /\ \E o \in Flushes(a, buffer[a], TRUE) :
              \/ /\ ~o.done
                 /\ Becomes(a, o.buffer)
                 /\ UNCHANGED server
              \/ /\ o.done /\ ~granted
                 /\ Becomes(a, Unread(o.buffer))
                 /\ UNCHANGED server
              \/ /\ o.done /\ granted
                 /\ server' = Server!LockRec(server, Conn(a), r)
                 /\ \E b \in {Unread(o.buffer), [Row(r) EXCEPT !.isLocked = TRUE]} \cup Blanks :
                       Becomes(a, b)
        /\ UNCHANGED <<tableLocked, openVars, isLocked, recordLocked, inTransaction>>

-----------------------------------------------------------------------------
(* Records.                                                                *)

(* goTop, goBottom, goTo, skip, seek.  A query that fails leaves the old   *)
(* record to be read again, a SKIP before the first record leaves it as it *)
(* is, with its lock flag.                                                 *)
Move(a) ==
    /\ inUse[a]
    /\ \E o \in Flushes(a, buffer[a], TRUE) :
          \E b \in {o.buffer} \cup IF o.done THEN {Unread(o.buffer)} \cup Positions ELSE {} :
             Becomes(a, b)
    /\ UNCHANGED <<server, tableLocked, openVars, isLocked, recordLocked, inTransaction>>

(* SKIP 0 reads the record again, without its lock.                        *)
Refresh(a) ==
    /\ inUse[a] /\ ~buffer[a].eof /\ ~buffer[a].isAppend
    /\ Becomes(a, [buffer[a] EXCEPT !.isLocked = FALSE])
    /\ UNCHANGED <<server, tableLocked, openVars, isLocked, recordLocked, inTransaction>>

(* putValue, deleteRec and recall of a record that was not changed yet:    *)
(* goHot.                                                                  *)
GoHot(a) ==
    /\ inUse[a] /\ ~buffer[a].eof /\ ~buffer[a].isHot
    /\ ~isShared[a] \/ isLocked[a] \/ buffer[a].isLocked
    /\ Becomes(a, [buffer[a] EXCEPT !.isHot = TRUE])
    /\ UNCHANGED <<server, tableLocked, openVars, isLocked, recordLocked, inTransaction>>

(* rdd_append: the appended record counts as locked.                       *)
Append(a, bUnlockAll) ==
    LET unlocks == bUnlockAll /\ isShared[a]
        New(r) == [recno |-> r, eof |-> FALSE, isHot |-> TRUE, isAppend |-> TRUE, isLocked |-> TRUE]
    IN  /\ inUse[a]
        /\ \E o \in Flushes(a, buffer[a], TRUE) :
              \/ /\ ~o.done
                 /\ Becomes(a, o.buffer)
                 /\ UNCHANGED <<server, recordLocked>>
              \/ /\ o.done
                 /\ \E r \in Numbers :
                       \E n \in IF InsertImmediate THEN Flushes(a, New(r), TRUE) ELSE {Outcome(New(r))} :
                          Becomes(a, n.buffer)
                 /\ server' = IF unlocks THEN AfterUnlockRecords(Conn(a), recordLocked[a]) ELSE server
                 /\ recordLocked' = [recordLocked EXCEPT ![a] = IF unlocks THEN {} ELSE @]
        /\ UNCHANGED <<tableLocked, openVars, isLocked, inTransaction>>

(* rdd_flush.                                                              *)
Flush(a) ==
    /\ inUse[a] /\ buffer[a].isHot
    /\ \E o \in Flushes(a, buffer[a], TRUE) : Becomes(a, o.buffer)
    /\ UNCHANGED <<server, tableLocked, openVars, isLocked, recordLocked, inTransaction>>

-----------------------------------------------------------------------------
(* Transactions.                                                           *)

(* sdb_beginTransaction flushes every area of the connection first, and    *)
(* gives up at the first that fails, having done what Flush does.          *)
Begin(c) ==
    /\ ~inTransaction[c]
    /\ \E b \in [AreasOf(c) -> Buffers] :
          /\ \A a \in AreasOf(c) : Outcome(b[a]) \in Flushes(a, buffer[a], TRUE)
          /\ buffer' = [a \in Area |-> IF a \in AreasOf(c) THEN b[a] ELSE buffer[a]]
    /\ inTransaction' = [inTransaction EXCEPT ![c] = TRUE]
    /\ UNCHANGED <<server, tableLocked, openVars, isLocked, recordLocked>>

(* sdb_commitTransaction unlocks every area of the connection first, whose *)
(* flushes write nothing yet.                                              *)
Commit(c) ==
    LET shared == {a \in AreasOf(c) : isShared[a]}
        file == \E a \in shared : isLocked[a]
        t == AfterUnlockRecords(c, UNION {recordLocked[a] : a \in shared})
    IN  /\ inTransaction[c]
        /\ server' = IF file THEN AfterUnlockAll(t, c) ELSE t
        /\ IF file THEN tableLocked' = [tableLocked EXCEPT ![programOf[c]] = FALSE]
                   ELSE UNCHANGED tableLocked
        /\ isLocked' = [a \in Area |-> isLocked[a] /\ a \notin shared]
        /\ recordLocked' = [a \in Area |-> IF a \in shared THEN {} ELSE recordLocked[a]]
        /\ inTransaction' = [inTransaction EXCEPT ![c] = FALSE]
        /\ UNCHANGED <<openVars, buffer>>

(* sdb_rollbackTransaction does not look at the areas.                     *)
Rollback(c) ==
    /\ inTransaction[c]
    /\ inTransaction' = [inTransaction EXCEPT ![c] = FALSE]
    /\ UNCHANGED <<server, tableLocked, openVars, isLocked, recordLocked, buffer>>

-----------------------------------------------------------------------------
(* SDB_LOCKCONTEXT.                                                        *)

LockContextExclusive(a) ==
    /\ inUse[a]
    /\ \/ /\ ctxId[a]
          /\ isShared' = [isShared EXCEPT ![a] = @ /\ ~tableLocked[Prog(a)]]
          /\ UNCHANGED <<server, tableLocked, ctxId>>
       \/ /\ ~ctxId[a] /\ Server!CanOpenExclusive(server)
          /\ server' = Server!OpenExclusive(server, Conn(a))
          /\ ctxId' = [ctxId EXCEPT ![a] = TRUE]
          /\ isShared' = [isShared EXCEPT ![a] = FALSE]
          /\ SetTableLocked(a, TRUE)
       \/ /\ ~ctxId[a] /\ ~Server!CanOpenExclusive(server)
          /\ SetTableLocked(a, FALSE)
          /\ UNCHANGED <<server, ctxId, isShared>>

LockContextShared(a) ==
    /\ inUse[a]
    /\ \/ /\ ctxId[a] /\ isShared[a]
          /\ server' = AfterUnlockAll(server, Conn(a))
          /\ SetTableLocked(a, FALSE)
          /\ UNCHANGED <<ctxId, isShared>>
       \/ /\ ctxId[a] /\ ~isShared[a]
          /\ isShared' = [isShared EXCEPT ![a] = TRUE]
          /\ UNCHANGED <<server, tableLocked, ctxId>>
       \/ /\ ~ctxId[a] /\ Server!CanOpenShared(server)
          /\ server' = Server!OpenShared(server, Conn(a))
          /\ ctxId' = [ctxId EXCEPT ![a] = TRUE]
          /\ isShared' = [isShared EXCEPT ![a] = TRUE]
          /\ UNCHANGED tableLocked

StayingShared(a) ==
    /\ inUse[a]
    /\ server' = AfterClose(server, a)
    /\ ctxId' = [ctxId EXCEPT ![a] = FALSE]
    /\ SetTableLocked(a, FALSE)
    /\ UNCHANGED isShared

UnlockContext(a) ==
    /\ inUse[a]
    /\ server' = AfterClose(server, a)
    /\ ctxId' = [ctxId EXCEPT ![a] = FALSE]
    /\ isShared' = [isShared EXCEPT ![a] = FALSE]
    /\ SetTableLocked(a, FALSE)

LockContext(a) ==
    /\ UsesLockContext
    /\ LockContextExclusive(a) \/ LockContextShared(a) \/ UnlockContext(a)
    /\ UNCHANGED <<inUse, isLocked, recordLocked, buffer, inTransaction>>

-----------------------------------------------------------------------------
Step(a) ==
    \/ \E shared \in BOOLEAN : Open(a, shared)
    \/ Close(a)
    \/ UnlockAll(a)
    \/ \E r \in Recno : UnlockRecord(a, r)
    \/ FLock(a)
    \/ RLock(a)
    \/ \E r \in Numbers : RLockMore(a, r) \/ GoToLock(a, r)
    \/ Move(a)
    \/ Refresh(a)
    \/ GoHot(a)
    \/ \E bUnlockAll \in BOOLEAN : Append(a, bUnlockAll)
    \/ Flush(a)
    \/ LockContext(a)

Next ==
    \/ \E a \in Area : Step(a)
    \/ \E c \in Connection : Begin(c) \/ Commit(c) \/ Rollback(c)

Spec == Init /\ [][Next]_vars

-----------------------------------------------------------------------------
(* Properties.                                                             *)

TypeOK ==
    /\ server \in Server!Table
    /\ tableLocked \in [Program -> BOOLEAN]
    /\ inUse \in [Area -> BOOLEAN]
    /\ ctxId \in [Area -> BOOLEAN]
    /\ isShared \in [Area -> BOOLEAN]
    /\ isLocked \in [Area -> BOOLEAN]
    /\ recordLocked \in [Area -> SUBSET Recno]
    /\ buffer \in [Area -> Buffers]
    /\ inTransaction \in [Connection -> BOOLEAN]

HasFile(c) == Server!OwnsFile(server, c)
HasRecord(c, r) == server.holder[r] = c

(* An area that says it has the file lock has it at the server: two calls  *)
(* of other areas, or of SDB_LOCKCONTEXT, must not have taken it away.     *)
FileLockIsHeld == \A a \in Area : isLocked[a] => HasFile(Conn(a))

(* table->locked tells exactly whether the program's connections own the   *)
(* file lock or the exclusive open, after every order of FLOCK, UNLOCK,    *)
(* opening, closing and commit: lockAreaTable and tableUnlockRecord ask    *)
(* the server or not by this flag alone.                                   *)
TableFlagIsExact ==
    \A p \in Program : tableLocked[p] <=>
        \E c \in Connection : programOf[c] = p /\ Server!Shut(server) /\ server.owner = c

(* No two programs have the file lock in their own opinion, and none has a *)
(* record at the server that another one's file lock is to protect.        *)
FileLockExcludes ==
    \A a, b \in Area : isLocked[a] /\ Prog(a) # Prog(b) =>
        /\ ~isLocked[b]
        /\ \A r \in Recno : ~HasRecord(Conn(b), r)

(* A connection none of whose areas has a context open has nothing at the  *)
(* server, whatever it had locked, listed or not, before its areas were    *)
(* closed.                                                                 *)
NoContextHoldsNothing ==
    \A c \in Connection : (\A a \in AreasOf(c) : ~ctxId[a]) =>
        /\ ~HasFile(c)
        /\ ~Server!HasOpen(server, c)
        /\ \A r \in Recno : ~HasRecord(c, r)

(* A table that an area has open exclusively is open in no other area, of  *)
(* the same program either.                                                *)
ExclusiveIsAlone == \A a, b \in Area : inUse[a] /\ ~isShared[a] /\ inUse[b] => a = b

(* An area that is shared has a context open at the server: rdd_unlock     *)
(* calls lockAreaTable(SHARED) of it, which would open the table again.    *)
SharedHasContext == \A a \in Area : isShared[a] => ctxId[a] /\ Server!HasOpen(server, Conn(a))

(* UNLOCK gives up at the server all that the area has listed, and the     *)
(* file: table->locked never holds back a command that is needed.          *)
UnlockGivesUp ==
    [][\A a \in Area : UnlockAll(a) =>
          /\ ~Server!OwnsFile(server', Conn(a))
          /\ \A r \in recordLocked[a] : server'.holder[r] # Conn(a)]_vars

(* A record that RLOCK grants, neither changed nor after the last one, is  *)
(* locked at the server ("In other scenarios, rawLock doesn't executes     *)
(* LOCK because isLocked flag").                                           *)
GrantedIsHeld ==
    [][\A a \in Area : RLock(a) /\ ~buffer[a].isHot /\ ~buffer[a].eof =>
          \A r \in recordLocked'[a] : server'.holder[r] = Conn(a)]_vars
=============================================================================
