-------------------------- MODULE AreaLocksProofs --------------------------
(***************************************************************************)
(* Proofs about AreaLocks.  The type invariant holds for any work areas.   *)
(* That a shared area is open at the server holds for any finite number of *)
(* them, if the hash table of the server keeps an entry for each opening   *)
(* of a context, or a connection has one area on the table.                *)
(* What the driver believes about the file lock agrees with the server as  *)
(* long as a program has one work area on a table and does not call        *)
(* SDB_LOCKCONTEXT.  Neither assumption can be left out: a second area of  *)
(* the program takes the file lock of the first for its own and gives it   *)
(* up with an UNLOCK or a close, and SDB_LOCKCONTEXT opens, closes and     *)
(* unlocks the table without a look at the locks of the area.              *)
(***************************************************************************)
EXTENDS AreaLocks, FiniteSetTheorems, TLAPS

(* Types.                                                                  *)

Outcomes == [done: BOOLEAN, buffer: Buffers]

(* What a flush, an insertion or a movement leaves is a buffer.            *)
LEMMA RowType == ASSUME NEW r \in Recno PROVE Row(r) \in Buffers
BY DEF Row, Buffers

(* Record numbers, and the number of a record whose insertion failed.      *)
LEMMA NumberType == Numbers \subseteq Recno /\ 0 \in Recno
BY AreaAssumption DEF Numbers, Recno

(* What is done has an outcome.                                            *)
LEMMA OutcomeType == ASSUME NEW b \in Buffers PROVE Outcome(b) \in Outcomes
BY DEF Outcomes, Outcome

(* The blank record after the last one is a buffer.                        *)
LEMMA BlankType == Blanks \subseteq Buffers
<1> SUFFICES ASSUME NEW r \in Numbers PROVE [Row(r) EXCEPT !.eof = TRUE] \in Buffers
    BY DEF Blanks
<1>1. Row(r) \in Buffers
    BY NumberType, RowType
<1> QED
    BY <1>1 DEF Buffers

(* So is all a movement may end on.                                        *)
LEMMA PositionType == Positions \subseteq Buffers
BY NumberType, RowType, BlankType DEF Positions

(* And a record that is to be read again.                                  *)
LEMMA UnreadType == ASSUME NEW b \in Buffers PROVE Unread(b) \in Buffers
BY DEF Unread, Buffers

(* An insertion ends in an outcome, with a number or without one.          *)
LEMMA InsertionType == ASSUME NEW b \in Buffers PROVE Insertions(b) \subseteq Outcomes
<1>1. \A r \in Recno : Outcome([b EXCEPT !.recno = r, !.isAppend = FALSE]) \in Outcomes
    <2> SUFFICES ASSUME NEW r \in Recno
                 PROVE  [b EXCEPT !.recno = r, !.isAppend = FALSE] \in Buffers
        BY OutcomeType
    <2> QED
        BY DEF Buffers
<1>2. [done |-> FALSE, buffer |-> [b EXCEPT !.recno = 0]] \in Outcomes
    <2>1. [b EXCEPT !.recno = 0] \in Buffers
        BY NumberType DEF Buffers
    <2> QED
        BY <2>1 DEF Outcomes
<1> QED
    BY <1>1, <1>2, NumberType DEF Insertions

(* Likewise the insertion that SELF_RECID makes.                           *)
LEMMA NumberedType == ASSUME NEW b \in Buffers PROVE Numbered(b) \subseteq Outcomes
BY OutcomeType, InsertionType DEF Numbered

(* Likewise a write.                                                       *)
LEMMA WriteType == ASSUME NEW b \in Buffers PROVE Writes(b) \subseteq Outcomes
<1>1. ASSUME NEW o \in Outcomes PROVE [o EXCEPT !.buffer.isHot = ~o.done] \in Outcomes
    <2>1. [o.buffer EXCEPT !.isHot = ~o.done] \in Buffers
        BY DEF Buffers, Outcomes
    <2>2. [o EXCEPT !.buffer = [o.buffer EXCEPT !.isHot = ~o.done]] \in Outcomes
        BY <2>1 DEF Outcomes
    <2> QED
        BY <2>2 DEF Outcomes
<1>2. {Outcome(b), [done |-> FALSE, buffer |-> b]} \subseteq Outcomes
    BY OutcomeType DEF Outcomes
<1> QED
    BY <1>1, <1>2, InsertionType DEF Writes

(* Likewise a flush, which writes or does nothing.                         *)
LEMMA FlushType ==
    ASSUME NEW a, NEW b \in Buffers, NEW bForce
    PROVE  Flushes(a, b, bForce) \subseteq Outcomes
BY OutcomeType, WriteType DEF Flushes

(* The commands of the server keep the types of its table.                 *)
LEMMA CommandTypes ==
    ASSUME NEW t \in Server!Table, NEW c \in Connection
    PROVE  /\ Server!OpenShared(t, c) \in Server!Table
           /\ Server!OpenExclusive(t, c) \in Server!Table
           /\ Server!HasOpen(t, c) => Server!Close(t, c) \in Server!Table
           /\ Server!LockFile(t, c) \in Server!Table
           /\ \A R : Server!Released(t, c, R) \in Server!Table
           /\ \A r : Server!LockRec(t, c, r) \in Server!Table
<1>1. Server!Registered(t, c) \in [Connection -> Nat]
    BY DEF Server!Registered, Server!Table
<1>2. \A R : Server!Without(t, c, R) \in [Recno -> Connection \cup {NoClient}]
    BY DEF Server!Without, Server!Table
<1>3. Server!OpenShared(t, c) \in Server!Table
    BY <1>1 DEF Server!OpenShared, Server!Table
<1>4. Server!OpenExclusive(t, c) \in Server!Table
    BY <1>1 DEF Server!OpenExclusive, Server!Table
<1>5. Server!HasOpen(t, c) => Server!Close(t, c) \in Server!Table
    <2>1. Server!HasOpen(t, c) => [t.opens EXCEPT ![c] = @ - 1] \in [Connection -> Nat]
        BY DEF Server!HasOpen, Server!Table
    <2> QED
        BY <1>2, <2>1 DEF Server!Close, Server!Table
<1>6. Server!LockFile(t, c) \in Server!Table
    BY DEF Server!LockFile, Server!Table
<1>7. \A R : Server!Released(t, c, R) \in Server!Table
    BY <1>2 DEF Server!Released, Server!OwnsFile, Server!Table
<1>8. \A r : Server!LockRec(t, c, r) \in Server!Table
    BY DEF Server!LockRec, Server!Table
<1> QED
    BY <1>3, <1>4, <1>5, <1>6, <1>7, <1>8

(* So do the sequences of commands that the driver sends.                  *)
LEMMA AfterTypes ==
    ASSUME NEW a \in Area, server \in Server!Table
    PROVE  /\ \A R : AfterUnlockRecords(Conn(a), R) \in Server!Table
           /\ \A R : AfterUnlock(a, R) \in Server!Table
           /\ \A t \in Server!Table : AfterUnlockAll(t, Conn(a)) \in Server!Table
           /\ \A t \in Server!Table : AfterClose(t, a) \in Server!Table
<1>1. Conn(a) \in Connection
    BY AreaAssumption DEF Conn
<1>2. \A R : AfterUnlockRecords(Conn(a), R) \in Server!Table
    BY <1>1, CommandTypes DEF AfterUnlockRecords
<1>3. \A t \in Server!Table : AfterUnlockAll(t, Conn(a)) \in Server!Table
    BY <1>1, CommandTypes DEF AfterUnlockAll, Server!UnlockAll
<1>4. \A R : AfterUnlock(a, R) \in Server!Table
    BY <1>2, <1>3 DEF AfterUnlock
<1>5. \A t \in Server!Table : AfterClose(t, a) \in Server!Table
    BY <1>1, CommandTypes DEF AfterClose
<1> QED
    BY <1>2, <1>3, <1>4, <1>5

(* A call on a work area.                                                  *)
LEMMA StepTypes ==
    ASSUME TypeOK, NEW a \in Area, Step(a)
    PROVE  TypeOK'
<1> USE DEF TypeOK
<1>1. Conn(a) \in Connection /\ Prog(a) \in Program
    BY AreaAssumption DEF Conn, Prog
<1>2. buffer[a] \in Buffers /\ recordLocked[a] \subseteq Recno
    OBVIOUS
<1>3. \A bForce : Flushes(a, buffer[a], bForce) \subseteq Outcomes
    BY <1>2, FlushType
<1>4. /\ \A b \in Buffers : Becomes(a, b) => buffer' \in [Area -> Buffers]
      /\ \A o \in Outcomes : o.buffer \in Buffers
    BY DEF Becomes, Outcomes
<1>5. \A value \in BOOLEAN : SetTableLocked(a, value) => tableLocked' \in [Program -> BOOLEAN]
    BY DEF SetTableLocked
<1>6. ASSUME NEW shared \in BOOLEAN, Open(a, shared) PROVE TypeOK'
    <2>1. CASE IF shared THEN Server!CanOpenShared(server) ELSE Server!CanOpenExclusive(server)
        <3>0. server' \in {Server!OpenShared(server, Conn(a)), Server!OpenExclusive(server, Conn(a))}
            BY <1>6, <2>1 DEF Open
        <3>1. server' \in Server!Table
            BY <1>1, <3>0, CommandTypes
        <3>2. buffer' \in [Area -> Buffers]
            BY <1>4, <1>6, <2>1, PositionType DEF Open
        <3> QED
            BY <1>6, <2>1, <3>1, <3>2 DEF Open
    <2>2. CASE ~IF shared THEN Server!CanOpenShared(server) ELSE Server!CanOpenExclusive(server)
        BY <1>5, <1>6, <2>2 DEF Open, openVars
    <2> QED
        BY <2>1, <2>2
<1>7. CASE Close(a)
    <2>1. PICK o \in Flushes(a, buffer[a], TRUE) :
              IF o.done
              THEN /\ server' = AfterClose(IF isShared[a] THEN AfterUnlock(a, recordLocked[a])
                                           ELSE server, a)
                   /\ SetTableLocked(a, FALSE)
                   /\ inUse' = [inUse EXCEPT ![a] = FALSE]
                   /\ ctxId' = [ctxId EXCEPT ![a] = FALSE]
                   /\ isShared' = [isShared EXCEPT ![a] = FALSE]
                   /\ isLocked' = [isLocked EXCEPT ![a] = FALSE]
                   /\ recordLocked' = [recordLocked EXCEPT ![a] = {}]
                   /\ Becomes(a, Row(0))
              ELSE /\ Becomes(a, o.buffer)
                   /\ UNCHANGED <<server, tableLocked, openVars, isLocked, recordLocked>>
        BY <1>7 DEF Close
    <2>2. UNCHANGED inTransaction
        BY <1>7 DEF Close
    <2>3. CASE o.done
        <3>1. server' \in Server!Table
            BY <2>1, <2>3, AfterTypes
        <3>2. buffer' \in [Area -> Buffers]
            BY <1>4, <2>1, <2>3, NumberType, RowType
        <3> QED
            BY <1>5, <2>1, <2>2, <2>3, <3>1, <3>2
    <2>4. CASE ~o.done
        BY <1>3, <1>4, <2>1, <2>2, <2>4 DEF openVars
    <2> QED
        BY <2>3, <2>4
<1>8. ASSUME NEW R, Unlocked(a, R), UNCHANGED <<openVars, inTransaction>>,
             NEW o \in Outcomes, Becomes(a, o.buffer)
      PROVE  TypeOK'
    BY <1>4, <1>5, <1>8, AfterTypes DEF Unlocked, openVars
<1>9. CASE UnlockAll(a)
    BY <1>3, <1>8, <1>9 DEF UnlockAll
<1>10. ASSUME NEW r \in Recno, UnlockRecord(a, r) PROVE TypeOK'
    BY <1>3, <1>8, <1>10 DEF UnlockRecord
<1>11. CASE FLock(a)
    <2> DEFINE t == AfterUnlockRecords(Conn(a), recordLocked[a])
    <2>1. t \in Server!Table
        BY AfterTypes
    <2> HIDE DEF t
    <2>2. server' \in {t, Server!LockFile(t, Conn(a))}
        BY <1>11 DEF FLock, t
    <2>3. server' \in Server!Table
        BY <1>1, <2>1, <2>2, CommandTypes
    <2>4. tableLocked' \in [Program -> BOOLEAN] /\ isLocked' \in [Area -> BOOLEAN]
        BY <1>5, <1>11 DEF FLock
    <2>5. buffer' \in [Area -> Buffers]
        BY <1>3, <1>4, <1>11 DEF FLock
    <2> QED
        BY <1>11, <2>3, <2>4, <2>5 DEF FLock, openVars
<1>12. ASSUME NEW r \in Recno, NEW b \in Buffers, NEW t \in Server!Table,
              NEW listed \in SUBSET Recno, RawLock(a, r, b, t, listed),
              UNCHANGED <<tableLocked, openVars, isLocked, inTransaction>>
       PROVE  TypeOK'
    <2>1. server' \in {t, Server!LockRec(t, Conn(a), r)}
        BY <1>12 DEF RawLock
    <2>2. server' \in Server!Table
        BY <1>1, <2>1, CommandTypes
    <2>3. \A l \in BOOLEAN : [b EXCEPT !.isLocked = l] \in Buffers
        BY DEF Buffers
    <2>4. b.isLocked \in BOOLEAN
        BY DEF Buffers
    <2>5. buffer' \in [Area -> Buffers]
        <3>1. \/ Becomes(a, b)
              \/ \E selected \in BOOLEAN :
                    Becomes(a, [b EXCEPT !.isLocked = IF r = b.recno THEN selected ELSE b.isLocked])
            BY <1>12 DEF RawLock
        <3> QED
            BY <1>4, <2>3, <2>4, <3>1
    <2>6. recordLocked' \in [Area -> SUBSET Recno]
        <3>1. \E l \in {listed, listed \cup {r}} : recordLocked' = [recordLocked EXCEPT ![a] = l]
            BY <1>12 DEF RawLock
        <3>2. {listed, listed \cup {r}} \subseteq SUBSET Recno
            OBVIOUS
        <3> QED
            BY <3>1, <3>2
    <2> QED
        BY <1>12, <2>2, <2>5, <2>6 DEF openVars
<1>13. \A b \in Buffers : b.recno \in Recno /\ [b EXCEPT !.isLocked = TRUE] \in Buffers
    BY DEF Buffers
<1>14. Numbered(buffer[a]) \subseteq Outcomes
    BY <1>2, NumberedType
<1>15. CASE RLock(a)
    <2>1. PICK i \in Numbered(buffer[a]), o \in Outcomes :
              \/ /\ server' = AfterUnlockRecords(Conn(a), recordLocked[a])
                 /\ recordLocked' = [recordLocked EXCEPT ![a] = {i.buffer.recno}]
                 /\ Becomes(a, [o.buffer EXCEPT !.isLocked = TRUE])
              \/ RawLock(a, i.buffer.recno, o.buffer,
                         AfterUnlockRecords(Conn(a), recordLocked[a]), {})
        BY <1>4, <1>14, <1>15, FlushType DEF RLock
    <2>2. i.buffer.recno \in Recno /\ o.buffer \in Buffers
        BY <1>4, <1>13, <1>14
    <2>3. AfterUnlockRecords(Conn(a), recordLocked[a]) \in Server!Table
        BY AfterTypes
    <2>4. UNCHANGED <<tableLocked, openVars, isLocked, inTransaction>>
        BY <1>15 DEF RLock
    <2>5. CASE RawLock(a, i.buffer.recno, o.buffer,
                       AfterUnlockRecords(Conn(a), recordLocked[a]), {})
        BY <1>12, <2>2, <2>3, <2>4, <2>5
    <2>6. CASE /\ server' = AfterUnlockRecords(Conn(a), recordLocked[a])
               /\ recordLocked' = [recordLocked EXCEPT ![a] = {i.buffer.recno}]
               /\ Becomes(a, [o.buffer EXCEPT !.isLocked = TRUE])
        BY <1>4, <1>13, <2>2, <2>3, <2>4, <2>6 DEF openVars
    <2> QED
        BY <2>1, <2>5, <2>6
<1>16. ASSUME NEW r \in Numbers, RLockMore(a, r) PROVE TypeOK'
    <2>1. PICK o \in Numbered(buffer[a]) :
              \/ /\ Becomes(a, o.buffer) \/ Becomes(a, [o.buffer EXCEPT !.isLocked = TRUE])
                 /\ UNCHANGED <<server, recordLocked>>
              \/ RawLock(a, r, o.buffer, server, recordLocked[a])
        BY <1>16 DEF RLockMore
    <2>2. o.buffer \in Buffers /\ r \in Recno
        BY <1>4, <1>14, NumberType
    <2>3. UNCHANGED <<tableLocked, openVars, isLocked, inTransaction>>
        BY <1>16 DEF RLockMore
    <2>4. CASE RawLock(a, r, o.buffer, server, recordLocked[a])
        BY <1>2, <1>12, <2>2, <2>3, <2>4
    <2>5. CASE /\ Becomes(a, o.buffer) \/ Becomes(a, [o.buffer EXCEPT !.isLocked = TRUE])
               /\ UNCHANGED <<server, recordLocked>>
        BY <1>4, <1>13, <2>2, <2>3, <2>5 DEF openVars
    <2> QED
        BY <2>1, <2>4, <2>5
<1>17. ASSUME NEW b \in Buffers, Becomes(a, b), server' \in Server!Table,
              recordLocked' \in [Area -> SUBSET Recno],
              UNCHANGED <<tableLocked, openVars, isLocked, inTransaction>>
       PROVE  TypeOK'
    BY <1>4, <1>17 DEF openVars
<1>18. ASSUME NEW r \in Numbers, GoToLock(a, r) PROVE TypeOK'
    <2>1. server' \in {server, Server!LockRec(server, Conn(a), r)}
        BY <1>18 DEF GoToLock
    <2>2. server' \in Server!Table
        BY <1>1, <2>1, CommandTypes
    <2>3. [Row(r) EXCEPT !.isLocked = TRUE] \in Buffers
        BY <1>13, NumberType, RowType
    <2>4. \E b \in Buffers : Becomes(a, b)
        BY <1>3, <1>4, <1>18, <2>3, BlankType, UnreadType DEF GoToLock
    <2> QED
        BY <1>17, <1>18, <2>2, <2>4 DEF GoToLock
<1>19. CASE Move(a)
    <2>1. \E b \in Buffers : Becomes(a, b)
        BY <1>3, <1>4, <1>19, PositionType, UnreadType DEF Move
    <2> QED
        BY <1>17, <1>19, <2>1 DEF Move
<1>20. CASE Refresh(a)
    <2>1. [buffer[a] EXCEPT !.isLocked = FALSE] \in Buffers
        BY <1>2 DEF Buffers
    <2> QED
        BY <1>17, <1>20, <2>1 DEF Refresh
<1>21. CASE GoHot(a)
    <2>1. [buffer[a] EXCEPT !.isHot = TRUE] \in Buffers
        BY <1>2 DEF Buffers
    <2> QED
        BY <1>17, <1>21, <2>1 DEF GoHot
<1>22. ASSUME NEW bUnlockAll \in BOOLEAN, Append(a, bUnlockAll) PROVE TypeOK'
    <2> DEFINE New(r) == [recno |-> r, eof |-> FALSE, isHot |-> TRUE, isAppend |-> TRUE,
                          isLocked |-> TRUE]
    <2>1. \A r \in Numbers : New(r) \in Buffers
        BY NumberType DEF Buffers
    <2>2. \A r \in Numbers : Flushes(a, New(r), TRUE) \subseteq Outcomes /\ Outcome(New(r)) \in Outcomes
        BY <2>1, FlushType, OutcomeType
    <2>3. \E b \in Buffers : Becomes(a, b)
        <3>1. \/ \E o \in Flushes(a, buffer[a], TRUE) : Becomes(a, o.buffer)
              \/ \E r \in Numbers :
                    \E n \in IF InsertImmediate THEN Flushes(a, New(r), TRUE) ELSE {Outcome(New(r))} :
                       Becomes(a, n.buffer)
            BY <1>22 DEF Append
        <3> HIDE DEF New
        <3> QED
            BY <1>3, <1>4, <2>2, <3>1
    <2>4. server' \in {server, AfterUnlockRecords(Conn(a), recordLocked[a])}
        BY <1>22 DEF Append
    <2>5. server' \in Server!Table
        BY <2>4, AfterTypes
    <2>6. recordLocked' \in [Area -> SUBSET Recno]
        BY <1>22 DEF Append
    <2> QED
        BY <1>17, <1>22, <2>3, <2>5, <2>6 DEF Append
<1>23. CASE Flush(a)
    BY <1>3, <1>4, <1>17, <1>23 DEF Flush
<1>24. CASE LockContext(a)
    <2>0. server' \in {server, Server!OpenExclusive(server, Conn(a)), Server!OpenShared(server, Conn(a)),
                       AfterUnlockAll(server, Conn(a)), AfterClose(server, a)}
        BY <1>24 DEF LockContext, LockContextExclusive, LockContextShared, UnlockContext
    <2>1. server' \in Server!Table
        BY <1>1, <2>0, AfterTypes, CommandTypes
    <2>2. tableLocked' \in [Program -> BOOLEAN]
        BY <1>5, <1>24 DEF LockContext, LockContextExclusive, LockContextShared, UnlockContext
    <2>3. ctxId' \in [Area -> BOOLEAN] /\ isShared' \in [Area -> BOOLEAN]
        BY <1>1, <1>24 DEF LockContext, LockContextExclusive, LockContextShared, UnlockContext
    <2> QED
        BY <1>24, <2>1, <2>2, <2>3 DEF LockContext
<1> QED
    BY <1>6, <1>7, <1>9, <1>10, <1>11, <1>15, <1>16, <1>18, <1>19, <1>20, <1>21, <1>22, <1>23, <1>24
       DEF Step

(* The transactions of a connection.                                       *)
LEMMA TransactionTypes ==
    ASSUME TypeOK, NEW c \in Connection, Begin(c) \/ Commit(c) \/ Rollback(c)
    PROVE  TypeOK'
<1> USE DEF TypeOK
<1>1. AreasOf(c) \subseteq Area
    BY DEF AreasOf
<1>2. CASE Begin(c)
    BY <1>1, <1>2 DEF Begin, openVars
<1>3. CASE Commit(c)
    <2>1. \A R : AfterUnlockRecords(c, R) \in Server!Table
        BY CommandTypes DEF AfterUnlockRecords
    <2>2. \A t \in Server!Table : AfterUnlockAll(t, c) \in Server!Table
        BY CommandTypes DEF AfterUnlockAll, Server!UnlockAll
    <2>3. server' \in Server!Table
        BY <1>3, <2>1, <2>2 DEF Commit
    <2>4. programOf[c] \in Program
        BY AreaAssumption
    <2>5. tableLocked' \in [Program -> BOOLEAN]
        BY <1>3, <2>4 DEF Commit
    <2>6. isLocked' \in [Area -> BOOLEAN] /\ recordLocked' \in [Area -> SUBSET Recno]
        BY <1>3 DEF Commit
    <2> QED
        BY <1>3, <2>3, <2>5, <2>6 DEF Commit, openVars
<1>4. CASE Rollback(c)
    BY <1>4 DEF Rollback, openVars
<1> QED
    BY <1>2, <1>3, <1>4

(* The table at the server, the flags, the lists and the records in memory *)
(* keep their types, for any work areas and programs.                      *)
THEOREM AreaTypeCorrect == Spec => []TypeOK
<1>1. Init => TypeOK
    <2>1. Server!EmptyTable \in Server!Table
        BY DEF Server!EmptyTable, Server!Table
    <2>2. Row(0) \in Buffers
        BY NumberType, RowType
    <2> QED
        BY <2>1, <2>2 DEF Init, TypeOK
<1>2. TypeOK /\ [Next]_vars => TypeOK'
    <2> SUFFICES ASSUME TypeOK, [Next]_vars PROVE TypeOK'
        OBVIOUS
    <2>1. CASE UNCHANGED vars
        BY <2>1 DEF vars, openVars, TypeOK
    <2> QED
        BY <2>1, StepTypes, TransactionTypes DEF Next
<1> QED
    BY <1>1, <1>2, PTL DEF Spec

-----------------------------------------------------------------------------
(* The invariant behind the properties of the file lock.                   *)

OneAreaEach == \A a, b \in Area : Prog(a) = Prog(b) => a = b

(* The variables the file lock depends on have their types.                *)
LockTypes ==
    /\ server \in Server!Table
    /\ tableLocked \in [Program -> BOOLEAN]
    /\ inUse \in [Area -> BOOLEAN]
    /\ ctxId \in [Area -> BOOLEAN]
    /\ isShared \in [Area -> BOOLEAN]
    /\ isLocked \in [Area -> BOOLEAN]

(* What is locked is shared, what is shared is open, in a context.         *)
Modes ==
    \A a \in Area :
        /\ inUse[a] <=> ctxId[a]
        /\ isShared[a] => inUse[a]
        /\ isLocked[a] => isShared[a]

(* The server counts the areas that are open shared, and has one entry for *)
(* each that is open.                                                      *)
Shareds == {a \in Area : isShared[a]}
Counts ==
    /\ server.shared = Cardinality(Shareds)
    /\ \A a \in Area : server.opens[Conn(a)] = IF inUse[a] THEN 1 ELSE 0
    /\ \A c \in Connection : (\A a \in Area : Conn(a) # c) => server.opens[c] = 0

(* The owner at the server is the connection of the area that has the file *)
(* lock or the exclusive open.                                             *)
Exclusives == {a \in Area : inUse[a] /\ ~isShared[a]}
Owners ==
    /\ server.locked => \E a \in Area : isLocked[a] /\ server.owner = Conn(a)
    /\ server.exclusive => \E a \in Exclusives : server.owner = Conn(a)
    /\ \A a \in Area : isLocked[a] => server.locked /\ server.owner = Conn(a)
    /\ \A a \in Exclusives : server.exclusive /\ server.owner = Conn(a)
    /\ \A a \in Exclusives, b \in Area : inUse[b] => a = b

(* table->locked is set for exactly these areas.                           *)
Flags ==
    \A p \in Program :
        tableLocked[p] <=> \E a \in Area : Prog(a) = p /\ (isLocked[a] \/ a \in Exclusives)

(* Only who has the context open has records, and nobody under a file lock.*)
Holders ==
    \A r \in Recno :
        /\ \A c \in Connection : server.holder[r] = c => server.opens[c] > 0
        /\ server.locked => server.holder[r] = NoClient

LockInv == LockTypes /\ Modes /\ Counts /\ Owners /\ Flags /\ Holders

-----------------------------------------------------------------------------
(* Commands of the server that change nothing but who holds which record.  *)

SameButHolders(c, t, u) ==
    /\ u \in Server!Table
    /\ u.shared = t.shared
    /\ u.exclusive = t.exclusive
    /\ u.locked = t.locked
    /\ u.owner = t.owner
    /\ u.opens = t.opens
    /\ \A r \in Recno :
          \/ u.holder[r] \in {t.holder[r], NoClient}
          \/ u.holder[r] = c /\ t.opens[c] > 0 /\ ~t.locked

(* Nothing is such a change.                                               *)
LEMMA SameReflexive ==
    ASSUME NEW c, NEW t \in Server!Table
    PROVE  SameButHolders(c, t, t)
BY DEF SameButHolders

(* Two such changes of one client are one.                                 *)
LEMMA SameTransitive ==
    ASSUME NEW c, NEW t, NEW u, NEW v, SameButHolders(c, t, u), SameButHolders(c, u, v)
    PROVE  SameButHolders(c, t, v)
BY DEF SameButHolders

(* UNLOCK_REC of records alone gives up records only.                      *)
LEMMA ReleasedSame ==
    ASSUME NEW t \in Server!Table, NEW c \in Connection, NEW R,
           ~(t.locked /\ t.owner = c)
    PROVE  SameButHolders(c, t, Server!Released(t, c, R))
<1>1. Server!Released(t, c, R) \in Server!Table
    BY CommandTypes
<1>2. t.locked \in BOOLEAN
    BY DEF Server!Table
<1> QED
    BY <1>1, <1>2 DEF SameButHolders, Server!Released, Server!Without, Server!OwnsFile

(* The owner of the file lock gives it up with its records.                *)
FileReleased(t, u) ==
    /\ u.shared = t.shared
    /\ u.exclusive = t.exclusive
    /\ u.locked = FALSE
    /\ u.owner = NoClient
    /\ u.opens = t.opens
    /\ \A r \in Recno : u.holder[r] \in {t.holder[r], NoClient}

(* UNLOCK_ALL of the owner of the file lock gives it up, and opens nothing. *)
LEMMA ReleasedFile ==
    ASSUME NEW t \in Server!Table, NEW c \in Connection, NEW R, t.locked, t.owner = c
    PROVE  FileReleased(t, Server!Released(t, c, R))
BY DEF FileReleased, Server!Released, Server!OwnsFile, Server!Without

(* LOCK_REC adds a record at most.                                         *)
LEMMA LockRecSame ==
    ASSUME NEW t \in Server!Table, NEW c \in Connection, NEW r,
           Server!CanLockRec(t, c, r)
    PROVE  SameButHolders(c, t, Server!LockRec(t, c, r))
<1>1. Server!LockRec(t, c, r) \in Server!Table
    BY DEF Server!LockRec, Server!Table
<1>2. t.opens[c] > 0
    BY DEF Server!CanLockRec, Server!HasOpen
<1>3. t.holder \in [Recno -> Connection \cup {NoClient}]
    BY DEF Server!Table
<1>4. \A x \in Recno : \/ Server!LockRec(t, c, r).holder[x] = t.holder[x]
                       \/ Server!LockRec(t, c, r).holder[x] = c /\ ~t.locked
    BY <1>3 DEF Server!LockRec, Server!Shut
<1> QED
    BY <1>1, <1>2, <1>4 DEF SameButHolders, Server!LockRec

-----------------------------------------------------------------------------
(* Steps that leave the modes and the flags alone.                         *)

Quiet(c) ==
    /\ SameButHolders(c, server, server')
    /\ UNCHANGED <<tableLocked, openVars, isLocked>>

(* Such a step keeps the invariant.                                        *)
LEMMA QuietKeeps ==
    ASSUME LockInv, NEW c \in Connection, Quiet(c)
    PROVE  LockInv'
<1> USE DEF LockInv, Quiet, openVars
<1>1. LockTypes'
    BY DEF LockTypes, SameButHolders
<1>2. Modes'
    BY DEF Modes
<1>3. Counts'
    BY DEF Counts, Shareds, SameButHolders
<1>4. Owners'
    BY DEF Owners, Exclusives, SameButHolders
<1>5. Flags'
    BY DEF Flags, Exclusives
<1>6. Holders'
    BY AreaAssumption DEF Holders, SameButHolders
<1> QED
    BY <1>1, <1>2, <1>3, <1>4, <1>5, <1>6

(* The owner of the file lock has it in its area.                          *)
LEMMA OwnerIsLocked ==
    ASSUME OneAreaEach, LockInv, NEW a \in Area, server.locked, server.owner = Conn(a)
    PROVE  isLocked[a]
<1>1. PICK b \in Area : isLocked[b] /\ server.owner = Conn(b)
    BY DEF LockInv, Owners
<1>2. Prog(a) = Prog(b)
    BY <1>1 DEF Prog
<1> QED
    BY <1>1, <1>2 DEF OneAreaEach

(* Unlocking records that are listed is a quiet change: with the file lock *)
(* nothing is sent, without it UNLOCK_REC cannot meet one.                 *)
LEMMA UnlockRecordsSame ==
    ASSUME OneAreaEach, LockInv, NEW a \in Area, NEW R
    PROVE  SameButHolders(Conn(a), server, AfterUnlockRecords(Conn(a), R))
<1> DEFINE held == {r \in R : Server!CanUnlockRec(server, Conn(a), r)}
<1>1. Conn(a) \in Connection /\ Prog(a) \in Program
    BY AreaAssumption DEF Conn, Prog
<1>2. server \in Server!Table
    BY DEF LockInv, LockTypes
<1>3. CASE tableLocked[Prog(a)] \/ held = {}
    BY <1>2, <1>3, SameReflexive DEF AfterUnlockRecords, Prog
<1>4. CASE ~(tableLocked[Prog(a)] \/ held = {})
    <2>1. ~isLocked[a]
        BY <1>1, <1>4 DEF LockInv, Flags
    <2>2. ~(server.locked /\ server.owner = Conn(a))
        BY <2>1, OwnerIsLocked
    <2>3. SameButHolders(Conn(a), server, Server!Released(server, Conn(a), held))
        BY <1>1, <1>2, <2>2, ReleasedSame
    <2> QED
        BY <1>4, <2>3 DEF AfterUnlockRecords, Prog
<1> QED
    BY <1>3, <1>4

(* Without the file lock, giving up the records that are listed is all.    *)
LEMMA AfterUnlockSame ==
    ASSUME OneAreaEach, LockInv, NEW a \in Area, ~isLocked[a], NEW R
    PROVE  SameButHolders(Conn(a), server, AfterUnlock(a, R))
BY UnlockRecordsSame DEF AfterUnlock

(* With it, nothing is sent for the records, and UNLOCK_ALL for the file.  *)
LEMMA AfterUnlockFile ==
    ASSUME LockInv, NEW a \in Area, isLocked[a], NEW R
    PROVE  /\ AfterUnlock(a, R) = Server!Released(server, Conn(a), Recno)
           /\ server.locked /\ server.owner = Conn(a)
<1>1. Conn(a) \in Connection /\ Prog(a) \in Program
    BY AreaAssumption DEF Conn, Prog
<1>2. tableLocked[Prog(a)]
    BY <1>1 DEF LockInv, Flags
<1>3. server.opens[Conn(a)] > 0
    BY DEF LockInv, Modes, Counts, LockTypes
<1>4. AfterUnlockRecords(Conn(a), R) = server
    BY <1>2 DEF AfterUnlockRecords, Prog
<1>5. AfterUnlock(a, R) = Server!Released(server, Conn(a), Recno)
    BY <1>3, <1>4 DEF AfterUnlock, AfterUnlockAll, Server!HasOpen, Server!UnlockAll
<1> QED
    BY <1>5 DEF LockInv, Owners

(* The other areas have another connection and another table.              *)
LEMMA OthersDiffer ==
    ASSUME OneAreaEach, NEW a \in Area, NEW b \in Area, a # b
    PROVE  Conn(a) # Conn(b) /\ Prog(a) # Prog(b)
BY DEF OneAreaEach, Prog

(* The area that has the file lock gives it up at the server, and clears   *)
(* its own flag and the table's.                                           *)
GivesUpFile(a) ==
    /\ server' = Server!Released(server, Conn(a), Recno)
    /\ tableLocked' = [tableLocked EXCEPT ![Prog(a)] = FALSE]
    /\ isLocked' = [isLocked EXCEPT ![a] = FALSE]
    /\ UNCHANGED openVars

(* UNLOCK of an area that has the file lock keeps the invariant.           *)
LEMMA GivesUpFileKeeps ==
    ASSUME OneAreaEach, LockInv, NEW a \in Area, isLocked[a], GivesUpFile(a)
    PROVE  LockInv'
<1> USE DEF LockInv, GivesUpFile, openVars
<1>1. Conn(a) \in Connection /\ Prog(a) \in Program
    BY AreaAssumption DEF Conn, Prog
<1>2. server.locked /\ server.owner = Conn(a)
    BY DEF Owners
<1>3. FileReleased(server, server')
    BY <1>1, <1>2, ReleasedFile DEF LockTypes
<1>4. LockTypes'
    <2>1. server' \in Server!Table
        BY <1>1, CommandTypes DEF LockTypes
    <2> QED
        BY <2>1 DEF LockTypes
<1>5. Modes'
    <2>1. \A b \in Area : isLocked'[b] => isLocked[b]
        BY DEF LockTypes
    <2> QED
        BY <2>1 DEF Modes
<1>6. Counts'
    BY <1>3 DEF Counts, Shareds, FileReleased
<1>7. isLocked' = [b \in Area |-> FALSE]
    BY <1>2, OthersDiffer DEF Owners, LockTypes
<1>8. Exclusives = {} /\ ~server.exclusive
    BY DEF Owners, Exclusives, Modes
<1>9. Exclusives' = {}
    BY <1>8 DEF Exclusives
<1>10. Owners'
    BY <1>3, <1>7, <1>8, <1>9 DEF Owners, FileReleased
<1>11. Flags'
    <2>1. \A p \in Program : tableLocked[p] => p = Prog(a)
        BY <1>2, <1>8, OthersDiffer DEF Flags, Owners
    <2> QED
        BY <2>1, <1>1, <1>7, <1>9 DEF Flags, LockTypes
<1>12. Holders'
    BY <1>3, AreaAssumption DEF Holders, FileReleased
<1> QED
    BY <1>4, <1>5, <1>6, <1>10, <1>11, <1>12

(* rdd_unlock, of one record or of everything.                             *)
LEMMA UnlockedKeeps ==
    ASSUME OneAreaEach, LockInv, NEW a \in Area, NEW R, Unlocked(a, R), UNCHANGED openVars
    PROVE  LockInv'
<1>1. CASE isLocked[a]
    <2>1. GivesUpFile(a)
        BY <1>1, AfterUnlockFile DEF Unlocked, GivesUpFile, SetTableLocked
    <2> QED
        BY <1>1, <2>1, GivesUpFileKeeps
<1>2. CASE ~isLocked[a]
    <2>1. SameButHolders(Conn(a), server, server')
        BY <1>2, AfterUnlockSame DEF Unlocked
    <2>2. isLocked' = isLocked
        BY <1>2 DEF Unlocked, LockInv, LockTypes
    <2>3. Quiet(Conn(a))
        BY <1>2, <2>1, <2>2 DEF Unlocked, Quiet
    <2>4. Conn(a) \in Connection
        BY AreaAssumption DEF Conn
    <2> QED
        BY <2>3, <2>4, QuietKeeps
<1> QED
    BY <1>1, <1>2

-----------------------------------------------------------------------------
(* The steps that change what the driver believes of the file lock.        *)

(* FLOCK.  The table is not locked by another area of the program, so the  *)
(* server is asked.                                                        *)
LEMMA FLockKeeps ==
    ASSUME OneAreaEach, LockInv, NEW a \in Area, FLock(a)
    PROVE  LockInv'
<1> DEFINE t == AfterUnlockRecords(Conn(a), recordLocked[a])
<1>1. Conn(a) \in Connection /\ Prog(a) \in Program
    BY AreaAssumption DEF Conn, Prog
<1>2. inUse[a] /\ isShared[a] /\ ~isLocked[a] /\ UNCHANGED openVars
    BY DEF FLock
<1>3. SameButHolders(Conn(a), server, t)
    BY UnlockRecordsSame
<1>4. \A b \in Area : Prog(b) = Prog(a) => b = a
    BY DEF OneAreaEach
<1>5. ~tableLocked[Prog(a)]
    BY <1>1, <1>2, <1>4 DEF LockInv, Flags, Exclusives
<1>6. CASE server' = t /\ UNCHANGED <<tableLocked, isLocked>>
    <2>1. Quiet(Conn(a))
        BY <1>2, <1>3, <1>6 DEF Quiet
    <2> QED
        BY <1>1, <2>1, QuietKeeps
<1>7. CASE /\ Server!CanLockFile(t, Conn(a))
           /\ server' = Server!LockFile(t, Conn(a))
           /\ tableLocked' = [tableLocked EXCEPT ![Prog(a)] = TRUE]
           /\ isLocked' = [isLocked EXCEPT ![a] = TRUE]
    <2>1. ~server.locked
        <3>1. SUFFICES ASSUME server.locked PROVE FALSE
            OBVIOUS
        <3>2. t.locked /\ t.owner = server.owner
            BY <1>3, <3>1 DEF SameButHolders
        <3>3. server.owner = Conn(a)
            BY <1>7, <3>2 DEF Server!CanLockFile
        <3> QED
            BY <1>2, <3>1, <3>3, OwnerIsLocked
    <2>2. t.locked = FALSE
        BY <1>3, <2>1 DEF SameButHolders, Server!Table
    <2>3. \A r \in Recno : t.holder[r] = NoClient
        BY <1>7, <2>2 DEF Server!CanLockFile
    <2>4. /\ server'.shared = server.shared
          /\ server'.exclusive = server.exclusive
          /\ server'.locked = TRUE
          /\ server'.owner = Conn(a)
          /\ server'.opens = server.opens
          /\ \A r \in Recno : server'.holder[r] = NoClient
        BY <1>3, <1>7, <2>3 DEF Server!LockFile, SameButHolders
    <2>5. \A b \in Area : ~isLocked[b]
        BY <2>1 DEF LockInv, Owners
    <2>6. Exclusives = {} /\ ~server.exclusive
        BY <1>2 DEF LockInv, Owners, Exclusives
    <2>7. \A b \in Area : isLocked'[b] <=> b = a
        BY <1>7, <2>5 DEF LockInv, LockTypes
    <2>8. Exclusives' = {}
        BY <1>2, <2>6 DEF Exclusives, openVars
    <2>9. LockTypes'
        <3>1. server' \in Server!Table
            BY <1>1, <1>3, <1>7 DEF Server!LockFile, SameButHolders, Server!Table
        <3> QED
            BY <1>2, <1>7, <3>1 DEF LockInv, LockTypes, openVars
    <2>10. Modes'
        BY <1>2, <2>7 DEF LockInv, Modes, openVars
    <2>11. Counts'
        BY <1>2, <2>4 DEF LockInv, Counts, Shareds, openVars
    <2>12. Owners'
        BY <2>4, <2>6, <2>7, <2>8 DEF Owners
    <2>13. Flags'
        <3>1. \A p \in Program : ~tableLocked[p]
            BY <2>5, <2>6 DEF LockInv, Flags
        <3> QED
            BY <1>1, <1>7, <2>7, <2>8, <3>1 DEF Flags, LockInv, LockTypes
    <2>14. Holders'
        BY <2>4, AreaAssumption DEF Holders
    <2> QED
        BY <2>9, <2>10, <2>11, <2>12, <2>13, <2>14 DEF LockInv
<1> HIDE DEF t
<1>8. \/ server' = t /\ UNCHANGED <<tableLocked, isLocked>>
      \/ tableLocked[Prog(a)]
      \/ /\ Server!CanLockFile(t, Conn(a))
         /\ server' = Server!LockFile(t, Conn(a))
         /\ tableLocked' = [tableLocked EXCEPT ![Prog(a)] = TRUE]
         /\ isLocked' = [isLocked EXCEPT ![a] = TRUE]
    BY DEF FLock, SetTableLocked, t
<1> QED
    BY <1>5, <1>6, <1>7, <1>8

(* Opening.  An open that is refused closes an area that has nothing.      *)
LEMMA OpenKeeps ==
    ASSUME OneAreaEach, IsFiniteSet(Area), LockInv, NEW a \in Area, NEW shared \in BOOLEAN,
           Open(a, shared)
    PROVE  LockInv'
<1> USE DEF LockInv
<1>1. Conn(a) \in Connection /\ Prog(a) \in Program
    BY AreaAssumption DEF Conn, Prog
<1>2. /\ ~inUse[a] /\ ~ctxId[a] /\ ~isShared[a] /\ ~isLocked[a] /\ server.opens[Conn(a)] = 0
      /\ a \notin Shareds /\ a \notin Exclusives
    BY DEF Open, Modes, Counts, Shareds, Exclusives
<1>3. UNCHANGED isLocked
    BY DEF Open
<1>4. IsFiniteSet(Shareds)
    BY FS_Subset DEF Shareds
<1>5. Server!Registered(server, Conn(a)) = [server.opens EXCEPT ![Conn(a)] = 1]
    BY <1>1, <1>2 DEF Server!Registered, LockTypes, Server!Table
<1>6. server.opens \in [Connection -> Nat] /\ server.shared \in Nat
    BY DEF LockTypes, Server!Table
<1>7. \A b \in Area : b # a => Conn(b) # Conn(a) /\ Prog(b) # Prog(a)
    BY OthersDiffer
<1>8. CASE shared /\ Server!CanOpenShared(server)
    <2>1. /\ server' = Server!OpenShared(server, Conn(a))
          /\ inUse' = [inUse EXCEPT ![a] = TRUE]
          /\ ctxId' = [ctxId EXCEPT ![a] = TRUE]
          /\ isShared' = [isShared EXCEPT ![a] = TRUE]
          /\ tableLocked' = tableLocked
        BY <1>8 DEF Open
    <2>2. /\ server'.shared = server.shared + 1
          /\ server'.exclusive = server.exclusive
          /\ server'.locked = server.locked
          /\ server'.owner = server.owner
          /\ server'.holder = server.holder
          /\ server'.opens = [server.opens EXCEPT ![Conn(a)] = 1]
        BY <1>5, <2>1 DEF Server!OpenShared
    <2>3. Exclusives = {}
        BY <1>8 DEF Owners, Server!CanOpenShared
    <2>4. Exclusives' = {}
        BY <2>1, <2>3 DEF Exclusives, LockTypes
    <2>5. LockTypes'
        <3>1. server' \in Server!Table
            BY <1>1, <1>5, <1>6, <2>1 DEF Server!OpenShared, LockTypes, Server!Table
        <3> QED
            BY <1>3, <2>1, <3>1 DEF LockTypes
    <2>6. Modes'
        BY <1>3, <2>1 DEF Modes, LockTypes
    <2>7. Counts'
        <3>1. Shareds' = Shareds \cup {a}
            BY <2>1 DEF Shareds, LockTypes
        <3>2. Cardinality(Shareds') = Cardinality(Shareds) + 1
            BY <1>2, <1>4, <3>1, FS_AddElement
        <3>3. \A b \in Area : server'.opens[Conn(b)] = IF inUse'[b] THEN 1 ELSE 0
            BY <1>1, <1>6, <1>7, <2>1, <2>2 DEF Counts, LockTypes
        <3>4. \A c \in Connection : (\A b \in Area : Conn(b) # c) => server'.opens[c] = 0
            BY <1>6, <2>2 DEF Counts
        <3> QED
            BY <2>2, <3>2, <3>3, <3>4 DEF Counts
    <2>8. Owners'
        BY <1>3, <2>2, <2>3, <2>4 DEF Owners
    <2>9. Flags'
        BY <1>3, <2>1, <2>3, <2>4 DEF Flags
    <2>10. Holders'
        BY <1>1, <1>6, <2>2 DEF Holders
    <2> QED
        BY <2>5, <2>6, <2>7, <2>8, <2>9, <2>10
<1>9. CASE ~shared /\ Server!CanOpenExclusive(server)
    <2>1. /\ server' = Server!OpenExclusive(server, Conn(a))
          /\ inUse' = [inUse EXCEPT ![a] = TRUE]
          /\ ctxId' = [ctxId EXCEPT ![a] = TRUE]
          /\ isShared' = [isShared EXCEPT ![a] = FALSE]
          /\ tableLocked' = [tableLocked EXCEPT ![Prog(a)] = TRUE]
        BY <1>9 DEF Open
    <2>2. /\ server'.shared = server.shared
          /\ server'.exclusive = TRUE
          /\ server'.locked = server.locked
          /\ server'.owner = Conn(a)
          /\ server'.holder = server.holder
          /\ server'.opens = [server.opens EXCEPT ![Conn(a)] = 1]
        BY <1>5, <2>1 DEF Server!OpenExclusive
    <2>3. Exclusives = {} /\ Shareds = {}
        BY <1>4, <1>9, FS_EmptySet DEF Owners, Counts, Server!CanOpenExclusive
    <2>4. \A b \in Area : ~inUse[b] /\ ~isShared[b] /\ ~isLocked[b]
        BY <2>3 DEF Exclusives, Shareds, Modes
    <2>5. server.locked = FALSE
        BY <2>4 DEF Owners, LockTypes, Server!Table
    <2>6. Exclusives' = {a} /\ Shareds' = Shareds
        BY <1>2, <2>1, <2>4 DEF Exclusives, Shareds, LockTypes
    <2>7. LockTypes'
        <3>1. server' \in Server!Table
            BY <1>1, <1>5, <1>6, <2>1 DEF Server!OpenExclusive, LockTypes, Server!Table
        <3> QED
            BY <1>3, <2>1, <3>1 DEF LockTypes
    <2>8. Modes'
        BY <1>2, <1>3, <2>1 DEF Modes, LockTypes
    <2>9. Counts'
        <3>1. \A b \in Area : server'.opens[Conn(b)] = IF inUse'[b] THEN 1 ELSE 0
            BY <1>1, <1>6, <1>7, <2>1, <2>2 DEF Counts, LockTypes
        <3>2. \A c \in Connection : (\A b \in Area : Conn(b) # c) => server'.opens[c] = 0
            BY <1>6, <2>2 DEF Counts
        <3> QED
            BY <2>2, <2>6, <3>1, <3>2 DEF Counts
    <2>10. Owners'
        <3>1. \A b \in Area : inUse'[b] => b = a
            BY <2>1, <2>4 DEF LockTypes
        <3> QED
            BY <1>3, <2>2, <2>4, <2>5, <2>6, <3>1 DEF Owners
    <2>11. Flags'
        <3>1. \A p \in Program : ~tableLocked[p]
            BY <2>3, <2>4 DEF Flags
        <3> QED
            BY <1>1, <1>3, <2>1, <2>4, <2>6, <3>1 DEF Flags, LockTypes
    <2>12. Holders'
        BY <1>1, <1>6, <2>2, <2>5 DEF Holders
    <2> QED
        BY <2>7, <2>8, <2>9, <2>10, <2>11, <2>12
<1>10. CASE ~IF shared THEN Server!CanOpenShared(server) ELSE Server!CanOpenExclusive(server)
    <2>1. /\ tableLocked' = [tableLocked EXCEPT ![Prog(a)] = FALSE]
          /\ UNCHANGED <<server, openVars>>
        BY <1>10 DEF Open, SetTableLocked
    <2>2. ~tableLocked[Prog(a)]
        BY <1>1, <1>2, <1>7 DEF Flags
    <2>3. tableLocked' = tableLocked
        BY <1>1, <2>1, <2>2 DEF LockTypes
    <2>4. Quiet(Conn(a))
        BY <1>3, <2>1, <2>3, SameReflexive DEF Quiet, LockTypes
    <2> QED
        BY <1>1, <2>4, QuietKeeps
<1> QED
    BY <1>8, <1>9, <1>10

(* What an area does at the server before it closes the context: it keeps  *)
(* the types and the openings, and leaves no file lock of its own.         *)
LEMMA BeforeClose ==
    ASSUME OneAreaEach, LockInv, NEW a \in Area, inUse[a],
           NEW t, t = IF isShared[a] THEN AfterUnlock(a, recordLocked[a]) ELSE server
    PROVE  /\ t \in Server!Table
           /\ t.shared = server.shared
           /\ t.exclusive = server.exclusive
           /\ t.opens = server.opens
           /\ t.locked <=> server.locked /\ ~isLocked[a]
           /\ t.locked => t.owner = server.owner
           /\ t.exclusive => t.owner = server.owner
           /\ \A r \in Recno : t.holder[r] \in {server.holder[r], Conn(a), NoClient}
<1>1. Conn(a) \in Connection
    BY AreaAssumption DEF Conn
<1>2. server \in Server!Table /\ server.locked \in BOOLEAN /\ isLocked[a] \in BOOLEAN
    BY DEF LockInv, LockTypes, Server!Table
<1>3. CASE isLocked[a]
    <2>1. isShared[a]
        BY <1>3 DEF LockInv, Modes
    <2>2. t = Server!Released(server, Conn(a), Recno) /\ server.locked /\ server.owner = Conn(a)
        BY <1>3, <2>1, AfterUnlockFile
    <2>3. t \in Server!Table
        BY <1>1, <1>2, <2>2, CommandTypes
    <2>4. ~server.exclusive
        BY <1>3, <2>1 DEF LockInv, Owners, Exclusives, Modes
    <2>5. FileReleased(server, t)
        BY <1>1, <1>2, <2>2, ReleasedFile
    <2> QED
        BY <1>2, <1>3, <2>2, <2>3, <2>4, <2>5 DEF FileReleased
<1>4. CASE ~isLocked[a]
    <2>1. SameButHolders(Conn(a), server, t)
        BY <1>2, <1>4, AfterUnlockSame, SameReflexive
    <2> QED
        BY <1>2, <1>4, <2>1 DEF SameButHolders
<1> QED
    BY <1>3, <1>4

(* Closing.                                                                *)
LEMMA CloseKeeps ==
    ASSUME OneAreaEach, IsFiniteSet(Area), LockInv, NEW a \in Area, Close(a)
    PROVE  LockInv'
<1> USE DEF LockInv
<1> DEFINE t == IF isShared[a] THEN AfterUnlock(a, recordLocked[a]) ELSE server
<1>1. Conn(a) \in Connection /\ Prog(a) \in Program
    BY AreaAssumption DEF Conn, Prog
<1>2. inUse[a] /\ ctxId[a] /\ server.opens[Conn(a)] = 1
    BY DEF Close, Modes, Counts
<1>3. CASE UNCHANGED <<server, tableLocked, openVars, isLocked>>
    BY <1>1, <1>3, SameReflexive, QuietKeeps DEF Quiet, LockTypes
<1>4. CASE /\ server' = AfterClose(t, a)
           /\ tableLocked' = [tableLocked EXCEPT ![Prog(a)] = FALSE]
           /\ inUse' = [inUse EXCEPT ![a] = FALSE]
           /\ ctxId' = [ctxId EXCEPT ![a] = FALSE]
           /\ isShared' = [isShared EXCEPT ![a] = FALSE]
           /\ isLocked' = [isLocked EXCEPT ![a] = FALSE]
    <2>1. /\ t \in Server!Table
          /\ t.shared = server.shared
          /\ t.exclusive = server.exclusive
          /\ t.opens = server.opens
          /\ t.locked <=> server.locked /\ ~isLocked[a]
          /\ t.locked => t.owner = server.owner
          /\ t.exclusive => t.owner = server.owner
          /\ \A r \in Recno : t.holder[r] \in {server.holder[r], Conn(a), NoClient}
        BY <1>2, BeforeClose
    <2> HIDE DEF t
    <2>2. server' = Server!Close(t, Conn(a))
        BY <1>2, <1>4, <2>1 DEF AfterClose, Server!HasOpen
    <2>3. /\ server.shared \in Nat /\ server.exclusive \in BOOLEAN /\ server.locked \in BOOLEAN
          /\ server.opens \in [Connection -> Nat]
          /\ t.holder \in [Recno -> Connection \cup {NoClient}]
          /\ t.owner \in Connection \cup {NoClient} /\ t.locked \in BOOLEAN
        BY <2>1 DEF LockTypes, Server!Table
    <2>4. \A b \in Area : b # a => Conn(b) # Conn(a) /\ Prog(b) # Prog(a)
        BY OthersDiffer
    <2>5. server.exclusive <=> ~isShared[a]
        BY <1>2 DEF Owners, Exclusives
    <2>6. server.exclusive => server.owner = Conn(a)
        BY <1>2, <2>5 DEF Owners, Exclusives
    <2>7. IsFiniteSet(Shareds)
        BY FS_Subset DEF Shareds
    <2>8. isShared[a] => server.shared > 0
        BY <2>3, <2>7, FS_EmptySet DEF Counts, Shareds
    <2>9. /\ server'.shared = IF isShared[a] THEN server.shared - 1 ELSE server.shared
          /\ server'.exclusive = FALSE
          /\ server'.locked <=> server.locked /\ ~isLocked[a]
          /\ server'.locked /\ isShared[a] => server'.owner = server.owner
          /\ server'.opens = [server.opens EXCEPT ![Conn(a)] = 0]
          /\ \A r \in Recno : server'.holder[r] \in {server.holder[r], NoClient} \ {Conn(a)}
        <3>1. \A r \in Recno : Server!Without(t, Conn(a), Recno)[r] \in
                                   {server.holder[r], NoClient} \ {Conn(a)}
            BY <1>1, <2>1, AreaAssumption DEF Server!Without
        <3>2. [t.opens EXCEPT ![Conn(a)] = @ - 1] = [server.opens EXCEPT ![Conn(a)] = 0]
            BY <1>1, <1>2, <2>1, <2>3
        <3> QED
            BY <2>1, <2>2, <2>3, <2>5, <2>6, <2>8, <3>1, <3>2 DEF Server!Close
    <2>10. Exclusives' = {}
        <3>1. \A b \in Area : b # a => b \notin Exclusives
            BY <1>2 DEF Owners
        <3> QED
            BY <1>4, <3>1 DEF Exclusives, LockTypes
    <2>11. \A b \in Area : isLocked'[b] <=> (b # a /\ isLocked[b])
        BY <1>4 DEF LockTypes
    <2>12. LockTypes'
        <3>1. server' \in Server!Table
            <4>1. server' = [shared |-> server'.shared, exclusive |-> server'.exclusive,
                             locked |-> server'.locked, owner |-> server'.owner,
                             holder |-> server'.holder, opens |-> server'.opens]
                BY <2>2 DEF Server!Close
            <4>2. server'.owner \in Connection \cup {NoClient} /\ server'.locked \in BOOLEAN
                BY <2>2, <2>3 DEF Server!Close
            <4>3. server'.holder \in [Recno -> Connection \cup {NoClient}]
                BY <2>2, <2>3 DEF Server!Close, Server!Without
            <4>4. server'.opens \in [Connection -> Nat] /\ server'.shared \in Nat
                BY <1>1, <2>3, <2>8, <2>9
            <4> QED
                BY <2>9, <4>1, <4>2, <4>3, <4>4 DEF Server!Table
        <3> QED
            BY <1>4, <3>1 DEF LockTypes
    <2>13. Modes'
        BY <1>4 DEF Modes, LockTypes
    <2>14. Counts'
        <3>1. Shareds' = Shareds \ {a}
            BY <1>4 DEF Shareds, LockTypes
        <3>2. server'.shared = Cardinality(Shareds')
            <4>1. CASE isShared[a]
                <5>1. a \in Shareds
                    BY <4>1 DEF Shareds
                <5>2. Cardinality(Shareds') = Cardinality(Shareds) - 1
                    BY <2>7, <3>1, <5>1, FS_RemoveElement
                <5> QED
                    BY <2>9, <4>1, <5>2 DEF Counts
            <4>2. CASE ~isShared[a]
                <5>1. Shareds' = Shareds
                    BY <3>1, <4>2 DEF Shareds
                <5> QED
                    BY <2>9, <4>2, <5>1 DEF Counts
            <4> QED
                BY <4>1, <4>2
        <3>3. \A b \in Area : server'.opens[Conn(b)] = IF inUse'[b] THEN 1 ELSE 0
            BY <1>1, <1>4, <2>3, <2>4, <2>9 DEF Counts, LockTypes
        <3>4. \A c \in Connection : (\A b \in Area : Conn(b) # c) => server'.opens[c] = 0
            BY <2>3, <2>9 DEF Counts
        <3> QED
            BY <3>2, <3>3, <3>4 DEF Counts
    <2>15. Owners'
        <3>1. isLocked[a] => \A b \in Area : b # a => ~isLocked[b]
            BY <2>4 DEF Owners
        <3>2. ~isShared[a] => \A b \in Area : ~isLocked[b]
            BY <1>2, <2>5 DEF Owners, Modes, Exclusives
        <3>3. ASSUME server'.locked
              PROVE  \E b \in Area : isLocked'[b] /\ server'.owner = Conn(b)
            <4>1. server.locked /\ ~isLocked[a]
                BY <2>9, <3>3
            <4>2. PICK b \in Area : isLocked[b] /\ server.owner = Conn(b)
                BY <4>1 DEF Owners
            <4>3. server'.owner = server.owner
                BY <2>9, <3>2, <3>3, <4>2
            <4> QED
                BY <2>11, <4>1, <4>2, <4>3
        <3>4. ASSUME NEW b \in Area, isLocked'[b]
              PROVE  server'.locked /\ server'.owner = Conn(b)
            <4>1. b # a /\ isLocked[b]
                BY <2>11, <3>4
            <4>2. server.locked /\ server.owner = Conn(b) /\ ~isLocked[a] /\ isShared[a]
                BY <3>1, <3>2, <4>1 DEF Owners
            <4> QED
                BY <2>9, <4>2
        <3> QED
            BY <2>9, <2>10, <3>3, <3>4 DEF Owners
    <2>16. Flags'
        <3>1. \A p \in Program : p # Prog(a) =>
                  ((\E b \in Area : Prog(b) = p /\ (isLocked[b] \/ b \in Exclusives)) <=>
                   (\E b \in Area : Prog(b) = p /\ isLocked'[b]))
            <4>1. \A b \in Area : b # a => b \notin Exclusives
                BY <1>2 DEF Owners
            <4> QED
                BY <2>11, <4>1
        <3>2. \A b \in Area : Prog(b) = Prog(a) => ~isLocked'[b]
            BY <2>4, <2>11
        <3> QED
            BY <1>1, <1>4, <2>10, <3>1, <3>2 DEF Flags, LockTypes
    <2>17. Holders'
        <3>1. ASSUME NEW r \in Recno, NEW c \in Connection, server'.holder[r] = c
              PROVE  server'.opens[c] > 0
            BY <2>3, <2>9, <3>1, AreaAssumption DEF Holders
        <3>2. ASSUME NEW r \in Recno, server'.locked PROVE server'.holder[r] = NoClient
            BY <2>9, <3>2 DEF Holders
        <3> QED
            BY <3>1, <3>2 DEF Holders
    <2> QED
        BY <2>12, <2>13, <2>14, <2>15, <2>16, <2>17
<1> HIDE DEF t
<1>5. \/ UNCHANGED <<server, tableLocked, openVars, isLocked>>
      \/ /\ server' = AfterClose(t, a)
         /\ tableLocked' = [tableLocked EXCEPT ![Prog(a)] = FALSE]
         /\ inUse' = [inUse EXCEPT ![a] = FALSE]
         /\ ctxId' = [ctxId EXCEPT ![a] = FALSE]
         /\ isShared' = [isShared EXCEPT ![a] = FALSE]
         /\ isLocked' = [isLocked EXCEPT ![a] = FALSE]
    BY DEF Close, SetTableLocked, t
<1> QED
    BY <1>3, <1>4, <1>5

(* Commit: what UNLOCK does, to the one area of the connection.            *)
LEMMA CommitKeeps ==
    ASSUME OneAreaEach, LockInv, NEW c \in Connection, Commit(c)
    PROVE  LockInv'
<1> DEFINE shared == {a \in AreasOf(c) : isShared[a]}
<1>1. UNCHANGED openVars
    BY DEF Commit
<1>2. CASE shared = {}
    <2>1. UNION {recordLocked[a] : a \in shared} = {}
        BY <1>2
    <2>2. AfterUnlockRecords(c, {}) = server
        BY DEF AfterUnlockRecords
    <2>3. UNCHANGED <<server, tableLocked>>
        BY <1>2, <2>1, <2>2 DEF Commit
    <2>4. isLocked' = isLocked
        BY <1>2 DEF Commit, LockInv, LockTypes
    <2>5. SameButHolders(c, server, server')
        BY <2>3, SameReflexive DEF LockInv, LockTypes
    <2> QED
        BY <1>1, <2>3, <2>4, <2>5, QuietKeeps DEF Quiet
<1>3. ASSUME NEW a \in Area, a \in shared
      PROVE  LockInv'
    <2>1. Conn(a) = c /\ Prog(a) = programOf[c]
        BY <1>3 DEF AreasOf, Prog
    <2>2. shared = {a}
        BY <1>3, OthersDiffer DEF AreasOf
    <2>3. UNION {recordLocked[b] : b \in shared} = recordLocked[a]
        BY <2>2
    <2>4. server' = AfterUnlock(a, recordLocked[a])
        BY <2>1, <2>2, <2>3 DEF Commit, AfterUnlock
    <2>5. IF isLocked[a] THEN SetTableLocked(a, FALSE) ELSE UNCHANGED tableLocked
        BY <2>1, <2>2 DEF Commit, SetTableLocked
    <2>6. isLocked' = [isLocked EXCEPT ![a] = FALSE]
        BY <2>2 DEF Commit, LockInv, LockTypes
    <2>7. CASE isLocked[a]
        <3>1. GivesUpFile(a)
            BY <1>1, <2>4, <2>5, <2>6, <2>7, AfterUnlockFile DEF GivesUpFile, SetTableLocked
        <3> QED
            BY <2>7, <3>1, GivesUpFileKeeps
    <2>8. CASE ~isLocked[a]
        <3>1. SameButHolders(Conn(a), server, server')
            BY <2>4, <2>8, AfterUnlockSame
        <3>2. isLocked' = isLocked
            BY <2>6, <2>8 DEF LockInv, LockTypes
        <3> QED
            BY <1>1, <2>1, <2>5, <2>8, <3>1, <3>2, QuietKeeps DEF Quiet
    <2> QED
        BY <2>7, <2>8
<1> QED
    BY <1>2, <1>3 DEF AreasOf

-----------------------------------------------------------------------------
(* The steps that are quiet.                                               *)

(* LOCK_REC of records, and UNLOCK_REC of those listed before it.          *)
LEMMA RawLockSame ==
    ASSUME LockInv, NEW a \in Area, NEW r, NEW b, NEW t, NEW listed,
           SameButHolders(Conn(a), server, t), RawLock(a, r, b, t, listed)
    PROVE  SameButHolders(Conn(a), server, server')
<1>1. Conn(a) \in Connection
    BY AreaAssumption DEF Conn
<1>2. t \in Server!Table
    BY DEF SameButHolders
<1>3. CASE server' = t
    BY <1>3
<1>4. CASE server' = Server!LockRec(t, Conn(a), r) /\ Server!CanLockRec(t, Conn(a), r)
    BY <1>1, <1>2, <1>4, LockRecSame, SameTransitive
<1> QED
    BY <1>3, <1>4 DEF RawLock

(* The calls that take or give up records only are such steps.             *)
LEMMA QuietSteps ==
    ASSUME OneAreaEach, LockInv, NEW a \in Area,
           \/ RLock(a)
           \/ \E r \in Numbers : RLockMore(a, r) \/ GoToLock(a, r)
           \/ \E bUnlockAll \in BOOLEAN : Append(a, bUnlockAll)
           \/ Move(a) \/ Refresh(a) \/ GoHot(a) \/ Flush(a)
    PROVE  Quiet(Conn(a))
<1>1. Conn(a) \in Connection
    BY AreaAssumption DEF Conn
<1>2. server \in Server!Table
    BY DEF LockInv, LockTypes
<1>3. SameButHolders(Conn(a), server, server)
    BY <1>2, SameReflexive
<1>4. SameButHolders(Conn(a), server, AfterUnlockRecords(Conn(a), recordLocked[a]))
    BY UnlockRecordsSame
<1>5. CASE RLock(a)
    <2>1. \/ server' = AfterUnlockRecords(Conn(a), recordLocked[a])
          \/ \E r, b : RawLock(a, r, b, AfterUnlockRecords(Conn(a), recordLocked[a]), {})
        BY <1>5 DEF RLock
    <2>2. SameButHolders(Conn(a), server, server')
        BY <1>4, <2>1, RawLockSame
    <2> QED
        BY <1>5, <2>2 DEF RLock, Quiet
<1>6. ASSUME NEW r \in Numbers, RLockMore(a, r) PROVE Quiet(Conn(a))
    <2>1. \/ server' = server
          \/ \E b : RawLock(a, r, b, server, recordLocked[a])
        BY <1>6 DEF RLockMore
    <2>2. SameButHolders(Conn(a), server, server')
        BY <1>3, <2>1, RawLockSame
    <2> QED
        BY <1>6, <2>2 DEF RLockMore, Quiet
<1>7. ASSUME NEW r \in Numbers, GoToLock(a, r) PROVE Quiet(Conn(a))
    <2>1. \/ server' = server
          \/ /\ Server!CanLockRec(server, Conn(a), r)
             /\ server' = Server!LockRec(server, Conn(a), r)
        BY <1>7 DEF GoToLock
    <2>2. SameButHolders(Conn(a), server, server')
        BY <1>1, <1>2, <1>3, <2>1, LockRecSame
    <2> QED
        BY <1>7, <2>2 DEF GoToLock, Quiet
<1>8. ASSUME NEW bUnlockAll \in BOOLEAN, Append(a, bUnlockAll) PROVE Quiet(Conn(a))
    <2>1. server' \in {server, AfterUnlockRecords(Conn(a), recordLocked[a])}
        BY <1>8 DEF Append
    <2> QED
        BY <1>3, <1>4, <1>8, <2>1 DEF Append, Quiet
<1>9. CASE Move(a) \/ Refresh(a) \/ GoHot(a) \/ Flush(a)
    BY <1>3, <1>9 DEF Move, Refresh, GoHot, Flush, Quiet
<1> QED
    BY <1>5, <1>6, <1>7, <1>8, <1>9

-----------------------------------------------------------------------------
(* At first nothing is open.                                               *)
LEMMA InitLockInv == IsFiniteSet(Area) /\ Init => LockInv
<1> SUFFICES ASSUME Init PROVE LockInv
    OBVIOUS
<1>1. /\ server.shared = 0 /\ server.exclusive = FALSE /\ server.locked = FALSE
      /\ \A c \in Connection : server.opens[c] = 0
      /\ \A r \in Recno : server.holder[r] = NoClient
    BY DEF Init, Server!EmptyTable
<1>2. \A a \in Area : ~inUse[a] /\ ~ctxId[a] /\ ~isShared[a] /\ ~isLocked[a]
    BY DEF Init
<1>3. LockTypes
    BY DEF Init, LockTypes, Server!EmptyTable, Server!Table
<1>4. Modes
    BY <1>2 DEF Modes
<1>5. Counts
    <2>1. Shareds = {}
        BY <1>2 DEF Shareds
    <2>2. \A a \in Area : Conn(a) \in Connection
        BY AreaAssumption DEF Conn
    <2> QED
        BY <1>1, <1>2, <2>1, <2>2, FS_EmptySet DEF Counts
<1>6. Owners
    BY <1>1, <1>2 DEF Owners, Exclusives
<1>7. Flags
    BY <1>2 DEF Init, Flags, Exclusives
<1>8. Holders
    BY <1>1, AreaAssumption DEF Holders
<1> QED
    BY <1>3, <1>4, <1>5, <1>6, <1>7, <1>8 DEF LockInv

(* Every step keeps the invariant.                                         *)
LEMMA NextLockInv ==
    ASSUME OneAreaEach, ~UsesLockContext, IsFiniteSet(Area)
    PROVE  LockInv /\ [Next]_vars => LockInv'
<1> SUFFICES ASSUME LockInv, [Next]_vars PROVE LockInv'
    OBVIOUS
<1>1. ASSUME NEW a \in Area, Step(a) PROVE LockInv'
    <2>1. Conn(a) \in Connection
        BY AreaAssumption DEF Conn
    <2>2. ASSUME NEW shared \in BOOLEAN, Open(a, shared) PROVE LockInv'
        BY <2>2, OpenKeeps
    <2>3. CASE Close(a)
        BY <2>3, CloseKeeps
    <2>4. CASE UnlockAll(a)
        BY <2>4, UnlockedKeeps DEF UnlockAll
    <2>5. ASSUME NEW r \in Recno, UnlockRecord(a, r) PROVE LockInv'
        <3>1. PICK R : Unlocked(a, R)
            BY <2>5 DEF UnlockRecord
        <3> QED
            BY <2>5, <3>1, UnlockedKeeps DEF UnlockRecord
    <2>6. CASE FLock(a)
        BY <2>6, FLockKeeps
    <2>7. ASSUME \/ RLock(a)
                 \/ \E r \in Numbers : RLockMore(a, r) \/ GoToLock(a, r)
                 \/ \E bUnlockAll \in BOOLEAN : Append(a, bUnlockAll)
                 \/ Move(a) \/ Refresh(a) \/ GoHot(a) \/ Flush(a)
          PROVE  LockInv'
        BY <2>1, <2>7, QuietSteps, QuietKeeps
    <2>8. ~LockContext(a)
        BY DEF LockContext
    <2> QED
        BY <1>1, <2>2, <2>3, <2>4, <2>5, <2>6, <2>7, <2>8 DEF Step
<1>2. ASSUME NEW c \in Connection, Commit(c) PROVE LockInv'
    BY <1>2, CommitKeeps
<1>3. ASSUME NEW c \in Connection, Begin(c) \/ Rollback(c) PROVE LockInv'
    <2>1. Quiet(c)
        BY <1>3, SameReflexive DEF Begin, Rollback, Quiet, LockInv, LockTypes
    <2> QED
        BY <2>1, QuietKeeps
<1>4. CASE UNCHANGED vars
    BY <1>4 DEF vars, openVars, LockInv, LockTypes, Modes, Counts, Shareds, Owners, Exclusives,
                Flags, Holders
<1> QED
    BY <1>1, <1>2, <1>3, <1>4 DEF Next

-----------------------------------------------------------------------------
(* Theorems.                                                               *)

(* The invariant, of programs with one work area on the table that do not  *)
(* call SDB_LOCKCONTEXT.                                                   *)
THEOREM LockInvariant ==
    ASSUME OneAreaEach, ~UsesLockContext, IsFiniteSet(Area)
    PROVE  Spec => []LockInv
BY InitLockInv, NextLockInv, PTL DEF Spec

(* An area that says it has the file lock has it at the server.            *)
THEOREM FileLockHeld ==
    ASSUME OneAreaEach, ~UsesLockContext, IsFiniteSet(Area)
    PROVE  Spec => []FileLockIsHeld
<1>1. LockInv => FileLockIsHeld
    BY DEF LockInv, Owners, FileLockIsHeld, HasFile, Server!OwnsFile
<1> QED
    BY <1>1, LockInvariant, PTL

(* table->locked says exactly whether the program owns the file lock or    *)
(* the exclusive open at the server.                                       *)
THEOREM TableFlagExact ==
    ASSUME OneAreaEach, ~UsesLockContext, IsFiniteSet(Area)
    PROVE  Spec => []TableFlagIsExact
<1>1. LockInv => TableFlagIsExact
    <2> SUFFICES ASSUME LockInv, NEW p \in Program
                 PROVE  tableLocked[p] <=>
                            \E c \in Connection :
                                programOf[c] = p /\ Server!Shut(server) /\ server.owner = c
        BY DEF TableFlagIsExact
    <2>1. ASSUME tableLocked[p]
          PROVE  \E c \in Connection : programOf[c] = p /\ Server!Shut(server) /\ server.owner = c
        <3>1. PICK a \in Area : Prog(a) = p /\ (isLocked[a] \/ a \in Exclusives)
            BY <2>1 DEF LockInv, Flags
        <3>2. Conn(a) \in Connection /\ server.owner = Conn(a) /\ (server.locked \/ server.exclusive)
            BY <3>1, AreaAssumption DEF LockInv, Owners, Conn
        <3> QED
            BY <3>1, <3>2 DEF Prog, Server!Shut
    <2>2. ASSUME NEW c \in Connection, programOf[c] = p, Server!Shut(server), server.owner = c
          PROVE  tableLocked[p]
        <3>1. \E a \in Area : (isLocked[a] \/ a \in Exclusives) /\ server.owner = Conn(a)
            BY <2>2 DEF LockInv, Owners, Exclusives, Server!Shut
        <3> QED
            BY <2>2, <3>1 DEF LockInv, Flags, Prog
    <2> QED
        BY <2>1, <2>2
<1> QED
    BY <1>1, LockInvariant, PTL

(* The file lock of one program leaves the others no lock: neither a file  *)
(* lock in their own opinion, nor a record at the server.                  *)
THEOREM FileLocksExclude ==
    ASSUME OneAreaEach, ~UsesLockContext, IsFiniteSet(Area)
    PROVE  Spec => []FileLockExcludes
<1>1. LockInv => FileLockExcludes
    <2> SUFFICES ASSUME LockInv, NEW a \in Area, NEW b \in Area, isLocked[a], Prog(a) # Prog(b)
                 PROVE  ~isLocked[b] /\ \A r \in Recno : ~HasRecord(Conn(b), r)
        BY DEF FileLockExcludes
    <2>1. server.locked /\ server.owner = Conn(a)
        BY DEF LockInv, Owners
    <2>2. Conn(a) # Conn(b) /\ Conn(b) \in Connection
        BY AreaAssumption DEF Prog, Conn
    <2>3. ~isLocked[b]
        BY <2>1, <2>2 DEF LockInv, Owners
    <2>4. \A r \in Recno : server.holder[r] = NoClient
        BY <2>1 DEF LockInv, Holders
    <2> QED
        BY <2>2, <2>3, <2>4, AreaAssumption DEF HasRecord
<1> QED
    BY <1>1, LockInvariant, PTL

(* A table that an area has open exclusively is open in no other.          *)
THEOREM ExclusiveAreaIsAlone ==
    ASSUME OneAreaEach, ~UsesLockContext, IsFiniteSet(Area)
    PROVE  Spec => []ExclusiveIsAlone
<1>1. LockInv => ExclusiveIsAlone
    BY DEF LockInv, Owners, Exclusives, ExclusiveIsAlone
<1> QED
    BY <1>1, LockInvariant, PTL

(* A connection whose areas are closed has nothing at the server, whatever *)
(* its areas had locked and had forgotten.                                 *)
THEOREM ClosedHoldsNothing ==
    ASSUME OneAreaEach, ~UsesLockContext, IsFiniteSet(Area)
    PROVE  Spec => []NoContextHoldsNothing
<1>1. LockInv => NoContextHoldsNothing
    <2> SUFFICES ASSUME LockInv, NEW c \in Connection, \A a \in AreasOf(c) : ~ctxId[a]
                 PROVE  /\ ~HasFile(c)
                        /\ ~Server!HasOpen(server, c)
                        /\ \A r \in Recno : ~HasRecord(c, r)
        BY DEF NoContextHoldsNothing
    <2>1. \A a \in Area : Conn(a) = c => ~inUse[a]
        BY DEF AreasOf, LockInv, Modes
    <2>2. server.opens[c] = 0
        <3>1. CASE \E a \in Area : Conn(a) = c
            BY <2>1, <3>1 DEF LockInv, Counts
        <3>2. CASE \A a \in Area : Conn(a) # c
            BY <3>2 DEF LockInv, Counts
        <3> QED
            BY <3>1, <3>2
    <2>3. ~HasFile(c)
        BY <2>1 DEF LockInv, Owners, Modes, HasFile, Server!OwnsFile
    <2>4. \A r \in Recno : ~HasRecord(c, r)
        BY <2>2 DEF LockInv, Holders, HasRecord
    <2> QED
        BY <2>2, <2>3, <2>4 DEF Server!HasOpen
<1> QED
    BY <1>1, LockInvariant, PTL

(* UNLOCK gives up at the server every record that is listed, and the file.*)
THEOREM UnlockGivesAllUp ==
    ASSUME OneAreaEach, ~UsesLockContext, IsFiniteSet(Area)
    PROVE  Spec => UnlockGivesUp
<1>1. ASSUME TypeOK, LockInv, NEW a \in Area, UnlockAll(a)
      PROVE  /\ ~Server!OwnsFile(server', Conn(a))
             /\ \A r \in recordLocked[a] : server'.holder[r] # Conn(a)
    <2>1. Conn(a) \in Connection /\ Prog(a) \in Program
        BY AreaAssumption DEF Conn, Prog
    <2>2. inUse[a] /\ isShared[a] /\ server' = AfterUnlock(a, recordLocked[a])
        BY <1>1 DEF UnlockAll, Unlocked
    <2>3. recordLocked[a] \subseteq Recno /\ server \in Server!Table
        BY <1>1 DEF TypeOK
    <2>4. CASE isLocked[a]
        <3>1. /\ server' = Server!Released(server, Conn(a), Recno)
              /\ server.locked /\ server.owner = Conn(a)
            BY <1>1, <2>2, <2>4, AfterUnlockFile
        <3>2. FileReleased(server, server')
            BY <2>1, <2>3, <3>1, ReleasedFile
        <3>3. \A r \in Recno : server.holder[r] = NoClient
            BY <1>1, <3>1 DEF LockInv, Holders
        <3> QED
            BY <2>1, <2>3, <3>2, <3>3, AreaAssumption DEF FileReleased, Server!OwnsFile
    <2>5. CASE ~isLocked[a]
        <3> DEFINE held == {r \in recordLocked[a] : Server!CanUnlockRec(server, Conn(a), r)}
        <3>1. ~tableLocked[Prog(a)]
            BY <1>1, <2>1, <2>2, <2>5, OthersDiffer DEF LockInv, Flags, Exclusives
        <3>2. server' = IF held = {} THEN server ELSE Server!Released(server, Conn(a), held)
            BY <2>2, <2>5, <3>1 DEF AfterUnlock, AfterUnlockRecords, Prog
        <3>3. ~Server!OwnsFile(server', Conn(a))
            <4>1. SameButHolders(Conn(a), server, server')
                BY <1>1, <2>2, <2>5, AfterUnlockSame
            <4> QED
                BY <1>1, <2>5, <4>1, OwnerIsLocked DEF SameButHolders, Server!OwnsFile
        <3>4. Server!HasOpen(server, Conn(a))
            BY <1>1, <2>2 DEF LockInv, Counts, Server!HasOpen
        <3>5. \A r \in recordLocked[a] : server.holder[r] = Conn(a) => r \in held
            BY <3>4 DEF Server!CanUnlockRec
        <3> HIDE DEF held
        <3>6. \A r \in recordLocked[a] : server'.holder[r] # Conn(a)
            <4>1. CASE held = {}
                BY <3>2, <3>5, <4>1
            <4>2. CASE held # {}
                <5>1. server'.holder = Server!Without(server, Conn(a), held)
                    BY <3>2, <4>2 DEF Server!Released
                <5> QED
                    BY <2>1, <2>3, <3>5, <5>1, AreaAssumption DEF Server!Without
            <4> QED
                BY <4>1, <4>2
        <3> QED
            BY <3>3, <3>6
    <2> QED
        BY <2>4, <2>5
<1>2. TypeOK /\ LockInv /\ [Next]_vars =>
          [\A a \in Area : UnlockAll(a) =>
              /\ ~Server!OwnsFile(server', Conn(a))
              /\ \A r \in recordLocked[a] : server'.holder[r] # Conn(a)]_vars
    BY <1>1
<1> QED
    BY <1>2, LockInvariant, AreaTypeCorrect, PTL DEF Spec, UnlockGivesUp
-----------------------------------------------------------------------------
(* The contexts the areas have open, for any areas and with the use of     *)
(* SDB_LOCKCONTEXT.  The server has an entry in openContexts for each area *)
(* that says its context is open, and such an area is open itself.         *)

OpenedBy(c) == {a \in Area : ctxId[a] /\ Conn(a) = c}

ContextInv ==
    /\ \A a \in Area : (ctxId[a] => inUse[a]) /\ (isShared[a] => ctxId[a])
    /\ \A c \in Connection : server.opens[c] = Cardinality(OpenedBy(c))

(* The commands on records and on the file open and close nothing.         *)
LEMMA CommandsKeepOpens ==
    /\ \A c, R : AfterUnlockRecords(c, R).opens = server.opens
    /\ \A t, c : AfterUnlockAll(t, c).opens = t.opens
    /\ \A a, R : AfterUnlock(a, R).opens = server.opens
    /\ \A t, c : Server!LockFile(t, c).opens = t.opens
    /\ \A t, c, r : Server!LockRec(t, c, r).opens = t.opens
<1>1. \A t, c, R : Server!Released(t, c, R).opens = t.opens
    BY DEF Server!Released
<1>2. \A c, R : AfterUnlockRecords(c, R).opens = server.opens
    BY <1>1 DEF AfterUnlockRecords
<1>3. \A t, c : AfterUnlockAll(t, c).opens = t.opens
    BY <1>1 DEF AfterUnlockAll, Server!UnlockAll
<1>4. \A a, R : AfterUnlock(a, R).opens = server.opens
    BY <1>2, <1>3 DEF AfterUnlock
<1> QED
    BY <1>2, <1>3, <1>4 DEF Server!LockFile, Server!LockRec

(* A step that opens and closes nothing keeps the invariant.               *)
SameContexts == server'.opens = server.opens /\ UNCHANGED openVars

LEMMA SameContextsKeep ==
    ASSUME ContextInv, SameContexts
    PROVE  ContextInv'
BY DEF ContextInv, OpenedBy, SameContexts, openVars

(* A step that opens the context of an area adds one entry.                *)
LEMMA OpensContext ==
    ASSUME IsFiniteSet(Area), TypeOK, ContextInv, NEW a \in Area, ~ctxId[a],
           server'.opens = [server.opens EXCEPT ![Conn(a)] = @ + 1],
           ctxId' = [ctxId EXCEPT ![a] = TRUE],
           NEW u \in BOOLEAN, isShared' = [isShared EXCEPT ![a] = u],
           inUse' = [inUse EXCEPT ![a] = TRUE]
    PROVE  ContextInv'
<1>1. server.opens \in [Connection -> Nat] /\ Conn(a) \in Connection
    BY AreaAssumption DEF TypeOK, Server!Table, Conn
<1>2. \A b \in Area : (ctxId'[b] => inUse'[b]) /\ (isShared'[b] => ctxId'[b])
    BY DEF TypeOK, ContextInv
<1>3. ASSUME NEW c \in Connection PROVE server'.opens[c] = Cardinality(OpenedBy(c)')
    <2>1. IsFiniteSet(OpenedBy(c))
        BY FS_Subset DEF OpenedBy
    <2>2. OpenedBy(c)' = IF c = Conn(a) THEN OpenedBy(c) \cup {a} ELSE OpenedBy(c)
        BY DEF OpenedBy, TypeOK, Conn
    <2>3. a \notin OpenedBy(c)
        BY DEF OpenedBy
    <2>4. Cardinality(OpenedBy(c) \cup {a}) = Cardinality(OpenedBy(c)) + 1
        BY <2>1, <2>3, FS_AddElement
    <2> QED
        BY <1>1, <2>2, <2>4 DEF ContextInv
<1> QED
    BY <1>2, <1>3 DEF ContextInv

(* A step that closes the context of an area, if it is open, takes its     *)
(* entry away and clears the flags that need it.                           *)
LEMMA ClosesContext ==
    ASSUME IsFiniteSet(Area), TypeOK, ContextInv, NEW a \in Area,
           NEW t, t.opens = server.opens, server' = AfterClose(t, a),
           ctxId' = [ctxId EXCEPT ![a] = FALSE],
           isShared' = [isShared EXCEPT ![a] = FALSE],
           \A b \in Area : b # a => inUse'[b] = inUse[b]
    PROVE  ContextInv'
<1>1. server.opens \in [Connection -> Nat] /\ Conn(a) \in Connection
    BY AreaAssumption DEF TypeOK, Server!Table, Conn
<1>2. \A b \in Area : (ctxId'[b] => inUse'[b]) /\ (isShared'[b] => ctxId'[b])
    BY DEF TypeOK, ContextInv
<1>3. ASSUME NEW c \in Connection PROVE server'.opens[c] = Cardinality(OpenedBy(c)')
    <2>1. IsFiniteSet(OpenedBy(c))
        BY FS_Subset DEF OpenedBy
    <2>2. OpenedBy(c)' = OpenedBy(c) \ {a}
        BY DEF OpenedBy, TypeOK
    <2>3. a \in OpenedBy(c) <=> ctxId[a] /\ c = Conn(a)
        BY DEF OpenedBy
    <2>4. CASE ctxId[a]
        <3>1. a \in OpenedBy(Conn(a)) /\ IsFiniteSet(OpenedBy(Conn(a)))
            BY <2>4, FS_Subset DEF OpenedBy
        <3>2. Server!HasOpen(t, Conn(a))
            BY <1>1, <3>1, FS_EmptySet, FS_CardinalityType DEF ContextInv, Server!HasOpen
        <3>3. server'.opens = [server.opens EXCEPT ![Conn(a)] = @ - 1]
            BY <2>4, <3>2 DEF AfterClose, Server!Close
        <3>4. CASE c = Conn(a)
            <4>1. Cardinality(OpenedBy(c) \ {a}) = Cardinality(OpenedBy(c)) - 1
                BY <2>1, <3>1, <3>4, FS_RemoveElement
            <4>2. server'.opens[c] = server.opens[c] - 1
                BY <1>1, <3>3, <3>4
            <4> QED
                BY <2>2, <4>1, <4>2 DEF ContextInv
        <3>5. CASE c # Conn(a)
            <4>1. OpenedBy(c)' = OpenedBy(c)
                BY <2>2, <2>3, <3>5
            <4>2. server'.opens[c] = server.opens[c]
                BY <1>1, <3>3, <3>5
            <4> QED
                BY <4>1, <4>2 DEF ContextInv
        <3> QED
            BY <3>4, <3>5
    <2>5. CASE ~ctxId[a]
        <3>1. server'.opens = server.opens
            BY <2>5 DEF AfterClose
        <3>2. OpenedBy(c)' = OpenedBy(c)
            BY <2>2, <2>3, <2>5
        <3> QED
            BY <3>1, <3>2 DEF ContextInv
    <2> QED
        BY <2>4, <2>5
<1> QED
    BY <1>2, <1>3 DEF ContextInv

(* A second entry of a context under its key is needed only when two areas *)
(* of a connection have it open.                                           *)
OneOfConnection == \A a, b \in Area : Conn(a) = Conn(b) => a = b

LEMMA EntryAdded ==
    ASSUME TypeOK, ContextInv, KeepDuplicates \/ OneOfConnection, NEW a \in Area, ~ctxId[a]
    PROVE  Server!Registered(server, Conn(a)) = [server.opens EXCEPT ![Conn(a)] = @ + 1]
<1>1. CASE KeepDuplicates
    BY <1>1 DEF Server!Registered
<1>2. CASE OneOfConnection
    <2>1. Conn(a) \in Connection /\ OpenedBy(Conn(a)) = {}
        BY <1>2, AreaAssumption DEF OneOfConnection, OpenedBy, Conn
    <2>2. server.opens[Conn(a)] = 0
        BY <2>1, FS_EmptySet DEF ContextInv
    <2> QED
        BY <2>2 DEF Server!Registered
<1> QED
    BY <1>1, <1>2

(* Each call of an area is such a step, or changes no context.             *)
LEMMA StepContexts ==
    ASSUME IsFiniteSet(Area), KeepDuplicates \/ OneOfConnection, TypeOK, ContextInv,
           NEW a \in Area, Step(a)
    PROVE  ContextInv'
<1>1. CASE SameContexts
    BY <1>1, SameContextsKeep
<1>2. ~ctxId[a] => Server!OpenShared(server, Conn(a)).opens = [server.opens EXCEPT ![Conn(a)] = @ + 1]
    BY EntryAdded DEF Server!OpenShared
<1>3. ~ctxId[a] => Server!OpenExclusive(server, Conn(a)).opens = [server.opens EXCEPT ![Conn(a)] = @ + 1]
    BY EntryAdded DEF Server!OpenExclusive
<1>4. ASSUME NEW shared \in BOOLEAN, Open(a, shared) PROVE ContextInv'
    <2>1. ~inUse[a] /\ ~ctxId[a]
        BY <1>4 DEF Open, ContextInv
    <2>2. CASE SameContexts
        BY <2>2, SameContextsKeep
    <2>3. CASE ~SameContexts
        <3>1. /\ server' \in {Server!OpenShared(server, Conn(a)), Server!OpenExclusive(server, Conn(a))}
              /\ inUse' = [inUse EXCEPT ![a] = TRUE]
              /\ ctxId' = [ctxId EXCEPT ![a] = TRUE]
              /\ isShared' = [isShared EXCEPT ![a] = shared]
            BY <1>4, <2>3 DEF Open, SameContexts
        <3>2. server'.opens = [server.opens EXCEPT ![Conn(a)] = @ + 1]
            BY <1>2, <1>3, <2>1, <3>1
        <3> QED
            BY <2>1, <3>1, <3>2, OpensContext
    <2> QED
        BY <2>2, <2>3
<1>5. CASE Close(a)
    <2> DEFINE t == IF isShared[a] THEN AfterUnlock(a, recordLocked[a]) ELSE server
    <2>1. t.opens = server.opens
        BY CommandsKeepOpens
    <2>2. \/ SameContexts
          \/ /\ server' = AfterClose(t, a)
             /\ inUse' = [inUse EXCEPT ![a] = FALSE]
             /\ ctxId' = [ctxId EXCEPT ![a] = FALSE]
             /\ isShared' = [isShared EXCEPT ![a] = FALSE]
        BY <1>5 DEF Close, SameContexts
    <2> HIDE DEF t
    <2>3. inUse' = [inUse EXCEPT ![a] = FALSE] => \A b \in Area : b # a => inUse'[b] = inUse[b]
        BY DEF TypeOK
    <2> QED
        BY <2>1, <2>2, <2>3, SameContextsKeep, ClosesContext
<1>6. ASSUME NEW R, Unlocked(a, R), UNCHANGED openVars PROVE SameContexts
    BY <1>6, CommandsKeepOpens DEF Unlocked, SameContexts
<1>7. CASE UnlockAll(a) \/ \E r \in Recno : UnlockRecord(a, r)
    BY <1>1, <1>6, <1>7 DEF UnlockAll, UnlockRecord
<1>8. CASE FLock(a)
    <2> DEFINE t == AfterUnlockRecords(Conn(a), recordLocked[a])
    <2>1. server' \in {t, Server!LockFile(t, Conn(a))} /\ UNCHANGED openVars
        BY <1>8 DEF FLock
    <2>2. server'.opens = server.opens
        BY <2>1, CommandsKeepOpens
    <2> QED
        BY <1>1, <2>1, <2>2 DEF SameContexts
<1>9. ASSUME NEW r, NEW b, NEW t, NEW listed, t.opens = server.opens, RawLock(a, r, b, t, listed)
      PROVE  server'.opens = server.opens
    BY <1>9, CommandsKeepOpens DEF RawLock
<1>10. CASE RLock(a)
    <2>1. \/ server' = AfterUnlockRecords(Conn(a), recordLocked[a])
          \/ \E r, b : RawLock(a, r, b, AfterUnlockRecords(Conn(a), recordLocked[a]), {})
        BY <1>10 DEF RLock
    <2>2. server'.opens = server.opens
        BY <1>9, <2>1, CommandsKeepOpens
    <2> QED
        BY <1>1, <1>10, <2>2 DEF RLock, SameContexts
<1>11. ASSUME NEW r \in Numbers, RLockMore(a, r) \/ GoToLock(a, r) PROVE ContextInv'
    <2>1. CASE RLockMore(a, r)
        <3>1. server' = server \/ \E b : RawLock(a, r, b, server, recordLocked[a])
            BY <2>1 DEF RLockMore
        <3>2. server'.opens = server.opens
            BY <1>9, <3>1
        <3> QED
            BY <1>1, <2>1, <3>2 DEF RLockMore, SameContexts
    <2>2. CASE GoToLock(a, r)
        <3>1. server' \in {server, Server!LockRec(server, Conn(a), r)} /\ UNCHANGED openVars
            BY <2>2 DEF GoToLock
        <3> QED
            BY <1>1, <3>1, CommandsKeepOpens DEF SameContexts
    <2> QED
        BY <1>11, <2>1, <2>2
<1>12. CASE \E bUnlockAll \in BOOLEAN : Append(a, bUnlockAll)
    <2>1. server' \in {server, AfterUnlockRecords(Conn(a), recordLocked[a])} /\ UNCHANGED openVars
        BY <1>12 DEF Append
    <2> QED
        BY <1>1, <2>1, CommandsKeepOpens DEF SameContexts
<1>13. CASE Move(a) \/ Refresh(a) \/ GoHot(a) \/ Flush(a)
    BY <1>1, <1>13 DEF Move, Refresh, GoHot, Flush, SameContexts
<1>14. CASE LockContext(a)
    <2>1. inUse[a] /\ inUse' = inUse
        BY <1>14 DEF LockContext, LockContextExclusive, LockContextShared, UnlockContext
    <2>2. inUse' = [inUse EXCEPT ![a] = TRUE]
        BY <2>1 DEF TypeOK
    <2>3. CASE LockContextExclusive(a)
        <3>1. CASE ctxId[a]
            BY <2>1, <2>3, <3>1 DEF LockContextExclusive, ContextInv, OpenedBy, TypeOK
        <3>2. CASE ~ctxId[a]
            <4>1. CASE SameContexts
                BY <4>1, SameContextsKeep
            <4>2. CASE ~SameContexts
                <5>1. /\ server' = Server!OpenExclusive(server, Conn(a))
                      /\ ctxId' = [ctxId EXCEPT ![a] = TRUE]
                      /\ isShared' = [isShared EXCEPT ![a] = FALSE]
                    BY <2>1, <2>3, <3>2, <4>2 DEF LockContextExclusive, SameContexts, openVars
                <5> QED
                    BY <1>3, <2>2, <3>2, <5>1, OpensContext
            <4> QED
                BY <4>1, <4>2
        <3> QED
            BY <3>1, <3>2
    <2>4. CASE LockContextShared(a)
        <3>1. CASE ctxId[a]
            <4>1. /\ server' \in {server, AfterUnlockAll(server, Conn(a))}
                  /\ ctxId' = ctxId /\ isShared' \in {isShared, [isShared EXCEPT ![a] = TRUE]}
                BY <2>4, <3>1 DEF LockContextShared
            <4>2. server'.opens = server.opens
                BY <4>1, CommandsKeepOpens
            <4> QED
                BY <2>1, <3>1, <4>1, <4>2 DEF ContextInv, OpenedBy, TypeOK
        <3>2. CASE ~ctxId[a]
            <4>1. /\ server' = Server!OpenShared(server, Conn(a))
                  /\ ctxId' = [ctxId EXCEPT ![a] = TRUE]
                  /\ isShared' = [isShared EXCEPT ![a] = TRUE]
                BY <2>4, <3>2 DEF LockContextShared
            <4> QED
                BY <1>2, <2>2, <3>2, <4>1, OpensContext
        <3> QED
            BY <3>1, <3>2
    <2>5. CASE UnlockContext(a)
        <3>1. /\ server' = AfterClose(server, a)
              /\ ctxId' = [ctxId EXCEPT ![a] = FALSE]
              /\ isShared' = [isShared EXCEPT ![a] = FALSE]
            BY <2>5 DEF UnlockContext
        <3> QED
            BY <2>1, <3>1, ClosesContext
    <2> QED
        BY <1>14, <2>3, <2>4, <2>5 DEF LockContext
<1> QED
    BY <1>4, <1>5, <1>7, <1>8, <1>10, <1>11, <1>12, <1>13, <1>14 DEF Step

(* Whatever areas a program has on the table, and whatever contexts it     *)
(* locks: an area that is shared has its context open at the server, so    *)
(* that lockAreaTable(SHARED) of an UNLOCK finds it open.  For several     *)
(* areas of a connection this needs a hash table that keeps an entry for   *)
(* each of them, which is cfl_hash's to decide; for one area it does not.  *)
THEOREM SharedContextOpen ==
    ASSUME IsFiniteSet(Area), KeepDuplicates \/ OneOfConnection
    PROVE  Spec => []SharedHasContext
<1>1. Init => ContextInv
    <2> SUFFICES ASSUME Init PROVE ContextInv
        OBVIOUS
    <2>1. \A c \in Connection : OpenedBy(c) = {} /\ server.opens[c] = 0
        BY DEF Init, OpenedBy, Server!EmptyTable
    <2> QED
        BY <2>1, FS_EmptySet DEF Init, ContextInv
<1>2. TypeOK /\ ContextInv /\ [Next]_vars => ContextInv'
    <2> SUFFICES ASSUME TypeOK, ContextInv, [Next]_vars PROVE ContextInv'
        OBVIOUS
    <2>1. ASSUME NEW c \in Connection, Begin(c) \/ Commit(c) \/ Rollback(c) PROVE ContextInv'
        <3>1. CASE Begin(c) \/ Rollback(c)
            BY <3>1, SameContextsKeep DEF Begin, Rollback, SameContexts
        <3>2. CASE Commit(c)
            <4>1. \E R : server' \in {AfterUnlockRecords(c, R), AfterUnlockAll(AfterUnlockRecords(c, R), c)}
                BY <3>2 DEF Commit
            <4>2. server'.opens = server.opens
                BY <4>1, CommandsKeepOpens
            <4> QED
                BY <3>2, <4>2, SameContextsKeep DEF Commit, SameContexts
        <3> QED
            BY <2>1, <3>1, <3>2
    <2>2. CASE UNCHANGED vars
        BY <2>2, SameContextsKeep DEF vars, SameContexts
    <2> QED
        BY <2>1, <2>2, StepContexts DEF Next
<1>3. TypeOK /\ ContextInv => SharedHasContext
    <2> SUFFICES ASSUME TypeOK, ContextInv, NEW a \in Area, isShared[a]
                 PROVE  ctxId[a] /\ Server!HasOpen(server, Conn(a))
        BY DEF SharedHasContext
    <2>1. ctxId[a] /\ a \in OpenedBy(Conn(a)) /\ Conn(a) \in Connection
        BY AreaAssumption DEF ContextInv, OpenedBy, Conn
    <2>2. IsFiniteSet(OpenedBy(Conn(a)))
        BY FS_Subset DEF OpenedBy
    <2>3. Cardinality(OpenedBy(Conn(a))) # 0 /\ Cardinality(OpenedBy(Conn(a))) \in Nat
        BY <2>1, <2>2, FS_EmptySet, FS_CardinalityType
    <2> QED
        BY <2>1, <2>3 DEF ContextInv, Server!HasOpen
<1> QED
    BY <1>1, <1>2, <1>3, AreaTypeCorrect, PTL DEF Spec
=============================================================================
