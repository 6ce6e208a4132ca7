------------------------------ MODULE WorkArea ------------------------------
(***************************************************************************)
(* A work area that moves over the rows of a table, changes the current    *)
(* row and appends rows, while other sessions change the table.            *)
(*                                                                         *)
(* The driver reads rows through the result set of the last query of the   *)
(* area (AreaCommands), which the database keeps as it was when the query  *)
(* was executed.  A movement takes the next row of the result set when the *)
(* statement still fits what is asked, asks for the rows after the current *)
(* one when it does not, and asks for the next key when the result set     *)
(* held the rows of one key only.  Rows the SQL does not exclude are       *)
(* skipped one by one (hb_waSkipFilter of Harbour).                        *)
(*                                                                         *)
(* A call of the RDD is one step: the other sessions act between calls.    *)
(* Functions that change the area are operators from the area and the rows *)
(* to the area.  A fetched row is read at once, so isValidBuffer is true   *)
(* between calls.  The table has one index, on a field.  The numbers of    *)
(* rows come from a sequence of the database.  Of the locks only the one   *)
(* of the current record is here: AreaLocks has the others.                *)
(***************************************************************************)
EXTENDS AreaCommands, FiniteSets

CONSTANTS
    MaxRecno,      \* bound on the numbers of rows
    MaxKey,        \* keys are 1 to MaxKey, 0 is the key of a blank record
    FilterKeys,    \* the rows that satisfy the filter of the program
    Filter,        \* its SQL
    NoKey,         \* area->keyValue is NULL
    Starts,        \* tables, modes and settings to start from
    Kept,          \* commands whose statements are not released early
    MaxChanges     \* bound on the changes of the table and of the settings

VARIABLES
    rows,     \* the rows of the table, by number
    changes,  \* changes of the table and of the settings so far
    call      \* what was done last, for RowCursor

vars == <<area, setDeleted, rows, changes, call>>

Recno == 1 .. MaxRecno
Blank == MaxRecno + 1         \* number of a blank record: above all others
Key == 0 .. MaxKey
Row == [key: Key, del: BOOLEAN]
Tables == UNION {[1 .. n -> Row] : n \in 0 .. MaxRecno}

ASSUME WorkAreaAssumption ==
    /\ {MaxRecno, MaxKey, MaxChanges} \subseteq Nat
    /\ FilterKeys \subseteq Key
    /\ NoKey \notin Key
    /\ Filters = {Filter}
    /\ MaxOrder = 1
    /\ Kept \subseteq Command
    /\ Starts \subseteq [rows: Tables, deleted: BOOLEAN, order: Order,
                         filter: Filters \cup {NoFilter}, block: BOOLEAN,
                         limits: BOOLEAN, exact: BOOLEAN, immediate: BOOLEAN]
    /\ \A start \in Starts : start.filter # NoFilter => start.block /\ ~start.limits

(* Numbers are taken in sequence; rows are marked, never removed.          *)
NextRecno(t) == Cardinality(DOMAIN t) + 1
Inserted(t, r) == [p \in 1 .. NextRecno(t) |-> IF p \in DOMAIN t THEN t[p] ELSE r]

(* locked is isLocked of the record.  granted is no state of the driver:    *)
(* the lock server has given the lock, which it is not asked for when a    *)
(* record is appended.                                                     *)
BlankRecord == [pk |-> Blank, key |-> 0, del |-> FALSE, locked |-> FALSE, granted |-> FALSE]
RowOf(t, p) == [pk |-> p, key |-> t[p].key, del |-> t[p].del]

(* The place of a row in an order: by key, then by number.                 *)
Rank(order, r) == (IF order > 0 THEN r.key ELSE 0) * (MaxRecno + 2) + r.pk

-----------------------------------------------------------------------------
(* Queries.  result: the rows of the result set that are not fetched yet;  *)
(* fetched: fetchCount of the statement is not 0.  steady is no state of   *)
(* the program: it has the rows that did not change since the last query.  *)

Select(t, sql) ==
    {p \in DOMAIN t : /\ sql.deleted => ~t[p].del
                      /\ sql.filter # NoFilter => t[p].key \in FilterKeys}

(* subqueryLimitsCondition: the lowest or highest key of all rows, which   *)
(* the filter is not part of.                                              *)
LimitKeys(t, sql) ==
    LET keys == {t[p].key : p \in {q \in DOMAIN t : sql.deleted => ~t[q].del}}
    IN  {k \in keys : \A j \in keys : IF sql.sort = "DESC" THEN j <= k ELSE j >= k}

(* Prepares and executes a command with the condition p \in S.             *)
RunQuery(a, t, cmd, sort, more, S) ==
    LET b == Prepared(a, Command \ Kept, cmd, sort, more)
        sql == b.commands[cmd].sql
        limited == {p \in DOMAIN t : sql.limits => t[p].key \in LimitKeys(t, sql)}
    IN  [b EXCEPT !.result = {RowOf(t, p) : p \in Select(t, sql) \cap limited \cap S},
                  !.fetched = FALSE,
                  !.steady = DOMAIN t]

CurrentStatement(a) == a.commands[a.current]

IsQueryMore(a) ==
    \/ CurrentStatement(a).more = "YES"
    \/ CurrentStatement(a).more = "IF_FOUND" /\ a.fetched

(* sdb_api_tableNextKey, from areaQueryNextKey.                            *)
QueryNextKey(a, t) ==
    LET down == CurrentStatement(a).sort = "DESC"
    IN  RunQuery(a, t, IF down THEN "NEXT_KEY_DESC" ELSE "NEXT_KEY_ASC",
                 IF down THEN "DESC" ELSE "ASC", "NO",
                 {p \in DOMAIN t : IF down THEN t[p].key < a.record.key ELSE t[p].key > a.record.key})

(* A faulty QueryNextRecord that does not go on with the next key.         *)
RestOfKeyOnly(a, t, sort) ==
    LET S == {p \in DOMAIN t : /\ IF sort = "DESC" THEN p < a.record.pk ELSE p > a.record.pk
                               /\ a.order > 0 => t[p].key = a.record.key}
    IN  RunQuery(a, t, IF sort = "DESC" THEN "NEXT_RECNO_DESC" ELSE "NEXT_RECNO_ASC", sort, "NO", S)

(* sdb_api_tableNextRecord: with an order the rest of the current key.     *)
QueryNextRecord(a, t, sort) ==
    LET down == sort = "DESC"
    IN  RunQuery(a, t, IF down THEN "NEXT_RECNO_DESC" ELSE "NEXT_RECNO_ASC",
                 sort, IF a.order > 0 THEN "YES" ELSE "NO",
                 {p \in DOMAIN t : /\ IF down THEN p < a.record.pk ELSE p > a.record.pk
                                   /\ a.order > 0 => t[p].key = a.record.key})

QueryLimit(a, t, cmd, sort) ==
    RunQuery(a, t, cmd, sort, IF a.limits /\ a.order > 0 THEN "IF_FOUND" ELSE "NO", DOMAIN t)
QueryTop(a, t) == QueryLimit(a, t, "GO_TOP", "ASC")
QueryBottom(a, t) == QueryLimit(a, t, "GO_BOTTOM", "DESC")

(* sdb_api_tableSeek.  The keys have the length of the field.              *)
QuerySeek(a, t, k, sort, soft) ==
    LET equal == a.exact /\ ~soft
    IN  RunQuery(a, t, IF equal THEN "SEEK_EXACT" ELSE "SEEK", sort,
                 IF equal THEN "IF_FOUND" ELSE "NO",
                 {p \in DOMAIN t : \/ t[p].key = k
                                   \/ ~equal /\ IF sort = "ASC" THEN t[p].key > k ELSE t[p].key < k})

QueryNumber(a, t, n) == RunQuery(a, t, "GO_TO_RECNO", "NO", "YES", {n})

-----------------------------------------------------------------------------
(* The record in memory.  keyValue: the key before the program changed it. *)
(* changed: the columns the program changed since the record was read.     *)
(* lost is no state of the program: the record is not the one the result   *)
(* set stands at, or there is none.                                        *)

WithRecord(a, r) == [a EXCEPT !.record = r, !.keyValue = NoKey, !.changed = {}]
ResetFlags(a) == [a EXCEPT !.found = FALSE, !.bof = FALSE, !.eof = FALSE]

(* sdb_rdd_readRecord.                                                     *)
ReadRow(a, r, bLock) ==
    WithRecord(a, [pk |-> r.pk, key |-> r.key, del |-> r.del, locked |-> bLock, granted |-> bLock])

(* The next row of the result set, in the order of its SQL.                *)
NextOf(a) ==
    LET sql == CurrentStatement(a).sql
    IN  CHOOSE r \in a.result : \A s \in a.result :
            IF sql.sort = "DESC" THEN Rank(sql.order, r) >= Rank(sql.order, s)
                                 ELSE Rank(sql.order, r) <= Rank(sql.order, s)

FetchRow(a) ==
    LET r == NextOf(a)
    IN  [ReadRow(ResetFlags(a), r, FALSE) EXCEPT !.result = @ \ {r}, !.fetched = TRUE,
                                                 !.lost = FALSE]

(* A faulty NothingFetched that keeps the last record after the last row.  *)
LastRecordKept(a, sort) ==
    IF sort = "DESC"
    THEN [ResetFlags(a) EXCEPT !.bof = TRUE]
    ELSE [ResetFlags(a) EXCEPT !.eof = TRUE, !.lost = FALSE]

NothingFetched(a, sort) ==
    IF sort = "DESC"
    THEN [ResetFlags(a) EXCEPT !.bof = TRUE]
    ELSE [WithRecord(ResetFlags(a), BlankRecord) EXCEPT !.eof = TRUE, !.lost = FALSE]

(* sdb_rdd_fetchNextRecord, with areaFetchNext and readRecord.             *)
FetchNextRecord(a, t, sort) ==
    IF IF sort = "DESC" THEN a.bof ELSE a.eof
    THEN [a EXCEPT !.found = FALSE]
    ELSE LET b == IF a.result = {} /\ IsQueryMore(a) THEN QueryNextKey(a, t) ELSE a
         IN  IF b.result = {} THEN NothingFetched(b, sort) ELSE FetchRow(b)

(* sdb_rdd_flushRecord, goCold, insertRecord and updateRecord: all columns *)
(* of the record are written.                                              *)
FlushedRow(r) == [key |-> r.key, del |-> r.del]
FlushedRows ==
    IF ~area.hot THEN rows
    ELSE IF area.append THEN Inserted(rows, FlushedRow(area.record))
    ELSE [rows EXCEPT ![area.record.pk] = FlushedRow(area.record)]
Flushed ==
    IF ~area.hot THEN area
    ELSE [area EXCEPT !.hot = FALSE, !.append = FALSE,
                      !.record.pk = IF area.append THEN NextRecno(rows) ELSE @,
                      !.steady = {p \in @ : FlushedRows[p] = rows[p]},
                      !.lost = @ /\ ~area.append]

(* GOTO 0.                                                                 *)
GoToNone(a) ==
    [WithRecord(ResetFlags(a), BlankRecord) EXCEPT
        !.bof = TRUE, !.eof = TRUE, !.lost = CurrentStatement(a).sort = "DESC"]

-----------------------------------------------------------------------------
(* Movements.  bottom is fBottom of the area.                              *)

KeyChanged(a) == a.order > 0 /\ a.keyValue # NoKey /\ a.keyValue # a.record.key

(* sdb_api_tableFromRecno.  After the last record only a movement back     *)
(* comes here: it starts from the bottom.                                  *)
FromRecno(a, t, sort) ==
    IF a.eof THEN QueryBottom([ResetFlags(a) EXCEPT !.bottom = TRUE], t)
    ELSE QueryNextRecord(a, t, sort)

(* rdd_skipRaw by one record, after the flush.                             *)
SkipRaw(a, t, sort) ==
    LET b == [a EXCEPT !.bottom = FALSE]
        query == \/ b.unpositioned
                 \/ DiscardCommand(b, CurrentStatement(b), sort)
                 \/ KeyChanged(b)
                 \/ b.redo
    IN  IF sort = "ASC" /\ b.eof THEN b
        ELSE FetchNextRecord(IF query THEN FromRecno(b, t, sort) ELSE b, t, sort)

(* What hb_waSkipFilter skips.                                             *)
IsHidden(a) ==
    \/ setDeleted /\ a.record.del
    \/ a.block /\ a.record.key \notin FilterKeys

PassHidden(a, t, sort) ==
    IF a.bof \/ a.eof \/ ~IsHidden(a) THEN a ELSE SkipRaw(a, t, sort)

(* Each turn takes a row of the result set it began with, or a row that it *)
(* asked for in its turn, and comes to none of either twice.               *)
MaxTurns == 2 * MaxRecno + 1
SkipHidden(a, t, sort) ==
    LET after[n \in 0 .. MaxTurns] ==
            IF n = 0 THEN a ELSE PassHidden(after[n - 1], t, sort)
    IN  after[MaxTurns]

SkipFilterDown(a, t) ==
    IF setDeleted \/ a.block THEN SkipHidden(a, t, "ASC") ELSE a

(* rdd_goTop, after the flush.                                             *)
GoTopOf(a, t) ==
    SkipFilterDown(FetchNextRecord(QueryTop([ResetFlags(a) EXCEPT !.bottom = FALSE], t), t, "ASC"), t)

(* Back over the first record: to the end after GO BOTTOM, else to the top.*)
SkipFilterUp(a, t) ==
    LET b == SkipHidden(a, t, "DESC")
    IN  IF ~(setDeleted \/ a.block) THEN a
        ELSE IF ~b.bof THEN b
        ELSE IF a.bottom THEN GoToNone(b)
        ELSE [GoTopOf(b, t) EXCEPT !.bof = TRUE]

SkipFilter(a, t, sort) == IF sort = "DESC" THEN SkipFilterUp(a, t) ELSE SkipFilterDown(a, t)

(* sdb_rdd_goBottom, after the flush.                                      *)
GoBottomOf(a, t) ==
    LET b == FetchNextRecord(QueryBottom([ResetFlags(a) EXCEPT !.bottom = TRUE], t), t, "DESC")
    IN  IF b.bof THEN [b EXCEPT !.lost = TRUE] ELSE SkipFilterUp(b, t)

(* hb_waSkip of Harbour, which repeats it for each record of SKIP n.       *)
SkipOf(a, t, sort) ==
    LET b == SkipFilter(SkipRaw(a, t, sort), t, sort)
    IN  IF sort = "DESC" THEN [b EXCEPT !.eof = FALSE] ELSE [b EXCEPT !.bof = FALSE]

(* rdd_goToId.                                                             *)
GoToOf(a, t, n) ==
    IF n = 0 THEN GoToNone(a) ELSE FetchNextRecord(QueryNumber(ResetFlags(a), t, n), t, "ASC")

(* rdd_seek, after the flush.                                              *)
SeekOf(a, t, k, soft, last) ==
    LET sort == IF last THEN "DESC" ELSE "ASC"
        b == FetchNextRecord(QuerySeek([ResetFlags(a) EXCEPT !.bottom = FALSE], t, k, sort, soft), t, sort)
        c == SkipFilter(b, t, sort)
    IN  IF b.bof \/ b.eof THEN [b EXCEPT !.lost = b.bof]
        ELSE IF c.eof THEN [c EXCEPT !.found = FALSE]
        ELSE IF soft \/ c.record.key = k THEN [c EXCEPT !.found = TRUE]
        ELSE GoToNone([c EXCEPT !.found = FALSE])

-----------------------------------------------------------------------------
(* The calls.  Each flushes first, when the code does; rows' then has what *)
(* was flushed, and the rest of the call works on that.                    *)

(* One more change, within the bound; movements are not bounded.           *)
CountChange == changes < MaxChanges /\ changes' = changes + 1

Becomes(a) == area' = a /\ UNCHANGED setDeleted
Moves(a) == rows' = FlushedRows /\ Becomes(a) /\ UNCHANGED changes

(* rdd_open, and the order and the filter the program chose first, with    *)
(* the movement to the top that follows.                                   *)
Opened(start) ==
    [order |-> start.order, orders |-> start.order > 0,
     filter |-> start.filter, block |-> start.block,
     limits |-> start.limits, exact |-> start.exact, immediate |-> start.immediate,
     commands |-> [c \in Command |-> NoStatement], current |-> "NONE",
     redo |-> TRUE, unpositioned |-> TRUE,
     result |-> {}, fetched |-> FALSE, steady |-> {}, record |-> BlankRecord,
     keyValue |-> NoKey, changed |-> {}, lost |-> FALSE, hot |-> FALSE, append |-> FALSE,
     bof |-> FALSE, eof |-> FALSE, found |-> FALSE, bottom |-> FALSE]

Init ==
    /\ changes = 0
    /\ call = <<"GO TOP">>
    /\ \E start \in Starts :
          /\ rows = start.rows
          /\ setDeleted = start.deleted
          /\ area = GoTopOf(Opened(start), start.rows)

Skip(sort) == Moves(SkipOf(Flushed, FlushedRows, sort))
GoTop == Moves(GoTopOf(Flushed, FlushedRows))
GoBottom == Moves(GoBottomOf(Flushed, FlushedRows))

(* GOTO of a number that no row has is left out (README, hazards).         *)
GoTo(n) ==
    /\ n \in DOMAIN rows \cup {0}
    /\ Moves(GoToOf(Flushed, FlushedRows, n))

Seek(k, soft, last) ==
    /\ area.order > 0
    /\ Moves(SeekOf(Flushed, FlushedRows, k, soft, last))

Flush == area.hot /\ Moves(Flushed)

(* A faulty Reloaded that takes the record it has for the locked row.      *)
NotReadAgain(a, t, cmd, bLock) == [a EXCEPT !.record.locked = bLock, !.record.granted = bLock]

(* sdb_rdd_reloadCurrentRecord, for RLOCK and for SKIP 0: the row is read  *)
(* by its number, and the current command and its result set are put back. *)
Reloaded(a, t, cmd, bLock) ==
    LET unused == Command \ (Kept \cup {a.current})
        b == ReadRow(Prepared(a, unused, cmd, "NO", "NO"), RowOf(t, a.record.pk), bLock)
    IN  [b EXCEPT !.current = a.current,
                  !.lost = @ \/ "key" \in a.changed \/ a.record.key # b.record.key]

(* What the reload needs: it loses track of pending changes of the         *)
(* statements and of the position, and expects the row (README, hazards).  *)
CanReload == ~area.eof /\ ~area.redo /\ ~area.unpositioned /\ area.record.pk \in DOMAIN rows

RLock ==
    /\ CanReload /\ ~area.record.locked
    /\ Becomes(Reloaded(area, rows, "LOCK_RECNO", TRUE))
    /\ UNCHANGED <<rows, changes>>

Reload ==
    /\ CanReload /\ ~area.hot
    /\ Becomes(Reloaded(area, rows, "GO_TO_RECNO", FALSE))
    /\ UNCHANGED <<rows, changes>>

(* rdd_goHot: the record must be locked.                                   *)
CanChange == ~area.eof /\ area.record.locked

(* rdd_putValue of the key.                                                *)
PutKey(k) ==
    /\ CanChange
    /\ Becomes([area EXCEPT !.hot = TRUE, !.record.key = k, !.changed = @ \cup {"key"},
                             !.keyValue = IF @ = NoKey /\ area.order > 0 THEN area.record.key ELSE @])
    /\ CountChange
    /\ UNCHANGED rows

(* rdd_deleteRec and rdd_recall.                                           *)
PutDeleted(del) ==
    /\ CanChange
    /\ Becomes([area EXCEPT !.hot = TRUE, !.record.del = del, !.changed = @ \cup {"del"}])
    /\ CountChange
    /\ UNCHANGED rows

Delete == PutDeleted(TRUE)
Recall == PutDeleted(FALSE)

(* rdd_append.  The record counts as locked, and nobody asks the server for *)
(* its lock, then or when the row is inserted.                             *)
Append ==
    LET t == FlushedRows
        a == [WithRecord(ResetFlags(Flushed), [BlankRecord EXCEPT !.locked = TRUE]) EXCEPT
                 !.hot = TRUE, !.append = TRUE, !.unpositioned = TRUE]
        n == NextRecno(t)
    IN  /\ n <= MaxRecno
        /\ CountChange
        /\ IF area.immediate
           THEN /\ rows' = Inserted(t, FlushedRow(BlankRecord))
                /\ Becomes([a EXCEPT !.hot = FALSE, !.append = FALSE, !.record.pk = n,
                                      !.lost = FALSE])
           ELSE rows' = t /\ Becomes(a)

-----------------------------------------------------------------------------
(* What the rows are shown by.                                             *)

(* The order changes while the key of the record is changed: coming back   *)
(* to the order of the result set, the driver does not know of the change. *)
OrderChosen(a, o) ==
    [a EXCEPT !.order = o, !.keyValue = NoKey,
              !.lost = @ \/ ("key" \in a.changed /\ o = CurrentStatement(a).order)]

OrderListFocus(o) ==
    /\ area.orders /\ o # area.order
    /\ Becomes(OrderChosen(area, o))
    /\ CountChange
    /\ UNCHANGED rows

OrderListAdd ==
    /\ ~area.orders
    /\ CountChange
    /\ rows' = FlushedRows
    /\ Becomes(GoTopOf([Flushed EXCEPT !.orders = TRUE, !.order = 1], FlushedRows))

OrderListClear ==
    /\ area.orders
    /\ CountChange
    /\ rows' = FlushedRows
    /\ Becomes([OrderChosen(Flushed, 0) EXCEPT !.orders = FALSE])

(* The SQL of a filter is not used together with the limits modes, whose   *)
(* subquery leaves the filter out (README, hazards).                       *)
SetAreaFilter(f) ==
    /\ f = NoFilter \/ ~area.limits
    /\ Becomes([FilterSet(area, f) EXCEPT !.block = TRUE])
    /\ CountChange
    /\ UNCHANGED rows

ClearAreaFilter ==
    /\ area.block
    /\ Becomes([FilterCleared(area) EXCEPT !.block = FALSE])
    /\ CountChange
    /\ UNCHANGED rows

ToggleDeleted ==
    /\ setDeleted' = ~setDeleted
    /\ CountChange
    /\ UNCHANGED <<area, rows>>

-----------------------------------------------------------------------------
(* The other sessions lock what they write: they leave alone the row whose *)
(* lock the program was granted, not the one it only appended.             *)
OthersWrite(p, r) ==
    /\ r # rows[p]
    /\ ~(area.record.granted /\ area.record.pk = p)
    /\ rows' = [rows EXCEPT ![p] = r]
    /\ area' = [area EXCEPT !.steady = @ \ {p}]
    /\ CountChange
    /\ UNCHANGED setDeleted

OthersAppend(k) ==
    /\ NextRecno(rows) + (IF area.append THEN 1 ELSE 0) <= MaxRecno
    /\ rows' = Inserted(rows, [key |-> k, del |-> FALSE])
    /\ CountChange
    /\ UNCHANGED <<area, setDeleted>>

Movement ==
    \/ \E sort \in {"ASC", "DESC"} : Skip(sort) /\ call' = <<"SKIP", sort>>
    \/ (GoTop \/ OrderListAdd) /\ call' = <<"GO TOP">>
    \/ GoBottom /\ call' = <<"GO BOTTOM">>
    \/ \E n \in 0 .. MaxRecno : GoTo(n) /\ call' = <<"GOTO", n>>
    \/ \E k \in 1 .. MaxKey, soft \in BOOLEAN, last \in BOOLEAN :
          /\ ~(soft /\ last)
          /\ Seek(k, soft, last)
          /\ call' = <<"SEEK", k, soft, last>>

Change ==
    \/ RLock \/ Reload
    \/ \E k \in 1 .. MaxKey : PutKey(k)
    \/ Delete \/ Recall
    \/ Flush

Setting ==
    \/ \E o \in Order : OrderListFocus(o)
    \/ OrderListClear
    \/ \E f \in {Filter, NoFilter} : SetAreaFilter(f)
    \/ ClearAreaFilter
    \/ ToggleDeleted

Others ==
    \/ \E p \in DOMAIN rows, r \in [key: 1 .. MaxKey, del: BOOLEAN] : OthersWrite(p, r)
    \/ \E k \in 1 .. MaxKey : OthersAppend(k)

Next ==
    \/ Movement
    \/ Append /\ call' = <<"APPEND">>
    \/ Change /\ call' = <<"CHANGE">>
    \/ Setting /\ call' = <<"SET">>
    \/ Others /\ call' = <<"OTHERS">>

Spec == Init /\ [][Next]_vars

-----------------------------------------------------------------------------
(* The place of the program: none while an appended row is not saved, nor  *)
(* on the blank record when it is not after the last row.                  *)
End == [pk |-> Blank + 1, key |-> 0]
Nowhere == [pk |-> 0, key |-> 0]
Place ==
    IF area.append \/ area.lost \/ (area.record.pk = Blank /\ ~area.eof) THEN Nowhere
    ELSE IF area.eof THEN End
    ELSE [pk |-> area.record.pk, key |-> area.record.key]

Cursor == INSTANCE RowCursor WITH
    Keys <- Key, ordered <- area.order > 0, hidesDeleted <- setDeleted, filtered <- area.block,
    at <- Place, edited <- "key" \in area.changed, steady <- area.steady,
    bof <- area.bof, found <- area.found

(* A call ends where RowCursor says: result sets that are read on, asked   *)
(* again, put back by a lock or outlived by changes of the order, of the   *)
(* filter and of the rows lose no row, show none twice and hide none that  *)
(* SKIP should stop on (rdd_skipRaw, sdb_rdd_api.c:1174).                  *)
RefinesRowCursor == Cursor!Spec

(* A save writes every column of the record, and yet of a row whose lock   *)
(* the server granted it changes only those the program changed: what      *)
(* another session wrote to the row before it was locked is kept, because  *)
(* the lock reads the row again (sdb_rdd_reloadCurrentRecord,              *)
(* sdb_rdd_api.c:326).  It does not hold of a row the program appended and *)
(* changes again: no lock keeps the others off that row.                   *)
NoLostUpdate ==
    [][LET p == area.record.pk
       IN  area.hot /\ area.record.granted =>
              /\ "key" \notin area.changed => rows'[p].key = rows[p].key
              /\ "del" \notin area.changed => rows'[p].del = rows[p].del]_vars

(* The record, the result set and the flags of a work area agree: after    *)
(* the last row the record is blank and has nothing to save, and the       *)
(* result set has rows of the table (sdb_rdd_fetchNextRecord,              *)
(* sdb_rdd_api.c:254).                                                     *)
TypeOK ==
    /\ rows \in Tables
    /\ area.record \in [pk: 1 .. Blank, key: Key, del: BOOLEAN, locked: BOOLEAN,
                       granted: BOOLEAN]
    /\ area.result \subseteq [pk: DOMAIN rows, key: Key, del: BOOLEAN]
    /\ area.steady \subseteq DOMAIN rows
    /\ area.changed \subseteq {"key", "del"}
    /\ area.current \in Command
    /\ area.eof => area.record = BlankRecord /\ ~area.hot
    /\ area.append => area.hot
    /\ changes \in 0 .. MaxChanges

=============================================================================
