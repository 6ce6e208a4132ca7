---------------------------- MODULE AreaCommands ----------------------------
(***************************************************************************)
(* The prepared statements of a work area.  A navigation command of the    *)
(* area (GO TOP, SEEK, the next key, ...) keeps its statement and runs it  *)
(* again; what its SQL depends on may change in between: the order, the    *)
(* direction, SET DELETED, the SQL filter.  The driver compares the first  *)
(* three with what it noted when it prepared the statement, and for the    *)
(* fourth it sets isRedoQueries, which frees every statement at the next   *)
(* query.  Statements of a thread that were not used for a while are freed *)
(* as well (releaseThreadUnusedStatements).                                *)
(*                                                                         *)
(* area is a record with at least the fields of AreaFields.  Of the SQL    *)
(* the model keeps what distinguishes two texts.  An order number always   *)
(* means the same index, as long as the program opens its indexes in the   *)
(* same sequence.  The modes of GO TOP and GO BOTTOM are fixed per area.   *)
(***************************************************************************)
EXTENDS Integers

CONSTANTS
    MaxOrder,      \* highest number of an order
    Filters,       \* SQL filters
    NoFilter,      \* area->sqlFilter is NULL
    NoStatement    \* the command has no statement

Order == 0 .. MaxOrder
Sort == {"NO", "ASC", "DESC"}
More == {"NO", "YES", "IF_FOUND"}

(* Commands by number only; their SQL depends on the context alone.        *)
ByNumber == {"GO_TO_RECNO", "LOCK_RECNO"}

(* SDB_CMD_FIRST_QUERY and above.                                          *)
QueryCommand == {"GO_TOP", "GO_BOTTOM", "SEEK", "SEEK_EXACT", "NEXT_RECNO_ASC",
                 "NEXT_RECNO_DESC", "NEXT_KEY_ASC", "NEXT_KEY_DESC"}
Command == ByNumber \cup QueryCommand

(* The directions in which each of them is used.                           *)
UsesOf(cmd) ==
    CASE cmd \in {"GO_TOP", "NEXT_RECNO_ASC", "NEXT_KEY_ASC"} -> {"ASC"}
      [] cmd \in {"GO_BOTTOM", "NEXT_RECNO_DESC", "NEXT_KEY_DESC"} -> {"DESC"}
      [] cmd \in {"SEEK", "SEEK_EXACT"} -> {"ASC", "DESC"}
      [] cmd \in ByNumber -> {"NO"}

(* What tells two statements of one command apart.  custom: the condition  *)
(* the program gave to tableQuery.                                         *)
Sql == [sort: Sort, order: Order, deleted: BOOLEAN, filter: Filters \cup {NoFilter},
        limits: BOOLEAN, custom: BOOLEAN]

(* The members of SDB_COMMAND.  They are read only of a command that has a *)
(* statement.                                                              *)
Statement == [sql: Sql, sort: Sort, order: Order, deleted: BOOLEAN, more: More]

ASSUME CommandsAssumption ==
    /\ MaxOrder \in Nat
    /\ NoFilter \notin Filters
    /\ NoStatement \notin Statement

VARIABLES
    area,        \* the work area
    setDeleted   \* hb_setGetDeleted(), of the thread

(* order: uiOrder; filter: sqlFilter; limits: uiQueryTopMode is QRY_TOP_MIN *)
(* and uiQueryBottomMode is QRY_BOTTOM_MAX; current: pCurrentCommand.      *)
AreaFields == [order: Order, filter: Filters \cup {NoFilter}, limits: BOOLEAN,
               commands: [Command -> Statement \cup {NoStatement}],
               current: Command \cup {"NONE"}, redo: BOOLEAN, unpositioned: BOOLEAN]

-----------------------------------------------------------------------------
(* The SQL of a command as it would be built now.  The condition of a      *)
(* command by number has neither the filter nor the deleted flag.          *)
SqlNow(a, cmd, sort) ==
    [sort    |-> sort,
     order   |-> IF cmd \in ByNumber THEN 0 ELSE a.order,
     deleted |-> cmd \notin ByNumber /\ setDeleted,
     filter  |-> IF cmd \in ByNumber THEN NoFilter ELSE a.filter,
     limits  |-> cmd \in {"GO_TOP", "GO_BOTTOM"} /\ a.limits /\ a.order > 0,
     custom  |-> FALSE]

CustomSql(a) ==
    [sort |-> "NO", order |-> a.order, deleted |-> setDeleted, filter |-> NoFilter,
     limits |-> FALSE, custom |-> TRUE]

(* The macro sdb_area_discardCommand.                                      *)
DiscardCommand(a, statement, sort) ==
    \/ statement.sort # sort
    \/ statement.order # a.order
    \/ statement.deleted # setDeleted

(* releaseThreadUnusedStatements, which a query calls first, spares its    *)
(* own command.                                                            *)
ReleaseStatements(a, unused) ==
    [a EXCEPT !.commands = [c \in Command |-> IF c \in unused THEN NoStatement ELSE a.commands[c]]]

CloseQueryStatements(a, cmd, sort) ==
    IF a.redo
    THEN [ReleaseStatements(a, QueryCommand) EXCEPT !.redo = FALSE]
    ELSE IF /\ cmd \in QueryCommand
            /\ a.commands[cmd] # NoStatement
            /\ DiscardCommand(a, a.commands[cmd], sort)
         THEN ReleaseStatements(a, {cmd})
         ELSE a

(* prepareQueryCommand, and the SQL built when it finds no statement.      *)
PrepareQueryCommand(a, cmd, sort, more, sql) ==
    [a EXCEPT !.commands[cmd] =
                  [sql     |-> IF a.commands[cmd] = NoStatement THEN sql ELSE a.commands[cmd].sql,
                   sort    |-> sort,
                   order   |-> a.order,
                   deleted |-> setDeleted,
                   more    |-> more],
              !.current = cmd,
              !.unpositioned = FALSE]

(* How every query of the area begins.                                     *)
Prepared(a, unused, cmd, sort, more) ==
    PrepareQueryCommand(CloseQueryStatements(ReleaseStatements(a, unused \ {cmd}), cmd, sort),
                        cmd, sort, more, SqlNow(a, cmd, sort))

(* tableQuery puts its statement in the place of GO TOP's, whatever was    *)
(* there.                                                                  *)
PreparedCustom(a, unused) ==
    LET b == ReleaseStatements(CloseQueryStatements(ReleaseStatements(a, unused), "GO_TOP", "NO"),
                               {"GO_TOP"})
    IN  PrepareQueryCommand(b, "GO_TOP", "NO", "NO", CustomSql(a))

(* A faulty FilterCleared after which the statements are used again.       *)
StatementsKept(a) == [a EXCEPT !.filter = NoFilter]

(* rdd_clearFilter.                                                        *)
FilterCleared(a) == [a EXCEPT !.filter = NoFilter, !.redo = @ \/ a.filter # NoFilter]

(* rdd_setFilter: the previous filter is cleared, and the new one becomes  *)
(* an SQL filter when it can be translated.                                *)
FilterSet(a, f) == [FilterCleared(a) EXCEPT !.filter = f, !.redo = @ \/ f # NoFilter]

(* SDB_SETSQLFILTER.                                                       *)
SqlFilterSet(a, f) ==
    [a EXCEPT !.filter = f, !.redo = @ \/ a.filter # NoFilter \/ f # NoFilter]

-----------------------------------------------------------------------------
(* sdb_area_init.                                                          *)
CommandsInit ==
    /\ setDeleted \in BOOLEAN
    /\ \E limits \in BOOLEAN :
          area = [order |-> 0, filter |-> NoFilter, limits |-> limits,
                  commands |-> [c \in Command |-> NoStatement],
                  current |-> "NONE", redo |-> TRUE, unpositioned |-> TRUE]

Query(cmd, sort, more, unused) ==
    /\ area' = Prepared(area, unused, cmd, sort, more)
    /\ UNCHANGED setDeleted

TableQuery(unused) ==
    /\ area' = PreparedCustom(area, unused)
    /\ UNCHANGED setDeleted

(* rdd_orderListAdd, rdd_orderListClear, rdd_orderListFocus.               *)
ChooseOrder(o) ==
    /\ area' = [area EXCEPT !.order = o]
    /\ UNCHANGED setDeleted

SetFilter(f) ==
    /\ area' = FilterSet(area, f)
    /\ UNCHANGED setDeleted

ClearFilter ==
    /\ area' = FilterCleared(area)
    /\ UNCHANGED setDeleted

SetSqlFilter(f) ==
    /\ area' = SqlFilterSet(area, f)
    /\ UNCHANGED setDeleted

(* rdd_append.                                                             *)
LosePosition ==
    /\ area' = [area EXCEPT !.unpositioned = TRUE]
    /\ UNCHANGED setDeleted

SetDeleted ==
    /\ setDeleted' = ~setDeleted
    /\ UNCHANGED area

CommandsNext ==
    \/ \E cmd \in Command, more \in More, unused \in SUBSET Command :
          \E sort \in UsesOf(cmd) : Query(cmd, sort, more, unused)
    \/ \E unused \in SUBSET Command : TableQuery(unused)
    \/ \E o \in Order : ChooseOrder(o)
    \/ \E f \in Filters \cup {NoFilter} : SetFilter(f) \/ SetSqlFilter(f)
    \/ ClearFilter
    \/ LosePosition
    \/ SetDeleted

CommandsSpec == CommandsInit /\ [][CommandsNext]_<<area, setDeleted>>

-----------------------------------------------------------------------------
(* The command would run the statement it has.                             *)
Reusable(cmd, sort) ==
    /\ area.commands[cmd] # NoStatement
    /\ ~(area.redo /\ cmd \in QueryCommand)
    /\ cmd \in ByNumber \/ ~DiscardCommand(area, area.commands[cmd], sort)

(* A statement that a command would run again is the one it would prepare: *)
(* no change of the order, the direction, the filter or SET DELETED is     *)
(* missed, in whatever order the changes, the queries and the releases of  *)
(* unused statements come (closeQueryStatements, sdb_api.c:531).           *)
StatementsFit ==
    \A cmd \in Command : \A sort \in UsesOf(cmd) :
        Reusable(cmd, sort) => area.commands[cmd].sql = SqlNow(area, cmd, sort)

=============================================================================
