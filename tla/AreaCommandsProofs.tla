------------------------- MODULE AreaCommandsProofs -------------------------
(***************************************************************************)
(* A statement that a command would run again is the one it would prepare. *)
(*                                                                         *)
(* The inductive invariant says of every statement what the driver noted   *)
(* of it: the SQL of a query has the order, the direction and the deleted  *)
(* flag noted beside it, the limits of the area, and, unless all queries   *)
(* are to be prepared again (redo), the filter of the area; the SQL of a   *)
(* command by number never changes; the SQL of a condition of the program  *)
(* is noted with no direction, with which no command is used.              *)
(***************************************************************************)
EXTENDS AreaCommands, TLAPS

PlainSql == [sort |-> "NO", order |-> 0, deleted |-> FALSE, filter |-> NoFilter,
             limits |-> FALSE, custom |-> FALSE]

(* What is known of the statement of a query.                              *)
QueryNoted(a, cmd) ==
    LET s == a.commands[cmd]
    IN  /\ s.sql.order = s.order
        /\ s.sql.deleted = s.deleted
        /\ s.sql.sort = s.sort
        /\ s.sort # "NO" =>
              /\ ~s.sql.custom
              /\ s.sql.limits = (cmd \in {"GO_TOP", "GO_BOTTOM"} /\ a.limits /\ s.order > 0)
              /\ a.redo \/ s.sql.filter = a.filter

Noted(a) ==
    \A cmd \in Command : a.commands[cmd] # NoStatement =>
        /\ cmd \in ByNumber => a.commands[cmd].sql = PlainSql
        /\ cmd \in QueryCommand => QueryNoted(a, cmd)

TypeCorrect == area \in AreaFields /\ setDeleted \in BOOLEAN
CommandsInv == TypeCorrect /\ Noted(area)

-----------------------------------------------------------------------------
(* Commands by number and queries are two kinds of commands.               *)
LEMMA TwoKinds ==
    /\ Command = ByNumber \cup QueryCommand
    /\ \A cmd \in ByNumber : cmd \notin QueryCommand
BY DEF Command, ByNumber, QueryCommand

(* The parts of a record of the fields of an area.                         *)
LEMMA FieldsOfArea ==
    ASSUME NEW a \in AreaFields
    PROVE  /\ a.order \in Order
           /\ a.filter \in Filters \cup {NoFilter}
           /\ a.limits \in BOOLEAN
           /\ a.redo \in BOOLEAN
           /\ a.unpositioned \in BOOLEAN
           /\ a.current \in Command \cup {"NONE"}
           /\ a.commands \in [Command -> Statement \cup {NoStatement}]
BY DEF AreaFields

(* Freeing statements keeps the rest of the area, and what is known.       *)
LEMMA ReleaseKeeps ==
    ASSUME NEW a \in AreaFields, Noted(a), NEW unused
    PROVE  LET b == ReleaseStatements(a, unused)
           IN  /\ b \in AreaFields
               /\ Noted(b)
               /\ b = [a EXCEPT !.commands = b.commands]
               /\ \A cmd \in Command : b.commands[cmd] = IF cmd \in unused THEN NoStatement
                                                         ELSE a.commands[cmd]
  <1> DEFINE b == ReleaseStatements(a, unused)
             freed == [c \in Command |-> IF c \in unused THEN NoStatement ELSE a.commands[c]]
  <1>1. freed \in [Command -> Statement \cup {NoStatement}]
    BY FieldsOfArea
  <1>2. b = [a EXCEPT !.commands = freed]
    BY DEF ReleaseStatements
  <1> HIDE DEF freed
  <1>3. b \in AreaFields /\ b.commands = freed
    BY <1>1, <1>2 DEF AreaFields
  <1>4. b.limits = a.limits /\ b.redo = a.redo /\ b.filter = a.filter
    BY <1>2 DEF AreaFields
  <1>5. \A cmd \in Command : freed[cmd] = IF cmd \in unused THEN NoStatement ELSE a.commands[cmd]
    BY DEF freed
  <1> HIDE DEF b
  <1>6. Noted(b)
    BY <1>3, <1>4, <1>5 DEF Noted, QueryNoted
  <1>7. b = [a EXCEPT !.commands = b.commands]
    BY <1>2, <1>3
  <1> QED
    BY <1>3, <1>5, <1>6, <1>7 DEF b

(* The command that closeQueryStatements was asked for has no statement    *)
(* left that does not fit, and nothing remains to be prepared again.       *)
LEMMA CloseKeeps ==
    ASSUME NEW a \in AreaFields, Noted(a), setDeleted \in BOOLEAN,
           NEW cmd \in Command, NEW sort \in Sort
    PROVE  LET b == CloseQueryStatements(a, cmd, sort)
           IN  /\ b \in AreaFields
               /\ Noted(b)
               /\ ~b.redo
               /\ b.order = a.order /\ b.filter = a.filter /\ b.limits = a.limits
               /\ cmd \in QueryCommand /\ b.commands[cmd] # NoStatement
                     => ~DiscardCommand(b, b.commands[cmd], sort)
  <1> DEFINE b == CloseQueryStatements(a, cmd, sort)
  <1>1. CASE a.redo
    <2> DEFINE r == ReleaseStatements(a, QueryCommand)
    <2>1. /\ r \in AreaFields
          /\ Noted(r)
          /\ r = [a EXCEPT !.commands = r.commands]
          /\ \A c \in Command : r.commands[c] = IF c \in QueryCommand THEN NoStatement
                                                ELSE a.commands[c]
      BY ReleaseKeeps
    <2> HIDE DEF r
    <2>2. r.order = a.order /\ r.filter = a.filter /\ r.limits = a.limits
      BY <2>1 DEF AreaFields
    <2>3. b = [r EXCEPT !.redo = FALSE]
      BY <1>1 DEF CloseQueryStatements, r
    <2> HIDE DEF b
    <2>4. /\ b \in AreaFields
          /\ b.redo = FALSE
          /\ b.commands = r.commands
          /\ b.order = r.order /\ b.filter = r.filter /\ b.limits = r.limits
      BY <2>1, <2>3 DEF AreaFields
    <2>5. \A c \in QueryCommand : b.commands[c] = NoStatement
      BY <2>1, <2>4, TwoKinds
    <2>6. Noted(b)
      BY <2>1, <2>4, <2>5, TwoKinds DEF Noted
    <2> QED
      BY <2>2, <2>4, <2>5, <2>6 DEF b
  <1>2. CASE ~a.redo
    <2> DEFINE r == ReleaseStatements(a, {cmd})
               unfit == /\ cmd \in QueryCommand
                        /\ a.commands[cmd] # NoStatement
                        /\ DiscardCommand(a, a.commands[cmd], sort)
    <2>1. CASE unfit
      <3>1. /\ r \in AreaFields
            /\ Noted(r)
            /\ r = [a EXCEPT !.commands = r.commands]
            /\ \A c \in Command : r.commands[c] = IF c \in {cmd} THEN NoStatement
                                                  ELSE a.commands[c]
        BY ReleaseKeeps
      <3>2. b = r
        BY <1>2, <2>1 DEF CloseQueryStatements
      <3> HIDE DEF r
      <3>3. /\ r.order = a.order /\ r.filter = a.filter /\ r.limits = a.limits
            /\ r.redo = a.redo
        BY <3>1 DEF AreaFields
      <3>4. r.commands[cmd] = NoStatement
        BY <3>1
      <3> QED
        BY <1>2, <3>1, <3>2, <3>3, <3>4
    <2>2. CASE ~unfit
      <3>1. b = a
        BY <1>2, <2>2 DEF CloseQueryStatements
      <3> QED
        BY <1>2, <2>2, <3>1
    <2> QED
      BY <2>1, <2>2
  <1> QED
    BY <1>1, <1>2, FieldsOfArea

(* The SQL that is built is an SQL.                                        *)
LEMMA SqlTypes ==
    ASSUME NEW a \in AreaFields, setDeleted \in BOOLEAN, NEW cmd \in Command, NEW sort \in Sort
    PROVE  SqlNow(a, cmd, sort) \in Sql /\ CustomSql(a) \in Sql
  <1>1. 0 \in Order /\ a.order \in Order
    BY CommandsAssumption, FieldsOfArea DEF Order
  <1>2. a.filter \in Filters \cup {NoFilter} /\ a.limits \in BOOLEAN
    BY FieldsOfArea
  <1>3. SqlNow(a, cmd, sort) \in Sql
    BY <1>1, <1>2 DEF SqlNow, Sql
  <1>4. CustomSql(a) \in Sql
    BY <1>1, <1>2 DEF CustomSql, Sql, Sort
  <1> QED
    BY <1>3, <1>4

(* What a command knows of its statement: the SQL is kept or it is the new *)
(* one, and what is noted is what holds now.                               *)
LEMMA PrepareIs ==
    ASSUME NEW a \in AreaFields, setDeleted \in BOOLEAN, NEW cmd \in Command,
           NEW sort \in Sort, NEW more \in More, NEW sql \in Sql
    PROVE  LET b == PrepareQueryCommand(a, cmd, sort, more, sql)
               s == b.commands[cmd]
           IN  /\ b \in AreaFields
               /\ b.redo = a.redo /\ b.filter = a.filter /\ b.limits = a.limits
               /\ \A c \in Command \ {cmd} : b.commands[c] = a.commands[c]
               /\ s.sql = IF a.commands[cmd] = NoStatement THEN sql ELSE a.commands[cmd].sql
               /\ s.sort = sort /\ s.order = a.order /\ s.deleted = setDeleted
  <1> DEFINE b == PrepareQueryCommand(a, cmd, sort, more, sql)
             kept == IF a.commands[cmd] = NoStatement THEN sql ELSE a.commands[cmd].sql
             s == [sql |-> kept, sort |-> sort, order |-> a.order, deleted |-> setDeleted,
                   more |-> more]
  <1>1. a.commands \in [Command -> Statement \cup {NoStatement}] /\ a.order \in Order
    BY FieldsOfArea
  <1>2. kept \in Sql
    BY <1>1 DEF Statement
  <1>3. s \in Statement
    BY <1>1, <1>2 DEF Statement
  <1>4. b = [a EXCEPT !.commands = [a.commands EXCEPT ![cmd] = s], !.current = cmd,
                      !.unpositioned = FALSE]
    BY DEF PrepareQueryCommand, AreaFields
  <1>5. s.sql = kept /\ s.sort = sort /\ s.order = a.order /\ s.deleted = setDeleted
    OBVIOUS
  <1> DEFINE new == [a.commands EXCEPT ![cmd] = s]
  <1> HIDE DEF s
  <1>6. /\ new \in [Command -> Statement \cup {NoStatement}]
        /\ new[cmd] = s
        /\ \A c \in Command \ {cmd} : new[c] = a.commands[c]
    BY <1>1, <1>3
  <1> HIDE DEF new, b
  <1>7. b = [a EXCEPT !.commands = new, !.current = cmd, !.unpositioned = FALSE]
    BY <1>4 DEF new
  <1>8. /\ b \in AreaFields
        /\ b.commands = new
        /\ b.redo = a.redo /\ b.filter = a.filter /\ b.limits = a.limits
    BY <1>6, <1>7 DEF AreaFields
  <1> QED
    BY <1>5, <1>6, <1>8 DEF b

(* A query leaves what is known true.                                      *)
LEMMA QueryKeeps ==
    ASSUME setDeleted \in BOOLEAN, NEW a \in AreaFields, Noted(a), NEW cmd \in Command,
           NEW sort \in UsesOf(cmd), NEW more \in More, NEW unused
    PROVE  Prepared(a, unused, cmd, sort, more) \in AreaFields
           /\ Noted(Prepared(a, unused, cmd, sort, more))
  <1> DEFINE r == ReleaseStatements(a, unused \ {cmd})
             b == CloseQueryStatements(r, cmd, sort)
             sql == SqlNow(b, cmd, sort)
             p == PrepareQueryCommand(b, cmd, sort, more, sql)
  <1>1. sort \in Sort /\ (cmd \in QueryCommand => sort # "NO") /\ (cmd \in ByNumber => sort = "NO")
    BY DEF UsesOf, Sort, Command, ByNumber, QueryCommand
  <1>2. setDeleted \in BOOLEAN
    OBVIOUS
  <1>3. r \in AreaFields /\ Noted(r)
    BY ReleaseKeeps
  <1>4. r.order = a.order /\ r.filter = a.filter /\ r.limits = a.limits
    <2>1. r = [a EXCEPT !.commands = r.commands]
      BY ReleaseKeeps
    <2> QED
      BY <2>1, <1>3 DEF AreaFields
  <1> HIDE DEF r
  <1>5. /\ b \in AreaFields
        /\ Noted(b)
        /\ ~b.redo
        /\ b.order = r.order /\ b.filter = r.filter /\ b.limits = r.limits
        /\ cmd \in QueryCommand /\ b.commands[cmd] # NoStatement
              => ~DiscardCommand(b, b.commands[cmd], sort)
    BY <1>1, <1>2, <1>3, CloseKeeps
  <1> HIDE DEF b
  <1>6. sql \in Sql
    BY <1>1, <1>2, <1>5, SqlTypes
  <1>7. Prepared(a, unused, cmd, sort, more) = PrepareQueryCommand(b, cmd, sort, more,
                                                                   SqlNow(a, cmd, sort))
    BY DEF Prepared, r, b
  <1>8. SqlNow(a, cmd, sort) = sql
    BY <1>4, <1>5 DEF SqlNow
  <1> HIDE DEF sql
  <1>9. /\ p \in AreaFields
        /\ p.redo = b.redo /\ p.filter = b.filter /\ p.limits = b.limits
        /\ \A c \in Command \ {cmd} : p.commands[c] = b.commands[c]
        /\ p.commands[cmd].sql = IF b.commands[cmd] = NoStatement THEN sql
                                 ELSE b.commands[cmd].sql
        /\ p.commands[cmd].sort = sort
        /\ p.commands[cmd].order = b.order
        /\ p.commands[cmd].deleted = setDeleted
    BY <1>1, <1>2, <1>5, <1>6, PrepareIs
  <1> HIDE DEF p
  <1>10. ASSUME cmd \in ByNumber PROVE p.commands[cmd].sql = PlainSql
    <2>1. b.commands[cmd] # NoStatement => b.commands[cmd].sql = PlainSql
      BY <1>5, <1>10 DEF Noted
    <2>2. sql = PlainSql
      BY <1>1, <1>10 DEF sql, SqlNow, PlainSql, ByNumber
    <2> QED
      BY <1>9, <2>1, <2>2
  <1>11. ASSUME cmd \in QueryCommand PROVE QueryNoted(p, cmd)
    <2>1. cmd \notin ByNumber
      BY <1>11, TwoKinds
    <2>2. CASE b.commands[cmd] = NoStatement
      <3>1. p.commands[cmd].sql = sql
        BY <1>9, <2>2
      <3>2. /\ sql.order = b.order /\ sql.deleted = setDeleted /\ sql.sort = sort
            /\ ~sql.custom /\ sql.filter = b.filter
            /\ sql.limits = (cmd \in {"GO_TOP", "GO_BOTTOM"} /\ b.limits /\ b.order > 0)
        BY <1>2, <2>1 DEF sql, SqlNow
      <3> QED
        BY <1>9, <3>1, <3>2 DEF QueryNoted
    <2>3. CASE b.commands[cmd] # NoStatement
      <3>1. ~DiscardCommand(b, b.commands[cmd], sort)
        BY <1>5, <1>11, <2>3
      <3>2. /\ b.commands[cmd].sort = sort
            /\ b.commands[cmd].order = b.order
            /\ b.commands[cmd].deleted = setDeleted
        BY <3>1 DEF DiscardCommand
      <3>3. QueryNoted(b, cmd)
        BY <1>5, <1>11, <2>3 DEF Noted
      <3>4. p.commands[cmd].sql = b.commands[cmd].sql
        BY <1>9, <2>3
      <3> QED
        BY <1>9, <3>2, <3>3, <3>4 DEF QueryNoted
    <2> QED
      BY <2>2, <2>3
  <1>12. Noted(p)
    <2> SUFFICES ASSUME NEW c \in Command, p.commands[c] # NoStatement
                 PROVE  /\ c \in ByNumber => p.commands[c].sql = PlainSql
                        /\ c \in QueryCommand => QueryNoted(p, c)
      BY DEF Noted
    <2>1. CASE c = cmd
      BY <1>10, <1>11, <2>1
    <2>2. CASE c # cmd
      BY <1>5, <1>9, <2>2 DEF Noted, QueryNoted
    <2> QED
      BY <2>1, <2>2
  <1> QED
    BY <1>7, <1>8, <1>9, <1>12 DEF p

(* The condition of the program takes the place of GO TOP's, which is      *)
(* freed: it is noted with no direction.                                   *)
LEMMA TableQueryKeeps ==
    ASSUME TypeCorrect, NEW a \in AreaFields, Noted(a), NEW unused
    PROVE  PreparedCustom(a, unused) \in AreaFields /\ Noted(PreparedCustom(a, unused))
  <1> DEFINE q == ReleaseStatements(a, unused)
             r == CloseQueryStatements(q, "GO_TOP", "NO")
             b == ReleaseStatements(r, {"GO_TOP"})
             p == PrepareQueryCommand(b, "GO_TOP", "NO", "NO", CustomSql(a))
  <1>1. setDeleted \in BOOLEAN
    BY DEF TypeCorrect
  <1>2. "GO_TOP" \in Command /\ "GO_TOP" \notin ByNumber /\ "NO" \in Sort /\ "NO" \in More
    BY DEF Command, ByNumber, QueryCommand, Sort, More
  <1>3. q \in AreaFields /\ Noted(q)
    BY ReleaseKeeps
  <1>4. q.order = a.order /\ q.filter = a.filter /\ q.limits = a.limits
    <2>1. q = [a EXCEPT !.commands = q.commands]
      BY ReleaseKeeps
    <2> QED
      BY <2>1, <1>3 DEF AreaFields
  <1> HIDE DEF q
  <1>5. r \in AreaFields /\ Noted(r) /\ r.order = q.order
    BY <1>1, <1>2, <1>3, CloseKeeps
  <1> HIDE DEF r
  <1>6. /\ b \in AreaFields
        /\ Noted(b)
        /\ b = [r EXCEPT !.commands = b.commands]
        /\ \A c \in Command : b.commands[c] = IF c \in {"GO_TOP"} THEN NoStatement
                                              ELSE r.commands[c]
    BY <1>5, ReleaseKeeps
  <1>7. b.order = r.order
    BY <1>5, <1>6 DEF AreaFields
  <1>8. b.commands["GO_TOP"] = NoStatement
    BY <1>2, <1>6
  <1>9. PreparedCustom(a, unused) = p
    BY DEF PreparedCustom, q, r, b
  <1> HIDE DEF b
  <1>10. CustomSql(a) \in Sql
    BY <1>1, <1>2, SqlTypes
  <1>11. /\ p \in AreaFields
         /\ p.redo = b.redo /\ p.filter = b.filter /\ p.limits = b.limits
         /\ \A c \in Command \ {"GO_TOP"} : p.commands[c] = b.commands[c]
         /\ p.commands["GO_TOP"].sql = CustomSql(a)
         /\ p.commands["GO_TOP"].sort = "NO"
         /\ p.commands["GO_TOP"].order = b.order
         /\ p.commands["GO_TOP"].deleted = setDeleted
    BY <1>1, <1>2, <1>6, <1>8, <1>10, PrepareIs
  <1> HIDE DEF p
  <1>12. QueryNoted(p, "GO_TOP")
    BY <1>4, <1>5, <1>7, <1>11 DEF QueryNoted, CustomSql
  <1>13. Noted(p)
    <2> SUFFICES ASSUME NEW c \in Command, p.commands[c] # NoStatement
                 PROVE  /\ c \in ByNumber => p.commands[c].sql = PlainSql
                        /\ c \in QueryCommand => QueryNoted(p, c)
      BY DEF Noted
    <2>1. CASE c = "GO_TOP"
      BY <1>2, <1>12, <2>1
    <2>2. CASE c # "GO_TOP"
      BY <1>6, <1>11, <2>2 DEF Noted, QueryNoted
    <2> QED
      BY <2>1, <2>2
  <1> QED
    BY <1>9, <1>11, <1>13

(* A change of the filter that sets redo whenever the filter differs keeps *)
(* what is known.                                                          *)
LEMMA FilterKeeps ==
    ASSUME NEW a \in AreaFields, Noted(a), NEW b \in AreaFields,
           b.commands = a.commands, b.limits = a.limits,
           a.redo => b.redo, b.filter # a.filter => b.redo
    PROVE  Noted(b)
BY DEF Noted, QueryNoted

(* To clear it does so.                                                    *)
LEMMA ClearKeeps ==
    ASSUME NEW a \in AreaFields, Noted(a)
    PROVE  /\ FilterCleared(a) \in AreaFields
           /\ Noted(FilterCleared(a))
           /\ FilterCleared(a).filter = NoFilter
  <1> DEFINE b == FilterCleared(a)
  <1>1. /\ b \in AreaFields
        /\ b.commands = a.commands /\ b.limits = a.limits /\ b.filter = NoFilter
        /\ a.redo => b.redo
        /\ b.filter # a.filter => b.redo
    BY DEF FilterCleared, AreaFields
  <1> HIDE DEF b
  <1>2. Noted(b)
    BY <1>1, FilterKeeps
  <1> QED
    BY <1>1, <1>2 DEF b

(* To set another one does.                                                *)
LEMMA SetKeeps ==
    ASSUME NEW a \in AreaFields, Noted(a), NEW f \in Filters \cup {NoFilter}
    PROVE  FilterSet(a, f) \in AreaFields /\ Noted(FilterSet(a, f))
  <1> DEFINE b == FilterCleared(a)
             c == FilterSet(a, f)
  <1>1. b \in AreaFields /\ Noted(b) /\ b.filter = NoFilter
    BY ClearKeeps
  <1>2. c = [b EXCEPT !.filter = f, !.redo = @ \/ f # NoFilter]
    BY DEF FilterSet
  <1> HIDE DEF b, c
  <1>3. /\ c \in AreaFields
        /\ c.commands = b.commands /\ c.limits = b.limits
        /\ b.redo => c.redo
        /\ c.filter # b.filter => c.redo
    BY <1>1, <1>2 DEF AreaFields
  <1>4. Noted(c)
    BY <1>1, <1>3, FilterKeeps
  <1> QED
    BY <1>3, <1>4 DEF c

(* To set its SQL does.                                                    *)
LEMMA SetSqlKeeps ==
    ASSUME NEW a \in AreaFields, Noted(a), NEW f \in Filters \cup {NoFilter}
    PROVE  SqlFilterSet(a, f) \in AreaFields /\ Noted(SqlFilterSet(a, f))
  <1> DEFINE b == SqlFilterSet(a, f)
  <1>1. /\ b \in AreaFields
        /\ b.commands = a.commands /\ b.limits = a.limits
        /\ a.redo => b.redo
        /\ b.filter # a.filter => b.redo
    BY DEF SqlFilterSet, AreaFields
  <1> HIDE DEF b
  <1>2. Noted(b)
    BY <1>1, FilterKeeps
  <1> QED
    BY <1>1, <1>2 DEF b

-----------------------------------------------------------------------------
(* The invariant holds at first.                                           *)
LEMMA InitInv == CommandsInit => CommandsInv
  <1> SUFFICES ASSUME CommandsInit PROVE CommandsInv
    OBVIOUS
  <1>1. PICK limits \in BOOLEAN :
            area = [order |-> 0, filter |-> NoFilter, limits |-> limits,
                    commands |-> [c \in Command |-> NoStatement],
                    current |-> "NONE", redo |-> TRUE, unpositioned |-> TRUE]
    BY DEF CommandsInit
  <1>2. 0 \in Order
    BY CommandsAssumption DEF Order
  <1>3. area \in AreaFields
    BY <1>1, <1>2 DEF AreaFields
  <1>4. \A c \in Command : area.commands[c] = NoStatement
    BY <1>1
  <1> QED
    BY <1>3, <1>4 DEF CommandsInit, CommandsInv, TypeCorrect, Noted

(* Every action keeps it.                                                  *)
LEMMA NextInv == CommandsInv /\ [CommandsNext]_<<area, setDeleted>> => CommandsInv'
  <1> SUFFICES ASSUME CommandsInv, [CommandsNext]_<<area, setDeleted>> PROVE CommandsInv'
    OBVIOUS
  <1> USE DEF CommandsInv
  <1> DEFINE Fine == area' \in AreaFields /\ Noted(area')
  <1>a. area \in AreaFields /\ setDeleted \in BOOLEAN /\ Noted(area)
    BY DEF TypeCorrect
  <1>b. ASSUME Fine, UNCHANGED setDeleted PROVE CommandsInv'
    BY <1>a, <1>b DEF TypeCorrect, Noted, QueryNoted, PlainSql
  <1>1. ASSUME NEW cmd \in Command, NEW more \in More, NEW unused \in SUBSET Command,
               NEW sort \in UsesOf(cmd), Query(cmd, sort, more, unused)
        PROVE  CommandsInv'
    <2>1. Fine
      BY <1>a, <1>1, QueryKeeps DEF Query
    <2> QED
      BY <1>1, <1>b, <2>1 DEF Query
  <1>2. ASSUME NEW unused \in SUBSET Command, TableQuery(unused) PROVE CommandsInv'
    <2>1. Fine
      BY <1>a, <1>2, TableQueryKeeps DEF TableQuery
    <2> QED
      BY <1>2, <1>b, <2>1 DEF TableQuery
  <1>3. ASSUME NEW o \in Order, ChooseOrder(o) PROVE CommandsInv'
    <2>1. /\ area' \in AreaFields
          /\ area'.commands = area.commands
          /\ area'.limits = area.limits /\ area'.redo = area.redo /\ area'.filter = area.filter
      BY <1>a, <1>3 DEF ChooseOrder, AreaFields
    <2>2. Noted(area')
      BY <1>a, <2>1 DEF Noted, QueryNoted
    <2> QED
      BY <1>3, <1>b, <2>1, <2>2 DEF ChooseOrder
  <1>4. ASSUME NEW f \in Filters \cup {NoFilter}, SetFilter(f) PROVE CommandsInv'
    <2>1. Fine
      BY <1>a, <1>4, SetKeeps DEF SetFilter
    <2> QED
      BY <1>4, <1>b, <2>1 DEF SetFilter
  <1>5. ASSUME NEW f \in Filters \cup {NoFilter}, SetSqlFilter(f) PROVE CommandsInv'
    <2>1. Fine
      BY <1>a, <1>5, SetSqlKeeps DEF SetSqlFilter
    <2> QED
      BY <1>5, <1>b, <2>1 DEF SetSqlFilter
  <1>6. CASE ClearFilter
    <2>1. Fine
      BY <1>a, <1>6, ClearKeeps DEF ClearFilter
    <2> QED
      BY <1>6, <1>b, <2>1 DEF ClearFilter
  <1>7. CASE LosePosition
    <2>1. /\ area' \in AreaFields
          /\ area'.commands = area.commands
          /\ area'.limits = area.limits /\ area'.redo = area.redo /\ area'.filter = area.filter
      BY <1>a, <1>7 DEF LosePosition, AreaFields
    <2>2. Noted(area')
      BY <1>a, <2>1 DEF Noted, QueryNoted
    <2> QED
      BY <1>7, <1>b, <2>1, <2>2 DEF LosePosition
  <1>8. CASE SetDeleted
    BY <1>a, <1>8 DEF SetDeleted, TypeCorrect, Noted, QueryNoted, PlainSql
  <1>9. CASE UNCHANGED <<area, setDeleted>>
    BY <1>a, <1>9 DEF TypeCorrect, Noted, QueryNoted, PlainSql
  <1> QED
    BY <1>1, <1>2, <1>3, <1>4, <1>5, <1>6, <1>7, <1>8, <1>9 DEF CommandsNext

(* A statement that would be run again, in the sense of Reusable, fits.    *)
LEMMA NotedFits ==
    ASSUME setDeleted \in BOOLEAN, NEW a \in AreaFields, Noted(a),
           NEW cmd \in Command, NEW sort \in UsesOf(cmd),
           a.commands[cmd] # NoStatement, ~(a.redo /\ cmd \in QueryCommand),
           cmd \in ByNumber \/ ~DiscardCommand(a, a.commands[cmd], sort)
    PROVE  a.commands[cmd].sql = SqlNow(a, cmd, sort)
  <1> DEFINE s == a.commands[cmd]
  <1>1. s # NoStatement
    OBVIOUS
  <1>2. CASE cmd \in ByNumber
    <2>1. s.sql = PlainSql
      BY <1>1, <1>2 DEF Noted
    <2>2. SqlNow(a, cmd, sort) = PlainSql
      BY <1>2 DEF SqlNow, PlainSql, ByNumber, UsesOf
    <2> QED
      BY <2>1, <2>2
  <1>3. CASE cmd \notin ByNumber
    <2>1. cmd \in QueryCommand /\ sort # "NO"
      BY <1>3, TwoKinds DEF UsesOf, QueryCommand
    <2>2. ~a.redo /\ s.sort = sort /\ s.order = a.order /\ s.deleted = setDeleted
      BY <1>3, <2>1, FieldsOfArea DEF DiscardCommand
    <2>3. QueryNoted(a, cmd)
      BY <1>1, <2>1 DEF Noted
    <2>4. s.sql \in Sql
      BY <1>1, FieldsOfArea DEF Statement
    <2>5. /\ s.sql.sort = sort /\ s.sql.order = a.order /\ s.sql.deleted = setDeleted
          /\ s.sql.filter = a.filter /\ s.sql.custom = FALSE
          /\ s.sql.limits = (cmd \in {"GO_TOP", "GO_BOTTOM"} /\ a.limits /\ a.order > 0)
      BY <2>1, <2>2, <2>3, <2>4 DEF QueryNoted, Sql
    <2>6. s.sql = [sort |-> s.sql.sort, order |-> s.sql.order, deleted |-> s.sql.deleted,
                   filter |-> s.sql.filter, limits |-> s.sql.limits, custom |-> s.sql.custom]
      BY <2>4 DEF Sql
    <2>7. SqlNow(a, cmd, sort) =
              [sort |-> sort, order |-> a.order, deleted |-> setDeleted, filter |-> a.filter,
               limits |-> cmd \in {"GO_TOP", "GO_BOTTOM"} /\ a.limits /\ a.order > 0,
               custom |-> FALSE]
      BY <1>3 DEF SqlNow
    <2> QED
      BY <2>5, <2>6, <2>7
  <1> QED
    BY <1>2, <1>3

(* The invariant implies that the statements fit.                          *)
LEMMA InvFits == CommandsInv => StatementsFit
  <1> SUFFICES ASSUME CommandsInv, NEW cmd \in Command, NEW sort \in UsesOf(cmd),
                      Reusable(cmd, sort)
               PROVE  area.commands[cmd].sql = SqlNow(area, cmd, sort)
    BY DEF StatementsFit
  <1>1. area \in AreaFields /\ setDeleted \in BOOLEAN /\ Noted(area)
    BY DEF CommandsInv, TypeCorrect
  <1> QED
    BY <1>1, NotedFits DEF Reusable

(* The fields of the area, its statements among them, have their types.    *)
THEOREM CommandsTypes == CommandsSpec => []TypeCorrect
  <1>1. CommandsInv => TypeCorrect
    BY DEF CommandsInv
  <1> QED
    BY <1>1, InitInv, NextInv, PTL DEF CommandsSpec

(* No statement is used again that is not the one the command would        *)
(* prepare, for any number of orders and filters, and whatever statements  *)
(* are freed in between (closeQueryStatements, sdb_api.c:531).             *)
THEOREM StatementsAlwaysFit == CommandsSpec => []StatementsFit
  <1> QED
    BY InitInv, NextInv, InvFits, PTL DEF CommandsSpec

=============================================================================
