---------------------------- MODULE FieldValues -----------------------------
(***************************************************************************)
(* The value of one field on its way between the program and the database: *)
(* the item of the program, the cell of the record, the parameter of the   *)
(* INSERT or UPDATE, the column, and back.  Saving writes every field, the *)
(* untouched ones too, so a cell that does not keep what the column held   *)
(* spoils it.  A memo is a row of a second table, written after the row    *)
(* itself; the column holds its length.                                    *)
(*                                                                         *)
(* Text is a sequence of characters, a number is counted in tenths, of a   *)
(* date the year stands for all, and 0 is the empty date.  The session     *)
(* locks the table before it reads the record, and has it locked while the *)
(* record is valid; it runs no transaction; the number of a new row is set *)
(* by the server, and text fields are right padded.                        *)
(***************************************************************************)
EXTENDS Integers, SequencesExt

CONSTANTS
    Columns,   \* fields: their type, length and decimals
    Texts, Numbers, Years

VARIABLES
    field,     \* the field
    record,    \* the record: the cell of the field and the state of the area
    row,       \* the row of the record in the table and in the memo table
    expected   \* history: the value the program is to find in the field

vars == <<field, record, row, expected>>

(* The fields of a table, and the values they are given.                   *)
Types == {"CHARACTER", "NUMERIC", "LOGICAL", "DATE", "TIMESTAMP", "MEMO_LONG", "CLOB"}
Year == 0 .. 9999
FieldsAssumption ==
    /\ Columns \subseteq [type : Types, length : Nat \ {0}, decimals : Nat]
    /\ Texts \subseteq Seq(STRING)
    /\ Numbers \subseteq Int
    /\ Years \subseteq Year

NULL == <<>>
IsLarge(f) == f.type \in {"MEMO_LONG", "CLOB"}

(* The cell of a large field holds its text or only a mark: 0 for none.    *)
Loaded(t) == [loaded |-> TRUE, text |-> t, mark |-> 0]
Marked(n) == [loaded |-> FALSE, text |-> <<>>, mark |-> n]

(* A text is a sequence of characters, of which only the blank matters.   *)
Blank == "blank"
Trimmed(t) == SubSeq(t, 1, SelectLastInSeq(t, LAMBDA c : c # Blank))

-----------------------------------------------------------------------------
(* The record.  A number without decimals is as wide as its length asks    *)
(* for; those of 5 digits and more are wider than Numbers.                 *)
TextCell(f, t) == SubSeq(t, 1, IF Len(t) > f.length THEN f.length ELSE Len(t))

Whole(n) == IF n >= 0 THEN 10 * (n \div 10) ELSE -10 * ((-n) \div 10)
Wrapped(n, bits) == 10 * (((n \div 10 + 2^(bits - 1)) % 2^bits) - 2^(bits - 1))

(* A faulty width of a byte for three digits.                              *)
ByteForThree(f) == IF f.length <= 3 THEN 8 ELSE 16

(* fieldSize, for up to 4 digits.                                          *)
Bits(f) == IF f.length < 3 THEN 8 ELSE 16

NumberCell(f, n) == IF f.decimals > 0 THEN n
                    ELSE IF f.length < 5 THEN Wrapped(Whole(n), Bits(f)) ELSE Whole(n)

(* hb_dateEncode takes the year as a CFL_UINT16, and is 0 past year 9999.  *)
DateCell(y) == LET year == y % 2^16 IN IF year <= 9999 THEN year ELSE 0

setFieldValue(f, v) ==
    CASE f.type = "CHARACTER" -> TextCell(f, v)
      [] f.type = "NUMERIC" -> NumberCell(f, v)
      [] f.type \in {"LOGICAL", "DATE", "TIMESTAMP"} -> v
      [] IsLarge(f) -> Loaded(v)

setFieldEmpty(f) ==
    CASE f.type = "CHARACTER" -> [i \in 1 .. f.length |-> Blank]
      [] f.type \in {"NUMERIC", "DATE", "TIMESTAMP"} -> 0
      [] f.type = "LOGICAL" -> FALSE
      [] IsLarge(f) -> Marked(0)

(* resultsetGetFieldValue without the text of a large field.               *)
FromColumn(f, c) ==
    CASE f.type = "CHARACTER" -> IF c = NULL THEN <<>> ELSE TextCell(f, Head(c))
      [] f.type = "NUMERIC" -> IF c = NULL THEN 0 ELSE NumberCell(f, Head(c))
      [] f.type = "LOGICAL" -> c = <<"Y">>
      [] f.type \in {"DATE", "TIMESTAMP"} -> IF c = NULL THEN 0 ELSE DateCell(Head(c))
      [] f.type = "MEMO_LONG" -> IF c = NULL THEN Marked(0) ELSE Marked(Head(c))
      [] f.type = "CLOB" -> IF c = NULL THEN Marked(0) ELSE Marked(1)

(* Its text, when it is asked for: sdb_oci_getMemoValue.                   *)
LargeText(f, r) == LET source == IF f.type = "MEMO_LONG" THEN r.memo ELSE r.column
                   IN  IF source = NULL THEN <<>> ELSE Head(source)

-----------------------------------------------------------------------------
(* The parameters of a statement.  setStmtValueForField allows no NULL.    *)
TextParam(t, trim) == LET s == IF trim THEN Trimmed(t) ELSE t
                      IN  IF s = <<>> THEN <<Blank>> ELSE s
LogicalParam(b) == IF b THEN "Y" ELSE "N"
NoDate == -4712
DateParam(y) == IF y = 0 THEN NoDate ELSE y

(* What the column takes, as createTable defines it.                       *)
Fits(f, v) ==
    CASE f.type = "CHARACTER" -> Len(v) <= f.length
      [] f.type = "NUMERIC" -> /\ v % (IF f.decimals = 0 THEN 10 ELSE 1) = 0
                               /\ v < 10^(f.length - f.decimals + 1)
                               /\ -v < 10^(f.length - f.decimals + 1)
      [] OTHER -> TRUE

NumberParam(f, n) == {m \in {n} : Fits(f, m)}

(* The item sdb_record_getValue makes of a cell: a timestamp is a number.  *)
ItemType(f, cell) ==
    CASE f.type = "CHARACTER" -> "text"
      [] f.type = "LOGICAL" -> "logical"
      [] f.type = "DATE" -> "date"
      [] f.type \in {"NUMERIC", "TIMESTAMP"} -> "number"
      [] IsLarge(f) -> IF cell.loaded THEN "text" ELSE "number"

(* A timestamp parameter takes dates and timestamps, a LOB parameter text, *)
(* but its variable takes none: it is neither dynamic nor of characters.   *)
IsDynamic(sqlType) == sqlType = "BIN"
TakesText(sqlType) == IsDynamic(sqlType) \/ sqlType = "CHR"
TimestampParam(f, y) == {z \in {y} : ItemType(f, y) \in {"date", "timestamp"}}
LobParam(f, cell) == {t \in {cell.text} : ItemType(f, cell) = "text" /\ TakesText("CLOB")}

(* The text of a memo: an empty one is NULL.                               *)
LongParam(t) == IF t = <<>> THEN NULL ELSE <<t>>

(* The values the statement can give the column, none when the parameter   *)
(* or the value is refused.                                                *)
stmtSetParam(f, cell, insertion) ==
    CASE f.type = "CHARACTER" -> {TextParam(cell, insertion)}
      [] f.type = "NUMERIC" -> NumberParam(f, cell)
      [] f.type = "LOGICAL" -> {LogicalParam(cell)}
      [] f.type = "DATE" -> {DateParam(cell)}
      [] f.type = "TIMESTAMP" -> TimestampParam(f, cell)
      [] f.type = "MEMO_LONG" -> {IF ItemType(f, cell) = "text" THEN Len(cell.text) ELSE cell.mark}
      [] f.type = "CLOB" -> LobParam(f, cell)

WritesMemo(f, cell) == f.type = "MEMO_LONG" /\ ItemType(f, cell) = "text"

(* What a column and a cell stand for: trailing blanks are none.           *)
Plain(f, v) == IF f.type = "CHARACTER" THEN Trimmed(v) ELSE v
Stands(f, r) ==
    CASE f.type = "CHARACTER" -> IF r.column = NULL THEN <<>> ELSE Trimmed(Head(r.column))
      [] f.type = "NUMERIC" -> IF r.column = NULL THEN 0 ELSE Head(r.column)
      [] f.type = "LOGICAL" -> r.column = <<"Y">>
      [] f.type \in {"DATE", "TIMESTAMP"} -> IF r.column \in {NULL, <<NoDate>>} THEN 0 ELSE Head(r.column)
      [] f.type = "MEMO_LONG" -> IF r.column \in {NULL, <<0>>} THEN <<>> ELSE LargeText(f, r)
      [] f.type = "CLOB" -> LargeText(f, r)
Shows(f, cell) ==
    IF ~IsLarge(f) THEN Plain(f, cell)
    ELSE IF cell.loaded THEN cell.text
    ELSE IF cell.mark > 0 THEN LargeText(f, row) ELSE <<>>

-----------------------------------------------------------------------------
Values(f) == CASE f.type = "NUMERIC" -> Numbers
               [] f.type = "LOGICAL" -> BOOLEAN
               [] f.type \in {"DATE", "TIMESTAMP"} -> Years
               [] OTHER -> Texts

(* Rows as other sessions write them, and as the columns are by default.   *)
Rows(f) ==
    LET column(v) == CASE f.type = "LOGICAL" -> LogicalParam(v)
                       [] f.type \in {"DATE", "TIMESTAMP"} -> DateParam(v)
                       [] f.type = "MEMO_LONG" -> Len(v)
                       [] OTHER -> v
    IN  {[column |-> NULL, memo |-> NULL]}
        \cup {[column |-> <<column(v)>>, memo |-> IF f.type = "MEMO_LONG" THEN LongParam(v) ELSE NULL] :
                v \in {w \in Values(f) : Fits(f, w)}}

(* number: the record has the number of its row.                           *)
Init ==
    /\ field \in Columns
    /\ row \in Rows(field)
    /\ record = [valid |-> FALSE, hot |-> FALSE, append |-> FALSE, number |-> FALSE,
                 cell |-> setFieldEmpty(field)]
    /\ expected = Stands(field, row)

OthersWrite ==
    /\ ~record.valid
    /\ row' \in Rows(field)
    /\ UNCHANGED <<field, record, expected>>

(* The table is locked and the record read: sdb_rdd_readRecord.            *)
Read ==
    /\ ~record.valid
    /\ record' = [record EXCEPT !.valid = TRUE, !.number = TRUE, !.cell = FromColumn(field, row.column)]
    /\ expected' = Stands(field, row)
    /\ UNCHANGED <<field, row>>

(* A movement and an unlock: the record was saved before.                  *)
Leave ==
    /\ record.valid /\ ~record.hot
    /\ record' = [record EXCEPT !.valid = FALSE]
    /\ UNCHANGED <<field, row, expected>>

(* rdd_append and sdb_rdd_blankRecord.                                     *)
AppendBlank ==
    /\ ~record.hot
    /\ record' = [valid |-> TRUE, hot |-> TRUE, append |-> TRUE, number |-> FALSE,
                  cell |-> setFieldEmpty(field)]
    /\ expected' = IF IsLarge(field) THEN <<>> ELSE setFieldEmpty(field)
    /\ UNCHANGED <<field, row>>

(* rdd_getValue of a large field.  A record that lost its number is given  *)
(* the memo of whatever has number 0.                                      *)
GetValue ==
    /\ record.valid /\ IsLarge(field) /\ ~record.cell.loaded
    /\ \E t \in IF record.cell.mark = 0 THEN {<<>>}
                ELSE IF record.number \/ field.type = "CLOB" THEN {LargeText(field, row)} ELSE Texts :
           record' = [record EXCEPT !.cell = Loaded(t)]
    /\ UNCHANGED <<field, row, expected>>

PutValue ==
    /\ record.valid
    /\ \E v \in Values(field) :
           /\ record' = [record EXCEPT !.hot = TRUE, !.cell = setFieldValue(field, v)]
           /\ expected' = v
    /\ UNCHANGED <<field, row>>

(* Another field is put, or this one is put a value of another type.       *)
GoHot ==
    /\ record.valid /\ ~record.hot
    /\ record' = [record EXCEPT !.hot = TRUE]
    /\ UNCHANGED <<field, row, expected>>

(* A statement that fails, or a parameter that is refused: the record      *)
(* stays hot and loses its number.                                         *)
WriteFails ==
    /\ record.hot
    /\ record' = [record EXCEPT !.number = FALSE]
    /\ UNCHANGED <<field, row, expected>>

(* sdb_api_insertRecord and insertMemos.                                   *)
InsertRecord ==
    /\ record.hot /\ record.append
    /\ \E c \in stmtSetParam(field, record.cell, TRUE) :
         \/ /\ row' = [column |-> <<c>>, memo |-> IF WritesMemo(field, record.cell)
                                                  THEN LongParam(record.cell.text) ELSE NULL]
            /\ record' = [record EXCEPT !.number = TRUE, !.hot = FALSE, !.append = FALSE]
         \/ /\ WritesMemo(field, record.cell)    \* the memo fails: a retry inserts again
            /\ row' = [column |-> <<c>>, memo |-> NULL]
            /\ record' = [record EXCEPT !.number = TRUE]
    /\ UNCHANGED <<field, expected>>

(* sdb_api_updateRecord and updateMemos.  Without its number the record    *)
(* updates no row, and is done.                                            *)
UpdateRecord ==
    /\ record.hot /\ ~record.append
    /\ \E c \in stmtSetParam(field, record.cell, FALSE) :
         \/ /\ row' = IF ~record.number THEN row
                      ELSE [column |-> <<c>>, memo |-> IF WritesMemo(field, record.cell)
                                                       THEN LongParam(record.cell.text) ELSE row.memo]
            /\ record' = [record EXCEPT !.hot = FALSE]
         \/ /\ WritesMemo(field, record.cell)    \* the memo fails: the record stays hot
            /\ row' = IF ~record.number THEN row ELSE [row EXCEPT !.column = <<c>>]
            /\ record' = record
    /\ UNCHANGED <<field, expected>>

Next == \/ OthersWrite \/ Read \/ Leave \/ AppendBlank \/ GetValue \/ PutValue \/ GoHot
        \/ WriteFails \/ InsertRecord \/ UpdateRecord

Spec == Init /\ [][Next]_vars

-----------------------------------------------------------------------------
(* The program finds in the field what it put there, or what the row held: *)
(* as long as the value fits the column, GET shows it, and once the record *)
(* is saved the row and its memo stand for it, whether the field was put,  *)
(* left blank or not touched, and whatever failed on the way.  Excepted is *)
(* a record that lost its number in a failed UPDATE (sdb_api_updateRecord).*)
ValueIsKept ==
    record.valid /\ (record.number \/ record.append) /\ Fits(field, expected) =>
        /\ Shows(field, record.cell) = Plain(field, expected)
        /\ ~record.hot => Stands(field, row) = Plain(field, expected)
=============================================================================
