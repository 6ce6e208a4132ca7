--------------------------- MODULE MCConversions ---------------------------
EXTENDS Expressions, FiniteSets

MCFields == [x |-> [type |-> "C", length |-> "5"], n |-> [type |-> "N", length |-> "5"],
             l |-> [type |-> "L", length |-> "1"]]
NoneAdded == <<>>

Binary(op, S, T) == { Node(op, <<s, t>>) : s \in S, t \in T }
Unary(op, S) == { Node(op, <<s>>) : s \in S }

(* Expressions of each type, one level at a time. *)
Texts0 == {Leaf("x")}
Nums0 == {Leaf("n"), Leaf("2")}
Logs0 == {Leaf("l")}
Nums1 == Nums0 \cup Binary("+", {Leaf("n")}, Nums0) \cup Binary("*", {Leaf("n")}, Nums0)
               \cup Unary("neg", {Leaf("n")}) \cup Unary("val", Texts0)
Nums2 == Nums1 \cup Binary("*", Nums1, Nums1) \cup Unary("neg", Nums1)
               \cup Binary("+", Nums1, Unary("neg", Nums0))
               \cup Binary("+", Nums0, Unary("neg", Nums1 \ Unary("neg", {Leaf("n")})))
               \cup { Node("iif", <<Leaf("l"), a, Leaf("n")>>) : a \in Nums1 }
Texts1 == Texts0 \cup {Leaf("'a b'"), Node("left", <<Leaf("x"), Leaf("2")>>)}
Texts2 == Texts1 \cup Binary("cat", Texts1, Texts1)
Logs1 == Logs0 \cup Binary("=", Nums1, {Leaf("n")}) \cup Binary("$", Texts1, Texts2)
Logs2 == Logs0 \cup Binary(">", {Leaf("n")}, {Leaf("2")})
               \cup Binary("$", {Leaf("x")}, {Leaf("x")}) \cup Unary("not", Logs0)
               \cup Binary("and", Logs0, Binary("<>", Texts0, Texts0))
               \cup Binary("or", Logs0, Logs0) \cup Unary("not", Binary("=", Nums0, Nums0))
Trees == Nums2 \cup Texts2 \cup Logs1 \cup Unary("not", Logs1)
               \cup Binary("and", Logs2, Logs2) \cup Binary("or", Logs2, Logs2)
               \cup { Node("iif", <<c, Leaf("n"), Leaf("2")>>) : c \in Logs2 }

Style(gap, and, or, not) == [gap |-> gap, and |-> and, or |-> or, not |-> not]
Tight == Style("", ".and.", ".or.", "!")
Wide == Style(" ", ".AND.", ".OR.", ".NOT.")
Styles == { Tight, Wide, Style(" /*+*/ ", ".and.", ".or.", ".not."),
            Style(" ; // \n ", ".And.", ".Or.", "!") }

(* Logical literals: only where no space follows them. *)
Compared == Binary("=", {Leaf("l")}, {Leaf(".T."), Leaf(".f.")})
RECURSIVE Nested(_)
Nested(depth) == IF depth = 0 THEN Leaf("n")
                 ELSE Node("*", << Leaf("2"), Node("+", <<Nested(depth - 1), Leaf("n")>>) >>)

Ordinary == { [tree |-> t, style |-> s, kinds |-> {"any"}] : t \in Trees, s \in Styles }
            \cup { [tree |-> t, style |-> Tight, kinds |-> {"any"}] :
                     t \in Compared \cup Binary("or", Compared, Compared) }
            \cup { [tree |-> Nested(d), style |-> Tight, kinds |-> {"any"}] : d \in 1..2 }

-----------------------------------------------------------------------------
Column(type, length, decimals) == [type |-> type, length |-> length, decimals |-> decimals]
MCColumns == { Column("CHARACTER", 2, 0), Column("NUMERIC", 2, 0), Column("NUMERIC", 3, 0),
               Column("NUMERIC", 5, 0), Column("NUMERIC", 4, 1), Column("LOGICAL", 1, 0),
               Column("DATE", 8, 0), Column("TIMESTAMP", 8, 0), Column("MEMO_LONG", 10, 0),
               Column("CLOB", 10, 0) }
MCTexts == { <<>>, <<"blank">>, <<"a">>, <<"a", "blank">>, <<"blank", "b">>, <<"a", "b", "a">> }
MCNumbers == {0, 15, -990, 3000, 9990, -12340}
MCYears == {0, 1999, 9999}

VARIABLES field, record, row, expected

Values == INSTANCE FieldValues WITH Columns <- MCColumns, Texts <- MCTexts,
                                    Numbers <- MCNumbers, Years <- MCYears
ASSUME Values!FieldsAssumption

(* The two share no state: a behaviour is about expressions, when there is *)
(* no field, or about the values of a field.                               *)
NoField == [type |-> "none"]
ConversionsInit ==
    /\ Init
    /\ \/ Values!Init
       \/ field = NoField /\ record = <<>> /\ row = <<>> /\ expected = <<>>
OnExpressions == field = NoField /\ UNCHANGED <<field, record, row, expected>>
OnField == field # NoField /\ UNCHANGED vars
ConversionsNext ==
    \/ OnExpressions /\ Ask
    \/ OnExpressions /\ ParseText
    \/ OnExpressions /\ Translate
    \/ OnExpressions /\ Return
    \/ OnField /\ Values!OthersWrite
    \/ OnField /\ Values!Read
    \/ OnField /\ Values!Leave
    \/ OnField /\ Values!AppendBlank
    \/ OnField /\ Values!GetValue
    \/ OnField /\ Values!PutValue
    \/ OnField /\ Values!GoHot
    \/ OnField /\ Values!WriteFails
    \/ OnField /\ Values!InsertRecord
    \/ OnField /\ Values!UpdateRecord
ConversionsSpec == ConversionsInit /\ [][ConversionsNext]_<<vars, Values!vars>>

(* The program finds in a field what it put there, or what its row held    *)
(* (sdb_record_setValue, stmtSetParam, resultsetGetFieldValue).            *)
ValueIsKept == field # NoField => Values!ValueIsKept
=============================================================================
