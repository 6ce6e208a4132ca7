---------------------------- MODULE ClipperTrees ----------------------------
(***************************************************************************)
(* Reference definitions for the translation of expressions: the trees of  *)
(* Clipper expressions with the precedence of the language, how they are   *)
(* written, the SQL that means the same, and how SQL is read back by the   *)
(* precedence of SQL.  None of it follows the code of the translator.      *)
(***************************************************************************)
EXTENDS Naturals, Sequences, SequencesExt

Leaf(name) == [op |-> name, args |-> <<>>]
Node(op, args) == [op |-> op, args |-> args]
IsLeaf(t) == t.args = <<>>

(* The operators, from the ones that bind least.  cat is the sum of texts. *)
Precedence ==
    [o \in {"or", "and", "not", "=", ">", "<>", "$", "+", "cat", "*", "/", "neg"} |->
        CASE o = "or" -> 1 [] o = "and" -> 2 [] o = "not" -> 3
          [] o \in {"=", ">", "<>", "$"} -> 4 [] o \in {"+", "cat"} -> 5
          [] o \in {"*", "/"} -> 6 [] o = "neg" -> 7]
PrecedenceOf(t) == IF t.op \in DOMAIN Precedence THEN Precedence[t.op] ELSE 8

(***************************************************************************)
(* A tree as text: parentheses where the precedence needs them, binary     *)
(* operators to the left, and the gaps and spellings of a style.           *)
(***************************************************************************)
RECURSIVE Show(_, _)
Show(t, style) ==
    LET g == style.gap
        part(i, level) ==
          IF PrecedenceOf(t.args[i]) < level
          THEN "(" \o g \o Show(t.args[i], style) \o g \o ")" ELSE Show(t.args[i], style)
        level == PrecedenceOf(t)
        word == CASE t.op = "and" -> style.and [] t.op = "or" -> style.or
                  [] t.op = "cat" -> "+" [] OTHER -> t.op
    IN  CASE IsLeaf(t) -> t.op
          [] t.op \in {"left", "val", "iif"} ->
               t.op \o g \o "(" \o g \o Show(t.args[1], style)
                 \o (IF Len(t.args) > 1 THEN g \o "," \o g \o Show(t.args[2], style) ELSE "")
                 \o (IF Len(t.args) > 2 THEN g \o "," \o g \o Show(t.args[3], style) ELSE "")
                 \o g \o ")"
          [] t.op = "not" -> style.not \o g \o part(1, level)
          [] t.op = "neg" -> "-" \o g \o part(1, level + 1)
          [] OTHER -> part(1, IF level = 4 THEN 5 ELSE level) \o g \o word \o g
                        \o part(2, level + 1)

(***************************************************************************)
(* The SQL that means what a tree means, as a tree.  A logical field is a  *)
(* column of 'Y' and 'N'.                                                  *)
(***************************************************************************)
RECURSIVE SqlOf(_, _, _)
SqlOf(t, isLogical(_), asCondition) ==
    LET arg(i, cond) == SqlOf(t.args[i], isLogical, cond)
    IN  CASE IsLeaf(t) ->
               IF t.op \in {".T.", ".t."} THEN Leaf("'Y'")
               ELSE IF t.op \in {".F.", ".f."} THEN Leaf("'N'")
               ELSE IF isLogical(t.op) /\ asCondition
               THEN Node("=", <<Leaf(t.op), Leaf("'Y'")>>) ELSE Leaf(t.op)
          [] t.op \in {"and", "or"} ->
               Node(IF t.op = "and" THEN "AND" ELSE "OR", <<arg(1, TRUE), arg(2, TRUE)>>)
          [] t.op = "not" -> Node("NOT", <<arg(1, TRUE)>>)
          [] t.op = "neg" -> Node("neg", <<arg(1, FALSE)>>)
          [] t.op = "$" ->
               Node(">", << Node("INSTR", <<arg(2, FALSE), arg(1, FALSE)>>), Leaf("0") >>)
          [] t.op = "cat" -> Node("||", <<arg(1, FALSE), arg(2, FALSE)>>)
          [] t.op = "left" ->
               Node("SUBSTR", <<arg(1, FALSE), Leaf("1"), arg(2, FALSE)>>)
          [] t.op = "val" -> Node("TO_NUMBER", <<arg(1, FALSE)>>)
          [] t.op = "iif" -> Node("CASE", <<arg(1, TRUE), arg(2, FALSE), arg(3, FALSE)>>)
          [] t.op = "<>" -> Node("!=", <<arg(1, FALSE), arg(2, FALSE)>>)
          [] OTHER -> Node(t.op, <<arg(1, FALSE), arg(2, FALSE)>>)

(***************************************************************************)
(* SQL tokens read back: the operator that binds least, and among these    *)
(* the last one, is the root.  A minus at the start or after an operator   *)
(* is a sign.                                                              *)
(***************************************************************************)
SqlLevels == << {"OR"}, {"AND"}, {"NOT"}, {"=", ">", "<", ">=", "<=", "!="},
                {"+", "||", "-"}, {"*", "/"} >>
SqlOperators == UNION ToSet(SqlLevels)

Depth(ts, i) ==
    LET count(S) == Len(SelectSeq(SubSeq(ts, 1, i), LAMBDA t : t \in S))
    IN  count({"(", "CASE"}) - count({")", "END"})
IsSign(ts, i) == ts[i] = "-" /\ (i = 1 \/ ts[i - 1] \in SqlOperators)
(* Where the tokens of a level are, outside of any pair. *)
PlacesOf(ts, S) == { i \in 2..Len(ts) : ts[i] \in S /\ Depth(ts, i) = 0 /\ ~IsSign(ts, i) }

RECURSIVE ReadSql(_, _)
ReadSql(ts, level) ==
    LET n == Len(ts)
        places(S) == PlacesOf(ts, S)
        binary(i) == Node(ts[i], << ReadSql(SubSeq(ts, 1, i - 1), level),
                                    ReadSql(SubSeq(ts, i + 1, n), level + 1) >>)
        commas == { i \in 3..n : ts[i] = "," /\ Depth(ts, i) = 1 }
        cuts == SetToSortSeq({2, n} \cup commas, <)
        at(word) == Max({ i \in 1..n : ts[i] = word /\ Depth(ts, i) = 1 })
        inside(i, j) == ReadSql(SubSeq(ts, i + 1, j - 1), 1)
    IN  CASE n = 1 -> Leaf(ts[1])
          [] n = 0 -> Leaf("nothing")
          [] n > 1 /\ level <= 6 ->
               IF SqlLevels[level] = {"NOT"} /\ ts[1] = "NOT"
               THEN Node("NOT", << ReadSql(Tail(ts), level) >>)
               ELSE IF places(SqlLevels[level]) # {}
               THEN binary(Max(places(SqlLevels[level]))) ELSE ReadSql(ts, level + 1)
          [] OTHER ->
               IF ts[1] = "-" THEN Node("neg", << ReadSql(Tail(ts), level) >>)
               ELSE IF ts[1] = "(" /\ ts[n] = ")" THEN inside(1, n)
               ELSE IF ts[1] = "CASE"
               THEN Node("CASE", << inside(2, at("THEN")), inside(at("THEN"), at("ELSE")),
                                    inside(at("ELSE"), n) >>)
               ELSE Node(ts[1], [k \in 1..(Len(cuts) - 1) |-> inside(cuts[k], cuts[k + 1])])
=============================================================================
