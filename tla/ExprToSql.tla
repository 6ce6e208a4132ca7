----------------------------- MODULE ExprToSql -----------------------------
(***************************************************************************)
(* The translation of a Clipper expression into SQL: the visitor that      *)
(* turns the nodes of the parser into an expression (sdb_expr.c), the data *)
(* types of its operands and the text in the language of Oracle            *)
(* (sdb_ora_expr.c).  The SQL is the sequence of the tokens appended to    *)
(* the buffer, without the spaces between them.  Names are in lower case:  *)
(* the code compares them without case.                                    *)
(***************************************************************************)
EXTENDS ClipperParser, SequencesExt

CONSTANTS
    Fields,        \* field name -> its Clipper type and length
    Alias,         \* alias of the work area
    Added          \* translations added with SDB_ADDTRANSLATION

(***************************************************************************)
(* sdb_expr.c: the expression built by the visitor.                        *)
(***************************************************************************)
TypeOf ==
    [ StringLiteral |-> "string", NumberLiteral |-> "number",
      LogicalLiteral |-> "logical", DateTimeLiteral |-> "date",
      FunctionCall |-> "call", AliasedField |-> "field", AndExpression |-> "and",
      OrExpression |-> "or", PrefixedExpression |-> "prefix",
      RelationalExpression |-> "relational", MathExpression |-> "math",
      IfInLine |-> "iif", Variable |-> "variable", ParenthesesExpression |-> "par" ]

(* The value each enter function takes from the text. *)
ValueOf(text, node) ==
    CASE node.rule = "StringLiteral" -> SubSeq(text, node.from + 1, node.to - 2)
      [] node.rule \in {"NumberLiteral", "LogicalLiteral", "DateTimeLiteral"} ->
            TextOf(text, node)
      [] node.rule \in {"FunctionCall", "PrefixedExpression", "Variable"} ->
            TextOf(text, node.nodes[1])
      [] node.rule \in {"MathExpression", "RelationalExpression"} ->
            TextOf(text, node.nodes[2])
      [] node.rule = "AliasedField" ->
            TextOf(text, node.nodes[1]) \o "->" \o TextOf(text, node.nodes[2])
      [] OTHER -> ""

RECURSIVE ExprsOf(_, _)
ExprsOf(text, nodes) ==
    IF nodes = <<>> THEN <<>>
    ELSE LET node == Head(nodes)
             inside == ExprsOf(text, node.nodes)
         IN  (IF node.rule \in DOMAIN TypeOf
              THEN << [type |-> TypeOf[node.rule], value |-> ValueOf(text, node),
                       args |-> inside] >>
              ELSE inside) \o ExprsOf(text, Tail(nodes))

(* sdb_expr_clipperExpression: the arguments of the root, which is absent  *)
(* when the text is refused.                                               *)
ClipperExprs(text, parsed) ==
    IF parsed.ok THEN << ExprsOf(text, parsed.nodes) >> ELSE <<>>

(***************************************************************************)
(* The SQL of a part is empty when it has no translation: the code then    *)
(* gives up the whole expression.                                          *)
(***************************************************************************)
NoSql == <<>>
AllOf(parts) == IF \E i \in DOMAIN parts : parts[i] = NoSql THEN NoSql ELSE FlattenSeq(parts)
Tok(t) == <<t>>

(* sdb_product_addTranslation: a second translation of a name with as many *)
(* arguments is refused.                                                   *)
AddTranslation(ts, t) ==
    IF \E i \in DOMAIN ts : ts[i].name = t.name /\ ts[i].parCount = t.parCount
    THEN ts ELSE Append(ts, t)

(* registerTranslations: the ones the models use. *)
Registered ==
    << [name |-> "alltrim", parCount |-> 1, dataType |-> "C", sql |-> <<"TRIM", "(", "#1", ")">>],
       [name |-> "left", parCount |-> 2, dataType |-> "C",
        sql |-> <<"SUBSTR", "(", "#1", ",", "1", ",", "#2", ")">>],
       [name |-> "val", parCount |-> 1, dataType |-> "N",
        sql |-> <<"TO_NUMBER", "(", "#1", ")">>] >>

Translations == FoldLeft(AddTranslation, Registered, Added)

(* sdb_product_getTranslation: the translation itself, or none. *)
GetTranslation(name, count) ==
    SelectSeq(Translations, LAMBDA t : t.name = name /\ t.parCount = count)

ArgPos == [p \in {"#1", "#2", "#3"} |-> CHOOSE i \in 1..3 : p = <<"#1", "#2", "#3">>[i]]

(* sdb_expr_translate: the SQL of the arguments in the place of #1, #2... *)
ApplyTranslation(trans, args) ==
    IF trans.parCount # Len(args) THEN NoSql
    ELSE AllOf([i \in DOMAIN trans.sql |->
                  LET token == trans.sql[i]
                  IN  IF token \notin DOMAIN ArgPos THEN Tok(token)
                      ELSE IF ArgPos[token] <= Len(args) THEN args[ArgPos[token]] ELSE NoSql])

(***************************************************************************)
(* Data types: C, N, L, D, or U when nothing is known.                     *)
(***************************************************************************)
(* sdb_table_getField for the name of a variable or of an aliased field. *)
FieldOf(e) ==
    LET names == { f \in DOMAIN Fields :
                     IF e.type = "field" THEN e.value = Alias \o "->" \o f ELSE e.value = f }
    IN  { Fields[f] @@ [name |-> f] : f \in names }

NotWords == {"!", ".not.", ".NOT."}

RECURSIVE DataType(_)
DataType(e) ==
    LET arg(i) == DataType(e.args[i])
        firstKnown(i, j) == IF arg(i) = "U" THEN arg(j) ELSE arg(i)
    IN  CASE e.type = "call" ->
               LET trans == GetTranslation(e.value, Len(e.args))
               IN  IF trans = <<>> THEN "U" ELSE Head(trans).dataType
          [] e.type \in {"field", "variable"} ->
               IF FieldOf(e) = {} THEN "U" ELSE (CHOOSE f \in FieldOf(e) : TRUE).type
          [] e.type \in {"relational", "and", "or", "logical"} -> "L"
          [] e.type = "prefix" -> IF e.value \in NotWords THEN "L" ELSE "N"
          [] e.type = "string" -> "C"
          [] e.type = "number" -> "N"
          [] e.type = "date" -> "D"
          [] e.type = "math" ->
               IF e.value \in {"**", "%", "*", "/"} THEN "N"
               ELSE IF e.value \in {"+", "-"} THEN firstKnown(1, 2) ELSE "U"
          [] e.type = "iif" -> firstKnown(2, 3)
          [] e.type = "par" -> arg(1)

(* The operands defineExpressionDataType goes through read an argument     *)
(* that is not there: an empty pair of parentheses, an iif without its     *)
(* branches, a nil, which the visitor drops, in a sum.                     *)
RECURSIVE ReadsMissing(_)
ReadsMissing(e) ==
    LET n == Len(e.args)
        typed == IF e.type = "par" THEN 1..1 ELSE 1..n
    IN  \/ e.type = "par" /\ n = 0
        \/ e.type = "iif" /\ n < 2
        \/ \E i \in typed : ReadsMissing(e.args[i])
        \/ e.type = "iif" /\ n = 2 /\ DataType(e.args[2]) = "U"
        \/ /\ e.type = "math" /\ e.value \in {"+", "-"}
           /\ n = 0 \/ (n = 1 /\ DataType(e.args[1]) = "U")

(***************************************************************************)
(* sdb_ora_expr.c.  inRel is what isParentRelational answers for the node: *)
(* its closest ancestor that is not a pair of parentheses is a relation.   *)
(***************************************************************************)
(* clpVarToSql and clpFieldToSql. *)
FieldToSql(e, inRel, trigger) ==
    IF FieldOf(e) = {} THEN NoSql
    ELSE LET field == CHOOSE f \in FieldOf(e) : TRUE
         IN  (IF ~trigger THEN <<field.name>>
              ELSE IF field.type = "C"
                   THEN <<"RPAD", "(", ":NEW." \o field.name, ",", field.length, ")">>
                   ELSE <<":NEW." \o field.name>>)
             \o (IF field.type = "L" /\ ~inRel THEN <<"=", "'Y'">> ELSE <<>>)

(* The literals of clpExpressionToSql; clpDateToSql knows the dates that   *)
(* start with 0d only and writes a piece of the buffer for them.           *)
LiteralToSql(e) ==
    CASE e.type = "string" -> <<"'" \o e.value \o "'">>
      [] e.type = "number" -> <<e.value>>
      [] e.type = "logical" ->
            <<IF e.value \in {".T.", ".t.", ".Y.", ".y."} THEN "'Y'" ELSE "'N'">>
      [] e.type = "date" -> NoSql

RelationalSql ==
    [o \in {"=", ">=", "<=", "<>", ">", "<", "==", "!=", "#"} |->
        CASE o = "==" -> "=" [] o \in {"<>", "#"} -> "!=" [] OTHER -> o]

RECURSIVE ToSql(_, _, _)

(* clpFunctionCallToSql *)
FunctionCallToSql(e, trigger) ==
    LET trans == GetTranslation(e.value, Len(e.args))
        args == [i \in DOMAIN e.args |-> ToSql(e.args[i], FALSE, trigger)]
    IN  IF trans = <<>> \/ \E i \in DOMAIN args : args[i] = NoSql THEN NoSql
        ELSE ApplyTranslation(Head(trans), args)

(* clpAndExprToSql, clpOrExprToSql *)
LogicExprToSql(e, word, trigger) ==
    IF Len(e.args) # 2 THEN NoSql
    ELSE AllOf(<<ToSql(e.args[1], FALSE, trigger), Tok(word), ToSql(e.args[2], FALSE, trigger)>>)

(* clpPrefixExprToSql: both signs are written as a minus. *)
PrefixExprToSql(e, trigger) ==
    IF Len(e.args) # 1 THEN NoSql
    ELSE AllOf(<<Tok(IF e.value \in NotWords THEN "NOT" ELSE "-"),
                 ToSql(e.args[1], FALSE, trigger)>>)

(* clpMathExprToSql: the numeric difference is given up. *)
MathExprToSql(e, trigger) ==
    IF Len(e.args) # 2 THEN NoSql
    ELSE LET left == ToSql(e.args[1], FALSE, trigger)
             right == ToSql(e.args[2], FALSE, trigger)
             text == "C" \in {DataType(e.args[1]), DataType(e.args[2])}
         IN  CASE e.value = "**" -> AllOf(<<<<"POWER", "(">>, left, Tok(","), right, Tok(")")>>)
               [] e.value = "%"  -> AllOf(<<<<"MOD", "(">>, left, Tok(","), right, Tok(")")>>)
               [] e.value = "-" /\ text ->
                    AllOf(<<<<"RTRIM", "(">>, left, <<")", "||">>, right,
                            <<"||", "SUBSTR", "(">>, left, <<",", "LENGTH", "(", "RTRIM", "(">>,
                            left, <<")", ")", "+", "1", ")">> >>)
               [] e.value = "+" -> AllOf(<<left, Tok(IF text THEN "||" ELSE "+"), right>>)
               [] e.value \in {"*", "/"} -> AllOf(<<left, Tok(e.value), right>>)
               [] OTHER -> NoSql

(* A faulty RelationalExprToSql whose operands do not see the relation. *)
RelationNotSeen(e, trigger) ==
    IF Len(e.args) = 2 /\ e.value \in DOMAIN RelationalSql
    THEN AllOf(<<ToSql(e.args[1], FALSE, trigger), Tok(RelationalSql[e.value]),
                 ToSql(e.args[2], FALSE, trigger)>>)
    ELSE NoSql

(* clpRelationalExprToSql *)
RelationalExprToSql(e, trigger) ==
    IF Len(e.args) # 2 THEN NoSql
    ELSE LET left == ToSql(e.args[1], TRUE, trigger)
             right == ToSql(e.args[2], TRUE, trigger)
         IN  IF e.value \in {"$", "in"}
             THEN AllOf(<<<<"INSTR", "(">>, right, Tok(","), left, <<")", ">", "0">> >>)
             ELSE IF e.value \in DOMAIN RelationalSql
                  THEN AllOf(<<left, Tok(RelationalSql[e.value]), right>>)
                  ELSE NoSql

(* clpIIfToSql *)
IIfToSql(e, trigger) ==
    IF Len(e.args) # 3 THEN NoSql
    ELSE AllOf(<<<<"CASE", "WHEN">>, ToSql(e.args[1], FALSE, trigger),
                 Tok("THEN"), ToSql(e.args[2], FALSE, trigger),
                 Tok("ELSE"), ToSql(e.args[3], FALSE, trigger), Tok("END")>>)

(* clpParenthesesToSql *)
ParenthesesToSql(e, inRel, trigger) ==
    IF Len(e.args) # 1 THEN NoSql
    ELSE AllOf(<<Tok("("), ToSql(e.args[1], inRel, trigger), Tok(")")>>)

(* clpExpressionToSql *)
ToSql(e, inRel, trigger) ==
    CASE e.type = "call" -> FunctionCallToSql(e, trigger)
      [] e.type \in {"field", "variable"} -> FieldToSql(e, inRel, trigger)
      [] e.type = "and" -> LogicExprToSql(e, "AND", trigger)
      [] e.type = "or" -> LogicExprToSql(e, "OR", trigger)
      [] e.type = "prefix" -> PrefixExprToSql(e, trigger)
      [] e.type \in {"string", "number", "logical", "date"} -> LiteralToSql(e)
      [] e.type = "math" -> MathExprToSql(e, trigger)
      [] e.type = "relational" -> RelationalExprToSql(e, trigger)
      [] e.type = "iif" -> IIfToSql(e, trigger)
      [] e.type = "par" -> ParenthesesToSql(e, inRel, trigger)

(* The first node below the parentheses; none when a pair is empty. *)
RECURSIVE Stripped(_)
Stripped(exprs) ==
    IF exprs # <<>> /\ Head(exprs).type = "par" THEN Stripped(Head(exprs).args) ELSE exprs

(* sdb_ora_clipperToSql, for the kinds of expression the caller asks for: *)
(* root is empty for a refused text, and some expressions have no SQL.     *)
ClipperToSql(root, kinds) ==
    LET first == Stripped(Head(root))
        expr == Head(Head(root))
        condition == Head(first).type \in {"and", "or", "relational"}
        wanted == kinds \cap {"any", IF condition THEN "condition" ELSE "expression"} # {}
        sql == ToSql(expr, FALSE, "trigger" \in kinds)
    IN  IF root = <<>> THEN [status |-> "refused", sql |-> NoSql]
        ELSE IF first = <<>> \/ (wanted /\ ReadsMissing(expr))
             THEN [status |-> "fatal", sql |-> NoSql]
        ELSE IF ~wanted \/ sql = NoSql THEN [status |-> "none", sql |-> NoSql]
        ELSE [status |-> "sql",
              sql |-> IF "trigger" \in kinds /\ ~condition
                      THEN <<"NVL", "(", "RTRIM", "(">> \o sql \o <<")", ",", "' '", ")">>
                      ELSE sql]
=============================================================================
