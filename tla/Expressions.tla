---------------------------- MODULE Expressions ----------------------------
(***************************************************************************)
(* SDB_CLIPPEREXPRTOSQL: a work area is asked for the SQL of a Clipper     *)
(* expression, the text is parsed, its tree is translated and the answer   *)
(* is given back.  The requests are Clipper trees written in some style;   *)
(* the reference in ClipperTrees says what the answer has to mean.         *)
(***************************************************************************)
EXTENDS ExprToSql, ClipperTrees

CONSTANT
    Requests        \* the requests: a tree, its style and the kinds asked for

VARIABLES
    request,        \* the request under way: none or one
    text,           \* its text
    parsed,         \* what the parser made of it: none or one outcome
    answer          \* what the translator made of it: none or one outcome

vars == <<request, text, parsed, answer>>

Init == request = <<>> /\ text = "" /\ parsed = <<>> /\ answer = <<>>

Ask == /\ request = <<>>
       /\ \E r \in Requests : request' = <<r>> /\ text' = Show(r.tree, r.style)
       /\ UNCHANGED <<parsed, answer>>

(* sdb_expr_clipperExpression *)
ParseText ==
    /\ request # <<>> /\ parsed = <<>>
    /\ parsed' = LET p == Parse(text)
                 IN  << [ok |-> p.ok, root |-> ClipperExprs(text, p)] >>
    /\ UNCHANGED <<request, text, answer>>

(* sdb_api_clipperToSql calls the driver's clipperToSqlExpression. *)
Translate ==
    /\ parsed # <<>> /\ answer = <<>>
    /\ answer' = << ClipperToSql(Head(parsed).root, Head(request).kinds) >>
    /\ UNCHANGED <<request, text, parsed>>

(* The SQL is returned to the program and the expression is freed. *)
Return ==
    /\ answer # <<>>
    /\ request' = <<>> /\ text' = "" /\ parsed' = <<>> /\ answer' = <<>>

Next == Ask \/ ParseText \/ Translate \/ Return

Spec == Init /\ [][Next]_vars

(***************************************************************************)
(* Properties.                                                             *)
(***************************************************************************)
Tree == Head(request).tree
Sql == Head(answer)
IsLogicalField(name) == name \in DOMAIN Fields /\ Fields[name].type = "L"

(* Every well-formed expression of supported operators, fields and         *)
(* functions is accepted by the parser and has a translation, however it   *)
(* is spaced, commented or continued on another line                       *)
(* (sdb_expr_clipperExpression, sdb_ora_clipperToSql).                     *)
SupportedIsTranslated == answer # <<>> => Sql.status = "sql"

(* The translation means what the expression means: read back with the     *)
(* precedence of SQL, it is the tree of the expression.  The code keeps no *)
(* precedence of its own (its operators lean to the right and a sign takes *)
(* all that follows), writes no parentheses but those of the text, and     *)
(* turns a logical field into a condition only where it is not an operand  *)
(* of a relation (isParentRelational).                                     *)
MeaningIsKept ==
    answer # <<>> /\ Sql.status = "sql" =>
        ReadSql(Sql.sql, 1) = SqlOf(Tree, IsLogicalField, TRUE)
=============================================================================
