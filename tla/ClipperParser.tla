--------------------------- MODULE ClipperParser ---------------------------
(***************************************************************************)
(* The parser of Clipper expressions (ClipperExpressionParser.c): one      *)
(* function per rule of a parsing expression grammar, each of which tries  *)
(* its alternatives in order, puts the position and the nodes back when it *)
(* fails and, when it is memoised, keeps its last outcome in one slot.     *)
(*                                                                         *)
(* A rule is a value (its expression, built with the constructors below)   *)
(* and Match is what the code generated for every rule does with it.  The  *)
(* dispatch of some rules on the first character is left out: it leads to  *)
(* the alternatives that can start with this character, in their order.    *)
(* Only semantic nodes are kept, the ones a visitor of the tree is shown.  *)
(***************************************************************************)
EXTENDS Naturals, Sequences

(* The constructors of a rule's expression. *)
Lit(str) == [op |-> "lit", str |-> str]
NoCase(str) == [op |-> "nocase", str |-> str]
OneOf(chars) == [op |-> "oneof", chars |-> chars]
AnyChar == [op |-> "any"]
EndOfText == [op |-> "end"]
Seq2(es) == [op |-> "seq", of |-> es]
Choice(es) == [op |-> "choice", of |-> es]
Opt(e) == [op |-> "opt", e |-> e]
Many(e) == [op |-> "many", e |-> e]
Some(e) == Seq2(<<e, Many(e)>>)
Not(e) == [op |-> "not", e |-> e]
Ahead(e) == [op |-> "ahead", e |-> e]
Rule(name) == [op |-> "rule", name |-> name]

LowerCase == "abcdefghijklmnopqrstuvwxyz"
UpperCase == "ABCDEFGHIJKLMNOPQRSTUVWXYZ"
CharsOf(str) == { SubSeq(str, i, i) : i \in 1..Len(str) }
Digits == CharsOf("0123456789")
Letters == CharsOf(LowerCase) \cup CharsOf(UpperCase)
WordChars == Letters \cup Digits \cup {"_"}

ToLower == [c \in CharsOf(UpperCase) |->
              LET i == CHOOSE k \in 1..26 : SubSeq(UpperCase, k, k) = c
              IN  SubSeq(LowerCase, i, i)]
Fold(c) == IF c \in DOMAIN ToLower THEN ToLower[c] ELSE c

(***************************************************************************)
(* Spacing.                                                                *)
(***************************************************************************)
Whitespace == Some(OneOf({" ", "\t", "\f"}))

LineComment ==
    Seq2(<<Choice(<<Lit("//"), Lit("&&")>>),
           Many(Seq2(<<Not(Choice(<<OneOf({"\n", "\r"}), EndOfText>>)), AnyChar>>))>>)

BlockComment ==
    Seq2(<<Lit("/*"), Many(Seq2(<<Not(Lit("*/")), AnyChar>>)), Lit("*/")>>)

(* A faulty ContinueNL that takes no comment before the end of the line. *)
WithoutComments ==
    Seq2(<<Lit(";"), Many(Rule("Whitespace")), Choice(<<Lit("\r\n"), Lit("\n")>>)>>)

ContinueNL ==
    Seq2(<<Lit(";"),
           Many(Choice(<<Rule("Whitespace"), Rule("LineComment"), Rule("BlockComment")>>)),
           Choice(<<Lit("\r\n"), Lit("\n")>>)>>)

OptionalSpacing ==
    Many(Choice(<<Rule("Whitespace"), Rule("LineComment"), Rule("BlockComment"),
                  Rule("ContinueNL")>>))

Spaces == Rule("OptionalSpacing")
TestNoAlpha == Not(OneOf(WordChars))

(***************************************************************************)
(* Names and literals.                                                     *)
(***************************************************************************)
IdentifierPattern == Seq2(<<OneOf(Letters \cup {"_"}), Many(OneOf(WordChars))>>)

AnyIdentifier == Seq2(<<Rule("IdentifierPattern"), Spaces>>)

VariablePattern ==
    Seq2(<<Rule("IdentifierPattern"),
           Not(Seq2(<<Choice(<<Lit("("), Lit("->")>>), Spaces>>))>>)

Variable == Seq2(<<Rule("VariablePattern"), Spaces>>)

AliasedField ==
    Seq2(<<Rule("AnyIdentifier"), Lit("->"), Spaces, Rule("AnyIdentifier")>>)

IntegerNumber == Some(OneOf(Digits))

NumberPattern ==
    Choice(<<Seq2(<<Rule("IntegerNumber"), Lit("."), Rule("IntegerNumber")>>),
             Seq2(<<Rule("IntegerNumber"), Lit("."), Not(OneOf(Letters))>>),
             Rule("IntegerNumber"),
             Seq2(<<Lit("."), Rule("IntegerNumber")>>)>>)

NumberLiteral ==
    Seq2(<<Rule("NumberPattern"), Many(OneOf({"?", "&", "_", "~"})), Spaces>>)

(* A string between two delimiters: no escape, no line break. *)
Delimited(from, to) ==
    Seq2(<<Lit(from), Many(Seq2(<<Not(OneOf({"\n", to})), AnyChar>>)), Lit(to)>>)

EscapedString ==
    Seq2(<<NoCase("e"), Lit("\""),
           Many(Choice(<<Seq2(<<Lit("\\"), Not(Lit("\n")), AnyChar>>),
                         Seq2(<<Not(OneOf({"\n", "\""})), AnyChar>>)>>)),
           Lit("\"")>>)

StringPattern ==
    Choice(<<Delimited("\"", "\""), Delimited("'", "'"), Delimited("[", "]"),
             EscapedString>>)

StringLiteral == Seq2(<<Rule("StringPattern"), Spaces>>)

LogicalPattern ==
    Seq2(<<Choice(<<NoCase(".T."), NoCase(".F."), NoCase(".Y."), NoCase(".N.")>>), Spaces>>)

LogicalLiteral == Seq2(<<Rule("LogicalPattern"), Spaces>>)

NilValue == Seq2(<<NoCase("nil"), TestNoAlpha, Spaces>>)

DatePattern ==
    LET sign == OneOf({"-", "/", "."})
    IN  Seq2(<<Rule("IntegerNumber"), sign, Rule("IntegerNumber"), sign,
               Rule("IntegerNumber")>>)

TimePattern ==
    Seq2(<<Rule("IntegerNumber"),
           Opt(Seq2(<<Lit(":"), Rule("IntegerNumber"),
                      Opt(Seq2(<<Lit(":"), Rule("IntegerNumber")>>)),
                      Opt(Seq2(<<Lit("."), Rule("IntegerNumber")>>))>>)),
           Opt(Choice(<<NoCase("AM"), NoCase("PM")>>))>>)

(* 0D and eight digits. *)
CompactDate == Seq2(<<NoCase("0D")>> \o [i \in 1..8 |-> OneOf(Digits)])

(* D and a date between quotes or brackets. *)
QuotedDate ==
    LET between(from, to) ==
          Seq2(<<Lit(from), Rule("DatePattern"),
                 Opt(Seq2(<<Opt(NoCase("T")), Rule("TimePattern")>>)), Lit(to)>>)
    IN  Seq2(<<NoCase("D"),
               Choice(<<between("\"", "\""), between("'", "'"), between("[", "]")>>)>>)

(* A date, a time or both between {^ and }. *)
BracedDate ==
    LET sign == OneOf({"-", "/"})
    IN  Seq2(<<Lit("{"), Lit("^"),
               Opt(Seq2(<<Rule("IntegerNumber"), sign, Rule("IntegerNumber"), sign,
                          Rule("IntegerNumber"), Opt(Lit(","))>>)),
               Opt(Rule("TimePattern")), Spaces, Lit("}")>>)

DateTimePattern == Choice(<<CompactDate, QuotedDate, BracedDate>>)

DateTimeLiteral == Seq2(<<Rule("DateTimePattern"), Spaces>>)

Literal ==
    Choice(<<Rule("StringLiteral"), Rule("NumberLiteral"), Rule("LogicalLiteral"),
             Rule("NilValue"), Rule("DateTimeLiteral")>>)

(***************************************************************************)
(* Lists, calls and inline conditions.                                     *)
(***************************************************************************)
ExpressionList ==
    Seq2(<<Opt(Rule("Expression")),
           Many(Seq2(<<Lit(","), Spaces, Opt(Rule("Expression"))>>))>>)

ParenthesesExpression ==
    Seq2(<<Lit("("), Spaces, Rule("ExpressionList"), Lit(")"), Spaces>>)

Parameter == Choice(<<Rule("Expression"), Ahead(Lit(")")), Ahead(Lit(","))>>)

CommaParameter == Seq2(<<Lit(","), Spaces, Rule("Parameter")>>)

ParameterCommaList == Many(Rule("CommaParameter"))

ParametersList == Seq2(<<Rule("Parameter"), Rule("ParameterCommaList")>>)

OptionalParametersList == Opt(Rule("ParametersList"))

ParParameters ==
    Seq2(<<Lit("("), Spaces, Rule("OptionalParametersList"), Lit(")"), Spaces>>)

FunctionCall == Seq2(<<Rule("AnyIdentifier"), Rule("ParParameters")>>)

IfKeyword == Seq2(<<Choice(<<NoCase("iif"), NoCase("if")>>), TestNoAlpha, Spaces>>)

IfInLine ==
    Seq2(<<IfKeyword, Lit("("), Spaces, Rule("Expression"),
           Lit(","), Spaces, Opt(Rule("Expression")),
           Lit(","), Spaces, Opt(Rule("Expression")), Lit(")"), Spaces>>)

(***************************************************************************)
(* Operators and the levels of an expression.                              *)
(***************************************************************************)
EqualOperator == Seq2(<<Lit("="), Not(OneOf({"=", ">"}))>>)
PlusSign == Seq2(<<Lit("+"), Not(Lit("+"))>>)
MinusSign == Seq2(<<Lit("-"), Not(Lit("-"))>>)

PrefixOperatorOnly ==
    Choice(<<NoCase(".not."), Seq2(<<Lit("!"), Not(Lit("="))>>), PlusSign, MinusSign>>)

PrefixOperator == Seq2(<<Rule("PrefixOperatorOnly"), Spaces>>)

PrefixedExpression == Seq2(<<Rule("PrefixOperator"), Rule("Expression")>>)

AtomicExpression ==
    Choice(<<Rule("PrefixedExpression"), Rule("AliasedField"), Rule("Literal"),
             Rule("IfInLine"), Rule("FunctionCall"), Rule("ParenthesesExpression"),
             Rule("Variable")>>)

MathOperatorOnly ==
    Choice(<<PlusSign, MinusSign, Lit("**"), Lit("*"), Lit("/"), Lit("%"),
             Lit("^^"), Lit("^"), Lit("|"), Lit("&")>>)

MathOperator == Seq2(<<Rule("MathOperatorOnly"), Spaces>>)

MathExpression ==
    Seq2(<<Rule("AtomicExpression"), Rule("MathOperator"), Rule("OptionalMathExpression")>>)

OptionalMathExpression == Choice(<<Rule("MathExpression"), Rule("AtomicExpression")>>)

RelationalOperatorOnly ==
    Choice(<<Lit(">="), Lit("<="), Lit("<>"), Lit("#"), Lit("!="), Lit(">"), Lit("<"),
             Lit("=="), Lit("$"), NoCase("in"), EqualOperator>>)

RelationalOperator == Seq2(<<Rule("RelationalOperatorOnly"), Spaces>>)

RelationalExpression ==
    Seq2(<<Rule("OptionalMathExpression"), Rule("RelationalOperator"),
           Rule("OptionalRelationalExpression")>>)

OptionalRelationalExpression ==
    Choice(<<Rule("RelationalExpression"), Rule("OptionalMathExpression")>>)

AndExpression ==
    Seq2(<<Rule("OptionalRelationalExpression"), NoCase(".and."), Spaces,
           Rule("OptionalAndExpression")>>)

OptionalAndExpression ==
    Choice(<<Rule("AndExpression"), Rule("OptionalRelationalExpression")>>)

OrExpression ==
    Seq2(<<Rule("OptionalAndExpression"), NoCase(".or."), Spaces, Rule("Expression")>>)

Expression == Choice(<<Rule("OrExpression"), Rule("OptionalAndExpression")>>)

ClipperExpression == Seq2(<<Rule("Expression"), EndOfText>>)

Grammar ==
    [ Whitespace |-> Whitespace, LineComment |-> LineComment,
      BlockComment |-> BlockComment, ContinueNL |-> ContinueNL,
      OptionalSpacing |-> OptionalSpacing, IdentifierPattern |-> IdentifierPattern,
      AnyIdentifier |-> AnyIdentifier, VariablePattern |-> VariablePattern,
      Variable |-> Variable, AliasedField |-> AliasedField,
      IntegerNumber |-> IntegerNumber, NumberPattern |-> NumberPattern,
      NumberLiteral |-> NumberLiteral, StringPattern |-> StringPattern,
      StringLiteral |-> StringLiteral, LogicalPattern |-> LogicalPattern,
      LogicalLiteral |-> LogicalLiteral, NilValue |-> NilValue,
      DatePattern |-> DatePattern, TimePattern |-> TimePattern,
      DateTimePattern |-> DateTimePattern, DateTimeLiteral |-> DateTimeLiteral,
      Literal |-> Literal, ExpressionList |-> ExpressionList,
      ParenthesesExpression |-> ParenthesesExpression, Parameter |-> Parameter,
      CommaParameter |-> CommaParameter, ParameterCommaList |-> ParameterCommaList,
      ParametersList |-> ParametersList,
      OptionalParametersList |-> OptionalParametersList,
      ParParameters |-> ParParameters, FunctionCall |-> FunctionCall,
      IfInLine |-> IfInLine, PrefixOperatorOnly |-> PrefixOperatorOnly,
      PrefixOperator |-> PrefixOperator, PrefixedExpression |-> PrefixedExpression,
      AtomicExpression |-> AtomicExpression, MathOperatorOnly |-> MathOperatorOnly,
      MathOperator |-> MathOperator, MathExpression |-> MathExpression,
      OptionalMathExpression |-> OptionalMathExpression,
      RelationalOperatorOnly |-> RelationalOperatorOnly,
      RelationalOperator |-> RelationalOperator,
      RelationalExpression |-> RelationalExpression,
      OptionalRelationalExpression |-> OptionalRelationalExpression,
      AndExpression |-> AndExpression, OptionalAndExpression |-> OptionalAndExpression,
      OrExpression |-> OrExpression, Expression |-> Expression,
      ClipperExpression |-> ClipperExpression ]

(* The rules that keep the nodes of the rules they call. *)
Atomic ==
    {"Whitespace", "LineComment", "BlockComment", "IdentifierPattern", "IntegerNumber",
     "NumberPattern", "StringPattern", "DatePattern", "TimePattern", "DateTimePattern",
     "PrefixOperatorOnly", "MathOperatorOnly", "RelationalOperatorOnly"}

(* The rules with a slot for their last outcome. *)
Memoised ==
    {"Variable", "ParenthesesExpression", "FunctionCall", "IfInLine", "AliasedField",
     "Parameter", "LogicalLiteral", "NilValue", "Literal", "DateTimeLiteral",
     "IntegerNumber", "TimePattern", "DatePattern", "Expression", "OrExpression",
     "OptionalAndExpression", "AndExpression", "OptionalRelationalExpression",
     "RelationalExpression", "OptionalMathExpression", "MathExpression",
     "AtomicExpression", "PrefixedExpression", "StringLiteral", "NumberLiteral",
     "AnyIdentifier", "IdentifierPattern", "Whitespace", "LineComment", "BlockComment",
     "ContinueNL", "OptionalSpacing"}

(* The rules whose node a visitor sees, with the name of this node; the    *)
(* nodes of the other rules are spliced out of the tree (removeSkipedNodes) *)
(* or are not semantic.                                                    *)
NodeOf ==
    [ ClipperExpression |-> "ClipperExpression", VariablePattern |-> "Variable",
      ExpressionList |-> "ExpressionList",
      ParenthesesExpression |-> "ParenthesesExpression",
      ParParameters |-> "ParParameters", FunctionCall |-> "FunctionCall",
      IfInLine |-> "IfInLine", AliasedField |-> "AliasedField",
      Parameter |-> "Parameter", LogicalPattern |-> "LogicalLiteral",
      NilValue |-> "NilValue", DateTimePattern |-> "DateTimeLiteral",
      IntegerNumber |-> "IntegerNumber", OrExpression |-> "OrExpression",
      AndExpression |-> "AndExpression",
      RelationalOperatorOnly |-> "RelationalOperator",
      RelationalExpression |-> "RelationalExpression",
      MathOperatorOnly |-> "MathOperator", MathExpression |-> "MathExpression",
      PrefixedExpression |-> "PrefixedExpression",
      PrefixOperatorOnly |-> "PrefixOperator", StringPattern |-> "StringLiteral",
      NumberPattern |-> "NumberLiteral", IdentifierPattern |-> "Identifier" ]

(***************************************************************************)
(* The parser: the text, the position, the nodes of the rule under way,    *)
(* whether an atomic rule is under way, and the slots of the memoised      *)
(* rules.                                                                  *)
(***************************************************************************)
NewParser(text) ==
    [text |-> text, at |-> 1, ok |-> TRUE, nodes |-> <<>>, atomic |-> FALSE,
     memo |-> [r \in Memoised |-> [from |-> 0, to |-> 0, nodes |-> <<>>]]]

CharAt(s, i) == IF i <= Len(s.text) THEN SubSeq(s.text, i, i) ELSE "END"

Advance(s, n) == [s EXCEPT !.ok = TRUE, !.at = @ + n]
Refused(s) == [s EXCEPT !.ok = FALSE]
(* r was only a test: the position and the nodes are those of s.  What     *)
(* fails puts them back itself.                                            *)
PutBack(r, s) == [r EXCEPT !.at = s.at, !.nodes = s.nodes]

MatchText(s, str, noCase) ==
    LET same(c, d) == c = d \/ (noCase /\ Fold(c) = Fold(d))
    IN  IF \A i \in 1..Len(str) : same(CharAt(s, s.at + i - 1), SubSeq(str, i, i))
        THEN Advance(s, Len(str)) ELSE Refused(s)

(* What a rule that was matched from s to r adds to the nodes of s. *)
AddNode(name, s, to, nodes) ==
    IF s.atomic THEN s.nodes
    ELSE s.nodes \o (IF name \in DOMAIN NodeOf
                     THEN << [rule |-> NodeOf[name], from |-> s.at, to |-> to,
                              nodes |-> nodes] >>
                     ELSE nodes)

(* A memoised rule whose last outcome was at this position. *)
Remembers(s, e) == e.op = "rule" /\ e.name \in Memoised /\ s.memo[e.name].from = s.at
Recalled(s, name) ==
    LET slot == s.memo[name]
    IN  IF slot.from <= slot.to
        THEN [s EXCEPT !.ok = TRUE, !.at = slot.to,
                       !.nodes = AddNode(name, s, slot.to, slot.nodes)]
        ELSE Refused(s)

RuleBegun(s, name) ==
    [s EXCEPT !.nodes = <<>>, !.atomic = @ \/ name \in Atomic]

(* r: what the body of the rule came to. *)
SlotOf(s, r) ==
    [from |-> s.at, to |-> IF r.ok THEN r.at ELSE 0,
     nodes |-> IF r.ok /\ ~s.atomic THEN r.nodes ELSE <<>>]

RECURSIVE Match(_, _), MatchAll(_, _, _), MatchFirst(_, _), MatchMany(_, _)

(* The rest es of a sequence that began in start. *)
MatchAll(es, s, start) ==
    LET r == Match(Head(es), s)
    IN  CASE ~r.ok       -> PutBack(r, start)
          [] Len(es) = 1 -> r
          [] OTHER       -> MatchAll(Tail(es), r, start)

MatchFirst(es, s) ==
    LET r == Match(Head(es), s)
    IN  CASE r.ok        -> r
          [] Len(es) = 1 -> r
          [] OTHER       -> MatchFirst(Tail(es), r)

MatchMany(e, s) ==
    LET r == Match(e, s)
    IN  IF r.ok THEN MatchMany(e, r) ELSE [r EXCEPT !.ok = TRUE]

Match(e, s) ==
    CASE Remembers(s, e)  -> Recalled(s, e.name)
      [] e.op = "rule" /\ ~Remembers(s, e) ->
             LET r == Match(Grammar[e.name], RuleBegun(s, e.name))
             IN  [r EXCEPT !.atomic = s.atomic,
                           !.nodes = IF r.ok THEN AddNode(e.name, s, r.at, r.nodes) ELSE s.nodes,
                           !.memo = IF e.name \in Memoised THEN [@ EXCEPT ![e.name] = SlotOf(s, r)]
                                                          ELSE @]
      [] e.op = "seq"    -> MatchAll(e.of, s, s)
      [] e.op = "choice" -> MatchFirst(e.of, s)
      [] e.op = "many"   -> MatchMany(e.e, s)
      [] e.op = "opt"    -> [Match(e.e, s) EXCEPT !.ok = TRUE]
      [] e.op = "not"    -> LET r == Match(e.e, s)
                            IN  [PutBack(r, s) EXCEPT !.ok = ~r.ok]
      [] e.op = "ahead"  -> PutBack(Match(e.e, s), s)
      [] e.op = "lit"    -> MatchText(s, e.str, FALSE)
      [] e.op = "nocase" -> MatchText(s, e.str, TRUE)
      [] e.op = "oneof"  -> IF CharAt(s, s.at) \in e.chars THEN Advance(s, 1) ELSE Refused(s)
      [] e.op = "any"    -> IF s.at <= Len(s.text) THEN Advance(s, 1) ELSE Refused(s)
      [] e.op = "end"    -> [s EXCEPT !.ok = s.at > Len(s.text)]

(* clipperExpressionParser_parse: the outcome of the first rule. *)
Parse(text) == Match(Rule("ClipperExpression"), NewParser(text))

TextOf(text, node) == SubSeq(text, node.from, node.to - 1)
=============================================================================
