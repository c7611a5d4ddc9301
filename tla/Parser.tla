-------------------------------- MODULE Parser -------------------------------
(***************************************************************************)
(* From tokens to the syntax tree: parser/recursive_descent.rs.            *)
(*                                                                         *)
(* A token is a record with a kind k and a text or parts v (Lexer); the    *)
(* last one is of kind "eof".  A node of the tree is a record: its kind n, *)
(* a name, operator or text v, and its children.                           *)
(*                                                                         *)
(* Most productions are a fixed sequence of tokens and of other            *)
(* productions; they are written as that sequence, with the names of       *)
(* productions in angle brackets, and Items follows it.  The context c     *)
(* holds the tokens and in_prep_block.  An operator returns the node it    *)
(* made and the token it stopped at, or at = 0 for an error.               *)
(***************************************************************************)
EXTENDS Integers, Sequences

Node(n, v, kids) == [n |-> n, v |-> v, kids |-> kids]
Leaf(n, v)       == Node(n, v, <<>>)
Nothing          == Leaf("none", <<>>)
Parsed(i, node)  == [at |-> i, ast |-> node]
Failed           == [at |-> 0, ast |-> Nothing]

(* check compares kinds only: `set` after `static.` may be any name.       *)
Sees(c, i, k) == c.toks[i].k = k

(* Words that may follow @ as the name of a variable.                      *)
VariableName ==
  {"name", "var", "static", "prep", "try", "fallback", "loop", "browse", "async_browse",
   "terminate", "dont_panic", "match", "assert_eq", "assert_neq", "assert_gt", "assert_ge",
   "assert_lt", "assert_le", "assert_match", "procedure", "shared", "if", "else", "run_test"}

Assertion == {"assert_eq", "assert_neq", "assert_gt", "assert_ge", "assert_lt", "assert_le",
              "assert_match"}

(* Mutant: comparisons bind tighter than sums.                             *)
BinaryOpsSwapped == <<{"||"}, {"&&"}, {"==", "!="}, {"+", "-"}, {"<", "<=", ">", ">="}, {"*", "/", "%"}>>

(* The expression operators from loosest to tightest, all left-associative. *)
BinaryOps == <<{"||"}, {"&&"}, {"==", "!="}, {"<", "<=", ">", ">="}, {"+", "-"}, {"*", "/", "%"}>>
-----------------------------------------------------------------------------
(* Following a production.                                                 *)

Productions == {"<expression>", "<statement>", "<name>", "<string>", "<method>", "<body>", "<fallbacks>", "<else>",
                "<shared>", "<arguments>", "<elements>", "<entries>", "<parameters>",
                "<call>", "<arms>"}

(* What r is used for, unless it failed.                                   *)
IfParsed(r, Then(_)) == IF r.at = 0 THEN Failed ELSE Then(r)

RECURSIVE Produce(_, _, _), Items(_, _, _, _)
Items(c, i, items, kids) ==
  LET Rest(r) == Items(c, r.at, Tail(items), Append(kids, r.ast))
  IN IF i = 0 \/ items = <<>> THEN [at |-> i, kids |-> kids]
     ELSE IF Head(items) \in Productions THEN Rest(Produce(c, i, Head(items)))
     ELSE Items(c, IF Sees(c, i, Head(items)) THEN i + 1 ELSE 0, Tail(items), kids)

Make(c, i, n, v, items) ==
  IfParsed(Items(c, i, items, <<>>), LAMBDA r : Parsed(r.at, Node(n, v, r.kids)))

(* One or more of them, with commas between.                               *)
RECURSIVE Several(_, _, _, _)
Several(c, i, items, kids) ==
  LET Rest(r) ==
        IF r.at # 0 /\ Sees(c, r.at, ",") THEN Several(c, r.at + 1, items, kids \o r.kids)
        ELSE [at |-> r.at, kids |-> kids \o r.kids]
  IN Rest(Items(c, i, items, <<>>))

(* None when the closing token follows.                                    *)
SeveralUpTo(c, i, close, items) ==
  IfParsed(IF Sees(c, i, close) THEN [at |-> i, kids |-> <<>>] ELSE Several(c, i, items, <<>>),
           LAMBDA r : Parsed(r.at, Node("several", <<>>, r.kids)))
-----------------------------------------------------------------------------
(* Expressions.                                                            *)

RECURSIVE Unary(_, _), Operands(_, _, _), Binary(_, _, _)

(* Left operand r and what follows it on level l.                          *)
Binary(c, l, r) ==
  IF r.at = 0 \/ c.toks[r.at].k \notin BinaryOps[l] THEN r
  ELSE IfParsed(Operands(c, r.at + 1, l + 1),
         LAMBDA right : Binary(c, l, Parsed(right.at,
                          Node("binary", <<c.toks[r.at].k>>, <<r.ast, right.ast>>))))

Operands(c, i, l) ==
  IF l > Len(BinaryOps) THEN Unary(c, i) ELSE Binary(c, l, Operands(c, i, l + 1))

Expression(c, i) == Operands(c, i, 1)

(* Behind a [: an index or a slice of the target.                          *)
SliceEnd(c, i, target, start) ==
  LET End(kids) == IF kids = <<>> THEN <<Nothing>> ELSE kids
  IN IfParsed(Items(c, i, IF Sees(c, i, "]") THEN <<"]">> ELSE <<"<expression>", "]">>, <<>>),
       LAMBDA r : Parsed(r.at, Node("slice", <<>>, <<target, start>> \o End(r.kids))))

Subscript(c, i, target) ==
  IF Sees(c, i, ":") THEN SliceEnd(c, i + 1, target, Nothing)
  ELSE IfParsed(Produce(c, i, "<expression>"),
         LAMBDA r : CASE Sees(c, r.at, ":") -> SliceEnd(c, r.at + 1, target, r.ast)
                      [] Sees(c, r.at, "]") -> Parsed(r.at + 1, Node("index", <<>>, <<target, r.ast>>))
                      [] OTHER -> Failed)

RECURSIVE Postfix(_, _)
Postfix(c, r) ==
  IF r.at = 0 THEN Failed
  ELSE IF Sees(c, r.at, "[") THEN Postfix(c, Subscript(c, r.at + 1, r.ast))
  ELSE IF Sees(c, r.at, ".")
  THEN IfParsed(Items(c, r.at, <<".", "<method>", "(", "<call>", ")">>, <<>>),
         LAMBDA m : Postfix(c, Parsed(m.at, Node("method", m.kids[1].v, <<r.ast, m.kids[2]>>))))
  ELSE r

(* Names before a dot are modules: a.f(x) is one call, whatever a is.      *)
NameExpression(c, i) ==
  LET name == c.toks[i].v
  IN CASE Sees(c, i + 1, ".") ->
            IfParsed(Items(c, i + 1, <<".", "<method>", "(", "<call>", ")">>, <<>>),
              LAMBDA r : Parsed(r.at, Node("call", name \o <<".">> \o r.kids[1].v, <<r.kids[2]>>)))
       [] Sees(c, i + 1, "(") -> Make(c, i + 1, "call", name, <<"(", "<call>", ")">>)
       [] OTHER -> Parsed(i + 1, Leaf("var", name))

(* var.get("x"), static.get("x").                                          *)
Getter(c, i, n) ==
  IfParsed(Items(c, i + 1, <<".", "name", "(", "<string>", ")">>, <<>>),
           LAMBDA r : Parsed(r.at, Leaf(n, r.kids[1].v)))

(* The parts of an interpolated string; the expression of a part is parsed *)
(* apart, and what follows it in the part is ignored.  A single literal is *)
(* the value itself.                                                       *)
Literal == {"string", "number", "boolean", "regex"}

Part(tok) ==
  IF tok.k = "string" THEN Parsed(1, Leaf("string", tok.v))
  ELSE Produce([toks |-> tok.v, prep |-> FALSE], 1, "<expression>")

Interpolation(tok, i) ==
  LET toks  == SelectSeq(tok.v, LAMBDA t : t.k = "interpolation" \/ t.v # <<>>)
      Whole(parts) ==
        IF \E j \in DOMAIN parts : parts[j].at = 0 THEN Failed
        ELSE Parsed(i + 1, IF Len(parts) = 1 /\ parts[1].ast.n \in Literal THEN parts[1].ast
                           ELSE Node("interpolation", <<>>, [j \in DOMAIN parts |-> parts[j].ast]))
  IN Whole([j \in 1 .. Len(toks) |-> Part(toks[j])])

Primary(c, i) ==
  LET t == c.toks[i]
  IN CASE t.k \in Literal      -> Parsed(i + 1, Leaf(t.k, t.v))
       [] t.k = "interpolation" -> Interpolation(t, i)
       [] t.k = "name"         -> NameExpression(c, i)
       [] t.k \in {"var", "static"} -> Getter(c, i, t.k)
       [] t.k = "["            -> Make(c, i, "list", <<>>, <<"[", "<elements>", "]">>)
       [] t.k = "{"            -> Make(c, i, "map", <<>>, <<"{", "<entries>", "}">>)
       [] t.k = "("            -> IfParsed(Items(c, i, <<"(", "<expression>", ")">>, <<>>),
                                    LAMBDA r : Parsed(r.at, r.kids[1]))
       [] t.k = "@"            -> IfParsed(Items(c, i, <<"@", "<name>">>, <<>>),
                                    LAMBDA r : Parsed(r.at, Leaf("var", r.kids[1].v)))
       [] t.k = "match"        -> Make(c, i, "match", <<>>, <<"match", "(", "<expression>", ")", "{", "<arms>", "}">>)
       [] t.k = "procedure"    -> Make(c, i, "procedure", <<>>,
                                       <<"procedure", "(", "<parameters>", ")", "{", "<body>">>)
       [] OTHER                -> Failed

Unary(c, i) ==
  IF c.toks[i].k \in {"-", "!"}
  THEN IfParsed(Unary(c, i + 1), LAMBDA r : Parsed(r.at, Node("unary", <<c.toks[i].k>>, <<r.ast>>)))
  ELSE Postfix(c, Primary(c, i))

(* Positional and named arguments; the last of two with one name counts.   *)
RECURSIVE CallArgs(_, _, _, _)
CallArgs(c, i, args, named) ==
  LET isNamed == Sees(c, i, "name") /\ Sees(c, i + 1, ":")
      Args(e)  == IF isNamed THEN args ELSE Append(args, e)
      Named(e) == IF isNamed
                  THEN Append(SelectSeq(named, LAMBDA p : p.v # c.toks[i].v),
                              Node("named", c.toks[i].v, <<e>>))
                  ELSE named
  IN IfParsed(Produce(c, IF isNamed THEN i + 2 ELSE i, "<expression>"),
       LAMBDA r : IF Sees(c, r.at, ",") THEN CallArgs(c, r.at + 1, Args(r.ast), Named(r.ast))
                  ELSE Parsed(r.at, Node("args", <<>>, Args(r.ast) \o Named(r.ast))))

(* A pattern, =>, an expression and perhaps a comma, up to the brace.      *)
MatchPattern(t) ==
  CASE t.k \in Literal -> Leaf(t.k, t.v)
    [] t.k = "name" /\ t.v = <<"_">> -> Leaf("wildcard", <<>>)
    [] OTHER -> Nothing

RECURSIVE Arms(_, _, _)
Arms(c, i, arms) ==
  IF Sees(c, i, "}") \/ Sees(c, i, "eof") THEN Parsed(i, Node("arms", <<>>, arms))
  ELSE LET pattern == MatchPattern(c.toks[i])
       IN IF pattern = Nothing THEN Failed
          ELSE IfParsed(Items(c, i + 1, <<"=>", "<expression>">>, <<pattern>>),
                 LAMBDA r : Arms(c, IF Sees(c, r.at, ",") THEN r.at + 1 ELSE r.at,
                                 Append(arms, Node("arm", <<>>, r.kids))))
-----------------------------------------------------------------------------
(* Statements.                                                             *)

(* @x[i] = e sets an element; any other @x[...] is read and ends the       *)
(* statement at its bracket.                                               *)
AtSubscript(c, i) ==
  LET name == c.toks[i + 1].v
  IN IfParsed(Subscript(c, i + 3, Leaf("var", name)),
       LAMBDA r : IF r.ast.n = "slice" \/ ~Sees(c, r.at, "=") THEN Parsed(r.at, Node("expr", <<>>, <<r.ast>>))
                  ELSE IfParsed(Items(c, r.at, <<"=", "<expression>">>, <<r.ast.kids[2]>>),
                         LAMBDA e : Parsed(e.at, Node("index_set", name, e.kids))))

ByOne(c, i, n) == Parsed(i + 3, Node(n, c.toks[i + 1].v, <<Leaf("number", <<"1">>)>>))

(* @x op e; `or=` has at least one candidate.                              *)
Assign(c, i, n, items) ==
  IfParsed(Make(c, i + 3, n, c.toks[i + 1].v, items),
           LAMBDA r : IF n = "or_assign" /\ r.ast.kids[1].kids = <<>> THEN Failed ELSE r)

AtStatement(c, i) ==
  LET op == IF c.toks[i + 1].k \in VariableName THEN c.toks[i + 2].k ELSE "none"
  IN CASE op = "="   -> Assign(c, i, "var_set", <<"<expression>">>)
       [] op = "["   -> AtSubscript(c, i)
       [] op = "++"  -> ByOne(c, i, "add_assign")
       [] op = "--"  -> ByOne(c, i, "sub_assign")
       [] op = "+="  -> Assign(c, i, "add_assign", <<"<expression>">>)
       [] op = "-="  -> Assign(c, i, "sub_assign", <<"<expression>">>)
       [] op = "or=" -> Assign(c, i, "or_assign", <<"(", "<arguments>", ")">>)
       [] OTHER      -> Make(c, i, "expr", <<>>, <<"<expression>">>)

(* var.set("x", e), static.set("x", e).                                    *)
Setter(c, i, n) ==
  IfParsed(Items(c, i + 1, <<".", "name", "(", "<string>", ",", "<expression>", ")">>, <<>>),
           LAMBDA r : Parsed(r.at, Node(n, r.kids[1].v, <<r.kids[2]>>)))

(* What follows the keyword of a statement; statements that wait for       *)
(* clients or run tests have no place in a prep block.                     *)
ControlForm ==
  [try          |-> <<"{", "<body>", "<fallbacks>">>,
   loop         |-> <<"{", "<body>">>,
   browse       |-> <<"(", "<expression>", ",", "@", "<name>", ",", "@", "<name>", ")", "{", "<body>">>,
   async_browse |-> <<"(", "<expression>", ",", "@", "<name>", ",", "@", "<name>", "<shared>", ")">>,
   terminate    |-> <<>>,
   dont_panic   |-> <<"{", "<body>">>,
   if           |-> <<"(", "<expression>", ")", "{", "<body>", "<else>">>]
WaitingForm ==
  [http_listen  |-> <<"(", "name", ":", "<expression>", ",", "@", "<name>", ",", "@", "<name>",
                      "<shared>", ")", "{", "<body>">>,
   amqp_consume |-> <<"(", "<expression>", ",", "<expression>", ",", "@", "<name>", "<shared>", ")",
                      "{", "<body>">>,
   run_test     |-> <<"(", "<expression>", ",", "<expression>", ",", "@", "<name>", ")", "{", "<body>">>]

Form(k) == IF k \in DOMAIN ControlForm THEN ControlForm[k] ELSE WaitingForm[k]
Forms == DOMAIN ControlForm \cup DOMAIN WaitingForm
NotInPrep == DOMAIN WaitingForm

Statement(c, i) ==
  LET k == c.toks[i].k
  IN CASE k = "prep"         -> Failed
       [] k = "static"       -> IF c.prep THEN Setter(c, i, "static_set") ELSE Failed
       [] k = "var"          -> Setter(c, i, "var_set")
       [] k \in Forms  -> IF c.prep /\ k \in NotInPrep THEN Failed
                                ELSE Make(c, i + 1, k, <<>>, Form(k))
       [] k \in Assertion    -> Make(c, i + 1, "assert", <<k>>, <<"(", "<arguments>", ")">>)
       [] k = "@"            -> AtStatement(c, i)
       [] OTHER              -> Make(c, i, "expr", <<>>, <<"<expression>">>)

RECURSIVE Block(_, _, _)
Block(c, i, body) ==
  CASE Sees(c, i, "}")   -> Parsed(i + 1, Node("block", <<>>, body))
    [] Sees(c, i, "eof") -> Failed
    [] OTHER -> IfParsed(Produce(c, i, "<statement>"), LAMBDA r : Block(c, r.at, Append(body, r.ast)))

RECURSIVE Fallbacks(_, _, _)
Fallbacks(c, i, blocks) ==
  IF ~Sees(c, i, "fallback") THEN Parsed(i, Node("fallbacks", <<>>, blocks))
  ELSE IfParsed(Items(c, i + 1, <<"{", "<body>">>, blocks), LAMBDA r : Fallbacks(c, r.at, r.kids))

Else(c, i) ==
  IF ~Sees(c, i, "else") THEN Parsed(i, Node("block", <<>>, <<>>))
  ELSE IF Sees(c, i + 1, "if")
  THEN Make(c, i + 1, "block", <<>>, <<"<statement>">>)
  ELSE IfParsed(Items(c, i + 1, <<"{", "<body>">>, <<>>), LAMBDA r : Parsed(r.at, r.kids[1]))

RECURSIVE SharedVars(_, _, _)
SharedVars(c, i, names) ==
  IF ~Sees(c, i, ",") THEN Parsed(i, Node("shared", <<>>, names))
  ELSE IfParsed(Items(c, i + 1, <<"shared", "@", "<name>">>, names), LAMBDA r : SharedVars(c, r.at, r.kids))

OneToken(c, i, kinds) == IF c.toks[i].k \in kinds THEN Parsed(i + 1, Leaf("name", c.toks[i].v)) ELSE Failed

Produce(c, i, p) ==
  CASE p = "<expression>" -> Expression(c, i)
    [] p = "<statement>"  -> Statement(c, i)
    [] p = "<name>"       -> OneToken(c, i, VariableName)
    [] p = "<method>"     -> OneToken(c, i, {"name", "match"})
    [] p = "<string>"     -> OneToken(c, i, {"string"})
    [] p = "<body>"       -> Block(c, i, <<>>)
    [] p = "<fallbacks>"  -> Fallbacks(c, i, <<>>)
    [] p = "<else>"       -> Else(c, i)
    [] p = "<shared>"     -> SharedVars(c, i, <<>>)
    [] p = "<arguments>"  -> SeveralUpTo(c, i, ")", <<"<expression>">>)
    [] p = "<elements>"   -> SeveralUpTo(c, i, "]", <<"<expression>">>)
    [] p = "<entries>"    -> SeveralUpTo(c, i, "}", <<"<expression>", ":", "<expression>">>)
    [] p = "<parameters>" -> SeveralUpTo(c, i, ")", <<"@", "<name>">>)
    [] p = "<call>"       -> IF Sees(c, i, ")") THEN Parsed(i, Node("args", <<>>, <<>>))
                             ELSE CallArgs(c, i, <<>>, <<>>)
    [] p = "<arms>"       -> Arms(c, i, <<>>)
    [] p = "<prep>"       -> Make(c, i + 1, "prep", <<>>, <<"{", "<body>">>)

(* Prep blocks come first; one that fails leaves the parser at once.       *)
RECURSIVE ProgramFrom(_, _, _, _)
ProgramFrom(c, i, seenNonPrep, stmts) ==
  IF Sees(c, i, "eof") THEN Parsed(i, Node("program", <<>>, stmts))
  ELSE IF Sees(c, i, "prep") /\ seenNonPrep THEN Failed
  ELSE LET prep == Sees(c, i, "prep")
           Rest(r) == ProgramFrom(c, r.at, seenNonPrep \/ ~prep, Append(stmts, r.ast))
       IN IfParsed(IF prep THEN Produce([c EXCEPT !.prep = TRUE], i, "<prep>")
                   ELSE Produce(c, i, "<statement>"), Rest)

Parse(toks) ==
  LET c == [toks |-> SelectSeq(toks, LAMBDA t : t.k # "comment"), prep |-> FALSE]
  IN ProgramFrom(c, 1, FALSE, <<>>)
==============================================================================
