----------------------------- MODULE MCFrontEnd ------------------------------
(***************************************************************************)
(* Small programs for FrontEnd: every operator beside every operator,      *)
(* every postfix on every expression, every statement before and inside    *)
(* every other; and sessions of a few lines for ReplLoop.                  *)
(***************************************************************************)
EXTENDS FrontEnd, ReplLoop

Tricky  == Leaf("string", <<"{", Quote, "$", "{", Backslash, "#", Newline, "a">>)
X       == Leaf("var", <<"x">>)
One     == Leaf("number", <<"1", ".", "0">>)
Regex   == Leaf("regex", <<"}", Backslash, "/", "a", "/", "x">>)
ListOf(kids) == Node("several", <<>>, kids)
Args(kids)    == Node("args", <<>>, kids)
Call(kids)    == Node("call", <<"f", ".", "n">>, <<Args(kids)>>)
Bin(o, l, r)  == Node("binary", <<o>>, <<l, r>>)
Un(o, e)      == Node("unary", <<o>>, <<e>>)
Body(kids)  == Node("block", <<>>, kids)
AllOps  == UNION {BinaryOps[l] : l \in 1 .. Len(BinaryOps)}
Binaries(l, r) == {Bin(o, l, r) : o \in AllOps}
Unaries(e)     == {Un(o, e) : o \in {"-", "!"}}
Named(e)       == Node("named", <<"b">>, <<e>>)
Name1(s)       == Leaf("name", <<s>>)
Do      == Node("expr", <<>>, <<Call(<<X>>)>>)

(* Everything built around one expression.                                 *)
Around(e) ==
  {Node("index", <<>>, <<e, One>>), Node("slice", <<>>, <<e, One, Nothing>>),
   Node("method", <<"match">>, <<e, Args(<<One>>)>>), Node("slice", <<>>, <<X, Nothing, e>>),
   Node("index", <<>>, <<X, e>>), Call(<<e, Named(e)>>),
   Node("list", <<>>, <<ListOf(<<e, e>>)>>), Node("map", <<>>, <<ListOf(<<Tricky, e>>)>>),
   Node("match", <<>>, <<e, Node("arms", <<>>,
     <<Node("arm", <<>>, <<Regex, e>>), Node("arm", <<>>, <<Leaf("wildcard", <<>>), e>>)>>)>>)}
  \cup IF e.n = "string" THEN {}
       ELSE {Node("interpolation", <<>>, <<Tricky, e>>), Node("interpolation", <<>>, <<e>>)}
Atoms == {X, One, Tricky, Leaf("static", <<"a">>), Leaf("boolean", <<"true">>),
          Node("list", <<>>, <<ListOf(<<>>)>>), Node("map", <<>>, <<ListOf(<<>>)>>),
          Node("procedure", <<>>, <<ListOf(<<Name1("a"), Name1("prep")>>), Body(<<Do>>)>>)}
Level1 == Atoms \cup {Regex} \cup Binaries(X, One) \cup Unaries(X) \cup Around(X)
(* An operator of every level, both for those of which one is not          *)
(* commutative.                                                            *)
SomeOps == {"||", "&&", "==", "<", "+", "-", "/"}
Arith   == {Bin(o, X, One) : o \in SomeOps} \cup Unaries(X)
Beside(l, r) == {Bin(o, l, r) : o \in SomeOps}
Level2 ==
  UNION {Beside(l, One) \cup Beside(X, l) \cup Unaries(l) \cup Around(l) : l \in Level1}
    \cup UNION {Beside(l, r) : l, r \in Arith}

Set(e)  == Node("var_set", <<"x">>, <<e>>)
Expr(e) == Node("expr", <<>>, <<e>>)
Simple ==
  {Set(X), Set(Call(<<>>)), Node("index_set", <<"x">>, <<One, X>>), Node("add_assign", <<"x">>, <<One>>),
   Node("sub_assign", <<"x">>, <<One>>), Node("or_assign", <<"x">>, <<ListOf(<<X, One>>)>>),
   Expr(X), Expr(Un("-", X)), Expr(Node("list", <<>>, <<ListOf(<<One>>)>>)),
   Expr(Node("map", <<>>, <<ListOf(<<Tricky, One>>)>>)), Expr(Node("index", <<>>, <<X, One>>)),
   Expr(Node("slice", <<>>, <<X, One, One>>)), Expr(Bin("+", Node("index", <<>>, <<X, One>>), One)),
   Expr(Regex), Set(Regex), Expr(Node("interpolation", <<>>, <<Tricky, X>>)),
   Node("static_set", <<"a">>, <<One>>), Node("assert", <<"assert_match">>, <<ListOf(<<X, Regex>>)>>),
   Leaf("terminate", <<>>),
   Node("async_browse", <<>>, <<X, Name1("f"), Name1("a"), Node("shared", <<>>, <<Name1("x"), Name1("if")>>)>>)}
Compose(b) ==
  {Node("loop", <<>>, <<b>>), Node("dont_panic", <<>>, <<b>>), Node("prep", <<>>, <<b>>),
   Node("try", <<>>, <<b, Node("fallbacks", <<>>, <<b, b>>)>>),
   Node("if", <<>>, <<X, b, Body(<<>>)>>), Node("if", <<>>, <<X, b, b>>),
   Node("browse", <<>>, <<X, Name1("a"), Name1("b"), b>>),
   Node("http_listen", <<>>, <<X, Name1("a"), Name1("b"), Node("shared", <<>>, <<Name1("x")>>), b>>),
   Node("amqp_consume", <<>>, <<X, X, Name1("a"), Node("shared", <<>>, <<>>), b>>),
   Node("run_test", <<>>, <<Tricky, X, Name1("a"), b>>),
   Set(Node("procedure", <<>>, <<ListOf(<<>>), b>>))}
Blocks   == {Body(<<s>>) : s \in Simple}
Composed == UNION {Compose(b) : b \in Blocks}
Pair(s, t) == {Node("program", <<>>, <<s, t>>)}
PrepBlock == Node("prep", <<>>, <<Body(<<Set(Tricky), Node("static_set", <<"a">>, <<X>>)>>)>>)

MCTrees ==
  {Node("program", <<>>, <<Set(e)>>) : e \in Level2}
    \cup {Node("program", <<>>, <<Expr(e)>>) : e \in Level1}
    \cup {Node("program", <<>>, <<s, t>>) : s, t \in Simple}
    \cup {Node("program", <<>>, <<s, t>>) : s \in Composed, t \in {Do, PrepBlock, Expr(Un("-", X))}}
    \cup {Node("program", <<>>, <<PrepBlock, s, t>>) : s \in Composed, t \in {Do, PrepBlock}}
    \cup {Node("program", <<>>, <<t>>) : t \in UNION {Compose(Body(<<s, Do>>)) : s \in Composed}}
MCComment == <<" ", "#", "{", Quote, "/", "prep">>
-----------------------------------------------------------------------------
(* Sessions of the REPL: up to four of these lines.                        *)
ReplLine ==
  {<<"@", "x", " ", "=", " ", "1">>, <<"try", " ", "{">>, <<"}">>, <<"loop", "{", "terminate", "}">>,
   <<"}", " ", "fallback", " ", "{">>, <<"fallback", " ", "{">>, <<"f", "(", Quote, "{", Quote, ")">>,
   <<" ">>, <<"reset">>, <<"exit">>, <<"#", "}">>}
MCSessions == UNION {[1 .. n -> ReplLine] : n \in 1 .. 4}

(* One machine or the other.                                               *)
NoProgram == written = Nothing /\ source = <<>> /\ tree = Nothing /\ stage = "none"
NoSession == typed = <<>> /\ next = 1 /\ buffer = <<>> /\ depth = 0 /\ ran = <<>> /\ quit = TRUE
MCInit == (Init /\ NoSession) \/ (NoProgram /\ ReplInit)
MCNext == (Next /\ UNCHANGED replVars) \/ (stage = "none" /\ ReplNext /\ UNCHANGED vars)
MCSpec == MCInit /\ [][MCNext]_<<vars, replVars>>
==============================================================================
