------------------------------- MODULE MCLibrary -----------------------------
(* The parts of the library that are functions of their arguments, asked   *)
(* one question each; procedure calls; the handle registries with the test *)
(* runner; and the manifest of an oxide project.                           *)
EXTENDS Library, Text, Evaluation, Sessions, OxideManifest, ProcedureCall

Up_To(S, n) == UNION {[1 .. k -> S] : k \in 0 .. n}
-----------------------------------------------------------------------------
(* Calls: the known names, the names of macros, of Rust functions, names   *)
(* without a dot or with an underscore for it, and unknown ones.           *)
Known == CoreNames \cup GatedNames \cup Methods
CallNames ==
  Known \cup Macros \cup {<<MacroName(n)>> : n \in Known} \cup {<<n[2]>> : n \in CoreNames}
    \cup {<<r.name[1], r.rust>> : r \in Renamed} \cup In("http", {"listen", "head"})
    \cup {<<"queue", "get">>, <<"str", "len">>, <<"sys_read", "line">>, <<"greet">>}

(* Programs: a call within expressions, within statements, within blocks.  *)
Node(n, v) == [n |-> n, v |-> v]
NoNode == (<<>> :> Node("none", <<>>))
Tree(n, size, i, t) ==
  (<<>> :> Node(n, <<>>)) @@ [way \in {<<j>> : j \in 1 .. size} \ {<<i>>} |-> Node("none", <<>>)]
    @@ [way \in {<<i>> \o w : w \in DOMAIN t} |-> t[Tail(way)]]
Trees(sizes, t)  == {Tree(s[1], s[2], s[3], t) : s \in sizes}
CallOf(name, t)  == (<<>> :> Node("call", name)) @@ Tree("call", 1, 1, Tree("args", 2, 2, t))
InExpression(t) ==
  {CallOf(<<"sys", "echo">>, t), Tree("method", 2, 2, Tree("args", 1, 1, Tree("named", 1, 1, t))),
   Tree("list", 1, 1, Tree("several", 2, 2, t)), Tree("map", 1, 1, Tree("several", 2, 1, t)),
   Tree("match", 2, 2, Tree("arms", 2, 2, Tree("arm", 2, 2, t)))}
  \cup Trees({<<"method", 2, 1>>, <<"interpolation", 2, 2>>, <<"index", 2, 1>>, <<"index", 2, 2>>,
              <<"slice", 3, 1>>, <<"slice", 3, 2>>, <<"slice", 3, 3>>, <<"match", 2, 1>>,
              <<"unary", 1, 1>>, <<"binary", 2, 1>>, <<"binary", 2, 2>>}, t)
InStatement(t) ==
  {Tree("or_assign", 1, 1, Tree("several", 2, 2, t)), Tree("assert", 1, 1, Tree("several", 2, 2, t))}
  \cup Trees({<<"var_set", 1, 1>>, <<"index_set", 2, 1>>, <<"index_set", 2, 2>>, <<"add_assign", 1, 1>>,
              <<"sub_assign", 1, 1>>, <<"expr", 1, 1>>, <<"browse", 4, 1>>, <<"async_browse", 4, 1>>,
              <<"http_listen", 5, 1>>, <<"amqp_consume", 5, 1>>, <<"amqp_consume", 5, 2>>,
              <<"run_test", 4, 1>>, <<"run_test", 4, 2>>, <<"if", 3, 1>>}, t)
InBlock(t) ==
  LET body == Tree("block", 1, 1, t)
  IN  {Tree("try", 2, 2, Tree("fallbacks", 2, 2, body))} \cup
      Trees({<<"try", 2, 1>>, <<"loop", 1, 1>>, <<"dont_panic", 1, 1>>, <<"browse", 4, 4>>, <<"if", 3, 2>>,
             <<"if", 3, 3>>, <<"http_listen", 5, 5>>, <<"amqp_consume", 5, 5>>, <<"run_test", 4, 4>>}, body)
InProcedure(t) == Tree("procedure", 2, 2, Tree("block", 1, 1, t))

All(ts, Around(_)) == UNION {Around(t) : t \in ts}
GatedCalls == {CallOf(name, NoNode) : name \in {<<"http", "get">>, <<"db", "query">>, <<"amqp", "publish">>, <<"greet">>}}
Expressions == LET once == GatedCalls \cup All(GatedCalls, InExpression)
               IN  once \cup {InProcedure(t) : t \in All(GatedCalls, InStatement)}
Bodies == LET nested == All(All(GatedCalls, InStatement), InBlock)
          IN  All(Expressions, InStatement) \cup nested \cup All(nested, InBlock)
SharingStatements == LET tree(n, size) == Tree(n, size, 4, Tree("shared", 1, 1, NoNode))
            IN  {tree("async_browse", 4), tree("http_listen", 5), tree("amqp_consume", 5)}
Scripts == {Tree("program", 1, 1, t) : t \in Bodies \cup SharingStatements \cup All(SharingStatements, InBlock)}
           \cup {Tree("program", 1, 1, Tree("prep", 1, 1, Tree("block", 1, 1, t))) : t \in All(GatedCalls, InStatement)}
-----------------------------------------------------------------------------
(* Values, variables and statements.                                       *)
Lit(v)  == [k |-> "literal", value |-> v]
Var(n)  == [k |-> "var", name |-> n]
Str(s)  == [str |-> s]
Ask(n, ends, v)  == [k |-> "call", call |-> n, parts |-> <<>>, ends |-> ends, gives |-> v]
Quotient(l, r)   == [k |-> "binary", op |-> "/", left |-> l, right |-> r]
Vars ==
  LET value == [x |-> [list |-> <<Num(1), Str(<<"a">>)>>],
                m |-> [map |-> [key \in {<<"a">>} |-> Num(1)]],
                s |-> Str(<<"a", WideChar>>),
                t |-> Str(<<"a", "b">>),
                n |-> Num(1), z |-> Num(0), c |-> [conn |-> 0], p |-> [proc |-> <<"n">>]]
  IN  [name \in DOMAIN value |-> value[name]]
Asked   == Ask("ask", "ok", Num(1))
Flagged == Ask("flag", "ok", Boolean(TRUE))
Zero    == Lit(Num(0))
One     == Lit(Num(1))
Operands ==
  {Zero, One, Lit(Num(2)), Lit(Str(<<"a">>)), Lit(Boolean(TRUE)), Lit([num |-> <<1, 2>>])}
  \cup {Var(n) : n \in DOMAIN Vars \cup {"u"}} \cup {Asked, Flagged, Ask("fail", "runtime", NoValue)}
  \cup {[k |-> "neg", operand |-> One], Quotient(One, Zero), Quotient(Zero, Zero),
        [k |-> "index", target |-> Var("x"), index |-> Lit(Num(2))],
        [k |-> "slice", target |-> Var("t"), start |-> <<>>, end |-> <<One>>]}
Bounds == {<<>>} \cup {<<e>> : e \in Operands \ {Var("c"), Var("p"), Var("m"), Var("x"), Flagged}}
Arm(p, b) == [pattern |-> p, body |-> b]
ArmLists  == {<<Arm([literal |-> Num(1)], Zero)>>,
              <<Arm([regex |-> "a"], Asked), Arm([any |-> 0], One)>>,
              <<Arm([literal |-> Boolean(TRUE)], Var("u")), Arm([regex |-> "a"], Var("t"))>>}
Computed ==
  [k : {"neg", "not"}, operand : Operands]
  \cup [k : {"and", "or"}, left : Operands, right : Operands]
  \cup [k : {"binary"}, op : {"==", "<", "<=", ">=", "+", "-", "%"}, left : Operands, right : Operands]
  \cup [k : {"index"}, target : Operands, index : Operands]
  \cup [k : {"slice"}, target : Operands, start : Bounds, end : Bounds]
  \cup [k : {"match"}, value : Operands, arms : ArmLists]
  \cup [k : {"interpolation", "list", "map"}, parts : {<<>>} \cup (Operands \X Operands)]
  \cup [k : {"method"}, target : Operands, method : {"len", "set", "call"},
        parts : Up_To({One, Var("n"), Var("t"), Asked, Var("u")}, 2), named : {<<>>, <<Flagged>>}]
Targets == {"x", "m", "t", "n", "z", "u"}
Statements ==
  [op : {"set"}, name : {"n"}, value : Computed]
  \cup [op : {"expr"}, expr : {e \in Computed : e.k = "method"}]
  \cup [op : {"add_assign", "sub_assign"}, name : Targets, value : Operands]
  \cup [op : {"index_set"}, name : Targets, index : Operands, value : {One, Var("u"), Asked}]
  \cup [op : {"or_assign"}, name : Targets, candidates : Up_To(Operands, 2)]
  \cup [op : {"assert"}, kind : {"eq", "neq", "gt", "ge", "lt", "le"},
        args : Up_To(Operands, 2) \cup {<<One, One, One>>}]
-----------------------------------------------------------------------------
(* Texts with a character of two bytes, 233; tables; lists to sort.        *)
WideTexts == Up_To({97, 98, 233}, 4)
ColumnLists ==
  LET heads == [key : {1, 3}, list : {TRUE}, cells : Up_To({1, 4}, 2)]
               \cup [key : {1, 3}, list : {FALSE}, cells : {<<2>>, <<5>>}]
  IN  Up_To(heads, 2)

Cells  == {Number(2), Number(10), Chars(<<49, 120>>), Chars(<<50>>), Missing, NaN}
Items  == [key : Cells, second : {Number(1), Number(2)}, tie : {Chars(<<97>>), Chars(<<98>>)}]
Orders == [reverse : BOOLEAN, second : BOOLEAN, tie : BOOLEAN]
Versions == Up_To({48, 49, 46}, 3)
Misspelt == Up_To({1, 2, 3}, 3)
OtherNames == {<<>>, <<<<1, 2, 1>>>>, <<<<2, 2, 3, 3, 1>>, <<3, 1>>>>}
-----------------------------------------------------------------------------
(* SQL: one part that encloses others' signs, between some that do not;    *)
(* apart by a blank, unless the first ends in a sign that cannot be part of*)
(* another.                                                                *)
SqlPart(is, by, body) == [is |-> is, by |-> by, body |-> body]
Mark        == SqlPart("marker", <<>>, <<>>)
Here(c)     == SqlPart("plain", <<>>, <<c>>)
Operator(c) == SqlPart("operator", <<>>, <<"?", c>>)
Quoted(by, body) == SqlPart("quoted", <<by>>, body)
Enclosed(body) ==
  {<<Quoted(by, body)>> : by \in {"'", "\""}} \cup {<<SqlPart("remark", <<>>, body), Here("nl")>>}
  \cup {<<SqlPart("comment", <<>>, body)>>} \cup {<<SqlPart("dollars", by, body)>> : by \in {<<"$", "$">>, <<"$", "a", "$">>}}
Firsts == {<<Here("a"), Here("=")>>, <<Here(",")>>, <<Here("-")>>, <<Operator("|")>>, <<Quoted("'", <<"a">>)>>, <<Mark>>}
Seconds == {<<Here("=")>>, <<Mark>>}
Thirds == UNION {Enclosed(body) : body \in Up_To({"?", "-", "/", "*", "$", "'", "\""}, 2)} \cup {<<Mark>>}
Lasts  == {<<Here("a")>>, <<Here("/")>>, <<SqlPart("number", <<>>, <<"1">>)>>, <<Operator("&")>>, <<Operator("?")>>,
           <<Quoted("'", <<"a">>)>>, <<Mark>>,
           <<Here("a"), Here(" "), SqlPart("key", <<>>, <<>>), Here(" "), Quoted("'", <<"?">>)>>}
Apart(part, tight) == IF tight /\ Last(part) \in {Here("="), Here(",")} THEN part ELSE Append(part, Here(" "))
StatementParts ==
  {Apart(a, tight) \o Apart(b, tight) \o Apart(c, tight) \o d :
     a \in Firsts, b \in Seconds, c \in Thirds, d \in Lasts, tight \in BOOLEAN}
-----------------------------------------------------------------------------
(* Command lines.                                                          *)
ValueWords == {<<"x">>, <<"-", "a">>, <<"a", "=", "b">>}
Arguments ==
  [k : {"flags"}, letters : {<<"a">>, <<"a", "b">>}]
  \cup [k : {"short"}, letters : {<<>>, <<"a">>}, name : {<<"w">>}, glued : BOOLEAN, v : ValueWords]
  \cup [k : {"long"}, name : {<<"l", "-", "n">>, <<"l", "_", "n">>, <<"c">>}]
  \cup [k : {"value"}, name : {<<"l", "-", "n">>, <<"c">>}, glued : BOOLEAN, v : ValueWords]
  \cup [k : {"plus"}, name : {<<"k">>, <<"n", "o", "k">>, <<"k", "=", "-">>}]
  \cup [k : {"at"}, v : {<<>>, <<"x">>}]
  \cup [k : {"pos"}, v : {<<"-">>, <<"+", "k">>, <<"@">>, <<"x">>}]
Rests == Up_To({<<"x">>, <<"-", "-">>, <<"-">>, <<"-", "w">>}, 2)
NoOptions == [aliases |-> <<>>, short_values |-> {}, long_values |-> {}, long_optional_values |-> {},
              accumulate |-> {}, plus_flags |-> FALSE, at_tokens |-> FALSE, permute |-> TRUE]
Many == [aliases |-> [key \in {<<"a">>, <<"l", "_", "n">>} |-> <<"b">>], short_values |-> {"w"},
         long_values |-> {<<"l", "-", "n">>}, long_optional_values |-> {<<"c">>},
         accumulate |-> {<<"b">>, <<"w">>}, plus_flags |-> TRUE, at_tokens |-> TRUE, permute |-> TRUE]
Configurations ==
  {[c EXCEPT !.permute = p] : c \in {NoOptions, Many, [Many EXCEPT !.plus_flags = FALSE, !.at_tokens = FALSE]},
                              p \in BOOLEAN}
Lines(cfg) == Up_To({a \in Arguments : MayBe(cfg, a)}, 2)
-----------------------------------------------------------------------------
(* Procedures of one and two parameters, and what they are called with.    *)
CleanParams == {<<"a">>, <<"a", "b">>}
AllOuters   == {<<"x">>, <<Literal>>, <<"x", "x">>, <<"a", "x">>}
-----------------------------------------------------------------------------
(* The questions are among those the theorems are about.                   *)
ASSUME AskedAssumption ==
  /\ \A n \in CallNames : n \in CallNamed
  /\ \A p \in Scripts : IsProgram(p)
  /\ \A a \in Items : a \in Item
  /\ \A how \in Orders : how \in How
  /\ \A s \in Versions : s \in Texts
  /\ \A a \in Arguments : a \in Argument
  /\ \A cfg \in Configurations : Configured(cfg)
  /\ \A cs \in ColumnLists : cs \in Seq(Column)
  /\ \A parts \in StatementParts : parts \in Seq(Part)

Init == library = "none" /\ question = <<>> /\ SessionsInit /\ ProjectInit /\ CallsInit

(* Only procedure calls start in two ways: nothing is asked twice.         *)
Unasked        == library = "none" /\ ~native
Question(l, q) == library' = l /\ question' = q /\ UNCHANGED <<sessions, project, state>>

AskFunction  == Unasked /\ \E n \in CallNames, named \in BOOLEAN :
                  Question("function", [name |-> n, named |-> named])
AskFeatures  == Unasked /\ \E p \in Scripts : Question("features", p)
AskStatement == Unasked /\ \E s \in Statements : Question("statement", s)
AskText      == Unasked /\ \E s \in WideTexts, w \in Up_To({97, 233}, 2), i \in 0 .. 5 : Question("text", <<s, w, i>>)
AskBytes     == Unasked /\ \E s \in Up_To({0, 97, 233}, 6) : Question("bytes", Utf8(s))
AskHex       == Unasked /\ \E s \in Up_To({0, 15, -1, -2, -3}, 4) : Question("hex", s)
AskNames     == Unasked /\ \E ns \in Up_To({1, 3, 5}, 5), w \in {1, 4, 7, 12, 20}, t \in {0, 4, 8} :
                  Question("names", <<ns, w, t>>)
AskTable     == Unasked /\ \E cs \in ColumnLists : Question("table", cs)
AskOrder     == Unasked /\ \E a, b, c \in Items, how \in Orders : Question("order", <<a, b, c, how>>)
AskVersions  == Unasked /\ \E s, t, u \in Versions : Question("versions", <<s, t, u>>)
AskWords     == Unasked /\ \E a, b \in Misspelt : Question("words", <<a, b>>)
AskSql       == Unasked /\ \E parts \in StatementParts : WellWritten(parts) /\ Question("sql", parts)
AskArgs      == Unasked /\ \E cfg \in Configurations, marked \in BOOLEAN, rest \in Rests :
                  \E args \in Lines(cfg) : Question("args", <<args, marked, rest, cfg>>)
UseCalls     == library = "none" /\ Question("calls", <<>>)
UseSessions  == Unasked /\ Question("sessions", <<>>)
UseManifest  == Unasked /\ Question("manifest", <<>>)

Next ==
  \/ AskFunction \/ AskFeatures \/ AskStatement \/ AskText \/ AskBytes \/ AskHex
  \/ AskWords \/ AskSql \/ AskNames \/ AskTable \/ AskOrder \/ AskVersions \/ AskArgs
  \/ UseCalls \/ UseSessions \/ UseManifest
  \/ (library = "sessions" /\ SessionsNext /\ UNCHANGED <<asked, project, state>>)
  \/ (library = "calls" /\ CallsNext /\ UNCHANGED <<asked, sessions, project>>)
  \/ (library = "manifest" /\ ProjectNext /\ UNCHANGED <<asked, sessions, state>>)

Spec == Init /\ [][Next]_<<asked, sessions, project, state>>
-----------------------------------------------------------------------------
(* A statement computes, calls and stores the same in the interpreter and  *)
(* as generated Rust, if nothing in it is one of the listed differences.   *)
StatementsAgree == Asks("statement") => Agrees(question, Vars)

(* The methods of strings agree with each other on text whose characters   *)
(* are not all of one byte; encodings are read back; hex_decode panics     *)
(* only on characters of two bytes; and the distance by which lint suggests*)
(* a name counts edits, so that the nearest name is suggested.             *)
TextAgrees ==
  /\ Asks("text")  => MethodsAgree(question[1], question[2], question[3])
  /\ Asks("bytes") => RoundTrips(question)
  /\ Asks("hex")   => (HexDecode(question).is = "panic" => \E i \in DOMAIN question : question[i] = Wide)
  /\ Asks("words") => /\ CountsEdits(question[1], question[2], {1, 2, 3})
                      /\ \A others \in OtherNames : \A known \in {<<question[2]>> \o others, others \o <<question[2]>>} :
                            SuggestsNearest(question[1], known, {1, 2, 3})
==============================================================================
