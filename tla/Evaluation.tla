------------------------------ MODULE Evaluation ------------------------------
(***************************************************************************)
(* What a statement computes: by the evaluator (eval_expr and its helpers) *)
(* and by the Rust code the transpiler writes for it, with the macros      *)
(* corvo_index!, corvo_slice!, corvo_method_call! and corvo_assert!.  Two  *)
(* implementations of one language, which agree but for what Odd names.    *)
(*                                                                         *)
(* Values are records of one field that is their type: [str |-> chars],    *)
(* [num |-> fraction], [bool |-> b], [list |-> values], [map |-> function  *)
(* from texts to values], [null |-> 0], [re |-> 0], [pool |-> 0],          *)
(* [conn |-> 0], [proc |-> parameters].  An evaluation ends with [is, v,   *)
(* did]: ok, an error's kind or a panic; the value; and the calls made on  *)
(* the way, which tell what was evaluated, and how often.                  *)
(***************************************************************************)
EXTENDS Integers, Sequences, SequencesExt

CONSTANT WideChar   \* a character of two bytes

Is(v, type)  == type \in DOMAIN v
NoValue      == [null |-> 0]
Boolean(b)   == [bool |-> b]
Ok(v)        == [is |-> "ok", v |-> v, did |-> <<>>]
Fail(kind)   == [is |-> kind, v |-> NoValue, did |-> <<>>]
Did(what, r) == [r EXCEPT !.did = what \o @]
Then(r, Go(_)) == IF r.is = "ok" THEN Did(r.did, Go(r.v)) ELSE r
-----------------------------------------------------------------------------
(* The values, which both use (type_system/value.rs).                      *)

AsBool(v) == Is(v, "bool") /\ v.bool

(* Display; only texts matter character by character.                      *)
Shown(v) == IF Is(v, "str") THEN v.str ELSE <<ToString(v)>>

Truthy(v) ==
  CASE Is(v, "bool") -> v.bool
    [] Is(v, "null") -> FALSE
    [] Is(v, "str")  -> v.str # <<>>
    [] Is(v, "num")  -> v.num[1] # 0 \/ v.num = <<0, 0>>
    [] Is(v, "list") -> v.list # <<>>
    [] Is(v, "map")  -> DOMAIN v.map # {}
    [] OTHER         -> TRUE

(* Numbers are fractions, and f64 at its edges: n/0 is an infinity, 0/0    *)
(* NaN.                                                                    *)
Num(n)     == [num |-> <<n, 1>>]
Nan           == <<0, 0>>
Sign(n)       == IF n > 0 THEN 1 ELSE IF n < 0 THEN -1 ELSE 0
Fraction(n, d) ==
  IF d = 0 THEN <<Sign(n), 0>>
  ELSE LET m == Sign(d) * n  e == Sign(d) * d IN IF m % e = 0 THEN <<m \div e, 1>> ELSE <<m, e>>
(* With the sign of n.                                                     *)
Remainder(n, m) == Sign(n) * ((Sign(n) * n) % (Sign(m) * m))
Arithmetic(op, a, b) ==
  CASE op = "+" -> IF a[2] = 0 /\ a = b THEN a ELSE Fraction(a[1] * b[2] + b[1] * a[2], a[2] * b[2])
    [] op = "-" -> IF a[2] = 0 /\ b = <<-a[1], 0>> THEN a
                   ELSE Fraction(a[1] * b[2] - b[1] * a[2], a[2] * b[2])
    [] op = "*" -> Fraction(a[1] * b[1], a[2] * b[2])
    [] op = "/" -> Fraction(a[1] * b[2], a[2] * b[1])
    [] op = "%" -> IF a[2] = 0 \/ b[1] = 0 THEN Nan
                   ELSE IF b[2] = 0 THEN a
                   ELSE Fraction(Remainder(a[1] * b[2], b[1] * a[2]), a[2] * b[2])
NumberBelow(a, b) ==
  /\ Nan \notin {a, b}
  /\ IF a[2] = 0 /\ b[2] = 0 THEN a[1] < b[1] ELSE a[1] * b[2] < b[1] * a[2]
Equal(v, w) == v = w /\ v # [num |-> Nan]
AsUsize(q) == IF q[1] <= 0 THEN 0 ELSE IF q[2] = 0 THEN 2^20 ELSE q[1] \div q[2]

(* partial_cmp; texts, and what else compares by its text, by length only. *)
Below(v, w) ==
  IF Is(v, "num") /\ Is(w, "num") THEN NumberBelow(v.num, w.num)
  ELSE Len(Shown(v)) < Len(Shown(w))
AtMost(v, w) ==
  IF Is(v, "num") /\ Is(w, "num") THEN Equal(v, w) \/ NumberBelow(v.num, w.num)
  ELSE Len(Shown(v)) <= Len(Shown(w))

Joined(v, w) ==
  IF Is(v, "num") /\ Is(w, "num") THEN Ok([num |-> Arithmetic("+", v.num, w.num)])
  ELSE IF Is(v, "str") /\ Is(w, "str") THEN Ok([str |-> v.str \o w.str])
  ELSE Fail("type")

(* The operators that evaluate both sides.                                 *)
Binary(op, v, w) ==
  CASE op = "==" -> Ok(Boolean(Equal(v, w)))
    [] op = "!=" -> Ok(Boolean(~Equal(v, w)))
    [] op = "<"  -> Ok(Boolean(Below(v, w)))
    [] op = "<=" -> Ok(Boolean(AtMost(v, w)))
    [] op = ">"  -> Ok(Boolean(Below(w, v)))
    [] op = ">=" -> Ok(Boolean(AtMost(w, v)))
    [] op = "+"  -> Joined(v, w)
    [] OTHER     -> IF Is(v, "num") /\ Is(w, "num")
                    THEN Ok([num |-> Arithmetic(op, v.num, w.num)]) ELSE Fail("type")
Negated(v) == IF Is(v, "num") THEN Ok([num |-> <<-v.num[1], v.num[2]>>]) ELSE Fail("type")

Put(map, key, v) == [k \in DOMAIN map \cup {key} |-> IF k = key THEN v ELSE map[k]]
Get(map, key)    == IF key \in DOMAIN map THEN Ok(map[key]) ELSE Fail("runtime")
At(list, i)      == IF i < Len(list) THEN Ok(list[i + 1]) ELSE Fail("runtime")
RECURSIVE AsMap(_)
AsMap(vs) ==
  IF vs = <<>> THEN <<>> ELSE LET n == Len(vs) IN Put(AsMap(SubSeq(vs, 1, n - 2)), Shown(vs[n - 1]), vs[n])

Lookup(env, name) == IF name \in DOMAIN env THEN Ok(env[name]) ELSE Fail("variable")

(* A regex pattern is a character it looks for; no other value matches.    *)
PatternMatches(pattern, v) ==
  CASE Is(pattern, "literal") -> Equal(v, pattern.literal)
    [] Is(pattern, "regex")   -> Is(v, "str") /\ pattern.regex \in ToSet(v.str)
    [] OTHER                  -> TRUE

(* standard_lib::call on a method: only the ones told apart here.          *)
Method(type, method, vs) ==
  IF <<type, method>> = <<"map", "set">> /\ Len(vs) = 3 /\ Is(vs[2], "str")
  THEN Ok([map |-> Put(vs[1].map, vs[2].str, vs[3])])
  ELSE IF method = "len" /\ type \in {"list", "str"} THEN Ok(Num(Len(vs[1][type])))
  ELSE Fail("unknown function")

(* A call of the library is its effect, and gives the value it is to give. *)
Effect(e) == [is |-> e.ends, v |-> e.gives, did |-> <<e.call>>]
TypeOf(v) == CHOOSE type \in DOMAIN v : TRUE
-----------------------------------------------------------------------------
(* The evaluator.                                                          *)

IndexAccess(t, i) ==
  IF Is(t, "list") /\ Is(i, "num") THEN At(t.list, AsUsize(i.num))
  ELSE IF Is(t, "map") /\ Is(i, "str") THEN Get(t.map, i.str)
  ELSE Fail("type")

ResolveSliceIndex(q, length) ==
  IF q[1] < 0
  THEN LET offset == AsUsize(<<-q[1], q[2]>>) IN IF offset > length THEN 0 ELSE length - offset
  ELSE IF AsUsize(q) > length THEN length ELSE AsUsize(q)

(* bounds: the start and the end, each a sequence of none or one value.    *)
SliceAccess(t, start, end) ==
  LET type   == TypeOf(t)
      length == Len(t[type])
      from   == IF start = <<>> THEN 0 ELSE ResolveSliceIndex(start[1].num, length)
      to     == IF end = <<>> THEN length ELSE ResolveSliceIndex(end[1].num, length)
  IN  IF type \notin {"list", "str"} THEN Fail("type")
      ELSE IF \E v \in ToSet(start \o end) : ~Is(v, "num") THEN Fail("type")
      ELSE Ok([x \in {type} |-> SubSeq(t[type], IF from < to THEN from + 1 ELSE to + 1, to)])

MethodSpaces == {"re", "str", "num", "list", "map", "pool"}

RECURSIVE EvalExpr(_, _), EvalAll(_, _), EvalArms(_, _, _)
EvalAll(es, env) ==
  IF es = <<>> THEN Ok(<<>>)
  ELSE Then(EvalExpr(Head(es), env),
             LAMBDA v : Then(EvalAll(Tail(es), env), LAMBDA vs : Ok(<<v>> \o vs)))
EvalArms(v, arms, env) ==
  IF arms = <<>> THEN Fail("runtime")
  ELSE IF PatternMatches(Head(arms).pattern, v) THEN EvalExpr(Head(arms).body, env)
  ELSE EvalArms(v, Tail(arms), env)
EvalExpr(e, env) ==
  CASE e.k = "literal" -> Ok(e.value)
    [] e.k = "var"     -> Lookup(env, e.name)
    [] e.k = "interpolation" ->
         Then(EvalAll(e.parts, env), LAMBDA vs : Ok([str |-> FlattenSeq([i \in DOMAIN vs |-> Shown(vs[i])])]))
    [] e.k = "list"    -> Then(EvalAll(e.parts, env), LAMBDA vs : Ok([list |-> vs]))
    [] e.k = "map"     -> Then(EvalAll(e.parts, env), LAMBDA vs : Ok([map |-> AsMap(vs)]))
    [] e.k = "call"    -> Then(EvalAll(e.parts, env), LAMBDA vs : Effect(e))
    [] e.k = "neg"     -> Then(EvalExpr(e.operand, env), LAMBDA v : Negated(v))
    [] e.k = "not"     -> Then(EvalExpr(e.operand, env), LAMBDA v : Ok(Boolean(~AsBool(v))))
    [] e.k = "and"     -> Then(EvalExpr(e.left, env), LAMBDA v :
                            IF ~AsBool(v) THEN Ok(Boolean(FALSE))
                            ELSE Then(EvalExpr(e.right, env), LAMBDA w : Ok(Boolean(AsBool(w)))))
    [] e.k = "or"      -> Then(EvalExpr(e.left, env), LAMBDA v :
                            IF AsBool(v) THEN Ok(Boolean(TRUE))
                            ELSE Then(EvalExpr(e.right, env), LAMBDA w : Ok(Boolean(AsBool(w)))))
    [] e.k = "binary"  -> Then(EvalAll(<<e.left, e.right>>, env), LAMBDA vs : Binary(e.op, vs[1], vs[2]))
    [] e.k = "index"   -> Then(EvalAll(<<e.target, e.index>>, env), LAMBDA vs : IndexAccess(vs[1], vs[2]))
    [] e.k = "slice"   -> Then(EvalExpr(e.target, env), LAMBDA t :
                            Then(EvalAll(e.start, env), LAMBDA start :
                              Then(EvalAll(e.end, env), LAMBDA end : SliceAccess(t, start, end))))
    [] e.k = "match"   -> Then(EvalExpr(e.value, env), LAMBDA v : EvalArms(v, e.arms, env))
    [] e.k = "method"  -> Then(EvalExpr(e.target, env), LAMBDA t :
                            IF Is(t, "proc") THEN Fail("runtime")
                            ELSE IF TypeOf(t) \notin MethodSpaces THEN Fail("type")
                            ELSE Then(EvalAll(e.parts \o e.named, env),
                                   LAMBDA vs : Method(TypeOf(t), e.method, <<t>> \o SubSeq(vs, 1, Len(e.parts)))))

(* A statement ends with the variables it leaves.                          *)
Assign(env, name, r) == Then(r, LAMBDA v : Ok(Put(env, name, v)))

IndexSet(t, i, v) ==
  IF Is(t, "map") /\ Is(i, "str") THEN Ok([map |-> Put(t.map, i.str, v)])
  ELSE IF Is(t, "list") /\ Is(i, "num")
  THEN IF AsUsize(i.num) >= Len(t.list) THEN Fail("runtime")
       ELSE Ok([list |-> ReplaceAt(t.list, AsUsize(i.num) + 1, v)])
  ELSE Fail("type")

RECURSIVE Without(_, _)
Without(a, b) ==
  IF b = <<>> \/ a = <<>> THEN a
  ELSE IF IsPrefix(b, a) THEN Without(SubSeq(a, Len(b) + 1, Len(a)), b)
  ELSE <<Head(a)>> \o Without(Tail(a), b)
SubAssign(v, w) ==
  IF Is(v, "num") /\ Is(w, "num") THEN Ok([num |-> Arithmetic("-", v.num, w.num)])
  ELSE IF Is(v, "str") /\ Is(w, "str") THEN Ok([str |-> Without(v.str, w.str)])
  ELSE Fail("type")

RECURSIVE FirstTruthy(_, _)
FirstTruthy(candidates, env) ==
  IF candidates = <<>> THEN Fail("runtime")
  ELSE LET r == EvalExpr(Head(candidates), env)
       IN  IF r.is = "ok" /\ Truthy(r.v) THEN r
           ELSE IF r.is = "panic" THEN r
           ELSE Did(r.did, FirstTruthy(Tail(candidates), env))

(* The comparison after which the assertion fails.                         *)
Refuted(kind, v, w) ==
  CASE kind = "eq"  -> ~Equal(v, w)
    [] kind = "neq" -> Equal(v, w)
    [] kind = "gt"  -> NumberBelow(v.num, w.num) \/ Equal(v, w)
    [] kind = "ge"  -> NumberBelow(v.num, w.num)
    [] kind = "lt"  -> NumberBelow(w.num, v.num) \/ Equal(v, w)
    [] kind = "le"  -> NumberBelow(w.num, v.num)
EvalAssertion(kind, args, env) ==
  IF args = <<>> THEN Fail("parsing")
  ELSE Then(EvalAll(args, env), LAMBDA vs :
         IF Len(vs) # 2 THEN Fail("parsing")
         ELSE IF kind \notin {"eq", "neq"} /\ \E v \in ToSet(vs) : ~Is(v, "num") THEN Fail("type")
         ELSE IF Refuted(kind, vs[1], vs[2]) THEN Fail("assertion")
         ELSE Ok(env))

(* An expression as a statement: the calls that need the variables.  A     *)
(* procedure's call is ProcedureCall's; here it is an effect.              *)
ProcedureRuns(v)    == [is |-> "ok", v |-> v, did |-> <<"procedure">>]
SetsMap(e, env)     == /\ e.method = "set" /\ e.target.k = "var" /\ e.target.name \in DOMAIN env
                       /\ Is(env[e.target.name], "map")
ExprStmt(e, env) ==
  LET plainly == Then(EvalExpr(e, env), LAMBDA v : Ok(env))
  IN  IF e.k # "method" THEN plainly
      ELSE IF e.method = "call"
      THEN Then(EvalExpr(e.target, env), LAMBDA t :
             IF ~Is(t, "proc") THEN plainly
             ELSE IF Len(e.parts) # Len(t.proc) THEN Fail("runtime")
             ELSE Then(EvalAll(e.parts, env), LAMBDA vs : ProcedureRuns(env)))
      ELSE IF SetsMap(e, env)
      THEN Then(EvalAll(e.parts, env), LAMBDA vs :
             Assign(env, e.target.name, Method("map", "set", <<env[e.target.name]>> \o vs)))
      ELSE plainly

ExecStmt(s, env) ==
  CASE s.op = "set" -> Assign(env, s.name, EvalExpr(s.value, env))
    [] s.op = "index_set" ->
         Then(EvalAll(<<[k |-> "var", name |-> s.name], s.index, s.value>>, env),
               LAMBDA vs : Assign(env, s.name, IndexSet(vs[1], vs[2], vs[3])))
    [] s.op = "add_assign" ->
         Then(EvalAll(<<[k |-> "var", name |-> s.name], s.value>>, env),
               LAMBDA vs : Assign(env, s.name, Joined(vs[1], vs[2])))
    [] s.op = "sub_assign" ->
         Then(EvalAll(<<[k |-> "var", name |-> s.name], s.value>>, env),
               LAMBDA vs : Assign(env, s.name, SubAssign(vs[1], vs[2])))
    [] s.op = "or_assign" -> Assign(env, s.name, FirstTruthy(s.candidates, env))
    [] s.op = "assert"    -> EvalAssertion(s.kind, s.args, env)
    [] s.op = "expr"      -> ExprStmt(s.expr, env)
-----------------------------------------------------------------------------
(* The generated code.                                                     *)

CorvoIndex(t, i) ==
  IF Is(t, "list") /\ Is(i, "num")
  THEN IF i.num[2] # 1 \/ i.num[1] < 0 THEN Fail("runtime") ELSE At(t.list, i.num[1])
  ELSE IF Is(t, "map") /\ Is(i, "str") THEN Get(t.map, i.str)
  ELSE Fail("type")

(* A string is sliced by bytes: the characters from one byte to another,   *)
(* and a panic inside a character.                                         *)
Width(c)      == IF c = WideChar THEN 2 ELSE 1
ByteLen(s)    == FoldLeft(LAMBDA n, c : n + Width(c), 0, s)
Boundaries(s) == {<<ByteLen(SubSeq(s, 1, i)), i>> : i \in 0 .. Len(s)}
CharsUpTo(s, byte) == (CHOOSE b \in Boundaries(s) : b[1] = byte)[2]
LowerOf(a, b) == IF a < b THEN a ELSE b
Bound(bound, default, length) ==
  LowerOf(IF bound = <<>> THEN default
          ELSE IF Is(bound[1], "num") THEN AsUsize(bound[1].num) ELSE 0, length)
CorvoSlice(t, start, end) ==
  LET length == IF Is(t, "list") THEN Len(t.list) ELSE ByteLen(t.str)
      from   == Bound(start, 0, length)
      to     == Bound(end, length, length)
  IN  IF from > to THEN Fail("panic")
      ELSE IF Is(t, "list") THEN Ok([list |-> SubSeq(t.list, from + 1, to)])
      ELSE IF \E byte \in {from, to} : \A b \in Boundaries(t.str) : b[1] # byte THEN Fail("panic")
      ELSE Ok([str |-> SubSeq(t.str, CharsUpTo(t.str, from) + 1, CharsUpTo(t.str, to))])

MacroSpaces == MethodSpaces \cup {"conn", "proc"}
Unbound(env, names) == [n \in DOMAIN env \ ToSet(names) |-> env[n]]

RECURSIVE Generated(_, _), GeneratedAll(_, _), GeneratedArms(_, _, _)
(* Mutant: from right to left.                                             *)
GeneratedBackwards(es, env) ==
  IF es = <<>> THEN Ok(<<>>)
  ELSE Then(GeneratedAll(Tail(es), env),
             LAMBDA vs : Then(Generated(Head(es), env), LAMBDA v : Ok(<<v>> \o vs)))
GeneratedAll(es, env) ==
  IF es = <<>> THEN Ok(<<>>)
  ELSE Then(Generated(Head(es), env),
             LAMBDA v : Then(GeneratedAll(Tail(es), env), LAMBDA vs : Ok(<<v>> \o vs)))
GeneratedArms(v, arms, env) ==
  IF arms = <<>> THEN Ok(NoValue)
  ELSE IF PatternMatches(Head(arms).pattern, v) THEN Generated(Head(arms).body, env)
  ELSE GeneratedArms(v, Tail(arms), env)
(* The macro takes the parameters' names away before it evaluates the      *)
(* arguments; named arguments are in no macro.                             *)
CorvoMethodCall(e, t, env) ==
  IF e.method = "call" /\ Is(t, "proc")
  THEN Then(GeneratedAll(e.parts, Unbound(env, t.proc)), LAMBDA vs :
         IF Len(vs) < Len(t.proc) THEN Fail("runtime") ELSE ProcedureRuns(NoValue))
  ELSE Then(GeneratedAll(e.parts, env), LAMBDA vs :
         IF TypeOf(t) \notin MacroSpaces THEN Fail("type")
         ELSE Method(TypeOf(t), e.method, <<t>> \o vs))
Generated(e, env) ==
  CASE e.k = "literal" -> Ok(e.value)
    [] e.k = "var"     -> Lookup(env, e.name)
    [] e.k = "interpolation" ->
         Then(GeneratedAll(e.parts, env), LAMBDA vs : Ok([str |-> FlattenSeq([i \in DOMAIN vs |-> Shown(vs[i])])]))
    [] e.k = "list"    -> Then(GeneratedAll(e.parts, env), LAMBDA vs : Ok([list |-> vs]))
    [] e.k = "map"     -> Then(GeneratedAll(e.parts, env), LAMBDA vs : Ok([map |-> AsMap(vs)]))
    [] e.k = "call"    -> Then(GeneratedAll(e.parts, env), LAMBDA vs : Effect(e))
    [] e.k = "neg"     -> Then(Generated(e.operand, env), LAMBDA v : Negated(v))
    [] e.k = "not"     -> Then(Generated(e.operand, env), LAMBDA v : Ok(Boolean(~AsBool(v))))
    [] e.k = "and"     -> Then(Generated(e.left, env), LAMBDA v :
                            IF AsBool(v)
                            THEN Then(Generated(e.right, env), LAMBDA w : Ok(Boolean(AsBool(w))))
                            ELSE Ok(Boolean(FALSE)))
    [] e.k = "or"      -> Then(Generated(e.left, env), LAMBDA v :
                            IF AsBool(v) THEN Ok(Boolean(TRUE))
                            ELSE Then(Generated(e.right, env), LAMBDA w : Ok(Boolean(AsBool(w)))))
    [] e.k = "binary"  -> Then(GeneratedAll(<<e.left, e.right>>, env), LAMBDA vs : Binary(e.op, vs[1], vs[2]))
    [] e.k = "index"   -> Then(GeneratedAll(<<e.target, e.index>>, env), LAMBDA vs : CorvoIndex(vs[1], vs[2]))
    [] e.k = "slice"   -> Then(Generated(e.target, env), LAMBDA t :
                            IF TypeOf(t) \notin {"list", "str"} THEN Fail("type")
                            ELSE Then(GeneratedAll(e.start, env), LAMBDA start :
                                   Then(GeneratedAll(e.end, env), LAMBDA end : CorvoSlice(t, start, end))))
    [] e.k = "match"   -> Then(Generated(e.value, env), LAMBDA v : GeneratedArms(v, e.arms, env))
    [] e.k = "method"  -> Then(Generated(e.target, env), LAMBDA t : CorvoMethodCall(e, t, env))

GeneratedIndexSet(t, i, v) ==
  CASE Is(t, "map") /\ Is(i, "str")  -> Ok([map |-> Put(t.map, i.str, v)])
    [] Is(t, "list") /\ Is(i, "num") ->
         LET at == AsUsize(i.num)
         IN  IF at < Len(t.list) THEN Ok([list |-> [t.list EXCEPT ![at + 1] = v]]) ELSE Fail("runtime")
    [] OTHER -> Fail("type")
GeneratedSubAssign(v, w) ==
  IF Is(v, "num") /\ Is(w, "num") THEN Ok([num |-> Arithmetic("-", v.num, w.num)]) ELSE Fail("type")

(* Each candidate is evaluated in the generated function itself: an error  *)
(* leaves it.  No candidate may do.                                        *)
RECURSIVE GeneratedCandidates(_, _, _)
GeneratedCandidates(name, candidates, env) ==
  IF candidates = <<>> THEN Ok(env)
  ELSE Then(Generated(Head(candidates), env), LAMBDA v :
         IF Truthy(v) THEN Ok(Put(env, name, v)) ELSE GeneratedCandidates(name, Tail(candidates), env))
OrAssign(name, candidates, env) ==
  IF name \in DOMAIN env /\ Truthy(env[name]) THEN Ok(env)
  ELSE GeneratedCandidates(name, candidates, env)

(* corvo_assert! takes what is no number for 0, and puts both expressions  *)
(* into its message once more.                                             *)
NumberOr0(v) == IF Is(v, "num") THEN v ELSE Num(0)
CorvoAssert(kind, args, env) ==
  LET values  == GeneratedAll(args, env)
      checked == IF kind \in {"eq", "neq"} THEN values.v ELSE [i \in {1, 2} |-> NumberOr0(values.v[i])]
  IN  IF Len(args) # 2 THEN Fail("assertion")
      ELSE Then(values, LAMBDA vs :
             IF Refuted(kind, checked[1], checked[2]) THEN Did(values.did, Fail("assertion"))
             ELSE Ok(env))

GeneratedStmt(s, env) ==
  CASE s.op = "set" -> Assign(env, s.name, Generated(s.value, env))
    [] s.op = "index_set" ->
         Then(GeneratedAll(<<[k |-> "var", name |-> s.name], s.index, s.value>>, env),
               LAMBDA vs : Assign(env, s.name, GeneratedIndexSet(vs[1], vs[2], vs[3])))
    [] s.op = "add_assign" ->
         Then(GeneratedAll(<<[k |-> "var", name |-> s.name], s.value>>, env),
               LAMBDA vs : Assign(env, s.name, Joined(vs[1], vs[2])))
    [] s.op = "sub_assign" ->
         Then(GeneratedAll(<<[k |-> "var", name |-> s.name], s.value>>, env),
               LAMBDA vs : Assign(env, s.name, GeneratedSubAssign(vs[1], vs[2])))
    [] s.op = "or_assign" -> OrAssign(s.name, s.candidates, env)
    [] s.op = "assert"    -> CorvoAssert(s.kind, s.args, env)
    [] s.op = "expr"      -> Then(Generated(s.expr, env), LAMBDA v : Ok(env))
-----------------------------------------------------------------------------
(* The property.                                                           *)

Parts(e) ==
  CASE e.k \in {"literal", "var"} -> <<>>
    [] e.k \in {"interpolation", "list", "map", "call"} -> e.parts
    [] e.k \in {"neg", "not"}            -> <<e.operand>>
    [] e.k \in {"and", "or", "binary"}   -> <<e.left, e.right>>
    [] e.k = "index"  -> <<e.target, e.index>>
    [] e.k = "slice"  -> <<e.target>> \o e.start \o e.end
    [] e.k = "match"  -> <<e.value>> \o [i \in DOMAIN e.arms |-> e.arms[i].body]
    [] e.k = "method" -> <<e.target>> \o e.parts \o e.named
StmtParts(s) ==
  CASE s.op \in {"set", "add_assign", "sub_assign"} -> <<s.value>>
    [] s.op = "index_set" -> <<s.index, s.value>>
    [] s.op = "or_assign" -> s.candidates
    [] s.op = "assert"    -> s.args
    [] s.op = "expr"      -> IF s.expr.k = "method" /\ s.expr.method \in {"call", "set"}
                             THEN Parts(s.expr) ELSE <<s.expr>>

RECURSIVE Mentions(_, _), Within(_)
Mentions(e, names) ==
  (e.k = "var" /\ e.name \in ToSet(names)) \/ \E p \in ToSet(Parts(e)) : Mentions(p, names)
Within(e) == {e} \cup UNION {Within(p) : p \in ToSet(Parts(e))}

(* The values an expression's parts have, NoValue for one that fails.      *)
Value(e, env) == EvalExpr(e, env).v
Natural(v)    == Is(v, "num") /\ v.num[1] >= 0

(* Where the generated expression is known to do something else: an index  *)
(* that is no natural number; a slice from the end, out of order, with a   *)
(* bound that is no number, of what has no slices or of a string with a    *)
(* wide character; a match that no arm matches; a method with named        *)
(* arguments or of a value that has none.                                  *)
Odd(e, env) ==
  CASE e.k = "index" -> LET t == Value(e.target, env)  i == Value(e.index, env)
                        IN  Is(t, "list") /\ Is(i, "num") /\ (i.num[1] < 0 \/ i.num[2] # 1)
    [] e.k = "slice" ->
         LET t      == EvalExpr(e.target, env)
             all    == EvalAll(e.start \o e.end, env)
             from   == IF e.start = <<>> THEN 0
                       ELSE ResolveSliceIndex(Head(all.v).num, Len(t.v[TypeOf(t.v)]))
         IN  t.is = "ok" /\ IF TypeOf(t.v) \notin {"list", "str"} THEN all.is # "ok" \/ all.did # <<>>
                            ELSE all.is = "ok" /\
                              (\/ \E v \in ToSet(all.v) : ~Natural(v)
                               \/ Is(t.v, "str") /\ WideChar \in ToSet(t.v.str)
                               \/ e.end # <<>> /\ AsUsize(Last(all.v).num) < from)
    [] e.k = "match"  -> LET r == EvalExpr(e.value, env)
                         IN  r.is = "ok" /\ \A i \in DOMAIN e.arms : ~PatternMatches(e.arms[i].pattern, r.v)
    [] e.k = "method" -> LET t == EvalExpr(e.target, env)
                         IN  t.is = "ok" /\ (e.named # <<>> \/ TypeOf(t.v) \notin MethodSpaces)
    [] OTHER -> FALSE

(* And where the generated statement is: -= of texts; or= when the         *)
(* variable has a value already, a candidate fails or none will do; an     *)
(* assertion with other than two arguments, one that compares other than   *)
(* numbers, one that fails and calls something on the way; the call of a   *)
(* procedure with too many arguments or arguments that use the names of    *)
(* its parameters; the .call of another value, whose target the evaluator  *)
(* evaluates twice, or a .set on a map, which only it stores.              *)
OddStmt(s, env) ==
  CASE s.op = "sub_assign" -> s.name \in DOMAIN env /\ Is(env[s.name], "str")
    [] s.op = "or_assign"  ->
         LET r == FirstTruthy(s.candidates, env)
         IN  \/ s.name \in DOMAIN env /\ Truthy(env[s.name])
             \/ r.is # "ok"
             \/ \E c \in ToSet(s.candidates) : EvalExpr(c, env).is # "ok"
    [] s.op = "assert" ->
         LET vs == EvalAll(s.args, env)
         IN  \/ Len(s.args) # 2
             \/ s.kind \notin {"eq", "neq"} /\ vs.is = "ok" /\ \E v \in ToSet(vs.v) : ~Is(v, "num")
             \/ vs.did # <<>> /\ ExecStmt(s, env).is = "assertion"
    [] s.op = "expr" /\ s.expr.k = "method" ->
         LET e == s.expr  t == Value(e.target, env)
         IN  IF e.method = "call" /\ Is(t, "proc")
             THEN Len(e.parts) # Len(t.proc) \/ \E p \in ToSet(e.parts) : Mentions(p, t.proc)
             ELSE (e.method = "call" /\ EvalExpr(e.target, env).did # <<>>)
                  \/ SetsMap(e, env) \/ Odd(e, env)
    [] OTHER -> FALSE

(* A statement that contains none of these ends the same in both: the same *)
(* value or the same kind of error, the same variables, and the same calls *)
(* in the same order.                                                      *)
Agrees(s, env) ==
  \/ ExecStmt(s, env) = GeneratedStmt(s, env)
  \/ OddStmt(s, env)
  \/ \E e \in UNION {Within(p) : p \in ToSet(StmtParts(s))} : Odd(e, env)
==============================================================================
