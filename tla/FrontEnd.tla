------------------------------- MODULE FrontEnd ------------------------------
(***************************************************************************)
(* A program as a script: written as text, lexed and parsed, and then, as  *)
(* Compiler::compile does, stripped of its prep block and lexed and parsed *)
(* again by the executable.                                                *)
(*                                                                         *)
(* The reference is the writer: Text spells out a syntax tree with the     *)
(* parentheses that precedence and associativity call for, one statement   *)
(* to a line, strings escaped.                                             *)
(***************************************************************************)
EXTENDS Lexer, Parser, SequencesExt

CONSTANTS
  Trees,     \* the syntax trees of programs
  Comment    \* the symbols of a comment that ends every line

VARIABLES
  written,   \* the tree that was meant
  source,    \* the text at hand
  tree,      \* what the parser made of it
  stage      \* "written", "read" (by corvo) or "baked" (read by an executable)

vars == <<written, source, tree, stage>>
-----------------------------------------------------------------------------
(* The writer.                                                             *)

Spelled(k) ==
  IF \E p \in Compound : CompoundKind(p) = k
  THEN CHOOSE p \in Compound : CompoundKind(p) = k ELSE <<k>>

Escape(c) ==
  CASE c = Newline -> <<Backslash, "n">>
    [] c \in {Quote, Backslash, "$"} -> <<Backslash, c>>
    [] OTHER -> <<c>>

Escapes(text) == FoldLeft(LAMBDA t, c : t \o Escape(c), <<>>, text)

(* How tightly operators bind, as they do in C; the one of the left of two *)
(* equals is applied first.                                                *)
Precedence(op) ==
  CASE op = "||" -> 1 [] op = "&&" -> 2 [] op \in {"==", "!="} -> 3
    [] op \in {"<", "<=", ">", ">="} -> 4 [] op \in {"+", "-"} -> 5 [] op \in {"*", "/", "%"} -> 6
Tightest == 8
LevelOf(e) ==
  CASE e.n = "binary" -> Precedence(e.v[1])
    [] e.n = "unary"  -> 7
    [] OTHER          -> Tightest

(* Words, with a blank between any two.                                    *)
Words(parts) == FoldLeft(LAMBDA t, p : IF t = <<>> THEN p ELSE t \o <<" ">> \o p, <<>>, parts)
Each(kids, Show(_)) == [i \in 1 .. Len(kids) |-> Show(kids[i])]
Commas(parts) ==
  FoldLeft(LAMBDA t, p : IF t = <<>> THEN p ELSE t \o <<",", " ">> \o p, <<>>, parts)

RECURSIVE Text(_), TextAt(_, _)
TextAt(e, level) == IF LevelOf(e) < level THEN <<"(">> \o Text(e) \o <<")">> ELSE Text(e)

Braced(block) == <<"{", Newline>> \o Text(block) \o <<"}">>
At1(name)     == <<"@">> \o name
Pairs(kids)   == [i \in 1 .. Len(kids) \div 2 |->
                    Text(kids[2 * i - 1]) \o <<":", " ">> \o Text(kids[2 * i])]
Shared(names) == FoldLeft(LAMBDA t, x : t \o <<",", " ", "shared", " ">> \o At1(x.v), <<>>, names)

ExpressionText(e) ==
  LET k == e.kids
  IN CASE e.n = "string"  -> <<Quote>> \o Escapes(e.v) \o <<Quote>>
       [] e.n \in {"number", "boolean"} -> e.v
       [] e.n = "regex"   -> <<"/">> \o e.v
       [] e.n = "var"     -> At1(e.v)
       [] e.n = "static"  -> <<"static", ".", "get", "(", Quote>> \o e.v \o <<Quote, ")">>
       [] e.n = "unary"   -> Words(<<e.v, TextAt(k[1], LevelOf(e))>>)
       [] e.n = "binary"  -> Words(<<TextAt(k[1], LevelOf(e)), Spelled(e.v[1]),
                                     TextAt(k[2], LevelOf(e) + 1)>>)
       [] e.n = "index"   -> TextAt(k[1], Tightest) \o <<"[">> \o Text(k[2]) \o <<"]">>
       [] e.n = "slice"   -> TextAt(k[1], Tightest) \o <<"[">> \o Text(k[2]) \o <<":">> \o Text(k[3]) \o <<"]">>
       [] e.n = "method"  -> TextAt(k[1], Tightest) \o <<".">> \o e.v \o <<"(">> \o Text(k[2]) \o <<")">>
       [] e.n = "call"    -> e.v \o <<"(">> \o Text(k[1]) \o <<")">>
       [] e.n = "args"    -> Commas(Each(k, Text))
       [] e.n = "named"   -> e.v \o <<":", " ">> \o Text(k[1])
       [] e.n = "list"    -> <<"[">> \o Commas(Each(k[1].kids, Text)) \o <<"]">>
       [] e.n = "map"     -> <<"{">> \o Commas(Pairs(k[1].kids)) \o <<"}">>
       [] e.n = "match"   -> <<"match", "(">> \o Text(k[1]) \o <<")", "{">>
                               \o Words(Each(k[2].kids, Text)) \o <<"}">>
       [] e.n = "arm"     -> Words(<<Text(k[1]), Spelled("=>"), Text(k[2]), <<",">>>>)
       [] e.n = "wildcard" -> <<"_">>
       [] e.n = "procedure" -> <<"procedure", "(">> \o Commas(Each(k[1].kids, LAMBDA x : At1(x.v)))
                               \o <<")">> \o Braced(k[2])
       [] e.n = "interpolation" ->
            <<Quote>>
              \o FoldLeft(LAMBDA t, p : t \o IF p.n = "string" THEN Escapes(p.v)
                                            ELSE <<"$", "{">> \o Text(p) \o <<"}">>, <<>>, k)
              \o <<Quote>>
       [] e.n = "none"    -> <<>>

StatementText(s) ==
  LET k == s.kids
  IN CASE s.n = "var_set"    -> Words(<<At1(s.v), <<"=">>, Text(k[1])>>)
       [] s.n = "static_set" -> <<"static", ".", "set", "(", Quote>> \o s.v \o <<Quote, ",", " ">>
                                  \o Text(k[1]) \o <<")">>
       [] s.n = "index_set"  -> At1(s.v) \o <<"[">> \o Text(k[1]) \o <<"]", " ", "=", " ">> \o Text(k[2])
       [] s.n = "add_assign" -> Words(<<At1(s.v), Spelled("+="), Text(k[1])>>)
       [] s.n = "sub_assign" -> Words(<<At1(s.v), Spelled("-="), Text(k[1])>>)
       [] s.n = "or_assign"  -> At1(s.v) \o <<" ", "or", "=", "(">> \o Commas(Each(k[1].kids, Text)) \o <<")">>
       [] s.n = "expr"       -> Text(k[1])
       [] s.n = "assert"     -> s.v \o <<"(">> \o Commas(Each(k[1].kids, Text)) \o <<")">>
       [] s.n = "prep"       -> <<"prep", " ">> \o Braced(k[1])
       [] s.n \in {"loop", "dont_panic"} -> <<s.n, " ">> \o Braced(k[1])
       [] s.n = "terminate"  -> <<"terminate">>
       [] s.n = "try"        -> <<"try", " ">> \o Braced(k[1])
                                  \o FoldLeft(LAMBDA t, b : t \o <<" ", "fallback", " ">> \o Braced(b),
                                              <<>>, k[2].kids)
       [] s.n = "if"         -> <<"if", "(">> \o Text(k[1]) \o <<")">> \o Braced(k[2])
                                  \o IF k[3].kids = <<>> THEN <<>> ELSE <<"else">> \o Braced(k[3])
       [] s.n = "browse"     -> <<"browse", "(">> \o Commas(<<Text(k[1]), At1(k[2].v), At1(k[3].v)>>)
                                  \o <<")">> \o Braced(k[4])
       [] s.n = "async_browse" -> <<"async_browse", "(">> \o Commas(<<Text(k[1]), At1(k[2].v), At1(k[3].v)>>)
                                  \o Shared(k[4].kids) \o <<")">>
       [] s.n = "http_listen" -> <<"http_listen", "(", "port", ":">>
                                  \o Commas(<<Text(k[1]), At1(k[2].v), At1(k[3].v)>>)
                                  \o Shared(k[4].kids) \o <<")">> \o Braced(k[5])
       [] s.n = "amqp_consume" -> <<"amqp_consume", "(">> \o Commas(<<Text(k[1]), Text(k[2]), At1(k[3].v)>>)
                                  \o Shared(k[4].kids) \o <<")">> \o Braced(k[5])
       [] s.n = "run_test"   -> <<"run_test", "(">> \o Commas(<<Text(k[1]), Text(k[2]), At1(k[3].v)>>)
                                  \o <<")">> \o Braced(k[4])
       [] s.n \in {"block", "program"} ->
            FoldLeft(LAMBDA t, x : t \o Text(x) \o Comment \o <<Newline>>, <<>>, k)

StatementNodes ==
  {"var_set", "static_set", "index_set", "add_assign", "sub_assign", "or_assign", "expr", "assert",
   "prep", "block", "program"} \cup Forms

Text(e) == IF e.n \in StatementNodes THEN StatementText(e) ELSE ExpressionText(e)
-----------------------------------------------------------------------------
Init ==
  /\ written \in Trees
  /\ source = Text(written)
  /\ tree = Nothing
  /\ stage = "written"

ParsedSource(s) ==
  LET Tree(toks) == IF toks = <<>> THEN Failed ELSE Parse(toks)
  IN Tree(Tokenize(s))

Read ==
  /\ stage = "written"
  /\ tree' = ParsedSource(source).ast
  /\ stage' = "read"
  /\ UNCHANGED <<written, source>>

(* compile gives up on a program that is not parsed.                       *)
Bake ==
  /\ stage = "read" /\ tree # Nothing
  /\ source' = StripPrepBlock(source, Tokenize(source))
  /\ tree' = ParsedSource(source').ast
  /\ stage' = "baked"
  /\ UNCHANGED written

Done == (stage = "baked" \/ (stage = "read" /\ tree = Nothing)) /\ UNCHANGED vars

Next == Read \/ Bake \/ Done
Spec == Init /\ [][Next]_vars
-----------------------------------------------------------------------------
(* Properties.                                                             *)

RECURSIVE Subtrees(_)
Subtrees(t) == {t} \cup UNION {Subtrees(t.kids[i]) : i \in 1 .. Len(t.kids)}

(* Nothing ends a statement but what follows it: a line that starts with [ *)
(* or - goes on with the expression of the line before.                    *)
ReadsElement(s) == s.n = "expr" /\ s.kids[1].n \in {"index", "slice"} /\ s.kids[1].kids[1].n = "var"
Joined(t) ==
  /\ t.n \in {"block", "program"}
  /\ \E i \in 1 .. Len(t.kids) - 1 :
       /\ t.kids[i].n \in {"var_set", "index_set", "add_assign", "sub_assign", "expr"}
       /\ ~ReadsElement(t.kids[i])
       /\ Text(t.kids[i + 1])[1] \in {"-", "["}

(* A statement that starts with @x[ is over at the bracket that closes it. *)
CutShort(t) == t.n = "expr" /\ ~ReadsElement(t) /\ Len(Text(t)) > 2 /\ Text(t)[1] = "@" /\ Text(t)[3] = "["

(* A statement that starts with `static` is static.set.                    *)
Headed(t) == t.n = "expr" /\ Text(t) # <<>> /\ Text(t)[1] = "static"

(* Interpolated expressions know the arithmetic operators only, and are    *)
(* not interpolated themselves; one literal is no interpolation.           *)
OutsideInterpolation(e) ==
  \/ e.n = "binary" /\ e.v[1] \notin {"+", "-", "*", "/"}
  \/ e.n = "unary" /\ e.v[1] = "!"
  \/ e.n \in {"interpolation", "procedure"}
NotInterpolated(t) ==
  /\ t.n = "interpolation"
  /\ \/ \E i \in 1 .. Len(t.kids) : \E e \in Subtrees(t.kids[i]) : OutsideInterpolation(e)
     \/ Len(t.kids) = 1 /\ t.kids[1].n \in Literal

(* A regex behind a colon, a comparison, a logical operator, % or !.       *)
Slashes(text) == text # <<>> /\ text[1] = "/"
RegexDivides(t) ==
  LET k == t.kids
  IN \/ t.n = "binary" /\ t.v[1] \notin {"+", "-", "*", "/"} /\ Slashes(TextAt(k[2], LevelOf(t) + 1))
     \/ t.n = "unary" /\ t.v[1] = "!" /\ Slashes(TextAt(k[1], LevelOf(t)))
     \/ t.n = "named" /\ Slashes(Text(k[1]))
     \/ t.n = "slice" /\ Slashes(Text(k[3]))
     \/ t.n = "map" /\ \E i \in 1 .. Len(k[1].kids) : i % 2 = 0 /\ Slashes(Text(k[1].kids[i]))

(* Prep blocks come first, statics are set in them and nothing else waits  *)
(* there for clients or tests.                                             *)
Misplaced(t) ==
  \/ /\ t.n = "program"
     /\ \/ \E i, j \in 1 .. Len(t.kids) : i < j /\ t.kids[i].n # "prep" /\ t.kids[j].n = "prep"
        \/ \E i \in 1 .. Len(t.kids) : t.kids[i].n # "prep" /\ \E s \in Subtrees(t.kids[i]) : s.n = "static_set"
  \/ t.n = "block" /\ \E i \in 1 .. Len(t.kids) : t.kids[i].n = "prep"
  \/ t.n = "prep" /\ \E s \in Subtrees(t) : s.n \in NotInPrep

Readable(t) ==
  ~ \E s \in Subtrees(t) :
      Joined(s) \/ CutShort(s) \/ Headed(s) \/ NotInterpolated(s) \/ RegexDivides(s) \/ Misplaced(s)

(* What is read is what was written, exactly but for the cases above: for  *)
(* every nesting of operators, statements and strings, whatever braces,    *)
(* quotes and signs their texts and comments hold (Lexer::tokenize,        *)
(* Parser::parse).                                                         *)
ReadAsWritten == stage = "read" => (tree = written <=> Readable(written))

(* An executable reads the program without its first prep block and        *)
(* nothing else is lost, wherever braces are in texts and comments         *)
(* (strip_prep_block).  A program without one whose variables include      *)
(* @prep is not covered: the keyword is taken for the block's.             *)
StartsWithPrep(t) == t.kids # <<>> /\ t.kids[1].n = "prep"
NamesPrep(t) == \E i \in 1 .. Len(Text(t)) - 1 : SubSeq(Text(t), i, i + 1) = <<"@", "prep">>
BakedWithoutPrep ==
  stage = "baked" /\ Readable(written) =>
    CASE StartsWithPrep(written) -> tree = [written EXCEPT !.kids = Tail(@)]
      [] ~StartsWithPrep(written) /\ ~NamesPrep(written) -> tree = written
      [] OTHER -> TRUE
==============================================================================
