-------------------------------- MODULE Lexer --------------------------------
(***************************************************************************)
(* From text to tokens: lexer/tokenizer.rs, and strip_prep_block of        *)
(* builder.rs, which cuts a prep block out of the text by the spans of its *)
(* tokens.                                                                 *)
(*                                                                         *)
(* A source is a sequence of symbols.  A symbol is one character, except   *)
(* that the letters of a word are one symbol, because nothing but its      *)
(* spelling as a whole matters; a name is a run of words and digits.       *)
(* Positions count symbols.  A token is a record: its kind k (the spelling *)
(* of keywords and operators), its text or parts v, and its span [from,to).*)
(* An operator returns where it stopped, or `at = 0` for an error.         *)
(***************************************************************************)
EXTENDS Integers, Sequences, FiniteSetsExt

Digit    == {"0", "1", "9"}
Blank    == {" ", "\t", "\r"}
Newline  == "\n"
Quote    == "\""
Backslash == "\\"
Keyword  == {"prep", "static", "var", "try", "fallback", "loop", "browse", "async_browse",
             "terminate", "dont_panic", "match", "if", "else", "assert_eq", "assert_neq",
             "assert_gt", "assert_ge", "assert_lt", "assert_le", "assert_match", "procedure",
             "shared", "http_listen", "amqp_consume", "run_test", "true", "false"}
Name     == {"a", "b", "f", "n", "o", "x", "or", "get", "set", "port", "_",
             "exit", "quit", "help", "vars", "reset"}
Letters  == (Keyword \cup Name) \ {"_"}
Alphanumeric == Keyword \cup Name \cup Digit

Token(k, v, i, j) == [k |-> k, v |-> v, from |-> i, to |-> j]
Scanned(t) == [at |-> t.to, tok |-> t]
NotScanned == [at |-> 0]
IfScanned(r, Then(_)) == IF r.at = 0 THEN NotScanned ELSE Then(r)

(* peek: NUL at the end.                                                   *)
At(s, i) == IF i <= Len(s) THEN s[i] ELSE "\f"

(* The first position from i on that is past the end or passes the test.   *)
Until(s, i, Test(_)) ==
  CHOOSE j \in i .. Len(s) + 1 :
    /\ j > Len(s) \/ Test(s[j])
    /\ \A n \in i .. j - 1 : ~Test(s[n])

AfterBlanks(s, i) == Until(s, i, LAMBDA c : c \notin Blank \cup {Newline})
CrossesLine(s, i, j) == \E n \in i .. j - 1 : s[n] = Newline

(* After these tokens a slash starts a regex, after others it divides.     *)
RegexAllowedAfter ==
  {"(", "[", "{", ",", "=", "=>", "+", "-", "*", "/", "+=", "-=", "or="}
-----------------------------------------------------------------------------
ScanComment(s, i) ==
  LET end == Until(s, i, LAMBDA c : c = Newline)
  IN Scanned(Token("comment", SubSeq(s, i + 1, end - 1), i, end))

(* i is behind the opening slash.                                          *)
RECURSIVE RegexEnd(_, _)
RegexEnd(s, i) ==
  CASE i > Len(s) \/ At(s, i) = Newline -> 0
    [] At(s, i) = "/"       -> i
    [] At(s, i) = Backslash -> RegexEnd(s, Min({i + 2, Len(s) + 1}))
    [] OTHER                -> RegexEnd(s, i + 1)

ScanRegex(s, i) ==
  LET end == RegexEnd(s, i + 1)
  IN IF end = 0 THEN NotScanned
     ELSE LET flags == Until(s, end + 1, LAMBDA c : c \notin Letters)
          IN Scanned(Token("regex", SubSeq(s, i + 1, flags - 1), i, flags))

(* Digits and dots that a digit follows; two dots are no number.           *)
ScanDecimal(s, i) ==
  LET end == Min({j \in i .. Len(s) + 1 :
                    /\ At(s, j) \notin Digit
                    /\ ~(At(s, j) = "." /\ At(s, j + 1) \in Digit)})
      dots == {j \in i .. end - 1 : s[j] = "."}
  IN IF \E j, k \in dots : j # k THEN NotScanned
     ELSE Scanned(Token("number", SubSeq(s, i, end - 1), i, end))

ScanNumber(s, i) ==
  LET radix == IF s[i] = "0" THEN At(s, i + 1) ELSE "\f"
      valid == IF radix = "x" THEN Digit \cup {"a", "b", "f"} ELSE Digit \ {"9"}
      end   == Until(s, i + 2, LAMBDA c : c \notin valid)
  IN IF radix \notin {"x", "o"} THEN ScanDecimal(s, i)
     ELSE IF end = i + 2 THEN NotScanned
     ELSE Scanned(Token("number", SubSeq(s, i, end - 1), i, end))

(* A word is a keyword only alone; `or=` is one token.                     *)
NameToken(s, i, keywords) ==
  LET end  == Until(s, i, LAMBDA c : c \notin Alphanumeric)
      name == SubSeq(s, i, end - 1)
      k    == IF Len(name) = 1 /\ name[1] \in keywords THEN name[1] ELSE "name"
  IN Token(IF k \in {"true", "false"} THEN "boolean" ELSE k, name, i, end)

ScanIdentifier(s, i) ==
  LET WithOr(t) == IF t.v = <<"or">> /\ At(s, t.to) = "=" THEN Token("or=", <<>>, i, t.to + 1) ELSE t
  IN Scanned(WithOr(NameToken(s, i, Keyword)))

Single   == {"{", "}", "(", ")", "[", "]", ",", ".", ":", "@", "=", "!", "<", ">", "%",
             "+", "-", "*", "/"}
CompoundKind(pair) ==
  CASE pair = <<"=", ">">> -> "=>" [] pair = <<"=", "=">> -> "==" [] pair = <<"!", "=">> -> "!="
    [] pair = <<"<", "=">> -> "<=" [] pair = <<">", "=">> -> ">=" [] pair = <<"&", "&">> -> "&&"
    [] pair = <<"|", "|">> -> "||" [] pair = <<"|", "=">> -> "or=" [] pair = <<"+", "+">> -> "++"
    [] pair = <<"+", "=">> -> "+=" [] pair = <<"-", "-">> -> "--" [] pair = <<"-", "=">> -> "-="
Compound == {<<"=", ">">>, <<"=", "=">>, <<"!", "=">>, <<"<", "=">>, <<">", "=">>, <<"&", "&">>,
             <<"|", "|">>, <<"|", "=">>, <<"+", "+">>, <<"+", "=">>, <<"-", "-">>, <<"-", "=">>}

OperatorToken(s, i, compounds) ==
  LET pair == <<s[i], At(s, i + 1)>>
  IN CASE pair \in compounds -> Token(CompoundKind(pair), <<>>, i, i + 2)
       [] pair \notin compounds /\ s[i] \in Single -> Token(s[i], <<>>, i, i + 1)
       [] OTHER -> Token("illegal", <<>>, i, i + 1)

ScanOperator(s, i, regexAllowed) ==
  IF s[i] = "/" /\ regexAllowed THEN ScanRegex(s, i)
  ELSE Scanned(OperatorToken(s, i, Compound))
-----------------------------------------------------------------------------
(* Strings, and the expressions in them.                                   *)

Escaped(c) ==
  CASE c = "n" -> <<Newline>> [] c = "t" -> <<"\t">> [] c = "r" -> <<"\r">>
    [] c \in {Backslash, Quote, "$"} -> <<c>>
    [] OTHER -> <<Backslash, c>>

(* A string in an interpolated expression is not interpolated itself and   *)
(* stays on its line.                                                      *)
RECURSIVE InnerString(_, _, _)
InnerString(s, i, text) ==
  CASE i > Len(s) -> NotScanned
    [] At(s, i) = Quote   -> [at |-> i + 1, text |-> text]
    [] At(s, i) = Newline -> NotScanned
    [] At(s, i) = Backslash ->
         IF i = Len(s) THEN NotScanned ELSE InnerString(s, i + 2, text \o Escaped(s[i + 1]))
    [] i <= Len(s) /\ s[i] \notin {Quote, Newline, Backslash} ->
         InnerString(s, i + 1, Append(text, s[i]))

ScanInnerString(s, i) ==
  IfScanned(InnerString(s, i + 1, <<>>), LAMBDA r : Scanned(Token("string", r.text, i, r.at)))

(* What an interpolated expression is made of: no comparisons, no logical  *)
(* operators, no % and !, no comments; `if`, `else` and `or=` are names.   *)
InnerSingle   == {"{", "}", "(", ")", "[", "]", ",", ".", ":", "+", "-", "*", "@", "=", "/"}
InnerCompound == {<<"+", "+">>, <<"+", "=">>, <<"-", "-">>, <<"-", "=">>, <<"=", ">">>}

ScanInner(s, i, regexAllowed) ==
  LET c == s[i]
  IN CASE c = Quote -> ScanInnerString(s, i)
       [] c \in Digit -> ScanDecimal(s, i)
       [] c \in Keyword \cup Name -> Scanned(NameToken(s, i, Keyword \ {"if", "else"}))
       [] c = "/" /\ regexAllowed -> ScanRegex(s, i)
       [] c \in InnerSingle /\ ~(c = "/" /\ regexAllowed) ->
            Scanned(OperatorToken(s, i, InnerCompound))
       [] OTHER -> NotScanned

RECURSIVE ScanInterpolation(_, _, _, _, _)
ScanInterpolation(s, i, depth, regexAllowed, toks) ==
  LET j == AfterBlanks(s, i)
      allowed == regexAllowed \/ CrossesLine(s, i, j)
  IN IF j > Len(s) THEN NotScanned
     ELSE IF s[j] = "}" /\ depth = 1
     THEN [at |-> j + 1, toks |-> Append(toks, Token("eof", <<>>, j + 1, j + 1))]
     ELSE LET d == CASE s[j] = "{" -> depth + 1 [] s[j] = "}" -> depth - 1 [] OTHER -> depth
          IN IfScanned(ScanInner(s, j, allowed),
               LAMBDA r : ScanInterpolation(s, r.at, d, r.tok.k \in RegexAllowedAfter, Append(toks, r.tok)))

(* text is the literal since `from`; the last literal reaches to the end.  *)
RECURSIVE StringParts(_, _, _, _, _)
StringParts(s, i, from, text, parts) ==
  LET literal(to) == IF text = <<>> THEN parts ELSE Append(parts, Token("string", text, from, to))
  IN CASE i > Len(s) -> NotScanned
       [] At(s, i) = Quote -> [at |-> i + 1, text |-> text, plain |-> parts = <<>>,
                               parts |-> literal(i + 1)]
       [] At(s, i) = Backslash ->
            IF i = Len(s) THEN NotScanned
            ELSE StringParts(s, i + 2, from, text \o Escaped(s[i + 1]), parts)
       [] At(s, i) = "$" /\ At(s, i + 1) = "{" ->
            IfScanned(ScanInterpolation(s, i + 2, 1, TRUE, <<>>),
              LAMBDA r : StringParts(s, r.at, r.at, <<>>,
                           Append(literal(i), Token("interpolation", r.toks, from, r.at))))
       [] OTHER -> StringParts(s, i + 1, from, Append(text, s[i]), parts)

ScanString(s, i) ==
  IfScanned(StringParts(s, i + 1, i + 1, <<>>, <<>>),
    LAMBDA r : Scanned(IF r.plain THEN Token("string", r.text, i, r.at)
                       ELSE Token("interpolation", r.parts, i, r.at)))
-----------------------------------------------------------------------------
NextToken(s, i, regexAllowed) ==
  CASE s[i] = "#"      -> ScanComment(s, i)
    [] s[i] = Quote    -> ScanString(s, i)
    [] s[i] \in Digit  -> ScanNumber(s, i)
    [] s[i] \in Keyword \cup Name -> ScanIdentifier(s, i)
    [] OTHER           -> ScanOperator(s, i, regexAllowed)

(* A comment leaves regexAllowed as it was; the end of a line sets it.     *)
RECURSIVE TokensFrom(_, _, _, _)
TokensFrom(s, i, regexAllowed, toks) ==
  LET j == AfterBlanks(s, i)
      allowed == regexAllowed \/ CrossesLine(s, i, j)
  IN IF j > Len(s) THEN Append(toks, Token("eof", <<>>, j, j))
     ELSE LET Rest(r) ==
                IF r.at = 0 THEN <<>>
                ELSE TokensFrom(s, r.at,
                       IF r.tok.k = "comment" THEN allowed ELSE r.tok.k \in RegexAllowedAfter,
                       Append(toks, r.tok))
          IN Rest(NextToken(s, j, allowed))

(* The tokens of a source, none when it is not lexed.                      *)
Tokenize(s) == TokensFrom(s, 1, TRUE, <<>>)
-----------------------------------------------------------------------------
Trimmed(s) ==
  LET solid == {i \in 1 .. Len(s) : s[i] \notin Blank \cup {Newline}}
  IN IF solid = {} THEN <<>> ELSE SubSeq(s, Min(solid), Max(solid))

(* The depth of braces before token j, counted from token i on.            *)
DepthBefore(toks, i, j) ==
  LET Of(k) == {n \in i .. j - 1 : toks[n].k = k}
  IN Cardinality(Of("{")) - Cardinality(Of("}"))

(* Mutant: up to the first closing brace.                                  *)
StripToFirstBrace(s, toks) ==
  LET preps == {i \in 1 .. Len(toks) : toks[i].k = "prep"}
      closing == {j \in Min(preps) .. Len(toks) : toks[j].k = "}"}
  IN IF preps = {} \/ closing = {} THEN s
     ELSE Trimmed(SubSeq(s, 1, toks[Min(preps)].from - 1) \o SubSeq(s, toks[Min(closing)].to, Len(s)))

(* From the first token `prep`, whatever it stands for, to the brace that  *)
(* closes the first one opened after it; nothing when one closes before.   *)
StripPrepBlock(s, toks) ==
  LET preps == {i \in 1 .. Len(toks) : toks[i].k = "prep"}
  IN IF preps = {} THEN s
     ELSE LET p == Min(preps)
              closing == {j \in p .. Len(toks) : toks[j].k = "}" /\ DepthBefore(toks, p, j) <= 1}
              q == Min(closing)
          IN IF closing = {} THEN s
             ELSE IF DepthBefore(toks, p, q) = 0 THEN s
             ELSE Trimmed(SubSeq(s, 1, toks[p].from - 1) \o SubSeq(s, toks[q].to, Len(s)))
==============================================================================
