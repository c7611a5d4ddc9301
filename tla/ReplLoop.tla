------------------------------- MODULE ReplLoop ------------------------------
(***************************************************************************)
(* The interactive loop (repl/mod.rs): lines are collected until as many   *)
(* braces are closed as were opened, counted as characters, and then run   *)
(* as one program in the one evaluator and state of the session.           *)
(***************************************************************************)
EXTENDS Lexer, Parser, SequencesExt

CONSTANTS
  Sessions,   \* the lines a user may type, as sequences of symbols
  MaxBuffer   \* bound on the buffer once the input has ended

VARIABLES
  typed,      \* the lines of the session
  next,       \* the line read next
  buffer,     \* multiline_buffer
  depth,      \* brace_depth
  ran,        \* history: the sources executed since the last reset
  quit        \* the loop was left

replVars == <<typed, next, buffer, depth, ran, quit>>

Command == {<<"exit">>, <<"quit">>, <<"help">>, <<"vars">>, <<"reset">>}
CommandLine(l) == buffer = <<>> /\ Trimmed(l) \in Command

Braces(l, c) == Cardinality({i \in 1 .. Len(l) : l[i] = c})

ReplInit ==
  /\ typed \in Sessions
  /\ next = 1 /\ buffer = <<>> /\ depth = 0 /\ ran = <<>> /\ quit = FALSE

Reading == ~quit /\ next <= Len(typed) /\ next' = next + 1 /\ UNCHANGED typed
Line == typed[next]

SkipBlank ==
  /\ Reading /\ Trimmed(Line) = <<>> /\ buffer = <<>>
  /\ UNCHANGED <<buffer, depth, ran, quit>>

(* exit and quit leave the loop, reset forgets what ran, help and vars     *)
(* print.  They are commands only while nothing is being collected.        *)
Obey ==
  /\ Reading /\ CommandLine(Line)
  /\ quit' = (Trimmed(Line) \in {<<"exit">>, <<"quit">>})
  /\ ran'  = IF Trimmed(Line) = <<"reset">> THEN <<>> ELSE ran
  /\ UNCHANGED <<buffer, depth>>

(* Mutant: the braces of earlier lines are forgotten.                      *)
DepthOfLine(l) == Max({0, Braces(l, "{") - Braces(l, "}")})

(* saturating_sub: more closed than opened is none open.                   *)
DepthAfter(l) == Max({0, depth + Braces(l, "{") - Braces(l, "}")})
Collected(l)  == IF buffer = <<>> THEN l ELSE buffer \o <<Newline>> \o l

Collect ==
  /\ Reading /\ ~CommandLine(Line)
  /\ ~(Trimmed(Line) = <<>> /\ buffer = <<>>)
  /\ depth' = DepthAfter(Line)
  /\ IF depth' = 0
     THEN buffer' = <<>> /\ ran' = Append(ran, Trimmed(Collected(Line)))
     ELSE buffer' = Collected(Line) /\ UNCHANGED ran
  /\ UNCHANGED quit

(* At the end of the input read_line returns an empty line, again and      *)
(* again: the loop prompts for ever, and an open block grows by a line.    *)
EndOfInput ==
  /\ ~quit /\ next > Len(typed)
  /\ buffer' = IF buffer = <<>> \/ Len(buffer) >= MaxBuffer THEN buffer ELSE Append(buffer, Newline)
  /\ UNCHANGED <<typed, next, depth, ran, quit>>

Left == quit /\ UNCHANGED replVars

ReplNext == SkipBlank \/ Obey \/ Collect \/ EndOfInput \/ Left
-----------------------------------------------------------------------------
(* Properties.                                                             *)

Script(n) == FoldLeft(LAMBDA t, l : t \o l \o <<Newline>>, <<>>, SubSeq(typed, 1, n))
ParsedText(s) == LET toks == Tokenize(s) IN IF toks = <<>> THEN Failed ELSE Parse(toks)
Statements(s) == ParsedText(s).ast.kids
IsProgram(s)  == ParsedText(s).at # 0

(* The lines could be a script typed in: no commands, braces only where    *)
(* they are tokens, and wherever as many are closed as opened a statement  *)
(* is over, which the next line does not take up again.                    *)
TokenBraces(s, k) == Cardinality({i \in 1 .. Len(Tokenize(s)) : Tokenize(s)[i].k = k})
Balanced(n) == Braces(Script(n), "{") = Braces(Script(n), "}")
ScriptLike ==
  /\ IsProgram(Script(Len(typed)))
  /\ \A n \in 1 .. Len(typed) :
       /\ Trimmed(typed[n]) \notin Command
       /\ \A k \in {"{", "}"} : Braces(typed[n], k) = TokenBraces(typed[n], k)
       /\ Balanced(n) => /\ IsProgram(Script(n))
                         /\ IsPrefix(Statements(Script(n)), Statements(Script(Len(typed))))

(* Typed into the REPL, such a script runs: the inputs are programs, and   *)
(* their statements are those of the script, in order (Repl::run).         *)
RunsAsScript ==
  next > Len(typed) /\ ScriptLike =>
    /\ \A i \in 1 .. Len(ran) : IsProgram(ran[i])
    /\ FlattenSeq([i \in 1 .. Len(ran) |-> Statements(ran[i])]) = Statements(Script(Len(typed)))

==============================================================================
