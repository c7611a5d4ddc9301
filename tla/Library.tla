-------------------------------- MODULE Library ------------------------------
(***************************************************************************)
(* The parts of the library that are functions of their arguments, as the  *)
(* questions one may ask them: a part, and what it is asked.  Here are the *)
(* questions whose answers are proved, for all that may be asked; MCLibrary*)
(* asks them, and others, of small values.                                 *)
(***************************************************************************)
EXTENDS Lint, Ordering, Args, Columns, Placeholders

VARIABLES
  library,   \* the part that is asked
  question   \* what it is asked

asked == <<library, question>>

Asks(l) == library = l
-----------------------------------------------------------------------------
(* A call of a script: a name of one part or two, with named arguments or  *)
(* without.                                                                *)
CallNamed == {name \in Seq(STRING) : Len(name) \in {1, 2}}

(* A call runs the same function of the library in the interpreter, in a   *)
(* transpiled program and in an oxide program, and fails in all of them if *)
(* it fails in the interpreter: the match in standard_lib::call, the       *)
(* macros, the naming rules of the transpiler and the table of lint agree, *)
(* but for the listed names.                                               *)
SameFunction == Asks("function") => Same(question) /\ KnowsName(question.name)

(* No call is missed, wherever it stands in a program: the features        *)
(* usage_analyzer asks for are those of everything the generated program   *)
(* refers to, and lint_program reports every unknown function and every    *)
(* statement that shares variables.                                        *)
NoCallMissed == Asks("features") => Suffices(question) /\ ReportsAll(question)
-----------------------------------------------------------------------------
(* What maps hold under the keys they are sorted by.  A text has no NUL.   *)
Texts == Seq(1 .. 255)
Held  == [k : {"number"}, v : Int] \cup {NaN, Missing} \cup [k : {"text"}, v : Texts]
Item  == [key : Held, second : Held, tie : Held]
How   == [reverse : BOOLEAN, second : BOOLEAN, tie : BOOLEAN]

(* The comparisons given to Rust's sort are total orders on what can be    *)
(* compared, a reversed order turns the keys only, and versions are        *)
(* ordered as strverscmp of musl does, but for the listed case.            *)
SortsConsistently ==
  /\ Asks("order") => SortsMaps(question[1], question[2], question[3], question[4])
                        /\ ReversesKeysOnly(question[1], question[2], question[4])
  /\ Asks("versions") => SortsVersions(question[1], question[2], question[3])
-----------------------------------------------------------------------------
(* Arguments as they are meant, and how the parser is configured.          *)
Word     == Seq(STRING)
Argument ==
  [k : {"flags"}, letters : Word]
    \cup [k : {"short"}, letters : Word, name : Word, glued : BOOLEAN, v : Word]
    \cup [k : {"long", "plus"}, name : Word]
    \cup [k : {"value"}, name : Word, glued : BOOLEAN, v : Word]
    \cup [k : {"at", "pos"}, v : Word]
Configured(cfg) == cfg.permute \in BOOLEAN /\ cfg.plus_flags \in BOOLEAN /\ cfg.at_tokens \in BOOLEAN

(* args.parse reads a command line as it is meant.                         *)
ArgsAsMeant == Asks("args") => ReadAsMeant(question[1], question[2], question[3], question[4])
-----------------------------------------------------------------------------
(* The columns of a map, by their lengths; a value that is no list is one  *)
(* cell.                                                                   *)
Column == {c \in [key : Nat, list : BOOLEAN, cells : Seq(Nat)] : c.list \/ Len(c.cells) = 1}

(* columnate and map.column write every name once, in columns that begin   *)
(* at one position, and no line gets too long.                             *)
ColumnsAlign ==
  /\ Asks("names") => LaidOut(question[1], question[2], question[3])
  /\ Asks("table") => Tabulated(question)
-----------------------------------------------------------------------------
(* On PostgreSQL each bind marker of a statement, and nothing else, is     *)
(* numbered, in order (postgres_rewrite_placeholders): every argument is   *)
(* bound where the script put it.                                          *)
BindsInOrder == Asks("sql") => NumbersMarkers(question)
-----------------------------------------------------------------------------
(* What may be asked.                                                      *)
WellAsked ==
  /\ Asks("function") => question \in [name : CallNamed, named : BOOLEAN]
  /\ Asks("features") => IsProgram(question)
  /\ Asks("order")    => question \in Item \X Item \X Item \X How
  /\ Asks("versions") => question \in Texts \X Texts \X Texts
  /\ Asks("args")     => /\ question[1] \in Seq(Argument) /\ question[2] \in BOOLEAN
                         /\ question[3] \in Seq(Word) /\ Configured(question[4])
  /\ Asks("names")    => question \in Seq(Nat) \X (Nat \ {0}) \X Nat
  /\ Asks("table")    => question \in Seq(Column)
  /\ Asks("sql")      => question \in Seq(Part) /\ WellWritten(question)
==============================================================================
