---------------------------- MODULE Transpilation ----------------------------
(***************************************************************************)
(* A program run by the interpreter and then, with the same outcome of     *)
(* every statement, as the Rust program generated from it.  ControlFlow    *)
(* runs first and its choices are logged; TranspiledFlow replays the log.  *)
(* What differs from one to the other is what a user sees when a script    *)
(* is transpiled.                                                          *)
(***************************************************************************)
EXTENDS Statements

CONSTANT MaxLog   \* choices compared of one execution

ASSUME LogAssumption == MaxLog \in Nat

VARIABLES
  istack, iret, iterminate, ievent, itarget,  \* the interpreter
  tstack, tret, tterminate, tevent,           \* the generated program
  phase,     \* "interpreted", then "transpiled"
  log,       \* the interpreter's choices
  at,        \* how many of them the generated program made
  retried    \* a loop of the interpreter went on after a runtime error

interpreter == <<istack, iret, iterminate, ievent, itarget>>
generated   == <<tstack, tret, tterminate, tevent>>
machines == <<interpreter, generated, phase, log, at, retried>>

I == INSTANCE ControlFlow WITH
       MaxLines <- 1, line <- 1, stack <- istack, ret <- iret,
       terminate_requested <- iterminate, event <- ievent, target <- itarget
T == INSTANCE TranspiledFlow WITH
       stack <- tstack, ret <- tret, terminate_requested <- tterminate, event <- tevent

MachinesTypeOK ==
  /\ I!TypeOK /\ T!TypeOK
  /\ phase \in {"interpreted", "transpiled"}
  /\ log \in Seq(Event) /\ Len(log) <= MaxLog
  /\ at \in 0 .. Len(log)
  /\ retried \in BOOLEAN

MachinesInit ==
  /\ \E p \in Programs : istack = <<I!Block(p)>> /\ tstack = <<T!Body("run", p)>>
  /\ iret = "none" /\ iterminate = FALSE /\ ievent = None /\ itarget = {}
  /\ tret = "none" /\ tterminate = FALSE /\ tevent = None
  /\ phase = "interpreted" /\ log = <<>> /\ at = 0 /\ retried = FALSE

Interpret ==
  /\ phase = "interpreted" /\ istack # <<>> /\ Len(log) < MaxLog
  /\ I!Step
  /\ log' = IF ievent' = None THEN log ELSE Append(log, ievent')
  /\ retried' = (retried \/ (I!InLoop /\ iret = "runtime"))
  /\ UNCHANGED <<generated, phase, at>>

(* The interpreter's execution is cut when the log is full.                *)
Cut == istack # <<>>

Transpile ==
  /\ phase = "interpreted" /\ (istack = <<>> \/ Len(log) = MaxLog)
  /\ phase' = "transpiled"
  /\ UNCHANGED <<interpreter, generated, log, at, retried>>

Replay ==
  /\ phase = "transpiled" /\ tstack # <<>>
  /\ T!Next
  /\ \/ tevent' = None /\ UNCHANGED at
     \/ at < Len(log) /\ tevent' = log[at + 1] /\ at' = at + 1
  /\ UNCHANGED <<interpreter, phase, log, retried>>

(* The statements that leave no choice; and the generated program is about *)
(* to start another one than the interpreter did, or one past the log.     *)
Silent == {"terminate", "try", "dont_panic", "loop"}
Elsewhere ==
  /\ T!Starting /\ T!Current.op \notin Silent
  /\ ~(at < Len(log) /\ log[at + 1].name = T!Current.name)

Compared ==
  /\ phase = "transpiled" /\ (tstack = <<>> \/ Elsewhere)
  /\ UNCHANGED machines

MachinesNext == Interpret \/ Transpile \/ Replay \/ Compared

MachinesSpec == MachinesInit /\ [][MachinesNext]_machines
-----------------------------------------------------------------------------
(* A script whose every `terminate` is where the two must do the same: it  *)
(* ends, through nothing but ifs, the body of a browse, or it is, through  *)
(* nothing but ifs that it ends, a statement of a loop.  Q are statements  *)
(* no terminate leaves, L those one may leave.                             *)
All(code, S) == \A i \in 1 .. Len(code) : code[i] \in S
EndsIn(code, Q, L) == \A i \in 1 .. Len(code) : code[i] \in Q \/ (i = Len(code) /\ code[i] \in L)
Tame(Q, L) ==
  /\ \A s \in Q :
       /\ s.op # "terminate"
       /\ s.op \in {"if", "try", "dont_panic", "call"} =>
            All(s.body, Q) /\ \A i \in 1 .. Len(s.alts) : All(s.alts[i], Q)
       /\ s.op = "loop" => All(s.body, Q \cup L)
       /\ s.op = "browse" => EndsIn(s.body, Q, L)
  /\ \A s \in L :
       \/ s.op = "terminate"
       \/ s.op = "if" /\ EndsIn(s.body, Q, L) /\ EndsIn(s.alts[1], Q, L)
-----------------------------------------------------------------------------
(* Properties.                                                             *)

(* The generated program starts the statements the interpreter started, in *)
(* the same order, and ends when it ended.                                 *)
SameStatements ==
  phase = "transpiled" =>
    /\ Elsewhere => Cut /\ at = Len(log)
    /\ tstack = <<>> => at = Len(log)

(* Both succeed, or both fail, or both exit.                               *)
SameOutcome ==
  phase = "transpiled" /\ tstack = <<>> /\ ~Cut =>
    (iret = "ok" <=> tret = "ok") /\ (iret = "exit" <=> tret = "exit")

(* The generated program starts the same statements and has the same       *)
(* outcome, unless a loop of the interpreter went on after a runtime error *)
(* (a difference the code has, listed in the README).                      *)
Agree == ~retried => SameStatements /\ SameOutcome
==============================================================================
