# A TLA+ development of Corvo

Corvo is a scripting language written in Rust. A lexer and a recursive-descent
parser produce an AST that a tree-walking evaluator runs, a transpiler turns
into Rust, or a compiler embeds in a Rust program that `cargo` builds. Most of
the code is a wide standard library of calls into the operating system. What
can go wrong in ways a test hardly reaches is elsewhere: in the statements that
run several bodies against shared variables, in calls that copy their arguments
in and out of one table of names, in the way errors, `terminate` and exit
requests travel through nested blocks and through the code generated from them,
and in what outlives a statement or a process.

Paths are relative to the repository root; line numbers are those of the commit
modelled. `evaluator.rs`, `transpiler.rs` and `builder.rs` are in
`src/compiler/`.

## 1. Inventory

| Component | State | Operations | Interacts with | What is hard | What makes it correct |
|---|---|---|---|---|---|
| shared-variable merge (`type_system/value.rs`) | none | `merge_shared_writeback(snapshot, final, current)` | every statement with `shared @x` | which combinations accumulate and which replace | merging the outcome of an update made to a snapshot is making the update to the current value |
| `async_browse` (`evaluator.rs` 601–733, 897–975; generated code `transpiler.rs` 619–657) | a mutex per shared variable; per thread a cloned `RuntimeState`, snapshots, finals, result | check, spawn per item, snapshot, run, merge, join, publish | OS threads; the procedure, interpreted or native; the caller's variables | interleavings of lock-by-lock snapshots and write-backs; some threads fail or panic; wrong arity | no update lost or half applied, all joined, first error in list order, contributions of all published |
| `http_listen` (`standard_lib/http_server.rs`, `evaluator.rs` 977–1015) | the listener, a mutex per shared variable, a thread per request | bind, accept, read, snapshot, run block, answer, write back | clients, threads, the caller's variables | as above, and requests that are malformed, fail or panic, an accept that fails | successful requests count exactly once, others not at all, no client delays another |
| `amqp_consume` (`evaluator.rs` 735–895, 1020–1045) | connection and stream, snapshots, mutexes | consume, receive, run block, merge, ack or nack, publish | the broker; retries by the script | loss of the connection at any point, stale deliveries, death between merge and ack | at least once; repeats only after losses; every block counted; the statement ends when the connection does |
| interpreter control flow (`evaluator.rs` 56–70, 197–493, 1047–1228) | Rust call stack, `terminate_requested` | run, execute_block, each control statement | the REPL reuses one evaluator | a flag, errors and exit requests crossing try, loops, calls and dont_panic | each `terminate` ends its innermost loop and nothing else; an exit unwinds everything |
| generated control flow (`transpiler.rs`, macros of `runtime/state.rs`) | generated functions and closures, the variable `_terminate_requested` | the same statements as Rust text | `rustc` | tests of the flag and early returns written at generation time | a generated program does what the interpreter does |
| procedure calls (`evaluator.rs` 517–599, macro `corvo_method_call!`) | `RuntimeState::vars`, saved slots | save, bind, run, copy back, restore | recursion, errors, both engines | names shared by parameters, arguments and outer variables | arguments by reference, parameters do not leak |
| prep blocks and statics (`evaluator.rs` 199–234, `builder.rs` 344–363, 922–976, `lib.rs` 186–202) | `RuntimeState::statics`, statics captured in a binary | pre-execute, strip, bake in, preset, skip | compile-time and run-time environment | a block executed at compile time must not be executed again in the binary | a binary's statics are those of its compilation |
| compiler and its cache (`builder.rs`, `main.rs` 217–290) | the persistent build directory: `Cargo.toml`, `src/main.rs`, `target/`; the output file | create, write manifest and source, `cargo build`, copy, clean | other `corvo` processes, `cargo` | processes that overlap or die in between; nothing locks the directory | the binary that is copied is that of the script |
| oxide manifest and usage analysis (`builder.rs` 55–300, 420–522, `usage_analyzer.rs`, `oxide_transpiler.rs`) | the user's `Cargo.toml` | parse, merge features, add a `[[bin]]`; collect the features a program needs | a user who edits the file; cargo | repeated runs, other programs' entries, edits in between; calls in every position of a program | after a run, each program transpiled so far has its binary and its features |
| lexer (`lexer/`) | position, the token before, interpolation nesting | `tokenize` and its scanners | parser; interpolations have a lexer of their own | a `/` is a division or a regex; strings within interpolations within strings | one token list per text, the one it was written from |
| parser (`parser/`) | token index, `in_prep_block` | statements, precedence climbing | all front ends | context flags restored on errors; ambiguity of statements and expressions | one AST per token list; prep only first |
| diagnostics and lint (`diagnostic.rs`) | none | walk a program, report unknown calls and shared variables, suggest a name | CLI | a fifth table of names; calls in every position | what is unknown is reported wherever it stands, and nothing else is |
| expressions (`evaluator.rs` 1047–1228 and on, macros `corvo_binop!`, `corvo_index!`, `corvo_slice!`, …, `transpiler.rs` 773–1240) | none of their own | every expression and simple statement, in both engines | variables, procedures, library calls | order and number of evaluations; operands of unusual types; bounds | both engines compute, call and store the same |
| type system and methods (`type_system/`, `strverscmp.rs`) | none | about 90 methods of strings, numbers, lists, maps | evaluator, generated code | bytes against characters, layouts, comparison functions given to Rust's sort | an error, never a panic; methods that agree with each other; total orders |
| runtime state and scope (`runtime/state.rs`, `scope.rs`) | vars, statics, argv | get, set, remove, snapshot, clone | everything | cloning a state empties its registries | — |
| handle registries (`runtime/pex_registry.rs`, `tcp_registry.rs`) | maps from ids to sessions, streams, listeners; counters | insert, use, accept, remove, clone | `pex.*`, `net.tcp_*`, threads with cloned states | ids restart in each cloned state | a handle means the resource it was made for, where it was made |
| in-script tests (`evaluator.rs` 74–192) | passed and failed counts, the session of a test | run each `run_test`, always close | pex, the CLI | a failing, terminating or exiting body must not affect the next test | each test starts clean and its session is closed |
| REPL (`repl/mod.rs`) | one state, one evaluator, a multi-line buffer, a brace count | read, collect, run, reset | evaluator | what one input leaves for the next; end of input | an input behaves as in a script |
| standard library (`standard_lib/`: fs, os, sys, net, http, dns, amqp, db, pex, notifications, llm, env, args, math, re, time, crypto, json, csv, yaml, xml, hcl, template) | pools, connections; otherwise none | one operating-system or library call each; which function a name means is decided in four places | the outside | mostly the outside itself; the four tables of names; the argument parser; the bind markers of SQL | a name runs the same function everywhere; a command line is read as it was meant; each argument is bound where the statement has its marker |
| CLI (`main.rs`, `lib.rs`) | none | dispatch on options, exit codes | all of the above | exit codes of errors and exit requests | — |

How they interact: the CLI and the REPL call lexer, parser and evaluator in
sequence. The evaluator owns no data; everything a script sees is in the
`RuntimeState` handed down the call stack, so statements communicate through its
variables, and concurrent statements through mutexes made for the statement's
duration and published to the variables at its end. The transpiler shares the
concurrent statements' drivers with the evaluator (`exec_*_native`), but writes
control flow and calls as Rust text and macros, which is why both are modelled.

## 2. Modules

`X` is a component, `XProofs` its theorems, `MCX` its instances for TLC;
`RuntimeProofs` are those of `ProcedureCall`, `Sessions` and `Library`, `BuilderProofs` those of
`CompileCache` and `OxideManifest`, `ControlFlowProofs` also those of `Transpilation`.

| Module | Models | Correspondence |
|---|---|---|
| `SharedMerge` | `Value::merge_shared_writeback`, and what a body does to a variable | a value is a record with one field named for its variant; an `Update` is what a body does (`Keep`, `Add`, `Push`, `Concat`, `Assign`) and `Apply` its effect; `Growth` are the updates for which merging is meant to accumulate |
| `AtomicUpdates` | nothing in the code: what a concurrent statement promises | abstract specification, implemented by `AsyncBrowse` and `HttpListen` |
| `AsyncBrowse` | the statement and its threads | one action per lock: `Snapshot(t)` and `Merge(t)` take one variable each, `Body(t)` runs with no lock held; `Spawn`, `Join`, `Publish` are the statement's loops; interpreter and native differ in the arity checks |
| `HttpListen` | the listener and the request threads | `Accept`, `ReadRequest`, … are the accept loop, `Snapshot`, `Body`, `Respond`, `Merge` a request's thread, in the order of the code (the answer is written before the write-back) |
| `AmqpConsume` | the statement, the connection, the broker, the process | the statement is the only one to lock, so each of its phases is one action; `Disconnect`, `SettleInVain`, `Crash` and `Again` can come at every point |
| `Statements` | statements as far as control goes | shared by the two machines below; any expression may fail |
| `ControlFlow` | `run`, `execute_block`, the control statements of `exec_stmt` | the Rust call stack is a stack of frames; `ret` is the `CorvoResult` on its way down; `terminate_requested` is the evaluator's flag |
| `TranspiledFlow` | the statements `transpile_stmt` writes and the macros they use | frames are generated bodies and closures; the tests of `_terminate_requested` are where the transpiler writes them |
| `Transpilation` | both machines on one program, the second replaying the first one's choices | `Interpret` logs what each statement did; `Replay` repeats it in generated code; `Tame` are the scripts whose terminates both take alike |
| `ProcedureCall` | `exec_procedure_call` and `corvo_method_call!` with the generated callback | `CopyBack` handles one parameter per step, as the loop does |
| `PrepStatics` | pre-execution, capture, embedding, and the executable's own way through the blocks it has | `place` is the machine, `pos = 0` the decision of `exec_stmt` to skip a block; a static is the kind of its value and where it was computed, so that recomputing shows; `Stored` and `Written` are what each kind may become on its way through JSON or Rust text, `Key` the name that is read where one is written |
| `CompileCache` | `Compiler::compile`, `append_corvo_lang_patch_to_cargo_toml`, `clean_cache` | opening (and truncating) a file, writing it, building, copying are steps; `unlinked` says whose open file, or cargo lock, a clean has removed; `Die` may come at every point and leaves the cargo it started |
| `Lexer` | `tokenize` and its scanners | a text is a sequence of symbols, `Tokenize` a recursive operator with one case per scanner; an interpolated string is scanned by the nested lexer the code has for it; tokens carry the span of their symbols |
| `Parser` | every production | a production is an operator from a position to a node and the position behind it, or to the one failure; a binary level is one operator with the level as its parameter |
| `FrontEnd` | what happens to a text: lexed, parsed, stripped of its prep block, read again | `Text` writes a tree as a script, with the parentheses and escapes it needs, and is the reference the lexer and the parser are held against |
| `ReplLoop` | the line loop, its commands and its buffer | one action per kind of line; `ran` is what it handed to the evaluator |
| `Calls` | `standard_lib::call`, the macros by name, the naming rules of the transpiler and of oxide, `usage_analyzer` | a name is a module and a function; a call is the function it runs, if any; a program is a function from ways (the positions of the children one goes down by) to nodes of the parser's kinds; a walk (`Walks`, `Emits`) says from which node it goes to which child, and `Reached` is what it comes to |
| `Lint` | `lint_program`, its table of names, `suggest_function` | its walk (`Lints`) and what it reports of a program; the distance is a function on pairs of beginnings, checked against counting edits |
| `Evaluation` | `eval_expr`, the simple statements, the code generated for them and its macros | both engines are operators from a state (variables, calls made so far) to an outcome and a state; `Agrees` compares them and names every known difference |
| `Text`, `Columns`, `Ordering` | the methods of strings with indices, padding, splitting and encodings; `columnate` and `map.column`; `list.sort_maps_by_key` and `strverscmp` | pure operators over sequences of characters of one or two bytes; of names and cells only the lengths, and a line is what is written one after the other, so that `Position` can say where a terminal is |
| `Args` | `args.parse` | a round of the loop is what a word is taken for (`Class`) and what is done with it (`Round`), the loop a recursive function of the rounds; `Words` spells a command line from what was meant |
| `Library` | nothing in the code: which questions may be asked of `Calls`, `Lint`, `Ordering`, `Args`, `Columns` and `Placeholders`, and what is promised of the answers | `WellAsked` are the questions, of any size; `MCLibrary` asks small ones |
| `Placeholders` | `postgres_rewrite_placeholders`, `skip_dollar_quoted` | from each position the end of what is copied as it is (`ReadUpTo`), a round of the loop (`Rewrite`), the loop a recursive function of the rounds; `Statement` spells a statement from the parts that were meant, `WellWritten` says which may stand next to which |
| `Sessions` | the registries of a state and its clones, `run_tests`, `exec_run_test` | a handle is an id and the state that made it; opening, using, closing, cloning and passing on are actions of a body, `SpawnTest`, `SpawnFails` and `EndTest` those of the runner |
| `OxideManifest` | `generate_oxide_cargo_toml`, `merge_into_existing_oxide_cargo_deps` and what they call, the plain transpilation into the same directory, the user's edits | a manifest is its lines as far as the code tells them apart; a run is one action because it reads the file once and writes it once |

`AsyncBrowse`, `HttpListen` and `AmqpConsume` all extend `SharedMerge`;
`Transpilation` instantiates `ControlFlow` and `TranspiledFlow`. `FrontEnd`
composes `Lexer` and `Parser`; `MCFrontEnd` runs either a program through
`FrontEnd` or a session through `ReplLoop`. `MCLibrary` asks one question of
one pure part of the library, in the way `Library` lays down, or runs two
procedure calls, `Sessions`, or `OxideManifest`.
`MCStatements` holds the programs of `MCControlFlow` and `MCTranspilation`.

Abstractions. A thread's private `RuntimeState` is only its shared variables,
because nothing else of it survives the thread. A body is the set of updates it
may make, or a failure, or a panic. Conditions and data of statements are
choices; where two executions are compared, the choices are recorded and
replayed. What a message, a request or a response contains is left out.
Programs, manifests and executables are who wrote them and with which options;
cargo (external) reads the manifest and `main.rs` at once when it starts and
fails on a file that is not whole. Failures of the file system itself (a full
disk, missing permissions) are left out; dying at the same point leaves the same.
In `Lexer` a symbol is a character or a word, because letters of a name are all
treated alike. In `Evaluation` a call is its name, its arguments, how it ends
and what it gives; a number is a fraction, an infinity or a NaN. In `Sessions`
what is read from and written to a resource is left out.
Operators named after a mutation (`MergeLastWriter`, `InTryCatchesExit`, …) are
not used by the specifications; each is a plausible bug used to confirm that a
property notices it.

## 3. What TLC checks

Thirty to a few hundred thousand states each and seconds, except `compile`,
three million states in a minute, and `library`, 1.2 million in over two
minutes.

| Run | Instance | Shows |
|---|---|---|
| `async_growth` | 0–2 items, a list and a number; bodies keep or push a pair, or add | `NoLostUpdate`, `PushesStayTogether`; it implements `AtomicUpdates` |
| `async_mixed` | a number that may be missing or be replaced by a number or a map, a string that grows; interpreted and native procedures with 1 to 4 parameters; failing and panicking bodies | join before publish, first error in list order, contributions published also on errors, the statement returns |
| `async_replace` | as `async_growth` | a counterexample, see section 5 |
| `http_serve` | two clients, which need not take their answers; a counter and a log that may not exist; failing and panicking blocks, unreadable requests, failing accept, exit | counts add up, `AtomicUpdates` is implemented, one that takes no answer, fails or cannot be read delays no other (`DelaysNobodyElse`) |
| `amqp_broker` | two messages, two runs of the statement, losses and deaths anywhere | `AtLeastOnce`, `RepeatsNeedLosses`, `EveryBlockCounts`; a connected consumer drains the queue; a lost connection ends the statement |
| `flow_script` | every composite statement around every composite statement around every leaf, two programs in a row | where `terminate` and exits go; a block that runs while a request is left over from the program before gets no further than its first statement (`PendingStopsBlocks`) |
| `trans_agree` | programs with `terminate` under ifs in loops, and all nestings without it | interpreter and generated code execute the same statements with the same outcome, unwinding exits among it |
| `statics` | no, one or two prep blocks of one or two statements each; four statics, one of which Rust reads like another and one not at all; two files that may be missing on either machine; every kind of value | what was captured is there and, if its way into the executable is without loss, unchanged; prep runs once; the main part is prepared |
| `compile` | three processes: plain or `--no-debug` in release, a local library in debug, or clean | leftovers of the dead and of other options harm no later compilation; no output is older than its compilation |
| `front_end` | every operator beside every operator, every postfix on every expression, every statement in and before every other; sessions of up to four lines | `ReadAsWritten`: the tree that was spelled is the tree that is read; `BakedWithoutPrep`: the text without its prep block is the program without it; `RunsAsScript`: a session runs the statements the same lines have as a script |
| `library` | one question of `Calls`, `Lint`, `Evaluation`, `Text`, `Columns`, `Ordering`, `Args` or `Placeholders`; or two nested calls with parameter lists `<a>` and `<a,b>`, argument lists with literals, repeats and a parameter's own name; or two tests over three resources and clones; or four runs and edits of a project | `SameFunction`, `NoCallMissed`, `StatementsAgree`, `TextAgrees`, `BindsInOrder`, `ColumnsAlign`, `SortsConsistently`, `ArgsAsMeant`; `CallsByReference`; `ReachesItsOwn`, `TestSessionsClosed`; `Served` |
| `trans_loop` | the program of `examples/loop.corvo` | a counterexample, see section 5 |

Why the bounds are enough. Two threads (requests, messages) give every overlap
of one snapshot–body–merge with another; a third only repeats the merge against
a value that has changed, which the second meets too, and `ImplementsAtomicUpdates`
is proved for any number. Two shared variables are needed, because a thread
takes them one lock at a time and another may be between its two. Two runs of
`amqp_consume` are one loss or death followed by a redelivery. Control
statements interact with the one around them and the one inside them, so two
levels, a statement after each, and two programs in a row reach each pair and
each leftover. `MaxItems = 2` lets a browse be empty, end after its first entry
and go on; `MaxLines = 2` is a REPL input and the one after it. Two files and
two statements per block make a block fail between two statics, on the one
machine and not on the other. Of the four statics two are ordinary, one is read
like another and one cannot be read. Three processes are one that leaves something, one
that runs meanwhile and one that comes after. `MaxLog = 5` cuts the compared
executions of endless loops.

A production of the parser looks at the token before it, at the next one and at
what encloses it, so pairs of operators, of statements and of a statement and
what it holds meet all its decisions; three symbols of an interpolation
(brace, quote, backslash) are in one string. A REPL session of four lines opens,
continues, closes and goes on; `MaxBuffer = 12` stops a buffer that grows only
because the input has ended. A text of four characters of one or two bytes
has every offset at which bytes and characters part; five names fill two rows of
two columns and one more; transitivity needs three items; two arguments and the
words that follow them meet each rule about the next word. An SQL statement
has one part that encloses any two signs, with what may confuse it before and
after. Two tests are one
that leaves something and one that finds it; three resources are the runner's,
the body's and one that is opened after one of them is closed, or in a clone. Two programs with two gated features, and
four runs or edits, are a run, an edit, another program's run and a rerun.

Deadlock is checked in every run but `library`, where a question once asked, a
procedure call that has returned, a test series or a project's last edit is the end; the other finished systems
stutter through an explicit `Done` (or `Stopped`, `Compared`).

Fairness. `AsyncBrowse` and `HttpListen`: weak fairness of the statement's
thread and of each other thread, which the operating system's scheduler gives;
no lock is held while a body runs, so weak fairness is enough. Bodies end; that
is an assumption about scripts. Clients need not come, and a client need not
take its answer: only reading has a timeout (`http_server.rs` 117), so there is
no fairness for `Respond`, and writing (355) may last for ever. What has to
happen then is what the other requests are owed. `accept` need not fail.
`AmqpConsume`: the statement moves on and a connected broker delivers; nothing
obliges connections to be lost or to stay. The other modules state safety only.

## 4. What is proved

The theorems hold for every value of the constants that satisfies the named
assumptions (types of the constants, `NullAssumption`, `BoundAssumption`, …);
all of them are checked by TLC in the runs. `TypeCorrect` is the type invariant
of each module; it is proved, so the runs do not repeat it.

| Module | Theorem | Argument |
|---|---|---|
| `SharedMergeProofs` | `MergeAppliesUpdate`: for growing updates that fit, `Merge(s, Apply(u, s), c) = Apply(u, c)` when `s` and `c` are of one variant | case by case: sums of differences, suffix of an extended sequence |
| `AsyncBrowseProofs` | `TypeCorrect`, `AllThreadsJoined`, `ErrorIsDeterminate`, `ContributionsPublished` | `TypeInv` adds the ranges of the counters; `JoinInv` says the joined threads are those below `index`, have exited, and that the verdict is the first error among them |
| | `ImplementsAtomicUpdates` for growing bodies | `GrowInv`: a cell keeps its variant, each snapshot taken has the variant of its cell, each final is its snapshot with the update applied. A merge is then `TakeEffect`, a body `Decide`, everything else a stutter, `Open`, `Close` or `Publish` |
| | `PushesNotInterleaved` for growing bodies | `TogetherInv`: a cell keeps the variant it began with, and each list holds, as one piece, what every merged body pushed; a later write-back only appends behind it (`MergeAppends`) |
| | `NoUpdateLost` for growing bodies | a variable's size (its number, its length) is what it was plus what the bodies that merged it added: the sum over a finite set of threads, which grows by one summand as a thread joins the set. `WorkInv` keeps each body's contribution, `CountInv` the sums |
| `HttpListenProofs` | `TypeCorrect`, `ImplementsAtomicUpdates` | the same invariants; a connection waits exactly if it is in the backlog, once |
| | `SuccessfulRequestsAddUp` for growing blocks | `LandInv`: each number is its start plus the gains of the requests that have written it back, and only successful ones do |
| `AmqpConsumeProofs` | `TypeCorrect`, `ProcessedAtLeastOnce`, `RepeatsOnlyAfterLosses`, `CountsEveryBlock` | `MailInv`: the four places of a message partition them, a delivery that is held and not stale is unacknowledged, each message was processed at most once more than it was taken back; `CountInv`: the present total is the total at the start plus the gains |
| `ControlFlowProofs` | `TypeCorrect`, `TerminateStops`, `TerminateTargets`, `ExitPasses`, `PendingStops` | `RequestTargets`: while a request of the first program is pending, `ret` is `ok` and the innermost loop of the stack is the one that was innermost when it was made. Without the first half an error could overtake the request, without the second an outer loop could take it |
| | `TranspiledAgrees` for tame scripts | a simulation. A frame of the generated program is one of the interpreter's, or two for a call and a loop (`Matched`); only a body that a terminate may leave can be behind (`Pending`, `Chain`). `StepFollows`: a step of the program is none, one or two of the interpreter. Because the interpreter has finished when the program starts, the invariant `Replays` carries its whole execution as a function and says at which of its states the program stands |
| `RuntimeProofs` | `TypeCorrect`, `ByReference` of `ProcedureCall` | for each call under way: saved slots are what the names held before, and what was copied back so far is in the table (`CopiedUpTo`); it is preserved because a clean call's remaining parameters are different names from those already restored |
| | `HandlesTyped`, `HandlesReachTheirOwn`, `RunnerClosesSessions` of `Sessions` | `IdInv`: ids given in a state are below its counter, and an entry and a handle made there with the same id are of the same resource; `TestInv`: the session of the test under way is found by exactly the handle the runner keeps, whatever the body closed |
| | `MapsSorted`, `VersionsSorted`, and with them `OrdersAreTotal`, of `Ordering` | two texts part at one place (`Parts`), and of three texts two part where one of them parts from the third (`ThreeParts`). For versions the place may be within a number: in one that counts, the shorter comes first wherever the two part (`ShorterFirst`), so what decides between two versions also decides between either and a third that goes on like the other. Rust's sort may panic, or order nothing, where this fails |
| | `CallsRunTheSame` of `Calls` and `Lint` | a name is in the tables or it is not: for those that are, macro by macro and function by function, the three ways are shown to run the same; for the others, what a macro or a Rust function of that name would need (`RunsWhenCompiled`) |
| | `CallsAreCounted` of `Calls` and `Lint` | a child that a walk leaves out holds names only, and below a name there are only names; so each call that is generated, and each that lint must see, is on a way that every step of the walk takes |
| | `ArgumentsAsMeant` of `Args` | the words of the first `k` arguments (`Joins`), what they mean (`Understands`) and the state of the loop after `k` rounds (`Goes`) are related: after each argument the loop stands behind its words (`StandsAt`) and has read its meaning, and is ready for any next one (`Expects`). One lemma per kind of argument says that a round reads it (`ReadAt`), glued or in two words |
| | `ColumnsAsLaidOut` of `Columns`, from `NamesLaidOut` and `TablesAlign` | `Measured`: as long as a layout is valid, each name looked at fits its column, and the length kept is the sum of the widths. `RowNames` and `Ends`: after `c` names the line has them at the sums of the widths before them, and the terminal is behind the last one. Blanks end exactly at the next column, because a tab is written only if its stop is no further (`TabStops`). Names of a row differ by the number of rows, so quotient and remainder give each its place (`FileIs`, `HasRow`), and there are as many places as names (`AsManyPlaces`) |
| | `MarkersBound` of `Placeholders`, from `StatementsNumbered` | the texts of the first `k` parts grow (`Grows`), so a statement is, for each part, what stands before it, its own text and what comes after (`StandsBetween`). One lemma per kind of part says that from its first sign on it is copied exactly up to its end, or is taken for a marker (`Read`): a comment, a quotation or a dollar quotation ends where it is meant to and no earlier, a doubled quote is within (`EndOfQuotedIs`). So the loop stands behind one more part after each round, with as many numbers given as there were markers (`RoundReads`) |
| `PrepStaticsProofs` | `TypeCorrect`, `CapturedStaticsKept`, `PrepRunsOnce`, `PreparedMain` | `Behind`: the statics of every block behind the present one are there, whether it was skipped or executed; `Passed` says the same of the statements passed in the present block. With `Complete`, what a pre-execution that got through has captured, no block of the executable can be entered. `CapturedStaticsKept` leaves open what the two ways make of each kind but for the kinds in `Lossless`, and what names that are read alike share (`Alone`): `FoundIs` says that such a static has one outcome only, itself, and since no step of the executable replaces a static that is there it stays that |
| `BuilderProofs` | `TypeCorrect`, `AloneSucceeds` | `AloneInv`: while a compilation overlaps with no other, the manifest, `main.rs` and what was built are its own as far as it has got (`Manifested`, `MainWritten`, `Built`), whatever was there before; `OrphanInv`: a cargo without its process is of a compilation that died |
| | `NothingStale` | `LostInv`: what a clean removed from under a process, that process met the clean; `CalmInv`: while no clean is met by it or by those it met, the builds cargo finishes after it began are in order (`Settled`) |
| | `ProgramsServed` of `OxideManifest` | every manifest the runs and edits produce has cargo's layout (`Shape`), lists each program once (`Listed`) and has the features of each (`Featured`); each kind of edit and the merge are shown to keep the three |

`TranspiledAgrees` assumes `Tame(Q, L)`: the programs consist of statements of
`Q`, which no terminate leaves, and a terminate is the end of a browse's body
or a statement of a loop, or is so through ifs that it ends (`L`). Other scripts
do not agree, which `trans_loop` shows. The programs of `trans_agree` are tame,
which `MCTranspilation` states as an assumption that TLC evaluates. Like
`Agree`, it is about executions in which no loop of the interpreter goes on after
a runtime error.

The theorems of `Library` assume `WellAsked`, what can be asked at all: names
of one part or two; programs that are trees, with as many fields as `Stmt` has
and no call below a name (`IsProgram`); numbers, NaN, texts and missing values
under the keys of maps; texts without a NUL, which `ByteAt` cannot tell from the
end of a text; lists of arguments over words of any length; names and cells of
any length, a width of 1 at least, as `columnate` makes sure of; statements of
parts of any number and length, of the signs the code tells apart, whose
neighbours do not change their meaning (`WellWritten`). The conditions on
them are in the properties: what meets in a column can be compared
(`SortsMaps`), an argument is one its configuration has (`MayBe`). `MCLibrary`
states that its questions are of this kind, an assumption TLC evaluates
(`AskedAssumption`), and so it does with `MacroNamesDiffer`, that no two macros
go by one name: the provers take strings for atoms and do not join them. They do
not know either that a literal is in STRING, so `RuntimeProofs` has the
characters of a word in a set of its own, `Char`, that adds the signs of the
parser.

Only model-checked: liveness under fairness (`EventuallyReturns`,
`DelaysNobodyElse`, `Drains`, `LossEndsStatement`); the front end and
the REPL (`ReadAsWritten`, `BakedWithoutPrep`, `RunsAsScript`); and of the
library the expressions and the methods of strings (`StatementsAgree`,
`TextAgrees`). Their
operators are RECURSIVE, for which the prover has no rule. Recursion over
positions can be restated as a recursive function, as in `Args`, `Columns` and `Placeholders`,
and then needs an induction by hand for what it defines (`WordsAre`, `MeaningIs`,
`ParseIs`; `Defined` for a function that goes by steps),
from the least place where it would fail (`UpTo`), because the library's theorems
of induction take an operator. Recursion over trees, as that of the parser and of
expressions, has no such function whose domain is a set one can write down.

## 5. Where the code and its words differ

Shown by a run that ends in a counterexample:

- `trans_loop`: a `terminate` in a `try` in a `loop`, as in
  `examples/loop.corvo`, makes the generated program return from `run` instead
  of leaving the loop.
- `async_replace`: the comments on `exec_async_browse` (`evaluator.rs` 590–595), and a
  second one on merging (1482–1490), say that a thread's final value of every type but
  lists replaces the current one. `merge_shared_writeback` (`value.rs` 510–541)
  adds what the thread added to a number and appends what it appended to a text,
  as its own comment says (495–509), and so do threads in `NoLostUpdate`, `AddsUp`
  and `AtomicUpdates`: two that add 1 to a counter leave it two higher, the final
  value of neither.

Noted while modelling, without a run of their own.

Statements and procedures:

- A variable named like another parameter of the procedure it is passed to
  loses its update (`evaluator.rs` 572), contrary to the comment at 519 and to
  `examples/procedure.corvo` 4. `CallsByReference` is about calls without such a
  name.
- Outside a loop `terminate` leaves the evaluator's flag set and every later
  REPL input stops after its first statement (`evaluator.rs` 64); the help says
  it exits the current loop (`repl/mod.rs` 176).
- A transpiled procedure that fails leaves its parameters bound and the
  variables they shadowed lost (`runtime/state.rs` 208), contrary to the comment
  on `exec_procedure_call` (`evaluator.rs` 522). A transpiled procedure called with the wrong number of
  arguments panics in its write-back.
- `sys.exit` inside `dont_panic` returns (`evaluator.rs` 446), although
  `CHEATSHEET.md` gives it the type `Never`.
- A `try` in a `dont_panic` in a procedure gets a generated early return of the
  wrong closure's type, which `rustc` rejects (`transpiler.rs` 594).
- A `try` all of whose fallbacks fail leaves the body's error when interpreted
  (`evaluator.rs` 377–388) and the last fallback's, with its exit code, when
  generated (`transpiler.rs` 526–556). `Agree` compares success, failure and exit,
  not which error is left. An interpreted `loop` goes on after a runtime error of
  its body (`evaluator.rs` 394), a generated one lets it out (`transpiler.rs`
  412–420); `Agree` is about executions without such a round. The error that is
  left and the procedure that fails are the two listed hazards that no property
  covers.
- Merging is last-writer-wins for maps, booleans and changes of type.
- `http_listen` answers before it writes back (`http_server.rs` 352, 356), so a
  client with its answer can make a request that does not see its own effect.
  Writing has no timeout: a client that does not read keeps its thread for ever,
  and what its block did is not merged.
  When accepting fails the statement returns the error without publishing (48). A
  block that fails still answers 200 unless it set a response. `HTTP_LISTENING.md`
  says 500 for an `@resp` that is no map; the code answers 200.
- `amqp_consume` merges what a failed block did, `http_listen` does not. A
  rejected message is dropped by the broker. `sys.exit` in a block rejects the
  message and the statement goes on.

- A block of `amqp_consume` runs inside the statement's tokio runtime
  (`evaluator.rs` 762), where `db.*` (`db.rs` 254, 424, 477, 516), `amqp.connect`
  (`amqp.rs` 115) and a second `amqp_consume` start another one, on which tokio
  panics: the process ends with the message unacknowledged, a `Crash` of
  `AmqpConsume`. Only `amqp.publish` and the queue functions ask first (`amqp.rs`
  30, 43).

Compilation:

- A prep block after the first that sets statics only inside a `try` is executed
  again by the executable, although `builder.rs` 351 says that prep must not run
  again; `RunsOnce` is about blocks that set a static directly. A `terminate` or
  `sys.exit` in a prep block ends the script when it is interpreted and only the
  pre-execution when it is compiled.
- Statics change on their way into an executable. Compiled: a procedure, a shared
  value or a connection makes `corvo --compile` panic (`builder.rs` 1054–1068);
  maps that look like a stored NaN or infinity, or like a stored regular
  expression (`{"__corvo_regex": {…}}`), become these (`lib.rs` 196–217); a number
  of 17 digits may become its neighbour; with lists nested more than 126 deep
  the executable panics when it starts (`lib.rs` 170). Transpiled: what has no
  literal is `Null` and a NaN or an infinity does not compile (`transpiler.rs`
  1205–1243); keys of maps (1222) and names of statics (74, 141, 777) are written
  without escapes, so that those with a quote or a backslash change, coincide or
  do not compile. `CapturedKept` says what is left: no static is missing, and
  those that no such case touches are what they were.
- Two `corvo --compile` at a time: each may build or copy the other's program
  and report success (`builder.rs` 369–383); `NeverStale` is what remains true:
  no executable is older than its compilation unless that, or one it met, met a
  clean. A clean removes cargo's lock too, so that a build it overtook can end
  after one that began later; this takes four processes, one more than the run
  has, and was found by the proof.
- `strip_prep_block` takes any `prep` token for the block's keyword, so a script
  that has no prep block and uses `@prep` is damaged; the comment at
  `builder.rs` 919 says it is returned unchanged. `BakedWithoutPrep` is about
  scripts that do not name a variable so.
- The oxide merge (`builder.rs` 118–300): a `corvo-lang` line with another key
  before `features` loses its features at the next `--oxide`, and what follows
  the feature list is dropped, contrary to `CHEATSHEET.md` 283 ("existing bins
  and merged corvo-lang features are preserved"). A line of another version is
  left alone, so a program's features are not merged. A commented-out `[[bin]]`,
  or a `[lib]` with the program's name behind a `[[bin]]`, hides the program and
  no target is added (56–64); `name="x"` without spaces gets a second target,
  which cargo rejects. A plain `--transpile` into an oxide directory merges no
  features. `Served` says for which manifests a run does leave each program with
  its target and its features.

Lexer, parser, REPL:

- Interpolation has a lexer of its own without comparisons, `==`, logical
  operators, `%`, `!`, comments, `if`, `else`, `or=` and hexadecimal numbers;
  what follows the first expression in `${a b}` is ignored, and an interpolation
  of one literal is that literal.
- A token is expected by its kind alone, so `var.foo("x", 1)` is `var.set`. A line that
  starts with `[` or `-` continues the expression before it; a statement that
  starts with `@x[…]` ends at the bracket; one that starts with `static` must be
  `static.set`. A regex after `:`, `==`, `&&` is read as divisions.
- In the REPL an `else` or `fallback` on a new line comes after the input has
  ended; the end of the input, in an open block or not, is an empty line for
  ever (`read_line` returns `Ok(0)`, `repl/mod.rs` 40–48). A prep block entered
  there removes every variable of the session (`evaluator.rs` 224).
  Braces are counted in strings and comments too (`repl/mod.rs` 78), so one of them
  keeps an input open or ends it early; `RunsAsScript` is about sessions without.

Names of functions:

- Compiled programs run names the interpreter does not know: bare
  `sys_echo(…)` reaches the macro, oxide accepts Rust names such as
  `math.modulo`, `fs.move_file`, `json.parse_value`. There are macros for
  `number.pow`, `list.filter`, `var.get` and others that fail at run time.
- `CHEATSHEET.md` 216–233 documents `number.pow`, `min`, `max`, `clamp` and
  `list.filter`, `map`, `reduce`, which no engine runs; lint takes them, and
  `var.get` and its like, for known (`Promised` in `Lint`). It does not know the
  namespaces `net` and `template` when it comments on an unknown name.
- An unknown function is an error that can be caught in the interpreter and a
  failing build of the generated program.

Expressions, interpreted against generated (each is named in `Agrees`):

- A negative, fractional or NaN list index is truncated by the interpreter (−1
  and NaN read element 0) and an error in generated code.
- Slices: the interpreter counts negative bounds from the end and clamps; the
  generated code takes them for 0, takes bytes for characters, and panics where
  the start is beyond the end or within a character. What cannot be sliced is
  an error before its bounds are evaluated there.
- No matching arm: an error interpreted, `Null` generated.
- `-=` of texts (`CHEATSHEET.md` 301) is a type error in generated code.
- `or=`: the interpreter ignores the present value and the errors of candidates,
  a `sys.exit` among them, and fails when none is truthy; generated code keeps a
  truthy present value, lets errors out and leaves quietly.
- `@m.set(k, v)` as a statement stores only in the interpreter. Named arguments
  of methods are dropped unevaluated in generated code. Methods of booleans and
  `null` evaluate their arguments there before they fail. Methods of AMQP
  connections exist only in the macro.
- `proc.call(…)` within an expression: an error interpreted, a call generated,
  which removes the parameters before it evaluates the arguments. A `.call(…)`
  statement on something else evaluates its target twice when interpreted.
- A failing generated assertion evaluates both operands again for its message;
  what is no number counts as 0; a wrong number of arguments is an assertion
  error in one engine and a parse error in the other.

Methods and arguments:

- `string.len` and `byte_slice` count bytes, the others characters; `index_of`
  an empty text answers the start even beyond the end.
- `string.hex_decode` panics when a two-byte character straddles a pair, and
  accepts `+f`; `base32_decode` drops a truncated group without an error.
- `list.sort_maps_by_key` has no total order when numbers and texts, or a NaN,
  meet (2 < 10 < "1x" < 2), for which Rust's sort may panic. `SortsConsistently`
  is about the rest.
- `strverscmp.rs` names GNU and musl as its model, but its branch for leading
  zeros does nothing: "0" comes before "00". `SortsVersions` excludes exactly this.
- `columnate` may exceed the width by two at its least column width, as GNU `ls`.
- `args.parse`: a required long value refuses a word that starts with `-`, a
  short one takes any; empty values are dropped; without permutation a lone `-`
  leaves `--` special behind it.

- SQL for PostgreSQL: a `?` before a text is an operator unless the sign before
  it is `=`, be it one in a comment; a key that is no literal (`j ? @k`, `j ? ?`)
  is taken for a marker; comments do not nest and a `$` within a name starts a
  quotation, other than in PostgreSQL; a script that uses `$1` and `?` together
  gets two meanings of `$1` (`db.rs` 52–189). `BindsInOrder` is about the rest.

Handles and tests:

- Ids restart in each clone (`runtime/state.rs` 141), so a handle that leaves a
  thread may reach another resource of the same id, or none. `ReachesItsOwn`
  is about handles used where they were made.
- What a test's body opened itself stays open in the tests after it; `sys.exit`
  in a body counts as a failed test; a failing name expression ends `run_tests`
  without a report (`evaluator.rs` 109).

## 6. Not modelled, and why

- The wording and layout of diagnostics (`diagnostic.rs`).
- The CLI's dispatch of options and its exit codes: one decision per option.
  What compiling, transpiling and cleaning do is in the modules above.
- The other functions of the standard library behind their names: each is one call of
  the operating system or of a crate, with nothing kept between calls.
- The rest of the list, map, number and regex methods: one call of Rust's
  library each.
- `scope.rs`: used only by its own tests.
- In `Evaluation`: `assert_match`, a `match` without arms (its generated code
  does not compile), procedures as values, odd pairs of map literals.
- HTTP and AMQP statements of transpiled code: they call the drivers modelled
  in `HttpListen` and `AmqpConsume`.
- Failures of the file system itself, and what sockets and sessions carry.

## 7. What could come next

- The methods of strings restated as recursive functions, as `Args` is, and
  theorems about them.
- Scripts that are not tame: which ones differ, stated exactly.
- `Sessions` composed with `AsyncBrowse`: handles in shared variables.
- Programs of `Calls` as the trees of `Parser`: that whatever is parsed is a
  program in the sense of `IsProgram`.
