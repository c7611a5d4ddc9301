-------------------------------- MODULE Calls --------------------------------
(***************************************************************************)
(* What a call "namespace.function" of a script runs: in the interpreter   *)
(* (the match in standard_lib::call), in a transpiled program (the macro   *)
(* of that name) and in an oxide program (the Rust function itself, in a   *)
(* library built with the features the usage analysis asks for).  The      *)
(* three tables are kept by hand in different files.                       *)
(*                                                                         *)
(* A name is its parts, <<"sys", "echo">>, or one part when the script     *)
(* wrote no dot.  A call is a name and whether it has named arguments.     *)
(***************************************************************************)
EXTENDS Sequences, FiniteSets, Integers

In(ns, functions) == {<<ns, f>> : f \in functions}
Dotted(name)      == Len(name) = 2
-----------------------------------------------------------------------------
(* The interpreter.                                                        *)
CoreNames ==
  In("sys", {"echo", "printf", "print", "eprint", "read_line", "sleep", "panic", "exit",
             "exec", "read_all", "chroot", "nice", "sync", "stdin_isatty", "stdout_isatty"})
  \cup In("os", {"get_env", "set_env", "exec", "info", "environ", "groups", "hostid", "nproc",
             "df", "argv", "getcwd", "username", "ttyname", "uptime", "temp_dir", "load_average",
             "users", "user_count", "user_id", "group_id", "tty_get_mode", "tty_set_mode"})
  \cup In("args", {"scan", "parse"})
  \cup In("math", {"add", "sub", "mul", "div", "mod", "max", "min", "floor", "round", "ceil",
             "random", "human_bytes", "parse_size", "range"})
  \cup In("fs", {"read", "write", "append", "link", "symlink", "delete", "exists", "mkdir",
             "mkfifo", "mknod", "list_dir", "copy", "move", "realpath", "truncate", "touch",
             "read_lines", "stat", "read_link", "mktemp", "read_hex", "write_hex",
             "read_dir_meta", "read_meta", "path_filename", "path_parent", "path_join",
             "path_relative", "chmod", "chown", "selinux_context_get", "selinux_context_set"})
  \cup In("time", {"format_local", "format_utc", "unix_now", "parse_date", "boot_time"})
  \cup In("json", {"parse", "stringify"})
GatedNames ==   \* each under #[cfg(feature = "stdlib-<namespace>")]
  In("http", {"get", "post", "put", "delete"})
  \cup In("net", {"tcp_listen", "tcp_accept", "tcp_close_listener", "tcp_connect", "tcp_read",
             "tcp_write", "tcp_close"})
  \cup In("pex", {"spawn", "spawn_bash", "send_line", "send", "send_control", "read_line",
             "exp_string", "exp_regex", "exp_eof", "execute", "wait_for_prompt", "close"})
  \cup In("dns", {"resolve", "lookup"})
  \cup In("crypto", {"hash", "hash_file", "hash_stdin", "checksum", "crc32_file",
             "crc32_stdin", "encrypt", "decrypt", "uuid"})
  \cup In("yaml", {"parse", "stringify"}) \cup In("hcl", {"parse", "stringify"})
  \cup In("csv", {"parse"}) \cup In("xml", {"parse"}) \cup In("env", {"parse"})
  \cup In("db", {"connect", "query", "execute", "close"})
  \cup In("amqp", {"connect", "publish", "queue_delete", "queue_purge"})
  \cup In("template", {"render", "render_file"})
  \cup In("llm", {"model", "prompt", "embed", "chat"})
  \cup In("notifications", {"smtp", "slack", "telegram", "mattermost", "gitter", "messenger",
             "discord", "teams", "x", "os", "irc"})

StringMethods ==
  In("string", {"concat", "replace", "split", "trim", "contains", "starts_with", "ends_with",
     "to_lower", "to_upper", "len", "reverse", "is_empty", "pad_start", "pad_end", "fnmatch",
     "byte_slice", "trim_start", "repeat", "trim_end", "substring", "index_of",
     "last_index_of", "char_at", "replace_first", "count", "chars", "base64_encode",
     "base64_decode", "base32_encode", "base32_decode", "base32hex_encode",
     "base32hex_decode", "hex_encode", "hex_decode"})
NumberMethods ==
  In("number", {"to_string", "parse", "is_nan", "is_infinite", "is_finite", "abs", "floor",
     "ceil", "round", "sqrt"})
ListMethods ==
  In("list", {"push", "pop", "get", "set", "concat", "first", "last", "len", "reverse",
     "is_empty", "contains", "join", "new", "delete", "sort", "sort_version",
     "sort_maps_by_key", "columnate", "find", "slice", "unique", "flatten"})
MapMethods ==
  In("map", {"keys", "values", "len", "is_empty", "has_key", "get", "set", "remove", "delete",
     "merge", "has", "entries", "new", "column"})
ReMethods ==
  In("re", {"match", "find", "find_all", "replace", "replace_all", "split", "new",
     "posix_class_chars", "posix_class_translate"})
Methods     == StringMethods \cup NumberMethods \cup ListMethods \cup MapMethods \cup ReMethods
MethodSpace == {"string", "number", "list", "map", "re"}

(* The Rust function behind a name, where the two differ.                  *)
Renamed == {[name |-> <<"sys", "print">>, rust |-> "print_no_newline"],
            [name |-> <<"sys", "eprint">>, rust |-> "eprint_newline"],
            [name |-> <<"sys", "exit">>, rust |-> "exit_process"],
            [name |-> <<"math", "mod">>, rust |-> "modulo"],
            [name |-> <<"fs", "move">>, rust |-> "move_file"],
            [name |-> <<"notifications", "os">>, rust |-> "os_notify"]}
           \cup {[name |-> <<ns, "parse">>, rust |-> "parse_value"] :
                   ns \in {"json", "yaml", "hcl", "csv", "xml", "env"}}
RustName(name) ==
  IF \E r \in Renamed : r.name = name
  THEN (CHOOSE r \in Renamed : r.name = name).rust ELSE name[2]

(* The functions that also take the runtime state: they keep handles, or   *)
(* read the arguments of the script.                                       *)
WithState == In("os", {"argv"}) \cup {n \in GatedNames : n[1] \in {"net", "pex"}}

Unknown == [runs |-> <<>>]
Runs(module, function, named, state) ==
  [runs |-> <<module, function>>, named |-> named, state |-> state]

Interpreted(call) ==
  IF call.name \in CoreNames \cup GatedNames
  THEN Runs(call.name[1], RustName(call.name), call.named, call.name \in WithState)
  ELSE IF call.name \in Methods THEN Runs("type_methods", call.name, FALSE, FALSE)
  ELSE Unknown
-----------------------------------------------------------------------------
(* The transpiled program: name.replace('.', "_") is a macro of the        *)
(* library, and the macro spells the name it calls.                        *)
StateMacros == In("var", {"get", "set"}) \cup In("static", {"get", "set"})
SysMacros   == In("sys", {"echo", "printf", "print", "eprint", "read_line", "sleep", "panic", "exit",
     "exec", "read_all", "chroot", "nice", "sync", "stdin_isatty", "stdout_isatty"})
OsMacros    == In("os", {"get_env", "set_env", "exec", "info", "environ", "groups", "hostid",
     "nproc", "df", "argv", "getcwd", "username", "ttyname", "uptime", "load_average"})
UserMacros  == In("os", {"user_count", "users", "user_id", "group_id", "tty_get_mode",
     "tty_set_mode", "temp_dir"})
FileMacros  == In("fs", {"read", "read_lines", "write", "append", "delete", "exists", "mkdir",
     "mkfifo", "mknod", "list_dir", "copy", "move", "link", "symlink", "realpath"})
MetaMacros  == In("fs", {"truncate", "touch", "stat", "read_link", "read_dir_meta", "mktemp",
     "read_hex", "write_hex", "read_meta", "path_filename", "path_parent", "path_join",
     "path_relative", "chmod", "chown"})
LabelMacros == In("fs", {"selinux_context_get", "selinux_context_set"})
MathMacros  == In("math", {"add", "sub", "mul", "div", "mod", "max", "min", "floor", "round",
     "ceil", "random", "human_bytes", "parse_size", "range"})
TimeMacros  == In("time", {"format_local", "format_utc", "unix_now", "parse_date", "boot_time"})
ArgsMacros  == In("args", {"scan", "parse"})
JsonMacros  == In("json", {"parse", "stringify"})
YamlMacros  == In("yaml", {"parse", "stringify"})
HclMacros   == In("hcl", {"parse", "stringify"})
CsvMacros   == In("csv", {"parse"})
XmlMacros   == In("xml", {"parse"})
EnvMacros   == In("env", {"parse"})
DnsMacros   == In("dns", {"resolve", "lookup"})
HttpMacros  == In("http", {"get", "post", "put", "delete"})
NetMacros   == In("net", {"tcp_listen", "tcp_accept", "tcp_close_listener", "tcp_connect",
     "tcp_read", "tcp_write", "tcp_close"})
PexMacros   == In("pex", {"spawn", "spawn_bash", "send_line", "send", "send_control", "read_line",
     "exp_string", "exp_regex", "exp_eof", "execute", "wait_for_prompt", "close"})
CryptoMacros == In("crypto", {"hash", "hash_file", "hash_stdin", "checksum", "crc32_file",
     "crc32_stdin", "encrypt", "decrypt", "uuid"})
DbMacros    == In("db", {"connect", "query", "execute", "close"})
AmqpMacros  == In("amqp", {"connect", "publish", "queue_delete", "queue_purge"})
TemplateMacros == In("template", {"render", "render_file"})
LlmMacros   == In("llm", {"model", "prompt", "embed", "chat"})
NotificationMacros == In("notifications", {"smtp", "slack", "telegram", "mattermost", "gitter",
     "messenger", "discord", "teams", "x", "os", "irc"})
ReMacros    == In("re", {"match", "find", "find_all", "replace", "replace_all", "split", "new",
     "posix_class_chars", "posix_class_translate"})
TextMacros  == In("string", {"concat", "replace", "split", "trim", "trim_start", "trim_end",
     "contains", "starts_with", "ends_with", "to_lower", "to_upper", "len", "reverse", "is_empty",
     "pad_start"})
SearchMacros == In("string", {"pad_end", "fnmatch", "byte_slice", "substring", "index_of",
     "last_index_of", "char_at", "repeat", "replace_first", "count", "chars", "base64_encode",
     "base64_decode", "base32_encode", "base32_decode"})
HexMacros   == In("string", {"base32hex_encode", "base32hex_decode", "hex_encode", "hex_decode"})
NumberMacros == In("number", {"to_string", "parse", "is_nan", "is_infinite", "is_finite", "abs",
     "floor", "ceil", "round", "sqrt", "pow", "min", "max", "clamp"})
ListMacros  == In("list", {"push", "pop", "get", "set", "len", "first", "last", "concat",
     "is_empty", "contains", "delete", "filter", "map", "reduce", "find"})
SortMacros  == In("list", {"sort", "sort_version", "sort_maps_by_key", "columnate", "reverse",
     "flatten", "unique", "join", "slice", "new"})
MapMacros   == In("map", {"get", "set", "has", "has_key", "delete", "remove", "keys", "values",
     "entries", "len", "is_empty", "merge", "new", "column"})
Macros ==
  UNION {StateMacros, SysMacros, OsMacros, UserMacros, FileMacros, MetaMacros, LabelMacros,
    MathMacros, TimeMacros, ArgsMacros, JsonMacros, YamlMacros, HclMacros, CsvMacros, XmlMacros,
    EnvMacros, DnsMacros, HttpMacros, NetMacros, PexMacros, CryptoMacros, DbMacros, AmqpMacros,
    TemplateMacros, LlmMacros, NotificationMacros, ReMacros, TextMacros, SearchMacros, HexMacros,
    NumberMacros, ListMacros, SortMacros, MapMacros}

MacroName(name) == IF Dotted(name) THEN name[1] \o "_" \o name[2] ELSE name[1]

(* No two macros are called alike.                                         *)
ASSUME MacroNamesDiffer == \A m, n \in Macros : MacroName(m) = MacroName(n) => m = n

NotCompiled == [runs |-> <<"nothing">>]
Transpiled(call) ==
  LET called == {m \in Macros : MacroName(m) = MacroName(call.name)}
  IN  IF called = {} THEN NotCompiled
      ELSE Interpreted([name |-> CHOOSE m \in called : TRUE, named |-> call.named])
-----------------------------------------------------------------------------
(* The oxide program names the Rust function and imports the module the    *)
(* name starts with; a name without a dot is taken for one of sys.         *)
SplitName(name) == IF Dotted(name) THEN name ELSE <<"sys", name[1]>>
FunctionToRustName(name, f) ==
  LET ns == name[1]
  IN  CASE name = <<"notifications", "os">> -> "os_notify"
        [] name = <<"sys", "exit">>   -> "exit_process"
        [] name = <<"sys", "print">>  -> "print_no_newline"
        [] name = <<"sys", "eprint">> -> "eprint_newline"
        [] f = "mod"   -> "modulo"
        [] f = "move"  -> "move_file"
        [] f = "parse" -> IF ns \in {"json", "yaml", "xml", "hcl", "csv", "env"}
                          THEN "parse_value" ELSE "parse"
        [] f = "match" -> "is_match"
        [] OTHER       -> f
(* Mutant: the handles of pex are forgotten.                               *)
NeedsStateForNet(name) ==
  name \in {<<"os", "argv">>} \cup In("net", {"tcp_listen", "tcp_accept", "tcp_close_listener",
             "tcp_connect", "tcp_read", "tcp_write", "tcp_close"})
NeedsState(name) ==
  name \in {<<"os", "argv">>} \cup In("net", {"tcp_listen", "tcp_accept", "tcp_close_listener",
             "tcp_connect", "tcp_read", "tcp_write", "tcp_close"})
        \cup In("pex", {"spawn", "spawn_bash", "send_line", "send", "send_control", "read_line",
             "exp_string", "exp_regex", "exp_eof", "execute", "wait_for_prompt", "close"})

(* The Rust functions there are to call, with the state or without.        *)
Functions ==
  {Runs(name[1], RustName(name), named, name \in WithState) :
     name \in CoreNames \cup GatedNames, named \in BOOLEAN}
Modules == {name[1] : name \in CoreNames \cup GatedNames}
Oxide(call) ==
  LET split == SplitName(call.name)
      emitted == Runs(split[1], FunctionToRustName(call.name, split[2]), call.named,
                      NeedsState(call.name))
  IN  IF call.name[1] \notin MethodSpace \cup Modules THEN NotCompiled
      ELSE IF split[1] \in MethodSpace
      THEN IF split \in Methods THEN Runs("type_methods", split, FALSE, FALSE) ELSE Unknown
      ELSE IF emitted \in Functions THEN emitted ELSE NotCompiled

(* Names that the interpreter does not know and a compiled program runs    *)
(* all the same: an underscore for the dot, the name of the Rust function. *)
RunsWhenCompiled(name) ==
  \/ MacroName(name) \in {MacroName(n) : n \in CoreNames \cup GatedNames \cup Methods}
  \/ Dotted(name) /\ \E r \in Renamed : r.rust = name[2] /\ r.name[1] = name[1]

(* A call runs the same function, with the same arguments, however the     *)
(* script is run; one that fails in the interpreter fails in a compiled    *)
(* program too, or there is none, but for the names above.                 *)
Same(call) ==
  LET answers == <<Transpiled(call), Oxide(call)>>
  IN  IF Interpreted(call) /= Unknown
      THEN \A i \in 1 .. 2 : answers[i] = Interpreted(call)
      ELSE ~RunsWhenCompiled(call.name) => \A i \in 1 .. 2 : answers[i] \in {Unknown, NotCompiled}
-----------------------------------------------------------------------------
(* A program is its nodes [n, v], with Parser's names, each under the way  *)
(* to it: the positions of the children one goes down by from the root,    *)
(* whose way is <<>>.                                                      *)
Above(way, k) == SubSeq(way, 1, k - 1)   \* the node the kth step is taken from
Reached(program, Goes(_, _)) ==
  {way \in DOMAIN program : \A k \in DOMAIN way : Goes(program[Above(way, k)], way[k])}
Called(program, ways)    == {program[way].v : way \in {w \in ways : program[w].n = "call"}}
NodeKinds(program, ways) == {program[way].n : way \in ways}

(* The fields of a node that are expressions or statements and those that  *)
(* are names; below a name there are only names.                           *)
Sharers == {"async_browse", "http_listen", "amqp_consume"}
FieldCount(t) ==
  CASE t.n \in {"browse", "async_browse", "run_test"} -> 4
    [] t.n \in {"http_listen", "amqp_consume"}        -> 5
    [] t.n = "procedure"                              -> 2
    [] OTHER                                          -> 0   \* any number
NamesOnly(t, i) ==
  \/ t.n \in {"browse", "async_browse", "http_listen"} /\ i \in {2, 3}
  \/ t.n \in {"amqp_consume", "run_test"} /\ i = 3
  \/ t.n \in Sharers /\ i = 4
  \/ t.n = "procedure" /\ i = 1
IsProgram(program) ==
  /\ DOMAIN program \subseteq Seq(Nat \ {0})
  /\ \A way \in DOMAIN program : \A k \in DOMAIN way :
       LET t == program[Above(way, k)]
       IN  /\ Above(way, k) \in DOMAIN program
           /\ FieldCount(t) > 0 => way[k] <= FieldCount(t)
           /\ NamesOnly(t, way[k]) => program[way].n \notin {"call"} \cup Sharers
-----------------------------------------------------------------------------
(* The features of the oxide build: from which node to which of its        *)
(* children the analysis goes, and the transpiler.                         *)
(* Mutant: of a server only the port is walked.                            *)
WalksPort(t, i) ==
  /\ t.n = "http_listen" => i = 1
  /\ t.n /= "run_test"
Walks(t, i) ==
  /\ t.n = "browse"       => i \in {1, 4}       \* the list and the body
  /\ t.n = "async_browse" => i = 1
  /\ t.n = "http_listen"  => i \in {1, 5}       \* the port and the body
  /\ t.n = "amqp_consume" => i \in {1, 2, 5}
  /\ t.n = "procedure"    => i = 2
  /\ t.n /= "run_test"
Emits(t, i) == t.n \notin {"prep", "run_test"}

(* A feature goes by the name of its namespace.                            *)
FeatureNamespaces ==
  {"http", "crypto", "db", "amqp", "notifications", "llm", "template", "dns", "csv", "xml",
   "yaml", "env", "hcl", "net", "pex"}
RequiredFeatures(program) ==
  LET walked     == Reached(program, Walks)
      namespaces == {name[1] : name \in Called(program, walked)}
  IN  (namespaces \cap FeatureNamespaces)
        \cup (IF "amqp_consume" \in NodeKinds(program, walked) THEN {"amqp"} ELSE {})
        \cup (IF "http_listen" \in NodeKinds(program, walked) THEN {"http"} ELSE {})

(* The generated program refers to nothing that is left out of the         *)
(* library it is built with.                                               *)
Suffices(program) ==
  LET emitted  == Reached(program, Emits)
      features == RequiredFeatures(program)
  IN  /\ \A name \in Called(program, emitted) \cap GatedNames : name[1] \in features
      /\ "amqp_consume" \in NodeKinds(program, emitted) => "amqp" \in features
      /\ "http_listen" \in NodeKinds(program, emitted) => "http" \in features
==============================================================================
