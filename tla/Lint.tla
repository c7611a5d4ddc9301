--------------------------------- MODULE Lint ---------------------------------
(***************************************************************************)
(* corvo --lint: which calls of a program are reported as unknown, which   *)
(* statements draw a warning, and which known name is suggested.  The      *)
(* table of names is one more list kept by hand.                           *)
(***************************************************************************)
EXTENDS Calls, FiniteSetsExt

KnownSystem ==
  In("sys", {"echo", "printf", "print", "eprint", "read_line", "sleep", "panic", "exit", "exec",
     "read_all", "chroot", "nice", "sync", "stdin_isatty", "stdout_isatty"})
  \cup In("os", {"get_env", "set_env", "exec", "info", "environ", "groups", "hostid", "nproc", "df",
     "argv", "getcwd", "username", "ttyname", "uptime", "load_average", "user_count", "users",
     "user_id", "group_id", "tty_get_mode", "tty_set_mode"})
  \cup In("math", {"add", "sub", "mul", "div", "mod", "max", "min", "floor", "round", "ceil",
     "random", "human_bytes", "parse_size", "range"})
  \cup In("fs", {"read", "read_lines", "write", "append", "delete", "exists", "mkdir", "mkfifo",
     "mknod", "list_dir", "copy", "move", "link", "symlink", "realpath", "truncate", "touch", "stat",
     "read_link", "read_dir_meta", "mktemp", "read_hex", "write_hex", "read_meta", "path_filename",
     "path_parent", "path_join", "path_relative", "chmod", "chown", "selinux_context_get",
     "selinux_context_set"})
KnownConnections ==
  In("http", {"get", "post", "put", "delete"})
  \cup In("net", {"tcp_listen", "tcp_accept", "tcp_close_listener", "tcp_connect", "tcp_read",
     "tcp_write", "tcp_close"})
  \cup In("pex", {"spawn", "spawn_bash", "send_line", "send", "send_control", "read_line",
     "exp_string", "exp_regex", "exp_eof", "execute", "wait_for_prompt", "close"})
  \cup In("dns", {"resolve", "lookup"})
  \cup In("crypto", {"hash", "hash_file", "hash_stdin", "checksum", "crc32_file", "crc32_stdin",
     "encrypt", "decrypt", "uuid"})
KnownFormats ==
  {<<ns, f>> : ns \in {"json", "yaml", "hcl"}, f \in {"parse", "stringify"}}
  \cup {<<ns, "parse">> : ns \in {"csv", "xml", "env"}}
  \cup In("db", {"connect", "query", "execute", "close"})
  \cup In("amqp", {"connect", "publish", "queue_delete", "queue_purge"})
  \cup In("args", {"scan", "parse"})
  \cup In("time", {"format_local", "format_utc", "unix_now", "parse_date", "boot_time"})
  \cup In("template", {"render", "render_file"})
  \cup In("llm", {"model", "prompt", "embed", "chat"})
  \cup In("notifications", {"smtp", "slack", "telegram", "mattermost", "gitter", "messenger",
     "discord", "teams", "x", "os", "irc"})
KnownText ==
  In("re", {"match", "find", "find_all", "replace", "replace_all", "split", "new",
     "posix_class_chars", "posix_class_translate"})
  \cup In("string", {"concat", "replace", "split", "trim", "trim_start", "trim_end", "contains",
     "starts_with", "ends_with", "to_lower", "to_upper", "len", "reverse", "is_empty", "pad_start",
     "pad_end", "fnmatch", "byte_slice", "substring", "index_of", "last_index_of", "char_at",
     "repeat", "replace_first", "count", "chars", "base64_encode", "base64_decode", "base32_encode",
     "base32_decode", "base32hex_encode", "base32hex_decode", "hex_encode", "hex_decode"})
KnownValues ==
  In("number", {"to_string", "parse", "is_nan", "is_infinite", "is_finite", "abs", "floor", "ceil",
     "round", "sqrt", "pow", "min", "max", "clamp"})
  \cup In("list", {"push", "pop", "get", "set", "len", "first", "last", "concat", "is_empty",
     "contains", "delete", "filter", "map", "reduce", "find", "sort", "sort_version",
     "sort_maps_by_key", "columnate", "reverse", "flatten", "unique", "join", "slice", "new"})
  \cup In("map", {"get", "set", "has", "has_key", "delete", "remove", "keys", "values", "entries",
     "len", "is_empty", "merge", "new", "column"})
  \cup {<<"os", "temp_dir">>, <<"os", "get_env">>}
  \cup {<<ns, f>> : ns \in {"var", "static"}, f \in {"get", "set"}}
KnownFunctions == UNION {KnownSystem, KnownConnections, KnownFormats, KnownText, KnownValues}

(* Names of the table, some of them in CHEATSHEET.md too, that the         *)
(* interpreter does not run.                                               *)
Promised ==
  In("number", {"pow", "min", "max", "clamp"}) \cup In("list", {"filter", "map", "reduce"})
  \cup {<<ns, f>> : ns \in {"var", "static"}, f \in {"get", "set"}}

(* But for those, lint knows a name exactly if the interpreter runs it.    *)
KnowsName(name) ==
  name \notin Promised =>
    (name \in KnownFunctions <=> Interpreted([name |-> name, named |-> FALSE]) /= Unknown)
-----------------------------------------------------------------------------
(* The walk.  Of a test the name, the arguments and the body are walked;   *)
(* the other children left out are names.                                  *)
(* Mutant: tests are skipped, as compiling does.                           *)
LintsOutsideTests(t, i) == t.n /= "run_test"
Lints(t, i) ==
  /\ t.n = "browse"       => i \in {1, 4}
  /\ t.n = "async_browse" => i = 1
  /\ t.n = "http_listen"  => i \in {1, 5}
  /\ t.n = "amqp_consume" => i \in {1, 2, 5}
  /\ t.n = "run_test"     => i \in {1, 2, 4}
  /\ t.n = "procedure"    => i = 2

(* The statements that share a variable, the first in their fourth field.  *)
Sharing(program, ways) ==
  {way \in ways : program[way].n \in Sharers /\ way \o <<4, 1>> \in DOMAIN program}
LintProgram(program) ==
  LET linted == Reached(program, Lints)
  IN  [errors   |-> Called(program, linted) \ KnownFunctions,
       warnings |-> Sharing(program, linted)]

(* Wherever an unknown function is called, lint reports it; a program      *)
(* without one runs into no unknown function but a promised one; and every *)
(* statement that shares variables is warned of.                           *)
ReportsAll(program) ==
  LET report       == LintProgram(program)
      runs(name)   == Interpreted([name |-> name, named |-> FALSE]) /= Unknown
  IN  /\ \A name \in Called(program, DOMAIN program) \ Promised : name \in report.errors <=> ~runs(name)
      /\ report.warnings = Sharing(program, DOMAIN program)
-----------------------------------------------------------------------------
(* Suggestions, for names as sequences of characters: the least distance   *)
(* of the beginnings of a and b, row by row.                               *)
Levenshtein(a, b) ==
  LET d[i \in 0 .. Len(a), j \in 0 .. Len(b)] ==
        CASE i = 0 -> j
          [] j = 0 -> i
          [] OTHER -> IF a[i] = b[j] THEN d[i - 1, j - 1]
                      ELSE 1 + Min({d[i - 1, j], d[i, j - 1], d[i - 1, j - 1]})
  IN  d[Len(a), Len(b)]

Threshold(name) == Min({Len(name) \div 3 + 1, 4})
SuggestFunction(name, known) ==   \* the first of the nearest
  LET distance == [i \in DOMAIN known |-> Levenshtein(name, known[i])]
      near     == {i \in DOMAIN known : distance[i] <= Threshold(name)}
      nearest  == {i \in near : \A k \in near : distance[i] <= distance[k]}
  IN  IF near = {} THEN <<>> ELSE <<known[Min(nearest)]>>

(* The distance is the number of single edits: insertions, removals and    *)
(* replacements of a character.                                            *)
Edited(a, chars) ==
  {SubSeq(a, 1, i - 1) \o SubSeq(a, i + 1, Len(a)) : i \in DOMAIN a}
  \cup {SubSeq(a, 1, i) \o <<c>> \o SubSeq(a, i + 1, Len(a)) : i \in 0 .. Len(a), c \in chars}
  \cup {[a EXCEPT ![i] = c] : i \in DOMAIN a, c \in chars}
CountsEdits(a, b, chars) ==
  /\ (Levenshtein(a, b) = 0) = (a = b)
  /\ \A e \in Edited(a, chars) : Levenshtein(e, b) >= Levenshtein(a, b) - 1
  /\ a /= b => \E e \in Edited(a, chars) : Levenshtein(e, b) = Levenshtein(a, b) - 1

(* A name that is known is suggested itself; one that is a single edit     *)
(* from a known name gets a suggestion no more edits away.                 *)
SuggestsNearest(name, known, chars) ==
  LET suggested == SuggestFunction(name, known)
  IN  /\ name \in {known[i] : i \in DOMAIN known} => suggested = <<name>>
      /\ (\E i \in DOMAIN known : known[i] \in Edited(name, chars)) =>
           suggested /= <<>> /\ Levenshtein(name, suggested[1]) <= 1
==============================================================================
