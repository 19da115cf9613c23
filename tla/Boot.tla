-------------------------------- MODULE Boot --------------------------------
(***************************************************************************)
(* threads/init.c: the kernel command line.  A word is [name, value] as    *)
(* strtok_r splits it at "="; NULL is a missing value.  Options change a   *)
(* configuration; actions run in order.  The machine may stop: "panic",    *)
(* or "off" after the usage message.                                       *)
(***************************************************************************)
EXTENDS Integers, Sequences, FiniteSets

NULL == "null"

DefaultConfig ==
    [shutdown |-> "none", format_filesys |-> FALSE, filesys |-> NULL, scratch |-> NULL,
     swap |-> NULL, seed |-> "none", thread_mlfqs |-> FALSE, user_page_limit |-> "SIZE_MAX"]

IsOption(word) == word.name \in {"-h", "-q", "-r", "-f", "-filesys", "-scratch", "-swap", "-rs",
                                 "-mlfqs", "-ul", "-x"}

\* atoi asserts that its argument is not null.
NeedsValue(word) == word.name \in {"-rs", "-ul"}

\* The configuration after one option.
Configured(c, word) ==
    CASE word.name = "-q" -> [c EXCEPT !.shutdown = "power_off"]
      [] word.name = "-r" -> [c EXCEPT !.shutdown = "reboot"]
      [] word.name = "-f" -> [c EXCEPT !.format_filesys = TRUE]
      [] word.name = "-filesys" -> [c EXCEPT !.filesys = word.value]
      [] word.name = "-scratch" -> [c EXCEPT !.scratch = word.value]
      [] word.name = "-swap" -> [c EXCEPT !.swap = word.value]
      [] word.name = "-rs" -> [c EXCEPT !.seed = word.value]
      [] word.name = "-mlfqs" -> [c EXCEPT !.thread_mlfqs = TRUE]
      [] word.name = "-ul" -> [c EXCEPT !.user_page_limit = word.value]

\* The last statement seeds the generator from the clock, whatever -rs said.
RECURSIVE OptionsFrom(_, _)
OptionsFrom(argv, c) ==
    IF argv = <<>> \/ ~ IsOption(argv[1])
    THEN [state |-> "up", config |-> [c EXCEPT !.seed = "clock"], argv |-> argv]
    ELSE IF argv[1].name = "-h" THEN [state |-> "off", config |-> c, argv |-> argv]
    ELSE IF argv[1].name = "-x" \/ (NeedsValue(argv[1]) /\ argv[1].value = NULL)
         THEN [state |-> "panic", config |-> c, argv |-> argv]
    ELSE OptionsFrom(Tail(argv), Configured(c, argv[1]))

parse_options(argv) == OptionsFrom(argv, DefaultConfig)

\* The table of actions: the number of words each takes.
actions == [a \in {"run", "ls", "cat", "rm", "extract", "append"} |-> IF a \in {"ls", "extract"} THEN 1 ELSE 2]

RECURSIVE run_actions_one(_, _)
run_actions_one(argv, ran) ==
    IF argv = <<>> THEN [state |-> "up", ran |-> ran]
    ELSE IF argv[1].name \notin DOMAIN actions \/ Len(argv) < actions[argv[1].name]
         THEN [state |-> "panic", ran |-> ran]
         ELSE run_actions_one(Tail(argv), Append(ran, SubSeq(argv, 1, actions[argv[1].name])))

\* The actions run, and whether the kernel panicked on the next one.
RECURSIVE run_actions(_, _)
run_actions(argv, ran) ==
    IF argv = <<>> THEN [state |-> "up", ran |-> ran]
    ELSE IF argv[1].name \notin DOMAIN actions \/ Len(argv) < actions[argv[1].name]
         THEN [state |-> "panic", ran |-> ran]
         ELSE run_actions(SubSeq(argv, actions[argv[1].name] + 1, Len(argv)),
                          Append(ran, SubSeq(argv, 1, actions[argv[1].name])))

RECURSIVE ArgsFrom_unchecked(_, _, _, _)
ArgsFrom_unchecked(bytes, argc, p, argv) ==
    IF argc = 0 THEN argv
    ELSE LET nul == {i \in p..Len(bytes) : bytes[i] = 0}
             next == IF nul = {} THEN Len(bytes) + 2 ELSE (CHOOSE i \in nul : \A k \in nul : i <= k) + 1
         IN  ArgsFrom_unchecked(bytes, argc - 1, next, Append(argv, p))

\* The argument block: LOADER_ARGS_LEN bytes that hold argc strings; offsets of the strings, or
\* <<"panic">> when one would start past the end.
RECURSIVE ArgsFrom(_, _, _, _)
ArgsFrom(bytes, argc, p, argv) ==
    IF argc = 0 THEN argv
    ELSE IF p > Len(bytes) THEN <<"panic">>
    ELSE LET nul == {i \in p..Len(bytes) : bytes[i] = 0}
             next == IF nul = {} THEN Len(bytes) + 2 ELSE (CHOOSE i \in nul : \A k \in nul : i <= k) + 1
         IN  ArgsFrom(bytes, argc - 1, next, Append(argv, p))

read_command_line(bytes, argc) == ArgsFrom(bytes, argc, 1, <<>>)
=============================================================================
