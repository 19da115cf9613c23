----------------------------- MODULE MCProcess -----------------------------
\* Small instances of Process for TLC.
EXTENDS Process

CONSTANTS t1, t2, t3, t4, d1, d2

\* How often main, the first process and the second one call exec.
Execs(main, first, second) ==
    [p \in Pids |-> CASE p = 0 -> main [] p = 1 -> first [] p = 2 -> second [] OTHER -> 0]

\* Programs wait for their children and loads succeed, and then what differs.
Plain == [abandoners |-> {}, load_fails |-> FALSE, no_memory |-> FALSE,
          relative |-> FALSE, dirs |-> {}, execs |-> Execs(2, 1, 0),
          started |-> <<>>, threads |-> {t1, t2, t3}]
BadProgram == [Plain EXCEPT !.load_fails = TRUE]
NoMemory == [Plain EXCEPT !.no_memory = TRUE]
Relative == [Plain EXCEPT !.relative = TRUE, !.dirs = Dirs]
Abandon == [Plain EXCEPT !.abandoners = {1}]

\* Processes 1 and 2 run: they exec when there is no memory for a thread, or
\* 2 does and can, while 1 waits for its children.
Crowd == [Plain EXCEPT !.execs = Execs(0, 1, 1), !.started = <<t2, t3, t4>>]
Pair == [Crowd EXCEPT !.execs = Execs(0, 0, 1), !.threads = Threads]

MCSettings == {BadProgram, NoMemory, Relative, Abandon, Crowd, Pair}
MCAbandon == {Abandon}
=============================================================================
