------------------------------ MODULE Process ------------------------------
(***************************************************************************)
(* The process table of userprog/process.c: exec, start_process, wait and  *)
(* exit, by user processes that interleave freely (they all run at         *)
(* PRI_DEFAULT, so a timer tick may hand the CPU to any of them).  A step  *)
(* is a stretch of code with interrupts off, or one access to the table or *)
(* to a list by code that runs with interrupts on.                         *)
(*                                                                         *)
(* An entry has one list element, which is on the free list, on the list   *)
(* of its parent's children, or on neither.  The lists are the linked      *)
(* lists of lib/kernel/list.c: an element that is removed or moved while   *)
(* its links are stale does to them here what it does in the code.         *)
(***************************************************************************)
EXTENDS Integers, Sequences

CONSTANTS
    MAX_PROCESSES,  \* size of the process table
    Threads,        \* thread structures; a freed one may be used again
    InitThread,     \* the thread that runs main
    NoThread,       \* NULL
    Codes,          \* codes a process passes to exit; -1 if it is killed
    Dirs,           \* directories a process may work in
    NoDir,          \* NULL
    Settings        \* what a behaviour may meet; one of them holds throughout

ASSUME TableAssumption == MAX_PROCESSES \in Nat \ {0}
ASSUME ThreadAssumption == InitThread \in Threads /\ NoThread \notin Threads
ASSUME DirAssumption == NoDir \notin Dirs /\ Dirs # {}

Pids == 0..(MAX_PROCESSES - 1)
INIT_PID == 0
PID_ERROR == -1

\* A list is named by its owner: the free list, or the children of a pid.
FreeList == MAX_PROCESSES
Lists == 0..MAX_PROCESSES
head(l) == <<"head", l>>
tail(l) == <<"tail", l>>
elem(p) == <<"elem", p>>
NULL == <<"null", 0>>
Entries == {elem(p) : p \in Pids}
Elems == Entries \cup {head(l) : l \in Lists} \cup {tail(l) : l \in Lists}

VARIABLES
    proc,    \* process_table, without its links
    next,    \* element -> next
    prev,    \* element -> prev
    status,  \* thread -> "unborn", "ready" (or running) or "blocked"
    pid,     \* thread -> its pid
    pc,      \* thread -> place in the code
    child,   \* thread -> the pid that a call is about
    cur,     \* thread -> the element that a walk or a list operation is at
    ret,     \* thread -> where the list operation returns to
    code,    \* thread -> outcome of load, or the code it exits with
    panic,   \* "none", or why the kernel stopped
    execs,   \* pid -> calls of exec still to come
    setting, \* which processes may exit with children left (abandoners),
             \* whether load may return false (load_fails) and palloc_get_page
             \* NULL (no_memory), whether programs are named relative to a
             \* directory (relative), where chdir may go (dirs), how many calls
             \* of exec there are (execs, by pid), the threads of the processes
             \* that run at the start (started), and the thread structures for
             \* which there is memory (threads)
    raced    \* history: two threads have met at the free list (AtFreeList and
             \* StaleLinks below); no code reads or writes it

listVars == <<next, prev>>
frameVars == <<pc, child, cur, ret, code>>
vars == <<proc, listVars, status, pid, frameVars, panic, execs, setting>>

\* The fields of an entry before its first use.
Unused ==
    [valid |-> FALSE, parent_pid |-> 0, running |-> FALSE, loaded |-> FALSE,
     load_success |-> FALSE, blocked |-> FALSE, return_code |-> 0,
     thread_ptr |-> NoThread, working_dir |-> NoDir]

\* The lists have these elements; pid 0 was popped from the free list, and
\* keeps its links.
Linked(lists) ==
    LET chain(l) == <<head(l)>> \o [i \in 1..Len(lists[l]) |-> elem(lists[l][i])] \o <<tail(l)>>
        Follows(d, e) == \E l \in Lists : \E i \in 1..Len(lists[l]) + 1 :
                           chain(l)[i] = d /\ chain(l)[i+1] = e
    IN
    /\ next = [d \in Elems |->
                 CASE d = elem(0) -> tail(FreeList)
                   [] d[1] = "tail" -> NULL
                   [] OTHER -> CHOOSE e \in Elems : Follows(d, e)]
    /\ prev = [e \in Elems |->
                 CASE e = elem(0) -> IF MAX_PROCESSES = 1 THEN head(FreeList) ELSE elem(1)
                   [] e[1] = "head" -> NULL
                   [] OTHER -> CHOOSE d \in Elems : Follows(d, e)]

\* The pids from n on, the lowest of them last.
Downto(n) == [i \in 1..(MAX_PROCESSES - n) |-> MAX_PROCESSES - i]

\* The entry of the initial thread.  main opens its working directory before
\* it executes the first program.
InitEntry ==
    [Unused EXCEPT !.valid = TRUE, !.parent_pid = PID_ERROR, !.thread_ptr = InitThread,
                   !.working_dir = CHOOSE d \in Dirs : TRUE]

(***************************************************************************)
(* process_init: every entry is on the free list, lowest pid last, and the *)
(* initial thread takes pid 0 from its end.                                *)
(***************************************************************************)
process_init ==
    /\ proc = [[p \in Pids |-> Unused] EXCEPT ![INIT_PID] = InitEntry]
    /\ Linked([l \in Lists |-> IF l = FreeList THEN Downto(1) ELSE <<>>])
    /\ status = [t \in Threads |-> IF t = InitThread THEN "ready" ELSE "unborn"]
    /\ pid = [t \in Threads |-> INIT_PID]
    /\ pc = [t \in Threads |-> "user"]
    /\ child = [t \in Threads |-> PID_ERROR]

(***************************************************************************)
(* A state that exec, exec by the program, exit of the second child and    *)
(* wait by main lead to: main sleeps until process 1 exits, 1 has a child  *)
(* 2 that runs and a child 3 that is dead and not waited for yet.          *)
(***************************************************************************)
Crowded ==
    LET started == setting.started
        entry(p, parent) ==
          [InitEntry EXCEPT !.parent_pid = parent, !.running = TRUE, !.loaded = TRUE,
                            !.load_success = TRUE, !.thread_ptr = started[p]]
    IN
    /\ proc = [[p \in Pids |-> Unused] EXCEPT
                 ![INIT_PID] = InitEntry,
                 ![1] = [entry(1, INIT_PID) EXCEPT !.blocked = TRUE],
                 ![2] = entry(2, 1),
                 ![3] = [entry(3, 1) EXCEPT !.running = FALSE, !.return_code = -1]]
    /\ Linked([l \in Lists |-> CASE l = INIT_PID -> <<1>>
                                 [] l = 1 -> <<2, 3>>
                                 [] l = FreeList -> Downto(4)
                                 [] OTHER -> <<>>])
    /\ status = [t \in Threads |-> CASE t = InitThread -> "blocked"
                                     [] t \in {started[1], started[2]} -> "ready"
                                     [] OTHER -> "unborn"]
    /\ pid = [t \in Threads |-> CASE t = started[1] -> 1 [] t = started[2] -> 2
                                  [] OTHER -> INIT_PID]
    /\ pc = [t \in Threads |-> IF t = InitThread THEN "reap" ELSE "user"]
    /\ child = [t \in Threads |-> IF t = InitThread THEN 1 ELSE PID_ERROR]

Init ==
    /\ setting \in Settings
    /\ IF setting.started = <<>> THEN process_init ELSE Crowded
    /\ cur = [t \in Threads |-> NULL]
    /\ ret = [t \in Threads |-> "user"]
    /\ code = [t \in Threads |-> 0]
    /\ panic = "none"
    /\ execs = setting.execs
    /\ raced = FALSE

-----------------------------------------------------------------------------
\* How a step moves thread t through its code.

Reached(t, place) == panic = "none" /\ status[t] = "ready" /\ pc[t] = place
At(t, place) == Reached(t, place) /\ UNCHANGED <<execs, setting>>
Goto(t, place) == pc' = [pc EXCEPT ![t] = place]

\* Back from exec or wait; main keeps the pid that exec returned.
Return(t, place, v) ==
    /\ Goto(t, place)
    /\ child' = [child EXCEPT ![t] = v]

\* A failed ASSERT, or a fault in the kernel: nothing runs any more.
Panic(why) ==
    /\ panic' = why
    /\ UNCHANGED <<proc, listVars, status, pid, frameVars>>

\* The code after an ASSERT.
Asserting(condition, why, action) ==
    IF condition THEN action /\ UNCHANGED panic ELSE Panic(why)

(***************************************************************************)
(* Wake the parent of p if it sleeps on p: entry is p's entry, changed as  *)
(* the code that does it has changed it.  thread_unblock fails if the      *)
(* parent's thread_ptr is not a blocked thread.                            *)
(***************************************************************************)
Sleeper(p) == proc[proc[p].parent_pid].thread_ptr

WakeParent(p, entry, action) ==
    IF ~ proc[p].blocked
    THEN /\ proc' = [proc EXCEPT ![p] = entry]
         /\ action
         /\ UNCHANGED <<status, panic>>
    ELSE Asserting(/\ proc[p].parent_pid \in Pids
                   /\ Sleeper(p) \in Threads
                   /\ status[Sleeper(p)] = "blocked",
                   "is_thread(t) && t->status == THREAD_BLOCKED",
                   /\ proc' = [proc EXCEPT ![p] = [entry EXCEPT !.blocked = FALSE]]
                   /\ status' = [status EXCEPT ![Sleeper(p)] = "ready"]
                   /\ action)

-----------------------------------------------------------------------------
\* lib/kernel/list.c.  An operation by code that runs with interrupts on is
\* one step per link it writes.

is_interior(e) == prev[e] # NULL /\ next[e] # NULL
list_empty(l) == next[head(l)] = tail(l)

\* list_remove(&p->elem), then list_push_back(&free_list, &p->elem).
remove_next(t) ==
    /\ At(t, "remove_next")
    /\ Asserting(is_interior(cur[t]), "is_interior(elem)",
                 /\ next' = [next EXCEPT ![prev[cur[t]]] = next[cur[t]]]
                 /\ Goto(t, "remove_prev")
                 /\ UNCHANGED <<proc, prev, status, pid, child, cur, ret, code>>)

remove_prev(t) ==
    /\ At(t, "remove_prev")
    /\ prev' = [prev EXCEPT ![next[cur[t]]] = prev[cur[t]]]
    /\ Goto(t, "insert_elem")
    /\ UNCHANGED <<proc, next, status, pid, child, cur, ret, code, panic>>

\* The list that t pushes its element to.
Target(t) == IF ret[t] = "adopted" THEN pid[t] ELSE FreeList

insert_elem(t) ==
    /\ At(t, "insert_elem")
    /\ prev' = [prev EXCEPT ![cur[t]] = prev[tail(Target(t))]]
    /\ next' = [next EXCEPT ![cur[t]] = tail(Target(t))]
    /\ Goto(t, "insert_next")
    /\ UNCHANGED <<proc, status, pid, child, cur, ret, code, panic>>

insert_next(t) ==
    /\ At(t, "insert_next")
    /\ next' = [next EXCEPT ![prev[tail(Target(t))]] = cur[t]]
    /\ Goto(t, "insert_prev")
    /\ UNCHANGED <<proc, prev, status, pid, child, cur, ret, code, panic>>

insert_prev(t) ==
    /\ At(t, "insert_prev")
    /\ prev' = [prev EXCEPT ![tail(Target(t))] = cur[t]]
    /\ Goto(t, ret[t])
    /\ UNCHANGED <<proc, next, status, pid, child, cur, ret, code, panic>>

ListOperation(t) ==
    remove_next(t) \/ remove_prev(t) \/ insert_elem(t) \/ insert_next(t) \/ insert_prev(t)

\* process_table_free(p) by thread t, which then goes on at place.
CallFree(t, p, place) ==
    /\ Goto(t, "free")
    /\ cur' = [cur EXCEPT ![t] = elem(p)]
    /\ ret' = [ret EXCEPT ![t] = place]

\* Mutant: no list_remove.
process_table_free_linked(t) ==
    LET p == cur[t][2] IN
    /\ At(t, "free")
    /\ Asserting(proc[p].valid, "p->valid",
                 /\ proc' = [proc EXCEPT ![p].valid = FALSE]
                 /\ Goto(t, "insert_elem")
                 /\ UNCHANGED <<listVars, status, pid, child, cur, ret, code>>)

process_table_free(t) ==
    LET p == cur[t][2] IN
    /\ At(t, "free")
    /\ Asserting(proc[p].valid, "p->valid",
                 /\ proc' = [proc EXCEPT ![p].valid = FALSE]
                 /\ Goto(t, "remove_next")
                 /\ UNCHANGED <<listVars, status, pid, child, cur, ret, code>>)

-----------------------------------------------------------------------------
\* process_execute.  main always waits next for the process it has started.

ExecReturn(t, v) ==
    IF pid[t] = INIT_PID THEN Return(t, "task", v) ELSE Return(t, "user", PID_ERROR)

\* No page for the copy of the name, or, in process_table_get, no free entry.
process_execute(t) ==
    /\ Reached(t, "user") /\ UNCHANGED setting
    /\ execs[pid[t]] > 0
    /\ execs' = [execs EXCEPT ![pid[t]] = @ - 1]
    /\ \/ /\ setting.no_memory \/ list_empty(FreeList)
          /\ ExecReturn(t, PID_ERROR)
       \/ /\ ~ list_empty(FreeList)
          /\ Goto(t, "get")
          /\ UNCHANGED child
    /\ UNCHANGED <<proc, listVars, status, pid, cur, ret, code, panic>>

\* The rest of process_table_get, with interrupts off.
process_table_get(t) ==
    LET e == prev[tail(FreeList)]
        p == e[2]
    IN
    /\ At(t, "get")
    /\ Asserting(/\ ~ list_empty(FreeList)
                 /\ is_interior(e)
                 /\ ~ proc[p].valid,
                 "!list_empty(list) && !p->valid",
                 /\ next' = [next EXCEPT ![prev[e]] = next[e], ![head(p)] = tail(p)]
                 /\ prev' = [prev EXCEPT ![next[e]] = prev[e], ![tail(p)] = head(p)]
                 /\ proc' = [proc EXCEPT ![p].valid = TRUE, ![p].blocked = FALSE,
                                         ![p].running = FALSE, ![p].loaded = FALSE,
                                         ![p].parent_pid = pid[t]]
                 /\ child' = [child EXCEPT ![t] = p]
                 /\ Goto(t, "create")
                 /\ UNCHANGED <<status, pid, cur, ret, code>>)

\* The thread structures that thread_create_ptr may be given: any free one to
\* which there is still a pointer, and one of the others, which are all alike.
Known(u) ==
    \/ \E p \in Pids : proc[p].thread_ptr = u
    \/ \E t \in Threads : cur[t] = <<"thread", u>>
FreeThreads ==
    LET free == {u \in setting.threads : status[u] = "unborn"}
        unknown == {u \in free : ~ Known(u)}
    IN (free \ unknown) \cup (IF unknown = {} THEN {} ELSE {CHOOSE u \in unknown : TRUE})

\* thread_create_ptr: the new thread u may run before its creator goes on.
thread_create_ptr(t) ==
    /\ At(t, "create")
    /\ \/ \E u \in FreeThreads :
            /\ status' = [status EXCEPT ![u] = "ready"]
            /\ pid' = [pid EXCEPT ![u] = child[t]]
            /\ pc' = [pc EXCEPT ![t] = "set_ptr", ![u] = "load"]
            /\ cur' = [cur EXCEPT ![t] = <<"thread", u>>]
            /\ UNCHANGED proc
       \/ /\ setting.no_memory \/ FreeThreads = {}
          /\ proc' = [proc EXCEPT ![child[t]].thread_ptr = NoThread]
          /\ Goto(t, "create_failed")
          /\ UNCHANGED <<status, pid, cur>>
    /\ UNCHANGED <<listVars, child, ret, code, panic>>

\* Mutant: the entry is not freed.
create_failed_kept(t) ==
    /\ At(t, "create_failed")
    /\ ExecReturn(t, PID_ERROR)
    /\ UNCHANGED <<proc, listVars, status, pid, cur, ret, code, panic>>

create_failed(t) ==
    /\ At(t, "create_failed")
    /\ CallFree(t, child[t], "exec_error")
    /\ UNCHANGED <<proc, listVars, status, pid, child, code, panic>>

exec_error(t) ==
    /\ At(t, "exec_error")
    /\ ExecReturn(t, PID_ERROR)
    /\ cur' = [cur EXCEPT ![t] = NULL]
    /\ UNCHANGED <<proc, listVars, status, pid, ret, code, panic>>

set_ptr(t) ==
    /\ At(t, "set_ptr")
    /\ proc' = [proc EXCEPT ![child[t]].thread_ptr = cur[t][2]]
    /\ cur' = [cur EXCEPT ![t] = NULL]
    /\ Goto(t, "set_dir")
    /\ UNCHANGED <<listVars, status, pid, child, ret, code, panic>>

set_dir(t) ==
    /\ At(t, "set_dir")
    /\ proc' = [proc EXCEPT ![child[t]].working_dir = proc[pid[t]].working_dir]
    /\ Goto(t, "await_load")
    /\ UNCHANGED <<listVars, status, pid, child, cur, ret, code, panic>>

await_load(t) ==
    LET sleeps == ~ proc[child[t]].loaded IN
    /\ At(t, "await_load")
    /\ proc' = IF sleeps THEN [proc EXCEPT ![child[t]].blocked = TRUE] ELSE proc
    /\ status' = [status EXCEPT ![t] = IF sleeps THEN "blocked" ELSE "ready"]
    /\ Goto(t, "loaded")
    /\ UNCHANGED <<listVars, pid, child, cur, ret, code, panic>>

\* After a failed load the entry stays allocated, on no list.
loaded(t) ==
    /\ At(t, "loaded")
    /\ Asserting(proc[child[t]].loaded, "process_table[pid].loaded",
                 /\ IF proc[child[t]].load_success
                    THEN /\ cur' = [cur EXCEPT ![t] = elem(child[t])]
                         /\ ret' = [ret EXCEPT ![t] = "adopted"]
                         /\ Goto(t, "insert_elem")
                         /\ UNCHANGED child
                    ELSE ExecReturn(t, PID_ERROR) /\ UNCHANGED <<cur, ret>>
                 /\ UNCHANGED <<proc, listVars, status, pid, code>>)

adopted(t) ==
    /\ At(t, "adopted")
    /\ ExecReturn(t, child[t])
    /\ cur' = [cur EXCEPT ![t] = NULL]
    /\ ret' = [ret EXCEPT ![t] = "user"]
    /\ UNCHANGED <<proc, listVars, status, pid, code, panic>>

Exec(t) ==
    \/ process_table_get(t) \/ thread_create_ptr(t)
    \/ create_failed(t) \/ exec_error(t) \/ set_ptr(t) \/ set_dir(t)
    \/ await_load(t) \/ loaded(t) \/ adopted(t)

-----------------------------------------------------------------------------
\* start_process

\* load opens the program; a relative name is looked up in working_dir.
load(t) ==
    /\ At(t, "load")
    /\ Asserting(setting.relative => proc[pid[t]].working_dir # NoDir, "null working_dir",
                 /\ \/ code' = [code EXCEPT ![t] = 0]
                    \/ setting.load_fails /\ code' = [code EXCEPT ![t] = -1]
                 /\ Goto(t, "set_running")
                 /\ UNCHANGED <<proc, listVars, status, pid, child, cur, ret>>)

set_running(t) ==
    /\ At(t, "set_running")
    /\ proc' = [proc EXCEPT ![pid[t]].running = TRUE]
    /\ Goto(t, "report")
    /\ UNCHANGED <<listVars, status, pid, child, cur, ret, code, panic>>

\* Mutant: loaded is not set.
report_unloaded(t) ==
    /\ At(t, "report")
    /\ WakeParent(pid[t], [proc[pid[t]] EXCEPT !.load_success = (code[t] = 0)],
                  /\ Goto(t, IF code[t] = 0 THEN "user" ELSE "exit")
                  /\ UNCHANGED <<listVars, pid, child, cur, ret, code>>)

\* Tell the parent how the load went; then run the program, or exit.
report(t) ==
    /\ At(t, "report")
    /\ WakeParent(pid[t],
                  [proc[pid[t]] EXCEPT !.load_success = (code[t] = 0), !.loaded = TRUE],
                  /\ Goto(t, IF code[t] = 0 THEN "user" ELSE "exit")
                  /\ UNCHANGED <<listVars, pid, child, cur, ret, code>>)

Start(t) == load(t) \/ set_running(t) \/ report(t)

-----------------------------------------------------------------------------
\* process_wait

\* The test of the child's pid c.
process_wait(t, c) ==
    /\ \/ At(t, "user") /\ pid[t] # INIT_PID
       \/ At(t, "task") /\ c = child[t]
    /\ IF c \in Pids /\ proc[c].valid /\ proc[c].parent_pid = pid[t]
       THEN Goto(t, "await_exit") /\ child' = [child EXCEPT ![t] = c]
       ELSE Return(t, "user", PID_ERROR)
    /\ UNCHANGED <<proc, listVars, status, pid, cur, ret, code, panic>>

\* Mutant: the parent does not sleep.
await_exit_awake(t) ==
    /\ At(t, "await_exit")
    /\ Goto(t, "reap")
    /\ UNCHANGED <<proc, listVars, status, pid, child, cur, ret, code, panic>>

await_exit(t) ==
    LET sleeps == proc[child[t]].running IN
    /\ At(t, "await_exit")
    /\ proc' = IF sleeps THEN [proc EXCEPT ![child[t]].blocked = TRUE] ELSE proc
    /\ status' = [status EXCEPT ![t] = IF sleeps THEN "blocked" ELSE "ready"]
    /\ Goto(t, "reap")
    /\ UNCHANGED <<listVars, pid, child, cur, ret, code, panic>>

\* The value that wait will return is kept in code.
reap(t) ==
    /\ At(t, "reap")
    /\ Asserting(~ proc[child[t]].running, "!process_table[child_id].running",
                 /\ code' = [code EXCEPT ![t] = proc[child[t]].return_code]
                 /\ CallFree(t, child[t], "reaped")
                 /\ UNCHANGED <<proc, listVars, status, pid, child>>)

reaped(t) ==
    /\ At(t, "reaped")
    /\ Return(t, "user", PID_ERROR)
    /\ cur' = [cur EXCEPT ![t] = NULL]
    /\ ret' = [ret EXCEPT ![t] = "user"]
    /\ code' = [code EXCEPT ![t] = 0]
    /\ UNCHANGED <<proc, listVars, status, pid, panic>>

Wait(t) == await_exit(t) \/ reap(t) \/ reaped(t)

-----------------------------------------------------------------------------
\* process_exit

\* The exit system call, or a fault that kills the process.
exit(t) ==
    /\ At(t, "user")
    /\ pid[t] # INIT_PID
    /\ pid[t] \in setting.abandoners \/ list_empty(pid[t])
    /\ \E c \in Codes \cup {-1} : code' = [code EXCEPT ![t] = c]
    /\ Goto(t, "exit")
    /\ UNCHANGED <<proc, listVars, status, pid, child, cur, ret, panic>>

\* Up to the loop over the children.
process_exit(t) ==
    /\ At(t, "exit")
    /\ proc' = [proc EXCEPT ![pid[t]].return_code = code[t]]
    /\ cur' = [cur EXCEPT ![t] = next[head(pid[t])]]
    /\ Goto(t, "walk")
    /\ UNCHANGED <<listVars, status, pid, child, ret, code, panic>>

(***************************************************************************)
(* The head of the loop, and the test of the child at cur.  When cur is    *)
(* the tail of another list there is no child: whatever is read in its     *)
(* place, list_next or process_table_free then fails on the tail.          *)
(***************************************************************************)
walk(t) ==
    /\ At(t, "walk")
    /\ Asserting(cur[t] = tail(pid[t]) \/ cur[t] \in Entries, "walk off the list",
                 /\ IF cur[t] = tail(pid[t]) THEN Goto(t, "leave") /\ UNCHANGED <<cur, ret>>
                    ELSE IF proc[cur[t][2]].running
                    THEN Goto(t, "disown") /\ UNCHANGED <<cur, ret>>
                    ELSE CallFree(t, cur[t][2], "advance")
                 /\ UNCHANGED <<proc, listVars, status, pid, child, code>>)

\* Mutant: the child is not told.
disown_silent(t) ==
    /\ At(t, "disown")
    /\ Goto(t, "advance")
    /\ UNCHANGED <<proc, listVars, status, pid, child, cur, ret, code, panic>>

disown(t) ==
    /\ At(t, "disown")
    /\ proc' = [proc EXCEPT ![cur[t][2]].parent_pid = -1]
    /\ Goto(t, "advance")
    /\ UNCHANGED <<listVars, status, pid, child, cur, ret, code, panic>>

\* Mutant: the loop does not get on to the next child.
advance_never(t) ==
    /\ At(t, "advance")
    /\ Asserting(is_interior(cur[t]), "is_interior(elem)",
                 /\ Goto(t, "walk")
                 /\ UNCHANGED <<proc, listVars, status, pid, child, cur, ret, code>>)

advance(t) ==
    /\ At(t, "advance")
    /\ Asserting(is_interior(cur[t]), "is_interior(elem)",
                 /\ cur' = [cur EXCEPT ![t] = next[cur[t]]]
                 /\ Goto(t, "walk")
                 /\ UNCHANGED <<proc, listVars, status, pid, child, ret, code>>)

\* Mutant: every process frees its own entry.
leave_always_frees(t) ==
    /\ At(t, "leave")
    /\ CallFree(t, pid[t], "wake")
    /\ UNCHANGED <<proc, listVars, status, pid, child, code, panic>>

\* An orphan frees its own entry.
leave(t) ==
    /\ At(t, "leave")
    /\ IF proc[pid[t]].parent_pid = -1
       THEN CallFree(t, pid[t], "wake")
       ELSE Goto(t, "wake") /\ UNCHANGED <<cur, ret>>
    /\ UNCHANGED <<proc, listVars, status, pid, child, code, panic>>

wake(t) ==
    /\ At(t, "wake")
    /\ WakeParent(pid[t], [proc[pid[t]] EXCEPT !.running = FALSE],
                  /\ Goto(t, "die")
                  /\ UNCHANGED <<listVars, pid, child, cur, ret, code>>)

\* Mutant: the thread structure is never freed.
die_not_freed(t) ==
    /\ At(t, "die")
    /\ status' = [status EXCEPT ![t] = "dying"]
    /\ UNCHANGED <<proc, listVars, pid, frameVars, panic>>

\* The end of thread_exit; the thread switch frees the thread structure.
die(t) ==
    /\ At(t, "die")
    /\ status' = [status EXCEPT ![t] = "unborn"]
    /\ pid' = [pid EXCEPT ![t] = INIT_PID]
    /\ cur' = [cur EXCEPT ![t] = NULL]
    /\ ret' = [ret EXCEPT ![t] = "user"]
    /\ code' = [code EXCEPT ![t] = 0]
    /\ Return(t, "user", PID_ERROR)
    /\ UNCHANGED <<proc, listVars, panic>>

Exit(t) ==
    \/ process_exit(t) \/ walk(t) \/ disown(t) \/ advance(t) \/ leave(t) \/ wake(t) \/ die(t)

-----------------------------------------------------------------------------
\* The chdir system call.
chdir(t) ==
    /\ At(t, "user")
    /\ pid[t] # INIT_PID
    /\ \E d \in setting.dirs : /\ d # proc[pid[t]].working_dir
                               /\ proc' = [proc EXCEPT ![pid[t]].working_dir = d]
    /\ UNCHANGED <<listVars, status, pid, frameVars, panic>>

Halted == panic # "none" /\ UNCHANGED vars

\* main has run its last task.
Done ==
    /\ execs[INIT_PID] = 0 /\ pc[InitThread] = "user"
    /\ \A t \in Threads \ {InitThread} : status[t] = "unborn"
    /\ UNCHANGED vars

-----------------------------------------------------------------------------
\* The places of the calls, in the order in which they are defined above.
ListPlaces == {"free", "remove_next", "remove_prev", "insert_elem", "insert_next", "insert_prev"}
ExecPlaces == {"get", "create", "create_failed", "exec_error", "set_ptr", "set_dir",
               "await_load", "loaded", "adopted"}
StartPlaces == {"load", "set_running", "report"}
WaitPlaces == {"await_exit", "reap", "reaped"}
ExitPlaces == {"exit", "walk", "disown", "advance", "leave", "wake", "die"}
Places == {"user", "task"} \cup ListPlaces \cup ExecPlaces \cup StartPlaces
            \cup WaitPlaces \cup ExitPlaces

\* What a process asks of the kernel, and what the kernel then does.
Call(t) ==
    \/ process_execute(t)
    \/ \E c \in Pids \cup {PID_ERROR} : process_wait(t, c)
    \/ exit(t)
    \/ chdir(t)

Work(t) ==
    /\ panic = "none" /\ status[t] = "ready"
    /\ \/ pc[t] \in ListPlaces /\ (ListOperation(t) \/ process_table_free(t))
       \/ pc[t] \in ExecPlaces /\ Exec(t)
       \/ pc[t] \in StartPlaces /\ Start(t)
       \/ pc[t] \in WaitPlaces /\ Wait(t)
       \/ pc[t] \in ExitPlaces /\ Exit(t)

(***************************************************************************)
(* The free list has no lock: process_table_get tests it with interrupts   *)
(* on and pops it later, and process_table_free changes it with interrupts *)
(* on.  raced records that two threads have met there.                     *)
(***************************************************************************)
\* Thread t is at the free list, with interrupts on: between the test and the
\* pop of process_table_get, or in process_table_free.
AtFreeList(t) ==
    /\ status[t] # "unborn"
    /\ \/ pc[t] = "get"
       \/ pc[t] \in ListPlaces /\ Target(t) = FreeList

\* Thread t is about to free an entry that it has popped and put on no list,
\* and the elements between which it was are no longer neighbours.
StaleLinks(t) ==
    LET e == elem(child[t]) IN
    /\ pc[t] = "create_failed"
    /\ next[prev[e]] # next[e] \/ prev[next[e]] # prev[e]

Next ==
    /\ (\E t \in Threads : Call(t) \/ Work(t)) \/ Halted \/ Done
    /\ raced' = \/ raced
                \/ \E t \in Threads : StaleLinks(t)'
                \/ \E t, u \in Threads : t # u /\ AtFreeList(t)' /\ AtFreeList(u)'

Spec == Init /\ [][Next]_<<vars, raced>>

\* The scheduler serves threads of equal priority in turn, so a thread that
\* has work to do in the kernel gets on with it.
FairSpec == Spec /\ \A t \in Threads : WF_vars(Work(t))

-----------------------------------------------------------------------------
\* Every variable has its type; an entry's links and pids are in range.
TypeOK ==
    /\ proc \in [Pids -> [valid : BOOLEAN, parent_pid : Pids \cup {-1}, running : BOOLEAN,
                          loaded : BOOLEAN, load_success : BOOLEAN, blocked : BOOLEAN,
                          return_code : Codes \cup {-1, 0}, thread_ptr : Threads \cup {NoThread},
                          working_dir : Dirs \cup {NoDir}]]
    /\ next \in [Elems -> Elems \cup {NULL}]
    /\ prev \in [Elems -> Elems \cup {NULL}]
    /\ status \in [Threads -> {"unborn", "ready", "blocked"}]
    /\ pid \in [Threads -> Pids]
    /\ pc \in [Threads -> Places]
    /\ child \in [Threads -> Pids \cup {PID_ERROR}]
    /\ cur \in [Threads -> Elems \cup {NULL} \cup {<<"thread", t>> : t \in Threads}]
    /\ ret \in [Threads -> Places]
    /\ code \in [Threads -> Codes \cup {-1, 0}]

Alive(t) == status[t] # "unborn"

\* Thread t still needs its entry: it has not done its last access to it.
Uses(t, p) == Alive(t) /\ pid[t] = p /\ pc[t] # "die"

\* Every program waits for its children before it exits, and no two of them
\* have met at the free list; and every program that is started is found and
\* loaded.
Orderly == setting.abandoners = {} /\ ~ raced
Loading == ~ setting.load_fails

(***************************************************************************)
(* A process table entry belongs to one thread: no entry is handed out by  *)
(* process_table_get while the thread of its last owner still uses it.     *)
(* Two things in the code break this and are set aside by Orderly: an      *)
(* orphan uses its entry after it has freed it, and a free list that two   *)
(* processes have changed at once may hold an entry that is in use.        *)
(***************************************************************************)
OneThreadPerEntry ==
    Orderly => \A p \in Pids : \A t, u \in Threads : Uses(t, p) /\ Uses(u, p) => t = u

(***************************************************************************)
(* A parent that gets past the sleep of process_wait finds that the child  *)
(* has done its last access to the entry, which it is about to free.       *)
(***************************************************************************)
WaitAfterExit ==
    Orderly => \A t \in Threads : Reached(t, "reap") => \A u \in Threads : ~ Uses(u, child[t])

\* The elements met from the head of list l on: after MAX_PROCESSES steps
\* the walk has reached the tail, or it never will.
Walk(l) ==
    LET f[n \in 0..MAX_PROCESSES] ==
          IF n = 0 THEN next[head(l)]
          ELSE LET e == f[n-1] IN IF e \in Entries THEN next[e] ELSE e
    IN f
OnList(l) == LET f == Walk(l) IN {f[n] : n \in 0..MAX_PROCESSES} \cap Entries

\* List l is well formed and has exactly the elements of S.
Holds(l, S) ==
    LET f == Walk(l) IN
    /\ f[MAX_PROCESSES] = tail(l)
    /\ {f[n] : n \in 0..MAX_PROCESSES} = S \cup {tail(l)}
    /\ \A e \in S \cup {head(l)} : prev[next[e]] = e

(***************************************************************************)
(* The two kinds of list are exact.  While no thread is in the middle of   *)
(* freeing an entry, the free list is well formed and holds the entries    *)
(* that are not valid.  The children of a process that runs its program    *)
(* are the entries that name it as their parent, so that process_wait,     *)
(* which goes by parent_pid, and process_exit, which goes by the list,     *)
(* agree (but for a child that could not be loaded).                       *)
(*                                                                         *)
(* Several processes take, adopt, reap and free entries here, and the      *)
(* lists survive every order of their steps but two, which the code does   *)
(* not exclude and raced records: two threads at the free list at once     *)
(* lose an entry or leave its links wrong; and process_execute, when there *)
(* is no thread, frees an entry that is on no list, so that list_remove    *)
(* links the two elements that were once its neighbours, wherever they are *)
(* by then.  Orphans that free themselves are the third cause (Orderly).   *)
(***************************************************************************)
ListsSound ==
    /\ Orderly /\ (\A t \in Threads : Alive(t) /\ pc[t] \in ListPlaces => Target(t) # FreeList) =>
         Holds(FreeList, {elem(p) : p \in {q \in Pids : ~ proc[q].valid}})
    /\ Loading /\ ~ raced => \A t \in Threads : Alive(t) /\ pc[t] \in {"user", "task"} =>
         Holds(pid[t],
               {elem(p) : p \in {q \in Pids : proc[q].valid /\ proc[q].parent_pid = pid[t]}})

(***************************************************************************)
(* Every entry that is taken is in use, or it can be freed: the process    *)
(* that is named as its parent has it in a call, or on its list.  (After a *)
(* failed load, and in the list of a dead process, it is lost.)            *)
(***************************************************************************)
NoEntryLost ==
    Orderly /\ Loading => \A p \in Pids : proc[p].valid =>
      \/ \E t \in Threads : Uses(t, p)
      \/ \E t \in Threads :
           /\ Alive(t)
           /\ pid[t] = proc[p].parent_pid
           /\ child[t] = p \/ cur[t] = elem(p) \/ elem(p) \in OnList(pid[t])

(***************************************************************************)
(* No running process names as its parent a process that is gone, whose    *)
(* pid may by then be another's: process_exit has set parent_pid to -1 in  *)
(* each child that was left running, and was on its list.  (Of lists that  *)
(* raced threads have spoiled it says nothing.)                            *)
(***************************************************************************)
NoStaleParent ==
    Loading /\ ~ raced => \A p \in Pids : proc[p].running /\ proc[p].parent_pid \in Pids =>
      \E t \in Threads : Uses(t, proc[p].parent_pid)

\* Thread t is about to store a field of the child that it has made ready.
StoresLate(t, places) ==
    Alive(t) /\ pc[t] \in places /\ \E u \in Threads : u # t /\ Alive(u) /\ pid[u] = child[t]

(***************************************************************************)
(* While programs wait for their children and no two have met at the free  *)
(* list, no ASSERT of process.c, list.c or thread.c fails (the pops,       *)
(* removals and walks of the lists, the sleeps of exec and wait, valid in  *)
(* process_table_get and _free), except through the two fields that exec   *)
(* stores too late, when the child may already run: thread_unblock finds   *)
(* no sleeping parent if the child has slept before its thread_ptr is      *)
(* stored, and a relative path is looked up in no directory if working_dir *)
(* is not stored yet.  Each fails only while exec still has that store to  *)
(* do.  After two have met at the free list, the pop of process_table_get  *)
(* may fail too, when both had found the last entry on the list, or one    *)
(* finds it half inserted; nothing else does.                              *)
(***************************************************************************)
AssertionsHold ==
    setting.abandoners = {} =>
      \/ panic = "none"
      \/ /\ panic = "is_thread(t) && t->status == THREAD_BLOCKED"
         /\ \E t \in Threads : StoresLate(t, {"set_ptr"})
      \/ /\ panic = "null working_dir" /\ setting.relative
         /\ \E t \in Threads : StoresLate(t, {"set_ptr", "set_dir"})
      \/ panic = "!list_empty(list) && !p->valid" /\ raced

(***************************************************************************)
(* No wake-up is lost: exec, and a wait for a child that exits, return to  *)
(* the program.  Neither the sleep until the child is loaded or gone nor   *)
(* the work on the lists goes on for ever.                                 *)
(***************************************************************************)
CallsReturn ==
    \A t \in Threads :
      (\/ pc[t] = "get"
       \/ pc[t] = "reap" /\ \E u \in Threads : Uses(u, child[t]) /\ pc[u] = "exit")
        ~> (pc[t] \in {"user", "task"} \/ panic # "none")

-----------------------------------------------------------------------------
\* What an assertion says, and the code does not keep.

(***************************************************************************)
(* list_next (list.c: ASSERT(is_head(elem) || is_interior(elem))): the     *)
(* loop of process_exit over the children stays on the list of the         *)
(* children.                                                               *)
(***************************************************************************)
WalkAssertion == panic # "walk off the list"

=============================================================================
