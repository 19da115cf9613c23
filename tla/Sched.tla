------------------------------- MODULE Sched -------------------------------
(***************************************************************************)
(* The scheduler of threads/thread.c: the ready list, the switch to the    *)
(* next thread, and thread_waiting, the flag by which thread_unblock asks  *)
(* the next intr_enable for a thread switch.                               *)
(*                                                                         *)
(* The machine has one CPU.  Code that runs with interrupts off is one     *)
(* step; code that runs with interrupts on can lose the CPU between any    *)
(* two steps, because a timer tick may end the time slice there.           *)
(*                                                                         *)
(* This module holds the scheduler's state and the functions that change   *)
(* it; Synch.tla adds the synchronisation primitives and the threads.      *)
(***************************************************************************)
EXTENDS Integers, Sequences

CONSTANTS
    Threads,     \* every thread but the idle thread
    Idle,        \* idle_thread
    PRI_MAX,     \* priorities are PRI_MIN..PRI_MAX, and PRI_MIN is 0
    TIME_SLICE   \* timer ticks a thread runs before it must yield

ASSUME IdleAssumption == Idle \notin Threads
ASSUME PriorityAssumption == PRI_MAX \in Nat
ASSUME TimeSliceAssumption == TIME_SLICE \in Nat \ {0}

VARIABLES
    status,          \* thread -> UNBORN, READY, RUNNING, BLOCKED or DYING
    priority,        \* thread -> priority in force, donations included
    current,         \* thread_current()
    ready_list,      \* the run queue, oldest first
    thread_waiting,  \* a thread of higher priority was made ready
    thread_ticks     \* ticks since the last thread switch

schedVars == <<status, priority, current, ready_list, thread_waiting, thread_ticks>>

PRI_MIN == 0
Priorities == PRI_MIN..PRI_MAX

Statuses == {"UNBORN", "READY", "RUNNING", "BLOCKED", "DYING"}

\* The priority of the running thread: the idle thread runs at PRI_MIN.
thread_get_priority == IF current = Idle THEN PRI_MIN ELSE priority[current]

\* list_remove: the list without the element at position i; and what is in a list.
list_remove(list, i) == SubSeq(list, 1, i-1) \o SubSeq(list, i+1, Len(list))
Elements(list) == {list[i] : i \in DOMAIN list}

(***************************************************************************)
(* list_highest_priority: position i of list holds the first of the        *)
(* threads of highest priority.                                            *)
(***************************************************************************)
IsHighest(list, pri, i) ==
    /\ \A j \in DOMAIN list : pri[list[j]] <= pri[list[i]]
    /\ \A j \in 1..(i-1) : pri[list[j]] < pri[list[i]]

(***************************************************************************)
(* schedule, next_thread_to_run and thread_schedule_tail: the CPU goes to  *)
(* the highest thread of the ready list rq, or to the idle thread; the new *)
(* thread starts a fresh time slice.  st is the status of every thread     *)
(* once the thread that gives up the CPU has left the RUNNING state.       *)
(***************************************************************************)
schedule(rq, st, pri) ==
    /\ thread_ticks' = 0
    /\ \/ /\ rq = <<>>
          /\ current' = Idle
          /\ ready_list' = rq
          /\ status' = st
       \/ \E i \in DOMAIN rq :
             /\ IsHighest(rq, pri, i)
             /\ current' = rq[i]
             /\ ready_list' = list_remove(rq, i)
             /\ status' = [st EXCEPT ![rq[i]] = "RUNNING"]

\* thread_block, by the thread t that is running.
thread_block(t) == schedule(ready_list, [status EXCEPT ![t] = "BLOCKED"], priority)

(***************************************************************************)
(* thread_yield: the running thread goes to the end of the ready list,     *)
(* unless it is the idle thread.  rq and st are the ready list and the     *)
(* statuses just before, pri the priorities by which the next thread is    *)
(* chosen.                                                                 *)
(***************************************************************************)
thread_yield(rq, st, pri) ==
    IF current = Idle
    THEN schedule(rq, st, pri)
    ELSE schedule(Append(rq, current), [st EXCEPT ![current] = "READY"], pri)

(***************************************************************************)
(* thread_unblock: t becomes ready; thread_waiting records that the        *)
(* running thread should be preempted at the next intr_enable.             *)
(***************************************************************************)
thread_unblock(t) ==
    /\ ready_list' = Append(ready_list, t)
    /\ status' = [status EXCEPT ![t] = "READY"]
    /\ thread_waiting' = (thread_waiting \/ priority[t] > thread_get_priority)
    /\ UNCHANGED <<priority, current, thread_ticks>>

=============================================================================
