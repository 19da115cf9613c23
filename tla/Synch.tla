------------------------------- MODULE Synch -------------------------------
(***************************************************************************)
(* The synchronisation primitives of threads/synch.c (semaphores, locks    *)
(* with priority donation, condition variables), timer_sleep, and the      *)
(* thread operations of threads/thread.c, running on the scheduler of      *)
(* Sched.tla and interrupted by the timer.                                 *)
(*                                                                         *)
(* pc[t] is the place thread t has reached:                                *)
(*   run      in its own code, between two calls                           *)
(*   acq      at the start of lock_acquire, called from cond_wait          *)
(*   donate   in lock_acquire, having found a holder of lower priority     *)
(*   chain    in the loop of thread_donate_priority                        *)
(*   down     about to turn interrupts off in sema_down                    *)
(*   retry    in sema_down with interrupts off, back from thread_block     *)
(*   hold     in lock_acquire or lock_try_acquire, semaphore taken         *)
(*   relhold  in lock_release, priority restored, holder not yet cleared   *)
(*   up       about to turn interrupts off in sema_up                      *)
(*   bcast    at the loop test of cond_broadcast                           *)
(*   sleep    in timer_sleep, the start time read                          *)
(*   enable   in intr_enable, the interrupt flag set; then on to ret[t]    *)
(***************************************************************************)
EXTENDS Sched, FiniteSets

CONSTANTS
    Main,       \* initial_thread
    InitPri,    \* thread -> the priority it is created with
    Locks,
    LockRank,   \* lock -> rank; a thread waits only for locks of no lower rank
                \* than those it holds (the callers' lock order)
    Semas,      \* semaphores used by themselves
    SemaValue,  \* semaphore of Semas -> its initial value
    NoThread, NoLock, NoSema,   \* null pointers
    Ops,        \* the calls the threads of this instance make
    MaxCalls,   \* how many such calls they make in all
    MaxSleep    \* longest timer_sleep

ASSUME MainAssumption == Main \in Threads
ASSUME InitPriAssumption == InitPri \in [Threads -> Priorities]
ASSUME LockRankAssumption == LockRank \in [Locks -> Nat]
ASSUME SemaAssumption == SemaValue \in [Semas -> Nat]
ASSUME NullAssumption ==
    /\ NoThread \notin Threads
    /\ NoLock \notin Locks
    /\ NoSema \notin Locks \cup Semas \cup Threads
ASSUME DistinctAssumption ==
    /\ Locks \cap Semas = {}
    /\ Locks \cap Threads = {}
    /\ Semas \cap Threads = {}
ASSUME BoundAssumption == MaxCalls \in Nat /\ MaxSleep \in Nat

(***************************************************************************)
(* A lock contains a semaphore; cond_wait puts one, here named after the   *)
(* waiting thread, on the stack.                                           *)
(***************************************************************************)
Sems == Locks \cup Semas \cup Threads

VARIABLES
    pc, ret,        \* where each thread is, and where intr_enable returns to
    lk, sem,        \* the lock and the semaphore it operates on
    curr, next,     \* the locals curr and next_lock of thread_donate_priority
    orig_priority,  \* thread -> priority without donations
    lock_needed,    \* thread -> lock it last donated for
    donations,      \* thread -> the threads on its priority_donations list
    holder,         \* lock -> thread
    value,          \* semaphore -> its value
    waiters,        \* semaphore -> the threads on its list, oldest first
    cond_waiters,   \* lock -> waiters on the condition used with that lock
    sleeping_list,  \* threads in timer_sleep, oldest first
    sleep_left,     \* thread -> wake_time - ticks, never below 0
    calls,          \* calls the threads may still make
    panic           \* "none", or why the kernel stopped

frameVars == <<pc, ret, lk, sem>>
walkVars == <<curr, next>>
donationVars == <<orig_priority, lock_needed, donations>>
syncVars == <<holder, value, waiters, cond_waiters>>
sleepVars == <<sleeping_list, sleep_left>>
vars == <<schedVars, frameVars, walkVars, donationVars, syncVars, sleepVars, calls, panic>>

PCs == {"run", "acq", "donate", "chain", "down", "retry", "hold", "relhold",
        "up", "bcast", "sleep", "enable"}

Init ==
    /\ status = [t \in Threads |-> IF t = Main THEN "RUNNING" ELSE "UNBORN"]
    /\ priority = InitPri
    /\ current = Main
    /\ ready_list = <<>>
    /\ thread_waiting = FALSE
    /\ thread_ticks = 0
    /\ pc = [t \in Threads |-> "run"]
    /\ ret = [t \in Threads |-> "run"]
    /\ lk = [t \in Threads |-> NoLock]
    /\ sem = [t \in Threads |-> NoSema]
    /\ curr = [t \in Threads |-> NoThread]
    /\ next = [t \in Threads |-> NoLock]
    /\ orig_priority = InitPri
    /\ lock_needed = [t \in Threads |-> NoLock]
    /\ donations = [t \in Threads |-> {}]
    /\ holder = [l \in Locks |-> NoThread]
    /\ value = [s \in Sems |-> IF s \in Locks THEN 1
                               ELSE IF s \in Semas THEN SemaValue[s] ELSE 0]
    /\ waiters = [s \in Sems |-> <<>>]
    /\ cond_waiters = [l \in Locks |-> <<>>]
    /\ sleeping_list = <<>>
    /\ sleep_left = [t \in Threads |-> 0]
    /\ calls = MaxCalls
    /\ panic = "none"

-----------------------------------------------------------------------------
\* How a step moves thread t through its code.

At(t, place) == panic = "none" /\ current = t /\ pc[t] = place

Goto(t, place) == pc' = [pc EXCEPT ![t] = place]

\* Back in the thread's own code: the locals of the call are gone.
Return(t) ==
    /\ Goto(t, "run")
    /\ ret' = [ret EXCEPT ![t] = "run"]
    /\ lk' = [lk EXCEPT ![t] = NoLock]
    /\ sem' = [sem EXCEPT ![t] = NoSema]

\* The thread makes a call named op.
Call(t, op) ==
    /\ At(t, "run")
    /\ op \in Ops
    /\ calls > 0
    /\ calls' = calls - 1

\* PANIC, a failed ASSERT or a fault in the kernel: nothing runs any more.
Panic(why) ==
    /\ panic' = why
    /\ UNCHANGED <<schedVars, frameVars, walkVars, donationVars, syncVars, sleepVars>>

-----------------------------------------------------------------------------
\* lock_acquire

\* Mutant: the test never finds a holder to donate to.
AcquireCheck_no_donation(t, l) ==
    /\ lk' = [lk EXCEPT ![t] = l]
    /\ sem' = [sem EXCEPT ![t] = l]
    /\ Goto(t, "down")
    /\ UNCHANGED <<schedVars, ret, walkVars, donationVars, syncVars, sleepVars, panic>>

(***************************************************************************)
(* The test for a holder of lower priority.  The kernel is compiled with   *)
(* -O, and no call lies between the test of lock->holder and the use of    *)
(* lock->holder->priority: one load serves both.  The holder is read again *)
(* when the donation is made, after the call of thread_get_priority.       *)
(***************************************************************************)
AcquireCheck(t, l) ==
    /\ lk' = [lk EXCEPT ![t] = l]
    /\ sem' = [sem EXCEPT ![t] = l]
    /\ Goto(t, IF /\ holder[l] # NoThread
                  /\ priority[holder[l]] < priority[t]
               THEN "donate" ELSE "down")
    /\ UNCHANGED <<schedVars, ret, walkVars, donationVars, syncVars, sleepVars, panic>>

lock_acquire(t, l) ==
    /\ Call(t, "lock")
    /\ holder[l] # t
    /\ \A k \in Locks : holder[k] = t => LockRank[k] <= LockRank[l]
    /\ AcquireCheck(t, l)

\* The lock_acquire at the end of cond_wait.
cond_reacquire(t) ==
    /\ At(t, "acq")
    /\ AcquireCheck(t, lk[t])
    /\ UNCHANGED calls

(***************************************************************************)
(* thread_donate_priority up to its loop.  A thread has one priority_elem: *)
(* pushing it while it is still on a list breaks both lists.               *)
(***************************************************************************)
thread_donate_priority(t) ==
    LET donate_to == holder[lk[t]] IN
    /\ At(t, "donate")
    /\ UNCHANGED calls
    /\ IF donate_to = NoThread THEN Panic("null holder")
       ELSE IF \E u \in Threads : t \in donations[u] THEN Panic("element on two lists")
       ELSE /\ donations' = [donations EXCEPT ![donate_to] = @ \cup {t}]
            /\ priority' = [priority EXCEPT ![donate_to] = priority[t]]
            /\ curr' = [curr EXCEPT ![t] = donate_to]
            /\ next' = [next EXCEPT ![t] = lock_needed[donate_to]]
            /\ Goto(t, "chain")
            /\ UNCHANGED <<status, current, ready_list, thread_waiting, thread_ticks, ret, lk,
                           sem, orig_priority, lock_needed, syncVars, sleepVars, panic>>

(***************************************************************************)
(* One iteration of its loop; when the chain ends, lock_acquire records    *)
(* the lock.  curr may have exited, and its page been freed, meanwhile.    *)
(* lock_needed is never reset, so a holder may still name the lock it has: *)
(* the loop then goes round on that one lock, here a stuttering step, for  *)
(* as long as the holder keeps it.  The holder has the priority of the     *)
(* thread that loops, and gets on when the time slice ends.                *)
(***************************************************************************)
donate_chain(t) ==
    LET to == holder[next[t]] IN
    /\ At(t, "chain")
    /\ UNCHANGED calls
    /\ IF next[t] = NoLock
       THEN /\ lock_needed' = [lock_needed EXCEPT ![t] = lk[t]]
            /\ curr' = [curr EXCEPT ![t] = NoThread]
            /\ Goto(t, "down")
            /\ UNCHANGED <<schedVars, ret, lk, sem, next, orig_priority, donations, syncVars,
                           sleepVars, panic>>
       ELSE IF to = NoThread THEN Panic("next_lock->holder != NULL")
       ELSE IF status[curr[t]] = "DYING" THEN Panic("freed thread")
       ELSE /\ priority' = [priority EXCEPT ![to] = priority[curr[t]]]
            /\ curr' = [curr EXCEPT ![t] = to]
            /\ next' = [next EXCEPT ![t] = lock_needed[to]]
            /\ UNCHANGED <<status, current, ready_list, thread_waiting, thread_ticks, frameVars,
                           donationVars, syncVars, sleepVars, panic>>

\* The semaphore is taken: lock->holder = thread_current().
set_holder(t) ==
    /\ At(t, "hold")
    /\ holder' = [holder EXCEPT ![lk[t]] = t]
    /\ Return(t)
    /\ UNCHANGED <<schedVars, walkVars, donationVars, value, waiters, cond_waiters, sleepVars,
                   calls, panic>>

-----------------------------------------------------------------------------
\* Semaphores

(***************************************************************************)
(* sema_down with interrupts off: wait, or take one.  Taking a lock's      *)
(* semaphore goes on in lock_acquire, the semaphore of cond_wait goes on   *)
(* to reacquire the lock.                                                  *)
(***************************************************************************)
sema_down(t) ==
    LET s == sem[t] IN
    /\ At(t, "down") \/ At(t, "retry")
    /\ IF value[s] = 0
       THEN /\ waiters' = [waiters EXCEPT ![s] = Append(@, t)]
            /\ Goto(t, "retry")
            /\ thread_block(t)
            /\ UNCHANGED <<priority, thread_waiting, ret, value>>
       ELSE /\ value' = [value EXCEPT ![s] = @ - 1]
            /\ Goto(t, "enable")
            /\ ret' = [ret EXCEPT ![t] = IF s \in Locks THEN "hold"
                                         ELSE IF s \in Threads THEN "acq" ELSE "run"]
            /\ UNCHANGED <<schedVars, waiters>>
    /\ UNCHANGED <<lk, sem, walkVars, donationVars, holder, cond_waiters, sleepVars, calls, panic>>

\* A thread's own sema_down(s).
call_sema_down(t, s) ==
    /\ Call(t, "sema")
    /\ sem' = [sem EXCEPT ![t] = s]
    /\ Goto(t, "down")
    /\ UNCHANGED <<schedVars, ret, lk, walkVars, donationVars, syncVars, sleepVars, panic>>

\* Mutant: no test of the value.
sema_try_down_untested(t, s) ==
    /\ value' = [value EXCEPT ![s] = @ - 1]
    /\ Goto(t, "enable")
    /\ UNCHANGED <<schedVars, walkVars, donationVars, holder, waiters, cond_waiters, sleepVars, panic>>

\* sema_try_down, alone or in lock_try_acquire.
sema_try_down(t, s) ==
    /\ value' = [value EXCEPT ![s] = IF @ > 0 THEN @ - 1 ELSE @]
    /\ Goto(t, "enable")
    /\ UNCHANGED <<schedVars, walkVars, donationVars, holder, waiters, cond_waiters, sleepVars, panic>>

call_sema_try_down(t, s) ==
    /\ Call(t, "sema")
    /\ sema_try_down(t, s)
    /\ UNCHANGED <<ret, lk, sem>>

lock_try_acquire(t, l) ==
    /\ Call(t, "try")
    /\ holder[l] # t
    /\ sema_try_down(t, l)
    /\ lk' = [lk EXCEPT ![t] = l]
    /\ ret' = [ret EXCEPT ![t] = IF value[l] > 0 THEN "hold" ELSE "run"]
    /\ UNCHANGED sem

\* Mutant: wakes a waiter only if it outranks the running thread.
sema_up_outranked(t) ==
    LET s == sem[t] IN
    /\ At(t, "up")
    /\ value' = [value EXCEPT ![s] = @ + 1]
    /\ Goto(t, "enable")
    /\ \/ /\ waiters[s] = <<>>
          /\ UNCHANGED <<schedVars, waiters>>
       \/ /\ \A i \in DOMAIN waiters[s] : priority[waiters[s][i]] <= priority[t]
          /\ UNCHANGED <<schedVars, waiters>>
       \/ \E i \in DOMAIN waiters[s] :
             /\ IsHighest(waiters[s], priority, i)
             /\ priority[waiters[s][i]] > priority[t]
             /\ waiters' = [waiters EXCEPT ![s] = list_remove(@, i)]
             /\ thread_unblock(waiters[s][i])
    /\ UNCHANGED <<ret, lk, sem, walkVars, donationVars, holder, cond_waiters, sleepVars, calls, panic>>

\* sema_up with interrupts off: wake the highest waiter, if any, and count.
sema_up(t) ==
    LET s == sem[t] IN
    /\ At(t, "up")
    /\ value' = [value EXCEPT ![s] = @ + 1]
    /\ Goto(t, "enable")
    /\ \/ /\ waiters[s] = <<>>
          /\ UNCHANGED <<schedVars, waiters>>
       \/ \E i \in DOMAIN waiters[s] :
             /\ IsHighest(waiters[s], priority, i)
             /\ waiters' = [waiters EXCEPT ![s] = list_remove(@, i)]
             /\ thread_unblock(waiters[s][i])
    /\ UNCHANGED <<ret, lk, sem, walkVars, donationVars, holder, cond_waiters, sleepVars, calls, panic>>

call_sema_up(t, s) ==
    /\ Call(t, "sema")
    /\ sem' = [sem EXCEPT ![t] = s]
    /\ Goto(t, "up")
    /\ UNCHANGED <<schedVars, ret, lk, walkVars, donationVars, syncVars, sleepVars, panic>>

-----------------------------------------------------------------------------
\* lock_release

(***************************************************************************)
(* t gets back its own priority, or the highest one still donated to it,   *)
(* and forgets the donors that wait for l.  The walk reads every donor: one*)
(* that has exited is freed memory.                                        *)
(***************************************************************************)
RestorePriority(t, l) ==
    LET kept == {d \in donations[t] : lock_needed[d] # l}
        offered == {orig_priority[t]} \cup {priority[d] : d \in kept}
    IN  /\ donations' = [donations EXCEPT ![t] = kept]
        /\ \E p \in offered :
              /\ \A q \in offered : q <= p
              /\ priority' = [priority EXCEPT ![t] = p]

(***************************************************************************)
(* lock_release until the holder is cleared.  cw is the condition's list   *)
(* as the caller leaves it, after the place lock_release returns to.       *)
(***************************************************************************)
ReleaseStart(t, l, cw, after) ==
    IF \E d \in donations[t] : status[d] = "DYING" THEN Panic("freed thread")
    ELSE /\ RestorePriority(t, l)
         /\ lk' = [lk EXCEPT ![t] = l]
         /\ ret' = [ret EXCEPT ![t] = after]
         /\ cond_waiters' = cw
         /\ Goto(t, "relhold")
         /\ UNCHANGED <<status, current, ready_list, thread_waiting, thread_ticks, sem, walkVars,
                        orig_priority, lock_needed, holder, value, waiters, sleepVars, panic>>

lock_release(t, l) ==
    /\ At(t, "run")
    /\ holder[l] = t
    /\ ReleaseStart(t, l, cond_waiters, "run")
    /\ UNCHANGED calls

\* Mutant: the holder is left in place.
clear_holder_forgotten(t) ==
    /\ At(t, "relhold")
    /\ sem' = [sem EXCEPT ![t] = lk[t]]
    /\ Goto(t, "up")
    /\ UNCHANGED <<schedVars, ret, lk, walkVars, donationVars, syncVars, sleepVars, calls, panic>>

\* lock->holder = NULL; sema_up is next.
clear_holder(t) ==
    /\ At(t, "relhold")
    /\ holder' = [holder EXCEPT ![lk[t]] = NoThread]
    /\ sem' = [sem EXCEPT ![t] = lk[t]]
    /\ Goto(t, "up")
    /\ UNCHANGED <<schedVars, ret, lk, walkVars, donationVars, value, waiters, cond_waiters,
                   sleepVars, calls, panic>>

-----------------------------------------------------------------------------
\* Condition variables

\* cond_wait: queue this thread's semaphore, release l; sema_down follows.
cond_wait(t, l) ==
    /\ Call(t, "cond")
    /\ holder[l] = t
    /\ ReleaseStart(t, l, [cond_waiters EXCEPT ![l] = Append(@, t)], "down")

(***************************************************************************)
(* Position i of cond_waiters[l] is the first one whose semaphore has a    *)
(* waiter of the highest priority.  A thread that is between the release   *)
(* and the sema_down of cond_wait has no waiter on its semaphore.          *)
(***************************************************************************)
IsNextSignaled(l, i) ==
    LET cw == cond_waiters[l]
        down == {j \in DOMAIN cw : waiters[cw[j]] # <<>>}
    IN  /\ i \in down
        /\ \A j \in down : \/ priority[cw[j]] < priority[cw[i]]
                           \/ priority[cw[j]] = priority[cw[i]] /\ i <= j

\* cond_signal on a nonempty list, up to its sema_up; then on to after.
SignalNext(t, l, after) ==
    \/ /\ \A i \in DOMAIN cond_waiters[l] : ~ IsNextSignaled(l, i)
       /\ Panic("next != NULL")
    \/ \E i \in DOMAIN cond_waiters[l] :
          /\ IsNextSignaled(l, i)
          /\ cond_waiters' = [cond_waiters EXCEPT ![l] = list_remove(@, i)]
          /\ lk' = [lk EXCEPT ![t] = l]
          /\ sem' = [sem EXCEPT ![t] = cond_waiters[l][i]]
          /\ ret' = [ret EXCEPT ![t] = after]
          /\ Goto(t, "up")
          /\ UNCHANGED <<schedVars, walkVars, donationVars, holder, value, waiters, sleepVars, panic>>

cond_signal(t, l) ==
    /\ Call(t, "cond")
    /\ holder[l] = t
    /\ cond_waiters[l] # <<>>
    /\ SignalNext(t, l, "run")

call_cond_broadcast(t, l) ==
    /\ Call(t, "cond")
    /\ holder[l] = t
    /\ lk' = [lk EXCEPT ![t] = l]
    /\ Goto(t, "bcast")
    /\ UNCHANGED <<schedVars, ret, sem, walkVars, donationVars, syncVars, sleepVars, panic>>

\* One iteration of cond_broadcast.
cond_broadcast(t) ==
    /\ At(t, "bcast")
    /\ UNCHANGED calls
    /\ IF cond_waiters[lk[t]] = <<>>
       THEN /\ Return(t)
            /\ UNCHANGED <<schedVars, walkVars, donationVars, syncVars, sleepVars, panic>>
       ELSE SignalNext(t, lk[t], "bcast")

-----------------------------------------------------------------------------
\* Interrupts and the timer

\* Mutant: thread_waiting is cleared without a yield.
intr_enable_no_yield(t) ==
    /\ At(t, "enable")
    /\ IF ret[t] = "run" THEN Return(t)
       ELSE /\ Goto(t, ret[t])
            /\ sem' = [sem EXCEPT ![t] = IF ret[t] = "down" THEN t ELSE @]
            /\ UNCHANGED <<ret, lk>>
    /\ thread_waiting' = FALSE
    /\ UNCHANGED <<status, priority, current, ready_list, thread_ticks, walkVars, donationVars, syncVars,
                   sleepVars, calls, panic>>

(***************************************************************************)
(* intr_enable: with interrupts on again, yield if thread_waiting asks for *)
(* it (and, when the CPU comes back, look again).                          *)
(***************************************************************************)
intr_enable(t) ==
    /\ At(t, "enable")
    /\ IF thread_waiting
       THEN /\ thread_waiting' = FALSE
            /\ thread_yield(ready_list, status, priority)
            /\ UNCHANGED <<priority, frameVars>>
       ELSE /\ IF ret[t] = "run" THEN Return(t)
               ELSE /\ Goto(t, ret[t])
                    /\ sem' = [sem EXCEPT ![t] = IF ret[t] = "down" THEN t ELSE @]
                    /\ UNCHANGED <<ret, lk>>
            /\ UNCHANGED schedVars
    /\ UNCHANGED <<walkVars, donationVars, syncVars, sleepVars, calls, panic>>

\* timer_sleep(n): the start time is read; interrupts are on again after it.
timer_sleep(t, n) ==
    /\ Call(t, "sleep")
    /\ sleep_left' = [sleep_left EXCEPT ![t] = n]
    /\ ret' = [ret EXCEPT ![t] = "sleep"]
    /\ Goto(t, "enable")
    /\ UNCHANGED <<schedVars, lk, sem, walkVars, donationVars, syncVars, sleeping_list, panic>>

\* The rest of timer_sleep: thread_sleep and thread_block.
thread_sleep(t) ==
    /\ At(t, "sleep")
    /\ sleeping_list' = Append(sleeping_list, t)
    /\ thread_block(t)
    /\ ret' = [ret EXCEPT ![t] = "run"]
    /\ Goto(t, "enable")
    /\ UNCHANGED <<priority, thread_waiting, lk, sem, walkVars, donationVars, syncVars, sleep_left,
                   calls, panic>>

(***************************************************************************)
(* wake_sleeping_threads, after ticks++: the threads whose wake_time has   *)
(* come leave the sleeping list, in its order, for the ready list.         *)
(***************************************************************************)
LeftAfterTick == [t \in Threads |-> IF sleep_left[t] > 0 THEN sleep_left[t] - 1 ELSE 0]

Woken ==
    LET Due(t) == LeftAfterTick[t] = 0 IN SelectSeq(sleeping_list, Due)

\* Mutant: woken threads are not taken off the list.
StillAsleep_all == sleeping_list

StillAsleep ==
    LET Early(t) == LeftAfterTick[t] > 0 IN SelectSeq(sleeping_list, Early)

(***************************************************************************)
(* The timer interrupt, while interrupts are on: timer_interrupt,          *)
(* thread_tick and the yield on return of intr_handler.  A woken thread    *)
(* that outranks the running one sets thread_waiting; nothing tests the    *)
(* flag on the way out of the interrupt.                                   *)
(***************************************************************************)
timer_interrupt ==
    LET rq == ready_list \o Woken
        st == [t \in Threads |-> IF t \in Elements(Woken) THEN "READY" ELSE status[t]]
    IN  /\ panic = "none"
        /\ "tick" \in Ops
        /\ current # Idle => pc[current] # "retry"
        /\ sleep_left' = LeftAfterTick
        /\ sleeping_list' = StillAsleep
        /\ thread_waiting' = (thread_waiting \/ \E t \in Elements(Woken) : priority[t] > thread_get_priority)
        /\ IF thread_ticks + 1 >= TIME_SLICE
           THEN thread_yield(rq, st, priority)
           ELSE /\ thread_ticks' = thread_ticks + 1
                /\ ready_list' = rq
                /\ status' = st
                /\ UNCHANGED current
        /\ UNCHANGED <<priority, frameVars, walkVars, donationVars, syncVars, calls, panic>>

\* idle: give the CPU to a thread that became ready.
idle ==
    /\ panic = "none"
    /\ current = Idle
    /\ schedule(ready_list, status, priority)
    /\ UNCHANGED <<priority, thread_waiting, frameVars, walkVars, donationVars, syncVars, sleepVars,
                   calls, panic>>

-----------------------------------------------------------------------------
\* Threads

\* thread_create: u starts in kernel_thread, which enables interrupts.
thread_create(t, u) ==
    /\ At(t, "run")
    /\ status[u] = "UNBORN"
    /\ thread_unblock(u)
    /\ pc' = [pc EXCEPT ![t] = "enable", ![u] = "enable"]
    /\ UNCHANGED <<ret, lk, sem, walkVars, donationVars, syncVars, sleepVars, calls, panic>>

\* thread_set_priority: never lowballs a donation; always yields.
thread_set_priority(t, p) ==
    LET pri == [priority EXCEPT ![t] = IF donations[t] = {} \/ p > @ THEN p ELSE @]
    IN  /\ Call(t, "setpri")
        /\ orig_priority' = [orig_priority EXCEPT ![t] = p]
        /\ priority' = pri
        /\ thread_yield(ready_list, status, pri)
        /\ Goto(t, "enable")
        /\ UNCHANGED <<thread_waiting, ret, lk, sem, walkVars, lock_needed, donations, syncVars,
                       sleepVars, panic>>

\* thread_exit, by a thread that holds no lock.
thread_exit(t) ==
    /\ At(t, "run")
    /\ \A l \in Locks : holder[l] # t
    /\ schedule(ready_list, [status EXCEPT ![t] = "DYING"], priority)
    /\ UNCHANGED <<priority, thread_waiting, frameVars, walkVars, donationVars, syncVars, sleepVars,
                   calls, panic>>

\* A panicked kernel stays where it is.
Halted ==
    /\ panic # "none"
    /\ UNCHANGED vars

ThreadStep(t) ==
    \/ \E l \in Locks :
          \/ lock_acquire(t, l)
          \/ lock_try_acquire(t, l)
          \/ lock_release(t, l)
          \/ cond_wait(t, l)
          \/ cond_signal(t, l)
          \/ call_cond_broadcast(t, l)
    \/ \E s \in Semas :
          \/ call_sema_down(t, s)
          \/ call_sema_try_down(t, s)
          \/ call_sema_up(t, s)
    \/ cond_reacquire(t)
    \/ thread_donate_priority(t)
    \/ donate_chain(t)
    \/ set_holder(t)
    \/ sema_down(t)
    \/ sema_up(t)
    \/ clear_holder(t)
    \/ cond_broadcast(t)
    \/ intr_enable(t)
    \/ \E n \in 0..MaxSleep : timer_sleep(t, n)
    \/ thread_sleep(t)
    \/ \E u \in Threads : thread_create(t, u)
    \/ \E p \in Priorities : thread_set_priority(t, p)
    \/ thread_exit(t)

Next ==
    \/ \E t \in Threads : ThreadStep(t)
    \/ timer_interrupt
    \/ idle
    \/ Halted

Spec == Init /\ [][Next]_vars

(***************************************************************************)
(* The CPU never stops.  A thread that is given the CPU again and again    *)
(* executes: a time slice is TIME_SLICE ticks of 10 ms, so it cannot pass  *)
(* every time without one step.  The timer keeps ticking.                  *)
(***************************************************************************)
FairSpec ==
    /\ Spec
    /\ \A t \in Threads : SF_vars(ThreadStep(t))
    /\ WF_vars(idle)
    /\ WF_vars(timer_interrupt)

-----------------------------------------------------------------------------
\* Properties

\* Every variable has its type.
TypeOK ==
    /\ status \in [Threads -> Statuses]
    /\ priority \in [Threads -> Priorities]
    /\ current \in Threads \cup {Idle}
    /\ ready_list \in Seq(Threads)
    /\ thread_waiting \in BOOLEAN
    /\ thread_ticks \in 0..(TIME_SLICE - 1)
    /\ pc \in [Threads -> PCs]
    /\ ret \in [Threads -> PCs]
    /\ lk \in [Threads -> Locks \cup {NoLock}]
    /\ sem \in [Threads -> Sems \cup {NoSema}]
    /\ curr \in [Threads -> Threads \cup {NoThread}]
    /\ next \in [Threads -> Locks \cup {NoLock}]
    /\ orig_priority \in [Threads -> Priorities]
    /\ lock_needed \in [Threads -> Locks \cup {NoLock}]
    /\ donations \in [Threads -> SUBSET Threads]
    /\ holder \in [Locks -> Threads \cup {NoThread}]
    /\ value \in [Sems -> Nat]
    /\ waiters \in [Sems -> Seq(Threads)]
    /\ cond_waiters \in [Locks -> Seq(Threads)]
    /\ sleeping_list \in Seq(Threads)
    /\ sleep_left \in [Threads -> 0..MaxSleep]
    /\ calls \in 0..MaxCalls

\* A thread at place, with locals r, k and s, has taken l's semaphore and is not l's holder.
InLock(place, r, k, s, l) ==
    \/ place = "enable" /\ r = "hold" /\ k = l
    \/ place = "hold" /\ k = l
    \/ place = "up" /\ s = l

(***************************************************************************)
(* Thread t has lock l: from the moment its sema_down or sema_try_down     *)
(* takes l's semaphore, through lock->holder = t, until its sema_up.       *)
(***************************************************************************)
Owns(t, l) == holder[l] = t \/ InLock(pc[t], ret[t], lk[t], sem[t], l)

(***************************************************************************)
(* Locks exclude each other: at most one thread has a lock, and the lock's *)
(* semaphore is 0 exactly while some thread has it (lock_acquire,          *)
(* lock_try_acquire and lock_release, in any interleaving, cond_wait       *)
(* included).                                                              *)
(***************************************************************************)
LockExclusion ==
    \A l \in Locks :
        /\ \A t, u \in Threads : Owns(t, l) /\ Owns(u, l) => t = u
        /\ value[l] = IF \E t \in Threads : Owns(t, l) THEN 0 ELSE 1

(***************************************************************************)
(* What makes LockExclusion inductive: what the locals of a thread hold at *)
(* each place, and that a thread between taking the semaphore and writing  *)
(* holder, or between clearing holder and sema_up, is not the holder.      *)
(***************************************************************************)
LockTypes ==
    /\ status \in [Threads -> Statuses]
    /\ pc \in [Threads -> PCs]
    /\ ret \in [Threads -> PCs]
    /\ lk \in [Threads -> Locks \cup {NoLock}]
    /\ sem \in [Threads -> Sems \cup {NoSema}]
    /\ holder \in [Locks -> Threads \cup {NoThread}]
    /\ value \in [Sems -> Nat]
    /\ cond_waiters \in [Locks -> Seq(Threads)]
    /\ current \in Threads => status[current] # "UNBORN"

FrameOK(t, place, r, k, s) ==
    /\ place = "run" => r = "run"
    /\ place \in {"donate", "chain"} => k \in Locks /\ s = k
    /\ place \in {"acq", "hold", "relhold", "bcast"} => k \in Locks
    /\ place \in {"down", "retry"} => /\ s \in Sems
                                      /\ s \notin Semas => k \in Locks
                                      /\ s \in Locks => s = k
    /\ place = "relhold" => holder[k] = t /\ r \in {"run", "down"}
    /\ place = "up" => /\ s \in Sems
                       /\ r \in {"run", "down", "bcast"}
                       /\ r # "run" => k \in Locks
    /\ place = "enable" => /\ r \in {"run", "hold", "acq", "down", "bcast", "sleep"}
                           /\ r \in {"hold", "acq", "down", "bcast"} => k \in Locks
    /\ \A l \in Locks : InLock(place, r, k, s, l) => holder[l] # t

LockLocals(t) ==
    /\ status[t] = "UNBORN" => pc[t] = "run"
    /\ FrameOK(t, pc[t], ret[t], lk[t], sem[t])

LockInv ==
    /\ LockTypes
    /\ \A t \in Threads : LockLocals(t)
    /\ LockExclusion

(***************************************************************************)
(* No wakeup is lost: while threads wait on a semaphore, its value is at   *)
(* most the number of threads sema_up has already woken for it, so every   *)
(* unit that sema_up released has a thread on its way to take it.          *)
(***************************************************************************)
NoLostWakeup ==
    \A s \in Sems :
        waiters[s] # <<>> =>
            value[s] <= Cardinality({t \in Threads : /\ pc[t] = "retry" /\ sem[t] = s
                                                     /\ status[t] \in {"READY", "RUNNING"}})

\* How often t is an element of list.
Occurrences(t, list) == Cardinality({i \in DOMAIN list : list[i] = t})

(***************************************************************************)
(* struct thread's elem is on one list at most, the one its status names   *)
(* (thread.h: only a ready thread is on the run queue, only a blocked one  *)
(* on a wait list): the run queue when READY, one semaphore's waiters or   *)
(* the sleeping list when BLOCKED, none otherwise; and exactly the current *)
(* thread is RUNNING.                                                      *)
(***************************************************************************)
ElemOnOneList ==
    \A t \in Threads :
        LET waits == {s \in Sems : Occurrences(t, waiters[s]) > 0} IN
        /\ (status[t] = "RUNNING") <=> (current = t)
        /\ Occurrences(t, ready_list) = IF status[t] = "READY" THEN 1 ELSE 0
        /\ Cardinality(waits) + Occurrences(t, sleeping_list)
              = IF status[t] = "BLOCKED" THEN 1 ELSE 0
        /\ \A s \in waits : Occurrences(t, waiters[s]) = 1 /\ sem[t] = s

(***************************************************************************)
(* Strict priority scheduling: a thread that is in its own code is not     *)
(* outranked by a ready thread.  thread_unblock relies on it ("Because the *)
(* highest priority thread is running", thread.c:339) when it compares the *)
(* new thread with the running one only.                                   *)
(***************************************************************************)
HighestRuns ==
    \A t \in Threads :
        At(t, "run") => \A i \in DOMAIN ready_list : priority[ready_list[i]] <= priority[t]

(***************************************************************************)
(* Donation prevents priority inversion: whenever a thread is in its own   *)
(* code, every waiter for a lock is at most as urgent as the lock's holder *)
(* (lock_acquire, thread_donate_priority and lock_release together).       *)
(***************************************************************************)
NoPriorityInversion ==
    (\E t \in Threads : At(t, "run")) =>
        \A l \in Locks : \A i \in DOMAIN waiters[l] :
            holder[l] # NoThread => priority[waiters[l][i]] <= priority[holder[l]]

\* A donation has found the holder of a lock gone.
HolderGone == panic \in {"null holder", "next_lock->holder != NULL", "freed thread"}

(***************************************************************************)
(* Every thread that is created exits: with locks, donations of priority   *)
(* among threads of two priorities, sleeps and time slices nobody waits    *)
(* for ever, nor loops for ever along a chain of donations (sema_down,     *)
(* sema_up, thread_donate_priority, wake_sleeping_threads, idle).  The one *)
(* way out is a donation that finds its holder gone: lock->holder is read  *)
(* with interrupts on, and the holder may release the lock, or exit, while *)
(* the donor is on its way.                                                *)
(***************************************************************************)
EveryThreadFinishes ==
    \A t \in Threads : status[t] = "READY" ~> (status[t] = "DYING" \/ HolderGone)

-----------------------------------------------------------------------------
\* What an assertion says, and the code does not keep.

\* ASSERT(next != NULL) in cond_signal: a condition's list has a waiter that sleeps.
SignalFindsWaiter == panic # "next != NULL"

=============================================================================
