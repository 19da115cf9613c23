---------------------------- MODULE SynchProofs ----------------------------
(***************************************************************************)
(* Locks exclude each other, for any number of threads, locks, semaphores, *)
(* priorities and calls, and wherever the timer interrupts.                *)
(*                                                                         *)
(* Every step moves at most one thread through its code (Moves), or moves  *)
(* none (LockInvKept); what remains for each action is where its thread    *)
(* goes, that its locals are right there, and which locks it has there.    *)
(***************************************************************************)
EXTENDS Synch, TLAPS

\* The provers of a leaf that names none, and their time.
USE SMTT(30), ZenonT(30)

\* Taking an element out of a list leaves a list.
LEMMA RemoveIsSeq ==
    ASSUME NEW S, NEW list \in Seq(S), NEW i \in DOMAIN list
    PROVE  list_remove(list, i) \in Seq(S)
  <1>1. i \in 1..Len(list)
    OBVIOUS
  <1>2. SubSeq(list, 1, i-1) \in Seq(S) /\ SubSeq(list, i+1, Len(list)) \in Seq(S)
    BY <1>1
  <1> QED BY <1>2 DEF list_remove

\* No switch of threads makes a thread unborn, or runs an unborn one.
LEMMA ScheduleStatus ==
    ASSUME NEW STATE rq, NEW STATE st, NEW STATE pri,
           st \in [Threads -> Statuses],
           schedule(rq, st, pri)
    PROVE  /\ status' \in [Threads -> Statuses]
           /\ \A t \in Threads : status'[t] = "UNBORN" => st[t] = "UNBORN"
           /\ current' \in Threads => status'[current'] # "UNBORN"
  BY IdleAssumption DEF schedule, Statuses

\* A step that leaves the owners and the semaphores of the locks alone.
LEMMA OwnersKept ==
    ASSUME LockExclusion,
           \A u \in Threads, k \in Locks : Owns(u, k)' <=> Owns(u, k),
           \A k \in Locks : value'[k] = value[k]
    PROVE  LockExclusion'
  BY DEF LockExclusion

\* A step that takes the semaphore of a lock.
LEMMA OwnerAdded ==
    ASSUME LockExclusion, NEW t \in Threads, NEW l \in Locks,
           value \in [Sems -> Nat],
           value[l] # 0,
           value' = [value EXCEPT ![l] = @ - 1],
           \A u \in Threads, k \in Locks : Owns(u, k)' <=> Owns(u, k) \/ (u = t /\ k = l)
    PROVE  LockExclusion'
  BY DEF LockExclusion, Sems

\* A step by which the owner of a lock ups its semaphore.
LEMMA OwnerRemoved ==
    ASSUME LockExclusion, NEW t \in Threads, NEW l \in Locks,
           value \in [Sems -> Nat],
           Owns(t, l),
           value' = [value EXCEPT ![l] = @ + 1],
           \A u \in Threads, k \in Locks : Owns(u, k)' <=> Owns(u, k) /\ ~ (u = t /\ k = l)
    PROVE  LockExclusion'
  BY DEF LockExclusion, Sems

\* The invariant holds when the kernel starts.
LEMMA LockInvInit == Init => LockInv
  BY MainAssumption, NullAssumption, DistinctAssumption, SemaAssumption
  DEF Init, LockInv, LockTypes, LockLocals, FrameOK, InLock, LockExclusion, Owns, Sems, PCs, Statuses

\* The locals of a thread that stays where it is.
LEMMA LocalsKept ==
    ASSUME NEW u \in Threads, LockLocals(u),
           pc'[u] = pc[u], ret'[u] = ret[u], lk'[u] = lk[u], sem'[u] = sem[u],
           lk[u] \in Locks \cup {NoLock},
           \A l \in Locks : holder'[l] = u <=> holder[l] = u,
           status'[u] = "UNBORN" => status[u] = "UNBORN"
    PROVE  /\ LockLocals(u)'
           /\ \A l \in Locks : Owns(u, l)' <=> Owns(u, l)
  <1>1. FrameOK(u, pc[u], ret[u], lk[u], sem[u])
    BY DEF LockLocals
  <1>2. FrameOK(u, pc[u], ret[u], lk[u], sem[u])'
    BY <1>1 DEF FrameOK
  <1>3. \A l \in Locks : Owns(u, l)' <=> Owns(u, l)
    BY DEF Owns
  <1> QED BY <1>2, <1>3 DEF LockLocals

(***************************************************************************)
(* Thread t goes to place, with locals r, k and s that are right there;    *)
(* the others stay.  The locks t has are those it holds and the one its    *)
(* new place implies.                                                      *)
(***************************************************************************)
LEMMA Moves ==
    ASSUME LockTypes, \A u \in Threads : LockLocals(u), NEW t \in Threads,
           NEW place \in PCs, NEW r \in PCs,
           NEW k \in Locks \cup {NoLock}, NEW s \in Sems \cup {NoSema},
           pc' = [pc EXCEPT ![t] = place], ret' = [ret EXCEPT ![t] = r],
           lk' = [lk EXCEPT ![t] = k], sem' = [sem EXCEPT ![t] = s],
           status' \in [Threads -> Statuses],
           \A u \in Threads : status'[u] = "UNBORN" => status[u] = "UNBORN" /\ u # t,
           current' \in Threads => status'[current'] # "UNBORN",
           holder' \in [Locks -> Threads \cup {NoThread}],
           value' \in [Sems -> Nat],
           cond_waiters' \in [Locks -> Seq(Threads)],
           \A u \in Threads \ {t} : \A l \in Locks : holder'[l] = u <=> holder[l] = u,
           FrameOK(t, place, r, k, s)'
    PROVE  /\ LockTypes'
           /\ \A u \in Threads : LockLocals(u)'
           /\ \A u \in Threads \ {t} : \A l \in Locks : Owns(u, l)' <=> Owns(u, l)
           /\ \A l \in Locks : Owns(t, l)' <=> holder'[l] = t \/ InLock(place, r, k, s, l)
  <1>1. /\ pc' \in [Threads -> PCs] /\ ret' \in [Threads -> PCs]
        /\ lk' \in [Threads -> Locks \cup {NoLock}] /\ sem' \in [Threads -> Sems \cup {NoSema}]
    BY DEF LockTypes
  <1>2. LockTypes'
    BY <1>1 DEF LockTypes
  <1>3. pc'[t] = place /\ ret'[t] = r /\ lk'[t] = k /\ sem'[t] = s
    BY DEF LockTypes
  <1>4. LockLocals(t)'
    BY <1>3 DEF LockLocals
  <1>5. \A l \in Locks : Owns(t, l)' <=> holder'[l] = t \/ InLock(place, r, k, s, l)
    BY <1>3 DEF Owns
  <1>6. ASSUME NEW u \in Threads \ {t}
        PROVE  LockLocals(u)' /\ \A l \in Locks : Owns(u, l)' <=> Owns(u, l)
    <2>1. /\ pc'[u] = pc[u] /\ ret'[u] = ret[u] /\ lk'[u] = lk[u] /\ sem'[u] = sem[u]
          /\ lk[u] \in Locks \cup {NoLock}
      BY DEF LockTypes
    <2> QED BY <2>1, LocalsKept
  <1> QED BY <1>2, <1>4, <1>5, <1>6

\* Nobody moves: the scheduler's state may change all the same.
LEMMA LockInvKept ==
    ASSUME LockInv,
           status' \in [Threads -> Statuses],
           \A u \in Threads : status'[u] = "UNBORN" => status[u] = "UNBORN",
           current' \in Threads => status'[current'] # "UNBORN",
           UNCHANGED <<frameVars, holder, value, cond_waiters>>
    PROVE  LockInv'
  <1>1. LockTypes'
    BY DEF LockInv, LockTypes, frameVars
  <1>2. ASSUME NEW u \in Threads
        PROVE  LockLocals(u)' /\ \A l \in Locks : Owns(u, l)' <=> Owns(u, l)
    <2>1. LockLocals(u) /\ lk[u] \in Locks \cup {NoLock}
      BY DEF LockInv, LockTypes
    <2> QED BY <2>1, LocalsKept DEF frameVars
  <1>3. LockExclusion'
    BY <1>2, OwnersKept DEF LockInv
  <1> QED BY <1>1, <1>2, <1>3 DEF LockInv

\* A panic leaves the locks as they are.
LEMMA PanicStep ==
    ASSUME LockInv, NEW why, Panic(why)
    PROVE  LockInv'
  BY LockInvKept DEF Panic, LockInv, LockTypes, schedVars, syncVars

\* Names for the locals of a thread, which stay what they are.
LEMMA LocalsOf ==
    ASSUME LockTypes, NEW t \in Threads
    PROVE  \E r \in PCs, k \in Locks \cup {NoLock}, s \in Sems \cup {NoSema} :
              /\ ret[t] = r /\ ret = [ret EXCEPT ![t] = r]
              /\ lk[t] = k /\ lk = [lk EXCEPT ![t] = k]
              /\ sem[t] = s /\ sem = [sem EXCEPT ![t] = s]
  <1> DEFINE r == ret[t]  k == lk[t]  s == sem[t]
  <1>1. r \in PCs /\ k \in Locks \cup {NoLock} /\ s \in Sems \cup {NoSema}
    BY DEF LockTypes
  <1>2. /\ ret = [ret EXCEPT ![t] = r]
        /\ lk = [lk EXCEPT ![t] = k]
        /\ sem = [sem EXCEPT ![t] = s]
    BY DEF LockTypes
  <1> QED BY <1>1, <1>2

(***************************************************************************)
(* A thread goes to another place and has the same locks there; threads    *)
(* may be switched and semaphores that belong to no lock may change.       *)
(***************************************************************************)
LEMMA MoveAndSwitch ==
    ASSUME LockInv, NEW t \in Threads,
           NEW place \in PCs, NEW r \in PCs,
           NEW k \in Locks \cup {NoLock}, NEW s \in Sems \cup {NoSema},
           pc' = [pc EXCEPT ![t] = place], ret' = [ret EXCEPT ![t] = r],
           lk' = [lk EXCEPT ![t] = k], sem' = [sem EXCEPT ![t] = s],
           status' \in [Threads -> Statuses],
           \A u \in Threads : status'[u] = "UNBORN" => status[u] = "UNBORN" /\ u # t,
           current' \in Threads => status'[current'] # "UNBORN",
           holder' = holder,
           value' \in [Sems -> Nat],
           \A l \in Locks : value'[l] = value[l],
           cond_waiters' \in [Locks -> Seq(Threads)],
           FrameOK(t, place, r, k, s),
           \A l \in Locks : InLock(place, r, k, s, l) <=> InLock(pc[t], ret[t], lk[t], sem[t], l)
    PROVE  LockInv'
  <1>1. LockTypes /\ (\A u \in Threads : LockLocals(u)) /\ LockExclusion
    BY DEF LockInv
  <1>2. holder' \in [Locks -> Threads \cup {NoThread}]
    BY <1>1 DEF LockTypes
  <1>3. FrameOK(t, place, r, k, s)'
    BY DEF FrameOK
  <1>4. /\ LockTypes'
        /\ \A u \in Threads : LockLocals(u)'
        /\ \A u \in Threads \ {t} : \A l \in Locks : Owns(u, l)' <=> Owns(u, l)
        /\ \A l \in Locks : Owns(t, l)' <=> holder'[l] = t \/ InLock(place, r, k, s, l)
    BY <1>1, <1>2, <1>3, Moves, ZenonT(60)
  <1>5. \A u \in Threads, l \in Locks : Owns(u, l)' <=> Owns(u, l)
    BY <1>4 DEF Owns
  <1>6. LockExclusion'
    BY <1>1, <1>5, OwnersKept
  <1> QED BY <1>4, <1>6 DEF LockInv

\* The running thread was created, so its status is never UNBORN.
LEMMA RunningIsBorn ==
    ASSUME LockInv, NEW t \in Threads, current = t
    PROVE  status[t] # "UNBORN"
  BY DEF LockInv, LockTypes

\* The running thread goes to another place and has the same locks there.
LEMMA MoveStep ==
    ASSUME LockInv, NEW t \in Threads, current = t,
           NEW place \in PCs, NEW r \in PCs,
           NEW k \in Locks \cup {NoLock}, NEW s \in Sems \cup {NoSema},
           pc' = [pc EXCEPT ![t] = place], ret' = [ret EXCEPT ![t] = r],
           lk' = [lk EXCEPT ![t] = k], sem' = [sem EXCEPT ![t] = s],
           UNCHANGED <<status, current, holder, value>>,
           cond_waiters' \in [Locks -> Seq(Threads)],
           FrameOK(t, place, r, k, s),
           \A l \in Locks : InLock(place, r, k, s, l) <=> InLock(pc[t], ret[t], lk[t], sem[t], l)
    PROVE  LockInv'
  <1>1. /\ status' \in [Threads -> Statuses]
        /\ \A u \in Threads : status'[u] = "UNBORN" => status[u] = "UNBORN" /\ u # t
        /\ current' \in Threads => status'[current'] # "UNBORN"
        /\ holder' = holder
        /\ value' \in [Sems -> Nat]
        /\ \A l \in Locks : value'[l] = value[l]
    BY RunningIsBorn DEF LockInv, LockTypes
  <1> QED BY <1>1, MoveAndSwitch, ZenonT(60)

\* The test for a lower holder, at the start of lock_acquire, takes nothing.
LEMMA AcquireCheckStep ==
    ASSUME LockInv, NEW t \in Threads, NEW l \in Locks, current = t, pc[t] \in {"run", "acq"},
           AcquireCheck(t, l)
    PROVE  LockInv'
  <1>1. PICK r \in PCs, k \in Locks \cup {NoLock}, s \in Sems \cup {NoSema} :
           ret[t] = r /\ ret = [ret EXCEPT ![t] = r]
    BY LocalsOf DEF LockInv
  <1>2. PICK place \in {"donate", "down"} :
           /\ pc' = [pc EXCEPT ![t] = place]
           /\ lk' = [lk EXCEPT ![t] = l] /\ sem' = [sem EXCEPT ![t] = l]
           /\ UNCHANGED <<status, current, holder, value, cond_waiters, ret>>
    BY ZenonT(60) DEF AcquireCheck, Goto, schedVars, syncVars
  <1>3. place \in PCs /\ l \in Sems /\ cond_waiters' \in [Locks -> Seq(Threads)]
    BY <1>2 DEF LockInv, LockTypes, PCs, Sems
  <1>4. FrameOK(t, place, r, l, l)
    BY <1>2, <1>3 DEF FrameOK, InLock
  <1>5. \A j \in Locks : InLock(place, r, l, l, j) <=> InLock(pc[t], ret[t], lk[t], sem[t], j)
    BY <1>2 DEF InLock
  <1> QED BY <1>1, <1>2, <1>3, <1>4, <1>5, MoveStep, ZenonT(60)

\* thread_donate_priority changes priorities and donors, never an owner.
LEMMA DonateStep ==
    ASSUME LockInv, NEW t \in Threads, thread_donate_priority(t)
    PROVE  LockInv'
  <1>1. \/ \E why : Panic(why)
        \/ /\ pc' = [pc EXCEPT ![t] = "chain"]
           /\ UNCHANGED <<status, current, holder, value, cond_waiters, ret, lk, sem>>
    BY ZenonT(60) DEF thread_donate_priority, Goto, syncVars
  <1>2. CASE /\ pc' = [pc EXCEPT ![t] = "chain"]
             /\ UNCHANGED <<status, current, holder, value, cond_waiters, ret, lk, sem>>
    <2>1. current = t /\ pc[t] = "donate"
      BY ZenonT(60) DEF thread_donate_priority, At
    <2>2. PICK r \in PCs, k \in Locks \cup {NoLock}, s \in Sems \cup {NoSema} :
             /\ ret[t] = r /\ ret = [ret EXCEPT ![t] = r]
             /\ lk[t] = k /\ lk = [lk EXCEPT ![t] = k]
             /\ sem[t] = s /\ sem = [sem EXCEPT ![t] = s]
      BY LocalsOf DEF LockInv
    <2>3. FrameOK(t, "donate", r, k, s)
      BY <2>1, <2>2 DEF LockInv, LockLocals
    <2>4. FrameOK(t, "chain", r, k, s)
      BY <2>3 DEF FrameOK, InLock
    <2>5. \A j \in Locks : InLock("chain", r, k, s, j) <=> InLock(pc[t], ret[t], lk[t], sem[t], j)
      BY <2>1 DEF InLock
    <2>6. "chain" \in PCs /\ cond_waiters' \in [Locks -> Seq(Threads)]
      BY <1>2 DEF LockInv, LockTypes, PCs
    <2> QED BY <1>2, <2>1, <2>2, <2>4, <2>5, <2>6, MoveStep, ZenonT(60)
  <1> QED BY <1>1, <1>2, PanicStep

\* Neither does its loop, whatever lock_needed it follows.
LEMMA ChainStep ==
    ASSUME LockInv, NEW t \in Threads, donate_chain(t)
    PROVE  LockInv'
  <1>1. \/ \E why : Panic(why)
        \/ \E place \in {"chain", "down"} :
              /\ pc' = [pc EXCEPT ![t] = place]
              /\ UNCHANGED <<status, current, holder, value, cond_waiters, ret, lk, sem>>
    <2>1. pc \in [Threads -> PCs] /\ pc[t] = "chain"
      BY ZenonT(60) DEF LockInv, LockTypes, donate_chain, At
    <2>2. pc = [pc EXCEPT ![t] = "chain"]
      BY <2>1
    <2> QED BY <2>2, ZenonT(60) DEF donate_chain, Goto, schedVars, frameVars, syncVars
  <1>2. ASSUME NEW place \in {"chain", "down"},
               pc' = [pc EXCEPT ![t] = place],
               UNCHANGED <<status, current, holder, value, cond_waiters, ret, lk, sem>>
        PROVE  LockInv'
    <2>1. current = t /\ pc[t] = "chain"
      BY ZenonT(60) DEF donate_chain, At
    <2>2. PICK r \in PCs, k \in Locks \cup {NoLock}, s \in Sems \cup {NoSema} :
             /\ ret[t] = r /\ ret = [ret EXCEPT ![t] = r]
             /\ lk[t] = k /\ lk = [lk EXCEPT ![t] = k]
             /\ sem[t] = s /\ sem = [sem EXCEPT ![t] = s]
      BY LocalsOf DEF LockInv
    <2>3. FrameOK(t, "chain", r, k, s)
      BY <2>1, <2>2 DEF LockInv, LockLocals
    <2>4. FrameOK(t, place, r, k, s)
      BY <2>3 DEF FrameOK, InLock, Sems
    <2>5. \A j \in Locks : InLock(place, r, k, s, j) <=> InLock(pc[t], ret[t], lk[t], sem[t], j)
      BY <2>1 DEF InLock
    <2>6. place \in PCs /\ cond_waiters' \in [Locks -> Seq(Threads)]
      BY <1>2 DEF LockInv, LockTypes, PCs
    <2> QED BY <1>2, <2>1, <2>2, <2>4, <2>5, <2>6, MoveStep, ZenonT(60)
  <1> QED BY <1>1, <1>2, PanicStep

\* lock->holder = thread_current() is written by the thread that took the semaphore.
LEMMA SetHolderStep ==
    ASSUME LockInv, NEW t \in Threads, set_holder(t)
    PROVE  LockInv'
  <1>1. /\ current = t /\ pc[t] = "hold"
        /\ holder' = [holder EXCEPT ![lk[t]] = t]
        /\ pc' = [pc EXCEPT ![t] = "run"] /\ ret' = [ret EXCEPT ![t] = "run"]
        /\ lk' = [lk EXCEPT ![t] = NoLock] /\ sem' = [sem EXCEPT ![t] = NoSema]
        /\ UNCHANGED <<status, current, value, cond_waiters>>
    BY DEF set_holder, At, Return, Goto, schedVars
  <1>2. LockTypes /\ (\A u \in Threads : LockLocals(u)) /\ LockExclusion
    BY DEF LockInv
  <1>3. PICK l \in Locks : l = lk[t] /\ Owns(t, l)
    BY <1>1, <1>2 DEF LockLocals, FrameOK, Owns, InLock
  <1>4. \A u \in Threads \ {t} : holder[l] # u
    BY <1>2, <1>3, ZenonT(30) DEF LockExclusion, Owns
  <1>5. /\ holder' \in [Locks -> Threads \cup {NoThread}]
        /\ \A j \in Locks : holder'[j] = IF j = l THEN t ELSE holder[j]
    BY <1>1, <1>2, <1>3 DEF LockTypes
  <1>6. /\ status' \in [Threads -> Statuses]
        /\ \A u \in Threads : status'[u] = "UNBORN" => status[u] = "UNBORN" /\ u # t
        /\ current' \in Threads => status'[current'] # "UNBORN"
        /\ value' \in [Sems -> Nat]
        /\ cond_waiters' \in [Locks -> Seq(Threads)]
        /\ "run" \in PCs
    BY <1>1, <1>2 DEF LockTypes, PCs
  <1>7. FrameOK(t, "run", "run", NoLock, NoSema)'
    BY DEF FrameOK, InLock
  <1>8. \A u \in Threads \ {t} : \A j \in Locks : holder'[j] = u <=> holder[j] = u
    BY <1>4, <1>5
  <1>9. /\ LockTypes'
        /\ \A u \in Threads : LockLocals(u)'
        /\ \A u \in Threads \ {t} : \A j \in Locks : Owns(u, j)' <=> Owns(u, j)
        /\ \A j \in Locks : Owns(t, j)' <=> holder'[j] = t \/ InLock("run", "run", NoLock, NoSema, j)
    BY <1>1, <1>2, <1>5, <1>6, <1>7, <1>8, Moves, ZenonT(60)
  <1>10. \A j \in Locks : Owns(t, j) <=> holder[j] = t \/ j = l
    BY <1>1, <1>3 DEF Owns, InLock
  <1>11. \A u \in Threads, j \in Locks : Owns(u, j)' <=> Owns(u, j)
    BY <1>5, <1>9, <1>10 DEF InLock
  <1>12. LockExclusion'
    BY <1>1, <1>2, <1>11, OwnersKept
  <1> QED BY <1>9, <1>12 DEF LockInv

\* With the holder cleared the thread has the lock until its sema_up.
LEMMA ClearHolderStep ==
    ASSUME LockInv, NEW t \in Threads, clear_holder(t)
    PROVE  LockInv'
  <1>1. /\ current = t /\ pc[t] = "relhold"
        /\ holder' = [holder EXCEPT ![lk[t]] = NoThread]
        /\ pc' = [pc EXCEPT ![t] = "up"] /\ sem' = [sem EXCEPT ![t] = lk[t]]
        /\ UNCHANGED <<status, current, value, cond_waiters, ret, lk>>
    BY DEF clear_holder, At, Goto, schedVars
  <1>2. LockTypes /\ (\A u \in Threads : LockLocals(u)) /\ LockExclusion
    BY DEF LockInv
  <1>3. PICK r \in PCs, l \in Locks \cup {NoLock}, s \in Sems \cup {NoSema} :
           /\ ret[t] = r /\ ret = [ret EXCEPT ![t] = r]
           /\ lk[t] = l /\ lk = [lk EXCEPT ![t] = l]
    BY <1>2, LocalsOf
  <1>4. l \in Locks /\ holder[l] = t /\ r \in {"run", "down"}
    BY <1>1, <1>2, <1>3 DEF LockLocals, FrameOK
  <1>5. /\ holder' \in [Locks -> Threads \cup {NoThread}]
        /\ \A j \in Locks : holder'[j] = IF j = l THEN NoThread ELSE holder[j]
    BY <1>1, <1>2, <1>3, <1>4 DEF LockTypes
  <1>6. /\ status' \in [Threads -> Statuses]
        /\ \A u \in Threads : status'[u] = "UNBORN" => status[u] = "UNBORN" /\ u # t
        /\ current' \in Threads => status'[current'] # "UNBORN"
        /\ value' \in [Sems -> Nat]
        /\ cond_waiters' \in [Locks -> Seq(Threads)]
        /\ "up" \in PCs /\ l \in Sems
        /\ pc' = [pc EXCEPT ![t] = "up"] /\ ret' = [ret EXCEPT ![t] = r]
        /\ lk' = [lk EXCEPT ![t] = l] /\ sem' = [sem EXCEPT ![t] = l]
    BY <1>1, <1>2, <1>3, <1>4 DEF LockTypes, PCs, Sems
  <1>7. FrameOK(t, "up", r, l, l)'
    BY <1>4, <1>5, <1>6, NullAssumption DEF FrameOK, InLock
  <1>8. \A u \in Threads \ {t} : \A j \in Locks : holder'[j] = u <=> holder[j] = u
    BY <1>4, <1>5, NullAssumption
  <1>9. /\ LockTypes'
        /\ \A u \in Threads : LockLocals(u)'
        /\ \A u \in Threads \ {t} : \A j \in Locks : Owns(u, j)' <=> Owns(u, j)
        /\ \A j \in Locks : Owns(t, j)' <=> holder'[j] = t \/ InLock("up", r, l, l, j)
    BY <1>2, <1>5, <1>6, <1>7, <1>8, Moves, ZenonT(60)
  <1>10. \A j \in Locks : Owns(t, j) <=> holder[j] = t
    BY <1>1 DEF Owns, InLock
  <1>11. \A u \in Threads, j \in Locks : Owns(u, j)' <=> Owns(u, j)
    BY <1>4, <1>5, <1>9, <1>10, NullAssumption DEF InLock
  <1>12. LockExclusion'
    BY <1>1, <1>2, <1>11, OwnersKept
  <1> QED BY <1>9, <1>12 DEF LockInv

\* The running thread takes the semaphore of a lock that nobody has.
LEMMA TakeStep ==
    ASSUME LockInv, NEW t \in Threads, current = t, pc[t] \in {"run", "down", "retry"},
           NEW l \in Locks, NEW s \in Sems \cup {NoSema},
           value[l] # 0, value' = [value EXCEPT ![l] = @ - 1],
           pc' = [pc EXCEPT ![t] = "enable"], ret' = [ret EXCEPT ![t] = "hold"],
           lk' = [lk EXCEPT ![t] = l], sem' = [sem EXCEPT ![t] = s],
           UNCHANGED <<status, current, holder, cond_waiters>>
    PROVE  LockInv'
  <1>1. LockTypes /\ (\A u \in Threads : LockLocals(u)) /\ LockExclusion
    BY DEF LockInv
  <1>2. ~ Owns(t, l)
    BY <1>1 DEF LockExclusion
  <1>3. /\ status' \in [Threads -> Statuses]
        /\ \A u \in Threads : status'[u] = "UNBORN" => status[u] = "UNBORN" /\ u # t
        /\ current' \in Threads => status'[current'] # "UNBORN"
        /\ holder' \in [Locks -> Threads \cup {NoThread}]
        /\ cond_waiters' \in [Locks -> Seq(Threads)]
        /\ "enable" \in PCs /\ "hold" \in PCs
    BY <1>1 DEF LockTypes, PCs
  <1>4. value' \in [Sems -> Nat] /\ value \in [Sems -> Nat]
    BY <1>1 DEF LockTypes, Sems
  <1>5. FrameOK(t, "enable", "hold", l, s)'
    BY <1>2 DEF FrameOK, InLock, Owns
  <1>6. /\ LockTypes'
        /\ \A u \in Threads : LockLocals(u)'
        /\ \A u \in Threads \ {t} : \A j \in Locks : Owns(u, j)' <=> Owns(u, j)
        /\ \A j \in Locks : Owns(t, j)' <=> holder'[j] = t \/ InLock("enable", "hold", l, s, j)
    BY <1>1, <1>3, <1>4, <1>5, Moves, ZenonT(60)
  <1>7. \A j \in Locks : Owns(t, j) <=> holder[j] = t
    BY DEF Owns, InLock
  <1>8. \A u \in Threads, j \in Locks : Owns(u, j)' <=> Owns(u, j) \/ (u = t /\ j = l)
    BY <1>6, <1>7 DEF InLock
  <1>9. LockExclusion'
    BY <1>1, <1>4, <1>8, OwnerAdded, ZenonT(60)
  <1> QED BY <1>6, <1>9 DEF LockInv

\* sema_down takes a lock only when its semaphore is 1, so when nobody has it.
LEMMA DownStep ==
    ASSUME LockInv, NEW t \in Threads, sema_down(t)
    PROVE  LockInv'
  <1>1. PICK r \in PCs, k \in Locks \cup {NoLock}, s \in Sems \cup {NoSema} :
           /\ ret[t] = r /\ ret = [ret EXCEPT ![t] = r]
           /\ lk[t] = k /\ lk = [lk EXCEPT ![t] = k]
           /\ sem[t] = s /\ sem = [sem EXCEPT ![t] = s]
    BY LocalsOf DEF LockInv
  <1>2. /\ current = t /\ pc[t] \in {"down", "retry"}
        /\ UNCHANGED <<lk, sem, holder, cond_waiters>>
    BY ZenonT(60) DEF sema_down, At
  <1>3. LockTypes /\ FrameOK(t, pc[t], r, k, s)
    BY <1>1 DEF LockInv, LockLocals
  <1>4. /\ s \in Sems
        /\ s \notin Semas => k \in Locks
        /\ s \in Locks => s = k
    BY <1>2, <1>3 DEF FrameOK
  <1>5. /\ lk' = [lk EXCEPT ![t] = k] /\ sem' = [sem EXCEPT ![t] = s] /\ holder' = holder
        /\ cond_waiters' \in [Locks -> Seq(Threads)]
        /\ {"retry", "enable", "run", "acq"} \subseteq PCs
    BY <1>1, <1>2, <1>3 DEF LockTypes, PCs
  <1>6. CASE value[s] = 0
    <2> DEFINE st == [status EXCEPT ![t] = "BLOCKED"]
    <2>1. /\ pc' = [pc EXCEPT ![t] = "retry"] /\ ret' = [ret EXCEPT ![t] = r]
          /\ schedule(ready_list, st, priority)
          /\ value' = value
      BY <1>1, <1>6 DEF sema_down, Goto, thread_block
    <2>2. /\ st \in [Threads -> Statuses]
          /\ \A u \in Threads : st[u] = "UNBORN" => status[u] = "UNBORN" /\ u # t
      BY <1>3 DEF LockTypes, Statuses
    <2> HIDE DEF st
    <2>3. /\ status' \in [Threads -> Statuses]
          /\ \A u \in Threads : status'[u] = "UNBORN" => status[u] = "UNBORN" /\ u # t
          /\ current' \in Threads => status'[current'] # "UNBORN"
      BY <2>1, <2>2, ScheduleStatus
    <2>4. FrameOK(t, "retry", r, k, s)
      BY <1>4 DEF FrameOK, InLock
    <2>5. \A l \in Locks : InLock("retry", r, k, s, l) <=> InLock(pc[t], ret[t], lk[t], sem[t], l)
      BY <1>2 DEF InLock
    <2>6. value' \in [Sems -> Nat] /\ \A l \in Locks : value'[l] = value[l]
      BY <1>3, <2>1 DEF LockTypes
    <2> QED BY <1>5, <2>1, <2>3, <2>4, <2>5, <2>6, MoveAndSwitch, ZenonT(60)
  <1>7. CASE value[s] # 0
    <2>1. /\ pc' = [pc EXCEPT ![t] = "enable"]
          /\ ret' = [ret EXCEPT ![t] = IF s \in Locks THEN "hold"
                                       ELSE IF s \in Threads THEN "acq" ELSE "run"]
          /\ value' = [value EXCEPT ![s] = @ - 1]
          /\ UNCHANGED <<status, current>>
      BY <1>1, <1>7 DEF sema_down, Goto, schedVars
    <2>2. CASE s \in Locks
      BY <1>2, <1>4, <1>5, <1>7, <2>1, <2>2, TakeStep, ZenonT(60)
    <2>3. CASE s \notin Locks
      <3>1. PICK q \in {"acq", "run"} : ret' = [ret EXCEPT ![t] = q] /\ (q = "acq" => k \in Locks)
        BY <1>4, <2>1, <2>3, DistinctAssumption, ZenonT(60)
      <3>2. FrameOK(t, "enable", q, k, s)
        BY <3>1 DEF FrameOK, InLock
      <3>3. \A l \in Locks : InLock("enable", q, k, s, l) <=> InLock(pc[t], ret[t], lk[t], sem[t], l)
        BY <1>2 DEF InLock
      <3>4. value' \in [Sems -> Nat] /\ \A l \in Locks : value'[l] = value[l]
        BY <1>3, <1>4, <1>7, <2>1, <2>3 DEF LockTypes, Sems
      <3>5. /\ status' \in [Threads -> Statuses]
            /\ \A u \in Threads : status'[u] = "UNBORN" => status[u] = "UNBORN" /\ u # t
            /\ current' \in Threads => status'[current'] # "UNBORN"
        BY <1>2, <1>3, <2>1 DEF LockTypes
      <3>6. pc' = [pc EXCEPT ![t] = "enable"] /\ q \in PCs /\ "enable" \in PCs
        BY <1>5, <2>1, <3>1
      <3> QED BY <1>5, <3>1, <3>2, <3>3, <3>4, <3>5, <3>6, MoveAndSwitch, ZenonT(60)
    <2> QED BY <2>2, <2>3
  <1> QED BY <1>6, <1>7

\* sema_try_down takes a lock in the same case, alone or in lock_try_acquire.
LEMMA TryDownStep ==
    ASSUME LockInv, NEW t \in Threads, NEW l \in Locks \cup Semas, current = t, pc[t] = "run",
           sema_try_down(t, l),
           \/ /\ l \in Locks
              /\ lk' = [lk EXCEPT ![t] = l]
              /\ ret' = [ret EXCEPT ![t] = IF value[l] > 0 THEN "hold" ELSE "run"]
              /\ UNCHANGED sem
           \/ l \in Semas /\ UNCHANGED <<ret, lk, sem>>
    PROVE  LockInv'
  <1>1. PICK r \in PCs, k \in Locks \cup {NoLock}, s \in Sems \cup {NoSema} :
           /\ ret[t] = r /\ ret = [ret EXCEPT ![t] = r]
           /\ lk[t] = k /\ lk = [lk EXCEPT ![t] = k]
           /\ sem[t] = s /\ sem = [sem EXCEPT ![t] = s]
    BY LocalsOf DEF LockInv
  <1>2. /\ pc' = [pc EXCEPT ![t] = "enable"]
        /\ value' = [value EXCEPT ![l] = IF @ > 0 THEN @ - 1 ELSE @]
        /\ UNCHANGED <<status, current, holder, cond_waiters>>
    BY DEF sema_try_down, Goto, schedVars
  <1>3. LockTypes /\ r = "run"
    BY <1>1 DEF LockInv, LockLocals, FrameOK
  <1>4. /\ status' \in [Threads -> Statuses]
        /\ \A u \in Threads : status'[u] = "UNBORN" => status[u] = "UNBORN" /\ u # t
        /\ current' \in Threads => status'[current'] # "UNBORN"
        /\ holder' = holder
        /\ cond_waiters' \in [Locks -> Seq(Threads)]
        /\ "enable" \in PCs /\ "run" \in PCs
        /\ sem' = [sem EXCEPT ![t] = s]
        /\ l \in Sems /\ value[l] \in Nat
    BY <1>1, <1>2, <1>3, RunningIsBorn DEF LockTypes, PCs, Sems
  <1>5. CASE l \in Locks /\ value[l] # 0
    <2>1. value[l] > 0 /\ l \notin Semas
      BY <1>4, <1>5, DistinctAssumption
    <2>2. lk' = [lk EXCEPT ![t] = l] /\ ret' = [ret EXCEPT ![t] = "hold"]
      BY <2>1
    <2>3. value' = [value EXCEPT ![l] = @ - 1]
      BY <1>2, <2>1, ZenonT(60)
    <2> QED BY <1>2, <1>4, <1>5, <2>2, <2>3, TakeStep, ZenonT(60)
  <1>6. CASE ~ (l \in Locks /\ value[l] # 0)
    <2>1. ret' = [ret EXCEPT ![t] = "run"]
      BY <1>1, <1>3, <1>6
    <2>2. PICK j \in Locks \cup {NoLock} : lk' = [lk EXCEPT ![t] = j]
      BY <1>1
    <2>3. value' \in [Sems -> Nat] /\ \A i \in Locks : value'[i] = value[i]
      BY <1>2, <1>3, <1>4, <1>6 DEF LockTypes, Sems
    <2>4. FrameOK(t, "enable", "run", j, s)
      BY DEF FrameOK, InLock
    <2>5. \A i \in Locks : InLock("enable", "run", j, s, i) <=> InLock(pc[t], ret[t], lk[t], sem[t], i)
      BY DEF InLock
    <2> QED BY <1>2, <1>4, <2>1, <2>2, <2>3, <2>4, <2>5, MoveAndSwitch, ZenonT(60)
  <1> QED BY <1>5, <1>6

\* sema_up gives back a lock that its thread has, and the semaphore becomes 1.
LEMMA UpStep ==
    ASSUME LockInv, NEW t \in Threads, sema_up(t)
    PROVE  LockInv'
  <1>1. PICK r \in PCs, k \in Locks \cup {NoLock}, s \in Sems \cup {NoSema} :
           /\ ret[t] = r /\ ret = [ret EXCEPT ![t] = r]
           /\ lk[t] = k /\ lk = [lk EXCEPT ![t] = k]
           /\ sem[t] = s /\ sem = [sem EXCEPT ![t] = s]
    BY LocalsOf DEF LockInv
  <1>2. /\ current = t /\ pc[t] = "up"
        /\ pc' = [pc EXCEPT ![t] = "enable"]
        /\ value' = [value EXCEPT ![s] = @ + 1]
        /\ UNCHANGED <<current, ret, lk, sem, holder, cond_waiters>>
        /\ \/ UNCHANGED status
           \/ \E i \in DOMAIN waiters[s] : status' = [status EXCEPT ![waiters[s][i]] = "READY"]
    BY <1>1 DEF sema_up, At, Goto, thread_unblock, schedVars
  <1>3. LockTypes /\ (\A u \in Threads : LockLocals(u)) /\ LockExclusion
    BY DEF LockInv
  <1>4. FrameOK(t, "up", r, k, s) /\ s \in Sems /\ r \in {"run", "down", "bcast"}
    <2>1. FrameOK(t, pc[t], ret[t], lk[t], sem[t]) /\ pc[t] = "up"
      BY <1>2, <1>3, ZenonT(60) DEF LockLocals
    <2>2. FrameOK(t, "up", r, k, s)
      BY <1>1, <2>1, ZenonT(60)
    <2> QED BY <2>2 DEF FrameOK
  <1>5. /\ status' \in [Threads -> Statuses]
        /\ \A u \in Threads : status'[u] = "UNBORN" => status[u] = "UNBORN" /\ u # t
        /\ current' \in Threads => status'[current'] # "UNBORN"
    <2>1. /\ status \in [Threads -> Statuses]
          /\ current \in Threads => status[current] # "UNBORN"
          /\ current' = current /\ current = t
      BY <1>2, <1>3 DEF LockTypes
    <2>2. CASE UNCHANGED status
      BY <2>1, <2>2
    <2>3. CASE \E i \in DOMAIN waiters[s] : status' = [status EXCEPT ![waiters[s][i]] = "READY"]
      <3>1. PICK i : status' = [status EXCEPT ![waiters[s][i]] = "READY"]
        BY <2>3, ZenonT(60)
      <3>2. PICK w : w = waiters[s][i]
        OBVIOUS
      <3>3. status' = [u \in Threads |-> IF u = w THEN "READY" ELSE status[u]]
        BY <2>1, <3>1, <3>2, ZenonT(30)
      <3> QED BY <2>1, <3>3 DEF Statuses
    <2> QED BY <1>2, <2>2, <2>3
  <1>6. /\ holder' \in [Locks -> Threads \cup {NoThread}] /\ holder' = holder
        /\ cond_waiters' \in [Locks -> Seq(Threads)]
        /\ "enable" \in PCs
        /\ ret' = [ret EXCEPT ![t] = r] /\ lk' = [lk EXCEPT ![t] = k] /\ sem' = [sem EXCEPT ![t] = s]
    BY <1>1, <1>2, <1>3 DEF LockTypes, PCs
  <1>7. value' \in [Sems -> Nat] /\ value \in [Sems -> Nat]
    BY <1>2, <1>3, <1>4 DEF LockTypes
  <1>8. FrameOK(t, "enable", r, k, s)'
    BY <1>4 DEF FrameOK, InLock
  <1>9. /\ LockTypes'
        /\ \A u \in Threads : LockLocals(u)'
        /\ \A u \in Threads \ {t} : \A j \in Locks : Owns(u, j)' <=> Owns(u, j)
        /\ \A j \in Locks : Owns(t, j)' <=> holder'[j] = t \/ InLock("enable", r, k, s, j)
    <2>1. pc' = [pc EXCEPT ![t] = "enable"]
      BY <1>2
    <2>2. \A u \in Threads \ {t} : \A j \in Locks : holder'[j] = u <=> holder[j] = u
      BY <1>6
    <2> QED BY <1>3, <1>5, <1>6, <1>7, <1>8, <2>1, <2>2, Moves, ZenonT(60)
  <1>10. \A j \in Locks : Owns(t, j)' <=> holder[j] = t
    BY <1>4, <1>6, <1>9 DEF InLock
  <1>11. \A j \in Locks : Owns(t, j) <=> holder[j] = t \/ j = s
    BY <1>1, <1>2, ZenonT(60) DEF Owns, InLock
  <1>12. LockExclusion'
    <2>1. CASE s \in Locks
      <3>1. Owns(t, s) /\ holder[s] # t
        BY <1>4, <1>11, <2>1 DEF FrameOK, InLock
      <3>2. \A u \in Threads, j \in Locks : Owns(u, j)' <=> Owns(u, j) /\ ~ (u = t /\ j = s)
        BY <1>9, <1>10, <1>11, <3>1, ZenonT(60)
      <3> QED BY <1>2, <1>3, <1>7, <2>1, <3>1, <3>2, OwnerRemoved, ZenonT(60)
    <2>2. CASE s \notin Locks
      <3>1. \A u \in Threads, j \in Locks : Owns(u, j)' <=> Owns(u, j)
        BY <1>9, <1>10, <1>11, <2>2
      <3>2. \A j \in Locks : value'[j] = value[j]
        BY <1>2, <1>7, <2>2 DEF Sems
      <3> QED BY <1>3, <3>1, <3>2, OwnersKept, ZenonT(60)
    <2> QED BY <2>1, <2>2
  <1> QED BY <1>9, <1>12 DEF LockInv

\* lock_release up to holder = NULL keeps the lock, from lock_release or from cond_wait.
LEMMA ReleaseStartStep ==
    ASSUME LockInv, NEW t \in Threads, NEW l \in Locks, NEW STATE cw,
           cw \in [Locks -> Seq(Threads)], NEW after \in {"run", "down"},
           current = t, pc[t] = "run", holder[l] = t, ReleaseStart(t, l, cw, after)
    PROVE  LockInv'
  <1>1. \/ Panic("freed thread")
        \/ /\ pc' = [pc EXCEPT ![t] = "relhold"]
           /\ ret' = [ret EXCEPT ![t] = after]
           /\ lk' = [lk EXCEPT ![t] = l]
           /\ cond_waiters' = cw
           /\ UNCHANGED <<status, current, holder, value, sem>>
    BY ZenonT(60) DEF ReleaseStart, Goto
  <1>2. CASE /\ pc' = [pc EXCEPT ![t] = "relhold"]
             /\ ret' = [ret EXCEPT ![t] = after]
             /\ lk' = [lk EXCEPT ![t] = l]
             /\ cond_waiters' = cw
             /\ UNCHANGED <<status, current, holder, value, sem>>
    <2>1. PICK r \in PCs, k \in Locks \cup {NoLock}, s \in Sems \cup {NoSema} :
             sem = [sem EXCEPT ![t] = s]
      BY LocalsOf DEF LockInv
    <2>2. FrameOK(t, "relhold", after, l, s)
      BY DEF FrameOK, InLock
    <2>3. \A j \in Locks : InLock("relhold", after, l, s, j) <=> InLock(pc[t], ret[t], lk[t], sem[t], j)
      BY DEF InLock
    <2>4. /\ "relhold" \in PCs /\ after \in PCs
          /\ cond_waiters' \in [Locks -> Seq(Threads)]
          /\ sem' = [sem EXCEPT ![t] = s]
      BY <1>2, <2>1 DEF PCs
    <2>5. /\ pc' = [pc EXCEPT ![t] = "relhold"] /\ ret' = [ret EXCEPT ![t] = after]
          /\ lk' = [lk EXCEPT ![t] = l]
          /\ UNCHANGED <<status, current, holder, value>>
      BY <1>2
    <2> QED BY <2>2, <2>3, <2>4, <2>5, MoveStep, ZenonT(60)
  <1> QED BY <1>1, <1>2, PanicStep, ZenonT(60)

\* cond_signal ups the semaphore of a waiter, which belongs to no lock.
LEMMA SignalNextStep ==
    ASSUME LockInv, NEW t \in Threads, NEW l \in Locks, NEW after \in {"run", "bcast"},
           current = t, pc[t] \in {"run", "bcast"}, SignalNext(t, l, after)
    PROVE  LockInv'
  <1>1. \/ Panic("next != NULL")
        \/ \E i \in DOMAIN cond_waiters[l] :
              /\ pc' = [pc EXCEPT ![t] = "up"]
              /\ ret' = [ret EXCEPT ![t] = after]
              /\ lk' = [lk EXCEPT ![t] = l]
              /\ sem' = [sem EXCEPT ![t] = cond_waiters[l][i]]
              /\ cond_waiters' = [cond_waiters EXCEPT ![l] = list_remove(@, i)]
              /\ UNCHANGED <<status, current, holder, value>>
    BY ZenonT(60) DEF SignalNext, Goto, schedVars
  <1>2. ASSUME NEW i \in DOMAIN cond_waiters[l],
               pc' = [pc EXCEPT ![t] = "up"],
               ret' = [ret EXCEPT ![t] = after],
               lk' = [lk EXCEPT ![t] = l],
               sem' = [sem EXCEPT ![t] = cond_waiters[l][i]],
               cond_waiters' = [cond_waiters EXCEPT ![l] = list_remove(@, i)],
               UNCHANGED <<status, current, holder, value>>
        PROVE  LockInv'
    <2>1. cond_waiters \in [Locks -> Seq(Threads)] /\ cond_waiters[l] \in Seq(Threads)
      BY DEF LockInv, LockTypes
    <2>2. PICK w \in Threads : w = cond_waiters[l][i]
      BY <2>1
    <2>3. list_remove(cond_waiters[l], i) \in Seq(Threads)
      BY <2>1, RemoveIsSeq
    <2>4. /\ cond_waiters' \in [Locks -> Seq(Threads)]
          /\ sem' = [sem EXCEPT ![t] = w]
          /\ w \in Sems /\ w \notin Locks /\ "up" \in PCs /\ after \in PCs
      BY <1>2, <2>1, <2>2, <2>3, DistinctAssumption DEF PCs, Sems
    <2>5. FrameOK(t, "up", after, l, w)
      BY <2>4 DEF FrameOK, InLock
    <2>6. \A j \in Locks : InLock("up", after, l, w, j) <=> InLock(pc[t], ret[t], lk[t], sem[t], j)
      BY <2>4 DEF InLock
    <2>7. pc' = [pc EXCEPT ![t] = "up"] /\ ret' = [ret EXCEPT ![t] = after] /\ lk' = [lk EXCEPT ![t] = l]
      BY <1>2
    <2> QED BY <1>2, <2>4, <2>5, <2>6, <2>7, MoveStep, ZenonT(60)
  <1> QED BY <1>1, <1>2, PanicStep, ZenonT(60)

\* The locals are cleared on the way back to the thread's own code.
LEMMA ReturnStep ==
    ASSUME LockInv, NEW t \in Threads, current = t,
           pc[t] = "bcast" \/ (pc[t] = "enable" /\ ret[t] # "hold"), Return(t),
           UNCHANGED <<status, current, holder, value, cond_waiters>>
    PROVE  LockInv'
  <1>1. /\ pc' = [pc EXCEPT ![t] = "run"] /\ ret' = [ret EXCEPT ![t] = "run"]
        /\ lk' = [lk EXCEPT ![t] = NoLock] /\ sem' = [sem EXCEPT ![t] = NoSema]
    BY DEF Return, Goto
  <1>2. FrameOK(t, "run", "run", NoLock, NoSema)
    BY DEF FrameOK, InLock
  <1>3. \A l \in Locks : InLock("run", "run", NoLock, NoSema, l)
                            <=> InLock(pc[t], ret[t], lk[t], sem[t], l)
    BY DEF InLock
  <1>4. "run" \in PCs /\ cond_waiters' \in [Locks -> Seq(Threads)]
    BY DEF LockInv, LockTypes, PCs
  <1> QED BY <1>1, <1>2, <1>3, <1>4, MoveStep, ZenonT(60)

\* One iteration of cond_broadcast, which ends or signals.
LEMMA BroadcastStep ==
    ASSUME LockInv, NEW t \in Threads, cond_broadcast(t)
    PROVE  LockInv'
  <1>1. current = t /\ pc[t] = "bcast"
    BY DEF cond_broadcast, At
  <1>2. CASE cond_waiters[lk[t]] = <<>>
    <2>1. Return(t) /\ UNCHANGED <<status, current, holder, value, cond_waiters>>
      BY <1>2 DEF cond_broadcast, schedVars, syncVars
    <2> QED BY <1>1, <2>1, ReturnStep, ZenonT(60)
  <1>3. CASE cond_waiters[lk[t]] # <<>>
    <2>1. PICK l \in Locks : l = lk[t]
      BY <1>1 DEF LockInv, LockLocals, FrameOK
    <2>2. SignalNext(t, l, "bcast")
      BY <1>3, <2>1 DEF cond_broadcast
    <2> QED BY <1>1, <2>2, SignalNextStep
  <1> QED BY <1>2, <1>3

\* A thread's own call goes to place with its lock or its semaphore.
LEMMA CallStep ==
    ASSUME LockInv, NEW t \in Threads, current = t, pc[t] = "run",
           NEW place \in {"down", "up", "bcast", "enable"},
           NEW r \in {"run", "sleep"}, place = "enable" <=> r = "sleep",
           NEW k \in Locks \cup {NoLock}, place = "bcast" => k \in Locks,
           NEW s \in Sems \cup {NoSema}, place \in {"down", "up"} => s \in Semas,
           pc' = [pc EXCEPT ![t] = place], ret' = [ret EXCEPT ![t] = r],
           lk' = [lk EXCEPT ![t] = k], sem' = [sem EXCEPT ![t] = s],
           UNCHANGED <<status, current, holder, value, cond_waiters>>
    PROVE  LockInv'
  <1>1. s \in Semas => s \in Sems /\ s \notin Locks
    BY DistinctAssumption DEF Sems
  <1>2. FrameOK(t, place, r, k, s)
    BY <1>1 DEF FrameOK, InLock
  <1>3. \A l \in Locks : InLock(place, r, k, s, l) <=> InLock(pc[t], ret[t], lk[t], sem[t], l)
    BY <1>1 DEF InLock
  <1>4. place \in PCs /\ r \in PCs /\ cond_waiters' \in [Locks -> Seq(Threads)]
    BY DEF LockInv, LockTypes, PCs
  <1> QED BY <1>2, <1>3, <1>4, MoveStep, ZenonT(60)

\* thread_yield, from statuses st that already count the woken threads.
LEMMA YieldStep ==
    ASSUME LockInv, NEW STATE rq, NEW STATE st, NEW STATE pri,
           st \in [Threads -> Statuses],
           \A u \in Threads : st[u] = "UNBORN" => status[u] = "UNBORN",
           thread_yield(rq, st, pri),
           UNCHANGED <<frameVars, holder, value, cond_waiters>>
    PROVE  LockInv'
  <1> DEFINE st1 == IF current = Idle THEN st ELSE [st EXCEPT ![current] = "READY"]
             rq1 == IF current = Idle THEN rq ELSE Append(rq, current)
  <1>1. schedule(rq1, st1, pri)
    BY DEF thread_yield
  <1>2. st1 \in [Threads -> Statuses]
    BY ZenonT(60) DEF Statuses
  <1>3. \A u \in Threads : st1[u] = "UNBORN" => status[u] = "UNBORN"
    <2> SUFFICES ASSUME NEW u \in Threads, st1[u] = "UNBORN" PROVE st[u] = "UNBORN"
      OBVIOUS
    <2>1. CASE current = Idle
      BY <2>1
    <2>2. CASE current # Idle
      BY <2>2
    <2> QED BY <2>1, <2>2
  <1> HIDE DEF st1, rq1
  <1>4. /\ status' \in [Threads -> Statuses]
        /\ \A u \in Threads : status'[u] = "UNBORN" => status[u] = "UNBORN"
        /\ current' \in Threads => status'[current'] # "UNBORN"
    BY <1>1, <1>2, <1>3, ScheduleStatus
  <1> QED BY <1>4, LockInvKept

\* intr_enable moves its thread on, and may switch to another.
LEMMA EnableStep ==
    ASSUME LockInv, NEW t \in Threads, intr_enable(t)
    PROVE  LockInv'
  <1>1. current = t /\ pc[t] = "enable"
    BY DEF intr_enable, At
  <1>2. CASE thread_waiting
    <2>1. /\ thread_yield(ready_list, status, priority)
          /\ UNCHANGED <<frameVars, holder, value, cond_waiters>>
          /\ status \in [Threads -> Statuses]
      BY <1>2 DEF intr_enable, syncVars, LockInv, LockTypes
    <2> QED BY <2>1, YieldStep
  <1>3. CASE ~ thread_waiting /\ ret[t] = "run"
    <2>1. Return(t) /\ UNCHANGED <<status, current, holder, value, cond_waiters>>
      BY <1>3 DEF intr_enable, schedVars, syncVars
    <2> QED BY <1>1, <1>3, <2>1, ReturnStep
  <1>4. CASE ~ thread_waiting /\ ret[t] # "run"
    <2>1. PICK r \in PCs, k \in Locks \cup {NoLock}, s \in Sems \cup {NoSema} :
             /\ ret[t] = r /\ ret = [ret EXCEPT ![t] = r]
             /\ lk[t] = k /\ lk = [lk EXCEPT ![t] = k]
             /\ sem[t] = s /\ sem = [sem EXCEPT ![t] = s]
      BY LocalsOf DEF LockInv
    <2>2. /\ pc' = [pc EXCEPT ![t] = r]
          /\ ret' = [ret EXCEPT ![t] = r] /\ lk' = [lk EXCEPT ![t] = k]
          /\ sem' = [sem EXCEPT ![t] = IF r = "down" THEN t ELSE @]
          /\ UNCHANGED <<status, current, holder, value, cond_waiters>>
      BY <1>4, <2>1 DEF intr_enable, Goto, schedVars, syncVars
    <2>3. PICK q \in Sems \cup {NoSema} :
             sem' = [sem EXCEPT ![t] = q] /\ q = IF r = "down" THEN t ELSE s
      <3>1. t \in Sems
        BY DEF Sems
      <3> QED BY <2>1, <2>2, <3>1, ZenonT(60)
    <2>4. FrameOK(t, "enable", r, k, s)
      BY <1>1, <2>1 DEF LockInv, LockLocals
    <2>5. /\ r \in {"hold", "acq", "down", "bcast", "sleep"}
          /\ r \in {"hold", "acq", "down", "bcast"} => k \in Locks
          /\ r = "hold" => holder[k] # t
      BY <1>4, <2>1, <2>4 DEF FrameOK, InLock
    <2>6. r = "down" => q \in Sems /\ q \notin Locks
      BY <2>3, DistinctAssumption DEF Sems
    <2>7. FrameOK(t, r, r, k, q)
      BY <2>5, <2>6 DEF FrameOK, InLock
    <2>8. \A l \in Locks : InLock(r, r, k, q, l) <=> InLock(pc[t], ret[t], lk[t], sem[t], l)
      BY <1>1, <2>1, <2>5, ZenonT(60) DEF InLock
    <2>9. /\ pc' = [pc EXCEPT ![t] = r] /\ ret' = [ret EXCEPT ![t] = r] /\ lk' = [lk EXCEPT ![t] = k]
          /\ sem' = [sem EXCEPT ![t] = q]
          /\ UNCHANGED <<status, current, holder, value>>
          /\ cond_waiters' \in [Locks -> Seq(Threads)]
      BY <2>2, <2>3, ZenonT(60) DEF LockInv, LockTypes
    <2> QED BY <1>1, <2>7, <2>8, <2>9, MoveStep, ZenonT(60)
  <1> QED BY <1>2, <1>3, <1>4

\* timer_sleep's and thread_set_priority's move to intr_enable, with a thread switch.
LEMMA SwitchToEnable ==
    ASSUME LockInv, NEW t \in Threads, pc[t] \in {"run", "sleep"},
           NEW STATE rq, NEW STATE st, NEW STATE pri,
           st \in [Threads -> Statuses],
           \A u \in Threads : st[u] = "UNBORN" => u # t /\ status[u] = "UNBORN",
           schedule(rq, st, pri),
           pc' = [pc EXCEPT ![t] = "enable"],
           ret' = [ret EXCEPT ![t] = "run"],
           UNCHANGED <<lk, sem, holder, value, cond_waiters>>
    PROVE  LockInv'
  <1>1. /\ status' \in [Threads -> Statuses]
        /\ \A u \in Threads : status'[u] = "UNBORN" => status[u] = "UNBORN" /\ u # t
        /\ current' \in Threads => status'[current'] # "UNBORN"
    BY ScheduleStatus
  <1>2. PICK r \in PCs, k \in Locks \cup {NoLock}, s \in Sems \cup {NoSema} :
           lk = [lk EXCEPT ![t] = k] /\ sem = [sem EXCEPT ![t] = s]
    BY LocalsOf DEF LockInv
  <1>3. FrameOK(t, "enable", "run", k, s)
    BY DEF FrameOK, InLock
  <1>4. \A l \in Locks : InLock("enable", "run", k, s, l) <=> InLock(pc[t], ret[t], lk[t], sem[t], l)
    BY DEF InLock
  <1>5. /\ "enable" \in PCs /\ "run" \in PCs
        /\ lk' = [lk EXCEPT ![t] = k] /\ sem' = [sem EXCEPT ![t] = s] /\ holder' = holder
        /\ value' \in [Sems -> Nat] /\ \A l \in Locks : value'[l] = value[l]
        /\ cond_waiters' \in [Locks -> Seq(Threads)]
    BY <1>2 DEF LockInv, LockTypes, PCs
  <1> QED BY <1>1, <1>3, <1>4, <1>5, MoveAndSwitch, ZenonT(60)

\* The rest of timer_sleep only moves its thread.
LEMMA SleepStep ==
    ASSUME LockInv, NEW t \in Threads, thread_sleep(t)
    PROVE  LockInv'
  <1> DEFINE st == [status EXCEPT ![t] = "BLOCKED"]
  <1>1. /\ st \in [Threads -> Statuses]
        /\ \A u \in Threads : st[u] = "UNBORN" => u # t /\ status[u] = "UNBORN"
    BY DEF LockInv, LockTypes, Statuses
  <1>2. /\ pc[t] = "sleep"
        /\ schedule(ready_list, st, priority)
        /\ pc' = [pc EXCEPT ![t] = "enable"]
        /\ ret' = [ret EXCEPT ![t] = "run"]
        /\ UNCHANGED <<lk, sem, holder, value, cond_waiters>>
    BY DEF thread_sleep, At, Goto, thread_block, syncVars
  <1> HIDE DEF st
  <1> QED BY <1>1, <1>2, SwitchToEnable, ZenonT(60)

\* thread_set_priority only moves its thread and may switch.
LEMMA SetPriorityStep ==
    ASSUME LockInv, NEW t \in Threads, NEW p, thread_set_priority(t, p)
    PROVE  LockInv'
  <1> DEFINE st == [status EXCEPT ![t] = "READY"]
             pri == [priority EXCEPT ![t] = IF donations[t] = {} \/ p > @ THEN p ELSE @]
             rq == Append(ready_list, t)
  <1>1. /\ st \in [Threads -> Statuses]
        /\ \A u \in Threads : st[u] = "UNBORN" => u # t /\ status[u] = "UNBORN"
    BY DEF LockInv, LockTypes, Statuses
  <1>2. current = t /\ t # Idle /\ pc[t] = "run"
    BY IdleAssumption DEF thread_set_priority, Call, At
  <1>3. ret[t] = "run" /\ ret \in [Threads -> PCs]
    BY <1>2 DEF LockInv, LockTypes, LockLocals, FrameOK
  <1>4. thread_yield(ready_list, status, pri)
    BY DEF thread_set_priority
  <1>5. schedule(rq, st, pri)
    BY <1>2, <1>4 DEF thread_yield
  <1>6. /\ pc' = [pc EXCEPT ![t] = "enable"]
        /\ UNCHANGED <<ret, lk, sem, holder, value, cond_waiters>>
    BY DEF thread_set_priority, Goto, syncVars
  <1>7. ret' = [ret EXCEPT ![t] = "run"]
    BY <1>3, <1>6
  <1> HIDE DEF st, pri, rq
  <1> QED BY <1>1, <1>2, <1>5, <1>6, <1>7, SwitchToEnable, ZenonT(60)

\* A new thread starts without locks.
LEMMA CreateStep ==
    ASSUME LockInv, NEW t \in Threads, NEW u \in Threads, thread_create(t, u)
    PROVE  LockInv'
  <1>1. /\ current = t /\ pc[t] = "run" /\ status[u] = "UNBORN"
        /\ status' = [status EXCEPT ![u] = "READY"]
        /\ pc' = [pc EXCEPT ![t] = "enable", ![u] = "enable"]
        /\ UNCHANGED <<current, ret, lk, sem, holder, value, cond_waiters>>
    BY DEF thread_create, At, thread_unblock, syncVars
  <1>2. LockTypes /\ (\A v \in Threads : LockLocals(v)) /\ LockExclusion
    BY DEF LockInv
  <1>3. pc[u] = "run" /\ t # u
    BY <1>1, <1>2 DEF LockLocals, LockTypes
  <1>4. LockTypes'
    <2>1. pc' \in [Threads -> PCs] /\ status' \in [Threads -> Statuses]
      BY <1>1, <1>2 DEF LockTypes, PCs, Statuses
    <2>2. current' \in Threads => status'[current'] # "UNBORN"
      BY <1>1, <1>2 DEF LockTypes
    <2> QED BY <1>1, <1>2, <2>1, <2>2, ZenonT(60) DEF LockTypes
  <1>5. ASSUME NEW v \in Threads
        PROVE  LockLocals(v)' /\ \A l \in Locks : Owns(v, l)' <=> Owns(v, l)
    <2>1. CASE v \in {t, u}
      <3>1. pc[v] = "run" /\ pc'[v] = "enable" /\ status'[v] # "UNBORN"
        BY <1>1, <1>2, <1>3, <2>1 DEF LockTypes
      <3>2. ret[v] = "run" /\ ret'[v] = "run"
        BY <1>1, <1>2, <3>1, ZenonT(60) DEF LockLocals, FrameOK
      <3>3. FrameOK(v, "enable", "run", lk[v], sem[v])'
        BY <1>1 DEF FrameOK, InLock
      <3>4. \A l \in Locks : Owns(v, l)' <=> Owns(v, l)
        BY <1>1, <3>1, <3>2 DEF Owns, InLock
      <3> QED BY <3>1, <3>2, <3>3, <3>4 DEF LockLocals
    <2>2. CASE v \notin {t, u}
      <3>1. /\ pc'[v] = pc[v] /\ status'[v] = status[v]
            /\ ret'[v] = ret[v] /\ lk'[v] = lk[v] /\ sem'[v] = sem[v]
            /\ lk[v] \in Locks \cup {NoLock} /\ holder' = holder
        BY <1>1, <1>2, <2>2 DEF LockTypes
      <3> QED BY <1>2, <3>1, LocalsKept, ZenonT(60)
    <2> QED BY <2>1, <2>2
  <1>6. LockExclusion'
    BY <1>1, <1>2, <1>5, OwnersKept
  <1> QED BY <1>4, <1>5, <1>6 DEF LockInv

\* A thread that exits leaves its place in the code untouched.
LEMMA ExitStep ==
    ASSUME LockInv, NEW t \in Threads, thread_exit(t)
    PROVE  LockInv'
  <1> DEFINE st == [status EXCEPT ![t] = "DYING"]
  <1>1. /\ st \in [Threads -> Statuses]
        /\ \A u \in Threads : st[u] = "UNBORN" => status[u] = "UNBORN"
    BY DEF LockInv, LockTypes, Statuses
  <1>2. /\ schedule(ready_list, st, priority)
        /\ UNCHANGED <<frameVars, holder, value, cond_waiters>>
    BY DEF thread_exit, syncVars
  <1> HIDE DEF st
  <1> QED BY <1>1, <1>2, ScheduleStatus, LockInvKept

\* The timer interrupt wakes and switches threads, nothing else.
LEMMA TimerStep ==
    ASSUME LockInv, timer_interrupt
    PROVE  LockInv'
  <1> DEFINE rq == ready_list \o Woken
             st == [t \in Threads |-> IF t \in Elements(Woken) THEN "READY" ELSE status[t]]
  <1>1. /\ st \in [Threads -> Statuses]
        /\ \A u \in Threads : st[u] = "UNBORN" => status[u] = "UNBORN"
    BY DEF LockInv, LockTypes, Statuses
  <1>2. /\ thread_yield(rq, st, priority) \/ (status' = st /\ UNCHANGED current)
        /\ UNCHANGED <<frameVars, holder, value, cond_waiters>>
    BY DEF timer_interrupt, syncVars
  <1> HIDE DEF rq, st
  <1>3. CASE thread_yield(rq, st, priority)
    BY <1>1, <1>2, <1>3, YieldStep
  <1>4. CASE status' = st /\ UNCHANGED current
    <2>1. current' \in Threads => status'[current'] # "UNBORN"
      BY <1>1, <1>4 DEF LockInv, LockTypes
    <2> QED BY <1>1, <1>2, <1>4, <2>1, LockInvKept
  <1> QED BY <1>2, <1>3, <1>4

\* Neither does the idle thread take or give a lock.
LEMMA IdleStep ==
    ASSUME LockInv, idle
    PROVE  LockInv'
  <1>1. /\ status \in [Threads -> Statuses]
        /\ schedule(ready_list, status, priority)
        /\ UNCHANGED <<frameVars, holder, value, cond_waiters>>
    BY DEF idle, LockInv, LockTypes, syncVars
  <1> QED BY <1>1, ScheduleStatus, LockInvKept

\* Every step of a thread keeps the invariant: one case per action.
LEMMA ThreadLockInv ==
    ASSUME LockInv, NEW t \in Threads, ThreadStep(t)
    PROVE  LockInv'
  <1>0. PICK r0 \in PCs, k0 \in Locks \cup {NoLock}, s0 \in Sems \cup {NoSema} :
           /\ pc[t] = "run" => ret = [ret EXCEPT ![t] = "run"]
           /\ lk = [lk EXCEPT ![t] = k0]
           /\ sem = [sem EXCEPT ![t] = s0]
    <2>1. LockTypes /\ (pc[t] = "run" => ret[t] = "run")
      BY ZenonT(60) DEF LockInv, LockLocals, FrameOK
    <2> QED BY <2>1, LocalsOf
  <1>1. ASSUME NEW l \in Locks, lock_acquire(t, l) PROVE LockInv'
    BY <1>1, AcquireCheckStep, ZenonT(60) DEF lock_acquire, Call, At
  <1>2. ASSUME NEW l \in Locks, lock_try_acquire(t, l) PROVE LockInv'
    BY <1>2, TryDownStep, ZenonT(60) DEF lock_try_acquire, Call, At
  <1>3. ASSUME NEW l \in Locks, lock_release(t, l) PROVE LockInv'
    BY <1>3, ReleaseStartStep, ZenonT(60) DEF lock_release, At, LockInv, LockTypes
  <1>4. ASSUME NEW l \in Locks, cond_wait(t, l) PROVE LockInv'
    <2> DEFINE cw == [cond_waiters EXCEPT ![l] = Append(@, t)]
    <2>1. cw \in [Locks -> Seq(Threads)]
      BY DEF LockInv, LockTypes
    <2>2. current = t /\ pc[t] = "run" /\ holder[l] = t /\ ReleaseStart(t, l, cw, "down")
      BY <1>4, ZenonT(30) DEF cond_wait, Call, At
    <2> HIDE DEF cw
    <2> QED BY <2>1, <2>2, ReleaseStartStep, ZenonT(60)
  <1>5. ASSUME NEW l \in Locks, cond_signal(t, l) PROVE LockInv'
    BY <1>5, SignalNextStep, ZenonT(30) DEF cond_signal, Call, At
  <1>6. ASSUME NEW l \in Locks, call_cond_broadcast(t, l) PROVE LockInv'
    <2>1. /\ current = t /\ pc[t] = "run" /\ pc' = [pc EXCEPT ![t] = "bcast"]
          /\ lk' = [lk EXCEPT ![t] = l]
          /\ UNCHANGED <<status, current, holder, value, cond_waiters, ret, sem>>
      BY <1>6 DEF call_cond_broadcast, Call, At, Goto, schedVars, syncVars
    <2>2. ret' = [ret EXCEPT ![t] = "run"] /\ sem' = [sem EXCEPT ![t] = s0]
      BY <1>0, <2>1
    <2> QED BY <2>1, <2>2, CallStep, ZenonT(60)
  <1>7. ASSUME NEW s \in Semas, call_sema_down(t, s) \/ call_sema_up(t, s) PROVE LockInv'
    <2>1. PICK place \in {"down", "up"} :
             /\ current = t /\ pc[t] = "run" /\ pc' = [pc EXCEPT ![t] = place]
             /\ sem' = [sem EXCEPT ![t] = s]
             /\ UNCHANGED <<status, current, holder, value, cond_waiters, ret, lk>>
      BY <1>7 DEF call_sema_down, call_sema_up, Call, At, Goto, schedVars, syncVars
    <2>2. ret' = [ret EXCEPT ![t] = "run"] /\ lk' = [lk EXCEPT ![t] = k0] /\ s \in Sems
      BY <1>0, <2>1 DEF Sems
    <2> QED BY <2>1, <2>2, CallStep, ZenonT(60)
  <1>8. ASSUME NEW s \in Semas, call_sema_try_down(t, s) PROVE LockInv'
    BY <1>8, TryDownStep DEF call_sema_try_down, Call, At
  <1>9. ASSUME cond_reacquire(t) PROVE LockInv'
    <2>1. PICK l \in Locks : l = lk[t]
      BY <1>9, ZenonT(60) DEF cond_reacquire, At, LockInv, LockLocals, FrameOK
    <2> QED BY <1>9, <2>1, AcquireCheckStep, ZenonT(60) DEF cond_reacquire, At
  <1>10. ASSUME NEW n \in 0..MaxSleep, timer_sleep(t, n) PROVE LockInv'
    <2>1. /\ current = t /\ pc[t] = "run" /\ pc' = [pc EXCEPT ![t] = "enable"]
          /\ ret' = [ret EXCEPT ![t] = "sleep"]
          /\ UNCHANGED <<status, current, holder, value, cond_waiters, lk, sem>>
      BY <1>10 DEF timer_sleep, Call, At, Goto, schedVars, syncVars
    <2>2. lk' = [lk EXCEPT ![t] = k0] /\ sem' = [sem EXCEPT ![t] = s0]
      BY <1>0, <2>1
    <2> QED BY <2>1, <2>2, CallStep, ZenonT(60)
  <1> QED
    BY <1>1, <1>2, <1>3, <1>4, <1>5, <1>6, <1>7, <1>8, <1>9, <1>10, DonateStep, ChainStep,
       SetHolderStep, DownStep, UpStep, ClearHolderStep, BroadcastStep, EnableStep, SleepStep,
       CreateStep, SetPriorityStep, ExitStep, ZenonT(60)
    DEF ThreadStep

(***************************************************************************)
(* At most one thread has a lock, and its semaphore is 0 exactly while one *)
(* does: lock_acquire, lock_try_acquire, lock_release and cond_wait, with  *)
(* any number of threads and locks.                                        *)
(***************************************************************************)
THEOREM LockExclusionHolds == Spec => []LockExclusion
  <1>1. Init => LockInv
    BY LockInvInit
  <1>2. LockInv /\ [Next]_vars => LockInv'
    <2> SUFFICES ASSUME LockInv, [Next]_vars PROVE LockInv'
      OBVIOUS
    <2>1. CASE UNCHANGED vars
      BY <2>1, LockInvKept DEF vars, schedVars, syncVars, LockInv, LockTypes
    <2>2. CASE Halted
      BY <2>2, LockInvKept DEF Halted, vars, schedVars, syncVars, LockInv, LockTypes
    <2> QED BY <2>1, <2>2, ThreadLockInv, TimerStep, IdleStep DEF Next
  <1>3. LockInv => LockExclusion
    BY DEF LockInv
  <1> QED BY <1>1, <1>2, <1>3, PTL DEF Spec

============================================================================
