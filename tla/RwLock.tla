------------------------------ MODULE RwLock -------------------------------
(***************************************************************************)
(* The reader/writer lock of the buffer cache (struct rw_lock and the      *)
(* cache_read_*, cache_write_*, cache_upgrade and cache_downgrade          *)
(* operations of filesys/cache.c), one per cache block.                    *)
(*                                                                         *)
(* The locks r and extra and the semaphore g are taken and given in one    *)
(* step each: Synch.tla shows that locks exclude each other.  b is only    *)
(* changed by the holder of r, in the same step as r is taken.             *)
(*                                                                         *)
(* lpc[p] is the place process p has reached in an operation on the block  *)
(* blk[p]; what the operation does next is the name of the place.          *)
(***************************************************************************)
EXTENDS Integers, FiniteSets

CONSTANTS
    Procs,    \* the threads that use the cache
    Blocks,   \* the cache blocks
    NoProc    \* no holder

ASSUME ProcsAssumption == IsFiniteSet(Procs) /\ NoProc \notin Procs

VARIABLES
    r,      \* block -> holder of lock.r
    extra,  \* block -> holder of lock.extra
    g,      \* block -> value of semaphore lock.g
    b,      \* block -> lock.b, the number of accessors
    lpc,    \* process -> its place in an operation, "none" between operations
    blk,    \* process -> the block it operates on
    hold,   \* process -> block -> what the process has: "none", "read", "write"
    failed  \* an ASSERT has failed

lockVars == <<r, extra, g, b, lpc, blk, hold, failed>>

Modes == {"none", "read", "write"}

Places ==
    {"none",
     "read_extra", "read_down", "read_release", "read_unlock",
     "try_unlock",
     "end_up", "end_unlock",
     "write_down", "write_release",
     "upgrade_extra", "upgrade_unlock", "upgrade_down", "unlock"}

LockInit ==
    /\ r = [c \in Blocks |-> NoProc]
    /\ extra = [c \in Blocks |-> NoProc]
    /\ g = [c \in Blocks |-> 1]
    /\ b = [c \in Blocks |-> 0]
    /\ lpc = [p \in Procs |-> "none"]
    /\ blk = [p \in Procs |-> CHOOSE c \in Blocks : TRUE]
    /\ hold = [p \in Procs |-> [c \in Blocks |-> "none"]]
    /\ failed = FALSE

\* Process p, between two operations, goes to place in an operation on block c.
Enter(p, c, place) ==
    /\ lpc[p] = "none"
    /\ lpc' = [lpc EXCEPT ![p] = place]
    /\ blk' = [blk EXCEPT ![p] = c]

Step(p, from, to) ==
    /\ lpc[p] = from
    /\ lpc' = [lpc EXCEPT ![p] = to]
    /\ UNCHANGED blk

Has(p, c, mode) == hold' = [hold EXCEPT ![p][c] = mode]

\* lock_acquire(&r); b = n.
LockR(p, c, n) ==
    /\ r[c] = NoProc
    /\ r' = [r EXCEPT ![c] = p]
    /\ b' = [b EXCEPT ![c] = n]

-----------------------------------------------------------------------------
\* cache_read_begin: the first accessor takes g for all of them.

cache_read_begin(p, c) ==
    /\ hold[p][c] = "none"
    /\ Enter(p, c, IF b[c] + 1 = 1 THEN "read_extra" ELSE "read_unlock")
    /\ LockR(p, c, b[c] + 1)
    /\ UNCHANGED <<extra, g, hold, failed>>

read_extra(p) ==
    /\ Step(p, "read_extra", "read_down")
    /\ extra[blk[p]] = NoProc
    /\ extra' = [extra EXCEPT ![blk[p]] = p]
    /\ UNCHANGED <<r, g, b, hold, failed>>

read_down(p) ==
    /\ Step(p, "read_down", "read_release")
    /\ g[blk[p]] > 0
    /\ g' = [g EXCEPT ![blk[p]] = @ - 1]
    /\ UNCHANGED <<r, extra, b, hold, failed>>

read_release(p) ==
    /\ Step(p, "read_release", "read_unlock")
    /\ extra' = [extra EXCEPT ![blk[p]] = NoProc]
    /\ UNCHANGED <<r, g, b, hold, failed>>

read_unlock(p) ==
    /\ Step(p, "read_unlock", "none")
    /\ r' = [r EXCEPT ![blk[p]] = NoProc]
    /\ Has(p, blk[p], "read")
    /\ UNCHANGED <<extra, g, b, failed>>

\* Mutant: a failed try leaves the accessor counted.
cache_read_try_counted(p, c) ==
    /\ hold[p][c] = "none"
    /\ UNCHANGED <<extra, hold, failed>>
    /\ Enter(p, c, IF b[c] + 1 = 1 /\ g[c] = 0 THEN "try_unlock" ELSE "read_unlock")
    /\ LockR(p, c, b[c] + 1)
    /\ g' = [g EXCEPT ![c] = IF b[c] + 1 = 1 /\ @ > 0 THEN @ - 1 ELSE @]

\* Mutant: the first accessor does not take g.
cache_read_try_without_g(p, c) ==
    /\ hold[p][c] = "none"
    /\ UNCHANGED <<extra, g, hold, failed>>
    /\ Enter(p, c, "read_unlock")
    /\ LockR(p, c, b[c] + 1)

(***************************************************************************)
(* cache_read_try: gives up at once when r is taken (no step), and when    *)
(* the first accessor cannot have g.                                       *)
(***************************************************************************)
cache_read_try(p, c) ==
    /\ hold[p][c] = "none"
    /\ UNCHANGED <<extra, hold, failed>>
    /\ IF b[c] + 1 = 1 /\ g[c] = 0
       THEN /\ Enter(p, c, "try_unlock")
            /\ LockR(p, c, b[c])
            /\ UNCHANGED g
       ELSE /\ Enter(p, c, "read_unlock")
            /\ LockR(p, c, b[c] + 1)
            /\ g' = [g EXCEPT ![c] = IF b[c] + 1 = 1 THEN @ - 1 ELSE @]

\* Mutant: every accessor gives g back.
cache_read_end_every_up(p, c) ==
    /\ hold[p][c] = "read"
    /\ Has(p, c, "none")
    /\ Enter(p, c, "end_up")
    /\ LockR(p, c, b[c] - 1)
    /\ UNCHANGED <<extra, g, failed>>

\* Mutant: the test for the last accessor is off by one.
cache_read_end_off_by_one(p, c) ==
    /\ hold[p][c] = "read"
    /\ Has(p, c, "none")
    /\ Enter(p, c, IF b[c] - 1 = 1 THEN "end_up" ELSE "end_unlock")
    /\ LockR(p, c, b[c] - 1)
    /\ UNCHANGED <<extra, g, failed>>

\* The last accessor gives g back.
cache_read_end(p, c) ==
    /\ hold[p][c] = "read"
    /\ Has(p, c, "none")
    /\ Enter(p, c, IF b[c] - 1 = 0 THEN "end_up" ELSE "end_unlock")
    /\ LockR(p, c, b[c] - 1)
    /\ UNCHANGED <<extra, g, failed>>

end_up(p) ==
    /\ Step(p, "end_up", "end_unlock")
    /\ g' = [g EXCEPT ![blk[p]] = @ + 1]
    /\ UNCHANGED <<r, extra, b, hold, failed>>

\* The lock_release(&r) of cache_read_try when it fails, of cache_read_end,
\* of cache_downgrade and of cache_upgrade by the only accessor.
unlock(p) ==
    /\ \E from \in {"try_unlock", "end_unlock", "unlock"} : Step(p, from, "none")
    /\ r' = [r EXCEPT ![blk[p]] = NoProc]
    /\ UNCHANGED <<extra, g, b, hold, failed>>

-----------------------------------------------------------------------------
\* Writing

cache_write_begin(p, c) ==
    /\ hold[p][c] = "none"
    /\ Enter(p, c, "write_down")
    /\ extra[c] = NoProc
    /\ extra' = [extra EXCEPT ![c] = p]
    /\ UNCHANGED <<r, g, b, hold, failed>>

\* The sema_down(&g) of cache_write_begin and of cache_upgrade.
write_down(p) ==
    /\ \E from \in {"write_down", "upgrade_down"} : Step(p, from, "write_release")
    /\ g[blk[p]] > 0
    /\ g' = [g EXCEPT ![blk[p]] = @ - 1]
    /\ Has(p, blk[p], "write")
    /\ UNCHANGED <<r, extra, b, failed>>

write_release(p) ==
    /\ Step(p, "write_release", "none")
    /\ extra' = [extra EXCEPT ![blk[p]] = NoProc]
    /\ UNCHANGED <<r, g, b, hold, failed>>

\* cache_write_try; when g is taken it gives up (no step).
cache_write_try(p, c) ==
    /\ hold[p][c] = "none"
    /\ Enter(p, c, "none")
    /\ g[c] > 0
    /\ g' = [g EXCEPT ![c] = @ - 1]
    /\ Has(p, c, "write")
    /\ UNCHANGED <<r, extra, b, failed>>

cache_write_end(p, c) ==
    /\ hold[p][c] = "write"
    /\ Enter(p, c, "none")
    /\ g' = [g EXCEPT ![c] = @ + 1]
    /\ Has(p, c, "none")
    /\ UNCHANGED <<r, extra, b, failed>>

\* Mutant: an accessor among others becomes the writer too.
cache_upgrade_among_others(p, c) ==
    /\ hold[p][c] = "read"
    /\ LockR(p, c, b[c] - 1)
    /\ UNCHANGED <<extra, g, failed>>
    /\ Enter(p, c, "unlock")
    /\ Has(p, c, "write")

(***************************************************************************)
(* cache_upgrade: the only accessor keeps g and is the writer; any other   *)
(* waits for g with extra, having given r back.                            *)
(***************************************************************************)
cache_upgrade(p, c) ==
    /\ hold[p][c] = "read"
    /\ LockR(p, c, b[c] - 1)
    /\ UNCHANGED <<extra, g, failed>>
    /\ IF b[c] - 1 = 0 THEN Enter(p, c, "unlock") /\ Has(p, c, "write")
                       ELSE Enter(p, c, "upgrade_extra") /\ Has(p, c, "none")

upgrade_extra(p) ==
    /\ Step(p, "upgrade_extra", "upgrade_unlock")
    /\ extra[blk[p]] = NoProc
    /\ extra' = [extra EXCEPT ![blk[p]] = p]
    /\ UNCHANGED <<r, g, b, hold, failed>>

upgrade_unlock(p) ==
    /\ Step(p, "upgrade_unlock", "upgrade_down")
    /\ r' = [r EXCEPT ![blk[p]] = NoProc]
    /\ UNCHANGED <<extra, g, b, hold, failed>>

\* cache_downgrade, with ASSERT(b == 0).
cache_downgrade(p, c) ==
    /\ hold[p][c] = "write"
    /\ Enter(p, c, "unlock")
    /\ LockR(p, c, b[c] + 1)
    /\ Has(p, c, "read")
    /\ failed' = (failed \/ b[c] # 0)
    /\ UNCHANGED <<extra, g>>

-----------------------------------------------------------------------------
\* An operation of p goes on; and p, between operations, starts one.

LockStep(p) ==
    \/ read_extra(p)
    \/ read_down(p)
    \/ read_release(p)
    \/ read_unlock(p)
    \/ end_up(p)
    \/ unlock(p)
    \/ write_down(p)
    \/ write_release(p)
    \/ upgrade_extra(p)
    \/ upgrade_unlock(p)

\* Letting go of what p has.
EndOp(p, c) ==
    \/ cache_read_end(p, c)
    \/ cache_write_end(p, c)

StartOp(p, c) ==
    \/ cache_read_begin(p, c)
    \/ cache_read_try(p, c)
    \/ cache_write_begin(p, c)
    \/ cache_write_try(p, c)
    \/ cache_upgrade(p, c)
    \/ cache_downgrade(p, c)

-----------------------------------------------------------------------------
\* Properties

\* Every variable has its type.
TypeOK ==
    /\ r \in [Blocks -> Procs \cup {NoProc}]
    /\ extra \in [Blocks -> Procs \cup {NoProc}]
    /\ g \in [Blocks -> {0, 1}]
    /\ b \in [Blocks -> Nat]
    /\ lpc \in [Procs -> Places]
    /\ blk \in [Procs -> Blocks]
    /\ hold \in [Procs -> [Blocks -> Modes]]
    /\ failed \in BOOLEAN

(***************************************************************************)
(* No thread reads or writes a block while another one writes to it (what  *)
(* g, b and the upgrade of the only accessor are for).                     *)
(***************************************************************************)
RwExclusion ==
    \A p, q \in Procs, c \in Blocks :
        hold[p][c] = "write" /\ p # q => hold[q][c] = "none"

\* ASSERT(cache_block->lock.b == 0) of cache_downgrade never fails.
DowngradeAssertion == ~ failed

\* The lock keeps the promise of RwLockAbs, step by step.
Abs == INSTANCE RwLockAbs
AbsSpec == Abs!Spec
=============================================================================
