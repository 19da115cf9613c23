---------------------------- MODULE BufferCache ----------------------------
(***************************************************************************)
(* The buffer cache of filesys/cache.c: find_block, cache_evict, the       *)
(* calls that read and write a block, the refresh thread and the thread    *)
(* that reads ahead, running over the reader/writer locks of RwLock.       *)
(*                                                                         *)
(* A process has one of four roles.  "user" makes calls as inode.c does:   *)
(* cache_read_block or cache_write_block, the access, and the end of it.   *)
(* "refresh" is refresh_cache_cycle.  "ahead" is cache_read_ahead while it *)
(* serves one request; it never gives its access back, so each request has *)
(* a process of its own.  "lock" calls the operations of the lock on the   *)
(* first block in any order that makes sense.                              *)
(*                                                                         *)
(* A sector's contents are the process that wrote it last, NoProc at first.*)
(* The blocks' ages are left out: cache_evict may prefer any block.  When   *)
(* the cache does something from which its contents cannot be right again, *)
(* broken names it and nothing follows.                                    *)
(***************************************************************************)
EXTENDS RwLock

CONSTANTS
    Casts,        \* the choices of role, of how many calls each process starts,
                  \* and of the sectors that are in the cache by then
    SectorsOf,    \* process -> the sectors it asks for
    DeviceSize    \* block_size(fs_device)

ASSUME BlocksAssumption == 1 \in Blocks /\ 0 \notin Blocks

\* Sector 0 is DEBUG_SECTOR, which free_map_init gives to no file.
Sectors == 1 .. (DeviceSize - 1)
ASSUME SectorsAssumption == DeviceSize \in Nat /\ \A p \in Procs : SectorsOf[p] \subseteq Sectors

VARIABLES
    role,     \* process -> its role; never changes
    ops,      \* process -> calls it may still start
    sector,   \* block -> the sector it holds, 0 at first
    valid,    \* blocks that are valid
    dirty,    \* blocks that are dirty
    data,     \* block -> its contents
    disk,     \* sector -> contents on the device
    latest,   \* history: sector -> what was last written to it
    cpc,      \* process -> its place in a call, "idle" between calls
    req,      \* process -> the sector asked for, and whether to write
    at,       \* process -> the block a loop has reached, or found
    victim,   \* process -> the best block to evict so far, or 0
    ahead,    \* next_block while read_ahead is set, else 0
    broken    \* what went wrong, or "no"

blockVars == <<sector, valid, dirty, data, disk, latest>>
callVars == <<req, at, victim>>
vars == <<lockVars, blockVars, callVars, role, ops, cpc, ahead, broken>>

NoReq == [s |-> 0, write |-> FALSE]

Init ==
    /\ LockInit
    /\ \E cast \in Casts : /\ role = cast.role /\ ops = cast.calls
                          /\ sector = cast.cached
                          /\ valid = {c \in Blocks : cast.cached[c] # 0}
    /\ dirty = {}
    /\ data = [c \in Blocks |-> NoProc]
    /\ disk = [s \in Sectors |-> NoProc]
    /\ latest = [s \in Sectors |-> NoProc]
    /\ cpc = [p \in Procs |-> "idle"]
    /\ req = [p \in Procs |-> NoReq]
    /\ at = [p \in Procs |-> 1]
    /\ victim = [p \in Procs |-> 0]
    /\ ahead = 0
    /\ broken = "no"

\* p, between two operations of the locks, is at from and goes to to.
Move(p, from, to) ==
    /\ broken = "no" /\ lpc[p] = "none" /\ cpc[p] = from
    /\ cpc' = [cpc EXCEPT ![p] = to]
    /\ UNCHANGED <<role, ops>>

Go(p, from, to) == Move(p, from, to) /\ UNCHANGED ahead

\* The next block of a loop, or where to go after the last.
Advance(p, from, again, after) ==
    /\ Go(p, from, IF at[p] + 1 \in Blocks THEN again ELSE after)
    /\ at' = [at EXCEPT ![p] = IF @ + 1 \in Blocks THEN @ + 1 ELSE 1]

Breaks(p, from, why) ==
    /\ Go(p, from, from)
    /\ broken' = why
    /\ UNCHANGED <<lockVars, blockVars, callVars>>

-----------------------------------------------------------------------------
\* find_block

\* The search for the sector, which takes no lock; store sees to it that one
\* block at most has the sector.
Holding(s) == {c \in Blocks : sector[c] = s}
find_block(p, s, write) ==
    /\ ops[p] > 0
    /\ broken = "no" /\ lpc[p] = "none" /\ cpc[p] = "idle"
    /\ IF s \notin Sectors
       THEN broken' = "sector past the end" /\ UNCHANGED <<ops, req, cpc, at>>
       ELSE /\ ops' = [ops EXCEPT ![p] = @ - 1]
            /\ req' = [req EXCEPT ![p] = [s |-> s, write |-> write]]
            /\ IF Holding(s) = {}
               THEN /\ cpc' = [cpc EXCEPT ![p] = "scan"]
                    /\ at' = [at EXCEPT ![p] = 1]
               ELSE /\ cpc' = [cpc EXCEPT ![p] = "hit"]
                    /\ \E c \in Holding(s) : at' = [at EXCEPT ![p] = c]
            /\ UNCHANGED broken
    /\ UNCHANGED <<lockVars, blockVars, victim, role, ahead>>

\* cache_read_block and cache_write_block
cache_block(p) ==
    /\ role[p] = "user"
    /\ \E s \in SectorsOf[p], write \in BOOLEAN : find_block(p, s, write)

\* The next request; the one before is over.
cache_read_ahead(p) ==
    /\ role[p] = "ahead" /\ ahead # 0
    /\ \A q \in Procs : role[q] = "ahead" => cpc[q] = "idle"
    /\ find_block(p, ahead, FALSE)

hit(p) ==
    /\ Go(p, "hit", "check")
    /\ cache_read_begin(p, at[p])
    /\ UNCHANGED <<blockVars, callVars, broken>>

\* ASSERT(buffer[i].sector == sector)
check(p) ==
    IF sector[at[p]] = req[p].s
    THEN Go(p, "check", "request") /\ UNCHANGED <<lockVars, blockVars, callVars, broken>>
    ELSE Breaks(p, "check", "block of another sector")

\* The loop over the blocks for an invalid one: cache_write_try, the test of
\* valid, cache_write_end, which gives g back and then marks the block dirty.
scan(p) ==
    \/ /\ g[at[p]] = 0
       /\ Advance(p, "scan", "scan", "evict")
       /\ UNCHANGED <<lockVars, blockVars, req, victim, broken>>
    \/ /\ Go(p, "scan", "test")
       /\ cache_write_try(p, at[p])
       /\ UNCHANGED <<blockVars, callVars, broken>>

scan_free(p) ==
    /\ at[p] \notin valid
    /\ Go(p, "test", "import")
    /\ valid' = valid \cup {at[p]}
    /\ UNCHANGED <<lockVars, sector, dirty, data, disk, latest, callVars, broken>>

scan_used(p) ==
    /\ at[p] \in valid
    /\ Go(p, "test", "scan_mark")
    /\ cache_write_end(p, at[p])
    /\ UNCHANGED <<blockVars, callVars, broken>>

Mark(c) == /\ dirty' = dirty \cup {c}
           /\ UNCHANGED <<lockVars, sector, valid, data, disk, latest, broken>>

scan_mark(p) ==
    /\ Advance(p, "scan_mark", "scan", "evict")
    /\ Mark(at[p])
    /\ UNCHANGED <<req, victim>>

\* cache_evict: the write locks of the block reached and of the best so far
\* are held together, and one of the two is given back.
evict(p) ==
    \/ /\ g[at[p]] = 0
       /\ Advance(p, "evict", "evict", "write_out")
       /\ UNCHANGED <<lockVars, blockVars, req, victim, broken>>
    \/ /\ Go(p, "evict", "compare")
       /\ cache_write_try(p, at[p])
       /\ UNCHANGED <<blockVars, callVars, broken>>

compare(p) ==
    IF at[p] \notin valid THEN Breaks(p, "compare", "assertion")
    ELSE \/ /\ victim[p] = 0
            /\ Advance(p, "compare", "evict", "write_out")
            /\ victim' = [victim EXCEPT ![p] = at[p]]
            /\ UNCHANGED <<lockVars, blockVars, req, broken>>
         \/ /\ victim[p] # 0
            /\ Go(p, "compare", "evict_mark")
            /\ \E worse \in {at[p], victim[p]} :
                 /\ cache_write_end(p, worse)
                 /\ victim' = [victim EXCEPT ![p] = IF worse = @ THEN at[p] ELSE @]
            /\ UNCHANGED <<blockVars, req, at, broken>>

\* blk[p] is the block whose lock was given back.
evict_mark(p) ==
    /\ Advance(p, "evict_mark", "evict", "write_out")
    /\ Mark(blk[p])
    /\ UNCHANGED <<req, victim>>

\* A block that a writer has let go of and not yet marked loses its data.
Unmarked(c) == \E q \in Procs : cpc[q] = "write_mark" /\ at[q] = c /\ c \notin dirty
\* Mutant: a dirty victim is not written.
write_out_never(p) ==
    IF victim[p] = 0 THEN Breaks(p, "write_out", "cache locked down")
    ELSE IF Unmarked(victim[p]) THEN Breaks(p, "write_out", "evicted before it was marked")
    ELSE /\ Go(p, "write_out", "import")
         /\ at' = [at EXCEPT ![p] = victim[p]]
         /\ victim' = [victim EXCEPT ![p] = 0]
         /\ UNCHANGED <<lockVars, blockVars, req, broken>>
write_out(p) ==
    IF victim[p] = 0 THEN Breaks(p, "write_out", "cache locked down")
    ELSE IF Unmarked(victim[p]) THEN Breaks(p, "write_out", "evicted before it was marked")
    ELSE /\ Go(p, "write_out", "import")
         /\ disk' = IF victim[p] \in dirty
                    THEN [disk EXCEPT ![sector[victim[p]]] = data[victim[p]]] ELSE disk
         /\ at' = [at EXCEPT ![p] = victim[p]]
         /\ victim' = [victim EXCEPT ![p] = 0]
         /\ UNCHANGED <<lockVars, sector, valid, dirty, data, latest, req, broken>>

\* block_read, and then the block's new fields: by then another thread may
\* have loaded the sector, and even have changed it and let it go again.
import(p) ==
    /\ Go(p, "import", "store")
    /\ data' = [data EXCEPT ![at[p]] = disk[req[p].s]]
    /\ UNCHANGED <<lockVars, sector, valid, dirty, disk, latest, callVars, broken>>

store(p) ==
    /\ cpc[p] = "store"
    /\ IF Holding(req[p].s) \ {at[p]} # {} \/ data[at[p]] # disk[req[p].s]
       THEN Breaks(p, "store", "sector loaded twice")
       ELSE /\ Go(p, "store", "downgrade")
            /\ sector' = [sector EXCEPT ![at[p]] = req[p].s]
            /\ dirty' = dirty \ {at[p]}
            /\ UNCHANGED <<lockVars, valid, data, disk, latest, callVars, broken>>

downgrade(p) ==
    /\ Go(p, "downgrade", "request")
    /\ cache_downgrade(p, at[p])
    /\ UNCHANGED <<blockVars, callVars, broken>>

\* Hit or miss, the next sector is asked for.
request(p) ==
    /\ Move(p, "request", "found")
    /\ ahead' = req[p].s + 1
    /\ UNCHANGED <<lockVars, blockVars, callVars, broken>>

-----------------------------------------------------------------------------
\* The access

\* The call is over, and its local variables with it.
Returned(p) == /\ req' = [req EXCEPT ![p] = NoReq]
               /\ at' = [at EXCEPT ![p] = 1]
               /\ UNCHANGED victim

\* cache_read_block has returned; the reader reads, and calls cache_read_end
read_block(p) ==
    /\ role[p] = "user" /\ ~req[p].write
    /\ Go(p, "found", "idle")
    /\ cache_read_end(p, at[p])
    /\ Returned(p)
    /\ UNCHANGED <<blockVars, broken>>

\* The thread that reads ahead has no more to do, and keeps the access.
read_ahead_done(p) ==
    /\ role[p] = "ahead"
    /\ Move(p, "found", "idle")
    /\ ahead' = 0
    /\ Returned(p)
    /\ UNCHANGED <<lockVars, blockVars, broken>>

\* cache_write_block: the upgrade
write_block(p) ==
    /\ req[p].write
    /\ Go(p, "found", "writing")
    /\ cache_upgrade(p, at[p])
    /\ UNCHANGED <<blockVars, callVars, broken>>

\* While it waited without the lock, another sector may have come in.
writing(p) ==
    IF sector[at[p]] # req[p].s THEN Breaks(p, "writing", "block of another sector")
    ELSE /\ Go(p, "writing", "write_end")
         /\ data' = [data EXCEPT ![at[p]] = p]
         /\ latest' = [latest EXCEPT ![req[p].s] = p]
         /\ UNCHANGED <<lockVars, sector, valid, dirty, disk, callVars, broken>>

write_end(p) ==
    /\ Go(p, "write_end", "write_mark")
    /\ cache_write_end(p, at[p])
    /\ UNCHANGED <<blockVars, callVars, broken>>

write_mark(p) ==
    /\ Go(p, "write_mark", "idle")
    /\ Mark(at[p])
    /\ Returned(p)

\* refresh_cache: every valid block that cache_read_try gets is written
refresh_try(p, c) ==
    /\ role[p] = "refresh" /\ c \in valid /\ ops[p] > 0
    /\ broken = "no" /\ lpc[p] = "none" /\ cpc[p] = "idle"
    /\ ops' = [ops EXCEPT ![p] = @ - 1]
    /\ cpc' = [cpc EXCEPT ![p] = "refresh"]
    /\ cache_read_try(p, c)
    /\ UNCHANGED <<blockVars, callVars, role, ahead, broken>>

refresh_write(p) ==
    /\ Go(p, "refresh", "refresh_end")
    /\ hold[p][blk[p]] = "read"
    /\ disk' = IF blk[p] \in dirty THEN [disk EXCEPT ![sector[blk[p]]] = data[blk[p]]] ELSE disk
    /\ dirty' = dirty \ {blk[p]}
    /\ UNCHANGED <<lockVars, sector, valid, data, latest, callVars, broken>>

refresh_end(p) ==
    \/ /\ Go(p, "refresh_end", "idle")
       /\ cache_read_end(p, blk[p])
       /\ UNCHANGED <<blockVars, callVars, broken>>
    \/ /\ Go(p, "refresh", "idle")
       /\ hold[p][blk[p]] = "none"
       /\ UNCHANGED <<lockVars, blockVars, callVars, broken>>

-----------------------------------------------------------------------------
\* Processes that only use the lock of the first block, and the whole.

LockUse(p) ==
    /\ role[p] = "lock"
    /\ \/ StartOp(p, 1) /\ ops[p] > 0 /\ ops' = [ops EXCEPT ![p] = @ - 1]
       \/ EndOp(p, 1) /\ UNCHANGED ops
    /\ UNCHANGED <<blockVars, callVars, role, cpc, ahead, broken>>

LockEnd(p) == role[p] = "lock" /\ LockUse(p) /\ EndOp(p, 1)

Continue(p) ==
    /\ broken = "no" /\ LockStep(p)
    /\ UNCHANGED <<blockVars, callVars, role, ops, cpc, ahead, broken>>

Proceed(p) ==
    \/ hit(p) \/ check(p) \/ scan(p) \/ scan_free(p) \/ scan_used(p) \/ scan_mark(p)
    \/ evict(p) \/ compare(p) \/ evict_mark(p) \/ write_out(p) \/ import(p) \/ store(p)
    \/ downgrade(p) \/ request(p) \/ read_block(p) \/ read_ahead_done(p) \/ write_block(p)
    \/ writing(p) \/ write_end(p) \/ write_mark(p) \/ refresh_write(p) \/ refresh_end(p)

Next ==
    \E p \in Procs :
        \/ Continue(p)
        \/ Proceed(p)
        \/ cache_block(p)
        \/ cache_read_ahead(p)
        \/ \E c \in Blocks : refresh_try(p, c)
        \/ LockUse(p)

Spec == Init /\ [][Next]_vars

(***************************************************************************)
(* A process whose next step is possible takes it in the end: the threads  *)
(* of the kernel share the CPU by time slices.  A process gives back what  *)
(* it has, but for cache_read_ahead; it need not call anything else.       *)
(***************************************************************************)
FairSpec ==
    /\ Spec
    /\ \A p \in Procs : WF_vars(Continue(p)) /\ WF_vars(Proceed(p)) /\ WF_vars(LockEnd(p))

-----------------------------------------------------------------------------
\* Properties

\* The blocks that have sector s, and not its data half replaced.
Filling(c) == \E p \in Procs : cpc[p] = "store" /\ at[p] = c
Filled(s) == {c \in Holding(s) : ~ Filling(c)}

\* One process calls find_block, beside the refresh thread.
Alone == \E p \in Procs : \A q \in Procs \ {p} : role[q] \in {"refresh", "lock"}

(***************************************************************************)
(* What a sector's block holds, or the device when no block has the        *)
(* sector, is what was last written to the sector, whatever hits, misses,  *)
(* evictions and refreshes of others come in between, until a thread does  *)
(* one of five things: it gets the lock of a block whose sector has        *)
(* changed since it was looked up, loads a sector that another one loads,  *)
(* evicts a block that its writer has not yet marked, finds every block in *)
(* use, or reads ahead of the device's last sector.  No other assertion of *)
(* cache.c fails; and a process that uses the cache alone, beside the      *)
(* refresh thread, meets none of the five but a cache in use.              *)
(***************************************************************************)
CacheCoherent ==
    /\ broken \in {"no", "block of another sector", "cache locked down",
                   "evicted before it was marked", "sector loaded twice",
                   "sector past the end"}
    /\ Alone => broken \in {"no", "cache locked down"}
    /\ broken = "no" =>
         \A s \in Sectors : IF Filled(s) = {} THEN disk[s] = latest[s]
                            ELSE \A c \in Filled(s) : data[c] = latest[s]

(***************************************************************************)
(* The three ways in which the lock of block c stops its users for ever:   *)
(* an upgrade waits for extra with r held while the upgrade or writer that *)
(* has extra waits for the readers, who need r to leave; a process that is *)
(* loading the block waits for r in cache_downgrade while a reader of the  *)
(* sector that was there before holds r and waits for g; and an upgrade or *)
(* writer waits for the readers of a block that was read ahead, whose      *)
(* access cache_read_ahead never gives back.                               *)
(***************************************************************************)
Stuck(c) ==
    \/ \E p \in Procs : /\ lpc[p] = "upgrade_extra" /\ r[c] = p
                        /\ extra[c] # NoProc /\ b[c] > 0
    \/ \E p, q \in Procs : /\ hold[p][c] = "write" /\ cpc[p] = "downgrade"
                           /\ r[c] = q /\ lpc[q] \in {"read_extra", "read_down"}
    \/ \E p, q \in Procs : /\ role[p] = "ahead" /\ cpc[p] = "idle" /\ hold[p][c] = "read"
                           /\ extra[c] = q /\ lpc[q] \in {"upgrade_down", "write_down"}

(***************************************************************************)
(* Whoever starts to acquire, change or give back the lock of a block      *)
(* (cache_read_begin, cache_write_begin, cache_upgrade, the ends) gets to  *)
(* the end of the operation, unless the lock of that block is stuck in one *)
(* of those three ways; calls are finitely many, so readers do not shut    *)
(* writers out for ever.                                                   *)
(***************************************************************************)
EveryOperationReturns ==
    \A p \in Procs : lpc[p] # "none" ~> lpc[p] = "none" \/ broken # "no" \/ Stuck(blk[p])

(***************************************************************************)
(* cache_upgrade: "Atomically upgrades from holding a read lock to holding *)
(* a write lock" - an upgrade that was begun ends with the write lock.     *)
(***************************************************************************)
UpgradeCompletes ==
    \A p \in Procs :
        lpc[p] = "upgrade_extra" ~> hold[p][blk[p]] = "write"
=============================================================================
