------------------------------- MODULE Inode -------------------------------
(***************************************************************************)
(* Inodes and the free map (filesys/inode.c, filesys/free-map.c) on top of *)
(* the buffer cache and the file system device.                            *)
(*                                                                         *)
(* k is the state of the file system, a record:                            *)
(*    disk     sector -> its words, on the device                          *)
(*    cache    sector -> its words, for the sectors that have a copy in    *)
(*             the buffer cache                                            *)
(*    dirty    the cached sectors that were changed since they were read   *)
(*    map      free_map: the sectors whose bit is set                      *)
(*    mapped   whether free_map_file is open                               *)
(*    inodes   sector -> the open inode of that sector                     *)
(*    panic    why the kernel stopped, "none" while it runs                *)
(*    ret      what the last operation returned                            *)
(*    stale    the sectors that were cleared on the device while the cache *)
(*             had a copy of them (not in the code: see block_clear)       *)
(*    lost     sector -> inode references that were dropped (not in the    *)
(*             code: see resolve_path)                                     *)
(* An operation takes k and returns k as it leaves it; BufferCache shows   *)
(* what the cache does about threads that use it together.                 *)
(*                                                                         *)
(* A sector has WORDS words.  A word is a tuple: <<n>> is the number n (a  *)
(* sector, a length, a byte of a file), <<"map", S>> is the free map as it *)
(* is in its file, and a directory entry has four fields.  Nothing marks   *)
(* what the words of a sector are used for, as nothing does on the disk.   *)
(***************************************************************************)
EXTENDS Integers, Sequences, FiniteSets, TLC

CONSTANTS
    DeviceSize,            \* block_size(fs_device)
    NUM_DIRECT,            \* sectors an inode names itself
    NUM_SINGLE_INDIRECT    \* sectors of sectors an inode names

ASSUME InodeAssumption ==
    /\ DeviceSize \in Nat /\ DeviceSize > 5
    /\ NUM_DIRECT \in Nat \ {0} /\ NUM_SINGLE_INDIRECT \in Nat

DEBUG_SECTOR == 0
FREE_MAP_SECTOR == 1
ROOT_DIR_SECTOR == 2

\* struct inode_disk: the words of an inode's sector.
direct(i) == i + 1
single_indirect(i) == NUM_DIRECT + i + 1
double_indirect == NUM_DIRECT + NUM_SINGLE_INDIRECT + 1
length == double_indirect + 1
magic == length + 1

\* ENTRIES_PER_SECTOR, and BLOCK_SECTOR_SIZE: a byte is a word here.
WORDS == magic
INODE_MAGIC == <<-1>>
Zero == <<0>>
Blank == [i \in 1..WORDS |-> Zero]

\* A word that is used as a sector number.
SectorOf(w) == IF Len(w) = 1 THEN w[1] ELSE DeviceSize

CEIL(a, n) == (a + n - 1) \div n
Least(a, n) == IF a < n THEN a ELSE n

Panic(k, why) == [k EXCEPT !.panic = why]
Ret(k, v) == [k EXCEPT !.ret = v]

\* Then([l \in {x} |-> Go(l, y)]): x, and unless that has stopped the kernel, y,
\* where l is what x has left.
Then(f) == f[CHOOSE l \in DOMAIN f : TRUE]
Go(k, next) == IF k.panic = "none" THEN next ELSE k

ASSERT(k, condition, why, next) ==
    IF k.panic # "none" THEN k ELSE IF condition THEN next ELSE Panic(k, why)

-----------------------------------------------------------------------------
\* The device and the cache.

\* find_block: sector s has a copy in the cache from here on.
find_block(k, s) ==
    ASSERT(k, s \in 0..(DeviceSize - 1), "sector < block_size",
           IF s \in DOMAIN k.cache THEN k
                      ELSE [k EXCEPT !.cache = (s :> k.disk[s]) @@ @])

Word(k, s, i) == k.cache[s][i]

\* A change between cache_write_block and cache_write_end.
Put(k, s, i, w) == [k EXCEPT !.cache[s][i] = w, !.dirty = @ \cup {s}]

(***************************************************************************)
(* block_clear writes zeros to the device and does not know of the cache:  *)
(* a copy that is still there from an earlier use of the sector stays.     *)
(***************************************************************************)
block_clear(k, s) ==
    ASSERT(k, s < DeviceSize, "access past end of device",
           [k EXCEPT !.disk[s] = Blank,
                                !.stale = IF s \in DOMAIN k.cache THEN @ \cup {s} ELSE @])

\* cache_evict, of the sectors in S; a block that a search has passed over is
\* marked dirty as well.
cache_evict(k, S, marked) ==
    [k EXCEPT !.disk = [s \in DOMAIN @ |-> IF s \in S /\ (s \in k.dirty \/ marked)
                                          THEN k.cache[s] ELSE @[s]],
              !.cache = [s \in DOMAIN @ \ S |-> @[s]],
              !.dirty = @ \ S]

\* refresh_cache: what is dirty is written to the device.
refresh_cache(k) ==
    [k EXCEPT !.disk = [s \in DOMAIN @ |-> IF s \in k.dirty THEN k.cache[s] ELSE @[s]],
              !.dirty = {}]

-----------------------------------------------------------------------------
\* filesys/inode.c: where the data of an inode are.

(***************************************************************************)
(* Where data block number block is: named by the inode, by an entry in of *)
(* a single indirect sector, or by an entry in of an indirect sector which *)
(* the double indirect one names.                                          *)
(***************************************************************************)
IsDirect(block) == block < NUM_DIRECT
Single(block) == (block - NUM_DIRECT) \div WORDS
In(block) == (block - NUM_DIRECT) % WORDS
IsSingle(block) == Single(block) < NUM_SINGLE_INDIRECT
Double(block) == Single(block) - NUM_SINGLE_INDIRECT

\* The sector that word i of s names; s is in the cache.
Entry(k, s, i) == SectorOf(Word(k, s, i))

\* The sector that entry in of indirect sector t names; t gets into the cache.
Follow(k, t, in) == Then([l \in {find_block(k, t)} |-> Go(l, Ret(l, Entry(l, t, in + 1)))])

(***************************************************************************)
(* byte_to_sector: the sector that has byte pos of the inode in sector s,  *)
(* by way of the indirect sectors, which get into the cache.  inode_read_at*)
(* calls it for a pos at the end of the file too.                          *)
(***************************************************************************)
byte_to_sector(k, s, pos) ==
    LET block == pos \div WORDS
    IN Then([l \in {find_block(k, s)} |->
         ASSERT(l, Word(l, s, magic) = INODE_MAGIC, "nooo",
           IF IsDirect(block) THEN Ret(l, Entry(l, s, direct(block)))
           ELSE IF IsSingle(block)
           THEN Follow(l, Entry(l, s, single_indirect(Single(block))), In(block))
           ELSE ASSERT(l, Double(block) < WORDS, "single < ENTRIES_PER_SECTOR",
                  Then([m \in {Follow(l, Entry(l, s, double_indirect), Double(block))} |->
                          Go(m, Follow(m, m.ret, In(block)))])))])

inode_length(k, s) == Then([l \in {find_block(k, s)} |-> Go(l, Ret(l, Word(l, s, length)[1]))])

inode_set_length(k, s, n) == Then([l \in {find_block(k, s)} |-> Go(l, Put(l, s, length, <<n>>))])

\* The loop of inode_read_at.
RECURSIVE inode_read_at(_, _, _, _)
inode_read_at(k, s, size, offset) ==
    LET ofs == offset % WORDS
        Chunk(len) == Least(size, Least(len - offset, WORDS - ofs))
        Copy(l, sector, chunk) ==
            Then([m \in {inode_read_at(l, s, size - chunk, offset + chunk)} |-> Go(m,
                 Ret(m, SubSeq(l.cache[sector], ofs + 1, ofs + chunk) \o m.ret))])
    IN IF size <= 0 THEN Ret(k, <<>>)
       ELSE Then([at \in {byte_to_sector(k, s, offset)} |-> Go(at,
              Then([l \in {inode_length(at, s)} |-> Go(l,
                   IF Chunk(l.ret) <= 0 THEN Ret(l, <<>>)
                   ELSE Then([m \in {find_block(l, at.ret)} |-> Go(m, Copy(m, at.ret, Chunk(l.ret)))]))]))])

\* The loop of inode_write_at.
RECURSIVE WriteSectors(_, _, _, _)
WriteSectors(k, s, buffer, offset) ==
    LET ofs == offset % WORDS
        chunk == Least(Len(buffer), WORDS - ofs)
        Filled(words) == [i \in 1..WORDS |-> IF i \in (ofs + 1)..(ofs + chunk) THEN buffer[i - ofs] ELSE words[i]]
    IN IF buffer = <<>> THEN k
       ELSE Then([at \in {byte_to_sector(k, s, offset)} |-> Go(at,
              Then([l \in {find_block(at, at.ret)} |-> Go(l,
                     WriteSectors([l EXCEPT !.cache[at.ret] = Filled(@), !.dirty = @ \cup {at.ret}],
                                  s, SubSeq(buffer, chunk + 1, Len(buffer)), offset + chunk))]))])

-----------------------------------------------------------------------------
\* filesys/free-map.c.

(***************************************************************************)
(* bitmap_write to free_map_file.  The file is as long as the map: the     *)
(* write reaches its end, so inode_write_at extends it, by no sector, and  *)
(* sets the length to what it was.                                         *)
(***************************************************************************)
WriteMap(k) ==
    IF ~ k.mapped THEN k
    ELSE Then([l \in {find_block(k, FREE_MAP_SECTOR)} |->
           ASSERT(l, Word(l, FREE_MAP_SECTOR, magic) = INODE_MAGIC, "is_valid_inode (data)",
             Then([m \in {WriteSectors(l, FREE_MAP_SECTOR, <<<<"map", k.map>>>>, 0)} |->
                     Go(m, inode_set_length(m, FREE_MAP_SECTOR, 1))]))])

(***************************************************************************)
(* The bitmap has four bits for each sector of the device, so one is free  *)
(* when the device is full; block_clear then stops the kernel, and the     *)
(* callers' way out of a failed allocation is never taken.                 *)
(***************************************************************************)
free_map_allocate(k) ==
    LET s == CHOOSE t \in (0..(4 * DeviceSize - 1)) \ k.map :
               \A u \in (0..(4 * DeviceSize - 1)) \ k.map : t <= u
    IN Then([l \in {WriteMap([k EXCEPT !.map = @ \cup {s}])} |-> Go(l, Ret(l, s))])

free_map_release(k, s) ==
    ASSERT(k, s \in k.map, "bitmap_all (free_map, sector, 1)",
           WriteMap([k EXCEPT !.map = @ \ {s}]))

-----------------------------------------------------------------------------
\* filesys/inode.c: allocating and freeing sectors.

\* A new sector, put into word i of sector s, and cleared on the device.
NewSector(k, s, i) ==
    Then([l \in {free_map_allocate(k)} |-> Go(l, block_clear(Put(l, s, i, <<l.ret>>), l.ret))])

grow_direct(k, s, i) ==
    ASSERT(k, Word(k, s, i) = Zero, "*sector == 0", NewSector(k, s, i))

\* The caller counts the blocks that are left of length.
allocate_direct(k, s, i) == grow_direct(k, s, i)

\* The sector that word i of s names gets into the cache.
EntryLoaded(k, s, i) == Go(k, find_block(k, Entry(k, s, i)))

(***************************************************************************)
(* One turn of the loops of allocate_indirect, for data block in: the      *)
(* indirect sector that word i of s names is allocated before the first.   *)
(***************************************************************************)
allocate_indirect(k, s, i, in) ==
    Then([l \in {IF in = 0 THEN NewSector(k, s, i) ELSE k} |-> Go(l,
      Then([m \in {EntryLoaded(l, s, i)} |-> Go(m, allocate_direct(m, Entry(m, s, i), in + 1))]))])

\* The same, of allocate_double_indirect.
allocate_double_indirect(k, s, i, in1, in2) ==
    Then([l \in {IF in1 = 0 /\ in2 = 0 THEN NewSector(k, s, i) ELSE k} |-> Go(l,
      Then([m \in {EntryLoaded(l, s, i)} |-> Go(m, allocate_indirect(m, Entry(m, s, i), in1 + 1, in2))]))])

\* Mutant: the indirect sector is allocated for each of its entries.
grow_indirect_again(k, s, i, index) ==
    Then([l \in {grow_direct(k, s, i)} |-> Go(l,
      Then([m \in {EntryLoaded(l, s, i)} |-> Go(m, grow_direct(m, Entry(m, s, i), index + 1))]))])

grow_indirect(k, s, i, index) ==
    Then([l \in {IF index = 0 THEN grow_direct(k, s, i) ELSE k} |-> Go(l,
      Then([m \in {EntryLoaded(l, s, i)} |-> Go(m, grow_direct(m, Entry(m, s, i), index + 1))]))])

grow_double_indirect(k, s, i, index1, index2) ==
    Then([l \in {IF index1 = 0 THEN grow_direct(k, s, i) ELSE k} |-> Go(l,
      Then([m \in {EntryLoaded(l, s, i)} |->
              ASSERT(m, index1 < WORDS, "index1 < ENTRIES_PER_SECTOR",
                     grow_indirect(m, Entry(m, s, i), index1 + 1, index2))]))])

\* The loops of inode_create, from this data block on.
RECURSIVE AllocateFrom(_, _, _, _)
AllocateFrom(k, s, block, blocks) ==
    IF block >= blocks \/ k.panic # "none" THEN k
    ELSE AllocateFrom(
           IF IsDirect(block) THEN allocate_direct(k, s, direct(block))
           ELSE IF IsSingle(block) THEN allocate_indirect(k, s, single_indirect(Single(block)), In(block))
           ELSE allocate_double_indirect(k, s, double_indirect, Double(block), In(block)),
           s, block + 1, blocks)

inode_create(k, s, len) ==
    Then([l \in {find_block(block_clear(k, s), s)} |->
            Go(l, AllocateFrom(Put(Put(l, s, length, <<len>>), s, magic, INODE_MAGIC),
                               s, 0, CEIL(len, WORDS)))])

\* The loop of inode_extend, from this data block on.
RECURSIVE GrowFrom(_, _, _, _)
GrowFrom(k, s, block, blocks) ==
    IF block >= blocks \/ k.panic # "none" THEN k
    ELSE GrowFrom(
           IF IsDirect(block) THEN grow_direct(k, s, direct(block))
           ELSE IF IsSingle(block) THEN grow_indirect(k, s, single_indirect(Single(block)), In(block))
           ELSE grow_double_indirect(k, s, double_indirect, Double(block), In(block)),
           s, block + 1, blocks)

\* num more sectors for the inode in sector s, behind the ones it has.
inode_extend(k, s, num) ==
    Then([l \in {find_block(k, s)} |->
            ASSERT(l, Word(l, s, magic) = INODE_MAGIC, "is_valid_inode (data)",
                   GrowFrom(l, s, CEIL(Word(l, s, length)[1], WORDS),
                            CEIL(Word(l, s, length)[1], WORDS) + num))])

\* Mutant: the length is set only if the file has grown by a sector.
inode_write_at_kept_length(k, s, buffer, offset) ==
    LET newlen == Len(buffer) + offset
        More(len) == CEIL(newlen, WORDS) - CEIL(len, WORDS)
    IN IF k.inodes[s].deny_write_cnt > 0 THEN Ret(k, 0)
       ELSE Then([l \in {inode_length(k, s)} |-> Go(l,
              IF More(l.ret) <= 0 THEN Ret(WriteSectors(l, s, buffer, offset), Len(buffer))
              ELSE Then([m \in {inode_extend(l, s, More(l.ret))} |-> Go(m,
                     Then([n \in {WriteSectors(m, s, buffer, offset)} |-> Go(n,
                       Then([o \in {inode_set_length(n, s, newlen)} |-> Go(o, Ret(o, Len(buffer)))]))]))]))])

(***************************************************************************)
(* inode_write_at: a write that reaches the end of the file or beyond      *)
(* extends it first, under extension_lock, and sets the length at last.    *)
(***************************************************************************)
inode_write_at(k, s, buffer, offset) ==
    LET newlen == Len(buffer) + offset
        Extend(l) == IF newlen < l.ret THEN l
                     ELSE inode_extend(l, s, CEIL(newlen, WORDS) - CEIL(l.ret, WORDS))
        SetLength(l, len) == IF newlen < len THEN l ELSE inode_set_length(l, s, newlen)
    IN IF k.inodes[s].deny_write_cnt > 0 THEN Ret(k, 0)
       ELSE Then([l \in {inode_length(k, s)} |-> Go(l,
              Then([m \in {Extend(l)} |-> Go(m,
                Then([n \in {WriteSectors(m, s, buffer, offset)} |-> Go(n,
                  Then([o \in {SetLength(n, l.ret)} |-> Go(o, Ret(o, Len(buffer)))]))]))]))])

-----------------------------------------------------------------------------
\* filesys/inode.c: the inodes that are open, one for each sector.

inode_reopen(k, s) == [k EXCEPT !.inodes[s].open_cnt = @ + 1]

inode_open(k, s) ==
    IF s \in DOMAIN k.inodes THEN inode_reopen(k, s)
    ELSE [k EXCEPT !.inodes =
            (s :> [open_cnt |-> 1, deny_write_cnt |-> 0, removed |-> FALSE]) @@ @]

(***************************************************************************)
(* The sectors that are freed with data block number block of the blocks   *)
(* of the inode in sector s, in order: an indirect sector goes after the   *)
(* last block that it names.                                               *)
(***************************************************************************)
free_direct(k, s, i) == <<Entry(k, s, i)>>

free_indirect(k, t, in, last) == IF last \/ in = WORDS - 1 THEN <<Entry(k, t, in + 1), t>>
                                 ELSE <<Entry(k, t, in + 1)>>

free_double_indirect(k, t, in1, in2, last) ==
    free_indirect(k, Entry(k, t, in1 + 1), in2, last) \o (IF last THEN <<t>> ELSE <<>>)

\* Mutant: the indirect sectors of a removed file are not freed.
FreedWith_data_only(k, s, block, blocks) ==
    IF IsDirect(block) THEN free_direct(k, s, direct(block))
    ELSE IF IsSingle(block) THEN <<Entry(k, Entry(k, s, single_indirect(Single(block))), In(block) + 1)>>
    ELSE <<Entry(k, Entry(k, Entry(k, s, double_indirect), Double(block) + 1), In(block) + 1)>>

FreedWith(k, s, block, blocks) ==
    IF IsDirect(block) THEN free_direct(k, s, direct(block))
    ELSE IF IsSingle(block)
    THEN free_indirect(k, Entry(k, s, single_indirect(Single(block))), In(block), block = blocks - 1)
    ELSE free_double_indirect(k, Entry(k, s, double_indirect), Double(block), In(block), block = blocks - 1)

RECURSIVE Release(_, _)
Release(k, sectors) ==
    IF sectors = <<>> \/ k.panic # "none" THEN k
    ELSE Release(free_map_release(k, Head(sectors)), Tail(sectors))

\* The indirect sectors that lead to the data block get into the cache.
Loaded(k, s, block) ==
    IF IsDirect(block) THEN k
    ELSE IF IsSingle(block) THEN EntryLoaded(k, s, single_indirect(Single(block)))
    ELSE Then([l \in {EntryLoaded(k, s, double_indirect)} |->
                 Go(l, EntryLoaded(l, Entry(l, s, double_indirect), Double(block) + 1))])

\* The loops of inode_close, from this data block on.
RECURSIVE FreeFrom(_, _, _, _)
FreeFrom(k, s, block, blocks) ==
    IF block >= blocks \/ k.panic # "none" THEN k
    ELSE Then([l \in {Loaded(k, s, block)} |->
                 Go(l, FreeFrom(Release(l, FreedWith(l, s, block, blocks)), s, block + 1, blocks))])

\* The blocks of a removed inode, and its own sector, are free again.
FreeBlocks(k, s) ==
    Then([l \in {find_block(k, s)} |-> Go(l,
      Then([m \in {FreeFrom(l, s, 0, CEIL(Word(l, s, length)[1], WORDS))} |->
              Go(m, free_map_release(m, s))]))])

inode_close(k, s) ==
    LET Closed == [k EXCEPT !.inodes = [t \in DOMAIN @ \ {s} |-> @[t]]]
    IN IF k.inodes[s].open_cnt > 1 THEN [k EXCEPT !.inodes[s].open_cnt = @ - 1]
       ELSE IF k.inodes[s].removed THEN FreeBlocks(Closed, s)
       ELSE Closed

inode_remove(k, s) == [k EXCEPT !.inodes[s].removed = TRUE]

inode_is_shared(k, s) == k.inodes[s].open_cnt > 1

inode_deny_write(k, s) ==
    ASSERT(k, k.inodes[s].deny_write_cnt + 1 <= k.inodes[s].open_cnt,
           "inode->deny_write_cnt <= inode->open_cnt",
           [k EXCEPT !.inodes[s].deny_write_cnt = @ + 1])

inode_allow_write(k, s) ==
    ASSERT(k, k.inodes[s].deny_write_cnt \in 1..k.inodes[s].open_cnt,
           "inode->deny_write_cnt > 0",
           [k EXCEPT !.inodes[s].deny_write_cnt = @ - 1])

-----------------------------------------------------------------------------
\* The sectors that the inode in sector s, uses for its data and for finding
\* them, as the cache and the device have them, and how many these are.

View(k, s) == IF s \in DOMAIN k.cache THEN k.cache[s] ELSE k.disk[s]

Blocks(k, s) == 0..(CEIL(View(k, s)[length][1], WORDS) - 1)

Owned(k, s) ==
    LET At(t, i) == SectorOf(View(k, t)[i])
        t(block) == At(s, single_indirect(Single(block)))
        d == At(s, double_indirect)
        Of(block) ==
            IF IsDirect(block) THEN {At(s, direct(block))}
            ELSE IF IsSingle(block) THEN {t(block), At(t(block), In(block) + 1)}
            ELSE {d, At(d, Double(block) + 1), At(At(d, Double(block) + 1), In(block) + 1)}
    IN UNION {Of(block) : block \in Blocks(k, s)}

OwnedCount(k, s) ==
    LET indirect == {block \in Blocks(k, s) : ~ IsDirect(block)}
    IN Cardinality(Blocks(k, s)) + Cardinality({Single(block) : block \in indirect})
       + (IF \E block \in indirect : ~ IsSingle(block) THEN 1 ELSE 0)

=============================================================================
