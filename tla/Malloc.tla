------------------------------- MODULE Malloc -------------------------------
(***************************************************************************)
(* threads/malloc.c on top of threads/palloc.c, one call at a time: the    *)
(* lock of a descriptor and the lock of a pool cover the calls.  A heap h  *)
(* is the set `used' of pages of the kernel pool that are taken, the       *)
(* header of each arena, and the free list of each descriptor.  Page p     *)
(* starts at address PGSIZE * p; pages are 1..Pages.  A call returns the   *)
(* new heap and a block.                                                   *)
(***************************************************************************)
EXTENDS Integers, Sequences, FiniteSets, FiniteSetsExt, SequencesExt, TLC

CONSTANTS
    PGSIZE,     \* bytes of a page (4096 in the code)
    HEADER,     \* sizeof (struct arena)
    MIN_BLOCK,  \* the smallest block size (16)
    Pages       \* pages of the kernel pool

NULL == 0

\* Divided and rounded up.
DivRoundUp(x, step) == (x + step - 1) \div step

\* malloc_init: the block sizes MIN_BLOCK, 2 * MIN_BLOCK, ... below half a page.
RECURSIVE BlockSizes(_)
BlockSizes(size) == IF size >= PGSIZE \div 2 THEN {} ELSE {size} \cup BlockSizes(2 * size)

descs == BlockSizes(MIN_BLOCK)

blocks_per_arena(d) == (PGSIZE - HEADER) \div d

malloc_init == [used |-> {}, arena |-> <<>>, free_list |-> [d \in descs |-> <<>>]]

\* bitmap_scan_and_flip takes the first run of page_cnt free pages; 0 when there is none.
palloc_get_multiple(h, page_cnt) ==
    LET starts == {p \in 1..(Pages + 1 - page_cnt) : p..(p + page_cnt - 1) \cap h.used = {}}
    IN  IF starts = {} THEN <<h, NULL>>
        ELSE <<[h EXCEPT !.used = @ \cup (Min(starts)..(Min(starts) + page_cnt - 1))], Min(starts)>>

palloc_free_multiple(h, page, page_cnt) ==
    [h EXCEPT !.used = @ \ (page..(page + page_cnt - 1)),
              !.arena = [p \in DOMAIN @ \ {page} |-> @[p]]]

block_to_arena(b) == b \div PGSIZE

arena_to_block(a, d, idx) == PGSIZE * a + HEADER + idx * d

\* A new arena: its header, and its blocks at the end of the free list.
NewArena(h, a, d) ==
    [h EXCEPT !.arena = (a :> [desc |-> d, free_cnt |-> blocks_per_arena(d)]) @@ @,
              !.free_list[d] = @ \o [i \in 1..blocks_per_arena(d) |-> arena_to_block(a, d, i - 1)]]

\* list_pop_front of a free list that is not empty.
TakeBlock(h, d) ==
    LET b == Head(h.free_list[d])
    IN  <<[h EXCEPT !.free_list[d] = Tail(@), !.arena[block_to_arena(b)].free_cnt = @ - 1], b>>

malloc(h, size) ==
    LET fits == {d \in descs : d >= size}
        page_cnt == DivRoundUp(size + HEADER, PGSIZE)
        big == palloc_get_multiple(h, page_cnt)
        d == Min(fits)
        page == palloc_get_multiple(h, 1)
    IN  IF size = 0 THEN <<h, NULL>>
        ELSE IF fits = {}
        THEN IF big[2] = NULL THEN <<h, NULL>>
             ELSE <<[big[1] EXCEPT !.arena = (big[2] :> [desc |-> NULL, free_cnt |-> page_cnt]) @@ @],
                    PGSIZE * big[2] + HEADER>>
        ELSE IF h.free_list[d] # <<>> THEN TakeBlock(h, d)
        ELSE IF page[2] = NULL THEN <<h, NULL>>
        ELSE TakeBlock(NewArena(page[1], page[2], d), d)

block_size(h, b) ==
    LET a == h.arena[block_to_arena(b)]
    IN  IF a.desc # NULL THEN a.desc ELSE PGSIZE * a.free_cnt - (b % PGSIZE)

free_kept(h, p) ==
    LET a == block_to_arena(p)
        d == h.arena[a].desc
    IN  IF p = NULL THEN h
        ELSE IF d = NULL THEN palloc_free_multiple(h, a, h.arena[a].free_cnt)
        ELSE IF h.arena[a].free_cnt + 1 >= blocks_per_arena(d) THEN palloc_free_multiple(h, a, 1)
        ELSE [h EXCEPT !.free_list[d] = <<p>> \o @, !.arena[a].free_cnt = @ + 1]

\* The block goes to the front of its free list; an arena without blocks in use is given back.
free(h, p) ==
    LET a == block_to_arena(p)
        d == h.arena[a].desc
        pushed == [h EXCEPT !.free_list[d] = <<p>> \o @, !.arena[a].free_cnt = @ + 1]
    IN  IF p = NULL THEN h
        ELSE IF d = NULL THEN palloc_free_multiple(h, a, h.arena[a].free_cnt)
        ELSE IF h.arena[a].free_cnt + 1 >= blocks_per_arena(d)
        THEN palloc_free_multiple(
                 [pushed EXCEPT !.free_list[d] = SelectSeq(@, LAMBDA b : block_to_arena(b) # a)], a, 1)
        ELSE pushed

realloc_whole(h, old_block, new_size) ==
    LET new == malloc(h, new_size)
    IN  IF new_size = 0 THEN <<free(h, old_block), NULL, 0>>
        ELSE IF old_block # NULL /\ new[2] # NULL
        THEN <<free(new[1], old_block), new[2], block_size(h, old_block)>>
        ELSE <<new[1], new[2], 0>>

\* The new heap, the new block and the number of bytes copied to it.
realloc(h, old_block, new_size) ==
    LET new == malloc(h, new_size)
        min_size == Min({new_size, block_size(h, old_block)})
    IN  IF new_size = 0 THEN <<free(h, old_block), NULL, 0>>
        ELSE IF old_block # NULL /\ new[2] # NULL THEN <<free(new[1], old_block), new[2], min_size>>
        ELSE <<new[1], new[2], 0>>
=============================================================================
