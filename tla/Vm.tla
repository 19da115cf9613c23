--------------------------------- MODULE Vm ---------------------------------
(***************************************************************************)
(* Virtual memory: vm/frame.c, vm/page.c, vm/swap.c, the page-fault handler *)
(* of userprog/exception.c, and the parts of userprog/syscall.c, process.c  *)
(* and pagedir.c that create, pin, map and free user pages.                 *)
(*                                                                         *)
(* Processes interleave at the points where the code can be preempted with  *)
(* something left half done: before frame_lock is taken, between the choice *)
(* of a victim and "fr->evicting = true", while the victim is written out,  *)
(* between frame_create's release of the lock and "new_frame->page = spg",  *)
(* while the data are read, between pin_page's test of evicting and the     *)
(* count, and while a system call copies into a pinned page.                *)
(*                                                                         *)
(* A page's contents are one value: 0 for a zeroed page, Junk for one that  *)
(* palloc_free_page overwrote, p for what process p wrote, and the name of  *)
(* the file for what a file held at first.  When the code does something    *)
(* from which it cannot go on soundly, broken names it and nothing follows. *)
(***************************************************************************)
EXTENDS Integers, Sequences, FiniteSets

CONSTANTS Procs,                \* processes, numbers from 1
          Frames,               \* the user pool's physical pages, 1..n
          Slots,                \* the swap device's slots, 1..n
          Casts,                \* the choices of touched to check
          MAX_GLOBAL_MAPPINGS   \* entries of all_mmappings

NULL == 0
Junk == -1
Exe == 0                            \* the executable, as a file
NoFile == -1

VARIABLES
  free,         \* pages of the user pool that palloc has to give
  frame,        \* frame[f]: the struct frame of physical page f
  frame_table,  \* the list of frames, victims taken from its front
  mem,          \* contents of the physical pages
  kacc,         \* pages whose kernel mapping has its accessed bit set
  spt,          \* spt[p]: p's supplemental page table
  pd,           \* pd[p]: the present entries of p's page directory
  in_use,       \* swap slots marked in_use
  swap,         \* contents of the swap slots
  files,        \* contents of the mapped files, one page each
  frame_lock,   \* the process that holds frame_lock, or NULL
  proc,         \* proc[p]: where p is, and what it is doing there
  touched,      \* touched[p]: the addresses p ever accesses; never changes
  want,         \* history: what p's page (its file, once unmapped) must hold
  broken        \* what went wrong, or "no"

vars == <<free, frame, frame_table, mem, kacc, spt, pd, in_use, swap, files,
          frame_lock, proc, touched, want, broken>>

create_filesys_page(fil, wr) ==
  [fr |-> NULL, type |-> "filesys", wr |-> wr, fil |-> fil, swap |-> NULL]
create_swapslot_page(fr) ==
  [fr |-> fr, type |-> "swapslot", wr |-> TRUE, fil |-> NoFile, swap |-> NULL]

Least(S) == CHOOSE x \in S : \A y \in S : x <= y
Without(f, S) == [x \in DOMAIN f \ S |-> f[x]]
With(f, x, y) == [z \in DOMAIN f \cup {x} |-> IF z = x THEN y ELSE f[z]]
Page(f) == spt[frame[f].page[1]][frame[f].page[2]]
Mapping(f) == pd[frame[f].page[1]]
Mapped(f) == frame[f].page[2] \in DOMAIN Mapping(f)
pagedir_is_dirty(f) == Mapping(f)[frame[f].page[2]].d
\* of either mapping of the page, the kernel's or the process's
pagedir_is_accessed(f) ==
  f \in kacc \/ (Mapped(f) /\ Mapping(f)[frame[f].page[2]].a)
pagedir_set_page(p, v, f) ==
  pd' = [pd EXCEPT ![p] = With(@, v, [phys |-> f, a |-> FALSE, d |-> FALSE])]
pagedir_clear_page(p, vs) == pd' = [pd EXCEPT ![p] = Without(@, vs)]
\* Both accessed bits of every frame in fs are cleared.
pagedir_set_accessed(fs) ==
  /\ kacc' = kacc \ fs
  /\ pd' = [q \in Procs |-> [v \in DOMAIN pd[q] |->
              [pd[q][v] EXCEPT !.a = @ /\ pd[q][v].phys \notin fs]]]

Idle(at) == [at |-> at, v |-> "", pin |-> 0, victim |-> NULL]

Init ==
  /\ free = Frames
  /\ frame = [f \in Frames |-> [page |-> <<>>, pinned |-> 0, evicting |-> FALSE]]
  /\ frame_table = <<>>
  /\ mem = [f \in Frames |-> Junk]
  /\ kacc = {}
  /\ spt = [p \in Procs |-> <<>>]
  /\ pd = [p \in Procs |-> <<>>]
  /\ in_use = {}
  /\ swap = [s \in Slots |-> Junk]
  /\ files = [f \in {Exe} \cup Procs |-> 9]
  /\ frame_lock = NULL
  /\ touched \in Casts
  /\ proc = [p \in Procs |-> Idle("dead")]
  /\ want = [p \in Procs |-> [map |-> 9]]
  /\ broken = "no"

\* What every step of p begins with
At(p, at) == proc[p].at = at /\ broken = "no" /\ UNCHANGED touched
Goes(p, at) == proc' = [proc EXCEPT ![p] = Idle(at)]
Breaks(why) == broken' = why /\ UNCHANGED <<free, frame, frame_table, mem, kacc,
                 spt, pd, in_use, swap, files, frame_lock, proc, want>>

-----------------------------------------------------------------------------
(* frame_create                                                            *)

\* p is about to call frame_create for the page at v
Creating(p, v, pin) ==
  proc' = [proc EXCEPT ![p] = [at |-> "create", v |-> v, pin |-> pin, victim |-> NULL]]

\* The end of frame_create: the new frame is on the table, with no page yet.
\* PAL_ZERO's memset sets the accessed bit of the kernel's mapping.
NewFrame(p, f, pool, table) ==
  /\ free' = pool \ {f}
  /\ mem' = [mem EXCEPT ![f] = 0]
  /\ kacc' = kacc \cup {f}
  /\ frame_table' = Append(table, f)
  /\ proc' = [proc EXCEPT ![p].at = "framed", ![p].victim = f]
  /\ frame' = [frame EXCEPT ![f] =
                 [page |-> <<>>, pinned |-> proc[p].pin, evicting |-> FALSE]]

frame_create(p) ==
  /\ At(p, "create") /\ frame_lock = NULL /\ free # {}
  /\ NewFrame(p, Least(free), free, frame_table)
  /\ UNCHANGED <<spt, pd, in_use, swap, files, frame_lock, want, broken>>

\* The frames whose accessed bits and pin count earn them a second chance
SecondChance_unpinned(f) == pagedir_is_accessed(f)
SecondChance(f) == pagedir_is_accessed(f) \/ frame[f].pinned > 0

\* The place in the table where the scan finds its victim: the first frame
\* with no second chance, or else, every bit now cleared, the first unpinned.
Unlucky == {i \in DOMAIN frame_table : /\ frame[frame_table[i]].page # <<>>
                                       /\ ~SecondChance(frame_table[i])}
Unpinned == {i \in DOMAIN frame_table : frame[frame_table[i]].pinned = 0}
frame_choose_victim == Least(IF Unlucky # {} THEN Unlucky ELSE Unpinned)
Scanned == {frame_table[i] : i \in
              IF Unlucky # {} THEN 1..(Least(Unlucky) - 1) ELSE DOMAIN frame_table}

\* The scan reads cur_frame->page of every frame it passes.
frame_choose_victim_null(p) ==
  /\ At(p, "create") /\ frame_lock = NULL /\ free = {}
  /\ \E f \in Scanned : frame[f].page = <<>>
  /\ Breaks("frame without a page")

\* The first half of frame_evict: the victim's data go to its file, if the
\* page is dirty, or to a swap slot; the page stays mapped meanwhile.
swap_find_empty == Least(Slots \ in_use)
swap_put_page(contents) == /\ in_use' = in_use \cup {swap_find_empty}
                           /\ swap' = [swap EXCEPT ![swap_find_empty] = contents]
write_out(f) ==
  IF Page(f).type = "filesys"
  THEN /\ files' = IF pagedir_is_dirty(f)
                   THEN [files EXCEPT ![Page(f).fil] = mem[f]] ELSE files
       /\ UNCHANGED <<in_use, swap, spt>>
  ELSE /\ swap_put_page(mem[f])
       /\ spt' = [spt EXCEPT ![frame[f].page[1]][frame[f].page[2]].swap = swap_find_empty]
       /\ UNCHANGED files

frame_create_evict(p) ==
  /\ At(p, "create") /\ frame_lock = NULL /\ free = {}
  /\ Unpinned # {}                   \* the scan never ends if all are pinned
  /\ \A f \in Scanned : frame[f].page # <<>>
  /\ LET i == frame_choose_victim
         n == Len(frame_table)
     IN /\ frame_table' = SubSeq(frame_table, i + 1, n) \o SubSeq(frame_table, 1, i - 1)
        /\ proc' = [proc EXCEPT ![p].at = "chosen", ![p].victim = frame_table[i]]
  /\ pagedir_set_accessed(Scanned)
  /\ frame_lock' = p
  /\ UNCHANGED <<free, frame, mem, spt, in_use, swap, files, want, broken>>

\* A victim that was pinned since it was chosen goes all the same.
frame_evict(p) ==
  /\ At(p, "chosen")
  /\ LET f == proc[p].victim
     IN IF frame[f].pinned > 0 THEN Breaks("victim pinned")
        ELSE IF ~Mapped(f) THEN Breaks("victim not loaded yet")
        ELSE IF Page(f).type = "swapslot" /\ in_use = Slots THEN Breaks("swap full")
        ELSE /\ write_out(f)
             /\ frame' = [frame EXCEPT ![f].evicting = TRUE]
             /\ proc' = [proc EXCEPT ![p].at = "evict"]
             /\ UNCHANGED <<free, frame_table, mem, kacc, pd, frame_lock, want, broken>>

\* The second half: frame_free unmaps and frees the victim's page, which
\* frame_create then takes for the new frame, and releases frame_lock.
frame_evict_end(p) ==
  /\ At(p, "evict")
  /\ LET f == proc[p].victim
         q == frame[f].page[1]
         v == frame[f].page[2]
     IN /\ pagedir_clear_page(q, {v})
        /\ spt' = [spt EXCEPT ![q][v].fr = NULL]
        /\ NewFrame(p, f, {f}, frame_table)
  /\ frame_lock' = NULL
  /\ UNCHANGED <<in_use, swap, files, want, broken>>

-----------------------------------------------------------------------------
(* page_to_new_frame and grow_stack, once frame_create has returned        *)

Reading(p) == spt[p][proc[p].v]

\* page_to_new_frame: new_frame->page = spg; spg->fr = new_frame
page_to_new_frame(p) ==
  /\ At(p, "framed") /\ proc[p].v \in DOMAIN spt[p]
  /\ frame' = [frame EXCEPT ![proc[p].victim].page = <<p, proc[p].v>>]
  /\ spt' = [spt EXCEPT ![p][proc[p].v].fr = proc[p].victim]
  /\ proc' = [proc EXCEPT ![p].at = "loading"]
  /\ UNCHANGED <<free, frame_table, mem, kacc, pd, in_use, swap, files,
                 frame_lock, want, broken>>

\* The rest of it: read the file or the slot, which is marked unused while
\* spg->swap goes on naming it; a writable page of the executable belongs to
\* the swap from now on; then pagedir_set_page.
Loaded_filesys(p) == Reading(p)
Loaded(p) ==
  IF Reading(p).type = "swapslot" THEN Reading(p)
  ELSE IF Reading(p).wr /\ Reading(p).fil = Exe
  THEN [Reading(p) EXCEPT !.type = "swapslot", !.fil = NoFile, !.swap = NULL]
  ELSE Reading(p)
SlotEmptied_kept(p) == {}
SlotEmptied(p) == IF Reading(p).type = "swapslot" THEN {Reading(p).swap} ELSE {}

page_to_new_frame_load(p) ==
  /\ At(p, "loading")
  /\ IF Reading(p).type = "swapslot" /\ Reading(p).swap = NULL
     THEN Breaks("assertion")                        \* swap_retrieve_page
     ELSE /\ mem' = [mem EXCEPT ![proc[p].victim] =
                       IF Reading(p).type = "filesys" THEN files[Reading(p).fil]
                       ELSE swap[Reading(p).swap]]
          /\ in_use' = in_use \ SlotEmptied(p)
          /\ spt' = [spt EXCEPT ![p][proc[p].v] = Loaded(p)]
          /\ pagedir_set_page(p, proc[p].v, proc[p].victim)
          /\ kacc' = kacc \cup {proc[p].victim}
          /\ proc' = [proc EXCEPT ![p] = IF proc[p].pin = 0 THEN Idle("user")
                                                 ELSE [Idle("copying") EXCEPT !.v = proc[p].v]]
          /\ UNCHANGED <<free, frame, frame_table, swap, files, frame_lock, want, broken>>

\* grow_stack and setup_stack: the page is created, with its frame
grow_stack(p) ==
  /\ At(p, "framed") /\ proc[p].v \notin DOMAIN spt[p]
  /\ LET f == proc[p].victim
         v == proc[p].v
     IN /\ frame' = [frame EXCEPT ![f].page = <<p, v>>]
        /\ spt' = [spt EXCEPT ![p] = With(@, v, create_swapslot_page(f))]
        /\ pagedir_set_page(p, v, f)
        /\ want' = [want EXCEPT ![p] = With(@, v, 0)]
  /\ Goes(p, "user")
  /\ UNCHANGED <<free, frame_table, mem, kacc, in_use, swap, files, frame_lock, broken>>

-----------------------------------------------------------------------------
(* What a process does                                                     *)

\* load: the segments become pages of the file system, not yet read, and
\* setup_stack asks for the first stack page
load(p) ==
  /\ At(p, "dead")
  /\ spt' = [spt EXCEPT ![p] =
              [v \in touched[p] \cap {"code", "data"} |->
                 create_filesys_page(Exe, v = "data")]]
  /\ want' = [want EXCEPT ![p] = [v \in {"code", "data", "map"} |->
                 IF v = "map" THEN want[p][v] ELSE 9]]
  /\ Creating(p, "stack", 0)
  /\ UNCHANGED <<free, frame, frame_table, mem, kacc, pd, in_use, swap, files,
                 frame_lock, broken>>

is_stack_access(v) == v \in {"stack", "lower"}
Present(p, v) == v \in DOMAIN pd[p]
Allowed(p, v, write) == v \in DOMAIN spt[p] /\ (write => spt[p][v].wr)

\* An access that the page directory lets through.  A write to a page that is
\* being written out is lost when the page is freed.
access(p, v, write) ==
  /\ At(p, "user") /\ Present(p, v) /\ Allowed(p, v, write)
  /\ IF write /\ frame[pd[p][v].phys].evicting THEN Breaks("write during eviction")
     ELSE /\ pd' = [pd EXCEPT ![p][v].a = TRUE, ![p][v].d = @ \/ write]
          /\ mem' = IF write THEN [mem EXCEPT ![pd[p][v].phys] = p] ELSE mem
          /\ want' = IF write THEN [want EXCEPT ![p][v] = p] ELSE want
          /\ UNCHANGED <<free, frame, frame_table, kacc, spt, in_use, swap, files,
                         frame_lock, proc, broken>>

\* page_fault on a page that is not present
page_fault(p, v, write) ==
  /\ At(p, "user") /\ ~Present(p, v)
  /\ IF v \in DOMAIN spt[p] THEN Allowed(p, v, write) ELSE is_stack_access(v)
  /\ IF v \in DOMAIN spt[p] /\ spt[p][v].fr # NULL
     THEN Breaks("assertion")             \* !spg->fr || spg->fr->evicting
     ELSE /\ Creating(p, v, 0)
          /\ UNCHANGED <<free, frame, frame_table, mem, kacc, spt, pd, in_use,
                         swap, files, frame_lock, want, broken>>

\* read: w_valid has touched the page; pin_page waits out an eviction (for
\* ever, if the compiler reads evicting once), and brings the page back if it
\* has lost it since.
pin_page(p, v) ==
  /\ At(p, "user") /\ Allowed(p, v, TRUE)
  /\ IF spt[p][v].fr = NULL THEN Creating(p, v, 1)
     ELSE /\ ~frame[spt[p][v].fr].evicting
          /\ proc' = [proc EXCEPT ![p] = [Idle("pinning") EXCEPT !.v = v]]
  /\ UNCHANGED <<free, frame, frame_table, mem, kacc, spt, pd, in_use, swap, files,
                 frame_lock, want, broken>>

Chosen(f) == \E q \in Procs : proc[q].at = "chosen" /\ proc[q].victim = f

\* The count, after the test with interrupts on.  By now the frame may be a
\* victim: chosen (which proc[p].victim then records), on its way out, or
\* gone, before fr is tested or after.
pin_page_count(p) ==
  LET v == proc[p].v
      f == spt[p][v].fr
  IN
  /\ At(p, "pinning")
  /\ \/ f = NULL /\ Creating(p, v, 1)
        /\ UNCHANGED <<free, frame, frame_table, mem, kacc, spt, pd, in_use, swap, files,
                       frame_lock, want, broken>>
     \/ /\ f = NULL \/ (f # NULL /\ frame[f].evicting)
        /\ Breaks("victim pinned")
     \/ /\ f # NULL /\ ~frame[f].evicting
        /\ frame' = [frame EXCEPT ![f].pinned = @ + 1]
        /\ proc' = [proc EXCEPT ![p] = [Idle("copying") EXCEPT
                      !.v = v, !.victim = IF Chosen(f) THEN f ELSE NULL]]
        /\ UNCHANGED <<free, frame_table, mem, kacc, spt, pd, in_use, swap, files,
                       frame_lock, want, broken>>

\* file_read into the pinned page, and unpin_page with its assertions
unpin_page(p) ==
  /\ At(p, "copying")
  /\ LET v == proc[p].v
         f == spt[p][v].fr
     IN IF f = NULL THEN Breaks("assertion")
        ELSE IF frame[f].pinned = 0 \/ frame[f].evicting THEN Breaks("assertion")
        ELSE /\ pd' = [pd EXCEPT ![p][v].a = TRUE, ![p][v].d = TRUE]
             /\ mem' = [mem EXCEPT ![f] = p]
             /\ want' = [want EXCEPT ![p][v] = p]
             /\ frame' = [frame EXCEPT ![f].pinned = @ - 1]
             /\ Goes(p, "user")
             /\ UNCHANGED <<free, frame_table, kacc, spt, in_use, swap, files,
                            frame_lock, broken>>

\* mmap of p's file; with all_mmappings full it returns without releasing
\* mmap_lock
mmap(p) ==
  /\ At(p, "user") /\ "map" \in touched[p] \ DOMAIN spt[p]
  /\ IF Cardinality({q \in Procs : "map" \in DOMAIN spt[q]}) = MAX_GLOBAL_MAPPINGS
     THEN Breaks("mmap_lock kept")
     ELSE /\ spt' = [spt EXCEPT ![p] = With(@, "map", create_filesys_page(p, TRUE))]
          /\ UNCHANGED <<free, frame, frame_table, mem, kacc, pd, in_use, swap,
                         files, frame_lock, proc, want, broken>>

\* Resident pages of p among those at vs, and the ones that are written back
Resident(p, vs) == {v \in vs : spt[p][v].fr # NULL}
WrittenBack(p, vs) ==
  {v \in Resident(p, vs) : spt[p][v].type = "filesys" /\ pd[p][v].d}

\* frame_evict or frame_free for each resident page, and free_supp_page
release(p, vs) ==
  LET fs == {spt[p][v].fr : v \in Resident(p, vs)}
  IN /\ files' = [x \in DOMAIN files |->
                    IF \E v \in WrittenBack(p, vs) : spt[p][v].fil = x
                    THEN mem[spt[p][CHOOSE v \in WrittenBack(p, vs) : spt[p][v].fil = x].fr]
                    ELSE files[x]]
     /\ frame_table' = SelectSeq(frame_table, LAMBDA f : f \notin fs)
     /\ free' = free \cup fs
     /\ mem' = [f \in Frames |-> IF f \in fs THEN Junk ELSE mem[f]]
     /\ kacc' = kacc \cup fs
     /\ frame' = [f \in Frames |-> IF f \in fs
                    THEN [page |-> <<>>, pinned |-> 0, evicting |-> FALSE] ELSE frame[f]]
     /\ pagedir_clear_page(p, vs)
     /\ spt' = [spt EXCEPT ![p] = Without(@, vs)]

\* Either call waits for frame_lock with a pointer to a frame; when that
\* frame is the victim of the lock's holder it is gone once the lock is there.
Releasing(p, vs) ==
  /\ At(p, "user")
  /\ \E v \in Resident(p, vs) : frame[spt[p][v].fr].evicting \/ Chosen(spt[p][v].fr)
  /\ Breaks("frame freed twice")

munmap(p) ==
  /\ "map" \in DOMAIN spt[p]
  /\ \/ Releasing(p, {"map"})
     \/ /\ At(p, "user") /\ (Resident(p, {"map"}) = {} \/ frame_lock = NULL)
        /\ release(p, {"map"})
        /\ UNCHANGED <<in_use, swap, frame_lock, proc, want, broken>>

\* Slots that free_action_func marks unused: each swap page's, also when
\* the page was read back from it long ago
SlotsRemoved(p) == {spt[p][v].swap : v \in {u \in DOMAIN spt[p] :
                      spt[p][u].type = "swapslot" /\ spt[p][u].swap # NULL}}
\* The contents of p's page at v are in its slot, or are being moved
InSlot(p, v) ==
  /\ v \in DOMAIN spt[p] /\ spt[p][v].type = "swapslot"
  /\ Present(p, v) => frame[spt[p][v].fr].evicting
SlotOf(q, s) == \E v \in DOMAIN spt[q] : InSlot(q, v) /\ spt[q][v].swap = s

\* process_exit, by exit or kill: free_mmappings, free_supp_page_table
process_exit(p) ==
  \/ Releasing(p, DOMAIN spt[p])
  \/ /\ At(p, "user") /\ frame_lock = NULL
     /\ release(p, DOMAIN spt[p])
     /\ in_use' = in_use \ SlotsRemoved(p)
     /\ Goes(p, "dead")
     /\ broken' = IF \E q \in Procs \ {p} : \E s \in SlotsRemoved(p) : SlotOf(q, s)
                  THEN "slot of another page freed" ELSE "no"
     /\ UNCHANGED <<swap, frame_lock, want>>

Stopped == broken # "no" /\ UNCHANGED vars

Next ==
  \/ Stopped
  \/ \E p \in Procs :
       \/ load(p) \/ frame_create(p) \/ frame_choose_victim_null(p)
       \/ frame_create_evict(p) \/ frame_evict(p) \/ frame_evict_end(p)
       \/ page_to_new_frame(p) \/ page_to_new_frame_load(p) \/ grow_stack(p)
       \/ pin_page_count(p) \/ unpin_page(p) \/ mmap(p) \/ munmap(p) \/ process_exit(p)
       \/ \E v \in touched[p] : \/ pin_page(p, v)
                                \/ \E write \in BOOLEAN : \/ access(p, v, write)
                                                          \/ page_fault(p, v, write)

Spec == Init /\ [][Next]_vars

-----------------------------------------------------------------------------
(* Properties                                                              *)

\* Where the contents of p's page at v are, and what they are
Contents(p, v) ==
  IF Present(p, v) THEN mem[pd[p][v].phys]
  ELSE IF spt[p][v].type = "filesys" THEN files[spt[p][v].fil]
  ELSE swap[spt[p][v].swap]

\* Unless one of the named hazards has struck, every page of every process
\* holds what the process last wrote there (or what it was loaded with),
\* wherever eviction, swapping and page faults have moved it, and a file that
\* is not mapped holds what was last written through its mapping.
PageContentsKept ==
  broken = "no" =>
    \A p \in Procs : /\ \A v \in DOMAIN spt[p] : Contents(p, v) = want[p][v]
                     /\ "map" \notin DOMAIN spt[p] => files[p] = want[p]["map"]

Owned(f) == \/ \E i \in DOMAIN frame_table : frame_table[i] = f
            \/ Chosen(f)
            \/ frame[f].evicting

\* The frame table, the page directories and the supplemental page tables
\* agree: a physical page is free, or belongs to one frame, mapped at most by
\* the one page that names it (so no process sees another's page); a pinned
\* frame is one a system call is copying into, and no victim unless it was
\* pinned after it was chosen.  The only ways out are the named hazards, of
\* which a pinned victim fails the assertions of unpin_page: no other
\* assertion of vm/ fails, and eviction always yields a page.
FrameTableSound ==
  /\ broken \in {"no", "frame without a page", "victim not loaded yet", "victim pinned",
                 "swap full", "write during eviction", "frame freed twice",
                 "mmap_lock kept", "slot of another page freed"}
  /\ broken = "no" =>
       /\ \A f \in Frames : f \in free <=> ~Owned(f)
       /\ \A i, j \in DOMAIN frame_table : frame_table[i] = frame_table[j] => i = j
       /\ \A p \in Procs : \A v \in DOMAIN spt[p] :
            /\ Present(p, v) => pd[p][v].phys = spt[p][v].fr
            /\ spt[p][v].fr # NULL => /\ spt[p][v].fr \notin free
                                      /\ frame[spt[p][v].fr].page = <<p, v>>
       /\ \A p \in Procs : DOMAIN pd[p] \subseteq DOMAIN spt[p]
       /\ \A f \in Frames : frame[f].pinned > 0 =>
            \E p \in Procs :
              \/ proc[p].at \in {"framed", "loading"} /\ proc[p].pin > 0 /\ proc[p].victim = f
              \/ /\ proc[p].at = "copying" /\ spt[p][proc[p].v].fr = f
                 /\ Chosen(f) \/ frame[f].evicting => proc[p].victim = f

\* Until a slot is freed for the second time, the slots in use are exactly the
\* slots of the pages that are swapped out, each of one page: none leaks when
\* a page is read back or its process exits.
SwapSlotsSound ==
  broken = "no" =>
    /\ \A s \in Slots : s \in in_use <=> \E p \in Procs : SlotOf(p, s)
    /\ \A p, q \in Procs : \A v \in DOMAIN spt[p] : \A u \in DOMAIN spt[q] :
         InSlot(p, v) /\ InSlot(q, u) /\ spt[p][v].swap = spt[q][u].swap
           => p = q /\ v = u
=============================================================================
