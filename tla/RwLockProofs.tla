---------------------------- MODULE RwLockProofs ----------------------------
(***************************************************************************)
(* The reader/writer lock of a cache block excludes and implements what it *)
(* promises, for any number of threads, blocks and sectors, under whatever *)
(* the buffer cache calls.                                                 *)
(*                                                                         *)
(* The operations on one block touch nothing of another, so the argument   *)
(* is about one block: rr, gg and bb stand for its r, g and b, h[p] for    *)
(* what process p has of it, and pl[p] for where p is in an operation on   *)
(* it, "none" if p is in no operation or in one on another block.          *)
(***************************************************************************)
EXTENDS BufferCache, FiniteSetTheorems, TLAPS

\* The provers of a leaf that names none, and their time.
USE SMTT(30), ZenonT(30)

\* Where a process holds r; and where one has counted itself in b without having read access.
HasR == {"read_extra", "read_down", "read_release", "read_unlock", "try_unlock", "end_up",
         "end_unlock", "upgrade_extra", "upgrade_unlock", "unlock"}
Counting == {"read_extra", "read_down", "read_release", "read_unlock"}

\* Where a process has nothing of the block.
Empty == Counting \cup {"try_unlock", "end_up", "end_unlock", "write_down", "upgrade_extra",
                        "upgrade_unlock", "upgrade_down"}

\* The accessors that b counts.
Counted(h, pl) == {p \in Procs : h[p] = "read" \/ pl[p] \in Counting}

\* The accessors for whom g is taken: they have read access, or the first of them has just
\* taken g, or the last of them is about to give it back.
Grouped(h, pl, p) == h[p] = "read" \/ pl[p] \in {"read_release", "read_unlock", "end_up"}

(***************************************************************************)
(* The state of one block's lock: r belongs to the process in a place      *)
(* where it is held; b counts the accessors; the process that waits for g  *)
(* for the readers is the only accessor, and there is none when g is given *)
(* back; a writer is alone; and g is taken exactly when the readers or a   *)
(* writer have it.                                                         *)
(***************************************************************************)
Sound(rr, gg, bb, h, pl) ==
    /\ rr \in Procs \cup {NoProc} /\ gg \in {0, 1}
    /\ h \in [Procs -> Modes] /\ pl \in [Procs -> Places]
    /\ bb = Cardinality(Counted(h, pl))
    /\ \A p \in Procs : pl[p] \in HasR <=> rr = p
    /\ \A p \in Procs : pl[p] \in Empty => h[p] = "none"
    /\ \A p \in Procs : pl[p] \in {"read_extra", "read_down"} => Counted(h, pl) = {p}
    /\ \A p \in Procs : pl[p] = "end_up" => Counted(h, pl) = {}
    /\ \A p, q \in Procs : h[p] = "write" => ~ Grouped(h, pl, q) /\ (q # p => h[q] # "write")
    /\ gg = 0 <=> \E p \in Procs : Grouped(h, pl, p) \/ h[p] = "write"

-----------------------------------------------------------------------------
\* The operations on one block

\* Counting one accessor more or less.
LEMMA CountIs ==
    ASSUME NEW h, NEW pl
    PROVE  /\ IsFiniteSet(Counted(h, pl)) /\ Cardinality(Counted(h, pl)) \in Nat
           /\ Cardinality(Counted(h, pl)) = 0 <=> Counted(h, pl) = {}
           /\ \A p \in Counted(h, pl) : Cardinality(Counted(h, pl)) = 1 <=> Counted(h, pl) = {p}
  <1>1. IsFiniteSet(Counted(h, pl))
    BY FS_Subset, ProcsAssumption DEF Counted
  <1>2. ASSUME NEW p \in Counted(h, pl), Cardinality(Counted(h, pl)) = 1
        PROVE  Counted(h, pl) = {p}
    BY <1>1, <1>2, FS_Singleton
  <1>3. ASSUME NEW p, Counted(h, pl) = {p} PROVE Cardinality(Counted(h, pl)) = 1
    BY <1>3, FS_Singleton, ZenonT(30)
  <1> QED BY <1>1, <1>2, <1>3, FS_EmptySet, FS_CardinalityType

LEMMA CountMore ==
    ASSUME NEW h, NEW pl, NEW p, p \notin Counted(h, pl)
    PROVE  Cardinality(Counted(h, pl) \cup {p}) = Cardinality(Counted(h, pl)) + 1
  BY CountIs, FS_AddElement

LEMMA CountLess ==
    ASSUME NEW h, NEW pl, NEW p, p \in Counted(h, pl)
    PROVE  Cardinality(Counted(h, pl) \ {p}) = Cardinality(Counted(h, pl)) - 1
  BY CountIs, FS_RemoveElement

\* Where nobody holds r the accessors have read access.
LEMMA NobodyCounting ==
    ASSUME NEW gg, NEW bb, NEW h, NEW pl, Sound(NoProc, gg, bb, h, pl)
    PROVE  /\ \A p \in Procs : pl[p] \notin HasR
           /\ \A p \in Counted(h, pl) : h[p] = "read"
  BY ProcsAssumption DEF Sound, Counted, Counting, HasR

\* A process goes on without changing what the invariant looks at.
LEMMA SoundMove ==
    ASSUME NEW rr, NEW gg, NEW bb, NEW h, NEW pl, Sound(rr, gg, bb, h, pl),
           NEW p \in Procs, NEW to \in Places \ {"read_extra", "end_up"},
           to \in HasR <=> pl[p] \in HasR,
           to \in Counting <=> pl[p] \in Counting,
           to \in {"read_release", "read_unlock"} <=> pl[p] \in {"read_release", "read_unlock", "end_up"},
           to \in Empty => h[p] = "none",
           to = "read_down" => pl[p] = "read_extra"
    PROVE  Sound(rr, gg, bb, h, [pl EXCEPT ![p] = to])
  <1> DEFINE pl2 == [pl EXCEPT ![p] = to]
  <1>1. pl2 \in [Procs -> Places] /\ pl2[p] = to /\ \A q \in Procs : q # p => pl2[q] = pl[q]
    BY DEF Sound
  <1>2. Counted(h, pl2) = Counted(h, pl)
    BY <1>1 DEF Counted
  <1>3. \A q \in Procs : Grouped(h, pl2, q) <=> Grouped(h, pl, q)
    BY <1>1 DEF Grouped
  <1> QED BY <1>1, <1>2, <1>3, ZenonT(30) DEF Sound

\* lock_release(&r).
LEMMA SoundUnlock ==
    ASSUME NEW rr, NEW gg, NEW bb, NEW h, NEW pl, Sound(rr, gg, bb, h, pl),
           NEW p \in Procs, pl[p] \in {"try_unlock", "end_unlock", "unlock", "upgrade_unlock"},
           NEW to \in {"none", "upgrade_down"}, to = "upgrade_down" => h[p] = "none"
    PROVE  Sound(NoProc, gg, bb, h, [pl EXCEPT ![p] = to])
  <1> DEFINE pl2 == [pl EXCEPT ![p] = to]
  <1>1. pl2 \in [Procs -> Places] /\ pl2[p] = to /\ \A q \in Procs : q # p => pl2[q] = pl[q]
    BY DEF Sound, Places
  <1>2. Counted(h, pl2) = Counted(h, pl)
    BY <1>1 DEF Counted, Counting
  <1>3. \A q \in Procs : Grouped(h, pl2, q) <=> Grouped(h, pl, q)
    BY <1>1 DEF Grouped
  <1>4. \A q \in Procs : pl2[q] \in HasR <=> NoProc = q
    BY <1>1, ProcsAssumption DEF Sound, HasR
  <1>5. \A q \in Procs : pl2[q] \in Empty => h[q] = "none"
    BY <1>1 DEF Sound, Empty, Counting
  <1> QED BY <1>1, <1>2, <1>3, <1>4, <1>5, ZenonT(30) DEF Sound

\* cache_read_begin: one accessor more, who has to take g if it is the first.
LEMMA SoundReadBegin ==
    ASSUME NEW gg, NEW bb, NEW h, NEW pl, Sound(NoProc, gg, bb, h, pl),
           NEW p \in Procs, pl[p] = "none", h[p] = "none"
    PROVE  Sound(p, gg, bb + 1, h,
                 [pl EXCEPT ![p] = IF bb + 1 = 1 THEN "read_extra" ELSE "read_unlock"])
  <1> DEFINE to == IF bb + 1 = 1 THEN "read_extra" ELSE "read_unlock"
             pl2 == [pl EXCEPT ![p] = to]
  <1>1. /\ pl2 \in [Procs -> Places] /\ pl2[p] = to /\ \A q \in Procs : q # p => pl2[q] = pl[q]
        /\ to \in {"read_extra", "read_unlock"}
    BY DEF Sound, Places
  <1>2. \A q \in Procs : pl[q] \notin HasR
    BY NobodyCounting
  <1>3. Counted(h, pl2) = Counted(h, pl) \cup {p} /\ p \notin Counted(h, pl)
    BY <1>1 DEF Counted, Counting, Sound
  <1>4. bb \in Nat /\ (bb = 0 <=> Counted(h, pl) = {}) /\ bb + 1 = Cardinality(Counted(h, pl2))
    <2>1. bb = Cardinality(Counted(h, pl))
      BY DEF Sound
    <2>2. bb \in Nat /\ (bb = 0 <=> Counted(h, pl) = {})
      BY <2>1, CountIs
    <2>3. Cardinality(Counted(h, pl) \cup {p}) = Cardinality(Counted(h, pl)) + 1
      BY <1>3, CountMore
    <2> QED BY <1>3, <2>1, <2>2, <2>3, ZenonT(30)
  <1>5. to = "read_unlock" => gg = 0 /\ \A q \in Procs : h[q] # "write"
    <2> HAVE to = "read_unlock"
    <2>1. bb # 0
      BY <1>4
    <2>2. PICK q \in Counted(h, pl) : TRUE
      BY <1>4, <2>1
    <2>3. q \in Procs /\ h[q] = "read"
      BY <2>2, NobodyCounting DEF Counted
    <2>4. Grouped(h, pl, q)
      BY <2>3 DEF Grouped
    <2> QED BY <2>3, <2>4 DEF Sound
  <1>6. to = "read_extra" => Counted(h, pl2) = {p}
    <2>1. to = "read_extra" => bb = 0
      BY <1>4
    <2> QED BY <1>3, <1>4, <2>1, ZenonT(30)
  <1>7. \A q \in Procs : Grouped(h, pl2, q) <=> Grouped(h, pl, q) \/ (q = p /\ to = "read_unlock")
    BY <1>1, <1>2 DEF Grouped, HasR
  <1>8. \A q \in Procs : pl2[q] \in HasR <=> p = q
    BY <1>1, <1>2 DEF HasR
  <1>9. \A q \in Procs : pl2[q] \in {"read_extra", "read_down", "end_up"} => q = p /\ to = "read_extra"
    BY <1>1, <1>2 DEF HasR
  <1>10. \A q \in Procs : pl2[q] \in Empty => h[q] = "none"
    BY <1>1 DEF Sound
  <1>11. \A q, u \in Procs : h[q] = "write" => ~ Grouped(h, pl2, u) /\ (u # q => h[u] # "write")
    BY <1>5, <1>7, ZenonT(30) DEF Sound
  <1>12. gg = 0 <=> \E q \in Procs : Grouped(h, pl2, q) \/ h[q] = "write"
    BY <1>5, <1>7, ZenonT(30) DEF Sound
  <1> QED BY <1>1, <1>4, <1>6, <1>8, <1>9, <1>10, <1>11, <1>12, ZenonT(30) DEF Sound

\* cache_read_try that gives up: only r is taken.
LEMMA SoundTryFails ==
    ASSUME NEW gg, NEW bb, NEW h, NEW pl, Sound(NoProc, gg, bb, h, pl),
           NEW p \in Procs, pl[p] = "none", h[p] = "none"
    PROVE  Sound(p, gg, bb, h, [pl EXCEPT ![p] = "try_unlock"])
  <1> DEFINE pl2 == [pl EXCEPT ![p] = "try_unlock"]
  <1>1. pl2 \in [Procs -> Places] /\ pl2[p] = "try_unlock" /\ \A q \in Procs : q # p => pl2[q] = pl[q]
    BY DEF Sound, Places
  <1>2. Counted(h, pl2) = Counted(h, pl)
    BY <1>1 DEF Counted, Counting
  <1>3. \A q \in Procs : Grouped(h, pl2, q) <=> Grouped(h, pl, q)
    BY <1>1 DEF Grouped
  <1>4. \A q \in Procs : pl2[q] \in HasR <=> p = q
    BY <1>1, NobodyCounting DEF HasR
  <1>5. \A q \in Procs : pl2[q] \in Empty => h[q] = "none"
    BY <1>1 DEF Sound
  <1>6. \A q \in Procs : pl2[q] \notin {"read_extra", "read_down", "end_up"}
    BY <1>1, NobodyCounting DEF HasR
  <1>7. \A q, u \in Procs : h[q] = "write" => ~ Grouped(h, pl2, u) /\ (u # q => h[u] # "write")
    BY <1>3, ZenonT(30) DEF Sound
  <1>8. gg = 0 <=> \E q \in Procs : Grouped(h, pl2, q) \/ h[q] = "write"
    BY <1>3, ZenonT(30) DEF Sound
  <1> QED BY <1>1, <1>2, <1>4, <1>5, <1>6, <1>7, <1>8, ZenonT(30) DEF Sound

\* The sema_down(&g) of the first accessor, in cache_read_begin or cache_read_try.
LEMMA SoundReadDown ==
    ASSUME NEW rr, NEW gg, NEW bb, NEW h, NEW pl, Sound(rr, gg, bb, h, pl),
           NEW p \in Procs, pl[p] \in {"read_extra", "read_down"}, gg > 0,
           NEW to \in {"read_release", "read_unlock"}
    PROVE  Sound(rr, gg - 1, bb, h, [pl EXCEPT ![p] = to])
  <1> DEFINE pl2 == [pl EXCEPT ![p] = to]
  <1>1. pl2 \in [Procs -> Places] /\ pl2[p] = to /\ \A q \in Procs : q # p => pl2[q] = pl[q]
    BY DEF Sound, Places
  <1>2. Counted(h, pl2) = Counted(h, pl)
    BY <1>1 DEF Counted, Counting
  <1>3. gg - 1 = 0 /\ gg # 0
    BY DEF Sound
  <1>4. \A q \in Procs : h[q] # "write"
    BY <1>3 DEF Sound
  <1>5. Grouped(h, pl2, p)
    BY <1>1 DEF Grouped
  <1>6. \A q \in Procs : pl2[q] \in HasR <=> rr = q
    BY <1>1 DEF Sound, HasR
  <1>7. \A q \in Procs : pl2[q] \in Empty => h[q] = "none"
    BY <1>1 DEF Sound, Empty, Counting
  <1>8. \A q \in Procs : pl2[q] \notin {"read_extra", "read_down", "end_up"}
    BY <1>1, <1>6 DEF HasR
  <1> QED BY <1>1, <1>2, <1>3, <1>4, <1>5, <1>6, <1>7, <1>8, ZenonT(30) DEF Sound

\* The sema_up(&g) of the last accessor.
LEMMA SoundEndUp ==
    ASSUME NEW rr, NEW gg, NEW bb, NEW h, NEW pl, Sound(rr, gg, bb, h, pl),
           NEW p \in Procs, pl[p] = "end_up"
    PROVE  Sound(rr, gg + 1, bb, h, [pl EXCEPT ![p] = "end_unlock"])
  <1> DEFINE pl2 == [pl EXCEPT ![p] = "end_unlock"]
  <1>1. pl2 \in [Procs -> Places] /\ pl2[p] = "end_unlock" /\ \A q \in Procs : q # p => pl2[q] = pl[q]
    BY DEF Sound, Places
  <1>2. Counted(h, pl2) = Counted(h, pl) /\ Counted(h, pl) = {}
    BY <1>1 DEF Counted, Counting, Sound
  <1>3. gg = 0 /\ \A q \in Procs : h[q] # "write"
    BY DEF Sound, Grouped
  <1>4. \A q \in Procs : pl2[q] \in HasR <=> rr = q
    BY <1>1 DEF Sound, HasR
  <1>5. \A q \in Procs : ~ Grouped(h, pl2, q)
    BY <1>1, <1>2, <1>4 DEF Grouped, Counted, HasR
  <1>6. \A q \in Procs : pl2[q] \in Empty => h[q] = "none"
    BY <1>1 DEF Sound, Empty, Counting
  <1>7. \A q \in Procs : pl2[q] \notin {"read_extra", "read_down", "end_up"}
    BY <1>1, <1>4 DEF HasR
  <1>8. gg + 1 \in {0, 1} /\ gg + 1 # 0
    BY <1>3
  <1>9. \A q, u \in Procs : h[q] = "write" => ~ Grouped(h, pl2, u) /\ (u # q => h[u] # "write")
    BY <1>3
  <1>10. gg + 1 = 0 <=> \E q \in Procs : Grouped(h, pl2, q) \/ h[q] = "write"
    BY <1>3, <1>5, <1>8, ZenonT(30)
  <1> QED BY <1>1, <1>2, <1>4, <1>6, <1>7, <1>8, <1>9, <1>10, ZenonT(30) DEF Sound

\* The lock_release(&r) of cache_read_begin and of cache_read_try: p is a reader.
LEMMA SoundReadUnlock ==
    ASSUME NEW rr, NEW gg, NEW bb, NEW h, NEW pl, Sound(rr, gg, bb, h, pl),
           NEW p \in Procs, pl[p] = "read_unlock"
    PROVE  Sound(NoProc, gg, bb, [h EXCEPT ![p] = "read"], [pl EXCEPT ![p] = "none"])
  <1> DEFINE h2 == [h EXCEPT ![p] = "read"]
             pl2 == [pl EXCEPT ![p] = "none"]
  <1>1. /\ h2 \in [Procs -> Modes] /\ h2[p] = "read" /\ \A q \in Procs : q # p => h2[q] = h[q]
        /\ pl2 \in [Procs -> Places] /\ pl2[p] = "none" /\ \A q \in Procs : q # p => pl2[q] = pl[q]
    BY DEF Sound, Places, Modes
  <1>2. Counted(h2, pl2) = Counted(h, pl)
    BY <1>1 DEF Counted, Counting
  <1>3. \A q \in Procs : Grouped(h2, pl2, q) <=> Grouped(h, pl, q)
    BY <1>1 DEF Grouped
  <1>4. \A q \in Procs : h2[q] = "write" <=> h[q] = "write"
    BY <1>1 DEF Sound, Empty, Counting
  <1>5. \A q \in Procs : pl2[q] \in HasR <=> NoProc = q
    BY <1>1, ProcsAssumption DEF Sound, HasR
  <1>6. \A q \in Procs : pl2[q] \in Empty => h2[q] = "none"
    BY <1>1 DEF Sound, Empty, Counting
  <1>7. \A q \in Procs : pl2[q] \notin {"read_extra", "read_down", "end_up"}
    BY <1>1, <1>5, ProcsAssumption DEF HasR
  <1>8. \A q, u \in Procs : h2[q] = "write" => ~ Grouped(h2, pl2, u) /\ (u # q => h2[u] # "write")
    BY <1>3, <1>4, ZenonT(30) DEF Sound
  <1>9. gg = 0 <=> \E q \in Procs : Grouped(h2, pl2, q) \/ h2[q] = "write"
    BY <1>3, <1>4, ZenonT(30) DEF Sound
  <1> QED BY <1>1, <1>2, <1>5, <1>6, <1>7, <1>8, <1>9, ZenonT(30) DEF Sound

\* A reader goes, in cache_read_end or in cache_upgrade among others.
LEMMA SoundLeave ==
    ASSUME NEW gg, NEW bb, NEW h, NEW pl, Sound(NoProc, gg, bb, h, pl),
           NEW p \in Procs, pl[p] = "none", h[p] = "read",
           NEW to \in {"end_up", "end_unlock", "upgrade_extra"}, to = "end_up" <=> bb - 1 = 0
    PROVE  Sound(p, gg, bb - 1, [h EXCEPT ![p] = "none"], [pl EXCEPT ![p] = to])
  <1> DEFINE h2 == [h EXCEPT ![p] = "none"]
             pl2 == [pl EXCEPT ![p] = to]
  <1>1. /\ h2 \in [Procs -> Modes] /\ h2[p] = "none" /\ \A q \in Procs : q # p => h2[q] = h[q]
        /\ pl2 \in [Procs -> Places] /\ pl2[p] = to /\ \A q \in Procs : q # p => pl2[q] = pl[q]
    BY DEF Sound, Places, Modes
  <1>2. \A q \in Procs : pl[q] \notin HasR
    BY NobodyCounting
  <1>3. Counted(h2, pl2) = Counted(h, pl) \ {p} /\ p \in Counted(h, pl)
    BY <1>1 DEF Counted, Counting, Sound
  <1>4. bb \in Nat /\ (bb = 1 <=> Counted(h, pl) = {p}) /\ bb - 1 = Cardinality(Counted(h2, pl2))
    <2>1. bb = Cardinality(Counted(h, pl))
      BY DEF Sound
    <2>2. bb \in Nat /\ (bb = 1 <=> Counted(h, pl) = {p})
      BY <1>3, <2>1, CountIs
    <2>3. Cardinality(Counted(h, pl) \ {p}) = Cardinality(Counted(h, pl)) - 1
      BY <1>3, CountLess
    <2> QED BY <1>3, <2>1, <2>2, <2>3, ZenonT(30)
  <1>5. bb - 1 = 0 <=> Counted(h2, pl2) = {}
    <2>1. bb - 1 = 0 <=> bb = 1
      BY <1>4
    <2> QED BY <1>3, <1>4, <2>1, ZenonT(30)
  <1>6. gg = 0 /\ \A q \in Procs : h[q] # "write"
    BY DEF Sound, Grouped
  <1>7. \E q \in Procs : Grouped(h2, pl2, q)
    <2>1. CASE to = "end_up"
      BY <1>1, <2>1 DEF Grouped
    <2>2. CASE to # "end_up"
      <3>1. PICK q \in Counted(h2, pl2) : TRUE
        BY <1>5, <2>2, ZenonT(30)
      <3>2. q \in Procs /\ q # p /\ h[q] = "read"
        BY <3>1, <1>1, <1>3, NobodyCounting DEF Counted
      <3> QED BY <1>1, <3>2 DEF Grouped
    <2> QED BY <2>1, <2>2, ZenonT(30)
  <1>8. \A q \in Procs : h2[q] # "write"
    BY <1>1, <1>6
  <1>9. \A q \in Procs : pl2[q] \in HasR <=> p = q
    BY <1>1, <1>2 DEF HasR
  <1>10. \A q \in Procs : pl2[q] \in Empty => h2[q] = "none"
    BY <1>1 DEF Sound
  <1>11. \A q \in Procs : pl2[q] \notin {"read_extra", "read_down"} /\ (pl2[q] = "end_up" => Counted(h2, pl2) = {})
    BY <1>1, <1>2, <1>5, <1>9, ZenonT(30) DEF HasR
  <1> QED BY <1>1, <1>4, <1>6, <1>7, <1>8, <1>9, <1>10, <1>11, ZenonT(30) DEF Sound

\* cache_upgrade by the only accessor.
LEMMA SoundUpgrade ==
    ASSUME NEW gg, NEW bb, NEW h, NEW pl, Sound(NoProc, gg, bb, h, pl),
           NEW p \in Procs, pl[p] = "none", h[p] = "read", bb - 1 = 0
    PROVE  /\ Sound(p, gg, bb - 1, [h EXCEPT ![p] = "write"], [pl EXCEPT ![p] = "unlock"])
           /\ \A q \in Procs \ {p} : h[q] = "none"
  <1> DEFINE h2 == [h EXCEPT ![p] = "write"]
             pl2 == [pl EXCEPT ![p] = "unlock"]
  <1>1. /\ h2 \in [Procs -> Modes] /\ h2[p] = "write" /\ \A q \in Procs : q # p => h2[q] = h[q]
        /\ pl2 \in [Procs -> Places] /\ pl2[p] = "unlock" /\ \A q \in Procs : q # p => pl2[q] = pl[q]
    BY DEF Sound, Places, Modes
  <1>2. \A q \in Procs : pl[q] \notin HasR
    BY NobodyCounting
  <1>3. Counted(h, pl) = {p} /\ bb - 1 = Cardinality(Counted(h, pl) \ {p})
    <2>1. bb = Cardinality(Counted(h, pl)) /\ p \in Counted(h, pl)
      BY DEF Sound, Counted
    <2>2. bb \in Nat /\ bb = 1
      BY <2>1, CountIs
    <2>3. Counted(h, pl) = {p}
      BY <2>1, <2>2, CountIs, ZenonT(30)
    <2>4. Cardinality(Counted(h, pl) \ {p}) = Cardinality(Counted(h, pl)) - 1
      BY <2>1, CountLess
    <2> QED BY <2>1, <2>3, <2>4
  <1>4. Counted(h2, pl2) = Counted(h, pl) \ {p}
    BY <1>1, <1>2 DEF Counted, Counting, HasR
  <1>5. gg = 0 /\ \A q \in Procs : h[q] # "write"
    BY DEF Sound, Grouped
  <1>6. \A q \in Procs \ {p} : h[q] = "none"
    BY <1>3, <1>5 DEF Sound, Modes, Counted
  <1>7. \A q \in Procs : ~ Grouped(h2, pl2, q)
    BY <1>1, <1>2, <1>6 DEF Grouped, HasR
  <1>8. \A q \in Procs : pl2[q] \in HasR <=> p = q
    BY <1>1, <1>2 DEF HasR
  <1>9. \A q \in Procs : pl2[q] \in Empty => h2[q] = "none"
    BY <1>1, <1>6 DEF Sound, Empty, Counting
  <1>10. \A q \in Procs : pl2[q] \notin {"read_extra", "read_down", "end_up"}
    BY <1>1, <1>2 DEF HasR
  <1>11. \A q, u \in Procs : h2[q] = "write" => ~ Grouped(h2, pl2, u) /\ (u # q => h2[u] # "write")
    BY <1>1, <1>6, <1>7, ZenonT(30)
  <1> QED BY <1>1, <1>3, <1>4, <1>5, <1>6, <1>8, <1>9, <1>10, <1>11, ZenonT(30) DEF Sound

\* cache_downgrade: a writer that has r is alone, so b is 0.
LEMMA SoundDowngrade ==
    ASSUME NEW gg, NEW bb, NEW h, NEW pl, Sound(NoProc, gg, bb, h, pl),
           NEW p \in Procs, pl[p] = "none", h[p] = "write"
    PROVE  /\ bb = 0
           /\ Sound(p, gg, bb + 1, [h EXCEPT ![p] = "read"], [pl EXCEPT ![p] = "unlock"])
  <1> DEFINE h2 == [h EXCEPT ![p] = "read"]
             pl2 == [pl EXCEPT ![p] = "unlock"]
  <1>1. /\ h2 \in [Procs -> Modes] /\ h2[p] = "read" /\ \A q \in Procs : q # p => h2[q] = h[q]
        /\ pl2 \in [Procs -> Places] /\ pl2[p] = "unlock" /\ \A q \in Procs : q # p => pl2[q] = pl[q]
    BY DEF Sound, Places, Modes
  <1>2. \A q \in Procs : pl[q] \notin HasR
    BY NobodyCounting
  <1>3. \A q \in Procs : ~ Grouped(h, pl, q) /\ (q # p => h[q] = "none")
    BY DEF Sound, Grouped, Modes
  <1>4. Counted(h, pl) = {} /\ Counted(h2, pl2) = Counted(h, pl) \cup {p}
    BY <1>1, <1>2, <1>3 DEF Counted, Counting, HasR
  <1>5. bb = 0 /\ bb + 1 = Cardinality(Counted(h2, pl2))
    <2>1. bb = Cardinality(Counted(h, pl))
      BY DEF Sound
    <2>2. bb = 0
      BY <1>4, <2>1, CountIs
    <2>3. Cardinality(Counted(h, pl) \cup {p}) = Cardinality(Counted(h, pl)) + 1
      BY <1>4, CountMore
    <2> QED BY <1>4, <2>1, <2>2, <2>3, ZenonT(30)
  <1>6. gg = 0
    BY DEF Sound
  <1>7. Grouped(h2, pl2, p) /\ \A q \in Procs : h2[q] # "write"
    BY <1>1, <1>3 DEF Grouped
  <1>8. \A q \in Procs : pl2[q] \in HasR <=> p = q
    BY <1>1, <1>2 DEF HasR
  <1>9. \A q \in Procs : pl2[q] \in Empty => h2[q] = "none"
    BY <1>1, <1>3 DEF Empty, Counting
  <1>10. \A q \in Procs : pl2[q] \notin {"read_extra", "read_down", "end_up"}
    BY <1>1, <1>2 DEF HasR
  <1> QED BY <1>1, <1>5, <1>6, <1>7, <1>8, <1>9, <1>10, ZenonT(30) DEF Sound

\* While g is there to be taken nobody has the block.
LEMMA NobodyInside ==
    ASSUME NEW rr, NEW gg, NEW bb, NEW h, NEW pl, Sound(rr, gg, bb, h, pl), gg > 0
    PROVE  \A q \in Procs : ~ Grouped(h, pl, q) /\ h[q] = "none"
  <1>1. gg # 0
    BY DEF Sound
  <1> QED BY <1>1 DEF Sound, Grouped, Modes

\* Getting g to write, in cache_write_begin, cache_write_try or cache_upgrade.
LEMMA SoundWrite ==
    ASSUME NEW rr, NEW gg, NEW bb, NEW h, NEW pl, Sound(rr, gg, bb, h, pl),
           NEW p \in Procs, pl[p] \in {"none", "write_down", "upgrade_down"}, h[p] = "none", gg > 0,
           NEW to \in {"none", "write_release"}
    PROVE  Sound(rr, gg - 1, bb, [h EXCEPT ![p] = "write"], [pl EXCEPT ![p] = to])
  <1> DEFINE h2 == [h EXCEPT ![p] = "write"]
             pl2 == [pl EXCEPT ![p] = to]
  <1>1. /\ h2 \in [Procs -> Modes] /\ h2[p] = "write" /\ \A q \in Procs : q # p => h2[q] = h[q]
        /\ pl2 \in [Procs -> Places] /\ pl2[p] = to /\ \A q \in Procs : q # p => pl2[q] = pl[q]
    BY DEF Sound, Places, Modes
  <1>2. Counted(h2, pl2) = Counted(h, pl)
    BY <1>1 DEF Counted, Counting
  <1>3. gg - 1 = 0 /\ gg # 0
    BY DEF Sound
  <1>4. \A q \in Procs : ~ Grouped(h, pl, q) /\ h[q] = "none"
    BY NobodyInside
  <1>5. \A q \in Procs : ~ Grouped(h2, pl2, q)
    BY <1>1, <1>4 DEF Grouped
  <1>6. \A q \in Procs : pl2[q] \in HasR <=> rr = q
    BY <1>1 DEF Sound, HasR
  <1>7. \A q \in Procs : pl2[q] \in Empty => h2[q] = "none"
    BY <1>1, <1>4 DEF Empty, Counting
  <1>8. \A q \in Procs : /\ pl2[q] \in {"read_extra", "read_down"} => Counted(h2, pl2) = {q}
                         /\ pl2[q] = "end_up" => Counted(h2, pl2) = {}
    BY <1>1, <1>2, ZenonT(30) DEF Sound
  <1>9. \A q, u \in Procs : h2[q] = "write" => ~ Grouped(h2, pl2, u) /\ (u # q => h2[u] # "write")
    BY <1>1, <1>4, <1>5, ZenonT(30)
  <1> QED BY <1>1, <1>2, <1>3, <1>4, <1>6, <1>7, <1>8, <1>9, ZenonT(30) DEF Sound

\* cache_write_end
LEMMA SoundWriteEnd ==
    ASSUME NEW rr, NEW gg, NEW bb, NEW h, NEW pl, Sound(rr, gg, bb, h, pl),
           NEW p \in Procs, pl[p] = "none", h[p] = "write"
    PROVE  Sound(rr, gg + 1, bb, [h EXCEPT ![p] = "none"], [pl EXCEPT ![p] = "none"])
  <1> DEFINE h2 == [h EXCEPT ![p] = "none"]
             pl2 == [pl EXCEPT ![p] = "none"]
  <1>1. /\ h2 \in [Procs -> Modes] /\ h2[p] = "none" /\ \A q \in Procs : q # p => h2[q] = h[q]
        /\ pl2 \in [Procs -> Places] /\ pl2[p] = "none" /\ \A q \in Procs : q # p => pl2[q] = pl[q]
    BY DEF Sound, Places, Modes
  <1>2. Counted(h2, pl2) = Counted(h, pl)
    BY <1>1 DEF Counted, Counting
  <1>3. gg = 0 /\ gg + 1 \in {0, 1} /\ gg + 1 # 0
    BY DEF Sound
  <1>4. \A q \in Procs : ~ Grouped(h2, pl2, q) /\ h2[q] # "write"
    BY <1>1 DEF Sound, Grouped
  <1>5. \A q \in Procs : pl2[q] \in HasR <=> rr = q
    BY <1>1 DEF Sound, HasR
  <1>6. \A q \in Procs : pl2[q] \in Empty => h2[q] = "none"
    BY <1>1 DEF Sound
  <1>7. \A q \in Procs : /\ pl2[q] \in {"read_extra", "read_down"} => Counted(h2, pl2) = {q}
                         /\ pl2[q] = "end_up" => Counted(h2, pl2) = {}
    BY <1>1, <1>2, ZenonT(30) DEF Sound
  <1> QED BY <1>1, <1>2, <1>3, <1>4, <1>5, <1>6, <1>7, ZenonT(30) DEF Sound
=============================================================================
