-------------------------- MODULE CacheLockProofs --------------------------
(***************************************************************************)
(* The locks of all blocks are sound under whatever the buffer cache calls *)
(* and every step is one of the abstract lock's.  An operation changes one *)
(* block (OneBlock), for which RwLockProofs.tla has the argument; a step   *)
(* of the cache that is no operation on a lock changes nothing of a lock.  *)
(***************************************************************************)
EXTENDS RwLockProofs

\* The provers of a leaf that names none, and their time.
USE SMTT(30), ZenonT(30)

HoldOf(c) == [p \in Procs |-> hold[p][c]]
PlaceOf(c) == [p \in Procs |-> IF blk[p] = c THEN lpc[p] ELSE "none"]

Types ==
    /\ r \in [Blocks -> Procs \cup {NoProc}]
    /\ extra \in [Blocks -> Procs \cup {NoProc}]
    /\ g \in [Blocks -> Int]
    /\ b \in [Blocks -> Int]
    /\ lpc \in [Procs -> Places]
    /\ blk \in [Procs -> Blocks]
    /\ hold \in [Procs -> [Blocks -> Modes]]

\* The locks of all blocks are sound, no assertion has failed, and the loops over the
\* blocks are at a block.
RwInv ==
    /\ Types
    /\ failed = FALSE
    /\ \A c \in Blocks : Sound(r[c], g[c], b[c], HoldOf(c), PlaceOf(c))

AtBlocks ==
    /\ at \in [Procs -> Blocks]
    /\ victim \in [Procs -> Blocks \cup {0}]

\* A step of p in an operation on block c, which leaves p at to and with access m.
OneBlock(p, c, rr, gg, bb, m, to) ==
    /\ lpc[p] = "none" \/ blk[p] = c
    /\ r' = [r EXCEPT ![c] = rr]
    /\ g' = [g EXCEPT ![c] = gg]
    /\ b' = [b EXCEPT ![c] = bb]
    /\ lpc' = [lpc EXCEPT ![p] = to]
    /\ blk' = [blk EXCEPT ![p] = c]
    /\ hold' = [hold EXCEPT ![p][c] = m]
    /\ extra' \in [Blocks -> Procs \cup {NoProc}]
    /\ failed' = FALSE

\* It is enough to look at the block of the operation.
LEMMA OneBlockKeeps ==
    ASSUME RwInv, NEW p \in Procs, NEW c \in Blocks, NEW rr \in Procs \cup {NoProc},
           NEW gg \in Int, NEW bb \in Int, NEW m \in Modes, NEW to \in Places,
           OneBlock(p, c, rr, gg, bb, m, to),
           Sound(rr, gg, bb, [HoldOf(c) EXCEPT ![p] = m], [PlaceOf(c) EXCEPT ![p] = to])
    PROVE  RwInv'
  <1>1. Types' /\ failed' = FALSE
    BY DEF RwInv, Types, OneBlock
  <1>2. HoldOf(c)' = [HoldOf(c) EXCEPT ![p] = m]
    BY ZenonT(30) DEF RwInv, Types, OneBlock, HoldOf
  <1>3. PlaceOf(c)' = [PlaceOf(c) EXCEPT ![p] = to]
    BY ZenonT(30) DEF RwInv, Types, OneBlock, PlaceOf
  <1>4. r'[c] = rr /\ g'[c] = gg /\ b'[c] = bb
    BY DEF RwInv, Types, OneBlock
  <1>5. ASSUME NEW d \in Blocks, d # c
        PROVE  Sound(r[d], g[d], b[d], HoldOf(d), PlaceOf(d))'
    <2>1. HoldOf(d)' = HoldOf(d)
      BY <1>5 DEF RwInv, Types, OneBlock, HoldOf
    <2>2. PlaceOf(d)' = PlaceOf(d)
      BY <1>5 DEF RwInv, Types, OneBlock, PlaceOf
    <2>3. r'[d] = r[d] /\ g'[d] = g[d] /\ b'[d] = b[d]
      BY <1>5 DEF RwInv, Types, OneBlock
    <2>4. Sound(r[d], g[d], b[d], HoldOf(d), PlaceOf(d))
      BY DEF RwInv
    <2> QED BY <2>1, <2>2, <2>3, <2>4
  <1> QED BY <1>1, <1>2, <1>3, <1>4, <1>5, ZenonT(30) DEF RwInv

\* What the invariant says of process p and a block c.
LEMMA SoundAt ==
    ASSUME RwInv, NEW p \in Procs, NEW c \in Blocks
    PROVE  /\ Sound(r[c], g[c], b[c], HoldOf(c), PlaceOf(c))
           /\ r[c] \in Procs \cup {NoProc} /\ g[c] \in {0, 1} /\ b[c] \in Int
           /\ HoldOf(c)[p] = hold[p][c] /\ hold[p][c] \in Modes
           /\ lpc[p] = "none" \/ blk[p] = c => PlaceOf(c)[p] = lpc[p]
           /\ [HoldOf(c) EXCEPT ![p] = hold[p][c]] = HoldOf(c)
           /\ [r EXCEPT ![c] = r[c]] = r /\ [g EXCEPT ![c] = g[c]] = g /\ [b EXCEPT ![c] = b[c]] = b
           /\ [hold EXCEPT ![p][c] = hold[p][c]] = hold
           /\ [blk EXCEPT ![p] = blk[p]] = blk /\ blk[p] \in Blocks
  <1>1. Sound(r[c], g[c], b[c], HoldOf(c), PlaceOf(c))
    BY DEF RwInv
  <1>2. g[c] \in {0, 1}
    BY <1>1 DEF Sound
  <1>3. HoldOf(c)[p] = hold[p][c] /\ hold[p][c] \in Modes
    BY DEF RwInv, Types, HoldOf
  <1>4. lpc[p] = "none" \/ blk[p] = c => PlaceOf(c)[p] = lpc[p]
    BY DEF PlaceOf
  <1>5. [HoldOf(c) EXCEPT ![p] = hold[p][c]] = HoldOf(c)
    BY <1>3 DEF HoldOf
  <1>6. [r EXCEPT ![c] = r[c]] = r /\ [g EXCEPT ![c] = g[c]] = g /\ [b EXCEPT ![c] = b[c]] = b
    BY DEF RwInv, Types
  <1>7. [hold EXCEPT ![p][c] = hold[p][c]] = hold
    BY DEF RwInv, Types
  <1>8. [blk EXCEPT ![p] = blk[p]] = blk /\ blk[p] \in Blocks
    BY DEF RwInv, Types
  <1> QED BY <1>1, <1>2, <1>3, <1>4, <1>5, <1>6, <1>7, <1>8 DEF RwInv, Types

-----------------------------------------------------------------------------
\* The steps

\* What a step of the lock must do: keep the invariant, and keep the promise.
Keeps == RwInv' /\ [Abs!Next]_hold

\* The steps that only change places.
LEMMA Keeps_read_extra ==
    ASSUME RwInv, NEW p \in Procs, NEW c \in Blocks, c = blk[p], read_extra(p)
    PROVE  Keeps
  <1>1. lpc[p] = "read_extra"
    BY DEF read_extra, Step
  <1>2. OneBlock(p, c, r[c], g[c], b[c], hold[p][c], "read_down")
    BY SoundAt DEF read_extra, Step, Has, OneBlock, RwInv, Types
  <1>3. /\ Sound(r[c], g[c], b[c], HoldOf(c), PlaceOf(c)) /\ PlaceOf(c)[p] = lpc[p]
        /\ r[c] \in Procs \cup {NoProc} /\ g[c] \in {0, 1} /\ b[c] \in Int
        /\ HoldOf(c)[p] = hold[p][c] /\ hold[p][c] \in Modes
    BY SoundAt
  <1>4. Sound(r[c], g[c], b[c], [HoldOf(c) EXCEPT ![p] = hold[p][c]], [PlaceOf(c) EXCEPT ![p] = "read_down"])
    <2>1. "read_down" \in Empty => HoldOf(c)[p] = "none"
      BY <1>1, <1>3 DEF Sound, Empty, Counting
    <2>2. Sound(r[c], g[c], b[c], HoldOf(c), [PlaceOf(c) EXCEPT ![p] = "read_down"])
      BY <1>1, <1>3, <2>1, SoundMove DEF HasR, Counting, Places
    <2> QED BY <2>2, SoundAt
  <1>5. RwInv'
    <2>1. r[c] \in Procs \cup {NoProc} /\ g[c] \in Int /\ b[c] \in Int /\ hold[p][c] \in Modes /\ "read_down" \in Places
      BY <1>3 DEF Places
    <2> QED BY <1>2, <1>4, <2>1, OneBlockKeeps, ZenonT(30)
  <1>6. [Abs!Next]_hold
    BY DEF read_extra
  <1> QED BY <1>5, <1>6 DEF Keeps

LEMMA Keeps_read_release ==
    ASSUME RwInv, NEW p \in Procs, NEW c \in Blocks, c = blk[p], read_release(p)
    PROVE  Keeps
  <1>1. lpc[p] = "read_release"
    BY DEF read_release, Step
  <1>2. OneBlock(p, c, r[c], g[c], b[c], hold[p][c], "read_unlock")
    BY SoundAt DEF read_release, Step, Has, OneBlock, RwInv, Types
  <1>3. /\ Sound(r[c], g[c], b[c], HoldOf(c), PlaceOf(c)) /\ PlaceOf(c)[p] = lpc[p]
        /\ r[c] \in Procs \cup {NoProc} /\ g[c] \in {0, 1} /\ b[c] \in Int
        /\ HoldOf(c)[p] = hold[p][c] /\ hold[p][c] \in Modes
    BY SoundAt
  <1>4. Sound(r[c], g[c], b[c], [HoldOf(c) EXCEPT ![p] = hold[p][c]], [PlaceOf(c) EXCEPT ![p] = "read_unlock"])
    <2>1. "read_unlock" \in Empty => HoldOf(c)[p] = "none"
      BY <1>1, <1>3 DEF Sound, Empty, Counting
    <2>2. Sound(r[c], g[c], b[c], HoldOf(c), [PlaceOf(c) EXCEPT ![p] = "read_unlock"])
      BY <1>1, <1>3, <2>1, SoundMove DEF HasR, Counting, Places
    <2> QED BY <2>2, SoundAt
  <1>5. RwInv'
    <2>1. r[c] \in Procs \cup {NoProc} /\ g[c] \in Int /\ b[c] \in Int /\ hold[p][c] \in Modes /\ "read_unlock" \in Places
      BY <1>3 DEF Places
    <2> QED BY <1>2, <1>4, <2>1, OneBlockKeeps, ZenonT(30)
  <1>6. [Abs!Next]_hold
    BY DEF read_release
  <1> QED BY <1>5, <1>6 DEF Keeps

LEMMA Keeps_write_release ==
    ASSUME RwInv, NEW p \in Procs, NEW c \in Blocks, c = blk[p], write_release(p)
    PROVE  Keeps
  <1>1. lpc[p] = "write_release"
    BY DEF write_release, Step
  <1>2. OneBlock(p, c, r[c], g[c], b[c], hold[p][c], "none")
    BY SoundAt DEF write_release, Step, Has, OneBlock, RwInv, Types
  <1>3. /\ Sound(r[c], g[c], b[c], HoldOf(c), PlaceOf(c)) /\ PlaceOf(c)[p] = lpc[p]
        /\ r[c] \in Procs \cup {NoProc} /\ g[c] \in {0, 1} /\ b[c] \in Int
        /\ HoldOf(c)[p] = hold[p][c] /\ hold[p][c] \in Modes
    BY SoundAt
  <1>4. Sound(r[c], g[c], b[c], [HoldOf(c) EXCEPT ![p] = hold[p][c]], [PlaceOf(c) EXCEPT ![p] = "none"])
    <2>1. "none" \in Empty => HoldOf(c)[p] = "none"
      BY <1>1, <1>3 DEF Sound, Empty, Counting
    <2>2. Sound(r[c], g[c], b[c], HoldOf(c), [PlaceOf(c) EXCEPT ![p] = "none"])
      BY <1>1, <1>3, <2>1, SoundMove DEF HasR, Counting, Places
    <2> QED BY <2>2, SoundAt
  <1>5. RwInv'
    <2>1. r[c] \in Procs \cup {NoProc} /\ g[c] \in Int /\ b[c] \in Int /\ hold[p][c] \in Modes /\ "none" \in Places
      BY <1>3 DEF Places
    <2> QED BY <1>2, <1>4, <2>1, OneBlockKeeps, ZenonT(30)
  <1>6. [Abs!Next]_hold
    BY DEF write_release
  <1> QED BY <1>5, <1>6 DEF Keeps

LEMMA Keeps_upgrade_extra ==
    ASSUME RwInv, NEW p \in Procs, NEW c \in Blocks, c = blk[p], upgrade_extra(p)
    PROVE  Keeps
  <1>1. lpc[p] = "upgrade_extra"
    BY DEF upgrade_extra, Step
  <1>2. OneBlock(p, c, r[c], g[c], b[c], hold[p][c], "upgrade_unlock")
    BY SoundAt DEF upgrade_extra, Step, Has, OneBlock, RwInv, Types
  <1>3. /\ Sound(r[c], g[c], b[c], HoldOf(c), PlaceOf(c)) /\ PlaceOf(c)[p] = lpc[p]
        /\ r[c] \in Procs \cup {NoProc} /\ g[c] \in {0, 1} /\ b[c] \in Int
        /\ HoldOf(c)[p] = hold[p][c] /\ hold[p][c] \in Modes
    BY SoundAt
  <1>4. Sound(r[c], g[c], b[c], [HoldOf(c) EXCEPT ![p] = hold[p][c]], [PlaceOf(c) EXCEPT ![p] = "upgrade_unlock"])
    <2>1. "upgrade_unlock" \in Empty => HoldOf(c)[p] = "none"
      BY <1>1, <1>3 DEF Sound, Empty, Counting
    <2>2. Sound(r[c], g[c], b[c], HoldOf(c), [PlaceOf(c) EXCEPT ![p] = "upgrade_unlock"])
      BY <1>1, <1>3, <2>1, SoundMove DEF HasR, Counting, Places
    <2> QED BY <2>2, SoundAt
  <1>5. RwInv'
    <2>1. r[c] \in Procs \cup {NoProc} /\ g[c] \in Int /\ b[c] \in Int /\ hold[p][c] \in Modes /\ "upgrade_unlock" \in Places
      BY <1>3 DEF Places
    <2> QED BY <1>2, <1>4, <2>1, OneBlockKeeps, ZenonT(30)
  <1>6. [Abs!Next]_hold
    BY DEF upgrade_extra
  <1> QED BY <1>5, <1>6 DEF Keeps

\* The steps that take or give g for the readers, or give r back.
LEMMA Keeps_read_down ==
    ASSUME RwInv, NEW p \in Procs, NEW c \in Blocks, c = blk[p], read_down(p)
    PROVE  Keeps
  <1>1. lpc[p] = "read_down" /\ g[c] > 0
    BY DEF read_down, Step
  <1>2. OneBlock(p, c, r[c], g[c] - 1, b[c], hold[p][c], "read_release")
    BY SoundAt DEF read_down, Step, Has, OneBlock, RwInv, Types
  <1>3. /\ Sound(r[c], g[c], b[c], HoldOf(c), PlaceOf(c)) /\ PlaceOf(c)[p] = lpc[p]
        /\ r[c] \in Procs \cup {NoProc} /\ g[c] \in {0, 1} /\ b[c] \in Int
        /\ HoldOf(c)[p] = hold[p][c] /\ hold[p][c] \in Modes
    BY SoundAt
  <1>4. Sound(r[c], g[c] - 1, b[c], [HoldOf(c) EXCEPT ![p] = hold[p][c]], [PlaceOf(c) EXCEPT ![p] = "read_release"])
    <2>1. Sound(r[c], g[c] - 1, b[c], HoldOf(c), [PlaceOf(c) EXCEPT ![p] = "read_release"])
      BY <1>1, <1>3, SoundReadDown, ZenonT(30)
    <2> QED BY <2>1, SoundAt
  <1>5. RwInv'
    <2>1. r[c] \in Procs \cup {NoProc} /\ g[c] - 1 \in Int /\ b[c] \in Int /\ hold[p][c] \in Modes /\ "read_release" \in Places
      BY <1>3 DEF Places
    <2> QED BY <1>2, <1>4, <2>1, OneBlockKeeps, ZenonT(30)
  <1>6. [Abs!Next]_hold
    BY DEF read_down
  <1> QED BY <1>5, <1>6 DEF Keeps

LEMMA Keeps_end_up ==
    ASSUME RwInv, NEW p \in Procs, NEW c \in Blocks, c = blk[p], end_up(p)
    PROVE  Keeps
  <1>1. lpc[p] = "end_up"
    BY DEF end_up, Step
  <1>2. OneBlock(p, c, r[c], g[c] + 1, b[c], hold[p][c], "end_unlock")
    BY SoundAt DEF end_up, Step, Has, OneBlock, RwInv, Types
  <1>3. /\ Sound(r[c], g[c], b[c], HoldOf(c), PlaceOf(c)) /\ PlaceOf(c)[p] = lpc[p]
        /\ r[c] \in Procs \cup {NoProc} /\ g[c] \in {0, 1} /\ b[c] \in Int
        /\ HoldOf(c)[p] = hold[p][c] /\ hold[p][c] \in Modes
    BY SoundAt
  <1>4. Sound(r[c], g[c] + 1, b[c], [HoldOf(c) EXCEPT ![p] = hold[p][c]], [PlaceOf(c) EXCEPT ![p] = "end_unlock"])
    <2>1. Sound(r[c], g[c] + 1, b[c], HoldOf(c), [PlaceOf(c) EXCEPT ![p] = "end_unlock"])
      BY <1>1, <1>3, SoundEndUp
    <2> QED BY <2>1, SoundAt
  <1>5. RwInv'
    <2>1. r[c] \in Procs \cup {NoProc} /\ g[c] + 1 \in Int /\ b[c] \in Int /\ hold[p][c] \in Modes /\ "end_unlock" \in Places
      BY <1>3 DEF Places
    <2> QED BY <1>2, <1>4, <2>1, OneBlockKeeps, ZenonT(30)
  <1>6. [Abs!Next]_hold
    BY DEF end_up
  <1> QED BY <1>5, <1>6 DEF Keeps

LEMMA Keeps_unlock ==
    ASSUME RwInv, NEW p \in Procs, NEW c \in Blocks, c = blk[p], unlock(p)
    PROVE  Keeps
  <1>1. lpc[p] \in {"try_unlock", "end_unlock", "unlock"}
    BY DEF unlock, Step
  <1>2. OneBlock(p, c, NoProc, g[c], b[c], hold[p][c], "none")
    BY SoundAt DEF unlock, Step, Has, OneBlock, RwInv, Types
  <1>3. /\ Sound(r[c], g[c], b[c], HoldOf(c), PlaceOf(c)) /\ PlaceOf(c)[p] = lpc[p]
        /\ r[c] \in Procs \cup {NoProc} /\ g[c] \in {0, 1} /\ b[c] \in Int
        /\ HoldOf(c)[p] = hold[p][c] /\ hold[p][c] \in Modes
    BY SoundAt
  <1>4. Sound(NoProc, g[c], b[c], [HoldOf(c) EXCEPT ![p] = hold[p][c]], [PlaceOf(c) EXCEPT ![p] = "none"])
    <2>1. Sound(NoProc, g[c], b[c], HoldOf(c), [PlaceOf(c) EXCEPT ![p] = "none"])
      BY <1>1, <1>3, SoundUnlock, ZenonT(30)
    <2> QED BY <2>1, SoundAt
  <1>5. RwInv'
    <2>1. NoProc \in Procs \cup {NoProc} /\ g[c] \in Int /\ b[c] \in Int /\ hold[p][c] \in Modes /\ "none" \in Places
      BY <1>3 DEF Places
    <2> QED BY <1>2, <1>4, <2>1, OneBlockKeeps, ZenonT(30)
  <1>6. [Abs!Next]_hold
    BY DEF unlock
  <1> QED BY <1>5, <1>6 DEF Keeps

LEMMA Keeps_upgrade_unlock ==
    ASSUME RwInv, NEW p \in Procs, NEW c \in Blocks, c = blk[p], upgrade_unlock(p)
    PROVE  Keeps
  <1>1. lpc[p] = "upgrade_unlock"
    BY DEF upgrade_unlock, Step
  <1>2. OneBlock(p, c, NoProc, g[c], b[c], hold[p][c], "upgrade_down")
    BY SoundAt DEF upgrade_unlock, Step, Has, OneBlock, RwInv, Types
  <1>3. /\ Sound(r[c], g[c], b[c], HoldOf(c), PlaceOf(c)) /\ PlaceOf(c)[p] = lpc[p]
        /\ r[c] \in Procs \cup {NoProc} /\ g[c] \in {0, 1} /\ b[c] \in Int
        /\ HoldOf(c)[p] = hold[p][c] /\ hold[p][c] \in Modes
    BY SoundAt
  <1>4. Sound(NoProc, g[c], b[c], [HoldOf(c) EXCEPT ![p] = hold[p][c]], [PlaceOf(c) EXCEPT ![p] = "upgrade_down"])
    <2>1. HoldOf(c)[p] = "none"
      BY <1>1, <1>3 DEF Sound, Empty
    <2>2. Sound(NoProc, g[c], b[c], HoldOf(c), [PlaceOf(c) EXCEPT ![p] = "upgrade_down"])
      BY <1>1, <1>3, <2>1, SoundUnlock, ZenonT(30)
    <2> QED BY <2>2, SoundAt
  <1>5. RwInv'
    <2>1. NoProc \in Procs \cup {NoProc} /\ g[c] \in Int /\ b[c] \in Int /\ hold[p][c] \in Modes /\ "upgrade_down" \in Places
      BY <1>3 DEF Places
    <2> QED BY <1>2, <1>4, <2>1, OneBlockKeeps, ZenonT(30)
  <1>6. [Abs!Next]_hold
    BY DEF upgrade_unlock
  <1> QED BY <1>5, <1>6 DEF Keeps

\* The steps by which p becomes a reader or the writer.
LEMMA Keeps_read_unlock ==
    ASSUME RwInv, NEW p \in Procs, NEW c \in Blocks, c = blk[p], read_unlock(p)
    PROVE  Keeps
  <1>1. lpc[p] = "read_unlock"
    BY DEF read_unlock, Step
  <1>2. OneBlock(p, c, NoProc, g[c], b[c], "read", "none")
    BY SoundAt DEF read_unlock, Step, Has, OneBlock, RwInv, Types
  <1>3. /\ Sound(r[c], g[c], b[c], HoldOf(c), PlaceOf(c)) /\ PlaceOf(c)[p] = lpc[p]
        /\ r[c] \in Procs \cup {NoProc} /\ g[c] \in {0, 1} /\ b[c] \in Int
        /\ HoldOf(c)[p] = hold[p][c] /\ hold[p][c] \in Modes
    BY SoundAt
  <1>4. Sound(NoProc, g[c], b[c], [HoldOf(c) EXCEPT ![p] = "read"], [PlaceOf(c) EXCEPT ![p] = "none"])
    BY <1>1, <1>3, SoundReadUnlock, ZenonT(30)
  <1>5. RwInv'
    <2>1. NoProc \in Procs \cup {NoProc} /\ g[c] \in Int /\ b[c] \in Int /\ "read" \in Modes /\ "none" \in Places
      BY <1>3 DEF Places, Modes
    <2> QED BY <1>2, <1>4, <2>1, OneBlockKeeps, ZenonT(30)
  <1>6. Abs!Next
    <2>1. Grouped(HoldOf(c), PlaceOf(c), p) /\ hold[p][c] = "none"
      BY <1>1, <1>3 DEF Grouped, Sound, Empty, Counting
    <2>2. \A q \in Procs : hold[q][c] # "write"
      BY <2>1, SoundAt DEF Sound
    <2>3. Abs!StartRead(p, c)
      BY <1>2, <2>1, <2>2 DEF OneBlock, Abs!StartRead, Abs!Become
    <2> QED BY <2>3 DEF Abs!Next
  <1> QED BY <1>5, <1>6 DEF Keeps

LEMMA Keeps_write_down ==
    ASSUME RwInv, NEW p \in Procs, NEW c \in Blocks, c = blk[p], write_down(p)
    PROVE  Keeps
  <1>1. lpc[p] \in {"write_down", "upgrade_down"} /\ g[c] > 0
    BY DEF write_down, Step
  <1>2. OneBlock(p, c, r[c], g[c] - 1, b[c], "write", "write_release")
    BY SoundAt DEF write_down, Step, Has, OneBlock, RwInv, Types
  <1>3. /\ Sound(r[c], g[c], b[c], HoldOf(c), PlaceOf(c)) /\ PlaceOf(c)[p] = lpc[p]
        /\ r[c] \in Procs \cup {NoProc} /\ g[c] \in {0, 1} /\ b[c] \in Int
        /\ HoldOf(c)[p] = hold[p][c] /\ hold[p][c] \in Modes
    BY SoundAt
  <1>4. /\ Sound(r[c], g[c] - 1, b[c], [HoldOf(c) EXCEPT ![p] = "write"], [PlaceOf(c) EXCEPT ![p] = "write_release"])
        /\ \A q \in Procs : HoldOf(c)[q] = "none"
    <2>1. HoldOf(c)[p] = "none"
      BY <1>1, <1>3 DEF Sound, Empty
    <2>2. Sound(r[c], g[c] - 1, b[c], [HoldOf(c) EXCEPT ![p] = "write"], [PlaceOf(c) EXCEPT ![p] = "write_release"])
      BY <1>1, <1>3, <2>1, SoundWrite, ZenonT(30)
    <2>3. \A q \in Procs : HoldOf(c)[q] = "none"
      BY <1>1, <1>3, NobodyInside
    <2> QED BY <2>2, <2>3
  <1>5. RwInv'
    <2>1. r[c] \in Procs \cup {NoProc} /\ g[c] - 1 \in Int /\ b[c] \in Int /\ "write" \in Modes /\ "write_release" \in Places
      BY <1>3 DEF Places, Modes
    <2> QED BY <1>2, <1>4, <2>1, OneBlockKeeps, ZenonT(30)
  <1>6. Abs!Next
    <2>1. \A q \in Procs : hold[q][c] = "none"
      BY <1>4, SoundAt
    <2>2. Abs!StartWrite(p, c)
      BY <1>2, <2>1 DEF OneBlock, Abs!StartWrite, Abs!Become
    <2> QED BY <2>2 DEF Abs!Next
  <1> QED BY <1>5, <1>6 DEF Keeps

\* The calls that do not change what p has.
LEMMA Keeps_cache_read_begin ==
    ASSUME RwInv, NEW p \in Procs, NEW c \in Blocks, cache_read_begin(p, c)
    PROVE  Keeps
  <1>1. lpc[p] = "none" /\ hold[p][c] = "none" /\ r[c] = NoProc
    BY DEF cache_read_begin, Enter, LockR
  <1>2. OneBlock(p, c, p, g[c], b[c] + 1, hold[p][c], IF b[c] + 1 = 1 THEN "read_extra" ELSE "read_unlock")
    BY SoundAt DEF cache_read_begin, Enter, LockR, Has, OneBlock, RwInv, Types
  <1>3. /\ Sound(r[c], g[c], b[c], HoldOf(c), PlaceOf(c)) /\ PlaceOf(c)[p] = "none"
        /\ r[c] \in Procs \cup {NoProc} /\ g[c] \in {0, 1} /\ b[c] \in Int
        /\ HoldOf(c)[p] = hold[p][c] /\ hold[p][c] \in Modes
    BY <1>1, SoundAt
  <1>4. Sound(p, g[c], b[c] + 1, [HoldOf(c) EXCEPT ![p] = hold[p][c]], [PlaceOf(c) EXCEPT ![p] = IF b[c] + 1 = 1 THEN "read_extra" ELSE "read_unlock"])
    BY <1>1, <1>3, SoundReadBegin, SoundAt
  <1>5. RwInv'
    <2>1. p \in Procs \cup {NoProc} /\ g[c] \in Int /\ b[c] + 1 \in Int /\ hold[p][c] \in Modes /\ (IF b[c] + 1 = 1 THEN "read_extra" ELSE "read_unlock") \in Places
      BY <1>3 DEF Places
    <2> QED BY <1>2, <1>4, <2>1, OneBlockKeeps, ZenonT(30)
  <1>6. [Abs!Next]_hold
    BY DEF cache_read_begin
  <1> QED BY <1>5, <1>6 DEF Keeps

LEMMA Keeps_cache_read_try ==
    ASSUME RwInv, NEW p \in Procs, NEW c \in Blocks, cache_read_try(p, c)
    PROVE  Keeps
  <1>1. lpc[p] = "none" /\ hold[p][c] = "none" /\ r[c] = NoProc
    BY DEF cache_read_try, Enter, LockR
  <1>2. /\ Sound(NoProc, g[c], b[c], HoldOf(c), PlaceOf(c)) /\ PlaceOf(c)[p] = "none"
        /\ g[c] \in {0, 1} /\ b[c] \in Int /\ HoldOf(c)[p] = "none" /\ [HoldOf(c) EXCEPT ![p] = hold[p][c]] = HoldOf(c)
    BY <1>1, SoundAt
  <1>t. /\ p \in Procs \cup {NoProc} /\ g[c] \in Int /\ g[c] - 1 \in Int /\ b[c] \in Int
        /\ b[c] + 1 \in Int /\ hold[p][c] \in Modes /\ "read_unlock" \in Places
    BY <1>2, SoundAt DEF Places
  <1>3. ASSUME b[c] + 1 = 1 /\ g[c] = 0 PROVE RwInv'
    <2>1. OneBlock(p, c, p, g[c], b[c], hold[p][c], "try_unlock")
      BY <1>3, SoundAt DEF cache_read_try, Enter, LockR, OneBlock, RwInv, Types
    <2>2. Sound(p, g[c], b[c], HoldOf(c), [PlaceOf(c) EXCEPT ![p] = "try_unlock"])
      BY <1>2, SoundTryFails
    <2>3. "try_unlock" \in Places
      BY DEF Places
    <2>4. Sound(p, g[c], b[c], [HoldOf(c) EXCEPT ![p] = hold[p][c]], [PlaceOf(c) EXCEPT ![p] = "try_unlock"])
      BY <1>2, <2>2
    <2> QED BY <1>t, <2>1, <2>3, <2>4, OneBlockKeeps, ZenonT(30)
  <1>4. ASSUME b[c] + 1 = 1 /\ g[c] # 0 PROVE RwInv'
    <2> DEFINE pl1 == [PlaceOf(c) EXCEPT ![p] = "read_extra"]
    <2>1. OneBlock(p, c, p, g[c] - 1, b[c] + 1, hold[p][c], "read_unlock")
      BY <1>4, SoundAt DEF cache_read_try, Enter, LockR, OneBlock, RwInv, Types
    <2>2. Sound(p, g[c], b[c] + 1, HoldOf(c), pl1) /\ pl1[p] = "read_extra"
      BY <1>2, <1>4, SoundReadBegin, ZenonT(30) DEF PlaceOf
    <2>3. Sound(p, g[c] - 1, b[c] + 1, HoldOf(c), [pl1 EXCEPT ![p] = "read_unlock"])
      BY <1>2, <1>4, <2>2, SoundReadDown
    <2>4. [pl1 EXCEPT ![p] = "read_unlock"] = [PlaceOf(c) EXCEPT ![p] = "read_unlock"]
      BY DEF PlaceOf
    <2>5. Sound(p, g[c] - 1, b[c] + 1, [HoldOf(c) EXCEPT ![p] = hold[p][c]], [PlaceOf(c) EXCEPT ![p] = "read_unlock"])
      BY <1>2, <2>3, <2>4
    <2> QED BY <1>t, <2>1, <2>5, OneBlockKeeps, ZenonT(30)
  <1>5. ASSUME b[c] + 1 # 1 PROVE RwInv'
    <2>1. OneBlock(p, c, p, g[c], b[c] + 1, hold[p][c], "read_unlock")
      BY <1>5, SoundAt DEF cache_read_try, Enter, LockR, OneBlock, RwInv, Types
    <2>2. Sound(p, g[c], b[c] + 1, HoldOf(c), [PlaceOf(c) EXCEPT ![p] = "read_unlock"])
      BY <1>2, <1>5, SoundReadBegin
    <2>3. Sound(p, g[c], b[c] + 1, [HoldOf(c) EXCEPT ![p] = hold[p][c]], [PlaceOf(c) EXCEPT ![p] = "read_unlock"])
      BY <1>2, <2>2
    <2> QED BY <1>t, <2>1, <2>3, OneBlockKeeps, ZenonT(30)
  <1>6. [Abs!Next]_hold
    BY DEF cache_read_try
  <1>7. RwInv'
    BY <1>3, <1>4, <1>5
  <1> QED BY <1>6, <1>7 DEF Keeps

LEMMA Keeps_cache_write_begin ==
    ASSUME RwInv, NEW p \in Procs, NEW c \in Blocks, cache_write_begin(p, c)
    PROVE  Keeps
  <1>1. lpc[p] = "none" /\ hold[p][c] = "none"
    BY DEF cache_write_begin, Enter, LockR
  <1>2. OneBlock(p, c, r[c], g[c], b[c], hold[p][c], "write_down")
    BY SoundAt DEF cache_write_begin, Enter, LockR, Has, OneBlock, RwInv, Types
  <1>3. /\ Sound(r[c], g[c], b[c], HoldOf(c), PlaceOf(c)) /\ PlaceOf(c)[p] = "none"
        /\ r[c] \in Procs \cup {NoProc} /\ g[c] \in {0, 1} /\ b[c] \in Int
        /\ HoldOf(c)[p] = hold[p][c] /\ hold[p][c] \in Modes
    BY <1>1, SoundAt
  <1>4. Sound(r[c], g[c], b[c], [HoldOf(c) EXCEPT ![p] = hold[p][c]], [PlaceOf(c) EXCEPT ![p] = "write_down"])
    <2>1. Sound(r[c], g[c], b[c], HoldOf(c), [PlaceOf(c) EXCEPT ![p] = "write_down"])
      BY <1>1, <1>3, SoundMove DEF HasR, Counting, Places
    <2> QED BY <2>1, SoundAt
  <1>5. RwInv'
    <2>1. r[c] \in Procs \cup {NoProc} /\ g[c] \in Int /\ b[c] \in Int /\ hold[p][c] \in Modes /\ ("write_down") \in Places
      BY <1>3 DEF Places
    <2> QED BY <1>2, <1>4, <2>1, OneBlockKeeps, ZenonT(30)
  <1>6. [Abs!Next]_hold
    BY DEF cache_write_begin
  <1> QED BY <1>5, <1>6 DEF Keeps

\* The calls that do.
LEMMA Keeps_cache_write_try ==
    ASSUME RwInv, NEW p \in Procs, NEW c \in Blocks, cache_write_try(p, c)
    PROVE  Keeps
  <1>1. lpc[p] = "none" /\ hold[p][c] = "none" /\ g[c] > 0
    BY DEF cache_write_try, Enter
  <1>2. OneBlock(p, c, r[c], g[c] - 1, b[c], "write", "none")
    BY SoundAt DEF cache_write_try, Enter, LockR, Has, OneBlock, RwInv, Types
  <1>3. /\ Sound(r[c], g[c], b[c], HoldOf(c), PlaceOf(c)) /\ PlaceOf(c)[p] = "none"
        /\ r[c] \in Procs \cup {NoProc} /\ g[c] \in {0, 1} /\ b[c] \in Int
        /\ HoldOf(c)[p] = hold[p][c] /\ hold[p][c] \in Modes
    BY <1>1, SoundAt
  <1>4. /\ Sound(r[c], g[c] - 1, b[c], [HoldOf(c) EXCEPT ![p] = "write"], [PlaceOf(c) EXCEPT ![p] = "none"])
        /\ \A q \in Procs : HoldOf(c)[q] = "none"
    <2>1. Sound(r[c], g[c] - 1, b[c], [HoldOf(c) EXCEPT ![p] = "write"], [PlaceOf(c) EXCEPT ![p] = "none"])
      BY <1>1, <1>3, SoundWrite, ZenonT(30)
    <2>2. \A q \in Procs : HoldOf(c)[q] = "none"
      BY <1>1, <1>3, NobodyInside
    <2> QED BY <2>1, <2>2
  <1>5. RwInv'
    <2>1. r[c] \in Procs \cup {NoProc} /\ g[c] - 1 \in Int /\ b[c] \in Int /\ "write" \in Modes /\ ("none") \in Places
      BY <1>3 DEF Places, Modes
    <2> QED BY <1>2, <1>4, <2>1, OneBlockKeeps, ZenonT(30)
  <1>6. Abs!Next
    <2>1. \A q \in Procs : hold[q][c] = "none"
      BY <1>4, SoundAt
    <2>2. Abs!StartWrite(p, c)
      BY <1>2, <2>1 DEF OneBlock, Abs!StartWrite, Abs!Become
    <2> QED BY <2>2 DEF Abs!Next
  <1> QED BY <1>5, <1>6 DEF Keeps

LEMMA Keeps_cache_write_end ==
    ASSUME RwInv, NEW p \in Procs, NEW c \in Blocks, cache_write_end(p, c)
    PROVE  Keeps
  <1>1. lpc[p] = "none" /\ hold[p][c] = "write"
    BY DEF cache_write_end, Enter, LockR
  <1>2. OneBlock(p, c, r[c], g[c] + 1, b[c], "none", "none")
    BY SoundAt DEF cache_write_end, Enter, LockR, Has, OneBlock, RwInv, Types
  <1>3. /\ Sound(r[c], g[c], b[c], HoldOf(c), PlaceOf(c)) /\ PlaceOf(c)[p] = "none"
        /\ r[c] \in Procs \cup {NoProc} /\ g[c] \in {0, 1} /\ b[c] \in Int
        /\ HoldOf(c)[p] = hold[p][c] /\ hold[p][c] \in Modes
    BY <1>1, SoundAt
  <1>4. Sound(r[c], g[c] + 1, b[c], [HoldOf(c) EXCEPT ![p] = "none"], [PlaceOf(c) EXCEPT ![p] = "none"])
    BY <1>1, <1>3, SoundWriteEnd
  <1>5. RwInv'
    <2>1. r[c] \in Procs \cup {NoProc} /\ g[c] + 1 \in Int /\ b[c] \in Int /\ "none" \in Modes /\ ("none") \in Places
      BY <1>3 DEF Places, Modes
    <2> QED BY <1>2, <1>4, <2>1, OneBlockKeeps, ZenonT(30)
  <1>6. Abs!Next
    <2>1. Abs!Release(p, c)
      BY <1>1, <1>2 DEF OneBlock, Abs!Release, Abs!Become
    <2> QED BY <2>1 DEF Abs!Next
  <1> QED BY <1>5, <1>6 DEF Keeps

LEMMA Keeps_cache_read_end ==
    ASSUME RwInv, NEW p \in Procs, NEW c \in Blocks, cache_read_end(p, c)
    PROVE  Keeps
  <1>1. lpc[p] = "none" /\ hold[p][c] = "read" /\ r[c] = NoProc
    BY DEF cache_read_end, Enter, LockR
  <1>2. OneBlock(p, c, p, g[c], b[c] - 1, "none", IF b[c] - 1 = 0 THEN "end_up" ELSE "end_unlock")
    BY SoundAt DEF cache_read_end, Enter, LockR, Has, OneBlock, RwInv, Types
  <1>3. /\ Sound(r[c], g[c], b[c], HoldOf(c), PlaceOf(c)) /\ PlaceOf(c)[p] = "none"
        /\ r[c] \in Procs \cup {NoProc} /\ g[c] \in {0, 1} /\ b[c] \in Int
        /\ HoldOf(c)[p] = hold[p][c] /\ hold[p][c] \in Modes
    BY <1>1, SoundAt
  <1>4. Sound(p, g[c], b[c] - 1, [HoldOf(c) EXCEPT ![p] = "none"], [PlaceOf(c) EXCEPT ![p] = IF b[c] - 1 = 0 THEN "end_up" ELSE "end_unlock"])
    BY <1>1, <1>3, SoundLeave, ZenonT(30)
  <1>5. RwInv'
    <2>1. p \in Procs \cup {NoProc} /\ g[c] \in Int /\ b[c] - 1 \in Int /\ "none" \in Modes /\ (IF b[c] - 1 = 0 THEN "end_up" ELSE "end_unlock") \in Places
      BY <1>3 DEF Places, Modes
    <2> QED BY <1>2, <1>4, <2>1, OneBlockKeeps, ZenonT(30)
  <1>6. Abs!Next
    <2>1. Abs!Release(p, c)
      BY <1>1, <1>2 DEF OneBlock, Abs!Release, Abs!Become
    <2> QED BY <2>1 DEF Abs!Next
  <1> QED BY <1>5, <1>6 DEF Keeps

LEMMA Keeps_upgrade_alone ==
    ASSUME RwInv, NEW p \in Procs, NEW c \in Blocks, cache_upgrade(p, c), b[c] - 1 = 0
    PROVE  Keeps
  <1>1. lpc[p] = "none" /\ hold[p][c] = "read" /\ r[c] = NoProc
    BY DEF cache_upgrade, Enter, LockR
  <1>2. OneBlock(p, c, p, g[c], b[c] - 1, "write", "unlock")
    BY SoundAt DEF cache_upgrade, Enter, LockR, Has, OneBlock, RwInv, Types
  <1>3. /\ Sound(r[c], g[c], b[c], HoldOf(c), PlaceOf(c)) /\ PlaceOf(c)[p] = "none"
        /\ r[c] \in Procs \cup {NoProc} /\ g[c] \in {0, 1} /\ b[c] \in Int
        /\ HoldOf(c)[p] = hold[p][c] /\ hold[p][c] \in Modes
    BY <1>1, SoundAt
  <1>4. /\ Sound(p, g[c], b[c] - 1, [HoldOf(c) EXCEPT ![p] = "write"], [PlaceOf(c) EXCEPT ![p] = "unlock"])
        /\ \A q \in Procs \ {p} : HoldOf(c)[q] = "none"
    BY <1>1, <1>3, SoundUpgrade
  <1>5. RwInv'
    <2>1. p \in Procs \cup {NoProc} /\ g[c] \in Int /\ b[c] - 1 \in Int /\ "write" \in Modes /\ ("unlock") \in Places
      BY <1>3 DEF Places, Modes
    <2> QED BY <1>2, <1>4, <2>1, OneBlockKeeps, ZenonT(30)
  <1>6. Abs!Next
    <2>1. \A q \in Procs \ {p} : hold[q][c] = "none"
      BY <1>4, SoundAt
    <2>2. Abs!Upgrade(p, c)
      BY <1>1, <1>2, <2>1 DEF OneBlock, Abs!Upgrade, Abs!Become
    <2> QED BY <2>2 DEF Abs!Next
  <1> QED BY <1>5, <1>6 DEF Keeps

LEMMA Keeps_upgrade_among_others ==
    ASSUME RwInv, NEW p \in Procs, NEW c \in Blocks, cache_upgrade(p, c), b[c] - 1 # 0
    PROVE  Keeps
  <1>1. lpc[p] = "none" /\ hold[p][c] = "read" /\ r[c] = NoProc
    BY DEF cache_upgrade, Enter, LockR
  <1>2. OneBlock(p, c, p, g[c], b[c] - 1, "none", "upgrade_extra")
    BY SoundAt DEF cache_upgrade, Enter, LockR, Has, OneBlock, RwInv, Types
  <1>3. /\ Sound(r[c], g[c], b[c], HoldOf(c), PlaceOf(c)) /\ PlaceOf(c)[p] = "none"
        /\ r[c] \in Procs \cup {NoProc} /\ g[c] \in {0, 1} /\ b[c] \in Int
        /\ HoldOf(c)[p] = hold[p][c] /\ hold[p][c] \in Modes
    BY <1>1, SoundAt
  <1>4. Sound(p, g[c], b[c] - 1, [HoldOf(c) EXCEPT ![p] = "none"], [PlaceOf(c) EXCEPT ![p] = "upgrade_extra"])
    BY <1>1, <1>3, SoundLeave, ZenonT(30)
  <1>5. RwInv'
    <2>1. p \in Procs \cup {NoProc} /\ g[c] \in Int /\ b[c] - 1 \in Int /\ "none" \in Modes /\ ("upgrade_extra") \in Places
      BY <1>3 DEF Places, Modes
    <2> QED BY <1>2, <1>4, <2>1, OneBlockKeeps, ZenonT(30)
  <1>6. Abs!Next
    <2>1. Abs!Release(p, c)
      BY <1>1, <1>2 DEF OneBlock, Abs!Release, Abs!Become
    <2> QED BY <2>1 DEF Abs!Next
  <1> QED BY <1>5, <1>6 DEF Keeps

LEMMA Keeps_cache_downgrade ==
    ASSUME RwInv, NEW p \in Procs, NEW c \in Blocks, cache_downgrade(p, c)
    PROVE  Keeps
  <1>1. lpc[p] = "none" /\ hold[p][c] = "write" /\ r[c] = NoProc
    BY DEF cache_downgrade, Enter, LockR
  <1>2. /\ Sound(NoProc, g[c], b[c], HoldOf(c), PlaceOf(c)) /\ PlaceOf(c)[p] = "none"
        /\ b[c] \in Int /\ HoldOf(c)[p] = "write"
    BY <1>1, SoundAt
  <1>3. /\ b[c] = 0
        /\ Sound(p, g[c], b[c] + 1, [HoldOf(c) EXCEPT ![p] = "read"], [PlaceOf(c) EXCEPT ![p] = "unlock"])
    BY <1>2, SoundDowngrade
  <1>4. OneBlock(p, c, p, g[c], b[c] + 1, "read", "unlock")
    BY <1>3, SoundAt, ZenonT(30) DEF cache_downgrade, Enter, LockR, Has, OneBlock, RwInv, Types
  <1>5. RwInv'
    <2>1. /\ p \in Procs \cup {NoProc} /\ g[c] \in Int /\ b[c] + 1 \in Int
          /\ "read" \in Modes /\ "unlock" \in Places
      BY <1>2, SoundAt DEF Places, Modes
    <2> QED BY <1>3, <1>4, <2>1, OneBlockKeeps, ZenonT(30)
  <1>6. Abs!Next
    <2>1. Abs!Downgrade(p, c)
      BY <1>1, <1>4 DEF OneBlock, Abs!Downgrade, Abs!Become
    <2> QED BY <2>1 DEF Abs!Next
  <1> QED BY <1>5, <1>6 DEF Keeps

-----------------------------------------------------------------------------
\* The lock under the buffer cache

\* A step of the cache is a step of one of the locks or leaves them alone.
LockAction ==
    \E p \in Procs :
        \/ LockStep(p)
        \/ \E c \in Blocks : StartOp(p, c) \/ EndOp(p, c)

LEMMA OnlyLockSteps ==
    ASSUME AtBlocks, Types, Next
    PROVE  AtBlocks' /\ (LockAction \/ UNCHANGED lockVars)
  <1>1. PICK p \in Procs :
            \/ Continue(p)
            \/ Proceed(p)
            \/ cache_block(p) \/ cache_read_ahead(p)
            \/ \E c \in Blocks : refresh_try(p, c)
            \/ LockUse(p)
    BY DEF Next
  <1>2. at[p] \in Blocks /\ victim[p] \in Blocks \cup {0} /\ blk[p] \in Blocks /\ 1 \in Blocks
    BY BlocksAssumption DEF AtBlocks, Types
  <1> DEFINE Fine == AtBlocks' /\ (LockAction \/ UNCHANGED lockVars)
  <1>a. ASSUME UNCHANGED <<at, victim>> PROVE AtBlocks'
    BY <1>a DEF AtBlocks
  <1>b. ASSUME NEW c \in Blocks, StartOp(p, c) \/ EndOp(p, c) PROVE LockAction
    BY <1>b DEF LockAction
  <1>c. ASSUME NEW f, NEW again, NEW after, Advance(p, f, again, after), victim' = victim PROVE AtBlocks'
    BY <1>2, <1>c DEF Advance, AtBlocks
  <1>d. ASSUME NEW f, NEW why, Breaks(p, f, why) PROVE Fine
    BY <1>a, <1>d DEF Breaks, callVars
  <1>3. CASE Continue(p)
    BY <1>a, <1>3 DEF Continue, callVars, LockAction
  <1>4. CASE cache_block(p) \/ cache_read_ahead(p)
    <2>1. PICK s, write : find_block(p, s, write)
      BY <1>4, ZenonT(30) DEF cache_block, cache_read_ahead
    <2>2. UNCHANGED lockVars /\ victim' = victim
      BY <2>1, ZenonT(30) DEF find_block
    <2>3. at' = at \/ \E c \in Blocks : at' = [at EXCEPT ![p] = c]
      <3>1. Holding(s) \subseteq Blocks
        BY DEF Holding
      <3> QED BY <1>2, <2>1, <3>1, ZenonT(30) DEF find_block
    <2> QED BY <2>2, <2>3 DEF AtBlocks
  <1>5. CASE \E c \in Blocks : refresh_try(p, c)
    BY <1>5, <1>a, <1>b DEF refresh_try, StartOp, callVars
  <1>6. CASE LockUse(p)
    BY <1>2, <1>6, <1>a, <1>b DEF LockUse, callVars
  <1>7. CASE Proceed(p)
    <2>1. CASE hit(p) \/ downgrade(p) \/ write_block(p)
      BY <1>2, <2>1, <1>a, <1>b, ZenonT(30) DEF hit, downgrade, write_block, StartOp, callVars
    <2>2. CASE scan_used(p) \/ write_end(p)
      BY <1>2, <2>2, <1>a, <1>b DEF scan_used, write_end, EndOp, callVars
    <2>3. CASE check(p) \/ writing(p) \/ import(p) \/ store(p) \/ request(p)
      BY <1>a, <1>d, <2>3, ZenonT(30) DEF check, writing, import, store, request, callVars
    <2>4. CASE scan_free(p) \/ refresh_write(p)
      BY <1>a, <2>4 DEF scan_free, refresh_write, callVars
    <2>5. CASE scan(p) \/ evict(p)
      BY <1>2, <1>a, <1>b, <1>c, <2>5 DEF scan, evict, StartOp, callVars
    <2>6. CASE scan_mark(p) \/ evict_mark(p)
      BY <1>c, <2>6 DEF scan_mark, evict_mark, Mark
    <2>7. CASE compare(p)
      <3>1. CASE Breaks(p, "compare", "assertion")
        BY <1>d, <3>1
      <3>2. CASE /\ Advance(p, "compare", "evict", "write_out")
                 /\ victim' = [victim EXCEPT ![p] = at[p]]
                 /\ UNCHANGED lockVars
        BY <1>2, <3>2 DEF Advance, AtBlocks
      <3>3. CASE /\ victim[p] # 0 /\ UNCHANGED at
                 /\ \E worse \in {at[p], victim[p]} :
                      /\ cache_write_end(p, worse)
                      /\ victim' = [victim EXCEPT ![p] = IF worse = @ THEN at[p] ELSE @]
        <4>1. PICK worse \in {at[p], victim[p]} :
                /\ cache_write_end(p, worse)
                /\ victim' = [victim EXCEPT ![p] = IF worse = @ THEN at[p] ELSE @]
          BY <3>3, ZenonT(30)
        <4>2. worse \in Blocks /\ AtBlocks'
          BY <1>2, <3>3, <4>1 DEF AtBlocks
        <4> QED BY <1>b, <4>1, <4>2 DEF EndOp
      <3> QED BY <2>7, <3>1, <3>2, <3>3 DEF compare
    <2>8. CASE write_out(p)
      <3>1. CASE Breaks(p, "write_out", "cache locked down") \/ Breaks(p, "write_out", "evicted before it was marked")
        BY <1>d, <3>1, ZenonT(30)
      <3>2. CASE /\ victim[p] # 0
                 /\ at' = [at EXCEPT ![p] = victim[p]]
                 /\ victim' = [victim EXCEPT ![p] = 0]
                 /\ UNCHANGED lockVars
        BY <1>2, <3>2 DEF AtBlocks
      <3> QED BY <2>8, <3>1, <3>2, ZenonT(30) DEF write_out
    <2>9. CASE read_block(p)
      <3>1. AtBlocks'
        BY <1>2, <2>9 DEF read_block, Returned, AtBlocks
      <3> QED BY <1>2, <1>b, <2>9, <3>1 DEF read_block, EndOp
    <2>10. CASE write_mark(p)
      <3>1. AtBlocks'
        BY <1>2, <2>10 DEF write_mark, Returned, AtBlocks
      <3> QED BY <2>10, <3>1 DEF write_mark, Mark
    <2>11. CASE refresh_end(p)
      BY <1>2, <1>a, <1>b, <2>11 DEF refresh_end, EndOp, callVars
    <2>12. CASE read_ahead_done(p)
      <3>1. AtBlocks'
        BY <1>2, <2>12 DEF read_ahead_done, Returned, AtBlocks
      <3> QED BY <2>12, <3>1 DEF read_ahead_done
    <2> QED BY <1>7, <2>1, <2>2, <2>3, <2>4, <2>5, <2>6, <2>7, <2>8, <2>9, <2>10, <2>11, <2>12 DEF Proceed
  <1> QED BY <1>1, <1>3, <1>4, <1>5, <1>6, <1>7

LEMMA LockActionKeeps ==
    ASSUME RwInv, LockAction
    PROVE  Keeps
  <1>1. PICK p \in Procs : LockStep(p) \/ \E c \in Blocks : StartOp(p, c) \/ EndOp(p, c)
    BY DEF LockAction
  <1>2. CASE LockStep(p)
    <2>1. blk[p] \in Blocks
      BY DEF RwInv, Types
    <2> QED BY <1>2, <2>1, Keeps_read_extra, Keeps_read_release, Keeps_write_release, Keeps_upgrade_extra,
               Keeps_read_down, Keeps_end_up, Keeps_unlock, Keeps_upgrade_unlock, Keeps_read_unlock,
               Keeps_write_down DEF LockStep
  <1>3. ASSUME NEW c \in Blocks, StartOp(p, c) \/ EndOp(p, c) PROVE Keeps
    BY <1>3, Keeps_cache_read_begin, Keeps_cache_read_try, Keeps_cache_write_begin, Keeps_cache_write_try,
       Keeps_cache_write_end, Keeps_cache_read_end, Keeps_upgrade_alone, Keeps_upgrade_among_others,
       Keeps_cache_downgrade DEF StartOp, EndOp
  <1> QED BY <1>1, <1>2, <1>3

LEMMA UnchangedKeeps ==
    ASSUME RwInv, UNCHANGED lockVars
    PROVE  Keeps
  BY DEF Keeps, lockVars, RwInv, Types, HoldOf, PlaceOf

LEMMA InitSound == Init => RwInv /\ AtBlocks
  <1> SUFFICES ASSUME Init PROVE RwInv /\ AtBlocks
    OBVIOUS
  <1>1. AtBlocks
    BY BlocksAssumption DEF Init, AtBlocks
  <1>2. Types /\ failed = FALSE
    <2>1. (CHOOSE c \in Blocks : TRUE) \in Blocks
      BY BlocksAssumption
    <2> QED BY <2>1 DEF Init, LockInit, Types, Places, Modes
  <1>3. ASSUME NEW c \in Blocks PROVE Sound(r[c], g[c], b[c], HoldOf(c), PlaceOf(c))
    <2>1. /\ HoldOf(c) \in [Procs -> Modes] /\ \A p \in Procs : HoldOf(c)[p] = "none"
          /\ PlaceOf(c) \in [Procs -> Places] /\ \A p \in Procs : PlaceOf(c)[p] = "none"
      BY ZenonT(30) DEF Init, LockInit, HoldOf, PlaceOf, Modes, Places
    <2>2. r[c] = NoProc /\ g[c] = 1 /\ b[c] = 0
      BY DEF Init, LockInit
    <2>3. Counted(HoldOf(c), PlaceOf(c)) = {}
      BY <2>1 DEF Counted, Counting
    <2>4. b[c] = Cardinality(Counted(HoldOf(c), PlaceOf(c)))
      BY <2>2, <2>3, FS_EmptySet
    <2>5. \A p \in Procs : ~ Grouped(HoldOf(c), PlaceOf(c), p)
      BY <2>1 DEF Grouped
    <2>6. \A p \in Procs : PlaceOf(c)[p] \in HasR <=> r[c] = p
      BY <2>1, <2>2, ProcsAssumption DEF HasR
    <2> QED BY <2>1, <2>2, <2>4, <2>5, <2>6 DEF Sound
  <1> QED BY <1>1, <1>2, <1>3 DEF RwInv

LEMMA StepKeeps == RwInv /\ AtBlocks /\ [Next]_vars => RwInv' /\ AtBlocks' /\ [Abs!Next]_hold
  <1> SUFFICES ASSUME RwInv, AtBlocks, [Next]_vars PROVE Keeps /\ AtBlocks'
    BY DEF Keeps
  <1>1. CASE Next
    <2>1. AtBlocks' /\ (LockAction \/ UNCHANGED lockVars)
      BY <1>1, OnlyLockSteps DEF RwInv
    <2> QED BY <2>1, LockActionKeeps, UnchangedKeeps
  <1>2. CASE UNCHANGED vars
    <2>1. UNCHANGED lockVars /\ AtBlocks'
      BY <1>2 DEF vars, callVars, AtBlocks
    <2> QED BY <2>1, UnchangedKeeps
  <1> QED BY <1>1, <1>2

\* The locks of the blocks are sound in every behaviour of the buffer cache.
THEOREM LocksSound == Spec => [](RwInv /\ AtBlocks)
  BY InitSound, StepKeeps, PTL DEF Spec

\* A thread that writes to a block (cache_write_begin, cache_write_try, cache_upgrade) is
\* the only one that has the block.
THEOREM RwExclusionHolds == Spec => []RwExclusion
  <1>1. RwInv => RwExclusion
    <2> SUFFICES ASSUME RwInv, NEW p \in Procs, NEW q \in Procs, NEW c \in Blocks,
                        hold[p][c] = "write", p # q
                 PROVE  hold[q][c] = "none"
      BY DEF RwExclusion
    <2>1. Sound(r[c], g[c], b[c], HoldOf(c), PlaceOf(c)) /\ HoldOf(c)[p] = "write"
          /\ HoldOf(c)[q] = hold[q][c] /\ hold[q][c] \in Modes
      BY SoundAt
    <2> QED BY <2>1 DEF Sound, Grouped, Modes
  <1> QED BY <1>1, LocksSound, PTL

\* ASSERT (cache_block->lock.b == 0) of cache_downgrade holds whenever it is reached.
THEOREM DowngradeAssertionHolds == Spec => []DowngradeAssertion
  <1>1. RwInv => DowngradeAssertion
    BY DEF RwInv, DowngradeAssertion
  <1> QED BY <1>1, LocksSound, PTL

\* g is a binary semaphore and b never falls below 0.
THEOREM LockTypes == Spec => []TypeOK
  <1>1. RwInv => TypeOK
    <2> SUFFICES ASSUME RwInv PROVE TypeOK
      OBVIOUS
    <2>1. ASSUME NEW c \in Blocks PROVE g[c] \in {0, 1} /\ b[c] \in Nat
      <3>1. g[c] \in {0, 1} /\ b[c] = Cardinality(Counted(HoldOf(c), PlaceOf(c)))
        BY DEF RwInv, Sound
      <3> QED BY <3>1, CountIs
    <2> QED BY <2>1, ZenonT(30) DEF RwInv, Types, TypeOK
  <1> QED BY <1>1, LocksSound, PTL

\* Every step of the lock is one that RwLockAbs allows.
THEOREM RefinesAbstractLock == Spec => AbsSpec
  <1>1. Init => Abs!Init
    BY DEF Init, LockInit, Abs!Init
  <1> QED BY <1>1, InitSound, StepKeeps, PTL DEF Spec, AbsSpec, Abs!Spec
=============================================================================
