----------------------------- MODULE RwLockAbs -----------------------------
(***************************************************************************)
(* What the reader/writer lock of a cache block promises (cache.h: "nothing*)
(* is reading from a block while a thread writes to it"; DESIGNDOC C5: with*)
(* the write lock "no other writers or readers are using the block").      *)
(*                                                                         *)
(* hold[p][c] is what process p has of block c.                            *)
(***************************************************************************)
CONSTANTS Procs, Blocks

VARIABLE hold

Init == hold = [p \in Procs |-> [c \in Blocks |-> "none"]]

Become(p, c, mode) == hold' = [hold EXCEPT ![p][c] = mode]

StartRead(p, c) ==
    /\ hold[p][c] = "none"
    /\ \A q \in Procs : hold[q][c] # "write"
    /\ Become(p, c, "read")

StartWrite(p, c) ==
    /\ \A q \in Procs : hold[q][c] = "none"
    /\ Become(p, c, "write")

\* The only reader becomes the writer.
Upgrade(p, c) ==
    /\ hold[p][c] = "read"
    /\ \A q \in Procs \ {p} : hold[q][c] = "none"
    /\ Become(p, c, "write")

Downgrade(p, c) ==
    /\ hold[p][c] = "write"
    /\ Become(p, c, "read")

\* A reader or the writer lets go; a reader among others that wants to write has to.
Release(p, c) ==
    /\ hold[p][c] # "none"
    /\ Become(p, c, "none")

Next ==
    \E p \in Procs, c \in Blocks :
        \/ StartRead(p, c)
        \/ StartWrite(p, c)
        \/ Upgrade(p, c)
        \/ Downgrade(p, c)
        \/ Release(p, c)

Spec == Init /\ [][Next]_hold
=============================================================================
