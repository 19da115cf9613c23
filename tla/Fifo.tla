-------------------------------- MODULE Fifo --------------------------------
(***************************************************************************)
(* What a buffered stream of bytes promises: bytes come out in the order   *)
(* they went in, each of them once, and no more than Capacity of them are  *)
(* inside.  log is everything that ever went in, done how many came out.   *)
(***************************************************************************)
EXTENDS Integers, Sequences

CONSTANTS Bytes, Capacity

VARIABLES log, done

Init == log = <<>> /\ done = 0

\* At most one byte goes in, and some of the oldest come out.
Next ==
    /\ log' = log \/ \E b \in Bytes : log' = Append(log, b)
    /\ done' \in done..Len(log')
    /\ Len(log') - done' <= Capacity

Spec == Init /\ [][Next]_<<log, done>>

=============================================================================
