-------------------------------- MODULE IntQ --------------------------------
(***************************************************************************)
(* The interrupt queue of devices/intq.c: a circular buffer shared by      *)
(* threads and interrupt handlers, all of which use it with interrupts     *)
(* off.  A queue is a record; Console.tla holds two of them and says who   *)
(* waits, and where a thread that waits gives up the CPU.                  *)
(***************************************************************************)
EXTENDS Integers, Sequences

CONSTANTS
    INTQ_BUFSIZE,   \* slots of the buffer
    NoThread,       \* the null thread
    NoByte          \* what an unused slot holds

ASSUME SizeAssumption == INTQ_BUFSIZE \in Nat \ {0, 1}

intq_init ==
    [lock |-> NoThread, not_full |-> NoThread, not_empty |-> NoThread,
     buf |-> [i \in 0..(INTQ_BUFSIZE - 1) |-> NoByte], head |-> 0, tail |-> 0]

\* Mutant: the position runs on past the end.
next_unwrapped(pos) == pos + 1

next(pos) == (pos + 1) % INTQ_BUFSIZE

intq_empty(q) == q.head = q.tail

\* One slot stays unused.
intq_full(q) == next(q.head) = q.tail

(***************************************************************************)
(* intq_putc on a queue that is not full: whoever waits in not_empty is    *)
(* woken, and no longer recorded.                                          *)
(***************************************************************************)
intq_putc(q, byte) ==
    [q EXCEPT !.buf[q.head] = byte, !.head = next(q.head), !.not_empty = NoThread]

\* intq_getc on a queue that is not empty: likewise for not_full.
intq_getc(q) ==
    [q EXCEPT !.tail = next(q.tail), !.not_full = NoThread]

-----------------------------------------------------------------------------
\* What a queue holds, oldest first.

Size(q) == IF q.tail <= q.head THEN q.head - q.tail ELSE q.head - q.tail + INTQ_BUFSIZE

Slot(q, i) ==
    IF q.tail + i - 1 < INTQ_BUFSIZE THEN q.tail + i - 1 ELSE q.tail + i - 1 - INTQ_BUFSIZE

Contents(q) == [i \in 1..Size(q) |-> q.buf[Slot(q, i)]]

=============================================================================
