------------------------------ MODULE Console ------------------------------
(***************************************************************************)
(* Console input and output: the keys of the keyboard and the serial port  *)
(* (devices/input.c, kbd.c), the transmit queue of the serial port         *)
(* (serial.c), the two interrupt queues behind them (IntQ.tla), and the    *)
(* lock that keeps the output of two threads apart (lib/kernel/console.c). *)
(*                                                                         *)
(* All of it runs with interrupts off, so a step goes on until the thread  *)
(* blocks or turns them on again.  pc[t] is where thread t is:             *)
(*   user   in its own code                                                *)
(*   put    in putbuf with the console lock, interrupts on                 *)
(*   lock   blocked in lock_acquire(&q->lock)                              *)
(*   wait   blocked in wait, recorded in the queue                         *)
(*   woken  unblocked by signal, back in wait                              *)
(* A reader waits for queue "in", a writer for queue "out".                *)
(***************************************************************************)
EXTENDS IntQ, FiniteSets

CONSTANTS
    Readers,     \* threads that call input_getc
    Writers,     \* threads that call putbuf
    Main,        \* the one of them that boots the kernel
    MsgLen,      \* bytes in a putbuf
    MaxKeys,     \* bytes that come in, in all
    MaxPrints    \* putbuf calls, and bytes printed with interrupts off, in all

ASSUME ThreadsAssumption ==
    /\ Readers \cap Writers = {}
    /\ NoThread \notin Readers \cup Writers
    /\ Main \in Writers
ASSUME CountAssumption == MsgLen \in Nat \ {0} /\ MaxKeys \in Nat /\ MaxPrints \in Nat

Threads == Readers \cup Writers

\* The bytes that come in are told apart by when they come.
Keys == 1..MaxKeys

VARIABLES
    queue,         \* "in": buffer of input.c, "out": txq of serial.c
    mode,          \* of the serial port: "POLL" or "QUEUE"
    started,       \* serial_init_queue has returned
    ier,           \* the interrupt enable register: a subset of {"XMIT", "RECV"}
    rbr,           \* the byte in the serial port's receive register, or NoByte
    out,           \* what the serial port has sent
    got,           \* what input_getc has returned
    pc,            \* thread -> place
    left,          \* thread -> bytes of its putbuf still to print
    console_lock,  \* the thread that holds it
    keys, prints,  \* bytes that may still come in, calls that may still be made
    panic          \* an ASSERT has failed

vars == <<queue, mode, started, ier, rbr, out, got, pc, left, console_lock, keys, prints, panic>>

\* The n-th byte from the end of a putbuf by t; a byte of code with interrupts off.
Byte(t, n) == <<t, n>>
KernelByte == <<NoThread, 0>>
OutBytes == {Byte(t, n) : t \in Writers, n \in 1..MsgLen} \cup {KernelByte}

Init ==
    /\ queue = [k \in {"in", "out"} |-> intq_init]
    /\ mode = "POLL"
    /\ started = FALSE
    /\ ier = {}
    /\ rbr = NoByte
    /\ out = <<>>
    /\ got = <<>>
    /\ pc = [t \in Threads |-> "user"]
    /\ left = [t \in Threads |-> 0]
    /\ console_lock = NoThread
    /\ keys = MaxKeys
    /\ prints = MaxPrints
    /\ panic = FALSE

-----------------------------------------------------------------------------
\* The queues

\* Mutant: the thread is taken off the queue and sleeps on.
signal_lost(t, places) == places

\* signal: the thread t that was recorded in the queue, if any, is ready again.
signal(t, places) == [u \in Threads |-> IF u = t THEN "woken" ELSE places[u]]

\* What write_ier stores when the queues are inq and outq.
write_ier(inq, outq) ==
    {x \in {"XMIT", "RECV"} : \/ x = "XMIT" /\ ~ intq_empty(outq)
                              \/ x = "RECV" /\ ~ intq_full(inq)}

\* Mutant: the register is left as it is.
serial_notify_nothing(inq, outq) == UNCHANGED ier

\* serial_notify: the queues have changed to inq and outq.
serial_notify(inq, outq) ==
    ier' = IF mode = "QUEUE" THEN write_ier(inq, outq) ELSE ier

(***************************************************************************)
(* lock_acquire(&q->lock) and wait, by a thread t that found nothing to    *)
(* do in queue k, whose state is q: the thread is recorded in the queue,   *)
(* or has to wait for the lock.  f is "not_empty" or "not_full".           *)
(***************************************************************************)
Wait(t, k, f, q) ==
    \/ /\ q.lock = NoThread
       /\ queue' = [queue EXCEPT ![k] = [q EXCEPT !.lock = t, ![f] = t]]
       /\ pc' = [pc EXCEPT ![t] = "wait"]
    \/ /\ q.lock # NoThread
       /\ queue' = [queue EXCEPT ![k] = q]
       /\ pc' = [pc EXCEPT ![t] = "lock"]

(***************************************************************************)
(* t gets the lock of its queue k and goes on to wait, which asserts that  *)
(* the condition t had found is still true.                                *)
(***************************************************************************)
lock_acquire(t) ==
    LET k == IF t \in Readers THEN "in" ELSE "out"
        f == IF t \in Readers THEN "not_empty" ELSE "not_full"
        q == queue[k]
    IN  /\ pc[t] = "lock"
        /\ q.lock = NoThread
        /\ IF (t \in Readers /\ intq_empty(q)) \/ (t \in Writers /\ intq_full(q))
           THEN Wait(t, k, f, q) /\ UNCHANGED panic
           ELSE panic' = TRUE /\ UNCHANGED <<queue, pc>>
        /\ UNCHANGED <<mode, started, ier, rbr, out, got, left, console_lock, keys, prints>>

\* The queue of a thread that is back from wait: it releases the lock.
Released(k) == [queue[k] EXCEPT !.lock = NoThread]

-----------------------------------------------------------------------------
\* Input

\* t may run: until serial_init_queue has returned, Main is the only thread.
Running(t) == started \/ (t = Main /\ mode = "POLL")

\* The loop test of intq_getc, and what follows it in input_getc.
Getc(t, q) ==
    \/ /\ ~ intq_empty(q)
       /\ got' = Append(got, q.buf[q.tail])
       /\ queue' = [queue EXCEPT !["in"] = intq_getc(q)]
       /\ pc' = signal(q.not_full, [pc EXCEPT ![t] = "user"])
       /\ serial_notify(intq_getc(q), queue["out"])
    \/ /\ intq_empty(q)
       /\ Wait(t, "in", "not_empty", q)
       /\ UNCHANGED <<got, ier>>

input_getc(t) ==
    /\ t \in Readers
    /\ Running(t)
    /\ \/ pc[t] = "user" /\ Getc(t, queue["in"])
       \/ pc[t] = "woken" /\ Getc(t, Released("in"))
    /\ UNCHANGED <<mode, started, rbr, out, left, console_lock, keys, prints, panic>>

\* Mutant: no test for a full buffer.
keyboard_interrupt_untested ==
    LET q == queue["in"]
        key == keys
    IN  /\ keys > 0
        /\ keys' = keys - 1
        /\ queue' = [queue EXCEPT !["in"] = intq_putc(q, key)]
        /\ pc' = signal(q.not_empty, pc)
        /\ serial_notify(intq_putc(q, key), queue["out"])
        /\ UNCHANGED <<mode, started, rbr, out, got, left, console_lock, prints, panic>>

\* The keyboard interrupt with an ordinary key: dropped when the buffer is full.
keyboard_interrupt ==
    LET q == queue["in"]
        key == keys
    IN  /\ keys > 0
        /\ keys' = keys - 1
        /\ IF intq_full(q) THEN UNCHANGED <<queue, pc, ier>>
           ELSE /\ queue' = [queue EXCEPT !["in"] = intq_putc(q, key)]
                /\ pc' = signal(q.not_empty, pc)
                /\ serial_notify(intq_putc(q, key), queue["out"])
        /\ UNCHANGED <<mode, started, rbr, out, got, left, console_lock, prints, panic>>

\* The serial port receives a byte; one that was not fetched in time is gone.
receive ==
    /\ keys > 0
    /\ keys' = keys - 1
    /\ rbr' = keys
    /\ UNCHANGED <<queue, mode, started, ier, out, got, pc, left, console_lock, prints, panic>>

-----------------------------------------------------------------------------
\* Output

\* serial_init_queue by Main up to its intr_disable, and the rest of it.
serial_init_queue ==
    /\ mode = "POLL"
    /\ pc[Main] = "user"
    /\ mode' = "QUEUE"
    /\ UNCHANGED <<queue, started, ier, rbr, out, got, pc, left, console_lock, keys, prints, panic>>

init_ier ==
    /\ mode = "QUEUE" /\ ~ started
    /\ started' = TRUE
    /\ ier' = write_ier(queue["in"], queue["out"])
    /\ UNCHANGED <<queue, mode, rbr, out, got, pc, left, console_lock, keys, prints, panic>>

\* Mutant: the console lock is not waited for.
putbuf_unlocked(t) ==
    /\ t \in Writers
    /\ pc[t] = "user"
    /\ Running(t)
    /\ prints > 0
    /\ prints' = prints - 1
    /\ console_lock' = t
    /\ pc' = [pc EXCEPT ![t] = "put"]
    /\ left' = [left EXCEPT ![t] = MsgLen]
    /\ UNCHANGED <<queue, mode, started, ier, rbr, out, got, keys, panic>>

\* putbuf by t: acquire_console.
putbuf(t) ==
    /\ t \in Writers
    /\ pc[t] = "user"
    /\ Running(t)
    /\ prints > 0
    /\ prints' = prints - 1
    /\ console_lock = NoThread
    /\ console_lock' = t
    /\ pc' = [pc EXCEPT ![t] = "put"]
    /\ left' = [left EXCEPT ![t] = MsgLen]
    /\ UNCHANGED <<queue, mode, started, ier, rbr, out, got, keys, panic>>

\* The loop test of intq_putc, called by t with its next byte, and the rest of serial_putc.
Putc(t, q) ==
    \/ /\ ~ intq_full(q)
       /\ queue' = [queue EXCEPT !["out"] = intq_putc(q, Byte(t, left[t]))]
       /\ left' = [left EXCEPT ![t] = @ - 1]
       /\ pc' = signal(q.not_empty, [pc EXCEPT ![t] = "put"])
       /\ ier' = write_ier(queue["in"], intq_putc(q, Byte(t, left[t])))
    \/ /\ intq_full(q)
       /\ Wait(t, "out", "not_full", q)
       /\ UNCHANGED <<left, ier>>

\* serial_putc with interrupts on: one byte of putbuf.
serial_putc(t) ==
    /\ t \in Writers
    /\ left[t] > 0
    /\ \/ /\ pc[t] = "put" /\ mode = "POLL"
          /\ out' = Append(out, Byte(t, left[t]))
          /\ left' = [left EXCEPT ![t] = @ - 1]
          /\ UNCHANGED <<queue, ier, pc>>
       \/ pc[t] = "put" /\ mode = "QUEUE" /\ Putc(t, queue["out"]) /\ UNCHANGED out
       \/ pc[t] = "woken" /\ Putc(t, Released("out")) /\ UNCHANGED out
    /\ UNCHANGED <<mode, started, rbr, got, console_lock, keys, prints, panic>>

\* putbuf is done: release_console.
release_console(t) ==
    /\ pc[t] = "put"
    /\ left[t] = 0
    /\ console_lock' = NoThread
    /\ pc' = [pc EXCEPT ![t] = "user"]
    /\ UNCHANGED <<queue, mode, started, ier, rbr, out, got, left, keys, prints, panic>>

\* Mutant: no byte is sent to make room.
serial_putc_off_no_room ==
    LET q == queue["out"]
    IN  /\ prints > 0
        /\ prints' = prints - 1
        /\ IF mode = "POLL"
           THEN out' = Append(out, KernelByte) /\ UNCHANGED <<queue, pc, ier>>
           ELSE /\ UNCHANGED <<out, pc>>
                /\ queue' = [queue EXCEPT !["out"] = intq_putc(q, KernelByte)]
                /\ ier' = write_ier(queue["in"], intq_putc(q, KernelByte))
        /\ UNCHANGED <<mode, started, rbr, got, left, console_lock, keys, panic>>

(***************************************************************************)
(* serial_putc called with interrupts off, by a handler: it takes no       *)
(* console lock and never waits; when the queue is full the oldest byte is *)
(* sent by polling.                                                        *)
(***************************************************************************)
serial_putc_off ==
    LET q == queue["out"]
        room == IF intq_full(q) THEN intq_getc(q) ELSE q
    IN  /\ prints > 0
        /\ prints' = prints - 1
        /\ IF mode = "POLL"
           THEN out' = Append(out, KernelByte) /\ UNCHANGED <<queue, pc, ier>>
           ELSE /\ out' = IF intq_full(q) THEN Append(out, q.buf[q.tail]) ELSE out
                /\ queue' = [queue EXCEPT !["out"] = intq_putc(room, KernelByte)]
                /\ pc' = signal(IF intq_full(q) THEN q.not_full ELSE NoThread, pc)
                /\ ier' = write_ier(queue["in"], intq_putc(room, KernelByte))
        /\ UNCHANGED <<mode, started, rbr, got, left, console_lock, keys, panic>>

\* q after n calls of intq_getc.
Drained(q, n) ==
    [q EXCEPT !.tail = (q.tail + n) % INTQ_BUFSIZE,
              !.not_full = IF n = 0 THEN @ ELSE NoThread]

\* serial_flush: everything is sent by polling; the register is left as it is.
serial_flush ==
    LET q == queue["out"] IN
    /\ ~ intq_empty(q)
    /\ out' = out \o Contents(q)
    /\ queue' = [queue EXCEPT !["out"] = Drained(q, Size(q))]
    /\ pc' = signal(q.not_full, pc)
    /\ UNCHANGED <<mode, started, ier, rbr, got, left, console_lock, keys, prints, panic>>

(***************************************************************************)
(* serial_interrupt: a byte that has come in is fetched if there is room,  *)
(* and n bytes go out, as many as the port takes before it is busy.        *)
(***************************************************************************)
serial_interrupt(n) ==
    LET fetch == rbr # NoByte /\ ~ intq_full(queue["in"])
        inq == IF fetch THEN intq_putc(queue["in"], rbr) ELSE queue["in"]
        outq == Drained(queue["out"], n)
    IN  /\ ("RECV" \in ier /\ rbr # NoByte) \/ ("XMIT" \in ier /\ (n > 0 \/ intq_empty(queue["out"])))
        /\ n <= Size(queue["out"])
        /\ rbr' = IF fetch THEN NoByte ELSE rbr
        /\ out' = out \o SubSeq(Contents(queue["out"]), 1, n)
        /\ queue' = [k \in {"in", "out"} |-> IF k = "in" THEN inq ELSE outq]
        /\ pc' = signal(IF fetch THEN queue["in"].not_empty ELSE NoThread,
                        signal(IF n > 0 THEN queue["out"].not_full ELSE NoThread, pc))
        /\ ier' = write_ier(inq, outq)
        /\ UNCHANGED <<mode, started, got, left, console_lock, keys, prints, panic>>

Step(t) == input_getc(t) \/ lock_acquire(t) \/ serial_putc(t) \/ release_console(t)

Next ==
    /\ ~ panic
    /\ \/ \E t \in Threads : Step(t) \/ putbuf(t)
       \/ keyboard_interrupt
       \/ receive
       \/ serial_init_queue
       \/ init_ier
       \/ serial_putc_off
       \/ serial_flush
       \/ \E n \in 0..(INTQ_BUFSIZE - 1) : serial_interrupt(n)

Spec == Init /\ [][Next]_vars

\* A thread that is in a call; a thread need not make one.
Work(t) == ~ panic /\ pc[t] # "user" /\ Step(t)

\* The serial port is ready and has a byte to take.
Transmit == ~ panic /\ \E n \in 1..(INTQ_BUFSIZE - 1) : serial_interrupt(n)

\* A ready thread gets the CPU, and the serial port gets a byte sent.
FairSpec == Spec /\ (\A t \in Threads : WF_vars(Work(t))) /\ WF_vars(Transmit)

-----------------------------------------------------------------------------
\* Properties

Slots == 0..(INTQ_BUFSIZE - 1)

QueueType(bytes, users) ==
    [lock : users \cup {NoThread}, not_full : users \cup {NoThread},
     not_empty : users \cup {NoThread},
     buf : [Slots -> bytes \cup {NoByte}], head : Slots, tail : Slots]

\* Every variable has its type; only readers use "in", only writers "out".
TypeOK ==
    /\ DOMAIN queue = {"in", "out"}
    /\ queue["in"] \in QueueType(Keys, Readers)
    /\ queue["out"] \in QueueType(OutBytes, Writers)
    /\ mode \in {"POLL", "QUEUE"}
    /\ started \in BOOLEAN
    /\ ier \subseteq {"XMIT", "RECV"}
    /\ rbr \in Keys \cup {NoByte}
    /\ out \in Seq(OutBytes)
    /\ got \in Seq(Keys)
    /\ pc \in [Threads -> {"user", "put", "lock", "wait", "woken"}]
    /\ left \in [Threads -> 0..MsgLen]
    /\ console_lock \in Writers \cup {NoThread}

(***************************************************************************)
(* No wake-up is lost: a thread that sleeps in wait is the one recorded in *)
(* its queue and holds the queue's lock, and what it waits for has not     *)
(* happened (intq_getc, intq_putc, wait and signal, from threads and from  *)
(* interrupt handlers).                                                    *)
(***************************************************************************)
WaiterSound ==
    LET in == queue["in"]
        outq == queue["out"]
    IN  /\ \A t \in Readers : pc[t] = "wait" <=> in.not_empty = t
        /\ \A t \in Writers : pc[t] = "wait" <=> outq.not_full = t
        /\ \A t \in Readers : pc[t] \in {"wait", "woken"} => in.lock = t
        /\ \A t \in Writers : pc[t] \in {"wait", "woken"} => outq.lock = t
        /\ in.not_empty # NoThread => intq_empty(in)
        /\ outq.not_full # NoThread => intq_full(outq)

(***************************************************************************)
(* Whenever the transmit queue holds a byte the port interrupts when it    *)
(* can take one, and it interrupts for a byte that comes in exactly while  *)
(* the input buffer has room (write_ier after every change of a queue).    *)
(***************************************************************************)
IerCovers ==
    /\ ~ intq_empty(queue["out"]) => "XMIT" \in ier
    /\ started => ("RECV" \in ier <=> ~ intq_full(queue["in"]))

(***************************************************************************)
(* The output is a FIFO: the serial port sends what serial_putc was given, *)
(* in that order, whether by interrupt, by polling or by serial_flush.     *)
(***************************************************************************)
OutFifo == INSTANCE Fifo WITH
    Bytes <- OutBytes, Capacity <- INTQ_BUFSIZE - 1,
    log <- out \o Contents(queue["out"]), done <- Len(out)
OutSpec == OutFifo!Spec

(***************************************************************************)
(* The input is a FIFO: input_getc returns, once each and in order, the    *)
(* keys that the keyboard and the serial port put in.                      *)
(***************************************************************************)
InFifo == INSTANCE Fifo WITH
    Bytes <- Keys, Capacity <- INTQ_BUFSIZE - 1,
    log <- got \o Contents(queue["in"]), done <- Len(got)
InSpec == InFifo!Spec

(***************************************************************************)
(* console.c: the lock is there "to prevent simultaneous printf() calls    *)
(* from mixing their output".  Bytes of code that runs with interrupts off *)
(* aside, a byte that is not the last of its putbuf is followed by the     *)
(* next byte of the same putbuf.                                           *)
(***************************************************************************)
OutputNotMixed ==
    LET FromPutbuf(b) == b # KernelByte
        s == SelectSeq(out \o Contents(queue["out"]), FromPutbuf)
    IN  \A i \in 1..(Len(s) - 1) : s[i][2] > 1 => s[i+1] = Byte(s[i][1], s[i][2] - 1)

(***************************************************************************)
(* putbuf returns, however full the transmit queue is: the port's          *)
(* interrupts make room and wake the writer.                               *)
(***************************************************************************)
PrintReturns == \A t \in Writers : pc[t] = "put" ~> (pc[t] = "user" \/ panic)

=============================================================================
