---------------------------- MODULE ConsoleFifo ----------------------------
(***************************************************************************)
(* Both streams are FIFOs.  Every step takes some of the oldest bytes out  *)
(* of a queue, adds at most one, and delivers what it took out: that makes *)
(* it a step of Fifo.                                                      *)
(***************************************************************************)
EXTENDS ConsoleProofs

\* The provers of a leaf that names none, and their time.
USE SMTT(30), ZenonT(30)

\* From the bytes c of a queue, d are taken, and c2 are in it afterwards.
Passes(S, c, d, c2) == d \o c2 = c \/ \E b \in S : d \o c2 = Append(c, b)

LEMMA ConcatAppend ==
    ASSUME NEW S, NEW o \in Seq(S), NEW c \in Seq(S), NEW b \in S
    PROVE  o \o Append(c, b) = Append(o \o c, b)
  <1>1. /\ o \o c \in Seq(S) /\ Len(o \o c) = Len(o) + Len(c)
        /\ Append(c, b) \in Seq(S) /\ Len(Append(c, b)) = Len(c) + 1
    OBVIOUS
  <1>2. o \o Append(c, b) \in Seq(S) /\ Len(o \o Append(c, b)) = Len(o \o c) + 1
    BY <1>1
  <1>3. (o \o Append(c, b))[Len(o \o c) + 1] = b
    BY <1>1
  <1>4. \A i \in 1..Len(o \o c) : (o \o Append(c, b))[i] = (o \o c)[i]
    BY <1>1
  <1> QED BY <1>1, <1>2, <1>3, <1>4, AppendIs

\* What that means for everything that went in, when o has been delivered.
LEMMA PassesIsFifoStep ==
    ASSUME NEW S, NEW o \in Seq(S), NEW c \in Seq(S), NEW d \in Seq(S), NEW c2 \in Seq(S),
           NEW N \in Nat, Len(c2) <= N, Passes(S, c, d, c2)
    PROVE  /\ \/ (o \o d) \o c2 = o \o c
              \/ \E b \in S : (o \o d) \o c2 = Append(o \o c, b)
           /\ Len(o \o d) \in Len(o)..Len((o \o d) \o c2)
           /\ Len((o \o d) \o c2) - Len(o \o d) <= N
  <1>1. (o \o d) \o c2 = o \o (d \o c2)
    BY ConcatAssociative
  <1>2. Len(o \o d) = Len(o) + Len(d) /\ Len((o \o d) \o c2) = Len(o) + Len(d) + Len(c2)
    OBVIOUS
  <1>3. Len(o) \in Nat /\ Len(d) \in Nat /\ Len(c2) \in Nat
    OBVIOUS
  <1>4. Len(o \o d) \in Len(o)..Len((o \o d) \o c2) /\ Len((o \o d) \o c2) - Len(o \o d) <= N
    BY <1>2, <1>3
  <1>5. CASE d \o c2 = c
    BY <1>1, <1>4, <1>5
  <1>6. CASE \E b \in S : d \o c2 = Append(c, b)
    <2>1. PICK b \in S : d \o c2 = Append(c, b)
      BY <1>6
    <2>2. o \o Append(c, b) = Append(o \o c, b)
      BY ConcatAppend
    <2> QED BY <1>1, <1>4, <2>1, <2>2
  <1> QED BY <1>5, <1>6, ZenonT(30) DEF Passes

\* A queue that holds the same bytes, and one that got a byte.
LEMMA PassesNothing ==
    ASSUME NEW S, NEW c \in Seq(S), NEW b \in S
    PROVE  Passes(S, c, <<>>, c) /\ Passes(S, c, <<>>, Append(c, b))
  <1>1. <<>> \o c = c /\ <<>> \o Append(c, b) = Append(c, b)
    OBVIOUS
  <1> QED BY <1>1 DEF Passes

\* What has been sent, and what the transmit queue holds.
OutAdvance ==
    \E d \in Seq(OutBytes) :
        /\ out' = out \o d
        /\ Passes(OutBytes, Contents(queue["out"]), d, Contents(queue["out"])')

\* What has been returned, and what the input buffer holds.
InAdvance ==
    \E d \in Seq(Keys) :
        /\ got' = got \o d
        /\ Passes(Keys, Contents(queue["in"]), d, Contents(queue["in"])')

\* A step that leaves a stream alone.
LEMMA Quiet ==
    ASSUME ConsoleInv
    PROVE  /\ out' = out /\ Contents(queue["out"])' = Contents(queue["out"]) => OutAdvance
           /\ got' = got /\ Contents(queue["in"])' = Contents(queue["in"]) => InAdvance
  <1>1. /\ out \in Seq(OutBytes) /\ got \in Seq(Keys)
        /\ Contents(queue["out"]) \in Seq(OutBytes) /\ Contents(queue["in"]) \in Seq(Keys)
    BY DEF ConsoleInv, TypeOK, InSound, OutSound
  <1>2. /\ <<>> \in Seq(OutBytes) /\ out \o <<>> = out
        /\ <<>> \in Seq(Keys) /\ got \o <<>> = got
        /\ <<>> \o Contents(queue["out"]) = Contents(queue["out"])
        /\ <<>> \o Contents(queue["in"]) = Contents(queue["in"])
    BY <1>1, ConcatEmptySeq
  <1>3. /\ Passes(OutBytes, Contents(queue["out"]), <<>>, Contents(queue["out"]))
        /\ Passes(Keys, Contents(queue["in"]), <<>>, Contents(queue["in"]))
    BY <1>2 DEF Passes
  <1> QED BY <1>2, <1>3, ZenonT(30) DEF OutAdvance, InAdvance

\* A thread that waits leaves the bytes of both queues as they are.
LEMMA WaitKeeps ==
    ASSUME ConsoleInv, NEW t, NEW k \in {"in", "out"}, NEW f \in {"not_empty", "not_full"},
           NEW B, NEW U, NEW q \in QueueType(B, U),
           q.buf = queue[k].buf, q.head = queue[k].head, q.tail = queue[k].tail,
           Wait(t, k, f, q)
    PROVE  /\ Contents(queue["in"])' = Contents(queue["in"])
           /\ Contents(queue["out"])' = Contents(queue["out"])
  <1> DEFINE r == [q EXCEPT !.lock = t, ![f] = t]
  <1>1. r.buf = q.buf /\ r.head = q.head /\ r.tail = q.tail
    BY DEF QueueType
  <1>2. Contents(q) = Contents(queue[k])
    BY SameBytes
  <1>3. Contents(r) = Contents(q)
    BY <1>1, SameBytes, ZenonT(30)
  <1>4. PICK x \in {q, r} : queue' = [queue EXCEPT ![k] = x]
    BY DEF Wait
  <1>5. DOMAIN queue = {"in", "out"}
    BY DEF ConsoleInv, TypeOK
  <1>6. queue'[k] = x /\ \A j \in {"in", "out"} : j # k => queue'[j] = queue[j]
    BY <1>4, <1>5
  <1>7. \A j \in {"in", "out"} : Contents(queue'[j]) = Contents(queue[j])
    BY <1>2, <1>3, <1>4, <1>6
  <1> QED BY <1>7

LEMMA OthersAdvance ==
    ASSUME NEW t \in Threads, ConsoleInv,
           UNCHANGED vars \/ receive \/ serial_init_queue \/ init_ier \/ putbuf(t) \/ release_console(t)
    PROVE  InAdvance /\ OutAdvance
  <1>1. UNCHANGED <<queue, out, got>>
    BY DEF vars, receive, serial_init_queue, init_ier, putbuf, release_console
  <1> QED BY <1>1, Quiet

LEMMA LockAcquireAdvances ==
    ASSUME NEW t \in Threads, ConsoleInv, lock_acquire(t)
    PROVE  InAdvance /\ OutAdvance
  <1>1. UNCHANGED <<out, got>>
    BY DEF lock_acquire
  <1>2. CASE UNCHANGED <<queue, pc>>
    BY <1>1, <1>2, Quiet
  <1>3. CASE ~ UNCHANGED <<queue, pc>>
    <2>1. queue["in"] \in QueueType(Keys, Readers) /\ queue["out"] \in QueueType(OutBytes, Writers)
      BY DEF ConsoleInv, TypeOK
    <2>2. \/ Wait(t, "in", "not_empty", queue["in"])
          \/ Wait(t, "out", "not_full", queue["out"])
      BY <1>3 DEF lock_acquire
    <2>3. /\ Contents(queue["in"])' = Contents(queue["in"])
          /\ Contents(queue["out"])' = Contents(queue["out"])
      BY <2>1, <2>2, WaitKeeps
    <2> QED BY <1>1, <2>3, Quiet
  <1> QED BY <1>2, <1>3

\* A byte has been put into the input buffer, or the transmit queue.
LEMMA PutAdvances ==
    ASSUME ConsoleInv
    PROVE  /\ \A b \in Keys :
                  got' = got /\ Contents(queue["in"])' = Append(Contents(queue["in"]), b) => InAdvance
           /\ \A b \in OutBytes :
                  out' = out /\ Contents(queue["out"])' = Append(Contents(queue["out"]), b) => OutAdvance
  <1>1. /\ out \in Seq(OutBytes) /\ got \in Seq(Keys)
        /\ Contents(queue["out"]) \in Seq(OutBytes) /\ Contents(queue["in"]) \in Seq(Keys)
    BY DEF ConsoleInv, TypeOK, InSound, OutSound
  <1>2. /\ <<>> \in Seq(OutBytes) /\ out \o <<>> = out
        /\ <<>> \in Seq(Keys) /\ got \o <<>> = got
    BY <1>1, ConcatEmptySeq
  <1>3. ASSUME NEW b \in Keys, got' = got, Contents(queue["in"])' = Append(Contents(queue["in"]), b)
        PROVE  InAdvance
    BY <1>1, <1>2, <1>3, PassesNothing, ZenonT(30) DEF InAdvance
  <1>4. ASSUME NEW b \in OutBytes, out' = out, Contents(queue["out"])' = Append(Contents(queue["out"]), b)
        PROVE  OutAdvance
    BY <1>1, <1>2, <1>4, PassesNothing, ZenonT(30) DEF OutAdvance
  <1> QED BY <1>3, <1>4

LEMMA KeyboardAdvances == ConsoleInv /\ keyboard_interrupt => InAdvance /\ OutAdvance
  <1> SUFFICES ASSUME ConsoleInv, keyboard_interrupt PROVE InAdvance /\ OutAdvance
    OBVIOUS
  <1>1. UNCHANGED <<out, got>> /\ keys \in Keys
    BY CountAssumption DEF keyboard_interrupt, ConsoleInv, BootSound, Keys
  <1>2. CASE intq_full(queue["in"])
    <2>1. queue' = queue
      BY <1>2 DEF keyboard_interrupt
    <2> QED BY <1>1, <2>1, Quiet
  <1>3. CASE ~ intq_full(queue["in"])
    <2>1. queue' = [queue EXCEPT !["in"] = intq_putc(queue["in"], keys)]
      BY <1>3 DEF keyboard_interrupt
    <2>2. queue'["in"] = intq_putc(queue["in"], keys) /\ queue'["out"] = queue["out"]
      BY <2>1 DEF ConsoleInv, TypeOK
    <2>3. queue["in"] \in QueueType(Keys, Readers)
      BY DEF ConsoleInv, TypeOK
    <2>4. Contents(intq_putc(queue["in"], keys)) = Append(Contents(queue["in"]), keys)
      BY <1>1, <1>3, <2>3, PutIs
    <2> QED BY <1>1, <2>2, <2>4, Quiet, PutAdvances
  <1> QED BY <1>2, <1>3

\* A queue whose lock has been released, and where it is used.
LEMMA ReleasedIs ==
    ASSUME ConsoleInv
    PROVE  /\ Released("in") \in QueueType(Keys, Readers)
           /\ Released("in").buf = queue["in"].buf /\ Released("in").head = queue["in"].head
           /\ Released("in").tail = queue["in"].tail
           /\ Released("out") \in QueueType(OutBytes, Writers)
           /\ Released("out").buf = queue["out"].buf /\ Released("out").head = queue["out"].head
           /\ Released("out").tail = queue["out"].tail
           /\ queue["in"] \in QueueType(Keys, Readers)
           /\ queue["out"] \in QueueType(OutBytes, Writers)
  <1>1. queue["in"] \in QueueType(Keys, Readers) /\ queue["out"] \in QueueType(OutBytes, Writers)
    BY DEF ConsoleInv, TypeOK
  <1>2. /\ Released("in") \in QueueType(Keys, Readers)
        /\ Released("in").buf = queue["in"].buf /\ Released("in").head = queue["in"].head
        /\ Released("in").tail = queue["in"].tail
    BY <1>1 DEF Released, QueueType
  <1>3. /\ Released("out") \in QueueType(OutBytes, Writers)
        /\ Released("out").buf = queue["out"].buf /\ Released("out").head = queue["out"].head
        /\ Released("out").tail = queue["out"].tail
    BY <1>1 DEF Released, QueueType
  <1> QED BY <1>1, <1>2, <1>3

LEMMA GetcAdvances ==
    ASSUME NEW t, ConsoleInv, NEW q \in QueueType(Keys, Readers),
           q.buf = queue["in"].buf, q.head = queue["in"].head, q.tail = queue["in"].tail,
           Getc(t, q), out' = out
    PROVE  InAdvance /\ OutAdvance
  <1>1. Contents(q) = Contents(queue["in"]) /\ Contents(q) \in Seq(Keys) /\ got \in Seq(Keys)
    BY SameBytes, ZenonT(30) DEF ConsoleInv, InSound, TypeOK
  <1>2. CASE ~ intq_empty(q)
    <2> DEFINE b == q.buf[q.tail]
    <2>1. got' = Append(got, b) /\ queue' = [queue EXCEPT !["in"] = intq_getc(q)]
      BY <1>2 DEF Getc
    <2>2. queue'["in"] = intq_getc(q) /\ queue'["out"] = queue["out"]
      BY <2>1 DEF ConsoleInv, TypeOK
    <2>3. b \in Keys /\ Contents(q) = <<b>> \o Contents(intq_getc(q))
      BY <1>1, <1>2, GetIs, ZenonT(30)
    <2>4. <<b>> \in Seq(Keys) /\ got' = got \o <<b>>
      BY <1>1, <2>1, <2>3
    <2>5. Passes(Keys, Contents(queue["in"]), <<b>>, Contents(queue["in"])')
      BY <1>1, <2>2, <2>3 DEF Passes
    <2>6. InAdvance
      BY <2>4, <2>5, ZenonT(30) DEF InAdvance
    <2> QED BY <2>2, <2>6, Quiet, ZenonT(30)
  <1>3. CASE intq_empty(q)
    <2>1. Wait(t, "in", "not_empty", q) /\ got' = got
      BY <1>3 DEF Getc
    <2>2. /\ Contents(queue["in"])' = Contents(queue["in"])
          /\ Contents(queue["out"])' = Contents(queue["out"])
      BY <2>1, WaitKeeps
    <2> QED BY <2>1, <2>2, Quiet
  <1> QED BY <1>2, <1>3

LEMMA InputGetcAdvances ==
    ASSUME NEW t \in Threads, ConsoleInv, input_getc(t)
    PROVE  InAdvance /\ OutAdvance
  <1>1. out' = out /\ (Getc(t, queue["in"]) \/ Getc(t, Released("in")))
    BY DEF input_getc
  <1> QED BY <1>1, ReleasedIs, GetcAdvances

LEMMA OutPutContents ==
    ASSUME NEW q \in QueueType(OutBytes, Writers), NEW byte \in OutBytes, ~ intq_full(q)
    PROVE  Contents(intq_putc(q, byte)) = Append(Contents(q), byte)
  BY PutIs

LEMMA PutcAdvances ==
    ASSUME NEW t \in Writers, ConsoleInv, NEW q \in QueueType(OutBytes, Writers),
           q.buf = queue["out"].buf, q.head = queue["out"].head, q.tail = queue["out"].tail,
           left[t] > 0, Putc(t, q), out' = out, got' = got
    PROVE  InAdvance /\ OutAdvance
  <1>1. Contents(q) = Contents(queue["out"]) /\ Contents(q) \in Seq(OutBytes)
    BY SameBytes DEF ConsoleInv, OutSound
  <1>2. CASE ~ intq_full(q)
    <2> DEFINE b == Byte(t, left[t])
    <2>1. queue' = [queue EXCEPT !["out"] = intq_putc(q, b)]
      BY <1>2 DEF Putc
    <2>2. queue'["out"] = intq_putc(q, b) /\ queue'["in"] = queue["in"]
      BY <2>1 DEF ConsoleInv, TypeOK
    <2>3. left[t] \in 0..MsgLen
      BY DEF ConsoleInv, TypeOK, Threads
    <2>4. b \in OutBytes
      BY <2>3, CountAssumption DEF OutBytes
    <2>5. Contents(intq_putc(q, b)) = Append(Contents(q), b)
      BY <1>2, <2>4, OutPutContents
    <2> QED BY <1>1, <2>2, <2>4, <2>5, Quiet, PutAdvances
  <1>3. CASE intq_full(q)
    <2>1. Wait(t, "out", "not_full", q)
      BY <1>3 DEF Putc
    <2>2. /\ Contents(queue["in"])' = Contents(queue["in"])
          /\ Contents(queue["out"])' = Contents(queue["out"])
      BY <2>1, WaitKeeps
    <2> QED BY <2>2, Quiet, ZenonT(30)
  <1> QED BY <1>2, <1>3

\* A byte that is sent by polling while the transmit queue is empty.
LEMMA PollAdvances ==
    ASSUME ConsoleInv, mode = "POLL", NEW b \in OutBytes, out' = Append(out, b), UNCHANGED <<queue, got>>
    PROVE  InAdvance /\ OutAdvance
  <1>1. queue["out"] \in QueueType(OutBytes, Writers) /\ intq_empty(queue["out"]) /\ out \in Seq(OutBytes)
    BY DEF ConsoleInv, TypeOK, BootSound
  <1>2. Size(queue["out"]) = 0
    BY <1>1, SizeIs, ZenonT(30)
  <1>3. Contents(queue["out"]) = <<>>
    BY <1>2 DEF Contents
  <1>4. <<b>> \in Seq(OutBytes) /\ out' = out \o <<b>> /\ <<b>> \o <<>> = Append(<<>>, b)
    BY <1>1
  <1>5. Passes(OutBytes, <<>>, <<b>>, <<>>)
    BY <1>4 DEF Passes
  <1>6. OutAdvance
    BY <1>3, <1>4, <1>5, ZenonT(30) DEF OutAdvance
  <1> QED BY <1>6, Quiet

LEMMA SerialPutcAdvances ==
    ASSUME NEW t \in Threads, ConsoleInv, serial_putc(t)
    PROVE  InAdvance /\ OutAdvance
  <1>1. t \in Writers /\ left[t] > 0 /\ got' = got
    BY DEF serial_putc
  <1>2. CASE mode = "POLL" /\ out' = Append(out, Byte(t, left[t])) /\ queue' = queue
    <2>1. left[t] \in 0..MsgLen
      BY DEF ConsoleInv, TypeOK, Threads
    <2>2. Byte(t, left[t]) \in OutBytes
      BY <1>1, <2>1, CountAssumption DEF OutBytes
    <2> QED BY <1>1, <1>2, <2>2, PollAdvances
  <1>3. CASE out' = out /\ (Putc(t, queue["out"]) \/ Putc(t, Released("out")))
    BY <1>1, <1>3, ReleasedIs, PutcAdvances
  <1> QED BY <1>2, <1>3 DEF serial_putc

LEMMA SerialPutcOffAdvances == ConsoleInv /\ serial_putc_off => InAdvance /\ OutAdvance
  <1> SUFFICES ASSUME ConsoleInv, serial_putc_off PROVE InAdvance /\ OutAdvance
    OBVIOUS
  <1> DEFINE q == queue["out"]
             r == intq_getc(q)
             b == q.buf[q.tail]
  <1>1. got' = got /\ KernelByte \in OutBytes
    BY DEF serial_putc_off, OutBytes
  <1>2. /\ q \in QueueType(OutBytes, Writers) /\ Contents(q) \in Seq(OutBytes) /\ out \in Seq(OutBytes)
        /\ pc \in [Threads -> Places] /\ OutSound(q, pc)
    BY DEF ConsoleInv, TypeOK, OutSound, Places
  <1>3. CASE mode = "POLL"
    <2>1. out' = Append(out, KernelByte) /\ queue' = queue
      BY <1>3 DEF serial_putc_off
    <2> QED BY <1>1, <1>3, <2>1, PollAdvances
  <1>4. CASE mode # "POLL" /\ ~ intq_full(q)
    <2>1. out' = out /\ queue' = [queue EXCEPT !["out"] = intq_putc(q, KernelByte)]
      BY <1>4 DEF serial_putc_off
    <2>2. queue'["out"] = intq_putc(q, KernelByte) /\ queue'["in"] = queue["in"]
      BY <2>1 DEF ConsoleInv, TypeOK
    <2>3. Contents(intq_putc(q, KernelByte)) = Append(Contents(q), KernelByte)
      BY <1>1, <1>2, <1>4, OutPutContents
    <2> QED BY <1>1, <2>1, <2>2, <2>3, Quiet, PutAdvances
  <1>5. CASE mode # "POLL" /\ intq_full(q)
    <2>1. out' = Append(out, b) /\ queue' = [queue EXCEPT !["out"] = intq_putc(r, KernelByte)]
      BY <1>5 DEF serial_putc_off
    <2>2. queue'["out"] = intq_putc(r, KernelByte) /\ queue'["in"] = queue["in"]
      BY <2>1 DEF ConsoleInv, TypeOK
    <2>3. ~ intq_empty(q)
      BY <1>2, <1>5, FullNotEmpty
    <2>4. /\ r \in QueueType(OutBytes, Writers) /\ b \in OutBytes
          /\ Contents(q) = <<b>> \o Contents(r) /\ Contents(r) \in Seq(OutBytes)
      BY <1>2, <2>3, GetIs, ZenonT(30)
    <2>5. ~ intq_full(r)
      BY <1>2, <2>3, OutGet, ZenonT(30)
    <2>6. Contents(intq_putc(r, KernelByte)) = Append(Contents(r), KernelByte)
      BY <1>1, <2>4, <2>5, OutPutContents
    <2>7. <<b>> \in Seq(OutBytes) /\ out' = out \o <<b>>
      <3>1. out \in Seq(OutBytes) /\ b \in OutBytes /\ out' = Append(out, b)
        BY <1>2, <2>1, <2>4
      <3> QED BY <3>1
    <2>8. <<b>> \o Append(Contents(r), KernelByte) = Append(Contents(q), KernelByte)
      BY <1>1, <2>4, <2>7, ConcatAppend
    <2>9. Passes(OutBytes, Contents(q), <<b>>, Contents(queue["out"])')
      BY <1>1, <2>2, <2>6, <2>8 DEF Passes
    <2>10. OutAdvance
      BY <2>7, <2>9, ZenonT(30) DEF OutAdvance
    <2> QED BY <1>1, <2>2, <2>10, Quiet, ZenonT(30)
  <1> QED BY <1>3, <1>4, <1>5

\* The n oldest bytes of the transmit queue have been sent.
LEMMA DrainAdvances ==
    ASSUME ConsoleInv, NEW n \in Nat, n <= Size(queue["out"]),
           out' = out \o SubSeq(Contents(queue["out"]), 1, n),
           queue'["out"] = Drained(queue["out"], n)
    PROVE  OutAdvance
  <1> DEFINE q == queue["out"]
             d == SubSeq(Contents(q), 1, n)
  <1>1. q \in QueueType(OutBytes, Writers) /\ Contents(q) \in Seq(OutBytes)
    BY ZenonT(30) DEF ConsoleInv, TypeOK, OutSound
  <1>2. Contents(q) = d \o Contents(Drained(q, n)) /\ d \in Seq(OutBytes)
    <2>1. Contents(q) = d \o Contents(Drained(q, n))
      <3>1. \A x \in QueueType(OutBytes, Writers) :
               n <= Size(x) => Contents(x) = SubSeq(Contents(x), 1, n) \o Contents(Drained(x, n))
        BY DrainIs
      <3> QED BY <1>1, <3>1
    <2>2. d \in Seq(OutBytes)
      BY <1>1, DrainIs, ZenonT(30)
    <2> QED BY <2>1, <2>2
  <1>3. Passes(OutBytes, Contents(q), d, Contents(queue["out"])')
    BY <1>2 DEF Passes
  <1> QED BY <1>2, <1>3, ZenonT(30) DEF OutAdvance

LEMMA SerialFlushAdvances == ConsoleInv /\ serial_flush => InAdvance /\ OutAdvance
  <1> SUFFICES ASSUME ConsoleInv, serial_flush PROVE InAdvance /\ OutAdvance
    OBVIOUS
  <1> DEFINE q == queue["out"]
  <1>1. /\ out' = out \o Contents(q) /\ got' = got
        /\ queue' = [queue EXCEPT !["out"] = Drained(q, Size(q))]
    BY DEF serial_flush
  <1>2. queue'["out"] = Drained(q, Size(q)) /\ queue'["in"] = queue["in"]
    BY <1>1 DEF ConsoleInv, TypeOK
  <1>3. q \in QueueType(OutBytes, Writers) /\ Contents(q) \in Seq(OutBytes)
    BY DEF ConsoleInv, TypeOK, OutSound
  <1>4. Size(q) \in Nat /\ Len(Contents(q)) = Size(q)
    BY <1>3, FullNotEmpty, SizeIs, ZenonT(30)
  <1>5. SubSeq(Contents(q), 1, Size(q)) = Contents(q) /\ Size(q) <= Size(q)
    BY <1>3, <1>4, SubSeqFull
  <1> QED BY <1>1, <1>2, <1>4, <1>5, Quiet, DrainAdvances, ZenonT(30)

LEMMA SerialInterruptAdvances ==
    ASSUME NEW n \in 0..(INTQ_BUFSIZE - 1), ConsoleInv, serial_interrupt(n)
    PROVE  InAdvance /\ OutAdvance
  <1> DEFINE fetch == rbr # NoByte /\ ~ intq_full(queue["in"])
             inq == IF fetch THEN intq_putc(queue["in"], rbr) ELSE queue["in"]
  <1>1. /\ n <= Size(queue["out"])
        /\ out' = out \o SubSeq(Contents(queue["out"]), 1, n) /\ got' = got
        /\ queue'["in"] = inq
        /\ queue'["out"] = Drained(queue["out"], n)
    BY ZenonT(30) DEF serial_interrupt
  <1>2. n \in Nat
    BY SizeAssumption
  <1>3. OutAdvance
    BY <1>1, <1>2, DrainAdvances
  <1>4. rbr \in Keys \cup {NoByte} /\ queue["in"] \in QueueType(Keys, Readers)
    BY DEF ConsoleInv, TypeOK
  <1>5. CASE fetch
    <2>1. Contents(intq_putc(queue["in"], rbr)) = Append(Contents(queue["in"]), rbr)
      BY <1>4, <1>5, PutIs
    <2> QED BY <1>1, <1>3, <1>4, <1>5, <2>1, PutAdvances
  <1>6. CASE ~ fetch
    BY <1>1, <1>3, <1>6, Quiet
  <1> QED BY <1>5, <1>6

LEMMA NextAdvances == ConsoleInv /\ [Next]_vars => InAdvance /\ OutAdvance
  <1>1. \E t : t \in Threads
    BY ThreadsAssumption DEF Threads
  <1> QED BY <1>1, OthersAdvance, LockAcquireAdvances, KeyboardAdvances, InputGetcAdvances, SerialPutcAdvances,
             SerialPutcOffAdvances, SerialFlushAdvances, SerialInterruptAdvances DEF Next, Step

\* What a queue holds fits into it.
Fits ==
    /\ Contents(queue["in"]) \in Seq(Keys) /\ Len(Contents(queue["in"])) <= INTQ_BUFSIZE - 1
    /\ Contents(queue["out"]) \in Seq(OutBytes) /\ Len(Contents(queue["out"])) <= INTQ_BUFSIZE - 1
    /\ out \in Seq(OutBytes) /\ got \in Seq(Keys)

LEMMA InvFits == ConsoleInv => Fits
  <1> SUFFICES ASSUME ConsoleInv PROVE Fits
    OBVIOUS
  <1>1. /\ queue["in"] \in QueueType(Keys, Readers) /\ queue["out"] \in QueueType(OutBytes, Writers)
        /\ Contents(queue["in"]) \in Seq(Keys) /\ Contents(queue["out"]) \in Seq(OutBytes)
        /\ out \in Seq(OutBytes) /\ got \in Seq(Keys)
    BY ZenonT(30) DEF ConsoleInv, TypeOK, InSound, OutSound
  <1>2. Len(Contents(queue["in"])) \in Slots /\ Len(Contents(queue["out"])) \in Slots
    BY <1>1, SizeIs, ZenonT(30)
  <1> QED BY <1>1, <1>2, SizeAssumption DEF Slots, Fits

(***************************************************************************)
(* Console output is a FIFO: what serial_putc is given is sent once, in    *)
(* order, however polling, serial_flush and interrupts share the work.     *)
(***************************************************************************)
THEOREM OutputIsFifo == Spec => OutSpec
  <1>1. Init => OutFifo!Init
    <2> SUFFICES ASSUME Init PROVE OutFifo!Init
      OBVIOUS
    <2>1. out = <<>> /\ queue["out"] = intq_init
      BY DEF Init
    <2>2. Contents(intq_init) = <<>>
      BY DEF Contents, Size, intq_init
    <2> QED BY <2>1, <2>2 DEF OutFifo!Init
  <1>2. ConsoleInv /\ Fits /\ Fits' /\ [Next]_vars => [OutFifo!Next]_<<out \o Contents(queue["out"]), Len(out)>>
    <2> SUFFICES ASSUME ConsoleInv, Fits, Fits', [Next]_vars
                 PROVE  OutFifo!Next
      OBVIOUS
    <2> DEFINE c == Contents(queue["out"])
    <2>1. PICK d \in Seq(OutBytes) : out' = out \o d /\ Passes(OutBytes, c, d, c')
      BY NextAdvances DEF OutAdvance
    <2>2. /\ c \in Seq(OutBytes) /\ out \in Seq(OutBytes)
          /\ c' \in Seq(OutBytes) /\ Len(c') <= INTQ_BUFSIZE - 1
      BY DEF Fits
    <2>3. INTQ_BUFSIZE - 1 \in Nat
      BY SizeAssumption
    <2>4. /\ \/ (out \o d) \o c' = out \o c
             \/ \E b \in OutBytes : (out \o d) \o c' = Append(out \o c, b)
          /\ Len(out \o d) \in Len(out)..Len((out \o d) \o c')
          /\ Len((out \o d) \o c') - Len(out \o d) <= INTQ_BUFSIZE - 1
      BY <2>1, <2>2, <2>3, PassesIsFifoStep, ZenonT(30)
    <2> QED BY <2>1, <2>4, ZenonT(30) DEF OutFifo!Next
  <1> QED BY <1>1, <1>2, ConsoleInvariant, InvFits, PTL DEF Spec, OutSpec, OutFifo!Spec

(***************************************************************************)
(* Console input is a FIFO: input_getc returns once, in order, the keys    *)
(* that were not dropped because the buffer was full.                      *)
(***************************************************************************)
THEOREM InputIsFifo == Spec => InSpec
  <1>1. Init => InFifo!Init
    <2> SUFFICES ASSUME Init PROVE InFifo!Init
      OBVIOUS
    <2>1. got = <<>> /\ queue["in"] = intq_init
      BY DEF Init
    <2>2. Contents(intq_init) = <<>>
      BY DEF Contents, Size, intq_init
    <2> QED BY <2>1, <2>2 DEF InFifo!Init
  <1>2. ConsoleInv /\ Fits /\ Fits' /\ [Next]_vars => [InFifo!Next]_<<got \o Contents(queue["in"]), Len(got)>>
    <2> SUFFICES ASSUME ConsoleInv, Fits, Fits', [Next]_vars
                 PROVE  InFifo!Next
      OBVIOUS
    <2> DEFINE c == Contents(queue["in"])
    <2>1. PICK d \in Seq(Keys) : got' = got \o d /\ Passes(Keys, c, d, c')
      BY NextAdvances, ZenonT(30) DEF InAdvance
    <2>2. /\ c \in Seq(Keys) /\ got \in Seq(Keys)
          /\ c' \in Seq(Keys) /\ Len(c') <= INTQ_BUFSIZE - 1
      BY DEF Fits
    <2>3. INTQ_BUFSIZE - 1 \in Nat
      BY SizeAssumption
    <2>4. /\ \/ (got \o d) \o c' = got \o c
             \/ \E b \in Keys : (got \o d) \o c' = Append(got \o c, b)
          /\ Len(got \o d) \in Len(got)..Len((got \o d) \o c')
          /\ Len((got \o d) \o c') - Len(got \o d) <= INTQ_BUFSIZE - 1
      BY <2>1, <2>2, <2>3, PassesIsFifoStep, ZenonT(30)
    <2> QED BY <2>1, <2>4 DEF InFifo!Next
  <1> QED BY <1>1, <1>2, ConsoleInvariant, InvFits, PTL DEF Spec, InSpec, InFifo!Spec

=============================================================================
