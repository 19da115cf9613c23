--------------------------- MODULE ConsoleProofs ---------------------------
(***************************************************************************)
(* The console for any number of threads and any size of the queues: no    *)
(* wake-up is lost, the port's interrupts are enabled when they have to    *)
(* be.  ConsoleFifo.tla goes on from here.                                  *)
(***************************************************************************)
EXTENDS Console, SequenceTheorems, TLAPS

\* The provers of a leaf that names none, and their time.
USE SMTT(30), ZenonT(30)

-----------------------------------------------------------------------------
\* The circular buffer

\* A sequence that is c and one more element.
LEMMA AppendIs ==
    ASSUME NEW S, NEW c \in Seq(S), NEW d \in Seq(S), NEW e \in S,
           Len(d) = Len(c) + 1, d[Len(c) + 1] = e, \A i \in 1..Len(c) : d[i] = c[i]
    PROVE  d = Append(c, e)
  <1>1. Append(c, e) \in Seq(S) /\ Len(Append(c, e)) = Len(c) + 1
    OBVIOUS
  <1>2. \A i \in 1..Len(d) : d[i] = Append(c, e)[i]
    OBVIOUS
  <1> QED BY <1>1, <1>2, SeqEqual

\* The position after pos: one further, or back at the start.
LEMMA NextIs ==
    ASSUME NEW pos \in Slots
    PROVE  /\ next(pos) = IF pos = INTQ_BUFSIZE - 1 THEN 0 ELSE pos + 1
           /\ next(pos) \in Slots
  BY SizeAssumption DEF next, Slots

\* n positions after pos, where n is less than the size of the buffer.
LEMMA AheadIs ==
    ASSUME NEW pos \in Slots, NEW n \in Slots
    PROVE  /\ (pos + n) % INTQ_BUFSIZE = IF pos + n < INTQ_BUFSIZE THEN pos + n ELSE pos + n - INTQ_BUFSIZE
           /\ (pos + n) % INTQ_BUFSIZE \in Slots
  <1>1. pos \in Nat /\ n \in Nat /\ pos < INTQ_BUFSIZE /\ n < INTQ_BUFSIZE /\ INTQ_BUFSIZE \in Nat \ {0}
    BY SizeAssumption DEF Slots
  <1>2. CASE pos + n < INTQ_BUFSIZE
    BY <1>1, <1>2 DEF Slots
  <1>3. CASE pos + n >= INTQ_BUFSIZE
    <2>1. (pos + n) % INTQ_BUFSIZE = pos + n - INTQ_BUFSIZE
      BY <1>1, <1>3
    <2> QED BY <1>1, <1>3, <2>1 DEF Slots
  <1> QED BY <1>1, <1>2, <1>3

\* How full a queue can be, and what intq_empty and intq_full test.
LEMMA SizeIs ==
    ASSUME NEW B, NEW U, NEW q \in QueueType(B, U)
    PROVE  /\ Size(q) \in Slots
           /\ intq_empty(q) <=> Size(q) = 0
           /\ intq_full(q) <=> Size(q) = INTQ_BUFSIZE - 1
           /\ Contents(q) \in Seq(B \cup {NoByte})
           /\ Len(Contents(q)) = Size(q)
  <1>1. q.head \in Slots /\ q.tail \in Slots /\ q.buf \in [Slots -> B \cup {NoByte}]
    BY DEF QueueType
  <1>2. Size(q) \in Slots /\ (intq_empty(q) <=> Size(q) = 0)
    BY <1>1, SizeAssumption DEF Size, Slots, intq_empty
  <1>3. intq_full(q) <=> Size(q) = INTQ_BUFSIZE - 1
    <2>1. next(q.head) = IF q.head = INTQ_BUFSIZE - 1 THEN 0 ELSE q.head + 1
      BY <1>1, NextIs
    <2> QED BY <1>1, <2>1, SizeAssumption DEF Size, Slots, intq_full
  <1>4. \A i \in 1..Size(q) : Slot(q, i) \in Slots
    BY <1>1, <1>2, SizeAssumption DEF Slot, Slots
  <1>5. \A i \in 1..Size(q) : q.buf[Slot(q, i)] \in B \cup {NoByte}
    BY <1>1, <1>4
  <1>6. Size(q) \in Nat
    BY <1>2, SizeAssumption DEF Slots
  <1> QED BY <1>2, <1>3, <1>5, <1>6 DEF Contents

\* intq_putc adds a byte at the end.
LEMMA PutIs ==
    ASSUME NEW B, NEW U, NEW q \in QueueType(B, U), NEW byte \in B, ~ intq_full(q)
    PROVE  /\ intq_putc(q, byte) \in QueueType(B, U)
           /\ intq_putc(q, byte).lock = q.lock
           /\ intq_putc(q, byte).not_full = q.not_full
           /\ intq_putc(q, byte).not_empty = NoThread
           /\ ~ intq_empty(intq_putc(q, byte))
           /\ Contents(intq_putc(q, byte)) = Append(Contents(q), byte)
           /\ Contents(q) \in Seq(B) => Contents(intq_putc(q, byte)) \in Seq(B)
  <1> DEFINE p == intq_putc(q, byte)
  <1>1. q.head \in Slots /\ q.tail \in Slots /\ q.buf \in [Slots -> B \cup {NoByte}]
    BY DEF QueueType
  <1>2. /\ p \in QueueType(B, U)
        /\ p.buf = [q.buf EXCEPT ![q.head] = byte]
        /\ p.head = next(q.head)
        /\ p.tail = q.tail
        /\ p.lock = q.lock
        /\ p.not_full = q.not_full
        /\ p.not_empty = NoThread
    BY <1>1, NextIs, ZenonT(30) DEF QueueType, intq_putc
  <1>a. /\ INTQ_BUFSIZE \in Nat /\ INTQ_BUFSIZE > 1
        /\ q.head \in Nat /\ q.head < INTQ_BUFSIZE
        /\ q.tail \in Nat /\ q.tail < INTQ_BUFSIZE
    BY <1>1, SizeAssumption DEF Slots
  <1>b. p.head = IF q.head = INTQ_BUFSIZE - 1 THEN 0 ELSE q.head + 1
    BY <1>1, <1>2, NextIs
  <1>c. p.head # q.tail
    BY <1>2 DEF intq_full
  <1>3. Size(p) = Size(q) + 1
    BY <1>2, <1>a, <1>b, <1>c DEF Size
  <1>4. Size(q) \in Slots /\ Size(p) \in Slots /\ Size(q) \in Nat
    <2>1. Size(q) \in Slots
      BY SizeIs, ZenonT(30)
    <2>2. Size(p) \in Slots
      BY <1>2, SizeIs, ZenonT(30)
    <2> QED BY <2>1, <2>2, SizeAssumption DEF Slots
  <1>5. ~ intq_empty(p)
    BY <1>2, <1>c DEF intq_empty
  <1>6. Slot(p, Size(q) + 1) = q.head
    <2>1. CASE q.tail <= q.head
      BY <1>2, <1>a, <2>1 DEF Slot, Size
    <2>2. CASE q.tail > q.head
      BY <1>2, <1>a, <2>2 DEF Slot, Size
    <2> QED BY <1>a, <2>1, <2>2
  <1>7. \A i \in 1..Size(q) : Slot(p, i) = Slot(q, i) /\ Slot(q, i) # q.head /\ Slot(q, i) \in Slots
    BY <1>2, <1>a DEF Slot, Size, Slots
  <1>8. \A i \in 1..Size(q) : p.buf[Slot(p, i)] = q.buf[Slot(q, i)]
    BY <1>1, <1>2, <1>7
  <1>9. p.buf[Slot(p, Size(q) + 1)] = byte
    BY <1>1, <1>2, <1>6
  <1>10. /\ Contents(q) \in Seq(B \cup {NoByte}) /\ Len(Contents(q)) = Size(q)
         /\ Contents(p) \in Seq(B \cup {NoByte}) /\ Len(Contents(p)) = Size(q) + 1
    BY <1>2, <1>3, SizeIs
  <1>11. Contents(p) = Append(Contents(q), byte)
    <2>1. \A i \in 1..Size(q) : Contents(p)[i] = Contents(q)[i]
      BY <1>3, <1>4, <1>8 DEF Contents
    <2>2. Contents(p)[Size(q) + 1] = byte
      BY <1>3, <1>4, <1>9 DEF Contents
    <2>3. byte \in B \cup {NoByte}
      OBVIOUS
    <2> QED BY <1>10, <2>1, <2>2, <2>3, AppendIs
  <1>12. Contents(q) \in Seq(B) => Append(Contents(q), byte) \in Seq(B)
    OBVIOUS
  <1> QED BY <1>2, <1>5, <1>11, <1>12

\* n calls of intq_getc take the n oldest bytes.
LEMMA DrainIs ==
    ASSUME NEW B, NEW U, NEW q \in QueueType(B, U), NEW n \in Nat, n <= Size(q)
    PROVE  /\ Drained(q, n) \in QueueType(B, U)
           /\ Drained(q, n).lock = q.lock
           /\ Drained(q, n).not_full = IF n = 0 THEN q.not_full ELSE NoThread
           /\ Drained(q, n).not_empty = q.not_empty
           /\ Size(Drained(q, n)) = Size(q) - n
           /\ Contents(q) = SubSeq(Contents(q), 1, n) \o Contents(Drained(q, n))
           /\ Contents(q) \in Seq(B) =>
                 SubSeq(Contents(q), 1, n) \in Seq(B) /\ Contents(Drained(q, n)) \in Seq(B)
  <1> DEFINE p == Drained(q, n)
  <1>1. q.head \in Slots /\ q.tail \in Slots /\ q.buf \in [Slots -> B \cup {NoByte}]
    BY DEF QueueType
  <1>2. Size(q) \in Slots /\ n \in Slots /\ Size(q) \in Nat
    <2>1. Size(q) \in Slots
      BY SizeIs, ZenonT(30)
    <2> QED BY <2>1, SizeAssumption DEF Slots
  <1>3. /\ p \in QueueType(B, U)
        /\ p.buf = q.buf
        /\ p.head = q.head
        /\ p.tail = (q.tail + n) % INTQ_BUFSIZE
        /\ p.lock = q.lock
        /\ p.not_full = IF n = 0 THEN q.not_full ELSE NoThread
        /\ p.not_empty = q.not_empty
    BY <1>1, <1>2, AheadIs, ZenonT(30) DEF QueueType, Drained
  <1>4. p.tail = IF q.tail + n < INTQ_BUFSIZE THEN q.tail + n ELSE q.tail + n - INTQ_BUFSIZE
    BY <1>1, <1>2, <1>3, AheadIs, ZenonT(30)
  <1>a. /\ INTQ_BUFSIZE \in Nat /\ INTQ_BUFSIZE > 1
        /\ q.head \in Nat /\ q.head < INTQ_BUFSIZE
        /\ q.tail \in Nat /\ q.tail < INTQ_BUFSIZE
    BY <1>1, SizeAssumption DEF Slots
  <1>5. Size(p) = Size(q) - n
    <2>1. CASE q.tail <= q.head
      BY <1>3, <1>4, <1>a, <2>1 DEF Size
    <2>2. CASE q.tail > q.head
      BY <1>3, <1>4, <1>a, <2>2 DEF Size
    <2> QED BY <1>a, <2>1, <2>2
  <1>6. \A i \in 1..(Size(q) - n) : Slot(p, i) = Slot(q, i + n)
    <2> TAKE i \in 1..(Size(q) - n)
    <2>1. i \in Nat /\ i >= 1 /\ i + n <= Size(q)
      BY <1>2
    <2>2. q.tail + (i + n) - 1 < 2 * INTQ_BUFSIZE
      BY <1>a, <2>1 DEF Size
    <2>3. CASE q.tail + n < INTQ_BUFSIZE
      BY <1>4, <1>a, <2>1, <2>3 DEF Slot
    <2>4. CASE q.tail + n >= INTQ_BUFSIZE
      BY <1>4, <1>a, <2>1, <2>2, <2>4 DEF Slot
    <2> QED BY <1>a, <2>3, <2>4
  <1>7. \A i \in 1..(Size(q) - n) : Contents(p)[i] = Contents(q)[i + n]
    BY <1>2, <1>3, <1>5, <1>6 DEF Contents
  <1>8. /\ Contents(q) \in Seq(B \cup {NoByte}) /\ Len(Contents(q)) = Size(q)
        /\ Contents(p) \in Seq(B \cup {NoByte}) /\ Len(Contents(p)) = Size(q) - n
    BY <1>3, <1>5, SizeIs
  <1>9. Contents(q) = SubSeq(Contents(q), 1, n) \o Contents(p)
    <2>1. PICK c \in Seq(B \cup {NoByte}) : c = Contents(q)
      BY <1>8
    <2>2. PICK d \in Seq(B \cup {NoByte}) : d = Contents(p)
      BY <1>8
    <2>3. /\ Len(c) = Size(q) /\ Len(d) = Len(c) - n /\ n \in Nat /\ n <= Len(c)
          /\ \A i \in 1..(Len(c) - n) : d[i] = c[i + n]
      BY <1>2, <1>7, <1>8, <2>1, <2>2
    <2>4. d = SubSeq(c, n + 1, Len(c))
      BY <2>3
    <2>5. c = SubSeq(c, 1, n) \o d
      BY <2>3, <2>4, ConcatAdjacentSubSeq, SubSeqFull
    <2> QED BY <2>1, <2>2, <2>5
  <1>10. ASSUME Contents(q) \in Seq(B)
         PROVE  SubSeq(Contents(q), 1, n) \in Seq(B) /\ Contents(p) \in Seq(B)
    <2>1. PICK c \in Seq(B) : c = Contents(q)
      BY <1>10
    <2>2. SubSeq(c, 1, n) \in Seq(B)
      BY <1>8, <2>1
    <2>3. \A i \in 1..Size(p) : p.buf[Slot(p, i)] \in B
      <3>1. \A i \in 1..(Size(q) - n) : Contents(q)[i + n] \in B
        BY <1>2, <1>8, <2>1
      <3>2. \A i \in 1..(Size(q) - n) : Contents(p)[i] = p.buf[Slot(p, i)]
        BY <1>5 DEF Contents
      <3>3. \A i \in 1..(Size(q) - n) : p.buf[Slot(p, i)] \in B
        BY <1>7, <3>1, <3>2
      <3>4. 1..Size(p) = 1..(Size(q) - n)
        BY <1>5
      <3> QED BY <3>3, <3>4, ZenonT(30)
    <2>4. Size(p) \in Nat
      BY <1>2, <1>5
    <2>5. Contents(p) \in Seq(B)
      BY <2>3, <2>4 DEF Contents
    <2> QED BY <2>1, <2>2, <2>5
  <1> QED BY <1>3, <1>5, <1>9, <1>10

\* intq_getc takes the oldest byte.
LEMMA GetIs ==
    ASSUME NEW B, NEW U, NEW q \in QueueType(B, U), ~ intq_empty(q), Contents(q) \in Seq(B)
    PROVE  /\ intq_getc(q) \in QueueType(B, U)
           /\ intq_getc(q).lock = q.lock
           /\ intq_getc(q).not_full = NoThread
           /\ intq_getc(q).not_empty = q.not_empty
           /\ Size(intq_getc(q)) = Size(q) - 1
           /\ q.buf[q.tail] \in B
           /\ Contents(q) = <<q.buf[q.tail]>> \o Contents(intq_getc(q))
           /\ Contents(intq_getc(q)) \in Seq(B)
  <1>1. intq_getc(q) = Drained(q, 1)
    BY DEF intq_getc, Drained, next
  <1>2. Size(q) \in Nat /\ 1 <= Size(q)
    <2>1. Size(q) \in Slots /\ Size(q) # 0
      BY SizeIs, ZenonT(30)
    <2> QED BY <2>1, SizeAssumption DEF Slots
  <1>3. /\ Contents(q) = SubSeq(Contents(q), 1, 1) \o Contents(Drained(q, 1))
        /\ Drained(q, 1) \in QueueType(B, U)
        /\ Drained(q, 1).lock = q.lock
        /\ Drained(q, 1).not_full = NoThread
        /\ Drained(q, 1).not_empty = q.not_empty
        /\ Size(Drained(q, 1)) = Size(q) - 1
        /\ Contents(Drained(q, 1)) \in Seq(B)
    BY <1>2, DrainIs
  <1>4. Contents(q)[1] = q.buf[q.tail]
    <2>1. q.tail \in Nat /\ q.tail < INTQ_BUFSIZE
      BY SizeAssumption DEF QueueType, Slots
    <2>2. Slot(q, 1) = q.tail
      BY <2>1, SizeAssumption DEF Slot
    <2> QED BY <1>2, <2>2 DEF Contents
  <1>5. Contents(q)[1] \in B /\ SubSeq(Contents(q), 1, 1) = <<Contents(q)[1]>>
    <2>1. PICK c \in Seq(B) : c = Contents(q)
      OBVIOUS
    <2>2. Len(c) >= 1
      BY <1>2, <2>1, SizeIs, ZenonT(30)
    <2>3. c[1] \in B
      BY <2>2
    <2>4. SubSeq(c, 1, 1) \in Seq(B) /\ Len(SubSeq(c, 1, 1)) = 1 /\ SubSeq(c, 1, 1)[1] = c[1]
      BY <2>2, <2>3, SubSeqProperties
    <2>5. <<c[1]>> \in Seq(B) /\ Len(<<c[1]>>) = 1 /\ <<c[1]>>[1] = c[1]
      BY <2>3
    <2>6. \A i \in 1..1 : SubSeq(c, 1, 1)[i] = <<c[1]>>[i]
      BY <2>4, <2>5
    <2>7. SubSeq(c, 1, 1) = <<c[1]>>
      BY <2>4, <2>5, <2>6, SeqEqual, ZenonT(30)
    <2> QED BY <2>1, <2>3, <2>7
  <1> QED BY <1>1, <1>3, <1>4, <1>5

-----------------------------------------------------------------------------
(***************************************************************************)
(* The inductive invariant.  The part about a queue relates its state q to *)
(* the places p of the threads that use it, so that each operation on a    *)
(* queue has a lemma of its own.                                           *)
(***************************************************************************)

Places == {"user", "put", "lock", "wait", "woken"}

\* The input queue: its waiter is a reader, sleeps and holds the lock.
InSound(q, p) ==
    /\ q \in QueueType(Keys, Readers)
    /\ Contents(q) \in Seq(Keys)
    /\ q.not_full = NoThread
    /\ \A t \in Readers : p[t] = "wait" <=> q.not_empty = t
    /\ \A t \in Readers : p[t] \in {"wait", "woken"} => q.lock = t
    /\ q.not_empty # NoThread => intq_empty(q)

\* The output queue: its waiter is a writer, sleeps and holds the lock.
OutSound(q, p) ==
    /\ q \in QueueType(OutBytes, Writers)
    /\ Contents(q) \in Seq(OutBytes)
    /\ q.not_empty = NoThread
    /\ \A t \in Writers : p[t] = "wait" <=> q.not_full = t
    /\ \A t \in Writers : p[t] \in {"wait", "woken"} => q.lock = t
    /\ q.not_full # NoThread => intq_full(q)

\* intq_putc into the input buffer wakes the reader that waits.
LEMMA InPut ==
    ASSUME NEW q, NEW p \in [Threads -> Places], NEW byte \in Keys,
           InSound(q, p), ~ intq_full(q)
    PROVE  InSound(intq_putc(q, byte), signal(q.not_empty, p))
  <1> DEFINE r == intq_putc(q, byte)
             s == signal(q.not_empty, p)
  <1>1. /\ r \in QueueType(Keys, Readers) /\ Contents(r) \in Seq(Keys)
        /\ r.lock = q.lock /\ r.not_full = NoThread /\ r.not_empty = NoThread
    BY PutIs DEF InSound
  <1>2. \A t \in Readers : s[t] = IF t = q.not_empty THEN "woken" ELSE p[t]
    BY DEF signal, Threads
  <1>3. \A t \in Readers : s[t] # "wait" /\ t # NoThread
    BY <1>2, ThreadsAssumption DEF InSound
  <1>4. \A t \in Readers : s[t] \in {"wait", "woken"} => q.lock = t
    BY <1>2 DEF InSound
  <1> QED BY <1>1, <1>3, <1>4 DEF InSound

\* intq_getc from the input buffer.
LEMMA InGet ==
    ASSUME NEW q, NEW p \in [Threads -> Places], InSound(q, p), ~ intq_empty(q)
    PROVE  /\ InSound(intq_getc(q), p)
           /\ q.buf[q.tail] \in Keys
           /\ Contents(q) = <<q.buf[q.tail]>> \o Contents(intq_getc(q))
  <1>1. /\ q \in QueueType(Keys, Readers) /\ Contents(q) \in Seq(Keys)
        /\ q.not_empty = NoThread
    BY DEF InSound
  <1>2. /\ intq_getc(q) \in QueueType(Keys, Readers)
        /\ intq_getc(q).lock = q.lock
        /\ intq_getc(q).not_full = NoThread
        /\ intq_getc(q).not_empty = q.not_empty
        /\ q.buf[q.tail] \in Keys
        /\ Contents(q) = <<q.buf[q.tail]>> \o Contents(intq_getc(q))
        /\ Contents(intq_getc(q)) \in Seq(Keys)
    BY <1>1, GetIs, ZenonT(30)
  <1> QED BY <1>1, <1>2 DEF InSound

\* What a queue holds does not depend on who waits.
LEMMA SameBytes ==
    ASSUME NEW q, NEW r, r.buf = q.buf, r.head = q.head, r.tail = q.tail
    PROVE  /\ Contents(r) = Contents(q)
           /\ intq_empty(r) <=> intq_empty(q)
           /\ intq_full(r) <=> intq_full(q)
  BY DEF Contents, Size, Slot, intq_empty, intq_full

\* A reader that finds nothing is recorded in the queue, or waits for its lock.
LEMMA InWait ==
    ASSUME NEW q, NEW p \in [Threads -> Places], NEW t \in Readers,
           InSound(q, p), intq_empty(q), p[t] \notin {"wait", "woken"}
    PROVE  /\ InSound(q, [p EXCEPT ![t] = "lock"])
           /\ q.lock = NoThread =>
                 InSound([q EXCEPT !.lock = t, !["not_empty"] = t], [p EXCEPT ![t] = "wait"])
  <1> DEFINE r == [q EXCEPT !.lock = t, !["not_empty"] = t]
             s == [p EXCEPT ![t] = "wait"]
  <1>1. InSound(q, [p EXCEPT ![t] = "lock"])
    BY ThreadsAssumption DEF InSound, Threads
  <1>2. ASSUME q.lock = NoThread
        PROVE  InSound(r, s)
    <2>1. /\ r \in QueueType(Keys, Readers)
          /\ r.lock = t /\ r.not_empty = t /\ r.not_full = q.not_full
          /\ r.buf = q.buf /\ r.head = q.head /\ r.tail = q.tail
      BY ZenonT(30) DEF InSound, QueueType
    <2>2. Contents(r) = Contents(q) /\ intq_empty(r)
      BY <2>1, SameBytes, ZenonT(30)
    <2>3. \A u \in Readers : s[u] \in {"wait", "woken"} <=> u = t
      BY <1>2, ThreadsAssumption DEF InSound, Threads
    <2>4. s[t] = "wait"
      BY DEF Threads
    <2> QED BY <2>1, <2>2, <2>3, <2>4 DEF InSound
  <1> QED BY <1>1, <1>2

\* A reader that was woken releases the lock of the queue.
LEMMA InRelease ==
    ASSUME NEW q, NEW p \in [Threads -> Places], NEW t \in Readers,
           InSound(q, p), p[t] = "woken"
    PROVE  InSound([q EXCEPT !.lock = NoThread], [p EXCEPT ![t] = "user"])
  <1> DEFINE r == [q EXCEPT !.lock = NoThread]
             s == [p EXCEPT ![t] = "user"]
  <1>1. /\ r \in QueueType(Keys, Readers)
        /\ r.lock = NoThread /\ r.not_empty = q.not_empty /\ r.not_full = q.not_full
        /\ r.buf = q.buf /\ r.head = q.head /\ r.tail = q.tail
    BY DEF InSound, QueueType
  <1>2. Contents(r) = Contents(q) /\ (intq_empty(r) <=> intq_empty(q))
    BY <1>1, SameBytes, ZenonT(30)
  <1>3. \A u \in Readers : s[u] \notin {"wait", "woken"} /\ q.not_empty # u
    BY DEF InSound, Threads
  <1> QED BY <1>1, <1>2, <1>3 DEF InSound

\* Moves of threads that do not use a queue do not concern it.
LEMMA InOthers ==
    ASSUME NEW q, NEW p, NEW s, InSound(q, p), \A t \in Readers : s[t] = p[t]
    PROVE  InSound(q, s)
  BY DEF InSound

LEMMA OutOthers ==
    ASSUME NEW q, NEW p, NEW s, OutSound(q, p), \A t \in Writers : s[t] = p[t]
    PROVE  OutSound(q, s)
  BY DEF OutSound

\* intq_putc into the transmit queue.
LEMMA OutPut ==
    ASSUME NEW q, NEW p, NEW byte \in OutBytes, OutSound(q, p), ~ intq_full(q)
    PROVE  OutSound(intq_putc(q, byte), p) /\ ~ intq_empty(intq_putc(q, byte))
  <1> DEFINE r == intq_putc(q, byte)
  <1>1. /\ r \in QueueType(OutBytes, Writers) /\ Contents(r) \in Seq(OutBytes)
        /\ r.lock = q.lock /\ r.not_full = q.not_full /\ r.not_empty = NoThread
        /\ ~ intq_empty(r)
    BY PutIs DEF OutSound
  <1> QED BY <1>1 DEF OutSound

\* n calls of intq_getc on the transmit queue wake the writer that waits.
LEMMA OutDrain ==
    ASSUME NEW q, NEW p \in [Threads -> Places], NEW n \in Nat \ {0}, OutSound(q, p), n <= Size(q)
    PROVE  OutSound(Drained(q, n), signal(q.not_full, p))
  <1> DEFINE r == Drained(q, n)
             s == signal(q.not_full, p)
  <1>1. q \in QueueType(OutBytes, Writers) /\ Contents(q) \in Seq(OutBytes) /\ q.not_empty = NoThread
    BY DEF OutSound
  <1>2. /\ r \in QueueType(OutBytes, Writers) /\ Contents(r) \in Seq(OutBytes)
        /\ r.lock = q.lock /\ r.not_full = NoThread /\ r.not_empty = NoThread
    BY <1>1, DrainIs
  <1>3. \A t \in Writers : s[t] = IF t = q.not_full THEN "woken" ELSE p[t]
    BY DEF signal, Threads
  <1>4. \A t \in Writers : s[t] # "wait" /\ t # NoThread
    BY <1>3, ThreadsAssumption DEF OutSound
  <1>5. \A t \in Writers : s[t] \in {"wait", "woken"} => q.lock = t
    BY <1>3 DEF OutSound
  <1> QED BY <1>2, <1>4, <1>5 DEF OutSound

\* A writer that finds no room is recorded in the queue, or waits for its lock.
LEMMA OutWait ==
    ASSUME NEW q, NEW p \in [Threads -> Places], NEW t \in Writers,
           OutSound(q, p), intq_full(q), p[t] \notin {"wait", "woken"}
    PROVE  /\ OutSound(q, [p EXCEPT ![t] = "lock"])
           /\ q.lock = NoThread =>
                 OutSound([q EXCEPT !.lock = t, !["not_full"] = t], [p EXCEPT ![t] = "wait"])
  <1> DEFINE r == [q EXCEPT !.lock = t, !["not_full"] = t]
             s == [p EXCEPT ![t] = "wait"]
  <1>1. OutSound(q, [p EXCEPT ![t] = "lock"])
    BY ThreadsAssumption DEF OutSound, Threads
  <1>2. ASSUME q.lock = NoThread
        PROVE  OutSound(r, s)
    <2>1. /\ r \in QueueType(OutBytes, Writers)
          /\ r.lock = t /\ r.not_full = t /\ r.not_empty = q.not_empty
          /\ r.buf = q.buf /\ r.head = q.head /\ r.tail = q.tail
      BY ZenonT(30) DEF OutSound, QueueType
    <2>2. Contents(r) = Contents(q) /\ intq_full(r)
      BY <2>1, SameBytes, ZenonT(30)
    <2>3. \A u \in Writers : s[u] \in {"wait", "woken"} <=> u = t
      BY <1>2, ThreadsAssumption DEF OutSound, Threads
    <2>4. s[t] = "wait"
      BY DEF Threads
    <2> QED BY <2>1, <2>2, <2>3, <2>4 DEF OutSound
  <1> QED BY <1>1, <1>2

\* A writer that was woken releases the lock of the queue.
LEMMA OutRelease ==
    ASSUME NEW q, NEW p \in [Threads -> Places], NEW t \in Writers,
           OutSound(q, p), p[t] = "woken"
    PROVE  OutSound([q EXCEPT !.lock = NoThread], [p EXCEPT ![t] = "put"])
  <1> DEFINE r == [q EXCEPT !.lock = NoThread]
             s == [p EXCEPT ![t] = "put"]
  <1>1. /\ r \in QueueType(OutBytes, Writers)
        /\ r.lock = NoThread /\ r.not_empty = q.not_empty /\ r.not_full = q.not_full
        /\ r.buf = q.buf /\ r.head = q.head /\ r.tail = q.tail
    BY DEF OutSound, QueueType
  <1>2. Contents(r) = Contents(q) /\ (intq_full(r) <=> intq_full(q))
    BY <1>1, SameBytes, ZenonT(30)
  <1>3. \A u \in Writers : s[u] \notin {"wait", "woken"} /\ q.not_full # u
    BY DEF OutSound, Threads
  <1> QED BY <1>1, <1>2, <1>3 DEF OutSound

\* Until serial_init_queue the transmit queue is not used.
BootSound ==
    /\ started => mode = "QUEUE"
    /\ mode = "POLL" => intq_empty(queue["out"]) /\ queue["out"].lock = NoThread
    /\ keys \in 0..MaxKeys

ConsoleInv ==
    /\ TypeOK
    /\ InSound(queue["in"], pc)
    /\ OutSound(queue["out"], pc)
    /\ IerCovers
    /\ BootSound

-----------------------------------------------------------------------------
\* Every step preserves the invariant

\* What write_ier stores.
LEMMA IerIs ==
    ASSUME NEW inq, NEW outq
    PROVE  /\ write_ier(inq, outq) \subseteq {"XMIT", "RECV"}
           /\ "XMIT" \in write_ier(inq, outq) <=> ~ intq_empty(outq)
           /\ "RECV" \in write_ier(inq, outq) <=> ~ intq_full(inq)
  BY DEF write_ier

\* An empty queue is not full.
LEMMA EmptyNotFull ==
    ASSUME NEW B, NEW U, NEW q \in QueueType(B, U), intq_empty(q)
    PROVE  ~ intq_full(q)
  <1>1. Size(q) = 0
    BY SizeIs, ZenonT(30)
  <1>2. intq_full(q) <=> Size(q) = INTQ_BUFSIZE - 1
    BY SizeIs, ZenonT(30)
  <1> QED BY <1>1, <1>2, SizeAssumption

\* signal moves the thread x, if it is one.
LEMMA SignalIs ==
    ASSUME NEW p \in [Threads -> Places], NEW x
    PROVE  /\ signal(x, p) \in [Threads -> Places]
           /\ \A u \in Threads : u # x => signal(x, p)[u] = p[u]
  BY DEF signal, Places

LEMMA SignalNone ==
    ASSUME NEW p \in [Threads -> Places]
    PROVE  signal(NoThread, p) = p
  BY ThreadsAssumption DEF signal, Threads

\* Init
LEMMA InvInit == Init => ConsoleInv
  <1> SUFFICES ASSUME Init PROVE ConsoleInv
    OBVIOUS
  <1>1. /\ queue["in"] = intq_init /\ queue["out"] = intq_init
        /\ DOMAIN queue = {"in", "out"}
    BY DEF Init
  <1>2. 0 \in Slots
    BY SizeAssumption DEF Slots
  <1>3. \A B, U : intq_init \in QueueType(B, U)
    BY <1>2 DEF intq_init, QueueType, Slots
  <1>4. /\ intq_init.lock = NoThread /\ intq_init.not_full = NoThread /\ intq_init.not_empty = NoThread
        /\ intq_empty(intq_init) /\ Size(intq_init) = 0
    BY DEF intq_init, intq_empty, Size
  <1>5. \A B : Contents(intq_init) \in Seq(B)
    BY <1>4 DEF Contents
  <1>6. ~ intq_full(intq_init)
    BY <1>3, <1>4, EmptyNotFull
  <1>7. pc \in [Threads -> Places] /\ \A t \in Threads : pc[t] = "user" /\ t # NoThread
    BY ThreadsAssumption DEF Init, Places, Threads
  <1>8. InSound(queue["in"], pc) /\ OutSound(queue["out"], pc)
    BY <1>1, <1>3, <1>4, <1>5, <1>7 DEF InSound, OutSound, Threads
  <1>9. TypeOK
    <2>1. left \in [Threads -> 0..MsgLen]
      BY CountAssumption DEF Init
    <2>2. out \in Seq(OutBytes) /\ got \in Seq(Keys)
      BY DEF Init
    <2> QED BY <1>1, <1>3, <1>7, <2>1, <2>2, ZenonT(30) DEF Init, TypeOK, Places
  <1>10. IerCovers /\ BootSound
    BY <1>1, <1>4, CountAssumption DEF Init, IerCovers, BootSound
  <1> QED BY <1>8, <1>9, <1>10 DEF ConsoleInv

LEMMA InvStutter == ConsoleInv /\ UNCHANGED vars => ConsoleInv'
  BY DEF ConsoleInv, TypeOK, IerCovers, BootSound, vars

LEMMA InvReceive == ConsoleInv /\ receive => ConsoleInv'
  <1> SUFFICES ASSUME ConsoleInv, receive PROVE ConsoleInv'
    OBVIOUS
  <1>1. keys \in Keys /\ keys' \in 0..MaxKeys
    BY CountAssumption DEF ConsoleInv, BootSound, receive, Keys
  <1>2. TypeOK'
    BY <1>1 DEF ConsoleInv, TypeOK, receive
  <1>3. IerCovers' /\ BootSound'
    BY <1>1 DEF ConsoleInv, IerCovers, BootSound, receive
  <1> QED BY <1>2, <1>3 DEF ConsoleInv, receive

LEMMA InvSerialInit == ConsoleInv /\ (serial_init_queue \/ init_ier) => ConsoleInv'
  <1>1. ASSUME ConsoleInv, serial_init_queue PROVE ConsoleInv'
    BY <1>1 DEF ConsoleInv, TypeOK, IerCovers, BootSound, serial_init_queue
  <1>2. ASSUME ConsoleInv, init_ier PROVE ConsoleInv'
    <2>1. /\ ier' \subseteq {"XMIT", "RECV"}
          /\ "XMIT" \in ier' <=> ~ intq_empty(queue["out"])
          /\ "RECV" \in ier' <=> ~ intq_full(queue["in"])
      BY <1>2, IerIs DEF init_ier
    <2> QED BY <1>2, <2>1 DEF ConsoleInv, TypeOK, IerCovers, BootSound, init_ier
  <1> QED BY <1>1, <1>2

\* Taking and releasing the console lock moves a thread that no queue knows.
LEMMA InvConsoleLock ==
    ASSUME NEW t \in Threads, ConsoleInv, putbuf(t) \/ release_console(t)
    PROVE  ConsoleInv'
  <1>1. pc \in [Threads -> Places] /\ t # NoThread
    BY ThreadsAssumption DEF ConsoleInv, TypeOK, Places, Threads
  <1>2. PICK x \in {"user", "put"} : pc' = [pc EXCEPT ![t] = x]
    BY DEF putbuf, release_console
  <1>3. pc[t] \in {"user", "put"} /\ queue' = queue
    BY DEF putbuf, release_console
  <1>4. InSound(queue["in"], pc')
    BY <1>1, <1>2, <1>3 DEF ConsoleInv, InSound, Threads
  <1>5. OutSound(queue["out"], pc')
    BY <1>1, <1>2, <1>3 DEF ConsoleInv, OutSound, Threads
  <1>6. pc' \in [Threads -> Places]
    BY <1>1, <1>2 DEF Places
  <1>7. left' \in [Threads -> 0..MsgLen] /\ console_lock' \in Writers \cup {NoThread}
    BY CountAssumption DEF ConsoleInv, TypeOK, putbuf, release_console
  <1>8. TypeOK'
    BY <1>3, <1>6, <1>7, ZenonT(30) DEF ConsoleInv, TypeOK, Places, putbuf, release_console
  <1>9. IerCovers' /\ BootSound'
    BY <1>3 DEF ConsoleInv, IerCovers, BootSound, putbuf, release_console
  <1> QED BY <1>3, <1>4, <1>5, <1>8, <1>9 DEF ConsoleInv

\* A step that moves threads and changes the input queue, and nothing else of the console.
LEMMA InvInputSide ==
    ASSUME ConsoleInv, NEW inq, queue' = [queue EXCEPT !["in"] = inq],
           InSound(inq, pc'), pc' \in [Threads -> Places],
           \A t \in Writers : pc'[t] = pc[t],
           \/ ier' = ier /\ (intq_full(inq) <=> intq_full(queue["in"]))
           \/ serial_notify(inq, queue["out"]),
           rbr' \in Keys \cup {NoByte}, got' \in Seq(Keys), keys' \in 0..MaxKeys,
           UNCHANGED <<mode, started, out, left, console_lock>>
    PROVE  ConsoleInv'
  <1>1. DOMAIN queue = {"in", "out"}
    BY DEF ConsoleInv, TypeOK
  <1>2. queue'["in"] = inq /\ queue'["out"] = queue["out"] /\ DOMAIN queue' = {"in", "out"}
    BY <1>1
  <1>3. OutSound(queue["out"], pc')
    BY OutOthers DEF ConsoleInv
  <1>4. ier' \subseteq {"XMIT", "RECV"} /\ IerCovers'
    <2>1. CASE ier' = ier /\ (intq_full(inq) <=> intq_full(queue["in"]))
      BY <1>2, <2>1 DEF ConsoleInv, TypeOK, IerCovers
    <2>2. CASE serial_notify(inq, queue["out"]) /\ mode = "QUEUE"
      <3>1. ier' = write_ier(inq, queue["out"])
        BY <2>2 DEF serial_notify
      <3> QED BY <1>2, <3>1, IerIs DEF IerCovers
    <2>3. CASE serial_notify(inq, queue["out"]) /\ mode # "QUEUE"
      <3>1. ier' = ier /\ ~ started /\ intq_empty(queue["out"])
        BY <2>3 DEF serial_notify, ConsoleInv, BootSound, TypeOK
      <3> QED BY <1>2, <3>1 DEF IerCovers, ConsoleInv, TypeOK
    <2> QED BY <2>1, <2>2, <2>3
  <1>5. TypeOK'
    BY <1>2, <1>4 DEF ConsoleInv, TypeOK, InSound, Places
  <1>6. BootSound'
    BY <1>2 DEF ConsoleInv, BootSound
  <1> QED BY <1>2, <1>3, <1>4, <1>5, <1>6 DEF ConsoleInv

LEMMA InvKeyboard == ConsoleInv /\ keyboard_interrupt => ConsoleInv'
  <1> SUFFICES ASSUME ConsoleInv, keyboard_interrupt PROVE ConsoleInv'
    OBVIOUS
  <1>1. /\ keys \in Keys /\ keys' \in 0..MaxKeys
        /\ UNCHANGED <<mode, started, rbr, out, got, left, console_lock>>
    BY CountAssumption DEF ConsoleInv, BootSound, keyboard_interrupt, Keys
  <1>2. rbr' \in Keys \cup {NoByte} /\ got' \in Seq(Keys) /\ pc \in [Threads -> Places]
    BY <1>1 DEF ConsoleInv, TypeOK, Places
  <1>3. CASE intq_full(queue["in"])
    <2>1. UNCHANGED <<queue, pc, ier>>
      BY <1>3 DEF keyboard_interrupt
    <2> QED BY <1>1, <1>2, <2>1 DEF ConsoleInv, TypeOK, IerCovers, BootSound
  <1>4. CASE ~ intq_full(queue["in"])
    <2> DEFINE inq == intq_putc(queue["in"], keys)
    <2>1. /\ queue' = [queue EXCEPT !["in"] = inq]
          /\ pc' = signal(queue["in"].not_empty, pc)
          /\ serial_notify(inq, queue["out"])
      BY <1>4 DEF keyboard_interrupt
    <2>2. InSound(inq, pc')
      BY <1>1, <1>2, <1>4, <2>1, InPut DEF ConsoleInv
    <2>3. queue["in"].not_empty \in Readers \cup {NoThread}
      BY DEF ConsoleInv, TypeOK, QueueType
    <2>4. pc' \in [Threads -> Places] /\ \A t \in Writers : pc'[t] = pc[t]
      BY <1>2, <2>1, <2>3, SignalIs, ThreadsAssumption, ZenonT(30) DEF Threads
    <2> QED BY <1>1, <1>2, <2>1, <2>2, <2>4, InvInputSide, ZenonT(30)
  <1> QED BY <1>3, <1>4

\* A reader that has to wait, in a queue q whose lock it does not hold.
LEMMA InvReaderWaits ==
    ASSUME NEW t \in Readers, NEW q, NEW x \in {"user", "put", "lock"}, ConsoleInv,
           InSound(q, [pc EXCEPT ![t] = x]), intq_empty(q) <=> intq_empty(queue["in"]),
           intq_full(q) <=> intq_full(queue["in"]),
           intq_empty(q), Wait(t, "in", "not_empty", q),
           UNCHANGED <<mode, started, ier, rbr, out, got, left, console_lock, keys>>
    PROVE  ConsoleInv'
  <1> DEFINE p == [pc EXCEPT ![t] = x]
             r == [q EXCEPT !.lock = t, !["not_empty"] = t]
  <1>1. /\ pc \in [Threads -> Places] /\ p \in [Threads -> Places]
        /\ t \in Threads /\ p[t] = x /\ \A u \in Writers : u # t
    BY ThreadsAssumption DEF ConsoleInv, TypeOK, Places, Threads
  <1>2. rbr' \in Keys \cup {NoByte} /\ keys' \in 0..MaxKeys /\ got' \in Seq(Keys)
    BY DEF ConsoleInv, TypeOK, BootSound
  <1>3. /\ InSound(q, [p EXCEPT ![t] = "lock"])
        /\ q.lock = NoThread => InSound(r, [p EXCEPT ![t] = "wait"])
    BY <1>1, InWait, ZenonT(30)
  <1>4. /\ [p EXCEPT ![t] = "lock"] = [pc EXCEPT ![t] = "lock"]
        /\ [p EXCEPT ![t] = "wait"] = [pc EXCEPT ![t] = "wait"]
    BY <1>1
  <1>5. CASE q.lock = NoThread
    <2>1. queue' = [queue EXCEPT !["in"] = r] /\ pc' = [pc EXCEPT ![t] = "wait"]
      BY <1>5 DEF Wait
    <2>2. InSound(r, pc')
      BY <1>3, <1>4, <1>5, <2>1
    <2>3. r.buf = q.buf /\ r.head = q.head /\ r.tail = q.tail
      BY DEF InSound, QueueType
    <2>4. (intq_empty(r) <=> intq_empty(queue["in"])) /\ (intq_full(r) <=> intq_full(queue["in"]))
      BY <2>3, SameBytes, ZenonT(30)
    <2>5. pc' \in [Threads -> Places] /\ \A u \in Writers : pc'[u] = pc[u]
      BY <1>1, <2>1 DEF Places, Threads
    <2> QED BY <1>2, <2>1, <2>2, <2>4, <2>5, InvInputSide, ZenonT(30)
  <1>6. CASE q.lock # NoThread
    <2>1. queue' = [queue EXCEPT !["in"] = q] /\ pc' = [pc EXCEPT ![t] = "lock"]
      BY <1>6 DEF Wait
    <2>2. InSound(q, pc')
      BY <1>3, <1>4, <2>1
    <2>3. pc' \in [Threads -> Places] /\ \A u \in Writers : pc'[u] = pc[u]
      BY <1>1, <2>1 DEF Places, Threads
    <2> QED BY <1>2, <2>1, <2>2, <2>3, InvInputSide, ZenonT(30)
  <1> QED BY <1>5, <1>6

\* A reader's loop test, in a queue q whose lock it has released.
LEMMA InvGetc ==
    ASSUME NEW t \in Readers, NEW q, ConsoleInv, started,
           InSound(q, [pc EXCEPT ![t] = "user"]), intq_empty(q) <=> intq_empty(queue["in"]),
           intq_full(q) <=> intq_full(queue["in"]),
           Getc(t, q),
           UNCHANGED <<mode, started, rbr, out, left, console_lock, keys>>
    PROVE  ConsoleInv'
  <1> DEFINE p == [pc EXCEPT ![t] = "user"]
  <1>1. /\ pc \in [Threads -> Places] /\ p \in [Threads -> Places]
        /\ t \in Threads /\ p[t] = "user" /\ \A u \in Writers : u # t /\ p[u] = pc[u]
    BY ThreadsAssumption DEF ConsoleInv, TypeOK, Places, Threads
  <1>2. rbr' \in Keys \cup {NoByte} /\ keys' \in 0..MaxKeys /\ got \in Seq(Keys)
    BY DEF ConsoleInv, TypeOK, BootSound
  <1>3. CASE ~ intq_empty(q)
    <2>1. /\ got' = Append(got, q.buf[q.tail])
          /\ queue' = [queue EXCEPT !["in"] = intq_getc(q)]
          /\ pc' = signal(q.not_full, p)
          /\ serial_notify(intq_getc(q), queue["out"])
      BY <1>3 DEF Getc
    <2>2. pc' = p
      BY <1>1, <2>1, SignalNone, ZenonT(30) DEF InSound
    <2>3. InSound(intq_getc(q), p) /\ q.buf[q.tail] \in Keys
      BY <1>1, <1>3, InGet, ZenonT(30)
    <2>4. got' \in Seq(Keys)
      BY <1>2, <2>1, <2>3
    <2> QED BY <1>1, <1>2, <2>1, <2>2, <2>3, <2>4, InvInputSide, ZenonT(30)
  <1>4. CASE intq_empty(q)
    <2>1. Wait(t, "in", "not_empty", q) /\ UNCHANGED <<got, ier>>
      BY <1>4 DEF Getc
    <2> QED BY <1>4, <2>1, InvReaderWaits, ZenonT(30)
  <1> QED BY <1>3, <1>4

LEMMA InvInputGetc ==
    ASSUME NEW t \in Threads, ConsoleInv, input_getc(t)
    PROVE  ConsoleInv'
  <1>1. t \in Readers /\ started /\ UNCHANGED <<mode, started, rbr, out, left, console_lock, keys>>
    BY ThreadsAssumption DEF input_getc, Running
  <1>2. pc \in [Threads -> Places]
    BY DEF ConsoleInv, TypeOK, Places
  <1>3. CASE pc[t] = "user" /\ Getc(t, queue["in"])
    <2>1. [pc EXCEPT ![t] = "user"] = pc
      BY <1>2, <1>3
    <2> QED BY <1>1, <1>3, <2>1, InvGetc DEF ConsoleInv
  <1>4. CASE pc[t] = "woken" /\ Getc(t, Released("in"))
    <2>1. InSound(Released("in"), [pc EXCEPT ![t] = "user"])
      BY <1>1, <1>2, <1>4, InRelease, ZenonT(30) DEF ConsoleInv, Released
    <2>2. /\ Released("in").buf = queue["in"].buf /\ Released("in").head = queue["in"].head
          /\ Released("in").tail = queue["in"].tail
      BY DEF ConsoleInv, TypeOK, QueueType, Released
    <2>3. /\ intq_empty(Released("in")) <=> intq_empty(queue["in"])
          /\ intq_full(Released("in")) <=> intq_full(queue["in"])
      BY <2>2, SameBytes
    <2> QED BY <1>1, <1>4, <2>1, <2>3, InvGetc
  <1> QED BY <1>3, <1>4 DEF input_getc

\* A step that moves threads and changes the transmit queue, and nothing else of the console.
LEMMA InvOutputSide ==
    ASSUME ConsoleInv, NEW outq, queue' = [queue EXCEPT !["out"] = outq],
           OutSound(outq, pc'), pc' \in [Threads -> Places],
           \A t \in Readers : pc'[t] = pc[t],
           mode = "POLL" => intq_empty(outq) /\ outq.lock = NoThread,
           \/ ier' = ier /\ (intq_empty(queue["out"]) => intq_empty(outq))
           \/ ier' = write_ier(queue["in"], outq),
           out' \in Seq(OutBytes), left' \in [Threads -> 0..MsgLen],
           UNCHANGED <<mode, started, rbr, got, console_lock, keys>>
    PROVE  ConsoleInv'
  <1>1. DOMAIN queue = {"in", "out"}
    BY DEF ConsoleInv, TypeOK
  <1>2. queue'["out"] = outq /\ queue'["in"] = queue["in"] /\ DOMAIN queue' = {"in", "out"}
    BY <1>1
  <1>3. InSound(queue["in"], pc')
    BY InOthers DEF ConsoleInv
  <1>4. ier' \subseteq {"XMIT", "RECV"} /\ IerCovers'
    <2>1. CASE ier' = ier /\ (intq_empty(queue["out"]) => intq_empty(outq))
      BY <1>2, <2>1 DEF ConsoleInv, TypeOK, IerCovers
    <2>2. CASE ier' = write_ier(queue["in"], outq)
      BY <1>2, <2>2, IerIs DEF IerCovers
    <2> QED BY <2>1, <2>2
  <1>5. TypeOK'
    BY <1>2, <1>4 DEF ConsoleInv, TypeOK, OutSound, Places
  <1>6. BootSound'
    BY <1>2 DEF ConsoleInv, BootSound
  <1> QED BY <1>2, <1>3, <1>4, <1>5, <1>6 DEF ConsoleInv

\* A writer that has to wait, in a queue q whose lock it does not hold.
LEMMA InvWriterWaits ==
    ASSUME NEW t \in Writers, NEW q, NEW x \in {"user", "put", "lock"}, ConsoleInv,
           OutSound(q, [pc EXCEPT ![t] = x]), intq_empty(q) <=> intq_empty(queue["out"]),
           intq_full(q) <=> intq_full(queue["out"]),
           intq_full(q), Wait(t, "out", "not_full", q), mode = "QUEUE",
           UNCHANGED <<mode, started, ier, rbr, out, got, left, console_lock, keys>>
    PROVE  ConsoleInv'
  <1> DEFINE p == [pc EXCEPT ![t] = x]
             r == [q EXCEPT !.lock = t, !["not_full"] = t]
  <1>1. /\ pc \in [Threads -> Places] /\ p \in [Threads -> Places]
        /\ t \in Threads /\ p[t] = x /\ \A u \in Readers : u # t
    BY ThreadsAssumption DEF ConsoleInv, TypeOK, Places, Threads
  <1>2. out' \in Seq(OutBytes) /\ left' \in [Threads -> 0..MsgLen]
    BY DEF ConsoleInv, TypeOK, BootSound
  <1>3. /\ OutSound(q, [p EXCEPT ![t] = "lock"])
        /\ q.lock = NoThread => OutSound(r, [p EXCEPT ![t] = "wait"])
    BY <1>1, OutWait, ZenonT(30)
  <1>4. /\ [p EXCEPT ![t] = "lock"] = [pc EXCEPT ![t] = "lock"]
        /\ [p EXCEPT ![t] = "wait"] = [pc EXCEPT ![t] = "wait"]
    BY <1>1
  <1>5. CASE q.lock = NoThread
    <2>1. queue' = [queue EXCEPT !["out"] = r] /\ pc' = [pc EXCEPT ![t] = "wait"]
      BY <1>5 DEF Wait
    <2>2. OutSound(r, pc')
      BY <1>3, <1>4, <1>5, <2>1
    <2>3. r.buf = q.buf /\ r.head = q.head /\ r.tail = q.tail
      BY DEF OutSound, QueueType
    <2>4. (intq_empty(r) <=> intq_empty(queue["out"])) /\ (intq_full(r) <=> intq_full(queue["out"]))
      BY <2>3, SameBytes, ZenonT(30)
    <2>5. pc' \in [Threads -> Places] /\ \A u \in Readers : pc'[u] = pc[u]
      BY <1>1, <2>1 DEF Places, Threads
    <2> QED BY <1>2, <2>1, <2>2, <2>4, <2>5, InvOutputSide, ZenonT(30)
  <1>6. CASE q.lock # NoThread
    <2>1. queue' = [queue EXCEPT !["out"] = q] /\ pc' = [pc EXCEPT ![t] = "lock"]
      BY <1>6 DEF Wait
    <2>2. OutSound(q, pc')
      BY <1>3, <1>4, <2>1
    <2>3. pc' \in [Threads -> Places] /\ \A u \in Readers : pc'[u] = pc[u]
      BY <1>1, <2>1 DEF Places, Threads
    <2> QED BY <1>2, <2>1, <2>2, <2>3, InvOutputSide, ZenonT(30)
  <1> QED BY <1>5, <1>6

\* A writer's loop test, in a queue q whose lock it has released.
LEMMA InvPutc ==
    ASSUME NEW t \in Writers, NEW q, ConsoleInv, mode = "QUEUE", left[t] > 0,
           OutSound(q, [pc EXCEPT ![t] = "put"]), intq_empty(q) <=> intq_empty(queue["out"]),
           intq_full(q) <=> intq_full(queue["out"]),
           Putc(t, q),
           UNCHANGED <<mode, started, rbr, out, got, console_lock, keys>>
    PROVE  ConsoleInv'
  <1> DEFINE p == [pc EXCEPT ![t] = "put"]
  <1>1. /\ pc \in [Threads -> Places] /\ p \in [Threads -> Places]
        /\ t \in Threads /\ p[t] = "put" /\ \A u \in Readers : u # t /\ p[u] = pc[u]
    BY ThreadsAssumption DEF ConsoleInv, TypeOK, Places, Threads
  <1>2. out' \in Seq(OutBytes) /\ left \in [Threads -> 0..MsgLen] /\ left[t] \in 1..MsgLen
    BY <1>1, CountAssumption DEF ConsoleInv, TypeOK
  <1>3. CASE ~ intq_full(q)
    <2> DEFINE r == intq_putc(q, Byte(t, left[t]))
    <2>1. /\ left' = [left EXCEPT ![t] = @ - 1]
          /\ queue' = [queue EXCEPT !["out"] = r]
          /\ pc' = signal(q.not_empty, p)
          /\ ier' = write_ier(queue["in"], r)
      BY <1>3 DEF Putc
    <2>2. pc' = p
      BY <1>1, <2>1, SignalNone, ZenonT(30) DEF OutSound
    <2>3. Byte(t, left[t]) \in OutBytes
      BY <1>2 DEF OutBytes
    <2>4. OutSound(r, p)
      BY <1>3, <2>3, OutPut
    <2>5. left' \in [Threads -> 0..MsgLen]
      BY <1>1, <1>2, <2>1, CountAssumption
    <2> QED BY <1>1, <1>2, <2>1, <2>2, <2>4, <2>5, InvOutputSide, ZenonT(30)
  <1>4. CASE intq_full(q)
    <2>1. Wait(t, "out", "not_full", q) /\ UNCHANGED <<left, ier>>
      BY <1>4 DEF Putc
    <2> QED BY <1>4, <2>1, InvWriterWaits, ZenonT(30)
  <1> QED BY <1>3, <1>4

LEMMA InvSerialPutc ==
    ASSUME NEW t \in Threads, ConsoleInv, serial_putc(t)
    PROVE  ConsoleInv'
  <1>1. t \in Writers /\ left[t] > 0 /\ UNCHANGED <<mode, started, rbr, got, console_lock, keys>>
    BY DEF serial_putc
  <1>2. pc \in [Threads -> Places] /\ t # NoThread
    BY ThreadsAssumption DEF ConsoleInv, TypeOK, Places, Threads
  <1>3. CASE /\ pc[t] = "put" /\ mode = "POLL"
             /\ out' = Append(out, Byte(t, left[t]))
             /\ left' = [left EXCEPT ![t] = @ - 1]
             /\ UNCHANGED <<queue, ier, pc>>
    <2>1. left \in [Threads -> 0..MsgLen]
      BY DEF ConsoleInv, TypeOK
    <2>2. left[t] \in 1..MsgLen /\ left' \in [Threads -> 0..MsgLen]
      BY <1>1, <1>3, <2>1, CountAssumption
    <2>3. Byte(t, left[t]) \in OutBytes
      BY <1>1, <2>2 DEF OutBytes
    <2>4. out' \in Seq(OutBytes)
      BY <1>3, <2>3 DEF ConsoleInv, TypeOK
    <2> QED BY <1>1, <1>3, <2>2, <2>4 DEF ConsoleInv, TypeOK, IerCovers, BootSound
  <1>4. CASE pc[t] = "put" /\ mode = "QUEUE" /\ Putc(t, queue["out"]) /\ UNCHANGED out
    <2>1. [pc EXCEPT ![t] = "put"] = pc
      BY <1>2, <1>4
    <2> QED BY <1>1, <1>4, <2>1, InvPutc DEF ConsoleInv
  <1>5. CASE pc[t] = "woken" /\ Putc(t, Released("out")) /\ UNCHANGED out
    <2>1. OutSound(Released("out"), [pc EXCEPT ![t] = "put"])
      BY <1>1, <1>2, <1>5, OutRelease, ZenonT(30) DEF ConsoleInv, Released
    <2>2. /\ Released("out").buf = queue["out"].buf /\ Released("out").head = queue["out"].head
          /\ Released("out").tail = queue["out"].tail
      BY DEF ConsoleInv, TypeOK, QueueType, Released
    <2>3. /\ intq_empty(Released("out")) <=> intq_empty(queue["out"])
          /\ intq_full(Released("out")) <=> intq_full(queue["out"])
      BY <2>2, SameBytes
    <2>4. mode = "QUEUE"
      BY <1>1, <1>2, <1>5, ZenonT(30) DEF ConsoleInv, OutSound, BootSound, TypeOK
    <2> QED BY <1>1, <1>5, <2>1, <2>3, <2>4, InvPutc
  <1> QED BY <1>3, <1>4, <1>5 DEF serial_putc

LEMMA InvLockAcquire ==
    ASSUME NEW t \in Threads, ConsoleInv, lock_acquire(t)
    PROVE  ConsoleInv'
  <1>1. /\ pc[t] = "lock"
        /\ UNCHANGED <<mode, started, ier, rbr, out, got, left, console_lock, keys>>
    BY DEF lock_acquire
  <1>2. pc \in [Threads -> Places] /\ [pc EXCEPT ![t] = "lock"] = pc
    BY <1>1 DEF ConsoleInv, TypeOK, Places
  <1>3. CASE UNCHANGED <<queue, pc>>
    BY <1>1, <1>3 DEF ConsoleInv, TypeOK, IerCovers, BootSound
  <1>4. CASE t \in Readers /\ ~ UNCHANGED <<queue, pc>>
    <2>1. intq_empty(queue["in"]) /\ Wait(t, "in", "not_empty", queue["in"])
      BY <1>4, ThreadsAssumption DEF lock_acquire
    <2> QED BY <1>1, <1>2, <1>4, <2>1, InvReaderWaits, ZenonT(30) DEF ConsoleInv
  <1>5. CASE t \in Writers /\ ~ UNCHANGED <<queue, pc>>
    <2>1. intq_full(queue["out"]) /\ Wait(t, "out", "not_full", queue["out"])
      BY <1>5, ThreadsAssumption DEF lock_acquire
    <2>2. mode = "QUEUE"
      BY <2>1, EmptyNotFull DEF ConsoleInv, TypeOK, BootSound
    <2> QED BY <1>1, <1>2, <1>5, <2>1, <2>2, InvWriterWaits, ZenonT(30) DEF ConsoleInv
  <1> QED BY <1>3, <1>4, <1>5 DEF Threads

\* A full queue holds a byte.
LEMMA FullNotEmpty ==
    ASSUME NEW B, NEW U, NEW q \in QueueType(B, U)
    PROVE  /\ intq_full(q) => ~ intq_empty(q)
           /\ ~ intq_empty(q) => Size(q) \in Nat \ {0}
           /\ Size(q) \in Nat
  <1>1. Size(q) \in Slots /\ (intq_empty(q) <=> Size(q) = 0)
    BY SizeIs, ZenonT(30)
  <1>2. Size(q) \in Nat
    BY <1>1, SizeAssumption DEF Slots
  <1> QED BY <1>1, <1>2, EmptyNotFull

\* intq_getc on the transmit queue.
LEMMA OutGet ==
    ASSUME NEW q, NEW p \in [Threads -> Places], OutSound(q, p), ~ intq_empty(q)
    PROVE  /\ OutSound(intq_getc(q), signal(q.not_full, p))
           /\ q.buf[q.tail] \in OutBytes
           /\ ~ intq_full(intq_getc(q))
  <1>1. q \in QueueType(OutBytes, Writers) /\ Contents(q) \in Seq(OutBytes)
    BY DEF OutSound
  <1>2. intq_getc(q) = Drained(q, 1)
    BY DEF intq_getc, Drained, next
  <1>3. Size(q) \in Nat \ {0}
    BY <1>1, FullNotEmpty
  <1>4. OutSound(intq_getc(q), signal(q.not_full, p))
    BY <1>2, <1>3, OutDrain
  <1>5. q.buf[q.tail] \in OutBytes /\ Size(intq_getc(q)) = Size(q) - 1 /\ intq_getc(q) \in QueueType(OutBytes, Writers)
    BY <1>1, GetIs, ZenonT(30)
  <1>6. Size(q) \in Slots /\ (intq_full(intq_getc(q)) <=> Size(q) - 1 = INTQ_BUFSIZE - 1)
    BY <1>1, <1>5, SizeIs, ZenonT(30)
  <1>7. ~ intq_full(intq_getc(q))
    BY <1>6, SizeAssumption DEF Slots
  <1> QED BY <1>4, <1>5, <1>7

LEMMA InvSerialPutcOff == ConsoleInv /\ serial_putc_off => ConsoleInv'
  <1> SUFFICES ASSUME ConsoleInv, serial_putc_off PROVE ConsoleInv'
    OBVIOUS
  <1> DEFINE q == queue["out"]
  <1>1. /\ UNCHANGED <<mode, started, rbr, got, left, console_lock, keys>>
        /\ KernelByte \in OutBytes
    BY DEF serial_putc_off, OutBytes
  <1>2. /\ pc \in [Threads -> Places] /\ out \in Seq(OutBytes) /\ left' \in [Threads -> 0..MsgLen]
        /\ q \in QueueType(OutBytes, Writers) /\ OutSound(q, pc)
    BY <1>1 DEF ConsoleInv, TypeOK, Places
  <1>3. CASE mode = "POLL"
    <2>1. out' = Append(out, KernelByte) /\ UNCHANGED <<queue, pc, ier>>
      BY <1>3 DEF serial_putc_off
    <2>2. out' \in Seq(OutBytes)
      BY <1>1, <1>2, <2>1
    <2> QED BY <1>1, <2>1, <2>2 DEF ConsoleInv, TypeOK, IerCovers, BootSound
  <1>4. CASE mode # "POLL" /\ ~ intq_full(q)
    <2> DEFINE r == intq_putc(q, KernelByte)
    <2>1. /\ out' = out /\ queue' = [queue EXCEPT !["out"] = r]
          /\ pc' = signal(NoThread, pc) /\ ier' = write_ier(queue["in"], r)
      BY <1>4 DEF serial_putc_off
    <2>2. pc' = pc
      BY <1>2, <2>1, SignalNone
    <2>3. OutSound(r, pc)
      BY <1>1, <1>2, <1>4, OutPut
    <2> QED BY <1>1, <1>2, <1>4, <2>1, <2>2, <2>3, InvOutputSide, ZenonT(30)
  <1>5. CASE mode # "POLL" /\ intq_full(q)
    <2> DEFINE r == intq_putc(intq_getc(q), KernelByte)
    <2>1. /\ out' = Append(out, q.buf[q.tail]) /\ queue' = [queue EXCEPT !["out"] = r]
          /\ pc' = signal(q.not_full, pc) /\ ier' = write_ier(queue["in"], r)
      BY <1>5 DEF serial_putc_off
    <2>2. ~ intq_empty(q)
      BY <1>2, <1>5, FullNotEmpty
    <2>3. OutSound(intq_getc(q), pc') /\ q.buf[q.tail] \in OutBytes /\ ~ intq_full(intq_getc(q))
      BY <1>2, <2>1, <2>2, OutGet
    <2>4. OutSound(r, pc')
      BY <1>1, <2>3, OutPut
    <2>5. out' \in Seq(OutBytes)
      BY <1>2, <2>1, <2>3
    <2>6. q.not_full \in Writers \cup {NoThread}
      BY <1>2 DEF QueueType
    <2>7. pc' \in [Threads -> Places] /\ \A t \in Readers : pc'[t] = pc[t]
      BY <1>2, <2>1, <2>6, SignalIs, ThreadsAssumption, ZenonT(30) DEF Threads
    <2> QED BY <1>1, <1>2, <1>5, <2>1, <2>4, <2>5, <2>7, InvOutputSide, ZenonT(30)
  <1> QED BY <1>3, <1>4, <1>5

LEMMA InvSerialFlush == ConsoleInv /\ serial_flush => ConsoleInv'
  <1> SUFFICES ASSUME ConsoleInv, serial_flush PROVE ConsoleInv'
    OBVIOUS
  <1> DEFINE q == queue["out"]
             r == Drained(q, Size(q))
  <1>1. /\ ~ intq_empty(q) /\ out' = out \o Contents(q)
        /\ queue' = [queue EXCEPT !["out"] = r] /\ pc' = signal(q.not_full, pc) /\ ier' = ier
        /\ UNCHANGED <<mode, started, rbr, got, left, console_lock, keys>>
    BY DEF serial_flush
  <1>2. /\ pc \in [Threads -> Places] /\ out \in Seq(OutBytes) /\ left' \in [Threads -> 0..MsgLen]
        /\ q \in QueueType(OutBytes, Writers) /\ OutSound(q, pc) /\ mode # "POLL"
    BY <1>1 DEF ConsoleInv, TypeOK, Places, BootSound
  <1>3. Size(q) \in Nat \ {0}
    BY <1>1, <1>2, FullNotEmpty
  <1>4. OutSound(r, pc')
    <2>1. Size(q) <= Size(q)
      BY <1>3
    <2> QED BY <1>1, <1>2, <1>3, <2>1, OutDrain, ZenonT(30)
  <1>5. out' \in Seq(OutBytes)
    BY <1>1, <1>2 DEF OutSound
  <1>6. q.not_full \in Writers \cup {NoThread}
    BY <1>2 DEF QueueType
  <1>7. pc' \in [Threads -> Places] /\ \A t \in Readers : pc'[t] = pc[t]
    BY <1>1, <1>2, <1>6, SignalIs, ThreadsAssumption, ZenonT(30) DEF Threads
  <1> QED BY <1>1, <1>2, <1>4, <1>5, <1>7, InvOutputSide, ZenonT(30)

LEMMA InvSerialInterrupt ==
    ASSUME NEW n \in 0..(INTQ_BUFSIZE - 1), ConsoleInv, serial_interrupt(n)
    PROVE  ConsoleInv'
  <1> DEFINE fetch == rbr # NoByte /\ ~ intq_full(queue["in"])
             inq == IF fetch THEN intq_putc(queue["in"], rbr) ELSE queue["in"]
             outq == Drained(queue["out"], n)
             p == signal(IF n > 0 THEN queue["out"].not_full ELSE NoThread, pc)
  <1>1. /\ n <= Size(queue["out"])
        /\ rbr' = IF fetch THEN NoByte ELSE rbr
        /\ out' = out \o SubSeq(Contents(queue["out"]), 1, n)
        /\ queue' = [k \in {"in", "out"} |-> IF k = "in" THEN inq ELSE outq]
        /\ pc' = signal(IF fetch THEN queue["in"].not_empty ELSE NoThread, p)
        /\ ier' = write_ier(inq, outq)
        /\ UNCHANGED <<mode, started, got, left, console_lock, keys>>
    BY ZenonT(30) DEF serial_interrupt
  <1>2. /\ pc \in [Threads -> Places] /\ out \in Seq(OutBytes) /\ rbr \in Keys \cup {NoByte}
        /\ queue["out"] \in QueueType(OutBytes, Writers) /\ OutSound(queue["out"], pc)
        /\ queue["in"] \in QueueType(Keys, Readers) /\ InSound(queue["in"], pc)
        /\ n \in Nat
    BY SizeAssumption DEF ConsoleInv, TypeOK, Places
  <1>n. /\ n \in Nat /\ n <= Size(queue["out"]) /\ Contents(queue["out"]) \in Seq(OutBytes)
        /\ out \in Seq(OutBytes) /\ out' = out \o SubSeq(Contents(queue["out"]), 1, n)
    BY <1>1, <1>2 DEF OutSound
  <1>d. /\ outq \in QueueType(OutBytes, Writers) /\ outq.lock = queue["out"].lock
        /\ outq.not_full = (IF n = 0 THEN queue["out"].not_full ELSE NoThread)
        /\ outq.not_empty = queue["out"].not_empty
        /\ Size(outq) = Size(queue["out"]) - n
        /\ SubSeq(Contents(queue["out"]), 1, n) \in Seq(OutBytes) /\ Contents(outq) \in Seq(OutBytes)
    <2>1. ASSUME NEW q \in QueueType(OutBytes, Writers), n <= Size(q)
          PROVE  /\ Drained(q, n) \in QueueType(OutBytes, Writers) /\ Drained(q, n).lock = q.lock
                 /\ Drained(q, n).not_full = (IF n = 0 THEN q.not_full ELSE NoThread)
                 /\ Drained(q, n).not_empty = q.not_empty
                 /\ Size(Drained(q, n)) = Size(q) - n
                 /\ Contents(q) \in Seq(OutBytes) =>
                      SubSeq(Contents(q), 1, n) \in Seq(OutBytes) /\ Contents(Drained(q, n)) \in Seq(OutBytes)
      <3>1. n \in Nat
        BY <1>n
      <3> QED BY <2>1, <3>1, DrainIs
    <2>2. queue["out"] \in QueueType(OutBytes, Writers)
      BY <1>2
    <2> QED BY <1>n, <2>1, <2>2, ZenonT(30)
  <1>3. /\ queue["out"].not_full \in Writers \cup {NoThread}
        /\ queue["in"].not_empty \in Readers \cup {NoThread}
    BY <1>2 DEF QueueType
  <1>4. p \in [Threads -> Places] /\ \A t \in Readers : p[t] = pc[t]
    <2> DEFINE x == IF n > 0 THEN queue["out"].not_full ELSE NoThread
    <2>1. x \notin Readers
      BY <1>3, ThreadsAssumption
    <2>2. p \in [Threads -> Places] /\ \A u \in Threads : u # x => p[u] = pc[u]
      BY <1>2, SignalIs
    <2> QED BY <2>1, <2>2 DEF Threads
  <1>5. pc' \in [Threads -> Places] /\ \A t \in Writers : pc'[t] = p[t]
    <2> DEFINE x == IF fetch THEN queue["in"].not_empty ELSE NoThread
    <2>1. x \notin Writers
      BY <1>3, ThreadsAssumption
    <2>2. pc' \in [Threads -> Places] /\ \A u \in Threads : u # x => pc'[u] = p[u]
      BY <1>1, <1>4, SignalIs
    <2> QED BY <2>1, <2>2 DEF Threads
  <1>6. InSound(inq, pc')
    <2>1. InSound(queue["in"], p)
      BY <1>2, <1>4, InOthers
    <2>2. CASE fetch
      BY <1>1, <1>2, <1>4, <2>1, <2>2, InPut, ZenonT(30)
    <2>3. CASE ~ fetch
      BY <1>1, <1>4, <2>1, <2>3, SignalNone
    <2> QED BY <2>2, <2>3
  <1>7. OutSound(outq, p)
    <2>1. CASE n > 0
      <3>1. n \in Nat \ {0}
        BY <1>n, <2>1
      <3>2. p = signal(queue["out"].not_full, pc)
        BY <2>1
      <3>3. OutSound(queue["out"], pc) /\ pc \in [Threads -> Places]
        BY <1>2
      <3>4. OutSound(outq, signal(queue["out"].not_full, pc))
        BY <1>n, <3>1, <3>3, OutDrain, ZenonT(30)
      <3> QED BY <3>2, <3>4
    <2>2. CASE n = 0
      <3>1. /\ outq \in QueueType(OutBytes, Writers) /\ outq.lock = queue["out"].lock
            /\ outq.not_full = queue["out"].not_full /\ outq.not_empty = queue["out"].not_empty
            /\ Size(outq) = Size(queue["out"]) - 0 /\ Contents(outq) \in Seq(OutBytes)
        BY <1>d, <2>2
      <3>2. Size(outq) = Size(queue["out"])
        BY <1>2, <3>1, FullNotEmpty
      <3>3. intq_full(outq) <=> intq_full(queue["out"])
        BY <1>2, <3>1, <3>2, SizeIs, ZenonT(30)
      <3>4. p = pc
        BY <1>2, <2>2, SignalNone
      <3> QED BY <1>2, <3>1, <3>3, <3>4, ZenonT(30) DEF OutSound
    <2> QED BY <1>2, <2>1, <2>2
  <1>8. OutSound(outq, pc')
    BY <1>5, <1>7, OutOthers
  <1>9. queue'["in"] = inq /\ queue'["out"] = outq /\ DOMAIN queue' = {"in", "out"}
    BY <1>1
  <1>10. ier' \subseteq {"XMIT", "RECV"} /\ IerCovers'
    BY <1>1, <1>9, IerIs DEF IerCovers
  <1>11. out' \in Seq(OutBytes)
    BY <1>n, <1>d
  <1>12. TypeOK'
    BY <1>1, <1>2, <1>5, <1>6, <1>8, <1>9, <1>10, <1>11, ZenonT(30) DEF ConsoleInv, TypeOK, InSound, OutSound, Places
  <1>13. BootSound'
    <2>1. ASSUME mode = "POLL"
          PROVE  intq_empty(outq) /\ outq.lock = NoThread
      <3>1. intq_empty(queue["out"]) /\ queue["out"].lock = NoThread
        BY <2>1 DEF ConsoleInv, BootSound
      <3>2. Size(queue["out"]) = 0
        BY <1>2, <3>1, SizeIs, ZenonT(30)
      <3>3. outq \in QueueType(OutBytes, Writers) /\ outq.lock = NoThread /\ Size(outq) = Size(queue["out"]) - n
        BY <1>d, <3>1
      <3>4. Size(outq) = 0
        BY <1>n, <3>2, <3>3
      <3> QED BY <3>3, <3>4, SizeIs, ZenonT(30)
    <2> QED BY <1>1, <1>9, <2>1, ZenonT(30) DEF ConsoleInv, BootSound
  <1> QED BY <1>6, <1>8, <1>9, <1>10, <1>12, <1>13 DEF ConsoleInv

LEMMA InvNext == ConsoleInv /\ [Next]_vars => ConsoleInv'
  BY InvStutter, InvReceive, InvSerialInit, InvConsoleLock, InvKeyboard, InvInputGetc, InvSerialPutc,
     InvLockAcquire, InvSerialPutcOff, InvSerialFlush, InvSerialInterrupt DEF Next, Step

\* The invariant is one.
THEOREM ConsoleInvariant == Spec => []ConsoleInv
  BY InvInit, InvNext, PTL DEF Spec

(***************************************************************************)
(* No wake-up is lost, with any number of readers and writers and any      *)
(* size of the queues: intq.c's wait and signal.                           *)
(***************************************************************************)
THEOREM NoWakeupLost == Spec => []WaiterSound
  <1>1. ConsoleInv => WaiterSound
    BY ZenonT(30) DEF ConsoleInv, InSound, OutSound, WaiterSound
  <1> QED BY <1>1, ConsoleInvariant, PTL

(***************************************************************************)
(* The serial port's interrupts are enabled whenever one is needed:        *)
(* write_ier is called after every change that matters.                    *)
(***************************************************************************)
THEOREM InterruptsEnabled == Spec => []IerCovers
  <1>1. ConsoleInv => IerCovers
    BY DEF ConsoleInv
  <1> QED BY <1>1, ConsoleInvariant, PTL

\* The types of the console's state.
THEOREM ConsoleTypes == Spec => []TypeOK
  <1>1. ConsoleInv => TypeOK
    BY DEF ConsoleInv
  <1> QED BY <1>1, ConsoleInvariant, PTL
=============================================================================
