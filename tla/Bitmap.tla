------------------------------ MODULE Bitmap ------------------------------
(***************************************************************************)
(* lib/kernel/bitmap.c: an array of bits kept in words of ELEM_BITS bits.  *)
(* The bits of the last word past bit_cnt hold whatever malloc returned.   *)
(***************************************************************************)
EXTENDS Integers, Sequences, FiniteSets

CONSTANT ELEM_BITS

BITMAP_ERROR == -1

elem_idx(i) == i \div ELEM_BITS

bit_mask(i) == 2 ^ (i % ELEM_BITS)

elem_cnt(n) == (n + ELEM_BITS - 1) \div ELEM_BITS

\* Is the single bit of mask set in word w?
HasBit(w, mask) == (w \div mask) % 2 = 1

last_mask(b) ==
    LET last_bits == b.bit_cnt % ELEM_BITS
    IN  IF last_bits # 0 THEN 2 ^ last_bits - 1 ELSE 2 ^ ELEM_BITS - 1

bitmap_test(b, i) == HasBit(b.bits[elem_idx(i)], bit_mask(i))

\* w | mask
bitmap_mark(b, i) ==
    [b EXCEPT !.bits[elem_idx(i)] = IF HasBit(@, bit_mask(i)) THEN @ ELSE @ + bit_mask(i)]

\* w & ~mask
bitmap_reset(b, i) ==
    [b EXCEPT !.bits[elem_idx(i)] = IF HasBit(@, bit_mask(i)) THEN @ - bit_mask(i) ELSE @]

\* w ^ mask
bitmap_flip(b, i) ==
    [b EXCEPT !.bits[elem_idx(i)] =
        IF HasBit(@, bit_mask(i)) THEN @ - bit_mask(i) ELSE @ + bit_mask(i)]

bitmap_set(b, i, value) == IF value THEN bitmap_mark(b, i) ELSE bitmap_reset(b, i)

RECURSIVE bitmap_set_multiple(_, _, _, _)
bitmap_set_multiple(b, start, cnt, value) ==
    IF cnt = 0 THEN b
    ELSE bitmap_set_multiple(bitmap_set(b, start, value), start + 1, cnt - 1, value)

bitmap_set_all(b, value) == bitmap_set_multiple(b, 0, b.bit_cnt, value)

\* bitmap_create and bitmap_create_in_buf over memory that holds `garbage'.
bitmap_create(bit_cnt, garbage) ==
    bitmap_set_all([bit_cnt |-> bit_cnt, bits |-> garbage], FALSE)

bitmap_count(b, start, cnt, value) ==
    Cardinality({i \in start..(start + cnt - 1) : bitmap_test(b, i) = value})

bitmap_contains(b, start, cnt, value) ==
    \E i \in start..(start + cnt - 1) : bitmap_test(b, i) = value

bitmap_none(b, start, cnt) == ~ bitmap_contains(b, start, cnt, TRUE)

bitmap_all(b, start, cnt) == ~ bitmap_contains(b, start, cnt, FALSE)

\* The loop of bitmap_scan from i to last.
RECURSIVE ScanFrom(_, _, _, _, _)
ScanFrom(b, i, last, cnt, value) ==
    IF i > last THEN BITMAP_ERROR
    ELSE IF ~ bitmap_contains(b, i, cnt, ~ value) THEN i
         ELSE ScanFrom(b, i + 1, last, cnt, value)

\* Mutant: the last place is missed.
bitmap_scan_short(b, start, cnt, value) ==
    IF cnt <= b.bit_cnt THEN ScanFrom(b, start, b.bit_cnt - cnt - 1, cnt, value) ELSE BITMAP_ERROR

bitmap_scan(b, start, cnt, value) ==
    IF cnt <= b.bit_cnt THEN ScanFrom(b, start, b.bit_cnt - cnt, cnt, value) ELSE BITMAP_ERROR

\* The bitmap after the call and the index it returns.
bitmap_scan_and_flip(b, start, cnt, value) ==
    LET i == bitmap_scan(b, start, cnt, value)
    IN  <<IF i # BITMAP_ERROR THEN bitmap_set_multiple(b, i, cnt, ~ value) ELSE b, i>>

\* The file holds the words; reading clears what lies past bit_cnt in the last one.
bitmap_write(b) == b.bits

bitmap_read(b, file) ==
    IF b.bit_cnt = 0 THEN b
    ELSE LET last == elem_cnt(b.bit_cnt) - 1
         IN  [b EXCEPT !.bits = [file EXCEPT ![last] = @ % (last_mask(b) + 1)]]

\* The reference: the set of the indexes of its bits that are set.
BitSet(b) == {i \in 0..(b.bit_cnt - 1) : bitmap_test(b, i)}
=============================================================================
