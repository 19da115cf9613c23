------------------------------- MODULE Stdlib -------------------------------
(***************************************************************************)
(* lib/stdlib.c: atoi, the heap sort behind qsort and sort, the binary     *)
(* search behind bsearch.  An array is a sequence; compare(a, b) is the    *)
(* difference of the key of a and the key of b.                            *)
(***************************************************************************)
EXTENDS Integers, Sequences

CONSTANT INT_MAX

\* Characters of the strings atoi reads.
IsSpace(c) == c \in {" ", "\t", "\n", "\f", "\r"}
DigitChars == <<"0", "1", "2", "3", "4", "5", "6", "7", "8", "9">>
IsDigit(c) == \E d \in DOMAIN DigitChars : DigitChars[d] = c
DigitOf(c) == (CHOOSE d \in DOMAIN DigitChars : DigitChars[d] = c) - 1

\* Two's complement wrap-around of an int.
IntWrap(v) == ((v + INT_MAX + 1) % (2 * (INT_MAX + 1))) - INT_MAX - 1

RECURSIVE SkipSpaces(_)
SkipSpaces(s) == IF s # <<>> /\ IsSpace(s[1]) THEN SkipSpaces(Tail(s)) ELSE s

\* The digits are accumulated as a negative value.
RECURSIVE ParseDigits(_, _)
ParseDigits(s, value) ==
    IF s # <<>> /\ IsDigit(s[1])
    THEN ParseDigits(Tail(s), IntWrap(value * 10 - DigitOf(s[1])))
    ELSE value

\* Mutant: the sign is not skipped.
atoi_unskipped(string) == IntWrap(-ParseDigits(SkipSpaces(string), 0))

atoi(string) ==
    LET s == SkipSpaces(string)
        signed == s # <<>> /\ s[1] \in {"+", "-"}
        value == ParseDigits(IF signed THEN Tail(s) ELSE s, 0)
    IN  IF signed /\ s[1] = "-" THEN value ELSE IntWrap(-value)

do_swap(array, a, b) == [array EXCEPT ![a] = array[b], ![b] = array[a]]

do_compare(array, a, b) == array[a].key - array[b].key

RECURSIVE heapify(_, _, _)
\* Mutant: the right child at the end of the heap is not looked at.
heapify_short(array, i, cnt) ==
    LET left == 2 * i
        right == 2 * i + 1
        m == IF left <= cnt /\ do_compare(array, left, i) > 0 THEN left ELSE i
        max == IF right < cnt /\ do_compare(array, right, m) > 0 THEN right ELSE m
    IN  IF max = i THEN array ELSE heapify(do_swap(array, i, max), max, cnt)

heapify(array, i, cnt) ==
    LET left == 2 * i
        right == 2 * i + 1
        m == IF left <= cnt /\ do_compare(array, left, i) > 0 THEN left ELSE i
        max == IF right <= cnt /\ do_compare(array, right, m) > 0 THEN right ELSE m
    IN  IF max = i THEN array ELSE heapify(do_swap(array, i, max), max, cnt)

RECURSIVE BuildHeap(_, _)
BuildHeap(array, i) ==
    IF i = 0 THEN array ELSE BuildHeap(heapify(array, i, Len(array)), i - 1)

RECURSIVE SortHeap(_, _)
SortHeap(array, i) ==
    IF i <= 1 THEN array ELSE SortHeap(heapify(do_swap(array, 1, i), 1, i - 1), i - 1)

sort(array) == SortHeap(BuildHeap(array, Len(array) \div 2), Len(array))

\* first and last are element indexes from 0, last exclusive; the result is an index or -1.
RECURSIVE SearchIn(_, _, _, _)
SearchIn(key, array, first, last) ==
    IF first >= last THEN -1
    ELSE LET middle == first + (last - first) \div 2
             cmp == key - array[middle + 1].key
         IN  IF cmp < 0 THEN SearchIn(key, array, first, middle)
             ELSE IF cmp > 0 THEN SearchIn(key, array, middle + 1, last)
                  ELSE middle

binary_search(key, array) == SearchIn(key, array, 0, Len(array))
=============================================================================
