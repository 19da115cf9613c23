------------------------------ MODULE Library ------------------------------
(***************************************************************************)
(* Calls of the kernel's library routines.  A behaviour makes one call     *)
(* after another: `call' holds the arguments of the current one and Return *)
(* ends it (module KernelCalls makes the calls).  Every property says of   *)
(* one family of routines that, whatever the arguments, they compute what  *)
(* a definition independent of their code says.                            *)
(***************************************************************************)
EXTENDS Integers, Sequences, FiniteSets, FiniteSetsExt, SequencesExt

CONSTANTS
    MaxList,    \* longest list and array
    MaxVal,     \* their values are 0..MaxVal
    MaxStr,     \* longest string
    MaxBits,    \* largest bitmap
    MaxFill,    \* elements put into a hash table first
    MaxFree,    \* and the operations on it after that
    MaxEvents,  \* keys pressed and released
    MaxBlocks   \* blocks of memory in use

L == INSTANCE List
H == INSTANCE Hash
M == INSTANCE Bitmap WITH ELEM_BITS <- 3
S == INSTANCE Strings
D == INSTANCE Stdlib WITH INT_MAX <- 127
A == INSTANCE Arithmetic WITH W <- 4, Steps <- <<2, 1>>
P == INSTANCE Stdio WITH BUF_SIZE <- 8,
        Bits <- [t \in {"CHAR", "SHORT", "INT", "LONG", "PTRDIFFT", "SIZET", "INTMAX", "LONGLONG"} |->
                 CASE t = "CHAR" -> 4 [] t = "SHORT" -> 6
                   [] t \in {"INTMAX", "LONGLONG"} -> 12 [] OTHER -> 8]

VARIABLE call

NoCall == [fn |-> "none"]

\* Sequences of length up to n over s.
UpTo(s, n) == UNION {[1..k -> s] : k \in 0..n}

ListCalls == [fn : {"list"}, val : UpTo(0..MaxVal, MaxList)]

ArrayCalls == [fn : {"sort"}, keys : UpTo(0..MaxVal, MaxList)]

\* A hash table of its own, with the set of elements it stands for; it is used by HashStep.
HashCalls ==
    [fn : {"hash"}, hashes : {"same", "spread", "mixed"}, table : {H!hash_init}, set : {{}},
     filled : {0}, free : {0}, returned : {<<H!NoElem, H!NoElem>>}]

BitmapCalls ==
    [fn : {"bitmap"}, bit_cnt : 0..MaxBits, set : SUBSET (0..(MaxBits - 1)), garbage : {0, 5, 7}]

StringCalls == [fn : {"string"}, a : UpTo({1, 2, 3}, MaxStr), b : UpTo({1, 2}, 2)]

MoveCalls == [fn : {"move"}, dst : 0..5, src : 0..5, size : 0..4]

NumberCalls == [fn : {"number"}, value : -130..130]

Flags == {"-", "+", "#", "0", "'"}
FormatCalls ==
    [fn : {"format"}, value : {-128, -37, 0, 7, 64, 1234}, flags : SUBSET Flags,
     width : {0, 7}, precision : {-1, 0, 5}, type : {"CHAR", "INT", "LONGLONG"},
     conv : {"d", "u", "o", "x"}]

DivideCalls == [fn : {"divide"}, n : 0..255]

DumpCalls == [fn : {"dump"}, ofs : 0..9, bytes : UpTo({1, 2}, 6)]

LibraryCalls ==
    ListCalls \cup ArrayCalls \cup HashCalls \cup BitmapCalls \cup StringCalls \cup MoveCalls
    \cup NumberCalls \cup FormatCalls \cup DivideCalls \cup DumpCalls

Init == call = NoCall
Return == call # NoCall /\ call' = NoCall

-----------------------------------------------------------------------------
(* lib/kernel/list.c *)

\* The places 1..Len(val) in the order of their values, equal ones in the order of the places.
StableOrder(val) ==
    LET rank(x) == Cardinality({y \in DOMAIN val : val[y] < val[x] \/ (val[y] = val[x] /\ y <= x)})
    IN  [k \in DOMAIN val |-> CHOOSE x \in DOMAIN val : rank(x) = k]

\* A heap with a list 1 of the elements 1..n, an empty list 2 and one element to spare.
ListOf(n) == L!Heap(n + 1, 1, 2, [i \in 1..n |-> i])

\* list_sort leaves the list linked both ways through exactly its elements, in nondecreasing
\* order and with equal elements in their old order, and none of its assertions fails.
ListSortStable ==
    call.fn = "list" =>
        L!Holds(L!list_sort(ListOf(Len(call.val)), 1, call.val), 1, StableOrder(call.val))

\* list_reverse, list_splice, list_insert_ordered, list_unique, list_max and list_min do to the
\* links what their names say of the sequence, and list_unique moves what it drops to the other
\* list: every element stays on exactly one of the two.
ListOperations ==
    call.fn = "list" =>
        LET val == call.val
            n == Len(val)
            h == ListOf(n)
            all == [i \in 1..n |-> i]
            sorted == StableOrder(val)
            new(v) == Append(val, v)
            unique == L!list_unique(h, 1, 2, val)
            first(i) == i = 1 \/ val[i] # val[i - 1]
            part(a, b) == SubSeq(all, a, b)
        IN  /\ L!Holds(L!list_reverse(h, 1), 1, Reverse(all))
            /\ L!list_size(h, 1) = n
            /\ L!Holds(unique, 1, SelectSeq(all, first))
            /\ L!Holds(unique, 2, SelectSeq(all, LAMBDA i : ~ first(i)))
            /\ \A v \in 0..MaxVal :
                  L!Holds(L!list_insert_ordered(L!list_sort(h, 1, val), 1, new(v), n + 1), 1,
                          StableOrder(new(v)))
            /\ \A a \in 1..n : \A b \in a..n :
                  LET moved == L!list_splice(h, L!list_end(2), a, h[b].next)
                      back == L!list_splice(moved, L!list_begin(moved, 1), a, L!list_end(2))
                  IN  /\ L!Holds(moved, 1, part(1, a - 1) \o part(b + 1, n))
                      /\ L!Holds(moved, 2, part(a, b))
                      /\ L!Holds(back, 1, part(a, b) \o part(1, a - 1) \o part(b + 1, n))
            /\ n > 0 => /\ L!list_max(h, 1, val) = Min({i \in 1..n : \A j \in 1..n : val[j] <= val[i]})
                        /\ L!list_min(h, 1, val) = sorted[1]
                        /\ L!Holds(L!list_pop_front(h, 1), 1, part(2, n))
                        /\ L!Holds(L!list_pop_back(h, 1), 1, part(1, n - 1))
                        /\ L!Holds(L!list_push_front(h, 1, n + 1), 1, <<n + 1>> \o all)
-----------------------------------------------------------------------------
(* lib/kernel/hash.c *)

HashOf(kind) ==
    [k \in 1..20 |-> CASE kind = "same" -> 5 [] kind = "spread" -> k [] kind = "mixed" -> 7 * (k % 4)]

Elem(k, id) == [key |-> k, id |-> id]

\* An operation on table h, and on the set s of elements it stands for.
OnTable(h, hf, op, e, oom) ==
    CASE op = "insert" -> H!hash_insert(h, hf, e, oom)
      [] op = "replace" -> H!hash_replace(h, hf, e, oom)
      [] op = "delete" -> H!hash_delete(h, hf, e, oom)
      [] op = "find" -> H!hash_find(h, hf, e)
      [] op = "clear" -> <<H!hash_clear(h)[1], H!NoElem>>

OnSet(s, op, e) ==
    LET old == {x \in s : x.key = e.key}
        r == IF old = {} THEN H!NoElem ELSE CHOOSE x \in old : TRUE
    IN  CASE op = "insert" -> <<IF old = {} THEN s \cup {e} ELSE s, r>>
          [] op = "replace" -> <<(s \ old) \cup {e}, r>>
          [] op = "delete" -> <<s \ old, r>>
          [] op = "find" -> <<s, r>>
          [] op = "clear" -> <<{}, H!NoElem>>

\* One operation on the table of a hash call.
Apply(op, e, oom) ==
    LET t == OnTable(call.table, HashOf(call.hashes), op, e, oom)
        s == OnSet(call.set, op, e)
    IN  call' = [call EXCEPT !.table = t[1], !.set = s[1], !.returned = <<t[2], s[2]>>,
                             !.filled = IF call.free = 0 /\ op = "insert" /\ e.id = 0 THEN @ + 1 ELSE @,
                             !.free = IF e.id = 0 THEN @ ELSE @ + 1]

\* The table is filled with the keys 1, 2, ... and then used MaxFree times in any way.
HashStep ==
    /\ call.fn = "hash"
    /\ \/ call.free = 0 /\ call.filled < MaxFill /\ Apply("insert", Elem(call.filled + 1, 0), FALSE)
       \/ /\ call.free < MaxFree /\ call.filled \in {0, 3, 15, 16, 17}
          /\ \E op \in {"insert", "replace", "delete", "find", "clear"}, k \in {1, 16, 20}, oom \in BOOLEAN :
                Apply(op, Elem(k, call.free + 1), oom)

\* Table h stands for set s: its iterator and hash_apply visit every element exactly once, its
\* count is right, and each element is in the bucket hash_find looks in.
Represents(h, hf, s) ==
    /\ ToSet(H!hash_first(h)) = s /\ Len(H!hash_first(h)) = Cardinality(s)
    /\ H!hash_apply(h) = H!hash_first(h)
    /\ H!hash_size(h) = Cardinality(s)
    /\ H!is_power_of_2(H!bucket_cnt(h))
    /\ \A e \in s : H!hash_find(h, hf, e)[2] = e

\* A hash table is a set of elements with distinct keys: every operation returns what it does on
\* the set and leaves a table that stands for the new set, across the growing and shrinking of the
\* buckets by rehash, for every hash function, and when rehash finds no memory.
HashIsMap ==
    call.fn = "hash" =>
        /\ call.returned[1] = call.returned[2]
        /\ Represents(call.table, HashOf(call.hashes), call.set)
-----------------------------------------------------------------------------
(* lib/kernel/bitmap.c *)

RECURSIVE Marked(_, _)
Marked(b, set) ==
    IF set = {} THEN b
    ELSE LET i == Min(set)
         IN  Marked(IF i % 2 = 0 THEN M!bitmap_mark(b, i) ELSE M!bitmap_flip(b, i), set \ {i})

BitmapOf ==
    Marked(M!bitmap_create(call.bit_cnt, [w \in 0..(M!elem_cnt(call.bit_cnt) - 1) |-> call.garbage]),
           call.set \cap (0..(call.bit_cnt - 1)))

\* A bitmap is a set of indexes: bitmap_scan_and_flip takes the lowest run of the asked length
\* from start on that is free, flips exactly that run, and fails only when there is none; the
\* unused bits of the last word never count, not even when a file that holds them is read back.
\* A run of no bits is found at start: the comment at bitmap.c:316 says 0 ("If CNT is zero, returns
\* 0"), which is so only from start 0.
BitmapIsSet ==
    call.fn = "bitmap" =>
        LET b == BitmapOf
            n == call.bit_cnt
            set == call.set \cap (0..(n - 1))
            run(i, cnt) == i..(i + cnt - 1)
        IN  /\ M!BitSet(b) = set
            /\ M!bitmap_read(M!bitmap_create(n, b.bits), M!bitmap_write(b)) =
                  [b EXCEPT !.bits = [w \in DOMAIN b.bits |->
                      MapThenSumSet(LAMBDA i : IF M!elem_idx(i) = w THEN M!bit_mask(i) ELSE 0, set)]]
            /\ \A start \in 0..n : \A cnt \in 0..(n - start) :
                  LET free == {i \in start..(n - cnt) : run(i, cnt) \cap set = {}}
                      r == M!bitmap_scan_and_flip(b, start, cnt, FALSE)
                  IN  /\ cnt = 0 => r = <<b, start>>
                      /\ IF free = {} THEN r[2] = M!BITMAP_ERROR /\ r[1] = b
                         ELSE r[2] = Min(free) /\ M!BitSet(r[1]) = set \cup run(Min(free), cnt)
                      /\ M!bitmap_count(b, start, cnt, TRUE) = Cardinality(set \cap run(start, cnt))
                      /\ M!bitmap_all(b, start, cnt) = (run(start, cnt) \subseteq set)
                      /\ M!bitmap_none(b, start, cnt) = (run(start, cnt) \cap set = {})
-----------------------------------------------------------------------------
(* lib/string.c *)

\* memmove copies as if through a second buffer, however source and destination overlap.
MoveOverlap ==
    call.fn = "move" =>
        LET m == [a \in 0..9 |-> a + 1]
            to == call.dst..(call.dst + call.size - 1)
        IN  S!memmove(m, call.dst, call.src, call.size) =
                [a \in 0..9 |-> IF a \in to THEN m[call.src + (a - call.dst)] ELSE m[a]]

\* Where a and b are put by StringMemory, the b string last with free bytes 9 after it.
StringMemory == S!Memory(call.a, call.b, 9, 3)
PtrB == Len(call.a) + 1

\* The search functions return the first (strrchr: the last) place that the definition of
\* membership gives, and NULL exactly when there is none.
SearchesFind ==
    call.fn = "string" =>
        LET m == StringMemory
            a == call.a
            b == call.b
            in(s, c) == \E i \in DOMAIN s : s[i] = c
            firstOr(places, none) == IF places = {} THEN none ELSE Min(places) - 1
            hit == {i \in DOMAIN a : in(b, a[i])}
            miss == {i \in DOMAIN a : ~ in(b, a[i])}
            occurs == {i \in 1..(Len(a) + 1 - Len(b)) : SubSeq(a, i, i + Len(b) - 1) = b}
        IN  /\ S!strlen(m, 0) = Len(a)
            /\ S!strcspn(m, 0, PtrB) = firstOr(hit, Len(a))
            /\ S!strpbrk(m, 0, PtrB) = firstOr(hit, S!NULL)
            /\ S!strspn(m, 0, PtrB) = firstOr(miss, Len(a))
            /\ S!strstr(m, 0, PtrB) = firstOr(occurs, S!NULL)
            /\ \A c \in 1..3 :
                  LET at == {i \in DOMAIN a : a[i] = c}
                  IN  /\ S!strchr(m, 0, c) = firstOr(at, S!NULL)
                      /\ S!memchr(m, 0, c, Len(a)) = firstOr(at, S!NULL)
                      /\ S!strrchr(m, 0, c) = IF at = {} THEN S!NULL ELSE Max(at) - 1
            /\ \A k \in 0..3 : S!strnlen(m, 0, k) = Min({k, Len(a)})
            /\ (S!strcmp(m, 0, PtrB) = 0) = (a = b)
            /\ S!strcmp(m, 0, PtrB) = -S!strcmp(m, PtrB, 0)

RECURSIVE Tokens(_, _)
Tokens(m, s) ==
    LET r == S!strtok_r(m, s, PtrB)
    IN  IF r.token = S!NULL THEN <<>> ELSE <<S!Str(r.m, r.token)>> \o Tokens(r.m, r.save)

\* The maximal nonempty runs of characters of s that are not in set d.
RECURSIVE Split(_, _, _)
Split(s, d, run) ==
    LET done == IF run = <<>> THEN <<>> ELSE <<run>>
    IN  IF s = <<>> THEN done
        ELSE IF s[1] \in d THEN done \o Split(Tail(s), d, <<>>)
        ELSE Split(Tail(s), d, Append(run, s[1]))

\* strtok_r, called until it returns NULL, returns the maximal runs of characters that are no
\* delimiters, none of them empty, in order: what argument passing and path walking rely on.
TokensAreRuns ==
    call.fn = "string" => Tokens(StringMemory, 0) = Split(call.a, ToSet(call.b), <<>>)

\* strlcpy and strlcat write at most size bytes at dst, terminate the string there if size allows,
\* keep what fits, and return the length they would have needed.
CopiesBounded ==
    call.fn = "string" =>
        LET m == StringMemory
            a == call.a
            b == call.b
            \* b is the destination, with Len(b) + 4 bytes of room; a is the source.
            outside(r, size) == \A p \in DOMAIN m : p \notin PtrB..(PtrB + size - 1) => r[p] = m[p]
        IN  \A size \in 0..(Len(b) + 4) :
              LET cpy == S!strlcpy(m, PtrB, 0, size)
                  cat == S!strlcat(m, PtrB, 0, size)
                  keep(s) == SubSeq(s, 1, Min({size - 1, Len(s)}))
              IN  /\ outside(cpy[1], size) /\ outside(cat[1], size)
                  /\ cpy[2] = Len(a) /\ cat[2] = Len(a) + Len(b)
                  /\ size > 0 => S!Str(cpy[1], PtrB) = keep(a)
                  /\ S!Str(cat[1], PtrB) = IF Len(b) < size THEN keep(b \o a) ELSE b
-----------------------------------------------------------------------------
(* lib/stdlib.c *)

\* sort returns a permutation of the array in nondecreasing order, and binary_search in it finds
\* an element with the key exactly when there is one.
SortAndSearch ==
    call.fn = "sort" =>
        LET array == [i \in DOMAIN call.keys |-> [key |-> call.keys[i], id |-> i]]
            s == D!sort(array)
        IN  /\ ToSet(s) = ToSet(array) /\ Len(s) = Len(array)
            /\ \A i \in 2..Len(s) : s[i - 1].key <= s[i].key
            /\ \A k \in 0..MaxVal :
                  LET at == D!binary_search(k, s)
                  IN  IF \E i \in DOMAIN s : s[i].key = k THEN s[at + 1].key = k ELSE at = -1
-----------------------------------------------------------------------------
(* lib/stdio.c *)

\* atoi gives back every int that printf("%d") wrote, INT_MIN included, after spaces and with a
\* width; and outside the range of int it gives the value printf wrote.
AtoiReadsPrintf ==
    call.fn = "number" =>
        LET v == call.value
        IN  /\ D!atoi(P!__vprintf(<<"%", "d">>, <<v>>)) = P!Signed(v, "INT")
            /\ D!atoi(P!__vprintf(<<"%", "*", "d">>, <<9, v>>)) = P!Signed(v, "INT")
            /\ D!atoi(P!__vprintf(<<"%", "+", ".", "5", "d">>, <<v>>)) = P!Signed(v, "INT")

FlagSeq(set) == SetToSeq(set)
TypeChars(type) == CASE type = "CHAR" -> <<"h", "h">> [] type = "INT" -> <<>> [] type = "LONGLONG" -> <<"l", "l">>
BaseNumber(conv) == CASE conv \in {"d", "u"} -> 10 [] conv = "o" -> 8 [] conv = "x" -> 16

\* The number the digits of a text spell, everything else in it ignored.
RECURSIVE Spelled(_, _, _)
Spelled(text, base, n) ==
    IF text = <<>> THEN n
    ELSE LET at == {d \in 1..base : P!Digits[d] = text[1]}
         IN  Spelled(Tail(text), base, IF at = {} THEN n ELSE n * base + Min(at) - 1)

FormatOf ==
    <<"%">> \o FlagSeq(call.flags) \o (IF call.width > 0 THEN <<ToString(call.width)>> ELSE <<>>)
    \o (IF call.precision >= 0 THEN <<".", ToString(call.precision)>> ELSE <<>>)
    \o TypeChars(call.type) \o <<call.conv>>

\* Whatever flags, width, precision and type an integer conversion has, the text is at least as
\* wide as asked, exactly as wide when it was padded, and its digits spell the argument cut to the
\* type, with a minus sign exactly for the negative ones; zero with precision 0 has no digits.
PrintfSpells ==
    call.fn = "format" =>
        LET text == P!__vprintf(FormatOf, <<call.value>>)
            v == IF call.conv = "d" THEN P!Signed(call.value, call.type)
                 ELSE P!Unsigned(call.value, call.type)
            bare == P!__vprintf(<<"%">> \o FlagSeq(call.flags \ {"0", "-"})
                                \o (IF call.precision >= 0 THEN <<".", ToString(call.precision)>> ELSE <<>>)
                                \o TypeChars(call.type) \o <<call.conv>>, <<call.value>>)
            digits == Cardinality({i \in DOMAIN text : \E d \in DOMAIN P!Digits : P!Digits[d] = text[i]})
        IN  /\ Spelled(text, BaseNumber(call.conv), 0) = IF v < 0 THEN -v ELSE v
            /\ (\E i \in DOMAIN text : text[i] = "-") = (v < 0)
            /\ Len(text) = Max({call.width, Len(bare)})
            /\ call.precision >= 0 /\ call.width = 0 /\ "'" \notin call.flags => digits >= Min({call.precision, 7})

\* snprintf stores at most buf_size bytes, ends what it stores with a null byte when there is
\* room for one, keeps the longest prefix that fits, and returns the untruncated length.
SnprintfTruncates ==
    call.fn = "number" =>
        \A size \in 0..5 : \A f \in {<<"%", "d">>, <<"a", "%", "-", "3", "d", "%", "%">>, <<>>} :
            LET text == P!__vprintf(f, <<call.value>>)
                r == P!vsnprintf(size, f, <<call.value>>)
            IN  /\ r.returns = Len(text)
                /\ r.buffer = IF size = 0 THEN <<>>
                              ELSE Append(SubSeq(text, 1, Min({size - 1, Len(text)})), "")

\* hex_dump shows every byte once, in order, in the column and on the line of its offset, and
\* print_human_readable_size prints the size rounded down to the unit it names.
DumpsShow ==
    /\ call.fn = "dump" =>
          LET lines == P!hex_dump(call.ofs, call.bytes, 4)
          IN  /\ FlattenSeq([i \in DOMAIN lines |-> lines[i].bytes]) = call.bytes
              /\ \A i \in DOMAIN lines :
                    /\ lines[i].ofs = 4 * (call.ofs \div 4 + i - 1)
                    /\ lines[i].skip = (IF i = 1 THEN call.ofs % 4 ELSE 0)
                    /\ lines[i].skip + Len(lines[i].bytes) <= 4 /\ lines[i].bytes # <<>>
    /\ call.fn = "divide" =>
          LET r == P!print_human_readable_size(call.n, 4, 0, 3)
          IN  r[1] = call.n \div 4^r[2] /\ r[2] <= 2 /\ (r[2] < 2 => r[1] < 4)
-----------------------------------------------------------------------------
(* lib/arithmetic.c *)

\* Division of double words by double words is exact for every nonzero divisor and never traps; the
\* signed quotient truncates towards zero, wrapping at the minimum.  The remainder is exact if and
\* only if it fits a word: the comments (arithmetic.c:128-129 and 143-144 of umod64 and smod64, 161
\* and 171 of __moddi3 and __umoddi3) promise the remainder of 64-bit operands, but the two functions
\* are declared to return 32 bits, and of a larger remainder only the low word is left.
DivisionExact ==
    call.fn = "divide" =>
        \A d \in 1..255 :
            LET n == call.n
                sn == A!SignedDouble(n)
                sd == A!SignedDouble(d)
                q == A!Abs(sn) \div A!Abs(sd)
                sq == IF (sn < 0) = (sd < 0) THEN q ELSE -q
                rem == n % d
                srem == sn - sd * sq
            IN  /\ A!udiv64(n, d) = n \div d
                /\ A!sdiv64(sn, sd) = A!SignedDouble(sq)
                /\ (A!umod64(n, d) = rem) = (rem < 16) /\ (rem - A!umod64(n, d)) % 16 = 0
                /\ (A!smod64(sn, sd) = srem) = (srem \in -8..7) /\ (srem - A!smod64(sn, sd)) % 16 = 0
=============================================================================
