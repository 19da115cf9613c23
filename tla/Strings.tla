------------------------------ MODULE Strings ------------------------------
(***************************************************************************)
(* lib/string.c.  Memory is a function from addresses 0..n to characters,  *)
(* which are numbers with NUL = 0; a pointer is an address, and NULL is    *)
(* the null pointer.  A string at s runs to the first NUL from s on.       *)
(* Operators take the memory m first.                                      *)
(***************************************************************************)
EXTENDS Integers, Sequences, FiniteSets, FiniteSetsExt

NUL == 0
NULL == -1

\* Ascending copy, one byte per step.
RECURSIVE memcpy(_, _, _, _)
memcpy(m, dst, src, size) ==
    IF size = 0 THEN m ELSE memcpy([m EXCEPT ![dst] = m[src]], dst + 1, src + 1, size - 1)

\* Descending copy: the last byte first.
RECURSIVE CopyDown(_, _, _, _)
CopyDown(m, dst, src, size) ==
    IF size = 0 THEN m
    ELSE CopyDown([m EXCEPT ![dst + size - 1] = m[src + size - 1]], dst, src, size - 1)

\* Mutant: always upwards.
memmove_up(m, dst, src, size) == memcpy(m, dst, src, size)

memmove(m, dst, src, size) ==
    IF dst < src THEN memcpy(m, dst, src, size) ELSE CopyDown(m, dst, src, size)

Sign(x, y) == IF x > y THEN 1 ELSE IF x < y THEN -1 ELSE 0

RECURSIVE memcmp(_, _, _, _)
memcmp(m, a, b, size) ==
    IF size = 0 THEN 0
    ELSE IF m[a] # m[b] THEN Sign(m[a], m[b]) ELSE memcmp(m, a + 1, b + 1, size - 1)

RECURSIVE strcmp(_, _, _)
strcmp(m, a, b) ==
    IF m[a] # NUL /\ m[a] = m[b] THEN strcmp(m, a + 1, b + 1) ELSE Sign(m[a], m[b])

RECURSIVE memchr(_, _, _, _)
memchr(m, block, ch, size) ==
    IF size = 0 THEN NULL
    ELSE IF m[block] = ch THEN block ELSE memchr(m, block + 1, ch, size - 1)

RECURSIVE strchr(_, _, _)
strchr(m, s, c) ==
    IF m[s] = c THEN s ELSE IF m[s] = NUL THEN NULL ELSE strchr(m, s + 1, c)

RECURSIVE strlen(_, _)
strlen(m, s) == IF m[s] = NUL THEN 0 ELSE 1 + strlen(m, s + 1)

RECURSIVE strnlen(_, _, _)
strnlen(m, s, maxlen) ==
    IF m[s] = NUL \/ maxlen = 0 THEN 0 ELSE 1 + strnlen(m, s + 1, maxlen - 1)

RECURSIVE strcspn(_, _, _)
strcspn(m, s, stop) ==
    IF m[s] = NUL \/ strchr(m, stop, m[s]) # NULL THEN 0 ELSE 1 + strcspn(m, s + 1, stop)

RECURSIVE strspn(_, _, _)
strspn(m, s, skip) ==
    IF m[s] = NUL \/ strchr(m, skip, m[s]) = NULL THEN 0 ELSE 1 + strspn(m, s + 1, skip)

RECURSIVE strpbrk(_, _, _)
strpbrk(m, s, stop) ==
    IF m[s] = NUL THEN NULL
    ELSE IF strchr(m, stop, m[s]) # NULL THEN s ELSE strpbrk(m, s + 1, stop)

\* p is the last occurrence seen so far; the terminator itself is never compared.
RECURSIVE RChrFrom(_, _, _, _)
RChrFrom(m, s, c, p) ==
    IF m[s] = NUL THEN p ELSE RChrFrom(m, s + 1, c, IF m[s] = c THEN s ELSE p)

strrchr(m, s, c) == RChrFrom(m, s, c, NULL)

\* Mutant: the last alignment is not tried.
strstr_short(m, haystack, needle) ==
    LET hl == strlen(m, haystack)
        nl == strlen(m, needle)
        at == {i \in 0..(hl - nl - 1) : memcmp(m, haystack + i, needle, nl) = 0}
    IN  IF at = {} THEN NULL ELSE haystack + Min(at)

\* The first of the alignments 0..haystack_len - needle_len at which the bytes agree.
strstr(m, haystack, needle) ==
    LET hl == strlen(m, haystack)
        nl == strlen(m, needle)
        at == {i \in 0..(hl - nl) : memcmp(m, haystack + i, needle, nl) = 0}
    IN  IF at = {} THEN NULL ELSE haystack + Min(at)

RECURSIVE SkipDelimiters(_, _, _)
SkipDelimiters(m, s, delims) ==
    IF m[s] # NUL /\ strchr(m, delims, m[s]) # NULL THEN SkipDelimiters(m, s + 1, delims) ELSE s

\* strchr finds the terminator in every string, so the loop stops at it.
RECURSIVE SkipToken(_, _, _)
SkipToken(m, s, delims) ==
    IF strchr(m, delims, m[s]) = NULL THEN SkipToken(m, s + 1, delims) ELSE s

\* Mutant: the saved position is the null byte that ends the token.
strtok_r_at_end(m, s, delims) ==
    LET token == SkipDelimiters(m, s, delims)
        end == SkipToken(m, token, delims)
    IN  IF m[token] = NUL THEN [m |-> m, token |-> NULL, save |-> token]
        ELSE [m |-> [m EXCEPT ![end] = NUL], token |-> token, save |-> end]

\* The memory after the call, the token and the saved position.
strtok_r(m, s, delims) ==
    LET token == SkipDelimiters(m, s, delims)
        end == SkipToken(m, token, delims)
    IN  IF m[token] = NUL THEN [m |-> m, token |-> NULL, save |-> token]
        ELSE IF m[end] # NUL
             THEN [m |-> [m EXCEPT ![end] = NUL], token |-> token, save |-> end + 1]
             ELSE [m |-> m, token |-> token, save |-> end]

\* The memory after the call and the length it returns.
strlcpy(m, dst, src, size) ==
    LET src_len == strlen(m, src)
        dst_len == Min({size - 1, src_len})
    IN  <<IF size > 0
          THEN [memcpy(m, dst, src, dst_len) EXCEPT ![dst + dst_len] = NUL] ELSE m,
          src_len>>

\* Mutant: no room is left for the null byte.
strlcat_full(m, dst, src, size) ==
    LET src_len == strlen(m, src)
        dst_len == strlen(m, dst)
        copy_cnt == Min({size - dst_len, src_len})
    IN  <<IF size > 0 /\ dst_len < size
          THEN [memcpy(m, dst + dst_len, src, copy_cnt) EXCEPT ![dst + dst_len + copy_cnt] = NUL]
          ELSE m,
          src_len + dst_len>>

strlcat(m, dst, src, size) ==
    LET src_len == strlen(m, src)
        dst_len == strlen(m, dst)
        copy_cnt == Min({size - dst_len - 1, src_len})
    IN  <<IF size > 0 /\ dst_len < size
          THEN [memcpy(m, dst + dst_len, src, copy_cnt) EXCEPT ![dst + dst_len + copy_cnt] = NUL]
          ELSE m,
          src_len + dst_len>>

\* The reference: the string at s as a sequence.
Str(m, s) == [i \in 1..strlen(m, s) |-> m[s + i - 1]]

\* A memory that holds the strings a at 0 and b after it, the rest filled with `fill'.
Memory(a, b, fill, room) ==
    LET bytes == a \o <<NUL>> \o b \o <<NUL>>
    IN  [i \in 0..(Len(bytes) + room - 1) |-> IF i < Len(bytes) THEN bytes[i + 1] ELSE fill]
=============================================================================
