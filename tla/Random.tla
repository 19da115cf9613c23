------------------------------- MODULE Random -------------------------------
(***************************************************************************)
(* lib/random.c: the RC4 generator.  N is the number of values of a byte   *)
(* (256 in the code); every byte wraps at N.  A seed is its sequence of    *)
(* bytes.                                                                  *)
(***************************************************************************)
EXTENDS Integers, Sequences

CONSTANT N

swap_byte_lost(s, a, b) == [s EXCEPT ![a] = s[b]]

swap_byte(s, a, b) == [s EXCEPT ![a] = s[b], ![b] = s[a]]

RECURSIVE Mixed(_, _, _, _)
Mixed(s, seed, i, j) ==
    IF i = N THEN s
    ELSE LET k == (j + s[i] + seed[(i % Len(seed)) + 1]) % N
         IN  Mixed(swap_byte(s, i, k), seed, i + 1, k)

random_init(seed) ==
    [s |-> Mixed([i \in 0..(N - 1) |-> i], seed, 0, 0), i |-> 0, j |-> 0]

\* The generator after size bytes, and the bytes.
RECURSIVE random_bytes(_, _, _)
random_bytes(g, size, buf) ==
    IF size = 0 THEN <<g, buf>>
    ELSE LET i == (g.i + 1) % N
             j == (g.j + g.s[i]) % N
             s == swap_byte(g.s, i, j)
             k == (s[i] + s[j]) % N
         IN  random_bytes([s |-> s, i |-> i, j |-> j], size - 1, Append(buf, s[k]))

\* A long of `bytes' bytes, least significant first.
random_ulong(g, bytes) ==
    LET r == random_bytes(g, bytes, <<>>)
        value[i \in 0..bytes] == IF i = 0 THEN 0 ELSE value[i - 1] + r[2][i] * N ^ (i - 1)
    IN  <<r[1], value[bytes]>>
=============================================================================
