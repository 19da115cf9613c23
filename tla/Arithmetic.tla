----------------------------- MODULE Arithmetic -----------------------------
(***************************************************************************)
(* lib/arithmetic.c: division of double words by double words, with a      *)
(* DIVL instruction that divides a double word by a word.  A word has W    *)
(* bits (32 in the kernel); every result wraps at the width the C type of  *)
(* the expression has.                                                     *)
(***************************************************************************)
EXTENDS Integers, Sequences

CONSTANTS W, Steps

\* Steps is the halving sequence of nlz: 16, 8, 4, 2, 1 for W = 32.
B == 2 ^ W
Word(x) == x % B
Double(x) == x % (B * B)

\* A quotient that does not fit a word is a divide error trap.
Trap == -1

divl(n, d) == IF d = 0 \/ n \div d >= B THEN Trap ELSE n \div d

\* Each step tests whether the top `step' bits are clear and shifts them out.
RECURSIVE NlzFrom(_, _, _)
NlzFrom(x, n, k) ==
    IF k > Len(Steps) THEN n
    ELSE LET step == Steps[k]
         IN  IF x <= 2 ^ (W - step) - 1
             THEN NlzFrom(Word(x * 2 ^ step), n + step, k + 1)
             ELSE NlzFrom(x, n, k + 1)

nlz(x) == NlzFrom(x, 0, 1)

\* Mutant: the estimate of the quotient is not corrected.
udiv64_estimate(n, d) ==
    IF d \div B = 0
    THEN Double(divl(B * ((n \div B) % d) + Word(n), d) + B * ((n \div B) \div d))
    ELSE IF n < d THEN 0
    ELSE LET s == nlz(d \div B)
         IN  divl(n \div 2, Double(d * 2 ^ s) \div B) \div 2 ^ (W - 1 - s)

udiv64(n, d) ==
    IF d \div B = 0
    THEN LET n1 == n \div B
             n0 == Word(n)
             q == divl(B * (n1 % d) + n0, d)
         IN  IF q = Trap THEN Trap ELSE Double(q + B * (n1 \div d))
    ELSE IF n < d THEN 0
    ELSE LET s == nlz(d \div B)
             q0 == divl(n \div 2, Double(d * 2 ^ s) \div B)
             q == q0 \div 2 ^ (W - 1 - s)
         IN  IF q0 = Trap THEN Trap
             ELSE IF Double(n - (q - 1) * d) < d THEN q - 1 ELSE q

\* The declared result type is one word wide.
umod64(n, d) == Word(n - d * udiv64(n, d))

Abs(x) == IF x >= 0 THEN x ELSE -x

\* Two's complement value of a double word, and of a word.
SignedDouble(x) == IF Double(x) >= (B * B) \div 2 THEN Double(x) - B * B ELSE Double(x)
SignedWord(x) == IF Word(x) >= B \div 2 THEN Word(x) - B ELSE Word(x)

sdiv64(n, d) ==
    LET q == udiv64(Abs(n), Abs(d))
    IN  SignedDouble(IF (n < 0) = (d < 0) THEN q ELSE -q)

smod64(n, d) == SignedWord(n - d * sdiv64(n, d))
=============================================================================
