------------------------------- MODULE Stdio -------------------------------
(***************************************************************************)
(* lib/stdio.c: the printf family.  Text is a sequence of one-character    *)
(* strings.  An argument is an integer for the integer conversions and a   *)
(* sequence for %s and %c.  Bits[type] is the width of each integer type;  *)
(* arguments are reduced to it as va_arg and the casts do.  A format ends  *)
(* with a complete conversion or a literal character.                      *)
(***************************************************************************)
EXTENDS Integers, Sequences, FiniteSets, FiniteSetsExt

CONSTANTS Bits, BUF_SIZE

\* A null pointer as the argument of %s.
NULL == <<"NULL">>

Digits == <<"0", "1", "2", "3", "4", "5", "6", "7", "8", "9", "a", "b", "c", "d", "e", "f">>
DIGITS == <<"0", "1", "2", "3", "4", "5", "6", "7", "8", "9", "A", "B", "C", "D", "E", "F">>

\* struct integer_base and its four instances; x = "" where there is no x character.
base_d == [base |-> 10, digits |-> Digits, x |-> "", group |-> 3]
base_o == [base |-> 8, digits |-> Digits, x |-> "", group |-> 3]
base_x == [base |-> 16, digits |-> Digits, x |-> "x", group |-> 4]
base_X == [base |-> 16, digits |-> DIGITS, x |-> "X", group |-> 4]

Unsigned(v, type) == v % 2 ^ Bits[type]

Signed(v, type) ==
    LET u == Unsigned(v, type) IN IF u >= 2 ^ (Bits[type] - 1) THEN u - 2 ^ Bits[type] ELSE u

output_dup(ch, cnt) == [i \in 1..cnt |-> ch]

\* The digits in the order they are produced, last one first, with a comma between groups.
RECURSIVE ReversedDigits(_, _, _, _)
ReversedDigits(value, b, group, cnt) ==
    IF value = 0 THEN <<>>
    ELSE (IF group /\ cnt > 0 /\ cnt % b.group = 0 THEN <<",">> ELSE <<>>)
         \o <<b.digits[(value % b.base) + 1]>>
         \o ReversedDigits(value \div b.base, b, group, cnt + 1)

format_integer(value, is_signed, negative, b, c) ==
    LET sign == IF ~ is_signed THEN <<>>
                ELSE IF negative THEN <<"-">>
                ELSE IF "+" \in c.flags THEN <<"+">>
                ELSE IF " " \in c.flags THEN <<" ">> ELSE <<>>
        x == IF "#" \in c.flags /\ value # 0 /\ b.x # "" THEN <<"0", b.x>> ELSE <<>>
        raw == ReversedDigits(value, b, "'" \in c.flags, 0)
        precision == IF c.precision < 0 THEN 1 ELSE c.precision
        zeros == Max({0, Min({precision, BUF_SIZE - 1}) - Len(raw)})
        padded == raw \o output_dup("0", zeros)
        buf == IF "#" \in c.flags /\ b.base = 8
                  /\ (padded = <<>> \/ padded[Len(padded)] # "0")
               THEN Append(padded, "0") ELSE padded
        pad_cnt == Max({0, c.width - Len(buf) - Len(x) - Len(sign)})
        reversed == [i \in 1..Len(buf) |-> buf[Len(buf) + 1 - i]]
    IN  (IF c.flags \cap {"-", "0"} = {} THEN output_dup(" ", pad_cnt) ELSE <<>>)
        \o sign \o x
        \o (IF "0" \in c.flags THEN output_dup("0", pad_cnt) ELSE <<>>)
        \o reversed
        \o (IF "-" \in c.flags THEN output_dup(" ", pad_cnt) ELSE <<>>)

format_string(string, length, c) ==
    LET pad == output_dup(" ", Max({0, c.width - length}))
        s == SubSeq(string, 1, length)
    IN  IF "-" \in c.flags THEN s \o pad ELSE pad \o s

IsDigit(ch) == \E d \in 1..10 : Digits[d] = ch
DigitOf(ch) == (CHOOSE d \in 1..10 : Digits[d] = ch) - 1

\* The character at a place of the format; past its end the terminating null.
At(f, i) == IF i <= Len(f) THEN f[i] ELSE ""

RECURSIVE ParseFlags(_, _, _)
\* Mutant: `-' does not cancel `0'.
ParseFlags_both(f, i, flags) ==
    IF At(f, i) \in {"-", "+", " ", "#", "0", "'"}
    THEN ParseFlags(f, i + 1, flags \cup {f[i]})
    ELSE <<i, flags>>

ParseFlags(f, i, flags) ==
    IF At(f, i) \in {"-", "+", " ", "#", "0", "'"}
    THEN ParseFlags(f, i + 1, flags \cup {f[i]})
    ELSE <<i, (flags \ (IF "-" \in flags THEN {"0"} ELSE {}))
                     \ (IF "+" \in flags THEN {" "} ELSE {})>>

RECURSIVE ParseNumber(_, _, _)
ParseNumber(f, i, n) ==
    IF IsDigit(At(f, i)) THEN ParseNumber(f, i + 1, n * 10 + DigitOf(f[i])) ELSE <<i, n>>

\* A number in the format or, for `*', the next argument: <<place, value, arguments left>>.
NumberOrStar(f, i, args) ==
    IF At(f, i) = "*" THEN <<i + 1, args[1], Tail(args)>>
    ELSE ParseNumber(f, i, 0) \o <<args>>

ParseType(f, i) ==
    CASE At(f, i) = "h" /\ At(f, i + 1) = "h" -> <<i + 2, "CHAR">>
      [] At(f, i) = "h" /\ At(f, i + 1) # "h" -> <<i + 1, "SHORT">>
      [] At(f, i) = "j" -> <<i + 1, "INTMAX">>
      [] At(f, i) = "l" /\ At(f, i + 1) = "l" -> <<i + 2, "LONGLONG">>
      [] At(f, i) = "l" /\ At(f, i + 1) # "l" -> <<i + 1, "LONG">>
      [] At(f, i) = "t" -> <<i + 1, "PTRDIFFT">>
      [] At(f, i) = "z" -> <<i + 1, "SIZET">>
      [] OTHER -> <<i, "INT">>

\* The conversion, the place of its conversion character and the arguments left.
parse_conversion(f, i0, args) ==
    LET fl == ParseFlags(f, i0, {})
        w == NumberOrStar(f, fl[1], args)
        dot == At(f, w[1]) = "."
        p == IF dot THEN NumberOrStar(f, w[1] + 1, w[3]) ELSE <<w[1], -1, w[3]>>
        precision == Max({-1, p[2]})
        flags == (fl[2] \cup (IF w[2] < 0 THEN {"-"} ELSE {}))
                 \ (IF precision >= 0 THEN {"0"} ELSE {})
        t == ParseType(f, p[1])
    IN  [flags |-> flags, width |-> IF w[2] < 0 THEN -w[2] ELSE w[2],
         precision |-> precision, type |-> t[2], at |-> t[1], args |-> p[3]]

BaseOf(ch) == CASE ch = "o" -> base_o [] ch = "u" -> base_d [] ch = "x" -> base_x [] ch = "X" -> base_X

\* One conversion's text.
Converted(ch, c, arg) ==
    CASE ch \in {"d", "i"} ->
             LET v == Signed(arg, c.type)
             IN  format_integer(IF v < 0 THEN -v ELSE v, TRUE, v < 0, base_d, c)
      [] ch \in {"o", "u", "x", "X"} ->
             format_integer(Unsigned(arg, c.type), FALSE, FALSE,
                            BaseOf(ch), c)
      [] ch = "c" -> format_string(arg, 1, c)
      [] ch = "s" ->
             LET s == IF arg = NULL THEN <<"(", "n", "u", "l", "l", ")">> ELSE arg
             IN  format_string(s, IF c.precision = -1 THEN Len(s)
                                  ELSE Min({Len(s), c.precision}), c)
      [] ch = "p" -> format_integer(Unsigned(arg, "LONG"), FALSE, FALSE, base_x,
                                    [c EXCEPT !.flags = {"#"}])

ConversionChars == {"d", "i", "o", "u", "x", "X", "c", "s", "p"}

\* <<no %f in kernel>> and <<no %y conversion>>, whose words are one character here.
Unsupported(ch) ==
    IF ch \in {"f", "e", "E", "g", "G", "n"} THEN <<"?", ch>> ELSE <<"!", ch>>

RECURSIVE VprintfFrom(_, _, _)
VprintfFrom(f, i, args) ==
    IF i > Len(f) THEN <<>>
    ELSE IF f[i] # "%" THEN <<f[i]>> \o VprintfFrom(f, i + 1, args)
    ELSE IF At(f, i + 1) = "%" THEN <<"%">> \o VprintfFrom(f, i + 2, args)
    ELSE LET c == parse_conversion(f, i + 1, args)
             ch == At(f, c.at)
         IN  IF ch \in ConversionChars
             THEN Converted(ch, c, c.args[1]) \o VprintfFrom(f, c.at + 1, Tail(c.args))
             ELSE Unsupported(ch) \o VprintfFrom(f, c.at + 1, c.args)

__vprintf(format, args) == VprintfFrom(format, 1, args)

\* The buffer after vsnprintf wrote text into it, as what it stores and the value it returns.
RECURSIVE SnprintfHelper(_, _, _, _)
SnprintfHelper(text, stored, length, max_length) ==
    IF text = <<>> THEN <<stored, length>>
    ELSE SnprintfHelper(Tail(text),
                        IF length < max_length THEN Append(stored, text[1]) ELSE stored,
                        length + 1, max_length)

\* Mutant: the null byte has no place of its own.
vsnprintf_full(buf_size, format, args) ==
    LET r == SnprintfHelper(__vprintf(format, args), <<>>, 0, buf_size)
    IN  [buffer |-> IF buf_size > 0 THEN Append(r[1], "") ELSE r[1], returns |-> r[2]]

vsnprintf(buf_size, format, args) ==
    LET r == SnprintfHelper(__vprintf(format, args), <<>>, 0,
                            IF buf_size > 0 THEN buf_size - 1 ELSE 0)
    IN  [buffer |-> IF buf_size > 0 THEN Append(r[1], "") ELSE r[1], returns |-> r[2]]

\* hex_dump: the lines as their offset, the columns skipped, and the bytes shown.
RECURSIVE hex_dump(_, _, _)
hex_dump(ofs, bytes, per_line) ==
    IF bytes = <<>> THEN <<>>
    ELSE LET start == ofs % per_line
             n == Min({per_line - start, Len(bytes)})
         IN  <<[ofs |-> ofs - start, skip |-> start, bytes |-> SubSeq(bytes, 1, n)]>>
             \o hex_dump(ofs + n, SubSeq(bytes, n + 1, Len(bytes)), per_line)

\* print_human_readable_size: the number printed and how many times it was divided by `unit'.
RECURSIVE print_human_readable_size(_, _, _, _)
print_human_readable_size(size, unit, factor, factors) ==
    IF size >= unit /\ factor + 1 < factors
    THEN print_human_readable_size(size \div unit, unit, factor + 1, factors)
    ELSE <<size, factor>>
=============================================================================
