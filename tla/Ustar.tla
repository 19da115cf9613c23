------------------------------- MODULE Ustar -------------------------------
(***************************************************************************)
(* lib/ustar.c: headers of tar archives.  A header is a record of the      *)
(* fields the code fills in or checks, each a sequence of characters; the  *)
(* null byte is "".  NAME_SIZE and SIZE_SIZE are the sizes of the name and *)
(* of the octal fields, ULONG_MAX and INT_MAX the limits of the C types.   *)
(***************************************************************************)
EXTENDS Integers, Sequences, FiniteSetsExt, SequencesExt

CONSTANTS NAME_SIZE, SIZE_SIZE, ULONG_MAX, INT_MAX

USTAR_REGULAR == "0"
USTAR_DIRECTORY == "5"
USTAR_EOF == "eof"

Alphabet == <<" ", ".", "/", "0", "1", "2", "3", "4", "5", "6", "7", "a", "r", "s", "t", "u">>

\* The octet of a character; only that different characters have different ones matters.
Octet(c) == IF c = "" THEN 0 ELSE CHOOSE i \in DOMAIN Alphabet : Alphabet[i] = c

\* s cut or filled with null bytes to size bytes.
Field(s, size) == [i \in 1..size |-> IF i <= Len(s) THEN s[i] ELSE ""]

Octets(field) == FoldLeft(LAMBDA sum, c : sum + Octet(c), 0, field)

\* The chksum field counts as if it were all spaces.
calculate_chksum_unnamed(h) ==
    Octets(h.size) + Octets(h.typeflag) + Octets(h.magic) + Octets(h.version)
    + Octets(h.prefix) + Len(h.chksum) * Octet(" ")

calculate_chksum(h) ==
    Octets(h.name) + Octets(h.size) + Octets(h.typeflag) + Octets(h.magic) + Octets(h.version)
    + Octets(h.prefix) + Len(h.chksum) * Octet(" ")

StartsWith(s, prefix) == Len(s) >= Len(prefix) /\ SubSeq(s, 1, Len(prefix)) = prefix

RECURSIVE Stripped(_)
Stripped(s) ==
    IF StartsWith(s, <<"/">>) \/ StartsWith(s, <<".", "/">>) \/ StartsWith(s, <<".", ".", "/">>)
    THEN LET slash == Min({i \in DOMAIN s : s[i] = "/"})
         IN  Stripped(SubSeq(s, slash + 1, Len(s)))
    ELSE s

strip_antisocial_prefixes_empty(file_name) == Stripped(file_name)

strip_antisocial_prefixes(file_name) ==
    LET s == Stripped(file_name) IN IF s \in {<<>>, <<".", ".">>} THEN <<".">> ELSE s

\* "%0No" with N = SIZE_SIZE - 1: zeros to the left, and the null byte that snprintf writes.
RECURSIVE OctalDigits(_, _)
OctalDigits(v, n) ==
    IF n = 0 THEN <<>> ELSE Append(OctalDigits(v \div 8, n - 1), ToString(v % 8))

OctalField(v) == Field(OctalDigits(v, SIZE_SIZE - 1), SIZE_SIZE)

Failed == [ok |-> FALSE]

ustar_make_header(file_name, type, size) ==
    LET name == strip_antisocial_prefixes(file_name)
        h == [ok |-> TRUE, name |-> Field(name, NAME_SIZE), size |-> OctalField(size),
              chksum |-> Field(<<>>, SIZE_SIZE), typeflag |-> <<type>>,
              magic |-> <<"u", "s", "t", "a", "r", "">>, version |-> <<"0", "0">>,
              prefix |-> <<"">>]
    IN  IF Len(name) > NAME_SIZE - 1 THEN Failed
        ELSE [h EXCEPT !.chksum = OctalField(calculate_chksum(h))]

\* -1 where the field is bad.
RECURSIVE OctalFrom(_, _, _)
OctalFrom(s, ofs, value) ==
    IF ofs > Len(s) THEN -1
    ELSE IF \E d \in 0..7 : s[ofs] = ToString(d)
         THEN IF value > ULONG_MAX \div 8 THEN -1
              ELSE OctalFrom(s, ofs + 1, (CHOOSE d \in 0..7 : s[ofs] = ToString(d)) + value * 8)
         ELSE IF s[ofs] \in {" ", ""} /\ ofs > 1 THEN value ELSE -1

parse_octal_field(s) == OctalFrom(s, 1, 0)

\* The bytes of a string field up to its null byte.
CString(field) ==
    LET nul == {i \in DOMAIN field : field[i] = ""}
    IN  IF nul = {} THEN field ELSE SubSeq(field, 1, Min(nul) - 1)

is_all_zeros(h) ==
    \A f \in DOMAIN h \ {"ok"} : \A i \in DOMAIN h[f] : h[f][i] = ""

Error(message) == [error |-> message]

ustar_parse_header(h) ==
    IF is_all_zeros(h) THEN [name |-> <<>>, type |-> USTAR_EOF, size |-> 0]
    ELSE IF h.magic # <<"u", "s", "t", "a", "r", "">> THEN Error("not a ustar archive")
    ELSE IF h.version # <<"0", "0">> THEN Error("invalid ustar version")
    ELSE IF parse_octal_field(h.chksum) = -1 THEN Error("corrupt chksum field")
    ELSE IF parse_octal_field(h.chksum) # calculate_chksum(h) THEN Error("checksum mismatch")
    ELSE IF h.name[NAME_SIZE] # "" \/ h.prefix[1] # "" THEN Error("file name too long")
    ELSE IF h.typeflag[1] \notin {USTAR_REGULAR, USTAR_DIRECTORY}
         THEN Error("unimplemented file type")
    ELSE IF h.typeflag[1] = USTAR_REGULAR /\ parse_octal_field(h.size) = -1
         THEN Error("corrupt file size field")
    ELSE IF h.typeflag[1] = USTAR_REGULAR /\ parse_octal_field(h.size) > INT_MAX
         THEN Error("file too large")
    ELSE [name |-> strip_antisocial_prefixes(CString(h.name)), type |-> h.typeflag[1],
          size |-> IF h.typeflag[1] = USTAR_REGULAR THEN parse_octal_field(h.size) ELSE 0]
=============================================================================
