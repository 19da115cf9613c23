---------------------------- MODULE KernelCalls ----------------------------
(***************************************************************************)
(* Calls of the rest of the kernel's sequential code: archives, the random *)
(* number generator, the partition table, the keyboard, the clock, the     *)
(* scheduler's arithmetic, the command line and the program loader.  With  *)
(* the calls of Library these are the calls a behaviour makes.             *)
(***************************************************************************)
EXTENDS Library

U == INSTANCE Ustar WITH NAME_SIZE <- 6, SIZE_SIZE <- 4, ULONG_MAX <- 1023, INT_MAX <- 511
G == INSTANCE Random WITH N <- 8
Q == INSTANCE Partition WITH SECTORS <- 16, MaxDepth <- 6
K == INSTANCE Kbd
C == INSTANCE Rtc
F == INSTANCE Mlfqs WITH F <- 64, PRI_MIN <- 0, PRI_MAX <- 63
B == INSTANCE Boot
X == INSTANCE Loader WITH PGSIZE <- 4, PHYS_BASE <- 24, SPACE <- 32, MAX_ARGS <- 4
Y == INSTANCE Malloc WITH PGSIZE <- 64, HEADER <- 12, MIN_BLOCK <- 8, Pages <- 3
V == INSTANCE Loader WITH PGSIZE <- 32, PHYS_BASE <- 64, SPACE <- 128, MAX_ARGS <- 4

UstarCalls ==
    [fn : {"ustar"}, name : UpTo({".", "/", "a"}, 6), type : {"0", "5"}, size : {0, 7, 64, 511}]

RandomCalls == [fn : {"random"}, seed : [1..4 -> {0, 1, 5}]]

Entries == [type : {"00", "21", "05"}, offset : {0, 1, 3, 5, 15}, size : {0, 1, 4, 11}]
PartitionCalls ==
    [fn : {"partition"}, size : {4, 12}, signature : {"aa55", "0"}, entries : [1..2 -> Entries]]

KbdCalls == [fn : {"kbd"}, keyboard : {K!kbd_init}, held : {{}}, toggles : {0},
             shifted : {FALSE}, events : {0}]

RtcCalls == [fn : {"rtc"}, clock : {"hour", "year"}, start : 1..6, steps : [1..6 -> 0..1]]

FormulaCalls == [fn : {"mlfqs"}, load_avg : 0..320, nice : {-20, -1, 0, 20}]

Words == [name : {"-q", "-r", "-rs", "-filesys", "-h", "-x", "run", "ls", "hello"}, value : {"null", "hda1"}]
LineCalls == [fn : {"line"}, bytes : [1..6 -> {0, 1}], argc : 0..4]
BootCalls == [fn : {"boot"}, argv : UpTo(Words, 3)]

SegmentCalls ==
    [fn : {"segment"}, p_vaddr : 0..31, p_memsz : {0, 1, 4, 6, 9, 30}, p_filesz : {0, 1, 5, 9},
     writable : {TRUE}, p_type : {"PT_LOAD"}]

ArgumentCalls == [fn : {"arguments"}, line : UpTo({"a", " "}, 9)]

\* A heap, with the size asked for each block that is in use; it is used by HeapStep.
HeapCalls == [fn : {"heap"}, heap : {Y!malloc_init}, asked : {<<>>}, copied : {<<0, 0, 0>>}]

Calls ==
    LibraryCalls \cup UstarCalls \cup RandomCalls \cup PartitionCalls \cup KbdCalls \cup RtcCalls
    \cup FormulaCalls \cup BootCalls \cup SegmentCalls \cup ArgumentCalls \cup HeapCalls \cup LineCalls

Call == call = NoCall /\ call' \in Calls
-----------------------------------------------------------------------------
(* lib/ustar.c *)

\* A header made for a file gives back its stripped name, type and size (0 for a directory); the
\* name that comes out of an archive is never empty, absolute or one that climbs out of the
\* directory by its first component.
UstarRoundTrip ==
    call.fn = "ustar" =>
        LET h == U!ustar_make_header(call.name, call.type, call.size)
            name == U!strip_antisocial_prefixes(call.name)
        IN  /\ name # <<>> /\ name[1] # "/" /\ name # <<".", ".">>
            /\ ~ U!StartsWith(name, <<".", ".", "/">>)
            /\ h.ok = (Len(name) <= 5)
            /\ h.ok => U!ustar_parse_header(h) =
                  [name |-> name, type |-> call.type, size |-> IF call.type = "0" THEN call.size ELSE 0]

\* A header with one changed byte is refused, or is read as the same file: the checksum catches
\* every single change, and the last byte of an octal field may be a space or a null byte.
UstarDetects ==
    call.fn = "ustar" /\ Len(call.name) <= 2 =>
        LET h == U!ustar_make_header(call.name, call.type, call.size)
        IN  h.ok => \A f \in {"name", "size", "chksum", "typeflag", "magic", "version", "prefix"} :
                      \A i \in DOMAIN h[f] : \A c \in {"", " ", "0", "1", "a"} :
                          LET r == U!ustar_parse_header([h EXCEPT ![f][i] = c])
                          IN  "error" \in DOMAIN r \/ r = U!ustar_parse_header(h)
-----------------------------------------------------------------------------
(* lib/random.c *)

\* Whatever the seed, the generator's state stays a permutation of the byte values however many
\* bytes are taken, and every byte delivered is one.
RandomPermutation ==
    call.fn = "random" =>
        \A n \in 0..4 :
            LET r == G!random_bytes(G!random_init(call.seed), 5 * n, <<>>)
            IN  /\ {r[1].s[i] : i \in 0..7} = 0..7
                /\ Len(r[2]) = 5 * n /\ ToSet(r[2]) \subseteq 0..7
                /\ G!random_ulong(r[1], 2)[2] \in 0..63
-----------------------------------------------------------------------------
(* devices/partition.c, devices/block.c and init.c's locate_block_device *)

Disk == [size |-> call.size, tables |-> [s \in {0} |-> [signature |-> call.signature, entries |-> call.entries]]]

\* Every partition registered lies inside the device although offset + size may wrap, its sectors
\* are read from the right place and from nowhere else, partition numbers are not reused, and a
\* role goes to the first partition of its type.  (Of a scan that ends; PartitionScan says which do.)
PartitionsInside ==
    call.fn = "partition" =>
        LET r == Q!partition_scan(Disk)
            role == Q!locate_block_device(r[1], "BLOCK_FILESYS", 0)
        IN  r # Q!TooDeep =>
              /\ \A i \in DOMAIN r[1] :
                    LET b == r[1][i]
                    IN  /\ b.start + b.size <= call.size
                        /\ \A s \in 0..15 :
                              /\ Q!partition_read(b, s) = IF s < b.size THEN b.start + s ELSE Q!Panic
                              /\ Q!partition_write(b, s) = Q!partition_read(b, s)
                        /\ \A k \in DOMAIN r[1] : k < i => r[1][k].name < b.name
              /\ r[1] # <<>> => role = 1

\* Which tables a scan reads, and what it finds.  The primary table's partitions are found where it
\* says.  "Reads the partition table in the given SECTOR" (partition.c:33) does not hold of the
\* others: line 79 reads sector 0 again, so an extended partition appears to hold the partitions of
\* the primary table, moved by its own offset, and among them itself.  The scan therefore never ends
\* (it runs out of stack or memory) exactly when the primary table has an extended partition that
\* lies on the disk and, moved by its offset, it or another one does so again.
PartitionScan ==
    call.fn = "partition" =>
        LET r == Q!partition_scan(Disk)
            entry == call.entries
            used == {i \in 1..2 : entry[i].type # "00" /\ entry[i].size > 0}
            extended == {i \in used : entry[i].type = "05"}
            read == {i \in extended : entry[i].offset < call.size}
            tables == {0} \cup read
            start(t, i) == ((IF t = 0 THEN 0 ELSE entry[t].offset) + entry[i].offset) % 16
            fits == {f \in tables \X (used \ extended) : start(f[1], f[2]) + entry[f[2]].size <= call.size}
        IN  IF call.signature # "aa55" THEN r = <<<<>>, 0>>
            ELSE IF \E t \in read : \E i \in extended : start(t, i) < call.size THEN r = Q!TooDeep
            ELSE /\ r[2] = Cardinality(tables) * Cardinality(used \ extended)
                 /\ Len(r[1]) = Cardinality(fits)
                 /\ {<<b.start, b.size>> : b \in ToSet(r[1])} =
                        {<<start(f[1], f[2]), entry[f[2]].size>> : f \in fits}
-----------------------------------------------------------------------------
(* devices/kbd.c *)

\* A key goes down or up.  `held' are the keys held, `toggles' counts the presses of Caps Lock,
\* `shifted' says whether one of Shift and Caps Lock was active when the last character was typed.
KeyEvent ==
    /\ call.fn = "kbd" /\ call.events < MaxEvents /\ ~ call.keyboard.rebooted
    /\ \E code \in K!Codes : \E release \in BOOLEAN :
          LET after == K!keyboard_interrupt(call.keyboard, [code |-> code, release |-> release])
          IN  /\ release = (code \in call.held)
              /\ call' = [call EXCEPT
                     !.keyboard = after,
                     !.held = IF release THEN @ \ {code} ELSE @ \cup {code},
                     !.toggles = IF code = "3a" /\ ~ release THEN @ + 1 ELSE @,
                     !.shifted = IF after.input = call.keyboard.input THEN @
                                 ELSE (call.held \cap {"2a", "36"} # {}) # (call.toggles % 2 = 1),
                     !.events = @ + 1]

\* In whatever order keys go down and up, the handler's shift state is exactly the shift keys that
\* are held, Caps Lock follows the number of its presses, no modifier sticks, and the machine
\* reboots only when Delete is pressed with Ctrl and Alt held.
KeyboardTracksKeys ==
    call.fn = "kbd" =>
        /\ \A k \in DOMAIN K!shift_keys : call.keyboard.down[K!shift_keys[k]] = (k \in call.held)
        /\ call.keyboard.caps_lock = (call.toggles % 2 = 1)
        /\ call.keyboard.rebooted =>
              /\ "DEL" \in call.held
              /\ call.held \cap {"1d", "e01d"} # {} /\ call.held \cap {"38", "e038"} # {}

\* A letter that is typed is a capital exactly when one of Shift and Caps Lock is active, or Ctrl,
\* which maps a letter of either case to one control character, named here by the capital.
LetterCase ==
    call.fn = "kbd" /\ call.keyboard.input # <<>> =>
        LET c == Last(call.keyboard.input)
        IN  c.c \in {"a", "z", "A", "Z"} => (c.c \in {"A", "Z"}) = (call.shifted \/ c.ctrl)
-----------------------------------------------------------------------------
(* devices/rtc.c *)

\* The clock around the end of an hour and of a year: instants one second apart.
Bcd(n) == <<n \div 10, n % 10>>
Instant(s, mi, h, d, mo, y) ==
    [SEC |-> Bcd(s), MIN |-> Bcd(mi), HOUR |-> Bcd(h), MDAY |-> Bcd(d), MON |-> Bcd(mo), YEAR |-> Bcd(y)]
Hour == <<Instant(57, 59, 9, 5, 6, 71), Instant(58, 59, 9, 5, 6, 71), Instant(59, 59, 9, 5, 6, 71),
          Instant(0, 0, 10, 5, 6, 71), Instant(1, 0, 10, 5, 6, 71), Instant(2, 0, 10, 5, 6, 71)>>
Year == <<Instant(57, 59, 23, 31, 12, 7), Instant(58, 59, 23, 31, 12, 7), Instant(59, 59, 23, 31, 12, 7),
          Instant(0, 0, 0, 1, 1, 8), Instant(1, 0, 0, 1, 1, 8), Instant(2, 0, 0, 1, 1, 8)>>

\* rtc_get_time, called while the clock runs, returns the time of one instant at which the clock
\* was read: never the seconds of one instant with the hour or the year of another.
ClockReadingStable ==
    call.fn = "rtc" =>
        LET clock == IF call.clock = "hour" THEN Hour ELSE Year
            plus[n \in 1..7] == IF n = 1 THEN call.start ELSE Min({6, plus[n - 1] + call.steps[n - 1]})
            at == [n \in 1..14 |-> IF n <= 7 THEN plus[n] ELSE plus[7]]
            exact(t) == C!Seconds([r \in 1..6 |-> C!bcd_to_bin(clock[t][C!Registers[r]])])
        IN  C!rtc_get_time(clock, at, 0) \in {exact(t) : t \in {plus[n] : n \in 1..7}}
-----------------------------------------------------------------------------
(* threads/fixed_point.c and the scheduler's formulas *)

\* The multi-level feedback queue's numbers stay in range: the load average never exceeds the
\* number of threads that are ready, a thread's recent_cpu decays towards its nice value without
\* changing sides, a higher recent_cpu or nice never gives a higher priority, and every priority
\* is one the scheduler has.
FeedbackBounded ==
    call.fn = "mlfqs" =>
        LET l == call.load_avg
        IN  /\ \A ready \in 0..5 :
                  /\ l <= F!to_fp(ready) => F!update_load_avg(l, ready) <= F!to_fp(ready)
                  /\ F!update_load_avg(l, ready) >= 0
            /\ \A r \in {0, 1, 63, 64, 640, 6400} :
                  LET n == F!update_recent_cpu(r, call.nice, l)
                      p == F!thread_update_mlfqs_priority(r, call.nice)
                  IN  /\ n - F!to_fp(call.nice) \in 0..r
                      /\ r > 0 => n - F!to_fp(call.nice) < r
                      /\ p \in 0..63
                      /\ F!thread_update_mlfqs_priority(r + 64, call.nice) <= p
                      /\ F!thread_update_mlfqs_priority(r, call.nice + 1) <= p
            /\ F!thread_get_load_avg(l) * 64 \in (100 * l - 32)..(100 * l + 32)
            /\ F!thread_get_recent_cpu(l) * 64 \in (100 * l - 32)..(100 * l + 32)
            /\ F!to_int(F!to_fp(call.nice)) = call.nice /\ F!round_fp(F!to_fp(call.nice)) = call.nice
            /\ F!divide(F!multiply(F!to_fp(call.nice), F!to_fp(3)), F!to_fp(3)) = F!to_fp(call.nice)
-----------------------------------------------------------------------------
(* threads/init.c *)

\* Options come before actions; the last word for a setting wins; the actions run are the words
\* after the options, in order, each with its arguments, up to the first that is unknown or
\* incomplete, and nothing runs when an option is bad.
BootRunsWords ==
    call.fn = "boot" =>
        LET r == B!parse_options(call.argv)
            a == B!run_actions(r.argv, <<>>)
            n == Len(call.argv) - Len(r.argv)
            last(name) == {i \in 1..n : call.argv[i].name = name}
        IN  r.state = "up" =>
              /\ \A i \in 1..n : call.argv[i].name \in {"-q", "-r", "-rs", "-filesys"}
              /\ r.config.filesys = IF last("-filesys") = {} THEN "null"
                                    ELSE call.argv[Max(last("-filesys"))].value
              /\ r.config.shutdown = IF last("-q") \cup last("-r") = {} THEN "none"
                                     ELSE IF Max(last("-q") \cup last("-r")) \in last("-q") THEN "power_off"
                                     ELSE "reboot"
              /\ Len(FlattenSeq(a.ran)) <= Len(r.argv)
              /\ FlattenSeq(a.ran) = SubSeq(r.argv, 1, Len(FlattenSeq(a.ran)))
              /\ a.state = "up" => FlattenSeq(a.ran) = r.argv
              /\ \A i \in DOMAIN a.ran : Len(a.ran[i]) = B!actions[a.ran[i][1].name]

\* The words of the loader's argument block: every word starts inside the block, the first at its
\* beginning and each next one after the null byte that ends the one before, and the kernel
\* panics exactly when the block does not hold as many words as the loader counted.
CommandLineSplit ==
    call.fn = "line" =>
        LET argv == B!read_command_line(call.bytes, call.argc)
            nulls == {i \in 1..6 : call.bytes[i] = 0}
            starts == {1} \cup {i + 1 : i \in nulls \ {6}}
        IN  IF Cardinality(starts) < call.argc THEN argv = <<"panic">>
            ELSE /\ Len(argv) = call.argc
                 /\ \A i \in DOMAIN argv : argv[i] \in starts /\ Cardinality({s \in starts : s < argv[i]}) = i - 1
-----------------------------------------------------------------------------
(* userprog/process.c *)

\* A segment that validate_segment accepts is mapped to whole user pages other than page 0, which
\* cover it without a gap, and every byte of it that comes from the file is read from the right
\* offset; a page never takes more than PGSIZE bytes.
SegmentMapped ==
    call.fn = "segment" =>
        \A p_offset \in 0..9 :
            LET p == [p_offset |-> p_offset] @@ call
                pages == X!LoadSegment(p)
                end == p.p_vaddr + p.p_memsz
            IN  X!validate_segment(p, 9) =>
                  /\ {g.addr : g \in pages} = {a \in 0..31 : a % 4 = 0 /\ a + 4 > p.p_vaddr /\ a < end}
                  /\ \A g \in pages : g.addr >= 4 /\ g.addr + 4 <= 24 /\ g.bytes \in 0..4
                  /\ \A i \in 0..(p.p_filesz - 1) : \E g \in pages :
                        LET a == p.p_vaddr + i
                        IN  a \in g.addr..(g.addr + g.bytes - 1) /\ g.ofs + (a - g.addr) = p.p_offset + i

\* A program with an interpreter or a segment that is no good is refused as a whole; else the
\* stack page and the pages of its loadable segments, and no others, are mapped.
ProgramLoaded ==
    call.fn = "segment" =>
        \A type \in {"PT_NOTE", "PT_INTERP", "unreadable"} :
            LET p == [p_offset |-> call.p_vaddr % 4] @@ call
                r == X!load([header_ok |-> TRUE, length |-> 9,
                             phdrs |-> <<p, [p EXCEPT !.p_type = type]>>])
            IN  IF type = "PT_NOTE" /\ X!validate_segment(p, 9)
                THEN r = X!LoadSegment(p) \cup {X!setup_stack}
                ELSE r = X!Failure

\* The null-terminated string at address a of the new stack.
RECURSIVE StringAt(_, _)
StringAt(mem, a) == IF mem[a] = "" THEN <<>> ELSE <<mem[a]>> \o StringAt(mem, a + 1)

\* A new program's main finds the words of its command line in argv, in order, on a stack whose
\* pointer is aligned and that fits its page, whenever the line stays below the two limits of the
\* loop.  The limit that is there "to make sure the stack doesn't grow too large" (process.c:213-216)
\* does not quite do so: it is tested after a character has been taken, and when a word begins with
\* that character its pointer has not been counted before.  The stack is then one word too large for
\* its page, and the return address lies below it, exactly when the count is past the limit by two.
ArgumentsPassed ==
    call.fn = "arguments" =>
        LET words == Split(call.line, {" "}, <<>>)
            s == V!start_process(call.line)
            fits == Len(words) < 3 /\ 32 > (Len(words) + 5) * 4 + Len(call.line)
            kept == Cardinality(DOMAIN s.mem) - 2
        IN  /\ s.esp % 4 = 0
            /\ IF (s.argc + 5) * 4 + kept < 32 + 2 THEN s.esp >= 32 ELSE s.esp = 32 - 4
            /\ fits => /\ s.argc = Len(words)
                       /\ \A i \in 1..s.argc : StringAt(s.mem, s.argv[i]) = words[i]
-----------------------------------------------------------------------------
(* threads/malloc.c, threads/palloc.c *)

Without(f, x) == [y \in DOMAIN f \ {x} |-> f[y]]
Sizes == {0, 5, 16, 20, 60, 130}

\* One call of malloc, free or realloc; copied is <<bytes copied, old size, new size>>.
HeapStep ==
    /\ call.fn = "heap"
    /\ \/ \E size \in Sizes :
            LET r == Y!malloc(call.heap, size)
            IN  /\ Cardinality(DOMAIN call.asked) < MaxBlocks
                /\ call' = [call EXCEPT !.heap = r[1], !.copied = <<0, 0, 0>>,
                               !.asked = IF r[2] = Y!NULL THEN @ ELSE (r[2] :> size) @@ @]
       \/ \E b \in DOMAIN call.asked :
            call' = [call EXCEPT !.heap = Y!free(@, b), !.asked = Without(@, b), !.copied = <<0, 0, 0>>]
       \/ \E b \in DOMAIN call.asked : \E size \in Sizes :
            LET r == Y!realloc(call.heap, b, size)
            IN  call' = [call EXCEPT !.heap = r[1],
                            !.copied = IF r[2] = Y!NULL THEN <<0, 0, 0>> ELSE <<r[3], call.asked[b], size>>,
                            !.asked = IF size = 0 THEN Without(@, b)
                                      ELSE IF r[2] = Y!NULL THEN @ ELSE (r[2] :> size) @@ Without(@, b)]

Bytes(b) == b..(b + call.asked[b] - 1)

\* Blocks in use never overlap one another or an arena's header, lie in pages that are taken, and
\* stay apart from every block of a free list; an arena's free_cnt is the number of its blocks on
\* the free list, and never that of all of them: an arena without a block in use is given back.
HeapSound ==
    call.fn = "heap" =>
        LET h == call.heap
            live == DOMAIN call.asked
            lists == {<<d, i>> : d \in Y!descs, i \in 1..20} \cap UNION {{d} \X DOMAIN h.free_list[d] : d \in Y!descs}
            freeBlock(x) == h.free_list[x[1]][x[2]]
        IN  /\ \A b \in live : /\ \A c \in live \ {b} : Bytes(b) \cap Bytes(c) = {}
                               /\ \A x \in lists : Bytes(b) \cap (freeBlock(x)..(freeBlock(x) + x[1] - 1)) = {}
                               /\ {a \div 64 : a \in Bytes(b)} \subseteq h.used
                               /\ \A p \in DOMAIN h.arena : Bytes(b) \cap ((64 * p)..(64 * p + 11)) = {}
            /\ \A x, y \in lists : x # y => freeBlock(x) # freeBlock(y)
            /\ \A p \in DOMAIN h.arena :
                  LET a == h.arena[p]
                  IN  a.desc # Y!NULL =>
                        /\ a.free_cnt = Cardinality({x \in lists : freeBlock(x) \div 64 = p})
                        /\ a.free_cnt < Y!blocks_per_arena(a.desc)
            /\ live = {} => h.used = {} /\ lists = {}

\* realloc copies everything the old block was asked to hold that the new one is asked to hold,
\* and no more than the new one is asked to hold.
ReallocKeeps ==
    call.fn = "heap" =>
        LET c == call.copied IN c[1] >= Min({c[2], c[3]}) /\ c[1] <= c[3]
-----------------------------------------------------------------------------
(* What is checked, by the part of the kernel. *)

\* Lists, hash tables, bitmaps and sorted arrays are the sequences, maps, sets and orders they
\* stand for, after every operation and at every size, growing, shrinking, empty and full.
ContainersCorrect == ListSortStable /\ ListOperations /\ HashIsMap /\ BitmapIsSet /\ SortAndSearch

\* Strings, numbers and formatted output: copies stay in their bounds, searches and tokens are
\* those of the definitions, what printf writes reads back as the number, and the 64-bit division
\* made of 32-bit steps is exact (its remainder only when it fits 32 bits).
TextCorrect ==
    /\ MoveOverlap /\ SearchesFind /\ TokensAreRuns /\ CopiesBounded
    /\ AtoiReadsPrintf /\ PrintfSpells /\ SnprintfTruncates /\ DumpsShow
    /\ DivisionExact

\* What comes from outside: archives, primary partition tables, keys and the clock are read as what
\* they say or refused (an extended partition is read as PartitionScan says, which is not what its
\* table says), and the numbers of the generator and of the scheduler stay in range.
DevicesCorrect ==
    /\ UstarRoundTrip /\ UstarDetects /\ PartitionsInside /\ PartitionScan
    /\ KeyboardTracksKeys /\ LetterCase /\ ClockReadingStable /\ RandomPermutation /\ FeedbackBounded

\* From the loader's argument block to a program's main: the kernel does what the command line
\* says, and a program gets its segments, its stack and its arguments (or, if they are too long, the
\* first of them, on a stack that may be a word too large).
StartupCorrect == CommandLineSplit /\ BootRunsWords /\ SegmentMapped /\ ProgramLoaded /\ ArgumentsPassed

\* Blocks of malloc never overlap, arenas come and go with their blocks, and realloc keeps what
\* was stored, in any sequence of calls with three pages of memory.
HeapCorrect == HeapSound /\ ReallocKeeps
-----------------------------------------------------------------------------
Next == Call \/ Return \/ HashStep \/ KeyEvent \/ HeapStep
Spec == Init /\ [][Next]_call
=============================================================================
