------------------------------- MODULE Loader -------------------------------
(***************************************************************************)
(* userprog/process.c: what load and start_process put into a new address  *)
(* space.  Addresses are 0..SPACE-1 and wrap at SPACE; the user part ends  *)
(* at PHYS_BASE.  PGSIZE is the size of a page.  A pointer has 4 bytes.    *)
(***************************************************************************)
EXTENDS Integers, Sequences, FiniteSets, FiniteSetsExt

CONSTANTS PGSIZE, PHYS_BASE, SPACE, MAX_ARGS

PageOf(a) == a - (a % PGSIZE)
RoundUp(n) == PGSIZE * ((n + PGSIZE - 1) \div PGSIZE)
is_user_vaddr(a) == a < PHYS_BASE

validate_segment(phdr, file_length) ==
    LET end == (phdr.p_vaddr + phdr.p_memsz) % SPACE
    IN  /\ phdr.p_offset % PGSIZE = phdr.p_vaddr % PGSIZE
        /\ phdr.p_offset <= file_length
        /\ phdr.p_memsz >= phdr.p_filesz
        /\ phdr.p_memsz # 0
        /\ is_user_vaddr(phdr.p_vaddr)
        /\ is_user_vaddr(end)
        /\ end >= phdr.p_vaddr
        /\ phdr.p_vaddr >= PGSIZE

\* One supplemental page per page: its address, file offset, bytes from the file, writable.
RECURSIVE load_segment(_, _, _, _, _)
load_segment(ofs, upage, read_bytes, zero_bytes, writable) ==
    IF read_bytes <= 0 /\ zero_bytes <= 0 THEN {}
    ELSE LET page_read_bytes == IF read_bytes < PGSIZE THEN read_bytes ELSE PGSIZE
         IN  {[addr |-> upage, ofs |-> ofs, bytes |-> page_read_bytes, writable |-> writable]}
             \cup load_segment(ofs + PGSIZE, upage + PGSIZE, read_bytes - page_read_bytes,
                               zero_bytes - (PGSIZE - page_read_bytes), writable)

LoadSegment_unaligned(phdr) ==
    LET read_bytes == IF phdr.p_filesz > 0 THEN (phdr.p_vaddr % PGSIZE) + phdr.p_filesz ELSE 0
    IN  load_segment(PageOf(phdr.p_offset), PageOf(phdr.p_vaddr), read_bytes,
                     RoundUp(phdr.p_memsz) - read_bytes, phdr.writable)

\* The PT_LOAD case of load's loop.
LoadSegment(phdr) ==
    LET page_offset == phdr.p_vaddr % PGSIZE
        read_bytes == IF phdr.p_filesz > 0 THEN page_offset + phdr.p_filesz ELSE 0
        zero_bytes == RoundUp(page_offset + phdr.p_memsz) - read_bytes
    IN  load_segment(PageOf(phdr.p_offset), PageOf(phdr.p_vaddr), read_bytes, zero_bytes,
                     phdr.writable)

\* The loop over the program headers: the pages, or Failure when load gives up.
Failure == {[addr |-> -1]}
RECURSIVE LoadHeaders_skip(_, _, _)
LoadHeaders_skip(phdrs, file_length, pages) ==
    IF phdrs = <<>> THEN pages
    ELSE LET p == phdrs[1]
         IN  IF p.p_type \in {"PT_DYNAMIC", "PT_INTERP", "PT_SHLIB", "unreadable"} THEN Failure
             ELSE IF p.p_type # "PT_LOAD" \/ ~ validate_segment(p, file_length)
             THEN LoadHeaders_skip(Tail(phdrs), file_length, pages)
             ELSE LoadHeaders_skip(Tail(phdrs), file_length, pages \cup LoadSegment(p))

RECURSIVE LoadHeaders(_, _, _)
LoadHeaders(phdrs, file_length, pages) ==
    IF phdrs = <<>> THEN pages
    ELSE LET p == phdrs[1]
         IN  IF p.p_type \in {"PT_DYNAMIC", "PT_INTERP", "PT_SHLIB", "unreadable"} THEN Failure
             ELSE IF p.p_type # "PT_LOAD" THEN LoadHeaders(Tail(phdrs), file_length, pages)
             ELSE IF ~ validate_segment(p, file_length) THEN Failure
             ELSE LoadHeaders(Tail(phdrs), file_length, pages \cup LoadSegment(p))

\* setup_stack maps the topmost user page, zeroed and writable.
setup_stack == [addr |-> PHYS_BASE - PGSIZE, ofs |-> 0, bytes |-> 0, writable |-> TRUE]

\* file: its length, whether its ELF header passes the tests, its program headers.
load(file) ==
    IF ~ file.header_ok THEN Failure
    ELSE LET pages == LoadHeaders(file.phdrs, file.length, {})
         IN  IF pages = Failure THEN Failure ELSE pages \cup {setup_stack}

WordStep_unterminated(w, c) ==
    LET begins == ~ w.in_word /\ c # " "
        ends == w.in_word /\ c = " "
    IN  [in_word |-> (w.in_word \/ begins) /\ ~ ends,
         argv |-> IF begins THEN Append(w.argv, w.num_chars) ELSE w.argv,
         text |-> Append(w.text, c), num_chars |-> w.num_chars + 1]

\* start_process: one character of the command line; w is the state of the loop.
WordStep(w, c) ==
    LET begins == ~ w.in_word /\ c # " "
        ends == w.in_word /\ c = " "
    IN  [in_word |-> (w.in_word \/ begins) /\ ~ ends,
         argv |-> IF begins THEN Append(w.argv, w.num_chars) ELSE w.argv,
         text |-> Append(w.text, IF ends THEN "" ELSE c), num_chars |-> w.num_chars + 1]

\* The loop ends at the end of the string, at the last pointer, or when the page would be full.
RECURSIVE Words(_, _)
Words(line, w) ==
    IF line = <<>> \/ Len(w.argv) >= MAX_ARGS - 1 THEN w
    ELSE LET n == WordStep(w, line[1])
         IN  IF PGSIZE <= (Len(n.argv) + 5) * 4 + n.num_chars THEN n ELSE Words(Tail(line), n)

\* The stack start_process builds: the string bytes, the argv pointers and the final esp.
start_process(line) ==
    LET w == Words(line, [in_word |-> FALSE, argv |-> <<>>, text |-> <<>>, num_chars |-> 0])
        num_chars == w.num_chars + 1
        argc == Len(w.argv)
        str == PHYS_BASE - 2 - num_chars
        rest == [i \in 1..(Len(line) - w.num_chars) |-> line[w.num_chars + i]]
        bytes == [i \in 1..num_chars |-> (w.text \o rest \o <<"">>)[i]]
        \* memcpy, then the null byte one past the copied characters.
        mem == [a \in str..(str + num_chars) |-> IF a = str + num_chars THEN "" ELSE bytes[a - str + 1]]
        aligned == str - (str % 4)
        argvs == aligned - 4 * (argc + 1)
    IN  [mem |-> mem, argc |-> argc, argv |-> [i \in 1..argc |-> str + w.argv[i]],
         argv_at |-> argvs, esp |-> argvs - 12]
=============================================================================
