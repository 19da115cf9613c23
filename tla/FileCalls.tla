----------------------------- MODULE FileCalls -----------------------------
(***************************************************************************)
(* Files and the system calls on them (filesys/file.c, userprog/syscall.c),*)
(* by processes that call one after the other, with what the buffer cache  *)
(* does between two calls, and a shutdown and start of the kernel.         *)
(*                                                                         *)
(* A call is one step.  The calls of threads that interleave are not here: *)
(* nothing but the lock of each cache block and extension_lock keeps them  *)
(* apart (BufferCache).                                                    *)
(***************************************************************************)
EXTENDS Directory, FiniteSetsExt

CONSTANTS
    Procs,              \* process 0 is the one that main starts
    MAX_FILES,          \* size of a process's table of descriptors
    MAX_GLOBAL_FILES,   \* size of open_files
    PGSIZE,             \* words of a page of user memory
    Paths, Sizes,       \* paths, and sizes of new files, that the calls are given
    Transfers,          \* <<bytes, offset in the first page, pages that are valid>>
    StartSizes,         \* sizes of the file that there is at the start
    MaxCalls            \* calls of a run

VARIABLES
    fs,          \* the state of the file system (Inode)
    open_files,  \* slot -> struct file
    proc,        \* process -> its part of struct process
    content,     \* sector of a file's inode -> what was written to the file
    leaked,      \* sectors that are marked in the free map for no file
    left         \* calls left

vars == <<fs, open_files, proc, content, leaked, left>>

Fds == 0..(MAX_FILES - 1)
Slots == 0..(MAX_GLOBAL_FILES - 1)

\* struct file; dir_reopen and dir_readdir take one for a struct dir.
file(inode, is_dir) == [inode |-> inode, pos |-> 0, deny_write |-> FALSE, is_dir |-> is_dir]
NULL == file(-1, FALSE)

\* The fields of struct process that are about files.
process(cwd, exe) == [live |-> TRUE, files |-> [fd \in Fds |-> -1], working_dir |-> cwd, file |-> exe]
NoProcess == [process(-1, NULL) EXCEPT !.live = FALSE]

\* The kernel has started on a device with these contents.
Boot(k) ==
    /\ fs = Ret(dir_open_root(k), <<>>)
    /\ open_files = [i \in Slots |-> NULL]
    /\ proc = [p \in Procs |-> IF p = 0 THEN process(ROOT_DIR_SECTOR, NULL) ELSE NoProcess]

\* A device that was formatted, with directory "d", and file "a" of that size.
Formatted(size) ==
    LET Path(name) == [root |-> TRUE, names |-> <<name>>]
    IN Then([k \in {dir_open_root(filesys_init([s \in 0..(DeviceSize - 1) |-> Blank], TRUE))} |->
         dir_close(filesys_create(filesys_create(k, ROOT_DIR_SECTOR, Path("d"), 4, TRUE),
                                  ROOT_DIR_SECTOR, Path("a"), size, FALSE),
                   ROOT_DIR_SECTOR)])

Init ==
    \E size \in StartSizes : \E k \in {Formatted(size)} :
      /\ Boot(k)
      /\ content = (FoundEntry(lookup(k, ROOT_DIR_SECTOR, "a")).sector :> [i \in 1..size |-> Zero])
      /\ leaked = {}
      /\ left = MaxCalls

-----------------------------------------------------------------------------
\* filesys/file.c, on the inode of file f.

file_deny_write(k, f) == inode_deny_write(k, f.inode)

file_close(k, f) ==
    Then([l \in {IF f.deny_write THEN inode_allow_write(k, f.inode) ELSE k} |-> Go(l, inode_close(l, f.inode))])

\* file_read and file_write; ret is the number of bytes.
file_read(k, f, size) ==
    Then([l \in {inode_read_at(k, f.inode, size, f.pos)} |-> Go(l, Ret(l, Len(l.ret)))])

file_write(k, f, buffer) == inode_write_at(k, f.inode, buffer, f.pos)

-----------------------------------------------------------------------------
\* The calls.

Running(p) == proc[p].live /\ fs.panic = "none" /\ left > 0

\* The call leaves the file system as l.
Becomes(l) ==
    /\ fs' = Ret(l, <<>>)
    /\ left' = left - 1

\* What was written to the files that there still are.
Alive(c, l) == [s \in DOMAIN c \cap l.map |-> c[s]]

Slot(p, fd) == proc[p].files[fd]
OpenFile(p, fd) == open_files[Slot(p, fd)]
HasFile(p, fd) == Slot(p, fd) # -1 /\ OpenFile(p, fd) # NULL

\* The lowest of a set of numbers, or n if there is none.
First(S, n) == IF S = {} THEN n ELSE CHOOSE i \in S : \A j \in S : i <= j

create_dir_entry(p, path, initial_size, is_dir) ==
    /\ Running(p)
    /\ \E l \in {filesys_create(fs, proc[p].working_dir, path, initial_size, is_dir)} :
         /\ Becomes(l)
         /\ content' = IF l.panic = "none" /\ l.ret /\ ~ is_dir
                       THEN (First((0..DeviceSize) \ fs.map, 0) :> [i \in 1..initial_size |-> Zero]) @@ content
                       ELSE content
         /\ leaked' = IF l.panic = "none" /\ ~ l.ret THEN leaked \cup (l.map \ fs.map) ELSE leaked
    /\ UNCHANGED <<open_files, proc>>

create(p, path, initial_size) == create_dir_entry(p, path, initial_size, FALSE)
mkdir(p, path) == create_dir_entry(p, path, 4, TRUE)

remove(p, path) ==
    /\ Running(p)
    /\ \E l \in {filesys_remove(fs, proc[p].working_dir, path)} :
         Becomes(l) /\ content' = Alive(content, l)
    /\ UNCHANGED <<open_files, proc, leaked>>

open(p, path) ==
    LET fd == First({i \in Fds \ {0, 1} : Slot(p, i) = -1}, MAX_FILES)
        slot == First({i \in Slots : open_files[i] = NULL}, MAX_GLOBAL_FILES)
    IN /\ Running(p)
       /\ \E l \in {IF fd = MAX_FILES THEN Ret(fs, <<>>)
                    ELSE filesys_open(fs, proc[p].working_dir, path)} :
            \/ /\ l.panic # "none" \/ l.ret = <<>>
               /\ Becomes(l)
               /\ UNCHANGED <<open_files, proc, content>>
            \/ /\ l.panic = "none" /\ l.ret # <<>>
               /\ slot = MAX_GLOBAL_FILES
               /\ \E m \in {file_close(l, file(l.ret[1], l.ret[2]))} :
                    Becomes(m) /\ content' = Alive(content, m)
               /\ UNCHANGED <<open_files, proc>>
            \/ /\ l.panic = "none" /\ l.ret # <<>>
               /\ slot # MAX_GLOBAL_FILES
               /\ Becomes(l)
               /\ open_files' = [open_files EXCEPT ![slot] = file(l.ret[1], l.ret[2])]
               /\ proc' = [proc EXCEPT ![p].files[fd] = slot]
               /\ UNCHANGED content
       /\ UNCHANGED leaked

close(p, fd) ==
    /\ Running(p)
    /\ HasFile(p, fd)
    /\ \E l \in {file_close(fs, OpenFile(p, fd))} : Becomes(l) /\ content' = Alive(content, l)
    /\ open_files' = [open_files EXCEPT ![Slot(p, fd)] = NULL]
    /\ proc' = [proc EXCEPT ![p].files[fd] = -1]
    /\ UNCHANGED leaked

-----------------------------------------------------------------------------
\* read and write go page by page through the buffer of the caller.

NextChunk(size) == IF size \div PGSIZE > 0 THEN PGSIZE ELSE size % PGSIZE
FirstChunk(size, ofs) == IF ofs > 0 THEN Least(size, PGSIZE - ofs) ELSE NextChunk(size)

(***************************************************************************)
(* The loop of read (value is Zero) and of write (of that value): good of  *)
(* the pages of the buffer are valid.  ret is the new position, and whether*)
(* the process was ended for the page after them.                          *)
(***************************************************************************)
RECURSIVE Transfer(_, _, _, _, _, _)
Transfer(k, f, value, size, chunk, good) ==
    LET Move(l) == IF value = Zero THEN file_read(l, f, chunk)
                   ELSE file_write(l, f, [i \in 1..chunk |-> value])
    IN IF size = 0 THEN Ret(k, [pos |-> f.pos, killed |-> FALSE])
       ELSE IF good = 0 THEN Ret(k, [pos |-> f.pos, killed |-> TRUE])
       ELSE Then([l \in {Move(k)} |-> Go(l,
              IF l.ret = 0 THEN Ret(l, [pos |-> f.pos, killed |-> FALSE])
              ELSE Transfer(l, [f EXCEPT !.pos = @ + l.ret], value,
                            size - chunk, NextChunk(size - chunk), good - 1))])

\* What close does for each descriptor of p, from fd on, and process_exit for
\* its program.
RECURSIVE CloseFrom(_, _, _)
CloseFrom(k, p, fd) ==
    IF fd = MAX_FILES \/ k.panic # "none" THEN k
    ELSE CloseFrom(IF HasFile(p, fd) THEN file_close(k, OpenFile(p, fd)) ELSE k, p, fd + 1)

Closed(k, p) == CloseFrom(IF proc[p].file = NULL THEN k ELSE file_close(k, proc[p].file), p, 0)

\* process_exit: the reference to the working directory is not given back.
\* written is what the files hold at that time.
Exit(k, p, written) ==
    /\ \E l \in {Closed(k, p)} :
         /\ Becomes([l EXCEPT !.lost[proc[p].working_dir] = @ + 1])
         /\ content' = Alive(written, l)
    /\ open_files' = [i \in Slots |-> IF \E fd \in Fds : Slot(p, fd) = i THEN NULL ELSE open_files[i]]
    /\ proc' = [proc EXCEPT ![p] = NoProcess]

exit(p) == Running(p) /\ p # 0 /\ Exit(fs, p, content) /\ UNCHANGED leaked

\* n bytes of that value, from pos on.
Written(bytes, pos, n, value) ==
    [i \in 1..(IF pos + n > Len(bytes) THEN pos + n ELSE Len(bytes)) |->
        IF i \in (pos + 1)..(pos + n) THEN value ELSE bytes[i]]

\* read or write, by which the position of the file moves.
Access(p, fd, value, size, ofs, good) ==
    LET f == OpenFile(p, fd)
        After(pos) == IF value = Zero \/ f.inode \notin DOMAIN content THEN content
                      ELSE [content EXCEPT ![f.inode] = Written(@, f.pos, pos - f.pos, value)]
    IN /\ Running(p)
       /\ HasFile(p, fd)
       /\ ~ f.is_dir
       /\ \E l \in {Transfer(fs, f, value, size, FirstChunk(size, ofs), good)} :
            \/ l.panic # "none" /\ Becomes(l) /\ UNCHANGED <<open_files, proc, content>>
            \/ l.panic = "none" /\ l.ret.killed /\ p # 0 /\ Exit(l, p, After(l.ret.pos))
            \/ /\ l.panic = "none" /\ ~ l.ret.killed
               /\ Becomes(l)
               /\ open_files' = [open_files EXCEPT ![Slot(p, fd)].pos = l.ret.pos]
               /\ content' = After(l.ret.pos)
               /\ UNCHANGED proc
       /\ UNCHANGED leaked

read(p, fd, size, ofs, good) == Access(p, fd, Zero, size, ofs, good)
write(p, fd, value, size, ofs, good) == Access(p, fd, value, size, ofs, good)

\* seek: "return" and the call of file_seek are one statement, which only a
\* descriptor without a file gets to.
seek(p, fd) ==
    /\ Running(p)
    /\ Slot(p, fd) # -1
    /\ Becomes(ASSERT(fs, OpenFile(p, fd) # NULL, "file != NULL", fs))
    /\ UNCHANGED <<open_files, proc, content, leaked>>

\* What the calls that only return look at (tell and inumber change and check nothing).
filesize(p, fd) == IF HasFile(p, fd) THEN inode_length(fs, OpenFile(p, fd).inode).ret ELSE -1
isdir(p, fd) == HasFile(p, fd) /\ OpenFile(p, fd).is_dir

\* readdir, which goes past the directory itself and its parent.
readdir(p, fd) ==
    /\ Running(p)
    /\ isdir(p, fd)
    /\ \E l \in {NextFile(fs, OpenFile(p, fd).inode, OpenFile(p, fd).pos)} :
         /\ Becomes(l)
         /\ open_files' = IF l.panic # "none" THEN open_files
                          ELSE [open_files EXCEPT ![Slot(p, fd)].pos =
                                  IF l.ret = <<>> THEN filesize(p, fd) ELSE l.ret[2]]
    /\ UNCHANGED <<proc, content, leaked>>

\* Mutant: the reference to the directory that is left is not given back.
Move_kept(k, p, new) == file_close(dir_reopen(k, new), file(new, TRUE))

\* The new working directory is opened once more, its file closed, and the old one closed.
Move(k, p, new) ==
    Then([l \in {file_close(dir_reopen(k, new), file(new, TRUE))} |-> Go(l, dir_close(l, proc[p].working_dir))])

chdir(p, path) ==
    /\ Running(p)
    /\ \E l \in {filesys_open(fs, proc[p].working_dir, path)} :
         \/ /\ l.panic # "none" \/ l.ret = <<>>
            /\ Becomes(l)
            /\ UNCHANGED <<proc, content>>
         \/ /\ l.panic = "none" /\ l.ret # <<>>
            /\ \E m \in {IF l.ret[2] THEN Move(l, p, l.ret[1])
                         ELSE file_close(l, file(l.ret[1], FALSE))} :
                 Becomes(m) /\ content' = Alive(content, m)
            /\ proc' = IF l.ret[2] THEN [proc EXCEPT ![p].working_dir = l.ret[1]] ELSE proc
    /\ UNCHANGED <<open_files, leaked>>

(***************************************************************************)
(* exec: process q works where p does and opens its program, which nobody  *)
(* may write to until q exits.  If the program cannot be loaded, q exits.  *)
(***************************************************************************)
exec(p, q, path, loads) ==
    LET cwd == proc[p].working_dir
        exe(l) == [file(l.ret[1], l.ret[2]) EXCEPT !.deny_write = TRUE]
        Gone(l) == [l EXCEPT !.lost[cwd] = @ + 1]
    IN /\ Running(p)
       /\ ~ proc[q].live
       /\ \E l \in {filesys_open(dir_reopen(fs, cwd), cwd, path)} :
            \/ /\ l.panic # "none" \/ l.ret = <<>>
               /\ Becomes(Gone(l))
               /\ UNCHANGED <<proc, content>>
            \/ /\ l.panic = "none" /\ l.ret # <<>> /\ (l.ret[2] \/ ~ loads)
               /\ \E m \in {Then([d \in {file_deny_write(l, exe(l))} |-> Go(d, file_close(d, exe(l)))])} :
                    Becomes(Gone(m)) /\ content' = Alive(content, m)
               /\ UNCHANGED proc
            \/ /\ l.panic = "none" /\ l.ret # <<>> /\ ~ l.ret[2] /\ loads
               /\ Becomes(file_deny_write(l, exe(l)))
               /\ proc' = [proc EXCEPT ![q] = process(cwd, exe(l))]
               /\ UNCHANGED content
       /\ UNCHANGED <<open_files, leaked>>

\* fsutil_ls does not close the directory.
fsutil_ls ==
    /\ Running(0)
    /\ \E l \in {Find(dir_open_root(fs), ROOT_DIR_SECTOR, 0, TRUE, "no such file")} :
         Becomes([l EXCEPT !.lost[ROOT_DIR_SECTOR] = @ + 1])
    /\ UNCHANGED <<open_files, proc, content, leaked>>

\* The loop of fsutil_cat ends when nothing is left to read.
fsutil_cat(path) ==
    LET Cat(l, f) == Then([m \in {file_read(l, f, DeviceSize * WORDS)} |-> Go(m, file_close(m, f))])
    IN /\ Running(0)
       /\ \E l \in {Then([m \in {filesys_open(fs, proc[0].working_dir, path)} |-> Go(m,
                         IF m.ret = <<>> THEN Panic(m, "open failed")
                         ELSE Cat(m, file(m.ret[1], m.ret[2])))])} :
            Becomes(l) /\ content' = Alive(content, l)
       /\ UNCHANGED <<open_files, proc, leaked>>

fsutil_rm(path) ==
    /\ Running(0)
    /\ \E l \in {filesys_remove(fs, proc[0].working_dir, path)} :
         /\ Becomes(ASSERT(l, l.ret, "delete failed", l))
         /\ content' = Alive(content, l)
    /\ UNCHANGED <<open_files, proc, leaked>>

-----------------------------------------------------------------------------
\* Between the calls.

(***************************************************************************)
(* Other blocks need the room: one copy of a sector that is free leaves    *)
(* the cache, or every copy does.  (Between the calls the copy of a sector *)
(* in use says what the device would: when it leaves makes no difference.) *)
(***************************************************************************)
Evict(S, marked) ==
    /\ fs.panic = "none" /\ left > 0
    /\ Becomes(cache_evict(fs, S, marked))
    /\ UNCHANGED <<open_files, proc, content, leaked>>

\* refresh_cache_cycle.
Refresh ==
    /\ fs.panic = "none" /\ left > 0
    /\ Becomes(refresh_cache(fs))
    /\ UNCHANGED <<open_files, proc, content, leaked>>

\* A removed file that is open when the kernel stops is not freed any more.
Orphans == {s \in DOMAIN fs.inodes : fs.inodes[s].removed}

\* shutdown_power_off, and a start that does not format the file system.
Restart ==
    /\ fs.panic = "none" /\ left > 0
    /\ \E k \in {filesys_init(filesys_done(fs).disk, FALSE)} :
         fs' = Ret(dir_open_root([k EXCEPT !.stale = fs.stale]), <<>>)
    /\ left' = left - 1
    /\ open_files' = [i \in Slots |-> NULL]
    /\ proc' = [p \in Procs |-> IF p = 0 THEN process(ROOT_DIR_SECTOR, NULL) ELSE NoProcess]
    /\ content' = [s \in DOMAIN content \ Orphans |-> content[s]]
    /\ leaked' = leaked \cup Orphans \cup UNION {Owned(fs, s) : s \in Orphans}

CallBy(p) ==
    \/ \E path \in Paths, n \in Sizes : create(p, path, n)
    \/ \E path \in Paths : mkdir(p, path) \/ remove(p, path) \/ open(p, path) \/ chdir(p, path)
    \/ \E path \in Paths, q \in Procs, loads \in BOOLEAN : exec(p, q, path, loads)
    \/ exit(p)
    \/ \E fd \in Fds \ {0, 1} :
         \/ close(p, fd) \/ seek(p, fd) \/ readdir(p, fd)
         \/ \E t \in Transfers : read(p, fd, t[1], t[2], t[3]) \/ write(p, fd, <<p + 1>>, t[1], t[2], t[3])

\* filesys/fsutil.c: what main is told to do on the kernel's command line.
Command ==
    \/ fsutil_ls
    \/ \E path \in Paths : fsutil_cat(path) \/ fsutil_rm(path)

\* The calls have been made, or the kernel has stopped.
Done == (left = 0 \/ fs.panic # "none") /\ UNCHANGED vars

Next ==
    \/ \E p \in Procs : CallBy(p)
    \/ Command
    \/ \E S \in {DOMAIN fs.cache} \cup {{s} : s \in DOMAIN fs.cache \ fs.map}, marked \in BOOLEAN :
         Evict(S, marked)
    \/ Refresh
    \/ Restart
    \/ Done

Spec == Init /\ [][Next]_vars

-----------------------------------------------------------------------------
\* Properties.

\* What directory s has entries for.
Entries(s) ==
    LET w == inode_read_at(fs, s, DeviceSize * WORDS, 0).ret
    IN {e \in {EntryOf(w[i]) : i \in 1..Len(w)} : e.in_use /\ e.name \notin {PATH_WD, PATH_PARENT}}

\* The inodes of directory s, and of the directories and files below it.
RECURSIVE Below(_)
Below(s) == {s} \cup UNION {IF e.is_dir THEN Below(e.sector) ELSE {e.sector} : e \in Entries(s)}

Inodes == Below(ROOT_DIR_SECTOR) \cup Orphans \cup {FREE_MAP_SECTOR}

\* No sector was handed out while the cache had an old copy of it.
Clean == fs.panic = "none" /\ fs.stale = {}

(***************************************************************************)
(* Every sector belongs to one file, directory or list of sectors, and the *)
(* free map has marked exactly these and the ones that are known to leak:  *)
(* create, write, remove, the last close, mkdir and a restart neither      *)
(* share nor lose a sector.                                                *)
(***************************************************************************)
SectorsAccounted ==
    Clean => \E inodes \in {Inodes} :
      \E all \in {inodes \cup UNION {Owned(fs, s) : s \in inodes}} :
        /\ FoldSet(LAMBDA s, n : n + 1 + OwnedCount(fs, s), 0, inodes) = Cardinality(all)
        /\ fs.map = all \cup {DEBUG_SECTOR} \cup leaked
        /\ all \cap leaked = {}

(***************************************************************************)
(* A file holds what was written to it, and zeros where nothing was: across*)
(* growth into indirect sectors, eviction, write-back and a restart.       *)
(***************************************************************************)
ContentsKept ==
    Clean => \A s \in DOMAIN content :
               /\ inode_length(fs, s).ret = Len(content[s])
               /\ inode_read_at(fs, s, Len(content[s]), 0).ret = content[s]

(***************************************************************************)
(* The references to an inode are counted: the open files, the working     *)
(* directories, the running programs and the lost ones.  Writes are denied *)
(* as long as a program runs.                                              *)
(***************************************************************************)
References(s) ==
    Cardinality({i \in Slots : open_files[i].inode = s})
    + Cardinality({p \in Procs : proc[p].working_dir = s})
    + Cardinality({p \in Procs : proc[p].file.inode = s})
    + (IF s = FREE_MAP_SECTOR THEN 1 ELSE 0) + fs.lost[s]

HandlesCounted ==
    fs.panic = "none" =>
      /\ DOMAIN fs.inodes = {s \in 0..(DeviceSize - 1) : References(s) > 0}
      /\ \A s \in DOMAIN fs.inodes :
           /\ fs.inodes[s].open_cnt = References(s)
           /\ fs.inodes[s].deny_write_cnt = Cardinality({p \in Procs : proc[p].file.inode = s})

(***************************************************************************)
(* The kernel does not stop, but for these reasons: a sector was handed out*)
(* again while the cache had an old copy of it; the device is full; a file *)
(* with a double indirect sector grows by a second sector below it; and a  *)
(* command of fsutil.c names a file that is not there.                     *)
(***************************************************************************)
StopsForCause ==
    fs.panic # "none" =>
      \/ fs.stale # {}
      \/ fs.panic \in {"access past end of device", "open failed", "delete failed"}
      \/ fs.panic = "*sector == 0" /\ \E i \in Slots :
           open_files[i] # NULL /\ View(fs, open_files[i].inode)[double_indirect] # Zero

=============================================================================
