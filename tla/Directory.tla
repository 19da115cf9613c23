----------------------------- MODULE Directory -----------------------------
(***************************************************************************)
(* Directories and paths (filesys/directory.c, filesys/filesys.c).  A      *)
(* directory is known by the sector of its inode; who has it open holds    *)
(* one reference to that inode.  A directory entry is one word.            *)
(*                                                                         *)
(* A path is a record: whether it starts with '/', and what stands between *)
(* the slashes.  "./a" gives <<"", "a">>: resolve_path drops the dot and   *)
(* finds an empty name.                                                    *)
(***************************************************************************)
EXTENDS Inode

CONSTANT
    LongNames   \* the names with more than NAME_MAX characters

PATH_WD == "."
PATH_PARENT == ".."

\* struct dir_entry.
dir_entry(s, name, in_use, is_dir) == <<s, name, in_use, is_dir>>

\* What a word says as a directory entry: anything but zeros is in use.
EntryOf(w) ==
    IF Len(w) = 4 THEN [sector |-> w[1], name |-> w[2], in_use |-> w[3], is_dir |-> w[4]]
    ELSE [sector |-> SectorOf(w), name |-> "?", in_use |-> w # Zero, is_dir |-> TRUE]

AnyName == "*"

(***************************************************************************)
(* The loop over directory s: the first entry from ofs on that is in use   *)
(* or not, as wanted, with that name.  ret is the entry and its offset, or *)
(* <<>> and the end of the directory.                                      *)
(***************************************************************************)
RECURSIVE Find(_, _, _, _, _)
Find(k, s, ofs, in_use, name) ==
    LET Match(w) == EntryOf(w).in_use = in_use /\ name \in {EntryOf(w).name, AnyName}
    IN Then([l \in {inode_read_at(k, s, 1, ofs)} |-> Go(l,
         IF l.ret = <<>> \/ Match(l.ret[1]) THEN Ret(l, [entry |-> l.ret, ofs |-> ofs])
         ELSE Find(l, s, ofs + 1, in_use, name))])

Found(l) == l.ret.entry # <<>>
FoundEntry(l) == EntryOf(l.ret.entry[1])

lookup(k, s, name) == Find(k, s, 0, TRUE, name)

dir_open_root(k) == inode_open(k, ROOT_DIR_SECTOR)
dir_reopen(k, s) == inode_reopen(k, s)
dir_close(k, s) == inode_close(k, s)

\* ret is <<the inode that was opened, is_dir>>, or <<>>.
dir_lookup(k, s, name) ==
    Then([l \in {lookup(k, s, name)} |-> Go(l,
         IF Found(l)
         THEN Ret(inode_open(l, FoundEntry(l).sector), <<FoundEntry(l).sector, FoundEntry(l).is_dir>>)
         ELSE Ret(l, <<>>))])

\* The entry goes to the first free slot, or to the end of the directory.
dir_add(k, s, name, sector, is_dir) ==
    IF name = "" \/ name \in LongNames THEN Ret(k, FALSE)
    ELSE Then([l \in {lookup(k, s, name)} |-> Go(l,
           IF Found(l) THEN Ret(l, FALSE)
           ELSE Then([m \in {Find(l, s, 0, FALSE, AnyName)} |-> Go(m,
                  Then([n \in {inode_write_at(m, s, <<dir_entry(sector, name, TRUE, is_dir)>>, m.ret.ofs)} |->
                          Go(n, Ret(n, n.ret = 1))]))]))])

\* The calls of dir_add in dir_create.
RECURSIVE AddAll(_, _, _)
AddAll(k, s, entries) ==
    IF entries = <<>> \/ k.panic # "none" THEN k
    ELSE AddAll(dir_add(k, s, Head(entries)[1], Head(entries)[2], TRUE), s, Tail(entries))

dir_create(k, s, entry_cnt, parent) ==
    Then([l \in {inode_create(k, s, entry_cnt)} |-> Go(l,
      Then([m \in {AddAll(inode_open(l, s), s, <<<<PATH_PARENT, parent>>, <<PATH_WD, s>>>>)} |->
              Go(m, Ret(dir_close(m, s), TRUE))]))])

\* The next entry in use from pos on: ret is its name and the new pos, or <<>>.
dir_readdir(k, s, pos) ==
    Then([l \in {Find(k, s, pos, TRUE, AnyName)} |-> Go(l,
         IF Found(l) THEN Ret(l, <<FoundEntry(l).name, l.ret.ofs + 1>>) ELSE Ret(l, <<>>))])

\* The next entry from pos on that is neither the directory nor its parent.
RECURSIVE NextFile(_, _, _)
NextFile(k, s, pos) ==
    Then([l \in {dir_readdir(k, s, pos)} |-> Go(l,
         IF l.ret = <<>> \/ l.ret[1] \notin {PATH_WD, PATH_PARENT} THEN l
         ELSE NextFile(l, s, l.ret[2]))])

(***************************************************************************)
(* dir_remove: a directory is removed only if it is empty and nobody else  *)
(* has it open; a file that is open is removed and stays until it is closed*)
(***************************************************************************)
Erase(k, s, e, ofs) ==
    Then([l \in {inode_write_at(k, s, <<dir_entry(e.sector, e.name, FALSE, e.is_dir)>>, ofs)} |->
            Go(l, IF l.ret # 1 THEN Ret(l, FALSE) ELSE Ret(inode_remove(l, e.sector), TRUE))])

InUse(k, e) ==
    IF ~ e.is_dir THEN Ret(k, FALSE)
    ELSE IF inode_is_shared(k, e.sector) THEN Ret(k, TRUE)
    ELSE Then([l \in {NextFile(k, e.sector, 0)} |-> Go(l, Ret(l, l.ret # <<>>))])

Unlink(k, s, e, ofs) ==
    Then([l \in {InUse(inode_open(k, e.sector), e)} |-> Go(l,
      Then([m \in {IF l.ret THEN Ret(l, FALSE) ELSE Erase(l, s, e, ofs)} |-> Go(m,
        Then([n \in {inode_close(m, e.sector)} |-> Go(n, Ret(n, m.ret))]))]))])

dir_remove(k, s, name) ==
    Then([l \in {lookup(k, s, name)} |->
            Go(l, IF Found(l) THEN Unlink(l, s, FoundEntry(l), l.ret.ofs) ELSE Ret(l, FALSE))])

-----------------------------------------------------------------------------
\* filesys/filesys.c.

(***************************************************************************)
(* The loop of resolve_path, in directory s with the names that are left:  *)
(* ret is <<the directory, which is open, and the last name>>, or <<>>.    *)
(* When a name on the way is not a directory, its inode has been opened    *)
(* and is not closed: that reference is lost.                              *)
(***************************************************************************)
RECURSIVE Walk(_, _, _)
Walk(k, s, names) ==
    IF Len(names) = 1 /\ Head(names) \notin LongNames
    THEN Ret(k, <<s, IF Head(names) = "" THEN PATH_WD ELSE Head(names)>>)
    ELSE Then([l \in {IF Head(names) \in LongNames THEN Ret(k, <<>>)
                      ELSE dir_lookup(k, s, Head(names))} |-> Go(l,
           Then([m \in {dir_close(l, s)} |-> Go(m,
                   IF l.ret = <<>> THEN Ret(m, <<>>)
                   ELSE IF ~ l.ret[2] THEN Ret([m EXCEPT !.lost[l.ret[1]] = @ + 1], <<>>)
                   ELSE Walk(m, l.ret[1], Tail(names)))]))])

\* cwd is the working directory of the process that runs.
resolve_path(k, cwd, path) ==
    IF path.names = <<>> THEN Ret(k, <<>>)
    ELSE Walk(IF path.root THEN dir_open_root(k) ELSE dir_reopen(k, cwd),
              IF path.root THEN ROOT_DIR_SECTOR ELSE cwd, path.names)

\* The directory that the path led to is closed; what was returned stays.
Leave(k, dir) == Go(k, Then([l \in {dir_close(k, dir)} |-> Go(l, Ret(l, k.ret))]))

(***************************************************************************)
(* filesys_create: the sector for the inode, the inode with initial_size   *)
(* bytes (or a directory with as many entries), and the entry.  If there   *)
(* is an entry of that name, only the sector of the inode is given back.   *)
(***************************************************************************)
Make(k, sector, initial_size, is_dir, dir) ==
    IF is_dir THEN dir_create(k, sector, initial_size, dir) ELSE inode_create(k, sector, initial_size)

Add(k, dir, name, sector, is_dir) ==
    Then([l \in {dir_add(k, dir, name, sector, is_dir)} |-> Go(l,
            IF l.ret THEN l
            ELSE Then([m \in {free_map_release(l, sector)} |-> Go(m, Ret(m, FALSE))]))])

New(k, dir, name, initial_size, is_dir) ==
    Then([l \in {free_map_allocate(k)} |-> Go(l,
      Then([m \in {Make(l, l.ret, initial_size, is_dir, dir)} |->
              Go(m, Add(m, dir, name, l.ret, is_dir))]))])

filesys_create(k, cwd, path, initial_size, is_dir) ==
    Then([l \in {resolve_path(k, cwd, path)} |-> Go(l,
            IF l.ret = <<>> THEN Ret(l, FALSE)
            ELSE Then([m \in {New(l, l.ret[1], l.ret[2], initial_size, is_dir)} |-> Leave(m, l.ret[1])]))])

\* filesys_open: ret is <<the inode, is_dir>>, or <<>>.
filesys_open(k, cwd, path) ==
    Then([l \in {resolve_path(k, cwd, path)} |-> Go(l,
            IF l.ret = <<>> THEN l
            ELSE Then([m \in {dir_lookup(l, l.ret[1], l.ret[2])} |-> Leave(m, l.ret[1])]))])

filesys_remove(k, cwd, path) ==
    Then([l \in {resolve_path(k, cwd, path)} |-> Go(l,
            IF l.ret = <<>> THEN Ret(l, FALSE)
            ELSE Then([m \in {dir_remove(l, l.ret[1], l.ret[2])} |-> Leave(m, l.ret[1])]))])

\* free_map_init.
free_map_init(k) ==
    [k EXCEPT !.map = {DEBUG_SECTOR, FREE_MAP_SECTOR, ROOT_DIR_SECTOR}, !.mapped = FALSE]

\* free_map_create: the file for the map, which is one word long.
free_map_create(k) ==
    Then([l \in {inode_create(k, FREE_MAP_SECTOR, 1)} |-> Go(l,
         WriteMap(inode_open([l EXCEPT !.mapped = TRUE], FREE_MAP_SECTOR)))])

\* free_map_open, with the map as the device has it.
free_map_open(k) ==
    Then([l \in {inode_read_at(inode_open(k, FREE_MAP_SECTOR), FREE_MAP_SECTOR, 1, 0)} |-> Go(l,
         ASSERT(l, Len(l.ret) = 1 /\ Len(l.ret[1]) = 2, "can't read free map",
                [l EXCEPT !.map = l.ret[1][2], !.mapped = TRUE]))])

free_map_close(k) == inode_close(k, FREE_MAP_SECTOR)

do_format(k) ==
    Then([l \in {free_map_create(k)} |-> Go(l,
      Then([m \in {dir_create(l, ROOT_DIR_SECTOR, 4, ROOT_DIR_SECTOR)} |-> Go(m, free_map_close(m))]))])

\* filesys_init, on a device with these contents and an empty cache.
filesys_init(device, format) ==
    LET k == free_map_init(
               [disk |-> device, cache |-> <<>>, dirty |-> {}, map |-> {}, mapped |-> FALSE,
                inodes |-> <<>>, panic |-> "none", ret |-> <<>>, stale |-> {},
                lost |-> [s \in 0..(DeviceSize - 1) |-> 0]])
    IN Then([l \in {IF format THEN do_format(k) ELSE k} |-> Go(l, free_map_open(l))])

filesys_done(k) == free_map_close(refresh_cache(k))

=============================================================================
