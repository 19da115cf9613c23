----------------------------- MODULE Partition -----------------------------
(***************************************************************************)
(* devices/partition.c and the registry of block devices of                *)
(* devices/block.c.  A disk is [size, tables], where tables[s] is what a   *)
(* partition table in sector s says.  Sector numbers wrap at SECTORS.      *)
(* read_partition_table calls itself for an extended partition; MaxDepth   *)
(* bounds the calls, and TooDeep is a scan that has not ended by then.     *)
(***************************************************************************)
EXTENDS Integers, Sequences, FiniteSetsExt, SequencesExt

CONSTANTS SECTORS, MaxDepth

Extended == {"05", "0f", "85", "c5"}

TooDeep == <<"too deep">>

TypeOf(part_type) ==
    CASE part_type = "20" -> "BLOCK_KERNEL" [] part_type = "21" -> "BLOCK_FILESYS"
      [] part_type = "22" -> "BLOCK_SCRATCH" [] part_type = "23" -> "BLOCK_SWAP"
      [] OTHER -> "BLOCK_FOREIGN"

block_size(disk) == disk.size

\* The list of all block devices, the new one at its end.
block_register(blocks, name, type, size, aux) ==
    Append(blocks, [name |-> name, type |-> type, size |-> size, start |-> aux])

found_partition_wrapping(blocks, disk, part_type, start, size, part_nr) ==
    LET end == (start + size) % SECTORS
    IN  IF start >= block_size(disk) \/ end > block_size(disk) THEN blocks
        ELSE block_register(blocks, part_nr, TypeOf(part_type), size, start)

found_partition_strict(blocks, disk, part_type, start, size, part_nr) ==
    LET end == (start + size) % SECTORS
    IN  IF start >= block_size(disk) \/ end < start \/ end >= block_size(disk) THEN blocks
        ELSE block_register(blocks, part_nr, TypeOf(part_type), size, start)

found_partition(blocks, disk, part_type, start, size, part_nr) ==
    LET end == (start + size) % SECTORS
    IN  IF start >= block_size(disk) \/ end < start \/ end > block_size(disk)
        THEN blocks
        ELSE block_register(blocks, part_nr, TypeOf(part_type), size, start)

\* What is found is <<blocks, part_nr>>; the sector read is 0 whatever `sector' is.
RECURSIVE read_partition_table(_, _, _, _, _)
RECURSIVE ParseEntries(_, _, _, _, _, _)
ParseEntries(disk, sector, primary, found, i, depth) ==
    IF found = TooDeep \/ i > Len(disk.tables[0].entries) THEN found
    ELSE LET e == disk.tables[0].entries[i]
             inner == IF sector = 0 THEN e.offset ELSE (e.offset + primary) % SECTORS
             number == found[2] + 1
         IN  ParseEntries(disk, sector, primary,
                 IF e.size = 0 \/ e.type = "00" THEN found
                 ELSE IF e.type \in Extended
                 THEN read_partition_table(disk, inner, IF sector = 0 THEN inner ELSE primary,
                                           found, depth + 1)
                 ELSE <<found_partition(found[1], disk, e.type, (e.offset + sector) % SECTORS,
                                        e.size, number), number>>,
                 i + 1, depth)

read_partition_table(disk, sector, primary, found, depth) ==
    IF depth > MaxDepth THEN TooDeep
    ELSE IF sector >= block_size(disk) \/ disk.tables[0].signature # "aa55" THEN found
    ELSE ParseEntries(disk, sector, primary, found, 1, depth)

\* The partitions registered for the disk, in the order they are found.
partition_scan(disk) == read_partition_table(disk, 0, 0, <<<<>>, 0>>, 0)

\* partition_read and partition_write: the sector of the disk, or a panic.
Panic == -1

check_sector(block, sector) == sector < block.size

partition_read(block, sector) ==
    IF check_sector(block, sector) THEN (block.start + sector) % SECTORS ELSE Panic

\* The same, after block_write's assertion.
partition_write(block, sector) ==
    IF block.type = "BLOCK_FOREIGN" THEN Panic ELSE partition_read(block, sector)

block_get_by_name(blocks, name) ==
    LET named == {i \in DOMAIN blocks : blocks[i].name = name}
    IN  IF named = {} THEN 0 ELSE Min(named)

\* init.c's locate_block_device: a given name must exist; without one the first of the type.
locate_block_device(blocks, role, name) ==
    IF name # 0
    THEN IF block_get_by_name(blocks, name) = 0 THEN Panic ELSE block_get_by_name(blocks, name)
    ELSE LET fits == {i \in DOMAIN blocks : blocks[i].type = role}
         IN  IF fits = {} THEN 0 ELSE Min(fits)
=============================================================================
