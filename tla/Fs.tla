---------------------------------- MODULE Fs ----------------------------------
(***************************************************************************)
(* The filesystem of src/kernel/fs.c: one directory (a chain of clusters), *)
(* files as chains of clusters in a file allocation table (FAT), and a     *)
(* write-back cache of one FAT sector.                                     *)
(*                                                                         *)
(* A call of the filesystem is a sequence of steps with at most one disk   *)
(* access each.  Any access may fail, a failed write may or may not have   *)
(* reached the disk, and the machine may stop between any two steps; the   *)
(* next boot mounts what is on the disk.  The labels in pc are the C       *)
(* functions, or places in them.  A read and the write back of the same    *)
(* sector (slot_store, file_sync, a partial sector of write_impl) are one  *)
(* step: the read fails like a write that does not reach the disk.         *)
(*                                                                         *)
(* A cluster is one sector here (cluster_shift = 0, disks up to 512 MB).   *)
(***************************************************************************)
EXTENDS Integers, Sequences, FiniteSets

CONSTANTS
    CLUSTERS,          \* sb.cluster_count
    FAT_PER_SECTOR,    \* FAT entries in a sector
    SLOTS_PER_SECTOR,  \* directory entries in a sector
    SECTOR_SIZE,       \* units of data in a sector
    MAX_SIZE,          \* the largest file that callers write, in units
    Names,             \* file names
    Tags,              \* what distinguishes the data of different files
    Ops,               \* the calls that are made
    MAX_FAULTS,        \* disk errors and crashes in a behaviour
    NULL

CHAIN_END == -1
NO_SECTOR == -1
ROOT == 1                       \* sb.root_cluster
Clusters == 1..CLUSTERS
Slots == 0..(SLOTS_PER_SECTOR - 1)
Sector(c) == c \div FAT_PER_SECTOR
Sectors == 0..Sector(CLUSTERS)  \* sb.fat_sectors

ASSUME FsAssumption ==
    /\ CLUSTERS \in Nat \ {0}
    /\ FAT_PER_SECTOR \in Nat \ {0}
    /\ SLOTS_PER_SECTOR \in Nat \ {0}
    /\ SECTOR_SIZE \in Nat \ {0}
    /\ MAX_SIZE \in Nat
    /\ MAX_FAULTS \in Nat
    /\ NULL \notin Names \cup Tags

VARIABLES
    \* the disk: is there a super block, the FAT, and the data clusters
    super, disk_fat, data,
    \* the globals of fs.c
    mounted, fat_cache, fat_cache_sector, fat_dirty, next_free,
    \* the caller's struct fs_file
    file,
    \* the running call, the place in it and its locals
    op, pc, r,
    faults

diskVars == <<super, disk_fat, data>>
cacheVars == <<fat_cache, fat_cache_sector, fat_dirty>>
vars == <<diskVars, mounted, cacheVars, next_free, file, op, pc, r, faults>>

Call(fn, name, to, off, cnt, tag) ==
    [fn |-> fn, name |-> name, to |-> to, off |-> off, cnt |-> cnt, tag |-> tag]
NoCall == Call("none", NULL, NULL, 0, 0, NULL)
NoFile == [slot |-> NULL, first |-> 0, size |-> 0, cursor_index |-> 0,
           cursor_cluster |-> 0, tag |-> NULL]

\* The locals of a call that runs function fn on a file name.
Locals(fn, name) ==
    [fn |-> fn, name |-> name, cluster |-> ROOT, steps |-> 0, slot |-> NULL,
     entry |-> NULL, free |-> NULL, cand |-> 0, new |-> 0, at |-> 0, tail |-> 0,
     off |-> 0, cnt |-> 0, done |-> 0, old |-> NULL, status |-> "OK",
     bytes |-> << >>, names |-> {}]

\* The content of a sector, as a directory and as data.
NoSlots == [i \in Slots |-> NULL]
NoBytes == [i \in 0..(SECTOR_SIZE - 1) |-> <<NULL, 0>>]
ZERO == [dir |-> NoSlots, bytes |-> NoBytes]
-----------------------------------------------------------------------------
(* Errors and the ways out of a call.                                      *)

\* The label after the clean-up of entry_create or file_reach.
AfterUndo == IF r.fn = "write" THEN "write_end" ELSE "finish"

Reaching == {"file_reach", "walk", "cluster_alloc", "link", "write_data"}

\* Where a failure at the current place goes: the break out of write_impl's
\* loop, the clean-up of entry_create and file_reach, finish(), or the return
\* of a function that has no finish().
Handler ==
    CASE pc \in {"cluster_zero", "dir_link", "link"} -> "undo"
      [] pc \in Reaching /\ r.fn = "write" -> "write_end"
      [] r.fn \in {"rename_to", "rename", "read", "usage", "list", "format"} -> "return"
      [] OTHER -> "finish"

Goto(label) == pc' = label
Leave(code) ==
    /\ pc' = Handler
    /\ r' = [r EXCEPT !.status = IF r.fn = "read" /\ r.done > 0 THEN "OK" ELSE code]
Finish(code) == pc' = "finish" /\ r' = [r EXCEPT !.status = code]

IoError == faults < MAX_FAULTS /\ faults' = faults + 1

\* The FAT after the cache is written back.
WriteBack == disk_fat' = [c \in Clusters |-> IF c \in DOMAIN fat_cache
                                             THEN fat_cache[c] ELSE disk_fat[c]]

\* fat_set once the sector is loaded.
SetEntry(c, value) ==
    /\ fat_cache' = [fat_cache EXCEPT ![c] = value]
    /\ fat_dirty' = TRUE
    /\ UNCHANGED fat_cache_sector
-----------------------------------------------------------------------------
(* The FAT cache.                                                          *)

\* The steps that use the FAT entry of a cluster, and which cluster.
FatSteps == {"chain_next", "cluster_alloc", "dir_link", "walk", "link", "undo",
             "truncate_last", "truncate_end", "chain_free", "format_root", "usage"}
Want == CASE pc = "cluster_alloc" -> r.cand
          [] pc = "undo" -> r.new
          [] OTHER -> r.cluster
WantSector == IF pc = "usage" THEN r.steps ELSE Sector(Want)
Wants == pc \in FatSteps /\ (pc = "usage" \/ Want \in Clusters)
Loaded == Wants /\ WantSector = fat_cache_sector
Missing == Wants /\ WantSector # fat_cache_sector

\* Mutant: the FAT is not written before the directory or the super block.
Flushed_never == TRUE

\* fat_flush has nothing to write.
Flushed == ~fat_dirty

\* fat_flush: the write of a dirty sector, before another is loaded, before a
\* directory sector is written, and at the end of a call.
fat_flush ==
    /\ fat_dirty
    /\ \/ Missing
       \/ pc \in {"slot_store", "file_sync", "finish", "format_flush"}
    /\ \/ /\ WriteBack
          /\ fat_dirty' = FALSE
          /\ UNCHANGED <<pc, r, faults>>
       \/ /\ IoError
          /\ WriteBack \/ UNCHANGED disk_fat
          /\ CASE pc = "finish" ->
                    /\ Goto("return")
                    /\ r' = IF r.status = "OK" THEN [r EXCEPT !.status = "IO"] ELSE r
               [] pc = "undo" -> Goto(AfterUndo) /\ UNCHANGED r
               [] OTHER -> Leave("IO")
          /\ UNCHANGED fat_dirty
    /\ UNCHANGED <<super, data, mounted, fat_cache, fat_cache_sector, next_free,
                   file, op>>

\* fat_load of a sector that is not in the cache.
fat_load ==
    /\ ~fat_dirty
    /\ Missing
    /\ \/ /\ fat_cache_sector' = WantSector
          /\ fat_cache' = [c \in {d \in Clusters : Sector(d) = WantSector} |-> disk_fat[c]]
          /\ UNCHANGED <<pc, r, faults>>
       \/ /\ IoError
          /\ fat_cache_sector' = NO_SECTOR
          /\ fat_cache' = << >>
          /\ IF pc = "undo" THEN Goto(AfterUndo) /\ UNCHANGED r ELSE Leave("IO")
    /\ UNCHANGED <<diskVars, mounted, fat_dirty, next_free, file, op>>

At(label) == pc = label /\ Loaded
Following(c) == IF fat_cache[c] = CHAIN_END THEN 0 ELSE fat_cache[c]

\* Mutant: a free cluster in a chain is taken for its end.
Corrupt_free_is_end(c) == fat_cache[c] \notin Clusters \cup {0, CHAIN_END}

Corrupt(c) == fat_cache[c] # CHAIN_END /\ fat_cache[c] \notin Clusters

\* fat_get, fat_set: a cluster number that is out of range.
out_of_range ==
    /\ pc \in FatSteps \ {"usage"}
    /\ Want \notin Clusters
    /\ Leave("CORRUPT")
    /\ UNCHANGED <<diskVars, mounted, cacheVars, next_free, file, op, faults>>

\* cluster_alloc starts to look at the hint.
Alloc(regs) == /\ Goto("cluster_alloc")
               /\ r' = [regs EXCEPT !.cand = IF next_free \in Clusters THEN next_free ELSE 1,
                                    !.steps = 0]

\* Mutant: the hint is taken for a free cluster.
IsFree_hint(c) == TRUE

IsFree(c) == fat_cache[c] = 0

\* One turn of the loop of cluster_alloc.
cluster_alloc ==
    /\ At("cluster_alloc")
    /\ \/ /\ IsFree(r.cand)
          /\ SetEntry(r.cand, CHAIN_END)
          /\ next_free' = r.cand + 1
          /\ r' = [r EXCEPT !.new = r.cand, !.cand = 0, !.steps = 0]
          /\ IF r.fn = "write" /\ file.first = 0
             THEN /\ file' = [file EXCEPT !.first = r.cand, !.cursor_cluster = r.cand,
                                          !.cursor_index = 0]
                  /\ Goto("file_reach")
             ELSE /\ Goto(IF r.fn = "write" THEN "link" ELSE "cluster_zero")
                  /\ UNCHANGED file
       \/ /\ ~IsFree(r.cand)
          /\ IF r.steps + 1 < CLUSTERS
             THEN /\ r' = [r EXCEPT !.cand = IF @ = CLUSTERS THEN 1 ELSE @ + 1,
                                    !.steps = @ + 1]
                  /\ UNCHANGED pc
             ELSE Leave("NOSPC")
          /\ UNCHANGED <<cacheVars, next_free, file>>
    /\ UNCHANGED <<diskVars, mounted, op, faults>>

\* cluster_free once the FAT sector is loaded.
Free(c) == /\ SetEntry(c, 0)
           /\ next_free' = IF c < next_free THEN c ELSE next_free

\* cluster_free in the clean-up of entry_create and file_reach.
undo ==
    /\ At("undo")
    /\ Free(r.new)
    /\ Goto(AfterUndo)
    /\ UNCHANGED <<diskVars, mounted, file, op, r, faults>>

\* Mutant: only the first cluster of a chain is freed.
LastOfChain_first(c) == TRUE

LastOfChain(c) == Following(c) = 0

\* One turn of the loop of chain_free; a cycle ends at a cluster freed before.
chain_free ==
    /\ At("chain_free")
    /\ \/ /\ Corrupt(r.cluster)
          /\ Finish("CORRUPT")
          /\ UNCHANGED <<cacheVars, next_free>>
       \/ /\ ~Corrupt(r.cluster)
          /\ Free(r.cluster)
          /\ IF r.steps + 1 > CLUSTERS THEN Finish("CORRUPT")
             ELSE IF LastOfChain(r.cluster) THEN Finish("OK")
             ELSE /\ r' = [r EXCEPT !.cluster = Following(@), !.steps = @ + 1]
                  /\ UNCHANGED pc
    /\ UNCHANGED <<diskVars, mounted, file, op, faults>>
-----------------------------------------------------------------------------
(* The directory.                                                          *)

NewEntry == [name |-> r.name, first |-> 0, size |-> 0]

\* The end of open_impl: fill in the caller's struct fs_file.
Opened(slot, entry) ==
    /\ file' = [slot |-> slot, first |-> entry.first, size |-> entry.size,
                cursor_index |-> 0, cursor_cluster |-> entry.first, tag |-> op.tag]
    /\ Finish("OK")

Store(slot, entry) == /\ Goto("slot_store")
                      /\ r' = [r EXCEPT !.slot = slot, !.entry = entry]

\* The part of entry_create before the new entry is stored.
EntryCreate(free) ==
    IF free # NULL THEN Store(free, NewEntry) ELSE Alloc(r)

\* Mutant: the renamed entry is a new one.
Renamed_new(entry) == [name |-> op.to, first |-> 0, size |-> 0]

Renamed(entry) == [entry EXCEPT !.name = op.to]

\* What each call does with an entry that dir_lookup finds.
Found(slot, entry) ==
    CASE r.fn = "create" -> Finish("EXIST") /\ UNCHANGED file
      [] r.fn \in {"open", "open_create"} -> Opened(slot, entry)
      [] r.fn = "remove" ->
            /\ Goto("slot_store")
            /\ r' = [r EXCEPT !.slot = slot, !.entry = NULL, !.cluster = entry.first,
                              !.steps = 0]
            /\ UNCHANGED file
      [] r.fn = "rename_to" -> Leave("EXIST") /\ UNCHANGED file
      [] OTHER -> Store(slot, Renamed(entry)) /\ UNCHANGED file

\* ... and when there is none.
NotFound ==
    CASE r.fn \in {"create", "open_create"} -> EntryCreate(r.free)
      [] r.fn = "rename_to" ->
            Goto("dir_lookup") /\ r' = Locals("rename", op.name)
      [] r.fn = "list" -> Leave("OK")
      [] OTHER -> Leave("NOENT")

\* dir_lookup reads a sector of the directory.
dir_lookup ==
    /\ pc = "dir_lookup"
    /\ \/ /\ LET dir == data[r.cluster].dir
                 hits == {i \in Slots : dir[i] # NULL /\ dir[i].name = r.name}
                 empty == {i \in Slots : dir[i] = NULL}
             IN  IF hits # {}
                 THEN LET i == CHOOSE i \in hits : \A j \in hits : i <= j
                      IN  Found(<<r.cluster, i>>, dir[i])
                 ELSE /\ Goto("chain_next")
                      /\ r' = IF r.free = NULL /\ empty # {}
                              THEN [r EXCEPT !.free = <<r.cluster,
                                       CHOOSE i \in empty : \A j \in empty : i <= j>>]
                              ELSE r
                      /\ UNCHANGED file
          /\ UNCHANGED faults
       \/ IoError /\ Leave("IO") /\ UNCHANGED file
    /\ UNCHANGED <<diskVars, mounted, cacheVars, next_free, op>>

\* fs_iter_next reads a sector of the directory.
fs_iter_next ==
    /\ pc = "list"
    /\ \/ /\ Goto("chain_next")
          /\ r' = [r EXCEPT !.names = @ \cup {e.name : e \in
                       {data[r.cluster].dir[i] : i \in Slots} \ {NULL}}]
          /\ UNCHANGED faults
       \/ IoError /\ Leave("IO")
    /\ UNCHANGED <<diskVars, mounted, cacheVars, next_free, file, op>>

\* Mutant: the clusters of a walk are not counted.
Steps_uncounted == r.steps

Steps == r.steps + 1

\* The walk of the directory's chain, in dir_lookup and fs_iter_next: a chain of
\* more clusters than the disk has is a cycle.
chain_next ==
    /\ At("chain_next")
    /\ IF Corrupt(r.cluster) THEN Leave("CORRUPT")
       ELSE IF Steps > CLUSTERS THEN Leave("CORRUPT")
       ELSE IF Following(r.cluster) = 0 THEN NotFound
       ELSE /\ Goto(IF r.fn = "list" THEN "list" ELSE "dir_lookup")
            /\ r' = [r EXCEPT !.cluster = Following(@), !.steps = Steps]
    /\ UNCHANGED <<diskVars, mounted, cacheVars, next_free, file, op, faults>>

\* entry_create clears a new directory cluster (cluster_zero) ...
cluster_zero ==
    /\ pc = "cluster_zero"
    /\ \/ /\ data' = [data EXCEPT ![r.new] = ZERO]
          /\ Goto("dir_link")
          /\ UNCHANGED <<r, faults>>
       \/ /\ IoError
          /\ data' = [data EXCEPT ![r.new] = ZERO] \/ UNCHANGED data
          /\ Leave("IO")
    /\ UNCHANGED <<super, disk_fat, mounted, cacheVars, next_free, file, op>>

\* ... and links it behind the last one.
dir_link ==
    /\ At("dir_link")
    /\ SetEntry(r.cluster, r.new)
    /\ Store(<<r.new, 0>>, NewEntry)
    /\ UNCHANGED <<diskVars, mounted, next_free, file, op, faults>>

\* The sector of a directory entry after the entry is replaced.
WriteSlot(slot, entry) ==
    data' = [data EXCEPT ![slot[1]] = [dir |-> [@.dir EXCEPT ![slot[2]] = entry],
                                       bytes |-> NoBytes]]

\* slot_store writes one directory entry, after the FAT.
slot_store ==
    /\ pc = "slot_store"
    /\ Flushed
    /\ \/ /\ WriteSlot(r.slot, r.entry)
          /\ CASE r.fn = "open_create" -> Opened(r.slot, r.entry)
               [] r.fn = "remove" /\ r.cluster # 0 ->
                     Goto("chain_free") /\ UNCHANGED <<r, file>>
               [] r.fn = "rename" -> Leave("OK") /\ UNCHANGED file
               [] OTHER -> Finish("OK") /\ UNCHANGED file
          /\ UNCHANGED faults
       \/ /\ IoError
          /\ WriteSlot(r.slot, r.entry) \/ UNCHANGED data
          /\ Leave("IO")
          /\ UNCHANGED file
    /\ UNCHANGED <<super, disk_fat, mounted, cacheVars, next_free, op>>

\* file_sync writes the first cluster and the size of an open file.
file_sync ==
    /\ pc = "file_sync"
    /\ Flushed
    /\ LET old == data[file.slot[1]].dir[file.slot[2]]
           Write == WriteSlot(file.slot, [old EXCEPT !.first = file.first, !.size = file.size])
       IN  \/ /\ Write
              /\ CASE r.fn = "write" -> Finish(IF r.done > 0 THEN "OK" ELSE r.status)
                   [] r.tail = 0 -> Finish("OK")
                   [] r.cluster # 0 -> Goto("truncate_end") /\ UNCHANGED r
                   [] OTHER -> Goto("chain_free") /\ r' = [r EXCEPT !.cluster = r.tail]
              /\ UNCHANGED faults
           \/ IoError /\ (Write \/ UNCHANGED data) /\ Leave("IO")
    /\ UNCHANGED <<super, disk_fat, mounted, cacheVars, next_free, file, op>>
-----------------------------------------------------------------------------
(* The data of a file.                                                     *)

Clip(a, b) == IF a < b THEN a ELSE b

\* The clusters that hold a number of units.
ClustersFor(size) == (size + SECTOR_SIZE - 1) \div SECTOR_SIZE

\* The index that file_reach is asked for.
Index == IF r.fn = "truncate" THEN ClustersFor(r.cnt) - 1
         ELSE (r.off + r.done) \div SECTOR_SIZE

\* The walk is over: move the cursor, and go on in the caller.
Reached(c) ==
    /\ file' = [file EXCEPT !.cursor_cluster = c, !.cursor_index = Index]
    /\ r' = [r EXCEPT !.cluster = c, !.at = 0, !.new = 0]
    /\ Goto(CASE r.fn = "write" -> "write_data"
              [] r.fn = "read" -> "read_data"
              [] OTHER -> "truncate_last")

Walk(c, at) ==
    IF at = Index THEN Reached(c)
    ELSE /\ Goto("walk")
         /\ r' = [r EXCEPT !.cluster = c, !.at = at, !.new = 0]
         /\ UNCHANGED file

CursorUsable == file.cursor_cluster # 0 /\ file.cursor_index <= Index

\* file_reach: the first cluster, or where the walk starts.
file_reach ==
    /\ pc = "file_reach"
    /\ IF file.first = 0
       THEN /\ IF r.fn = "write" THEN Alloc(r) ELSE Leave("CORRUPT")
            /\ UNCHANGED file
       ELSE IF CursorUsable
            THEN Walk(file.cursor_cluster, file.cursor_index)
            ELSE Walk(file.first, 0)
    /\ UNCHANGED <<diskVars, mounted, cacheVars, next_free, op, faults>>

\* One turn of the loop of file_reach.
walk ==
    /\ At("walk")
    /\ IF Corrupt(r.cluster) THEN Leave("CORRUPT") /\ UNCHANGED file
       ELSE IF Following(r.cluster) # 0 THEN Walk(Following(r.cluster), r.at + 1)
       ELSE /\ IF r.fn = "write" THEN Alloc(r) ELSE Leave("CORRUPT")
            /\ UNCHANGED file
    /\ UNCHANGED <<diskVars, mounted, cacheVars, next_free, op, faults>>

link ==
    /\ At("link")
    /\ SetEntry(r.cluster, r.new)
    /\ Walk(r.new, r.at + 1)
    /\ UNCHANGED <<diskVars, mounted, next_free, op, faults>>

Position == r.off + r.done

Chunk == Clip(SECTOR_SIZE - (Position % SECTOR_SIZE), r.cnt - r.done)

\* write_impl writes one sector of data.
write_data ==
    /\ pc = "write_data"
    /\ LET at == Position % SECTOR_SIZE
           Unit(i) == IF i \in at..(at + Chunk - 1) THEN <<file.tag, Position + i - at>>
                      ELSE data[r.cluster].bytes[i]
           Write == data' = [data EXCEPT ![r.cluster] =
                        [dir |-> NoSlots, bytes |-> [i \in DOMAIN NoBytes |-> Unit(i)]]]
       IN  \/ /\ Write
              /\ r' = [r EXCEPT !.done = @ + Chunk]
              /\ Goto(IF r.done + Chunk < r.cnt THEN "file_reach" ELSE "write_end")
              /\ UNCHANGED faults
           \/ IoError /\ (Write \/ UNCHANGED data) /\ Leave("IO")
    /\ UNCHANGED <<super, disk_fat, mounted, cacheVars, next_free, file, op>>

NewSize == IF r.done > 0 /\ Position > file.size THEN Position ELSE file.size

\* The end of write_impl: the new size, and the directory entry if it changed.
write_end ==
    /\ pc = "write_end"
    /\ file' = [file EXCEPT !.size = NewSize]
    /\ IF <<file.first, NewSize>> # r.old THEN Goto("file_sync") /\ UNCHANGED r
       ELSE Finish(IF r.done > 0 THEN "OK" ELSE r.status)
    /\ UNCHANGED <<diskVars, mounted, cacheVars, next_free, op, faults>>

\* fs_read reads one sector of data.
read_data ==
    /\ pc = "read_data"
    /\ \/ /\ r' = [r EXCEPT !.done = @ + Chunk,
                !.bytes = @ \o [i \in 1..Chunk |->
                             data[r.cluster].bytes[(Position % SECTOR_SIZE) + i - 1]]]
          /\ Goto(IF r.done + Chunk < r.cnt THEN "file_reach" ELSE "return")
          /\ UNCHANGED faults
       \/ IoError /\ Leave("IO")
    /\ UNCHANGED <<diskVars, mounted, cacheVars, next_free, file, op>>

\* truncate_impl that keeps some clusters: the chain behind the last of them ...
truncate_last ==
    /\ At("truncate_last")
    /\ IF Corrupt(r.cluster) THEN Leave("CORRUPT") /\ UNCHANGED file
       ELSE /\ r' = [r EXCEPT !.tail = Following(r.cluster)]
            /\ file' = [file EXCEPT !.size = r.cnt, !.cursor_index = 0,
                                    !.cursor_cluster = file.first]
            /\ Goto("file_sync")
    /\ UNCHANGED <<diskVars, mounted, cacheVars, next_free, op, faults>>

\* ... is cut off once the new size is on the disk.
truncate_end ==
    /\ At("truncate_end")
    /\ SetEntry(r.cluster, CHAIN_END)
    /\ r' = [r EXCEPT !.cluster = r.tail]
    /\ Goto("chain_free")
    /\ UNCHANGED <<diskVars, mounted, next_free, file, op, faults>>
-----------------------------------------------------------------------------
(* fs_usage and fs_format.                                                 *)

\* Mutant: the last sector is left out.
MoreSectors_short == r.steps + 2 \in Sectors

MoreSectors == r.steps + 1 \in Sectors

\* One turn of the loop of fs_usage.
usage ==
    /\ At("usage")
    /\ LET n == Cardinality({c \in DOMAIN fat_cache : fat_cache[c] = 0})
       IN  IF MoreSectors
           THEN r' = [r EXCEPT !.done = @ + n, !.steps = @ + 1] /\ UNCHANGED pc
           ELSE r' = [r EXCEPT !.done = @ + n] /\ Goto("return")
    /\ UNCHANGED <<diskVars, mounted, cacheVars, next_free, file, op, faults>>

Unmount == /\ mounted' = FALSE
           /\ fat_cache_sector' = NO_SECTOR
           /\ fat_cache' = << >>
           /\ fat_dirty' = FALSE
           /\ next_free' = 1

\* format_now clears the FAT, sector by sector ...
format_fat ==
    /\ pc = "format_fat"
    /\ LET Write == disk_fat' = [c \in Clusters |->
                        IF Sector(c) = r.steps THEN 0 ELSE disk_fat[c]]
       IN  \/ /\ Write
              /\ IF r.steps + 1 \in Sectors
                 THEN r' = [r EXCEPT !.steps = @ + 1] /\ UNCHANGED <<pc, mounted>>
                 ELSE Goto("format_root") /\ mounted' = TRUE /\ UNCHANGED r
              /\ UNCHANGED faults
           \/ IoError /\ (Write \/ UNCHANGED disk_fat) /\ Leave("IO") /\ UNCHANGED mounted
    /\ UNCHANGED <<super, data, cacheVars, next_free, file, op>>

\* ... makes the root a chain of one cluster ...
format_root ==
    /\ At("format_root")
    /\ SetEntry(ROOT, CHAIN_END)
    /\ Goto("format_zero")
    /\ UNCHANGED <<diskVars, mounted, next_free, file, op, r, faults>>

\* ... and empty, and, the FAT being flushed, writes the super block last.
format_zero ==
    /\ pc = "format_zero"
    /\ \/ /\ data' = [data EXCEPT ![ROOT] = ZERO]
          /\ Goto("format_flush")
          /\ UNCHANGED <<r, faults>>
       \/ IoError /\ (data' = [data EXCEPT ![ROOT] = ZERO] \/ UNCHANGED data) /\ Leave("IO")
    /\ UNCHANGED <<super, disk_fat, mounted, cacheVars, next_free, file, op>>

format_super ==
    /\ pc = "format_flush"
    /\ Flushed
    /\ \/ super' = TRUE /\ Leave("OK") /\ UNCHANGED faults
       \/ IoError /\ super' \in {super, TRUE} /\ Leave("IO")
    /\ UNCHANGED <<disk_fat, data, mounted, cacheVars, next_free, file, op>>
-----------------------------------------------------------------------------
(* What the disk holds: the directory and the files, as a mount finds them. *)

\* The clusters of a chain in order, 0 behind its end.
Chain(fat, first) ==
    LET succ == [c \in 0..(CLUSTERS + 1) |->
                   IF c \in Clusters /\ fat[c] \in Clusters THEN fat[c] ELSE 0]
        nth[k \in 0..CLUSTERS] == IF k = 0 THEN first ELSE succ[nth[k - 1]]
    IN  nth
ChainSet(fat, first) ==
    LET nth == Chain(fat, first) IN {nth[k] : k \in 0..CLUSTERS} \ {0}

\* The chain is allocated, and it ends.
Sound(fat, first) ==
    /\ \A c \in ChainSet(fat, first) : c \in Clusters /\ fat[c] \in Clusters \cup {CHAIN_END}
    /\ Chain(fat, first)[CLUSTERS] = 0

\* The places of the directory that hold an entry.
EntryAt(s) == data[s[1]].dir[s[2]]
Used(fat) == {s \in ChainSet(fat, ROOT) \X Slots : EntryAt(s) # NULL}

Content(fat, entry) ==
    LET nth == Chain(fat, entry.first)
        Unit(p) == LET c == nth[p \div SECTOR_SIZE]
                   IN  IF c \in Clusters THEN data[c].bytes[p % SECTOR_SIZE] ELSE <<NULL, 0>>
    IN  [i \in 1..entry.size |-> Unit(i - 1)]

Files ==
    LET used == IF super THEN Used(disk_fat) ELSE {}
    IN  [n \in Names |->
           LET at == {s \in used : EntryAt(s).name = n}
           IN  IF at = {} THEN NULL ELSE Content(disk_fat, EntryAt(CHOOSE s \in at : TRUE))]
-----------------------------------------------------------------------------
(* The calls.                                                              *)

\* The body of a call of function fn: its first step, or what it returns at once.
Enter(fn, regs) ==
    IF ~mounted THEN /\ pc' = IF fn \in {"rename_to", "read", "usage", "list"}
                              THEN "return" ELSE "finish"
                     /\ r' = [regs EXCEPT !.status = "NOFS"]
                     /\ UNCHANGED file
    ELSE CASE fn = "write" ->
                /\ pc' = IF regs.off > file.size \/ regs.cnt = 0 THEN "finish" ELSE "file_reach"
                /\ r' = [regs EXCEPT !.old = <<file.first, file.size>>,
                            !.status = IF regs.off > file.size THEN "INVAL" ELSE "OK"]
                /\ UNCHANGED file
           [] fn = "read" ->
                /\ pc' = IF regs.off >= file.size \/ regs.cnt = 0 THEN "return" ELSE "file_reach"
                /\ r' = [regs EXCEPT !.cnt = IF regs.off >= file.size THEN 0
                                             ELSE Clip(@, file.size - regs.off)]
                /\ UNCHANGED file
           [] fn = "truncate" ->
                /\ pc' = IF regs.cnt >= file.size THEN "finish"
                         ELSE IF regs.cnt = 0 THEN "file_sync" ELSE "file_reach"
                /\ r' = [regs EXCEPT !.cluster = 0,
                            !.status = IF regs.cnt > file.size THEN "INVAL" ELSE "OK",
                            !.tail = IF regs.cnt = 0 THEN file.first ELSE 0]
                /\ file' = IF regs.cnt = 0 /\ file.size > 0
                           THEN [file EXCEPT !.first = 0, !.size = 0, !.cursor_index = 0,
                                             !.cursor_cluster = 0]
                           ELSE file
           [] fn \in {"usage", "list"} ->
                pc' = fn /\ r' = regs /\ UNCHANGED file
           [] OTHER ->
                pc' = "dir_lookup" /\ r' = regs /\ UNCHANGED file

Begin(o, fn, regs) ==
    /\ pc = "idle"
    /\ o.fn \in Ops
    /\ op' = o
    /\ Enter(fn, regs)
    /\ UNCHANGED <<diskVars, mounted, cacheVars, next_free, faults>>

IsOpen == file.slot # NULL

\* Calls on names.  The caller has no file open: no caller keeps one.
fs_create(n) == ~IsOpen /\ Begin(Call("create", n, NULL, 0, 0, NULL), "create",
                                 Locals("create", n))
fs_remove(n) == ~IsOpen /\ Begin(Call("remove", n, NULL, 0, 0, NULL), "remove",
                                 Locals("remove", n))
fs_rename(n, m) == ~IsOpen /\ Begin(Call("rename", n, m, 0, 0, NULL), "rename_to",
                                    Locals("rename_to", m))
fs_iter == ~IsOpen /\ Begin(Call("list", NULL, NULL, 0, 0, NULL), "list",
                             Locals("list", NULL))
fs_usage == ~IsOpen /\ Begin(Call("usage", NULL, NULL, 0, 0, NULL), "usage",
                              Locals("usage", NULL))

\* The data a caller writes to a file has a tag that no other file has.
FreshTag(n, t) == \A m \in Names \ {n} : Files[m] # NULL =>
                     \A i \in DOMAIN Files[m] : Files[m][i][1] # t

fs_open(n, create, t) ==
    /\ pc = "idle" /\ ~IsOpen
    /\ FreshTag(n, t)
    /\ Files[n] \notin {NULL, << >>} => Files[n][1][1] = t
    /\ LET fn == IF create THEN "open_create" ELSE "open"
       IN  Begin(Call(fn, n, NULL, 0, 0, t), fn, Locals(fn, n))

fs_write_all(n, size, t) ==
    /\ pc = "idle" /\ ~IsOpen
    /\ FreshTag(n, t)
    /\ Begin(Call("write_all", n, NULL, 0, size, t), "open_create", Locals("open_create", n))

fs_read_all(n) ==
    ~IsOpen /\ Begin(Call("read_all", n, NULL, 0, 0, NULL), "open", Locals("open", n))

\* Calls on an open file.
OnFile(fn, off, cnt) ==
    /\ IsOpen
    /\ Begin(Call(fn, op.name, NULL, off, cnt, file.tag), fn,
             [Locals(fn, op.name) EXCEPT !.off = off, !.cnt = cnt])

fs_write(off, cnt) == off + cnt <= MAX_SIZE /\ OnFile("write", off, cnt)
fs_read(off, cnt) == OnFile("read", off, cnt)
fs_truncate(size) == OnFile("truncate", 0, size)

\* The caller's struct fs_file goes out of scope.
close == /\ pc = "idle"
         /\ IsOpen
         /\ file' = NoFile
         /\ op' = NoCall
         /\ UNCHANGED <<diskVars, mounted, cacheVars, next_free, pc, r, faults>>

fs_format ==
    /\ pc = "idle"
    /\ ~IsOpen
    /\ "format" \in Ops
    /\ Unmount
    /\ op' = Call("format", NULL, NULL, 0, 0, NULL)
    /\ r' = Locals("format", NULL)
    /\ Goto("format_fat")
    /\ UNCHANGED <<diskVars, file, faults>>

\* How much of the file the loop of fs_write_all or fs_read_all has behind it.
Transferred == IF r.fn \in {"read", "write"} THEN r.off + r.done ELSE 0

\* fs_write_all and fs_read_all go on with another call.
WritesOn == op.fn = "write_all" /\ r.fn # "open_create" /\ Transferred < op.cnt
ReadsOn == op.fn = "read_all" /\ Transferred < file.size
Truncates == op.fn = "write_all" /\ r.fn = "open_create"
GoesOn == r.status = "OK" /\ (Truncates \/ WritesOn \/ ReadsOn)

fs_continue ==
    /\ pc = "return"
    /\ GoesOn
    /\ CASE Truncates -> Enter("truncate", Locals("truncate", NULL))
         [] WritesOn -> Enter("write", [Locals("write", NULL) EXCEPT !.off = Transferred,
                                                  !.cnt = op.cnt - Transferred])
         [] ReadsOn -> Enter("read", [Locals("read", NULL) EXCEPT !.off = Transferred,
                                !.cnt = file.size - Transferred, !.bytes = r.bytes])
    /\ UNCHANGED <<diskVars, mounted, cacheVars, next_free, op, faults>>

\* The call returns to the shell.
fs_return ==
    /\ pc = "return"
    /\ ~GoesOn
    /\ Goto("idle")
    /\ r' = Locals("none", NULL)
    /\ IF op.fn \in {"write_all", "read_all"} \/ ~IsOpen \/ r.status # "OK"
       THEN file' = NoFile /\ op' = NoCall
       ELSE op' = [NoCall EXCEPT !.name = op.name] /\ UNCHANGED file
    /\ mounted' = IF op.fn = "format" THEN r.status = "OK" ELSE mounted
    /\ UNCHANGED <<diskVars, cacheVars, next_free, faults>>

\* finish() with nothing to flush.
finish ==
    /\ pc = "finish"
    /\ Flushed
    /\ Goto("return")
    /\ UNCHANGED <<diskVars, mounted, cacheVars, next_free, file, op, r, faults>>

\* fs_init: mount what is on the disk, and format a disk that has no super block.
mount_now ==
    /\ pc = "mount"
    /\ \/ /\ super
          /\ mounted' = TRUE
          /\ Goto("idle")
          /\ UNCHANGED <<op, r, faults>>
       \/ /\ ~super
          /\ op' = Call("format", NULL, NULL, 0, 0, NULL)
          /\ r' = Locals("format", NULL)
          /\ Goto("format_fat")
          /\ UNCHANGED <<mounted, faults>>
       \/ /\ IoError
          /\ Goto("idle")
          /\ UNCHANGED <<mounted, op, r>>
    /\ UNCHANGED <<diskVars, cacheVars, next_free, file>>

\* The machine stops and is started again: only the disk survives.
reboot ==
    /\ IoError
    /\ Unmount
    /\ Goto("mount")
    /\ op' = NoCall
    /\ r' = Locals("none", NULL)
    /\ file' = NoFile
    /\ UNCHANGED diskVars

Init ==
    /\ super = FALSE
    /\ disk_fat \in {[c \in Clusters |-> v] : v \in {0, CHAIN_END}}
    /\ data = [c \in Clusters |-> ZERO]
    /\ mounted = FALSE
    /\ fat_cache = << >>
    /\ fat_cache_sector = NO_SECTOR
    /\ fat_dirty = FALSE
    /\ next_free = 1
    /\ file = NoFile
    /\ op = NoCall
    /\ pc = "mount"
    /\ r = Locals("none", NULL)
    /\ faults = 0

FatStep == fat_flush \/ fat_load \/ out_of_range \/ cluster_alloc \/ undo \/ chain_free
DirStep == \/ dir_lookup \/ fs_iter_next \/ chain_next \/ cluster_zero \/ dir_link
           \/ slot_store \/ file_sync
FileStep == \/ file_reach \/ walk \/ link \/ write_data \/ write_end \/ read_data
            \/ truncate_last \/ truncate_end
OtherStep == \/ usage \/ format_fat \/ format_root \/ format_zero \/ format_super
             \/ finish \/ fs_continue \/ fs_return \/ mount_now
Step == FatStep \/ DirStep \/ FileStep \/ OtherStep

NameCall == \E n \in Names :
               \/ fs_create(n)
               \/ fs_remove(n)
               \/ \E m \in Names : fs_rename(n, m)
               \/ fs_read_all(n)
               \/ \E t \in Tags, k \in 0..MAX_SIZE : fs_write_all(n, k, t)
               \/ \E t \in Tags, b \in BOOLEAN : fs_open(n, b, t)
FileCall == \/ \E o, k \in 0..MAX_SIZE : fs_write(o, k) \/ fs_read(o, k)
            \/ \E k \in 0..MAX_SIZE : fs_truncate(k)
            \/ close
DiskCall == fs_iter \/ fs_usage \/ fs_format

Next == Step \/ NameCall \/ FileCall \/ DiskCall \/ reboot

Spec == Init /\ [][Next]_vars
-----------------------------------------------------------------------------
(* Properties.                                                             *)

\* The FAT as fat_get sees it.
Fat == [c \in Clusters |-> IF c \in DOMAIN fat_cache THEN fat_cache[c] ELSE disk_fat[c]]

\* A sound filesystem: the chains of the directory and of the files are allocated
\* and end, no two share a cluster, each is long enough for its file, and no name
\* is there twice.
Consistent(fat) ==
    LET used == Used(fat)
    IN  /\ Sound(fat, ROOT)
        /\ \A s \in used :
              LET e == EntryAt(s)
                  own == ChainSet(fat, e.first)
              IN  /\ Sound(fat, e.first)
                  /\ own \cap ChainSet(fat, ROOT) = {}
                  /\ e.size <= SECTOR_SIZE * Cardinality(own)
                  /\ \A t \in used \ {s} :
                        /\ EntryAt(t).name # e.name
                        /\ own \cap ChainSet(fat, EntryAt(t).first) = {}

\* If the machine stops now, the next boot finds a sound filesystem: the order in
\* which fs.c writes the FAT and the directory never leaves the disk with a file
\* whose clusters are free, shared or missing.
CrashConsistent == super /\ op.fn # "format" => Consistent(disk_fat)

\* The filesystem that the running call works on is sound as well, whatever failed
\* before: an open file whose entry is not written yet has clusters of its own, and
\* a FAT sector in the cache that is not marked dirty is the sector on the disk
\* (fat_load, fat_flush).
WorkingStateConsistent ==
    /\ fat_dirty \/ \A c \in DOMAIN fat_cache : fat_cache[c] = disk_fat[c]
    /\ mounted /\ op.fn # "format" =>
          /\ Consistent(Fat)
          /\ IsOpen =>
               /\ Sound(Fat, file.first)
               /\ \A s \in Used(Fat) \ {file.slot} :
                     ChainSet(Fat, file.first) \cap ChainSet(Fat, EntryAt(s).first) = {}
               /\ ChainSet(Fat, file.first) \cap ChainSet(Fat, ROOT) = {}

\* Without disk errors and crashes no cluster is lost: between two calls those in
\* use are those of the directory and of the files (cluster_free, chain_free).
NoLeak ==
    faults = 0 /\ pc = "idle" /\ mounted =>
        {c \in Clusters : Fat[c] # 0} =
            ChainSet(Fat, ROOT) \cup UNION {ChainSet(Fat, EntryAt(s).first) : s \in Used(Fat)}

Data(tag, off, cnt) == [i \in 1..cnt |-> <<tag, off + i - 1>>]

\* What a call that succeeds says.
Succeeded ==
    CASE op.fn = "create" -> Files[op.name] = << >>
      [] op.fn = "remove" -> Files[op.name] = NULL
      [] op.fn = "rename" -> Files[op.to] # NULL /\ Files[op.name] = NULL
      [] op.fn \in {"open", "open_create"} -> Len(Files[op.name]) = file.size
      [] op.fn = "write_all" -> Files[op.name] = Data(op.tag, 0, op.cnt)
      [] op.fn = "write" ->
            op.cnt > 0 =>
            /\ Len(Files[op.name]) >= op.off + r.done
            /\ SubSeq(Files[op.name], op.off + 1, op.off + r.done) = Data(op.tag, op.off, r.done)
            /\ r.done = op.cnt \/ faults > 0 \/ \A c \in Clusters : Fat[c] # 0
      [] op.fn = "truncate" -> Len(Files[op.name]) = op.cnt
      [] op.fn = "read" -> r.bytes = Data(op.tag, op.off, r.done)
      [] op.fn = "read_all" -> r.bytes = Files[op.name]
      [] op.fn = "list" -> r.names = {n \in Names : Files[n] # NULL}
      [] op.fn = "usage" -> r.done = Cardinality({c \in Clusters : Fat[c] = 0})
      [] op.fn = "format" -> \A n \in Names : Files[n] = NULL
      [] OTHER -> TRUE

\* What a call returns is so.  Success is true of the disk, nothing of it is left in
\* the cache; FS_ERR_NOSPC is returned only when no cluster is free, wherever the hint
\* next_free points; and no call ever meets a filesystem that is corrupted.
AnswersTrue ==
    /\ pc = "return" /\ ~GoesOn /\ r.status = "OK" => Succeeded
    /\ pc = "return" /\ r.status = "NOSPC" => \A c \in Clusters : Fat[c] # 0
    /\ r.status # "CORRUPT"

\* A mounted filesystem is sound whenever no call runs.
MountedSound == pc = "idle" /\ mounted => Consistent(disk_fat)

\* At every instant the disk holds a store of files that changes as FileStore
\* says: one file at a time, created empty, grown with the caller's data, cut,
\* renamed or removed as a whole, whatever fails and wherever the machine stops, and
\* all removed by a format that runs to its end.  Writing the same data again in place
\* shows no change here; fs_write_all, the one caller of fs_write, cuts the file first.
Abstract == INSTANCE FileStore WITH
                files <- IF op.fn = "format" THEN [n \in Names |-> NULL] ELSE Files,
                formatting <- (op.fn = "format")
ImplementsFileStore == Abstract!Spec

\* A damaged directory is never taken for a short one: "no such file" and a
\* complete listing are answers only about a directory whose chain is sound.  It is
\* about the calls by name; that file_reach takes the first cluster of an open file
\* as the directory entry gives it, in range or not, is not covered.
DamageReported ==
    pc = "return" /\ (r.status = "NOENT" \/ (op.fn = "list" /\ r.status = "OK"))
        => Sound(Fat, ROOT)

\* Every call returns, on a disk with any damage to its FAT as well.
FairSpec == Spec /\ WF_vars(Step)
CallsReturn == (pc # "idle") ~> (pc = "idle")
=============================================================================
