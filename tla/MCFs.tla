-------------------------------- MODULE MCFs --------------------------------
(* Fs for TLC. *)
EXTENDS Fs, FiniteSetsExt, TLC

\* Names and tags are only ever compared.
Symmetry == Permutations(Names) \cup Permutations(Tags)

VARIABLE scene    \* the calls, names, sizes and faults of a behaviour

\* Calls on two names, and formatting, without faults; calls that change the directory
\* with a crash or a disk error; calls on an open file with one as well.
Scenes ==
    [ops : {{"create", "remove", "rename", "write_all", "read_all", "list", "usage"}},
     names : {Names}, tags : {Tags}, sizes : {{0, 3, 4}}, faults : {0}]
    \cup
    [ops : {{"write_all", "format"}},
     names : {Names}, tags : {Tags}, sizes : {{0, 3}}, faults : {0}]
    \cup
    [ops : {{"create", "remove", "rename", "write_all"}},
     names : {Names}, tags : {Tags}, sizes : {{0, 2}}, faults : {MAX_FAULTS}]
    \cup
    [ops : {{"open", "open_create", "read", "write", "truncate", "remove"}},
     names : kSubset(1, Names), tags : kSubset(1, Tags), sizes : {0..MAX_SIZE},
     faults : {MAX_FAULTS}]

InScene ==
    /\ faults' <= scene.faults
    /\ pc = "idle" /\ pc' # "mount" =>
          /\ op'.fn \in scene.ops \cup {NoCall.fn}
          /\ {op'.name, op'.to} \subseteq scene.names \cup {NULL}
          /\ op'.tag \in scene.tags \cup {NULL}
          /\ op'.off \in scene.sizes \cup {0}
          /\ op'.cnt \in scene.sizes \cup {0}

SceneInit == Init /\ scene \in Scenes
SceneNext == Next /\ InScene /\ UNCHANGED scene
SceneSpec == SceneInit /\ [][SceneNext]_<<vars, scene>>

\* Formatting with a crash; the cfg names the calls.
FormatSpec == Init /\ scene = {} /\ [][Next /\ UNCHANGED scene]_<<vars, scene>>

\* A disk with a super block whose FAT holds anything, values out of range and
\* cycles included, and whose root directory may have a file that starts
\* anywhere: what bad sectors, or a format that was cut short, leave behind.
DamagedInit ==
    /\ scene = {}
    /\ super = TRUE
    /\ disk_fat \in [Clusters -> 0..(CLUSTERS + 1) \cup {CHAIN_END}]
    /\ \E e \in {NULL} \cup [name : Names, first : 0..(CLUSTERS + 1), size : {1}] :
          data = [c \in Clusters |->
                    IF c = ROOT THEN [ZERO EXCEPT !.dir[0] = e] ELSE ZERO]
    /\ mounted = FALSE
    /\ fat_cache = << >>
    /\ fat_cache_sector = NO_SECTOR
    /\ fat_dirty = FALSE
    /\ next_free = 1
    /\ file = NoFile
    /\ op = NoCall
    /\ pc = "mount"
    /\ r = Locals("none", NULL)
    /\ faults = 0

DamagedSpec == DamagedInit /\ [][Next /\ UNCHANGED scene]_<<vars, scene>> /\ WF_vars(Step)
=============================================================================
