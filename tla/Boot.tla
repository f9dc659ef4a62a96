---------------------------------- MODULE Boot ----------------------------------
(***************************************************************************)
(* From power on to the shell, and recovery mode: kernel_main of           *)
(* src/kernel/kernel.c, the menu of recovery.c with the installer of       *)
(* installer.c, fs_init of fs.c (mount, or format and import the files of  *)
(* the old disk format), bundle_install of bundle.c, and the commands of   *)
(* the shell that write to the disk.  The filesystem is seen as Fs shows   *)
(* it to be: a file is created empty, grows, and is complete in the end.   *)
(*                                                                         *)
(* The disk has the boot area, that the installer writes, and behind it    *)
(* the filesystem: block 0 with the super block or the header of the old   *)
(* format, the FAT (where the old format has its records) and the files.   *)
(* Power may fail between any two steps; a disk access may fail, a failed  *)
(* write may have reached the disk, a write may leave something else than  *)
(* it was given, and there may be no memory for the old image.             *)
(***************************************************************************)
EXTENDS Integers

CONSTANTS
    FACTORY_SECTORS,  \* sectors of the boot area
    CHUNK_SECTORS,    \* sectors of one write of recovery_install
    TEST_LBA,         \* the sector that the command dt overwrites (5 in the code)
    Names,            \* file names, all of them accepted by name_check
    OldNames,         \* the names in an image of the old format, accepted or not
    Bundled,          \* the names in bundle_table
    MAX_EPOCH,        \* bound: the times the filesystem is erased on purpose
    MAX_FAULTS        \* bound: power failures, errors of the disk and failed kmallocs

ASSUME BootAssumption ==
    /\ FACTORY_SECTORS \in Nat \ {0} /\ CHUNK_SECTORS \in Nat \ {0}
    /\ FACTORY_SECTORS % CHUNK_SECTORS = 0
    /\ TEST_LBA \in 0..(FACTORY_SECTORS - 1)
    /\ Bundled \subseteq Names
    /\ MAX_EPOCH \in Nat /\ MAX_FAULTS \in Nat

VARIABLES
    boot,     \* the sectors of the boot area: "image", "test" or "other"
    block0,   \* block 0: "super", "old" or "none"
    records,  \* the files of the old format that are still on the disk
    dir,      \* the files, whether or not there is a super block
    mounted,
    pc,
    old,      \* the names in the image that old_image_load read, {} for none
    todo,     \* the files that are still to be imported or installed
    file,     \* fs_write_all: the name, the data, and where it returns
    image,    \* the module of the boot loader: "none", "bad" or "good"
    selected, \* the menu's entry
    lba,      \* of the loops of recovery_install
    result,   \* "format" during fs_format; what the installer returned
    epoch,    \* history: how often the filesystem was erased on purpose
    faults

diskVars == <<boot, block0, records, dir>>
fsVars == <<mounted, old, todo, file>>
menuVars == <<image, selected, lba>>
vars == <<diskVars, pc, fsVars, menuVars, result, epoch, faults>>

Sectors == 0..(FACTORY_SECTORS - 1)
ABSENT == [kind |-> "absent", epoch |-> 0]
BUNDLE == [kind |-> "bundle", epoch |-> 0]
User(e) == [kind |-> "user", epoch |-> e]
Part(e) == [kind |-> "part", epoch |-> e]
NoFile == [name |-> "none", data |-> ABSENT, return |-> "none"]

Fault == faults < MAX_FAULTS /\ faults' = faults + 1
Goto(label) == pc' = label
-----------------------------------------------------------------------------
(* fs_init.                                                                *)

\* mount_now: an error other than "no filesystem" leaves the disk as it is.
mount_now ==
    /\ pc = "mount"
    /\ \/ /\ block0 = "super"
          /\ mounted' = TRUE
          /\ todo' = Bundled
          /\ Goto("bundle")
          /\ UNCHANGED faults
       \/ /\ block0 # "super"
          /\ Goto("old_image_load")
          /\ UNCHANGED <<mounted, todo, faults>>
       \/ Fault /\ Goto("shell") /\ UNCHANGED <<mounted, todo>>
    /\ UNCHANGED <<diskVars, old, file, menuVars, result, epoch>>

\* old_image_load takes only an image with the old magic number.
OldImage == IF block0 = "old" THEN records ELSE {}

old_image_load ==
    /\ pc = "old_image_load"
    /\ \/ old' = OldImage /\ Goto("format_fat") /\ UNCHANGED faults
       \/ Fault /\ Goto("shell") /\ UNCHANGED old
       \/ Fault /\ old' = {} /\ Goto("format_fat")   \* kmalloc: no image, and no error
    /\ UNCHANGED <<diskVars, mounted, todo, file, menuVars, result, epoch>>

Empty == [n \in Names |-> ABSENT]

\* format_now fails with an error of the disk; fs_init and fs_format return it.
FormatFails ==
    /\ Fault
    /\ Goto("shell")
    /\ mounted' = FALSE
    /\ old' = {}
    /\ result' = "none"
    /\ UNCHANGED <<todo, epoch>>

\* The files without their FAT.
Damaged == [n \in Names |-> IF dir[n].kind = "user" THEN Part(dir[n].epoch) ELSE dir[n]]

\* The sectors of the FAT are cleared; how many of the old records lie there depends
\* on its size.
format_fat ==
    /\ pc = "format_fat"
    /\ records' \in SUBSET records
    /\ \/ /\ dir' = Damaged
          /\ Goto("format_root")
          /\ UNCHANGED <<mounted, old, todo, result, epoch, faults>>
       \/ dir' \in {dir, Damaged} /\ FormatFails
    /\ UNCHANGED <<boot, block0, file, menuVars>>

\* Mutant: the root directory keeps what it held.
ClearRoot_none == UNCHANGED dir

\* cluster_zero of the root directory.
ClearRoot == dir' = Empty

format_root ==
    /\ pc = "format_root"
    /\ \/ ClearRoot /\ Goto("format_super") /\ UNCHANGED <<mounted, old, todo, result, epoch, faults>>
       \/ dir' \in {dir, Empty} /\ FormatFails
    /\ UNCHANGED <<boot, block0, records, file, menuVars>>

\* The super block is written last; fs_init goes on with the old files.
format_super ==
    /\ pc = "format_super"
    /\ \/ /\ block0' = "super"
          /\ mounted' = TRUE
          /\ IF result = "format"
             THEN Goto("shell") /\ epoch' = epoch + 1 /\ UNCHANGED todo
             ELSE /\ Goto(IF old = {} THEN "bundle" ELSE "import")
                  /\ todo' = IF old = {} THEN Bundled ELSE old
                  /\ UNCHANGED epoch
          /\ result' = "none"
          /\ UNCHANGED <<old, faults>>
       \/ block0' \in {block0, "super"} /\ FormatFails
    /\ UNCHANGED <<boot, records, dir, file, menuVars>>
-----------------------------------------------------------------------------
(* fs_write_all: the file is empty first and complete at the end.          *)

WriteAll(n, data, return) ==
    /\ file' = [name |-> n, data |-> data, return |-> return]
    /\ Goto("write_all")

Contents(data) == [dir EXCEPT ![file.name] = data]

write_create ==
    /\ pc = "write_all"
    /\ \/ dir' = Contents(Part(epoch)) /\ Goto("write_data") /\ UNCHANGED <<file, faults>>
       \/ /\ Fault
          /\ dir' \in {dir, Contents(Part(epoch))}
          /\ Goto(file.return)
          /\ file' = NoFile
    /\ UNCHANGED <<boot, block0, records, mounted, old, todo, menuVars, result, epoch>>

write_data ==
    /\ pc = "write_data"
    /\ Goto(file.return)
    /\ file' = NoFile
    /\ \/ dir' = Contents(file.data) /\ UNCHANGED faults
       \/ Fault /\ dir' \in {dir, Contents(file.data)}
    /\ UNCHANGED <<boot, block0, records, mounted, old, todo, menuVars, result, epoch>>

\* Mutant: the last file of the image is forgotten.
Imported_butLast == \E n \in todo : todo = {n}

\* The loop of old_image_import has come to the end of the image.
Imported == todo = {}

name_check(n) == n \in Names

\* old_image_import skips the names that this filesystem does not allow, and goes on
\* whatever fs_write_all returns.
old_image_import ==
    /\ pc = "import"
    /\ \/ \E n \in todo :
             /\ todo' = todo \ {n}
             /\ IF name_check(n) THEN WriteAll(n, User(0), "import") ELSE UNCHANGED <<pc, file>>
       \/ /\ Imported
          /\ todo' = Bundled
          /\ Goto("bundle")
          /\ UNCHANGED file
    /\ UNCHANGED <<diskVars, mounted, old, menuVars, result, epoch, faults>>

\* Mutant: any error of fs_open is taken for a file that is not there.
NoEntry_onError(n) == Fault \/ (dir[n] = ABSENT /\ UNCHANGED faults)

\* fs_open returns FS_ERR_NOENT.
NoEntry(n) == dir[n] = ABSENT /\ UNCHANGED faults

\* Mutant: the loop stays at its entry.
Following_same(n) == todo

\* The entries of bundle_table that are left after this one.
Following(n) == todo \ {n}

\* bundle_install leaves alone a file that is there or may be.
bundle_install ==
    /\ pc = "bundle"
    /\ \/ \E n \in todo :
             /\ todo' = Following(n)
             /\ \/ NoEntry(n) /\ WriteAll(n, BUNDLE, "bundle")
                \/ /\ (dir[n] # ABSENT /\ UNCHANGED faults) \/ Fault
                   /\ UNCHANGED <<pc, file>>
          /\ UNCHANGED old
       \/ todo = {} /\ Goto("shell") /\ old' = {} /\ UNCHANGED <<todo, file, faults>>
    /\ UNCHANGED <<diskVars, mounted, menuVars, result, epoch>>
-----------------------------------------------------------------------------
(* The commands of the shell that write to the disk.                       *)

set(n) ==
    /\ pc = "shell" /\ mounted
    /\ WriteAll(n, User(epoch), "shell")
    /\ UNCHANGED <<diskVars, mounted, old, todo, menuVars, result, epoch, faults>>

rm(n) ==
    /\ pc = "shell" /\ mounted
    /\ dir' = [dir EXCEPT ![n] = ABSENT]
    /\ UNCHANGED <<boot, block0, records, pc, fsVars, menuVars, result, epoch, faults>>

create(n) ==
    /\ pc = "shell" /\ mounted
    /\ dir[n] = ABSENT
    /\ dir' = [dir EXCEPT ![n] = User(epoch)]
    /\ UNCHANGED <<boot, block0, records, pc, fsVars, menuVars, result, epoch, faults>>

rename(n, m) ==
    /\ pc = "shell" /\ mounted
    /\ dir[n] # ABSENT /\ dir[m] = ABSENT
    /\ dir' = [dir EXCEPT ![n] = ABSENT, ![m] = dir[n]]
    /\ UNCHANGED <<boot, block0, records, pc, fsVars, menuVars, result, epoch, faults>>

format_yes ==
    /\ pc = "shell"
    /\ epoch < MAX_EPOCH
    /\ mounted' = FALSE
    /\ result' = "format"
    /\ Goto("format_fat")
    /\ UNCHANGED <<diskVars, old, todo, file, menuVars, epoch, faults>>

\* The command dt writes its pattern to a sector of the boot area.
dt ==
    /\ pc = "shell"
    /\ boot' = [boot EXCEPT ![TEST_LBA] = "test"]
    /\ UNCHANGED <<block0, records, dir, pc, fsVars, menuVars, result, epoch, faults>>
-----------------------------------------------------------------------------
(* Recovery mode.                                                          *)

ACTION_REBOOT == 0
ACTION_FACTORY == 1
ACTION_ERASE == 2
ACTION_POWER_OFF == 3
ACTION_COUNT == 4

\* The memory is lost.
Off ==
    /\ Goto("off")
    /\ mounted' = FALSE /\ old' = {} /\ todo' = {} /\ file' = NoFile
    /\ image' = "none" /\ selected' = 0 /\ lba' = 0 /\ result' = "none"

\* Up and Down in recovery_main.
menu_move ==
    /\ pc = "menu"
    /\ selected' \in {(selected + ACTION_COUNT - 1) % ACTION_COUNT, (selected + 1) % ACTION_COUNT}
    /\ UNCHANGED <<diskVars, pc, fsVars, image, lba, result, epoch, faults>>

\* Enter: recovery_reboot, recovery_power_off, or one of the screens; without an image
\* factory_screen only says so.
menu_enter ==
    /\ pc = "menu"
    /\ \/ selected \in {ACTION_REBOOT, ACTION_POWER_OFF} /\ Off
       \/ /\ selected = ACTION_ERASE
          /\ Goto("erase_screen")
          /\ UNCHANGED <<fsVars, menuVars, result>>
       \/ /\ selected = ACTION_FACTORY
          /\ Goto(IF image = "none" THEN "result" ELSE "factory_screen")
          /\ result' = IF image = "none" THEN "FAILED" ELSE result
          /\ UNCHANGED <<fsVars, menuVars>>
    /\ UNCHANGED <<diskVars, epoch, faults>>

\* A key in one of the screens: Y goes on, any other key returns to the menu.
confirm(yes) ==
    /\ pc \in {"erase_screen", "factory_screen"}
    /\ Goto(IF ~yes THEN "menu" ELSE IF pc = "erase_screen" THEN "erase" ELSE "install")
    /\ pc = "erase_screen" /\ yes => epoch < MAX_EPOCH
    /\ lba' = 0
    /\ UNCHANGED <<diskVars, fsVars, image, selected, result, epoch, faults>>

Done(code) == result' = code /\ Goto("result")

\* recovery_erase_fs clears block 0 and reads it back.
recovery_erase_fs ==
    /\ pc = "erase"
    /\ \/ block0' = "none" /\ Done("OK") /\ epoch' = epoch + 1 /\ UNCHANGED faults
       \/ Fault /\ block0' \in {block0, "none"} /\ Done("FAILED") /\ UNCHANGED epoch
    /\ UNCHANGED <<boot, records, dir, fsVars, menuVars>>

InChunk(l) == l \in lba..(lba + CHUNK_SECTORS - 1)

\* The boot area when the chunk at lba is written, and when a fault lets any of its
\* sectors keep what they held or take something else.
Written == [l \in Sectors |-> IF InChunk(l) THEN "image" ELSE boot[l]]
Spoiled == {area \in [Sectors -> {"image", "test", "other"}] :
               \A l \in Sectors :
                  area[l] \in {boot[l]} \cup {s \in {"image", "other"} : InChunk(l)}}

NextChunk ==
    IF lba + CHUNK_SECTORS < FACTORY_SECTORS
    THEN lba' = lba + CHUNK_SECTORS /\ UNCHANGED <<pc, result>>
    ELSE lba' = 0 /\ Goto("verify") /\ UNCHANGED result

\* recovery_install checks the image and the disk, then writes chunk by chunk.
install_write ==
    /\ pc = "install"
    /\ \/ image = "bad" /\ Done("FAILED") /\ UNCHANGED <<boot, lba, faults>>
       \/ image = "good" /\ boot' = Written /\ NextChunk /\ UNCHANGED faults
       \/ /\ image = "good"
          /\ Fault
          /\ boot' \in Spoiled
          /\ NextChunk \/ (Done("FAILED") /\ UNCHANGED lba)
    /\ UNCHANGED <<block0, records, dir, fsVars, image, selected, epoch>>

\* Mutant: the last sector is not compared.
VERIFY_END_early == FACTORY_SECTORS - 1

\* The end of the loop that compares.
VERIFY_END == FACTORY_SECTORS

\* ... and then compares every sector.
install_verify ==
    /\ pc = "verify"
    /\ \/ lba = VERIFY_END /\ Done("OK") /\ UNCHANGED <<lba, faults>>
       \/ /\ lba < VERIFY_END /\ boot[lba] = "image"
          /\ lba' = lba + 1
          /\ UNCHANGED <<pc, result, faults>>
       \/ lba < VERIFY_END /\ boot[lba] # "image" /\ Done("FAILED") /\ UNCHANGED <<lba, faults>>
       \/ lba < VERIFY_END /\ Fault /\ Done("FAILED") /\ UNCHANGED lba
    /\ UNCHANGED <<diskVars, fsVars, image, selected, epoch>>

\* "Press any key to return."
any_key ==
    /\ pc = "result"
    /\ Goto("menu")
    /\ result' = "none"
    /\ lba' = 0
    /\ UNCHANGED <<diskVars, fsVars, image, selected, epoch, faults>>
-----------------------------------------------------------------------------
\* kernel_main: recovery mode if the command line of the boot loader asks for it.
kernel_main ==
    /\ pc = "off"
    /\ \/ Goto("mount") /\ UNCHANGED image
       \/ Goto("menu") /\ image' \in {"none", "bad", "good"}
    /\ UNCHANGED <<diskVars, fsVars, selected, lba, result, epoch, faults>>

power_cut == pc # "off" /\ Fault /\ Off /\ UNCHANGED <<diskVars, epoch>>

\* The machine is turned off or reset at the prompt.
turn_off == pc = "shell" /\ Off /\ UNCHANGED <<diskVars, epoch, faults>>

\* A disk that was never used, or one in the old format.
Init ==
    /\ boot = [l \in Sectors |-> "other"]
    /\ block0 \in {"none", "old"}
    /\ records \in IF block0 = "old" THEN SUBSET OldNames ELSE {{}}
    /\ dir = Empty
    /\ mounted = FALSE
    /\ pc = "off"
    /\ old = {}
    /\ todo = {}
    /\ file = NoFile
    /\ image = "none"
    /\ selected = 0
    /\ lba = 0
    /\ result = "none"
    /\ epoch = 0
    /\ faults = 0

format_now == format_fat \/ format_root \/ format_super
fs_init == mount_now \/ old_image_load \/ format_now \/ old_image_import
fs_write_all == write_create \/ write_data
Kernel == kernel_main \/ fs_init \/ fs_write_all \/ bundle_install
Shell ==
    \/ \E n \in Names : set(n) \/ rm(n) \/ create(n) \/ \E m \in Names : rename(n, m)
    \/ format_yes \/ dt \/ turn_off
recovery_install == install_write \/ install_verify
Recovery ==
    \/ menu_move \/ menu_enter \/ (\E yes \in BOOLEAN : confirm(yes))
    \/ recovery_erase_fs \/ recovery_install \/ any_key

Next == Kernel \/ Shell \/ Recovery \/ power_cut
Spec == Init /\ [][Next]_vars

\* The processor runs the kernel; nobody has to type.
FairSpec == Spec /\ WF_vars(Kernel)
-----------------------------------------------------------------------------
(* Properties.                                                             *)

\* "Factory configuration installed and verified" is shown only when every sector of
\* the boot area holds the image, whatever the disk did with the writes
\* (recovery_install).
InstallVerified ==
    pc = "result" /\ selected = ACTION_FACTORY /\ result = "OK" =>
        \A l \in Sectors : boot[l] = "image"

\* After an erase or a format that was reported as done, no file from before it comes
\* back, wherever power fails on the way to the next prompt (recovery_erase_fs,
\* mount_now, old_image_load, the order of the writes of format_now).
ErasedFilesGone ==
    mounted /\ pc = "shell" =>
        \A n \in Names : dir[n].kind \in {"user", "part"} => dir[n].epoch = epoch

\* fs_init or bundle_install is at work, on a disk with a filesystem.
Starting ==
    /\ block0 = "super"
    /\ pc \in {"mount", "old_image_load", "format_fat", "format_root", "format_super",
              "import", "bundle", "write_all", "write_data"}
    /\ result # "format"
    /\ file.return # "shell"

\* A start of the kernel never changes a file of the user, also when fs_open fails to
\* find out whether there is one (bundle_install).
UserFilesKept ==
    [][\A n \in Names : Starting /\ dir[n].kind = "user" => dir'[n] = dir[n]]_vars

\* When nothing fails, each file of the old disk whose name name_check accepts is
\* complete in the new filesystem before the bundled files are installed, and they do
\* not replace it (old_image_load, old_image_import, bundle_install).  It says nothing
\* of the other names, which are skipped without a word, of a kmalloc that fails in
\* old_image_load, after which nothing is imported, and of power that fails between
\* the format and the end of the import: in each case those files are lost.
MigrationComplete ==
    faults = 0 /\ pc = "bundle" => \A n \in old : name_check(n) => dir[n] = User(0)

\* Every start of the machine ends at the prompt or in the menu, unless power fails
\* again.
BootEnds == (pc = "off") ~> (pc \in {"shell", "menu"})
=============================================================================
