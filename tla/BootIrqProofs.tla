--------------------------- MODULE BootIrqProofs ----------------------------
(***************************************************************************)
(* Proofs about Boot and about Irq, which share no state.                  *)
(*                                                                         *)
(* Boot for every number of sectors, set of names, bundle and number of    *)
(* faults: what is erased stays erased, a start leaves the user's files    *)
(* alone, an import without faults is complete, and an installation is     *)
(* reported only when it is on the disk.                                   *)
(*                                                                         *)
(* Irq for every number of lines, handlers and devices: the lines that are *)
(* open are those with a handler, and the controllers have in service just *)
(* what will be acknowledged.                                              *)
(***************************************************************************)
EXTENDS Boot, Irq, WellFoundedInduction, TLAPS
-----------------------------------------------------------------------------
(* Boot.                                                                   *)

Labels == {"off", "mount", "old_image_load", "format_fat", "format_root", "format_super",
           "import", "bundle", "write_all", "write_data", "shell", "menu", "erase_screen",
           "factory_screen", "erase", "install", "verify", "result"}
Kinds == {"absent", "bundle", "user", "part"}
Data == [kind : Kinds, epoch : Nat]
Returns == {"none", "shell", "import", "bundle"}
Booting == {"old_image_load", "format_fat", "format_root", "format_super"}
Writing == {"write_all", "write_data"}

TypeInv ==
    /\ boot \in [Sectors -> {"image", "test", "other"}]
    /\ block0 \in {"super", "old", "none"}
    /\ records \subseteq OldNames
    /\ dir \in [Names -> Data]
    /\ pc \in Labels
    /\ old \subseteq OldNames
    /\ todo \subseteq Names \cup OldNames
    /\ pc = "bundle" \/ (pc \in Writing /\ file.return = "bundle") => todo \subseteq Names
    /\ file \in [name : Names \cup {"none"}, data : Data, return : Returns]
    /\ selected \in 0..3
    /\ lba \in Nat
    /\ result \in {"none", "format", "OK", "FAILED"}
    /\ epoch \in Nat
    /\ faults \in Nat
    /\ pc \in Writing => file.name \in Names /\ file.return # "none"

\* What the control says of the other variables.
Control ==
    /\ mounted => block0 = "super" /\ pc \in {"import", "bundle", "shell"} \cup Writing
    /\ pc \in {"import", "bundle"} \cup Writing => mounted
    /\ pc \notin Writing => file.return = "none"
    /\ result = "format" => pc \in {"format_fat", "format_root", "format_super"}
    /\ pc \in Booting /\ result # "format" => block0 # "super"
    /\ pc \in {"install", "verify"} => selected = ACTION_FACTORY
    /\ pc = "erase" => selected = ACTION_ERASE
    /\ pc \in {"erase_screen"} => selected = ACTION_ERASE
    /\ pc \in {"factory_screen"} => selected = ACTION_FACTORY

\* There are files of the old disk in memory only while fs_init and bundle_install
\* run, on a filesystem that was never erased.
OldInv ==
    /\ block0 = "old" => epoch = 0
    /\ old # {} => /\ epoch = 0
                   /\ pc \in {"format_fat", "format_root", "format_super", "import", "bundle"} \cup Writing
                   /\ result # "format"
                   /\ file.return # "shell"
    /\ pc = "import" \/ file.return = "import" => old # {}

\* All files are from after the last erase.
Current == \A n \in Names : dir[n].kind \in {"user", "part"} => dir[n].epoch = epoch

EraseInv ==
    /\ block0 = "super" => Current
    /\ pc = "format_super" => dir = Empty
    /\ pc \in Writing /\ file.data.kind \in {"user", "part"} => file.data.epoch = epoch

\* fs_init and bundle_install write only files that are not the user's.
KeepInv ==
    /\ file.return \in {"import", "bundle"} => dir[file.name].kind # "user"
    /\ pc = "import" \/ file.return = "import" =>
          \A n \in Names : n \in todo => dir[n].kind # "user"
    /\ file.return = "import" => file.name \notin todo

\* The import has come so far.
ImportInv ==
    faults = 0 =>
        /\ pc = "import" => \A n \in Names : n \in old \ todo => dir[n] = User(0)
        /\ file.return = "import" =>
              /\ file.data = User(0)
              /\ \A n \in Names : n \in old \ todo => n = file.name \/ dir[n] = User(0)
        /\ pc = "bundle" => \A n \in Names : n \in old => dir[n] = User(0)
        /\ file.return = "bundle" => \A n \in Names : n \in old => n # file.name /\ dir[n] = User(0)

\* The sectors below lba have been compared.
VerifyInv ==
    /\ pc = "verify" => \A l \in Sectors : l < lba => boot[l] = "image"
    /\ InstallVerified

\* Every variable has its type when the machine is off.
LEMMA TypeInit == Init => TypeInv
BY BootAssumption DEF Init, TypeInv, Sectors, Empty, ABSENT, NoFile, Data, Kinds, Returns, Labels, Writing

\* Every step keeps the types.
LEMMA TypeNext == TypeInv /\ [Next]_vars => TypeInv'
<1> SUFFICES ASSUME TypeInv, [Next]_vars PROVE TypeInv'
    BY Zenon
<1> USE BootAssumption DEF Fault, Goto, diskVars, fsVars, menuVars, Writing
<1> DEFINE Files == [name : Names \cup {"none"}, data : Data, return : Returns]
<1>a. NoFile \in Files
    BY Zenon DEF NoFile, ABSENT, Data, Kinds, Returns
<1>b. Empty \in [Names -> Data]
    BY Zenon DEF Empty, ABSENT, Data, Kinds
<1>c. \A n \in Names, e \in Nat : Part(e) \in Data /\ User(e) \in Data /\ BUNDLE \in Data
    BY Zenon DEF Part, User, BUNDLE, Data, Kinds
<1>d. CASE Off /\ UNCHANGED <<diskVars, epoch>> /\ faults' \in Nat
    BY <1>a, <1>d DEF Off, TypeInv, Labels
<1>1. CASE mount_now
    BY <1>1 DEF mount_now, TypeInv, Labels
<1>2. CASE old_image_load
    BY <1>2 DEF old_image_load, OldImage, TypeInv, Labels
<1>3. CASE format_fat
    <2>1. Damaged \in [Names -> Data]
        BY Zenon DEF Damaged, Part, TypeInv, Data, Kinds
    <2>2. dir' \in [Names -> Data]
        BY Zenon, <1>3, <2>1 DEF format_fat, TypeInv
    <2> QED BY <1>3, <2>2 DEF format_fat, FormatFails, TypeInv, Labels
<1>4. CASE format_root
    BY <1>4, <1>b DEF format_root, ClearRoot, FormatFails, TypeInv, Labels
<1>5. CASE format_super
    BY <1>5 DEF format_super, FormatFails, TypeInv, Labels
<1>6. CASE write_create
    <2>1. Contents(Part(epoch)) \in [Names -> Data]
        BY Zenon, <1>c, <1>6 DEF write_create, Contents, TypeInv
    <2>2. file.return \in {"shell", "import", "bundle"}
        BY Zenon, <1>6 DEF write_create, TypeInv, Returns
    <2> QED BY <1>6, <1>a, <2>1, <2>2 DEF write_create, TypeInv, Labels
<1>7. CASE write_data
    <2>1. Contents(file.data) \in [Names -> Data]
        BY Zenon, <1>7 DEF write_data, Contents, TypeInv
    <2>2. file.return \in {"shell", "import", "bundle"}
        BY Zenon, <1>7 DEF write_data, TypeInv, Returns
    <2> QED BY <1>7, <1>a, <2>1, <2>2 DEF write_data, TypeInv, Labels
<1>8. CASE old_image_import
    <2>1. CASE todo = {} /\ todo' = Bundled /\ pc' = "bundle" /\ UNCHANGED file
        BY Zenon, <1>8, <2>1 DEF old_image_import, TypeInv, Labels
    <2>2. CASE \E n \in todo : name_check(n) /\ todo' = todo \ {n} /\ WriteAll(n, User(0), "import")
        <3>1. PICK n \in todo : n \in Names /\ todo' = todo \ {n} /\ WriteAll(n, User(0), "import")
            BY Zenon, <2>2 DEF name_check
        <3>2. file' \in Files /\ file'.name \in Names /\ file'.return = "import" /\ pc' = "write_all"
            BY <1>c, <3>1 DEF WriteAll, TypeInv, Returns
        <3> QED BY Zenon, <1>8, <3>1, <3>2 DEF old_image_import, TypeInv, Labels
    <2>3. CASE \E n \in todo : todo' = todo \ {n} /\ UNCHANGED <<pc, file>>
        BY Zenon, <1>8, <2>3 DEF old_image_import, TypeInv, Labels
    <2> QED BY Zenon, <1>8, <2>1, <2>2, <2>3 DEF old_image_import, Imported
<1>9. CASE bundle_install
    <2>1. faults' \in Nat
        BY <1>9 DEF bundle_install, NoEntry, TypeInv
    <2>2. CASE UNCHANGED <<pc, file>> /\ todo' \subseteq Names
        BY Zenon, <1>9, <2>1, <2>2 DEF bundle_install, TypeInv, Labels
    <2>3. CASE todo = {} /\ pc' = "shell" /\ UNCHANGED <<todo, file>>
        BY Zenon, <1>9, <2>1, <2>3 DEF bundle_install, TypeInv, Labels
    <2>4. CASE \E n \in todo : todo' = todo \ {n} /\ WriteAll(n, BUNDLE, "bundle")
        <3>1. PICK n \in todo : n \in Names /\ todo' = todo \ {n} /\ WriteAll(n, BUNDLE, "bundle")
            BY Zenon, <1>9, <2>4 DEF bundle_install, TypeInv
        <3>2. file' \in Files /\ file'.name \in Names /\ file'.return # "none" /\ pc' = "write_all"
            BY Zenon, <1>c, <3>1 DEF WriteAll, TypeInv, Returns
        <3>3. todo \subseteq Names
            BY Zenon, <1>9 DEF bundle_install, TypeInv
        <3> QED BY Zenon, <1>9, <2>1, <3>1, <3>2, <3>3 DEF bundle_install, TypeInv, Labels
    <2> QED BY Zenon, <1>9, <2>2, <2>3, <2>4 DEF bundle_install, Following, TypeInv
<1>10. CASE kernel_main
    BY Zenon, <1>10 DEF kernel_main, TypeInv, Labels
<1>11. ASSUME NEW n \in Names, set(n) PROVE TypeInv'
    <2>1. file' \in Files /\ file'.name \in Names /\ file'.return = "shell" /\ pc' = "write_all"
        BY Zenon, <1>c, <1>11 DEF set, WriteAll, TypeInv, Returns
    <2> QED BY Zenon, <1>11, <2>1 DEF set, TypeInv, Labels
<1>12. ASSUME NEW n \in Names, rm(n) PROVE TypeInv'
    <2>1. ABSENT \in Data
        BY Zenon DEF ABSENT, Data, Kinds
    <2> QED BY Zenon, <1>12, <2>1 DEF rm, TypeInv
<1>13. CASE format_yes
    BY Zenon, <1>13 DEF format_yes, TypeInv, Labels
<1>14. CASE dt
    BY Zenon, <1>14 DEF dt, TypeInv
<1>15. CASE turn_off
    BY Zenon, <1>15, <1>d DEF turn_off, TypeInv
<1>16. CASE menu_move
    BY <1>16 DEF menu_move, TypeInv, ACTION_COUNT
<1>17. CASE menu_enter
    BY Zenon, <1>17, <1>d DEF menu_enter, TypeInv, Labels
<1>18. ASSUME NEW yes \in BOOLEAN, confirm(yes) PROVE TypeInv'
    BY Zenon, <1>18 DEF confirm, TypeInv, Labels
<1>19. CASE recovery_erase_fs
    BY <1>19 DEF recovery_erase_fs, Done, TypeInv, Labels
<1>20. CASE install_write
    <2>1. /\ Written \in [Sectors -> {"image", "test", "other"}]
          /\ Spoiled \subseteq [Sectors -> {"image", "test", "other"}]
        BY Zenon DEF Written, Spoiled, TypeInv
    <2>2. boot' \in [Sectors -> {"image", "test", "other"}]
        BY Zenon, <1>20, <2>1 DEF install_write, TypeInv
    <2>3. /\ pc' \in {"install", "verify", "result"}
          /\ lba' \in Nat
          /\ result' \in {"none", "format", "OK", "FAILED"}
          /\ faults' \in Nat
        BY <1>20 DEF install_write, NextChunk, Done, TypeInv
    <2> QED BY Zenon, <1>20, <2>2, <2>3 DEF install_write, TypeInv, Labels
<1>21. CASE install_verify
    BY <1>21 DEF install_verify, Done, TypeInv, Labels
<1>22. CASE any_key
    BY Zenon, <1>22 DEF any_key, TypeInv, Labels
<1>23. CASE power_cut
    BY <1>23, <1>d DEF power_cut, TypeInv
<1>24. CASE UNCHANGED vars
    BY Zenon, <1>24 DEF vars, TypeInv
<1>25. ASSUME NEW n \in Names, create(n) PROVE TypeInv'
    BY Zenon, <1>c, <1>25 DEF create, TypeInv
<1>26. ASSUME NEW n \in Names, NEW m \in Names, rename(n, m) PROVE TypeInv'
    <2>1. ABSENT \in Data
        BY Zenon DEF ABSENT, Data, Kinds
    <2> QED BY Zenon, <1>26, <2>1 DEF rename, TypeInv
<1> QED
    BY Zenon, <1>1, <1>2, <1>3, <1>4, <1>5, <1>6, <1>7, <1>8, <1>9, <1>10, <1>11, <1>12, <1>13, <1>14,
       <1>15, <1>16, <1>17, <1>18, <1>19, <1>20, <1>21, <1>22, <1>23, <1>24, <1>25, <1>26
    DEF Next, Kernel, fs_init, format_now, fs_write_all, Shell, Recovery, recovery_install

\* The rest of the invariant holds when the machine is off.
LEMMA ControlInit == Init => Control /\ OldInv /\ EraseInv /\ KeepInv /\ ImportInv /\ VerifyInv
BY SMTT(30) DEF Init, Control, OldInv, EraseInv, KeepInv, ImportInv, VerifyInv, InstallVerified, Current,
       Empty, ABSENT, NoFile, Writing, Booting

\* The control part is kept by every step.
LEMMA ControlNext == TypeInv /\ Control /\ [Next]_vars => Control'
<1> SUFFICES ASSUME TypeInv, Control, [Next]_vars PROVE Control'
    BY Zenon
<1> USE DEF Fault, Goto, diskVars, fsVars, menuVars, Writing, Booting, Control, NoFile,
            ACTION_FACTORY, ACTION_ERASE, ACTION_REBOOT, ACTION_POWER_OFF
<1>1. CASE mount_now
    BY <1>1 DEF mount_now
<1>2. CASE old_image_load
    BY Zenon, <1>2 DEF old_image_load
<1>3. CASE format_fat
    BY <1>3 DEF format_fat, FormatFails
<1>4. CASE format_root
    BY <1>4 DEF format_root, FormatFails
<1>5. CASE format_super
    BY Zenon, <1>5 DEF format_super, FormatFails
<1>6. CASE write_create
    BY <1>6 DEF write_create, TypeInv, Returns
<1>7. CASE write_data
    BY Zenon, <1>7 DEF write_data, TypeInv, Returns
<1>8. CASE old_image_import
    BY Zenon, <1>8 DEF old_image_import, WriteAll
<1>9. CASE bundle_install
    BY Zenon, <1>9 DEF bundle_install, WriteAll
<1>10. CASE kernel_main
    BY Zenon, <1>10 DEF kernel_main
<1>11. ASSUME NEW n \in Names, set(n) PROVE Control'
    BY Zenon, <1>11 DEF set, WriteAll
<1>12. ASSUME NEW n \in Names, rm(n) PROVE Control'
    BY Zenon, <1>12 DEF rm
<1>13. CASE format_yes
    BY Zenon, <1>13 DEF format_yes
<1>14. CASE dt
    BY Zenon, <1>14 DEF dt
<1>15. CASE Off /\ UNCHANGED diskVars
    BY Zenon, <1>15 DEF Off
<1>16. CASE menu_move
    BY Zenon, <1>16 DEF menu_move
<1>17. CASE menu_enter
    BY <1>15, <1>17 DEF menu_enter
<1>18. ASSUME NEW yes \in BOOLEAN, confirm(yes) PROVE Control'
    BY Zenon, <1>18 DEF confirm
<1>19. CASE recovery_erase_fs
    BY Zenon, <1>19 DEF recovery_erase_fs, Done
<1>20. CASE install_write
    BY Zenon, <1>20 DEF install_write, NextChunk, Done
<1>21. CASE install_verify
    BY Zenon, <1>21 DEF install_verify, Done
<1>22. CASE any_key
    BY Zenon, <1>22 DEF any_key
<1>23. CASE UNCHANGED vars
    BY Zenon, <1>23 DEF vars
<1>24. ASSUME NEW n \in Names, create(n) PROVE Control'
    BY Zenon, <1>24 DEF create
<1>25. ASSUME NEW n \in Names, NEW m \in Names, rename(n, m) PROVE Control'
    BY ZenonT(60), <1>25 DEF rename
<1> QED
    BY Zenon, <1>1, <1>2, <1>3, <1>4, <1>5, <1>6, <1>7, <1>8, <1>9, <1>10, <1>11, <1>12, <1>13, <1>14,
       <1>15, <1>16, <1>17, <1>18, <1>19, <1>20, <1>21, <1>22, <1>23, <1>24, <1>25
    DEF Next, Kernel, fs_init, format_now, fs_write_all, Shell, Recovery, recovery_install,
        turn_off, power_cut

\* The files of the old disk are in memory only as long as OldInv says.
LEMMA OldNext == TypeInv /\ Control /\ OldInv /\ [Next]_vars => OldInv'
<1> SUFFICES ASSUME TypeInv, Control, OldInv, [Next]_vars PROVE OldInv'
    BY Zenon
<1> USE DEF Fault, Goto, diskVars, fsVars, menuVars, Writing, OldInv, NoFile, Control
<1>1. CASE mount_now
    BY Zenon, <1>1 DEF mount_now
<1>2. CASE old_image_load
    BY Zenon, <1>2 DEF old_image_load, OldImage
<1>3. CASE format_fat
    BY Zenon, <1>3 DEF format_fat, FormatFails, Damaged
<1>4. CASE format_root
    BY Zenon, <1>4 DEF format_root, FormatFails, ClearRoot
<1>5. CASE format_super
    BY Zenon, <1>5 DEF format_super, FormatFails
<1>6. CASE write_create
    BY <1>6 DEF write_create, Contents, TypeInv, Returns
<1>7. CASE write_data
    BY Zenon, <1>7 DEF write_data, Contents, TypeInv, Returns
<1>8. CASE old_image_import
    BY <1>8 DEF old_image_import, name_check, WriteAll, Imported
<1>9. CASE bundle_install
    BY <1>9 DEF bundle_install, WriteAll, NoEntry, Following
<1>10. CASE kernel_main
    BY Zenon, <1>10 DEF kernel_main
<1>11. ASSUME NEW n \in Names, set(n) PROVE OldInv'
    BY Zenon, <1>11 DEF set, WriteAll
<1>12. ASSUME NEW n \in Names, rm(n) PROVE OldInv'
    BY Zenon, <1>12 DEF rm
<1>13. CASE format_yes
    BY Zenon, <1>13 DEF format_yes
<1>14. CASE dt
    BY Zenon, <1>14 DEF dt
<1>15. CASE Off /\ UNCHANGED diskVars /\ (UNCHANGED faults \/ Fault) /\ UNCHANGED epoch
    BY Zenon, <1>15 DEF Off
<1>16. CASE menu_move
    BY Zenon, <1>16 DEF menu_move
<1>17. CASE menu_enter
    BY Zenon, <1>15, <1>17 DEF menu_enter
<1>18. ASSUME NEW yes \in BOOLEAN, confirm(yes) PROVE OldInv'
    BY Zenon, <1>18 DEF confirm
<1>19. CASE recovery_erase_fs
    BY Zenon, <1>19 DEF recovery_erase_fs, Done
<1>20. CASE install_write
    BY Zenon, <1>20 DEF install_write, NextChunk, Done
<1>21. CASE install_verify
    BY Zenon, <1>21 DEF install_verify, Done
<1>22. CASE any_key
    BY Zenon, <1>22 DEF any_key
<1>23. CASE UNCHANGED vars
    BY Zenon, <1>23 DEF vars
<1>24. ASSUME NEW n \in Names, create(n) PROVE OldInv'
    BY Zenon, <1>24 DEF create
<1>25. ASSUME NEW n \in Names, NEW m \in Names, rename(n, m) PROVE OldInv'
    BY Zenon, <1>25 DEF rename
<1> QED
    BY Zenon, <1>1, <1>2, <1>3, <1>4, <1>5, <1>6, <1>7, <1>8, <1>9, <1>10, <1>11, <1>12, <1>13, <1>14,
       <1>15, <1>16, <1>17, <1>18, <1>19, <1>20, <1>21, <1>22, <1>23, <1>24, <1>25
    DEF Next, Kernel, fs_init, format_now, fs_write_all, Shell, Recovery, recovery_install,
        turn_off, power_cut

\* What is in the directory of a filesystem is from after the last erase.
LEMMA EraseNext == TypeInv /\ Control /\ OldInv /\ EraseInv /\ [Next]_vars => EraseInv'
<1> SUFFICES ASSUME TypeInv, Control, OldInv, EraseInv, [Next]_vars PROVE EraseInv'
    BY Zenon
<1> USE DEF Fault, Goto, diskVars, fsVars, menuVars, Writing, EraseInv, NoFile, Control, Current, ABSENT, Part, User, BUNDLE, Empty
<1>1. CASE mount_now
    BY Zenon, <1>1 DEF mount_now
<1>2. CASE old_image_load
    BY Zenon, <1>2 DEF old_image_load, OldImage
<1>3. CASE format_fat
    BY <1>3 DEF format_fat, FormatFails, Damaged
<1>4. CASE format_root
    BY <1>4 DEF format_root, FormatFails, ClearRoot
<1>5. CASE format_super
    BY <1>5 DEF format_super, FormatFails, TypeInv, Data
<1>6. CASE write_create
    BY <1>6 DEF write_create, Contents, TypeInv, Data, Returns
<1>7. CASE write_data
    BY <1>7 DEF write_data, Contents, TypeInv, Data, Returns
<1>8. CASE old_image_import
    BY <1>8 DEF old_image_import, name_check, WriteAll, Imported, OldInv
<1>9. CASE bundle_install
    BY <1>9 DEF bundle_install, WriteAll, NoEntry, Following
<1>10. CASE kernel_main
    BY Zenon, <1>10 DEF kernel_main
<1>11. ASSUME NEW n \in Names, set(n) PROVE EraseInv'
    BY Zenon, <1>11 DEF set, WriteAll
<1>12. ASSUME NEW n \in Names, rm(n) PROVE EraseInv'
    BY <1>12 DEF rm
<1>13. CASE format_yes
    BY Zenon, <1>13 DEF format_yes
<1>14. CASE dt
    BY Zenon, <1>14 DEF dt
<1>15. CASE Off /\ UNCHANGED diskVars /\ (UNCHANGED faults \/ Fault) /\ UNCHANGED epoch
    BY Zenon, <1>15 DEF Off
<1>16. CASE menu_move
    BY Zenon, <1>16 DEF menu_move
<1>17. CASE menu_enter
    BY Zenon, <1>15, <1>17 DEF menu_enter
<1>18. ASSUME NEW yes \in BOOLEAN, confirm(yes) PROVE EraseInv'
    BY Zenon, <1>18 DEF confirm
<1>19. CASE recovery_erase_fs
    BY Zenon, <1>19 DEF recovery_erase_fs, Done
<1>20. CASE install_write
    BY Zenon, <1>20 DEF install_write, NextChunk, Done
<1>21. CASE install_verify
    BY Zenon, <1>21 DEF install_verify, Done
<1>22. CASE any_key
    BY Zenon, <1>22 DEF any_key
<1>23. CASE UNCHANGED vars
    BY Zenon, <1>23 DEF vars
<1>24. ASSUME NEW n \in Names, create(n) PROVE EraseInv'
    BY <1>24 DEF create
<1>25. ASSUME NEW n \in Names, NEW m \in Names, rename(n, m) PROVE EraseInv'
    BY Zenon, <1>25 DEF rename, TypeInv, Data
<1> QED
    BY Zenon, <1>1, <1>2, <1>3, <1>4, <1>5, <1>6, <1>7, <1>8, <1>9, <1>10, <1>11, <1>12, <1>13, <1>14,
       <1>15, <1>16, <1>17, <1>18, <1>19, <1>20, <1>21, <1>22, <1>23, <1>24, <1>25
    DEF Next, Kernel, fs_init, format_now, fs_write_all, Shell, Recovery, recovery_install,
        turn_off, power_cut

\* fs_init and bundle_install write no file of the user.
LEMMA KeepNext == TypeInv /\ Control /\ EraseInv /\ KeepInv /\ [Next]_vars => KeepInv'
<1> SUFFICES ASSUME TypeInv, Control, EraseInv, KeepInv, [Next]_vars PROVE KeepInv'
    BY Zenon
<1> USE DEF Fault, Goto, diskVars, fsVars, menuVars, Writing, KeepInv, NoFile, Control, ABSENT, Part, User, BUNDLE
<1>1. CASE mount_now
    BY Zenon, <1>1 DEF mount_now
<1>2. CASE old_image_load
    BY Zenon, <1>2 DEF old_image_load, OldImage
<1>3. CASE format_fat
    BY Zenon, <1>3 DEF format_fat, FormatFails, Damaged
<1>4. CASE format_root
    BY Zenon, <1>4 DEF format_root, FormatFails, ClearRoot
<1>5. CASE format_super
    BY <1>5 DEF format_super, FormatFails, EraseInv, Empty, TypeInv
<1>6. CASE write_create
    BY <1>6 DEF write_create, Contents, TypeInv, Data
<1>7. CASE write_data
    BY <1>7 DEF write_data, Contents, TypeInv, Data
<1>8. CASE old_image_import
    BY <1>8 DEF old_image_import, name_check, WriteAll, Imported
<1>9. CASE bundle_install
    BY <1>9 DEF bundle_install, WriteAll, NoEntry, Following
<1>10. CASE kernel_main
    BY Zenon, <1>10 DEF kernel_main
<1>11. ASSUME NEW n \in Names, set(n) PROVE KeepInv'
    BY Zenon, <1>11 DEF set, WriteAll
<1>12. ASSUME NEW n \in Names, rm(n) PROVE KeepInv'
    BY Zenon, <1>12 DEF rm
<1>13. CASE format_yes
    BY Zenon, <1>13 DEF format_yes
<1>14. CASE dt
    BY Zenon, <1>14 DEF dt
<1>15. CASE Off /\ UNCHANGED diskVars /\ (UNCHANGED faults \/ Fault) /\ UNCHANGED epoch
    BY Zenon, <1>15 DEF Off
<1>16. CASE menu_move
    BY Zenon, <1>16 DEF menu_move
<1>17. CASE menu_enter
    BY Zenon, <1>15, <1>17 DEF menu_enter
<1>18. ASSUME NEW yes \in BOOLEAN, confirm(yes) PROVE KeepInv'
    BY Zenon, <1>18 DEF confirm
<1>19. CASE recovery_erase_fs
    BY Zenon, <1>19 DEF recovery_erase_fs, Done
<1>20. CASE install_write
    BY Zenon, <1>20 DEF install_write, NextChunk, Done
<1>21. CASE install_verify
    BY Zenon, <1>21 DEF install_verify, Done
<1>22. CASE any_key
    BY Zenon, <1>22 DEF any_key
<1>23. CASE UNCHANGED vars
    BY Zenon, <1>23 DEF vars
<1>24. ASSUME NEW n \in Names, create(n) PROVE KeepInv'
    BY Zenon, <1>24 DEF create
<1>25. ASSUME NEW n \in Names, NEW m \in Names, rename(n, m) PROVE KeepInv'
    BY Zenon, <1>25 DEF rename
<1> QED
    BY ZenonT(60), <1>1, <1>2, <1>3, <1>4, <1>5, <1>6, <1>7, <1>8, <1>9, <1>10, <1>11, <1>12, <1>13, <1>14,
       <1>15, <1>16, <1>17, <1>18, <1>19, <1>20, <1>21, <1>22, <1>23, <1>24, <1>25
    DEF Next, Kernel, fs_init, format_now, fs_write_all, Shell, Recovery, recovery_install,
        turn_off, power_cut

\* Every file that the import is done with is complete.
LEMMA ImportNext == TypeInv /\ Control /\ OldInv /\ ImportInv /\ [Next]_vars => ImportInv'
<1> SUFFICES ASSUME TypeInv, Control, OldInv, ImportInv, [Next]_vars PROVE ImportInv'
    BY Zenon
<1> USE DEF Fault, Goto, diskVars, fsVars, menuVars, Writing, ImportInv, NoFile, Control, OldInv, ABSENT, Part, User, BUNDLE
<1>1. CASE mount_now
    BY Zenon, <1>1 DEF mount_now, TypeInv, Data
<1>2. CASE old_image_load
    BY Zenon, <1>2 DEF old_image_load, OldImage
<1>3. CASE format_fat
    BY Zenon, <1>3 DEF format_fat, FormatFails, Damaged
<1>4. CASE format_root
    BY Zenon, <1>4 DEF format_root, FormatFails, ClearRoot
<1>5. CASE format_super
    BY <1>5 DEF format_super, FormatFails, TypeInv, Data
<1>6. CASE write_create
    BY SMTT(30), <1>6 DEF write_create, Contents, TypeInv, Data
<1>7. CASE write_data
    BY SMTT(30), <1>7 DEF write_data, Contents, TypeInv, Data
<1>8. CASE old_image_import
    BY <1>8 DEF old_image_import, name_check, WriteAll, Imported, TypeInv, Data
<1>9. CASE bundle_install
    BY <1>9 DEF bundle_install, WriteAll, NoEntry, Following, TypeInv, Data
<1>10. CASE kernel_main
    BY Zenon, <1>10 DEF kernel_main
<1>11. ASSUME NEW n \in Names, set(n) PROVE ImportInv'
    BY Zenon, <1>11 DEF set, WriteAll
<1>12. ASSUME NEW n \in Names, rm(n) PROVE ImportInv'
    BY Zenon, <1>12 DEF rm
<1>13. CASE format_yes
    BY Zenon, <1>13 DEF format_yes
<1>14. CASE dt
    BY Zenon, <1>14 DEF dt
<1>15. CASE Off /\ UNCHANGED diskVars /\ (UNCHANGED faults \/ Fault) /\ UNCHANGED epoch
    BY Zenon, <1>15 DEF Off
<1>16. CASE menu_move
    BY Zenon, <1>16 DEF menu_move
<1>17. CASE menu_enter
    BY Zenon, <1>15, <1>17 DEF menu_enter
<1>18. ASSUME NEW yes \in BOOLEAN, confirm(yes) PROVE ImportInv'
    BY Zenon, <1>18 DEF confirm
<1>19. CASE recovery_erase_fs
    BY Zenon, <1>19 DEF recovery_erase_fs, Done
<1>20. CASE install_write
    BY Zenon, <1>20 DEF install_write, NextChunk, Done
<1>21. CASE install_verify
    BY Zenon, <1>21 DEF install_verify, Done
<1>22. CASE any_key
    BY Zenon, <1>22 DEF any_key
<1>23. CASE UNCHANGED vars
    BY Zenon, <1>23 DEF vars
<1>24. ASSUME NEW n \in Names, create(n) PROVE ImportInv'
    BY Zenon, <1>24 DEF create
<1>25. ASSUME NEW n \in Names, NEW m \in Names, rename(n, m) PROVE ImportInv'
    BY Zenon, <1>25 DEF rename
<1> QED
    BY ZenonT(60), <1>1, <1>2, <1>3, <1>4, <1>5, <1>6, <1>7, <1>8, <1>9, <1>10, <1>11, <1>12, <1>13, <1>14,
       <1>15, <1>16, <1>17, <1>18, <1>19, <1>20, <1>21, <1>22, <1>23, <1>24, <1>25
    DEF Next, Kernel, fs_init, format_now, fs_write_all, Shell, Recovery, recovery_install,
        turn_off, power_cut

\* The sectors that were compared hold the image.
LEMMA VerifyNext == TypeInv /\ Control /\ VerifyInv /\ [Next]_vars => VerifyInv'
<1> SUFFICES ASSUME TypeInv, Control, VerifyInv, [Next]_vars PROVE VerifyInv'
    BY Zenon
<1> USE DEF Fault, Goto, diskVars, fsVars, menuVars, Writing, VerifyInv, NoFile, Control, InstallVerified, Sectors, ACTION_FACTORY, ACTION_ERASE
<1>1. CASE mount_now
    BY Zenon, <1>1 DEF mount_now
<1>2. CASE old_image_load
    BY Zenon, <1>2 DEF old_image_load, OldImage
<1>3. CASE format_fat
    BY Zenon, <1>3 DEF format_fat, FormatFails, Damaged
<1>4. CASE format_root
    BY Zenon, <1>4 DEF format_root, FormatFails, ClearRoot
<1>5. CASE format_super
    BY Zenon, <1>5 DEF format_super, FormatFails
<1>6. CASE write_create
    BY Zenon, <1>6 DEF write_create, Contents, TypeInv, Returns
<1>7. CASE write_data
    BY Zenon, <1>7 DEF write_data, Contents, TypeInv, Returns
<1>8. CASE old_image_import
    BY Zenon, <1>8 DEF old_image_import, name_check, WriteAll, Imported
<1>9. CASE bundle_install
    BY Zenon, <1>9 DEF bundle_install, WriteAll, NoEntry, Following
<1>10. CASE kernel_main
    BY Zenon, <1>10 DEF kernel_main
<1>11. ASSUME NEW n \in Names, set(n) PROVE VerifyInv'
    BY Zenon, <1>11 DEF set, WriteAll
<1>12. ASSUME NEW n \in Names, rm(n) PROVE VerifyInv'
    BY Zenon, <1>12 DEF rm
<1>13. CASE format_yes
    BY Zenon, <1>13 DEF format_yes
<1>14. CASE dt
    BY Zenon, <1>14 DEF dt
<1>15. CASE Off /\ UNCHANGED diskVars /\ (UNCHANGED faults \/ Fault) /\ UNCHANGED epoch
    BY Zenon, <1>15 DEF Off
<1>16. CASE menu_move
    BY Zenon, <1>16 DEF menu_move
<1>17. CASE menu_enter
    BY Zenon, <1>15, <1>17 DEF menu_enter
<1>18. ASSUME NEW yes \in BOOLEAN, confirm(yes) PROVE VerifyInv'
    BY Zenon, <1>18 DEF confirm
<1>19. CASE recovery_erase_fs
    BY <1>19 DEF recovery_erase_fs, Done
<1>20. CASE install_write
    BY <1>20 DEF install_write, NextChunk, Done
<1>21. CASE install_verify
    BY <1>21 DEF install_verify, Done, VERIFY_END, TypeInv
<1>22. CASE any_key
    BY Zenon, <1>22 DEF any_key
<1>23. CASE UNCHANGED vars
    BY Zenon, <1>23 DEF vars
<1>24. ASSUME NEW n \in Names, create(n) PROVE VerifyInv'
    BY Zenon, <1>24 DEF create
<1>25. ASSUME NEW n \in Names, NEW m \in Names, rename(n, m) PROVE VerifyInv'
    BY Zenon, <1>25 DEF rename
<1> QED
    BY Zenon, <1>1, <1>2, <1>3, <1>4, <1>5, <1>6, <1>7, <1>8, <1>9, <1>10, <1>11, <1>12, <1>13, <1>14,
       <1>15, <1>16, <1>17, <1>18, <1>19, <1>20, <1>21, <1>22, <1>23, <1>24, <1>25
    DEF Next, Kernel, fs_init, format_now, fs_write_all, Shell, Recovery, recovery_install,
        turn_off, power_cut
-----------------------------------------------------------------------------
(* The theorems.                                                           *)

IInv == TypeInv /\ Control /\ OldInv /\ EraseInv /\ KeepInv /\ ImportInv /\ VerifyInv

\* The invariant holds wherever power fails and whatever the disk does.
THEOREM Invariant == Spec => []IInv
<1>1. Init => IInv
    BY Zenon, TypeInit, ControlInit DEF IInv
<1>2. IInv /\ [Next]_vars => IInv'
    BY Zenon, TypeNext, ControlNext, OldNext, EraseNext, KeepNext, ImportNext, VerifyNext DEF IInv
<1> QED BY <1>1, <1>2, PTL DEF Spec

\* recovery_install reports success only when the whole boot area holds the image.
THEOREM InstallationsVerified == Spec => []InstallVerified
<1>1. IInv => InstallVerified
    BY Zenon DEF IInv, VerifyInv
<1> QED BY <1>1, Invariant, PTL

\* After a successful erase or format no earlier file is ever seen at the prompt.
THEOREM ErasedFilesStayGone == Spec => []ErasedFilesGone
<1>1. IInv => ErasedFilesGone
    BY Zenon DEF IInv, Control, EraseInv, Current, ErasedFilesGone
<1> QED BY <1>1, Invariant, PTL

\* An import in which nothing fails brings every file of the old disk over whose name
\* name_check accepts (old_image_import).
THEOREM MigrationsComplete == Spec => []MigrationComplete
<1>1. IInv => MigrationComplete
    BY Zenon DEF IInv, ImportInv, MigrationComplete, name_check
<1> QED BY <1>1, Invariant, PTL

\* fs_init and bundle_install never change a file of the user.
THEOREM UserFilesSafe == Spec => UserFilesKept
<1> DEFINE Kept == \A n \in Names : Starting /\ dir[n].kind = "user" => dir'[n] = dir[n]
<1>1. ASSUME IInv, Next PROVE Kept
    <2> SUFFICES ASSUME NEW n \in Names, Starting, dir[n].kind = "user" PROVE dir'[n] = dir[n]
        BY Zenon
    <2>1. CASE write_create \/ write_data
        BY Zenon, <1>1, <2>1 DEF write_create, write_data, Contents, IInv, TypeInv, Control, KeepInv, Starting,
                          Returns, Writing
    <2>2. CASE format_fat \/ format_root
        BY Zenon, <1>1, <2>2 DEF format_fat, format_root, IInv, Control, Starting, Booting
    <2>3. CASE \E m \in Names : rm(m) \/ create(m) \/ \E k \in Names : rename(m, k)
        BY Zenon, <2>3 DEF rm, create, rename, Starting
    <2>4. CASE UNCHANGED dir
        BY Zenon, <2>4
    <2> QED
        BY Zenon, <1>1, <2>1, <2>2, <2>3, <2>4
        DEF Next, Kernel, fs_init, format_now, fs_write_all, Shell, Recovery, recovery_install,
            mount_now, old_image_load, format_super, old_image_import, bundle_install,
            kernel_main, set, format_yes, dt, turn_off, power_cut, menu_move, menu_enter, confirm,
            recovery_erase_fs, install_write, install_verify, any_key, diskVars
<1>2. IInv /\ [Next]_vars => [Kept]_vars
    BY Zenon, <1>1
<1> QED BY <1>2, Invariant, PTL DEF Spec, UserFilesKept
-----------------------------------------------------------------------------
(* Irq.                                                                    *)

\* The table of handlers.
TableInv ==
    /\ slots \in [Lines -> [Slots -> Handlers \cup {NONE}]]
    /\ imr \subseteq Lines
    /\ LinesMatchHandlers

\* The processor and the controllers.
ServiceInv ==
    /\ handling \in [irq : Lines, at : Nat] \cup {NONE}
    /\ InServiceExact

\* The loop of irq_register finds the first free slot of a line.
LEMMA FirstFree ==
    ASSUME NEW irq \in Lines, slots \in [Lines -> [Slots -> Handlers \cup {NONE}]],
           NONE \in {slots[irq][i] : i \in Slots}
    PROVE  \E i \in Slots : slots[irq][i] = NONE /\ \A j \in 0..(i - 1) : slots[irq][j] # NONE
<1> DEFINE T == {i \in Slots : slots[irq][i] = NONE}
<1>1. T \subseteq Nat /\ T # {}
    BY IrqAssumption DEF Slots
<1>2. PICK i \in T : \A j \in T : ~ (<<j, i>> \in OpToRel(<, Nat))
    BY Zenon, <1>1, NatLessThanWellFounded, WFMin
<1>3. \A j \in 0..(i - 1) : j \in Slots /\ j \in Nat /\ j < i /\ i \in Nat
    BY IrqAssumption DEF Slots
<1>4. \A j \in Nat : j < i => <<j, i>> \in OpToRel(<, Nat)
    BY Zenon, <1>1, <1>2 DEF OpToRel
<1> QED BY Zenon, <1>2, <1>3, <1>4

\* A driver asks for a line of a device, or is refused.
LEMMA TableRegister ==
    ASSUME TableInv, NEW h \in Handlers, NEW irq \in Nat, irq_register(irq, h)
    PROVE  TableInv'
<1>1. irq \in DeviceLines /\ irq \in Lines
    BY IrqAssumption DEF irq_register, Reserved, DeviceLines, Lines, IRQ_COUNT
<1>2. CASE UNCHANGED <<slots, imr>>
    BY Zenon, <1>2 DEF TableInv, LinesMatchHandlers
<1>3. CASE ~ UNCHANGED <<slots, imr>>
    <2> DEFINE free == CHOOSE i \in Slots :
                          slots[irq][i] = NONE /\ \A j \in 0..(i - 1) : slots[irq][j] # NONE
    <2>1. /\ NONE \in {slots[irq][i] : i \in Slots}
          /\ slots' = [slots EXCEPT ![irq][free] = h]
          /\ pic_unmask(irq)
        BY Zenon, <1>3 DEF irq_register
    <2>2. free \in Slots
        BY Zenon, <1>1, <2>1, FirstFree DEF TableInv
    <2> HIDE DEF free
    <2>3. slots' = [slots EXCEPT ![irq] = [slots[irq] EXCEPT ![free] = h]]
        BY Zenon, <2>1
    <2>4. slots' \in [Lines -> [Slots -> Handlers \cup {NONE}]]
        BY Zenon, <1>1, <2>2, <2>3 DEF TableInv
    <2>5. slots'[irq][free] = h /\ h # NONE /\ \A l \in Lines \ {irq} : slots'[l] = slots[l]
        BY Zenon, <1>1, <2>2, <2>3, IrqAssumption DEF TableInv
    <2>6. imr' \subseteq imr /\ irq \notin imr' /\ (OnSlave(irq) => CASCADE \notin imr')
          /\ \A l \in DeviceLines \ {irq} : l \in imr' <=> l \in imr
        BY Zenon, <1>1, <2>1 DEF pic_unmask, DeviceLines
    <2> QED BY ZenonT(60), <1>1, <2>2, <2>4, <2>5, <2>6 DEF TableInv, LinesMatchHandlers, DeviceLines
<1> QED BY Zenon, <1>2, <1>3

\* A driver goes; its line is closed when it was the last one there.
LEMMA TableUnregister ==
    ASSUME TableInv, NEW h \in Handlers, NEW irq \in Nat, irq_unregister(irq, h)
    PROVE  TableInv'
<1>1. irq \in DeviceLines /\ irq \in Lines /\ irq # CASCADE /\ irq # TIMER
    BY IrqAssumption DEF irq_unregister, Reserved, DeviceLines, Lines, IRQ_COUNT
<1>2. slots' = [slots EXCEPT ![irq] = [i \in Slots |-> IF slots[irq][i] = h THEN NONE ELSE slots[irq][i]]]
    BY Zenon DEF irq_unregister
<1>3. slots' \in [Lines -> [Slots -> Handlers \cup {NONE}]]
    BY Zenon, <1>1, <1>2 DEF TableInv
<1>4. /\ \A i \in Slots : slots'[irq][i] # NONE <=> i \in Remaining(irq, h)
      /\ \A l \in Lines \ {irq} : slots'[l] = slots[l]
    BY Zenon, <1>1, <1>2, IrqAssumption DEF TableInv, Remaining
<1>5. CASE Remaining(irq, h) = {}
    <2>1. imr' = imr \cup {irq}
        BY Zenon, <1>5 DEF irq_unregister, pic_mask
    <2> QED BY Zenon, <1>1, <1>3, <1>4, <1>5, <2>1 DEF TableInv, LinesMatchHandlers, DeviceLines
<1>6. CASE Remaining(irq, h) # {}
    <2>1. imr' = imr
        BY Zenon, <1>6 DEF irq_unregister
    <2>2. \E i \in Slots : slots[irq][i] # NONE
        BY Zenon, <1>6 DEF Remaining
    <2>3. \E i \in Slots : slots'[irq][i] # NONE
        BY Zenon, <1>4, <1>6 DEF Remaining
    <2> QED BY ZenonT(60), <1>1, <1>3, <1>4, <2>1, <2>2, <2>3 DEF TableInv, LinesMatchHandlers, DeviceLines
<1> QED BY Zenon, <1>5, <1>6

\* A line of a device is open exactly while a driver is registered for it, however
\* drivers come and go (irq_register, irq_unregister, pic_mask, pic_unmask).
THEOREM LinesFollowHandlers == IrqSpec => []LinesMatchHandlers
<1>1. IrqInit => TableInv
    BY IrqAssumption DEF IrqInit, TableInv, LinesMatchHandlers, DeviceLines, Lines, Slots, TIMER, CASCADE, IRQ_COUNT
<1>2. ASSUME TableInv, [IrqNext]_irqVars PROVE TableInv'
    <2>1. CASE Api
        <3>0. PICK h \in Handlers : \E irq \in Asked \cup {LineOf[h]} :
                                       irq_register(irq, h) \/ irq_unregister(irq, h)
            BY Zenon, <2>1 DEF Api
        <3>1. PICK irq \in Asked \cup {LineOf[h]} : irq_register(irq, h) \/ irq_unregister(irq, h)
            BY Zenon, <3>0
        <3>2. irq \in Nat
            BY IrqAssumption DEF DeviceLines, Lines
        <3> QED BY Zenon, <1>2, <3>1, <3>2, TableRegister, TableUnregister
    <2>2. CASE UNCHANGED <<slots, imr>>
        BY Zenon, <1>2, <2>2 DEF TableInv, LinesMatchHandlers
    <2>3. ASSUME [IrqNext]_irqVars, ~Api PROVE UNCHANGED <<slots, imr>>
        BY Zenon, <2>3 DEF IrqNext, irqVars, picVars, accept, accept_spurious, Processor, isr_timer, irq_dispatch,
            irq_dispatch_spurious, irq_dispatch_handler, irq_dispatch_eoi, Main, irq_save,
            irq_restore, enter_usermode, sys_exit, block, wake, Device, raise, withdraw, timer
    <2> QED BY Zenon, <1>2, <2>1, <2>2, <2>3
<1>3. TableInv => LinesMatchHandlers
    BY Zenon DEF TableInv
<1> QED BY <1>1, <1>2, <1>3, PTL DEF IrqSpec
-----------------------------------------------------------------------------
\* The constants of the controllers.
LEMMA Constants ==
    /\ TIMER \in Lines /\ CASCADE \in Lines /\ SpuriousMaster \in Lines /\ SpuriousSlave \in Lines
    /\ ~OnSlave(TIMER) /\ ~OnSlave(CASCADE) /\ ~OnSlave(SpuriousMaster) /\ OnSlave(SpuriousSlave)
    /\ SpuriousMaster # SpuriousSlave /\ SpuriousMaster # TIMER /\ SpuriousSlave # TIMER
    /\ SpuriousSlave # CASCADE
    /\ \A l \in Lines : l \in Nat
BY IrqAssumption DEF Lines, IRQ_COUNT, TIMER, CASCADE, SpuriousMaster, SpuriousSlave, OnSlave

\* An EOI ends the only line that a controller has in service.
LEMMA EndOne ==
    ASSUME NEW l \in Lines, ~OnSlave(l)
    PROVE  /\ EndHighest({l}, FALSE) = {}
           /\ EndHighest({}, FALSE) = {}
<1>1. ~(l < l) /\ OnSlave(l) = FALSE
    BY Constants DEF OnSlave
<1> QED BY Zenon, <1>1 DEF EndHighest

\* pic_send_eoi for a line of the slave: of the two lines in service, an end of
\* interrupt to the slave ends the one behind it and leaves the cascade.
LEMMA EndSlave ==
    ASSUME NEW l \in Lines, OnSlave(l)
    PROVE  EndHighest({l, CASCADE}, TRUE) = {CASCADE}
<1>1. ~(l < l) /\ OnSlave(l) = TRUE /\ OnSlave(CASCADE) = FALSE
    BY Constants DEF OnSlave
<1>2. l # CASCADE
    BY Zenon, Constants
<1> QED BY Zenon, <1>1, <1>2 DEF EndHighest

\* pic_eoi ends what the handler's line had in service, on both controllers.
LEMMA EoiEnds ==
    ASSUME NEW l \in Lines
    PROVE  pic_eoi(l, InService(l)) = {}
<1>1. CASE OnSlave(l)
    BY Zenon, <1>1, EndSlave, EndOne, Constants DEF pic_eoi, InService
<1>2. CASE ~OnSlave(l)
    BY Zenon, <1>2, EndOne DEF pic_eoi, InService
<1> QED BY Zenon, <1>1, <1>2

\* After pic_remap no interrupt is in service and no handler runs.
LEMMA ServiceInit == IrqInit => ServiceInv
BY Zenon DEF IrqInit, ServiceInv, InServiceExact, InHandler

\* Taking an interrupt, handling it and acknowledging it keep the account exact.
LEMMA ServiceNext == ServiceInv /\ [IrqNext]_irqVars => ServiceInv'
<1> SUFFICES ASSUME ServiceInv, [IrqNext]_irqVars PROVE ServiceInv'
    BY Zenon
<1> DEFINE Vectors == [irq : Lines, at : Nat]
<1>0. \A v \in Vectors : v # NONE
    BY Zenon, IrqAssumption
<1>1. ASSUME NEW l \in Inputs, accept(l) PROVE ServiceInv'
    <2>1. l \in Lines
        BY Zenon, IrqAssumption, Constants DEF Inputs, DeviceLines
    <2>2. isr = {} /\ isr' = InService(l) /\ handling' = [irq |-> l, at |-> 0]
        BY Zenon, <1>1 DEF accept, IF_set, Enter, ServiceInv, InServiceExact
    <2>3. handling' \in Vectors /\ handling' # NONE /\ handling'.irq = l
        BY Zenon, <1>0, <2>1, <2>2
    <2>4. l \in InService(l)
        BY Zenon DEF InService
    <2> QED BY Zenon, <2>2, <2>3, <2>4 DEF ServiceInv, InServiceExact, InHandler, Spurious, pic_spurious
<1>2. CASE accept_spurious
    <2>1. isr = {}
        BY Zenon, <1>2 DEF accept_spurious, IF_set, ServiceInv, InServiceExact
    <2>2. CASE Enter(SpuriousMaster, {})
        <3>1. handling' \in Vectors /\ handling' # NONE /\ handling'.irq = SpuriousMaster /\ isr' = {}
            BY Zenon, <1>0, <2>1, <2>2, Constants DEF Enter
        <3> QED BY Zenon, <3>1, Constants DEF ServiceInv, InServiceExact, InHandler, Spurious, pic_spurious
    <2>3. CASE Enter(SpuriousSlave, {CASCADE})
        <3>1. handling' \in Vectors /\ handling' # NONE /\ handling'.irq = SpuriousSlave /\ isr' = {CASCADE}
            BY Zenon, <1>0, <2>1, <2>3, Constants DEF Enter
        <3> QED BY Zenon, <3>1, Constants DEF ServiceInv, InServiceExact, InHandler, Spurious, pic_spurious
    <2> QED BY Zenon, <1>2, <2>2, <2>3 DEF accept_spurious
<1>3. CASE isr_timer
    <2>1. isr = {TIMER}
        BY Zenon, <1>3, Constants DEF isr_timer, ServiceInv, InServiceExact, Spurious, pic_spurious, InService
    <2>2. isr' = {}
        BY Zenon, <1>3, <2>1, EndOne, Constants DEF isr_timer
    <2> QED BY Zenon, <1>3, <2>2 DEF isr_timer, ServiceInv, InServiceExact, InHandler
<1>4. CASE irq_dispatch_spurious
    <2>1. isr = IF handling.irq = SpuriousSlave THEN {CASCADE} ELSE {}
        BY Zenon, <1>4 DEF irq_dispatch_spurious, Dispatching, ServiceInv, InServiceExact
    <2>2. isr' = {}
        BY Zenon, <1>4, <2>1, EndOne, Constants DEF irq_dispatch_spurious, SpuriousEnd
    <2> QED BY Zenon, <1>4, <2>2 DEF irq_dispatch_spurious, ServiceInv, InServiceExact, InHandler
<1>5. CASE irq_dispatch_handler
    <2>1. handling \in Vectors /\ handling' = [handling EXCEPT !.at = @ + 1]
        BY Zenon, <1>5 DEF irq_dispatch_handler, Dispatching, InHandler, ServiceInv
    <2>2. handling' \in Vectors /\ handling'.irq = handling.irq
        BY <2>1
    <2>3. handling # NONE /\ handling' # NONE /\ isr' = isr
        BY Zenon, <1>0, <1>5, <2>1, <2>2 DEF irq_dispatch_handler, picVars
    <2> QED BY Zenon, <2>2, <2>3 DEF ServiceInv, InServiceExact, InHandler, Spurious, pic_spurious
<1>6. CASE irq_dispatch_eoi
    <2>1. handling \in Vectors /\ isr = InService(handling.irq)
        BY Zenon, <1>6 DEF irq_dispatch_eoi, Dispatching, InHandler, ServiceInv, InServiceExact
    <2>2. isr' = {}
        BY Zenon, <1>6, <2>1, EoiEnds DEF irq_dispatch_eoi
    <2> QED BY Zenon, <1>6, <2>2 DEF irq_dispatch_eoi, ServiceInv, InServiceExact, InHandler
<1>7. CASE UNCHANGED <<isr, handling>>
    BY Zenon, <1>7 DEF ServiceInv, InServiceExact, InHandler, Spurious, pic_spurious
<1>8. CASE Main \/ Api \/ wake \/ Device \/ UNCHANGED irqVars
    <2>1. UNCHANGED <<isr, handling>>
        BY Zenon, <1>8 DEF irqVars, picVars, Main, irq_save, irq_restore, enter_usermode, sys_exit, block, Api,
            irq_register, irq_unregister, wake, Device, raise, withdraw, timer
    <2> QED BY Zenon, <1>7, <2>1
<1> QED BY Zenon, <1>1, <1>2, <1>3, <1>4, <1>5, <1>6, <1>8 DEF IrqNext, Processor, irq_dispatch

\* Between two interrupts nothing is in service, and in a handler exactly what it is
\* going to end: no line is blocked for ever, and no EOI ends another line's service
\* (irq_dispatch, pic_eoi, pic_spurious, isr_timer).
THEOREM ServiceIsExact == IrqSpec => []InServiceExact
<1>1. ServiceInv => InServiceExact
    BY Zenon DEF ServiceInv
<1> QED BY <1>1, ServiceInit, ServiceNext, PTL DEF IrqSpec
=============================================================================
