--------------------------------- MODULE Ata ---------------------------------
(***************************************************************************)
(* The polled ATA driver of src/drivers/ata.c and the drive behind it.     *)
(*                                                                         *)
(* The drive is external: drive.st is what its status register shows (BSY, *)
(* DRQ, ERR or none of them).  It may fail a command at any sector, fall   *)
(* silent, and be found with DRQ set when no call runs; it takes no new    *)
(* command while DRQ is set.  A polling loop of the driver ends with what  *)
(* it waits for, an error, or after ATA_TIMEOUT turns; it and the port     *)
(* accesses up to the next loop are one step.                              *)
(***************************************************************************)
EXTENDS DiskCall

CONSTANTS
    ATA_SECTORS,   \* what IDENTIFY answers
    ATA_RETRIES,
    MAX_COUNT,     \* most sectors of one command (255)
    LBA_SPACE      \* sectors that the address registers can name (2^28)

VARIABLES
    drive,         \* status, command, next sector, sectors left, word being moved
    attempt,       \* the loop of ata_read_sectors and ata_write_sectors
    index          \* the loop of ata_read_once and ata_write_once; both 0 outside

ataVars == <<drive, attempt, index>>

NoWord == << >>
Drive(st, cmd, lba, left, word) ==
    [st |-> st, cmd |-> cmd, lba |-> lba, left |-> left, word |-> word]
IdleDrive == Drive("ready", "none", 0, 0, NoWord)

\* The polling loops, by whether they succeed.
ata_wait_bsy == drive.st # "busy"
ata_wait_drq == drive.st = "drq"

\* The address and command registers are written: ata_select takes the bits 24
\* to 27 of lba and ata_setup the lower ones, and nothing looks at the rest.
Command(cmd, lba, count) ==
    drive' = IF drive.st = "drq" THEN drive
             ELSE Drive("busy", cmd, lba % LBA_SPACE, count, NoWord)

\* The drive drops what it was doing; a sector it had taken is stored before
\* (Carry) or lost.
ata_reset ==
    /\ drive' = [IdleDrive EXCEPT !.st = "busy"]
    /\ UNCHANGED <<machine, sectors, unflushed>>

\* An attempt has failed: reset, and start again or give up.
Retry ==
    /\ ata_reset
    /\ index' = 0
    /\ IF attempt + 1 < ATA_RETRIES
       THEN Goto("ata_prepare") /\ attempt' = attempt + 1
       ELSE Return("error") /\ attempt' = 0

\* ata_read_sectors, ata_write_sectors.
ata_start ==
    /\ pc = "ata_start"
    /\ IF req.count = 0 \/ req.count > MAX_COUNT THEN Return("error")
       ELSE Goto("ata_prepare")
    /\ UNCHANGED <<machine, sectors, unflushed, ataVars>>

\* ata_prepare and ata_setup; a drive that wants data is reset before.
ata_prepare ==
    /\ pc \in {"ata_prepare", "ata_selected"}
    /\ IF ~ata_wait_bsy THEN Retry
       ELSE IF pc = "ata_prepare" /\ drive.st = "drq"
       THEN ata_reset /\ Goto("ata_selected") /\ UNCHANGED <<attempt, index>>
       ELSE /\ Command(req.fn, req.lba, req.count)
            /\ Goto("ata_data")
            /\ UNCHANGED <<machine, sectors, unflushed, attempt, index>>

\* The words of one sector.
ata_data ==
    /\ pc = "ata_data"
    /\ \/ ~ata_wait_drq /\ Retry
       \/ /\ ata_wait_drq
          /\ drive' = [drive EXCEPT !.st = "busy",
                          !.word = IF Writing THEN <<req.data[index]>> ELSE NoWord]
          /\ req' = IF Writing THEN req ELSE [req EXCEPT !.data[index] = drive.word[1]]
          /\ index' = index + 1
          /\ pc' = IF index + 1 < req.count THEN "ata_data" ELSE "ata_finish"
          /\ UNCHANGED <<machine, sectors, unflushed, attempt>>

\* Mutant: the write cache is not flushed.
FlushNext_never == FALSE

\* ata_write_once goes on to ATA_CMD_FLUSH; ata_read_once is done.
FlushNext == Writing /\ pc = "ata_finish"

\* ata_finish, after the last sector and after the flush.
ata_finish ==
    /\ pc \in {"ata_finish", "ata_flush"}
    /\ \/ drive.st # "ready" /\ Retry
       \/ /\ drive.st = "ready"
          /\ IF FlushNext
             THEN Command("flush", 0, 0) /\ Goto("ata_flush") /\ UNCHANGED <<attempt, index>>
             ELSE Return("ok") /\ attempt' = 0 /\ index' = 0 /\ UNCHANGED drive
          /\ UNCHANGED <<machine, sectors, unflushed>>

AtaStep == ata_start \/ ata_prepare \/ ata_data \/ ata_finish

\* The drive has a sector to put on the medium.
Taken == drive.st = "busy" /\ drive.cmd = "write" /\ drive.word # NoWord
Stored == [sectors EXCEPT ![drive.lba] = drive.word[1]]

\* The drive carries on with its command.
Carry ==
    /\ drive.st = "busy"
    /\ IF Taken
       THEN /\ sectors' = Stored
            /\ unflushed' = TRUE
            /\ drive' = [drive EXCEPT !.lba = @ + 1, !.left = @ - 1, !.word = NoWord]
       ELSE /\ drive' = IF drive.left = 0 THEN IdleDrive
                        ELSE IF drive.lba >= ATA_SECTORS THEN [drive EXCEPT !.st = "error"]
                        ELSE IF drive.cmd = "write" THEN [drive EXCEPT !.st = "drq"]
                        ELSE Drive("drq", "read", drive.lba + 1, drive.left - 1,
                                   <<sectors[drive.lba]>>)
            /\ unflushed' = (unflushed /\ drive.cmd # "flush")
            /\ UNCHANGED sectors

ata_drive ==
    /\ machine = "ata"
    /\ \/ Carry
       \/ /\ drive.st = "busy" /\ drive.cmd # "none"
          /\ drive' = [drive EXCEPT !.st = "error", !.word = NoWord]
          /\ UNCHANGED <<sectors, unflushed>>
       \/ /\ drive.st = "ready" /\ pc = "idle"
          /\ drive' = Drive("drq", "none", 0, 0, <<JUNK>>)
          /\ UNCHANGED <<sectors, unflushed>>
    /\ UNCHANGED <<machine, req, pc, attempt, index>>
=============================================================================
