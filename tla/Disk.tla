-------------------------------- MODULE Disk --------------------------------
(***************************************************************************)
(* The disk switch of src/drivers/disk.c over both drivers: the first call *)
(* probes ATA, then NVMe, and whichever answers serves every later call.   *)
(* A machine has one disk or none; its medium is sectors.                  *)
(***************************************************************************)
EXTENDS Ata, Nvme

CONSTANTS
    Lbas, Counts,    \* the sectors callers ask for
    Patterns         \* what they write: functions from positions to Data

ASSUME DiskAssumption ==
    /\ ATA_SECTORS \in Nat /\ ATA_RETRIES \in Nat \ {0} /\ MAX_COUNT \in Nat \ {0}
    /\ LBA_SPACE \in Nat \ {0}
    /\ QUEUE_ENTRIES \in Nat \ {0, 1} /\ ID_MOD \in Nat \ {0}
    /\ PER_BLOCK \in Nat \ {0} /\ NSZE \in Nat
    /\ MAX_SECTORS \in Nat \ {0} /\ MAX_BLOCKS \in Nat \ {0, 1}
    /\ Lbas \subseteq Nat /\ Counts \subseteq Nat
    /\ JUNK \notin Data
    /\ ATA_SECTORS <= NSZE * PER_BLOCK   \* the medium holds what IDENTIFY answers

VARIABLES
    backend,
    total_sectors

diskVars == <<backend, total_sectors>>
vars == <<callVars, ataVars, nvmeVars, diskVars>>

Medium == 0..(NSZE * PER_BLOCK - 1)

Requests ==
    {Request("size", 0, 0, Buffer(0))}
    \cup {Request("read", l, n, Buffer(n)) : l \in Lbas, n \in Counts}
    \cup {Request("write", l, n, [i \in 0..(n - 1) |-> p[i]]) :
              l \in Lbas, n \in Counts, p \in Patterns}

\* The call goes on with the driver of backend b.
Dispatch(b) ==
    IF b = "none" THEN Return("error")
    ELSE IF req.fn = "size" THEN Return("ok")
    ELSE Goto(IF b = "ata" THEN "ata_start" ELSE "nvme_start")

\* An ATA drive is asked for sectors that it can name.  No driver checks it: on a
\* sound filesystem the callers stay below disk_total_sectors (superblock_check),
\* which is at most 2^28 for an ATA drive (words 60 and 61 of IDENTIFY).
Nameable(r) == machine = "ata" => r.lba < LBA_SPACE

\* disk_total_sectors (and disk_name), disk_read_sectors, disk_write_sectors.
disk_call ==
    /\ pc = "idle"
    /\ req' \in Requests /\ Nameable(req')
    /\ pc' = IF backend = "none" THEN "probe" ELSE "dispatch"
    /\ UNCHANGED <<machine, sectors, unflushed, ataVars, nvmeVars, diskVars>>

disk_dispatch ==
    /\ pc = "dispatch"
    /\ Dispatch(backend)
    /\ UNCHANGED <<machine, sectors, unflushed, ataVars, nvmeVars, diskVars>>

\* IDENTIFY is answered, or there is no drive or a poll of it fails.
ata_total_sectors(n) ==
    /\ machine # "ata" => n = 0
    /\ drive' = IF n = 0 THEN drive ELSE IdleDrive

probe ==
    \/ /\ pc = "probe"
       /\ \E n \in {0, ATA_SECTORS} :
             /\ ata_total_sectors(n)
             /\ IF n # 0
                THEN backend' = "ata" /\ total_sectors' = n /\ Dispatch("ata")
                ELSE Goto("nvme_total") /\ UNCHANGED <<backend, total_sectors>>
       /\ UNCHANGED <<machine, sectors, unflushed, attempt, index, nvmeVars>>
    \/ /\ pc = "nvme_known"
       /\ IF nvme_state = "ready" /\ nvme_sectors # 0
          THEN backend' = "nvme" /\ total_sectors' = nvme_sectors /\ Dispatch("nvme")
          ELSE Dispatch("none") /\ UNCHANGED <<backend, total_sectors>>
       /\ UNCHANGED <<machine, sectors, unflushed, ataVars, nvmeVars>>

Init ==
    /\ sectors \in {[s \in Medium |-> d] : d \in Data}
    /\ unflushed = FALSE
    /\ req = NoRequest
    /\ pc = "idle"
    /\ drive = IdleDrive /\ attempt = 0 /\ index = 0
    /\ nvme_state = "untried" /\ nvme_sectors = 0
    /\ nq = [q \in {"admin", "io"} |-> queue_setup]
    /\ command_id = 0
    /\ waiting = NotWaiting
    /\ bounce = CleanBounce
    /\ span = NoSpan
    /\ abandoned = NoRequest
    /\ machine \in {"ata", "nvme", "none"}
    /\ backend = "none" /\ total_sectors = 0

DriverStep ==
    \/ disk_dispatch \/ probe
    \/ AtaStep /\ UNCHANGED <<nvmeVars, diskVars>>
    \/ NvmeStep /\ UNCHANGED <<ataVars, diskVars>>

Next ==
    \/ disk_call
    \/ DriverStep
    \/ ata_drive /\ UNCHANGED <<nvmeVars, diskVars>>
    \/ \E q \in {"admin", "io"} :
          nvme_device(q) /\ UNCHANGED <<ataVars, diskVars>>

\* Every polling loop of the drivers ends, whatever the device does.
Spec == Init /\ [][Next]_vars /\ WF_vars(DriverStep)
-----------------------------------------------------------------------------
(* Properties.                                                             *)

\* The driver's and the controller's view of the queues agree whenever no
\* command is on its way, and the next entry to be polled looks unfinished, so
\* an old completion is never taken for a new one, however often the rings wrap
\* and after any command that failed.
QueuesInStep ==
    nvme_state # "failed" /\ pc # "nvme_wait" =>
        \A q \in DOMAIN nq :
            /\ nq[q].sq_head = nq[q].sq_tail
            /\ nq[q].cq_tail = nq[q].cq_head
            /\ nq[q].cq_phase = nq[q].phase
            /\ nq[q].cq[nq[q].cq_head].phase # nq[q].phase

\* A write that returned success is not left in the write cache of the drive,
\* so a power cut after it loses nothing.
WritesFlushed == pc = "idle" /\ Writing /\ req.result = "ok" => ~unflushed

\* A command of transfer stays within the namespace and the bounce buffer, and
\* each of its blocks holds a sector that was asked for.
CommandsInRange ==
    \A i \in Slots :
        LET c == nq["io"].sq[i]
        IN  c.op \in {"read", "write"} =>
              /\ c.blocks \in 1..MAX_BLOCKS
              /\ c.block + c.blocks <= NSZE
              /\ nvme_state = "ready" =>
                   \A b \in c.block..(c.block + c.blocks - 1) :
                       \E s \in Asked : s \div PER_BLOCK = b

\* The buffer of a read means nothing until the call succeeds.
Visible(r) == IF r.fn = "read" /\ r.result # "ok" THEN [r EXCEPT !.data = Buffer(r.count)] ELSE r

Device == INSTANCE BlockDevice WITH call <- Visible(req), lost <- abandoned

\* Retries, spans, partial blocks and late commands together behave as one
\* device that keeps what was written last (disk.h as the filesystem uses it).
ImplementsBlockDevice == Device!Spec

\* Every call of the disk returns, whatever the device does or stops doing.
CallsReturn == pc # "idle" ~> pc = "idle"
=============================================================================
