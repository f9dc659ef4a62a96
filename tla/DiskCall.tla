------------------------------ MODULE DiskCall ------------------------------
(***************************************************************************)
(* What the disk drivers share: the medium and the call that is running.   *)
(* The filesystem calls the disk from the main task only, so there is one  *)
(* call at a time; pc is the place in the driver that it has reached.      *)
(***************************************************************************)
EXTENDS Integers, FiniteSets

CONSTANTS
    Data,        \* what callers store in a sector
    JUNK         \* what no caller stored

VARIABLES
    machine,     \* the disk that there is: "ata", "nvme" or "none" (external)
    sectors,     \* its medium, by sector
    unflushed,   \* the drive may hold writes that are only in its write cache
    req,         \* the call, with the caller's buffer in data
    pc

callVars == <<machine, sectors, unflushed, req, pc>>

Request(fn, lba, count, data) ==
    [fn |-> fn, lba |-> lba, count |-> count, data |-> data, result |-> "none"]
Buffer(count) == [i \in 0..(count - 1) |-> JUNK]
NoRequest == Request("none", 0, 0, Buffer(0))

Writing == req.fn = "write"
Goto(label) == pc' = label /\ UNCHANGED req

\* The driver returns 0 or -1 to its caller.
Return(code) == pc' = "idle" /\ req' = [req EXCEPT !.result = code]

\* The sectors that a request is about.
Asked == {s \in DOMAIN sectors : req.lba <= s /\ s < req.lba + req.count}
=============================================================================
