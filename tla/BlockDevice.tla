---------------------------- MODULE BlockDevice ----------------------------
(***************************************************************************)
(* What disk.h promises: sectors that keep what was written last.  A read  *)
(* that succeeds returns what they hold; a write that succeeds has stored  *)
(* all of its data; one that fails may have stored any part of it; no call *)
(* changes a sector it was not asked to.  A drive that stopped answering   *)
(* in the middle of a call (lost) may still carry it out, but no later     *)
(* call succeeds.                                                          *)
(***************************************************************************)
EXTENDS Integers

CONSTANTS Data, Requests, NoRequest

VARIABLES sectors, call, lost

vars == <<sectors, call, lost>>

Running == call.fn # "none" /\ call.result = "none"
Range(c) == {s \in DOMAIN sectors : c.lba <= s /\ s < c.lba + c.count}

Begin == /\ ~Running
         /\ call' \in Requests
         /\ UNCHANGED <<sectors, lost>>

\* Some sectors of a write reach the disk.
Store(c) == /\ c.fn = "write"
            /\ \E part \in SUBSET Range(c) :
                  sectors' = [s \in DOMAIN sectors |->
                                IF s \in part THEN c.data[s - c.lba] ELSE sectors[s]]
            /\ UNCHANGED <<call, lost>>

Succeed ==
    /\ Running
    /\ lost = NoRequest \/ call.fn = "size"
    /\ call.fn # "size" => call.count > 0 /\ call.lba + call.count - 1 \in DOMAIN sectors
    /\ call.fn = "write" =>
          \A i \in 0..(call.count - 1) : sectors[call.lba + i] = call.data[i]
    /\ call' = [call EXCEPT !.result = "ok",
                   !.data = IF call.fn = "read"
                            THEN [i \in 0..(call.count - 1) |-> sectors[call.lba + i]]
                            ELSE @]
    /\ UNCHANGED <<sectors, lost>>

Fail == /\ Running
        /\ call' = [call EXCEPT !.result = "error"]
        /\ lost' \in {lost, call}
        /\ lost # NoRequest => lost' = lost
        /\ UNCHANGED sectors

Init == /\ sectors \in [DOMAIN sectors -> Data]
        /\ call = NoRequest
        /\ lost = NoRequest

Next == Begin \/ (Running /\ Store(call)) \/ Store(lost) \/ Succeed \/ Fail

Spec == Init /\ [][Next]_vars
=============================================================================
