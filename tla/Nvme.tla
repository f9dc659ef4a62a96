-------------------------------- MODULE Nvme --------------------------------
(***************************************************************************)
(* The polled NVMe driver of src/drivers/nvme.c and its controller.        *)
(*                                                                         *)
(* nq[q] is a queue pair: sq_tail, cq_head and phase are the driver's      *)
(* struct queue, sq and cq the rings in memory, sq_head, cq_tail and       *)
(* cq_phase the controller's side.  The controller is external: it takes   *)
(* the commands between sq_head and the doorbell (which is sq_tail), may   *)
(* fail any of them, and may answer late or never; execute() then gives up *)
(* after COMPLETION_TIMEOUT turns.  A block is PER_BLOCK sectors.          *)
(***************************************************************************)
EXTENDS DiskCall

CONSTANTS
    QUEUE_ENTRIES,
    ID_MOD,         \* 2^16
    PER_BLOCK,      \* sectors of a block of the namespace
    NSZE,           \* blocks of the namespace
    MAX_SECTORS,    \* most sectors the driver uses
    MAX_BLOCKS      \* most blocks of one command (max_transfer >> lba_shift)

VARIABLES
    nvme_state,     \* state
    nvme_sectors,   \* total_sectors
    nq,             \* the admin and the io queue
    command_id,
    waiting,        \* execute: the queue, the id and where the caller goes on
    bounce,         \* the bounce buffer, by sector
    span,           \* lba and count of transfer
    abandoned       \* history: the write that execute gave up on

nvmeVars == <<nvme_state, nvme_sectors, nq, command_id, waiting, bounce, span, abandoned>>

Slots == 0..(QUEUE_ENTRIES - 1)
NoCommand == [op |-> "none", id |-> 0, block |-> 0, blocks |-> 0]
CleanBounce == [i \in 0..(MAX_BLOCKS * PER_BLOCK - 1) |-> JUNK]

\* queue_setup; the controller starts a new queue at entry 0 with phase 1.
queue_setup == [sq_tail |-> 0, cq_head |-> 0, phase |-> 1,
                sq |-> [i \in Slots |-> NoCommand],
                cq |-> [i \in Slots |-> [phase |-> 0, id |-> 0, ok |-> FALSE]],
                sq_head |-> 0, cq_tail |-> 0, cq_phase |-> 1]

Advance(i) == (i + 1) % QUEUE_ENTRIES

NextId(id) == (id + 1) % ID_MOD

\* execute, up to the doorbell, with the queues qs.
Submit(qs, q, op, block, blocks, after) ==
    /\ nq' = [qs EXCEPT
                ![q].sq[qs[q].sq_tail] = [op |-> op, id |-> command_id,
                                          block |-> block, blocks |-> blocks],
                ![q].sq_tail = Advance(@)]
    /\ command_id' = NextId(command_id)
    /\ waiting' = [q |-> q, id |-> command_id, after |-> after]
    /\ Goto("nvme_wait")

NoSpan == [lba |-> 0, count |-> 0]
NotWaiting == [q |-> "admin", id |-> 0, after |-> "idle"]

\* A call fails; controller_init fails with it while the state is untried.  The
\* locals of execute and transfer are gone.
Fail == /\ IF nvme_state = "untried" THEN Goto("nvme_known") ELSE Return("error")
        /\ waiting' = NotWaiting
        /\ span' = NoSpan
Failed == IF nvme_state = "untried" THEN "failed" ELSE nvme_state

\* Mutant: the phase stays when the ring wraps.
NextPhase_kept(q) == q.phase

NextPhase(q) == IF Advance(q.cq_head) = 0 THEN 1 - q.phase ELSE q.phase

\* The completion that execute polls for.
Entry == nq[waiting.q].cq[nq[waiting.q].cq_head]
Completed == Entry.phase = nq[waiting.q].phase

\* execute, from the completion on.
execute_complete ==
    /\ pc = "nvme_wait" /\ Completed
    /\ nq' = [nq EXCEPT ![waiting.q].cq_head = Advance(@),
                        ![waiting.q].phase = NextPhase(nq[waiting.q])]
    /\ IF Entry.id = waiting.id /\ Entry.ok
       THEN Goto(waiting.after) /\ waiting' = NotWaiting /\ UNCHANGED <<nvme_state, span>>
       ELSE Fail /\ nvme_state' = Failed
    /\ UNCHANGED <<machine, sectors, unflushed, nvme_sectors, command_id, bounce, abandoned>>

\* Mutant: the loop has no end.
TimesOut_never == FALSE

TimesOut == ~Completed

execute_timeout ==
    /\ pc = "nvme_wait" /\ TimesOut
    /\ nvme_state' = "failed"
    /\ Fail
    /\ abandoned' = IF Writing /\ nvme_state = "ready" THEN req ELSE abandoned
    /\ UNCHANGED <<machine, sectors, unflushed, nvme_sectors, nq, command_id, bounce>>
-----------------------------------------------------------------------------
(* nvme_total_sectors and controller_init.                                 *)

InitFails ==
    /\ nvme_state' = "failed"
    /\ Goto("nvme_known")
    /\ UNCHANGED <<nq, command_id, waiting, nvme_sectors>>

\* controller_init, up to IDENTIFY: there is no usable controller, it does not
\* become ready, or the admin queue is set up.
controller_init ==
    /\ pc = "nvme_total"
    /\ \/ /\ nvme_state # "untried"
          /\ Goto("nvme_known")
          /\ UNCHANGED <<nvme_state, nq, command_id, waiting, nvme_sectors>>
       \/ nvme_state = "untried" /\ InitFails
       \/ /\ nvme_state = "untried" /\ machine = "nvme"
          /\ Submit([nq EXCEPT !["admin"] = queue_setup], "admin", "identify", 0, 0,
                    "nvme_namespace")
          /\ UNCHANGED <<nvme_state, nvme_sectors>>
    /\ UNCHANGED <<machine, sectors, unflushed, bounce, span, abandoned>>

\* total_sectors as read_namespace sets it.
Size == IF NSZE > MAX_SECTORS \div PER_BLOCK THEN MAX_SECTORS ELSE NSZE * PER_BLOCK

\* The rest of controller_init, one command after the other: read_namespace
\* (which may find a format it cannot use) and create_io_queues.
read_namespace ==
    /\ \/ /\ pc = "nvme_namespace"
          /\ Submit(nq, "admin", "identify", 0, 0, "nvme_create_cq")
          /\ UNCHANGED <<nvme_state, nvme_sectors>>
       \/ /\ pc = "nvme_create_cq"
          /\ \/ InitFails
             \/ /\ nvme_sectors' = Size
                /\ Submit([nq EXCEPT !["io"] = queue_setup], "admin", "create_cq", 0, 0,
                          "nvme_create_sq")
                /\ UNCHANGED nvme_state
    /\ UNCHANGED <<machine, sectors, unflushed, bounce, span, abandoned>>

create_io_queues ==
    /\ \/ /\ pc = "nvme_create_sq"
          /\ Submit(nq, "admin", "create_sq", 0, 0, "nvme_created")
          /\ UNCHANGED <<nvme_state, nvme_sectors>>
       \/ /\ pc = "nvme_created"
          /\ nvme_state' = "ready"
          /\ Goto("nvme_known")
          /\ UNCHANGED <<nq, command_id, waiting, nvme_sectors>>
    /\ UNCHANGED <<machine, sectors, unflushed, bounce, span, abandoned>>
-----------------------------------------------------------------------------
(* transfer, with the loop variables lba and count in span.                *)

OutOfRange ==
    req.count = 0 \/ req.lba >= nvme_sectors \/ req.count > nvme_sectors - req.lba

Block == span.lba \div PER_BLOCK
Offset == span.lba % PER_BLOCK
Smaller(a, b) == IF a < b THEN a ELSE b

\* Mutant: a transfer is not cut to the bounce buffer.
Blocks_uncut == (Offset + span.count + PER_BLOCK - 1) \div PER_BLOCK

Blocks == Smaller((Offset + span.count + PER_BLOCK - 1) \div PER_BLOCK, MAX_BLOCKS)
Span == Smaller(Blocks * PER_BLOCK - Offset, span.count)

\* Mutant: only the start of a transfer is looked at.
Partial_start_only == Offset # 0

Partial == Offset # 0 \/ Span # Blocks * PER_BLOCK

\* nvme_read_sectors and nvme_write_sectors, up to transfer's loop.
nvme_start ==
    /\ pc = "nvme_start"
    /\ IF nvme_state # "ready" \/ OutOfRange
       THEN Return("error") /\ UNCHANGED span
       ELSE Goto("nvme_span") /\ span' = [lba |-> req.lba, count |-> req.count]
    /\ UNCHANGED <<machine, sectors, unflushed, nvme_state, nvme_sectors, nq, command_id, waiting,
                   bounce, abandoned>>

\* The bounce buffer with the caller's sectors copied in.
Filled == [i \in DOMAIN bounce |->
             IF Offset <= i /\ i < Offset + Span
             THEN req.data[span.lba - req.lba + i - Offset] ELSE bounce[i]]

\* The body of the loop up to the first command, or nvme_write_sectors's flush.
transfer ==
    /\ pc = "nvme_span"
    /\ CASE span.count = 0 /\ Writing ->
              Submit(nq, "io", "flush", 0, 0, "nvme_done") /\ UNCHANGED bounce
         [] span.count = 0 /\ ~Writing ->
              Return("ok") /\ UNCHANGED <<nq, command_id, waiting, bounce>>
         [] span.count > 0 /\ (Partial \/ ~Writing) ->
              Submit(nq, "io", "read", Block, Blocks, "nvme_copy") /\ UNCHANGED bounce
         [] OTHER ->
              Submit(nq, "io", "write", Block, Blocks, "nvme_next") /\ bounce' = Filled
    /\ UNCHANGED <<machine, sectors, unflushed, nvme_state, nvme_sectors, span, abandoned>>

NextSpan == [lba |-> span.lba + Span, count |-> span.count - Span]

\* The memcpy after a read.  What is left in bounce after the last use of it is
\* marked JUNK.
transfer_copy ==
    /\ pc = "nvme_copy"
    /\ \/ /\ Writing
          /\ bounce' = Filled
          /\ Submit(nq, "io", "write", Block, Blocks, "nvme_next")
          /\ UNCHANGED span
       \/ /\ ~Writing
          /\ req' = [req EXCEPT !.data = [i \in DOMAIN @ |->
                       LET b == i - (span.lba - req.lba)
                       IN  IF 0 <= b /\ b < Span THEN bounce[b + Offset] ELSE @[i]]]
          /\ span' = NextSpan
          /\ bounce' = CleanBounce
          /\ pc' = "nvme_span"
          /\ UNCHANGED <<nq, command_id, waiting>>
    /\ UNCHANGED <<machine, sectors, unflushed, nvme_state, nvme_sectors, abandoned>>

\* A write of the loop, and the flush, have succeeded.
transfer_next ==
    /\ \/ /\ pc = "nvme_next"
          /\ span' = NextSpan
          /\ bounce' = CleanBounce
          /\ Goto("nvme_span")
       \/ /\ pc = "nvme_done"
          /\ Return("ok")
          /\ UNCHANGED <<span, bounce>>
    /\ UNCHANGED <<machine, sectors, unflushed, nvme_state, nvme_sectors, nq, command_id, waiting,
                   abandoned>>

NvmeStep == \/ execute_complete \/ execute_timeout
            \/ controller_init \/ read_namespace \/ create_io_queues
            \/ nvme_start \/ transfer \/ transfer_copy \/ transfer_next
-----------------------------------------------------------------------------
(* The controller takes a command, carries it out (all of it, or the first *)
(* sectors and reports an error) and posts the completion.                 *)

CommandSectors(c) == {s \in DOMAIN sectors : s \div PER_BLOCK \in c.block..(c.block + c.blocks - 1)}

Written(c, done) ==
    [s \in DOMAIN sectors |->
        IF s \in CommandSectors(c) /\ s < c.block * PER_BLOCK + done
        THEN bounce[s - c.block * PER_BLOCK] ELSE sectors[s]]

nvme_device(q) ==
    LET Q == nq[q]
        c == Q.sq[Q.sq_head]
    IN  /\ Q.sq_head # Q.sq_tail
        /\ \E ok \in BOOLEAN :
             /\ nq' = [nq EXCEPT
                  ![q].sq[Q.sq_head] = NoCommand,
                  ![q].sq_head = Advance(@),
                  ![q].cq[Q.cq_tail] = [phase |-> Q.cq_phase, id |-> c.id, ok |-> ok],
                  ![q].cq_tail = Advance(@),
                  ![q].cq_phase = IF Advance(Q.cq_tail) = 0 THEN 1 - @ ELSE @]
             /\ IF c.op = "write"
                THEN \E done \in 0..c.blocks * PER_BLOCK :
                       /\ ok => done = c.blocks * PER_BLOCK
                       /\ sectors' = Written(c, done)
                       /\ unflushed' = TRUE
                ELSE /\ unflushed' = (unflushed /\ ~(c.op = "flush" /\ ok))
                     /\ UNCHANGED sectors
             /\ bounce' = IF c.op # "read" THEN bounce
                          ELSE [i \in DOMAIN bounce |->
                                  LET s == c.block * PER_BLOCK + i
                                  IN  IF s \in CommandSectors(c) THEN sectors[s] ELSE bounce[i]]
        /\ UNCHANGED <<machine, req, pc, nvme_state, nvme_sectors, command_id, waiting, span, abandoned>>
=============================================================================
