------------------------------ MODULE Rtl8139 ------------------------------
(***************************************************************************)
(* The network card driver of src/drivers/rtl8139.c and the card.          *)
(*                                                                         *)
(* The card is external: it writes frames into the receive ring at cbr,    *)
(* sets bits of its status register isr, and sends the transmit slots in   *)
(* order.  It runs beside everything else.  interrupt_handler runs with    *)
(* interrupts off, so tasks step only while irq = "off".  One task         *)
(* receives (receive_task of net.c); several send, under tx_lock.          *)
(*                                                                         *)
(* Offsets and sizes count in units.  ring holds the frames between the    *)
(* driver's offset and cbr with the offsets they start at.                 *)
(***************************************************************************)
EXTENDS Integers, Sequences, FiniteSets

CONSTANTS
    RX_RING_SIZE,
    QUEUE_SLOTS,
    TX_SLOTS,
    CAPACITY,      \* of the buffer that rtl8139_receive is given
    Frames,        \* records [size, data]
    Senders,
    NoFrame,
    NULL

ASSUME RtlAssumption ==
    /\ RX_RING_SIZE \in Nat \ {0} /\ QUEUE_SLOTS \in Nat \ {0, 1} /\ TX_SLOTS \in Nat \ {0}
    /\ CAPACITY \in Nat \ {0}
    /\ \A f \in Frames : f = [size |-> f.size, data |-> f.data] /\ f.size \in 1..(RX_RING_SIZE - 1)
    /\ NULL \notin Senders /\ NoFrame \notin Frames

VARIABLES
    active,
    ring, cbr, isr,                  \* the card's receiving side
    irq, status,                     \* where interrupt_handler is, and its local
    rx_offset,
    queue, queue_head, queue_tail,
    receiver, slot, out,             \* rtl8139_receive: place, locals, last result
    tx_lock, sender, tx_next, tx_buffers,
    own, tx_cur,                     \* TSD_OWN of the slots, the card's next slot
    posted                           \* history: frames given to the card, not yet sent

rxVars == <<ring, cbr, rx_offset>>
irqVars == <<irq, status>>
queueVars == <<queue, queue_head, queue_tail>>
receiveVars == <<receiver, slot, out>>
sendVars == <<tx_lock, sender, tx_next, tx_buffers, own, tx_cur, posted>>
vars == <<active, rxVars, isr, irqVars, queueVars, receiveVars, sendVars>>

Used(r) == IF r = << >> THEN 0
           ELSE (cbr - r[1].off + RX_RING_SIZE) % RX_RING_SIZE

\* The offset after a frame.
RingNext(offset, size) ==
    IF offset + size >= RX_RING_SIZE THEN offset + size - RX_RING_SIZE ELSE offset + size
-----------------------------------------------------------------------------
(* The card.                                                               *)

\* A frame starts to arrive; its length field says RX_LENGTH_PENDING.
card_begin(f) ==
    /\ active
    /\ \A i \in DOMAIN ring : ring[i].st # "pending"
    /\ Used(ring) + f.size < RX_RING_SIZE
    /\ ring' = Append(ring, [off |-> cbr, st |-> "pending", f |-> f])
    /\ cbr' = (cbr + f.size) % RX_RING_SIZE
    /\ UNCHANGED <<active, rx_offset, isr, irqVars, queueVars, receiveVars, sendVars>>

\* It is complete, or has an error.
card_complete(st) ==
    /\ ring # << >> /\ ring[Len(ring)].st = "pending"
    /\ ring' = [ring EXCEPT ![Len(ring)].st = st]
    /\ isr' = isr \cup {"rx"}
    /\ UNCHANGED <<active, cbr, rx_offset, irqVars, queueVars, receiveVars, sendVars>>

\* A slot is sent; what is left in it is marked NoFrame.
card_send ==
    /\ ~own[tx_cur]
    /\ own' = [own EXCEPT ![tx_cur] = TRUE]
    /\ tx_buffers' = [tx_buffers EXCEPT ![tx_cur] = NoFrame]
    /\ tx_cur' = (tx_cur + 1) % TX_SLOTS
    /\ posted' = Tail(posted)
    /\ isr' = isr \cup {"tx"}
    /\ UNCHANGED <<active, rxVars, irqVars, queueVars, receiveVars,
                   tx_lock, sender, tx_next>>
-----------------------------------------------------------------------------
(* The interrupt handler.                                                  *)

\* interrupt_handler up to the read of the status register.
interrupt ==
    /\ irq = "off" /\ active /\ isr # {}
    /\ status' = isr
    /\ irq' = "ack"
    /\ UNCHANGED <<active, rxVars, isr, queueVars, receiveVars, sendVars>>

\* Mutant: every bit is acknowledged, not only those that were read.
Acknowledged_all == {"rx", "tx"}

Acknowledged == status

acknowledge ==
    /\ irq = "ack"
    /\ isr' = isr \ Acknowledged
    /\ irq' = IF "rx" \in status THEN "drain" ELSE "wake"
    /\ status' = {}
    /\ UNCHANGED <<active, rxVars, queueVars, receiveVars, sendVars>>

\* Mutant: the queue is said to be full one frame too early.
QueueFull_early == (queue_head + 2) % QUEUE_SLOTS = queue_tail

QueueFull == (queue_head + 1) % QUEUE_SLOTS = queue_tail

enqueue(f) ==
    IF QueueFull THEN UNCHANGED queueVars
    ELSE /\ queue' = [queue EXCEPT ![queue_head] = f]
         /\ queue_head' = (queue_head + 1) % QUEUE_SLOTS
         /\ UNCHANGED queue_tail

\* What the driver reads at its offset: the frame there, or leftover bytes.
AtOffset == IF \E i \in DOMAIN ring : ring[i].off = rx_offset
            THEN ring[CHOOSE i \in DOMAIN ring : ring[i].off = rx_offset]
            ELSE [off |-> rx_offset, st |-> "bad", f |-> NoFrame]

\* The receiver is switched off and on: the card starts again at offset 0.
rx_restart == ring' = << >> /\ cbr' = 0 /\ rx_offset' = 0

\* One turn of the loop of drain.
drain ==
    /\ irq = "drain"
    /\ LET e == AtOffset
       IN  CASE ring = << >> \/ e.st = "pending" ->
                  irq' = "wake" /\ UNCHANGED <<rxVars, queueVars>>
             [] ring # << >> /\ e.st = "bad" ->
                  irq' = "wake" /\ rx_restart /\ UNCHANGED queueVars
             [] OTHER ->
                  /\ enqueue(e.f)
                  /\ rx_offset' = RingNext(rx_offset, e.f.size)
                  /\ ring' = Tail(ring)
                  /\ UNCHANGED <<cbr, irq>>
    /\ UNCHANGED <<active, isr, status, receiveVars, sendVars>>

has_frame == queue_head # queue_tail

\* Mutant: nobody is woken.
WakeNeeded_never == FALSE

WakeNeeded == has_frame

\* The end of interrupt_handler.
wake ==
    /\ irq = "wake"
    /\ irq' = "off"
    /\ receiver' = IF WakeNeeded /\ receiver = "waiting" THEN "call" ELSE receiver
    /\ UNCHANGED <<active, rxVars, isr, status, queueVars, slot, out, sendVars>>
-----------------------------------------------------------------------------
(* rtl8139_init and rtl8139_receive.                                       *)

\* Whatever fails leaves active 0; a card that was reset has no frames.
rtl8139_init ==
    /\ irq = "off" /\ ~active
    /\ active' = TRUE
    /\ rx_restart
    /\ queue_head' = 0 /\ queue_tail' = 0 /\ tx_next' = 0 /\ tx_cur' = 0
    /\ own' = [s \in 0..(TX_SLOTS - 1) |-> TRUE]
    /\ UNCHANGED <<isr, irqVars, queue, receiveVars, tx_lock, sender, tx_buffers, posted>>

\* wait_queue_wait_until with interrupts off: the test, and the sleep.
receive_wait ==
    /\ irq = "off" /\ active /\ receiver = "call"
    /\ receiver' = IF has_frame THEN "size" ELSE "waiting"
    /\ UNCHANGED <<active, rxVars, isr, irqVars, queueVars, slot, out, sendVars>>

receive_timeout ==
    /\ irq = "off" /\ receiver = "waiting"
    /\ receiver' = "call"
    /\ UNCHANGED <<active, rxVars, isr, irqVars, queueVars, slot, out, sendVars>>

\* What fits into the buffer.
Clip(size) == IF size > CAPACITY THEN CAPACITY ELSE size

\* The size is read and clipped, then the bytes are, then the slot is given back;
\* interrupts may come in between.  The bytes of a frame are the first size of data.
\* What is left in a slot that was given back is marked NoFrame.
receive_copy ==
    /\ irq = "off"
    /\ \/ /\ receiver = "size"
          /\ slot' = [size |-> Clip(queue[queue_tail].size), data |-> NULL]
          /\ receiver' = "data"
       \/ /\ receiver = "data"
          /\ slot' = [slot EXCEPT !.data = queue[queue_tail].data]
          /\ receiver' = "advance"
    /\ UNCHANGED <<active, rxVars, isr, irqVars, queueVars, out, sendVars>>

receive_advance ==
    /\ irq = "off" /\ receiver = "advance"
    /\ queue_tail' = (queue_tail + 1) % QUEUE_SLOTS
    /\ queue' = [queue EXCEPT ![queue_tail] = NoFrame]
    /\ out' = slot
    /\ slot' = NoFrame
    /\ receiver' = "call"
    /\ UNCHANGED <<active, rxVars, isr, irqVars, queue_head, sendVars>>
-----------------------------------------------------------------------------
(* rtl8139_send.  A task's frame carries its name.                         *)

Lockable == tx_lock = NULL

\* A task that calls while another holds tx_lock waits outside.
send_lock(t) ==
    /\ irq = "off" /\ active /\ sender[t] = "idle" /\ Lockable
    /\ tx_lock' = t
    /\ sender' = [sender EXCEPT ![t] = "own"]
    /\ UNCHANGED <<active, rxVars, isr, irqVars, queueVars, receiveVars,
                   tx_next, tx_buffers, own, tx_cur, posted>>

\* Mutant: the slot is not asked for.
SlotFree_unasked == TRUE

SlotFree == own[tx_next]

\* The card has sent the slot, or the task gives up after TX_WAIT_MS.
send_wait(t) ==
    /\ irq = "off" /\ sender[t] = "own"
    /\ \/ SlotFree /\ sender' = [sender EXCEPT ![t] = "fill"] /\ UNCHANGED tx_lock
       \/ ~SlotFree /\ sender' = [sender EXCEPT ![t] = "idle"] /\ tx_lock' = NULL
    /\ UNCHANGED <<active, rxVars, isr, irqVars, queueVars, receiveVars,
                   tx_next, tx_buffers, own, tx_cur, posted>>

send_fill(t) ==
    /\ irq = "off" /\ sender[t] = "fill"
    /\ tx_buffers' = [tx_buffers EXCEPT ![tx_next] = t]
    /\ sender' = [sender EXCEPT ![t] = "post"]
    /\ UNCHANGED <<active, rxVars, isr, irqVars, queueVars, receiveVars,
                   tx_lock, tx_next, own, tx_cur, posted>>

\* The slot is handed to the card.
send_post(t) ==
    /\ irq = "off" /\ sender[t] = "post"
    /\ own' = [own EXCEPT ![tx_next] = FALSE]
    /\ posted' = Append(posted, t)
    /\ tx_next' = (tx_next + 1) % TX_SLOTS
    /\ tx_lock' = NULL
    /\ sender' = [sender EXCEPT ![t] = "idle"]
    /\ UNCHANGED <<active, rxVars, isr, irqVars, queueVars, receiveVars, tx_buffers, tx_cur>>

Init ==
    /\ active = FALSE
    /\ ring = << >> /\ cbr = 0 /\ isr = {}
    /\ irq = "off" /\ status = {}
    /\ rx_offset = 0
    /\ queue = [s \in 0..(QUEUE_SLOTS - 1) |-> NoFrame] /\ queue_head = 0 /\ queue_tail = 0
    /\ receiver = "call" /\ slot = NoFrame /\ out = NoFrame
    /\ tx_lock = NULL /\ tx_next = 0 /\ tx_cur = 0 /\ posted = << >>
    /\ sender = [t \in Senders |-> "idle"]
    /\ tx_buffers = [s \in 0..(TX_SLOTS - 1) |-> NoFrame]
    /\ own = [s \in 0..(TX_SLOTS - 1) |-> TRUE]

Next ==
    \/ \E f \in Frames : card_begin(f)
    \/ \E st \in {"ok", "bad"} : card_complete(st)
    \/ card_send
    \/ interrupt \/ acknowledge \/ drain \/ wake
    \/ rtl8139_init
    \/ receive_wait \/ receive_timeout \/ receive_copy \/ receive_advance
    \/ \E t \in Senders : send_lock(t) \/ send_wait(t) \/ send_fill(t) \/ send_post(t)

Spec == Init /\ [][Next]_vars
-----------------------------------------------------------------------------
(* Properties.                                                             *)

\* No frame is forgotten: while no handler runs, a complete frame at the head of
\* the ring still has its interrupt to come, and the handler is going to look for it
\* where the card put it, over every wrap and after every restart.
NoFrameForgotten ==
    /\ irq = "off" /\ ring # << >> /\ ring[1].st # "pending" => "rx" \in isr
    /\ rx_offset = IF ring = << >> THEN cbr ELSE ring[1].off

\* The receiver does not sleep on a queue with frames in it.
NoSleepOnFrames == irq = "off" /\ receiver = "waiting" => ~has_frame

\* The slots that the card has still to send are the ones after tx_cur, in the
\* order of the calls, and hold what the callers passed: no buffer is
\* overwritten, skipped or sent twice.
SlotsIntact ==
    /\ Len(posted) = Cardinality({s \in DOMAIN own : ~own[s]})
    /\ \A i \in 1..Len(posted) :
          LET s == (tx_cur + i - 1) % TX_SLOTS
          IN  ~own[s] /\ tx_buffers[s] = posted[i]

\* What has arrived and was not read: the frames in the queue, then the entries of the
\* ring that are no longer pending, a damaged one as NoFrame.
Queued == (queue_head - queue_tail + QUEUE_SLOTS) % QUEUE_SLOTS
Complete(r) == IF r # << >> /\ r[Len(r)].st = "pending" THEN Len(r) - 1 ELSE Len(r)
Item(e) == IF e.st = "ok" THEN e.f ELSE NoFrame
InFlight == [i \in 1..(Queued + Complete(ring)) |->
               IF i <= Queued THEN queue[(queue_tail + i - 1) % QUEUE_SLOTS]
               ELSE Item(ring[i - Queued])]
Fifo == INSTANCE LossyFifo WITH inflight <- InFlight, ROOM <- QUEUE_SLOTS - 1

\* Ring, handler, queue and receiver together deliver the complete frames in order and
\* once, each whole or, when it is longer than the caller's buffer, its first CAPACITY
\* bytes.  A complete frame is lost only when it reaches enqueue while QUEUE_SLOTS - 1
\* older ones wait, or when drain meets a bad one before it and restarts the receiver;
\* the frames that are already queued survive the restart.
ImplementsLossyFifo == Fifo!Spec
=============================================================================
