--------------------------- MODULE Rtl8139Proofs ----------------------------
(***************************************************************************)
(* Proofs, for every size of the ring, number of queue and transmit slots, *)
(* set of frames and set of sending tasks, of the safety properties of     *)
(* Rtl8139 and of its refinement of LossyFifo.                             *)
(***************************************************************************)
EXTENDS Rtl8139, TLAPS

Offsets == 0..(RX_RING_SIZE - 1)
Entries == [off : Offsets, st : {"ok", "bad", "pending"}, f : Frames]

RxTyped ==
    /\ ring \in Seq(Entries) /\ cbr \in Offsets /\ rx_offset \in Offsets
    /\ isr \subseteq {"rx", "tx"} /\ status \subseteq isr
    /\ irq \in {"off", "ack", "drain", "wake"}

QueueTyped ==
    /\ queue \in [0..(QUEUE_SLOTS - 1) -> Frames \cup {NoFrame}]
    /\ queue_head \in 0..(QUEUE_SLOTS - 1) /\ queue_tail \in 0..(QUEUE_SLOTS - 1)
    /\ receiver \in {"call", "waiting", "size", "data", "advance"}

TxTyped ==
    /\ active \in BOOLEAN
    /\ tx_lock \in Senders \cup {NULL}
    /\ sender \in [Senders -> {"idle", "own", "fill", "post"}]
    /\ tx_next \in 0..(TX_SLOTS - 1) /\ tx_cur \in 0..(TX_SLOTS - 1)
    /\ tx_buffers \in [0..(TX_SLOTS - 1) -> Senders \cup {NoFrame}]
    /\ own \in [0..(TX_SLOTS - 1) -> BOOLEAN]
    /\ posted \in Seq(Senders)

\* Before rtl8139_init the card is silent and nobody uses it.
Silent ==
    ~active =>
      /\ ring = << >> /\ cbr = 0 /\ rx_offset = 0 /\ isr = {} /\ irq = "off"
      /\ queue_head = 0 /\ queue_tail = 0 /\ receiver = "call"
      /\ tx_next = 0 /\ tx_cur = 0 /\ posted = << >>
      /\ \A s \in 0..(TX_SLOTS - 1) : own[s]

\* How far offset o is ahead of b.
Dist(b, o) == IF o >= b THEN o - b ELSE o - b + RX_RING_SIZE

\* Where frame i ends, when the last of r ends at c.
End(r, c, i) == IF i < Len(r) THEN r[i + 1].off ELSE c

\* The frames of r lie one behind the other from b to c, and never fill the ring.
Lies(r, b, c) ==
    /\ r = << >> => b = c
    /\ r # << >> => r[1].off = b
    /\ \A i \in 1..Len(r) : Dist(b, End(r, c, i)) = Dist(b, r[i].off) + r[i].f.size
    /\ \A i \in 1..Len(r) : Dist(b, r[i].off) < Dist(b, c)
    /\ \A i, j \in 1..Len(r) : i < j => Dist(b, r[i].off) < Dist(b, r[j].off)

Contiguous == Lies(ring, rx_offset, cbr)

\* Only the last frame may still be arriving.
Arriving == \A i \in 1..(Len(ring) - 1) : ring[i].st # "pending"

\* n entries of r are complete, and at most one more is arriving.
IsComplete(r, n) == /\ \A i \in 1..n : r[i].st # "pending"
                    /\ n < Len(r) => n + 1 = Len(r) /\ r[n + 1].st = "pending"

\* A complete frame at the head has its interrupt to come, except while drain runs.
Announced ==
    irq # "drain" /\ ring # << >> /\ ring[1].st # "pending" => "rx" \in isr

\* The place k steps after c in a ring of n.
At(n, c, k) == IF c + k < n THEN c + k ELSE c + k - n

\* What the receiver has read is what is still at the tail of the queue.
Receiving ==
    /\ irq \in {"off", "ack"} /\ receiver = "waiting" => ~has_frame
    /\ receiver \in {"size", "data", "advance"} => has_frame
    /\ receiver = "data" => slot = [size |-> Clip(queue[queue_tail].size), data |-> NULL]
    /\ receiver = "advance" => slot = Fifo!Cut(queue[queue_tail])
    /\ \A k \in 0..(QUEUE_SLOTS - 1) :
          k < Queued => queue[At(QUEUE_SLOTS, queue_tail, k)] \in Frames

\* tx_lock is held by the one task inside rtl8139_send, which owns the slot it fills.
Sending ==
    /\ \A t \in Senders : sender[t] # "idle" <=> tx_lock = t
    /\ \A t \in Senders : sender[t] \in {"fill", "post"} => own[tx_next]
    /\ \A t \in Senders : sender[t] = "post" => tx_buffers[tx_next] = t
    /\ \A t \in Senders : sender[t] # "idle" => active

\* The slots of the card are the Len(posted) ones from tx_cur to tx_next.
Slots ==
    /\ Len(posted) <= TX_SLOTS
    /\ tx_next = At(TX_SLOTS, tx_cur, Len(posted))
    /\ \A k \in 0..(TX_SLOTS - 1) :
          /\ own[At(TX_SLOTS, tx_cur, k)] <=> k >= Len(posted)
          /\ k < Len(posted) => tx_buffers[At(TX_SLOTS, tx_cur, k)] = posted[k + 1]

RxInv == RxTyped /\ Contiguous /\ Arriving
QueueInv == QueueTyped /\ Receiving
TxInv == TxTyped /\ Sending /\ Slots
IInv == Silent /\ RxInv /\ Announced /\ QueueInv /\ TxInv
-----------------------------------------------------------------------------
(* Arithmetic modulo the size of a ring.                                   *)

\* The place s steps after a, and the steps from b to a.
LEMMA Sum ==
    ASSUME NEW n \in Nat \ {0}, NEW a \in 0..(n - 1), NEW s \in 0..n
    PROVE  (a + s) % n = At(n, a, s)
BY DEF At

\* One step on.
LEMMA Next1 ==
    ASSUME NEW n \in Nat \ {0}, NEW a \in 0..(n - 1)
    PROVE  (a + 1) % n = At(n, a, 1)
BY DEF At

\* Steps around a ring: they stay in it, n of them come back, fewer reach n places.
LEMMA AtRange ==
    ASSUME NEW n \in Nat \ {0}, NEW a \in 0..(n - 1)
    PROVE  /\ \A k \in 0..n : At(n, a, k) \in 0..(n - 1)
           /\ At(n, a, 0) = a /\ At(n, a, n) = a
           /\ \A k, m \in 0..(n - 1) : At(n, a, k) = At(n, a, m) => k = m
           /\ \A k \in 0..(n - 1) : At(n, At(n, a, 1), k) = At(n, a, k + 1)
           /\ \A k \in 0..(n - 1) : At(n, At(n, a, k), 1) = At(n, a, k + 1)
BY DEF At

\* The steps from b to a.
LEMMA Difference ==
    ASSUME NEW n \in Nat \ {0}, NEW a \in 0..(n - 1), NEW b \in 0..(n - 1)
    PROVE  (a - b + n) % n = IF a >= b THEN a - b ELSE a - b + n
<1>1. a - b + n = IF a >= b THEN n + (a - b) ELSE a - b + n
    OBVIOUS
<1>2. \A k \in 0..(n - 1) : k % n = k /\ (n + k) % n = k
    OBVIOUS
<1> QED BY <1>1, <1>2

\* The sizes are positive.
LEMMA Sizes ==
    RX_RING_SIZE \in Nat \ {0} /\ QUEUE_SLOTS \in Nat \ {0, 1} /\ TX_SLOTS \in Nat \ {0}
BY Zenon, RtlAssumption

\* The number of places from t to h, when h or t moves on by one.
Count(n, h, t) == (h - t + n) % n

\* It is the difference, or what is left of the ring.
LEMMA CountVal ==
    ASSUME NEW n \in Nat \ {0}, NEW h \in 0..(n - 1), NEW t \in 0..(n - 1)
    PROVE  Count(n, h, t) = IF h >= t THEN h - t ELSE h - t + n
BY Zenon, Difference DEF Count

\* It leads from t to h, and is 0 only when they are equal.
LEMMA CountIs ==
    ASSUME NEW n \in Nat \ {0}, NEW h \in 0..(n - 1), NEW t \in 0..(n - 1)
    PROVE  /\ Count(n, h, t) \in 0..(n - 1)
           /\ h = At(n, t, Count(n, h, t))
           /\ Count(n, h, t) = 0 <=> h = t
BY CountVal DEF At

\* Full is one less than the size; head and tail move it up and down by one.
LEMMA CountMoves ==
    ASSUME NEW n \in Nat \ {0}, NEW h \in 0..(n - 1), NEW t \in 0..(n - 1)
    PROVE  /\ (h + 1) % n = t <=> Count(n, h, t) = n - 1
           /\ Count(n, h, t) # n - 1 => Count(n, (h + 1) % n, t) = Count(n, h, t) + 1
           /\ h # t => Count(n, h, (t + 1) % n) = Count(n, h, t) - 1
<1> DEFINE h1 == (h + 1) % n
           t1 == (t + 1) % n
<1>1. h1 = IF h + 1 < n THEN h + 1 ELSE 0
    OBVIOUS
<1>2. t1 = IF t + 1 < n THEN t + 1 ELSE 0
    OBVIOUS
<1> HIDE DEF h1, t1
<1>3. h1 \in 0..(n - 1) /\ t1 \in 0..(n - 1)
    BY <1>1, <1>2
<1>4. /\ Count(n, h, t) = IF h >= t THEN h - t ELSE h - t + n
      /\ Count(n, h1, t) = IF h1 >= t THEN h1 - t ELSE h1 - t + n
      /\ Count(n, h, t1) = IF h >= t1 THEN h - t1 ELSE h - t1 + n
    BY Zenon, <1>3, CountVal
<1>5. /\ h1 = t <=> Count(n, h, t) = n - 1
      /\ Count(n, h, t) # n - 1 => Count(n, h1, t) = Count(n, h, t) + 1
      /\ h # t => Count(n, h, t1) = Count(n, h, t) - 1
    BY <1>1, <1>2, <1>4
<1> QED BY Zenon, <1>5 DEF h1, t1

\* Queued counts the frames from queue_tail to queue_head.
LEMMA QueuedIs ==
    ASSUME QueueTyped
    PROVE  /\ Queued \in 0..(QUEUE_SLOTS - 1)
           /\ queue_head = At(QUEUE_SLOTS, queue_tail, Queued)
           /\ has_frame <=> Queued > 0
<1>1. QUEUE_SLOTS \in Nat \ {0}
    BY Zenon, Sizes
<1>2. queue_head \in 0..(QUEUE_SLOTS - 1) /\ queue_tail \in 0..(QUEUE_SLOTS - 1)
    BY Zenon DEF QueueTyped
<1>3. Queued = Count(QUEUE_SLOTS, queue_head, queue_tail)
    BY Zenon DEF Queued, Count
<1>4. /\ Queued \in 0..(QUEUE_SLOTS - 1)
      /\ queue_head = At(QUEUE_SLOTS, queue_tail, Queued)
      /\ Queued = 0 <=> queue_head = queue_tail
    <2> DEFINE c == Count(QUEUE_SLOTS, queue_head, queue_tail)
    <2>1. /\ c \in 0..(QUEUE_SLOTS - 1)
          /\ queue_head = At(QUEUE_SLOTS, queue_tail, c)
          /\ c = 0 <=> queue_head = queue_tail
        BY <1>1, <1>2, CountIs
    <2> QED BY Zenon, <1>3, <2>1
<1> QED BY <1>1, <1>4 DEF has_frame

\* What Complete counts.
LEMMA CompleteIs ==
    ASSUME NEW r \in Seq(Entries), NEW n \in 0..Len(r), IsComplete(r, n)
    PROVE  Complete(r) = n
BY DEF Complete, IsComplete

\* There is such a count, when only the last frame may be arriving.
LEMMA CompletePart ==
    ASSUME RxInv
    PROVE  \E n \in 0..Len(ring) : IsComplete(ring, n)
<1>1. ring \in Seq(Entries) /\ Arriving
    BY Zenon DEF RxInv, RxTyped
<1>2. CASE ring # << >> /\ ring[Len(ring)].st = "pending"
    <2>1. Len(ring) - 1 \in 0..Len(ring) /\ IsComplete(ring, Len(ring) - 1)
        BY <1>1, <1>2 DEF Arriving, IsComplete
    <2> QED BY Zenon, <2>1
<1>3. CASE ~(ring # << >> /\ ring[Len(ring)].st = "pending")
    <2>1. Len(ring) \in 0..Len(ring) /\ IsComplete(ring, Len(ring))
        BY <1>1, <1>3 DEF Arriving, IsComplete
    <2> QED BY Zenon, <2>1
<1> QED BY Zenon, <1>2, <1>3
-----------------------------------------------------------------------------
(* The ring, when a frame is added at its end or taken from its head.      *)

\* A distance is less than the ring.
LEMMA DistType ==
    ASSUME NEW b \in Offsets, NEW o \in Offsets
    PROVE  Dist(b, o) \in 0..(RX_RING_SIZE - 1)
BY Sizes DEF Dist, Offsets

\* The card's offset after a frame that fits is farther by its size.
LEMMA Advance ==
    ASSUME NEW b \in Offsets, NEW c \in Offsets, NEW s \in 1..(RX_RING_SIZE - 1),
           Dist(b, c) + s < RX_RING_SIZE
    PROVE  /\ (c + s) % RX_RING_SIZE \in Offsets
           /\ Dist(b, (c + s) % RX_RING_SIZE) = Dist(b, c) + s
<1>1. (c + s) % RX_RING_SIZE = IF c + s < RX_RING_SIZE THEN c + s ELSE c + s - RX_RING_SIZE
    BY Sizes, Sum DEF Offsets, At
<1> QED BY <1>1, Sizes DEF Dist, Offsets

\* Distances from the driver's offset after a frame was taken.
LEMMA Rebase ==
    ASSUME NEW b \in Offsets, NEW s \in 1..(RX_RING_SIZE - 1)
    PROVE  /\ RingNext(b, s) \in Offsets
           /\ \A o \in Offsets : Dist(b, o) = s => o = RingNext(b, s)
           /\ \A o \in Offsets : Dist(b, o) >= s => Dist(RingNext(b, s), o) = Dist(b, o) - s
BY Sizes DEF Dist, Offsets, RingNext

\* What an entry of the ring holds.
LEMMA EntryTyped ==
    ASSUME NEW e \in Entries
    PROVE  e.off \in Offsets /\ e.f \in Frames /\ e.f.size \in 1..(RX_RING_SIZE - 1)
BY Zenon, RtlAssumption DEF Entries

\* A frame added behind the last keeps the frames one behind the other,
LEMMA AddFrame ==
    ASSUME NEW r \in Seq(Entries), NEW b \in Offsets, NEW c \in Offsets, Lies(r, b, c),
           NEW e \in Entries, e.off = c, NEW d \in Offsets,
           Dist(b, d) = Dist(b, c) + e.f.size
    PROVE  Lies(Append(r, e), b, d)
<1> DEFINE q == Append(r, e)
<1>1. /\ q # << >> /\ Len(q) = Len(r) + 1 /\ Len(r) \in Nat
      /\ \A i \in 1..Len(r) : q[i] = r[i]
      /\ q[Len(r) + 1] = e
    OBVIOUS
<1>2. \A i \in 1..Len(r) : End(q, d, i) = End(r, c, i)
    BY <1>1 DEF End
<1>3. End(q, d, Len(r) + 1) = d
    BY <1>1 DEF End
<1>4. \A i \in 1..Len(r) : r[i] \in Entries
    OBVIOUS
<1>5. \A i \in 1..Len(r) : r[i].off \in Offsets
    BY Zenon, <1>4, EntryTyped
<1>6. Dist(b, c) \in Int /\ \A i \in 1..Len(r) : Dist(b, r[i].off) \in Int
    BY <1>5, DistType, Sizes
<1>7. e.f.size \in Nat \ {0}
    BY EntryTyped, Sizes
<1>8. Dist(b, d) \in Int /\ Dist(b, c) < Dist(b, d)
    BY <1>6, <1>7
<1> HIDE DEF q
<1>9. q[1].off = b
    BY <1>1 DEF Lies
<1>10. \A i \in 1..Len(q) : Dist(b, End(q, d, i)) = Dist(b, q[i].off) + q[i].f.size
    BY <1>1, <1>2, <1>3 DEF Lies
<1>11. \A i \in 1..Len(q) : Dist(b, q[i].off) < Dist(b, d)
    BY <1>1, <1>6, <1>8 DEF Lies
<1>12. \A i, j \in 1..Len(q) : i < j => Dist(b, q[i].off) < Dist(b, q[j].off)
    <2> SUFFICES ASSUME NEW i \in 1..Len(q), NEW j \in 1..Len(q), i < j
                 PROVE  Dist(b, q[i].off) < Dist(b, q[j].off)
        BY Zenon
    <2>1. i \in 1..Len(r) /\ q[i] = r[i]
        BY <1>1
    <2>2. CASE j = Len(r) + 1
        BY Zenon, <1>1, <2>1, <2>2 DEF Lies
    <2>3. CASE j # Len(r) + 1
        BY <1>1, <2>1, <2>3 DEF Lies
    <2> QED BY Zenon, <2>2, <2>3
<1>13. Lies(q, b, d)
    BY Zenon, <1>1, <1>9, <1>10, <1>11, <1>12 DEF Lies
<1> QED BY Zenon, <1>13 DEF q

\* A sequence is empty when its length is zero.
LEMMA NoEntries ==
    ASSUME NEW S, NEW s \in Seq(S)
    PROVE  s = << >> <=> Len(s) = 0
OBVIOUS

\* and so does taking the first.
LEMMA TakeFrame ==
    ASSUME NEW r \in Seq(Entries), r # << >>, NEW b \in Offsets, NEW c \in Offsets,
           Lies(r, b, c), NEW d, d = RingNext(b, r[1].f.size)
    PROVE  d \in Offsets /\ Lies(Tail(r), d, c)
<1> DEFINE q == Tail(r)
           z == r[1].f.size
<1>1. /\ \A i \in 1..Len(r) : r[i] \in Entries
      /\ Len(r) \in Nat \ {0}
    OBVIOUS
<1>2. /\ Len(q) = Len(r) - 1 /\ \A i \in 1..Len(q) : q[i] = r[i + 1]
      /\ q = << >> <=> Len(r) = 1
    <2>1. Len(q) = Len(r) - 1 /\ \A i \in 1..Len(q) : q[i] = r[i + 1]
        OBVIOUS
    <2>2. q \in Seq(Entries)
        OBVIOUS
    <2>3. q = << >> <=> Len(q) = 0
        BY Zenon, <2>2, NoEntries
    <2> QED BY <1>1, <2>1, <2>3
<1>3. /\ z \in 1..(RX_RING_SIZE - 1)
      /\ \A i \in 1..Len(r) : r[i].off \in Offsets /\ r[i].f.size \in 1..(RX_RING_SIZE - 1)
    BY <1>1, EntryTyped
<1>4. \A i \in 1..Len(r) : Dist(b, r[i].off) \in Int /\ Dist(b, c) \in Int
    BY <1>3, DistType, Sizes
<1>5. \A i \in 1..Len(r) : End(r, c, i) \in Offsets
    BY <1>1, <1>3 DEF End
<1>6. Dist(b, End(r, c, 1)) = z
    <2>1. r[1].off = b /\ Dist(b, b) = 0
        BY Sizes DEF Lies, Dist, Offsets
    <2>2. Dist(b, End(r, c, 1)) = Dist(b, r[1].off) + z
        BY <1>1 DEF Lies
    <2> QED BY <1>3, <2>1, <2>2
<1> HIDE DEF q, z
<1>7. /\ d \in Offsets /\ d = End(r, c, 1)
      /\ \A o \in Offsets : Dist(b, o) >= z => Dist(d, o) = Dist(b, o) - z
    <2>1. d = RingNext(b, z)
        BY Zenon DEF z
    <2>2. End(r, c, 1) \in Offsets
        BY <1>1, <1>5
    <2> QED BY <1>3, <1>6, <2>1, <2>2, Rebase
<1>8. \A i \in 1..Len(q) : End(q, c, i) = End(r, c, i + 1)
    BY <1>1, <1>2 DEF End
<1>9. ASSUME NEW i \in 1..Len(q)
      PROVE  Dist(b, q[i].off) >= z /\ Dist(d, q[i].off) = Dist(b, q[i].off) - z
    <2>1. q[i] = r[i + 1] /\ i + 1 \in 1..Len(r) /\ 2 \in 1..Len(r)
        BY <1>1, <1>2
    <2>2. Dist(b, r[2].off) = z
        BY <1>6, <2>1 DEF End
    <2>3. i + 1 = 2 \/ Dist(b, r[2].off) < Dist(b, r[i + 1].off)
        BY <2>1 DEF Lies
    <2>4. Dist(b, q[i].off) >= z
        BY <1>3, <1>4, <2>1, <2>2, <2>3
    <2> QED BY Zenon, <1>3, <1>7, <2>1, <2>4
<1>10. ASSUME q # << >>
       PROVE  Dist(b, c) >= z /\ Dist(d, c) = Dist(b, c) - z
    <2>1. 1 \in 1..Len(q) /\ q[1] = r[2] /\ 2 \in 1..Len(r)
        BY <1>1, <1>2, <1>10
    <2>2. Dist(b, r[2].off) < Dist(b, c) /\ Dist(b, r[2].off) >= z
        BY Zenon, <1>9, <2>1 DEF Lies
    <2>3. Dist(b, c) >= z
        BY <1>3, <1>4, <2>1, <2>2
    <2> QED BY Zenon, <1>7, <2>3
<1>11. ASSUME NEW i \in 1..Len(q)
       PROVE  Dist(d, End(q, c, i)) = Dist(d, q[i].off) + q[i].f.size
    <2>1. q[i] = r[i + 1] /\ i + 1 \in 1..Len(r)
        BY <1>1, <1>2
    <2>2. Dist(b, End(r, c, i + 1)) = Dist(b, q[i].off) + q[i].f.size
        BY Zenon, <2>1 DEF Lies
    <2>3. Dist(b, End(r, c, i + 1)) >= z
        BY <1>3, <1>4, <1>9, <2>1, <2>2
    <2>4. Dist(d, End(r, c, i + 1)) = Dist(b, End(r, c, i + 1)) - z
        BY Zenon, <1>5, <1>7, <2>1, <2>3
    <2>5. Dist(b, q[i].off) \in Int /\ z \in Int /\ q[i].f.size \in Int
        BY SMTT(30), <1>3, <1>4, <2>1
    <2>6. /\ Dist(d, q[i].off) = Dist(b, q[i].off) - z
          /\ End(q, c, i) = End(r, c, i + 1)
        BY Zenon, <1>8, <1>9
    <2> QED BY <2>2, <2>4, <2>5, <2>6
<1>12. ASSUME NEW i \in 1..Len(q)
       PROVE  Dist(d, q[i].off) < Dist(d, c)
    <2>1. q[i] = r[i + 1] /\ i + 1 \in 1..Len(r) /\ q # << >>
        BY <1>1, <1>2
    <2>2. Dist(b, q[i].off) < Dist(b, c)
        BY Zenon, <2>1 DEF Lies
    <2>3. Dist(b, q[i].off) \in Int /\ Dist(b, c) \in Int /\ z \in Int
        BY <1>3, <1>4, <2>1
    <2>4. Dist(d, q[i].off) = Dist(b, q[i].off) - z /\ Dist(d, c) = Dist(b, c) - z
        BY Zenon, <1>9, <1>10, <2>1
    <2> QED BY <2>2, <2>3, <2>4
<1>13. ASSUME NEW i \in 1..Len(q), NEW j \in 1..Len(q), i < j
       PROVE  Dist(d, q[i].off) < Dist(d, q[j].off)
    <2>1. /\ q[i] = r[i + 1] /\ i + 1 \in 1..Len(r)
          /\ q[j] = r[j + 1] /\ j + 1 \in 1..Len(r) /\ i + 1 < j + 1
        BY <1>1, <1>2, <1>13
    <2>2. Dist(b, q[i].off) < Dist(b, q[j].off)
        BY Zenon, <2>1 DEF Lies
    <2>3. Dist(b, q[i].off) \in Int /\ Dist(b, q[j].off) \in Int /\ z \in Int
        BY <1>3, <1>4, <2>1
    <2>4. /\ Dist(d, q[i].off) = Dist(b, q[i].off) - z
          /\ Dist(d, q[j].off) = Dist(b, q[j].off) - z
        BY Zenon, <1>9
    <2> QED BY <2>2, <2>3, <2>4
<1>14. (q = << >> => d = c) /\ (q # << >> => q[1].off = d)
    BY <1>1, <1>2, <1>7 DEF End
<1>15. Lies(q, d, c)
    BY Zenon, <1>11, <1>12, <1>13, <1>14 DEF Lies
<1> QED BY Zenon, <1>7, <1>15 DEF q
-----------------------------------------------------------------------------
(* What a step leaves alone keeps the part of the invariant about it.      *)

\* What the receiving side of the invariant does not read may change,
LEMMA SameRx ==
    ASSUME RxInv, UNCHANGED <<rxVars, isr, irqVars>>
    PROVE  RxInv'
BY Zenon DEF RxInv, RxTyped, Contiguous, Arriving, rxVars, irqVars

\* likewise for the queue,
LEMMA SameQueue ==
    ASSUME QueueInv, UNCHANGED <<irq, queueVars, receiver, slot>>
    PROVE  QueueInv'
BY Zenon DEF QueueInv, QueueTyped, Receiving, Queued, has_frame, queueVars

\* and for the sending side.
LEMMA SameTx ==
    ASSUME TxInv, UNCHANGED <<active, sendVars>>
    PROVE  TxInv'
BY Zenon DEF TxInv, TxTyped, Sending, Slots, sendVars
-----------------------------------------------------------------------------
(* The card.                                                               *)

\* The card begins to store a frame.
LEMMA BeginInv ==
    ASSUME IInv, NEW f \in Frames, card_begin(f)
    PROVE  IInv'
<1> DEFINE e == [off |-> cbr, st |-> "pending", f |-> f]
<1>1. /\ ring \in Seq(Entries) /\ cbr \in Offsets /\ rx_offset \in Offsets
      /\ e \in Entries /\ f.size \in Nat \ {0}
    BY RtlAssumption DEF IInv, RxInv, RxTyped, Entries
<1>2. /\ ring' \in Seq(Entries) /\ Len(ring') = Len(ring) + 1 /\ Len(ring) \in Nat
      /\ \A i \in 1..Len(ring) : ring'[i] = ring[i]
      /\ ring'[Len(ring) + 1] = e /\ rx_offset' = rx_offset
    BY <1>1 DEF card_begin
<1>3. RxInv'
    <2>1. Dist(rx_offset, cbr) + f.size < RX_RING_SIZE
        <3>1. Used(ring) = Dist(rx_offset, cbr)
            <4>1. CASE ring = << >>
                BY <1>1, <4>1 DEF IInv, RxInv, Contiguous, Lies, Used, Dist, Offsets
            <4>2. CASE ring # << >>
                <5>1. Used(ring) = (cbr - rx_offset + RX_RING_SIZE) % RX_RING_SIZE
                    BY Zenon, <4>2 DEF IInv, RxInv, Contiguous, Lies, Used
                <5> QED BY Zenon, <1>1, <5>1, Sizes, Difference DEF Dist, Offsets
            <4> QED BY Zenon, <4>1, <4>2
        <3> QED BY Zenon, <3>1 DEF card_begin
    <2>2. Contiguous' /\ cbr' \in Offsets
        <3>1. f.size \in 1..(RX_RING_SIZE - 1) /\ cbr' = (cbr + f.size) % RX_RING_SIZE
            BY Zenon, RtlAssumption DEF card_begin
        <3>2. cbr' \in Offsets /\ Dist(rx_offset, cbr') = Dist(rx_offset, cbr) + e.f.size
            BY Zenon, <1>1, <2>1, <3>1, Advance
        <3>3. Lies(ring, rx_offset, cbr) /\ ring' = Append(ring, e)
            BY Zenon DEF IInv, RxInv, Contiguous, card_begin
        <3>4. Lies(Append(ring, e), rx_offset, cbr')
            BY Zenon, <1>1, <3>2, <3>3, AddFrame
        <3> QED BY Zenon, <1>2, <3>2, <3>3, <3>4 DEF Contiguous
    <2>3. RxTyped'
        BY Zenon, <1>2, <2>2 DEF IInv, RxInv, RxTyped, card_begin, irqVars
    <2>4. Arriving'
        BY <1>1, <1>2 DEF Arriving, card_begin
    <2> QED BY Zenon, <2>2, <2>3, <2>4 DEF RxInv
<1>4. QueueInv' /\ TxInv'
    BY Zenon, SameQueue, SameTx DEF IInv, card_begin, irqVars, receiveVars
<1>5. Announced'
    <2>1. CASE ring = << >>
        BY <1>2, <2>1 DEF Announced
    <2>2. CASE ring # << >>
        BY <1>1, <1>2, <2>2 DEF IInv, Announced, card_begin, irqVars
    <2> QED BY Zenon, <2>1, <2>2
<1>6. Silent'
    BY Zenon DEF IInv, Silent, card_begin
<1> QED BY Zenon, <1>3, <1>4, <1>5, <1>6 DEF IInv

\* The card completes it, or marks it bad.
LEMMA CompleteInv ==
    ASSUME IInv, NEW st \in {"ok", "bad"}, card_complete(st)
    PROVE  IInv'
<1> DEFINE n == Len(ring)
<1>1. ring \in Seq(Entries) /\ n \in Nat \ {0} /\ \A i \in 1..n : ring[i] \in Entries
    BY DEF IInv, RxInv, RxTyped, card_complete
<1>2. /\ ring' \in Seq(Entries) /\ Len(ring') = n
      /\ \A i \in 1..n : /\ ring'[i].off = ring[i].off /\ ring'[i].f = ring[i].f
                         /\ ring'[i].st = IF i = n THEN st ELSE ring[i].st
    <2>1. ring' = [ring EXCEPT ![n] = [@ EXCEPT !.st = st]]
        BY Zenon DEF card_complete
    <2>2. [ring[n] EXCEPT !.st = st] \in Entries
        BY <1>1 DEF Entries
    <2>3. ring' \in Seq(Entries) /\ Len(ring') = n
        BY <1>1, <2>1, <2>2
    <2>4. \A i \in 1..n : ring'[i] = IF i = n THEN [ring[i] EXCEPT !.st = st] ELSE ring[i]
        BY <1>1, <2>1
    <2> QED BY Zenon, <1>1, <2>3, <2>4 DEF Entries
<1>3. ring[n].st = "pending" /\ UNCHANGED <<cbr, rx_offset, irqVars>> /\ "rx" \in isr'
    BY Zenon DEF card_complete
<1>4. RxInv'
    <2>1. Contiguous'
        <3>1. \A i \in 1..n : End(ring', cbr, i) = End(ring, cbr, i)
            BY <1>1, <1>2 DEF End
        <3>2. ring # << >> /\ ring' # << >> /\ 1 \in 1..n
            BY <1>1, <1>2
        <3>3. Lies(ring, rx_offset, cbr)
            BY Zenon DEF IInv, RxInv, Contiguous
        <3>4. Lies(ring', rx_offset, cbr)
            BY Zenon, <1>2, <3>1, <3>2, <3>3 DEF Lies
        <3> QED BY Zenon, <1>3, <3>4 DEF Contiguous
    <2>2. RxTyped'
        BY Zenon, <1>2, <1>3 DEF IInv, RxInv, RxTyped, card_complete, irqVars
    <2>3. Arriving'
        <3>1. \A i \in 1..(n - 1) : ring[i].st # "pending"
            BY Zenon DEF IInv, RxInv, Arriving
        <3>2. \A i \in 1..(n - 1) : i \in 1..n /\ i # n
            BY <1>1
        <3> QED BY Zenon, <1>2, <3>1, <3>2 DEF Arriving
    <2> QED BY Zenon, <2>1, <2>2, <2>3 DEF RxInv
<1>5. QueueInv' /\ TxInv'
    BY Zenon, SameQueue, SameTx DEF IInv, card_complete, irqVars, receiveVars
<1>6. Announced' /\ Silent'
    BY Zenon, <1>3 DEF IInv, Announced, Silent, card_complete
<1> QED BY Zenon, <1>4, <1>5, <1>6 DEF IInv

\* The card sends the oldest frame posted.
LEMMA SendInv ==
    ASSUME IInv, card_send
    PROVE  IInv'
<1> DEFINE n == Len(posted)
<1>0. TX_SLOTS \in Nat \ {0} /\ tx_cur \in 0..(TX_SLOTS - 1)
    BY Zenon, Sizes DEF IInv, TxInv, TxTyped
<1>1. /\ own \in [0..(TX_SLOTS - 1) -> BOOLEAN]
      /\ tx_buffers \in [0..(TX_SLOTS - 1) -> Senders \cup {NoFrame}]
      /\ posted \in Seq(Senders)
    BY Zenon, Sizes DEF IInv, TxInv, TxTyped
<1> USE DEF Slots
<1>2. n \in 1..TX_SLOTS
    <2>1. At(TX_SLOTS, tx_cur, 0) = tx_cur /\ 0 \in 0..(TX_SLOTS - 1)
        BY <1>0, AtRange
    <2>2. n # 0
        BY <1>0, <2>1 DEF IInv, TxInv, card_send
    <2> QED BY <1>0, <1>1, <2>2 DEF IInv, TxInv
<1>3. /\ posted' \in Seq(Senders) /\ Len(posted') = n - 1
      /\ \A i \in 1..(n - 1) : posted'[i] = posted[i + 1]
    BY <1>1, <1>2 DEF card_send
<1>4. tx_cur' = At(TX_SLOTS, tx_cur, 1) /\ tx_cur' \in 0..(TX_SLOTS - 1)
    <2>1. tx_cur' = (tx_cur + 1) % TX_SLOTS /\ 1 \in 0..TX_SLOTS
        BY <1>0 DEF card_send
    <2> QED BY <1>0, <2>1, Next1, AtRange
<1>5. \A k \in 0..(TX_SLOTS - 1) : At(TX_SLOTS, tx_cur', k) = At(TX_SLOTS, tx_cur, k + 1)
    BY <1>0, <1>4, AtRange
<1>6. Slots'
    <2>1. tx_next' = At(TX_SLOTS, tx_cur', n - 1)
        <3>1. n - 1 \in 0..(TX_SLOTS - 1) /\ n - 1 + 1 = n /\ tx_next' = tx_next
            BY <1>0, <1>2 DEF card_send
        <3> QED BY Zenon, <1>5, <3>1 DEF IInv, TxInv
    <2>2. ASSUME NEW k \in 0..(TX_SLOTS - 1)
          PROVE  LET s == At(TX_SLOTS, tx_cur', k)
                 IN  /\ own'[s] <=> k >= n - 1
                     /\ k < n - 1 => tx_buffers'[s] = posted'[k + 1]
        <3>1. CASE k = TX_SLOTS - 1
            <4>1. At(TX_SLOTS, tx_cur', k) = tx_cur /\ k >= n - 1
                BY <1>0, <1>2, <1>5, <3>1, AtRange
            <4> QED BY <1>0, <1>1, <1>2, <4>1 DEF card_send
        <3>2. CASE k # TX_SLOTS - 1
            <4>1. k + 1 \in 1..(TX_SLOTS - 1) /\ At(TX_SLOTS, tx_cur', k) = At(TX_SLOTS, tx_cur, k + 1)
                BY <1>0, <1>5, <3>2
            <4>2. At(TX_SLOTS, tx_cur, k + 1) # tx_cur /\ At(TX_SLOTS, tx_cur, k + 1) \in 0..(TX_SLOTS - 1)
                BY <1>0, <4>1, AtRange
            <4> DEFINE s == At(TX_SLOTS, tx_cur, k + 1)
            <4>3. own'[s] = own[s] /\ tx_buffers'[s] = tx_buffers[s]
                BY Zenon, <1>1, <4>2 DEF card_send
            <4>4. /\ own[s] <=> k + 1 >= n
                  /\ k + 1 < n => tx_buffers[s] = posted[k + 2]
                BY <1>0, <4>1 DEF IInv, TxInv
            <4>5. /\ k + 1 >= n <=> k >= n - 1
                  /\ k + 1 < n <=> k < n - 1
                  /\ k < n - 1 => k + 1 \in 1..(n - 1) /\ k + 1 + 1 = k + 2
                BY <1>0, <1>2
            <4>6. k < n - 1 => posted'[k + 1] = posted[k + 2]
                BY Zenon, <1>3, <4>5
            <4> QED BY Zenon, <4>1, <4>3, <4>4, <4>5, <4>6
        <3> QED BY Zenon, <3>1, <3>2
    <2>3. Len(posted') <= TX_SLOTS
        BY <1>0, <1>2, <1>3
    <2> QED BY Zenon, <1>3, <2>1, <2>2, <2>3
<1>7. TxTyped' /\ Sending'
    BY Zenon, <1>1, <1>3, <1>4 DEF IInv, TxInv, TxTyped, Sending, card_send
<1>8. RxInv'
    BY Zenon DEF IInv, RxInv, RxTyped, Contiguous, Arriving, rxVars, irqVars, card_send
<1>9. QueueInv' /\ Announced'
    BY Zenon, SameQueue DEF IInv, Announced, card_send, irqVars, rxVars, receiveVars
<1>10. Silent'
    BY Zenon DEF IInv, Silent, card_send, TxInv, TxTyped
<1> QED BY Zenon, <1>6, <1>7, <1>8, <1>9, <1>10 DEF IInv, TxInv
-----------------------------------------------------------------------------
(* The interrupt handler.                                                  *)

\* The processor enters interrupt_handler.
LEMMA InterruptInv ==
    ASSUME IInv, interrupt
    PROVE  IInv'
<1>1. RxInv'
    BY Zenon DEF IInv, RxInv, RxTyped, Contiguous, Arriving, rxVars, interrupt
<1>2. QueueInv'
    BY Zenon DEF IInv, QueueInv, QueueTyped, Receiving, Queued, has_frame, queueVars, receiveVars, interrupt
<1>3. TxInv'
    BY Zenon, SameTx DEF IInv, interrupt
<1>4. Announced' /\ Silent'
    BY Zenon DEF IInv, Announced, Silent, rxVars, interrupt
<1> QED BY Zenon, <1>1, <1>2, <1>3, <1>4 DEF IInv

\* The handler reads and acknowledges the status.
LEMMA AcknowledgeInv ==
    ASSUME IInv, acknowledge
    PROVE  IInv'
<1>1. RxInv'
    BY Zenon DEF IInv, RxInv, RxTyped, Contiguous, Arriving, rxVars, acknowledge, Acknowledged
<1>2. QueueInv'
    BY Zenon DEF IInv, QueueInv, QueueTyped, Receiving, Queued, has_frame, queueVars, receiveVars, acknowledge
<1>3. TxInv'
    BY Zenon, SameTx DEF IInv, acknowledge
<1>4. Announced' /\ Silent'
    BY Zenon DEF IInv, Announced, Silent, rxVars, acknowledge, Acknowledged
<1> QED BY Zenon, <1>1, <1>2, <1>3, <1>4 DEF IInv

\* The handler wakes the receiver and returns.
LEMMA WakeInv ==
    ASSUME IInv, wake
    PROVE  IInv'
<1>1. RxInv'
    BY Zenon DEF IInv, RxInv, RxTyped, Contiguous, Arriving, rxVars, wake
<1>2. QueueInv'
    BY Zenon DEF IInv, QueueInv, QueueTyped, Receiving, Queued, has_frame, queueVars, wake, WakeNeeded
<1>3. TxInv'
    BY Zenon, SameTx DEF IInv, wake
<1>4. Announced' /\ Silent'
    BY Zenon DEF IInv, Announced, Silent, rxVars, wake
<1> QED BY Zenon, <1>1, <1>2, <1>3, <1>4 DEF IInv

\* The driver reads the first frame of the ring.
LEMMA AtHead ==
    ASSUME RxInv, ring # << >>
    PROVE  AtOffset = ring[1] /\ 1 \in 1..Len(ring) /\ ring[1] \in Entries
<1>1. ring \in Seq(Entries) /\ 1 \in 1..Len(ring) /\ Len(ring) \in Nat
    BY DEF RxInv, RxTyped
<1>2. ring[1].off = rx_offset
    BY Zenon DEF RxInv, Contiguous, Lies
<1>3. \A i \in 1..Len(ring) : ring[i].off = rx_offset => i = 1
    <2> SUFFICES ASSUME NEW i \in 1..Len(ring), ring[i].off = rx_offset, i # 1
                 PROVE  FALSE
        BY Zenon
    <2>0. 1 < i
        BY <1>1
    <2>1. Dist(rx_offset, ring[1].off) < Dist(rx_offset, ring[i].off)
        BY Zenon, <1>1, <2>0 DEF RxInv, Contiguous, Lies
    <2>2. Dist(rx_offset, rx_offset) \in Int
        BY DistType, Sizes DEF RxInv, RxTyped
    <2> QED BY <1>2, <2>1, <2>2
<1>4. DOMAIN ring = 1..Len(ring)
    BY <1>1
<1>5. (CHOOSE i \in DOMAIN ring : ring[i].off = rx_offset) = 1
    BY Zenon, <1>1, <1>2, <1>3, <1>4
<1>6. \E i \in DOMAIN ring : ring[i].off = rx_offset
    BY Zenon, <1>1, <1>2, <1>4
<1>7. AtOffset = ring[1]
    BY Zenon, <1>5, <1>6 DEF AtOffset
<1> QED BY <1>1, <1>7

\* enqueue drops the frame, or puts it behind the others.
LEMMA EnqueueDoes ==
    ASSUME QueueTyped, NEW f \in Frames, enqueue(f)
    PROVE  /\ queue' \in [0..(QUEUE_SLOTS - 1) -> Frames \cup {NoFrame}]
           /\ queue_head' \in 0..(QUEUE_SLOTS - 1) /\ queue_tail' = queue_tail
           /\ \/ /\ Queued = QUEUE_SLOTS - 1 /\ UNCHANGED queueVars /\ Queued' = Queued
              \/ /\ Queued < QUEUE_SLOTS - 1 /\ Queued' = Queued + 1
                 /\ queue'[At(QUEUE_SLOTS, queue_tail, Queued)] = f
                 /\ \A k \in 0..(QUEUE_SLOTS - 1) :
                       k # Queued => queue'[At(QUEUE_SLOTS, queue_tail, k)] = queue[At(QUEUE_SLOTS, queue_tail, k)]
<1>1. /\ QUEUE_SLOTS \in Nat \ {0}
      /\ queue_head \in 0..(QUEUE_SLOTS - 1) /\ queue_tail \in 0..(QUEUE_SLOTS - 1)
    BY Zenon, Sizes DEF QueueTyped
<1>2. queue \in [0..(QUEUE_SLOTS - 1) -> Frames \cup {NoFrame}]
    BY Zenon DEF QueueTyped
<1>3. /\ Queued = Count(QUEUE_SLOTS, queue_head, queue_tail)
      /\ Queued' = Count(QUEUE_SLOTS, queue_head', queue_tail')
    BY Zenon DEF Queued, Count
<1>4. Queued \in 0..(QUEUE_SLOTS - 1) /\ queue_head = At(QUEUE_SLOTS, queue_tail, Queued)
    BY Zenon, QueuedIs
<1>5. QueueFull <=> Queued = QUEUE_SLOTS - 1
    BY Zenon, <1>1, <1>3, CountMoves DEF QueueFull
<1>6. CASE QueueFull
    BY Zenon, <1>1, <1>2, <1>3, <1>5, <1>6 DEF enqueue, queueVars
<1>7. CASE ~QueueFull
    <2>1. /\ queue' = [queue EXCEPT ![queue_head] = f]
          /\ queue_head' = (queue_head + 1) % QUEUE_SLOTS /\ queue_tail' = queue_tail
        BY Zenon, <1>7 DEF enqueue
    <2>2. queue_head' \in 0..(QUEUE_SLOTS - 1)
        BY <1>1, <2>1
    <2>3. Queued < QUEUE_SLOTS - 1 /\ Queued' = Queued + 1
        BY <1>1, <1>3, <1>4, <1>5, <1>7, <2>1, CountMoves
    <2>4. \A k \in 0..(QUEUE_SLOTS - 1) : k # Queued => /\ At(QUEUE_SLOTS, queue_tail, k) # queue_head
                                                        /\ At(QUEUE_SLOTS, queue_tail, k) \in 0..(QUEUE_SLOTS - 1)
        <3>1. /\ \A k \in 0..QUEUE_SLOTS : At(QUEUE_SLOTS, queue_tail, k) \in 0..(QUEUE_SLOTS - 1)
              /\ \A k, m \in 0..(QUEUE_SLOTS - 1) :
                    At(QUEUE_SLOTS, queue_tail, k) = At(QUEUE_SLOTS, queue_tail, m) => k = m
            BY <1>1, AtRange
        <3>2. \A k \in 0..(QUEUE_SLOTS - 1) : k \in 0..QUEUE_SLOTS
            BY <1>1
        <3> QED BY Zenon, <1>4, <3>1, <3>2
    <2>5. /\ queue'[queue_head] = f /\ queue' \in [0..(QUEUE_SLOTS - 1) -> Frames \cup {NoFrame}]
          /\ \A x \in 0..(QUEUE_SLOTS - 1) : x # queue_head => queue'[x] = queue[x]
        BY Zenon, <1>1, <1>2, <2>1
    <2> QED BY Zenon, <1>4, <2>1, <2>2, <2>3, <2>4, <2>5
<1> QED BY Zenon, <1>6, <1>7

\* It leaves the first frame where it is, and puts only frames in the queue.
LEMMA EnqueueKeeps ==
    ASSUME QueueTyped, NEW f \in Frames, enqueue(f)
    PROVE  /\ has_frame => has_frame' /\ queue'[queue_tail'] = queue[queue_tail]
           /\ (\A k \in 0..(QUEUE_SLOTS - 1) :
                  k < Queued => queue[At(QUEUE_SLOTS, queue_tail, k)] \in Frames)
              => \A k \in 0..(QUEUE_SLOTS - 1) :
                    k < Queued' => queue'[At(QUEUE_SLOTS, queue_tail', k)] \in Frames
<1>1. QUEUE_SLOTS \in Nat \ {0} /\ Queued \in 0..(QUEUE_SLOTS - 1) /\ (has_frame <=> Queued > 0)
    BY Zenon, Sizes, QueuedIs
<1>2. queue_tail \in 0..(QUEUE_SLOTS - 1) /\ queue_head' \in 0..(QUEUE_SLOTS - 1) /\ queue_tail' = queue_tail
    BY Zenon, EnqueueDoes DEF QueueTyped
<1>3. has_frame' <=> Queued' # 0
    <2>1. Queued' = Count(QUEUE_SLOTS, queue_head', queue_tail')
        BY Zenon DEF Queued, Count
    <2>2. Count(QUEUE_SLOTS, queue_head', queue_tail) = 0 <=> queue_head' = queue_tail
        BY <1>1, <1>2, CountIs
    <2> QED BY Zenon, <1>2, <2>1, <2>2 DEF has_frame
<1>4. CASE Queued = QUEUE_SLOTS - 1 /\ UNCHANGED queueVars /\ Queued' = Queued
    BY <1>1, <1>3, <1>4 DEF queueVars
<1>5. CASE /\ Queued < QUEUE_SLOTS - 1 /\ Queued' = Queued + 1
           /\ queue'[At(QUEUE_SLOTS, queue_tail, Queued)] = f
           /\ \A k \in 0..(QUEUE_SLOTS - 1) :
                 k # Queued => queue'[At(QUEUE_SLOTS, queue_tail, k)] = queue[At(QUEUE_SLOTS, queue_tail, k)]
    <2>1. At(QUEUE_SLOTS, queue_tail, 0) = queue_tail /\ 0 \in 0..(QUEUE_SLOTS - 1)
        BY <1>1, <1>2, AtRange
    <2>2. has_frame => has_frame' /\ queue'[queue_tail'] = queue[queue_tail]
        BY <1>1, <1>2, <1>3, <1>5, <2>1
    <2> QED BY <1>1, <1>2, <1>5, <2>2
<1> QED BY Zenon, <1>4, <1>5, EnqueueDoes

\* The three outcomes of a turn of drain, read at the head of the ring.
LEMMA DrainCases ==
    ASSUME RxInv, drain
    PROVE  \/ /\ ring = << >> \/ ring[1].st = "pending"
              /\ irq' = "wake" /\ UNCHANGED <<rxVars, queueVars>>
           \/ /\ ring # << >> /\ ring[1].st = "bad"
              /\ irq' = "wake" /\ rx_restart /\ UNCHANGED queueVars
           \/ /\ ring # << >> /\ ring[1].st = "ok"
              /\ enqueue(ring[1].f) /\ ring' = Tail(ring)
              /\ rx_offset' = RingNext(rx_offset, ring[1].f.size)
              /\ UNCHANGED <<cbr, irq>>
<1>1. CASE ring = << >>
    BY Zenon, <1>1 DEF drain
<1>2. CASE ring # << >>
    <2>1. AtOffset = ring[1] /\ ring[1].st \in {"ok", "bad", "pending"}
        BY Zenon, <1>2, AtHead DEF Entries
    <2>2. CASE ring[1].st = "pending"
        BY Zenon, <1>2, <2>1, <2>2 DEF drain
    <2>3. CASE ring[1].st = "bad"
        BY Zenon, <1>2, <2>1, <2>3 DEF drain
    <2>4. CASE ring[1].st = "ok"
        BY Zenon, <1>2, <2>1, <2>4 DEF drain
    <2> QED BY Zenon, <2>1, <2>2, <2>3, <2>4
<1> QED BY Zenon, <1>1, <1>2

\* The ring without its first, complete frame.
LEMMA TailComplete ==
    ASSUME NEW r \in Seq(Entries), r # << >>, r[1].st = "ok", NEW n \in 0..Len(r), IsComplete(r, n)
    PROVE  n \in 1..Len(r) /\ IsComplete(Tail(r), n - 1)
<1>1. /\ Len(r) \in Nat \ {0} /\ Len(Tail(r)) = Len(r) - 1
      /\ \A i \in 1..Len(Tail(r)) : Tail(r)[i] = r[i + 1]
    OBVIOUS
<1>2. n # 0
    <2>1. SUFFICES ASSUME n = 0 PROVE FALSE
        BY Zenon
    <2>2. 0 < Len(r) /\ 0 + 1 = 1
        BY <1>1
    <2>3. r[1].st = "pending"
        BY Zenon, <2>1, <2>2 DEF IsComplete
    <2> QED BY Zenon, <2>3
<1>3. n \in 1..Len(r) /\ n - 1 \in Nat
    BY <1>1, <1>2
<1>4. ASSUME NEW i \in 1..(n - 1) PROVE Tail(r)[i].st # "pending"
    <2>1. i \in 1..Len(Tail(r)) /\ i + 1 \in 1..n
        BY <1>1, <1>3
    <2> QED BY Zenon, <1>1, <2>1 DEF IsComplete
<1>5. ASSUME n - 1 < Len(Tail(r))
      PROVE  (n - 1) + 1 = Len(Tail(r)) /\ Tail(r)[(n - 1) + 1].st = "pending"
    <2>1. n < Len(r) /\ (n - 1) + 1 = n /\ n \in 1..Len(Tail(r))
        BY <1>1, <1>3, <1>5
    <2>2. n + 1 = Len(r)
        BY Zenon, <2>1 DEF IsComplete
    <2>3. r[n + 1].st = "pending"
        BY Zenon, <2>1 DEF IsComplete
    <2>4. (n + 1) - 1 = n
        BY <1>3
    <2>5. n = Len(Tail(r))
        BY Zenon, <1>1, <2>2, <2>4
    <2> QED BY Zenon, <1>1, <2>1, <2>3, <2>5
<1> QED BY Zenon, <1>3, <1>4, <1>5 DEF IsComplete

\* An empty ring, as rtl8139_init and a restart leave it.
LEMMA EmptyRing ==
    /\ Lies(<< >>, 0, 0) /\ IsComplete(<< >>, 0) /\ << >> \in Seq(Entries) /\ 0 \in Offsets
BY Sizes DEF Lies, IsComplete, Offsets

\* drain takes a frame, drops it, restarts the receiver or finds nothing.
LEMMA DrainInv ==
    ASSUME IInv, drain
    PROVE  IInv'
<1>1. UNCHANGED <<active, isr, status, receiveVars, sendVars>> /\ irq = "drain"
    BY Zenon DEF drain
<1>2. TxInv' /\ Silent'
    BY Zenon, <1>1, SameTx DEF IInv, Silent
<1>3. RxInv /\ QueueInv
    BY Zenon DEF IInv
<1>4. CASE /\ ring = << >> \/ ring[1].st = "pending"
           /\ irq' = "wake" /\ UNCHANGED <<rxVars, queueVars>>
    <2>1. RxInv'
        BY Zenon, <1>1, <1>3, <1>4 DEF RxInv, RxTyped, Contiguous, Arriving, rxVars
    <2>2. QueueInv'
        BY Zenon, <1>1, <1>3, <1>4 DEF QueueInv, QueueTyped, Receiving, Queued, has_frame, queueVars, receiveVars
    <2>3. Announced'
        BY Zenon, <1>4 DEF Announced, rxVars
    <2> QED BY Zenon, <1>2, <2>1, <2>2, <2>3 DEF IInv
<1>5. CASE /\ ring # << >> /\ ring[1].st = "bad"
           /\ irq' = "wake" /\ rx_restart /\ UNCHANGED queueVars
    <2>1. ring' = << >> /\ cbr' = 0 /\ rx_offset' = 0
        BY Zenon, <1>5 DEF rx_restart
    <2>2. Contiguous' /\ Arriving' /\ Announced'
        BY <2>1, EmptyRing DEF Contiguous, Arriving, Announced
    <2>3. RxTyped'
        BY Zenon, <1>1, <1>3, <1>5, <2>1, EmptyRing DEF RxInv, RxTyped
    <2>4. QueueInv'
        BY Zenon, <1>1, <1>3, <1>5 DEF QueueInv, QueueTyped, Receiving, Queued, has_frame, queueVars, receiveVars
    <2> QED BY Zenon, <1>2, <2>2, <2>3, <2>4 DEF IInv, RxInv
<1>6. CASE /\ ring # << >> /\ ring[1].st = "ok"
           /\ enqueue(ring[1].f) /\ ring' = Tail(ring)
           /\ rx_offset' = RingNext(rx_offset, ring[1].f.size)
           /\ UNCHANGED <<cbr, irq>>
    <2> DEFINE f == ring[1].f
    <2>1. f \in Frames /\ ring \in Seq(Entries)
        BY Zenon, <1>3, <1>6, AtHead, EntryTyped DEF RxInv, RxTyped
    <2>2. RxInv'
        <3>1. rx_offset' \in Offsets /\ Contiguous'
            BY Zenon, <1>3, <1>6, TakeFrame DEF RxInv, RxTyped, Contiguous
        <3>2. ring' \in Seq(Entries) /\ Len(ring') = Len(ring) - 1 /\ Len(ring) \in Nat \ {0}
            BY <1>6, <2>1
        <3>3. Arriving'
            BY <1>3, <1>6, <2>1, <3>2 DEF RxInv, Arriving
        <3>4. RxTyped'
            BY Zenon, <1>1, <1>3, <1>6, <3>1, <3>2 DEF RxInv, RxTyped
        <3> QED BY Zenon, <3>1, <3>3, <3>4 DEF RxInv
    <2>3. QueueInv'
        <3>1. QueueTyped'
            BY Zenon, <1>1, <1>3, <1>6, <2>1, EnqueueDoes DEF QueueInv, QueueTyped, receiveVars
        <3>2. Receiving'
            <4>1. irq' = "drain" /\ receiver' = receiver /\ slot' = slot
                BY Zenon, <1>1, <1>6 DEF receiveVars
            <4>2. has_frame => has_frame' /\ queue'[queue_tail'] = queue[queue_tail]
                BY Zenon, <1>3, <1>6, <2>1, EnqueueKeeps DEF QueueInv
            <4>3. \A k \in 0..(QUEUE_SLOTS - 1) :
                     k < Queued' => queue'[At(QUEUE_SLOTS, queue_tail', k)] \in Frames
                BY Zenon, <1>3, <1>6, <2>1, EnqueueKeeps DEF QueueInv, Receiving
            <4> QED BY Zenon, <1>3, <4>1, <4>2, <4>3 DEF QueueInv, Receiving
        <3> QED BY Zenon, <3>1, <3>2 DEF QueueInv
    <2>4. Announced'
        BY Zenon, <1>1, <1>6 DEF Announced
    <2> QED BY Zenon, <1>2, <2>2, <2>3, <2>4 DEF IInv
<1> QED BY Zenon, <1>3, <1>4, <1>5, <1>6, DrainCases
-----------------------------------------------------------------------------
(* rtl8139_init and rtl8139_receive.                                       *)

\* rtl8139_init.
LEMMA InitInv ==
    ASSUME IInv, rtl8139_init
    PROVE  IInv'
<1>1. /\ ring = << >> /\ cbr = 0 /\ rx_offset = 0
      /\ queue_head = 0 /\ queue_tail = 0 /\ receiver = "call"
      /\ tx_next = 0 /\ tx_cur = 0
    BY Zenon DEF IInv, Silent, rtl8139_init
<1>2. UNCHANGED <<rxVars, isr, irqVars, queueVars, receiver, slot>>
    BY Zenon, <1>1 DEF rtl8139_init, rx_restart, rxVars, irqVars, queueVars, receiveVars
<1>3. own' = own
    BY Zenon DEF IInv, Silent, TxInv, TxTyped, rtl8139_init
<1>4. RxInv' /\ QueueInv'
    BY Zenon, <1>2, SameRx, SameQueue DEF IInv, irqVars
<1>5. TxInv'
    BY ZenonT(60), <1>1, <1>3 DEF IInv, TxInv, TxTyped, Sending, Slots, rtl8139_init
<1>6. Announced' /\ Silent'
    BY Zenon, <1>2 DEF IInv, Announced, Silent, rtl8139_init, rxVars, irqVars
<1> QED BY Zenon, <1>4, <1>5, <1>6 DEF IInv

\* With a frame queued, queue_tail is at one.
LEMMA FirstFrame ==
    ASSUME QueueInv, has_frame
    PROVE  queue[queue_tail] \in Frames
<1>1. QUEUE_SLOTS \in Nat \ {0} /\ queue_tail \in 0..(QUEUE_SLOTS - 1) /\ Queued > 0
    BY Zenon, Sizes, QueuedIs DEF QueueInv, QueueTyped
<1>2. At(QUEUE_SLOTS, queue_tail, 0) = queue_tail /\ 0 \in 0..(QUEUE_SLOTS - 1) /\ 0 < Queued
    BY <1>1, AtRange
<1> QED BY Zenon, <1>2 DEF QueueInv, Receiving

\* rtl8139_receive up to the end of its copy.
LEMMA ReceiveInv ==
    ASSUME IInv, receive_wait \/ receive_timeout \/ receive_copy
    PROVE  IInv'
<1>1. UNCHANGED <<active, rxVars, isr, irqVars, queueVars, sendVars>> /\ irq = "off"
    BY Zenon DEF receive_wait, receive_timeout, receive_copy
<1>2. RxInv' /\ TxInv'
    BY Zenon, <1>1, SameRx, SameTx DEF IInv
<1>3. Announced'
    BY Zenon, <1>1 DEF IInv, Announced, rxVars, irqVars
<1>4. Silent'
    BY Zenon, <1>1 DEF IInv, Silent, rxVars, irqVars, queueVars, sendVars, receive_wait, receive_timeout, receive_copy
<1>5. QueueInv'
    <2>1. UNCHANGED <<queue, queue_head, queue_tail, irq, has_frame, Queued>>
        BY Zenon, <1>1 DEF queueVars, irqVars, has_frame, Queued
    <2>2. CASE receive_wait
        BY Zenon, <2>1, <2>2 DEF IInv, QueueInv, QueueTyped, Receiving, receive_wait
    <2>3. CASE receive_timeout
        BY Zenon, <2>1, <2>3 DEF IInv, QueueInv, QueueTyped, Receiving, receive_timeout
    <2>4. CASE receive_copy
        <3>1. receiver \in {"size", "data"} /\ queue[queue_tail] \in Frames
            BY Zenon, <2>4, FirstFrame DEF IInv, receive_copy, QueueInv, Receiving
        <3>2. CASE receiver = "size"
            BY Zenon, <2>1, <2>4, <3>2 DEF IInv, QueueInv, QueueTyped, Receiving, receive_copy
        <3>3. CASE receiver = "data"
            <4>1. slot = [size |-> Clip(queue[queue_tail].size), data |-> NULL]
                BY Zenon, <3>3 DEF IInv, QueueInv, Receiving
            <4>2. slot' = [slot EXCEPT !.data = queue[queue_tail].data] /\ receiver' = "advance"
                BY Zenon, <2>4, <3>3 DEF receive_copy
            <4>3. slot' = [size |-> Clip(queue[queue_tail].size), data |-> queue[queue_tail].data]
                BY Zenon, <4>1, <4>2
            <4>4. slot' = Fifo!Cut(queue'[queue_tail'])
                BY Zenon, <2>1, <4>3 DEF Clip, Fifo!Cut
            <4> QED BY Zenon, <2>1, <3>3, <4>2, <4>4 DEF IInv, QueueInv, QueueTyped, Receiving
        <3> QED BY Zenon, <3>1, <3>2, <3>3
    <2> QED BY Zenon, <1>1, <2>2, <2>3, <2>4
<1> QED BY Zenon, <1>2, <1>3, <1>4, <1>5 DEF IInv

\* The first frame leaves the queue; the others move up.
LEMMA AdvanceDoes ==
    ASSUME QueueInv, receive_advance
    PROVE  /\ Queued \in 1..(QUEUE_SLOTS - 1) /\ Queued' = Queued - 1
           /\ queue_tail' \in 0..(QUEUE_SLOTS - 1)
           /\ queue' \in [0..(QUEUE_SLOTS - 1) -> Frames \cup {NoFrame}]
           /\ \A k \in 0..(QUEUE_SLOTS - 2) :
                 queue'[At(QUEUE_SLOTS, queue_tail', k)] = queue[At(QUEUE_SLOTS, queue_tail, k + 1)]
<1>1. /\ QUEUE_SLOTS \in Nat \ {0}
      /\ queue_head \in 0..(QUEUE_SLOTS - 1) /\ queue_tail \in 0..(QUEUE_SLOTS - 1)
    BY Zenon, Sizes DEF QueueInv, QueueTyped
<1>2. queue_head # queue_tail /\ Queued \in 1..(QUEUE_SLOTS - 1)
    <2>1. has_frame
        BY Zenon DEF QueueInv, Receiving, receive_advance
    <2> QED BY <1>1, <2>1, QueuedIs DEF QueueInv, has_frame
<1>3. queue_tail' = At(QUEUE_SLOTS, queue_tail, 1) /\ queue_tail' \in 0..(QUEUE_SLOTS - 1)
    <2>1. queue_tail' = (queue_tail + 1) % QUEUE_SLOTS
        BY Zenon DEF receive_advance
    <2> QED BY <1>1, <2>1 DEF At
<1>4. Queued' = Queued - 1
    <2>1. Count(QUEUE_SLOTS, queue_head, (queue_tail + 1) % QUEUE_SLOTS) = Count(QUEUE_SLOTS, queue_head, queue_tail) - 1
        BY Zenon, <1>1, <1>2, CountMoves
    <2>2. Queued' = Count(QUEUE_SLOTS, queue_head, (queue_tail + 1) % QUEUE_SLOTS)
        BY Zenon DEF Queued, Count, receive_advance
    <2>3. Queued = Count(QUEUE_SLOTS, queue_head, queue_tail)
        BY Zenon DEF Queued, Count
    <2> QED BY Zenon, <2>1, <2>2, <2>3
<1>5. queue' = [queue EXCEPT ![queue_tail] = NoFrame] /\ queue \in [0..(QUEUE_SLOTS - 1) -> Frames \cup {NoFrame}]
    BY Zenon DEF QueueInv, QueueTyped, receive_advance
<1>6. ASSUME NEW k \in 0..(QUEUE_SLOTS - 2)
      PROVE  queue'[At(QUEUE_SLOTS, queue_tail', k)] = queue[At(QUEUE_SLOTS, queue_tail, k + 1)]
    <2>1. k \in 0..(QUEUE_SLOTS - 1) /\ k + 1 \in 0..(QUEUE_SLOTS - 1) /\ k + 1 \in 0..QUEUE_SLOTS /\ k + 1 # 0
          /\ 0 \in 0..(QUEUE_SLOTS - 1)
        BY <1>1
    <2>2. At(QUEUE_SLOTS, queue_tail', k) = At(QUEUE_SLOTS, queue_tail, k + 1)
        BY <1>1, <1>3, <2>1, AtRange
    <2>3. /\ At(QUEUE_SLOTS, queue_tail, k + 1) \in 0..(QUEUE_SLOTS - 1)
          /\ At(QUEUE_SLOTS, queue_tail, k + 1) # queue_tail
        BY <1>1, <2>1, AtRange
    <2> QED BY Zenon, <1>5, <2>2, <2>3
<1> QED BY Zenon, <1>2, <1>3, <1>4, <1>5, <1>6

\* rtl8139_receive moves queue_tail on and returns.
LEMMA AdvanceInv ==
    ASSUME IInv, receive_advance
    PROVE  IInv'
<1>1. RxInv' /\ TxInv'
    BY Zenon, SameRx, SameTx DEF IInv, receive_advance
<1>2. Announced'
    BY Zenon DEF IInv, Announced, receive_advance, rxVars, irqVars
<1>3. Silent'
    BY Zenon DEF IInv, Silent, receive_advance
<1>4. QueueInv'
    <2>1. QueueInv /\ QUEUE_SLOTS \in Nat \ {0}
        BY Zenon, Sizes DEF IInv
    <2>2. QueueTyped'
        BY Zenon, <2>1, AdvanceDoes DEF QueueInv, QueueTyped, receive_advance
    <2>3. ASSUME NEW k \in 0..(QUEUE_SLOTS - 1), k < Queued'
          PROVE  queue'[At(QUEUE_SLOTS, queue_tail', k)] \in Frames
        <3>1. k \in 0..(QUEUE_SLOTS - 2) /\ k + 1 \in 0..(QUEUE_SLOTS - 1) /\ k + 1 < Queued
            BY <2>1, <2>3, AdvanceDoes
        <3>2. queue[At(QUEUE_SLOTS, queue_tail, k + 1)] \in Frames
            BY Zenon, <2>1, <3>1 DEF QueueInv, Receiving
        <3> QED BY Zenon, <2>1, <3>1, <3>2, AdvanceDoes
    <2> QED BY Zenon, <2>2, <2>3 DEF QueueInv, Receiving, receive_advance
<1> QED BY Zenon, <1>1, <1>2, <1>3, <1>4 DEF IInv
-----------------------------------------------------------------------------
(* rtl8139_send.                                                           *)

\* What every step of a sending task leaves alone.
LEMMA SendFrame ==
    ASSUME IInv, NEW t \in Senders,
           send_lock(t) \/ send_wait(t) \/ send_fill(t) \/ send_post(t)
    PROVE  RxInv' /\ QueueInv' /\ Announced' /\ Silent' /\ active /\ active' = active
<1>1. UNCHANGED <<active, rxVars, isr, irqVars, queueVars, receiveVars>>
    BY Zenon DEF send_lock, send_wait, send_fill, send_post
<1>2. RxInv' /\ QueueInv'
    BY Zenon, <1>1, SameRx, SameQueue DEF IInv, irqVars, receiveVars
<1>3. Announced'
    BY Zenon, <1>1 DEF IInv, Announced, rxVars, irqVars
<1>4. active
    BY Zenon DEF IInv, TxInv, Sending, send_lock, send_wait, send_fill, send_post
<1> QED BY Zenon, <1>1, <1>2, <1>3, <1>4 DEF Silent

\* rtl8139_send takes tx_lock and waits for the slot.
LEMMA LockWaitInv ==
    ASSUME IInv, NEW t \in Senders, send_lock(t) \/ send_wait(t)
    PROVE  IInv'
<1>1. UNCHANGED <<active, tx_next, tx_buffers, own, tx_cur, posted>>
    BY Zenon DEF send_lock, send_wait
<1>2. Slots'
    BY Zenon, <1>1 DEF IInv, TxInv, Slots
<1>3. TxTyped'
    BY Zenon, <1>1 DEF IInv, TxInv, TxTyped, send_lock, send_wait
<1>4. Sending'
    <2>1. NULL \notin Senders /\ active
        BY Zenon, RtlAssumption, SendFrame
    <2>2. sender \in [Senders -> {"idle", "own", "fill", "post"}] /\ Sending
        BY Zenon DEF IInv, TxInv, TxTyped
    <2>3. CASE send_lock(t)
        BY <1>1, <2>1, <2>2, <2>3 DEF Sending, send_lock, Lockable
    <2>4. CASE send_wait(t)
        BY <1>1, <2>1, <2>2, <2>4 DEF Sending, send_wait, SlotFree
    <2> QED BY Zenon, <2>3, <2>4
<1> QED BY Zenon, <1>2, <1>3, <1>4, SendFrame DEF IInv, TxInv

\* A slot that the driver owns is behind the posted ones.
LEMMA RoomLeft ==
    ASSUME TxInv, own[tx_next]
    PROVE  /\ Len(posted) \in 0..(TX_SLOTS - 1)
           /\ \A k \in 0..(TX_SLOTS - 1) : At(TX_SLOTS, tx_cur, k) \in 0..(TX_SLOTS - 1)
           /\ \A k \in 0..(TX_SLOTS - 1) : At(TX_SLOTS, tx_cur, k) = tx_next <=> k = Len(posted)
<1>1. TX_SLOTS \in Nat \ {0} /\ tx_cur \in 0..(TX_SLOTS - 1) /\ Len(posted) \in Nat
    BY Sizes DEF TxInv, TxTyped
<1>2. tx_next = At(TX_SLOTS, tx_cur, Len(posted)) /\ Len(posted) <= TX_SLOTS
    BY Zenon DEF TxInv, Slots
<1>3. Len(posted) # TX_SLOTS
    <2> SUFFICES ASSUME Len(posted) = TX_SLOTS PROVE FALSE
        BY Zenon
    <2>1. tx_next = tx_cur /\ At(TX_SLOTS, tx_cur, 0) = tx_cur /\ 0 \in 0..(TX_SLOTS - 1)
        BY <1>1, <1>2, AtRange
    <2>2. own[tx_cur] <=> 0 >= Len(posted)
        BY Zenon, <2>1 DEF TxInv, Slots
    <2> QED BY <1>1, <2>1, <2>2
<1>4. Len(posted) \in 0..(TX_SLOTS - 1)
    BY <1>1, <1>2, <1>3
<1>5. /\ \A k \in 0..TX_SLOTS : At(TX_SLOTS, tx_cur, k) \in 0..(TX_SLOTS - 1)
      /\ \A k, m \in 0..(TX_SLOTS - 1) : At(TX_SLOTS, tx_cur, k) = At(TX_SLOTS, tx_cur, m) => k = m
    <2>1. TX_SLOTS \in Nat \ {0} /\ tx_cur \in 0..(TX_SLOTS - 1)
        BY Zenon, <1>1
    <2> QED BY <2>1 DEF At
<1>6. \A k \in 0..(TX_SLOTS - 1) : k \in 0..TX_SLOTS
    BY <1>1
<1> QED BY Zenon, <1>2, <1>4, <1>5, <1>6

\* rtl8139_send fills the slot.
LEMMA FillInv ==
    ASSUME IInv, NEW t \in Senders, send_fill(t)
    PROVE  IInv'
<1>1. /\ UNCHANGED <<active, tx_lock, tx_next, own, tx_cur, posted>>
      /\ tx_buffers' = [tx_buffers EXCEPT ![tx_next] = t]
      /\ sender' = [sender EXCEPT ![t] = "post"] /\ sender[t] = "fill"
    BY Zenon DEF send_fill
<1>2. /\ sender \in [Senders -> {"idle", "own", "fill", "post"}]
      /\ tx_buffers \in [0..(TX_SLOTS - 1) -> Senders \cup {NoFrame}]
      /\ tx_next \in 0..(TX_SLOTS - 1) /\ own[tx_next] /\ TxInv
    BY Zenon, <1>1 DEF IInv, TxInv, TxTyped, Sending
<1>3. TxTyped'
    BY Zenon, <1>1, <1>2 DEF TxInv, TxTyped
<1>4. Sending'
    BY Zenon, <1>1, <1>2 DEF TxInv, Sending
<1>5. Slots'
    <2>1. ASSUME NEW k \in 0..(TX_SLOTS - 1), k < Len(posted)
          PROVE  tx_buffers'[At(TX_SLOTS, tx_cur, k)] = posted[k + 1]
        <3>1. At(TX_SLOTS, tx_cur, k) # tx_next /\ At(TX_SLOTS, tx_cur, k) \in 0..(TX_SLOTS - 1)
            BY <1>2, <2>1, RoomLeft
        <3>2. tx_buffers'[At(TX_SLOTS, tx_cur, k)] = tx_buffers[At(TX_SLOTS, tx_cur, k)]
            BY Zenon, <1>1, <1>2, <3>1
        <3> QED BY Zenon, <1>2, <2>1, <3>2 DEF TxInv, Slots
    <2> QED BY Zenon, <1>1, <1>2, <2>1 DEF TxInv, Slots
<1> QED BY Zenon, <1>3, <1>4, <1>5, SendFrame DEF IInv, TxInv

\* rtl8139_send hands the slot to the card.
LEMMA PostInv ==
    ASSUME IInv, NEW t \in Senders, send_post(t)
    PROVE  IInv'
<1> DEFINE n == Len(posted)
<1>1. /\ UNCHANGED <<active, tx_buffers, tx_cur>>
      /\ own' = [own EXCEPT ![tx_next] = FALSE] /\ posted' = Append(posted, t)
      /\ tx_next' = (tx_next + 1) % TX_SLOTS /\ tx_lock' = NULL
      /\ sender' = [sender EXCEPT ![t] = "idle"] /\ sender[t] = "post"
    BY Zenon DEF send_post
<1>2. /\ sender \in [Senders -> {"idle", "own", "fill", "post"}]
      /\ own \in [0..(TX_SLOTS - 1) -> BOOLEAN] /\ posted \in Seq(Senders)
      /\ own[tx_next] /\ tx_buffers[tx_next] = t /\ TxInv
    BY Zenon, <1>1 DEF IInv, TxInv, TxTyped, Sending
<1>3. /\ TX_SLOTS \in Nat \ {0} /\ tx_cur \in 0..(TX_SLOTS - 1) /\ tx_next \in 0..(TX_SLOTS - 1)
      /\ n \in 0..(TX_SLOTS - 1) /\ tx_next = At(TX_SLOTS, tx_cur, n)
    BY Zenon, <1>2, RoomLeft, Sizes DEF TxInv, TxTyped, Slots
<1>4. /\ posted' \in Seq(Senders) /\ Len(posted') = n + 1 /\ posted'[n + 1] = t
      /\ \A i \in 1..n : posted'[i] = posted[i]
    BY <1>1, <1>2
<1>5. tx_next' = At(TX_SLOTS, tx_cur, n + 1) /\ tx_next' \in 0..(TX_SLOTS - 1)
    <2>1. tx_next' = At(TX_SLOTS, tx_next, 1) /\ tx_next' \in 0..(TX_SLOTS - 1)
        <3>1. tx_next' = (tx_next + 1) % TX_SLOTS /\ TX_SLOTS \in Nat \ {0} /\ tx_next \in 0..(TX_SLOTS - 1)
            BY Zenon, <1>1, <1>3
        <3> QED BY <3>1 DEF At
    <2> QED BY <1>3, <2>1, AtRange
<1>6. TxTyped'
    BY Zenon, <1>1, <1>2, <1>4, <1>5 DEF TxInv, TxTyped
<1>7. Sending'
    <2>1. NULL \notin Senders
        BY Zenon, RtlAssumption
    <2> QED BY Zenon, <1>1, <1>2, <2>1 DEF TxInv, Sending
<1>8. Slots'
    <2>1. ASSUME NEW k \in 0..(TX_SLOTS - 1)
          PROVE  LET s == At(TX_SLOTS, tx_cur, k)
                 IN  /\ own'[s] <=> k >= n + 1
                     /\ k < n + 1 => tx_buffers[s] = posted'[k + 1]
        <3> DEFINE s == At(TX_SLOTS, tx_cur, k)
        <3>1. s \in 0..(TX_SLOTS - 1) /\ (s = tx_next <=> k = n)
            BY Zenon, <1>2, RoomLeft
        <3>2. (own[s] <=> k >= n) /\ (k < n => tx_buffers[s] = posted[k + 1])
            BY Zenon, <1>2 DEF TxInv, Slots
        <3>3. own'[s] = IF k = n THEN FALSE ELSE own[s]
            BY Zenon, <1>1, <1>2, <3>1
        <3>4. own'[s] <=> k >= n + 1
            BY <1>3, <3>2, <3>3
        <3>5. ASSUME k < n + 1 PROVE tx_buffers[s] = posted'[k + 1]
            <4>1. CASE k = n
                BY Zenon, <1>2, <1>4, <3>1, <4>1
            <4>2. CASE k # n
                BY <1>3, <1>4, <3>2, <3>5, <4>2
            <4> QED BY Zenon, <4>1, <4>2
        <3> QED BY Zenon, <3>4, <3>5
    <2>2. n + 1 <= TX_SLOTS
        BY <1>3
    <2> QED BY Zenon, <1>1, <1>4, <1>5, <2>1, <2>2 DEF Slots
<1> QED BY Zenon, <1>6, <1>7, <1>8, SendFrame DEF IInv, TxInv
-----------------------------------------------------------------------------
(* The invariant.                                                          *)

\* The invariant holds before rtl8139_init.
LEMMA InitIInv == Init => IInv
<1> SUFFICES ASSUME Init PROVE IInv
    BY Zenon
<1> USE DEF Init
<1>1. Silent /\ Announced
    BY Zenon DEF Silent, Announced
<1>2. RxInv
    BY EmptyRing DEF RxInv, RxTyped, Contiguous, Arriving
<1>3. QueueInv
    <2>1. QueueTyped
        BY Sizes DEF QueueTyped
    <2>2. ~has_frame
        BY Zenon DEF has_frame
    <2> QED BY <2>1, <2>2, QueuedIs, Sizes DEF QueueInv, Receiving
<1>4. TxInv
    <2>1. TxTyped /\ Sending
        <3>1. NULL \notin Senders /\ 0 \in 0..(TX_SLOTS - 1) /\ << >> \in Seq(Senders)
            BY Sizes, RtlAssumption
        <3>2. TxTyped
            BY Zenon, <3>1 DEF TxTyped
        <3>3. Sending
            BY Zenon, <3>1 DEF Sending
        <3> QED BY Zenon, <3>2, <3>3
    <2>2. Slots
        BY Sizes DEF Slots, At
    <2> QED BY Zenon, <2>1, <2>2 DEF TxInv
<1> QED BY Zenon, <1>1, <1>2, <1>3, <1>4 DEF IInv

\* Every step of card, handler and tasks keeps the invariant.
LEMMA NextIInv == IInv /\ [Next]_vars => IInv'
<1> SUFFICES ASSUME IInv, [Next]_vars PROVE IInv'
    BY Zenon
<1>1. CASE \E f \in Frames : card_begin(f)
    BY Zenon, <1>1, BeginInv
<1>2. CASE \E st \in {"ok", "bad"} : card_complete(st)
    BY Zenon, <1>2, CompleteInv
<1>3. CASE card_send
    BY Zenon, <1>3, SendInv
<1>4. CASE interrupt \/ acknowledge \/ drain \/ wake
    BY Zenon, <1>4, InterruptInv, AcknowledgeInv, DrainInv, WakeInv
<1>5. CASE rtl8139_init
    BY Zenon, <1>5, InitInv
<1>6. CASE receive_wait \/ receive_timeout \/ receive_copy \/ receive_advance
    BY Zenon, <1>6, ReceiveInv, AdvanceInv
<1>7. CASE \E t \in Senders : send_lock(t) \/ send_wait(t) \/ send_fill(t) \/ send_post(t)
    BY Zenon, <1>7, LockWaitInv, FillInv, PostInv
<1>8. CASE UNCHANGED vars
    <2>1. UNCHANGED <<active, rxVars, isr, irqVars, queueVars, receiveVars, sendVars>>
        BY Zenon, <1>8 DEF vars
    <2>2. RxInv' /\ QueueInv' /\ TxInv'
        BY Zenon, <2>1, SameRx, SameQueue, SameTx DEF IInv, irqVars, receiveVars
    <2>3. Silent' /\ Announced'
        BY Zenon, <2>1 DEF IInv, Silent, Announced, rxVars, irqVars, queueVars, receiveVars, sendVars
    <2> QED BY Zenon, <2>2, <2>3 DEF IInv
<1> QED BY Zenon, <1>1, <1>2, <1>3, <1>4, <1>5, <1>6, <1>7, <1>8 DEF Next

\* The inductive invariant of card and driver holds in every state.
LEMMA Invariant == Spec => []IInv
BY InitIInv, NextIInv, PTL DEF Spec

\* No frame is forgotten: whatever the sizes of the ring and of the frames, drain
\* looks where the card put the next frame, and a complete frame that no handler is
\* looking at has its interrupt to come.
THEOREM NoFrameForgottenThm == Spec => []NoFrameForgotten
<1>1. IInv => NoFrameForgotten
    BY Zenon DEF IInv, RxInv, Announced, Contiguous, Lies, NoFrameForgotten
<1> QED BY <1>1, Invariant, PTL

\* rtl8139_receive never sleeps beside a frame that interrupt_handler has queued.
THEOREM NoSleepThm == Spec => []NoSleepOnFrames
<1>1. IInv => NoSleepOnFrames
    BY Zenon DEF IInv, QueueInv, Receiving, NoSleepOnFrames
<1> QED BY <1>1, Invariant, PTL

-----------------------------------------------------------------------------
(* The refinement of LossyFifo.                                            *)

\* What arrives: frames, and damaged ones.
Items == Frames \cup {NoFrame}

\* n frames of a queue q from place t on, then g entries of a ring r.
Flow(q, t, n, r, g) ==
    [i \in 1..(n + g) |-> IF i <= n THEN q[At(QUEUE_SLOTS, t, i - 1)] ELSE Item(r[i - n])]

\* How many complete frames the ring has, and where a queued one lies.
LEMMA FlowIs ==
    ASSUME NEW t \in 0..(QUEUE_SLOTS - 1), NEW n \in 0..(QUEUE_SLOTS - 1),
           NEW r \in Seq(Entries), NEW g \in 0..Len(r), IsComplete(r, g)
    PROVE  /\ Complete(r) = g
           /\ \A i \in 1..(n + g) :
                 i <= n => (t + i - 1) % QUEUE_SLOTS = At(QUEUE_SLOTS, t, i - 1)
<1>1. Complete(r) = g
    BY Zenon, CompleteIs
<1>2. QUEUE_SLOTS \in Nat \ {0} /\ g \in Nat
    BY Sizes
<1>3. ASSUME NEW i \in 1..(n + g), i <= n
      PROVE  (t + i - 1) % QUEUE_SLOTS = At(QUEUE_SLOTS, t, i - 1)
    <2> DEFINE k == i - 1
    <2>1. k \in 0..QUEUE_SLOTS /\ t + i - 1 = t + k
        BY <1>2, <1>3
    <2> HIDE DEF k
    <2>2. (t + k) % QUEUE_SLOTS = At(QUEUE_SLOTS, t, k)
        BY Zenon, <1>2, <2>1, Sum
    <2> QED BY Zenon, <2>1, <2>2 DEF k
<1> QED BY Zenon, <1>1, <1>3

\* What InFlight is in a state of the invariant.
LEMMA InFlightIs ==
    ASSUME QueueInv, RxInv, NEW g \in 0..Len(ring), IsComplete(ring, g)
    PROVE  /\ InFlight = Flow(queue, queue_tail, Queued, ring, g)
           /\ InFlight \in Seq(Items) /\ Len(InFlight) = Queued + g
           /\ \A i \in 1..(Queued + g) :
                 InFlight[i] = IF i <= Queued THEN queue[At(QUEUE_SLOTS, queue_tail, i - 1)]
                               ELSE Item(ring[i - Queued])
           /\ \A i \in 1..(Queued + g) : i <= Queued => InFlight[i] \in Frames
<1>1. /\ QUEUE_SLOTS \in Nat \ {0} /\ Queued \in 0..(QUEUE_SLOTS - 1)
      /\ queue_tail \in 0..(QUEUE_SLOTS - 1)
    BY Zenon, Sizes, QueuedIs DEF QueueInv, QueueTyped
<1>2. ring \in Seq(Entries)
    BY Zenon DEF RxInv, RxTyped
<1>3. InFlight = Flow(queue, queue_tail, Queued, ring, g)
    <2>1. /\ Complete(ring) = g
          /\ \A i \in 1..(Queued + g) : i <= Queued =>
                (queue_tail + i - 1) % QUEUE_SLOTS = At(QUEUE_SLOTS, queue_tail, i - 1)
        BY Zenon, <1>1, <1>2, FlowIs
    <2> QED BY Zenon, <2>1 DEF InFlight, Flow
<1>4. g \in Nat /\ Queued + g \in Nat
    BY <1>1, <1>2
<1>5. ASSUME NEW i \in 1..(Queued + g), i <= Queued
      PROVE  queue[At(QUEUE_SLOTS, queue_tail, i - 1)] \in Frames
    <2>1. i - 1 \in 0..(QUEUE_SLOTS - 1) /\ i - 1 < Queued
        BY <1>1, <1>4, <1>5
    <2> QED BY Zenon, <2>1 DEF QueueInv, Receiving
<1>6. ASSUME NEW i \in 1..(Queued + g), ~(i <= Queued)
      PROVE  Item(ring[i - Queued]) \in Items
    <2>1. i - Queued \in 1..Len(ring)
        BY <1>1, <1>2, <1>4, <1>6
    <2>2. ring[i - Queued] \in Entries
        BY <1>2, <2>1
    <2> QED BY Zenon, <2>2, EntryTyped DEF Item, Items
<1>7. Flow(queue, queue_tail, Queued, ring, g) \in [1..(Queued + g) -> Items]
    BY Zenon, <1>5, <1>6 DEF Flow, Items
<1>8. InFlight \in Seq(Items) /\ Len(InFlight) = Queued + g
    BY <1>3, <1>4, <1>7
<1> QED BY Zenon, <1>3, <1>5, <1>8 DEF Flow

\* The same in the next state.
LEMMA InFlightNext ==
    ASSUME IInv, [Next]_vars, NEW g \in 0..Len(ring'), IsComplete(ring', g)
    PROVE  InFlight' = Flow(queue', queue_tail', Queued', ring', g)
<1>1. QueueInv' /\ RxInv'
    BY Zenon, NextIInv DEF IInv
<1>2. QUEUE_SLOTS \in Nat \ {0} /\ ring' \in Seq(Entries)
    BY Zenon, <1>1, Sizes DEF RxInv, RxTyped
<1>3. queue_head' \in 0..(QUEUE_SLOTS - 1) /\ queue_tail' \in 0..(QUEUE_SLOTS - 1)
    BY Zenon, <1>1 DEF QueueInv, QueueTyped
<1>4. Queued' \in 0..(QUEUE_SLOTS - 1)
    <2>1. Queued' = Count(QUEUE_SLOTS, queue_head', queue_tail')
        BY Zenon DEF Queued, Count
    <2> QED BY Zenon, <1>2, <1>3, <2>1, CountIs
<1>5. /\ Complete(ring') = g
      /\ \A i \in 1..(Queued' + g) : i <= Queued' =>
            (queue_tail' + i - 1) % QUEUE_SLOTS = At(QUEUE_SLOTS, queue_tail', i - 1)
    BY Zenon, <1>2, <1>3, <1>4, FlowIs
<1>6. Complete(ring)' = g
    BY Zenon, <1>5 DEF Complete
<1> QED BY Zenon, <1>5, <1>6 DEF InFlight, Flow

\* A frame that starts to arrive is not in flight yet.
LEMMA BeginFlow ==
    ASSUME IInv, NEW f \in Frames, card_begin(f)
    PROVE  UNCHANGED Fifo!vars
<1>1. PICK g \in 0..Len(ring) : IsComplete(ring, g)
    BY Zenon, CompletePart DEF IInv
<1>2. ring \in Seq(Entries) /\ [off |-> cbr, st |-> "pending", f |-> f] \in Entries
    BY Zenon DEF IInv, RxInv, RxTyped, Entries
<1>3. /\ Len(ring') = Len(ring) + 1 /\ Len(ring) \in Nat
      /\ \A i \in 1..Len(ring) : ring'[i] = ring[i]
      /\ ring'[Len(ring) + 1].st = "pending"
    BY <1>2 DEF card_begin
<1>4. g \in 0..Len(ring') /\ IsComplete(ring', g)
    BY <1>1, <1>2, <1>3 DEF IsComplete, card_begin
<1>5. [Next]_vars
    BY Zenon DEF Next
<1>6. UNCHANGED <<queue, queue_tail, Queued, out>>
    BY Zenon DEF card_begin, queueVars, receiveVars, Queued
<1>7. InFlight = Flow(queue, queue_tail, Queued, ring, g)
    BY Zenon, <1>1, InFlightIs DEF IInv
<1>8. InFlight' = Flow(queue, queue_tail, Queued, ring', g)
    BY Zenon, <1>4, <1>5, <1>6, InFlightNext
<1>9. Queued \in Nat
    BY QueuedIs, Sizes DEF IInv, QueueInv
<1>10. \A i \in 1..(Queued + g) : ~(i <= Queued) => ring'[i - Queued] = ring[i - Queued]
    BY <1>1, <1>3, <1>9
<1>11. Flow(queue, queue_tail, Queued, ring', g) = Flow(queue, queue_tail, Queued, ring, g)
    BY Zenon, <1>10 DEF Flow
<1> QED BY Zenon, <1>6, <1>7, <1>8, <1>11 DEF Fifo!vars

\* A completed frame arrives in the channel, whole or damaged.
LEMMA CompleteFlow ==
    ASSUME IInv, NEW st \in {"ok", "bad"}, card_complete(st)
    PROVE  [Fifo!Next]_(Fifo!vars)
<1> DEFINE n == Len(ring)
           m == Queued
<1>1. PICK g \in 0..n : IsComplete(ring, g)
    BY Zenon, CompletePart DEF IInv
<1>2. ring \in Seq(Entries) /\ n \in Nat \ {0} /\ ring[n].st = "pending"
    BY DEF IInv, RxInv, RxTyped, card_complete
<1>3. /\ Len(ring') = n
      /\ \A i \in 1..n : /\ ring'[i].f = ring[i].f
                         /\ ring'[i].st = IF i = n THEN st ELSE ring[i].st
    <2>1. ring' = [ring EXCEPT ![n] = [ring[n] EXCEPT !.st = st]]
        BY Zenon DEF card_complete
    <2>2. ring[n] \in [off : Offsets, st : {"ok", "bad", "pending"}, f : Frames]
        <3>1. ring[n] \in Entries
            BY <1>2
        <3> QED BY Zenon, <3>1 DEF Entries
    <2>3. Len(ring') = n /\ \A i \in 1..n : ring'[i] = IF i = n THEN [ring[i] EXCEPT !.st = st] ELSE ring[i]
        BY <1>2, <2>1
    <2> QED BY Zenon, <1>2, <2>2, <2>3
<1>4. g = n - 1
    BY <1>1, <1>2 DEF IsComplete
<1>5. [Next]_vars /\ UNCHANGED <<queue, queue_tail, Queued, out>>
    BY Zenon DEF Next, card_complete, queueVars, receiveVars, Queued
<1>6. m \in Nat
    BY QueuedIs, Sizes DEF IInv, QueueInv
<1>7. /\ InFlight = Flow(queue, queue_tail, m, ring, g)
      /\ InFlight \in Seq(Items) /\ Len(InFlight) = m + g
      /\ \A i \in 1..(m + g) :
            InFlight[i] = IF i <= m THEN queue[At(QUEUE_SLOTS, queue_tail, i - 1)] ELSE Item(ring[i - m])
    BY Zenon, <1>1, InFlightIs DEF IInv
<1> HIDE DEF m
<1>8. n \in 0..Len(ring') /\ IsComplete(ring', n)
    BY <1>1, <1>2, <1>3, <1>4 DEF IsComplete
<1>9. InFlight' = Flow(queue, queue_tail, m, ring', n)
    BY Zenon, <1>5, <1>8, InFlightNext DEF m
<1> DEFINE e == Item(ring'[n])
<1>10. e \in Items
    <2>1. ring[n] \in Entries /\ n \in 1..n
        BY <1>2
    <2>2. ring'[n].f \in Frames
        BY Zenon, <1>3, <2>1, EntryTyped
    <2> QED BY Zenon, <2>2 DEF Item, Items
<1> HIDE DEF e
<1>11. m + n = (m + g) + 1 /\ m + n \in Nat
    BY <1>2, <1>4, <1>6
<1>12. /\ Append(InFlight, e) \in Seq(Items) /\ Len(Append(InFlight, e)) = m + n
       /\ \A i \in 1..(m + g) : Append(InFlight, e)[i] = InFlight[i]
       /\ Append(InFlight, e)[m + n] = e
    BY <1>6, <1>7, <1>10, <1>11
<1>13. ASSUME NEW i \in 1..(m + n)
       PROVE  (IF i <= m THEN queue[At(QUEUE_SLOTS, queue_tail, i - 1)] ELSE Item(ring'[i - m]))
              = Append(InFlight, e)[i]
    <2>1. CASE i = m + n
        <3>1. ~(i <= m) /\ i - m = n
            BY <1>2, <1>6, <2>1
        <3> QED BY Zenon, <1>12, <2>1, <3>1 DEF e
    <2>2. CASE i # m + n
        <3>1. i \in 1..(m + g)
            BY <1>2, <1>6, <1>11, <2>2
        <3>2. ~(i <= m) => i - m \in 1..n /\ i - m # n
            BY <1>2, <1>4, <1>6, <3>1
        <3>3. ~(i <= m) => Item(ring'[i - m]) = Item(ring[i - m])
            BY Zenon, <1>3, <3>2 DEF Item
        <3> QED BY Zenon, <1>7, <1>12, <3>1, <3>3
    <2> QED BY Zenon, <2>1, <2>2
<1>14. Append(InFlight, e) = [i \in 1..(m + n) |-> Append(InFlight, e)[i]]
    <2> DEFINE u == Append(InFlight, e)
    <2>1. u \in Seq(Items) /\ Len(u) = m + n
        BY Zenon, <1>12
    <2> HIDE DEF u
    <2>2. u = [i \in 1..Len(u) |-> u[i]]
        BY <2>1
    <2> QED BY Zenon, <2>1, <2>2 DEF u
<1>15. InFlight' = Append(InFlight, e)
    BY Zenon, <1>9, <1>13, <1>14 DEF Flow
<1> QED BY Zenon, <1>5, <1>10, <1>15 DEF Items, Fifo!Next, Fifo!Arrive

\* The head of the ring moves to the end of the queue, or is lost when that is full;
\* a bad frame takes those behind it along.
LEMMA DrainFlow ==
    ASSUME IInv, drain
    PROVE  [Fifo!Next]_(Fifo!vars)
<1> DEFINE m == Queued
<1>1. PICK g \in 0..Len(ring) : IsComplete(ring, g)
    BY Zenon, CompletePart DEF IInv
<1>2. ring \in Seq(Entries) /\ RxInv /\ QueueInv /\ QueueTyped
    BY Zenon DEF IInv, RxInv, RxTyped, QueueInv
<1>3. [Next]_vars /\ out' = out
    BY Zenon DEF Next, drain, receiveVars
<1>4. m \in 0..(QUEUE_SLOTS - 1) /\ m \in Nat /\ QUEUE_SLOTS \in Nat \ {0}
    BY <1>2, QueuedIs, Sizes
<1>5. /\ InFlight = Flow(queue, queue_tail, m, ring, g)
      /\ InFlight \in Seq(Items) /\ Len(InFlight) = m + g
      /\ \A i \in 1..(m + g) :
            InFlight[i] = IF i <= m THEN queue[At(QUEUE_SLOTS, queue_tail, i - 1)] ELSE Item(ring[i - m])
      /\ \A i \in 1..(m + g) : i <= m => InFlight[i] \in Frames
    BY Zenon, <1>1, <1>2, InFlightIs
<1>6. CASE UNCHANGED <<rxVars, queueVars>>
    BY Zenon, <1>3, <1>6 DEF InFlight, Queued, rxVars, queueVars, Fifo!vars
<1>7. CASE ring # << >> /\ ring[1].st = "bad" /\ rx_restart /\ UNCHANGED queueVars
    <2>1. g \in 1..Len(ring) /\ m + 1 \in 1..(m + g) /\ (m + 1) - m = 1 /\ ~(m + 1 <= m) /\ (m + 1) - 1 = m
        BY <1>1, <1>2, <1>4, <1>7 DEF IsComplete
    <2>2. 0 \in 0..Len(ring') /\ IsComplete(ring', 0)
        BY <1>7, EmptyRing DEF rx_restart
    <2>3. UNCHANGED <<queue, queue_tail, Queued>>
        BY Zenon, <1>7 DEF queueVars, Queued
    <2>4. InFlight' = Flow(queue, queue_tail, m, ring', 0)
        BY Zenon, <1>3, <2>2, <2>3, InFlightNext
    <2>5. InFlight[m + 1] = NoFrame
        BY Zenon, <1>5, <1>7, <2>1 DEF Item
    <2>6. m + 0 = m /\ \A i \in 1..m : i <= m /\ i \in 1..(m + g)
        BY <1>4, <2>1
    <2>7. InFlight' = [i \in 1..m |-> InFlight[i]]
        BY Zenon, <1>5, <2>4, <2>6 DEF Flow
    <2>8. \A i \in 1..m : InFlight[i] \in Frames
        BY Zenon, <1>5, <2>6
    <2> HIDE DEF m
    <2>9. Fifo!Restart
        BY Zenon, <1>3, <1>5, <2>1, <2>5, <2>7, <2>8 DEF Fifo!Restart
    <2> QED BY Zenon, <2>9 DEF Fifo!Next
<1>8. CASE /\ ring # << >> /\ ring[1].st = "ok"
           /\ enqueue(ring[1].f) /\ ring' = Tail(ring)
    <2> DEFINE f == ring[1].f
    <2>1. f \in Frames /\ Len(ring) \in Nat \ {0}
        BY <1>2, <1>8, AtHead, EntryTyped
    <2>2. /\ Len(ring') = Len(ring) - 1
          /\ \A i \in 1..(Len(ring) - 1) : ring'[i] = ring[i + 1]
        BY <1>2, <1>8
    <2>3. g \in 1..Len(ring) /\ IsComplete(ring', g - 1)
        BY Zenon, <1>1, <1>2, <1>8, TailComplete
    <2>4. g - 1 \in 0..Len(ring')
        BY <2>1, <2>2, <2>3
    <2>5. InFlight' = Flow(queue', queue_tail', Queued', ring', g - 1)
        BY Zenon, <1>3, <2>3, <2>4, InFlightNext
    <2>6. queue_tail' = queue_tail
        BY Zenon, <1>2, <1>8, <2>1, EnqueueDoes
    <2>7. CASE m = QUEUE_SLOTS - 1 /\ UNCHANGED queueVars /\ Queued' = m
        <3>1. InFlight' = Flow(queue, queue_tail, m, ring', g - 1)
            BY Zenon, <2>5, <2>7 DEF queueVars
        <3>2. Len(InFlight) > m /\ Len(InFlight) - 1 = m + (g - 1) /\ g \in Nat
            BY <1>4, <1>5, <2>1, <2>3
        <3>3. ASSUME NEW i \in 1..(m + (g - 1))
              PROVE  (IF i <= m THEN queue[At(QUEUE_SLOTS, queue_tail, i - 1)] ELSE Item(ring'[i - m]))
                     = IF i <= m THEN InFlight[i] ELSE InFlight[i + 1]
            <4>1. i \in 1..(m + g) /\ i + 1 \in 1..(m + g)
                BY <1>4, <3>2
            <4>2. CASE i <= m
                BY Zenon, <1>5, <4>1, <4>2
            <4>3. CASE ~(i <= m)
                <5>1. i - m \in 1..(Len(ring) - 1) /\ ~(i + 1 <= m) /\ (i + 1) - m = (i - m) + 1
                    BY <1>4, <2>1, <2>3, <3>2, <4>1, <4>3
                <5>2. ring'[i - m] = ring[(i + 1) - m]
                    BY Zenon, <2>2, <5>1
                <5> QED BY Zenon, <1>5, <4>1, <4>3, <5>1, <5>2
            <4> QED BY Zenon, <4>2, <4>3
        <3>4. InFlight' = [i \in 1..(Len(InFlight) - 1) |->
                             IF i <= m THEN InFlight[i] ELSE InFlight[i + 1]]
            BY Zenon, <3>1, <3>2, <3>3 DEF Flow
        <3>5. ASSUME NEW i \in 1..(m + 1) PROVE InFlight[i] \in Frames
            <4>1. i \in 1..(m + g)
                BY <1>4, <2>3
            <4>2. CASE i <= m
                BY Zenon, <1>5, <4>1, <4>2
            <4>3. CASE ~(i <= m)
                <5>1. i - m = 1
                    BY <1>4, <4>3
                <5> QED BY Zenon, <1>5, <1>8, <2>1, <4>1, <4>3, <5>1 DEF Item
            <4> QED BY Zenon, <4>2, <4>3
        <3>6. QUEUE_SLOTS - 1 = m
            BY Zenon, <2>7
        <3> HIDE DEF m
        <3>7. Fifo!Overflow
            BY Zenon, <1>3, <3>2, <3>4, <3>5, <3>6 DEF Fifo!Overflow
        <3> QED BY Zenon, <3>7 DEF Fifo!Next
    <2>8. CASE /\ m < QUEUE_SLOTS - 1 /\ Queued' = m + 1
               /\ queue'[At(QUEUE_SLOTS, queue_tail, m)] = f
               /\ \A k \in 0..(QUEUE_SLOTS - 1) :
                     k # m => queue'[At(QUEUE_SLOTS, queue_tail, k)] = queue[At(QUEUE_SLOTS, queue_tail, k)]
        <3>1. (m + 1) + (g - 1) = m + g /\ g \in Nat
            BY <1>4, <2>1, <2>3
        <3>2. InFlight' = Flow(queue', queue_tail, m + 1, ring', g - 1)
            BY Zenon, <2>5, <2>6, <2>8
        <3>3. ASSUME NEW i \in 1..(m + g)
              PROVE  (IF i <= m + 1 THEN queue'[At(QUEUE_SLOTS, queue_tail, i - 1)] ELSE Item(ring'[i - (m + 1)]))
                     = IF i <= m THEN queue[At(QUEUE_SLOTS, queue_tail, i - 1)] ELSE Item(ring[i - m])
            <4>1. CASE i <= m
                <5>1. i - 1 \in 0..(QUEUE_SLOTS - 1) /\ i - 1 # m /\ i <= m + 1
                    BY <1>4, <3>1, <4>1
                <5> QED BY Zenon, <2>8, <4>1, <5>1
            <4>2. CASE i = m + 1
                <5>1. i - 1 = m /\ i - m = 1 /\ ~(i <= m) /\ i <= m + 1
                    BY <1>4, <4>2
                <5> QED BY Zenon, <1>8, <2>8, <5>1 DEF Item
            <4>3. CASE ~(i <= m + 1)
                <5>1. i - (m + 1) \in 1..(Len(ring) - 1) /\ (i - (m + 1)) + 1 = i - m /\ ~(i <= m)
                    BY <1>4, <2>1, <2>3, <3>1, <4>3
                <5> QED BY Zenon, <2>2, <4>3, <5>1
            <4> QED BY <1>4, <3>1, <4>1, <4>2, <4>3
        <3>4. Flow(queue', queue_tail, m + 1, ring', g - 1) = Flow(queue, queue_tail, m, ring, g)
            BY Zenon, <3>1, <3>3 DEF Flow
        <3> QED BY Zenon, <1>3, <1>5, <3>2, <3>4 DEF Fifo!vars
    <2> QED BY Zenon, <1>2, <1>8, <2>1, <2>7, <2>8, EnqueueDoes
<1> QED BY Zenon, <1>2, <1>6, <1>7, <1>8, DrainCases

\* The end of rtl8139_receive delivers the oldest frame.
LEMMA AdvanceFlow ==
    ASSUME IInv, receive_advance
    PROVE  Fifo!Deliver
<1> DEFINE m == Queued
<1>1. PICK g \in 0..Len(ring) : IsComplete(ring, g)
    BY Zenon, CompletePart DEF IInv
<1>2. ring \in Seq(Entries) /\ RxInv /\ QueueInv /\ g \in Nat
    BY <1>1 DEF IInv, RxInv, RxTyped
<1>3. [Next]_vars /\ ring' = ring /\ out' = Fifo!Cut(queue[queue_tail])
    BY Zenon, <1>2 DEF Next, receive_advance, rxVars, QueueInv, Receiving
<1>4. /\ QUEUE_SLOTS \in Nat \ {0} /\ m \in 1..(QUEUE_SLOTS - 1) /\ Queued' = m - 1
      /\ \A k \in 0..(QUEUE_SLOTS - 2) :
            queue'[At(QUEUE_SLOTS, queue_tail', k)] = queue[At(QUEUE_SLOTS, queue_tail, k + 1)]
    BY Zenon, <1>2, Sizes, AdvanceDoes
<1>5. /\ InFlight \in Seq(Items) /\ Len(InFlight) = m + g
      /\ \A i \in 1..(m + g) :
            InFlight[i] = IF i <= m THEN queue[At(QUEUE_SLOTS, queue_tail, i - 1)] ELSE Item(ring[i - m])
      /\ \A i \in 1..(m + g) : i <= m => InFlight[i] \in Frames
    BY Zenon, <1>1, <1>2, InFlightIs
<1>6. InFlight' = Flow(queue', queue_tail', m - 1, ring, g)
    BY Zenon, <1>1, <1>3, <1>4, InFlightNext
<1>7. m + g \in Nat \ {0} /\ (m - 1) + g = (m + g) - 1 /\ InFlight # << >>
    BY <1>2, <1>4, <1>5
<1>8. /\ Tail(InFlight) \in Seq(Items) /\ Len(Tail(InFlight)) = (m + g) - 1
      /\ \A i \in 1..((m + g) - 1) : Tail(InFlight)[i] = InFlight[i + 1]
      /\ Head(InFlight) = InFlight[1]
    BY <1>5, <1>7
<1>9. ASSUME NEW i \in 1..((m + g) - 1)
      PROVE  (IF i <= m - 1 THEN queue'[At(QUEUE_SLOTS, queue_tail', i - 1)] ELSE Item(ring[i - (m - 1)]))
             = Tail(InFlight)[i]
    <2>1. i + 1 \in 1..(m + g) /\ (i <= m - 1 <=> i + 1 <= m) /\ i - (m - 1) = (i + 1) - m
        BY <1>2, <1>4
    <2>2. i <= m - 1 => i - 1 \in 0..(QUEUE_SLOTS - 2) /\ (i - 1) + 1 = (i + 1) - 1
        BY <1>2, <1>4
    <2>3. i <= m - 1 => queue'[At(QUEUE_SLOTS, queue_tail', i - 1)] = queue[At(QUEUE_SLOTS, queue_tail, (i + 1) - 1)]
        BY Zenon, <1>4, <2>2
    <2>4. Tail(InFlight)[i] = InFlight[i + 1]
        BY Zenon, <1>8
    <2> QED BY Zenon, <1>5, <2>1, <2>3, <2>4
<1>10. Tail(InFlight) = [i \in 1..((m + g) - 1) |-> Tail(InFlight)[i]]
    <2> DEFINE u == Tail(InFlight)
    <2>1. u \in Seq(Items) /\ Len(u) = (m + g) - 1
        BY Zenon, <1>8
    <2> HIDE DEF u
    <2>2. u = [i \in 1..Len(u) |-> u[i]]
        BY <2>1
    <2> QED BY Zenon, <2>1, <2>2 DEF u
<1>11. InFlight' = Tail(InFlight)
    <2>1. InFlight' = [i \in 1..((m - 1) + g) |->
                         IF i <= m - 1 THEN queue'[At(QUEUE_SLOTS, queue_tail', i - 1)]
                         ELSE Item(ring[i - (m - 1)])]
        BY Zenon, <1>6 DEF Flow
    <2>2. InFlight' = [i \in 1..((m + g) - 1) |-> Tail(InFlight)[i]]
        BY Zenon, <1>7, <1>9, <2>1
    <2> QED BY Zenon, <1>10, <2>2
<1>12. out' = Fifo!Cut(Head(InFlight)) /\ Head(InFlight) \in Frames
    <2>1. At(QUEUE_SLOTS, queue_tail, 0) = queue_tail
        BY Zenon, <1>2, <1>4, AtRange DEF QueueInv, QueueTyped
    <2>2. 1 \in 1..(m + g) /\ 1 <= m /\ 1 - 1 = 0
        BY <1>4, <1>7
    <2> QED BY Zenon, <1>3, <1>5, <1>8, <2>1, <2>2
<1> QED BY Zenon, <1>7, <1>11, <1>12 DEF Fifo!Deliver

\* The other steps touch neither the ring nor the queue; rtl8139_init finds them empty.
LEMMA OtherFlow ==
    ASSUME IInv,
           \/ card_send \/ interrupt \/ acknowledge \/ wake \/ rtl8139_init
           \/ receive_wait \/ receive_timeout \/ receive_copy
           \/ \E t \in Senders : send_lock(t) \/ send_wait(t) \/ send_fill(t) \/ send_post(t)
           \/ UNCHANGED vars
    PROVE  UNCHANGED Fifo!vars
<1>1. UNCHANGED <<ring, queue, queue_head, queue_tail, out>>
    <2>1. CASE card_send \/ interrupt \/ acknowledge \/ wake
        BY Zenon, <2>1 DEF card_send, interrupt, acknowledge, wake, rxVars, queueVars, receiveVars
    <2>2. CASE rtl8139_init
        BY Zenon, <2>2 DEF IInv, Silent, rtl8139_init, rx_restart, receiveVars
    <2>3. CASE receive_wait \/ receive_timeout \/ receive_copy
        BY Zenon, <2>3 DEF receive_wait, receive_timeout, receive_copy, rxVars, queueVars
    <2>4. CASE \E t \in Senders : send_lock(t) \/ send_wait(t) \/ send_fill(t) \/ send_post(t)
        BY Zenon, <2>4 DEF send_lock, send_wait, send_fill, send_post, rxVars, queueVars, receiveVars
    <2>5. CASE UNCHANGED vars
        BY Zenon, <2>5 DEF vars, rxVars, queueVars, receiveVars
    <2> QED BY Zenon, <2>1, <2>2, <2>3, <2>4, <2>5
<1> QED BY Zenon, <1>1 DEF Fifo!vars, InFlight, Queued

\* The ring of the card, interrupt_handler, the queue and rtl8139_receive together
\* implement a first-in first-out channel with two losses: what rtl8139_receive returns
\* are the complete frames, in the order of arrival and each once, cut to the caller's
\* buffer; one is missing only if QUEUE_SLOTS - 1 older ones were waiting when drain
\* came to it, or if it was in the ring behind a bad one when drain restarted the
\* receiver.
THEOREM Refinement == Spec => ImplementsLossyFifo
<1>1. Init => Fifo!Init
    <2> SUFFICES ASSUME Init PROVE Fifo!Init
        BY Zenon
    <2>1. IInv /\ ring = << >> /\ ~has_frame
        BY Zenon, InitIInv DEF Init, has_frame
    <2>2. Queued = 0
        BY <2>1, QueuedIs DEF IInv, QueueInv
    <2>3. 0 \in 0..Len(ring) /\ IsComplete(ring, 0)
        BY <2>1, EmptyRing
    <2>4. InFlight \in Seq(Items) /\ Len(InFlight) = 0
        BY <2>1, <2>2, <2>3, InFlightIs DEF IInv
    <2> QED BY <2>4 DEF Fifo!Init, Init
<1>2. IInv /\ [Next]_vars => [Fifo!Next]_(Fifo!vars)
    <2> SUFFICES ASSUME IInv, [Next]_vars PROVE [Fifo!Next]_(Fifo!vars)
        BY Zenon
    <2>1. CASE \E f \in Frames : card_begin(f)
        BY Zenon, <2>1, BeginFlow
    <2>2. CASE \E st \in {"ok", "bad"} : card_complete(st)
        BY Zenon, <2>2, CompleteFlow
    <2>3. CASE drain
        BY Zenon, <2>3, DrainFlow
    <2>4. CASE receive_advance
        BY Zenon, <2>4, AdvanceFlow DEF Fifo!Next
    <2> QED BY Zenon, <2>1, <2>2, <2>3, <2>4, OtherFlow DEF Next
<1> QED BY <1>1, <1>2, Invariant, PTL DEF Spec, ImplementsLossyFifo, Fifo!Spec
-----------------------------------------------------------------------------
(* Transmission: the slots are counted, with the library's facts about     *)
(* finite sets.                                                            *)

INSTANCE FiniteSetTheorems

\* The slots of the card are as many as the frames that were posted and not sent.
LEMMA SlotsCounted ==
    ASSUME TxInv
    PROVE  Len(posted) = Cardinality({s \in DOMAIN own : ~own[s]})
<1> DEFINE n == Len(posted)
           S == {s \in DOMAIN own : ~own[s]}
<1>1. /\ TX_SLOTS \in Nat \ {0} /\ tx_cur \in 0..(TX_SLOTS - 1)
      /\ n \in 0..TX_SLOTS /\ DOMAIN own = 0..(TX_SLOTS - 1)
    BY Sizes DEF TxInv, TxTyped, Slots
<1> DEFINE g == [i \in 1..n |-> At(TX_SLOTS, tx_cur, i - 1)]
<1>2. \A i \in 1..n : i - 1 \in 0..(TX_SLOTS - 1) /\ i - 1 \in 0..TX_SLOTS /\ i - 1 < n
    BY <1>1
<1>3. /\ \A k \in 0..TX_SLOTS : At(TX_SLOTS, tx_cur, k) \in 0..(TX_SLOTS - 1)
      /\ \A k, m \in 0..(TX_SLOTS - 1) : At(TX_SLOTS, tx_cur, k) = At(TX_SLOTS, tx_cur, m) => k = m
    <2>1. TX_SLOTS \in Nat \ {0} /\ tx_cur \in 0..(TX_SLOTS - 1)
        BY Zenon, <1>1
    <2> QED BY <2>1 DEF At
<1>4. \A k \in 0..(TX_SLOTS - 1) : own[At(TX_SLOTS, tx_cur, k)] <=> k >= n
    BY Zenon DEF TxInv, Slots
<1>5. ASSUME NEW i \in 1..n
      PROVE  At(TX_SLOTS, tx_cur, i - 1) \in S
    BY <1>1, <1>2, <1>3, <1>4
<1>6. ASSUME NEW i \in 1..n, NEW j \in 1..n,
             At(TX_SLOTS, tx_cur, i - 1) = At(TX_SLOTS, tx_cur, j - 1)
      PROVE  i = j
    <2>1. i - 1 = j - 1
        BY Zenon, <1>2, <1>3, <1>6
    <2> QED BY <1>1, <2>1
<1>7. ASSUME NEW s \in S
      PROVE  \E i \in 1..n : At(TX_SLOTS, tx_cur, i - 1) = s
    <2> DEFINE k == IF s >= tx_cur THEN s - tx_cur ELSE s - tx_cur + TX_SLOTS
    <2>1. k \in 0..(TX_SLOTS - 1) /\ At(TX_SLOTS, tx_cur, k) = s
        BY <1>1 DEF At
    <2>2. ~(k >= n)
        BY Zenon, <1>4, <2>1
    <2> HIDE DEF k
    <2>3. k + 1 \in 1..n /\ (k + 1) - 1 = k
        BY <1>1, <2>1, <2>2
    <2> QED BY Zenon, <2>1, <2>3
<1> HIDE DEF S
<1>8. g \in Bijection(1..n, S)
    BY Zenon, <1>5, <1>6, <1>7 DEF Bijection, Injection, Surjection, IsInjective
<1>9. ExistsBijection(1..n, S)
    BY Zenon, <1>8 DEF ExistsBijection
<1>10. IsFiniteSet(1..n) /\ Cardinality(1..n) = n
    <2>1. n \in Int /\ 1 \in Int /\ (IF 1 > n THEN 0 ELSE n - 1 + 1) = n
        BY <1>1
    <2> HIDE DEF n
    <2> QED BY Zenon, <2>1, FS_Interval
<1>11. Cardinality(S) = n
    BY Zenon, <1>9, <1>10, FS_Bijection
<1> QED BY Zenon, <1>11 DEF S

\* rtl8139_send never overwrites, skips or repeats a slot: the card sends the frames
\* in the order of the calls, with the bytes that the callers passed.
THEOREM SlotsIntactThm == Spec => []SlotsIntact
<1>1. ASSUME IInv PROVE SlotsIntact
    <2>1. Len(posted) = Cardinality({s \in DOMAIN own : ~own[s]})
        BY Zenon, <1>1, SlotsCounted DEF IInv
    <2>2. /\ TX_SLOTS \in Nat \ {0} /\ tx_cur \in 0..(TX_SLOTS - 1)
          /\ Len(posted) \in 0..TX_SLOTS
        BY <1>1, Sizes DEF IInv, TxInv, TxTyped, Slots
    <2>3. ASSUME NEW i \in 1..Len(posted)
          PROVE  LET s == (tx_cur + i - 1) % TX_SLOTS
                 IN  ~own[s] /\ tx_buffers[s] = posted[i]
        <3> DEFINE k == i - 1
        <3>1. /\ k \in 0..(TX_SLOTS - 1) /\ k < Len(posted) /\ k + 1 = i /\ k \in 0..TX_SLOTS
              /\ tx_cur + i - 1 = tx_cur + k
            BY <2>2
        <3> HIDE DEF k
        <3>2. (tx_cur + k) % TX_SLOTS = At(TX_SLOTS, tx_cur, k)
            BY Zenon, <2>2, <3>1, Sum
        <3>3. ~own[At(TX_SLOTS, tx_cur, k)] /\ tx_buffers[At(TX_SLOTS, tx_cur, k)] = posted[k + 1]
            BY <1>1, <2>2, <3>1 DEF IInv, TxInv, Slots
        <3> QED BY Zenon, <3>1, <3>2, <3>3
    <2> QED BY Zenon, <2>1, <2>3 DEF SlotsIntact
<1> QED BY <1>1, Invariant, PTL
=============================================================================
