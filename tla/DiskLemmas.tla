----------------------------- MODULE DiskLemmas -----------------------------
(***************************************************************************)
(* The inductive invariant of Disk, what its operators do, and that the    *)
(* ATA driver, the switch, controller_init and execute keep it.            *)
(***************************************************************************)
EXTENDS Disk, TLAPS
-----------------------------------------------------------------------------
(* Places of pc.                                                           *)

MoveAt == {"ata_data", "ata_finish"}
AtaAt == {"ata_prepare", "ata_selected", "ata_flush"} \cup MoveAt
SetupAt == {"nvme_namespace", "nvme_create_cq", "nvme_create_sq", "nvme_created"}
LoopAt == {"nvme_span", "nvme_copy", "nvme_next", "nvme_done"}
Places == {"idle", "probe", "dispatch", "ata_start", "nvme_total", "nvme_known", "nvme_start",
           "nvme_wait"} \cup AtaAt \cup SetupAt \cup LoopAt

\* A request, as the callers make them.
Shaped(r) ==
    /\ DOMAIN r = {"fn", "lba", "count", "data", "result"}
    /\ r.lba \in Nat /\ r.count \in Nat
    /\ r.data = [i \in 0..(r.count - 1) |-> r.data[i]]

CallInv ==
    /\ machine \in {"ata", "nvme", "none"}
    /\ sectors = [s \in Medium |-> sectors[s]]
    /\ unflushed \in BOOLEAN
    /\ Shaped(req)
    /\ req.fn \in {"none", "size", "read", "write"}
    /\ req.result \in {"none", "ok", "error"}
    /\ pc \in Places
    /\ pc = "idle" <=> req.fn = "none" \/ req.result # "none"
    /\ pc \in {"ata_start", "nvme_start"} \cup AtaAt \cup LoopAt => req.fn \in {"read", "write"}

\* Which disk there is, and which driver talks to it.
MachineInv ==
    /\ backend \in {"none", "ata", "nvme"}
    /\ nvme_state \in {"untried", "ready", "failed"}
    /\ backend = "ata" \/ pc = "ata_start" \/ pc \in AtaAt => machine = "ata"
    /\ nvme_state = "ready" \/ pc = "nvme_wait" \/ pc \in SetupAt => machine = "nvme"
    /\ backend = "nvme" => machine = "nvme"
    /\ abandoned # NoRequest => nvme_state = "failed" /\ machine = "nvme"

\* The drive is idle, or wants data nobody asked for, or is being reset.
Calm(d) == /\ d.st \in {"busy", "ready", "drq"} /\ d.cmd = "none" /\ d.left = 0

\* Where the drive is when index sectors have gone through the data port.
ReadAt(d) ==
    \/ /\ d.st = "busy" /\ d.word = NoWord
       /\ d.lba = req.lba + index /\ d.left = req.count - index
    \/ /\ d.st = "drq" /\ index < req.count
       /\ d.lba = req.lba + index + 1 /\ d.left = req.count - index - 1
       /\ req.lba + index < ATA_SECTORS
       /\ d.word = <<sectors[req.lba + index]>>

WriteAt(d) ==
    \/ /\ d.st = "busy" /\ d.word = NoWord
       /\ d.lba = req.lba + index /\ d.left = req.count - index
    \/ /\ d.st = "drq" /\ d.word = NoWord /\ index < req.count
       /\ d.lba = req.lba + index /\ d.left = req.count - index
       /\ req.lba + index < ATA_SECTORS
    \/ /\ d.st = "busy" /\ index > 0 /\ d.word = <<req.data[index - 1]>>
       /\ d.lba = req.lba + index - 1 /\ d.left = req.count - index + 1

\* The first n sectors of the request agree with the medium.
Agree(r, n, sec) == \A i \in 0..(n - 1) : r.data[i] = sec[r.lba + i]

\* The sectors known to be on the medium: all but the one that the drive holds.
Put == IF drive.st = "busy" /\ drive.cmd = "write" /\ drive.word # NoWord THEN index - 1 ELSE index

AtaInv ==
    /\ DOMAIN drive = {"st", "cmd", "lba", "left", "word"}
    /\ drive.st = "ready" => drive = IdleDrive
    /\ index \in Nat /\ attempt \in Nat
    /\ pc \notin AtaAt \/ pc \in {"ata_prepare", "ata_selected"} => index = 0 /\ Calm(drive)
    /\ pc = "ata_selected" => drive.st # "drq"
    /\ pc \in AtaAt => req.count > 0
    /\ pc = "ata_data" => index < req.count /\ drive.st # "ready"
    /\ pc \in {"ata_finish", "ata_flush"} => index = req.count
    /\ pc \in AtaAt /\ index > 0 => req.lba + index - 1 < ATA_SECTORS
    /\ pc \in MoveAt /\ drive.st \notin {"ready", "error"} =>
          /\ drive.cmd = req.fn
          /\ IF Writing THEN WriteAt(drive) ELSE ReadAt(drive)
    /\ pc = "ata_flush" =>
          /\ Writing
          /\ \/ drive.st = "busy" /\ drive.cmd = "flush" /\ drive.left = 0 /\ drive.word = NoWord
             \/ drive.st = "error"
             \/ drive.st = "ready" /\ ~unflushed
    /\ pc \in AtaAt /\ drive.st # "error" => Agree(req, Put, sectors)

\* The controller's side of a completion ring: what it has posted in this
\* round has its phase, the rest still has the other.
PhaseInv(Q) ==
    \A i \in Slots : Q.cq[i].phase = IF i < Q.cq_tail THEN Q.cq_phase ELSE 1 - Q.cq_phase

QueueType(Q) ==
    /\ DOMAIN Q = {"sq_tail", "cq_head", "phase", "sq", "cq", "sq_head", "cq_tail", "cq_phase"}
    /\ Q.sq_tail \in Slots /\ Q.cq_head \in Slots /\ Q.sq_head \in Slots /\ Q.cq_tail \in Slots
    /\ Q.phase \in {0, 1} /\ Q.cq_phase \in {0, 1}
    /\ Q.sq = [i \in Slots |-> Q.sq[i]]
    /\ Q.cq = [i \in Slots |-> Q.cq[i]]

CqInStep(Q) == Q.cq_tail = Q.cq_head /\ Q.cq_phase = Q.phase

\* No command on its way.
InStep(Q) ==
    /\ Q.sq_head = Q.sq_tail /\ CqInStep(Q)
    /\ \A i \in Slots : Q.sq[i] = NoCommand

\* One command that the controller has not taken.
Pending(Q) ==
    /\ Q.sq_tail = Advance(Q.sq_head) /\ CqInStep(Q)
    /\ \A i \in Slots \ {Q.sq_head} : Q.sq[i] = NoCommand

\* One completion that the driver has not seen.
Answered(Q) ==
    /\ Q.sq_head = Q.sq_tail
    /\ Q.cq_tail = Advance(Q.cq_head) /\ Q.cq_phase = NextPhase(Q)
    /\ Q.cq[Q.cq_head].phase = Q.phase
    /\ \A i \in Slots : Q.sq[i] = NoCommand

QueueInv ==
    /\ nq = [q \in {"admin", "io"} |-> nq[q]]
    /\ \A q \in {"admin", "io"} :
          /\ QueueType(nq[q]) /\ PhaseInv(nq[q])
          /\ \/ InStep(nq[q])
             \/ /\ machine = "nvme" /\ ((pc = "nvme_wait" /\ waiting.q = q) \/ nvme_state = "failed")
                /\ Pending(nq[q]) \/ Answered(nq[q])
          /\ pc = "nvme_wait" /\ waiting.q = q => ~InStep(nq[q])

\* The command on its way in a queue.
Cmd(q) == nq[q].sq[nq[q].sq_head]
OnItsWay(q) == nq[q].sq_head # nq[q].sq_tail

\* The completion of q's last command says that it was carried out.
Done(q) == ~OnItsWay(q) /\ nq[q].cq[nq[q].cq_head].ok

\* transfer's loop runs.
Looping == pc \in LoopAt \/ (pc = "nvme_wait" /\ nvme_state = "ready")
\* The place it has reached or reaches with the completion.
At == IF pc = "nvme_wait" THEN waiting.after ELSE pc

PlaceInv ==
    /\ pc \in SetupAt => nvme_state = "untried"
    /\ pc \in LoopAt => nvme_state = "ready"
    /\ pc = "nvme_wait" =>
          \/ nvme_state = "untried" /\ waiting.q = "admin" /\ waiting.after \in SetupAt
          \/ /\ nvme_state = "ready" /\ waiting.q = "io"
             /\ waiting.after \in {"nvme_copy", "nvme_next", "nvme_done"}
             /\ req.fn \in {"read", "write"}
    /\ At \in {"nvme_create_sq", "nvme_created"} \/ nvme_state = "ready" => nvme_sectors = Size
    /\ OnItsWay("admin") => Cmd("admin").op \notin {"read", "write", "flush"}
    /\ bounce = [i \in 0..(MAX_BLOCKS * PER_BLOCK - 1) |-> bounce[i]]

\* Sector s of the medium in the bounce buffer of command c.
Bounced(c, s) == bounce[s - c.block * PER_BLOCK]
Covers(c) == {s \in Medium : c.block * PER_BLOCK <= s /\ s < (c.block + c.blocks) * PER_BLOCK}
In(r) == {s \in Medium : r.lba <= s /\ s < r.lba + r.count}

\* A transfer command on its way.
CommandInv ==
    LET c == Cmd("io")
        owner == IF nvme_state = "failed" THEN abandoned ELSE req
    IN  OnItsWay("io") /\ c.op \in {"read", "write"} =>
          /\ c.block \in Nat /\ c.blocks \in 1..MAX_BLOCKS /\ c.block + c.blocks <= NSZE
          /\ c.op = "write" =>
                /\ owner.fn = "write" /\ Shaped(owner)
                /\ \A s \in Covers(c) :
                      \/ Bounced(c, s) = sectors[s]
                      \/ s \in In(owner) /\ Bounced(c, s) = owner.data[s - owner.lba]

\* The sectors of the turn of the loop.
Turn == {s \in Medium : span.lba <= s /\ s < span.lba + Span}

LoopInv ==
    Looping =>
      /\ span.lba \in Nat /\ span.count \in Nat
      /\ req.lba <= span.lba /\ span.lba + span.count = req.lba + req.count
      /\ req.count > 0 /\ req.lba + req.count <= Size
      /\ Agree(req, span.lba - req.lba, sectors)
      /\ At \in {"nvme_copy", "nvme_next"} => span.count > 0
      /\ At \in {"nvme_next", "nvme_done"} => Writing
      /\ At = "nvme_done" => span.count = 0
      /\ pc = "nvme_wait" /\ OnItsWay("io") =>
            LET c == Cmd("io")
            IN  /\ At = "nvme_copy" => c.op = "read"
                /\ At = "nvme_next" => c.op = "write"
                /\ At = "nvme_done" => c.op = "flush"
                /\ At \in {"nvme_copy", "nvme_next"} => c.block = Block /\ c.blocks = Blocks
                /\ At = "nvme_next" =>
                      \A s \in Turn : Bounced(c, s) = req.data[s - req.lba]
      /\ pc # "nvme_wait" \/ Done("io") =>
            /\ At = "nvme_copy" =>
                  \A i \in 0..(Blocks * PER_BLOCK - 1) : bounce[i] = sectors[Block * PER_BLOCK + i]
            /\ At = "nvme_next" => \A s \in Turn : sectors[s] = req.data[s - req.lba]
            /\ At = "nvme_done" => ~unflushed

FlushInv ==
    pc = "idle" /\ Writing /\ req.result = "ok" =>
        ~unflushed /\ (machine = "nvme" => nvme_state = "ready")

IInv == /\ CallInv /\ MachineInv /\ AtaInv /\ QueueInv /\ PlaceInv /\ CommandInv /\ LoopInv
        /\ FlushInv

-----------------------------------------------------------------------------
(* Lemmas about the operators.                                             *)

\* A ring index moves on to another index; it gets back to 0 from the last.
LEMMA AdvanceLaw ==
    ASSUME NEW i \in Slots
    PROVE  /\ Advance(i) \in Slots /\ Advance(i) # i
           /\ Advance(i) = IF i = QUEUE_ENTRIES - 1 THEN 0 ELSE i + 1
  BY DiskAssumption DEF Advance, Slots

\* Division by the sectors of a block.
LEMMA DivLaw ==
    ASSUME NEW a \in Nat, NEW p \in Nat \ {0}
    PROVE  /\ a \div p \in Nat /\ a % p \in 0..(p - 1)
           /\ a = ((a \div p) * p) + (a % p)
  OBVIOUS

\* A product grows with its factor.
LEMMA Mono ==
    ASSUME NEW p \in Nat \ {0}, NEW a \in Int, NEW b \in Int
    PROVE  /\ a * p \in Int /\ b * p \in Int
           /\ a <= b <=> a * p <= b * p
           /\ a < b <=> a * p < b * p
           /\ (a + b) * p = (a * p) + (b * p)
           /\ (a + 1) * p = (a * p) + p
           /\ (a - b) * p = (a * p) - (b * p)
  <1>1. a * p \in Int /\ b * p \in Int
    OBVIOUS
  <1>2. a <= b => a * p <= b * p
    OBVIOUS
  <1>3. a < b => a * p < b * p
    OBVIOUS
  <1>4. b <= a => b * p <= a * p
    OBVIOUS
  <1>5. b < a => b * p < a * p
    OBVIOUS
  <1>6. (a + b) * p = (a * p) + (b * p)
    OBVIOUS
  <1>7. (a + 1) * p = (a * p) + p
    OBVIOUS
  <1>8. (a - b) * p = (a * p) - (b * p)
    OBVIOUS
  <1> QED BY <1>1, <1>2, <1>3, <1>4, <1>5, <1>6, <1>7, <1>8

\* The sectors of a run of blocks.
LEMMA DivBetween ==
    ASSUME NEW p \in Nat \ {0}, NEW s \in Nat, NEW b \in Nat, NEW n \in Nat
    PROVE  s \div p \in b..(b + n - 1) <=> b * p <= s /\ s < (b + n) * p
  <1> DEFINE d == s \div p
             r == s % p
  <1>1. d \in Nat /\ r \in 0..(p - 1) /\ s = (d * p) + r
    BY Zenon, DivLaw
  <1> HIDE DEF d, r
  <1>2. (d + 1) * p = (d * p) + p /\ d * p \in Int
    BY <1>1, Mono
  <1>3. b <= d => b * p <= d * p
    BY <1>1, Mono
  <1>4. d + 1 <= b => (d + 1) * p <= b * p
    BY <1>1, Mono
  <1>5. d + 1 <= b + n => (d + 1) * p <= (b + n) * p
    BY <1>1, Mono
  <1>6. b + n <= d => (b + n) * p <= d * p
    BY <1>1, Mono
  <1>7. b * p \in Int /\ (b + n) * p \in Int
    BY Mono
  <1>8. d \in b..(b + n - 1) <=> b * p <= s /\ s < (b + n) * p
    <2> DEFINE x == d * p
               y == b * p
               z == (b + n) * p
               w == (d + 1) * p
    <2>1. /\ x \in Int /\ y \in Int /\ z \in Int /\ w = x + p /\ s = x + r
          /\ b <= d => y <= x
          /\ d + 1 <= b => w <= y
          /\ d + 1 <= b + n => w <= z
          /\ b + n <= d => z <= x
      BY Zenon, <1>1, <1>2, <1>3, <1>4, <1>5, <1>6, <1>7
    <2> HIDE DEF x, y, z, w
    <2>2. d \in b..(b + n - 1) <=> y <= s /\ s < z
      BY <1>1, <2>1
    <2> QED BY Zenon, <2>2 DEF y, z
  <1> QED BY Zenon, <1>8 DEF d

\* One turn of transfer's loop, for a span of n sectors from l on: its command
\* starts at a block, the span at an offset in it; the command has a number of
\* blocks, of which sp sectors are the caller's.
TurnOf(l, n, p, m, block, off, blocks, sp) ==
    /\ block \in Nat /\ off \in 0..(p - 1) /\ l = (block * p) + off /\ block * p \in Nat
    /\ blocks \in 1..m /\ blocks * p \in Nat /\ blocks * p <= m * p /\ m * p \in Nat
    /\ sp \in 1..n /\ off + sp <= blocks * p
    /\ (block + blocks) * p = (block * p) + (blocks * p)
    /\ ((blocks - 1) * p) < off + n /\ ((blocks - 1) * p) \in Int

\* transfer's arithmetic for one turn of its loop, for any numbers.
LEMMA Turning ==
    ASSUME NEW l \in Nat, NEW n \in Nat \ {0}, NEW p \in Nat \ {0}, NEW m \in Nat \ {0}
    PROVE  LET block == l \div p
               off == l % p
               blocks == Smaller((off + n + p - 1) \div p, m)
           IN  TurnOf(l, n, p, m, block, off, blocks, Smaller(blocks * p - off, n))
  <1> DEFINE block == l \div p
             off == l % p
             blocks == Smaller((off + n + p - 1) \div p, m)
             sp == Smaller(blocks * p - off, n)
  <1>1. block \in Nat /\ off \in 0..(p - 1) /\ l = (block * p) + off
    BY Zenon, DivLaw
  <1> HIDE DEF block, off
  <1> DEFINE t == off + n + p - 1
             k == t \div p
  <1>2. t \in Nat
    BY <1>1
  <1>3. k \in Nat /\ t % p \in 0..(p - 1) /\ t = (k * p) + (t % p)
    BY Zenon, <1>2, DivLaw
  <1>4. blocks = IF k < m THEN k ELSE m
    BY Zenon DEF Smaller
  <1> HIDE DEF blocks
  <1>5. k >= 1
    <2>1. t >= p /\ k * p \in Int
      BY <1>1, <1>3
    <2>2. k * p > 0
      BY <2>1, <1>3, <1>2
    <2>3. k < 1 => k * p < 1 * p /\ k = 0
      BY <1>3, Mono
    <2> QED BY <2>2, <2>3, <1>3
  <1> HIDE DEF k
  <1>6. blocks \in 1..m /\ blocks <= k
    BY <1>3, <1>4, <1>5
  <1>7. blocks * p \in Int /\ blocks * p <= m * p /\ 1 * p <= blocks * p /\ m * p \in Int
    BY <1>6, Mono
  <1>8. (blocks - 1) * p = (blocks * p) - p
    <2>1. (blocks - 1) * p = (blocks * p) - (1 * p)
      BY <1>6, Mono
    <2> QED BY <2>1
  <1>9. blocks * p <= k * p /\ k * p \in Int
    BY <1>3, <1>6, Mono
  <1>10. sp = IF (blocks * p) - off < n THEN (blocks * p) - off ELSE n
    BY Zenon DEF Smaller
  <1> HIDE DEF sp
  <1>11. (block + blocks) * p = (block * p) + (blocks * p) /\ block * p \in Int
    BY <1>1, <1>6, Mono
  <1>12. block * p \in Nat
    BY <1>1
  <1> DEFINE x == blocks * p
             y == m * p
             z == k * p
             w == (blocks - 1) * p
             r == t % p
  <1>13. /\ x \in Int /\ x <= y /\ p <= x /\ y \in Int /\ x <= z /\ z \in Int
         /\ w = x - p
         /\ sp = IF x - off < n THEN x - off ELSE n
    BY <1>7, <1>8, <1>9, <1>10
  <1>14. off + n + p - 1 = z + r /\ r \in 0..(p - 1)
    BY Zenon, <1>3
  <1> HIDE DEF x, y, z, w, r, t
  <1>15. x \in Nat /\ y \in Nat /\ w \in Int
    BY <1>13
  <1>16. w < off + n
    BY <1>1, <1>13, <1>14
  <1>17. sp \in 1..n /\ off + sp <= x
    BY <1>1, <1>13
  <1> QED BY Zenon, <1>1, <1>6, <1>11, <1>12, <1>13, <1>15, <1>16, <1>17 
          DEF TurnOf, x, y, w, block, off, blocks, sp

-----------------------------------------------------------------------------
(* A queue pair.                                                           *)

Sound(Q) == QueueType(Q) /\ PhaseInv(Q)

\* What execute, the controller and the end of execute make of a queue.
Submitted(Q, c) == [Q EXCEPT !.sq[Q.sq_tail] = c, !.sq_tail = Advance(@)]
Processed(Q, e) ==
    [Q EXCEPT !.sq[Q.sq_head] = NoCommand, !.sq_head = Advance(@),
              !.cq[Q.cq_tail] = e, !.cq_tail = Advance(@),
              !.cq_phase = IF Advance(Q.cq_tail) = 0 THEN 1 - @ ELSE @]
Seen(Q) == [Q EXCEPT !.cq_head = Advance(@), !.phase = NextPhase(Q)]

\* A new queue is in step.
LEMMA SetupLaw == Sound(queue_setup) /\ InStep(queue_setup)
  BY DiskAssumption
  DEF Sound, InStep, QueueType, PhaseInv, CqInStep, queue_setup, Slots

\* A command put in a queue that is in step is the one on its way.
LEMMA SubmitLaw ==
    ASSUME NEW Q, Sound(Q), InStep(Q), NEW c
    PROVE  LET R == Submitted(Q, c)
           IN  /\ Sound(R) /\ Pending(R)
               /\ R.sq_head # R.sq_tail /\ R.sq[R.sq_head] = c
  <1> DEFINE R == Submitted(Q, c)
  <1>1. /\ R.sq_tail = Advance(Q.sq_tail) /\ R.cq_head = Q.cq_head /\ R.phase = Q.phase
        /\ R.sq = [Q.sq EXCEPT ![Q.sq_tail] = c]
        /\ R.cq = Q.cq /\ R.sq_head = Q.sq_head /\ R.cq_tail = Q.cq_tail
        /\ R.cq_phase = Q.cq_phase
        /\ DOMAIN R = DOMAIN Q
    BY Zenon DEF Submitted, Sound, QueueType
  <1> HIDE DEF R
  <1>2. Advance(Q.sq_tail) \in Slots /\ Advance(Q.sq_tail) # Q.sq_tail
    BY Zenon, AdvanceLaw DEF Sound, QueueType
  <1>3. QueueType(R)
    <2>1. R.sq = [i \in Slots |-> R.sq[i]]
      BY Zenon, <1>1 DEF Sound, QueueType
    <2> QED BY Zenon, <1>1, <1>2, <2>1 DEF Sound, QueueType
  <1>4. PhaseInv(R)
    BY Zenon, <1>1 DEF Sound, PhaseInv
  <1>5. Q.sq_tail = Q.sq_head /\ Q.sq_head \in Slots
    BY Zenon DEF InStep, Sound, QueueType
  <1>6. R.sq[R.sq_head] = c /\ \A i \in Slots \ {R.sq_head} : R.sq[i] = NoCommand
    BY Zenon, <1>1, <1>5 DEF InStep, Sound, QueueType
  <1>7. Pending(R)
    BY Zenon, <1>1, <1>5, <1>6 DEF Pending, InStep, CqInStep
  <1> QED BY Zenon, <1>1, <1>2, <1>3, <1>4, <1>5, <1>6, <1>7 DEF Sound, R

\* The controller's answer to the command on its way is the completion that
\* the driver polls for.
LEMMA ProcessLaw ==
    ASSUME NEW Q, Sound(Q), Pending(Q), NEW e, e.phase = Q.cq_phase
    PROVE  LET R == Processed(Q, e)
           IN  /\ Sound(R) /\ Answered(R)
               /\ R.sq_head = R.sq_tail /\ R.cq[R.cq_head] = e
  <1> DEFINE R == Processed(Q, e)
  <1>1. /\ R.sq_tail = Q.sq_tail /\ R.cq_head = Q.cq_head /\ R.phase = Q.phase
        /\ R.sq = [Q.sq EXCEPT ![Q.sq_head] = NoCommand]
        /\ R.cq = [Q.cq EXCEPT ![Q.cq_tail] = e]
        /\ R.sq_head = Advance(Q.sq_head) /\ R.cq_tail = Advance(Q.cq_tail)
        /\ R.cq_phase = IF Advance(Q.cq_tail) = 0 THEN 1 - Q.cq_phase ELSE Q.cq_phase
        /\ DOMAIN R = DOMAIN Q
    BY Zenon DEF Processed, Sound, QueueType
  <1> HIDE DEF R
  <1>2. /\ Q.cq_tail \in Slots /\ Q.sq_head \in Slots /\ Q.cq_phase \in {0, 1}
        /\ Q.cq_head = Q.cq_tail /\ Q.phase = Q.cq_phase /\ Q.sq_tail = Advance(Q.sq_head)
    BY Zenon DEF Sound, QueueType, Pending, CqInStep
  <1>3. /\ Advance(Q.cq_tail) \in Slots /\ Advance(Q.sq_head) \in Slots
        /\ Advance(Q.cq_tail) = IF Q.cq_tail = QUEUE_ENTRIES - 1 THEN 0 ELSE Q.cq_tail + 1
    BY Zenon, <1>2, AdvanceLaw
  <1>4. QueueType(R)
    <2>1. R.sq = [i \in Slots |-> R.sq[i]] /\ R.cq = [i \in Slots |-> R.cq[i]]
      BY Zenon, <1>1 DEF Sound, QueueType
    <2>2. R.cq_phase \in {0, 1}
      BY <1>1, <1>2
    <2> QED BY Zenon, <1>1, <1>2, <1>3, <2>1, <2>2 DEF Sound, QueueType
  <1>5. PhaseInv(R)
    <2> SUFFICES ASSUME NEW i \in Slots
                 PROVE  R.cq[i].phase = IF i < R.cq_tail THEN R.cq_phase ELSE 1 - R.cq_phase
      BY Zenon DEF PhaseInv
    <2> DEFINE x == R.cq[i].phase
               y == Q.cq[i].phase
    <2>1. /\ x = IF i = Q.cq_tail THEN Q.cq_phase ELSE y
          /\ y = IF i < Q.cq_tail THEN Q.cq_phase ELSE 1 - Q.cq_phase
      BY Zenon, <1>1 DEF Sound, QueueType, PhaseInv
    <2> HIDE DEF x, y
    <2>2. x = IF i < R.cq_tail THEN R.cq_phase ELSE 1 - R.cq_phase
      <3> DEFINE u == Q.cq_tail
                 v == Q.cq_phase
                 a == R.cq_tail
                 b == R.cq_phase
      <3>1. /\ u \in 0..(QUEUE_ENTRIES - 1) /\ v \in {0, 1} /\ i \in 0..(QUEUE_ENTRIES - 1)
            /\ a = IF u = QUEUE_ENTRIES - 1 THEN 0 ELSE u + 1
            /\ b = IF a = 0 THEN 1 - v ELSE v
            /\ x = IF i = u THEN v ELSE y
            /\ y = IF i < u THEN v ELSE 1 - v
        BY Zenon, <1>1, <1>2, <1>3, <2>1 DEF Slots
      <3> HIDE DEF u, v, a, b
      <3>2. x = IF i < a THEN b ELSE 1 - b
        BY <3>1, DiskAssumption
      <3> QED BY Zenon, <3>2 DEF a, b
    <2> QED BY Zenon, <2>2 DEF x
  <1>6. R.cq[R.cq_head] = e
    BY Zenon, <1>1, <1>2 DEF Sound, QueueType
  <1>7. \A i \in Slots : R.sq[i] = NoCommand
    BY <1>1 DEF Pending, Sound, QueueType
  <1>8. R.cq_phase = NextPhase(R) /\ R.cq_tail = Advance(R.cq_head)
    BY Zenon, <1>1, <1>2 DEF NextPhase
  <1>9. Answered(R)
    BY Zenon, <1>1, <1>2, <1>6, <1>7, <1>8 DEF Answered
  <1> QED BY Zenon, <1>1, <1>2, <1>4, <1>5, <1>6, <1>9 DEF Sound, R

\* Once the completion has been taken the queue is in step again.
LEMMA SeenLaw ==
    ASSUME NEW Q, Sound(Q), Answered(Q)
    PROVE  Sound(Seen(Q)) /\ InStep(Seen(Q))
  <1> DEFINE R == Seen(Q)
  <1>1. /\ R.sq_tail = Q.sq_tail /\ R.cq_head = Advance(Q.cq_head) /\ R.phase = NextPhase(Q)
        /\ R.sq = Q.sq /\ R.cq = Q.cq
        /\ R.sq_head = Q.sq_head /\ R.cq_tail = Q.cq_tail /\ R.cq_phase = Q.cq_phase
        /\ DOMAIN R = DOMAIN Q
    BY Zenon DEF Seen, Sound, QueueType
  <1> HIDE DEF R
  <1>2. Advance(Q.cq_head) \in Slots
    BY Zenon, AdvanceLaw DEF Sound, QueueType
  <1>3. R.phase \in {0, 1}
    BY <1>1 DEF Sound, QueueType, NextPhase
  <1>4. QueueType(R)
    BY Zenon, <1>1, <1>2, <1>3 DEF Sound, QueueType
  <1>5. PhaseInv(R)
    BY Zenon, <1>1 DEF Sound, PhaseInv
  <1>6. InStep(R)
    BY Zenon, <1>1 DEF InStep, Answered, CqInStep
  <1> QED BY Zenon, <1>4, <1>5, <1>6 DEF Sound, R

\* The entry to be polled looks finished only if there is a completion.
LEMMA PollLaw ==
    ASSUME NEW Q, Sound(Q)
    PROVE  /\ CqInStep(Q) => Q.cq[Q.cq_head].phase # Q.phase
           /\ Pending(Q) => Q.sq_head # Q.sq_tail /\ ~Answered(Q) /\ ~InStep(Q)
           /\ Answered(Q) => Q.sq_head = Q.sq_tail /\ ~InStep(Q)
           /\ InStep(Q) => Q.sq_head = Q.sq_tail
  <1>1. CqInStep(Q) => Q.cq[Q.cq_head].phase # Q.phase
    <2> SUFFICES ASSUME CqInStep(Q) PROVE Q.cq[Q.cq_head].phase # Q.phase
      BY Zenon
    <2>1. Q.cq_head \in Slots /\ Q.cq_phase \in {0, 1} /\ Q.cq_tail = Q.cq_head /\ Q.cq_phase = Q.phase
      BY Zenon DEF Sound, QueueType, CqInStep
    <2>2. Q.cq[Q.cq_head].phase = IF Q.cq_head < Q.cq_tail THEN Q.cq_phase ELSE 1 - Q.cq_phase
      BY Zenon, <2>1 DEF Sound, PhaseInv
    <2> QED BY <2>1, <2>2 DEF Slots
  <1>2. Pending(Q) => Q.sq_head # Q.sq_tail
    BY Zenon, AdvanceLaw DEF Pending, Sound, QueueType
  <1>3. Answered(Q) => Q.cq_head # Q.cq_tail
    BY Zenon, AdvanceLaw DEF Answered, Sound, QueueType
  <1> QED BY Zenon, <1>1, <1>2, <1>3 DEF Pending, Answered, InStep, CqInStep

-----------------------------------------------------------------------------
(* What the steps do to the queues.                                        *)

QueueNames == {"admin", "io"}

\* All queues are in step.
Level(qs) ==
    /\ qs = [z \in QueueNames |-> qs[z]]
    /\ \A z \in QueueNames : Sound(qs[z]) /\ InStep(qs[z])

\* Between commands of a controller that has not failed all queues are in step.
LEMMA LevelLaw ==
    ASSUME QueueInv, pc # "nvme_wait", nvme_state # "failed"
    PROVE  Level(nq)
  BY Zenon DEF QueueInv, Level, QueueNames, Sound

\* execute, up to the doorbell.
LEMMA SubmitStep ==
    ASSUME NEW qs, Level(qs), NEW q \in QueueNames, NEW op, NEW block, NEW blocks, NEW after,
           Submit(qs, q, op, block, blocks, after), machine' = "nvme"
    PROVE  /\ QueueInv'
           /\ OnItsWay(q)' /\ \A z \in QueueNames \ {q} : ~OnItsWay(z)'
           /\ Cmd(q)'.op = op /\ Cmd(q)'.block = block /\ Cmd(q)'.blocks = blocks
           /\ waiting' = [q |-> q, id |-> command_id, after |-> after]
           /\ pc' = "nvme_wait" /\ req' = req
  <1> DEFINE c == [op |-> op, id |-> command_id, block |-> block, blocks |-> blocks]
             Q == qs[q]
  <1>1. Sound(Q) /\ InStep(Q)
    BY Zenon DEF Level
  <1>2. nq' = [z \in QueueNames |-> IF z = q THEN Submitted(Q, c) ELSE qs[z]]
    BY Zenon DEF Submit, Submitted, Level, QueueNames
  <1> HIDE DEF c, Q
  <1>3. /\ Sound(nq'[q]) /\ Pending(nq'[q])
        /\ nq'[q].sq_head # nq'[q].sq_tail /\ nq'[q].sq[nq'[q].sq_head] = c
    BY ZenonT(60), <1>1, <1>2, SubmitLaw
  <1>4. \A z \in QueueNames \ {q} : nq'[z] = qs[z]
    BY Zenon, <1>2
  <1>5. \A z \in QueueNames \ {q} : Sound(nq'[z]) /\ InStep(nq'[z])
    BY Zenon, <1>4 DEF Level
  <1>6. /\ pc' = "nvme_wait" /\ req' = req
        /\ waiting' = [q |-> q, id |-> command_id, after |-> after]
    BY Zenon DEF Submit, Goto
  <1>7. ~InStep(nq'[q])
    BY Zenon, <1>3, PollLaw
  <1>8. nq' = [z \in QueueNames |-> nq'[z]]
    BY Zenon, <1>2
  <1>9. waiting'.q = q
    BY Zenon, <1>6
  <1>10. QueueInv'
    <2> SUFFICES ASSUME NEW z \in QueueNames
                 PROVE  /\ Sound(nq'[z])
                        /\ \/ InStep(nq'[z])
                           \/ /\ (pc' = "nvme_wait" /\ waiting'.q = z) \/ nvme_state' = "failed"
                              /\ Pending(nq'[z]) \/ Answered(nq'[z])
                        /\ pc' = "nvme_wait" /\ waiting'.q = z => ~InStep(nq'[z])
      BY Zenon, <1>8 DEF QueueInv, QueueNames, Sound
    <2>1. CASE z = q
      BY Zenon, <2>1, <1>3, <1>6, <1>7, <1>9
    <2>2. CASE z # q
      BY Zenon, <2>2, <1>5, <1>9
    <2> QED BY Zenon, <2>1, <2>2
  <1>11. \A z \in QueueNames \ {q} : ~OnItsWay(z)'
    BY Zenon, <1>5, PollLaw DEF OnItsWay
  <1>12. OnItsWay(q)' /\ Cmd(q)' = c
    BY Zenon, <1>3 DEF OnItsWay, Cmd
  <1> QED BY <1>6, <1>10, <1>11, <1>12 DEF c

\* The controller takes the command on its way.
LEMMA DeviceStep ==
    ASSUME QueueInv, NEW q \in QueueNames, nvme_device(q)
    PROVE  /\ QueueInv'
           /\ OnItsWay(q) /\ ~OnItsWay(q)'
           /\ machine = "nvme" /\ ((pc = "nvme_wait" /\ waiting.q = q) \/ nvme_state = "failed")
           /\ \A z \in QueueNames \ {q} : nq'[z] = nq[z]
           /\ nq'[q].cq_head = nq[q].cq_head
           /\ \E ok \in BOOLEAN :
                /\ nq'[q].cq[nq'[q].cq_head].ok = ok
                /\ LET c == Cmd(q)
                   IN  /\ IF c.op = "write"
                          THEN \E done \in 0..c.blocks * PER_BLOCK :
                                 /\ ok => done = c.blocks * PER_BLOCK
                                 /\ sectors' = Written(c, done)
                                 /\ unflushed' = TRUE
                          ELSE /\ unflushed' = (unflushed /\ ~(c.op = "flush" /\ ok))
                               /\ UNCHANGED sectors
                       /\ bounce' = IF c.op # "read" THEN bounce
                                    ELSE [i \in DOMAIN bounce |->
                                            LET s == c.block * PER_BLOCK + i
                                            IN  IF s \in CommandSectors(c) THEN sectors[s]
                                                ELSE bounce[i]]
  <1> DEFINE Q == nq[q]
             c == Q.sq[Q.sq_head]
  <1>1. Q.sq_head # Q.sq_tail
    BY Zenon DEF nvme_device
  <1>2. /\ Sound(Q) /\ Pending(Q)
        /\ machine = "nvme" /\ ((pc = "nvme_wait" /\ waiting.q = q) \/ nvme_state = "failed")
    BY Zenon, <1>1 DEF QueueInv, QueueNames, Sound, InStep, Answered
  <1>3. PICK ok \in BOOLEAN :
             /\ nq' = [nq EXCEPT
                  ![q].sq[Q.sq_head] = NoCommand,
                  ![q].sq_head = Advance(@),
                  ![q].cq[Q.cq_tail] = [phase |-> Q.cq_phase, id |-> c.id, ok |-> ok],
                  ![q].cq_tail = Advance(@),
                  ![q].cq_phase = IF Advance(Q.cq_tail) = 0 THEN 1 - @ ELSE @]
             /\ IF c.op = "write"
                THEN \E done \in 0..c.blocks * PER_BLOCK :
                       /\ ok => done = c.blocks * PER_BLOCK
                       /\ sectors' = Written(c, done)
                       /\ unflushed' = TRUE
                ELSE /\ unflushed' = (unflushed /\ ~(c.op = "flush" /\ ok))
                     /\ UNCHANGED sectors
             /\ bounce' = IF c.op # "read" THEN bounce
                          ELSE [i \in DOMAIN bounce |->
                                  LET s == c.block * PER_BLOCK + i
                                  IN  IF s \in CommandSectors(c) THEN sectors[s] ELSE bounce[i]]
    BY Zenon DEF nvme_device
  <1> DEFINE e == [phase |-> Q.cq_phase, id |-> c.id, ok |-> ok]
  <1>4. nq' = [z \in QueueNames |-> IF z = q THEN Processed(Q, e) ELSE nq[z]]
    <2>1. nq = [z \in QueueNames |-> nq[z]]
      BY Zenon DEF QueueInv, QueueNames
    <2>2. nq' = [nq EXCEPT
                  ![q].sq[nq[q].sq_head] = NoCommand,
                  ![q].sq_head = Advance(@),
                  ![q].cq[nq[q].cq_tail] = e,
                  ![q].cq_tail = Advance(@),
                  ![q].cq_phase = IF Advance(nq[q].cq_tail) = 0 THEN 1 - @ ELSE @]
      BY Zenon, <1>3
    <2> HIDE DEF e
    <2> QED BY ZenonT(60), <2>1, <2>2 DEF Processed
  <1>5. e.phase = Q.cq_phase /\ e.ok = ok
    BY Zenon
  <1> HIDE DEF e
  <1>6. /\ Sound(nq'[q]) /\ Answered(nq'[q])
        /\ nq'[q].sq_head = nq'[q].sq_tail /\ nq'[q].cq[nq'[q].cq_head] = e
    BY <1>2, <1>4, <1>5, ProcessLaw
  <1>7. \A z \in QueueNames \ {q} : nq'[z] = nq[z]
    BY Zenon, <1>4
  <1>8. UNCHANGED <<machine, req, pc, nvme_state, waiting>>
    BY Zenon DEF nvme_device
  <1>9. nq' = [z \in QueueNames |-> nq'[z]] /\ nq'[q].cq_head = Q.cq_head
    BY Zenon, <1>2, <1>4 DEF Processed, Sound, QueueType
  <1>10. QueueInv'
    <2> SUFFICES ASSUME NEW z \in QueueNames
                 PROVE  /\ Sound(nq'[z])
                        /\ \/ InStep(nq'[z])
                           \/ /\ machine' = "nvme"
                              /\ (pc' = "nvme_wait" /\ waiting'.q = z) \/ nvme_state' = "failed"
                              /\ Pending(nq'[z]) \/ Answered(nq'[z])
                        /\ pc' = "nvme_wait" /\ waiting'.q = z => ~InStep(nq'[z])
      BY Zenon, <1>9 DEF QueueInv, QueueNames, Sound
    <2>1. CASE z = q
      <3>1. ~InStep(nq'[q])
        BY Zenon, <1>6, PollLaw
      <3> QED BY Zenon, <2>1, <3>1, <1>2, <1>6, <1>8
    <2>2. CASE z # q
      BY Zenon, <2>2, <1>7, <1>8 DEF QueueInv, QueueNames, Sound
    <2> QED BY Zenon, <2>1, <2>2
  <1>11. OnItsWay(q) /\ ~OnItsWay(q)' /\ Cmd(q) = c
    BY Zenon, <1>1, <1>6 DEF OnItsWay, Cmd
  <1>12. nq'[q].cq[nq'[q].cq_head].ok = ok
    BY Zenon, <1>5, <1>6
  <1> HIDE DEF Q, c
  <1> QED BY Zenon, <1>2, <1>3, <1>7, <1>9, <1>10, <1>11, <1>12 DEF Q

-----------------------------------------------------------------------------
(* What most steps leave alone.                                            *)

\* Queues in step carry no command.
LEMMA LevelQuiet ==
    ASSUME NEW qs, Level(qs), NEW q \in QueueNames
    PROVE  qs[q].sq_head = qs[q].sq_tail
  BY Zenon, PollLaw DEF Level

\* Outside execute, queues in step are as QueueInv has them.
LEMMA LevelQueueInv ==
    ASSUME Level(nq'), pc' # "nvme_wait"
    PROVE  QueueInv'
  BY Zenon DEF QueueInv, Level, QueueNames, Sound

\* The end of execute: the completion seen was that of its command, and all
\* queues are in step again.
LEMMA SeenStep ==
    ASSUME QueueInv, PlaceInv, pc = "nvme_wait", Completed,
           nq' = [nq EXCEPT ![waiting.q].cq_head = Advance(@),
                            ![waiting.q].phase = NextPhase(nq[waiting.q])]
    PROVE  Level(nq') /\ ~OnItsWay(waiting.q) /\ waiting.q \in QueueNames
  <1> DEFINE q == waiting.q
  <1>1. q \in QueueNames /\ nvme_state # "failed"
    BY Zenon DEF PlaceInv, QueueNames
  <1>2. Sound(nq[q]) /\ (Pending(nq[q]) \/ Answered(nq[q]))
    BY Zenon, <1>1 DEF QueueInv, QueueNames, Sound
  <1>3. Answered(nq[q])
    <2>1. ~CqInStep(nq[q])
      BY Zenon, <1>2, PollLaw DEF Completed, Entry
    <2> QED BY Zenon, <1>2, <2>1 DEF Pending
  <1>4. nq' = [z \in QueueNames |-> IF z = q THEN Seen(nq[q]) ELSE nq[z]]
    <2>1. nq = [z \in QueueNames |-> nq[z]]
      BY Zenon DEF QueueInv, QueueNames
    <2> QED BY Zenon, <1>1, <2>1 DEF Seen
  <1>5. Sound(nq'[q]) /\ InStep(nq'[q])
    <2>1. nq'[q] = Seen(nq[q])
      BY Zenon, <1>1, <1>4
    <2>2. Sound(Seen(nq[q])) /\ InStep(Seen(nq[q]))
      BY Zenon, <1>2, <1>3, SeenLaw
    <2> QED BY Zenon, <2>1, <2>2
  <1>6. \A z \in QueueNames \ {q} : Sound(nq'[z]) /\ InStep(nq'[z])
    <2>1. \A z \in QueueNames \ {q} : nq'[z] = nq[z]
      BY Zenon, <1>4
    <2> QED BY Zenon, <1>1, <2>1 DEF QueueInv, QueueNames, Sound
  <1>7. nq' = [z \in QueueNames |-> nq'[z]]
    BY Zenon, <1>4
  <1>8. ~OnItsWay(q)
    BY Zenon, <1>2, <1>3, PollLaw DEF OnItsWay
  <1> QED BY Zenon, <1>1, <1>5, <1>6, <1>7, <1>8 DEF Level

Hot == {"nvme_wait"} \cup SetupAt \cup LoopAt

\* The invariants of the NVMe driver.
NvmeInv == QueueInv /\ PlaceInv /\ CommandInv /\ LoopInv

\* Steps outside the NVMe driver do not disturb it, nor a command that it has
\* given up on.
LEMMA NvmeFrame ==
    ASSUME IInv, UNCHANGED nvmeVars, machine' = machine, pc \notin Hot, pc' \notin Hot,
           sectors' = sectors \/ machine # "nvme"
    PROVE  NvmeInv'
  <1> USE DEF nvmeVars
  <1>1. nq' = nq /\ waiting' = waiting /\ nvme_state' = nvme_state
    BY Zenon
  <1>2. pc # "nvme_wait" /\ pc' # "nvme_wait" /\ pc' \notin SetupAt /\ pc' \notin LoopAt
    BY Zenon DEF Hot
  <1>3. QueueInv'
    BY Zenon, <1>1, <1>2 DEF IInv, QueueInv
  <1>4. At' = pc' /\ At = pc
    BY Zenon, <1>2 DEF At
  <1>5. pc' \notin {"nvme_create_sq", "nvme_created"}
    BY Zenon, <1>2 DEF SetupAt
  <1>6. PlaceInv'
    BY Zenon, <1>1, <1>2, <1>4, <1>5 DEF IInv, PlaceInv, OnItsWay, Cmd
  <1>7. LoopInv'
    BY Zenon, <1>2 DEF LoopInv, Looping
  <1>8. CommandInv'
    <2>1. CASE OnItsWay("io")
      <3>1. ~InStep(nq["io"])
        BY Zenon, <2>1 DEF OnItsWay, InStep
      <3>2. machine = "nvme" /\ nvme_state = "failed"
        BY Zenon, <1>2, <3>1 DEF IInv, QueueInv
      <3>3. sectors' = sectors
        BY Zenon, <3>2
      <3> QED BY Zenon, <1>1, <3>2, <3>3 DEF IInv, CommandInv, OnItsWay, Cmd, Bounced, Covers
    <2>2. CASE ~OnItsWay("io")
      BY Zenon, <1>1, <2>2 DEF CommandInv, OnItsWay
    <2> QED BY Zenon, <2>1, <2>2
  <1> QED BY Zenon, <1>3, <1>6, <1>7, <1>8 DEF NvmeInv

\* Steps outside the ATA driver do not disturb it.
LEMMA AtaFrame ==
    ASSUME AtaInv, UNCHANGED ataVars, pc \notin AtaAt, pc' \notin AtaAt
    PROVE  AtaInv'
  <1>1. UNCHANGED <<drive, attempt, index>>
    BY Zenon DEF ataVars
  <1>2. pc' \notin MoveAt /\ pc' \notin {"ata_prepare", "ata_selected", "ata_data", "ata_finish", "ata_flush"}
    BY Zenon DEF AtaAt, MoveAt
  <1> QED BY Zenon, <1>1, <1>2 DEF AtaInv, Calm

\* The driver returns to its caller.
LEMMA ReturnLaw ==
    ASSUME Shaped(req), NEW code, Return(code)
    PROVE  /\ pc' = "idle" /\ Shaped(req') /\ req'.result = code
           /\ req'.fn = req.fn /\ req'.lba = req.lba /\ req'.count = req.count
           /\ req'.data = req.data
  BY Zenon DEF Return, Shaped

-----------------------------------------------------------------------------
(* The ATA driver and the drive.                                           *)

\* Which disk there is does not change, nor which driver talks to it.
LEMMA MachineFrame ==
    ASSUME MachineInv, UNCHANGED <<machine, backend, nvme_state, abandoned>>,
           pc' \in {"ata_start"} \cup AtaAt => machine = "ata",
           pc' \in {"nvme_wait"} \cup SetupAt => machine = "nvme"
    PROVE  MachineInv'
  BY Zenon DEF MachineInv

\* An attempt is given up: the drive is calm and nothing else has changed.
LEMMA RetryLaw ==
    ASSUME IInv, pc \in AtaAt, Retry
    PROVE  CallInv' /\ AtaInv' /\ FlushInv' /\ pc' \in {"idle", "ata_prepare"}
  <1>1. /\ drive' = [IdleDrive EXCEPT !.st = "busy"] /\ index' = 0
        /\ UNCHANGED <<machine, sectors, unflushed>>
    BY Zenon DEF Retry, ata_reset
  <1>2. /\ DOMAIN drive' = {"st", "cmd", "lba", "left", "word"}
        /\ drive'.st = "busy" /\ drive'.cmd = "none" /\ drive'.left = 0 /\ drive'.word = NoWord
    BY Zenon, <1>1 DEF IdleDrive, Drive
  <1>3. /\ (pc' = "ata_prepare" /\ req' = req) \/ Return("error")
        /\ attempt' \in Nat
    BY DEF Retry, Goto, IInv, AtaInv
  <1>4. /\ Shaped(req') /\ req'.fn = req.fn /\ req'.lba = req.lba /\ req'.count = req.count
        /\ req'.data = req.data
        /\ \/ pc' = "ata_prepare" /\ req'.result = req.result
           \/ pc' = "idle" /\ req'.result = "error"
    <2>1. Shaped(req)
      BY Zenon DEF IInv, CallInv
    <2>2. CASE Return("error")
      BY Zenon, <2>1, <2>2, ReturnLaw
    <2>3. CASE ~Return("error")
      BY Zenon, <1>3, <2>1, <2>3
    <2> QED BY Zenon, <2>2, <2>3
  <1>5. req.fn \in {"read", "write"} /\ req.result = "none" /\ req.count > 0
    BY Zenon DEF IInv, CallInv, AtaInv, AtaAt, MoveAt
  <1>6. CallInv'
    BY Zenon, <1>1, <1>4, <1>5 DEF IInv, CallInv, Places, AtaAt, MoveAt, LoopAt
  <1>7. AtaInv'
    <2>1. pc' \in {"idle", "ata_prepare"}
      BY Zenon, <1>4
    <2>2. Agree(req', 0, sectors') /\ Put' = 0
      BY <1>1, <1>2 DEF Agree, Put
    <2> QED BY <1>1, <1>2, <1>3, <1>4, <1>5, <2>1, <2>2 DEF AtaInv, Calm, AtaAt, MoveAt, Put
  <1>8. FlushInv'
    BY Zenon, <1>4 DEF FlushInv
  <1> QED BY Zenon, <1>4, <1>6, <1>7, <1>8

\* The end of a step of the ATA driver.
LEMMA AtaStepFrame ==
    ASSUME IInv, UNCHANGED <<machine, sectors, nvmeVars, diskVars>>,
           pc \in {"ata_start"} \cup AtaAt, pc' \in {"idle"} \cup AtaAt,
           CallInv', AtaInv', FlushInv'
    PROVE  IInv'
  <1>1. pc \notin Hot /\ pc' \notin Hot
    BY Zenon DEF Hot, AtaAt, MoveAt, SetupAt, LoopAt
  <1>2. NvmeInv'
    BY Zenon, <1>1, NvmeFrame
  <1>3. machine = "ata"
    BY Zenon DEF IInv, MachineInv
  <1>4. pc' \notin {"nvme_wait"} \cup SetupAt
    BY Zenon DEF AtaAt, MoveAt, SetupAt
  <1>5. MachineInv'
    BY Zenon, <1>3, <1>4, MachineFrame DEF IInv, nvmeVars, diskVars
  <1> QED BY Zenon, <1>2, <1>5 DEF IInv, NvmeInv

\* ata_read_sectors and ata_write_sectors keep the invariant up to their loop.
LEMMA AtaStart ==
    ASSUME IInv, ata_start, UNCHANGED <<nvmeVars, diskVars>>
    PROVE  IInv'
  <1>1. /\ pc = "ata_start" /\ UNCHANGED <<machine, sectors, unflushed, drive, attempt, index>>
        /\ \/ Return("error")
           \/ pc' = "ata_prepare" /\ req' = req /\ req.count > 0
    BY DEF ata_start, ataVars, Goto, IInv, CallInv, Shaped
  <1>2. req.fn \in {"read", "write"} /\ req.result = "none"
    BY Zenon, <1>1 DEF IInv, CallInv
  <1>3. /\ Shaped(req') /\ req'.fn = req.fn /\ req'.lba = req.lba /\ req'.count = req.count
        /\ \/ pc' = "ata_prepare" /\ req'.result = req.result /\ req.count > 0
           \/ pc' = "idle" /\ req'.result = "error"
    BY Zenon, <1>1, ReturnLaw DEF IInv, CallInv
  <1>4. CallInv'
    BY Zenon, <1>1, <1>2, <1>3 DEF IInv, CallInv, Places, AtaAt, MoveAt, LoopAt
  <1>5. Calm(drive) /\ index = 0
    BY Zenon, <1>1 DEF IInv, AtaInv, AtaAt, MoveAt
  <1>6. AtaInv'
    <2>1. Put' = 0 /\ Agree(req', 0, sectors')
      BY <1>1, <1>5 DEF Calm, Put, Agree
    <2> QED BY <1>1, <1>3, <1>5, <2>1 DEF IInv, AtaInv, Calm, AtaAt, MoveAt, Put
  <1>7. FlushInv'
    BY Zenon, <1>3 DEF FlushInv
  <1> QED BY Zenon, <1>1, <1>3, <1>4, <1>6, <1>7, AtaStepFrame DEF AtaAt, MoveAt

\* So do ata_select and the command, an attempt given up included.
LEMMA AtaPrepare ==
    ASSUME IInv, Nameable(req), ata_prepare, UNCHANGED <<nvmeVars, diskVars>>
    PROVE  IInv'
  <1>1. pc \in {"ata_prepare", "ata_selected"} /\ pc \in AtaAt
    BY Zenon DEF ata_prepare, AtaAt
  <1>2. CASE Retry
    BY Zenon, <1>1, <1>2, RetryLaw, AtaStepFrame DEF Retry, ata_reset, AtaAt
  <1>3. CASE ~Retry
    <2>1. /\ req' = req /\ UNCHANGED <<machine, sectors, unflushed, attempt, index>>
          /\ drive.st # "busy"
          /\ \/ pc = "ata_prepare" /\ drive.st = "drq" /\ pc' = "ata_selected"
                /\ drive' = [IdleDrive EXCEPT !.st = "busy"]
             \/ /\ ~(pc = "ata_prepare" /\ drive.st = "drq")
                /\ pc' = "ata_data" /\ Command(req.fn, req.lba, req.count)
      BY Zenon, <1>3 DEF ata_prepare, ata_wait_bsy, ata_reset, Goto
    <2>2. req.fn \in {"read", "write"} /\ req.result = "none" /\ req.count > 0
          /\ index = 0 /\ Calm(drive) /\ (pc = "ata_selected" => drive.st # "drq")
          /\ req.count \in Nat /\ req.lba \in Nat
      BY Zenon, <1>1 DEF IInv, CallInv, AtaInv, AtaAt, MoveAt, Shaped
    <2>3. CallInv'
      BY Zenon, <2>1, <2>2 DEF IInv, CallInv, Places, AtaAt, MoveAt
    <2>4. \/ pc' = "ata_selected" /\ drive' = [IdleDrive EXCEPT !.st = "busy"]
          \/ pc' = "ata_data" /\ drive' = Drive("busy", req.fn, req.lba, req.count, NoWord)
      <3>1. req.lba < LBA_SPACE
        BY Zenon, <1>1 DEF IInv, MachineInv, Nameable
      <3>2. req.lba % LBA_SPACE = req.lba
        BY <2>2, <3>1, DiskAssumption
      <3> QED BY Zenon, <1>1, <2>1, <2>2, <3>2 DEF Command
    <2>5. /\ DOMAIN drive' = {"st", "cmd", "lba", "left", "word"}
          /\ drive'.st = "busy" /\ drive'.word = NoWord
          /\ \/ pc' = "ata_selected" /\ drive'.cmd = "none" /\ drive'.left = 0
             \/ /\ pc' = "ata_data" /\ drive'.cmd = req.fn /\ drive'.lba = req.lba
                /\ drive'.left = req.count
      BY <2>4 DEF IdleDrive, Drive
    <2>6. Put' = 0 /\ Agree(req', 0, sectors')
      BY <2>1, <2>2, <2>5 DEF Put, Agree
    <2>8. pc' = "ata_data" => (IF Writing THEN WriteAt(drive) ELSE ReadAt(drive))'
      BY <2>1, <2>2, <2>5 DEF WriteAt, ReadAt
    <2>9. AtaInv'
      BY <2>1, <2>2, <2>5, <2>6, <2>8 DEF IInv, AtaInv, Calm, AtaAt, MoveAt
    <2>10. FlushInv'
      BY Zenon, <2>1, <2>4 DEF FlushInv
    <2> QED BY Zenon, <1>1, <2>1, <2>3, <2>4, <2>9, <2>10, AtaStepFrame DEF AtaAt, MoveAt
  <1> QED BY Zenon, <1>2, <1>3

\* The data port: index sectors have gone through it, and the next one does.
LEMMA AtaData ==
    ASSUME IInv, ata_data, UNCHANGED <<nvmeVars, diskVars>>
    PROVE  IInv'
  <1>1. pc = "ata_data" /\ pc \in AtaAt /\ pc \in MoveAt
    BY Zenon DEF ata_data, AtaAt, MoveAt
  <1>2. CASE Retry
    BY Zenon, <1>1, <1>2, RetryLaw, AtaStepFrame DEF Retry, ata_reset, AtaAt
  <1>3. CASE ~Retry
    <2>1. /\ drive.st = "drq" /\ index' = index + 1
          /\ drive' = [drive EXCEPT !.st = "busy",
                          !.word = IF Writing THEN <<req.data[index]>> ELSE NoWord]
          /\ req' = IF Writing THEN req ELSE [req EXCEPT !.data[index] = drive.word[1]]
          /\ pc' = IF index + 1 < req.count THEN "ata_data" ELSE "ata_finish"
          /\ UNCHANGED <<machine, sectors, unflushed, attempt>>
      BY Zenon, <1>3 DEF ata_data, ata_wait_drq
    <2>2. /\ req.fn \in {"read", "write"} /\ req.result = "none" /\ Shaped(req)
          /\ req.count \in Nat /\ req.lba \in Nat /\ index \in Nat /\ index < req.count
          /\ DOMAIN drive = {"st", "cmd", "lba", "left", "word"} /\ drive.cmd = req.fn
      BY Zenon, <1>1, <2>1 DEF IInv, CallInv, AtaInv, AtaAt, Shaped
    <2>3. /\ Writing => WriteAt(drive) /\ drive.word = NoWord
          /\ ~Writing => ReadAt(drive)
          /\ Put = index /\ Agree(req, index, sectors)
      BY Zenon, <1>1, <2>1 DEF IInv, AtaInv, WriteAt, Put
    <2>4. /\ DOMAIN drive' = DOMAIN drive /\ drive'.st = "busy" /\ drive'.cmd = req.fn
          /\ drive'.lba = drive.lba /\ drive'.left = drive.left
          /\ drive'.word = IF Writing THEN <<req.data[index]>> ELSE NoWord
      BY Zenon, <2>1, <2>2
    <2>5. /\ Shaped(req') /\ req'.fn = req.fn /\ req'.result = "none"
          /\ req'.lba = req.lba /\ req'.count = req.count /\ (Writing => req' = req)
          /\ ~Writing => req'.data = [req.data EXCEPT ![index] = drive.word[1]]
      <3>1. CASE Writing
        BY Zenon, <2>1, <2>2, <3>1
      <3>2. CASE ~Writing
        BY Zenon, <2>1, <2>2, <3>2 DEF Shaped
      <3> QED BY Zenon, <3>1, <3>2
    <2>6. /\ req.lba + index < ATA_SECTORS
          /\ drive.lba = req.lba + index + (IF Writing THEN 0 ELSE 1)
          /\ drive.left = req.count - index - (IF Writing THEN 0 ELSE 1)
          /\ ~Writing => drive.word[1] = sectors[req.lba + index]
      BY <2>1, <2>2, <2>3 DEF WriteAt, ReadAt
    <2>7. /\ pc' \in MoveAt /\ pc' \in AtaAt
          /\ pc' \notin {"idle", "ata_prepare", "ata_selected", "ata_flush"}
          /\ pc' = "ata_data" => index' < req.count
          /\ pc' = "ata_finish" => index' = req.count
      BY <2>1, <2>2 DEF MoveAt, AtaAt
    <2>8. CallInv'
      BY Zenon, <2>1, <2>2, <2>5, <2>7 DEF IInv, CallInv, Places
    <2>9. (IF Writing THEN WriteAt(drive) ELSE ReadAt(drive))'
      BY <2>1, <2>2, <2>4, <2>5, <2>6 DEF WriteAt, ReadAt, Writing
    <2>10. Agree(req', Put', sectors')
      <3>1. CASE Writing
        <4>1. Put' = index
          <5>1. <<req.data[index]>> # << >>
            BY Zenon
          <5> QED BY <2>1, <2>2, <2>4, <3>1, <5>1 DEF Put, NoWord, Writing
        <4> QED BY Zenon, <2>1, <2>3, <2>5, <3>1, <4>1
      <3>2. CASE ~Writing
        <4>1. Put' = index + 1
          BY Zenon, <2>1, <2>4, <3>2 DEF Put
        <4>2. \A i \in 0..index : req'.data[i] = sectors[req.lba + i]
          <5> SUFFICES ASSUME NEW i \in 0..index PROVE req'.data[i] = sectors[req.lba + i]
            BY Zenon
          <5>1. req'.data[i] = IF i = index THEN drive.word[1] ELSE req.data[i]
            <6>1. i \in 0..(req.count - 1)
              BY <2>2
            <6>2. DOMAIN req.data = 0..(req.count - 1)
              BY Zenon, <2>2 DEF Shaped
            <6>3. i \in DOMAIN req.data
              BY Zenon, <6>1, <6>2
            <6> QED BY Zenon, <2>5, <3>2, <6>3
          <5>2. i # index => i \in 0..(index - 1)
            BY <2>2
          <5>3. i # index => req.data[i] = sectors[req.lba + i]
            BY Zenon, <2>3, <5>2 DEF Agree
          <5> QED BY Zenon, <2>6, <3>2, <5>1, <5>3
        <4> QED BY <2>1, <2>2, <2>5, <4>1, <4>2 DEF Agree
      <3> QED BY Zenon, <3>1, <3>2
    <2>11. AtaInv'
      <3>1. /\ index' \in Nat /\ attempt' \in Nat /\ req'.count > 0
            /\ req'.lba + index' - 1 < ATA_SECTORS
        BY <2>1, <2>2, <2>5, <2>6 DEF IInv, AtaInv
      <3> QED BY Zenon, <2>2, <2>4, <2>5, <2>7, <2>9, <2>10, <3>1 DEF AtaInv
    <2>12. FlushInv'
      BY Zenon, <2>7 DEF FlushInv
    <2> QED BY Zenon, <1>1, <2>1, <2>7, <2>8, <2>11, <2>12, AtaStepFrame
  <1> QED BY Zenon, <1>2, <1>3

\* The end of the data, and of the flush.
LEMMA AtaFinish ==
    ASSUME IInv, ata_finish, UNCHANGED <<nvmeVars, diskVars>>
    PROVE  IInv'
  <1>1. pc \in {"ata_finish", "ata_flush"} /\ pc \in AtaAt
    BY Zenon DEF ata_finish, AtaAt, MoveAt
  <1>2. CASE Retry
    BY Zenon, <1>1, <1>2, RetryLaw, AtaStepFrame DEF Retry, ata_reset, AtaAt
  <1>3. CASE ~Retry
    <2>1. /\ drive.st = "ready" /\ UNCHANGED <<machine, sectors, unflushed>>
          /\ \/ /\ Writing /\ pc = "ata_finish" /\ Command("flush", 0, 0)
                /\ pc' = "ata_flush" /\ req' = req /\ UNCHANGED <<attempt, index>>
             \/ /\ ~(Writing /\ pc = "ata_finish")
                /\ Return("ok") /\ attempt' = 0 /\ index' = 0 /\ drive' = drive
      BY Zenon, <1>3 DEF ata_finish, FlushNext, Goto
    <2>2. /\ req.fn \in {"read", "write"} /\ req.result = "none" /\ Shaped(req)
          /\ req.count \in Nat /\ req.lba \in Nat /\ index = req.count /\ req.count > 0
          /\ drive = IdleDrive /\ req.lba + index - 1 < ATA_SECTORS
          /\ attempt \in Nat
          /\ pc = "ata_flush" => Writing /\ ~unflushed
          /\ machine = "ata"
      BY Zenon, <1>1, <2>1 DEF IInv, CallInv, MachineInv, AtaInv, Shaped
    <2>3. Agree(req, index, sectors)
      <3>1. Put = index
        BY Zenon, <2>1 DEF Put
      <3> QED BY Zenon, <1>1, <2>1, <3>1 DEF IInv, AtaInv
    <2>4. CASE Return("ok")
      <3>1. /\ pc' = "idle" /\ Shaped(req') /\ req'.result = "ok" /\ req'.fn = req.fn
        BY Zenon, <2>2, <2>4, ReturnLaw
      <3>2. ~(Writing /\ pc = "ata_finish") /\ attempt' = 0 /\ index' = 0 /\ drive' = drive
        BY Zenon, <2>1, <3>1
      <3>3. CallInv'
        BY Zenon, <2>1, <2>2, <3>1 DEF IInv, CallInv, Places, AtaAt, MoveAt, LoopAt
      <3>4. AtaInv'
        BY Zenon, <2>2, <3>1, <3>2 DEF AtaInv, AtaAt, MoveAt, IdleDrive, Drive, Calm
      <3>5. FlushInv'
        BY Zenon, <1>1, <2>1, <2>2, <3>1, <3>2 DEF FlushInv, Writing
      <3> QED BY Zenon, <1>1, <2>1, <3>1, <3>3, <3>4, <3>5, AtaStepFrame
    <2>5. CASE ~Return("ok")
      <3>1. /\ Writing /\ pc = "ata_finish" /\ Command("flush", 0, 0)
            /\ pc' = "ata_flush" /\ req' = req /\ UNCHANGED <<attempt, index>>
        BY Zenon, <2>1, <2>5
      <3>2. /\ DOMAIN drive' = {"st", "cmd", "lba", "left", "word"}
            /\ drive'.st = "busy" /\ drive'.cmd = "flush" /\ drive'.left = 0
            /\ drive'.word = NoWord
        BY Zenon, <2>1, <3>1 DEF Command, Drive
      <3>3. CallInv'
        BY Zenon, <2>1, <2>2, <3>1 DEF IInv, CallInv, Places, AtaAt, MoveAt
      <3>4. Put' = index /\ Agree(req', Put', sectors')
        BY Zenon, <2>1, <2>3, <3>1, <3>2 DEF Put
      <3>5. AtaInv'
        BY Zenon, <2>1, <2>2, <3>1, <3>2, <3>4 DEF AtaInv, AtaAt, MoveAt, Writing
      <3>6. FlushInv'
        BY Zenon, <3>1 DEF FlushInv
      <3>7. pc' \in AtaAt
        BY Zenon, <3>1 DEF AtaAt
      <3> QED BY Zenon, <1>1, <2>1, <3>1, <3>3, <3>5, <3>6, <3>7, AtaStepFrame
    <2> QED BY Zenon, <2>4, <2>5
  <1> QED BY Zenon, <1>2, <1>3

\* The medium holds every sector of which IDENTIFY tells.
LEMMA AtaMedium ==
    ASSUME NEW s \in Nat, s < ATA_SECTORS
    PROVE  s \in Medium
  <1> DEFINE m == NSZE * PER_BLOCK
  <1>1. m \in Int /\ ATA_SECTORS \in Nat /\ ATA_SECTORS <= m
    BY DiskAssumption
  <1>2. Medium = 0..(m - 1)
    BY Zenon DEF Medium
  <1> HIDE DEF m
  <1> QED BY <1>1, <1>2

\* The end of a step of the drive.
LEMMA DriveFrame ==
    ASSUME IInv, machine = "ata", UNCHANGED <<machine, req, pc, nvmeVars, diskVars>>,
           sectors' = [s \in Medium |-> sectors'[s]], unflushed' \in BOOLEAN,
           pc = "idle" => (unflushed' => unflushed),
           AtaInv'
    PROVE  IInv'
  <1>1. CallInv'
    BY Zenon DEF IInv, CallInv
  <1>2. MachineInv'
    BY Zenon, MachineFrame DEF IInv, MachineInv, nvmeVars, diskVars
  <1>3. pc \notin Hot /\ pc' \notin Hot
    BY Zenon DEF IInv, MachineInv, PlaceInv, Hot
  <1>4. NvmeInv'
    BY Zenon, <1>3, NvmeFrame
  <1>5. FlushInv'
    BY Zenon DEF IInv, FlushInv, Writing
  <1> QED BY Zenon, <1>1, <1>2, <1>4, <1>5 DEF IInv, NvmeInv

\* The drive puts a sector on the medium.
LEMMA DriveStores ==
    ASSUME IInv, ata_drive, Taken, Carry, UNCHANGED <<nvmeVars, diskVars>>
    PROVE  IInv'
  <1>1. /\ machine = "ata" /\ UNCHANGED <<machine, req, pc, attempt, index>>
        /\ sectors' = Stored /\ unflushed' = TRUE
        /\ drive' = [drive EXCEPT !.lba = @ + 1, !.left = @ - 1, !.word = NoWord]
        /\ drive.st = "busy" /\ drive.cmd = "write" /\ drive.word # NoWord
    BY Zenon DEF ata_drive, Carry, Taken
  <1>2. pc \in MoveAt
    BY Zenon, <1>1 DEF IInv, AtaInv, Calm, AtaAt
  <1>3. /\ Writing /\ WriteAt(drive) /\ Agree(req, Put, sectors) /\ pc \in AtaAt
        /\ DOMAIN drive = {"st", "cmd", "lba", "left", "word"}
        /\ pc \in {"ata_data", "ata_finish"}
        /\ (pc = "ata_data" => index < req.count) /\ (pc = "ata_finish" => index = req.count)
        /\ attempt \in Nat /\ req.count > 0
    BY Zenon, <1>1, <1>2 DEF IInv, AtaInv, Writing, AtaAt, MoveAt
  <1>4. /\ index > 0 /\ drive.word = <<req.data[index - 1]>>
        /\ drive.lba = req.lba + index - 1 /\ drive.left = req.count - index + 1
        /\ Put = index - 1
    BY Zenon, <1>1, <1>3 DEF WriteAt, Put
  <1>5. /\ index \in Nat /\ req.lba \in Nat /\ req.count \in Nat
        /\ req.lba + index - 1 < ATA_SECTORS /\ sectors = [s \in Medium |-> sectors[s]]
    BY Zenon, <1>3, <1>4 DEF IInv, CallInv, AtaInv, Shaped
  <1>6. drive.lba \in Medium /\ drive.word[1] = req.data[index - 1]
    <2>1. drive.lba \in Nat /\ drive.lba < ATA_SECTORS
      BY <1>4, <1>5
    <2> QED BY <1>4, <2>1, AtaMedium
  <1>7. /\ sectors' = [s \in Medium |-> sectors'[s]]
        /\ \A s \in Medium : sectors'[s] = IF s = drive.lba THEN req.data[index - 1] ELSE sectors[s]
    BY Zenon, <1>1, <1>5, <1>6 DEF Stored
  <1>8. Agree(req', index', sectors')
    <2> SUFFICES ASSUME NEW i \in 0..(index - 1) PROVE req.data[i] = sectors'[req.lba + i]
      BY Zenon, <1>1 DEF Agree
    <2>1. req.lba + i \in Medium
      <3>1. req.lba + i \in Nat /\ req.lba + i < ATA_SECTORS
        BY <1>5, DiskAssumption
      <3> QED BY Zenon, <3>1, AtaMedium
    <2>2. (req.lba + i = drive.lba) <=> (i = index - 1)
      BY <1>4, <1>5
    <2>3. i # index - 1 => i \in 0..(Put - 1)
      BY <1>4, <1>5
    <2>4. i # index - 1 => req.data[i] = sectors[req.lba + i]
      BY Zenon, <1>3, <2>3 DEF Agree
    <2> QED BY Zenon, <1>7, <2>1, <2>2, <2>4
  <1>9. /\ DOMAIN drive' = {"st", "cmd", "lba", "left", "word"}
        /\ drive'.st = "busy" /\ drive'.cmd = "write" /\ drive'.word = NoWord
        /\ drive'.lba = req.lba + index /\ drive'.left = req.count - index
    BY <1>1, <1>3, <1>4, <1>5
  <1>10. Writing' /\ WriteAt(drive)'
    BY Zenon, <1>1, <1>3, <1>9 DEF WriteAt, Writing
  <1>11. Put' = index'
    BY Zenon, <1>9 DEF Put
  <1>12. AtaInv'
    BY Zenon, <1>1, <1>3, <1>5, <1>8, <1>9, <1>10, <1>11 DEF AtaInv, AtaAt, MoveAt, Writing
  <1>13. pc # "idle"
    BY Zenon, <1>3
  <1> QED BY Zenon, <1>1, <1>7, <1>12, <1>13, DriveFrame

\* The drive goes on to its next sector or ends its command.
LEMMA DriveGoesOn ==
    ASSUME IInv, ata_drive, ~Taken, Carry, UNCHANGED <<nvmeVars, diskVars>>
    PROVE  IInv'
  <1>1. /\ machine = "ata" /\ UNCHANGED <<machine, req, pc, attempt, index, sectors>>
        /\ unflushed' = (unflushed /\ drive.cmd # "flush")
        /\ drive' = IF drive.left = 0 THEN IdleDrive
                    ELSE IF drive.lba >= ATA_SECTORS THEN [drive EXCEPT !.st = "error"]
                    ELSE IF drive.cmd = "write" THEN [drive EXCEPT !.st = "drq"]
                    ELSE Drive("drq", "read", drive.lba + 1, drive.left - 1,
                               <<sectors[drive.lba]>>)
        /\ drive.st = "busy" /\ ~(drive.cmd = "write" /\ drive.word # NoWord)
    BY Zenon DEF ata_drive, Carry, Taken
  <1>2. /\ sectors' = [s \in Medium |-> sectors'[s]] /\ unflushed' \in BOOLEAN
        /\ unflushed' => unflushed
    BY Zenon, <1>1 DEF IInv, CallInv
  <1>3. /\ index \in Nat /\ req.lba \in Nat /\ req.count \in Nat /\ attempt \in Nat
        /\ DOMAIN drive = {"st", "cmd", "lba", "left", "word"}
        /\ pc \in AtaAt => req.count > 0 /\ Agree(req, index, sectors)
                           /\ (index > 0 => req.lba + index - 1 < ATA_SECTORS)
    BY Zenon, <1>1 DEF IInv, CallInv, AtaInv, Shaped, Put
  <1>4. AtaInv'
    <2>1. CASE drive.left = 0
      <3>1. drive' = IdleDrive /\ drive'.st = "ready" /\ Put' = index /\ Calm(drive')
        BY Zenon, <1>1, <2>1 DEF IdleDrive, Drive, Put, Calm
      <3>2. DOMAIN drive' = {"st", "cmd", "lba", "left", "word"}
        BY Zenon, <3>1 DEF IdleDrive, Drive
      <3>3. pc # "ata_data"
        BY <1>1, <1>3, <2>1 DEF IInv, AtaInv, MoveAt, AtaAt, WriteAt, ReadAt
      <3>4. pc = "ata_flush" => Writing /\ ~unflushed'
        BY Zenon, <1>1 DEF IInv, AtaInv
      <3>5. /\ pc \notin AtaAt \/ pc \in {"ata_prepare", "ata_selected"} => index = 0
            /\ pc \in {"ata_finish", "ata_flush"} => index = req.count
        BY Zenon DEF IInv, AtaInv
      <3> QED BY Zenon, <1>1, <1>3, <3>1, <3>2, <3>3, <3>4, <3>5 DEF AtaInv, AtaAt, MoveAt, Writing
    <2>2. CASE drive.left # 0
      <3>1. pc \in MoveAt /\ pc \in AtaAt
            /\ pc \notin {"ata_prepare", "ata_selected", "ata_flush"}
        BY Zenon, <1>1, <2>2 DEF IInv, AtaInv, Calm, MoveAt, AtaAt
      <3>2. drive.cmd = req.fn /\ IF Writing THEN WriteAt(drive) ELSE ReadAt(drive)
        BY Zenon, <1>1, <3>1 DEF IInv, AtaInv
      <3>3. /\ drive.word = NoWord /\ drive.lba = req.lba + index
            /\ drive.left = req.count - index
        <4>1. Writing => drive.word = NoWord
          BY Zenon, <1>1, <3>2 DEF Writing
        <4>2. \A x : <<x>> # NoWord
          BY Zenon DEF NoWord
        <4> QED BY Zenon, <1>1, <3>2, <4>1, <4>2 DEF WriteAt, ReadAt
      <3>4. /\ pc = "ata_data" => index < req.count
            /\ pc = "ata_finish" => index = req.count
        BY Zenon DEF IInv, AtaInv
      <3>5. index < req.count /\ pc = "ata_data"
        BY <1>3, <2>2, <3>1, <3>3, <3>4 DEF MoveAt
      <3>6. CASE drive.lba >= ATA_SECTORS
        <4>1. /\ drive'.st = "error" /\ DOMAIN drive' = {"st", "cmd", "lba", "left", "word"}
          BY Zenon, <1>1, <1>3, <2>2, <3>6
        <4> QED BY Zenon, <1>1, <1>3, <3>1, <3>5, <4>1 DEF AtaInv
      <3>7. CASE ~(drive.lba >= ATA_SECTORS) /\ Writing
        <4>1. /\ drive'.st = "drq" /\ DOMAIN drive' = {"st", "cmd", "lba", "left", "word"}
              /\ drive'.cmd = "write" /\ drive'.word = NoWord
              /\ drive'.lba = drive.lba /\ drive'.left = drive.left
          BY Zenon, <1>1, <1>3, <2>2, <3>2, <3>3, <3>7 DEF Writing
        <4>2. Put' = index
          BY Zenon, <1>1, <4>1 DEF Put
        <4>3. req.lba + index < ATA_SECTORS
          BY <1>3, <3>3, <3>7, DiskAssumption
        <4>4. WriteAt(drive)' /\ drive'.cmd = req'.fn /\ Writing'
          BY Zenon, <1>1, <3>3, <3>5, <3>7, <4>1, <4>3 DEF WriteAt, Writing
        <4> QED BY Zenon, <1>1, <1>3, <3>1, <3>5, <4>1, <4>2, <4>4 DEF AtaInv
      <3>8. CASE ~(drive.lba >= ATA_SECTORS) /\ ~Writing
        <4>1. drive' = Drive("drq", "read", drive.lba + 1, drive.left - 1, <<sectors[drive.lba]>>)
          BY Zenon, <1>1, <2>2, <3>2, <3>8 DEF Writing
        <4>2. /\ drive'.st = "drq" /\ DOMAIN drive' = {"st", "cmd", "lba", "left", "word"}
              /\ drive'.cmd = "read" /\ drive'.word = <<sectors[drive.lba]>>
              /\ drive'.lba = drive.lba + 1 /\ drive'.left = drive.left - 1
          BY Zenon, <4>1 DEF Drive
        <4>3. Put' = index
          BY Zenon, <1>1, <4>2 DEF Put
        <4>4. req.lba + index < ATA_SECTORS
          BY <1>3, <3>3, <3>8, DiskAssumption
        <4>5. req.fn = "read"
          BY Zenon, <3>1, <3>8 DEF IInv, CallInv, Writing
        <4>6. ReadAt(drive)' /\ drive'.cmd = req'.fn /\ ~Writing'
          <5>1. /\ drive'.lba = req.lba + index + 1 /\ drive'.left = req.count - index - 1
                /\ drive'.word = <<sectors[req.lba + index]>>
            BY Zenon, <1>3, <3>3, <4>2
          <5> QED BY Zenon, <1>1, <3>5, <4>2, <4>4, <4>5, <5>1 DEF ReadAt, Writing
        <4> QED BY Zenon, <1>1, <1>3, <3>1, <3>5, <4>2, <4>3, <4>6 DEF AtaInv
      <3> QED BY Zenon, <3>6, <3>7, <3>8
    <2> QED BY Zenon, <2>1, <2>2
  <1> QED BY Zenon, <1>1, <1>2, <1>4, DriveFrame

\* So does whatever the drive does meanwhile.
LEMMA AtaDrive ==
    ASSUME IInv, ata_drive, UNCHANGED <<nvmeVars, diskVars>>
    PROVE  IInv'
  <1>1. CASE Carry
    BY Zenon, <1>1, DriveStores, DriveGoesOn
  <1>2. CASE ~Carry
    <2>1. /\ machine = "ata" /\ UNCHANGED <<machine, req, pc, attempt, index, sectors, unflushed>>
          /\ \/ /\ drive.st = "busy" /\ drive.cmd # "none"
                /\ drive' = [drive EXCEPT !.st = "error", !.word = NoWord]
             \/ /\ drive.st = "ready" /\ pc = "idle"
                /\ drive' = Drive("drq", "none", 0, 0, <<JUNK>>)
      BY Zenon, <1>2 DEF ata_drive
    <2>2. CASE drive.st = "busy"
      <3>1. DOMAIN drive' = {"st", "cmd", "lba", "left", "word"} /\ drive'.st = "error"
        BY Zenon, <2>1, <2>2 DEF IInv, AtaInv
      <3>2. drive.cmd # "none"
        BY Zenon, <2>1, <2>2
      <3>3. pc \in MoveAt \cup {"ata_flush"} /\ pc \in AtaAt
        BY Zenon, <3>2 DEF IInv, AtaInv, Calm, AtaAt, MoveAt
      <3>4. AtaInv'
        BY Zenon, <2>1, <3>1, <3>3 DEF IInv, AtaInv, MoveAt, Writing
      <3> QED BY Zenon, <2>1, <3>4, DriveFrame DEF IInv, CallInv
    <2>3. CASE drive.st # "busy"
      <3>1. /\ drive' = Drive("drq", "none", 0, 0, <<JUNK>>) /\ pc = "idle"
        BY Zenon, <2>1, <2>3
      <3>2. /\ DOMAIN drive' = {"st", "cmd", "lba", "left", "word"} /\ drive'.st = "drq"
            /\ Calm(drive)'
        BY Zenon, <3>1 DEF Drive, Calm
      <3>3. AtaInv'
        BY Zenon, <2>1, <3>1, <3>2 DEF IInv, AtaInv, AtaAt, MoveAt
      <3> QED BY Zenon, <2>1, <3>3, DriveFrame DEF IInv, CallInv
    <2> QED BY Zenon, <2>2, <2>3
  <1> QED BY Zenon, <1>1, <1>2

-----------------------------------------------------------------------------
(* The disk switch.                                                        *)

\* What callers ask for.
LEMMA RequestLaw ==
    ASSUME NEW r \in Requests
    PROVE  /\ Shaped(r) /\ r.fn \in {"size", "read", "write"} /\ r.result = "none"
           /\ r.fn = "read" => r.data = Buffer(r.count)
  <1>1. CASE r = Request("size", 0, 0, Buffer(0))
    BY Zenon, <1>1 DEF Request, Shaped, Buffer
  <1>2. CASE \E l \in Lbas, n \in Counts : r = Request("read", l, n, Buffer(n))
    BY <1>2, DiskAssumption DEF Request, Shaped, Buffer
  <1>3. CASE \E l \in Lbas, n \in Counts, p \in Patterns :
                r = Request("write", l, n, [i \in 0..(n - 1) |-> p[i]])
    BY <1>3, DiskAssumption DEF Request, Shaped
  <1> QED BY <1>1, <1>2, <1>3 DEF Requests

\* A call of the switch starts with no driver at work.
LEMMA DiskCallInv ==
    ASSUME IInv, disk_call
    PROVE  IInv'
  <1>1. /\ pc = "idle" /\ req' \in Requests /\ pc' \in {"probe", "dispatch"}
        /\ UNCHANGED <<machine, sectors, unflushed, ataVars, nvmeVars, diskVars>>
    BY Zenon DEF disk_call
  <1>2. Shaped(req') /\ req'.fn \in {"size", "read", "write"} /\ req'.result = "none"
    BY Zenon, <1>1, RequestLaw
  <1>3. CallInv'
    BY Zenon, <1>1, <1>2 DEF IInv, CallInv, Places, AtaAt, MoveAt, LoopAt
  <1>4. MachineInv'
    BY Zenon, <1>1, MachineFrame DEF IInv, nvmeVars, diskVars, AtaAt, MoveAt, SetupAt
  <1>5. AtaInv'
    BY Zenon, <1>1, AtaFrame DEF IInv, AtaAt, MoveAt
  <1>6. NvmeInv'
    BY Zenon, <1>1, NvmeFrame DEF Hot, SetupAt, LoopAt
  <1>7. FlushInv'
    BY Zenon, <1>1 DEF FlushInv
  <1> QED BY Zenon, <1>3, <1>4, <1>5, <1>6, <1>7 DEF IInv, NvmeInv

\* The call goes on with a driver, or returns.
LEMMA DispatchLaw ==
    ASSUME IInv, pc # "idle", NEW b \in {"none", "ata", "nvme"}, Dispatch(b),
           UNCHANGED <<machine, sectors, unflushed>>
    PROVE  /\ CallInv' /\ FlushInv' /\ pc' \in {"idle", "ata_start", "nvme_start"}
           /\ pc' = "ata_start" => b = "ata"
  <1>1. Shaped(req) /\ req.result = "none" /\ req.fn \in {"size", "read", "write"}
    BY Zenon DEF IInv, CallInv
  <1>2. \/ Return("error")
        \/ req.fn = "size" /\ Return("ok")
        \/ /\ req.fn # "size" /\ req' = req
           /\ (pc' = "ata_start" /\ b = "ata") \/ pc' = "nvme_start"
    BY Zenon DEF Dispatch, Goto
  <1>3. /\ Shaped(req') /\ req'.fn = req.fn
        /\ \/ pc' = "idle" /\ (req'.result = "error" \/ (req.fn = "size" /\ req'.result = "ok"))
           \/ /\ req.fn # "size" /\ req'.result = "none"
              /\ (pc' = "ata_start" /\ b = "ata") \/ pc' = "nvme_start"
    <2>1. CASE Return("error")
      BY Zenon, <1>1, <2>1, ReturnLaw
    <2>2. CASE req.fn = "size" /\ Return("ok")
      BY Zenon, <1>1, <2>2, ReturnLaw
    <2>3. CASE /\ req.fn # "size" /\ req' = req
               /\ (pc' = "ata_start" /\ b = "ata") \/ pc' = "nvme_start"
      BY Zenon, <1>1, <2>3
    <2> QED BY Zenon, <1>2, <2>1, <2>2, <2>3
  <1>4. CallInv'
    BY Zenon, <1>1, <1>3 DEF IInv, CallInv, Places, AtaAt, MoveAt, LoopAt
  <1>5. FlushInv'
    BY Zenon, <1>3 DEF FlushInv, Writing
  <1> QED BY Zenon, <1>3, <1>4, <1>5

\* The switch passes a call only to the driver whose disk was found.
LEMMA DiskDispatchInv ==
    ASSUME IInv, disk_dispatch
    PROVE  IInv'
  <1>1. /\ pc = "dispatch" /\ Dispatch(backend)
        /\ UNCHANGED <<machine, sectors, unflushed, ataVars, nvmeVars, diskVars>>
    BY Zenon DEF disk_dispatch
  <1>2. backend \in {"none", "ata", "nvme"} /\ (backend = "ata" => machine = "ata")
    BY Zenon DEF IInv, MachineInv
  <1>3. /\ CallInv' /\ FlushInv' /\ pc' \in {"idle", "ata_start", "nvme_start"}
        /\ pc' = "ata_start" => machine = "ata"
    BY Zenon, <1>1, <1>2, DispatchLaw
  <1>4. MachineInv'
    BY Zenon, <1>1, <1>3, MachineFrame DEF IInv, nvmeVars, diskVars, AtaAt, MoveAt, SetupAt
  <1>5. AtaInv'
    BY Zenon, <1>1, <1>3, AtaFrame DEF IInv, AtaAt, MoveAt
  <1>6. NvmeInv'
    BY Zenon, <1>1, <1>3, NvmeFrame DEF Hot, SetupAt, LoopAt
  <1> QED BY Zenon, <1>3, <1>4, <1>5, <1>6 DEF IInv, NvmeInv

\* The probe settles on a driver only for the disk that answered it.
LEMMA ProbeInv ==
    ASSUME IInv, probe
    PROVE  IInv'
  <1>1. CASE pc = "probe"
    <2>1. PICK n \in {0, ATA_SECTORS} :
             /\ ata_total_sectors(n)
             /\ IF n # 0
                THEN backend' = "ata" /\ total_sectors' = n /\ Dispatch("ata")
                ELSE Goto("nvme_total") /\ UNCHANGED <<backend, total_sectors>>
      BY Zenon, <1>1 DEF probe
    <2>2. UNCHANGED <<machine, sectors, unflushed, attempt, index, nvmeVars>>
      BY Zenon, <1>1 DEF probe
    <2>3. /\ CallInv' /\ FlushInv' /\ pc' \in {"idle", "ata_start", "nvme_start", "nvme_total"}
          /\ backend' = backend \/ (backend' = "ata" /\ machine = "ata")
          /\ pc' = "ata_start" => machine = "ata"
      <3>1. CASE n # 0
        BY Zenon, <1>1, <2>1, <2>2, <3>1, DispatchLaw DEF ata_total_sectors
      <3>2. CASE n = 0
        <4>1. pc' = "nvme_total" /\ req' = req /\ backend' = backend
          BY Zenon, <2>1, <3>2 DEF Goto
        <4>2. CallInv'
          BY Zenon, <1>1, <2>2, <4>1 DEF IInv, CallInv, Places, AtaAt, MoveAt, LoopAt
        <4> QED BY Zenon, <4>1, <4>2 DEF FlushInv
      <3> QED BY Zenon, <3>1, <3>2
    <2>4. MachineInv'
      BY Zenon, <2>2, <2>3 DEF IInv, MachineInv, nvmeVars, AtaAt, MoveAt, SetupAt
    <2>5. AtaInv'
      <3>1. drive' = drive \/ drive' = IdleDrive
        BY Zenon, <2>1 DEF ata_total_sectors
      <3>2. CASE drive' = drive
        BY Zenon, <1>1, <2>2, <2>3, <3>2, AtaFrame DEF IInv, ataVars, AtaAt, MoveAt
      <3>3. CASE drive' = IdleDrive
        BY Zenon, <1>1, <2>2, <2>3, <3>3 DEF IInv, AtaInv, IdleDrive, Drive, Calm, AtaAt, MoveAt
      <3> QED BY Zenon, <3>1, <3>2, <3>3
    <2>6. NvmeInv'
      BY Zenon, <1>1, <2>2, <2>3, NvmeFrame DEF Hot, SetupAt, LoopAt
    <2> QED BY Zenon, <2>3, <2>4, <2>5, <2>6 DEF IInv, NvmeInv
  <1>2. CASE pc # "probe"
    <2>1. /\ pc = "nvme_known" /\ UNCHANGED <<machine, sectors, unflushed, ataVars, nvmeVars>>
          /\ \/ nvme_state = "ready" /\ backend' = "nvme" /\ Dispatch("nvme")
             \/ backend' = backend /\ Dispatch("none")
      BY Zenon, <1>2 DEF probe
    <2>2. /\ CallInv' /\ FlushInv' /\ pc' \in {"idle", "nvme_start"}
      BY Zenon, <2>1, DispatchLaw
    <2>3. MachineInv'
      BY Zenon, <2>1, <2>2 DEF IInv, MachineInv, nvmeVars, AtaAt, MoveAt, SetupAt
    <2>4. AtaInv'
      BY Zenon, <2>1, <2>2, AtaFrame DEF IInv, AtaAt, MoveAt
    <2>5. NvmeInv'
      BY Zenon, <2>1, <2>2, NvmeFrame DEF Hot, SetupAt, LoopAt
    <2> QED BY Zenon, <2>2, <2>3, <2>4, <2>5 DEF IInv, NvmeInv
  <1> QED BY Zenon, <1>1, <1>2

-----------------------------------------------------------------------------
(* The NVMe driver: controller_init and execute.                           *)

\* The end of a step of the NVMe driver.
LEMMA NvmeStepFrame ==
    ASSUME IInv, UNCHANGED <<ataVars, diskVars>>, pc \notin AtaAt, pc' \notin AtaAt,
           CallInv', MachineInv', NvmeInv', FlushInv'
    PROVE  IInv'
  <1>1. AtaInv'
    BY Zenon, AtaFrame DEF IInv
  <1> QED BY Zenon, <1>1 DEF IInv, NvmeInv

\* While no command is on its way there is nothing to say about one.
LEMMA NoCommandLaw ==
    ASSUME Level(nq')
    PROVE  CommandInv' /\ ~OnItsWay("admin")' /\ ~OnItsWay("io")'
  <1>1. ~OnItsWay("admin")' /\ ~OnItsWay("io")'
    BY Zenon, LevelQuiet DEF OnItsWay, QueueNames
  <1> QED BY Zenon, <1>1 DEF CommandInv

\* controller_init goes on with a command.
LEMMA SetupSubmit ==
    ASSUME IInv, NEW qs, Level(qs), nvme_state = "untried", machine = "nvme",
           pc \in {"nvme_total"} \cup SetupAt,
           NEW op \in {"identify", "create_cq", "create_sq"}, NEW after \in SetupAt,
           Submit(qs, "admin", op, 0, 0, after),
           UNCHANGED <<machine, sectors, unflushed, bounce, span, abandoned, nvme_state, backend>>,
           after \in {"nvme_create_sq", "nvme_created"} => nvme_sectors' = Size
    PROVE  CallInv' /\ MachineInv' /\ NvmeInv' /\ FlushInv' /\ pc' \notin AtaAt
  <1>1. /\ QueueInv'
        /\ OnItsWay("admin")' /\ ~OnItsWay("io")' /\ Cmd("admin")'.op = op
        /\ waiting' = [q |-> "admin", id |-> command_id, after |-> after]
        /\ pc' = "nvme_wait" /\ req' = req
    BY Zenon, SubmitStep DEF QueueNames
  <1>2. waiting'.q = "admin" /\ waiting'.after = after /\ At' = after
    BY Zenon, <1>1 DEF At
  <1>3. pc # "idle"
    BY Zenon DEF SetupAt
  <1>4. CallInv'
    BY Zenon, <1>1, <1>3 DEF IInv, CallInv, Places, AtaAt, MoveAt, LoopAt
  <1>5. MachineInv'
    BY Zenon, <1>1 DEF IInv, MachineInv, AtaAt, MoveAt, SetupAt
  <1>6. PlaceInv'
    BY Zenon, <1>1, <1>2 DEF IInv, PlaceInv, SetupAt, LoopAt
  <1>7. CommandInv'
    BY Zenon, <1>1 DEF CommandInv
  <1>8. LoopInv'
    BY Zenon, <1>1 DEF LoopInv, Looping, LoopAt
  <1>9. FlushInv'
    BY Zenon, <1>1 DEF FlushInv
  <1> QED BY Zenon, <1>1, <1>4, <1>5, <1>6, <1>7, <1>8, <1>9 DEF NvmeInv, AtaAt, MoveAt

\* controller_init ends: the controller is ready or will not be used.
LEMMA SetupEnd ==
    ASSUME IInv, nvme_state = "untried", pc \in {"nvme_total"} \cup SetupAt,
           pc' = "nvme_known", req' = req,
           UNCHANGED <<machine, sectors, unflushed, bounce, span, abandoned, backend, nq, waiting,
                       nvme_sectors>>,
           nvme_state' = "failed" \/ (nvme_state' = "ready" /\ machine = "nvme" /\ nvme_sectors = Size)
    PROVE  CallInv' /\ MachineInv' /\ NvmeInv' /\ FlushInv' /\ pc' \notin AtaAt
  <1>1. pc # "idle" /\ pc # "nvme_wait"
    BY Zenon DEF SetupAt
  <1>2. Level(nq')
    BY Zenon, <1>1, LevelLaw DEF IInv
  <1>3. QueueInv' /\ CommandInv' /\ ~OnItsWay("admin")'
    BY Zenon, <1>2, LevelQueueInv, NoCommandLaw
  <1>4. CallInv'
    BY Zenon, <1>1 DEF IInv, CallInv, Places, AtaAt, MoveAt, LoopAt
  <1>5. MachineInv'
    BY Zenon DEF IInv, MachineInv, AtaAt, MoveAt, SetupAt
  <1>6. PlaceInv'
    BY Zenon, <1>3 DEF IInv, PlaceInv, SetupAt, LoopAt, At
  <1>7. LoopInv'
    BY Zenon DEF LoopInv, Looping, LoopAt
  <1>8. FlushInv'
    BY Zenon DEF FlushInv
  <1> QED BY Zenon, <1>3, <1>4, <1>5, <1>6, <1>7, <1>8 DEF NvmeInv, AtaAt, MoveAt

\* The queues with one of them set up anew.
LEMMA SetupLevel ==
    ASSUME NEW qs, Level(qs), NEW q \in QueueNames
    PROVE  Level([qs EXCEPT ![q] = queue_setup])
  <1> DEFINE rs == [qs EXCEPT ![q] = queue_setup]
  <1>1. rs = [z \in QueueNames |-> IF z = q THEN queue_setup ELSE qs[z]]
    BY Zenon DEF Level
  <1> HIDE DEF rs
  <1>2. \A z \in QueueNames : rs[z] = IF z = q THEN queue_setup ELSE qs[z]
    BY Zenon, <1>1
  <1>3. rs = [z \in QueueNames |-> rs[z]]
    BY Zenon, <1>1
  <1>4. \A z \in QueueNames : Sound(rs[z]) /\ InStep(rs[z])
    BY Zenon, <1>2, SetupLaw DEF Level
  <1>5. Level(rs)
    BY Zenon, <1>3, <1>4 DEF Level
  <1> QED BY Zenon, <1>5 DEF rs

\* controller_init starts both queues in step and submits the first command.
LEMMA ControllerInit ==
    ASSUME IInv, controller_init, UNCHANGED <<ataVars, diskVars>>
    PROVE  IInv'
  <1>1. pc = "nvme_total" /\ UNCHANGED <<machine, sectors, unflushed, bounce, span, abandoned>>
        /\ backend' = backend /\ pc \notin AtaAt
    BY Zenon DEF controller_init, diskVars, AtaAt, MoveAt
  <1>2. CASE /\ nvme_state # "untried" /\ Goto("nvme_known")
             /\ UNCHANGED <<nvme_state, nq, command_id, waiting, nvme_sectors>>
    <2>1. pc' = "nvme_known" /\ req' = req
      BY Zenon, <1>2 DEF Goto
    <2>2. CallInv'
      BY Zenon, <1>1, <2>1 DEF IInv, CallInv, Places, AtaAt, MoveAt, LoopAt
    <2>3. MachineInv'
      BY Zenon, <1>1, <1>2, <2>1, MachineFrame DEF IInv, AtaAt, MoveAt, SetupAt
    <2>4. NvmeInv'
      BY Zenon, <1>1, <1>2, <2>1, NvmeFrame DEF nvmeVars, Hot, SetupAt, LoopAt
    <2>5. FlushInv'
      BY Zenon, <2>1 DEF FlushInv
    <2>6. pc' \notin AtaAt
      BY Zenon, <2>1 DEF AtaAt, MoveAt
    <2> QED BY Zenon, <1>1, <2>2, <2>3, <2>4, <2>5, <2>6, NvmeStepFrame
  <1>3. CASE nvme_state = "untried" /\ InitFails
    BY Zenon, <1>1, <1>3, SetupEnd, NvmeStepFrame DEF InitFails, Goto
  <1>4. CASE /\ nvme_state = "untried" /\ machine = "nvme"
             /\ Submit([nq EXCEPT !["admin"] = queue_setup], "admin", "identify", 0, 0,
                       "nvme_namespace")
             /\ UNCHANGED <<nvme_state, nvme_sectors>>
    <2>1. Level(nq)
      BY Zenon, <1>1, <1>4, LevelLaw DEF IInv
    <2> DEFINE qs == [nq EXCEPT !["admin"] = queue_setup]
    <2>2. Level(qs)
      BY Zenon, <2>1, SetupLevel DEF QueueNames
    <2> HIDE DEF qs
    <2>3. Submit(qs, "admin", "identify", 0, 0, "nvme_namespace")
      BY Zenon, <1>4 DEF qs
    <2>4. CallInv' /\ MachineInv' /\ NvmeInv' /\ FlushInv' /\ pc' \notin AtaAt
      BY Zenon, <1>1, <1>4, <2>2, <2>3, SetupSubmit DEF SetupAt
    <2> QED BY Zenon, <1>1, <2>4, NvmeStepFrame
  <1> QED BY Zenon, <1>2, <1>3, <1>4 DEF controller_init

\* read_namespace learns the size that IDENTIFY gives.
LEMMA ReadNamespace ==
    ASSUME IInv, read_namespace, UNCHANGED <<ataVars, diskVars>>
    PROVE  IInv'
  <1>1. /\ pc \in {"nvme_namespace", "nvme_create_cq"} /\ pc \in SetupAt
        /\ UNCHANGED <<machine, sectors, unflushed, bounce, span, abandoned>>
        /\ backend' = backend /\ pc \notin AtaAt
    BY Zenon DEF read_namespace, diskVars, AtaAt, MoveAt, SetupAt
  <1>2. nvme_state = "untried" /\ machine = "nvme"
    BY Zenon, <1>1 DEF IInv, PlaceInv, MachineInv
  <1>3. Level(nq)
    BY Zenon, <1>1, <1>2, LevelLaw DEF IInv, SetupAt
  <1>4. CASE /\ Submit(nq, "admin", "identify", 0, 0, "nvme_create_cq")
             /\ UNCHANGED <<nvme_state, nvme_sectors>>
    <2>1. CallInv' /\ MachineInv' /\ NvmeInv' /\ FlushInv' /\ pc' \notin AtaAt
      BY Zenon, <1>1, <1>2, <1>3, <1>4, SetupSubmit DEF SetupAt
    <2> QED BY Zenon, <1>1, <2>1, NvmeStepFrame
  <1>5. CASE InitFails
    BY Zenon, <1>1, <1>2, <1>5, SetupEnd, NvmeStepFrame DEF InitFails, Goto
  <1>6. CASE /\ nvme_sectors' = Size
             /\ Submit([nq EXCEPT !["io"] = queue_setup], "admin", "create_cq", 0, 0,
                       "nvme_create_sq")
             /\ UNCHANGED nvme_state
    <2> DEFINE qs == [nq EXCEPT !["io"] = queue_setup]
    <2>2. Level(qs)
      BY Zenon, <1>3, SetupLevel DEF QueueNames
    <2> HIDE DEF qs
    <2>3. Submit(qs, "admin", "create_cq", 0, 0, "nvme_create_sq")
      BY Zenon, <1>6 DEF qs
    <2>4. CallInv' /\ MachineInv' /\ NvmeInv' /\ FlushInv' /\ pc' \notin AtaAt
      BY Zenon, <1>1, <1>2, <1>6, <2>2, <2>3, SetupSubmit DEF SetupAt
    <2> QED BY Zenon, <1>1, <2>4, NvmeStepFrame
  <1> QED BY Zenon, <1>4, <1>5, <1>6 DEF read_namespace

\* create_io_queues makes the controller ready with both queues in step.
LEMMA CreateIoQueues ==
    ASSUME IInv, create_io_queues, UNCHANGED <<ataVars, diskVars>>
    PROVE  IInv'
  <1>1. /\ pc \in {"nvme_create_sq", "nvme_created"} /\ pc \in SetupAt
        /\ UNCHANGED <<machine, sectors, unflushed, bounce, span, abandoned>>
        /\ backend' = backend /\ pc \notin AtaAt
    BY Zenon DEF create_io_queues, diskVars, AtaAt, MoveAt, SetupAt
  <1>2. nvme_state = "untried" /\ machine = "nvme" /\ nvme_sectors = Size
    BY Zenon, <1>1 DEF IInv, PlaceInv, MachineInv, At
  <1>3. Level(nq)
    BY Zenon, <1>1, <1>2, LevelLaw DEF IInv, SetupAt
  <1>4. CASE /\ Submit(nq, "admin", "create_sq", 0, 0, "nvme_created")
             /\ UNCHANGED <<nvme_state, nvme_sectors>>
    <2>1. CallInv' /\ MachineInv' /\ NvmeInv' /\ FlushInv' /\ pc' \notin AtaAt
      BY Zenon, <1>1, <1>2, <1>3, <1>4, SetupSubmit DEF SetupAt
    <2> QED BY Zenon, <1>1, <2>1, NvmeStepFrame
  <1>5. CASE /\ nvme_state' = "ready" /\ Goto("nvme_known")
             /\ UNCHANGED <<nq, command_id, waiting, nvme_sectors>>
    BY Zenon, <1>1, <1>2, <1>5, SetupEnd, NvmeStepFrame DEF Goto
  <1> QED BY Zenon, <1>4, <1>5 DEF create_io_queues

\* nvme_read_sectors and nvme_write_sectors enter transfer with a span in range.
LEMMA NvmeStart ==
    ASSUME IInv, nvme_start, UNCHANGED <<ataVars, diskVars>>
    PROVE  IInv'
  <1>1. /\ pc = "nvme_start" /\ pc \notin AtaAt
        /\ UNCHANGED <<machine, sectors, unflushed, nvme_state, nvme_sectors, nq, command_id,
                       waiting, bounce, abandoned, backend>>
    BY Zenon DEF nvme_start, diskVars, AtaAt, MoveAt
  <1>2. Shaped(req) /\ req.fn \in {"read", "write"} /\ req.result = "none"
    BY Zenon, <1>1 DEF IInv, CallInv
  <1>3. CASE Return("error") /\ span' = span
    <2>1. pc' = "idle" /\ Shaped(req') /\ req'.result = "error" /\ req'.fn = req.fn
      BY Zenon, <1>2, <1>3, ReturnLaw
    <2>2. CallInv'
      BY Zenon, <1>1, <1>2, <2>1 DEF IInv, CallInv, Places, AtaAt, MoveAt, LoopAt
    <2>3. MachineInv'
      BY Zenon, <1>1, <2>1, MachineFrame DEF IInv, AtaAt, MoveAt, SetupAt
    <2>4. NvmeInv'
      BY Zenon, <1>1, <1>3, <2>1, NvmeFrame DEF nvmeVars, Hot, SetupAt, LoopAt
    <2>5. FlushInv'
      BY Zenon, <2>1 DEF FlushInv
    <2> QED BY Zenon, <1>1, <2>1, <2>2, <2>3, <2>4, <2>5, NvmeStepFrame DEF AtaAt, MoveAt
  <1>4. CASE ~(Return("error") /\ span' = span)
    <2>1. /\ nvme_state = "ready" /\ ~OutOfRange /\ pc' = "nvme_span" /\ req' = req
          /\ span' = [lba |-> req.lba, count |-> req.count]
      BY Zenon, <1>4 DEF nvme_start, Goto
    <2>2. span'.lba = req.lba /\ span'.count = req.count
      BY Zenon, <2>1
    <2>3. Level(nq')
      BY Zenon, <1>1, <2>1, LevelLaw DEF IInv
    <2>4. QueueInv' /\ CommandInv' /\ ~OnItsWay("admin")'
      BY Zenon, <2>1, <2>3, LevelQueueInv, NoCommandLaw
    <2>5. CallInv'
      BY Zenon, <1>1, <1>2, <2>1 DEF IInv, CallInv, Places, AtaAt, MoveAt, LoopAt
    <2>6. MachineInv'
      BY Zenon, <1>1, <2>1, MachineFrame DEF IInv, AtaAt, MoveAt, SetupAt
    <2>7. PlaceInv'
      BY Zenon, <1>1, <2>1, <2>4 DEF IInv, PlaceInv, SetupAt, LoopAt, At
    <2>8. nvme_sectors = Size /\ Size \in Nat
      <3>1. NSZE * PER_BLOCK \in Nat
        BY DiskAssumption
      <3>2. Size \in Nat
        BY Zenon, <3>1, DiskAssumption DEF Size
      <3> QED BY Zenon, <2>1, <3>2 DEF IInv, PlaceInv
    <2>9. /\ req.lba \in Nat /\ req.count \in Nat /\ req.count > 0
          /\ req.lba + req.count <= Size
      BY <1>2, <2>1, <2>8 DEF OutOfRange, Shaped
    <2>10. Agree(req', span'.lba - req'.lba, sectors')
      BY <2>1, <2>2, <2>9 DEF Agree
    <2>11. LoopInv'
      <3>1. At' = "nvme_span" /\ pc' # "nvme_wait"
        BY Zenon, <2>1 DEF At
      <3>2. /\ span'.lba \in Nat /\ span'.count \in Nat /\ req'.lba <= span'.lba
            /\ span'.lba + span'.count = req'.lba + req'.count
            /\ req'.count > 0 /\ req'.lba + req'.count <= Size
        BY <2>1, <2>2, <2>9
      <3> QED BY Zenon, <2>10, <3>1, <3>2 DEF LoopInv
    <2>12. FlushInv' /\ pc' \notin AtaAt
      BY Zenon, <2>1 DEF FlushInv, AtaAt, MoveAt
    <2> QED BY Zenon, <1>1, <2>4, <2>5, <2>6, <2>7, <2>11, <2>12, NvmeStepFrame DEF NvmeInv
  <1> QED BY Zenon, <1>3, <1>4

\* A command has failed: controller_init fails, or the call does.
LEMMA FailLaw ==
    ASSUME IInv, pc = "nvme_wait", Fail
    PROVE  /\ Shaped(req') /\ req'.fn = req.fn /\ req'.lba = req.lba /\ req'.count = req.count
           /\ req'.data = req.data
           /\ \/ nvme_state = "untried" /\ pc' = "nvme_known" /\ req' = req
              \/ nvme_state # "untried" /\ pc' = "idle" /\ req'.result = "error"
  <1>1. Shaped(req)
    BY Zenon DEF IInv, CallInv
  <1>2. CASE nvme_state = "untried"
    BY Zenon, <1>1, <1>2 DEF Fail, Goto
  <1>3. CASE nvme_state # "untried"
    <2>1. Return("error")
      BY Zenon, <1>3 DEF Fail
    <2> QED BY Zenon, <1>1, <1>3, <2>1, ReturnLaw
  <1> QED BY Zenon, <1>2, <1>3

\* When execute gives up, the controller is failed and its command abandoned.
LEMMA ExecuteTimeout ==
    ASSUME IInv, execute_timeout, UNCHANGED <<ataVars, diskVars>>
    PROVE  IInv'
  <1>1. /\ pc = "nvme_wait" /\ pc \notin AtaAt /\ nvme_state' = "failed" /\ Fail
        /\ abandoned' = IF Writing /\ nvme_state = "ready" THEN req ELSE abandoned
        /\ UNCHANGED <<machine, sectors, unflushed, nvme_sectors, nq, command_id, bounce, backend>>
    BY Zenon DEF execute_timeout, diskVars, AtaAt, MoveAt
  <1>2. /\ Shaped(req') /\ req'.fn = req.fn
        /\ pc' \in {"idle", "nvme_known"}
        /\ pc' = "nvme_known" => req' = req
        /\ pc' = "idle" => req'.result = "error"
    BY Zenon, <1>1, FailLaw
  <1>3. machine = "nvme" /\ req.fn \in {"none", "size", "read", "write"}
        /\ req.fn # "none" /\ req.result = "none" /\ nvme_state # "failed"
    BY Zenon, <1>1 DEF IInv, CallInv, MachineInv, PlaceInv
  <1>4. CallInv'
    BY Zenon, <1>1, <1>2, <1>3 DEF IInv, CallInv, Places, AtaAt, MoveAt, LoopAt
  <1>5. MachineInv'
    BY Zenon, <1>1, <1>2, <1>3 DEF IInv, MachineInv, AtaAt, MoveAt, SetupAt
  <1>6. QueueInv'
    <2>1. pc' # "nvme_wait"
      BY Zenon, <1>2
    <2> QED BY Zenon, <1>1, <1>3, <2>1 DEF IInv, QueueInv
  <1>7. PlaceInv'
    <2>1. /\ pc' \notin {"nvme_wait"} \cup SetupAt \cup LoopAt
          /\ At' = pc' /\ pc' \notin {"nvme_create_sq", "nvme_created"}
      BY Zenon, <1>2 DEF At, SetupAt, LoopAt
    <2>2. OnItsWay("admin")' <=> OnItsWay("admin")
      BY Zenon, <1>1 DEF OnItsWay
    <2>3. Cmd("admin")' = Cmd("admin")
      BY Zenon, <1>1 DEF Cmd
    <2> QED BY Zenon, <1>1, <2>1, <2>2, <2>3 DEF IInv, PlaceInv
  <1>8. CommandInv'
    <2> SUFFICES ASSUME OnItsWay("io"), Cmd("io").op \in {"read", "write"}
                 PROVE  CommandInv'
      <3>1. OnItsWay("io")' <=> OnItsWay("io")
        BY Zenon, <1>1 DEF OnItsWay
      <3>2. Cmd("io")' = Cmd("io")
        BY Zenon, <1>1 DEF Cmd
      <3> QED BY Zenon, <3>1, <3>2 DEF CommandInv
    <2>1. ~InStep(nq["io"])
      BY Zenon DEF OnItsWay, InStep
    <2>2. waiting.q = "io"
      BY Zenon, <1>1, <1>3, <2>1 DEF IInv, QueueInv
    <2>3. nvme_state = "ready"
      BY Zenon, <1>1, <2>2 DEF IInv, PlaceInv
    <2>4. Cmd("io").op = "write" => abandoned' = req
      BY Zenon, <1>1, <2>3 DEF IInv, CommandInv, Writing
    <2>5. Cmd("io")' = Cmd("io") /\ Covers(Cmd("io"))' = Covers(Cmd("io"))
      BY Zenon, <1>1 DEF Cmd, Covers
    <2>6. \A s : Bounced(Cmd("io"), s)' = Bounced(Cmd("io"), s)
      BY Zenon, <1>1, <2>5 DEF Bounced
    <2> DEFINE c == Cmd("io")
    <2>7. /\ c.block \in Nat /\ c.blocks \in 1..MAX_BLOCKS /\ c.block + c.blocks <= NSZE
          /\ c.op = "write" =>
                /\ req.fn = "write" /\ Shaped(req)
                /\ \A s \in Covers(c) :
                      \/ Bounced(c, s) = sectors[s]
                      \/ s \in In(req) /\ Bounced(c, s) = req.data[s - req.lba]
      BY Zenon, <2>3 DEF IInv, CommandInv
    <2>8. abandoned' = req => In(abandoned)' = In(req)
      BY Zenon DEF In
    <2> QED BY Zenon, <1>1, <2>4, <2>5, <2>6, <2>7, <2>8 DEF CommandInv
  <1>9. LoopInv'
    BY Zenon, <1>2 DEF LoopInv, Looping, LoopAt
  <1>10. FlushInv' /\ pc' \notin AtaAt
    BY Zenon, <1>2 DEF FlushInv, AtaAt, MoveAt
  <1> QED BY Zenon, <1>1, <1>4, <1>5, <1>6, <1>7, <1>8, <1>9, <1>10, NvmeStepFrame DEF NvmeInv

\* When execute sees the completion, the queue is in step again.
LEMMA ExecuteComplete ==
    ASSUME IInv, execute_complete, UNCHANGED <<ataVars, diskVars>>
    PROVE  IInv'
  <1>1. /\ pc = "nvme_wait" /\ pc \notin AtaAt /\ Completed
        /\ nq' = [nq EXCEPT ![waiting.q].cq_head = Advance(@),
                            ![waiting.q].phase = NextPhase(nq[waiting.q])]
        /\ UNCHANGED <<machine, sectors, unflushed, nvme_sectors, command_id, bounce, abandoned,
                       backend>>
    BY Zenon DEF execute_complete, diskVars, AtaAt, MoveAt
  <1>2. Level(nq') /\ ~OnItsWay(waiting.q)
    BY Zenon, <1>1, SeenStep DEF IInv
  <1>3. CommandInv' /\ ~OnItsWay("admin")' /\ ~OnItsWay("io")'
    BY Zenon, <1>2, NoCommandLaw
  <1>4. /\ machine = "nvme" /\ req.fn \in {"size", "read", "write"} /\ req.result = "none"
        /\ \/ nvme_state = "untried" /\ waiting.q = "admin" /\ waiting.after \in SetupAt
           \/ /\ nvme_state = "ready" /\ waiting.q = "io"
              /\ waiting.after \in {"nvme_copy", "nvme_next", "nvme_done"}
              /\ req.fn \in {"read", "write"}
    BY Zenon, <1>1 DEF IInv, CallInv, MachineInv, PlaceInv
  <1>5. CASE Entry.ok /\ pc' = waiting.after /\ req' = req /\ UNCHANGED <<nvme_state, span>>
    <2>1. pc' \in SetupAt \cup {"nvme_copy", "nvme_next", "nvme_done"}
      BY Zenon, <1>4, <1>5
    <2>2. pc' # "nvme_wait" /\ pc' # "idle" /\ pc' \notin AtaAt /\ pc' \notin {"ata_start", "nvme_start"}
          /\ (nvme_state = "untried" => pc' \in SetupAt /\ pc' \notin LoopAt)
          /\ (nvme_state = "ready" => pc' \notin SetupAt /\ pc' \in LoopAt /\ pc' # "nvme_span")
      BY Zenon, <1>4, <1>5, <2>1 DEF SetupAt, LoopAt, AtaAt, MoveAt
    <2>3. QueueInv'
      BY Zenon, <1>2, <2>2, LevelQueueInv
    <2>4. CallInv'
      BY Zenon, <1>1, <1>4, <1>5, <2>1, <2>2 DEF IInv, CallInv, Places, LoopAt
    <2>5. MachineInv'
      BY Zenon, <1>1, <1>4, <1>5, <2>2, MachineFrame DEF IInv
    <2>6. At' = At
      BY Zenon, <1>1, <1>5, <2>2 DEF At
    <2>7. PlaceInv'
      BY Zenon, <1>1, <1>3, <1>4, <1>5, <2>2, <2>6 DEF IInv, PlaceInv
    <2>8. LoopInv'
      <3>1. CASE nvme_state = "untried"
        BY Zenon, <1>5, <2>2, <3>1 DEF LoopInv, Looping
      <3>2. CASE nvme_state = "ready"
        <4>1. Looping /\ Done("io")
          BY Zenon, <1>1, <1>2, <1>4, <1>5, <3>2 DEF Looping, Done, Entry
        <4>2. /\ Block' = Block /\ Blocks' = Blocks /\ Turn' = Turn /\ Agree(req, span.lba - req.lba, sectors)' = Agree(req, span.lba - req.lba, sectors)
              /\ (Writing <=> Writing')
          BY Zenon, <1>1, <1>5 DEF Block, Blocks, Offset, Turn, Span, Writing, Agree
        <4> QED BY Zenon, <1>1, <1>5, <2>2, <2>6, <4>1, <4>2 DEF IInv, LoopInv
      <3> QED BY Zenon, <1>4, <3>1, <3>2
    <2>9. FlushInv'
      BY Zenon, <2>2 DEF FlushInv
    <2> QED BY Zenon, <1>1, <1>3, <2>2, <2>3, <2>4, <2>5, <2>7, <2>8, <2>9, NvmeStepFrame DEF NvmeInv
  <1>6. CASE Fail /\ nvme_state' = Failed
    <2>1. /\ Shaped(req') /\ req'.fn = req.fn /\ pc' \in {"idle", "nvme_known"}
          /\ pc' = "nvme_known" => req' = req
          /\ pc' = "idle" => req'.result = "error"
      BY Zenon, <1>1, <1>6, FailLaw
    <2>2. nvme_state' = IF nvme_state = "untried" THEN "failed" ELSE nvme_state
      BY Zenon, <1>6 DEF Failed
    <2>3. QueueInv'
      BY Zenon, <1>2, <2>1, LevelQueueInv
    <2>4. CallInv'
      BY Zenon, <1>1, <1>4, <2>1 DEF IInv, CallInv, Places, AtaAt, MoveAt, LoopAt
    <2>5. MachineInv'
      BY Zenon, <1>1, <1>4, <2>1, <2>2 DEF IInv, MachineInv, AtaAt, MoveAt, SetupAt
    <2>6. PlaceInv'
      <3>1. pc' \notin {"nvme_wait"} \cup SetupAt \cup LoopAt
            /\ At' = pc' /\ pc' \notin {"nvme_create_sq", "nvme_created"}
        BY Zenon, <2>1 DEF At, SetupAt, LoopAt
      <3> QED BY Zenon, <1>1, <1>3, <2>2, <3>1 DEF IInv, PlaceInv
    <2>7. LoopInv'
      BY Zenon, <2>1 DEF LoopInv, Looping, LoopAt
    <2>8. FlushInv' /\ pc' \notin AtaAt
      BY Zenon, <2>1 DEF FlushInv, AtaAt, MoveAt
    <2> QED BY Zenon, <1>1, <1>3, <2>3, <2>4, <2>5, <2>6, <2>7, <2>8, NvmeStepFrame DEF NvmeInv
  <1> QED BY Zenon, <1>5, <1>6 DEF execute_complete, Goto
=============================================================================
