----------------------------- MODULE DiskProofs -----------------------------
(***************************************************************************)
(* Proofs about Disk: transfer and the controller keep the invariant, the  *)
(* safety properties that follow from it, and the refinement of BlockDevice. *)
(***************************************************************************)
EXTENDS DiskLemmas
-----------------------------------------------------------------------------
(* The loop of transfer.                                                   *)

\* The driver uses no more sectors than the namespace has.
LEMMA SizeLaw == Size \in Nat /\ NSZE * PER_BLOCK \in Nat /\ Size <= NSZE * PER_BLOCK
  <1> DEFINE d == MAX_SECTORS \div PER_BLOCK
             r == MAX_SECTORS % PER_BLOCK
             m == NSZE * PER_BLOCK
  <1>1. d \in Nat /\ r \in 0..(PER_BLOCK - 1) /\ MAX_SECTORS = (d * PER_BLOCK) + r
    BY Zenon, DivLaw, DiskAssumption
  <1> HIDE DEF d, r
  <1>2. m \in Nat /\ NSZE \in Nat /\ PER_BLOCK \in Nat \ {0} /\ MAX_SECTORS \in Nat
    BY DiskAssumption
  <1>3. (d + 1) * PER_BLOCK = (d * PER_BLOCK) + PER_BLOCK /\ d * PER_BLOCK \in Int
    BY <1>1, <1>2, Mono
  <1>4. d + 1 <= NSZE => (d + 1) * PER_BLOCK <= m
    BY <1>1, <1>2, Mono
  <1>5. NSZE > d => MAX_SECTORS <= m
    <2> DEFINE x == d * PER_BLOCK
               y == (d + 1) * PER_BLOCK
    <2>1. /\ x \in Int /\ y = x + PER_BLOCK /\ MAX_SECTORS = x + r /\ (d + 1 <= NSZE => y <= m)
      BY Zenon, <1>1, <1>3, <1>4
    <2> HIDE DEF x, y, m
    <2> QED BY <1>1, <1>2, <2>1
  <1>6. Size = IF NSZE > d THEN MAX_SECTORS ELSE m
    BY Zenon DEF Size, d
  <1> HIDE DEF m
  <1>7. Size \in Nat /\ Size <= m
    BY <1>2, <1>5, <1>6
  <1> QED BY Zenon, <1>2, <1>7 DEF m

\* What LoopInv says of the span, and the turn of the loop it gives.
LEMMA TurnLaw ==
    ASSUME span.lba \in Nat, span.count \in Nat, span.count > 0, span.lba + span.count <= Size
    PROVE  /\ Block \in Nat /\ Offset \in Nat /\ Block * PER_BLOCK \in Nat
           /\ span.lba = (Block * PER_BLOCK) + Offset
           /\ Blocks \in 1..MAX_BLOCKS /\ Blocks * PER_BLOCK \in Nat
           /\ Blocks * PER_BLOCK <= MAX_BLOCKS * PER_BLOCK /\ MAX_BLOCKS * PER_BLOCK \in Nat
           /\ Span \in 1..span.count /\ Offset + Span <= Blocks * PER_BLOCK
           /\ (Block + Blocks) * PER_BLOCK = (Block * PER_BLOCK) + (Blocks * PER_BLOCK)
           /\ ((Block + Blocks) - 1) * PER_BLOCK < span.lba + span.count
           /\ Block + Blocks <= NSZE
           /\ (Block + Blocks) * PER_BLOCK <= NSZE * PER_BLOCK
  <1> DEFINE p == PER_BLOCK
             b == span.lba \div p
             o == span.lba % p
             n == Smaller((o + span.count + p - 1) \div p, MAX_BLOCKS)
             sp == Smaller(n * p - o, span.count)
  <1>1. /\ b \in Nat /\ o \in 0..(p - 1) /\ span.lba = (b * p) + o /\ b * p \in Nat
        /\ n \in 1..MAX_BLOCKS /\ n * p \in Nat /\ n * p <= MAX_BLOCKS * p
        /\ MAX_BLOCKS * p \in Nat
        /\ sp \in 1..span.count /\ o + sp <= n * p
        /\ (b + n) * p = (b * p) + (n * p)
        /\ (n - 1) * p < o + span.count /\ (n - 1) * p \in Int
    <2>1. p \in Nat \ {0} /\ MAX_BLOCKS \in Nat \ {0} /\ span.count \in Nat \ {0}
      BY DiskAssumption
    <2> HIDE DEF p
    <2>2. TurnOf(span.lba, span.count, p, MAX_BLOCKS, b, o, n, sp)
      BY Zenon, <2>1, Turning
    <2> HIDE DEF b, o, n, sp
    <2> QED BY Zenon, <2>2 DEF TurnOf
  <1>2. p \in Nat \ {0} /\ NSZE \in Nat
    BY Zenon, DiskAssumption
  <1>0. Block = b /\ Offset = o /\ Blocks = n /\ Span = sp
    BY Zenon DEF Block, Offset, Blocks, Span
  <1> HIDE DEF p, b, o, n, sp
  <1>3. ((b + n) - 1) * p = (b * p) + ((n - 1) * p)
    <2>1. (b + (n - 1)) * p = (b * p) + ((n - 1) * p)
      BY <1>1, <1>2, Mono
    <2>2. b + (n - 1) = (b + n) - 1
      BY <1>1
    <2> QED BY Zenon, <2>1, <2>2
  <1>4. ((b + n) - 1) * p < span.lba + span.count
    <2> DEFINE x == b * p
               y == (n - 1) * p
    <2>1. /\ x \in Nat /\ y \in Int /\ span.lba = x + o /\ y < o + span.count
          /\ ((b + n) - 1) * p = x + y
      BY Zenon, <1>1, <1>3
    <2> HIDE DEF x, y
    <2>2. o \in Int
      BY <1>1, <1>2
    <2> QED BY <2>1, <2>2
  <1>5. ((b + n) - 1) * p < NSZE * p
    <2>1. Size \in Nat /\ NSZE * p \in Nat /\ Size <= NSZE * p
      BY Zenon, SizeLaw DEF p
    <2> DEFINE x == ((b + n) - 1) * p
               y == NSZE * p
    <2>2. x \in Int
      BY <1>1, <1>2
    <2>3. y \in Nat /\ Size <= y /\ x < span.lba + span.count
      BY Zenon, <1>4, <2>1
    <2> HIDE DEF x, y
    <2>4. x < y
      BY <2>1, <2>2, <2>3
    <2> QED BY Zenon, <2>4 DEF x, y
  <1>6. (b + n) - 1 < NSZE
    BY <1>1, <1>2, <1>5, Mono
  <1>7. b + n <= NSZE
    BY <1>1, <1>2, <1>6
  <1>8. (b + n) * p <= NSZE * p
    BY <1>1, <1>2, <1>7, Mono
  <1>9. o \in Nat
    BY <1>1, <1>2
  <1> QED BY Zenon, <1>0, <1>1, <1>4, <1>7, <1>8, <1>9 DEF p

\* The facts about transfer's loop that its steps use.
LEMMA LoopFacts ==
    ASSUME IInv, Looping
    PROVE  /\ span.lba \in Nat /\ span.count \in Nat
           /\ req.lba \in Nat /\ req.count \in Nat /\ req.count > 0
           /\ req.lba <= span.lba /\ span.lba + span.count = req.lba + req.count
           /\ req.lba + req.count <= Size /\ span.lba + span.count <= Size
           /\ Agree(req, span.lba - req.lba, sectors)
           /\ Shaped(req) /\ req.fn \in {"read", "write"} /\ req.result = "none"
           /\ nvme_state = "ready" /\ machine = "nvme" /\ nvme_sectors = Size
           /\ pc # "idle" /\ pc \notin AtaAt
  <1>1. /\ span.lba \in Nat /\ span.count \in Nat
        /\ req.lba <= span.lba /\ span.lba + span.count = req.lba + req.count
        /\ req.count > 0 /\ req.lba + req.count <= Size
        /\ Agree(req, span.lba - req.lba, sectors)
    BY Zenon DEF IInv, LoopInv
  <1>2. nvme_state = "ready" /\ machine = "nvme" /\ nvme_sectors = Size
        /\ pc # "idle" /\ pc \notin AtaAt
    BY Zenon DEF IInv, Looping, PlaceInv, MachineInv, LoopAt, AtaAt, MoveAt
  <1>3. req.fn \in {"read", "write"} /\ req.result = "none" /\ Shaped(req)
    BY Zenon, <1>2 DEF IInv, Looping, CallInv, PlaceInv
  <1> QED BY Zenon, <1>1, <1>2, <1>3 DEF Shaped

\* A sector of the turn lies in the blocks of its command, and was asked for.
LEMMA TurnCovered ==
    ASSUME IInv, Looping, span.count > 0, NEW s \in Turn
    PROVE  /\ s \in Medium /\ s \in In(req)
           /\ Block * PER_BLOCK <= s /\ s < (Block + Blocks) * PER_BLOCK
  <1> DEFINE x == Block * PER_BLOCK
             y == Blocks * PER_BLOCK
             z == (Block + Blocks) * PER_BLOCK
  <1>1. /\ x \in Nat /\ y \in Nat /\ z = x + y /\ span.lba = x + Offset /\ Offset \in Nat
        /\ Span \in 1..span.count /\ Offset + Span <= y
    BY Zenon, LoopFacts, TurnLaw
  <1> HIDE DEF x, y, z
  <1>2. /\ span.lba \in Nat /\ span.count \in Nat /\ req.lba \in Nat /\ req.count \in Nat
        /\ req.lba <= span.lba /\ span.lba + span.count = req.lba + req.count
    BY Zenon, LoopFacts
  <1>3. s \in Medium /\ s \in Int /\ span.lba <= s /\ s < span.lba + Span
    BY DEF Turn, Medium
  <1>4. x <= s /\ s < z /\ req.lba <= s /\ s < req.lba + req.count
    BY <1>1, <1>2, <1>3
  <1> QED BY Zenon, <1>3, <1>4 DEF In, x, z

\* The bounce buffer once the caller's sectors are copied in.
LEMMA FilledLaw ==
    ASSUME IInv, Looping, span.count > 0, NEW s \in Medium,
           Block * PER_BLOCK <= s, s < (Block + Blocks) * PER_BLOCK
    PROVE  /\ Filled[s - Block * PER_BLOCK]
                = IF s \in Turn THEN req.data[s - req.lba] ELSE bounce[s - Block * PER_BLOCK]
           /\ s - Block * PER_BLOCK \in 0..(Blocks * PER_BLOCK - 1)
           /\ ~Partial => s \in Turn
  <1> DEFINE x == Block * PER_BLOCK
             y == Blocks * PER_BLOCK
             z == (Block + Blocks) * PER_BLOCK
             m == MAX_BLOCKS * PER_BLOCK
             i == s - x
  <1>1. /\ x \in Nat /\ y \in Nat /\ m \in Nat /\ z = x + y /\ y <= m
        /\ span.lba = x + Offset /\ Offset \in Nat
        /\ Span \in 1..span.count /\ Offset + Span <= y
    BY Zenon, LoopFacts, TurnLaw
  <1>2. s \in Int /\ x <= s /\ s < z
    BY DEF Medium
  <1>3. DOMAIN bounce = 0..(m - 1)
    BY Zenon DEF IInv, PlaceInv
  <1>4. ~Partial => Offset = 0 /\ Span = y
    BY Zenon DEF Partial
  <1> HIDE DEF x, y, z, m
  <1>5. i \in 0..(y - 1) /\ i \in 0..(m - 1)
    BY <1>1, <1>2
  <1>6. span.lba \in Nat /\ req.lba \in Nat /\ span.count \in Nat
    BY Zenon, LoopFacts
  <1>7. s \in Turn <=> Offset <= i /\ i < Offset + Span
    <2>1. s \in Turn <=> span.lba <= s /\ s < span.lba + Span
      BY Zenon DEF Turn
    <2> QED BY <1>1, <1>2, <1>6, <2>1
  <1>8. span.lba - req.lba + i - Offset = s - req.lba
    BY <1>1, <1>2, <1>6
  <1>9. Filled[i] = IF Offset <= i /\ i < Offset + Span
                    THEN req.data[span.lba - req.lba + i - Offset] ELSE bounce[i]
    BY Zenon, <1>3, <1>5 DEF Filled
  <1>10. Filled[i] = IF s \in Turn THEN req.data[s - req.lba] ELSE bounce[i]
    BY Zenon, <1>7, <1>8, <1>9
  <1>11. ~Partial => s \in Turn
    BY <1>1, <1>4, <1>5, <1>7
  <1> QED BY Zenon, <1>5, <1>10, <1>11 DEF x, y

\* transfer goes on with a command; what it does not say of the command.
LEMMA LoopSubmit ==
    ASSUME IInv, pc \in {"nvme_span", "nvme_copy"},
           NEW op, NEW block, NEW blocks, NEW after \in {"nvme_copy", "nvme_next", "nvme_done"},
           Submit(nq, "io", op, block, blocks, after),
           UNCHANGED <<machine, sectors, unflushed, nvme_state, nvme_sectors, span, abandoned,
                       backend>>,
           bounce' = [i \in 0..(MAX_BLOCKS * PER_BLOCK - 1) |-> bounce'[i]]
    PROVE  /\ CallInv' /\ MachineInv' /\ QueueInv' /\ PlaceInv' /\ FlushInv' /\ pc' \notin AtaAt
           /\ OnItsWay("io")' /\ Cmd("io")'.op = op /\ Cmd("io")'.block = block
           /\ Cmd("io")'.blocks = blocks
           /\ At' = after /\ pc' = "nvme_wait" /\ req' = req
  <1>1. Looping
    BY Zenon DEF Looping, LoopAt
  <1>2. /\ nvme_state = "ready" /\ machine = "nvme" /\ nvme_sectors = Size
        /\ req.fn \in {"read", "write"} /\ req.result = "none"
    BY Zenon, <1>1, LoopFacts
  <1>3. Level(nq)
    BY Zenon, <1>2, LevelLaw DEF IInv
  <1>4. /\ QueueInv'
        /\ OnItsWay("io")' /\ ~OnItsWay("admin")'
        /\ Cmd("io")'.op = op /\ Cmd("io")'.block = block /\ Cmd("io")'.blocks = blocks
        /\ waiting' = [q |-> "io", id |-> command_id, after |-> after]
        /\ pc' = "nvme_wait" /\ req' = req
    BY Zenon, <1>2, <1>3, SubmitStep DEF QueueNames
  <1>5. waiting'.q = "io" /\ waiting'.after = after /\ At' = after
    BY Zenon, <1>4 DEF At
  <1>6. CallInv'
    BY Zenon, <1>2, <1>4 DEF IInv, CallInv, Places, AtaAt, MoveAt, LoopAt
  <1>7. MachineInv'
    BY Zenon, <1>2, <1>4 DEF IInv, MachineInv, AtaAt, MoveAt, SetupAt
  <1>8. PlaceInv'
    BY Zenon, <1>2, <1>4, <1>5 DEF IInv, PlaceInv, SetupAt, LoopAt
  <1>9. FlushInv' /\ pc' \notin AtaAt
    BY Zenon, <1>4 DEF FlushInv, AtaAt, MoveAt
  <1> QED BY Zenon, <1>4, <1>5, <1>6, <1>7, <1>8, <1>9

\* What LoopInv says outside the command.
LoopCore ==
    /\ span.lba \in Nat /\ span.count \in Nat
    /\ req.lba <= span.lba /\ span.lba + span.count = req.lba + req.count
    /\ req.count > 0 /\ req.lba + req.count <= Size
    /\ Agree(req, span.lba - req.lba, sectors)

\* The loop's arithmetic reads only its span, the request and the medium.
LEMMA LoopCoreFrame ==
    ASSUME LoopCore, UNCHANGED <<span, req, sectors>>
    PROVE  LoopCore'
  BY Zenon DEF LoopCore, Agree

\* The command that writes a turn: the bounce buffer holds the caller's sectors
\* for the turn and the medium's for the rest of the blocks.
LEMMA WriteSubmit ==
    ASSUME IInv, pc \in {"nvme_span", "nvme_copy"}, span.count > 0, Writing,
           Submit(nq, "io", "write", Block, Blocks, "nvme_next"), bounce' = Filled,
           UNCHANGED <<machine, sectors, unflushed, nvme_state, nvme_sectors, span, abandoned,
                       backend>>,
           \/ ~Partial
           \/ \A i \in 0..(Blocks * PER_BLOCK - 1) : bounce[i] = sectors[Block * PER_BLOCK + i]
    PROVE  /\ CallInv' /\ MachineInv' /\ NvmeInv' /\ FlushInv' /\ pc' \notin AtaAt
  <1>1. Looping
    BY Zenon DEF Looping, LoopAt
  <1>2. bounce' = [i \in 0..(MAX_BLOCKS * PER_BLOCK - 1) |-> bounce'[i]]
    <2>1. DOMAIN bounce = 0..(MAX_BLOCKS * PER_BLOCK - 1)
      BY Zenon DEF IInv, PlaceInv
    <2> QED BY Zenon, <2>1 DEF Filled
  <1>3. /\ CallInv' /\ MachineInv' /\ QueueInv' /\ PlaceInv' /\ FlushInv' /\ pc' \notin AtaAt
        /\ OnItsWay("io")' /\ Cmd("io")'.op = "write" /\ Cmd("io")'.block = Block
        /\ Cmd("io")'.blocks = Blocks
        /\ At' = "nvme_next" /\ pc' = "nvme_wait" /\ req' = req
    BY Zenon, <1>2, LoopSubmit
  <1>4. /\ nvme_state = "ready" /\ Shaped(req) /\ span.lba \in Nat /\ span.count \in Nat
        /\ span.lba + span.count <= Size
    BY Zenon, <1>1, LoopFacts
  <1>5. /\ Block \in Nat /\ Blocks \in 1..MAX_BLOCKS /\ Block + Blocks <= NSZE
        /\ Block * PER_BLOCK \in Nat
    BY Zenon, <1>4, TurnLaw
  <1>6. ASSUME NEW s \in Medium,
               Block * PER_BLOCK <= s, s < (Block + Blocks) * PER_BLOCK
        PROVE  /\ s \in Turn => bounce'[s - Block * PER_BLOCK] = req.data[s - req.lba]
               /\ s \notin Turn => bounce'[s - Block * PER_BLOCK] = sectors[s]
    <2> DEFINE x == Block * PER_BLOCK
               i == s - x
    <2>1. /\ bounce'[i] = IF s \in Turn THEN req.data[s - req.lba] ELSE bounce[i]
          /\ i \in 0..(Blocks * PER_BLOCK - 1)
          /\ ~Partial => s \in Turn
      BY Zenon, <1>1, <1>6, FilledLaw
    <2>2. s = x + i
      BY <1>5 DEF Medium
    <2> HIDE DEF x
    <2>3. s \notin Turn => bounce[i] = sectors[s]
      <3> SUFFICES ASSUME s \notin Turn PROVE bounce[i] = sectors[s]
        BY Zenon
      <3>1. bounce[i] = sectors[x + i]
        BY Zenon, <2>1 DEF x
      <3> QED BY Zenon, <2>2, <3>1
    <2>4. /\ s \in Turn => bounce'[i] = req.data[s - req.lba]
          /\ s \notin Turn => bounce'[i] = sectors[s]
      BY Zenon, <2>1, <2>3
    <2> QED BY Zenon, <2>4 DEF x
  <1>7. CommandInv'
    <2>1. ASSUME NEW s \in Covers(Cmd("io"))'
          PROVE  \/ Bounced(Cmd("io"), s)' = sectors'[s]
                 \/ s \in In(req)' /\ Bounced(Cmd("io"), s)' = req'.data[s - req'.lba]
      <3>1. s \in Medium /\ Block * PER_BLOCK <= s /\ s < (Block + Blocks) * PER_BLOCK
        BY Zenon, <1>3, <2>1 DEF Covers
      <3>2. Bounced(Cmd("io"), s)' = bounce'[s - Block * PER_BLOCK]
        BY Zenon, <1>3 DEF Bounced
      <3>3. s \in Turn => s \in In(req)
        BY Zenon, <1>1, TurnCovered
      <3>4. s \in In(req) => s \in In(req)'
        BY Zenon, <1>3 DEF In
      <3> QED BY Zenon, <1>3, <1>6, <3>1, <3>2, <3>3, <3>4
    <2>2. nvme_state' = "ready" /\ req'.fn = "write" /\ Shaped(req)'
      BY Zenon, <1>3, <1>4 DEF Writing
    <2> QED BY Zenon, <1>3, <1>5, <2>1, <2>2 DEF CommandInv
  <1>8. LoopInv'
    <2>1. LoopCore
      BY Zenon, <1>1 DEF IInv, LoopInv, LoopCore
    <2>2. LoopCore'
      BY Zenon, <1>3, <2>1, LoopCoreFrame
    <2>3. /\ Block' = Block /\ Blocks' = Blocks /\ Turn' = Turn /\ span'.count > 0 /\ Writing'
      BY Zenon, <1>3 DEF Block, Blocks, Offset, Turn, Span, Writing
    <2>4. \A s \in Turn' : Bounced(Cmd("io"), s)' = req'.data[s - req'.lba]
      <3> SUFFICES ASSUME NEW s \in Turn
                   PROVE  bounce'[s - Block * PER_BLOCK] = req.data[s - req.lba]
        BY Zenon, <1>3, <2>3 DEF Bounced
      <3>1. s \in Medium /\ Block * PER_BLOCK <= s /\ s < (Block + Blocks) * PER_BLOCK
        BY Zenon, <1>1, TurnCovered
      <3> QED BY Zenon, <1>6, <3>1
    <2>5. ~Done("io")'
      BY Zenon, <1>3 DEF Done
    <2> QED BY Zenon, <1>3, <2>2, <2>3, <2>4, <2>5 DEF LoopInv, LoopCore
  <1> QED BY Zenon, <1>3, <1>7, <1>8 DEF NvmeInv

\* transfer keeps the invariant up to the first command of a turn or the flush.
LEMMA TransferInv ==
    ASSUME IInv, transfer, UNCHANGED <<ataVars, diskVars>>
    PROVE  IInv'
  <1>1. /\ pc = "nvme_span" /\ pc \notin AtaAt
        /\ UNCHANGED <<machine, sectors, unflushed, nvme_state, nvme_sectors, span, abandoned,
                       backend>>
    BY Zenon DEF transfer, diskVars, AtaAt, MoveAt
  <1>2. Looping /\ LoopCore
    BY Zenon, <1>1 DEF IInv, Looping, LoopAt, LoopInv, LoopCore
  <1>3. /\ span.lba \in Nat /\ span.count \in Nat /\ nvme_state = "ready" /\ machine = "nvme"
        /\ span.lba + span.count <= Size /\ Shaped(req) /\ req.result = "none"
        /\ req.fn \in {"read", "write"}
    BY Zenon, <1>2, LoopFacts
  <1>4. bounce = [i \in 0..(MAX_BLOCKS * PER_BLOCK - 1) |-> bounce[i]]
    BY Zenon DEF IInv, PlaceInv
  <1>5. CASE span.count = 0 /\ Writing
    <2>1. Submit(nq, "io", "flush", 0, 0, "nvme_done") /\ bounce' = bounce
      BY <1>5 DEF transfer
    <2>2. /\ CallInv' /\ MachineInv' /\ QueueInv' /\ PlaceInv' /\ FlushInv' /\ pc' \notin AtaAt
          /\ OnItsWay("io")' /\ Cmd("io")'.op = "flush"
          /\ At' = "nvme_done" /\ pc' = "nvme_wait" /\ req' = req
      BY Zenon, <1>1, <1>4, <2>1, LoopSubmit
    <2>3. CommandInv'
      BY Zenon, <2>2 DEF CommandInv
    <2>4. LoopCore' /\ ~Done("io")' /\ Writing' /\ span'.count = 0
      BY Zenon, <1>1, <1>2, <1>5, <2>2, LoopCoreFrame DEF Done, Writing
    <2>5. LoopInv'
      BY Zenon, <2>2, <2>4 DEF LoopInv, LoopCore
    <2> QED BY Zenon, <1>1, <2>2, <2>3, <2>5, NvmeStepFrame DEF NvmeInv
  <1>6. CASE span.count = 0 /\ ~Writing
    <2>1. Return("ok") /\ UNCHANGED <<nq, command_id, waiting, bounce>>
      BY <1>3, <1>6 DEF transfer
    <2>2. pc' = "idle" /\ Shaped(req') /\ req'.result = "ok" /\ req'.fn = req.fn
      BY Zenon, <1>3, <2>1, ReturnLaw
    <2>3. Level(nq')
      BY Zenon, <1>1, <1>3, <2>1, LevelLaw DEF IInv
    <2>4. QueueInv' /\ CommandInv' /\ ~OnItsWay("admin")'
      BY Zenon, <2>2, <2>3, LevelQueueInv, NoCommandLaw
    <2>5. CallInv'
      BY Zenon, <1>1, <1>3, <2>2 DEF IInv, CallInv, Places, AtaAt, MoveAt, LoopAt
    <2>6. MachineInv'
      BY Zenon, <1>1, <2>2, MachineFrame DEF IInv, AtaAt, MoveAt, SetupAt
    <2>7. PlaceInv'
      BY Zenon, <1>1, <2>1, <2>2, <2>4 DEF IInv, PlaceInv, SetupAt, LoopAt, At
    <2>8. LoopInv'
      BY Zenon, <2>2 DEF LoopInv, Looping, LoopAt
    <2>9. FlushInv' /\ pc' \notin AtaAt
      BY Zenon, <1>6, <2>2 DEF FlushInv, Writing, AtaAt, MoveAt
    <2> QED BY Zenon, <1>1, <2>4, <2>5, <2>6, <2>7, <2>8, <2>9, NvmeStepFrame DEF NvmeInv
  <1>7. CASE span.count > 0 /\ (Partial \/ ~Writing)
    <2>1. Submit(nq, "io", "read", Block, Blocks, "nvme_copy") /\ bounce' = bounce
      BY <1>3, <1>7 DEF transfer
    <2>2. /\ CallInv' /\ MachineInv' /\ QueueInv' /\ PlaceInv' /\ FlushInv' /\ pc' \notin AtaAt
          /\ OnItsWay("io")' /\ Cmd("io")'.op = "read"
          /\ Cmd("io")'.block = Block /\ Cmd("io")'.blocks = Blocks
          /\ At' = "nvme_copy" /\ pc' = "nvme_wait" /\ req' = req
      BY Zenon, <1>1, <1>4, <2>1, LoopSubmit
    <2>3. Block \in Nat /\ Blocks \in 1..MAX_BLOCKS /\ Block + Blocks <= NSZE
      BY Zenon, <1>3, <1>7, TurnLaw
    <2>4. CommandInv'
      BY Zenon, <2>2, <2>3 DEF CommandInv
    <2>5. LoopCore' /\ ~Done("io")' /\ span'.count > 0 /\ Block' = Block /\ Blocks' = Blocks
      BY Zenon, <1>1, <1>2, <1>7, <2>2, LoopCoreFrame DEF Done, Block, Blocks, Offset
    <2>6. LoopInv'
      BY Zenon, <2>2, <2>5 DEF LoopInv, LoopCore
    <2> QED BY Zenon, <1>1, <2>2, <2>4, <2>6, NvmeStepFrame DEF NvmeInv
  <1>8. CASE span.count > 0 /\ ~Partial /\ Writing
    <2>1. Submit(nq, "io", "write", Block, Blocks, "nvme_next") /\ bounce' = Filled
      BY <1>3, <1>8 DEF transfer
    <2>2. CallInv' /\ MachineInv' /\ NvmeInv' /\ FlushInv' /\ pc' \notin AtaAt
      BY Zenon, <1>1, <1>8, <2>1, WriteSubmit
    <2> QED BY Zenon, <1>1, <2>2, NvmeStepFrame
  <1> QED BY <1>3, <1>5, <1>6, <1>7, <1>8

\* transfer's loop takes the next turn: the caller's and the medium's sectors
\* agree up to the end of this one.
LEMMA NextTurn ==
    ASSUME IInv, pc \in LoopAt, span.count > 0,
           UNCHANGED <<ataVars, diskVars, machine, sectors, unflushed, nvme_state, nvme_sectors, nq,
                       command_id, waiting, abandoned>>,
           pc' = "nvme_span", span' = NextSpan, bounce' = CleanBounce,
           Shaped(req'), req'.fn = req.fn, req'.lba = req.lba, req'.count = req.count,
           req'.result = req.result,
           \A i \in 0..(req.count - 1) :
               req.lba + i < span.lba + Span => req'.data[i] = sectors[req.lba + i]
    PROVE  IInv'
  <1>1. Looping /\ pc # "nvme_wait"
    BY Zenon DEF Looping, LoopAt
  <1>2. /\ span.lba \in Nat /\ span.count \in Nat /\ req.lba \in Nat /\ req.count \in Nat
        /\ req.count > 0 /\ req.lba <= span.lba
        /\ span.lba + span.count = req.lba + req.count /\ req.lba + req.count <= Size
        /\ req.fn \in {"read", "write"} /\ req.result = "none" /\ nvme_state = "ready"
        /\ pc \notin AtaAt /\ pc # "idle" /\ span.lba + span.count <= Size
    BY Zenon, <1>1, LoopFacts
  <1>3. Span \in 1..span.count
    BY Zenon, <1>2, TurnLaw
  <1>4. span'.lba = span.lba + Span /\ span'.count = span.count - Span
    BY Zenon DEF NextSpan
  <1>5. Level(nq')
    BY Zenon, <1>1, <1>2, LevelLaw DEF IInv
  <1>6. QueueInv' /\ CommandInv' /\ ~OnItsWay("admin")'
    BY Zenon, <1>5, LevelQueueInv, NoCommandLaw
  <1>7. CallInv'
    BY Zenon, <1>2 DEF IInv, CallInv, Places, AtaAt, MoveAt, LoopAt
  <1>8. MachineInv'
    BY Zenon, <1>1, <1>2, MachineFrame DEF IInv, diskVars, AtaAt, MoveAt, SetupAt
  <1>9. PlaceInv'
    BY Zenon, <1>2, <1>6 DEF IInv, PlaceInv, SetupAt, LoopAt, At, CleanBounce
  <1>10. Agree(req', span'.lba - req'.lba, sectors')
    <2> SUFFICES ASSUME NEW i \in 0..(((span.lba + Span) - req.lba) - 1)
                 PROVE  req'.data[i] = sectors[req.lba + i]
      <3>1. span'.lba - req'.lba = (span.lba + Span) - req.lba /\ req'.lba = req.lba
        BY Zenon, <1>4
      <3>2. sectors' = sectors
        BY Zenon
      <3> QED BY Zenon, <3>1, <3>2 DEF Agree
    <2>1. i \in 0..(req.count - 1) /\ req.lba + i < span.lba + Span
      BY <1>2, <1>3
    <2> QED BY Zenon, <2>1
  <1>11. /\ span'.lba \in Nat /\ span'.count \in Nat /\ req'.lba <= span'.lba
         /\ span'.lba + span'.count = req'.lba + req'.count
         /\ req'.count > 0 /\ req'.lba + req'.count <= Size
    BY <1>2, <1>3, <1>4
  <1>12. LoopInv'
    BY Zenon, <1>10, <1>11 DEF LoopInv, Looping, LoopAt, At
  <1>13. FlushInv' /\ pc' \notin AtaAt
    BY Zenon DEF FlushInv, AtaAt, MoveAt
  <1> QED BY Zenon, <1>2, <1>6, <1>7, <1>8, <1>9, <1>12, <1>13, NvmeStepFrame DEF NvmeInv

\* The sectors that a read has copied out of the bounce buffer.
LEMMA CopiedLaw ==
    ASSUME IInv, pc = "nvme_copy", ~Writing, NEW i \in 0..(req.count - 1),
           req.lba + i < span.lba + Span
    PROVE  LET b == i - (span.lba - req.lba)
           IN  (IF 0 <= b /\ b < Span THEN bounce[b + Offset] ELSE req.data[i])
                 = sectors[req.lba + i]
  <1>1. Looping
    BY Zenon DEF Looping, LoopAt
  <1>2. /\ span.lba \in Nat /\ span.count \in Nat /\ req.lba \in Nat /\ req.count \in Nat
        /\ req.lba <= span.lba /\ span.lba + span.count = req.lba + req.count
        /\ span.lba + span.count <= Size
        /\ Agree(req, span.lba - req.lba, sectors)
    BY Zenon, <1>1, LoopFacts
  <1>3. /\ span.count > 0
        /\ \A j \in 0..(Blocks * PER_BLOCK - 1) : bounce[j] = sectors[Block * PER_BLOCK + j]
    BY Zenon, <1>1 DEF IInv, LoopInv, At
  <1> DEFINE x == Block * PER_BLOCK
             y == Blocks * PER_BLOCK
             b == i - (span.lba - req.lba)
  <1>4. /\ x \in Nat /\ y \in Nat /\ span.lba = x + Offset /\ Offset \in Nat
        /\ Span \in 1..span.count /\ Offset + Span <= y
    BY Zenon, <1>2, <1>3, TurnLaw
  <1>5. \A j \in 0..(y - 1) : bounce[j] = sectors[x + j]
    BY Zenon, <1>3
  <1> HIDE DEF x, y
  <1>6. CASE 0 <= b /\ b < Span
    <2>1. b + Offset \in 0..(y - 1) /\ x + (b + Offset) = req.lba + i
      BY <1>2, <1>4, <1>6
    <2>2. bounce[b + Offset] = sectors[x + (b + Offset)]
      BY Zenon, <1>5, <2>1
    <2>3. bounce[b + Offset] = sectors[req.lba + i]
      BY Zenon, <2>1, <2>2
    <2> QED BY Zenon, <1>6, <2>3
  <1>7. CASE ~(0 <= b /\ b < Span)
    <2>1. i \in 0..((span.lba - req.lba) - 1)
      BY <1>2, <1>4, <1>7
    <2>2. req.data[i] = sectors[req.lba + i]
      BY Zenon, <1>2, <2>1 DEF Agree
    <2> QED BY Zenon, <1>7, <2>2
  <1> QED BY Zenon, <1>6, <1>7

\* So does the copy between the bounce buffer and the caller's memory.
LEMMA TransferCopyInv ==
    ASSUME IInv, transfer_copy, UNCHANGED <<ataVars, diskVars>>
    PROVE  IInv'
  <1>1. /\ pc = "nvme_copy" /\ pc \notin AtaAt /\ pc \in LoopAt
        /\ UNCHANGED <<machine, sectors, unflushed, nvme_state, nvme_sectors, abandoned, backend>>
    BY Zenon DEF transfer_copy, diskVars, AtaAt, MoveAt, LoopAt
  <1>2. Looping
    BY Zenon, <1>1 DEF Looping
  <1>3. /\ span.count > 0
        /\ \A i \in 0..(Blocks * PER_BLOCK - 1) : bounce[i] = sectors[Block * PER_BLOCK + i]
    BY Zenon, <1>1, <1>2 DEF IInv, LoopInv, At
  <1>4. CASE Writing
    <2>1. Submit(nq, "io", "write", Block, Blocks, "nvme_next") /\ bounce' = Filled /\ span' = span
      BY Zenon, <1>4 DEF transfer_copy
    <2>2. CallInv' /\ MachineInv' /\ NvmeInv' /\ FlushInv' /\ pc' \notin AtaAt
      BY Zenon, <1>1, <1>3, <1>4, <2>1, WriteSubmit
    <2> QED BY Zenon, <1>1, <2>2, NvmeStepFrame
  <1>5. CASE ~Writing
    <2>1. /\ pc' = "nvme_span" /\ span' = NextSpan /\ bounce' = CleanBounce
          /\ UNCHANGED <<nq, command_id, waiting>>
          /\ req' = [req EXCEPT !.data = [i \in DOMAIN @ |->
                       LET b == i - (span.lba - req.lba)
                       IN  IF 0 <= b /\ b < Span THEN bounce[b + Offset] ELSE @[i]]]
      BY Zenon, <1>5 DEF transfer_copy
    <2>2. Shaped(req)
      BY Zenon, <1>2, LoopFacts
    <2> DEFINE new(i) == LET b == i - (span.lba - req.lba)
                         IN  IF 0 <= b /\ b < Span THEN bounce[b + Offset] ELSE req.data[i]
    <2>3. req' = [req EXCEPT !.data = [i \in 0..(req.count - 1) |-> new(i)]]
      BY Zenon, <2>1, <2>2 DEF Shaped
    <2>4. \A i \in 0..(req.count - 1) :
             req.lba + i < span.lba + Span => new(i) = sectors[req.lba + i]
      BY Zenon, <1>1, <1>5, CopiedLaw
    <2> HIDE DEF new
    <2>5. /\ Shaped(req') /\ req'.fn = req.fn /\ req'.lba = req.lba /\ req'.count = req.count
          /\ req'.result = req.result
          /\ \A i \in 0..(req.count - 1) : req'.data[i] = new(i)
      BY Zenon, <2>2, <2>3 DEF Shaped
    <2>6. \A i \in 0..(req.count - 1) :
             req.lba + i < span.lba + Span => req'.data[i] = sectors[req.lba + i]
      BY Zenon, <2>4, <2>5
    <2> QED BY Zenon, <1>1, <1>3, <2>1, <2>5, <2>6, NextTurn
  <1> QED BY Zenon, <1>4, <1>5

\* So does the end of a turn, and of the call.
LEMMA TransferNextInv ==
    ASSUME IInv, transfer_next, UNCHANGED <<ataVars, diskVars>>
    PROVE  IInv'
  <1>1. /\ pc \in {"nvme_next", "nvme_done"} /\ pc \notin AtaAt /\ pc \in LoopAt
        /\ UNCHANGED <<machine, sectors, unflushed, nvme_state, nvme_sectors, nq, command_id,
                       waiting, abandoned, backend>>
    BY Zenon DEF transfer_next, diskVars, AtaAt, MoveAt, LoopAt
  <1>2. Looping
    BY Zenon, <1>1 DEF Looping
  <1>3. /\ span.lba \in Nat /\ span.count \in Nat /\ req.lba \in Nat /\ req.count \in Nat
        /\ req.lba <= span.lba /\ span.lba + span.count = req.lba + req.count
        /\ req.lba + req.count <= Size /\ span.lba + span.count <= Size
        /\ Agree(req, span.lba - req.lba, sectors)
        /\ Shaped(req) /\ nvme_state = "ready" /\ req.fn \in {"read", "write"}
    BY Zenon, <1>2, LoopFacts
  <1>4. CASE pc = "nvme_next"
    <2>1. pc' = "nvme_span" /\ req' = req /\ span' = NextSpan /\ bounce' = CleanBounce
      BY Zenon, <1>4 DEF transfer_next, Goto
    <2>2. span.count > 0 /\ \A s \in Turn : sectors[s] = req.data[s - req.lba]
      BY Zenon, <1>2, <1>4 DEF IInv, LoopInv, At
    <2>3. ASSUME NEW i \in 0..(req.count - 1), req.lba + i < span.lba + Span
          PROVE  req'.data[i] = sectors[req.lba + i]
      <3>1. CASE req.lba + i < span.lba
        <4>1. i \in 0..((span.lba - req.lba) - 1)
          BY <1>3, <3>1
        <4> QED BY Zenon, <1>3, <2>1, <4>1 DEF Agree
      <3>2. CASE ~(req.lba + i < span.lba)
        <4> DEFINE s == req.lba + i
                   m == NSZE * PER_BLOCK
        <4>1. m \in Nat /\ Size \in Nat /\ Size <= m
          BY Zenon, SizeLaw
        <4>2. Medium = 0..(m - 1)
          BY Zenon DEF Medium
        <4> HIDE DEF m
        <4>3. s \in Medium /\ span.lba <= s /\ s < span.lba + Span /\ s - req.lba = i
          BY <1>3, <2>3, <3>2, <4>1, <4>2
        <4>4. s \in Turn
          BY Zenon, <4>3 DEF Turn
        <4>5. sectors[s] = req.data[s - req.lba]
          BY Zenon, <2>2, <4>4
        <4>6. sectors[s] = req.data[i]
          BY Zenon, <4>3, <4>5
        <4> QED BY Zenon, <2>1, <4>6
      <3> QED BY Zenon, <3>1, <3>2
    <2> QED BY Zenon, <1>1, <1>3, <2>1, <2>2, <2>3, NextTurn
  <1>5. CASE pc = "nvme_done"
    <2>1. Return("ok") /\ UNCHANGED <<span, bounce>>
      BY Zenon, <1>5 DEF transfer_next
    <2>2. pc' = "idle" /\ Shaped(req') /\ req'.result = "ok" /\ req'.fn = req.fn
      BY Zenon, <1>3, <2>1, ReturnLaw
    <2>3. ~unflushed
      BY Zenon, <1>2, <1>5 DEF IInv, LoopInv, At
    <2>4. Level(nq')
      BY Zenon, <1>1, <1>3, LevelLaw DEF IInv
    <2>5. QueueInv' /\ CommandInv' /\ ~OnItsWay("admin")'
      BY Zenon, <2>2, <2>4, LevelQueueInv, NoCommandLaw
    <2>6. CallInv'
      BY Zenon, <1>1, <1>3, <2>2 DEF IInv, CallInv, Places, AtaAt, MoveAt, LoopAt
    <2>7. MachineInv'
      BY Zenon, <1>1, <2>2, MachineFrame DEF IInv, AtaAt, MoveAt, SetupAt
    <2>8. PlaceInv'
      BY Zenon, <1>1, <2>1, <2>2, <2>5 DEF IInv, PlaceInv, SetupAt, LoopAt, At
    <2>9. LoopInv'
      BY Zenon, <2>2 DEF LoopInv, Looping, LoopAt
    <2>10. FlushInv' /\ pc' \notin AtaAt
      BY Zenon, <1>1, <1>3, <2>2, <2>3 DEF FlushInv, AtaAt, MoveAt
    <2> QED BY Zenon, <1>1, <2>5, <2>6, <2>7, <2>8, <2>9, <2>10, NvmeStepFrame DEF NvmeInv
  <1> QED BY Zenon, <1>1, <1>4, <1>5

-----------------------------------------------------------------------------
(* The NVMe controller.                                                    *)

\* The sectors that a command names.
LEMMA CommandCovers ==
    ASSUME DOMAIN sectors = Medium, NEW c, c.block \in Nat, c.blocks \in Nat
    PROVE  CommandSectors(c) = Covers(c)
  <1> DEFINE b == c.block
             n == c.blocks
  <1>1. \A s \in Medium :
           s \div PER_BLOCK \in b..(b + n - 1) <=> b * PER_BLOCK <= s /\ s < (b + n) * PER_BLOCK
    <2> SUFFICES ASSUME NEW s \in Medium
                 PROVE  s \div PER_BLOCK \in b..(b + n - 1)
                          <=> b * PER_BLOCK <= s /\ s < (b + n) * PER_BLOCK
      BY Zenon
    <2>1. s \in Nat /\ PER_BLOCK \in Nat \ {0} /\ b \in Nat /\ n \in Nat
      BY DiskAssumption DEF Medium
    <2> HIDE DEF b, n
    <2> QED BY Zenon, <2>1, DivBetween
  <1> QED BY Zenon, <1>1 DEF CommandSectors, Covers

Owner == IF nvme_state = "failed" THEN abandoned ELSE req

\* What a command on its way may do to the medium: only a write changes it, and
\* only by storing sectors of the request it belongs to.
LEMMA DeviceStores ==
    ASSUME IInv, NEW q \in QueueNames, nvme_device(q)
    PROVE  /\ sectors' = [s \in Medium |-> sectors'[s]]
           /\ \/ sectors' = sectors
              \/ /\ Owner.fn = "write" /\ Shaped(Owner)
                 /\ \A s \in Medium :
                       \/ sectors'[s] = sectors[s]
                       \/ s \in In(Owner) /\ sectors'[s] = Owner.data[s - Owner.lba]
  <1>1. sectors = [s \in Medium |-> sectors[s]]
    BY Zenon DEF IInv, CallInv
  <1>2. /\ OnItsWay(q)
        /\ \/ UNCHANGED sectors
           \/ Cmd(q).op = "write" /\ \E done : sectors' = Written(Cmd(q), done)
    BY Zenon, DeviceStep DEF IInv
  <1>3. CASE UNCHANGED sectors
    BY Zenon, <1>1, <1>3
  <1>4. CASE Cmd(q).op = "write" /\ \E done : sectors' = Written(Cmd(q), done)
    <2> DEFINE c == Cmd("io")
    <2>1. q = "io"
      BY Zenon, <1>2, <1>4 DEF IInv, PlaceInv, QueueNames
    <2>2. PICK done : sectors' = Written(c, done)
      BY Zenon, <1>4, <2>1
    <2>3. /\ c.block \in Nat /\ c.blocks \in 1..MAX_BLOCKS
          /\ Owner.fn = "write" /\ Shaped(Owner)
          /\ \A s \in Covers(c) :
                \/ Bounced(c, s) = sectors[s]
                \/ s \in In(Owner) /\ Bounced(c, s) = Owner.data[s - Owner.lba]
      BY Zenon, <1>2, <1>4, <2>1 DEF IInv, CommandInv, Owner
    <2>4. CommandSectors(c) = Covers(c)
      <3>1. DOMAIN sectors = Medium /\ c.blocks \in Nat
        BY <1>1, <2>3, DiskAssumption
      <3> HIDE DEF c
      <3> QED BY Zenon, <2>3, <3>1, CommandCovers
    <2> HIDE DEF c
    <2>5. sectors' = [s \in Medium |->
                        IF s \in Covers(c) /\ s < c.block * PER_BLOCK + done
                        THEN Bounced(c, s) ELSE sectors[s]]
      BY Zenon, <1>1, <2>2, <2>4 DEF Written, Bounced
    <2> QED BY Zenon, <2>3, <2>5
  <1> QED BY Zenon, <1>2, <1>3, <1>4

\* A step of the controller changes only the medium, its side of the queue and the
\* bounce buffer.
LEMMA DeviceFrame ==
    ASSUME IInv, NEW q \in QueueNames, nvme_device(q), UNCHANGED <<ataVars, diskVars>>
    PROVE  /\ CallInv' /\ MachineInv' /\ AtaInv' /\ QueueInv' /\ FlushInv'
           /\ UNCHANGED <<machine, req, pc, nvme_state, nvme_sectors, waiting, span, abandoned>>
           /\ bounce' = [i \in 0..(MAX_BLOCKS * PER_BLOCK - 1) |-> bounce'[i]]
  <1>1. UNCHANGED <<machine, req, pc, nvme_state, nvme_sectors, waiting, span, abandoned>>
    BY Zenon DEF nvme_device
  <1>2. /\ QueueInv' /\ machine = "nvme"
        /\ (pc = "nvme_wait" /\ waiting.q = q) \/ nvme_state = "failed"
        /\ \/ unflushed' = TRUE \/ \E ok \in BOOLEAN : unflushed' = (unflushed /\ ok)
        /\ \/ bounce' = bounce
           \/ bounce' = [i \in DOMAIN bounce |->
                           LET s == Cmd(q).block * PER_BLOCK + i
                           IN  IF s \in CommandSectors(Cmd(q)) THEN sectors[s] ELSE bounce[i]]
    BY Zenon, DeviceStep DEF IInv
  <1>3. bounce = [i \in 0..(MAX_BLOCKS * PER_BLOCK - 1) |-> bounce[i]]
    BY Zenon DEF IInv, PlaceInv
  <1>4. bounce' = [i \in 0..(MAX_BLOCKS * PER_BLOCK - 1) |-> bounce'[i]]
    <2> DEFINE new(i) == LET s == Cmd(q).block * PER_BLOCK + i
                         IN  IF s \in CommandSectors(Cmd(q)) THEN sectors[s] ELSE bounce[i]
               dom == 0..(MAX_BLOCKS * PER_BLOCK - 1)
    <2>1. bounce' = bounce \/ bounce' = [i \in DOMAIN bounce |-> new(i)]
      BY Zenon, <1>2
    <2>2. bounce = [i \in dom |-> bounce[i]]
      BY Zenon, <1>3
    <2> HIDE DEF new, dom
    <2>3. bounce' = [i \in dom |-> bounce'[i]]
      BY Zenon, <2>1, <2>2
    <2> QED BY Zenon, <2>3 DEF dom
  <1>5. unflushed' \in BOOLEAN
    BY Zenon, <1>2
  <1>6. sectors' = [s \in Medium |-> sectors'[s]]
    BY Zenon, DeviceStores
  <1>7. CallInv'
    BY Zenon, <1>1, <1>5, <1>6 DEF IInv, CallInv
  <1>8. MachineInv'
    BY Zenon, <1>1 DEF IInv, MachineInv, diskVars
  <1>9. AtaInv'
    <2>1. pc \notin AtaAt
      BY Zenon, <1>2 DEF IInv, MachineInv
    <2> QED BY Zenon, <1>1, <2>1, AtaFrame DEF IInv
  <1>10. FlushInv'
    BY Zenon, <1>1, <1>2 DEF IInv, FlushInv, Writing
  <1> QED BY Zenon, <1>1, <1>2, <1>4, <1>7, <1>8, <1>9, <1>10

\* The completion of a transfer command, while its call waits.
LEMMA DeviceLoop ==
    ASSUME IInv, nvme_device("io"), Looping, pc = "nvme_wait"
    PROVE  LoopInv'
  <1>1. UNCHANGED <<machine, req, pc, nvme_state, nvme_sectors, waiting, span, abandoned>>
    BY Zenon DEF nvme_device
  <1>2. /\ span.lba \in Nat /\ span.count \in Nat /\ req.lba \in Nat /\ req.count \in Nat
        /\ req.lba <= span.lba /\ span.lba + span.count = req.lba + req.count
        /\ req.lba + req.count <= Size /\ span.lba + span.count <= Size /\ req.count > 0
        /\ Agree(req, span.lba - req.lba, sectors) /\ nvme_state = "ready"
    BY Zenon, LoopFacts
  <1> DEFINE c == Cmd("io")
             m == NSZE * PER_BLOCK
  <1>3. PICK ok \in BOOLEAN :
          /\ Done("io")' => ok
          /\ OnItsWay("io") /\ ~OnItsWay("io")'
          /\ c.op = "write" /\ ok => sectors' = Written(c, c.blocks * PER_BLOCK)
          /\ c.op = "flush" /\ ok => ~unflushed'
          /\ c.op # "write" => sectors' = sectors
          /\ c.op = "read" => bounce' = [i \in DOMAIN bounce |->
                                LET s == c.block * PER_BLOCK + i
                                IN  IF s \in CommandSectors(c) THEN sectors[s] ELSE bounce[i]]
    <2>1. QueueInv /\ "io" \in QueueNames
      BY Zenon DEF IInv, QueueNames
    <2>2. /\ OnItsWay("io") /\ ~OnItsWay("io")'
          /\ \E ok \in BOOLEAN :
                /\ nq'["io"].cq[nq'["io"].cq_head].ok = ok
                /\ IF c.op = "write"
                   THEN \E done \in 0..c.blocks * PER_BLOCK :
                          /\ ok => done = c.blocks * PER_BLOCK
                          /\ sectors' = Written(c, done)
                          /\ unflushed' = TRUE
                   ELSE /\ unflushed' = (unflushed /\ ~(c.op = "flush" /\ ok))
                        /\ UNCHANGED sectors
                /\ bounce' = IF c.op # "read" THEN bounce
                             ELSE [i \in DOMAIN bounce |->
                                     LET s == c.block * PER_BLOCK + i
                                     IN  IF s \in CommandSectors(c) THEN sectors[s] ELSE bounce[i]]
      BY Zenon, <2>1, DeviceStep
    <2>3. Done("io")' <=> nq'["io"].cq[nq'["io"].cq_head].ok
      BY Zenon, <2>2 DEF Done
    <2> HIDE DEF c
    <2> QED BY Zenon, <2>2, <2>3
  <1>4. m \in Nat /\ Size \in Nat /\ Size <= m /\ Medium = 0..(m - 1)
    BY Zenon, SizeLaw DEF Medium
  <1>5. At' = At /\ Turn' = Turn /\ Block' = Block /\ Blocks' = Blocks /\ (Writing <=> Writing')
    BY Zenon, <1>1 DEF At, Turn, Span, Block, Blocks, Offset, Writing
  <1>6. /\ At \in {"nvme_copy", "nvme_next"} => span.count > 0
        /\ At \in {"nvme_next", "nvme_done"} => Writing
        /\ At = "nvme_done" => span.count = 0
        /\ At = "nvme_copy" => c.op = "read"
        /\ At = "nvme_next" => c.op = "write"
        /\ At = "nvme_done" => c.op = "flush"
        /\ At \in {"nvme_copy", "nvme_next"} => c.block = Block /\ c.blocks = Blocks
        /\ At = "nvme_next" => \A s \in Turn : Bounced(c, s) = req.data[s - req.lba]
    BY Zenon, <1>3 DEF IInv, LoopInv
  <1>7. Agree(req', span'.lba - req'.lba, sectors')
    <2> SUFFICES ASSUME NEW i \in 0..((span.lba - req.lba) - 1)
                 PROVE  req.data[i] = sectors'[req.lba + i]
      BY Zenon, <1>1 DEF Agree
    <2> HIDE DEF m
    <2> DEFINE s == req.lba + i
    <2>1. s \in Medium /\ s - req.lba = i
      <3>1. req.lba \in Nat /\ span.lba \in Nat /\ req.lba + i < m /\ i \in Nat
        BY SMTT(30), <1>2, <1>4
      <3> QED BY <1>4, <3>1
    <2>2. req.data[i] = sectors[s]
      BY Zenon, <1>2 DEF Agree
    <2>3. sectors'[s] = sectors[s] \/ sectors'[s] = req.data[s - req.lba]
      <3>1. Owner = req
        BY Zenon, <1>2 DEF Owner
      <3> HIDE DEF s
      <3> QED BY Zenon, <2>1, <3>1, DeviceStores DEF QueueNames
    <2> QED BY Zenon, <2>1, <2>2, <2>3
  <1>8. CommandSectors(c) = Covers(c) \/ At \notin {"nvme_copy", "nvme_next"}
    <2> SUFFICES ASSUME At \in {"nvme_copy", "nvme_next"} PROVE CommandSectors(c) = Covers(c)
      BY Zenon
    <2>1. Block \in Nat /\ Blocks \in Nat
      BY <1>2, <1>6, TurnLaw, DiskAssumption
    <2>2. DOMAIN sectors = Medium
      BY Zenon DEF IInv, CallInv
    <2>3. c.block \in Nat /\ c.blocks \in Nat
      BY Zenon, <1>6, <2>1
    <2> HIDE DEF c
    <2> QED BY Zenon, <2>2, <2>3, CommandCovers
  <1> HIDE DEF c
  <1>9. ASSUME Done("io")', At = "nvme_copy", NEW i \in 0..(Blocks * PER_BLOCK - 1)
        PROVE  bounce'[i] = sectors'[Block * PER_BLOCK + i]
    <2> DEFINE x == Block * PER_BLOCK
               y == Blocks * PER_BLOCK
               z == (Block + Blocks) * PER_BLOCK
               k == MAX_BLOCKS * PER_BLOCK
               s == x + i
    <2>1. /\ x \in Nat /\ y \in Nat /\ z = x + y /\ z <= m /\ y <= k /\ k \in Nat
      BY Zenon, <1>2, <1>6, <1>9, TurnLaw
    <2>2. DOMAIN bounce = 0..(k - 1)
      BY Zenon DEF IInv, PlaceInv
    <2>3. i \in 0..(y - 1)
      BY Zenon
    <2>4. s \in Covers(c) <=> s \in Medium /\ x <= s /\ s < z
      BY Zenon, <1>6, <1>9 DEF Covers
    <2>5. bounce'[i] = IF s \in CommandSectors(c) THEN sectors[s] ELSE bounce[i]
      <3>1. i \in DOMAIN bounce
        <4> HIDE DEF y, k
        <4> QED BY <2>1, <2>2, <2>3
      <3> QED BY Zenon, <1>3, <1>6, <1>9, <3>1
    <2> HIDE DEF x, y, z, k, m
    <2>6. s \in Covers(c)
      BY <1>4, <2>1, <2>3, <2>4
    <2>7. bounce'[i] = sectors[s]
      BY Zenon, <1>8, <1>9, <2>5, <2>6
    <2>8. sectors' = sectors
      BY Zenon, <1>3, <1>6, <1>9
    <2> QED BY Zenon, <2>7, <2>8 DEF x
  <1>10. ASSUME Done("io")', At = "nvme_next", NEW s \in Turn
         PROVE  sectors'[s] = req.data[s - req.lba]
    <2> DEFINE x == Block * PER_BLOCK
               y == Blocks * PER_BLOCK
               z == (Block + Blocks) * PER_BLOCK
    <2>1. z = x + y
      BY Zenon, <1>2, <1>6, <1>10, TurnLaw
    <2>2. s \in Medium /\ x <= s /\ s < z
      BY Zenon, <1>6, <1>10, TurnCovered
    <2>3. s \in CommandSectors(c)
      BY Zenon, <1>6, <1>8, <1>10, <2>2 DEF Covers
    <2>4. sectors' = Written(c, y)
      BY Zenon, <1>3, <1>6, <1>10
    <2>5. DOMAIN sectors = Medium
      BY Zenon DEF IInv, CallInv
    <2>6. sectors'[s] = bounce[s - x]
      <3>1. s < x + y
        BY Zenon, <2>1, <2>2
      <3>2. c.block * PER_BLOCK = x
        BY Zenon, <1>6, <1>10
      <3> HIDE DEF x, y
      <3> QED BY Zenon, <2>2, <2>3, <2>4, <2>5, <3>1, <3>2 DEF Written
    <2>7. bounce[s - x] = req.data[s - req.lba]
      <3>1. Bounced(c, s) = req.data[s - req.lba] /\ c.block = Block
        BY Zenon, <1>6, <1>10
      <3> QED BY Zenon, <3>1 DEF Bounced
    <2> QED BY Zenon, <2>6, <2>7
  <1>11. Done("io")' /\ At = "nvme_done" => ~unflushed'
    BY Zenon, <1>3, <1>6
  <1> QED BY Zenon, <1>1, <1>2, <1>3, <1>5, <1>6, <1>7, <1>9, <1>10, <1>11 DEF LoopInv

\* Every step of the controller keeps the invariant, one long after the time-out too.
LEMMA DeviceInv ==
    ASSUME IInv, NEW q \in QueueNames, nvme_device(q), UNCHANGED <<ataVars, diskVars>>
    PROVE  IInv'
  <1>1. /\ CallInv' /\ MachineInv' /\ AtaInv' /\ QueueInv' /\ FlushInv'
        /\ UNCHANGED <<machine, req, pc, nvme_state, nvme_sectors, waiting, span, abandoned>>
        /\ bounce' = [i \in 0..(MAX_BLOCKS * PER_BLOCK - 1) |-> bounce'[i]]
    BY Zenon, DeviceFrame
  <1>2. /\ OnItsWay(q) /\ ~OnItsWay(q)'
        /\ (pc = "nvme_wait" /\ waiting.q = q) \/ nvme_state = "failed"
        /\ \A z \in QueueNames \ {q} : nq'[z] = nq[z]
    BY Zenon, DeviceStep DEF IInv
  <1>3. At' = At
    BY Zenon, <1>1 DEF At
  <1>4. OnItsWay("admin")' => OnItsWay("admin") /\ Cmd("admin")' = Cmd("admin")
    BY Zenon, <1>2 DEF OnItsWay, Cmd, QueueNames
  <1>5. PlaceInv'
    BY Zenon, <1>1, <1>3, <1>4 DEF IInv, PlaceInv
  <1>6. CASE q = "io"
    <2>1. CommandInv'
      BY Zenon, <1>2, <1>6 DEF CommandInv
    <2>2. LoopInv'
      <3>1. CASE Looping /\ pc = "nvme_wait"
        BY Zenon, <1>6, <3>1, DeviceLoop
      <3>2. CASE ~Looping
        BY Zenon, <1>1, <3>2 DEF LoopInv, Looping
      <3>3. CASE Looping /\ pc # "nvme_wait"
        <4>1. nvme_state = "ready"
          BY Zenon, <3>3, LoopFacts
        <4> QED BY Zenon, <1>2, <3>3, <4>1
      <3> QED BY Zenon, <3>1, <3>2, <3>3
    <2> QED BY Zenon, <1>1, <1>5, <2>1, <2>2 DEF IInv
  <1>7. CASE q = "admin"
    <2>1. sectors' = sectors /\ bounce' = bounce
      <3>1. Cmd(q).op \notin {"read", "write", "flush"}
        BY Zenon, <1>2, <1>7 DEF IInv, PlaceInv
      <3> QED BY Zenon, <3>1, DeviceStep DEF IInv
    <2>2. nq'["io"] = nq["io"]
      BY Zenon, <1>2, <1>7 DEF QueueNames
    <2>3. /\ OnItsWay("io")' <=> OnItsWay("io")
          /\ Cmd("io")' = Cmd("io") /\ Covers(Cmd("io"))' = Covers(Cmd("io"))
      BY Zenon, <2>2 DEF OnItsWay, Cmd, Covers
    <2>4. \A s : Bounced(Cmd("io"), s)' = Bounced(Cmd("io"), s)
      BY Zenon, <2>1, <2>3 DEF Bounced
    <2>5. CommandInv'
      BY <1>1, <2>1, <2>3, <2>4 DEF IInv, CommandInv
    <2>6. ~Looping
      <3>1. CASE nvme_state = "failed"
        BY Zenon, <3>1, LoopFacts
      <3>2. CASE pc = "nvme_wait" /\ waiting.q = q
        BY Zenon, <1>7, <3>2 DEF IInv, PlaceInv, Looping, LoopAt
      <3> QED BY Zenon, <1>2, <3>1, <3>2
    <2>7. LoopInv'
      BY Zenon, <1>1, <2>6 DEF LoopInv, Looping
    <2> QED BY Zenon, <1>1, <1>5, <2>5, <2>7 DEF IInv
  <1> QED BY Zenon, <1>6, <1>7 DEF QueueNames

-----------------------------------------------------------------------------
(* The invariant.                                                          *)

\* The invariant holds at power on.
LEMMA InitInv == Init => IInv
  <1> SUFFICES ASSUME Init PROVE IInv
    BY Zenon
  <1>1. /\ req = NoRequest /\ pc = "idle" /\ drive = IdleDrive /\ index = 0 /\ attempt = 0
        /\ nvme_state = "untried" /\ bounce = CleanBounce /\ abandoned = NoRequest
        /\ nq = [q \in QueueNames |-> queue_setup] /\ backend = "none" /\ unflushed = FALSE
        /\ machine \in {"ata", "nvme", "none"}
        /\ sectors = [s \in Medium |-> sectors[s]]
    BY Zenon DEF Init, QueueNames
  <1>2. /\ req.fn = "none" /\ req.result = "none" /\ Shaped(req)
    BY Zenon, <1>1 DEF NoRequest, Request, Buffer, Shaped
  <1>3. CallInv
    BY Zenon, <1>1, <1>2 DEF CallInv, Places, AtaAt, MoveAt, LoopAt
  <1>4. MachineInv
    BY Zenon, <1>1 DEF MachineInv, AtaAt, MoveAt, SetupAt
  <1>5. AtaInv
    BY Zenon, <1>1 DEF AtaInv, Calm, IdleDrive, Drive, AtaAt, MoveAt
  <1>6. Level(nq)
    BY Zenon, <1>1, SetupLaw DEF Level
  <1>7. QueueInv
    BY Zenon, <1>1, <1>6 DEF QueueInv, Level, QueueNames, Sound
  <1>8. ~OnItsWay("admin") /\ ~OnItsWay("io")
    BY Zenon, <1>6, LevelQuiet DEF OnItsWay, QueueNames
  <1>9. PlaceInv
    BY Zenon, <1>1, <1>8 DEF PlaceInv, At, SetupAt, LoopAt, CleanBounce
  <1>10. CommandInv
    BY Zenon, <1>8 DEF CommandInv
  <1>11. LoopInv
    BY Zenon, <1>1 DEF LoopInv, Looping, LoopAt
  <1>12. FlushInv
    BY Zenon, <1>2 DEF FlushInv, Writing
  <1> QED BY Zenon, <1>3, <1>4, <1>5, <1>7, <1>9, <1>10, <1>11, <1>12 DEF IInv

\* A request keeps its address, so an ATA drive can name it up to the end of the call.
LEMMA NameableKept == IInv /\ Nameable(req) /\ [Next]_vars => Nameable(req)'
  <1> SUFFICES ASSUME IInv, Nameable(req), [Next]_vars PROVE Nameable(req)'
    BY Zenon
  <1>1. Shaped(req) /\ \A code : Return(code) => req'.lba = req.lba
    BY Zenon, ReturnLaw DEF IInv, CallInv
  <1>2. CASE disk_call
    BY Zenon, <1>2 DEF disk_call, Nameable
  <1>3. ASSUME machine' = machine, req'.lba = req.lba PROVE Nameable(req)'
    BY Zenon, <1>3 DEF Nameable
  <1>4. \A b : Dispatch(b) => req'.lba = req.lba
    BY Zenon, <1>1 DEF Dispatch, Goto
  <1>5. CASE disk_dispatch \/ probe
    BY Zenon, <1>1, <1>3, <1>4, <1>5 DEF disk_dispatch, probe, Goto
  <1>6. CASE AtaStep
    <2>1. Retry => machine' = machine /\ req'.lba = req.lba
      BY Zenon, <1>1 DEF Retry, ata_reset, Goto
    <2>2. CASE ata_start
      BY Zenon, <1>1, <1>3, <2>2 DEF ata_start, Goto
    <2>3. CASE ata_prepare
      BY Zenon, <1>1, <1>3, <2>1, <2>3 DEF ata_prepare, ata_reset, Goto
    <2>4. CASE ata_data
      <3>1. [req EXCEPT !.data[index] = drive.word[1]].lba = req.lba
        BY Zenon, <1>1 DEF Shaped
      <3> QED BY Zenon, <1>3, <2>1, <2>4, <3>1 DEF ata_data
    <2>5. CASE ata_finish
      BY Zenon, <1>1, <1>3, <2>1, <2>5 DEF ata_finish, Goto
    <2> QED BY Zenon, <1>6, <2>2, <2>3, <2>4, <2>5 DEF AtaStep
  <1>7. CASE NvmeStep
    <2>1. Fail => req'.lba = req.lba
      BY Zenon, <1>1 DEF Fail, Goto
    <2>2. CASE execute_complete \/ execute_timeout
      BY Zenon, <1>3, <2>1, <2>2 DEF execute_complete, execute_timeout, Goto
    <2>3. CASE controller_init \/ read_namespace \/ create_io_queues
      BY Zenon, <1>3, <2>3 DEF controller_init, read_namespace, create_io_queues, InitFails, Submit, Goto
    <2>4. CASE nvme_start \/ transfer \/ transfer_next
      BY Zenon, <1>1, <1>3, <2>4 DEF nvme_start, transfer, transfer_next, Submit, Goto
    <2>5. CASE transfer_copy
      <3>1. \A d : [req EXCEPT !.data = d].lba = req.lba
        BY Zenon, <1>1 DEF Shaped
      <3> QED BY Zenon, <1>3, <2>5, <3>1 DEF transfer_copy, Submit, Goto
    <2> QED BY Zenon, <1>7, <2>2, <2>3, <2>4, <2>5 DEF NvmeStep
  <1>8. CASE ata_drive \/ \E q \in {"admin", "io"} : nvme_device(q)
    BY Zenon, <1>3, <1>8 DEF ata_drive, nvme_device
  <1>9. CASE UNCHANGED vars
    BY Zenon, <1>3, <1>9 DEF vars, callVars
  <1> QED BY Zenon, <1>2, <1>5, <1>6, <1>7, <1>8, <1>9 DEF Next, DriverStep

\* Every step of callers, drivers and devices keeps the invariant.
LEMMA NextInv == IInv /\ Nameable(req) /\ [Next]_vars => IInv'
  <1> SUFFICES ASSUME IInv, Nameable(req), [Next]_vars PROVE IInv'
    BY Zenon
  <1>1. CASE disk_call
    BY Zenon, <1>1, DiskCallInv
  <1>2. CASE disk_dispatch
    BY Zenon, <1>2, DiskDispatchInv
  <1>3. CASE probe
    BY Zenon, <1>3, ProbeInv
  <1>4. CASE AtaStep /\ UNCHANGED <<nvmeVars, diskVars>>
    BY Zenon, <1>4, AtaStart, AtaPrepare, AtaData, AtaFinish DEF AtaStep
  <1>5. CASE NvmeStep /\ UNCHANGED <<ataVars, diskVars>>
    BY Zenon, <1>5, ExecuteComplete, ExecuteTimeout, ControllerInit, ReadNamespace, CreateIoQueues,
       NvmeStart, TransferInv, TransferCopyInv, TransferNextInv DEF NvmeStep
  <1>6. CASE ata_drive /\ UNCHANGED <<nvmeVars, diskVars>>
    BY Zenon, <1>6, AtaDrive
  <1>7. CASE \E q \in {"admin", "io"} : nvme_device(q) /\ UNCHANGED <<ataVars, diskVars>>
    BY Zenon, <1>7, DeviceInv DEF QueueNames
  <1>8. CASE UNCHANGED vars
    <2>1. UNCHANGED <<machine, sectors, unflushed, req, pc, drive, attempt, index, nvme_state,
                      nvme_sectors, nq, command_id, waiting, bounce, span, abandoned, backend>>
      BY Zenon, <1>8 DEF vars, callVars, ataVars, nvmeVars, diskVars
    <2>2. UNCHANGED <<At, Block, Blocks, Turn, Put>> /\ (Writing <=> Writing')
          /\ (Looping <=> Looping')
      BY Zenon, <2>1 DEF At, Block, Blocks, Offset, Turn, Span, Put, Writing, Looping
    <2>3. \A q : /\ OnItsWay(q)' <=> OnItsWay(q)
                 /\ Cmd(q)' = Cmd(q) /\ (Done(q)' <=> Done(q))
      BY Zenon, <2>1 DEF OnItsWay, Cmd, Done
    <2>4. CallInv' /\ MachineInv' /\ FlushInv' /\ PlaceInv'
      BY <2>1, <2>2, <2>3 DEF IInv, CallInv, MachineInv, FlushInv, PlaceInv
    <2>5. AtaInv'
      BY ZenonT(60), <2>1, <2>2 DEF IInv, AtaInv, WriteAt, ReadAt
    <2>6. QueueInv'
      BY ZenonT(60), <2>1 DEF IInv, QueueInv
    <2>7. CommandInv'
      BY ZenonT(60), <2>1, <2>3 DEF IInv, CommandInv, Bounced, Covers
    <2>8. LoopInv'
      BY ZenonT(60), <2>1, <2>2, <2>3 DEF IInv, LoopInv, Bounced
    <2> QED BY Zenon, <2>4, <2>5, <2>6, <2>7, <2>8 DEF IInv
  <1> QED BY Zenon, <1>1, <1>2, <1>3, <1>4, <1>5, <1>6, <1>7, <1>8 DEF Next, DriverStep

\* The inductive invariant of the disk holds in every state, and the request that
\* is running is one an ATA drive can name (disk_call's precondition on callers).
THEOREM Invariant == Spec => [](IInv /\ Nameable(req))
  <1>1. Init => Nameable(req)
    BY DiskAssumption DEF Init, Nameable, NoRequest, Request
  <1> QED BY <1>1, InitInv, NextInv, NameableKept, PTL DEF Spec

\* Outside execute the driver and a controller that has not failed agree on every
\* queue, and the next completion to be polled looks unfinished (execute's polling).
THEOREM QueuesInStepThm == Spec => []QueuesInStep
  <1>1. IInv => QueuesInStep
    <2> SUFFICES ASSUME IInv, nvme_state # "failed", pc # "nvme_wait", NEW q \in DOMAIN nq
                 PROVE  /\ nq[q].sq_head = nq[q].sq_tail
                        /\ nq[q].cq_tail = nq[q].cq_head
                        /\ nq[q].cq_phase = nq[q].phase
                        /\ nq[q].cq[nq[q].cq_head].phase # nq[q].phase
      BY Zenon DEF QueuesInStep
    <2>1. Level(nq)
      BY Zenon, LevelLaw DEF IInv
    <2>2. q \in QueueNames
      BY Zenon, <2>1 DEF Level
    <2>3. Sound(nq[q]) /\ InStep(nq[q])
      BY Zenon, <2>1, <2>2 DEF Level
    <2> QED BY Zenon, <2>3, PollLaw DEF InStep, CqInStep
  <1> QED BY <1>1, Invariant, PTL

\* A write that returned success is on the medium (ata_write_once and
\* nvme_write_sectors flush before they return).
THEOREM WritesFlushedThm == Spec => []WritesFlushed
  <1>1. IInv => WritesFlushed
    BY Zenon DEF IInv, FlushInv, WritesFlushed
  <1> QED BY <1>1, Invariant, PTL

\* Each block of the turn holds a sector that was asked for.
LEMMA BlockAsked ==
    ASSUME IInv, Looping, span.count > 0, NEW b \in Block..((Block + Blocks) - 1)
    PROVE  \E s \in Asked : s \div PER_BLOCK = b
  <1> DEFINE p == PER_BLOCK
             x == Block * p
             y == ((Block + Blocks) - 1) * p
             m == NSZE * p
  <1>1. /\ span.lba \in Nat /\ span.count \in Nat /\ req.lba \in Nat /\ req.count \in Nat
        /\ req.lba <= span.lba /\ span.lba + span.count = req.lba + req.count
        /\ span.lba + span.count <= Size
    BY Zenon, LoopFacts
  <1>2. /\ Block \in Nat /\ x \in Nat /\ span.lba = x + Offset /\ Blocks \in 1..MAX_BLOCKS
        /\ y < span.lba + span.count
    BY Zenon, <1>1, TurnLaw
  <1>3. p \in Nat \ {0} /\ Offset \in 0..(p - 1) /\ MAX_BLOCKS \in Nat
    BY Zenon, <1>1, DivLaw, DiskAssumption DEF Offset
  <1>4. m \in Nat /\ Size \in Nat /\ Size <= m /\ Medium = 0..(m - 1)
    BY Zenon, SizeLaw DEF Medium
  <1>5. b \in Nat /\ Block <= b /\ b <= (Block + Blocks) - 1 /\ (Block + Blocks) - 1 \in Int
    BY <1>2, <1>3
  <1>6. \A s \in Medium : req.lba <= s /\ s < req.lba + req.count => s \in Asked
    BY Zenon DEF IInv, CallInv, Asked
  <1>7. CASE b = Block
    <2>1. span.lba \in Asked
      <3> HIDE DEF m
      <3> QED BY <1>1, <1>4, <1>6
    <2>2. span.lba \div PER_BLOCK = b
      BY Zenon, <1>7 DEF Block
    <2> QED BY Zenon, <2>1, <2>2
  <1>8. CASE b # Block
    <2> DEFINE s == b * p
    <2> HIDE DEF p
    <2>1. /\ s \in Int /\ (Block + 1) * p = x + p /\ (Block + 1) * p <= s
      <3>1. Block + 1 <= b
        BY <1>2, <1>5, <1>8
      <3>2. Block + 1 \in Int
        BY <1>2
      <3> QED BY <1>2, <1>3, <1>5, <3>1, <3>2, Mono
    <2>2. s <= y /\ y \in Int
      BY <1>3, <1>5, Mono
    <2>3. s \div p = b
      <3>1. s \in Nat
        BY <1>3, <1>5
      <3>2. s < (b + 1) * p
        <4>1. (b + 1) * p = s + p
          BY <1>3, <1>5, Mono
        <4> QED BY <1>3, <3>1, <4>1
      <3>3. s \div p \in b..(b + 1 - 1)
        BY <1>3, <1>5, <3>1, <3>2, DivBetween
      <3>4. b..(b + 1 - 1) = {b}
        BY <1>5
      <3> QED BY Zenon, <3>3, <3>4
    <2>4. s \in Asked
      <3>1. (Block + 1) * p = x + p /\ x + p <= s
        BY Zenon, <2>1
      <3> HIDE DEF s, x, y, m
      <3> QED BY <1>1, <1>2, <1>3, <1>4, <1>6, <2>1, <2>2, <3>1
    <2> QED BY Zenon, <2>3, <2>4 DEF p
  <1> QED BY Zenon, <1>7, <1>8

\* The commands of transfer stay in the namespace and the bounce buffer, and
\* touch no block without a sector that was asked for.
THEOREM CommandsInRangeThm == Spec => []CommandsInRange
  <1>1. IInv => CommandsInRange
    <2> SUFFICES ASSUME IInv, NEW i \in Slots, nq["io"].sq[i].op \in {"read", "write"}
                 PROVE  LET c == nq["io"].sq[i]
                        IN  /\ c.blocks \in 1..MAX_BLOCKS
                            /\ c.block + c.blocks <= NSZE
                            /\ nvme_state = "ready" =>
                                 \A b \in c.block..(c.block + c.blocks - 1) :
                                     \E s \in Asked : s \div PER_BLOCK = b
      BY Zenon DEF CommandsInRange
    <2> DEFINE Q == nq["io"]
    <2>1. NoCommand.op \notin {"read", "write"}
      BY Zenon DEF NoCommand
    <2>2. /\ InStep(Q) \/ Pending(Q) \/ Answered(Q)
          /\ InStep(Q) \/ (pc = "nvme_wait" /\ waiting.q = "io") \/ nvme_state = "failed"
          /\ Sound(Q)
      BY Zenon DEF IInv, QueueInv, Sound
    <2>3. Q.sq[i] # NoCommand
      BY Zenon, <2>1
    <2>4. Pending(Q) /\ i = Q.sq_head /\ ~InStep(Q)
      BY Zenon, <2>2, <2>3 DEF InStep, Pending, Answered
    <2>5. OnItsWay("io") /\ Cmd("io") = Q.sq[i]
      BY Zenon, <2>2, <2>4, PollLaw DEF OnItsWay, Cmd
    <2> DEFINE c == Cmd("io")
    <2>6. c.block \in Nat /\ c.blocks \in 1..MAX_BLOCKS /\ c.block + c.blocks <= NSZE
      BY Zenon, <2>5 DEF IInv, CommandInv
    <2>7. ASSUME nvme_state = "ready", NEW b \in c.block..(c.block + c.blocks - 1)
          PROVE  \E s \in Asked : s \div PER_BLOCK = b
      <3>1. pc = "nvme_wait" /\ Looping
        BY Zenon, <2>2, <2>4, <2>7 DEF Looping
      <3>2. At \in {"nvme_copy", "nvme_next", "nvme_done"}
        BY Zenon, <2>7, <3>1 DEF IInv, PlaceInv, At
      <3>3. /\ At = "nvme_done" => c.op = "flush"
            /\ At \in {"nvme_copy", "nvme_next"} =>
                  span.count > 0 /\ c.block = Block /\ c.blocks = Blocks
        BY Zenon, <2>5, <3>1 DEF IInv, LoopInv
      <3>4. span.count > 0 /\ c.block = Block /\ c.blocks = Blocks
        BY Zenon, <2>5, <3>2, <3>3
      <3>5. b \in Block..((Block + Blocks) - 1)
        BY <2>6, <2>7, <3>4, DiskAssumption
      <3> QED BY Zenon, <3>1, <3>4, <3>5, BlockAsked
    <2> QED BY Zenon, <2>5, <2>6, <2>7
  <1> QED BY <1>1, Invariant, PTL

-----------------------------------------------------------------------------
(* The drivers implement the block device.                                 *)

\* What callers see of a request.
LEMMA VisibleLaw ==
    ASSUME NEW r, Shaped(r)
    PROVE  /\ Visible(r).fn = r.fn /\ Visible(r).lba = r.lba /\ Visible(r).count = r.count
           /\ Visible(r).result = r.result
           /\ r.fn # "read" => Visible(r) = r
  BY Zenon DEF Visible, Shaped

\* A new request is all visible.
LEMMA VisibleRequest ==
    ASSUME NEW r \in Requests
    PROVE  Visible(r) = r
  <1>1. CASE r \in {Request("read", l, n, Buffer(n)) : l \in Lbas, n \in Counts}
    <2>1. PICK l \in Lbas, n \in Counts : r = Request("read", l, n, Buffer(n))
      BY <1>1
    <2> QED BY <2>1 DEF Visible, Request
  <1>2. CASE r \notin {Request("read", l, n, Buffer(n)) : l \in Lbas, n \in Counts}
    <2>1. r.fn # "read"
      BY <1>2 DEF Requests, Request
    <2> QED BY Zenon, <2>1 DEF Visible
  <1> QED BY <1>1, <1>2

\* The caller does not see a buffer that a read has not filled yet;
LEMMA VisibleBuffer ==
    ASSUME NEW r, Shaped(r), r.fn = "read", r.result = "none", NEW data
    PROVE  Visible([r EXCEPT !.data = data]) = Visible(r)
  BY Zenon DEF Visible, Shaped

\* of a call that fails it sees the failure,
LEMMA VisibleError ==
    ASSUME NEW r, Shaped(r), r.result = "none"
    PROVE  Visible([r EXCEPT !.result = "error"]) = [Visible(r) EXCEPT !.result = "error"]
  <1>1. CASE r.fn = "read"
    BY Zenon, <1>1 DEF Visible, Shaped
  <1>2. CASE r.fn # "read"
    BY Zenon, <1>2 DEF Visible, Shaped
  <1> QED BY Zenon, <1>1, <1>2

\* and of one that succeeds the success and the data.
LEMMA VisibleOk ==
    ASSUME NEW r, Shaped(r), r.result = "none"
    PROVE  Visible([r EXCEPT !.result = "ok"])
             = [Visible(r) EXCEPT !.result = "ok", !.data = r.data]
  <1>1. CASE r.fn = "read"
    BY Zenon, <1>1 DEF Visible, Shaped
  <1>2. CASE r.fn # "read"
    BY Zenon, <1>2 DEF Visible, Shaped
  <1> QED BY Zenon, <1>1, <1>2

Simulates == Device!Next \/ UNCHANGED Device!vars

\* A step that changes nothing visible is a stutter of BlockDevice.
LEMMA StutterStep ==
    ASSUME UNCHANGED <<sectors, abandoned>>, Visible(req') = Visible(req)
    PROVE  Simulates
  BY Zenon DEF Simulates, Device!vars

\* A call that runs.
LEMMA RunningLaw ==
    ASSUME IInv, pc # "idle"
    PROVE  Shaped(req) /\ req.result = "none" /\ req.fn # "none" /\ Device!Running
  <1>1. Shaped(req) /\ req.result = "none" /\ req.fn # "none"
    BY Zenon DEF IInv, CallInv
  <1> QED BY Zenon, <1>1, VisibleLaw DEF Device!Running

\* The driver returns an error; the controller may have been given up on.
LEMMA FailStep ==
    ASSUME IInv, pc # "idle", Return("error"), UNCHANGED sectors,
           abandoned' = abandoned \/ (abandoned = NoRequest /\ abandoned' = Visible(req))
    PROVE  Simulates
  <1>1. Visible(req') = [Visible(req) EXCEPT !.result = "error"]
    BY Zenon, RunningLaw, VisibleError DEF Return
  <1> QED BY Zenon, <1>1, RunningLaw DEF Simulates, Device!Next, Device!Fail

\* It returns success.
LEMMA SucceedStep ==
    ASSUME IInv, pc # "idle", Return("ok"), UNCHANGED <<sectors, abandoned>>,
           \/ req.fn = "size"
           \/ /\ abandoned = NoRequest /\ req.count > 0 /\ req.lba + req.count - 1 \in Medium
              /\ Agree(req, req.count, sectors)
    PROVE  Simulates
  <1> DEFINE call == Visible(req)
  <1>1. /\ Shaped(req) /\ req.result = "none" /\ req.fn # "none" /\ Device!Running
    BY Zenon, RunningLaw
  <1>2. /\ call.fn = req.fn /\ call.lba = req.lba /\ call.count = req.count
        /\ req.fn # "read" => call = req
    BY Zenon, <1>1, VisibleLaw
  <1>3. DOMAIN sectors = Medium
    BY Zenon DEF IInv, CallInv
  <1>4. Visible(req') = [call EXCEPT !.result = "ok", !.data = req.data]
    BY Zenon, <1>1, VisibleOk DEF Return
  <1>5. call.fn = "read" =>
           req.data = [i \in 0..(call.count - 1) |-> sectors[call.lba + i]]
    BY ZenonT(60), <1>1, <1>2 DEF Agree, Shaped
  <1>6. call.fn # "read" => req.data = call.data
    BY Zenon, <1>2
  <1>7. call.fn = "write" => \A i \in 0..(call.count - 1) : sectors[call.lba + i] = call.data[i]
    BY Zenon, <1>2 DEF Agree
  <1> HIDE DEF call
  <1>8. Visible(req') = [call EXCEPT !.result = "ok",
                           !.data = IF call.fn = "read"
                                    THEN [i \in 0..(call.count - 1) |-> sectors[call.lba + i]]
                                    ELSE @]
    <2>1. CASE call.fn = "read"
      BY Zenon, <1>4, <1>5, <2>1
    <2>2. CASE call.fn # "read"
      BY Zenon, <1>4, <1>6, <2>2
    <2> QED BY Zenon, <2>1, <2>2
  <1>9. /\ abandoned = NoRequest \/ call.fn = "size"
        /\ call.fn # "size" => call.count > 0 /\ call.lba + call.count - 1 \in DOMAIN sectors
    BY Zenon, <1>2, <1>3
  <1>10. Device!Succeed
    BY Zenon, <1>1, <1>7, <1>8, <1>9 DEF Device!Succeed, call
  <1> QED BY Zenon, <1>10 DEF Simulates, Device!Next

\* Sectors of a write reach the medium.
LEMMA StoreStep ==
    ASSUME IInv, NEW r, r.fn = "write",
           (r = req /\ pc # "idle") \/ r = abandoned,
           sectors' = [s \in Medium |-> sectors'[s]],
           \A s \in Medium : \/ sectors'[s] = sectors[s]
                             \/ s \in In(r) /\ sectors'[s] = r.data[s - r.lba],
           UNCHANGED <<req, abandoned>>
    PROVE  Simulates
  <1> DEFINE part == {s \in In(r) : sectors'[s] = r.data[s - r.lba]}
  <1>1. DOMAIN sectors = Medium
    BY Zenon DEF IInv, CallInv
  <1>2. part \in SUBSET Device!Range(r)
    BY Zenon, <1>1 DEF Device!Range, In
  <1>3. sectors' = [s \in DOMAIN sectors |->
                      IF s \in part THEN r.data[s - r.lba] ELSE sectors[s]]
    BY Zenon, <1>1 DEF In
  <1> HIDE DEF part
  <1>4. Device!Store(r)
    BY Zenon, <1>2, <1>3 DEF Device!Store
  <1>5. CASE r = req /\ pc # "idle"
    <2>1. Device!Running /\ Visible(req) = req
      BY Zenon, <1>5, RunningLaw, VisibleLaw
    <2> QED BY Zenon, <1>4, <1>5, <2>1 DEF Simulates, Device!Next
  <1>6. CASE r = abandoned
    BY Zenon, <1>4, <1>6 DEF Simulates, Device!Next
  <1> QED BY Zenon, <1>5, <1>6

\* A step of the driver that returns an error or goes on with the call.
LEMMA QuietStep ==
    ASSUME IInv, pc # "idle", UNCHANGED <<sectors, abandoned>>, Return("error") \/ req' = req
    PROVE  Simulates
  BY Zenon, FailStep, StutterStep

\* A transfer that ended in the last sector of the request.
LEMMA WholeLaw ==
    ASSUME IInv, Looping, span.count = 0
    PROVE  /\ abandoned = NoRequest /\ req.count > 0 /\ req.lba + req.count - 1 \in Medium
           /\ Agree(req, req.count, sectors)
  <1>1. /\ span.lba \in Nat /\ req.lba \in Nat /\ req.count \in Nat /\ req.count > 0
        /\ span.lba + span.count = req.lba + req.count /\ req.lba + req.count <= Size
        /\ Agree(req, span.lba - req.lba, sectors) /\ nvme_state = "ready"
    BY Zenon, LoopFacts
  <1>2. span.lba - req.lba = req.count
    BY <1>1
  <1>3. req.lba + req.count - 1 \in Medium
    <2> DEFINE m == NSZE * PER_BLOCK
    <2>1. m \in Nat /\ Size \in Nat /\ Size <= m /\ Medium = 0..(m - 1)
      BY Zenon, SizeLaw DEF Medium
    <2> HIDE DEF m
    <2> QED BY SMTT(30), <1>1, <2>1
  <1>4. abandoned = NoRequest
    BY Zenon, <1>1 DEF IInv, MachineInv
  <1> QED BY Zenon, <1>1, <1>2, <1>3, <1>4

\* disk_call is a call of BlockDevice.
LEMMA CallStep ==
    ASSUME IInv, disk_call
    PROVE  Simulates
  <1>1. pc = "idle" /\ req' \in Requests /\ UNCHANGED <<sectors, abandoned>>
    BY Zenon DEF disk_call, nvmeVars
  <1>2. Visible(req') = req'
    BY Zenon, <1>1, VisibleRequest
  <1>3. ~Device!Running
    <2>1. Shaped(req) /\ (req.fn = "none" \/ req.result # "none")
      BY Zenon, <1>1 DEF IInv, CallInv
    <2> QED BY Zenon, <2>1, VisibleLaw DEF Device!Running
  <1>4. Device!Begin
    BY Zenon, <1>1, <1>2, <1>3 DEF Device!Begin
  <1> QED BY Zenon, <1>4 DEF Simulates, Device!Next

\* disk_dispatch and the end of the probe.
LEMMA DispatchStep ==
    ASSUME IInv, pc # "idle", NEW b, Dispatch(b), UNCHANGED <<sectors, abandoned>>
    PROVE  Simulates
  <1>1. \/ Return("error") \/ req' = req
        \/ req.fn = "size" /\ Return("ok")
    BY Zenon DEF Dispatch, Goto
  <1> QED BY Zenon, <1>1, QuietStep, SucceedStep

\* The probe is a stutter, or the answer of the call that caused it.
LEMMA ProbeStep ==
    ASSUME IInv, probe
    PROVE  Simulates
  <1>1. pc # "idle" /\ UNCHANGED <<sectors, abandoned>>
    BY Zenon DEF probe, nvmeVars
  <1>2. req' = req \/ Dispatch("ata") \/ Dispatch("nvme") \/ Dispatch("none")
    BY Zenon DEF probe, Goto
  <1> QED BY Zenon, <1>1, <1>2, QuietStep, DispatchStep

\* The steps of the ATA driver are stutters, except the return of the call.
LEMMA AtaSteps ==
    ASSUME IInv, AtaStep, UNCHANGED <<nvmeVars, diskVars>>
    PROVE  Simulates
  <1>1. /\ pc \in {"ata_start"} \cup AtaAt /\ pc # "idle"
        /\ UNCHANGED <<sectors, abandoned>>
    BY Zenon DEF AtaStep, ata_start, ata_prepare, ata_data, ata_finish, Retry, ata_reset, nvmeVars,
           AtaAt, MoveAt
  <1>2. CASE Return("error") \/ req' = req
    BY Zenon, <1>1, <1>2, QuietStep
  <1>3. CASE ata_data /\ ~(Return("error") \/ req' = req)
    <2>1. req' = [req EXCEPT !.data[index] = drive.word[1]] /\ ~Writing /\ pc = "ata_data"
      BY Zenon, <1>3 DEF ata_data, Retry, Goto
    <2>2. Shaped(req) /\ req.result = "none" /\ req.fn = "read"
      BY Zenon, <2>1 DEF IInv, CallInv, AtaAt, MoveAt, Writing
    <2>3. req' = [req EXCEPT !.data = [req.data EXCEPT ![index] = drive.word[1]]]
      BY Zenon, <2>1, <2>2 DEF Shaped
    <2>4. Visible(req') = Visible(req)
      BY Zenon, <2>2, <2>3, VisibleBuffer
    <2> QED BY Zenon, <1>1, <2>4, StutterStep
  <1>4. CASE ata_finish /\ ~(Return("error") \/ req' = req)
    <2>1. drive.st = "ready" /\ Return("ok") /\ pc \in {"ata_finish", "ata_flush"}
      BY Zenon, <1>4 DEF ata_finish, Retry, Goto
    <2>2. /\ req.count \in Nat /\ req.lba \in Nat /\ index = req.count /\ req.count > 0
          /\ req.lba + index - 1 < ATA_SECTORS /\ machine = "ata"
      BY Zenon, <2>1 DEF IInv, CallInv, MachineInv, AtaInv, Shaped, AtaAt, MoveAt
    <2>3. Agree(req, req.count, sectors)
      <3>1. Put = index
        BY Zenon, <2>1 DEF Put
      <3> QED BY Zenon, <2>1, <2>2, <3>1 DEF IInv, AtaInv, AtaAt, MoveAt
    <2>4. abandoned = NoRequest
      BY Zenon, <2>2 DEF IInv, MachineInv
    <2>5. req.lba + req.count - 1 \in Medium
      <3>1. req.lba + req.count - 1 \in Nat /\ req.lba + req.count - 1 < ATA_SECTORS
        BY <2>2
      <3> QED BY Zenon, <3>1, AtaMedium
    <2> QED BY Zenon, <1>1, <2>1, <2>2, <2>3, <2>4, <2>5, SucceedStep
  <1>5. ata_start \/ ata_prepare => Return("error") \/ req' = req
    BY Zenon DEF ata_start, ata_prepare, Retry, Goto
  <1> QED BY Zenon, <1>2, <1>3, <1>4, <1>5 DEF AtaStep

\* A sector that the drive stores is one that the running write put there.
LEMMA DriveStep ==
    ASSUME IInv, ata_drive, UNCHANGED <<nvmeVars, diskVars>>
    PROVE  Simulates
  <1>1. UNCHANGED <<req, abandoned>>
    BY Zenon DEF ata_drive, nvmeVars
  <1>2. CASE UNCHANGED sectors
    BY Zenon, <1>1, <1>2, StutterStep
  <1>3. CASE ~UNCHANGED sectors
    <2>1. Taken /\ sectors' = Stored
      BY Zenon, <1>3 DEF ata_drive, Carry
    <2>2. /\ Writing /\ pc # "idle" /\ drive.lba \in Medium /\ drive.lba \in In(req)
          /\ drive.word[1] = req.data[drive.lba - req.lba]
      <3>1. pc \in MoveAt /\ pc \in AtaAt
        BY Zenon, <2>1 DEF Taken, IInv, AtaInv, Calm, AtaAt
      <3>2. /\ Writing /\ WriteAt(drive) /\ index \in Nat /\ index <= req.count
            /\ req.lba \in Nat /\ req.count \in Nat
            /\ index > 0 => req.lba + index - 1 < ATA_SECTORS
        BY <2>1, <3>1 DEF Taken, IInv, AtaInv, CallInv, Shaped, Writing, MoveAt
      <3>3. /\ index > 0 /\ drive.word = <<req.data[index - 1]>>
            /\ drive.lba = req.lba + index - 1
        BY Zenon, <2>1, <3>2 DEF WriteAt, Taken
      <3>4. /\ drive.lba \in Nat /\ drive.lba < ATA_SECTORS /\ drive.lba - req.lba = index - 1
            /\ req.lba <= drive.lba /\ drive.lba < req.lba + req.count
        BY <3>2, <3>3
      <3>5. drive.lba \in Medium
        BY Zenon, <3>4, AtaMedium
      <3> QED BY <3>1, <3>2, <3>3, <3>4, <3>5 DEF In, MoveAt
    <2>3. sectors = [s \in Medium |-> sectors[s]]
      BY Zenon DEF IInv, CallInv
    <2>4. /\ sectors' = [s \in Medium |-> sectors'[s]]
          /\ \A s \in Medium :
                \/ sectors'[s] = sectors[s]
                \/ s \in In(req) /\ sectors'[s] = req.data[s - req.lba]
      BY Zenon, <2>1, <2>2, <2>3 DEF Stored
    <2> QED BY Zenon, <1>1, <2>2, <2>4, StoreStep DEF Writing
  <1> QED BY Zenon, <1>2, <1>3

\* The steps of the NVMe driver are stutters, except the return of the call, with
\* which a write is abandoned if its command is still on its way.
LEMMA NvmeSteps ==
    ASSUME IInv, NvmeStep, UNCHANGED <<ataVars, diskVars>>
    PROVE  Simulates
  <1>1. /\ pc # "idle" /\ sectors' = sectors
        /\ abandoned' = abandoned \/ execute_timeout
    BY Zenon DEF NvmeStep, execute_complete, execute_timeout, controller_init, read_namespace,
           create_io_queues, nvme_start, transfer, transfer_copy, transfer_next
  <1>2. CASE execute_timeout
    <2>1. /\ Fail /\ pc = "nvme_wait"
          /\ abandoned' = IF Writing /\ nvme_state = "ready" THEN req ELSE abandoned
      BY Zenon, <1>2 DEF execute_timeout
    <2>2. CASE Writing /\ nvme_state = "ready"
      <3>1. Return("error") /\ abandoned' = req
        BY Zenon, <2>1, <2>2 DEF Fail
      <3>2. abandoned = NoRequest /\ Visible(req) = req
        BY Zenon, <1>1, <2>2, RunningLaw, VisibleLaw DEF IInv, MachineInv, Writing
      <3> QED BY Zenon, <1>1, <3>1, <3>2, FailStep
    <2>3. CASE ~(Writing /\ nvme_state = "ready")
      BY Zenon, <1>1, <2>1, <2>3, QuietStep DEF Fail, Goto
    <2> QED BY Zenon, <2>2, <2>3
  <1>3. CASE abandoned' = abandoned /\ (Return("error") \/ req' = req)
    BY Zenon, <1>1, <1>3, QuietStep
  <1>4. CASE transfer /\ ~(Return("error") \/ req' = req)
    <2>1. pc = "nvme_span" /\ span.count = 0 /\ Return("ok") /\ abandoned' = abandoned
      BY Zenon, <1>4 DEF transfer, Submit, Goto
    <2>2. Looping
      BY Zenon, <2>1 DEF Looping, LoopAt
    <2> QED BY Zenon, <1>1, <2>1, <2>2, WholeLaw, SucceedStep
  <1>5. CASE transfer_copy /\ ~(Return("error") \/ req' = req)
    <2> DEFINE new == [i \in DOMAIN req.data |->
                         LET b == i - (span.lba - req.lba)
                         IN  IF 0 <= b /\ b < Span THEN bounce[b + Offset] ELSE req.data[i]]
    <2>1. /\ pc = "nvme_copy" /\ ~Writing /\ abandoned' = abandoned
          /\ req' = [req EXCEPT !.data = new]
      BY Zenon, <1>5 DEF transfer_copy, Submit, Goto
    <2> HIDE DEF new
    <2>2. Shaped(req) /\ req.result = "none" /\ req.fn = "read"
      BY Zenon, <2>1 DEF IInv, CallInv, LoopAt, Writing
    <2>3. Visible(req') = Visible(req)
      BY Zenon, <2>1, <2>2, VisibleBuffer
    <2> QED BY Zenon, <1>1, <2>1, <2>3, StutterStep
  <1>6. CASE transfer_next /\ ~(Return("error") \/ req' = req)
    <2>1. pc = "nvme_done" /\ Return("ok") /\ abandoned' = abandoned
      BY Zenon, <1>6 DEF transfer_next, Goto
    <2>2. Looping /\ span.count = 0
      BY Zenon, <2>1 DEF IInv, Looping, LoopAt, LoopInv, At
    <2> QED BY Zenon, <1>1, <2>1, <2>2, WholeLaw, SucceedStep
  <1>7. execute_complete \/ controller_init \/ read_namespace \/ create_io_queues \/ nvme_start
          => Return("error") \/ req' = req
    BY Zenon DEF execute_complete, Fail, controller_init, InitFails, read_namespace, create_io_queues,
           nvme_start, Submit, Goto
  <1> QED BY Zenon, <1>1, <1>2, <1>3, <1>4, <1>5, <1>6, <1>7 DEF NvmeStep

\* What the controller stores belongs to the running write or to the abandoned one.
LEMMA ControllerStep ==
    ASSUME IInv, NEW q \in QueueNames, nvme_device(q)
    PROVE  Simulates
  <1>1. UNCHANGED <<req, abandoned>>
    BY Zenon DEF nvme_device
  <1>2. /\ sectors' = [s \in Medium |-> sectors'[s]]
        /\ \/ sectors' = sectors
           \/ /\ Owner.fn = "write"
              /\ \A s \in Medium :
                    \/ sectors'[s] = sectors[s]
                    \/ s \in In(Owner) /\ sectors'[s] = Owner.data[s - Owner.lba]
    BY Zenon, DeviceStores
  <1>3. (Owner = req /\ pc # "idle") \/ Owner = abandoned
    <2>1. pc = "nvme_wait" \/ nvme_state = "failed"
      BY Zenon, DeviceStep DEF IInv
    <2> QED BY Zenon, <2>1 DEF Owner
  <1> QED BY Zenon, <1>1, <1>2, <1>3, StoreStep, StutterStep

\* The ATA and the NVMe driver behind disk.c are one device that keeps what was
\* written last: whatever the retries, the spans, the partial blocks that are read
\* first and the commands that the controller carries out after execute gave up.
THEOREM Refinement == Spec => ImplementsBlockDevice
  <1>1. Init => Device!Init
    <2> SUFFICES ASSUME Init PROVE Device!Init
      BY Zenon
    <2>1. sectors \in [DOMAIN sectors -> Data]
      BY Zenon DEF Init
    <2>2. Visible(req) = NoRequest /\ abandoned = NoRequest
      BY Zenon DEF Init, Visible, NoRequest, Request
    <2> QED BY Zenon, <2>1, <2>2 DEF Device!Init
  <1>2. IInv /\ [Next]_vars => [Device!Next]_(Device!vars)
    <2> SUFFICES ASSUME IInv, [Next]_vars PROVE Simulates
      BY Zenon DEF Simulates
    <2>1. CASE disk_call
      BY Zenon, <2>1, CallStep
    <2>2. CASE disk_dispatch
      BY Zenon, <2>2, DispatchStep DEF disk_dispatch, nvmeVars
    <2>3. CASE probe
      BY Zenon, <2>3, ProbeStep
    <2>4. CASE AtaStep /\ UNCHANGED <<nvmeVars, diskVars>>
      BY Zenon, <2>4, AtaSteps
    <2>5. CASE NvmeStep /\ UNCHANGED <<ataVars, diskVars>>
      BY Zenon, <2>5, NvmeSteps
    <2>6. CASE ata_drive /\ UNCHANGED <<nvmeVars, diskVars>>
      BY Zenon, <2>6, DriveStep
    <2>7. CASE \E q \in {"admin", "io"} : nvme_device(q) /\ UNCHANGED <<ataVars, diskVars>>
      BY Zenon, <2>7, ControllerStep DEF QueueNames
    <2>8. CASE UNCHANGED vars
      BY Zenon, <2>8, StutterStep DEF vars, callVars, nvmeVars
    <2> QED BY Zenon, <2>1, <2>2, <2>3, <2>4, <2>5, <2>6, <2>7, <2>8 DEF Next, DriverStep
  <1>3. Spec => Device!Spec
    BY <1>1, <1>2, Invariant, PTL DEF Spec, Device!Spec
  <1> QED BY Zenon, <1>3 DEF ImplementsBlockDevice
=============================================================================
