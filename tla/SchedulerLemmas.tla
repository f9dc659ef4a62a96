-------------------------- MODULE SchedulerLemmas ---------------------------
(***************************************************************************)
(* The inductive invariant of Scheduler; what schedule(), a tick and the   *)
(* wait queues do to the tasks; and the part of the invariant about tasks  *)
(* and time, which every kind of step keeps.                               *)
(***************************************************************************)
EXTENDS Scheduler, TLAPS
-----------------------------------------------------------------------------
(* The inductive invariant, one named conjunct per idea.                   *)

\* The locals of a call fit the function that made it.
CallsShaped ==
    \A t \in Slots :
        /\ call[t].fn = "none" => call[t] = NoCall
        /\ call[t].fn = "sleep" => call[t].obj = NULL /\ call[t].timed
        /\ call[t].fn = "wait" => call[t].obj \in Queues
        /\ call[t].fn = "sem" => call[t].obj \in Sems
        /\ call[t].fn = "mutex" => call[t].obj \in Mutexes
        /\ state[t] \in {"UNUSED", "TERMINATED"} => call[t] = NoCall

\* Nobody waits for a mutex it holds.
NotHeld ==
    \A t \in Slots : call[t].fn = "mutex" => call[t].obj \notin held[t]

\* Every turn that passes a READY task over brings last_slot nearer to it.
BypassMeasure ==
    \A t \in Slots :
        IF state[t] = "READY" THEN bypass[t] + Dist(t) <= slot_count - 1
                              ELSE bypass[t] = 0

\* deadline[t] is left[t] ticks away on the circle of tick values, and a task
\* is overdue only for as many ticks as it was passed over.
DeadlineMeasure ==
    \A t \in Slots : call[t].timed =>
        /\ deadline[t] \in {ticks + left[t], ticks + left[t] - TICK_MOD,
                            ticks + left[t] + TICK_MOD}
        /\ left[t] <= MAX_WAIT_TICKS + 1
        /\ state[t] = "BLOCKED" => left[t] > 0
        /\ state[t] = "READY" => 1 - left[t] <= bypass[t]
        /\ 1 - left[t] <= slot_count

IInv ==
    /\ TypeOK
    /\ OneRunning
    /\ CallsShaped
    /\ QueuesCoherent
    /\ MutexOwnership
    /\ NotHeld
    /\ TokensConserved
    /\ NoLostWakeup
    /\ BypassMeasure
    /\ DeadlineMeasure
-----------------------------------------------------------------------------
(* Arithmetic of the tick counter.                                         *)

\* A timeout in milliseconds becomes at most MAX_WAIT_TICKS + 1 ticks, and the
\* deadline it gives is a tick value (ms_to_ticks, deadline_after).
LEMMA WaitTicksRange ==
    ASSUME NEW ms \in TIMEOUTS
    PROVE  WaitTicks(ms) \in 0..(MAX_WAIT_TICKS + 1)
<1>1. ms \div MS_PER_TICK \in Nat
    BY SchedulerAssumption, SMT
<1>2. ms_to_ticks(ms) \in 0..MAX_WAIT_TICKS
    BY <1>1, SchedulerAssumption DEF ms_to_ticks
<1> QED BY <1>2, SchedulerAssumption DEF WaitTicks

\* Adding less than one turn to a tick value and wrapping gives a tick value.
LEMMA WrapRange ==
    ASSUME NEW x \in 0..(TICK_MOD - 1), NEW n \in 0..(MAX_WAIT_TICKS + 1)
    PROVE  /\ Wrap(x + n) \in 0..(TICK_MOD - 1)
           /\ Wrap(x + n) \in {x + n, x + n - TICK_MOD}
BY SchedulerAssumption DEF Wrap, TICK_MOD

\* time_reached agrees with the exact distance to the deadline as long as that
\* distance is less than half the range of the counter.
LEMMA TimeReachedExact ==
    ASSUME NEW now \in 0..(TICK_MOD - 1), NEW dl \in 0..(TICK_MOD - 1),
           NEW n \in Int, n < HALF_TICKS, -n < HALF_TICKS,
           dl \in {now + n, now + n - TICK_MOD, now + n + TICK_MOD}
    PROVE  time_reached(now, dl) <=> n <= 0
BY SchedulerAssumption DEF time_reached, TICK_MOD
-----------------------------------------------------------------------------
(* What schedule() does to the states of the tasks.                        *)

\* After schedule() the CPU runs the one RUNNING task, or idle, and the tasks
\* that cannot run keep their state.
LEMMA ScheduleStates ==
    ASSUME TypeOK, NEW st \in [Slots -> States], schedule(st),
           \A t \in Slots : st[t] = "RUNNING" => t = current,
           \A t \in Slots : st[t] = "UNUSED" <=> t >= slot_count
    PROVE  /\ current' \in Slots \cup {IDLE}
           /\ last_slot' \in 0..(slot_count - 1)
           /\ state' \in [Slots -> States]
           /\ bypass' \in [Slots -> Nat]
           /\ slot_count' = slot_count
           /\ running_flag' = running_flag
           /\ \A t \in Slots : state'[t] = "RUNNING" <=> t = current'
           /\ \A t \in Slots, x \in {"BLOCKED", "UNUSED", "TERMINATED"} :
                 state'[t] = x <=> st[t] = x
<1> DEFINE st1 == [t \in Slots |->
                    IF t = current /\ st[t] = "RUNNING" THEN "READY" ELSE st[t]]
           ready == {i \in 0..(slot_count - 1) : st1[i] = "READY"}
<1>1. /\ st1 \in [Slots -> States]
      /\ \A t \in Slots : st1[t] # "RUNNING"
      /\ \A t \in Slots, x \in {"BLOCKED", "UNUSED", "TERMINATED"} :
            st1[t] = x <=> st[t] = x
      /\ ready \subseteq Slots
    <2>1. st1 \in [Slots -> States]
        BY Zenon DEF States
    <2>2. \A t \in Slots : st1[t] # "RUNNING"
        BY Zenon
    <2>3. \A t \in Slots, x \in {"BLOCKED", "UNUSED", "TERMINATED"} :
             st1[t] = x <=> st[t] = x
        BY Zenon
    <2>4. ready \subseteq Slots
        BY SchedulerAssumption DEF TypeOK, Slots
    <2> QED BY Zenon, <2>1, <2>2, <2>3, <2>4
<1>2. bypass' \in [Slots -> Nat]
    BY DEF schedule, TypeOK
<1>3. CASE /\ ready = {} /\ current' = IDLE
           /\ state' = st1 /\ last_slot' = last_slot
    BY Zenon, <1>1, <1>2, <1>3, SchedulerAssumption DEF schedule, TypeOK
<1>4. CASE \E i \in ready : /\ current' = i
                            /\ state' = [st1 EXCEPT ![i] = "RUNNING"]
                            /\ last_slot' = i
    <2>1. PICK i \in ready : /\ current' = i
                             /\ state' = [st1 EXCEPT ![i] = "RUNNING"]
                             /\ last_slot' = i
        BY Zenon, <1>4
    <2>2. /\ i \in Slots
          /\ st1[i] = "READY"
          /\ i \in 0..(slot_count - 1)
        BY Zenon, <1>1
    <2>3. state' \in [Slots -> States]
        BY Zenon, <1>1, <2>1 DEF States
    <2>4. \A t \in Slots : state'[t] = IF t = i THEN "RUNNING" ELSE st1[t]
        BY Zenon, <1>1, <2>1, <2>2
    <2> QED BY Zenon, <1>1, <1>2, <2>1, <2>2, <2>3, <2>4 DEF schedule, TypeOK
<1> QED BY Zenon, <1>3, <1>4 DEF schedule

\* A task that schedule() passes over is nearer to last_slot afterwards.
LEMMA ScheduleBypass ==
    ASSUME TypeOK, BypassMeasure, NEW st \in [Slots -> States], schedule(st),
           \A t \in Slots : st[t] = "RUNNING" => t = current,
           \A t \in Slots : st[t] = "UNUSED" <=> t >= slot_count,
           \A t \in Slots : st[t] = "READY" => state[t] \in {"READY", "BLOCKED"}
    PROVE  BypassMeasure'
<1> DEFINE st1 == [t \in Slots |->
                    IF t = current /\ st[t] = "RUNNING" THEN "READY" ELSE st[t]]
           ready == {i \in 0..(slot_count - 1) : st1[i] = "READY"}
<1> SUFFICES ASSUME NEW t \in Slots
             PROVE  IF state'[t] = "READY"
                    THEN bypass'[t] + Dist(t)' <= slot_count' - 1
                    ELSE bypass'[t] = 0
    BY Zenon DEF BypassMeasure
<1>1. bypass'[t] = IF state'[t] = "READY" /\ t # current
                   THEN bypass[t] + 1 ELSE 0
    BY Zenon DEF schedule
<1>2. slot_count' = slot_count
    BY Zenon DEF schedule
<1>3. CASE state'[t] # "READY"
    BY Zenon, <1>1, <1>3
<1>4. CASE state'[t] = "READY"
    <2>1. t < slot_count
        <3>1. state'[t] = "UNUSED" <=> st[t] = "UNUSED"
            BY Zenon, ScheduleStates
        <3>2. ~(t >= slot_count)
            BY Zenon, <1>4, <3>1
        <3> QED BY <3>2, SchedulerAssumption DEF TypeOK, Slots
    <2>2. st1[t] = "READY"
        BY Zenon, <1>4 DEF schedule
    <2>3. t \in ready
        BY <2>1, <2>2, SchedulerAssumption DEF Slots, TypeOK
    <2>4. PICK i \in ready : /\ \A j \in ready : Dist(i) <= Dist(j)
                             /\ state' = [st1 EXCEPT ![i] = "RUNNING"]
                             /\ last_slot' = i
        BY Zenon, <2>3 DEF schedule
    <2>5. i # t
        BY Zenon, <1>4, <2>4, <2>3
    <2>6. Dist(i) <= Dist(t)
        BY Zenon, <2>3, <2>4
    <2>7. Dist(t)' = Dist(t) - Dist(i) - 1
        <3>1. /\ t \in Int /\ i \in Int /\ last_slot \in Int /\ slot_count \in Int
              /\ 0 <= t /\ t < slot_count /\ 0 <= i /\ i < slot_count
              /\ 0 <= last_slot /\ last_slot < slot_count
            BY <2>1, <2>4, SchedulerAssumption DEF TypeOK, Slots
        <3>2. Dist(t)' = IF t > i THEN t - i - 1 ELSE t - i - 1 + slot_count
            BY Zenon, <1>2, <2>4 DEF Dist
        <3> QED BY <2>5, <2>6, <3>1, <3>2 DEF Dist
    <2>8. Dist(i) >= 0 /\ Dist(i) \in Int /\ Dist(t) \in Int
          /\ Dist(t) <= slot_count - 1
        BY <2>1, SchedulerAssumption DEF Dist, TypeOK, Slots
    <2>9. CASE t = current
        BY <1>1, <1>2, <2>7, <2>8, <2>9 DEF TypeOK
    <2>10. CASE t # current
        <3>1. st[t] = "READY"
            BY Zenon, <2>2, <2>10
        <3>2. bypass[t] + Dist(t) <= slot_count - 1
            BY <3>1, <2>8 DEF BypassMeasure
        <3> QED BY <1>1, <1>2, <1>4, <2>7, <2>8, <2>10, <3>2 DEF TypeOK
    <2> QED BY Zenon, <2>9, <2>10
<1> QED BY Zenon, <1>3, <1>4
-----------------------------------------------------------------------------
(* The three callers of schedule().                                        *)

\* What a step that calls schedule() guarantees, B being the tasks that are
\* BLOCKED after it.
Scheduled(B) ==
    /\ current' \in Slots \cup {IDLE}
    /\ last_slot' \in 0..(slot_count - 1)
    /\ state' \in [Slots -> States]
    /\ bypass' \in [Slots -> Nat]
    /\ slot_count' = slot_count
    /\ running_flag' = running_flag
    /\ \A t \in Slots : state'[t] = "RUNNING" <=> t = current'
    /\ \A t \in Slots : state'[t] = "BLOCKED" <=> t \in B
    /\ \A t \in Slots : state'[t] = "UNUSED" <=> t >= slot_count
    /\ \A t \in Slots : state'[t] = "TERMINATED" <=> state[t] = "TERMINATED"
    /\ BypassMeasure'

Blocked == {t \in Slots : state[t] = "BLOCKED"}

\* task_yield: the caller becomes READY and schedule() picks a task.
LEMMA YieldFacts ==
    ASSUME TypeOK, OneRunning, BypassMeasure, schedule(state)
    PROVE  Scheduled(Blocked)
<1>1. state \in [Slots -> States]
    BY Zenon DEF TypeOK
<1>2. /\ \A t \in Slots : state[t] = "RUNNING" => t = current
      /\ \A t \in Slots : state[t] = "UNUSED" <=> t >= slot_count
      /\ \A t \in Slots : state[t] = "READY" => state[t] \in {"READY", "BLOCKED"}
    BY Zenon DEF OneRunning
<1>3. BypassMeasure'
    BY Zenon, <1>1, <1>2, ScheduleBypass
<1> QED BY Zenon, <1>1, <1>2, <1>3, ScheduleStates DEF Scheduled, Blocked

\* block_current: the caller is BLOCKED and schedule() picks a task.
LEMMA BlockFacts ==
    ASSUME TypeOK, OneRunning, BypassMeasure, current \in Slots,
           state[current] = "RUNNING",
           schedule([state EXCEPT ![current] = "BLOCKED"])
    PROVE  Scheduled(Blocked \cup {current})
<1> DEFINE st == [state EXCEPT ![current] = "BLOCKED"]
<1>1. st \in [Slots -> States]
    BY Zenon DEF TypeOK, States
<1>2. \A t \in Slots : st[t] = IF t = current THEN "BLOCKED" ELSE state[t]
    BY Zenon DEF TypeOK
<1>3. /\ \A t \in Slots : st[t] = "RUNNING" => t = current
      /\ \A t \in Slots : st[t] = "UNUSED" <=> t >= slot_count
      /\ \A t \in Slots : st[t] = "READY" => state[t] \in {"READY", "BLOCKED"}
    BY <1>2 DEF OneRunning
<1>4. schedule(st)
    BY Zenon
<1> HIDE DEF st
<1>5. BypassMeasure'
    BY Zenon, <1>1, <1>3, <1>4, ScheduleBypass
<1>6. \A t \in Slots, x \in {"BLOCKED", "UNUSED", "TERMINATED"} :
         state'[t] = x <=> st[t] = x
    BY Zenon, <1>1, <1>3, <1>4, ScheduleStates
<1> QED BY <1>1, <1>2, <1>3, <1>4, <1>5, <1>6, ScheduleStates
        DEF Scheduled, Blocked, OneRunning

\* scheduler_tick: the expired tasks E are made READY first.
LEMMA TickFacts ==
    ASSUME TypeOK, OneRunning, BypassMeasure, NEW E \in SUBSET Blocked,
           schedule(Readied(E))
    PROVE  Scheduled(Blocked \ E)
<1> DEFINE st == Readied(E)
<1>1. st \in [Slots -> States]
    BY Zenon DEF TypeOK, States, Readied
<1>2. \A t \in Slots : st[t] = IF t \in E THEN "READY" ELSE state[t]
    BY Zenon DEF Readied
<1>3. /\ \A t \in Slots : st[t] = "RUNNING" => t = current
      /\ \A t \in Slots : st[t] = "UNUSED" <=> t >= slot_count
      /\ \A t \in Slots : st[t] = "READY" => state[t] \in {"READY", "BLOCKED"}
    BY Zenon, <1>2 DEF OneRunning, Blocked
<1>4. schedule(st)
    BY Zenon
<1> HIDE DEF st
<1>5. BypassMeasure'
    BY Zenon, <1>1, <1>3, <1>4, ScheduleBypass
<1>6. \A t \in Slots, x \in {"BLOCKED", "UNUSED", "TERMINATED"} :
         state'[t] = x <=> st[t] = x
    BY Zenon, <1>1, <1>3, <1>4, ScheduleStates
<1> QED BY <1>1, <1>2, <1>3, <1>4, <1>5, <1>6, ScheduleStates
        DEF Scheduled, Blocked, OneRunning
-----------------------------------------------------------------------------
(* Wait queues.                                                            *)

\* Unlinking any set T of waiters (wake_first, wake_expired, wake_all) keeps
\* the queues coherent and in order.
LEMMA WakeQueues ==
    ASSUME TypeOK, QueuesCoherent, NEW T \in SUBSET Blocked, NEW r,
           make_ready(T, r), call' = call,
           \A t \in Slots : state'[t] = "BLOCKED" <=> t \in Blocked \ T
    PROVE  QueuesCoherent'
<1>1. \A t \in Slots : /\ queue'[t] = IF t \in T THEN NULL ELSE queue[t]
                       /\ ahead'[t] = IF t \in T THEN {} ELSE ahead[t] \ T
                       /\ has_deadline'[t] <=> t \notin T /\ has_deadline[t]
    BY Zenon DEF make_ready
<1> SUFFICES ASSUME NEW t \in Slots
             PROVE  /\ state'[t] = "BLOCKED" =>
                          queue'[t] = call'[t].obj /\ call'[t].fn # "none"
                    /\ state'[t] # "BLOCKED" => queue'[t] = NULL /\ ~has_deadline'[t]
                    /\ state'[t] = "BLOCKED" => has_deadline'[t] = call'[t].timed
                    /\ queue'[t] = NULL => ahead'[t] = {}
                    /\ state'[t] = "BLOCKED" /\ queue'[t] = NULL => has_deadline'[t]
                    /\ \A u \in ahead'[t] : queue'[u] = queue'[t]
                                            /\ ahead'[u] \subseteq ahead'[t] \ {u}
                    /\ \A u \in Slots :
                          queue'[u] = queue'[t] /\ queue'[t] # NULL /\ u # t
                             => (u \in ahead'[t] <=> t \notin ahead'[u])
    BY Zenon DEF QueuesCoherent
<1>a. /\ state[t] = "BLOCKED" => queue[t] = call[t].obj /\ call[t].fn # "none"
      /\ state[t] # "BLOCKED" => queue[t] = NULL /\ ~has_deadline[t]
      /\ state[t] = "BLOCKED" => has_deadline[t] = call[t].timed
      /\ queue[t] = NULL => ahead[t] = {}
      /\ state[t] = "BLOCKED" /\ queue[t] = NULL => has_deadline[t]
    BY Zenon DEF QueuesCoherent
<1>b. t \in Blocked <=> state[t] = "BLOCKED"
    BY Zenon DEF Blocked
<1>2. /\ state'[t] = "BLOCKED" =>
            queue'[t] = call'[t].obj /\ call'[t].fn # "none"
      /\ state'[t] # "BLOCKED" => queue'[t] = NULL /\ ~has_deadline'[t]
      /\ queue'[t] = NULL => ahead'[t] = {}
      /\ state'[t] = "BLOCKED" /\ queue'[t] = NULL => has_deadline'[t]
    BY Zenon, <1>1, <1>a, <1>b
<1>3. state'[t] = "BLOCKED" => has_deadline'[t] = call'[t].timed
    <2>1. state'[t] = "BLOCKED" => t \notin T /\ state[t] = "BLOCKED"
        BY Zenon, <1>b
    <2>2. t \notin T => has_deadline'[t] = has_deadline[t]
        BY Zenon DEF make_ready, TypeOK
    <2> QED BY Zenon, <1>a, <2>1, <2>2
<1>4. \A u \in ahead'[t] : queue'[u] = queue'[t]
                           /\ ahead'[u] \subseteq ahead'[t] \ {u}
    <2> SUFFICES ASSUME NEW u \in ahead'[t]
                 PROVE  queue'[u] = queue'[t] /\ ahead'[u] \subseteq ahead'[t] \ {u}
        BY Zenon
    <2>1. t \notin T /\ u \in ahead[t] /\ u \notin T
        BY Zenon, <1>1
    <2>2. u \in Slots
        BY Zenon, <2>1 DEF TypeOK
    <2>3. queue[u] = queue[t] /\ ahead[u] \subseteq ahead[t] \ {u}
        BY Zenon, <2>1 DEF QueuesCoherent
    <2> QED BY Zenon, <1>1, <2>1, <2>2, <2>3
<1>5. \A u \in Slots : queue'[u] = queue'[t] /\ queue'[t] # NULL /\ u # t
                          => (u \in ahead'[t] <=> t \notin ahead'[u])
    <2> SUFFICES ASSUME NEW u \in Slots, queue'[u] = queue'[t],
                        queue'[t] # NULL, u # t
                 PROVE  u \in ahead'[t] <=> t \notin ahead'[u]
        BY Zenon
    <2>1. t \notin T /\ u \notin T
        BY Zenon, <1>1
    <2>2. queue[u] = queue[t] /\ queue[t] # NULL
        BY Zenon, <1>1, <2>1
    <2>3. u \in ahead[t] <=> t \notin ahead[u]
        BY Zenon, <2>2 DEF QueuesCoherent
    <2> QED BY Zenon, <1>1, <2>1, <2>3
<1> QED BY Zenon, <1>2, <1>3, <1>4, <1>5

\* Linking the caller at the tail of q (queue_push in block_current) keeps them
\* coherent and in order.
LEMMA BlockQueues ==
    ASSUME TypeOK, QueuesCoherent, NEW q \in Objects \cup {NULL},
           NEW c \in Calls, current \in Slots, state[current] = "RUNNING",
           c.fn # "none", c.obj = q, q = NULL => c.timed,
           queue' = [queue EXCEPT ![current] = q],
           ahead' = [ahead EXCEPT ![current] = IF q = NULL THEN {} ELSE Waiters(q)],
           has_deadline' = [has_deadline EXCEPT ![current] = c.timed],
           call' = [call EXCEPT ![current] = c],
           \A t \in Slots : state'[t] = "BLOCKED" <=> t \in Blocked \cup {current}
    PROVE  QueuesCoherent'
<1>1. \A t \in Slots : /\ queue'[t] = IF t = current THEN q ELSE queue[t]
                       /\ ahead'[t] = IF t # current THEN ahead[t]
                                      ELSE IF q = NULL THEN {} ELSE Waiters(q)
                       /\ has_deadline'[t] = IF t = current THEN c.timed
                                                            ELSE has_deadline[t]
                       /\ call'[t] = IF t = current THEN c ELSE call[t]
    BY Zenon DEF TypeOK
<1>2. (queue[current] = NULL /\ current \notin Waiters(q)) \/ q = NULL
    BY Zenon DEF QueuesCoherent, Waiters
<1>3. \A t \in Slots : current \notin ahead[t]
    BY DEF QueuesCoherent
<1>4. \A t \in Slots : t \notin ahead[t]
    BY Zenon DEF QueuesCoherent
<1> SUFFICES ASSUME NEW t \in Slots
             PROVE  /\ state'[t] = "BLOCKED" =>
                          queue'[t] = call'[t].obj /\ call'[t].fn # "none"
                    /\ state'[t] # "BLOCKED" => queue'[t] = NULL /\ ~has_deadline'[t]
                    /\ state'[t] = "BLOCKED" => has_deadline'[t] = call'[t].timed
                    /\ queue'[t] = NULL => ahead'[t] = {}
                    /\ state'[t] = "BLOCKED" /\ queue'[t] = NULL => has_deadline'[t]
                    /\ \A u \in ahead'[t] : queue'[u] = queue'[t]
                                            /\ ahead'[u] \subseteq ahead'[t] \ {u}
                    /\ \A u \in Slots :
                          queue'[u] = queue'[t] /\ queue'[t] # NULL /\ u # t
                             => (u \in ahead'[t] <=> t \notin ahead'[u])
    BY Zenon DEF QueuesCoherent
<1>5. /\ state'[t] = "BLOCKED" =>
            queue'[t] = call'[t].obj /\ call'[t].fn # "none"
      /\ state'[t] # "BLOCKED" => queue'[t] = NULL /\ ~has_deadline'[t]
      /\ state'[t] = "BLOCKED" => has_deadline'[t] = call'[t].timed
      /\ queue'[t] = NULL => ahead'[t] = {}
      /\ state'[t] = "BLOCKED" /\ queue'[t] = NULL => has_deadline'[t]
    BY <1>1 DEF QueuesCoherent, Blocked, TypeOK, Calls
<1>6. \A u \in ahead'[t] : queue'[u] = queue'[t]
                           /\ ahead'[u] \subseteq ahead'[t] \ {u}
    <2>1. CASE t = current
        <3>1. CASE q = NULL
            BY <1>1, <2>1, <3>1
        <3>2. CASE q # NULL
            <4> SUFFICES ASSUME NEW u \in Waiters(q)
                         PROVE  queue'[u] = q /\ ahead'[u] \subseteq Waiters(q) \ {u}
                BY <1>1, <2>1, <3>2
            <4>1. u \in Slots /\ queue[u] = q /\ u # current
                BY Zenon, <1>2, <3>2 DEF Waiters
            <4>2. ahead'[u] = ahead[u] /\ ahead[u] \subseteq Slots
                BY <1>1, <4>1 DEF TypeOK
            <4>3. \A v \in ahead[u] : queue[v] = q
                BY Zenon, <4>1 DEF QueuesCoherent
            <4> QED BY <1>1, <1>4, <4>1, <4>2, <4>3 DEF Waiters
        <3> QED BY Zenon, <3>1, <3>2
    <2>2. CASE t # current
        BY <1>1, <1>3, <2>2 DEF QueuesCoherent, TypeOK
    <2> QED BY Zenon, <2>1, <2>2
<1>7. \A u \in Slots : queue'[u] = queue'[t] /\ queue'[t] # NULL /\ u # t
                          => (u \in ahead'[t] <=> t \notin ahead'[u])
    BY <1>1, <1>2, <1>3 DEF QueuesCoherent, Waiters, TypeOK
<1> QED BY Zenon, <1>5, <1>6, <1>7
-----------------------------------------------------------------------------
(* The part of the invariant that is about tasks, one lemma per kind of    *)
(* step.                                                                   *)

CoreType ==
    /\ current \in Slots \cup {IDLE}
    /\ slot_count \in 1..MAX_TASKS
    /\ last_slot \in 0..(slot_count - 1)
    /\ running_flag \in BOOLEAN
    /\ ticks \in 0..(TICK_MOD - 1)
    /\ state \in [Slots -> States]
    /\ queue \in [Slots -> Objects \cup {NULL}]
    /\ ahead \in [Slots -> SUBSET Slots]
    /\ deadline \in [Slots -> 0..(TICK_MOD - 1)]
    /\ has_deadline \in [Slots -> BOOLEAN]
    /\ wake_result \in [Slots -> {"OK", "TIMEOUT"}]
    /\ call \in [Slots -> Calls]
    /\ left \in [Slots -> Int]
    /\ bypass \in [Slots -> Nat]

ObjType ==
    /\ count \in [Sems -> 0..MAX_COUNT]
    /\ owner \in [Mutexes -> Slots \cup {NULL}]
    /\ cond \in [Queues -> BOOLEAN]
    /\ signal \in [Queues -> BOOLEAN]
    /\ panicked \in BOOLEAN
    /\ held \in [Slots -> SUBSET Mutexes]
    /\ balance \in [Sems -> Int]

CoreInv ==
    /\ CoreType
    /\ OneRunning
    /\ CallsShaped
    /\ QueuesCoherent
    /\ BypassMeasure
    /\ DeadlineMeasure

coreVars == <<cpuVars, ticks, state, taskVars, callVars, bypass>>

\* A step that leaves tasks and time alone.
LEMMA CoreQuiet ==
    ASSUME CoreInv, UNCHANGED coreVars
    PROVE  CoreInv'
<1> USE DEF coreVars, cpuVars, taskVars, callVars
<1>1. CoreType'
    BY SMTT(30) DEF CoreInv, CoreType
<1>2. OneRunning' /\ CallsShaped' /\ QueuesCoherent'
    BY ZenonT(60) DEF CoreInv, OneRunning, CallsShaped, QueuesCoherent
<1>3. BypassMeasure' /\ DeadlineMeasure'
    BY Zenon DEF CoreInv, BypassMeasure, DeadlineMeasure, Dist
<1> QED BY Zenon, <1>1, <1>2, <1>3 DEF CoreInv

\* Waking the waiters T with WAIT_OK: wake_first and wake_queue_wake_all.
LEMMA CoreWake ==
    ASSUME TypeOK, CoreInv, NEW T \in SUBSET Blocked, make_ready(T, "OK"),
           state' = Readied(T), UNCHANGED <<cpuVars, ticks, callVars, bypass>>
    PROVE  CoreInv'
<1> USE DEF cpuVars, callVars
<1>1. \A t \in Slots : state'[t] = IF t \in T THEN "READY" ELSE state[t]
    BY Zenon DEF Readied
<1>2. \A t \in Slots : t \in Blocked <=> state[t] = "BLOCKED"
    BY Zenon DEF Blocked
<1>3. CoreType'
    BY Zenon DEF CoreInv, CoreType, make_ready, Readied, States
<1>4. OneRunning'
    BY Zenon, <1>1, <1>2 DEF CoreInv, OneRunning
<1>5. CallsShaped'
    BY Zenon, <1>1, <1>2 DEF CoreInv, CallsShaped
<1>6. QueuesCoherent'
    BY Zenon, <1>1, <1>2, WakeQueues DEF CoreInv
<1>7. BypassMeasure'
    <2> SUFFICES ASSUME NEW t \in Slots
                 PROVE  IF state'[t] = "READY"
                        THEN bypass[t] + Dist(t) <= slot_count - 1
                        ELSE bypass[t] = 0
        BY Zenon DEF BypassMeasure, Dist
    <2>1. Dist(t) <= slot_count - 1 \/ t >= slot_count
        BY SchedulerAssumption DEF Dist, TypeOK, Slots
    <2>2. state[t] = "UNUSED" <=> t >= slot_count
        BY Zenon DEF CoreInv, OneRunning
    <2>3. Dist(t) \in Int
        BY SchedulerAssumption DEF Dist, TypeOK, Slots
    <2> QED BY <1>1, <1>2, <2>1, <2>2, <2>3 DEF CoreInv, BypassMeasure, TypeOK
<1>8. DeadlineMeasure'
    <2> SUFFICES ASSUME NEW t \in Slots, call[t].timed
                 PROVE  /\ deadline[t] \in {ticks + left[t], ticks + left[t] - TICK_MOD,
                                            ticks + left[t] + TICK_MOD}
                        /\ left[t] <= MAX_WAIT_TICKS + 1
                        /\ state'[t] = "BLOCKED" => left[t] > 0
                        /\ state'[t] = "READY" => 1 - left[t] <= bypass[t]
                        /\ 1 - left[t] <= slot_count
        BY Zenon DEF DeadlineMeasure
    <2> QED BY <1>1, <1>2 DEF CoreInv, DeadlineMeasure, TypeOK
<1> QED BY Zenon, <1>3, <1>4, <1>5, <1>6, <1>7, <1>8 DEF CoreInv

\* The timer interrupt.
LEMMA CoreTick ==
    ASSUME TypeOK, CoreInv, scheduler_tick
    PROVE  CoreInv'
<1> DEFINE E == Expired(ticks')
<1>1. E \in SUBSET Blocked
    BY SMTT(30), SchedulerAssumption DEF Expired, Blocked, TypeOK, Slots
<1>2. /\ make_ready(E, "TIMEOUT") /\ schedule(Readied(E)) /\ call' = call
      /\ deadline' = deadline /\ ticks' = Wrap(ticks + 1)
      /\ left' = [t \in Slots |-> IF call[t].timed THEN left[t] - 1 ELSE left[t]]
    BY Zenon DEF scheduler_tick
<1> HIDE DEF E
<1>3. Scheduled(Blocked \ E)
    BY Zenon, <1>1, <1>2, TickFacts DEF CoreInv
<1>4. CoreType'
    <2>1. ticks' \in 0..(TICK_MOD - 1)
        BY <1>2, WrapRange, SchedulerAssumption DEF TypeOK, TICK_MOD
    <2>2. /\ queue' \in [Slots -> Objects \cup {NULL}]
          /\ ahead' \in [Slots -> SUBSET Slots]
          /\ has_deadline' \in [Slots -> BOOLEAN]
          /\ wake_result' \in [Slots -> {"OK", "TIMEOUT"}]
        BY Zenon, <1>2 DEF make_ready, TypeOK
    <2>3. left' \in [Slots -> Int]
        BY <1>2 DEF TypeOK
    <2> QED BY Zenon, <1>2, <1>3, <2>1, <2>2, <2>3 DEF CoreType, TypeOK, Scheduled
<1>5. OneRunning'
    BY Zenon, <1>3 DEF OneRunning, Scheduled
<1>6. CallsShaped'
    BY Zenon, <1>2, <1>3 DEF CoreInv, CallsShaped, Scheduled, OneRunning
<1>7. QueuesCoherent'
    BY SMTT(30), <1>1, <1>2, <1>3, WakeQueues DEF CoreInv, Scheduled
<1>8. DeadlineMeasure'
    <2> SUFFICES ASSUME NEW t \in Slots, call[t].timed
                 PROVE  /\ deadline[t] \in {ticks' + left'[t], ticks' + left'[t] - TICK_MOD,
                                            ticks' + left'[t] + TICK_MOD}
                        /\ left'[t] <= MAX_WAIT_TICKS + 1
                        /\ state'[t] = "BLOCKED" => left'[t] > 0
                        /\ state'[t] = "READY" => 1 - left'[t] <= bypass'[t]
                        /\ 1 - left'[t] <= slot_count
        BY Zenon, <1>2, <1>3 DEF DeadlineMeasure, Scheduled
    <2>1. /\ deadline[t] \in {ticks + left[t], ticks + left[t] - TICK_MOD,
                              ticks + left[t] + TICK_MOD}
          /\ left[t] <= MAX_WAIT_TICKS + 1
          /\ state[t] = "BLOCKED" => left[t] > 0
          /\ state[t] = "READY" => 1 - left[t] <= bypass[t]
          /\ 1 - left[t] <= slot_count
        BY Zenon DEF CoreInv, DeadlineMeasure
    <2>2. left'[t] = left[t] - 1 /\ left[t] \in Int /\ left'[t] \in Int
        BY <1>2 DEF TypeOK
    <2>3. t # current
        <3>1. ASSUME t = current  PROVE call[t] = NoCall
            BY Zenon, <3>1, SchedulerAssumption DEF scheduler_tick, irq_on, CoreInv, CallsShaped
        <3> QED BY <3>1 DEF NoCall
    <2>4. state[t] \in {"READY", "BLOCKED"}
        <3>1. call[t] # NoCall
            BY DEF NoCall
        <3>2. state[t] \notin {"UNUSED", "TERMINATED"}
            BY Zenon, <3>1 DEF CoreInv, CallsShaped
        <3>3. state[t] # "RUNNING"
            BY Zenon, <2>3 DEF CoreInv, OneRunning
        <3> QED BY Zenon, <3>2, <3>3 DEF TypeOK, States
    <2>5. bypass'[t] = IF state'[t] = "READY" THEN bypass[t] + 1 ELSE 0
        BY Zenon, <1>2, <2>3 DEF schedule
    <2>6. state[t] = "READY" =>
             bypass[t] + Dist(t) <= slot_count - 1 /\ Dist(t) \in Nat
        BY SMTT(30), SchedulerAssumption DEF CoreInv, BypassMeasure, Dist, TypeOK, Slots
    <2>7. /\ slot_count \in Nat /\ slot_count >= 1 /\ slot_count <= HALF_TICKS
          /\ bypass[t] \in Nat
        BY SchedulerAssumption DEF TypeOK
    <2>8. 1 - left'[t] <= slot_count
        BY <2>1, <2>2, <2>4, <2>6, <2>7
    <2>9. deadline[t] \in {ticks' + left'[t], ticks' + left'[t] - TICK_MOD,
                           ticks' + left'[t] + TICK_MOD}
        <3>1. ticks \in 0..(TICK_MOD - 1) /\ deadline[t] \in 0..(TICK_MOD - 1)
            BY Zenon DEF TypeOK
        <3>2. ticks' = ticks + 1 \/ (ticks' = 0 /\ ticks = TICK_MOD - 1)
            BY <1>2, <3>1, SchedulerAssumption DEF Wrap, TICK_MOD
        <3>3. left[t] > -HALF_TICKS /\ HALF_TICKS \in Nat /\ HALF_TICKS > 0
            BY <2>1, <2>2, <2>7, SchedulerAssumption
        <3>4. TICK_MOD \in Nat /\ TICK_MOD = HALF_TICKS + HALF_TICKS
            BY SchedulerAssumption DEF TICK_MOD
        <3>5. CASE ticks' = ticks + 1
            BY <2>1, <2>2, <3>1, <3>4, <3>5
        <3>6. CASE ticks' = 0 /\ ticks = TICK_MOD - 1
            <4>1. deadline[t] # ticks + left[t] + TICK_MOD
                BY <2>2, <3>1, <3>3, <3>4, <3>6
            <4> QED BY <2>1, <2>2, <3>1, <3>4, <3>6, <4>1
        <3> QED BY Zenon, <3>2, <3>5, <3>6
    <2>10. left'[t] < HALF_TICKS /\ -left'[t] < HALF_TICKS
        BY <2>1, <2>2, <2>7, <2>8, SchedulerAssumption
    <2>11. time_reached(ticks', deadline[t]) <=> left'[t] <= 0
        <3>1. ticks' \in 0..(TICK_MOD - 1) /\ deadline[t] \in 0..(TICK_MOD - 1)
            BY Zenon, <1>4, <1>2 DEF CoreType
        <3> QED BY Zenon, <3>1, <2>2, <2>9, <2>10, TimeReachedExact
    <2>12. state'[t] = "BLOCKED" => left'[t] > 0
        <3>1. ASSUME state'[t] = "BLOCKED"  PROVE t \in Blocked /\ t \notin E
            BY Zenon, <1>3, <3>1 DEF Scheduled
        <3>2. ASSUME t \in Blocked, t \notin E  PROVE ~time_reached(ticks', deadline[t])
            <4>1. state[t] = "BLOCKED" /\ has_deadline[t]
                BY Zenon, <3>2 DEF Blocked, CoreInv, QueuesCoherent
            <4>2. t \in 0..(slot_count - 1)
                BY <4>1, SchedulerAssumption DEF CoreInv, OneRunning, Slots, TypeOK
            <4> QED BY Zenon, <3>2, <4>1, <4>2 DEF E, Expired
        <3> QED BY <2>2, <2>11, <3>1, <3>2
    <2>13. state'[t] = "READY" => 1 - left'[t] <= bypass'[t]
        BY <2>1, <2>2, <2>4, <2>5, <2>7
    <2>14. left'[t] <= MAX_WAIT_TICKS + 1
        BY <2>1, <2>2, SchedulerAssumption
    <2> QED BY Zenon, <2>8, <2>9, <2>12, <2>13, <2>14
<1> QED BY Zenon, <1>3, <1>4, <1>5, <1>6, <1>7, <1>8 DEF CoreInv, Scheduled
-----------------------------------------------------------------------------
(* Steps that block the running task, return from a call, and start or end *)
(* tasks.                                                                  *)

\* What block_current may be called with.
BlockArgs(fn, q, timed, dl, n) ==
    /\ fn \in {"sleep", "wait", "sem", "mutex"}
    /\ timed \in BOOLEAN
    /\ fn = "sleep" => q = NULL /\ timed
    /\ fn = "wait" => q \in Queues
    /\ fn = "sem" => q \in Sems
    /\ fn = "mutex" => q \in Mutexes
    /\ timed => /\ dl \in 0..(TICK_MOD - 1)
                /\ n \in Int
                /\ n <= MAX_WAIT_TICKS + 1
                /\ 1 - n <= slot_count
                /\ dl \in {ticks + n, ticks + n - TICK_MOD, ticks + n + TICK_MOD}

\* The running task blocks.
LEMMA CoreBlock ==
    ASSUME TypeOK, CoreInv, current \in Slots, state[current] = "RUNNING",
           NEW fn, NEW q, NEW timed, NEW dl, NEW n,
           BlockArgs(fn, q, timed, dl, n), block_current(fn, q, timed, dl, n)
    PROVE  CoreInv'
<1> DEFINE c == [fn |-> fn, obj |-> q, timed |-> timed]
<1>1. q \in Objects \cup {NULL} /\ c \in Calls /\ (q = NULL => timed)
    BY Zenon, SchedulerAssumption DEF BlockArgs, Objects, Calls
<1>2. c.fn = fn /\ c.obj = q /\ c.timed = timed /\ fn # "none"
    BY Zenon DEF BlockArgs
<1>3. /\ queue' = [queue EXCEPT ![current] = q]
      /\ ahead' = [ahead EXCEPT ![current] = IF q = NULL THEN {} ELSE Waiters(q)]
      /\ has_deadline' = [has_deadline EXCEPT ![current] = timed]
      /\ deadline' = [deadline EXCEPT ![current] = IF timed THEN dl ELSE 0]
      /\ left' = [left EXCEPT ![current] = IF timed THEN n ELSE 0]
      /\ call' = [call EXCEPT ![current] = c]
      /\ schedule([state EXCEPT ![current] = "BLOCKED"])
      /\ ~(timed /\ time_reached(ticks, dl))
      /\ wake_result' = wake_result /\ ticks' = ticks
    BY Zenon DEF block_current
<1> HIDE DEF c
<1>4. Scheduled(Blocked \cup {current})
    BY Zenon, <1>3, BlockFacts DEF CoreInv
<1>5. CoreType'
    <2>1. queue' \in [Slots -> Objects \cup {NULL}] /\ call' \in [Slots -> Calls]
        BY Zenon, <1>1, <1>3 DEF TypeOK
    <2>2. ahead' \in [Slots -> SUBSET Slots]
        BY Zenon, <1>3 DEF TypeOK, Waiters
    <2>3. has_deadline' \in [Slots -> BOOLEAN]
        BY Zenon, <1>3 DEF TypeOK, BlockArgs
    <2>4. deadline' \in [Slots -> 0..(TICK_MOD - 1)] /\ left' \in [Slots -> Int]
        BY <1>3, SchedulerAssumption DEF TypeOK, BlockArgs, TICK_MOD
    <2> QED BY Zenon, <1>3, <1>4, <2>1, <2>2, <2>3, <2>4 DEF CoreType, TypeOK, Scheduled
<1>6. OneRunning'
    BY Zenon, <1>4 DEF OneRunning, Scheduled
<1>7. CallsShaped'
    <2> SUFFICES ASSUME NEW t \in Slots
                 PROVE  /\ call'[t].fn = "none" => call'[t] = NoCall
                        /\ call'[t].fn = "sleep" => call'[t].obj = NULL /\ call'[t].timed
                        /\ call'[t].fn = "wait" => call'[t].obj \in Queues
                        /\ call'[t].fn = "sem" => call'[t].obj \in Sems
                        /\ call'[t].fn = "mutex" => call'[t].obj \in Mutexes
                        /\ state'[t] \in {"UNUSED", "TERMINATED"} => call'[t] = NoCall
        BY Zenon DEF CallsShaped
    <2>1. CASE t = current
        <3>1. call'[t] = c /\ state'[t] = "BLOCKED"
            BY Zenon, <1>3, <1>4, <2>1 DEF TypeOK, Scheduled
        <3> QED BY Zenon, <1>2, <3>1 DEF BlockArgs
    <2>2. CASE t # current
        <3>1. call'[t] = call[t]
            BY Zenon, <1>3, <2>2 DEF TypeOK
        <3>2. state'[t] \in {"UNUSED", "TERMINATED"} =>
                 state[t] \in {"UNUSED", "TERMINATED"}
            BY Zenon, <1>4 DEF Scheduled, CoreInv, OneRunning
        <3> QED BY Zenon, <3>1, <3>2 DEF CoreInv, CallsShaped
    <2> QED BY Zenon, <2>1, <2>2
<1>8. QueuesCoherent'
    <2>1. \A t \in Slots : state'[t] = "BLOCKED" <=> t \in Blocked \cup {current}
        BY Zenon, <1>4 DEF Scheduled
    <2> QED BY Zenon, <1>1, <1>2, <1>3, <2>1, BlockQueues DEF CoreInv
<1>9. DeadlineMeasure'
    <2> SUFFICES ASSUME NEW t \in Slots, call'[t].timed
                 PROVE  /\ deadline'[t] \in {ticks + left'[t], ticks + left'[t] - TICK_MOD,
                                             ticks + left'[t] + TICK_MOD}
                        /\ left'[t] <= MAX_WAIT_TICKS + 1
                        /\ state'[t] = "BLOCKED" => left'[t] > 0
                        /\ state'[t] = "READY" => 1 - left'[t] <= bypass'[t]
                        /\ 1 - left'[t] <= slot_count
        BY <1>3, <1>4 DEF DeadlineMeasure, Scheduled
    <2>1. CASE t = current
        <3>1. call'[t] = c /\ timed /\ deadline'[t] = dl /\ left'[t] = n
            BY Zenon, <1>2, <1>3, <2>1 DEF TypeOK
        <3>2. n < HALF_TICKS /\ -n < HALF_TICKS
            BY <3>1, SchedulerAssumption DEF BlockArgs, TypeOK
        <3>3. n > 0
            BY <1>3, <3>1, <3>2, TimeReachedExact DEF BlockArgs, TypeOK
        <3>4. state'[t] = "BLOCKED"
            BY Zenon, <1>4, <2>1 DEF Scheduled
        <3> QED BY Zenon, <3>1, <3>3, <3>4 DEF BlockArgs
    <2>2. CASE t # current
        <3>1. call'[t] = call[t] /\ deadline'[t] = deadline[t] /\ left'[t] = left[t]
            BY Zenon, <1>3, <2>2 DEF TypeOK
        <3>2. state'[t] = "BLOCKED" => state[t] = "BLOCKED"
            BY Zenon, <1>4, <2>2 DEF Scheduled, Blocked
        <3>3. state'[t] = "READY" => /\ state[t] = "READY"
                                     /\ bypass'[t] = bypass[t] + 1
            BY Zenon, <1>3, <2>2 DEF schedule, TypeOK
        <3>4. call[t].timed
            BY Zenon, <3>1
        <3>5. /\ deadline[t] \in {ticks + left[t], ticks + left[t] - TICK_MOD,
                                  ticks + left[t] + TICK_MOD}
              /\ left[t] <= MAX_WAIT_TICKS + 1
              /\ state[t] = "BLOCKED" => left[t] > 0
              /\ state[t] = "READY" => 1 - left[t] <= bypass[t]
              /\ 1 - left[t] <= slot_count
            BY Zenon, <3>4 DEF CoreInv, DeadlineMeasure
        <3>6. left[t] \in Int /\ bypass[t] \in Nat
            BY Zenon DEF TypeOK
        <3>7. state'[t] = "READY" => 1 - left[t] <= bypass'[t]
            BY <3>3, <3>5, <3>6
        <3> QED BY Zenon, <3>1, <3>2, <3>5, <3>7
    <2> QED BY Zenon, <2>1, <2>2
<1> QED BY Zenon, <1>4, <1>5, <1>6, <1>7, <1>8, <1>9 DEF CoreInv, Scheduled

\* A resumed call returns.
LEMMA CoreReturn ==
    ASSUME TypeOK, CoreInv, current \in Slots, state[current] = "RUNNING",
           return_from_call
    PROVE  CoreInv'
<1> USE DEF cpuVars, taskVars
<1>1. /\ call' = [call EXCEPT ![current] = NoCall]
      /\ deadline' = [deadline EXCEPT ![current] = 0]
      /\ left' = [left EXCEPT ![current] = 0]
      /\ UNCHANGED <<cpuVars, ticks, state, taskVars, bypass>>
    BY Zenon DEF return_from_call
<1>2. \A t \in Slots : t # current => /\ call'[t] = call[t]
                                      /\ deadline'[t] = deadline[t]
                                      /\ left'[t] = left[t]
    BY Zenon, <1>1 DEF TypeOK
<1>3. call'[current] = NoCall
    BY Zenon, <1>1 DEF TypeOK
<1>4. CoreType'
    <2>1. NoCall \in Calls
        BY Zenon DEF NoCall, Calls
    <2> QED BY <1>1, <2>1, SchedulerAssumption DEF CoreType, TypeOK, TICK_MOD
<1>5. OneRunning'
    BY Zenon, <1>1 DEF CoreInv, OneRunning
<1>6. CallsShaped'
    <2>1. NoCall.fn = "none"
        BY Zenon DEF NoCall
    <2>2. \A t \in Slots : \/ t = current /\ call'[t] = NoCall /\ call'[t].fn = "none"
                          \/ call'[t] = call[t]
        BY Zenon, <1>2, <1>3, <2>1
    <2> QED BY <1>1, <2>2 DEF CoreInv, CallsShaped
<1>7. QueuesCoherent'
    BY <1>1, <1>2 DEF CoreInv, QueuesCoherent
<1>8. BypassMeasure'
    BY Zenon, <1>1 DEF CoreInv, BypassMeasure, Dist
<1>9. DeadlineMeasure'
    BY <1>1, <1>2, <1>3 DEF CoreInv, DeadlineMeasure, NoCall
<1> QED BY Zenon, <1>4, <1>5, <1>6, <1>7, <1>8, <1>9 DEF CoreInv

\* Starting the scheduler, creating a task, exiting and yielding.
LEMMA CoreTask ==
    ASSUME TypeOK, CoreInv, scheduler_start \/ task_create \/ task_exit \/ task_yield
    PROVE  CoreInv'
<1> USE DEF cpuVars, taskVars, callVars
<1>1. CASE scheduler_start
    <2>1. CoreType'
        BY Zenon, <1>1 DEF scheduler_start, CoreInv, CoreType
    <2>2. OneRunning' /\ CallsShaped' /\ QueuesCoherent'
        BY ZenonT(60), <1>1 DEF scheduler_start, CoreInv, OneRunning, CallsShaped, QueuesCoherent
    <2>3. BypassMeasure' /\ DeadlineMeasure'
        BY Zenon, <1>1 DEF scheduler_start, CoreInv, BypassMeasure, DeadlineMeasure, Dist
    <2> QED BY Zenon, <2>1, <2>2, <2>3 DEF CoreInv
<1>2. CASE task_create
    <2>1. CASE panic
        BY Zenon, <2>1, CoreQuiet DEF panic, coreVars
    <2>2. CASE /\ state' = [state EXCEPT ![slot_count] = "READY"]
               /\ slot_count' = slot_count + 1
               /\ slot_count < MAX_TASKS
               /\ UNCHANGED <<current, last_slot, running_flag, ticks, taskVars,
                              callVars, bypass>>
        <3>1. slot_count \in Slots
            BY <2>2, SchedulerAssumption DEF TypeOK, Slots
        <3>2. \A t \in Slots : state'[t] = IF t = slot_count THEN "READY" ELSE state[t]
            BY Zenon, <2>2, <3>1 DEF TypeOK
        <3>3. state[slot_count] = "UNUSED"
            BY <3>1, SchedulerAssumption DEF CoreInv, OneRunning, TypeOK
        <3>4. CoreType'
            BY <2>2, <3>1, SchedulerAssumption DEF CoreInv, CoreType, States
        <3>5. OneRunning'
            BY SMTT(30), <2>2, <3>2, <3>3, SchedulerAssumption DEF CoreInv, OneRunning, TypeOK, Slots
        <3>6. CallsShaped'
            BY ZenonT(60), <2>2, <3>2, <3>3 DEF CoreInv, CallsShaped
        <3>7. QueuesCoherent'
            <4>1. \A t \in Slots : state'[t] = "BLOCKED" <=> state[t] = "BLOCKED"
                BY Zenon, <3>2, <3>3
            <4>2. UNCHANGED <<queue, ahead, has_deadline, call>>
                BY Zenon, <2>2
            <4> QED BY ZenonT(60), <4>1, <4>2 DEF CoreInv, QueuesCoherent
        <3>8. BypassMeasure'
            <4> SUFFICES ASSUME NEW t \in Slots
                         PROVE  IF state'[t] = "READY"
                                THEN bypass[t] + Dist(t)' <= slot_count
                                ELSE bypass[t] = 0
                BY <2>2, SchedulerAssumption DEF BypassMeasure, TypeOK
            <4>1. /\ Dist(t)' <= Dist(t) + 1 /\ Dist(t) \in Int /\ Dist(t)' \in Int
                  /\ t = slot_count => Dist(t)' <= slot_count
                BY <2>2, SchedulerAssumption DEF Dist, TypeOK, Slots
            <4> QED BY <3>2, <3>3, <4>1 DEF CoreInv, BypassMeasure, TypeOK
        <3>9. DeadlineMeasure'
            <4>1. call[slot_count] = NoCall
                BY Zenon, <3>1, <3>3 DEF CoreInv, CallsShaped
            <4> QED BY SMTT(60), <2>2, <3>2, <4>1, SchedulerAssumption
                    DEF CoreInv, DeadlineMeasure, TypeOK, NoCall
        <3> QED BY Zenon, <3>4, <3>5, <3>6, <3>7, <3>8, <3>9 DEF CoreInv
    <2> QED BY Zenon, <1>2, <2>1, <2>2 DEF task_create
<1>3. CASE task_exit
    <2>1. current \in Slots /\ state[current] = "RUNNING" /\ call[current] = NoCall
        BY Zenon, <1>3 DEF task_exit, can_call, irq_on, TypeOK, CoreInv, CallsShaped
    <2>2. \A t \in Slots : state'[t] = IF t = current THEN "TERMINATED" ELSE state[t]
        BY Zenon, <1>3, <2>1 DEF task_exit, TypeOK
    <2>3. CoreType'
        BY ZenonT(60), <1>3 DEF task_exit, CoreInv, CoreType, States
    <2>4. OneRunning'
        BY <1>3, <2>1, <2>2 DEF task_exit, CoreInv, OneRunning
    <2>5. CallsShaped'
        BY ZenonT(60), <1>3, <2>1, <2>2 DEF task_exit, CoreInv, CallsShaped
    <2>6. QueuesCoherent'
        BY <1>3, <2>1, <2>2 DEF task_exit, CoreInv, QueuesCoherent
    <2>7. BypassMeasure' /\ DeadlineMeasure'
        BY <1>3, <2>1, <2>2 DEF task_exit, CoreInv, BypassMeasure, DeadlineMeasure, Dist
    <2> QED BY Zenon, <2>3, <2>4, <2>5, <2>6, <2>7 DEF CoreInv
<1>4. CASE task_yield
    <2>1. /\ schedule(state)
          /\ UNCHANGED <<ticks, taskVars, callVars>>
        BY Zenon, <1>4 DEF task_yield
    <2>2. Scheduled(Blocked)
        BY Zenon, <2>1, YieldFacts DEF CoreInv
    <2>3. CoreType'
        BY Zenon, <2>1, <2>2 DEF CoreType, TypeOK, Scheduled
    <2>4. OneRunning'
        BY Zenon, <2>2 DEF OneRunning, Scheduled
    <2>5. CallsShaped' /\ QueuesCoherent'
        BY ZenonT(60), <2>1, <2>2 DEF Scheduled, Blocked, CoreInv, CallsShaped, QueuesCoherent, OneRunning
    <2>6. DeadlineMeasure'
        <3> SUFFICES ASSUME NEW t \in Slots, call[t].timed
                     PROVE  /\ state'[t] = "BLOCKED" => state[t] = "BLOCKED"
                            /\ state'[t] = "READY" => 1 - left[t] <= bypass'[t]
            BY Zenon, <2>1, <2>2 DEF CoreInv, DeadlineMeasure, Scheduled
        <3>1. ASSUME t = current  PROVE call[t] = NoCall
            BY Zenon, <1>4, <3>1 DEF task_yield, irq_on, CoreInv, CallsShaped
        <3>2. t # current
            BY <3>1 DEF NoCall
        <3>3. state'[t] = "READY" => state[t] = "READY" /\ bypass'[t] = bypass[t] + 1
            BY ZenonT(60), <2>1, <3>2 DEF schedule, TypeOK
        <3> QED BY <2>2, <3>3 DEF Scheduled, Blocked, CoreInv, DeadlineMeasure, TypeOK
    <2> QED BY Zenon, <2>2, <2>3, <2>4, <2>5, <2>6 DEF CoreInv, Scheduled
<1> QED BY Zenon, <1>1, <1>2, <1>3, <1>4

\* The running task that may call has no call of its own pending.
LEMMA CanCall ==
    ASSUME TypeOK, CoreInv, can_call
    PROVE  current \in Slots /\ state[current] = "RUNNING" /\ call[current] = NoCall
BY Zenon DEF can_call, irq_on, TypeOK, CoreInv, CallsShaped

\* A first call of block_current blocks with a deadline in range, returns at
\* once or panics.
LEMMA BlockForCases ==
    ASSUME TypeOK, NEW fn \in {"sleep", "wait", "sem", "mutex"}, NEW q,
           NEW ms \in TIMEOUTS \cup {WAIT_FOREVER}, block_for(fn, q, ms),
           fn = "sleep" => q = NULL /\ ms # WAIT_FOREVER,
           fn = "wait" => q \in Queues,
           fn = "sem" => q \in Sems,
           fn = "mutex" => q \in Mutexes
    PROVE  \/ panic
           \/ UNCHANGED vars
           \/ \E timed, dl, n : /\ BlockArgs(fn, q, timed, dl, n)
                                /\ block_current(fn, q, timed, dl, n)
<1> DEFINE timed == ms # WAIT_FOREVER
           n == IF timed THEN WaitTicks(ms) ELSE 0
           dl == Wrap(ticks + n)
<1>1. ASSUME block_current(fn, q, timed, dl, n)
      PROVE  BlockArgs(fn, q, timed, dl, n)
    <2>1. timed => n \in 0..(MAX_WAIT_TICKS + 1)
        BY Zenon, WaitTicksRange
    <2>2. timed => /\ dl \in 0..(TICK_MOD - 1)
                   /\ dl \in {ticks + n, ticks + n - TICK_MOD}
        BY Zenon, <2>1, WrapRange DEF TypeOK
    <2>3. timed => 1 - n <= slot_count /\ n <= MAX_WAIT_TICKS + 1 /\ n \in Int
        BY <2>1, SchedulerAssumption DEF TypeOK
    <2> HIDE DEF n, dl
    <2> QED BY Zenon, <2>2, <2>3 DEF BlockArgs
<1> HIDE DEF n, dl, timed
<1> QED BY Zenon, <1>1 DEF block_for, timed, n, dl

\* So does blocking again in the loop of wait_queue_wait_until.
LEMMA ReblockArgs ==
    ASSUME TypeOK, CoreInv, current \in Slots, call[current].fn = "wait"
    PROVE  BlockArgs("wait", call[current].obj, call[current].timed,
                     deadline[current], left[current])
<1>1. call[current].obj \in Queues /\ call[current].timed \in BOOLEAN
    BY Zenon DEF CoreInv, CallsShaped, TypeOK, Calls
<1> QED BY Zenon, <1>1 DEF BlockArgs, CoreInv, DeadlineMeasure, TypeOK

\* A task switched back to inside a call is RUNNING.
LEMMA Resuming ==
    ASSUME TypeOK, CoreInv, current # IDLE, call[current].fn # "none"
    PROVE  current \in Slots /\ state[current] = "RUNNING"
<1>1. current \in Slots
    BY Zenon DEF TypeOK
<1>2. call[current] # NoCall
    BY DEF NoCall
<1>3. state[current] # "TERMINATED"
    BY Zenon, <1>1, <1>2 DEF CoreInv, CallsShaped
<1> QED BY Zenon, <1>1, <1>3 DEF CoreInv, OneRunning
=============================================================================
