------------------------------ MODULE Scheduler ------------------------------
(***************************************************************************)
(* The preemptive round-robin scheduler of src/kernel/scheduler.c with its *)
(* blocking primitives: sleep, wait queues, semaphores and mutexes.        *)
(*                                                                         *)
(* Every primitive runs between irq_save and irq_restore, so a call is one *)
(* action up to the point where block_current gives the CPU away.  A       *)
(* blocked call is resumed with interrupts still off (its saved EFLAGS),   *)
(* so between the switch back to it and the end of the call no interrupt   *)
(* is taken: see irq_on.  The timer may interrupt a task at any other      *)
(* point.                                                                  *)
(*                                                                         *)
(* A wait queue (head, tail, wait_next) is modelled by queue[t], the queue *)
(* task t is linked into, and ahead[t], the tasks linked before it: a push *)
(* at the tail puts t behind all of them, a pop takes the one behind none. *)
(***************************************************************************)
EXTENDS Integers, FiniteSets

CONSTANTS
    MAX_TASKS,       \* slots of tasks[]
    HALF_TICKS,      \* half of the range of the tick counter (2^31)
    MAX_WAIT_TICKS,  \* longest wait, in ticks
    MS_PER_TICK,     \* 1000 / TICK_HZ
    MAX_COUNT,       \* largest semaphore count (0xFFFFFFFF)
    WAIT_FOREVER,    \* the timeout that is none
    TIMEOUTS,        \* the timeouts, in milliseconds, that callers ask for
    Queues,          \* wait queues used through wait_queue_wait_until
    Sems,            \* semaphores
    Mutexes,         \* mutexes
    IDLE,            \* &idle_task
    NULL

Slots == 0..(MAX_TASKS - 1)
TICK_MOD == 2 * HALF_TICKS
Objects == Queues \cup Sems \cup Mutexes

ASSUME SchedulerAssumption ==
    /\ MAX_TASKS \in Nat \ {0}
    /\ HALF_TICKS \in Nat
    /\ MAX_WAIT_TICKS \in Nat
    /\ MAX_WAIT_TICKS + 1 < HALF_TICKS
    /\ MAX_TASKS <= HALF_TICKS
    /\ MS_PER_TICK \in Nat \ {0}
    /\ MAX_COUNT \in Nat
    /\ TIMEOUTS \subseteq Nat
    /\ WAIT_FOREVER \notin Nat
    /\ IDLE \notin Slots
    /\ NULL \notin Slots
    /\ NULL \notin Objects
    /\ Queues \cap Sems = {}
    /\ Queues \cap Mutexes = {}
    /\ Sems \cap Mutexes = {}

VARIABLES
    \* the globals of scheduler.c
    current, slot_count, last_slot, running_flag, ticks,
    \* the fields of struct task
    state, queue, ahead, deadline, has_deadline, wake_result,
    \* the locals of a blocking call that has not returned yet
    call,
    \* struct semaphore, struct mutex, and what ready() reads
    count, owner, cond, signal,
    \* panic() was reached
    panicked,
    \* history: locks and tokens the callers were told they have, the exact
    \* time left, and how often a ready task was passed over
    held, balance, left, bypass

cpuVars == <<current, slot_count, last_slot, running_flag>>
taskVars == <<queue, ahead, has_deadline, wake_result>>
callVars == <<call, deadline, left>>
objVars == <<count, owner, cond, signal>>
useVars == <<held, balance>>
vars == <<cpuVars, ticks, state, taskVars, callVars, objVars, panicked,
          useVars, bypass>>

States == {"UNUSED", "READY", "RUNNING", "BLOCKED", "TERMINATED"}
NoCall == [fn |-> "none", obj |-> NULL, timed |-> FALSE]
Calls == [fn : {"none", "sleep", "wait", "sem", "mutex"},
          obj : Objects \cup {NULL}, timed : BOOLEAN]
-----------------------------------------------------------------------------
(* Time: unsigned arithmetic modulo TICK_MOD.                              *)

Wrap(x) == IF x >= TICK_MOD THEN x - TICK_MOD ELSE x

ms_to_ticks(ms) ==
    LET n == (ms \div MS_PER_TICK) + (IF ms % MS_PER_TICK # 0 THEN 1 ELSE 0)
    IN  IF n > MAX_WAIT_TICKS THEN MAX_WAIT_TICKS ELSE n

\* The number of ticks deadline_after adds: the running tick is not counted.
WaitTicks(ms) ==
    LET n == ms_to_ticks(ms) IN n + (IF n # 0 THEN 1 ELSE 0)

deadline_after(ms) == Wrap(ticks + WaitTicks(ms))

\* (int)(now - dl) >= 0
time_reached(now, dl) ==
    \/ now >= dl /\ now - dl < HALF_TICKS
    \/ now < dl /\ now - dl + TICK_MOD < HALF_TICKS
-----------------------------------------------------------------------------
(* Queues and the ready list.                                              *)

Waiters(q) == {t \in Slots : queue[t] = q}

\* The waiter at q->head.
IsFirst(q, t) == t \in Waiters(q) /\ ahead[t] = {}

\* Mutant: a woken task keeps its deadline.
make_ready_keeps_deadline(T, result) ==
    /\ queue' = [t \in Slots |-> IF t \in T THEN NULL ELSE queue[t]]
    /\ ahead' = [t \in Slots |-> IF t \in T THEN {} ELSE ahead[t] \ T]
    /\ has_deadline' = has_deadline
    /\ wake_result' = [t \in Slots |-> IF t \in T THEN result ELSE wake_result[t]]

\* queue_pop or queue_remove of every task of T, then make_ready(t, result).
make_ready(T, result) ==
    /\ queue' = [t \in Slots |-> IF t \in T THEN NULL ELSE queue[t]]
    /\ ahead' = [t \in Slots |-> IF t \in T THEN {} ELSE ahead[t] \ T]
    /\ has_deadline' = [t \in Slots |-> t \notin T /\ has_deadline[t]]
    /\ wake_result' = [t \in Slots |-> IF t \in T THEN result ELSE wake_result[t]]

Readied(T) == [t \in Slots |-> IF t \in T THEN "READY" ELSE state[t]]

\* Mutant: the search starts at slot 0 every time.
Dist_from_zero(i) == i

\* Probes schedule() makes before it looks at slot i.
Dist(i) == IF i > last_slot THEN i - last_slot - 1
                            ELSE i - last_slot - 1 + slot_count

\* schedule(), from the task states st.
schedule(st) ==
    LET st1 == [t \in Slots |->
                  IF t = current /\ st[t] = "RUNNING" THEN "READY" ELSE st[t]]
        ready == {i \in 0..(slot_count - 1) : st1[i] = "READY"}
    IN  /\ \/ /\ ready = {}
              /\ current' = IDLE
              /\ state' = st1
              /\ last_slot' = last_slot
           \/ \E i \in ready :
                /\ \A j \in ready : Dist(i) <= Dist(j)
                /\ current' = i
                /\ state' = [st1 EXCEPT ![i] = "RUNNING"]
                /\ last_slot' = i
        /\ bypass' = [t \in Slots |->
                        IF state'[t] = "READY" /\ t # current
                        THEN bypass[t] + 1 ELSE 0]
        /\ UNCHANGED <<slot_count, running_flag>>

\* Interrupts are on: the CPU is not inside a resumed call.
irq_on == ~panicked /\ (current # IDLE => call[current].fn = "none")

\* The running task is in its own code and may call the scheduler.
can_call == irq_on /\ current # IDLE /\ state[current] = "RUNNING"

panic ==
    /\ panicked' = TRUE
    /\ UNCHANGED <<cpuVars, ticks, state, taskVars, callVars, objVars, useVars,
                   bypass>>

\* block_current(q, timed, dl) past its checks, n ticks before dl.  The field
\* deadline is read only while the call is timed; it is left 0 otherwise.
block_current(fn, q, timed, dl, n) ==
    /\ running_flag
    /\ ~(timed /\ time_reached(ticks, dl))
    /\ queue' = [queue EXCEPT ![current] = q]
    /\ ahead' = [ahead EXCEPT ![current] = IF q = NULL THEN {} ELSE Waiters(q)]
    /\ has_deadline' = [has_deadline EXCEPT ![current] = timed]
    /\ deadline' = [deadline EXCEPT ![current] = IF timed THEN dl ELSE 0]
    /\ left' = [left EXCEPT ![current] = IF timed THEN n ELSE 0]
    /\ call' = [call EXCEPT ![current] = [fn |-> fn, obj |-> q, timed |-> timed]]
    /\ schedule([state EXCEPT ![current] = "BLOCKED"])
    /\ UNCHANGED <<wake_result, ticks, objVars, panicked, useVars>>

\* A first call of block_current with the timeout ms: it blocks, returns
\* WAIT_TIMEOUT at once, or panics before scheduler_start.
block_for(fn, q, ms) ==
    LET timed == ms # WAIT_FOREVER
        n == IF timed THEN WaitTicks(ms) ELSE 0
        dl == Wrap(ticks + n)
    IN  \/ block_current(fn, q, timed, dl, n)
        \/ running_flag /\ timed /\ time_reached(ticks, dl) /\ UNCHANGED vars
        \/ ~running_flag /\ panic

\* A blocking call returns to its caller.
return_from_call ==
    /\ call' = [call EXCEPT ![current] = NoCall]
    /\ deadline' = [deadline EXCEPT ![current] = 0]
    /\ left' = [left EXCEPT ![current] = 0]
    /\ UNCHANGED <<cpuVars, ticks, state, taskVars, objVars, panicked, bypass>>
-----------------------------------------------------------------------------
(* Tasks.                                                                  *)

scheduler_start ==
    /\ can_call
    /\ ~running_flag
    /\ running_flag' = TRUE
    /\ UNCHANGED <<current, slot_count, last_slot, ticks, state, taskVars,
                   callVars, objVars, panicked, useVars, bypass>>

\* With every slot used the call fails and changes nothing; kmalloc may fail.
task_create ==
    /\ can_call
    /\ slot_count < MAX_TASKS
    /\ \/ panic
       \/ /\ state' = [state EXCEPT ![slot_count] = "READY"]
          /\ slot_count' = slot_count + 1
          /\ UNCHANGED <<current, last_slot, running_flag, ticks, taskVars,
                         callVars, objVars, panicked, useVars, bypass>>

\* The first half of task_exit: the task is TERMINATED but still on the CPU
\* until its int 0x81 or the timer, whichever is first.  main (slot 0) was not
\* started through task_trampoline and never exits.
task_exit ==
    /\ can_call
    /\ current # 0
    /\ state' = [state EXCEPT ![current] = "TERMINATED"]
    /\ UNCHANGED <<cpuVars, ticks, taskVars, callVars, objVars, panicked,
                   useVars, bypass>>

\* task_yield (int 0x81, scheduler_switch), also the second half of task_exit.
task_yield ==
    /\ irq_on
    /\ current # IDLE
    /\ running_flag
    /\ schedule(state)
    /\ UNCHANGED <<ticks, taskVars, callVars, objVars, panicked, useVars>>

\* ms = 0 is a task_yield.
task_sleep(ms) ==
    /\ can_call
    /\ ms # WAIT_FOREVER
    /\ ms # 0
    /\ block_for("sleep", NULL, ms)

\* Mutant: the loop of wake_expired starts at 1.
Expired_skips_main(now) ==
    {t \in 1..(slot_count - 1) : /\ state[t] = "BLOCKED"
                                 /\ has_deadline[t]
                                 /\ time_reached(now, deadline[t])}

\* The timer interrupt: ticks++, wake_expired, schedule.
Expired(now) ==
    {t \in 0..(slot_count - 1) : /\ state[t] = "BLOCKED"
                                 /\ has_deadline[t]
                                 /\ time_reached(now, deadline[t])}

\* Mutant: the tick does not run wake_expired.  left, which would count down for
\* ever, stands still.
scheduler_tick_wakes_nobody ==
    /\ irq_on
    /\ running_flag
    /\ ticks' = Wrap(ticks + 1)
    /\ schedule(state)
    /\ UNCHANGED <<taskVars, callVars, objVars, panicked, useVars>>

scheduler_tick ==
    /\ irq_on
    /\ running_flag
    /\ ticks' = Wrap(ticks + 1)
    /\ make_ready(Expired(ticks'), "TIMEOUT")
    /\ schedule(Readied(Expired(ticks')))
    /\ left' = [t \in Slots |-> IF call[t].timed THEN left[t] - 1 ELSE left[t]]
    /\ UNCHANGED <<call, deadline, objVars, panicked, useVars>>
-----------------------------------------------------------------------------
(* Wait queues.  cond[q] is what the callback ready() of q's callers reads: *)
(* a caller's own flag that another task or an interrupt handler sets       *)
(* before it calls wait_queue_wake_all (signal: it has not called it yet).  *)

\* Mutant: ready() is not tested under the lock.
wait_queue_wait_until_untested(q, ms) == can_call /\ block_for("wait", q, ms)

wait_queue_wait_until(q, ms) ==
    /\ can_call
    /\ ~cond[q]
    /\ block_for("wait", q, ms)

\* The loop of wait_queue_wait_until, from the return of block_current on.
wait_loop(q) ==
    \/ /\ cond[q] \/ wake_result[current] = "TIMEOUT"
       /\ return_from_call
       /\ UNCHANGED useVars
    \/ /\ ~cond[q]
       /\ wake_result[current] = "OK"
       /\ IF call[current].timed /\ time_reached(ticks, deadline[current])
          THEN return_from_call /\ UNCHANGED useVars
          ELSE block_current("wait", q, call[current].timed,
                             deadline[current], left[current])

set_cond(q) ==
    /\ irq_on
    /\ ~cond[q]
    /\ cond' = [cond EXCEPT ![q] = TRUE]
    /\ signal' = [signal EXCEPT ![q] = TRUE]
    /\ UNCHANGED <<cpuVars, ticks, state, taskVars, callVars, count, owner,
                   panicked, useVars, bypass>>

\* The caller takes the event, or drops a stale one before its next request.
clear_cond(q) ==
    /\ can_call
    /\ cond[q]
    /\ cond' = [cond EXCEPT ![q] = FALSE]
    /\ UNCHANGED <<cpuVars, ticks, state, taskVars, callVars, count, owner,
                   signal, panicked, useVars, bypass>>

wait_queue_wake_one(q) ==
    /\ irq_on
    /\ \E t \in Slots : /\ IsFirst(q, t)
                        /\ make_ready({t}, "OK")
                        /\ state' = Readied({t})
    /\ UNCHANGED <<cpuVars, ticks, callVars, objVars, panicked, useVars, bypass>>

\* Mutant: only the first waiter is woken.
wait_queue_wake_all_first(q) ==
    /\ irq_on
    /\ LET T == {t \in Slots : IsFirst(q, t)}
       IN  make_ready(T, "OK") /\ state' = Readied(T)
    /\ signal' = [signal EXCEPT ![q] = FALSE]
    /\ UNCHANGED <<cpuVars, ticks, callVars, count, owner, cond, panicked,
                   useVars, bypass>>

wait_queue_wake_all(q) ==
    /\ irq_on
    /\ make_ready(Waiters(q), "OK")
    /\ state' = Readied(Waiters(q))
    /\ signal' = [signal EXCEPT ![q] = FALSE]
    /\ UNCHANGED <<cpuVars, ticks, callVars, count, owner, cond, panicked,
                   useVars, bypass>>
-----------------------------------------------------------------------------
(* Semaphores and mutexes.                                                 *)

\* sem_wait is WAIT_FOREVER, sem_trywait the timeout 0.
sem_wait_timeout(s, ms) ==
    /\ can_call
    /\ \/ /\ count[s] > 0
          /\ count' = [count EXCEPT ![s] = @ - 1]
          /\ balance' = [balance EXCEPT ![s] = @ - 1]
          /\ UNCHANGED <<cpuVars, ticks, state, taskVars, callVars, owner, cond,
                         signal, panicked, held, bypass>>
       \/ /\ count[s] = 0
          /\ block_for("sem", s, ms)

\* Mutant: the token is counted even when somebody waits for it.
sem_post_wakes_nobody(s) ==
    /\ irq_on
    /\ count[s] < MAX_COUNT
    /\ count' = [count EXCEPT ![s] = @ + 1]
    /\ balance' = [balance EXCEPT ![s] = @ + 1]
    /\ UNCHANGED <<cpuVars, ticks, state, taskVars, callVars, owner, cond,
                   signal, panicked, held, bypass>>

\* Called by tasks and, with no current task of its own, by interrupt handlers.
sem_post(s) ==
    /\ irq_on
    /\ \/ /\ \E t \in Slots : /\ IsFirst(s, t)
                              /\ make_ready({t}, "OK")
                              /\ state' = Readied({t})
          /\ balance' = [balance EXCEPT ![s] = @ + 1]
          /\ UNCHANGED <<cpuVars, ticks, callVars, objVars, panicked, held, bypass>>
       \/ /\ Waiters(s) = {}
          /\ count[s] < MAX_COUNT
          /\ count' = [count EXCEPT ![s] = @ + 1]
          /\ balance' = [balance EXCEPT ![s] = @ + 1]
          /\ UNCHANGED <<cpuVars, ticks, state, taskVars, callVars, owner, cond,
                         signal, panicked, held, bypass>>
       \/ Waiters(s) = {} /\ count[s] = MAX_COUNT /\ panic

\* Mutant: a mutex that has an owner is taken.
take_mutex_owned(m) ==
    /\ owner[m] # current
    /\ owner' = [owner EXCEPT ![m] = current]
    /\ held' = [held EXCEPT ![current] = @ \cup {m}]
    /\ UNCHANGED <<cpuVars, ticks, state, taskVars, callVars, count, cond,
                   signal, panicked, balance, bypass>>

take_mutex(m) ==
    /\ owner[m] = NULL
    /\ owner' = [owner EXCEPT ![m] = current]
    /\ held' = [held EXCEPT ![current] = @ \cup {m}]
    /\ UNCHANGED <<cpuVars, ticks, state, taskVars, callVars, count, cond,
                   signal, panicked, balance, bypass>>

mutex_lock_timeout(m, ms) ==
    /\ can_call
    /\ \/ owner[m] = current /\ panic
       \/ take_mutex(m)
       \/ owner[m] \notin {NULL, current} /\ block_for("mutex", m, ms)

mutex_trylock(m) == can_call /\ take_mutex(m)

\* Mutant: the mutex is handed to any of its waiters.
mutex_unlock_any(m) ==
    /\ can_call
    /\ \/ owner[m] # current /\ panic
       \/ /\ owner[m] = current
          /\ held' = [held EXCEPT ![current] = @ \ {m}]
          /\ \/ \E t \in Slots : /\ t \in Waiters(m)
                                 /\ make_ready({t}, "OK")
                                 /\ state' = Readied({t})
                                 /\ owner' = [owner EXCEPT ![m] = t]
             \/ /\ Waiters(m) = {}
                /\ owner' = [owner EXCEPT ![m] = NULL]
                /\ UNCHANGED <<state, taskVars>>
          /\ UNCHANGED <<cpuVars, ticks, callVars, count, cond, signal,
                         panicked, balance, bypass>>

mutex_unlock(m) ==
    /\ can_call
    /\ \/ owner[m] # current /\ panic
       \/ /\ owner[m] = current
          /\ held' = [held EXCEPT ![current] = @ \ {m}]
          /\ \/ \E t \in Slots : /\ IsFirst(m, t)
                                 /\ make_ready({t}, "OK")
                                 /\ state' = Readied({t})
                                 /\ owner' = [owner EXCEPT ![m] = t]
             \/ /\ Waiters(m) = {}
                /\ owner' = [owner EXCEPT ![m] = NULL]
                /\ UNCHANGED <<state, taskVars>>
          /\ UNCHANGED <<cpuVars, ticks, callVars, count, cond, signal,
                         panicked, balance, bypass>>

\* A task switched back to inside block_current finishes its call.
resume_call ==
    /\ ~panicked
    /\ current # IDLE
    /\ LET c == call[current]
           ok == wake_result[current] = "OK"
       IN  \/ c.fn = "wait" /\ wait_loop(c.obj)
           \/ c.fn = "sleep" /\ return_from_call /\ UNCHANGED useVars
           \/ /\ c.fn = "sem"
              /\ return_from_call
              /\ balance' = [balance EXCEPT ![c.obj] = IF ok THEN @ - 1 ELSE @]
              /\ UNCHANGED held
           \/ /\ c.fn = "mutex"
              /\ return_from_call
              /\ held' = [held EXCEPT ![current] = IF ok THEN @ \cup {c.obj} ELSE @]
              /\ UNCHANGED balance

\* panic() never returns.
halted == panicked /\ UNCHANGED vars
-----------------------------------------------------------------------------
\* After scheduler_init and the init functions of the objects.
Init ==
    /\ current = 0
    /\ slot_count = 1
    /\ last_slot = 0
    /\ running_flag = FALSE
    /\ ticks = 0
    /\ state = [t \in Slots |-> IF t = 0 THEN "RUNNING" ELSE "UNUSED"]
    /\ queue = [t \in Slots |-> NULL]
    /\ ahead = [t \in Slots |-> {}]
    /\ deadline = [t \in Slots |-> 0]
    /\ has_deadline = [t \in Slots |-> FALSE]
    /\ wake_result = [t \in Slots |-> "OK"]
    /\ call = [t \in Slots |-> NoCall]
    /\ count \in [Sems -> 0..MAX_COUNT]
    /\ owner = [m \in Mutexes |-> NULL]
    /\ cond = [q \in Queues |-> FALSE]
    /\ signal = [q \in Queues |-> FALSE]
    /\ panicked = FALSE
    /\ held = [t \in Slots |-> {}]
    /\ balance = count
    /\ left = [t \in Slots |-> 0]
    /\ bypass = [t \in Slots |-> 0]

TaskStep ==
    \/ scheduler_start \/ task_create \/ task_exit \/ task_yield
    \/ \E ms \in TIMEOUTS : task_sleep(ms)

QueueStep(q) ==
    \/ \E ms \in TIMEOUTS \cup {WAIT_FOREVER} : wait_queue_wait_until(q, ms)
    \/ set_cond(q) \/ clear_cond(q)
    \/ wait_queue_wake_one(q) \/ wait_queue_wake_all(q)

SemStep(s) ==
    \/ \E ms \in TIMEOUTS \cup {WAIT_FOREVER} : sem_wait_timeout(s, ms)
    \/ sem_post(s)

MutexStep(m) ==
    \/ \E ms \in TIMEOUTS \cup {WAIT_FOREVER} : mutex_lock_timeout(m, ms)
    \/ mutex_trylock(m) \/ mutex_unlock(m)

Next ==
    \/ TaskStep
    \/ \E q \in Queues : QueueStep(q)
    \/ \E s \in Sems : SemStep(s)
    \/ \E m \in Mutexes : MutexStep(m)
    \/ resume_call
    \/ scheduler_tick
    \/ halted

Spec == Init /\ [][Next]_vars

\* kernel_main starts the scheduler.  The timer keeps firing, and a tick that
\* arrives with interrupts off is held by the interrupt controller until they
\* are on again (strong fairness).  A resumed call runs on.  Whoever set a flag,
\* an interrupt handler or a task that the scheduler runs again and again, goes
\* on to wake the queue.
Fairness ==
    /\ WF_vars(scheduler_start)
    /\ SF_vars(scheduler_tick)
    /\ WF_vars(resume_call)
    /\ \A q \in Queues : SF_vars(signal[q] /\ wait_queue_wake_all(q))

FairSpec == Spec /\ Fairness
-----------------------------------------------------------------------------
(* Properties.                                                             *)

\* Every variable of the scheduler keeps its type.
TypeOK ==
    /\ current \in Slots \cup {IDLE}
    /\ slot_count \in 1..MAX_TASKS
    /\ last_slot \in 0..(slot_count - 1)
    /\ running_flag \in BOOLEAN
    /\ ticks \in 0..(TICK_MOD - 1)
    /\ state \in [Slots -> States]
    /\ queue \in [Slots -> Objects \cup {NULL}]
    /\ ahead \in [Slots -> SUBSET Slots]
    /\ deadline \in [Slots -> 0..(TICK_MOD - 1)]
    /\ has_deadline \in [Slots -> BOOLEAN]
    /\ wake_result \in [Slots -> {"OK", "TIMEOUT"}]
    /\ call \in [Slots -> Calls]
    /\ count \in [Sems -> 0..MAX_COUNT]
    /\ owner \in [Mutexes -> Slots \cup {NULL}]
    /\ cond \in [Queues -> BOOLEAN]
    /\ signal \in [Queues -> BOOLEAN]
    /\ panicked \in BOOLEAN
    /\ held \in [Slots -> SUBSET Mutexes]
    /\ balance \in [Sems -> Int]
    /\ left \in [Slots -> Int]
    /\ bypass \in [Slots -> Nat]

\* The CPU runs exactly the task that is marked RUNNING; a task that is on the
\* CPU and not RUNNING is inside task_exit; unused slots are those never created.
OneRunning ==
    \A t \in Slots :
        /\ state[t] = "RUNNING" => t = current
        /\ t = current => state[t] \in {"RUNNING", "TERMINATED"}
        /\ state[t] = "UNUSED" <=> t >= slot_count

\* A task is linked into a wait queue exactly while it is blocked in a call on
\* that queue, a queue is in strict arrival order, and a task blocked on no
\* queue (task_sleep) has a deadline that will wake it.
QueuesCoherent ==
    \A t \in Slots :
        /\ state[t] = "BLOCKED" => queue[t] = call[t].obj /\ call[t].fn # "none"
        /\ state[t] # "BLOCKED" => queue[t] = NULL /\ ~has_deadline[t]
        /\ state[t] = "BLOCKED" => has_deadline[t] = call[t].timed
        /\ queue[t] = NULL => ahead[t] = {}
        /\ state[t] = "BLOCKED" /\ queue[t] = NULL => has_deadline[t]
        /\ \A u \in ahead[t] : queue[u] = queue[t] /\ ahead[u] \subseteq ahead[t] \ {u}
        /\ \A u \in Slots : queue[u] = queue[t] /\ queue[t] # NULL /\ u # t
                               => (u \in ahead[t] <=> t \notin ahead[u])

\* t was woken as the new owner of m, or with a token of s, and its call has
\* not returned yet.
Granted(t, obj) ==
    /\ call[t].obj = obj
    /\ call[t].fn \in {"sem", "mutex"}
    /\ state[t] # "BLOCKED"
    /\ wake_result[t] = "OK"

\* mutex_unlock's direct hand-off and timeouts never disagree: the owner of a
\* mutex is the one task whose lock call succeeded or is about to return
\* success, so no task whose lock timed out owns it and no two tasks hold it.
MutexOwnership ==
    /\ \A m \in Mutexes, t \in Slots :
          owner[m] = t <=> m \in held[t] \/ Granted(t, m)
    /\ \A m \in Mutexes : owner[m] = NULL => Waiters(m) = {}

\* sem_post never loses and never doubles a token: the tokens posted and not
\* yet returned to a caller are the count plus the waiters woken with one, and
\* nobody waits while the count is positive.
TokensConserved ==
    \A s \in Sems :
        /\ balance[s] = count[s] + Cardinality({t \in Slots : Granted(t, s)})
        /\ count[s] > 0 => Waiters(s) = {}

\* The comparison of wrapping tick counters in time_reached is exact: a timed
\* call's deadline counts as reached just when the time asked for has passed,
\* and no task stays blocked past its deadline.
DeadlinesExact ==
    \A t \in Slots :
        /\ call[t].fn = "wait" /\ call[t].timed
              => (time_reached(ticks, deadline[t]) <=> left[t] <= 0)
        /\ state[t] = "BLOCKED" /\ has_deadline[t] => left[t] > 0

\* schedule() is fair: it passes a READY task over for at most one turn of each
\* other slot.
BoundedBypass == \A t \in Slots : bypass[t] < slot_count

\* wait_queue_wait_until tests ready() and links the task under one irq_save:
\* nobody sleeps on a flag that is set unless its setter is still to wake it.
NoLostWakeup ==
    \A q \in Queues : cond[q] /\ Waiters(q) # {} => signal[q]

\* A mutex is handed over in arrival order: when somebody waits for it, its
\* next owner is the first waiter, never a task that came later.
FifoHandOff ==
    [][\A m \in Mutexes : owner'[m] # owner[m] /\ Waiters(m) # {}
          => \E t \in Slots : IsFirst(m, t) /\ owner'[m] = t]_vars

\* A task leaves a timed wait with WAIT_TIMEOUT only on the tick on which the
\* time it asked for runs out, not earlier.
NoEarlyTimeout ==
    [][\A t \in Slots :
          /\ state[t] = "BLOCKED"
          /\ state'[t] # "BLOCKED"
          /\ wake_result'[t] = "TIMEOUT"
          => left'[t] = 0]_vars

\* A call with a timeout returns, whatever the other tasks do.
TimedCallsReturn ==
    \A t \in Slots : call[t].timed ~> (call[t] = NoCall \/ panicked)

\* A waiter whose condition is set leaves its queue, even when it waits forever:
\* no wake-up is lost between the test of the condition and the sleep
\* (wait_queue_wait_until, wait_queue_wake_all).
WaitersSignalled ==
    \A t \in Slots, q \in Queues :
        (queue[t] = q /\ cond[q]) ~> (queue[t] = NULL \/ panicked)
=============================================================================
