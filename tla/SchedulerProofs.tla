-------------------------- MODULE SchedulerProofs ---------------------------
(***************************************************************************)
(* Proofs, for every number of tasks, queues, semaphores and mutexes and   *)
(* every width of the tick counter, of the safety properties of Scheduler: *)
(* first the part of the invariant about semaphores and mutexes, then the  *)
(* steps of tasks and of the timer, then the theorems.                     *)
(***************************************************************************)
EXTENDS SchedulerLemmas
-----------------------------------------------------------------------------
(* Semaphores and mutexes.                                                 *)

\* The waiters of an object are blocked in a call on it.
LEMMA WaitersBlocked ==
    ASSUME TypeOK, CoreInv, NEW q \in Objects
    PROVE  /\ Waiters(q) \in SUBSET Blocked
           /\ \A t \in Waiters(q) : call[t].obj = q
BY SMTT(60), SchedulerAssumption DEF Waiters, Blocked, CoreInv, QueuesCoherent, TypeOK

\* Who owns the mutexes and the tokens.
LockInv ==
    /\ MutexOwnership
    /\ NotHeld
    /\ TokensConserved

lockVars == <<count, owner, useVars>>

\* A step that grants and takes no token.
LEMMA TokensFrame ==
    ASSUME TokensConserved, UNCHANGED <<count, balance>>,
           \A t \in Slots, s \in Sems : Granted(t, s)' <=> Granted(t, s),
           \A s \in Sems : Waiters(s)' \subseteq Waiters(s)
    PROVE  TokensConserved'
<1> SUFFICES ASSUME NEW s \in Sems
             PROVE  /\ balance'[s] = count'[s] + Cardinality({t \in Slots : Granted(t, s)'})
                    /\ count'[s] > 0 => Waiters(s)' = {}
    BY Zenon DEF TokensConserved
<1>1. {t \in Slots : Granted(t, s)'} = {t \in Slots : Granted(t, s)}
    BY Zenon
<1> QED BY Zenon, <1>1 DEF TokensConserved

\* A step that neither grants nor takes a lock or a token, and after which no
\* lock or semaphore has new waiters.
LEMMA LockFrame ==
    ASSUME LockInv, UNCHANGED lockVars,
           \A t \in Slots, o \in Mutexes \cup Sems : Granted(t, o)' <=> Granted(t, o),
           \A o \in Mutexes \cup Sems : Waiters(o)' \subseteq Waiters(o),
           \A t \in Slots : call'[t].fn = "mutex" => call'[t] = call[t]
    PROVE  LockInv'
<1> USE DEF lockVars, useVars
<1>1. MutexOwnership'
    <2>1. \A m \in Mutexes, t \in Slots :
             owner'[m] = t <=> m \in held'[t] \/ Granted(t, m)'
        BY Zenon DEF LockInv, MutexOwnership
    <2>2. \A m \in Mutexes : owner'[m] = NULL => Waiters(m)' = {}
        BY Zenon DEF LockInv, MutexOwnership
    <2> QED BY Zenon, <2>1, <2>2 DEF MutexOwnership
<1>2. NotHeld'
    BY Zenon DEF LockInv, NotHeld
<1>3. TokensConserved'
    BY Zenon, TokensFrame DEF LockInv
<1> QED BY Zenon, <1>1, <1>2, <1>3 DEF LockInv

\* Waking tasks T that do not wait for a lock or a token, or waking them with
\* WAIT_TIMEOUT.
LEMMA LockWake ==
    ASSUME TypeOK, CoreInv, LockInv, NEW T \in SUBSET Blocked,
           NEW r \in {"OK", "TIMEOUT"}, make_ready(T, r),
           r = "TIMEOUT" \/ \A t \in T : call[t].obj \notin Mutexes \cup Sems,
           \A t \in Slots : state'[t] = "BLOCKED" <=> t \in Blocked \ T,
           call' = call, UNCHANGED lockVars
    PROVE  LockInv'
<1>1. \A t \in Slots : /\ queue'[t] = IF t \in T THEN NULL ELSE queue[t]
                       /\ wake_result'[t] = IF t \in T THEN r ELSE wake_result[t]
    BY Zenon DEF make_ready
<1>2. \A t \in Slots, o \in Mutexes \cup Sems : Granted(t, o)' <=> Granted(t, o)
    BY ZenonT(60), <1>1 DEF Granted, Blocked
<1>3. \A o \in Mutexes \cup Sems : Waiters(o)' \subseteq Waiters(o)
    BY Zenon, <1>1, SchedulerAssumption DEF Waiters, Objects
<1> QED BY Zenon, <1>2, <1>3, LockFrame

\* The running task blocks in a sleep or on a wait queue.
LEMMA LockBlock ==
    ASSUME TypeOK, CoreInv, LockInv, current \in Slots, state[current] = "RUNNING",
           NEW fn \in {"sleep", "wait"}, NEW q, NEW timed, NEW dl, NEW n,
           call[current].fn \in {"none", "wait"},
           BlockArgs(fn, q, timed, dl, n), block_current(fn, q, timed, dl, n)
    PROVE  LockInv'
<1>1. Scheduled(Blocked \cup {current})
    BY Zenon, BlockFacts DEF CoreInv, block_current
<1>2. \A t \in Slots : t # current =>
         /\ queue'[t] = queue[t] /\ call'[t] = call[t]
         /\ state'[t] = "BLOCKED" <=> state[t] = "BLOCKED"
    BY SMTT(30), <1>1 DEF block_current, Scheduled, Blocked, TypeOK
<1>3. /\ queue'[current] = q /\ state'[current] = "BLOCKED"
      /\ call'[current].fn = fn /\ wake_result' = wake_result /\ UNCHANGED lockVars
    BY Zenon, <1>1 DEF block_current, Scheduled, TypeOK, objVars, lockVars
<1>4. q \notin Mutexes \cup Sems
    BY Zenon, SchedulerAssumption DEF BlockArgs, Objects
<1>5. \A t \in Slots, o \in Mutexes \cup Sems : Granted(t, o)' <=> Granted(t, o)
    BY Zenon, <1>2, <1>3 DEF Granted
<1>6. \A o \in Mutexes \cup Sems : Waiters(o)' \subseteq Waiters(o)
    BY Zenon, <1>2, <1>3, <1>4 DEF Waiters
<1>7. \A t \in Slots : call'[t].fn = "mutex" => call'[t] = call[t]
    BY Zenon, <1>2, <1>3
<1> QED BY Zenon, <1>3, <1>5, <1>6, <1>7, LockFrame

\* A sleep or a wait returns.
LEMMA LockReturn ==
    ASSUME TypeOK, CoreInv, LockInv, current \in Slots, return_from_call,
           call[current].fn \in {"sleep", "wait"}, UNCHANGED useVars
    PROVE  LockInv'
<1>1. /\ UNCHANGED lockVars /\ state' = state /\ queue' = queue
      /\ wake_result' = wake_result
    BY Zenon DEF return_from_call, lockVars, objVars, taskVars
<1>2. \A t \in Slots : t # current => call'[t] = call[t]
    BY Zenon DEF return_from_call, TypeOK
<1>3. call'[current].fn = "none"
    BY Zenon DEF return_from_call, TypeOK, NoCall
<1>4. \A t \in Slots, o \in Mutexes \cup Sems : Granted(t, o)' <=> Granted(t, o)
    BY Zenon, <1>1, <1>2, <1>3 DEF Granted
<1>5. \A o \in Mutexes \cup Sems : Waiters(o)' \subseteq Waiters(o)
    BY Zenon, <1>1 DEF Waiters
<1>6. \A t \in Slots : call'[t].fn = "mutex" => call'[t] = call[t]
    BY Zenon, <1>2, <1>3
<1> QED BY Zenon, <1>1, <1>4, <1>5, <1>6, LockFrame

\* A step that leaves the calls, the queues and the BLOCKED tasks alone.
LEMMA LockSame ==
    ASSUME LockInv, UNCHANGED <<call, queue, wake_result>>, UNCHANGED lockVars,
           \A t \in Slots : state'[t] = "BLOCKED" <=> state[t] = "BLOCKED"
    PROVE  LockInv'
<1>1. \A t \in Slots, o \in Mutexes \cup Sems : Granted(t, o)' <=> Granted(t, o)
    BY Zenon DEF Granted
<1>2. \A o \in Mutexes \cup Sems : Waiters(o)' \subseteq Waiters(o)
    BY Zenon DEF Waiters
<1> QED BY Zenon, <1>1, <1>2, LockFrame

\* Creating, ending and switching tasks leaves the locks alone.
LEMMA LockTask ==
    ASSUME TypeOK, CoreInv, LockInv,
           scheduler_start \/ task_create \/ task_exit \/ task_yield
    PROVE  LockInv'
<1> USE DEF taskVars, callVars, objVars, lockVars
<1>1. CASE scheduler_start
    BY Zenon, <1>1, LockSame DEF scheduler_start
<1>2. CASE task_create
    <2>1. CASE panic
        BY Zenon, <2>1, LockSame DEF panic
    <2>2. CASE ~panic
        <3>1. slot_count \in Slots
            BY <1>2, SchedulerAssumption DEF task_create, TypeOK, Slots
        <3>2. state[slot_count] = "UNUSED"
            BY <3>1, SchedulerAssumption DEF CoreInv, OneRunning, TypeOK
        <3>3. \A t \in Slots : state'[t] = "BLOCKED" <=> state[t] = "BLOCKED"
            BY Zenon, <1>2, <2>2, <3>2 DEF task_create, TypeOK
        <3> QED BY Zenon, <1>2, <2>2, <3>3, LockSame DEF task_create
    <2> QED BY Zenon, <2>1, <2>2
<1>3. CASE task_exit
    <2>1. \A t \in Slots : state'[t] = "BLOCKED" <=> state[t] = "BLOCKED"
        BY SMTT(30), <1>3, CanCall DEF task_exit, TypeOK
    <2> QED BY Zenon, <1>3, <2>1, LockSame DEF task_exit
<1>4. CASE task_yield
    <2>1. \A t \in Slots : state'[t] = "BLOCKED" <=> state[t] = "BLOCKED"
        BY Zenon, <1>4, YieldFacts DEF task_yield, Scheduled, Blocked, CoreInv
    <2> QED BY Zenon, <1>4, <2>1, LockSame DEF task_yield
<1> QED BY Zenon, <1>1, <1>2, <1>3, <1>4

\* How many tasks a set of tasks has, and that one more or one less changes it
\* by one. SchedulerProofs proves it (Counting), from the library's facts about
\* finite sets; until then the lemmas about tokens assume it.
CountLaw ==
    /\ Cardinality({}) = 0
    /\ \A S \in SUBSET Slots, t \in Slots :
          /\ Cardinality(S) \in Nat
          /\ t \notin S => Cardinality(S \cup {t}) = Cardinality(S) + 1
          /\ t \in S => Cardinality(S \ {t}) = Cardinality(S) - 1

\* Taking a token at once, and posting one nobody waits for.
LEMMA LockCount ==
    ASSUME CountLaw, TypeOK, LockInv, NEW s \in Sems, NEW d \in {-1, 1},
           count' = [count EXCEPT ![s] = @ + d],
           balance' = [balance EXCEPT ![s] = @ + d],
           count[s] > 0 \/ Waiters(s) = {},
           UNCHANGED <<state, taskVars, call, owner, held>>
    PROVE  LockInv'
<1> USE DEF taskVars
<1>1. \A t \in Slots, o \in Mutexes \cup Sems : Granted(t, o)' <=> Granted(t, o)
    BY Zenon DEF Granted
<1>2. \A o \in Mutexes \cup Sems : Waiters(o)' = Waiters(o)
    BY Zenon DEF Waiters
<1>3. MutexOwnership' /\ NotHeld'
    BY Zenon, <1>1, <1>2 DEF LockInv, MutexOwnership, NotHeld
<1>4. TokensConserved'
    <2> SUFFICES ASSUME NEW z \in Sems
                 PROVE  /\ balance'[z] = count'[z] + Cardinality({t \in Slots : Granted(t, z)'})
                        /\ count'[z] > 0 => Waiters(z)' = {}
        BY Zenon DEF TokensConserved
    <2>1. {t \in Slots : Granted(t, z)'} = {t \in Slots : Granted(t, z)}
        BY Zenon, <1>1
    <2>2. /\ balance[z] = count[z] + Cardinality({t \in Slots : Granted(t, z)})
          /\ count[z] > 0 => Waiters(z) = {}
        BY Zenon DEF LockInv, TokensConserved
    <2>3. Cardinality({t \in Slots : Granted(t, z)}) \in Nat
        <3>1. 0 \in Slots /\ {t \in Slots : Granted(t, z)} \in SUBSET Slots
            BY SchedulerAssumption DEF Slots
        <3> QED BY Zenon, <3>1 DEF CountLaw
    <2>4. /\ count'[z] = IF z = s THEN count[z] + d ELSE count[z]
          /\ balance'[z] = IF z = s THEN balance[z] + d ELSE balance[z]
          /\ count[z] \in Nat /\ balance[z] \in Int
        BY SchedulerAssumption DEF TypeOK
    <2>5. balance'[z] = count'[z] + Cardinality({t \in Slots : Granted(t, z)'})
        <3>1. PICK n \in Nat : n = Cardinality({t \in Slots : Granted(t, z)})
            BY Zenon, <2>3
        <3>2. balance[z] = count[z] + n
            BY Zenon, <2>2, <3>1
        <3>3. balance'[z] = count'[z] + n
            BY <2>4, <3>2
        <3> QED BY Zenon, <2>1, <3>1, <3>3
    <2>6. count'[z] > 0 => Waiters(z)' = {}
        BY Zenon, <1>2, <2>2, <2>4
    <2> QED BY Zenon, <2>5, <2>6
<1> QED BY Zenon, <1>3, <1>4 DEF LockInv

\* The first waiter t of an object o is woken with WAIT_OK: exactly t is
\* granted exactly o.
LEMMA GrantOne ==
    ASSUME TypeOK, CoreInv, NEW o \in Sems \cup Mutexes, NEW t \in Slots,
           IsFirst(o, t), make_ready({t}, "OK"), state' = Readied({t}), call' = call
    PROVE  /\ {t} \in SUBSET Blocked
           /\ call[t].obj = o
           /\ o \in Mutexes => call[t].fn = "mutex"
           /\ \A u \in Slots, x \in Mutexes \cup Sems :
                 Granted(u, x)' <=> Granted(u, x) \/ (u = t /\ x = o)
           /\ ~Granted(t, o)
           /\ \A x \in Mutexes \cup Sems : Waiters(x)' \subseteq Waiters(x)
<1>1. /\ t \in Blocked /\ state[t] = "BLOCKED" /\ call[t].obj = o
      /\ call[t].fn # "none"
    BY WaitersBlocked, SchedulerAssumption
       DEF IsFirst, Objects, Blocked, CoreInv, QueuesCoherent, Waiters
<1>2. o # NULL /\ o \notin Queues
    BY Zenon, SchedulerAssumption DEF Objects
<1>3. call[t].fn \in {"sem", "mutex"} /\ (o \in Mutexes => call[t].fn = "mutex")
    BY Zenon, <1>1, <1>2, SchedulerAssumption DEF CoreInv, CallsShaped, TypeOK, Calls, Objects
<1>4. /\ \A u \in Slots : wake_result'[u] = IF u = t THEN "OK" ELSE wake_result[u]
      /\ \A u \in Slots : queue'[u] = IF u = t THEN NULL ELSE queue[u]
      /\ \A u \in Slots : state'[u] = IF u = t THEN "READY" ELSE state[u]
    BY Zenon DEF make_ready, Readied
<1>5. \A u \in Slots, x \in Mutexes \cup Sems :
         Granted(u, x)' <=> Granted(u, x) \/ (u = t /\ x = o)
    BY Zenon, <1>1, <1>3, <1>4 DEF Granted
<1>6. \A x \in Mutexes \cup Sems : Waiters(x)' \subseteq Waiters(x)
    BY Zenon, <1>4, SchedulerAssumption DEF Waiters, Objects
<1> QED BY Zenon, <1>1, <1>3, <1>5, <1>6 DEF Granted

\* sem_post wakes a waiter: one more token is on its way.
LEMMA LockPost ==
    ASSUME CountLaw, TypeOK, CoreInv, LockInv, NEW s \in Sems, NEW t \in Slots, IsFirst(s, t),
           make_ready({t}, "OK"), state' = Readied({t}), call' = call,
           balance' = [balance EXCEPT ![s] = @ + 1], UNCHANGED <<count, owner, held>>
    PROVE  LockInv'
<1>1. /\ \A u \in Slots, x \in Mutexes \cup Sems :
            Granted(u, x)' <=> Granted(u, x) \/ (u = t /\ x = s)
      /\ ~Granted(t, s)
      /\ \A x \in Mutexes \cup Sems : Waiters(x)' \subseteq Waiters(x)
    BY Zenon, GrantOne
<1>2. \A m \in Mutexes : m # s
    BY Zenon, SchedulerAssumption
<1>3. MutexOwnership'
    BY Zenon, <1>1, <1>2 DEF LockInv, MutexOwnership
<1>4. NotHeld'
    BY Zenon DEF LockInv, NotHeld
<1>5. TokensConserved'
    <2> SUFFICES ASSUME NEW z \in Sems
                 PROVE  /\ balance'[z] = count[z] + Cardinality({u \in Slots : Granted(u, z)'})
                        /\ count[z] > 0 => Waiters(z)' = {}
        BY Zenon DEF TokensConserved
    <2> DEFINE G == {u \in Slots : Granted(u, z)}
    <2>1. balance[z] = count[z] + Cardinality(G) /\ (count[z] > 0 => Waiters(z) = {})
        BY Zenon DEF LockInv, TokensConserved
    <2>2. G \in SUBSET Slots
        BY Zenon
    <2>3. {u \in Slots : Granted(u, z)'} = IF z = s THEN G \cup {t} ELSE G
        BY Zenon, <1>1
    <2>4. t \notin G \/ z # s
        BY Zenon, <1>1
    <2> HIDE DEF G
    <2>5. /\ Cardinality(G) \in Nat
          /\ t \notin G => Cardinality(G \cup {t}) = Cardinality(G) + 1
        BY Zenon, <2>2 DEF CountLaw
    <2>6. /\ balance'[z] = IF z = s THEN balance[z] + 1 ELSE balance[z]
          /\ count[z] \in Nat
        BY SchedulerAssumption DEF TypeOK
    <2>7. balance'[z] = count[z] + Cardinality({u \in Slots : Granted(u, z)'})
        <3>1. CASE z = s
            <4>1. Cardinality({u \in Slots : Granted(u, z)'}) = Cardinality(G) + 1
                BY Zenon, <2>3, <2>4, <2>5, <3>1
            <4> QED BY <2>1, <2>5, <2>6, <3>1, <4>1
        <3>2. CASE z # s
            BY Zenon, <2>1, <2>3, <2>6, <3>2
        <3> QED BY Zenon, <3>1, <3>2
    <2> QED BY Zenon, <1>1, <2>1, <2>7
<1> QED BY Zenon, <1>3, <1>4, <1>5 DEF LockInv

\* A call of sem_wait_timeout or mutex_lock_timeout that blocked returns: what
\* was granted to it is granted no longer.
LEMMA GrantReturn ==
    ASSUME TypeOK, CoreInv, current \in Slots, state[current] = "RUNNING",
           return_from_call, call[current].fn \in {"sem", "mutex"}
    PROVE  /\ \A u \in Slots, x \in Mutexes \cup Sems :
                 Granted(u, x)' <=> Granted(u, x) /\ u # current
           /\ \A x : Granted(current, x)
                 <=> x = call[current].obj /\ wake_result[current] = "OK"
           /\ \A x : Waiters(x)' = Waiters(x)
           /\ \A t \in Slots : call'[t].fn = "mutex" => call'[t] = call[t] /\ t # current
           /\ UNCHANGED <<count, owner, cond, signal>>
<1>1. /\ UNCHANGED <<count, owner, cond, signal>> /\ state' = state /\ queue' = queue
      /\ wake_result' = wake_result
    BY Zenon DEF return_from_call, objVars, taskVars
<1>2. \A t \in Slots : t # current => call'[t] = call[t]
    BY Zenon DEF return_from_call, TypeOK
<1>3. call'[current].fn = "none"
    BY Zenon DEF return_from_call, TypeOK, NoCall
<1>4. \A u \in Slots, x \in Mutexes \cup Sems :
         Granted(u, x)' <=> Granted(u, x) /\ u # current
    BY Zenon, <1>1, <1>2, <1>3 DEF Granted
<1>5. \A x : Granted(current, x)
         <=> x = call[current].obj /\ wake_result[current] = "OK"
    BY Zenon DEF Granted
<1> QED BY Zenon, <1>1, <1>2, <1>3, <1>4, <1>5 DEF Waiters

\* The token of a woken waiter reaches its caller.
LEMMA LockSemReturn ==
    ASSUME CountLaw, TypeOK, CoreInv, LockInv, current \in Slots, state[current] = "RUNNING",
           call[current].fn = "sem", return_from_call,
           balance' = [balance EXCEPT ![call[current].obj] =
                          IF wake_result[current] = "OK" THEN @ - 1 ELSE @],
           held' = held
    PROVE  LockInv'
<1> DEFINE s == call[current].obj
<1>1. s \in Sems
    BY Zenon DEF CoreInv, CallsShaped
<1> HIDE DEF s
<1>2. /\ \A u \in Slots, x \in Mutexes \cup Sems :
            Granted(u, x)' <=> Granted(u, x) /\ u # current
      /\ \A x : Granted(current, x) <=> x = s /\ wake_result[current] = "OK"
      /\ \A x : Waiters(x)' = Waiters(x)
      /\ \A t \in Slots : call'[t].fn = "mutex" => call'[t] = call[t] /\ t # current
      /\ UNCHANGED <<count, owner>>
    BY Zenon, GrantReturn DEF s
<1>3. MutexOwnership'
    <2>1. \A u \in Slots, m \in Mutexes : Granted(u, m)' <=> Granted(u, m)
        BY <1>1, <1>2, SchedulerAssumption
    <2> QED BY Zenon, <1>2, <2>1 DEF LockInv, MutexOwnership
<1>4. NotHeld'
    BY Zenon, <1>2 DEF LockInv, NotHeld
<1>5. TokensConserved'
    <2> SUFFICES ASSUME NEW z \in Sems
                 PROVE  /\ balance'[z] = count[z] + Cardinality({u \in Slots : Granted(u, z)'})
                        /\ count[z] > 0 => Waiters(z)' = {}
        BY Zenon, <1>2 DEF TokensConserved
    <2> DEFINE G == {u \in Slots : Granted(u, z)}
    <2>1. balance[z] = count[z] + Cardinality(G) /\ (count[z] > 0 => Waiters(z) = {})
        BY Zenon DEF LockInv, TokensConserved
    <2>2. G \in SUBSET Slots /\ (current \in G <=> z = s /\ wake_result[current] = "OK")
        BY Zenon, <1>2
    <2>3. {u \in Slots : Granted(u, z)'} = G \ {current}
        BY Zenon, <1>2
    <2> HIDE DEF G
    <2>4. /\ Cardinality(G) \in Nat
          /\ current \in G => Cardinality(G \ {current}) = Cardinality(G) - 1
          /\ current \notin G => G \ {current} = G
        BY Zenon, <2>2 DEF CountLaw
    <2>5. balance'[z] = IF current \in G THEN balance[z] - 1 ELSE balance[z]
        BY Zenon, <1>1, <2>2 DEF TypeOK, s
    <2>6. count[z] \in Nat
        BY SchedulerAssumption DEF TypeOK
    <2>7. CASE current \in G
        <3>1. Cardinality({u \in Slots : Granted(u, z)'}) = Cardinality(G) - 1
            BY Zenon, <2>3, <2>4, <2>7
        <3> QED BY <1>2, <2>1, <2>4, <2>5, <2>6, <2>7, <3>1
    <2>8. CASE current \notin G
        BY Zenon, <1>2, <2>1, <2>3, <2>4, <2>5, <2>8
    <2> QED BY Zenon, <2>7, <2>8
<1> QED BY Zenon, <1>3, <1>4, <1>5 DEF LockInv

\* Taking a free mutex.
LEMMA LockTake ==
    ASSUME TypeOK, CoreInv, LockInv, can_call, NEW m \in Mutexes, take_mutex(m)
    PROVE  LockInv'
<1> USE DEF taskVars, callVars
<1>1. current \in Slots /\ call[current] = NoCall
    BY Zenon, CanCall
<1>2. /\ owner[m] = NULL /\ NULL \notin Slots
      /\ \A x \in Mutexes : owner'[x] = IF x = m THEN current ELSE owner[x]
      /\ \A t \in Slots : held'[t] = IF t = current THEN held[t] \cup {m} ELSE held[t]
      /\ UNCHANGED <<count, balance, call, queue, wake_result, state>>
    BY Zenon, <1>1, SchedulerAssumption DEF take_mutex, TypeOK
<1>3. /\ \A u \in Slots, x \in Mutexes \cup Sems : Granted(u, x)' <=> Granted(u, x)
      /\ \A x : Waiters(x)' = Waiters(x)
    BY Zenon, <1>2 DEF Granted, Waiters
<1>4. \A t \in Slots : m \notin held[t] /\ ~Granted(t, m)
    BY Zenon, <1>2 DEF LockInv, MutexOwnership
<1>5. MutexOwnership'
    <2>1. \A x \in Mutexes, u \in Slots :
             owner'[x] = u <=> x \in held'[u] \/ Granted(u, x)'
        <3> SUFFICES ASSUME NEW x \in Mutexes, NEW u \in Slots
                     PROVE  owner'[x] = u <=> x \in held'[u] \/ Granted(u, x)'
            BY Zenon
        <3>1. CASE x = m
            <4>1. owner'[x] = u <=> u = current
                BY Zenon, <1>2, <3>1
            <4>2. x \in held'[u] <=> u = current
                BY Zenon, <1>2, <1>4, <3>1
            <4>3. ~Granted(u, x)'
                BY Zenon, <1>3, <1>4, <3>1
            <4> QED BY Zenon, <4>1, <4>2, <4>3
        <3>2. CASE x # m
            <4>1. owner[x] = u <=> x \in held[u] \/ Granted(u, x)
                BY Zenon DEF LockInv, MutexOwnership
            <4>2. x \in held'[u] <=> x \in held[u]
                BY Zenon, <1>2, <3>2
            <4> QED BY Zenon, <1>2, <1>3, <3>2, <4>1, <4>2
        <3> QED BY Zenon, <3>1, <3>2
    <2>2. \A x \in Mutexes : owner'[x] = NULL => Waiters(x)' = {}
        BY Zenon, <1>1, <1>2, <1>3 DEF LockInv, MutexOwnership
    <2> QED BY Zenon, <2>1, <2>2 DEF MutexOwnership
<1>6. NotHeld'
    <2>1. call[current].fn = "none"
        BY <1>1 DEF NoCall
    <2>2. \A t \in Slots : call[t].fn = "mutex" => held'[t] = held[t]
        BY ZenonT(60), <1>2, <2>1
    <2> QED BY Zenon, <1>2, <2>2 DEF LockInv, NotHeld
<1>7. TokensConserved'
    <2>1. /\ \A t \in Slots, s \in Sems : Granted(t, s)' <=> Granted(t, s)
          /\ \A s \in Sems : Waiters(s)' \subseteq Waiters(s)
        BY Zenon, <1>3
    <2> QED BY Zenon, <1>2, <2>1, TokensFrame DEF LockInv
<1> QED BY Zenon, <1>5, <1>6, <1>7 DEF LockInv

\* mutex_unlock hands the mutex to the first waiter.
LEMMA LockHandOff ==
    ASSUME TypeOK, CoreInv, LockInv, current \in Slots, NEW m \in Mutexes,
           owner[m] = current, call[current] = NoCall, NEW t \in Slots, IsFirst(m, t),
           make_ready({t}, "OK"), state' = Readied({t}), call' = call,
           owner' = [owner EXCEPT ![m] = t],
           held' = [held EXCEPT ![current] = @ \ {m}],
           UNCHANGED <<count, balance>>
    PROVE  LockInv'
<1>1. /\ \A u \in Slots, x \in Mutexes \cup Sems :
            Granted(u, x)' <=> Granted(u, x) \/ (u = t /\ x = m)
      /\ ~Granted(t, m) /\ call[t].obj = m /\ call[t].fn = "mutex"
      /\ \A x \in Mutexes \cup Sems : Waiters(x)' \subseteq Waiters(x)
    <2>1. m \in Sems \cup Mutexes
        BY Zenon
    <2> QED BY ZenonT(60), <2>1, GrantOne
<1>2. /\ \A x \in Mutexes : owner'[x] = IF x = m THEN t ELSE owner[x]
      /\ \A u \in Slots : held'[u] = IF u = current THEN held[u] \ {m} ELSE held[u]
    BY Zenon DEF TypeOK
<1>3. \A u \in Slots : u # current => m \notin held[u] /\ ~Granted(u, m)
    BY Zenon DEF LockInv, MutexOwnership
<1>4. ~Granted(current, m)
    BY DEF Granted, NoCall
<1>5. MutexOwnership'
    <2>1. \A x \in Mutexes, u \in Slots :
             owner'[x] = u <=> x \in held'[u] \/ Granted(u, x)'
        <3> SUFFICES ASSUME NEW x \in Mutexes, NEW u \in Slots
                     PROVE  owner'[x] = u <=> x \in held'[u] \/ Granted(u, x)'
            BY Zenon
        <3>1. CASE x = m
            BY SMTT(30), <1>1, <1>2, <1>3, <1>4, <3>1
        <3>2. CASE x # m
            BY SMTT(30), <1>1, <1>2, <3>2 DEF LockInv, MutexOwnership
        <3> QED BY Zenon, <3>1, <3>2
    <2>2. \A x \in Mutexes : owner'[x] = NULL => Waiters(x)' = {}
        BY <1>1, <1>2, SchedulerAssumption DEF LockInv, MutexOwnership
    <2> QED BY Zenon, <2>1, <2>2 DEF MutexOwnership
<1>6. NotHeld'
    BY <1>2 DEF LockInv, NotHeld
<1>7. TokensConserved'
    <2>1. /\ \A u \in Slots, s \in Sems : Granted(u, s)' <=> Granted(u, s)
          /\ \A s \in Sems : Waiters(s)' \subseteq Waiters(s)
        BY <1>1, SchedulerAssumption
    <2> QED BY Zenon, <2>1, TokensFrame DEF LockInv
<1> QED BY Zenon, <1>5, <1>6, <1>7 DEF LockInv

\* mutex_unlock with no waiter frees the mutex.
LEMMA LockRelease ==
    ASSUME TypeOK, CoreInv, LockInv, current \in Slots, NEW m \in Mutexes,
           owner[m] = current, call[current] = NoCall, Waiters(m) = {},
           owner' = [owner EXCEPT ![m] = NULL],
           held' = [held EXCEPT ![current] = @ \ {m}],
           UNCHANGED <<count, balance, state, queue, call, wake_result>>
    PROVE  LockInv'
<1>1. /\ \A u \in Slots, x \in Mutexes \cup Sems : Granted(u, x)' <=> Granted(u, x)
      /\ \A x : Waiters(x)' = Waiters(x)
    BY Zenon DEF Granted, Waiters
<1>2. /\ \A x \in Mutexes : owner'[x] = IF x = m THEN NULL ELSE owner[x]
      /\ \A u \in Slots : held'[u] = IF u = current THEN held[u] \ {m} ELSE held[u]
    BY Zenon DEF TypeOK
<1>3. \A u \in Slots : u # current => m \notin held[u] /\ ~Granted(u, m)
    BY Zenon DEF LockInv, MutexOwnership
<1>4. ~Granted(current, m)
    BY DEF Granted, NoCall
<1>5. MutexOwnership'
    <2>1. \A x \in Mutexes, u \in Slots :
             owner'[x] = u <=> x \in held'[u] \/ Granted(u, x)'
        <3> SUFFICES ASSUME NEW x \in Mutexes, NEW u \in Slots
                     PROVE  owner'[x] = u <=> x \in held'[u] \/ Granted(u, x)'
            BY Zenon
        <3>1. CASE x = m
            BY SMTT(30), <1>1, <1>2, <1>3, <1>4, <3>1, SchedulerAssumption
        <3>2. CASE x # m
            BY <1>1, <1>2, <3>2 DEF LockInv, MutexOwnership
        <3> QED BY Zenon, <3>1, <3>2
    <2>2. \A x \in Mutexes : owner'[x] = NULL => Waiters(x)' = {}
        BY Zenon, <1>1, <1>2 DEF LockInv, MutexOwnership
    <2> QED BY Zenon, <2>1, <2>2 DEF MutexOwnership
<1>6. NotHeld'
    BY <1>2 DEF LockInv, NotHeld
<1>7. TokensConserved'
    <2>1. /\ \A u \in Slots, s \in Sems : Granted(u, s)' <=> Granted(u, s)
          /\ \A s \in Sems : Waiters(s)' \subseteq Waiters(s)
        BY Zenon, <1>1
    <2> QED BY Zenon, <2>1, TokensFrame DEF LockInv
<1> QED BY Zenon, <1>5, <1>6, <1>7 DEF LockInv

\* The mutex handed to a waiter reaches its caller.
LEMMA LockMutexReturn ==
    ASSUME TypeOK, CoreInv, LockInv, current \in Slots, state[current] = "RUNNING",
           call[current].fn = "mutex", return_from_call,
           held' = [held EXCEPT ![current] =
                       IF wake_result[current] = "OK" THEN @ \cup {call[current].obj}
                       ELSE @],
           balance' = balance
    PROVE  LockInv'
<1> DEFINE m == call[current].obj
<1>1. m \in Mutexes
    BY Zenon DEF CoreInv, CallsShaped
<1>2. \A u \in Slots : held'[u] = IF u = current /\ wake_result[current] = "OK"
                                  THEN held[u] \cup {m} ELSE held[u]
    BY Zenon DEF TypeOK
<1> HIDE DEF m
<1>3. /\ \A u \in Slots, x \in Mutexes \cup Sems :
            Granted(u, x)' <=> Granted(u, x) /\ u # current
      /\ \A x : Granted(current, x) <=> x = m /\ wake_result[current] = "OK"
      /\ \A x : Waiters(x)' = Waiters(x)
      /\ \A t \in Slots : call'[t].fn = "mutex" => call'[t] = call[t] /\ t # current
      /\ UNCHANGED <<count, owner>>
    BY SMTT(30), GrantReturn DEF m
<1>4. MutexOwnership'
    <2>1. \A x \in Mutexes, u \in Slots :
             x \in held'[u] \/ Granted(u, x)' <=> x \in held[u] \/ Granted(u, x)
        <3> SUFFICES ASSUME NEW x \in Mutexes, NEW u \in Slots
                     PROVE  x \in held'[u] \/ Granted(u, x)'
                               <=> x \in held[u] \/ Granted(u, x)
            BY Zenon
        <3>1. CASE u = current
            <4>1. x \in held'[u] <=> x \in held[u] \/ Granted(u, x)
                <5>1. CASE wake_result[current] = "OK"
                    <6>1. held'[u] = held[u] \cup {m}
                        BY Zenon, <1>2, <3>1, <5>1
                    <6>2. Granted(u, x) <=> x = m
                        BY SMTT(30), <1>3, <3>1, <5>1
                    <6> QED BY Zenon, <6>1, <6>2
                <5>2. CASE wake_result[current] # "OK"
                    BY Zenon, <1>2, <1>3, <3>1, <5>2
                <5> QED BY Zenon, <5>1, <5>2
            <4>2. ~Granted(u, x)'
                BY Zenon, <1>3, <3>1
            <4> QED BY Zenon, <4>1, <4>2
        <3>2. CASE u # current
            BY SMTT(30), <1>2, <1>3, <3>2
        <3> QED BY Zenon, <3>1, <3>2
    <2> QED BY ZenonT(60), <1>3, <2>1 DEF LockInv, MutexOwnership
<1>5. NotHeld'
    BY SMTT(30), <1>2, <1>3 DEF LockInv, NotHeld
<1>6. TokensConserved'
    <2>1. /\ \A u \in Slots, s \in Sems : Granted(u, s)' <=> Granted(u, s)
          /\ \A s \in Sems : Waiters(s)' \subseteq Waiters(s)
        BY Zenon, <1>1, <1>3, SchedulerAssumption
    <2> QED BY SMTT(30), <1>3, <2>1, TokensFrame DEF LockInv
<1> QED BY Zenon, <1>4, <1>5, <1>6 DEF LockInv

\* A task blocks on an empty semaphore or on another task's mutex.
LEMMA LockBlockOn ==
    ASSUME TypeOK, CoreInv, LockInv, current \in Slots, state[current] = "RUNNING",
           call[current] = NoCall,
           NEW fn \in {"sem", "mutex"}, NEW q, NEW timed, NEW dl, NEW n,
           BlockArgs(fn, q, timed, dl, n), block_current(fn, q, timed, dl, n),
           fn = "sem" => count[q] = 0,
           fn = "mutex" => owner[q] \notin {NULL, current}
    PROVE  LockInv'
<1>1. Scheduled(Blocked \cup {current})
    BY Zenon, BlockFacts DEF CoreInv, block_current
<1>2. \A t \in Slots : t # current =>
         /\ queue'[t] = queue[t] /\ call'[t] = call[t]
         /\ state'[t] = "BLOCKED" <=> state[t] = "BLOCKED"
    BY ZenonT(60), <1>1 DEF block_current, Scheduled, Blocked, TypeOK
<1>3. /\ queue'[current] = q /\ state'[current] = "BLOCKED"
      /\ call'[current].fn = fn /\ call'[current].obj = q
      /\ wake_result' = wake_result /\ UNCHANGED lockVars
    BY SMTT(30), <1>1 DEF block_current, Scheduled, TypeOK, objVars, lockVars
<1>4. \A t \in Slots, o \in Mutexes \cup Sems : Granted(t, o)' <=> Granted(t, o)
    <2> SUFFICES ASSUME NEW t \in Slots, NEW o \in Mutexes \cup Sems
                 PROVE  Granted(t, o)' <=> Granted(t, o)
        BY Zenon
    <2>1. CASE t = current
        BY <1>3, <2>1 DEF Granted, NoCall
    <2>2. CASE t # current
        BY Zenon, <1>2, <1>3, <2>2 DEF Granted
    <2> QED BY Zenon, <2>1, <2>2
<1>5. \A o \in Mutexes \cup Sems : o # q => Waiters(o)' \subseteq Waiters(o)
    BY Zenon, <1>2, <1>3 DEF Waiters
<1>6. MutexOwnership'
    <2>1. \A x \in Mutexes : owner[x] = NULL => x # q
        BY Zenon, SchedulerAssumption DEF BlockArgs
    <2> QED BY Zenon, <1>3, <1>4, <1>5, <2>1 DEF LockInv, MutexOwnership, lockVars, useVars
<1>7. NotHeld'
    <2>1. fn = "mutex" => q \notin held[current]
        BY Zenon DEF LockInv, MutexOwnership, BlockArgs
    <2> QED BY Zenon, <1>2, <1>3, <2>1 DEF LockInv, NotHeld, lockVars, useVars
<1>8. TokensConserved'
    <2> SUFFICES ASSUME NEW z \in Sems
                 PROVE  /\ balance[z] = count[z] + Cardinality({u \in Slots : Granted(u, z)'})
                        /\ count[z] > 0 => Waiters(z)' = {}
        BY Zenon, <1>3 DEF TokensConserved, lockVars, useVars
    <2>1. {u \in Slots : Granted(u, z)'} = {u \in Slots : Granted(u, z)}
        BY Zenon, <1>4
    <2>2. count[z] > 0 => z # q
        BY SchedulerAssumption DEF BlockArgs
    <2> QED BY SMTT(30), <1>5, <2>1, <2>2 DEF LockInv, TokensConserved
<1> QED BY SMTT(30), <1>6, <1>7, <1>8 DEF LockInv
-----------------------------------------------------------------------------
(* All of the invariant, action by action.                                 *)

\* The parts of the invariant, treated one by one up to here.
LEMMA Parts ==
    /\ IInv <=> CoreInv /\ ObjType /\ LockInv /\ NoLostWakeup
    /\ IInv' <=> CoreInv' /\ ObjType' /\ LockInv' /\ NoLostWakeup'
    /\ IInv => TypeOK
<1>1. TypeOK <=> CoreType /\ ObjType
    BY Zenon DEF TypeOK, CoreType, ObjType
<1>2. TypeOK' <=> CoreType' /\ ObjType'
    BY Zenon DEF TypeOK, CoreType, ObjType
<1> QED BY Zenon, <1>1, <1>2 DEF IInv, CoreInv, LockInv

\* A step that changes no flag and adds no waiter loses no wake-up.
LEMMA WakeFrame ==
    ASSUME NoLostWakeup, UNCHANGED <<cond, signal>>,
           \A q \in Queues : Waiters(q)' \subseteq Waiters(q)
    PROVE  NoLostWakeup'
BY Zenon DEF NoLostWakeup

\* The types of the objects, the locks and the flags are kept by a step that
\* does not touch them.
LEMMA QuietInv ==
    ASSUME IInv, UNCHANGED <<coreVars, objVars, useVars>>, panicked' \in BOOLEAN
    PROVE  IInv'
<1>1. CoreInv'
    BY Zenon, Parts, CoreQuiet
<1>2. ObjType'
    BY Zenon, Parts DEF ObjType, objVars, useVars
<1>3. LockInv'
    BY Zenon, Parts, LockSame DEF coreVars, objVars, taskVars, callVars, lockVars
<1>4. NoLostWakeup'
    BY Zenon, Parts DEF NoLostWakeup, Waiters, coreVars, taskVars, objVars
<1> QED BY Zenon, <1>1, <1>2, <1>3, <1>4, Parts

\* panic() changes nothing that the invariant is about, nor does a call that
\* returns at once.
LEMMA PanicInv ==
    ASSUME IInv, panic \/ UNCHANGED vars
    PROVE  IInv'
<1>1. UNCHANGED <<coreVars, objVars, useVars>>
    BY Zenon DEF panic, vars, coreVars
<1>2. panicked' \in BOOLEAN
    BY Zenon, Parts DEF panic, vars, TypeOK
<1> QED BY Zenon, <1>1, <1>2, QuietInv

\* scheduler_start, task_create, task_exit and task_yield.
LEMMA TaskInv ==
    ASSUME IInv, scheduler_start \/ task_create \/ task_exit \/ task_yield
    PROVE  IInv'
<1>1. CASE panic
    BY Zenon, <1>1, PanicInv
<1>2. CASE ~panic
    <2>1. CoreInv' /\ LockInv'
        BY Zenon, Parts, CoreTask, LockTask
    <2>2. UNCHANGED <<objVars, useVars, panicked, queue>>
        BY Zenon, <1>2 DEF scheduler_start, task_create, task_exit, task_yield, taskVars
    <2>3. ObjType'
        BY Zenon, <2>2, Parts DEF ObjType, objVars, useVars
    <2>4. NoLostWakeup'
        BY Zenon, <2>2, Parts DEF NoLostWakeup, Waiters, objVars
    <2> QED BY Zenon, <2>1, <2>3, <2>4, Parts
<1> QED BY Zenon, <1>1, <1>2

\* A task blocks: on a flag that is not set, on an empty semaphore, on another
\* task's mutex, or asleep.
LEMMA BlockInv ==
    ASSUME IInv, current \in Slots, state[current] = "RUNNING",
           NEW fn, NEW q, NEW timed, NEW dl, NEW n,
           BlockArgs(fn, q, timed, dl, n), block_current(fn, q, timed, dl, n),
           call[current] = NoCall \/ (fn = "wait" /\ call[current].fn = "wait"),
           fn = "wait" => ~cond[q],
           fn = "sem" => count[q] = 0,
           fn = "mutex" => owner[q] \notin {NULL, current}
    PROVE  IInv'
<1>1. CoreInv'
    BY Zenon, Parts, CoreBlock
<1>2. UNCHANGED <<objVars, useVars, panicked>>
    BY Zenon DEF block_current
<1>3. ObjType'
    BY Zenon, <1>2, Parts DEF ObjType, objVars, useVars
<1>4. LockInv'
    <2>1. CASE fn \in {"sleep", "wait"}
        <3>1. call[current].fn \in {"none", "wait"}
            BY <2>1 DEF NoCall
        <3> QED BY <2>1, <3>1, Parts, LockBlock
    <2>2. CASE fn \in {"sem", "mutex"}
        BY Zenon, <2>2, Parts, LockBlockOn
    <2> QED BY Zenon, <2>1, <2>2 DEF BlockArgs
<1>5. NoLostWakeup'
    <2>1. \A x \in Queues : x # q => Waiters(x)' \subseteq Waiters(x)
        BY Zenon, Parts DEF block_current, Waiters, TypeOK
    <2>2. q \in Queues => ~cond[q]
        BY Zenon, SchedulerAssumption DEF BlockArgs, Objects
    <2> QED BY Zenon, <1>2, <2>1, <2>2, Parts DEF NoLostWakeup, objVars
<1> QED BY Zenon, <1>1, <1>3, <1>4, <1>5, Parts

\* A first call of block_current, whatever its timeout.
LEMMA BlockForInv ==
    ASSUME IInv, can_call, NEW fn \in {"sleep", "wait", "sem", "mutex"}, NEW q,
           NEW ms \in TIMEOUTS \cup {WAIT_FOREVER}, block_for(fn, q, ms),
           fn = "sleep" => q = NULL /\ ms # WAIT_FOREVER,
           fn = "wait" => q \in Queues /\ ~cond[q],
           fn = "sem" => q \in Sems /\ count[q] = 0,
           fn = "mutex" => q \in Mutexes /\ owner[q] \notin {NULL, current}
    PROVE  IInv'
<1>1. current \in Slots /\ state[current] = "RUNNING" /\ call[current] = NoCall
    BY Zenon, Parts, CanCall
<1>2. \/ panic
      \/ UNCHANGED vars
      \/ \E timed, dl, n : /\ BlockArgs(fn, q, timed, dl, n)
                           /\ block_current(fn, q, timed, dl, n)
    BY Zenon, Parts, BlockForCases
<1>3. CASE panic \/ UNCHANGED vars
    BY Zenon, <1>3, PanicInv
<1>4. CASE \E timed, dl, n : /\ BlockArgs(fn, q, timed, dl, n)
                             /\ block_current(fn, q, timed, dl, n)
    BY Zenon, <1>1, <1>4, BlockInv
<1> QED BY Zenon, <1>2, <1>3, <1>4

\* The timer.
LEMMA TickInv ==
    ASSUME IInv, scheduler_tick
    PROVE  IInv'
<1> DEFINE E == Expired(ticks')
<1>1. CoreInv'
    BY Zenon, Parts, CoreTick
<1>2. UNCHANGED <<objVars, useVars, panicked>> /\ call' = call
    BY Zenon DEF scheduler_tick
<1>3. ObjType'
    BY Zenon, <1>2, Parts DEF ObjType, objVars, useVars
<1>4. E \in SUBSET Blocked
    BY SMTT(30), Parts, SchedulerAssumption DEF Expired, Blocked, TypeOK, Slots
<1>5. make_ready(E, "TIMEOUT") /\ schedule(Readied(E))
    BY Zenon DEF scheduler_tick
<1> HIDE DEF E
<1>6. \A t \in Slots : state'[t] = "BLOCKED" <=> t \in Blocked \ E
    BY Zenon, <1>4, <1>5, Parts, TickFacts DEF Scheduled, CoreInv
<1>7. LockInv'
    BY Zenon, <1>2, <1>4, <1>5, <1>6, Parts, LockWake DEF lockVars, objVars
<1>8. NoLostWakeup'
    <2>1. \A q \in Queues : Waiters(q)' \subseteq Waiters(q)
        BY Zenon, <1>5, SchedulerAssumption DEF make_ready, Waiters, Objects
    <2> QED BY Zenon, <1>2, <2>1, Parts, WakeFrame DEF objVars
<1> QED BY Zenon, <1>1, <1>3, <1>7, <1>8, Parts
-----------------------------------------------------------------------------
(* Flags, semaphores and mutexes, and the calls that go on.                *)

\* set_cond, clear_cond, wake_one and wake_all of a wait queue.
LEMMA FlagInv ==
    ASSUME IInv, NEW q \in Queues,
           \/ set_cond(q) \/ clear_cond(q)
           \/ wait_queue_wake_one(q) \/ wait_queue_wake_all(q)
    PROVE  IInv'
<1>1. CASE set_cond(q) \/ clear_cond(q)
    <2>1. UNCHANGED <<coreVars, lockVars, panicked>>
        BY Zenon, <1>1 DEF set_cond, clear_cond, coreVars, lockVars
    <2>2. CoreInv'
        BY Zenon, <2>1, Parts, CoreQuiet
    <2>3. ObjType'
        BY Zenon, <1>1, <2>1, Parts DEF ObjType, set_cond, clear_cond, lockVars, useVars
    <2>4. LockInv'
        BY Zenon, <2>1, Parts, LockSame DEF coreVars, taskVars, callVars
    <2>5. \A x : Waiters(x)' = Waiters(x)
        BY Zenon, <2>1 DEF Waiters, coreVars, taskVars
    <2>6. \A x \in Queues : cond'[x] => cond[x] \/ signal'[x]
        BY SMTT(30), <1>1, Parts DEF set_cond, clear_cond, TypeOK
    <2>7. \A x \in Queues : signal[x] => signal'[x]
        BY SMTT(30), <1>1, Parts DEF set_cond, clear_cond, TypeOK
    <2>8. NoLostWakeup'
        BY Zenon, <2>5, <2>6, <2>7, Parts DEF NoLostWakeup
    <2> QED BY Zenon, <2>2, <2>3, <2>4, <2>8, Parts
<1>2. ASSUME NEW T \in SUBSET Waiters(q), make_ready(T, "OK"), state' = Readied(T),
             UNCHANGED <<cpuVars, ticks, callVars, bypass, lockVars, panicked>>
      PROVE  /\ CoreInv' /\ LockInv'
             /\ \A x \in Queues : Waiters(x)' = Waiters(x) \ T
    <2>1. /\ T \in SUBSET Blocked
          /\ \A t \in T : call[t].obj \notin Mutexes \cup Sems
        BY <1>2, Parts, WaitersBlocked, SchedulerAssumption DEF Objects
    <2>2. CoreInv'
        BY Zenon, <1>2, <2>1, Parts, CoreWake
    <2>3. \A t \in Slots : state'[t] = "BLOCKED" <=> t \in Blocked \ T
        BY SMTT(30), <1>2 DEF Readied, Blocked
    <2>4. LockInv'
        <3>1. TypeOK /\ CoreInv /\ LockInv
            BY Zenon, Parts
        <3>2. call' = call /\ UNCHANGED lockVars /\ make_ready(T, "OK")
            BY Zenon, <1>2 DEF callVars
        <3>3. "OK" \in {"OK", "TIMEOUT"}
            BY Zenon
        <3> QED BY ZenonT(60), <2>1, <2>3, <3>1, <3>2, <3>3, LockWake
    <2>5. \A x \in Queues : Waiters(x)' = Waiters(x) \ T
        BY Zenon, <1>2, SchedulerAssumption DEF make_ready, Waiters, Objects
    <2> QED BY Zenon, <2>2, <2>4, <2>5
<1>3. CASE wait_queue_wake_one(q)
    <2>1. PICK t \in Slots : IsFirst(q, t) /\ make_ready({t}, "OK") /\ state' = Readied({t})
        BY Zenon, <1>3 DEF wait_queue_wake_one
    <2>2. UNCHANGED <<cpuVars, ticks, callVars, bypass, lockVars, panicked, cond, signal>>
        BY Zenon, <1>3 DEF wait_queue_wake_one, objVars, lockVars
    <2>3. /\ CoreInv' /\ LockInv'
          /\ \A x \in Queues : Waiters(x)' = Waiters(x) \ {t}
        BY Zenon, <1>2, <2>1, <2>2 DEF IsFirst
    <2>4. ObjType'
        BY Zenon, <2>2, Parts DEF ObjType, lockVars, useVars
    <2>5. NoLostWakeup'
        BY Zenon, <2>2, <2>3, Parts, WakeFrame
    <2> QED BY Zenon, <2>3, <2>4, <2>5, Parts
<1>4. CASE wait_queue_wake_all(q)
    <2>1. make_ready(Waiters(q), "OK") /\ state' = Readied(Waiters(q))
        BY Zenon, <1>4 DEF wait_queue_wake_all
    <2>2. UNCHANGED <<cpuVars, ticks, callVars, bypass, lockVars, panicked, cond>>
        BY Zenon, <1>4 DEF wait_queue_wake_all, lockVars
    <2>3. /\ CoreInv' /\ LockInv'
          /\ \A x \in Queues : Waiters(x)' = Waiters(x) \ Waiters(q)
        BY Zenon, <1>2, <2>1, <2>2
    <2>4. ObjType'
        BY Zenon, <1>4, <2>2, Parts DEF ObjType, lockVars, useVars, wait_queue_wake_all
    <2>5. \A x \in Queues : signal'[x] = IF x = q THEN FALSE ELSE signal[x]
        BY Zenon, <1>4, Parts DEF wait_queue_wake_all, TypeOK
    <2>6. NoLostWakeup'
        BY Zenon, <2>2, <2>3, <2>5, Parts DEF NoLostWakeup
    <2> QED BY Zenon, <2>3, <2>4, <2>6, Parts
<1> QED BY Zenon, <1>1, <1>3, <1>4

\* Waking the first waiter of a semaphore or a mutex.
LEMMA GrantCore ==
    ASSUME IInv, NEW o \in Sems \cup Mutexes, NEW t \in Slots, IsFirst(o, t),
           make_ready({t}, "OK"), state' = Readied({t}),
           UNCHANGED <<cpuVars, ticks, callVars, bypass, cond, signal>>
    PROVE  CoreInv' /\ NoLostWakeup'
<1>1. {t} \in SUBSET Blocked
    BY Zenon, Parts, GrantOne DEF callVars
<1>2. CoreInv'
    BY SMTT(30), <1>1, Parts, CoreWake
<1>3. \A x \in Queues : Waiters(x)' \subseteq Waiters(x)
    BY Zenon, SchedulerAssumption DEF make_ready, Waiters, Objects
<1> QED BY Zenon, <1>2, <1>3, Parts, WakeFrame

\* sem_wait_timeout and sem_post.
LEMMA SemInv ==
    ASSUME CountLaw, IInv, NEW s \in Sems, SemStep(s)
    PROVE  IInv'
<1>1. ASSUME NEW d \in {-1, 1}, count' = [count EXCEPT ![s] = @ + d],
             balance' = [balance EXCEPT ![s] = @ + d], count[s] + d \in 0..MAX_COUNT,
             count[s] > 0 \/ Waiters(s) = {},
             UNCHANGED <<cpuVars, ticks, state, taskVars, callVars, owner, cond,
                         signal, panicked, held, bypass>>
      PROVE  IInv'
    <2>1. CoreInv'
        BY Zenon, <1>1, Parts, CoreQuiet DEF coreVars
    <2>2. LockInv'
        BY Zenon, <1>1, Parts, LockCount DEF callVars
    <2>3. ObjType'
        BY <1>1, Parts, SchedulerAssumption DEF ObjType
    <2>4. NoLostWakeup'
        BY Zenon, <1>1, Parts, WakeFrame DEF Waiters, taskVars
    <2> QED BY Zenon, <2>1, <2>2, <2>3, <2>4, Parts
<1>2. count[s] \in 0..MAX_COUNT /\ count[s] \in Int
    BY Parts, SchedulerAssumption DEF TypeOK
<1>3. ASSUME NEW ms \in TIMEOUTS \cup {WAIT_FOREVER}, sem_wait_timeout(s, ms)
      PROVE  IInv'
    <2>1. CASE count[s] > 0
        <3>1. count' = [count EXCEPT ![s] = @ + (-1)]
            BY SMTT(30), <1>2, <1>3, <2>1, Parts DEF sem_wait_timeout, TypeOK
        <3>2. balance' = [balance EXCEPT ![s] = @ + (-1)]
            BY SMTT(30), <1>2, <1>3, <2>1, Parts DEF sem_wait_timeout, TypeOK
        <3>3. count[s] + (-1) \in 0..MAX_COUNT
            BY <1>2, <2>1, SchedulerAssumption
        <3>4. UNCHANGED <<cpuVars, ticks, state, taskVars, callVars, owner, cond,
                          signal, panicked, held, bypass>>
            BY <1>2, <1>3, <2>1 DEF sem_wait_timeout
        <3> QED BY SMTT(30), <1>1, <2>1, <3>1, <3>2, <3>3, <3>4
    <2>2. CASE ~(count[s] > 0)
        <3>1. can_call /\ count[s] = 0 /\ block_for("sem", s, ms)
            BY Zenon, <1>3, <2>2 DEF sem_wait_timeout
        <3> QED BY Zenon, <3>1, BlockForInv
    <2> QED BY Zenon, <2>1, <2>2
<1>4. CASE sem_post(s)
    <2>1. CASE panic
        BY Zenon, <2>1, PanicInv
    <2>2. CASE /\ Waiters(s) = {} /\ count[s] < MAX_COUNT
               /\ count' = [count EXCEPT ![s] = @ + 1]
               /\ balance' = [balance EXCEPT ![s] = @ + 1]
               /\ UNCHANGED <<cpuVars, ticks, state, taskVars, callVars, owner, cond,
                              signal, panicked, held, bypass>>
        <3>1. count[s] + 1 \in 0..MAX_COUNT
            BY <1>2, <2>2, SchedulerAssumption
        <3> QED BY Zenon, <1>1, <2>2, <3>1
    <2>3. ASSUME NEW t \in Slots, IsFirst(s, t), make_ready({t}, "OK"),
                 state' = Readied({t}), balance' = [balance EXCEPT ![s] = @ + 1],
                 UNCHANGED <<cpuVars, ticks, callVars, objVars, panicked, held, bypass>>
          PROVE  IInv'
        <3>1. CoreInv' /\ NoLostWakeup'
            BY Zenon, <2>3, GrantCore DEF objVars
        <3>2. LockInv'
            BY Zenon, <2>3, Parts, LockPost DEF objVars, callVars
        <3>3. ObjType'
            BY <2>3, Parts DEF ObjType, objVars
        <3> QED BY Zenon, <3>1, <3>2, <3>3, Parts
    <2> QED BY Zenon, <1>4, <2>1, <2>2, <2>3 DEF sem_post
<1> QED BY Zenon, <1>3, <1>4 DEF SemStep

\* mutex_lock_timeout, mutex_trylock and mutex_unlock.
LEMMA MutexInv ==
    ASSUME IInv, NEW m \in Mutexes, MutexStep(m)
    PROVE  IInv'
<1>1. ASSUME can_call, take_mutex(m)
      PROVE  IInv'
    <2>1. CoreInv'
        BY Zenon, <1>1, Parts, CoreQuiet DEF take_mutex, coreVars
    <2>2. LockInv'
        BY SMTT(30), <1>1, Parts, LockTake
    <2>3. ObjType'
        BY Zenon, <1>1, Parts, CanCall DEF take_mutex, ObjType
    <2>4. NoLostWakeup'
        BY Zenon, <1>1, Parts, WakeFrame DEF take_mutex, Waiters, taskVars
    <2> QED BY SMTT(30), <2>1, <2>2, <2>3, <2>4, Parts
<1>2. ASSUME NEW ms \in TIMEOUTS \cup {WAIT_FOREVER}, mutex_lock_timeout(m, ms)
      PROVE  IInv'
    <2>1. CASE panic
        BY Zenon, <2>1, PanicInv
    <2>2. CASE take_mutex(m)
        BY SMTT(30), <1>1, <1>2, <2>2 DEF mutex_lock_timeout
    <2>3. CASE owner[m] \notin {NULL, current} /\ block_for("mutex", m, ms)
        BY Zenon, <1>2, <2>3, BlockForInv DEF mutex_lock_timeout
    <2> QED BY Zenon, <1>2, <2>1, <2>2, <2>3 DEF mutex_lock_timeout
<1>3. CASE mutex_trylock(m)
    BY Zenon, <1>1, <1>3 DEF mutex_trylock
<1>4. CASE mutex_unlock(m)
    <2>1. CASE panic
        BY Zenon, <2>1, PanicInv
    <2>2. CASE ~panic
        <3>1. /\ can_call
              /\ owner[m] = current
              /\ held' = [held EXCEPT ![current] = @ \ {m}]
              /\ UNCHANGED <<cpuVars, ticks, callVars, count, cond, signal,
                             panicked, balance, bypass>>
            BY Zenon, <1>4, <2>2 DEF mutex_unlock
        <3>2. current \in Slots /\ call[current] = NoCall
            BY Zenon, <3>1, Parts, CanCall
        <3>3. held' \in [Slots -> SUBSET Mutexes]
            BY Zenon, <3>1, Parts DEF TypeOK
        <3>4. ASSUME NEW t \in Slots, IsFirst(m, t), make_ready({t}, "OK"),
                     state' = Readied({t}), owner' = [owner EXCEPT ![m] = t]
              PROVE  IInv'
            <4>1. CoreInv' /\ NoLostWakeup'
                BY Zenon, <3>1, <3>4, GrantCore
            <4>2. LockInv'
                BY ZenonT(60), <3>1, <3>2, <3>4, Parts, LockHandOff DEF callVars
            <4>3. ObjType'
                BY Zenon, <3>1, <3>3, <3>4, Parts DEF ObjType
            <4> QED BY Zenon, <4>1, <4>2, <4>3, Parts
        <3>5. CASE /\ Waiters(m) = {} /\ owner' = [owner EXCEPT ![m] = NULL]
                   /\ UNCHANGED <<state, taskVars>>
            <4>1. CoreInv'
                BY Zenon, <3>1, <3>5, Parts, CoreQuiet DEF coreVars
            <4>2. LockInv'
                BY ZenonT(60), <3>1, <3>2, <3>5, Parts, LockRelease DEF callVars, taskVars
            <4>3. ObjType'
                BY Zenon, <3>1, <3>3, <3>5, Parts DEF ObjType
            <4>4. NoLostWakeup'
                BY Zenon, <3>1, <3>5, Parts, WakeFrame DEF Waiters, taskVars
            <4> QED BY Zenon, <4>1, <4>2, <4>3, <4>4, Parts
        <3> QED BY Zenon, <1>4, <2>2, <3>4, <3>5 DEF mutex_unlock
    <2> QED BY Zenon, <2>1, <2>2
<1> QED BY Zenon, <1>2, <1>3, <1>4 DEF MutexStep

\* A blocked call that has the CPU again returns, or blocks again.
LEMMA ResumeInv ==
    ASSUME CountLaw, IInv, resume_call
    PROVE  IInv'
<1>1. current # IDLE /\ call[current].fn # "none"
    BY Zenon DEF resume_call
<1>2. current \in Slots /\ state[current] = "RUNNING"
    BY Zenon, <1>1, Parts, Resuming
<1>3. ASSUME return_from_call, held' \in [Slots -> SUBSET Mutexes],
             balance' \in [Sems -> Int], LockInv'
      PROVE  IInv'
    <2>1. CoreInv'
        BY Zenon, <1>2, <1>3, Parts, CoreReturn
    <2>2. ObjType'
        BY Zenon, <1>3, Parts DEF ObjType, return_from_call, objVars
    <2>3. NoLostWakeup'
        BY Zenon, <1>3, Parts, WakeFrame DEF return_from_call, Waiters, taskVars, objVars
    <2> QED BY Zenon, <1>3, <2>1, <2>2, <2>3, Parts
<1>4. ASSUME return_from_call, call[current].fn \in {"sleep", "wait"}, UNCHANGED useVars
      PROVE  IInv'
    <2>1. LockInv'
        BY Zenon, <1>2, <1>4, Parts, LockReturn
    <2>2. held' \in [Slots -> SUBSET Mutexes] /\ balance' \in [Sems -> Int]
        BY Zenon, <1>4, Parts DEF TypeOK, useVars
    <2> QED BY Zenon, <1>3, <1>4, <2>1, <2>2
<1>5. CASE call[current].fn = "sleep"
    BY Zenon, <1>4, <1>5 DEF resume_call
<1>6. CASE call[current].fn = "wait"
    <2>1. wait_loop(call[current].obj)
        BY Zenon, <1>6 DEF resume_call
    <2>2. CASE return_from_call /\ UNCHANGED useVars
        BY Zenon, <1>4, <1>6, <2>2
    <2>3. CASE /\ ~cond[call[current].obj]
               /\ block_current("wait", call[current].obj, call[current].timed,
                                deadline[current], left[current])
        <3>1. BlockArgs("wait", call[current].obj, call[current].timed,
                        deadline[current], left[current])
            BY Zenon, <1>2, <1>6, Parts, ReblockArgs
        <3> QED BY Zenon, <1>2, <1>6, <2>3, <3>1, BlockInv
    <2> QED BY Zenon, <2>1, <2>2, <2>3 DEF wait_loop
<1>7. CASE call[current].fn = "sem"
    <2>1. /\ return_from_call
          /\ balance' = [balance EXCEPT ![call[current].obj] =
                            IF wake_result[current] = "OK" THEN @ - 1 ELSE @]
          /\ held' = held
        BY Zenon, <1>7 DEF resume_call
    <2>2. LockInv'
        BY Zenon, <1>2, <1>7, <2>1, Parts, LockSemReturn
    <2>3. balance' \in [Sems -> Int] /\ held' \in [Slots -> SUBSET Mutexes]
        <3> DEFINE d == IF wake_result[current] = "OK"
                        THEN balance[call[current].obj] - 1 ELSE balance[call[current].obj]
        <3>1. call[current].obj \in Sems
            BY Zenon, <1>2, <1>7, Parts DEF CoreInv, CallsShaped
        <3>2. d \in Int
            BY <3>1, Parts DEF TypeOK
        <3>3. balance' = [balance EXCEPT ![call[current].obj] = d]
            BY Zenon, <2>1, <3>1, Parts DEF TypeOK
        <3> QED BY ZenonT(60), <2>1, <3>2, <3>3, Parts DEF TypeOK
    <2> QED BY Zenon, <1>3, <2>1, <2>2, <2>3
<1>8. CASE call[current].fn = "mutex"
    <2>1. /\ return_from_call
          /\ held' = [held EXCEPT ![current] =
                         IF wake_result[current] = "OK" THEN @ \cup {call[current].obj}
                         ELSE @]
          /\ balance' = balance
        BY Zenon, <1>8 DEF resume_call
    <2>2. LockInv'
        BY Zenon, <1>2, <1>8, <2>1, Parts, LockMutexReturn
    <2>3. call[current].obj \in Mutexes
        BY Zenon, <1>2, <1>8, Parts DEF CoreInv, CallsShaped
    <2>4. balance' \in [Sems -> Int] /\ held' \in [Slots -> SUBSET Mutexes]
        BY Zenon, <2>1, <2>3, Parts DEF TypeOK
    <2> QED BY Zenon, <1>3, <2>1, <2>2, <2>4
<1> QED BY Zenon, <1>5, <1>6, <1>7, <1>8 DEF resume_call

\* The state that scheduler_init leaves satisfies the invariant.
LEMMA InitInv == CountLaw /\ Init => IInv
<1> SUFFICES ASSUME CountLaw, Init PROVE IInv
    BY Zenon
<1> USE SchedulerAssumption
<1>1. 0 \in Slots
    BY DEF Slots
<1>2. CoreType /\ ObjType
    <2>1. NoCall \in Calls
        BY Zenon DEF NoCall, Calls
    <2>2. /\ current \in Slots \cup {IDLE} /\ slot_count \in 1..MAX_TASKS
          /\ last_slot \in 0..(slot_count - 1) /\ ticks \in 0..(TICK_MOD - 1)
        BY <1>1 DEF Init, TICK_MOD
    <2>3. state \in [Slots -> States]
        BY Zenon DEF Init, States
    <2>4. /\ deadline \in [Slots -> 0..(TICK_MOD - 1)] /\ left \in [Slots -> Int]
          /\ bypass \in [Slots -> Nat]
        BY DEF Init, TICK_MOD
    <2>5. ObjType
        <3>1. balance \in [Sems -> Int]
            BY DEF Init
        <3> QED BY Zenon, <3>1 DEF Init, ObjType
    <2> QED BY Zenon, <2>1, <2>2, <2>3, <2>4, <2>5 DEF Init, CoreType
<1>3. TypeOK
    BY Zenon, <1>2 DEF CoreType, ObjType, TypeOK
<1>4. OneRunning
    BY DEF Init, OneRunning, Slots
<1>5. CallsShaped /\ QueuesCoherent
    BY Zenon DEF Init, CallsShaped, QueuesCoherent, NoCall
<1>6. \A t \in Slots, o \in Mutexes \cup Sems : ~Granted(t, o)
    BY Zenon DEF Init, Granted, NoCall
<1>7. \A o \in Objects : Waiters(o) = {}
    BY Zenon DEF Init, Waiters
<1>8. MutexOwnership /\ NotHeld
    BY Zenon, <1>6, <1>7 DEF Init, MutexOwnership, NotHeld, NoCall, Objects
<1>9. TokensConserved
    <2> SUFFICES ASSUME NEW s \in Sems
                 PROVE  /\ balance[s] = count[s] + Cardinality({t \in Slots : Granted(t, s)})
                        /\ count[s] > 0 => Waiters(s) = {}
        BY Zenon DEF TokensConserved
    <2>1. {t \in Slots : Granted(t, s)} = {}
        BY Zenon, <1>6
    <2>2. Cardinality({t \in Slots : Granted(t, s)}) = 0
        BY Zenon, <2>1 DEF CountLaw
    <2>3. count[s] \in Nat
        BY DEF Init
    <2> QED BY <1>7, <2>2, <2>3 DEF Init, Objects
<1>10. NoLostWakeup
    BY Zenon DEF Init, NoLostWakeup
<1>11. BypassMeasure /\ DeadlineMeasure
    BY Zenon DEF Init, BypassMeasure, DeadlineMeasure, NoCall
<1> QED BY Zenon, <1>3, <1>4, <1>5, <1>8, <1>9, <1>10, <1>11 DEF IInv

\* Every step of the scheduler, of its callers and of the timer keeps the
\* invariant.
LEMMA NextInv == CountLaw /\ IInv /\ [Next]_vars => IInv'
<1> SUFFICES ASSUME CountLaw, IInv, [Next]_vars PROVE IInv'
    BY Zenon
<1>1. CASE UNCHANGED vars
    BY Zenon, <1>1, PanicInv
<1>2. CASE TaskStep
    <2>1. ASSUME NEW ms \in TIMEOUTS, task_sleep(ms)
          PROVE  IInv'
        BY Zenon, <2>1, BlockForInv DEF task_sleep
    <2> QED BY Zenon, <1>2, <2>1, TaskInv DEF TaskStep
<1>3. ASSUME NEW q \in Queues, QueueStep(q)
      PROVE  IInv'
    <2>1. ASSUME NEW ms \in TIMEOUTS \cup {WAIT_FOREVER}, wait_queue_wait_until(q, ms)
          PROVE  IInv'
        BY Zenon, <2>1, BlockForInv DEF wait_queue_wait_until
    <2> QED BY Zenon, <1>3, <2>1, FlagInv DEF QueueStep
<1>4. CASE halted
    BY Zenon, <1>4, PanicInv DEF halted
<1> QED BY Zenon, <1>1, <1>2, <1>3, <1>4, SemInv, MutexInv, ResumeInv, TickInv DEF Next

-----------------------------------------------------------------------------
(* What the invariant implies, and what one step of Next may do.           *)

\* The invariant bounds how often schedule() passes a READY task over.
LEMMA BypassBound == IInv => BoundedBypass
<1> SUFFICES ASSUME IInv, NEW t \in Slots PROVE bypass[t] < slot_count
    BY Zenon DEF BoundedBypass
<1>1. /\ slot_count \in 1..MAX_TASKS /\ last_slot \in 0..(slot_count - 1)
      /\ bypass[t] \in Nat
      /\ state[t] = "READY" => bypass[t] + Dist(t) <= slot_count - 1
      /\ state[t] # "READY" => bypass[t] = 0
    BY Zenon DEF IInv, TypeOK, BypassMeasure
<1>2. Dist(t) \in Nat
    BY <1>1, SchedulerAssumption DEF Dist, Slots
<1>3. slot_count \in Nat \ {0}
    BY <1>1, SchedulerAssumption
<1> QED BY <1>1, <1>2, <1>3

\* The invariant makes time_reached exact for every timed call.
LEMMA DeadlineBound == IInv => DeadlinesExact
<1> SUFFICES ASSUME IInv, NEW t \in Slots
             PROVE  /\ call[t].fn = "wait" /\ call[t].timed
                          => (time_reached(ticks, deadline[t]) <=> left[t] <= 0)
                    /\ state[t] = "BLOCKED" /\ has_deadline[t] => left[t] > 0
    BY Zenon DEF DeadlinesExact
<1>1. state[t] = "BLOCKED" /\ has_deadline[t] => call[t].timed
    BY Zenon DEF IInv, QueuesCoherent
<1>2. /\ ticks \in 0..(TICK_MOD - 1) /\ deadline[t] \in 0..(TICK_MOD - 1)
      /\ left[t] \in Int /\ slot_count \in 1..MAX_TASKS
    BY Zenon DEF IInv, TypeOK
<1>3. call[t].timed =>
        /\ deadline[t] \in {ticks + left[t], ticks + left[t] - TICK_MOD,
                            ticks + left[t] + TICK_MOD}
        /\ left[t] <= MAX_WAIT_TICKS + 1
        /\ state[t] = "BLOCKED" => left[t] > 0
        /\ 1 - left[t] <= slot_count
    BY Zenon DEF IInv, DeadlineMeasure
<1>4. call[t].timed => left[t] < HALF_TICKS /\ -left[t] < HALF_TICKS
    BY <1>2, <1>3, SchedulerAssumption
<1>5. call[t].timed => (time_reached(ticks, deadline[t]) <=> left[t] <= 0)
    BY Zenon, <1>2, <1>3, <1>4, TimeReachedExact
<1> QED BY Zenon, <1>1, <1>3, <1>5

\* A mutex with waiters changes hands only in mutex_unlock, to the first of them.
LEMMA HandOffStep ==
    ASSUME IInv, Next, NEW m \in Mutexes, owner'[m] # owner[m], Waiters(m) # {}
    PROVE  \E t \in Slots : IsFirst(m, t) /\ owner'[m] = t
<1>1. owner \in [Mutexes -> Slots \cup {NULL}]
    BY Zenon DEF IInv, TypeOK
<1>2. ~panic /\ ~UNCHANGED vars /\ owner' # owner
    BY Zenon DEF panic, vars, objVars
<1>3. \A fn, q, ms : ~block_for(fn, q, ms)
    BY Zenon, <1>2 DEF block_for, block_current, objVars
<1>4. ~TaskStep
    BY Zenon, <1>2, <1>3 DEF TaskStep, scheduler_start, task_create, task_exit,
                      task_yield, task_sleep, objVars
<1>5. \A q \in Queues : ~QueueStep(q)
    BY ZenonT(60), <1>2, <1>3 DEF QueueStep, wait_queue_wait_until, set_cond, clear_cond,
                      wait_queue_wake_one, wait_queue_wake_all, objVars
<1>6. \A s \in Sems : ~SemStep(s)
    BY Zenon, <1>2, <1>3 DEF SemStep, sem_wait_timeout, sem_post, objVars
<1>7. ~resume_call /\ ~scheduler_tick /\ ~halted
    BY Zenon, <1>2 DEF resume_call, wait_loop, return_from_call, block_current,
                scheduler_tick, halted, objVars
<1>8. PICK x \in Mutexes : MutexStep(x)
    BY Zenon, <1>4, <1>5, <1>6, <1>7 DEF Next
<1>9. owner[m] # NULL
    BY Zenon DEF IInv, MutexOwnership
<1>10. ~take_mutex(x)
    BY Zenon, <1>1, <1>9 DEF take_mutex
<1>11. mutex_unlock(x)
    BY Zenon, <1>2, <1>3, <1>8, <1>10 DEF MutexStep, mutex_lock_timeout, mutex_trylock
<1>12. x = m
    BY Zenon, <1>1, <1>2, <1>11 DEF mutex_unlock
<1> QED BY ZenonT(60), <1>1, <1>2, <1>11, <1>12 DEF mutex_unlock

\* A wait ends with TIMEOUT only in scheduler_tick, when no time is left.
LEMMA TimeoutStep ==
    ASSUME IInv, IInv', Next, NEW t \in Slots, state[t] = "BLOCKED",
           state'[t] # "BLOCKED", wake_result'[t] = "TIMEOUT"
    PROVE  left'[t] = 0
<1>1. /\ ~panic /\ ~UNCHANGED vars /\ state' # state
      /\ \A T \in SUBSET Slots : make_ready(T, "OK") => t \notin T
    BY Zenon DEF panic, vars, make_ready
<1>2. \A T \in SUBSET Slots : ~(make_ready(T, "OK") /\ state' = Readied(T))
    BY Zenon, <1>1 DEF Readied
<1>3. ~schedule(state)
    BY Zenon, Parts, YieldFacts DEF CoreInv, Scheduled, Blocked
<1>4. ASSUME current \in Slots, state[current] = "RUNNING"
      PROVE  ~schedule([state EXCEPT ![current] = "BLOCKED"])
    BY Zenon, <1>4, Parts, BlockFacts DEF CoreInv, Scheduled, Blocked
<1>5. ASSUME can_call
      PROVE  \A fn, q, ms : ~block_for(fn, q, ms)
    BY Zenon, <1>1, <1>4, <1>5, Parts, CanCall DEF block_for, block_current
<1>6. ~TaskStep
    <2>1. ~scheduler_start /\ ~task_yield
        BY ZenonT(60), <1>1, <1>3 DEF scheduler_start, task_yield
    <2>2. ~task_create
        <3> SUFFICES ASSUME task_create PROVE FALSE
            BY SMTT(30)
        <3>1. slot_count \in Slots
            BY SMTT(30), SchedulerAssumption DEF task_create, IInv, TypeOK, Slots
        <3>2. state[slot_count] = "UNUSED"
            BY SMTT(30), <3>1, SchedulerAssumption DEF IInv, OneRunning, TypeOK
        <3> QED BY Zenon, <1>1, <3>2 DEF task_create, IInv, TypeOK
    <2>3. ~task_exit
        BY Zenon, Parts, CanCall DEF task_exit, TypeOK
    <2> QED BY Zenon, <1>5, <2>1, <2>2, <2>3 DEF TaskStep, task_sleep
<1>7. \A x : Waiters(x) \in SUBSET Slots
    BY Zenon DEF Waiters
<1>8. \A q \in Queues : ~QueueStep(q)
    BY ZenonT(60), <1>1, <1>2, <1>5, <1>7
       DEF QueueStep, wait_queue_wait_until, set_cond, clear_cond,
           wait_queue_wake_one, wait_queue_wake_all
<1>9. \A s \in Sems : ~SemStep(s)
    BY ZenonT(60), <1>1, <1>2, <1>5 DEF SemStep, sem_wait_timeout, sem_post
<1>10. \A m \in Mutexes : ~MutexStep(m)
    BY ZenonT(60), <1>1, <1>2, <1>5
       DEF MutexStep, mutex_lock_timeout, mutex_trylock, take_mutex, mutex_unlock
<1>11. ~resume_call
    <2> SUFFICES ASSUME resume_call PROVE FALSE
        BY Zenon
    <2>1. current \in Slots /\ state[current] = "RUNNING"
        BY ZenonT(60), Parts, Resuming DEF resume_call
    <2> QED BY ZenonT(60), <1>1, <1>4, <2>1 DEF resume_call, wait_loop, return_from_call,
                                    block_current
<1>12. scheduler_tick
    BY ZenonT(60), <1>1, <1>6, <1>8, <1>9, <1>10, <1>11 DEF Next, halted
<1>13. t \in Expired(ticks')
    <2>1. Expired(ticks') \in SUBSET Blocked
        <3>1. 0..(slot_count - 1) \subseteq Slots
            BY SchedulerAssumption DEF IInv, TypeOK, Slots
        <3> QED BY SMTT(30), <3>1 DEF Expired, Blocked
    <2>2. schedule(Readied(Expired(ticks')))
        BY Zenon, <1>12 DEF scheduler_tick
    <2>3. Scheduled(Blocked \ Expired(ticks'))
        BY Zenon, <2>1, <2>2, Parts, TickFacts DEF CoreInv
    <2>4. \A u \in Slots : state'[u] = "BLOCKED" <=> u \in Blocked \ Expired(ticks')
        BY Zenon, <2>3 DEF Scheduled
    <2> QED BY Zenon, <2>4 DEF Blocked
<1>14. /\ call[t].timed /\ left[t] > 0 /\ left[t] \in Int
       /\ time_reached(ticks', deadline[t])
    BY ZenonT(60), <1>13 DEF Expired, IInv, QueuesCoherent, DeadlineMeasure, TypeOK
<1>15. left'[t] = left[t] - 1 /\ call'[t].timed /\ deadline'[t] = deadline[t]
    BY ZenonT(60), <1>12, <1>14 DEF scheduler_tick
<1>16. /\ ticks' \in 0..(TICK_MOD - 1) /\ deadline[t] \in 0..(TICK_MOD - 1)
       /\ slot_count' \in 1..MAX_TASKS
    BY Zenon, <1>15 DEF IInv, TypeOK
<1>17. /\ deadline[t] \in {ticks' + left'[t], ticks' + left'[t] - TICK_MOD,
                           ticks' + left'[t] + TICK_MOD}
       /\ left'[t] <= MAX_WAIT_TICKS + 1 /\ 1 - left'[t] <= slot_count'
    BY ZenonT(60), <1>15 DEF IInv, DeadlineMeasure
<1>18. left'[t] \in Int /\ left'[t] < HALF_TICKS /\ -left'[t] < HALF_TICKS
    <2>1. left'[t] \in Int
        <3>1. PICK n \in Int : left[t] = n
            BY Zenon, <1>14
        <3>2. left'[t] = n - 1
            BY Zenon, <1>15, <3>1
        <3> QED BY <3>2
    <2>2. slot_count' \in Int /\ slot_count' <= HALF_TICKS
        BY <1>16, SchedulerAssumption
    <2>3. left'[t] <= MAX_WAIT_TICKS + 1 /\ 1 - left'[t] <= slot_count'
        BY Zenon, <1>17
    <2> QED BY <2>1, <2>2, <2>3, SchedulerAssumption
<1>19. left'[t] <= 0
    BY Zenon, <1>14, <1>16, <1>17, <1>18, TimeReachedExact
<1> QED BY <1>14, <1>15, <1>19

-----------------------------------------------------------------------------
(* The theorems.                                                           *)

INSTANCE FiniteSetTheorems

\* The law of counting that the lemmas about tokens assume holds.
LEMMA Counting == CountLaw
<1>1. ASSUME NEW S \in SUBSET Slots, NEW t \in Slots
      PROVE  /\ Cardinality(S) \in Nat
             /\ t \notin S => Cardinality(S \cup {t}) = Cardinality(S) + 1
             /\ t \in S => Cardinality(S \ {t}) = Cardinality(S) - 1
    <2>1. IsFiniteSet(Slots)
        BY FS_Interval, SchedulerAssumption DEF Slots
    <2>2. IsFiniteSet(S)
        BY Zenon, <2>1, FS_Subset
    <2> QED BY Zenon, <2>2, FS_CardinalityType, FS_AddElement, FS_RemoveElement
<1> QED BY Zenon, <1>1, FS_EmptySet DEF CountLaw

\* The invariant holds in every state the kernel reaches.
THEOREM Invariant == Spec => []IInv
<1>1. Init => IInv
    BY Zenon, Counting, InitInv
<1>2. IInv /\ [Next]_vars => IInv'
    BY Zenon, Counting, NextInv
<1> QED BY <1>1, <1>2, PTL DEF Spec

\* Every variable keeps its type: in particular slot_count stays within
\* tasks[], the deadlines within the tick counter and a semaphore below its
\* limit.
THEOREM TypeCorrect == Spec => []TypeOK
<1>1. IInv => TypeOK
    BY Zenon DEF IInv
<1> QED BY <1>1, Invariant, PTL

\* schedule() and its callers keep exactly one task on the CPU.
THEOREM OneTaskRuns == Spec => []OneRunning
<1>1. IInv => OneRunning
    BY Zenon DEF IInv
<1> QED BY <1>1, Invariant, PTL

\* queue_push, queue_pop and queue_remove keep the wait queues, the task
\* states and the pending calls in agreement.
THEOREM QueuesStayCoherent == Spec => []QueuesCoherent
<1>1. IInv => QueuesCoherent
    BY Zenon DEF IInv
<1> QED BY <1>1, Invariant, PTL

\* A mutex has one owner, who knows it: mutex_unlock's hand-off and the
\* timeouts of mutex_lock_timeout never disagree.
THEOREM MutexesOwned == Spec => []MutexOwnership
<1>1. IInv => MutexOwnership
    BY Zenon DEF IInv
<1> QED BY <1>1, Invariant, PTL

\* sem_post and sem_wait_timeout neither lose nor double a token.
THEOREM SemaphoresConserve == Spec => []TokensConserved
<1>1. IInv => TokensConserved
    BY Zenon DEF IInv
<1> QED BY <1>1, Invariant, PTL

\* wait_queue_wait_until loses no wake-up.
THEOREM WakeupsKept == Spec => []NoLostWakeup
<1>1. IInv => NoLostWakeup
    BY Zenon DEF IInv
<1> QED BY <1>1, Invariant, PTL

\* schedule() passes a READY task over for less than one turn of the slots.
THEOREM BypassBounded == Spec => []BoundedBypass
<1> QED BY BypassBound, Invariant, PTL

\* time_reached, on a counter that wraps, agrees with the exact time left of
\* every timed call.
THEOREM DeadlinesAreExact == Spec => []DeadlinesExact
<1> QED BY DeadlineBound, Invariant, PTL

\* mutex_unlock hands a mutex to its first waiter, and nobody else takes a
\* mutex that somebody waits for.
THEOREM HandOffInOrder == Spec => FifoHandOff
<1> DEFINE A == \A m \in Mutexes : owner'[m] # owner[m] /\ Waiters(m) # {}
                   => \E t \in Slots : IsFirst(m, t) /\ owner'[m] = t
<1>1. IInv /\ [Next]_vars => [A]_vars
    BY Zenon, HandOffStep
<1> QED BY <1>1, Invariant, PTL DEF Spec, FifoHandOff

\* wake_expired ends a wait on the very tick on which its time runs out.
THEOREM TimeoutsOnTime == Spec => NoEarlyTimeout
<1> DEFINE A == \A t \in Slots :
                   /\ state[t] = "BLOCKED"
                   /\ state'[t] # "BLOCKED"
                   /\ wake_result'[t] = "TIMEOUT"
                   => left'[t] = 0
<1>1. IInv /\ IInv' /\ [Next]_vars => [A]_vars
    BY Zenon, TimeoutStep
<1> QED BY <1>1, Invariant, PTL DEF Spec, NoEarlyTimeout
=============================================================================
