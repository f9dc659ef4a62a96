CONSTANTS
    MAX_TASKS = 2
    HALF_TICKS = 3
    MAX_WAIT_TICKS = 1
    MS_PER_TICK = 10
    MAX_COUNT = 1
    WAIT_FOREVER = WAIT_FOREVER
    TIMEOUTS = {0, 10}
    Queues = {q1}
    Sems = {s1}
    Mutexes = {}
    IDLE = IDLE
    NULL = NULL
SPECIFICATION FairSpec
INVARIANTS NoLostWakeup DeadlinesExact TokensConserved
PROPERTIES TimedCallsReturn WaitersSignalled
