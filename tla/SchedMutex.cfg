CONSTANTS
    MAX_TASKS = 3
    HALF_TICKS = 4
    MAX_WAIT_TICKS = 2
    MS_PER_TICK = 10
    MAX_COUNT = 2
    WAIT_FOREVER = WAIT_FOREVER
    TIMEOUTS = {0, 10, 1000}
    Queues = {}
    Sems = {}
    Mutexes = {m1}
    IDLE = IDLE
    NULL = NULL
SPECIFICATION Spec
INVARIANTS QueuesCoherent MutexOwnership BoundedBypass
PROPERTY FifoHandOff
