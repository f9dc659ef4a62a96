SPECIFICATION MCSpec
CONSTANTS
    RX_RING_SIZE = 4
    QUEUE_SLOTS = 3
    TX_SLOTS = 2
    CAPACITY = 1
    Frames <- MCFrames
    Senders = {t1, t2}
    NoFrame = NoFrame
    NULL = NULL
SYMMETRY Symmetry
INVARIANTS NoFrameForgotten NoSleepOnFrames SlotsIntact
PROPERTIES ImplementsLossyFifo
