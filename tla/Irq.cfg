SPECIFICATION FairIrqSpec
CONSTANTS
    CHIP = 4
    IRQ_HANDLERS_MAX = 2
    h1 = h1
    h2 = h2
    h3 = h3
    Handlers = {h1, h2, h3}
    LineOf <- MCLineOf
    Asked = {2, 3}
    MAX_RAISES = 2
    NONE = NONE
INVARIANTS LinesMatchHandlers InServiceExact
PROPERTY RequestsServed
