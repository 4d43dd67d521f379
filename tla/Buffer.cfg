CONSTANTS
    MEMORY_BLOCK_SIZE = 8
    MEMORY_SLOT_SIZE = 2
    Regions = {8, 16, 24}
SPECIFICATION Spec
INVARIANTS
    BlocksAccounted
    SlotsAccounted
    BuffersApart
