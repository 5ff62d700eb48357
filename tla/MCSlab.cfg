SPECIFICATION Spec
CONSTANTS
  PageShift = 4
  MinShift = 1
  ByteBits = 2
  WordSize = 2
  Pools <- MCPools
INVARIANTS FreeBlocks NoLeak SlotLists Marked
PROPERTY Refines
