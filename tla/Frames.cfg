\* Types on both sides of the bounds, greased ones, all ends; it may stop.
CONSTANTS
  Bits = 3
  Types <- MCTypes
  Payloads <- MCPayloads
  Least = {1, 8}
  MaxFrames = 2
SPECIFICATION FairSpec
INVARIANTS TypeOK OnlyWritten NothingMissed
PROPERTIES AllRead
CHECK_DEADLOCK FALSE
