\* Whole and cut payloads; decoding stops when it returns.
CONSTANTS
  Bits = 3
  Identifiers <- MCIdentifiers
  Amounts <- MCAmounts
  MaxSettings = 2
SPECIFICATION Spec
INVARIANTS TypeOK DecodesSent
CHECK_DEADLOCK FALSE
