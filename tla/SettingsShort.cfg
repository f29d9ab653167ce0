\* A payload that ends after an identifier: violated; decoding stops when it returns.
CONSTANTS
  Bits = 3
  Identifiers <- MCIdentifiers
  Amounts <- MCAmounts
  MaxSettings = 2
SPECIFICATION Spec
INVARIANTS ShortIsError
CHECK_DEADLOCK FALSE
