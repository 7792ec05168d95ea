SPECIFICATION CodecSpec
CONSTANTS
  Schemas <- MCSchemas
  Lengths = {0, 1, 2, 4}
  StringLists <- MCStringLists
  Counts = {0, 1, 2}
  MaxRows = 3
  VAR_SIZE_1BYTE_THRESHOLD = 2
  VAR_SIZE_4BYTE_THRESHOLD = 4
INVARIANT RowsExchanged
CHECK_DEADLOCK FALSE
