SPECIFICATION Spec
CONSTANTS
  TinyBits = 2
  SmallBits = 3
  IntBits = 4
  LongBits = 5
  DoubleBits = 3
  MpfBits = 20
  Hex <- MCHex
  NestedTypes <- MCNestedTypes
  FieldNames <- MCFieldNames
  Strings <- MCStrings
  Ints <- MCInts
  MaxDepth = 2
  MaxArgs = 2
  Tokens <- MCTokens
  MaxTokens = 8
INVARIANTS
  ParsedAsWritten BoundAsDecoded HandlesAccounted
CHECK_DEADLOCK FALSE
