SPECIFICATION Spec
CONSTANTS
  GroupBits = 3
  Width32 = 4
  Width64 = 8
  Bytes32 = 1
  Bytes64 = 2
  MaxChanges = 0
  Messages <- EmptyMessages
  UnknownFields <- MCUnknownFields
INVARIANTS ReadsBack
CHECK_DEADLOCK FALSE
