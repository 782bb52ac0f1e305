SPECIFICATION Spec
CONSTANTS
  GroupBits = 3
  Width32 = 4
  Width64 = 8
  Bytes32 = 1
  Bytes64 = 2
  MaxChanges = 1
  Messages <- MCMessages
  UnknownFields <- MCUnknownFields
INVARIANTS ReadsBack SizeExact CutIsAnError
CHECK_DEADLOCK FALSE
