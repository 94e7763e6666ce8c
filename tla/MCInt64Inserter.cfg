CONSTANTS
  PageSize = 36
  BitsPerByte = 2
  Width = 8
  DataBegin = 8
  Reserve = 4
  Null = 0
  MaxRows = 13
SPECIFICATION Spec
INVARIANTS
  LoadedExact
