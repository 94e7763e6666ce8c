CONSTANTS
  PageSize = 16
  BitsPerByte = 2
  PageIds = 16
  Sizes = {3, 13, 30}
  WithNulls = FALSE
  MaxRows = 4
SPECIFICATION Spec
INVARIANTS
  MaterializeExact
