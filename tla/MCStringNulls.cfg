CONSTANTS
  PageSize = 16
  BitsPerByte = 2
  PageIds = 16
  Sizes = {3}
  WithNulls = TRUE
  MaxRows = 4
SPECIFICATION Spec
INVARIANTS
  MaterializeExact
