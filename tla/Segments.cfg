SPECIFICATION Spec
CONSTANTS
  Eighth = 4
  Addresses <- SignExtended
  StatusValues <- MCStatusValues
INVARIANTS
  TranslatesRight
  UnmappedInWindow
