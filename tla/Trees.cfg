SPECIFICATION Spec
CONSTANTS
  Slots = {1, 2, 3, 4, 5, 6, 7}
  GlobalNil = GlobalNil
  AsidNil = AsidNil
  NULL = NULL
  Entries <- SystemEntries
  Empty <- NoEntry
  RegionSize = 16
  Pages32 = 16
  Uses <- SystemUses
INVARIANTS
  LinksAgree
  RedBlack
  UserTranslation
PROPERTIES
  FlatSpec
