SPECIFICATION Spec
CONSTANTS
  Slots = {1, 2, 3}
  GlobalNil = GlobalNil
  AsidNil = AsidNil
  NULL = NULL
  Entries <- SpaceEntries
  Empty <- NoEntry
  RegionSize = 16
  Pages32 = 16
  Uses <- SpaceUses
INVARIANTS
  UserTranslation
