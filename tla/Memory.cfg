SPECIFICATION CachesSpec
CONSTANTS
  VLine = {a, b, c}
  PLine = {p, q, r}
  Phys <- Physical
  Index <- Indexed
  Set = {s0, s1}
  Word = {w0}
  Value = {0, 1}
  Nothing = Nothing
  Line0 = p
  Zero = 0
  Buffers = {p}
  Handover = {"invalidate"}
  Half = {0}
  CLine <- Code
  Slot = {i0}
  SlotOf <- InSlot0
  Page = {PageP, PageQ}
  PageOf <- OnPageP
  Page0 = PageQ
  TagWrites <- Clear
  a = a
  b = b
  c = c
  p = p
  q = q
  r = r
  s0 = s0
  s1 = s1
  i0 = i0
  PageP = PageP
  PageQ = PageQ
INVARIANTS
  TypeOK
  OneHolder
  CleanMatchesMemory
  CodeIsCurrent
PROPERTIES
  FlatSpec
  OnlyDirtyWrittenBack
