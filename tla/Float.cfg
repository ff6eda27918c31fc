SPECIFICATION Spec
CONSTANTS
  N = 2
  Word = {0, 1}
  Zero = 0
  address = address
  Addr = {address}
  Memory <- Doubleword01
  Raisable = {"invalid"}
  Mode = {0}
  Mode0 = 0
  Results <- Ones
  Comparisons <- Sound
INVARIANTS
  TypeOK
  ConditionsAgree
PROPERTIES
  FlatSpec
