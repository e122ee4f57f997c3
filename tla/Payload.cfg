SPECIFICATION PayloadSpec
CONSTANTS
  Words = {"a", "b"}
  Space = " "
  Missing = Missing
  Docs <- MCDocs
  MaxLines = 2
  MaxPrefixes = 2
INVARIANTS
  ThinkingArrives
PROPERTIES
  TranslatedOnce
