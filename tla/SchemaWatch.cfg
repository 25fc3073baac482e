\* The documented use, and four mixes of others.
SPECIFICATION Spec
CONSTANTS
  table = table
  aux = aux
  NoName = NoName
  Names <- TheNames
  Attachable <- JustAux
  Programs <- SomePrograms
  MaxDdl = 3
  MaxNest = 4
INVARIANTS TypeOK MapIsCurrent OneRefreshPerName
PROPERTIES ArmedUntilSafePoint
