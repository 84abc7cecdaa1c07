\* Clean kills, torn tails included.  No kill in the rewrite of a repair, none that
\* leaves a complete line without its newline, and no other fault.
SPECIFICATION Spec
CONSTANTS
  c1 = c1
  c2 = c2
  Creators = {create}
  Calls = {c1, c2}
  Archivals = {arch}
  MaxBatch = 2
  MaxLog = 5
  MaxTime = 2
  MaxStarts = 3
  Faults = {}
  Torn = Torn
  None = None
SYMMETRY CallSymmetry
INVARIANTS
  CommittedSurvives
  AckedAsOneBlock
PROPERTIES
  ArchiveImmutable
  ImplementsDurableLog
CHECK_DEADLOCK FALSE
