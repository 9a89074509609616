SPECIFICATION Spec
CONSTANTS
  Requests = {r1, r2, r3}
  Nobody = nobody
  OldSections = 3
  MaxSize = 2
  MissionEvent = "section.created"
  MissionTarget = 2
  MissionXp = 30
SYMMETRY RequestSymmetry
INVARIANTS
  NoOrphanSections
  ReorderTakesEffect
  VersionsNumbered
  AppliesDoNotClash
  XpMatchesAwards
PROPERTIES
  RestoredExactly
  PublishedNotEdited
