SPECIFICATION Spec
CONSTANTS
  Requests = {r1, r2}
  Nobody = nobody
  OldSections = 1
  MaxSize = 2
  MissionEvent = "section.created"
  MissionTarget = 2
  MissionXp = 30
PROPERTIES
  DeletedStaysDeleted
