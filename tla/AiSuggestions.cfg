CONSTANTS
  Nothing = Nothing
  u1 = u1
  u2 = u2
  s1 = s1
  s2 = s2
  Users = {u1, u2}
  Sections = {s1, s2}
  Owner <- MCOwner
  Requests = {r1, r2}
  Reviewers = {v1, v2}
  Shown = {1, 2}
  Secrets = {1, 2}
  Titles = {1, 2}
  Prompts = {"plain", "contextual"}
  Contextual = {"contextual"}
  Notices = {"current", "former"}
  Notice = "current"
  MaxEdits = 1
SYMMETRY Symmetry
SPECIFICATION Spec
INVARIANTS StoredForItsInput DecisionStands
CHECK_DEADLOCK FALSE
