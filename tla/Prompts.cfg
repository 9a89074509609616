CONSTANTS
  Prompts = {"v1", "v2", "plan", "badSystem", "badUser"}
  TypeOf <- MCTypeOf
  VersionOf <- MCVersionOf
  SystemNames <- MCSystemNames
  UserNames <- MCUserNames
  Seeded = {"v1", "v2"}
  Live = {"v1"}
  Instances = {i1, i2}
  Admins = {a1, a2}
  Lookups = {"l1"}
  TTL = 1
  MaxTime = 1
  None = None
SYMMETRY Symmetry
SPECIFICATION Spec
INVARIANTS ExactlyOneActive ActivationVisible CreatedPromptsRender
CHECK_DEADLOCK FALSE
