SPECIFICATION SourcesSpec
CONSTANTS
  Sections = {1, 2, 3, 4}
  DocumentOf <- MCDocumentOf
  OwnerOf <- MCOwnerOf
  User = user
  Texts <- MCTexts
  Stored <- MCStored
  Contexts <- MCContexts
  Headers = {2, 3}
  Limit = 3
  MaxChars = 14
  MaxExcerpt = 4
  MinExcerpt = 2
  MaxEdits = 1
  None = None
CHECK_DEADLOCK FALSE
INVARIANTS
  BudgetHolds
  SourcesDistinct
