SPECIFICATION FSpec
CONSTANTS
  Axioms <- MCAxioms
  Defined <- MCOne
  Entries <- MCShadowed
  Formed <- FormedIn
  HasType <- HasTypeIn
INVARIANTS EmptyUnproved
CHECK_DEADLOCK FALSE
