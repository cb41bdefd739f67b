\* Contents of up to three characters, escapes and errors.
CONSTANTS
  Bodies <- MCBodies
SPECIFICATION Spec
INVARIANTS
  TypeOK
  PromptIsScored
  ScoredWithinRead
