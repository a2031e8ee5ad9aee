CONSTANTS
  Adapters = {"a1", "a2"}
  Legacy <- MCLegacy
  Migrating <- MCMigrating
  Codecs = {"plain", "base", "zhijia_v2"}
  MaxFailures = 1
SPECIFICATION Spec
INVARIANTS
  SetUpAsMeant
  DevicesInStep
PROPERTIES
  AdaptersKept
