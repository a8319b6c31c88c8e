CONSTANTS
  None = None
  Tree <- MCTree
  Renames <- MCRenames
  References <- MCReferences
  DemoStages <- MCDemoStages
  DemoCustomers <- MCDemoCustomers
  OtherNames = {"Metro"}
  Earlier <- MCEarlier
  MaxCustomers = 3
SPECIFICATION Spec
INVARIANTS TypeOK SentinelOnce FailsOnce AddedOnce DemoIsWhole
PROPERTIES StartLeavesRecords MarkedWhenWhole
