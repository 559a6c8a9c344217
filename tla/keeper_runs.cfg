CONSTANTS
  Agent = {"one", "two"}
  Covers <- OwnOnly
  Cap = 2
  MaxFaults = 3
SPECIFICATION FairSpec
INVARIANTS TypeOK
PROPERTIES NoDoubleStart KeepsOne OneActorEach
