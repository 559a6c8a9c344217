CONSTANTS
  NoItem = NoItem
  avOld = avOld  avTask = avTask  e2aTask = e2aTask  amTask = amTask  amOut = amOut
  Agent = {"one", "two"}
  Operators = {"one"}
  Strict = {}
  Mail = {amTask}
  Letter <- Letters
  Legacy <- NoLegacy
  Served = {"am"}
  Window = 10
  MaxAttempts = 2
  Faults = {}
  MaxKills = 0
  Cap = 3
SPECIFICATION Spec
INVARIANTS RepliesTranscribed
