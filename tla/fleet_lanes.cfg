CONSTANTS
  NoItem = NoItem
  avOld = avOld  avTask = avTask  e2aTask = e2aTask  amTask = amTask  amOut = amOut
  Agent = {"one", "two"}
  Operators = {"one"}
  Strict = {}
  Mail = {e2aTask, amOut}
  Letter <- Letters
  Legacy <- NoLegacy
  Served = {"av", "am", "e2a"}
  Window = 10
  MaxAttempts = 1
  Faults = {}
  MaxKills = 0
  Cap = 2
SPECIFICATION Spec
INVARIANTS RepliesEndIt OwnMailOnly

