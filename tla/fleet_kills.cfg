CONSTANTS
  NoItem = NoItem
  avOld = avOld  avTask = avTask  e2aTask = e2aTask  amTask = amTask  amOut = amOut
  Agent = {"one"}
  Operators = {"one"}
  Strict = {}
  Mail = {avOld, avTask}
  Letter <- Letters
  Legacy <- OldSeen
  Served = {"av", "am", "e2a"}
  Window = 10
  MaxAttempts = 2
  Faults = {"lost"}
  MaxKills = 1
  Cap = 3
SPECIFICATION FairSpec
INVARIANTS SeenIsEarned AnswersAccounted
PROPERTIES EveryMailSettles LanesAreDesks
