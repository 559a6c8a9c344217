CONSTANTS
  q1 = q1  q2 = q2  d1 = d1  d2 = d2  s1 = s1  p1 = p1  p2 = p2
  Msg = {q1, d1}
  Kind <- KindOf
  Unregistered = {q1}
  Fallback = TRUE
  MaxAttempts = 2
  Proc = {p1}
  Command = {}
  InitQueue <- TwoItems
  Schedule = FALSE
  Faults = {"lost"}
  MaxKills = 2
  Cap = 3
SPECIFICATION FairSpec
INVARIANTS SeenIsEarned DeletedIsEarned WorkStartsOnce AnswersAccounted
PROPERTIES EveryMessageSettles
