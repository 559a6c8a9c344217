CONSTANTS
  t1 = t1  t2 = t2  q1 = q1  x1 = x1
  Msg = {t1, q1, x1}
  Kind <- KindOf
  Key = {"own", "other"}
  Opening = {"own"}
  First = "other"
  Refusal = "denied"
  MaxAttempts = 2
  Faults = {"lost"}
  MaxKills = 1
SPECIFICATION FairSpec
INVARIANTS SeenIsEarned AnswersAccounted
PROPERTIES DeskSpec EveryMessageSettles
