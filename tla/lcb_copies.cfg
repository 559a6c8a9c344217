CONSTANTS
  t1 = t1  t2 = t2  b1 = b1  n1 = n1
  Msg = {t1, t2, b1}
  Kind <- KindOf
  Proc = {"first", "second"}
  Window = 3
  ReplyTo = TRUE
  MaxFails = 1
  MaxKills = 1
SPECIFICATION FairSpec
INVARIANTS ReportsAccounted ForwardsAccounted HonestReport NothingDropped
PROPERTIES EveryTaskReported
