CONSTANTS
  q1 = q1  q2 = q2  d1 = d1  d2 = d2  s1 = s1  p1 = p1  p2 = p2
  Msg = {d1, s1}
  Kind <- KindOf
  Unregistered = {d1}
  Fallback = TRUE
  MaxAttempts = 2
  Proc = {p1}
  Command = {"w2"}
  InitQueue <- OneItem
  Schedule = FALSE
  Faults = {"disk"}
  MaxKills = 2
  Cap = 3
SPECIFICATION Spec
PROPERTIES DeskSpec
