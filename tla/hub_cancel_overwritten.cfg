CONSTANTS
  t1 = t1  t2 = t2  c1 = c1  m1 = m1  m2 = m2  p1 = p1  p2 = p2
  Id <- Ids
  ReplyPeer <- ReplyToP1
  ReplyId <- ReplyIds
  CancelId <- CancelIds
  Task <- OneTask
  IdOf <- SameId
  Peer = {p1}
  PeerOf <- SamePeer
  Usable <- AllLanes
  Transport = "agentverse"
  AVRetry = 2
  Push = FALSE
  Reply = {}
  Canceler = {c1}
  Faults = {}
SPECIFICATION Spec
PROPERTIES CanceledIsFinal
CHECK_DEADLOCK FALSE
