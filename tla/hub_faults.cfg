CONSTANTS
  t1 = t1  t2 = t2  c1 = c1  m1 = m1  m2 = m2  p1 = p1  p2 = p2
  Id <- Ids
  ReplyPeer <- ReplyToP1
  ReplyId <- ReplyIds
  CancelId <- CancelIds
  Task <- OneTask
  IdOf <- SameId
  Peer = {p1}
  PeerOf <- SamePeer
  Usable <- NoE2a
  Transport = "agentverse"
  AVRetry = 2
  Push = FALSE
  Reply = {m1, m2}
  Canceler = {c1}
  Faults = {"persist", "peers", "raise", "lost"}
SPECIFICATION FairSpec
INVARIANTS EndedRouteIsTerminal CompletionJustified FailureJustified
PROPERTIES StopsAtFirstSuccess EveryTaskSettles EveryReplySeen
CHECK_DEADLOCK FALSE
