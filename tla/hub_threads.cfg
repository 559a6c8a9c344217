CONSTANTS
  t1 = t1  t2 = t2  c1 = c1  m1 = m1  m2 = m2  p1 = p1  p2 = p2
  Id <- Ids
  ReplyPeer <- ReplyToP1
  ReplyId <- ReplyIds
  CancelId <- CancelIds
  Task <- TwoTasks
  IdOf <- SameId
  Peer = {p1, p2}
  PeerOf <- OtherPeers
  Usable <- OneBare
  Transport = "agentmail"
  AVRetry = 1
  Push = TRUE
  Reply = {m1, m2}
  Canceler = {c1}
  Faults = {"peers", "raise", "lost"}
SPECIFICATION Spec
INVARIANTS TypeOK FinalStatusLogged FinalStatusAnnounced
CHECK_DEADLOCK FALSE
