CONSTANTS
  p1 = p1  p2 = p2  m1 = m1  m2 = m2  n1 = n1  r1 = r1  r2 = r2  a1 = a1  a2 = a2
  Peer = {p1, p2}
  Mail = {m2, r1}
  FromPeer <- Froms
  Form <- Forms
  Ask = {a1, a2}
  ToPeer <- Asked
  Owner <- Chats
  Window = 9
  Torn = {"seen", "pend"}
  Faults = {"fetch", "notify", "send"}
  MaxKills = 1
SPECIFICATION FairSpec
INVARIANTS TypeOK AnswersGoBack QueuedOnce MarkedIsQueued
PROPERTIES MailIsQueued OwnerIsTold
