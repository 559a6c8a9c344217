------------------------------ MODULE MCA2AHub ------------------------------
(* Small instances of A2AHub: the constants the configurations choose from. *)
EXTENDS A2AHub

CONSTANTS t1, t2, c1, m1, m2, p1, p2

OneTask  == {t1}
TwoTasks == {t1, t2}

\* a2a_client.py sends every message to a peer under the same messageId.
SameId == [t \in Task |-> "client-p1"]
Ids    == {"client-p1"}

SamePeer   == [t \in Task |-> p1]
OtherPeers == [t \in Task |-> IF t = t1 THEN p1 ELSE p2]

\* peers.json: peers with every lane, peers with the two mail lanes, and a peer
\* with a mailbox beside one with no lane at all (an unknown peer).
AllLanes == [p \in Peer |-> Lane]
NoE2a    == [p \in Peer |-> {"agentverse", "agentmail"}]
OneBare  == [p \in Peer |-> IF p = p1 THEN {"agentmail"} ELSE {}]

ReplyToP1 == [m \in Reply |-> p1]
ReplyIds  == [m \in Reply |-> IdOf[t1]]
CancelIds == [c \in Canceler |-> IdOf[t1]]
=============================================================================
