--------------------------- MODULE MCMeshChannel ---------------------------
(* Small instances of MeshChannel. *)
EXTENDS MeshChannel

CONSTANTS p1, p2, m1, m2, n1, r1, r2, a1, a2

\* Tasks and replies of two peers, and mail that is not for the agent.
Froms == [m \in Mail |-> IF m \in {m2, r2} THEN p2 ELSE p1]
Forms == [m \in Mail |-> CASE m \in {r1, r2} -> "reply"
                           [] m = n1 -> "noise"
                           [] OTHER -> "task"]

\* Two owners ask a peer each.
Asked  == [a \in Ask |-> IF a = a1 THEN p1 ELSE p2]
Chats  == [a \in Ask |-> IF a = a1 THEN "chat1" ELSE "chat2"]
=============================================================================
