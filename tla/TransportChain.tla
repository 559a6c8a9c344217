--------------------------- MODULE TransportChain ---------------------------
(***************************************************************************)
(* The order in which the hub tries its outbound lanes for one peer        *)
(* (a2a_hub.py, _agentverse_usable, _e2a_usable and _transport_chain).     *)
(*                                                                         *)
(* A peer's registry entry is abstracted to the set of lanes it and the    *)
(* hub's keys make usable: "agentverse" when the peer has an               *)
(* agentverse_address and the hub an Agentverse key, "e2a" when the peer   *)
(* has an e2a_email and the hub an e2a key, "agentmail" when the peer has  *)
(* both an inbox and an agent_mail_key.  The chain drops an unusable       *)
(* agentverse or e2a, and never drops agentmail: whether agentmail can be  *)
(* used is only looked at when its turn comes.                             *)
(***************************************************************************)
EXTENDS Integers, Sequences

Lane == {"agentverse", "agentmail", "e2a"}

\* `full` after the two removals, before A2A_TRANSPORT is honoured.
FullChain(usable) ==
  LET av  == "agentverse" \in usable
      e2a == "e2a" \in usable
  IN  CASE av /\ e2a     -> <<"agentverse", "agentmail", "e2a">>
        [] av /\ ~ e2a   -> <<"agentverse", "agentmail">>
        [] ~ av /\ e2a   -> <<"agentmail", "e2a">>
        [] ~ av /\ ~ e2a -> <<"agentmail">>

\* full.index(A2A_TRANSPORT), or the first position when it is not in full.
\* The lanes of `full` are distinct, so the position is unique.
StartIndex(full, transport) ==
  IF \E i \in DOMAIN full : full[i] = transport
  THEN CHOOSE i \in DOMAIN full : full[i] = transport
  ELSE 1

\* Where position k of a list of n is found once it starts at idx.
Turned(k, idx, n) == IF k + idx - 1 <= n THEN k + idx - 1 ELSE k + idx - 1 - n

\* full[idx:] + full[:idx]
Chain(usable, transport) ==
  LET full == FullChain(usable)
      idx  == StartIndex(full, transport)
  IN  [k \in 1..Len(full) |-> full[Turned(k, idx, Len(full))]]

=============================================================================
