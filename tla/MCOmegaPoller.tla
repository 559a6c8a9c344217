--------------------------- MODULE MCOmegaPoller ---------------------------
(* Small instances of OmegaPoller. *)
EXTENDS OmegaPoller

CONSTANTS q1, q2, d1, d2, s1, p1, p2

\* Questions, start-directives and a message that is swept.
KindOf == [m \in Msg |-> CASE m \in {d1, d2} -> "directive"
                           [] m = s1         -> "swept"
                           [] OTHER          -> "question"]

OneItem  == <<"w1">>
TwoItems == <<"w1", "w2">>
=============================================================================
