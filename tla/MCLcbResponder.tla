--------------------------- MODULE MCLcbResponder ---------------------------
(* Small instances of LcbResponder. *)
EXTENDS LcbResponder

CONSTANTS t1, t2, b1, n1

\* Tasks, a task over which handle_one raises, and other mail.
KindOf == [m \in Msg |-> CASE m = b1 -> "bad"
                           [] m = n1 -> "plain"
                           [] OTHER  -> "task"]
=============================================================================
