---------------------------- MODULE MCE2aPoller ----------------------------
(* Small instances of E2aPoller. *)
EXTENDS E2aPoller

CONSTANTS t1, t2, q1, x1

\* Tasks, mail that needs no answer, and a task whose sender is no address.
KindOf == [m \in Msg |-> CASE m = q1 -> "quiet"
                           [] m = x1 -> "misnamed"
                           [] OTHER  -> "task"]
=============================================================================
