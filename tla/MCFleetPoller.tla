--------------------------- MODULE MCFleetPoller ---------------------------
(* Small instances of FleetPoller: the mail the configurations choose from.   *)
(* "one" is the operator's agent, "two" has an inbox of its own.              *)
EXTENDS FleetPoller

CONSTANTS avOld, avTask, e2aTask, amTask, amOut

Post(l, box, to, from, ref, form) ==
  [lane |-> l, box |-> box, to |-> to, from |-> from, ref |-> ref, form |-> form]

Letters ==
  [m \in Mail |->
    CASE m \in {avOld, avTask} -> Post("av", "one", "none", "two", "address", "task")
      [] m = e2aTask           -> Post("e2a", "one", "none", "two", "mail", "task")
      [] m = amTask            -> Post("am", "one", "two", "one", "name", "task")
      [] m = amOut             -> Post("am", "one", "two", "outside", "mail", "task")]

NoLegacy == [a \in Agent |-> [exists |-> FALSE, ids |-> {}]]
OldSeen  == [a \in Agent |-> IF a = "one" THEN [exists |-> TRUE, ids |-> {avOld} \cap Mail]
                                          ELSE [exists |-> FALSE, ids |-> {}]]
=============================================================================
