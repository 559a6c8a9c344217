----------------------------- MODULE AnswerDesk -----------------------------
(***************************************************************************)
(* What every poller of the fleet promises of the messages in the mailbox  *)
(* it serves (the robustness contract of omega_poller.py's serve_once,     *)
(* which a2a_e2a_poller.py and a2a_fleet_poller.py repeat):                *)
(*   - what is in the mailbox at the very first poll is set aside, once,   *)
(*     before anything is tried;                                           *)
(*   - any later message is tried until it is settled: handled, or dropped *)
(*     at its MaxAttempts-th failure, never before and never after;        *)
(*   - a settled message is never tried again;                             *)
(*   - a crash may make it forget what it has not saved: a settled message *)
(*     may be open again, failures uncounted; but it never remembers what  *)
(*     did not happen, and it is back below the limit.                     *)
(* The state is what the desk remembers, and crashes are the environment's. *)
(* OmegaPoller, E2aPoller and each lane of FleetPoller are shown to        *)
(* implement it.                                                           *)
(***************************************************************************)
EXTENDS Integers

CONSTANTS Msg, MaxAttempts

VARIABLES
  arrived,  \* the messages that have reached the mailbox
  stage,    \* the first poll: to be made, under way, on record
  tries,    \* how often each open message has been tried
  fate,     \* what became of it
  crashes

Fate  == {"open", "armed", "handled", "dropped"}

vars == <<arrived, stage, tries, fate, crashes>>

Init ==
  /\ arrived \in SUBSET Msg
  /\ stage = "new"
  /\ tries = [m \in Msg |-> 0]
  /\ fate = [m \in Msg |-> "open"]
  /\ crashes = 0

Arrive(m) ==
  /\ m \notin arrived
  /\ arrived' = arrived \cup {m}
  /\ UNCHANGED <<stage, tries, fate, crashes>>

\* The first poll sets aside what it found (messages that arrive while it does
\* so are not part of it).
Arm ==
  /\ stage = "new"
  /\ stage' = "arming"
  /\ \E found \in SUBSET arrived :
       fate' = [m \in Msg |-> IF m \in found THEN "armed" ELSE fate[m]]
  /\ UNCHANGED <<arrived, tries, crashes>>

\* Before anything is tried this is put on record.
Record ==
  /\ stage = "arming"
  /\ stage' = "armed"
  /\ UNCHANGED <<arrived, tries, fate, crashes>>

Try(m) ==
  /\ stage = "armed"
  /\ m \in arrived
  /\ fate[m] = "open"
  /\ tries[m] < MaxAttempts
  /\ tries' = [tries EXCEPT ![m] = @ + 1]
  /\ UNCHANGED <<arrived, stage, fate, crashes>>

\* A settled message needs no count.
Settle(m, what) ==
  /\ fate[m] = "open"
  /\ fate' = [fate EXCEPT ![m] = what]
  /\ tries' = [tries EXCEPT ![m] = 0]
  /\ UNCHANGED <<arrived, stage, crashes>>

\* A try that succeeded.
Handle(m) == tries[m] > 0 /\ Settle(m, "handled")

Drop(m) == tries[m] = MaxAttempts /\ Settle(m, "dropped")

\* A first poll that is not on record yet is lost, or is on record with no more than
\* it set aside.  One that is on record is never made again.
Crash ==
  /\ crashes' = crashes + 1
  /\ stage' \in IF stage = "arming" THEN {"new", "armed"} ELSE {stage}
  /\ stage' = "new" => fate' = [m \in Msg |-> "open"]
  /\ fate' \in [Msg -> Fate]
  /\ tries' \in [Msg -> 0..(MaxAttempts - 1)]
  /\ \A m \in Msg :
       /\ fate'[m] \in {fate[m], "open"}
       /\ fate'[m] # "open" => tries'[m] = 0
       /\ fate[m] = "open" => tries'[m] <= tries[m]
  /\ UNCHANGED arrived

Next ==
  \/ Arm \/ Record \/ Crash
  \/ \E m \in Msg : Arrive(m) \/ Try(m) \/ Handle(m) \/ Drop(m)

Spec == Init /\ [][Next]_vars

=============================================================================
