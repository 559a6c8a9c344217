---------------------------- MODULE LcbResponder ----------------------------
(***************************************************************************)
(* The responder of the last transport of the chain (lcb_responder.py): for *)
(* each task in an AgentMail inbox it first relays the task into the        *)
(* agent's Agentverse mailbox, then mails a status saying what became of    *)
(* it, and only then counts the task as seen.  Nothing bounds the retries.  *)
(*                                                                         *)
(* A watchdog may start the program while it still runs: a file lock, freed *)
(* when its holder dies, turns the later copy away.                         *)
(*                                                                         *)
(* The inbox keeps its mail, lists only the newest, and lists the           *)
(* responder's own reports too.  One inbox is modelled: the loop over the   *)
(* inboxes shares nothing between them but the lock.                        *)
(***************************************************************************)
EXTENDS Integers, Sequences

CONSTANTS
  Msg, Kind,   \* the mail that may arrive, and what handle_one makes of it
  Proc,        \* copies of the program
  Window,      \* how many entries a listing has (25)
  ReplyTo,     \* is reply_to set in lcb_agents.json?
  MaxFails,    \* bound: how many reports fail
  MaxKills     \* bound: how often a copy is killed

\* "task" is an [a2a] message for the agent; "bad" one whose prompt is no text,
\* over which handle_one raises; "plain" is any other mail.
ASSUME LcbAssumption ==
  /\ Kind \in [Msg -> {"task", "bad", "plain"}]
  /\ Window \in Nat \ {0}
  /\ ReplyTo \in BOOLEAN
  /\ MaxFails \in Nat
  /\ MaxKills \in Nat
  /\ "none" \notin Msg
  /\ "free" \notin Proc

\* A listed entry: message of (report = 0), or the report-th report on it.
Entry == [of: Msg, report: Nat]
Mail(m) == [of |-> m, report |-> 0]

VARIABLES
  inbox,      \* the entries AgentMail has, oldest first (external)
  lock,       \* who holds lcb_responder.lock
  seenFile,   \* lcb_seen/<peer>.json
  pc, items, seen, hand, forwarded,  \* of each copy: serve_once, handle_one
  kills, fails,
  armed,      \* tasks set aside by an arming
  forwards,   \* how often Agentverse took each task
  reports, lost, \* how often a report was taken; those the copy did not hear of
  said        \* the statuses reported

procVars  == <<pc, items, seen, hand, forwarded>>
ghostVars == <<armed, forwards, reports, lost, said>>
vars == <<inbox, lock, seenFile, procVars, kills, fails, ghostVars>>

NoMsg == "none"
Free  == "free"

Move(p, from, to) == pc[p] = from /\ pc' = [pc EXCEPT ![p] = to]

Arrived == {inbox[i] : i \in DOMAIN inbox}
Listed  == {inbox[i] : i \in {j \in DOMAIN inbox : j > Len(inbox) - Window}}

Arrive(m) ==
  /\ Mail(m) \notin Arrived
  /\ inbox' = Append(inbox, Mail(m))
  /\ UNCHANGED <<lock, seenFile, procVars, kills, fails, ghostVars>>

-----------------------------------------------------------------------------
(* The single instance.                                                     *)

\* Faulty variant: no lock.
StartUnlocked(p) ==
  /\ Move(p, "down", "idle")
  /\ lock' = p
  /\ UNCHANGED <<inbox, seenFile, items, seen, hand, forwarded, kills, fails, ghostVars>>

\* acquire_lock and main.  A copy that finds the lock taken exits at once.
Start(p) ==
  /\ lock = Free
  /\ Move(p, "down", "idle")
  /\ lock' = p
  /\ UNCHANGED <<inbox, seenFile, items, seen, hand, forwarded, kills, fails, ghostVars>>

-----------------------------------------------------------------------------
(* serve_once: the listing.                                                 *)

\* The listing fails or is empty, or shows nothing new: the cycle is over, before
\* it could arm.  (am_get takes the entries from the field "data"; where AgentMail
\* names it "messages", as the hub and the pollers have it, this is every cycle.)
ListNothing(p) ==
  /\ pc[p] = "idle"
  /\ UNCHANGED vars

\* Without a seen file everything listed is set aside.
ListArms(p) ==
  /\ ~ seenFile.exists
  /\ Listed # {}
  /\ Move(p, "idle", "arm")
  /\ seen' = [seen EXCEPT ![p] = Listed]
  /\ armed' = armed \cup {e.of : e \in Listed}
  /\ UNCHANGED <<inbox, lock, seenFile, items, hand, forwarded, kills, fails,
                 forwards, reports, lost, said>>

ListNew(p) ==
  LET new == Listed \ seenFile.ids IN
  /\ seenFile.exists
  /\ new # {}
  /\ Move(p, "idle", "loop")
  /\ seen' = [seen EXCEPT ![p] = seenFile.ids]
  /\ items' = [items EXCEPT ![p] = new]
  /\ UNCHANGED <<inbox, lock, seenFile, hand, forwarded, kills, fails, ghostVars>>

List(p) == ListArms(p) \/ ListNew(p)

-----------------------------------------------------------------------------
(* handle_one.                                                              *)

Pick(p, e) == e \in items[p] /\ items' = [items EXCEPT ![p] = @ \ {e}]

\* Own reports and mail that is no [a2a] message are seen without an answer.
Ignore(p, e) ==
  /\ Move(p, "loop", "loop")
  /\ Pick(p, e)
  /\ e.report > 0 \/ Kind[e.of] = "plain"
  /\ seen' = [seen EXCEPT ![p] = @ \cup {e}]
  /\ UNCHANGED <<inbox, lock, seenFile, hand, forwarded, kills, fails, ghostVars>>

\* handle_one raises before it has sent anything: left for the next cycle.
Raise(p, e) ==
  /\ Move(p, "loop", "loop")
  /\ Pick(p, e)
  /\ e.report = 0 /\ Kind[e.of] = "bad"
  /\ UNCHANGED <<inbox, lock, seenFile, seen, hand, forwarded, kills, fails, ghostVars>>

\* forward_to_agentverse: taken; taken but its answer lost; or refused (no key,
\* no address, or av_send failed).
Forward(p, e) ==
  /\ Move(p, "loop", "report")
  /\ Pick(p, e)
  /\ e.report = 0 /\ Kind[e.of] = "task"
  /\ hand' = [hand EXCEPT ![p] = e.of]
  /\ \E ok \in BOOLEAN, taken \in {0, 1} :
       /\ ok => taken = 1
       /\ forwarded' = [forwarded EXCEPT ![p] = ok]
       /\ forwards' = [forwards EXCEPT ![e.of] = @ + taken]
  /\ UNCHANGED <<inbox, lock, seenFile, seen, kills, fails, armed, reports, lost, said>>

\* Faulty variant: a relay claimed whatever happened.
StatusClaims(ok) == "forwarded_for_answer"

\* reply_text: what became of the relay, as the responder knows it.
Status(ok) == IF ok THEN "forwarded_for_answer" ELSE "not_answered"

\* am_send: AgentMail takes the report, and lists it in the inbox it came from.
Sent(p) ==
  /\ ReplyTo
  /\ reports' = [reports EXCEPT ![hand[p]] = @ + 1]
  /\ said' = [said EXCEPT ![hand[p]] = @ \cup {Status(forwarded[p])}]
  /\ inbox' = Append(inbox, [of |-> hand[p], report |-> reports'[hand[p]]])

\* What serve_once does with a task that was reported, and with one that was not.
Reported(p) ==
  /\ seen' = [seen EXCEPT ![p] = @ \cup {Mail(hand[p])}]
  /\ UNCHANGED <<fails, lost>>

Left(p, unheard) ==
  /\ fails < MaxFails
  /\ fails' = fails + 1
  /\ lost' = [lost EXCEPT ![hand[p]] = @ + unheard]
  /\ UNCHANGED seen

\* Faulty variant: a task counts as seen before its report is out.
ReportSeenFirst(p) ==
  /\ Move(p, "report", "loop")
  /\ \/ Sent(p) /\ Reported(p)
     \/ fails < MaxFails /\ Reported(p) /\ UNCHANGED <<inbox, reports, said>>
  /\ hand' = [hand EXCEPT ![p] = NoMsg]
  /\ forwarded' = [forwarded EXCEPT ![p] = FALSE]
  /\ UNCHANGED <<lock, seenFile, items, kills, armed, forwards>>

Report(p) ==
  /\ Move(p, "report", "loop")
  /\ \/ Sent(p) /\ Reported(p)
     \/ Sent(p) /\ Left(p, 1)
     \/ Left(p, 0) /\ UNCHANGED <<inbox, reports, said>>
  /\ hand' = [hand EXCEPT ![p] = NoMsg]
  /\ forwarded' = [forwarded EXCEPT ![p] = FALSE]
  /\ UNCHANGED <<lock, seenFile, items, kills, armed, forwards>>

-----------------------------------------------------------------------------
(* The seen file is rewritten in place at the end of serve_once.            *)

\* Faulty variant: nothing is written when a message raised.
SaveUnlessBad(p) ==
  /\ \/ Move(p, "arm", "idle")
     \/ items[p] = {} /\ Move(p, "loop", "idle")
  /\ IF \E e \in Listed : Kind[e.of] = "bad"
     THEN UNCHANGED seenFile
     ELSE seenFile' = [exists |-> TRUE, ids |-> seen[p]]
  /\ seen' = [seen EXCEPT ![p] = {}]
  /\ UNCHANGED <<inbox, lock, items, hand, forwarded, kills, fails, ghostVars>>

Save(p) ==
  /\ \/ Move(p, "arm", "idle")
     \/ items[p] = {} /\ Move(p, "loop", "idle")
  /\ seenFile' = [exists |-> TRUE, ids |-> seen[p]]
  /\ seen' = [seen EXCEPT ![p] = {}]
  /\ UNCHANGED <<inbox, lock, items, hand, forwarded, kills, fails, ghostVars>>

\* A kill while it saves leaves a truncated file, which load_seen reads as empty.
\* The system frees the lock.
Kill(p) ==
  /\ kills < MaxKills
  /\ pc[p] # "down"
  /\ kills' = kills + 1
  /\ pc' = [pc EXCEPT ![p] = "down"]
  /\ lock' = IF lock = p THEN Free ELSE lock
  /\ items' = [items EXCEPT ![p] = {}]
  /\ seen' = [seen EXCEPT ![p] = {}]
  /\ hand' = [hand EXCEPT ![p] = NoMsg]
  /\ forwarded' = [forwarded EXCEPT ![p] = FALSE]
  /\ \/ UNCHANGED seenFile
     \/ /\ pc[p] = "arm" \/ (pc[p] = "loop" /\ items[p] = {})
        /\ seenFile' = [exists |-> TRUE, ids |-> {}]
  /\ UNCHANGED <<inbox, fails, ghostVars>>

-----------------------------------------------------------------------------

Init ==
  /\ inbox = <<>>
  /\ lock = Free
  /\ seenFile = [exists |-> FALSE, ids |-> {}]
  /\ pc = [p \in Proc |-> "down"]
  /\ items = [p \in Proc |-> {}]
  /\ seen = [p \in Proc |-> {}]
  /\ hand = [p \in Proc |-> NoMsg]
  /\ forwarded = [p \in Proc |-> FALSE]
  /\ kills = 0
  /\ fails = 0
  /\ armed = {}
  /\ forwards = [m \in Msg |-> 0]
  /\ reports = [m \in Msg |-> 0]
  /\ lost = [m \in Msg |-> 0]
  /\ said = [m \in Msg |-> {}]

Handle(p) == \E e \in items[p] : Ignore(p, e) \/ Raise(p, e) \/ Forward(p, e)

Serve(p) == Handle(p) \/ Report(p) \/ Save(p)

Next ==
  \/ \E m \in Msg : Arrive(m)
  \/ \E p \in Proc : Start(p) \/ ListNothing(p) \/ List(p) \/ Serve(p) \/ Kill(p)

Spec == Init /\ [][Next]_vars

\* A copy that is up goes on (every request has a time-out, the listing
\* succeeds in the end), and the watchdog starts one when none is.
Fairness ==
  /\ WF_vars(\E p \in Proc : Start(p))
  /\ \A p \in Proc : WF_vars(List(p)) /\ WF_vars(Serve(p))

FairSpec == Spec /\ Fairness

-----------------------------------------------------------------------------
(* Properties *)

\* Types of the responder's state.
TypeOK ==
  /\ inbox \in Seq(Entry)
  /\ lock \in Proc \cup {Free}
  /\ seenFile \in [exists: BOOLEAN, ids: SUBSET Entry]
  /\ pc \in [Proc -> {"down", "idle", "arm", "loop", "report"}]
  /\ items \in [Proc -> SUBSET Entry]
  /\ seen \in [Proc -> SUBSET Entry]
  /\ hand \in [Proc -> Msg \cup {NoMsg}]
  /\ forwarded \in [Proc -> BOOLEAN]
  /\ kills \in 0..MaxKills
  /\ fails \in 0..MaxFails
  /\ armed \in SUBSET Msg
  /\ forwards \in [Msg -> Nat]
  /\ reports \in [Msg -> Nat]
  /\ lost \in [Msg -> Nat]
  /\ said \in [Msg -> SUBSET {"forwarded_for_answer", "not_answered"}]

\* However many copies the watchdog starts, a task is reported once; each
\* further report is paid for by a kill or by a report whose answer got lost
\* (the single-instance lock and the seen file; "two responders on one inbox
\* produced duplicate replies").
ReportsAccounted ==
  \A m \in Msg : reports[m] <= 1 + kills + lost[m]

\* The relay comes before the report, so it is repeated when the report fails:
\* the agent gets a task once, and once more for each kill and each failed report
\* (forward_to_agentverse before am_send in handle_one).
ForwardsAccounted ==
  \A m \in Msg : forwards[m] <= 1 + kills + fails

\* No report claims a relay that did not happen ("never falsely claimed as done").
HonestReport ==
  \A m \in Msg : "forwarded_for_answer" \in said[m] => forwards[m] > 0

\* A task the seen file holds, or a copy is about to write there, was reported or
\* set aside at an arming: nothing is "silently dropped" by a raising message, a
\* failed report or a torn file.
NothingDropped ==
  \A e \in seenFile.ids \cup UNION {seen[p] : p \in Proc} :
    e.report = 0 /\ Kind[e.of] = "task" => e.of \in armed \/ reports[e.of] > 0

\* Every task is reported in the end, unless it was set aside or newer entries
\* (the responder's own reports among them) pushed it off the listing.
EveryTaskReported ==
  \A m \in Msg :
    ReplyTo /\ Kind[m] = "task" /\ Mail(m) \in Listed
      ~> (m \in armed \/ reports[m] > 0 \/ Mail(m) \notin Listed)

=============================================================================
