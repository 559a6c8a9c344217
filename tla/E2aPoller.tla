----------------------------- MODULE E2aPoller -----------------------------
(***************************************************************************)
(* The e2a leg of an agent (a2a_e2a_poller.py): one process polls the       *)
(* agent's e2a inbox, answers each new task once, and keeps what it has     *)
(* seen and how often it has failed in two files of its own.  It repeats    *)
(* the contract of omega_poller.py's serve_once; but the inbox is never     *)
(* emptied, nothing restarts the process by itself, and the key that reads  *)
(* the inbox must be found among those of several accounts.                 *)
(*                                                                         *)
(* The files are rewritten in place.  A kill during the saves leaves the    *)
(* file it strikes truncated, which is read as empty.                       *)
(***************************************************************************)
EXTENDS Integers, Sequences

CONSTANTS
  Msg, Kind,    \* what may arrive, and what handle_one makes of each
  Key,          \* the e2a keys the process has (_keys)
  Opening,      \* the keys of the account that owns the inbox
  First,        \* the first key of the list
  Refusal,      \* how e2a refuses a key of another account
  MaxAttempts,  \* A2A_MAX_ATTEMPTS
  Faults,       \* "lost": a reply is taken but its answer lost
  MaxKills      \* bound: how often the process is killed

\* "task" is to be answered; "misnamed" as well, but its sender header makes no
\* address e2a accepts (a display name, say); "quiet" is the rest: replies and
\* acks, own echoes, mail not for the fleet, tasks without a sender (the answer
\* is only logged).
MsgKind == {"task", "misnamed", "quiet"}

ASSUME E2aAssumption ==
  /\ Kind \in [Msg -> MsgKind]
  /\ Opening \subseteq Key
  /\ First \in Key
  /\ Refusal \in {"denied", "notfound"}
  /\ MaxAttempts \in Nat \ {0}
  /\ Faults \subseteq {"lost"}
  /\ MaxKills \in Nat
  /\ "none" \notin Msg \cup Key

VARIABLES
  inbox,               \* the inbox at e2a, oldest first (external)
  seenFile, attFile,   \* .e2a_seen_<name>.json and .e2a_attempts_<name>.json
  key,                 \* key_cache of main
  pc, items, seen, att, hand,  \* serve_once
  kills,
  tries, fate,         \* how often each message was tried, what last became of it
  replies, lost        \* replies e2a took; those whose answer was lost

fileVars  == <<seenFile, attFile>>
procVars  == <<pc, items, seen, att, hand>>
ghostVars == <<tries, fate, replies, lost>>
vars == <<inbox, fileVars, key, procVars, kills, ghostVars>>

NoMsg == "none"
NoKey == "none"
NoAttempts == [m \in Msg |-> 0]

Move(from, to) == pc = from /\ pc' = to

Arrived == {inbox[i] : i \in DOMAIN inbox}

Before(m, n) == \E i, j \in DOMAIN inbox : i <= j /\ inbox[i] = m /\ inbox[j] = n

Arrive(m) ==
  /\ m \notin Arrived
  /\ inbox' = Append(inbox, m)
  /\ UNCHANGED <<fileVars, key, procVars, kills, ghostVars>>

-----------------------------------------------------------------------------
(* main: the key.                                                           *)

\* key_for: the first key that reads the inbox.
ResolveKey ==
  /\ Move("idle", "idle")
  /\ key = NoKey
  /\ key' \in Opening
  /\ UNCHANGED <<inbox, fileVars, items, seen, att, hand, kills, ghostVars>>

\* No key could, just now: the first of the list, whatever it opens.
ResolveFails ==
  /\ Move("idle", "idle")
  /\ key = NoKey
  /\ key' = First
  /\ UNCHANGED <<inbox, fileVars, items, seen, att, hand, kills, ghostVars>>

\* Faulty variant: a key once cached stays.
ProbeKeepsKey ==
  /\ Move("probe", "idle")
  /\ UNCHANGED <<inbox, fileVars, key, items, seen, att, hand, kills, ghostVars>>

\* After serve_once the inbox is listed once more; when that fails, a third
\* request decides: a refusal (401, 403) drops the key, a 404 does not.
Probe ==
  /\ Move("probe", "idle")
  /\ key' = IF key \notin Opening /\ Refusal = "denied" THEN NoKey ELSE key
  /\ UNCHANGED <<inbox, fileVars, items, seen, att, hand, kills, ghostVars>>

\* e2a does not answer: a time-out drops the key, an error (5xx) does not.
ProbeFails ==
  /\ Move("probe", "idle")
  /\ key' \in {key, NoKey}
  /\ UNCHANGED <<inbox, fileVars, items, seen, att, hand, kills, ghostVars>>

-----------------------------------------------------------------------------
(* serve_once: the listing and the files.                                   *)

\* Without a seen file the listing is set aside; without a new item the cycle
\* is over.
ListInbox ==
  LET new == Arrived \ seenFile.ids IN
  /\ key \in Opening
  /\ \/ /\ ~ seenFile.exists
        /\ Move("idle", "arm")
        /\ seen' = Arrived
        /\ fate' = [m \in Msg |-> IF m \in Arrived THEN "armed" ELSE fate[m]]
        /\ UNCHANGED <<items, att>>
     \/ /\ seenFile.exists /\ new # {}
        /\ Move("idle", "loop")
        /\ seen' = seenFile.ids
        /\ items' = new
        /\ att' = attFile
        /\ UNCHANGED fate
     \/ /\ seenFile.exists /\ new = {}
        /\ Move("idle", "probe")
        /\ UNCHANGED <<seen, items, att, fate>>
  /\ UNCHANGED <<inbox, fileVars, key, hand, kills, tries, replies, lost>>

\* The listing fails: the only outcome for a key of another account.
ListFails ==
  /\ Move("idle", "probe")
  /\ key # NoKey
  /\ UNCHANGED <<inbox, fileVars, key, items, seen, att, hand, kills, ghostVars>>

\* The loop over the new items, oldest first.
Take(m) ==
  /\ Move("loop", "work")
  /\ m \in items
  /\ \A n \in items : Before(m, n)
  /\ items' = items \ {m}
  /\ hand' = m
  /\ tries' = [tries EXCEPT ![m] = @ + 1]
  /\ UNCHANGED <<inbox, fileVars, key, seen, att, kills, fate, replies, lost>>

-----------------------------------------------------------------------------
(* handle_one, and what serve_once does with its outcome.                   *)

Settled(m, what) ==
  /\ seen' = seen \cup {m}
  /\ att' = [att EXCEPT ![m] = 0]
  /\ fate' = [fate EXCEPT ![m] = what]

\* Faulty variants: dropped one failure early; a failed message is done with.
CountEarly(m) ==
  LET n == att[m] + 1 IN
  IF n + 1 >= MaxAttempts
  THEN Settled(m, "dropped")
  ELSE att' = [att EXCEPT ![m] = n] /\ UNCHANGED <<seen, fate>>

CountOnce(m) == Settled(m, "dropped")

\* One more failure; the MaxAttempts-th drops the message.
Count(m) ==
  LET n == att[m] + 1 IN
  IF n >= MaxAttempts
  THEN Settled(m, "dropped")
  ELSE att' = [att EXCEPT ![m] = n] /\ UNCHANGED <<seen, fate>>

Done ==
  /\ Move("work", "loop")
  /\ hand' = NoMsg
  /\ UNCHANGED <<inbox, fileVars, key, items, kills, tries>>

\* Nothing to send.
Quiet ==
  /\ Done
  /\ Kind[hand] = "quiet"
  /\ Settled(hand, "handled")
  /\ UNCHANGED <<replies, lost>>

\* The reply is taken (200 or 202, with an id).
Reply ==
  /\ Done
  /\ Kind[hand] = "task"
  /\ replies' = [replies EXCEPT ![hand] = @ + 1]
  /\ Settled(hand, "handled")
  /\ UNCHANGED lost

\* The reply is taken, but the process does not hear of it.
ReplyLost ==
  /\ Done
  /\ "lost" \in Faults
  /\ Kind[hand] = "task"
  /\ replies' = [replies EXCEPT ![hand] = @ + 1]
  /\ lost' = [lost EXCEPT ![hand] = @ + 1]
  /\ Count(hand)

\* The message cannot be read, the handler raises, or the reply is refused.
Fail ==
  /\ Done
  /\ Count(hand)
  /\ UNCHANGED <<replies, lost>>

Work == Quiet \/ Reply \/ ReplyLost \/ Fail

-----------------------------------------------------------------------------
(* The files are written; the locals of serve_once are gone.                *)

LeaveCycle == items' = {} /\ seen' = {} /\ att' = NoAttempts

\* Faulty variant: the attempts are saved, the seen set is not.
SaveForgetsSeen ==
  /\ \/ Move("arm", "probe")
     \/ items = {} /\ Move("loop", "probe")
  /\ seenFile' = [exists |-> TRUE, ids |-> IF pc = "arm" THEN seen ELSE seenFile.ids]
  /\ attFile' = IF pc = "arm" THEN attFile ELSE att
  /\ LeaveCycle
  /\ UNCHANGED <<inbox, key, hand, kills, ghostVars>>

\* save_seen alone when arming, else save_seen and save_attempts.
Save ==
  /\ \/ Move("arm", "probe")
     \/ items = {} /\ Move("loop", "probe")
  /\ seenFile' = [exists |-> TRUE, ids |-> seen]
  /\ attFile' = IF pc = "arm" THEN attFile ELSE att
  /\ LeaveCycle
  /\ UNCHANGED <<inbox, key, hand, kills, ghostVars>>

\* Killed while it saves: the seen file is truncated; or it is new and the
\* attempts file is old, or truncated.
TornSave ==
  \/ /\ pc = "arm" \/ (pc = "loop" /\ items = {})
     /\ seenFile' = [exists |-> TRUE, ids |-> {}]
     /\ UNCHANGED attFile
  \/ /\ pc = "loop" /\ items = {}
     /\ seenFile' = [exists |-> TRUE, ids |-> seen]
     /\ attFile' \in {attFile, NoAttempts}

Kill ==
  /\ kills < MaxKills
  /\ pc # "down"
  /\ kills' = kills + 1
  /\ pc' = "down"
  /\ key' = NoKey
  /\ hand' = NoMsg
  /\ LeaveCycle
  /\ UNCHANGED fileVars \/ TornSave
  /\ UNCHANGED <<inbox, ghostVars>>

\* run_e2a_poller_one.sh, by the operator.
Restart ==
  /\ Move("down", "idle")
  /\ UNCHANGED <<inbox, fileVars, key, items, seen, att, hand, kills, ghostVars>>

-----------------------------------------------------------------------------

Init ==
  /\ inbox = <<>>
  /\ seenFile = [exists |-> FALSE, ids |-> {}]
  /\ attFile = NoAttempts
  /\ key = NoKey
  /\ pc = "idle"
  /\ items = {}
  /\ seen = {}
  /\ att = NoAttempts
  /\ hand = NoMsg
  /\ kills = 0
  /\ tries = [m \in Msg |-> 0]
  /\ fate = [m \in Msg |-> "open"]
  /\ replies = [m \in Msg |-> 0]
  /\ lost = [m \in Msg |-> 0]

Serve == (\E m \in Msg : Take(m)) \/ Work \/ Save

Next ==
  \/ \E m \in Msg : Arrive(m)
  \/ ResolveKey \/ ResolveFails \/ ListInbox \/ ListFails \/ Probe \/ ProbeFails
  \/ Serve \/ Kill \/ Restart

Spec == Init /\ [][Next]_vars

\* A process that is up goes on: every request has a time-out.  Requests do not
\* fail for ever, and the operator starts a process that is down.
Fairness ==
  /\ WF_vars(Serve) /\ WF_vars(Restart)
  /\ WF_vars(ListFails \/ ListInbox) /\ WF_vars(Probe \/ ProbeFails)
  /\ SF_vars(ResolveKey) /\ SF_vars(ListInbox) /\ SF_vars(Probe)

FairSpec == Spec /\ Fairness

-----------------------------------------------------------------------------
(* Properties *)

Fate   == {"open", "armed", "handled", "dropped"}
Counts == [Msg -> 0..(MaxAttempts - 1)]

\* Types of the poller's state: no attempts count ever reaches the limit.
TypeOK ==
  /\ inbox \in Seq(Msg)
  /\ seenFile \in [exists: BOOLEAN, ids: SUBSET Msg]
  /\ attFile \in Counts
  /\ key \in Key \cup {NoKey}
  /\ pc \in {"idle", "arm", "loop", "work", "probe", "down"}
  /\ items \in SUBSET Msg
  /\ seen \in SUBSET Msg
  /\ att \in Counts
  /\ hand \in Msg \cup {NoMsg}
  /\ kills \in 0..MaxKills
  /\ tries \in [Msg -> Nat]
  /\ fate \in [Msg -> Fate]
  /\ replies \in [Msg -> Nat]
  /\ lost \in [Msg -> Nat]

\* Whatever is recorded as seen, in the file or in the process that will write
\* it, was set aside at arming, answered, in need of no answer, or tried
\* MaxAttempts times: kills, torn files and failing requests never make the leg
\* forget a task it has done nothing about (serve_once).
SeenIsEarned ==
  \A m \in seenFile.ids \cup seen :
    \/ fate[m] = "armed"
    \/ replies[m] > 0
    \/ Kind[m] = "quiet"
    \/ tries[m] >= MaxAttempts

\* The inbox is never emptied, yet a task is answered once; each further answer
\* is paid for by a kill or by an answer of e2a that got lost on this very task.
AnswersAccounted ==
  \A m \in Msg : replies[m] <= 1 + kills + lost[m]

\* What the leg remembers: of the messages it is done with, and of the failures
\* of the others, the try under way included.  A process that is not in a cycle
\* knows what its files say.
Remembered == IF pc \in {"arm", "loop", "work"} THEN seen ELSE seenFile.ids

Failures(m) ==
  (IF pc \in {"loop", "work"} THEN att[m] ELSE attFile[m])
    + (IF pc = "work" /\ m = hand THEN 1 ELSE 0)

Tried   == [m \in Msg |-> IF m \in Remembered THEN 0 ELSE Failures(m)]
Decided == [m \in Msg |-> IF m \in Remembered THEN fate[m] ELSE "open"]

Stage == IF seenFile.exists THEN "armed" ELSE IF pc = "arm" THEN "arming" ELSE "new"

Desk == INSTANCE AnswerDesk WITH
  arrived <- Arrived,
  stage   <- Stage,
  tries   <- Tried,
  fate    <- Decided,
  crashes <- kills

\* The leg implements the desk, its kills being the desk's crashes (serve_once,
\* load_seen, load_attempts).
DeskSpec == Desk!Spec

\* Every message is settled in the end, whatever key the process started with
\* and however often it is killed, where e2a refuses the keys of other accounts
\* with 401 or 403 (the drop of the cached key in main).
EveryMessageSettles ==
  Refusal = "denied" =>
    \A m \in Msg : (m \in Arrived) ~> (fate[m] # "open")

=============================================================================
