---------------------------- MODULE OmegaPoller ----------------------------
(***************************************************************************)
(* The Agentverse answering loop (omega_poller.py): a process that polls   *)
(* the mailbox of one agent, answers each new message once, and keeps what *)
(* it has seen and how often it has failed in two files it reads at the    *)
(* start of a cycle and rewrites at its end.  A start-directive also pops  *)
(* the agent's work ledger, a third file that the --work command of another *)
(* process rewrites too.                                                   *)
(*                                                                         *)
(* Files are rewritten in place: open(.., "w") truncates, then the content *)
(* is written, two steps here.  A truncated file does not parse and is     *)
(* read as empty (load_seen, load_attempts, load_ledger), so it is the     *)
(* empty value.  A killed process (the keepers' SIGTERM, a reboot) runs no *)
(* finally block; the keeper starts it again.  More than one process may   *)
(* serve the same mailbox (Proc): that is what the keepers are there to    *)
(* undo.                                                                   *)
(***************************************************************************)
EXTENDS Integers, Sequences, Functions

CONSTANTS
  Msg,          \* messages that may arrive (envelope uuids)
  Kind,         \* what _handle_one makes of each
  Unregistered, \* messages whose sender Agentverse does not know (404)
  Fallback,     \* is there a usable A2A_REPLY_FALLBACK
  MaxAttempts,  \* A2A_MAX_ATTEMPTS
  Proc,         \* processes serving this mailbox
  Command,      \* the --work commands the operator may issue, by the
                \* work item each queues
  InitQueue,    \* the ledger's queue at the start
  Schedule,     \* agent-two with a readable SCHEDULE.md: load_ledger returns
                \* its tail with an empty queue, not the ledger file
  Faults,       \* "lost": a reply is accepted but its answer lost;
                \* "disk": writing the ledger raises
  MaxKills,     \* bound: how often processes are killed
  Cap           \* bound: tries and replies are counted up to here

\* "swept": replies of other agents and traffic that is not for the fleet;
\* "directive": start your top task; "question": everything else, answered
\* from the ledger or by the brain, or with an honest "no brain".
MsgKind == {"swept", "directive", "question"}

ASSUME OmegaAssumption ==
  /\ Kind \in [Msg -> MsgKind]
  /\ Unregistered \subseteq Msg
  /\ Fallback \in BOOLEAN
  /\ MaxAttempts \in Nat \ {0}
  /\ InitQueue \in Seq(STRING)
  /\ Schedule \in BOOLEAN
  /\ Faults \subseteq {"lost", "disk"}
  /\ MaxKills \in Nat
  /\ Cap \in Nat /\ Cap > MaxAttempts
  /\ Command \subseteq STRING
  /\ "none" \notin Msg

VARIABLES
  arrived, mailbox,   \* sent to the agent, and still in its mailbox (external)
  seenFile, attFile,  \* .av_seen_<name>.json and .av_attempts_<name>.json
  ledger,             \* notes/ledger/<name>.json
  pc, items, seen, att, hand, led,  \* each process: serve_once's variables
  cmd, cmdLed,        \* each --work command: control point, ledger read
  kills,
  tries, fate,        \* how often each message was tried, what last became of it
  replies, unheard,   \* replies to it that Agentverse accepted; those of which
                      \* the process was told that they failed
  started             \* the directives and the work items they made active

fileVars  == <<seenFile, attFile>>
procVars  == <<pc, items, seen, att, hand, led>>
cmdVars   == <<cmd, cmdLed>>
ghostVars == <<tries, fate, replies, unheard, started>>
vars == <<arrived, mailbox, fileVars, ledger, procVars, cmdVars, kills, ghostVars>>

Work == Command \cup {InitQueue[i] : i \in DOMAIN InitQueue}
NoWork == "none"
NoMsg  == "none"

NoAttempts == [m \in Msg |-> 0]
EmptyLedger == [active |-> NoWork, queue |-> <<>>]

\* load_ledger
Loaded == IF Schedule THEN EmptyLedger ELSE ledger

UpTo(n) == IF n <= Cap THEN n ELSE Cap

Move(p, from, to) == pc[p] = from /\ pc' = [pc EXCEPT ![p] = to]

-----------------------------------------------------------------------------
(* Agentverse *)

Arrive(m) ==
  /\ m \notin arrived
  /\ arrived' = arrived \cup {m}
  /\ mailbox' = mailbox \cup {m}
  /\ UNCHANGED <<fileVars, ledger, procVars, cmdVars, kills, ghostVars>>

-----------------------------------------------------------------------------
(* serve_once: reading the mailbox and the state files.  A failed read of   *)
(* the mailbox ends the cycle and changes nothing.                          *)

ReadMailbox(p) ==
  /\ Move(p, "idle", "load")
  /\ items' = [items EXCEPT ![p] = mailbox]
  /\ UNCHANGED <<arrived, mailbox, fileVars, ledger, seen, att, hand, led,
                 cmdVars, kills, ghostVars>>

\* No .av_seen file: arm, everything found is marked seen.
LoadSeen(p) ==
  /\ IF seenFile.exists
     THEN /\ Move(p, "load", "attempts")
          /\ seen' = [seen EXCEPT ![p] = seenFile.ids]
          /\ UNCHANGED fate
     ELSE /\ Move(p, "load", "arm")
          /\ seen' = [seen EXCEPT ![p] = items[p]]
          /\ fate' = [m \in Msg |-> IF m \in items[p] THEN "armed" ELSE fate[m]]
  /\ UNCHANGED <<arrived, mailbox, fileVars, ledger, items, att, hand, led,
                 cmdVars, kills, tries, replies, unheard, started>>

LoadAttempts(p) ==
  /\ Move(p, "attempts", "loop")
  /\ att' = [att EXCEPT ![p] = attFile]
  /\ UNCHANGED <<arrived, mailbox, fileVars, ledger, items, seen, hand, led,
                 cmdVars, kills, ghostVars>>

\* Faulty variant: marked seen before it is dealt with.
TakeMarksSeen(p, m) ==
  /\ m \in items[p] \ seen[p]
  /\ Move(p, "loop", CASE Kind[m] = "swept"     -> "ack"
                       [] Kind[m] = "directive" -> "directive"
                       [] Kind[m] = "question"  -> "deliver")
  /\ seen' = [seen EXCEPT ![p] = @ \cup {m}]
  /\ items' = [items EXCEPT ![p] = @ \ {m}]
  /\ hand' = [hand EXCEPT ![p] = m]
  /\ tries' = [tries EXCEPT ![m] = UpTo(@ + 1)]
  /\ UNCHANGED <<arrived, mailbox, fileVars, ledger, att, led, cmdVars,
                 kills, fate, replies, unheard, started>>

\* The loop over the items: the next one not seen is handed to _handle_one.
Take(p, m) ==
  /\ m \in items[p] \ seen[p]
  /\ Move(p, "loop", CASE Kind[m] = "swept"     -> "ack"
                       [] Kind[m] = "directive" -> "directive"
                       [] Kind[m] = "question"  -> "deliver")
  /\ items' = [items EXCEPT ![p] = @ \ {m}]
  /\ hand' = [hand EXCEPT ![p] = m]
  /\ tries' = [tries EXCEPT ![m] = UpTo(@ + 1)]
  /\ UNCHANGED <<arrived, mailbox, fileVars, ledger, seen, att, led, cmdVars,
                 kills, fate, replies, unheard, started>>

-----------------------------------------------------------------------------
(* consume_directive: the top of the queue becomes active in the file, then *)
(* the reply is sent.                                                       *)

ReadLedger(p) ==
  /\ Move(p, "directive", IF Loaded.queue = <<>> THEN "deliver" ELSE "pop")
  /\ led' = [led EXCEPT ![p] = Loaded]
  /\ UNCHANGED <<arrived, mailbox, fileVars, ledger, items, seen, att, hand,
                 cmdVars, kills, ghostVars>>

PopTruncates(p) ==
  /\ Move(p, "pop", "popWrite")
  /\ ledger' = EmptyLedger
  /\ UNCHANGED <<arrived, mailbox, fileVars, items, seen, att, hand, led,
                 cmdVars, kills, ghostVars>>

\* Faulty variant: the top item also stays in the queue.
PopWritesKeepsTop(p) ==
  /\ Move(p, "popWrite", "deliver")
  /\ ledger' = [active |-> Head(led[p].queue), queue |-> led[p].queue]
  /\ started' = Append(started, [msg |-> hand[p], work |-> Head(led[p].queue)])
  /\ led' = [led EXCEPT ![p] = EmptyLedger]
  /\ UNCHANGED <<arrived, mailbox, fileVars, items, seen, att, hand, cmdVars,
                 kills, tries, fate, replies, unheard>>

PopWrites(p) ==
  /\ Move(p, "popWrite", "deliver")
  /\ ledger' = [active |-> Head(led[p].queue), queue |-> Tail(led[p].queue)]
  /\ started' = Append(started, [msg |-> hand[p], work |-> Head(led[p].queue)])
  /\ led' = [led EXCEPT ![p] = EmptyLedger]
  /\ UNCHANGED <<arrived, mailbox, fileVars, items, seen, att, hand, cmdVars,
                 kills, tries, fate, replies, unheard>>

\* Writing raises, before or after the file was truncated.
PopRaises(p) ==
  /\ "disk" \in Faults
  /\ Move(p, "pop", "failed") \/ Move(p, "popWrite", "failed")
  /\ UNCHANGED <<arrived, mailbox, fileVars, ledger, items, seen, att, hand,
                 led, cmdVars, kills, ghostVars>>

Directive(p) == ReadLedger(p) \/ PopTruncates(p) \/ PopWrites(p) \/ PopRaises(p)

-----------------------------------------------------------------------------
(* _deliver: to the sender, and after a 404 to the fallback.                *)

Accepted(p) == replies' = [replies EXCEPT ![hand[p]] = UpTo(@ + 1)]
Unheard(p)  == Accepted(p) /\ unheard' = [unheard EXCEPT ![hand[p]] = UpTo(@ + 1)]

\* Any error but a 404: False, retried on a later cycle.
Deliver(p) ==
  /\ \/ /\ Move(p, "deliver", "ack")
        /\ hand[p] \notin Unregistered
        /\ Accepted(p) /\ UNCHANGED unheard
     \/ /\ "lost" \in Faults
        /\ Move(p, "deliver", "failed")
        /\ hand[p] \notin Unregistered
        /\ Unheard(p)
     \/ /\ Move(p, "deliver", "failed")
        /\ UNCHANGED <<replies, unheard>>
     \/ /\ Move(p, "deliver", IF Fallback THEN "fallback" ELSE "failed")
        /\ hand[p] \in Unregistered
        /\ UNCHANGED <<replies, unheard>>
  /\ UNCHANGED <<arrived, mailbox, fileVars, ledger, items, seen, att, hand,
                 led, cmdVars, kills, tries, fate, started>>

DeliverFallback(p) ==
  /\ \/ Move(p, "fallback", "ack") /\ Accepted(p) /\ UNCHANGED unheard
     \/ "lost" \in Faults /\ Move(p, "fallback", "failed") /\ Unheard(p)
     \/ Move(p, "fallback", "failed") /\ UNCHANGED <<replies, unheard>>
  /\ UNCHANGED <<arrived, mailbox, fileVars, ledger, items, seen, att, hand,
                 led, cmdVars, kills, tries, fate, started>>

\* _ack: the DELETE may fail, unnoticed.
Acked(m) == mailbox' \in {mailbox, mailbox \ {m}}

Settled(p, m, what) ==
  /\ seen' = [seen EXCEPT ![p] = @ \cup {m}]
  /\ att' = [att EXCEPT ![p][m] = 0]
  /\ fate' = [fate EXCEPT ![m] = what]

\* Faulty variant: the DELETE is trusted to keep the message from coming back.
HandledTrustsAck(p) ==
  /\ Move(p, "ack", "loop")
  /\ Acked(hand[p])
  /\ fate' = [fate EXCEPT ![hand[p]] = "handled"]
  /\ UNCHANGED <<seen, att>>
  /\ hand' = [hand EXCEPT ![p] = NoMsg]
  /\ UNCHANGED <<arrived, fileVars, ledger, items, led, cmdVars, kills, tries,
                 replies, unheard, started>>

\* _handle_one returned True.
Handled(p) ==
  /\ Move(p, "ack", "loop")
  /\ Acked(hand[p])
  /\ Settled(p, hand[p], "handled")
  /\ hand' = [hand EXCEPT ![p] = NoMsg]
  /\ UNCHANGED <<arrived, fileVars, ledger, items, led, cmdVars, kills, tries,
                 replies, unheard, started>>

\* Faulty variants: dropped one failure early; every failure deletes.
FailedDropsEarly(p) ==
  LET m == hand[p]
      n == att[p][m] + 1 IN
  /\ Move(p, "failed", "loop")
  /\ IF n + 1 >= MaxAttempts
     THEN Acked(m) /\ Settled(p, m, "dropped")
     ELSE /\ att' = [att EXCEPT ![p][m] = n]
          /\ UNCHANGED <<mailbox, seen, fate>>
  /\ hand' = [hand EXCEPT ![p] = NoMsg]
  /\ UNCHANGED <<arrived, fileVars, ledger, items, led, cmdVars, kills, tries,
                 replies, unheard, started>>

FailedAcks(p) ==
  LET m == hand[p]
      n == att[p][m] + 1 IN
  /\ Move(p, "failed", "loop")
  /\ IF n >= MaxAttempts
     THEN Acked(m) /\ Settled(p, m, "dropped")
     ELSE /\ att' = [att EXCEPT ![p][m] = n]
          /\ Acked(m)
          /\ UNCHANGED <<seen, fate>>
  /\ hand' = [hand EXCEPT ![p] = NoMsg]
  /\ UNCHANGED <<arrived, fileVars, ledger, items, led, cmdVars, kills, tries,
                 replies, unheard, started>>

\* _handle_one returned False or raised: the failure is counted, and the
\* MaxAttempts-th one drops the message.
Failed(p) ==
  LET m == hand[p]
      n == att[p][m] + 1 IN
  /\ Move(p, "failed", "loop")
  /\ IF n >= MaxAttempts
     THEN Acked(m) /\ Settled(p, m, "dropped")
     ELSE /\ att' = [att EXCEPT ![p][m] = n]
          /\ UNCHANGED <<mailbox, seen, fate>>
  /\ hand' = [hand EXCEPT ![p] = NoMsg]
  /\ UNCHANGED <<arrived, fileVars, ledger, items, led, cmdVars, kills, tries,
                 replies, unheard, started>>

-----------------------------------------------------------------------------
(* The finally block: save_seen, then save_attempts.  Arming only saves the *)
(* seen set.                                                                *)

\* The locals of serve_once are gone.
LeaveCycle(p) ==
  /\ items' = [items EXCEPT ![p] = {}]
  /\ seen' = [seen EXCEPT ![p] = {}]
  /\ att' = [att EXCEPT ![p] = NoAttempts]

SaveSeenTruncates(p) ==
  /\ \/ items[p] \subseteq seen[p] /\ Move(p, "loop", "saveSeen")
     \/ Move(p, "arm", "armWrite")
  /\ seenFile' = [exists |-> TRUE, ids |-> {}]
  /\ UNCHANGED <<arrived, mailbox, attFile, ledger, items, seen, att, hand, led,
                 cmdVars, kills, ghostVars>>

SaveSeenWrites(p) ==
  /\ \/ Move(p, "saveSeen", "saveAttempts") /\ UNCHANGED <<items, seen, att>>
     \/ Move(p, "armWrite", "idle") /\ LeaveCycle(p)
  /\ seenFile' = [exists |-> TRUE, ids |-> seen[p]]
  /\ UNCHANGED <<arrived, mailbox, attFile, ledger, hand, led, cmdVars, kills,
                 ghostVars>>

SaveAttemptsTruncates(p) ==
  /\ Move(p, "saveAttempts", "attemptsWrite")
  /\ attFile' = NoAttempts
  /\ UNCHANGED <<arrived, mailbox, seenFile, ledger, items, seen, att, hand, led,
                 cmdVars, kills, ghostVars>>

\* Faulty variant: the counts are not written back.
SaveAttemptsForgets(p) ==
  /\ Move(p, "attemptsWrite", "idle")
  /\ attFile' = NoAttempts
  /\ LeaveCycle(p)
  /\ UNCHANGED <<arrived, mailbox, seenFile, ledger, hand, led, cmdVars, kills,
                 ghostVars>>

SaveAttemptsWrites(p) ==
  /\ Move(p, "attemptsWrite", "idle")
  /\ attFile' = att[p]
  /\ LeaveCycle(p)
  /\ UNCHANGED <<arrived, mailbox, seenFile, ledger, hand, led, cmdVars, kills,
                 ghostVars>>

SaveState(p) ==
  \/ SaveSeenTruncates(p) \/ SaveSeenWrites(p)
  \/ SaveAttemptsTruncates(p) \/ SaveAttemptsWrites(p)

-----------------------------------------------------------------------------
(* The process is killed at any point, and started again.                   *)

Kill(p) ==
  /\ kills < MaxKills
  /\ pc[p] # "down"
  /\ kills' = kills + 1
  /\ pc' = [pc EXCEPT ![p] = "down"]
  /\ LeaveCycle(p)
  /\ hand' = [hand EXCEPT ![p] = NoMsg]
  /\ led' = [led EXCEPT ![p] = EmptyLedger]
  /\ UNCHANGED <<arrived, mailbox, fileVars, ledger, cmdVars, ghostVars>>

Restart(p) ==
  /\ Move(p, "down", "idle")
  /\ UNCHANGED <<arrived, mailbox, fileVars, ledger, items, seen, att, hand, led,
                 cmdVars, kills, ghostVars>>

-----------------------------------------------------------------------------
(* queue_work, in the process of a --work command.                          *)

QueueReads(w) ==
  /\ cmd[w] = "idle"
  /\ cmd' = [cmd EXCEPT ![w] = "truncate"]
  /\ cmdLed' = [cmdLed EXCEPT ![w] = Loaded]
  /\ UNCHANGED <<arrived, mailbox, fileVars, ledger, procVars, kills, ghostVars>>

QueueTruncates(w) ==
  /\ cmd[w] = "truncate"
  /\ cmd' = [cmd EXCEPT ![w] = "write"]
  /\ ledger' = EmptyLedger
  /\ UNCHANGED <<arrived, mailbox, fileVars, procVars, cmdLed, kills, ghostVars>>

QueueWrites(w) ==
  /\ cmd[w] = "write"
  /\ cmd' = [cmd EXCEPT ![w] = "done"]
  /\ ledger' = [cmdLed[w] EXCEPT !.queue = Append(@, w)]
  /\ UNCHANGED <<arrived, mailbox, fileVars, procVars, cmdLed, kills, ghostVars>>

QueueWork(w) == QueueReads(w) \/ QueueTruncates(w) \/ QueueWrites(w)

-----------------------------------------------------------------------------

Init ==
  /\ arrived = {}
  /\ mailbox = {}
  /\ seenFile = [exists |-> FALSE, ids |-> {}]
  /\ attFile = NoAttempts
  /\ ledger = [active |-> NoWork, queue |-> InitQueue]
  /\ pc = [p \in Proc |-> "idle"]
  /\ items = [p \in Proc |-> {}]
  /\ seen = [p \in Proc |-> {}]
  /\ att = [p \in Proc |-> NoAttempts]
  /\ hand = [p \in Proc |-> NoMsg]
  /\ led = [p \in Proc |-> EmptyLedger]
  /\ cmd = [w \in Command |-> "idle"]
  /\ cmdLed = [w \in Command |-> EmptyLedger]
  /\ kills = 0
  /\ tries = [m \in Msg |-> 0]
  /\ fate = [m \in Msg |-> "open"]
  /\ replies = [m \in Msg |-> 0]
  /\ unheard = [m \in Msg |-> 0]
  /\ started = <<>>

Serve(p) ==
  \/ ReadMailbox(p) \/ LoadSeen(p) \/ LoadAttempts(p)
  \/ \E m \in Msg : Take(p, m)
  \/ Directive(p) \/ Deliver(p) \/ DeliverFallback(p)
  \/ Handled(p) \/ Failed(p) \/ SaveState(p)

Next ==
  \/ \E m \in Msg : Arrive(m)
  \/ \E p \in Proc : Serve(p) \/ Kill(p) \/ Restart(p)
  \/ \E w \in Command : QueueWork(w)

Spec == Init /\ [][Next]_vars

\* A process that is up goes on with its cycle (every request has a timeout),
\* its mailbox reads do not fail for ever, and the keeper restarts it.
Fairness == \A p \in Proc : WF_vars(Serve(p) \/ Restart(p))

FairSpec == Spec /\ Fairness

-----------------------------------------------------------------------------
(* Properties *)

PC == {"idle", "load", "arm", "armWrite", "attempts", "loop", "directive",
       "pop", "popWrite", "deliver", "fallback", "ack", "failed", "saveSeen",
       "saveAttempts", "attemptsWrite", "down"}

Ledger == [active: Work \cup {NoWork}, queue: Seq(Work)]
Fate   == {"open", "armed", "handled", "dropped"}

OneProcess == \A p, q \in Proc : p = q

\* Types of the poller's state: no attempts count ever reaches the limit.
TypeOK ==
  /\ mailbox \subseteq arrived /\ arrived \subseteq Msg
  /\ seenFile \in [exists: BOOLEAN, ids: SUBSET Msg]
  /\ attFile \in [Msg -> 0..(MaxAttempts - 1)]
  /\ ledger \in Ledger
  /\ pc \in [Proc -> PC]
  /\ items \in [Proc -> SUBSET Msg]
  /\ seen \in [Proc -> SUBSET Msg]
  /\ att \in [Proc -> [Msg -> 0..(MaxAttempts - 1)]]
  /\ hand \in [Proc -> Msg \cup {NoMsg}]
  /\ led \in [Proc -> Ledger]
  /\ cmd \in [Command -> {"idle", "truncate", "write", "done"}]
  /\ cmdLed \in [Command -> Ledger]
  /\ kills \in 0..MaxKills
  /\ tries \in [Msg -> 0..Cap]
  /\ fate \in [Msg -> Fate]
  /\ replies \in [Msg -> 0..Cap]
  /\ unheard \in [Msg -> 0..Cap]
  /\ started \in Seq([msg: Msg, work: Work])

\* Whatever is recorded as seen, in the file or in a process that will write
\* it, was set aside at arming, answered, swept, or tried MaxAttempts times:
\* kills, torn files and a second process never make the poller forget a
\* message it has done nothing about (serve_once).
SeenIsEarned ==
  \A m \in Msg :
    m \in seenFile.ids \cup UNION {seen[p] : p \in Proc} =>
      \/ fate[m] = "armed"
      \/ replies[m] > 0
      \/ Kind[m] = "swept"
      \/ tries[m] >= MaxAttempts

\* A message leaves the mailbox only once that is so.
DeletedIsEarned ==
  \A m \in arrived \ mailbox :
    \/ replies[m] > 0
    \/ Kind[m] = "swept"
    \/ tries[m] >= MaxAttempts

\* Where one process serves the mailbox a message is answered once, though the
\* DELETE of what was answered may fail; each further answer is paid for by a kill
\* or by a reply to this very message that went through unheard.
AnswersAccounted ==
  OneProcess =>
    \A m \in Msg : replies[m] <= 1 + kills + unheard[m]

\* Every message is settled in the end, though processes are killed between any
\* two steps and files are torn: no message blocks the others or is retried for
\* ever.
EveryMessageSettles ==
  \A m \in Msg : (m \in arrived) ~> (fate[m] # "open")

\* No work item is started twice, however often the directives are retried and
\* the process killed, when no one else writes the ledger and no item is queued
\* twice (consume_directive).
WorkStartsOnce ==
  Command = {} /\ OneProcess /\ IsInjective(InitQueue) =>
    IsInjective([i \in DOMAIN started |-> started[i].work])

\* What a process remembers: of the messages it is done with, and of the failures
\* of the others, the try under way included.  Outside serve_once it knows what
\* its files say.
Known(p) == IF pc[p] \in {"idle", "load", "down"} THEN seenFile.ids ELSE seen[p]

\* The control points at which a process holds a message.
Holding == {"directive", "pop", "popWrite", "deliver", "fallback", "ack", "failed"}

Failures(p, m) ==
  (IF pc[p] \in {"idle", "load", "arm", "armWrite", "attempts", "down"}
   THEN attFile[m] ELSE att[p][m])
    + (IF pc[p] \in Holding /\ m = hand[p] THEN 1 ELSE 0)

Tried(p)   == [m \in Msg |-> IF m \in Known(p) THEN 0 ELSE Failures(p, m)]
Decided(p) == [m \in Msg |-> IF m \in Known(p) THEN fate[m] ELSE "open"]

Stage(p) ==
  IF seenFile.exists THEN "armed" ELSE IF pc[p] = "arm" THEN "arming" ELSE "new"

Desk(p) == INSTANCE AnswerDesk WITH
  stage   <- Stage(p),
  tries   <- Tried(p),
  fate    <- Decided(p),
  crashes <- kills

\* Where one process serves the mailbox it implements the desk, its kills being
\* the desk's crashes (serve_once, load_seen, load_attempts).
DeskSpec ==
  /\ \A p \in Proc : Desk(p)!Init
  /\ [][OneProcess => \A p \in Proc : [Desk(p)!Next]_(Desk(p)!vars)]_vars

=============================================================================
