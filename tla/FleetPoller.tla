---------------------------- MODULE FleetPoller ----------------------------
(***************************************************************************)
(* The unified poller (a2a_fleet_poller.py): one process per agent, which  *)
(* reads three lanes, the agent's Agentverse mailbox ("av"), the one        *)
(* AgentMail inbox the whole fleet shares ("am") and the agent's e2a inbox  *)
(* ("e2a"), and replies by AgentMail and, best effort, by Agentverse.       *)
(*                                                                         *)
(* Each lane has its own seen and attempts files.  Nothing is ever deleted  *)
(* from a lane, so those files are all that keeps old mail from being       *)
(* answered again.  Replies are mail: they reach the lanes of their askers  *)
(* and are read there by the same code.                                     *)
(*                                                                         *)
(* The files of an agent are private to its one process, so reading a lane  *)
(* and its files is one step, and so is writing the files, unless the       *)
(* process is killed on the way: then they may be left old, truncated or    *)
(* new, one after the other.                                                *)
(***************************************************************************)
EXTENDS Integers, Sequences

CONSTANTS
  Agent,       \* the agents served, a process each
  Operators,   \* those whose AGENT_AM inbox is the shared one
  Strict,      \* those that read only what names them (agent-seven)
  Mail, Letter,\* what may be sent to the fleet, and what the code makes of it
  NoItem,      \* no item in hand
  Legacy,      \* .av_seen_<name>.json of the poller this one replaces
  Served,      \* the lanes that can be read: in A2A_LANES, with a key, and up
  Window,      \* the am read returns the newest so many (limit=25)
  MaxAttempts, \* A2A_MAX_ATTEMPTS
  Faults,      \* "lost": a reply is taken, but the answer is an error;
               \* "sdk": uagents_core is not installed
  MaxKills,    \* bound: how often a process is killed
  Cap          \* bound: tries and answers are counted up to here

Lane == {"av", "am", "e2a"}

\* box: whose mailbox it is in (av, e2a);  to: the addressee in the subject
\* ("none": the form without one);  from: who asked, an agent of the fleet (in
\* Agent if served here) or "outside";
\* ref: how the code sees the asker: as an agent's name (JSON sender or
\* subject), an Agentverse address, a mail address, or not at all;
\* form: "quotes" is a task whose text contains "reply from" or "ack from",
\* "echo" one that says the reader wrote it (its replied_by is the shared inbox;
\* on av, the reader signed the envelope), "chatter" is not fleet mail.
LetterType ==
  [lane: Lane, box: Agent, to: STRING, from: STRING,
   ref: {"name", "address", "mail", "none"},
   form: {"task", "quotes", "echo", "chatter"}]

\* A reply: by whom, to which mail, on which lane.  Replies to one mail by one
\* agent on one lane are one item, the first being in the mailbox for good.
ReplyItem == [by: Agent, of: Mail, lane: {"av", "am"}]
Item == Mail \cup ReplyItem

ASSUME FleetAssumption ==
  /\ Operators \subseteq Agent
  /\ Strict \subseteq Agent
  /\ Letter \in [Mail -> LetterType]
  /\ \A a \in Agent : \A m \in Legacy[a].ids :
       m \in Mail /\ Letter[m].lane = "av" /\ Letter[m].box = a
  /\ NoItem \notin Mail /\ Mail \cap ReplyItem = {}
  /\ Window \in Nat \ {0}
  /\ MaxAttempts \in Nat \ {0}
  /\ Faults \subseteq {"lost", "sdk"}
  /\ Served \subseteq Lane
  /\ MaxKills \in Nat
  /\ Cap \in Nat /\ Cap > MaxAttempts
  /\ "operator" \notin Agent /\ "none" \notin Agent

VARIABLES
  arrived,           \* the mail sent so far (external)
  avBox, e2aBox, opInbox, \* what is in the lanes (external)
  seenFile, attFile, \* .fleet_<lane>_seen_<name>.json, .._attempts_<name>.json
  pc, lane, items, seen, att, hand, mailed,  \* each process
  kills,
  tries, fate,       \* how often each item was tried, what was last decided of it
  sent               \* the replies to it, tallied

boxVars   == <<arrived, avBox, e2aBox, opInbox>>
fileVars  == <<seenFile, attFile>>
procVars  == <<pc, lane, items, seen, att, hand, mailed>>
ghostVars == <<tries, fate, sent>>
vars == <<boxVars, fileVars, procVars, kills, ghostVars>>

\* Replies taken by each leg, and those the process took for failures.
Tally == {"am", "av", "unheard"}

NoAttempts == [i \in Item |-> 0]

UpTo(n) == IF n <= Cap THEN n ELSE Cap

Move(a, from, to) == pc[a] = from /\ pc' = [pc EXCEPT ![a] = to]

\* The asker of an item; a reply has none the code would answer.
Asker(m) == Letter[m].from

-----------------------------------------------------------------------------
(* The lanes *)

Arrive(m) ==
  LET l == Letter[m] IN
  /\ m \notin arrived
  /\ arrived' = arrived \cup {m}
  /\ avBox'  = IF l.lane = "av"  THEN [avBox EXCEPT ![l.box] = @ \cup {m}] ELSE avBox
  /\ e2aBox' = IF l.lane = "e2a" THEN [e2aBox EXCEPT ![l.box] = @ \cup {m}] ELSE e2aBox
  /\ opInbox' = IF l.lane = "am" THEN Append(opInbox, m) ELSE opInbox
  /\ UNCHANGED <<fileVars, procVars, kills, ghostVars>>

Newest == {opInbox[i] : i \in {j \in DOMAIN opInbox : j > Len(opInbox) - Window}}

Listing(a, l) == CASE l = "av"  -> avBox[a]
                   [] l = "am"  -> Newest
                   [] l = "e2a" -> e2aBox[a]

-----------------------------------------------------------------------------
(* What handle and _handle_decoded make of an item: answer it, transcribe   *)
(* it to the log as an inbound reply, or sweep it.                          *)

\* The addressee in the subject.  A reply's subject names the local part of the
\* inbox it is sent to, which in the shared inbox is "operator", no agent.
Addressee(i) == IF i \in Mail THEN Letter[i].to ELSE "operator"

ForMe(a, i) == Addressee(i) = a \/ (Addressee(i) = "none" /\ a \notin Strict)

\* "reply from" or "ack from" in the text.
IsTerminal(i) == i \in ReplyItem \/ Letter[i].form = "quotes"

\* On am the sender that routes the reply is the reader, or the form says so.
Echo(a, l, i) ==
  \/ Letter[i].form = "echo"
  \/ l = "am" /\ Letter[i].from = a /\ Letter[i].ref # "none"

NoAnswer(a, l, i) ==
  Letter[i].form = "chatter" \/ Echo(a, l, i) \/ Letter[i].ref = "none"

\* Faulty variants: no recipient filter; no terminal check.
VerdictUnfiltered(a, l, i) ==
  IF IsTerminal(i) THEN "transcribe"
  ELSE IF NoAnswer(a, l, i) THEN "sweep"
  ELSE "answer"

VerdictChains(a, l, i) ==
  IF l = "am" /\ ~ ForMe(a, i) THEN "sweep"
  ELSE IF i \in ReplyItem THEN "answer"
  ELSE IF NoAnswer(a, l, i) THEN "sweep"
  ELSE "answer"

Verdict(a, l, i) ==
  IF l = "am" /\ ~ ForMe(a, i) THEN "sweep"
  ELSE IF IsTerminal(i) THEN "transcribe"
  ELSE IF NoAnswer(a, l, i) THEN "sweep"
  ELSE "answer"

-----------------------------------------------------------------------------
(* Reading a lane.  A failed read leaves the lane as it is until a later    *)
(* cycle and changes nothing.                                               *)

\* Without the SDK identity_addr raises, and with it all of serve_agentverse.
HasSdk == "sdk" \notin Faults

SetAside(a, ids, what) ==
  fate' = [fate EXCEPT ![a] = [i \in Item |-> IF i \in ids THEN what ELSE @[i]]]

\* main serves "av" on its ticks and "am", then "e2a", on its own; each read
\* may fail and leave its lane out, so any lane may be next.  Then load_seen and
\* load_attempts: without a seen file the lane is armed with what was read; the
\* av lane is seeded from the file of the former poller if there is one.
ReadLane(a, l) ==
  LET file   == seenFile[a][l]
      seeded == l = "av" /\ Legacy[a].exists IN
  /\ l \in Served
  /\ l = "av" => HasSdk
  /\ lane' = [lane EXCEPT ![a] = l]
  /\ items' = [items EXCEPT ![a] = Listing(a, l)]
  /\ att' = [att EXCEPT ![a] = attFile[a][l]]
  /\ \/ /\ file.exists
        /\ Move(a, "idle", "loop")
        /\ seen' = [seen EXCEPT ![a] = file.ids]
        /\ UNCHANGED fate
     \/ /\ ~ file.exists /\ seeded
        /\ Move(a, "idle", "seed")
        /\ seen' = [seen EXCEPT ![a] = Legacy[a].ids]
        /\ SetAside(a, Legacy[a].ids, "inherited")
     \/ /\ ~ file.exists /\ ~ seeded
        /\ Move(a, "idle", "arm")
        /\ seen' = [seen EXCEPT ![a] = Listing(a, l)]
        /\ SetAside(a, Listing(a, l), "armed")
  /\ UNCHANGED <<boxVars, fileVars, hand, mailed, kills, tries, sent>>

-----------------------------------------------------------------------------
(* The loop of process_lane and serve_agentverse.                           *)

Seen(a, i, what) ==
  /\ seen' = [seen EXCEPT ![a] = @ \cup {i}]
  /\ att' = [att EXCEPT ![a][i] = 0]
  /\ fate' = [fate EXCEPT ![a][i] = what]

\* The loop over the items: the next one not seen is looked at.
Take(a, i) ==
  /\ i \in items[a] \ seen[a]
  /\ Move(a, "loop", IF Verdict(a, lane[a], i) = "answer" THEN "mail" ELSE "sweep")
  /\ items' = [items EXCEPT ![a] = @ \ {i}]
  /\ hand' = [hand EXCEPT ![a] = i]
  /\ tries' = [tries EXCEPT ![a][i] = UpTo(@ + 1)]
  /\ UNCHANGED <<boxVars, fileVars, lane, seen, att, mailed, kills, fate, sent>>

\* It needs no reply.
Sweep(a) ==
  /\ Move(a, "sweep", "loop")
  /\ Seen(a, hand[a], IF Verdict(a, lane[a], hand[a]) = "sweep"
                      THEN "swept" ELSE "transcribed")
  /\ hand' = [hand EXCEPT ![a] = NoItem]
  /\ UNCHANGED <<boxVars, fileVars, lane, items, mailed, kills, tries, sent>>

\* One more reply was taken by a leg; did the process hear of it?
OneMore(tally, leg, heard) ==
  [tally EXCEPT ![leg] = UpTo(@ + 1), !["unheard"] = IF heard THEN @ ELSE UpTo(@ + 1)]

Taken(a, leg, heard) ==
  sent' = [sent EXCEPT ![a][hand[a]] = OneMore(@, leg, heard)]

\* reply, the AgentMail leg: to the inbox of the asker.  Only the shared inbox
\* is read by the fleet.
MailAccepted(a, heard) ==
  LET i == hand[a]
      r == [by |-> a, of |-> i, lane |-> "am"] IN
  /\ Taken(a, "am", heard)
  /\ opInbox' = IF i \in Mail /\ Asker(i) \in Operators \cup {"outside"}
                   /\ \A j \in DOMAIN opInbox : opInbox[j] # r
                THEN Append(opInbox, r) ELSE opInbox

SendMail(a) ==
  /\ Move(a, "mail", "post")
  /\ \/ MailAccepted(a, TRUE) /\ mailed' = [mailed EXCEPT ![a] = TRUE]
     \/ "lost" \in Faults /\ MailAccepted(a, FALSE) /\ UNCHANGED mailed
     \/ UNCHANGED <<sent, opInbox, mailed>>
  /\ UNCHANGED <<arrived, avBox, e2aBox, fileVars, lane, items, seen, att, hand,
                 kills, tries, fate>>

\* What the Agentverse leg is sent to: the reference as it is unless it has an
\* "@", which is looked up; nothing for a sender not known, or oneself.
Target(a, i) ==
  LET l == Letter[i] IN
  IF i \notin Mail THEN "nothing"
  ELSE IF l.ref = "mail"
       THEN IF l.from \in {a, "outside"} \/ ~ HasSdk THEN "nothing" ELSE "address"
  ELSE IF l.ref = "address" /\ l.from = a THEN "nothing"
  ELSE l.ref

\* Agentverse only takes an envelope for an address.
PostAccepted(a, heard) ==
  LET i == hand[a] IN
  /\ Target(a, i) = "address"
  /\ Taken(a, "av", heard)
  /\ avBox' = IF Asker(i) \in Agent
              THEN [avBox EXCEPT ![Asker(i)] = @ \cup {[by |-> a, of |-> i, lane |-> "av"]}]
              ELSE avBox

\* Faulty variants: never dropped; seen whatever the outcome.
OutcomeNeverDrops(a, delivered) ==
  LET i == hand[a]
      n == att[a][i] + 1 IN
  IF delivered THEN Seen(a, i, "answered")
  ELSE /\ att' = [att EXCEPT ![a][i] = IF n < MaxAttempts THEN n ELSE 0]
       /\ UNCHANGED <<seen, fate>>

OutcomeAlwaysSeen(a, delivered) ==
  Seen(a, hand[a], IF delivered THEN "answered" ELSE "dropped")

\* The end of one item: the reply was delivered somewhere, or one more failure
\* is counted and the MaxAttempts-th drops it.
Outcome(a, delivered) ==
  LET i == hand[a]
      n == att[a][i] + 1 IN
  IF delivered THEN Seen(a, i, "answered")
  ELSE IF n >= MaxAttempts THEN Seen(a, i, "dropped")
  ELSE att' = [att EXCEPT ![a][i] = n] /\ UNCHANGED <<seen, fate>>

\* reply, the Agentverse leg, and what process_lane does with the result.
\* Without the SDK the look at oneself raises for a reference that is used as it
\* is, and what the first leg has delivered counts as a failure.
PostRaises(a) == ~ HasSdk /\ Letter[hand[a]].ref \in {"name", "address"}

\* Faulty variant: the result of the second leg replaces that of the first.
SendPostReplaces(a) ==
  /\ Move(a, "post", "loop")
  /\ \/ PostAccepted(a, TRUE) /\ Outcome(a, TRUE)
     \/ Outcome(a, FALSE) /\ UNCHANGED <<avBox, sent>>
  /\ hand' = [hand EXCEPT ![a] = NoItem]
  /\ mailed' = [mailed EXCEPT ![a] = FALSE]
  /\ UNCHANGED <<arrived, e2aBox, opInbox, fileVars, lane, items, kills, tries>>

SendPost(a) ==
  /\ Move(a, "post", "loop")
  /\ \/ HasSdk /\ PostAccepted(a, TRUE) /\ Outcome(a, TRUE)
     \/ HasSdk /\ "lost" \in Faults /\ PostAccepted(a, FALSE) /\ Outcome(a, mailed[a])
     \/ /\ Outcome(a, mailed[a] /\ ~ PostRaises(a))
        /\ UNCHANGED <<avBox, sent>>
  /\ hand' = [hand EXCEPT ![a] = NoItem]
  /\ mailed' = [mailed EXCEPT ![a] = FALSE]
  /\ UNCHANGED <<arrived, e2aBox, opInbox, fileVars, lane, items, kills, tries>>

-----------------------------------------------------------------------------
(* Writing the files: when arming or seeding the seen file only.            *)

LeaveLane(a) ==
  /\ items' = [items EXCEPT ![a] = {}]
  /\ seen' = [seen EXCEPT ![a] = {}]
  /\ att' = [att EXCEPT ![a] = NoAttempts]

WriteSeen(a, ids) ==
  seenFile' = [seenFile EXCEPT ![a][lane[a]] = [exists |-> TRUE, ids |-> ids]]

WriteAttempts(a, counts) == attFile' = [attFile EXCEPT ![a][lane[a]] = counts]

\* Faulty variant: the counts are not written back.
SaveForgets(a) ==
  /\ WriteSeen(a, seen[a])
  /\ \/ Move(a, "arm", "idle") /\ LeaveLane(a) /\ UNCHANGED attFile
     \/ Move(a, "seed", "loop") /\ UNCHANGED <<items, seen, att, attFile>>
     \/ /\ items[a] \subseteq seen[a]
        /\ Move(a, "loop", "idle")
        /\ WriteAttempts(a, NoAttempts)
        /\ LeaveLane(a)
  /\ UNCHANGED <<boxVars, lane, hand, mailed, kills, ghostVars>>

\* save_seen, and after the loop save_attempts.
Save(a) ==
  /\ WriteSeen(a, seen[a])
  /\ \/ Move(a, "arm", "idle") /\ LeaveLane(a) /\ UNCHANGED attFile
     \/ Move(a, "seed", "loop") /\ UNCHANGED <<items, seen, att, attFile>>
     \/ /\ items[a] \subseteq seen[a]
        /\ Move(a, "loop", "idle")
        /\ WriteAttempts(a, att[a])
        /\ LeaveLane(a)
  /\ UNCHANGED <<boxVars, lane, hand, mailed, kills, ghostVars>>

\* The process dies while it writes: the seen file is truncated, or it is new
\* and the attempts file still old, or truncated.
TornSave(a) ==
  \/ /\ pc[a] \in {"arm", "seed"} \/ (pc[a] = "loop" /\ items[a] \subseteq seen[a])
     /\ WriteSeen(a, {})
     /\ UNCHANGED attFile
  \/ /\ pc[a] = "loop" /\ items[a] \subseteq seen[a]
     /\ WriteSeen(a, seen[a])
     /\ UNCHANGED attFile \/ WriteAttempts(a, NoAttempts)

Kill(a) ==
  /\ kills[a] < MaxKills
  /\ pc[a] # "down"
  /\ kills' = [kills EXCEPT ![a] = @ + 1]
  /\ pc' = [pc EXCEPT ![a] = "down"]
  /\ LeaveLane(a)
  /\ hand' = [hand EXCEPT ![a] = NoItem]
  /\ mailed' = [mailed EXCEPT ![a] = FALSE]
  /\ UNCHANGED fileVars \/ TornSave(a)
  /\ UNCHANGED <<boxVars, lane, ghostVars>>

Restart(a) ==
  /\ Move(a, "down", "idle")
  /\ UNCHANGED <<boxVars, fileVars, lane, items, seen, att, hand, mailed, kills,
                 ghostVars>>

-----------------------------------------------------------------------------

Init ==
  /\ arrived = UNION {Legacy[a].ids : a \in Agent}
  /\ avBox = [a \in Agent |-> Legacy[a].ids]
  /\ e2aBox = [a \in Agent |-> {}]
  /\ opInbox = <<>>
  /\ seenFile = [a \in Agent |-> [l \in Lane |-> [exists |-> FALSE, ids |-> {}]]]
  /\ attFile = [a \in Agent |-> [l \in Lane |-> NoAttempts]]
  /\ pc = [a \in Agent |-> "idle"]
  /\ lane = [a \in Agent |-> "av"]
  /\ items = [a \in Agent |-> {}]
  /\ seen = [a \in Agent |-> {}]
  /\ att = [a \in Agent |-> NoAttempts]
  /\ hand = [a \in Agent |-> NoItem]
  /\ mailed = [a \in Agent |-> FALSE]
  /\ kills = [a \in Agent |-> 0]
  /\ tries = [a \in Agent |-> [i \in Item |-> 0]]
  /\ fate = [a \in Agent |-> [i \in Item |-> "open"]]
  /\ sent = [a \in Agent |-> [i \in Item |-> [n \in Tally |-> 0]]]

\* What a process does once it has read a lane.
Serve(a) ==
  \/ \E i \in Item : Take(a, i)
  \/ Sweep(a) \/ SendMail(a) \/ SendPost(a) \/ Save(a)

Next ==
  \/ \E m \in Mail : Arrive(m)
  \/ \E a \in Agent :
       \/ \E l \in Lane : ReadLane(a, l)
       \/ Serve(a) \/ Kill(a) \/ Restart(a)

Spec == Init /\ [][Next]_vars

\* A process that is up goes on (every request has a timeout), the keeper
\* restarts one that is down, and no lane fails to be read for ever.
Fairness ==
  \A a \in Agent :
    /\ WF_vars(Serve(a)) /\ WF_vars(Restart(a))
    /\ \A l \in Lane : SF_vars(ReadLane(a, l))

FairSpec == Spec /\ Fairness

-----------------------------------------------------------------------------
(* Properties *)

PC == {"idle", "loop", "seed", "arm", "sweep", "mail", "post", "down"}

Fate == {"open", "armed", "inherited", "swept", "transcribed", "answered",
         "dropped"}

Counts == [Item -> 0..(MaxAttempts - 1)]

\* Types of the fleet's state: no attempts count ever reaches the limit.
TypeOK ==
  /\ arrived \subseteq Mail
  /\ avBox \in [Agent -> SUBSET Item]
  /\ e2aBox \in [Agent -> SUBSET Mail]
  /\ opInbox \in Seq(Item)
  /\ seenFile \in [Agent -> [Lane -> [exists: BOOLEAN, ids: SUBSET Item]]]
  /\ attFile \in [Agent -> [Lane -> Counts]]
  /\ pc \in [Agent -> PC]
  /\ lane \in [Agent -> Lane]
  /\ items \in [Agent -> SUBSET Item]
  /\ seen \in [Agent -> SUBSET Item]
  /\ att \in [Agent -> Counts]
  /\ hand \in [Agent -> Item \cup {NoItem}]
  /\ mailed \in [Agent -> BOOLEAN]
  /\ kills \in [Agent -> 0..MaxKills]
  /\ tries \in [Agent -> [Item -> 0..Cap]]
  /\ fate \in [Agent -> [Item -> Fate]]
  /\ sent \in [Agent -> [Item -> [Tally -> 0..Cap]]]

Answered(a, i) == sent[a][i]["am"] > 0 \/ sent[a][i]["av"] > 0

\* An inbound reply is never answered, on whatever lane it comes and whoever of
\* the fleet reads it: two agents never keep each other talking ("reply from" is
\* terminal, handle and _handle_decoded).
RepliesEndIt == \A a \in Agent : \A r \in ReplyItem : ~ Answered(a, r)

\* An agent answers nothing but what is in its own mailboxes and what, in the
\* inbox it shares with the whole fleet, its subject does not address to
\* another (the recipient filter of handle).
OwnMailOnly ==
  \A a \in Agent : \A m \in Mail :
    Answered(a, m) =>
      IF Letter[m].lane = "am" THEN Letter[m].to \in {a, "none"}
                               ELSE Letter[m].box = a

\* Whatever a lane has recorded as seen, in its file or in the process that will
\* write it, was set aside when the lane was armed or seeded, needed no answer,
\* was answered, or was tried MaxAttempts times; kills and torn files change
\* nothing about it.
SeenIsEarned ==
  \A a \in Agent, i \in Item :
    i \in seen[a] \cup UNION {seenFile[a][l].ids : l \in Lane} =>
      \/ fate[a][i] \in {"armed", "inherited", "swept", "transcribed"}
      \/ Answered(a, i)
      \/ tries[a][i] >= MaxAttempts

\* reply is "True when delivered somewhere", and what was delivered is not tried
\* again: on either leg an item is answered once, and once more at most for each
\* kill and each reply that was taken while the process heard of a failure (where
\* the SDK is installed: without it reply raises after its first leg).
AnswersAccounted ==
  \A a \in Agent, i \in Item : \A leg \in {"am", "av"} :
    sent[a][i][leg] <= 1 + kills[a] + sent[a][i]["unheard"]

Recipient(m) == IF Letter[m].lane = "am" THEN Letter[m].to ELSE Letter[m].box

\* Every piece of mail for an agent is settled by it in the end, whatever lane it
\* comes on, though the process is killed between any two steps.
EveryMailSettles ==
  \A m \in Mail, a \in Agent :
    (m \in arrived /\ a = Recipient(m)) ~> (fate[a][m] # "open")

LaneItem(l) == {m \in Mail : Letter[m].lane = l} \cup {r \in ReplyItem : r.lane = l}

InLane(a, l) == CASE l = "av"  -> avBox[a]
                  [] l = "am"  -> {opInbox[i] : i \in DOMAIN opInbox}
                  [] l = "e2a" -> e2aBox[a]

\* What the desk calls the fates of an item.
AsDesk(f) == IF f = "inherited" THEN "armed"
             ELSE IF f \in {"swept", "transcribed", "answered"} THEN "handled" ELSE f

\* The process works on this lane: it has its files in memory.
OnLane(a, l) == lane[a] = l /\ pc[a] \notin {"idle", "down"}

\* What an agent remembers of a lane: the items it is done with, and of the others
\* the failures, the try under way included.
Memory(a, l) == IF OnLane(a, l) THEN seen[a] ELSE seenFile[a][l].ids

Failures(a, l, i) ==
  (IF OnLane(a, l) THEN att[a][i] ELSE attFile[a][l][i])
    + (IF pc[a] \in {"sweep", "mail", "post"} /\ hand[a] = i THEN 1 ELSE 0)

Tried(a, l) == [i \in LaneItem(l) |->
                  IF i \in Memory(a, l) THEN 0 ELSE Failures(a, l, i)]
Decided(a, l) == [i \in LaneItem(l) |->
                    IF i \in Memory(a, l) THEN AsDesk(fate[a][i]) ELSE "open"]

Stage(a, l) ==
  IF seenFile[a][l].exists THEN "armed"
  ELSE IF lane[a] = l /\ pc[a] \in {"arm", "seed"} THEN "arming" ELSE "new"

Desk(a, l) == INSTANCE AnswerDesk WITH
  Msg     <- LaneItem(l),
  arrived <- InLane(a, l),
  stage   <- Stage(a, l),
  tries   <- Tried(a, l),
  fate    <- Decided(a, l),
  crashes <- kills[a]

\* Every lane of every agent implements an answering desk, the kills of its process
\* being the desk's crashes (process_lane, serve_agentverse).
LanesAreDesks ==
  /\ \A a \in Agent, l \in Lane : Desk(a, l)!Init
  /\ [][\A a \in Agent, l \in Lane : [Desk(a, l)!Next]_(Desk(a, l)!vars)]_vars

-----------------------------------------------------------------------------
(* What the repository says of the unified poller and the code does not do *)

\* "every inbound reply is transcribed .. before being swept": the reply to a
\* mail an agent has sent is in its log once the agent has seen it.
RepliesTranscribed ==
  \A a \in Agent : \A r \in ReplyItem :
    Asker(r.of) = a => fate[a][r] # "swept"

=============================================================================
