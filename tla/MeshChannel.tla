---------------------------- MODULE MeshChannel ----------------------------
(***************************************************************************)
(* The mesh channel of agent-two (omega_mesh_channel.py): mail from peers in *)
(* the shared AgentMail inbox is put into the agent's own chat queue, each   *)
(* peer under a chat id of its own, and what the agent sends to such an id   *)
(* is mailed back to the peer.  Its owner may also have it ask a peer        *)
(* (initiate), and is told when the peer's reply is read.                    *)
(*                                                                         *)
(* Two threads share the state without a lock: the poll thread (_poll) and   *)
(* the chat thread, which calls initiate and send.  Three files keep it      *)
(* over a restart: SEEN and PEERS, written one after the other by _save, and *)
(* _PENDF.  Each is rewritten in place; a killed process leaves it old, new  *)
(* or truncated (Torn).                                                      *)
(***************************************************************************)
EXTENDS Integers, Sequences, FiniteSets

CONSTANTS
  Peer,
  Mail, FromPeer, Form, \* what may arrive: from whom, and what it is
  Ask, ToPeer, Owner,   \* the calls of initiate: to whom, for which chat
  Window,   \* the listing is of the newest so many (limit=20)
  Torn,     \* the files a kill may leave truncated
  Faults,   \* "fetch": reading a message's body raises;  "notify": telling
            \* the owner does;  "send": mailing the question does
  MaxKills  \* bound: how often the process is killed

\* "task" and "reply" are mail to agent-two with a body; "noise" is the rest
\* (other addressees, an empty body).
MailForm == {"task", "reply", "noise"}

ASSUME MeshAssumption ==
  /\ IsFiniteSet(Peer)
  /\ FromPeer \in [Mail -> Peer]
  /\ Form \in [Mail -> MailForm]
  /\ ToPeer \in [Ask -> Peer]
  /\ Owner \in [Ask -> STRING]
  /\ Window \in Nat \ {0}
  /\ Torn \subseteq {"seen", "peers", "pend"}
  /\ Faults \subseteq {"fetch", "notify", "send"}
  /\ MaxKills \in Nat
  /\ Mail \cap Ask = {} /\ "none" \notin Mail \cup Ask

VARIABLES
  inbox,    \* the mail in the shared inbox, oldest first (external); what
            \* initiate mails shows up there too
  seenFile, peersFile, pendFile,    \* the three files
  seen, peers, pending, first,      \* _seen, _peers, _pending; first of _poll
  pc, todo, cur, owed,              \* the poll thread
  chat, ask,                        \* the chat thread
  kills,
  enqueued, \* how often each mail was put into the chat queue
  handed,   \* the chat ids it was put there under: <<peer, id>>
  armed,    \* the mail set aside by the first poll
  told,     \* the owners told of a reply: <<owner, mail>>
  missed,   \* mail whose body could not be fetched, or that a kill took out of
            \* hand when its mark was in the file
  forgotten \* owners whom telling raised for, whose entry no file had at a kill, or
            \* whose entry a question saved before _pend_load dropped from the file

diskVars == <<seenFile, peersFile, pendFile>>
pollVars == <<pc, todo, cur, owed>>
chatVars == <<chat, ask>>
ghostVars == <<enqueued, handed, armed, told, missed, forgotten>>
vars == <<inbox, diskVars, seen, peers, pending, first, pollVars, chatVars, kills,
          ghostVars>>

Item == Mail \cup Ask
None == "none"

NoPeers   == [p \in Peer |-> 0]
NoPending == [p \in Peer |-> None]

Known(ids) == {p \in Peer : ids[p] # 0}

\* The owners of a pending dictionary.
Entries(dict) == {dict[p] : p \in Peer} \ {None}

Move(from, to) == pc = from /\ pc' = to

-----------------------------------------------------------------------------
(* AgentMail *)

Arrive(m) ==
  /\ \A i \in DOMAIN inbox : inbox[i] # m
  /\ inbox' = Append(inbox, m)
  /\ UNCHANGED <<diskVars, seen, peers, pending, first, pollVars, chatVars, kills,
                 ghostVars>>

-----------------------------------------------------------------------------
(* _poll *)

\* The poll thread holds a message it has yet to enqueue.
InHand == pc \in {"fetch", "pendSave", "notify", "id", "idSave", "enqueue"}

\* Faulty variant: the file is not read again after a restart.
PendLoadSkips ==
  /\ Move("idle", "list")
  /\ UNCHANGED <<inbox, diskVars, seen, peers, pending, first, todo, cur, owed, chatVars,
                 kills, ghostVars>>

\* _pend_load: the entries of the file replace those in memory.
PendLoad ==
  /\ Move("idle", "list")
  /\ pending' = [p \in Peer |-> IF pendFile[p] # None THEN pendFile[p] ELSE pending[p]]
  /\ UNCHANGED <<inbox, diskVars, seen, peers, first, todo, cur, owed, chatVars,
                 kills, ghostVars>>

Newest == IF Len(inbox) <= Window THEN inbox
          ELSE SubSeq(inbox, Len(inbox) - Window + 1, Len(inbox))

\* The listing; the very first one is set aside.  (A failed one ends the cycle.)
List ==
  /\ todo' = Newest
  /\ IF first
     THEN /\ Move("list", "arm")
          /\ seen' = {Newest[i] : i \in DOMAIN Newest}
          /\ armed' = armed \cup seen'
          /\ first' = FALSE
     ELSE /\ Move("list", "loop")
          /\ UNCHANGED <<seen, armed, first>>
  /\ UNCHANGED <<inbox, diskVars, peers, pending, cur, owed, chatVars, kills,
                 enqueued, handed, told, missed, forgotten>>

ListFails ==
  /\ Move("list", "idle")
  /\ UNCHANGED <<inbox, diskVars, seen, peers, pending, first, todo, cur, owed,
                 chatVars, kills, ghostVars>>

WriteState == /\ seenFile' = [exists |-> TRUE, ids |-> seen]
              /\ peersFile' = [readable |-> TRUE, ids |-> peers]

\* _save, after arming, after mail that is not enqueued, and in peer_id.
Save ==
  /\ Move("arm", "loop") \/ Move("skip", "loop") \/ Move("idSave", "enqueue")
  /\ WriteState
  /\ UNCHANGED <<inbox, pendFile, seen, peers, pending, first, todo, cur, owed,
                 chatVars, kills, ghostVars>>

\* Faulty variant: a message is only marked seen by the save that follows it.
TakeNextUnseen ==
  /\ todo # <<>>
  /\ todo' = Tail(todo)
  /\ IF Head(todo) \in seen
     THEN Move("loop", "loop") /\ UNCHANGED cur
     ELSE /\ cur' = Head(todo)
          /\ Move("loop", IF Head(todo) \in Mail /\ Form[Head(todo)] # "noise"
                          THEN "fetch" ELSE "skip")
  /\ UNCHANGED <<inbox, diskVars, seen, peers, pending, first, owed, chatVars,
                 kills, ghostVars>>

\* Faulty variant: what is listed is marked seen all together.
TakeNextMarksAll ==
  /\ todo # <<>>
  /\ todo' = Tail(todo)
  /\ seen' = seen \cup {todo[i] : i \in DOMAIN todo}
  /\ cur' = Head(todo)
  /\ Move("loop", IF Head(todo) \in Mail /\ Form[Head(todo)] # "noise"
                  THEN "fetch" ELSE "skip")
  /\ UNCHANGED <<inbox, diskVars, peers, pending, first, owed, chatVars, kills,
                 ghostVars>>

\* The next message: one that is new is marked seen at once.
TakeNext ==
  /\ todo # <<>>
  /\ todo' = Tail(todo)
  /\ IF Head(todo) \in seen
     THEN Move("loop", "loop") /\ UNCHANGED <<seen, cur>>
     ELSE /\ seen' = seen \cup {Head(todo)}
          /\ cur' = Head(todo)
          /\ Move("loop", IF Head(todo) \in Mail /\ Form[Head(todo)] # "noise"
                          THEN "fetch" ELSE "skip")
  /\ UNCHANGED <<inbox, diskVars, peers, pending, first, owed, chatVars, kills,
                 ghostVars>>

\* Faulty variant: every cycle sets aside what it lists.
EndCycleRearms ==
  /\ todo = <<>>
  /\ Move("loop", "idle")
  /\ first' = TRUE
  /\ UNCHANGED <<inbox, diskVars, seen, peers, pending, todo, cur, owed,
                 chatVars, kills, ghostVars>>

EndCycle ==
  /\ todo = <<>>
  /\ Move("loop", "idle")
  /\ UNCHANGED <<inbox, diskVars, seen, peers, pending, first, todo, cur, owed,
                 chatVars, kills, ghostVars>>

\* The body is fetched.  If that raises, the cycle ends.  If the owner waits for
\* this peer's reply, the owner is taken from _pending.
Fetch ==
  LET p == FromPeer[cur] IN
  /\ pc = "fetch"
  /\ IF Form[cur] = "reply" /\ pending[p] # None
     THEN /\ Move("fetch", "pendSave")
          /\ owed' = pending[p]
          /\ pending' = [pending EXCEPT ![p] = None]
     ELSE Move("fetch", "id") /\ UNCHANGED <<owed, pending>>
  /\ UNCHANGED <<inbox, diskVars, seen, peers, first, todo, cur, chatVars, kills,
                 ghostVars>>

FetchFails ==
  /\ "fetch" \in Faults
  /\ Move("fetch", "idle")
  /\ missed' = missed \cup {cur}
  /\ UNCHANGED <<inbox, diskVars, seen, peers, pending, first, todo, cur, owed,
                 chatVars, kills, enqueued, handed, armed, told, forgotten>>

PendSave ==
  /\ Move("pendSave", "notify")
  /\ pendFile' = pending
  /\ UNCHANGED <<inbox, seenFile, peersFile, seen, peers, pending, first, todo,
                 cur, owed, chatVars, kills, ghostVars>>

Notify ==
  /\ Move("notify", "id")
  /\ \/ told' = told \cup {<<owed, cur>>} /\ UNCHANGED forgotten
     \/ "notify" \in Faults /\ forgotten' = forgotten \cup {owed} /\ UNCHANGED told
  /\ owed' = None
  /\ UNCHANGED <<inbox, diskVars, seen, peers, pending, first, todo, cur, chatVars,
                 kills, enqueued, handed, armed, missed>>

\* Faulty variant: a new id is saved after the mail is enqueued, with the next
\* message that is skipped.
PeerIdUnsaved ==
  LET p == FromPeer[cur] IN
  /\ Move("id", "enqueue")
  /\ IF peers[p] # 0
     THEN UNCHANGED peers
     ELSE peers' = [peers EXCEPT ![p] = Cardinality(Known(peers)) + 1]
  /\ UNCHANGED <<inbox, diskVars, seen, pending, first, todo, cur, owed, chatVars,
                 kills, ghostVars>>

\* Faulty variant: ids are numbered from BASE itself.
PeerIdFromZero ==
  LET p == FromPeer[cur] IN
  /\ pc = "id"
  /\ IF peers[p] # 0
     THEN Move("id", "enqueue") /\ UNCHANGED peers
     ELSE /\ Move("id", "idSave")
          /\ peers' = [peers EXCEPT ![p] = Cardinality(Known(peers))]
  /\ UNCHANGED <<inbox, diskVars, seen, pending, first, todo, cur, owed, chatVars,
                 kills, ghostVars>>

\* peer_id
PeerId ==
  LET p == FromPeer[cur] IN
  /\ pc = "id"
  /\ IF peers[p] # 0
     THEN Move("id", "enqueue") /\ UNCHANGED peers
     ELSE /\ Move("id", "idSave")
          /\ peers' = [peers EXCEPT ![p] = Cardinality(Known(peers)) + 1]
  /\ UNCHANGED <<inbox, diskVars, seen, pending, first, todo, cur, owed, chatVars,
                 kills, ghostVars>>

Enqueue ==
  /\ Move("enqueue", "loop")
  /\ enqueued' = [enqueued EXCEPT ![cur] = IF @ < MaxKills + 2 THEN @ + 1 ELSE @]
  /\ handed' = handed \cup {<<FromPeer[cur], peers[FromPeer[cur]]>>}
  /\ UNCHANGED <<inbox, diskVars, seen, peers, pending, first, todo, cur, owed,
                 chatVars, kills, armed, told, missed, forgotten>>

Poll ==
  \/ PendLoad \/ List \/ Save \/ TakeNext \/ EndCycle \/ Fetch \/ PendSave \/ Notify
  \/ PeerId \/ Enqueue

-----------------------------------------------------------------------------
(* initiate: remembered, saved, mailed. *)

Initiate(a) ==
  /\ chat[a] = "new"
  /\ ask = None
  /\ ask' = a
  /\ chat' = [chat EXCEPT ![a] = "save"]
  /\ pending' = [pending EXCEPT ![ToPeer[a]] = Owner[a]]
  /\ UNCHANGED <<inbox, diskVars, seen, peers, first, pollVars, kills, ghostVars>>

InitiateSaves(a) ==
  /\ chat[a] = "save"
  /\ chat' = [chat EXCEPT ![a] = "mail"]
  /\ pendFile' = pending
  /\ forgotten' = forgotten \cup (Entries(pendFile) \ (Entries(pending) \cup {owed}))
  /\ UNCHANGED <<inbox, seenFile, peersFile, seen, peers, pending, first, pollVars,
                 ask, kills, enqueued, handed, armed, told, missed>>

InitiateMails(a) ==
  /\ chat[a] = "mail"
  /\ \/ chat' = [chat EXCEPT ![a] = "asked"] /\ inbox' = Append(inbox, a)
     \/ /\ "send" \in Faults
        /\ chat' = [chat EXCEPT ![a] = "failed"]
        /\ UNCHANGED inbox
  /\ ask' = None
  /\ UNCHANGED <<diskVars, seen, peers, pending, first, pollVars, kills, ghostVars>>

Chat(a) == Initiate(a) \/ InitiateSaves(a) \/ InitiateMails(a)

\* send: the peer a chat id stands for now.
Addressee(id) == {p \in Peer : peers[p] = id}

-----------------------------------------------------------------------------
(* The process is killed, maybe while it writes, and started again. *)

TornWrites ==
  \/ /\ pc \in {"arm", "skip", "idSave"}
     /\ \/ "seen" \in Torn /\ seenFile' = [exists |-> TRUE, ids |-> {}] /\ UNCHANGED peersFile
        \/ /\ seenFile' = [exists |-> TRUE, ids |-> seen]
           /\ \/ UNCHANGED peersFile
              \/ "peers" \in Torn /\ peersFile' = [readable |-> FALSE, ids |-> NoPeers]
     /\ UNCHANGED pendFile
  \/ /\ pc = "pendSave" \/ (ask # None /\ chat[ask] = "save")
     /\ "pend" \in Torn
     /\ pendFile' = NoPending
     /\ UNCHANGED <<seenFile, peersFile>>

Kill ==
  /\ kills < MaxKills
  /\ pc # "down"
  /\ kills' = kills + 1
  /\ pc' = "down"
  /\ UNCHANGED diskVars \/ TornWrites
  /\ missed' = IF InHand /\ cur \in seenFile'.ids THEN missed \cup {cur} ELSE missed
  /\ forgotten' = forgotten \cup
       ((Entries(pending) \cup Entries(pendFile) \cup {owed}) \ (Entries(pendFile') \cup {None}))
  /\ todo' = <<>> /\ cur' = None /\ owed' = None
  /\ ask' = None
  /\ chat' = IF ask = None THEN chat ELSE [chat EXCEPT ![ask] = "failed"]
  /\ UNCHANGED <<inbox, seen, peers, pending, first, enqueued, handed, armed, told>>

\* start: PEERS first and SEEN then, in one try.
Start ==
  /\ Move("down", "idle")
  /\ peers' = IF peersFile.readable THEN peersFile.ids ELSE NoPeers
  /\ seen' = IF peersFile.readable THEN seenFile.ids ELSE {}
  /\ pending' = NoPending
  /\ first' = ~ seenFile.exists
  /\ UNCHANGED <<inbox, diskVars, todo, cur, owed, chatVars, kills, ghostVars>>

-----------------------------------------------------------------------------

Init ==
  /\ inbox = <<>>
  /\ seenFile = [exists |-> FALSE, ids |-> {}]
  /\ peersFile = [readable |-> FALSE, ids |-> NoPeers]
  /\ pendFile = NoPending
  /\ seen = {} /\ peers = NoPeers /\ pending = NoPending /\ first = TRUE
  /\ pc = "idle" /\ todo = <<>> /\ cur = None /\ owed = None
  /\ chat = [a \in Ask |-> "new"] /\ ask = None
  /\ kills = 0
  /\ enqueued = [m \in Mail |-> 0]
  /\ handed = {} /\ armed = {} /\ told = {}
  /\ missed = {} /\ forgotten = {}

Next ==
  \/ \E m \in Mail : Arrive(m)
  \/ Poll \/ ListFails \/ FetchFails
  \/ pc # "down" /\ \E a \in Ask : Chat(a)
  \/ Kill \/ Start

Spec == Init /\ [][Next]_vars

\* The threads go on (every request has a timeout), and the process is started
\* again.
Fairness == WF_vars(Poll) /\ WF_vars(Start) /\ SF_vars(List)

FairSpec == Spec /\ Fairness

-----------------------------------------------------------------------------
(* Properties *)

PC == {"idle", "list", "arm", "loop", "skip", "fetch", "pendSave", "notify", "id",
       "idSave", "enqueue", "down"}

Owners == {Owner[a] : a \in Ask}
Ids    == [Peer -> 0..Cardinality(Peer)]

\* Types of the channel's state: chat ids are numbered from 1.
TypeOK ==
  /\ inbox \in Seq(Item)
  /\ seenFile \in [exists: BOOLEAN, ids: SUBSET Item]
  /\ peersFile \in [readable: BOOLEAN, ids: Ids]
  /\ pendFile \in [Peer -> Owners \cup {None}]
  /\ seen \subseteq Item
  /\ peers \in Ids
  /\ pending \in [Peer -> Owners \cup {None}]
  /\ first \in BOOLEAN
  /\ pc \in PC
  /\ todo \in Seq(Item)
  /\ cur \in Item \cup {None}
  /\ owed \in Owners \cup {None}
  /\ chat \in [Ask -> {"new", "save", "mail", "asked", "failed"}]
  /\ ask \in Ask \cup {None}
  /\ kills \in 0..MaxKills
  /\ enqueued \in [Mail -> 0..(MaxKills + 2)]
  /\ handed \subseteq Peer \X (1..Cardinality(Peer))
  /\ armed \subseteq Item
  /\ told \subseteq Owners \X Mail
  /\ missed \subseteq Mail
  /\ forgotten \subseteq Owners

ToAgent(m) == Form[m] # "noise"
InInbox(i) == \E j \in DOMAIN inbox : inbox[j] = i

\* The mail that can be the reply to a question.
RepliesTo(a) == {m \in Mail : Form[m] = "reply" /\ FromPeer[m] = ToPeer[a]}

\* What the agent answers under a chat id goes to the peer it was given the id
\* for, over restarts too, and to no one else, unless a kill tears PEERS itself
\* (peer_id, _save and start).
AnswersGoBack ==
  "peers" \notin Torn => \A h \in handed : Addressee(h[2]) = {h[1]}

\* A message is put into the chat queue once, though it stays in the listing and
\* its mark is not saved until later; each further time is paid for by a kill.
QueuedOnce == \A m \in Mail : enqueued[m] <= 1 + kills

\* Mail for the agent whose mark is in the file, so that no restart takes it up again,
\* was put into the chat queue, is in hand, or was set aside when the channel was
\* armed; or a kill took it out of hand or its body could not be fetched.
MarkedIsQueued ==
  \A m \in Mail :
    m \in seenFile.ids /\ ToAgent(m)
      => enqueued[m] > 0 \/ (InHand /\ cur = m) \/ m \in armed \cup missed

\* Mail for the agent that comes after the channel was armed is put into its
\* chat queue, whatever failed on other mail and over kills, unless its own body
\* could not be fetched or a kill struck after its mark was saved (peer_id) and
\* before it was enqueued.
MailIsQueued ==
  \A m \in Mail :
    (seenFile.exists /\ InInbox(m) /\ ToAgent(m) /\ m \notin armed)
      ~> (enqueued[m] > 0 \/ m \in missed)

\* The owner who had the agent ask a peer is told of the reply (or was told of an
\* earlier one), whatever the two threads do to the dictionary and its file
\* meanwhile and over kills, when no other question went to that peer; unless
\* reading a reply or telling him raised, no file had his entry at a kill, or a
\* question after a restart was saved over it.
OwnerIsTold ==
  \A a \in Ask : \A m \in RepliesTo(a) :
    (/\ chat[a] = "asked" /\ \A b \in Ask \ {a} : ToPeer[b] # ToPeer[a]
     /\ seenFile.exists /\ InInbox(m) /\ m \notin seen)
      ~> (\/ \E n \in Mail : <<Owner[a], n>> \in told
          \/ RepliesTo(a) \cap missed # {}
          \/ Owner[a] \in forgotten)

=============================================================================
