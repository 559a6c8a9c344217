------------------------------- MODULE A2AHub -------------------------------
(***************************************************************************)
(* The hub process (a2a_hub.py): the HTTP handler threads that accept and  *)
(* cancel tasks, one _route daemon thread per accepted task, and the       *)
(* poll_loop thread that matches replies to open tasks.  The threads share *)
(* `tasks`, `_seen_reply_ids` and the per-peer JSONL files without a lock. *)
(*                                                                         *)
(* Every status change goes through _set_status, which is not atomic: the  *)
(* entry is changed, then (terminal status, webhook configured) the        *)
(* webhook is called, then the entry AS IT IS BY THEN is serialised and    *)
(* appended to the file.  Each of these is a step of its own here, and any *)
(* other thread may run in between.  The assignments to one entry made     *)
(* next to each other (status, history, result) are one step.  The lines   *)
(* of the files and the history are kept as sets: build_transcript sorts   *)
(* the lines by their time stamp, so their order in a file means nothing.  *)
(*                                                                         *)
(* A lane send is two steps as well: the service takes the message or not, *)
(* and then the hub gets its answer; the peer may reply in between.        *)
(***************************************************************************)
EXTENDS TransportChain, FiniteSets

CONSTANTS
  Task,        \* the SendMessage requests clients may make
  Id, IdOf,    \* the task id (messageId) of each; clients may reuse an id
  Peer, PeerOf,\* the peer each is addressed to
  Usable,      \* peers.json and the hub's keys: the usable lanes of a peer
  Transport,   \* A2A_TRANSPORT
  AVRetry,     \* A2A_AV_RETRY_MIN: agentverse attempts before falling through
  Push,        \* is a webhook configured (A2A_PUSH_WEBHOOK...)
  Reply,       \* the messages peers may leave in their inbox as answers
  ReplyPeer, ReplyId,
  Canceler,    \* the tasks/cancel requests clients may make
  CancelId,
  Faults       \* which of the faults below the environment may inject

\* "persist": appending to the JSONL file raises;  "peers": peers.json cannot be
\* parsed;  "raise": a lane raises instead of returning an error (am_send reads
\* its key outside its try, the lane modules are imported at send time);
\* "lost": the service takes the message but the hub gets an error.
FaultKind == {"persist", "peers", "raise", "lost"}

ASSUME HubAssumption ==
  /\ IdOf \in [Task -> Id]
  /\ PeerOf \in [Task -> Peer]
  /\ Usable \in [Peer -> SUBSET Lane]
  /\ AVRetry \in Nat \ {0}
  /\ Push \in BOOLEAN
  /\ ReplyPeer \in [Reply -> Peer]
  /\ ReplyId \in [Reply -> Id]
  /\ CancelId \in [Canceler -> Id]
  /\ Faults \subseteq FaultKind

Thread == Task \cup Canceler \cup {"poller"}
NoTask == "none"
NoReply == "none"

Terminal == {"completed", "failed", "canceled"}
Open     == {"submitted", "working"}
Status   == Open \cup Terminal

\* entry["result"]: nothing, the note of a delivery, of a failed delivery
\* ("[hub] delivery failed ..."), of an exception in the route ("[hub] ROUTE
\* EXCEPTION ...") or of a cancellation, the constant "replied" the poll loop
\* passes as its note, or what a peer replied.
Note == {"none", "delivered", "undelivered", "exception", "canceled", "replied"}
Result == Note \cup Reply

\* Threads are told apart, no task is taken for "none" and no reply for a note.
ASSUME DistinctAssumption ==
  /\ Task \cap Canceler = {}
  /\ "poller" \notin Task \cup Canceler
  /\ "none" \notin Task
  /\ Note \cap Reply = {}

VARIABLES
  order,    \* the accepted entries, oldest first (`tasks`)
  status, history, result,  \* fields of the entry of each task
  pc,       \* control point of each thread
  frame,    \* the _set_status call a thread is in (and its two continuations)
  pos,      \* _route: position in the chain
  avTried,  \* _route: av_tried
  lastErr,  \* _route: the keys of last_err
  copies,   \* copies of the task the lane services have taken (external)
  acked,    \* the lanes whose answer was a success
  inbox,    \* the replies that have reached the peers' inboxes (external)
  seen,     \* _seen_reply_ids
  scan,     \* poll loop: the reply in hand and the position in tasks[peer]
  log,      \* the lines of the JSONL files
  hooks     \* the webhook payloads sent

entryVars == <<order, status, history, result>>
routeVars == <<pos, avTried, lastErr, copies, acked>>
pollVars  == <<inbox, seen, scan>>
vars == <<entryVars, pc, frame, routeVars, pollVars, log, hooks>>

SavePC  == {"push", "persist"}
RoutePC == {"start", "load", "send", "taken", "refused", "except"}
PC == SavePC \cup RoutePC \cup
      {"idle", "scan", "act", "cancel", "done", "died", "dead"}

Line == [task: Task, status: Status]

NoFrame == [task |-> NoTask, next |-> "idle", err |-> "idle"]

ChainOf(t) == Chain(Usable[PeerOf[t]], Transport)
LaneOf(t)  == ChainOf(t)[pos[t]]

Accepted == {order[i] : i \in DOMAIN order}

-----------------------------------------------------------------------------
(* _set_status, called by thread th on task t; the thread goes on at `next` *)
(* when it returns and at `err` when the append raises.                     *)

\* Faulty variant: the webhook is only called on success.
SetStatusNoFailPush(th, t, new, note, next, err) ==
  /\ status'  = [status EXCEPT ![t] = new]
  /\ history' = [history EXCEPT ![t] = @ \cup {new}]
  /\ result'  = [result EXCEPT ![t] = IF note = "none" THEN @ ELSE note]
  /\ frame'   = [frame EXCEPT ![th] = [task |-> t, next |-> next, err |-> err]]
  /\ pc'      = [pc EXCEPT ![th] =
                   IF new = "completed" /\ Push THEN "push" ELSE "persist"]
  /\ UNCHANGED <<order, log, hooks>>

SetStatus(th, t, new, note, next, err) ==
  /\ status'  = [status EXCEPT ![t] = new]
  /\ history' = [history EXCEPT ![t] = @ \cup {new}]
  /\ result'  = [result EXCEPT ![t] = IF note = "none" THEN @ ELSE note]
  /\ frame'   = [frame EXCEPT ![th] =
                   [task |-> t, next |-> next, err |-> err]]
  /\ pc'      = [pc EXCEPT ![th] =
                   IF new \in {"completed", "failed"} /\ Push
                   THEN "push" ELSE "persist"]
  /\ UNCHANGED <<order, log, hooks>>

\* _push: the payload is built from the entry as it is now; a failed call is
\* only printed.
PushHook(th) ==
  LET t == frame[th].task IN
  /\ pc[th] = "push"
  /\ hooks' = hooks \cup {[task |-> t, status |-> status[t]]}
  /\ pc' = [pc EXCEPT ![th] = "persist"]
  /\ UNCHANGED <<entryVars, frame, routeVars, pollVars, log>>

\* Faulty variant: only the outcomes of deliveries are kept.
PersistOutcome(th) ==
  LET t == frame[th].task IN
  /\ pc[th] = "persist"
  /\ log' = IF status[t] \in {"completed", "failed"}
            THEN log \cup {[task |-> t, status |-> status[t]]} ELSE log
  /\ pc' = [pc EXCEPT ![th] = frame[th].next]
  /\ frame' = [frame EXCEPT ![th] = NoFrame]
  /\ UNCHANGED <<entryVars, routeVars, pollVars, hooks>>

\* _persist: the entry as it is now is appended to the peer's file.
Persist(th) ==
  LET t == frame[th].task IN
  /\ pc[th] = "persist"
  /\ log' = log \cup {[task |-> t, status |-> status[t]]}
  /\ pc' = [pc EXCEPT ![th] = frame[th].next]
  /\ frame' = [frame EXCEPT ![th] = NoFrame]
  /\ UNCHANGED <<entryVars, routeVars, pollVars, hooks>>

\* _persist raises (directory missing, disk full, ...): nothing is appended.
PersistFails(th) ==
  /\ "persist" \in Faults
  /\ pc[th] = "persist"
  /\ pc' = [pc EXCEPT ![th] = frame[th].err]
  /\ frame' = [frame EXCEPT ![th] = NoFrame]
  /\ UNCHANGED <<entryVars, routeVars, pollVars, log, hooks>>

Save(th) == PushHook(th) \/ Persist(th) \/ PersistFails(th)

-----------------------------------------------------------------------------
(* do_POST: SendMessage.  The entry is created and its route thread started *)
(* (a request without a prompt, or with another method, changes nothing).   *)

SendMessage(t) ==
  /\ t \notin Accepted
  /\ order'   = Append(order, t)
  /\ status'  = [status EXCEPT ![t] = "submitted"]
  /\ history' = [history EXCEPT ![t] = {"submitted"}]
  /\ pc'      = [pc EXCEPT ![t] = "start"]
  /\ UNCHANGED <<result, frame, routeVars, pollVars, log, hooks>>

(* do_POST: tasks/cancel.  The handler walks `tasks` peer by peer in the    *)
(* order the peers were first addressed, each peer's entries oldest first,  *)
(* and stops at the first open entry with the id.                           *)

OpenMatches(id) ==
  {i \in DOMAIN order : IdOf[order[i]] = id /\ status[order[i]] \in Open}

PeerBefore(i, j) ==
  \E k \in DOMAIN order :
    /\ PeerOf[order[k]] = PeerOf[order[i]]
    /\ \A l \in 1..k : PeerOf[order[l]] # PeerOf[order[j]]

WalkedBefore(i, j) ==
  IF PeerOf[order[i]] = PeerOf[order[j]] THEN i < j ELSE PeerBefore(i, j)

CancelFind(c) ==
  /\ pc[c] = "idle"
  /\ \/ /\ OpenMatches(CancelId[c]) = {}        \* 404 not found or terminal
        /\ pc' = [pc EXCEPT ![c] = "done"]
        /\ UNCHANGED frame
     \/ \E i \in OpenMatches(CancelId[c]) :
        /\ \A j \in OpenMatches(CancelId[c]) : ~ WalkedBefore(j, i)
        /\ frame' = [frame EXCEPT ![c] = [@ EXCEPT !.task = order[i]]]
        /\ pc' = [pc EXCEPT ![c] = "cancel"]
  /\ UNCHANGED <<entryVars, routeVars, pollVars, log, hooks>>

\* The status was read in CancelFind; it is not looked at again.
CancelAct(c) ==
  /\ pc[c] = "cancel"
  /\ SetStatus(c, frame[c].task, "canceled", "canceled", "done", "died")
  /\ UNCHANGED <<routeVars, pollVars>>

-----------------------------------------------------------------------------
(* _route *)

\* _set_status(entry, peer, "working"): outside the try, and whatever the
\* status has become since the entry was created.
StartWorking(t) ==
  /\ pc[t] = "start"
  /\ SetStatus(t, t, "working", "none", "load", "died")
  /\ UNCHANGED <<routeVars, pollVars>>

LoadPeers(t) ==
  /\ pc[t] = "load"
  /\ \/ pc' = [pc EXCEPT ![t] = "send"]
     \/ /\ "peers" \in Faults
        /\ pc' = [pc EXCEPT ![t] = "except"]
  /\ UNCHANGED <<entryVars, frame, routeVars, pollVars, log, hooks>>

\* The request leaves the hub; the service takes the message, or does not.
Send(t) ==
  /\ pc[t] = "send"
  /\ pos[t] <= Len(ChainOf(t))
  /\ LaneOf(t) \in Usable[PeerOf[t]]
  /\ \/ /\ pc' = [pc EXCEPT ![t] = "taken"]
        /\ copies' = [copies EXCEPT ![t] = @ + 1]
     \/ /\ pc' = [pc EXCEPT ![t] = "refused"]
        /\ UNCHANGED copies
  /\ UNCHANGED <<entryVars, frame, pos, avTried, lastErr, acked, pollVars,
                 log, hooks>>

\* The lane raises before anything is sent.
SendRaises(t) ==
  /\ "raise" \in Faults
  /\ pc[t] = "send"
  /\ pos[t] <= Len(ChainOf(t))
  /\ LaneOf(t) \in Usable[PeerOf[t]]
  /\ pc' = [pc EXCEPT ![t] = "except"]
  /\ UNCHANGED <<entryVars, frame, routeVars, pollVars, log, hooks>>

\* agentmail without an inbox or a key stays in the chain and is passed over.
SkipLane(t) ==
  /\ pc[t] = "send"
  /\ pos[t] <= Len(ChainOf(t))
  /\ LaneOf(t) \notin Usable[PeerOf[t]]
  /\ lastErr' = [lastErr EXCEPT ![t] = @ \cup {LaneOf(t)}]
  /\ pos' = [pos EXCEPT ![t] = @ + 1]
  /\ UNCHANGED <<entryVars, pc, frame, avTried, copies, acked, pollVars,
                 log, hooks>>

\* Faulty variant: the answer of the lane is not looked at.
SendOkUnchecked(t) ==
  /\ pc[t] \in {"taken", "refused"}
  /\ acked' = [acked EXCEPT ![t] =
                 IF pc[t] = "taken" THEN @ \cup {LaneOf(t)} ELSE @]
  /\ SetStatus(t, t, "completed", "delivered", "done", "except")
  /\ UNCHANGED <<pos, avTried, lastErr, copies, pollVars>>

\* Faulty variant: the return after a success is missing.
SendOkNoReturn(t) ==
  /\ pc[t] = "taken"
  /\ acked' = [acked EXCEPT ![t] = @ \cup {LaneOf(t)}]
  /\ pos' = [pos EXCEPT ![t] = @ + 1]
  /\ SetStatus(t, t, "completed", "delivered", "send", "except")
  /\ UNCHANGED <<avTried, lastErr, copies, pollVars>>

\* The lane answered ok: completed, and the route ends.
SendOk(t) ==
  /\ pc[t] = "taken"
  /\ acked' = [acked EXCEPT ![t] = @ \cup {LaneOf(t)}]
  /\ SetStatus(t, t, "completed", "delivered", "done", "except")
  /\ UNCHANGED <<pos, avTried, lastErr, copies, pollVars>>

\* Faulty variants: one agentverse attempt too many; attempts not counted; the
\* position moves the wrong way.
SendErrorOffByOne(t) ==
  LET retry == LaneOf(t) = "agentverse" /\ avTried[t] < AVRetry IN
  /\ \/ pc[t] = "refused"
     \/ pc[t] = "taken" /\ "lost" \in Faults
  /\ lastErr' = [lastErr EXCEPT ![t] = @ \cup {LaneOf(t)}]
  /\ avTried' = [avTried EXCEPT ![t] =
                   IF LaneOf(t) = "agentverse" THEN @ + 1 ELSE @]
  /\ pos' = [pos EXCEPT ![t] = IF retry THEN @ ELSE @ + 1]
  /\ pc' = [pc EXCEPT ![t] = "send"]
  /\ UNCHANGED <<entryVars, frame, copies, acked, pollVars, log, hooks>>

SendErrorUncounted(t) ==
  LET retry == LaneOf(t) = "agentverse" /\ avTried[t] + 1 < AVRetry IN
  /\ \/ pc[t] = "refused"
     \/ pc[t] = "taken" /\ "lost" \in Faults
  /\ lastErr' = [lastErr EXCEPT ![t] = @ \cup {LaneOf(t)}]
  /\ pos' = [pos EXCEPT ![t] = IF retry THEN @ ELSE @ + 1]
  /\ pc' = [pc EXCEPT ![t] = "send"]
  /\ UNCHANGED <<entryVars, frame, avTried, copies, acked, pollVars, log, hooks>>

SendErrorBackwards(t) ==
  /\ \/ pc[t] = "refused"
     \/ pc[t] = "taken" /\ "lost" \in Faults
  /\ lastErr' = [lastErr EXCEPT ![t] = @ \cup {LaneOf(t)}]
  /\ pos' = [pos EXCEPT ![t] = @ - 1]
  /\ pc' = [pc EXCEPT ![t] = "send"]
  /\ UNCHANGED <<entryVars, frame, avTried, copies, acked, pollVars, log, hooks>>

\* The lane answered with an error, or its answer was lost.  agentverse is
\* tried again a minute later until A2A_AV_RETRY_MIN attempts have failed.
SendError(t) ==
  LET retry == LaneOf(t) = "agentverse" /\ avTried[t] + 1 < AVRetry IN
  /\ \/ pc[t] = "refused"
     \/ pc[t] = "taken" /\ "lost" \in Faults
  /\ lastErr' = [lastErr EXCEPT ![t] = @ \cup {LaneOf(t)}]
  /\ avTried' = [avTried EXCEPT ![t] =
                   IF LaneOf(t) = "agentverse" THEN @ + 1 ELSE @]
  /\ pos' = [pos EXCEPT ![t] = IF retry THEN @ ELSE @ + 1]
  /\ pc' = [pc EXCEPT ![t] = "send"]
  /\ UNCHANGED <<entryVars, frame, copies, acked, pollVars, log, hooks>>

ChainExhausted(t) ==
  /\ pc[t] = "send"
  /\ pos[t] > Len(ChainOf(t))
  /\ SetStatus(t, t, "failed", "undelivered", "done", "except")
  /\ UNCHANGED <<routeVars, pollVars>>

\* Faulty variant: the exception is swallowed.
RouteExceptionSilent(t) ==
  /\ pc[t] = "except"
  /\ pc' = [pc EXCEPT ![t] = "done"]
  /\ UNCHANGED <<entryVars, frame, routeVars, pollVars, log, hooks>>

\* except Exception: failed, whatever had been reached.
RouteException(t) ==
  /\ pc[t] = "except"
  /\ SetStatus(t, t, "failed", "exception", "done", "died")
  /\ UNCHANGED <<routeVars, pollVars>>

Route(t) ==
  \/ StartWorking(t) \/ LoadPeers(t) \/ Send(t) \/ SendRaises(t)
  \/ SkipLane(t) \/ SendOk(t) \/ SendError(t) \/ ChainExhausted(t)
  \/ RouteException(t)

-----------------------------------------------------------------------------
(* poll_loop *)

\* A peer answers a task of which it has a copy: the reply names the task id.
ReplyArrives(m) ==
  /\ m \notin inbox
  /\ \E t \in Accepted : /\ copies[t] > 0
                         /\ PeerOf[t] = ReplyPeer[m]
                         /\ IdOf[t] = ReplyId[m]
  /\ inbox' = inbox \cup {m}
  /\ UNCHANGED <<entryVars, pc, frame, routeVars, seen, scan, log, hooks>>

\* A message not handled before: it is marked seen first of all.
PollTake(m) ==
  /\ pc["poller"] = "idle"
  /\ m \in inbox \ seen
  /\ "agentmail" \in Usable[ReplyPeer[m]]
  /\ seen' = seen \cup {m}
  /\ scan' = [reply |-> m, at |-> 1]
  /\ pc' = [pc EXCEPT !["poller"] = "scan"]
  /\ UNCHANGED <<entryVars, frame, routeVars, inbox, log, hooks>>

\* One turn of `for t in tasks.get(peer, [])`, over the live list.
ScanHits(i) ==
  /\ PeerOf[order[i]] = ReplyPeer[scan.reply]
  /\ IdOf[order[i]] = ReplyId[scan.reply]
  /\ status[order[i]] \in Open

PollScan ==
  /\ pc["poller"] = "scan"
  /\ IF scan.at > Len(order)
     THEN /\ pc' = [pc EXCEPT !["poller"] = "idle"]
          /\ scan' = [reply |-> NoReply, at |-> 1]
          /\ UNCHANGED <<result, frame>>
     ELSE /\ scan' = [scan EXCEPT !.at = @ + 1]
          /\ IF ScanHits(scan.at)
             THEN /\ result' = [result EXCEPT ![order[scan.at]] = scan.reply]
                  /\ frame' = [frame EXCEPT !["poller"] =
                                  [@ EXCEPT !.task = order[scan.at]]]
                  /\ pc' = [pc EXCEPT !["poller"] = "act"]
             ELSE UNCHANGED <<result, frame, pc>>
  /\ UNCHANGED <<order, status, history, routeVars, inbox, seen, log, hooks>>

\* Faulty variant: an exception out of the status change ends the thread.
PollActFatal ==
  /\ pc["poller"] = "act"
  /\ SetStatus("poller", frame["poller"].task, "completed", "replied",
               "scan", "died")
  /\ UNCHANGED <<routeVars, pollVars>>

\* _set_status(t, peer, "completed", "replied"), after t["result"] = the reply.
\* An exception is caught by the per-peer handler: the rest of the scan is
\* given up.
PollAct ==
  /\ pc["poller"] = "act"
  /\ SetStatus("poller", frame["poller"].task, "completed", "replied",
               "scan", "idle")
  /\ UNCHANGED <<routeVars, pollVars>>

\* load_peers() at the top of a tick is outside the per-peer try: the thread
\* prints "fatal" and is never started again.
PollerDies ==
  /\ "peers" \in Faults
  /\ pc["poller"] = "idle"
  /\ pc' = [pc EXCEPT !["poller"] = "dead"]
  /\ UNCHANGED <<entryVars, frame, routeVars, pollVars, log, hooks>>

Poll == (\E m \in Reply : PollTake(m)) \/ PollScan \/ PollAct

-----------------------------------------------------------------------------

Init ==
  /\ order = <<>>
  /\ status = [t \in Task |-> "none"]
  /\ history = [t \in Task |-> {}]
  /\ result = [t \in Task |-> "none"]
  /\ pc = [th \in Thread |-> "idle"]
  /\ frame = [th \in Thread |-> NoFrame]
  /\ pos = [t \in Task |-> 1]
  /\ avTried = [t \in Task |-> 0]
  /\ lastErr = [t \in Task |-> {}]
  /\ copies = [t \in Task |-> 0]
  /\ acked = [t \in Task |-> {}]
  /\ inbox = {}
  /\ seen = {}
  /\ scan = [reply |-> NoReply, at |-> 1]
  /\ log = {}
  /\ hooks = {}

Next ==
  \/ \E t \in Task : SendMessage(t) \/ Route(t)
  \/ \E c \in Canceler : CancelFind(c) \/ CancelAct(c)
  \/ \E m \in Reply : ReplyArrives(m)
  \/ Poll
  \/ PollerDies
  \/ \E th \in Thread : Save(th)

Spec == Init /\ [][Next]_vars

\* Threads are scheduled by the interpreter, every lane call and the webhook
\* have a timeout, and the poll loop sleeps a bounded time.  Clients and peers
\* owe the hub nothing.
Fairness ==
  /\ \A t \in Task : WF_vars(Route(t))
  /\ \A c \in Canceler : WF_vars(CancelAct(c))
  /\ WF_vars(Poll)
  /\ \A th \in Thread : WF_vars(Save(th))

FairSpec == Spec /\ Fairness

-----------------------------------------------------------------------------
(* Properties *)

Frame == [task: Task \cup {NoTask}, next: {"idle", "load", "done", "scan"},
          err: {"idle", "except", "died"}]

\* Types of the hub's state.
TypeOK ==
  /\ order \in Seq(Task)
  /\ status \in [Task -> Status \cup {"none"}]
  /\ history \in [Task -> SUBSET Status]
  /\ result \in [Task -> Result]
  /\ pc \in [Thread -> PC]
  /\ frame \in [Thread -> Frame]
  /\ pos \in [Task -> Nat \ {0}]
  /\ avTried \in [Task -> Nat]
  /\ lastErr \in [Task -> SUBSET Lane]
  /\ copies \in [Task -> Nat]
  /\ acked \in [Task -> SUBSET Lane]
  /\ inbox \subseteq Reply
  /\ seen \subseteq Reply
  /\ scan \in [reply: Reply \cup {NoReply}, at: Nat \ {0}]
  /\ log \subseteq Line
  /\ hooks \subseteq Line

\* A task is never reported completed out of nothing: either a lane answered
\* the route with a success, or a reply that names it was read from the inbox
\* of its peer.
CompletionJustified ==
  \A t \in Task :
    "completed" \in history[t] =>
      \/ acked[t] # {}
      \/ \E m \in seen : ReplyPeer[m] = PeerOf[t] /\ ReplyId[m] = IdOf[t]

\* A task that is reported as undeliverable has been tried on every usable lane
\* of its peer, each of which has recorded an error and none has answered with
\* a success, and agentverse was given all its attempts: whatever cancellations,
\* replies, lost answers and exceptions were mixed in.
FailureJustified ==
  \A t \in Task :
    result[t] = "undelivered" =>
      /\ acked[t] = {}
      /\ Usable[PeerOf[t]] \subseteq lastErr[t]
      /\ "agentverse" \in Usable[PeerOf[t]] => avTried[t] = AVRetry

\* Once a lane has answered with a success the route gives the task to no lane
\* again, even when recording the success raises and the route handles it.
StopsAtFirstSuccess ==
  [][\A t \in Task : acked[t] # {} => copies'[t] = copies[t]
                                      /\ acked'[t] = acked[t]]_vars

\* A route thread that ran to its end leaves the task in a terminal status,
\* whatever cancellations and replies were mixed in: only an exception out of
\* the very first status change leaves a task "working" for ever.
EndedRouteIsTerminal ==
  \A t \in Task : pc[t] = "done" => status[t] \in Terminal

Saving(t) == \E th \in Thread : pc[th] \in SavePC /\ frame[th].task = t

\* When no thread is in the middle of a status change of the task, and no
\* append ever raised, the file has a line with the status memory holds: the
\* concurrent appends of stale lines never make the last status go missing.
FinalStatusLogged ==
  \A t \in Task :
    /\ "persist" \notin Faults
    /\ status[t] \notin {"none", "submitted"}
    /\ ~ Saving(t)
    => \E l \in log : l.task = t /\ l.status = status[t]

\* With a webhook configured, a task that has come to rest completed or failed
\* has been announced with that status, though the payload is built from the
\* live entry and other threads change it between the status and the call.
FinalStatusAnnounced ==
  \A t \in Task :
    /\ Push
    /\ status[t] \in {"completed", "failed"}
    /\ ~ Saving(t)
    => [task |-> t, status |-> status[t]] \in hooks

\* Every accepted task reaches a terminal status for good, after which no late
\* thread moves it back to an open one: whatever faults strike, unless the
\* append of one of its status changes ended its route thread.
EveryTaskSettles ==
  \A t \in Task :
    (status[t] # "none") ~> [](status[t] \in Terminal \/ pc[t] = "died")

\* Every reply in a polled inbox is looked at in the end, though lines may fail
\* to be appended while earlier replies are handled: unless the poll thread died
\* reading peers.json.
EveryReplySeen ==
  \A m \in Reply :
    (m \in inbox /\ "agentmail" \in Usable[ReplyPeer[m]])
      ~> (m \in seen \/ pc["poller"] = "dead")

-----------------------------------------------------------------------------
(* What the repository says of the hub and the code does not do *)

\* README lifecycle: submitted -> working -> completed / failed / canceled.
\* A canceled task stays canceled.
CanceledIsFinal ==
  [][\A t \in Task : status[t] = "canceled" => status'[t] = "canceled"]_vars

=============================================================================
