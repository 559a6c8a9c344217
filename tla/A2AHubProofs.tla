---------------------------- MODULE A2AHubProofs ----------------------------
(***************************************************************************)
(* Safety of the hub for every set of tasks, peers, replies and cancel     *)
(* requests, every registry, every retry limit and every choice of faults. *)
(***************************************************************************)
EXTENDS A2AHub, TransportChainProofs

(***************************************************************************)
(* TypeOK is not inductive: a line of the log has the status of the entry  *)
(* a thread is saving, so that entry has to exist.                         *)
(***************************************************************************)
OnTask == SavePC \cup {"cancel", "act"}

Known ==
  /\ \A t \in Accepted : status[t] # "none"
  /\ \A t \in Task : pc[t] # "idle" => t \in Accepted
  /\ \A th \in Thread :
       pc[th] \in OnTask => /\ frame[th].task \in Task
                            /\ status[frame[th].task] # "none"

\* An answer is only awaited from a lane of the chain.
InChain ==
  \A t \in Task : pc[t] \in {"taken", "refused"} => pos[t] <= Len(ChainOf(t))

TypeInv == TypeOK /\ Known /\ InChain

LEMMA InitTypeInv == Init => TypeInv
<1>. SUFFICES ASSUME Init PROVE TypeInv
  OBVIOUS
<1>. USE DEF Init
<1>1. Accepted = {}
  BY DEF Accepted
<1>2. Known
  BY <1>1 DEF Known, OnTask, SavePC, Thread
<1>3. TypeOK
  BY DEF TypeOK, PC, Frame, NoFrame, Result, Note
<1>4. InChain
  BY DEF InChain, Thread
<1>. QED BY <1>2, <1>3, <1>4 DEF TypeInv

LEMMA FrameTask ==
  ASSUME NEW f \in Frame, NEW x \in Task
  PROVE  [f EXCEPT !.task = x] \in Frame
  BY DEF Frame

LEMMA LaneInChain ==
  ASSUME TypeOK, NEW t \in Task, pos[t] <= Len(ChainOf(t))
  PROVE  LaneOf(t) \in Lane
<1>1. ChainOf(t) \in Seq(Lane)
  BY ChainType DEF ChainOf
<1>. QED BY <1>1 DEF TypeOK, LaneOf

\* A status change keeps the invariant, whoever makes it and on whatever task.
LEMMA SetStatusTypeInv ==
  ASSUME TypeInv, NEW th \in Thread, NEW t \in Task, status[t] # "none",
         NEW new \in Status, NEW note \in Note,
         NEW next \in {"idle", "load", "done", "scan"},
         NEW err \in {"idle", "except", "died"},
         th \in Task => pc[th] # "idle",
         SetStatus(th, t, new, note, next, err)
  PROVE  /\ order' \in Seq(Task)
         /\ status' \in [Task -> Status \cup {"none"}]
         /\ history' \in [Task -> SUBSET Status]
         /\ result' \in [Task -> Result]
         /\ pc' \in [Thread -> PC]
         /\ frame' \in [Thread -> Frame]
         /\ log' \subseteq Line
         /\ hooks' \subseteq Line
         /\ Known'
         /\ UNCHANGED pos => InChain'
<1>. USE DEF TypeInv
<1>1. /\ order' \in Seq(Task)
      /\ status' \in [Task -> Status \cup {"none"}]
      /\ history' \in [Task -> SUBSET Status]
      /\ result' \in [Task -> Result]
      /\ pc' \in [Thread -> PC]
      /\ frame' \in [Thread -> Frame]
      /\ log' \subseteq Line
      /\ hooks' \subseteq Line
  BY DEF TypeOK, SetStatus, Result, Frame, PC, SavePC
<1>2. "none" \notin Status
  BY DEF Status, Open, Terminal
<1>3. \A u \in Task : status[u] # "none" => status'[u] # "none"
  BY <1>2 DEF TypeOK, SetStatus
<1>4. Accepted' = Accepted /\ Accepted \subseteq Task
  BY DEF Accepted, SetStatus, TypeOK
<1>5. \A u \in Task : pc'[u] # "idle" => u \in Accepted
  BY DEF TypeOK, SetStatus, Known, Thread
<1>6. ASSUME NEW x \in Thread, pc'[x] \in OnTask
      PROVE  frame'[x].task \in Task /\ status'[frame'[x].task] # "none"
  <2>1. CASE x = th
    BY <1>3, <2>1 DEF TypeOK, SetStatus
  <2>2. CASE x # th
    BY <1>3, <1>6, <2>2 DEF TypeOK, SetStatus, Known
  <2>. QED BY <2>1, <2>2
<1>7. UNCHANGED pos => InChain'
  BY DEF TypeOK, SetStatus, InChain, ChainOf
<1>. QED BY <1>1, <1>3, <1>4, <1>5, <1>6, <1>7 DEF Known

LEMMA SaveTypeInv ==
  ASSUME TypeInv, NEW th \in Thread, Save(th)
  PROVE  TypeInv'
<1>. USE DEF TypeInv, entryVars, routeVars, pollVars
<1>1. pc[th] \in SavePC
  BY DEF Save, PushHook, Persist, PersistFails, SavePC
<1>2. frame[th].task \in Task /\ status[frame[th].task] \in Status
  BY <1>1 DEF Known, OnTask, TypeOK
<1>3. /\ UNCHANGED entryVars
      /\ UNCHANGED routeVars
      /\ UNCHANGED pollVars
      /\ UNCHANGED Accepted
  BY DEF Save, PushHook, Persist, PersistFails, Accepted
<1>4. /\ pc' \in [Thread -> PC]
      /\ frame' \in [Thread -> Frame]
      /\ log' \subseteq Line
      /\ hooks' \subseteq Line
  <2>1. CASE PushHook(th)
    BY <1>2, <2>1 DEF PushHook, Line, PC, SavePC, TypeOK
  <2>2. CASE Persist(th)
    BY <1>2, <2>2 DEF Persist, Line, PC, SavePC, RoutePC, Frame, NoFrame, TypeOK
  <2>3. CASE PersistFails(th)
    BY <2>3 DEF PersistFails, PC, SavePC, RoutePC, Frame, NoFrame, TypeOK
  <2>. QED BY <2>1, <2>2, <2>3 DEF Save
<1>5. TypeOK'
  BY <1>3, <1>4 DEF TypeOK
<1>6. /\ \A x \in Thread \ {th} : pc'[x] = pc[x] /\ frame'[x] = frame[x]
      /\ pc'[th] \in OnTask => pc'[th] \in SavePC /\ frame'[th] = frame[th]
  BY DEF Save, PushHook, Persist, PersistFails, TypeOK, Frame, OnTask, SavePC
<1>7. th \in Task => th \in Accepted
  BY <1>1 DEF Known, SavePC
<1>8. Known'
  BY <1>1, <1>3, <1>6, <1>7 DEF Known, OnTask, Thread
<1>9. pc'[th] \notin {"taken", "refused"}
  BY DEF Save, PushHook, Persist, PersistFails, TypeOK, Frame
<1>10. InChain'
  BY <1>3, <1>6, <1>9 DEF InChain, ChainOf, Thread
<1>. QED BY <1>5, <1>8, <1>10

\* A step that moves a thread off every task, and changes no entry or frame.
LEMMA MoveKnown ==
  ASSUME TypeInv, NEW th \in Thread, UNCHANGED <<order, status, frame>>,
         NEW to \in PC \ OnTask, pc' = [pc EXCEPT ![th] = to],
         th \in Task => pc[th] # "idle"
  PROVE  /\ Known' /\ pc' \in [Thread -> PC]
         /\ UNCHANGED pos /\ to \notin {"taken", "refused"} => InChain'
  BY DEF TypeInv, TypeOK, Known, Accepted, Thread, InChain, ChainOf

LEMMA RouteTypeInv ==
  ASSUME TypeInv, NEW t \in Task, Route(t)
  PROVE  TypeInv'
<1>. USE DEF TypeInv, routeVars, pollVars
<1>1. pc[t] \in RoutePC /\ t \in Thread
  BY DEF Route, StartWorking, LoadPeers, Send, SendRaises, SkipLane, SendOk,
         SendError, ChainExhausted, RouteException, RoutePC, Thread
<1>2. status[t] # "none" /\ pc[t] # "idle"
  BY <1>1 DEF Known, RoutePC
<1>3. CASE StartWorking(t)
  BY <1>1, <1>2, <1>3, SetStatusTypeInv
     DEF StartWorking, TypeOK, Status, Open, Note
<1>4. CASE LoadPeers(t)
  <2>. USE <1>4 DEF LoadPeers, entryVars
  <2>1. Known' /\ InChain' /\ pc' \in [Thread -> PC]
    BY <1>1, <1>2, MoveKnown DEF PC, RoutePC, OnTask, SavePC
  <2>. QED BY <2>1 DEF TypeOK
<1>5. CASE Send(t)
  <2>. USE <1>5 DEF Send, entryVars
  <2>1. Known' /\ pc' \in [Thread -> PC]
    BY <1>1, <1>2, MoveKnown DEF PC, RoutePC, OnTask, SavePC
  <2>2. copies' \in [Task -> Nat]
    <3>1. CASE copies' = [copies EXCEPT ![t] = @ + 1]
      BY <3>1 DEF TypeOK
    <3>2. CASE UNCHANGED copies
      BY <3>2 DEF TypeOK
    <3>. QED BY <3>1, <3>2
  <2>3. \A u \in Task \ {t} : pc'[u] = pc[u]
    BY DEF TypeOK, Thread
  <2>4. InChain'
    BY <2>3 DEF InChain, ChainOf
  <2>. QED BY <2>1, <2>2, <2>4 DEF TypeOK
<1>6. CASE SendRaises(t)
  <2>. USE <1>6 DEF SendRaises, entryVars
  <2>1. Known' /\ InChain' /\ pc' \in [Thread -> PC]
    BY <1>1, <1>2, MoveKnown DEF PC, RoutePC, OnTask, SavePC
  <2>. QED BY <2>1 DEF TypeOK
<1>7. CASE SkipLane(t)
  <2>. USE <1>7 DEF SkipLane, entryVars
  <2>1. Known' /\ InChain'
    BY DEF Known, Accepted, InChain, ChainOf, TypeOK
  <2>2. LaneOf(t) \in Lane
    BY LaneInChain
  <2>3. lastErr' \in [Task -> SUBSET Lane] /\ pos' \in [Task -> Nat \ {0}]
    BY <2>2 DEF TypeOK
  <2>. QED BY <2>1, <2>3 DEF TypeOK
<1>8. CASE SendOk(t)
  <2>. USE <1>8 DEF SendOk
  <2>1. LaneOf(t) \in Lane
    BY LaneInChain DEF InChain
  <2>2. acked' \in [Task -> SUBSET Lane]
    BY <2>1 DEF TypeOK
  <2>. QED BY <1>1, <1>2, <2>2, SetStatusTypeInv
           DEF TypeOK, Status, Terminal, Note
<1>9. CASE SendError(t)
  <2>. USE <1>9 DEF SendError, entryVars
  <2>1. LaneOf(t) \in Lane
    BY LaneInChain DEF InChain
  <2>2. Known' /\ pc' \in [Thread -> PC]
    BY <1>1, <1>2, MoveKnown DEF PC, RoutePC, OnTask, SavePC
  <2>3. InChain'
    <3>1. \A u \in Task \ {t} : pc'[u] = pc[u] /\ pos'[u] = pos[u]
      BY DEF TypeOK, Thread
    <3>2. pc'[t] = "send"
      BY <1>1 DEF TypeOK
    <3>. QED BY <3>1, <3>2 DEF InChain, ChainOf
  <2>4. /\ lastErr' \in [Task -> SUBSET Lane]
        /\ pos' \in [Task -> Nat \ {0}]
        /\ avTried' \in [Task -> Nat]
    BY <2>1 DEF TypeOK
  <2>. QED BY <2>2, <2>3, <2>4 DEF TypeOK
<1>10. CASE ChainExhausted(t)
  BY <1>1, <1>2, <1>10, SetStatusTypeInv
     DEF ChainExhausted, TypeOK, Status, Terminal, Note
<1>11. CASE RouteException(t)
  BY <1>1, <1>2, <1>11, SetStatusTypeInv
     DEF RouteException, TypeOK, Status, Terminal, Note
<1>. QED BY <1>3, <1>4, <1>5, <1>6, <1>7, <1>8, <1>9, <1>10, <1>11 DEF Route

LEMMA SendMessageTypeInv ==
  ASSUME TypeInv, NEW t \in Task, SendMessage(t)
  PROVE  TypeInv'
<1>. USE DEF TypeInv, SendMessage, routeVars, pollVars
<1>1. TypeOK'
  BY DEF TypeOK, Status, Open, PC, RoutePC, Thread
<1>2. Accepted' = Accepted \cup {t} /\ Accepted \subseteq Task
  <2>1. /\ Len(order') = Len(order) + 1
        /\ \A i \in 1..Len(order) : order'[i] = order[i]
        /\ order'[Len(order) + 1] = t
        /\ DOMAIN order = 1..Len(order) /\ DOMAIN order' = 1..Len(order')
        /\ \A i \in 1..Len(order) : order[i] \in Task
        /\ Len(order) \in Nat
    BY DEF TypeOK
  <2>2. \A i \in 1..Len(order') : i \in 1..Len(order) \/ i = Len(order) + 1
    BY <2>1
  <2>3. 1..Len(order) \subseteq 1..Len(order') /\ Len(order) + 1 \in 1..Len(order')
    BY <2>1
  <2>. QED BY <2>1, <2>2, <2>3 DEF Accepted
<1>3. Known'
  BY <1>2, DistinctAssumption DEF Known, TypeOK, OnTask, SavePC, Thread
<1>4. InChain'
  BY DEF InChain, ChainOf, TypeOK
<1>. QED BY <1>1, <1>3, <1>4

LEMMA CancelTypeInv ==
  ASSUME TypeInv, NEW c \in Canceler, CancelFind(c) \/ CancelAct(c)
  PROVE  TypeInv'
<1>. USE DEF TypeInv, routeVars, pollVars
<1>1. c \in Thread /\ c \notin Task
  BY DistinctAssumption DEF Thread
<1>2. CASE CancelFind(c)
  <2>. USE <1>2 DEF CancelFind, entryVars
  <2>1. CASE UNCHANGED frame /\ pc' = [pc EXCEPT ![c] = "done"]
    <3>1. Known' /\ InChain' /\ pc' \in [Thread -> PC]
      BY <1>1, <2>1, MoveKnown DEF PC, OnTask, SavePC
    <3>. QED BY <2>1, <3>1 DEF TypeOK
  <2>2. CASE \E i \in OpenMatches(CancelId[c]) :
               /\ frame' = [frame EXCEPT ![c] = [@ EXCEPT !.task = order[i]]]
               /\ pc' = [pc EXCEPT ![c] = "cancel"]
    <3>1. PICK i \in DOMAIN order :
               /\ frame' = [frame EXCEPT ![c] = [@ EXCEPT !.task = order[i]]]
               /\ pc' = [pc EXCEPT ![c] = "cancel"]
               /\ status[order[i]] # "none"
      BY <2>2 DEF OpenMatches, Open
    <3>2. order[i] \in Task
      BY DEF TypeOK
    <3>3. TypeOK'
      <4>1. [frame[c] EXCEPT !.task = order[i]] \in Frame
        BY <1>1, <3>2, FrameTask DEF TypeOK
      <4>. QED BY <3>1, <4>1 DEF TypeOK, PC
    <3>4. Known'
      BY <1>1, <3>1, <3>2 DEF Known, TypeOK, OnTask, Accepted, Thread, Frame
    <3>5. InChain'
      BY <1>1, <3>1 DEF InChain, ChainOf, TypeOK
    <3>. QED BY <3>3, <3>4, <3>5
  <2>. QED BY <2>1, <2>2
<1>3. CASE CancelAct(c)
  <2>. USE <1>3 DEF CancelAct
  <2>1. frame[c].task \in Task /\ status[frame[c].task] # "none"
    BY <1>1 DEF Known, OnTask
  <2>. QED BY <1>1, <2>1, SetStatusTypeInv DEF TypeOK, Status, Terminal, Note
<1>. QED BY <1>2, <1>3

LEMMA PollTypeInv ==
  ASSUME TypeInv, Poll \/ PollerDies
  PROVE  TypeInv'
<1>. USE DEF TypeInv, routeVars
<1>1. "poller" \in Thread /\ "poller" \notin Task
  BY DistinctAssumption DEF Thread
<1>2. ASSUME NEW m \in Reply, PollTake(m) PROVE TypeInv'
  <2>. USE <1>2 DEF PollTake, entryVars
  <2>1. Known' /\ InChain' /\ pc' \in [Thread -> PC]
    BY <1>1, MoveKnown DEF PC, OnTask, SavePC
  <2>. QED BY <2>1 DEF TypeOK
<1>3. CASE PollScan
  <2>. USE <1>3 DEF PollScan
  <2>s. scan' \in [reply: Reply \cup {NoReply}, at: Nat \ {0}]
    <3>0. ASSUME NEW x \in [reply: Reply \cup {NoReply}, at: Nat \ {0}]
          PROVE  [x EXCEPT !.at = @ + 1] \in [reply: Reply \cup {NoReply}, at: Nat \ {0}]
      <4>1. x.at + 1 \in Nat \ {0}
        OBVIOUS
      <4>. QED BY <4>1
    <3>1. [scan EXCEPT !.at = @ + 1] \in [reply: Reply \cup {NoReply}, at: Nat \ {0}]
      BY <3>0 DEF TypeOK
    <3>2. [reply |-> NoReply, at |-> 1] \in [reply: Reply \cup {NoReply}, at: Nat \ {0}]
      OBVIOUS
    <3>. QED BY <3>1, <3>2
  <2>1. CASE UNCHANGED <<result, frame, pc>>
    <3>1. TypeOK'
      BY <2>1, <2>s DEF TypeOK
    <3>. QED BY <2>1, <3>1 DEF Known, Accepted, InChain, ChainOf
  <2>2. CASE UNCHANGED <<result, frame>> /\ pc' = [pc EXCEPT !["poller"] = "idle"]
    <3>1. Known' /\ InChain' /\ pc' \in [Thread -> PC]
      BY <1>1, <2>2, MoveKnown DEF PC, OnTask, SavePC
    <3>. QED BY <2>2, <2>s, <3>1 DEF TypeOK
  <2>3. CASE /\ scan.at \in DOMAIN order
             /\ ScanHits(scan.at)
             /\ result' = [result EXCEPT ![order[scan.at]] = scan.reply]
             /\ frame' = [frame EXCEPT !["poller"] =
                             [@ EXCEPT !.task = order[scan.at]]]
             /\ pc' = [pc EXCEPT !["poller"] = "act"]
    <3>. USE <2>3
    <3>1. order[scan.at] \in Task /\ status[order[scan.at]] # "none"
      BY DEF TypeOK, ScanHits, Open
    <3>2. scan.reply \in Result
      BY DEF TypeOK, Result, Note, NoReply
    <3>3. TypeOK'
      <4>1. [frame["poller"] EXCEPT !.task = order[scan.at]] \in Frame
        BY <1>1, <3>1, FrameTask DEF TypeOK
      <4>2. scan' \in [reply: Reply \cup {NoReply}, at: Nat \ {0}]
        BY <2>s
      <4>3. result' \in [Task -> Result]
        BY <3>1, <3>2 DEF TypeOK
      <4>4. pc' \in [Thread -> PC] /\ frame' \in [Thread -> Frame]
        BY <4>1 DEF TypeOK, PC
      <4>. QED BY <4>2, <4>3, <4>4 DEF TypeOK
    <3>4. Known'
      BY <1>1, <3>1 DEF Known, TypeOK, OnTask, Accepted, Thread, Frame
    <3>5. InChain'
      BY <1>1 DEF InChain, ChainOf, TypeOK
    <3>. QED BY <3>3, <3>4, <3>5
  <2>4. scan.at \in Nat \ {0} /\ Len(order) \in Nat /\ DOMAIN order = 1..Len(order)
    BY DEF TypeOK
  <2>5. ~ (scan.at > Len(order)) => scan.at \in DOMAIN order
    BY <2>4
  <2>. HIDE DEF TypeInv
  <2>. QED BY <2>1, <2>2, <2>3, <2>5
<1>4. CASE PollAct
  <2>. USE <1>4 DEF PollAct, pollVars
  <2>1. frame["poller"].task \in Task /\ status[frame["poller"].task] # "none"
    BY <1>1 DEF Known, OnTask
  <2>. QED BY <1>1, <2>1, SetStatusTypeInv DEF TypeOK, Status, Terminal, Note
<1>5. CASE PollerDies
  <2>. USE <1>5 DEF PollerDies, entryVars, pollVars
  <2>1. Known' /\ InChain' /\ pc' \in [Thread -> PC]
    BY <1>1, MoveKnown DEF PC, OnTask, SavePC
  <2>. QED BY <2>1 DEF TypeOK
<1>. QED BY <1>2, <1>3, <1>4, <1>5 DEF Poll

LEMMA ReplyArrivesTypeInv ==
  ASSUME TypeInv, NEW m \in Reply, ReplyArrives(m)
  PROVE  TypeInv'
<1>. USE DEF TypeInv, ReplyArrives, entryVars, routeVars
<1>1. TypeOK'
  BY DEF TypeOK
<1>. QED BY <1>1 DEF Known, Accepted, InChain, ChainOf

LEMMA TypeInvStep == TypeInv /\ [Next]_vars => TypeInv'
<1>. SUFFICES ASSUME TypeInv, [Next]_vars PROVE TypeInv'
  OBVIOUS
<1>1. CASE UNCHANGED vars
  BY <1>1 DEF vars, entryVars, routeVars, pollVars, TypeInv, TypeOK, Known,
              Accepted, InChain, ChainOf
<1>2. CASE Next
  BY <1>2, SendMessageTypeInv, RouteTypeInv, CancelTypeInv, ReplyArrivesTypeInv,
     PollTypeInv, SaveTypeInv DEF Next
<1>. QED BY <1>1, <1>2

\* Every reachable state of the hub is well typed.
THEOREM TypeCorrect == Spec => []TypeOK
<1>1. TypeInv => TypeOK
  BY DEF TypeInv
<1>. QED BY <1>1, InitTypeInv, TypeInvStep, PTL DEF Spec

-----------------------------------------------------------------------------
(***************************************************************************)
(* The properties of _set_status look at a step in one of four ways: a task*)
(* is accepted, a thread begins a status change, a thread goes on with one,*)
(* or the step (Quiet) touches no status, no line and no webhook, and no   *)
(* thread that is in the middle of a status change.                        *)
(***************************************************************************)
Quiet ==
  /\ UNCHANGED <<status, log, hooks>>
  /\ \A th \in Thread :
       IF pc[th] \in SavePC THEN pc'[th] = pc[th] /\ frame'[th] = frame[th]
                            ELSE pc'[th] \notin SavePC
  /\ \A t \in Task : pc'[t] = "done" => pc[t] = "done"

Begins(th, t) ==
  /\ pc[th] \notin SavePC
  /\ th \in Task => th = t
  /\ \E new \in Status, note \in Note, next \in PC, err \in PC :
       /\ SetStatus(th, t, new, note, next, err)
       /\ new \in Terminal \/ (th = t /\ next = "load")

LEMMA QuietMove ==
  ASSUME TypeOK, NEW th \in Thread, pc[th] \notin SavePC,
         NEW to \in PC \ SavePC, pc' = [pc EXCEPT ![th] = to],
         th \in Task => to # "done",
         UNCHANGED <<status, log, hooks>>,
         \A x \in Thread \ {th} : frame'[x] = frame[x]
  PROVE  Quiet
  BY DEF Quiet, TypeOK, Thread

LEMMA StepKinds ==
  ASSUME TypeInv, [Next]_vars
  PROVE  \/ \E t \in Task : SendMessage(t)
         \/ \E th \in Thread, t \in Task : Begins(th, t)
         \/ \E th \in Thread : Save(th)
         \/ Quiet
<1>. USE DistinctAssumption DEF TypeInv, SavePC
<1>1. CASE UNCHANGED vars
  BY <1>1 DEF vars, entryVars, Quiet
<1>2. ASSUME NEW t \in Task, Route(t)
      PROVE  Begins(t, t) \/ Quiet
  <2>1. t \in Thread
    BY DEF Thread
  <2>2. CASE StartWorking(t)
    BY <2>2 DEF StartWorking, Begins, Status, Open, Note, PC, RoutePC
  <2>3. CASE SendOk(t)
    BY <2>3 DEF SendOk, Begins, Status, Terminal, Note, PC, RoutePC
  <2>4. CASE ChainExhausted(t)
    BY <2>4 DEF ChainExhausted, Begins, Status, Terminal, Note, PC, RoutePC
  <2>5. CASE RouteException(t)
    BY <2>5 DEF RouteException, Begins, Status, Terminal, Note, PC, RoutePC
  <2>6. CASE LoadPeers(t)
    BY <2>1, <2>6, QuietMove DEF LoadPeers, entryVars, PC, RoutePC
  <2>7. CASE Send(t)
    BY <2>1, <2>7, QuietMove DEF Send, entryVars, PC, RoutePC
  <2>8. CASE SendRaises(t)
    BY <2>1, <2>8, QuietMove DEF SendRaises, entryVars, PC, RoutePC
  <2>9. CASE SkipLane(t)
    BY <2>9 DEF SkipLane, entryVars, Quiet
  <2>10. CASE SendError(t)
    BY <2>1, <2>10, QuietMove DEF SendError, entryVars, PC, RoutePC
  <2>. QED BY <1>2, <2>2, <2>3, <2>4, <2>5, <2>6, <2>7, <2>8, <2>9, <2>10
           DEF Route
<1>3. ASSUME NEW c \in Canceler, CancelFind(c)
      PROVE  Quiet
  <2>1. c \in Thread
    BY DEF Thread
  <2>2. /\ pc[c] = "idle"
        /\ \/ pc' = [pc EXCEPT ![c] = "done"]
           \/ pc' = [pc EXCEPT ![c] = "cancel"]
        /\ \A x \in Thread \ {c} : frame'[x] = frame[x]
        /\ UNCHANGED <<status, log, hooks>>
    BY <1>3 DEF CancelFind, entryVars, TypeOK
  <2>. QED BY <2>1, <2>2, QuietMove DEF PC
<1>4. ASSUME NEW c \in Canceler, CancelAct(c)
      PROVE  c \in Thread /\ frame[c].task \in Task /\ Begins(c, frame[c].task)
  BY <1>4 DEF CancelAct, Thread, Begins, Known, OnTask, Status, Terminal, Note, PC
<1>5. ASSUME NEW m \in Reply, PollTake(m)
      PROVE  Quiet
  BY <1>5, QuietMove DEF PollTake, entryVars, PC, Thread
<1>6. CASE PollScan
  <2>1. /\ pc["poller"] = "scan"
        /\ UNCHANGED <<status, log, hooks>>
        /\ \A x \in Thread \ {"poller"} : frame'[x] = frame[x]
        /\ \/ pc' = [pc EXCEPT !["poller"] = "idle"]
           \/ pc' = [pc EXCEPT !["poller"] = "act"]
           \/ UNCHANGED <<pc, frame>>
    BY <1>6 DEF PollScan, TypeOK
  <2>2. CASE UNCHANGED <<pc, frame>>
    BY <2>1, <2>2 DEF Quiet
  <2>. QED BY <2>1, <2>2, QuietMove DEF PC, Thread
<1>7. CASE PollAct
  <2>1. "poller" \in Thread /\ frame["poller"].task \in Task
    BY <1>7 DEF PollAct, Thread, Known, OnTask
  <2>2. Begins("poller", frame["poller"].task)
    BY <1>7 DEF PollAct, Begins, Status, Terminal, Note, PC
  <2>. QED BY <2>1, <2>2
<1>8. CASE PollerDies
  BY <1>8, QuietMove DEF PollerDies, entryVars, PC, Thread
<1>9. ASSUME NEW m \in Reply, ReplyArrives(m)
      PROVE  Quiet
  BY <1>9 DEF ReplyArrives, entryVars, Quiet
<1>10. Task \subseteq Thread
  BY DEF Thread
<1>. QED BY <1>1, <1>2, <1>3, <1>4, <1>5, <1>6, <1>7, <1>8, <1>9, <1>10
         DEF Next, Poll

\* What beginning a status change of t does to the status changes in progress.
LEMMA BeginsSaving ==
  ASSUME TypeInv, NEW th \in Thread, NEW t \in Task, Begins(th, t)
  PROVE  /\ pc'[th] \in SavePC /\ frame'[th].task = t
         /\ status'[t] \in {"completed", "failed"} /\ Push => pc'[th] = "push"
         /\ \A u \in Task \ {t} : status'[u] = status[u]
         /\ \A x \in Thread : pc[x] \in SavePC =>
              pc'[x] = pc[x] /\ frame'[x] = frame[x]
         /\ UNCHANGED <<log, hooks>>
         /\ status'[t] \in Terminal \/ (th = t /\ frame'[th].next = "load")
         /\ \A x \in Thread \ {th} : pc'[x] = pc[x] /\ frame'[x] = frame[x]
  BY DEF Begins, SetStatus, SavePC, TypeInv, TypeOK

LEMMA LoggedStep ==
  ASSUME TypeInv, FinalStatusLogged, [Next]_vars
  PROVE  FinalStatusLogged'
<1>1. SUFFICES ASSUME NEW t \in Task, "persist" \notin Faults,
                      status'[t] \notin {"none", "submitted"}, ~ Saving(t)'
               PROVE  \E l \in log' : l.task = t /\ l.status = status'[t]
  BY DEF FinalStatusLogged
<1>2. ASSUME status'[t] = status[t], ~ Saving(t), log \subseteq log'
      PROVE  \E l \in log' : l.task = t /\ l.status = status'[t]
  BY <1>1, <1>2 DEF FinalStatusLogged
<1>3. CASE \E u \in Task : SendMessage(u)
  <2>. PICK u \in Task : SendMessage(u)
    BY <1>3
  <2>1. u # t /\ status'[t] = status[t] /\ log' = log
    BY <1>1 DEF SendMessage, TypeInv, TypeOK
  <2>2. ~ Saving(t)
    <3>1. pc[u] \notin SavePC
      BY DEF SendMessage, TypeInv, Known, Accepted, SavePC
    <3>2. \A x \in Thread : pc[x] \in SavePC => pc'[x] = pc[x] /\ frame'[x] = frame[x]
      BY <3>1 DEF SendMessage, TypeInv, TypeOK
    <3>. QED BY <1>1, <3>2 DEF Saving
  <2>. QED BY <1>2, <2>1, <2>2
<1>4. CASE \E th \in Thread, u \in Task : Begins(th, u)
  <2>. PICK th \in Thread, u \in Task : Begins(th, u)
    BY <1>4
  <2>1. u # t
    BY <1>1, BeginsSaving DEF Saving
  <2>2. status'[t] = status[t] /\ log' = log /\ ~ Saving(t)
    BY <1>1, <2>1, BeginsSaving DEF Saving
  <2>. QED BY <1>2, <2>2
<1>5. CASE \E th \in Thread : Save(th)
  <2>. PICK th \in Thread : Save(th)
    BY <1>5
  <2>0. /\ status' = status
        /\ pc[th] \in SavePC
        /\ \A x \in Thread \ {th} : pc'[x] = pc[x] /\ frame'[x] = frame[x]
        /\ log \subseteq log'
    BY DEF Save, PushHook, Persist, PersistFails, entryVars, TypeInv, TypeOK, SavePC
  <2>1. CASE frame[th].task = t
    <3>1. CASE PushHook(th)
      BY <1>1, <2>1, <3>1 DEF PushHook, Saving, SavePC, TypeInv, TypeOK
    <3>2. CASE Persist(th)
      <4>1. [task |-> t, status |-> status[t]] \in log'
        BY <2>1, <3>2 DEF Persist
      <4>. QED BY <2>0, <4>1
    <3>3. CASE PersistFails(th)
      BY <1>1, <3>3 DEF PersistFails
    <3>. QED BY <3>1, <3>2, <3>3 DEF Save
  <2>2. CASE frame[th].task # t
    BY <1>1, <1>2, <2>0, <2>2 DEF Saving
  <2>. QED BY <2>1, <2>2
<1>6. CASE Quiet
  <2>1. ~ Saving(t)
    BY <1>1, <1>6 DEF Quiet, Saving
  <2>. QED BY <1>2, <1>6, <2>1 DEF Quiet
<1>. QED BY <1>3, <1>4, <1>5, <1>6, StepKinds

\* However the status changes of the threads interleave, a task at rest has a
\* line with its status in its peer's file, if no append raises (_set_status,
\* _persist).
THEOREM FinalStatusIsLogged == Spec => []FinalStatusLogged
<1>1. Init => FinalStatusLogged
  BY DEF Init, FinalStatusLogged
<1>2. TypeInv /\ FinalStatusLogged /\ [Next]_vars => FinalStatusLogged'
  BY LoggedStep
<1>. QED BY <1>1, <1>2, InitTypeInv, TypeInvStep, PTL DEF Spec

-----------------------------------------------------------------------------
(* The webhook *)

\* Inductive: until the status is announced, a thread is about to call the
\* webhook for the task.
Announced ==
  \A t \in Task :
    Push /\ status[t] \in {"completed", "failed"} =>
      \/ [task |-> t, status |-> status[t]] \in hooks
      \/ \E th \in Thread : pc[th] = "push" /\ frame[th].task = t

LEMMA AnnouncedStep ==
  ASSUME TypeInv, Announced, [Next]_vars
  PROVE  Announced'
<1>1. SUFFICES ASSUME NEW t \in Task, Push, status'[t] \in {"completed", "failed"}
               PROVE  \/ [task |-> t, status |-> status'[t]] \in hooks'
                      \/ \E th \in Thread : pc'[th] = "push" /\ frame'[th].task = t
  BY DEF Announced
<1>2. ASSUME status'[t] = status[t], hooks \subseteq hooks',
             \A x \in Thread : pc[x] = "push" => pc'[x] = pc[x] /\ frame'[x] = frame[x]
      PROVE  \/ [task |-> t, status |-> status'[t]] \in hooks'
             \/ \E th \in Thread : pc'[th] = "push" /\ frame'[th].task = t
  BY <1>1, <1>2 DEF Announced
<1>3. CASE \E u \in Task : SendMessage(u)
  <2>. PICK u \in Task : SendMessage(u)
    BY <1>3
  <2>1. u # t /\ status'[t] = status[t] /\ hooks' = hooks
    BY <1>1 DEF SendMessage, TypeInv, TypeOK
  <2>2. pc[u] = "idle"
    BY DEF SendMessage, TypeInv, Known
  <2>3. \A x \in Thread : pc[x] = "push" => pc'[x] = pc[x] /\ frame'[x] = frame[x]
    BY <2>2 DEF SendMessage, TypeInv, TypeOK
  <2>. QED BY <1>2, <2>1, <2>3
<1>4. CASE \E th \in Thread, u \in Task : Begins(th, u)
  <2>. PICK th \in Thread, u \in Task : Begins(th, u)
    BY <1>4
  <2>1. CASE u = t
    BY <1>1, <2>1, BeginsSaving
  <2>2. CASE u # t
    BY <1>2, <2>2, BeginsSaving DEF SavePC
  <2>. QED BY <2>1, <2>2
<1>5. CASE \E th \in Thread : Save(th)
  <2>. PICK th \in Thread : Save(th)
    BY <1>5
  <2>1. CASE PushHook(th) /\ frame[th].task = t
    BY <2>1 DEF PushHook, entryVars
  <2>2. CASE PushHook(th) /\ frame[th].task # t
    BY <1>1, <2>2 DEF PushHook, entryVars, Announced, TypeInv, TypeOK
  <2>3. CASE Persist(th) \/ PersistFails(th)
    BY <1>2, <2>3 DEF Persist, PersistFails, entryVars, TypeInv, TypeOK
  <2>. QED BY <2>1, <2>2, <2>3 DEF Save
<1>6. CASE Quiet
  BY <1>2, <1>6 DEF Quiet, SavePC
<1>. QED BY <1>3, <1>4, <1>5, <1>6, StepKinds

\* A task that has come to rest completed or failed has been announced to the
\* webhook with that very status (_set_status, _push).
THEOREM FinalStatusIsAnnounced == Spec => []FinalStatusAnnounced
<1>1. Init => Announced
  BY DEF Init, Announced
<1>2. TypeInv /\ Announced /\ [Next]_vars => Announced'
  BY AnnouncedStep
<1>3. Announced => FinalStatusAnnounced
  BY DEF Announced, FinalStatusAnnounced, Saving, SavePC
<1>. QED BY <1>1, <1>2, <1>3, InitTypeInv, TypeInvStep, PTL DEF Spec

-----------------------------------------------------------------------------
(* The end of a route *)

Ending(t) == pc[t] = "done" \/ (pc[t] \in SavePC /\ frame[t].next = "done")

\* Inductive: a route that has begun its last status change has left the open
\* statuses for good.
EndTerminal == \A t \in Task : Ending(t) => status[t] \in Terminal

LEMMA EndTerminalStep ==
  ASSUME TypeInv, EndTerminal, [Next]_vars
  PROVE  EndTerminal'
<1>1. SUFFICES ASSUME NEW t \in Task, Ending(t)'
               PROVE  status'[t] \in Terminal
  BY DEF EndTerminal
<1>2. t \in Thread
  BY DEF Thread
<1>3. CASE \E u \in Task : SendMessage(u)
  <2>. PICK u \in Task : SendMessage(u)
    BY <1>3
  <2>1. u # t
    BY <1>1 DEF SendMessage, Ending, SavePC, TypeInv, TypeOK, Thread
  <2>. QED BY <1>1, <2>1 DEF SendMessage, Ending, EndTerminal, TypeInv, TypeOK
<1>4. CASE \E th \in Thread, u \in Task : Begins(th, u)
  <2>. PICK th \in Thread, u \in Task : Begins(th, u)
    BY <1>4
  <2>1. CASE u = t
    <3>1. CASE th = t
      BY <1>1, <2>1, <3>1, BeginsSaving DEF Ending, SavePC
    <3>2. CASE th # t
      BY <2>1, <3>2, BeginsSaving
    <3>. QED BY <3>1, <3>2
  <2>2. CASE u # t
    <3>1. th # t
      BY <2>2 DEF Begins
    <3>. QED BY <1>1, <1>2, <2>2, <3>1, BeginsSaving DEF Ending, EndTerminal
  <2>. QED BY <2>1, <2>2
<1>5. CASE \E th \in Thread : Save(th)
  <2>. PICK th \in Thread : Save(th)
    BY <1>5
  <2>1. status' = status
    BY DEF Save, PushHook, Persist, PersistFails, entryVars
  <2>2. Ending(t)
    <3>1. CASE th # t
      BY <1>1, <1>2, <3>1 DEF Save, PushHook, Persist, PersistFails, Ending,
                              TypeInv, TypeOK
    <3>2. CASE th = t /\ PushHook(th)
      BY <1>1, <1>2, <3>2 DEF PushHook, Ending, SavePC, TypeInv, TypeOK
    <3>3. CASE th = t /\ Persist(th)
      BY <1>1, <1>2, <3>3 DEF Persist, Ending, SavePC, TypeInv, TypeOK, Frame
    <3>4. CASE th = t /\ PersistFails(th)
      <4>1. frame[t].err \in {"idle", "except", "died"}
        BY <1>2 DEF TypeInv, TypeOK, Frame
      <4>. QED BY <1>1, <1>2, <3>4, <4>1
               DEF PersistFails, Ending, SavePC, TypeInv, TypeOK
    <3>. QED BY <3>1, <3>2, <3>3, <3>4 DEF Save
  <2>. QED BY <2>1, <2>2 DEF EndTerminal
<1>6. CASE Quiet
  <2>1. Ending(t)
    BY <1>1, <1>2, <1>6 DEF Quiet, Ending, SavePC
  <2>. QED BY <1>6, <2>1 DEF Quiet, EndTerminal
<1>. QED BY <1>3, <1>4, <1>5, <1>6, StepKinds

\* A route that ended leaves its task terminal, whatever was canceled or
\* answered meanwhile and whatever faults struck (_route).
THEOREM EndedRoutesAreTerminal == Spec => []EndedRouteIsTerminal
<1>1. Init => EndTerminal
  BY DEF Init, EndTerminal, Ending, SavePC, Thread
<1>2. TypeInv /\ EndTerminal /\ [Next]_vars => EndTerminal'
  BY EndTerminalStep
<1>3. EndTerminal => EndedRouteIsTerminal
  BY DEF EndTerminal, EndedRouteIsTerminal, Ending
<1>. QED BY <1>1, <1>2, <1>3, InitTypeInv, TypeInvStep, PTL DEF Spec

-----------------------------------------------------------------------------
(* One success per route *)

\* The route has its success behind it.
Over(t) ==
  \/ pc[t] \in {"except", "done", "died"}
  \/ /\ pc[t] \in SavePC
     /\ frame[t].next = "done"
     /\ frame[t].err \in {"except", "died"}

\* Inductive: what a lane has acknowledged, the route does not go on sending.
AckedIsOver == \A t \in Task : acked[t] # {} => Over(t)

\* Steps of other threads leave the state of a route alone, and never report a
\* task as undeliverable.
RouteUntouched(t) ==
  /\ UNCHANGED <<pc[t], frame[t], acked[t], copies[t], pos[t], avTried[t],
                 lastErr[t]>>
  /\ result'[t] = "undelivered" => result[t] = "undelivered"

LEMMA RouteOwnsItself ==
  ASSUME TypeInv, [Next]_vars, NEW t \in Task
  PROVE  RouteUntouched(t) \/ SendMessage(t) \/ Route(t) \/ Save(t)
<1>. USE DistinctAssumption DEF TypeInv, TypeOK, RouteUntouched, Thread
<1>1. CASE UNCHANGED vars
  BY <1>1 DEF vars, entryVars, routeVars
<1>2. ASSUME NEW u \in Task \ {t}, SendMessage(u)
      PROVE  RouteUntouched(t)
  BY <1>2 DEF SendMessage, routeVars
<1>3. ASSUME NEW u \in Task \ {t}, Route(u)
      PROVE  RouteUntouched(t)
  BY <1>3 DEF Route, StartWorking, LoadPeers, Send, SendRaises, SkipLane, SendOk,
       SendError, ChainExhausted, RouteException, SetStatus, entryVars, routeVars
<1>4. ASSUME NEW c \in Canceler, CancelFind(c) \/ CancelAct(c)
      PROVE  RouteUntouched(t)
  <2>1. c # t /\ c \in Thread
    BY DEF Thread
  <2>2. CASE CancelAct(c)
    BY <2>1, <2>2 DEF CancelAct, SetStatus, entryVars, routeVars
  <2>3. CASE CancelFind(c)
    <3>1. UNCHANGED <<result, routeVars>> /\ pc'[t] = pc[t]
      BY <2>1, <2>3 DEF CancelFind, entryVars
    <3>2. frame'[t] = frame[t]
      <4>1. ASSUME NEW f, frame' = [frame EXCEPT ![c] = f]
            PROVE  frame'[t] = frame[t]
        BY <2>1, <4>1
      <4>2. ASSUME NEW i \in OpenMatches(CancelId[c]),
                   frame' = [frame EXCEPT ![c] = [@ EXCEPT !.task = order[i]]]
            PROVE  frame'[t] = frame[t]
        BY <4>1, <4>2, Zenon
      <4>. QED BY <2>3, <4>2 DEF CancelFind
    <3>. QED BY <3>1, <3>2 DEF routeVars
  <2>. QED BY <1>4, <2>2, <2>3
<1>5. ASSUME NEW m \in Reply, ReplyArrives(m) \/ PollTake(m)
      PROVE  RouteUntouched(t)
  BY <1>5 DEF ReplyArrives, PollTake, entryVars, routeVars
<1>6. CASE PollScan
  <2>1. scan.reply # NoReply => scan.reply # "undelivered"
    BY DEF Note, NoReply
  <2>2. \A u : result' = [result EXCEPT ![u] = scan.reply] =>
          result'[t] \in {result[t], scan.reply}
    OBVIOUS
  <2>3. result'[t] \in {result[t], scan.reply}
    BY <1>6, <2>2 DEF PollScan
  <2>. QED BY <1>6, <2>1, <2>3 DEF PollScan, routeVars, NoReply
<1>7. CASE PollAct
  BY <1>7 DEF PollAct, SetStatus, entryVars, routeVars
<1>8. CASE PollerDies
  BY <1>8 DEF PollerDies, entryVars, routeVars
<1>9. ASSUME NEW th \in Thread \ {t}, Save(th)
      PROVE  RouteUntouched(t)
  BY <1>9 DEF Save, PushHook, Persist, PersistFails, entryVars, routeVars
<1>. HIDE DEF TypeInv, RouteUntouched
<1>. QED BY <1>1, <1>2, <1>3, <1>4, <1>5, <1>6, <1>7, <1>8, <1>9 DEF Next, Poll

\* The append that records the end of a route does not reopen it.
LEMMA SaveStaysOver ==
  ASSUME TypeInv, NEW t \in Task, Over(t), Save(t)
  PROVE  Over(t)'
<1>1. t \in Thread
  BY DEF Thread
<1>2. CASE PushHook(t)
  BY <1>1, <1>2 DEF PushHook, Over, SavePC, TypeInv, TypeOK
<1>3. CASE Persist(t)
  BY <1>1, <1>3 DEF Persist, Over, SavePC, TypeInv, TypeOK
<1>4. CASE PersistFails(t)
  BY <1>1, <1>4 DEF PersistFails, Over, SavePC, TypeInv, TypeOK
<1>. QED BY <1>2, <1>3, <1>4 DEF Save

LEMMA AckedStep ==
  ASSUME TypeInv, AckedIsOver, [Next]_vars
  PROVE  /\ AckedIsOver'
         /\ \A t \in Task : acked[t] # {} => copies'[t] = copies[t]
                                             /\ acked'[t] = acked[t]
<1>1. SUFFICES ASSUME NEW t \in Task
               PROVE  /\ acked'[t] # {} => Over(t)'
                      /\ acked[t] # {} => copies'[t] = copies[t]
                                          /\ acked'[t] = acked[t]
  BY DEF AckedIsOver
<1>2. t \in Thread
  BY DEF Thread
<1>3. CASE RouteUntouched(t)
  BY <1>3 DEF RouteUntouched, AckedIsOver, Over
<1>4. CASE SendMessage(t)
  <2>1. pc[t] = "idle"
    BY <1>4 DEF SendMessage, TypeInv, Known
  <2>2. acked[t] = {}
    BY <2>1 DEF AckedIsOver, Over, SavePC
  <2>. QED BY <1>4, <2>2 DEF SendMessage, routeVars
<1>5. CASE Route(t)
  <2>1. CASE RouteException(t)
    BY <1>2, <2>1 DEF RouteException, SetStatus, routeVars, Over, SavePC,
                      TypeInv, TypeOK
  <2>2. CASE ~ RouteException(t)
    <3>1. pc[t] \in {"start", "load", "send", "taken", "refused"}
      BY <1>5, <2>2 DEF Route, StartWorking, LoadPeers, Send, SendRaises,
                        SkipLane, SendOk, SendError, ChainExhausted
    <3>2. acked[t] = {}
      BY <3>1 DEF AckedIsOver, Over, SavePC
    <3>3. CASE SendOk(t)
      BY <1>2, <3>2, <3>3 DEF SendOk, SetStatus, Over, SavePC, TypeInv, TypeOK
    <3>4. CASE ~ SendOk(t)
      BY <1>5, <2>2, <3>2, <3>4
         DEF Route, StartWorking, LoadPeers, Send, SendRaises, SkipLane,
             SendError, ChainExhausted, routeVars
    <3>. QED BY <3>3, <3>4
  <2>. QED BY <2>1, <2>2
<1>6. CASE Save(t)
  <2>1. pc[t] \in SavePC /\ UNCHANGED routeVars
    BY <1>6 DEF Save, PushHook, Persist, PersistFails, SavePC
  <2>2. Over(t) => Over(t)'
    BY <1>6, SaveStaysOver
  <2>. QED BY <2>1, <2>2 DEF AckedIsOver, routeVars
<1>. QED BY <1>3, <1>4, <1>5, <1>6, RouteOwnsItself

\* A route gives a task to no further lane once one has answered with a
\* success, not even when the append that records the success raises (_route).
THEOREM RoutesStopAtFirstSuccess == Spec => StopsAtFirstSuccess
<1>1. Init => AckedIsOver
  BY DEF Init, AckedIsOver
<1>2. TypeInv /\ AckedIsOver /\ [Next]_vars =>
        /\ AckedIsOver'
        /\ [\A t \in Task : acked[t] # {} => copies'[t] = copies[t]
                                           /\ acked'[t] = acked[t]]_vars
  BY AckedStep
<1>. QED BY <1>1, <1>2, InitTypeInv, TypeInvStep, PTL
         DEF Spec, StopsAtFirstSuccess

-----------------------------------------------------------------------------
(* What a failure means *)

\* Inductive: the lanes passed have an error, agentverse is passed exactly when
\* its attempts are used up, and what is reported undeliverable has passed them
\* all.
Passed(t) ==
  /\ \A k \in 1..Len(ChainOf(t)) :
       /\ k < pos[t] => ChainOf(t)[k] \in lastErr[t]
       /\ ChainOf(t)[k] = "agentverse" =>
            IF k < pos[t] THEN avTried[t] = AVRetry ELSE avTried[t] < AVRetry
  /\ result[t] = "undelivered" =>
       /\ Over(t)
       /\ pos[t] > Len(ChainOf(t))
       /\ acked[t] = {}

AllPassed == \A t \in Task : Passed(t)

\* One lane further.
LEMMA PassOne ==
  ASSUME TypeInv, NEW t \in Task, Passed(t), pos[t] <= Len(ChainOf(t)),
         LaneOf(t) \in lastErr'[t], lastErr[t] \subseteq lastErr'[t],
         pos'[t] = pos[t] + 1,
         IF LaneOf(t) = "agentverse" THEN avTried'[t] = AVRetry
                                     ELSE avTried'[t] = avTried[t]
  PROVE  \A k \in 1..Len(ChainOf(t)) :
           /\ k < pos'[t] => ChainOf(t)[k] \in lastErr'[t]
           /\ ChainOf(t)[k] = "agentverse" =>
                IF k < pos'[t] THEN avTried'[t] = AVRetry
                               ELSE avTried'[t] < AVRetry
<1>. DEFINE c == ChainOf(t)
<1>1. Usable[PeerOf[t]] \in SUBSET Lane
  BY HubAssumption
<1>2. \A i, j \in 1..Len(c) : c[i] = c[j] => i = j
  BY <1>1, ChainLanes DEF ChainOf
<1>3. /\ pos[t] \in Nat \ {0} /\ avTried[t] \in Nat /\ Len(c) \in Nat
      /\ AVRetry \in Nat /\ LaneOf(t) = c[pos[t]]
  BY HubAssumption, ChainType DEF TypeInv, TypeOK, LaneOf, ChainOf
<1>4. SUFFICES ASSUME NEW k \in 1..Len(c)
               PROVE  /\ k < pos'[t] => c[k] \in lastErr'[t]
                      /\ c[k] = "agentverse" =>
                           IF k < pos'[t] THEN avTried'[t] = AVRetry
                                          ELSE avTried'[t] < AVRetry
  OBVIOUS
<1>5. pos[t] \in 1..Len(c)
  BY <1>3
<1>6. /\ k < pos[t] => c[k] \in lastErr[t]
      /\ c[k] = "agentverse" =>
           IF k < pos[t] THEN avTried[t] = AVRetry ELSE avTried[t] < AVRetry
  BY DEF Passed
<1>. HIDE DEF c
<1>7. CASE k = pos[t]
  BY <1>3, <1>7
<1>8. CASE k # pos[t]
  <2>1. LaneOf(t) = "agentverse" => c[k] # "agentverse"
    BY <1>2, <1>3, <1>5, <1>8
  <2>2. (k < pos'[t]) <=> (k < pos[t])
    BY <1>3, <1>8
  <2>. QED BY <1>3, <1>6, <2>1, <2>2
<1>. QED BY <1>7, <1>8

LEMMA RoutePassed ==
  ASSUME TypeInv, AckedIsOver, NEW t \in Task, Passed(t), Route(t)
  PROVE  Passed(t)'
<1>. DEFINE Lanes == \A k \in 1..Len(ChainOf(t)) :
       /\ k < pos[t] => ChainOf(t)[k] \in lastErr[t]
       /\ ChainOf(t)[k] = "agentverse" =>
            IF k < pos[t] THEN avTried[t] = AVRetry ELSE avTried[t] < AVRetry
<1>1. t \in Thread /\ ChainOf(t)' = ChainOf(t)
  BY DEF Thread, ChainOf
<1>2. Lanes
  BY DEF Passed
<1>5. CASE StartWorking(t)
  <2>1. UNCHANGED <<result, pos, avTried, lastErr>>
    BY <1>5 DEF StartWorking, SetStatus, routeVars, TypeInv, TypeOK
  <2>2. pc[t] = "start"
    BY <1>5 DEF StartWorking
  <2>3. result[t] # "undelivered"
    BY <2>2 DEF Passed, Over, SavePC
  <2>. QED BY <1>1, <1>2, <2>1, <2>3 DEF Passed
<1>6. CASE LoadPeers(t) \/ Send(t) \/ SendRaises(t)
  <2>1. UNCHANGED <<result, pos, avTried, lastErr>>
    BY <1>6 DEF LoadPeers, Send, SendRaises, entryVars, routeVars
  <2>2. pc[t] \in {"load", "send"}
    BY <1>6 DEF LoadPeers, Send, SendRaises
  <2>3. result[t] # "undelivered"
    BY <2>2 DEF Passed, Over, SavePC
  <2>. QED BY <1>1, <1>2, <2>1, <2>3 DEF Passed
<1>7. CASE SkipLane(t)
  <2>1. LaneOf(t) # "agentverse"
    <3>1. Usable[PeerOf[t]] \in SUBSET Lane
      BY HubAssumption
    <3>2. \A k \in 1..Len(ChainOf(t)) :
            ChainOf(t)[k] \in Usable[PeerOf[t]] \cup {"agentmail"}
      BY <3>1, ChainLanes DEF ChainOf
    <3>3. pos[t] \in 1..Len(ChainOf(t))
      BY <1>7, ChainType DEF SkipLane, TypeInv, TypeOK, ChainOf
    <3>. QED BY <1>7, <3>2, <3>3 DEF SkipLane, LaneOf
  <2>2. Lanes'
    <3>1. /\ pos[t] <= Len(ChainOf(t)) /\ pos'[t] = pos[t] + 1
          /\ LaneOf(t) \in lastErr'[t] /\ lastErr[t] \subseteq lastErr'[t]
          /\ avTried'[t] = avTried[t]
      BY <1>7 DEF SkipLane, TypeInv, TypeOK
    <3>. QED BY <1>1, <2>1, <3>1, PassOne
  <2>3. result'[t] # "undelivered"
    <3>1. pc[t] = "send" /\ UNCHANGED result
      BY <1>7 DEF SkipLane, entryVars
    <3>. QED BY <3>1 DEF Passed, Over, SavePC
  <2>. QED BY <1>1, <2>2, <2>3 DEF Passed
<1>8. CASE SendOk(t)
  <2>1. result'[t] # "undelivered" /\ UNCHANGED <<pos, avTried, lastErr>>
    BY <1>8 DEF SendOk, SetStatus, TypeInv, TypeOK
  <2>. QED BY <1>1, <1>2, <2>1 DEF Passed
<1>9. CASE SendError(t)
  <2>1. pos[t] <= Len(ChainOf(t))
    BY <1>9 DEF SendError, TypeInv, InChain
  <2>2. pos[t] \in 1..Len(ChainOf(t)) /\ avTried[t] \in Nat /\ AVRetry \in Nat
    BY <2>1, HubAssumption, ChainType DEF TypeInv, TypeOK, ChainOf
  <2>3. LaneOf(t) = "agentverse" => avTried[t] < AVRetry
    BY <1>2, <2>2 DEF LaneOf
  <2>4. /\ LaneOf(t) \in lastErr'[t] /\ lastErr[t] \subseteq lastErr'[t]
        /\ avTried'[t] = IF LaneOf(t) = "agentverse" THEN avTried[t] + 1 ELSE avTried[t]
        /\ pos'[t] = IF LaneOf(t) = "agentverse" /\ avTried[t] + 1 < AVRetry
                     THEN pos[t] ELSE pos[t] + 1
        /\ pc[t] \in {"taken", "refused"}
        /\ result' = result
    BY <1>1, <1>9 DEF SendError, entryVars, TypeInv, TypeOK
  <2>5. Lanes'
    <3>1. CASE LaneOf(t) = "agentverse" /\ avTried[t] + 1 < AVRetry
      <4>1. \A k \in 1..Len(ChainOf(t)) :
              ChainOf(t)[k] = "agentverse" => k = pos[t]
        <5>1. Usable[PeerOf[t]] \in SUBSET Lane
          BY HubAssumption
        <5>2. \A i, j \in 1..Len(ChainOf(t)) :
                ChainOf(t)[i] = ChainOf(t)[j] => i = j
          BY <5>1, ChainLanes DEF ChainOf
        <5>. QED BY <2>2, <3>1, <5>2 DEF LaneOf
      <4>2. pos'[t] = pos[t] /\ avTried'[t] < AVRetry
        BY <2>4, <3>1
      <4>. QED BY <1>1, <1>2, <2>2, <2>4, <4>1, <4>2
    <3>2. CASE ~ (LaneOf(t) = "agentverse" /\ avTried[t] + 1 < AVRetry)
      <4>1. pos'[t] = pos[t] + 1
        BY <2>4, <3>2
      <4>2. IF LaneOf(t) = "agentverse" THEN avTried'[t] = AVRetry
                                        ELSE avTried'[t] = avTried[t]
        BY <2>2, <2>3, <2>4, <3>2
      <4>. QED BY <1>1, <2>1, <2>4, <4>1, <4>2, PassOne
    <3>. QED BY <3>1, <3>2
  <2>6. result[t] # "undelivered"
    BY <2>4 DEF Passed, Over, SavePC
  <2>. QED BY <1>1, <2>4, <2>5, <2>6 DEF Passed
<1>10. CASE ChainExhausted(t)
  <2>1. acked[t] = {}
    BY <1>10 DEF ChainExhausted, AckedIsOver, Over, SavePC
  <2>2. /\ pc'[t] \in SavePC /\ frame'[t].next = "done" /\ frame'[t].err = "except"
        /\ UNCHANGED <<pos, avTried, lastErr, acked>>
    BY <1>1, <1>10 DEF ChainExhausted, SetStatus, routeVars, SavePC, TypeInv, TypeOK
  <2>. QED BY <1>1, <1>2, <1>10, <2>1, <2>2 DEF Passed, Over, SavePC, ChainExhausted
<1>11. CASE RouteException(t)
  <2>1. result'[t] # "undelivered" /\ UNCHANGED <<pos, avTried, lastErr>>
    BY <1>11 DEF RouteException, SetStatus, routeVars, TypeInv, TypeOK
  <2>. QED BY <1>1, <1>2, <2>1 DEF Passed
<1>. QED BY <1>5, <1>6, <1>7, <1>8, <1>9, <1>10, <1>11 DEF Route

LEMMA PassedStep ==
  ASSUME TypeInv, AckedIsOver, AllPassed, [Next]_vars
  PROVE  AllPassed'
<1>1. SUFFICES ASSUME NEW t \in Task PROVE Passed(t)'
  BY DEF AllPassed
<1>2. Passed(t) /\ t \in Thread /\ ChainOf(t)' = ChainOf(t)
  BY DEF AllPassed, Thread, ChainOf
<1>3. CASE RouteUntouched(t)
  BY <1>2, <1>3 DEF RouteUntouched, Passed, Over
<1>4. CASE SendMessage(t)
  <2>1. UNCHANGED <<result, pos, avTried, lastErr, acked>> /\ pc[t] = "idle"
    BY <1>4 DEF SendMessage, routeVars, TypeInv, Known
  <2>2. result[t] # "undelivered"
    BY <1>2, <2>1 DEF Passed, Over, SavePC
  <2>. QED BY <1>2, <2>1, <2>2 DEF Passed
<1>5. CASE Route(t)
  BY <1>2, <1>5, RoutePassed
<1>6. CASE Save(t)
  <2>1. UNCHANGED <<result, pos, avTried, lastErr, acked>> /\ pc[t] \in SavePC
    BY <1>6 DEF Save, PushHook, Persist, PersistFails, entryVars, routeVars, SavePC
  <2>2. Over(t) => Over(t)'
    BY <1>6, SaveStaysOver
  <2>. QED BY <1>2, <2>1, <2>2 DEF Passed
<1>. QED BY <1>3, <1>4, <1>5, <1>6, RouteOwnsItself

\* A task is only reported as undeliverable after every usable lane of its peer
\* has recorded an error, agentverse has had all its attempts and no lane has
\* answered with a success (_route, _transport_chain).
THEOREM FailuresAreJustified == Spec => []FailureJustified
<1>1. Init => AckedIsOver /\ AllPassed
  <2>1. SUFFICES ASSUME Init, NEW t \in Task PROVE acked[t] = {} /\ Passed(t)
    BY DEF AckedIsOver, AllPassed
  <2>2. /\ acked[t] = {} /\ pos[t] = 1 /\ avTried[t] = 0 /\ result[t] = "none"
    BY <2>1 DEF Init
  <2>3. AVRetry \in Nat \ {0} /\ Len(ChainOf(t)) \in Nat
    BY HubAssumption, ChainType DEF ChainOf
  <2>. QED BY <2>2, <2>3 DEF Passed
<1>2. TypeInv /\ AckedIsOver /\ AllPassed /\ [Next]_vars
      => AckedIsOver' /\ AllPassed'
  BY AckedStep, PassedStep
<1>3. TypeInv /\ AllPassed => FailureJustified
  <2>1. SUFFICES ASSUME TypeInv, NEW t \in Task, Passed(t), result[t] = "undelivered"
                 PROVE  /\ acked[t] = {}
                        /\ Usable[PeerOf[t]] \subseteq lastErr[t]
                        /\ "agentverse" \in Usable[PeerOf[t]] => avTried[t] = AVRetry
    BY DEF AllPassed, FailureJustified
  <2>2. Usable[PeerOf[t]] \in SUBSET Lane /\ Len(ChainOf(t)) \in Nat
    BY HubAssumption, ChainType DEF ChainOf
  <2>3. \A l \in Usable[PeerOf[t]] :
          \E k \in 1..Len(ChainOf(t)) : ChainOf(t)[k] = l
    BY <2>2, ChainLanes DEF ChainOf
  <2>4. \A k \in 1..Len(ChainOf(t)) : k < pos[t]
    BY <2>1, <2>2 DEF Passed, TypeInv, TypeOK
  <2>. QED BY <2>1, <2>3, <2>4 DEF Passed
<1>. QED BY <1>1, <1>2, <1>3, InitTypeInv, TypeInvStep, PTL DEF Spec

-----------------------------------------------------------------------------
(* What completes a task *)

Justified(t) ==
  \/ acked[t] # {}
  \/ \E m \in seen : ReplyPeer[m] = PeerOf[t] /\ ReplyId[m] = IdOf[t]

\* The reply the poll loop has in hand has been read, and the task it is about to
\* complete is the one the reply names.
ReplyInHand ==
  /\ pc["poller"] \in {"scan", "act"} \cup SavePC => scan.reply \in seen
  /\ pc["poller"] = "act" =>
       /\ PeerOf[frame["poller"].task] = ReplyPeer[scan.reply]
       /\ IdOf[frame["poller"].task] = ReplyId[scan.reply]

CompletedIsJustified == \A t \in Task : "completed" \in history[t] => Justified(t)

\* The other threads leave the poll loop where it is.
LEMMA PollerLeftAlone ==
  ASSUME TypeInv, ReplyInHand, NEW th \in Thread, th # "poller",
         \/ th \in Task /\ (SendMessage(th) \/ Route(th))
         \/ th \in Canceler /\ (CancelFind(th) \/ CancelAct(th))
         \/ Save(th)
  PROVE  ReplyInHand' /\ UNCHANGED seen
<1>. USE DEF TypeInv, TypeOK, entryVars, routeVars, pollVars, SetStatus
<1>1. UNCHANGED <<scan, seen>>
  BY DEF SendMessage, Route, StartWorking, LoadPeers, Send, SendRaises, SkipLane, SendOk,
         SendError, ChainExhausted, RouteException, CancelFind, CancelAct, Save, PushHook,
         Persist, PersistFails
<1>2. pc'["poller"] = pc["poller"]
  BY DEF SendMessage, Route, StartWorking, LoadPeers, Send, SendRaises, SkipLane, SendOk,
         SendError, ChainExhausted, RouteException, CancelFind, CancelAct, Save, PushHook,
         Persist, PersistFails, Thread
<1>3. frame'["poller"] = frame["poller"]
  BY DEF SendMessage, Route, StartWorking, LoadPeers, Send, SendRaises, SkipLane, SendOk,
         SendError, ChainExhausted, RouteException, CancelFind, CancelAct, Save, PushHook,
         Persist, PersistFails, Thread
<1>. QED BY <1>1, <1>2, <1>3 DEF ReplyInHand

LEMMA PollKeepsReply ==
  ASSUME TypeInv, ReplyInHand, Poll \/ PollerDies \/ Save("poller")
  PROVE  ReplyInHand' /\ seen \subseteq seen'
<1>. USE DEF TypeInv, TypeOK, entryVars, routeVars, pollVars
<1>0. "poller" \in Thread
  BY DEF Thread
<1>1. ASSUME NEW m \in Reply, PollTake(m)
      PROVE  ReplyInHand' /\ seen \subseteq seen'
  BY <1>0, <1>1 DEF PollTake, ReplyInHand
<1>2. CASE PollScan
  <2>1. UNCHANGED seen /\ pc["poller"] = "scan"
    BY <1>2 DEF PollScan
  <2>2. CASE scan.at > Len(order)
    BY <1>0, <1>2, <2>1, <2>2 DEF PollScan, ReplyInHand, SavePC
  <2>3. CASE ~ (scan.at > Len(order)) /\ ScanHits(scan.at)
    <3>1. /\ scan' = [scan EXCEPT !.at = scan.at + 1]
          /\ frame' = [frame EXCEPT !["poller"] = [frame["poller"] EXCEPT !.task = order[scan.at]]]
          /\ pc' = [pc EXCEPT !["poller"] = "act"]
      BY <1>2, <2>3 DEF PollScan
    <3>2. scan'.reply = scan.reply /\ frame'["poller"].task = order[scan.at]
      BY <1>0, <3>1 DEF Frame
    <3>. QED BY <1>0, <2>1, <2>3, <3>1, <3>2 DEF ReplyInHand, ScanHits
  <2>4. CASE ~ (scan.at > Len(order)) /\ ~ ScanHits(scan.at)
    <3>1. scan' = [scan EXCEPT !.at = scan.at + 1] /\ UNCHANGED pc
      BY <1>2, <2>4 DEF PollScan
    <3>2. scan'.reply = scan.reply
      BY <3>1
    <3>. QED BY <2>1, <3>1, <3>2 DEF ReplyInHand
  <2>. QED BY <2>2, <2>3, <2>4
<1>3. CASE PollAct
  BY <1>0, <1>3 DEF PollAct, SetStatus, ReplyInHand, SavePC
<1>4. CASE PollerDies
  BY <1>0, <1>4 DEF PollerDies, ReplyInHand, SavePC
<1>5. CASE Save("poller")
  <2>1. /\ UNCHANGED <<scan, seen>> /\ pc["poller"] \in SavePC
        /\ pc'["poller"] \in {"persist", "idle", "load", "done", "scan", "except", "died"}
    BY <1>0, <1>5 DEF Save, PushHook, Persist, PersistFails, SavePC, Frame
  <2>. QED BY <2>1 DEF ReplyInHand, SavePC
<1>. QED BY <1>1, <1>2, <1>3, <1>4, <1>5 DEF Poll

LEMMA ReplyInHandStep ==
  ASSUME TypeInv, ReplyInHand, [Next]_vars
  PROVE  ReplyInHand' /\ seen \subseteq seen'
<1>1. CASE UNCHANGED vars
  BY <1>1 DEF vars, pollVars, ReplyInHand
<1>2. ASSUME NEW m \in Reply, ReplyArrives(m)
      PROVE  ReplyInHand' /\ seen \subseteq seen'
  BY <1>2 DEF ReplyArrives, ReplyInHand
<1>3. \A th \in Task \cup Canceler : th \in Thread /\ th # "poller"
  BY DistinctAssumption DEF Thread
<1>4. Thread = Task \cup Canceler \cup {"poller"}
  BY DEF Thread
<1>5. ASSUME NEW th \in Thread, Save(th)
      PROVE  ReplyInHand' /\ seen \subseteq seen'
  BY <1>5, PollerLeftAlone, PollKeepsReply
<1>. QED BY <1>1, <1>2, <1>3, <1>5, PollerLeftAlone, PollKeepsReply DEF Next

\* The statuses a task gets: a completion has its reason.
LEMMA CompletionStep ==
  ASSUME TypeInv, ReplyInHand, CompletedIsJustified, [Next]_vars
  PROVE  CompletedIsJustified'
<1>. USE DEF TypeInv, TypeOK, entryVars, routeVars
<1>1. \A t \in Task : acked[t] \subseteq acked'[t]
  <2>1. CASE UNCHANGED acked
    BY <2>1
  <2>2. CASE \E t \in Task : SendOk(t)
    BY <2>2 DEF SendOk
  <2>3. UNCHANGED acked \/ \E t \in Task : SendOk(t)
    BY Zenon DEF Next, vars, SendMessage, Route, StartWorking, LoadPeers, Send, SendRaises,
         SkipLane, SendError, ChainExhausted, RouteException, CancelFind, CancelAct,
         ReplyArrives, Poll, PollTake, PollScan, PollAct, PollerDies, Save, PushHook, Persist,
         PersistFails
  <2>. QED BY <2>1, <2>2, <2>3
<1>2. seen \subseteq seen'
  BY ReplyInHandStep
<1>3. \A t \in Task : Justified(t) => Justified(t)'
  BY <1>1, <1>2 DEF Justified
<1>4. CASE history' = history
  BY <1>3, <1>4 DEF CompletedIsJustified
<1>5. ASSUME NEW t \in Task, NEW new \in Status, NEW a, NEW b, NEW c, NEW d,
             SetStatus(a, t, new, b, c, d), new = "completed" => Justified(t)'
      PROVE  CompletedIsJustified'
  <2>1. \A u \in Task : history'[u] = IF u = t THEN history[u] \cup {new} ELSE history[u]
    BY <1>5 DEF SetStatus
  <2>. QED BY <1>3, <1>5, <2>1 DEF CompletedIsJustified
<1>6. ASSUME NEW t \in Task, SendMessage(t) PROVE CompletedIsJustified'
  <2>1. \A u \in Task : history'[u] = IF u = t THEN {"submitted"} ELSE history[u]
    BY <1>6 DEF SendMessage
  <2>2. ASSUME NEW u \in Task, "completed" \in history'[u] PROVE Justified(u)'
    <3>1. CASE u = t
      <4>1. "completed" \in {"submitted"}
        BY <2>1, <2>2, <3>1, Zenon
      <4>. QED BY <4>1
    <3>2. CASE u # t
      <4>1. "completed" \in history[u]
        BY <2>1, <2>2, <3>2, Zenon
      <4>. QED BY <1>3, <4>1 DEF CompletedIsJustified
    <3>. QED BY <3>1, <3>2
  <2>. QED BY <2>2 DEF CompletedIsJustified
<1>7. ASSUME NEW t \in Task, Route(t) PROVE CompletedIsJustified'
  <2>1. CASE SendOk(t)
    <3>1. acked'[t] # {}
      BY <2>1 DEF SendOk
    <3>2. Justified(t)'
      BY <3>1 DEF Justified
    <3>. QED BY <1>5, <2>1, <3>2 DEF SendOk, Status, Terminal
  <2>2. CASE StartWorking(t) \/ ChainExhausted(t) \/ RouteException(t)
    BY <1>5, <2>2 DEF StartWorking, ChainExhausted, RouteException, Status, Open, Terminal
  <2>3. CASE LoadPeers(t) \/ Send(t) \/ SendRaises(t) \/ SkipLane(t) \/ SendError(t)
    BY <1>4, <2>3 DEF LoadPeers, Send, SendRaises, SkipLane, SendError
  <2>. QED BY <1>7, <2>1, <2>2, <2>3 DEF Route
<1>8. ASSUME NEW c \in Canceler, CancelFind(c) \/ CancelAct(c) PROVE CompletedIsJustified'
  <2>1. CASE CancelFind(c)
    BY <1>4, <2>1 DEF CancelFind
  <2>2. CASE CancelAct(c)
    <3>1. frame[c].task \in Task
      BY <2>2 DEF CancelAct, Known, OnTask, Thread
    <3>2. ASSUME NEW t \in Task, t = frame[c].task PROVE CompletedIsJustified'
      <4>1. SetStatus(c, t, "canceled", "canceled", "done", "died")
        BY <2>2, <3>2, Zenon DEF CancelAct
      <4>2. "canceled" \in Status /\ "canceled" # "completed"
        BY DEF Status, Terminal
      <4>. QED BY <1>5, <4>1, <4>2
    <3>. QED BY <3>1, <3>2
  <2>. QED BY <1>8, <2>1, <2>2
<1>9. CASE Poll
  <2>1. CASE PollAct
    <3>1. frame["poller"].task \in Task /\ pc["poller"] = "act"
      BY <2>1 DEF PollAct, Known, OnTask, Thread
    <3>2. Justified(frame["poller"].task)
      BY <3>1 DEF ReplyInHand, Justified
    <3>3. UNCHANGED <<acked, seen>>
      BY <2>1 DEF PollAct, pollVars
    <3>. DEFINE u == frame["poller"].task
    <3>4. ASSUME NEW t \in Task, t = u PROVE CompletedIsJustified'
      <4>1. Justified(t)'
        BY <1>3, <3>2, <3>4
      <4>. QED BY <1>5, <2>1, <3>4, <4>1 DEF PollAct, Status, Terminal
    <3>. QED BY <3>1, <3>4
  <2>2. CASE PollScan \/ \E m \in Reply : PollTake(m)
    BY <1>4, <2>2 DEF PollScan, PollTake
  <2>. QED BY <1>9, <2>1, <2>2 DEF Poll
<1>10. CASE UNCHANGED vars \/ PollerDies \/ \E m \in Reply : ReplyArrives(m)
  BY <1>4, <1>10 DEF vars, PollerDies, ReplyArrives
<1>11. ASSUME NEW th \in Thread, Save(th) PROVE CompletedIsJustified'
  BY <1>4, <1>11 DEF Save, PushHook, Persist, PersistFails
<1>. QED BY <1>6, <1>7, <1>8, <1>9, <1>10, <1>11 DEF Next

\* No task is ever completed out of nothing: a lane has answered its route with a
\* success, or a reply that names it was read from its peer's inbox (_route and
\* poll_loop), whatever the threads interleave and whatever ids clients reuse.
THEOREM CompletionsAreJustified == Spec => []CompletionJustified
<1>1. Init => ReplyInHand /\ CompletedIsJustified
  BY DEF Init, ReplyInHand, CompletedIsJustified, SavePC, Thread
<1>2. TypeInv /\ ReplyInHand /\ CompletedIsJustified /\ [Next]_vars
        => ReplyInHand' /\ CompletedIsJustified'
  BY ReplyInHandStep, CompletionStep
<1>3. CompletedIsJustified => CompletionJustified
  BY DEF CompletedIsJustified, CompletionJustified, Justified
<1>. QED BY <1>1, <1>2, <1>3, InitTypeInv, TypeInvStep, PTL DEF Spec
=============================================================================
