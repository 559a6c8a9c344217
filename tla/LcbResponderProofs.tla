------------------------- MODULE LcbResponderProofs -------------------------
(* Theorems about LcbResponder, for any mail, any number of copies, and any    *)
(* kills and failures.                                                         *)
EXTENDS LcbResponder, TLAPS

-----------------------------------------------------------------------------
(* Types, and the single instance *)

TypeInv ==
  /\ TypeOK
  /\ \A p \in Proc : pc[p] = "report" => hand[p] \in Msg

\* Who runs holds the lock.
LockInv == \A p \in Proc : pc[p] # "down" => lock = p

LEMMA MailIsEntry ==
  ASSUME NEW m \in Msg
  PROVE  Mail(m) \in Entry /\ Mail(m).of = m /\ Mail(m).report = 0
  BY DEF Mail, Entry

LEMMA EntryIsMail ==
  ASSUME NEW e \in Entry, e.report = 0
  PROVE  e.of \in Msg /\ e = Mail(e.of)
  BY DEF Mail, Entry

LEMMA ListedTyped == TypeOK => Listed \subseteq Entry
  BY DEF TypeOK, Listed

\* While a copy runs, it is the only one.
LEMMA Solo ==
  ASSUME TypeInv, LockInv, NEW p \in Proc, pc[p] # "down",
         NEW to, pc' = [pc EXCEPT ![p] = to]
  PROVE  /\ pc'[p] = to
         /\ \A q \in Proc : q # p => pc[q] = "down" /\ pc'[q] = "down"
  BY DEF TypeInv, TypeOK, LockInv

LEMMA ReportTyped ==
  ASSUME TypeInv, NEW p \in Proc, Report(p)
  PROVE  TypeInv'
<1>1. /\ hand[p] \in Msg
      /\ pc' = [pc EXCEPT ![p] = "loop"] /\ hand' = [hand EXCEPT ![p] = NoMsg]
      /\ forwarded' = [forwarded EXCEPT ![p] = FALSE]
      /\ UNCHANGED <<lock, seenFile, items, kills, armed, forwards>>
  BY DEF Report, Move, TypeInv
<1>2. Mail(hand[p]) \in Entry
  BY <1>1, MailIsEntry
<1>3. seen' \in [Proc -> SUBSET Entry]
  <2>1. seen' = seen \/ seen' = [seen EXCEPT ![p] = @ \cup {Mail(hand[p])}]
    BY DEF Report, Reported, Left
  <2> QED BY <1>2, <2>1 DEF TypeInv, TypeOK
<1>4. fails' \in 0..MaxFails /\ lost' \in [Msg -> Nat]
  <2>1. fails \in 0..MaxFails /\ lost \in [Msg -> Nat] /\ MaxFails \in Nat
    BY LcbAssumption DEF TypeInv, TypeOK
  <2>2. CASE Reported(p)
    BY <2>1, <2>2 DEF Reported
  <2>3. ASSUME NEW unheard \in {0, 1}, Left(p, unheard)
        PROVE  fails' \in 0..MaxFails /\ lost' \in [Msg -> Nat]
    BY <1>1, <2>1, <2>3 DEF Left
  <2> QED BY <2>2, <2>3 DEF Report
<1>5. /\ reports' \in [Msg -> Nat] /\ inbox' \in Seq(Entry)
      /\ said' \in [Msg -> SUBSET {"forwarded_for_answer", "not_answered"}]
  <2>1. CASE UNCHANGED <<inbox, reports, said>>
    BY <2>1 DEF TypeInv, TypeOK
  <2>2. CASE Sent(p)
    <3>1. reports' = [reports EXCEPT ![hand[p]] = @ + 1]
      BY <2>2 DEF Sent
    <3>2. reports' \in [Msg -> Nat] /\ reports'[hand[p]] \in Nat
      BY <1>1, <3>1 DEF TypeInv, TypeOK
    <3>3. [of |-> hand[p], report |-> reports'[hand[p]]] \in Entry
      BY <1>1, <3>2 DEF Entry
    <3>4. inbox' \in Seq(Entry)
      BY <2>2, <3>3 DEF Sent, TypeInv, TypeOK
    <3>5. Status(forwarded[p]) \in {"forwarded_for_answer", "not_answered"}
      BY DEF Status
    <3>6. said' \in [Msg -> SUBSET {"forwarded_for_answer", "not_answered"}]
      BY <2>2, <3>5 DEF Sent, TypeInv, TypeOK
    <3> QED BY <3>2, <3>4, <3>6
  <2> QED BY <2>1, <2>2 DEF Report
<1> QED BY <1>1, <1>3, <1>4, <1>5 DEF TypeInv, TypeOK

LEMMA TypeStep == TypeInv /\ [Next]_vars => TypeInv'
<1> SUFFICES ASSUME TypeInv, [Next]_vars PROVE TypeInv'
  OBVIOUS
<1> USE LcbAssumption
<1>1. ASSUME NEW m \in Msg, Arrive(m) PROVE TypeInv'
  <2>1. inbox' \in Seq(Entry)
    BY <1>1, MailIsEntry DEF Arrive, TypeInv, TypeOK
  <2> QED BY <1>1, <2>1 DEF Arrive, procVars, ghostVars, TypeInv, TypeOK
<1>2. CASE UNCHANGED vars
  BY <1>2 DEF vars, procVars, ghostVars, TypeInv, TypeOK
<1>3. ASSUME NEW p \in Proc, Start(p) PROVE TypeInv'
  BY <1>3 DEF Start, Move, ghostVars, TypeInv, TypeOK
<1>4. ASSUME NEW p \in Proc, ListArms(p) PROVE TypeInv'
  <2>1. seen' \in [Proc -> SUBSET Entry] /\ armed' \in SUBSET Msg
    BY <1>4, ListedTyped DEF ListArms, TypeInv, TypeOK, Entry
  <2> QED BY <1>4, <2>1 DEF ListArms, Move, TypeInv, TypeOK
<1>5. ASSUME NEW p \in Proc, ListNew(p) PROVE TypeInv'
  <2>1. seen' \in [Proc -> SUBSET Entry] /\ items' \in [Proc -> SUBSET Entry]
    BY <1>5, ListedTyped DEF ListNew, TypeInv, TypeOK
  <2>2. /\ pc' = [pc EXCEPT ![p] = "loop"]
        /\ UNCHANGED <<inbox, lock, seenFile, hand, forwarded, kills, fails, ghostVars>>
    BY <1>5 DEF ListNew, Move
  <2> QED BY <2>1, <2>2 DEF ghostVars, TypeInv, TypeOK
<1>6. ASSUME NEW p \in Proc, NEW e \in items[p], Ignore(p, e) \/ Raise(p, e) PROVE TypeInv'
  <2>1. items' \in [Proc -> SUBSET Entry]
    <3>1. items' = [items EXCEPT ![p] = @ \ {e}]
      BY <1>6 DEF Ignore, Raise, Pick
    <3> QED BY <3>1 DEF TypeInv, TypeOK
  <2>2. e \in Entry /\ seen \in [Proc -> SUBSET Entry]
    BY DEF TypeInv, TypeOK
  <2>3. seen' \in [Proc -> SUBSET Entry]
    <3>1. CASE seen' = seen
      BY <2>2, <3>1
    <3>2. CASE seen' = [seen EXCEPT ![p] = @ \cup {e}]
      BY <2>2, <3>2
    <3> QED BY <1>6, <3>1, <3>2 DEF Ignore, Raise
  <2>4. /\ pc' = [pc EXCEPT ![p] = "loop"]
        /\ UNCHANGED <<inbox, lock, seenFile, hand, forwarded, kills, fails, ghostVars>>
    BY <1>6 DEF Ignore, Raise, Move
  <2> QED BY <2>1, <2>3, <2>4 DEF ghostVars, TypeInv, TypeOK
<1>7. ASSUME NEW p \in Proc, NEW e \in items[p], Forward(p, e) PROVE TypeInv'
  <2>1. e \in Entry /\ e.of \in Msg
    BY DEF TypeInv, TypeOK, Entry
  <2>2. /\ items' \in [Proc -> SUBSET Entry] /\ hand' = [hand EXCEPT ![p] = e.of]
        /\ pc' = [pc EXCEPT ![p] = "report"]
    BY <1>7 DEF Forward, Pick, Move, TypeInv, TypeOK
  <2>3. forwarded' \in [Proc -> BOOLEAN] /\ forwards' \in [Msg -> Nat]
    BY <1>7, <2>1 DEF Forward, TypeInv, TypeOK
  <2> QED BY <1>7, <2>1, <2>2, <2>3 DEF Forward, TypeInv, TypeOK
<1>8. ASSUME NEW p \in Proc, Report(p) PROVE TypeInv'
  BY <1>8, ReportTyped
<1>9. ASSUME NEW p \in Proc, Save(p) PROVE TypeInv'
  <2>1. seenFile' \in [exists: BOOLEAN, ids: SUBSET Entry] /\ seen' \in [Proc -> SUBSET Entry]
    BY <1>9 DEF Save, TypeInv, TypeOK
  <2>2. /\ pc' = [pc EXCEPT ![p] = "idle"]
        /\ UNCHANGED <<inbox, lock, items, hand, forwarded, kills, fails, ghostVars>>
    BY <1>9 DEF Save, Move
  <2>3. pc' \in [Proc -> {"down", "idle", "arm", "loop", "report"}]
    BY <2>2 DEF TypeInv, TypeOK
  <2>4. \A q \in Proc : pc'[q] = "report" => hand'[q] \in Msg
    BY <2>2 DEF TypeInv, TypeOK
  <2> QED BY <2>1, <2>2, <2>3, <2>4 DEF ghostVars, TypeInv, TypeOK
<1>10. ASSUME NEW p \in Proc, Kill(p) PROVE TypeInv'
  <2>1. seenFile' \in [exists: BOOLEAN, ids: SUBSET Entry]
    <3>1. seenFile' = seenFile \/ seenFile' = [exists |-> TRUE, ids |-> {}]
      BY <1>10, Zenon DEF Kill
    <3>2. CASE seenFile' = seenFile
      BY <3>2 DEF TypeInv, TypeOK
    <3>3. CASE seenFile' = [exists |-> TRUE, ids |-> {}]
      BY <3>3
    <3> QED BY <3>1, <3>2, <3>3
  <2>2. /\ kills' \in 0..MaxKills /\ lock' \in Proc \cup {Free}
        /\ items' \in [Proc -> SUBSET Entry] /\ seen' \in [Proc -> SUBSET Entry]
    BY <1>10 DEF Kill, TypeInv, TypeOK
  <2> QED BY <1>10, <2>1, <2>2 DEF Kill, ghostVars, TypeInv, TypeOK
<1> QED
  BY <1>1, <1>2, <1>3, <1>4, <1>5, <1>6, <1>7, <1>8, <1>9, <1>10
     DEF Next, List, ListNothing, Serve, Handle

LEMMA TypeInvInit == Init => TypeInv
  BY LcbAssumption DEF Init, TypeInv, TypeOK, NoMsg

\* The responder's variables keep their types.
THEOREM TypeCorrect == Spec => []TypeOK
<1>1. TypeInv => TypeOK
  BY DEF TypeInv
<1> QED BY <1>1, TypeInvInit, TypeStep, PTL DEF Spec

-----------------------------------------------------------------------------
(* Honest reports *)

\* A copy that will claim a relay has made it.
HonestInv ==
  /\ HonestReport
  /\ \A p \in Proc : pc[p] = "report" /\ forwarded[p] => forwards[hand[p]] > 0

LEMMA HonestStep == TypeInv /\ HonestInv /\ [Next]_vars => HonestInv'
<1> SUFFICES ASSUME TypeInv, HonestInv, [Next]_vars PROVE HonestInv'
  OBVIOUS
<1>t. /\ pc \in [Proc -> {"down", "idle", "arm", "loop", "report"}]
      /\ hand \in [Proc -> Msg \cup {NoMsg}] /\ forwarded \in [Proc -> BOOLEAN]
      /\ forwards \in [Msg -> Nat]
      /\ said \in [Msg -> SUBSET {"forwarded_for_answer", "not_answered"}]
  BY DEF TypeInv, TypeOK
<1>1. CASE UNCHANGED vars \/ \E m \in Msg : Arrive(m)
  <2>1. UNCHANGED <<pc, hand, forwarded, forwards, said>>
    BY <1>1 DEF vars, procVars, ghostVars, Arrive
  <2> QED BY <2>1 DEF HonestInv, HonestReport
<1>2. ASSUME NEW p \in Proc, NEW e \in items[p], Forward(p, e) PROVE HonestInv'
  <2>1. e.of \in Msg
    BY DEF TypeInv, TypeOK, Entry
  <2>2. PICK ok \in BOOLEAN, taken \in {0, 1} :
          /\ ok => taken = 1
          /\ forwarded' = [forwarded EXCEPT ![p] = ok]
          /\ forwards' = [forwards EXCEPT ![e.of] = @ + taken]
    BY <1>2 DEF Forward
  <2>3. /\ pc' = [pc EXCEPT ![p] = "report"] /\ hand' = [hand EXCEPT ![p] = e.of]
        /\ said' = said
    BY <1>2 DEF Forward, Move
  <2>4. \A m \in Msg : forwards'[m] >= forwards[m] /\ forwards[m] \in Nat /\ forwards'[m] \in Nat
    BY <1>t, <2>1, <2>2
  <2>5. HonestReport'
    BY <2>3, <2>4 DEF HonestInv, HonestReport
  <2>6. ASSUME NEW q \in Proc, pc'[q] = "report", forwarded'[q]
        PROVE  forwards'[hand'[q]] > 0
    <3>1. CASE q = p
      BY <1>t, <2>1, <2>2, <2>3, <2>6, <3>1
    <3>2. CASE q # p
      <4>1. pc[q] = "report" /\ forwarded[q] /\ hand'[q] = hand[q]
        BY <1>t, <2>2, <2>3, <2>6, <3>2
      <4>2. hand[q] \in Msg /\ forwards[hand[q]] > 0
        BY <4>1 DEF TypeInv, HonestInv
      <4> QED BY <2>4, <4>1, <4>2
    <3> QED BY <3>1, <3>2
  <2> QED BY <2>5, <2>6 DEF HonestInv
<1>3. ASSUME NEW p \in Proc, Report(p) PROVE HonestInv'
  <2>1. /\ pc[p] = "report" /\ pc' = [pc EXCEPT ![p] = "loop"] /\ hand[p] \in Msg
        /\ hand' = [hand EXCEPT ![p] = NoMsg] /\ forwarded' = [forwarded EXCEPT ![p] = FALSE]
        /\ forwards' = forwards
    BY <1>3 DEF Report, Move, TypeInv
  <2>2. said' = said \/ said' = [said EXCEPT ![hand[p]] = @ \cup {Status(forwarded[p])}]
    BY <1>3 DEF Report, Sent
  <2>3. Status(forwarded[p]) = "forwarded_for_answer" => forwards[hand[p]] > 0
    BY <2>1 DEF Status, HonestInv
  <2>4. HonestReport'
    BY <1>t, <2>1, <2>2, <2>3 DEF HonestInv, HonestReport
  <2>5. \A q \in Proc : pc'[q] = "report" => pc[q] = "report" /\ hand'[q] = hand[q]
                                             /\ forwarded'[q] = forwarded[q]
    BY <1>t, <2>1
  <2> QED BY <2>1, <2>4, <2>5 DEF HonestInv
<1>4. ASSUME NEW p \in Proc,
             \/ Start(p) \/ ListArms(p) \/ ListNew(p) \/ Save(p) \/ Kill(p)
             \/ \E e \in items[p] : Ignore(p, e) \/ Raise(p, e)
      PROVE  HonestInv'
  <2>1. /\ UNCHANGED <<forwards, said>>
        /\ \E to \in {"idle", "arm", "loop", "down"} : pc' = [pc EXCEPT ![p] = to]
        /\ hand' = hand \/ hand' = [hand EXCEPT ![p] = NoMsg]
        /\ forwarded' = forwarded \/ forwarded' = [forwarded EXCEPT ![p] = FALSE]
    BY <1>4, Zenon DEF Start, ListArms, ListNew, Save, Kill, Ignore, Raise, Move, ghostVars
  <2>2. \A q \in Proc : pc'[q] = "report" => pc[q] = "report" /\ hand'[q] = hand[q]
                                             /\ forwarded'[q] = forwarded[q]
    BY <1>t, <2>1
  <2> QED BY <2>1, <2>2 DEF HonestInv, HonestReport
<1> QED BY <1>1, <1>2, <1>3, <1>4 DEF Next, List, ListNothing, Serve, Handle

\* No report claims a relay that Agentverse did not take (reply_text).
THEOREM ReportsAreHonest == Spec => []HonestReport
<1>1. Init => HonestInv
  BY DEF Init, HonestInv, HonestReport
<1>2. HonestInv => HonestReport
  BY DEF HonestInv
<1> QED BY <1>1, <1>2, TypeInvInit, TypeStep, HonestStep, PTL DEF Spec

-----------------------------------------------------------------------------
(* Nothing is dropped *)

Done(e) == e.report = 0 /\ Kind[e.of] = "task" => e.of \in armed \/ reports[e.of] > 0

DropInv ==
  /\ \A e \in seenFile.ids : Done(e)
  /\ \A p \in Proc : \A e \in seen[p] : Done(e)

LEMMA DropStep == TypeInv /\ DropInv /\ [Next]_vars => DropInv'
<1> SUFFICES ASSUME TypeInv, DropInv, [Next]_vars PROVE DropInv'
  OBVIOUS
<1>t. /\ seenFile.ids \subseteq Entry /\ seen \in [Proc -> SUBSET Entry]
      /\ reports \in [Msg -> Nat] /\ armed \subseteq Msg
      /\ \A e \in Entry : e.of \in Msg
  BY DEF TypeInv, TypeOK, Entry
<1>1. CASE \/ UNCHANGED vars \/ \E m \in Msg : Arrive(m)
           \/ \E p \in Proc : Start(p)
           \/ \E p \in Proc : \E e \in items[p] : Raise(p, e) \/ Forward(p, e)
  <2>1. UNCHANGED <<seenFile, seen, armed, reports>>
    BY <1>1 DEF vars, procVars, ghostVars, Arrive, Start, Raise, Forward
  <2> QED BY <2>1 DEF DropInv, Done
<1>2. ASSUME NEW p \in Proc, ListArms(p) PROVE DropInv'
  <2>1. /\ UNCHANGED <<seenFile, reports>> /\ seen' = [seen EXCEPT ![p] = Listed]
        /\ armed' = armed \cup {e.of : e \in Listed}
    BY <1>2 DEF ListArms
  <2>2. \A e \in Listed : Done(e)'
    BY <2>1 DEF Done
  <2>3. \A e : Done(e) => Done(e)'
    BY <2>1 DEF Done
  <2> QED BY <1>t, <2>1, <2>2, <2>3 DEF DropInv
<1>3. ASSUME NEW p \in Proc, ListNew(p) PROVE DropInv'
  <2>1. UNCHANGED <<seenFile, reports, armed>> /\ seen' = [seen EXCEPT ![p] = seenFile.ids]
    BY <1>3 DEF ListNew, ghostVars
  <2>2. \A e : Done(e) => Done(e)'
    BY <2>1 DEF Done
  <2> QED BY <1>t, <2>1, <2>2 DEF DropInv
<1>4. ASSUME NEW p \in Proc, NEW e \in items[p], Ignore(p, e) PROVE DropInv'
  <2>1. /\ UNCHANGED <<seenFile, reports, armed>> /\ seen' = [seen EXCEPT ![p] = @ \cup {e}]
        /\ e.report > 0 \/ Kind[e.of] = "plain"
    BY <1>4 DEF Ignore, ghostVars
  <2>2. Done(e)'
    BY <2>1 DEF Done
  <2>3. \A f : Done(f) => Done(f)'
    BY <2>1 DEF Done
  <2> QED BY <1>t, <2>1, <2>2, <2>3 DEF DropInv
<1>5. ASSUME NEW p \in Proc, Report(p) PROVE DropInv'
  <2>1. UNCHANGED <<seenFile, armed>> /\ hand[p] \in Msg
    BY <1>5 DEF Report, Move, TypeInv
  <2>2. reports' = reports \/ reports' = [reports EXCEPT ![hand[p]] = @ + 1]
    BY <1>5 DEF Report, Sent
  <2>3. \A m \in Msg : reports'[m] >= reports[m] /\ reports'[m] \in Nat /\ reports[m] \in Nat
    BY <1>t, <2>1, <2>2
  <2>4. \A f \in Entry : Done(f) => Done(f)'
    BY <1>t, <2>1, <2>3 DEF Done
  <2>5. \/ seen' = seen
        \/ /\ seen' = [seen EXCEPT ![p] = @ \cup {Mail(hand[p])}]
           /\ reports' = [reports EXCEPT ![hand[p]] = @ + 1]
    BY <1>5 DEF Report, Reported, Left, Sent
  <2>6. CASE seen' = seen
    BY <1>t, <2>1, <2>4, <2>6 DEF DropInv
  <2>7. CASE /\ seen' = [seen EXCEPT ![p] = @ \cup {Mail(hand[p])}]
             /\ reports' = [reports EXCEPT ![hand[p]] = @ + 1]
    <3>1. reports'[hand[p]] > 0
      BY <1>t, <2>1, <2>7
    <3>2. ASSUME NEW f, f = Mail(hand[p]) PROVE Done(f)'
      BY <2>1, <3>1, <3>2, MailIsEntry DEF Done
    <3>3. ASSUME NEW q \in Proc, NEW f \in seen'[q] PROVE Done(f)'
      <4>1. f \in seen[q] \/ f = Mail(hand[p])
        BY <1>t, <2>7
      <4> QED BY <1>t, <2>4, <3>2, <4>1 DEF DropInv
    <3>4. \A f \in seenFile'.ids : Done(f)'
      BY <1>t, <2>1, <2>4 DEF DropInv
    <3> QED BY <3>3, <3>4 DEF DropInv
  <2> QED BY <2>5, <2>6, <2>7
<1>6. ASSUME NEW p \in Proc, Save(p) \/ Kill(p) PROVE DropInv'
  <2>1. /\ UNCHANGED <<reports, armed>> /\ seen' = [seen EXCEPT ![p] = {}]
        /\ seenFile'.ids \in {seenFile.ids, seen[p], {}}
    BY <1>6 DEF Save, Kill, ghostVars
  <2>2. \A e : Done(e) => Done(e)'
    BY <2>1 DEF Done
  <2> QED BY <1>t, <2>1, <2>2 DEF DropInv
<1> QED BY <1>1, <1>2, <1>3, <1>4, <1>5, <1>6 DEF Next, List, ListNothing, Serve, Handle

\* What a copy or the seen file holds was reported, or set aside at an arming,
\* whatever raised, failed or was torn (serve_once, save_seen).
THEOREM NothingIsDropped == Spec => []NothingDropped
<1>1. Init => DropInv
  BY DEF Init, DropInv
<1>2. DropInv => NothingDropped
  BY DEF DropInv, Done, NothingDropped
<1> QED BY <1>1, <1>2, TypeInvInit, TypeStep, DropStep, PTL DEF Spec

-----------------------------------------------------------------------------
(* The single instance, and the account of reports and relays *)

LEMMA LockStep == TypeInv /\ LockInv /\ [Next]_vars => LockInv'
<1> SUFFICES ASSUME TypeInv, LockInv, [Next]_vars PROVE LockInv'
  OBVIOUS
<1>t. pc \in [Proc -> {"down", "idle", "arm", "loop", "report"}]
  BY DEF TypeInv, TypeOK
<1>1. CASE UNCHANGED vars \/ \E m \in Msg : Arrive(m)
  <2>1. UNCHANGED <<pc, lock>>
    BY <1>1 DEF vars, procVars, Arrive
  <2> QED BY <2>1 DEF LockInv
<1>2. ASSUME NEW p \in Proc, Start(p) PROVE LockInv'
  <2>1. lock = Free /\ lock' = p /\ pc' = [pc EXCEPT ![p] = "idle"]
    BY <1>2 DEF Start, Move
  <2>2. \A q \in Proc : q # Free
    BY LcbAssumption DEF Free
  <2> QED BY <1>t, <2>1, <2>2 DEF LockInv
<1>3. ASSUME NEW p \in Proc,
             \/ ListArms(p) \/ ListNew(p) \/ Report(p) \/ Save(p)
             \/ \E e \in items[p] : Ignore(p, e) \/ Raise(p, e) \/ Forward(p, e)
      PROVE  LockInv'
  <2>1. lock' = lock /\ pc[p] # "down" /\ \E to : pc' = [pc EXCEPT ![p] = to]
    BY <1>3, Zenon DEF ListArms, ListNew, Report, Save, Ignore, Raise, Forward, Move
  <2> QED BY <1>t, <2>1 DEF LockInv
<1>4. ASSUME NEW p \in Proc, Kill(p) PROVE LockInv'
  <2>1. /\ pc[p] # "down" /\ pc' = [pc EXCEPT ![p] = "down"]
        /\ lock' = IF lock = p THEN Free ELSE lock
    BY <1>4 DEF Kill
  <2> QED BY <1>t, <2>1 DEF LockInv
<1> QED BY <1>1, <1>2, <1>3, <1>4 DEF Next, List, ListNothing, Serve, Handle

Busy(p) == pc[p] \in {"loop", "report"}

\* Every report and relay of a task was paid for by a kill or a failure.
Paid(m) == reports[m] <= kills + lost[m] /\ forwards[m] <= kills + fails

\* A copy at work: what it has not seen is paid for, but for the task in hand,
\* relayed and not reported yet.
OwnInv(p) ==
  /\ pc[p] = "arm" => seenFile.ids = {}
  /\ Busy(p) =>
       /\ items[p] \cap seen[p] = {}
       /\ \A m \in Msg : Mail(m) \notin seen[p] =>
            /\ reports[m] <= kills + lost[m]
            /\ (pc[p] = "report" /\ m = hand[p]) \/ forwards[m] <= kills + fails
  /\ pc[p] = "report" => Mail(hand[p]) \notin items[p] \cup seen[p]

Totals ==
  \A m \in Msg : reports[m] <= 1 + kills + lost[m] /\ forwards[m] <= 1 + kills + fails

AccountInv ==
  /\ Totals
  /\ ~ seenFile.exists => seenFile.ids = {}
  /\ \A p \in Proc : OwnInv(p)
  /\ (\A p \in Proc : ~ Busy(p)) => \A m \in Msg : Mail(m) \notin seenFile.ids => Paid(m)

\* Only the copy that runs counts.
LEMMA OneCounts ==
  ASSUME NEW p \in Proc, \A q \in Proc : q # p => pc'[q] = "down",
         Totals', ~ seenFile'.exists => seenFile'.ids = {}, OwnInv(p)',
         ~ Busy(p)' => \A m \in Msg : Mail(m) \notin seenFile'.ids => Paid(m)'
  PROVE  AccountInv'
<1>1. \A q \in Proc : q # p => OwnInv(q)' /\ ~ Busy(q)'
  BY DEF OwnInv, Busy
<1> QED BY <1>1 DEF AccountInv

\* What AccountInv says of the copy that runs.
LEMMA OneKnows ==
  ASSUME AccountInv, NEW p \in Proc, \A q \in Proc : q # p => pc[q] = "down"
  PROVE  /\ Totals /\ OwnInv(p) /\ (~ seenFile.exists => seenFile.ids = {})
         /\ ~ Busy(p) => \A m \in Msg : Mail(m) \notin seenFile.ids => Paid(m)
  BY DEF AccountInv, Busy

LEMMA AccountStep == TypeInv /\ LockInv /\ AccountInv /\ [Next]_vars => AccountInv'
<1> SUFFICES ASSUME TypeInv, LockInv, AccountInv, [Next]_vars PROVE AccountInv'
  OBVIOUS
<1>t. /\ pc \in [Proc -> {"down", "idle", "arm", "loop", "report"}]
      /\ items \in [Proc -> SUBSET Entry] /\ seen \in [Proc -> SUBSET Entry]
      /\ hand \in [Proc -> Msg \cup {NoMsg}]
      /\ reports \in [Msg -> Nat] /\ forwards \in [Msg -> Nat] /\ lost \in [Msg -> Nat]
      /\ kills \in Nat /\ fails \in Nat
  BY LcbAssumption DEF TypeInv, TypeOK
<1>1. CASE UNCHANGED vars \/ \E m \in Msg : Arrive(m)
  <2>1. UNCHANGED <<seenFile, pc, items, seen, hand, kills, fails, forwards, reports, lost>>
    BY <1>1 DEF vars, procVars, ghostVars, Arrive
  <2> QED BY <2>1 DEF AccountInv, Totals, OwnInv, Busy, Paid
<1>2. ASSUME NEW p \in Proc, Start(p) PROVE AccountInv'
  <2>1. /\ pc[p] = "down" /\ pc' = [pc EXCEPT ![p] = "idle"] /\ lock = Free
        /\ UNCHANGED <<seenFile, items, seen, hand, kills, fails, forwards, reports, lost>>
    BY <1>2 DEF Start, Move, ghostVars
  <2>2. \A q \in Proc : pc[q] = "down"
    BY <2>1, LcbAssumption DEF LockInv, Free
  <2>3. \A q \in Proc : ~ Busy(q) /\ ~ Busy(q)' /\ pc'[q] # "arm" /\ pc'[q] # "report"
    BY <1>t, <2>1, <2>2 DEF Busy
  <2> QED BY <2>1, <2>3 DEF AccountInv, Totals, OwnInv, Paid
<1>3. ASSUME NEW p \in Proc, ListArms(p) PROVE AccountInv'
  <2>1. /\ pc[p] = "idle" /\ pc' = [pc EXCEPT ![p] = "arm"] /\ ~ seenFile.exists
        /\ UNCHANGED <<seenFile, kills, fails, forwards, reports, lost>>
    BY <1>3 DEF ListArms, Move
  <2>2. /\ pc'[p] = "arm"
        /\ \A q \in Proc : q # p => pc[q] = "down" /\ pc'[q] = "down"
    BY <2>1, Solo
  <2>3. /\ Totals /\ seenFile.ids = {}
        /\ \A m \in Msg : Paid(m)
    BY <2>1, <2>2, OneKnows DEF Busy
  <2>4. Totals' /\ \A m \in Msg : Paid(m)'
    BY <2>1, <2>3 DEF Totals, Paid
  <2>5. OwnInv(p)'
    BY <2>1, <2>2, <2>3 DEF OwnInv, Busy
  <2> QED BY <2>1, <2>2, <2>3, <2>4, <2>5, OneCounts
<1>4. ASSUME NEW p \in Proc, ListNew(p) PROVE AccountInv'
  <2>1. /\ pc[p] = "idle" /\ pc' = [pc EXCEPT ![p] = "loop"]
        /\ seen' = [seen EXCEPT ![p] = seenFile.ids]
        /\ items' = [items EXCEPT ![p] = Listed \ seenFile.ids]
        /\ UNCHANGED <<seenFile, kills, fails, forwards, reports, lost>>
    BY <1>4 DEF ListNew, Move, ghostVars
  <2>2. /\ pc'[p] = "loop"
        /\ \A q \in Proc : q # p => pc[q] = "down" /\ pc'[q] = "down"
    BY <2>1, Solo
  <2>3. /\ Totals /\ (~ seenFile.exists => seenFile.ids = {})
        /\ \A m \in Msg : Mail(m) \notin seenFile.ids => Paid(m)
    BY <2>1, <2>2, OneKnows DEF Busy
  <2>4. seen'[p] = seenFile.ids /\ items'[p] \cap seenFile.ids = {}
    BY <1>t, <2>1
  <2>5. OwnInv(p)'
    BY <2>1, <2>2, <2>3, <2>4 DEF OwnInv, Busy, Paid
  <2>6. Totals' /\ Busy(p)'
    BY <2>1, <2>2, <2>3 DEF Totals, Busy
  <2> QED BY <2>1, <2>2, <2>3, <2>5, <2>6, OneCounts
<1>5. ASSUME NEW p \in Proc, NEW e \in items[p], Ignore(p, e) \/ Raise(p, e) PROVE AccountInv'
  <2>1. /\ pc[p] = "loop" /\ pc' = [pc EXCEPT ![p] = "loop"]
        /\ items' = [items EXCEPT ![p] = @ \ {e}]
        /\ seen' = seen \/ seen' = [seen EXCEPT ![p] = @ \cup {e}]
        /\ UNCHANGED <<seenFile, kills, fails, forwards, reports, lost>>
    BY <1>5 DEF Ignore, Raise, Pick, Move, ghostVars
  <2>2. /\ pc'[p] = "loop"
        /\ \A q \in Proc : q # p => pc[q] = "down" /\ pc'[q] = "down"
    BY <2>1, Solo
  <2>3. Totals /\ (~ seenFile.exists => seenFile.ids = {}) /\ OwnInv(p)
    BY <2>2, OneKnows
  <2>4. /\ items'[p] = items[p] \ {e}
        /\ seen'[p] = seen[p] \/ seen'[p] = seen[p] \cup {e}
    BY <1>t, <2>1
  <2>5. items'[p] \cap seen'[p] = {} /\ seen[p] \subseteq seen'[p]
    BY <2>1, <2>3, <2>4 DEF OwnInv, Busy
  <2>6. OwnInv(p)'
    BY <2>1, <2>2, <2>3, <2>5 DEF OwnInv, Busy
  <2>7. Totals' /\ Busy(p)'
    BY <2>1, <2>2, <2>3 DEF Totals, Busy
  <2> QED BY <2>1, <2>2, <2>3, <2>6, <2>7, OneCounts
<1>6. ASSUME NEW p \in Proc, NEW e \in items[p], Forward(p, e) PROVE AccountInv'
  <2>1. /\ pc[p] = "loop" /\ pc' = [pc EXCEPT ![p] = "report"]
        /\ items' = [items EXCEPT ![p] = @ \ {e}]
        /\ hand' = [hand EXCEPT ![p] = e.of] /\ e.report = 0
        /\ UNCHANGED <<seenFile, seen, kills, fails, reports, lost>>
    BY <1>6 DEF Forward, Pick, Move
  <2>2. /\ pc'[p] = "report"
        /\ \A q \in Proc : q # p => pc[q] = "down" /\ pc'[q] = "down"
    BY <2>1, Solo
  <2>3. Totals /\ (~ seenFile.exists => seenFile.ids = {}) /\ OwnInv(p)
    BY <2>2, OneKnows
  <2>4. e \in Entry /\ e.of \in Msg /\ e = Mail(e.of)
    BY <1>t, <2>1, EntryIsMail
  <2>5. items'[p] = items[p] \ {e} /\ hand'[p] = e.of /\ seen'[p] = seen[p]
    BY <1>t, <2>1, <2>4
  <2>6. e \notin seen[p]
    BY <2>1, <2>3 DEF OwnInv, Busy
  <2>7. \A m \in Msg : \/ forwards'[m] = forwards[m]
                       \/ m = e.of /\ forwards'[m] = forwards[m] + 1
    BY <1>t, <1>6, <2>4 DEF Forward
  <2>8. \A m \in Msg : Mail(m) \notin seen[p] => reports[m] <= kills + lost[m]
                                                 /\ forwards[m] <= kills + fails
    BY <2>1, <2>3 DEF OwnInv, Busy
  <2>9. Totals'
    BY <1>t, <2>1, <2>3, <2>4, <2>6, <2>7, <2>8 DEF Totals
  <2>10. OwnInv(p)'
    <3>1. items'[p] \cap seen'[p] = {} /\ Mail(hand'[p]) \notin items'[p] \cup seen'[p]
      BY <2>1, <2>3, <2>4, <2>5, <2>6 DEF OwnInv, Busy
    <3>2. \A m \in Msg : Mail(m) \notin seen'[p] =>
            /\ reports'[m] <= kills' + lost'[m]
            /\ m = hand'[p] \/ forwards'[m] <= kills' + fails'
      BY <2>1, <2>5, <2>7, <2>8
    <3> QED BY <2>2, <3>1, <3>2 DEF OwnInv, Busy
  <2>11. Busy(p)'
    BY <2>2 DEF Busy
  <2> QED BY <2>1, <2>2, <2>3, <2>9, <2>10, <2>11, OneCounts
<1>7. ASSUME NEW p \in Proc, Report(p) PROVE AccountInv'
  <2>1. /\ pc[p] = "report" /\ pc' = [pc EXCEPT ![p] = "loop"] /\ hand[p] \in Msg
        /\ UNCHANGED <<seenFile, items, kills, forwards>>
    BY <1>7 DEF Report, Move, TypeInv
  <2>2. /\ pc'[p] = "loop"
        /\ \A q \in Proc : q # p => pc[q] = "down" /\ pc'[q] = "down"
    BY <2>1, Solo
  <2>3. Totals /\ (~ seenFile.exists => seenFile.ids = {}) /\ OwnInv(p)
    BY <2>2, OneKnows
  <2>4. /\ items[p] \cap seen[p] = {} /\ Mail(hand[p]) \notin items[p] \cup seen[p]
        /\ \A m \in Msg : Mail(m) \notin seen[p] => reports[m] <= kills + lost[m]
                                                   /\ (m = hand[p] \/ forwards[m] <= kills + fails)
    BY <2>1, <2>3 DEF OwnInv, Busy
  <2>5. Busy(p)'
    BY <2>2 DEF Busy
  <2>6. reports' = reports \/ reports' = [reports EXCEPT ![hand[p]] = @ + 1]
    BY <1>7 DEF Report, Sent
  <2>7. CASE Reported(p)
    <3>1. seen'[p] = seen[p] \cup {Mail(hand[p])} /\ UNCHANGED <<fails, lost>>
      BY <1>t, <2>7 DEF Reported
    <3>2. \A m \in Msg : m # hand[p] => reports'[m] = reports[m]
      BY <1>t, <2>6
    <3>3. Mail(hand[p]) \notin seen[p] /\ reports'[hand[p]] <= 1 + kills + lost[hand[p]]
      BY <1>t, <2>1, <2>4, <2>6
    <3>4. Totals'
      BY <2>1, <2>3, <3>1, <3>2, <3>3 DEF Totals
    <3>5. items'[p] \cap seen'[p] = {}
      BY <2>1, <2>4, <3>1
    <3>6. \A m \in Msg : Mail(m) \notin seen'[p] =>
            /\ reports'[m] <= kills' + lost'[m] /\ forwards'[m] <= kills' + fails'
      <4>1. ASSUME NEW m \in Msg, Mail(m) \notin seen'[p] PROVE m # hand[p] /\ Mail(m) \notin seen[p]
        BY <3>1, <4>1
      <4> QED BY <2>1, <2>4, <3>1, <3>2, <4>1
    <3>7. OwnInv(p)'
      BY <2>2, <3>5, <3>6 DEF OwnInv, Busy
    <3> QED BY <2>1, <2>2, <2>3, <2>5, <3>4, <3>7, OneCounts
  <2>8. CASE \/ Sent(p) /\ Left(p, 1)
             \/ Left(p, 0) /\ UNCHANGED reports
    <3>1. seen' = seen /\ fails' = fails + 1
      BY <2>8 DEF Left
    <3>2. \A m \in Msg : \/ reports'[m] = reports[m] /\ lost'[m] >= lost[m] /\ lost'[m] \in Nat
                         \/ m = hand[p] /\ reports'[m] = reports[m] + 1 /\ lost'[m] = lost[m] + 1
      <4>1. CASE Sent(p) /\ Left(p, 1)
        BY <1>t, <2>1, <4>1 DEF Sent, Left
      <4>2. CASE Left(p, 0) /\ UNCHANGED reports
        BY <1>t, <2>1, <4>2 DEF Left
      <4> QED BY <2>8, <4>1, <4>2
    <3>3. Totals'
      BY <1>t, <2>1, <2>3, <3>1, <3>2 DEF Totals
    <3>4. \A m \in Msg : Mail(m) \notin seen'[p] =>
            /\ reports'[m] <= kills' + lost'[m] /\ forwards'[m] <= kills' + fails'
      <4>1. \A m \in Msg : forwards[m] <= 1 + kills + fails
        BY <2>3 DEF Totals
      <4> QED BY <1>t, <2>1, <2>4, <3>1, <3>2, <4>1
    <3>5. OwnInv(p)'
      BY <2>1, <2>2, <2>4, <3>1, <3>4 DEF OwnInv, Busy
    <3> QED BY <2>1, <2>2, <2>3, <2>5, <3>3, <3>5, OneCounts
  <2> QED BY <1>7, <2>7, <2>8 DEF Report
<1>8. ASSUME NEW p \in Proc, Save(p) PROVE AccountInv'
  <2>1. /\ pc[p] \in {"arm", "loop"} /\ pc' = [pc EXCEPT ![p] = "idle"]
        /\ seenFile' = [exists |-> TRUE, ids |-> seen[p]]
        /\ UNCHANGED <<kills, fails, forwards, reports, lost>>
    BY <1>8 DEF Save, Move, ghostVars
  <2>2. /\ pc'[p] = "idle"
        /\ \A q \in Proc : q # p => pc[q] = "down" /\ pc'[q] = "down"
    BY <2>1, Solo
  <2>3. /\ Totals /\ OwnInv(p)
        /\ ~ Busy(p) => \A m \in Msg : Mail(m) \notin seenFile.ids => Paid(m)
    BY <2>2, OneKnows
  <2>4. \A m \in Msg : Mail(m) \notin seen[p] => Paid(m)
    BY <2>1, <2>3 DEF OwnInv, Busy, Paid
  <2>5. Totals' /\ OwnInv(p)'
    BY <2>1, <2>2, <2>3 DEF Totals, OwnInv, Busy
  <2>6. \A m \in Msg : Mail(m) \notin seenFile'.ids => Paid(m)'
    BY <2>1, <2>4 DEF Paid
  <2> QED BY <2>1, <2>2, <2>5, <2>6, OneCounts
<1>9. ASSUME NEW p \in Proc, Kill(p) PROVE AccountInv'
  <2>1. /\ pc[p] # "down" /\ pc' = [pc EXCEPT ![p] = "down"] /\ kills' = kills + 1
        /\ seenFile' = seenFile \/ seenFile' = [exists |-> TRUE, ids |-> {}]
        /\ UNCHANGED <<fails, forwards, reports, lost>>
    BY <1>9 DEF Kill, ghostVars
  <2>2. /\ pc'[p] = "down"
        /\ \A q \in Proc : q # p => pc[q] = "down" /\ pc'[q] = "down"
    BY <2>1, Solo
  <2>3. Totals /\ (~ seenFile.exists => seenFile.ids = {})
    BY <2>2, OneKnows
  <2>4. Totals' /\ \A m \in Msg : Paid(m)'
    BY <1>t, <2>1, <2>3 DEF Totals, Paid
  <2>5. OwnInv(p)' /\ (~ seenFile'.exists => seenFile'.ids = {})
    BY <2>1, <2>2, <2>3 DEF OwnInv, Busy
  <2> QED BY <2>2, <2>4, <2>5, OneCounts
<1> QED
  BY <1>1, <1>2, <1>3, <1>4, <1>5, <1>6, <1>7, <1>8, <1>9
     DEF Next, List, ListNothing, Serve, Handle

LEMMA AccountInit == Init => LockInv /\ AccountInv
  BY LcbAssumption DEF Init, LockInv, AccountInv, Totals, OwnInv, Busy, Paid

\* Any number of copies may be started: the lock leaves one, and each further
\* report of a task was paid for by a kill or a lost answer (acquire_lock, the
\* seen file).
THEOREM ReportsAreAccounted == Spec => []ReportsAccounted
<1>1. AccountInv => ReportsAccounted
  BY DEF AccountInv, Totals, ReportsAccounted
<1> QED BY <1>1, TypeInvInit, AccountInit, TypeStep, LockStep, AccountStep, PTL DEF Spec

\* Each further relay was paid for by a kill or a failed report (handle_one).
THEOREM RelaysAreAccounted == Spec => []ForwardsAccounted
<1>1. AccountInv => ForwardsAccounted
  BY DEF AccountInv, Totals, ForwardsAccounted
<1> QED BY <1>1, TypeInvInit, AccountInit, TypeStep, LockStep, AccountStep, PTL DEF Spec

=============================================================================
