-------------------------- MODULE E2aPollerProofs --------------------------
(* Theorems about E2aPoller, for any messages, keys, faults and kills. *)
EXTENDS E2aPoller, TLAPS

-----------------------------------------------------------------------------
(* Types *)

\* A message is in hand while one is worked on.
TypeInv == TypeOK /\ (pc = "work" => hand \in Msg)

LEMMA TypeInvInit == Init => TypeInv
  BY E2aAssumption DEF Init, TypeInv, TypeOK, NoAttempts, Counts, Fate, NoKey, NoMsg

LEMMA CountTyped ==
  ASSUME TypeInv, NEW m \in Msg, Count(m)
  PROVE  /\ seen' \in SUBSET Msg
         /\ att' \in Counts
         /\ fate' \in [Msg -> Fate]
<1>1. MaxAttempts \in Nat \ {0}
  BY E2aAssumption
<1>2. seen \in SUBSET Msg /\ att \in Counts /\ fate \in [Msg -> Fate] /\ "dropped" \in Fate
  BY DEF TypeInv, TypeOK, Fate
<1>3. att[m] \in 0..(MaxAttempts - 1) /\ 0 \in 0..(MaxAttempts - 1)
  BY <1>1, <1>2 DEF Counts
<1>4. CASE att[m] + 1 >= MaxAttempts
  <2>1. Settled(m, "dropped")
    BY <1>4, Zenon DEF Count
  <2> QED BY <2>1, <1>2, <1>3 DEF Settled, Counts
<1>5. CASE ~ (att[m] + 1 >= MaxAttempts)
  <2>1. att' = [att EXCEPT ![m] = att[m] + 1] /\ UNCHANGED <<seen, fate>>
    BY <1>5, Zenon DEF Count
  <2> QED BY <2>1, <1>1, <1>2, <1>3, <1>5 DEF Counts
<1> QED BY <1>4, <1>5

LEMMA SettledTyped ==
  ASSUME TypeInv, NEW m \in Msg, Settled(m, "handled")
  PROVE  /\ seen' \in SUBSET Msg
         /\ att' \in Counts
         /\ fate' \in [Msg -> Fate]
  BY E2aAssumption DEF Settled, TypeInv, TypeOK, Counts, Fate

LEMMA WorkTyped ==
  ASSUME TypeInv, Work
  PROVE  TypeInv'
<1>1. hand \in Msg
  BY DEF Work, Quiet, Reply, ReplyLost, Fail, Done, Move, TypeInv
<1>2. /\ seen' \in SUBSET Msg
      /\ att' \in Counts
      /\ fate' \in [Msg -> Fate]
  BY <1>1, CountTyped, SettledTyped DEF Work, Quiet, Reply, ReplyLost, Fail
<1>3. replies' \in [Msg -> Nat] /\ lost' \in [Msg -> Nat]
  BY <1>1 DEF Work, Quiet, Reply, ReplyLost, Fail, TypeInv, TypeOK
<1>4. /\ pc' = "loop" /\ hand' = NoMsg
      /\ UNCHANGED <<inbox, fileVars, key, items, kills, tries>>
  BY DEF Work, Quiet, Reply, ReplyLost, Fail, Done, Move
<1> QED BY <1>2, <1>3, <1>4 DEF TypeInv, TypeOK, fileVars

LEMMA TypeStep == TypeInv /\ [Next]_vars => TypeInv'
<1> SUFFICES ASSUME TypeInv, [Next]_vars PROVE TypeInv'
  OBVIOUS
<1> USE E2aAssumption
<1>1. ASSUME NEW m \in Msg, Arrive(m) PROVE TypeInv'
  BY <1>1 DEF Arrive, TypeInv, TypeOK, fileVars, procVars, ghostVars
<1>2. ASSUME ResolveKey \/ ResolveFails \/ Probe \/ ProbeFails PROVE TypeInv'
  BY <1>2 DEF ResolveKey, ResolveFails, Probe, ProbeFails, Move, NoKey, TypeInv, TypeOK,
              fileVars, ghostVars
<1>3. ASSUME ListInbox PROVE TypeInv'
  <2>1. Arrived \subseteq Msg
    BY DEF Arrived, TypeInv, TypeOK
  <2>2. /\ seen' \in SUBSET Msg /\ items' \in SUBSET Msg /\ att' \in Counts
        /\ pc' \in {"arm", "loop", "probe"}
    BY <1>3, <2>1 DEF ListInbox, Move, TypeInv, TypeOK
  <2>3. fate' \in [Msg -> Fate]
    BY <1>3 DEF ListInbox, TypeInv, TypeOK, Fate
  <2> QED BY <1>3, <2>2, <2>3 DEF ListInbox, TypeInv, TypeOK, fileVars
<1>4. ASSUME ListFails PROVE TypeInv'
  BY <1>4 DEF ListFails, Move, TypeInv, TypeOK, fileVars, ghostVars
<1>5. ASSUME NEW m \in Msg, Take(m) PROVE TypeInv'
  BY <1>5 DEF Take, Move, TypeInv, TypeOK, fileVars
<1>6. ASSUME Work PROVE TypeInv'
  BY <1>6, WorkTyped
<1>7. ASSUME Save PROVE TypeInv'
  <2>1. seenFile' \in [exists: BOOLEAN, ids: SUBSET Msg]
    <3>1. seenFile' = [exists |-> TRUE, ids |-> seen] /\ seen \in SUBSET Msg
      BY <1>7 DEF Save, TypeInv, TypeOK
    <3> QED BY <3>1
  <2>2. NoAttempts \in Counts
    BY DEF NoAttempts, Counts
  <2>3. attFile' \in Counts /\ att' \in Counts /\ items' = {} /\ seen' = {}
    BY <1>7, <2>2 DEF Save, LeaveCycle, TypeInv, TypeOK
  <2>4. pc' = "probe" /\ UNCHANGED <<inbox, key, hand, kills, tries, fate, replies, lost>>
    BY <1>7 DEF Save, Move, ghostVars
  <2> QED BY <2>1, <2>3, <2>4 DEF TypeInv, TypeOK
<1>8. ASSUME Kill PROVE TypeInv'
  <2>1. NoAttempts \in Counts
    BY DEF NoAttempts, Counts
  <2>2. seenFile' \in [exists: BOOLEAN, ids: SUBSET Msg] /\ attFile' \in Counts
    <3>1. \/ seenFile' = seenFile
          \/ seenFile' = [exists |-> TRUE, ids |-> {}]
          \/ seenFile' = [exists |-> TRUE, ids |-> seen]
      BY <1>8, Zenon DEF Kill, TornSave, fileVars
    <3>2. attFile' = attFile \/ attFile' = NoAttempts
      BY <1>8 DEF Kill, TornSave, fileVars
    <3>3. attFile \in Counts
      BY DEF TypeInv, TypeOK
    <3>4. seenFile \in [exists: BOOLEAN, ids: SUBSET Msg] /\ seen \in SUBSET Msg
      BY DEF TypeInv, TypeOK
    <3>5. seenFile' \in [exists: BOOLEAN, ids: SUBSET Msg]
      <4>1. CASE seenFile' = seenFile
        BY <4>1, <3>4
      <4>2. CASE seenFile' = [exists |-> TRUE, ids |-> {}]
        BY <4>2
      <4>3. CASE seenFile' = [exists |-> TRUE, ids |-> seen]
        BY <4>3, <3>4
      <4> QED BY <3>1, <4>1, <4>2, <4>3
    <3>6. attFile' \in Counts
      BY <2>1, <3>2, <3>3, Zenon
    <3> QED BY <3>5, <3>6
  <2>3. /\ kills' \in 0..MaxKills /\ pc' = "down" /\ key' = NoKey /\ hand' = NoMsg
        /\ items' = {} /\ seen' = {} /\ att' = NoAttempts
        /\ UNCHANGED <<inbox, tries, fate, replies, lost>>
    BY <1>8 DEF Kill, LeaveCycle, TypeInv, TypeOK, ghostVars
  <2> QED BY <2>1, <2>2, <2>3 DEF TypeInv, TypeOK
<1>9. ASSUME Restart PROVE TypeInv'
  BY <1>9 DEF Restart, Move, TypeInv, TypeOK, fileVars, ghostVars
<1>10. CASE UNCHANGED vars
  BY <1>10 DEF vars, fileVars, procVars, ghostVars, TypeInv, TypeOK
<1> QED BY <1>1, <1>2, <1>3, <1>4, <1>5, <1>6, <1>7, <1>8, <1>9, <1>10 DEF Next, Serve

\* The leg's variables keep their types, and no attempts count reaches the limit,
\* for any messages, keys, faults and kills (load_attempts, save_attempts).
THEOREM TypeCorrect == Spec => []TypeOK
<1>1. TypeInv => TypeOK
  BY DEF TypeInv
<1> QED BY <1>1, TypeInvInit, TypeStep, PTL DEF Spec

-----------------------------------------------------------------------------
(* What is recorded as seen was earned. *)

Earned(m) ==
  \/ fate[m] = "armed"
  \/ replies[m] > 0
  \/ Kind[m] = "quiet"
  \/ tries[m] >= MaxAttempts

\* No count of failures, in the file or in the process, exceeds the tries made,
\* and the message in hand has a try that no count includes.
Counted ==
  \A m \in Msg :
    /\ attFile[m] <= tries[m]
    /\ att[m] <= tries[m]
    /\ pc = "work" /\ m = hand => att[m] < tries[m]

\* Messages that were decided count as well: an arming spares them.
EarnedInv ==
  /\ Counted
  /\ \A m \in Msg :
       m \in seenFile.ids \cup seen \/ fate[m] # "open" => Earned(m)

\* What was earned stays earned.
LEMMA EarnedStays ==
  ASSUME TypeInv, NEW m \in Msg, Earned(m),
         fate'[m] = fate[m] \/ fate[m] = "open",
         replies'[m] >= replies[m], tries'[m] >= tries[m],
         replies'[m] \in Nat, tries'[m] \in Nat
  PROVE  Earned(m)'
<1>1. MaxAttempts \in Nat /\ replies[m] \in Nat /\ tries[m] \in Nat
  BY E2aAssumption DEF TypeInv, TypeOK
<1> QED BY <1>1 DEF Earned

\* The attempts count: a failure is counted, and the last one earns the drop.
LEMMA CountEarns ==
  ASSUME TypeInv, EarnedInv, pc = "work", hand \in Msg, Count(hand),
         UNCHANGED <<attFile, tries>>, pc' = "loop"
  PROVE  /\ Counted'
         /\ \/ UNCHANGED <<seen, fate>>
            \/ /\ tries[hand] >= MaxAttempts
               /\ seen' = seen \cup {hand}
               /\ \A m \in Msg : m # hand => fate'[m] = fate[m]
<1>1. /\ MaxAttempts \in Nat \ {0}
      /\ tries[hand] \in Nat /\ att[hand] \in Nat /\ att[hand] < tries[hand]
      /\ att \in Counts /\ fate \in [Msg -> Fate]
  BY E2aAssumption DEF TypeInv, TypeOK, Counts, EarnedInv, Counted
<1>2. /\ \A m \in Msg : tries'[m] = tries[m] /\ attFile'[m] = attFile[m]
      /\ \A m \in Msg : attFile[m] <= tries[m] /\ att[m] <= tries[m] /\ tries[m] \in Nat
  BY DEF EarnedInv, Counted, TypeInv, TypeOK
<1>3. CASE att[hand] + 1 >= MaxAttempts
  <2>1. /\ seen' = seen \cup {hand}
        /\ att' = [att EXCEPT ![hand] = 0]
        /\ fate' = [fate EXCEPT ![hand] = "dropped"]
    BY <1>3 DEF Count, Settled
  <2>2. \A m \in Msg : att'[m] <= tries[m]
    BY <1>1, <1>2, <2>1 DEF Counts
  <2>3. tries[hand] >= MaxAttempts
    BY <1>1, <1>3
  <2>4. \A m \in Msg : m # hand => fate'[m] = fate[m]
    BY <1>1, <2>1
  <2> QED BY <1>2, <2>1, <2>2, <2>3, <2>4 DEF Counted
<1>4. CASE ~ (att[hand] + 1 >= MaxAttempts)
  <2>1. att' = [att EXCEPT ![hand] = att[hand] + 1] /\ UNCHANGED <<seen, fate>>
    BY <1>4 DEF Count
  <2>2. \A m \in Msg : att'[m] <= tries[m]
    BY <1>1, <1>2, <2>1 DEF Counts
  <2> QED BY <1>2, <2>1, <2>2 DEF Counted
<1> QED BY <1>3, <1>4

LEMMA WorkEarns ==
  ASSUME TypeInv, EarnedInv, Work
  PROVE  EarnedInv'
<1>1. /\ hand \in Msg /\ pc = "work" /\ pc' = "loop"
      /\ UNCHANGED <<seenFile, attFile, tries>>
  BY DEF Work, Quiet, Reply, ReplyLost, Fail, Done, Move, TypeInv, fileVars
<1>2. /\ \A m \in Msg : replies[m] \in Nat /\ tries[m] \in Nat
      /\ \A m \in Msg : tries'[m] = tries[m]
      /\ replies \in [Msg -> Nat] /\ fate \in [Msg -> Fate] /\ att \in Counts
  BY <1>1 DEF TypeInv, TypeOK
<1>3. \A m \in Msg : replies'[m] >= replies[m] /\ replies'[m] \in Nat
  BY <1>1, <1>2 DEF Work, Quiet, Reply, ReplyLost, Fail
<1>4. CASE Quiet \/ Reply
  <2>1. /\ seen' = seen \cup {hand}
        /\ att' = [att EXCEPT ![hand] = 0]
        /\ fate' = [fate EXCEPT ![hand] = "handled"]
    BY <1>4 DEF Quiet, Reply, Settled
  <2>2. ASSUME NEW m \in Msg, m = hand PROVE Earned(m)'
    <3>1. Kind[hand] = "quiet" \/ replies'[hand] > 0
      BY <1>1, <1>2, <1>4 DEF Quiet, Reply
    <3> QED BY <2>2, <3>1 DEF Earned
  <2>3. \A m \in Msg : m # hand => fate'[m] = fate[m]
    BY <1>2, <2>1
  <2>4. ASSUME NEW m \in Msg, m # hand,
               m \in seenFile'.ids \cup seen' \/ fate'[m] # "open"
        PROVE  Earned(m)'
    <3>1. m \in seenFile.ids \cup seen \/ fate[m] # "open"
      BY <1>1, <2>1, <2>3, <2>4
    <3>2. Earned(m)
      BY <3>1 DEF EarnedInv
    <3> QED BY <1>2, <1>3, <2>3, <2>4, <3>2, EarnedStays
  <2>5. Counted'
    <3>1. \A m \in Msg : att'[m] <= tries[m]
      BY <1>1, <1>2, <2>1 DEF Counts, EarnedInv, Counted
    <3>2. \A m \in Msg : attFile'[m] <= tries'[m]
      BY <1>1 DEF EarnedInv, Counted
    <3> QED BY <1>1, <1>2, <3>1, <3>2 DEF Counted
  <2> QED BY <2>2, <2>4, <2>5 DEF EarnedInv
<1>5. CASE ReplyLost \/ Fail
  <2>1. Count(hand)
    BY <1>5 DEF ReplyLost, Fail
  <2>2. Counted'
    BY <1>1, <2>1, CountEarns
  <2>3. ASSUME NEW m \in Msg,
               m \in seenFile'.ids \cup seen' \/ fate'[m] # "open"
        PROVE  Earned(m)'
    <3>0. \/ UNCHANGED <<seen, fate>>
          \/ /\ tries[hand] >= MaxAttempts
             /\ seen' = seen \cup {hand}
             /\ \A n \in Msg : n # hand => fate'[n] = fate[n]
      BY <1>1, <2>1, CountEarns
    <3>1. CASE m = hand /\ tries[m] >= MaxAttempts
      BY <1>2, <3>1 DEF Earned
    <3>2. CASE ~ (m = hand /\ tries[m] >= MaxAttempts)
      <4>1. fate'[m] = fate[m] /\ (m \in seenFile.ids \cup seen \/ fate[m] # "open")
        BY <1>1, <2>3, <3>0, <3>2
      <4>2. Earned(m)
        BY <4>1 DEF EarnedInv
      <4> QED BY <1>2, <1>3, <4>1, <4>2, EarnedStays
    <3> QED BY <3>1, <3>2
  <2> QED BY <2>2, <2>3 DEF EarnedInv
<1> QED BY <1>4, <1>5 DEF Work

LEMMA EarnedStep == TypeInv /\ EarnedInv /\ [Next]_vars => EarnedInv'
<1> SUFFICES ASSUME TypeInv, EarnedInv, [Next]_vars PROVE EarnedInv'
  OBVIOUS
<1>1. CASE \/ UNCHANGED vars \/ ResolveKey \/ ResolveFails \/ Probe \/ ProbeFails
           \/ ListFails \/ Restart \/ \E m \in Msg : Arrive(m)
  <2>1. /\ UNCHANGED <<seenFile, attFile, seen, att, hand, tries, fate, replies>>
        /\ pc' = pc \/ pc' # "work"
    BY <1>1 DEF vars, ResolveKey, ResolveFails, Probe, ProbeFails, ListFails, Restart, Arrive,
                Move, fileVars, procVars, ghostVars
  <2> QED BY <2>1 DEF EarnedInv, Counted, Earned
<1>2. CASE ListInbox
  <2>1. /\ UNCHANGED <<seenFile, attFile, hand, tries, replies>> /\ pc' # "work"
        /\ att' = att \/ att' = attFile
    BY <1>2 DEF ListInbox, Move, fileVars
  <2>2. Counted'
    BY <2>1 DEF EarnedInv, Counted
  <2>3. ASSUME NEW m \in Msg, m \in seenFile'.ids \cup seen' \/ fate'[m] # "open"
        PROVE  Earned(m)'
    <3>1. \/ m \in seenFile.ids \cup seen \/ fate[m] # "open"
          \/ fate'[m] = "armed"
      BY <1>2, <2>1, <2>3 DEF ListInbox
    <3>2. CASE fate'[m] = "armed"
      BY <3>2 DEF Earned
    <3>3. CASE fate'[m] # "armed" /\ (m \in seenFile.ids \cup seen \/ fate[m] # "open")
      <4>1. Earned(m)
        BY <3>3 DEF EarnedInv
      <4>2. fate'[m] = fate[m]
        BY <1>2, <3>3 DEF ListInbox
      <4> QED BY <2>1, <4>1, <4>2 DEF Earned
    <3> QED BY <3>1, <3>2, <3>3
  <2> QED BY <2>2, <2>3 DEF EarnedInv
<1>3. ASSUME NEW n \in Msg, Take(n) PROVE EarnedInv'
  <2>1. /\ UNCHANGED <<seenFile, attFile, seen, att, fate, replies>> /\ hand' = n
        /\ tries' = [tries EXCEPT ![n] = @ + 1] /\ tries \in [Msg -> Nat]
    BY <1>3 DEF Take, fileVars, TypeInv, TypeOK
  <2>2. \A m \in Msg : tries'[m] = IF m = n THEN tries[m] + 1 ELSE tries[m]
    BY <2>1
  <2>3. \A m \in Msg : tries[m] \in Nat /\ replies[m] \in Nat /\ attFile[m] \in Nat /\ att[m] \in Nat
    BY DEF TypeInv, TypeOK, Counts
  <2>4. Counted'
    BY <2>1, <2>2, <2>3 DEF EarnedInv, Counted
  <2>5. ASSUME NEW m \in Msg, m \in seenFile'.ids \cup seen' \/ fate'[m] # "open"
        PROVE  Earned(m)'
    <3>1. Earned(m)
      BY <2>1, <2>5 DEF EarnedInv
    <3>2. tries'[m] >= tries[m] /\ tries'[m] \in Nat
      BY <2>2, <2>3
    <3> QED BY <2>1, <2>3, <3>1, <3>2, EarnedStays
  <2> QED BY <2>4, <2>5 DEF EarnedInv
<1>4. CASE Work
  BY <1>4, WorkEarns
<1>5. CASE Save
  <2>1. /\ UNCHANGED <<hand, tries, fate, replies>> /\ pc' # "work"
        /\ att' = NoAttempts /\ (attFile' = attFile \/ attFile' = att)
        /\ seenFile'.ids = seen /\ seen' = {}
    BY <1>5 DEF Save, LeaveCycle, Move, ghostVars
  <2>2. \A m \in Msg : tries[m] \in Nat /\ NoAttempts[m] = 0
    BY DEF TypeInv, TypeOK, NoAttempts
  <2>3. Counted'
    BY <2>1, <2>2 DEF EarnedInv, Counted
  <2> QED BY <2>1, <2>3 DEF EarnedInv, Earned
<1>6. CASE Kill
  <2>1. /\ UNCHANGED <<tries, fate, replies>> /\ pc' # "work"
        /\ att' = NoAttempts /\ (attFile' = attFile \/ attFile' = NoAttempts)
        /\ seen' = {}
    BY <1>6 DEF Kill, TornSave, LeaveCycle, fileVars, ghostVars
  <2>2. seenFile'.ids \subseteq seenFile.ids \cup seen
    BY <1>6 DEF Kill, TornSave, fileVars
  <2>3. \A m \in Msg : tries[m] \in Nat /\ NoAttempts[m] = 0
    BY DEF TypeInv, TypeOK, NoAttempts
  <2>4. Counted'
    BY <2>1, <2>3 DEF EarnedInv, Counted
  <2> QED BY <2>1, <2>2, <2>4 DEF EarnedInv, Earned
<1> QED BY <1>1, <1>2, <1>3, <1>4, <1>5, <1>6 DEF Next, Serve

\* However the process is killed, files are torn and requests fail, what the leg
\* has recorded as seen was dealt with or set aside (serve_once).
THEOREM SeenAreEarned == Spec => []SeenIsEarned
<1>1. Init => EarnedInv
  BY DEF Init, EarnedInv, Counted, NoAttempts
<1>2. TypeInv /\ EarnedInv => SeenIsEarned
  BY DEF TypeInv, TypeOK, EarnedInv, Earned, SeenIsEarned
<1> QED BY <1>1, <1>2, TypeInvInit, TypeStep, EarnedStep, PTL DEF Spec

-----------------------------------------------------------------------------
(* The answers are accounted for. *)

\* What the leg will remember of this cycle.
Known == IF pc \in {"loop", "work"} THEN seen ELSE seenFile.ids

\* A task not known has only answers that a kill or a lost answer paid for.
AccountInv ==
  /\ \A m \in Msg :
       /\ replies[m] <= 1 + kills + lost[m]
       /\ m \notin Known => replies[m] <= kills + lost[m]
  /\ pc = "arm" => seenFile.ids = {}
  /\ ~ seenFile.exists => seenFile.ids = {}
  /\ pc \in {"loop", "work"} => items \cap seen = {}
  /\ pc = "work" => hand \notin items \cup seen

LEMMA AccountStep == TypeInv /\ AccountInv /\ [Next]_vars => AccountInv'
<1> SUFFICES ASSUME TypeInv, AccountInv, [Next]_vars PROVE AccountInv'
  OBVIOUS
<1>0. /\ kills \in Nat
      /\ \A m \in Msg : replies[m] \in Nat /\ lost[m] \in Nat
      /\ replies \in [Msg -> Nat] /\ lost \in [Msg -> Nat]
  BY E2aAssumption DEF TypeInv, TypeOK
<1>1. CASE \/ UNCHANGED vars \/ ResolveKey \/ ResolveFails \/ Probe \/ ProbeFails
           \/ ListFails \/ Restart \/ \E m \in Msg : Arrive(m)
  <2>1. /\ UNCHANGED <<seenFile, seen, items, hand, replies, lost, kills>>
        /\ pc' = pc \/ (pc \notin {"loop", "work"} /\ pc' \in {"idle", "probe"})
    BY <1>1 DEF vars, ResolveKey, ResolveFails, Probe, ProbeFails, ListFails, Restart, Arrive,
                Move, fileVars, procVars, ghostVars
  <2> QED BY <2>1 DEF AccountInv, Known
<1>2. CASE ListInbox
  <2>1. /\ UNCHANGED <<seenFile, replies, lost, kills>> /\ pc = "idle"
    BY <1>2 DEF ListInbox, Move, fileVars
  <2>2. \/ pc' = "arm" /\ ~ seenFile.exists
        \/ pc' = "probe"
        \/ pc' = "loop" /\ seen' = seenFile.ids /\ items' \cap seenFile.ids = {}
    BY <1>2 DEF ListInbox, Move
  <2> QED BY <2>1, <2>2 DEF AccountInv, Known
<1>3. ASSUME NEW n \in Msg, Take(n) PROVE AccountInv'
  BY <1>3 DEF Take, Move, fileVars, AccountInv, Known
<1>4. CASE Work
  <2>1. /\ pc = "work" /\ pc' = "loop" /\ hand \in Msg
        /\ UNCHANGED <<seenFile, items, kills>>
    BY <1>4 DEF Work, Quiet, Reply, ReplyLost, Fail, Done, Move, fileVars, TypeInv
  <2>2. seen' = seen \/ seen' = seen \cup {hand}
    BY <1>4 DEF Work, Quiet, Reply, ReplyLost, Fail, Settled, Count
  <2>3. items' \cap seen' = {}
    BY <2>1, <2>2 DEF AccountInv
  <2>4. \A m \in Msg :
          \/ replies'[m] = replies[m] /\ lost'[m] = lost[m]
          \/ m = hand /\ replies'[m] = replies[m] + 1 /\ lost'[m] = lost[m] + 1
          \/ m = hand /\ replies'[m] = replies[m] + 1 /\ lost'[m] = lost[m] /\ m \in seen'
    BY <1>0, <1>4, <2>1 DEF Work, Quiet, Reply, ReplyLost, Fail, Settled
  <2>5. \A m \in Msg : replies[m] <= 1 + kills + lost[m]
                       /\ (m \notin seen => replies[m] <= kills + lost[m])
    BY <2>1 DEF AccountInv, Known
  <2>6. hand \notin seen
    BY <2>1 DEF AccountInv
  <2>7. ASSUME NEW m \in Msg
        PROVE  /\ replies'[m] <= 1 + kills + lost'[m]
               /\ m \notin seen' => replies'[m] <= kills + lost'[m]
    BY <1>0, <2>2, <2>4, <2>5, <2>6
  <2> QED BY <2>1, <2>3, <2>7 DEF AccountInv, Known
<1>5. CASE Save
  <2>1. /\ UNCHANGED <<replies, lost, kills>> /\ pc' = "probe" /\ seenFile'.exists
        /\ seenFile'.ids = seen /\ pc \in {"arm", "loop"}
    BY <1>5 DEF Save, Move, ghostVars
  <2>2. \A m \in Msg : m \notin seen => replies[m] <= kills + lost[m]
    BY <2>1 DEF AccountInv, Known
  <2> QED BY <2>1, <2>2 DEF AccountInv, Known
<1>6. CASE Kill
  <2>1. /\ UNCHANGED <<replies, lost>> /\ pc' = "down" /\ kills' = kills + 1
        /\ seenFile' = seenFile \/ seenFile'.exists
    BY <1>6 DEF Kill, TornSave, fileVars, ghostVars
  <2>2. \A m \in Msg : replies'[m] <= kills' + lost'[m] /\ replies'[m] <= 1 + kills' + lost'[m]
    BY <1>0, <2>1 DEF AccountInv
  <2> QED BY <2>1, <2>2 DEF AccountInv, Known
<1> QED BY <1>1, <1>2, <1>3, <1>4, <1>5, <1>6 DEF Next, Serve

\* The inbox is never emptied, yet only kills and lost answers cost a second
\* answer (the seen set of serve_once).
THEOREM AnswersAreAccounted == Spec => []AnswersAccounted
<1>1. Init => AccountInv
  BY E2aAssumption DEF Init, AccountInv, Known
<1>2. AccountInv => AnswersAccounted
  BY DEF AccountInv, AnswersAccounted
<1> QED BY <1>1, <1>2, TypeInvInit, TypeStep, AccountStep, PTL DEF Spec

-----------------------------------------------------------------------------
(* The leg implements the desk. *)

\* What is remembered was decided; a process in a cycle remembers no less than
\* its files; and there are no failures on record before the leg is armed.
DeskInv ==
  /\ \A m \in Remembered : fate[m] # "open"
  /\ pc \in {"loop", "work"} =>
       /\ seenFile.exists
       /\ seenFile.ids \subseteq seen
       /\ \A m \in Msg : m \notin seen => attFile[m] <= att[m]
  /\ pc = "arm" => ~ seenFile.exists /\ \A m \in seen : fate[m] = "armed"
  /\ ~ seenFile.exists => \A m \in Msg : attFile[m] = 0
  /\ items \subseteq Arrived
  /\ pc = "work" => hand \in Arrived

LEMMA ArriveGrows ==
  ASSUME TypeInv, NEW m \in Msg, Arrive(m)
  PROVE  Arrived' = Arrived \cup {m}
<1>1. inbox \in Seq(Msg) /\ inbox' = Append(inbox, m)
  BY DEF TypeInv, TypeOK, Arrive
<1>2. DOMAIN inbox' = 1..(Len(inbox) + 1) /\ DOMAIN inbox = 1..Len(inbox) /\ Len(inbox) \in Nat
  BY <1>1
<1>3. /\ \A i \in 1..Len(inbox) : inbox'[i] = inbox[i]
      /\ inbox'[Len(inbox) + 1] = m
  BY <1>1
<1> QED BY <1>2, <1>3 DEF Arrived

\* The types the desk's steps need.
LEMMA DeskTypes ==
  ASSUME TypeInv
  PROVE  /\ MaxAttempts \in Nat \ {0}
         /\ \A m \in Msg : att[m] \in 0..(MaxAttempts - 1) /\ attFile[m] \in 0..(MaxAttempts - 1)
         /\ fate \in [Msg -> Fate] /\ att \in [Msg -> 0..(MaxAttempts - 1)]
         /\ Arrived \subseteq Msg /\ seen \subseteq Msg /\ seenFile.ids \subseteq Msg
         /\ kills \in Nat
  BY E2aAssumption DEF TypeInv, TypeOK, Counts, Arrived

\* One message worked on: how its fate and its count change.
LEMMA WorkDecides ==
  ASSUME TypeInv, Work
  PROVE  /\ pc = "work" /\ pc' = "loop" /\ hand \in Msg
         /\ UNCHANGED <<inbox, seenFile, attFile, items, kills>>
         /\ \A m \in Msg : m # hand => fate'[m] = fate[m] /\ att'[m] = att[m]
         /\ \/ seen' = seen \cup {hand} /\ fate'[hand] = "handled"
            \/ /\ seen' = seen \cup {hand} /\ fate'[hand] = "dropped"
               /\ att[hand] + 1 >= MaxAttempts
            \/ UNCHANGED <<seen, fate>> /\ att'[hand] = att[hand] + 1
<1>1. /\ pc = "work" /\ pc' = "loop" /\ hand \in Msg
      /\ UNCHANGED <<inbox, seenFile, attFile, items, kills>>
  BY DEF Work, Quiet, Reply, ReplyLost, Fail, Done, Move, fileVars, TypeInv
<1>2. fate \in [Msg -> Fate] /\ att \in [Msg -> 0..(MaxAttempts - 1)]
  BY DEF TypeInv, TypeOK, Counts
<1>3. ASSUME NEW what, Settled(hand, what)
      PROVE  /\ seen' = seen \cup {hand} /\ fate'[hand] = what
             /\ \A m \in Msg : m # hand => fate'[m] = fate[m] /\ att'[m] = att[m]
  BY <1>1, <1>2, <1>3 DEF Settled
<1>4. \/ Settled(hand, "handled")
      \/ Settled(hand, "dropped") /\ att[hand] + 1 >= MaxAttempts
      \/ UNCHANGED <<seen, fate>> /\ att' = [att EXCEPT ![hand] = att[hand] + 1]
  <2>1. CASE Quiet \/ Reply
    BY <2>1 DEF Quiet, Reply
  <2>2. CASE ReplyLost \/ Fail
    BY <2>2 DEF ReplyLost, Fail, Count
  <2> QED BY <2>1, <2>2 DEF Work
<1> QED BY <1>1, <1>2, <1>3, <1>4

\* A step outside the cycle, which leaves the files and the locals alone.
OutsideStep ==
  /\ UNCHANGED <<inbox, seenFile, attFile, seen, items, att, hand, fate, kills>>
  /\ \/ pc' = pc
     \/ pc \notin {"arm", "loop", "work"} /\ pc' \in {"idle", "probe"}

LEMMA OutsideSteps ==
  ASSUME \/ UNCHANGED vars \/ ResolveKey \/ ResolveFails \/ Probe \/ ProbeFails
         \/ ListFails \/ Restart
  PROVE  OutsideStep
  BY DEF vars, ResolveKey, ResolveFails, Probe, ProbeFails, ListFails, Restart,
         Move, fileVars, procVars, ghostVars, OutsideStep

LEMMA DeskInvStep == TypeInv /\ AccountInv /\ DeskInv /\ [Next]_vars => DeskInv'
<1> SUFFICES ASSUME TypeInv, AccountInv, DeskInv, [Next]_vars PROVE DeskInv'
  OBVIOUS
<1>1. CASE \/ UNCHANGED vars \/ ResolveKey \/ ResolveFails \/ Probe \/ ProbeFails
           \/ ListFails \/ Restart
  <2>1. OutsideStep
    BY <1>1, OutsideSteps
  <2> QED BY <2>1 DEF DeskInv, Remembered, Arrived, OutsideStep
<1>2. ASSUME NEW m \in Msg, Arrive(m) PROVE DeskInv'
  <2>1. UNCHANGED <<seenFile, attFile, pc, seen, items, att, hand, fate>>
    BY <1>2 DEF Arrive, fileVars, procVars, ghostVars
  <2>2. Arrived \subseteq Arrived'
    BY <1>2, ArriveGrows
  <2> QED BY <2>1, <2>2 DEF DeskInv, Remembered
<1>3. CASE ListInbox
  <2>1. /\ UNCHANGED <<seenFile, attFile, hand>> /\ pc = "idle" /\ Arrived' = Arrived
    BY <1>3 DEF ListInbox, Move, fileVars, Arrived
  <2>2. CASE pc' = "arm"
    <3>1. /\ ~ seenFile.exists /\ seen' = Arrived /\ items' = items
          /\ \A m \in Arrived : fate'[m] = "armed"
      BY <1>3, <2>2, DeskTypes DEF ListInbox, Move
    <3> QED BY <2>1, <2>2, <3>1 DEF DeskInv, Remembered
  <2>3. CASE pc' = "loop"
    <3>1. /\ seenFile.exists /\ seen' = seenFile.ids /\ items' = Arrived \ seenFile.ids
          /\ att' = attFile /\ fate' = fate
      BY <1>3, <2>3 DEF ListInbox, Move
    <3>2. \A m \in Msg : attFile[m] <= att'[m]
      BY <3>1, DeskTypes
    <3> QED BY <2>1, <2>3, <3>1, <3>2 DEF DeskInv, Remembered
  <2>4. CASE pc' = "probe"
    <3>1. UNCHANGED <<seen, items, att, fate>>
      BY <1>3, <2>4 DEF ListInbox, Move
    <3> QED BY <2>1, <2>4, <3>1 DEF DeskInv, Remembered
  <2> QED BY <1>3, <2>2, <2>3, <2>4 DEF ListInbox, Move
<1>4. ASSUME NEW n \in Msg, Take(n) PROVE DeskInv'
  <2>1. /\ UNCHANGED <<seenFile, attFile, seen, att, fate>>
        /\ pc = "loop" /\ pc' = "work" /\ hand' = n /\ n \in items /\ items' = items \ {n}
        /\ Arrived' = Arrived
    BY <1>4 DEF Take, Move, fileVars, Arrived
  <2> QED BY <2>1 DEF DeskInv, Remembered
<1>5. CASE Work
  <2>1. /\ pc = "work" /\ pc' = "loop" /\ hand \in Msg
        /\ UNCHANGED <<seenFile, attFile, items>> /\ Arrived' = Arrived
    BY <1>5, WorkDecides DEF Arrived
  <2>2. /\ seen \subseteq seen' /\ seen' \subseteq seen \cup {hand}
        /\ \A m \in seen' : fate'[m] # "open"
    <3>1. \A m \in seen : fate[m] # "open"
      BY <2>1 DEF DeskInv, Remembered
    <3> QED BY <1>5, <2>1, <3>1, DeskTypes, WorkDecides
  <2>3. ASSUME NEW m \in Msg, m \notin seen' PROVE attFile[m] <= att'[m]
    <3>1. attFile[m] <= att[m]
      BY <2>1, <2>2, <2>3 DEF DeskInv
    <3>2. att'[m] = att[m] \/ att'[m] = att[m] + 1
      BY <1>5, <2>3, WorkDecides
    <3> QED BY <3>1, <3>2, DeskTypes
  <2> QED BY <2>1, <2>2, <2>3 DEF DeskInv, Remembered
<1>6. CASE Save
  <2>1. /\ UNCHANGED <<hand, fate>> /\ pc' = "probe" /\ seenFile'.exists
        /\ seenFile'.ids = seen /\ items' = {} /\ pc \in {"arm", "loop"}
    BY <1>6 DEF Save, LeaveCycle, Move, ghostVars
  <2> QED BY <2>1 DEF DeskInv, Remembered
<1>7. CASE Kill
  <2>1. /\ pc' = "down" /\ items' = {} /\ fate' = fate
        /\ \/ UNCHANGED <<seenFile, attFile>>
           \/ seenFile'.exists /\ seenFile'.ids = {}
           \/ seenFile'.exists /\ seenFile'.ids = seen /\ pc = "loop"
    BY <1>7 DEF Kill, TornSave, LeaveCycle, fileVars, ghostVars
  <2>2. \A m \in seenFile.ids : fate[m] # "open"
    BY DEF DeskInv, Remembered, AccountInv
  <2> QED BY <2>1, <2>2 DEF DeskInv, Remembered
<1> QED BY <1>1, <1>2, <1>3, <1>4, <1>5, <1>6, <1>7 DEF Next, Serve

-----------------------------------------------------------------------------
(* Every step of the leg is one of the desk, or none. *)

\* A step that leaves what the leg remembers alone.
LEMMA DeskStutters ==
  ASSUME Arrived' = Arrived, Stage' = Stage, UNCHANGED <<Remembered, fate, kills>>,
         \A m \in Msg : m \notin Remembered => Failures(m)' = Failures(m)
  PROVE  UNCHANGED Desk!vars
<1>1. Tried' = Tried /\ Decided' = Decided
  BY DEF Tried, Decided
<1> QED BY <1>1 DEF Desk!vars

LEMMA DeskArms ==
  ASSUME TypeInv, AccountInv, DeskInv, ListInbox, pc' = "arm"
  PROVE  Desk!Arm
<1>1. /\ UNCHANGED <<seenFile, attFile, kills>> /\ pc = "idle" /\ Arrived' = Arrived
      /\ ~ seenFile.exists /\ seen' = Arrived
      /\ fate' = [m \in Msg |-> IF m \in Arrived THEN "armed" ELSE fate[m]]
  BY DEF ListInbox, Move, fileVars, Arrived
<1>2. seenFile.ids = {} /\ \A m \in Msg : attFile[m] = 0
  BY <1>1 DEF AccountInv, DeskInv
<1>3. Tried = [m \in Msg |-> 0] /\ Tried' = [m \in Msg |-> 0]
  BY <1>1, <1>2 DEF Tried, Remembered, Failures
<1>4. /\ Decided = [m \in Msg |-> "open"]
      /\ Decided' = [m \in Msg |-> IF m \in Arrived THEN "armed" ELSE "open"]
  BY <1>1, <1>2, DeskTypes DEF Decided, Remembered
<1>5. Decided' = [m \in Msg |-> IF m \in Arrived THEN "armed" ELSE Decided[m]]
  BY <1>4
<1> QED BY <1>1, <1>3, <1>5 DEF Desk!Arm, Stage

LEMMA DeskTries ==
  ASSUME TypeInv, AccountInv, DeskInv, NEW n \in Msg, Take(n)
  PROVE  Desk!Try(n)
<1>1. /\ UNCHANGED <<seenFile, attFile, seen, att, fate, kills>> /\ pc = "loop" /\ pc' = "work"
      /\ n \in items /\ hand' = n /\ Arrived' = Arrived
  BY DEF Take, Move, fileVars, Arrived
<1>2. seenFile.exists /\ n \in Arrived /\ n \notin seen
  BY <1>1 DEF DeskInv, AccountInv
<1>3. Decided' = Decided /\ Decided[n] = "open"
  BY <1>1, <1>2 DEF Decided, Remembered
<1>4. /\ Tried = [m \in Msg |-> IF m \in seen THEN 0 ELSE att[m]]
      /\ Tried' = [m \in Msg |-> IF m \in seen THEN 0 ELSE IF m = n THEN att[m] + 1 ELSE att[m]]
  BY <1>1, DeskTypes DEF Tried, Remembered, Failures
<1>5. Tried' = [Tried EXCEPT ![n] = Tried[n] + 1] /\ Tried[n] < MaxAttempts
  BY <1>2, <1>4, DeskTypes
<1> QED BY <1>1, <1>2, <1>3, <1>5 DEF Desk!Try, Stage

LEMMA DeskDecides ==
  ASSUME TypeInv, AccountInv, DeskInv, Work
  PROVE  [Desk!Next]_(Desk!vars)
<1>1. /\ pc = "work" /\ pc' = "loop" /\ hand \in Msg
      /\ UNCHANGED <<seenFile, attFile, kills>> /\ Arrived' = Arrived
  BY WorkDecides DEF Arrived
<1>2. hand \notin seen /\ Stage' = Stage
  BY <1>1 DEF AccountInv, DeskInv, Stage
<1>3. /\ Tried = [m \in Msg |-> IF m \in seen THEN 0 ELSE IF m = hand THEN att[m] + 1 ELSE att[m]]
      /\ Tried' = [m \in Msg |-> IF m \in seen' THEN 0 ELSE att'[m]]
  <2>1. \A m \in Msg : att'[m] \in Nat
    <3>1. att' \in Counts
      BY TypeStep DEF Next, Serve, TypeInv, TypeOK
    <3> QED BY <3>1, DeskTypes DEF Counts
  <2> QED BY <1>1, <2>1, DeskTypes DEF Tried, Remembered, Failures
<1>4. /\ Decided = [m \in Msg |-> IF m \in seen THEN fate[m] ELSE "open"]
      /\ Decided' = [m \in Msg |-> IF m \in seen' THEN fate'[m] ELSE "open"]
  BY <1>1 DEF Decided, Remembered
<1>5. Decided[hand] = "open" /\ Tried[hand] = att[hand] + 1
  BY <1>1, <1>2, <1>3, <1>4
<1>6. ASSUME NEW what, seen' = seen \cup {hand}, fate'[hand] = what
      PROVE  Desk!Settle(hand, what)
  <2>1. \A m \in Msg : m # hand => fate'[m] = fate[m] /\ att'[m] = att[m]
    BY WorkDecides
  <2>2. Tried' = [Tried EXCEPT ![hand] = 0]
    BY <1>1, <1>3, <1>6, <2>1
  <2>3. Decided' = [Decided EXCEPT ![hand] = what]
    BY <1>1, <1>4, <1>6, <2>1
  <2> QED BY <1>1, <1>2, <1>5, <2>2, <2>3 DEF Desk!Settle
<1>7. CASE seen' = seen \cup {hand} /\ fate'[hand] = "handled"
  <2>1. Tried[hand] > 0
    BY <1>1, <1>5, DeskTypes
  <2>2. Desk!Handle(hand)
    BY <1>6, <1>7, <2>1 DEF Desk!Handle
  <2> QED BY <1>1, <2>2 DEF Desk!Next
<1>8. CASE seen' = seen \cup {hand} /\ fate'[hand] = "dropped" /\ att[hand] + 1 >= MaxAttempts
  <2>1. Tried[hand] = MaxAttempts
    BY <1>1, <1>5, <1>8, DeskTypes
  <2>2. Desk!Drop(hand)
    BY <1>6, <1>8, <2>1 DEF Desk!Drop
  <2> QED BY <1>1, <2>2 DEF Desk!Next
<1>9. CASE UNCHANGED <<seen, fate>> /\ att'[hand] = att[hand] + 1
  <2>1. \A m \in Msg : m # hand => att'[m] = att[m]
    BY WorkDecides
  <2>2. Tried' = Tried /\ Decided' = Decided
    BY <1>1, <1>3, <1>4, <1>9, <2>1
  <2> QED BY <1>1, <1>2, <2>2 DEF Desk!vars
<1> QED BY <1>7, <1>8, <1>9, WorkDecides

\* Saving the seen file of an arming cycle puts the first poll on record.
LEMMA DeskSaves ==
  ASSUME DeskInv, Save
  PROVE  [Desk!Next]_(Desk!vars)
<1>1. /\ UNCHANGED <<inbox, fate, kills>> /\ seenFile'.exists /\ seenFile'.ids = seen
      /\ pc' = "probe"
      /\ \/ pc = "arm" /\ attFile' = attFile
         \/ pc = "loop" /\ attFile' = att
  BY DEF Save, Move, ghostVars
<1>2. Arrived' = Arrived /\ Remembered' = Remembered /\ Stage' = "armed"
  BY <1>1 DEF Arrived, Stage, Remembered
<1>3. \A m \in Msg : Failures(m)' = Failures(m)
  BY <1>1 DEF Failures
<1>4. CASE pc = "loop"
  <2>1. Stage' = Stage
    BY <1>2, <1>4 DEF Stage, DeskInv
  <2> QED BY <1>1, <1>2, <1>3, <2>1, DeskStutters
<1>5. CASE pc = "arm"
  <2>1. Stage = "arming"
    BY <1>5 DEF Stage, DeskInv
  <2>2. Tried' = Tried /\ Decided' = Decided
    BY <1>1, <1>2, <1>3 DEF Tried, Decided
  <2>3. Desk!Record
    BY <1>1, <1>2, <2>1, <2>2 DEF Desk!Record
  <2> QED BY <2>3 DEF Desk!Next
<1> QED BY <1>1, <1>4, <1>5

\* A kill forgets, and makes nothing up.
LEMMA DeskCrashes ==
  ASSUME TypeInv, AccountInv, DeskInv, Kill
  PROVE  Desk!Crash
<1>1. /\ pc # "down" /\ pc' = "down" /\ kills' = kills + 1 /\ UNCHANGED <<inbox, fate>>
      /\ UNCHANGED <<seenFile, attFile>> \/ TornSave
  BY DEF Kill, fileVars, ghostVars
<1>2. TypeInv'
  BY TypeStep DEF Next
<1>3. Remembered' = seenFile'.ids /\ \A m \in Msg : Failures(m)' = attFile'[m] + 0
  BY <1>1 DEF Remembered, Failures
<1>4. /\ Tried' = [m \in Msg |-> IF m \in seenFile'.ids THEN 0 ELSE attFile'[m]]
      /\ \A m \in Msg : attFile'[m] \in 0..(MaxAttempts - 1)
  <2>1. \A m \in Msg : attFile'[m] \in 0..(MaxAttempts - 1)
    BY <1>2 DEF TypeInv, TypeOK, Counts
  <2>2. \A m \in Msg : attFile'[m] + 0 = attFile'[m]
    BY <2>1, DeskTypes
  <2> QED BY <1>3, <2>1, <2>2 DEF Tried
<1>5. Decided' = [m \in Msg |-> IF m \in seenFile'.ids THEN fate[m] ELSE "open"]
  BY <1>1, <1>3 DEF Decided
<1>6. seenFile'.ids \subseteq Remembered
  BY <1>1 DEF TornSave, Remembered, AccountInv, DeskInv
<1>7. Tried' \in [Msg -> 0..(MaxAttempts - 1)] /\ Decided' \in [Msg -> Fate]
  BY <1>4, <1>5, DeskTypes DEF Fate
<1>8. ASSUME NEW m \in Msg
      PROVE  /\ Decided'[m] \in {Decided[m], "open"}
             /\ Decided'[m] # "open" => Tried'[m] = 0
             /\ Decided[m] = "open" => Tried'[m] <= Tried[m]
  <2>1. /\ Decided'[m] = IF m \in seenFile'.ids THEN fate[m] ELSE "open"
        /\ Decided[m] = IF m \in Remembered THEN fate[m] ELSE "open"
        /\ Tried'[m] = IF m \in seenFile'.ids THEN 0 ELSE attFile'[m]
        /\ Tried[m] = IF m \in Remembered THEN 0 ELSE Failures(m)
    BY <1>4, <1>5 DEF Decided, Tried
  <2>2. ASSUME m \notin Remembered PROVE attFile'[m] <= Failures(m)
    <3>1. attFile'[m] = attFile[m] \/ attFile'[m] = 0
      BY <1>1 DEF TornSave, NoAttempts
    <3>2. pc \in {"loop", "work"} => attFile[m] <= att[m]
      BY <2>2 DEF DeskInv, Remembered
    <3> QED BY <3>1, <3>2, DeskTypes DEF Failures
  <2>3. m \in Remembered => fate[m] # "open"
    BY DEF DeskInv
  <2> QED BY <1>6, <2>1, <2>2, <2>3
<1>9. /\ Stage' \in IF Stage = "arming" THEN {"new", "armed"} ELSE {Stage}
      /\ Stage' = "new" => Decided' = [m \in Msg |-> "open"]
  <2>1. CASE seenFile'.exists
    <3>1. Stage' = "armed"
      BY <2>1 DEF Stage
    <3>2. Stage \in {"arming", "armed"}
      BY <1>1, <2>1 DEF TornSave, Stage, DeskInv
    <3> QED BY <3>1, <3>2
  <2>2. CASE ~ seenFile'.exists
    <3>1. UNCHANGED seenFile /\ seenFile.ids = {}
      BY <1>1, <2>2 DEF TornSave, AccountInv
    <3>2. Stage' = "new" /\ Stage \in {"new", "arming"}
      BY <1>1, <2>2, <3>1 DEF Stage
    <3>3. Decided' = [m \in Msg |-> "open"]
      BY <1>5, <3>1
    <3> QED BY <3>2, <3>3
  <2> QED BY <2>1, <2>2
<1>10. Arrived' = Arrived
  BY <1>1 DEF Arrived
<1> QED
  BY <1>1, <1>7, <1>8, <1>9, <1>10 DEF Desk!Crash, Desk!Fate, Fate

LEMMA DeskStep ==
  ASSUME TypeInv, AccountInv, DeskInv, [Next]_vars
  PROVE  [Desk!Next]_(Desk!vars)
<1>1. CASE \/ UNCHANGED vars \/ ResolveKey \/ ResolveFails \/ Probe \/ ProbeFails
           \/ ListFails \/ Restart
  <2>1. OutsideStep
    BY <1>1, OutsideSteps
  <2>2. /\ Arrived' = Arrived /\ Stage' = Stage /\ UNCHANGED <<Remembered, fate, kills>>
        /\ \A m \in Msg : Failures(m)' = Failures(m)
    BY <2>1 DEF OutsideStep, Arrived, Stage, Remembered, Failures
  <2> QED BY <2>2, DeskStutters
<1>2. ASSUME NEW m \in Msg, Arrive(m) PROVE Desk!Arrive(m)
  <2>1. UNCHANGED <<seenFile, attFile, pc, seen, att, hand, fate, kills>> /\ m \notin Arrived
    BY <1>2 DEF Arrive, fileVars, procVars, ghostVars
  <2>2. Tried' = Tried /\ Decided' = Decided
    BY <2>1 DEF Tried, Decided, Remembered, Failures
  <2>3. Stage' = Stage
    BY <2>1 DEF Stage
  <2> QED BY <1>2, <2>1, <2>2, <2>3, ArriveGrows DEF Desk!Arrive
<1>3. CASE ListInbox
  <2>1. CASE pc' = "arm"
    BY <1>3, <2>1, DeskArms DEF Desk!Next
  <2>2. CASE pc' # "arm"
    <3>1. /\ UNCHANGED <<inbox, seenFile, attFile, fate, kills>> /\ pc = "idle"
          /\ \/ pc' = "loop" /\ seen' = seenFile.ids /\ att' = attFile
             \/ pc' = "probe"
      BY <1>3, <2>2 DEF ListInbox, Move, fileVars
    <3>2. /\ Arrived' = Arrived /\ Stage' = Stage /\ Remembered' = Remembered
          /\ \A m \in Msg : Failures(m)' = Failures(m)
      BY <3>1 DEF Arrived, Stage, Remembered, Failures
    <3> QED BY <3>1, <3>2, DeskStutters
  <2> QED BY <2>1, <2>2
<1>4. ASSUME NEW n \in Msg, Take(n) PROVE Desk!Try(n)
  BY <1>4, DeskTries
<1>5. CASE Work
  BY <1>5, DeskDecides
<1>6. CASE Save
  BY <1>6, DeskSaves
<1>7. CASE Kill
  BY <1>7, DeskCrashes DEF Desk!Next
<1> QED
  BY <1>1, <1>2, <1>3, <1>4, <1>5, <1>6, <1>7 DEF Next, Serve, Desk!Next

\* The leg does what the desk promises, through every kill: it sets aside what
\* the first listing finds, tries the rest MaxAttempts times at most, drops after
\* exactly so many, and never touches what it remembers as settled; a kill, torn
\* files included, only makes it forget (serve_once).
THEOREM LegImplementsDesk == Spec => DeskSpec
<1>1. Init => Desk!Init
  BY DEF Init, Desk!Init, Stage, Arrived, Tried, Decided, Remembered, Failures, NoAttempts
<1>2. Init => AccountInv /\ DeskInv
  BY E2aAssumption DEF Init, AccountInv, DeskInv, Known, Remembered, NoAttempts, Arrived
<1>3. TypeInv /\ AccountInv /\ DeskInv /\ [Next]_vars => [Desk!Next]_(Desk!vars)
  BY DeskStep
<1> QED BY <1>1, <1>2, <1>3, TypeInvInit, TypeStep, AccountStep, DeskInvStep, PTL
        DEF Spec, DeskSpec, Desk!Spec

=============================================================================
