------------------------- MODULE OmegaPollerProofs -------------------------
(***************************************************************************)
(* Proofs about OmegaPoller, for any set of messages and of processes, any *)
(* retry limit, and any number of kills between any two steps.             *)
(***************************************************************************)
EXTENDS OmegaPoller, TLAPS

\* The types of what decides about messages, apart from the ledger.
CoreType ==
  /\ mailbox \subseteq arrived /\ arrived \subseteq Msg
  /\ seenFile \in [exists: BOOLEAN, ids: SUBSET Msg]
  /\ attFile \in [Msg -> 0..(MaxAttempts - 1)]
  /\ pc \in [Proc -> PC]
  /\ items \in [Proc -> SUBSET Msg]
  /\ seen \in [Proc -> SUBSET Msg]
  /\ att \in [Proc -> [Msg -> 0..(MaxAttempts - 1)]]
  /\ hand \in [Proc -> Msg \cup {NoMsg}]
  /\ kills \in 0..MaxKills
  /\ tries \in [Msg -> 0..Cap]
  /\ fate \in [Msg -> Fate]
  /\ replies \in [Msg -> 0..Cap]
  /\ unheard \in [Msg -> 0..Cap]

LedgerType ==
  /\ ledger \in Ledger
  /\ led \in [Proc -> Ledger]
  /\ cmd \in [Command -> {"idle", "truncate", "write", "done"}]
  /\ cmdLed \in [Command -> Ledger]
  /\ started \in Seq([msg: Msg, work: Work])

\* A process that holds a message has one in hand, and one that pops the queue
\* has read a queue that is not empty.
Hands ==
  \A p \in Proc :
    /\ pc[p] \in Holding => hand[p] \in Msg
    /\ pc[p] \in {"pop", "popWrite"} => led[p].queue # <<>>

TypeInv == CoreType /\ LedgerType /\ Hands

LEMMA ConstantFacts ==
  /\ MaxAttempts \in Nat \ {0} /\ Cap \in Nat /\ MaxAttempts < Cap
  /\ MaxKills \in Nat
  /\ 0 \in 0..(MaxAttempts - 1)
  /\ NoAttempts \in [Msg -> 0..(MaxAttempts - 1)]
  /\ EmptyLedger \in Ledger
  /\ Loaded \in {EmptyLedger, ledger}
  /\ EmptyLedger.queue = <<>>
<1>1. <<>> \in Seq(Work)
  OBVIOUS
<1>. QED BY <1>1, OmegaAssumption DEF NoAttempts, EmptyLedger, Ledger, Loaded

LEMMA UpToType ==
  ASSUME NEW n \in 0..Cap
  PROVE  UpTo(n + 1) \in 0..Cap /\ UpTo(n + 1) > 0 /\ UpTo(n + 1) >= n
         /\ (n < Cap => UpTo(n + 1) = n + 1)
  BY OmegaAssumption DEF UpTo

LEMMA InitTypeInv == Init => TypeInv
<1>. SUFFICES ASSUME Init PROVE TypeInv
  OBVIOUS
<1>. USE ConstantFacts DEF Init
<1>1. CoreType
  BY DEF CoreType, PC, Fate
<1>2. LedgerType
  <2>1. InitQueue \in Seq(Work)
    BY OmegaAssumption DEF Work
  <2>2. ledger \in Ledger
    BY <2>1 DEF Ledger
  <2>. QED BY <2>2 DEF LedgerType
<1>3. Hands
  BY DEF Hands, Holding
<1>. QED BY <1>1, <1>2, <1>3 DEF TypeInv

\* A process moves on, with another message or none in hand.
LEMMA MoveType ==
  ASSUME TypeInv, NEW p \in Proc, NEW to \in PC \ {"pop", "popWrite"},
         NEW h \in Msg \cup {NoMsg}, to \in Holding => h \in Msg,
         pc' = [pc EXCEPT ![p] = to], hand' = [hand EXCEPT ![p] = h], led' = led
  PROVE  /\ pc' \in [Proc -> PC]
         /\ hand' \in [Proc -> Msg \cup {NoMsg}]
         /\ Hands'
<1>1. pc \in [Proc -> PC] /\ hand \in [Proc -> Msg \cup {NoMsg}]
  BY DEF TypeInv, CoreType
<1>2. \A q \in Proc : q # p => pc'[q] = pc[q] /\ hand'[q] = hand[q]
  BY <1>1
<1>3. pc'[p] = to /\ hand'[p] = h
  BY <1>1
<1>. QED BY <1>1, <1>2, <1>3 DEF TypeInv, Hands

LEMMA LedgerUntouched ==
  ASSUME LedgerType, UNCHANGED <<ledger, led, cmd, cmdLed, started>>
  PROVE  LedgerType'
  BY DEF LedgerType

LEMMA DirectiveType ==
  ASSUME TypeInv, NEW p \in Proc, Directive(p)
  PROVE  TypeInv'
<1>. USE ConstantFacts DEF TypeInv, fileVars, cmdVars, ghostVars, Move
<1>1. CASE ReadLedger(p)
  <2>. USE <1>1 DEF ReadLedger
  <2>1. Loaded \in Ledger
    BY DEF LedgerType
  <2>2. LedgerType'
    BY <2>1 DEF LedgerType
  <2>3. CoreType'
    BY DEF CoreType, PC
  <2>4. Hands'
    BY DEF Hands, Holding, CoreType, LedgerType
  <2>. QED BY <2>2, <2>3, <2>4
<1>2. CASE PopTruncates(p)
  BY <1>2 DEF PopTruncates, LedgerType, CoreType, PC, Hands, Holding
<1>3. CASE PopWrites(p)
  <2>. USE <1>3 DEF PopWrites
  <2>1. led[p].queue \in Seq(Work) /\ led[p].queue # <<>> /\ hand[p] \in Msg
    BY DEF LedgerType, Ledger, Hands, Holding
  <2>2. Head(led[p].queue) \in Work /\ Tail(led[p].queue) \in Seq(Work)
    BY <2>1
  <2>3. ledger' \in Ledger
    BY <2>2 DEF Ledger
  <2>4. started' \in Seq([msg: Msg, work: Work])
    <3>1. [msg |-> hand[p], work |-> Head(led[p].queue)] \in [msg: Msg, work: Work]
      BY <2>1, <2>2
    <3>. QED BY <3>1 DEF LedgerType
  <2>5. LedgerType'
    BY <2>3, <2>4 DEF LedgerType
  <2>6. CoreType' /\ Hands'
    BY DEF CoreType, PC, Hands, Holding, LedgerType
  <2>. QED BY <2>5, <2>6
<1>4. CASE PopRaises(p)
  BY <1>4 DEF PopRaises, LedgerType, CoreType, PC, Hands, Holding
<1>. QED BY <1>1, <1>2, <1>3, <1>4 DEF Directive

\* What Failed does, its arithmetic apart.
LEMMA FailedFrame ==
  ASSUME NEW p \in Proc, Failed(p)
  PROVE  /\ pc[p] = "failed"
         /\ pc' = [pc EXCEPT ![p] = "loop"]
         /\ hand' = [hand EXCEPT ![p] = NoMsg]
         /\ UNCHANGED <<arrived, seenFile, attFile, ledger, items, led, cmd, cmdLed,
                       kills, tries, replies, unheard, started>>
         /\ \/ att[p][hand[p]] + 1 >= MaxAttempts
               /\ Acked(hand[p]) /\ Settled(p, hand[p], "dropped")
            \/ /\ ~ (att[p][hand[p]] + 1 >= MaxAttempts)
               /\ att' = [att EXCEPT ![p] =
                            [@ EXCEPT ![hand[p]] = att[p][hand[p]] + 1]]
               /\ UNCHANGED <<mailbox, seen, fate>>
  BY Zenon DEF Failed, Move, fileVars, cmdVars

LEMMA HandledFailedType ==
  ASSUME TypeInv, NEW p \in Proc, Handled(p) \/ Failed(p)
  PROVE  TypeInv'
<1>. USE ConstantFacts DEF TypeInv, fileVars, cmdVars
<1>1. hand[p] \in Msg /\ att[p] \in [Msg -> 0..(MaxAttempts - 1)]
      /\ pc[p] \in {"ack", "failed"}
  BY DEF Handled, Failed, Move, Hands, Holding, CoreType
<1>2. ASSUME NEW what \in {"handled", "dropped"}, Settled(p, hand[p], what)
      PROVE  /\ seen' \in [Proc -> SUBSET Msg]
             /\ att' \in [Proc -> [Msg -> 0..(MaxAttempts - 1)]]
             /\ fate' \in [Msg -> Fate]
  <2>1. seen' \in [Proc -> SUBSET Msg] /\ fate' \in [Msg -> Fate]
    BY <1>1, <1>2 DEF Settled, CoreType, Fate
  <2>2. [att[p] EXCEPT ![hand[p]] = 0] \in [Msg -> 0..(MaxAttempts - 1)]
    BY <1>1
  <2>. QED BY <1>2, <2>1, <2>2 DEF Settled, CoreType
<1>3. \A m \in Msg : Acked(m) => mailbox' \subseteq mailbox
  BY DEF Acked
<1>4. CASE Handled(p)
  <2>1. /\ seen' \in [Proc -> SUBSET Msg]
        /\ att' \in [Proc -> [Msg -> 0..(MaxAttempts - 1)]]
        /\ fate' \in [Msg -> Fate]
        /\ mailbox' \subseteq mailbox
    BY <1>1, <1>2, <1>3, <1>4 DEF Handled
  <2>2. hand' \in [Proc -> Msg \cup {NoMsg}] /\ pc' \in [Proc -> PC]
    BY <1>4 DEF Handled, Move, CoreType, PC
  <2>3. CoreType'
    BY <1>4, <2>1, <2>2 DEF Handled, CoreType
  <2>. QED BY <1>4, <2>3 DEF Handled, Move, LedgerType, Hands, Holding, CoreType
<1>5. CASE Failed(p)
  <2>. USE <1>5
  <2>3. LedgerType' /\ Hands'
    <3>1. /\ UNCHANGED <<ledger, led, cmd, cmdLed, started>>
          /\ pc' = [pc EXCEPT ![p] = "loop"]
          /\ hand' = [hand EXCEPT ![p] = NoMsg]
      BY FailedFrame
    <3>2. Hands'
      BY <3>1, MoveType DEF PC, Holding
    <3>. QED BY <3>1, <3>2, LedgerUntouched
  <2>. DEFINE n == att[p][hand[p]] + 1
  <2>1. CASE n >= MaxAttempts
    <3>1. Acked(hand[p]) /\ Settled(p, hand[p], "dropped")
      BY <2>1 DEF Failed
    <3>2. /\ seen' \in [Proc -> SUBSET Msg]
          /\ att' \in [Proc -> [Msg -> 0..(MaxAttempts - 1)]]
          /\ fate' \in [Msg -> Fate]
          /\ mailbox' \subseteq mailbox
      BY <1>1, <1>2, <1>3, <3>1
    <3>3. hand' \in [Proc -> Msg \cup {NoMsg}] /\ pc' \in [Proc -> PC]
      BY DEF Failed, Move, CoreType, PC
    <3>4. CoreType'
      BY <3>2, <3>3 DEF Failed, CoreType
    <3>. QED BY <2>3, <3>4
  <2>2. CASE ~ (n >= MaxAttempts)
    <3>1. [att[p] EXCEPT ![hand[p]] = n] \in [Msg -> 0..(MaxAttempts - 1)]
      BY <1>1, <2>2
    <3>5. att' = [att EXCEPT ![p] = [@ EXCEPT ![hand[p]] = n]]
          /\ UNCHANGED <<mailbox, seen, fate>>
      BY <2>2, FailedFrame
    <3>2. att' \in [Proc -> [Msg -> 0..(MaxAttempts - 1)]]
          /\ UNCHANGED <<mailbox, seen, fate>>
      BY <3>1, <3>5 DEF CoreType
    <3>3. hand' \in [Proc -> Msg \cup {NoMsg}] /\ pc' \in [Proc -> PC]
      BY DEF Failed, Move, CoreType, PC
    <3>4. CoreType'
      BY <3>2, <3>3 DEF Failed, CoreType
    <3>. QED BY <2>3, <3>4
  <2>. QED BY <2>1, <2>2
<1>. QED BY <1>4, <1>5

LEMMA OtherServeType ==
  ASSUME TypeInv, NEW p \in Proc,
         \/ ReadMailbox(p) \/ LoadSeen(p) \/ LoadAttempts(p)
         \/ (\E m \in Msg : Take(p, m))
         \/ Deliver(p) \/ DeliverFallback(p) \/ SaveState(p)
         \/ Kill(p) \/ Restart(p)
  PROVE  TypeInv'
<1>. USE ConstantFacts DEF TypeInv, fileVars, cmdVars, ghostVars, Move
<1>1. CASE ReadMailbox(p)
  BY <1>1 DEF ReadMailbox, LedgerType, CoreType, PC, Hands, Holding
<1>2. CASE LoadSeen(p)
  <2>1. \E to \in {"attempts", "arm"} : pc' = [pc EXCEPT ![p] = to]
    BY <1>2 DEF LoadSeen
  <2>2. seen' \in [Proc -> SUBSET Msg]
    BY <1>2 DEF LoadSeen, CoreType
  <2>3. fate' \in [Msg -> Fate]
    BY <1>2 DEF LoadSeen, CoreType, Fate
  <2>4. UNCHANGED <<arrived, mailbox, seenFile, attFile, ledger, items, att, hand,
                    led, cmd, cmdLed, kills, tries, replies, unheard, started>>
    BY <1>2 DEF LoadSeen
  <2>5. CoreType'
    BY <2>1, <2>2, <2>3, <2>4 DEF CoreType, PC
  <2>6. Hands'
    BY <2>1, <2>4 DEF Hands, Holding, CoreType
  <2>. QED BY <2>4, <2>5, <2>6, LedgerUntouched
<1>3. CASE LoadAttempts(p)
  BY <1>3 DEF LoadAttempts, LedgerType, CoreType, PC, Hands, Holding
<1>4. CASE \E m \in Msg : Take(p, m)
  <2>. PICK m \in Msg : Take(p, m)
    BY <1>4
  <2>. DEFINE to == CASE Kind[m] = "swept"     -> "ack"
                      [] Kind[m] = "directive" -> "directive"
                      [] Kind[m] = "question"  -> "deliver"
  <2>1. to \in {"ack", "directive", "deliver"}
    BY OmegaAssumption DEF MsgKind
  <2>2. pc' = [pc EXCEPT ![p] = to] /\ hand' = [hand EXCEPT ![p] = m]
    BY DEF Take
  <2>. HIDE DEF to
  <2>3. tries' \in [Msg -> 0..Cap]
    BY UpToType DEF Take, CoreType
  <2>6. UNCHANGED <<arrived, mailbox, seenFile, attFile, ledger, seen, att, led,
                    cmd, cmdLed, kills, fate, replies, unheard, started>>
        /\ items' \in [Proc -> SUBSET Msg]
    BY DEF Take, CoreType
  <2>5. Hands' /\ pc' \in [Proc -> PC] /\ hand' \in [Proc -> Msg \cup {NoMsg}]
    BY <2>1, <2>2, <2>6, MoveType DEF PC
  <2>4. CoreType'
    BY <2>3, <2>5, <2>6 DEF CoreType
  <2>. QED BY <2>4, <2>5 DEF Take, LedgerType
<1>5. CASE Deliver(p) \/ DeliverFallback(p)
  <2>1. hand[p] \in Msg
    BY <1>5 DEF Deliver, DeliverFallback, Hands, Holding
  <2>2. replies' \in [Msg -> 0..Cap]
    <3>1. replies' = replies \/ Accepted(p)
      BY <1>5 DEF Deliver, DeliverFallback, Unheard
    <3>2. UpTo(replies[hand[p]] + 1) \in 0..Cap
      BY <2>1, UpToType DEF CoreType
    <3>. QED BY <2>1, <3>1, <3>2 DEF Accepted, CoreType
  <2>5. unheard' \in [Msg -> 0..Cap]
    <3>1. unheard' = unheard \/ unheard' = [unheard EXCEPT ![hand[p]] = UpTo(@ + 1)]
      BY <1>5 DEF Deliver, DeliverFallback, Unheard
    <3>2. UpTo(unheard[hand[p]] + 1) \in 0..Cap
      BY <2>1, UpToType DEF CoreType
    <3>. QED BY <2>1, <3>1, <3>2 DEF CoreType
  <2>3. \E to \in {"ack", "failed", "fallback"} : pc' = [pc EXCEPT ![p] = to]
    BY <1>5 DEF Deliver, DeliverFallback
  <2>4. UNCHANGED <<arrived, mailbox, seenFile, attFile, ledger, items, seen, att,
                    hand, led, cmd, cmdLed, kills, tries, fate, started>>
    BY <1>5 DEF Deliver, DeliverFallback
  <2>. HIDE DEF Move
  <2>. QED BY <2>1, <2>2, <2>3, <2>4, <2>5 DEF LedgerType, CoreType, PC, Hands, Holding
<1>6. CASE SaveState(p)
  <2>. USE DEF LedgerType, CoreType, PC, Hands, Holding
  <2>1. CASE SaveSeenTruncates(p)
    BY <2>1 DEF SaveSeenTruncates
  <2>2. CASE SaveSeenWrites(p)
    <3>1. seen[p] \in SUBSET Msg
      OBVIOUS
    <3>2. seenFile' \in [exists: BOOLEAN, ids: SUBSET Msg]
      BY <2>2, <3>1 DEF SaveSeenWrites
    <3>3. \E to \in {"saveAttempts", "idle"} : pc' = [pc EXCEPT ![p] = to]
      BY <2>2 DEF SaveSeenWrites
    <3>4. UNCHANGED <<items, seen, att>> \/ LeaveCycle(p)
      BY <2>2 DEF SaveSeenWrites
    <3>5. /\ items' \in [Proc -> SUBSET Msg]
          /\ seen' \in [Proc -> SUBSET Msg]
          /\ att' \in [Proc -> [Msg -> 0..(MaxAttempts - 1)]]
      <4>1. CASE UNCHANGED <<items, seen, att>>
        BY <4>1
      <4>2. CASE LeaveCycle(p)
        BY <4>2 DEF LeaveCycle
      <4>. QED BY <3>4, <4>1, <4>2
    <3>6. UNCHANGED <<arrived, mailbox, attFile, ledger, hand, led, cmd, cmdLed,
                      kills, tries, fate, replies, unheard, started>>
      BY <2>2 DEF SaveSeenWrites
    <3>7. pc' \in [Proc -> PC]
      BY <3>3
    <3>8. Hands'
      <4>. HIDE DEF Move
      <4>. QED BY <3>3, <3>6
    <3>9. LedgerType'
      BY <3>6
    <3>. HIDE DEF Hands, LedgerType, Move, PC
    <3>. QED BY <3>2, <3>5, <3>6, <3>7, <3>8, <3>9
  <2>3. CASE SaveAttemptsTruncates(p)
    BY <2>3 DEF SaveAttemptsTruncates
  <2>4. CASE SaveAttemptsWrites(p)
    BY <2>4 DEF SaveAttemptsWrites, LeaveCycle
  <2>. QED BY <1>6, <2>1, <2>2, <2>3, <2>4 DEF SaveState
<1>7. CASE Kill(p)
  BY <1>7 DEF Kill, LeaveCycle, LedgerType, CoreType, PC, Hands, Holding
<1>8. CASE Restart(p)
  BY <1>8 DEF Restart, LedgerType, CoreType, PC, Hands, Holding
<1>. QED BY <1>1, <1>2, <1>3, <1>4, <1>5, <1>6, <1>7, <1>8

LEMMA QueueWorkType ==
  ASSUME TypeInv, NEW w \in Command, QueueWork(w)
  PROVE  TypeInv'
<1>. USE ConstantFacts DEF TypeInv, fileVars, procVars, ghostVars
<1>1. CoreType' /\ Hands'
  BY DEF QueueWork, QueueReads, QueueTruncates, QueueWrites, CoreType, Hands
<1>2. CASE QueueReads(w)
  <2>1. Loaded \in Ledger
    BY DEF LedgerType
  <2>. QED BY <1>1, <1>2, <2>1 DEF QueueReads, LedgerType
<1>3. CASE QueueTruncates(w)
  BY <1>1, <1>3 DEF QueueTruncates, LedgerType
<1>4. CASE QueueWrites(w)
  <2>1. cmdLed[w] \in Ledger /\ w \in Work
    BY DEF LedgerType, Work
  <2>2. Append(cmdLed[w].queue, w) \in Seq(Work)
    BY <2>1 DEF Ledger
  <2>3. ledger' \in Ledger
    <3>1. ledger' = [cmdLed[w] EXCEPT !.queue = Append(cmdLed[w].queue, w)]
      BY <1>4 DEF QueueWrites
    <3>. QED BY <2>1, <2>2, <3>1 DEF Ledger
  <2>. QED BY <1>1, <1>4, <2>3 DEF QueueWrites, LedgerType
<1>. QED BY <1>2, <1>3, <1>4 DEF QueueWork

LEMMA TypeInvStep == TypeInv /\ [Next]_vars => TypeInv'
<1>. SUFFICES ASSUME TypeInv, [Next]_vars PROVE TypeInv'
  OBVIOUS
<1>1. CASE UNCHANGED vars
  BY <1>1 DEF vars, fileVars, procVars, cmdVars, ghostVars, TypeInv, CoreType,
              LedgerType, Hands
<1>2. ASSUME NEW m \in Msg, Arrive(m) PROVE TypeInv'
  BY <1>2 DEF Arrive, fileVars, procVars, cmdVars, ghostVars, TypeInv, CoreType,
              LedgerType, Hands
<1>. QED BY <1>1, <1>2, DirectiveType, HandledFailedType, OtherServeType,
            QueueWorkType DEF Next, Serve

\* The poller's state keeps its types; no recorded count of failures reaches the
\* limit at which a message is dropped (serve_once).
THEOREM TypeCorrect == Spec => []TypeOK
<1>1. TypeInv => TypeOK
  BY DEF TypeInv, CoreType, LedgerType, TypeOK
<1>. QED BY <1>1, InitTypeInv, TypeInvStep, PTL DEF Spec

-----------------------------------------------------------------------------
(* Nothing is recorded as seen, or deleted, without having been dealt with. *)

Done(m) == replies[m] > 0 \/ Kind[m] = "swept" \/ tries[m] >= MaxAttempts
Earned(m) == fate[m] = "armed" \/ Done(m)

\* No count of failures exceeds the number of tries, and the message in hand has
\* a try that no count includes yet.
Counted ==
  /\ \A m \in Msg : attFile[m] <= tries[m]
  /\ \A p \in Proc, m \in Msg : att[p][m] <= tries[m]
  /\ \A p \in Proc : pc[p] \in Holding => att[p][hand[p]] < tries[hand[p]]

\* Inductive: counts are honest, a process about to delete has swept or
\* answered, and what is seen, deleted or decided has been earned.
EarnedInv ==
  /\ Counted
  /\ \A p \in Proc : pc[p] = "ack" => Done(hand[p])
  /\ \A p \in Proc : \A m \in seen[p] : Earned(m)
  /\ \A m \in seenFile.ids : Earned(m)
  /\ \A m \in arrived \ mailbox : Done(m)
  /\ \A m \in Msg : fate[m] \in {"handled", "dropped"} => Done(m)

\* Tries and replies are never taken back.
Grows ==
  \A m \in Msg : /\ tries[m] <= tries'[m]
                 /\ replies[m] > 0 => replies'[m] > 0

LEMMA GrowsStep ==
  ASSUME TypeInv, [Next]_vars
  PROVE  Grows
<1>. USE DEF Grows, fileVars, procVars, cmdVars, ghostVars, Move
<1>0. /\ tries \in [Msg -> 0..Cap] /\ replies \in [Msg -> 0..Cap]
      /\ 0..Cap \subseteq Nat
  BY ConstantFacts DEF TypeInv, CoreType
<1>1. CASE UNCHANGED <<tries, replies>>
  BY <1>0, <1>1
<1>2. ASSUME NEW p \in Proc, LoadSeen(p)
      PROVE  Grows
  BY <1>0, <1>1, <1>2 DEF LoadSeen
<1>3. ASSUME NEW p \in Proc, NEW m \in Msg, Take(p, m)
      PROVE  Grows
  BY <1>0, <1>3, UpToType DEF Take
<1>4. ASSUME NEW p \in Proc, Deliver(p) \/ DeliverFallback(p)
      PROVE  Grows
  <2>1. replies' = replies \/ Accepted(p)
    BY <1>4 DEF Deliver, DeliverFallback, Unheard
  <2>2. UNCHANGED tries
    BY <1>4 DEF Deliver, DeliverFallback
  <2>. QED BY <1>0, <2>1, <2>2, UpToType DEF Accepted
<1>5. ASSUME NEW p \in Proc, Handled(p) \/ Failed(p)
      PROVE  Grows
  <2>1. UNCHANGED <<tries, replies>>
    BY <1>5, FailedFrame DEF Handled
  <2>. QED BY <1>1, <2>1
<1>6. CASE UNCHANGED vars
  BY <1>0, <1>6 DEF vars
<1>7. ASSUME NEW m \in Msg, Arrive(m)
      PROVE  Grows
  BY <1>1, <1>7 DEF Arrive
<1>8. ASSUME NEW w \in Command, QueueWork(w)
      PROVE  Grows
  BY <1>1, <1>8 DEF QueueWork, QueueReads, QueueTruncates, QueueWrites
<1>9. ASSUME NEW p \in Proc,
             \/ ReadMailbox(p) \/ LoadAttempts(p) \/ Directive(p)
             \/ SaveState(p) \/ Kill(p) \/ Restart(p)
      PROVE  Grows
  BY <1>1, <1>9
     DEF ReadMailbox, LoadAttempts, Directive, ReadLedger, PopTruncates,
         PopWrites, PopRaises, SaveState, SaveSeenTruncates, SaveSeenWrites,
         SaveAttemptsTruncates, SaveAttemptsWrites, Kill, Restart
<1>. HIDE DEF Grows
<1>. QED BY <1>2, <1>3, <1>4, <1>5, <1>6, <1>7, <1>8, <1>9 DEF Next, Serve

\* What has been dealt with stays so.
LEMMA DoneGrows ==
  ASSUME TypeInv, TypeInv', Grows, NEW m \in Msg
  PROVE  Done(m) => Done(m)'
<1>1. /\ tries[m] \in Nat /\ tries'[m] \in Nat /\ replies[m] \in Nat
      /\ MaxAttempts \in Nat
  BY ConstantFacts DEF TypeInv, CoreType
<1>. QED BY <1>1 DEF Grows, Done

-----------------------------------------------------------------------------
(* The six parts of EarnedInv, one step further *)

LEMMA CountedStep ==
  ASSUME TypeInv, TypeInv', EarnedInv, [Next]_vars
  PROVE  Counted'
<1>0. Grows
  BY GrowsStep
<1>1. \A m \in Msg : tries[m] \in Nat /\ tries'[m] \in Nat /\ tries[m] <= tries'[m]
  BY <1>0, ConstantFacts DEF TypeInv, CoreType, Grows
<1>2. /\ attFile \in [Msg -> Nat] /\ att \in [Proc -> [Msg -> Nat]]
      /\ \A p \in Proc : pc[p] \in Holding => hand[p] \in Msg
  BY ConstantFacts DEF TypeInv, CoreType, Hands
<1>3. CASE UNCHANGED <<attFile, att, pc, hand>>
  BY <1>1, <1>2, <1>3 DEF EarnedInv, Counted
<1>4. ASSUME NEW p \in Proc, UNCHANGED <<attFile, att, hand>>,
             NEW to, pc' = [pc EXCEPT ![p] = to],
             to \in Holding => pc[p] \in Holding
      PROVE  Counted'
  <2>1. pc' = [q \in Proc |-> IF q = p THEN to ELSE pc[q]]
    BY <1>4 DEF TypeInv, CoreType
  <2>. QED BY <1>1, <1>2, <1>4, <2>1 DEF EarnedInv, Counted
<1>5. ASSUME NEW p \in Proc,
             \/ ReadMailbox(p) \/ LoadSeen(p) \/ Directive(p)
             \/ Deliver(p) \/ DeliverFallback(p) \/ SaveSeenTruncates(p)
             \/ (SaveSeenWrites(p) /\ pc[p] = "saveSeen")
             \/ Restart(p)
      PROVE  Counted'
  <2>1. UNCHANGED <<attFile, att, hand>>
    BY <1>5 DEF ReadMailbox, LoadSeen, Directive, ReadLedger, PopTruncates,
         PopWrites, PopRaises, Deliver, DeliverFallback, SaveSeenTruncates,
         SaveSeenWrites, Restart, Move, fileVars
  <2>2. \E to : /\ pc' = [pc EXCEPT ![p] = to]
                /\ to \in Holding => pc[p] \in Holding
    BY <1>5 DEF ReadMailbox, LoadSeen, Directive, ReadLedger, PopTruncates,
         PopWrites, PopRaises, Deliver, DeliverFallback, SaveSeenTruncates,
         SaveSeenWrites, Restart, Move, Holding
  <2>. QED BY <1>4, <2>1, <2>2
<1>6. ASSUME NEW p \in Proc, LeaveCycle(p), UNCHANGED <<tries>>,
             attFile' = attFile \/ attFile' = att[p],
             NEW to, to \notin Holding, pc' = [pc EXCEPT ![p] = to],
             \A q \in Proc : q # p => hand'[q] = hand[q]
      PROVE  Counted'
  <2>1. \A q \in Proc : q # p => pc'[q] = pc[q] /\ att'[q] = att[q]
    BY <1>2, <1>6 DEF LeaveCycle, TypeInv, CoreType
  <2>2. pc'[p] = to /\ att'[p] = NoAttempts
    BY <1>2, <1>6 DEF LeaveCycle, TypeInv, CoreType
  <2>3. \A m \in Msg : attFile'[m] <= tries'[m]
    BY <1>6 DEF EarnedInv, Counted
  <2>4. \A q \in Proc, m \in Msg : att'[q][m] <= tries'[m]
    BY <1>1, <1>6, <2>1, <2>2 DEF EarnedInv, Counted, NoAttempts
  <2>5. \A q \in Proc : pc'[q] \in Holding => att'[q][hand'[q]] < tries'[hand'[q]]
    BY <1>6, <2>1, <2>2 DEF EarnedInv, Counted
  <2>. QED BY <2>3, <2>4, <2>5 DEF Counted
<1>7. ASSUME NEW p \in Proc, SaveSeenWrites(p), pc[p] # "saveSeen"
      PROVE  Counted'
  BY <1>6, <1>7 DEF SaveSeenWrites, Move, Holding, ghostVars
<1>8. ASSUME NEW p \in Proc, SaveAttemptsWrites(p)
      PROVE  Counted'
  BY <1>6, <1>8 DEF SaveAttemptsWrites, Move, Holding, ghostVars
<1>9. ASSUME NEW p \in Proc, Kill(p)
      PROVE  Counted'
  <2>1. \A q \in Proc : q # p => hand'[q] = hand[q]
    BY <1>9 DEF Kill, TypeInv, CoreType
  <2>. QED BY <1>6, <1>9, <2>1 DEF Kill, Holding, ghostVars, fileVars
<1>10. ASSUME NEW p \in Proc, SaveAttemptsTruncates(p)
       PROVE  Counted'
  <2>1. \A m \in Msg : attFile'[m] <= tries'[m]
    BY <1>1, <1>10 DEF SaveAttemptsTruncates, NoAttempts
  <2>2. /\ UNCHANGED <<att, hand, tries>>
        /\ \A q \in Proc : pc'[q] \in Holding => pc[q] \in Holding
    BY <1>10 DEF SaveAttemptsTruncates, Move, Holding, ghostVars, TypeInv, CoreType
  <2>. QED BY <2>1, <2>2 DEF EarnedInv, Counted
<1>11. ASSUME NEW p \in Proc, LoadAttempts(p)
       PROVE  Counted'
  <2>1. /\ UNCHANGED <<attFile, hand, tries>>
        /\ att' = [att EXCEPT ![p] = attFile]
        /\ pc' = [pc EXCEPT ![p] = "loop"]
    BY <1>11 DEF LoadAttempts, Move, ghostVars, fileVars
  <2>2. \A q \in Proc : pc'[q] \in Holding => q # p /\ pc[q] \in Holding
    BY <2>1 DEF Holding, TypeInv, CoreType
  <2>3. \A q \in Proc : q # p => att'[q] = att[q]
    BY <1>2, <2>1
  <2>4. att'[p] = attFile
    BY <1>2, <2>1
  <2>. QED BY <2>1, <2>2, <2>3, <2>4 DEF EarnedInv, Counted
<1>12. ASSUME NEW p \in Proc, NEW m \in Msg, Take(p, m)
       PROVE  Counted'
  <2>1. /\ UNCHANGED <<attFile, att>>
        /\ hand' = [hand EXCEPT ![p] = m]
        /\ tries' = [tries EXCEPT ![m] = UpTo(tries[m] + 1)]
    BY <1>12 DEF Take, fileVars
  <2>2. att[p][m] < tries'[m]
    <3>1. att[p][m] \in 0..(MaxAttempts - 1) /\ tries[m] \in 0..Cap /\ att[p][m] <= tries[m]
      BY DEF TypeInv, CoreType, EarnedInv, Counted
    <3>2. tries'[m] = UpTo(tries[m] + 1)
      BY <2>1 DEF TypeInv, CoreType
    <3>. QED BY <3>1, <3>2, ConstantFacts DEF UpTo
  <2>3. \A q \in Proc : q # p => pc'[q] = pc[q] /\ hand'[q] = hand[q]
    BY <1>12, <2>1 DEF Take, Move, TypeInv, CoreType
  <2>4. hand'[p] = m
    BY <2>1 DEF TypeInv, CoreType
  <2>5. \A q \in Proc : pc'[q] \in Holding => att'[q][hand'[q]] < tries'[hand'[q]]
    <3>. SUFFICES ASSUME NEW q \in Proc, pc'[q] \in Holding
                  PROVE  att[q][hand'[q]] < tries'[hand'[q]]
      BY <2>1
    <3>1. CASE q = p
      BY <2>2, <2>4, <3>1
    <3>2. CASE q # p
      BY <1>1, <1>2, <2>3, <3>2 DEF EarnedInv, Counted
    <3>. QED BY <3>1, <3>2
  <2>. QED BY <1>1, <1>2, <2>1, <2>5 DEF EarnedInv, Counted
<1>13. ASSUME NEW p \in Proc, Handled(p) \/ Failed(p)
       PROVE  Counted'
  <2>1. /\ UNCHANGED <<attFile, tries>>
        /\ pc' = [pc EXCEPT ![p] = "loop"]
        /\ hand' = [hand EXCEPT ![p] = NoMsg]
        /\ pc[p] \in {"ack", "failed"}
    BY <1>13, FailedFrame DEF Handled, Move, fileVars
  <2>2. hand[p] \in Msg /\ att[p][hand[p]] < tries[hand[p]]
    BY <2>1 DEF TypeInv, Hands, Holding, EarnedInv, Counted
  <2>3. \E n \in {0, att[p][hand[p]] + 1} :
          att' = [att EXCEPT ![p] = [att[p] EXCEPT ![hand[p]] = n]]
    BY <1>13, FailedFrame DEF Handled, Settled
  <2>4. \A q \in Proc : q # p => /\ pc'[q] = pc[q] /\ hand'[q] = hand[q]
                                /\ att'[q] = att[q]
    BY <1>2, <2>1, <2>3 DEF TypeInv, CoreType
  <2>5. \A m \in Msg : att'[p][m] <= tries[m]
    <3>. PICK n \in {0, att[p][hand[p]] + 1} :
                att' = [att EXCEPT ![p] = [att[p] EXCEPT ![hand[p]] = n]]
      BY <2>3
    <3>1. n <= tries[hand[p]]
      BY <1>1, <1>2, <2>2
    <3>2. \A m \in Msg : att'[p][m] = IF m = hand[p] THEN n ELSE att[p][m]
      BY <1>2, <2>2
    <3>. QED BY <3>1, <3>2 DEF EarnedInv, Counted
  <2>6. pc'[p] \notin Holding
    BY <2>1 DEF Holding, TypeInv, CoreType
  <2>. QED BY <2>1, <2>4, <2>5, <2>6 DEF EarnedInv, Counted
<1>14. CASE \/ UNCHANGED vars \/ (\E m \in Msg : Arrive(m))
            \/ (\E w \in Command : QueueWork(w))
  BY <1>3, <1>14 DEF vars, Arrive, QueueWork, QueueReads, QueueTruncates,
                     QueueWrites, procVars, fileVars
<1>. QED BY <1>5, <1>7, <1>8, <1>9, <1>10, <1>11, <1>12, <1>13, <1>14
         DEF Next, Serve, SaveState

\* A message that a step settles has been dealt with.
LEMMA SettledIsDone ==
  ASSUME TypeInv, EarnedInv, NEW p \in Proc, Handled(p) \/ Failed(p)
  PROVE  /\ hand[p] \in Msg
         /\ Done(hand[p]) \/ UNCHANGED <<mailbox, seen, fate>>
         /\ mailbox' \in {mailbox, mailbox \ {hand[p]}}
         /\ seen' = [seen EXCEPT ![p] = @ \cup {hand[p]}] \/ seen' = seen
         /\ \A m \in Msg : fate'[m] = fate[m] \/ m = hand[p]
<1>1. pc[p] \in {"ack", "failed"} /\ hand[p] \in Msg
  BY FailedFrame DEF Handled, Move, TypeInv, Hands, Holding
<1>2. fate \in [Msg -> Fate]
  BY DEF TypeInv, CoreType
<1>3. CASE Handled(p)
  <2>1. pc[p] = "ack" /\ Acked(hand[p]) /\ Settled(p, hand[p], "handled")
    BY <1>3 DEF Handled, Move
  <2>. QED BY <1>1, <1>2, <2>1 DEF EarnedInv, Acked, Settled
<1>4. CASE Failed(p)
  <2>1. att[p][hand[p]] < tries[hand[p]]
    BY <1>1, <1>4, FailedFrame DEF EarnedInv, Counted, Holding
  <2>2. att[p][hand[p]] \in Nat /\ tries[hand[p]] \in Nat /\ MaxAttempts \in Nat
    BY <1>1, ConstantFacts DEF TypeInv, CoreType
  <2>3. att[p][hand[p]] + 1 >= MaxAttempts => Done(hand[p])
    BY <2>1, <2>2 DEF Done
  <2>4. \/ /\ Done(hand[p])
           /\ Acked(hand[p]) /\ Settled(p, hand[p], "dropped")
        \/ UNCHANGED <<mailbox, seen, fate>>
    BY <1>4, <2>3, FailedFrame
  <2>. QED BY <1>1, <1>2, <2>4 DEF Acked, Settled
<1>. QED BY <1>3, <1>4

\* Every other step leaves the mailbox's deletions, the seen sets, the seen file
\* and the decisions as they are, but for the steps that move them about.
Deciding(p) == Handled(p) \/ Failed(p)

LEMMA Undecided ==
  ASSUME TypeInv, [Next]_vars, \A p \in Proc : ~ Deciding(p)
  PROVE  /\ arrived' \ mailbox' \subseteq arrived \ mailbox
         /\ \A m \in Msg : fate'[m] = fate[m] \/ fate'[m] = "armed"
         /\ \A p \in Proc : \A m \in seen'[p] :
              m \in seen[p] \/ m \in seenFile.ids \/ fate'[m] # "open"
         /\ \A m \in seenFile'.ids :
              m \in seenFile.ids \/ \E p \in Proc : m \in seen[p]
<1>. USE DEF fileVars, procVars, cmdVars, ghostVars
<1>1. seen \in [Proc -> SUBSET Msg] /\ fate \in [Msg -> Fate]
      /\ items \in [Proc -> SUBSET Msg]
  BY DEF TypeInv, CoreType
<1>. DEFINE Quiet == UNCHANGED <<arrived, mailbox, fate, seen, seenFile>>
<1>2. CASE Quiet
  BY <1>2
<1>3. ASSUME NEW m \in Msg, Arrive(m) PROVE arrived' \ mailbox' \subseteq arrived \ mailbox
                                        /\ UNCHANGED <<fate, seen, seenFile>>
  BY <1>3 DEF Arrive
<1>4. ASSUME NEW p \in Proc, LoadSeen(p)
      PROVE  /\ UNCHANGED <<arrived, mailbox, seenFile>>
             /\ \A m \in Msg : fate'[m] = fate[m] \/ fate'[m] = "armed"
             /\ \A q \in Proc : \A m \in seen'[q] :
                  m \in seen[q] \/ m \in seenFile.ids \/ fate'[m] # "open"
  BY <1>1, <1>4 DEF LoadSeen
<1>5. ASSUME NEW p \in Proc, SaveSeenTruncates(p)
      PROVE  UNCHANGED <<arrived, mailbox, fate, seen>> /\ seenFile'.ids = {}
  BY <1>5 DEF SaveSeenTruncates
<1>6. ASSUME NEW p \in Proc,
             SaveSeenWrites(p) \/ SaveAttemptsWrites(p) \/ Kill(p)
      PROVE  /\ UNCHANGED <<arrived, mailbox, fate>>
             /\ seen' = seen \/ LeaveCycle(p)
             /\ seenFile'.ids = seenFile.ids \/ seenFile'.ids = seen[p]
  BY <1>6 DEF SaveSeenWrites, SaveAttemptsWrites, Kill
<1>7. \A p \in Proc : LeaveCycle(p) => \A q \in Proc : seen'[q] \subseteq seen[q]
  BY <1>1 DEF LeaveCycle
<1>8. ASSUME NEW p \in Proc,
             \/ ReadMailbox(p) \/ LoadAttempts(p) \/ Directive(p)
             \/ (\E m \in Msg : Take(p, m)) \/ Deliver(p) \/ DeliverFallback(p)
             \/ SaveAttemptsTruncates(p) \/ Restart(p)
      PROVE  Quiet
  BY <1>8 DEF ReadMailbox, LoadAttempts, Directive, ReadLedger, PopTruncates,
       PopWrites, PopRaises, Take, Deliver, DeliverFallback,
       SaveAttemptsTruncates, Restart
<1>9. CASE UNCHANGED vars \/ (\E w \in Command : QueueWork(w))
  <2>1. Quiet
    BY <1>9 DEF vars, QueueWork, QueueReads, QueueTruncates, QueueWrites
  <2>. QED BY <2>1, <1>2
<1>10. CASE \E m \in Msg : Arrive(m)
  BY <1>3, <1>10
<1>11. ASSUME NEW p \in Proc, LoadSeen(p) \/ SaveSeenTruncates(p)
       PROVE  /\ arrived' \ mailbox' \subseteq arrived \ mailbox
              /\ \A m \in Msg : fate'[m] = fate[m] \/ fate'[m] = "armed"
              /\ \A q \in Proc : \A m \in seen'[q] :
                   m \in seen[q] \/ m \in seenFile.ids \/ fate'[m] # "open"
              /\ seenFile'.ids \subseteq seenFile.ids
  <2>1. CASE LoadSeen(p)
    BY <1>4, <2>1
  <2>2. CASE SaveSeenTruncates(p)
    BY <1>5, <2>2
  <2>. QED BY <1>11, <2>1, <2>2
<1>12. CASE \E p \in Proc : SaveSeenWrites(p) \/ SaveAttemptsWrites(p) \/ Kill(p)
  BY <1>6, <1>7, <1>12
<1>13. CASE \E p \in Proc :
             \/ ReadMailbox(p) \/ LoadAttempts(p) \/ Directive(p)
             \/ (\E m \in Msg : Take(p, m)) \/ Deliver(p) \/ DeliverFallback(p)
             \/ SaveAttemptsTruncates(p) \/ Restart(p)
  BY <1>2, <1>8, <1>13
<1>14. CASE \E p \in Proc : LoadSeen(p) \/ SaveSeenTruncates(p)
  BY <1>11, <1>14
<1>. QED BY <1>9, <1>10, <1>12, <1>13, <1>14 DEF Next, Serve, SaveState, Deciding

LEMMA EarnedStep ==
  ASSUME TypeInv, TypeInv', EarnedInv, [Next]_vars
  PROVE  EarnedInv'
<1>0. Grows /\ Counted'
  BY GrowsStep, CountedStep
<1>1. \A m \in Msg : Done(m) => Done(m)'
  BY <1>0, DoneGrows
<1>2. /\ \A p \in Proc : seen[p] \subseteq Msg /\ seen'[p] \subseteq Msg
      /\ seenFile.ids \subseteq Msg /\ seenFile'.ids \subseteq Msg
      /\ arrived \subseteq Msg /\ arrived' \subseteq Msg
      /\ \A p \in Proc : pc[p] = "ack" => hand[p] \in Msg
      /\ \A m \in Msg : fate[m] \in Fate /\ fate'[m] \in Fate
  BY DEF TypeInv, CoreType, Hands, Holding
<1>3. \A p \in Proc, m \in Msg : pc'[p] = "ack" /\ m = hand'[p] => Done(m)'
  <2>. SUFFICES ASSUME NEW q \in Proc, NEW h \in Msg, pc'[q] = "ack", h = hand'[q]
                PROVE  Done(h)'
    OBVIOUS
  <2>1. CASE pc[q] = "ack" /\ hand'[q] = hand[q]
    <3>1. Done(hand[q])
      BY <2>1 DEF EarnedInv
    <3>2. Done(h)
      BY <2>1, <3>1
    <3>. QED BY <1>1, <3>2
  <2>2. ASSUME NEW m \in Msg, Take(q, m) PROVE Done(h)'
    <3>1. hand'[q] = m
      BY <2>2 DEF Take, TypeInv, CoreType
    <3>2. Kind[m] = "swept"
      <4>. DEFINE to == CASE Kind[m] = "swept"     -> "ack"
                          [] Kind[m] = "directive" -> "directive"
                          [] Kind[m] = "question"  -> "deliver"
      <4>1. pc' = [pc EXCEPT ![q] = to]
        BY <2>2 DEF Take, Move
      <4>2. to = "ack"
        <5>. HIDE DEF to
        <5>. QED BY <4>1 DEF TypeInv, CoreType
      <4>3. Kind[m] \in MsgKind
        BY OmegaAssumption
      <4>. QED BY <4>2, <4>3 DEF MsgKind
    <3>. QED BY <3>1, <3>2 DEF Done
  <2>3. CASE Accepted(q) /\ hand'[q] = hand[q]
    <3>1. replies'[h] > 0
      BY <2>3, UpToType DEF Accepted, TypeInv, CoreType
    <3>. QED BY <3>1 DEF Done
  <2>4. \/ \E m \in Msg : Take(q, m)
        \/ Accepted(q) /\ hand'[q] = hand[q]
        \/ pc[q] = "ack" /\ hand'[q] = hand[q]
    <3>1. CASE UNCHANGED vars \/ (\E m \in Msg : Arrive(m))
               \/ (\E w \in Command : QueueWork(w))
      BY <3>1 DEF vars, procVars, Arrive, QueueWork, QueueReads, QueueTruncates,
                  QueueWrites
    <3>2. ASSUME NEW p \in Proc, Handled(p) \/ Failed(p)
          PROVE  pc[q] = "ack" /\ hand'[q] = hand[q]
      <4>1. pc' = [pc EXCEPT ![p] = "loop"] /\ hand' = [hand EXCEPT ![p] = NoMsg]
        BY <3>2, FailedFrame DEF Handled, Move
      <4>. QED BY <4>1 DEF TypeInv, CoreType
    <3>3. ASSUME NEW p \in Proc, Deliver(p) \/ DeliverFallback(p)
          PROVE  \/ Accepted(q) /\ hand'[q] = hand[q]
                 \/ pc[q] = "ack" /\ hand'[q] = hand[q]
      BY <3>3 DEF Deliver, DeliverFallback, Move, TypeInv, CoreType
    <3>4. ASSUME NEW p \in Proc, NEW m \in Msg, Take(p, m)
          PROVE  p = q \/ (pc[q] = "ack" /\ hand'[q] = hand[q])
      <4>1. \E to : pc' = [pc EXCEPT ![p] = to]
        BY <3>4 DEF Take, Move
      <4>2. hand' = [hand EXCEPT ![p] = m]
        BY <3>4 DEF Take
      <4>. QED BY <4>1, <4>2 DEF TypeInv, CoreType
    <3>5. ASSUME NEW p \in Proc, Directive(p) \/ SaveState(p)
          PROVE  pc[q] = "ack" /\ hand'[q] = hand[q]
      BY <3>5 DEF Directive, ReadLedger, PopTruncates, PopWrites, PopRaises,
           SaveState, SaveSeenTruncates, SaveSeenWrites, SaveAttemptsTruncates,
           SaveAttemptsWrites, Move, TypeInv, CoreType
    <3>6. ASSUME NEW p \in Proc,
                 \/ ReadMailbox(p) \/ LoadSeen(p) \/ LoadAttempts(p)
                 \/ Kill(p) \/ Restart(p)
          PROVE  pc[q] = "ack" /\ hand'[q] = hand[q]
      BY <3>6 DEF ReadMailbox, LoadSeen, LoadAttempts, Kill, Restart, Move,
           TypeInv, CoreType
    <3>. QED BY <3>1, <3>2, <3>3, <3>4, <3>5, <3>6 DEF Next, Serve
  <2>. QED BY <2>1, <2>2, <2>3, <2>4
<1>10. \A p \in Proc : (pc[p] = "ack" => Done(hand[p]))'
  BY <1>3 DEF TypeInv, Hands, Holding, Done
<1>4. CASE \A p \in Proc : ~ Deciding(p)
  <2>0. \A m \in Msg : Earned(m) => Earned(m)'
    BY <1>1, <1>4, Undecided DEF Earned
  <2>1. \A p \in Proc : \A m \in seen'[p] : Earned(m)'
    BY <1>1, <1>2, <1>4, <2>0, Undecided DEF EarnedInv, Earned, Fate
  <2>2. \A m \in seenFile'.ids : Earned(m)'
    BY <1>2, <1>4, <2>0, Undecided DEF EarnedInv
  <2>3. \A m \in arrived' \ mailbox' : Done(m)'
    BY <1>1, <1>2, <1>4, Undecided DEF EarnedInv
  <2>4. \A m \in Msg : fate'[m] \in {"handled", "dropped"} => Done(m)'
    BY <1>1, <1>4, Undecided DEF EarnedInv
  <2>. QED BY <1>0, <1>10, <2>1, <2>2, <2>3, <2>4 DEF EarnedInv
<1>5. ASSUME NEW p \in Proc, Deciding(p) PROVE EarnedInv'
  <2>0. UNCHANGED <<arrived, seenFile>>
    BY <1>5, FailedFrame DEF Deciding, Handled, fileVars
  <2>1. /\ hand[p] \in Msg
        /\ Done(hand[p]) \/ UNCHANGED <<mailbox, seen, fate>>
        /\ mailbox' \in {mailbox, mailbox \ {hand[p]}}
        /\ seen' = [seen EXCEPT ![p] = @ \cup {hand[p]}] \/ seen' = seen
        /\ \A m \in Msg : fate'[m] = fate[m] \/ m = hand[p]
    BY <1>5, SettledIsDone DEF Deciding
  <2>e. \A m \in Msg : Earned(m) => Earned(m)'
    BY <1>1, <2>1 DEF Earned
  <2>2. \A q \in Proc : \A m \in seen'[q] : Earned(m)'
    <3>1. \A q \in Proc : \A m \in seen'[q] :
            m \in seen[q] \/ (m = hand[p] /\ Done(hand[p]))
      <4>1. CASE seen' = seen
        BY <4>1
      <4>2. CASE seen' # seen
        <5>1. Done(hand[p]) /\ seen' = [seen EXCEPT ![p] = @ \cup {hand[p]}]
          BY <2>1, <4>2
        <5>2. \A q \in Proc : seen'[q] \subseteq seen[q] \cup {hand[p]}
          BY <5>1 DEF TypeInv, CoreType
        <5>. QED BY <5>1, <5>2
      <4>. QED BY <4>1, <4>2
    <3>. QED BY <1>1, <1>2, <2>1, <2>e, <3>1 DEF EarnedInv, Earned
  <2>3. \A m \in seenFile'.ids : Earned(m)'
    BY <1>2, <2>0, <2>e DEF EarnedInv
  <2>4. \A m \in arrived' \ mailbox' : Done(m)'
    BY <1>1, <1>2, <2>0, <2>1 DEF EarnedInv
  <2>5. \A m \in Msg : fate'[m] \in {"handled", "dropped"} => Done(m)'
    BY <1>1, <2>1 DEF EarnedInv
  <2>. QED BY <1>0, <1>10, <2>2, <2>3, <2>4, <2>5 DEF EarnedInv
<1>. QED BY <1>4, <1>5

LEMMA InitEarned == Init => EarnedInv
  BY OmegaAssumption DEF Init, EarnedInv, Counted, NoAttempts, Holding

LEMMA EarnedAlways == Spec => [](TypeInv /\ EarnedInv)
<1>1. TypeInv /\ EarnedInv /\ [Next]_vars => TypeInv' /\ EarnedInv'
  BY TypeInvStep, EarnedStep
<1>. QED BY <1>1, InitTypeInv, InitEarned, PTL DEF Spec

\* Nothing counts as seen that was not armed, answered, swept or tried often
\* enough, for any number of processes, kills and torn files (serve_once).
THEOREM SeenAreEarned == Spec => []SeenIsEarned
<1>1. TypeInv /\ EarnedInv => SeenIsEarned
  BY DEF EarnedInv, SeenIsEarned, Earned, Done
<1>. QED BY <1>1, EarnedAlways, PTL

\* Nothing is deleted from the mailbox that was not answered, swept or tried
\* often enough (_ack and its callers).
THEOREM DeletedAreEarned == Spec => []DeletedIsEarned
<1>1. TypeInv /\ EarnedInv => DeletedIsEarned
  BY DEF EarnedInv, DeletedIsEarned, Done, TypeInv, CoreType
<1>. QED BY <1>1, EarnedAlways, PTL

-----------------------------------------------------------------------------
(* One process answers a message once, but for kills and unheard replies.   *)

\* A message that is not known, and not just being marked, has only replies that
\* a kill or an unheard reply paid for.
AccountInv ==
  /\ \A m \in Msg : replies[m] <= 1 + kills + unheard[m]
  /\ \A p \in Proc, m \in Msg :
       m \in Known(p) \/ (pc[p] = "ack" /\ hand[p] = m)
         \/ replies[m] <= kills + unheard[m]
  /\ \A p \in Proc : pc[p] \in Holding => hand[p] \notin seen[p]
  /\ \A p \in Proc : pc[p] \in {"saveAttempts", "attemptsWrite"} => seenFile.ids = seen[p]
  /\ ~ seenFile.exists => seenFile.ids = {}

LEMMA ReplyNumbers ==
  ASSUME TypeInv
  PROVE  kills \in Nat /\ \A m \in Msg : replies[m] \in 0..Cap /\ unheard[m] \in 0..Cap
BY ConstantFacts DEF TypeInv, CoreType

\* A step that sends nothing keeps the account if it forgets nothing.
LEMMA AccountKept ==
  ASSUME OneProcess, AccountInv, UNCHANGED <<replies, unheard, kills>>, NEW p \in Proc,
         Known(p) \subseteq Known(p)',
         (pc[p] = "ack" => hand[p] \in Known(p)' \/ (pc'[p] = "ack" /\ hand'[p] = hand[p])),
         pc'[p] \in Holding => hand'[p] \notin seen'[p],
         pc'[p] \in {"saveAttempts", "attemptsWrite"} => seenFile'.ids = seen'[p],
         ~ seenFile'.exists => seenFile'.ids = {}
  PROVE  AccountInv'
<1>1. \A q \in Proc : q = p
  BY DEF OneProcess
<1>2. \A m \in Msg : \/ m \in Known(p)' \/ (pc'[p] = "ack" /\ hand'[p] = m)
                     \/ replies[m] <= kills + unheard[m]
  BY DEF AccountInv
<1>3. \A m \in Msg : replies'[m] <= 1 + kills' + unheard'[m]
  BY DEF AccountInv
<1>4. \A q \in Proc, m \in Msg :
        m \in Known(q)' \/ (pc'[q] = "ack" /\ hand'[q] = m)
          \/ replies'[m] <= kills' + unheard'[m]
  <2>1. \A m \in Msg :
        m \in Known(p)' \/ (pc'[p] = "ack" /\ hand'[p] = m)
          \/ replies'[m] <= kills' + unheard'[m]
    BY <1>2
  <2> SUFFICES ASSUME NEW q \in Proc, NEW m \in Msg
               PROVE  m \in Known(q)' \/ (pc'[q] = "ack" /\ hand'[q] = m)
                        \/ replies'[m] <= kills' + unheard'[m]
    OBVIOUS
  <2>2. q = p
    BY <1>1
  <2>3. Known(q)' = Known(p)'
    BY <2>2 DEF Known
  <2> QED BY <2>1, <2>2, <2>3
<1>5. \A q \in Proc : /\ pc'[q] \in Holding => hand'[q] \notin seen'[q]
                      /\ pc'[q] \in {"saveAttempts", "attemptsWrite"} =>
                           seenFile'.ids = seen'[q]
  BY <1>1
<1> QED BY <1>3, <1>4, <1>5 DEF AccountInv

\* A reply is sent: it is the last one to its message, or it went through unheard.
LEMMA DeliverAccounts ==
  ASSUME OneProcess, TypeInv, AccountInv, NEW p \in Proc, Deliver(p) \/ DeliverFallback(p)
  PROVE  AccountInv'
<1>1. /\ pc[p] \in {"deliver", "fallback"} /\ pc' \in [Proc -> PC] /\ hand[p] \in Msg
      /\ hand[p] \notin seen[p]
      /\ UNCHANGED <<seenFile, seen, hand, kills>>
  <2>1. pc[p] \in {"deliver", "fallback"} /\ UNCHANGED <<seenFile, seen, hand, kills>>
    BY DEF Deliver, DeliverFallback, Move, fileVars
  <2>2. \E to \in {"ack", "failed", "fallback"} : pc' = [pc EXCEPT ![p] = to]
    BY DEF Deliver, DeliverFallback, Move
  <2>3. hand[p] \in Msg /\ hand[p] \notin seen[p]
    BY <2>1 DEF TypeInv, Hands, Holding, AccountInv
  <2>4. pc' \in [Proc -> PC]
    BY <2>2 DEF TypeInv, CoreType, PC
  <2> QED BY <2>1, <2>3, <2>4
<1>2. \/ pc'[p] = "ack" /\ Accepted(p) /\ UNCHANGED unheard
      \/ pc'[p] = "failed" /\ Unheard(p)
      \/ pc'[p] \in {"failed", "fallback"} /\ UNCHANGED <<replies, unheard>>
  <2>1. pc \in [Proc -> PC]
    BY DEF TypeInv, CoreType
  <2>2. CASE Deliver(p)
    BY <2>1, <2>2 DEF Deliver, Move
  <2>3. CASE DeliverFallback(p)
    BY <2>1, <2>3 DEF DeliverFallback, Move
  <2> QED BY <2>2, <2>3
<1>3. \A q \in Proc : q = p
  BY DEF OneProcess
<1>4. Known(p) = seen[p] /\ Known(p)' = seen[p]
  BY <1>1, <1>2 DEF Known
<1>5. \A m \in Msg : /\ replies[m] <= 1 + kills + unheard[m]
                     /\ m \in seen[p] \/ replies[m] <= kills + unheard[m]
  BY <1>1, <1>4 DEF AccountInv
<1>6. kills \in Nat /\ Cap \in Nat
      /\ \A m \in Msg : replies[m] \in 0..Cap /\ unheard[m] \in 0..Cap
  BY ReplyNumbers, ConstantFacts
<1>7. replies \in [Msg -> 0..Cap] /\ unheard \in [Msg -> 0..Cap]
  BY DEF TypeInv, CoreType
<1>8. \A m \in Msg : /\ replies'[m] <= 1 + kills + unheard'[m]
                     /\ \/ m \in seen[p] \/ (pc'[p] = "ack" /\ hand[p] = m)
                        \/ replies'[m] <= kills + unheard'[m]
  <2>1. CASE pc'[p] = "ack" /\ Accepted(p) /\ UNCHANGED unheard
    <3>1. \A m \in Msg : replies'[m] = IF m = hand[p] THEN UpTo(replies[m] + 1) ELSE replies[m]
      BY <1>7, <2>1 DEF Accepted
    <3> QED BY <1>1, <1>5, <1>6, <2>1, <3>1 DEF UpTo
  <2>2. CASE pc'[p] = "failed" /\ Unheard(p)
    <3>1. \A m \in Msg :
            /\ replies'[m] = IF m = hand[p] THEN UpTo(replies[m] + 1) ELSE replies[m]
            /\ unheard'[m] = IF m = hand[p] THEN UpTo(unheard[m] + 1) ELSE unheard[m]
      BY <1>7, <2>2 DEF Accepted, Unheard
    <3> QED BY <1>1, <1>5, <1>6, <3>1 DEF UpTo
  <2>3. CASE UNCHANGED <<replies, unheard>>
    BY <1>5, <2>3
  <2> QED BY <1>2, <2>1, <2>2, <2>3
<1>9. pc'[p] \in {"ack", "failed", "fallback"}
  BY <1>2
<1>10. \A q \in Proc, m \in Msg :
         m \in Known(q)' \/ (pc'[q] = "ack" /\ hand'[q] = m)
           \/ replies'[m] <= kills' + unheard'[m]
  <2> SUFFICES ASSUME NEW q \in Proc, NEW m \in Msg
               PROVE  m \in Known(q)' \/ (pc'[q] = "ack" /\ hand'[q] = m)
                        \/ replies'[m] <= kills' + unheard'[m]
    OBVIOUS
  <2>1. q = p
    BY <1>3
  <2>2. Known(q)' = seen[p]
    BY <1>4, <2>1 DEF Known
  <2> QED BY <1>1, <1>8, <2>1, <2>2
<1> QED BY <1>1, <1>3, <1>8, <1>9, <1>10 DEF AccountInv

\* The steps of a cycle that send nothing.
LEMMA CycleAccounts ==
  ASSUME OneProcess, TypeInv, AccountInv, NEW p \in Proc,
         \/ ReadMailbox(p) \/ LoadSeen(p) \/ LoadAttempts(p)
         \/ (\E m \in Msg : Take(p, m))
         \/ Directive(p) \/ Handled(p) \/ Failed(p) \/ SaveState(p) \/ Restart(p)
  PROVE  AccountInv'
<1>0. /\ pc \in [Proc -> PC] /\ hand \in [Proc -> Msg \cup {NoMsg}]
      /\ seen \in [Proc -> SUBSET Msg]
  BY DEF TypeInv, CoreType
<1>1. CASE ReadMailbox(p) \/ LoadAttempts(p) \/ Restart(p)
  <2>1. /\ UNCHANGED <<replies, unheard, kills, seenFile, seen, hand>>
        /\ \/ pc[p] = "idle" /\ pc'[p] = "load"
           \/ pc[p] = "attempts" /\ pc'[p] = "loop"
           \/ pc[p] = "down" /\ pc'[p] = "idle"
    BY <1>0, <1>1 DEF ReadMailbox, LoadAttempts, Restart, Move, fileVars, ghostVars
  <2> QED BY <2>1, AccountKept DEF Known, Holding, AccountInv
<1>2. CASE LoadSeen(p)
  <2>1. /\ UNCHANGED <<replies, unheard, kills, seenFile, hand>> /\ pc[p] = "load"
        /\ \/ pc'[p] = "attempts" /\ seen'[p] = seenFile.ids
           \/ pc'[p] = "arm" /\ ~ seenFile.exists
    BY <1>0, <1>2 DEF LoadSeen, Move, fileVars
  <2>2. Known(p) \subseteq Known(p)'
    BY <2>1 DEF Known, AccountInv
  <2> QED BY <2>1, <2>2, AccountKept DEF Holding, AccountInv
<1>3. ASSUME NEW m \in Msg, Take(p, m) PROVE AccountInv'
  <2>1. /\ UNCHANGED <<replies, unheard, kills, seenFile, seen>> /\ pc[p] = "loop"
        /\ hand'[p] = m /\ m \notin seen[p]
    BY <1>0, <1>3 DEF Take, Move, fileVars
  <2>2. pc'[p] \in {"ack", "directive", "deliver"}
    BY <1>0, <1>3, OmegaAssumption DEF Take, Move, MsgKind
  <2> QED BY <2>1, <2>2, AccountKept DEF Known, Holding, AccountInv
<1>4. CASE Directive(p)
  <2>1. /\ UNCHANGED <<replies, unheard, kills, seenFile, seen, hand>>
        /\ pc[p] \in {"directive", "pop", "popWrite"}
        /\ pc'[p] \in {"pop", "popWrite", "deliver", "failed"}
    BY <1>0, <1>4 DEF Directive, ReadLedger, PopTruncates, PopWrites, PopRaises, Move,
                     fileVars, ghostVars
  <2> QED BY <2>1, AccountKept DEF Known, Holding, AccountInv
<1>5. CASE Handled(p)
  <2>1. /\ UNCHANGED <<replies, unheard, kills, seenFile>> /\ pc[p] = "ack" /\ pc'[p] = "loop"
        /\ seen'[p] = seen[p] \cup {hand[p]}
    BY <1>0, <1>5 DEF Handled, Settled, Move, fileVars
  <2> QED BY <2>1, AccountKept DEF Known, Holding, AccountInv
<1>6. CASE Failed(p)
  <2>1. /\ UNCHANGED <<replies, unheard, kills, seenFile>> /\ pc[p] = "failed"
        /\ pc'[p] = "loop"
        /\ UNCHANGED seen \/ Settled(p, hand[p], "dropped")
    BY <1>0, <1>6, FailedFrame
  <2>2. seen[p] \subseteq seen'[p]
    BY <1>0, <2>1 DEF Settled
  <2> QED BY <2>1, <2>2, AccountKept DEF Known, Holding, AccountInv
<1>7. CASE SaveSeenTruncates(p)
  <2>1. /\ UNCHANGED <<replies, unheard, kills, seen, hand>> /\ seenFile'.exists
        /\ pc[p] \in {"loop", "arm"} /\ pc'[p] \in {"saveSeen", "armWrite"}
    BY <1>0, <1>7 DEF SaveSeenTruncates, Move, ghostVars
  <2> QED BY <2>1, AccountKept DEF Known, Holding, AccountInv
<1>8. CASE SaveSeenWrites(p)
  <2>1. /\ UNCHANGED <<replies, unheard, kills, hand>> /\ seenFile'.exists
        /\ seenFile'.ids = seen[p]
        /\ \/ pc[p] = "saveSeen" /\ pc'[p] = "saveAttempts" /\ seen' = seen
           \/ pc[p] = "armWrite" /\ pc'[p] = "idle"
    BY <1>0, <1>8 DEF SaveSeenWrites, Move, ghostVars
  <2> QED BY <2>1, AccountKept DEF Known, Holding, AccountInv
<1>9. CASE SaveAttemptsTruncates(p)
  <2>1. /\ UNCHANGED <<replies, unheard, kills, seenFile, seen, hand>>
        /\ pc[p] = "saveAttempts" /\ pc'[p] = "attemptsWrite"
    BY <1>0, <1>9 DEF SaveAttemptsTruncates, Move, ghostVars
  <2> QED BY <2>1, AccountKept DEF Known, Holding, AccountInv
<1>10. CASE SaveAttemptsWrites(p)
  <2>1. /\ UNCHANGED <<replies, unheard, kills, seenFile, hand>>
        /\ pc[p] = "attemptsWrite" /\ pc'[p] = "idle"
    BY <1>0, <1>10 DEF SaveAttemptsWrites, Move, ghostVars
  <2>2. Known(p) \subseteq Known(p)'
    BY <2>1 DEF Known, AccountInv
  <2> QED BY <2>1, <2>2, AccountKept DEF Known, Holding, AccountInv
<1> QED BY <1>1, <1>2, <1>3, <1>4, <1>5, <1>6, <1>7, <1>8, <1>9, <1>10 DEF SaveState

LEMMA AccountStep == OneProcess /\ TypeInv /\ AccountInv /\ [Next]_vars => AccountInv'
<1> SUFFICES ASSUME OneProcess, TypeInv, AccountInv, [Next]_vars PROVE AccountInv'
  OBVIOUS
<1>1. ASSUME UNCHANGED <<replies, unheard, kills, seenFile, pc, seen, hand>>
      PROVE  AccountInv'
  BY <1>1 DEF AccountInv, Known
<1>2. CASE UNCHANGED vars
  BY <1>1, <1>2 DEF vars, fileVars, procVars, ghostVars
<1>3. ASSUME NEW m \in Msg, Arrive(m) PROVE AccountInv'
  BY <1>1, <1>3 DEF Arrive, fileVars, procVars, ghostVars
<1>4. ASSUME NEW w \in Command, QueueWork(w) PROVE AccountInv'
  BY <1>1, <1>4 DEF QueueWork, QueueReads, QueueTruncates, QueueWrites, fileVars, procVars,
                   ghostVars
<1>5. ASSUME NEW p \in Proc, Kill(p) PROVE AccountInv'
  <2>1. /\ UNCHANGED <<replies, unheard, seenFile>> /\ kills' = kills + 1
        /\ pc' = [pc EXCEPT ![p] = "down"]
    BY <1>5 DEF Kill, fileVars, ghostVars
  <2>2. \A m \in Msg : replies'[m] <= kills' + unheard'[m]
    BY <2>1, ReplyNumbers DEF AccountInv
  <2>3. \A q \in Proc : q = p
    BY DEF OneProcess
  <2>4. \A m \in Msg : replies'[m] <= 1 + kills' + unheard'[m]
    BY <2>1, <2>2, ReplyNumbers
  <2>5. pc'[p] = "down"
    BY <2>1 DEF TypeInv, CoreType
  <2> QED BY <2>1, <2>2, <2>3, <2>4, <2>5 DEF AccountInv, Holding
<1> QED BY <1>2, <1>3, <1>4, <1>5, DeliverAccounts, CycleAccounts DEF Next, Serve

\* The mailbox may keep what was answered, files may be torn, yet a single process
\* answers again only what a kill or an unheard reply made it forget.
THEOREM AnswersAreAccounted == Spec => []AnswersAccounted
<1>1. Init => AccountInv
  BY DEF Init, AccountInv, Holding
<1>2. CASE OneProcess
  <2>1. TypeInv /\ AccountInv /\ [Next]_vars => (TypeInv /\ AccountInv)'
    BY <1>2, TypeInvStep, AccountStep
  <2>2. AccountInv => AnswersAccounted
    BY DEF AccountInv, AnswersAccounted
  <2> QED BY <1>1, <2>1, <2>2, InitTypeInv, PTL DEF Spec
<1>3. CASE ~ OneProcess
  <2>1. AnswersAccounted
    BY <1>3 DEF AnswersAccounted, OneProcess
  <2> QED BY <2>1, PTL
<1> QED BY <1>2, <1>3

-----------------------------------------------------------------------------
(* No work item is started twice. *)

WorkOf(i) == started[i].work

\* A queue whose items differ from each other and from all that were started.
Fresh(q) ==
  /\ IsInjective(q)
  /\ \A i \in DOMAIN q, j \in DOMAIN started : q[i] # WorkOf(j)

\* What is still queued is fresh, in the file or in the process that is between
\* reading it and writing it back.
WorkInv ==
  /\ \A i, j \in DOMAIN started : WorkOf(i) = WorkOf(j) => i = j
  /\ Fresh(ledger.queue)
  /\ \A p \in Proc : pc[p] = "pop" => led[p].queue = ledger.queue
  /\ \A p \in Proc : pc[p] = "popWrite" => Fresh(led[p].queue) /\ ledger.queue = <<>>

\* The queue without its top is as fresh, and does not hold it.
LEMMA TopLeaves ==
  ASSUME NEW q \in Seq(Work), q # <<>>, IsInjective(q)
  PROVE  /\ IsInjective(Tail(q))
         /\ \A i \in DOMAIN Tail(q) : \E k \in DOMAIN q : Tail(q)[i] = q[k] /\ k # 1
         /\ 1 \in DOMAIN q /\ Head(q) = q[1]
<1>1. /\ DOMAIN q = 1..Len(q) /\ Len(q) \in Nat /\ Len(q) # 0
      /\ DOMAIN Tail(q) = 1..(Len(q) - 1)
      /\ \A i \in 1..(Len(q) - 1) : Tail(q)[i] = q[i + 1]
      /\ Head(q) = q[1]
  OBVIOUS
<1>2. \A i \in DOMAIN Tail(q) : i + 1 \in DOMAIN q /\ Tail(q)[i] = q[i + 1] /\ i + 1 # 1
  BY <1>1
<1>3. \A i, j \in DOMAIN Tail(q) : i \in Int /\ j \in Int /\ (i + 1 = j + 1 => i = j)
  BY <1>1
<1>4. IsInjective(Tail(q))
  BY <1>2, <1>3 DEF IsInjective
<1> QED BY <1>1, <1>2, <1>4

\* A step that starts nothing keeps the invariant, if it leaves the ledger alone.
LEMMA WorkKept ==
  ASSUME WorkInv, UNCHANGED <<ledger, started>>,
         \A p \in Proc : /\ pc'[p] = "pop" => led'[p].queue = ledger.queue
                         /\ pc'[p] = "popWrite" => pc[p] = "popWrite" /\ led'[p] = led[p]
  PROVE  WorkInv'
<1>1. \A q : Fresh(q) => Fresh(q)'
  BY DEF Fresh, WorkOf
<1> QED BY <1>1 DEF WorkInv, WorkOf, Fresh

LEMMA DirectiveWorks ==
  ASSUME OneProcess, TypeInv, WorkInv, NEW p \in Proc, Directive(p)
  PROVE  WorkInv'
<1>0. /\ pc \in [Proc -> PC] /\ led \in [Proc -> Ledger] /\ ledger \in Ledger
      /\ started \in Seq([msg: Msg, work: Work])
  BY DEF TypeInv, CoreType, LedgerType
<1>1. \A q \in Proc : q = p
  BY DEF OneProcess
<1>2. CASE ReadLedger(p)
  <2>1. /\ UNCHANGED <<ledger, started>> /\ led'[p] = Loaded
        /\ pc'[p] = IF Loaded.queue = <<>> THEN "deliver" ELSE "pop"
    BY <1>0, <1>2 DEF ReadLedger, Move, ghostVars
  <2>2. pc'[p] = "pop" => led'[p].queue = ledger.queue
    BY <2>1, ConstantFacts
  <2> QED BY <1>1, <2>1, <2>2, WorkKept
<1>3. CASE PopRaises(p)
  <2>1. UNCHANGED <<ledger, started>> /\ pc'[p] = "failed"
    BY <1>0, <1>3 DEF PopRaises, Move, ghostVars
  <2> QED BY <1>1, <2>1, WorkKept
<1>4. CASE PopTruncates(p)
  <2>1. /\ UNCHANGED <<led, started>> /\ pc[p] = "pop" /\ pc'[p] = "popWrite"
        /\ ledger'.queue = <<>>
    BY <1>0, <1>4, ConstantFacts DEF PopTruncates, Move, ghostVars
  <2>2. Fresh(<<>>)' /\ Fresh(led[p].queue)'
    BY <2>1 DEF WorkInv, Fresh, WorkOf, IsInjective
  <2> QED BY <1>1, <2>1, <2>2 DEF WorkInv, Fresh, WorkOf
<1>5. CASE PopWrites(p)
  <2> DEFINE q == led[p].queue
  <2>1. /\ pc[p] = "popWrite" /\ pc'[p] = "deliver" /\ ledger'.queue = Tail(q)
        /\ started' = Append(started, [msg |-> hand[p], work |-> Head(q)])
    BY <1>0, <1>5 DEF PopWrites, Move
  <2>2. q \in Seq(Work) /\ q # <<>>
    BY <1>0, <2>1 DEF TypeInv, Hands, Ledger
  <2>3. Fresh(q)
    BY <2>1 DEF WorkInv
  <2> HIDE DEF q
  <2>4. /\ DOMAIN started = 1..Len(started) /\ Len(started) \in Nat
        /\ DOMAIN started' = 1..(Len(started) + 1)
        /\ \A i \in DOMAIN started : started'[i].work = started[i].work
        /\ started'[Len(started) + 1].work = Head(q)
    <3>1. [msg |-> hand[p], work |-> Head(q)] \in [msg: Msg, work: Work]
      BY <2>1, <2>2 DEF TypeInv, Hands, Holding
    <3>2. /\ \A i \in 1..Len(started) : started'[i] = started[i]
          /\ started'[Len(started) + 1] = [msg |-> hand[p], work |-> Head(q)]
          /\ DOMAIN started' = 1..(Len(started) + 1)
          /\ DOMAIN started = 1..Len(started) /\ Len(started) \in Nat
      BY <1>0, <2>1, <3>1
    <3> QED BY <3>2
  <2>5. /\ IsInjective(q) /\ IsInjective(Tail(q))
        /\ \A i \in DOMAIN Tail(q) : \E k \in DOMAIN q : Tail(q)[i] = q[k] /\ k # 1
        /\ 1 \in DOMAIN q /\ Head(q) = q[1]
    BY <2>2, <2>3, TopLeaves DEF Fresh
  <2>6. \A j \in DOMAIN started : started[j].work # Head(q)
    BY <2>3, <2>5 DEF Fresh, WorkOf
  <2>7. \A i \in DOMAIN Tail(q) : Tail(q)[i] # Head(q)
    BY <2>5 DEF IsInjective
  <2>8. \A i \in DOMAIN Tail(q), j \in DOMAIN started : Tail(q)[i] # started[j].work
    BY <2>3, <2>5 DEF Fresh, WorkOf
  <2>9. \A j \in DOMAIN started' : j \in DOMAIN started \/ j = Len(started) + 1
    BY <2>4
  <2>10. \A i, j \in DOMAIN started' : started'[i].work = started'[j].work => i = j
    <3>1. \A i, j \in DOMAIN started : started[i].work = started[j].work => i = j
      BY DEF WorkInv, WorkOf
    <3> QED BY <2>4, <2>6, <2>9, <3>1
  <2>11. \A i \in DOMAIN Tail(q), j \in DOMAIN started' : Tail(q)[i] # started'[j].work
    BY <2>4, <2>7, <2>8, <2>9
  <2>12. Fresh(ledger.queue)'
    BY <2>1, <2>5, <2>11 DEF Fresh, WorkOf
  <2> QED BY <1>1, <2>1, <2>10, <2>12 DEF WorkInv, WorkOf
<1> QED BY <1>2, <1>3, <1>4, <1>5 DEF Directive

LEMMA WorkStep ==
  ASSUME Command = {}, OneProcess, TypeInv, WorkInv, [Next]_vars
  PROVE  WorkInv'
<1>0. pc \in [Proc -> PC]
  BY DEF TypeInv, CoreType
<1>1. CASE UNCHANGED vars
  BY <1>1, WorkKept DEF vars, procVars, ghostVars, WorkInv
<1>2. ASSUME NEW m \in Msg, Arrive(m) PROVE WorkInv'
  BY <1>2, WorkKept DEF Arrive, procVars, ghostVars, WorkInv
<1>3. ASSUME NEW p \in Proc, Serve(p), ~ Directive(p) PROVE WorkInv'
  <2>1. UNCHANGED <<ledger, started, led>>
    BY <1>3, FailedFrame
       DEF Serve, ReadMailbox, LoadSeen, LoadAttempts, Take, Deliver, DeliverFallback, Handled,
           SaveState, SaveSeenTruncates, SaveSeenWrites, SaveAttemptsTruncates,
           SaveAttemptsWrites, ghostVars
  <2>2. \E to \in PC \ {"pop", "popWrite"} : pc' = [pc EXCEPT ![p] = to]
    BY <1>3, FailedFrame, OmegaAssumption
       DEF Serve, ReadMailbox, LoadSeen, LoadAttempts, Take, Deliver, DeliverFallback, Handled,
           SaveState, SaveSeenTruncates, SaveSeenWrites, SaveAttemptsTruncates,
           SaveAttemptsWrites, Move, PC, MsgKind
  <2> QED BY <1>0, <2>1, <2>2, WorkKept DEF WorkInv
<1>4. ASSUME NEW p \in Proc, Kill(p) \/ Restart(p) PROVE WorkInv'
  <2>1. /\ UNCHANGED <<ledger, started>> /\ pc'[p] \in {"down", "idle"}
        /\ \A q \in Proc : q # p => pc'[q] = pc[q] /\ led'[q] = led[q]
    BY <1>0, <1>4 DEF Kill, Restart, Move, ghostVars, TypeInv, LedgerType
  <2> QED BY <2>1, WorkKept DEF WorkInv
<1> QED BY <1>1, <1>2, <1>3, <1>4, DirectiveWorks DEF Next

\* However often directives are retried and the process is killed between any two
\* steps of consume_directive, a queued item is made active once.
THEOREM WorkIsStartedOnce == Spec => []WorkStartsOnce
<1>1. ASSUME IsInjective(InitQueue), Init PROVE WorkInv
  BY <1>1 DEF Init, WorkInv, Fresh, EmptyLedger
<1>2. WorkInv => WorkStartsOnce
  BY DEF WorkInv, WorkStartsOnce, WorkOf, IsInjective
<1>3. CASE Command = {} /\ OneProcess /\ IsInjective(InitQueue)
  <2>1. TypeInv /\ WorkInv /\ [Next]_vars => (TypeInv /\ WorkInv)'
    BY <1>3, TypeInvStep, WorkStep
  <2>2. Init => WorkInv
    BY <1>1, <1>3
  <2> QED BY <1>2, <2>1, <2>2, InitTypeInv, PTL DEF Spec
<1>4. CASE ~ (Command = {} /\ OneProcess /\ IsInjective(InitQueue))
  <2>1. WorkStartsOnce
    BY <1>4 DEF WorkStartsOnce
  <2> QED BY <2>1, PTL
<1> QED BY <1>3, <1>4

-----------------------------------------------------------------------------
(* One process implements the desk. *)

\* The process has read its count of failures.
Counting(p) == pc[p] \notin {"idle", "load", "arm", "armWrite", "attempts", "down"}

\* What is remembered was decided; a process in a cycle remembers no less than
\* its files, whatever it is writing; and there are no failures on record before
\* it has armed.
DeskOn(p) ==
  /\ \A m \in Known(p) : fate[m] # "open"
  /\ items[p] \subseteq arrived
  /\ pc[p] \notin {"idle", "load", "arm", "down"} => seenFile.exists
  /\ pc[p] \notin {"idle", "load", "down"} => seenFile.ids \subseteq seen[p]
  /\ Counting(p) => \A m \in Msg : m \notin seen[p] => attFile[m] <= att[p][m]
  /\ pc[p] = "arm" => ~ seenFile.exists /\ \A m \in seen[p] : fate[m] = "armed"
  /\ ~ seenFile.exists => \A m \in Msg : attFile[m] = 0

DeskInv == \A p \in Proc : DeskOn(p)

LEMMA DeskFacts ==
  ASSUME TypeInv
  PROVE  /\ kills \in Nat /\ MaxAttempts \in Nat \ {0}
         /\ fate \in [Msg -> Fate]
         /\ attFile \in [Msg -> 0..(MaxAttempts - 1)]
         /\ att \in [Proc -> [Msg -> 0..(MaxAttempts - 1)]]
         /\ pc \in [Proc -> PC] /\ items \in [Proc -> SUBSET Msg]
         /\ seen \in [Proc -> SUBSET Msg] /\ hand \in [Proc -> Msg \cup {NoMsg}]
         /\ mailbox \subseteq arrived /\ seenFile.ids \subseteq Msg
         /\ \A p \in Proc : pc[p] \in Holding => hand[p] \in Msg
BY ConstantFacts DEF TypeInv, CoreType, Hands

\* A step that leaves what the process remembers alone.
LEMMA DeskStutters ==
  ASSUME NEW p \in Proc, UNCHANGED <<arrived, fate, kills>>, Stage(p)' = Stage(p),
         Known(p)' = Known(p), \A m \in Msg : Failures(p, m)' = Failures(p, m)
  PROVE  UNCHANGED Desk(p)!vars
<1>1. Tried(p)' = Tried(p) /\ Decided(p)' = Decided(p)
  BY DEF Tried, Decided
<1> QED BY <1>1 DEF Desk!vars

-----------------------------------------------------------------------------
(* The cycle. *)

LEMMA DeskArms ==
  ASSUME TypeInv, AccountInv, DeskInv, NEW p \in Proc, LoadSeen(p)
  PROVE  DeskOn(p)' /\ [Desk(p)!Next]_(Desk(p)!vars)
<1>0. /\ pc[p] = "load" /\ DeskOn(p)
      /\ UNCHANGED <<arrived, seenFile, attFile, items, att, kills>>
  BY DeskFacts DEF LoadSeen, Move, fileVars, DeskInv
<1>1. CASE seenFile.exists
  <2>1. pc'[p] = "attempts" /\ seen'[p] = seenFile.ids /\ UNCHANGED fate
    BY <1>1, DeskFacts DEF LoadSeen, Move
  <2>2. Known(p)' = Known(p) /\ \A m \in Msg : Failures(p, m)' = Failures(p, m)
    BY <1>0, <2>1 DEF Known, Failures, Holding
  <2>3. UNCHANGED Desk(p)!vars
    BY <1>0, <1>1, <2>1, <2>2, DeskStutters DEF Stage
  <2>4. DeskOn(p)'
    BY <1>0, <1>1, <2>1, <2>2 DEF DeskOn, Counting
  <2> QED BY <2>3, <2>4
<1>2. CASE ~ seenFile.exists
  <2>1. /\ pc'[p] = "arm" /\ seen'[p] = items[p]
        /\ fate' = [m \in Msg |-> IF m \in items[p] THEN "armed" ELSE fate[m]]
    BY <1>2, DeskFacts DEF LoadSeen, Move
  <2>2. seenFile.ids = {} /\ (\A m \in Msg : attFile[m] = 0) /\ items[p] \subseteq arrived
    BY <1>0, <1>2 DEF AccountInv, DeskOn
  <2>3. Tried(p) = [m \in Msg |-> 0] /\ Tried(p)' = [m \in Msg |-> 0]
    BY <1>0, <2>1, <2>2 DEF Tried, Known, Failures, Holding
  <2>4. /\ Decided(p) = [m \in Msg |-> "open"]
        /\ Decided(p)' = [m \in Msg |-> IF m \in items[p] THEN "armed" ELSE "open"]
    BY <1>0, <2>1, <2>2 DEF Decided, Known
  <2>5. Decided(p)' = [m \in Msg |-> IF m \in items[p] THEN "armed" ELSE Decided(p)[m]]
    BY <2>4
  <2>6. Desk(p)!Arm
    <3>1. Stage(p) = "new" /\ Stage(p)' = "arming"
      BY <1>0, <1>2, <2>1 DEF Stage
    <3> QED BY <1>0, <2>2, <2>3, <2>5, <3>1 DEF Desk!Arm
  <2>7. \A m \in seen'[p] : fate'[m] = "armed"
    BY <2>1, DeskFacts
  <2>8. DeskOn(p)'
    BY <1>0, <1>2, <2>1, <2>2, <2>7 DEF DeskOn, Counting, Known
  <2> QED BY <2>6, <2>8 DEF Desk!Next
<1> QED BY <1>1, <1>2

LEMMA DeskTries ==
  ASSUME TypeInv, AccountInv, DeskInv, NEW p \in Proc, NEW n \in Msg, Take(p, n)
  PROVE  DeskOn(p)' /\ Desk(p)!Try(n)
<1>0. /\ pc[p] = "loop" /\ pc'[p] \in {"ack", "directive", "deliver"} /\ DeskOn(p)
      /\ n \in items[p] /\ n \notin seen[p] /\ items'[p] = items[p] \ {n} /\ hand'[p] = n
      /\ UNCHANGED <<arrived, seenFile, attFile, seen, att, fate, kills>>
  BY DeskFacts, OmegaAssumption DEF Take, Move, MsgKind, fileVars, DeskInv
<1>1. seenFile.exists /\ n \in arrived
  BY <1>0 DEF DeskOn
<1>2. Known(p)' = seen[p] /\ Known(p) = seen[p]
  BY <1>0 DEF Known
<1>3. Decided(p)' = Decided(p) /\ Decided(p)[n] = "open"
  BY <1>0, <1>2 DEF Decided
<1>4. /\ Tried(p) = [m \in Msg |-> IF m \in seen[p] THEN 0 ELSE att[p][m]]
      /\ Tried(p)' = [m \in Msg |-> IF m \in seen[p] THEN 0
                                    ELSE IF m = n THEN att[p][m] + 1 ELSE att[p][m]]
  <2>1. ASSUME NEW m \in Msg
        PROVE  /\ Failures(p, m) = att[p][m]
               /\ Failures(p, m)' = IF m = n THEN att[p][m] + 1 ELSE att[p][m]
    <3>1. att[p][m] \in Int
      BY DeskFacts
    <3> QED BY <1>0, <3>1 DEF Failures, Holding
  <2> QED BY <1>2, <2>1 DEF Tried
<1>5. Tried(p)' = [Tried(p) EXCEPT ![n] = Tried(p)[n] + 1] /\ Tried(p)[n] < MaxAttempts
  <2>1. Tried(p)[n] = att[p][n] /\ att[p][n] < MaxAttempts
    BY <1>0, <1>4, DeskFacts
  <2> QED BY <1>0, <1>4, <2>1
<1>6. Desk(p)!Try(n)
  BY <1>0, <1>1, <1>3, <1>5 DEF Desk!Try, Stage
<1>7. DeskOn(p)'
  BY <1>0, <1>2 DEF DeskOn, Counting
<1> QED BY <1>6, <1>7

\* What becomes of the message in hand.
LEMMA Decision ==
  ASSUME TypeInv, AccountInv, DeskInv, NEW p \in Proc, NEW m \in Msg, m = hand[p],
         Handled(p) \/ Failed(p)
  PROVE  /\ pc[p] \in {"ack", "failed"} /\ pc'[p] = "loop" /\ m \notin seen[p]
         /\ UNCHANGED <<arrived, seenFile, attFile, items, kills>>
         /\ \A n \in Msg : n # m => fate'[n] = fate[n] /\ att'[p][n] = att[p][n]
         /\ \/ seen'[p] = seen[p] \cup {m} /\ fate'[m] = "handled"
            \/ seen'[p] = seen[p] \cup {m} /\ fate'[m] = "dropped" /\ att[p][m] + 1 >= MaxAttempts
            \/ UNCHANGED <<seen, fate>> /\ att'[p][m] = att[p][m] + 1
<1>1. pc[p] \in {"ack", "failed"} /\ pc'[p] = "loop"
  BY FailedFrame, DeskFacts DEF Handled, Move
<1>2. UNCHANGED <<arrived, seenFile, attFile, items, kills>>
  BY FailedFrame DEF Handled, fileVars
<1>3. m \notin seen[p]
  BY <1>1 DEF Holding, AccountInv
<1>4. \/ Settled(p, m, "handled")
      \/ Settled(p, m, "dropped") /\ att[p][m] + 1 >= MaxAttempts
      \/ /\ att' = [att EXCEPT ![p] = [@ EXCEPT ![m] = att[p][m] + 1]]
         /\ UNCHANGED <<seen, fate>>
  BY FailedFrame DEF Handled
<1>5. ASSUME NEW what, Settled(p, m, what)
      PROVE  /\ seen'[p] = seen[p] \cup {m} /\ fate'[m] = what
             /\ \A n \in Msg : n # m => fate'[n] = fate[n] /\ att'[p][n] = att[p][n]
  BY <1>5, DeskFacts DEF Settled
<1>6. CASE /\ att' = [att EXCEPT ![p] = [@ EXCEPT ![m] = att[p][m] + 1]]
           /\ UNCHANGED <<seen, fate>>
  <2>1. \A n \in Msg : att'[p][n] = IF n = m THEN att[p][m] + 1 ELSE att[p][n]
    BY <1>6, DeskFacts
  <2> QED BY <1>1, <1>2, <1>3, <1>6, <2>1
<1> QED BY <1>1, <1>2, <1>3, <1>4, <1>5, <1>6

LEMMA DecisionKeeps ==
  ASSUME TypeInv, AccountInv, DeskInv, NEW p \in Proc, NEW m \in Msg, m = hand[p],
         Handled(p) \/ Failed(p)
  PROVE  DeskOn(p)'
<1>0. /\ pc[p] \in {"ack", "failed"} /\ pc'[p] = "loop" /\ DeskOn(p)
      /\ UNCHANGED <<arrived, seenFile, attFile, items>>
  BY Decision DEF DeskInv
<1>1. /\ seen[p] \subseteq seen'[p] /\ seen'[p] \subseteq seen[p] \cup {m}
      /\ \A n \in seen'[p] : fate'[n] # "open"
  <2>1. \A n \in seen[p] : fate[n] # "open"
    BY <1>0 DEF DeskOn, Known
  <2> QED BY <2>1, Decision, DeskFacts
<1>2. ASSUME NEW n \in Msg, n \notin seen'[p] PROVE attFile[n] <= att'[p][n]
  <2>1. attFile[n] <= att[p][n]
    BY <1>0, <1>1, <1>2 DEF DeskOn, Counting
  <2>2. att'[p][n] = att[p][n] \/ att'[p][n] = att[p][n] + 1
    BY <1>2, Decision
  <2> QED BY <2>1, <2>2, DeskFacts
<1> QED BY <1>0, <1>1, <1>2 DEF DeskOn, Known, Counting

LEMMA DeskDecides ==
  ASSUME TypeInv, TypeInv', AccountInv, DeskInv, NEW p \in Proc, Handled(p) \/ Failed(p)
  PROVE  [Desk(p)!Next]_(Desk(p)!vars)
<1> SUFFICES ASSUME NEW m \in Msg, m = hand[p]
             PROVE  [Desk(p)!Next]_(Desk(p)!vars)
  <2>1. hand[p] \in Msg
    BY FailedFrame, DeskFacts DEF Handled, Move, Holding
  <2> QED BY <2>1
<1>1. /\ pc[p] \in {"ack", "failed"} /\ pc'[p] = "loop" /\ m \notin seen[p]
      /\ UNCHANGED <<arrived, seenFile, attFile, kills>> /\ Stage(p)' = Stage(p)
  BY Decision DEF DeskInv, DeskOn, Stage
<1>2. Known(p) = seen[p] /\ Known(p)' = seen'[p]
  BY <1>1 DEF Known
<1>3. /\ Tried(p) = [n \in Msg |-> IF n \in seen[p] THEN 0
                                   ELSE IF n = m THEN att[p][n] + 1 ELSE att[p][n]]
      /\ Tried(p)' = [n \in Msg |-> IF n \in seen'[p] THEN 0 ELSE att'[p][n]]
  <2>1. ASSUME NEW n \in Msg
        PROVE  /\ Failures(p, n) = IF n = m THEN att[p][n] + 1 ELSE att[p][n]
               /\ Failures(p, n)' = att'[p][n]
    <3>1. att[p][n] \in Int
      BY DeskFacts
    <3>2. att'[p][n] \in Int
      BY ConstantFacts DEF TypeInv, CoreType
    <3> QED BY <1>1, <3>1, <3>2 DEF Failures, Holding
  <2> QED BY <1>2, <2>1 DEF Tried
<1>4. /\ Decided(p) = [n \in Msg |-> IF n \in seen[p] THEN fate[n] ELSE "open"]
      /\ Decided(p)' = [n \in Msg |-> IF n \in seen'[p] THEN fate'[n] ELSE "open"]
  BY <1>2 DEF Decided
<1>5. Decided(p)[m] = "open" /\ Tried(p)[m] = att[p][m] + 1
  BY <1>1, <1>3, <1>4
<1>6. \A n \in Msg : n # m => fate'[n] = fate[n] /\ att'[p][n] = att[p][n]
  BY Decision
<1>7. ASSUME NEW what, seen'[p] = seen[p] \cup {m}, fate'[m] = what
      PROVE  Desk(p)!Settle(m, what)
  <2>1. Tried(p)' = [Tried(p) EXCEPT ![m] = 0]
    BY <1>3, <1>6, <1>7
  <2>2. Decided(p)' = [Decided(p) EXCEPT ![m] = what]
    BY <1>4, <1>6, <1>7
  <2> QED BY <1>1, <1>5, <2>1, <2>2 DEF Desk!Settle
<1>8. CASE seen'[p] = seen[p] \cup {m} /\ fate'[m] = "handled"
  <2>1. Tried(p)[m] > 0
    BY <1>5, DeskFacts
  <2>2. Desk(p)!Handle(m)
    BY <1>7, <1>8, <2>1 DEF Desk!Handle
  <2> QED BY <2>2 DEF Desk!Next
<1>9. CASE seen'[p] = seen[p] \cup {m} /\ fate'[m] = "dropped" /\ att[p][m] + 1 >= MaxAttempts
  <2>1. Tried(p)[m] = MaxAttempts
    <3>1. att[p][m] \in Int /\ att[p][m] < MaxAttempts /\ MaxAttempts \in Int
      BY DeskFacts
    <3> QED BY <1>5, <1>9, <3>1
  <2>2. Desk(p)!Drop(m)
    BY <1>7, <1>9, <2>1 DEF Desk!Drop
  <2> QED BY <2>2 DEF Desk!Next
<1>10. CASE UNCHANGED <<seen, fate>> /\ att'[p][m] = att[p][m] + 1
  <2>1. Tried(p)' = Tried(p) /\ Decided(p)' = Decided(p)
    BY <1>1, <1>3, <1>4, <1>6, <1>10
  <2> QED BY <1>1, <2>1 DEF Desk!vars
<1> QED BY <1>8, <1>9, <1>10, Decision

\* The steps of a cycle that decide nothing.  The seen file of an arming cycle is
\* there as soon as it is truncated.
LEMMA DeskIdles ==
  ASSUME TypeInv, AccountInv, DeskInv, NEW p \in Proc,
         \/ ReadMailbox(p) \/ LoadAttempts(p) \/ Directive(p) \/ Deliver(p)
         \/ DeliverFallback(p) \/ SaveState(p) \/ Restart(p)
  PROVE  DeskOn(p)' /\ [Desk(p)!Next]_(Desk(p)!vars)
<1>k. DeskOn(p)
  BY DEF DeskInv
<1>1. CASE ReadMailbox(p) \/ Restart(p)
  <2>1. /\ UNCHANGED <<arrived, fate, kills, seenFile, attFile, att, hand>>
        /\ \/ pc[p] = "idle" /\ pc'[p] = "load"
           \/ pc[p] = "down" /\ pc'[p] = "idle"
        /\ items'[p] \in {items[p], mailbox}
    BY <1>1, DeskFacts DEF ReadMailbox, Restart, Move, fileVars, ghostVars
  <2>2. Known(p)' = Known(p) /\ \A m \in Msg : Failures(p, m)' = Failures(p, m)
    BY <2>1 DEF Known, Failures, Holding
  <2>3. items'[p] \subseteq arrived
    BY <1>k, <2>1, DeskFacts DEF DeskOn
  <2>4. DeskOn(p)'
    BY <1>k, <2>1, <2>2, <2>3 DEF DeskOn, Counting
  <2> QED BY <2>1, <2>2, <2>4, DeskStutters DEF Stage
<1>2. CASE LoadAttempts(p)
  <2>1. /\ UNCHANGED <<arrived, fate, kills, seenFile, attFile, seen, items, hand>>
        /\ pc[p] = "attempts" /\ pc'[p] = "loop" /\ att'[p] = attFile
    BY <1>2, DeskFacts DEF LoadAttempts, Move, fileVars, ghostVars
  <2>2. Known(p)' = Known(p) /\ \A m \in Msg : Failures(p, m)' = Failures(p, m)
    BY <2>1 DEF Known, Failures, Holding
  <2>3. \A m \in Msg : attFile[m] <= att'[p][m]
    BY <2>1, DeskFacts
  <2>4. DeskOn(p)'
    BY <1>k, <2>1, <2>2, <2>3 DEF DeskOn, Counting
  <2> QED BY <2>1, <2>2, <2>4, DeskStutters DEF Stage
<1>3. CASE Directive(p) \/ Deliver(p) \/ DeliverFallback(p)
  <2>1. UNCHANGED <<arrived, fate, kills, seenFile, attFile, seen, items, att, hand>>
    BY <1>3 DEF Directive, ReadLedger, PopTruncates, PopWrites, PopRaises, Deliver,
                DeliverFallback, fileVars, ghostVars
  <2>2. pc[p] \in Holding /\ pc'[p] \in Holding
    <3>1. CASE Directive(p)
      BY <3>1, DeskFacts
         DEF Directive, ReadLedger, PopTruncates, PopWrites, PopRaises, Move, Holding
    <3>2. CASE Deliver(p) \/ DeliverFallback(p)
      BY <3>2, DeskFacts DEF Deliver, DeliverFallback, Move, Holding
    <3> QED BY <1>3, <3>1, <3>2
  <2>3. Known(p)' = Known(p) /\ \A m \in Msg : Failures(p, m)' = Failures(p, m)
    BY <2>1, <2>2 DEF Known, Failures, Holding
  <2>4. DeskOn(p)'
    BY <1>k, <2>1, <2>2, <2>3 DEF DeskOn, Counting, Holding
  <2> QED BY <2>1, <2>2, <2>3, <2>4, DeskStutters DEF Stage, Holding
<1>4. CASE SaveSeenTruncates(p)
  <2>1. /\ UNCHANGED <<arrived, fate, kills, attFile, seen, items, att, hand>>
        /\ seenFile'.exists /\ seenFile'.ids = {}
        /\ \/ pc[p] = "loop" /\ pc'[p] = "saveSeen"
           \/ pc[p] = "arm" /\ pc'[p] = "armWrite"
    BY <1>4, DeskFacts DEF SaveSeenTruncates, Move, ghostVars
  <2>2. Known(p)' = Known(p) /\ \A m \in Msg : Failures(p, m)' = Failures(p, m)
    BY <2>1 DEF Known, Failures, Holding
  <2>3. DeskOn(p)'
    BY <1>k, <2>1, <2>2 DEF DeskOn, Counting
  <2>4. CASE pc[p] = "loop"
    BY <1>k, <2>1, <2>2, <2>3, <2>4, DeskStutters DEF Stage, DeskOn
  <2>5. CASE pc[p] = "arm"
    <3>1. Stage(p) = "arming" /\ Stage(p)' = "armed"
      BY <1>k, <2>1, <2>5 DEF Stage, DeskOn
    <3>2. Tried(p)' = Tried(p) /\ Decided(p)' = Decided(p)
      BY <2>1, <2>2 DEF Tried, Decided
    <3>3. Desk(p)!Record
      BY <2>1, <3>1, <3>2 DEF Desk!Record
    <3> QED BY <2>3, <3>3 DEF Desk!Next
  <2> QED BY <2>1, <2>4, <2>5
<1>5. CASE SaveSeenWrites(p)
  <2>1. /\ UNCHANGED <<arrived, fate, kills, attFile, hand>>
        /\ seenFile'.exists /\ seenFile'.ids = seen[p]
        /\ \/ pc[p] = "saveSeen" /\ pc'[p] = "saveAttempts" /\ UNCHANGED <<items, seen, att>>
           \/ pc[p] = "armWrite" /\ pc'[p] = "idle" /\ items'[p] = {}
    BY <1>5, DeskFacts DEF SaveSeenWrites, LeaveCycle, Move, ghostVars
  <2>2. Known(p)' = Known(p) /\ \A m \in Msg : Failures(p, m)' = Failures(p, m)
    BY <2>1 DEF Known, Failures, Holding
  <2>3. DeskOn(p)'
    BY <1>k, <2>1, <2>2 DEF DeskOn, Counting
  <2> QED BY <1>k, <2>1, <2>2, <2>3, DeskStutters DEF Stage, DeskOn
<1>6. CASE SaveAttemptsTruncates(p)
  <2>1. /\ UNCHANGED <<arrived, fate, kills, seenFile, seen, items, att, hand>>
        /\ pc[p] = "saveAttempts" /\ pc'[p] = "attemptsWrite" /\ attFile' = NoAttempts
    BY <1>6, DeskFacts DEF SaveAttemptsTruncates, Move, ghostVars
  <2>2. Known(p)' = Known(p) /\ \A m \in Msg : Failures(p, m)' = Failures(p, m)
    BY <2>1 DEF Known, Failures, Holding
  <2>3. \A m \in Msg : attFile'[m] = 0 /\ att[p][m] \in Nat
    BY <2>1, DeskFacts DEF NoAttempts
  <2>4. DeskOn(p)'
    BY <1>k, <2>1, <2>2, <2>3 DEF DeskOn, Counting
  <2> QED BY <2>1, <2>2, <2>4, DeskStutters DEF Stage
<1>7. CASE SaveAttemptsWrites(p)
  <2>1. /\ UNCHANGED <<arrived, fate, kills, seenFile, hand>>
        /\ pc[p] = "attemptsWrite" /\ pc'[p] = "idle" /\ attFile' = att[p]
        /\ items'[p] = {} /\ seenFile.ids = seen[p]
    BY <1>7, DeskFacts DEF SaveAttemptsWrites, LeaveCycle, Move, ghostVars, AccountInv
  <2>2. Known(p)' = Known(p) /\ \A m \in Msg : Failures(p, m)' = Failures(p, m)
    BY <2>1 DEF Known, Failures, Holding
  <2>3. DeskOn(p)'
    BY <1>k, <2>1, <2>2 DEF DeskOn, Counting
  <2> QED BY <2>1, <2>2, <2>3, DeskStutters DEF Stage
<1> QED BY <1>1, <1>2, <1>3, <1>4, <1>5, <1>6, <1>7 DEF SaveState

-----------------------------------------------------------------------------
(* A kill between any two steps forgets, and makes nothing up. *)

LEMMA DeskCrashes ==
  ASSUME TypeInv, AccountInv, DeskInv, NEW p \in Proc, Kill(p)
  PROVE  DeskOn(p)' /\ Desk(p)!Crash
<1>0. /\ pc'[p] = "down" /\ kills' = kills + 1 /\ items'[p] = {} /\ DeskOn(p)
      /\ UNCHANGED <<arrived, seenFile, attFile, fate>>
  BY DeskFacts DEF Kill, LeaveCycle, fileVars, ghostVars, DeskInv
<1>1. Known(p)' = seenFile.ids /\ seenFile.ids \subseteq Known(p)
  BY <1>0 DEF Known, DeskOn
<1>2. /\ Tried(p)' = [m \in Msg |-> IF m \in seenFile.ids THEN 0 ELSE attFile[m]]
      /\ Decided(p)' = [m \in Msg |-> IF m \in seenFile.ids THEN fate[m] ELSE "open"]
  <2>1. ASSUME NEW m \in Msg PROVE Failures(p, m)' = attFile[m]
    <3>1. attFile[m] \in Int
      BY DeskFacts
    <3> QED BY <1>0, <3>1 DEF Failures, Holding
  <2> QED BY <1>0, <1>1, <2>1 DEF Tried, Decided
<1>3. Tried(p)' \in [Msg -> 0..(MaxAttempts - 1)] /\ Decided(p)' \in [Msg -> Fate]
  BY <1>2, DeskFacts DEF Fate
<1>4. ASSUME NEW m \in Msg
      PROVE  /\ Decided(p)'[m] \in {Decided(p)[m], "open"}
             /\ Decided(p)'[m] # "open" => Tried(p)'[m] = 0
             /\ Decided(p)[m] = "open" => Tried(p)'[m] <= Tried(p)[m]
  <2>1. /\ Decided(p)'[m] = IF m \in seenFile.ids THEN fate[m] ELSE "open"
        /\ Decided(p)[m] = IF m \in Known(p) THEN fate[m] ELSE "open"
        /\ Tried(p)'[m] = IF m \in seenFile.ids THEN 0 ELSE attFile[m]
        /\ Tried(p)[m] = IF m \in Known(p) THEN 0 ELSE Failures(p, m)
    BY <1>2 DEF Decided, Tried
  <2>2. ASSUME m \notin Known(p) PROVE attFile[m] <= Failures(p, m)
    <3>1. Counting(p) => attFile[m] <= att[p][m]
      BY <1>0, <2>2 DEF DeskOn, Known, Counting
    <3>2. attFile[m] \in Int /\ att[p][m] \in Int
      BY DeskFacts
    <3> QED BY <3>1, <3>2 DEF Failures, Counting
  <2>3. m \in Known(p) => fate[m] # "open"
    BY <1>0 DEF DeskOn
  <2> QED BY <1>1, <2>1, <2>2, <2>3
<1>5. /\ Stage(p)' \in IF Stage(p) = "arming" THEN {"new", "armed"} ELSE {Stage(p)}
      /\ Stage(p)' = "new" => Decided(p)' = [m \in Msg |-> "open"]
  <2>1. CASE seenFile.exists
    <3>1. Stage(p) = "armed" /\ Stage(p)' = "armed"
      BY <1>0, <2>1 DEF Stage
    <3> QED BY <3>1
  <2>2. CASE ~ seenFile.exists
    <3>1. Stage(p) \in {"new", "arming"} /\ Stage(p)' = "new"
      BY <1>0, <2>2 DEF Stage
    <3>2. seenFile.ids = {}
      BY <2>2 DEF AccountInv
    <3>3. Decided(p)' = [m \in Msg |-> "open"]
      BY <1>2, <3>2
    <3> QED BY <3>1, <3>3
  <2> QED BY <2>1, <2>2
<1>6. Desk(p)!Crash
  BY <1>0, <1>3, <1>4, <1>5 DEF Desk!Crash, Desk!Fate, Fate
<1>7. DeskOn(p)'
  <2>1. \A m \in seenFile.ids : fate[m] # "open"
    BY <1>0, <1>1 DEF DeskOn
  <2> QED BY <1>0, <1>1, <2>1 DEF DeskOn, Counting
<1> QED BY <1>6, <1>7

LEMMA DeskStep ==
  ASSUME OneProcess, TypeInv, TypeInv', AccountInv, DeskInv, [Next]_vars
  PROVE  DeskInv' /\ \A p \in Proc : [Desk(p)!Next]_(Desk(p)!vars)
<1>0. ASSUME NEW p \in Proc, NEW q \in Proc PROVE p = q
  BY DEF OneProcess
<1>1. ASSUME UNCHANGED <<fate, kills, seenFile, attFile, pc, seen, items, att, hand>>,
             arrived \subseteq arrived', NEW p \in Proc
      PROVE  DeskOn(p)' /\ UNCHANGED <<Tried(p), Decided(p), Stage(p)>>
  <2>1. Known(p)' = Known(p) /\ \A m \in Msg : Failures(p, m)' = Failures(p, m)
    BY <1>1 DEF Known, Failures
  <2>2. DeskOn(p)'
    BY <1>1, <2>1 DEF DeskInv, DeskOn, Counting
  <2> QED BY <1>1, <2>1, <2>2 DEF Tried, Decided, Stage
<1>2. ASSUME NEW p \in Proc, UNCHANGED vars \/ \E w \in Command : QueueWork(w)
      PROVE  DeskOn(p)' /\ UNCHANGED Desk(p)!vars
  <2>1. UNCHANGED <<arrived, fate, kills, seenFile, attFile, pc, seen, items, att, hand>>
    BY <1>2 DEF vars, QueueWork, QueueReads, QueueTruncates, QueueWrites,
                fileVars, procVars, ghostVars
  <2> QED BY <1>1, <2>1 DEF Desk!vars
<1>3. ASSUME NEW p \in Proc, NEW m \in Msg, Arrive(m)
      PROVE  DeskOn(p)' /\ Desk(p)!Arrive(m)
  <2>1. /\ UNCHANGED <<fate, kills, seenFile, attFile, pc, seen, items, att, hand>>
        /\ arrived' = arrived \cup {m} /\ m \notin arrived
    BY <1>3 DEF Arrive, fileVars, procVars, ghostVars
  <2> QED BY <1>1, <2>1 DEF Desk!Arrive
<1>4. ASSUME NEW p \in Proc PROVE DeskOn(p)' /\ [Desk(p)!Next]_(Desk(p)!vars)
  <2>1. ASSUME Serve(p) PROVE DeskOn(p)' /\ [Desk(p)!Next]_(Desk(p)!vars)
    <3>1. ASSUME NEW m \in Msg, Take(p, m) PROVE DeskOn(p)' /\ [Desk(p)!Next]_(Desk(p)!vars)
      BY <3>1, DeskTries DEF Desk!Next
    <3>2. CASE Handled(p) \/ Failed(p)
      <4>1. hand[p] \in Msg
        BY <3>2, FailedFrame, DeskFacts DEF Handled, Move, Holding
      <4> QED BY <3>2, <4>1, DecisionKeeps, DeskDecides
    <3>3. CASE \/ ReadMailbox(p) \/ LoadAttempts(p) \/ Directive(p) \/ Deliver(p)
               \/ DeliverFallback(p) \/ SaveState(p)
      BY <3>3, DeskIdles
    <3>4. CASE LoadSeen(p)
      BY <3>4, DeskArms
    <3> QED BY <2>1, <3>1, <3>2, <3>3, <3>4 DEF Serve
  <2>2. ASSUME Kill(p) PROVE DeskOn(p)' /\ [Desk(p)!Next]_(Desk(p)!vars)
    BY <2>2, DeskCrashes DEF Desk!Next
  <2>3. ASSUME Restart(p) PROVE DeskOn(p)' /\ [Desk(p)!Next]_(Desk(p)!vars)
    BY <2>3, DeskIdles
  <2>4. \/ UNCHANGED vars \/ (\E w \in Command : QueueWork(w)) \/ (\E m \in Msg : Arrive(m))
        \/ Serve(p) \/ Kill(p) \/ Restart(p)
    BY <1>0 DEF Next
  <2>5. ASSUME NEW m \in Msg, Arrive(m) PROVE DeskOn(p)' /\ [Desk(p)!Next]_(Desk(p)!vars)
    BY <1>3, <2>5 DEF Desk!Next
  <2> QED BY <1>2, <2>1, <2>2, <2>3, <2>4, <2>5
<1> QED BY <1>4 DEF DeskInv

\* A single process does what the desk promises, killed between any two steps: it
\* sets aside what the first poll finds, tries the rest MaxAttempts times at most,
\* drops after exactly so many, and never touches what it remembers as settled; a
\* kill, files half written included, only makes it forget (serve_once).
THEOREM PollerImplementsDesk == Spec => DeskSpec
<1>1. Init => \A p \in Proc : Desk(p)!Init
  BY DEF Init, Desk!Init, Stage, Tried, Decided, Known, Failures, NoAttempts, Holding
<1>2. CASE OneProcess
  <2>1. Init => AccountInv /\ DeskInv
    BY DEF Init, AccountInv, DeskInv, DeskOn, Counting, Known, Holding, NoAttempts
  <2>2. TypeInv /\ AccountInv /\ DeskInv /\ [Next]_vars
          => /\ (TypeInv /\ AccountInv /\ DeskInv)'
             /\ [OneProcess => \A p \in Proc : [Desk(p)!Next]_(Desk(p)!vars)]_vars
    BY <1>2, TypeInvStep, AccountStep, DeskStep
  <2> QED BY <1>1, <2>1, <2>2, InitTypeInv, PTL DEF Spec, DeskSpec
<1>3. CASE ~ OneProcess
  <2>1. [Next]_vars => [OneProcess => \A p \in Proc : [Desk(p)!Next]_(Desk(p)!vars)]_vars
    BY <1>3
  <2> QED BY <1>1, <2>1, PTL DEF Spec, DeskSpec
<1> QED BY <1>2, <1>3
=============================================================================
