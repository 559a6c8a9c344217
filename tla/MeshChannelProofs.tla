------------------------- MODULE MeshChannelProofs -------------------------
(***************************************************************************)
(* Proofs about MeshChannel, for any peers and mail, any window, any file   *)
(* torn and any number of kills between any two steps of the two threads.   *)
(***************************************************************************)
EXTENDS MeshChannel, FiniteSetTheorems, TLAPS

FileType ==
  /\ seenFile \in [exists: BOOLEAN, ids: SUBSET Item]
  /\ peersFile \in [readable: BOOLEAN, ids: Ids]
  /\ pendFile \in [Peer -> Owners \cup {None}]

MemoryType ==
  /\ inbox \in Seq(Item)
  /\ seen \subseteq Item
  /\ peers \in Ids
  /\ pending \in [Peer -> Owners \cup {None}]
  /\ first \in BOOLEAN

ThreadType ==
  /\ pc \in PC
  /\ todo \in Seq(Item)
  /\ cur \in Item \cup {None}
  /\ owed \in Owners \cup {None}
  /\ chat \in [Ask -> {"new", "save", "mail", "asked", "failed"}]
  /\ ask \in Ask \cup {None}

GhostType ==
  /\ kills \in 0..MaxKills
  /\ enqueued \in [Mail -> 0..(MaxKills + 2)]
  /\ handed \subseteq Peer \X (1..Cardinality(Peer))
  /\ armed \subseteq Item
  /\ told \subseteq Owners \X Mail
  /\ missed \subseteq Mail
  /\ forgotten \subseteq Owners

\* What is in hand is mail that is marked seen, an owner to be told is known,
\* and mail is enqueued under a chat id.
Hands ==
  /\ InHand => cur \in Mail /\ cur \in seen
  /\ pc \in {"pendSave", "notify"} => owed \in Owners
  /\ pc \in {"idSave", "enqueue"} => peers[FromPeer[cur]] # 0

TypeInv == FileType /\ MemoryType /\ ThreadType /\ GhostType /\ Hands

LEMMA TypeInvIsTypeOK == TypeInv => TypeOK
BY DEF TypeInv, FileType, MemoryType, ThreadType, GhostType, TypeOK

LEMMA ConstantFacts ==
  /\ IsFiniteSet(Peer) /\ Cardinality(Peer) \in Nat
  /\ FromPeer \in [Mail -> Peer] /\ ToPeer \in [Ask -> Peer]
  /\ \A a \in Ask : Owner[a] \in Owners
  /\ Window \in Nat \ {0} /\ MaxKills \in Nat
  /\ NoPeers \in Ids /\ NoPending \in [Peer -> Owners \cup {None}]
  /\ Mail \subseteq Item /\ Ask \subseteq Item /\ None \notin Item
  /\ Ids = [Peer -> 0..Cardinality(Peer)]
<1>1. IsFiniteSet(Peer) /\ Cardinality(Peer) \in Nat
  BY MeshAssumption, FS_CardinalityType
<1> QED BY <1>1, MeshAssumption DEF Owners, Item, Ids, NoPeers, NoPending, None

\* The number of known peers, and what one more adds to it.
LEMMA KnownCard ==
  ASSUME NEW ids \in Ids
  PROVE  /\ Cardinality(Known(ids)) \in 0..Cardinality(Peer)
         /\ \A p \in Peer : ids[p] = 0 =>
              LET new == [ids EXCEPT ![p] = Cardinality(Known(ids)) + 1] IN
              /\ Cardinality(Known(ids)) + 1 \in 1..Cardinality(Peer)
              /\ Cardinality(Known(new)) = Cardinality(Known(ids)) + 1
<1>1. Known(ids) \subseteq Peer
  BY DEF Known
<1>2. /\ IsFiniteSet(Known(ids)) /\ Cardinality(Known(ids)) \in Nat
      /\ Cardinality(Known(ids)) <= Cardinality(Peer)
  BY <1>1, ConstantFacts, FS_Subset, FS_CardinalityType
<1>3. ASSUME NEW p \in Peer, ids[p] = 0
      PROVE  LET new == [ids EXCEPT ![p] = Cardinality(Known(ids)) + 1] IN
             /\ Cardinality(Known(ids)) + 1 \in 1..Cardinality(Peer)
             /\ Cardinality(Known(new)) = Cardinality(Known(ids)) + 1
  <2> DEFINE n == Cardinality(Known(ids)) + 1
             new == [ids EXCEPT ![p] = n]
  <2>1. p \notin Known(ids)
    BY <1>3 DEF Known
  <2>2. n # 0 /\ n \in Nat
    BY <1>2
  <2>3. Known(new) = Known(ids) \cup {p}
    BY <2>1, <2>2 DEF Known, Ids
  <2>4. Cardinality(Known(ids) \cup {p}) = n
    BY <1>2, <2>1, FS_AddElement
  <2>5. Known(ids) \cup {p} \subseteq Peer
    BY <1>1
  <2>6. n <= Cardinality(Peer)
    BY <2>4, <2>5, ConstantFacts, FS_Subset
  <2>7. n \in 1..Cardinality(Peer)
    BY <1>2, <2>6, ConstantFacts
  <2>8. Cardinality(Known(new)) = n
    BY <2>3, <2>4
  <2> QED BY <2>7, <2>8
<1> QED BY <1>2, <1>3, ConstantFacts

LEMMA EntriesType ==
  ASSUME NEW dict \in [Peer -> Owners \cup {None}]
  PROVE  Entries(dict) \subseteq Owners
BY DEF Entries

LEMMA InitTypeInv == Init => TypeInv
<1> SUFFICES ASSUME Init PROVE TypeInv
  OBVIOUS
<1>1. FileType
  BY ConstantFacts DEF Init, FileType
<1>2. MemoryType
  BY ConstantFacts DEF Init, MemoryType
<1>3. ThreadType
  BY ConstantFacts DEF Init, ThreadType, PC
<1>4. GhostType
  BY ConstantFacts DEF Init, GhostType
<1>5. Hands
  BY DEF Init, Hands, InHand
<1> QED BY <1>1, <1>2, <1>3, <1>4, <1>5 DEF TypeInv

LEMMA NewestType ==
  ASSUME inbox \in Seq(Item)
  PROVE  Newest \in Seq(Item) /\ {Newest[i] : i \in DOMAIN Newest} \subseteq Item
<1>1. CASE Len(inbox) <= Window
  BY <1>1 DEF Newest
<1>2. CASE ~ (Len(inbox) <= Window)
  <2>1. Len(inbox) \in Nat /\ Len(inbox) - Window + 1 \in 1..Len(inbox)
    BY <1>2, ConstantFacts
  <2>2. SubSeq(inbox, Len(inbox) - Window + 1, Len(inbox)) \in Seq(Item)
    BY <2>1
  <2> QED BY <1>2, <2>2 DEF Newest
<1> QED BY <1>1, <1>2

\* The types are kept, action by action.
LEMMA ArriveType ==
  ASSUME TypeInv, NEW m \in Mail, Arrive(m)
  PROVE  TypeInv'
<1>1. inbox' \in Seq(Item)
  BY ConstantFacts DEF Arrive, TypeInv, MemoryType
<1> QED BY <1>1 DEF Arrive, TypeInv, FileType, MemoryType, ThreadType, GhostType, Hands,
     InHand, diskVars, pollVars, chatVars, ghostVars

LEMMA PendLoadType ==
  ASSUME TypeInv, PendLoad
  PROVE  TypeInv'
<1>1. pending' \in [Peer -> Owners \cup {None}]
  BY DEF PendLoad, TypeInv, MemoryType, FileType
<1> QED BY <1>1 DEF PendLoad, Move, TypeInv, FileType, MemoryType, ThreadType, GhostType,
     Hands, InHand, PC, diskVars, chatVars, ghostVars

LEMMA ListType ==
  ASSUME TypeInv, List
  PROVE  TypeInv'
<1>1. todo' \in Seq(Item) /\ seen' \subseteq Item /\ armed' \subseteq Item /\ first' \in BOOLEAN
  BY NewestType DEF List, TypeInv, MemoryType, GhostType
<1>2. pc = "list" /\ pc' \in {"arm", "loop"}
  BY DEF List, Move
<1> QED BY <1>1, <1>2 DEF List, TypeInv, FileType, MemoryType, ThreadType, GhostType,
     Hands, InHand, PC, diskVars, chatVars

LEMMA EndOfCycleType ==
  ASSUME TypeInv, ListFails \/ FetchFails \/ EndCycle
  PROVE  TypeInv'
<1>1. CASE ListFails \/ EndCycle
  BY <1>1 DEF ListFails, EndCycle, Move, TypeInv, FileType, MemoryType, ThreadType,
     GhostType, Hands, InHand, PC, diskVars, chatVars, ghostVars
<1>2. CASE FetchFails
  <2>1. missed' \subseteq Mail
    BY <1>2 DEF FetchFails, Move, TypeInv, GhostType, Hands, InHand
  <2> QED BY <1>2, <2>1 DEF FetchFails, Move, TypeInv, FileType, MemoryType, ThreadType,
       GhostType, Hands, InHand, PC, diskVars, chatVars
<1> QED BY <1>1, <1>2

LEMMA SaveType ==
  ASSUME TypeInv, Save
  PROVE  TypeInv'
<1>1. FileType'
  BY DEF Save, WriteState, TypeInv, FileType, MemoryType
<1>2. pc' \in PC /\ (InHand' => pc = "idSave" /\ pc' = "enqueue")
  BY DEF Save, Move, PC, InHand
<1> QED BY <1>1, <1>2 DEF Save, TypeInv, MemoryType, ThreadType, GhostType, Hands,
     InHand, chatVars, ghostVars

LEMMA TakeNextType ==
  ASSUME TypeInv, TakeNext
  PROVE  TypeInv'
<1>1. todo \in Seq(Item) /\ todo # <<>> /\ pc = "loop"
  BY DEF TakeNext, Move, TypeInv, ThreadType
<1>2. Head(todo) \in Item /\ Tail(todo) \in Seq(Item)
  BY <1>1
<1>3. CASE Head(todo) \in seen
  BY <1>1, <1>2, <1>3 DEF TakeNext, Move, TypeInv, FileType, MemoryType, ThreadType,
     GhostType, Hands, InHand, PC, diskVars, chatVars, ghostVars
<1>4. CASE Head(todo) \notin seen
  <2>1. /\ seen' = seen \cup {Head(todo)} /\ cur' = Head(todo) /\ todo' = Tail(todo)
        /\ pc' = "skip" \/ (pc' = "fetch" /\ Head(todo) \in Mail)
        /\ UNCHANGED <<inbox, diskVars, peers, pending, first, owed, chatVars, kills,
                       ghostVars>>
    BY <1>4 DEF TakeNext, Move
  <2>2. seen' \subseteq Item /\ cur' \in Item /\ cur' \in seen' /\ todo' \in Seq(Item)
    BY <1>2, <2>1 DEF TypeInv, MemoryType
  <2> QED BY <2>1, <2>2 DEF TypeInv, FileType, MemoryType, ThreadType, GhostType, Hands,
       InHand, PC, diskVars, chatVars, ghostVars
<1> QED BY <1>3, <1>4

LEMMA FetchType ==
  ASSUME TypeInv, Fetch
  PROVE  TypeInv'
<1>1. pc = "fetch" /\ cur \in Mail /\ cur \in seen /\ FromPeer[cur] \in Peer
  BY ConstantFacts DEF Fetch, TypeInv, Hands, InHand
<1>2. /\ UNCHANGED <<inbox, diskVars, seen, peers, first, todo, cur, chatVars, kills,
                     ghostVars>>
      /\ \/ /\ pc' = "pendSave" /\ pending[FromPeer[cur]] # None
            /\ owed' = pending[FromPeer[cur]]
            /\ pending' = [pending EXCEPT ![FromPeer[cur]] = None]
         \/ pc' = "id" /\ UNCHANGED <<owed, pending>>
  BY DEF Fetch, Move
<1>3. /\ pending' \in [Peer -> Owners \cup {None}]
      /\ owed' \in Owners \cup {None}
      /\ pc' = "pendSave" => owed' \in Owners
      /\ pc' \in {"pendSave", "id"}
  BY <1>1, <1>2 DEF TypeInv, MemoryType, ThreadType
<1> QED BY <1>1, <1>2, <1>3 DEF TypeInv, FileType, MemoryType, ThreadType, GhostType,
     Hands, InHand, PC, diskVars, chatVars, ghostVars

LEMMA PendSaveType ==
  ASSUME TypeInv, PendSave
  PROVE  TypeInv'
BY DEF PendSave, Move, TypeInv, FileType, MemoryType, ThreadType, GhostType,
   Hands, InHand, PC, chatVars, ghostVars

LEMMA NotifyType ==
  ASSUME TypeInv, Notify
  PROVE  TypeInv'
<1>1. pc = "notify" /\ pc' = "id" /\ cur \in Mail /\ owed \in Owners
  BY DEF Notify, Move, TypeInv, Hands, InHand
<1>2. told' \subseteq Owners \X Mail /\ forgotten' \subseteq Owners /\ owed' = None
  BY <1>1 DEF Notify, TypeInv, GhostType
<1> QED BY <1>1, <1>2 DEF Notify, TypeInv, FileType, MemoryType, ThreadType, GhostType,
     Hands, InHand, PC, diskVars, chatVars

LEMMA PeerIdType ==
  ASSUME TypeInv, PeerId
  PROVE  TypeInv'
<1>1. /\ pc = "id" /\ cur \in Mail /\ cur \in seen /\ FromPeer[cur] \in Peer
      /\ UNCHANGED <<inbox, diskVars, seen, pending, first, todo, cur, owed, chatVars,
                     kills, ghostVars>>
  BY ConstantFacts DEF PeerId, TypeInv, Hands, InHand
<1>2. peers' \in Ids /\ pc' \in {"enqueue", "idSave"} /\ peers'[FromPeer[cur]] # 0
  <2>1. CASE peers[FromPeer[cur]] # 0
    BY <2>1 DEF PeerId, Move, TypeInv, MemoryType
  <2>2. CASE peers[FromPeer[cur]] = 0
    <3>1. /\ pc' = "idSave"
          /\ peers' = [peers EXCEPT ![FromPeer[cur]] = Cardinality(Known(peers)) + 1]
      BY <2>2 DEF PeerId, Move
    <3>2. Cardinality(Known(peers)) + 1 \in 1..Cardinality(Peer)
      BY <1>1, <2>2, KnownCard DEF TypeInv, MemoryType
    <3> QED BY <1>1, <3>1, <3>2, ConstantFacts DEF TypeInv, MemoryType
  <2> QED BY <2>1, <2>2
<1> QED BY <1>1, <1>2 DEF TypeInv, FileType, MemoryType, ThreadType, GhostType,
     Hands, InHand, PC, diskVars, chatVars, ghostVars

LEMMA EnqueueType ==
  ASSUME TypeInv, Enqueue
  PROVE  TypeInv'
<1>1. pc = "enqueue" /\ pc' = "loop" /\ cur \in Mail
      /\ FromPeer[cur] \in Peer /\ peers[FromPeer[cur]] # 0
  BY ConstantFacts DEF Enqueue, Move, TypeInv, Hands, InHand
<1>2. peers[FromPeer[cur]] \in 1..Cardinality(Peer)
  BY <1>1, ConstantFacts DEF TypeInv, MemoryType
<1>3. handed' \subseteq Peer \X (1..Cardinality(Peer))
  BY <1>1, <1>2 DEF Enqueue, TypeInv, GhostType
<1>4. enqueued' \in [Mail -> 0..(MaxKills + 2)]
  BY <1>1, ConstantFacts DEF Enqueue, TypeInv, GhostType
<1> QED BY <1>1, <1>3, <1>4 DEF Enqueue, TypeInv, FileType, MemoryType, ThreadType,
     GhostType, Hands, InHand, PC, diskVars, chatVars

LEMMA ChatType ==
  ASSUME TypeInv, NEW a \in Ask, Chat(a)
  PROVE  TypeInv'
<1>1. CASE Initiate(a)
  <2>1. pending' \in [Peer -> Owners \cup {None}]
    BY <1>1, ConstantFacts DEF Initiate, TypeInv, MemoryType
  <2> QED BY <1>1, <2>1 DEF Initiate, TypeInv, FileType, MemoryType, ThreadType,
       GhostType, Hands, InHand, diskVars, pollVars, ghostVars
<1>2. CASE InitiateSaves(a)
  <2>1. forgotten' \subseteq Owners
    BY <1>2, EntriesType DEF InitiateSaves, TypeInv, FileType, GhostType
  <2> QED BY <1>2, <2>1 DEF InitiateSaves, TypeInv, FileType, MemoryType, ThreadType,
       GhostType, Hands, InHand, pollVars
<1>3. CASE InitiateMails(a)
  <2>1. inbox' \in Seq(Item)
    <3>1. inbox \in Seq(Item) /\ a \in Item /\ inbox' \in {inbox, Append(inbox, a)}
      BY <1>3, ConstantFacts DEF InitiateMails, TypeInv, MemoryType
    <3>2. Append(inbox, a) \in Seq(Item)
      BY <3>1
    <3> QED BY <3>1, <3>2
  <2>2. chat' \in [Ask -> {"new", "save", "mail", "asked", "failed"}]
    BY <1>3 DEF InitiateMails, TypeInv, ThreadType
  <2> QED BY <1>3, <2>1, <2>2 DEF InitiateMails, TypeInv, FileType, MemoryType,
       ThreadType, GhostType, Hands, InHand, diskVars, pollVars, ghostVars
<1> QED BY <1>1, <1>2, <1>3 DEF Chat

LEMMA KillType ==
  ASSUME TypeInv, Kill
  PROVE  TypeInv'
<1>1. FileType'
  <2>1. CASE UNCHANGED diskVars
    BY <2>1 DEF TypeInv, FileType, diskVars
  <2>2. CASE TornWrites
    <3>1. seenFile' \in {seenFile, [exists |-> TRUE, ids |-> {}], [exists |-> TRUE, ids |-> seen]}
      BY <2>2 DEF TornWrites
    <3>2. peersFile' \in {peersFile, [readable |-> FALSE, ids |-> NoPeers]}
      BY <2>2 DEF TornWrites
    <3>3. pendFile' \in {pendFile, NoPending}
      BY <2>2 DEF TornWrites
    <3>4. seenFile' \in [exists: BOOLEAN, ids: SUBSET Item]
      <4>1. /\ seenFile \in [exists: BOOLEAN, ids: SUBSET Item]
            /\ [exists |-> TRUE, ids |-> {}] \in [exists: BOOLEAN, ids: SUBSET Item]
            /\ [exists |-> TRUE, ids |-> seen] \in [exists: BOOLEAN, ids: SUBSET Item]
        BY DEF TypeInv, FileType, MemoryType
      <4> QED BY <3>1, <4>1, Zenon
    <3>5. peersFile' \in [readable: BOOLEAN, ids: Ids]
      <4>1. /\ peersFile \in [readable: BOOLEAN, ids: Ids]
            /\ [readable |-> FALSE, ids |-> NoPeers] \in [readable: BOOLEAN, ids: Ids]
        BY ConstantFacts DEF TypeInv, FileType
      <4> QED BY <3>2, <4>1, Zenon
    <3>6. pendFile' \in [Peer -> Owners \cup {None}]
      BY <3>3, ConstantFacts DEF TypeInv, FileType
    <3> QED BY <3>4, <3>5, <3>6 DEF FileType
  <2> QED BY <2>1, <2>2 DEF Kill
<1>2. kills' \in 0..MaxKills
  BY ConstantFacts DEF Kill, TypeInv, GhostType
<1>3. chat' \in [Ask -> {"new", "save", "mail", "asked", "failed"}]
  BY DEF Kill, TypeInv, ThreadType
<1>4. <<>> \in Seq(Item)
  OBVIOUS
<1>5. missed' \subseteq Mail
  BY DEF Kill, TypeInv, GhostType, Hands
<1>6. forgotten' \subseteq Owners
  <2>1. Entries(pending) \subseteq Owners /\ Entries(pendFile) \subseteq Owners
    BY EntriesType DEF TypeInv, FileType, MemoryType
  <2>2. owed \in Owners \cup {None} /\ forgotten \subseteq Owners
    BY DEF TypeInv, ThreadType, GhostType
  <2>3. forgotten' = forgotten \cup ((Entries(pending) \cup Entries(pendFile) \cup {owed})
                                       \ (Entries(pendFile') \cup {None}))
    BY DEF Kill
  <2> HIDE DEF Entries
  <2> QED BY <2>1, <2>2, <2>3
<1> QED BY <1>1, <1>2, <1>3, <1>4, <1>5, <1>6 DEF Kill, TypeInv, MemoryType, ThreadType,
     GhostType, Hands, InHand, PC

LEMMA StartType ==
  ASSUME TypeInv, Start
  PROVE  TypeInv'
<1>1. MemoryType'
  BY ConstantFacts DEF Start, TypeInv, FileType, MemoryType
<1> QED BY <1>1 DEF Start, Move, TypeInv, FileType, ThreadType, GhostType, Hands,
     InHand, PC, diskVars, chatVars, ghostVars

LEMMA TypeStep == TypeInv /\ [Next]_vars => TypeInv'
<1> SUFFICES ASSUME TypeInv, [Next]_vars PROVE TypeInv'
  OBVIOUS
<1>1. CASE UNCHANGED vars
  BY <1>1 DEF vars, diskVars, pollVars, chatVars, ghostVars, TypeInv, FileType,
     MemoryType, ThreadType, GhostType, Hands, InHand
<1>2. CASE Next
  BY <1>2, ArriveType, PendLoadType, ListType, EndOfCycleType, SaveType, TakeNextType,
     FetchType, PendSaveType, NotifyType, PeerIdType, EnqueueType, ChatType, KillType,
     StartType DEF Next, Poll
<1> QED BY <1>1, <1>2

\* Chat ids are numbered from 1, and every variable keeps its type.
THEOREM TypeCorrect == Spec => []TypeOK
<1>1. Spec => []TypeInv
  BY InitTypeInv, TypeStep, PTL DEF Spec
<1> QED BY <1>1, TypeInvIsTypeOK, PTL

-----------------------------------------------------------------------------
(* Mail is queued once more at most for each kill.                          *)

\* Mail that may still be queued in this run of the process: it is not marked
\* seen, or it is in hand, or the marks may yet be replaced.
MayQueue(m) ==
  m \notin seen \/ (InHand /\ cur = m) \/ pc = "down" \/ first

\* What was queued more often than there were kills is marked, and not in hand;
\* nothing is taken up before the first poll has set the inbox aside.
QueueInv ==
  /\ first => pc \in {"idle", "list", "down"}
  /\ \A m \in Mail : /\ enqueued[m] <= 1 + kills
                     /\ MayQueue(m) => enqueued[m] <= kills

LEMMA NumberFacts ==
  ASSUME TypeInv
  PROVE  kills \in Nat /\ \A m \in Mail : enqueued[m] \in Nat
BY ConstantFacts DEF TypeInv, GhostType

LEMMA InitQueueInv == Init => QueueInv
BY DEF Init, QueueInv

\* A step that queues nothing keeps the invariant if what may still be queued
\* was so before.
LEMMA QueueKept ==
  ASSUME QueueInv, UNCHANGED <<enqueued, kills>>,
         first' => pc' \in {"idle", "list", "down"},
         \A m \in Mail : MayQueue(m)' => MayQueue(m)
  PROVE  QueueInv'
BY DEF QueueInv

LEMMA QueueStep == TypeInv /\ QueueInv /\ [Next]_vars => QueueInv'
<1> SUFFICES ASSUME TypeInv, QueueInv, [Next]_vars PROVE QueueInv'
  OBVIOUS
<1>1. CASE UNCHANGED vars
  BY <1>1 DEF vars, pollVars, ghostVars, QueueInv, MayQueue, InHand
<1>2. ASSUME NEW m \in Mail, Arrive(m) PROVE QueueInv'
  BY <1>2 DEF Arrive, pollVars, ghostVars, QueueInv, MayQueue, InHand
<1>3. CASE PendLoad \/ PendSave \/ ListFails \/ EndCycle
  BY <1>3, QueueKept DEF PendLoad, PendSave, ListFails, EndCycle, Move, ghostVars,
     QueueInv, MayQueue, InHand
<1>4. CASE List
  <2>1. CASE first
    BY <1>4, <2>1 DEF List, Move, QueueInv, MayQueue, InHand
  <2>2. CASE ~ first
    BY <1>4, <2>2, QueueKept DEF List, Move, QueueInv, MayQueue, InHand
  <2> QED BY <2>1, <2>2
<1>5. CASE Save
  BY <1>5, QueueKept DEF Save, Move, ghostVars, QueueInv, MayQueue, InHand
<1>6. CASE TakeNext
  <2>1. CASE Head(todo) \in seen
    BY <1>6, <2>1, QueueKept DEF TakeNext, Move, ghostVars, QueueInv, MayQueue, InHand
  <2>2. CASE Head(todo) \notin seen
    BY <1>6, <2>2, QueueKept DEF TakeNext, Move, ghostVars, QueueInv, MayQueue, InHand
  <2> QED BY <2>1, <2>2
<1>7. CASE Fetch \/ FetchFails
  BY <1>7, QueueKept DEF Fetch, FetchFails, Move, ghostVars, QueueInv, MayQueue, InHand
<1>8. CASE Notify
  BY <1>8, QueueKept DEF Notify, Move, QueueInv, MayQueue, InHand
<1>9. CASE PeerId
  BY <1>9, QueueKept DEF PeerId, Move, ghostVars, QueueInv, MayQueue, InHand
<1>10. CASE Enqueue
  <2>1. /\ pc = "enqueue" /\ pc' = "loop" /\ cur \in Mail /\ cur \in seen /\ ~ first
        /\ UNCHANGED <<seen, kills, first>>
    BY <1>10 DEF Enqueue, Move, TypeInv, Hands, InHand, QueueInv
  <2>2. enqueued[cur] <= kills
    BY <2>1 DEF QueueInv, MayQueue, InHand
  <2>3. \A m \in Mail : /\ m # cur => enqueued'[m] = enqueued[m]
                        /\ enqueued'[cur] <= 1 + kills
    BY <1>10, <2>1, <2>2, NumberFacts DEF Enqueue, TypeInv, GhostType
  <2>4. \A m \in Mail : MayQueue(m)' => MayQueue(m) /\ m # cur
    BY <2>1 DEF MayQueue, InHand
  <2> QED BY <2>1, <2>3, <2>4 DEF QueueInv
<1>11. ASSUME NEW a \in Ask, Chat(a) PROVE QueueInv'
  BY <1>11 DEF Chat, Initiate, InitiateSaves, InitiateMails, pollVars, ghostVars,
     QueueInv, MayQueue, InHand
<1>12. CASE Kill
  <2>1. kills' = kills + 1 /\ UNCHANGED enqueued /\ pc' = "down"
    BY <1>12 DEF Kill, ghostVars
  <2> QED BY <2>1, NumberFacts DEF QueueInv
<1>13. CASE Start
  BY <1>13 DEF Start, Move, ghostVars, QueueInv, MayQueue
<1>14. CASE Next
  BY <1>2, <1>3, <1>4, <1>5, <1>6, <1>7, <1>8, <1>9, <1>10, <1>11, <1>12, <1>13, <1>14
     DEF Next, Poll
<1> QED BY <1>1, <1>14

\* Mail is put into the chat queue once, and once more at most for each kill,
\* however the files are torn and whatever fails.
THEOREM MailIsQueuedOnce == Spec => []QueuedOnce
<1>1. Spec => [](TypeInv /\ QueueInv)
  BY InitTypeInv, TypeStep, InitQueueInv, QueueStep, PTL DEF Spec
<1>2. QueueInv => QueuedOnce
  BY DEF QueueInv, QueuedOnce
<1> QED BY <1>1, <1>2, PTL

-----------------------------------------------------------------------------
(* No mark is saved of mail that was not queued.                            *)

\* What is known of mail that is marked seen.
Accounted(m) == enqueued[m] > 0 \/ (InHand /\ cur = m) \/ m \in armed \cup missed

MarkInv ==
  /\ \A m \in Mail : m \in seenFile.ids /\ ToAgent(m) => Accounted(m)
  /\ pc # "down" => \A m \in Mail : m \in seen /\ ToAgent(m) => Accounted(m)

LEMMA InitMarkInv == Init => MarkInv
BY DEF Init, MarkInv

\* A step keeps the invariant if it marks nothing and takes nothing out of hand that
\* it does not account for; it may save the marks.
LEMMA MarkKept ==
  ASSUME TypeInv, MarkInv, pc # "down",
         seen' = seen, seenFile'.ids \in {seenFile.ids, seen, {}},
         \A m \in Mail : Accounted(m) => Accounted(m)'
  PROVE  MarkInv'
BY DEF MarkInv, ToAgent

LEMMA MarkStep == TypeInv /\ MarkInv /\ [Next]_vars => MarkInv'
<1> SUFFICES ASSUME TypeInv, MarkInv, [Next]_vars PROVE MarkInv'
  OBVIOUS
<1>1. CASE UNCHANGED vars
  BY <1>1 DEF vars, diskVars, pollVars, ghostVars, MarkInv, Accounted, InHand
<1>2. ASSUME NEW m \in Mail, Arrive(m) PROVE MarkInv'
  BY <1>2 DEF Arrive, diskVars, pollVars, ghostVars, MarkInv, Accounted, InHand
<1>3. CASE PendLoad \/ PendSave \/ ListFails \/ EndCycle \/ PeerId \/ Fetch \/ Notify
  BY <1>3, MarkKept DEF PendLoad, PendSave, ListFails, EndCycle, PeerId, Fetch, Notify,
     Move, diskVars, ghostVars, Accounted, InHand
<1>4. CASE List
  BY <1>4 DEF List, Move, diskVars, MarkInv, Accounted, InHand
<1>5. CASE Save
  BY <1>5, MarkKept DEF Save, WriteState, Move, ghostVars, Accounted, InHand
<1>6. CASE TakeNext
  BY <1>6 DEF TakeNext, Move, diskVars, ghostVars, MarkInv, Accounted, InHand, ToAgent
<1>7. CASE FetchFails
  BY <1>7, MarkKept DEF FetchFails, Move, diskVars, Accounted, InHand
<1>8. CASE Enqueue
  <2>1. pc = "enqueue" /\ pc' = "loop" /\ cur \in Mail
    BY <1>8 DEF Enqueue, Move, TypeInv, Hands, InHand
  <2>2. \A m \in Mail : enqueued'[m] >= enqueued[m] /\ enqueued'[cur] > 0
    BY <1>8, <2>1, NumberFacts, ConstantFacts DEF Enqueue, TypeInv, GhostType
  <2> QED BY <1>8, <2>1, <2>2, NumberFacts, MarkKept DEF Enqueue, diskVars, Accounted, InHand
<1>9. ASSUME NEW a \in Ask, Chat(a) PROVE MarkInv'
  BY <1>9 DEF Chat, Initiate, InitiateSaves, InitiateMails, diskVars, pollVars, ghostVars,
     MarkInv, Accounted, InHand
<1>10. CASE Kill
  <2>1. seenFile'.ids \in {seenFile.ids, seen, {}}
    BY <1>10 DEF Kill, TornWrites, diskVars
  <2>2. /\ pc # "down" /\ pc' = "down" /\ UNCHANGED <<enqueued, armed>>
        /\ missed' = IF InHand /\ cur \in seenFile'.ids THEN missed \cup {cur} ELSE missed
    BY <1>10 DEF Kill
  <2>3. ASSUME NEW m \in Mail, m \in seenFile'.ids, ToAgent(m)
        PROVE  Accounted(m)'
    <3>1. Accounted(m)
      BY <2>1, <2>2, <2>3 DEF MarkInv
    <3> QED BY <2>2, <2>3, <3>1 DEF Accounted
  <2> QED BY <2>2, <2>3 DEF MarkInv, ToAgent
<1>11. CASE Start
  BY <1>11 DEF Start, Move, diskVars, ghostVars, MarkInv, Accounted, InHand
<1>12. CASE Next
  BY <1>2, <1>3, <1>4, <1>5, <1>6, <1>7, <1>8, <1>9, <1>10, <1>11, <1>12 DEF Next, Poll
<1> QED BY <1>1, <1>12

\* Over kills between any two steps and inside the saves, mail whose mark is in the
\* file was queued, is in hand, was set aside, or is what a kill or a failed fetch
\* cost.
THEOREM MarkedMailIsQueued == Spec => []MarkedIsQueued
<1>1. Spec => [](TypeInv /\ MarkInv)
  BY InitTypeInv, TypeStep, InitMarkInv, MarkStep, PTL DEF Spec
<1>2. MarkInv => MarkedIsQueued
  BY DEF MarkInv, Accounted, MarkedIsQueued
<1> QED BY <1>1, <1>2, PTL

-----------------------------------------------------------------------------
(* Answers go back to the peer whose mail was queued under the id.          *)

\* Every known peer has an id of its own, none higher than there are peers known,
\* so that the next id is new.
Numbered(ids) ==
  /\ ids \in Ids
  /\ \A p \in Peer : ids[p] <= Cardinality(Known(ids))
  /\ \A p, q \in Peer : ids[p] = ids[q] /\ ids[p] # 0 => p = q

\* Ids are in the file before mail is queued under them.
IdInv ==
  /\ Numbered(peers)
  /\ Numbered(peersFile.ids)
  /\ pc \notin {"idSave", "down"} =>
       peers = NoPeers \/ (peersFile.readable /\ peersFile.ids = peers)
  /\ \A h \in handed :
       /\ peers[h[1]] = h[2]
       /\ peersFile.readable /\ peersFile.ids[h[1]] = h[2]

LEMMA NoPeersNumbered == Numbered(NoPeers)
<1>1. NoPeers \in Ids /\ \A p \in Peer : NoPeers[p] = 0
  BY ConstantFacts DEF NoPeers
<1>2. Cardinality(Known(NoPeers)) >= 0
  BY <1>1, KnownCard, ConstantFacts
<1> QED BY <1>1, <1>2 DEF Numbered

LEMMA InitIdInv == Init => IdInv
BY NoPeersNumbered DEF Init, IdInv

LEMMA NextIdIsNew ==
  ASSUME NEW ids, Numbered(ids), NEW p \in Peer, ids[p] = 0
  PROVE  Numbered([ids EXCEPT ![p] = Cardinality(Known(ids)) + 1])
<1> DEFINE n == Cardinality(Known(ids)) + 1
           new == [ids EXCEPT ![p] = n]
<1>1. ids \in Ids
  BY DEF Numbered
<1>2. n \in 1..Cardinality(Peer) /\ Cardinality(Known(new)) = n
  BY <1>1, KnownCard
<1>3. new \in Ids /\ \A q \in Peer : new[q] = IF q = p THEN n ELSE ids[q]
  BY <1>1, <1>2, ConstantFacts
<1>4. \A q \in Peer : ids[q] \in Nat /\ ids[q] < n
  <2>1. \A q \in Peer : ids[q] \in 0..Cardinality(Peer) /\ ids[q] <= Cardinality(Known(ids))
    BY <1>1, ConstantFacts DEF Numbered
  <2>2. Cardinality(Known(ids)) \in Nat
    BY <1>1, KnownCard, ConstantFacts
  <2> QED BY <2>1, <2>2, ConstantFacts
<1> HIDE DEF n, new
<1>5. \A q \in Peer : new[q] <= n
  BY <1>2, <1>3, <1>4
<1>6. \A q, r \in Peer : new[q] = new[r] /\ new[q] # 0 => q = r
  BY <1>3, <1>4 DEF Numbered
<1>7. Numbered(new)
  BY <1>2, <1>3, <1>5, <1>6 DEF Numbered
<1> QED BY <1>7 DEF n, new

LEMMA IdKept ==
  ASSUME IdInv, UNCHANGED <<peers, peersFile, handed>>,
         pc' \notin {"idSave", "down"} => pc \notin {"idSave", "down"}
  PROVE  IdInv'
BY DEF IdInv

LEMMA IdStep == "peers" \notin Torn /\ TypeInv /\ IdInv /\ [Next]_vars => IdInv'
<1> SUFFICES ASSUME "peers" \notin Torn, TypeInv, IdInv, [Next]_vars PROVE IdInv'
  OBVIOUS
<1>1. CASE UNCHANGED vars
  BY <1>1, IdKept DEF vars, diskVars, pollVars, ghostVars
<1>2. ASSUME NEW m \in Mail, Arrive(m) PROVE IdInv'
  BY <1>2, IdKept DEF Arrive, diskVars, pollVars, ghostVars
<1>3. CASE PendLoad \/ PendSave \/ ListFails \/ EndCycle \/ FetchFails
  BY <1>3, IdKept DEF PendLoad, PendSave, ListFails, EndCycle, FetchFails, Move, diskVars,
     ghostVars
<1>4. CASE List
  BY <1>4, IdKept DEF List, Move, diskVars
<1>5. CASE Save
  <2>1. peersFile' = [readable |-> TRUE, ids |-> peers] /\ UNCHANGED <<peers, handed>>
    BY <1>5 DEF Save, WriteState, ghostVars
  <2>2. peersFile'.readable /\ peersFile'.ids = peers'
    BY <2>1
  <2>3. Numbered(peers')
    BY <2>1 DEF IdInv
  <2> QED BY <2>1, <2>2, <2>3 DEF IdInv
<1>6. CASE TakeNext
  BY <1>6, IdKept DEF TakeNext, Move, diskVars, ghostVars
<1>7. CASE Fetch
  BY <1>7, IdKept DEF Fetch, Move, diskVars, ghostVars
<1>8. CASE Notify
  BY <1>8, IdKept DEF Notify, Move, diskVars
<1>9. CASE PeerId
  <2>1. /\ pc = "id" /\ FromPeer[cur] \in Peer
        /\ UNCHANGED <<peersFile, handed>>
    BY <1>9, ConstantFacts DEF PeerId, TypeInv, Hands, InHand, diskVars, ghostVars
  <2>2. CASE peers[FromPeer[cur]] # 0
    BY <1>9, <2>1, <2>2, IdKept DEF PeerId, Move
  <2>3. CASE peers[FromPeer[cur]] = 0
    <3>1. /\ pc' = "idSave"
          /\ peers' = [peers EXCEPT ![FromPeer[cur]] = Cardinality(Known(peers)) + 1]
      BY <1>9, <2>3 DEF PeerId, Move
    <3>2. Numbered(peers')
      BY <2>1, <2>3, <3>1, NextIdIsNew DEF IdInv
    <3>3. \A h \in handed : h[1] \in Peer /\ h[2] # 0 /\ peers[h[1]] = h[2]
      BY DEF IdInv, TypeInv, GhostType
    <3>4. \A h \in handed : peers'[h[1]] = h[2]
      BY <2>3, <3>1, <3>3 DEF TypeInv, MemoryType, Ids
    <3> QED BY <2>1, <3>1, <3>2, <3>4 DEF IdInv
  <2> QED BY <2>2, <2>3
<1>10. CASE Enqueue
  <2>1. /\ pc = "enqueue" /\ pc' = "loop" /\ FromPeer[cur] \in Peer
        /\ peers[FromPeer[cur]] # 0
        /\ UNCHANGED <<peers, peersFile>>
        /\ handed' = handed \cup {<<FromPeer[cur], peers[FromPeer[cur]]>>}
    BY <1>10, ConstantFacts DEF Enqueue, Move, TypeInv, Hands, InHand, diskVars
  <2>2. peersFile.readable /\ peersFile.ids = peers
    BY <2>1 DEF IdInv, NoPeers
  <2> QED BY <2>1, <2>2 DEF IdInv
<1>11. ASSUME NEW a \in Ask, Chat(a) PROVE IdInv'
  BY <1>11, IdKept DEF Chat, Initiate, InitiateSaves, InitiateMails, diskVars, pollVars,
     ghostVars
<1>12. CASE Kill
  <2>1. pc' = "down" /\ UNCHANGED <<peers, handed>>
    BY <1>12 DEF Kill, ghostVars
  <2>2. UNCHANGED peersFile \/ peersFile' = [readable |-> TRUE, ids |-> peers]
    BY <1>12 DEF Kill, TornWrites, diskVars
  <2>3. CASE UNCHANGED peersFile
    BY <2>1, <2>3 DEF IdInv
  <2>4. CASE peersFile' = [readable |-> TRUE, ids |-> peers]
    BY <2>1, <2>4 DEF IdInv
  <2> QED BY <2>2, <2>3, <2>4
<1>13. CASE Start
  <2>1. /\ pc' = "idle" /\ UNCHANGED <<peersFile, handed>>
        /\ peers' = IF peersFile.readable THEN peersFile.ids ELSE NoPeers
    BY <1>13 DEF Start, Move, diskVars, ghostVars
  <2> QED BY <2>1, NoPeersNumbered DEF IdInv
<1>14. CASE Next
  BY <1>2, <1>3, <1>4, <1>5, <1>6, <1>7, <1>8, <1>9, <1>10, <1>11, <1>12, <1>13, <1>14
     DEF Next, Poll
<1> QED BY <1>1, <1>14

LEMMA IdsAreKept ==
  ASSUME "peers" \notin Torn
  PROVE  Spec => []IdInv
<1>1. Init => TypeInv /\ IdInv
  BY InitTypeInv, InitIdInv
<1>2. TypeInv /\ IdInv /\ [Next]_vars => (TypeInv /\ IdInv)'
  BY TypeStep, IdStep
<1> QED BY <1>1, <1>2, PTL DEF Spec

\* Over any number of restarts, what the agent answers under a chat id goes to
\* the peer whose mail it was given under that id, and to no one else, unless a
\* kill tears the peers file.
THEOREM AnswersFindTheirPeer == Spec => []AnswersGoBack
<1>1. CASE "peers" \in Torn
  <2>1. AnswersGoBack
    BY <1>1 DEF AnswersGoBack
  <2> QED BY <2>1, PTL
<1>2. CASE "peers" \notin Torn
  <2>1. TypeInv /\ IdInv => AnswersGoBack
    <3> SUFFICES ASSUME TypeInv, IdInv, NEW h \in handed
                 PROVE  Addressee(h[2]) = {h[1]}
      BY DEF AnswersGoBack
    <3>1. h[1] \in Peer /\ h[2] # 0 /\ peers[h[1]] = h[2]
      BY DEF IdInv, TypeInv, GhostType
    <3> QED BY <3>1 DEF IdInv, Numbered, Addressee
  <2>2. Spec => []TypeInv
    BY InitTypeInv, TypeStep, PTL DEF Spec
  <2> QED BY <1>2, <2>1, <2>2, IdsAreKept, PTL
<1> QED BY <1>1, <1>2
=============================================================================
