------------------------- MODULE FleetPollerProofs -------------------------
(***************************************************************************)
(* Theorems about FleetPoller, for any agents, mail, lanes that can be      *)
(* read, lost answers and kills between any two steps or inside a save.     *)
(***************************************************************************)
EXTENDS FleetPoller, TLAPS

-----------------------------------------------------------------------------
(* Functions of two arguments, as the files and counters of the agents are. *)

LEMMA Update2 ==
  ASSUME NEW D, NEW E, NEW R, NEW f \in [D -> [E -> R]],
         NEW d \in D, NEW e \in E, NEW r \in R
  PROVE  /\ [f EXCEPT ![d][e] = r] \in [D -> [E -> R]]
         /\ \A x \in D, y \in E :
              [f EXCEPT ![d][e] = r][x][y] = IF x = d /\ y = e THEN r ELSE f[x][y]
<1>1. [f[d] EXCEPT ![e] = r] \in [E -> R]
  OBVIOUS
<1>2. [f EXCEPT ![d][e] = r] = [f EXCEPT ![d] = [f[d] EXCEPT ![e] = r]]
  OBVIOUS
<1>3. [f EXCEPT ![d] = [f[d] EXCEPT ![e] = r]] \in [D -> [E -> R]]
  BY <1>1
<1>4. \A x \in D, y \in E :
        [f EXCEPT ![d] = [f[d] EXCEPT ![e] = r]][x][y]
          = IF x = d /\ y = e THEN r ELSE f[x][y]
  BY <1>1
<1> QED BY <1>2, <1>3, <1>4

-----------------------------------------------------------------------------
(* Types *)

File  == [exists: BOOLEAN, ids: SUBSET Item]
Sent  == [Tally -> 0..Cap]

\* The lanes, the files, the processes, and what was done.
BoxType ==
  /\ arrived \subseteq Mail
  /\ avBox \in [Agent -> SUBSET Item]
  /\ e2aBox \in [Agent -> SUBSET Mail]
  /\ opInbox \in Seq(Item)

FileType ==
  /\ seenFile \in [Agent -> [Lane -> File]]
  /\ attFile \in [Agent -> [Lane -> Counts]]

ProcType ==
  /\ pc \in [Agent -> PC]
  /\ lane \in [Agent -> Lane]
  /\ items \in [Agent -> SUBSET Item]
  /\ seen \in [Agent -> SUBSET Item]
  /\ att \in [Agent -> Counts]
  /\ hand \in [Agent -> Item \cup {NoItem}]
  /\ mailed \in [Agent -> BOOLEAN]
  /\ kills \in [Agent -> 0..MaxKills]

GhostType ==
  /\ tries \in [Agent -> [Item -> 0..Cap]]
  /\ fate \in [Agent -> [Item -> Fate]]
  /\ sent \in [Agent -> [Item -> Sent]]

\* A process that works on an item has one in hand.
Hands == \A a \in Agent : pc[a] \in {"sweep", "mail", "post"} => hand[a] \in Item

TypeInv == BoxType /\ FileType /\ ProcType /\ GhostType /\ Hands

LEMMA TypeInvOK == TypeInv => TypeOK
  BY Zenon DEF TypeInv, BoxType, FileType, ProcType, GhostType, TypeOK, File, Sent

LEMMA ConstantFacts ==
  /\ MaxAttempts \in Nat \ {0} /\ Cap \in Nat /\ MaxAttempts < Cap
  /\ MaxKills \in Nat
  /\ 0 \in 0..(MaxAttempts - 1)
  /\ NoAttempts \in Counts
  /\ Mail \subseteq Item /\ ReplyItem \subseteq Item
  /\ \A a \in Agent : Legacy[a].ids \subseteq Mail
<1>1. MaxAttempts \in Nat \ {0} /\ Cap \in Nat /\ MaxAttempts < Cap /\ MaxKills \in Nat
  BY FleetAssumption
<1>2. 0 \in 0..(MaxAttempts - 1)
  BY <1>1
<1>3. NoAttempts \in Counts
  BY <1>2 DEF NoAttempts, Counts
<1>4. \A a \in Agent : Legacy[a].ids \subseteq Mail
  BY FleetAssumption
<1> QED BY <1>1, <1>2, <1>3, <1>4 DEF Item

LEMMA UpToType ==
  ASSUME NEW n \in 0..Cap
  PROVE  /\ UpTo(n + 1) \in 0..Cap /\ UpTo(n + 1) > 0 /\ UpTo(n + 1) >= n
         /\ n < Cap => UpTo(n + 1) = n + 1
  BY ConstantFacts DEF UpTo

LEMMA InitTypeInv == Init => TypeInv
<1> SUFFICES ASSUME Init PROVE TypeInv
  OBVIOUS
<1> USE ConstantFacts
<1>1. BoxType
  <2>1. arrived \subseteq Mail /\ \A a \in Agent : Legacy[a].ids \subseteq Item
    BY DEF Init
  <2>2. avBox \in [Agent -> SUBSET Item] /\ e2aBox \in [Agent -> SUBSET Mail]
    BY <2>1 DEF Init
  <2> QED BY <2>1, <2>2 DEF Init, BoxType
<1>2. FileType
  <2>1. [exists |-> FALSE, ids |-> {}] \in File
    BY DEF File
  <2>2. seenFile = [a \in Agent |-> [l \in Lane |-> [exists |-> FALSE, ids |-> {}]]]
        /\ attFile = [a \in Agent |-> [l \in Lane |-> NoAttempts]]
    BY DEF Init
  <2> QED BY <2>1, <2>2 DEF FileType
<1>3. ProcType
  BY DEF Init, ProcType, PC, Lane
<1>4. GhostType
  <2>1. [n \in Tally |-> 0] \in Sent /\ "open" \in Fate /\ 0 \in 0..Cap
    BY DEF Sent, Fate
  <2>2. /\ tries = [a \in Agent |-> [i \in Item |-> 0]]
        /\ fate = [a \in Agent |-> [i \in Item |-> "open"]]
        /\ sent = [a \in Agent |-> [i \in Item |-> [n \in Tally |-> 0]]]
    BY DEF Init
  <2> QED BY <2>1, <2>2 DEF GhostType
<1>5. Hands
  BY DEF Init, Hands
<1> QED BY <1>1, <1>2, <1>3, <1>4, <1>5 DEF TypeInv

\* What a lane lists are items.
LEMMA ListingType ==
  ASSUME TypeInv, NEW a \in Agent, NEW l \in Lane
  PROVE  Listing(a, l) \subseteq Item
<1>1. Newest \subseteq Item
  BY DEF Newest, TypeInv, BoxType
<1>2. avBox[a] \subseteq Item /\ e2aBox[a] \subseteq Item
  BY ConstantFacts DEF TypeInv, BoxType
<1> QED BY <1>1, <1>2 DEF Listing, Lane

LEMMA SetAsideType ==
  ASSUME TypeInv, NEW a \in Agent, NEW ids, NEW what \in Fate, SetAside(a, ids, what)
  PROVE  /\ fate' \in [Agent -> [Item -> Fate]]
         /\ \A b \in Agent, i \in Item :
              fate'[b][i] = IF b = a /\ i \in ids THEN what ELSE fate[b][i]
<1> DEFINE row == [i \in Item |-> IF i \in ids THEN what ELSE fate[a][i]]
<1>1. fate \in [Agent -> [Item -> Fate]] /\ fate' = [fate EXCEPT ![a] = row]
  BY DEF SetAside, TypeInv, GhostType
<1>2. row \in [Item -> Fate]
  BY <1>1
<1>3. \A i \in Item : row[i] = IF i \in ids THEN what ELSE fate[a][i]
  OBVIOUS
<1> HIDE DEF row
<1> QED BY <1>1, <1>2, <1>3

\* What deciding an item changes.
SeenEffect(a, h, what) ==
  /\ \A b \in Agent : seen'[b] = IF b = a THEN seen[b] \cup {h} ELSE seen[b]
  /\ \A b \in Agent, j \in Item :
       /\ att'[b][j] = IF b = a /\ j = h THEN 0 ELSE att[b][j]
       /\ fate'[b][j] = IF b = a /\ j = h THEN what ELSE fate[b][j]

\* An item is decided: it is seen, its count is reset.
LEMMA SeenType ==
  ASSUME TypeInv, NEW a \in Agent, NEW i \in Item, NEW what \in Fate, Seen(a, i, what)
  PROVE  /\ seen' \in [Agent -> SUBSET Item]
         /\ att' \in [Agent -> Counts]
         /\ fate' \in [Agent -> [Item -> Fate]]
         /\ SeenEffect(a, i, what)
<1>1. seen \in [Agent -> SUBSET Item] /\ att \in [Agent -> [Item -> 0..(MaxAttempts - 1)]]
      /\ fate \in [Agent -> [Item -> Fate]]
  BY DEF TypeInv, ProcType, GhostType, Counts
<1>2. seen' = [seen EXCEPT ![a] = seen[a] \cup {i}]
  BY DEF Seen
<1>3. att' = [att EXCEPT ![a][i] = 0] /\ 0 \in 0..(MaxAttempts - 1)
  BY ConstantFacts DEF Seen
<1>4. fate' = [fate EXCEPT ![a][i] = what]
  BY DEF Seen
<1>5. /\ att' \in [Agent -> [Item -> 0..(MaxAttempts - 1)]]
      /\ \A b \in Agent, j \in Item : att'[b][j] = IF b = a /\ j = i THEN 0 ELSE att[b][j]
  BY <1>1, <1>3, Update2
<1>6. /\ fate' \in [Agent -> [Item -> Fate]]
      /\ \A b \in Agent, j \in Item :
           fate'[b][j] = IF b = a /\ j = i THEN what ELSE fate[b][j]
  BY <1>1, <1>4, Update2
<1>7. /\ seen' \in [Agent -> SUBSET Item]
      /\ \A b \in Agent : seen'[b] = IF b = a THEN seen[b] \cup {i} ELSE seen[b]
  BY <1>1, <1>2
<1> QED BY <1>5, <1>6, <1>7 DEF Counts, SeenEffect

\* What Outcome does: the item is decided, or one more failure is counted.
LEMMA OutcomeType ==
  ASSUME TypeInv, NEW a \in Agent, hand[a] \in Item, NEW ok \in BOOLEAN, Outcome(a, ok)
  PROVE  /\ seen' \in [Agent -> SUBSET Item]
         /\ att' \in [Agent -> Counts]
         /\ fate' \in [Agent -> [Item -> Fate]]
<1>1. /\ MaxAttempts \in Nat \ {0} /\ att \in [Agent -> [Item -> 0..(MaxAttempts - 1)]]
      /\ {"answered", "dropped"} \subseteq Fate
  BY ConstantFacts DEF TypeInv, ProcType, Counts, Fate
<1> DEFINE n == att[a][hand[a]] + 1
<1>2. n \in Nat
  BY <1>1
<1>3. CASE Seen(a, hand[a], "answered") \/ Seen(a, hand[a], "dropped")
  BY <1>1, <1>3, SeenType
<1>4. CASE n < MaxAttempts /\ att' = [att EXCEPT ![a][hand[a]] = n] /\ UNCHANGED <<seen, fate>>
  <2>1. n \in 0..(MaxAttempts - 1)
    BY <1>1, <1>2, <1>4
  <2>2. att' \in [Agent -> [Item -> 0..(MaxAttempts - 1)]]
    BY <1>1, <1>4, <2>1, Update2
  <2>3. seen \in [Agent -> SUBSET Item] /\ fate \in [Agent -> [Item -> Fate]]
    BY DEF TypeInv, ProcType, GhostType
  <2> QED BY <1>4, <2>2, <2>3 DEF Counts
<1> QED BY <1>1, <1>2, <1>3, <1>4 DEF Outcome

LEMMA SentUpdate ==
  ASSUME sent \in [Agent -> [Item -> Sent]], NEW a \in Agent, NEW i \in Item,
         NEW r \in Sent, sent' = [sent EXCEPT ![a][i] = r]
  PROVE  /\ sent' \in [Agent -> [Item -> Sent]]
         /\ \A b \in Agent, j \in Item :
              sent'[b][j] = IF b = a /\ j = i THEN r ELSE sent[b][j]
<1> QED BY Update2

\* One more reply to an item is counted, on one of the two legs.
CountsReply(a, i, leg, heard) ==
  sent' = [sent EXCEPT ![a][i] = OneMore(sent[a][i], leg, heard)]

LEMMA OneMoreType ==
  ASSUME NEW r \in Sent, NEW leg \in {"am", "av"}, NEW heard \in BOOLEAN
  PROVE  /\ OneMore(r, leg, heard) \in Sent
         /\ OneMore(r, leg, heard)[leg] = UpTo(r[leg] + 1)
         /\ \A n \in {"am", "av"} : n # leg => OneMore(r, leg, heard)[n] = r[n]
         /\ OneMore(r, leg, heard)["unheard"]
              = IF heard THEN r["unheard"] ELSE UpTo(r["unheard"] + 1)
         /\ OneMore(r, leg, heard)["am"] > 0 \/ OneMore(r, leg, heard)["av"] > 0
<1> DEFINE x == UpTo(r[leg] + 1)
           y == IF heard THEN r["unheard"] ELSE UpTo(r["unheard"] + 1)
<1>1. r[leg] \in 0..Cap /\ r["unheard"] \in 0..Cap
  BY DEF Sent, Tally
<1>2. x \in 0..Cap /\ x > 0 /\ y \in 0..Cap
  BY <1>1, UpToType
<1>3. OneMore(r, leg, heard) = [r EXCEPT ![leg] = x, !["unheard"] = y]
  BY DEF OneMore, Sent, Tally
<1> HIDE DEF x, y
<1>4. /\ [r EXCEPT ![leg] = x, !["unheard"] = y] \in Sent
      /\ [r EXCEPT ![leg] = x, !["unheard"] = y][leg] = x
      /\ [r EXCEPT ![leg] = x, !["unheard"] = y]["unheard"] = y
      /\ \A n \in {"am", "av"} : n # leg => [r EXCEPT ![leg] = x, !["unheard"] = y][n] = r[n]
  BY <1>2 DEF Sent, Tally
<1> QED BY <1>2, <1>3, <1>4 DEF x, y

LEMMA SentType ==
  ASSUME TypeInv, NEW a \in Agent, NEW i \in Item, NEW leg \in {"am", "av"},
         NEW heard \in BOOLEAN, CountsReply(a, i, leg, heard)
  PROVE  /\ sent' \in [Agent -> [Item -> Sent]]
         /\ \A b \in Agent, j \in Item :
              IF b = a /\ j = i THEN Answered(b, j)' ELSE sent'[b][j] = sent[b][j]
         /\ sent'[a][i] = OneMore(sent[a][i], leg, heard)
<1>1. sent \in [Agent -> [Item -> Sent]] /\ sent[a][i] \in Sent
  BY DEF TypeInv, GhostType
<1> DEFINE r == OneMore(sent[a][i], leg, heard)
<1>2. r \in Sent /\ (r["am"] > 0 \/ r["av"] > 0)
  BY <1>1, OneMoreType
<1>3. sent' = [sent EXCEPT ![a][i] = r]
  BY DEF CountsReply
<1> HIDE DEF r
<1>4. /\ sent' \in [Agent -> [Item -> Sent]]
      /\ \A b \in Agent, j \in Item : sent'[b][j] = IF b = a /\ j = i THEN r ELSE sent[b][j]
  BY <1>1, <1>2, <1>3, SentUpdate
<1> QED BY <1>2, <1>4 DEF Answered, r

\* A leg takes the reply.
MailTaken(a) == \E heard \in BOOLEAN : MailAccepted(a, heard)
PostTaken(a) == \E heard \in BOOLEAN : PostAccepted(a, heard)

LEMMA TakenCounts ==
  ASSUME NEW a, NEW leg, NEW heard, Taken(a, leg, heard)
  PROVE  CountsReply(a, hand[a], leg, heard)
  BY DEF Taken, CountsReply

LEMMA MailCounts ==
  ASSUME TypeInv, NEW a \in Agent, hand[a] \in Item, MailTaken(a)
  PROVE  \E heard \in BOOLEAN : CountsReply(a, hand[a], "am", heard)
<1>1. PICK heard \in BOOLEAN : Taken(a, "am", heard)
  BY Zenon DEF MailTaken, MailAccepted
<1> QED BY <1>1, TakenCounts

LEMMA PostCounts ==
  ASSUME TypeInv, NEW a \in Agent, hand[a] \in Item, PostTaken(a)
  PROVE  \E heard \in BOOLEAN : CountsReply(a, hand[a], "av", heard)
<1>1. PICK heard \in BOOLEAN : Taken(a, "av", heard)
  BY Zenon DEF PostTaken, PostAccepted
<1> QED BY <1>1, TakenCounts

LEMMA MailAnswers ==
  ASSUME TypeInv, NEW a \in Agent, NEW i \in Item, hand[a] = i, MailTaken(a)
  PROVE  /\ Answered(a, i)'
         /\ \A b \in Agent, j \in Item : Answered(b, j) => Answered(b, j)'
<1>1. PICK heard \in BOOLEAN : CountsReply(a, i, "am", heard)
  BY MailCounts
<1>2. \A b \in Agent, j \in Item :
        IF b = a /\ j = i THEN Answered(b, j)' ELSE sent'[b][j] = sent[b][j]
  BY <1>1, SentType
<1> QED BY <1>2 DEF Answered

LEMMA PostAnswers ==
  ASSUME TypeInv, NEW a \in Agent, NEW i \in Item, hand[a] = i, PostTaken(a)
  PROVE  /\ Answered(a, i)'
         /\ \A b \in Agent, j \in Item : Answered(b, j) => Answered(b, j)'
<1>1. PICK heard \in BOOLEAN : CountsReply(a, i, "av", heard)
  BY PostCounts
<1>2. \A b \in Agent, j \in Item :
        IF b = a /\ j = i THEN Answered(b, j)' ELSE sent'[b][j] = sent[b][j]
  BY <1>1, SentType
<1> QED BY <1>2 DEF Answered

\* An accepted reply is put where its asker reads it.
LEMMA MailAcceptedType ==
  ASSUME TypeInv, NEW a \in Agent, hand[a] \in Item, MailTaken(a)
  PROVE  opInbox' \in Seq(Item) /\ sent' \in [Agent -> [Item -> Sent]]
<1>0. PICK heard \in BOOLEAN : CountsReply(a, hand[a], "am", heard)
  BY MailCounts
<1>1. sent' \in [Agent -> [Item -> Sent]]
  BY <1>0, SentType
<1> DEFINE r == [by |-> a, of |-> hand[a], lane |-> "am"]
<1>2. opInbox' = opInbox \/ (hand[a] \in Mail /\ opInbox' = Append(opInbox, r))
  BY DEF MailTaken, MailAccepted
<1>3. hand[a] \in Mail => r \in Item
  BY DEF Item, ReplyItem
<1> QED BY <1>1, <1>2, <1>3 DEF TypeInv, BoxType

LEMMA PostAcceptedType ==
  ASSUME TypeInv, NEW a \in Agent, hand[a] \in Item, PostTaken(a)
  PROVE  avBox' \in [Agent -> SUBSET Item] /\ sent' \in [Agent -> [Item -> Sent]]
<1>0. PICK heard \in BOOLEAN : CountsReply(a, hand[a], "av", heard)
  BY PostCounts
<1>1. sent' \in [Agent -> [Item -> Sent]]
  BY <1>0, SentType
<1>2. hand[a] \in Mail
  BY DEF PostTaken, PostAccepted, Target
<1> DEFINE r == [by |-> a, of |-> hand[a], lane |-> "av"]
<1>3. r \in Item
  BY <1>2 DEF Item, ReplyItem
<1>4. \/ avBox' = avBox
      \/ avBox' = [avBox EXCEPT ![Asker(hand[a])] = @ \cup {r}]
  BY DEF PostTaken, PostAccepted
<1> QED BY <1>1, <1>3, <1>4 DEF TypeInv, BoxType

\* Fields of a process that moves on.
LEMMA MoveType ==
  ASSUME TypeInv, NEW a \in Agent, NEW from, NEW to \in PC, Move(a, from, to)
  PROVE  /\ pc' \in [Agent -> PC]
         /\ pc[a] = from /\ pc'[a] = to
         /\ \A b \in Agent : b # a => pc'[b] = pc[b]
  BY DEF Move, TypeInv, ProcType

LEMMA ArriveTypes ==
  ASSUME TypeInv, NEW m \in Mail, Arrive(m)
  PROVE  TypeInv'
<1>1. UNCHANGED <<fileVars, procVars, kills, ghostVars>>
  BY DEF Arrive
<1>2. BoxType'
  <2>1. m \in Item
    BY ConstantFacts
  <2>2. /\ arrived' = arrived \cup {m}
        /\ avBox' = avBox \/ avBox' = [avBox EXCEPT ![Letter[m].box] = @ \cup {m}]
        /\ e2aBox' = e2aBox \/ e2aBox' = [e2aBox EXCEPT ![Letter[m].box] = @ \cup {m}]
        /\ opInbox' = opInbox \/ opInbox' = Append(opInbox, m)
    BY DEF Arrive
  <2>3. Letter[m].box \in Agent
    BY FleetAssumption DEF LetterType
  <2>4. arrived' \subseteq Mail /\ opInbox' \in Seq(Item)
    BY <2>1, <2>2 DEF TypeInv, BoxType
  <2>5. avBox' \in [Agent -> SUBSET Item]
    BY <2>1, <2>2, <2>3 DEF TypeInv, BoxType
  <2>6. e2aBox' \in [Agent -> SUBSET Mail]
    BY <2>2, <2>3 DEF TypeInv, BoxType
  <2> QED BY <2>4, <2>5, <2>6 DEF BoxType
<1> QED BY <1>1, <1>2 DEF TypeInv, FileType, ProcType, GhostType, Hands, fileVars,
                         procVars, ghostVars

LEMMA ReadLaneTypes ==
  ASSUME TypeInv, NEW a \in Agent, NEW l \in Lane, ReadLane(a, l)
  PROVE  TypeInv'
<1>1. /\ UNCHANGED <<arrived, avBox, e2aBox, opInbox, seenFile, attFile, hand, mailed,
                     kills, tries, sent>>
      /\ lane' = [lane EXCEPT ![a] = l]
      /\ items' = [items EXCEPT ![a] = Listing(a, l)]
      /\ att' = [att EXCEPT ![a] = attFile[a][l]]
  BY DEF ReadLane, boxVars, fileVars
<1>2. Listing(a, l) \subseteq Item /\ Legacy[a].ids \subseteq Item
  BY ListingType, ConstantFacts
<1>3. seenFile[a][l] \in File /\ attFile[a][l] \in Counts
  BY DEF TypeInv, FileType
<1>4. PICK to \in {"loop", "seed", "arm"} : pc' = [pc EXCEPT ![a] = to]
  BY Zenon DEF ReadLane, Move
<1>5. PICK s \in SUBSET Item : seen' = [seen EXCEPT ![a] = s]
  <2>1. \/ seen' = [seen EXCEPT ![a] = seenFile[a][l].ids]
        \/ seen' = [seen EXCEPT ![a] = Legacy[a].ids]
        \/ seen' = [seen EXCEPT ![a] = Listing(a, l)]
    BY Zenon DEF ReadLane
  <2>2. seenFile[a][l].ids \in SUBSET Item
    BY <1>3 DEF File
  <2> QED BY <1>2, <2>1, <2>2
<1>6. fate' \in [Agent -> [Item -> Fate]]
  <2>1. \/ fate' = fate \/ SetAside(a, Legacy[a].ids, "inherited")
        \/ SetAside(a, Listing(a, l), "armed")
    BY Zenon DEF ReadLane
  <2>2. "inherited" \in Fate /\ "armed" \in Fate
    BY DEF Fate
  <2> QED BY <2>1, <2>2, SetAsideType DEF TypeInv, GhostType
<1>7. pc' \in [Agent -> PC] /\ \A b \in Agent : pc'[b] \in {"sweep", "mail", "post"}
                                                => pc[b] \in {"sweep", "mail", "post"}
  BY <1>4 DEF TypeInv, ProcType, PC
<1>8. ProcType'
  BY <1>1, <1>2, <1>3, <1>5, <1>7 DEF TypeInv, ProcType
<1>9. Hands'
  BY <1>1, <1>7 DEF TypeInv, Hands
<1> QED BY <1>1, <1>6, <1>8, <1>9 DEF TypeInv, BoxType, FileType, GhostType

LEMMA TakeTypes ==
  ASSUME TypeInv, NEW a \in Agent, NEW i \in Item, Take(a, i)
  PROVE  TypeInv'
<1>1. /\ UNCHANGED <<arrived, avBox, e2aBox, opInbox, seenFile, attFile, lane, seen, att,
                     mailed, kills, fate, sent>>
      /\ items' = [items EXCEPT ![a] = @ \ {i}]
      /\ hand' = [hand EXCEPT ![a] = i]
      /\ tries' = [tries EXCEPT ![a][i] = UpTo(@ + 1)]
      /\ pc' = [pc EXCEPT ![a] = IF Verdict(a, lane[a], i) = "answer" THEN "mail" ELSE "sweep"]
  BY DEF Take, Move, boxVars, fileVars
<1>2. tries' \in [Agent -> [Item -> 0..Cap]]
  <2>1. tries \in [Agent -> [Item -> 0..Cap]] /\ tries[a][i] \in 0..Cap
    BY DEF TypeInv, GhostType
  <2>2. UpTo(tries[a][i] + 1) \in 0..Cap
    BY <2>1, UpToType
  <2>3. tries' = [tries EXCEPT ![a][i] = UpTo(tries[a][i] + 1)]
    BY <1>1, <2>1
  <2> QED BY <2>1, <2>2, <2>3, Update2
<1>3. ProcType'
  BY <1>1 DEF TypeInv, ProcType, PC
<1>4. Hands'
  BY <1>1 DEF TypeInv, ProcType, Hands
<1> QED BY <1>1, <1>2, <1>3, <1>4 DEF TypeInv, BoxType, FileType, GhostType

LEMMA SweepTypes ==
  ASSUME TypeInv, NEW a \in Agent, Sweep(a)
  PROVE  TypeInv'
<1>1. /\ UNCHANGED <<arrived, avBox, e2aBox, opInbox, seenFile, attFile, lane, items,
                     mailed, kills, tries, sent>>
      /\ hand' = [hand EXCEPT ![a] = NoItem]
      /\ pc[a] = "sweep" /\ pc' = [pc EXCEPT ![a] = "loop"]
  BY DEF Sweep, Move, boxVars, fileVars
<1>2. hand[a] \in Item
  BY <1>1 DEF TypeInv, Hands
<1>3. PICK what \in {"swept", "transcribed"} : Seen(a, hand[a], what)
  BY DEF Sweep
<1>4. /\ seen' \in [Agent -> SUBSET Item] /\ att' \in [Agent -> Counts]
      /\ fate' \in [Agent -> [Item -> Fate]]
  <2>1. what \in Fate
    BY DEF Fate
  <2> QED BY <1>2, <1>3, <2>1, SeenType
<1>5. ProcType'
  BY <1>1, <1>4 DEF TypeInv, ProcType, PC
<1>6. Hands'
  BY <1>1 DEF TypeInv, ProcType, Hands
<1> QED BY <1>1, <1>4, <1>5, <1>6 DEF TypeInv, BoxType, FileType, GhostType

LEMMA SendMailTypes ==
  ASSUME TypeInv, NEW a \in Agent, SendMail(a)
  PROVE  TypeInv'
<1>1. /\ UNCHANGED <<arrived, avBox, e2aBox, seenFile, attFile, lane, items, seen, att,
                     hand, kills, tries, fate>>
      /\ mailed' = mailed \/ mailed' = [mailed EXCEPT ![a] = TRUE]
      /\ pc[a] = "mail" /\ pc' = [pc EXCEPT ![a] = "post"]
  BY DEF SendMail, Move, fileVars
<1>2. hand[a] \in Item
  BY <1>1 DEF TypeInv, Hands
<1>3. opInbox' \in Seq(Item) /\ sent' \in [Agent -> [Item -> Sent]]
  <2>1. MailTaken(a) \/ UNCHANGED <<sent, opInbox>>
    BY DEF SendMail, MailTaken
  <2> QED BY <1>2, <2>1, MailAcceptedType DEF TypeInv, BoxType, GhostType
<1>4. ProcType'
  BY <1>1 DEF TypeInv, ProcType, PC
<1>5. Hands'
  BY <1>1, <1>2 DEF TypeInv, ProcType, Hands
<1> QED BY <1>1, <1>3, <1>4, <1>5 DEF TypeInv, BoxType, FileType, GhostType

LEMMA SendPostTypes ==
  ASSUME TypeInv, NEW a \in Agent, SendPost(a)
  PROVE  TypeInv'
<1>1. /\ UNCHANGED <<arrived, e2aBox, opInbox, seenFile, attFile, lane, items, kills, tries>>
      /\ mailed' = [mailed EXCEPT ![a] = FALSE]
      /\ hand' = [hand EXCEPT ![a] = NoItem]
      /\ pc[a] = "post" /\ pc' = [pc EXCEPT ![a] = "loop"]
  BY DEF SendPost, Move, fileVars
<1>2. hand[a] \in Item /\ mailed[a] \in BOOLEAN
  BY <1>1 DEF TypeInv, Hands, ProcType
<1>3. avBox' \in [Agent -> SUBSET Item] /\ sent' \in [Agent -> [Item -> Sent]]
  <2>1. PostTaken(a) \/ UNCHANGED <<avBox, sent>>
    BY DEF SendPost, PostTaken
  <2> QED BY <1>2, <2>1, PostAcceptedType DEF TypeInv, BoxType, GhostType
<1>4. /\ seen' \in [Agent -> SUBSET Item] /\ att' \in [Agent -> Counts]
      /\ fate' \in [Agent -> [Item -> Fate]]
  <2>1. PICK ok \in BOOLEAN : Outcome(a, ok)
    BY <1>2 DEF SendPost
  <2> QED BY <1>2, <2>1, OutcomeType
<1>5. ProcType'
  BY <1>1, <1>4 DEF TypeInv, ProcType, PC
<1>6. Hands'
  BY <1>1 DEF TypeInv, ProcType, Hands
<1> QED BY <1>1, <1>3, <1>4, <1>5, <1>6 DEF TypeInv, BoxType, FileType, GhostType

LEMMA WriteSeenType ==
  ASSUME TypeInv, NEW a \in Agent, NEW ids \in SUBSET Item, WriteSeen(a, ids)
  PROVE  /\ seenFile' \in [Agent -> [Lane -> File]]
         /\ \A b \in Agent, l \in Lane :
              seenFile'[b][l] = IF b = a /\ l = lane[a] THEN [exists |-> TRUE, ids |-> ids]
                                                        ELSE seenFile[b][l]
<1> DEFINE r == [exists |-> TRUE, ids |-> ids]
<1>1. r \in File
  BY DEF File
<1>2. seenFile \in [Agent -> [Lane -> File]] /\ lane[a] \in Lane
  BY DEF TypeInv, FileType, ProcType
<1>3. seenFile' = [seenFile EXCEPT ![a][lane[a]] = r]
  BY DEF WriteSeen
<1> HIDE DEF r
<1>4. /\ seenFile' \in [Agent -> [Lane -> File]]
      /\ \A b \in Agent, l \in Lane :
           seenFile'[b][l] = IF b = a /\ l = lane[a] THEN r ELSE seenFile[b][l]
  BY <1>1, <1>2, <1>3, Update2
<1> QED BY <1>4, Zenon DEF r

LEMMA WriteAttemptsType ==
  ASSUME TypeInv, NEW a \in Agent, NEW counts \in Counts, WriteAttempts(a, counts)
  PROVE  /\ attFile' \in [Agent -> [Lane -> Counts]]
         /\ \A b \in Agent, l \in Lane :
              attFile'[b][l] = IF b = a /\ l = lane[a] THEN counts ELSE attFile[b][l]
<1>1. attFile \in [Agent -> [Lane -> Counts]] /\ lane[a] \in Lane
  BY DEF TypeInv, FileType, ProcType
<1>2. attFile' = [attFile EXCEPT ![a][lane[a]] = counts]
  BY DEF WriteAttempts
<1> QED BY <1>1, <1>2, Update2

LEMMA LeaveLaneType ==
  ASSUME TypeInv, NEW a \in Agent, LeaveLane(a)
  PROVE  /\ items' \in [Agent -> SUBSET Item]
         /\ seen' \in [Agent -> SUBSET Item]
         /\ att' \in [Agent -> Counts]
  BY ConstantFacts DEF LeaveLane, TypeInv, ProcType

LEMMA SaveTypes ==
  ASSUME TypeInv, NEW a \in Agent, Save(a)
  PROVE  TypeInv'
<1>1. /\ UNCHANGED <<arrived, avBox, e2aBox, opInbox, lane, hand, mailed, kills, tries,
                     fate, sent>>
      /\ WriteSeen(a, seen[a])
  BY DEF Save, boxVars, ghostVars
<1>2. seen[a] \in SUBSET Item /\ att[a] \in Counts
  BY DEF TypeInv, ProcType
<1>3. seenFile' \in [Agent -> [Lane -> File]]
  BY <1>1, <1>2, WriteSeenType
<1>4. attFile' \in [Agent -> [Lane -> Counts]]
  <2>1. attFile' = attFile \/ WriteAttempts(a, att[a])
    BY Zenon DEF Save
  <2> QED BY <1>2, <2>1, WriteAttemptsType DEF TypeInv, FileType
<1>5. /\ items' \in [Agent -> SUBSET Item]
      /\ seen' \in [Agent -> SUBSET Item]
      /\ att' \in [Agent -> Counts]
  <2>1. LeaveLane(a) \/ UNCHANGED <<items, seen, att>>
    BY Zenon DEF Save
  <2> QED BY <2>1, LeaveLaneType DEF TypeInv, ProcType
<1>6. PICK to \in {"idle", "loop"} : pc' = [pc EXCEPT ![a] = to]
  BY Zenon DEF Save, Move
<1>7. ProcType'
  BY <1>1, <1>5, <1>6 DEF TypeInv, ProcType, PC
<1>8. Hands'
  BY <1>1, <1>6 DEF TypeInv, ProcType, Hands
<1> QED BY <1>1, <1>3, <1>4, <1>7, <1>8 DEF TypeInv, BoxType, FileType, GhostType

\* What a kill may make of the files.
LEMMA TornFiles ==
  ASSUME TypeInv, NEW a \in Agent, UNCHANGED fileVars \/ TornSave(a)
  PROVE  /\ seenFile' \in [Agent -> [Lane -> File]]
         /\ attFile' \in [Agent -> [Lane -> Counts]]
         /\ \A b \in Agent, l \in Lane :
              /\ \/ seenFile'[b][l] = seenFile[b][l]
                 \/ /\ b = a /\ l = lane[a] /\ pc[a] \in {"arm", "seed", "loop"}
                    /\ seenFile'[b][l].exists /\ seenFile'[b][l].ids \subseteq seen[a]
              /\ attFile'[b][l] = attFile[b][l] \/ attFile'[b][l] = NoAttempts
<1>1. /\ {} \in SUBSET Item /\ seen[a] \in SUBSET Item /\ NoAttempts \in Counts
      /\ seenFile \in [Agent -> [Lane -> File]] /\ attFile \in [Agent -> [Lane -> Counts]]
  BY ConstantFacts DEF TypeInv, ProcType, FileType
<1>2. \/ seenFile' = seenFile
      \/ /\ WriteSeen(a, {}) \/ WriteSeen(a, seen[a])
         /\ pc[a] \in {"arm", "seed", "loop"}
  BY DEF TornSave, fileVars
<1>3. attFile' = attFile \/ WriteAttempts(a, NoAttempts)
  BY DEF TornSave, fileVars
<1>4. CASE seenFile' = seenFile
  <2>1. /\ attFile' \in [Agent -> [Lane -> Counts]]
        /\ \A b \in Agent, l \in Lane :
             attFile'[b][l] = attFile[b][l] \/ attFile'[b][l] = NoAttempts
    BY <1>1, <1>3, WriteAttemptsType
  <2> QED BY <1>1, <1>4, <2>1
<1>5. ASSUME NEW ids \in {{}, seen[a]}, WriteSeen(a, ids)
      PROVE  /\ seenFile' \in [Agent -> [Lane -> File]]
             /\ \A b \in Agent, l \in Lane :
                  \/ seenFile'[b][l] = seenFile[b][l]
                  \/ /\ b = a /\ l = lane[a]
                     /\ seenFile'[b][l].exists /\ seenFile'[b][l].ids \subseteq seen[a]
  <2>1. ids \in SUBSET Item /\ ids \subseteq seen[a]
    BY <1>1
  <2>2. /\ seenFile' \in [Agent -> [Lane -> File]]
        /\ \A b \in Agent, l \in Lane :
             seenFile'[b][l] = IF b = a /\ l = lane[a] THEN [exists |-> TRUE, ids |-> ids]
                                                       ELSE seenFile[b][l]
    BY <1>5, <2>1, WriteSeenType
  <2> QED BY <2>1, <2>2
<1>6. /\ attFile' \in [Agent -> [Lane -> Counts]]
      /\ \A b \in Agent, l \in Lane :
           attFile'[b][l] = attFile[b][l] \/ attFile'[b][l] = NoAttempts
  BY <1>1, <1>3, WriteAttemptsType
<1> QED BY <1>2, <1>4, <1>5, <1>6

LEMMA KillTypes ==
  ASSUME TypeInv, NEW a \in Agent, Kill(a)
  PROVE  TypeInv'
<1>1. /\ UNCHANGED <<arrived, avBox, e2aBox, opInbox, lane, tries, fate, sent>>
      /\ UNCHANGED fileVars \/ TornSave(a)
      /\ LeaveLane(a)
      /\ hand' = [hand EXCEPT ![a] = NoItem]
      /\ mailed' = [mailed EXCEPT ![a] = FALSE]
      /\ pc' = [pc EXCEPT ![a] = "down"]
      /\ kills[a] < MaxKills /\ kills' = [kills EXCEPT ![a] = kills[a] + 1]
  BY DEF Kill, boxVars, ghostVars
<1>2. FileType'
  BY <1>1, TornFiles DEF FileType
<1>3. /\ items' \in [Agent -> SUBSET Item] /\ seen' \in [Agent -> SUBSET Item]
      /\ att' \in [Agent -> Counts]
  BY <1>1, LeaveLaneType
<1>4. ProcType'
  <2>1. kills' \in [Agent -> 0..MaxKills]
    <3>1. kills \in [Agent -> 0..MaxKills] /\ kills[a] + 1 \in 0..MaxKills
      BY <1>1, ConstantFacts DEF TypeInv, ProcType
    <3> QED BY <1>1, <3>1
  <2>2. pc' \in [Agent -> PC] /\ hand' \in [Agent -> Item \cup {NoItem}]
        /\ mailed' \in [Agent -> BOOLEAN] /\ lane' \in [Agent -> Lane]
    BY <1>1 DEF TypeInv, ProcType, PC
  <2> QED BY <1>3, <2>1, <2>2 DEF ProcType
<1>5. Hands'
  BY <1>1 DEF TypeInv, ProcType, Hands
<1> QED BY <1>1, <1>2, <1>4, <1>5 DEF TypeInv, BoxType, GhostType

LEMMA RestartTypes ==
  ASSUME TypeInv, NEW a \in Agent, Restart(a)
  PROVE  TypeInv'
<1>1. /\ UNCHANGED <<arrived, avBox, e2aBox, opInbox, seenFile, attFile, lane, items, seen,
                     att, hand, mailed, kills, tries, fate, sent>>
      /\ pc' = [pc EXCEPT ![a] = "idle"]
  BY DEF Restart, Move, boxVars, fileVars, ghostVars
<1> QED BY <1>1 DEF TypeInv, BoxType, FileType, ProcType, PC, GhostType, Hands

LEMMA TypeStep == TypeInv /\ [Next]_vars => TypeInv'
<1> SUFFICES ASSUME TypeInv, [Next]_vars PROVE TypeInv'
  OBVIOUS
<1>1. ASSUME NEW m \in Mail, Arrive(m) PROVE TypeInv'
  BY <1>1, ArriveTypes
<1>2. ASSUME NEW a \in Agent, NEW l \in Lane, ReadLane(a, l) PROVE TypeInv'
  BY <1>2, ReadLaneTypes
<1>3. ASSUME NEW a \in Agent, Serve(a) PROVE TypeInv'
  BY <1>3, TakeTypes, SweepTypes, SendMailTypes, SendPostTypes, SaveTypes DEF Serve
<1>4. ASSUME NEW a \in Agent, Kill(a) \/ Restart(a) PROVE TypeInv'
  BY <1>4, KillTypes, RestartTypes
<1>5. CASE UNCHANGED vars
  <2>1. UNCHANGED <<boxVars, fileVars, procVars, kills, ghostVars>>
    BY <1>5 DEF vars
  <2> QED BY <2>1 DEF TypeInv, BoxType, FileType, ProcType, GhostType, Hands, boxVars,
                      fileVars, procVars, ghostVars
<1> QED BY <1>1, <1>2, <1>3, <1>4, <1>5 DEF Next

\* The fleet's variables keep their types, and no attempts count reaches the limit,
\* for any agents, mail, faults and kills (load_attempts, save_attempts).
THEOREM TypeCorrect == Spec => []TypeOK
<1> QED BY InitTypeInv, TypeStep, TypeInvOK, PTL DEF Spec

-----------------------------------------------------------------------------
(* What an agent answers. *)

\* The items that may be in lane l of agent a.
Belongs(a, l, i) ==
  i \in ReplyItem \/ (Letter[i].lane = l /\ (l # "am" => Letter[i].box = a))

\* The lanes hold what belongs to them; the process looks only at what was in the
\* lane it has read; and what it answers, Verdict has let through.
LaneInv ==
  /\ \A a \in Agent : \A i \in avBox[a] : Belongs(a, "av", i)
  /\ \A a \in Agent : \A i \in e2aBox[a] : Belongs(a, "e2a", i)
  /\ \A j \in DOMAIN opInbox : \A a \in Agent : Belongs(a, "am", opInbox[j])
  /\ \A a \in Agent : \A i \in items[a] : Belongs(a, lane[a], i)
  /\ \A a \in Agent : pc[a] \in {"mail", "post"} =>
       /\ Belongs(a, lane[a], hand[a])
       /\ Verdict(a, lane[a], hand[a]) = "answer"

\* What an agent may answer: mail, not a reply, and addressed to it.
MayAnswer(a, i) ==
  /\ i \in Mail \ ReplyItem
  /\ IF Letter[i].lane = "am" THEN Letter[i].to \in {a, "none"} ELSE Letter[i].box = a

AnswerInv == \A a \in Agent, i \in Item : Answered(a, i) => MayAnswer(a, i)

\* What Verdict lets through may be answered.
LEMMA VerdictAllows ==
  ASSUME TypeInv, LaneInv, NEW a \in Agent, pc[a] \in {"mail", "post"}
  PROVE  MayAnswer(a, hand[a])
<1>1. hand[a] \in Item /\ lane[a] \in Lane
  BY DEF TypeInv, Hands, ProcType
<1>2. Belongs(a, lane[a], hand[a]) /\ Verdict(a, lane[a], hand[a]) = "answer"
  BY DEF LaneInv
<1>3. ~ IsTerminal(hand[a]) /\ (lane[a] = "am" => ForMe(a, hand[a]))
  BY <1>2 DEF Verdict
<1>4. hand[a] \in Mail \ ReplyItem
  BY <1>1, <1>3 DEF IsTerminal, Item
<1>5. Letter[hand[a]].lane = lane[a] /\ (lane[a] # "am" => Letter[hand[a]].box = a)
  BY <1>2, <1>4 DEF Belongs
<1>6. lane[a] = "am" => Letter[hand[a]].to \in {a, "none"}
  BY <1>3, <1>4 DEF ForMe, Addressee
<1> QED BY <1>4, <1>5, <1>6 DEF MayAnswer

LEMMA AnswerStep == TypeInv /\ LaneInv /\ AnswerInv /\ [Next]_vars => AnswerInv'
<1> SUFFICES ASSUME TypeInv, LaneInv, AnswerInv, [Next]_vars PROVE AnswerInv'
  OBVIOUS
<1>1. CASE UNCHANGED sent
  BY <1>1 DEF AnswerInv, Answered, MayAnswer
<1>2. ASSUME NEW a \in Agent, pc[a] \in {"mail", "post"}, hand[a] \in Item,
             MailTaken(a) \/ PostTaken(a)
      PROVE  AnswerInv'
  <2>1. \A b \in Agent, j \in Item :
          IF b = a /\ j = hand[a] THEN Answered(b, j)' ELSE sent'[b][j] = sent[b][j]
    <3>1. PICK leg \in {"am", "av"}, heard \in BOOLEAN : CountsReply(a, hand[a], leg, heard)
      BY <1>2, MailCounts, PostCounts
    <3> QED BY <1>2, <3>1, SentType
  <2>2. MayAnswer(a, hand[a])
    BY <1>2, VerdictAllows
  <2>3. ASSUME NEW b \in Agent, NEW j \in Item, Answered(b, j)'
        PROVE  MayAnswer(b, j)
    <3>1. CASE b = a /\ j = hand[a]
      BY <2>2, <3>1
    <3>2. CASE ~ (b = a /\ j = hand[a])
      BY <2>1, <2>3, <3>2 DEF AnswerInv, Answered
    <3> QED BY <3>1, <3>2
  <2> QED BY <2>3 DEF AnswerInv, MayAnswer
<1>3. ASSUME NEW a \in Agent, SendMail(a) \/ SendPost(a) PROVE AnswerInv'
  <2>1. pc[a] \in {"mail", "post"} /\ hand[a] \in Item
    BY <1>3 DEF SendMail, SendPost, Move, TypeInv, Hands
  <2>2. MailTaken(a) \/ PostTaken(a) \/ UNCHANGED sent
    BY <1>3 DEF SendMail, SendPost, MailTaken, PostTaken
  <2> QED BY <1>1, <1>2, <2>1, <2>2
<1>4. ASSUME NEW m \in Mail, Arrive(m) PROVE AnswerInv'
  BY <1>1, <1>4 DEF Arrive, ghostVars
<1>5. ASSUME NEW a \in Agent,
             \/ \E l \in Lane : ReadLane(a, l)
             \/ \E i \in Item : Take(a, i)
             \/ Sweep(a) \/ Save(a) \/ Kill(a) \/ Restart(a)
      PROVE  AnswerInv'
  BY <1>1, <1>5 DEF ReadLane, Take, Sweep, Save, Kill, Restart, ghostVars
<1>6. CASE UNCHANGED vars
  BY <1>1, <1>6 DEF vars, ghostVars
<1> QED BY <1>3, <1>4, <1>5, <1>6 DEF Next, Serve

LEMMA LaneArrives ==
  ASSUME TypeInv, LaneInv, NEW m \in Mail, Arrive(m)
  PROVE  LaneInv'
<1>1. UNCHANGED <<items, lane, pc, hand>>
  BY DEF Arrive, procVars
<1>2. Letter[m].box \in Agent /\ Letter[m].lane \in Lane
  BY FleetAssumption DEF LetterType
<1> DEFINE b == Letter[m].box
<1>7. Belongs(b, Letter[m].lane, m) /\ (Letter[m].lane = "am" => \A a : Belongs(a, "am", m))
  BY DEF Belongs
<1>8. b \in Agent
  BY <1>2
<1>3. \A a \in Agent : \A i \in avBox'[a] : Belongs(a, "av", i)
  <2>1. avBox' = avBox
        \/ (Letter[m].lane = "av" /\ avBox' = [avBox EXCEPT ![b] = @ \cup {m}])
    BY DEF Arrive
  <2>2. avBox \in [Agent -> SUBSET Item] /\ \A a \in Agent : \A i \in avBox[a] : Belongs(a, "av", i)
    BY DEF LaneInv, TypeInv, BoxType
  <2> HIDE DEF b
  <2>3. ASSUME NEW a \in Agent, NEW i \in avBox'[a] PROVE i \in avBox[a] \/ (Letter[m].lane = "av" /\ i = m /\ a = b)
    BY <1>8, <2>1, <2>2
  <2> QED BY <1>7, <2>2, <2>3
<1>4. \A a \in Agent : \A i \in e2aBox'[a] : Belongs(a, "e2a", i)
  <2>1. e2aBox' = e2aBox
        \/ (Letter[m].lane = "e2a" /\ e2aBox' = [e2aBox EXCEPT ![b] = @ \cup {m}])
    BY DEF Arrive
  <2>2. e2aBox \in [Agent -> SUBSET Mail] /\ \A a \in Agent : \A i \in e2aBox[a] : Belongs(a, "e2a", i)
    BY DEF LaneInv, TypeInv, BoxType
  <2> HIDE DEF b
  <2>3. ASSUME NEW a \in Agent, NEW i \in e2aBox'[a] PROVE i \in e2aBox[a] \/ (Letter[m].lane = "e2a" /\ i = m /\ a = b)
    BY <1>8, <2>1, <2>2
  <2> QED BY <1>7, <2>2, <2>3
<1>5. \A j \in DOMAIN opInbox' : \A a \in Agent : Belongs(a, "am", opInbox'[j])
  <2>1. opInbox' = opInbox \/ (Letter[m].lane = "am" /\ opInbox' = Append(opInbox, m))
    BY DEF Arrive
  <2>2. opInbox \in Seq(Item) /\ \A j \in DOMAIN opInbox : \A a \in Agent : Belongs(a, "am", opInbox[j])
    BY DEF LaneInv, TypeInv, BoxType
  <2>3. ASSUME NEW j \in DOMAIN opInbox'
        PROVE  \/ j \in DOMAIN opInbox /\ opInbox'[j] = opInbox[j]
               \/ Letter[m].lane = "am" /\ opInbox'[j] = m
    BY <2>1, <2>2
  <2> QED BY <1>7, <2>2, <2>3
<1>6. /\ \A a \in Agent : \A i \in items'[a] : Belongs(a, lane'[a], i)
      /\ \A a \in Agent : pc'[a] \in {"mail", "post"} =>
           /\ Belongs(a, lane'[a], hand'[a])
           /\ Verdict(a, lane'[a], hand'[a]) = "answer"
  BY <1>1, Zenon DEF LaneInv
<1> QED BY <1>3, <1>4, <1>5, <1>6, Zenon DEF LaneInv, Belongs, Verdict

\* The boxes change only by mail and by replies, which belong anywhere.
LEMMA BoxesKept ==
  ASSUME TypeInv, LaneInv, e2aBox' = e2aBox,
         \/ avBox' = avBox
         \/ \E a \in Agent, r \in ReplyItem : avBox' = [avBox EXCEPT ![a] = @ \cup {r}],
         opInbox' = opInbox \/ \E r \in ReplyItem : opInbox' = Append(opInbox, r)
  PROVE  /\ \A a \in Agent : \A i \in avBox'[a] : Belongs(a, "av", i)
         /\ \A a \in Agent : \A i \in e2aBox'[a] : Belongs(a, "e2a", i)
         /\ \A j \in DOMAIN opInbox' : \A a \in Agent : Belongs(a, "am", opInbox'[j])
<1>1. \A a \in Agent : \A i \in avBox'[a] : Belongs(a, "av", i)
  BY DEF LaneInv, Belongs, TypeInv, BoxType
<1>2. \A j \in DOMAIN opInbox' : \A a \in Agent : Belongs(a, "am", opInbox'[j])
  <2>1. opInbox \in Seq(Item)
    BY DEF TypeInv, BoxType
  <2> QED BY <2>1 DEF LaneInv, Belongs
<1> QED BY <1>1, <1>2 DEF LaneInv

\* The part of LaneInv that is about the processes.
ProcessInv ==
  /\ \A a \in Agent : \A i \in items[a] : Belongs(a, lane[a], i)
  /\ \A a \in Agent : pc[a] \in {"mail", "post"} =>
       /\ Belongs(a, lane[a], hand[a])
       /\ Verdict(a, lane[a], hand[a]) = "answer"

LEMMA ListingBelongs ==
  ASSUME TypeInv, LaneInv, NEW a \in Agent, NEW l \in Lane, NEW i \in Listing(a, l)
  PROVE  Belongs(a, l, i)
<1>1. CASE l = "av"
  BY <1>1 DEF Listing, LaneInv
<1>2. CASE l = "e2a"
  BY <1>2 DEF Listing, LaneInv
<1>3. CASE l = "am"
  <2>1. PICK j \in DOMAIN opInbox : i = opInbox[j]
    BY <1>3 DEF Listing, Newest
  <2> QED BY <1>3, <2>1 DEF LaneInv
<1> QED BY <1>1, <1>2, <1>3 DEF Lane

\* A step of process a leaves the others alone, and takes a where it holds nothing
\* that it would answer, or to the next leg.
LEMMA ProcessKept ==
  ASSUME TypeInv, ProcessInv, NEW a \in Agent,
         NEW to \in PC, pc' = [pc EXCEPT ![a] = to], lane' = lane,
         \A b \in Agent : items'[b] \subseteq items[b],
         \A b \in Agent : b # a => hand'[b] = hand[b],
         to \in {"mail", "post"} => /\ Belongs(a, lane[a], hand'[a])
                                    /\ Verdict(a, lane[a], hand'[a]) = "answer"
  PROVE  ProcessInv'
<1>1. pc \in [Agent -> PC]
  BY DEF TypeInv, ProcType
<1>2. ASSUME NEW b \in Agent, NEW i \in items'[b] PROVE Belongs(b, lane'[b], i)
  BY <1>2 DEF ProcessInv
<1>3. ASSUME NEW b \in Agent, pc'[b] \in {"mail", "post"}
      PROVE  /\ Belongs(b, lane'[b], hand'[b])
             /\ Verdict(b, lane'[b], hand'[b]) = "answer"
  <2>1. CASE b = a
    BY <1>1, <1>3, <2>1
  <2>2. CASE b # a
    <3>1. pc'[b] = pc[b] /\ hand'[b] = hand[b] /\ lane'[b] = lane[b]
      BY <1>1, <2>2
    <3> QED BY <1>3, <3>1 DEF ProcessInv
  <2> QED BY <2>1, <2>2
<1> QED BY <1>2, <1>3, Zenon DEF ProcessInv, Belongs, Verdict

LEMMA LaneSplit == LaneInv => ProcessInv
  BY Zenon DEF LaneInv, ProcessInv

LEMMA LaneJoin ==
  ASSUME ProcessInv',
         \A a \in Agent : \A i \in avBox'[a] : Belongs(a, "av", i),
         \A a \in Agent : \A i \in e2aBox'[a] : Belongs(a, "e2a", i),
         \A j \in DOMAIN opInbox' : \A a \in Agent : Belongs(a, "am", opInbox'[j])
  PROVE  LaneInv'
  BY Zenon DEF LaneInv, ProcessInv, Belongs

LEMMA LaneReads ==
  ASSUME TypeInv, LaneInv, NEW a \in Agent, NEW l \in Lane, ReadLane(a, l)
  PROVE  LaneInv'
<1>1. /\ UNCHANGED <<avBox, e2aBox, opInbox, hand>>
      /\ lane' = [lane EXCEPT ![a] = l]
      /\ items' = [items EXCEPT ![a] = Listing(a, l)]
  BY DEF ReadLane, boxVars
<1>2. PICK to \in {"loop", "seed", "arm"} : pc' = [pc EXCEPT ![a] = to]
  BY Zenon DEF ReadLane, Move
<1>3. /\ pc \in [Agent -> PC] /\ lane \in [Agent -> Lane] /\ items \in [Agent -> SUBSET Item]
  BY DEF TypeInv, ProcType
<1>4. ASSUME NEW b \in Agent, NEW i \in items'[b] PROVE Belongs(b, lane'[b], i)
  <2>1. CASE b = a
    <3>1. lane'[b] = l /\ items'[b] = Listing(a, l)
      BY <1>1, <1>3, <2>1
    <3> QED BY <1>4, <2>1, <3>1, ListingBelongs
  <2>2. CASE b # a
    <3>1. lane'[b] = lane[b] /\ items'[b] = items[b]
      BY <1>1, <1>3, <2>2
    <3> QED BY <1>4, <3>1 DEF LaneInv
  <2> QED BY <2>1, <2>2
<1>5. ASSUME NEW b \in Agent, pc'[b] \in {"mail", "post"}
      PROVE  /\ Belongs(b, lane'[b], hand'[b])
             /\ Verdict(b, lane'[b], hand'[b]) = "answer"
  <2>1. b # a /\ pc'[b] = pc[b]
    BY <1>2, <1>3, <1>5
  <2>2. lane'[b] = lane[b] /\ hand'[b] = hand[b]
    BY <1>1, <1>3, <2>1
  <2> QED BY <1>5, <2>1, <2>2 DEF LaneInv
<1>6. ProcessInv'
  BY <1>4, <1>5, Zenon DEF ProcessInv, Belongs, Verdict
<1>7. /\ \A b \in Agent : \A i \in avBox'[b] : Belongs(b, "av", i)
      /\ \A b \in Agent : \A i \in e2aBox'[b] : Belongs(b, "e2a", i)
      /\ \A j \in DOMAIN opInbox' : \A b \in Agent : Belongs(b, "am", opInbox'[j])
  BY <1>1 DEF LaneInv
<1> QED BY <1>6, <1>7, LaneJoin

LEMMA LaneStep == TypeInv /\ LaneInv /\ [Next]_vars => LaneInv'
<1> SUFFICES ASSUME TypeInv, LaneInv, [Next]_vars PROVE LaneInv'
  OBVIOUS
<1>0. ProcessInv
  BY LaneSplit
<1>1. ASSUME NEW m \in Mail, Arrive(m) PROVE LaneInv'
  BY <1>1, LaneArrives
<1>2. ASSUME NEW a \in Agent, NEW l \in Lane, ReadLane(a, l) PROVE LaneInv'
  BY <1>2, LaneReads
<1>3. ASSUME NEW a \in Agent, NEW i \in Item, Take(a, i) PROVE LaneInv'
  <2>1. /\ UNCHANGED <<avBox, e2aBox, opInbox, lane>>
        /\ items' = [items EXCEPT ![a] = @ \ {i}]
        /\ hand' = [hand EXCEPT ![a] = i]
        /\ i \in items[a]
    BY <1>3 DEF Take, boxVars
  <2>2. /\ hand'[a] = i /\ \A b \in Agent : b # a => hand'[b] = hand[b]
        /\ \A b \in Agent : items'[b] \subseteq items[b]
    BY <2>1 DEF TypeInv, ProcType
  <2>3. CASE Verdict(a, lane[a], i) = "answer"
    <3>1. pc' = [pc EXCEPT ![a] = "mail"] /\ "mail" \in PC
      BY <1>3, <2>3 DEF Take, Move, PC
    <3>2. Belongs(a, lane[a], i)
      BY <2>1 DEF LaneInv
    <3>3. ProcessInv'
      BY <1>0, <2>1, <2>2, <2>3, <3>1, <3>2, ProcessKept
    <3> QED BY <2>1, <3>3, BoxesKept, LaneJoin
  <2>4. CASE Verdict(a, lane[a], i) # "answer"
    <3>1. pc' = [pc EXCEPT ![a] = "sweep"] /\ "sweep" \in PC
      BY <1>3, <2>4 DEF Take, Move, PC
    <3>2. ProcessInv'
      BY <1>0, <2>1, <2>2, <3>1, ProcessKept
    <3> QED BY <2>1, <3>2, BoxesKept, LaneJoin
  <2> QED BY <2>3, <2>4
<1>4. ASSUME NEW a \in Agent, SendMail(a) PROVE LaneInv'
  <2>1. /\ UNCHANGED <<avBox, e2aBox, lane, items, hand>>
        /\ pc[a] = "mail" /\ pc' = [pc EXCEPT ![a] = "post"] /\ "post" \in PC
    BY <1>4 DEF SendMail, Move, PC
  <2>2. opInbox' = opInbox \/ \E r \in ReplyItem : opInbox' = Append(opInbox, r)
    BY <1>4 DEF SendMail, MailTaken, MailAccepted, ReplyItem
  <2>3. ProcessInv'
    <3>1. Belongs(a, lane[a], hand'[a]) /\ Verdict(a, lane[a], hand'[a]) = "answer"
      BY <2>1 DEF LaneInv
    <3> QED BY <1>0, <2>1, <3>1, ProcessKept
  <2> QED BY <2>1, <2>2, <2>3, BoxesKept, LaneJoin
<1>5. ASSUME NEW a \in Agent, SendPost(a) PROVE LaneInv'
  <2>1. /\ UNCHANGED <<e2aBox, opInbox, lane, items>>
        /\ hand' = [hand EXCEPT ![a] = NoItem]
        /\ pc' = [pc EXCEPT ![a] = "loop"] /\ "loop" \in PC
    BY <1>5 DEF SendPost, Move, PC
  <2>2. avBox' = avBox
        \/ \E b \in Agent, r \in ReplyItem : avBox' = [avBox EXCEPT ![b] = @ \cup {r}]
    BY <1>5 DEF SendPost, PostTaken, PostAccepted, Target, ReplyItem
  <2>3. ProcessInv'
    <3>1. \A b \in Agent : b # a => hand'[b] = hand[b]
      BY <2>1 DEF TypeInv, ProcType
    <3> QED BY <1>0, <2>1, <3>1, ProcessKept
  <2> QED BY <2>1, <2>2, <2>3, BoxesKept, LaneJoin
<1>6. ASSUME NEW a \in Agent, Sweep(a) \/ Save(a) \/ Kill(a) \/ Restart(a) PROVE LaneInv'
  <2>1. /\ UNCHANGED <<avBox, e2aBox, opInbox, lane>>
        /\ hand' = hand \/ hand' = [hand EXCEPT ![a] = NoItem]
        /\ items' = items \/ items' = [items EXCEPT ![a] = {}]
    BY <1>6, Zenon DEF Sweep, Save, Kill, Restart, LeaveLane, boxVars
  <2>2. PICK to \in {"loop", "idle", "down"} : pc' = [pc EXCEPT ![a] = to]
    BY <1>6, Zenon DEF Sweep, Save, Kill, Restart, Move
  <2>3. ProcessInv'
    <3>1. /\ \A b \in Agent : b # a => hand'[b] = hand[b]
          /\ \A b \in Agent : items'[b] \subseteq items[b]
      BY <2>1 DEF TypeInv, ProcType
    <3>2. to \in PC /\ to \notin {"mail", "post"}
      BY DEF PC
    <3> QED BY <1>0, <2>1, <2>2, <3>1, <3>2, ProcessKept
  <2> QED BY <2>1, <2>3, BoxesKept, LaneJoin
<1>7. CASE UNCHANGED vars
  BY <1>7 DEF vars, boxVars, procVars, LaneInv, Belongs, Verdict
<1> QED BY <1>1, <1>2, <1>3, <1>4, <1>5, <1>6, <1>7 DEF Next, Serve

LEMMA AnswerInit == Init => LaneInv /\ AnswerInv
<1> SUFFICES ASSUME Init PROVE LaneInv /\ AnswerInv
  OBVIOUS
<1>1. \A a \in Agent : \A i \in avBox[a] : Belongs(a, "av", i)
  BY FleetAssumption DEF Init, Belongs
<1>2. LaneInv
  BY <1>1 DEF Init, LaneInv
<1>3. AnswerInv
  <2>1. \A a \in Agent, i \in Item : sent[a][i] = [n \in Tally |-> 0]
    BY DEF Init
  <2>2. \A a \in Agent, i \in Item : ~ Answered(a, i)
    BY <2>1 DEF Answered, Tally
  <2> QED BY <2>2 DEF AnswerInv
<1> QED BY <1>2, <1>3

\* No agent of the fleet ever answers a reply, however many lanes and inboxes carry
\* it to whom (the terminal rule of handle and _handle_decoded).
THEOREM RepliesAreTheEnd == Spec => []RepliesEndIt
<1>1. AnswerInv => RepliesEndIt
  BY DEF AnswerInv, MayAnswer, RepliesEndIt, Item
<1> QED BY <1>1, InitTypeInv, TypeStep, AnswerInit, LaneStep, AnswerStep, PTL DEF Spec

\* An agent answers only what is its own: mail of its own mailboxes, and mail of the
\* shared inbox that names it or nobody (the recipient filter of handle).
THEOREM OnlyOwnMailAnswered == Spec => []OwnMailOnly
<1>1. AnswerInv => OwnMailOnly
  BY DEF AnswerInv, MayAnswer, OwnMailOnly, Item
<1> QED BY <1>1, InitTypeInv, TypeStep, AnswerInit, LaneStep, AnswerStep, PTL DEF Spec

-----------------------------------------------------------------------------
(* What is recorded as seen was earned. *)

Earned(a, i) ==
  \/ fate[a][i] \in {"armed", "inherited", "swept", "transcribed"}
  \/ Answered(a, i)
  \/ tries[a][i] >= MaxAttempts

\* No count of failures, in a file or in a process, exceeds the tries made; the
\* item in hand has one try that no count includes.
Counted ==
  \A a \in Agent, i \in Item :
    /\ \A l \in Lane : attFile[a][l][i] <= tries[a][i]
    /\ att[a][i] <= tries[a][i]
    /\ pc[a] \in {"sweep", "mail", "post"} /\ hand[a] = i => att[a][i] < tries[a][i]

\* A reply AgentMail is known to have taken is the one in hand.
MailedInv == \A a \in Agent : mailed[a] => pc[a] = "post" /\ Answered(a, hand[a])

Recorded(a, i) ==
  i \in seen[a] \/ (\E l \in Lane : i \in seenFile[a][l].ids) \/ fate[a][i] # "open"

EarnedInv ==
  /\ Counted
  /\ MailedInv
  /\ \A a \in Agent, i \in Item : Recorded(a, i) => Earned(a, i)

LEMMA NumberFacts ==
  ASSUME TypeInv
  PROVE  \A a \in Agent, i \in Item :
           /\ tries[a][i] \in 0..Cap /\ tries[a][i] \in Nat
           /\ att[a][i] \in 0..(MaxAttempts - 1) /\ att[a][i] \in Nat
           /\ att[a][i] < MaxAttempts /\ att[a][i] < Cap
           /\ \A l \in Lane : attFile[a][l][i] \in Nat
<1>1. /\ tries \in [Agent -> [Item -> 0..Cap]]
      /\ att \in [Agent -> [Item -> 0..(MaxAttempts - 1)]]
      /\ attFile \in [Agent -> [Lane -> [Item -> 0..(MaxAttempts - 1)]]]
  BY DEF TypeInv, GhostType, ProcType, FileType, Counts
<1> QED BY <1>1, ConstantFacts

\* What was earned stays earned.
LEMMA EarnedStays ==
  ASSUME TypeInv, NEW a \in Agent, NEW i \in Item, Earned(a, i),
         fate'[a][i] = fate[a][i],
         Answered(a, i) => Answered(a, i)',
         tries'[a][i] >= tries[a][i], tries'[a][i] \in Nat
  PROVE  Earned(a, i)'
<1>1. MaxAttempts \in Nat /\ tries[a][i] \in Nat
  BY ConstantFacts, NumberFacts
<1> QED BY <1>1 DEF Earned

\* A step that records nothing new, answers nothing and counts nothing.
LEMMA NothingRecorded ==
  ASSUME TypeInv, EarnedInv, UNCHANGED <<tries, fate, sent>>,
         Counted', MailedInv',
         \A a \in Agent, i \in Item :
           i \in seen'[a] \/ (\E l \in Lane : i \in seenFile'[a][l].ids) => Recorded(a, i)
  PROVE  EarnedInv'
<1>1. ASSUME NEW a \in Agent, NEW i \in Item, Recorded(a, i)' PROVE Earned(a, i)'
  <2>1. Recorded(a, i)
    BY <1>1 DEF Recorded
  <2>2. Earned(a, i)
    BY <2>1 DEF EarnedInv
  <2> QED BY <2>2 DEF Earned, Answered
<1> QED BY <1>1 DEF EarnedInv

LEMMA ReadLaneEarns ==
  ASSUME TypeInv, EarnedInv, NEW a \in Agent, NEW l \in Lane, ReadLane(a, l)
  PROVE  EarnedInv'
<1>1. /\ UNCHANGED <<seenFile, attFile, hand, mailed, tries, sent>>
      /\ att' = [att EXCEPT ![a] = attFile[a][l]]
      /\ att \in [Agent -> Counts] /\ pc \in [Agent -> PC] /\ seen \in [Agent -> SUBSET Item]
  BY DEF ReadLane, fileVars, TypeInv, ProcType
<1>2. PICK to \in {"loop", "seed", "arm"} : pc[a] = "idle" /\ pc' = [pc EXCEPT ![a] = to]
  BY Zenon DEF ReadLane, Move
<1>3. \A b \in Agent : /\ b # a => att'[b] = att[b] /\ pc'[b] = pc[b]
                       /\ b = a => att'[b] = attFile[a][l] /\ pc'[b] = to
  BY <1>1, <1>2
<1>4. Counted'
  BY <1>1, <1>3 DEF EarnedInv, Counted
<1>5. MailedInv'
  BY <1>1, <1>2, <1>3 DEF EarnedInv, MailedInv, Answered
<1>6. CASE seen' = [seen EXCEPT ![a] = seenFile[a][l].ids] /\ UNCHANGED fate
  BY <1>1, <1>4, <1>5, <1>6, NothingRecorded DEF Recorded
<1>7. ASSUME NEW ids, NEW what \in {"armed", "inherited"}, ids \subseteq Item,
             SetAside(a, ids, what), seen' = [seen EXCEPT ![a] = ids]
      PROVE  EarnedInv'
  <2>1. what \in Fate
    BY DEF Fate
  <2>2. \A b \in Agent, i \in Item :
          fate'[b][i] = IF b = a /\ i \in ids THEN what ELSE fate[b][i]
    BY <1>7, <2>1, SetAsideType
  <2>3. ASSUME NEW b \in Agent, NEW i \in Item, Recorded(b, i)' PROVE Earned(b, i)'
    <3>1. CASE b = a /\ i \in ids
      <4>1. fate'[b][i] = what
        BY <2>2, <3>1
      <4> QED BY <4>1 DEF Earned
    <3>2. CASE ~ (b = a /\ i \in ids)
      <4>1. fate'[b][i] = fate[b][i]
        BY <2>2, <3>2
      <4>2. Recorded(b, i)
        <5>1. i \in seen'[b] => i \in seen[b] \/ (b = a /\ i \in ids)
          BY <1>1, <1>7
        <5> QED BY <1>1, <2>3, <3>2, <4>1, <5>1 DEF Recorded
      <4>3. Earned(b, i)
        BY <4>2 DEF EarnedInv
      <4> QED BY <1>1, <4>1, <4>3 DEF Earned, Answered
    <3> QED BY <3>1, <3>2
  <2> QED BY <1>4, <1>5, <2>3 DEF EarnedInv
<1>8. \/ seen' = [seen EXCEPT ![a] = seenFile[a][l].ids] /\ UNCHANGED fate
      \/ /\ seen' = [seen EXCEPT ![a] = Legacy[a].ids]
         /\ SetAside(a, Legacy[a].ids, "inherited")
      \/ /\ seen' = [seen EXCEPT ![a] = Listing(a, l)]
         /\ SetAside(a, Listing(a, l), "armed")
  BY Zenon DEF ReadLane
<1>9. Legacy[a].ids \subseteq Item /\ Listing(a, l) \subseteq Item
  BY ConstantFacts, ListingType
<1> QED BY <1>6, <1>7, <1>8, <1>9

LEMMA TakeEarns ==
  ASSUME TypeInv, EarnedInv, NEW a \in Agent, NEW i \in Item, Take(a, i)
  PROVE  EarnedInv'
<1>1. /\ UNCHANGED <<seenFile, attFile, seen, att, mailed, fate, sent>>
      /\ hand' = [hand EXCEPT ![a] = i]
      /\ tries' = [tries EXCEPT ![a][i] = UpTo(@ + 1)]
      /\ pc[a] = "loop"
      /\ pc' = [pc EXCEPT ![a] = IF Verdict(a, lane[a], i) = "answer" THEN "mail" ELSE "sweep"]
  BY DEF Take, Move, fileVars
<1>2. tries \in [Agent -> [Item -> 0..Cap]] /\ tries[a][i] \in 0..Cap
      /\ UpTo(tries[a][i] + 1) \in 0..Cap
  BY UpToType, NumberFacts DEF TypeInv, GhostType
<1>3. \A b \in Agent, j \in Item :
        tries'[b][j] = IF b = a /\ j = i THEN UpTo(tries[a][i] + 1) ELSE tries[b][j]
  <2>1. tries' = [tries EXCEPT ![a][i] = UpTo(tries[a][i] + 1)]
    BY <1>1, <1>2
  <2> QED BY <1>2, <2>1, Update2
<1>4. \A b \in Agent, j \in Item : tries'[b][j] >= tries[b][j] /\ tries'[b][j] \in Nat
  BY <1>2, <1>3, UpToType, NumberFacts, ConstantFacts
<1>5. \A b \in Agent : /\ b # a => pc'[b] = pc[b] /\ hand'[b] = hand[b]
                       /\ b = a => hand'[b] = i
  BY <1>1 DEF TypeInv, ProcType
<1>6. att[a][i] < tries'[a][i]
  <2>1. att[a][i] <= tries[a][i] /\ att[a][i] < Cap /\ att[a][i] \in Nat
    BY NumberFacts DEF EarnedInv, Counted
  <2>2. tries'[a][i] = UpTo(tries[a][i] + 1)
    BY <1>3
  <2> QED BY <1>2, <2>1, <2>2, ConstantFacts DEF UpTo
<1>7. Counted'
  <2>1. ASSUME NEW b \in Agent, NEW j \in Item
        PROVE  /\ \A l \in Lane : attFile[b][l][j] <= tries'[b][j]
               /\ att[b][j] <= tries'[b][j]
    BY <1>4, NumberFacts DEF EarnedInv, Counted
  <2>2. ASSUME NEW b \in Agent, NEW j \in Item,
               pc'[b] \in {"sweep", "mail", "post"}, hand'[b] = j
        PROVE  att[b][j] < tries'[b][j]
    <3>1. CASE b = a
      BY <1>5, <1>6, <2>2, <3>1
    <3>2. CASE b # a
      <4>1. att[b][j] < tries[b][j]
        BY <1>5, <2>2, <3>2 DEF EarnedInv, Counted
      <4> QED BY <1>4, <4>1, NumberFacts
    <3> QED BY <3>1, <3>2
  <2> QED BY <1>1, <2>1, <2>2 DEF Counted
<1>8. MailedInv'
  BY <1>1, <1>5 DEF EarnedInv, MailedInv, Answered, TypeInv, ProcType
<1>9. ASSUME NEW b \in Agent, NEW j \in Item, Recorded(b, j)' PROVE Earned(b, j)'
  <2>1. Earned(b, j)
    BY <1>1, <1>9 DEF Recorded, EarnedInv
  <2> QED BY <1>1, <1>4, <2>1, EarnedStays DEF Answered
<1> QED BY <1>7, <1>8, <1>9 DEF EarnedInv

\* The end of the work on the item in hand: what is newly recorded was earned, and
\* the count of the item's failures does not exceed its tries.
LEMMA DecisionEarns ==
  ASSUME TypeInv, EarnedInv, NEW a \in Agent, NEW h \in Item,
         pc' = [pc EXCEPT ![a] = "loop"],
         UNCHANGED <<seenFile, attFile, tries>>,
         \A b \in Agent : b # a => hand'[b] = hand[b] /\ mailed'[b] = mailed[b],
         ~ mailed'[a],
         \A b \in Agent, i \in Item : Answered(b, i) => Answered(b, i)',
         \A b \in Agent, i \in Item :
           fate'[b][i] = fate[b][i] \/ Earned(b, i)',
         \A b \in Agent, i \in Item :
           i \in seen'[b] => i \in seen[b] \/ Earned(b, i)',
         \A b \in Agent, i \in Item :
           \/ att'[b][i] = att[b][i]
           \/ b = a /\ i = h /\ att'[b][i] <= tries[b][i]
  PROVE  EarnedInv'
<1>1. \A b \in Agent : b # a => pc'[b] = pc[b] /\ hand'[b] = hand[b] /\ mailed'[b] = mailed[b]
  BY DEF TypeInv, ProcType
<1>2. pc'[a] = "loop"
  BY DEF TypeInv, ProcType
<1>3. MailedInv'
  <2>1. ASSUME NEW b \in Agent, NEW g, mailed'[b], g = hand'[b]
        PROVE  pc'[b] = "post" /\ Answered(b, g)'
    <3>1. b # a /\ mailed[b] /\ g = hand[b]
      BY <1>1, <2>1
    <3>2. pc[b] = "post" /\ g \in Item /\ Answered(b, g)
      BY <3>1 DEF EarnedInv, MailedInv, TypeInv, Hands
    <3> QED BY <1>1, <3>1, <3>2
  <2> QED BY <2>1 DEF MailedInv
<1>4. Counted'
  <2>1. ASSUME NEW b \in Agent, NEW j \in Item
        PROVE  /\ \A l \in Lane : attFile[b][l][j] <= tries[b][j]
               /\ att'[b][j] <= tries[b][j]
    BY DEF EarnedInv, Counted
  <2>2. ASSUME NEW b \in Agent, NEW j \in Item,
               pc'[b] \in {"sweep", "mail", "post"}, hand'[b] = j
        PROVE  att'[b][j] < tries[b][j]
    <3>1. b # a /\ pc'[b] = pc[b] /\ hand[b] = j
      BY <1>1, <1>2, <2>2
    <3>2. att'[b][j] = att[b][j]
      BY <3>1
    <3> QED BY <2>2, <3>1, <3>2 DEF EarnedInv, Counted
  <2> QED BY <2>1, <2>2 DEF Counted
<1>5. ASSUME NEW b \in Agent, NEW j \in Item, Recorded(b, j)' PROVE Earned(b, j)'
  <2>1. CASE Earned(b, j)'
    BY <2>1
  <2>2. CASE ~ Earned(b, j)'
    <3>1. /\ fate'[b][j] = fate[b][j]
          /\ j \in seen'[b] => j \in seen[b]
      BY <2>2
    <3>2. Recorded(b, j)
      BY <1>5, <3>1 DEF Recorded
    <3>3. Earned(b, j)
      BY <3>2 DEF EarnedInv
    <3>4. tries'[b][j] >= tries[b][j] /\ tries'[b][j] \in Nat
      BY NumberFacts
    <3>5. Answered(b, j) => Answered(b, j)'
      OBVIOUS
    <3> QED BY <3>1, <3>3, <3>4, <3>5, EarnedStays
  <2> QED BY <2>1, <2>2
<1> QED BY <1>3, <1>4, <1>5 DEF EarnedInv

\* The item in hand is decided, for a reason.
LEMMA DecidedFacts ==
  ASSUME TypeInv, NEW a \in Agent, NEW h \in Item, NEW what \in Fate, Seen(a, h, what),
         tries' = tries,
         \/ what \in {"swept", "transcribed"}
         \/ Answered(a, h)'
         \/ tries[a][h] >= MaxAttempts
  PROVE  /\ \A b \in Agent, i \in Item :
              fate'[b][i] = fate[b][i] \/ Earned(b, i)'
         /\ \A b \in Agent, i \in Item :
              i \in seen'[b] => i \in seen[b] \/ Earned(b, i)'
         /\ \A b \in Agent, i \in Item :
              \/ att'[b][i] = att[b][i]
              \/ b = a /\ i = h /\ att'[b][i] <= tries[b][i]
<1>0. SeenEffect(a, h, what)
  BY SeenType
<1>1. /\ \A b \in Agent : seen'[b] = IF b = a THEN seen[b] \cup {h} ELSE seen[b]
      /\ \A b \in Agent, j \in Item :
           /\ att'[b][j] = IF b = a /\ j = h THEN 0 ELSE att[b][j]
           /\ fate'[b][j] = IF b = a /\ j = h THEN what ELSE fate[b][j]
  BY <1>0 DEF SeenEffect
<1>2. Earned(a, h)'
  BY <1>1 DEF Earned
<1>3. tries[a][h] \in Nat
  BY NumberFacts
<1>4. \A b \in Agent, i \in Item : fate'[b][i] = fate[b][i] \/ Earned(b, i)'
  BY <1>1, <1>2
<1>5. \A b \in Agent, i \in Item : i \in seen'[b] => i \in seen[b] \/ Earned(b, i)'
  BY <1>1, <1>2
<1>6. \A b \in Agent, i \in Item :
        \/ att'[b][i] = att[b][i]
        \/ b = a /\ i = h /\ att'[b][i] <= tries[b][i]
  BY <1>1, <1>3
<1> QED BY <1>4, <1>5, <1>6

LEMMA SweepEarns ==
  ASSUME TypeInv, EarnedInv, NEW a \in Agent, Sweep(a)
  PROVE  EarnedInv'
<1>1. /\ UNCHANGED <<seenFile, attFile, tries, mailed, sent>>
      /\ hand' = [hand EXCEPT ![a] = NoItem]
      /\ pc[a] = "sweep" /\ pc' = [pc EXCEPT ![a] = "loop"]
  BY DEF Sweep, Move, fileVars
<1>2. /\ \A b \in Agent : b # a => hand'[b] = hand[b] /\ mailed'[b] = mailed[b]
      /\ hand[a] \in Item
      /\ ~ mailed'[a]
  BY <1>1 DEF TypeInv, ProcType, Hands, EarnedInv, MailedInv
<1>3. PICK h \in Item, what \in {"swept", "transcribed"} : Seen(a, h, what)
  BY <1>2 DEF Sweep
<1>4. \A b \in Agent, i \in Item : Answered(b, i) => Answered(b, i)'
  BY <1>1 DEF Answered
<1>5. what \in Fate
  BY DEF Fate
<1>6. /\ \A b \in Agent, i \in Item :
           fate'[b][i] = fate[b][i] \/ Earned(b, i)'
      /\ \A b \in Agent, i \in Item :
           i \in seen'[b] => i \in seen[b] \/ Earned(b, i)'
      /\ \A b \in Agent, i \in Item :
           \/ att'[b][i] = att[b][i]
           \/ b = a /\ i = h /\ att'[b][i] <= tries[b][i]
  BY <1>1, <1>3, <1>5, DecidedFacts
<1> QED BY <1>1, <1>2, <1>4, <1>6, DecisionEarns

LEMMA SendMailEarns ==
  ASSUME TypeInv, EarnedInv, NEW a \in Agent, SendMail(a)
  PROVE  EarnedInv'
<1>1. /\ UNCHANGED <<seenFile, attFile, seen, att, hand, tries, fate>>
      /\ pc[a] = "mail" /\ pc' = [pc EXCEPT ![a] = "post"]
  BY DEF SendMail, Move, fileVars
<1>2. hand[a] \in Item /\ \A b \in Agent : pc'[b] = IF b = a THEN "post" ELSE pc[b]
  BY <1>1 DEF TypeInv, Hands, ProcType
<1>3. \A b \in Agent, i \in Item :
        Answered(b, i) \/ (MailTaken(a) /\ b = a /\ i = hand[a]) => Answered(b, i)'
  <2>1. CASE MailTaken(a)
    BY <1>2, <2>1, MailAnswers
  <2>2. CASE ~ MailTaken(a)
    BY <2>2 DEF SendMail, MailTaken, Answered
  <2> QED BY <2>1, <2>2
<1>4. Counted'
  BY <1>1, <1>2 DEF EarnedInv, Counted
<1>5. MailedInv'
  <2>1. ASSUME NEW b \in Agent, mailed'[b] PROVE pc'[b] = "post" /\ Answered(b, hand[b])'
    <3>1. CASE b # a
      <4>1. mailed[b]
        BY <2>1, <3>1 DEF SendMail, TypeInv, ProcType
      <4>2. pc[b] = "post" /\ hand[b] \in Item /\ Answered(b, hand[b])
        BY <4>1 DEF EarnedInv, MailedInv, TypeInv, Hands
      <4> QED BY <1>1, <1>2, <1>3, <3>1, <4>2
    <3>2. CASE b = a
      <4>1. ~ mailed[a]
        BY <1>1 DEF EarnedInv, MailedInv
      <4>2. MailTaken(a)
        BY <2>1, <3>2, <4>1 DEF SendMail, MailTaken
      <4> QED BY <1>1, <1>2, <1>3, <3>2, <4>2
    <3> QED BY <3>1, <3>2
  <2> QED BY <1>1, <2>1 DEF MailedInv, Answered
<1>6. ASSUME NEW b \in Agent, NEW j \in Item, Recorded(b, j)' PROVE Earned(b, j)'
  <2>1. Earned(b, j)
    BY <1>1, <1>6 DEF Recorded, EarnedInv
  <2> QED BY <1>1, <1>3, <2>1, EarnedStays, NumberFacts
<1> QED BY <1>4, <1>5, <1>6 DEF EarnedInv

LEMMA SendPostEarns ==
  ASSUME TypeInv, EarnedInv, NEW a \in Agent, SendPost(a)
  PROVE  EarnedInv'
<1>1. /\ UNCHANGED <<seenFile, attFile, tries>>
      /\ hand' = [hand EXCEPT ![a] = NoItem]
      /\ mailed' = [mailed EXCEPT ![a] = FALSE]
      /\ pc[a] = "post" /\ pc' = [pc EXCEPT ![a] = "loop"]
  BY DEF SendPost, Move, fileVars
<1>2. /\ \A b \in Agent : b # a => hand'[b] = hand[b] /\ mailed'[b] = mailed[b]
      /\ hand[a] \in Item /\ mailed[a] \in BOOLEAN
      /\ ~ mailed'[a]
  BY <1>1 DEF TypeInv, ProcType, Hands
<1>3. \A b \in Agent, i \in Item :
        Answered(b, i) \/ (PostTaken(a) /\ b = a /\ i = hand[a]) => Answered(b, i)'
  <2>1. CASE PostTaken(a)
    BY <1>2, <2>1, PostAnswers
  <2>2. CASE ~ PostTaken(a)
    BY <2>2 DEF SendPost, PostTaken, Answered
  <2> QED BY <2>1, <2>2
<1>4. PICK h \in Item : h = hand[a]
  BY <1>2
<1>5. PICK ok \in BOOLEAN : Outcome(a, ok) /\ (ok => Answered(a, h)')
  <2>1. mailed[a] => Answered(a, h)
    BY <1>4 DEF EarnedInv, MailedInv
  <2>2. CASE PostTaken(a) /\ Outcome(a, TRUE)
    BY <1>2, <1>3, <1>4, <2>2
  <2>3. ASSUME NEW ok \in BOOLEAN, Outcome(a, ok), ok => mailed[a]
        PROVE  \E o \in BOOLEAN : Outcome(a, o) /\ (o => Answered(a, h)')
    BY <1>2, <1>3, <1>4, <2>1, <2>3
  <2>4. \/ PostTaken(a) /\ Outcome(a, TRUE)
        \/ \E ok \in BOOLEAN : Outcome(a, ok) /\ (ok => mailed[a])
    BY <1>2 DEF SendPost, PostTaken
  <2> QED BY <2>2, <2>3, <2>4
<1>6. /\ \A b \in Agent, i \in Item :
           fate'[b][i] = fate[b][i] \/ Earned(b, i)'
      /\ \A b \in Agent, i \in Item :
           i \in seen'[b] => i \in seen[b] \/ Earned(b, i)'
      /\ \A b \in Agent, i \in Item :
           \/ att'[b][i] = att[b][i]
           \/ b = a /\ i = h /\ att'[b][i] <= tries[b][i]
  <2>1. att[a][h] < tries[a][h] /\ att[a][h] \in Nat
        /\ tries[a][h] \in Nat /\ MaxAttempts \in Nat
    BY <1>1, <1>4, NumberFacts, ConstantFacts DEF EarnedInv, Counted
  <2>2. CASE ok
    <3>1. Seen(a, h, "answered") /\ "answered" \in Fate
      BY <1>4, <1>5, <2>2, Zenon DEF Outcome, Fate
    <3> QED BY <1>1, <1>5, <2>2, <3>1, DecidedFacts
  <2>3. CASE ~ ok /\ att[a][h] + 1 >= MaxAttempts
    <3>1. Seen(a, h, "dropped") /\ "dropped" \in Fate
      BY <1>4, <1>5, <2>3, Zenon DEF Outcome, Fate
    <3>2. tries[a][h] >= MaxAttempts
      BY <2>1, <2>3
    <3> QED BY <1>1, <3>1, <3>2, DecidedFacts
  <2>4. CASE ~ ok /\ ~ (att[a][h] + 1 >= MaxAttempts)
    <3>1. /\ att' = [att EXCEPT ![a][h] = att[a][h] + 1]
          /\ UNCHANGED <<seen, fate>>
      BY <1>4, <1>5, <2>4, Zenon DEF Outcome
    <3>2. att \in [Agent -> [Item -> Nat]] /\ att[a][h] + 1 \in Nat
      <4>1. att \in [Agent -> [Item -> 0..(MaxAttempts - 1)]]
        BY DEF TypeInv, ProcType, Counts
      <4> QED BY <2>1, <4>1, ConstantFacts
    <3>3. \A b \in Agent, i \in Item :
            att'[b][i] = IF b = a /\ i = h THEN att[a][h] + 1 ELSE att[b][i]
      BY <3>1, <3>2, Update2
    <3>4. att[a][h] + 1 <= tries[a][h]
      BY <2>1
    <3> QED BY <3>1, <3>3, <3>4
  <2> QED BY <2>2, <2>3, <2>4
<1> QED BY <1>1, <1>2, <1>3, <1>6, DecisionEarns

LEMMA SaveEarns ==
  ASSUME TypeInv, EarnedInv, NEW a \in Agent, Save(a)
  PROVE  EarnedInv'
<1>1. /\ UNCHANGED <<hand, mailed, tries, fate, sent>>
      /\ WriteSeen(a, seen[a])
      /\ attFile' = attFile \/ WriteAttempts(a, att[a])
      /\ \/ LeaveLane(a)
         \/ UNCHANGED <<seen, att>>
      /\ pc[a] \notin {"sweep", "mail", "post"}
  BY Zenon DEF Save, Move, ghostVars
<1>2. PICK to \in {"idle", "loop"} : pc' = [pc EXCEPT ![a] = to]
  BY Zenon DEF Save, Move
<1>3. \A b \in Agent : pc'[b] = IF b = a THEN to ELSE pc[b]
  BY <1>2 DEF TypeInv, ProcType
<1>4. \A b \in Agent : /\ seen'[b] = seen[b] \/ seen'[b] = {}
                       /\ att'[b] = att[b] \/ att'[b] = NoAttempts
  BY <1>1 DEF LeaveLane, TypeInv, ProcType
<1>5. \A b \in Agent, l \in Lane :
        attFile'[b][l] = attFile[b][l] \/ attFile'[b][l] = att[b]
  <2>1. att[a] \in Counts
    BY DEF TypeInv, ProcType
  <2> QED BY <1>1, <2>1, WriteAttemptsType
<1>6. \A b \in Agent, l \in Lane :
        seenFile'[b][l] = seenFile[b][l] \/ seenFile'[b][l].ids = seen[b]
  <2>1. seen[a] \in SUBSET Item
    BY DEF TypeInv, ProcType
  <2>2. \A b \in Agent, l \in Lane :
          seenFile'[b][l] = IF b = a /\ l = lane[a] THEN [exists |-> TRUE, ids |-> seen[a]]
                                                    ELSE seenFile[b][l]
    BY <1>1, <2>1, WriteSeenType
  <2> QED BY <2>2
<1>7. \A j \in Item : NoAttempts[j] = 0
  BY DEF NoAttempts
<1>8. Counted'
  <2>1. ASSUME NEW b \in Agent, NEW j \in Item
        PROVE  /\ \A l \in Lane : attFile'[b][l][j] <= tries[b][j]
               /\ att'[b][j] <= tries[b][j]
    BY <1>4, <1>5, <1>7, NumberFacts DEF EarnedInv, Counted
  <2>2. ASSUME NEW b \in Agent, NEW j \in Item,
               pc'[b] \in {"sweep", "mail", "post"}, hand[b] = j
        PROVE  att'[b][j] < tries[b][j]
    <3>1. pc[b] \in {"sweep", "mail", "post"}
      BY <1>3, <2>2
    <3>2. att[b][j] < tries[b][j]
      BY <2>2, <3>1 DEF EarnedInv, Counted
    <3> QED BY <1>4, <1>7, <3>2, NumberFacts
  <2> QED BY <1>1, <2>1, <2>2 DEF Counted
<1>9. MailedInv'
  BY <1>1, <1>3 DEF EarnedInv, MailedInv, Answered
<1> QED BY <1>1, <1>4, <1>6, <1>8, <1>9, NothingRecorded DEF Recorded

LEMMA KillEarns ==
  ASSUME TypeInv, EarnedInv, NEW a \in Agent, Kill(a)
  PROVE  EarnedInv'
<1>1. /\ UNCHANGED <<tries, fate, sent>>
      /\ UNCHANGED fileVars \/ TornSave(a)
      /\ LeaveLane(a)
      /\ hand' = [hand EXCEPT ![a] = NoItem]
      /\ mailed' = [mailed EXCEPT ![a] = FALSE]
      /\ pc' = [pc EXCEPT ![a] = "down"]
  BY DEF Kill, ghostVars
<1>2. \A b \in Agent : /\ seen'[b] = seen[b] \/ seen'[b] = {}
                       /\ att'[b] = att[b] \/ att'[b] = NoAttempts
                       /\ IF b = a THEN pc'[b] = "down" /\ ~ mailed'[b]
                          ELSE pc'[b] = pc[b] /\ hand'[b] = hand[b] /\ mailed'[b] = mailed[b]
  BY <1>1 DEF LeaveLane, TypeInv, ProcType
<1>3. \A b \in Agent, l \in Lane :
        /\ \/ seenFile'[b][l] = seenFile[b][l]
           \/ seenFile'[b][l].ids \subseteq seen[b]
        /\ attFile'[b][l] = attFile[b][l] \/ attFile'[b][l] = NoAttempts
  BY <1>1, TornFiles
<1>4. \A j \in Item : NoAttempts[j] = 0
  BY DEF NoAttempts
<1>5. Counted'
  <2>1. ASSUME NEW b \in Agent, NEW j \in Item
        PROVE  /\ \A l \in Lane : attFile'[b][l][j] <= tries[b][j]
               /\ att'[b][j] <= tries[b][j]
    BY <1>2, <1>3, <1>4, NumberFacts DEF EarnedInv, Counted
  <2>2. ASSUME NEW b \in Agent, NEW j \in Item,
               pc'[b] \in {"sweep", "mail", "post"}, hand'[b] = j
        PROVE  att'[b][j] < tries[b][j]
    <3>1. pc[b] \in {"sweep", "mail", "post"} /\ hand[b] = j
      BY <1>2, <2>2
    <3>2. att[b][j] < tries[b][j]
      BY <3>1 DEF EarnedInv, Counted
    <3> QED BY <1>2, <1>4, <3>2, NumberFacts
  <2> QED BY <1>1, <2>1, <2>2 DEF Counted
<1>6. MailedInv'
  BY <1>1, <1>2 DEF EarnedInv, MailedInv, Answered
<1> QED BY <1>1, <1>2, <1>3, <1>5, <1>6, NothingRecorded DEF Recorded

LEMMA EarnedStep == TypeInv /\ EarnedInv /\ [Next]_vars => EarnedInv'
<1> SUFFICES ASSUME TypeInv, EarnedInv, [Next]_vars PROVE EarnedInv'
  OBVIOUS
<1>1. ASSUME NEW a \in Agent, NEW l \in Lane, ReadLane(a, l) PROVE EarnedInv'
  BY <1>1, ReadLaneEarns
<1>2. ASSUME NEW a \in Agent, Serve(a) PROVE EarnedInv'
  BY <1>2, TakeEarns, SweepEarns, SendMailEarns, SendPostEarns, SaveEarns DEF Serve
<1>3. ASSUME NEW a \in Agent, Kill(a) PROVE EarnedInv'
  BY <1>3, KillEarns
<1>4. ASSUME NEW a \in Agent, Restart(a) PROVE EarnedInv'
  <2>1. /\ UNCHANGED <<seenFile, attFile, seen, att, hand, mailed, tries, fate, sent>>
        /\ pc[a] = "down" /\ pc' = [pc EXCEPT ![a] = "idle"]
    BY <1>4 DEF Restart, Move, fileVars, ghostVars
  <2>2. \A b \in Agent : pc'[b] = IF b = a THEN "idle" ELSE pc[b]
    BY <2>1 DEF TypeInv, ProcType
  <2>3. Counted' /\ MailedInv'
    BY <2>1, <2>2 DEF EarnedInv, Counted, MailedInv, Answered
  <2> QED BY <2>1, <2>3, NothingRecorded DEF Recorded
<1>5. CASE UNCHANGED vars \/ \E m \in Mail : Arrive(m)
  <2>1. UNCHANGED <<seenFile, attFile, pc, seen, att, hand, mailed, tries, fate, sent>>
    BY <1>5 DEF vars, Arrive, fileVars, procVars, ghostVars
  <2>2. Counted' /\ MailedInv'
    BY <2>1 DEF EarnedInv, Counted, MailedInv, Answered
  <2> QED BY <2>1, <2>2, NothingRecorded DEF Recorded
<1> QED BY <1>1, <1>2, <1>3, <1>4, <1>5 DEF Next

LEMMA EarnedInit == Init => EarnedInv
<1> SUFFICES ASSUME Init PROVE EarnedInv
  OBVIOUS
<1>1. /\ \A a \in Agent, i \in Item : tries[a][i] = 0 /\ att[a][i] = 0 /\ fate[a][i] = "open"
      /\ \A a \in Agent : seen[a] = {} /\ pc[a] = "idle" /\ ~ mailed[a]
  BY DEF Init, NoAttempts
<1>2. \A a \in Agent, l \in Lane :
        /\ seenFile[a][l].ids = {}
        /\ \A i \in Item : attFile[a][l][i] = 0
  <2>1. \A a \in Agent, l \in Lane :
          seenFile[a][l] = [exists |-> FALSE, ids |-> {}] /\ attFile[a][l] = NoAttempts
    BY DEF Init
  <2> QED BY <2>1 DEF NoAttempts
<1> QED BY <1>1, <1>2 DEF EarnedInv, Counted, MailedInv, Recorded

\* However the processes are killed and their files torn, a lane records as seen only
\* what was set aside, needed no answer, was answered or tried to the limit
\* (process_lane and serve_agentverse).
THEOREM SeenAreEarned == Spec => []SeenIsEarned
<1>1. EarnedInv => SeenIsEarned
  BY DEF EarnedInv, Recorded, Earned, SeenIsEarned, Counted
<1>2. TypeInv /\ EarnedInv => SeenIsEarned
  BY <1>1
<1> QED BY <1>2, InitTypeInv, TypeStep, EarnedInit, EarnedStep, PTL DEF Spec

-----------------------------------------------------------------------------
(* Every lane of every agent implements a desk. *)

\* The process has an item in hand.
Busy(a) == pc[a] \in {"sweep", "mail", "post"}

\* The lanes hold their own items, and mail only once it was sent.
BoxInv ==
  /\ \A a \in Agent, l \in Lane : InLane(a, l) \subseteq LaneItem(l)
  /\ \A a \in Agent, l \in Lane : InLane(a, l) \cap Mail \subseteq arrived
  /\ \A a \in Agent : Legacy[a].ids \subseteq avBox[a]

\* What an agent remembers of a lane was decided; what its process looks at is in the
\* lane, and what it has in hand is new to it; a process on a lane remembers no less
\* than the files; and before a lane is armed there is nothing on record.
AtWork(a, l) ==
  /\ \A i \in LaneItem(l) : i \in Memory(a, l) => fate[a][i] # "open"
  /\ ~ seenFile[a][l].exists =>
       seenFile[a][l].ids = {} /\ \A i \in Item : attFile[a][l][i] = 0
  /\ lane[a] = l =>
       /\ items[a] \subseteq InLane(a, l)
       /\ Busy(a) => hand[a] \in LaneItem(l) \ seen[a]
       /\ pc[a] = "loop" \/ Busy(a) => seenFile[a][l].exists
       /\ pc[a] \in {"arm", "seed"} =>
            /\ ~ seenFile[a][l].exists /\ \A i \in Item : att[a][i] = 0
            /\ \A i \in LaneItem(l) : i \in seen[a] => fate[a][i] \in {"armed", "inherited"}
  /\ OnLane(a, l) =>
       /\ seenFile[a][l].ids \subseteq seen[a]
       /\ \A i \in Item : i \notin seen[a] => attFile[a][l][i] <= att[a][i]

DeskInv == BoxInv /\ \A a \in Agent, l \in Lane : AtWork(a, l)

LEMMA LaneItems ==
  /\ \A l \in Lane : LaneItem(l) \subseteq Item
  /\ \A k, l \in Lane : \A i \in LaneItem(l) : i \in LaneItem(k) => k = l
<1>1. \A i \in ReplyItem : i \notin Mail
  BY FleetAssumption
<1>2. \A l \in Lane : LaneItem(l) \subseteq Item
  BY DEF LaneItem, Item
<1>3. ASSUME NEW k \in Lane, NEW l \in Lane, NEW i \in LaneItem(l), i \in LaneItem(k)
      PROVE  k = l
  <2>1. CASE i \in Mail
    <3>1. Letter[i].lane = l /\ Letter[i].lane = k
      BY <1>1, <1>3, <2>1 DEF LaneItem
    <3> QED BY <3>1
  <2>2. CASE i \in ReplyItem
    <3>1. i.lane = l /\ i.lane = k
      BY <1>1, <1>3, <2>2 DEF LaneItem
    <3> QED BY <3>1
  <2> QED BY <1>3, <2>1, <2>2 DEF LaneItem
<1> QED BY <1>2, <1>3

LEMMA DeskTypes ==
  ASSUME TypeInv
  PROVE  /\ kills \in [Agent -> Nat] /\ MaxAttempts \in Nat \ {0}
         /\ pc \in [Agent -> PC] /\ lane \in [Agent -> Lane] /\ hand \in [Agent -> Item \cup {NoItem}]
         /\ items \in [Agent -> SUBSET Item] /\ seen \in [Agent -> SUBSET Item]
         /\ att \in [Agent -> [Item -> 0..(MaxAttempts - 1)]]
         /\ attFile \in [Agent -> [Lane -> [Item -> 0..(MaxAttempts - 1)]]]
         /\ fate \in [Agent -> [Item -> Fate]]
         /\ seenFile \in [Agent -> [Lane -> File]]
         /\ \A a \in Agent : Busy(a) => hand[a] \in Item
         /\ \A a \in Agent : \A i \in Item : att[a][i] \in Int
         /\ \A a \in Agent : \A l \in Lane, i \in Item : attFile[a][l][i] \in Int
<1>1. kills \in [Agent -> Nat] /\ MaxAttempts \in Nat \ {0}
  BY ConstantFacts DEF TypeInv, ProcType
<1>2. /\ pc \in [Agent -> PC] /\ lane \in [Agent -> Lane] /\ hand \in [Agent -> Item \cup {NoItem}]
      /\ items \in [Agent -> SUBSET Item] /\ seen \in [Agent -> SUBSET Item]
      /\ \A a \in Agent : Busy(a) => hand[a] \in Item
  BY DEF TypeInv, ProcType, Hands, Busy
<1>3. /\ att \in [Agent -> [Item -> 0..(MaxAttempts - 1)]]
      /\ attFile \in [Agent -> [Lane -> [Item -> 0..(MaxAttempts - 1)]]]
  BY DEF TypeInv, ProcType, FileType, Counts
<1>4. fate \in [Agent -> [Item -> Fate]] /\ seenFile \in [Agent -> [Lane -> File]]
  BY DEF TypeInv, GhostType, FileType
<1>5. \A n \in 0..(MaxAttempts - 1) : n \in Int
  OBVIOUS
<1>6. /\ \A a \in Agent : \A i \in Item : att[a][i] \in Int
      /\ \A a \in Agent : \A l \in Lane, i \in Item : attFile[a][l][i] \in Int
  BY <1>3, <1>5
<1> QED BY <1>1, <1>2, <1>3, <1>4, <1>6

-----------------------------------------------------------------------------
(* The boxes. *)

\* A lane grows by one item at most.
GrowsBy(a, l) ==
  \/ InLane(a, l)' = InLane(a, l)
  \/ \E i \in LaneItem(l) \ InLane(a, l) :
       /\ InLane(a, l)' = InLane(a, l) \cup {i}
       /\ i \in Mail => i \in arrived'

LEMMA BoxesGrow ==
  ASSUME BoxInv, arrived \subseteq arrived', \A a \in Agent, l \in Lane : GrowsBy(a, l)
  PROVE  /\ BoxInv'
         /\ \A a \in Agent, l \in Lane : InLane(a, l) \subseteq InLane(a, l)'
<1>1. \A a \in Agent, l \in Lane :
        /\ InLane(a, l) \subseteq InLane(a, l)'
        /\ InLane(a, l)' \subseteq LaneItem(l)
        /\ InLane(a, l)' \cap Mail \subseteq arrived'
  BY DEF BoxInv, GrowsBy
<1>2. \A a \in Agent : InLane(a, "av") = avBox[a] /\ InLane(a, "av")' = avBox'[a] /\ "av" \in Lane
  BY DEF InLane, Lane
<1>3. \A a \in Agent : Legacy[a].ids \subseteq avBox'[a]
  BY <1>1, <1>2 DEF BoxInv
<1> QED BY <1>1, <1>3 DEF BoxInv

LEMMA BoxesStay ==
  ASSUME UNCHANGED boxVars
  PROVE  /\ arrived \subseteq arrived'
         /\ \A a \in Agent, l \in Lane : GrowsBy(a, l) /\ InLane(a, l)' = InLane(a, l)
<1>1. \A a \in Agent, l \in Lane : InLane(a, l)' = InLane(a, l)
  BY DEF boxVars, InLane
<1> QED BY <1>1 DEF GrowsBy, boxVars

\* The shared inbox, one item longer.
LEMMA InboxGrows ==
  ASSUME TypeInv, NEW i \in Item, opInbox' = Append(opInbox, i)
  PROVE  {opInbox'[j] : j \in DOMAIN opInbox'} = {opInbox[j] : j \in DOMAIN opInbox} \cup {i}
<1>1. opInbox \in Seq(Item)
  BY DEF TypeInv, BoxType
<1>2. DOMAIN opInbox' = 1..(Len(opInbox) + 1) /\ DOMAIN opInbox = 1..Len(opInbox)
      /\ Len(opInbox) \in Nat
  BY <1>1
<1>3. /\ \A j \in 1..Len(opInbox) : opInbox'[j] = opInbox[j]
      /\ opInbox'[Len(opInbox) + 1] = i
  BY <1>1
<1> QED BY <1>2, <1>3

LEMMA ArriveBoxes ==
  ASSUME TypeInv, BoxInv, NEW m \in Mail, Arrive(m)
  PROVE  arrived \subseteq arrived' /\ \A a \in Agent, l \in Lane : GrowsBy(a, l)
<1>1. /\ m \notin arrived /\ arrived' = arrived \cup {m} /\ m \in Item
      /\ m \in LaneItem(Letter[m].lane)
  BY FleetAssumption DEF Arrive, Item, LaneItem, LetterType
<1>2. \A a \in Agent, l \in Lane : m \notin InLane(a, l)
  BY <1>1 DEF BoxInv
<1>4. /\ \/ avBox' = avBox
         \/ Letter[m].lane = "av" /\ avBox' = [avBox EXCEPT ![Letter[m].box] = @ \cup {m}]
      /\ \/ e2aBox' = e2aBox
         \/ Letter[m].lane = "e2a" /\ e2aBox' = [e2aBox EXCEPT ![Letter[m].box] = @ \cup {m}]
      /\ opInbox' = opInbox \/ (Letter[m].lane = "am" /\ opInbox' = Append(opInbox, m))
  BY Zenon DEF Arrive
<1>3. ASSUME NEW a \in Agent, NEW l \in Lane PROVE GrowsBy(a, l)
  <2>1. \/ InLane(a, l)' = InLane(a, l)
        \/ l = Letter[m].lane /\ InLane(a, l)' = InLane(a, l) \cup {m}
    <3>1. CASE l = "av"
      <4>1. InLane(a, l) = avBox[a] /\ InLane(a, l)' = avBox'[a]
        BY <3>1 DEF InLane
      <4>3. avBox \in [Agent -> SUBSET Item]
        BY DEF TypeInv, BoxType
      <4> QED BY <3>1, <1>4, <4>1, <4>3
    <3>2. CASE l = "e2a"
      <4>1. InLane(a, l) = e2aBox[a] /\ InLane(a, l)' = e2aBox'[a]
        BY <3>2 DEF InLane
      <4>3. e2aBox \in [Agent -> SUBSET Mail]
        BY DEF TypeInv, BoxType
      <4> QED BY <3>2, <1>4, <4>1, <4>3
    <3>3. CASE l = "am"
      <4>1. /\ InLane(a, l) = {opInbox[j] : j \in DOMAIN opInbox}
            /\ InLane(a, l)' = {opInbox'[j] : j \in DOMAIN opInbox'}
        BY <3>3 DEF InLane
      <4>2. CASE opInbox' = opInbox
        BY <4>1, <4>2
      <4>3. CASE opInbox' # opInbox
        <5>1. Letter[m].lane = "am" /\ opInbox' = Append(opInbox, m)
          BY <1>4, <4>3
        <5> QED BY <1>1, <3>3, <4>1, <5>1, InboxGrows
      <4> QED BY <4>2, <4>3
    <3> QED BY <3>1, <3>2, <3>3 DEF Lane
  <2> QED BY <1>1, <1>2, <2>1 DEF GrowsBy
<1> QED BY <1>1, <1>3

LEMMA MailBoxes ==
  ASSUME TypeInv, NEW a \in Agent, SendMail(a)
  PROVE  arrived \subseteq arrived' /\ \A b \in Agent, l \in Lane : GrowsBy(b, l)
<1>1. UNCHANGED <<arrived, avBox, e2aBox>>
  BY DEF SendMail
<1>2. \/ opInbox' = opInbox
      \/ \E r \in ReplyItem : /\ r.lane = "am" /\ \A j \in DOMAIN opInbox : opInbox[j] # r
                              /\ opInbox' = Append(opInbox, r)
  <2>1. MailTaken(a) \/ opInbox' = opInbox
    BY DEF SendMail, MailTaken
  <2>2. CASE MailTaken(a)
    <3> DEFINE r == [by |-> a, of |-> hand[a], lane |-> "am"]
    <3>1. \/ opInbox' = opInbox
          \/ /\ hand[a] \in Mail /\ \A j \in DOMAIN opInbox : opInbox[j] # r
             /\ opInbox' = Append(opInbox, r)
      BY <2>2 DEF MailTaken, MailAccepted
    <3>2. hand[a] \in Mail => r \in ReplyItem /\ r.lane = "am"
      BY DEF ReplyItem
    <3> QED BY <3>1, <3>2
  <2> QED BY <2>1, <2>2
<1>3. ASSUME NEW b \in Agent, NEW l \in Lane PROVE GrowsBy(b, l)
  <2>1. CASE l # "am"
    <3>1. InLane(b, l)' = InLane(b, l)
      BY <1>1, <2>1 DEF InLane, Lane
    <3> QED BY <3>1 DEF GrowsBy
  <2>2. CASE l = "am" /\ opInbox' = opInbox
    <3>1. InLane(b, l)' = InLane(b, l)
      BY <2>2 DEF InLane
    <3> QED BY <3>1 DEF GrowsBy
  <2>3. CASE l = "am" /\ opInbox' # opInbox
    <3>1. PICK r \in ReplyItem : /\ r.lane = "am" /\ \A j \in DOMAIN opInbox : opInbox[j] # r
                                 /\ opInbox' = Append(opInbox, r)
      BY <1>2, <2>3
    <3>2. r \in LaneItem(l) /\ r \in Item /\ r \notin Mail
      BY <2>3, <3>1, FleetAssumption DEF LaneItem, Item
    <3>3. /\ InLane(b, l) = {opInbox[j] : j \in DOMAIN opInbox}
          /\ InLane(b, l)' = {opInbox'[j] : j \in DOMAIN opInbox'}
      BY <2>3 DEF InLane
    <3>4. InLane(b, l)' = InLane(b, l) \cup {r} /\ r \notin InLane(b, l)
      BY <3>1, <3>2, <3>3, InboxGrows
    <3> QED BY <3>2, <3>4 DEF GrowsBy
  <2> QED BY <2>1, <2>2, <2>3
<1> QED BY <1>1, <1>3

\* A process puts nothing into its own mailbox.
LEMMA PostBoxes ==
  ASSUME TypeInv, NEW a \in Agent, SendPost(a)
  PROVE  /\ arrived \subseteq arrived' /\ \A b \in Agent, l \in Lane : GrowsBy(b, l)
         /\ \A l \in Lane : InLane(a, l)' = InLane(a, l)
<1>1. UNCHANGED <<arrived, e2aBox, opInbox>>
  BY DEF SendPost
<1>2. avBox \in [Agent -> SUBSET Item]
  BY DEF TypeInv, BoxType
<1>3. \/ avBox' = avBox
      \/ \E c \in Agent \ {a}, r \in ReplyItem :
           r.lane = "av" /\ avBox' = [avBox EXCEPT ![c] = @ \cup {r}]
  <2>1. PostTaken(a) \/ avBox' = avBox
    BY DEF SendPost, PostTaken
  <2>2. CASE PostTaken(a)
    <3> DEFINE i == hand[a]
               r == [by |-> a, of |-> i, lane |-> "av"]
    <3>1. Target(a, i) = "address" /\ (\/ avBox' = avBox
                                       \/ /\ Asker(i) \in Agent
                                          /\ avBox' = [avBox EXCEPT ![Asker(i)] = @ \cup {r}])
      BY <2>2 DEF PostTaken, PostAccepted
    <3>2. i \in Mail /\ Asker(i) # a
      BY <3>1 DEF Target, Asker
    <3>3. r \in ReplyItem /\ r.lane = "av"
      BY <3>2 DEF ReplyItem
    <3> QED BY <3>1, <3>2, <3>3
  <2> QED BY <2>1, <2>2
<1>4. ASSUME NEW b \in Agent, NEW l \in Lane
      PROVE  GrowsBy(b, l) /\ (b = a => InLane(b, l)' = InLane(b, l))
  <2>1. CASE l # "av" \/ avBox'[b] = avBox[b]
    <3>1. InLane(b, l)' = InLane(b, l)
      BY <1>1, <2>1 DEF InLane, Lane
    <3> QED BY <3>1 DEF GrowsBy
  <2>2. CASE l = "av" /\ avBox'[b] # avBox[b]
    <3>1. PICK r \in ReplyItem : r.lane = "av" /\ b # a /\ avBox'[b] = avBox[b] \cup {r}
      BY <1>2, <1>3, <2>2
    <3>2. r \in LaneItem(l) /\ r \notin Mail /\ r \notin avBox[b]
      BY <2>2, <3>1, FleetAssumption DEF LaneItem
    <3>3. InLane(b, l) = avBox[b] /\ InLane(b, l)' = avBox'[b]
      BY <2>2 DEF InLane
    <3> QED BY <3>1, <3>2, <3>3 DEF GrowsBy
  <2> QED BY <2>1, <2>2
<1> QED BY <1>1, <1>4

-----------------------------------------------------------------------------
(* What a step leaves alone. *)

DeskStepOn(a, l) == [Desk(a, l)!Next]_(Desk(a, l)!vars)

AllDesks == \A a \in Agent, l \in Lane : DeskStepOn(a, l)

Growth == arrived \subseteq arrived' /\ \A a \in Agent, l \in Lane : GrowsBy(a, l)

\* What the agent remembers of the lane stays as it is.
Recalls(a, l) ==
  /\ Memory(a, l)' = Memory(a, l)
  /\ \A i \in LaneItem(l) :
       Failures(a, l, i)' = Failures(a, l, i) /\ fate'[a][i] = fate[a][i]

\* What the desks of an agent are about.
AgentKept(b) ==
  /\ pc'[b] = pc[b] /\ lane'[b] = lane[b] /\ items'[b] = items[b] /\ seen'[b] = seen[b]
  /\ att'[b] = att[b] /\ hand'[b] = hand[b] /\ seenFile'[b] = seenFile[b]
  /\ attFile'[b] = attFile[b] /\ kills'[b] = kills[b] /\ fate'[b] = fate[b]

\* A step of an agent at one of its lanes.
OnlyOn(a, k) ==
  /\ lane'[a] = k /\ (lane[a] = k \/ pc[a] = "idle")
  /\ kills'[a] = kills[a]
  /\ \A b \in Agent : b # a => AgentKept(b)
  /\ \A l \in Lane : l # k => /\ seenFile'[a][l] = seenFile[a][l]
                              /\ attFile'[a][l] = attFile[a][l]
  /\ \A i \in Item \ LaneItem(k) : fate'[a][i] = fate[a][i]

LEMMA DeskPrimes ==
  ASSUME NEW a \in Agent, NEW l \in Lane
  PROVE  /\ Tried(a, l)' = [i \in LaneItem(l) |->
                              IF i \in Memory(a, l)' THEN 0 ELSE Failures(a, l, i)']
         /\ Decided(a, l)' = [i \in LaneItem(l) |->
                                IF i \in Memory(a, l)' THEN AsDesk(fate'[a][i]) ELSE "open"]
  BY DEF Tried, Decided, LaneItem, AsDesk

\* The desk of a lane stays as it is, but for an item that reaches it.
LEMMA LaneStays ==
  ASSUME NEW a \in Agent, NEW l \in Lane, GrowsBy(a, l), Stage(a, l)' = Stage(a, l),
         Recalls(a, l), kills'[a] = kills[a]
  PROVE  DeskStepOn(a, l)
<1>1. Tried(a, l)' = Tried(a, l) /\ Decided(a, l)' = Decided(a, l)
  BY DeskPrimes DEF Recalls, Tried, Decided
<1>2. CASE InLane(a, l)' = InLane(a, l)
  <2>1. UNCHANGED Desk(a, l)!vars
    BY <1>1, <1>2 DEF Desk!vars
  <2> QED BY <2>1 DEF DeskStepOn
<1>3. ASSUME NEW i \in LaneItem(l), i \notin InLane(a, l), InLane(a, l)' = InLane(a, l) \cup {i}
      PROVE  DeskStepOn(a, l)
  <2>1. Desk(a, l)!Arrive(i)
    BY <1>1, <1>3 DEF Desk!Arrive
  <2>2. Desk(a, l)!Next
    BY <2>1 DEF Desk!Next
  <2> QED BY <2>2 DEF DeskStepOn
<1> QED BY <1>2, <1>3 DEF GrowsBy

LEMMA OtherAgent ==
  ASSUME DeskInv, Growth, NEW b \in Agent, AgentKept(b), NEW l \in Lane
  PROVE  AtWork(b, l)' /\ DeskStepOn(b, l)
<1>1. AtWork(b, l) /\ InLane(b, l) \subseteq InLane(b, l)'
  BY BoxesGrow DEF DeskInv, Growth
<1>2. Recalls(b, l) /\ (OnLane(b, l)' <=> OnLane(b, l)) /\ Stage(b, l)' = Stage(b, l)
  BY DEF AgentKept, Recalls, Memory, Failures, OnLane, Stage
<1>3. AtWork(b, l)'
  BY <1>1, <1>2 DEF AtWork, AgentKept, Recalls, LaneItem, Busy
<1>4. DeskStepOn(b, l)
  BY <1>2, LaneStays DEF Growth, AgentKept
<1> QED BY <1>3, <1>4

LEMMA OtherLane ==
  ASSUME DeskInv, Growth, NEW a \in Agent, NEW k \in Lane, OnlyOn(a, k), AtWork(a, k)',
         NEW l \in Lane, l # k
  PROVE  AtWork(a, l)' /\ DeskStepOn(a, l)
<1>1. AtWork(a, l) /\ AtWork(a, k)
  BY DEF DeskInv
<1>2. ~ OnLane(a, l) /\ ~ OnLane(a, l)' /\ lane'[a] # l /\ Stage(a, l)' = Stage(a, l)
  BY DEF OnLane, OnlyOn, Stage
<1>3. Memory(a, l)' = Memory(a, l)
  BY <1>2 DEF Memory, OnlyOn
<1>4. \A i \in LaneItem(l) : fate'[a][i] = fate[a][i] /\ i \notin LaneItem(k)
  BY LaneItems DEF OnlyOn
<1>5. ASSUME NEW i \in LaneItem(l) PROVE Failures(a, l, i)' = Failures(a, l, i)
  <2>1. ~ (Busy(a) /\ hand[a] = i)
    BY <1>1, <1>4 DEF AtWork, OnlyOn, Busy
  <2>2. ~ (Busy(a) /\ hand[a] = i)'
    BY <1>4 DEF AtWork, OnlyOn, Busy, LaneItem
  <2> QED BY <1>2, <2>1, <2>2 DEF Failures, OnlyOn, Busy
<1>6. Recalls(a, l)
  BY <1>3, <1>4, <1>5 DEF Recalls
<1>7. AtWork(a, l)'
  BY <1>1, <1>2, <1>3, <1>4 DEF AtWork, OnlyOn, LaneItem
<1>8. DeskStepOn(a, l)
  BY <1>2, <1>6, LaneStays DEF Growth, OnlyOn
<1> QED BY <1>7, <1>8

\* A step of one agent at one lane: what it does to that lane is what remains to be
\* shown.
LEMMA OwnStep ==
  ASSUME DeskInv, Growth, NEW a \in Agent, NEW k \in Lane, OnlyOn(a, k),
         AtWork(a, k)', DeskStepOn(a, k)
  PROVE  DeskInv' /\ AllDesks
<1>1. BoxInv'
  BY BoxesGrow DEF DeskInv, Growth
<1>2. ASSUME NEW b \in Agent, NEW l \in Lane PROVE AtWork(b, l)' /\ DeskStepOn(b, l)
  <2>1. CASE b = a /\ l = k
    BY <2>1
  <2>2. CASE b = a /\ l # k
    BY <2>2, OtherLane
  <2>3. CASE b # a
    BY <2>3, OtherAgent DEF OnlyOn
  <2> QED BY <2>1, <2>2, <2>3
<1> QED BY <1>1, <1>2 DEF DeskInv, AllDesks

-----------------------------------------------------------------------------
(* Reading a lane. *)

\* It remembers what the file says, or sets aside what the lane has.
ReadEffect(a, k, ids, what) ==
  /\ \A i \in Item : fate'[a][i] = IF i \in ids THEN what ELSE fate[a][i]
  /\ \/ pc'[a] = "loop" /\ seenFile[a][k].exists /\ seen'[a] = seenFile[a][k].ids /\ ids = {}
     \/ /\ pc'[a] \in {"seed", "arm"} /\ ~ seenFile[a][k].exists /\ seen'[a] = ids
        /\ what \in {"inherited", "armed"} /\ ids \subseteq InLane(a, k)

LEMMA ReadEffects ==
  ASSUME TypeInv, DeskInv, NEW a \in Agent, NEW k \in Lane, ReadLane(a, k)
  PROVE  /\ \E ids \in SUBSET Item, what \in Fate : ReadEffect(a, k, ids, what)
         /\ pc[a] = "idle" /\ \A b \in Agent : b # a => AgentKept(b)
<1>0. /\ UNCHANGED <<seenFile, attFile, hand, kills>>
      /\ lane' = [lane EXCEPT ![a] = k] /\ items' = [items EXCEPT ![a] = Listing(a, k)]
      /\ att' = [att EXCEPT ![a] = attFile[a][k]]
  BY DEF ReadLane, fileVars
<1> DEFINE Sets(ids, what, to) ==
             /\ ~ seenFile[a][k].exists /\ pc[a] = "idle" /\ pc' = [pc EXCEPT ![a] = to]
             /\ seen' = [seen EXCEPT ![a] = ids] /\ SetAside(a, ids, what)
<1>1. \/ /\ seenFile[a][k].exists /\ pc[a] = "idle" /\ pc' = [pc EXCEPT ![a] = "loop"]
         /\ seen' = [seen EXCEPT ![a] = seenFile[a][k].ids] /\ UNCHANGED fate
      \/ k = "av" /\ Sets(Legacy[a].ids, "inherited", "seed")
      \/ Sets(Listing(a, k), "armed", "arm")
  BY Zenon DEF ReadLane, Move
<1>3. CASE /\ seenFile[a][k].exists /\ pc[a] = "idle" /\ pc' = [pc EXCEPT ![a] = "loop"]
           /\ seen' = [seen EXCEPT ![a] = seenFile[a][k].ids] /\ UNCHANGED fate
  <2>1. pc'[a] = "loop" /\ seen'[a] = seenFile[a][k].ids /\ fate' = fate
    BY <1>3, DeskTypes
  <2>2. ReadEffect(a, k, {}, "open") /\ "open" \in Fate
    BY <1>3, <2>1 DEF ReadEffect, Fate
  <2>3. \A b \in Agent : b # a => AgentKept(b)
    BY <1>0, <1>3, DeskTypes DEF AgentKept
  <2> QED BY <1>3, <2>2, <2>3
<1>4. ASSUME NEW ids \in SUBSET Item, NEW what \in {"inherited", "armed"},
             NEW to \in {"seed", "arm"}, Sets(ids, what, to), ids \subseteq InLane(a, k)
      PROVE  ReadEffect(a, k, ids, what) /\ \A b \in Agent : b # a => AgentKept(b)
  <2>0. what \in Fate
    BY DEF Fate
  <2>1. \A b \in Agent, i \in Item :
          fate'[b][i] = IF b = a /\ i \in ids THEN what ELSE fate[b][i]
    BY <1>4, <2>0, SetAsideType
  <2>2. /\ pc'[a] = to /\ seen'[a] = ids /\ ~ seenFile[a][k].exists
        /\ \A b \in Agent : b # a => pc'[b] = pc[b] /\ seen'[b] = seen[b]
    BY <1>4, DeskTypes
  <2>3. ReadEffect(a, k, ids, what)
    BY <1>4, <2>1, <2>2 DEF ReadEffect
  <2>4. \A b \in Agent : b # a => fate'[b] = fate[b]
    BY <1>4, DeskTypes DEF SetAside
  <2>5. \A b \in Agent : b # a => AgentKept(b)
    BY <1>0, <2>2, <2>4, DeskTypes DEF AgentKept
  <2> QED BY <2>3, <2>5
<1>5. /\ Listing(a, k) \subseteq InLane(a, k)
      /\ k = "av" => Legacy[a].ids \subseteq InLane(a, k)
  <2>1. Listing(a, k) \subseteq InLane(a, k)
    BY DEF Listing, InLane, Newest, Lane
  <2>2. k = "av" => InLane(a, k) = avBox[a]
    BY DEF InLane
  <2> QED BY <2>1, <2>2 DEF DeskInv, BoxInv
<1>6. InLane(a, k) \subseteq Item
  BY LaneItems DEF DeskInv, BoxInv
<1>7. "inherited" \in Fate /\ "armed" \in Fate
  BY DEF Fate
<1>8. CASE k = "av" /\ Sets(Legacy[a].ids, "inherited", "seed")
  <2>1. Legacy[a].ids \subseteq InLane(a, k) /\ Legacy[a].ids \in SUBSET Item
    BY <1>5, <1>6, <1>8
  <2> QED BY <1>4, <1>7, <1>8, <2>1
<1>9. CASE Sets(Listing(a, k), "armed", "arm")
  <2>1. Listing(a, k) \in SUBSET Item
    BY <1>5, <1>6
  <2> QED BY <1>4, <1>5, <1>7, <1>9, <2>1
<1> HIDE DEF Sets
<1> QED BY <1>1, <1>3, <1>8, <1>9

LEMMA LaneArms ==
  ASSUME TypeInv, DeskInv, NEW a \in Agent, NEW k \in Lane, ReadLane(a, k)
  PROVE  DeskInv' /\ AllDesks
<1>0. /\ UNCHANGED <<seenFile, attFile, hand, kills>> /\ UNCHANGED boxVars
      /\ lane' = [lane EXCEPT ![a] = k] /\ items' = [items EXCEPT ![a] = Listing(a, k)]
      /\ att' = [att EXCEPT ![a] = attFile[a][k]]
  BY DEF ReadLane, fileVars
<1>1. PICK ids \in SUBSET Item, what \in Fate : ReadEffect(a, k, ids, what)
  BY ReadEffects
<1>2. pc[a] = "idle" /\ \A b \in Agent : b # a => AgentKept(b)
  BY ReadEffects
<1>3. /\ lane'[a] = k /\ items'[a] = Listing(a, k) /\ att'[a] = attFile[a][k]
      /\ pc'[a] \in {"loop", "seed", "arm"}
  BY <1>0, <1>1, DeskTypes DEF ReadEffect
<1>4. Growth /\ InLane(a, k)' = InLane(a, k)
  BY <1>0, BoxesStay DEF Growth
<1>5. ids \subseteq LaneItem(k)
  BY <1>1 DEF ReadEffect, DeskInv, BoxInv
<1>6. OnlyOn(a, k)
  BY <1>0, <1>1, <1>2, <1>3, <1>5 DEF OnlyOn, ReadEffect
<1>7. AtWork(a, k) /\ ~ OnLane(a, k) /\ OnLane(a, k)' /\ ~ Busy(a) /\ ~ Busy(a)'
  BY <1>2, <1>3 DEF DeskInv, OnLane, Busy
<1>8. Memory(a, k) = seenFile[a][k].ids /\ Memory(a, k)' = seen'[a]
  BY <1>7 DEF Memory
<1>9. ASSUME NEW i \in LaneItem(k)
      PROVE  Failures(a, k, i) = attFile[a][k][i] /\ Failures(a, k, i)' = attFile[a][k][i]
  <2>1. attFile[a][k][i] \in Int
    BY LaneItems, DeskTypes
  <2> QED BY <1>0, <1>3, <1>7, <2>1 DEF Failures, Busy
<1>10. /\ \A i \in Item : att'[a][i] = attFile[a][k][i] /\ attFile[a][k][i] <= attFile[a][k][i]
       /\ Listing(a, k) \subseteq InLane(a, k)'
  <2>1. \A i \in Item : attFile[a][k][i] \in Int
    BY DeskTypes
  <2>2. Listing(a, k) \subseteq InLane(a, k)
    BY DEF Listing, InLane, Newest, Lane
  <2> QED BY <1>3, <1>4, <2>1, <2>2
<1>11. CASE seenFile[a][k].exists
  <2>1. /\ ids = {} /\ seen'[a] = seenFile[a][k].ids /\ pc'[a] = "loop"
        /\ \A i \in Item : fate'[a][i] = fate[a][i]
    BY <1>1, <1>11 DEF ReadEffect
  <2>2. Recalls(a, k)
    BY <1>8, <1>9, <2>1, LaneItems DEF Recalls
  <2>3. Stage(a, k)' = Stage(a, k)
    BY <1>0, <1>11 DEF Stage
  <2>4. DeskStepOn(a, k)
    BY <1>4, <1>6, <2>2, <2>3, LaneStays DEF Growth, OnlyOn
  <2>5. AtWork(a, k)'
    BY <1>0, <1>3, <1>7, <1>8, <1>10, <1>11, <2>1, <2>2 DEF AtWork, Recalls, LaneItem
  <2> QED BY <1>4, <1>6, <2>4, <2>5, OwnStep
<1>12. CASE ~ seenFile[a][k].exists
  <2>1. /\ pc'[a] \in {"seed", "arm"} /\ what \in {"inherited", "armed"}
        /\ ids \subseteq InLane(a, k) /\ seen'[a] = ids
        /\ \A i \in Item : fate'[a][i] = IF i \in ids THEN what ELSE fate[a][i]
    BY <1>1, <1>12 DEF ReadEffect
  <2>2. Memory(a, k) = {} /\ \A i \in Item : attFile[a][k][i] = 0
    BY <1>7, <1>8, <1>12 DEF AtWork
  <2>3. Tried(a, k)' = Tried(a, k)
    <3>1. \A i \in LaneItem(k) : Failures(a, k, i) = 0 /\ Failures(a, k, i)' = 0
      BY <1>9, <2>2, LaneItems
    <3> QED BY <2>2, <3>1, DeskPrimes DEF Tried
  <2>4. /\ Decided(a, k) = [i \in LaneItem(k) |-> "open"]
        /\ Decided(a, k)' = [i \in LaneItem(k) |-> IF i \in ids THEN "armed" ELSE "open"]
    <3>1. \A i \in LaneItem(k) : i \in ids => AsDesk(fate'[a][i]) = "armed"
      BY <2>1, LaneItems DEF AsDesk
    <3> QED BY <1>8, <2>1, <2>2, <3>1, DeskPrimes DEF Decided
  <2>5. Decided(a, k)' = [i \in LaneItem(k) |-> IF i \in ids THEN "armed"
                                                           ELSE Decided(a, k)[i]]
    BY <2>4
  <2>6. Stage(a, k) = "new" /\ Stage(a, k)' = "arming"
    BY <1>0, <1>2, <1>3, <1>12, <2>1 DEF Stage
  <2>7. Desk(a, k)!Arm
    BY <1>4, <1>6, <2>1, <2>3, <2>5, <2>6 DEF Desk!Arm, OnlyOn
  <2>8. DeskStepOn(a, k)
    BY <2>7 DEF DeskStepOn, Desk!Next
  <2>9. AtWork(a, k)'
    <3>1. \A i \in LaneItem(k) : i \in ids => fate'[a][i] \in {"armed", "inherited"}
      BY <2>1, LaneItems
    <3> QED BY <1>0, <1>3, <1>7, <1>8, <1>10, <1>12, <2>1, <2>2, <3>1 DEF AtWork, LaneItem
  <2> QED BY <1>4, <1>6, <2>8, <2>9, OwnStep
<1> QED BY <1>11, <1>12

-----------------------------------------------------------------------------
(* Working on an item. *)

LEMMA LaneTries ==
  ASSUME TypeInv, DeskInv, NEW a \in Agent, NEW n \in Item, Take(a, n)
  PROVE  DeskInv' /\ AllDesks
<1>0. PICK k \in Lane : k = lane[a]
  BY DeskTypes
<1>1. /\ pc[a] = "loop" /\ pc'[a] \in {"mail", "sweep"} /\ n \notin seen[a] /\ n \in items[a]
      /\ items'[a] = items[a] \ {n} /\ hand'[a] = n
      /\ UNCHANGED <<seenFile, attFile, lane, seen, att, kills, fate>> /\ UNCHANGED boxVars
  BY DeskTypes DEF Take, Move, fileVars
<1>2. \A b \in Agent : b # a => AgentKept(b)
  BY <1>1, DeskTypes DEF Take, Move, AgentKept
<1>3. Growth /\ InLane(a, k)' = InLane(a, k) /\ OnlyOn(a, k)
  BY <1>0, <1>1, <1>2, BoxesStay DEF Growth, OnlyOn
<1>4. /\ AtWork(a, k) /\ OnLane(a, k) /\ OnLane(a, k)' /\ ~ Busy(a) /\ Busy(a)'
  BY <1>0, <1>1 DEF DeskInv, OnLane, Busy
<1>5. seenFile[a][k].exists /\ n \in InLane(a, k) /\ n \in LaneItem(k)
  BY <1>0, <1>1, <1>4 DEF AtWork, DeskInv, BoxInv
<1>6. Memory(a, k) = seen[a] /\ Memory(a, k)' = seen[a]
  BY <1>1, <1>4 DEF Memory
<1>7. ASSUME NEW i \in LaneItem(k)
      PROVE  /\ Failures(a, k, i) = att[a][i] /\ att[a][i] < MaxAttempts
             /\ Failures(a, k, i)' = IF i = n THEN att[a][i] + 1 ELSE att[a][i]
  <2>1. att[a][i] \in Int /\ att[a][i] < MaxAttempts
    BY LaneItems, DeskTypes
  <2> QED BY <1>1, <1>4, <2>1 DEF Failures, Busy
<1>8. /\ Tried(a, k) = [i \in LaneItem(k) |-> IF i \in seen[a] THEN 0 ELSE att[a][i]]
      /\ Tried(a, k)' = [i \in LaneItem(k) |-> IF i \in seen[a] THEN 0
                                               ELSE IF i = n THEN att[a][i] + 1 ELSE att[a][i]]
  BY <1>6, <1>7, DeskPrimes DEF Tried
<1>9. Decided(a, k)' = Decided(a, k) /\ Decided(a, k)[n] = "open"
  BY <1>1, <1>5, <1>6, DeskPrimes DEF Decided
<1>10. Tried(a, k)' = [Tried(a, k) EXCEPT ![n] = Tried(a, k)[n] + 1]
       /\ Tried(a, k)[n] < MaxAttempts
  <2>1. Tried(a, k)[n] = att[a][n] /\ att[a][n] < MaxAttempts
    BY <1>1, <1>5, <1>7, <1>8
  <2> QED BY <1>1, <1>5, <1>8, <2>1
<1>11. Desk(a, k)!Try(n)
  <2>1. Stage(a, k) = "armed" /\ Stage(a, k)' = "armed"
    BY <1>1, <1>5 DEF Stage
  <2> QED BY <1>1, <1>3, <1>4, <1>5, <1>9, <1>10, <2>1 DEF Desk!Try, OnlyOn
<1>12. DeskStepOn(a, k)
  BY <1>5, <1>11 DEF DeskStepOn, Desk!Next
<1>13. AtWork(a, k)'
  BY <1>0, <1>1, <1>3, <1>4, <1>5, <1>6 DEF AtWork, LaneItem, Busy
<1> QED BY <1>3, <1>12, <1>13, OwnStep

\* What the end of the work on an item does.
Decision(a, k, h) ==
  /\ h \in LaneItem(k) /\ h \notin seen[a] /\ hand[a] = h
  /\ pc[a] \in {"sweep", "post"} /\ pc'[a] = "loop"
  /\ \A i \in Item : i # h => fate'[a][i] = fate[a][i] /\ att'[a][i] = att[a][i]
  /\ \/ seen'[a] = seen[a] \cup {h} /\ AsDesk(fate'[a][h]) = "handled"
     \/ seen'[a] = seen[a] \cup {h} /\ fate'[a][h] = "dropped" /\ att[a][h] + 1 = MaxAttempts
     \/ seen'[a] = seen[a] /\ fate'[a][h] = fate[a][h] /\ att'[a][h] = att[a][h] + 1

LEMMA DecisionSteps ==
  ASSUME TypeInv, DeskInv, NEW a \in Agent, NEW k \in Lane, k = lane[a],
         Sweep(a) \/ SendPost(a)
  PROVE  /\ \E h \in Item : Decision(a, k, h)
         /\ OnlyOn(a, k) /\ UNCHANGED <<seenFile, attFile, lane, items>>
<1>0. /\ pc[a] \in {"sweep", "post"} /\ pc' = [pc EXCEPT ![a] = "loop"]
      /\ hand' = [hand EXCEPT ![a] = NoItem]
      /\ UNCHANGED <<seenFile, attFile, lane, items, kills>>
  BY DEF Sweep, SendPost, Move, fileVars
<1>1. PICK h \in Item : h = hand[a]
  BY <1>0, DeskTypes DEF Busy
<1>2. h \in LaneItem(k) /\ h \notin seen[a]
  BY <1>0, <1>1 DEF DeskInv, AtWork, Busy
<1>3. /\ pc'[a] = "loop"
      /\ \A b \in Agent : b # a => pc'[b] = pc[b] /\ hand'[b] = hand[b]
  BY <1>0, DeskTypes
<1>4. ASSUME NEW what, Seen(a, h, what)
      PROVE  /\ seen'[a] = seen[a] \cup {h} /\ fate'[a][h] = what
             /\ \A i \in Item : i # h => fate'[a][i] = fate[a][i] /\ att'[a][i] = att[a][i]
             /\ \A b \in Agent : b # a => /\ seen'[b] = seen[b] /\ att'[b] = att[b]
                                          /\ fate'[b] = fate[b]
  BY <1>4, DeskTypes DEF Seen
<1>5. /\ Decision(a, k, h)
      /\ \A b \in Agent : b # a => /\ seen'[b] = seen[b] /\ att'[b] = att[b]
                                   /\ fate'[b] = fate[b]
  <2>1. ASSUME NEW what \in {"swept", "transcribed", "answered"}, Seen(a, h, what)
        PROVE  Decision(a, k, h)
    <3>1. AsDesk(what) = "handled"
      BY DEF AsDesk
    <3> QED BY <1>0, <1>1, <1>2, <1>3, <1>4, <2>1, <3>1 DEF Decision
  <2>2. CASE Sweep(a)
    <3>1. PICK what \in {"swept", "transcribed"} : Seen(a, h, what)
      BY <1>1, <2>2 DEF Sweep
    <3> QED BY <1>4, <2>1, <3>1
  <2>3. CASE SendPost(a)
    <3>1. PICK ok \in BOOLEAN : Outcome(a, ok)
      BY <2>3 DEF SendPost, TypeInv, ProcType
    <3>2. \/ Seen(a, h, "answered")
          \/ Seen(a, h, "dropped") /\ att[a][h] + 1 >= MaxAttempts
          \/ att' = [att EXCEPT ![a][h] = att[a][h] + 1] /\ UNCHANGED <<seen, fate>>
      BY <1>1, <3>1 DEF Outcome
    <3>3. CASE Seen(a, h, "answered")
      BY <1>4, <2>1, <3>3
    <3>4. CASE Seen(a, h, "dropped") /\ att[a][h] + 1 >= MaxAttempts
      <4>1. att[a][h] + 1 = MaxAttempts
        <5>1. att[a][h] \in Int /\ att[a][h] < MaxAttempts /\ MaxAttempts \in Int
          BY DeskTypes
        <5> QED BY <3>4, <5>1
      <4> QED BY <1>0, <1>1, <1>2, <1>3, <1>4, <3>4, <4>1 DEF Decision
    <3>5. CASE att' = [att EXCEPT ![a][h] = att[a][h] + 1] /\ UNCHANGED <<seen, fate>>
      <4>1. /\ att'[a][h] = att[a][h] + 1
            /\ \A i \in Item : i # h => att'[a][i] = att[a][i]
            /\ \A b \in Agent : b # a => att'[b] = att[b]
        BY <3>5, DeskTypes
      <4> QED BY <1>0, <1>1, <1>2, <1>3, <3>5, <4>1 DEF Decision
    <3> QED BY <3>2, <3>3, <3>4, <3>5
  <2> QED BY <2>2, <2>3
<1>6. \A b \in Agent : b # a => AgentKept(b)
  BY <1>0, <1>3, <1>5 DEF AgentKept
<1>7. OnlyOn(a, k)
  BY <1>0, <1>2, <1>5, <1>6 DEF OnlyOn, Decision
<1> QED BY <1>0, <1>5, <1>7

LEMMA DecisionKeeps ==
  ASSUME TypeInv, DeskInv, NEW a \in Agent, NEW k \in Lane, k = lane[a], NEW h \in Item,
         Decision(a, k, h), UNCHANGED <<seenFile, attFile, lane, items>>,
         InLane(a, k)' = InLane(a, k)
  PROVE  AtWork(a, k)'
<1>1. /\ AtWork(a, k) /\ OnLane(a, k) /\ OnLane(a, k)' /\ ~ Busy(a)' /\ pc'[a] = "loop"
      /\ h \in LaneItem(k) /\ h \notin seen[a] /\ Busy(a)
  BY DEF DeskInv, OnLane, Decision, Busy
<1>2. Memory(a, k) = seen[a] /\ Memory(a, k)' = seen'[a] /\ seenFile[a][k].exists
  BY <1>1 DEF Memory, AtWork
<1>3. seen[a] \subseteq seen'[a] /\ seen'[a] \subseteq seen[a] \cup {h}
  BY DEF Decision
<1>4. ASSUME NEW i \in LaneItem(k), i \in seen'[a] PROVE fate'[a][i] # "open"
  <2>1. CASE i = h
    BY <1>1, <1>4, <2>1 DEF Decision, AsDesk
  <2>2. CASE i # h
    <3>1. fate[a][i] # "open"
      BY <1>1, <1>2, <1>3, <1>4, <2>2 DEF AtWork
    <3> QED BY <2>2, <3>1, LaneItems DEF Decision
  <2> QED BY <2>1, <2>2
<1>5. ASSUME NEW i \in Item, i \notin seen'[a] PROVE attFile[a][k][i] <= att'[a][i]
  <2>1. attFile[a][k][i] <= att[a][i]
    BY <1>1, <1>3, <1>5 DEF AtWork
  <2>2. att'[a][i] = att[a][i] \/ att'[a][i] = att[a][i] + 1
    BY <1>5 DEF Decision
  <2>3. attFile[a][k][i] \in Int /\ att[a][i] \in Int
    BY DeskTypes
  <2> QED BY <2>1, <2>2, <2>3
<1> QED BY <1>1, <1>2, <1>3, <1>4, <1>5 DEF AtWork, LaneItem

LEMMA DeskDecides ==
  ASSUME TypeInv, TypeInv', DeskInv, NEW a \in Agent, NEW k \in Lane, k = lane[a],
         NEW h \in Item, Decision(a, k, h), UNCHANGED <<seenFile, attFile, lane, items>>,
         kills'[a] = kills[a], InLane(a, k)' = InLane(a, k)
  PROVE  DeskStepOn(a, k)
<1>1. /\ AtWork(a, k) /\ OnLane(a, k) /\ OnLane(a, k)' /\ ~ Busy(a)'
      /\ h \in LaneItem(k) /\ h \notin seen[a] /\ hand[a] = h /\ Busy(a)
      /\ pc[a] \notin {"arm", "seed"} /\ pc'[a] \notin {"arm", "seed"}
  BY DEF DeskInv, OnLane, Decision, Busy
<1>2. Memory(a, k) = seen[a] /\ Memory(a, k)' = seen'[a] /\ Stage(a, k)' = Stage(a, k)
  BY <1>1 DEF Memory, AtWork, Stage
<1>3. ASSUME NEW i \in LaneItem(k)
      PROVE  /\ Failures(a, k, i) = IF i = h THEN att[a][i] + 1 ELSE att[a][i]
             /\ Failures(a, k, i)' = att'[a][i]
  <2>1. att[a][i] \in Int
    BY LaneItems, DeskTypes
  <2>2. att'[a][i] \in Int
    <3>1. att' \in [Agent -> [Item -> 0..(MaxAttempts - 1)]] /\ i \in Item
      BY LaneItems DEF TypeInv, ProcType, Counts
    <3> QED BY <3>1, DeskTypes
  <2> QED BY <1>1, <2>1, <2>2 DEF Failures, Busy
<1>4. /\ Tried(a, k) = [i \in LaneItem(k) |-> IF i \in seen[a] THEN 0
                                              ELSE IF i = h THEN att[a][i] + 1 ELSE att[a][i]]
      /\ Tried(a, k)' = [i \in LaneItem(k) |-> IF i \in seen'[a] THEN 0 ELSE att'[a][i]]
  BY <1>2, <1>3, DeskPrimes DEF Tried
<1>5. /\ Decided(a, k) = [i \in LaneItem(k) |-> IF i \in seen[a] THEN AsDesk(fate[a][i])
                                                                 ELSE "open"]
      /\ Decided(a, k)' = [i \in LaneItem(k) |-> IF i \in seen'[a] THEN AsDesk(fate'[a][i])
                                                                   ELSE "open"]
  BY <1>2, DeskPrimes DEF Decided
<1>6. Decided(a, k)[h] = "open" /\ Tried(a, k)[h] = att[a][h] + 1 /\ att[a][h] \in Nat
  <2>1. att[a][h] \in Nat
    BY DeskTypes
  <2> QED BY <1>1, <1>4, <1>5, <2>1
<1>7. \A i \in LaneItem(k) : i # h => fate'[a][i] = fate[a][i] /\ att'[a][i] = att[a][i]
  BY LaneItems DEF Decision
<1>8. ASSUME NEW what, seen'[a] = seen[a] \cup {h}, AsDesk(fate'[a][h]) = what
      PROVE  Desk(a, k)!Settle(h, what)
  <2>1. Tried(a, k)' = [Tried(a, k) EXCEPT ![h] = 0]
    BY <1>4, <1>7, <1>8
  <2>2. Decided(a, k)' = [Decided(a, k) EXCEPT ![h] = what]
    BY <1>5, <1>7, <1>8
  <2> QED BY <1>1, <1>2, <1>6, <2>1, <2>2 DEF Desk!Settle
<1>9. CASE seen'[a] = seen[a] \cup {h} /\ AsDesk(fate'[a][h]) = "handled"
  <2>1. Desk(a, k)!Handle(h)
    BY <1>6, <1>8, <1>9 DEF Desk!Handle
  <2> QED BY <1>1, <2>1 DEF DeskStepOn, Desk!Next
<1>10. CASE seen'[a] = seen[a] \cup {h} /\ fate'[a][h] = "dropped" /\ att[a][h] + 1 = MaxAttempts
  <2>1. AsDesk(fate'[a][h]) = "dropped"
    BY <1>10 DEF AsDesk
  <2>2. Desk(a, k)!Drop(h)
    BY <1>6, <1>8, <1>10, <2>1 DEF Desk!Drop
  <2> QED BY <1>1, <2>2 DEF DeskStepOn, Desk!Next
<1>11. CASE seen'[a] = seen[a] /\ fate'[a][h] = fate[a][h] /\ att'[a][h] = att[a][h] + 1
  <2>1. Tried(a, k)' = Tried(a, k) /\ Decided(a, k)' = Decided(a, k)
    BY <1>4, <1>5, <1>7, <1>11
  <2>2. UNCHANGED Desk(a, k)!vars
    BY <1>1, <1>2, <2>1 DEF Desk!vars
  <2> QED BY <2>2 DEF DeskStepOn
<1> QED BY <1>9, <1>10, <1>11 DEF Decision

LEMMA LaneDecides ==
  ASSUME TypeInv, TypeInv', DeskInv, NEW a \in Agent, Sweep(a) \/ SendPost(a)
  PROVE  DeskInv' /\ AllDesks
<1>0. PICK k \in Lane : k = lane[a]
  BY DeskTypes
<1>1. Growth /\ InLane(a, k)' = InLane(a, k)
  <2>1. CASE Sweep(a)
    <3>1. UNCHANGED boxVars
      BY <2>1 DEF Sweep
    <3> QED BY <3>1, BoxesStay DEF Growth
  <2>2. CASE SendPost(a)
    BY <2>2, PostBoxes DEF Growth
  <2> QED BY <2>1, <2>2
<1>2. /\ OnlyOn(a, k) /\ UNCHANGED <<seenFile, attFile, lane, items>>
      /\ \E h \in Item : Decision(a, k, h)
  BY <1>0, DecisionSteps
<1>3. kills'[a] = kills[a]
  BY <1>2 DEF OnlyOn
<1> QED BY <1>0, <1>1, <1>2, <1>3, DecisionKeeps, DeskDecides, OwnStep

-----------------------------------------------------------------------------
(* The steps that decide nothing. *)

LEMMA LaneMails ==
  ASSUME TypeInv, DeskInv, NEW a \in Agent, SendMail(a)
  PROVE  DeskInv' /\ AllDesks
<1>0. PICK k \in Lane : k = lane[a]
  BY DeskTypes
<1>1. /\ pc[a] = "mail" /\ pc'[a] = "post" /\ \A b \in Agent : b # a => pc'[b] = pc[b]
      /\ UNCHANGED <<seenFile, attFile, lane, items, seen, att, hand, kills, fate>>
  BY DeskTypes DEF SendMail, Move, fileVars
<1>2. Growth
  BY MailBoxes DEF Growth, DeskInv
<1>3. OnlyOn(a, k)
  BY <1>0, <1>1 DEF OnlyOn, AgentKept
<1>4. AtWork(a, k) /\ InLane(a, k) \subseteq InLane(a, k)' /\ (OnLane(a, k)' <=> OnLane(a, k))
  BY <1>1, <1>2, BoxesGrow DEF DeskInv, Growth, OnLane
<1>5. Recalls(a, k) /\ Stage(a, k)' = Stage(a, k) /\ Busy(a)' /\ Busy(a)
  BY <1>1, <1>4 DEF Recalls, Memory, Failures, Stage, Busy
<1>6. AtWork(a, k)'
  BY <1>1, <1>4, <1>5 DEF AtWork, Recalls, LaneItem
<1>7. DeskStepOn(a, k)
  BY <1>2, <1>3, <1>5, LaneStays DEF Growth, OnlyOn
<1> QED BY <1>2, <1>3, <1>6, <1>7, OwnStep

LEMMA LaneRestarts ==
  ASSUME TypeInv, DeskInv, NEW a \in Agent, Restart(a)
  PROVE  DeskInv' /\ AllDesks
<1>0. PICK k \in Lane : k = lane[a]
  BY DeskTypes
<1>1. /\ pc[a] = "down" /\ pc'[a] = "idle" /\ \A b \in Agent : b # a => pc'[b] = pc[b]
      /\ UNCHANGED <<seenFile, attFile, lane, items, seen, att, hand, kills, fate>>
      /\ UNCHANGED boxVars
  BY DeskTypes DEF Restart, Move, fileVars, ghostVars
<1>2. Growth /\ InLane(a, k)' = InLane(a, k)
  BY <1>1, BoxesStay DEF Growth
<1>3. OnlyOn(a, k)
  BY <1>0, <1>1 DEF OnlyOn, AgentKept
<1>4. AtWork(a, k) /\ ~ OnLane(a, k) /\ ~ OnLane(a, k)'
  BY <1>1 DEF DeskInv, OnLane
<1>5. Recalls(a, k) /\ Stage(a, k)' = Stage(a, k) /\ ~ Busy(a)' /\ ~ Busy(a)
  BY <1>1, <1>4 DEF Recalls, Memory, Failures, Stage, Busy
<1>6. AtWork(a, k)'
  BY <1>1, <1>2, <1>4, <1>5 DEF AtWork, Recalls, LaneItem
<1>7. DeskStepOn(a, k)
  BY <1>2, <1>3, <1>5, LaneStays DEF Growth, OnlyOn
<1> QED BY <1>2, <1>3, <1>6, <1>7, OwnStep

\* What Save leaves: the lane's file has what the process remembered, and the counts
\* are on file, or there are none.
LEMMA SaveEffect ==
  ASSUME TypeInv, DeskInv, NEW a \in Agent, NEW k \in Lane, k = lane[a], Save(a)
  PROVE  /\ OnlyOn(a, k) /\ UNCHANGED boxVars /\ UNCHANGED <<lane, hand, fate>>
         /\ seenFile'[a][k].exists /\ seenFile'[a][k].ids = seen[a]
         /\ items'[a] \subseteq items[a]
         /\ \/ pc[a] = "arm" /\ pc'[a] = "idle" /\ attFile'[a][k] = attFile[a][k]
            \/ /\ pc[a] = "seed" /\ pc'[a] = "loop" /\ attFile'[a][k] = attFile[a][k]
               /\ seen'[a] = seen[a] /\ att'[a] = att[a]
            \/ pc[a] = "loop" /\ pc'[a] = "idle" /\ attFile'[a][k] = att[a]
<1>0. UNCHANGED boxVars /\ UNCHANGED <<lane, hand, kills, fate>>
  BY DEF Save, ghostVars
<1>1. seenFile' = [seenFile EXCEPT ![a][k] = [exists |-> TRUE, ids |-> seen[a]]]
  BY DEF Save, WriteSeen
<1>2. \/ /\ pc[a] = "arm" /\ pc' = [pc EXCEPT ![a] = "idle"] /\ LeaveLane(a)
         /\ attFile' = attFile
      \/ /\ pc[a] = "seed" /\ pc' = [pc EXCEPT ![a] = "loop"]
         /\ UNCHANGED <<items, seen, att>> /\ attFile' = attFile
      \/ /\ pc[a] = "loop" /\ pc' = [pc EXCEPT ![a] = "idle"] /\ LeaveLane(a)
         /\ attFile' = [attFile EXCEPT ![a][k] = att[a]]
  BY Zenon DEF Save, Move, WriteAttempts
<1>3. /\ \A b \in Agent : b # a => /\ pc'[b] = pc[b] /\ items'[b] = items[b]
                                   /\ seen'[b] = seen[b] /\ att'[b] = att[b]
      /\ items'[a] \subseteq items[a]
  BY <1>2, DeskTypes DEF LeaveLane
<1>4. /\ \A b \in Agent : b # a => seenFile'[b] = seenFile[b] /\ attFile'[b] = attFile[b]
      /\ \A l \in Lane : l # k => /\ seenFile'[a][l] = seenFile[a][l]
                                  /\ attFile'[a][l] = attFile[a][l]
      /\ seenFile'[a][k] = [exists |-> TRUE, ids |-> seen[a]]
      /\ attFile'[a][k] = IF pc[a] = "loop" THEN att[a] ELSE attFile[a][k]
  <2>1. /\ \A b \in Agent : b # a => seenFile'[b] = seenFile[b]
        /\ \A l \in Lane : l # k => seenFile'[a][l] = seenFile[a][l]
        /\ seenFile'[a][k] = [exists |-> TRUE, ids |-> seen[a]]
    BY <1>1, DeskTypes
  <2>2. CASE attFile' = attFile /\ pc[a] # "loop"
    BY <2>1, <2>2
  <2>3. CASE attFile' = [attFile EXCEPT ![a][k] = att[a]] /\ pc[a] = "loop"
    BY <2>1, <2>3, DeskTypes
  <2> QED BY <1>2, <2>2, <2>3
<1>5. OnlyOn(a, k)
  BY <1>0, <1>3, <1>4 DEF OnlyOn, AgentKept
<1>6. \/ pc[a] = "arm" /\ pc'[a] = "idle" /\ attFile'[a][k] = attFile[a][k]
      \/ /\ pc[a] = "seed" /\ pc'[a] = "loop" /\ attFile'[a][k] = attFile[a][k]
         /\ seen'[a] = seen[a] /\ att'[a] = att[a]
      \/ pc[a] = "loop" /\ pc'[a] = "idle" /\ attFile'[a][k] = att[a]
  BY <1>2, <1>4, DeskTypes
<1> QED BY <1>0, <1>3, <1>4, <1>5, <1>6

LEMMA LaneSaves ==
  ASSUME TypeInv, DeskInv, NEW a \in Agent, Save(a)
  PROVE  DeskInv' /\ AllDesks
<1>0. PICK k \in Lane : k = lane[a]
  BY DeskTypes
<1>1. /\ OnlyOn(a, k) /\ UNCHANGED boxVars /\ UNCHANGED <<lane, hand, fate>>
      /\ seenFile'[a][k].exists /\ seenFile'[a][k].ids = seen[a]
      /\ items'[a] \subseteq items[a]
      /\ \/ pc[a] = "arm" /\ pc'[a] = "idle" /\ attFile'[a][k] = attFile[a][k]
         \/ /\ pc[a] = "seed" /\ pc'[a] = "loop" /\ attFile'[a][k] = attFile[a][k]
            /\ seen'[a] = seen[a] /\ att'[a] = att[a]
         \/ pc[a] = "loop" /\ pc'[a] = "idle" /\ attFile'[a][k] = att[a]
  BY <1>0, SaveEffect
<1>2. /\ AtWork(a, k) /\ OnLane(a, k) /\ ~ Busy(a) /\ ~ Busy(a)'
      /\ OnLane(a, k)' <=> pc[a] = "seed"
  BY <1>0, <1>1 DEF DeskInv, OnLane, Busy
<1>3. Growth /\ InLane(a, k)' = InLane(a, k)
  BY <1>1, BoxesStay DEF Growth
<1>4. Memory(a, k) = seen[a] /\ Memory(a, k)' = seen[a]
  BY <1>1, <1>2 DEF Memory
<1>5. ASSUME NEW i \in LaneItem(k) PROVE Failures(a, k, i)' = Failures(a, k, i)
  <2>1. pc[a] = "arm" => att[a][i] = 0 /\ attFile[a][k][i] = 0
    BY <1>0, <1>2, LaneItems DEF AtWork
  <2>2. CASE pc[a] = "arm"
    BY <1>1, <1>2, <2>1, <2>2 DEF Failures, Busy
  <2>3. CASE pc[a] = "seed"
    BY <1>1, <1>2, <2>3 DEF Failures, Busy
  <2>4. CASE pc[a] = "loop"
    BY <1>1, <1>2, <2>4 DEF Failures, Busy
  <2> QED BY <1>1, <2>2, <2>3, <2>4
<1>6. Recalls(a, k)
  BY <1>1, <1>4, <1>5 DEF Recalls
<1>7. ASSUME pc[a] \in {"arm", "seed"} PROVE DeskStepOn(a, k)
  <2>1. Stage(a, k) = "arming" /\ Stage(a, k)' = "armed"
    BY <1>0, <1>1, <1>2, <1>7 DEF Stage, AtWork
  <2>2. Tried(a, k)' = Tried(a, k) /\ Decided(a, k)' = Decided(a, k)
    BY <1>6, DeskPrimes DEF Recalls, Tried, Decided
  <2>3. Desk(a, k)!Record
    BY <1>1, <1>3, <2>1, <2>2 DEF Desk!Record, OnlyOn
  <2> QED BY <2>3 DEF DeskStepOn, Desk!Next
<1>8. ASSUME pc[a] = "loop" PROVE DeskStepOn(a, k)
  <2>1. Stage(a, k)' = Stage(a, k)
    BY <1>0, <1>1, <1>2, <1>8 DEF Stage, AtWork
  <2> QED BY <1>1, <1>3, <1>6, <2>1, LaneStays DEF Growth, OnlyOn
<1>9. DeskStepOn(a, k)
  BY <1>1, <1>7, <1>8
<1>10. AtWork(a, k)'
  <2>1. CASE pc[a] = "seed"
    <3>1. \A i \in Item : i \notin seen[a] => attFile[a][k][i] <= att[a][i]
      BY <1>2 DEF AtWork
    <3> QED BY <1>0, <1>1, <1>2, <1>3, <1>4, <1>6, <2>1, <3>1 DEF AtWork, Recalls, LaneItem
  <2>2. CASE pc[a] # "seed"
    BY <1>0, <1>1, <1>2, <1>3, <1>4, <1>6, <2>2 DEF AtWork, Recalls, LaneItem
  <2> QED BY <2>1, <2>2
<1> QED BY <1>1, <1>3, <1>9, <1>10, OwnStep

LEMMA LaneGets ==
  ASSUME TypeInv, DeskInv, NEW m \in Mail, Arrive(m)
  PROVE  DeskInv' /\ AllDesks
<1>1. Growth /\ \A b \in Agent : AgentKept(b)
  BY ArriveBoxes DEF DeskInv, Growth, Arrive, AgentKept, fileVars, procVars, ghostVars
<1>2. BoxInv'
  BY <1>1, BoxesGrow DEF DeskInv, Growth
<1> QED BY <1>1, <1>2, OtherAgent DEF DeskInv, AllDesks

-----------------------------------------------------------------------------
(* A kill between any two steps, or inside a save, forgets and makes nothing up. *)

\* What a kill leaves of the agent's memory of a lane.
KillEffect(a, l) ==
  /\ pc'[a] = "down" /\ kills'[a] = kills[a] + 1 /\ items'[a] = {} /\ lane'[a] = lane[a]
  /\ fate'[a] = fate[a]
  /\ seenFile'[a][l].ids \subseteq Memory(a, l)
  /\ \/ seenFile'[a][l] = seenFile[a][l]
     \/ OnLane(a, l) /\ pc[a] \in {"arm", "seed", "loop"} /\ seenFile'[a][l].exists
  /\ attFile'[a][l] = attFile[a][l] \/ attFile'[a][l] = NoAttempts

LEMMA KillEffects ==
  ASSUME TypeInv, DeskInv, NEW a \in Agent, Kill(a)
  PROVE  /\ \A l \in Lane : KillEffect(a, l)
         /\ UNCHANGED boxVars /\ \A b \in Agent : b # a => AgentKept(b)
<1>1. /\ UNCHANGED <<lane, fate>> /\ UNCHANGED boxVars
      /\ UNCHANGED fileVars \/ TornSave(a)
      /\ LeaveLane(a) /\ hand' = [hand EXCEPT ![a] = NoItem]
      /\ pc' = [pc EXCEPT ![a] = "down"] /\ kills' = [kills EXCEPT ![a] = kills[a] + 1]
  BY DEF Kill, ghostVars
<1>2. \A b \in Agent, l \in Lane :
        /\ \/ seenFile'[b][l] = seenFile[b][l]
           \/ /\ b = a /\ l = lane[a] /\ pc[a] \in {"arm", "seed", "loop"}
              /\ seenFile'[b][l].exists /\ seenFile'[b][l].ids \subseteq seen[a]
        /\ attFile'[b][l] = attFile[b][l] \/ attFile'[b][l] = NoAttempts
  BY <1>1, TornFiles
<1>3. \A b \in Agent : b # a => seenFile'[b] = seenFile[b] /\ attFile'[b] = attFile[b]
  <2>1. CASE UNCHANGED fileVars
    BY <2>1 DEF fileVars
  <2>2. CASE TornSave(a)
    <3>1. \/ seenFile' = [seenFile EXCEPT ![a][lane[a]] = [exists |-> TRUE, ids |-> {}]]
          \/ seenFile' = [seenFile EXCEPT ![a][lane[a]] = [exists |-> TRUE, ids |-> seen[a]]]
      BY <2>2 DEF TornSave, WriteSeen
    <3>2. attFile' = attFile \/ attFile' = [attFile EXCEPT ![a][lane[a]] = NoAttempts]
      BY <2>2 DEF TornSave, WriteAttempts
    <3> QED BY <3>1, <3>2, DeskTypes
  <2> QED BY <1>1, <2>1, <2>2
<1>4. \A b \in Agent : b # a => AgentKept(b)
  BY <1>1, <1>3, DeskTypes DEF LeaveLane, AgentKept
<1>5. ASSUME NEW l \in Lane PROVE KillEffect(a, l)
  <2>1. /\ pc'[a] = "down" /\ kills'[a] = kills[a] + 1 /\ items'[a] = {}
        /\ lane'[a] = lane[a] /\ fate'[a] = fate[a]
    BY <1>1, DeskTypes DEF LeaveLane
  <2>2. CASE seenFile'[a][l] = seenFile[a][l]
    <3>1. seenFile[a][l].ids \subseteq Memory(a, l)
      BY DEF Memory, DeskInv, AtWork
    <3> QED BY <1>2, <2>1, <2>2, <3>1 DEF KillEffect
  <2>3. CASE /\ l = lane[a] /\ pc[a] \in {"arm", "seed", "loop"}
             /\ seenFile'[a][l].exists /\ seenFile'[a][l].ids \subseteq seen[a]
    <3>1. OnLane(a, l) /\ Memory(a, l) = seen[a]
      BY <2>3 DEF OnLane, Memory
    <3> QED BY <1>2, <2>1, <2>3, <3>1 DEF KillEffect
  <2> QED BY <1>2, <2>2, <2>3
<1> QED BY <1>1, <1>4, <1>5

LEMMA LaneForgets ==
  ASSUME TypeInv, TypeInv', DeskInv, NEW a \in Agent, NEW l \in Lane, KillEffect(a, l),
         UNCHANGED boxVars
  PROVE  AtWork(a, l)' /\ DeskStepOn(a, l)
<1>0. /\ pc'[a] = "down" /\ kills'[a] = kills[a] + 1 /\ items'[a] = {} /\ lane'[a] = lane[a]
      /\ fate'[a] = fate[a] /\ ~ OnLane(a, l)' /\ ~ Busy(a)' /\ AtWork(a, l)
      /\ InLane(a, l)' = InLane(a, l)
  BY BoxesStay DEF KillEffect, OnLane, Busy, DeskInv
<1>1. Memory(a, l)' = seenFile'[a][l].ids /\ seenFile'[a][l].ids \subseteq Memory(a, l)
  BY <1>0 DEF Memory, KillEffect
<1>2. ASSUME NEW i \in LaneItem(l)
      PROVE  /\ Failures(a, l, i)' = attFile'[a][l][i]
             /\ attFile'[a][l][i] \in 0..(MaxAttempts - 1)
             /\ attFile'[a][l][i] \in {attFile[a][l][i], 0}
  <2>1. attFile' \in [Agent -> [Lane -> [Item -> 0..(MaxAttempts - 1)]]] /\ i \in Item
    BY LaneItems DEF TypeInv, FileType, Counts
  <2>2. attFile'[a][l][i] \in 0..(MaxAttempts - 1) /\ attFile'[a][l][i] \in Int
    BY <2>1
  <2>3. attFile'[a][l][i] \in {attFile[a][l][i], 0}
    BY <2>1 DEF KillEffect, NoAttempts
  <2> QED BY <1>0, <2>2, <2>3 DEF Failures, Busy
<1>3. /\ Tried(a, l)' = [i \in LaneItem(l) |-> IF i \in seenFile'[a][l].ids THEN 0
                                                                   ELSE attFile'[a][l][i]]
      /\ Decided(a, l)' = [i \in LaneItem(l) |->
                             IF i \in seenFile'[a][l].ids THEN AsDesk(fate[a][i]) ELSE "open"]
  BY <1>0, <1>1, <1>2, DeskPrimes
<1>4. \A i \in LaneItem(l) : AsDesk(fate[a][i]) \in {"open", "armed", "handled", "dropped"}
  BY DeskTypes, LaneItems DEF AsDesk, Fate
<1>5. /\ Tried(a, l)' \in [LaneItem(l) -> 0..(MaxAttempts - 1)]
      /\ Decided(a, l)' \in [LaneItem(l) -> {"open", "armed", "handled", "dropped"}]
  <2>1. 0 \in 0..(MaxAttempts - 1)
    BY ConstantFacts
  <2> QED BY <1>2, <1>3, <1>4, <2>1
<1>6. ASSUME NEW i \in LaneItem(l)
      PROVE  /\ Decided(a, l)'[i] \in {Decided(a, l)[i], "open"}
             /\ Decided(a, l)'[i] # "open" => Tried(a, l)'[i] = 0
             /\ Decided(a, l)[i] = "open" => Tried(a, l)'[i] <= Tried(a, l)[i]
  <2>1. /\ Decided(a, l)'[i] = IF i \in seenFile'[a][l].ids THEN AsDesk(fate[a][i]) ELSE "open"
        /\ Decided(a, l)[i] = IF i \in Memory(a, l) THEN AsDesk(fate[a][i]) ELSE "open"
        /\ Tried(a, l)'[i] = IF i \in seenFile'[a][l].ids THEN 0 ELSE attFile'[a][l][i]
        /\ Tried(a, l)[i] = IF i \in Memory(a, l) THEN 0 ELSE Failures(a, l, i)
    BY <1>3 DEF Decided, Tried
  <2>2. ASSUME i \notin Memory(a, l) PROVE attFile'[a][l][i] <= Failures(a, l, i)
    <3>1. OnLane(a, l) => attFile[a][l][i] <= att[a][i]
      BY <1>0, <2>2, LaneItems DEF AtWork, Memory
    <3>2. /\ attFile[a][l][i] \in Int /\ att[a][i] \in Int
          /\ attFile[a][l][i] >= 0 /\ att[a][i] >= 0
      BY LaneItems, DeskTypes
    <3>3. attFile'[a][l][i] <= attFile[a][l][i]
      BY <1>2, <3>2
    <3>4. attFile[a][l][i] <= Failures(a, l, i)
      BY <3>1, <3>2 DEF Failures
    <3>5. attFile'[a][l][i] \in Int /\ Failures(a, l, i) \in Int
      BY <1>2, <3>2 DEF Failures
    <3> QED BY <3>2, <3>3, <3>4, <3>5
  <2>3. i \in Memory(a, l) => AsDesk(fate[a][i]) # "open"
    BY <1>0 DEF AtWork, AsDesk
  <2> QED BY <1>1, <2>1, <2>2, <2>3
<1>7. /\ Stage(a, l)' \in IF Stage(a, l) = "arming" THEN {"new", "armed"} ELSE {Stage(a, l)}
      /\ Stage(a, l)' = "new" => Decided(a, l)' = [i \in LaneItem(l) |-> "open"]
  <2>1. CASE seenFile'[a][l].exists
    <3>1. Stage(a, l)' = "armed"
      BY <2>1 DEF Stage
    <3>2. Stage(a, l) \in {"arming", "armed"}
      BY <1>0, <2>1 DEF KillEffect, Stage, AtWork, OnLane
    <3> QED BY <3>1, <3>2
  <2>2. CASE ~ seenFile'[a][l].exists
    <3>1. seenFile'[a][l] = seenFile[a][l] /\ seenFile[a][l].ids = {}
      BY <1>0, <2>2 DEF KillEffect, AtWork
    <3>2. Stage(a, l)' = "new" /\ Stage(a, l) \in {"new", "arming"}
      BY <1>0, <2>2, <3>1 DEF Stage
    <3>3. Decided(a, l)' = [i \in LaneItem(l) |-> "open"]
      BY <1>3, <3>1
    <3> QED BY <3>2, <3>3
  <2> QED BY <2>1, <2>2
<1>8. Desk(a, l)!Crash
  BY <1>0, <1>5, <1>6, <1>7 DEF Desk!Crash, Desk!Fate
<1>9. DeskStepOn(a, l)
  BY <1>8 DEF DeskStepOn, Desk!Next
<1>10. AtWork(a, l)'
  <2>1. \A i \in LaneItem(l) : i \in seenFile'[a][l].ids => fate'[a][i] # "open"
    BY <1>0, <1>1 DEF AtWork
  <2>2. ~ seenFile'[a][l].exists =>
          seenFile'[a][l].ids = {} /\ \A i \in Item : attFile'[a][l][i] = 0
    <3>1. \A i \in Item : NoAttempts[i] = 0
      BY DEF NoAttempts
    <3> QED BY <1>0, <3>1 DEF KillEffect, AtWork
  <2> QED BY <1>0, <1>1, <2>1, <2>2 DEF AtWork, LaneItem
<1> QED BY <1>9, <1>10

LEMMA LanesForget ==
  ASSUME TypeInv, TypeInv', DeskInv, NEW a \in Agent, Kill(a)
  PROVE  DeskInv' /\ AllDesks
<1>1. /\ \A l \in Lane : KillEffect(a, l)
      /\ UNCHANGED boxVars /\ \A b \in Agent : b # a => AgentKept(b)
  BY KillEffects
<1>2. Growth /\ BoxInv'
  BY <1>1, BoxesStay, BoxesGrow DEF Growth, DeskInv
<1>3. \A b \in Agent, l \in Lane : AtWork(b, l)' /\ DeskStepOn(b, l)
  BY <1>1, <1>2, LaneForgets, OtherAgent
<1> QED BY <1>2, <1>3 DEF DeskInv, AllDesks

-----------------------------------------------------------------------------

LEMMA DesksStep ==
  ASSUME TypeInv, TypeInv', DeskInv, [Next]_vars
  PROVE  DeskInv' /\ AllDesks
<1>1. ASSUME NEW m \in Mail, Arrive(m) PROVE DeskInv' /\ AllDesks
  BY <1>1, LaneGets
<1>2. ASSUME NEW a \in Agent, NEW k \in Lane, ReadLane(a, k) PROVE DeskInv' /\ AllDesks
  BY <1>2, LaneArms
<1>3. ASSUME NEW a \in Agent, Serve(a) PROVE DeskInv' /\ AllDesks
  BY <1>3, LaneTries, LaneDecides, LaneMails, LaneSaves DEF Serve
<1>4. ASSUME NEW a \in Agent, Kill(a) \/ Restart(a) PROVE DeskInv' /\ AllDesks
  BY <1>4, LanesForget, LaneRestarts
<1>5. CASE UNCHANGED vars
  <2>1. UNCHANGED boxVars /\ \A b \in Agent : AgentKept(b)
    BY <1>5 DEF vars, AgentKept, fileVars, procVars, ghostVars
  <2>2. Growth /\ BoxInv'
    BY <2>1, BoxesStay, BoxesGrow DEF Growth, DeskInv
  <2> QED BY <2>1, <2>2, OtherAgent DEF DeskInv, AllDesks
<1> QED BY <1>1, <1>2, <1>3, <1>4, <1>5 DEF Next

LEMMA DeskInit ==
  ASSUME Init
  PROVE  DeskInv /\ \A a \in Agent, l \in Lane : Desk(a, l)!Init
<1>1. /\ \A a \in Agent : /\ seen[a] = {} /\ pc[a] = "idle" /\ items[a] = {}
                          /\ avBox[a] = Legacy[a].ids /\ e2aBox[a] = {} /\ kills[a] = 0
      /\ \A a \in Agent, i \in Item : att[a][i] = 0 /\ fate[a][i] = "open"
      /\ opInbox = <<>> /\ arrived = UNION {Legacy[a].ids : a \in Agent}
  BY DEF Init, NoAttempts
<1>2. \A a \in Agent, l \in Lane :
        /\ ~ seenFile[a][l].exists /\ seenFile[a][l].ids = {}
        /\ \A i \in Item : attFile[a][l][i] = 0
  <2>1. \A a \in Agent, l \in Lane :
          seenFile[a][l] = [exists |-> FALSE, ids |-> {}] /\ attFile[a][l] = NoAttempts
    BY DEF Init
  <2> QED BY <2>1 DEF NoAttempts
<1>3. \A a \in Agent, l \in Lane : ~ OnLane(a, l) /\ ~ Busy(a) /\ Stage(a, l) = "new"
  BY <1>1, <1>2 DEF OnLane, Busy, Stage
<1>4. BoxInv
  <2>1. ASSUME NEW a \in Agent, NEW l \in Lane
        PROVE  InLane(a, l) = IF l = "av" THEN Legacy[a].ids ELSE {}
    <3>1. {opInbox[i] : i \in DOMAIN opInbox} = {}
      BY <1>1
    <3> QED BY <1>1, <3>1 DEF InLane, Lane
  <2>2. \A a \in Agent : Legacy[a].ids \subseteq LaneItem("av")
    BY FleetAssumption DEF LaneItem
  <2> QED BY <1>1, <2>1, <2>2 DEF BoxInv
<1>5. DeskInv
  BY <1>1, <1>2, <1>3, <1>4 DEF DeskInv, AtWork, Memory
<1>6. ASSUME NEW a \in Agent, NEW l \in Lane PROVE Desk(a, l)!Init
  <2>1. \A i \in LaneItem(l) : Failures(a, l, i) = 0
    BY <1>2, <1>3, LaneItems DEF Failures, Busy
  <2>2. Tried(a, l) = [i \in LaneItem(l) |-> 0] /\ Decided(a, l) = [i \in LaneItem(l) |-> "open"]
    BY <1>2, <1>3, <2>1 DEF Tried, Decided, Memory
  <2>3. InLane(a, l) \subseteq LaneItem(l)
    BY <1>4 DEF BoxInv
  <2> QED BY <1>1, <1>3, <2>2, <2>3 DEF Desk!Init
<1> QED BY <1>5, <1>6

\* Each lane of each agent, mailbox, memory and all, does what a desk does: the first
\* read sets aside what it finds, whatever comes later is tried until it is answered or
\* needs no answer, and dropped at its MaxAttempts-th failure, on whichever lane and in
\* whatever order the process turns to it; a kill, inside a save included, only makes
\* the lane forget (process_lane, serve_agentverse, load_attempts, save_attempts).
THEOREM LanesImplementDesks == Spec => LanesAreDesks
<1>1. Init => DeskInv /\ \A a \in Agent, l \in Lane : Desk(a, l)!Init
  BY DeskInit
<1>2. TypeInv /\ DeskInv /\ [Next]_vars
        => /\ (TypeInv /\ DeskInv)'
           /\ [\A a \in Agent, l \in Lane : [Desk(a, l)!Next]_(Desk(a, l)!vars)]_vars
  BY TypeStep, DesksStep DEF AllDesks, DeskStepOn
<1> QED BY <1>1, <1>2, InitTypeInv, PTL DEF Spec, LanesAreDesks

-----------------------------------------------------------------------------
(* Every further reply is paid for. *)

\* The process heard that AgentMail took its reply to the item in hand.
HeardOf(a, i, leg) == leg = "am" /\ mailed[a] /\ hand[a] = i

\* One reply is free once the item is remembered, or will be because it was heard of.
Owing(a, l, i, leg) ==
  /\ i \in Memory(a, l) \/ HeardOf(a, i, leg) =>
       sent[a][i][leg] <= 1 + kills[a] + sent[a][i]["unheard"]
  /\ ~ (i \in Memory(a, l) \/ HeardOf(a, i, leg)) =>
       sent[a][i][leg] <= kills[a] + sent[a][i]["unheard"]

OwedInv ==
  /\ \A a \in Agent : mailed[a] => pc[a] = "post"
  /\ \A a \in Agent, l \in Lane : \A i \in LaneItem(l), leg \in {"am", "av"} :
       Owing(a, l, i, leg)

LEMMA TallyTypes ==
  ASSUME TypeInv, NEW a \in Agent, NEW i \in Item, NEW leg \in {"am", "av"}
  PROVE  /\ sent[a][i] \in Sent /\ sent[a][i][leg] \in 0..Cap /\ sent[a][i]["unheard"] \in 0..Cap
         /\ Cap \in Nat /\ kills[a] \in Nat
<1>1. sent[a][i] \in Sent
  BY DEF TypeInv, GhostType
<1>2. sent[a][i] \in [Tally -> 0..Cap] /\ leg \in Tally /\ "unheard" \in Tally
  BY <1>1 DEF Sent, Tally
<1> QED BY <1>1, <1>2, DeskTypes, ConstantFacts

\* What is owed does not grow while the agent forgets nothing and sends nothing.
LEMMA OwingStays ==
  ASSUME TypeInv, NEW a \in Agent, NEW l \in Lane, NEW i \in LaneItem(l),
         NEW leg \in {"am", "av"}, Owing(a, l, i, leg),
         sent'[a][i] = sent[a][i], kills'[a] = kills[a],
         i \in Memory(a, l) => i \in Memory(a, l)',
         HeardOf(a, i, leg) => HeardOf(a, i, leg)' \/ i \in Memory(a, l)'
  PROVE  Owing(a, l, i, leg)'
<1>1. i \in Item
  BY LaneItems
<1>2. sent[a][i][leg] \in Int /\ sent[a][i]["unheard"] \in Int /\ kills[a] \in Int
  BY <1>1, TallyTypes
<1> QED BY <1>2 DEF Owing

LEMMA OwingOther ==
  ASSUME TypeInv, OwedInv, NEW b \in Agent, AgentKept(b), mailed'[b] = mailed[b],
         \A i \in Item : sent'[b][i] = sent[b][i], NEW l \in Lane
  PROVE  \A i \in LaneItem(l), leg \in {"am", "av"} : Owing(b, l, i, leg)'
<1> SUFFICES ASSUME NEW i \in LaneItem(l), NEW leg \in {"am", "av"}
             PROVE  Owing(b, l, i, leg)'
  BY DEF LaneItem
<1>1. Memory(b, l)' = Memory(b, l) /\ (HeardOf(b, i, leg)' <=> HeardOf(b, i, leg))
  BY DEF AgentKept, Memory, OnLane, HeardOf
<1>2. i \in Item /\ kills'[b] = kills[b] /\ Owing(b, l, i, leg)
  BY LaneItems DEF AgentKept, OwedInv
<1> QED BY <1>1, <1>2, OwingStays

\* A step at one lane leaves what is remembered of the others.
LEMMA MemoryElsewhere ==
  ASSUME NEW a \in Agent, NEW k \in Lane, OnlyOn(a, k), NEW l \in Lane, l # k
  PROVE  Memory(a, l)' = Memory(a, l)
<1>1. ~ OnLane(a, l) /\ ~ OnLane(a, l)'
  BY DEF OnLane, OnlyOn
<1> QED BY <1>1 DEF Memory, OnlyOn

\* Steps that send nothing and after which nothing is forgotten.
LEMMA OwedQuiet ==
  ASSUME TypeInv, OwedInv, NEW a \in Agent, \A b \in Agent : b # a => AgentKept(b),
         UNCHANGED <<sent, mailed>>, ~ mailed[a], kills'[a] = kills[a],
         \A l \in Lane : Memory(a, l) \subseteq Memory(a, l)'
  PROVE  OwedInv'
<1>1. \A b \in Agent : mailed'[b] => pc'[b] = "post"
  BY DEF OwedInv, AgentKept
<1>2. ASSUME NEW l \in Lane, NEW i \in LaneItem(l), NEW leg \in {"am", "av"}
      PROVE  Owing(a, l, i, leg)'
  <2>1. Owing(a, l, i, leg) /\ ~ HeardOf(a, i, leg)
    BY DEF OwedInv, HeardOf
  <2>2. i \in Memory(a, l) => i \in Memory(a, l)'
    OBVIOUS
  <2> QED BY <2>1, <2>2, OwingStays
<1>3. ASSUME NEW b \in Agent, NEW l \in Lane, NEW i \in LaneItem(l), NEW leg \in {"am", "av"}
      PROVE  Owing(b, l, i, leg)'
  BY <1>2, OwingOther
<1> QED BY <1>1, <1>3 DEF OwedInv, LaneItem

LEMMA SweepOwes ==
  ASSUME TypeInv, DeskInv, OwedInv, NEW a \in Agent, Sweep(a)
  PROVE  OwedInv'
<1>0. PICK k \in Lane : k = lane[a]
  BY DeskTypes
<1>1. /\ OnlyOn(a, k) /\ UNCHANGED <<seenFile, lane, sent, mailed>>
      /\ pc[a] = "sweep" /\ \E h \in Item : Decision(a, k, h)
  BY <1>0, DecisionSteps DEF Sweep, Move
<1>2. Memory(a, k) \subseteq Memory(a, k)'
  BY <1>0, <1>1 DEF Decision, Memory, OnLane
<1>3. \A l \in Lane : Memory(a, l) \subseteq Memory(a, l)'
  BY <1>1, <1>2, MemoryElsewhere
<1>4. ~ mailed[a] /\ kills'[a] = kills[a]
  BY <1>1 DEF OwedInv, OnlyOn
<1> QED BY <1>1, <1>3, <1>4, OwedQuiet DEF OnlyOn

LEMMA SaveOwes ==
  ASSUME TypeInv, DeskInv, OwedInv, NEW a \in Agent, Save(a)
  PROVE  OwedInv'
<1>0. PICK k \in Lane : k = lane[a]
  BY DeskTypes
<1>1. /\ OnlyOn(a, k) /\ UNCHANGED <<lane, sent, mailed>>
      /\ seenFile'[a][k].ids = seen[a]
      /\ \/ pc[a] \in {"arm", "loop"} /\ pc'[a] = "idle"
         \/ pc[a] = "seed" /\ pc'[a] = "loop" /\ seen'[a] = seen[a]
  BY <1>0, SaveEffect DEF Save, ghostVars
<1>2. Memory(a, k) \subseteq Memory(a, k)'
  BY <1>0, <1>1 DEF Memory, OnLane
<1>3. \A l \in Lane : Memory(a, l) \subseteq Memory(a, l)'
  BY <1>1, <1>2, MemoryElsewhere
<1>4. ~ mailed[a] /\ kills'[a] = kills[a]
  BY <1>1 DEF OwedInv, OnlyOn
<1> QED BY <1>1, <1>3, <1>4, OwedQuiet DEF OnlyOn

LEMMA ReadLaneOwes ==
  ASSUME TypeInv, DeskInv, OwedInv, NEW a \in Agent, NEW k \in Lane, ReadLane(a, k)
  PROVE  OwedInv'
<1>1. /\ \E ids \in SUBSET Item, what \in Fate : ReadEffect(a, k, ids, what)
      /\ pc[a] = "idle" /\ \A b \in Agent : b # a => AgentKept(b)
  BY ReadEffects
<1>2. UNCHANGED <<seenFile, kills, sent, mailed>> /\ lane'[a] = k
  BY DeskTypes DEF ReadLane, fileVars
<1>3. ASSUME NEW l \in Lane PROVE Memory(a, l) \subseteq Memory(a, l)'
  <2>1. Memory(a, l) = seenFile[a][l].ids
    BY <1>1 DEF Memory, OnLane
  <2>2. CASE l # k
    BY <1>2, <2>1, <2>2 DEF Memory, OnLane
  <2>3. CASE l = k
    <3>1. OnLane(a, k)' /\ (seenFile[a][k].ids = {} \/ seen'[a] = seenFile[a][k].ids)
      BY <1>1, <1>2 DEF ReadEffect, OnLane, DeskInv, AtWork
    <3> QED BY <2>1, <2>3, <3>1 DEF Memory
  <2> QED BY <2>2, <2>3
<1>4. ~ mailed[a]
  BY <1>1 DEF OwedInv
<1> QED BY <1>1, <1>2, <1>3, <1>4, OwedQuiet

LEMMA TakeOwes ==
  ASSUME TypeInv, OwedInv, NEW a \in Agent, \/ \E n \in Item : Take(a, n)
                                            \/ Restart(a)
  PROVE  OwedInv'
<1>1. /\ UNCHANGED <<seenFile, lane, seen, kills, sent, mailed, att, fate, attFile>>
      /\ \/ pc[a] = "loop" /\ pc'[a] \in {"mail", "sweep"}
         \/ pc[a] = "down" /\ pc'[a] = "idle"
  BY DeskTypes DEF Take, Restart, Move, fileVars, ghostVars
<1>2. \A b \in Agent : b # a => AgentKept(b)
  BY <1>1, DeskTypes DEF Take, Restart, Move, AgentKept
<1>3. \A l \in Lane : Memory(a, l)' = Memory(a, l)
  BY <1>1 DEF Memory, OnLane
<1>4. ~ mailed[a]
  BY <1>1 DEF OwedInv
<1> QED BY <1>1, <1>2, <1>3, <1>4, OwedQuiet

\* One reply more on one leg: what was owed before is owed by one more, unless the
\* process did not hear of it, which is counted.
LEMMA OneMoreOwed ==
  ASSUME TypeInv, NEW a \in Agent, NEW i \in Item, NEW leg \in {"am", "av"},
         NEW heard \in BOOLEAN, CountsReply(a, i, leg, heard), kills'[a] = kills[a],
         NEW n \in {"am", "av"}, NEW c \in {0, 1},
         sent[a][i][n] <= c + kills[a] + sent[a][i]["unheard"]
  PROVE  IF n = leg /\ heard
         THEN sent'[a][i][n] <= c + 1 + kills'[a] + sent'[a][i]["unheard"]
         ELSE sent'[a][i][n] <= c + kills'[a] + sent'[a][i]["unheard"]
<1> DEFINE s == sent[a][i][n]
           u == sent[a][i]["unheard"]
<1>1. s \in 0..Cap /\ u \in 0..Cap /\ kills[a] \in Nat /\ Cap \in Nat /\ sent[a][i] \in Sent
  BY TallyTypes
<1>2. sent'[a][i] = OneMore(sent[a][i], leg, heard)
  BY SentType
<1>3. /\ sent'[a][i][n] = IF n = leg THEN UpTo(s + 1) ELSE s
      /\ sent'[a][i]["unheard"] = IF heard THEN u ELSE UpTo(u + 1)
  BY <1>1, <1>2, OneMoreType
<1>4. s <= c + kills[a] + u
  OBVIOUS
<1> HIDE DEF s, u
<1> QED BY <1>1, <1>3, <1>4 DEF UpTo

LEMMA SendMailOwes ==
  ASSUME TypeInv, DeskInv, OwedInv, NEW a \in Agent, SendMail(a)
  PROVE  OwedInv'
<1>0. PICK k \in Lane : k = lane[a]
  BY DeskTypes
<1>1. /\ pc[a] = "mail" /\ pc'[a] = "post" /\ \A b \in Agent : b # a => pc'[b] = pc[b]
      /\ UNCHANGED <<seenFile, attFile, lane, items, seen, att, hand, kills, fate>>
      /\ ~ mailed[a] /\ hand[a] \in Item
  BY DeskTypes DEF SendMail, Move, fileVars, OwedInv, Busy
<1>2. hand[a] \in LaneItem(k) \ seen[a] /\ OnLane(a, k)
  BY <1>0, <1>1 DEF DeskInv, AtWork, Busy, OnLane
<1>3. /\ \A b \in Agent : b # a => AgentKept(b) /\ mailed'[b] = mailed[b]
      /\ \A l \in Lane : Memory(a, l)' = Memory(a, l)
  BY <1>1, DeskTypes DEF AgentKept, SendMail, TypeInv, ProcType, Memory, OnLane
<1>4. \/ UNCHANGED sent
      \/ \E heard \in BOOLEAN : /\ CountsReply(a, hand[a], "am", heard)
                                /\ heard => mailed'[a]
  <2>1. ASSUME NEW heard \in BOOLEAN, MailAccepted(a, heard)
        PROVE  CountsReply(a, hand[a], "am", heard)
    BY <2>1, TakenCounts, Zenon DEF MailAccepted
  <2>2. \/ MailAccepted(a, TRUE) /\ mailed' = [mailed EXCEPT ![a] = TRUE]
        \/ MailAccepted(a, FALSE)
        \/ UNCHANGED sent
    BY DEF SendMail
  <2>3. mailed' = [mailed EXCEPT ![a] = TRUE] => mailed'[a]
    BY DEF TypeInv, ProcType
  <2> QED BY <2>1, <2>2, <2>3
<1>5. \A b \in Agent, i \in Item : b # a \/ i # hand[a] => sent'[b][i] = sent[b][i]
  BY <1>1, <1>4, SentType
<1>6. ASSUME NEW l \in Lane, NEW i \in LaneItem(l), NEW leg \in {"am", "av"}
      PROVE  Owing(a, l, i, leg)'
  <2>1. i \in Item /\ Owing(a, l, i, leg) /\ ~ HeardOf(a, i, leg) /\ kills'[a] = kills[a]
    BY <1>1, LaneItems DEF OwedInv, HeardOf
  <2>2. CASE sent'[a][i] = sent[a][i]
    BY <1>3, <2>1, <2>2, OwingStays
  <2>3. CASE sent'[a][i] # sent[a][i]
    <3>1. i = hand[a] /\ l = k
      BY <1>2, <1>5, <2>1, <2>3, LaneItems
    <3>2. PICK heard \in BOOLEAN : CountsReply(a, i, "am", heard) /\ (heard => mailed'[a])
      BY <1>4, <2>3, <3>1
    <3>3. i \notin Memory(a, l) /\ hand'[a] = i
      BY <1>1, <1>2, <3>1 DEF Memory
    <3>4. sent[a][i][leg] <= 0 + kills[a] + sent[a][i]["unheard"]
      <4>1. sent[a][i][leg] <= kills[a] + sent[a][i]["unheard"]
        BY <2>1, <3>3 DEF Owing
      <4>2. kills[a] \in Int /\ sent[a][i]["unheard"] \in Int
        BY <2>1, TallyTypes
      <4> QED BY <4>1, <4>2
    <3>5. IF leg = "am" /\ heard
          THEN sent'[a][i][leg] <= 0 + 1 + kills'[a] + sent'[a][i]["unheard"]
          ELSE sent'[a][i][leg] <= 0 + kills'[a] + sent'[a][i]["unheard"]
      BY <2>1, <3>2, <3>4, OneMoreOwed
    <3>6. leg = "am" /\ heard => HeardOf(a, i, leg)'
      BY <3>2, <3>3 DEF HeardOf
    <3>7. kills'[a] \in Int /\ sent'[a][i]["unheard"] \in Int /\ sent'[a][i][leg] \in Int
      <4>1. sent'[a][i] \in Sent
        BY <2>1, <3>2, SentType
      <4> QED BY <1>1, <4>1, DeskTypes, ConstantFacts DEF Sent, Tally
    <3> QED BY <3>5, <3>6, <3>7 DEF Owing
  <2> QED BY <2>2, <2>3
<1>7. ASSUME NEW b \in Agent, NEW l \in Lane, NEW i \in LaneItem(l), NEW leg \in {"am", "av"}
      PROVE  Owing(b, l, i, leg)'
  BY <1>3, <1>5, <1>6, OwingOther
<1>8. \A b \in Agent : mailed'[b] => pc'[b] = "post"
  BY <1>1, <1>3 DEF OwedInv
<1> QED BY <1>7, <1>8 DEF OwedInv, LaneItem

LEMMA SendPostOwes ==
  ASSUME HasSdk, TypeInv, DeskInv, OwedInv, NEW a \in Agent, SendPost(a)
  PROVE  OwedInv'
<1>0. PICK k \in Lane : k = lane[a]
  BY DeskTypes
<1>1. /\ OnlyOn(a, k) /\ UNCHANGED <<seenFile, lane>>
      /\ pc[a] = "post" /\ pc'[a] = "loop" /\ mailed' = [mailed EXCEPT ![a] = FALSE]
      /\ hand[a] \in Item /\ mailed \in [Agent -> BOOLEAN]
      /\ \A b \in Agent : b # a => AgentKept(b)
  <2>1. /\ pc[a] = "post" /\ pc' = [pc EXCEPT ![a] = "loop"]
        /\ mailed' = [mailed EXCEPT ![a] = FALSE]
    BY DEF SendPost, Move
  <2>2. OnlyOn(a, k) /\ UNCHANGED <<seenFile, lane>>
    BY <1>0, DecisionSteps
  <2>3. hand[a] \in Item /\ mailed \in [Agent -> BOOLEAN] /\ pc'[a] = "loop"
    BY <2>1, DeskTypes DEF Busy, TypeInv, ProcType
  <2> QED BY <2>1, <2>2, <2>3 DEF OnlyOn
<1>2. hand[a] \in LaneItem(k) \ seen[a] /\ OnLane(a, k) /\ OnLane(a, k)'
  BY <1>0, <1>1 DEF DeskInv, AtWork, Busy, OnLane
<1>3. /\ ~ mailed'[a] /\ \A b \in Agent : b # a => mailed'[b] = mailed[b]
      /\ kills'[a] = kills[a]
  BY <1>1 DEF OnlyOn
<1>4. \E ok \in BOOLEAN :
        /\ Outcome(a, ok) /\ (mailed[a] => ok)
        /\ \/ UNCHANGED sent
           \/ \E heard \in BOOLEAN : /\ CountsReply(a, hand[a], "av", heard)
                                     /\ heard => ok
  <2>1. ASSUME NEW heard \in BOOLEAN, PostAccepted(a, heard)
        PROVE  CountsReply(a, hand[a], "av", heard)
    BY <2>1, TakenCounts, Zenon DEF PostAccepted
  <2>2. \/ PostAccepted(a, TRUE) /\ Outcome(a, TRUE)
        \/ PostAccepted(a, FALSE) /\ Outcome(a, mailed[a])
        \/ Outcome(a, mailed[a] /\ ~ PostRaises(a)) /\ UNCHANGED sent
    BY DEF SendPost
  <2>3. mailed[a] \in BOOLEAN /\ ~ PostRaises(a)
    BY <1>1 DEF PostRaises
  <2>4. CASE PostAccepted(a, TRUE) /\ Outcome(a, TRUE)
    BY <2>1, <2>4
  <2>5. CASE PostAccepted(a, FALSE) /\ Outcome(a, mailed[a])
    BY <2>1, <2>3, <2>5
  <2>6. CASE Outcome(a, mailed[a] /\ ~ PostRaises(a)) /\ UNCHANGED sent
    <3>1. PICK ok \in BOOLEAN : ok = (mailed[a] /\ ~ PostRaises(a))
      BY <2>3
    <3>2. Outcome(a, ok) /\ (mailed[a] => ok)
      BY <2>3, <2>6, <3>1
    <3> QED BY <2>6, <3>2
  <2> QED BY <2>2, <2>4, <2>5, <2>6
<1>5. PICK ok \in BOOLEAN :
        /\ Outcome(a, ok) /\ (mailed[a] => ok)
        /\ \/ UNCHANGED sent
           \/ \E heard \in BOOLEAN : /\ CountsReply(a, hand[a], "av", heard)
                                     /\ heard => ok
  BY <1>4
<1>6. /\ seen[a] \subseteq seen'[a] /\ (ok => hand[a] \in seen'[a])
  <2>1. \/ \E what \in {"answered", "dropped"} : Seen(a, hand[a], what)
        \/ ~ ok /\ UNCHANGED seen
    BY <1>5 DEF Outcome
  <2> QED BY <2>1, DeskTypes DEF Seen
<1>7. /\ \A l \in Lane : Memory(a, l) \subseteq Memory(a, l)'
      /\ ok => hand[a] \in Memory(a, k)'
      /\ hand[a] \notin Memory(a, k)
  BY <1>1, <1>2, <1>6, MemoryElsewhere DEF Memory
<1>8. \A b \in Agent, i \in Item : b # a \/ i # hand[a] => sent'[b][i] = sent[b][i]
  BY <1>1, <1>5, SentType
<1>9. ASSUME NEW l \in Lane, NEW i \in LaneItem(l), NEW leg \in {"am", "av"}
      PROVE  Owing(a, l, i, leg)'
  <2>1. i \in Item /\ Owing(a, l, i, leg)
    BY LaneItems DEF OwedInv
  <2>2. CASE i # hand[a]
    BY <1>3, <1>7, <1>8, <2>1, <2>2, OwingStays DEF HeardOf
  <2>3. CASE i = hand[a] /\ UNCHANGED sent
    <3>1. l = k
      BY <1>2, <2>3, LaneItems
    <3> QED BY <1>3, <1>5, <1>7, <2>1, <2>3, <3>1, OwingStays DEF HeardOf
  <2>4. ASSUME NEW heard \in BOOLEAN, i = hand[a], CountsReply(a, i, "av", heard), heard => ok
        PROVE  Owing(a, l, i, leg)'
    <3>1. l = k
      BY <1>2, <2>4, LaneItems
    <3> DEFINE c == IF leg = "am" /\ mailed[a] THEN 1 ELSE 0
    <3>2. /\ kills[a] \in Int /\ sent[a][i]["unheard"] \in Int /\ sent[a][i][leg] \in Int
          /\ kills'[a] \in Int /\ sent'[a][i]["unheard"] \in Int /\ sent'[a][i][leg] \in Int
      <4>1. sent'[a][i] \in Sent
        BY <2>1, <2>4, SentType
      <4> QED BY <1>3, <2>1, <4>1, TallyTypes, ConstantFacts DEF Sent, Tally
    <3>3. sent[a][i][leg] <= c + kills[a] + sent[a][i]["unheard"] /\ c \in {0, 1}
      BY <1>7, <2>1, <2>4, <3>1, <3>2 DEF Owing, HeardOf
    <3> HIDE DEF c
    <3>4. IF leg = "av" /\ heard
          THEN sent'[a][i][leg] <= c + 1 + kills'[a] + sent'[a][i]["unheard"]
          ELSE sent'[a][i][leg] <= c + kills'[a] + sent'[a][i]["unheard"]
      BY <1>3, <2>1, <2>4, <3>3, OneMoreOwed
    <3>5. /\ c = 1 => ok
          /\ leg = "av" => c = 0
          /\ ok => i \in Memory(a, l)'
      BY <1>5, <1>7, <2>4, <3>1 DEF c
    <3>6. CASE ok
      BY <2>4, <3>2, <3>3, <3>4, <3>5, <3>6 DEF Owing
    <3>7. CASE ~ ok
      BY <2>4, <3>2, <3>3, <3>4, <3>5, <3>7 DEF Owing
    <3> QED BY <3>6, <3>7
  <2> QED BY <1>5, <2>2, <2>3, <2>4
<1>10. ASSUME NEW b \in Agent, NEW l \in Lane, NEW i \in LaneItem(l), NEW leg \in {"am", "av"}
       PROVE  Owing(b, l, i, leg)'
  BY <1>1, <1>3, <1>8, <1>9, OwingOther
<1>11. \A b \in Agent : mailed'[b] => pc'[b] = "post"
  BY <1>1, <1>3 DEF OwedInv, AgentKept
<1> QED BY <1>10, <1>11 DEF OwedInv, LaneItem

\* A kill pays for whatever it makes the process forget.
LEMMA KillOwes ==
  ASSUME TypeInv, DeskInv, OwedInv, NEW a \in Agent, Kill(a)
  PROVE  OwedInv'
<1>1. /\ \A b \in Agent : b # a => AgentKept(b)
      /\ kills'[a] = kills[a] + 1 /\ UNCHANGED sent
      /\ mailed' = [mailed EXCEPT ![a] = FALSE]
  <2>1. /\ UNCHANGED sent /\ mailed' = [mailed EXCEPT ![a] = FALSE]
        /\ kills' = [kills EXCEPT ![a] = kills[a] + 1]
    BY Zenon DEF Kill, ghostVars
  <2>2. \A b \in Agent : b # a => AgentKept(b)
    BY KillEffects
  <2> QED BY <2>1, <2>2, DeskTypes
<1>2. ~ mailed'[a] /\ \A b \in Agent : b # a => mailed'[b] = mailed[b]
  BY <1>1 DEF TypeInv, ProcType
<1>3. ASSUME NEW l \in Lane, NEW i \in LaneItem(l), NEW leg \in {"am", "av"}
      PROVE  Owing(a, l, i, leg)'
  <2>1. i \in Item /\ Owing(a, l, i, leg)
    BY LaneItems DEF OwedInv
  <2>2. sent[a][i][leg] \in Int /\ sent[a][i]["unheard"] \in Int /\ kills[a] \in Int
    BY <2>1, TallyTypes
  <2>3. sent[a][i][leg] <= 1 + kills[a] + sent[a][i]["unheard"]
    BY <2>1, <2>2 DEF Owing
  <2>4. sent'[a][i][leg] <= kills'[a] + sent'[a][i]["unheard"] /\ kills'[a] \in Int
    BY <1>1, <2>2, <2>3
  <2> QED BY <1>1, <2>2, <2>4 DEF Owing
<1>4. ASSUME NEW b \in Agent, NEW l \in Lane, NEW i \in LaneItem(l), NEW leg \in {"am", "av"}
      PROVE  Owing(b, l, i, leg)'
  BY <1>1, <1>2, <1>3, OwingOther
<1>5. \A b \in Agent : mailed'[b] => pc'[b] = "post"
  BY <1>1, <1>2 DEF OwedInv, AgentKept
<1> QED BY <1>4, <1>5 DEF OwedInv, LaneItem

LEMMA OwedStep ==
  ASSUME HasSdk, TypeInv, DeskInv, OwedInv, [Next]_vars
  PROVE  OwedInv'
<1>1. ASSUME \A b \in Agent : AgentKept(b), UNCHANGED <<sent, mailed>> PROVE OwedInv'
  <2>1. \A b \in Agent, l \in Lane : \A i \in LaneItem(l), leg \in {"am", "av"} :
          Owing(b, l, i, leg)'
    BY <1>1, OwingOther
  <2>2. \A b \in Agent : mailed'[b] => pc'[b] = "post"
    BY <1>1 DEF OwedInv, AgentKept
  <2> QED BY <2>1, <2>2 DEF OwedInv, LaneItem
<1>2. ASSUME NEW m \in Mail, Arrive(m) PROVE OwedInv'
  BY <1>1, <1>2 DEF Arrive, AgentKept, fileVars, procVars, ghostVars
<1>3. CASE UNCHANGED vars
  BY <1>1, <1>3 DEF vars, AgentKept, fileVars, procVars, ghostVars
<1>4. ASSUME NEW a \in Agent, NEW k \in Lane, ReadLane(a, k) PROVE OwedInv'
  BY <1>4, ReadLaneOwes
<1>5. ASSUME NEW a \in Agent, Serve(a) PROVE OwedInv'
  BY <1>5, TakeOwes, SweepOwes, SendMailOwes, SendPostOwes, SaveOwes DEF Serve
<1>6. ASSUME NEW a \in Agent, Kill(a) \/ Restart(a) PROVE OwedInv'
  BY <1>6, KillOwes, TakeOwes
<1> QED BY <1>2, <1>3, <1>4, <1>5, <1>6 DEF Next

LEMMA OwedInit == Init => OwedInv
<1> SUFFICES ASSUME Init PROVE OwedInv
  OBVIOUS
<1>1. \A a \in Agent : ~ mailed[a] /\ kills[a] = 0
  BY DEF Init
<1>2. ASSUME NEW a \in Agent, NEW l \in Lane, NEW i \in LaneItem(l), NEW leg \in {"am", "av"}
      PROVE  Owing(a, l, i, leg)
  <2>1. sent[a][i] = [n \in Tally |-> 0]
    BY LaneItems DEF Init
  <2>2. sent[a][i][leg] = 0 /\ sent[a][i]["unheard"] = 0
    BY <2>1 DEF Tally
  <2> QED BY <1>1, <2>2 DEF Owing
<1> QED BY <1>1, <1>2 DEF OwedInv

\* With the SDK installed, an agent answers an item once on either leg, and once more at
\* most for each kill and each reply taken while it heard of a failure: for any agents,
\* mail and kills, inside the writing of the files too (reply, process_lane,
\* serve_agentverse).
THEOREM AnswersAreAccounted ==
  ASSUME HasSdk
  PROVE  Spec => []AnswersAccounted
<1>1. TypeInv /\ OwedInv => AnswersAccounted
  <2> SUFFICES ASSUME TypeInv, OwedInv, NEW a \in Agent, NEW i \in Item, NEW leg \in {"am", "av"}
               PROVE  sent[a][i][leg] <= 1 + kills[a] + sent[a][i]["unheard"]
    BY DEF AnswersAccounted
  <2>1. PICK l \in Lane : i \in LaneItem(l)
    <3>1. CASE i \in Mail
      BY <3>1, FleetAssumption DEF LaneItem, LetterType
    <3>2. CASE i \in ReplyItem
      BY <3>2 DEF LaneItem, ReplyItem, Lane
    <3> QED BY <3>1, <3>2 DEF Item
  <2>2. Owing(a, l, i, leg)
    BY <2>1 DEF OwedInv
  <2>3. sent[a][i][leg] \in Int /\ sent[a][i]["unheard"] \in Int /\ kills[a] \in Int
    BY TallyTypes
  <2> QED BY <2>2, <2>3 DEF Owing
<1>2. Init => DeskInv
  BY DeskInit
<1>3. TypeInv /\ DeskInv /\ [Next]_vars => DeskInv'
  BY TypeStep, DesksStep
<1>4. TypeInv /\ DeskInv /\ OwedInv /\ [Next]_vars => OwedInv'
  BY OwedStep
<1> QED BY <1>1, <1>2, <1>3, <1>4, InitTypeInv, TypeStep, OwedInit, PTL DEF Spec

=============================================================================
