------------------------ MODULE TransportChainProofs ------------------------
(***************************************************************************)
(* What _transport_chain returns, for every registry entry and every value *)
(* of A2A_TRANSPORT.                                                       *)
(***************************************************************************)
EXTENDS TransportChain, TLAPS

\* The four lists `full` can be.
LEMMA FullChainCases ==
  ASSUME NEW usable
  PROVE  \/ FullChain(usable) = <<"agentmail">>
         \/ FullChain(usable) = <<"agentverse", "agentmail">>
         \/ FullChain(usable) = <<"agentmail", "e2a">>
         \/ FullChain(usable) = <<"agentverse", "agentmail", "e2a">>
  BY DEF FullChain

LEMMA FullChainType ==
  ASSUME NEW usable
  PROVE  /\ FullChain(usable) \in Seq(Lane)
         /\ Len(FullChain(usable)) \in 1..3
         /\ \A i, j \in 1..Len(FullChain(usable)) :
              FullChain(usable)[i] = FullChain(usable)[j] => i = j
<1>. DEFINE full == FullChain(usable)
<1>1. CASE full = <<"agentmail">>
  BY <1>1 DEF Lane
<1>2. CASE full = <<"agentverse", "agentmail">>
  BY <1>2 DEF Lane
<1>3. CASE full = <<"agentmail", "e2a">>
  BY <1>3 DEF Lane
<1>4. CASE full = <<"agentverse", "agentmail", "e2a">>
  BY <1>4 DEF Lane
<1>. QED BY <1>1, <1>2, <1>3, <1>4, FullChainCases

LEMMA StartIndexInDomain ==
  ASSUME NEW full \in Seq(Lane), Len(full) \in 1..3, NEW transport
  PROVE  StartIndex(full, transport) \in 1..Len(full)
<1>1. CASE \E i \in DOMAIN full : full[i] = transport
  BY <1>1 DEF StartIndex
<1>2. CASE ~ \E i \in DOMAIN full : full[i] = transport
  BY <1>2 DEF StartIndex
<1>. QED BY <1>1, <1>2

\* Turning the positions is a bijection.
LEMMA TurnedBijective ==
  ASSUME NEW n \in Nat \ {0}, NEW idx \in 1..n
  PROVE  /\ \A k \in 1..n : Turned(k, idx, n) \in 1..n
         /\ \A i, j \in 1..n : Turned(i, idx, n) = Turned(j, idx, n) => i = j
         /\ \A k \in 1..n : \E i \in 1..n : Turned(i, idx, n) = k
<1>1. /\ \A k \in 1..n : Turned(k, idx, n) \in 1..n
      /\ \A i, j \in 1..n : Turned(i, idx, n) = Turned(j, idx, n) => i = j
  BY DEF Turned
<1>2. ASSUME NEW k \in 1..n
      PROVE  \E i \in 1..n : Turned(i, idx, n) = k
  <2>. DEFINE i == IF k >= idx THEN k - idx + 1 ELSE k - idx + 1 + n
  <2>1. i \in 1..n /\ Turned(i, idx, n) = k
    BY DEF Turned
  <2>. QED BY <2>1
<1>. QED BY <1>1, <1>2

\* The chain has one to three lanes.
LEMMA ChainType ==
  ASSUME NEW usable, NEW transport
  PROVE  /\ Chain(usable, transport) \in Seq(Lane)
         /\ Len(Chain(usable, transport)) = Len(FullChain(usable))
         /\ Len(Chain(usable, transport)) \in 1..3
<1>. DEFINE full == FullChain(usable)
            idx  == StartIndex(full, transport)
<1>1. full \in Seq(Lane) /\ Len(full) \in 1..3 /\ idx \in 1..Len(full)
  BY FullChainType, StartIndexInDomain
<1>2. Chain(usable, transport) =
        [k \in 1..Len(full) |-> full[Turned(k, idx, Len(full))]]
  BY DEF Chain
<1>. HIDE DEF full, idx
<1>3. \A k \in 1..Len(full) : Turned(k, idx, Len(full)) \in 1..Len(full)
  BY <1>1, TurnedBijective
<1>4. \A k \in 1..Len(full) : full[Turned(k, idx, Len(full))] \in Lane
  BY <1>1, <1>3
<1>. QED BY <1>1, <1>2, <1>4 DEF full

\* What occurs in a list written out.
LEMMA Occurs ==
  ASSUME NEW x, NEW y, NEW z, NEW l
  PROVE  /\ (\E k \in 1..1 : <<x>>[k] = l) <=> l = x
         /\ (\E k \in 1..2 : <<x, y>>[k] = l) <=> l \in {x, y}
         /\ (\E k \in 1..3 : <<x, y, z>>[k] = l) <=> l \in {x, y, z}
<1>1. (\E k \in 1..1 : <<x>>[k] = l) <=> l = x
  OBVIOUS
<1>2. (\E k \in 1..2 : <<x, y>>[k] = l) <=> l \in {x, y}
  <2>1. <<x, y>>[1] = x /\ <<x, y>>[2] = y
    OBVIOUS
  <2>2. 1 \in 1..2 /\ 2 \in 1..2 /\ \A k \in 1..2 : k = 1 \/ k = 2
    OBVIOUS
  <2>. QED BY <2>1, <2>2, Zenon
<1>3. (\E k \in 1..3 : <<x, y, z>>[k] = l) <=> l \in {x, y, z}
  <2>1. <<x, y, z>>[1] = x /\ <<x, y, z>>[2] = y /\ <<x, y, z>>[3] = z
    OBVIOUS
  <2>2. /\ 1 \in 1..3 /\ 2 \in 1..3 /\ 3 \in 1..3
        /\ \A k \in 1..3 : k = 1 \/ k = 2 \/ k = 3
    OBVIOUS
  <2>. QED BY <2>1, <2>2, Zenon
<1>. QED BY <1>1, <1>2, <1>3

\* The lanes of `full`: the usable ones and agentmail.
LEMMA FullChainLanes ==
  ASSUME NEW usable \in SUBSET Lane, NEW l
  PROVE  (\E k \in 1..Len(FullChain(usable)) : FullChain(usable)[k] = l)
         <=> l \in usable \cup {"agentmail"}
<1>. DEFINE full == FullChain(usable)
<1>1. CASE "agentverse" \in usable /\ "e2a" \in usable
  <2>1. full = <<"agentverse", "agentmail", "e2a">>  BY <1>1 DEF FullChain
  <2>2. Len(full) = 3  BY <2>1
  <2>3. usable \cup {"agentmail"} = {"agentverse", "agentmail", "e2a"}
    BY <1>1 DEF Lane
  <2>. QED BY <2>1, <2>2, <2>3, Occurs
<1>2. CASE "agentverse" \in usable /\ "e2a" \notin usable
  <2>1. full = <<"agentverse", "agentmail">>  BY <1>2 DEF FullChain
  <2>2. Len(full) = 2  BY <2>1
  <2>3. usable \cup {"agentmail"} = {"agentverse", "agentmail"}
    BY <1>2 DEF Lane
  <2>. QED BY <2>1, <2>2, <2>3, Occurs
<1>3. CASE "agentverse" \notin usable /\ "e2a" \in usable
  <2>1. full = <<"agentmail", "e2a">>  BY <1>3 DEF FullChain
  <2>2. Len(full) = 2  BY <2>1
  <2>3. usable \cup {"agentmail"} = {"agentmail", "e2a"}
    BY <1>3 DEF Lane
  <2>. QED BY <2>1, <2>2, <2>3, Occurs
<1>4. CASE "agentverse" \notin usable /\ "e2a" \notin usable
  <2>1. full = <<"agentmail">>  BY <1>4 DEF FullChain
  <2>2. Len(full) = 1  BY <2>1
  <2>3. usable \cup {"agentmail"} = {"agentmail"}
    BY <1>4 DEF Lane
  <2>. QED BY <2>1, <2>2, <2>3, Occurs
<1>. QED BY <1>1, <1>2, <1>3, <1>4

\* Whatever A2A_TRANSPORT is, the chain holds every usable lane, agentmail
\* always, no other lane, and no lane twice: honouring A2A_TRANSPORT changes
\* the order and never the lanes (_transport_chain).
THEOREM ChainLanes ==
  ASSUME NEW usable \in SUBSET Lane, NEW transport
  PROVE  LET c == Chain(usable, transport) IN
         /\ \A l : (\E k \in 1..Len(c) : c[k] = l)
                   <=> l \in usable \cup {"agentmail"}
         /\ \A i, j \in 1..Len(c) : c[i] = c[j] => i = j
<1>. DEFINE full == FullChain(usable)
            idx  == StartIndex(full, transport)
            n    == Len(full)
            c    == Chain(usable, transport)
<1>1. /\ full \in Seq(Lane) /\ n \in 1..3 /\ idx \in 1..n
      /\ \A i, j \in 1..n : full[i] = full[j] => i = j
  BY FullChainType, StartIndexInDomain
<1>2. c = [k \in 1..n |-> full[Turned(k, idx, n)]]
  BY DEF Chain
<1>3. Len(c) = n
  BY ChainType
<1>4. \A l : (\E k \in 1..n : full[k] = l) <=> l \in usable \cup {"agentmail"}
  BY FullChainLanes
<1>. HIDE DEF full, idx, n, c
<1>5. \A k \in 1..n : c[k] = full[Turned(k, idx, n)]
  BY <1>2
<1>t. /\ \A k \in 1..n : Turned(k, idx, n) \in 1..n
      /\ \A i, j \in 1..n : Turned(i, idx, n) = Turned(j, idx, n) => i = j
      /\ \A k \in 1..n : \E i \in 1..n : Turned(i, idx, n) = k
  <2>1. n \in Nat \ {0}
    BY <1>1
  <2>. QED BY <1>1, <2>1, TurnedBijective
<1>6. \A l : (\E k \in 1..n : c[k] = l) <=> (\E k \in 1..n : full[k] = l)
  BY <1>5, <1>t, Zenon
<1>7. \A i, j \in 1..n : c[i] = c[j] => i = j
  <2>1. SUFFICES ASSUME NEW i \in 1..n, NEW j \in 1..n, c[i] = c[j]
                 PROVE  i = j
    OBVIOUS
  <2>2. full[Turned(i, idx, n)] = full[Turned(j, idx, n)]
    BY <1>5, <2>1
  <2>3. Turned(i, idx, n) = Turned(j, idx, n)
    BY <1>1, <1>t, <2>2
  <2>. QED BY <1>t, <2>3
<1>. QED BY <1>3, <1>4, <1>6, <1>7 DEF c

=============================================================================
