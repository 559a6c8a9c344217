---------------------------- MODULE KeeperProofs ----------------------------
(***************************************************************************)
(* Proofs about Keeper: types, that launches wait for what was launched      *)
(* before, and that the keeper itself never takes an agent's last actor.     *)
(***************************************************************************)
EXTENDS Keeper, TLAPS

\* The launches and the losses of one actor, one process at a time.
LEMMA ZeroType == Zero \in [Actor -> Nat] /\ \A b \in Actor : Zero[b] = 0
  BY DEF Zero

LEMMA LaunchType ==
  ASSUME TypeOK, NEW b \in Actor, Launch(b)
  PROVE  /\ starting' \in [Actor -> Nat]
         /\ starting'[b] = starting[b] + 1
         /\ \A c \in Actor : c # b => starting'[c] = starting[c]
  BY KeeperAssumption DEF TypeOK, Launch

LEMMA AgentIsActor == Agent \subseteq Actor /\ CatchAll \in Actor
  BY DEF Actor

-----------------------------------------------------------------------------
(* Types *)

LEMMA TypeInit == Init => TypeOK
<1> SUFFICES ASSUME Init PROVE TypeOK
  OBVIOUS
<1>1. up \in [Actor -> Nat] /\ \A b \in Actor : up[b] >= 0
  BY KeeperAssumption DEF Init
<1>2. starting \in [Actor -> Nat]
  BY KeeperAssumption DEF Init, Zero
<1>3. doomed \in [Actor -> Nat] /\ \A b \in Actor : doomed[b] <= up[b]
  BY <1>1 DEF Init, Zero
<1>4. /\ script \in {"omega", "fleet"} /\ pc \in Phase /\ todo \in SUBSET Agent
      /\ missing \in SUBSET Agent /\ started \in BOOLEAN /\ upset \in SUBSET Actor
  BY DEF Init, Phase
<1>5. faults \in 0..MaxFaults /\ excused \in Nat
  BY KeeperAssumption DEF Init
<1> QED
  BY <1>1, <1>2, <1>3, <1>4, <1>5 DEF TypeOK

\* What a launch, or leaving one be, and a start that ends change.
LEMMA LaunchIfAbsentEffect ==
  ASSUME TypeOK, NEW a \in Agent, LaunchIfAbsent(a)
  PROVE  /\ starting' \in [Actor -> Nat]
         /\ started' \in BOOLEAN
         /\ \/ UNCHANGED <<starting, started>>
            \/ /\ up[a] = 0 /\ started'
               /\ starting'[a] = starting[a] + 1
               /\ \A c \in Actor : c # a => starting'[c] = starting[c]
<1>1. CASE HasActor(a)
  BY <1>1 DEF LaunchIfAbsent, TypeOK
<1>2. CASE ~ HasActor(a)
  <2>1. up[a] = 0
    BY <1>2, AgentIsActor, KeeperAssumption DEF HasActor, TypeOK
  <2>2. Launch(a) /\ started' = TRUE
    BY <1>2 DEF LaunchIfAbsent
  <2> QED
    BY <2>1, <2>2, LaunchType, AgentIsActor
<1> QED
  BY <1>1, <1>2

LEMMA ResolveEffect ==
  ASSUME TypeOK, NEW b \in Actor, Resolve(b)
  PROVE  /\ starting' \in [Actor -> Nat]
         /\ excused' \in Nat
         /\ starting[b] > 0 /\ starting'[b] = starting[b] - 1
         /\ \A c \in Actor : c # b => starting'[c] = starting[c]
         /\ (starting' = Zero /\ excused' = 0) \/ UNCHANGED excused
  BY DEF TypeOK, Resolve

LEMMA NextPhaseEffect ==
  ASSUME TypeOK, NextPhase
  PROVE  /\ pc' \in Phase /\ todo' \in SUBSET Agent /\ missing' = {} /\ started' = FALSE
         /\ UNCHANGED <<script, starting, up, doomed, upset>>
  BY DEF TypeOK, NextPhase, LoopDone, Follows, Phase

LEMMA TypeNext == TypeOK /\ [Next]_vars => TypeOK'
<1> SUFFICES ASSUME TypeOK, [Next]_vars PROVE TypeOK'
  OBVIOUS
<1> USE KeeperAssumption, AgentIsActor
<1>1. CASE Run
  <2>1. doomed' \in [Actor -> Nat] /\ \A b \in Actor : doomed'[b] <= up[b]
    <3>1. doomed' = [Zero EXCEPT ![CatchAll] = IF script = "omega" THEN up[CatchAll] ELSE 0]
      BY <1>1 DEF Run
    <3>2. up[CatchAll] \in Nat /\ \A b \in Actor : up[b] \in Nat
      BY DEF TypeOK
    <3> QED
      BY <3>1, <3>2 DEF Zero
  <2>2. UNCHANGED <<script, starting, up, missing, started, faults, upset, excused>>
        /\ pc' \in Phase /\ todo' \in SUBSET Agent
    BY <1>1 DEF Run, Phase, ghostVars
  <2> QED
    BY <2>1, <2>2 DEF TypeOK
<1>2. CASE NextLoop
  BY <1>2, NextPhaseEffect DEF NextLoop, TypeOK
<1>3. ASSUME NEW b \in Actor, KillDoomed(b) PROVE TypeOK'
  <2>1. UNCHANGED <<script, starting, pc, todo, missing, started, faults, upset, excused>>
    BY <1>3 DEF KillDoomed, ghostVars
  <2>2. doomed[b] > 0 /\ doomed[b] \in Nat /\ up[b] \in Nat /\ doomed[b] <= up[b]
    BY <1>3 DEF KillDoomed, TypeOK
  <2>3. up' = [up EXCEPT ![b] = up[b] - 1] /\ doomed' = [doomed EXCEPT ![b] = doomed[b] - 1]
    BY <1>3 DEF KillDoomed
  <2>4. up' \in [Actor -> Nat] /\ doomed' \in [Actor -> Nat]
        /\ \A c \in Actor : doomed'[c] <= up'[c]
    BY <2>2, <2>3 DEF TypeOK
  <2> QED
    BY <2>1, <2>4 DEF TypeOK
<1>4. ASSUME NEW a \in Agent, Collapse(a) PROVE TypeOK'
  <2>1. UNCHANGED <<script, starting, up, pc, missing, started, faults, excused>>
        /\ upset' = {} /\ todo' = todo \ {a}
    BY <1>4 DEF Collapse, Look
  <2>2. doomed' \in [Actor -> Nat] /\ \A b \in Actor : doomed'[b] <= up[b]
    <3>1. CASE UNCHANGED doomed
      BY <3>1 DEF TypeOK
    <3>2. CASE \E kept \in Covers[a] :
                 /\ up[kept] > 0
                 /\ doomed' = [b \in Actor |-> IF b \notin Covers[a] THEN 0
                                               ELSE IF b = kept THEN up[b] - 1 ELSE up[b]]
      <4>1. PICK kept \in Covers[a] :
                 /\ up[kept] > 0
                 /\ doomed' = [b \in Actor |-> IF b \notin Covers[a] THEN 0
                                               ELSE IF b = kept THEN up[b] - 1 ELSE up[b]]
        BY <3>2
      <4>2. \A b \in Actor : up[b] \in Nat
        BY DEF TypeOK
      <4> QED
        BY <4>1, <4>2
    <3> QED
      BY <3>1, <3>2, <1>4 DEF Collapse
  <2> QED
    BY <2>1, <2>2 DEF TypeOK
<1>5. ASSUME NEW a \in Agent, Ensure(a) \/ Retry(a) PROVE TypeOK'
  <2>1. UNCHANGED <<script, up, pc, doomed, missing, faults, upset, excused>>
        /\ todo' = todo \ {a} /\ LaunchIfAbsent(a)
    BY <1>5 DEF Ensure, Retry, Look, ghostVars
  <2> QED
    BY <2>1, LaunchIfAbsentEffect DEF TypeOK
<1>6. ASSUME NEW a \in Agent, Check(a) PROVE TypeOK'
  BY <1>6 DEF Check, Look, TypeOK, ghostVars
<1>7. ASSUME NEW a \in Agent, RetryOne(a) PROVE TypeOK'
  <2>1. UNCHANGED <<script, up, pc, doomed, missing, faults, upset, excused>>
        /\ todo' \in SUBSET Agent /\ LaunchIfAbsent(a)
    BY <1>7 DEF RetryOne, TypeOK, ghostVars
  <2> QED
    BY <2>1, LaunchIfAbsentEffect DEF TypeOK
<1>8. ASSUME NEW b \in Actor, Appear(b) PROVE TypeOK'
  <2>1. UNCHANGED <<script, runVars, faults, upset>> /\ Resolve(b)
        /\ up' = [up EXCEPT ![b] = up[b] + 1]
    BY <1>8 DEF Appear
  <2>2. up' \in [Actor -> Nat] /\ \A c \in Actor : doomed[c] <= up'[c]
    BY <2>1 DEF TypeOK
  <2> QED
    BY <2>1, <2>2, ResolveEffect DEF TypeOK, runVars
<1>9. ASSUME NEW b \in Actor, Crash(b) PROVE TypeOK'
  <2>1. UNCHANGED <<script, starting, pc, todo, missing, started, excused>>
        /\ upset' \in SUBSET Actor /\ faults' \in 0..MaxFaults
    BY <1>9 DEF Crash, Fault, TypeOK
  <2>2. up[b] > 0 /\ up[b] \in Nat /\ doomed[b] \in Nat /\ doomed[b] <= up[b]
    BY <1>9 DEF Crash, TypeOK
  <2>3. up' = [up EXCEPT ![b] = up[b] - 1]
    BY <1>9 DEF Crash
  <2>4. \/ doomed[b] < up[b] /\ UNCHANGED doomed
        \/ doomed[b] > 0 /\ doomed' = [doomed EXCEPT ![b] = doomed[b] - 1]
    BY <1>9 DEF Crash
  <2>5. up' \in [Actor -> Nat] /\ doomed' \in [Actor -> Nat]
        /\ \A c \in Actor : doomed'[c] <= up'[c]
    BY <2>2, <2>3, <2>4 DEF TypeOK
  <2> QED
    BY <2>1, <2>5 DEF TypeOK
<1>10. ASSUME NEW b \in Actor, StartFails(b) PROVE TypeOK'
  <2>1. UNCHANGED <<script, up, runVars, upset>> /\ faults' \in 0..MaxFaults /\ Resolve(b)
    BY <1>10 DEF StartFails, Fault, TypeOK
  <2> QED
    BY <2>1, ResolveEffect DEF TypeOK, runVars
<1>11. ASSUME NEW b \in Actor, ManualLaunch(b) PROVE TypeOK'
  <2>1. UNCHANGED <<script, up, runVars, upset>> /\ faults' \in 0..MaxFaults
        /\ Launch(b) /\ excused' = excused + 1
    BY <1>11 DEF ManualLaunch, Fault, TypeOK
  <2>2. starting' \in [Actor -> Nat]
    BY <2>1, LaunchType
  <2> QED
    BY <2>1, <2>2 DEF TypeOK, runVars
<1>12. ASSUME NEW b \in Actor, KillFails(b) PROVE TypeOK'
  <2>1. UNCHANGED <<script, starting, up, pc, todo, missing, started, upset, excused>>
        /\ faults' \in 0..MaxFaults /\ doomed[b] > 0
        /\ doomed' = [doomed EXCEPT ![b] = doomed[b] - 1]
    BY <1>12 DEF KillFails, Fault, TypeOK, ghostVars
  <2>2. doomed' \in [Actor -> Nat] /\ \A c \in Actor : doomed'[c] <= up[c]
    BY <2>1 DEF TypeOK
  <2> QED
    BY <2>1, <2>2 DEF TypeOK
<1>13. CASE Recreate
  <2>1. starting' \in [Actor -> Nat] /\ up' \in [Actor -> Nat]
        /\ doomed' \in [Actor -> Nat] /\ \A b \in Actor : doomed'[b] <= up'[b]
    BY <1>13 DEF Recreate, StopRun, Zero
  <2>2. /\ UNCHANGED script /\ pc' \in Phase /\ todo' = {} /\ missing' = {}
        /\ started' = FALSE /\ upset' = {}
    BY <1>13 DEF Recreate, StopRun, Phase
  <2>3. faults' \in 0..MaxFaults /\ excused' \in Nat
    BY <1>13 DEF Recreate, Fault, TypeOK
  <2> QED
    BY <2>1, <2>2, <2>3 DEF TypeOK
<1>14. CASE KeeperDies
  <2>1. doomed' \in [Actor -> Nat] /\ \A b \in Actor : doomed'[b] <= up[b]
    BY <1>14 DEF KeeperDies, StopRun, Zero, TypeOK
  <2>2. UNCHANGED <<script, starting, up, upset>> /\ pc' \in Phase /\ todo' = {}
        /\ missing' = {} /\ started' = FALSE /\ faults' \in 0..MaxFaults /\ excused' \in Nat
    BY <1>14 DEF KeeperDies, StopRun, Fault, TypeOK, Phase
  <2> QED
    BY <2>1, <2>2 DEF TypeOK
<1>15. CASE SettleTooShort
  <2>1. faults' \in 0..MaxFaults /\ excused' \in Nat /\ NextPhase
    BY <1>15 DEF SettleTooShort, Fault, TypeOK
  <2> QED
    BY <2>1, NextPhaseEffect DEF TypeOK
<1>16. CASE UNCHANGED vars
  BY <1>16 DEF TypeOK, vars, runVars, ghostVars
<1> QED
  BY <1>1, <1>2, <1>3, <1>4, <1>5, <1>6, <1>7, <1>8, <1>9, <1>10, <1>11, <1>12, <1>13,
     <1>14, <1>15, <1>16 DEF Next, Keep, Disturb

\* The keeper's variables keep their types, and a run never dooms more processes of
\* an actor than there are.
THEOREM TypeCorrect == Spec => []TypeOK
  BY TypeInit, TypeNext, PTL DEF Spec

-----------------------------------------------------------------------------
(* Launches wait for what was launched before. *)

\* What keeps NoDoubleStart: the starts of an agent that are pending have an excuse
\* each, but for the one the loop under way has launched and the sleep after it will
\* wait for.
Excused(a) == starting[a] <= excused + (IF started /\ a \notin todo THEN 1 ELSE 0)

StartInv ==
  /\ pc = "idle" => ~ started
  /\ \A a \in Agent : Excused(a)

LEMMA StartStep == TypeOK /\ StartInv /\ [Next]_vars => StartInv'
<1> SUFFICES ASSUME TypeOK, StartInv, [Next]_vars PROVE StartInv'
  OBVIOUS
<1> USE AgentIsActor
<1>0. /\ excused \in Nat /\ started \in BOOLEAN /\ todo \in SUBSET Agent
      /\ \A a \in Agent : starting[a] \in Nat /\ Excused(a)
      /\ pc = "idle" => ~ started
  BY DEF TypeOK, StartInv
<1>1. ASSUME UNCHANGED <<starting, excused, started>>, todo' \subseteq todo,
             pc' = "idle" => ~ started
      PROVE  StartInv'
  BY <1>0, <1>1 DEF StartInv, Excused
<1>2. CASE Run
  BY <1>0, <1>2 DEF Run, ghostVars, StartInv, Excused
<1>3. CASE NextLoop
  <2>1. /\ started' = FALSE /\ UNCHANGED <<starting, excused>>
        /\ started => starting = Zero
    BY <1>3, NextPhaseEffect DEF NextLoop
  <2>2. \A a \in Agent : Excused(a)'
    BY <1>0, <2>1, ZeroType DEF Excused
  <2> QED
    BY <2>1, <2>2 DEF StartInv
<1>4. CASE SettleTooShort
  <2>1. started' = FALSE /\ UNCHANGED starting /\ excused' = excused + 1
    BY <1>4, NextPhaseEffect DEF SettleTooShort
  <2> QED
    BY <1>0, <2>1 DEF StartInv, Excused
<1>5. ASSUME NEW b \in Actor, KillDoomed(b) \/ KillFails(b) \/ Crash(b) PROVE StartInv'
  BY <1>0, <1>1, <1>5 DEF KillDoomed, KillFails, Crash, ghostVars
<1>6. ASSUME NEW a \in Agent, Collapse(a) \/ Check(a) PROVE StartInv'
  BY <1>0, <1>1, <1>6 DEF Collapse, Check, Look, ghostVars
<1>7. ASSUME NEW a \in Agent, Ensure(a) \/ Retry(a) \/ RetryOne(a) PROVE StartInv'
  <2>1. /\ a \in todo /\ LaunchIfAbsent(a) /\ UNCHANGED <<pc, excused>> /\ pc # "idle"
        /\ todo' = todo \ {a} \/ todo' = {}
        /\ HasActor(a) => UNCHANGED <<starting, started>>
    BY <1>7 DEF Ensure, Retry, RetryOne, Look, LaunchIfAbsent, ghostVars
  <2>2. CASE UNCHANGED <<starting, started>>
    BY <1>0, <1>1, <2>1, <2>2
  <2>3. CASE /\ started' /\ starting'[a] = starting[a] + 1
             /\ \A c \in Actor : c # a => starting'[c] = starting[c]
    <3>1. starting[a] <= excused
      BY <1>0, <2>1 DEF Excused
    <3>2. Excused(a)'
      BY <1>0, <2>1, <2>3, <3>1 DEF Excused
    <3>3. ASSUME NEW c \in Agent, c # a PROVE Excused(c)'
      <4>1. Excused(c) /\ starting[c] \in Nat /\ starting'[c] = starting[c]
        BY <1>0, <2>3, <3>3
      <4>2. c \notin todo => c \notin todo'
        BY <2>1
      <4> QED
        BY <1>0, <2>1, <2>3, <4>1, <4>2 DEF Excused
    <3> QED
      BY <2>1, <3>2, <3>3 DEF StartInv
  <2> QED
    BY <2>1, <2>2, <2>3, LaunchIfAbsentEffect
<1>8. ASSUME NEW b \in Actor, Appear(b) \/ StartFails(b) PROVE StartInv'
  <2>1. Resolve(b) /\ UNCHANGED <<pc, todo, started>>
    BY <1>8 DEF Appear, StartFails, runVars
  <2>2. \A c \in Actor : starting'[c] \in Nat /\ starting'[c] <= starting[c]
    BY <2>1, ResolveEffect DEF TypeOK
  <2>3. CASE starting' = Zero /\ excused' = 0
    BY <1>0, <2>1, <2>3, ZeroType DEF StartInv, Excused
  <2>4. CASE UNCHANGED excused
    BY <1>0, <2>1, <2>2, <2>4 DEF StartInv, Excused
  <2> QED
    BY <2>1, <2>3, <2>4, ResolveEffect
<1>9. ASSUME NEW b \in Actor, ManualLaunch(b) PROVE StartInv'
  <2>1. Launch(b) /\ excused' = excused + 1 /\ UNCHANGED <<pc, todo, started>>
    BY <1>9 DEF ManualLaunch, runVars
  <2>2. \A c \in Actor : starting'[c] <= starting[c] + 1
    BY <2>1, LaunchType DEF TypeOK
  <2>3. starting' \in [Actor -> Nat]
    BY <2>1, LaunchType
  <2> QED
    BY <1>0, <2>1, <2>2, <2>3 DEF StartInv, Excused
<1>10. CASE Recreate
  BY <1>10, ZeroType DEF Recreate, StopRun, StartInv, Excused
<1>11. CASE KeeperDies
  <2>1. UNCHANGED starting /\ started' = FALSE
        /\ excused' = IF starting = Zero THEN 0 ELSE excused + 1
    BY <1>11 DEF KeeperDies, StopRun
  <2> QED
    BY <1>0, <2>1, ZeroType DEF StartInv, Excused
<1>12. CASE UNCHANGED vars
  BY <1>0, <1>1, <1>12 DEF vars, runVars, ghostVars
<1> QED
  BY <1>2, <1>3, <1>4, <1>5, <1>6, <1>7, <1>8, <1>9, <1>10, <1>11, <1>12
     DEF Next, Keep, Disturb

\* Neither keeper launches an agent a second time while a first start of it is on the
\* way, but for what launches by hand, cut runs and starts that outlast a whole settle
\* excuse: the sleeps stand at the right places.
THEOREM NoStartIsDoubled == Spec => NoDoubleStart
<1>1. Init => StartInv
  BY AgentIsActor, ZeroType DEF Init, StartInv, Excused
<1>2. TypeOK /\ StartInv /\ [Next]_vars
        => [\A a \in Agent : starting'[a] > starting[a] /\ faults' = faults
                               => up[a] + starting[a] <= excused]_vars
  <2> SUFFICES ASSUME TypeOK, StartInv, Next, NEW a \in Agent,
                      starting'[a] > starting[a], faults' = faults
               PROVE  up[a] + starting[a] <= excused
    BY DEF vars
  <2> USE AgentIsActor
  <2>0. /\ faults \in Int /\ excused \in Nat
        /\ \A c \in Actor : starting[c] \in Nat /\ starting[c] < starting'[c] => ~ UNCHANGED starting
        /\ starting[a] \in Nat /\ Excused(a)
    BY DEF TypeOK, StartInv
  <2>1. ~ Disturb
    <3>1. ~ Fault
      BY <2>0 DEF Fault
    <3> QED
      BY <3>1 DEF Disturb, Recreate, KeeperDies, SettleTooShort, Crash, StartFails,
                  ManualLaunch, KillFails
  <2>2. starting'[a] # starting[a]
    BY <2>0
  <2>3. ASSUME NEW c \in Agent, Ensure(c) \/ Retry(c) \/ RetryOne(c)
        PROVE  up[a] + starting[a] <= excused
    <3>1. c \in todo /\ LaunchIfAbsent(c)
      BY <2>3 DEF Ensure, Retry, RetryOne, Look
    <3>2. c = a /\ up[a] = 0
      BY <2>2, <3>1, LaunchIfAbsentEffect
    <3> QED
      BY <2>0, <3>1, <3>2 DEF Excused
  <2>4. ASSUME NEW b \in Actor, Appear(b) PROVE FALSE
    <3>1. starting'[a] <= starting[a]
      BY <2>4, <2>0, ResolveEffect DEF Appear
    <3> QED
      BY <2>0, <3>1, <2>4, ResolveEffect DEF Appear
  <2>5. ASSUME \/ Run \/ NextLoop
               \/ (\E b \in Actor : KillDoomed(b)) \/ \E c \in Agent : Collapse(c) \/ Check(c)
        PROVE  FALSE
    BY <2>2, <2>5, NextPhaseEffect DEF Run, NextLoop, KillDoomed, Collapse, Check
  <2> QED
    BY <2>1, <2>3, <2>4, <2>5 DEF Next, Keep
<1> QED
  BY <1>1, <1>2, StartStep, TypeCorrect, PTL DEF Spec, NoDoubleStart

-----------------------------------------------------------------------------
(* The keeper itself leaves every agent an actor. *)

\* What keeps KeepsOne: of the actors of an agent that has lost none since the
\* listing, one is not doomed.
Spared ==
  \A a \in Agent : doomed[a] > 0 /\ a \notin upset => doomed[a] < up[a]

LEMMA SparedStep == PrefixFree /\ TypeOK /\ Spared /\ [Next]_vars => Spared'
<1> SUFFICES ASSUME PrefixFree, TypeOK, Spared, [Next]_vars,
                    NEW c \in Agent, doomed'[c] > 0, c \notin upset'
             PROVE  doomed'[c] < up'[c]
  BY DEF Spared
<1> USE AgentIsActor
<1>0. /\ up[c] \in Nat /\ doomed[c] \in Nat
      /\ doomed[c] > 0 /\ c \notin upset => doomed[c] < up[c]
  BY DEF TypeOK, Spared
<1>1. CASE UNCHANGED <<up, doomed, upset>>
  BY <1>0, <1>1
<1>2. CASE Run
  <2>1. doomed'[c] = 0
    BY <1>2, KeeperAssumption DEF Run, Zero
  <2> QED
    BY <2>1
<1>3. ASSUME NEW b \in Actor, KillDoomed(b) PROVE doomed'[c] < up'[c]
  <2>1. doomed' = [doomed EXCEPT ![b] = doomed[b] - 1] /\ up' = [up EXCEPT ![b] = up[b] - 1]
        /\ UNCHANGED upset
    BY <1>3 DEF KillDoomed, ghostVars
  <2>2. CASE b = c
    BY <1>0, <2>1, <2>2 DEF TypeOK
  <2>3. CASE b # c
    BY <1>0, <2>1, <2>3 DEF TypeOK
  <2> QED
    BY <2>2, <2>3
<1>4. ASSUME NEW a \in Agent, Collapse(a) PROVE doomed'[c] < up'[c]
  <2>1. Covers[a] = {a} /\ UNCHANGED up
    BY <1>4 DEF Collapse, PrefixFree
  <2>2. CASE UNCHANGED doomed
    <3>1. doomed[c] = 0
      BY <1>4 DEF Collapse, Look, Zero
    <3> QED
      BY <2>2, <3>1
  <2>3. CASE up[a] > 0 /\ doomed' = [b \in Actor |-> IF b # a THEN 0 ELSE up[b] - 1]
    BY <1>0, <2>1, <2>3
  <2>4. UNCHANGED doomed
        \/ (up[a] > 0 /\ doomed' = [b \in Actor |-> IF b # a THEN 0 ELSE up[b] - 1])
    <3>1. UNCHANGED doomed
          \/ \E kept \in {a} :
                 /\ up[kept] > 0
                 /\ doomed' = [b \in Actor |-> IF b \notin {a} THEN 0
                                               ELSE IF b = kept THEN up[b] - 1 ELSE up[b]]
      BY <1>4, <2>1 DEF Collapse
    <3>2. ASSUME up[a] > 0,
                 doomed' = [b \in Actor |-> IF b \notin {a} THEN 0
                                            ELSE IF b = a THEN up[b] - 1 ELSE up[b]]
          PROVE  doomed' = [b \in Actor |-> IF b # a THEN 0 ELSE up[b] - 1]
      BY <3>2
    <3> QED
      BY <3>1, <3>2
  <2> QED
    BY <2>2, <2>3, <2>4
<1>5. ASSUME NEW b \in Actor, Appear(b) PROVE doomed'[c] < up'[c]
  <2>1. up' = [up EXCEPT ![b] = up[b] + 1] /\ UNCHANGED <<doomed, upset>>
    BY <1>5 DEF Appear, runVars
  <2>2. up'[c] \in {up[c], up[c] + 1}
    BY <2>1 DEF TypeOK
  <2> QED
    BY <1>0, <2>1, <2>2
<1>6. ASSUME NEW b \in Actor, Crash(b) PROVE doomed'[c] < up'[c]
  <2>1. upset' = upset \cup {b} /\ up' = [up EXCEPT ![b] = up[b] - 1]
        /\ (UNCHANGED doomed \/ doomed' = [doomed EXCEPT ![b] = doomed[b] - 1])
    BY <1>6 DEF Crash
  <2>2. c # b /\ c \notin upset
    BY <2>1
  <2>3. up'[c] = up[c] /\ doomed'[c] = doomed[c]
    BY <2>1, <2>2 DEF TypeOK
  <2> QED
    BY <1>0, <2>2, <2>3
<1>7. CASE Recreate \/ KeeperDies
  BY <1>7 DEF Recreate, KeeperDies, StopRun, Zero
<1>8. ASSUME NEW a \in Agent, Ensure(a) \/ Check(a) \/ Retry(a) \/ RetryOne(a)
      PROVE  doomed'[c] < up'[c]
  BY <1>1, <1>8 DEF Ensure, Check, Retry, RetryOne, ghostVars
<1>9. ASSUME NEW b \in Actor, StartFails(b) \/ ManualLaunch(b) PROVE doomed'[c] < up'[c]
  BY <1>1, <1>9 DEF StartFails, ManualLaunch, runVars
<1>11. ASSUME NEW b \in Actor, KillFails(b) PROVE doomed'[c] < up'[c]
  <2>1. UNCHANGED <<up, upset>> /\ doomed' = [doomed EXCEPT ![b] = doomed[b] - 1]
    BY <1>11 DEF KillFails, ghostVars
  <2>2. doomed'[c] \in {doomed[c], doomed[c] - 1}
    BY <2>1 DEF TypeOK
  <2> QED
    BY <1>0, <2>1, <2>2
<1>10. CASE NextLoop \/ SettleTooShort \/ UNCHANGED vars
  BY <1>1, <1>10, NextPhaseEffect DEF NextLoop, SettleTooShort, vars, runVars, ghostVars
<1> QED
  BY <1>2, <1>3, <1>4, <1>5, <1>6, <1>7, <1>8, <1>9, <1>10, <1>11 DEF Next, Keep, Disturb

LEMMA SparedAlways == Spec => [](PrefixFree => Spared)
<1>1. Init => (PrefixFree => Spared)
  BY AgentIsActor DEF Init, Spared, Zero
<1>2. TypeOK /\ (PrefixFree => Spared) /\ [Next]_vars => (PrefixFree => Spared)'
  <2> SUFFICES ASSUME TypeOK, PrefixFree => Spared, [Next]_vars, PrefixFree'
               PROVE  Spared'
    OBVIOUS
  <2>1. PrefixFree
    BY DEF PrefixFree
  <2> QED
    BY <2>1, SparedStep
<1> QED
  BY <1>1, <1>2, TypeCorrect, PTL DEF Spec

\* When no agent's name begins with another's, the keeper never kills the last actor
\* of an agent that has lost none since the listing.
THEOREM KeeperSparesOne == Spec => KeepsOne
<1>1. TypeOK /\ (PrefixFree => Spared)
        => [PrefixFree => \A a \in Agent : KillDoomed(a) /\ a \notin upset => up'[a] > 0]_vars
  <2> SUFFICES ASSUME TypeOK, PrefixFree => Spared, PrefixFree,
                      NEW a \in Agent, KillDoomed(a), a \notin upset
               PROVE  up'[a] > 0
    OBVIOUS
  <2>1. up[a] \in Nat /\ doomed[a] \in Nat /\ doomed[a] > 0 /\ doomed[a] < up[a]
    BY AgentIsActor DEF TypeOK, Spared, KillDoomed
  <2>2. up' = [up EXCEPT ![a] = up[a] - 1]
    BY DEF KillDoomed
  <2> QED
    BY <2>1, <2>2, AgentIsActor DEF TypeOK
<1> QED
  BY <1>1, SparedAlways, TypeCorrect, PTL DEF KeepsOne

\* Once an agent has its one actor, no step of a keeper's run, in whichever phase, and
\* no actor that appears changes that, unless one of the agent's actors crashed after
\* the run listed them: nothing is killed, nothing is started (has_actor, collapse).
THEOREM OneActorIsKept ==
  Spec => [][PrefixFree =>
               \A a \in Agent :
                 up[a] = 1 /\ starting[a] = 0 /\ a \notin upset /\ faults' = faults =>
                   up'[a] = 1 /\ starting'[a] = 0]_vars
<1> DEFINE Kept(a) == up'[a] = 1 /\ starting'[a] = 0
<1>1. Spec => [](TypeOK /\ (PrefixFree => Spared))
  BY SparedAlways, TypeCorrect, PTL
<1>2. TypeOK /\ (PrefixFree => Spared) /\ [Next]_vars
        => [PrefixFree =>
              \A a \in Agent :
                up[a] = 1 /\ starting[a] = 0 /\ a \notin upset /\ faults' = faults =>
                  up'[a] = 1 /\ starting'[a] = 0]_vars
  <2> SUFFICES ASSUME TypeOK, Spared, PrefixFree, Next,
                      NEW c \in Agent, up[c] = 1, starting[c] = 0, c \notin upset,
                      faults' = faults
               PROVE  Kept(c)
    BY DEF vars
  <2> USE AgentIsActor
  <2>0. c \in Actor /\ faults \in Int /\ doomed[c] \in Nat
    BY DEF TypeOK
  <2>1. ~ Fault
    BY <2>0 DEF Fault
  <2>2. HasActor(c)
    BY KeeperAssumption DEF HasActor
  <2>3. CASE UNCHANGED <<up, starting>>
    BY <2>3
  <2>4. ASSUME NEW b \in Actor, KillDoomed(b) PROVE Kept(c)
    <3>1. doomed[b] > 0 /\ up' = [up EXCEPT ![b] = up[b] - 1] /\ UNCHANGED starting
      BY <2>4 DEF KillDoomed
    <3>2. b # c
      BY <2>0, <3>1 DEF Spared
    <3> QED
      BY <3>1, <3>2 DEF TypeOK
  <2>5. ASSUME NEW a \in Agent, Ensure(a) \/ Retry(a) \/ RetryOne(a) PROVE Kept(c)
    <3>1. UNCHANGED up /\ (UNCHANGED starting \/ (~ HasActor(a) /\ Launch(a)))
      BY <2>5 DEF Ensure, Retry, RetryOne, LaunchIfAbsent
    <3>2. CASE UNCHANGED starting
      BY <3>1, <3>2
    <3>3. CASE ~ HasActor(a) /\ Launch(a)
      <4>1. a # c
        BY <2>2, <3>3
      <4> QED
        BY <3>1, <3>3, <4>1, LaunchType
    <3> QED
      BY <3>1, <3>2, <3>3
  <2>6. ASSUME NEW b \in Actor, Appear(b) PROVE Kept(c)
    <3>1. /\ starting[b] > 0 /\ up' = [up EXCEPT ![b] = up[b] + 1]
          /\ starting' = [starting EXCEPT ![b] = starting[b] - 1]
      BY <2>6 DEF Appear, Resolve
    <3>2. b # c
      BY <3>1
    <3> QED
      BY <3>1, <3>2 DEF TypeOK
  <2>7. CASE Run \/ NextLoop \/ (\E a \in Agent : Collapse(a) \/ Check(a))
    BY <2>3, <2>7, NextPhaseEffect DEF Run, NextLoop, Collapse, Check
  <2>8. CASE Disturb
    BY <2>1, <2>8 DEF Disturb, Recreate, KeeperDies, SettleTooShort, Crash, StartFails,
                       ManualLaunch, KillFails
  <2> QED
    BY <2>4, <2>5, <2>6, <2>7, <2>8 DEF Next, Keep
<1> QED
  BY <1>1, <1>2, PTL DEF Spec

=============================================================================
