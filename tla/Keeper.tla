------------------------------- MODULE Keeper -------------------------------
(***************************************************************************)
(* The keepers of the poller fleets (omega_poller_keeper.sh and its         *)
(* successor omega_fleet_poller_keeper.sh): a script run every ten seconds  *)
(* that looks at the processes in the container and enforces "exactly one   *)
(* actor per fleet agent".  It sees only processes whose interpreter runs;  *)
(* an actor just started shows up later, which is what the script sleeps    *)
(* for after it has started any (settle).  What it acts on, it has listed    *)
(* before.                                                                  *)
(*                                                                         *)
(* The processes of one agent are counted.  Which of them has the lowest    *)
(* pid is left open: pids wrap, and restart with the container.             *)
(***************************************************************************)
EXTENDS Integers, FiniteSets

CONSTANTS
  Agent,        \* A2A_KEEPER_AGENTS
  Covers,       \* whose actors the pattern __actor=<agent>* matches
  Cap,          \* bound: processes of one agent, of catch-alls, at the start
  MaxFaults     \* bound: crashes, manual launches, starts slower than a settle,
                \* restarts of the container

CatchAll == "catch-all"   \* omega_poller.py without __actor=; its one-shot
                          \* commands (--work, --send) look the same

ASSUME KeeperAssumption ==
  /\ CatchAll \notin Agent
  /\ Covers \in [Agent -> SUBSET Agent]
  /\ \A a \in Agent : a \in Covers[a]
  /\ Cap \in Nat
  /\ MaxFaults \in Nat

Actor == Agent \cup {CatchAll}

VARIABLES
  script,      \* which of the two keepers the host runs
  starting, up,  \* processes of each actor: launched; visible in /proc
  pc, todo,    \* the phase of a run, the agents its loop has not looked at
  doomed,      \* listed processes the run is about to kill
  missing,     \* agents the self-healing found absent
  started,     \* the loop of this phase has launched something
  faults,
  upset,       \* actors that lost a process since the listing
  excused      \* since last nothing was starting: launches by hand, runs that were
               \* cut short and starts that took longer than a settle

runVars == <<pc, todo, doomed, missing, started>>
ghostVars == <<upset, excused>>
vars == <<script, starting, up, runVars, faults, ghostVars>>

Zero == [b \in Actor |-> 0]

\* The docker exec of the starter.
Launch(b) == starting' = [starting EXCEPT ![b] = @ + 1]

\* has_actor.
HasActor(a) == \E b \in Covers[a] : up[b] > 0

-----------------------------------------------------------------------------
(* What happens in the container.                                           *)

\* One start less is pending.  Once none is, the excuses are used up.
Resolve(b) ==
  /\ starting[b] > 0
  /\ starting' = [starting EXCEPT ![b] = @ - 1]
  /\ excused' = IF starting' = Zero THEN 0 ELSE excused

\* The launched shell has become a poller (run_poller_one.sh).
Appear(b) ==
  /\ Resolve(b)
  /\ up' = [up EXCEPT ![b] = @ + 1]
  /\ UNCHANGED <<script, runVars, faults, upset>>

Fault == faults < MaxFaults /\ faults' = faults + 1

\* A poller ends, be it one the run has doomed or not.
Crash(b) ==
  /\ Fault
  /\ up[b] > 0
  /\ up' = [up EXCEPT ![b] = @ - 1]
  /\ \/ doomed[b] < up[b] /\ UNCHANGED doomed
     \/ doomed[b] > 0 /\ doomed' = [doomed EXCEPT ![b] = @ - 1]
  /\ upset' = upset \cup {b}
  /\ UNCHANGED <<script, starting, pc, todo, missing, started, excused>>

\* A start fails: the SDK or a file is not there.
StartFails(b) ==
  /\ Fault
  /\ Resolve(b)
  /\ UNCHANGED <<script, up, runVars, upset>>

\* Someone starts a poller by hand; or the scan's docker exec failed, and a keeper
\* that saw no actor started one.
ManualLaunch(b) ==
  /\ Fault
  /\ Launch(b)
  /\ excused' = excused + 1
  /\ UNCHANGED <<script, up, runVars, upset>>

\* The docker exec of a kill fails; the script does not look at its result.
KillFails(b) ==
  /\ Fault
  /\ doomed[b] > 0
  /\ doomed' = [doomed EXCEPT ![b] = @ - 1]
  /\ UNCHANGED <<script, starting, up, pc, todo, missing, started, ghostVars>>

StopRun ==
  /\ pc' = "idle"
  /\ todo' = {}
  /\ doomed' = Zero
  /\ missing' = {}
  /\ started' = FALSE

\* The container is recreated: nothing runs in it.  A run that meets the
\* container down exits.
Recreate ==
  /\ Fault
  /\ starting' = Zero
  /\ up' = Zero
  /\ StopRun
  /\ upset' = {}
  /\ excused' = 0
  /\ UNCHANGED script

\* The keeper ends half-way; systemd starts it afresh.
KeeperDies ==
  /\ Fault
  /\ pc # "idle"
  /\ StopRun
  /\ excused' = IF starting = Zero THEN 0 ELSE excused + 1
  /\ UNCHANGED <<script, starting, up, upset>>

-----------------------------------------------------------------------------
(* A run: kill, collapse, ensure.                                           *)

\* The first keeper lists the catch-alls, to kill them all; its successor does
\* not look for them.
Run ==
  /\ pc = "idle"
  /\ pc' = "collapse"
  /\ todo' = Agent
  /\ doomed' = [Zero EXCEPT ![CatchAll] = IF script = "omega" THEN up[CatchAll] ELSE 0]
  /\ UNCHANGED <<script, starting, up, missing, started, faults, ghostVars>>

\* kill: the pid was listed before and is not looked at again.
KillDoomed(b) ==
  /\ doomed[b] > 0
  /\ doomed' = [doomed EXCEPT ![b] = @ - 1]
  /\ up' = [up EXCEPT ![b] = @ - 1]
  /\ UNCHANGED <<script, starting, pc, todo, missing, started, faults, ghostVars>>

\* The loop of a phase comes to one of its agents.
Look(phase, a) ==
  /\ pc = phase /\ doomed = Zero
  /\ a \in todo
  /\ todo' = todo \ {a}

\* Faulty variants: duplicates are left alone; what has not appeared yet counts.
CollapseNever(a) ==
  /\ Look("collapse", a)
  /\ UNCHANGED <<script, starting, up, pc, doomed, missing, started, faults, ghostVars>>

CollapseStarting(a) ==
  /\ Look("collapse", a)
  /\ doomed' = [Zero EXCEPT ![a] = IF up[a] + starting[a] > 1 THEN up[a] + starting[a] - 1
                                                           ELSE 0]
  /\ upset' = {}
  /\ UNCHANGED <<script, starting, up, pc, missing, started, faults, excused>>

\* Faulty variant: no process is kept.
CollapseAll(a) ==
  /\ Look("collapse", a)
  /\ doomed' = [b \in Actor |-> IF b \in Covers[a] /\ up[a] > 1 THEN up[b] ELSE 0]
  /\ upset' = {}
  /\ UNCHANGED <<script, starting, up, pc, missing, started, faults, excused>>

\* More than one process matches the agent's pattern: all but the lowest pid are
\* to be killed.
Collapse(a) ==
  /\ Look("collapse", a)
  /\ IF \/ \E b \in Covers[a] : up[b] > 1
        \/ \E b, c \in Covers[a] : b # c /\ up[b] > 0 /\ up[c] > 0
     THEN \E kept \in Covers[a] :
            /\ up[kept] > 0
            /\ doomed' = [b \in Actor |-> IF b \notin Covers[a] THEN 0
                                          ELSE IF b = kept THEN up[b] - 1 ELSE up[b]]
     ELSE UNCHANGED doomed
  /\ upset' = {}
  /\ UNCHANGED <<script, starting, up, pc, missing, started, faults, excused>>

LaunchIfAbsent(a) ==
  IF HasActor(a) THEN UNCHANGED <<starting, started>> ELSE Launch(a) /\ started' = TRUE

Ensure(a) ==
  /\ Look("ensure", a)
  /\ LaunchIfAbsent(a)
  /\ UNCHANGED <<script, up, pc, doomed, missing, faults, ghostVars>>

-----------------------------------------------------------------------------
(* A run: self-healing.                                                     *)

\* The first keeper checks twice, with a pause between, which agents are absent
\* and reinstalls the SDK before it launches those that still are.
Check(a) ==
  /\ script = "omega"
  /\ Look("check", a) \/ Look("recheck", a)
  /\ missing' = IF HasActor(a) THEN missing ELSE missing \cup {a}
  /\ UNCHANGED <<script, starting, up, pc, doomed, started, faults, ghostVars>>

Retry(a) ==
  /\ Look("retry", a)
  /\ LaunchIfAbsent(a)
  /\ UNCHANGED <<script, up, pc, doomed, missing, faults, ghostVars>>

\* Its successor launches the first absent agent it meets, and looks no further.
RetryOne(a) ==
  /\ script = "fleet"
  /\ pc = "check" /\ doomed = Zero
  /\ a \in todo
  /\ todo' = IF HasActor(a) THEN todo \ {a} ELSE {}
  /\ LaunchIfAbsent(a)
  /\ UNCHANGED <<script, up, pc, doomed, missing, faults, ghostVars>>

\* One loop over the agents is over, the next begins.
Follows == [collapse |-> "ensure", ensure |-> "check",
            check    |-> IF script = "omega" THEN "recheck" ELSE "idle",
            recheck  |-> "retry", retry |-> "idle"]

LoopDone == pc # "idle" /\ todo = {} /\ doomed = Zero

NextPhase ==
  /\ LoopDone
  /\ pc' = Follows[pc]
  /\ todo' = CASE pc' \in {"ensure", "check"}  -> Agent
               [] pc' \in {"recheck", "retry"} -> missing
               [] OTHER                        -> {}
  /\ missing' = {}
  /\ started' = FALSE
  /\ UNCHANGED <<script, starting, up, doomed, upset>>

\* Faulty variant: no sleep.
NextLoopAtOnce == NextPhase /\ UNCHANGED <<faults, excused>>

\* A loop that has launched something is followed by a sleep (25 or 20 seconds), in
\* which whatever is starting appears.
NextLoop ==
  /\ NextPhase
  /\ started => starting = Zero
  /\ UNCHANGED <<faults, excused>>

\* A start takes longer than that, or one by hand comes at the end of the sleep.
SettleTooShort ==
  /\ Fault
  /\ NextPhase
  /\ started /\ starting # Zero
  /\ excused' = excused + 1

-----------------------------------------------------------------------------

\* Whatever runs in the container when the keeper is installed.
Init ==
  /\ script \in {"omega", "fleet"}
  /\ starting = Zero
  /\ up \in [Actor -> 0..Cap]
  /\ pc = "idle"
  /\ todo = {}
  /\ doomed = Zero
  /\ missing = {}
  /\ started = FALSE
  /\ faults = 0
  /\ upset = {}
  /\ excused = 0

Keep ==
  \/ Run \/ NextLoop
  \/ \E b \in Actor : KillDoomed(b)
  \/ \E a \in Agent : Collapse(a) \/ Ensure(a) \/ Check(a) \/ Retry(a) \/ RetryOne(a)

Disturb ==
  \/ Recreate \/ KeeperDies \/ SettleTooShort
  \/ \E b \in Actor : Crash(b) \/ StartFails(b) \/ ManualLaunch(b) \/ KillFails(b)

Next == Keep \/ Disturb \/ \E b \in Actor : Appear(b)

Spec == Init /\ [][Next]_vars

\* systemd repeats the run for ever; what was launched appears (or fails).
Fairness == WF_vars(Keep) /\ \A b \in Actor : WF_vars(Appear(b))

FairSpec == Spec /\ Fairness

-----------------------------------------------------------------------------
(* Properties *)

Phase == {"idle", "collapse", "ensure", "check", "recheck", "retry"}

\* Types of the keeper's state; a run never dooms more than there is.
TypeOK ==
  /\ script \in {"omega", "fleet"}
  /\ starting \in [Actor -> Nat]
  /\ up \in [Actor -> Nat]
  /\ pc \in Phase
  /\ todo \in SUBSET Agent
  /\ doomed \in [Actor -> Nat]
  /\ \A b \in Actor : doomed[b] <= up[b]
  /\ missing \in SUBSET Agent
  /\ started \in BOOLEAN
  /\ faults \in 0..MaxFaults
  /\ upset \in SUBSET Actor
  /\ excused \in Nat

\* "so a merely slow start cannot trigger .. a duplicate launch": a keeper launches
\* an agent that has an actor, or starts of one pending, only with an excuse for
\* each of them, a launch by hand, a run cut short or a start that outlasted a whole
\* settle since last nothing was starting (the three launches, the sleep after each
\* loop of them).
NoDoubleStart ==
  [][\A a \in Agent :
       starting'[a] > starting[a] /\ faults' = faults => up[a] + starting[a] <= excused]_vars

PrefixFree == \A a \in Agent : Covers[a] = {a}

\* The keeper never takes an agent's last actor, unless one crashed after the run
\* listed them (collapse: "keep the lowest pid and kill the rest"); provided no
\* agent's name begins with another's, which the pattern would match as well.
KeepsOne ==
  [][PrefixFree =>
       \A a \in Agent : KillDoomed(a) /\ a \notin upset => up'[a] > 0]_vars

\* "EXACTLY ONE poller process PER fleet agent": once nothing disturbs the
\* container, whatever ran in it and whichever phase the run is in, it comes to
\* one actor for each agent, provided no agent's name begins with another's; the
\* first keeper also ends every catch-all.
OneActorEach ==
  PrefixFree =>
    <>[](/\ \A a \in Agent : up[a] = 1 /\ starting[a] = 0
         /\ script = "omega" => up[CatchAll] = 0)

=============================================================================
