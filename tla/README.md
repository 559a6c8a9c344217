# A2A Omega Mesh in TLA+

A verification project for the A2A Omega Mesh (`src/`): a hub that hands tasks
from agent to agent over three mail-like services, and the pollers that let the
agents answer. The modules are translated from the Python source, with line
references in `PROJECT.json` ("map"); TLC checks them on small instances, and
TLAPS proves the main safety properties for every value of the constants.

## 1. The system

```
 client --POST--> hub --lane--> Agentverse mailbox ---> poller of the agent --+
                   ^            AgentMail inbox  ----->  (omega / fleet /     |
                   |            e2a inbox        ----->   mesh channel)       |
                   +---- poll of the peers' AgentMail inboxes <--- reply -----+
```

| Part | Source | State it keeps | Operations |
|---|---|---|---|
| Hub | `a2a_hub.py` | `tasks` (in memory, per peer), one JSONL file per peer, `_seen_reply_ids` | SendMessage, tasks/cancel, tasks/get, GET; `_route` (a thread per task); `poll_loop` (one thread); daily transcript |
| Lane choice | `a2a_hub.py` `_transport_chain` | none | order of the lanes for a peer |
| Agentverse poller | `omega_poller.py` | `.av_seen_*`, `.av_attempts_*`, the work ledger | `serve_once`, `consume_directive`, `--work`, one-shot sends |
| Fleet poller | `a2a_fleet_poller.py` | a seen and an attempts file per lane | `serve_agentverse`, `serve_agentmail`, `serve_e2a`, `reply` on two legs |
| Mesh channel | `omega_mesh_channel.py` | SEEN, PEERS and pending files; their copies in memory | `_poll` thread; `initiate`, `send` from the chat thread |
| Keepers | `deploy/*_keeper.sh` | processes on a container | kill, collapse duplicates, start, repair |
| e2a poller | `a2a_e2a_poller.py` | a seen and an attempts file, the cached key | `key_for`, `serve_once` over e2a, the probe that drops a bad key |
| LC/BC responder | `deploy/lcb_responder.py` | a lock, a seen file | list, arm, relay to Agentverse, report |
| Client | `a2a_client.py` | a local inbox file | send, poll, check |
| Lane libraries | `a2a_agentverse.py`, `a2a_e2a.py` | none | sign and post one envelope |

How they interact: the hub's threads share `tasks` and the files without a lock.
Hub and pollers share nothing but the mail services; the seven fleet pollers
share one AgentMail inbox, which none of them empties. Poller and `--work`
command share the ledger file; the mesh channel's two threads share its
dictionaries. All state files are rewritten in place, and the keepers kill
processes at any moment.

What is hard here, and what makes each part correct:

- **Hub.** A status change is several steps (entry, webhook, file) and three
  kinds of threads make them on one entry. It is correct when what ends up in
  memory is also in the file and was announced, when every task comes to rest,
  when completed and failed have their reasons, and when a lane that said yes
  is the last one used.
- **Pollers.** Each repeats one contract, "answer every new message once, retry
  up to `A2A_MAX_ATTEMPTS`, then drop": over deletes that fail silently,
  answers that get lost, processes that are killed between the reply and the
  file that remembers it, and files caught while truncated.
- **Fleet.** Replies are mail to the next poller; correct when no answer is ever
  answered, and nobody answers another's mail in the shared inbox.
- **Mesh channel.** Correct when mail reaches the chat queue once, when an answer
  goes back to the peer that asked, restarts included, and when the owner who
  asked a peer hears of the reply.

- **e2a poller.** The pollers' contract again, on an inbox that is never emptied
  and with a key that must be found among several accounts'.
- **LC/BC responder.** Two effects per task, a relay and a report, and a watchdog
  that may start a second copy: correct when both happen once but for what kills
  and failures cost, when no report claims a relay that did not happen, and when
  nothing is dropped.
- **Keepers.** They act on a listing that is old by the time they act and does not
  show what was just started: correct when no start is doubled, when the last actor
  of an agent is never killed, and when each agent comes to one actor.

`PROJECT.json` lists these hazards at their lines, with the properties that
would catch them going wrong.

## 2. Modules

| Module | What it is | Proofs |
|---|---|---|
| `TransportChain` | `_transport_chain` as a pure function of the usable lanes and the setting | `TransportChainProofs` |
| `A2AHub` | the hub: handler, route and poll threads over the task store | `A2AHubProofs` |
| `AnswerDesk` | abstract: what any poller promises of the messages of a mailbox | |
| `OmegaPoller` | the Agentverse poller with its files, the ledger and kills; implements `AnswerDesk` | `OmegaPollerProofs` |
| `E2aPoller` | the e2a leg: key, files, kills; implements `AnswerDesk` | `E2aPollerProofs` |
| `FleetPoller` | the fleet pollers, three lanes each, the shared inbox and each other's replies; every lane implements `AnswerDesk` | `FleetPollerProofs` |
| `MeshChannel` | the mesh channel: poll thread, chat thread, three files, kills | `MeshChannelProofs` |
| `LcbResponder` | the LC/BC responder: lock, arming, relay and report, copies, kills | `LcbResponderProofs` |
| `Keeper` | both keepers on a container: a run phase by phase, what may disturb it | `KeeperProofs` |
| `MC*` | the small instances | |

`A2AHub` EXTENDS `TransportChain`; `OmegaPoller`, `E2aPoller` and `FleetPoller`
INSTANCE `AnswerDesk` under a refinement mapping.

Definitions whose comment starts with "Faulty variant" are not part of any
specification. Each is a plausible bug in the definition below it and shows that
a property can fail: with it in place of the original, the property listed in
`PROJECT.json` ("mutants") is violated.

### 2.1 `A2AHub`

A thread is a request of a client (`Task`, `Canceler`) or `"poller"`; `pc` is
where it stands. A task's route thread and its SendMessage share one name: the
handler only creates the entry and starts the thread.

`_set_status` is the procedure every status change goes through. `SetStatus`
does the assignments, then the thread is at `"push"` (webhook configured and
status completed or failed) or at `"persist"`; `PushHook` and `Persist` build
payload and line from the entry *as it is by then*, as the code does. `frame`
holds the entry and two continuations: where the thread goes on, and where it
goes when the append raises (`PersistFails`). For a route that is its `except`
clause, or death for the first status change and for the `except` clause
itself; for the poll loop it is the next tick; for a cancel request it is the
end of the handler.

| Code | Action |
|---|---|
| `do_POST` SendMessage | `SendMessage` |
| `do_POST` tasks/cancel: search, then `_set_status` | `CancelFind`, `CancelAct` |
| `_route` 305-308; `load_peers`; one turn of the loop; `except` | `StartWorking`; `LoadPeers`; `Send`, `SendRaises`, `SkipLane`, `SendOk`, `SendError`; `ChainExhausted`; `RouteException` |
| `poll_loop`: a new message; the scan of `tasks[peer]`; a hit; `load_peers` raising | `PollTake`; `PollScan`; `PollAct`; `PollerDies` |

The lines of the files and the history are kept as sets, since the code orders
them by their time stamps. The texts a result can hold are a few notes or the
reply itself.

### 2.2 `AnswerDesk`, `OmegaPoller`

`AnswerDesk` says: the first poll sets aside what it finds, once; any other
message is tried at most `MaxAttempts` times; it is dropped only after exactly
so many, and not touched again as long as it is remembered as settled. Nothing
is tried before the first poll is on record (`Record`). Its state is what a poller
remembers. A `Crash` may take some of that away, as a kill does that strikes before
or inside the saves: messages it was done with are open again, failures are not
counted, and a first poll that is not on record may have to be made again. It may
not add anything: no message becomes settled, no failure is invented, no count is
left at the limit, the mailbox stays, and a first poll on record stays made.

The pollers map their memory to this state: `Known`, `Remembered` and `Memory` are
the messages the files say are done with, or the process does while it is in a
cycle; `Tried` and `Decided` follow from it. `Stage` is whether there is a seen
file. Their kills are the crashes.

`OmegaPoller` has every step of `serve_once`: reading mailbox and files, taking
the next message, popping the ledger for a directive, delivering to the sender
and after a 404 to the fallback, acknowledging, counting the failure, and the
`finally` block that saves two files, each truncated and then written. `Kill`
may come between any two of these steps and loses the locals; `Restart` is the
keeper. Any number of processes may serve one mailbox (`Proc`). The `--work`
command is a process of its own with three steps on the ledger.

`tries`, `fate`, `replies`, `unheard` and `started` are history: they record what
was done and decide nothing. `fate` is the latest decision about a message (after a
kill there may be a second one). `unheard` counts the replies Agentverse took while
the poller was told otherwise.

### 2.3 `FleetPoller`

One process per agent. `Letter` says what the code makes of each piece of mail:
its lane, whose mailbox it is in, which addressee the subject names, how the
asker is referred to and which rule it falls under. `Verdict` is the decision of
`handle` and `_handle_decoded`; `Echo` is mail whose sender is the reader itself,
which only the shared inbox tells from the sender's name. `SendMail` and `SendPost`
are the two legs of `reply`; an accepted reply is put into the mailbox of the asker
or the shared inbox, where the pollers meet it again as a `ReplyItem`, and is
tallied in `sent` by its leg and by whether the process heard of it. No other process uses
an agent's files, so reading a lane with its files is one step and saving is
another; a kill during a save leaves the files as `TornSave` says.

`main` decides by counting its ticks which lanes it reads, and any read may
fail. `ReadLane` allows any served lane at any time.

The fault "sdk" is a container without `uagents_core`. The code goes on without it
(554-557), but `identity_addr` raises: the Agentverse lane is never read (540), and
`reply` raises between its legs for an asker known by name or address (412). No run
has it, for `AnswersAccounted` then fails (section 4); the other theorems about the
fleet are proved with it.

### 2.4 `MeshChannel`

The poll thread's program counter is `pc`; `ask` is the call of `initiate` the
chat thread is in. Peers' chat ids are numbered as `peer_id` numbers them, from
one above the base. The `_poll` thread's `_pend_load` replaces entries in memory
by those of the file, as the code does.

The rest is history: what the first poll set aside (`armed`), what reached the chat
queue and under which id (`enqueued`, `handed`), who was told (`told`). `missed` and
`forgotten` name the losses of the code one by one, at the step where they happen:
mail whose body could not be fetched, or that a kill took out of hand when its mark
was in the file; owners whose telling raised, whose entry was in no file at a kill, or
whose entry a question saved over. The properties except these and no other loss.

### 2.5 `E2aPoller`

| Code | Action |
|---|---|
| `main`, `key_for`: a key that reads the inbox, else the first | `ResolveKey`, `ResolveFails` |
| `serve_once`: listing, arming | `ListInbox`, `ListFails` |
| `main`: the probe that drops the cached key after a refusal | `Probe`, `ProbeFails` |
| one turn of the loop: no answer needed; answered; answered but not heard; failed | `Take`; `Quiet`, `Reply`, `ReplyLost`, `Fail` (with `Count`, `Done`) |
| the two saves | `LeaveCycle`, `Save`; torn by a kill: `TornSave` |

The inbox is a sequence that only grows. `Opening` are the keys that read it and
`Refusal` says how e2a answers the others. A task whose sender is a display name
("misnamed") has no address a reply could go to, so its replies always fail.

### 2.6 `LcbResponder`

`Proc` are the copies of the program; a copy starts only if it gets the lock, and
a kill frees it. `Forward` is the relay, `Report` the status mail and what
follows in `serve_once`; the responder's own reports are entries of the inbox it
lists. A "bad" message has a prompt that is no text: `handle_one` raises over it
in each cycle (`Raise`) and `serve_once` passes on to the next.

### 2.7 `Keeper`

The processes of an agent are two numbers: launched (`starting`) and visible to
the scan (`up`). A run goes through its phases agent by agent (`Run`,
`KillDoomed`, `Collapse`, `Ensure`, `Check`, `Retry`, or `RetryOne` for the fleet
keeper); `doomed` is what a scan listed and the run has not killed yet. A launch asks
`has_actor` and nothing else (`LaunchIfAbsent`), so it does not know what is starting.
What the scripts have against doubled starts is the sleep after a loop that launched
something (`started`): `NextLoop` goes on when what is starting has appeared or
failed, `SettleTooShort` before that, a disturbance. The first keeper's extra 15
seconds between its two checks are not needed for any property and not modelled.

`Disturb` holds what the script cannot control: crashes, failed starts, starts that
outlast a sleep, launches by hand, kills that fail, a recreated container, a run
that ends half-way. `Covers` is what the pattern `__actor=<agent>*` matches.
`excused` counts the launches by hand, the runs cut short and the sleeps that were too
short since last nothing was starting.

### 2.8 Settings taken from the docs

Some defaults in the source read `REPLACE_ME` (`omega_poller.py:322`,
`a2a_hub.py:61`, `a2a_hub.py:89`, `a2a_fleet_poller.py:196`,
`omega_mesh_channel.py:145`). They are modelled as what the docs and tests have
there: an optional fallback address, a hub with a sender, one shared inbox of
the operator.

## 3. What is model-checked

Twelve runs. Ten must hold, two show where the code does not do what its
documentation says.

| Run | Checks | Instance |
|---|---|---|
| `hub_threads` | `TypeOK`, `FinalStatusLogged`, `FinalStatusAnnounced` | two tasks of one id at two peers (one with a mailbox, one without any lane), a cancel request, two replies; lanes may raise, answers get lost, `peers.json` be unreadable |
| `hub_faults` | `EndedRouteIsTerminal`, `CompletionJustified`, `FailureJustified`, `StopsAtFirstSuccess`, `EveryTaskSettles`, `EveryReplySeen` | a task with two lanes and two Agentverse attempts, a cancel request, two replies, all four faults |
| `omega_desk` | `DeskSpec` | a directive from an unknown sender, a message to sweep, two kills; a `--work` command, failing ledger writes |
| `omega_kills` | `SeenIsEarned`, `DeletedIsEarned`, `WorkStartsOnce`, `AnswersAccounted`, `EveryMessageSettles` | a question and a directive, two work items, two kills, lost answers |
| `fleet_lanes` | `RepliesEndIt`, `OwnMailOnly` | two agents, a task by e2a and one from outside in the shared inbox, their replies on all lanes |
| `fleet_kills` | `SeenIsEarned`, `AnswersAccounted`, `EveryMailSettles`, `LanesAreDesks` | one agent, a former poller's seen file, an old and a new message, a kill, lost answers |
| `mesh_channel` | `TypeOK`, `AnswersGoBack`, `QueuedOnce`, `MarkedIsQueued`, `MailIsQueued`, `OwnerIsTold` | a task of one peer, a reply of another, questions of two owners; one kill, torn SEEN and pending files, failing requests and notes |
| `e2a_leg` | `SeenIsEarned`, `AnswersAccounted`, `DeskSpec`, `EveryMessageSettles` | a task, mail without need of an answer, a task of a misnamed sender; the first key is another account's; one kill, lost answers |
| `lcb_copies` | `ReportsAccounted`, `ForwardsAccounted`, `HonestReport`, `NothingDropped`, `EveryTaskReported` | two tasks and a message over which the responder raises, two copies, a listing of three rows, one failing report, one kill |
| `keeper_runs` | `TypeOK`, `NoDoubleStart`, `KeepsOne`, `OneActorEach` | both scripts, two agents, any processes at the start, three disturbances |
| `hub_cancel_overwritten` | `CanceledIsFinal` (violated) | a task and a cancel request |
| `fleet_reply_swept` | `RepliesTranscribed` (violated) | two agents, a task in the shared inbox |

In words:

- `FinalStatusLogged`, `FinalStatusAnnounced`: of the status changes that race
  on an entry, the one memory ends with is never the one whose line or webhook
  call is missing, though each thread writes whatever it finds.
- `EndedRouteIsTerminal`, `EveryTaskSettles`: a route that ends leaves its task
  terminal, and every task comes to rest for good, the late steps of other
  threads included. The one exception is a route thread ended by an append
  that raised outside its `try`.
- `CompletionJustified`, `FailureJustified`: completed needs a lane's yes or a
  reply that names the task; undeliverable means each usable lane was tried,
  Agentverse exactly `A2A_AV_RETRY_MIN` times, and none said yes.
- `StopsAtFirstSuccess`: after a yes the route sends nothing more, even when
  recording it raises and the route treats its success as an exception.
- `EveryReplySeen`: appends that raise while one reply is handled cost no other
  reply its turn; only an unreadable `peers.json` stops the poll loop.
- `DeskSpec` (twice), `LanesAreDesks`: the pollers implement the desk, kills and
  torn files being its crashes. For the fleet poller that means three desks per
  agent whose mailboxes the other agents fill. A kill therefore costs a poller
  memory and nothing else: whatever it strikes, no limit is passed, nothing becomes
  settled, and once anything was tried the mailbox is never set aside again.
- `AnswersAccounted` (three times): a message is answered once, on the fleet's
  replies once per leg, though deletes fail silently and other mailboxes are never
  emptied. Every further answer has a price: a kill, or a reply *to this message*
  that went through unheard.
- `SeenIsEarned` (three times), `DeletedIsEarned`: no kill or torn file makes a
  poller forget a message it did nothing about; for `OmegaPoller` it is proved that
  further processes on the mailbox do not either.
- `WorkStartsOnce`: no retried directive or kill makes one work item active
  twice.
- `EveryMessageSettles` (twice), `EveryMailSettles`: no message stays undecided
  for ever; on the e2a leg this includes getting rid of a wrong key.
- `RepliesEndIt`, `OwnMailOnly`: two agents never answer each other's answers,
  and the recipient filter holds for all that share the inbox.
- `QueuedOnce`: mail reaches the chat queue once, and once more at most per kill.
  `AnswersGoBack`: a chat id leads back to the peer whose mail was queued under
  it, over restarts. `MarkedIsQueued`, `MailIsQueued`: no mail is marked in the file
  that the queue never got, and what is not marked gets there in the end; the mail a
  failed fetch or a kill in one window (after `peer_id` saved the mark, before the
  enqueue) takes is lost, and no other with it.
- `OwnerIsTold`: whatever the two threads and a kill do to the dictionary of owners
  and its file, the owner hears of the reply, when no other question went
  to that peer, but for the losses `forgotten` and `missed` name.
- `ReportsAccounted`, `ForwardsAccounted`: however many copies the watchdog
  starts, one report per task, and one more per kill or unheard report; one relay,
  and one more per kill or failed report. `HonestReport`: a report claims a relay
  only if Agentverse took one. `NothingDropped`, `EveryTaskReported`: what counts
  as seen was reported or set aside, and what stays listed is reported, while
  another message raises in every cycle.
- `NoDoubleStart`: a keeper launches an agent that has something running or starting
  only after as many disturbances that make it do so: a launch by hand, a run cut
  short, a start slower than the sleep that waits for it. `KeepsOne`: it never takes an
  agent's last actor, if none crashed since the listing. `OneActorEach`: from any
  mixture of processes it comes to exactly one per agent once it is left alone; this
  is also what mends doubled starts and a last actor that was killed.

**Bounds.** Tasks, messages and peers are few because the properties speak of one
or two at a time: the instances have what makes them meet (two entries with one
id, two replies, two lanes, two copies, a reply to a question, three rows that two
tasks and their reports overfill). `Cap` stops the counters of tries and replies
above `MaxAttempts`, where the properties no longer tell numbers apart;
`AnswersAccounted` tells replies apart up to `Cap` = 3, that is as long as kills
and unheard replies make at most one, and is proved for the rest. `MaxKills`
bounds the kills (of each agent in `FleetPoller`); the two of `omega_kills`
and `omega_desk` include one while the process recovers from the first.
`MaxAttempts` and `AVRetry` of 2 have a first and a last failure;
`fleet_lanes` has 1 to keep the instance with two agents small, `fleet_kills` 2.
`Window` exceeds the mail of the fleet's and the mesh channel's instance. In
`Keeper`, `Cap` bounds the processes of an agent at the start and `MaxFaults` the
disturbances; launches have no bound of their own. Three disturbances are enough to
cut a run short, meet a slow start and have a kill fail.

**Fairness.** Weak fairness of a thread's or process's own steps: the operating
system runs it, every request in the code has a timeout, and the poll loops
sleep a bounded time. Weak fairness of `Restart`, `Start`, `Keep` and `Appear`:
the keepers and the watchdog run for ever, a started process comes up or ends;
for the e2a leg, which has no keeper, the operator starts it again. Strong
fairness of reading one lane (`FleetPoller`), of the listing (`MeshChannel`) and of
finding a key, listing and probing (`E2aPoller`): each is tried again and again,
and a service that is up infinitely often is read infinitely often. Nothing is
assumed of clients, peers, kills or disturbances, and no send is assumed to
succeed.

`CHECK_DEADLOCK FALSE` stands where the instance really comes to an end: all
tasks at rest and no more requests. The pollers and keepers never stop.

`TypeOK` of `OmegaPoller`, `FleetPoller`, `E2aPoller` and `LcbResponder` has no run; all
four are proved (`TypeCorrect`).

## 4. What the code does not do

Two disagreements have a run whose counterexample is what the code does.

- `hub_cancel_overwritten` (`CanceledIsFinal`): the route thread overwrites
  "canceled" with "working", "completed" or "failed".
- `fleet_reply_swept` (`RepliesTranscribed`): replies are addressed to
  "operator", the local part of the shared inbox, which the recipient filter
  takes for another agent's name; they are swept before they are logged.

Further disagreements met while modelling, without a run of their own:

- Hub. A task completed by a reply can still be set failed by its route thread
  (`a2a_hub.py:361`). The reply stored as the result is overwritten by the note
  "replied" in the next statement (592, 593). A lane that took the message but
  whose answer was lost leads to a second delivery (322; `a2a_e2a_poller.py:16`
  says "exactly one transport"). The chain has agentmail before e2a (273),
  `test_a2a_hub.py:28` the other order. The webhook can announce a status that
  is not terminal, its payload being built from the live entry (208). The client
  sends the method `Broadcast` (`a2a_client.py:89`), which the hub answers as
  unknown (500-505). Tasks live in memory: a restart forgets them, their routes
  and the ids of the replies it has read (103).
- Agentverse poller. The ledger is popped before the confirmation is delivered, so
  a directive that is retried starts a further work item (411;
  `consume_directive` says it pulls "the top" of the queue). A killed process
  loses the counts of its attempts (487), so the retries are not bounded over
  kills. `--work` and a directive undo each other's write of the ledger (157-168,
  198-208). For agent-two `--work` writes a ledger read from SCHEDULE.md over the
  real one (143-149).
- Fleet poller. A task that comes on two lanes is answered on both, each lane
  having its own memory (334). Mail whose subject names no addressee is answered
  by every agent. Mail that arrives while the first reads fail is set aside by the
  first that works (560). A sender given by name is used as an Agentverse address
  (411). With the SDK missing, `identity_addr` raises after the AgentMail reply
  went out (412): what was delivered counts as a failure and is answered again, up to
  `A2A_MAX_ATTEMPTS` times. Only the newest 25 rows are read (667). With two
  agents in one process the first never reads its AgentMail and e2a lanes (733).
- Mesh channel. Mail is marked seen before its body is fetched: a failed fetch
  loses it (96). A kill after `peer_id` has saved and before the enqueue loses the
  mail. A torn PEERS file makes the ids start anew. `_pend_load` may put back an
  owner that `initiate` has just replaced. `start` leaves the pending file to the poll
  thread: a question asked before its first look is saved over the file, and the
  owners of earlier questions are never told (160). A restart between the removal
  of the pending entry and the note to the owner forgets the owner. `initiate` keeps
  the peer's name as it was given (159), `_poll` looks for it in lower case (117).
  Only 2000 of the seen ids are written, the lexicographically last (51).
- e2a poller. Where e2a answers a foreign key with 404 the cached key is kept for
  ever (324). A sender that is a display name is never answered; its mail is
  dropped after the last attempt. "Never answered twice" does not hold when an
  answer is lost.
- LC/BC responder. Without `LCB_REPLY_TO` every report fails, so the task is
  relayed again in every cycle, while `README.md:180` says statuses are "logged,
  not mailed". A failed report repeats the relay too, and a later report may say
  "not answered" of a task an earlier relay delivered. An empty inbox returns
  before arming, so the first task ever is set aside (250). A prompt that is no
  text raises for ever.
- Keepers. The pattern `__actor=<agent>*` matches agents whose name begins with
  the agent's (`Covers`): such a pair would lose actors to each other. The fleet
  keeper neither kills catch-alls nor reinstalls the SDK, though
  `deploy/README.md` says both. A failing `docker exec` looks like a container in
  which nothing runs.
- AgentMail listings are read from the field "data" by some readers
  (`a2a_hub.py:179`, `a2a_fleet_poller.py:670`, `omega_mesh_channel.py:87`) and
  from "messages" by others; the models take the listing as read.

## 5. What is proved

For every value of the constants that satisfies the named assumptions
(`DistinctAssumption`, `HubAssumption`, `OmegaAssumption`, `FleetAssumption`,
`MeshAssumption`, `E2aAssumption`, `LcbAssumption`, `KeeperAssumption`, each in the
module that declares the constants; they say what kind of value each constant is,
that bounds are naturals, and that the markers for "nothing" are no members of the
sets they stand beside, nor mail a reply):

| Theorem | Statement | Argument |
|---|---|---|
| `ChainLanes` | the chain has exactly the lanes it should, each once, whatever `A2A_TRANSPORT` is | the turn is a bijection of the positions; four cases of usable lanes |
| `TypeCorrect` of every component | `[]TypeOK` | `TypeInv` or `TypeOK`; where a step needs it, plus what a control point implies: a thread that is saving saves an accepted entry, a process that holds a message has one |
| `FinalStatusIsLogged`, `FinalStatusIsAnnounced` | `[]FinalStatusLogged`, `[]FinalStatusAnnounced` | inductive: the line is in the file, or some thread is about to save the entry. A thread that begins a change becomes that thread; one that appends writes the status of that moment |
| `EndedRoutesAreTerminal` | `[]EndedRouteIsTerminal` | inductive over "done, or saving with done or died to follow": a terminal status is left only by a status change to another terminal one, but for the task's own first steps |
| `RoutesStopAtFirstSuccess` | `StopsAtFirstSuccess` | once acknowledged, the route is only saving, in its `except` clause or over; others do not touch it (`RouteOwnsItself`) |
| `FailuresAreJustified` | `[]FailureJustified` | `Passed`: every lane before the position has left an error, and Agentverse has used up its attempts exactly when it is behind it |
| `CompletionsAreJustified` | `[]CompletionJustified` | `Justified` and `ReplyInHand`: a thread about to complete an entry is its route with a yes, or the poll loop with a reply that names the entry's id |
| `SeenAreEarned`, `DeletedAreEarned` (`OmegaPoller`) | `[]SeenIsEarned`, `[]DeletedIsEarned`, for any number of processes | `EarnedInv`: no count of failures, in a file or a process, exceeds the tries made, the message in hand has one try no count includes, and seen, deleted and decided messages were earned. Torn and stale files only ever hold lower counts and fewer ids |
| `AnswersAreAccounted` (`OmegaPoller`) | `[]AnswersAccounted` | `AccountInv`: a message the process does not know (`Known`) has only replies that were paid for |
| `WorkIsStartedOnce` | `[]WorkStartsOnce`, for any queue without repetition | `WorkInv`: what is queued, in the file or read by a process that has yet to write it back, differs from all that was started (`Fresh`). A torn ledger is empty |
| `PollerImplementsDesk` | `DeskSpec`: initial states map to initial states, each step, kills included, to a step or a stutter | `DeskInv`: what is remembered was decided, a process in a cycle remembers no less than its files and counts no fewer failures, and before there is a seen file there are no failures on record. So a drop comes at exactly the last try, nothing remembered is taken again, and what a kill leaves, the files, is part of what was known |
| `SeenAreEarned`, `AnswersAreAccounted`, `LegImplementsDesk` (`E2aPoller`) | `[]SeenIsEarned`, `[]AnswersAccounted`, `DeskSpec` | the same three arguments for a leg whose inbox keeps everything; a kill and the files it tears are one step |
| `RepliesAreTheEnd`, `OnlyOwnMailAnswered`, `SeenAreEarned` (`FleetPoller`) | `[]RepliesEndIt`, `[]OwnMailOnly`, `[]SeenIsEarned`, for any agents and mail | `LaneInv`: what a process reads came on the lane it serves; `AnswerInv`: an answer was given under the verdict "answer", which no reply gets; `EarnedInv` as above, per agent and lane |
| `LanesImplementDesks` | `LanesAreDesks`, for any agents and mail, kills included | `DeskInv` per agent and lane: while the process is on another lane, the lane's memory is its files, and turning to it and back moves the memory between them (`Memory`, `Failures`). A step on one lane leaves the others alone (`OwnStep`), what the agents send each other is an arrival at another desk (`GrowsBy`), and a kill on one lane makes that lane forget, the others not (`KillEffect`) |
| `AnswersAreAccounted` (`FleetPoller`) | `[]AnswersAccounted` where the SDK is installed (`HasSdk`), for any agents and mail | `OwedInv`: what an agent does not remember on the lane it came by was answered on each leg only as often as kills and unheard replies pay for; a delivery the process heard of will be remembered |
| `MailIsQueuedOnce`, `MarkedMailIsQueued`, `AnswersFindTheirPeer` (`MeshChannel`) | `[]QueuedOnce`, `[]MarkedIsQueued`, `[]AnswersGoBack` | `QueueInv`: mail that may still be queued (`MayQueue`) has no more entries than kills; `MarkInv`: the same of the marks in memory, from which every file is written; `IdInv`: no two known peers share an id and no id exceeds their number (`Numbered`), so the next id is unused, which takes the finiteness of the dictionary (`KnownCard`); what was handed out is in the peers file |
| `ReportsAreAccounted`, `RelaysAreAccounted`, `ReportsAreHonest`, `NothingIsDropped` (`LcbResponder`) | `[]ReportsAccounted`, `[]ForwardsAccounted`, `[]HonestReport`, `[]NothingDropped`, for any number of copies | `LockInv`: only the holder of the lock is past its start; on it `AccountInv`: whatever is not seen was paid for (`Paid`); `HonestInv`, `DropInv`: what a copy has forwarded and seen happened |
| `NoStartIsDoubled`, `KeeperSparesOne` (`Keeper`) | `NoDoubleStart`, `KeepsOne`, for any agents and patterns | `StartInv`: each start that is pending has an excuse, but for one per agent launched by the loop under way, which has looked at that agent and will be followed by a sleep; `Spared`: what a run has doomed of an agent leaves one, unless a crash upset it |
| `OneActorIsKept` (`Keeper`) | undisturbed, an agent with one actor, none pending and none lost since the listing has exactly one after every step: the safety half of `OneActorEach` | `Spared`, and that every launch asks `has_actor` first |

None of the properties is inductive alone: `FinalStatusLogged` says nothing of a
task that is being saved, `FailureJustified` nothing of a route under way,
`SeenIsEarned` nothing of the counts that lead to a drop, `AnswersAccounted`
nothing of what the process remembers, `KeepsOne` nothing of what is doomed.

Only model-checked: the liveness properties (`EveryTaskSettles`,
`EveryReplySeen`, `EveryMessageSettles`, `EveryMailSettles`, `MailIsQueued`,
`OwnerIsTold`, `EveryTaskReported`, `OneActorEach`), which are out of the prover's
reach.

## 6. What is not modelled

- Reading handlers of the hub (GET, tasks/get), the daily e-mail, the agent card:
  they change nothing but a time stamp. A hub restart: nothing is read back, the
  model ends with the process. Two threads changing a dictionary while a third
  iterates over it (488): the interpreter's error ends that handler without a
  change.
- Texts: prompts, formatting, envelope signing, JSON shapes; the reading of
  configurations. Time: intervals and the minute between attempts are
  interleavings.
- The brain behind an answer: an answer, or an honest "no brain", is sent in
  either case.
- Steps that are one in the model and several in the code. The walk of tasks/cancel
  over the entries (`CancelFind`); a send that raises does so before the message went
  out (`SendRaises`); listing and loading the files in `E2aPoller`.
- Faults that are left out. The `finally` of the e2a leg run by an interrupt, which
  saves what the cycle has done so far (284); a row of the Agentverse mailbox whose
  envelope is no object, over which `serve_agentverse` raises (569); `_pend_save`
  raising while the other thread changes the dictionary.
- The two older copies of the mesh channel under `examples/`, which know no questions
  and save after the enqueue.
- The client's local inbox file (`a2a_client.py`): one process without
  concurrency, driven by hand.
- `poller.py` (verification links and keys), the operator's probes
  (`verify_answers.py`, `mesh_test.py` and their like), launchers and example
  pollers: they keep no state the mesh depends on, or repeat the seen-file pattern
  modelled above.

## 7. Plan

Done: all components that serve the exchange of tasks, and the theorems above.

Left, in this order:

1. `ClientInbox` (`a2a_client.py`): poll and check over the local file.
2. A composition of hub and fleet through the shared inbox: which of the fleet's
   replies the hub's poll loop can match.

## 8. Running

```
tlc -workers 2 -config hub_faults.cfg MCA2AHub.tla
tlapm A2AHubProofs.tla
```

Each configuration is named after its run in `PROJECT.json`, which says the
module to give TLC.
