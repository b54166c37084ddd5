# A TLA+ verification of claudemux and its Feishu channel

claudemux runs a fleet of Claude Code and Codex sessions ("teammates") under one
dispatcher session; the feishu-channel plugin connects that fleet to Feishu
chats. This directory holds TLA+ models of the parts of the two plugins where
processes, restarts, files and remote calls meet, the TLC configurations that
check them on small instances, and proofs that TLAPS checks.

Paths below are relative to the repository; `feishu/` stands for
`plugins/feishu-channel/src/` and `claudemux/` for `plugins/claudemux/src/`.
`PROJECT.json` ties every definition to the source lines it stands for.

## 1. The system

### The Feishu channel (feishu/)

Every Claude Code session starts a *proxy* process (an MCP server on stdio).
All proxies connect to one *standing daemon* per Feishu profile, over a Unix
socket; the daemon alone holds the WebSocket to Feishu.

```
 Feishu  --event-->  daemon  --deliver frame-->  proxy  --notification-->  Claude
         <--ack---   (queue  <----ack frame----         <----tool call----
         <--API---    file)  <---tool / result-->
```

| component | state | operations | what makes it correct |
| --- | --- | --- | --- |
| channel ownership (`channel-owner.ts`) | owner, dispatcher and granted session ids, lease epoch; all in memory | register, select, the tools grant, acquire, return, reclaim | only a session a dispatcher named is ever handed the channel; without a hand-off the newest dispatcher has it |
| inbound delivery (`daemon.ts`, `daemon-routing.ts`, `daemon-connection.ts`, `proxy-client.ts`, `proxy-transport.ts`) | frames and acknowledgements on sockets, events inside a handler | persist, route, replay on registration, hand-off and start, render, acknowledge, mark | nothing Feishu will not send again is lost; pending rows are always on their way to a connected owner; order |
| durable queue (`daemon-queue.ts`) | one JSONL file | enqueue, markDelivered, pending; repair of a torn tail | facts once recorded stay; the file stays readable |
| instance lock (`instance-lock.ts`) | a pidfile | acquire, reclaim, evict, release; standby poll | one holder; never wedged |
| daemon election (`daemon.ts`, `daemon-lock.ts`, `daemon-server.ts`) | lock directory, socket path, legacy pidfile | start, evict an older version, close | one process opens Feishu, and it is the one proxies reach |
| received reactions (`server.ts`) | maps of pending, in-flight and cleared messages | mark, clear, undo | one indicator per message; an answer removes it |
| channel core (`server.ts`, `events.ts`, `connection.ts`) | handler table | dispatch of an event, tools | as above |
| proxy process (`proxy.ts`, `proxy-client.ts`, `shutdown.ts`) | the current connection, calls that wait for a result, a reconnect loop, the latch of the shutdown | start against a deadline, replace an older daemon, reconnect, call a tool, close | ends up with a daemon of its version; no call waits on a connection that is gone |
| Feishu transport (`feishu.ts`) | WebSocket client, reconnect guard, timers | start and its retries, give up, API calls with a timeout | a dead connection does not leave a dead channel; an answer lands whole or is an error |
| access gate (`access.ts`, `access-store.ts`, `handlers/im-message.ts`) | allow lists, pending pairing codes, a JSON file | gate, pair, expire, save; the operator's edits | a pending code is one somebody was shown, where it counts |
| bot discovery (`bot-discovery.ts`, `chat-bots-store.ts`) | bots known per chat, baselines, new ones to announce | observe, introduce, inject, commit | no bot is forgotten by a delivery that fails |
| document comments (`handlers/doc-comment.ts`) | none | fetch the thread, the metadata; tell | the text shown is that of the event |
| content conversion (`inbound-content.ts`) | the walk over one message, its budgets | render, download with a timeout | nothing lost, doubled or moved; a hung download does not stop it |
| framing, versions (`ipc.ts`, `version.ts`) | a partial line | split into frames; compare versions | every frame once, in order |
| doctor (`doctor.ts`, `doctor-probes.ts`) | none | probe socket, lock, processes, files; report | a fault that stays is reported |

Interaction: proxies call tools on the daemon and receive frames from it
(messages); daemons of several versions meet on the lock, the socket path, the
pidfile and the queue file (shared state); the ownership state calls back into
the replay (`onChanged`, `onRegister`); Feishu redelivers what is not
acknowledged in time.

### claudemux (claudemux/)

`tm` is a command line run afresh for each verb; several runs at once share
files under one root and act on teammates in tmux (Claude) or on app-server
daemons (Codex).

| component | state | operations | what makes it correct |
| --- | --- | --- | --- |
| teammate send and wait (`engines/claude/send.ts`, `wait-signals.ts`, `keys.ts`) | token, busy, idle and last files | send, wait; hooks of the session | exactly one of several sends reports the turn |
| turn markers (`compact.ts`, `reload.ts`, `wait-signals.ts`, `hooks/`) | busy and idle markers of a session | compact, reload, wait in its modes, listings | a verdict is about one's own turn |
| Claude lifecycle (`spawn.ts`, `claude-engine.ts`, `resume.ts`) | record, ready, cwd and sid files, tmux sessions | spawn, resume, kill; hooks at start and end | a session that runs is recorded; a kill leaves nothing that a failure does not explain |
| Codex registry (`supervisor.ts`, `engine.ts`) | record, spawn lock, registry of pid, start time and socket | spawn, resume, kill, doctor | one daemon per name |
| Codex turns (`engine.ts`, `steer.ts`, `events.ts`, `ask.ts`) | borrow lock, send token, thread id, last seen | send, join by steering, wait, ask | one starter of turns; no turn's end is missed |
| Codex bridge (`ipc-bridge.ts`, `ui-ipc.ts`, `rpc.ts`) | a link to the desktop application, a connection to the daemon | poll, reconcile, snapshot, requests | shows and serves the recorded thread in the end |
| Codex observation (`engine.ts`, `rollout.ts`) | none | listings, last, ctx | idle means idle |
| identity and history stores (`persistence/`, `verbs/history-query.ts`) | records, snapshots, an append-only index | reserve, archive, record, merge | a row names its own session |
| CLI (`cli/`, `shared/verb-args.ts`) | none | parse, dispatch | a prompt is data |

### What is hard here

Everything that matters crosses a process boundary: a daemon may die between
any two file system or socket calls; two daemons of different plugin versions
run at once during an upgrade; pidfiles and lock directories are judged stale by
timeouts; Feishu redelivers; a hand-off, a registration and a new event race
for who delivers a row; remote calls interleave at each `await`. Unit tests fix
one order of these. `PROJECT.json` lists each hazard at its line with the
property that covers it.

## 2. The modules

| module | models | checked by |
| --- | --- | --- |
| `ChannelOwner` | ChannelOwnerState over the daemon's connection set | `channel_state` |
| `ChannelOwnerProofs` | its theorems | TLAPS |
| `AtLeastOnce` | the promise in the header of `daemon-queue.ts`, as an abstract specification | `inbound_promise` |
| `InboundDelivery` | extends ChannelOwner with the way of an event to Claude and back | `inbound_routing`, `inbound_promise`, `handler_throws` |
| `InboundDeliveryProofs` | its theorems | TLAPS |
| `QueueFile` | the lines and the torn tail of the queue file, one system call to a step | `channel_state`, `two_daemons_append` |
| `QueueFileProofs` | its theorems for one writer | TLAPS |
| `InstanceLock` | the pidfile, one system call or process probe to a step | `channel_link`, `two_reclaimers` |
| `ChannelLinkProofs` | the theorems of `InstanceLock`, for a holder and one successor, and of `ReceivedReactions` | TLAPS |
| `DaemonStartup` | lock directory, socket path, pidfile and eviction between daemons | `channel_processes` |
| `ProxySession` | a proxy over whatever daemon there is: start, replacement, reconnect, calls, shutdown | `channel_processes` |
| `ChannelProcessesProofs` | the theorems of DaemonStartup and ProxySession, for any number of daemons and calls, and of InboundContent, for messages of any size | TLAPS |
| `FeishuConnection` | the daemon's connection to Feishu with its guard, and the proxy that starts the next daemon | `channel_link` |
| `ReceivedReactions` | the reaction maps, with each remote call split into its call and its return | `channel_link` |
| `AccessGate` | the gate as a function of the access file, the message and a fresh code | through `ImMessage` |
| `ImMessage` | the handlers of messages and memberships, the access file, its edits, peer bots | `channel_state` |
| `DocComment` | a comment event against the thread that is fetched for it | `channel_state` |
| `InboundContent` | the walk over the body of a message and its downloads | `channel_processes` |
| `OutboundReply` | reply, react and edit_message, card by card | `channel_state` |
| `ChannelDoctor` | the doctor's probes while daemons come and go, and its checks | `channel_state` |
| `ChannelStateProofs` | the theorems of ImMessage, DocComment, ChannelDoctor and OutboundReply | TLAPS |
| `SendSupersede` | several `tm send` and `tm wait` to one Claude teammate: the token, the marker files, the transcript and the Stop hook | `teammate_turns`, `prior_turn` |
| `TeammateTurnsProofs` | its theorems and those of `SessionHistory`, for any number of sends, names and sessions | TLAPS |
| `TurnMarkers` | the markers of one teammate's turns under every verb that wipes or reads them | `teammate_processes` |
| `ClaudeLifecycle` | spawn, resume and kill of one Claude teammate name | `teammate_processes` |
| `CodexRegistry` | spawn, resume, kill and doctor over the files of one Codex teammate | `teammate_processes` |
| `CodexTurns` | send, wait and ask on one Codex thread | `teammate_processes` |
| `CodexObservation` | a listing of a Codex teammate that works | `codex_bridge` |
| `TeammateProofs` | the theorems of ClaudeLifecycle, CodexRegistry, CodexTurns, TurnMarkers, CodexObservation, CodexBridge and VerbArgs, for any number of commands | TLAPS |
| `CodexBridge` | the process between a Codex teammate and the desktop application | `codex_bridge` |
| `SessionHistory` | index, records, snapshots and transcripts, and the rows made of them | `teammate_turns` |
| `VerbArgs` | the arguments of send, wait and compact, read twice | `teammate_turns` |

`MC*` modules give the constants values. A definition that its comment calls
faulty, a variation or a plausible bug is a wrong version of the one after it,
used to see that the properties can fail (`PROJECT.json`, "mutants").

**Several modules in a run.** `MCChannelState`, `MCChannelLink`,
`MCChannelProcesses`, `MCTeammateProcesses`, `MCTeammateTurns` and `MCCodexBridge` each
check several modules that share no state. A variable `part` says which of them a behaviour is
about; the variables of the others keep one initial value. So a run is the union
of its modules' state graphs and not their product, and nothing is claimed about
their interaction. A liveness property is stated for the behaviours of its part
(`LockNeverWedged` is `NeverWedged` of `InstanceLock`, and so on), with that
module's fairness.

**How actions correspond to code.** JavaScript runs one callback at a time, so an
action is the code from one `await` (or callback entry) to the next. Where two
processes share files, an action is one system call. So in `InboundDelivery`
`Receive` is handleEvent through the synchronous append and routing, and
`AckFeishu` the return to the SDK; `Render` and `HandleAck` are the reading of one
frame by the proxy and by the daemon. In `ReceivedReactions` `MarkReceived` ends
at the call of `addReaction` and `AddResolves` begins at its return. In
`InstanceLock` the exclusive create and the write of the pid are two steps since
`openSync(path, 'wx')` and the write are two calls. A `tm` command is a process of
its own, and its actions go from one file system, tmux or daemon call that others
can see to the next: `Reserve`, `TakeSpawnLock`, `Inspect`, ... of `CodexRegistry` are those
of one spawnDaemon. The shell hooks are processes too (`TurnMarkers`, `SendSupersede`);
in `ClaudeLifecycle` the SessionStart hook checks its directory, writes the sid and
touches the ready file in steps of its own (`HookStarts`, `HookWritesSid`,
`HookTouchesReady`), which outlive the session. Where the code swallows the failure of a
call, the action has that outcome as a disjunct (`LookToKill`, `TypeExit` and
`KillSession` of `ClaudeLifecycle`, the writes of `CodexRegistry`, the probes of
`ChannelDoctor`).

**Layers.** `InboundDelivery` sees the queue file by its meaning (undelivered rows
in file order, ids marked delivered); `QueueFile` is the file itself, and its
`FactsAreKept` is what the other module takes for granted. `InstanceLock` and
`DaemonStartup` both have the acquire of a pidfile call by call: the one beside its
standby poll, refused signals and a grace period, the other between the lock directory
and the socket. `DaemonStartup` takes the probe of a holder, the eviction's signal and
the release for one step each.
`ProxySession` has the daemons of `DaemonStartup` as an environment, and
`FeishuConnection` keeps of `ProxySession` that it dials and spawns once per
reconnecting, and of `DaemonStartup` that a starter stands down before a lock that is
held or still fresh.
`ImMessage` calls the functions of `AccessGate`. `SessionHistory` takes a command for
one step where `ClaudeLifecycle` and `CodexRegistry` take it apart.

**Data.** An event is one idempotency key that the access gate let through; a
proxy's session id carries its role (`server.ts:940-960`), so `Dispatchers` is a
set of ids; a selector of a tool call either resolves to a live session or
changes nothing. Text is left out.

**History variables** record what the properties speak about and what no code
reads: `authorised`, `dropped`, `swallowed` (InboundDelivery), `returned`
(QueueFile), `marked`, `answered`, `unadded`, `evicted`, `abandoned`, `lost`
(ReceivedReactions), `entered`, `discarded`, `claims`, `alone`, `late`
(SendSupersede), `shown`, `decided`, `announced` (ImMessage), `answered` (OutboundReply),
`loose` (CodexBridge), `misfiled`, `given`, `made` (SessionHistory), `wiped`, `lone`,
`outcome` (TurnMarkers), `raced`, `stolen` (DaemonStartup), `unreached` (FeishuConnection), `missed`,
`outlived`, `alone` (ClaudeLifecycle), `wronged` (CodexTurns), `agreed`, `wasSound`
(ChannelDoctor), `calm` (CodexObservation). The comment at each says what it is for.

## 3. What the runs check

Type invariants are stated in every module (`...TypeOK`); those of the proof
modules are proved, and the runs carry none of them.

**`channel_state`** (six modules)

| part | instance | properties | shows |
| --- | --- | --- | --- |
| owner | 2 dispatchers, 2 sessions, epoch to 3 | OwnerIsAuthorised, DefaultOwnerIsNewestDispatcher | no order of connects, registrations, closes, restarts and tool calls gives the channel to a session nobody named, or away from the newest dispatcher without a hand-off |
| queue | 1 writer, 2 events, 5 operations, 3 faults | StaysReadable, FactsAreKept | any sequence of torn writes, repairs and crashes of one daemon loses no fact |
| messages | 2 users, a bot, a group, 3 codes, 3 messages, 1 edit | CodesAreShownWhereTheyCount, PeersAreAnnounced | through failing sends, expiry, edits and overlapping handlers, a pairing that occupies a place has had its code shown where approving it counts, and no peer bot is forgotten |
| doctor | 2 daemons, one of which does not tell its pid, an old server, 2 proxies, 2 changes, 1 failure | CleanReportWasTrue | a report without a complaint is not put together from different moments: the daemon at the socket did hold the lock at one of them, and, if no probe failed, was the only one then |
| comments | 1 author, this bot, 3 texts, a page of 2 | OwnTextIsShown | what is written and deleted before the fetch does not put another text under an event |
| tools | 2 calls, 2 chats, 2 cards each | AnswerLandsWhole | a chat counts as answered only when each card of the answer is in it, once and in order |

**`inbound_routing`**, **`inbound_promise`** (`InboundDelivery`)

| run | instance | properties | shows |
| --- | --- | --- | --- |
| `inbound_routing` | dispatcher and session, 2 events, 1 failure, 1 tool call | PendingInFlight, RenderedInOrder, DeliveredToAuthorised | the three replay points together leave no row stranded, and never let a later event overtake an earlier one |
| `inbound_promise` | the same, 1 event, 3 failures | KeepsPromise, EventuallyDelivered | the abstract promise is implemented through any three failures; delivery follows when an owner stays |

**`channel_link`** (three modules)

| part | instance | properties | shows |
| --- | --- | --- | --- |
| lock | a holder and two later processes, 2 crashes | MutualExclusion, LockNeverWedged | between a holder and one successor the lock excludes; with any number it is never wedged |
| connection | 3 outages, 2 refusals, 2 attempts of each kind | LinkComesBack | whichever of the three mechanisms gives up (startup retry, guard, SDK), and whenever a daemon is killed, the channel serves again once Feishu stays in reach, unless a daemon the proxy started has ended before the proxy reached it |
| reactions | 3 messages in 2 chats, 3 deliveries, 2 replies, a failure, a restart, a cap of 1 | OneIndicator, ReactionAnsweredIsCleared | what holds of the indicator under every interleaving of the remote calls |

**`channel_processes`** (three modules)

| part | instance | properties | shows |
| --- | --- | --- | --- |
| daemons | 3 daemons, of two and of three versions, a stall or a crash | OneInbound, InboundIsReachable, DaemonUpgradeEvicts | one daemon opens Feishu unless lock and pidfile fail both, on the socket proxies use as long as the lock excludes; an older one does not survive an upgrade, but for the exceptions `UpgradeEvicts` lists |
| proxy | 2 calls, 5 upsets | NoCallStranded, ProxyJoinsCurrentDaemon | no tool call of a running proxy waits on a connection it has given up, a clean end closes the connection the proxy holds, and a session ends up with a daemon of its version that serves |
| content | 10 bodies, 2 images, 2 downloads, depth 1, 8 nodes | RenderedAsWritten, ContentIsHandedOn | downloads that fail, hang or come late neither lose nor move a part of the message, nor keep it back |

**`teammate_processes`** (four modules)

| part | instance | properties | shows |
| --- | --- | --- | --- |
| registry | 3 commands out of spawn, resume, kill and doctor, 1 failure | StartsLeaveOneDaemon | starts that race for a name leave one daemon, the registered one |
| turns | 3 commands out of send, wait and ask, 2 turns, 1 failure | StarterGetsItsTurn, WaitMissesNothing | the borrow lock makes one command the starter, which collects its own turn, until the lock of a command at work is removed as a dead one's; no turn's end falls between a wait's read and its subscription |
| claude | 2 spawns or resumes, a kill, 1 failure | SessionIsRecorded, KillLeavesNothing | as long as nothing fails, a session that was started stays recorded under its own id; a kill that no start runs beside leaves no record, whatever fails, and no session and no marker files unless tmux failed it or a SessionStart hook was at work |
| markers | 2 commands out of eight verbs, 2 lines typed | LoneCompactIsTrue | the verdict on a compaction is about that compaction |

**`teammate_turns`** (three modules), **`codex_bridge`** (two modules)

| run, part | instance | properties | shows |
| --- | --- | --- | --- |
| sends | 2 processes, each a send or a wait, 1 failure | SurvivorIsLastClaim, LoneSendRoundTrip, WaitEnds | whatever the order of two processes, the session and its hook, the send that claimed last stays to collect the result, a lone send prints its own reply, and no wait hangs while the session takes its prompt |
| history | a name, a repository with a worktree, 2 sessions, 1 mishap | RowsNameTheirSession | the row merged from four sources has the engine and directory of the session it names |
| arguments | 3 words, 4 arguments | PromptIsData | a prompt that looks like a flag is passed on as it is, through both readings |
| bridge | 2 calls at a time, 2 threads, 7 connections | ServesThread, ShownWhenQuiet | whatever closes or moves, the bridge comes to serve the recorded thread, and owes no snapshot once it is quiet |
| look | 1 thread, 2 daemons, a clock to 2 | IdleRowWasIdle | a teammate that works all along is not listed as idle when a daemon, be it a newer one, answered for it |

Runs that expect a violation, each of a sentence in the repository:

| run | the sentence | what happens |
| --- | --- | --- |
| `handler_throws` | "an ACKed-before-persist loss is not possible" (`feishu/daemon-queue.ts:8`) | a handler that throws is logged and the event acknowledged |
| `two_daemons_append` | "both daemons must be able to append received facts to the same durable queue" (`feishu/daemon-queue.ts:12-13`) | both find the torn tail a dead writer left; the truncate of the slower repair cuts off the row the other has repaired for and appended |
| `two_reclaimers` | "a competitor reclaiming the same stale file simply wins the exclusive create, and this instance then sees its live PID and stands down" (`feishu/instance-lock.ts:72-74`) | the winner of the create has not written its pid yet: the other finds the file unreadable, unlinks it as stale and creates its own; both hold |
| `prior_turn` | "a settled assistant entry from a PRIOR turn [...] can never be mistaken for this turn's completion" (`claudemux/engines/claude/turn-jsonl.ts:9-11`) | the offset is taken while an earlier turn still runs; its reply lands after the offset and settles the new send |

### Bounds, and why they are enough

- *Lengths of histories*: `MaxEpoch`, `MaxCalls`, `MaxOps`, `MaxDeliveries`,
  `MaxMessages`, `MaxEdits`, `MaxTurns`, `MaxTime`, `MaxLines`, `MaxTexts`,
  `MaxClock`, `MaxEntries`, `MaxDaemons`, `MaxSessions`, `MaxArgs`. Each covers the
  longest scenario the code distinguishes: a hand-off and a return, a torn write
  followed by a repair followed by another fault, a delivery with its redelivery, a
  turn that ends and the one that follows, the message that meets a full list of
  pending codes. `MaxEpoch` only blocks a change of owner, and a restart resets it.
- *Failures*: `MaxFaults`, `MaxStalls`, `MaxCrashes`, `MaxFailures`, `MaxRestarts`,
  `MaxUpsets`, `MaxTrouble`, `MaxMishaps`, `MaxOutages`, `MaxRefusals`, `MaxChanges`,
  `MaxMoves`, `MaxDrops`. Two or more where a failure should hit the recovery from
  another one (lock, daemons, queue, connection, proxy); one where the interest is
  in the order of several commands (registry, turns, lifecycle, markers).
- *Limits of the code*, smaller so that they are reached: `Cap` (1024 in the code, 1
  here), `MaxReclaimAttempts` (3, 2), `MaxRetries` (2, 1), `BotInfoAttempts` (3,
  2) and `MaxAttempts` of the guard (5, 2), `MaxPending` (10, 2) and `MaxReplies` (2),
  `MaxDownloads`, `MaxDepth` and `MaxNodes` of one message, `PageSize`, `MaxCards`,
  `Window`. What matters is that each is passed, from both sides.
- Two dispatchers are needed for a newer one to displace an older; two events for order;
  two daemons of one version after one of another for siblings and an upgrade at once,
  and three versions for an eviction that meets a second older daemon; one mishap in the
  run of the daemons (`MaxMishaps`, a stall or a crash), since the third process is the
  second mishap of the other two; three commands of one Codex teammate for a third to
  come between two. Seven connections are one for each attempt that one move and one
  drop allow.
- *Symmetry* is used in `channel_state` (users, pairing codes) and
  `teammate_processes` (commands of one kind), which check no liveness.
- `CHECK_DEADLOCK FALSE` in every run: the bounds end each behaviour, a command ends,
  and real processes may stop too.

### Fairness, and why the code justifies it

- `Progress` (InboundDelivery): Feishu redelivers until it is acknowledged, a live
  daemon finishes opening and reads its sockets, a proxy reads its own. Nobody is
  assumed to connect, to register, to restart the daemon or to call a tool:
  `EventuallyDelivered` has the presence of an owner as its hypothesis.
- `LockFairness`: a live process carries on with an acquire it has begun, its
  standby poll (a `setInterval`) and its exit. Weak fairness on the acquire as a
  whole, not on each call.
- `DaemonFairness`: the same for a startup and a close. Nobody has to be launched.
- `ConnectionFairness`: timers fire (startup retry, the guard's poll, its grace), the
  SDK retries, a process that has decided to end does, and a proxy dials and spawns. A
  daemon that was spawned comes up or stands down; nobody waits for a lock to become
  stale, and a daemon may be killed at any moment, before the first dial too.
  A connection comes up only while Feishu is in reach; that it stays so is the
  hypothesis of `ChannelComesBack`.
- `ReactionFairness`: remote calls return, by an answer or by a timeout of the SDK.
- `ProxyFairness`: Node runs the callbacks of sockets and timers that are due, a spawned
  daemon comes up or does not, the shutdown goes on with its tasks. No daemon has to
  answer a tool call, and no one else has to start one: `JoinsCurrentDaemon` supposes a
  daemon that stays.
- `ContentFairness`: the walk and the timer of a download go on. A transfer may hang
  for ever, which is what the property is about.
- `SendFairness`: a live process goes on polling; the session starts and ends
  turns, writes its transcript and runs its hook. Nobody has to send, nothing has
  to be folded into a turn, and no wait is helped by its expiry.
- `BridgeFairness`: the event loop runs every call and timer. Two strong parts: a
  poll may reconnect before a resume has come back, so a daemon slower than every
  poll would be reconnected for ever; the resume is assumed to win in the end.

## 4. What is proved

`ChannelOwnerProofs`, for any finite set of connections, any sets of sessions and
dispatchers, any assignment of ids and any bound on the epoch (the assumptions
named `ConnAssumption`, `SessionAssumption`, `SidAssumption`, `EpochAssumption`):

- `OwnerTypeCorrect`: `OwnerSpec => []OwnerTypeOK`
- `OwnerAuthorised`: `OwnerSpec => []OwnerIsAuthorised`
- `DefaultOwner`: `OwnerSpec => []DefaultOwnerIsNewestDispatcher`

`OwnerIsAuthorised` is not inductive: a session may use a grant that was given
before a return. What makes it true is that a return voids the grant, so the
inductive invariant `OwnerInv` adds `GrantIsAuthorised` (an outstanding grant
names a currently authorised session). `OwnerInvInit` and `OwnerInvStep` prove it,
one step per action; `NextPlace` needs the finiteness of the connection set for
the place of a new connection to be positive.

`InboundDeliveryProofs`, for any set of events and any bounds, with rows and frames
of any number:

- `InboundTypeCorrect`, `AckedPersisted`: `InboundTypeOK`, `AckedIsPersisted`
- `PromiseKept`: `InboundSpec => KeepsPromise`, the refinement of `AtLeastOnce`
- `DeliveredAuthorised`: the action property `DeliveredToAuthorised`
- `NothingStranded`, `ShownInOrder`: `PendingInFlight` and `RenderedInOrder`, under
  `UniqueIds`: each proxy registers an id of its own. Section 5 says what happens
  without it.

The argument goes in layers. `OwnerStep`: every step is a step of `ChannelOwner` or
leaves it alone, so `OwnerInv` holds here too. `FlowInv` says where an event can
be: what is inside a handler, in a frame or shown is stored, what is acknowledged
or marked by a proxy was shown, and the rows are distinct; it is inductive and
gives the refinement step by step. `PendingInFlight` is inductive over it, since
a step that changes the owner's connection either replays (`ReplayReaches`) or
leaves no owner (`SelectStays`). `RenderedInOrder` says nothing of the frames, so
it is strengthened to `OrderInv`: in no connection's frames does a row run ahead of
an earlier one. A redelivered event is appended alone, behind everything else;
that this does not break the order needs `PendingInFlight` (`OrderReceive`).
`FirstExists` (the earliest connection exists) comes from the well-foundedness of
the naturals.

`QueueFileProofs`, for any events and any number of operations, torn writes and
crashes, under `OneDaemon` (the file has one writer; `two_daemons_append` shows
what two do to it):

- `QueueReadable`, `RowsSurvive`, `FactsKept`: `StaysReadable`, `ReturnedRowsSurvive`
  and `FactsAreKept`

The invariant `FileInv` adds what holds between the calls of an operation
(`OperationInv`): a truncate removes exactly the torn tail, an append meets the end
of a line or a complete entry that it has a newline for. From it follows
`EntriesGrow`: whatever a call does, torn or not, the entries the file can be
read as are kept and at most one is added.

`ChannelLinkProofs`. Of `InstanceLock`, for any processes, any eviction rule and any
number of crashes and reclaims:

- `LockTypeCorrect`: `LockTypeOK`. It is not inductive alone: a process about to
  unlink must be below the last attempt (`LockTypeInv`).
- `SuccessorExcluded`, `HolderOnFile`: `MutualExclusion` and `HolderIsOnFile`, under
  `HeldAtFirst` (the lock starts held; finitely many processes). Both speak of a
  holder and one process after it; `two_reclaimers` shows why not of more.

The invariant `LockInv` adds to the types `OneTenure` (the first holder never
acquires again, a process never started owns nothing) and `Handover`: while the
first holder lives, the file is its own and the successor has got no further than
finding that out; afterwards the file is the successor's or nobody's, or was left
by the dead holder. `OneSuccessorIs` turns the cardinality in the properties into
the one successor of `Handover`.

Of `ReceivedReactions`, for any messages, chats, replies, bounds and cap:

- `ReceivedOnce`: `OneIndicator`
- `NoneForgotten`: `NoneStranded`, which no run checks

`OneIndicator` says nothing of where a reaction is kept, so `ReactionInv` adds it:
`MapsAreApart` (a message is in one of `pendingReactions` and `inFlightAdds`, once),
`UndoneWereCleared` (a removal by `markReceived` is of an add still in flight and
flagged), and `ListedAreKnown` (a message on the list of a reply is pending still or
has its tombstone, so a redelivery does not add to it). Every reaction is then in one
of three hands (`NoneStranded`), and no two hands hold the same message. The two ways
a reply moves on share `AdvanceKeeps` and `AdvanceKeepsLists`. What a map is without
some of its entries is a recursive function (`Only`); `OnlyKeeps` says by a least
counterexample what it holds, of every length.

`TeammateTurnsProofs`, for any number of processes, retries and failures, and of names,
sessions and mishaps:

- `SurvivorStays`: `SurvivorIsLastClaim`
- `LoneAnswered`: `LoneSendRoundTrip`
- `SendTypeCorrect`: `SendTypeOK`
- `RowsAreTheirSessions`: `RowsNameTheirSession`
- `StatusesWereGiven`: `StatusWasGiven`, which no run checks

The invariant `SurvivorInv` adds that the token is the last claim in the history,
that those who claimed are exactly the sends in it, and that a send claims only
after its Enter. A send that finds the token in another's hand was therefore
overtaken by one whose prompt is delivered (`OvertakenByToken`).

`LoneSendRoundTrip` is about the end of a send; `LoneInv` follows it from its beginning.
The transcript after its anchor is in one of three states (nothing, its prompt, its
prompt and the reply), and with it the prompt is in one place (`PromptGoesAlone`): in the
input line, in the queue, in the turn, in the reply not written yet, or gone. The files
are its own once it has cleared them (`FilesAreItsOwn`): the idle marker, the hook about
to touch it and the send about to print each stand for an answer in `.last`. What the
readers of the transcript find in each state is proved apart (`UnaskedSaysNothing`,
`RepliedSays`, over `LatestIsOne`). The offset is what keeps earlier turns out: with the
send alone, no reply settles after it but its own.

For `RowsNameTheirSession` the invariant `HistoryInv` says of the fold of the index that
what stands under a session's id is about that session, and that an attribution
(engine, name, directory) stands for a session of that engine and directory
(`IndexFits`); and of every name that its record, marker and process agree on the
engine, and on the directory of the session the marker names unless that session is
misfiled (`NameFits`). `FoldFits` shows that whatever event is folded in keeps the
index so: an event without an id goes to a session only by its attribution, and what
an event with an id absorbs has the directory the event itself names. That step needs
events never to have a repository without a directory (`Directed`), which every verb
keeps. `RowFits` then merges index, listing and transcript. The proof showed the
constants' assumption too weak: `Unknown` must differ from every number, engine and
worktree path as well, since a number could be the next session's.

For `StatusesWereGiven` the invariant `StatusInv` adds to it where the statuses come from:
one that is folded under a session's id was given to that session, or to a session
without an id of its name, engine and directory (`StatusesFit`), and a name's marker is
that of the session its process has, unless that one is misfiled (`NamesSay`), so that a
verdict on a name is one on that session. The same case split as in `FoldFits`
(`FoldTold`) shows that no event moves a status between sessions otherwise.

`ChannelProcessesProofs`, for any number of daemons of any versions with any stalls and
crashes, and for a proxy with any calls:

- `InboundIsOne`: `OneInbound`. There are two reasons for it, and each is enough: as
  long as the lock excludes, one process is past it (`Reachability`); as long as nobody
  has unlinked a live process's pidfile that it had not judged (`raced`), whoever is
  past the pidfile has it (`PidfileInv`: the one about to write its pid, and the one
  connected). Both do fail in the code: a stall or an eviction lets two past the lock,
  and two reclaimers can both get the pidfile (`two_reclaimers`). Then two are
  connected, and TLC finds it when the hypothesis is dropped.
- `InboundReached`: `InboundIsReachable`. As long as nothing stalls and no starter that
  evicted a daemon takes the lock, the lock lets one process at a time past it and the
  path that one bound stays (`Reachability`). An attempt to prove more failed for a
  good reason: after an eviction a starter takes the lock from a live holder, whose
  release then removes it, and of two starters that find the path stale the slower one
  unlinks the socket of the other. That takes five processes, more than the run has;
  the property has excluded it since.
- `CallsNotStranded`: `NoCallStranded`. The cleanup closes the connection the proxy has
  attached and no other: a dial under way survives it, attaches, and registers a task of
  its own if it was the first. `ProxyInv` adds that an attached proxy has a task still to
  run, even one that was registered while the shutdown was under way, and that a clean
  end is not over before it. Calls are not rejected by the close but by the socket's
  event, which the end of the process may come before: of a proxy that has ended the
  theorem claims nothing about its calls.
- `OlderIsFallback`: a start-up settles for an older daemon only after its own attempt
  to start one (`OlderOnlyAsFallback`, by `FallbackInv`).
- `DaemonTypeCorrect`, `ProxyTypeCorrect`: type correctness.

Of `InboundContent`, for a post or card of any size, with elements nested in any way:

- `AllIsRendered`: `RenderedAsWritten`. The invariant `ContentInv` says that what has been
  shown, the key that is awaited and what is still to be walked make up the message, in
  its order; of a card that met a bound of the walk some of the end may be missing. Each
  step moves the border: a visit takes an element off the walk and puts what it holds in
  front (`VisitWalks`), a transfer that ends turns the awaited key into a part (`WaitWalks`).
  What a reader sees of an element (`Seen`) is a function of its depth defined by
  recursion; `SeenExists` and `SeenLevels` unfold it by a least counterexample among the
  levels, and `FlattenUnfolds` and `FlattenConcat` do the same for the library's
  `FlattenSeq`. `ContentAssumption` says of the messages what the renderers take for
  granted: only cards have containers.
- `FewDownloads`: `DownloadsAreBounded`. The budget and the downloads made up to now add
  up to it (`CountInv`), and an image or file that is a message of its own, which takes
  nothing off the budget, is the only element of its message. The proof needed that to
  be said of the constants (`ByItself` in `ContentAssumption`): `renderPostElement` and the
  card walk know inline images alone.

`TeammateProofs`, for any number of commands and any failures:

- `KillIsComplete`: `KillLeavesNothing`. What an undisturbed kill has achieved so far
  stays so (`Achieved`): the session is gone, unless tmux failed the kill (`missed`),
  before the files its hooks write, and these, unless a hook outlived it (`outlived`),
  before the record. So the record and the cwd file, which no hook writes, go whatever
  fails. `SessionRecorded`: `SessionIsRecorded`, from `RecordedInv`.
- `StartsLeaveOne`: `StartsLeaveOneDaemon`, under the hypothesis of the property that
  only starts run (`OnlyStarts`). `RegistryInv` ties the spawn lock to the step of the
  command that made it, and the daemons that live to the commands that registered them.
- `StarterGets`: `StarterGetsItsTurn`, whatever dies, until the lock of a command at work
  has been removed as a dead one's (`wronged`; section 5 says how that comes about).
  `StarterInv`: the holder of the borrow lock alone starts turns, none while one runs,
  and listens from the moment it does, so what it hears is the end of its own.
- `WaitMisses`: `WaitMissesNothing`, whoever dies (`WaitInv`).
- `CompactSays`: `LoneCompactIsTrue`. `CompactGoes` follows the one compaction that was
  typed through each spot of the command: it is at rest, begun or over.
- `RestIsTrue`: `RestIsReal`, over the types of the compact's invariant. A turn has its busy
  marker unless that was wiped, and who is about to say that the teammate rests saw no
  turn at its last look (`RestInv`).
- `NewestIsReported`: `NewestLineIsReported`. `NewestInv`: what was read of a rollout begins
  it still, and the places noted are the last of their kind in it, which is what the
  recursive scan (`Newest`) finds at every length (`NoneNewer`).
- `IdleIsIdle`: `IdleRowWasIdle`, of teammates for which a daemon answered. `LookInv`
  says that until the teammate has moved what was read of the registry is still so, and
  the daemon's word is of a moment since.
- `NothingUnshown`: `ShownWhenQuiet`. `BridgeInv`: outside the exception `loose` one
  call at a time opens the connection, and it is a poll, a first call or a snapshot
  (`Alone`); an open connection has resumed a thread, none a newer one than the record
  (`Conns`); and while the client has yet to be shown the thread somebody owes it the
  snapshot, a timer or a call on its way to one (`SnapshotOwed`). The first attempt
  showed the model wrong in two places: the exception ended with a snapshot taken over a
  connection that another call had opened, which takes one move of the thread more than
  the run has, and a link that was lost with a snapshot on it counted as shown.
- `LockHeldOrOrphaned`: `LockIsHeldOrOrphaned`, whatever fails (`SpawnLockInv`): a spawn
  lock is a running command's, one's that died with it, or the empty one of a command
  whose write of its pid failed, which is outside the `finally` (`supervisor.ts:431-436`).
- `DataStaysData`: `PromptIsData`, for arguments of any number. `ReadIsMade` says of every list
  that what is read of it is refused or a record of the verb's kind, by a least
  counterexample among its beginnings. `RereadIsSame` follows the engine's own list through
  its parts (`PartsLead`, `LeadsOn`). It rests on what `ArgsAssumption` says of numbers: written
  and read again they stay as they are. From 10^21 on JavaScript writes an exponent, and the
  second reading refuses the timeout.
- `LifecycleTypeCorrect`, `TurnsTypeCorrect`, `BridgeTypeCorrect`: type correctness.

`ChannelStateProofs`, for any people, groups, codes, processes and texts:

- `CodesShownWhereTheyCount`: `CodesAreShownWhereTheyCount`. `AccessInv` speaks of every
  content of the access file that somebody holds: the file itself, what an edit has read
  and will write, and what each handler will save. A code in any of them has been shown,
  or is being sent, in the chat of its pairing. It rests on `IsContent`, on what the
  gate, the expiry and an edit make of a content.
- `PeersStayAnnounced`: `PeersAreAnnounced`. A bot is announced, due for the next
  delivery, or covered by the baseline (`Settled`), and what a delivery under way will
  announce stays due until it commits (`Covers`).
- `SteadyFaultReported`: `SteadyFaultIsReported`, of a world that stands still and probes
  that all succeed; no run repeats it. If nothing changes and no probe fails
  what was read is what there is (`EvidenceIsTrue`); that a fault then makes an error is
  a case split over the checks.
- `CleanReportIsTrue`: `CleanReportWasTrue`, through any changes and failing probes. The
  probes read at different moments, so `CleanInv` says what each reading is still good
  for: the daemon that answered hello listens for as long as it lives (`HelloListens`),
  the pidfile that named it names it for as long (`HolderStays`), and if it was the one
  daemon when the processes were listed, that was a sound moment (`OneWasFound`), unless
  a probe failed: then one may not have been listed, and only that lock and socket
  agreed (`agreed`) is claimed. The proof showed the model wrong: a daemon that had died
  could come back as the same process, with which the property fails from three daemons
  and six changes on. `ended` keeps the dead apart since.
- `OwnTextShown`: `OwnTextIsShown`: the head of a thread stays, and a page that was
  fetched begins with it (`CommentInv`).
- `WholeAnswer`: `AnswerLandsWhole`. `ReplyInv` counts the cards of each call in the
  chat its answer goes to; a card that is appended is the last of its call and none of
  another (`AppendCard`).
- `ImTypeCorrect`: type correctness.

`OwnerTypeCorrect`, `InboundTypeCorrect`, `AckedPersisted`, `RowsSurvive`,
`LockTypeCorrect`, `HolderOnFile`, `NoneForgotten`, `StatusesWereGiven`,
`LockHeldOrOrphaned`, `DaemonTypeCorrect`, `ProxyTypeCorrect`, `OlderIsFallback`,
`FewDownloads`, `LifecycleTypeCorrect`, `TurnsTypeCorrect`, `BridgeTypeCorrect`, `RestIsTrue`,
`NewestIsReported`, `SteadyFaultReported` and `ImTypeCorrect` are about statements that no
run repeats.

Every invariant and action property of the passing runs is a theorem. Only
model-checked is liveness, which the prover does not do: EventuallyDelivered,
LockNeverWedged, LinkComesBack, ReactionAnsweredIsCleared, DaemonUpgradeEvicts,
ProxyJoinsCurrentDaemon, ContentIsHandedOn, WaitEnds and ServesThread.

Some statements stand in the modules beside the ones the runs check, and hold on the
same instances. Proved are NoneStranded (ReceivedReactions), DownloadsAreBounded
(InboundContent), SteadyFaultIsReported (ChannelDoctor), LockIsHeldOrOrphaned
(CodexRegistry), RestIsReal (TurnMarkers), NewestLineIsReported (CodexObservation) and
StatusWasGiven (SessionHistory); DarkDaemonExits (FeishuConnection) speaks of what
eventually happens and is not.

## 5. Disagreements met, without a run

- *Wording of the ownership tools.* With a newer dispatcher gone and an older one
  connected, return and reclaim answer that no dispatcher is registered
  (`channel-owner.ts:204,224`), since only the remembered one is looked up (`:257`).
- *One session id on two connections.* The id falls back on the working directory
  (`server.ts:940-955`), so two sessions may share one. When the first closes,
  `select` moves to the second, and nothing replays the pending rows to it
  (`.agents/components/feishu-channel.md:71` speaks of a session reconnecting).
  The runs give each connection its own id.
- *The borrow lock of a command at work* is removed without any failure:
  `supervisor.ts:177-182` reads the holder, probes it, and removes what lock there is. A
  holder that ends in between is dead to the probe, and the lock that goes is the next
  borrower's; two commands then start turns on one thread. `wronged` marks it, and
  `StarterGetsItsTurn` speaks of the time before.
- *A kill and a late hook.* The SessionStart hook is a process of its own: past its check
  of the directory (`on-session-start.sh:72`) it writes the sid and ready files
  (`:84`, `:94`) though the kill has removed them. And a tmux call that fails is taken for
  a session that is gone (`claude-engine.ts:379-383, 455-462, 491-497`), so that the record
  goes and the session stays. `outlived` and `missed` mark these.
- *A session without a record.* When a start fails, its clean-up removes the record that
  is there, which may be a later start's; that session then runs unrecorded.
  `SessionIsRecorded` speaks of runs without a failure.
- *An empty spawn lock.* A `tm` whose write of its pid fails (`supervisor.ts:431-436`)
  leaves the lock it created, empty, and is refused; later starts are too, since an empty
  lock is never found stale (`supervisor.ts:272-279`).
- *Two daemons of a Codex teammate.* A kill that reads the registry of a start under way
  before its start time is written finds no daemon to end and removes the registry; the
  daemon lives on, and the next start begins a second one. No failure is needed;
  `StartsLeaveOneDaemon` speaks of starts only.
- *A failed read makes a teammate idle.* When the read of the thread fails, the listing goes
  by the age of the rollout alone (`engine.ts:679-693`), and calls a teammate idle whose
  turn has written nothing for a while. `IdleRowWasIdle` supposes that a daemon answered.
- *Two listeners.* `daemon-server.ts:136` unlinks the path it judged stale a moment
  earlier; a daemon that bound it in between keeps listening unreachably, against
  `daemon-lock.ts:15-17`. `DaemonStartup` has this, behind stalls;
  `InboundIsReachable` therefore speaks of runs without one (and of those in which
  no eviction let a starter take a live lock, section 4). If the pidfile fails as well
  (`two_reclaimers`), both connect to Feishu: the second alternative of `OneInbound`. The close of either
  listener then unlinks the path of the other.
- *Three versions.* A starter evicts once (`daemon.ts:97-100`). If another older daemon has
  come up by the time it retries the lock, it stands down and leaves that one up, although
  "replacement daemons evict older serving daemons" (`.agents/components/feishu-channel.md:62-63`).
  `UpgradeEvicts` excludes it (`Evictor`); the run has three versions, in which it happens.
- *After an eviction* the stale threshold is two seconds, less than the refresh
  interval of a holder, so a live lock can be taken (`TakeLock`).
- *Reactions forgotten.* A daemon restart forgets the reactions on messages of
  sessions that live on; they stay (`server.ts:305-306` expects the conversation
  to have ended). `lost` marks them.
- *A reply before the mark.* A reply that lands between the notification and
  `markReceived` (`server.ts:384`) clears nothing, and the reaction added after it
  waits for another reply
  (`.agents/decisions/feishu-channel-received-reaction-indicator.md:67-68`). The
  properties speak of messages whose marking has begun.
- *A failed add leaves no tombstone,* so a redelivery after the reply adds the
  reaction after all (`unadded`); so does one after its tombstone is dropped at
  the cap, even beside a removal still under way (`evicted`). And when a reply has the
  first reaction still on its list, it takes the second one off the map as it gets
  there (`pendingReactions.delete` is by message): with a cap of 1, four deliveries and
  three replies, nothing removes the second one any more. `NoneStranded` leaves such
  messages out; the cap of the code is 1024.
- *Double replay.* A registration that changes the owner replays the rows twice
  (`daemon.ts:125`, `:154-157`): harmless, since rendering may repeat.
- *A failed write of a rendered message* is said to be "retried"
  (`feishu/proxy-client.ts:106-107`). With the owner connected throughout nothing
  retries it: `EventuallyDelivered` takes only failures that end.
- *The hook ahead of the transcript.* The Stop hook waits until the latest
  assistant entry is settled (`plugins/claudemux/hooks/on-stop.sh:194-246`). Before the
  new reply is written, that entry may be the one of the turn before: it then
  removes `.last`, and even a lone send prints nothing (`late`).
- *Sends that are not folded together.* The send that survives prints the last
  text, which may be the reply to another's prompt, or nothing once a later send
  has cleared `.last`. Only a lone send is promised its own reply.

The following statements of the modules are refuted by TLC on the instances above.
They are no runs of their own since each is the neighbour of a property that is.

- *An edit of the access file can be lost* (`EditsTakeEffect`, ImMessage): "an edit
  takes effect on the next message" (`plugins/feishu-channel/skills/access/SKILL.md:28-29`),
  but a handler saves what it read before it awaited the send of a pairing code
  (`im-message.ts:188-207`), and the operator's own read and write are two steps.
- *A failed probe need not show* (`FailedProbeIsUnknown`, ChannelDoctor): "a failed
  probe surfaces as an `unknown` check" (`doctor.ts:174-176`), but the probes of
  processes and files return an empty list or nothing when they fail, which other
  checks read as an absence.
- *A proxy may stay disconnected after a daemon restart* (`ReconnectsAfterRestart`,
  ProxySession): the page says it "reconnects to the daemon socket"
  (`.agents/components/feishu-channel.md:66-68`). The reconnect loop spawns a daemon
  once per outage (`proxy.ts:232-267`); if that one does not come up, or an older one
  serves, it dials for ever. After a SIGKILL that is what happens when the proxy is quick:
  the lock of the dead daemon is fresh for a while and the spawned one stands down before
  it (`daemon-lock.ts:91-99`). `unreached` of `FeishuConnection` marks such a daemon.
- *A reservation does not hold against a resume* (`WinnerKeepsName`, CodexRegistry):
  the exclusive create makes whoever reserves first the owner
  (`identity-store.ts:10-19`), but a resume of the same name removes the record of a
  spawn in progress before it reserves its own.
- *A failed start may leave its daemon* (`FailedStartLeavesNoDaemon`, CodexRegistry):
  "kill the daemon if we managed to start it" (`supervisor.ts:419-421`). A kill or
  doctor that removes the registry directory between the start and the registration
  makes the registration fail before the daemon's pid is where the cleanup looks.
- *A joined send may collect another's turn* (`ReplyAnswersPrompt`, CodexTurns): it
  should "collect the merged result" of the turn it steers into (`engine.ts:472`). It
  subscribes first, hears the end of the turn it saw, and steers into the next one
  (`steerActiveTurn` retries with the turn that runs); it then returns the earlier one.
- *The latest send may be the one superseded* (`LatestSendSurvives`, CodexTurns, against
  `engine.ts:477-480`): a joining send claims the token after its steer. Its turn may end
  meanwhile, and a later send claim and start the next; the earlier one's late claim
  then makes the later one exit, and its reply is collected by nobody.
- *A kill reported as graceful* (`GracefulIsClean`, ClaudeLifecycle): the comment says
  SessionEnd was reached (`claude-engine.ts:443`); the marker it watches is also moved
  by the Stop hook of a turn.
- *"compacted" without a compaction* (`CompactedIsCompacted`, TurnMarkers, against
  `compact.ts:2-3`): the idle marker of another turn is taken for it, and so is, the other way
  round, an older refusal on the pane for its own. A teammate that nobody else touches is
  safe, `LoneCompactIsTrue`.
- *Where a resumed session runs* (`RecordedCwdIsWhereItRuns`, SessionHistory): the record
  should name the path the process runs in (`spawn.ts:318-320`); a session without a
  worktree, resumed by its row, takes the slug of the name's last record
  (`dispatch.ts:439-443`).
- *A status given to the wrong session* (`StatusIsItsOwn`, SessionHistory): one that is
  given before the session has an id is later attributed by name, engine and
  directory, and so may come to stand in the row of a later session
  (`history-index.ts:266-289`).

Seen while modelling, without a statement:

- `verb-args.ts:273-275` says that `--resume` takes its value in either form; `tm spawn
  --resume=<sid>` is refused.
- A name that looks like a flag and is let through by `--` is read as a flag by the
  engine's second reading. No teammate can have such a name (`identity/name.ts:17`).
- `feishu.ts:790-798` has a TODO for inline images and concurrent downloads; inline
  images are downloaded by now (`inbound-content.ts`).
- The access file is written through a fixed `<file>.tmp` (`access-store.ts:66-71`): two
  processes that save at once may rename each other's half-written file.

## 6. What is not modelled, and the plan

Left out for good: the generated Codex protocol types, the vendored WebSocket client,
examples and documentation; the wording of reports and listings; names of users,
bots and chats and the message history, which are single reads.

Left out so far:

- `FrameDecoder` (`ipc.ts`): sockets here carry whole frames in order.
- How text becomes Markdown and cards, and the paths of downloads
  (`inbound-content.ts`); the walk over a message is modelled.
- Creation and removal of worktrees, and the migration of old records
  (`persistence/`).
- The arguments of verbs other than send, wait and compact, and `tm ctx` and `tm ls`
  beyond what they conclude about a teammate.
- In `SendSupersede`, the hook's other events (StopFailure, PostCompact, SessionEnd
  beyond its touch of the marker) and the change of session id by a `/clear`;
  TurnMarkers has the first of these.
- In `ClaudeLifecycle`, that a `/clear` or a compaction fires the SessionStart hook again.

Facts assumed of what is external: no Stop hook fires while a prompt is queued, and a
prompt entered during the hook starts after it (Claude Code); a thread runs one turn
at a time and steers a prompt into it or refuses (Codex app-server); a call that
Feishu refused has changed nothing.

Since the parts of a run share no state, interactions between them are covered only
where a module models its neighbour as an environment (section 2, *Layers*).

Next, in order of importance:

1. Framing, as a process that splits and joins frames, refined to the sockets of
   `InboundDelivery`.
2. `ProxySession` composed with `DaemonStartup` in place of its environment.
