# Modern EQ Chat: specification, model checking and proofs

The program relays chat between EverQuest game servers and Discord. One *hub*
runs beside Discord; one *agent* runs beside each game server. An agent reads
its server's chat from a telnet console, sends it to the hub over a TLS
websocket, and writes what the hub relays to it back to the same console.

This directory models the relay in TLA+, checks the models with TLC on small
instances and proves the main safety properties with TLAPS for every instance.
`PROJECT.json` lists the components, runs, theorems, the mapping of definitions
to source lines, and the hazards the properties are aimed at.

    tlc -workers 2 -config MCChatRelay.cfg MCChatRelay     # a run
    tlapm ChatRelayProofs.tla                              # a module's proofs

## 1. Inventory

| Component | State | Operations | Talks to |
|---|---|---|---|
| Router (`hub/router.go`) | channel table, `seenCache` (two generations of event IDs) | `Route`, `SetChannels` | called by `Hub.Publish` |
| Hub fan-out (`hub/hub.go`) | `sessions` by server key, under `Hub.mu` | `Publish`, `onFrame`, `ReplaceChannels` | Router, Session, Discord sink |
| Hub sessions (`hub/hub.go`, `session.go`, `control.go`) | per connection: handler, writer goroutine, `done`, `out` queue; `pendingTests` | `handleAgent`, `addSession`, `removeSession`, `Disconnect`, `RenameAgent`, `TestAgent` | guard, roster, agents |
| Agent relay (`agent/agent.go`, `echo.go`) | `echoCache` of injected lines | `Publish`, `inject`, `handleTest` | telnet, hub |
| Agent link (`agent/agent.go`) | connection loop, socket, writer per session, `out` queue, player count | `loop`, `session`, `writeLoop`, `readLoop`, `enqueue`, `Disconnect` | hub |
| Admission control (`guard/`) | connection windows, failure records, bans | `AllowConnection`, `RecordAuthFailure`, `RecordAuthSuccess`, `Unban`, sweeps; token bucket `Limiter` | hub, web login |
| Roster (`hub/roster.go`) | file of agents, a copy per process with its modification time | `Add`, `Rotate`, `Remove`, `SetEnabled`, `Rename`, `MarkSeen`, lookups | hub, command line, web |
| Enrollment (`hub/enroll.go`, `hub/hub.go`, `agent/enroll.go`) | file of one-time codes, a copy per process with its modification time | `Create`, `Redeem`, `Pending`, `Revoke`, `handleEnroll`, `agent.Enroll` | roster, hub, command line |
| Game link (`telnet/`, `client/`) | telnet connection, player dump and list, keepalive and status loops | `Connect`, `Disconnect`, reader loop, `Who`, `Send` | agent, Discord |
| Discord (`discord/`) | gateway session under `Discord.mu` | message and command handlers, `Connect`, `IsConnected` | hub, registration, client |
| Registration (`api/`, `registerdb/`, `userdb/`) | requests with status and timeout, user table, both files | `!register`, `relays`, `registerConfirm` | Discord, quest script in the game |
| Web interface (`webui/`) | login sessions | login, logout, `requireAuth`, roster and channel pages | guard, roster, enrollment, hub, configuration |
| Configuration (`config/`, `setup/`, `cmd_web.go`) | `modern-eq-chat.conf`, names of the data files | `Load`, `Verify`, `Save`, `Migrate`, the wizard, `web` commands | every start, web interface |
| Lookup tables (`guilddb/`, `characterdb/`) | tables of guild channels and of who is online | reload, lookups | Discord, telnet |
| Input adapters (`eqlog/`, `peqeditorsql/`, `sqlreport/`) | file position, timers | tail, poll | client |
| Service, certificates, logging | files at start | install, create, write | everything |

What is hard here:

- *feedback*: an injected line comes back on the connection chat is read from;
- *goroutines*: sessions are replaced while their predecessors unwind, writers
  outlive the sessions they write for, `Disconnect` runs beside handshakes;
- *full queues*: both sides drop frames in three unlocked steps;
- *shared files*: roster, codes and configuration are replaced as a whole by
  several processes without a lock, some of which wait at a prompt in between;
- *time*: caches, windows, bans, codes and sessions expire between the steps that
  use them;
- *lost replies*: probes, status reports and tokens may come late or never;
- *unlocked fields*: the telnet connection is replaced under its readers;
- *locks*: Discord's mutex is held across everything a message causes.

What makes each component correct: chat never returns to where it came from and
is not shown twice; an ID is routed once in the window; the session map holds
live sessions only and old ends leave new sessions alone; shutdown completes;
readers never block on replies nobody waits for; a session's chat arrives in order
and nothing arrives twice; the player count converges; bans hit bursts and only
bursts; no saved roster change is lost; a code enrolls one server, and what the roster
holds is what the servers hold; the game link comes back and its player list with it;
nobody speaks as a character whose player did not agree; the configuration on disk always starts a
hub, and no writer undoes another's settings.

## 2. Modules

| Module | Models | Checked by | Proofs |
|---|---|---|---|
| `ChatRelay` | chat end to end: agent publish, routing, fan-out, injection, echo | `MCChatRelay` | `ChatRelayProofs` |
| `HubSessions` | handlers, readers, writers, replacement, shutdown, rename, probes | `MCHubSessions` | `HubSessionsProofs` |
| `AgentLink` | connection loop, overlapping writers, queue, status, `Disconnect` | `MCAgentLink` | `AgentLinkProofs` |
| `Roster` | the shared file, one step per file system call | `MCRoster` | `AdmissionProofs` |
| `LossyChannel` | abstract: what the agent's link promises for chat | `MCAgentLink` | `AgentLinkProofs` |
| `Guard` | windows, failures, bans, sweeps over a clock | `MCGuard` | `AdmissionProofs` |
| `Enroll` | the file of codes, `handleEnroll` with the roster behind it, the server's side | `MCEnroll` | `EnrollProofs` |
| `SourceLink` | the telnet connection, its readers, player dumps, keepalive and status loops | `MCSourceLink` | `SourceLinkProofs` |
| `Registration` | `!register`, confirmations, both databases, Discord's lock | `MCRegistration` | `RegistrationProofs` |
| `Console` | the configuration file with all its writers, migration, web sessions | `MCConsole` | `ConsoleProofs` |

`ChatRelay` is the composition of router, hub, sessions and agents at the level
of messages; in it a session is only present or absent and a link only loses
frames. `HubSessions` and `AgentLink` take those two apart, and `AgentLink` is
shown to implement `LossyChannel`, the link `ChatRelay` works with. `Enroll`
composes the code store with the roster; `Registration` composes Discord's
handlers, the HTTP API and two databases; `Console` composes the hub's start, the
web interface and the commands over one file.

### ChatRelay

`out[s]` is `Agent.out`, `down[s]` a `Session.out`, `pub[p]` a call of
`Hub.Publish` between routing and its last `Send`, `echo[s]` the `echoCache`,
`owed[s]` what the game has still to echo (external). `HubReads` is `onFrame`
with `Publish` up to the fan-out; `Forward` is one target of it, which looks the
session up again. `Bounce` is an agent that sends back what it received: what
the duplicate and hop checks are there for. A line is name and message together
and `Sanitize` a function on lines that need not be idempotent: a message cut at
its maximal length after a space loses the space the next time.
`SendOutcomes` collects what the three selects of `Send` and `enqueue` can do
to a full queue. Discord and the hub's own game server publish one event at a
time. A template that fails to render is left out.
Two things are narrower than the code: `HubReads` waits for the fan-out under way for its
server, while the handlers of an old and a new session of one server may overlap in
`hub.go` (their overlap is in `HubSessions`); and an event without an ID, which
`router.go` exempts from the duplicate check, never arises: `NewEvent` gives every event an
ID, and `Bounce`, the faulty agent, sends back events that have theirs.

### HubSessions

A step ends where the code releases `Hub.mu`, blocks or does I/O. `pc[c]` is the
position of `handleAgent`, which turns into the reader; `closed` stands for
`done` together with the socket; `closing` for the goroutine `addSession` starts
for the session it replaces. `peer` is the agent's end, which may vanish at any
time (external). `StopClears` to `StopListener` are the phases of
`Hub.Disconnect`. Probes and renames are calls by operators.

### AgentLink

`loop` is the position of `Agent.loop` with `session`; sessions are numbered and
each has its socket and its writer. A writer whose session is over goes on until
it sees its context or fails to write, so that two writers may take from `out`.
`FirstStatus` ignores its error, as the code does. `SetPlayerCount` stands for
`SetSourceUp` too, which differs only in the field it reports. The last of
`MaxSessions` sessions never breaks: without an end to the outages nothing could
converge. What a writer has written lies in `wire[s]` until the hub's reader of that
session handles it (`HubReads`), which it may do after the agent has a new session; a
link that breaks loses it (`WireLost`). A session ends in two steps, as its deferred
calls do: `SessionEnds` cancels the writer's context, `SessionCloses` closes the socket.
`Put`, `Written` and `FirstStatus` write to a socket, `MayFail` says when that fails.

`LossyChannel` has a lane per session, and the refinement mapping takes for the lines in
transit the chat in the queue, in the writers' hands and on the wires. Lines of two
sessions may overtake each other: an old writer holds one while its successor sends
the next. The history `late[s]` counts the frames a writer took from the queue after
its socket was closed.

### Roster

Within a process `Roster.mu` makes an operation atomic; between processes only
single system calls are, so an operation is `Begin` (stat), `Load`, `Apply`,
`Commit` (rename), `Restat`. A process may stop between any two of them and start
again; saving may fail, and then `Add`, `Rotate` and `Rename` undo their change in
memory while `Remove`, `SetEnabled` and `MarkSeen` keep it. `NewRoster` creates a
missing file. `truth` is what the saved operations amount to; `calm` says that so
far no two writing operations overlapped, no reload failed and no failed save
left its change in memory. Every rename has a modification time of its own.

### Guard

`AllowConnection` with its sweep, `RecordAuthFailure` with the doubling of bans,
`RecordAuthSuccess` and `Unban`. Connections of one address overlap: `pending`
counts those admitted whose credential has not been looked at. `Fresh` is the loop of
`window.trim`: it drops times from the front of a list. The histories `admitted` and
`failed` list the times of every admission and failure for as long as a property looks
back, and no sweep touches them.

### Enroll

An operation on the codes is two steps, the refresh with its pruning and the change
with its save; the finer steps of such a file are `Roster`'s subject. The roster is
a table of tokens. `conn[a]` is where an attempt stands, on the hub's side and on
the server's; `Reply` may fail and `Rollback` then removes the entry again;
`OperatorChanges` is a command on the roster at any moment. The histories say which
tokens are lost with a reply the server never read, a crash or a failed rollback:
the code accounts for all others. `crossed` holds the processes whose writing operation,
still under way, has overlapped with another process's. Per code, `accepted`, `revoked`
and `expires` say what was done to it; `spent`, `cancelled` and `charged` are the
acceptances, revocations and saved wrong guesses of operations that nobody crossed. Later
crossings do not take a code out of them.

### SourceLink

`Telnet.conn` and `isConnected` are accessed without a lock by the keepalive loop,
the readers and the senders, so each access is a step. `DialOk` makes the connection
visible to senders before the login, and `HandshakeOk` starts a reader before
`Connected` sets the flag. The keepalive is taken to be enabled. A dump is a header, a line per player and a footer
on the wire; a break cuts it off anywhere, and `ParseLine` is what the two parsers
make of the next line. A sender that passed its check and finds the connection nil
crashes the process, as the code would.

### Registration

A handler of a Discord message holds `Discord.mu` from `Lock` to `Route`. Entries
have the ticks they have left; `MarkWaiting` changes memory only; a save may fail and
leave the file as it was, empty or cut off (`isCut`: then there is no start, because it
cannot be decoded), and a crash may tear it. A player answers a tell the game delivered
(`told`, external), and the call finds any open entry, for all have the same code. The
history `accepted` has the requests acceptances found open, `consents` those whose own
player accepted. `SetUser` locks
`userdb.mu` and does not release it. A users file that `save` wrote is read back only
if its name ends in `.toml`. `Roles` and `Nick` are what Discord says of an account.

### Console

`conf` is the file. Everybody who changes it loads it, changes a copy and replaces
the file: `proc[p]` and `browser[b]` hold such copies. `MigrateRenames` and
`MigrateSaves` are the two halves of the migration every start begins with; in
`MigrateFails` a rename fails, of the roster's file or, after it, of another of the data
files this one stands for, and the settings are not saved. A limit
is off, unset or a number, since that is what `applyDefaults` tells apart. Sessions
are in memory and lost with the hub. `overlapped` says that two writers were at the
file at once; then the later one wins, and only `DiskStarts` is promised.

## 3. Runs

| Run | Shows | Bounds |
|---|---|---|
| `chat_relay` | `NeverToOrigin`, `DuplicatesRejected`, `OneSuppressionPerInjection` for distinct lines, `NoFeedback` | 2 agents, Discord and a local server, 2 events, 3 ticks, queues of 1, one faulty agent, three tables |
| `hub_sessions` | `RegisteredIsLive`, `OnlyOwnEndRemoves`, `ProbesSettle`, `SessionsEnd`, `ShutdownCompletes` | 2 connections of one server, one rename or one probe, `MaxAgents` 1 |
| `guard` | `ConnectionsLimited`, `FailuresBounded`, `BanNeedsBurst`, `EscalatesWithinMemory` | 2 addresses, one outside the allowed networks, limits of 3, 8 ticks |
| `roster` | `NoLostUpdate`, `ChecksAreCurrent` | 2 processes, 2 keys, 3 operations, no file at first |
| `roster_lost` | violated: `AdditionsSurvive` | 2 processes, 2 keys, 3 operations |
| `agent_link` | `ImplementsChannel`, `OldWriterTakesOne`, `StatusConverges`, `ComesBack` | 2 sessions, 2 chat lines, one change of the count, queue of 2, a frame on a wire |
| `enroll` | `SingleUse`, `OnlyLiveCodesAccepted`, `TokensAccounted` | hub and one command, 2 codes, 2 attempts for one server, 4 operations, 2 ticks, 2 guesses |
| `source_link` | `OneReader`, `AnnouncedTruth`, `SourceRecovers` | 2 readers, 2 sockets, 2 players, 3 faults |
| `registration` | `BindingsAccepted`, `RegistrationsDurable` | 2 accounts, 2 characters, 2 messages, 2 answers that may overlap, 1 fault |
| `registration_stuck` | violated: `MessagesHandled` | one account, 2 messages, one answer, no faults |
| `console` | `DiskStarts`, `EditsKept`, `DataFound`, `SessionsExpire` | 2 browsers, 2 sessions of 2 ticks, 2 tables, 2 passwords, 4 requests or commands, 2 faults |
| `console_limits` | violated: `OffStaysOff` | as `console`, sessions of 1 tick, 1 fault |

Every passing run also has the type invariant of its module, and every property of a
passing run has a mutant of the code's behaviour that violates it.

Four more configurations end in a counterexample too. They are for a reader who wants
to see the trace of a disagreement listed in section 5:

| Configuration | Violated | Bounds |
|---|---|---|
| `MCGuardBurst.cfg` of `MCGuard` | `BurstIsBanned` | one address, a threshold of 3, 5 ticks |
| `MCEnrollRevived.cfg` of `MCEnroll` | `RevokeCancels` | hub and one command, one code, one attempt, no failed saves |
| `MCAgentLinkWriters.cfg` of `MCAgentLink` | `OneWriterPerSocket` | as `agent_link` |
| `MCRegistrationConsent.cfg` of `MCRegistration` | `BindingsConsented` | 2 accounts, 2 characters, 2 messages, one answer, no faults |

Why the bounds are enough. Feedback needs one utterance, its echo and a cache
that expires between them: two IDs and three ticks with a window of one and a
lifetime of two give every order of the three. A replacement takes two
connections of one server; a third repeats the second. Two writers compete with
two sessions, and a queue of two is full after two of the three frames; a wire
of one holds what was written before the link broke, and is full at once. A lost
update takes two processes and two operations; the third is the one that would
notice. A ban, a sweep and a second ban fit in eight ticks, and a burst across the border of two
windows of two in five. Two attempts with two
codes race for one code, or for one server with a code each; four operations are
two codes issued and two redeemed or revoked. Three faults break the link, cut a
dump short and let a player leave. Two messages are a registration and what its
sender says next, two answers an acceptance beside a refusal. Four operations on
the console are a login, an edit and two more of another writer, and two faults a
crash in the migration and one after it. What a bound cuts off is covered, for
the safety properties of every module, by the proofs, which have none. Deadlock is not
checked: each bounded run really stops, when the bounds are used up or the system has
shut down. `roster`, `enroll` and `console`
use the symmetry of processes, codes, attempts, browsers and the like, in runs
without liveness. In `chat_relay` the `echoCache` never
holds more than its limit of 4, so the branch that clears it is not taken; the
code clears it beyond 4096 unexpired lines.

Fairness. `HubSessions`: weak fairness of every step of a handler, a writer and
`Disconnect` once called: goroutines are scheduled, handshakes and reads have
deadlines (`hub.go`, `session.go`), and a connected agent sends a status each
heartbeat, so that a reader's blocking read ends. None for operators, agents that
connect, or `Disconnect` being called. `AgentLink`: weak fairness of the loop, of
a write that is under way (it has a deadline), of the hub's reader and of `Disconnect`
once called; of a session's end only once its socket is closed;
strong fairness of a successful dial (the hub can be reached again and again,
else nothing can be promised) and of the heartbeat, because Go's select picks
among ready cases at random and so does not pass over the ticker for ever.
`SourceLink`: weak fairness of every goroutine, for sleeps end and reads have the
server's answers to wait for, and of the game server coming back; breaks, failed
handshakes and slow dumps are bounded by `MaxFaults`, after which the link is to
recover. The sender has none: nobody needs to speak. `Registration`: weak fairness of
what a goroutine does next, strong fairness of taking `Discord.mu`, because Go hands
a mutex to a waiter it has kept waiting for a millisecond.

## 4. Proofs

All theorems hold for every value of the constants that satisfies the named
assumptions of the modules, which TLC evaluates in each run.

- `ChatRelayProofs`. `TypeCorrect`. `OwnChatIsNeverSentBack`: `NeverToOrigin` is
  inductive given types, because `HubReads` overwrites the origin with the
  session's key and `Targets` excludes it; the lemmas say what a queue holds after
  `SendOutcomes` and `Tail`. `DuplicatesAreRejected` rests on `SeenInv`: a handled
  ID is in one of the two generations or was handled more than two windows
  before the next rotation.
  `EchoesAreSuppressed` and `NothingComesBack` have two hypotheses, because the code
  does not promise more. `QuietWorld` is about the world around the agents: nobody
  repeats a line or says one that becomes the same as another or as the test line, a
  line sanitized twice stays as it is, and the game echoes a line before the cache
  forgets it; section 5 lists what the code does otherwise. `MCChatRelay` asserts
  `QuietWorld` of its instance. `CachesFit` says that no `echoCache` is over its
  limit, where `remember` clears it. The invariant `FeedbackInv` follows
  an utterance: everything on its way goes back to a line that was said, one per ID
  (`UtteredInv`); what the hub relays is settled, so that an echo is looked up under
  the text it was remembered with (`SettledInv`); the game owes its lines in order
  and in time (`TimeInv`); each of them has a cache entry that outlives it, and
  nothing else is looked up under that text (`EchoInv`); and an utterance accepted at most
  once is in one fan-out, then in one frame for a server, and then injected and owed
  once (`FreshInv`, `StageInv`). The cache invariant needs the last one (a second
  owed copy would use up the entry), and it needs the cache invariant (an echo taken for chat
  would be a second event of the utterance), so they are proved together.
- `HubSessionsProofs`. `SessionsTypeCorrect`, `NoZombieInTheMap` (inductive),
  `OldEndsLeaveNewAlone`, and `ProbesNeverStick` from `OneReplyPerProbe`: a probe in the map has no reply in its channel and none on the
  way, so that a buffer of one is enough. The buffer's size is assumed to be
  positive, as `pendingTests.add` makes it.
- `AdmissionProofs`: who gets in, by address (`Guard`) and by credential (`Roster`). The
  two share no state, and the module extends both, for which `Roster`'s specification and
  type invariant have names of their own (`RosterSpec`, `RosterTypeOK`).
  `ConnectionsAreLimited`, `FailuresAreBounded`, `SlowFailuresAreNotBanned` and
  `RepeatedBansDouble` follow from `GuardInv`. `ClockInv`: no list and no record has a time that is still to come.
  `WindowInv`: the recent times of an address's window, or none if a sweep dropped the
  window, are the times of its recent admissions; so what `window.allow` counts is what
  the limit is about. `BurstInv`: the failures of the last `FailureWindow` are in one record's
  window, or in that and the one before, and each window has fewer than `MaxFailures`.
  `OffenceInv`: for two `FailureWindow`s after a ban, sweeps and new windows leave the
  record that knows of the offence, and the last ban's length is the one for its number.
  Two things under it need induction over data, and the library's induction theorems have
  an operator as a parameter, which the provers cannot instantiate. `SetInduction`, which
  speaks of a set of numbers, does the same: it follows from `WFMin` and
  `NatLessThanWellFounded`. With it `FreshIs` says what the trimming
  loop returns (the list from the first recent time on), and `DurationsExist`,
  `DurationsAgree` and `DoubledIs` that the recursive function `Doubled` satisfies its
  equation. `BanDoubles` then compares a ban with the one before.
  `RosterTypeCorrect`, `UpdatesAreKept`, `SkippingReloadIsRight`, `ChecksSeeEveryUpdate`
  hold for any number of processes, from `TimesArePast` and `WriterInv`: while all is
  calm one process at most is writing, and where it stands says how its entries
  relate to the file.
- `AgentLinkProofs`. `LinkTypeCorrect`. `OldWriterTakesOneFrame` from `WritersInv`: a writer
  that took a frame from the queue after its socket was closed is writing it, to a
  socket that stays closed, or has ended; so it does not return to its select.
  `LinkImplementsChannel`, the refinement, from `SessionsInv` (a session that is not attached
  has no writer) and `OrderInv`: the queue is sorted, its chat is newer than all that left
  it, and what left it for one session is in order and in no other session's hands. So
  the line that `HubReads` handles is newer than the last of its lane and in transit once.
  `PublishChat` publishes, and every other step loses lines or leaves the channel
  as it is (`ChannelStep`).
- `EnrollProofs`, from `EnrollInv`. A process whose copy may reach the file is one that is up to
  date with it (`Current`) or in the middle of a writing operation (`Writes`): `Reach`. For
  those, and for the file, `IssuedInv` relates entries to the codes issued, `GoneInv` says that
  no code in `spent` or `cancelled` is among them, and `CountInv` that an entry has its time
  and at least the attempts in `charged`; `RedeemInv` and `WriterInv` say who writes. What an
  operation takes away while nobody crosses it is in no copy that can come back, and stays
  so whatever overlaps later. `CodesWorkOnce` and `DeadCodesAreRefused` are action properties
  without a condition on the history (`AcceptingStep`); the condition is in the sets
  they speak of, and `MCEnrollRevived.cfg` shows what happens without it.
  `TokensAreAccounted` adds `HolderInv`: an attempt past the roster's `Add` has a token of its
  own, and of two attempts for one server one at most holds the entry.
- `SourceLinkProofs`, from `SourceInv`. `OneReaderAtATime` rests on `LinkInv`: where the keepalive
  loop stands, whether a reader exists, and which socket is open determine each
  other, step by step through `Connect` and `Disconnect`. `AnnouncementsAreTrue` adds
  `TruthInv`, the same for the flag and the last announcement. `WireInv`, `DumpInv` and
  `WriterInv` type the dump on the wire and the sender. Finitely many players are assumed.
- `RegistrationProofs`, from `RegistrationInv`. `NamesWereRequested`: an
  acceptance under way carries the character of the request it found open (`AnswerInv`),
  whatever has replaced that since, and a handler speaks under a name it looked up
  (`SpeakInv`). Whose acceptance it was the code cannot tell, and the theorem does not
  say (`MCRegistrationConsent.cfg`). `TellInv` types the tells.
  `RegistrationsAreDurable`: file and memory differ by tells that went out (`StoreInv`).
  `HandlersExclude`: one handler at a time. `HoldersAreNotStuck`: whoever holds `Discord.mu`
  stands at a step whose guard is met, unless it waits for `userdb.mu`. Assumed: an entry
  waits for its tell no longer than for its answer (30 seconds and 24 hours in the code), a
  role names a character or nothing, and no account is called like the two other holders of the lock.
- `ConsoleProofs`, from `ConsoleInv`. `FileAlwaysStarts`: not only the file but every copy that
  may replace it passes `Verify` (`ShapeInv`). `SettingsAreKept` and `RosterIsFound`: without
  overlap there is one writer, its copy is the file but for its own change (`CopyInv`), and
  wanted settings, router and data files follow the file (`WantedInv`, `AgreeInv`,
  `MigrateInv`). `StaleSessionsAreRefused`: what a session has left and how long it
  was idle add up to its lifetime (`SessionInv`).

Each inductive invariant was checked by TLC on the instance of its module before it was
proved. Liveness under fairness is only model-checked: `SessionsEnd`, `ShutdownCompletes`,
`StatusConverges`, `ComesBack`, `SourceRecovers`.

## 5. Where the code and its comments disagree

TLC shows seven such disagreements. The first three are runs, with a finding in
`PROJECT.json`; the other four have the configurations of section 3.

1. `hub/roster.go:29`, comparing modification times "stops its next save from
   clobbering that addition": not when the addition falls between the comparison
   and the rename (`roster_lost`).
2. `api/api.go:114`, "Your messages in discord will be seen in game": after the first
   accepted registration no message is handled, since `userdb.Set` keeps its lock
   (`registration_stuck`).
3. `config/config_relay.go:303`, a disabled limit must not be "silently switched back
   on": setup saves the 0 it was turned into (`console_limits`).
4. `guard/guard.go:171`, "Failures are counted in a rolling window", and `guard.go:26`, the
   limit is how many an address may present "before it is temporarily blocked": the window
   starts with a failure and the next one forgets it, so that a burst across the border
   of two is not banned (`MCGuardBurst.cfg`). It goes on to twice one failure less than the
   limit, and no further (`FailuresBounded`). The connections' window does roll.
5. `hub/enroll.go:236`, "Revoke cancels an outstanding code": the hub, comparing hashes for a
   wrong guess at that moment, saves its older copy with the code in it
   (`MCEnrollRevived.cfg`).
6. `hub/session.go:126`, the library "does not support concurrent writers": the agent's ping
   handler writes beside its writer (`MCAgentLinkWriters.cfg`). What becomes of the two frames is the
   library's affair and not modelled.
7. `api/api.go:156`, the player who gets the tell is to accept it: every request has the code
   "1234" (`registerdb/registerdb.go:160`), so that an answer is matched with whichever open
   request the map yields first, and binds that account to a character whose player did
   not accept (`MCRegistrationConsent.cfg`).

Others that were met while modelling. The models behave as the code does:

- `agent/echo.go:57`, "One suppression per injection": a line injected twice before its
  first echo has one cache entry, so that the second echo is published; `chat_relay`
  is about distinct lines (`DistinctLines`) for this reason.
- `agent/agent.go:546`: the test line's echo is relayed, because the line is remembered
  under a name with spaces and looked up without them.
- `hub/control.go:163`, a rename lands in the live session "immediately": not in one
  that has authenticated and is not registered yet.
- `guard/guard.go:203`, "Each repeat offence doubles the ban": the record is swept 20
  minutes after an offence, before the second ban of 30 minutes is over.
- `telnet/telnet.go:162`: a reader that ends before the flag is set leaves a link that
  counts as connected and reads nothing (`Deaf` in `SourceLink`).
- `hub/enroll.go:177`, "a code works exactly once", and `cmd_enroll.go:104`: a redemption that
  another process's save crosses can be undone in the same way, and the code
  accepted again.
- `hub/enroll.go:44`, "A code burns after a handful" of wrong guesses: the error of the save
  is dropped (line 215), and a charge that was not saved is lost with the hub, or with
  the next change another process saves.
- `registerdb/registerdb.go:125`: a save that fails half way leaves a file that cannot be
  decoded, and the next start fails.
- `api/register.go:101` says "2 minutes" of an entry that expires after 30 seconds.
- `api/api.go:114`, "To change your character after registering, simply repeat process":
  `userdb.Set` changes a copy for an account it knows.
- `userdb.save` writes TOML to a file that is read as lines unless its name ends in
  `.toml`: the default `.txt` is lost at the next start. `userdb.loop` returns at once,
  so the file is never reloaded.
- `enroll list` prints the first eight characters of an ID; `Revoke` wants all of it.
- The configuration's own comments say 0 disables a limit; 0 selects the default.
- `config.Migrate` renames the data files before it saves their new names, and its
  failure is a warning: that start opens files that are not there.

## 6. Not modelled, and the plan

In order:

1. Abstract specifications of the roster and of the code store, as atomic tables, with the
   refinement while writers do not overlap.
2. `Limiter` in `Guard`: the token bucket of a session, and the three selects of
   `Session.Send` and `Agent.enqueue` as steps of their own.
3. The reload loop of `guilddb`, and the agent's setup wizard as a writer of its file.

Left out for good: encodings around library calls (`relay/token.go`, `relay/joincode.go`),
triggers and templates that turn lines into chat, the dialogue of the wizards, service
installation, certificate creation and logging, which have no concurrent state; the
log and query sources, which only read; what Discord's library does between its
callbacks; and the gap between two renames within one tick of the file system's clock.
