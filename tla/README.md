# A TLA+ verification of noide-server

noide-server is the back end of a browser IDE: one process that serves terminal
sessions, agent chats, files, git and port forwards over one websocket per
client, and starts companion programs (code-vault, canvas-lab, http-request,
file-manager, port-forward) that are binaries of the same repository. This
directory holds TLA+ models of the parts of it that have state and
interleavings, TLC configurations that check them on small instances, and TLAPS
proofs of what matters most for all instances. `PROJECT.json` is the index: the
components, the runs, the source lines behind every definition, the hazards and
the properties that watch them, the mutants that show each property can fail,
and the theorems.

Paths below are relative to the repository; `ws` is `server/src/ws_server.rs`,
`pty` is `server/src/pty.rs`.

## 1. The system

| Part | State it keeps | Operations | Talks to |
|---|---|---|---|
| **Terminal session** (`pty`) | ring of the last 256 KiB with true offsets, `exited`, `detached_at`, one subscriber, bounded feed | spawn, subscribe, unsubscribe, write, resize, kill, sweep | reader thread -> feed channel -> stream task -> subscriber channel; control channel from the manager |
| **Manager** (`pty`) | map from session id to session, one mutex for all calls | as above, kill_all | connections, the reaper's tick, the Ctrl+C handler |
| **Connection** (ws 568-915) | out queue, idle clock, the set `subscribed`, statistics | one task per request, binary input frames in the reader loop, close | writer task, subscriber tasks, manager |
| **Subscriber task** (ws 229-350) | the pending batch, its timer | batch, compress, push, tell of the exit | session's channel, connection's out queue |
| **Chat runs** (ws 1262-1677) | process map, set of cancelled ids, process tracker, shared by all connections | run, cancel, stop on close, kill_all | agent CLIs or agent servers |
| **Agent servers** (`server/src/agent_servers.rs`) | map from agent to server handle, work directories | ensure_server, shutdown | chat runs, process tracker |
| **Companion apps** (ws 386-484, 2171-3189) | for each app a child and a port, under a lock each | start, stop, status, relay | the app's process, its HTTP port |
| **Port forwards** (ws 352-384, 1789-1956; `port-forward/`) | table of children; in the binary: url_found, the tunnel program | start, stop, stop_all, command line mode, web mode | two pipe readers and a waiter per forward, events to the client |
| **Start and end** (`server/src/main.rs`) | the flag of the Ctrl+C handler | handler, loop of the listener | all tables above |
| **http-request** | SQLite tables of folders and requests | CRUD, import, export, OpenAPI import, send | other processes on the same database |
| **canvas-lab** | document in memory and in a file | GET, PUT, load | - |
| **code-vault** | SQLite table of snippets | create, get, list, update, delete, import, two exports | other processes on the same file |
| **Attachments** (`commands.rs` 1639-1692) | files in the temporary directory | write them, remove them | chat runs, agent CLIs |
| **Own tunnel** (`cloudflare.rs`) | `~/.noide/cloudflared` | look up, download, spawn | other servers of the user |
| **file-manager, file commands** | none of their own: the file tree | create, write, rename, copy, delete, upload | each other, through the tree |
| git, search, run, install, pairing, authentication | none between requests | - | programs of the host |

What is hard about them:

- **Everything of one connection overlaps.** Each request runs in a task of its
  own (ws 738-746), so two requests of one client, and a request and the close
  of its connection, interleave between any two locks.
- **Two locks where one fact is.** Child and port of a companion, look-up and
  insert of an agent server, cancel mark and process entry of a chat, the
  subscription and the `subscribed` set: each is two steps.
- **Bounded channels in a chain.** Shell, reader, feed, stream task, subscriber
  channel, batch, out queue, socket: backpressure is by design, and a wait under
  a lock is therefore a wait for a browser.
- **A session outlives its clients.** It must neither be reaped under a client
  nor leak once nobody wants it; the clock that decides is set by four events.
- **Processes.** Children exit, stay mute, close their output and live on, start
  children of their own, or are left when the server is killed.
- **Check, then act** on files and databases that others use as well.

## 2. The modules

| Module | Models | Kind |
|---|---|---|
| `TerminalStream` | what an attached client is promised: one gapless run of bytes, exit last | abstract |
| `SessionControl` | what connections and a session may do to each other: spawn, attach, detach, take-over, exit, reaping | abstract, the contract between two components |
| `PtySession` | one session, pty 40-518 | detailed; implements both of the above |
| `PtyInput` | write, write_binary and kill under the manager lock; workers of the runtime, tty buffers, the reader thread and the lock of the child | detailed |
| `PtyConnections` | pty_* requests, close, reaper | composes sessions (as `SessionControl`) with connections |
| `OutputFrames` | subscriber tasks and frames | implements `TerminalStream` end to end for the browser |
| `ConnectionLife` | reader loop, idle clock, pings, writer task | timed with ticks |
| `ChatStreams` | chat_stream, chat_cancel, close, tracker | detailed |
| `AgentServers` | ensure_server and shutdown | detailed |
| `Attachments` | the temporary files of a request's attachments, for CLIs and for nio | detailed |
| `CompanionApp` | four copies of start/stop/status; the rigid variable `app` says which | detailed |
| `PortForward` | server side and command line mode of the binary | composition |
| `TunnelUi` | web interface of the port-forward binary: GET, POST and stop over the tunnel task, its readers and the channel | detailed |
| `Shutdown` | the Ctrl+C handler against the rest | composition |
| `HttpStore` | the database of http-request, statement by statement | detailed |
| `SampleBody` | sample bodies of JSON schemas | algorithm as a stack machine over a graph of schemas |
| `CanvasDocument` | canvas-lab | detailed |
| `CodeVault` | the snippets of code-vault, statement by statement, with several processes on the file | detailed |
| `OwnTunnel` | the download of cloudflared, with kills between any two steps | detailed |
| `Files` | the file tree and the library's operations on it | operators |
| `FileOps` | file commands, file-manager | detailed |
| `MC_PtySession` | small instances: symmetry, what clients ask for | for TLC |
| `MC_Connections` | PtyConnections in any order, and with clients that take turns (`turns`) | for TLC |
| `MC_ChatStreams` | ChatStreams, AgentServers (with a history variable `overlapped`) and Attachments, one of them in each behaviour | for TLC |
| `MC_CompanionApp` | CompanionApp with a history variable `overlapped` | for TLC |
| `MC_Teardown` | PortForward, Shutdown and TunnelUi, one of them in each behaviour | for TLC |
| `MC_Stores` | HttpStore, SampleBody, FileOps, CanvasDocument, CodeVault and OwnTunnel, one of them in each behaviour | for TLC |
| `PtySessionProofs`, `PtyConnectionsProofs`, `OutputFramesProofs`, `ConnectionLifeProofs`, `CompanionAppProofs` | theorems about the module, or about its MC module | TLAPS |
| `ChatStreamsProofs`, `PortForwardProofs`, `StoresProofs` | theorems about all parts of MC_ChatStreams, about PortForward and Shutdown, about all parts of MC_Stores | TLAPS |

Names follow the source where they can. Actions are the code between two points
at which another task can run: between two awaits or two locks. A handler that
holds one lock throughout is one action.

### How the state corresponds to the code

**PtySession.** `feed`, `ctrl`, `chan[a]` are the channels, with capacities
FEED_CAP (256 in the code, unbounded for `ctrl`) and SUB_CAP; `ring`,
`ringStart`, `total`, `exited`, `detachedAt` are `SessionState`; `hand` is the
message a task has taken and still has to pass on, which is where a bounded send
waits. A byte is a number: its true offset in the output, so that an offset the
code computed wrongly is seen at once. The stream task's `select!` is biased: it
polls `ctrl` first and then `feed`; a message may arrive between the two polls
(`PollFeed`). `session` says what became of the entry of the map: live, killing
(waiting for the child lock), killed, swept or replaced. An abort takes effect
where the task next waits (`AbortTakesEffect`).

**SessionControl and PtyConnections.** The connections see of a session whether
it is live, its control queue, its subscriber, `detached_at` in three steps
(none, recent, expired) and `exited`. `KeepsContract` of the run Session shows
that PtySession steps only as SessionControl says; `KeepsContract` of the run
Connections shows that PtyConnections uses, and advances, its sessions only in
that way. So the two models fit together though TLC never runs them in one state
space.

**ChatStreams.** `RidOf` maps runs to request ids, which need not be distinct;
properties that hold only of distinct ones say so. `holder` is who has the lock
of the cancelled set from the look to the insert (ws 1544-1557).

**CompanionApp.** A start is spawn, wait for the port line, store child, store
port, and for two of the four a loop that probes the port. `kill_on_drop` is
what happens to a child whose start fails.

**Shutdown.** `aborts` is the build: release builds have `panic = "abort"`, in
which a panic ends the process; in debug builds it ends a thread and poisons the
mutexes the thread holds. A call under the manager lock need not end. The
handler kills session by session: `victim` is the one it has taken out of the
table, and it waits for the lock of that child. A shell is "closed" when it has
closed its terminal and lives on, for then the reader thread has that lock, and
"left" when its session was replaced by a spawn under the same id.

**ConnectionLife.** Time is a tick; a tick passes only when the server's tasks
have nothing to do, and a living peer handles a message every LAG ticks. The
reader loop has a state for each of its waits: for a message ("wait"), for room
in the queue with an answer of its own ("pong", "reply"), and for the manager
lock and the terminal with a binary input frame ("input"), which may last for
ever; `blocked` counts those ticks.

**AgentServers.** kill_all sends SIGTERM (`signalled`) and forgets the pids; a
server dies of it or not. A boot that gives up starts `kill -9` ("condemned").

**CanvasDocument.** A PUT is checked, has opened (and so truncated) the file, has
written it, is saved. Its state also says where it ended if it did before:
unwritten, or torn or cut by a kill.

**PtyInput.** A call is "lock" while it waits for the mutex of the manager and
"write" while it has it; in both it occupies a worker, as the code calls a
blocking function from an async task. `reader` is "waits" from the end of the
output to the exit of the child: that is how long the reader thread has the lock
of the child, and a kill, which has the manager's, waits for it.

**Attachments.** A path is what the code makes it from: for CLIs the index and
the name, for nio the clock and the index; the process id is the server's and
the same in all. The content of a file is the run whose text it is.

**CodeVault.** The content of a column is the call that wrote it last, so a row
shows which updates it consists of; `born` is the call that inserted it, and
`aim` whom its client saw under the id. A process has one connection behind a
lock; a statement commits by itself.

**OwnTunnel.** Files are numbered, names refer to them (a rename leaves an open
file open), and a file is the set of the parts written to it.

**TunnelUi.** The channel of a request, and who holds a sender of it (`Senders`):
the tunnel task, whose two readers it outlives, and in a POST also the handler.
A receiver that is dropped empties the channel and makes sends void.

**Parts.** In MC_ChatStreams, MC_Teardown and MC_Stores components that share
nothing are checked in one run: a variable `part`, which no step changes, says
which of them a behaviour is about, and the others stay in one of their initial
states. The state space is the sum of those of the parts.

## 3. Runs

| Run | Module | Properties | Distinct states |
|---|---|---|---|
| Session | MC_PtySession | SessionInv, Gapless, AttachedIsNotReaped, KeepsPromise, KeepsContract | 4.6 M |
| SessionLive | MC_PtySession | AttachIsServed, StreamsEnd | 455 k |
| Connections | MC_Connections | ConnectionsInv, CloseSparesOthers, KeepsContract, AbandonedIsReaped | 598 k |
| Output | OutputFrames | FramesInv, KeepsPromise, OutputArrives | 303 k |
| Life | ConnectionLife | LifeInv, SilentPeerIsDropped | 2.7 M |
| Input | PtyInput | CallsReturn | 61 k |
| Chat | MC_ChatStreams | TablesInv, Addressable, ServersInv, OneServerInTurn, AttachmentsInv, CancelIsHeeded, EnsureReturns | 635 k |
| ChatOthers | MC_ChatStreams | OnlyOwnRunsAreStopped, which is violated | |
| AttachmentNames | MC_ChatStreams | AgentFindsItsFiles, which is violated | |
| Companion | MC_CompanionApp | AppsInv, AgreeInTurn, CallsReturn | 576 k |
| Stores | MC_Stores | SavedInv, SamplesInv, FilesInv, CanvasInv, VaultInv, TunnelInv, SampleEnds, CopyIsWhole | 2.0 M |
| Teardown | MC_Teardown | ForwardsInv, ShutdownInv, ForwardsEnd, CtrlCIsServed, UiEnds | 211 k |

What they show:

- **Session.** Two clients attach to one session, take it from each other,
  detach, lose their links, ask to resume from where they were; meanwhile the
  shell prints, exits, is killed, swept or replaced. `Gapless`: nothing that is
  on its way to a client is lost, repeated, mislabelled or behind an exit, and a
  replay starts where it was asked to unless the ring has moved on. `SessionInv`:
  the ring is the tail of the output. `AttachedIsNotReaped`: no detach clock runs
  under a client. `KeepsPromise` and `KeepsContract` are the two refinements.
- **SessionLive.** `AttachIsServed`: a client that stopped reading, or vanished,
  does not keep the next one from being served. `StreamsEnd`: once the shell is
  over every stream ends.
- **Connections.** `ConnectionsInv`: what streams to a connection is in its
  `subscribed`, so that its close finds it. `CloseSparesOthers`: when clients take
  turns (a request is sent when the last one is done and no other open connection
  has the session) nobody is left with a stale entry in `subscribed`, whose close
  would end the output of the session's next owner; the steps in which that does
  happen are in the other half of the run. `AbandonedIsReaped`: once all
  connections are gone the shell goes too, unless an attach was carried out after
  its connection had drained `subscribed`.
- **Output.** `FramesInv`: batching never puts a byte under a wrong offset.
  `KeepsPromise`: what a session promises its client holds up to the browser.
- **Life.** `LifeInv`: a peer that reads on is never dropped as idle, unless input
  it sent has kept the reader loop for the whole of the idle limit.
  `SilentPeerIsDropped`: one that vanished is dropped, although the writer keeps
  touching the clock, unless its last input keeps the loop for ever.
- **Input.** `CallsReturn`: writes that block under the manager's lock return,
  and so do kills that wait under it for the reader thread, and every call behind
  them, if there is a worker to spare for the output, clients come back, and no
  shell lives on after closing its terminal.
- **Chat.** `TablesInv`: the process map, the marks of cancels and the tracker
  agree with the processes. `Addressable`: a run that goes on can be stopped.
  `CancelIsHeeded`: whichever step it meets, unless the setup of the run never
  ends. `ServersInv`, `OneServerInTurn` and
  `EnsureReturns`: an agent server that runs is tracked, or was sent SIGTERM by
  the shutdown; one call after the other never makes two; and a call returns
  unless its server is mute. `AttachmentsInv`: an
  agent finds its files as they were sent if no other request under way had a
  path in common with its own; and a file is left behind only by a request that
  failed half way.
- **Companion.** Processes are never lost, whatever overlaps; what the state says
  is right (`AgreeInTurn`) as long as calls have come one after the other, which
  `overlapped` remembers.
- **Teardown.** `ForwardsInv`: a running forward is listed, and its client is not
  told two outcomes. `ForwardsEnd`: the lock of the table is given back, and the
  client is told something when the binary has ended. `ShutdownInv`: when the
  Ctrl+C handler is past the kills it has reached what was there, also with a
  poisoned lock. `CtrlCIsServed`: it gets past them, unless a call never lets go
  of the manager lock or a shell lives on without its terminal.
  `UiEnds`: an event stream ends with its tunnel task, and a posted forward is
  answered once its program has printed a URL or an error.
- **Stores.** `SavedInv`: no saved request is hidden in a database with the
  foreign key, whatever two processes do; and with one process an import has put
  what it has come to where it belongs, when it answers and wherever it gives up.
  `SamplesInv`, `SampleEnds`: samples are complete, and they end if and only if no
  schema they lead to leads back to itself. `FilesInv`, `CopyIsWhole`: with calls
  one after the other nothing is lost, and a copy is whole unless its target is
  its source or above it. `CanvasInv`: with PUTs one after the other, also when
  writes fail, connections go and the process is killed, a document that was
  answered as saved is what a restart reads until the next PUT opens the file;
  from there until that PUT has written the file has none, so a kill, or a failed
  write, loses what readers had; and but for a failed write and a lost connection
  readers have what is in the file. `VaultInv`: with any number of processes a
  late request finds the
  snippet its client saw or none; with one in which nothing fails a handler is one
  step for all others. `TunnelInv`: what a start finds as cloudflared is whole
  and can be run, whenever the start that fetched it was killed, as long as no
  two servers fetch at once (and but for a kill just before the chmod, which no
  later start makes up for).

Histories (`part = "one process"`, `calm`, `alone`, `apart`, `clash`, `turns`,
`overlapped`) bound the statements that need a client, a process or a name to
itself; the steps without it are in the same runs.

`CHECK_DEADLOCK FALSE` is set in each of them: the instances are finite, every
session ends and every call is made once, so all of them come to rest. What must
not come to rest early is stated as liveness.

Every property of a passing run has a mutant in `PROJECT.json`: a definition with
a plausible bug (a dropped guard, a swapped order, a missing reset) under which
TLC finds that property violated. The mutated definitions stand just before the
ones they would replace, for instance `TakeKeepsClock` before `Take`.

### Bounds and why they are enough

Capacities are constants, and the runs use the smallest at which full, empty and
partly full differ; code and models treat them uniformly.

- PtySession: MaxBytes bounds the output (bytes are numbered), MaxCtrl the
  control messages in flight. In Session the ring holds 2 of 3 bytes and a read
  returns up to 2, so the ring wraps and a chunk may be cut. Two attaches are
  enough for a take-over while a replay waits; the third would be the second's
  second. SessionLive has a ring of one byte and two bytes of output, which wraps
  as well.
- PtyConnections: two connections are an old and a new owner, two requests a
  pair that races, on a session that an earlier connection may have left behind;
  two sessions are a kill and a respawn under one id. The third request is for
  taking turns: attach, give up, and the attach of the other.
- OutputFrames: FRAME_MAX 3 with chunks of up to 2 passes it from below and hits
  it; GZIP_MIN 2 separates both forms.
- ConnectionLife: IDLE, PING, LAG are in ticks and satisfy the named assumption
  PING + (PASS + SOCK + 2) * LAG < IDLE and LAG < PING, as 300 s, 20 s and a peer
  that handles a message in a few seconds do. INBOX 2 lets an input frame and a
  pong wait behind each other. With a slower peer LivePeerIsKept is false and
  should be.
- PtyInput: WORKERS is one more than the calls that can block; MaxInput is more
  than what the tty holds, so that writes do block; MIN_PAYLOAD (4 in the code) is
  2, so that there are frames on both sides of it. One terminal with three calls
  is a write that is stuck, a kill, and a call behind them.
- ChatStreams: two runs and two connections, one cancel: each table can hold an
  entry of somebody else.
- Attachments: two runs with lists of up to three attachments of one name (so
  that names clash), of every kind, two readings of the clock, and nio takes two.
- CompanionApp: PROBES (50 in the code) is 1; AgentServers: BANNER (40 lines) is
  2; both loops only count. Three calls are one that has left something behind
  and two that race, and no more than two race (OVERLAP).
- PortForward: two forwards share the lock of the table; one of them finds no
  tunnel program. Shutdown: two shells, one chat run, two connections: one victim
  and one behind it, a replaced shell and its successor, and a call that holds the
  lock while another waits.
- TunnelUi: one request with two lines on each pipe and room for one in the
  channel: both readers wait for room, and a URL is printed twice, once on each.
  Requests share `active` only, in which nothing is ever stored.
- HttpStore: MAX_FOLDERS and MAX_REQUESTS bound the ids handed out; two names
  and one item allow a clash of names and of contents. Two processes have
  MAX_SHARED = 1 request between them, which each can move, delete or import
  around; the theorem has no such limit.
- SampleBody: all documents of three schemas, with cycles or without. DEPTH 4 is one
  more than the schemas: a stack that deep has one of them twice.
- FileOps: paths of up to PATH_MAX names of two; the tree has an empty and a
  full directory, so each refusal and each branch of the recursion is met. Three
  calls, of which the third comes alone.
- CanvasDocument: a short and a long document, so that one written over the
  other leaves bytes of it; three PUTs.
- CodeVault: two columns are the least that an update can leave half done; three
  requests of one process (a reader behind two writers), or two of two; three ids.
- OwnTunnel: a download of two writes, two servers, four starts: one killed half
  way, one that finishes, and two that find what is there.

## 4. Fairness

Fairness is assumed of what the code runs by itself and of nothing else.

- Threads and tasks that can run do run: weak fairness of the reader thread, the
  stream task, subscriber tasks, handlers, pipe readers, waiters.
- Strong fairness of `PollFeed` in PtySession: the task polls its feed again and
  again, and control messages, which come first, are rare but may come between
  any two polls. Without it a client that attaches and detaches for ever would
  starve the output, which the code allows; the model bounds control messages,
  and the strong form says that they do not come at each single poll.
- An attached client either reads or its link is lost: WF(Receive \/ LinkLost).
  No client is assumed to read for ever.
- Time passes (`DetachExpires`, `Expire`), and the reaper ticks.
- Nothing is assumed of shells, agents, apps and tunnel programs. EnsureReturns
  therefore has the exception `[]Mute(c)`: a server that lives and prints nothing
  more keeps its call. A chat run may stay in its setup, which may wait for such a
  server (ws 1398): only what it does after the setup is fair, and CancelIsHeeded
  has the exception `[](run[r] = "setup")`.
- In ConnectionLife a link that is broken is found to be (`LinkBreaks`), and the
  clock ticks. That a write to a terminal returns (`InputReturns`) is not assumed.
- Locks: strong fairness of the Ctrl+C handler's step for the manager lock, and in
  PtyInput of each call's, as far as the lock is free again and again. In Shutdown
  nothing is assumed of the calls that have it, nor of shells, so CtrlCIsServed has
  the exception `[]Blocked`. In PtyInput a shell reads what it is sent unless its output is stopped,
  and output is carried when a worker is free, with strong fairness as workers
  come and go; that a shell ends is not assumed, so CallsReturn has the exception
  `[]Hung`: a reader thread that waits for ever for a shell without a terminal.
- PortForward and TunnelUi: the server's and the binary's tasks run (weak
  fairness) and a SIGKILL arrives; a tunnel program need neither print nor end.

That a client waits for each answer is no fairness, and nothing the code enforces,
though comments take it for granted ("serialized single-user chat panel").
Properties that hold only then are guarded by a history variable (`overlapped`,
`calm`), and the steps without it are in the same runs.

## 5. Proofs

All theorems are checked by TLAPS for every value of the constants that meets the
named assumptions. They state every invariant, every action property and every
refinement that the runs check; the runs show the same on small instances.

| Theorem | Says | Inductive invariant |
|---|---|---|
| `PtySessionProofs!TypeCorrect` | types of ring, channels, offsets, subscribers | TypeOK with `TaskShape`: at which program point the stream task holds what |
| `PtySessionProofs!RingCorrect` | []SessionInv: the ring is the last bytes taken in, with true offsets, whatever RING_CAP and chunk sizes are | `RingInv`: RingIsTail, `ChunkInHand` (the reader holds bytes only while it sends), and, as long as the stream task is there, `FeedContinues`: feed and chunk go on where the ring ends |
| `PtySessionProofs!NoClientIsReaped` | []AttachedIsNotReaped | it is inductive by itself |
| `PtySessionProofs!NoByteLostOrRepeated` | []Gapless | `GaplessInv`: for each attach, the messages in its channel and in the task's hand are chained from the last byte seen (`Continues`) to the end of the ring (`UpToDate`); it waits in one control message at most (`Waits`), and a replay is its first message (`Replays`) |
| `PtySessionProofs!StreamKeepsPromise` | KeepsPromise: PtySession implements TerminalStream | `PromiseInv`: the end of file is last in the feed, an exit comes after the last byte and no byte is made up; then step by step |
| `PtySessionProofs!SessionKeepsContract` | KeepsContract: PtySession implements SessionControl | `ContractInv`: only a session that is over is aborted or says goodbye |
| `PtyConnectionsProofs!ServedConnectionsAreListed` | []ConnectionsInv for any number of connections, requests and sessions | adds `QueuedIsListed` (who waits in a control queue is listed, or has its detach behind it there), `StreamsAttached`, `UnbornIsQuiet` and `KindFits` |
| `PtyConnectionsProofs!ConnectionsKeepContract` | KeepsContract: what the connections do to each session is a step of SessionControl | adds `StreamsServed`: a stream belongs to the session it was attached to |
| `PtyConnectionsProofs!ClosesSpareOthers` | []CloseSparesOthers for any number of connections that take turns | `TurnsInv`: one request at a time; an open connection that is listed has the session; where one stream follows another the connection is the same or has gone |
| `OutputFramesProofs!FramesAreKept` | []FramesInv for every size of chunk, batch, frame and queue | `FramesKept`: what is in the channel, the batch, the hand and the queue are runs of the output, each under its offset |
| `OutputFramesProofs!FramesKeepPromise` | KeepsPromise: OutputFrames implements TerminalStream | adds `StreamKept`: queue, hand, batch and channel each go on where the stage before ends |
| `ConnectionLifeProofs!LivePeersAreKept` | []LifeInv for every idle limit, interval and queue, however long input keeps the reader loop | `LifeKept`: while nothing waits to be read, a ping is so close (`PingComes`, in ticks a live peer takes to read what is ahead of it) that its pong is in time; and while input keeps the reader loop the clock is not ahead of `blocked` |
| `ChatStreamsProofs!TablesAgree` | []TablesInv (TypeOK, MarkOrProcess, TrackedOrStopped, ListedIsUnderway) for any number of runs, cancels and connections | adds `CheckedIsUnmarked` (the lock holder that looked still finds no mark) and `FoundIsRun` |
| `ChatStreamsProofs!RunsCanBeStopped` | []Addressable, if ids are distinct | TablesAgree's, with `OpenDrainsNothing`: a connection drains once, when it closes |
| `ChatStreamsProofs!ServersAreTracked` | []ServersInv (TypeOK, ShutdownReachesServers, ListedHasItsDirectory) for any number of calls, also when servers ignore SIGTERM | adds `OwnBoot`: what a call boots is its own |
| `ChatStreamsProofs!OneServerAtATime` | []OneServerInTurn | `CallsInTurn`: a server that serves is the one in the table, and the call that looked found none |
| `ChatStreamsProofs!AttachmentsAreKept` | []AttachmentsInv for any lists, names and clocks | `AttInv`: runs with a path in common know of each other (`ClashMarks`), and the others find what they wrote (`FilesKept`) |
| `CompanionAppProofs!AppsAreTracked` | []AppsInv (TypeOK, NoStrayApp, PortIsOfTheChild) for any number of starts and stops and all four copies | adds `Fresh`: a start that has not spawned yet has no process and no port |
| `CompanionAppProofs!PortAgreesInTurn` | []AgreeInTurn | `InTurn`: the one command under way is between the two assignments, or child and port agree |
| `PortForwardProofs!ForwardsCanBeStopped` | []ForwardsInv (TypeOK, RunningIsListed, OneOutcome) for any number of forwards | adds `UrlsAreFew`, `EndIsEnd` (a pipe read to its end stays empty) and `ToldIsKnown` |
| `PortForwardProofs!CtrlCSparesNone` | []ShutdownInv for any number of shells, runs and connections | `StopInv`: a living shell is in the table or the handler's victim, if its session was not replaced (`ShellIsListed`), and what was there when the handler woke up stays known until its turn (`BeforeIsKnown`) |
| `StoresProofs!SavedIsWhole` | []SavedInv: nothing hidden, for any number of processes, documents and ids (MAX_SHARED is a constant); and with one process imports, at every step of theirs | `TablesOk`, `JobsOk`; with one process `OpenApiSoFar` (an operation is saved, is next, or its path is to come) and `ImportSoFar` (a copy is where its original's folder went) |
| `StoresProofs!SamplesAreComplete` | []SamplesInv for every graph of schemas, with cycles or without | `ChildrenFollow`: what a schema contains has been seen or is left on the stack |
| `StoresProofs!NothingIsLostUnasked` | []FilesInv for trees of any size, any names, paths and calls | `FilesKept`: the tree is one (`IsTree`); a command that looked still finds nothing where it is to write (`IsFree`), and neither does a copy for the entries it has left (`IsApart`) |
| `StoresProofs!CopiesAreWhole` | CopyIsWhole for trees of any size | `CopiesKept`: every directory a copy is in has its own at the target; all there was is copied or below an entry that is left (`CopiedSoFar`); and a copy to below its source has the way to its target still before it (`Endless`) |
| `StoresProofs!DocumentIsKept` | []CanvasInv for any number of PUTs and sizes of documents, one after the other | adds `FileIsKnown`: what file and memory are at each point of the last PUT |
| `StoresProofs!AHandlerIsOneStep` | []VaultInv for any number of requests, processes, columns and ids | `OneRuns`, `Unwritten`, `WasIsOlder`, `DoneSoFar`, `RowsAreWhole`: what each request has written when, as long as one process runs undisturbed |
| `StoresProofs!TunnelIsWhole` | []TunnelInv for any length of the download | `InHand`; and while no two are at it, `OneAtIt`: the temporary file holds what its writer has written, and is not the one at dest |

Each proof has a step per action, and below it one per conjunct the action can
disturb. Why the strengthenings are needed:

- RingIsTail alone says nothing about the bytes on their way: a chunk whose first
  byte is not the next one would break it. Gapless in turn needs to know, of each
  attach, where its stream is: not asked for, waiting, replayed or live, and that
  it never is two of these at once.
- ConnectionsInv is not inductive for a similar reason: whom a session serves next
  waits in its queue. CloseSparesOthers needs the whole history of taking turns.
- A refinement needs an invariant for what the abstract step takes for granted:
  that an exit is last (PromiseInv), that stages fit together (StreamKept).
- LifeInv speaks of one moment. The invariant adds up the ticks of all that is
  ahead of the next ping; this is where PING + (PASS + SOCK + 2) * LAG < IDLE
  comes in.
- In CodeVault the answers of the past have to be told from those to come:
  `Unwritten` says that nothing anywhere is from a request before it gets the lock.
- Copies rest on lemmas about paths and trees (`MovedTo`, `MkdirTree`, `WriteTree`,
  `RenameMoves`, `BelowAnEntry`): what is moved comes back, a tree stays one, and
  what is below a directory is below one of its entries.

The proofs corrected the models in one place: without a condition CopyIsWhole is
false on deeper trees than those of the run. `cp a/a .` has the target `./a`, a
directory above its source, and writes over `a/a/x` before it reads it, so that
copy is answered as done and not whole. The property now leaves out targets at or
above the source, as it left out `cp` of a file onto itself:
`file-manager/src/main.rs` 378-384 checks neither. The commands of the server
refuse a target that is there.

The assumptions are the named ones of the modules, and MC modules gather those of
their parts: capacities are positive, the values for "nobody" are none of the
names, documents have a size, the trees at the start are trees
(`FileOpsAssumption`), schemas are finitely many. `LifeAssumption` is the one that
says more: the idle limit leaves a ping its time (section 3).
`OVERLAP`, `DEPTH`, `MAX_SHARED` are constants of the MC modules, on which the
theorems assume nothing.

Only model-checked: all liveness (AttachIsServed, StreamsEnd, AbandonedIsReaped,
OutputArrives, SilentPeerIsDropped, both CallsReturn, CancelIsHeeded,
EnsureReturns, ForwardsEnd, CtrlCIsServed, UiEnds, SampleEnds), as fairness and
ENABLED are outside the prover's reach. PtyInput and TunnelUi have such properties
only. That a sample ends would in addition be an induction over schemas; that it
is complete is proved, as the walk is a machine with a stack.

## 6. Where documents and code part

Two disagreements have a run of their own:

- ChatOthers: a connection that closes drains the one map of chat processes and
  stops the runs of all connections (ws 869), where ws 836-838 says "kill any
  chat-stream subprocesses this client owned".
- AttachmentNames: the attachments of two requests for kilo or opencode have one
  name if they are called the same (`commands.rs` 1671: process id, index, name),
  so an agent reads the other's text, or finds no file once the first request to
  end has removed it; `commands.rs` 1668-1669 says "unique per process + index to
  avoid collisions across concurrent requests".

The models have the following steps too, as the code has them; the properties are
stated so that they hold with them.

Terminals:

- The `truncated` of an answer (pty 402) is computed before the replay; output in
  between can move the ring past the offset asked for (pty 34 says what the flag
  is for).
- A subscriber taken after the end of the shell gets no Exit (pty 290-312): it
  sees its channel close when the session is dropped.
- A kill is not always silent (pty 423-424): unless the abort gets in first, the
  task sees its control channel closed and sends an Exit.
- A kill waits for the lock of the child, with the manager locked, while the
  reader thread has it and waits for a child that closed its tty and lives on
  (pty 206-232).
- A spawn with an id in use drops the old session and not its shell (pty 316), so
  neither a kill nor Ctrl+C reaches that shell any more.
- The close of a connection detaches sessions that another one has taken over
  since (ws 844): when the link of an old connection breaks late, or requests of
  the two overlap, the stream of the newer one ends with it. Clients that take
  turns do not meet it (`CloseSparesOthers`).
- A failed send takes the subscriber away without starting the detach clock
  (pty 286), and an attach may be carried out after its connection has closed:
  such a session is not reaped.
- A detach and an attach of one client may be carried out in either order
  (ws 741).
- A write blocks with the manager locked until the shell reads (pty 340), so it
  delays requests for other sessions, and on one worker the stream task as well;
  ws 826 speaks of "the brief pty lock".
- A binary input frame with fewer than four bytes of payload, such as one
  keystroke, is dropped: its length is checked against 5 + 4 + sid_len (ws 804),
  where the layout of ws 783 has 5 + sid_len.

Frames and connections:

- A frame may be longer than FRAME_MAX by the chunk that was appended last, which
  for a replay is a ring (ws 326).
- When one connection attaches twice, output of the first task may follow the
  exit sent by the second (ws 335). `KeepsPromise` is about each stream.
- A short raw payload may begin with the gzip magic (ws 189).
- The idle timeout is computed before the wait (ws 690): data written meanwhile
  does not move it. A peer that answers pings does not meet it.
- The reader loop itself writes binary input, and waits for the manager lock to do
  so (ws 827). Meanwhile it reads no pong: a live peer whose input waits for 300 s
  while it is sent nothing is closed as idle afterwards ("a live terminal is never
  dropped", ws 643-656), and a peer that vanishes while its last input waits for
  ever is never dropped.

Chats, agents, apps, forwards:

- The close of a connection stops its runs, so no run is left to be stopped over
  its replacement (ws 499-501).
- Runs without a requestId share ids across connections (ws 1274).
- A stop between the two assignments of a start leaves a port without a child
  (ws 2361); `start` and `status` report a dead child as running (ws 2774).
- Two calls that find no agent server boot two (`agent_servers.rs` 91); a server
  that prints nothing keeps its call (188), and the chat run that waits for it
  (ws 1398), which then never heeds a cancel.
- Ctrl+C sends agents and agent servers a SIGTERM and forgets their pids (ws 66-74):
  one that ignores it lives on and is not tracked.
- A chat child that is spawned and not registered yet is out of Ctrl+C's reach
  (ws 1512-1520).
- The URL line a forward prints at its end is passed on as one that is ready
  (ws 1880); a stop kills the binary and not the tunnel program it runs (ws 369).
- In the web interface of port-forward nothing is ever stored in `active`, so
  POST /api/stop answers "stopped" and stops nothing (`port-forward/src/main.rs`
  278), and the tunnel of an event stream lives on when its client goes. A posted
  forward holds a sender of the channel it reads (190-218): if its tunnel cannot
  be started, or ends without a URL or an error, the request waits for ever.
- The Ctrl+C handler may wait for ever: for the manager lock, while a write has it
  (pty 340), or for the lock of a child that lives on without its terminal
  (pty 232, 481). If it gets past its kills it calls `tokio::spawn` outside of the
  runtime (`main.rs` 209) and panics: a release build aborts, a debug build runs
  on. The graceful end that `main.rs` 212-214 and 274-283 speak of does not come
  either way. SIGTERM has its default action.

Stores:

- In a database from before the foreign key a request may name no folder and is
  in no list (`http-request/src/main.rs` 395); folders without requests stay in
  the list (415); a null folder of an update is read as an absent one (63).
- A request that a second process files between the two statements of a delete
  stays, ungrouped (325).
- An import looks a tag's folder up with `.ok()` (617-623): a query that fails makes
  a second folder of the name.
- An import that fails half way leaves what it has saved so far (627).
- The first variant of an allOf, oneOf or anyOf is not resolved (945), and a
  schema that contains itself is sampled without end, until the stack of the
  program is used up (863).
- A PUT of canvas-lab truncates the file before it writes it (58): a kill in
  between, or a write that fails, loses the document readers had, and a restart
  finds none. When the connection of a PUT goes, the file may have its document
  and readers the old one.
- Overlapping PUTs of canvas-lab may leave one document in the file and the other
  in memory, or bytes of both in the file (`canvas-lab/src/main.rs` 58).
- create, rename and copy look and then act (`commands.rs` 680); a copy of a
  directory into itself goes on until the path is too long (710); `cp` of a file
  onto itself truncates it (`file-manager/src/main.rs` 400), and `cp` of a path
  into a directory above it may write over what it has not read yet (378).
- An attachment that cannot be decoded or written leaves those before it in the
  temporary directory (`commands.rs` 1671-1692); nio's are removed, and with them
  a file of the same path that another request may have.
- With two processes on its file, or after a failed statement, code-vault shows
  half an update (`code-vault/src/main.rs` 167), as its export of the file may
  with one.
- A server killed between the rename and the chmod leaves a cloudflared that
  cannot be run, and no start repairs it (`cloudflare.rs` 109-118); two servers
  that download at once write one temporary file.

Beside the models:

- `PROTOCOL.md:89-98` says that the close of a connection reaps every session
  and that the idle time is 60 s; the code detaches, and waits 300 s.
- `README.md:405,418` names the provider `cloudflare`, the code `trycloudflare`
  (`port-forward/src/tunnel.rs:17`).
- The upload of file-manager answers when its last block has been handed to the
  file and not when it is written (`file-manager/src/main.rs` 599).
- The API tables of code-vault and file-manager in `README.md` name routes and
  formats the programs do not have.
- The OpenAPI import reads `tags` of a path item (`http-request/src/main.rs:600-612`);
  they belong to operations, so nearly everything lands in the title's folder.

## 7. Not modelled

| Part | Why |
|---|---|
| git, search, run, install, list, stat, read | one program or one read each, no state between requests |
| extract_zip, the upload of file-manager | sequences of writes like those of FileOps |
| /send of http-request, relays to companions | stateless |
| prompts and command lines of agents, NIO chat | text |
| pairing, authentication, statistics | pure, or display |
| reuse of process ids by the system | the code gives no bound; a kill by group id after the exit (ws 3197, pty 428) may reach another group |
| resize | passes numbers to the tty |

## 8. Plan

Done, in this order: PtySession with both abstractions, PtyConnections, chats,
companions, agent servers, frames and connections, input, port forwards,
shutdown, http-request, canvas-lab, files; then attachments, code-vault, the
server's own tunnel, the web interface of port-forward, kills in PtyInput and
turns in MC_Connections; then the proofs, of every invariant, action property and
refinement the runs check.

Next modules: the upload of file-manager as an action of FileOps whose answer
precedes its last write; extract_zip; a removal of directories that is a
recursion, as copies are.

Next properties: what an attach that is carried out after its connection has
closed, and two runs under one number, may still promise; both are faults that the
models show and the present properties except (section 6).

Next proofs:

1. PtyInput: that a call which waits for the manager has one before it that
   waits for the shell, the reader or the child, the safety half of CallsReturn.
   TunnelUi: that a request without an answer has a sender left.
2. What `calm` hides: which contents overlapping calls of FileOps can lose.
3. The types of the MC modules' histories as theorems of their own, so that the
   parts of MC_ChatStreams and MC_Teardown are proved from one invariant.
