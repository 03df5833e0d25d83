----------------------------- MODULE PtySession -----------------------------
(***************************************************************************)
(* One terminal session of the server (server/src/pty.rs).                 *)
(*                                                                         *)
(*   shell -> reader thread -> feed -> stream task -> channel -> client    *)
(*                                        |  ^                             *)
(*                                      ring ctrl <- manager calls         *)
(*                                                                         *)
(* The reader thread moves what the shell writes into the bounded feed.    *)
(* The stream task keeps the newest bytes in the ring and forwards them to *)
(* at most one subscriber over that subscriber's bounded channel.  Manager *)
(* calls (attach, detach, kill, sweep) run under the manager's lock and    *)
(* reach the stream task through ctrl, or abort it.                        *)
(*                                                                         *)
(* Bytes are numbered in the order in which the reader got them, so a byte *)
(* IS its true offset in the stream; the offsets the code computes are     *)
(* kept beside the bytes and can be wrong.                                 *)
(***************************************************************************)
EXTENDS Integers, Sequences

CONSTANTS
  Attach,    \* attach calls; each one makes a channel of its own
  NoSub,     \* no subscriber
  RING_CAP, FEED_CAP, SUB_CAP,
  READ_MAX,  \* most bytes one read() returns (4096 in the code)
  MaxBytes,  \* bound: bytes the shell produces over the session's life
  MaxCtrl,   \* bound: control messages the stream task has not taken yet
  Asked      \* offsets attach calls ask for; Unset asks for all there is

ASSUME ConstantsAssumption ==
  /\ NoSub \notin Attach
  /\ {RING_CAP, FEED_CAP, SUB_CAP, READ_MAX} \subseteq Nat \ {0}
  /\ {MaxBytes, MaxCtrl} \subseteq Nat
  /\ Asked \subseteq 0..MaxBytes \cup {-1}

VARIABLES
  child,      \* the shell: "running", "mute" (closed its tty, lives), "dead"
  reader,     \* reader thread: "read", "send", "wait", "sendEof", "done"
  chunk,      \* the bytes the reader thread wants to send
  read,       \* how many bytes it has read: the number of the next byte
  feed,       \* bounded channel reader -> stream task
  ring, ringStart, total, exited,
  detachedAt, \* "none", "recent", "expired" (longer ago than max_detached)
  ctrl,       \* unbounded channel manager -> stream task
  task,       \* stream task: "ctrl" and "feed" (the two polls of its biased
              \* select), "send" (awaiting a channel), "gone"
  sub,        \* its subscriber
  hand,       \* the message it is sending
  aborted,    \* abort() was called while the task was running a poll
  session,    \* "live" (in the map), "killing" (out of the map, kill_session
              \* under way and the manager's lock held), then dropped because
              \* it was "killed", "swept" (after its exit) or "replaced"
  chan,       \* bounded channel stream task -> client, one for each attach
  rx,         \* its receiver: "unused", "open", "exited" or "told" (pty-exit with
              \* and without a code), "ended" (no pty-exit), "lost" (link gone)
  info,       \* the AttachInfo returned to the caller
  seen, got   \* client: offset past the last byte received, bytes received

readerVars == <<reader, chunk, read>>
stateVars  == <<ring, ringStart, total, exited, detachedAt>>
taskVars   == <<task, sub, hand, aborted>>
clientVars == <<rx, info, seen, got>>
vars == <<child, readerVars, feed, stateVars, ctrl, taskVars, session, chan,
          clientVars>>

-----------------------------------------------------------------------------
Unset == -1

Bytes == Seq(Nat)

Data(bytes) == [kind |-> "data", bytes |-> bytes]
Eof         == [kind |-> "eof", bytes |-> <<>>]

OutMsg(from, bytes) == [kind |-> "out", from |-> from, data |-> bytes]
ExitMsg(code)       == [kind |-> code, from |-> 0, data |-> <<>>]
Item == [kind : {"data"}, bytes : Bytes] \cup {Eof}
Msg  == [kind : {"out", "status", "unknown"}, from : Nat, data : Bytes]

Subscribe(a, from) == [op |-> "subscribe", tx |-> a, from |-> from]
Unsubscribe        == [op |-> "unsubscribe", tx |-> NoSub, from |-> 0]
Ctrl == [op : {"subscribe"}, tx : Attach, from : Nat] \cup {Unsubscribe}

NoHand == [to |-> NoSub, why |-> "none", msg |-> ExitMsg("unknown")]

Larger(m, n) == IF m >= n THEN m ELSE n

\* SessionState::push: the newest RING_CAP bytes stay.
Dropped(bytes) == Larger(0, Len(ring) + Len(bytes) - RING_CAP)
PushCountsChunks(bytes) ==
  /\ ring' = SubSeq(ring \o bytes, Dropped(bytes) + 1, Len(ring) + Len(bytes))
  /\ ringStart' = ringStart + Dropped(bytes)
  /\ total' = total + 1
Push(bytes) ==
  /\ ring' = SubSeq(ring \o bytes, Dropped(bytes) + 1, Len(ring) + Len(bytes))
  /\ ringStart' = ringStart + Dropped(bytes)
  /\ total' = total + Len(bytes)

\* SessionState::replay_from: where the replay starts, and its bytes.
ReplayStart(from) == Larger(ringStart, from)
ReplayWholeRing(from) == ring
Replay(from) == SubSeq(ring, ReplayStart(from) - ringStart + 1, Len(ring))

\* Where a chunk starts that push() has just counted.
LiveFromEnd(bytes) == total'
LiveFrom(bytes) == total' - Len(bytes)

\* send().await on a bounded channel returns when there is room, or with an
\* error when the receiver is gone.
FeedHasRoom == task # "gone" /\ Len(feed) < FEED_CAP
SendReturnsIfOpen(a) == rx[a] = "open" /\ Len(chan[a]) < SUB_CAP
SendReturns(a) == rx[a] = "open" => Len(chan[a]) < SUB_CAP

\* A channel's senders: the stream task's subscriber, the message it is
\* sending, and a Subscribe it has not taken yet.
SenderAlive(a) == \/ sub = a
                  \/ hand.to = a
                  \/ \E i \in 1..Len(ctrl) : ctrl[i].tx = a
Over == {"killed", "swept", "replaced"}

-----------------------------------------------------------------------------
Init ==
  /\ child = "running"
  /\ reader = "read" /\ chunk = <<>> /\ read = 0
  /\ feed = <<>>
  /\ ring = <<>> /\ ringStart = 0 /\ total = 0
  /\ exited = FALSE /\ detachedAt = "none"
  /\ ctrl = <<>>
  /\ task = "ctrl" /\ sub = NoSub /\ hand = NoHand /\ aborted = FALSE
  /\ session = "live"
  /\ chan = [a \in Attach |-> <<>>]
  /\ rx = [a \in Attach |-> "unused"]
  /\ info = [a \in Attach |-> [from |-> 0, end |-> 0, truncated |-> FALSE]]
  /\ seen = [a \in Attach |-> Unset]
  /\ got = [a \in Attach |-> 0]

-----------------------------------------------------------------------------
(* The shell, and the reader thread. *)

ChildCloses == /\ child = "running"
               /\ child' = "mute"
               /\ UNCHANGED <<readerVars, feed, stateVars, ctrl, taskVars,
                              session, chan, clientVars>>

ChildExits == /\ child # "dead"
              /\ child' = "dead"
              /\ UNCHANGED <<readerVars, feed, stateVars, ctrl, taskVars,
                             session, chan, clientVars>>

ReaderRead ==
  /\ reader = "read"
  /\ \E n \in 1..READ_MAX :
       /\ read + n <= MaxBytes
       /\ chunk' = [i \in 1..n |-> read + i - 1]
       /\ read' = read + n
  /\ reader' = "send"
  /\ UNCHANGED <<child, feed, stateVars, ctrl, taskVars, session, chan,
                 clientVars>>

\* blocking_send: wait for room, give up when the receiver is gone.
ReaderSend ==
  /\ reader = "send"
  /\ \/ /\ FeedHasRoom
        /\ feed' = Append(feed, Data(chunk))
        /\ reader' = "read"
     \/ /\ task = "gone"
        /\ reader' = "done"
        /\ UNCHANGED feed
  /\ chunk' = <<>>
  /\ UNCHANGED <<child, read, stateVars, ctrl, taskVars, session, chan,
                 clientVars>>

\* End of file once nobody holds the tty; then wait() under the child's lock.
ReaderEof ==
  /\ reader = "read"
  /\ child # "running"
  /\ reader' = "wait"
  /\ UNCHANGED <<child, chunk, read, feed, stateVars, ctrl, taskVars,
                 session, chan, clientVars>>

ReaderWaited ==
  /\ reader = "wait"
  /\ child = "dead"
  /\ reader' = "sendEof"
  /\ UNCHANGED <<child, chunk, read, feed, stateVars, ctrl, taskVars,
                 session, chan, clientVars>>

ReaderSendEof ==
  /\ reader = "sendEof"
  /\ \/ /\ FeedHasRoom
        /\ feed' = Append(feed, Eof)
     \/ /\ task = "gone"
        /\ UNCHANGED feed
  /\ reader' = "done"
  /\ UNCHANGED <<child, chunk, read, stateVars, ctrl, taskVars, session,
                 chan, clientVars>>

ReaderRuns == ReaderSend \/ ReaderEof \/ ReaderWaited \/ ReaderSendEof

-----------------------------------------------------------------------------
(* The stream task. *)

Hold(to, why, msg) == /\ task' = "send"
                      /\ hand' = [to |-> to, why |-> why, msg |-> msg]

\* The task's future is dropped: with it go its receivers and its subscriber.
TaskGone == /\ task' = "gone"
            /\ sub' = NoSub
            /\ hand' = NoHand
            /\ aborted' = FALSE
            /\ ctrl' = <<>>
            /\ feed' = <<>>

\* After the loop: tell a lingering subscriber unless the exit was seen.
LoopEnds == IF exited \/ sub = NoSub
            THEN TaskGone
            ELSE /\ Hold(sub, "last", ExitMsg("unknown"))
                 /\ sub' = NoSub
                 /\ UNCHANGED <<aborted, ctrl, feed>>

TakeSubscribe ==
  /\ task = "ctrl"
  /\ ctrl # <<>>
  /\ Head(ctrl).op = "subscribe"
  /\ LET a == Head(ctrl).tx
         from == Head(ctrl).from
     IN  IF Replay(from) # <<>>
         THEN /\ Hold(a, "replay", OutMsg(ReplayStart(from), Replay(from)))
              /\ UNCHANGED <<sub, detachedAt>>
         ELSE /\ sub' = a
              /\ detachedAt' = "none"
              /\ UNCHANGED <<task, hand>>
  /\ ctrl' = Tail(ctrl)
  /\ UNCHANGED <<child, readerVars, feed, ring, ringStart, total, exited,
                 aborted, session, chan, clientVars>>

UnsubscribeKeepsSub ==
  /\ task = "ctrl"
  /\ ctrl # <<>>
  /\ Head(ctrl).op = "unsubscribe"
  /\ detachedAt' = "recent"
  /\ ctrl' = Tail(ctrl)
  /\ UNCHANGED <<child, readerVars, feed, ring, ringStart, total, exited,
                 task, sub, hand, aborted, session, chan, clientVars>>
TakeUnsubscribe ==
  /\ task = "ctrl"
  /\ ctrl # <<>>
  /\ Head(ctrl).op = "unsubscribe"
  /\ sub' = NoSub
  /\ detachedAt' = "recent"
  /\ ctrl' = Tail(ctrl)
  /\ UNCHANGED <<child, readerVars, feed, ring, ringStart, total, exited,
                 task, hand, aborted, session, chan, clientVars>>

\* Nothing on ctrl: the biased select goes on to poll the feed.  A ctrl
\* message sent from here on waits until the feed item has been handled.
PollFeed ==
  /\ task = "ctrl"
  /\ ctrl = <<>>
  /\ session \notin Over
  /\ feed # <<>>
  /\ task' = "feed"
  /\ UNCHANGED <<child, readerVars, feed, stateVars, ctrl, sub, hand, aborted,
                 session, chan, clientVars>>

CtrlEnds ==
  /\ task = "ctrl"
  /\ ctrl = <<>>
  /\ session \in Over
  /\ LoopEnds
  /\ UNCHANGED <<child, readerVars, stateVars, session, chan, clientVars>>

TakeData ==
  /\ task = "feed"
  /\ Head(feed).kind = "data"
  /\ LET bytes == Head(feed).bytes
     IN  /\ Push(bytes)
         /\ IF sub # NoSub
            THEN Hold(sub, "live", OutMsg(LiveFrom(bytes), bytes))
            ELSE task' = "ctrl" /\ UNCHANGED hand
  /\ feed' = Tail(feed)
  /\ UNCHANGED <<child, readerVars, exited, detachedAt, ctrl, sub, aborted,
                 session, chan, clientVars>>

TakeEof ==
  /\ task = "feed"
  /\ Head(feed).kind = "eof"
  /\ exited' = TRUE
  /\ detachedAt' = "none"
  /\ IF sub # NoSub
     THEN Hold(sub, "exit", ExitMsg("status"))
     ELSE task' = "ctrl" /\ UNCHANGED hand
  /\ sub' = NoSub
  /\ feed' = Tail(feed)
  /\ UNCHANGED <<child, readerVars, ring, ringStart, total, ctrl, aborted,
                 session, chan, clientVars>>

\* tx.send().await: room in the channel, or an error when the receiver is
\* gone.  A failed replay keeps the old subscriber; a failed live send drops
\* the subscriber and leaves detachedAt alone.
SendDone ==
  /\ task = "send"
  /\ SendReturns(hand.to)
  /\ LET delivered == rx[hand.to] = "open" IN
       /\ chan' = IF delivered
                  THEN [chan EXCEPT ![hand.to] = Append(@, hand.msg)]
                  ELSE chan
       /\ IF hand.why = "last"
          THEN TaskGone
          ELSE /\ sub' = CASE hand.why = "replay" /\ delivered -> hand.to
                           [] hand.why = "live" /\ ~delivered  -> NoSub
                           [] OTHER                            -> sub
               /\ task' = "ctrl"
               /\ hand' = NoHand
               /\ UNCHANGED <<aborted, ctrl, feed>>
       /\ detachedAt' = IF hand.why = "replay" /\ delivered
                        THEN "none" ELSE detachedAt
  /\ UNCHANGED <<child, readerVars, ring, ringStart, total, exited, session,
                 clientVars>>

\* The cancelled task is dropped at the next await that yields.
AbortTakesEffect ==
  /\ aborted
  /\ task # "gone"
  /\ TaskGone
  /\ UNCHANGED <<child, readerVars, stateVars, session, chan, clientVars>>

TaskRuns == \/ TakeSubscribe \/ TakeUnsubscribe \/ PollFeed \/ CtrlEnds
            \/ TakeData \/ TakeEof \/ SendDone
StreamTask == TaskRuns \/ AbortTakesEffect

\* task.abort(), after which the Session is dropped: a parked task is gone at
\* once; one that is in the middle of a poll finds out when it next yields,
\* and until then it sees its ctrl channel closed.
Abort == \/ TaskGone
         \/ /\ task # "gone"
            /\ aborted' = TRUE
            /\ UNCHANGED <<task, sub, hand, ctrl, feed>>

-----------------------------------------------------------------------------
(* The manager: each call takes its lock.  kill_session needs the child's  *)
(* lock too, which the reader thread holds while it waits for the child.   *)

\* subscribe(): answer from the state as it is now, and ask the stream task.
SubscribeCall(a, asked) ==
  /\ rx[a] = "unused"
  /\ session = "live"
  /\ ~exited
  /\ Len(ctrl) < MaxCtrl
  /\ LET from == IF asked = Unset THEN ringStart ELSE Larger(asked, ringStart)
     IN  /\ info' = [info EXCEPT ![a] =
                       [from |-> from, end |-> total,
                        truncated |-> asked # Unset /\ asked < ringStart]]
         /\ ctrl' = Append(ctrl, Subscribe(a, from))
  /\ rx' = [rx EXCEPT ![a] = "open"]
  /\ UNCHANGED <<child, readerVars, feed, stateVars, taskVars, session, chan,
                 seen, got>>

UnsubscribeAtOnce ==
  /\ session = "live"
  /\ sub' = NoSub
  /\ detachedAt' = "recent"
  /\ UNCHANGED <<child, readerVars, feed, ring, ringStart, total, exited, ctrl,
                 task, hand, aborted, session, chan, clientVars>>
UnsubscribeCall ==
  /\ session = "live"
  /\ Len(ctrl) < MaxCtrl
  /\ ctrl' = Append(ctrl, Unsubscribe)
  /\ UNCHANGED <<child, readerVars, feed, stateVars, taskVars, session, chan,
                 clientVars>>

\* kill() and kill_all(): out of the map, then kill_session.
KillCall ==
  /\ session = "live"
  /\ session' = "killing"
  /\ UNCHANGED <<child, readerVars, feed, stateVars, ctrl, taskVars, chan,
                 clientVars>>

KillSession ==
  /\ session = "killing"
  /\ reader # "wait"
  /\ child' = "dead"
  /\ session' = "killed"
  /\ Abort
  /\ UNCHANGED <<readerVars, stateVars, chan, clientVars>>

SweepExitedDetached ==
  /\ session = "live"
  /\ exited
  /\ detachedAt # "none"
  /\ session' = "swept"
  /\ Abort
  /\ UNCHANGED <<child, readerVars, stateVars, chan, clientVars>>
SweepExited ==
  /\ session = "live"
  /\ exited
  /\ session' = "swept"
  /\ Abort
  /\ UNCHANGED <<child, readerVars, stateVars, chan, clientVars>>

SweepAbandoned ==
  /\ session = "live"
  /\ ~exited
  /\ detachedAt = "expired"
  /\ session' = "killing"
  /\ UNCHANGED <<child, readerVars, feed, stateVars, ctrl, taskVars, chan,
                 clientVars>>

\* spawn() with this session's id: insert() drops the Session, and neither
\* the child nor the stream task is told to stop.
Replaced ==
  /\ session = "live"
  /\ session' = "replaced"
  /\ UNCHANGED <<child, readerVars, feed, stateVars, ctrl, taskVars, chan,
                 clientVars>>

\* Time passes: the session has been detached for longer than max_detached.
DetachExpires ==
  /\ detachedAt = "recent"
  /\ detachedAt' = "expired"
  /\ UNCHANGED <<child, readerVars, feed, ring, ringStart, total, exited,
                 ctrl, taskVars, session, chan, clientVars>>

Sweep == SweepExited \/ SweepAbandoned

-----------------------------------------------------------------------------
(* The client's end of a channel (spawn_subscriber_task). *)

\* A receiver that goes away takes what is queued with it.
Close(a, how) == /\ rx' = [rx EXCEPT ![a] = how]
                 /\ chan' = [chan EXCEPT ![a] = <<>>]

Receive(a) ==
  /\ rx[a] = "open"
  /\ chan[a] # <<>>
  /\ LET m == Head(chan[a]) IN
       CASE m.kind = "out" ->
              /\ seen' = [seen EXCEPT ![a] = m.from + Len(m.data)]
              /\ got' = [got EXCEPT ![a] = @ + Len(m.data)]
              /\ chan' = [chan EXCEPT ![a] = Tail(@)]
              /\ UNCHANGED rx
         [] m.kind = "status"  -> Close(a, "exited") /\ UNCHANGED <<seen, got>>
         [] m.kind = "unknown" -> Close(a, "told") /\ UNCHANGED <<seen, got>>
  /\ UNCHANGED <<child, readerVars, feed, stateVars, ctrl, taskVars, session,
                 info>>

\* recv() returns None: every sender is gone, and no pty-exit is pushed.
StreamEnds(a) ==
  /\ rx[a] = "open"
  /\ chan[a] = <<>>
  /\ ~SenderAlive(a)
  /\ Close(a, "ended")
  /\ UNCHANGED <<child, readerVars, feed, stateVars, ctrl, taskVars, session,
                 info, seen, got>>

\* A push to the connection fails: the forwarding task stops.
LinkLost(a) ==
  /\ rx[a] = "open"
  /\ Close(a, "lost")
  /\ UNCHANGED <<child, readerVars, feed, stateVars, ctrl, taskVars, session,
                 info, seen, got>>

Client(a) == Receive(a) \/ StreamEnds(a) \/ LinkLost(a)

-----------------------------------------------------------------------------
Next == \/ ChildCloses \/ ChildExits
        \/ ReaderRead \/ ReaderRuns
        \/ StreamTask
        \/ \E a \in Attach, asked \in Asked :
              SubscribeCall(a, asked)
        \/ UnsubscribeCall \/ KillCall \/ KillSession \/ Sweep \/ Replaced
        \/ DetachExpires
        \/ \E a \in Attach : Client(a)

Spec == Init /\ [][Next]_vars

\* The threads and tasks that run get to run, the sweep ticks, time passes and
\* a peer either takes what is queued for it or its connection fails.  Nothing
\* is assumed of the shell, or of who calls the manager except that control
\* messages do not arrive in step with every poll (SF on PollFeed: the select
\* is biased, and a caller that kept ctrl full would starve the feed).
Fairness ==
  /\ WF_vars(ReaderRuns)
  /\ WF_vars(TaskRuns)
  /\ SF_vars(PollFeed)
  /\ WF_vars(AbortTakesEffect)
  /\ WF_vars(KillSession)
  /\ WF_vars(Sweep)
  /\ WF_vars(DetachExpires)
  /\ \A a \in Attach : /\ WF_vars(Receive(a) \/ (chan[a] # <<>> /\ LinkLost(a)))
                      /\ WF_vars(StreamEnds(a))

FairSpec == Spec /\ Fairness

-----------------------------------------------------------------------------
(* Type correctness, bounds of the queues included. *)
TypeOK ==
  /\ child \in {"running", "mute", "dead"}
  /\ reader \in {"read", "send", "wait", "sendEof", "done"}
  /\ chunk \in Bytes
  /\ read \in 0..MaxBytes
  /\ feed \in Seq(Item) /\ Len(feed) <= FEED_CAP
  /\ ring \in Bytes /\ Len(ring) <= RING_CAP
  /\ ringStart \in Nat
  /\ total \in Nat
  /\ exited \in BOOLEAN
  /\ detachedAt \in {"none", "recent", "expired"}
  /\ ctrl \in Seq(Ctrl) /\ Len(ctrl) <= MaxCtrl
  /\ task \in {"ctrl", "feed", "send", "gone"}
  /\ sub \in Attach \cup {NoSub}
  /\ hand \in {NoHand} \cup
              [to : Attach, why : {"replay", "live", "exit", "last"}, msg : Msg]
  /\ aborted \in BOOLEAN
  /\ session \in {"live", "killing"} \cup Over
  /\ chan \in [Attach -> Seq(Msg)]
  /\ \A a \in Attach : Len(chan[a]) <= SUB_CAP
  /\ rx \in [Attach -> {"unused", "open", "exited", "told", "ended", "lost"}]
  /\ info \in [Attach -> [from : Nat, end : Nat, truncated : BOOLEAN]]
  /\ seen \in [Attach -> Nat \cup {Unset}]
  /\ got \in [Attach -> Nat]

\* Bytes that carry their true offsets: from, from + 1, ...
Numbered(bytes, from) == \A i \in 1..Len(bytes) : bytes[i] = from + i - 1

\* The ring holds the last bytes produced, and its offsets are true: what a
\* replay starts from and what AttachInfo reports rests on this
\* (SessionState::push, ring_start, total).
RingIsTail ==
  /\ ringStart + Len(ring) = total
  /\ Numbered(ring, ringStart)
  /\ ringStart > 0 => Len(ring) = RING_CAP

\* The types, and the ring that attaches are answered from.
SessionInv == TypeOK /\ RingIsTail

\* No byte that the ring still holds is skipped by a replay: the first byte a
\* client got is not beyond the one it was promised, or, when the ring has gone
\* past that, not beyond the oldest it holds now.
NothingRetainedIsSkipped ==
  \A a \in Attach :
    got[a] > 0 => seen[a] - got[a] <= Larger(info[a].from, ringStart)

\* Everything on its way to a: the queued messages, then the one in hand.
Pipeline(a) == chan[a] \o (IF hand.to = a THEN <<hand.msg>> ELSE <<>>)

\* What a subscriber gets is one gapless run that begins where it should: every
\* message carries the bytes its offset says, each starts where the one before
\* ended, nothing follows an exit, and a subscriber that is live is exactly up
\* to date with the ring, so that neither the hand-over from replay to live nor
\* a takeover loses or repeats a byte.
Gapless ==
  /\ NothingRetainedIsSkipped
  /\ \A a \in Attach : rx[a] = "open" =>
       LET p == Pipeline(a)
           End(i) == p[i].from + Len(p[i].data)
       IN  /\ \A i \in 1..Len(p) : p[i].kind = "out" =>
                 p[i].data # <<>> /\ Numbered(p[i].data, p[i].from)
           /\ \A i \in 1..Len(p) - 1 :
                 /\ p[i].kind = "out"
                 /\ p[i + 1].kind = "out" => p[i + 1].from = End(i)
           /\ p # <<>> /\ p[1].kind = "out" /\ seen[a] # Unset =>
                 p[1].from = seen[a]
           /\ sub = a =>
                IF p = <<>> THEN seen[a] \in {Unset, total}
                            ELSE p[Len(p)].kind = "out" /\ End(Len(p)) = total

\* Each attach sees what TerminalStream promises: a run of what the shell
\* produced, and the exit behind all of it ("so the client never sees exit
\* overtake output", SubMsg::Exit).
StreamOf(a) == INSTANCE TerminalStream WITH
  produced <- read, seen <- seen[a], got <- got[a],
  phase <- IF rx[a] = "told" THEN "ended" ELSE rx[a]
KeepsPromise ==
  /\ \A a \in Attach : StreamOf(a)!Init
  /\ [][\A a \in Attach : [StreamOf(a)!Next]_(StreamOf(a)!vars)]_vars

\* Only a session that serves nobody has a detach clock running, so sweep()
\* never reaps one under a client that is attached ("live ones that have had no
\* subscriber for longer than max_detached are killed").
AttachedIsNotReaped == detachedAt # "none" => sub = NoSub

\* Towards the connections the session behaves as SessionControl says.  An
\* attach whose replay is being sent counts as not yet taken.
Control == INSTANCE SessionControl WITH
  Stream <- Attach, NoStream <- NoSub,
  st <- IF session \in Over THEN "over" ELSE session,
  ctrl <- (IF hand.why = "replay" THEN <<hand.to>> ELSE <<>>)
          \o [i \in 1..Len(ctrl) |-> ctrl[i].tx],
  rx <- [a \in Attach |-> IF rx[a] \in {"unused", "open"} THEN rx[a] ELSE "closed"]
KeepsContract == Control!Init /\ [][Control!Next]_(Control!vars)

-----------------------------------------------------------------------------
(* Liveness, under FairSpec. *)

\* An attach that was answered takes effect: the subscriber goes live, gets
\* something, or learns that its stream is over.  In particular a subscriber
\* that stopped reading does not hold the next one up for ever.
AttachIsServed ==
  \A a \in Attach :
    rx[a] = "open" ~> sub = a \/ seen[a] # Unset \/ rx[a] # "open"

\* After the shell's end every stream ends.
StreamsEnd == \A a \in Attach : rx[a] = "open" /\ exited ~> rx[a] # "open"
=============================================================================
