--------------------------- MODULE ConnectionLife ---------------------------
(***************************************************************************)
(* How long a websocket connection lives (handle_connection,               *)
(* server/src/ws_server.rs 643-834): the reader loop with its idle clock,  *)
(* the writer task with its pings, the outbound queue between them, and    *)
(* the peer at the other end, which may vanish without a word.             *)
(*                                                                         *)
(* Time passes in ticks.  The server's tasks are fast: whatever they can   *)
(* do they have done before the next tick.  The exception is input for a   *)
(* terminal, which the reader loop writes itself: it waits for the         *)
(* manager's lock and for the terminal as long as these take (PtyInput).   *)
(* A peer that is there reads a message at the latest LAG ticks after the  *)
(* one before.                                                             *)
(***************************************************************************)
EXTENDS Integers, Sequences

CONSTANTS
  IDLE,    \* idle_limit (300 s)
  PING,    \* the ping interval (20 s)
  LAG,     \* how slowly a live peer reads
  SOCK,    \* messages the sockets buffer on the way to the peer
  PASS,    \* how many messages the writer's select! takes before a due ping
  INBOX,   \* bound: messages on their way from the peer
  OUT_CAP  \* the outbound queue

ASSUME LifeAssumption ==
  /\ {IDLE, PING, LAG, SOCK, PASS, INBOX, OUT_CAP} \subseteq Nat \ {0}
  /\ LAG < PING
  /\ PING + (PASS + SOCK + 2) * LAG < IDLE

VARIABLES
  reader,     \* "check" (top of the loop), "wait" (in select!), "pong" and
              \* "reply" (awaiting the queue), "input" (in write_binary), "closed"
  why,        \* why it closed: "none", "idle", "link", "close"
  blocked,    \* history: ticks for which the last input has kept the loop, up to IDLE
  age,        \* ticks since last_activity, up to IDLE
  remaining,  \* ticks until the timeout the reader waits with, while it does
  writer,     \* "select", "data" or "ping" (awaiting the socket), "gone"
  pingIn,     \* ticks to the next ping
  passed,     \* messages taken since it was due
  outq,       \* messages in the outbound queue
  net, inbox, \* messages to and from the peer
  peer,       \* "up", "silent"
  lag,        \* ticks for which a message has waited for the peer to read on
  link        \* "up", "broken"

readerVars == <<reader, why, remaining, blocked>>
writerVars == <<writer, pingIn, passed>>
peerVars == <<peer, lag, link>>
vars == <<readerVars, age, writerVars, outq, net, inbox, peerVars>>

Init ==
  /\ reader = "check" /\ why = "none" /\ age = 0 /\ remaining = 0 /\ blocked = 0
  /\ writer = "select" /\ pingIn = PING /\ passed = 0
  /\ outq = 0
  /\ net = <<>> /\ inbox = <<>>
  /\ peer = "up" /\ lag = 0 /\ link = "up"

Message == {"__ping", "invalid", "input", "close", "other"}

Smaller(m, n) == IF m < n THEN m ELSE n

-----------------------------------------------------------------------------
(* The reader loop. *)

Check ==
  /\ reader = "check"
  /\ \/ /\ age >= IDLE
        /\ reader' = "closed" /\ why' = "idle"
        /\ UNCHANGED <<remaining, blocked>>
     \/ /\ age < IDLE
        /\ reader' = "wait" /\ remaining' = IDLE - age
        /\ blocked' = 0
        /\ UNCHANGED why
  /\ UNCHANGED <<age, writerVars, outq, net, inbox, peerVars>>

\* The timeout was computed when the loop came by; select! takes either of two
\* ready branches.
TimesOut ==
  /\ reader = "wait" /\ remaining = 0
  /\ reader' = "closed" /\ why' = "idle"
  /\ UNCHANGED <<remaining, blocked, age, writerVars, outq, net, inbox, peerVars>>

\* What the loop does with a message: a ping and an invalid request it answers
\* itself, input it writes itself, a request gets a task of its own, and the rest
\* (pongs, frames it does not know) is dropped.
Serves(message) ==
  CASE message = "__ping"  -> "pong"
    [] message = "invalid" -> "reply"
    [] message = "input"   -> "input"
    [] message = "close"   -> "closed"
    [] OTHER               -> "check"
Take(message) ==
  /\ reader' = Serves(message)
  /\ why' = IF message = "close" THEN "close" ELSE why
  /\ remaining' = 0
  /\ UNCHANGED blocked

ReceiveRetries ==
  /\ reader = "wait"
  /\ inbox # <<>>
  /\ inbox' = IF Head(inbox) = "__ping" THEN inbox ELSE Tail(inbox)
  /\ age' = 0
  /\ Take(Head(inbox))
  /\ UNCHANGED <<writerVars, outq, net, peerVars>>
ReceiveQuietly ==
  /\ reader = "wait"
  /\ inbox # <<>>
  /\ inbox' = Tail(inbox)
  /\ Take(Head(inbox))
  /\ UNCHANGED <<age, writerVars, outq, net, peerVars>>
\* Any message sets the clock back.
Receive ==
  /\ reader = "wait"
  /\ inbox # <<>>
  /\ inbox' = Tail(inbox)
  /\ age' = 0
  /\ Take(Head(inbox))
  /\ UNCHANGED <<writerVars, outq, net, peerVars>>

\* The lock was there and the terminal has taken all of it; or never.
InputReturns ==
  /\ reader = "input"
  /\ reader' = "check"
  /\ UNCHANGED <<why, remaining, blocked, age, writerVars, outq, net, inbox, peerVars>>

\* The loop itself awaits the queue; without a writer the send fails at once.
\* A pong sets the clock back once more.
SendAnswer ==
  /\ reader \in {"pong", "reply"}
  /\ \/ writer = "gone" /\ UNCHANGED outq
     \/ writer # "gone" /\ outq < OUT_CAP /\ outq' = outq + 1
  /\ reader' = "check"
  /\ age' = IF reader = "pong" THEN 0 ELSE age
  /\ UNCHANGED <<why, remaining, blocked, writerVars, net, inbox, peerVars>>

ReadFails ==
  /\ reader = "wait" /\ link = "broken" /\ inbox = <<>>
  /\ reader' = "closed" /\ why' = "link"
  /\ UNCHANGED <<remaining, blocked, age, writerVars, outq, net, inbox, peerVars>>

\* A subscriber task queues a frame, or a handler its answer.
Enqueue ==
  /\ writer # "gone" /\ outq < OUT_CAP
  /\ outq' = outq + 1
  /\ UNCHANGED <<readerVars, age, writerVars, net, inbox, peerVars>>

-----------------------------------------------------------------------------
(* The writer task. *)

\* select! takes either of two ready branches, by chance.
TakeMessage ==
  /\ writer = "select" /\ outq > 0
  /\ pingIn = 0 => passed < PASS
  /\ writer' = "data"
  /\ outq' = outq - 1
  /\ passed' = IF pingIn = 0 THEN passed + 1 ELSE 0
  /\ UNCHANGED <<readerVars, age, pingIn, net, inbox, peerVars>>

TakePing ==
  /\ writer = "select" /\ pingIn = 0
  /\ writer' = "ping"
  /\ pingIn' = PING /\ passed' = 0
  /\ UNCHANGED <<readerVars, age, outq, net, inbox, peerVars>>

\* Data that went into the socket sets the clock back, a ping does not.
Written ==
  /\ writer \in {"data", "ping"} /\ link = "up" /\ Len(net) < SOCK
  /\ net' = Append(net, writer)
  /\ age' = IF writer = "data" THEN 0 ELSE age
  /\ writer' = "select"
  /\ UNCHANGED <<readerVars, pingIn, passed, outq, inbox, peerVars>>

\* The task returns and drops the receiving end of the queue.
WriteFails ==
  /\ writer \in {"data", "ping"} /\ link = "broken"
  /\ writer' = "gone"
  /\ outq' = 0
  /\ UNCHANGED <<readerVars, age, pingIn, passed, net, inbox, peerVars>>

-----------------------------------------------------------------------------
(* The peer, the network and the clock. *)

\* Browsers answer pings at the protocol level.  With INBOX messages on their
\* way a further pong makes no difference.
PeerReads ==
  /\ peer = "up" /\ net # <<>>
  /\ net' = Tail(net)
  /\ inbox' = IF Head(net) = "ping" /\ Len(inbox) < INBOX
              THEN Append(inbox, "other") ELSE inbox
  /\ lag' = 0
  /\ UNCHANGED <<readerVars, age, writerVars, outq, peer, link>>

PeerSends(kind) ==
  /\ peer = "up" /\ Len(inbox) < INBOX
  /\ inbox' = Append(inbox, kind)
  /\ UNCHANGED <<readerVars, age, writerVars, outq, net, peerVars>>

PeerVanishes ==
  /\ peer = "up"
  /\ peer' = "silent"
  /\ UNCHANGED <<readerVars, age, writerVars, outq, net, inbox, lag, link>>

\* TCP gives up on what it cannot deliver.
LinkBreaks ==
  /\ peer = "silent" /\ net # <<>> /\ link = "up"
  /\ link' = "broken"
  /\ net' = <<>>
  /\ UNCHANGED <<readerVars, age, writerVars, outq, inbox, peer, lag>>

ServerBusy ==
  \/ reader = "check"
  \/ reader = "wait" /\ (remaining = 0 \/ inbox # <<>> \/ link = "broken")
  \/ reader \in {"pong", "reply"} /\ (writer = "gone" \/ outq < OUT_CAP)
  \/ writer = "select" /\ (outq > 0 \/ pingIn = 0)
  \/ writer \in {"data", "ping"} /\ (link = "broken" \/ Len(net) < SOCK)

Tick ==
  /\ reader # "closed"
  /\ ~ServerBusy
  /\ peer = "up" /\ net # <<>> => lag < LAG
  /\ age' = Smaller(age + 1, IDLE)
  /\ remaining' = IF reader = "wait" THEN remaining - 1 ELSE remaining
  /\ blocked' = IF reader = "input" THEN Smaller(blocked + 1, IDLE) ELSE blocked
  /\ pingIn' = IF pingIn > 0 THEN pingIn - 1 ELSE 0
  /\ lag' = IF peer = "up" /\ net # <<>> THEN lag + 1 ELSE 0
  /\ UNCHANGED <<reader, why, writer, passed, outq, net, inbox, peer, link>>

-----------------------------------------------------------------------------
ReaderLoop == Check \/ TimesOut \/ Receive \/ SendAnswer \/ ReadFails
WriterTask == TakeMessage \/ TakePing \/ Written \/ WriteFails

Next ==
  \/ ReaderLoop \/ InputReturns \/ WriterTask
  \/ Enqueue \/ PeerReads \/ PeerVanishes \/ LinkBreaks \/ Tick
  \/ \E kind \in Message : PeerSends(kind)

Spec == Init /\ [][Next]_vars

\* Tasks run, time passes, and TCP gives up in the end.  The peer owes nothing,
\* and a write to a terminal need not return.
Fairness ==
  /\ WF_vars(ReaderLoop) /\ WF_vars(WriterTask)
  /\ WF_vars(LinkBreaks) /\ WF_vars(Tick)

FairSpec == Spec /\ Fairness

-----------------------------------------------------------------------------
TypeOK ==
  /\ reader \in {"check", "wait", "pong", "reply", "input", "closed"}
  /\ why \in {"none", "idle", "link", "close"} /\ (why = "none" <=> reader # "closed")
  /\ age \in 0..IDLE /\ remaining \in 0..IDLE /\ blocked \in 0..IDLE
  /\ writer \in {"select", "data", "ping", "gone"}
  /\ pingIn \in 0..PING /\ passed \in 0..PASS
  /\ outq \in 0..OUT_CAP
  /\ net \in Seq({"data", "ping"}) /\ Len(net) <= SOCK
  /\ inbox \in Seq(Message) /\ Len(inbox) <= INBOX
  /\ peer \in {"up", "silent"} /\ lag \in 0..LAG /\ link \in {"up", "broken"}

\* A peer that is there and reads on is never taken for an idle one, however
\* the pings, its answers and the data it is sent share the way ("a live
\* terminal is never dropped", ws_server.rs:643-656), unless input it has sent
\* kept the loop from reading for the whole of the idle limit.
LivePeerIsKept == why = "idle" => peer = "silent" \/ blocked = IDLE

\* The types and bounds, and that no live peer is taken for an idle one.
LifeInv == TypeOK /\ LivePeerIsKept

\* A connection whose peer vanished without a close frame is dropped, whether
\* the loop waits for the peer, for the queue or for the clock; only a write to a
\* terminal that never returns keeps it.
SilentPeerIsDropped ==
  peer = "silent" ~> (reader = "closed" \/ [](reader = "input"))
=============================================================================
