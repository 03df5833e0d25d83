---------------------------- MODULE OutputFrames ----------------------------
(***************************************************************************)
(* From a session's subscriber channel to the browser: the subscriber      *)
(* tasks of one connection (spawn_subscriber_task, server/src/ws_server.rs *)
(* 237-350) batch what the stream task sends and push it, as frames, into  *)
(* the connection's bounded outbound queue, which the writer task empties. *)
(*                                                                         *)
(* The session is the environment here; it does what PtySession was shown  *)
(* to do (TerminalStream).  The streams are the attaches this connection   *)
(* makes to one session; each has a task and a channel of its own, and an  *)
(* attach takes the session over from the one before.                      *)
(*                                                                         *)
(* As in PtySession a byte is its true offset in the output.               *)
(***************************************************************************)
EXTENDS Integers, Sequences

CONSTANTS
  Stream,     \* attaches of this connection to the session
  None,       \* no subscriber
  SUB_CAP, OUT_CAP, FRAME_MAX, GZIP_MIN,
  READ_MAX,   \* most bytes one message holds, a replay apart
  MaxBytes,   \* bound: bytes the session produces
  Magic       \* bytes that, with those behind them, read as a gzip header

ASSUME FramesAssumption ==
  /\ None \notin Stream
  /\ {SUB_CAP, OUT_CAP, FRAME_MAX, GZIP_MIN, READ_MAX} \subseteq Nat \ {0}
  /\ MaxBytes \in Nat
  /\ Magic \subseteq Nat

VARIABLES
  produced, exited,  \* the session: bytes so far, exit announced
  sub,               \* the stream that is its subscriber
  rx,                \* bounded channel to each subscriber task
  task,              \* "unused", "recv", "push" (awaiting the queue), "ended"
  pending, pendingFrom, flushAt, \* its batch; flushAt: the window is running
  hand,              \* the messages it is pushing
  outq,              \* the connection's outbound queue
  link,              \* "up", "down"
  seen, got, phase   \* what the browser got of each stream, see TerminalStream

sessionVars == <<produced, exited, sub>>
batchVars   == <<pending, pendingFrom, flushAt>>
clientVars  == <<seen, got, phase>>
vars == <<sessionVars, rx, task, batchVars, hand, outq, link, clientVars>>

-----------------------------------------------------------------------------
Unset == -1

Run(from, to) == [i \in 1..(to - from) |-> from + i - 1]

Out(from, bytes) == [kind |-> "out", from |-> from, data |-> bytes]
Exit == [kind |-> "exit", from |-> 0, data |-> <<>>]
SubMsg == [kind : {"out"}, from : Nat, data : Seq(Nat)] \cup {Exit}

\* encode_output_frame: a long payload is compressed.
Frame(s, from, bytes) ==
  [kind |-> "frame", stream |-> s, from |-> from, data |-> bytes,
   gzip |-> Len(bytes) >= GZIP_MIN]
ExitEvent(s) ==
  [kind |-> "exit", stream |-> s, from |-> 0, data |-> <<>>, gzip |-> FALSE]
Message == [kind : {"frame", "exit"}, stream : Stream, from : Nat,
            data : Seq(Nat), gzip : BOOLEAN]

Init ==
  /\ produced = 0 /\ exited = FALSE /\ sub = None
  /\ rx = [s \in Stream |-> <<>>]
  /\ task = [s \in Stream |-> "unused"]
  /\ pending = [s \in Stream |-> <<>>]
  /\ pendingFrom = [s \in Stream |-> 0]
  /\ flushAt = [s \in Stream |-> FALSE]
  /\ hand = [s \in Stream |-> <<>>]
  /\ outq = <<>> /\ link = "up"
  /\ seen = [s \in Stream |-> Unset]
  /\ got = [s \in Stream |-> 0]
  /\ phase = [s \in Stream |-> "unused"]

-----------------------------------------------------------------------------
(* The session: pty.rs, under the promise of TerminalStream. *)

\* Subscribe: a replay of the newest bytes, then the live ones.  The channel of
\* the stream that had the session loses its sender.
Attach(s) ==
  /\ task[s] = "unused"
  /\ ~exited
  /\ sub' = s
  /\ task' = [task EXCEPT ![s] = "recv"]
  /\ \E from \in 0..produced :
       rx' = [rx EXCEPT ![s] = IF from = produced THEN <<>>
                               ELSE <<Out(from, Run(from, produced))>>]
  /\ phase' = [phase EXCEPT ![s] = IF link = "up" THEN "open" ELSE @]
  /\ UNCHANGED <<produced, exited, batchVars, hand, outq, link, seen, got>>

Send(msg) ==
  IF sub = None THEN UNCHANGED <<rx, sub>>
  ELSE IF task[sub] = "ended" THEN sub' = None /\ UNCHANGED rx
  ELSE /\ Len(rx[sub]) < SUB_CAP
       /\ rx' = [rx EXCEPT ![sub] = Append(@, msg)]
       /\ sub' = IF msg = Exit THEN None ELSE sub

Output(n) ==
  /\ ~exited
  /\ produced + n <= MaxBytes
  /\ produced' = produced + n
  /\ Send(Out(produced, Run(produced, produced + n)))
  /\ UNCHANGED <<exited, task, batchVars, hand, outq, link, clientVars>>

Exits ==
  /\ ~exited
  /\ exited' = TRUE
  /\ Send(Exit)
  /\ UNCHANGED <<produced, task, batchVars, hand, outq, link, clientVars>>

Detach ==
  /\ sub # None
  /\ sub' = None
  /\ UNCHANGED <<produced, exited, rx, task, batchVars, hand, outq, link, clientVars>>

-----------------------------------------------------------------------------
(* The subscriber task. *)

\* take_batch and encode: the batch as a frame in hand, if there is one.
Batch(s) ==
  IF pending[s] = <<>> THEN <<>>
  ELSE <<Frame(s, pendingFrom[s], pending[s])>>
NoBatch(s) == /\ pending' = [pending EXCEPT ![s] = <<>>]
              /\ flushAt' = [flushAt EXCEPT ![s] = FALSE]
              /\ UNCHANGED pendingFrom
Pushes(s, msgs) == /\ hand' = [hand EXCEPT ![s] = msgs]
                   /\ task' = [task EXCEPT ![s] = "push"]

RecvOutRestamps(s) ==
  LET msg   == Head(rx[s])
      bytes == pending[s] \o msg.data
  IN /\ task[s] = "recv"
     /\ rx[s] # <<>> /\ msg.kind = "out"
     /\ rx' = [rx EXCEPT ![s] = Tail(@)]
     /\ pendingFrom' = [pendingFrom EXCEPT ![s] = msg.from]
     /\ pending' = [pending EXCEPT ![s] = bytes]
     /\ flushAt' = [flushAt EXCEPT ![s] = TRUE]
     /\ UNCHANGED <<task, hand, sessionVars, outq, link, clientVars>>
RecvOutIdleWindow(s) ==
  LET msg   == Head(rx[s])
      bytes == pending[s] \o msg.data
      from  == IF pending[s] = <<>> THEN msg.from ELSE pendingFrom[s]
  IN /\ task[s] = "recv"
     /\ rx[s] # <<>> /\ msg.kind = "out"
     /\ rx' = [rx EXCEPT ![s] = Tail(@)]
     /\ pendingFrom' = [pendingFrom EXCEPT ![s] = from]
     /\ pending' = [pending EXCEPT ![s] = bytes]
     /\ UNCHANGED <<flushAt, task, hand, sessionVars, outq, link, clientVars>>

\* A chunk joins the batch; a full batch goes out, any other waits for the
\* window, which the first chunk starts.
RecvOut(s) ==
  LET msg   == Head(rx[s])
      bytes == pending[s] \o msg.data
      from  == IF pending[s] = <<>> THEN msg.from ELSE pendingFrom[s]
  IN /\ task[s] = "recv"
     /\ rx[s] # <<>> /\ msg.kind = "out"
     /\ rx' = [rx EXCEPT ![s] = Tail(@)]
     /\ pendingFrom' = [pendingFrom EXCEPT ![s] = from]
     /\ \/ /\ Len(bytes) >= FRAME_MAX
           /\ pending' = [pending EXCEPT ![s] = <<>>]
           /\ flushAt' = [flushAt EXCEPT ![s] = FALSE]
           /\ Pushes(s, <<Frame(s, from, bytes)>>)
        \/ /\ Len(bytes) < FRAME_MAX
           /\ pending' = [pending EXCEPT ![s] = bytes]
           /\ flushAt' = [flushAt EXCEPT ![s] = TRUE]
           /\ UNCHANGED <<task, hand>>
     /\ UNCHANGED <<sessionVars, outq, link, clientVars>>

\* The batch goes out before the exit.
RecvExitFirst(s) ==
  /\ task[s] = "recv"
  /\ rx[s] # <<>> /\ Head(rx[s]) = Exit
  /\ rx' = [rx EXCEPT ![s] = Tail(@)]
  /\ Pushes(s, <<ExitEvent(s)>> \o Batch(s))
  /\ NoBatch(s)
  /\ UNCHANGED <<sessionVars, outq, link, clientVars>>
RecvExit(s) ==
  /\ task[s] = "recv"
  /\ rx[s] # <<>> /\ Head(rx[s]) = Exit
  /\ rx' = [rx EXCEPT ![s] = Tail(@)]
  /\ Pushes(s, Batch(s) \o <<ExitEvent(s)>>)
  /\ NoBatch(s)
  /\ UNCHANGED <<sessionVars, outq, link, clientVars>>

\* timeout() polls the channel first, so the window only ends on an empty one.
WindowEnds(s) ==
  /\ task[s] = "recv" /\ rx[s] = <<>> /\ sub = s
  /\ flushAt[s]
  /\ Pushes(s, Batch(s))
  /\ NoBatch(s)
  /\ UNCHANGED <<sessionVars, rx, outq, link, clientVars>>

\* The channel lost its sender: the batch goes out, then the task ends.
RecvNone(s) ==
  /\ task[s] = "recv" /\ rx[s] = <<>> /\ sub # s
  /\ \/ /\ flushAt[s]
        /\ Pushes(s, Batch(s))
        /\ NoBatch(s)
     \/ /\ ~flushAt[s]
        /\ task' = [task EXCEPT ![s] = "ended"]
        /\ UNCHANGED <<batchVars, hand>>
  /\ UNCHANGED <<sessionVars, rx, outq, link, clientVars>>

\* push(): into the queue, or an error once the writer is gone.
Push(s) ==
  /\ task[s] = "push"
  /\ \/ /\ link = "up" /\ Len(outq) < OUT_CAP
        /\ outq' = Append(outq, Head(hand[s]))
        /\ hand' = [hand EXCEPT ![s] = Tail(@)]
        /\ task' = [task EXCEPT ![s] = IF Tail(hand[s]) # <<>> THEN "push"
                                       ELSE IF Head(hand[s]).kind = "exit"
                                       THEN "ended" ELSE "recv"]
        /\ UNCHANGED rx
     \/ /\ link = "down"
        /\ hand' = [hand EXCEPT ![s] = <<>>]
        /\ rx' = [rx EXCEPT ![s] = <<>>]
        /\ task' = [task EXCEPT ![s] = "ended"]
        /\ UNCHANGED outq
  /\ UNCHANGED <<sessionVars, batchVars, link, clientVars>>

-----------------------------------------------------------------------------
(* The writer task and the browser. *)

Write ==
  LET m == Head(outq)
      s == m.stream
  IN /\ link = "up" /\ outq # <<>>
     /\ outq' = Tail(outq)
     /\ \/ /\ m.kind = "frame"
           /\ seen' = [seen EXCEPT ![s] = m.from + Len(m.data)]
           /\ got' = [got EXCEPT ![s] = @ + Len(m.data)]
           /\ UNCHANGED phase
        \/ /\ m.kind = "exit"
           /\ phase' = [phase EXCEPT ![s] = "exited"]
           /\ UNCHANGED <<seen, got>>
     /\ UNCHANGED <<sessionVars, rx, task, batchVars, hand, link>>

\* A failed write ends the writer, which drops the queue.
LinkDown ==
  /\ link = "up"
  /\ link' = "down"
  /\ outq' = <<>>
  /\ phase' = [s \in Stream |-> IF phase[s] = "open" THEN "lost" ELSE phase[s]]
  /\ UNCHANGED <<sessionVars, rx, task, batchVars, hand, seen, got>>

-----------------------------------------------------------------------------
TaskStep(s) == RecvOut(s) \/ RecvExit(s) \/ WindowEnds(s) \/ RecvNone(s)

Next ==
  \/ \E s \in Stream : Attach(s) \/ TaskStep(s) \/ Push(s)
  \/ \E n \in 1..READ_MAX : Output(n)
  \/ Exits \/ Detach \/ Write \/ LinkDown

Spec == Init /\ [][Next]_vars

\* Tasks run and the window's timer fires; the queue serves those who wait in
\* turn; the browser reads on until the link breaks.
FairSpec ==
  /\ Spec
  /\ \A s \in Stream : WF_vars(TaskStep(s)) /\ SF_vars(Push(s))
  /\ WF_vars(Write \/ (outq # <<>> /\ LinkDown))

-----------------------------------------------------------------------------
TypeOK ==
  /\ produced \in 0..MaxBytes /\ exited \in BOOLEAN
  /\ sub \in Stream \cup {None}
  /\ rx \in [Stream -> Seq(SubMsg)] /\ \A s \in Stream : Len(rx[s]) <= SUB_CAP
  /\ task \in [Stream -> {"unused", "recv", "push", "ended"}]
  /\ pending \in [Stream -> Seq(Nat)]
  /\ pendingFrom \in [Stream -> Nat]
  /\ flushAt \in [Stream -> BOOLEAN]
  /\ hand \in [Stream -> Seq(Message)]
  /\ outq \in Seq(Message) /\ Len(outq) <= OUT_CAP
  /\ link \in {"up", "down"}
  /\ seen \in [Stream -> Nat \cup {Unset}]
  /\ got \in [Stream -> Nat]
  /\ phase \in [Stream -> {"unused", "open", "exited", "lost"}]

-----------------------------------------------------------------------------
(* What the batching must not lose. *)

\* The offset in a frame is that of its first byte, and its bytes are without a
\* gap, although the task looks at the offset of a batch's first chunk only:
\* a client that reattaches asks for what follows the last frame it has.
FramesAreHonest ==
  \A i \in 1..Len(outq) :
    outq[i].data = Run(outq[i].from, outq[i].from + Len(outq[i].data))

\* The types and bounds of the queues, and what is on its way to the browser.
FramesInv == TypeOK /\ FramesAreHonest

\* Each stream is what a session promises its client: gapless bytes, each of
\* them once, and the exit after the last ("never let the exit overtake this
\* session's trailing output", ws_server.rs:333).
Promise(s) == INSTANCE TerminalStream WITH
                seen <- seen[s], got <- got[s], phase <- phase[s]
KeepsPromise ==
  /\ \A s \in Stream : Promise(s)!Init
  /\ [][\A s \in Stream : [Promise(s)!Next]_(Promise(s)!vars)]_vars

\* No byte stays in a batch, a hand or a queue: what the session sent reaches
\* the browser, unless the link breaks first.
Holds(s, b) ==
  \/ \E i \in 1..Len(rx[s]) : \E j \in 1..Len(rx[s][i].data) : rx[s][i].data[j] = b
  \/ \E j \in 1..Len(pending[s]) : pending[s][j] = b
OutputArrives ==
  \A s \in Stream, b \in 0..MaxBytes - 1 : Holds(s, b) ~> seen[s] > b \/ link = "down"
=============================================================================
