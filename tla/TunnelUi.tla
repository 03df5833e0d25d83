------------------------------ MODULE TunnelUi ------------------------------
(***************************************************************************)
(* The web interface of port-forward: sse_forward, json_forward and        *)
(* stop_forward in port-forward/src/main.rs over run_tunnel,               *)
(* run_tunnel_owned and stream_lines in tunnel.rs.                         *)
(*                                                                         *)
(*   tunnel program --pipe--> stream_lines --channel--> stream or handler  *)
(*                                                                         *)
(* A request starts a task that runs the tunnel program with a reader for  *)
(* each of its pipes; the lines go through a bounded channel to an event   *)
(* stream (GET) or to the handler, which answers at the first line that    *)
(* tells how it went (POST).  The receiver's end comes when every sender   *)
(* is dropped, and the handler of a POST holds one itself.  Of the lines   *)
(* only what the code tells apart is kept; a program prints none twice.    *)
(* The child of a POST is killed when its task and its handler are over,   *)
(* which hold it in turn; the task of a GET waits for its own.             *)
(***************************************************************************)
EXTENDS Integers, Sequences

CONSTANTS
  Request,
  CHAN,   \* capacity of the channel (128)
  LINES   \* bound on the lines a program prints on a pipe

NoTunnel == "no tunnel"
Stream == {"out", "err"}
Line == {"text", "url", "error", "end"}  \* "end": not UTF-8, or the end

TunnelUiAssumption ==
  /\ CHAN \in Nat \ {0} /\ LINES \in Nat
  /\ NoTunnel \notin Request

VARIABLES
  active,  \* AppState.active, the request whose tunnel a stop would end
  kind,    \* how a request came: "none", "sse", "json"
  task,    \* its task: "none", "starting", "running", "over"
  program, \* its tunnel program: "none", "up", "dead"
  pipe,    \* lines printed and not yet read
  printed, \* how many lines were printed on a pipe
  reader,  \* stream_lines: "none", "reads", "announces" a URL, "over"
  found,   \* url_found
  chan,    \* the channel
  client   \* "none", "waiting", then "ended" or "gone"

vars == <<active, kind, task, program, pipe, printed, reader, found, chan, client>>

Each(value) == [r \in Request |-> value]
EachPipe(value) == Each([s \in Stream |-> value])

Init ==
  /\ active = NoTunnel
  /\ kind = Each("none") /\ task = Each("none") /\ program = Each("none")
  /\ pipe = EachPipe(<<>>) /\ printed = EachPipe(0) /\ reader = EachPipe("none")
  /\ found = Each(FALSE) /\ chan = Each(<<>>) /\ client = Each("none")

\* stop_tunnel_internal: takes what is active and kills its program.
StopTunnel ==
  /\ active' = NoTunnel
  /\ program' = [r \in Request |-> IF r = active THEN "dead" ELSE program[r]]

\* A tunnel is spawned and never stored in `active`.
StartForward(r, how) ==
  /\ kind[r] = "none"
  /\ StopTunnel
  /\ kind' = [kind EXCEPT ![r] = how]
  /\ task' = [task EXCEPT ![r] = "starting"]
  /\ client' = [client EXCEPT ![r] = "waiting"]
  /\ UNCHANGED <<pipe, printed, reader, found, chan>>

\* POST /api/stop: answered "stopped", also when there was nothing to stop.
StopForward ==
  /\ StopTunnel
  /\ UNCHANGED <<kind, task, pipe, printed, reader, found, chan, client>>

-----------------------------------------------------------------------------
(* The task. *)

\* The task clears `active` if that is its own tunnel, and drops its senders.
TaskOver(r) ==
  /\ task' = [task EXCEPT ![r] = "over"]
  /\ active' = IF active = r THEN NoTunnel ELSE active

\* Nobody is told that a tunnel could not be started: the task of a GET panics
\* in blocking_send, the task of a POST logs the error.
TaskFails(r) ==
  /\ task[r] = "starting"
  /\ TaskOver(r)
  /\ UNCHANGED <<kind, program, pipe, printed, reader, found, chan, client>>

TaskSpawns(r) ==
  /\ task[r] = "starting"
  /\ task' = [task EXCEPT ![r] = "running"]
  /\ program' = [program EXCEPT ![r] = "up"]
  /\ reader' = [reader EXCEPT ![r] = [s \in Stream |-> "reads"]]
  /\ UNCHANGED <<active, kind, pipe, printed, found, chan, client>>

KillOnDrop(r) == program' = [program EXCEPT ![r] = IF @ = "up" THEN "dead" ELSE @]

\* Both readers are joined.
TaskEnds(r) ==
  /\ task[r] = "running"
  /\ \A s \in Stream : reader[r][s] = "over"
  /\ kind[r] = "sse" => program[r] = "dead"
  /\ TaskOver(r)
  /\ IF client[r] = "waiting" THEN UNCHANGED program ELSE KillOnDrop(r)
  /\ UNCHANGED <<kind, pipe, printed, reader, found, chan, client>>

-----------------------------------------------------------------------------
(* The tunnel program and stream_lines. *)

Prints(r, s, line) ==
  /\ program[r] = "up" /\ reader[r][s] # "over"
  /\ printed[r][s] < LINES
  /\ printed' = [printed EXCEPT ![r][s] = @ + 1]
  /\ pipe' = [pipe EXCEPT ![r][s] = Append(@, line)]
  /\ UNCHANGED <<active, kind, task, program, reader, found, chan, client>>

ProgramEnds(r) ==
  /\ program[r] = "up"
  /\ program' = [program EXCEPT ![r] = "dead"]
  /\ UNCHANGED <<active, kind, task, pipe, printed, reader, found, chan, client>>

\* A send waits for room; it is void when the receiver has been dropped.
Sent(r, line) ==
  IF client[r] = "waiting"
    THEN Len(chan[r]) < CHAN /\ chan' = [chan EXCEPT ![r] = Append(@, line)]
    ELSE UNCHANGED chan

\* A line is passed on; the first URL of the two pipes is announced after it.
ReadLine(r, s) ==
  /\ reader[r][s] = "reads"
  /\ pipe[r][s] # <<>> /\ Head(pipe[r][s]) # "end"
  /\ Sent(r, Head(pipe[r][s]))
  /\ pipe' = [pipe EXCEPT ![r][s] = Tail(@)]
  /\ IF Head(pipe[r][s]) = "url" /\ ~found[r]
       THEN found' = [found EXCEPT ![r] = TRUE]
            /\ reader' = [reader EXCEPT ![r][s] = "announces"]
       ELSE UNCHANGED <<found, reader>>
  /\ UNCHANGED <<active, kind, task, program, printed, client>>
Announce(r, s) ==
  /\ reader[r][s] = "announces"
  /\ Sent(r, "url")
  /\ reader' = [reader EXCEPT ![r][s] = "reads"]
  /\ UNCHANGED <<active, kind, task, program, pipe, printed, found, client>>

\* The pipe is closed, or a line is not text: an error counts as the end.
ReadEnd(r, s) ==
  /\ reader[r][s] = "reads"
  /\ \/ pipe[r][s] = <<>> /\ program[r] = "dead"
     \/ pipe[r][s] # <<>> /\ Head(pipe[r][s]) = "end"
  /\ reader' = [reader EXCEPT ![r][s] = "over"]
  /\ UNCHANGED <<active, kind, task, program, pipe, printed, found, chan, client>>

-----------------------------------------------------------------------------
(* The receiver. *)

\* Who still holds a sender: the task, and the handler of a POST, whose `tx`
\* lives as long as its loop.
KeepLikePost(r) == {h \in {"task", "handler"} : h = "task" => task[r] # "over"}
Senders(r) ==
  {h \in {"task", "handler"} :
     IF h = "task" THEN task[r] # "over" ELSE kind[r] = "json"}

\* The answer, or the end of the stream, drops the receiver and what it held,
\* the child that the task gave back included.
Leaves(r, how) ==
  /\ client' = [client EXCEPT ![r] = how]
  /\ chan' = [chan EXCEPT ![r] = <<>>]
  /\ IF task[r] = "over" THEN KillOnDrop(r) ELSE UNCHANGED program

Tells(line) == line \in {"url", "error"}
Receive(r) ==
  /\ client[r] = "waiting" /\ chan[r] # <<>>
  /\ IF kind[r] = "json" /\ Tells(Head(chan[r]))
       THEN Leaves(r, "ended")
       ELSE chan' = [chan EXCEPT ![r] = Tail(@)] /\ UNCHANGED <<client, program>>
  /\ UNCHANGED <<active, kind, task, pipe, printed, reader, found>>
ReceiveEnd(r) ==
  /\ client[r] = "waiting" /\ chan[r] = <<>> /\ Senders(r) = {}
  /\ Leaves(r, "ended")
  /\ UNCHANGED <<active, kind, task, pipe, printed, reader, found>>

ClientGoes(r) ==
  /\ client[r] = "waiting"
  /\ Leaves(r, "gone")
  /\ UNCHANGED <<active, kind, task, pipe, printed, reader, found>>

-----------------------------------------------------------------------------
Task(r) == TaskFails(r) \/ TaskSpawns(r) \/ TaskEnds(r)
Reader(r, s) == ReadLine(r, s) \/ Announce(r, s) \/ ReadEnd(r, s)
Receiver(r) == Receive(r) \/ ReceiveEnd(r)

Next ==
  \/ StopForward
  \/ \E r \in Request :
       \/ \E how \in {"sse", "json"} : StartForward(r, how)
       \/ Task(r) \/ ProgramEnds(r) \/ Receiver(r) \/ ClientGoes(r)
       \/ \E s \in Stream :
            Reader(r, s) \/ \E line \in Line : Prints(r, s, line)

Spec == Init /\ [][Next]_vars

\* The tasks of the process run.  A program need not print anything nor end.
Fairness ==
  \A r \in Request :
    /\ WF_vars(Task(r)) /\ WF_vars(Receiver(r))
    /\ \A s \in Stream : WF_vars(Reader(r, s))

-----------------------------------------------------------------------------
\* A line with the URL or an error is on its way through a living reader.
Promised(r) ==
  \E s \in Stream : \E i \in DOMAIN pipe[r][s] :
    /\ reader[r][s] # "over"
    /\ Tells(pipe[r][s][i])
    /\ \A j \in 1..i : pipe[r][s][j] # "end"

\* The event stream of a GET ends once its tunnel task is over, and a POST is
\* answered once its tunnel program has printed a URL or an error, however the
\* two readers, a full channel and the senders' drops interleave.  (A POST
\* whose tunnel cannot be started, or ends without such a line, waits for ever
\* on the sender it holds itself.)
UiEnds ==
  \A r \in Request :
    /\ (kind[r] = "sse" /\ task[r] = "over") ~> client[r] # "waiting"
    /\ (kind[r] = "json" /\ Promised(r)) ~> client[r] # "waiting"
=============================================================================
