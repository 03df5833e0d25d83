------------------------------ MODULE PtyInput ------------------------------
(***************************************************************************)
(* Keystrokes, and who runs while they are written (write, write_binary,   *)
(* resize, kill and the reader thread in server/src/pty.rs; the binary     *)
(* frames of ws_server.rs 781-830).                                        *)
(*                                                                         *)
(* Every manager call takes the one lock of PtyManager and keeps it until  *)
(* it returns; a write returns when the terminal has taken all of it.  The *)
(* lock and the write block the thread they run on, a worker of the async  *)
(* runtime, and the tasks that carry a terminal's output to its client     *)
(* need a worker too.  A terminal that nobody reads stops its shell, and a *)
(* stopped shell reads no input.  A kill needs the lock of the child as    *)
(* well, which the reader thread keeps from the end of the output to that  *)
(* of the shell.                                                           *)
(***************************************************************************)
EXTENDS Integers, FiniteSets

CONSTANTS
  Session,
  Call,      \* manager calls: input frames, and pty_* requests
  NoCall,    \* nobody has the lock
  WORKERS,   \* threads of the runtime (one for each CPU)
  TTY_IN,    \* what a terminal takes before its shell reads
  MIN_PAYLOAD, \* the least a binary frame may carry (4 bytes)
  PIPE_OUT,  \* what the way from the shell to the client holds (the terminal,
             \* the feed, the channel and the outbound queue, the socket)
  MaxInput   \* bound: the longest write

ASSUME InputAssumption ==
  /\ NoCall \notin Call
  /\ {WORKERS, TTY_IN, PIPE_OUT} \subseteq Nat \ {0}
  /\ {MIN_PAYLOAD, MaxInput} \subseteq Nat

VARIABLES
  pc,      \* "idle", "refused", "lock" (blocked on the mutex), "write" (has it), "done"
  on,      \* the session a call is about
  kills,   \* the calls that are kills; a sweep or a shutdown is another
  left,    \* input it still has to write; none for a resize and the like
  owner,   \* who has the manager's lock
  input,   \* input each terminal holds
  output,  \* output on its way to the client
  shell,   \* "runs", "closed" (lives on without its terminal), "dead"
  reader,  \* the reader thread: "reads", "waits" (for the shell to exit), "gone"
  client   \* "reads", "paused" (its tab or its network sleeps)

vars == <<pc, on, kills, left, owner, input, output, shell, reader, client>>

\* Threads that a blocking call keeps from the tasks of the runtime.
Blocked == {c \in Call : pc[c] \in {"lock", "write"}}
WorkerFree == Cardinality(Blocked) < WORKERS

Init ==
  /\ pc = [c \in Call |-> "idle"]
  /\ on \in [Call -> Session] /\ kills \in SUBSET Call
  /\ left = [c \in Call |-> 0]
  /\ owner = NoCall
  /\ input = [s \in Session |-> 0]
  /\ output = [s \in Session |-> 0]
  /\ shell = [s \in Session |-> "runs"]
  /\ reader = [s \in Session |-> "reads"]
  /\ client = [s \in Session |-> "reads"]

-----------------------------------------------------------------------------
(* The calls. *)

\* A worker takes the task up and asks for the lock.
Begin(c, n) ==
  /\ pc[c] = "idle" /\ WorkerFree
  /\ c \in kills => n = 0
  /\ pc' = [pc EXCEPT ![c] = "lock"]
  /\ left' = [left EXCEPT ![c] = n]
  /\ UNCHANGED <<on, kills, owner, input, output, shell, reader, client>>

\* A binary frame with fewer bytes is dropped: its length is checked as if four
\* more came before the payload.  (A pty_write of as many begins.)
Refuse(c, n) ==
  /\ pc[c] = "idle" /\ WorkerFree
  /\ c \notin kills /\ n < MIN_PAYLOAD
  /\ pc' = [pc EXCEPT ![c] = "refused"]
  /\ UNCHANGED <<on, kills, left, owner, input, output, shell, reader, client>>

Lock(c) ==
  /\ pc[c] = "lock"
  /\ owner = NoCall
  /\ owner' = c
  /\ pc' = [pc EXCEPT ![c] = "write"]
  /\ UNCHANGED <<on, kills, left, input, output, shell, reader, client>>

\* write_all: as much as the terminal takes, until all is written.
WriteSome(c) ==
  LET s == on[c] IN
  /\ pc[c] = "write" /\ left[c] > 0
  /\ shell[s] = "runs"
  /\ input[s] < TTY_IN
  /\ input' = [input EXCEPT ![s] = @ + 1]
  /\ left' = [left EXCEPT ![c] = @ - 1]
  /\ UNCHANGED <<pc, on, kills, owner, output, shell, reader, client>>

\* The write is over, or fails because the other side of the terminal is gone.
Return(c) ==
  /\ pc[c] = "write" /\ c \notin kills
  /\ left[c] = 0 \/ shell[on[c]] # "runs"
  /\ pc' = [pc EXCEPT ![c] = "done"]
  /\ owner' = NoCall
  /\ UNCHANGED <<on, kills, left, input, output, shell, reader, client>>

\* Out of the map, and SIGKILL to the process group.
KillSession(c) ==
  /\ pc[c] = "write" /\ c \in kills
  /\ reader[on[c]] # "waits"
  /\ shell' = [shell EXCEPT ![on[c]] = "dead"]
  /\ pc' = [pc EXCEPT ![c] = "done"]
  /\ owner' = NoCall
  /\ UNCHANGED <<on, kills, left, input, output, reader, client>>

-----------------------------------------------------------------------------
(* The shells, and the tasks that carry their output. *)

\* A program that answers what it reads, or the echo of the terminal.
Answer(s) ==
  /\ shell[s] = "runs"
  /\ input[s] > 0 /\ output[s] < PIPE_OUT
  /\ input' = [input EXCEPT ![s] = @ - 1]
  /\ output' = [output EXCEPT ![s] = @ + 1]
  /\ UNCHANGED <<pc, on, kills, left, owner, shell, reader, client>>

\* Output that nobody asked for.
Chatter(s) ==
  /\ shell[s] = "runs" /\ output[s] < PIPE_OUT
  /\ output' = [output EXCEPT ![s] = @ + 1]
  /\ UNCHANGED <<pc, on, kills, left, owner, input, shell, reader, client>>

\* It may close its terminal and live on.
ShellEnds(s) ==
  /\ \/ shell[s] = "runs" /\ \E how \in {"closed", "dead"} : shell' = [shell EXCEPT ![s] = how]
     \/ shell[s] = "closed" /\ shell' = [shell EXCEPT ![s] = "dead"]
  /\ UNCHANGED <<pc, on, kills, left, owner, input, output, reader, client>>

\* At the end of the output the reader thread waits for the exit.
ReaderEnds(s) ==
  /\ shell[s] # "runs"
  /\ \/ reader[s] = "reads" /\ output[s] < PIPE_OUT /\ reader' = [reader EXCEPT ![s] = "waits"]
     \/ reader[s] = "waits" /\ shell[s] = "dead" /\ reader' = [reader EXCEPT ![s] = "gone"]
  /\ UNCHANGED <<pc, on, kills, left, owner, input, output, shell, client>>

\* Stream, subscriber and writer task: each step needs a worker.
CarryBusily(s) ==
  /\ output[s] > 0 /\ client[s] = "reads" /\ owner = NoCall
  /\ output' = [output EXCEPT ![s] = @ - 1]
  /\ UNCHANGED <<pc, on, kills, left, owner, input, shell, reader, client>>
Carry(s) ==
  /\ output[s] > 0 /\ client[s] = "reads" /\ WorkerFree
  /\ output' = [output EXCEPT ![s] = @ - 1]
  /\ UNCHANGED <<pc, on, kills, left, owner, input, shell, reader, client>>

Pause(s) ==
  /\ client[s] = "reads"
  /\ client' = [client EXCEPT ![s] = "paused"]
  /\ UNCHANGED <<pc, on, kills, left, owner, input, output, shell, reader>>
Resume(s) ==
  /\ client[s] = "paused"
  /\ client' = [client EXCEPT ![s] = "reads"]
  /\ UNCHANGED <<pc, on, kills, left, owner, input, output, shell, reader>>

-----------------------------------------------------------------------------
CallStep(c) == Lock(c) \/ WriteSome(c) \/ Return(c) \/ KillSession(c)

Next ==
  \/ \E c \in Call : CallStep(c) \/ \E n \in 0..MaxInput : Begin(c, n) \/ Refuse(c, n)
  \/ \E s \in Session : \/ Answer(s) \/ Chatter(s) \/ ShellEnds(s)
                        \/ ReaderEnds(s) \/ Carry(s) \/ Pause(s) \/ Resume(s)

Spec == Init /\ [][Next]_vars

\* Threads run, and the lock does not pass one by for ever; a shell reads what
\* it is sent unless its output is stopped; clients that pause come back.
Fairness ==
  /\ \A c \in Call : SF_vars(Lock(c)) /\ WF_vars(WriteSome(c))
                      /\ WF_vars(Return(c)) /\ WF_vars(KillSession(c))
  /\ \A s \in Session : SF_vars(Answer(s)) /\ SF_vars(Carry(s))
                         /\ WF_vars(Resume(s)) /\ WF_vars(ReaderEnds(s))

FairSpec == Spec /\ Fairness

-----------------------------------------------------------------------------
\* A reader thread that keeps the lock of a child that does not exit.
Hung == \E s \in Session : reader[s] = "waits" /\ shell[s] = "closed"

\* There are workers left for the output while calls wait: a write then gets
\* done, a kill gets the child, and so do the calls behind them, if the clients
\* read and no shell lives on without its terminal.
CallsReturn == \A c \in Call : pc[c] = "lock" ~> pc[c] = "done" \/ []Hung
=============================================================================
