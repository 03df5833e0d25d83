---------------------------- MODULE ChatStreams ----------------------------
(***************************************************************************)
(* Chat runs (server/src/ws_server.rs, chat_stream and chat_cancel).       *)
(*                                                                         *)
(* A run starts an agent CLI in a process group of its own.  Three shared  *)
(* tables find it again: `processes` (by request id, for a cancel and for  *)
(* the close of a connection), `cancelled_chats` (cancels that came before *)
(* there was a process) and the ChatProcessTracker (by pid, for Ctrl+C).   *)
(* Each has a lock of its own; runs, cancels, closing connections and the  *)
(* signal handler update them one at a time.                               *)
(***************************************************************************)
CONSTANTS
  Run,     \* bound: chat_stream requests; also stands for the run's pid
  Cancel,  \* bound: chat_cancel requests
  Conn,
  Rid,     \* request ids
  RidOf,   \* the id each run goes by: the client's requestId or the frame's id
  NoRun

ASSUME RunsAssumption == NoRun \notin Run \cup Cancel /\ RidOf \in [Run -> Rid]

VARIABLES
  run,       \* each run's next step
  proc,      \* its process group: "none", "alive", "dead"
  conn,      \* the connection a run belongs to, see Init
  open,      \* connections whose reader loop runs
  draining,  \* what a closing connection took out of `processes` to stop
  processes, \* request id -> run
  cancelled, \* cancelled_chats
  holder,    \* who holds its lock across steps
  tracker,   \* ChatProcessTracker
  termed,    \* process groups that were sent SIGTERM
  timers,    \* process groups that get SIGKILL when two seconds are over
  cancel,    \* each chat_cancel: next step, id and the run it found
  interrupted,
  asked      \* history: runs that were on their way when a cancel came

tables == <<processes, cancelled, holder, tracker>>
signals == <<termed, timers>>
vars == <<run, proc, conn, open, draining, tables, signals, cancel, interrupted, asked>>

-----------------------------------------------------------------------------
Init ==
  /\ run = [r \in Run |-> "unsent"]
  /\ proc = [r \in Run |-> "none"]
  /\ conn \in [Run -> Conn]
  /\ open = Conn
  /\ draining = [c \in Conn |-> {}]
  /\ processes = [id \in Rid |-> NoRun]
  /\ cancelled = {}
  /\ holder = NoRun
  /\ tracker = {}
  /\ termed = {} /\ timers = {}
  /\ cancel = [k \in Cancel |-> [pc |-> "unsent", found |-> NoRun]]
  /\ interrupted = FALSE
  /\ asked = {}

Goto(r, pc) == run' = [run EXCEPT ![r] = pc]

\* stop_chat_group: SIGTERM to the group now, SIGKILL two seconds later.
StopGroups(rs) == /\ termed' = termed \cup rs
                  /\ timers' = timers \cup rs

Underway == {"setup", "spawned", "tracked", "checked", "condemned", "running"}

-----------------------------------------------------------------------------
(* A run. *)

Start(r) ==
  /\ run[r] = "unsent"
  /\ conn[r] \in open
  /\ Goto(r, "setup")
  /\ UNCHANGED <<proc, conn, open, draining, tables, signals, cancel, interrupted, asked>>

\* No such folder, no CLI, bad attachments, no agent server, or no process.
SetupFails(r) ==
  /\ run[r] = "setup"
  /\ Goto(r, "done")
  /\ UNCHANGED <<proc, conn, open, draining, tables, signals, cancel, interrupted, asked>>

SpawnChild(r) ==
  /\ run[r] = "setup"
  /\ proc' = [proc EXCEPT ![r] = "alive"]
  /\ Goto(r, "spawned")
  /\ UNCHANGED <<conn, open, draining, tables, signals, cancel, interrupted, asked>>

Track(r) ==
  /\ run[r] = "spawned"
  /\ tracker' = tracker \cup {r}
  /\ Goto(r, "tracked")
  /\ UNCHANGED <<proc, conn, open, draining, processes, cancelled, holder,
                 signals, cancel, interrupted, asked>>

\* Was it cancelled already?  If not, the lock is kept until its process can be
\* found by id.
CheckUnlocked(r) ==
  /\ run[r] = "tracked"
  /\ holder = NoRun
  /\ Goto(r, IF RidOf[r] \in cancelled THEN "condemned" ELSE "checked")
  /\ cancelled' = cancelled \ {RidOf[r]}
  /\ UNCHANGED <<proc, conn, open, draining, processes, holder, tracker,
                 signals, cancel, interrupted, asked>>
Check(r) ==
  /\ run[r] = "tracked"
  /\ holder = NoRun
  /\ IF RidOf[r] \in cancelled
     THEN Goto(r, "condemned") /\ UNCHANGED holder
     ELSE Goto(r, "checked") /\ holder' = r
  /\ cancelled' = cancelled \ {RidOf[r]}
  /\ UNCHANGED <<proc, conn, open, draining, processes, tracker, signals,
                 cancel, interrupted, asked>>

Insert(r) ==
  /\ run[r] = "checked"
  /\ processes' = [processes EXCEPT ![RidOf[r]] = r]
  /\ holder' = NoRun
  /\ Goto(r, "running")
  /\ UNCHANGED <<proc, conn, open, draining, cancelled, tracker, signals,
                 cancel, interrupted, asked>>

StopCondemned(r) ==
  /\ run[r] = "condemned"
  /\ StopGroups({r})
  /\ Goto(r, "running")
  /\ UNCHANGED <<proc, conn, open, draining, tables, cancel, interrupted, asked>>

\* wait() returned and the output has been forwarded, or given up on.
Untrack(r) ==
  /\ run[r] = "running"
  /\ proc[r] = "dead"
  /\ tracker' = tracker \ {r}
  /\ Goto(r, "untracked")
  /\ UNCHANGED <<proc, conn, open, draining, processes, cancelled, holder,
                 signals, cancel, interrupted, asked>>

RemoveProcess(r) ==
  /\ run[r] = "untracked"
  /\ processes' = [processes EXCEPT ![RidOf[r]] = NoRun]
  /\ Goto(r, "removed")
  /\ UNCHANGED <<proc, conn, open, draining, cancelled, holder, tracker,
                 signals, cancel, interrupted, asked>>

RemoveMark(r) ==
  /\ run[r] = "removed"
  /\ holder = NoRun
  /\ cancelled' = cancelled \ {RidOf[r]}
  /\ Goto(r, "done")
  /\ UNCHANGED <<proc, conn, open, draining, processes, holder, tracker,
                 signals, cancel, interrupted, asked>>

Setup(r) == SetupFails(r) \/ SpawnChild(r)
PastSetup(r) == \/ Track(r) \/ Check(r) \/ Insert(r) \/ StopCondemned(r)
                \/ Untrack(r) \/ RemoveProcess(r) \/ RemoveMark(r)
RunStep(r) == Setup(r) \/ PastSetup(r)

-----------------------------------------------------------------------------
(* chat_cancel. *)

\* Both locks: the run's process, or a mark for the run to find.
CancelFindsOnly(k, id) ==
  /\ cancel[k].pc = "unsent"
  /\ holder = NoRun
  /\ cancel' = [cancel EXCEPT ![k] = [pc |-> IF processes[id] = NoRun THEN "done" ELSE "stop",
                                      found |-> processes[id]]]
  /\ asked' = asked \cup {r \in Run : RidOf[r] = id /\ run[r] \in Underway}
  /\ UNCHANGED <<run, proc, conn, open, draining, tables, signals, interrupted>>
CancelLooks(k, id) ==
  /\ cancel[k].pc = "unsent"
  /\ holder = NoRun
  /\ IF processes[id] = NoRun
     THEN /\ cancelled' = cancelled \cup {id}
          /\ cancel' = [cancel EXCEPT ![k].pc = "done"]
     ELSE /\ cancel' = [cancel EXCEPT ![k] = [pc |-> "stop", found |-> processes[id]]]
          /\ UNCHANGED cancelled
  /\ asked' = asked \cup {r \in Run : RidOf[r] = id /\ run[r] \in Underway}
  /\ UNCHANGED <<run, proc, conn, open, draining, processes, holder, tracker,
                 signals, interrupted>>

CancelStops(k) ==
  /\ cancel[k].pc = "stop"
  /\ tracker' = tracker \ {cancel[k].found}
  /\ StopGroups({cancel[k].found})
  /\ cancel' = [cancel EXCEPT ![k].pc = "done"]
  /\ UNCHANGED <<run, proc, conn, open, draining, processes, cancelled, holder,
                 interrupted, asked>>

-----------------------------------------------------------------------------
(* The close of a connection: whatever is in `processes` is stopped. *)

Listed == {r \in Run : \E id \in Rid : processes[id] = r}

Drain(c) ==
  /\ c \in open
  /\ open' = open \ {c}
  /\ draining' = [draining EXCEPT ![c] = Listed]
  /\ processes' = [id \in Rid |-> NoRun]
  /\ UNCHANGED <<run, proc, conn, cancelled, holder, tracker, signals, cancel,
                 interrupted, asked>>

DrainedOnly(c) ==
  /\ draining[c] # {}
  /\ tracker' = tracker \ draining[c]
  /\ draining' = [draining EXCEPT ![c] = {}]
  /\ UNCHANGED <<run, proc, conn, open, processes, cancelled, holder, signals,
                 cancel, interrupted, asked>>
StopDrained(c) ==
  /\ draining[c] # {}
  /\ tracker' = tracker \ draining[c]
  /\ StopGroups(draining[c])
  /\ draining' = [draining EXCEPT ![c] = {}]
  /\ UNCHANGED <<run, proc, conn, open, processes, cancelled, holder, cancel,
                 interrupted, asked>>

-----------------------------------------------------------------------------
(* Processes and signals. *)

ProcessExits(r) ==
  /\ proc[r] = "alive"
  /\ proc' = [proc EXCEPT ![r] = "dead"]
  /\ UNCHANGED <<run, conn, open, draining, tables, signals, cancel, interrupted, asked>>

\* The two seconds of stop_chat_group are over.
KillTimer(r) ==
  /\ r \in timers
  /\ timers' = timers \ {r}
  /\ proc' = [proc EXCEPT ![r] = "dead"]
  /\ UNCHANGED <<run, conn, open, draining, tables, termed, cancel, interrupted, asked>>

\* Ctrl+C: ChatProcessTracker::kill_all, once.
Interrupt ==
  /\ ~interrupted
  /\ interrupted' = TRUE
  /\ termed' = termed \cup tracker
  /\ tracker' = {}
  /\ UNCHANGED <<run, proc, conn, open, draining, processes, cancelled, holder,
                 timers, cancel, asked>>

-----------------------------------------------------------------------------
Next ==
  \/ \E r \in Run : Start(r) \/ RunStep(r) \/ ProcessExits(r) \/ KillTimer(r)
  \/ \E k \in Cancel : CancelStops(k) \/ \E id \in Rid : CancelLooks(k, id)
  \/ \E c \in Conn : Drain(c) \/ StopDrained(c)
  \/ Interrupt

Spec == Init /\ [][Next]_vars

\* Tasks run and timers fire.  An agent need not exit, nor heed SIGTERM; and a
\* setup need not end, which awaits an agent server (AgentServers!Mute).
Fairness ==
  /\ \A r \in Run : WF_vars(PastSetup(r)) /\ WF_vars(KillTimer(r))
  /\ \A k \in Cancel : WF_vars(CancelStops(k))
  /\ \A c \in Conn : WF_vars(StopDrained(c))

FairSpec == Spec /\ Fairness

-----------------------------------------------------------------------------
RunIds == \A r, s \in Run : RidOf[r] = RidOf[s] => r = s

\* Types; the lock's holder is the run between its check and its insert.
TypeOK ==
  /\ run \in [Run -> Underway \cup {"unsent", "untracked", "removed", "done"}]
  /\ proc \in [Run -> {"none", "alive", "dead"}]
  /\ conn \in [Run -> Conn]
  /\ open \subseteq Conn
  /\ draining \in [Conn -> SUBSET Run]
  /\ processes \in [Rid -> Run \cup {NoRun}]
  /\ cancelled \subseteq Rid
  /\ holder \in Run \cup {NoRun}
  /\ tracker \subseteq Run /\ termed \subseteq Run /\ timers \subseteq Run
  /\ cancel \in [Cancel -> [pc : {"unsent", "stop", "done"}, found : Run \cup {NoRun}]]
  /\ interrupted \in BOOLEAN
  /\ asked \subseteq Run
  /\ \A r \in Run : run[r] = "checked" <=> holder = r

\* A cancel is never left as a mark for a process that could have been found:
\* the check and the insert are one step for a cancel, although they take two
\* locks (chat_stream, lines 1547-1557; chat_cancel, 1640-1648).
MarkOrProcess == \A id \in cancelled : processes[id] = NoRun

\* What Ctrl+C has to reach is tracked, or is being stopped anyway: every
\* process except one that is just being spawned ("so CLI children never leak
\* as orphans").
TrackedOrStopped ==
  \A r \in Run : proc[r] = "alive" /\ run[r] # "spawned" => r \in tracker \cup termed

\* `processes` names only runs that still have clean-up to do, so a cancel or a
\* close does not signal the group of a pid that was given back long ago.
ListedIsUnderway ==
  \A id \in Rid : LET r == processes[id] IN
    r # NoRun => RidOf[r] = id /\ run[r] \in {"running", "untracked"}

\* What the three tables of runs say about the processes agrees: `processes`,
\* the marks of cancels that found none, and the tracker of Ctrl+C.
TablesInv == TypeOK /\ MarkOrProcess /\ TrackedOrStopped /\ ListedIsUnderway

\* A run can be stopped as long as it runs ("Keep chat processes addressable
\* across websocket reconnects"): it is listed under its id, or someone is
\* about to stop it, if ids are not reused.
Addressable ==
  RunIds =>
    \A r \in Run : run[r] = "running" /\ proc[r] = "alive" =>
      \/ processes[RidOf[r]] = r
      \/ r \in termed
      \/ \E c \in Conn : r \in draining[c]

\* A cancel stops the run it was meant for, whichever step it catches it in,
\* and even an agent that ignores SIGTERM; only a run that never gets as far as
\* a process, because its setup does not end, does not heed it.
CancelIsHeeded ==
  RunIds => \A r \in Run : r \in asked ~> (run[r] = "done" \/ [](run[r] = "setup"))
=============================================================================
