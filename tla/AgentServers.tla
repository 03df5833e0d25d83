---------------------------- MODULE AgentServers ----------------------------
(***************************************************************************)
(* The long-lived "<agent> serve" processes (server/src/agent_servers.rs). *)
(*                                                                         *)
(* ensure_server answers with the running server of a key, or boots one:   *)
(* the table is looked up under one lock, a dead entry is removed under a  *)
(* second, and the new server is inserted under a third, a boot later.     *)
(* Chat runs call it from tasks of their own.  The keys do not affect each *)
(* other, so there is one here, that of a studio server: it has a work     *)
(* directory that goes when its ServerHandle is dropped.                   *)
(*                                                                         *)
(* A server, its pid, port and directory are named by the call that booted *)
(* it; pids are not reused here.                                           *)
(***************************************************************************)
EXTENDS Integers

CONSTANTS
  Call,    \* ensure_server calls
  None,    \* no server
  BANNER   \* output lines searched for the port (40 in the code)

AgentAssumption ==
  None # "error" /\ {None, "error"} \cap Call = {} /\ BANNER \in Nat \ {0}

VARIABLES
  pc,      \* "idle", "remove", "boot", "track", "banner", "giveUp", "insert", "done"
  server,  \* the table's entry: the server its ServerHandle belongs to
  proc,    \* "none", "running", "condemned" (kill -9 under way), "dead"
  pipe,    \* its stdout: "empty", "line", "banner", "garbage" (not UTF-8)
  lines,   \* how many lines of it were read
  dir,     \* its work directory: "none", "made", "removed"
  tracked, \* ChatProcessTracker's pids
  signalled, \* servers whose group kill_all has sent SIGTERM
  answer   \* what the call returned: None yet, "error", or a server

trackerVars == <<tracked, signalled>>
vars == <<pc, server, proc, pipe, lines, dir, trackerVars, answer>>

-----------------------------------------------------------------------------
Alive(c) == proc[c] \in {"running", "condemned"}

Init ==
  /\ pc = [c \in Call |-> "idle"]
  /\ server = None
  /\ proc = [c \in Call |-> "none"]
  /\ pipe = [c \in Call |-> "empty"]
  /\ lines = [c \in Call |-> 0]
  /\ dir = [c \in Call |-> "none"]
  /\ tracked = {} /\ signalled = {}
  /\ answer = [c \in Call |-> None]

GoTo(c, place) == pc' = [pc EXCEPT ![c] = place]
Return(c, what) == /\ GoTo(c, "done")
                   /\ answer' = [answer EXCEPT ![c] = what]

\* ServerHandle::drop removes the directory; the process is not touched.
DropHandle(s) == dir' = IF s = None THEN dir ELSE [dir EXCEPT ![s] = "removed"]

-----------------------------------------------------------------------------
Reuse(c) ==
  /\ pc[c] = "idle"
  /\ server # None
  /\ Alive(server)
  /\ Return(c, server)
  /\ UNCHANGED <<server, proc, pipe, lines, dir, trackerVars>>

MissWhileAlive(c) ==
  /\ pc[c] = "idle"
  /\ GoTo(c, "remove")
  /\ UNCHANGED <<server, proc, pipe, lines, dir, trackerVars, answer>>
Miss(c) ==
  /\ pc[c] = "idle"
  /\ server # None => ~Alive(server)
  /\ GoTo(c, "remove")
  /\ UNCHANGED <<server, proc, pipe, lines, dir, trackerVars, answer>>

\* Whatever the entry is by now.
Remove(c) ==
  /\ pc[c] = "remove"
  /\ server' = None
  /\ DropHandle(server)
  /\ GoTo(c, "boot")
  /\ UNCHANGED <<proc, pipe, lines, trackerVars, answer>>

\* No such program, no directory, or no process: a directory made is removed.
Boot(c) ==
  /\ pc[c] = "boot"
  /\ \/ /\ dir' = [dir EXCEPT ![c] = "made"]
        /\ proc' = [proc EXCEPT ![c] = "running"]
        /\ GoTo(c, "track")
        /\ UNCHANGED answer
     \/ /\ Return(c, "error")
        /\ UNCHANGED <<dir, proc>>
  /\ UNCHANGED <<server, pipe, lines, trackerVars>>

Track(c) ==
  /\ pc[c] = "track"
  /\ tracked' = tracked \cup {c}
  /\ GoTo(c, "banner")
  /\ UNCHANGED <<server, proc, pipe, lines, dir, signalled, answer>>

\* A line without a port in it.
ReadUncounted(c) ==
  /\ pc[c] = "banner"
  /\ pipe[c] = "line"
  /\ pipe' = [pipe EXCEPT ![c] = "empty"]
  /\ UNCHANGED <<pc, server, proc, lines, dir, trackerVars, answer>>
ReadLine(c) ==
  /\ pc[c] = "banner"
  /\ pipe[c] = "line"
  /\ pipe' = [pipe EXCEPT ![c] = "empty"]
  /\ lines' = [lines EXCEPT ![c] = @ + 1]
  /\ IF lines'[c] = BANNER THEN GoTo(c, "giveUp") ELSE UNCHANGED pc
  /\ UNCHANGED <<server, proc, dir, trackerVars, answer>>

ReadBanner(c) ==
  /\ pc[c] = "banner"
  /\ pipe[c] = "banner"
  /\ GoTo(c, "insert")
  /\ UNCHANGED <<server, proc, pipe, lines, dir, trackerVars, answer>>

ReadEof(c) ==
  /\ pc[c] = "banner"
  /\ pipe[c] = "empty"
  /\ proc[c] = "dead"
  /\ GoTo(c, "giveUp")
  /\ UNCHANGED <<server, proc, pipe, lines, dir, trackerVars, answer>>

\* read_line fails and "?" returns: nothing is undone, and the Child that is
\* dropped is not killed.
ReadFails(c) ==
  /\ pc[c] = "banner"
  /\ pipe[c] = "garbage"
  /\ Return(c, "error")
  /\ UNCHANGED <<server, proc, pipe, lines, dir, trackerVars>>

GiveUpWithoutKill(c) ==
  /\ pc[c] = "giveUp"
  /\ tracked' = tracked \ {c}
  /\ dir' = [dir EXCEPT ![c] = "removed"]
  /\ Return(c, "error")
  /\ UNCHANGED <<server, proc, pipe, lines, signalled>>
\* No port: unregister, start "kill -9", remove the directory.
GiveUp(c) ==
  /\ pc[c] = "giveUp"
  /\ tracked' = tracked \ {c}
  /\ proc' = IF Alive(c) THEN [proc EXCEPT ![c] = "condemned"] ELSE proc
  /\ dir' = [dir EXCEPT ![c] = "removed"]
  /\ Return(c, "error")
  /\ UNCHANGED <<server, pipe, lines, signalled>>

\* insert() drops the handle it replaces, if any.
Insert(c) ==
  /\ pc[c] = "insert"
  /\ server' = c
  /\ DropHandle(server)
  /\ Return(c, c)
  /\ UNCHANGED <<proc, pipe, lines, trackerVars>>

-----------------------------------------------------------------------------
(* The agent's process, and Ctrl+C. *)

Writes(c) ==
  /\ proc[c] = "running"
  /\ pc[c] \in {"track", "banner"}
  /\ pipe[c] = "empty"
  /\ \E what \in {"line", "banner", "garbage"} : pipe' = [pipe EXCEPT ![c] = what]
  /\ UNCHANGED <<pc, server, proc, lines, dir, trackerVars, answer>>

Dies(c) ==
  /\ Alive(c)
  /\ proc' = [proc EXCEPT ![c] = "dead"]
  /\ UNCHANGED <<pc, server, pipe, lines, dir, trackerVars, answer>>

\* ChatProcessTracker::kill_all, from the handler's own thread: SIGTERM, which a
\* server may ignore; nobody tracks it any more.  Once: the handler does not outlive
\* its first Ctrl+C (Shutdown).
KillAll ==
  /\ tracked # {} /\ signalled = {}
  /\ signalled' = signalled \cup tracked
  /\ tracked' = {}
  /\ UNCHANGED <<pc, server, proc, pipe, lines, dir, answer>>

-----------------------------------------------------------------------------
Ensure(c) == \/ Reuse(c) \/ Miss(c) \/ Remove(c) \/ Boot(c) \/ Track(c)
             \/ ReadLine(c) \/ ReadBanner(c) \/ ReadEof(c) \/ ReadFails(c)
             \/ GiveUp(c) \/ Insert(c)

Next == \/ \E c \in Call : Ensure(c) \/ Writes(c) \/ Dies(c)
        \/ KillAll

Spec == Init /\ [][Next]_vars

Begun(c) == pc[c] \notin {"idle", "done"}

\* A call that has begun is polled until it returns.
Fairness == \A c \in Call : WF_vars(Begun(c) /\ Ensure(c))

-----------------------------------------------------------------------------
TypeOK ==
  /\ pc \in [Call -> {"idle", "remove", "boot", "track", "banner", "giveUp",
                      "insert", "done"}]
  /\ server \in Call \cup {None}
  /\ proc \in [Call -> {"none", "running", "condemned", "dead"}]
  /\ pipe \in [Call -> {"empty", "line", "banner", "garbage"}]
  /\ lines \in [Call -> 0..BANNER]
  /\ dir \in [Call -> {"none", "made", "removed"}]
  /\ tracked \subseteq Call /\ signalled \subseteq Call
  /\ answer \in [Call -> Call \cup {None, "error"}]

\* Whenever Ctrl+C comes it finds every server process that runs, also those that
\* the table has lost, but one that is just being spawned; and one that it finds
\* no more was sent SIGTERM.  (A server that ignores that survives "as an orphan".)
ShutdownReachesServers ==
  \A c \in Call :
    proc[c] = "running" => c \in tracked \cup signalled \/ pc[c] = "track"

\* A server the table answers with has the directory its runs are started in.
ListedHasItsDirectory == server # None => dir[server] = "made"

\* The servers that run, the tracker, the table and the directories agree.
ServersInv == TypeOK /\ ShutdownReachesServers /\ ListedHasItsDirectory

Serves(c) == answer[c] = c /\ proc[c] = "running"

\* "Manages one long-lived serve process per supported agent": two servers of
\* one key never serve at the same time.
OneServer == \A c, d \in Call : Serves(c) /\ Serves(d) => c = d

\* The directory of a server outlives the server, for every call that was
\* answered with it and starts its run there.
DirectoryOutlivesServer == \A c \in Call : Serves(c) => dir[c] = "made"

\* Every call returns, unless its server lives and says nothing more: the window
\* for the banner is counted in lines.
Mute(c) == pc[c] = "banner" /\ Alive(c) /\ pipe[c] = "empty"
EnsureReturns == \A c \in Call : Begun(c) ~> (pc[c] = "done" \/ []Mute(c))
=============================================================================
