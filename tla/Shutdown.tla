------------------------------ MODULE Shutdown ------------------------------
(***************************************************************************)
(* The end of the server (server/src/main.rs 178-286): the Ctrl+C handler, *)
(* on a thread of its own, against the connections that go on spawning     *)
(* shells and chat runs, and against the manager's lock.                   *)
(*                                                                         *)
(* The handler stops chat runs, then shells one by one, then means to stop *)
(* the port forwards in a task and to send the shutdown message.           *)
(* It gets to the shells when it gets the manager's lock, and a call may   *)
(* keep that for ever: write_all waits for a terminal that nobody reads.   *)
(* It gets past a shell when it gets the lock of the child, which the      *)
(* reader thread keeps from the end of the output to that of the shell.    *)
(* Nothing after the shells is done: tokio::spawn                          *)
(* panics on a thread that is not the runtime's.  A release build (panic = *)
(* "abort" in Cargo.toml) ends there, as any panic ends it; in a dev build *)
(* the thread ends, and the signals that follow wait for a thread that is  *)
(* no more.                                                                *)
(***************************************************************************)
EXTENDS Naturals

CONSTANTS
  Shell, Chat, \* terminal sessions and chat runs
  Conn,        \* connection tasks, which take the manager's lock
  Nobody

ShutdownAssumption == Nobody \notin Conn \cup Shell /\ Shell \cap Chat = {}

VARIABLES
  aborts,   \* a release build: a panic aborts the process
  server,   \* "up", "terminated" (by SIGTERM, at once), "aborted"
  sigint,   \* Ctrl+C pressed, not taken by the handler yet
  handler,  \* "waiting", "chats", "sessions" (before the lock), "killing" (with
            \* it), "forwards", "panicked"
  shell,    \* "none", "alive", "closed" (lives on without its terminal, and the
            \* reader thread has the lock of the child), "left" (its
            \* session was replaced by one of the same id), "dead"
  sessions, \* the manager's table
  victim,   \* the session the handler has taken out to kill
  owner,    \* who has its lock
  poisoned, \* a thread panicked with it
  chat,     \* "none", "spawned", "alive", "dead"
  tracker,  \* ChatProcessTracker's pids
  termed,   \* runs whose group was sent SIGTERM
  before    \* the shells and the tracked runs there were at the first Ctrl+C

vars == <<aborts, server, sigint, handler, shell, sessions, victim, owner,
          poisoned, chat, tracker, termed, before>>

Init ==
  /\ aborts \in BOOLEAN
  /\ server = "up" /\ sigint = FALSE /\ handler = "waiting"
  /\ shell = [s \in Shell |-> "none"] /\ sessions = {} /\ victim = Nobody
  /\ owner = Nobody /\ poisoned = FALSE
  /\ chat = [r \in Chat |-> "none"] /\ tracker = {} /\ termed = {}
  /\ before = {}

Up == server = "up"

-----------------------------------------------------------------------------
(* Connections. *)

\* The map drops the session of the old shell, and does not kill it.
Replace(old, s) ==
  /\ shell' = [shell EXCEPT ![s] = "alive", ![old] = IF @ = "dead" THEN @ ELSE "left"]
  /\ sessions' = (sessions \ {old}) \cup {s}

HandlerHasLock == handler = "killing"

LockManager(c) ==
  /\ Up /\ owner = Nobody /\ ~HandlerHasLock /\ ~poisoned
  /\ owner' = c
  /\ UNCHANGED <<aborts, server, sigint, handler, shell, sessions, victim, poisoned,
                 chat, tracker, termed, before>>
\* A call under the lock spawns a shell, perhaps under the id of another, ends
\* one (a request, or the sweep), or does something else.
Call(c) ==
  /\ Up /\ owner = c
  /\ owner' = Nobody
  /\ \/ \E s \in Shell : /\ shell[s] = "none"
                         /\ \/ /\ shell' = [shell EXCEPT ![s] = "alive"]
                               /\ sessions' = sessions \cup {s}
                            \/ \E old \in sessions : Replace(old, s)
     \/ \E s \in sessions : /\ shell[s] # "closed"
                            /\ shell' = [shell EXCEPT ![s] = "dead"]
                            /\ sessions' = sessions \ {s}
     \/ UNCHANGED <<shell, sessions>>
  /\ UNCHANGED <<aborts, server, sigint, handler, victim, poisoned, chat, tracker,
                 termed, before>>
CallPanics(c) ==
  /\ Up /\ owner = c
  /\ \/ /\ aborts /\ server' = "aborted"
        /\ UNCHANGED <<owner, poisoned>>
     \/ /\ ~aborts /\ owner' = Nobody /\ poisoned' = TRUE
        /\ UNCHANGED server
  /\ UNCHANGED <<aborts, sigint, handler, shell, sessions, victim, chat, tracker,
                 termed, before>>

SpawnChat(r) ==
  /\ Up /\ chat[r] = "none"
  /\ chat' = [chat EXCEPT ![r] = "spawned"]
  /\ UNCHANGED <<aborts, server, sigint, handler, shell, sessions, victim, owner,
                 poisoned, tracker, termed, before>>
Register(r) ==
  /\ Up /\ chat[r] = "spawned"
  /\ chat' = [chat EXCEPT ![r] = "alive"]
  /\ tracker' = tracker \cup {r}
  /\ UNCHANGED <<aborts, server, sigint, handler, shell, sessions, victim, owner,
                 poisoned, termed, before>>
ChatEnds(r) ==
  /\ chat[r] = "alive"
  /\ chat' = [chat EXCEPT ![r] = "dead"]
  /\ tracker' = IF Up THEN tracker \ {r} ELSE tracker
  /\ UNCHANGED <<aborts, server, sigint, handler, shell, sessions, victim, owner,
                 poisoned, termed, before>>

\* Also at the hang-up of a terminal whose server is gone.
ShellEnds(s) ==
  /\ shell[s] \in {"alive", "closed", "left"}
  /\ shell' = [shell EXCEPT ![s] = "dead"]
  /\ UNCHANGED <<aborts, server, sigint, handler, sessions, victim, owner, poisoned,
                 chat, tracker, termed, before>>
\* It closes its terminal and lives on; the reader thread waits for its exit.
ShellCloses(s) ==
  /\ shell[s] = "alive"
  /\ shell' = [shell EXCEPT ![s] = "closed"]
  /\ UNCHANGED <<aborts, server, sigint, handler, sessions, victim, owner, poisoned,
                 chat, tracker, termed, before>>

-----------------------------------------------------------------------------
(* Signals and the handler. *)

CtrlC ==
  /\ Up /\ ~sigint
  /\ sigint' = TRUE
  /\ UNCHANGED <<aborts, server, handler, shell, sessions, victim, owner, poisoned, chat,
                 tracker, termed, before>>

Wake ==
  /\ Up /\ handler = "waiting" /\ sigint
  /\ handler' = "chats" /\ sigint' = FALSE
  /\ before' = tracker \cup {s \in Shell : shell[s] \in {"alive", "closed"}}
  /\ UNCHANGED <<aborts, server, shell, sessions, victim, owner, poisoned, chat, tracker,
                 termed>>

KillChats ==
  /\ Up /\ handler = "chats"
  /\ termed' = termed \cup tracker
  /\ tracker' = {}
  /\ handler' = "sessions"
  /\ UNCHANGED <<aborts, server, sigint, shell, sessions, victim, owner, poisoned, chat,
                 before>>

\* kill_all: the lock, poisoned or not, is kept until all are killed.
LockUnlessPoisoned ==
  /\ Up /\ handler = "sessions" /\ owner = Nobody
  /\ handler' = IF poisoned THEN "forwards" ELSE "killing"
  /\ UNCHANGED <<aborts, server, sigint, shell, sessions, victim, owner, poisoned, chat,
                 tracker, termed, before>>
LockIfSound ==
  /\ Up /\ handler = "sessions" /\ owner = Nobody /\ ~poisoned
  /\ handler' = "killing"
  /\ UNCHANGED <<aborts, server, sigint, shell, sessions, victim, owner, poisoned, chat,
                 tracker, termed, before>>
LockForKills ==
  /\ Up /\ handler = "sessions" /\ owner = Nobody
  /\ handler' = "killing"
  /\ UNCHANGED <<aborts, server, sigint, shell, sessions, victim, owner, poisoned, chat,
                 tracker, termed, before>>
TakeOut(s) ==
  /\ Up /\ handler = "killing" /\ victim = Nobody /\ s \in sessions
  /\ victim' = s
  /\ sessions' = sessions \ {s}
  /\ UNCHANGED <<aborts, server, sigint, handler, shell, owner, poisoned, chat, tracker,
                 termed, before>>
\* kill_session, which needs the lock of the child.
KillSession(s) ==
  /\ Up /\ handler = "killing" /\ victim = s
  /\ shell[s] # "closed"
  /\ shell' = [shell EXCEPT ![s] = "dead"]
  /\ victim' = Nobody
  /\ UNCHANGED <<aborts, server, sigint, handler, sessions, owner, poisoned, chat,
                 tracker, termed, before>>
KillsDone ==
  /\ Up /\ handler = "killing" /\ victim = Nobody /\ sessions = {}
  /\ handler' = "forwards"
  /\ UNCHANGED <<aborts, server, sigint, shell, sessions, victim, owner, poisoned, chat,
                 tracker, termed, before>>

SpawnStopAll ==
  /\ Up /\ handler = "forwards"
  /\ handler' = "panicked"
  /\ server' = IF aborts THEN "aborted" ELSE server
  /\ UNCHANGED <<aborts, sigint, shell, sessions, victim, owner, poisoned, chat,
                 tracker, termed, before>>

\* The ctrlc crate is built without its "termination" feature, so SIGTERM has
\* its default action.
Sigterm ==
  /\ Up
  /\ server' = "terminated"
  /\ UNCHANGED <<aborts, sigint, handler, shell, sessions, victim, owner, poisoned, chat,
                 tracker, termed, before>>

-----------------------------------------------------------------------------
KillSessions == LockForKills \/ (\E s \in Shell : TakeOut(s) \/ KillSession(s)) \/ KillsDone

HandlerStep == Wake \/ KillChats \/ KillSessions \/ SpawnStopAll

Next ==
  \/ \E c \in Conn : LockManager(c) \/ Call(c) \/ CallPanics(c)
  \/ \E r \in Chat : SpawnChat(r) \/ Register(r) \/ ChatEnds(r)
  \/ \E s \in Shell : ShellEnds(s) \/ ShellCloses(s)
  \/ CtrlC \/ HandlerStep \/ Sigterm

Spec == Init /\ [][Next]_vars

\* The handler's thread runs, and a lock that is let go again and again does not
\* pass it by for ever.  A call under the lock need not end.
Fairness == SF_vars(HandlerStep)

-----------------------------------------------------------------------------
TypeOK ==
  /\ aborts \in BOOLEAN
  /\ server \in {"up", "terminated", "aborted"} /\ sigint \in BOOLEAN
  /\ handler \in {"waiting", "chats", "sessions", "killing", "forwards", "panicked"}
  /\ shell \in [Shell -> {"none", "alive", "closed", "left", "dead"}]
  /\ sessions \subseteq {s \in Shell : shell[s] # "none"}
  /\ victim \in Shell \cup {Nobody} /\ (HandlerHasLock => owner = Nobody)
  /\ owner \in Conn \cup {Nobody} /\ poisoned \in BOOLEAN /\ (aborts => ~poisoned)
  /\ chat \in [Chat -> {"none", "spawned", "alive", "dead"}]
  /\ tracker \subseteq Chat /\ termed \subseteq Chat
  /\ before \subseteq Shell \cup Chat

\* Whatever connections do meanwhile, and also when one of them panicked with
\* the manager's lock: once the handler is past the kills, the shells and the
\* chat runs that were there when Ctrl+C came are dead or were told to end ("a
\* poisoned mutex ... does not silently prevent cleanup", main.rs:187-191).  Only
\* a shell whose session was replaced is out of its reach.
CtrlCReaches ==
  handler \in {"forwards", "panicked"} =>
    /\ \A s \in Shell \cap before : shell[s] \in {"dead", "left"}
    /\ \A r \in Chat \cap before : chat[r] = "dead" \/ r \in termed

\* A call that does not let go of the manager's lock, or a shell that lives on
\* without its terminal.
Blocked ==
  \/ handler = "sessions" /\ owner # Nobody
  \/ handler = "killing" /\ \E s \in Shell : victim = s /\ shell[s] = "closed"

\* Ctrl+C gets its kills done, unless one of these blocks it for ever: it does
\* not lose the lock to the calls that let go of it, nor to one that panicked.
CtrlCIsServed ==
  sigint /\ handler = "waiting" ~>
    handler \in {"forwards", "panicked"} \/ server # "up" \/ []Blocked
=============================================================================
