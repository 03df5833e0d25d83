---------------------------- MODULE CompanionApp ----------------------------
(***************************************************************************)
(* Starting and stopping a companion app (server/src/ws_server.rs).        *)
(*                                                                         *)
(* code-vault, canvas-lab, http-request and file-manager are child         *)
(* processes that print the port they listen on.  For each the server      *)
(* keeps the child and the port behind two mutexes, and every command runs *)
(* in a task of its own, so start and stop calls interleave at each await. *)
(* The proxied requests only read the port.  The four copies of the code   *)
(* differ in what a start does once the port is stored: see Confirm.       *)
(*                                                                         *)
(* A process and its port are named by the start call that spawned it.     *)
(***************************************************************************)
EXTENDS Integers

CONSTANTS
  Starts, Stops,  \* start and stop commands
  None,           \* Option::None
  PROBES          \* how often a start tries to connect (50 in the code)

ASSUME CompanionAssumption ==
  /\ Starts \cap Stops = {}
  /\ None \notin Starts \cup Stops
  /\ PROBES \in Nat \ {0}

VARIABLES
  app,    \* which of the four apps this is; never changes
  proc,   \* of each start: "none", "booting", "serving" (port printed), "dead",
          \* "stillborn" (dead, port not printed)
  child,  \* Mutex<Option<Child>>
  port,   \* Mutex<Option<u16>>
  holder, \* who keeps the child mutex across an await
  pc,     \* start: "idle", "spawn", "boot", "child", "port", "probe", "look",
          \* "stop", "reset", "done"; stop: "idle", "stop", "reset", "done"
  tries,  \* connects that failed
  answer  \* to a start: nothing yet, an error, or running on this port

vars == <<app, proc, child, port, holder, pc, tries, answer>>

-----------------------------------------------------------------------------
Calls == Starts \cup Stops
Apps  == {"code_vault", "canvas_lab", "http_request", "file_manager"}
Alive(s) == proc[s] \in {"booting", "serving"}

NoAnswer   == [says |-> "nothing", port |-> None]
Failed     == [says |-> "error", port |-> None]
Running(p) == [says |-> "running", port |-> p]  \* p = None: "port": null

Init ==
  /\ app \in Apps
  /\ proc = [s \in Starts |-> "none"]
  /\ child = None /\ port = None /\ holder = None
  /\ pc = [c \in Calls |-> "idle"]
  /\ tries = [s \in Starts |-> 0]
  /\ answer = [s \in Starts |-> NoAnswer]

GoTo(c, place) == pc' = [pc EXCEPT ![c] = place]
Return(s, what) == /\ GoTo(s, "done")
                   /\ answer' = [answer EXCEPT ![s] = what]

\* A Child that is dropped is killed (kill_on_drop).
DropLeavesRunning(s) == UNCHANGED proc
Drop(s) == proc' = IF s = None THEN proc ELSE [proc EXCEPT ![s] = "dead"]

-----------------------------------------------------------------------------
\* Somebody started it already: answer with the port stored now.
AlreadyStarted(s) ==
  /\ pc[s] = "idle"
  /\ holder = None
  /\ child # None
  /\ Return(s, Running(port))
  /\ UNCHANGED <<app, proc, child, port, holder, tries>>

\* Nobody did; the mutex is released before the process is spawned.
NotStarted(s) ==
  /\ pc[s] = "idle"
  /\ holder = None
  /\ child = None
  /\ GoTo(s, "spawn")
  /\ UNCHANGED <<app, proc, child, port, holder, tries, answer>>

SpawnApp(s) ==
  /\ pc[s] = "spawn"
  /\ \/ /\ proc' = [proc EXCEPT ![s] = "booting"]
        /\ GoTo(s, "boot")
        /\ UNCHANGED answer
     \/ /\ Return(s, Failed)
        /\ UNCHANGED proc
  /\ UNCHANGED <<app, child, port, holder, tries>>

PortIsRead(s) ==
  /\ pc[s] = "boot"
  /\ proc[s] \in {"serving", "dead"}
  /\ GoTo(s, "child")
  /\ UNCHANGED <<app, proc, child, port, holder, tries, answer>>

\* Five seconds pass, or its output ends without a port.
NoPortInTime(s) ==
  /\ pc[s] = "boot"
  /\ Drop(s)
  /\ Return(s, Failed)
  /\ UNCHANGED <<app, child, port, holder, tries>>

\* The old child, if another start put one there, is dropped.
StoreChild(s) ==
  /\ pc[s] = "child"
  /\ holder = None
  /\ Drop(child)
  /\ child' = s
  /\ GoTo(s, "port")
  /\ UNCHANGED <<app, port, holder, tries, answer>>

\* code-vault and file-manager answer at once; the others probe the port.
StorePort(s) ==
  /\ pc[s] = "port"
  /\ port' = s
  /\ IF app \in {"canvas_lab", "http_request"}
     THEN GoTo(s, "probe") /\ UNCHANGED answer
     ELSE Return(s, Running(s))
  /\ UNCHANGED <<app, proc, child, holder, tries>>

\* Connect.  When the last try has failed too, the answer is still "running".
\* After a failed try http-request looks at the child, canvas-lab does not.
Confirm(s) ==
  /\ pc[s] = "probe"
  /\ IF proc[s] = "serving" \/ tries[s] = PROBES
     THEN Return(s, Running(s)) /\ UNCHANGED tries
     ELSE /\ tries' = [tries EXCEPT ![s] = @ + 1]
          /\ GoTo(s, IF app = "http_request" THEN "look" ELSE "probe")
          /\ UNCHANGED answer
  /\ UNCHANGED <<app, proc, child, port, holder>>

\* try_wait on whatever child is stored now.  The guard is dropped before
\* stop() locks the mutex again.
LookHoldingTheGuard(s) ==
  /\ pc[s] = "look"
  /\ holder = None
  /\ IF child # None /\ proc[child] = "dead"
     THEN GoTo(s, "stop") /\ holder' = s
     ELSE GoTo(s, "probe") /\ UNCHANGED holder
  /\ UNCHANGED <<app, proc, child, port, tries, answer>>
Look(s) ==
  /\ pc[s] = "look"
  /\ holder = None
  /\ GoTo(s, IF child # None /\ proc[child] = "dead" THEN "stop" ELSE "probe")
  /\ UNCHANGED <<app, proc, child, port, holder, tries, answer>>

-----------------------------------------------------------------------------
\* State::stop: take the child, kill it and wait for it, all with the child
\* mutex held; forget the port; release.  A stop command, or a start whose
\* child has exited.
StopCalled(c) ==
  /\ c \in Stops
  /\ pc[c] = "idle"
  /\ GoTo(c, "stop")
  /\ UNCHANGED <<app, proc, child, port, holder, tries, answer>>

StopTakes(c) ==
  /\ pc[c] = "stop"
  /\ holder = None
  /\ holder' = c
  /\ Drop(child)
  /\ child' = None
  /\ GoTo(c, "reset")
  /\ UNCHANGED <<app, port, tries, answer>>

StopKeepsPort(c) ==
  /\ pc[c] = "reset"
  /\ holder' = None
  /\ IF c \in Starts THEN Return(c, Failed) ELSE GoTo(c, "done") /\ UNCHANGED answer
  /\ UNCHANGED <<app, proc, child, port, tries>>
StopResets(c) ==
  /\ pc[c] = "reset"
  /\ port' = None
  /\ holder' = None
  /\ IF c \in Starts THEN Return(c, Failed) ELSE GoTo(c, "done") /\ UNCHANGED answer
  /\ UNCHANGED <<app, proc, child, tries>>

-----------------------------------------------------------------------------
(* The app's process. *)

Listens(s) == /\ proc[s] = "booting"
              /\ proc' = [proc EXCEPT ![s] = "serving"]
              /\ UNCHANGED <<app, child, port, holder, pc, tries, answer>>

Dies(s) == /\ Alive(s)
           /\ proc' = [proc EXCEPT ![s] = IF @ = "booting" THEN "stillborn" ELSE "dead"]
           /\ UNCHANGED <<app, child, port, holder, pc, tries, answer>>

-----------------------------------------------------------------------------
StartRuns(s) == \/ AlreadyStarted(s) \/ NotStarted(s) \/ SpawnApp(s)
                \/ PortIsRead(s) \/ NoPortInTime(s)
                \/ StoreChild(s) \/ StorePort(s) \/ Confirm(s) \/ Look(s)
StopRuns(c) == StopTakes(c) \/ StopResets(c)

Next == \/ \E s \in Starts : StartRuns(s) \/ Listens(s) \/ Dies(s)
        \/ \E c \in Calls : StopCalled(c) \/ StopRuns(c)

Spec == Init /\ [][Next]_vars

\* A command that has begun is polled until it returns.
Begun(c) == pc[c] \notin {"idle", "done"}
Fairness == /\ \A s \in Starts : WF_vars(Begun(s) /\ StartRuns(s))
            /\ \A c \in Calls : WF_vars(StopRuns(c))

-----------------------------------------------------------------------------
TypeOK ==
  /\ app \in Apps
  /\ proc \in [Starts -> {"none", "booting", "serving", "dead", "stillborn"}]
  /\ child \in Starts \cup {None}
  /\ port \in Starts \cup {None}
  /\ holder \in Calls \cup {None}
  /\ pc \in [Calls -> {"idle", "spawn", "boot", "child", "port", "probe",
                       "look", "stop", "reset", "done"}]
  /\ tries \in [Starts -> 0..PROBES]
  /\ answer \in [Starts -> [says : {"nothing", "error", "running"},
                         port : Starts \cup {None}]]

\* However starts and stops interleave, no app process runs that neither the
\* state nor the start that spawned it can still stop.
NoStrayApp ==
  \A s \in Starts : Alive(s) => child = s \/ pc[s] \in {"boot", "child"}

\* A proxied request goes to the child the server knows or to nobody: the port
\* stored is never that of another running process.
PortIsOfTheChild == port # None => port = child \/ ~Alive(port)

\* The app that runs is the one the state has.
AppsInv == TypeOK /\ NoStrayApp /\ PortIsOfTheChild

\* Every start and every stop returns: the two mutexes, which stop() and the
\* starts' look at the child take in different places, never block for ever.
CallsReturn == \A c \in Calls : Begun(c) ~> pc[c] = "done"

\* When no command is under way the port is that of the child: what every
\* later start answers with and every proxied request is sent to.
Busy == {c \in Calls : Begun(c)}
StateAgrees == Busy = {} => port = child
=============================================================================
