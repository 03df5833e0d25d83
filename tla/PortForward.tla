---------------------------- MODULE PortForward ----------------------------
(***************************************************************************)
(* Port forwards: spawn_port_forward_binary and PortForwardState in        *)
(* server/src/ws_server.rs, and the command line mode of the port-forward  *)
(* binary they run (port-forward/src/main.rs, tunnel.rs), which in turn    *)
(* runs the tunnel program of a provider (cloudflared, ssh, lt).           *)
(*                                                                         *)
(*   server --spawn, kill--> port-forward --spawn--> tunnel program        *)
(*          <--- [URL] lines on stderr and stdout                          *)
(*                                                                         *)
(* A forward is a port_forward command.  Of the lines only those with the  *)
(* URL are kept.  The async lock of the table is held across an await only *)
(* by stop and stop_all; every other critical section is one step.         *)
(***************************************************************************)
EXTENDS Integers, Sequences, FiniteSets

CONSTANT Forward

Nobody == "nobody"
Everyone == "stop_all"

ASSUME ForwardAssumption == Nobody \notin Forward /\ Everyone \notin Forward

VARIABLES
  start,    \* the handler: "idle", "spawned", "listed", "tookOut", then
            \* "running" or "failed"
  forwards, \* the table
  holder,   \* who holds its lock across an await: the forward being stopped
  stop,     \* stop_port_forward: "none", "waiting", "true", "false"
  stopAll,  \* stop_all: "none", or the forwards it has taken so far
  cli,      \* port-forward: "none", "alive", "condemned" (SIGKILL sent), "dead"
  tunnel,   \* the tunnel program: "none", "up", "dead"
  saw,      \* streams whose URL passed the test of url_found in the binary
  urlFound, \* url_found in the binary
  queued,   \* [URL] lines on their way to the binary's stderr
  err, out, \* its pipes: lines "ready" (when found), "final" (before exit)
  eof,      \* pipes the server's tasks have read to their end
  gotUrl,   \* url_found in the server
  waiter,   \* the task that joins the other two: "none", "join", "done"
  done, error, stale \* events sent: how many done, which an error, and a done
                     \* for the final line

handlerVars == <<start, forwards, holder, stop, stopAll>>
cliVars     == <<cli, tunnel, saw, urlFound, queued>>
readVars    == <<eof, gotUrl, waiter, done, error, stale>>
vars == <<handlerVars, cliVars, err, out, readVars>>

Init ==
  /\ start = [f \in Forward |-> "idle"]
  /\ forwards = {} /\ holder = Nobody
  /\ stop = [f \in Forward |-> "none"] /\ stopAll = "none"
  /\ cli = [f \in Forward |-> "none"]
  /\ tunnel = [f \in Forward |-> "none"]
  /\ saw = [f \in Forward |-> {}]
  /\ urlFound = [f \in Forward |-> FALSE]
  /\ queued = [f \in Forward |-> 0]
  /\ err = [f \in Forward |-> <<>>] /\ out = [f \in Forward |-> <<>>]
  /\ eof = [f \in Forward |-> {}]
  /\ gotUrl = [f \in Forward |-> FALSE]
  /\ waiter = [f \in Forward |-> "none"]
  /\ done = [f \in Forward |-> 0]
  /\ error = {}
  /\ stale = [f \in Forward |-> FALSE]

Unlocked == holder = Nobody
GoTo(f, place) == start' = [start EXCEPT ![f] = place]
Condemn(f) == cli' = [cli EXCEPT ![f] = IF @ = "alive" THEN "condemned" ELSE @]

-----------------------------------------------------------------------------
(* spawn_port_forward_binary. *)

Spawn(f) ==
  /\ start[f] = "idle"
  /\ GoTo(f, "spawned")
  /\ cli' = [cli EXCEPT ![f] = "alive"]
  /\ UNCHANGED <<forwards, holder, stop, stopAll, tunnel, saw, urlFound, queued,
                 err, out, readVars>>

InsertForgets(f) ==
  /\ start[f] = "spawned" /\ Unlocked
  /\ GoTo(f, "listed")
  /\ forwards' = {f}
  /\ UNCHANGED <<holder, stop, stopAll, cliVars, err, out, readVars>>
Insert(f) ==
  /\ start[f] = "spawned" /\ Unlocked
  /\ GoTo(f, "listed")
  /\ forwards' = forwards \cup {f}
  /\ UNCHANGED <<holder, stop, stopAll, cliVars, err, out, readVars>>

\* The pipes are taken out of the listed child, under a lock each; they are not
\* there if the child was stopped in between.
TakeOut(f) ==
  /\ start[f] = "listed" /\ Unlocked
  /\ GoTo(f, IF f \in forwards THEN "tookOut" ELSE "failed")
  /\ UNCHANGED <<forwards, holder, stop, stopAll, cliVars, err, out, readVars>>
TakeErr(f) ==
  /\ start[f] = "tookOut" /\ Unlocked
  /\ \/ f \in forwards /\ GoTo(f, "running") /\ waiter' = [waiter EXCEPT ![f] = "join"]
     \/ f \notin forwards /\ GoTo(f, "failed") /\ UNCHANGED waiter
  /\ UNCHANGED <<forwards, holder, stop, stopAll, cliVars, err, out, eof, gotUrl,
                 done, error, stale>>

\* The reading tasks: every line with a URL is an event.
Sends(f, line) ==
  /\ gotUrl' = [gotUrl EXCEPT ![f] = TRUE]
  /\ done' = [done EXCEPT ![f] = @ + 1]
  /\ stale' = [stale EXCEPT ![f] = @ \/ line = "final"]
ReadUrl(f) ==
  /\ start[f] = "running"
  /\ \/ err[f] # <<>> /\ Sends(f, Head(err[f]))
        /\ err' = [err EXCEPT ![f] = Tail(@)] /\ UNCHANGED out
     \/ out[f] # <<>> /\ Sends(f, Head(out[f]))
        /\ out' = [out EXCEPT ![f] = Tail(@)] /\ UNCHANGED err
  /\ UNCHANGED <<handlerVars, cliVars, eof, waiter, error>>
ReadEof(f) ==
  /\ start[f] = "running" /\ cli[f] = "dead"
  /\ \/ err[f] = <<>> /\ eof' = [eof EXCEPT ![f] = @ \cup {"err"}]
     \/ out[f] = <<>> /\ eof' = [eof EXCEPT ![f] = @ \cup {"out"}]
  /\ UNCHANGED <<handlerVars, cliVars, err, out, gotUrl, waiter, done, error, stale>>

JoinSilently(f) ==
  /\ waiter[f] = "join" /\ eof[f] = {"err", "out"} /\ Unlocked
  /\ forwards' = forwards \ {f}
  /\ waiter' = [waiter EXCEPT ![f] = "done"]
  /\ error' = IF gotUrl[f] \/ f \notin forwards THEN error ELSE error \cup {f}
  /\ UNCHANGED <<start, holder, stop, stopAll, cliVars, err, out, eof, gotUrl,
                 done, stale>>
\* Both tasks are over: the entry goes, and without a URL an error is sent.
Join(f) ==
  /\ waiter[f] = "join" /\ eof[f] = {"err", "out"} /\ Unlocked
  /\ forwards' = forwards \ {f}
  /\ waiter' = [waiter EXCEPT ![f] = "done"]
  /\ error' = IF gotUrl[f] THEN error ELSE error \cup {f}
  /\ UNCHANGED <<start, holder, stop, stopAll, cliVars, err, out, eof, gotUrl,
                 done, stale>>

-----------------------------------------------------------------------------
(* PortForwardState: stop, by the client that was told the id, and stop_all. *)

Stop(f) ==
  /\ stop[f] = "none" /\ start[f] = "running" /\ Unlocked
  /\ \/ /\ f \notin forwards
        /\ stop' = [stop EXCEPT ![f] = "false"]
        /\ UNCHANGED <<forwards, holder, cli>>
     \/ /\ f \in forwards
        /\ forwards' = forwards \ {f}
        /\ holder' = f
        /\ stop' = [stop EXCEPT ![f] = "waiting"]
        /\ Condemn(f)
  /\ UNCHANGED <<start, stopAll, tunnel, saw, urlFound, queued, err, out, readVars>>

\* child.wait() returned: the lock goes.
StopReturns(f) ==
  /\ stop[f] = "waiting" /\ holder = f /\ cli[f] = "dead"
  /\ stop' = [stop EXCEPT ![f] = "true"]
  /\ holder' = Nobody
  /\ UNCHANGED <<start, forwards, stopAll, cliVars, err, out, readVars>>

StopAll ==
  /\ stopAll = "none" /\ Unlocked
  /\ stopAll' = "draining"
  /\ holder' = Everyone
  /\ UNCHANGED <<start, forwards, stop, cliVars, err, out, readVars>>
DrainOne(f) ==
  /\ holder = Everyone /\ f \in forwards
  /\ \A g \in Forward : cli[g] # "condemned"
  /\ forwards' = forwards \ {f}
  /\ Condemn(f)
  /\ UNCHANGED <<start, holder, stop, stopAll, tunnel, saw, urlFound, queued, err,
                 out, readVars>>
Drained ==
  /\ holder = Everyone /\ forwards = {}
  /\ \A g \in Forward : cli[g] # "condemned"
  /\ holder' = Nobody
  /\ stopAll' = "done"
  /\ UNCHANGED <<start, forwards, stop, cliVars, err, out, readVars>>

-----------------------------------------------------------------------------
(* The port-forward binary and the tunnel program. *)

\* An unknown provider or a missing program: [ERROR], exit 1.
CliFails(f) ==
  /\ cli[f] = "alive" /\ tunnel[f] = "none"
  /\ cli' = [cli EXCEPT ![f] = "dead"]
  /\ UNCHANGED <<handlerVars, tunnel, saw, urlFound, queued, err, out, readVars>>

CliSpawns(f) ==
  /\ cli[f] = "alive" /\ tunnel[f] = "none"
  /\ tunnel' = [tunnel EXCEPT ![f] = "up"]
  /\ UNCHANGED <<handlerVars, cli, saw, urlFound, queued, err, out, readVars>>

\* stream_lines tests url_found and sets it later, one task for each stream.
TunnelPrints(f, stream) ==
  /\ cli[f] = "alive" /\ tunnel[f] = "up"
  /\ ~urlFound[f]
  /\ saw' = [saw EXCEPT ![f] = @ \cup {stream}]
  /\ UNCHANGED <<handlerVars, cli, tunnel, urlFound, queued, err, out, readVars>>
CliAnnounces(f, stream) ==
  /\ cli[f] = "alive" /\ stream \in saw[f]
  /\ saw' = [saw EXCEPT ![f] = @ \ {stream}]
  /\ urlFound' = [urlFound EXCEPT ![f] = TRUE]
  /\ queued' = [queued EXCEPT ![f] = @ + 1]
  /\ UNCHANGED <<handlerVars, cli, tunnel, err, out, readVars>>
CliPrints(f) ==
  /\ cli[f] = "alive" /\ queued[f] > 0
  /\ queued' = [queued EXCEPT ![f] = @ - 1]
  /\ err' = [err EXCEPT ![f] = Append(@, "ready")]
  /\ UNCHANGED <<handlerVars, cli, tunnel, saw, urlFound, out, readVars>>

\* run_tunnel returned: the URL once more, on stdout, and exit; what is queued
\* for stderr is lost.
CliEnds(f) ==
  /\ cli[f] = "alive" /\ tunnel[f] = "dead" /\ saw[f] = {}
  /\ cli' = [cli EXCEPT ![f] = "dead"]
  /\ out' = [out EXCEPT ![f] = IF urlFound[f] THEN Append(@, "final") ELSE @]
  /\ UNCHANGED <<handlerVars, tunnel, saw, urlFound, queued, err, readVars>>

TunnelDies(f) ==
  /\ tunnel[f] = "up"
  /\ tunnel' = [tunnel EXCEPT ![f] = "dead"]
  /\ UNCHANGED <<handlerVars, cli, saw, urlFound, queued, err, out, readVars>>

\* SIGKILL reaches the binary and nobody else: its kill_on_drop does not run.
KillArrives(f) ==
  /\ cli[f] = "condemned"
  /\ cli' = [cli EXCEPT ![f] = "dead"]
  /\ UNCHANGED <<handlerVars, tunnel, saw, urlFound, queued, err, out, readVars>>

-----------------------------------------------------------------------------
Handler(f) == Insert(f) \/ TakeOut(f) \/ TakeErr(f)
Reading(f) == ReadUrl(f) \/ ReadEof(f)
Cli(f) ==
  \/ CliFails(f) \/ CliSpawns(f) \/ CliPrints(f) \/ CliEnds(f)
  \/ \E stream \in {"out", "err"} : CliAnnounces(f, stream)

Next ==
  \/ \E f \in Forward :
       \/ Spawn(f) \/ Handler(f) \/ Reading(f) \/ Join(f)
       \/ Stop(f) \/ StopReturns(f) \/ DrainOne(f)
       \/ Cli(f) \/ TunnelDies(f) \/ KillArrives(f)
       \/ \E stream \in {"out", "err"} : TunnelPrints(f, stream)
  \/ StopAll \/ Drained

Spec == Init /\ [][Next]_vars

\* The server's tasks run and get the lock in turn; a kill arrives; the binary
\* runs.  A tunnel need not end, nor print a URL.
Fairness ==
  /\ \A f \in Forward :
       /\ WF_vars(Handler(f)) /\ WF_vars(Reading(f) /\ vars' # vars) /\ WF_vars(Join(f))
       /\ WF_vars(StopReturns(f)) /\ WF_vars(DrainOne(f)) /\ WF_vars(KillArrives(f))
       /\ WF_vars(Cli(f))
  /\ WF_vars(Drained)

-----------------------------------------------------------------------------
TypeOK ==
  /\ start \in [Forward -> {"idle", "spawned", "listed", "tookOut", "running", "failed"}]
  /\ forwards \subseteq Forward
  /\ holder \in Forward \cup {Nobody, Everyone}
  /\ stop \in [Forward -> {"none", "waiting", "true", "false"}]
  /\ stopAll \in {"none", "draining", "done"}
  /\ cli \in [Forward -> {"none", "alive", "condemned", "dead"}]
  /\ tunnel \in [Forward -> {"none", "up", "dead"}]
  /\ saw \in [Forward -> SUBSET {"out", "err"}]
  /\ urlFound \in [Forward -> BOOLEAN]
  /\ queued \in [Forward -> 0..2]
  /\ err \in [Forward -> Seq({"ready"})]
  /\ out \in [Forward -> Seq({"final"})]
  /\ eof \in [Forward -> SUBSET {"out", "err"}]
  /\ gotUrl \in [Forward -> BOOLEAN]
  /\ waiter \in [Forward -> {"none", "join", "done"}]
  /\ done \in [Forward -> Nat]
  /\ error \subseteq Forward
  /\ stale \in [Forward -> BOOLEAN]

\* "Register the child so it can be stopped later" (ws_server.rs:1833): a
\* binary that runs on its own is listed, however starts, stops and ends
\* interleave, from the step after its spawn on.
RunningIsListed ==
  \A f \in Forward : cli[f] = "alive" => f \in forwards \/ start[f] = "spawned"

\* A client is never told that a forward has failed and that it is ready, in
\* either order, although three tasks send the events.
OneOutcome == \A f \in error : done[f] = 0

\* The types; a binary that runs on its own can be stopped (RunningIsListed);
\* and no forward both fails and is ready (OneOutcome).
ForwardsInv == TypeOK /\ RunningIsListed /\ OneOutcome

\* Nobody keeps the table's lock for ever, whatever happens to the child that
\* is waited for under it; and when a binary is over the client that started it
\* has been told something.
ForwardsEnd ==
  /\ holder # Nobody ~> holder = Nobody
  /\ \A f \in Forward :
       start[f] = "running" /\ cli[f] = "dead" ~> done[f] > 0 \/ f \in error
=============================================================================
