--------------------------- MODULE MC_ChatStreams ---------------------------
(***************************************************************************)
(* What a chat request needs, on small instances: its run (ChatStreams),   *)
(* the agent server it attaches to (AgentServers) and the files of its     *)
(* attachments (Attachments); and what comments of the code say of them    *)
(* that it does not do.  None depends on the others: a setup that fails    *)
(* may do so in each.  So a behaviour is that of one part, and the others  *)
(* stay as they are.                                                       *)
(***************************************************************************)
EXTENDS ChatStreams, Integers, FiniteSets, TLC

CONSTANTS
  r1, r2, id1, id2,
  e1, e2, e3, Call, None, BANNER, \* AgentServers
  OVERLAP, \* bound: calls of it that are under way at once
  name, Name, Lists, Nonce, NIO_FILES \* Attachments

VARIABLES
  part,
  pc, server, agent, pipe, lines, dir, tracked, signalled, answer,
  overlapped, \* history: two ensure_server calls have been under way at once
  files, request, clash, leaked

serverVars == <<pc, server, agent, pipe, lines, dir, tracked, signalled, answer, overlapped>>
fileVars == <<files, request, clash, leaked>>
all == <<vars, part, serverVars, fileVars>>

\* Two runs under ids of their own.
OwnIds == r1 :> id1 @@ r2 :> id2

\* Attachments of one name; nio takes two.
List(kinds) == [i \in DOMAIN kinds |-> [name |-> name, kind |-> kinds[i]]]
TheLists == { <<>>, List(<<"text">>), List(<<"text", "text">>), List(<<"blob", "bad">>),
              List(<<"reference", "text">>), List(<<"text", "text", "text">>) }

A == INSTANCE AgentServers WITH proc <- agent
F == INSTANCE Attachments WITH run <- request

ASSUME PartsAssumption == A!AgentAssumption /\ F!AttachmentsAssumption

-----------------------------------------------------------------------------
InitMC ==
  /\ Init /\ A!Init /\ F!Init /\ overlapped = FALSE
  /\ part \in {"runs", "servers", "files"}
  /\ part # "runs" => conn = [r \in Run |-> CHOOSE c \in Conn : TRUE]

\* Calls come in order, at most OVERLAP of them at once, and so do the runs with
\* attachments.
NextServers ==
  /\ A!Next
  /\ pc'[e2] # "idle" => pc[e1] # "idle"
  /\ pc'[e3] # "idle" => pc[e2] # "idle"
  /\ Cardinality({c \in Call : A!Begun(c)'}) <= OVERLAP
  /\ overlapped' = (overlapped \/ \E c, d \in Call : c # d /\ (A!Begun(c) /\ A!Begun(d))')

NextFiles == F!Next /\ (request'[r2].at # "new" => request[r1].at # "new")

NextMC ==
  /\ UNCHANGED part
  /\ \/ part = "runs" /\ Next /\ UNCHANGED <<serverVars, fileVars>>
     \/ part = "servers" /\ NextServers /\ UNCHANGED <<vars, fileVars>>
     \/ part = "files" /\ NextFiles /\ UNCHANGED <<vars, serverVars>>

\* Nothing is enabled in a part before a request comes, so none has to run but
\* the one that does.
SpecMC == InitMC /\ [][NextMC]_all /\ Fairness /\ A!Fairness

-----------------------------------------------------------------------------
\* Ctrl+C finds every agent server that runs or has sent it SIGTERM, but one that
\* is just being spawned; and a listed one has its directory (AgentServers).
ServersInv == A!ServersInv

\* "Manages one long-lived serve process per supported agent" and "the
\* serialized single-user chat panel" (agent_servers.rs): as long as calls came
\* one after the other, two servers of one key never serve at the same time, and
\* the directory of a server outlives the server.  Two calls that find no server
\* both boot one, and the second insert drops the first handle.
OneServerInTurn == ~overlapped => A!OneServer /\ A!DirectoryOutlivesServer

\* Every call returns, unless its server lives and says nothing more: the window
\* for the banner is counted in lines (AgentServers).
EnsureReturns == A!EnsureReturns

\* An agent finds its files as they were sent, if no other run had a path in
\* common with it; and the directory is left as it was, but for failed writes
\* (Attachments).
AttachmentsInv == F!AttachmentsInv

\* "kill any chat-stream subprocesses this client owned" (ws_server.rs:837-838):
\* the close of a connection leaves the runs of the others alone.
OnlyOwnRunsAreStopped ==
  [][\A c \in Conn : \A r \in termed' \ termed : StopDrained(c) => conn[r] = c]_vars

\* "make it unique per process + index to avoid collisions across concurrent
\* requests" (commands.rs:1668-1669): an agent finds its files as they were sent,
\* whatever other requests are under way.
AgentFindsItsFiles == \A r \in Run : request[r].at = "runs" => F!Found(r)
=============================================================================
