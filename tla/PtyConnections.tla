--------------------------- MODULE PtyConnections ---------------------------
(***************************************************************************)
(* Websocket connections that spawn, attach to, detach from and kill one   *)
(* terminal session id (server/src/ws_server.rs, the pty_* requests and    *)
(* the life of a connection).                                              *)
(*                                                                         *)
(* Every request runs in a task of its own, so the requests of one         *)
(* connection overlap with each other and with its close, and a request    *)
(* takes the manager's lock and the lock of the connection's `subscribed`  *)
(* set one after the other.  The sessions behave as SessionControl says    *)
(* (PtySession implements it; KeepsContract checks that nothing else is    *)
(* asked of them here).                                                    *)
(***************************************************************************)
EXTENDS Naturals, Sequences

CONSTANTS
  Conn,
  Request,   \* bound: the pty_* requests; a spawn or attach is its own stream
  SESSIONS,  \* bound: the sessions spawned under the id, one after the other
  NoRequest

ASSUME ConnectionsAssumption ==
  Conn # {} /\ NoRequest \notin Request /\ SESSIONS \in Nat \ {0}

Session == 1..SESSIONS
NoSession == 0

VARIABLES
  conn,       \* the reader loop of each connection: "open", "closed"
  link,       \* "up", "down": the peer is gone, writes to it fail
  subscribed, \* is the session id in the connection's `subscribed` set?
  late,       \* history: it was put there after the set had been drained
  req,        \* each request: its connection, kind and next step
  serves,     \* the session a stream was attached to
  rx,         \* the stream: "unused", "open", "closed"
  current,    \* the session in the manager's map
  st, ctrl, sub, detachedAt, exited  \* each session, see SessionControl

connVars == <<conn, link, subscribed, late>>
sessVars == <<st, ctrl, sub, detachedAt, exited>>
vars == <<connVars, req, serves, rx, current, sessVars>>

-----------------------------------------------------------------------------
Kinds == {"spawn", "attach", "detach", "kill"}

\* The first step of each handler.
FirstStep(kind) == CASE kind = "spawn"             -> "spawn"
                     [] kind = "attach"            -> "attach"
                     [] kind \in {"detach", "kill"} -> "remove"

At(r, pc) == req[r].pc = pc
Goto(r, pc) == req' = [req EXCEPT ![r].pc = pc]

\* A stream's senders: its session's subscriber, and an attach not yet taken.
SenderAlive(r) == LET i == serves[r] IN
  sub[i] = r \/ \E k \in 1..Len(ctrl[i]) : ctrl[i][k] = r

Init ==
  /\ conn = [c \in Conn |-> "open"]
  /\ link = [c \in Conn |-> "up"]
  /\ subscribed = [c \in Conn |-> FALSE]
  /\ late = [c \in Conn |-> FALSE]
  /\ req = [r \in Request |-> [pc |-> "unsent", conn |-> CHOOSE c \in Conn : TRUE,
                               kind |-> "spawn"]]
  /\ serves = [r \in Request |-> NoSession]
  /\ rx = [r \in Request |-> "unused"]
  /\ ctrl = [i \in Session |-> <<>>]
  /\ sub = [i \in Session |-> NoRequest]
  /\ exited = [i \in Session |-> FALSE]
  /\ \/ /\ current = NoSession
        /\ st = [i \in Session |-> "unborn"]
        /\ detachedAt = [i \in Session |-> "none"]
     \/ /\ current = 1  \* a connection before these has left its shell
        /\ st = [i \in Session |-> IF i = 1 THEN "live" ELSE "unborn"]
        /\ detachedAt = [i \in Session |-> IF i = 1 THEN "recent" ELSE "none"]

-----------------------------------------------------------------------------
(* A connection. *)

\* A request arrives; its task is spawned.
Send(r, c, kind) ==
  /\ At(r, "unsent")
  /\ conn[c] = "open"
  /\ link[c] = "up"
  /\ req' = [req EXCEPT ![r] = [pc |-> FirstStep(kind), conn |-> c, kind |-> kind]]
  /\ UNCHANGED <<connVars, serves, rx, current, sessVars>>

LinkDown(c) ==
  /\ link[c] = "up"
  /\ link' = [link EXCEPT ![c] = "down"]
  /\ UNCHANGED <<conn, subscribed, late, req, serves, rx, current, sessVars>>

\* A Close frame, a read error or the idle timeout ends the reader loop, which
\* detaches from what is in `subscribed`, whoever has attached since.
CloseKeepsStreaming(c) ==
  /\ conn[c] = "open"
  /\ conn' = [conn EXCEPT ![c] = "closed"]
  /\ link' = [link EXCEPT ![c] = "down"]
  /\ UNCHANGED <<subscribed, late, req, serves, rx, current, sessVars>>
Unsubscribe == IF current = NoSession THEN UNCHANGED ctrl
               ELSE ctrl' = [ctrl EXCEPT ![current] = Append(@, NoRequest)]
Close(c) ==
  /\ conn[c] = "open"
  /\ conn' = [conn EXCEPT ![c] = "closed"]
  /\ link' = [link EXCEPT ![c] = "down"]
  /\ IF subscribed[c] THEN Unsubscribe ELSE UNCHANGED ctrl
  /\ UNCHANGED <<subscribed, late, req, serves, rx, current, st, sub,
                 detachedAt, exited>>

-----------------------------------------------------------------------------
(* The handlers, one action for each lock they take. *)

\* pty_spawn: the new session replaces the one in the map, if there is one.
Spawn(r) ==
  /\ At(r, "spawn")
  /\ \/ \E i \in Session :
          /\ st[i] = "unborn" /\ \A j \in 1..i-1 : st[j] # "unborn"
          /\ st' = [j \in Session |-> CASE j = i       -> "live"
                                        [] j = current -> "over"
                                        [] OTHER       -> st[j]]
          /\ current' = i
          /\ Goto(r, "attach")
     \/ /\ Goto(r, "done")  \* no pty, or no shell
        /\ UNCHANGED <<st, current>>
  /\ UNCHANGED <<connVars, serves, rx, ctrl, sub, detachedAt, exited>>

\* Why subscribe() answers with an error.
RefusedIfNone == current = NoSession
Refused == current = NoSession \/ exited[current]

\* attach_and_stream: subscribe under the manager's lock ...
Attach(r) ==
  /\ At(r, "attach")
  /\ IF Refused
     THEN Goto(r, "done") /\ UNCHANGED <<serves, rx, ctrl>>
     ELSE /\ ctrl' = [ctrl EXCEPT ![current] = Append(@, r)]
          /\ rx' = [rx EXCEPT ![r] = "open"]
          /\ serves' = [serves EXCEPT ![r] = current]
          /\ Goto(r, "insert")
  /\ UNCHANGED <<connVars, current, st, sub, detachedAt, exited>>

\* ... and only then put the id in `subscribed`.
InsertNothing(r) ==
  /\ At(r, "insert")
  /\ Goto(r, "done")
  /\ UNCHANGED <<connVars, serves, rx, current, sessVars>>
Insert(r) ==
  /\ At(r, "insert")
  /\ LET c == req[r].conn IN
       /\ subscribed' = [subscribed EXCEPT ![c] = TRUE]
       /\ late' = [late EXCEPT ![c] = @ \/ conn[c] = "closed"]
  /\ Goto(r, "done")
  /\ UNCHANGED <<conn, link, serves, rx, current, sessVars>>

\* pty_detach and pty_kill: first out of `subscribed` ...
RemoveNothing(r) ==
  /\ At(r, "remove")
  /\ Goto(r, req[r].kind)
  /\ UNCHANGED <<connVars, serves, rx, current, sessVars>>
Remove(r) ==
  /\ At(r, "remove")
  /\ subscribed' = [subscribed EXCEPT ![req[r].conn] = FALSE]
  /\ Goto(r, req[r].kind)
  /\ UNCHANGED <<conn, link, late, serves, rx, current, sessVars>>

\* ... then to the manager.
Detach(r) ==
  /\ At(r, "detach")
  /\ Unsubscribe
  /\ Goto(r, "done")
  /\ UNCHANGED <<connVars, serves, rx, current, st, sub, detachedAt, exited>>

LeavesMap(i) == /\ current = i
                /\ current' = NoSession
                /\ st' = [st EXCEPT ![i] = "over"]

Kill(r) ==
  /\ At(r, "kill")
  /\ \/ \E i \in Session : LeavesMap(i)
     \/ current = NoSession /\ UNCHANGED <<current, st>>
  /\ Goto(r, "done")
  /\ UNCHANGED <<connVars, serves, rx, ctrl, sub, detachedAt, exited>>

Handler(r) == Spawn(r) \/ Attach(r) \/ Insert(r) \/ Remove(r) \/ Detach(r) \/ Kill(r)

-----------------------------------------------------------------------------
(* The sessions, and the manager's sweep. *)

Take(i) ==
  /\ ctrl[i] # <<>>
  /\ ctrl' = [ctrl EXCEPT ![i] = Tail(@)]
  /\ LET r == Head(ctrl[i]) IN
       \/ /\ sub' = [sub EXCEPT ![i] = r]
          /\ detachedAt' = [detachedAt EXCEPT ![i] = IF r = NoRequest THEN "recent" ELSE "none"]
       \/ /\ r # NoRequest /\ rx[r] = "closed"  \* its replay fails
          /\ UNCHANGED <<sub, detachedAt>>
  /\ UNCHANGED <<connVars, req, serves, rx, current, st, exited>>

\* There is output, and the subscriber's receiver is gone.
SendFails(i) ==
  /\ sub[i] # NoRequest
  /\ rx[sub[i]] = "closed"
  /\ sub' = [sub EXCEPT ![i] = NoRequest]
  /\ UNCHANGED <<connVars, req, serves, rx, current, st, ctrl, detachedAt, exited>>

Exit(i) ==
  /\ st[i] # "unborn"
  /\ ~exited[i]
  /\ exited' = [exited EXCEPT ![i] = TRUE]
  /\ sub' = [sub EXCEPT ![i] = NoRequest]
  /\ detachedAt' = [detachedAt EXCEPT ![i] = "none"]
  /\ UNCHANGED <<connVars, req, serves, rx, current, st, ctrl>>

TaskEnds(i) ==
  /\ st[i] = "over"
  /\ sub[i] # NoRequest \/ ctrl[i] # <<>>
  /\ sub' = [sub EXCEPT ![i] = NoRequest]
  /\ ctrl' = [ctrl EXCEPT ![i] = <<>>]
  /\ UNCHANGED <<connVars, req, serves, rx, current, st, detachedAt, exited>>

Expire(i) ==
  /\ detachedAt[i] = "recent"
  /\ detachedAt' = [detachedAt EXCEPT ![i] = "expired"]
  /\ UNCHANGED <<connVars, req, serves, rx, current, st, ctrl, sub, exited>>

SweepExited(i) ==
  /\ exited[i]
  /\ LeavesMap(i)
  /\ UNCHANGED <<connVars, req, serves, rx, ctrl, sub, detachedAt, exited>>
SweepAbandoned(i) ==
  /\ ~exited[i]
  /\ detachedAt[i] = "expired"
  /\ LeavesMap(i)
  /\ UNCHANGED <<connVars, req, serves, rx, ctrl, sub, detachedAt, exited>>
Sweep(i) == SweepExited(i) \/ SweepAbandoned(i)

\* spawn_subscriber_task: a push fails, or every sender is gone.
PushFails(r) ==
  /\ rx[r] = "open"
  /\ link[req[r].conn] = "down"
  /\ rx' = [rx EXCEPT ![r] = "closed"]
  /\ UNCHANGED <<connVars, req, serves, current, sessVars>>

StreamEnds(r) ==
  /\ rx[r] = "open"
  /\ ~SenderAlive(r)
  /\ rx' = [rx EXCEPT ![r] = "closed"]
  /\ UNCHANGED <<connVars, req, serves, current, sessVars>>

-----------------------------------------------------------------------------
Next ==
  \/ \E c \in Conn : \/ LinkDown(c) \/ Close(c)
                     \/ \E r \in Request, kind \in Kinds : Send(r, c, kind)
  \/ \E r \in Request : Handler(r) \/ PushFails(r) \/ StreamEnds(r)
  \/ \E i \in Session : \/ Take(i) \/ SendFails(i) \/ Exit(i) \/ TaskEnds(i)
                        \/ Expire(i) \/ Sweep(i)

Spec == Init /\ [][Next]_vars

\* Handlers and stream tasks run, the sweep ticks, time passes, and the reader
\* loop notices a dead link by its idle timeout at the latest.  Shells need not
\* write or exit and clients need not do anything, so nothing finds out that a
\* push would fail unless there is something to push.
Fairness ==
  /\ \A r \in Request : WF_vars(Handler(r)) /\ WF_vars(StreamEnds(r))
  /\ \A c \in Conn : WF_vars(link[c] = "down" /\ Close(c))
  /\ \A i \in Session : /\ WF_vars(Take(i)) /\ WF_vars(TaskEnds(i))
                        /\ WF_vars(Expire(i)) /\ WF_vars(Sweep(i))

FairSpec == Spec /\ Fairness

-----------------------------------------------------------------------------
\* Types, and that the session in the map is the one that is live: kill, sweep
\* and a spawn over it all take it out, and a request that comes late reaches
\* whatever has been spawned under the id since.
TypeOK ==
  /\ conn \in [Conn -> {"open", "closed"}]
  /\ link \in [Conn -> {"up", "down"}]
  /\ subscribed \in [Conn -> BOOLEAN]
  /\ late \in [Conn -> BOOLEAN]
  /\ req \in [Request -> [pc : {"unsent", "spawn", "attach", "insert", "remove",
                                "detach", "kill", "done"},
                          conn : Conn, kind : Kinds]]
  /\ serves \in [Request -> Session \cup {NoSession}]
  /\ rx \in [Request -> {"unused", "open", "closed"}]
  /\ current \in Session \cup {NoSession}
  /\ st \in [Session -> {"unborn", "live", "over"}]
  /\ ctrl \in [Session -> Seq(Request \cup {NoRequest})]
  /\ sub \in [Session -> Request \cup {NoRequest}]
  /\ detachedAt \in [Session -> {"none", "recent", "expired"}]
  /\ exited \in [Session -> BOOLEAN]
  /\ \A i \in Session : st[i] = "live" <=> current = i

\* The sessions are used, and behave, as SessionControl says.
Of(i) == INSTANCE SessionControl WITH
  Stream <- Request, NoStream <- NoRequest,
  st <- st[i], ctrl <- ctrl[i], sub <- sub[i], detachedAt <- detachedAt[i],
  exited <- exited[i],
  rx <- [r \in Request |-> IF serves[r] = i THEN rx[r] ELSE "unused"]
KeepsContract ==
  /\ \A i \in Session : Of(i)!Init
  /\ [][\A i \in Session : [Of(i)!Next]_(Of(i)!vars)]_vars

\* A request of c that will still take the session away from it.
Leaving(c) == \E r \in Request : req[r].conn = c /\ req[r].pc \in {"detach", "kill"}

\* No connection is streamed to behind its back: one that is served by the
\* session in the map is in `subscribed`, so that its close detaches it, unless
\* a detach or kill of its own is under way, or a detach on its way through ctrl
\* (`subscribed`, lines 637-640).
ServedIsListed ==
  current # NoSession /\ sub[current] # NoRequest =>
    LET r == sub[current]
        c == req[r].conn
    IN  \/ subscribed[c] \/ At(r, "insert") \/ Leaving(c)
        \/ \E k \in 1..Len(ctrl[current]) : ctrl[current][k] = NoRequest

\* The types, the one live session, and that what is served is listed.
ConnectionsInv == TypeOK /\ ServedIsListed

\* Once every connection is gone the session goes too, unless an attach was
\* carried out after its connection had drained `subscribed`
\* ("shells the user genuinely abandoned get reaped").
AllClosed == \A c \in Conn : conn[c] = "closed"
AbandonedIsReaped ==
  \A i \in Session :
    st[i] = "live" /\ AllClosed ~> st[i] = "over" \/ \E c \in Conn : late[c]
=============================================================================
