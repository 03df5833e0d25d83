------------------------ MODULE PtyConnectionsProofs ------------------------
(***************************************************************************)
(* However many connections and requests there are, and however many       *)
(* sessions they spawn under the id: nobody is streamed to by a session    *)
(* that the close of its connection would not detach it from; each session *)
(* is used as its contract allows; and connections that take turns with a  *)
(* session do not end each other's output.                                 *)
(***************************************************************************)
EXTENDS MC_Connections, TLAPS

\* The close of its connection, or what is under way on it, detaches r.
Listed(r) == subscribed[req[r].conn] \/ At(r, "insert") \/ Leaving(req[r].conn)

\* What waits in ctrl to be served is detached too, or before it a detach
\* follows it there.
Released(q, k) == \E j \in 1..Len(q) : j > k /\ q[j] = NoRequest
QueuedIsListed ==
  current # NoSession =>
    \A k \in 1..Len(ctrl[current]) :
      ctrl[current][k] # NoRequest =>
        Listed(ctrl[current][k]) \/ Released(ctrl[current], k)

\* Streams are attached by requests that have been carried out that far, and
\* to sessions that there are.
Streams(i) == {sub[i]} \cup {ctrl[i][k] : k \in 1..Len(ctrl[i])}
StreamsAttached ==
  \A i \in Session : \A r \in Request :
    r \in Streams(i) => req[r].pc \in {"insert", "done"}
UnbornIsQuiet == \A i \in Session : st[i] = "unborn" => ctrl[i] = <<>> /\ sub[i] = NoRequest

\* Only a detach or a kill begins by leaving `subscribed`.
KindFits == \A r \in Request : At(r, "remove") => req[r].kind \in {"detach", "kill"}

Inv == TypeOK /\ ServedIsListed /\ QueuedIsListed /\ StreamsAttached /\ UnbornIsQuiet

-----------------------------------------------------------------------------
\* A queue that grows at its end, and one that loses its head.
LEMMA Appended ==
  ASSUME NEW S, NEW q \in Seq(S), NEW e \in S
  PROVE  /\ Append(q, e) \in Seq(S) /\ Len(Append(q, e)) = Len(q) + 1 /\ Len(q) \in Nat
         /\ \A k \in 1..Len(q) : Append(q, e)[k] = q[k]
         /\ Append(q, e)[Len(q) + 1] = e
OBVIOUS

LEMMA Taken ==
  ASSUME NEW S, NEW q \in Seq(S), q # <<>>
  PROVE  /\ Tail(q) \in Seq(S) /\ Len(Tail(q)) = Len(q) - 1 /\ Len(q) \in Nat \ {0}
         /\ \A k \in 1..Len(Tail(q)) : Tail(q)[k] = q[k + 1]
         /\ Head(q) = q[1] /\ Head(q) \in S
OBVIOUS

\* At first there are no streams.
LEMMA InvInit == Init => Inv
<1> SUFFICES ASSUME Init PROVE Inv
  OBVIOUS
<1> USE ConnectionsAssumption DEF Init
<1>1. TypeOK
  <2>1. 1 \in Session /\ NoSession \notin Session
    BY DEF Session, NoSession
  <2>2. (CHOOSE c \in Conn : TRUE) \in Conn
    OBVIOUS
  <2>3. /\ current \in Session \cup {NoSession} /\ st \in [Session -> {"unborn", "live", "over"}]
        /\ detachedAt \in [Session -> {"none", "recent", "expired"}]
        /\ \A i \in Session : st[i] = "live" <=> current = i
    BY <2>1
  <2>4. /\ conn \in [Conn -> {"open", "closed"}] /\ link \in [Conn -> {"up", "down"}]
        /\ subscribed \in [Conn -> BOOLEAN] /\ late \in [Conn -> BOOLEAN]
        /\ serves \in [Request -> Session \cup {NoSession}]
        /\ rx \in [Request -> {"unused", "open", "closed"}]
        /\ sub \in [Session -> Request \cup {NoRequest}] /\ exited \in [Session -> BOOLEAN]
    OBVIOUS
  <2>5. ctrl \in [Session -> Seq(Request \cup {NoRequest})]
    <3>1. <<>> \in Seq(Request \cup {NoRequest})
      OBVIOUS
    <3> QED BY <3>1
  <2>6. req \in [Request -> [pc : {"unsent", "spawn", "attach", "insert", "remove",
                                  "detach", "kill", "done"},
                            conn : Conn, kind : Kinds]]
    BY <2>2 DEF Kinds
  <2> QED BY <2>3, <2>4, <2>5, <2>6 DEF TypeOK
<1>2. \A i \in Session : ctrl[i] = <<>> /\ Len(ctrl[i]) = 0 /\ sub[i] = NoRequest
  <2>1. Len(<<>>) = 0
    OBVIOUS
  <2> QED BY <2>1
<1>3. ServedIsListed /\ QueuedIsListed
  <2>1. current # NoSession => current \in Session
    BY <1>1 DEF TypeOK
  <2>2. ASSUME NEW k \in 1..0 PROVE FALSE
    OBVIOUS
  <2> QED BY <1>2, <2>1, <2>2 DEF ServedIsListed, QueuedIsListed
<1>4. StreamsAttached /\ UnbornIsQuiet
  <2>1. ASSUME NEW i \in Session, NEW r \in Request PROVE r \notin Streams(i)
    BY <1>2 DEF Streams
  <2> QED BY <1>2, <2>1 DEF StreamsAttached, UnbornIsQuiet
<1> QED BY <1>1, <1>3, <1>4 DEF Inv

-----------------------------------------------------------------------------
\* A step that leaves the sessions' queues and subscribers alone keeps what is
\* said of them, if those who are listed stay listed.
LEMMA QueuesKept ==
  ASSUME Inv, TypeOK', UNCHANGED <<ctrl, sub>>,
         current' # NoSession => current' = current,
         \A i \in Session : st'[i] = "unborn" => st[i] = "unborn",
         \A r \in Request : req[r].pc \in {"insert", "done"} =>
           /\ req'[r].pc \in {"insert", "done"}
           /\ current' # NoSession /\ Listed(r) => Listed(r)'
  PROVE  Inv'
<1>1. StreamsAttached' /\ UnbornIsQuiet'
  BY DEF Inv, StreamsAttached, UnbornIsQuiet, Streams
<1>2. QueuedIsListed'
  <2>1. ASSUME current' # NoSession, NEW k \in 1..Len(ctrl[current]), ctrl[current][k] # NoRequest
        PROVE  Listed(ctrl[current][k])' \/ Released(ctrl[current], k)
    <3>1. current = current' /\ current \in Session /\ ctrl[current][k] \in Request
      BY <2>1 DEF Inv, TypeOK
    <3>2. req[ctrl[current][k]].pc \in {"insert", "done"}
      BY <3>1 DEF Inv, StreamsAttached, Streams
    <3> QED BY <2>1, <3>1, <3>2 DEF Inv, QueuedIsListed
  <2> QED BY <2>1 DEF QueuedIsListed, Released
<1>3. ServedIsListed'
  <2>1. ASSUME current' # NoSession, sub[current] # NoRequest
        PROVE  \/ Listed(sub[current])'
               \/ \E k \in 1..Len(ctrl[current]) : ctrl[current][k] = NoRequest
    <3>1. current = current' /\ current \in Session /\ sub[current] \in Request
      BY <2>1 DEF Inv, TypeOK
    <3>2. req[sub[current]].pc \in {"insert", "done"}
      BY <3>1 DEF Inv, StreamsAttached, Streams
    <3>3. \/ Listed(sub[current])
          \/ \E k \in 1..Len(ctrl[current]) : ctrl[current][k] = NoRequest
      BY <2>1, <3>1 DEF Inv, ServedIsListed, Listed
    <3> QED BY <2>1, <3>1, <3>2, <3>3
  <2> QED BY <2>1 DEF ServedIsListed, Listed
<1> QED BY <1>1, <1>2, <1>3 DEF Inv

\* What a connection does, and what its peer does.
LEMMA ConnectionKeepsInv ==
  ASSUME Inv, NEW c \in Conn,
         \/ LinkDown(c)
         \/ \E r \in Request, kind \in Kinds : Send(r, c, kind)
  PROVE  Inv'
<1>1. CASE LinkDown(c)
  <2>1. TypeOK'
    BY <1>1 DEF LinkDown, Inv, TypeOK, sessVars
  <2>2. UNCHANGED <<req, subscribed, current, st, ctrl, sub>>
    BY <1>1 DEF LinkDown, sessVars
  <2> QED BY <2>1, <2>2, QueuesKept DEF Listed, Leaving, At
<1>2. ASSUME NEW r \in Request, NEW kind \in Kinds, Send(r, c, kind) PROVE Inv'
  <2>1. /\ UNCHANGED <<connVars, serves, rx, current, sessVars>>
        /\ req[r].pc = "unsent"
        /\ req' = [req EXCEPT ![r] = [pc |-> FirstStep(kind), conn |-> c, kind |-> kind]]
    BY <1>2 DEF Send, At
  <2>2. FirstStep(kind) \in {"spawn", "attach", "remove"}
    BY DEF FirstStep, Kinds
  <2>3. TypeOK'
    BY <2>1, <2>2 DEF Inv, TypeOK, sessVars, connVars
  <2>4. \A q \in Request : req[q].pc # "unsent" => req'[q] = req[q]
    BY <2>1 DEF Inv, TypeOK
  <2>5. \A d \in Conn : Leaving(d) => Leaving(d)'
    BY <2>4 DEF Leaving
  <2> QED BY <2>1, <2>3, <2>4, <2>5, QueuesKept DEF Listed, At, Inv, TypeOK, sessVars, connVars
<1> QED BY <1>1, <1>2

\* What is put in the queue of the session in the map is listed, or a detach.
LEMMA PutKeepsInv ==
  ASSUME Inv, TypeOK', current # NoSession, UNCHANGED <<subscribed, current, st, sub>>,
         NEW r \in Request \cup {NoRequest},
         ctrl' = [ctrl EXCEPT ![current] = Append(@, r)],
         \A q \in Request : req[q].pc \in {"insert", "done"} =>
           req'[q].pc \in {"insert", "done"},
         r \in Request => /\ req'[r].pc = "insert"
                          /\ \A q \in Request : req[q].pc \in {"insert", "done"} =>
                               (Listed(q) => Listed(q)')
  PROVE  Inv'
<1> DEFINE q == ctrl[current]
           n == Len(q)
<1>1. current \in Session /\ q \in Seq(Request \cup {NoRequest})
  BY DEF Inv, TypeOK
<1>2. /\ ctrl'[current] = Append(q, r) /\ Len(ctrl'[current]) = n + 1 /\ n \in Nat
      /\ \A k \in 1..n : ctrl'[current][k] = q[k]
      /\ ctrl'[current][n + 1] = r
  <2>1. ctrl'[current] = Append(q, r)
    BY <1>1 DEF Inv, TypeOK
  <2> QED BY <1>1, <2>1, Appended
<1>3. \A i \in Session : i # current => ctrl'[i] = ctrl[i]
  BY DEF Inv, TypeOK
<1> HIDE DEF q, n
<1>4. \A i \in Session : Streams(i)' \subseteq Streams(i) \cup {r}
  <2>1. ASSUME NEW i \in Session, i # current PROVE Streams(i)' = Streams(i)
    BY <1>3, <2>1 DEF Streams
  <2>2. ASSUME NEW k \in 1..Len(ctrl'[current])
        PROVE  ctrl'[current][k] = r \/ (k \in 1..n /\ ctrl'[current][k] = q[k])
    BY <1>2
  <2>3. Streams(current)' \subseteq Streams(current) \cup {r}
    BY <2>2 DEF Streams, q, n
  <2> QED BY <2>1, <2>3
<1>5. StreamsAttached'
  BY <1>4, ConnectionsAssumption DEF Inv, StreamsAttached
<1>6. UnbornIsQuiet'
  BY <1>1, <1>3 DEF Inv, UnbornIsQuiet, TypeOK
<1>7. QueuedIsListed'
  <2>1. ASSUME NEW k \in 1..n, NEW p \in Request, p = q[k]
        PROVE  Listed(p)' \/ Released(ctrl[current], k)'
    <3>1. req[p].pc \in {"insert", "done"}
      BY <1>1, <2>1 DEF Inv, StreamsAttached, Streams, q, n
    <3>2. Listed(p) \/ Released(q, k)
      BY <2>1, ConnectionsAssumption DEF Inv, QueuedIsListed, q, n
    <3>3. CASE Released(q, k)
      BY <1>2, <3>3 DEF Released, q, n
    <3>4. CASE r = NoRequest
      <4>1. n + 1 \in 1..Len(ctrl'[current]) /\ n + 1 > k /\ ctrl'[current][n + 1] = NoRequest
        BY <1>2, <3>4
      <4> QED BY <4>1 DEF Released
    <3>5. CASE r \in Request /\ Listed(p)
      BY <3>1, <3>5
    <3> QED BY <3>2, <3>3, <3>4, <3>5
  <2>2. r # NoRequest => Listed(r)'
    BY DEF Listed, At
  <2>3. ASSUME NEW k \in 1..n + 1, NEW p \in Request, p = ctrl'[current][k]
        PROVE  Listed(p)' \/ Released(ctrl[current], k)'
    <3>1. CASE k \in 1..n
      BY <1>2, <2>1, <2>3, <3>1
    <3>2. CASE k = n + 1
      BY <1>2, <2>2, <2>3, <3>2, ConnectionsAssumption
    <3> QED BY <1>2, <3>1, <3>2
  <2>4. \A k \in 1..n + 1 : ctrl'[current][k] # NoRequest => ctrl'[current][k] \in Request
    BY <1>1, <1>2
  <2> QED BY <1>2, <2>3, <2>4 DEF QueuedIsListed
<1>8. ServedIsListed'
  <2>1. ASSUME sub[current] # NoRequest
        PROVE  \/ Listed(sub[current])'
               \/ \E k \in 1..n + 1 : ctrl'[current][k] = NoRequest
    <3>1. sub[current] \in Request /\ req[sub[current]].pc \in {"insert", "done"}
      BY <1>1, <2>1 DEF Inv, TypeOK, StreamsAttached, Streams
    <3>2. Listed(sub[current]) \/ \E k \in 1..n : q[k] = NoRequest
      BY <2>1 DEF Inv, ServedIsListed, Listed, q, n
    <3>3. CASE r = NoRequest
      BY <1>2, <3>3
    <3>4. CASE r \in Request
      BY <1>2, <3>1, <3>2, <3>4
    <3> QED BY <3>3, <3>4
  <2> QED BY <1>2, <2>1 DEF ServedIsListed, Listed
<1> QED BY <1>5, <1>6, <1>7, <1>8 DEF Inv

\* A close puts a detach in the queue, and leaves `subscribed` alone.
LEMMA CloseKeepsInv ==
  ASSUME Inv, NEW c \in Conn, Close(c)
  PROVE  Inv'
<1>1. /\ conn' = [conn EXCEPT ![c] = "closed"] /\ link' = [link EXCEPT ![c] = "down"]
      /\ UNCHANGED <<subscribed, late, req, serves, rx, current, st, sub, detachedAt, exited>>
  BY DEF Close
<1>2. CASE UNCHANGED ctrl
  <2>1. TypeOK'
    BY <1>1, <1>2 DEF Inv, TypeOK
  <2> QED BY <1>1, <1>2, <2>1, QueuesKept DEF Listed, Leaving, At
<1>3. CASE current # NoSession /\ ctrl' = [ctrl EXCEPT ![current] = Append(@, NoRequest)]
  <2>1. TypeOK'
    <3>1. current \in Session /\ ctrl[current] \in Seq(Request \cup {NoRequest})
      BY <1>3 DEF Inv, TypeOK
    <3>2. Append(ctrl[current], NoRequest) \in Seq(Request \cup {NoRequest})
      BY <3>1, Appended
    <3> QED BY <1>1, <1>3, <3>2 DEF Inv, TypeOK
  <2> QED BY <1>1, <1>3, <2>1, PutKeepsInv, ConnectionsAssumption
<1> QED BY <1>2, <1>3 DEF Close, Unsubscribe

\* The handlers.
LEMMA HandlerKeepsInv ==
  ASSUME Inv, KindFits, NEW r \in Request, Handler(r)
  PROVE  Inv'
<1> USE DEF At, Goto, connVars, sessVars
<1>1. CASE Spawn(r)
  <2>1. /\ UNCHANGED <<connVars, serves, rx, ctrl, sub, detachedAt, exited>>
        /\ req[r].pc = "spawn"
    BY <1>1 DEF Spawn
  <2>2. CASE Goto(r, "done") /\ UNCHANGED <<st, current>>
    <3>1. TypeOK'
      BY ZenonT(60), <2>1, <2>2 DEF Inv, TypeOK
    <3>2. \A d \in Conn : Leaving(d) => Leaving(d)'
      BY <2>1, <2>2 DEF Leaving, Inv, TypeOK
    <3> QED BY <2>1, <2>2, <3>1, <3>2, QueuesKept DEF Listed, Inv, TypeOK
  <2>3. ASSUME NEW i \in Session, st[i] = "unborn", current' = i, Goto(r, "attach"),
               st' = [j \in Session |-> CASE j = i       -> "live"
                                            [] j = current -> "over"
                                            [] OTHER       -> st[j]]
        PROVE  Inv'
    <3>1. i # current
      BY <2>3 DEF Inv, TypeOK
    <3>2. \A j \in Session : st'[j] = IF j = i THEN "live" ELSE
                                         IF j = current THEN "over" ELSE st[j]
      <4>1. ASSUME NEW j \in Session, j = i PROVE st'[j] = "live"
        BY <2>3, <3>1, <4>1
      <4>2. ASSUME NEW j \in Session, j # i, j = current PROVE st'[j] = "over"
        BY <2>3, <4>2
      <4>3. ASSUME NEW j \in Session, j # i, j # current PROVE st'[j] = st[j]
        BY <2>3, <4>3
      <4> QED BY <4>1, <4>2, <4>3
    <3>3. TypeOK'
      BY ZenonT(60), <2>1, <2>3, <3>1, <3>2 DEF Inv, TypeOK
    <3>4. sub[i] = NoRequest /\ ctrl[i] = <<>> /\ Len(ctrl[i]) = 0
      BY <2>3 DEF Inv, UnbornIsQuiet
    <3>5. ServedIsListed' /\ QueuedIsListed'
      BY <2>1, <2>3, <3>4 DEF ServedIsListed, QueuedIsListed
    <3>6. StreamsAttached' /\ UnbornIsQuiet'
      BY <2>1, <2>3, <3>2 DEF Inv, TypeOK, StreamsAttached, UnbornIsQuiet, Streams
    <3> QED BY <3>3, <3>5, <3>6 DEF Inv
  <2> QED BY <1>1, <2>2, <2>3 DEF Spawn
<1>2. CASE Attach(r)
  <2>1. /\ UNCHANGED <<connVars, current, st, sub, detachedAt, exited>>
        /\ req[r].pc = "attach"
    BY <1>2 DEF Attach
  <2>2. \A d \in Conn, pc \in {"insert", "done"} : Goto(r, pc) /\ Leaving(d) => Leaving(d)'
    BY <2>1 DEF Leaving, Inv, TypeOK
  <2>3. CASE Goto(r, "done") /\ UNCHANGED <<serves, rx, ctrl>>
    <3>1. TypeOK'
      BY ZenonT(60), <2>1, <2>3 DEF Inv, TypeOK
    <3> QED BY <2>1, <2>2, <2>3, <3>1, QueuesKept DEF Listed, Inv, TypeOK
  <2>4. CASE /\ current # NoSession /\ Goto(r, "insert")
             /\ ctrl' = [ctrl EXCEPT ![current] = Append(@, r)]
             /\ rx' = [rx EXCEPT ![r] = "open"]
             /\ serves' = [serves EXCEPT ![r] = current]
    <3>1. TypeOK'
      <4>1. current \in Session /\ ctrl[current] \in Seq(Request \cup {NoRequest})
        BY <2>4 DEF Inv, TypeOK
      <4>2. Append(ctrl[current], r) \in Seq(Request \cup {NoRequest})
        BY <4>1, Appended
      <4> QED BY ZenonT(60), <2>1, <2>4, <4>1, <4>2 DEF Inv, TypeOK
    <3>2. \A q \in Request : q # r => req'[q] = req[q]
      BY <2>4 DEF Inv, TypeOK
    <3>3. req'[r].pc = "insert" /\ req'[r].conn = req[r].conn
      BY <2>4 DEF Inv, TypeOK
    <3>4. \A q \in Request : req[q].pc \in {"insert", "done"} => (Listed(q) => Listed(q)')
      BY <2>1, <2>2, <2>4, <3>2 DEF Listed, Inv, TypeOK
    <3> QED BY <2>1, <2>4, <3>1, <3>2, <3>3, <3>4, PutKeepsInv
  <2> QED BY <1>2, <2>3, <2>4 DEF Attach, Refused
<1>3. CASE Insert(r)
  <2>1. /\ UNCHANGED <<conn, link, serves, rx, current, sessVars>> /\ req[r].pc = "insert"
        /\ subscribed' = [subscribed EXCEPT ![req[r].conn] = TRUE] /\ Goto(r, "done")
    BY <1>3 DEF Insert
  <2>2. TypeOK'
    BY ZenonT(60), <1>3 DEF Insert, Inv, TypeOK
  <2>3. \A d \in Conn : (Leaving(d) => Leaving(d)') /\ (subscribed[d] => subscribed'[d])
    BY <2>1 DEF Leaving, Inv, TypeOK
  <2>4. subscribed'[req[r].conn]
    BY <2>1 DEF Inv, TypeOK
  <2> QED BY <2>1, <2>2, <2>3, <2>4, QueuesKept DEF Listed, Inv, TypeOK
<1>4. CASE Remove(r)
  <2>1. /\ UNCHANGED <<conn, link, late, serves, rx, current, sessVars>> /\ req[r].pc = "remove"
        /\ subscribed' = [subscribed EXCEPT ![req[r].conn] = FALSE] /\ Goto(r, req[r].kind)
    BY <1>4 DEF Remove
  <2>2. req[r].kind \in {"detach", "kill"}
    BY <2>1 DEF KindFits
  <2>3. TypeOK'
    BY ZenonT(60), <2>1, <2>2 DEF Inv, TypeOK
  <2>4. \A q \in Request : q # r => req'[q] = req[q]
    BY <2>1 DEF Inv, TypeOK
  <2>5. req'[r].pc \in {"detach", "kill"} /\ req'[r].conn = req[r].conn
    BY <2>1, <2>2 DEF Inv, TypeOK
  <2>6. \A d \in Conn : d = req[r].conn \/ Leaving(d) => Leaving(d)'
    BY <2>1, <2>4, <2>5 DEF Leaving
  <2>7. \A d \in Conn : d # req[r].conn => subscribed'[d] = subscribed[d]
    BY <2>1 DEF Inv, TypeOK
  <2>8. ASSUME NEW q \in Request, req[q].pc \in {"insert", "done"}, Listed(q)
        PROVE  Listed(q)'
    <3>1. q # r /\ req'[q] = req[q]
      BY <2>1, <2>4, <2>8
    <3>2. CASE req[q].conn = req[r].conn
      BY <2>6, <3>1, <3>2 DEF Listed, Inv, TypeOK
    <3>3. CASE req[q].conn # req[r].conn
      BY <2>6, <2>7, <2>8, <3>1, <3>3 DEF Listed, Inv, TypeOK
    <3> QED BY <3>2, <3>3
  <2> QED BY <2>1, <2>3, <2>4, <2>8, QueuesKept
<1>5. CASE Detach(r)
  <2>1. /\ UNCHANGED <<connVars, serves, rx, current, st, sub, detachedAt, exited>>
        /\ req[r].pc = "detach" /\ Goto(r, "done")
    BY <1>5 DEF Detach
  <2>2. \A q \in Request : req[q].pc \in {"insert", "done"} => req'[q] = req[q]
    BY <2>1 DEF Inv, TypeOK
  <2>3. CASE current = NoSession /\ UNCHANGED ctrl
    <3>1. TypeOK'
      BY ZenonT(60), <2>1, <2>3 DEF Inv, TypeOK
    <3> QED BY <2>1, <2>2, <2>3, <3>1, QueuesKept
  <2>4. CASE current # NoSession /\ ctrl' = [ctrl EXCEPT ![current] = Append(@, NoRequest)]
    <3>1. TypeOK'
      <4>1. current \in Session /\ ctrl[current] \in Seq(Request \cup {NoRequest})
        BY <2>4 DEF Inv, TypeOK
      <4>2. Append(ctrl[current], NoRequest) \in Seq(Request \cup {NoRequest})
        BY <4>1, Appended
      <4> QED BY ZenonT(60), <2>1, <2>4, <4>2 DEF Inv, TypeOK
    <3> QED BY <2>1, <2>2, <2>4, <3>1, PutKeepsInv, ConnectionsAssumption
  <2> QED BY <1>5, <2>3, <2>4 DEF Detach, Unsubscribe
<1>6. CASE Kill(r)
  <2>1. /\ UNCHANGED <<connVars, serves, rx, ctrl, sub, detachedAt, exited>>
        /\ req[r].pc = "kill" /\ Goto(r, "done") /\ current' = NoSession
        /\ \/ \E i \in Session : current = i /\ st' = [st EXCEPT ![i] = "over"]
           \/ current = NoSession /\ UNCHANGED st
    BY <1>6 DEF Kill, LeavesMap
  <2>2. TypeOK'
    <3>1. NoSession \notin Session
      BY DEF Session, NoSession
    <3>2. CASE current = NoSession /\ UNCHANGED st
      BY ZenonT(60), <2>1, <3>1, <3>2 DEF Inv, TypeOK
    <3>3. ASSUME NEW i \in Session, current = i, st' = [st EXCEPT ![i] = "over"]
          PROVE  TypeOK'
      <4>1. st' \in [Session -> {"unborn", "live", "over"}]
        BY <3>3 DEF Inv, TypeOK
      <4>2. \A j \in Session : st'[j] = "live" <=> current' = j
        BY <2>1, <3>1, <3>3 DEF Inv, TypeOK
      <4>3. req' \in [Request -> [pc : {"unsent", "spawn", "attach", "insert", "remove",
                                      "detach", "kill", "done"},
                                conn : Conn, kind : Kinds]]
        BY ZenonT(60), <2>1 DEF Inv, TypeOK
      <4> QED BY <2>1, <4>1, <4>2, <4>3 DEF Inv, TypeOK
    <3> QED BY <2>1, <3>2, <3>3
  <2>3. \A q \in Request : req[q].pc \in {"insert", "done"} => req'[q] = req[q]
    BY <2>1 DEF Inv, TypeOK
  <2>4. \A i \in Session : st'[i] = "unborn" => st[i] = "unborn"
    BY <2>1 DEF Inv, TypeOK
  <2> QED BY <2>1, <2>2, <2>3, <2>4, QueuesKept
<1> QED BY <1>1, <1>2, <1>3, <1>4, <1>5, <1>6 DEF Handler

\* The sessions' own steps, and the sweep.
LEMMA SessionKeepsInv ==
  ASSUME Inv, NEW i \in Session,
         Take(i) \/ SendFails(i) \/ Exit(i) \/ TaskEnds(i) \/ Expire(i) \/ Sweep(i)
  PROVE  Inv'
<1> USE DEF connVars, sessVars
<1> DEFINE Q == Request \cup {NoRequest}
<1>1. CASE Take(i)
  <2> DEFINE q == ctrl[i]
  <2>1. /\ UNCHANGED <<connVars, req, serves, rx, current, st, exited>>
        /\ q # <<>> /\ ctrl' = [ctrl EXCEPT ![i] = Tail(q)]
        /\ sub' = [sub EXCEPT ![i] = q[1]] \/ (sub' = sub /\ q[1] # NoRequest)
        /\ detachedAt' = detachedAt \/ detachedAt' = [detachedAt EXCEPT ![i] = "recent"]
             \/ detachedAt' = [detachedAt EXCEPT ![i] = "none"]
    BY <1>1 DEF Take
  <2>2. /\ q \in Seq(Q) /\ Tail(q) \in Seq(Q) /\ Len(Tail(q)) = Len(q) - 1
        /\ Len(q) \in Nat \ {0} /\ q[1] \in Q
        /\ \A k \in 1..Len(Tail(q)) : Tail(q)[k] = q[k + 1]
    <3>1. q \in Seq(Q) /\ q # <<>>
      BY <2>1 DEF Inv, TypeOK
    <3>2. Head(q) = q[1]
      BY <3>1, Taken
    <3> QED BY <3>1, <3>2, Taken
  <2>3. TypeOK'
    <3>1. ctrl' \in [Session -> Seq(Q)]
      BY <2>1, <2>2 DEF Inv, TypeOK
    <3>2. sub' \in [Session -> Q]
      BY ZenonT(60), <2>1, <2>2 DEF Inv, TypeOK
    <3>3. detachedAt' \in [Session -> {"none", "recent", "expired"}]
      BY <2>1 DEF Inv, TypeOK
    <3> QED BY <2>1, <3>1, <3>2, <3>3 DEF Inv, TypeOK
  <2>4. /\ \A j \in Session \ {i} : ctrl'[j] = ctrl[j] /\ sub'[j] = sub[j]
        /\ ctrl'[i] = Tail(q) /\ (sub'[i] = q[1] \/ (sub'[i] = sub[i] /\ q[1] # NoRequest))
    BY <2>1 DEF Inv, TypeOK
  <2> HIDE DEF q
  <2>5. StreamsAttached'
    <3>1. Streams(i)' \subseteq Streams(i)
      <4>1. q[1] \in Streams(i) /\ sub[i] \in Streams(i)
        BY <2>2 DEF Streams, q
      <4>2. ASSUME NEW k \in 1..Len(Tail(q)) PROVE Tail(q)[k] \in Streams(i)
        <5>1. k + 1 \in 1..Len(q) /\ Tail(q)[k] = q[k + 1]
          BY <2>2
        <5> QED BY <5>1 DEF Streams, q
      <4> QED BY SMTT(30), <2>4, <4>1, <4>2 DEF Streams
    <3>2. ASSUME NEW j \in Session, j # i PROVE Streams(j)' = Streams(j)
      BY <2>4, <3>2 DEF Streams
    <3> QED BY <2>1, <3>1, <3>2 DEF Inv, StreamsAttached
  <2>6. UnbornIsQuiet'
    BY <2>1, <2>4 DEF Inv, UnbornIsQuiet, q
  <2>7. CASE i # current
    <3>1. current \in Session => ctrl'[current] = ctrl[current] /\ sub'[current] = sub[current]
      BY <2>4, <2>7
    <3>2. current # NoSession => current \in Session
      BY DEF Inv, TypeOK
    <3>3. ASSUME current # NoSession
          PROVE  /\ current' = current /\ UNCHANGED <<req, subscribed>>
                 /\ ctrl'[current] = ctrl[current] /\ sub'[current] = sub[current]
      BY <2>1, <3>1, <3>2, <3>3
    <3>4. current' = current
      BY <2>1
    <3>5. ServedIsListed'
      BY <3>3, <3>4 DEF Inv, ServedIsListed, Leaving, At
    <3>6. QueuedIsListed'
      BY <3>3, <3>4 DEF Inv, QueuedIsListed, Listed, Leaving, At, Released
    <3> QED BY <2>3, <2>5, <2>6, <3>5, <3>6 DEF Inv
  <2>8. CASE i = current
    <3>1. current # NoSession
      BY <2>8 DEF Session, NoSession
    <3>2. ASSUME NEW k \in 1..Len(q), k > 1, q[k] = NoRequest
          PROVE  k - 1 \in 1..Len(Tail(q)) /\ Tail(q)[k - 1] = NoRequest
      BY <2>2, <3>2
    <3>3. QueuedIsListed'
      <4>1. ASSUME NEW k \in 1..Len(Tail(q)), NEW p \in Request, p = Tail(q)[k]
            PROVE  Listed(p)' \/ Released(ctrl[i], k)'
        <5>1. k + 1 \in 1..Len(q) /\ p = q[k + 1]
          BY <2>2, <4>1
        <5>2. Listed(p) \/ Released(q, k + 1)
          BY <2>8, <3>1, <5>1, ConnectionsAssumption DEF Inv, QueuedIsListed, q
        <5>3. ASSUME Released(q, k + 1) PROVE Released(ctrl[i], k)'
          <6>1. PICK l \in 1..Len(q) : l > k + 1 /\ q[l] = NoRequest
            BY <5>3 DEF Released
          <6>2. l - 1 \in 1..Len(Tail(q)) /\ Tail(q)[l - 1] = NoRequest /\ l - 1 > k
            BY <3>2, <6>1
          <6> QED BY <2>4, <6>2 DEF Released
        <5>4. Listed(p) => Listed(p)'
          BY <2>1 DEF Listed, Leaving, At
        <5> QED BY <5>2, <5>3, <5>4
      <4>2. \A k \in 1..Len(Tail(q)) : Tail(q)[k] # NoRequest => Tail(q)[k] \in Request
        BY <2>2
      <4>3. current' = i /\ ctrl'[i] = Tail(q)
        BY <2>1, <2>4, <2>8
      <4> QED BY <4>1, <4>2, <4>3 DEF QueuedIsListed
    <3>4. ASSUME sub'[i] # NoRequest
          PROVE  Listed(sub'[i]) \/ \E k \in 1..Len(Tail(q)) : Tail(q)[k] = NoRequest
      <4>1. CASE sub'[i] = q[1]
        <5>1. Listed(q[1]) \/ Released(q, 1)
          BY <2>2, <2>8, <3>1, <3>4, <4>1 DEF Inv, QueuedIsListed, q
        <5> QED BY <3>2, <4>1, <5>1 DEF Released
      <4>2. CASE sub'[i] = sub[i] /\ q[1] # NoRequest
        <5>1. Listed(sub[i]) \/ \E k \in 1..Len(q) : q[k] = NoRequest
          BY <2>8, <3>1, <3>4, <4>2 DEF Inv, ServedIsListed, Listed, q
        <5>2. ASSUME NEW k \in 1..Len(q), q[k] = NoRequest PROVE k > 1
          BY <2>2, <4>2, <5>2
        <5> QED BY <3>2, <4>2, <5>1, <5>2
      <4> QED BY <2>4, <4>1, <4>2
    <3>5. ServedIsListed'
      <4>1. current' = i /\ ctrl'[i] = Tail(q) /\ UNCHANGED <<req, subscribed>>
        BY <2>1, <2>4, <2>8
      <4> QED BY <3>4, <4>1 DEF ServedIsListed, Listed, Leaving, At
    <3> QED BY <2>3, <2>5, <2>6, <3>3, <3>5 DEF Inv
  <2> QED BY <2>7, <2>8
<1>2. CASE SendFails(i) \/ Exit(i)
  <2>1. /\ UNCHANGED <<connVars, req, current, st, ctrl>>
        /\ sub' = [sub EXCEPT ![i] = NoRequest]
    BY <1>2 DEF SendFails, Exit
  <2>2. TypeOK'
    <3>1. CASE SendFails(i)
      BY <3>1 DEF SendFails, Inv, TypeOK
    <3>2. CASE Exit(i)
      BY <3>2 DEF Exit, Inv, TypeOK
    <3> QED BY <1>2, <3>1, <3>2
  <2>3. \A j \in Session : sub'[j] = sub[j] \/ sub'[j] = NoRequest
    BY <2>1 DEF Inv, TypeOK
  <2>4. StreamsAttached' /\ UnbornIsQuiet'
    BY <2>1, <2>3, ConnectionsAssumption DEF Inv, StreamsAttached, UnbornIsQuiet, Streams
  <2>5. ServedIsListed' /\ QueuedIsListed'
    BY <2>1, <2>3 DEF Inv, TypeOK, ServedIsListed, QueuedIsListed, Listed, Leaving, At, Released
  <2> QED BY <2>2, <2>4, <2>5 DEF Inv
<1>3. CASE TaskEnds(i)
  <2>1. /\ UNCHANGED <<connVars, req, serves, rx, current, st, detachedAt, exited>>
        /\ sub' = [sub EXCEPT ![i] = NoRequest] /\ ctrl' = [ctrl EXCEPT ![i] = <<>>]
        /\ st[i] = "over"
    BY <1>3 DEF TaskEnds
  <2>2. <<>> \in Seq(Q) /\ Len(<<>>) = 0
    OBVIOUS
  <2>3. TypeOK'
    BY <2>1, <2>2 DEF Inv, TypeOK
  <2>4. /\ sub'[i] = NoRequest /\ ctrl'[i] = <<>> /\ i # current
        /\ \A j \in Session \ {i} : sub'[j] = sub[j] /\ ctrl'[j] = ctrl[j]
    BY <2>1 DEF Inv, TypeOK
  <2>5. StreamsAttached' /\ UnbornIsQuiet'
    <3>1. ASSUME NEW r \in Request PROVE r \notin Streams(i)'
      BY <2>2, <2>4, ConnectionsAssumption DEF Streams
    <3>2. ASSUME NEW j \in Session, j # i PROVE Streams(j)' = Streams(j)
      BY <2>4, <3>2 DEF Streams
    <3> QED BY <2>1, <2>4, <3>1, <3>2 DEF Inv, StreamsAttached, UnbornIsQuiet
  <2>6. ServedIsListed' /\ QueuedIsListed'
    BY <2>1, <2>4 DEF Inv, TypeOK, ServedIsListed, QueuedIsListed, Listed, Leaving, At, Released
  <2> QED BY <2>3, <2>5, <2>6 DEF Inv
<1>4. CASE Expire(i)
  <2>1. TypeOK'
    BY <1>4 DEF Expire, Inv, TypeOK
  <2> QED BY <1>4, <2>1, QueuesKept DEF Expire, Listed, Leaving, At
<1>5. CASE Sweep(i)
  <2>1. /\ UNCHANGED <<connVars, req, serves, rx, ctrl, sub, detachedAt, exited>>
        /\ current = i /\ current' = NoSession /\ st' = [st EXCEPT ![i] = "over"]
    BY <1>5 DEF Sweep, SweepExited, SweepAbandoned, LeavesMap
  <2>2. TypeOK'
    BY <2>1 DEF Inv, TypeOK, Session, NoSession
  <2>3. \A j \in Session : st'[j] = "unborn" => st[j] = "unborn"
    BY <2>1 DEF Inv, TypeOK
  <2> QED BY <2>1, <2>2, <2>3, QueuesKept
<1> QED BY <1>1, <1>2, <1>3, <1>4, <1>5

\* What sends a request through `subscribed` is its kind.
LEMMA KindsFit ==
  ASSUME TypeOK, KindFits, [Next]_vars
  PROVE  KindFits'
<1> USE DEF At, Goto, connVars, sessVars
<1>1. ASSUME NEW r \in Request, NEW c \in Conn, NEW kind \in Kinds, Send(r, c, kind)
      PROVE  KindFits'
  BY <1>1 DEF Send, KindFits, TypeOK, FirstStep, Kinds
<1>2. ASSUME NEW r \in Request, Handler(r) PROVE KindFits'
  <2>1. ASSUME NEW pc, Goto(r, pc), pc # "remove" PROVE KindFits'
    BY <2>1 DEF KindFits, TypeOK
  <2>2. At(r, "remove") => req[r].kind # "remove"
    BY DEF KindFits
  <2>3. \E pc \in {"attach", "insert", "done", req[r].kind} :
          Goto(r, pc) /\ (pc = req[r].kind => pc # "remove")
    BY <1>2, <2>2 DEF Handler, Spawn, Attach, Insert, Remove, Detach, Kill, TypeOK, Kinds
  <2> QED BY <2>1, <2>3
<1>3. ASSUME UNCHANGED req PROVE KindFits'
  BY <1>3 DEF KindFits
<1>4. CASE UNCHANGED vars
  BY <1>3, <1>4 DEF vars
<1>5. ASSUME NEW c \in Conn, LinkDown(c) \/ Close(c) PROVE UNCHANGED req
  BY <1>5 DEF LinkDown, Close
<1>6. ASSUME NEW r \in Request, PushFails(r) \/ StreamEnds(r) PROVE UNCHANGED req
  BY <1>6 DEF PushFails, StreamEnds
<1>7. ASSUME NEW i \in Session,
             Take(i) \/ SendFails(i) \/ Exit(i) \/ TaskEnds(i) \/ Expire(i) \/ Sweep(i)
      PROVE  UNCHANGED req
  BY <1>7 DEF Take, SendFails, Exit, TaskEnds, Expire, Sweep, SweepExited, SweepAbandoned
<1> QED BY <1>1, <1>2, <1>3, <1>4, <1>5, <1>6, <1>7 DEF Next

-----------------------------------------------------------------------------
\* The sessions serve whom the manager's calls say, in every state.
LEMMA InvStep ==
  ASSUME Inv, KindFits, [Next]_vars
  PROVE  (Inv /\ KindFits)'
<1> SUFFICES Inv'
  BY KindsFit DEF Inv
<1>1. ASSUME NEW r \in Request, PushFails(r) \/ StreamEnds(r) PROVE Inv'
  <2>1. /\ UNCHANGED <<connVars, req, serves, current, sessVars>>
        /\ rx' = [rx EXCEPT ![r] = "closed"]
    BY <1>1 DEF PushFails, StreamEnds
  <2>2. TypeOK'
    BY <2>1 DEF Inv, TypeOK, connVars, sessVars
  <2> QED BY <2>1, <2>2, QueuesKept DEF Listed, Leaving, At, connVars, sessVars
<1>2. CASE UNCHANGED vars
  <2>1. TypeOK'
    BY <1>2 DEF vars, connVars, sessVars, Inv, TypeOK
  <2> QED BY <1>2, <2>1, QueuesKept DEF vars, connVars, sessVars, Listed, Leaving, At
<1> QED BY <1>1, <1>2, ConnectionKeepsInv, CloseKeepsInv, HandlerKeepsInv, SessionKeepsInv
        DEF Next

LEMMA InvFirst == Init => Inv /\ KindFits
<1>1. Init => \A r \in Request : req[r].pc = "unsent"
  BY DEF Init
<1> QED BY <1>1, InvInit DEF KindFits, At

-----------------------------------------------------------------------------
\* Whoever the session in the map streams to has its id in `subscribed`, or a
\* detach or kill of its own on the way, whatever the connections send and in
\* whichever order the handlers take their locks.
THEOREM ServedConnectionsAreListed == Spec => []ConnectionsInv
<1>1. Inv => ConnectionsInv
  BY DEF Inv, ConnectionsInv
<1> QED BY <1>1, InvFirst, InvStep, PTL DEF Spec

-----------------------------------------------------------------------------
(* The calls of the connections are those of the contract. *)

\* A stream belongs to the session it was attached to, and there is none before.
StreamsServed ==
  /\ \A i \in Session : \A r \in Request : r \in Streams(i) => serves[r] = i
  /\ \A r \in Request : req[r].pc \notin {"insert", "done"} => rx[r] = "unused"

ServedInv == Inv /\ KindFits /\ StreamsServed

\* A call that is put in a queue makes one stream more, for that session.
LEMMA StreamsGrow ==
  ASSUME TypeOK, NEW j \in Session, NEW r \in Request \cup {NoRequest},
         ctrl' = [ctrl EXCEPT ![j] = Append(@, r)], UNCHANGED sub
  PROVE  /\ Streams(j)' \subseteq Streams(j) \cup {r}
         /\ \A i \in Session : i # j => Streams(i)' = Streams(i)
<1>1. ctrl[j] \in Seq(Request \cup {NoRequest}) /\ ctrl'[j] = Append(ctrl[j], r)
  BY DEF TypeOK
<1>2. /\ Len(ctrl'[j]) = Len(ctrl[j]) + 1 /\ Len(ctrl[j]) \in Nat
      /\ \A k \in 1..Len(ctrl[j]) : ctrl'[j][k] = ctrl[j][k]
      /\ ctrl'[j][Len(ctrl[j]) + 1] = r
  BY <1>1, Appended
<1>3. ASSUME NEW k \in 1..Len(ctrl'[j])
      PROVE  ctrl'[j][k] = r \/ (k \in 1..Len(ctrl[j]) /\ ctrl'[j][k] = ctrl[j][k])
  BY <1>2
<1>4. \A i \in Session : i # j => ctrl'[i] = ctrl[i]
  BY DEF TypeOK
<1> QED BY <1>3, <1>4 DEF Streams

\* One that is taken out of it makes none.
LEMMA StreamsShrink ==
  ASSUME TypeOK, NEW i \in Session, Take(i)
  PROVE  \A j \in Session : Streams(j)' \subseteq Streams(j)
<1> DEFINE q == ctrl[i]
<1>1. /\ q # <<>> /\ ctrl' = [ctrl EXCEPT ![i] = Tail(q)]
      /\ sub' = [sub EXCEPT ![i] = Head(q)] \/ sub' = sub
  BY DEF Take
<1>2. q \in Seq(Request \cup {NoRequest})
  BY DEF TypeOK
<1>3. /\ Len(Tail(q)) = Len(q) - 1 /\ Len(q) \in Nat \ {0} /\ Head(q) = q[1]
      /\ \A k \in 1..Len(Tail(q)) : Tail(q)[k] = q[k + 1]
  BY <1>1, <1>2, Taken
<1>4. /\ \A j \in Session \ {i} : ctrl'[j] = ctrl[j] /\ sub'[j] = sub[j]
      /\ ctrl'[i] = Tail(q) /\ (sub'[i] = q[1] \/ sub'[i] = sub[i])
  BY <1>1, <1>3 DEF TypeOK
<1> HIDE DEF q
<1>5. q[1] \in Streams(i) /\ sub[i] \in Streams(i)
  BY <1>3 DEF Streams, q
<1>6. ASSUME NEW k \in 1..Len(Tail(q)) PROVE Tail(q)[k] \in Streams(i)
  <2>1. k + 1 \in 1..Len(q) /\ Tail(q)[k] = q[k + 1]
    BY <1>3
  <2> QED BY <2>1 DEF Streams, q
<1>7. Streams(i)' \subseteq Streams(i)
  BY SMTT(30), <1>4, <1>5, <1>6 DEF Streams
<1>8. ASSUME NEW j \in Session, j # i PROVE Streams(j)' = Streams(j)
  BY <1>4, <1>8 DEF Streams
<1> QED BY <1>7, <1>8

\* A handler moves its own request only, and on.
LEMMA HandlerMoves ==
  ASSUME TypeOK, NEW r \in Request, Handler(r)
  PROVE  /\ \A q \in Request \ {r} : req'[q] = req[q]
         /\ req'[r].conn = req[r].conn /\ req'[r].kind = req[r].kind
         /\ req[r].pc \notin {"unsent", "done"}
         /\ req[r].pc = "insert" => req'[r].pc = "done"
<1>1. \E pc : Goto(r, pc) /\ (req[r].pc = "insert" => pc = "done")
  BY DEF Handler, Spawn, Attach, Insert, Remove, Detach, Kill, At
<1>2. req[r].pc \notin {"unsent", "done"}
  BY DEF Handler, Spawn, Attach, Insert, Remove, Detach, Kill, At
<1> QED BY <1>1, <1>2 DEF Goto, TypeOK

\* Steps that attach nobody.
LEMMA ServedKept ==
  ASSUME TypeOK, StreamsServed, UNCHANGED serves,
         \A i \in Session : Streams(i)' \subseteq Streams(i) \cup {NoRequest},
         \A r \in Request : /\ req[r].pc \in {"insert", "done"} => req'[r].pc \in {"insert", "done"}
                            /\ rx'[r] = rx[r] \/ rx[r] = "open"
  PROVE  StreamsServed'
BY ConnectionsAssumption DEF StreamsServed

LEMMA QuietKept ==
  ASSUME TypeOK, StreamsServed, UNCHANGED <<serves, rx, ctrl, sub>>,
         \A r \in Request : req[r].pc \in {"insert", "done"} => req'[r].pc \in {"insert", "done"}
  PROVE  StreamsServed'
<1>1. \A i \in Session : Streams(i)' = Streams(i)
  BY DEF Streams
<1> QED BY <1>1 DEF StreamsServed

LEMMA UnsubscribeKept ==
  ASSUME TypeOK, StreamsServed, UNCHANGED <<serves, rx, sub>>, Unsubscribe,
         \A r \in Request : req[r].pc \in {"insert", "done"} => req'[r].pc \in {"insert", "done"}
  PROVE  StreamsServed'
<1>1. CASE current = NoSession
  BY <1>1, QuietKept DEF Unsubscribe
<1>2. CASE current # NoSession
  <2>1. current \in Session
    BY <1>2 DEF TypeOK
  <2>2. ctrl' = [ctrl EXCEPT ![current] = Append(@, NoRequest)]
    BY <1>2 DEF Unsubscribe
  <2>3. \A i \in Session : Streams(i)' \subseteq Streams(i) \cup {NoRequest}
    BY <2>1, <2>2, StreamsGrow
  <2> QED BY <2>3, ServedKept
<1> QED BY <1>1, <1>2

LEMMA ServedStep ==
  ASSUME ServedInv, [Next]_vars
  PROVE  StreamsServed'
<1> USE DEF connVars, sessVars, At, Goto
<1>t. TypeOK /\ StreamsServed
  BY DEF ServedInv, Inv
<1>1. ASSUME NEW c \in Conn, LinkDown(c) PROVE StreamsServed'
  BY <1>t, <1>1, QuietKept DEF LinkDown
<1>2. ASSUME NEW c \in Conn, Close(c) PROVE StreamsServed'
  <2>1. UNCHANGED <<serves, rx, sub, req>> /\ (Unsubscribe \/ UNCHANGED ctrl)
    BY <1>2 DEF Close
  <2> QED BY <1>t, <2>1, QuietKept, UnsubscribeKept
<1>3. ASSUME NEW c \in Conn, NEW r \in Request, NEW kind \in Kinds, Send(r, c, kind)
      PROVE  StreamsServed'
  <2>1. /\ UNCHANGED <<serves, rx, ctrl, sub>>
        /\ \A q \in Request : req[q].pc # "unsent" => req'[q] = req[q]
    BY <1>t, <1>3 DEF Send, TypeOK
  <2> QED BY <1>t, <2>1, QuietKept
<1>4. ASSUME NEW r \in Request, Handler(r) PROVE StreamsServed'
  <2>0. \A q \in Request : req[q].pc \in {"insert", "done"} => req'[q].pc \in {"insert", "done"}
    BY <1>t, <1>4, HandlerMoves
  <2>1. CASE Spawn(r) \/ Insert(r) \/ Remove(r) \/ Kill(r)
    <3>1. UNCHANGED <<serves, rx, ctrl, sub>>
      BY <2>1 DEF Spawn, Insert, Remove, Kill
    <3> QED BY <1>t, <2>0, <3>1, QuietKept
  <2>2. CASE Detach(r)
    <3>1. UNCHANGED <<serves, rx, sub>> /\ Unsubscribe
      BY <2>2 DEF Detach
    <3> QED BY <1>t, <2>0, <3>1, UnsubscribeKept
  <2>3. CASE Attach(r)
    <3>2. CASE Refused
      BY <1>t, <2>0, <2>3, <3>2, QuietKept DEF Attach
    <3>3. CASE ~Refused
      <4>1. /\ current \in Session /\ req[r].pc = "attach" /\ UNCHANGED sub
            /\ ctrl' = [ctrl EXCEPT ![current] = Append(@, r)]
            /\ rx' = [rx EXCEPT ![r] = "open"]
            /\ serves' = [serves EXCEPT ![r] = current]
            /\ req' = [req EXCEPT ![r].pc = "insert"]
        BY <1>t, <2>3, <3>3 DEF Attach, Refused, TypeOK
      <4>2. \A i \in Session : r \notin Streams(i)
        BY <4>1 DEF ServedInv, Inv, StreamsAttached
      <4>a. PICK n \in Session : n = current
        BY <4>1
      <4>3. /\ Streams(n)' \subseteq Streams(n) \cup {r}
            /\ \A i \in Session : i # n => Streams(i)' = Streams(i)
        <5> HIDE DEF At, Goto, connVars, sessVars
        <5> QED BY <1>t, <4>1, <4>a, StreamsGrow
      <4>4. /\ serves'[r] = n /\ req'[r].pc = "insert"
            /\ \A q \in Request : q # r => /\ serves'[q] = serves[q]
                                           /\ rx'[q] = rx[q] /\ req'[q] = req[q]
        BY <1>t, <4>1, <4>a DEF TypeOK
      <4>5. ASSUME NEW i \in Session, NEW q \in Request, q \in Streams(i)'
            PROVE  serves'[q] = i
        <5>1. CASE q = r
          BY <4>2, <4>3, <4>4, <4>5, <5>1
        <5>2. CASE q # r
          <6>1. q \in Streams(i)
            BY <4>3, <4>5, <5>2
          <6> QED BY <1>t, <4>4, <5>2, <6>1 DEF StreamsServed
        <5> QED BY <5>1, <5>2
      <4>6. ASSUME NEW q \in Request, req'[q].pc \notin {"insert", "done"}
            PROVE  rx'[q] = "unused"
        BY <1>t, <4>4, <4>6 DEF StreamsServed
      <4> QED BY <4>5, <4>6 DEF StreamsServed
    <3> QED BY <3>2, <3>3
  <2> QED BY <1>4, <2>1, <2>2, <2>3 DEF Handler
<1>5. ASSUME NEW r \in Request, PushFails(r) \/ StreamEnds(r) PROVE StreamsServed'
  <2>1. /\ UNCHANGED <<req, serves, ctrl, sub>> /\ rx[r] = "open"
        /\ rx' = [rx EXCEPT ![r] = "closed"]
    BY <1>5 DEF PushFails, StreamEnds
  <2>2. \A i \in Session : Streams(i)' = Streams(i)
    BY <2>1 DEF Streams
  <2>3. \A q \in Request : rx'[q] = rx[q] \/ rx[q] = "open"
    BY <1>t, <2>1 DEF TypeOK
  <2> QED BY <1>t, <2>1, <2>2, <2>3, ServedKept
<1>6. ASSUME NEW i \in Session, Take(i) PROVE StreamsServed'
  <2>1. UNCHANGED <<req, serves, rx>>
    BY <1>6 DEF Take
  <2> QED BY <1>t, <1>6, <2>1, StreamsShrink, ServedKept
<1>7. ASSUME NEW i \in Session, SendFails(i) \/ Exit(i) \/ TaskEnds(i)
      PROVE  StreamsServed'
  <2>1. /\ UNCHANGED <<req, serves, rx>> /\ sub' = [sub EXCEPT ![i] = NoRequest]
        /\ ctrl' = ctrl \/ ctrl' = [ctrl EXCEPT ![i] = <<>>]
    BY <1>7 DEF SendFails, Exit, TaskEnds
  <2>2. \A j \in Session : sub'[j] \in {sub[j], NoRequest} /\ ctrl'[j] \in {ctrl[j], <<>>}
    BY <1>t, <2>1 DEF TypeOK
  <2>3. ASSUME NEW k \in 1..Len(<<>>) PROVE FALSE
    OBVIOUS
  <2>4. \A j \in Session : Streams(j)' \subseteq Streams(j) \cup {NoRequest}
    BY <2>2, <2>3 DEF Streams
  <2> QED BY <1>t, <2>1, <2>4, ServedKept
<1>8. ASSUME NEW i \in Session, Expire(i) \/ Sweep(i) PROVE StreamsServed'
  <2>1. UNCHANGED <<req, serves, rx, ctrl, sub>>
    BY <1>8 DEF Expire, Sweep, SweepExited, SweepAbandoned
  <2> QED BY <1>t, <2>1, QuietKept
<1>9. CASE UNCHANGED vars
  <2>1. UNCHANGED <<req, serves, rx, ctrl, sub>>
    BY <1>9 DEF vars
  <2> QED BY <1>t, <2>1, QuietKept
<1> QED BY <1>1, <1>2, <1>3, <1>4, <1>5, <1>6, <1>7, <1>8, <1>9 DEF Next

LEMMA ServedFirst == Init => ServedInv
<1>1. Init => StreamsServed
  <2>1. ASSUME NEW k \in 1..Len(<<>>) PROVE FALSE
    OBVIOUS
  <2> QED BY <2>1, ConnectionsAssumption DEF Init, StreamsServed, Streams
<1> QED BY <1>1, InvFirst DEF ServedInv

LEMMA ServedInvariant == Spec => []ServedInv
<1>2. ServedInv /\ [Next]_vars => ServedInv'
  BY InvStep, ServedStep DEF ServedInv
<1> QED BY <1>2, ServedFirst, PTL DEF Spec

\* The contract's view of the streams, and a session that a step leaves alone.
RxOf(i) == [r \in Request |-> IF serves[r] = i THEN rx[r] ELSE "unused"]
Same(i) == UNCHANGED <<st[i], ctrl[i], sub[i], detachedAt[i], exited[i]>>
Contract(i) == Of(i)!Next \/ UNCHANGED Of(i)!vars

LEMMA SameKeeps ==
  ASSUME NEW i \in Session, Same(i), UNCHANGED RxOf(i)
  PROVE  Contract(i)
BY DEF Contract, Same, RxOf, Of!vars

\* Kill, sweep and a spawn over it end a session for the contract.
LEMMA OverEnds ==
  ASSUME NEW i \in Session, st[i] = "live", st'[i] = "over",
         UNCHANGED <<ctrl[i], sub[i], detachedAt[i], exited[i], RxOf(i)>>
  PROVE  Contract(i)
<1>1. Of(i)!End
  BY DEF Of!End, RxOf
<1> QED BY <1>1 DEF Contract, Of!Next

LEMMA DetachKeeps ==
  ASSUME TypeOK, Unsubscribe, UNCHANGED <<serves, rx, current, st, sub, detachedAt, exited>>,
         NEW i \in Session
  PROVE  Contract(i)
<1>1. UNCHANGED RxOf(i)
  BY DEF RxOf
<1>2. CASE current # i
  <2>1. ctrl'[i] = ctrl[i]
    BY <1>2 DEF Unsubscribe, TypeOK
  <2> QED BY <1>1, <2>1, SameKeeps DEF Same
<1>3. CASE current = i
  <2>1. st[i] = "live" /\ ctrl'[i] = Append(ctrl[i], NoRequest)
    <3>1. current # NoSession
      BY <1>3 DEF Session, NoSession
    <3> QED BY <1>3, <3>1 DEF Unsubscribe, TypeOK
  <2>2. Of(i)!Detach
    BY <1>1, <2>1 DEF Of!Detach, RxOf
  <2> QED BY <2>2 DEF Contract, Of!Next
<1> QED BY <1>2, <1>3

\* The handlers: a spawn is a Spawn of the new session and the End of the old
\* one, an attach a Subscribe, a detach a Detach, a kill an End.
LEMMA HandlerKeepsContract ==
  ASSUME ServedInv, NEW r \in Request, Handler(r), NEW i \in Session
  PROVE  Contract(i)
<1> USE DEF At, connVars, sessVars
<1>t. TypeOK /\ StreamsServed /\ UnbornIsQuiet
  BY DEF ServedInv, Inv
<1>1. CASE Spawn(r)
  <2>1. UNCHANGED <<ctrl[i], sub[i], detachedAt[i], exited[i], RxOf(i)>>
    BY <1>1 DEF Spawn, RxOf
  <2>2. CASE UNCHANGED st
    BY <2>1, <2>2, SameKeeps DEF Same
  <2>3. ASSUME NEW j \in Session, st[j] = "unborn",
               st' = [k \in Session |-> CASE k = j       -> "live"
                                          [] k = current -> "over"
                                          [] OTHER       -> st[k]]
        PROVE  Contract(i)
    <3>1. CASE i = j
      <4>1. st[i] = "unborn" /\ st'[i] = "live"
        <5>1. j # current
          BY <1>t, <2>3 DEF TypeOK
        <5> QED BY <2>3, <3>1, <5>1
      <4>2. Of(i)!Spawn
        BY <2>1, <4>1 DEF Of!Spawn, RxOf
      <4> QED BY <4>2 DEF Contract, Of!Next
    <3>2. CASE i # j /\ i = current
      <4>1. st[i] = "live" /\ st'[i] = "over"
        BY <1>t, <2>3, <3>2 DEF TypeOK
      <4> QED BY <2>1, <4>1, OverEnds
    <3>3. CASE i # j /\ i # current
      <4>1. st'[i] = st[i]
        BY <2>3, <3>3
      <4> QED BY <2>1, <4>1, SameKeeps DEF Same
    <3> QED BY <3>1, <3>2, <3>3
  <2> QED BY <1>1, <2>2, <2>3 DEF Spawn
<1>2. CASE Attach(r)
  <2>1. CASE Refused
    <3>1. Same(i) /\ UNCHANGED RxOf(i)
      BY <1>2, <2>1 DEF Attach, Same, RxOf
    <3> QED BY <3>1, SameKeeps
  <2>2. CASE ~Refused
    <3>1. /\ UNCHANGED <<st, sub, detachedAt, exited>>
          /\ current \in Session /\ ~exited[current] /\ st[current] = "live"
          /\ rx[r] = "unused"
          /\ ctrl' = [ctrl EXCEPT ![current] = Append(@, r)]
          /\ rx' = [rx EXCEPT ![r] = "open"]
          /\ serves' = [serves EXCEPT ![r] = current]
      BY <1>t, <1>2, <2>2 DEF Attach, Refused, StreamsServed, TypeOK
    <3>2. /\ serves'[r] = current /\ rx'[r] = "open"
          /\ \A q \in Request : q # r => serves'[q] = serves[q] /\ rx'[q] = rx[q]
      BY <1>t, <3>1 DEF TypeOK
    <3>3. CASE i # current
      <4>1. ctrl'[i] = ctrl[i]
        BY <1>t, <3>1, <3>3 DEF TypeOK
      <4>2. UNCHANGED RxOf(i)
        BY <3>1, <3>2, <3>3 DEF RxOf
      <4> QED BY <3>1, <4>1, <4>2, SameKeeps DEF Same
    <3>4. CASE i = current
      <4>1. ctrl'[i] = Append(ctrl[i], r)
        BY <1>t, <3>1, <3>4 DEF TypeOK
      <4>2. RxOf(i)' = [RxOf(i) EXCEPT ![r] = "open"]
        BY <3>2, <3>4 DEF RxOf
      <4>3. RxOf(i)[r] = "unused"
        BY <3>1 DEF RxOf
      <4>4. Of(i)!Subscribe(r)
        BY <3>1, <3>4, <4>1, <4>2, <4>3 DEF Of!Subscribe, RxOf
      <4> QED BY <4>4 DEF Contract, Of!Next
    <3> QED BY <3>3, <3>4
  <2> QED BY <2>1, <2>2
<1>3. CASE Insert(r) \/ Remove(r)
  <2>1. Same(i) /\ UNCHANGED RxOf(i)
    BY <1>3 DEF Insert, Remove, Same, RxOf
  <2> QED BY <2>1, SameKeeps
<1>4. CASE Detach(r)
  BY <1>t, <1>4, DetachKeeps DEF Detach
<1>5. CASE Kill(r)
  <2>1. UNCHANGED <<ctrl[i], sub[i], detachedAt[i], exited[i], RxOf(i)>>
    BY <1>5 DEF Kill, RxOf
  <2>2. CASE UNCHANGED st
    BY <2>1, <2>2, SameKeeps DEF Same
  <2>3. ASSUME NEW j \in Session, LeavesMap(j) PROVE Contract(i)
    <3>1. st[j] = "live" /\ st'[j] = "over" /\ (i # j => st'[i] = st[i])
      BY <1>t, <2>3 DEF LeavesMap, TypeOK
    <3> QED BY <2>1, <3>1, OverEnds, SameKeeps DEF Same
  <2> QED BY <1>5, <2>2, <2>3 DEF Kill
<1> QED BY <1>1, <1>2, <1>3, <1>4, <1>5 DEF Handler

\* The steps of session j, as the contract of session i sees them.
LEMMA SessionKeepsContract ==
  ASSUME ServedInv, NEW j \in Session,
         Take(j) \/ SendFails(j) \/ Exit(j) \/ TaskEnds(j) \/ Expire(j) \/ Sweep(j),
         NEW i \in Session
  PROVE  Contract(i)
<1> USE DEF connVars, sessVars
<1>t. TypeOK /\ StreamsServed /\ UnbornIsQuiet
  BY DEF ServedInv, Inv
<1>r. UNCHANGED RxOf(i)
  BY DEF Take, SendFails, Exit, TaskEnds, Expire, Sweep, SweepExited, SweepAbandoned, RxOf
<1>d. CASE i # j
  <2>1. Same(i)
    <3>1. CASE Take(j)
      BY <1>t, <1>d, <3>1 DEF Take, Same, TypeOK
    <3>2. CASE SendFails(j) \/ Exit(j) \/ TaskEnds(j) \/ Expire(j)
      BY <1>t, <1>d, <3>2 DEF SendFails, Exit, TaskEnds, Expire, Same, TypeOK
    <3>3. CASE Sweep(j)
      BY <1>t, <1>d, <3>3 DEF Sweep, SweepExited, SweepAbandoned, LeavesMap, Same, TypeOK
    <3> QED BY <3>1, <3>2, <3>3
  <2> QED BY <1>r, <2>1, SameKeeps
<1>s. SUFFICES ASSUME i = j PROVE Contract(i)
  BY <1>d
<1>1. CASE Take(i)
  <2>1. /\ ctrl[i] # <<>> /\ ctrl' = [ctrl EXCEPT ![i] = Tail(@)]
        /\ UNCHANGED <<st, exited>>
        /\ \/ /\ sub' = [sub EXCEPT ![i] = Head(ctrl[i])]
              /\ detachedAt' = [detachedAt EXCEPT ![i] =
                                  IF Head(ctrl[i]) = NoRequest THEN "recent" ELSE "none"]
           \/ /\ Head(ctrl[i]) # NoRequest /\ rx[Head(ctrl[i])] = "closed"
              /\ UNCHANGED <<sub, detachedAt>>
    BY <1>1 DEF Take
  <2>2. ctrl'[i] = Tail(ctrl[i])
    BY <1>t, <2>1 DEF TypeOK
  <2>3. Of(i)!Take
    <3>1. CASE /\ sub' = [sub EXCEPT ![i] = Head(ctrl[i])]
               /\ detachedAt' = [detachedAt EXCEPT ![i] =
                                   IF Head(ctrl[i]) = NoRequest THEN "recent" ELSE "none"]
      <4>1. /\ sub'[i] = Head(ctrl[i])
            /\ detachedAt'[i] = IF Head(ctrl[i]) = NoRequest THEN "recent" ELSE "none"
        BY <1>t, <3>1 DEF TypeOK
      <4> QED BY <1>r, <2>1, <2>2, <4>1 DEF Of!Take, RxOf
    <3>2. CASE /\ Head(ctrl[i]) # NoRequest /\ rx[Head(ctrl[i])] = "closed"
               /\ UNCHANGED <<sub, detachedAt>>
      <4>1. Head(ctrl[i]) = ctrl[i][1] /\ 1 \in 1..Len(ctrl[i])
            /\ Head(ctrl[i]) \in Request \cup {NoRequest}
        <5>1. ctrl[i] \in Seq(Request \cup {NoRequest})
          BY <1>t DEF TypeOK
        <5>2. /\ Len(ctrl[i]) \in Nat \ {0} /\ Head(ctrl[i]) = ctrl[i][1]
              /\ Head(ctrl[i]) \in Request \cup {NoRequest}
          BY <2>1, <5>1, Taken
        <5> QED BY <5>2
      <4>2. serves[Head(ctrl[i])] = i
        BY <1>t, <3>2, <4>1 DEF StreamsServed, Streams
      <4>3. RxOf(i)[Head(ctrl[i])] = "closed"
        BY <3>2, <4>1, <4>2 DEF RxOf
      <4> QED BY <1>r, <2>1, <2>2, <3>2, <4>3 DEF Of!Take, RxOf
    <3> QED BY <2>1, <3>1, <3>2
  <2> QED BY <2>3 DEF Contract, Of!Next
<1>2. CASE SendFails(i)
  <2>1. sub[i] \in Request /\ rx[sub[i]] = "closed" /\ serves[sub[i]] = i
    BY <1>t, <1>2 DEF SendFails, StreamsServed, Streams, TypeOK
  <2>2. RxOf(i)[sub[i]] = "closed" /\ sub[i] # NoRequest
    BY <2>1, ConnectionsAssumption DEF RxOf
  <2>3. sub'[i] = NoRequest
    BY <1>t, <1>2 DEF SendFails, TypeOK
  <2>4. Of(i)!SendFails
    BY <1>r, <1>2, <2>2, <2>3 DEF SendFails, Of!SendFails, RxOf
  <2> QED BY <2>4 DEF Contract, Of!Next
<1>3. CASE Exit(i)
  <2>1. exited'[i] = TRUE /\ sub'[i] = NoRequest /\ detachedAt'[i] = "none"
    BY <1>t, <1>3 DEF Exit, TypeOK
  <2>2. Of(i)!Exit
    BY <1>r, <1>3, <2>1 DEF Exit, Of!Exit, RxOf
  <2> QED BY <2>2 DEF Contract, Of!Next
<1>4. CASE TaskEnds(i)
  <2>1. ctrl'[i] = <<>> /\ sub'[i] = NoRequest
    BY <1>t, <1>4 DEF TaskEnds, TypeOK
  <2>2. Of(i)!TaskEnds
    BY <1>r, <1>4, <2>1 DEF TaskEnds, Of!TaskEnds, Of!Dropped, RxOf
  <2> QED BY <2>2 DEF Contract, Of!Next
<1>5. CASE Expire(i)
  <2>1. detachedAt'[i] = "expired"
    BY <1>t, <1>5 DEF Expire, TypeOK
  <2>2. Of(i)!Expire
    BY <1>r, <1>5, <2>1 DEF Expire, Of!Expire, RxOf
  <2> QED BY <2>2 DEF Contract, Of!Next
<1>6. CASE Sweep(i)
  <2>1. UNCHANGED <<ctrl, sub, detachedAt, exited>> /\ LeavesMap(i)
    BY <1>6 DEF Sweep, SweepExited, SweepAbandoned
  <2>2. st[i] = "live" /\ st'[i] = "over"
    BY <1>t, <2>1 DEF LeavesMap, TypeOK
  <2> QED BY <1>r, <2>1, <2>2, OverEnds
<1> QED BY <1>s, <1>1, <1>2, <1>3, <1>4, <1>5, <1>6

\* What the connections do, and their stream tasks.
LEMMA OthersKeepContract ==
  ASSUME ServedInv, NEW i \in Session,
         \/ \E c \in Conn : \/ LinkDown(c) \/ Close(c)
                            \/ \E r \in Request, kind \in Kinds : Send(r, c, kind)
         \/ \E r \in Request : PushFails(r) \/ StreamEnds(r)
         \/ UNCHANGED vars
  PROVE  Contract(i)
<1> USE DEF connVars, sessVars
<1>t. TypeOK
  BY DEF ServedInv, Inv
<1>1. ASSUME NEW c \in Conn, LinkDown(c) PROVE Contract(i)
  BY <1>1, SameKeeps DEF LinkDown, Same, RxOf
<1>2. ASSUME NEW c \in Conn, Close(c) PROVE Contract(i)
  <2>1. UNCHANGED <<serves, rx, current, st, sub, detachedAt, exited>>
    BY <1>2 DEF Close
  <2>2. CASE UNCHANGED ctrl
    BY <2>1, <2>2, SameKeeps DEF Same, RxOf
  <2> QED BY <1>t, <1>2, <2>1, <2>2, DetachKeeps DEF Close
<1>3. ASSUME NEW c \in Conn, NEW r \in Request, NEW kind \in Kinds, Send(r, c, kind)
      PROVE  Contract(i)
  BY <1>3, SameKeeps DEF Send, Same, RxOf
<1>4. ASSUME NEW r \in Request, PushFails(r) \/ StreamEnds(r) PROVE Contract(i)
  <2>1. /\ UNCHANGED <<serves, st, ctrl, sub, detachedAt, exited>>
        /\ rx[r] = "open" /\ rx' = [rx EXCEPT ![r] = "closed"]
    BY <1>4 DEF PushFails, StreamEnds
  <2>2. CASE serves[r] = i
    <3>1. RxOf(i)[r] = "open" /\ RxOf(i)' = [RxOf(i) EXCEPT ![r] = "closed"]
      BY <1>t, <2>1, <2>2 DEF RxOf, TypeOK
    <3>2. Of(i)!Close(r)
      BY <2>1, <3>1 DEF Of!Close, RxOf
    <3> QED BY <3>2 DEF Contract, Of!Next
  <2>3. CASE serves[r] # i
    <3>1. UNCHANGED RxOf(i)
      BY <1>t, <2>1, <2>3 DEF RxOf, TypeOK
    <3> QED BY <2>1, <3>1, SameKeeps DEF Same
  <2> QED BY <2>2, <2>3
<1>5. CASE UNCHANGED vars
  BY <1>5, SameKeeps DEF vars, Same, RxOf
<1> QED BY <1>1, <1>2, <1>3, <1>4, <1>5

LEMMA ContractStep ==
  ASSUME ServedInv, [Next]_vars, NEW i \in Session
  PROVE  Contract(i)
BY HandlerKeepsContract, SessionKeepsContract, OthersKeepContract DEF Next

\* Whatever the connections do, and in whichever order, each session is used as
\* the contract allows that the session's own model implements (KeepsContract).
THEOREM ConnectionsKeepContract == Spec => KeepsContract
<1>1. Init => \A i \in Session : Of(i)!Init
  <2>1. ASSUME Init, NEW i \in Session PROVE Of(i)!Init
    <3>1. /\ st[i] \in {"unborn", "live"} /\ detachedAt[i] \in {"none", "recent"}
          /\ st[i] = "unborn" => detachedAt[i] = "none"
      BY <2>1 DEF Init
    <3>2. /\ ctrl[i] = <<>> /\ sub[i] = NoRequest /\ exited[i] = FALSE
          /\ RxOf(i) = [r \in Request |-> "unused"]
      BY <2>1 DEF Init, RxOf
    <3> QED BY <3>1, <3>2 DEF Of!Init, RxOf
  <2> QED BY <2>1
<1>2. ServedInv /\ [Next]_vars => [\A i \in Session : [Of(i)!Next]_(Of(i)!vars)]_vars
  BY ContractStep DEF Contract
<1> QED BY <1>1, <1>2, ServedInvariant, PTL DEF Spec, KeepsContract

-----------------------------------------------------------------------------
(* Connections that take turns. *)

Gone(c) == conn[c] = "closed"
Has(c) == current # NoSession /\ Holder # NoRequest /\ req[Holder].conn = c

\* Between the two halves of a spawn its connection may still be listed for the
\* session that the new one has replaced.
Respawning(c) ==
  /\ current # NoSession
  /\ \E r \in Request : At(r, "attach") /\ req[r].kind = "spawn" /\ req[r].conn = c

LinksHold ==
  /\ \A c \in Conn : link[c] = "down" => Gone(c)
  /\ \A i \in Session : ~exited[i] /\ detachedAt[i] # "expired"
OneUnderway == \A p, q \in Request : Underway(p) /\ Underway(q) => p = q
FreeForSender == \A r \in Request : Underway(r) => Free(req[r].conn)

\* An open connection that is listed has the session.
ListedHas == \A c \in Conn : subscribed[c] /\ ~Gone(c) => Has(c) \/ Respawning(c)
InserterHas ==
  \A r \in Request : At(r, "insert") => Has(req[r].conn) \/ Gone(req[r].conn)
SpawnerSpawns == \A r \in Request : At(r, "spawn") => req[r].kind = "spawn"
LeaverUnlisted ==
  \A r \in Request : req[r].pc \in {"detach", "kill"} => ~subscribed[req[r].conn]

\* Where one stream follows another, with no detach between them, the same
\* connection attached both or the first one's connection had gone.
Follows(p, r) ==
  p # NoRequest /\ r # NoRequest => req[p].conn = req[r].conn \/ Gone(req[p].conn)
InLine ==
  current # NoSession /\ ctrl[current] # <<>> =>
    /\ Follows(sub[current], ctrl[current][1])
    /\ \A k \in 1..Len(ctrl[current])-1 : Follows(ctrl[current][k], ctrl[current][k+1])
ClosedIsGone ==
  current # NoSession =>
    \A r \in Request : r \in Streams(current) /\ rx[r] = "closed" => Gone(req[r].conn)

TurnsInv == /\ LinksHold /\ OneUnderway /\ FreeForSender /\ ListedHas
            /\ InserterHas /\ SpawnerSpawns /\ LeaverUnlisted /\ InLine /\ ClosedIsGone

\* Whoever holds the session has been attached to it.
LEMMA HolderAttached ==
  ASSUME Inv, current # NoSession
  PROVE  /\ Holder \in Streams(current) /\ Holder \in Request \cup {NoRequest}
         /\ Holder # NoRequest => req[Holder].pc \in {"insert", "done"}
<1>1. current \in Session /\ ctrl[current] \in Seq(Request \cup {NoRequest})
      /\ sub[current] \in Request \cup {NoRequest}
  BY DEF Inv, TypeOK
<1>2. CASE ctrl[current] = <<>>
  BY <1>1, <1>2 DEF Holder, Streams, Inv, StreamsAttached
<1>3. CASE ctrl[current] # <<>>
  <2> DEFINE q == ctrl[current]
  <2>1. Len(q) \in 1..Len(q) /\ q[Len(q)] \in Request \cup {NoRequest}
    BY <1>1, <1>3
  <2>2. Holder = q[Len(q)]
    BY <1>3 DEF Holder
  <2>3. Holder \in Streams(current)
    BY <2>1, <2>2 DEF Streams
  <2> QED BY <1>1, <2>1, <2>2, <2>3 DEF Inv, StreamsAttached
<1> QED BY <1>2, <1>3

\* Steps that leave the session in the map and its queue alone.
LEMMA HolderStays ==
  ASSUME Inv, TurnsInv, UNCHANGED current,
         \A n \in Session : n = current => UNCHANGED <<ctrl[n], sub[n]>>,
         \A q \in Request : req[q].pc \in {"insert", "done"} => req'[q].conn = req[q].conn,
         \A c \in Conn : Gone(c) => Gone(c)',
         \A q \in Request : rx'[q] = "closed" =>
           \/ rx[q] = "closed" \/ Gone(req[q].conn)
           \/ current # NoSession => q \notin Streams(current)
  PROVE  /\ current # NoSession => Holder' = Holder
         /\ InLine' /\ ClosedIsGone'
         /\ \A c \in Conn : Has(c) <=> Has(c)'
         /\ \A c \in Conn : Free(c) => Free(c)'
<1>0. current # NoSession =>
        /\ current \in Session /\ current' = current
        /\ ctrl'[current] = ctrl[current] /\ sub'[current] = sub[current]
  BY DEF Inv, TypeOK
<1>1. current # NoSession => Holder' = Holder
  BY <1>0 DEF Holder
<1>2. ASSUME NEW q \in Request, current # NoSession, q \in Streams(current)
      PROVE  /\ req'[q].conn = req[q].conn /\ req[q].conn \in Conn
             /\ Gone(req[q].conn) => Gone(req[q].conn)'
  <2>1. current \in Session
    BY <1>2 DEF Inv, TypeOK
  <2>2. req'[q].conn = req[q].conn /\ req[q].conn \in Conn
    BY <1>2, <2>1 DEF Inv, StreamsAttached, TypeOK
  <2> QED BY <2>2 DEF Gone
<1>3. current # NoSession /\ Holder # NoRequest =>
        /\ Holder \in Request /\ req'[Holder].conn = req[Holder].conn
        /\ req[Holder].conn \in Conn
        /\ Gone(req[Holder].conn) => conn'[req'[Holder].conn] = "closed"
  <2> SUFFICES ASSUME current # NoSession, Holder # NoRequest
               PROVE  /\ Holder \in Request /\ req'[Holder].conn = req[Holder].conn
                      /\ req[Holder].conn \in Conn
                      /\ Gone(req[Holder].conn) => conn'[req'[Holder].conn] = "closed"
    OBVIOUS
  <2>1. Holder \in Request /\ Holder \in Streams(current)
    BY HolderAttached
  <2> QED BY <1>2, <2>1 DEF Gone
<1>4. \A c \in Conn : Has(c) <=> Has(c)'
  BY <1>1, <1>3 DEF Has
<1>5. \A c \in Conn : Free(c) => Free(c)'
  BY <1>1, <1>3 DEF Free, Gone
<1>6. ClosedIsGone'
  <2>1. current # NoSession => Streams(current)' = Streams(current)
    BY <1>0 DEF Streams
  <2> QED BY <1>2, <2>1 DEF ClosedIsGone, TurnsInv
<1>7. InLine'
  <2> SUFFICES ASSUME current # NoSession, ctrl[current] # <<>>
               PROVE  /\ Follows(sub[current], ctrl[current][1])'
                      /\ \A k \in 1..Len(ctrl[current])-1 :
                           Follows(ctrl[current][k], ctrl[current][k+1])'
    BY <1>0 DEF InLine, Follows
  <2> DEFINE q == ctrl[current]
             s == sub[current]
  <2>1. q \in Seq(Request \cup {NoRequest}) /\ s \in Request \cup {NoRequest}
    BY DEF Inv, TypeOK
  <2>2. Len(q) \in Nat \ {0}
    BY <2>1
  <2>3. \A k \in 1..Len(q) : q[k] \in Streams(current) /\ q[k] \in Request \cup {NoRequest}
    BY <2>1 DEF Streams
  <2>4. s \in Streams(current)
    BY DEF Streams
  <2>5. Follows(s, q[1]) /\ \A k \in 1..Len(q)-1 : Follows(q[k], q[k+1])
    BY DEF TurnsInv, InLine
  <2>6. ASSUME NEW a \in Request \cup {NoRequest}, NEW b \in Request \cup {NoRequest},
               a \in Streams(current), b \in Streams(current), Follows(a, b)
        PROVE  Follows(a, b)'
    BY <1>2, <2>6 DEF Follows
  <2>7. UNCHANGED <<q, s>>
    BY <1>0
  <2> HIDE DEF q, s
  <2>8. Follows(s, q[1])'
    <3>1. 1 \in 1..Len(q)
      BY <2>2
    <3>2. Follows(s, q[1])
      BY <2>5
    <3> QED BY <2>1, <2>3, <2>4, <2>6, <2>7, <3>1, <3>2 DEF Follows
  <2>9. ASSUME NEW k \in 1..Len(q)-1 PROVE Follows(q[k], q[k+1])'
    <3>1. k \in 1..Len(q) /\ k + 1 \in 1..Len(q)
      BY <2>2
    <3> QED BY <2>3, <2>5, <2>6, <2>7, <3>1 DEF Follows
  <2> QED BY <2>7, <2>8, <2>9 DEF q, s
<1> QED BY <1>1, <1>4, <1>5, <1>6, <1>7

\* A call that is put in the queue of the session in the map.
LEMMA HolderPut ==
  ASSUME Inv, TurnsInv, NEW n \in Session, n = current, UNCHANGED <<current, sub>>,
         NEW e \in Request \cup {NoRequest},
         ctrl' = [ctrl EXCEPT ![n] = Append(@, e)],
         \A q \in Request : req'[q].conn = req[q].conn,
         \A c \in Conn : Gone(c) => Gone(c)',
         \A q \in Request : rx'[q] = "closed" => rx[q] = "closed" /\ q # e,
         Follows(Holder, e)
  PROVE  Holder' = e /\ InLine' /\ ClosedIsGone'
<1> DEFINE q == ctrl[n]
           s == sub[n]
<1>1. q \in Seq(Request \cup {NoRequest}) /\ s \in Request \cup {NoRequest}
  BY DEF Inv, TypeOK
<1>2. ctrl'[n] = Append(q, e) /\ sub'[n] = s
  BY DEF Inv, TypeOK
<1>3. /\ Len(ctrl'[n]) = Len(q) + 1 /\ Len(q) \in Nat
      /\ \A k \in 1..Len(q) : ctrl'[n][k] = q[k]
      /\ ctrl'[n][Len(q) + 1] = e
  BY <1>1, <1>2, Appended
<1>4. Append(q, e) # <<>>
  BY <1>1
<1>5. Holder' = e
  BY <1>2, <1>3, <1>4 DEF Holder
<1>6. n # NoSession
  BY DEF Session, NoSession
<1>7. ClosedIsGone'
  <2>1. Streams(n)' \subseteq Streams(n) \cup {e}
    BY StreamsGrow DEF Inv
  <2>2. ASSUME NEW p \in Request, p \in Streams(n)', rx'[p] = "closed"
        PROVE  Gone(req[p].conn)'
    <3>1. p \in Streams(n) /\ rx[p] = "closed"
      BY <2>1, <2>2
    <3>2. Gone(req[p].conn) /\ req[p].conn \in Conn
      BY <1>6, <3>1 DEF TurnsInv, ClosedIsGone, Inv, TypeOK
    <3> QED BY <3>2 DEF Gone
  <2> QED BY <2>2 DEF ClosedIsGone
<1> DEFINE After(a, b) == a # NoRequest /\ b # NoRequest =>
                             \/ req'[a].conn = req'[b].conn
                             \/ conn'[req'[a].conn] = "closed"
<1>8. ASSUME NEW a \in Request \cup {NoRequest}, NEW b \in Request \cup {NoRequest},
             Follows(a, b)
      PROVE  After(a, b)
  BY <1>8 DEF Follows, Gone, Inv, TypeOK
<1> HIDE DEF After
<1>9. After(sub'[n], ctrl'[n][1])
      /\ \A k \in 1..Len(ctrl'[n])-1 : After(ctrl'[n][k], ctrl'[n][k+1])
  <2>1. \A k \in 1..Len(q) : q[k] \in Request \cup {NoRequest}
    BY <1>1
  <2>2. CASE q = <<>>
    <3>1. Len(q) = 0 /\ Holder = s
      BY <2>2 DEF Holder
    <3>2. After(s, e)
      BY <1>1, <1>8, <3>1
    <3> QED BY <1>2, <1>3, <3>1, <3>2
  <2>3. CASE q # <<>>
    <3>1. Len(q) \in Nat \ {0}
      BY <1>1, <2>3
    <3>2. Holder = q[Len(q)]
      BY <2>3 DEF Holder
    <3>3. Follows(s, q[1]) /\ \A k \in 1..Len(q)-1 : Follows(q[k], q[k+1])
      BY <1>6, <2>3 DEF TurnsInv, InLine
    <3> HIDE DEF q, s
    <3>4. After(s, q[1])
      <4>1. q[1] \in Request \cup {NoRequest}
        BY <2>1, <3>1
      <4> QED BY <1>1, <1>8, <3>3, <4>1
    <3>5. ASSUME NEW k \in 1..Len(q)-1 PROVE After(q[k], q[k+1])
      <4>1. k \in 1..Len(q) /\ k + 1 \in 1..Len(q)
        BY <3>1
      <4>2. q[k] \in Request \cup {NoRequest} /\ q[k+1] \in Request \cup {NoRequest}
        BY <2>1, <4>1
      <4> QED BY <1>8, <3>3, <4>2
    <3>6. After(q[Len(q)], e)
      BY <1>8, <2>1, <3>1, <3>2
    <3>7. ctrl'[n][1] = q[1]
      BY <1>3, <3>1
    <3>8. ASSUME NEW k \in 1..Len(q) PROVE After(ctrl'[n][k], ctrl'[n][k+1])
      <4>1. CASE k \in 1..Len(q)-1
        <5>1. k + 1 \in 1..Len(q)
          BY <3>1, <4>1
        <5> QED BY <1>3, <3>5, <4>1, <5>1
      <4>2. CASE k = Len(q)
        BY <1>3, <3>1, <3>6, <4>2
      <4>3. k \in 1..Len(q)-1 \/ k = Len(q)
        BY <3>1
      <4> QED BY <4>1, <4>2, <4>3
    <3>9. Len(ctrl'[n]) - 1 = Len(q)
      BY <1>3
    <3> QED BY <1>2, <3>4, <3>7, <3>8, <3>9
  <2> QED BY <2>2, <2>3
<1>10. InLine'
  BY <1>9 DEF InLine, Follows, Gone, After
<1> QED BY <1>5, <1>7, <1>10

\* A step after which nobody is under way but r.
LEMMA SoleRequest ==
  ASSUME TypeOK, OneUnderway, NEW r \in Request, Handler(r)
  PROVE  /\ Underway(r) /\ OneUnderway' /\ req[r].conn \in Conn
         /\ \A q \in Request : q # r => req'[q] = req[q] /\ ~Underway(q) /\ ~Underway(q)'
         /\ \A q \in Request : req'[q].conn = req[q].conn
<1>1. /\ \A q \in Request \ {r} : req'[q] = req[q]
      /\ req'[r].conn = req[r].conn /\ req[r].pc \notin {"unsent", "done"}
  BY HandlerMoves
<1>2. Underway(r)
  BY <1>1 DEF Underway
<1>3. \A q \in Request : q # r => ~Underway(q) /\ ~Underway(q)'
  BY <1>1, <1>2 DEF OneUnderway, Underway
<1>4. OneUnderway'
  BY <1>3 DEF OneUnderway
<1> QED BY <1>1, <1>2, <1>3, <1>4 DEF TypeOK

\* Who is listed and open is the connection of the only request under way.
LEMMA ListedIsSender ==
  ASSUME TypeOK, TurnsInv, NEW r \in Request, Underway(r),
         NEW c \in Conn, subscribed[c], ~Gone(c)
  PROVE  c = req[r].conn /\ current # NoSession
<1>1. CASE Has(c)
  BY <1>1 DEF TurnsInv, FreeForSender, Free, Has, Gone
<1>2. CASE Respawning(c)
  BY <1>2 DEF TurnsInv, OneUnderway, Underway, Respawning, At
<1> QED BY <1>1, <1>2 DEF TurnsInv, ListedHas

\* The handlers that only tell the connection.
LEMMA ListingTurns ==
  ASSUME Inv, KindFits, TurnsInv, LinksHold', NEW r \in Request, Insert(r) \/ Remove(r)
  PROVE  TurnsInv'
<1> USE DEF connVars, sessVars
<1>t. TypeOK /\ OneUnderway
  BY DEF Inv, TurnsInv
<1>h. Handler(r)
  BY DEF Handler
<1>1. /\ Underway(r) /\ OneUnderway' /\ req[r].conn \in Conn
      /\ \A q \in Request : q # r => req'[q] = req[q] /\ ~Underway(q) /\ ~Underway(q)'
      /\ \A q \in Request : req'[q].conn = req[q].conn
  BY <1>t, <1>h, SoleRequest
<1>2. UNCHANGED <<conn, serves, rx, current, ctrl, sub>>
  BY DEF Insert, Remove
<1>3. /\ InLine' /\ ClosedIsGone'
      /\ \A c \in Conn : Has(c) <=> Has(c)'
      /\ \A c \in Conn : Free(c) => Free(c)'
  BY <1>1, <1>2, HolderStays DEF Gone
<1>4. FreeForSender'
  BY <1>1, <1>3 DEF TurnsInv, FreeForSender
<1>5. CASE Insert(r)
  <2>1. /\ req[r].pc = "insert" /\ ~Underway(r)'
        /\ subscribed' = [subscribed EXCEPT ![req[r].conn] = TRUE]
    BY <1>t, <1>5 DEF Insert, At, Goto, Underway, TypeOK
  <2>2. \A q \in Request : ~Underway(q)'
    BY <1>1, <2>1
  <2>3. ListedHas'
    <3>1. ASSUME NEW c \in Conn, subscribed'[c], ~Gone(c) PROVE Has(c)
      <4>1. CASE c = req[r].conn
        BY <2>1, <3>1, <4>1 DEF TurnsInv, InserterHas, At
      <4>2. CASE c # req[r].conn
        <5>1. subscribed[c]
          BY <1>t, <2>1, <3>1, <4>2 DEF TypeOK
        <5> QED BY <1>t, <1>1, <3>1, <4>2, <5>1, ListedIsSender
      <4> QED BY <4>1, <4>2
    <3> QED BY <1>2, <1>3, <3>1 DEF ListedHas, Gone
  <2> QED BY <1>1, <1>3, <1>4, <2>2, <2>3
          DEF TurnsInv, InserterHas, SpawnerSpawns, LeaverUnlisted, Underway, At
<1>6. CASE Remove(r)
  <2>1. /\ req'[r].pc \in {"detach", "kill"}
        /\ subscribed' = [subscribed EXCEPT ![req[r].conn] = FALSE]
    BY <1>t, <1>6 DEF Remove, At, Goto, KindFits, TypeOK
  <2>2. \A c \in Conn : subscribed'[c] => subscribed[c] /\ c # req[r].conn
    BY <1>t, <2>1 DEF TypeOK
  <2>3. ListedHas'
    BY <1>t, <1>1, <1>2, <2>2, ListedIsSender DEF ListedHas, Gone
  <2>4. InserterHas' /\ SpawnerSpawns' /\ LeaverUnlisted'
    BY <1>1, <2>1, <2>2 DEF InserterHas, SpawnerSpawns, LeaverUnlisted, Underway, At
  <2> QED BY <1>1, <1>3, <1>4, <2>3, <2>4 DEF TurnsInv
<1> QED BY <1>5, <1>6

\* A detach or a kill takes the session from nobody but its own connection.
LEMMA LeavingTurns ==
  ASSUME Inv, KindFits, TurnsInv, LinksHold', NEW r \in Request, Detach(r) \/ Kill(r)
  PROVE  TurnsInv'
<1> USE DEF connVars, sessVars
<1>t. TypeOK /\ OneUnderway
  BY DEF Inv, TurnsInv
<1>h. Handler(r)
  BY DEF Handler
<1>1. /\ Underway(r) /\ OneUnderway' /\ req[r].conn \in Conn
      /\ \A q \in Request : q # r => req'[q] = req[q] /\ ~Underway(q) /\ ~Underway(q)'
      /\ \A q \in Request : req'[q].conn = req[q].conn
  BY <1>t, <1>h, SoleRequest
<1>2. /\ UNCHANGED <<connVars, serves, rx, sub>>
      /\ req[r].pc \in {"detach", "kill"} /\ ~Underway(r)'
  BY <1>t DEF Detach, Kill, At, Goto, Underway, TypeOK
<1>3. \A q \in Request : ~Underway(q)'
  BY <1>1, <1>2
<1>4. \A c \in Conn : ~(subscribed[c] /\ ~Gone(c))
  BY <1>t, <1>1, <1>2, ListedIsSender DEF TurnsInv, LeaverUnlisted
<1>5. FreeForSender' /\ ListedHas' /\ InserterHas' /\ SpawnerSpawns' /\ LeaverUnlisted'
  BY <1>2, <1>3, <1>4
     DEF FreeForSender, ListedHas, InserterHas, SpawnerSpawns, LeaverUnlisted, Underway, At,
         Gone
<1>6. CASE UNCHANGED <<current, ctrl>>
  <2>1. InLine' /\ ClosedIsGone'
    BY <1>1, <1>2, <1>6, HolderStays DEF Gone
  <2> QED BY <1>1, <1>5, <2>1 DEF TurnsInv
<1>7. CASE current' = NoSession
  BY <1>1, <1>5, <1>7 DEF TurnsInv, InLine, ClosedIsGone
<1>8. CASE current # NoSession /\ Detach(r)
  <2>1. PICK n \in Session : n = current
    BY <1>t, <1>8 DEF TypeOK
  <2>2. ctrl' = [ctrl EXCEPT ![n] = Append(@, NoRequest)] /\ UNCHANGED current
    BY <1>8, <2>1 DEF Detach, Unsubscribe
  <2>3. InLine' /\ ClosedIsGone'
    <3>1. Follows(Holder, NoRequest)
      BY DEF Follows
    <3>2. \A q \in Request : rx'[q] = "closed" => rx[q] = "closed" /\ q # NoRequest
      BY <1>2, ConnectionsAssumption
    <3>3. \A c \in Conn : Gone(c) => Gone(c)'
      BY <1>2 DEF Gone
    <3> QED BY <1>1, <1>2, <2>1, <2>2, <3>1, <3>2, <3>3, HolderPut
  <2> QED BY <1>1, <1>5, <2>3 DEF TurnsInv
<1> QED BY <1>6, <1>7, <1>8 DEF Detach, Kill, Unsubscribe, LeavesMap

\* A spawn leaves its connection listed for the session it replaces until its
\* second half has attached it to the new one.
LEMMA SpawnTurns ==
  ASSUME Inv, TurnsInv, LinksHold', NEW r \in Request, Spawn(r)
  PROVE  TurnsInv'
<1> USE DEF connVars, sessVars
<1>t. TypeOK /\ OneUnderway
  BY DEF Inv, TurnsInv
<1>1. /\ Underway(r) /\ OneUnderway' /\ req[r].conn \in Conn
      /\ \A q \in Request : q # r => req'[q] = req[q] /\ ~Underway(q) /\ ~Underway(q)'
      /\ \A q \in Request : req'[q].conn = req[q].conn
  BY <1>t, SoleRequest DEF Handler
<1>2. /\ UNCHANGED <<connVars, rx, ctrl, sub>> /\ req[r].pc = "spawn"
  BY DEF Spawn, At
<1>3. ASSUME NEW c \in Conn, subscribed[c], ~Gone(c) PROVE c = req[r].conn /\ Has(c)
  <2>1. ~Respawning(c)
    BY <1>1, <1>2 DEF Respawning, Underway, At
  <2> QED BY <1>t, <1>1, <1>3, <2>1, ListedIsSender DEF TurnsInv, ListedHas
<1>4. CASE Goto(r, "done") /\ UNCHANGED current
  <2>1. \A q \in Request : ~Underway(q)'
    BY <1>t, <1>1, <1>4 DEF Goto, Underway, TypeOK
  <2>2. /\ InLine' /\ ClosedIsGone' /\ \A c \in Conn : Has(c) <=> Has(c)'
    BY <1>1, <1>2, <1>4, HolderStays DEF Gone
  <2>3. FreeForSender' /\ ListedHas' /\ InserterHas' /\ SpawnerSpawns' /\ LeaverUnlisted'
    BY <1>2, <1>3, <2>1, <2>2
       DEF FreeForSender, ListedHas, InserterHas, SpawnerSpawns, LeaverUnlisted, Underway,
           At, Gone
  <2> QED BY <1>1, <2>2, <2>3 DEF TurnsInv
<1>5. ASSUME NEW i \in Session, st[i] = "unborn", current' = i, Goto(r, "attach")
      PROVE  TurnsInv'
  <2>1. ctrl'[i] = <<>> /\ sub'[i] = NoRequest /\ i # NoSession
    BY <1>2, <1>5 DEF Inv, UnbornIsQuiet, Session, NoSession
  <2>2. Holder' = NoRequest
    BY <1>5, <2>1 DEF Holder
  <2>3. req'[r].pc = "attach" /\ req'[r].kind = "spawn"
    <3>1. req[r].kind = "spawn"
      BY <1>2 DEF TurnsInv, SpawnerSpawns, At
    <3> QED BY <1>t, <1>5, <3>1 DEF Goto, TypeOK
  <2>4. FreeForSender'
    BY <2>2 DEF FreeForSender, Free
  <2>5. ListedHas'
    <3>1. Respawning(req[r].conn)'
      BY <1>1, <1>5, <2>1, <2>3 DEF Respawning, At
    <3>2. ASSUME NEW c \in Conn, subscribed'[c], ~Gone(c)' PROVE Respawning(c)'
      <4>1. c = req[r].conn
        BY <1>2, <1>3, <3>2 DEF Gone
      <4>2. req'[r].conn = c
        BY <1>1, <4>1
      <4> QED BY <1>5, <2>1, <2>3, <4>2 DEF Respawning, At
    <3> QED BY <3>2 DEF ListedHas
  <2>6. InserterHas' /\ SpawnerSpawns' /\ LeaverUnlisted'
    BY <1>1, <2>3 DEF InserterHas, SpawnerSpawns, LeaverUnlisted, Underway, At
  <2>7. InLine'
    BY <1>5, <2>1 DEF InLine
  <2>8. ClosedIsGone'
    <3>1. ASSUME NEW k \in 1..Len(<<>>) PROVE FALSE
      OBVIOUS
    <3>2. \A q \in Request : q \notin Streams(i)'
      BY <2>1, <3>1, ConnectionsAssumption DEF Streams
    <3> QED BY <1>5, <3>2 DEF ClosedIsGone
  <2> QED BY <1>1, <2>4, <2>5, <2>6, <2>7, <2>8 DEF TurnsInv
<1> QED BY <1>4, <1>5 DEF Spawn

\* An attach makes its connection the holder.
LEMMA AttachTurns ==
  ASSUME Inv, TurnsInv, LinksHold', NEW r \in Request, Attach(r)
  PROVE  TurnsInv'
<1> USE DEF connVars, sessVars
<1>t. TypeOK /\ OneUnderway
  BY DEF Inv, TurnsInv
<1>1. /\ Underway(r) /\ OneUnderway' /\ req[r].conn \in Conn
      /\ \A q \in Request : q # r => req'[q] = req[q] /\ ~Underway(q) /\ ~Underway(q)'
      /\ \A q \in Request : req'[q].conn = req[q].conn
  BY <1>t, SoleRequest DEF Handler
<1>2. /\ UNCHANGED <<connVars, current, sub>> /\ req[r].pc = "attach"
      /\ \A c \in Conn : Gone(c) => Gone(c)'
  BY DEF Attach, At, Gone
<1>3. \A c \in Conn : subscribed[c] /\ ~Gone(c) => c = req[r].conn /\ current # NoSession
  BY <1>t, <1>1, ListedIsSender
<1>4. CASE current = NoSession
  <2>1. \A q \in Request : ~Underway(q)'
    BY <1>t, <1>1, <1>4 DEF Attach, Refused, Goto, Underway, TypeOK
  <2>2. FreeForSender' /\ ListedHas' /\ InserterHas' /\ SpawnerSpawns' /\ LeaverUnlisted'
    BY <1>2, <1>3, <1>4, <2>1
       DEF FreeForSender, ListedHas, InserterHas, SpawnerSpawns, LeaverUnlisted, Underway,
           At, Gone
  <2> QED BY <1>1, <1>2, <1>4, <2>2 DEF TurnsInv, InLine, ClosedIsGone
<1>5. CASE current # NoSession
  <2>1. PICK n \in Session : n = current
    BY <1>t, <1>5 DEF TypeOK
  <2>2. ~Refused
    BY <1>5, <2>1 DEF Refused, TurnsInv, LinksHold
  <2>3. /\ ctrl' = [ctrl EXCEPT ![n] = Append(@, r)] /\ rx' = [rx EXCEPT ![r] = "open"]
        /\ Goto(r, "insert")
    BY <2>1, <2>2 DEF Attach
  <2>4. Follows(Holder, r)
    BY <1>1, <1>5 DEF TurnsInv, FreeForSender, Free, Follows, Gone
  <2>5. \A q \in Request : rx'[q] = "closed" => rx[q] = "closed" /\ q # r
    BY <1>t, <2>3 DEF TypeOK
  <2>6. Holder' = r /\ InLine' /\ ClosedIsGone'
    BY <1>1, <1>2, <2>1, <2>3, <2>4, <2>5, HolderPut
  <2>7. req'[r].pc = "insert" /\ req'[r].conn = req[r].conn
    BY <1>t, <2>3 DEF Goto, TypeOK
  <2>8. current' # NoSession /\ Holder' # NoRequest /\ req'[Holder'].conn = req[r].conn
    BY <1>2, <1>5, <2>6, <2>7, ConnectionsAssumption
  <2>9. FreeForSender' /\ ListedHas' /\ InserterHas'
    BY <1>1, <1>2, <1>3, <2>7, <2>8
       DEF FreeForSender, Free, ListedHas, InserterHas, Has, Underway, At, Gone
  <2>10. SpawnerSpawns' /\ LeaverUnlisted'
    BY <1>1, <2>7 DEF SpawnerSpawns, LeaverUnlisted, Underway, At
  <2> QED BY <1>1, <2>6, <2>9, <2>10 DEF TurnsInv
<1> QED BY <1>4, <1>5

\* A connection that closes takes the session from nobody else.
LEMMA CloseTurns ==
  ASSUME Inv, TurnsInv, LinksHold', NEW c \in Conn, Close(c)
  PROVE  TurnsInv'
<1>t. TypeOK
  BY DEF Inv
<1>1. /\ UNCHANGED <<subscribed, req, rx, current, sub>> /\ ~Gone(c)
      /\ \A d \in Conn : Gone(d)' <=> d = c \/ Gone(d)
      /\ \A q \in Request : req'[q].conn = req[q].conn
  BY <1>t DEF Close, Gone, TypeOK
<1>2. OneUnderway' /\ SpawnerSpawns' /\ LeaverUnlisted'
  BY <1>1 DEF TurnsInv, OneUnderway, SpawnerSpawns, LeaverUnlisted, Underway, At
<1>3. CASE UNCHANGED ctrl
  <2>1. /\ InLine' /\ ClosedIsGone'
        /\ \A d \in Conn : Has(d) <=> Has(d)'
        /\ \A d \in Conn : Free(d) => Free(d)'
    BY <1>1, <1>3, HolderStays
  <2>2. \A q \in Request : req[q].conn \in Conn
    BY <1>t DEF TypeOK
  <2>3. FreeForSender'
    BY <1>1, <2>1, <2>2 DEF TurnsInv, FreeForSender, Underway
  <2>4. ListedHas' /\ InserterHas'
    BY <1>1, <2>1, <2>2 DEF TurnsInv, ListedHas, InserterHas, Respawning, At
  <2> QED BY <1>2, <2>1, <2>3, <2>4 DEF TurnsInv
<1>4. CASE subscribed[c] /\ current # NoSession
  <2>1. PICK n \in Session : n = current
    BY <1>t, <1>4 DEF TypeOK
  <2>2. ctrl' = [ctrl EXCEPT ![n] = Append(@, NoRequest)]
    BY <1>4, <2>1 DEF Close, Unsubscribe
  <2>3. Holder' = NoRequest /\ InLine' /\ ClosedIsGone'
    <3>1. Follows(Holder, NoRequest)
      BY DEF Follows
    <3>2. \A q \in Request : rx'[q] = "closed" => rx[q] = "closed" /\ q # NoRequest
      BY <1>1, ConnectionsAssumption
    <3> QED BY <1>1, <2>1, <2>2, <3>1, <3>2, HolderPut
  <2>4. Has(c) \/ Respawning(c)
    BY <1>1, <1>4 DEF TurnsInv, ListedHas
  <2>5. ASSUME NEW d \in Conn, d # c, Has(d) PROVE Gone(d)
    <3>1. CASE Has(c)
      BY <2>5, <3>1 DEF Has
    <3>2. CASE Respawning(c)
      BY <2>5, <3>2 DEF TurnsInv, FreeForSender, Free, Respawning, Underway, At, Has, Gone
    <3> QED BY <2>4, <3>1, <3>2
  <2>6. FreeForSender'
    BY <2>3 DEF FreeForSender, Free
  <2>7. ListedHas'
    BY <1>1, <2>5 DEF TurnsInv, ListedHas, Respawning, At
  <2>8. InserterHas'
    <3>1. \A q \in Request : req[q].conn \in Conn
      BY <1>t DEF TypeOK
    <3> QED BY <1>1, <2>5, <3>1 DEF TurnsInv, InserterHas, At
  <2> QED BY <1>2, <2>3, <2>6, <2>7, <2>8 DEF TurnsInv
<1> QED BY <1>3, <1>4 DEF Close, Unsubscribe

\* A request is sent when nobody's is under way and the session is free for it.
LEMMA SendTurns ==
  ASSUME Inv, TurnsInv, TakesTurns, NEW r \in Request, NEW c \in Conn, NEW kind \in Kinds,
         Send(r, c, kind)
  PROVE  TurnsInv'
<1>t. TypeOK
  BY DEF Inv
<1>1. /\ UNCHANGED <<conn, link, subscribed, rx, current, ctrl, sub>> /\ req[r].pc = "unsent"
      /\ req'[r] = [pc |-> FirstStep(kind), conn |-> c, kind |-> kind]
      /\ \A q \in Request : q # r => req'[q] = req[q]
  BY <1>t DEF Send, At, TypeOK, connVars, sessVars
<1>2. /\ FirstStep(kind) \in {"spawn", "attach", "remove"}
      /\ FirstStep(kind) = "spawn" => kind = "spawn"
      /\ FirstStep(kind) = "attach" => kind = "attach"
  BY DEF FirstStep, Kinds
<1>3. /\ \A q \in Request : ~Underway(q)
      /\ Free(c)
  BY <1>1, <1>2 DEF TakesTurns, At, Underway
<1>4. /\ InLine' /\ ClosedIsGone'
      /\ \A d \in Conn : Has(d) <=> Has(d)'
      /\ \A d \in Conn : Free(d) => Free(d)'
  BY <1>1, HolderStays DEF Gone
<1>5. \A q \in Request : Underway(q)' => q = r
  BY <1>1, <1>3 DEF Underway
<1>6. OneUnderway' /\ FreeForSender'
  BY <1>1, <1>3, <1>4, <1>5 DEF OneUnderway, FreeForSender
<1>7. ListedHas'
  <2>1. \A d \in Conn : ~Respawning(d)
    BY <1>3 DEF Respawning, Underway, At
  <2> QED BY <1>1, <1>4, <2>1 DEF TurnsInv, ListedHas, Gone
<1>8. InserterHas' /\ SpawnerSpawns' /\ LeaverUnlisted'
  BY <1>1, <1>2, <1>5 DEF InserterHas, SpawnerSpawns, LeaverUnlisted, Underway, At
<1>9. LinksHold'
  BY DEF TakesTurns, LinksHold, Gone
<1> QED BY <1>4, <1>6, <1>7, <1>8, <1>9 DEF TurnsInv

\* A holder whose connection has gone may be forgotten.
Idle(h) == h = NoRequest \/ Gone(req[h].conn)
LEMMA HolderFades ==
  ASSUME TurnsInv, UNCHANGED <<conn, subscribed, req, current>>,
         current # NoSession =>
           Holder' = Holder \/ (Idle(Holder) /\ \E h : h = Holder' /\ Idle(h))
  PROVE  /\ OneUnderway' /\ FreeForSender' /\ ListedHas'
         /\ InserterHas' /\ SpawnerSpawns' /\ LeaverUnlisted'
<1>1. OneUnderway' /\ SpawnerSpawns' /\ LeaverUnlisted'
  BY DEF TurnsInv, OneUnderway, SpawnerSpawns, LeaverUnlisted, Underway, At
<1>2. CASE current # NoSession => Holder' = Holder
  <2>1. \A c : (Has(c) => Has(c)') /\ (Free(c) => Free(c)')
    BY <1>2 DEF Has, Free, Gone
  <2> QED BY <1>1, <2>1
          DEF TurnsInv, FreeForSender, ListedHas, InserterHas, Respawning, Underway, At, Gone
<1>3. CASE Idle(Holder) /\ \E h : h = Holder' /\ Idle(h)
  <2>1. \A c : Free(c)' /\ (Has(c) => Gone(c))
    BY <1>3 DEF Has, Free, Gone, Idle
  <2> QED BY <1>1, <2>1
          DEF TurnsInv, FreeForSender, ListedHas, InserterHas, Respawning, Underway, At, Gone
<1> QED BY <1>2, <1>3

\* A stream whose turn has come: it takes over from one of the same connection,
\* or from one that has gone.
LEMMA TakeTurns ==
  ASSUME Inv, TurnsInv, LinksHold', NEW i \in Session, i = current, Take(i)
  PROVE  TurnsInv'
<1> DEFINE q == ctrl[i]
           s == sub[i]
<1>1. /\ UNCHANGED <<connVars, req, rx, current>> /\ q # <<>>
      /\ ctrl' = [ctrl EXCEPT ![i] = Tail(q)]
      /\ \/ sub' = [sub EXCEPT ![i] = Head(q)]
         \/ Head(q) # NoRequest /\ rx[Head(q)] = "closed" /\ UNCHANGED sub
  BY DEF Take
<1>2. /\ q \in Seq(Request \cup {NoRequest}) /\ s \in Request \cup {NoRequest}
      /\ i # NoSession
  BY DEF Inv, TypeOK, Session, NoSession
<1>3. /\ Tail(q) \in Seq(Request \cup {NoRequest})
      /\ Len(Tail(q)) = Len(q) - 1 /\ Len(q) \in Nat \ {0}
      /\ \A k \in 1..Len(Tail(q)) : Tail(q)[k] = q[k + 1]
      /\ Head(q) = q[1] /\ q[1] \in Request \cup {NoRequest}
  BY <1>1, <1>2, Taken
<1>4. ctrl'[i] = Tail(q) /\ sub'[i] \in {q[1], s}
      /\ (sub'[i] # q[1] => sub'[i] = s /\ q[1] \in Request /\ rx[q[1]] = "closed")
  BY <1>1, <1>3 DEF Inv, TypeOK
<1>5. Follows(s, q[1]) /\ \A k \in 1..Len(q)-1 : Follows(q[k], q[k+1])
  BY <1>1, <1>2 DEF TurnsInv, InLine
<1>6. q[1] \in Streams(i)
  BY <1>3 DEF Streams
<1>7. sub'[i] # q[1] => Idle(q[1]) /\ Idle(s)
  <2>1. sub'[i] # q[1] => Gone(req[q[1]].conn) /\ q[1] # NoRequest
    BY <1>2, <1>4, <1>6, ConnectionsAssumption DEF TurnsInv, ClosedIsGone
  <2> QED BY <1>5, <2>1 DEF Follows, Idle
<1>8. Holder = q[Len(q)]
  BY <1>1 DEF Holder
<1>9. Holder' = IF Tail(q) # <<>> THEN Tail(q)[Len(Tail(q))] ELSE sub'[i]
  <2> DEFINE t == Tail(q)
  <2>1. current' = i /\ ctrl'[i] = t
    BY <1>1, <1>4
  <2> HIDE DEF q, t
  <2>2. Holder' = IF t # <<>> THEN t[Len(t)] ELSE sub'[i]
    BY <2>1 DEF Holder
  <2> QED BY <2>2 DEF t
<1> HIDE DEF q, s
<1>10. Holder' = Holder \/ (Idle(Holder) /\ \E h : h = Holder' /\ Idle(h))
  <2>1. CASE Tail(q) # <<>>
    <3>1. Len(Tail(q)) \in 1..Len(Tail(q)) /\ Len(Tail(q)) + 1 = Len(q)
      BY <1>3, <2>1
    <3> QED BY <1>3, <1>8, <1>9, <2>1, <3>1
  <2>2. CASE Tail(q) = <<>>
    <3>1. Len(q) = 1
      BY <1>3, <2>2
    <3> QED BY <1>4, <1>7, <1>8, <1>9, <2>2, <3>1
  <2> QED BY <2>1, <2>2
<1>11. /\ OneUnderway' /\ FreeForSender' /\ ListedHas'
       /\ InserterHas' /\ SpawnerSpawns' /\ LeaverUnlisted'
  BY <1>1, <1>10, HolderFades DEF connVars
<1>12. ClosedIsGone'
  <2>1. Streams(i)' \subseteq Streams(i)
    BY StreamsShrink DEF Inv
  <2> QED BY <1>1, <1>2, <2>1 DEF TurnsInv, ClosedIsGone, Gone, connVars
<1>13. InLine'
  <2> DEFINE t == Tail(q)
  <2>1. ASSUME t # <<>> PROVE Follows(sub'[i], t[1])
    <3>1. 1 \in 1..Len(t) /\ 1 \in 1..Len(q)-1 /\ t[1] = q[2]
      BY <1>3, <2>1
    <3>2. Follows(q[1], q[2])
      BY <1>5, <3>1
    <3>3. Idle(s) => Follows(s, q[2])
      BY DEF Idle, Follows
    <3> QED BY <1>4, <1>7, <3>1, <3>2, <3>3
  <2>2. ASSUME NEW k \in 1..Len(t)-1 PROVE Follows(t[k], t[k+1])
    <3>1. /\ k \in 1..Len(t) /\ k + 1 \in 1..Len(t) /\ k + 1 \in 1..Len(q)-1
          /\ t[k] = q[k+1] /\ t[k+1] = q[k+1+1]
      BY <1>3
    <3> QED BY <1>5, <3>1
  <2> HIDE DEF t
  <2>3. ctrl'[i] = t /\ UNCHANGED <<req, conn, current>>
    BY <1>1, <1>4 DEF t, connVars
  <2> QED BY <2>1, <2>2, <2>3 DEF InLine, Follows, Gone
<1> QED BY <1>11, <1>12, <1>13 DEF TurnsInv

\* What is found to be gone holds the session for nobody.
LEMMA SendFailsTurns ==
  ASSUME Inv, TurnsInv, LinksHold', NEW i \in Session, i = current, SendFails(i)
  PROVE  TurnsInv'
<1>1. /\ UNCHANGED <<conn, subscribed, req, rx, current, ctrl>> /\ sub'[i] = NoRequest
      /\ sub[i] \in Request /\ rx[sub[i]] = "closed" /\ i # NoSession
  BY DEF SendFails, Inv, TypeOK, connVars, Session, NoSession
<1>2. Idle(sub[i])
  BY <1>1 DEF Idle, TurnsInv, ClosedIsGone, Streams
<1>3. Holder' = Holder \/ (Idle(Holder) /\ \E h : h = Holder' /\ Idle(h))
  BY <1>1, <1>2 DEF Holder, Idle
<1>4. /\ OneUnderway' /\ FreeForSender' /\ ListedHas'
      /\ InserterHas' /\ SpawnerSpawns' /\ LeaverUnlisted'
  BY <1>1, <1>3, HolderFades
<1>5. InLine'
  BY <1>1 DEF TurnsInv, InLine, Follows, Gone
<1>6. ClosedIsGone'
  <2>1. \A r \in Request : r \in Streams(i)' => r \in Streams(i)
    BY <1>1, ConnectionsAssumption DEF Streams
  <2> QED BY <1>1, <2>1 DEF TurnsInv, ClosedIsGone, Gone
<1> QED BY <1>4, <1>5, <1>6 DEF TurnsInv

LEMMA SessionTurns ==
  ASSUME Inv, TurnsInv, TakesTurns, NEW i \in Session,
         Take(i) \/ SendFails(i) \/ Exit(i) \/ TaskEnds(i) \/ Expire(i) \/ Sweep(i)
  PROVE  TurnsInv'
<1>t. TypeOK /\ LinksHold'
  BY DEF Inv, TakesTurns, LinksHold, Gone
<1>1. CASE Exit(i) \/ Expire(i) \/ Sweep(i)
  <2>1. exited'[i] = TRUE \/ detachedAt'[i] = "expired" \/ exited[i] \/ detachedAt[i] = "expired"
    BY <1>t, <1>1 DEF Exit, Expire, Sweep, SweepExited, SweepAbandoned, TypeOK
  <2> QED BY <2>1 DEF TakesTurns, TurnsInv, LinksHold
<1>2. CASE (Take(i) \/ SendFails(i)) /\ i = current
  BY <1>t, <1>2, TakeTurns, SendFailsTurns
<1>3. CASE TaskEnds(i) \/ ((Take(i) \/ SendFails(i)) /\ i # current)
  <2>1. UNCHANGED <<conn, subscribed, req, rx, current>> /\ i # current
    BY <1>t, <1>3 DEF TaskEnds, Take, SendFails, connVars, TypeOK
  <2>2. \A n \in Session : n = current => UNCHANGED <<ctrl[n], sub[n]>>
    <3>1. CASE Take(i)
      BY <1>t, <2>1, <3>1 DEF Take, TypeOK
    <3>2. CASE SendFails(i) \/ TaskEnds(i)
      BY <1>t, <2>1, <3>2 DEF TaskEnds, SendFails, TypeOK
    <3> QED BY <1>3, <3>1, <3>2
  <2>3. current # NoSession => Holder' = Holder
    BY <2>1, <2>2, HolderStays DEF Gone
  <2>4. InLine' /\ ClosedIsGone'
    BY <2>1, <2>2, HolderStays DEF Gone
  <2>5. /\ OneUnderway' /\ FreeForSender' /\ ListedHas'
        /\ InserterHas' /\ SpawnerSpawns' /\ LeaverUnlisted'
    BY <2>1, <2>3, HolderFades
  <2> QED BY <1>t, <2>4, <2>5 DEF TurnsInv
<1> QED BY <1>1, <1>2, <1>3

\* The streams: a push fails only where the connection has gone, and who is
\* served, or waits to be, is not left without a sender.
LEMMA StreamTurns ==
  ASSUME ServedInv, TurnsInv, LinksHold', NEW r \in Request, PushFails(r) \/ StreamEnds(r)
  PROVE  TurnsInv'
<1> USE DEF connVars, sessVars
<1>t. Inv /\ TypeOK /\ StreamsServed
  BY DEF ServedInv, Inv
<1>1. /\ UNCHANGED <<conn, subscribed, req, serves, current, ctrl, sub>>
      /\ \A q \in Request : rx'[q] = "closed" => rx[q] = "closed" \/ q = r
  BY <1>t DEF PushFails, StreamEnds, TypeOK
<1>2. Gone(req[r].conn) \/ (current # NoSession => r \notin Streams(current))
  <2>1. CASE PushFails(r)
    BY <1>t, <2>1 DEF PushFails, TurnsInv, LinksHold, TypeOK
  <2>2. CASE StreamEnds(r)
    <3>1. ASSUME current # NoSession, r \in Streams(current) PROVE FALSE
      <4>1. serves[r] = current
        BY <1>t, <3>1 DEF StreamsServed, TypeOK
      <4> QED BY <2>2, <3>1, <4>1 DEF StreamEnds, SenderAlive, Streams
    <3> QED BY <3>1
  <2> QED BY <2>1, <2>2
<1>3. InLine' /\ ClosedIsGone' /\ (current # NoSession => Holder' = Holder)
  BY <1>t, <1>1, <1>2, HolderStays DEF Gone
<1>4. /\ OneUnderway' /\ FreeForSender' /\ ListedHas'
      /\ InserterHas' /\ SpawnerSpawns' /\ LeaverUnlisted'
  BY <1>1, <1>3, HolderFades
<1> QED BY <1>3, <1>4 DEF TurnsInv

LEMMA TurnsStep ==
  ASSUME ServedInv, TurnsInv, Next, TakesTurns
  PROVE  TurnsInv'
<1>t. Inv /\ KindFits /\ TypeOK /\ LinksHold'
  BY DEF ServedInv, Inv, TakesTurns, LinksHold, Gone
<1>1. ASSUME NEW c \in Conn, LinkDown(c) PROVE TurnsInv'
  <2>1. UNCHANGED <<conn, subscribed, req, rx, current, ctrl, sub>>
    BY <1>1 DEF LinkDown, sessVars
  <2>2. InLine' /\ ClosedIsGone' /\ (current # NoSession => Holder' = Holder)
    BY <1>t, <2>1, HolderStays DEF Gone
  <2>3. /\ OneUnderway' /\ FreeForSender' /\ ListedHas'
        /\ InserterHas' /\ SpawnerSpawns' /\ LeaverUnlisted'
    BY <2>1, <2>2, HolderFades
  <2> QED BY <1>t, <2>2, <2>3 DEF TurnsInv
<1>2. ASSUME NEW r \in Request, Handler(r) PROVE TurnsInv'
  BY <1>t, <1>2, SpawnTurns, AttachTurns, ListingTurns, LeavingTurns DEF Handler
<1> QED BY <1>t, <1>1, <1>2, CloseTurns, SendTurns, StreamTurns, SessionTurns DEF Next

\* The close of a connection does not stop the output of another that has taken
\* the session over, however many connections take turns with it.
THEOREM ClosesSpareOthers == SpecMC => []CloseSparesOthers
<1> DEFINE I == ServedInv /\ (turns => TurnsInv)
<1>1. InitMC => I
  <2> SUFFICES ASSUME Init PROVE ServedInv /\ TurnsInv
    BY DEF InitMC
  <2>1. /\ \A c \in Conn : link[c] = "up" /\ ~subscribed[c]
        /\ \A i \in Session : ~exited[i] /\ detachedAt[i] # "expired" /\ ctrl[i] = <<>>
        /\ \A r \in Request : req[r].pc = "unsent" /\ rx[r] = "unused"
        /\ current \in Session \cup {NoSession}
    BY ServedFirst DEF Init, ServedInv, Inv, TypeOK
  <2>2. LinksHold /\ OneUnderway /\ FreeForSender /\ ListedHas
    BY <2>1 DEF LinksHold, OneUnderway, FreeForSender, ListedHas, Underway
  <2>3. InserterHas /\ SpawnerSpawns /\ LeaverUnlisted
    BY <2>1 DEF InserterHas, SpawnerSpawns, LeaverUnlisted, At
  <2>4. InLine /\ ClosedIsGone
    BY <2>1 DEF InLine, ClosedIsGone
  <2> QED BY <2>2, <2>3, <2>4, ServedFirst DEF TurnsInv
<1>2. I /\ [NextMC]_<<vars, turns>> => I'
  <2> SUFFICES ASSUME I, [NextMC]_<<vars, turns>> PROVE I'
    OBVIOUS
  <2>1. ServedInv' /\ turns' = turns
    BY InvStep, ServedStep DEF NextMC, ServedInv
  <2>2. CASE NextMC
    BY <2>1, <2>2, TurnsStep DEF NextMC
  <2>3. CASE UNCHANGED vars /\ TurnsInv
    <3>1. UNCHANGED <<conn, link, subscribed, req, rx, current, ctrl, sub, detachedAt, exited>>
      BY <2>3 DEF vars, connVars, sessVars
    <3>2. LinksHold'
      BY <2>3, <3>1 DEF TurnsInv, LinksHold, Gone
    <3>3. InLine' /\ ClosedIsGone' /\ (current # NoSession => Holder' = Holder)
      BY <2>3, <3>1, HolderStays DEF Gone, ServedInv
    <3>4. /\ OneUnderway' /\ FreeForSender' /\ ListedHas'
          /\ InserterHas' /\ SpawnerSpawns' /\ LeaverUnlisted'
      BY <2>3, <3>1, <3>3, HolderFades
    <3> QED BY <2>1, <3>2, <3>3, <3>4 DEF TurnsInv
  <2> QED BY <2>1, <2>2, <2>3
<1>3. I => CloseSparesOthers
  <2> SUFFICES ASSUME Inv, TurnsInv, current # NoSession, Holder # NoRequest,
                      NEW c \in Conn, c # req[Holder].conn, subscribed[c], ~Gone(c),
                      ~Gone(req[Holder].conn)
               PROVE  FALSE
    BY DEF CloseSparesOthers, ServedInv, Gone, Inv, TypeOK
  <2>1. ~Has(c)
    BY DEF Has
  <2>2. ~Respawning(c)
    BY DEF TurnsInv, FreeForSender, Free, Respawning, Underway, At, Gone
  <2> QED BY <2>1, <2>2 DEF TurnsInv, ListedHas
<1> QED BY <1>1, <1>2, <1>3, PTL DEF SpecMC
=============================================================================
