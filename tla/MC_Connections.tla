---------------------------- MODULE MC_Connections ----------------------------
(***************************************************************************)
(* Two connections on one session id (PtyConnections), on two instances:   *)
(* what they can do to each other with requests in any order, and what     *)
(* they do when they take turns.                                           *)
(***************************************************************************)
EXTENDS PtyConnections

CONSTANTS c1, r1, r2, r3

VARIABLE turns

InitMC == Init /\ turns \in BOOLEAN

Underway(r) == req[r].pc \notin {"unsent", "done"}

\* Who has, or is about to get, the output of the session in the map.
Holder == IF ctrl[current] # <<>> THEN ctrl[current][Len(ctrl[current])]
                                  ELSE sub[current]

\* Does no other open connection have the session?
Free(c) == current # NoSession /\ Holder # NoRequest =>
             req[Holder].conn = c \/ conn[req[Holder].conn] = "closed"

\* Each request is sent when the one before is done and no other connection has
\* the session; links hold, and shells neither exit nor are reaped.
TakesTurns ==
  /\ \A r \in Request : At(r, "unsent") /\ Underway(r)' =>
       /\ \A q \in Request : ~Underway(q)
       /\ Free(req'[r].conn)
  /\ \A c \in Conn : link'[c] = "down" => conn'[c] = "closed"
  /\ \A i \in Session : ~exited'[i] /\ detachedAt'[i] # "expired"

\* Requests have their order, the first is the first connection's, and the third
\* is for taking turns.
NextMC ==
  /\ UNCHANGED turns
  /\ Next
  /\ ~At(r1, "unsent")' => req'[r1].conn = c1
  /\ ~At(r2, "unsent")' => ~At(r1, "unsent")
  /\ ~At(r3, "unsent")' => ~At(r2, "unsent") /\ turns
  /\ turns => TakesTurns

\* In turns, where nothing expires, only the invariants are of interest.
SpecMC == InitMC /\ [][NextMC]_<<vars, turns>> /\ Fairness

-----------------------------------------------------------------------------
\* As long as clients take turns, a connection that still lists the session is not
\* one from which another has taken it: its close would stop the other's output
\* (the loop over `subscribed`, ws_server.rs:838-847).
CloseSparesOthers ==
  turns /\ current # NoSession /\ Holder # NoRequest =>
    LET taker == req[Holder].conn IN
    \A c \in Conn \ {taker} :
      ~(subscribed[c] /\ conn[c] = "open" /\ conn[taker] = "open")
=============================================================================
