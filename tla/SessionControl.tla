--------------------------- MODULE SessionControl ---------------------------
(***************************************************************************)
(* Who a terminal session serves: the contract between a session's stream  *)
(* task (PtySession, which implements it) and the connections that call    *)
(* the manager (PtyConnections, which uses it), without bytes, queues of   *)
(* output or sends in progress.                                            *)
(***************************************************************************)
EXTENDS Sequences

CONSTANTS Stream,   \* attach calls: each makes a stream of its own
          NoStream

VARIABLES
  st,         \* "unborn", "live", "killing" (out of the map), "over"
  ctrl,       \* attach (a stream) and detach (NoStream) calls not yet taken
  sub,        \* the stream that gets the output
  detachedAt, \* "none", "recent", "expired"
  exited,
  rx          \* of each stream: "unused", "open", "closed"

vars == <<st, ctrl, sub, detachedAt, exited, rx>>

Init == /\ st \in {"unborn", "live"}
        /\ ctrl = <<>>
        /\ sub = NoStream
        /\ detachedAt \in {"none", "recent"}
        /\ st = "unborn" => detachedAt = "none"
        /\ exited = FALSE
        /\ rx = [a \in Stream |-> "unused"]

Spawn == /\ st = "unborn"
         /\ st' = "live"
         /\ UNCHANGED <<ctrl, sub, detachedAt, exited, rx>>

Subscribe(a) == /\ st = "live"
                /\ ~exited
                /\ rx[a] = "unused"
                /\ ctrl' = Append(ctrl, a)
                /\ rx' = [rx EXCEPT ![a] = "open"]
                /\ UNCHANGED <<st, sub, detachedAt, exited>>

Detach == /\ st = "live"
          /\ ctrl' = Append(ctrl, NoStream)
          /\ UNCHANGED <<st, sub, detachedAt, exited, rx>>

\* Calls are taken in the order in which they were made.  An attach whose
\* client has gone may leave everything as it was.
Take == /\ ctrl # <<>>
        /\ ctrl' = Tail(ctrl)
        /\ \/ /\ Head(ctrl) = NoStream
              /\ sub' = NoStream
              /\ detachedAt' = "recent"
           \/ /\ Head(ctrl) # NoStream
              /\ sub' = Head(ctrl)
              /\ detachedAt' = "none"
           \/ /\ Head(ctrl) # NoStream
              /\ rx[Head(ctrl)] = "closed"
              /\ UNCHANGED <<sub, detachedAt>>
        /\ UNCHANGED <<st, exited, rx>>

\* A subscriber that has gone is found out when there is output for it.
SendFails == /\ sub # NoStream
             /\ rx[sub] = "closed"
             /\ sub' = NoStream
             /\ UNCHANGED <<st, ctrl, detachedAt, exited, rx>>

Exit == /\ ~exited
        /\ exited' = TRUE
        /\ sub' = NoStream
        /\ detachedAt' = "none"
        /\ UNCHANGED <<st, ctrl, rx>>

Expire == /\ detachedAt = "recent"
          /\ detachedAt' = "expired"
          /\ UNCHANGED <<st, ctrl, sub, exited, rx>>

\* Killed, replaced, or swept: for nobody's sake when it has been abandoned.
Leave == /\ st = "live"
         /\ st' = "killing"
         /\ UNCHANGED <<ctrl, sub, detachedAt, exited, rx>>

Dropped == ctrl' = <<>> /\ sub' = NoStream
End == /\ st \in {"live", "killing"}
       /\ st' = "over"
       /\ Dropped \/ UNCHANGED <<ctrl, sub>>
       /\ UNCHANGED <<detachedAt, exited, rx>>
TaskEnds == /\ st = "over"
            /\ Dropped
            /\ UNCHANGED <<st, detachedAt, exited, rx>>

Close(a) == /\ rx[a] = "open"
            /\ rx' = [rx EXCEPT ![a] = "closed"]
            /\ UNCHANGED <<st, ctrl, sub, detachedAt, exited>>

Next == \/ Spawn \/ Detach \/ Take \/ SendFails \/ Exit \/ Expire
        \/ Leave \/ End \/ TaskEnds
        \/ \E a \in Stream : Subscribe(a) \/ Close(a)

Spec == Init /\ [][Next]_vars
=============================================================================
