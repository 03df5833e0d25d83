--------------------------- MODULE TerminalStream ---------------------------
(***************************************************************************)
(* What one attached client is promised by a terminal session, without any *)
(* of the queues, tasks and buffers that keep the promise: the bytes it    *)
(* gets are a gapless run of what the shell produced, each of them once    *)
(* and in order, and an exit status, if one arrives, comes after the last  *)
(* byte of all.  The stream may also just stop: the client leaves, another *)
(* one takes the session over, or the session is torn down.                *)
(***************************************************************************)
EXTENDS Integers

Unset == -1

VARIABLES
  produced,  \* how many bytes the shell has produced
  seen,      \* offset just past the last byte delivered, Unset before it
  got,       \* how many bytes have been delivered
  phase      \* "unused", "open", "exited" (with a status), "ended", "lost"

vars == <<produced, seen, got, phase>>

Init == /\ produced = 0
        /\ seen = Unset
        /\ got = 0
        /\ phase = "unused"

\* The shell writes; never again once a client that follows it has its status.
Produce == /\ phase # "exited"
           /\ produced' \in Nat
           /\ produced' > produced
           /\ UNCHANGED <<seen, got, phase>>

Open == /\ phase = "unused"
        /\ phase' = "open"
        /\ UNCHANGED <<produced, seen, got>>

\* n more bytes: wherever the replay starts at first, then where the last
\* delivery ended, and never bytes that do not exist yet.
Deliver == /\ phase = "open"
           /\ \E n \in 1..produced :
                /\ got' = got + n
                /\ seen' \in n..produced
                /\ seen # Unset => seen' = seen + n
           /\ UNCHANGED <<produced, phase>>

ExitStatus == /\ phase = "open"
              /\ seen \in {Unset, produced}
              /\ phase' = "exited"
              /\ UNCHANGED <<produced, seen, got>>

Stop == /\ phase = "open"
        /\ phase' \in {"ended", "lost"}
        /\ UNCHANGED <<produced, seen, got>>

Next == Produce \/ Open \/ Deliver \/ ExitStatus \/ Stop

Spec == Init /\ [][Next]_vars
=============================================================================
