-------------------------- MODULE PortForwardProofs --------------------------
(***************************************************************************)
(* However starts, stops, lines and ends of any number of forwards         *)
(* interleave: a binary that runs on its own can be stopped, and nobody is *)
(* told two outcomes.  And whatever shells and chat runs start and end     *)
(* while the server is being stopped: Ctrl+C gets those that were there.   *)
(***************************************************************************)
EXTENDS MC_Teardown, TLAPS

\* The binary writes the URL at most once for each stream it reads: a stream's
\* URL is seen, or on its way, or neither, and the later ones are not looked at.
Waits(f, stream) == IF stream \in saw[f] THEN 1 ELSE 0
UrlsAreFew ==
  \A f \in Forward :
    /\ queued[f] + Waits(f, "out") + Waits(f, "err") <= 2
    /\ ~urlFound[f] => queued[f] = 0

\* A pipe that was read to its end is empty, and stays so, for its binary is
\* dead; the task that tells of the end has seen the end of both.
EndIsEnd ==
  \A f \in Forward :
    /\ start[f] = "idle" => cli[f] = "none"
    /\ start[f] # "running" => waiter[f] = "none"
    /\ eof[f] # {} => cli[f] = "dead"
    /\ "err" \in eof[f] => err[f] = <<>>
    /\ "out" \in eof[f] => out[f] = <<>>
    /\ waiter[f] = "done" => eof[f] = {"err", "out"}

\* Who was told a URL is known to have been; an error is told by the last task.
ToldIsKnown ==
  \A f \in Forward :
    /\ done[f] > 0 => gotUrl[f]
    /\ f \in error => waiter[f] = "done"

Inv == ForwardsInv /\ UrlsAreFew /\ EndIsEnd /\ ToldIsKnown

-----------------------------------------------------------------------------
\* At first nothing is forwarded.
LEMMA InvInit == Init => Inv
<1> SUFFICES ASSUME Init PROVE Inv
  OBVIOUS
<1> USE DEF Init
<1>1. TypeOK
  BY DEF TypeOK
<1>2. RunningIsListed /\ OneOutcome /\ UrlsAreFew /\ EndIsEnd /\ ToldIsKnown
  BY DEF RunningIsListed, OneOutcome, UrlsAreFew, EndIsEnd, ToldIsKnown, Waits
<1> QED BY <1>1, <1>2 DEF Inv, ForwardsInv

\* A stream that has seen a URL leaves room for one more on its way.
LEMMA QueueHasRoom ==
  ASSUME Inv, NEW f \in Forward, NEW stream \in {"out", "err"}, stream \in saw[f]
  PROVE  queued[f] + 1 \in 0..2
<1>1. Waits(f, stream) = 1 /\ Waits(f, "out") \in {0, 1} /\ Waits(f, "err") \in {0, 1}
  BY DEF Waits
<1>2. queued[f] \in Nat /\ queued[f] + Waits(f, "out") + Waits(f, "err") <= 2
  BY DEF Inv, ForwardsInv, TypeOK, UrlsAreFew
<1> QED BY <1>1, <1>2

\* What the command that starts a forward does, and the tasks it leaves behind.
LEMMA ServerStep ==
  ASSUME Inv, NEW f \in Forward, Spawn(f) \/ Handler(f) \/ Reading(f) \/ Join(f)
  PROVE  Inv'
<1> USE DEF Inv, ForwardsInv, TypeOK, RunningIsListed, OneOutcome, UrlsAreFew, Waits,
            EndIsEnd, ToldIsKnown, GoTo, handlerVars, cliVars, readVars
<1>1. CASE Spawn(f)   BY <1>1 DEF Spawn
<1>2. CASE Insert(f)  BY <1>2 DEF Insert
<1>3. CASE TakeOut(f) BY <1>3 DEF TakeOut
<1>4. CASE TakeErr(f)
  <2> USE <1>4 DEF TakeErr
  <2>1. TypeOK'
    <3>1. waiter' \in [Forward -> {"none", "join", "done"}]
      OBVIOUS
    <3>2. start' \in [Forward -> {"idle", "spawned", "listed", "tookOut", "running", "failed"}]
      BY ZenonT(60)
    <3> QED BY <3>1, <3>2
  <2>2. RunningIsListed'
    OBVIOUS
  <2>3. OneOutcome'
    OBVIOUS
  <2>4. UrlsAreFew'
    OBVIOUS
  <2>5. EndIsEnd'
    OBVIOUS
  <2>6. ToldIsKnown'
    <3>1. f \notin error /\ UNCHANGED <<done, gotUrl, error>>
      OBVIOUS
    <3>2. \A g \in Forward : g # f => waiter'[g] = waiter[g]
      OBVIOUS
    <3> QED BY <3>1, <3>2
  <2> QED BY <2>1, <2>2, <2>3, <2>4, <2>5, <2>6
<1>5. CASE ReadUrl(f)
  <2>1. CASE err[f] # <<>> /\ Sends(f, Head(err[f])) /\ err' = [err EXCEPT ![f] = Tail(@)]
             /\ UNCHANGED out
    <3> USE <1>5, <2>1 DEF ReadUrl, Sends
    <3>1. TypeOK'
      OBVIOUS
    <3>2. RunningIsListed'
      OBVIOUS
    <3>3. OneOutcome'
      OBVIOUS
    <3>4. UrlsAreFew'
      OBVIOUS
    <3>5. EndIsEnd'
      OBVIOUS
    <3>6. ToldIsKnown'
      OBVIOUS
    <3> QED BY <3>1, <3>2, <3>3, <3>4, <3>5, <3>6
  <2>2. CASE out[f] # <<>> /\ Sends(f, Head(out[f])) /\ out' = [out EXCEPT ![f] = Tail(@)]
             /\ UNCHANGED err
    <3> USE <1>5, <2>2 DEF ReadUrl, Sends
    <3>1. TypeOK'
      OBVIOUS
    <3>2. RunningIsListed'
      OBVIOUS
    <3>3. OneOutcome'
      OBVIOUS
    <3>4. UrlsAreFew'
      OBVIOUS
    <3>5. EndIsEnd'
      OBVIOUS
    <3>6. ToldIsKnown'
      OBVIOUS
    <3> QED BY <3>1, <3>2, <3>3, <3>4, <3>5, <3>6
  <2> QED BY <1>5, <2>1, <2>2 DEF ReadUrl
<1>6. CASE ReadEof(f)
  <2>1. PICK stream \in {"err", "out"} :
          /\ IF stream = "err" THEN err[f] = <<>> ELSE out[f] = <<>>
          /\ eof' = [eof EXCEPT ![f] = @ \cup {stream}]
    BY <1>6 DEF ReadEof
  <2>2. start[f] = "running" /\ cli[f] = "dead"
    BY <1>6 DEF ReadEof
  <2>3. UNCHANGED <<handlerVars, cliVars, err, out, gotUrl, waiter, done, error, stale>>
    BY <1>6 DEF ReadEof
  <2>4. TypeOK'
    <3>1. eof[f] \cup {stream} \in SUBSET {"out", "err"}
      OBVIOUS
    <3>2. eof' \in [Forward -> SUBSET {"out", "err"}]
      BY <2>1, <3>1
    <3> QED BY <2>3, <3>2
  <2>5. EndIsEnd'
    <3>1. \A g \in Forward : eof'[g] = IF g = f THEN eof[f] \cup {stream} ELSE eof[g]
      BY <2>1
    <3>2. waiter[f] = "done" => eof[f] \cup {stream} = {"err", "out"}
      OBVIOUS
    <3> QED BY <2>1, <2>2, <2>3, <3>1, <3>2
  <2>6. RunningIsListed' /\ OneOutcome' /\ UrlsAreFew' /\ ToldIsKnown'
    BY <2>3
  <2> QED BY <2>4, <2>5, <2>6
<1>7. CASE Join(f)
  <2> USE <1>7 DEF Join
  <2>1. TypeOK'
    OBVIOUS
  <2>2. RunningIsListed'
    OBVIOUS
  <2>3. OneOutcome'
    OBVIOUS
  <2>4. UrlsAreFew'
    OBVIOUS
  <2>5. EndIsEnd'
    <3>1. start[f] = "running" /\ eof[f] = {"err", "out"} /\ UNCHANGED <<start, cli, err, out, eof>>
      OBVIOUS
    <3>2. \A g \in Forward : waiter'[g] = IF g = f THEN "done" ELSE waiter[g]
      OBVIOUS
    <3> QED BY <3>1, <3>2
  <2>6. ToldIsKnown'
    OBVIOUS
  <2> QED BY <2>1, <2>2, <2>3, <2>4, <2>5, <2>6
<1> QED BY <1>1, <1>2, <1>3, <1>4, <1>5, <1>6, <1>7 DEF Handler, Reading

\* Stops, of one forward and of all.
LEMMA StopStep ==
  ASSUME Inv, (\E f \in Forward : Stop(f) \/ StopReturns(f) \/ DrainOne(f)) \/ StopAll \/ Drained
  PROVE  Inv'
<1> USE DEF Inv, ForwardsInv, TypeOK, RunningIsListed, OneOutcome, UrlsAreFew, Waits,
            EndIsEnd, ToldIsKnown, Condemn, handlerVars, cliVars, readVars
<1>1. ASSUME NEW f \in Forward, Stop(f) PROVE Inv'
  <2> USE <1>1 DEF Stop
  <2>1. TypeOK'
    <3>1. stop' \in [Forward -> {"none", "waiting", "true", "false"}]
      BY ZenonT(60)
    <3>2. cli' \in [Forward -> {"none", "alive", "condemned", "dead"}]
      BY ZenonT(60)
    <3>3. forwards' \subseteq Forward /\ holder' \in Forward \cup {Nobody, Everyone}
      OBVIOUS
    <3> QED BY <3>1, <3>2, <3>3
  <2>2. RunningIsListed'
    OBVIOUS
  <2>3. OneOutcome'
    OBVIOUS
  <2>4. UrlsAreFew'
    OBVIOUS
  <2>5. EndIsEnd'
    OBVIOUS
  <2>6. ToldIsKnown'
    OBVIOUS
  <2> QED BY <2>1, <2>2, <2>3, <2>4, <2>5, <2>6
<1>2. ASSUME NEW f \in Forward, StopReturns(f) PROVE Inv'
  BY <1>2 DEF StopReturns
<1>3. ASSUME NEW f \in Forward, DrainOne(f) PROVE Inv'
  BY <1>3 DEF DrainOne
<1>4. CASE StopAll
  BY <1>4 DEF StopAll
<1>5. CASE Drained
  BY <1>5 DEF Drained
<1> QED BY <1>1, <1>2, <1>3, <1>4, <1>5

\* The binary, its tunnel program, and the signals that reach them.
LEMMA CliStep ==
  ASSUME Inv, NEW f \in Forward,
         \/ Cli(f) \/ TunnelDies(f) \/ KillArrives(f)
         \/ \E stream \in {"out", "err"} : TunnelPrints(f, stream)
  PROVE  Inv'
<1> USE DEF Inv, ForwardsInv, TypeOK, RunningIsListed, OneOutcome, UrlsAreFew, Waits,
            EndIsEnd, ToldIsKnown, handlerVars, cliVars, readVars
<1>1. CASE CliFails(f)    BY <1>1 DEF CliFails
<1>2. CASE CliSpawns(f)   BY <1>2 DEF CliSpawns
<1>3. CASE CliPrints(f)   BY <1>3 DEF CliPrints
<1>4. CASE CliEnds(f)     BY <1>4 DEF CliEnds
<1>5. ASSUME NEW stream \in {"out", "err"}, CliAnnounces(f, stream) PROVE Inv'
  <2> USE <1>5 DEF CliAnnounces
  <2>1. TypeOK'
    <3>1. queued[f] + 1 \in 0..2
      BY QueueHasRoom
    <3>2. queued' \in [Forward -> 0..2] /\ saw' \in [Forward -> SUBSET {"out", "err"}]
      BY <3>1
    <3> QED BY <3>2
  <2>2. RunningIsListed'
    OBVIOUS
  <2>3. OneOutcome'
    OBVIOUS
  <2>4. UrlsAreFew'
    OBVIOUS
  <2>5. EndIsEnd'
    OBVIOUS
  <2>6. ToldIsKnown'
    OBVIOUS
  <2> QED BY <2>1, <2>2, <2>3, <2>4, <2>5, <2>6
<1>6. CASE TunnelDies(f)  BY <1>6 DEF TunnelDies
<1>7. CASE KillArrives(f) BY <1>7 DEF KillArrives
<1>8. ASSUME NEW stream \in {"out", "err"}, TunnelPrints(f, stream) PROVE Inv'
  BY <1>8 DEF TunnelPrints
<1> QED BY <1>1, <1>2, <1>3, <1>4, <1>5, <1>6, <1>7, <1>8 DEF Cli

\* For any number of forwards: whenever they are started, listed, stopped or
\* fail, a binary that runs on its own is in the table once its handler has
\* entered it, and a client told of a failure was told no URL.
THEOREM ForwardsCanBeStopped == Spec => []ForwardsInv
<1>1. Inv /\ [Next]_vars => Inv'
  <2> SUFFICES ASSUME Inv, [Next]_vars PROVE Inv'
    OBVIOUS
  <2>1. CASE UNCHANGED vars
    BY <2>1 DEF vars, handlerVars, cliVars, readVars, Inv, ForwardsInv, TypeOK, RunningIsListed,
                OneOutcome, UrlsAreFew, Waits, EndIsEnd, ToldIsKnown
  <2> QED BY <2>1, ServerStep, StopStep, CliStep DEF Next
<1>2. Inv => ForwardsInv
  BY DEF Inv
<1> QED BY InvInit, <1>1, <1>2, PTL DEF Spec

-----------------------------------------------------------------------------
(* The end of the server (Shutdown). *)

\* A living shell is in the table, or the handler is about to kill it.
ShellIsListed ==
  \A s \in Shell : shell[s] \in {"alive", "closed"} => s \in sessions \/ s = victim

\* The handler has a victim only in the midst of its kills.
VictimIsTaken == victim # Nobody => handler = "killing"

\* What was there when the handler woke up is still listed or tracked, until it
\* has had its turn; or it has ended.
BeforeIsKnown ==
  /\ \A s \in Shell \cap before :
       \/ shell[s] \in {"dead", "left"}
       \/ handler \in {"chats", "sessions", "killing"} /\ (s \in sessions \/ s = victim)
  /\ \A r \in Chat \cap before :
       chat[r] = "dead" \/ r \in termed \/ (handler = "chats" /\ r \in tracker)
  /\ handler = "waiting" => before = {}

StopInv == Ctrl!TypeOK /\ ShellIsListed /\ VictimIsTaken /\ BeforeIsKnown

\* Calls under the manager's lock, and what chat runs and shells do by themselves.
LEMMA ConnectionStep ==
  ASSUME StopInv,
         \/ \E c \in Conn : Ctrl!LockManager(c) \/ Ctrl!Call(c) \/ Ctrl!CallPanics(c)
         \/ \E r \in Chat : Ctrl!SpawnChat(r) \/ Ctrl!Register(r) \/ Ctrl!ChatEnds(r)
         \/ \E s \in Shell : Ctrl!ShellEnds(s) \/ Ctrl!ShellCloses(s)
  PROVE  StopInv'
<1> USE DEF StopInv, Ctrl!TypeOK, Ctrl!HandlerHasLock, ShellIsListed, VictimIsTaken,
            BeforeIsKnown, Ctrl!Up
<1>1. ASSUME NEW c \in Conn, Ctrl!LockManager(c) PROVE StopInv'
  BY <1>1 DEF Ctrl!LockManager
<1>2. ASSUME NEW c \in Conn, Ctrl!Call(c) PROVE StopInv'
  <2> USE <1>2 DEF Ctrl!Call
  <2>1. CASE UNCHANGED <<shell, sessions>>
    BY <2>1
  <2>2. ASSUME NEW s \in Shell, shell[s] = "none", shell' = [shell EXCEPT ![s] = "alive"],
               sessions' = sessions \cup {s}
        PROVE  StopInv'
    BY <2>2
  <2>3. ASSUME NEW s \in Shell, shell[s] = "none", NEW old \in sessions, Ctrl!Replace(old, s)
        PROVE  StopInv'
    BY <2>3 DEF Ctrl!Replace
  <2>4. ASSUME NEW s \in sessions, shell[s] # "closed",
               shell' = [shell EXCEPT ![s] = "dead"], sessions' = sessions \ {s}
        PROVE  StopInv'
    BY <2>4
  <2> QED BY <2>1, <2>2, <2>3, <2>4
<1>3. ASSUME NEW c \in Conn, Ctrl!CallPanics(c) PROVE StopInv'
  <2>1. UNCHANGED <<aborts, sigint, handler, shell, sessions, victim, chat, tracker, termed,
                  before>>
    BY <1>3 DEF Ctrl!CallPanics
  <2>2. /\ server' \in {"up", "terminated", "aborted"} /\ owner' \in Conn \cup {Nobody}
        /\ poisoned' \in BOOLEAN /\ (aborts => ~poisoned')
    <3>1. CASE aborts /\ server' = "aborted" /\ UNCHANGED <<owner, poisoned>>
      BY <3>1
    <3>2. CASE ~aborts /\ owner' = Nobody /\ poisoned' = TRUE /\ UNCHANGED server
      BY <3>2
    <3> QED BY <1>3, <3>1, <3>2 DEF Ctrl!CallPanics
  <2>3. Ctrl!TypeOK'
    BY <2>1, <2>2, <1>3 DEF Ctrl!CallPanics
  <2>4. ShellIsListed' /\ VictimIsTaken' /\ BeforeIsKnown'
    BY <2>1
  <2> QED BY <2>3, <2>4
<1>4. ASSUME NEW r \in Chat, Ctrl!SpawnChat(r) PROVE StopInv'
  BY <1>4 DEF Ctrl!SpawnChat
<1>5. ASSUME NEW r \in Chat, Ctrl!Register(r) PROVE StopInv'
  BY <1>5 DEF Ctrl!Register
<1>6. ASSUME NEW r \in Chat, Ctrl!ChatEnds(r) PROVE StopInv'
  BY <1>6 DEF Ctrl!ChatEnds
<1>7. ASSUME NEW s \in Shell, Ctrl!ShellEnds(s) PROVE StopInv'
  BY <1>7 DEF Ctrl!ShellEnds
<1>8. ASSUME NEW s \in Shell, Ctrl!ShellCloses(s) PROVE StopInv'
  BY <1>8 DEF Ctrl!ShellCloses
<1> QED BY <1>1, <1>2, <1>3, <1>4, <1>5, <1>6, <1>7, <1>8

\* Signals, and the handler of Ctrl+C.
LEMMA SignalStep ==
  ASSUME StopInv, Ctrl!CtrlC \/ Ctrl!HandlerStep \/ Ctrl!Sigterm
  PROVE  StopInv'
<1> USE DEF StopInv, Ctrl!TypeOK, Ctrl!HandlerHasLock, ShellIsListed, VictimIsTaken,
            BeforeIsKnown, Ctrl!Up
<1>1. CASE Ctrl!CtrlC        BY <1>1 DEF Ctrl!CtrlC
<1>2. CASE Ctrl!Sigterm      BY <1>2 DEF Ctrl!Sigterm
<1>3. CASE Ctrl!Wake
  <2>1. Shell \cap Chat = {}
    BY TeardownAssumption DEF Ctrl!ShutdownAssumption
  <2>2. BeforeIsKnown'
    BY <1>3, <2>1 DEF Ctrl!Wake
  <2> QED BY <1>3, <2>2 DEF Ctrl!Wake
<1>4. CASE Ctrl!KillChats    BY <1>4 DEF Ctrl!KillChats
<1>5. CASE Ctrl!KillSessions
  <2>1. CASE Ctrl!LockForKills BY <2>1 DEF Ctrl!LockForKills
  <2>2. ASSUME NEW s \in Shell, Ctrl!TakeOut(s) PROVE StopInv'
    BY <2>2, TeardownAssumption DEF Ctrl!ShutdownAssumption, Ctrl!TakeOut
  <2>3. ASSUME NEW s \in Shell, Ctrl!KillSession(s) PROVE StopInv'
    BY <2>3, TeardownAssumption DEF Ctrl!ShutdownAssumption, Ctrl!KillSession
  <2>4. CASE Ctrl!KillsDone
    BY <2>4, TeardownAssumption DEF Ctrl!ShutdownAssumption, Ctrl!KillsDone
  <2> QED BY <1>5, <2>1, <2>2, <2>3, <2>4 DEF Ctrl!KillSessions
<1>6. CASE Ctrl!SpawnStopAll BY <1>6 DEF Ctrl!SpawnStopAll
<1> QED BY <1>1, <1>2, <1>3, <1>4, <1>5, <1>6 DEF Ctrl!HandlerStep

\* However connections spawn, hold the lock and panic with it: when the handler
\* has had its turn, the shells and the tracked runs that were there when it
\* woke up have been ended or told to end.
THEOREM CtrlCSparesNone == SpecMC => []ShutdownInv
<1>1. InitMC => StopInv
  BY DEF InitMC, Ctrl!Init, StopInv, Ctrl!TypeOK, Ctrl!HandlerHasLock, ShellIsListed,
              VictimIsTaken, BeforeIsKnown
<1>2. StopInv /\ [NextMC]_all => StopInv'
  <2>1. ASSUME StopInv, UNCHANGED shutdownVars PROVE StopInv'
    BY <2>1 DEF shutdownVars, StopInv, Ctrl!TypeOK, Ctrl!HandlerHasLock, ShellIsListed,
                  VictimIsTaken, BeforeIsKnown
  <2>2. ASSUME StopInv, Ctrl!Next PROVE StopInv'
    BY <2>2, ConnectionStep, SignalStep DEF Ctrl!Next
  <2> QED BY <2>1, <2>2 DEF NextMC, NextForwards, NextShutdown, NextUi, all
<1>3. StopInv => ShutdownInv
  BY DEF StopInv, BeforeIsKnown, ShutdownInv, Ctrl!CtrlCReaches
<1> QED BY <1>1, <1>2, <1>3, PTL DEF SpecMC
=============================================================================
