------------------------- MODULE CompanionAppProofs -------------------------
(***************************************************************************)
(* However many starts and stops of a companion app overlap, none of its   *)
(* processes is lost track of and the stored port is never that of another *)
(* running process than the child; and when they do not overlap, it is the *)
(* child's.                                                                *)
(***************************************************************************)
EXTENDS MC_CompanionApp, TLAPS

\* A process that no start has stored yet is nobody's child and nobody's port.
Fresh ==
  \A s \in Starts :
    pc[s] \in {"idle", "spawn", "boot", "child"} => child # s /\ port # s

Inv == TypeOK /\ NoStrayApp /\ PortIsOfTheChild /\ Fresh

-----------------------------------------------------------------------------
\* Before any command there is nothing to lose track of.
LEMMA InvInit == Init => Inv
  BY CompanionAssumption
  DEF Init, Inv, TypeOK, NoStrayApp, PortIsOfTheChild, Fresh, Alive, NoAnswer, Calls

\* Every step keeps the types.
LEMMA TypeStep == TypeOK /\ [Next]_vars => TypeOK'
<1> SUFFICES ASSUME TypeOK, [Next]_vars PROVE TypeOK'
  OBVIOUS
<1> USE CompanionAssumption DEF TypeOK, Calls, GoTo, Return
<1>1. ASSUME NEW s \in Starts, StartRuns(s) PROVE TypeOK'
  <2>1. CASE AlreadyStarted(s) BY <2>1 DEF AlreadyStarted, Running
  <2>2. CASE NotStarted(s)     BY <2>2 DEF NotStarted
  <2>3. CASE SpawnApp(s)       BY <2>3 DEF SpawnApp, Failed
  <2>4. CASE PortIsRead(s)     BY <2>4 DEF PortIsRead
  <2>5. CASE NoPortInTime(s)   BY <2>5 DEF NoPortInTime, Drop, Failed
  <2>6. CASE StoreChild(s)     BY <2>6 DEF StoreChild, Drop
  <2>7. CASE StorePort(s)      BY <2>7 DEF StorePort, Running
  <2>8. CASE Confirm(s)        BY <2>8 DEF Confirm, Running
  <2>9. CASE Look(s)           BY <2>9 DEF Look
  <2> QED BY <1>1, <2>1, <2>2, <2>3, <2>4, <2>5, <2>6, <2>7, <2>8, <2>9 DEF StartRuns
<1>2. ASSUME NEW s \in Starts, Listens(s) \/ Dies(s) PROVE TypeOK'
  BY <1>2 DEF Listens, Dies
<1>3. ASSUME NEW c \in Calls, StopCalled(c) PROVE TypeOK'
  BY <1>3 DEF StopCalled
<1>4. ASSUME NEW c \in Calls, StopTakes(c) PROVE TypeOK'
  BY <1>4 DEF StopTakes, Drop
<1>5. ASSUME NEW c \in Calls, StopResets(c) PROVE TypeOK'
  BY <1>5 DEF StopResets, Failed
<1>6. CASE UNCHANGED vars
  BY <1>6 DEF vars
<1> QED BY <1>1, <1>2, <1>3, <1>4, <1>5, <1>6 DEF Next, StopRuns

\* Every step keeps track of the processes.  The child and the port are stored
\* in two steps; what makes that safe is that a child that is replaced or
\* taken is dead before its port can be stored.
LEMMA TrackStep == Inv /\ [Next]_vars => (NoStrayApp /\ PortIsOfTheChild /\ Fresh)'
<1> SUFFICES ASSUME Inv, [Next]_vars PROVE (NoStrayApp /\ PortIsOfTheChild /\ Fresh)'
  OBVIOUS
<1> USE CompanionAssumption
    DEF Inv, TypeOK, NoStrayApp, PortIsOfTheChild, Fresh, Alive, Calls, GoTo, Return
<1>1. ASSUME NEW s \in Starts, StartRuns(s)
      PROVE  (NoStrayApp /\ PortIsOfTheChild /\ Fresh)'
  <2>1. CASE AlreadyStarted(s) BY <2>1 DEF AlreadyStarted
  <2>2. CASE NotStarted(s)     BY <2>2 DEF NotStarted
  <2>3. CASE SpawnApp(s)       BY <2>3 DEF SpawnApp
  <2>4. CASE PortIsRead(s)     BY <2>4 DEF PortIsRead
  <2>5. CASE NoPortInTime(s)   BY <2>5 DEF NoPortInTime, Drop
  <2>6. CASE StoreChild(s)     BY <2>6 DEF StoreChild, Drop
  <2>7. CASE StorePort(s)      BY <2>7 DEF StorePort
  <2>8. CASE Confirm(s)        BY <2>8 DEF Confirm
  <2>9. CASE Look(s)           BY <2>9 DEF Look
  <2> QED BY <1>1, <2>1, <2>2, <2>3, <2>4, <2>5, <2>6, <2>7, <2>8, <2>9 DEF StartRuns
<1>2. ASSUME NEW s \in Starts, Listens(s) \/ Dies(s)
      PROVE  (NoStrayApp /\ PortIsOfTheChild /\ Fresh)'
  BY <1>2 DEF Listens, Dies
<1>3. ASSUME NEW c \in Calls, StopCalled(c)
      PROVE  (NoStrayApp /\ PortIsOfTheChild /\ Fresh)'
  BY <1>3 DEF StopCalled
<1>4. ASSUME NEW c \in Calls, StopTakes(c)
      PROVE  (NoStrayApp /\ PortIsOfTheChild /\ Fresh)'
  BY <1>4 DEF StopTakes, Drop
<1>5. ASSUME NEW c \in Calls, StopResets(c)
      PROVE  (NoStrayApp /\ PortIsOfTheChild /\ Fresh)'
  BY <1>5 DEF StopResets
<1>6. CASE UNCHANGED vars
  BY <1>6 DEF vars
<1> QED BY <1>1, <1>2, <1>3, <1>4, <1>5, <1>6 DEF Next, StopRuns

-----------------------------------------------------------------------------
\* No app process runs that neither the state nor the start that spawned it
\* can still stop, and a proxied request reaches the child or nobody, for any
\* number of overlapping starts and stops (State::stop, start_*_command).
THEOREM AppsAreTracked == Spec => []AppsInv
<1>1. Inv /\ [Next]_vars => Inv'
  BY TypeStep, TrackStep DEF Inv
<1>2. Inv => AppsInv
  BY DEF Inv, AppsInv
<1> QED BY InvInit, <1>1, <1>2, PTL DEF Spec

-----------------------------------------------------------------------------
(* One command at a time. *)

\* What the command that is under way has done to the child has been done to
\* the port, but for the assignment between them.
Halfway(c) ==
  /\ pc[c] = "port" => child = c
  /\ pc[c] = "reset" => child = None
  /\ pc[c] \notin {"port", "reset"} => port = child
OneAtATime == \A c, d \in Busy : c = d
InTurn == OneAtATime /\ StateAgrees /\ \A c \in Busy : Halfway(c)

\* Any step of one command, with no other under way before it or after it.
LEMMA InTurnStep ==
  ASSUME TypeOK, InTurn, Next, OneAtATime'
  PROVE  InTurn'
<1> USE CompanionAssumption DEF Busy, Begun
<1>1. ASSUME NEW c \in Calls, UNCHANGED <<child, port>>, pc[c] \notin {"idle", "done", "port", "reset"},
             NEW place, GoTo(c, place), place \notin {"port", "reset"}
      PROVE  InTurn'
  <2>1. port = child
    BY <1>1 DEF InTurn, Halfway
  <2>2. \A d \in Calls : d # c => pc[d] \in {"idle", "done"} /\ pc'[d] = pc[d]
    BY <1>1 DEF InTurn, OneAtATime, GoTo, TypeOK
  <2>3. pc'[c] = place
    BY <1>1 DEF GoTo, TypeOK
  <2> QED BY <1>1, <2>1, <2>2, <2>3 DEF InTurn, StateAgrees, Halfway
<1>2. ASSUME NEW c \in Calls, pc[c] \notin {"idle", "done"}, NEW place, GoTo(c, place),
             place = "done" => port' = child',
             place = "port" => child' = c,
             place = "reset" => child' = None,
             place \in {"done", "port", "reset"}
      PROVE  InTurn'
  <2>1. \A d \in Calls : d # c => pc[d] \in {"idle", "done"} /\ pc'[d] = pc[d]
    BY <1>2 DEF InTurn, OneAtATime, GoTo, TypeOK
  <2>2. pc'[c] = place
    BY <1>2 DEF GoTo, TypeOK
  <2> QED BY <1>2, <2>1, <2>2 DEF InTurn, StateAgrees, Halfway
<1>3. ASSUME NEW s \in Starts, StartRuns(s) PROVE InTurn'
  <2>c. s \in Calls
    BY DEF Calls
  <2>1. CASE AlreadyStarted(s)
    <3>1. UNCHANGED <<child, port>> /\ \A d \in Busy' : d \in Busy /\ pc'[d] = pc[d]
      BY <2>1, <2>c DEF AlreadyStarted, Return, GoTo, TypeOK
    <3>2. Busy' = {} => Busy = {}
      BY <2>1, <2>c DEF AlreadyStarted, Return, GoTo, TypeOK
    <3> QED BY <3>1, <3>2 DEF InTurn, StateAgrees, Halfway
  <2>2. CASE NotStarted(s)
    <3>1. UNCHANGED <<child, port>> /\ pc[s] = "idle" /\ pc' = [pc EXCEPT ![s] = "spawn"]
      BY <2>2 DEF NotStarted, GoTo
    <3>2. s \in Busy' /\ \A d \in Calls : d # s => pc'[d] = pc[d]
      BY <2>c, <3>1 DEF TypeOK
    <3>3. Busy = {}
      BY <2>c, <3>1, <3>2 DEF OneAtATime
    <3>4. port = child
      BY <3>3 DEF InTurn, StateAgrees
    <3>5. \A d \in Busy' : pc'[d] = "spawn"
      BY <2>c, <3>1, <3>2 DEF OneAtATime, TypeOK
    <3> QED BY <3>1, <3>2, <3>4, <3>5 DEF InTurn, StateAgrees, Halfway
  <2>3. CASE SpawnApp(s)
    BY <1>1, <2>3, <2>c DEF SpawnApp, Return
  <2>4. CASE PortIsRead(s)
    BY <1>1, <2>4, <2>c DEF PortIsRead
  <2>5. CASE NoPortInTime(s)
    BY <1>1, <2>5, <2>c DEF NoPortInTime, Return
  <2>6. CASE StoreChild(s)
    BY <1>2, <2>6, <2>c DEF StoreChild
  <2>7. CASE StorePort(s)
    <3>1. child = s /\ port' = s /\ UNCHANGED child /\ pc[s] = "port"
          /\ (GoTo(s, "probe") \/ GoTo(s, "done"))
      BY <2>7, <2>c DEF StorePort, Return, InTurn, Halfway
    <3>2. \A d \in Busy' : d = s /\ pc'[d] = "probe"
      BY <2>c, <3>1 DEF GoTo, InTurn, OneAtATime, TypeOK
    <3> QED BY <3>1, <3>2 DEF InTurn, StateAgrees, Halfway
  <2>8. CASE Confirm(s)
    BY <1>1, <2>8, <2>c DEF Confirm, Return
  <2>9. CASE Look(s)
    BY <1>1, <2>9, <2>c DEF Look
  <2> QED BY <1>3, <2>1, <2>2, <2>3, <2>4, <2>5, <2>6, <2>7, <2>8, <2>9 DEF StartRuns
<1>4. ASSUME NEW s \in Starts, Listens(s) \/ Dies(s) PROVE InTurn'
  BY <1>4 DEF Listens, Dies, InTurn, StateAgrees, Halfway
<1>5. ASSUME NEW c \in Calls, StopCalled(c) PROVE InTurn'
  <2>1. UNCHANGED <<child, port>> /\ pc[c] = "idle" /\ pc' = [pc EXCEPT ![c] = "stop"]
    BY <1>5 DEF StopCalled, GoTo
  <2>2. c \in Busy' /\ \A d \in Calls : d # c => pc'[d] = pc[d]
    BY <2>1 DEF TypeOK
  <2>3. Busy = {}
    BY <2>1, <2>2 DEF OneAtATime
  <2>4. port = child
    BY <2>3 DEF InTurn, StateAgrees
  <2>5. \A d \in Busy' : pc'[d] = "stop"
    BY <2>1, <2>2 DEF OneAtATime, TypeOK
  <2> QED BY <2>1, <2>2, <2>4, <2>5 DEF InTurn, StateAgrees, Halfway
<1>6. ASSUME NEW c \in Calls, StopTakes(c) PROVE InTurn'
  BY <1>2, <1>6 DEF StopTakes
<1>7. ASSUME NEW c \in Calls, StopResets(c) PROVE InTurn'
  <2>1. /\ pc[c] = "reset" /\ port' = None /\ UNCHANGED child /\ GoTo(c, "done")
    BY <1>7 DEF StopResets, Return
  <2>2. child = None
    BY <2>1 DEF InTurn, Halfway
  <2> QED BY <1>2, <2>1, <2>2
<1> QED BY <1>3, <1>4, <1>5, <1>6, <1>7 DEF Next, StopRuns

\* A client that waits for each answer always finds the port of the child: the
\* two assignments that a start makes, and the two of a stop, are only ever seen
\* apart by a command that was sent before the answer (start_*_command, stop).
THEOREM PortAgreesInTurn == SpecMC => []AgreeInTurn
<1> DEFINE I == TypeOK /\ (~overlapped => InTurn)
<1>1. InitMC => I
  BY InvInit DEF InitMC, Init, Inv, InTurn, OneAtATime, StateAgrees, Busy, Begun
<1>2. I /\ [NextMC]_<<vars, overlapped>> => I'
  <2> SUFFICES ASSUME I, [NextMC]_<<vars, overlapped>> PROVE I'
    OBVIOUS
  <2>1. TypeOK'
    BY TypeStep DEF NextMC
  <2>2. CASE NextMC
    <3>1. ~overlapped' => ~overlapped /\ OneAtATime'
      BY <2>2 DEF NextMC, OneAtATime
    <3> QED BY <2>1, <2>2, <3>1, InTurnStep DEF NextMC
  <2>3. CASE UNCHANGED <<vars, overlapped>>
    BY <2>1, <2>3 DEF vars, InTurn, OneAtATime, StateAgrees, Halfway, Busy, Begun
  <2> QED BY <2>2, <2>3
<1>3. I => AgreeInTurn
  BY DEF AgreeInTurn, InTurn
<1> QED BY <1>1, <1>2, <1>3, PTL DEF SpecMC
=============================================================================
