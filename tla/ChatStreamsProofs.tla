-------------------------- MODULE ChatStreamsProofs --------------------------
(***************************************************************************)
(* However many chat runs, cancels and closing connections there are, and  *)
(* whatever ids the runs go by: the tables that find a run's process agree *)
(* with each other and with the process, lock by lock.  However many calls *)
(* ask for an agent server: those that run are tracked, and one after the  *)
(* other they never boot two.  However many requests have attachments: an  *)
(* agent finds its own, but for paths in common.                           *)
(***************************************************************************)
EXTENDS MC_ChatStreams, Sequences, TLAPS

\* Between its check and its insert a run holds the lock of cancelled_chats:
\* no cancel can leave a mark that it would overlook.
CheckedIsUnmarked == holder # NoRun => RidOf[holder] \notin cancelled

\* A cancel that is about to stop something has found a run.
FoundIsRun == \A k \in Cancel : cancel[k].pc = "stop" => cancel[k].found \in Run

Inv == /\ TypeOK
       /\ FoundIsRun
       /\ MarkOrProcess
       /\ TrackedOrStopped
       /\ ListedIsUnderway
       /\ CheckedIsUnmarked

-----------------------------------------------------------------------------
\* At first the tables are empty and nothing runs.
LEMMA InvInit == Init => Inv
<1> SUFFICES ASSUME Init PROVE Inv
  OBVIOUS
<1> USE RunsAssumption DEF Init
<1>1. TypeOK
  BY DEF TypeOK, Underway
<1>2. MarkOrProcess /\ TrackedOrStopped /\ ListedIsUnderway
  BY DEF MarkOrProcess, TrackedOrStopped, ListedIsUnderway
<1>3. CheckedIsUnmarked /\ FoundIsRun
  BY DEF CheckedIsUnmarked, FoundIsRun
<1> QED BY <1>1, <1>2, <1>3 DEF Inv

\* A run's own steps keep the invariant.
LEMMA RunKeepsInv ==
  ASSUME Inv, NEW r \in Run, Start(r) \/ RunStep(r)
  PROVE  Inv'
<1> USE RunsAssumption
    DEF Inv, TypeOK, MarkOrProcess, TrackedOrStopped, ListedIsUnderway,
        CheckedIsUnmarked, FoundIsRun, Underway, Goto, tables, signals
<1>1. CASE Start(r)         BY <1>1 DEF Start
<1>2. CASE SetupFails(r)    BY <1>2 DEF SetupFails
<1>3. CASE SpawnChild(r)    BY <1>3 DEF SpawnChild
<1>4. CASE Track(r)         BY <1>4 DEF Track
<1>5. CASE Check(r)         BY <1>5 DEF Check
<1>6. CASE Insert(r)        BY <1>6 DEF Insert
<1>7. CASE StopCondemned(r) BY <1>7 DEF StopCondemned, StopGroups
<1>8. CASE Untrack(r)       BY <1>8 DEF Untrack
<1>9. CASE RemoveProcess(r) BY <1>9 DEF RemoveProcess
<1>10. CASE RemoveMark(r)   BY <1>10 DEF RemoveMark
<1> QED BY <1>1, <1>2, <1>3, <1>4, <1>5, <1>6, <1>7, <1>8, <1>9, <1>10 DEF RunStep, Setup, PastSetup

\* So does a process that ends, by itself or when its two seconds are over.
LEMMA ProcessKeepsInv ==
  ASSUME Inv, NEW r \in Run, ProcessExits(r) \/ KillTimer(r)
  PROVE  Inv'
<1> USE RunsAssumption
    DEF Inv, TypeOK, MarkOrProcess, TrackedOrStopped, ListedIsUnderway,
        CheckedIsUnmarked, FoundIsRun, Underway, tables, signals
<1>1. CASE ProcessExits(r) BY <1>1 DEF ProcessExits
<1>2. CASE KillTimer(r)    BY <1>2 DEF KillTimer
<1> QED BY <1>1, <1>2

\* So do cancels, closing connections and Ctrl+C: who is taken out of the
\* tracker is sent SIGTERM in the same step.
LEMMA OthersKeepInv ==
  ASSUME Inv,
         \/ \E k \in Cancel : CancelStops(k) \/ \E id \in Rid : CancelLooks(k, id)
         \/ \E c \in Conn : Drain(c) \/ StopDrained(c)
         \/ Interrupt
         \/ UNCHANGED vars
  PROVE  Inv'
<1> USE RunsAssumption
    DEF Inv, TypeOK, MarkOrProcess, TrackedOrStopped, ListedIsUnderway,
        CheckedIsUnmarked, FoundIsRun, Underway, tables, signals
<1>1. ASSUME NEW k \in Cancel, CancelStops(k) PROVE Inv'
  BY <1>1 DEF CancelStops, StopGroups
<1>2. ASSUME NEW k \in Cancel, NEW id \in Rid, CancelLooks(k, id) PROVE Inv'
  <2> USE <1>2 DEF CancelLooks
  <2>1. TypeOK' /\ FoundIsRun'
    <3>1. CASE processes[id] = NoRun
      BY <3>1
    <3>2. CASE processes[id] # NoRun
      <4>1. TypeOK'
        BY <3>2
      <4>2. FoundIsRun'
        BY <3>2
      <4> QED BY <4>1, <4>2
    <3> QED BY <3>1, <3>2
  <2>2. MarkOrProcess' /\ TrackedOrStopped' /\ ListedIsUnderway'
    OBVIOUS
  <2>3. CheckedIsUnmarked'
    OBVIOUS
  <2> QED BY <2>1, <2>2, <2>3
<1>3. ASSUME NEW c \in Conn, Drain(c) PROVE Inv'
  BY <1>3 DEF Drain, Listed
<1>4. ASSUME NEW c \in Conn, StopDrained(c) PROVE Inv'
  BY <1>4 DEF StopDrained, StopGroups
<1>5. CASE Interrupt
  BY <1>5 DEF Interrupt
<1>6. CASE UNCHANGED vars
  BY <1>6 DEF vars
<1> QED BY <1>1, <1>2, <1>3, <1>4, <1>5, <1>6

-----------------------------------------------------------------------------
\* A cancel is never left as a mark for a process that could have been found;
\* every agent process is tracked for Ctrl+C or being stopped; and nothing is
\* listed that has been cleaned up (chat_stream, chat_cancel, the close of a
\* connection, ChatProcessTracker).
THEOREM TablesAgree == Spec => []TablesInv
<1>1. Inv /\ [Next]_vars => Inv'
  BY RunKeepsInv, ProcessKeepsInv, OthersKeepInv DEF Next
<1>2. Inv => TablesInv
  BY DEF Inv, TablesInv
<1> QED BY InvInit, <1>1, <1>2, PTL DEF Spec

-----------------------------------------------------------------------------
\* A connection takes runs out of `processes` once, when it closes.
OpenDrainsNothing == \A c \in open : draining[c] = {}
AddressInv == Addressable /\ OpenDrainsNothing

\* If ids are not reused, a run that can be stopped now can be stopped later.
LEMMA StaysAddressable ==
  ASSUME Inv, AddressInv, [Next]_vars
  PROVE  AddressInv'
<1> USE RunsAssumption
    DEF Inv, TypeOK, AddressInv, Addressable, OpenDrainsNothing, RunIds, Goto, tables, signals
<1>1. ASSUME NEW r \in Run, Start(r) \/ RunStep(r) PROVE AddressInv'
  <2>2. CASE Start(r)         BY <2>2 DEF Start
  <2>3. CASE SetupFails(r)    BY <2>3 DEF SetupFails
  <2>4. CASE SpawnChild(r)    BY <2>4 DEF SpawnChild
  <2>5. CASE Track(r)         BY <2>5 DEF Track
  <2>6. CASE Check(r)         BY <2>6 DEF Check
  <2>7. CASE Insert(r)        BY <2>7 DEF Insert
  <2>8. CASE StopCondemned(r) BY <2>8 DEF StopCondemned, StopGroups
  <2>9. CASE Untrack(r)       BY <2>9 DEF Untrack
  <2>10. CASE RemoveProcess(r) BY <2>10 DEF RemoveProcess
  <2>11. CASE RemoveMark(r)   BY <2>11 DEF RemoveMark
  <2> QED BY <1>1, <2>2, <2>3, <2>4, <2>5, <2>6, <2>7, <2>8, <2>9, <2>10, <2>11 DEF RunStep, Setup, PastSetup
<1>2. ASSUME NEW r \in Run, ProcessExits(r) \/ KillTimer(r) PROVE AddressInv'
  BY <1>2 DEF ProcessExits, KillTimer
<1>3. ASSUME NEW k \in Cancel, CancelStops(k) PROVE AddressInv'
  BY <1>3 DEF CancelStops, StopGroups
<1>4. ASSUME NEW k \in Cancel, NEW id \in Rid, CancelLooks(k, id) PROVE AddressInv'
  <2>1. UNCHANGED <<run, proc, open, draining, processes, termed>>
    BY <1>4 DEF CancelLooks
  <2> QED BY <2>1
<1>5. ASSUME NEW c \in Conn, Drain(c) PROVE AddressInv'
  <2>1. OpenDrainsNothing'
    BY <1>5 DEF Drain
  <2>2. ASSUME RunIds, NEW r \in Run, run[r] = "running", proc[r] = "alive"
        PROVE  r \in termed \/ \E d \in Conn : r \in draining'[d]
    <3>1. CASE processes[RidOf[r]] = r
      BY <1>5, <3>1 DEF Drain, Listed
    <3>2. ASSUME NEW d \in Conn, r \in draining[d] PROVE r \in draining'[d]
      BY <1>5, <3>2 DEF Drain
    <3> QED BY <2>2, <3>1, <3>2
  <2>3. UNCHANGED <<run, proc, termed>>
    BY <1>5 DEF Drain
  <2> QED BY <2>1, <2>2, <2>3
<1>6. ASSUME NEW c \in Conn, StopDrained(c) PROVE AddressInv'
  <2>1. UNCHANGED <<run, proc, open, processes>> /\ termed' = termed \cup draining[c]
        /\ draining' = [draining EXCEPT ![c] = {}]
    BY <1>6 DEF StopDrained, StopGroups
  <2> QED BY <2>1
<1>7. CASE Interrupt
  BY <1>7 DEF Interrupt
<1>8. CASE UNCHANGED vars
  BY <1>8 DEF vars
<1> QED BY <1>1, <1>2, <1>3, <1>4, <1>5, <1>6, <1>7, <1>8 DEF Next

\* Whatever connections close and cancels come: a chat run that has not ended is
\* listed under its id, or someone is about to stop it, or has, if ids are not
\* reused ("addressable across websocket reconnects").
THEOREM RunsCanBeStopped == Spec => []Addressable
<1>1. Init => Inv /\ AddressInv
  <2>1. Init => AddressInv
    BY DEF Init, AddressInv, Addressable, OpenDrainsNothing
  <2> QED BY <2>1, InvInit
<1>2. (Inv /\ AddressInv) /\ [Next]_vars => (Inv /\ AddressInv)'
  BY RunKeepsInv, ProcessKeepsInv, OthersKeepInv, StaysAddressable DEF Next
<1>3. AddressInv => Addressable
  BY DEF AddressInv
<1> QED BY <1>1, <1>2, <1>3, PTL DEF Spec

-----------------------------------------------------------------------------
(* The agent servers. *)

\* Until it is inserted a server is in nobody's hands but its call's, and so
\* is the directory that was made for it; a call that reads on may read on.
OwnBoot ==
  \A c \in Call :
    /\ pc[c] # "done" => server # c /\ answer[c] = None
    /\ pc[c] \notin {"giveUp", "insert", "done"} => lines[c] < BANNER
    /\ pc[c] \in {"track", "banner", "giveUp", "insert"} => dir[c] = "made"

ServInv == A!TypeOK /\ A!ShutdownReachesServers /\ A!ListedHasItsDirectory /\ OwnBoot

\* At first there is no server.
LEMMA ServInvInit == A!Init => ServInv
  BY PartsAssumption
  DEF A!AgentAssumption, A!Init, ServInv, A!TypeOK, A!ShutdownReachesServers,
      A!ListedHasItsDirectory, OwnBoot

\* Every step of a call keeps the invariant.
LEMMA EnsureStep ==
  ASSUME ServInv, NEW c \in Call, A!Ensure(c)
  PROVE  ServInv'
<1> USE PartsAssumption
        DEF A!AgentAssumption, ServInv, A!TypeOK, A!ShutdownReachesServers,
            A!ListedHasItsDirectory, OwnBoot, A!GoTo, A!Return, A!trackerVars
<1>1. CASE A!Reuse(c)      BY <1>1 DEF A!Reuse
<1>2. CASE A!Miss(c)       BY <1>2 DEF A!Miss
<1>3. CASE A!Remove(c)     BY <1>3 DEF A!Remove, A!DropHandle
<1>4. CASE A!Boot(c)       BY <1>4 DEF A!Boot
<1>5. CASE A!Track(c)      BY <1>5 DEF A!Track
<1>6. CASE A!ReadLine(c)
  <2>1. lines[c] + 1 \in 0..BANNER
    BY <1>6 DEF A!ReadLine
  <2> QED BY <1>6, <2>1 DEF A!ReadLine
<1>7. CASE A!ReadBanner(c) BY <1>7 DEF A!ReadBanner
<1>8. CASE A!ReadEof(c)    BY <1>8 DEF A!ReadEof
<1>9. CASE A!ReadFails(c)  BY <1>9 DEF A!ReadFails
<1>10. CASE A!GiveUp(c)    BY <1>10 DEF A!GiveUp, A!Alive
<1>11. CASE A!Insert(c)    BY <1>11 DEF A!Insert, A!DropHandle
<1> QED BY <1>1, <1>2, <1>3, <1>4, <1>5, <1>6, <1>7, <1>8, <1>9, <1>10, <1>11 DEF A!Ensure

\* So does what the servers and the signal handler do.
LEMMA ServersStep ==
  ASSUME ServInv, A!Next
  PROVE  ServInv'
<1> USE PartsAssumption
        DEF A!AgentAssumption, ServInv, A!TypeOK, A!ShutdownReachesServers,
            A!ListedHasItsDirectory, OwnBoot, A!trackerVars
<1>1. ASSUME NEW c \in Call, A!Writes(c) PROVE ServInv'
  BY <1>1 DEF A!Writes
<1>2. ASSUME NEW c \in Call, A!Dies(c) PROVE ServInv'
  BY <1>2 DEF A!Dies, A!Alive
<1>3. CASE A!KillAll
  BY <1>3 DEF A!KillAll, A!Alive
<1> HIDE DEF ServInv
<1> QED BY <1>1, <1>2, <1>3, EnsureStep DEF A!Next

\* kill_all, which Ctrl+C runs, finds every agent server that was spawned and
\* not given up, and a listed one has the directory its runs start in, however
\* many calls overlap (AgentServerManager::ensure_server, ChatProcessTracker).
THEOREM ServersAreTracked == SpecMC => []ServersInv
<1>1. InitMC => ServInv
  BY ServInvInit DEF InitMC
<1>2. ServInv /\ [NextMC]_all => ServInv'
  <2>1. ASSUME ServInv, UNCHANGED serverVars PROVE ServInv'
    BY <2>1 DEF serverVars, ServInv, A!TypeOK, A!ShutdownReachesServers,
                A!ListedHasItsDirectory, OwnBoot
  <2> QED BY <2>1, ServersStep DEF NextMC, NextServers, all
<1>3. ServInv => ServersInv
  BY DEF ServInv, ServersInv, A!ServersInv
<1> QED BY <1>1, <1>2, <1>3, PTL DEF SpecMC

\* When calls come one after the other, a server that serves is the table's, and
\* a call that has found none, or a dead one, boots into an empty table.
OneCall == \A c, d \in Call : A!Begun(c) /\ A!Begun(d) => c = d
ServerIsListed == \A c \in Call : A!Serves(c) => server = c
FoundNone ==
  \A c \in Call :
    /\ pc[c] = "remove" => (server # None => ~A!Alive(server))
    /\ pc[c] \in {"boot", "track", "banner", "giveUp", "insert"} => server = None
CallsInTurn == OneCall /\ ServerIsListed /\ FoundNone

LEMMA CallsInTurnStep ==
  ASSUME ServInv, CallsInTurn, A!Next, OneCall'
  PROVE  CallsInTurn'
<1> SUFFICES ServerIsListed' /\ FoundNone'
  BY DEF CallsInTurn
<1> USE PartsAssumption
        DEF A!AgentAssumption, ServInv, A!TypeOK, OwnBoot, CallsInTurn, OneCall,
            ServerIsListed, FoundNone, A!Begun, A!Serves, A!Alive, A!GoTo, A!Return
<1>1. ASSUME NEW c \in Call, A!Reuse(c) PROVE ServerIsListed' /\ FoundNone'
  BY <1>1 DEF A!Reuse
<1>2. ASSUME NEW c \in Call, A!Miss(c) PROVE ServerIsListed' /\ FoundNone'
  BY <1>2 DEF A!Miss
<1>3. ASSUME NEW c \in Call, A!Remove(c) PROVE ServerIsListed' /\ FoundNone'
  BY <1>3 DEF A!Remove
<1>4. ASSUME NEW c \in Call, A!Boot(c) PROVE ServerIsListed' /\ FoundNone'
  BY <1>4 DEF A!Boot
<1>5. ASSUME NEW c \in Call, A!Track(c) PROVE ServerIsListed' /\ FoundNone'
  BY <1>5 DEF A!Track
<1>6. ASSUME NEW c \in Call, A!ReadLine(c) PROVE ServerIsListed' /\ FoundNone'
  BY <1>6 DEF A!ReadLine
<1>7. ASSUME NEW c \in Call, A!ReadBanner(c) \/ A!ReadEof(c)
      PROVE  ServerIsListed' /\ FoundNone'
  BY <1>7 DEF A!ReadBanner, A!ReadEof
<1>8. ASSUME NEW c \in Call, A!ReadFails(c) PROVE ServerIsListed' /\ FoundNone'
  BY <1>8 DEF A!ReadFails
<1>9. ASSUME NEW c \in Call, A!GiveUp(c) PROVE ServerIsListed' /\ FoundNone'
  BY <1>9 DEF A!GiveUp
<1>10. ASSUME NEW c \in Call, A!Insert(c) PROVE ServerIsListed' /\ FoundNone'
  BY <1>10 DEF A!Insert
<1>11. ASSUME NEW c \in Call, A!Writes(c) \/ A!Dies(c) PROVE ServerIsListed' /\ FoundNone'
  BY <1>11 DEF A!Writes, A!Dies
<1>12. CASE A!KillAll
  BY <1>12 DEF A!KillAll
<1> QED
  BY <1>1, <1>2, <1>3, <1>4, <1>5, <1>6, <1>7, <1>8, <1>9, <1>10, <1>11, <1>12
     DEF A!Next, A!Ensure

\* As long as nobody asks for a server while another call is under way there is
\* one at a time, and it keeps its directory (ensure_server's three locks).
THEOREM OneServerAtATime == SpecMC => []OneServerInTurn
<1> DEFINE I == ServInv /\ (~overlapped => CallsInTurn)
<1>1. InitMC => I
  BY ServInvInit DEF InitMC, A!Init, CallsInTurn, OneCall, ServerIsListed, FoundNone,
     A!Begun, A!Serves
<1>2. I /\ [NextMC]_all => I'
  <2>1. ASSUME I, UNCHANGED serverVars PROVE I'
    BY <2>1 DEF serverVars, ServInv, A!TypeOK, A!ShutdownReachesServers,
       A!ListedHasItsDirectory, OwnBoot, CallsInTurn, OneCall, ServerIsListed, FoundNone,
       A!Begun, A!Serves, A!Alive
  <2>2. ASSUME I, NextServers PROVE I'
    <3>1. ~overlapped' => ~overlapped /\ OneCall'
      BY <2>2 DEF NextServers, OneCall
    <3>2. ServInv'
      BY <2>2, ServersStep DEF NextServers
    <3> QED BY <2>2, <3>1, <3>2, CallsInTurnStep DEF NextServers
  <2> QED BY <2>1, <2>2 DEF NextMC, all
<1>3. I => OneServerInTurn
  BY PartsAssumption
     DEF A!AgentAssumption, ServInv, OneServerInTurn, A!OneServer, A!DirectoryOutlivesServer,
     A!ListedHasItsDirectory, CallsInTurn, ServerIsListed, A!Serves
<1> QED BY <1>1, <1>2, <1>3, PTL DEF SpecMC

-----------------------------------------------------------------------------
(* The attachments. *)

\* nio writes a file for each of its attachments, runs that have a path in
\* common know of each other, and only such runs touch each other's files.
NioIsText ==
  \A r \in Run : F!Underway(request[r]) /\ request[r].nio =>
    \A i \in 1..Len(request[r].list) : request[r].list[i].kind = "text"
ClashMarks ==
  \A r, s \in Run :
    /\ r # s /\ F!Underway(request[r]) /\ F!Underway(request[s])
    /\ F!Plan(request[r]) \cap F!Plan(request[s]) # {}
    => r \in clash
FilesKept == \A r \in Run : F!Underway(request[r]) /\ r \notin clash => F!Found(r)

AttInv == F!TypeOK /\ NioIsText /\ ClashMarks /\ FilesKept /\ F!NoneIsLeft

\* What has been written was planned, and so is the next file.
LEMMA WrittenIsPlanned ==
  ASSUME NEW q
  PROVE  /\ F!Written(q) \subseteq F!Plan(q)
         /\ \A i \in F!Indices(q) : F!Path(q, i) \in F!Plan(q)
BY DEF F!Written, F!Plan, F!Indices

\* Another attachment is dealt with.
LEMMA NextWritten ==
  ASSUME F!TypeOK, NEW r \in Run, request[r].next <= Len(request[r].list),
         NEW q, q = [request[r] EXCEPT !.next = @ + 1]
  PROVE  LET n == request[r].next
             p == F!Path(request[r], n)
         IN  /\ F!Plan(q) = F!Plan(request[r])
             /\ n \in F!Indices(request[r]) <=> request[r].list[n].kind # "reference"
             /\ F!Written(q) = F!Written(request[r]) \cup
                                 (IF n \in F!Indices(request[r]) THEN {p} ELSE {})
<1> DEFINE o == request[r]
           n == o.next
           p == F!Path(o, n)
<1>1. /\ o.list \in Lists \cup {<<>>} /\ n \in Nat \ {0}
      /\ q.nio = o.nio /\ q.nonce = o.nonce /\ q.list = o.list /\ q.next = n + 1
  BY DEF F!TypeOK
<1> DEFINE S == [name : Name, kind : F!Kind]
<1>2. o.list \in Seq(S)
  <2>1. Lists \subseteq Seq(S)
    BY PartsAssumption DEF F!AttachmentsAssumption
  <2> HIDE DEF S
  <2>2. <<>> \in Seq(S)
    OBVIOUS
  <2> QED BY <1>1, <2>1, <2>2
<1> HIDE DEF S
<1>3. Len(o.list) \in Nat /\ n \in 1..Len(o.list)
  BY <1>1, <1>2
<1>4. F!Indices(q) = F!Indices(o) /\ \A i : F!Path(q, i) = F!Path(o, i)
  BY <1>1 DEF F!Indices, F!Path
<1>5. F!Plan(q) = F!Plan(o)
  BY <1>4 DEF F!Plan
<1>6. n \in F!Indices(o) <=> o.list[n].kind # "reference"
  BY <1>3 DEF F!Indices
<1>7. \A j \in F!Indices(o) : j < n + 1 <=> j < n \/ j = n
  BY <1>1, <1>3 DEF F!Indices
<1>8. {j \in F!Indices(q) : j < q.next} =
        {j \in F!Indices(o) : j < n} \cup (IF n \in F!Indices(o) THEN {n} ELSE {})
  BY <1>1, <1>4, <1>7
<1> HIDE DEF o, n, p
<1>9. F!Written(q) = F!Written(o) \cup (IF n \in F!Indices(o) THEN {p} ELSE {})
  BY <1>4, <1>8 DEF F!Written, n, p
<1> QED BY <1>5, <1>6, <1>9 DEF o, n, p

\* A step of a run that is under way touches nobody's files but its own and
\* those of runs that have one in common with it.
LEMMA OwnFilesOnly ==
  ASSUME AttInv, NEW r \in Run, F!Underway(request[r]), UNCHANGED clash,
         \A s \in Run \ {r} : request'[s] = request[s],
         F!Underway(request'[r]) =>
           /\ F!Plan(request'[r]) = F!Plan(request[r])
           /\ request'[r].nio = request[r].nio /\ request'[r].list = request[r].list
           /\ r \notin clash => F!Found(r)',
         \A p : p \notin F!Plan(request[r]) =>
           /\ p \in DOMAIN files' <=> p \in DOMAIN files
           /\ p \in DOMAIN files => files'[p] = files[p],
         leaked \subseteq leaked',
         \A p \in DOMAIN files' :
           \/ p \in DOMAIN files /\ p \notin F!Written(request[r])
           \/ p \in leaked'
           \/ F!Underway(request'[r]) /\ p \in F!Written(request'[r])
  PROVE  (NioIsText /\ ClashMarks /\ FilesKept /\ F!NoneIsLeft)'
<1>1. NioIsText'
  BY DEF AttInv, NioIsText
<1>2. ClashMarks'
  BY DEF AttInv, ClashMarks
<1>3. ASSUME NEW s \in Run, s # r, F!Underway(request[s]), s \notin clash
      PROVE  F!Found(s)'
  <2>1. F!Found(s) /\ F!Plan(request[s]) \cap F!Plan(request[r]) = {}
    BY <1>3 DEF AttInv, ClashMarks, FilesKept
  <2>2. \A p \in F!Written(request[s]) : p \notin F!Plan(request[r])
    BY <2>1, WrittenIsPlanned
  <2>3. request'[s] = request[s]
    BY <1>3
  <2> QED BY <2>1, <2>2, <2>3 DEF F!Found
<1>4. FilesKept'
  BY <1>3 DEF FilesKept
<1>5. F!NoneIsLeft'
  <2>1. ASSUME NEW p \in DOMAIN files', p \in DOMAIN files, p \notin F!Written(request[r])
        PROVE  p \in leaked' \/ \E s \in Run : F!Underway(request'[s]) /\ p \in F!Written(request'[s])
    <3>1. CASE p \in leaked
      BY <3>1
    <3>2. CASE p \notin leaked
      <4>1. PICK s \in Run : F!Underway(request[s]) /\ p \in F!Written(request[s])
        BY <2>1, <3>2 DEF AttInv, F!NoneIsLeft
      <4>2. s # r
        BY <2>1, <4>1
      <4> QED BY <4>1, <4>2
    <3> QED BY <3>1, <3>2
  <2> QED BY <2>1 DEF F!NoneIsLeft
<1> QED BY <1>1, <1>2, <1>4, <1>5

\* A request that comes in shares paths only with runs that it tells so.
LEMMA StartKept ==
  ASSUME AttInv, NEW r \in Run, F!Start(r)
  PROVE  AttInv'
<1>t. F!TypeOK /\ request[r].at = "new" /\ UNCHANGED <<files, leaked>>
  BY DEF AttInv, F!Start
<1>1. CASE F!Goes(r, "failed") /\ UNCHANGED clash
  <2>1. F!TypeOK'
    BY <1>t, <1>1 DEF F!TypeOK, F!Goes
  <2>2. /\ \A s \in Run : F!Underway(request'[s]) => s # r /\ request'[s] = request[s]
        /\ \A s \in Run : F!Underway(request[s]) => s # r /\ request'[s] = request[s]
    BY <1>t, <1>1 DEF F!TypeOK, F!Goes, F!Underway
  <2>3. NioIsText'
    BY <2>2 DEF AttInv, NioIsText
  <2>4. ClashMarks'
    BY <1>1, <2>2 DEF AttInv, ClashMarks
  <2>5. FilesKept'
    BY <1>t, <1>1, <2>2 DEF AttInv, FilesKept, F!Found
  <2>6. F!NoneIsLeft'
    BY <1>t, <2>2 DEF AttInv, F!NoneIsLeft
  <2> QED BY <2>1, <2>3, <2>4, <2>5, <2>6 DEF AttInv
<1>3. PICK nio \in BOOLEAN, n \in Nonce, l \in Lists :
        LET q == [at |-> "writes", nio |-> nio, nonce |-> n, list |-> l, next |-> 1]
            met == {s \in Run : F!Underway(request[s]) /\ F!Plan(request[s]) \cap F!Plan(q) # {}}
        IN  IF nio /\ F!TooMuch(q)
            THEN F!Goes(r, "failed") /\ UNCHANGED clash
            ELSE /\ request' = [request EXCEPT ![r] = q]
                 /\ clash' = clash \cup met \cup (IF met = {} THEN {} ELSE {r})
  BY ZenonT(90) DEF F!Start
<1> DEFINE q == [at |-> "writes", nio |-> nio, nonce |-> n, list |-> l, next |-> 1]
           met == {s \in Run : F!Underway(request[s]) /\ F!Plan(request[s]) \cap F!Plan(q) # {}}
<1>4. CASE nio /\ F!TooMuch(q)
  BY <1>1, <1>3, <1>4
<1>5. CASE ~(nio /\ F!TooMuch(q))
  <2>a. /\ request' = [request EXCEPT ![r] = q]
        /\ clash' = clash \cup met \cup (IF met = {} THEN {} ELSE {r})
    BY <1>3, <1>5
  <2>b. /\ q = [at |-> "writes", nio |-> nio, nonce |-> n, list |-> l, next |-> 1]
        /\ met = {s \in Run : F!Underway(request[s]) /\ F!Plan(request[s]) \cap F!Plan(q) # {}}
    OBVIOUS
  <2> HIDE DEF q, met
  <2>1. F!TypeOK'
    BY <1>t, <1>5, <2>a, <2>b DEF F!TypeOK
  <2>2. request'[r] = q /\ F!Underway(q) /\ \A s \in Run \ {r} : request'[s] = request[s]
    BY <1>t, <1>5, <2>a, <2>b DEF F!TypeOK, F!Underway
  <2>3. F!Written(q) = {}
    <3>1. \A i \in F!Indices(q) : ~(i < q.next)
      BY <1>5, <2>a, <2>b DEF F!Indices
    <3> QED BY <3>1 DEF F!Written
  <2>4. NioIsText'
    <3>1. nio => \A i \in 1..Len(q.list) : q.list[i].kind = "text"
      BY <1>5, <2>a, <2>b DEF F!TooMuch
    <3> QED BY <1>5, <2>a, <2>b, <2>2, <3>1 DEF AttInv, NioIsText
  <2>5. ClashMarks'
    <3>1. ASSUME NEW a \in Run, NEW b \in Run, a # b, F!Underway(request'[a]),
                 F!Underway(request'[b]), F!Plan(request'[a]) \cap F!Plan(request'[b]) # {}
          PROVE  a \in clash'
      <4>1. CASE a # r /\ b # r
        BY <1>5, <2>a, <2>b, <2>2, <3>1, <4>1 DEF AttInv, ClashMarks
      <4>2. CASE a = r
        <5>1. b \in met
          BY <1>5, <2>a, <2>b, <2>2, <3>1, <4>2
        <5> QED BY <1>5, <2>a, <2>b, <4>2, <5>1
      <4>3. CASE b = r
        <5>1. a \in met
          BY <1>5, <2>a, <2>b, <2>2, <3>1, <4>3
        <5> QED BY <1>5, <2>a, <2>b, <5>1
      <4> QED BY <4>1, <4>2, <4>3
    <3> QED BY <3>1 DEF ClashMarks
  <2>6. FilesKept'
    BY <1>t, <1>5, <2>a, <2>b, <2>2, <2>3 DEF AttInv, FilesKept, F!Found
  <2>7. F!NoneIsLeft'
    <3>1. ~F!Underway(request[r])
      BY <1>t DEF F!Underway
    <3> QED BY <1>t, <2>2, <3>1 DEF AttInv, F!NoneIsLeft
  <2> QED BY <2>1, <2>4, <2>5, <2>6, <2>7 DEF AttInv
<1> QED BY <1>4, <1>5

\* What a file is written to, and what is removed.
LEMMA PutFile ==
  ASSUME NEW p, NEW r, F!Put(p, r)
  PROVE  /\ DOMAIN files' = DOMAIN files \cup {p} /\ files'[p] = r
         /\ \A o \in DOMAIN files \ {p} : files'[o] = files[o]
BY DEF F!Put

LEMMA RemovedFiles ==
  ASSUME NEW S, F!Removes(S)
  PROVE  DOMAIN files' = DOMAIN files \ S /\ \A p \in DOMAIN files' : files'[p] = files[p]
BY DEF F!Removes

\* A file more.
LEMMA WriteKept ==
  ASSUME AttInv, NEW r \in Run, F!WriteFile(r) \/ F!CreateFile(r) \/ F!SkipReference(r)
  PROVE  AttInv'
<1> DEFINE o == request[r]
           q == [o EXCEPT !.next = @ + 1]
           p == F!Path(o, o.next)
<1>t. F!TypeOK
  BY DEF AttInv
<1>1. /\ o.at = "writes" /\ o.next <= Len(o.list) /\ UNCHANGED <<clash, leaked>>
      /\ request' = [request EXCEPT ![r] = q]
  BY DEF F!WriteFile, F!CreateFile, F!SkipReference, F!Writes
<1>2. /\ F!Plan(q) = F!Plan(o)
      /\ o.next \in F!Indices(o) <=> o.list[o.next].kind # "reference"
      /\ F!Written(q) = F!Written(o) \cup (IF o.next \in F!Indices(o) THEN {p} ELSE {})
  BY <1>t, <1>1, NextWritten
<1>3. /\ request'[r] = q /\ q.at = "writes" /\ q.nio = o.nio /\ q.list = o.list
      /\ \A s \in Run \ {r} : request'[s] = request[s]
  BY <1>t, <1>1 DEF F!TypeOK
<1>4. request' \in [Run -> [at : {"new", "writes", "written", "runs", "done", "failed"},
                      nio : BOOLEAN, nonce : Nonce, list : Lists \cup {<<>>}, next : Nat \ {0}]]
  <2>1. o.next + 1 \in Nat \ {0}
    BY <1>t DEF F!TypeOK
  <2> QED BY <1>t, <1>1, <2>1 DEF F!TypeOK
<1>5. F!Underway(o) /\ F!Underway(q)
  BY <1>1, <1>3 DEF F!Underway
<1>6. CASE UNCHANGED files /\ o.next \notin F!Indices(o)
  <2>1. F!TypeOK'
    BY <1>t, <1>1, <1>4, <1>6 DEF F!TypeOK
  <2>2. r \notin clash => F!Found(r)'
    BY <1>2, <1>3, <1>5, <1>6 DEF AttInv, FilesKept, F!Found
  <2> HIDE DEF o, q, p
  <2>3. (NioIsText /\ ClashMarks /\ FilesKept /\ F!NoneIsLeft)'
    BY <1>1, <1>2, <1>3, <1>5, <1>6, <2>2, OwnFilesOnly DEF o
  <2> QED BY <2>1, <2>3 DEF AttInv
<1>7. CASE F!Put(p, r) /\ o.next \in F!Indices(o)
  <2>1. /\ DOMAIN files' = DOMAIN files \cup {p} /\ files'[p] = r
        /\ \A x \in DOMAIN files \ {p} : files'[x] = files[x]
    BY <1>7, PutFile
  <2>2. F!TypeOK'
    BY <1>t, <1>1, <1>4, <2>1 DEF F!TypeOK
  <2>3. r \notin clash => F!Found(r)'
    BY <1>2, <1>3, <1>5, <1>7, <2>1 DEF AttInv, FilesKept, F!Found
  <2>4. p \in F!Plan(o)
    BY <1>7, WrittenIsPlanned
  <2>5. \A x \in DOMAIN files' : \/ x \in DOMAIN files /\ x \notin F!Written(o)
                                 \/ x \in F!Written(q)
    BY <1>2, <1>7, <2>1
  <2> HIDE DEF o, q, p
  <2>6. (NioIsText /\ ClashMarks /\ FilesKept /\ F!NoneIsLeft)'
    BY <1>1, <1>2, <1>3, <1>5, <2>1, <2>3, <2>4, <2>5, OwnFilesOnly DEF o
  <2> QED BY <2>2, <2>6 DEF AttInv
<1>8. CASE F!SkipReference(r)
  BY <1>2, <1>6, <1>8 DEF F!SkipReference
<1>9. CASE F!WriteFile(r)
  BY <1>2, <1>7, <1>9 DEF F!WriteFile
<1>10. CASE F!CreateFile(r)
  <2>1. o.list[o.next].kind = "text"
    <3>1. o.nio
      BY <1>10 DEF F!CreateFile, F!Writes
    <3>2. o.next \in 1..Len(o.list)
      <4>1. o.next \in Nat \ {0}
        BY <1>t DEF F!TypeOK
      <4> QED BY <1>1, <4>1
    <3> QED BY <1>5, <3>1, <3>2 DEF AttInv, NioIsText
  <2> QED BY <1>2, <1>7, <1>10, <2>1 DEF F!CreateFile
<1> QED BY <1>8, <1>9, <1>10

\* A run comes to another place: its list, and what it has written, stay.
LEMMA GoesKept ==
  ASSUME F!TypeOK, NEW r \in Run,
         NEW at \in {"new", "writes", "written", "runs", "done", "failed"}, F!Goes(r, at)
  PROVE  /\ request' \in [Run -> [at : {"new", "writes", "written", "runs", "done", "failed"},
                      nio : BOOLEAN, nonce : Nonce, list : Lists \cup {<<>>}, next : Nat \ {0}]]
         /\ \A s \in Run \ {r} : request'[s] = request[s]
         /\ request'[r].at = at /\ request'[r].nio = request[r].nio
         /\ request'[r].list = request[r].list
         /\ F!Plan(request'[r]) = F!Plan(request[r])
         /\ F!Written(request'[r]) = F!Written(request[r])
<1>1. request' = [request EXCEPT ![r].at = at]
  BY DEF F!Goes
<1>2. /\ request' \in [Run -> [at : {"new", "writes", "written", "runs", "done", "failed"},
                      nio : BOOLEAN, nonce : Nonce, list : Lists \cup {<<>>}, next : Nat \ {0}]]
      /\ \A s \in Run \ {r} : request'[s] = request[s]
  BY <1>1 DEF F!TypeOK
<1> DEFINE o == request[r]
           q == [o EXCEPT !.at = at]
<1>3. /\ request'[r] = q /\ q.at = at /\ q.nio = o.nio /\ q.list = o.list /\ q.next = o.next
      /\ q.nonce = o.nonce
  BY <1>1 DEF F!TypeOK
<1> HIDE DEF o, q
<1>4. F!Indices(q) = F!Indices(o) /\ \A i : F!Path(q, i) = F!Path(o, i)
  BY <1>3 DEF F!Indices, F!Path
<1>5. F!Plan(q) = F!Plan(o) /\ F!Written(q) = F!Written(o)
  BY <1>3, <1>4 DEF F!Plan, F!Written
<1> QED BY <1>2, <1>3, <1>5 DEF o

\* What is written next was planned: nio has no references.
LEMMA NextIsPlanned ==
  ASSUME AttInv, NEW r \in Run, F!Writes(r, request[r].nio),
         request[r].nio \/ request[r].list[request[r].next].kind # "reference"
  PROVE  F!Path(request[r], request[r].next) \in F!Plan(request[r])
<1>1. request[r].at = "writes" /\ request[r].next <= Len(request[r].list)
  BY DEF F!Writes
<1>2. request[r].next \in 1..Len(request[r].list)
  <2>1. request[r].next \in Nat \ {0}
    BY DEF AttInv, F!TypeOK
  <2>2. request[r].list \in Lists \cup {<<>>}
    BY DEF AttInv, F!TypeOK
  <2> DEFINE S == [name : Name, kind : F!Kind]
  <2>3. Lists \subseteq Seq(S)
    BY PartsAssumption DEF F!AttachmentsAssumption
  <2> HIDE DEF S
  <2>4. <<>> \in Seq(S)
    OBVIOUS
  <2>5. request[r].list \in Seq(S)
    BY <2>2, <2>3, <2>4
  <2>6. Len(request[r].list) \in Nat
    BY <2>5
  <2> QED BY <1>1, <2>1, <2>6
<1>3. request[r].list[request[r].next].kind # "reference"
  BY <1>1, <1>2 DEF AttInv, NioIsText, F!Underway
<1>4. request[r].next \in F!Indices(request[r])
  BY <1>2, <1>3 DEF F!Indices
<1> QED BY <1>4, WrittenIsPlanned

\* A run that ends its files takes them away, or leaves them as leaked.
LEMMA LeaveKept ==
  ASSUME AttInv, NEW r \in Run,
         F!WriteFails(r) \/ F!CreateFails(r) \/ F!SetupFails(r) \/ F!Finish(r)
  PROVE  AttInv'
<1> DEFINE o == request[r]
           p == F!Path(o, o.next)
<1>t. F!TypeOK
  BY DEF AttInv
<1>1. UNCHANGED clash /\ F!Underway(o) /\ (F!Goes(r, "failed") \/ F!Goes(r, "done"))
  BY DEF F!WriteFails, F!CreateFails, F!SetupFails, F!Finish, F!Writes, F!Underway
<1>2. /\ request' \in [Run -> [at : {"new", "writes", "written", "runs", "done", "failed"},
                      nio : BOOLEAN, nonce : Nonce, list : Lists \cup {<<>>}, next : Nat \ {0}]]
      /\ \A s \in Run \ {r} : request'[s] = request[s]
      /\ ~F!Underway(request'[r])
  BY <1>t, <1>1, GoesKept DEF F!Underway
<1>3. SUFFICES
        /\ \A x : x \notin F!Plan(o) =>
             /\ x \in DOMAIN files' <=> x \in DOMAIN files
             /\ x \in DOMAIN files => files'[x] = files[x]
        /\ leaked \subseteq leaked'
        /\ \A x \in DOMAIN files' : files'[x] \in Run
        /\ \A x \in DOMAIN files' : (x \in DOMAIN files /\ x \notin F!Written(o)) \/ x \in leaked'
  <2> HIDE DEF o, p
  <2>1. (NioIsText /\ ClashMarks /\ FilesKept /\ F!NoneIsLeft)'
    BY <1>1, <1>2, <1>3, OwnFilesOnly DEF o
  <2>2. F!TypeOK'
    BY <1>t, <1>1, <1>2, <1>3 DEF F!TypeOK
  <2> QED BY <2>1, <2>2 DEF AttInv
<1>4. F!Written(o) \subseteq F!Plan(o)
  BY WrittenIsPlanned
<1>5. ASSUME NEW S, S \subseteq F!Plan(o), F!Written(o) \subseteq S, F!Removes(S), UNCHANGED leaked
      PROVE  /\ \A x : x \notin F!Plan(o) =>
                  /\ x \in DOMAIN files' <=> x \in DOMAIN files
                  /\ x \in DOMAIN files => files'[x] = files[x]
             /\ leaked \subseteq leaked'
             /\ \A x \in DOMAIN files' : files'[x] \in Run
             /\ \A x \in DOMAIN files' : (x \in DOMAIN files /\ x \notin F!Written(o)) \/ x \in leaked'
  <2>1. DOMAIN files' = DOMAIN files \ S /\ \A x \in DOMAIN files' : files'[x] = files[x]
    BY <1>5, RemovedFiles
  <2>2. \A x \in DOMAIN files : files[x] \in Run
    BY <1>t DEF F!TypeOK
  <2> HIDE DEF o, p
  <2> QED BY <1>5, <2>1, <2>2
<1>6. CASE F!SetupFails(r) \/ F!Finish(r)
  <2>1. F!Removes(F!Written(o)) /\ UNCHANGED leaked
    BY <1>6 DEF F!SetupFails, F!Finish
  <2> QED BY <1>4, <1>5, <2>1
<1>7. CASE F!CreateFails(r)
  <2>1. F!Removes(F!Written(o) \cup {p}) /\ UNCHANGED leaked
    BY <1>7 DEF F!CreateFails
  <2>2. p \in F!Plan(o)
    BY <1>7, NextIsPlanned DEF F!CreateFails, F!Writes
  <2> HIDE DEF o, p
  <2> QED BY <1>4, <1>5, <2>1, <2>2
<1>8. CASE F!WriteFails(r)
  <2>1. CASE UNCHANGED files /\ leaked' = leaked \cup F!Written(o)
    BY <1>t, <2>1 DEF F!TypeOK
  <2>2. CASE F!Put(p, r) /\ o.list[o.next].kind \in {"text", "blob"}
             /\ leaked' = leaked \cup F!Written(o) \cup {p}
    <3>1. p \in F!Plan(o)
      BY <1>8, <2>2, NextIsPlanned DEF F!WriteFails, F!Writes
    <3>2. /\ DOMAIN files' = DOMAIN files \cup {p} /\ files'[p] = r
          /\ \A x \in DOMAIN files \ {p} : files'[x] = files[x]
      BY <2>2, PutFile
    <3>3. \A x \in DOMAIN files : files[x] \in Run
      BY <1>t DEF F!TypeOK
    <3> HIDE DEF o, p
    <3> QED BY <2>2, <3>1, <3>2, <3>3
  <2> QED BY <1>8, <2>1, <2>2 DEF F!WriteFails
<1> QED BY <1>6, <1>7, <1>8

\* All of it is written, or the agent is started: the files stay.
LEMMA PassKept ==
  ASSUME AttInv, NEW r \in Run, F!AllWritten(r) \/ F!Spawn(r)
  PROVE  AttInv'
<1> DEFINE o == request[r]
<1>t. F!TypeOK
  BY DEF AttInv
<1>1. /\ UNCHANGED <<files, clash, leaked>> /\ F!Underway(o)
      /\ F!Goes(r, "written") \/ F!Goes(r, "runs")
  BY DEF F!AllWritten, F!Spawn, F!Underway
<1>2. /\ request' \in [Run -> [at : {"new", "writes", "written", "runs", "done", "failed"},
                      nio : BOOLEAN, nonce : Nonce, list : Lists \cup {<<>>}, next : Nat \ {0}]]
      /\ \A s \in Run \ {r} : request'[s] = request[s]
      /\ F!Underway(request'[r]) /\ request'[r].nio = o.nio /\ request'[r].list = o.list
      /\ F!Plan(request'[r]) = F!Plan(o) /\ F!Written(request'[r]) = F!Written(o)
  BY <1>t, <1>1, GoesKept DEF F!Underway
<1>3. F!TypeOK'
  BY <1>t, <1>1, <1>2 DEF F!TypeOK
<1>4. r \notin clash => F!Found(r)'
  BY <1>1, <1>2 DEF AttInv, FilesKept, F!Found
<1> HIDE DEF o
<1>5. (NioIsText /\ ClashMarks /\ FilesKept /\ F!NoneIsLeft)'
  BY <1>1, <1>2, <1>4, OwnFilesOnly DEF o
<1> QED BY <1>3, <1>5 DEF AttInv

\* An agent finds its files as they were sent unless another run had a path in
\* common with it, and what is left in the directory is known: for every number
\* of runs, every list of attachments and every clock.
THEOREM AttachmentsAreKept == SpecMC => []AttachmentsInv
<1>1. InitMC => AttInv
  <2> SUFFICES ASSUME F!Init PROVE AttInv
    BY DEF InitMC
  <2>1. F!AnyNonce \in Nonce
    BY PartsAssumption DEF F!AttachmentsAssumption, F!AnyNonce
  <2>2. DOMAIN files = {}
    BY DEF F!Init
  <2>3. F!TypeOK
    BY <2>1, <2>2 DEF F!Init, F!TypeOK
  <2>4. \A r \in Run : ~F!Underway(request[r])
    BY DEF F!Init, F!Underway
  <2> QED BY <2>2, <2>3, <2>4 DEF AttInv, NioIsText, ClashMarks, FilesKept, F!NoneIsLeft
<1>2. AttInv /\ [NextMC]_all => AttInv'
  <2>1. ASSUME AttInv, UNCHANGED fileVars PROVE AttInv'
    BY <2>1 DEF fileVars, AttInv, F!TypeOK, NioIsText, ClashMarks, FilesKept, F!NoneIsLeft, F!Found
  <2>2. ASSUME AttInv, F!Next PROVE AttInv'
    BY <2>2, StartKept, WriteKept, LeaveKept, PassKept DEF F!Next
  <2> QED BY <2>1, <2>2 DEF NextMC, NextFiles, all
<1>3. AttInv => AttachmentsInv
  BY DEF AttInv, AttachmentsInv, F!AttachmentsInv, FilesKept, F!Underway
<1> QED BY <1>1, <1>2, <1>3, PTL DEF SpecMC
=============================================================================
