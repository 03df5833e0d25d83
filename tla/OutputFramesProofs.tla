------------------------- MODULE OutputFramesProofs -------------------------
(***************************************************************************)
(* However output is cut into chunks, batches and frames, and whatever the *)
(* sizes of the queues: what goes to the browser is honest about its       *)
(* offsets, and each of its streams is what a session promises its client. *)
(***************************************************************************)
EXTENDS OutputFrames, SequenceTheorems, TLAPS

End(m) == m.from + Len(m.data)

\* A message or a frame with bytes in it is a run of what has been produced.
IsRun(m, top) == m.data = Run(m.from, End(m)) /\ m.data # <<>> /\ End(m) <= top

\* What a task has taken is in its batch while it receives, and in its hand
\* while it pushes: at most a frame, and then the exit.
TaskOk(s) ==
  /\ task[s] = "push" <=> hand[s] # <<>>
  /\ task[s] \in {"unused", "push"} => pending[s] = <<>>
  /\ task[s] = "unused" => rx[s] = <<>> /\ sub # s
  /\ flushAt[s] <=> pending[s] # <<>>
  /\ pending[s] # <<>> => IsRun(Frame(s, pendingFrom[s], pending[s]), produced)
  /\ \A i \in 1..Len(hand[s]) :
       /\ hand[s][i].stream = s
       /\ IF hand[s][i].kind = "frame" THEN i = 1 /\ IsRun(hand[s][i], produced)
          ELSE /\ i = Len(hand[s]) /\ hand[s][i] = ExitEvent(s)
               /\ exited /\ rx[s] = <<>> /\ sub # s
               /\ i # 1 => i = 2 /\ hand[s][1].kind = "frame"
  /\ \A i \in 1..Len(rx[s]) :
       IF rx[s][i].kind = "out" THEN IsRun(rx[s][i], produced)
       ELSE i = Len(rx[s]) /\ exited /\ sub # s

\* The queue has frames and exits of streams whose client still listens.
QueueOk ==
  \A i \in 1..Len(outq) :
    /\ phase[outq[i].stream] = "open"
    /\ IF outq[i].kind = "frame" THEN IsRun(outq[i], produced)
       ELSE /\ outq[i] = ExitEvent(outq[i].stream)
            /\ exited /\ task[outq[i].stream] = "ended"
            /\ \A k \in i + 1..Len(outq) : outq[k].stream # outq[i].stream

\* What a stream's phase says of its task.
PhaseOk(s) ==
  /\ task[s] = "unused" => phase[s] = "unused"
  /\ phase[s] = "unused" => seen[s] = Unset
  /\ phase[s] = "exited" => exited
  /\ link = "up" /\ task[s] \in {"recv", "push"} => phase[s] = "open"

FramesKept ==
  TypeOK /\ QueueOk /\ \A s \in Stream : TaskOk(s) /\ PhaseOk(s)

-----------------------------------------------------------------------------
(* Each stage of a stream goes on where the stage before it ends. *)

Offset == 0..MaxBytes \cup {Unset}
Follows(e, from) == e = Unset \/ e = from

\* Where an exit may come: at the end of the output, once there is one.
Ends == IF exited THEN {Unset, produced} ELSE {}

\* The frames of s in the queue, from offset from to offset e.
Carries(m, s, e, f, ends) ==
  IF m.stream # s THEN f = e
  ELSE IF m.kind = "frame" THEN Follows(e, m.from) /\ f = End(m)
  ELSE e \in ends /\ f = e
QueueTo(q, s, from, e, ends) ==
  \E pos \in [0..Len(q) -> Offset] :
    /\ pos[0] = from /\ pos[Len(q)] = e
    /\ \A i \in 1..Len(q) : Carries(q[i], s, pos[i - 1], pos[i], ends)

AfterHand(h, e) == IF h # <<>> /\ h[1].kind = "frame" THEN End(h[1]) ELSE e
AfterBatch(p, from, e) == IF p = <<>> THEN e ELSE from + Len(p)
AfterChannel(r, e, i) == IF i = 0 THEN e ELSE End(r[i])

HandFrom(h, e, ends) ==
  \A i \in 1..Len(h) : IF h[i].kind = "frame" THEN Follows(e, h[i].from)
                       ELSE AfterHand(h, e) \in ends
ChannelFrom(r, e, ends) ==
  \A i \in 1..Len(r) : IF r[i].kind = "out" THEN Follows(AfterChannel(r, e, i - 1), r[i].from)
                       ELSE AfterChannel(r, e, i - 1) \in ends

\* The hand, the batch and the channel, from offset e.
ToBatch(s, e) == AfterHand(hand[s], e)
ToChannel(s, e) == AfterBatch(pending[s], pendingFrom[s], ToBatch(s, e))
TaskFrom(s, e) ==
  /\ HandFrom(hand[s], e, Ends)
  /\ pending[s] # <<>> => Follows(ToBatch(s, e), pendingFrom[s])
  /\ ChannelFrom(rx[s], ToChannel(s, e), Ends)
  /\ sub = s => AfterChannel(rx[s], ToChannel(s, e), Len(rx[s])) \in {Unset, produced}

StreamKept(s) ==
  \E e \in Offset : TaskFrom(s, e) /\ (link = "up" => QueueTo(outq, s, seen[s], e, Ends))
StreamsKept == \A s \in Stream : StreamKept(s)
Everything == FramesKept /\ StreamsKept

-----------------------------------------------------------------------------
(* Runs. *)

LEMMA RunIsSeq ==
  ASSUME NEW f \in Nat, NEW t \in Nat, f <= t
  PROVE  /\ Run(f, t) \in Seq(Nat) /\ Len(Run(f, t)) = t - f
         /\ \A i \in 1..(t - f) : Run(f, t)[i] = f + i - 1
<1>1. t - f \in Nat /\ \A i \in 1..(t - f) : f + i - 1 \in Nat
  OBVIOUS
<1>2. Run(f, t) \in [1..(t - f) -> Nat]
  BY <1>1 DEF Run
<1>3. Run(f, t) \in Seq(Nat) /\ DOMAIN Run(f, t) = 1..(t - f)
  BY <1>1, <1>2
<1>4. Len(Run(f, t)) = t - f
  BY <1>1, <1>3, LenProperties
<1> QED BY <1>3, <1>4 DEF Run

LEMMA RunJoins ==
  ASSUME NEW f \in Nat, NEW t \in Nat, NEW u \in Nat, f <= t, t <= u
  PROVE  Run(f, t) \o Run(t, u) = Run(f, u)
<1> DEFINE p == Run(f, t)
           q == Run(t, u)
           r == Run(f, u)
<1>1. /\ p \in Seq(Nat) /\ Len(p) = t - f /\ \A i \in 1..(t - f) : p[i] = f + i - 1
      /\ q \in Seq(Nat) /\ Len(q) = u - t /\ \A i \in 1..(u - t) : q[i] = t + i - 1
      /\ r \in Seq(Nat) /\ Len(r) = u - f /\ \A i \in 1..(u - f) : r[i] = f + i - 1
  <2>1. p \in Seq(Nat) /\ Len(p) = t - f /\ \A i \in 1..(t - f) : p[i] = f + i - 1
    BY RunIsSeq
  <2>2. q \in Seq(Nat) /\ Len(q) = u - t /\ \A i \in 1..(u - t) : q[i] = t + i - 1
    BY RunIsSeq
  <2>3. f <= u
    OBVIOUS
  <2>4. r \in Seq(Nat) /\ Len(r) = u - f /\ \A i \in 1..(u - f) : r[i] = f + i - 1
    BY <2>3, RunIsSeq
  <2> QED BY <2>1, <2>2, <2>4
<1> HIDE DEF p, q, r
<1>2. /\ p \o q \in Seq(Nat) /\ Len(p \o q) = Len(p) + Len(q)
      /\ \A i \in 1..Len(p) + Len(q) : (p \o q)[i] = IF i <= Len(p) THEN p[i] ELSE q[i - Len(p)]
  BY <1>1, ConcatProperties
<1>3. Len(p \o q) = Len(r)
  BY <1>1, <1>2
<1>4. ASSUME NEW i \in 1..Len(r) PROVE (p \o q)[i] = r[i]
  <2>1. CASE i <= Len(p)
    BY <1>1, <1>2, <2>1
  <2>2. CASE i > Len(p)
    <3> DEFINE k == i - (t - f)
    <3>1. k \in 1..(u - t) /\ t + k - 1 = f + i - 1
      BY <1>1, <2>2
    <3>2. (p \o q)[i] = q[k]
      BY <1>1, <1>2, <2>2
    <3> QED BY <1>1, <3>1, <3>2
  <2> QED BY <1>1, <2>1, <2>2
<1>5. p \o q = r
  BY <1>1, <1>2, <1>3, <1>4, SeqEqual
<1> QED BY <1>5 DEF p, q, r

\* What was a run of the output stays one when there is more of it.
LEMMA RunsStay ==
  ASSUME NEW m, End(m) \in Int, NEW n \in Nat, NEW k \in Nat, n <= k, IsRun(m, n)
  PROVE  IsRun(m, k)
BY DEF IsRun

\* The parts of a message.
LEMMA MessagesEnd ==
  /\ \A m \in Message : /\ m.kind \in {"frame", "exit"} /\ m.stream \in Stream
                        /\ m.from \in Nat /\ m.data \in Seq(Nat) /\ End(m) \in Nat
  /\ \A m \in SubMsg : /\ m.kind \in {"out", "exit"} /\ (m.kind = "exit" <=> m = Exit)
                       /\ m.from \in Nat /\ m.data \in Seq(Nat) /\ End(m) \in Nat
<1>1. \A m \in Message : /\ m.kind \in {"frame", "exit"} /\ m.stream \in Stream
                         /\ m.from \in Nat /\ m.data \in Seq(Nat)
  BY DEF Message
<1>2. \A m \in SubMsg : /\ m.kind \in {"out", "exit"} /\ (m.kind = "exit" <=> m = Exit)
                        /\ m.from \in Nat /\ m.data \in Seq(Nat)
  <2>1. /\ Exit.kind = "exit" /\ Exit.from \in Nat /\ Exit.data \in Seq(Nat)
    BY DEF Exit
  <2>2. \A m \in [kind : {"out"}, from : Nat, data : Seq(Nat)] :
          m.kind = "out" /\ m.from \in Nat /\ m.data \in Seq(Nat)
    OBVIOUS
  <2> SUFFICES ASSUME NEW m \in SubMsg
               PROVE  /\ m.kind \in {"out", "exit"} /\ (m.kind = "exit" <=> m = Exit)
                      /\ m.from \in Nat /\ m.data \in Seq(Nat)
    OBVIOUS
  <2>3. CASE m = Exit
    <3>1. m.kind = "exit" /\ m.from \in Nat /\ m.data \in Seq(Nat)
      BY <2>1, <2>3
    <3> QED BY <2>3, <3>1
  <2>4. CASE m \in [kind : {"out"}, from : Nat, data : Seq(Nat)]
    BY <2>1, <2>2, <2>4
  <2> QED BY <2>3, <2>4 DEF SubMsg
<1> QED BY <1>1, <1>2 DEF End

LEMMA InTransit ==
  ASSUME TypeOK, NEW s \in Stream
  PROVE  /\ \A i \in 1..Len(hand[s]) : hand[s][i] \in Message
         /\ \A i \in 1..Len(rx[s]) : rx[s][i] \in SubMsg
         /\ \A i \in 1..Len(outq) : outq[i] \in Message
         /\ Len(hand[s]) \in Nat /\ Len(rx[s]) \in Nat /\ Len(outq) \in Nat
<1>1. hand[s] \in Seq(Message) /\ rx[s] \in Seq(SubMsg) /\ outq \in Seq(Message)
  BY DEF TypeOK
<1> QED BY <1>1

-----------------------------------------------------------------------------
(* What a step of one stream leaves of another. *)

Same(t) ==
  UNCHANGED <<rx[t], task[t], pending[t], pendingFrom[t], flushAt[t], hand[t]>>

LEMMA TaskStays ==
  ASSUME TypeOK, NEW t \in Stream, TaskOk(t), Same(t), produced' \in Nat, produced <= produced',
         exited => exited', sub' = t => sub = t
  PROVE  TaskOk(t)'
<1>1. /\ \A m : IsRun(m, produced) /\ End(m) \in Int => IsRun(m, produced')
  <2>1. produced \in Nat
    BY FramesAssumption DEF TypeOK
  <2> QED BY <2>1, RunsStay
<1>2. /\ \A i \in 1..Len(hand[t]) : End(hand[t][i]) \in Int
      /\ \A i \in 1..Len(rx[t]) : rx[t][i].kind = "out" => End(rx[t][i]) \in Int
      /\ End(Frame(t, pendingFrom[t], pending[t])) \in Int
  <2>3. pendingFrom[t] \in Nat /\ pending[t] \in Seq(Nat)
    BY DEF TypeOK
  <2> QED BY <2>3, InTransit, MessagesEnd DEF End, Frame
<1>3. /\ rx'[t] = rx[t] /\ task'[t] = task[t] /\ pending'[t] = pending[t]
      /\ pendingFrom'[t] = pendingFrom[t] /\ flushAt'[t] = flushAt[t] /\ hand'[t] = hand[t]
  BY DEF Same
<1> QED BY <1>1, <1>2, <1>3 DEF TaskOk

LEMMA EndsGrow ==
  ASSUME exited => exited' /\ produced' = produced
  PROVE  Ends \subseteq Ends'
BY DEF Ends

LEMMA FlowStays ==
  ASSUME NEW t \in Stream, NEW e, TaskFrom(t, e), Same(t), Ends \subseteq Ends',
         sub' = t => sub = t /\ produced' = produced
  PROVE  TaskFrom(t, e)'
<1>1. /\ rx'[t] = rx[t] /\ pending'[t] = pending[t]
      /\ pendingFrom'[t] = pendingFrom[t] /\ hand'[t] = hand[t]
  BY DEF Same
<1>2. ToBatch(t, e)' = ToBatch(t, e) /\ ToChannel(t, e)' = ToChannel(t, e)
  BY <1>1 DEF ToBatch, ToChannel
<1>3. HandFrom(hand'[t], e, Ends')
  BY <1>1 DEF TaskFrom, HandFrom
<1>4. ChannelFrom(rx'[t], ToChannel(t, e), Ends')
  BY <1>1 DEF TaskFrom, ChannelFrom
<1> QED BY <1>1, <1>2, <1>3, <1>4 DEF TaskFrom

LEMMA QueueStays ==
  ASSUME NEW t \in Stream, NEW e, QueueTo(outq, t, seen[t], e, Ends), UNCHANGED <<outq, seen[t]>>,
         Ends \subseteq Ends'
  PROVE  QueueTo(outq', t, seen'[t], e, Ends')
BY DEF QueueTo, Carries

LEMMA QueueOkStays ==
  ASSUME TypeOK, QueueOk, UNCHANGED outq, produced' \in Nat, produced <= produced', exited => exited',
         \A t \in Stream : /\ phase[t] = "open" => phase'[t] = "open"
                           /\ task[t] = "ended" => task'[t] = "ended"
  PROVE  QueueOk'
<1>1. \A m : IsRun(m, produced) /\ End(m) \in Int => IsRun(m, produced')
  <2>1. produced \in Nat
    BY FramesAssumption DEF TypeOK
  <2> QED BY <2>1, RunsStay
<1>2. \A i \in 1..Len(outq) : outq[i] \in Message
  BY DEF TypeOK
<1>3. \A i \in 1..Len(outq) : outq[i].stream \in Stream /\ End(outq[i]) \in Int
  BY <1>2, MessagesEnd
<1> QED BY <1>1, <1>3 DEF QueueOk

\* What a step that leaves the queue alone keeps of the streams it is not about.
LEMMA OthersStay ==
  ASSUME Everything, NEW S \in SUBSET Stream, \A t \in S : Same(t) /\ seen'[t] = seen[t],
         produced' \in Nat, produced <= produced', exited => exited' /\ produced' = produced,
         \A t \in S : sub' = t => sub = t /\ produced' = produced,
         outq' = outq, link' = link
  PROVE  /\ \A t \in S : TaskOk(t)'
         /\ \A t \in S : StreamKept(t)'
<1>1. \A t \in S : TaskOk(t)'
  BY TaskStays DEF Everything, FramesKept
<1>2. ASSUME NEW t \in S PROVE StreamKept(t)'
  <2>1. PICK e \in Offset : TaskFrom(t, e) /\ (link = "up" => QueueTo(outq, t, seen[t], e, Ends))
    BY DEF Everything, StreamsKept, StreamKept
  <2>2. TaskFrom(t, e)'
    BY <2>1, EndsGrow, FlowStays
  <2>3. link = "up" => QueueTo(outq', t, seen'[t], e, Ends')
    BY <2>1, EndsGrow, QueueStays
  <2> QED BY <2>1, <2>2, <2>3 DEF StreamKept
<1> QED BY <1>1, <1>2

LEMMA Bounds ==
  ASSUME TypeOK
  PROVE  /\ produced \in Nat /\ MaxBytes \in Nat /\ produced <= MaxBytes
         /\ Unset \notin Nat /\ None \notin Stream
BY FramesAssumption DEF TypeOK, Unset

\* What is sent of the output, from some offset to where it ends.
LEMMA OutIsRun ==
  ASSUME NEW f \in Nat, NEW t \in Nat, f < t
  PROVE  /\ Out(f, Run(f, t)) \in SubMsg /\ Out(f, Run(f, t)).kind = "out"
         /\ Out(f, Run(f, t)).from = f
         /\ End(Out(f, Run(f, t))) = t /\ IsRun(Out(f, Run(f, t)), t)
<1> DEFINE d == Run(f, t)
<1>1. d \in Seq(Nat) /\ Len(d) = t - f /\ f <= t /\ f + Len(d) = t
  BY RunIsSeq
<1>2. d # <<>>
  BY <1>1
<1>3. d = Run(f, f + Len(d))
  BY <1>1
<1> HIDE DEF d
<1>4. Out(f, d) \in SubMsg /\ Out(f, d).kind = "out" /\ Out(f, d).from = f /\ Out(f, d).data = d
  BY <1>1 DEF Out, SubMsg
<1>5. End(Out(f, d)) = t /\ IsRun(Out(f, d), t)
  BY <1>1, <1>2, <1>3, <1>4 DEF End, IsRun
<1> QED BY <1>4, <1>5 DEF d

-----------------------------------------------------------------------------
(* The session's steps. *)

LEMMA FramesInit == Init => Everything
<1> SUFFICES ASSUME Init PROVE Everything
  OBVIOUS
<1> USE DEF Init
<1>1. TypeOK
  <2>1. MaxBytes \in Nat /\ SUB_CAP \in Nat /\ OUT_CAP \in Nat
    BY FramesAssumption
  <2>2. \A S : <<>> \in Seq(S) /\ Len(<<>>) = 0
    OBVIOUS
  <2>3. rx \in [Stream -> Seq(SubMsg)] /\ \A s \in Stream : Len(rx[s]) <= SUB_CAP
    BY <2>1, <2>2
  <2>4. outq \in Seq(Message) /\ Len(outq) <= OUT_CAP /\ produced \in 0..MaxBytes
    BY <2>1, <2>2
  <2>5. pending \in [Stream -> Seq(Nat)] /\ hand \in [Stream -> Seq(Message)]
    BY <2>2
  <2> QED BY <2>3, <2>4, <2>5 DEF TypeOK
<1>2. QueueOk /\ \A s \in Stream : TaskOk(s) /\ PhaseOk(s)
  <2>1. \A s \in Stream : sub # s
    BY FramesAssumption
  <2> QED BY <2>1 DEF QueueOk, TaskOk, PhaseOk
<1>3. ASSUME NEW s \in Stream PROVE StreamKept(s)
  <2>1. TaskFrom(s, Unset)
    <3>1. sub # s
      BY FramesAssumption
    <3> QED BY <3>1 DEF TaskFrom, HandFrom, ChannelFrom
  <2>2. QueueTo(outq, s, seen[s], Unset, Ends)
    <3> DEFINE pos == [i \in 0..0 |-> Unset]
    <3>1. Len(outq) = 0 /\ 1..Len(outq) = {} /\ seen[s] = Unset
      OBVIOUS
    <3>2. pos \in [0..Len(outq) -> Offset] /\ pos[0] = seen[s] /\ pos[Len(outq)] = Unset
      BY <3>1 DEF Offset
    <3> HIDE DEF pos, Init
    <3> QED BY <3>1, <3>2 DEF QueueTo
  <2>3. Unset \in Offset
    BY DEF Offset
  <2> QED BY <2>1, <2>2, <2>3 DEF StreamKept
<1> QED BY <1>1, <1>2, <1>3 DEF Everything, FramesKept, StreamsKept

\* A client attaches: there is nothing of its stream yet.
LEMMA AttachStep ==
  ASSUME Everything, NEW s \in Stream, Attach(s)
  PROVE  Everything'
<1> USE DEF Everything, FramesKept
<1>b. /\ produced \in Nat /\ MaxBytes \in Nat /\ produced <= MaxBytes
      /\ Unset \notin Nat /\ None \notin Stream
  BY Bounds
<1>1. /\ task[s] = "unused" /\ phase[s] = "unused" /\ seen[s] = Unset /\ hand[s] = <<>>
      /\ pending[s] = <<>> /\ flushAt[s] = FALSE /\ ~exited
  <2>1. task[s] = "unused" /\ TaskOk(s) /\ PhaseOk(s) /\ flushAt[s] \in BOOLEAN /\ ~exited
    BY DEF Attach, TypeOK
  <2> QED BY <2>1 DEF TaskOk, PhaseOk
<1>2. /\ sub' = s /\ task' = [task EXCEPT ![s] = "recv"]
      /\ phase' = [phase EXCEPT ![s] = IF link = "up" THEN "open" ELSE @]
      /\ UNCHANGED <<produced, exited, batchVars, hand, outq, link, seen, got>>
  BY DEF Attach
<1>3. PICK q \in Seq(SubMsg) : /\ rx' = [rx EXCEPT ![s] = q] /\ Len(q) <= 1
                               /\ \A i \in 1..Len(q) : /\ q[i].kind = "out"
                                                       /\ IsRun(q[i], produced) /\ End(q[i]) = produced
  <2>1. PICK from \in 0..produced :
          rx' = [rx EXCEPT ![s] = IF from = produced THEN <<>> ELSE <<Out(from, Run(from, produced))>>]
    BY DEF Attach
  <2>2. CASE from = produced
    <3> DEFINE q == <<>>
    <3>1. q \in Seq(SubMsg) /\ Len(q) <= 1 /\ 1..Len(q) = {}
      OBVIOUS
    <3>2. rx' = [rx EXCEPT ![s] = q]
      BY <2>1, <2>2
    <3> HIDE DEF q
    <3> QED BY <3>1, <3>2
  <2>3. CASE from # produced
    <3> DEFINE m == Out(from, Run(from, produced))
    <3>1. m \in SubMsg /\ m.kind = "out" /\ IsRun(m, produced) /\ End(m) = produced
      BY <1>b, <2>3, OutIsRun
    <3> HIDE DEF m
    <3> DEFINE q == <<m>>
    <3>2. q \in Seq(SubMsg) /\ Len(q) = 1 /\ q[1] = m
      BY <3>1
    <3>3. rx' = [rx EXCEPT ![s] = q]
      BY <2>1, <2>3 DEF m
    <3> HIDE DEF q
    <3>4. Len(q) <= 1 /\ \A i \in 1..Len(q) : q[i] = m
      BY <3>2
    <3>5. \A i \in 1..Len(q) : q[i].kind = "out" /\ IsRun(q[i], produced) /\ End(q[i]) = produced
      BY <3>1, <3>4
    <3> QED BY <3>2, <3>3, <3>4, <3>5
  <2> QED BY <2>2, <2>3
<1>4. /\ rx'[s] = q /\ task'[s] = "recv" /\ hand'[s] = <<>> /\ pending'[s] = <<>> /\ flushAt'[s] = FALSE
      /\ phase'[s] = (IF link = "up" THEN "open" ELSE "unused") /\ seen'[s] = Unset
      /\ \A t \in Stream \ {s} : Same(t) /\ phase'[t] = phase[t]
  BY <1>1, <1>2, <1>3 DEF Same, TypeOK, batchVars
<1>5. TypeOK'
  <2>1. SUB_CAP \in Nat /\ SUB_CAP >= 1
    BY FramesAssumption
  <2>2. rx' \in [Stream -> Seq(SubMsg)] /\ \A t \in Stream : Len(rx'[t]) <= SUB_CAP
    BY <1>3, <2>1 DEF TypeOK
  <2>3. phase' \in [Stream -> {"unused", "open", "exited", "lost"}]
    BY <1>1, <1>2 DEF TypeOK
  <2> QED BY <1>2, <2>2, <2>3 DEF TypeOK, batchVars
<1>6. \A t \in Stream \ {s} : TaskOk(t)' /\ StreamKept(t)'
  <2> DEFINE S == Stream \ {s}
  <2>1. S \in SUBSET Stream /\ \A t \in S : Same(t) /\ sub' # t /\ seen'[t] = seen[t]
    BY <1>2, <1>4
  <2> HIDE DEF S
  <2>2. produced' = produced /\ exited' = exited /\ outq' = outq /\ link' = link /\ produced <= produced'
    BY <1>b, <1>2
  <2>3. \A t \in S : TaskOk(t)' /\ StreamKept(t)'
    BY <1>b, <2>1, <2>2, OthersStay
  <2> QED BY <2>3 DEF S
<1>7. TaskOk(s)' /\ PhaseOk(s)'
  BY <1>2, <1>3, <1>4 DEF TaskOk, PhaseOk
<1>8. \A t \in Stream \ {s} : PhaseOk(t)'
  BY <1>2, <1>4 DEF PhaseOk, Same
<1>9. QueueOk'
  <2>1. \A t \in Stream : /\ phase[t] = "open" => phase'[t] = "open"
                          /\ task[t] = "ended" => task'[t] = "ended"
    BY <1>1, <1>4 DEF Same
  <2> QED BY <1>b, <1>2, <2>1, QueueOkStays
<1>10. StreamKept(s)'
  <2>1. TaskFrom(s, Unset)'
    <3>1. ToBatch(s, Unset)' = Unset /\ ToChannel(s, Unset)' = Unset
      BY <1>4 DEF ToBatch, ToChannel, AfterHand, AfterBatch
    <3>2. \A i \in 1..Len(q) : i = 1
      BY <1>3
    <3>3. ChannelFrom(q, Unset, Ends')
      BY <1>3, <3>2 DEF ChannelFrom, AfterChannel, Follows
    <3>4. AfterChannel(q, Unset, Len(q)) \in {Unset, produced}
      BY <1>3 DEF AfterChannel
    <3>5. HandFrom(hand'[s], Unset, Ends')
      BY <1>4 DEF HandFrom
    <3> QED BY <1>2, <1>4, <3>1, <3>3, <3>4, <3>5 DEF TaskFrom
  <2>2. QueueTo(outq', s, seen'[s], Unset, Ends')
    <3> DEFINE pos == [i \in 0..Len(outq) |-> Unset]
    <3>1. pos \in [0..Len(outq) -> Offset] /\ Len(outq) \in Nat
      BY DEF Offset, TypeOK
    <3>2. \A i \in 1..Len(outq) : outq[i].stream # s
      BY <1>1 DEF QueueOk
    <3>3. outq' = outq /\ pos[0] = seen'[s] /\ pos[Len(outq)] = Unset
          /\ \A i \in 1..Len(outq) : pos[i] = pos[i - 1]
      BY <1>2, <1>4, <3>1
    <3> HIDE DEF pos
    <3> QED BY <3>1, <3>2, <3>3 DEF QueueTo, Carries
  <2>3. Unset \in Offset
    BY DEF Offset
  <2> QED BY <2>1, <2>2, <2>3 DEF StreamKept
<1>11. StreamsKept'
  BY <1>6, <1>10 DEF StreamsKept
<1> QED BY <1>5, <1>6, <1>7, <1>8, <1>9, <1>11

-----------------------------------------------------------------------------
(* How the channel and the queue grow at one end and shrink at the other. *)

LEMMA Appended ==
  ASSUME NEW S, NEW r \in Seq(S), NEW m \in S
  PROVE  /\ Append(r, m) \in Seq(S) /\ Len(Append(r, m)) = Len(r) + 1 /\ Len(r) \in Nat
         /\ Append(r, m)[Len(r) + 1] = m /\ \A i \in 1..Len(r) : Append(r, m)[i] = r[i]
OBVIOUS

LEMMA Tailed ==
  ASSUME NEW S, NEW r \in Seq(S), r # <<>>
  PROVE  /\ Tail(r) \in Seq(S) /\ Len(r) \in Nat \ {0} /\ Len(Tail(r)) = Len(r) - 1
         /\ Head(r) = r[1] /\ r[1] \in S
         /\ \A i \in 1..Len(r) - 1 : Tail(r)[i] = r[i + 1]
BY HeadTailProperties

\* The sender adds what comes next.
LEMMA ChannelGrows ==
  ASSUME NEW r \in Seq(SubMsg), NEW m \in SubMsg, NEW e, NEW top, NEW ends, NEW ends2,
         ChannelFrom(r, e, ends), \A i \in 1..Len(r) : r[i].kind = "out",
         AfterChannel(r, e, Len(r)) \in {Unset, top},
         IF m.kind = "out" THEN m.from = top ELSE {Unset, top} \subseteq ends2
  PROVE  /\ ChannelFrom(Append(r, m), e, ends2)
         /\ AfterChannel(Append(r, m), e, Len(r) + 1) = End(m)
<1> DEFINE z == Append(r, m)
           n == Len(r)
<1>1. n \in Nat /\ Len(z) = n + 1 /\ z[n + 1] = m /\ \A i \in 1..n : z[i] = r[i]
  BY Appended
<1> HIDE DEF z, n
<1>2. \A i \in 0..n : AfterChannel(z, e, i) = AfterChannel(r, e, i)
  BY <1>1 DEF AfterChannel
<1>3. ASSUME NEW i \in 1..n PROVE z[i].kind = "out" /\ Follows(AfterChannel(z, e, i - 1), z[i].from)
  <2>1. i - 1 \in 0..n /\ z[i] = r[i] /\ i \in 1..Len(r)
    BY <1>1 DEF n
  <2> QED BY <1>2, <2>1 DEF ChannelFrom
<1>4. IF m.kind = "out" THEN Follows(AfterChannel(z, e, n), m.from)
      ELSE AfterChannel(z, e, n) \in ends2
  <2>1. AfterChannel(z, e, n) \in {Unset, top}
    BY <1>1, <1>2 DEF n
  <2> QED BY <2>1 DEF Follows
<1>5. \A i \in 1..Len(z) : i \in 1..n \/ (i = n + 1 /\ i - 1 = n)
  BY <1>1
<1>6. ChannelFrom(z, e, ends2)
  BY <1>1, <1>3, <1>4, <1>5 DEF ChannelFrom
<1>7. AfterChannel(z, e, n + 1) = End(m)
  BY <1>1 DEF AfterChannel
<1> QED BY <1>6, <1>7 DEF z, n

\* The task takes the next message.
LEMMA ChannelShrinks ==
  ASSUME NEW r \in Seq(SubMsg), r # <<>>, NEW e, NEW ends, ChannelFrom(r, e, ends)
  PROVE  /\ IF Head(r).kind = "out" THEN Follows(e, Head(r).from) ELSE e \in ends
         /\ ChannelFrom(Tail(r), End(Head(r)), ends)
         /\ AfterChannel(Tail(r), End(Head(r)), Len(Tail(r))) = AfterChannel(r, e, Len(r))
<1> DEFINE z == Tail(r)
           n == Len(r)
           h == Head(r)
<1>1. n \in Nat \ {0} /\ Len(z) = n - 1 /\ h = r[1] /\ \A i \in 1..n - 1 : z[i] = r[i + 1]
  BY Tailed
<1>2. \A i \in 1..n : IF r[i].kind = "out" THEN Follows(AfterChannel(r, e, i - 1), r[i].from)
                      ELSE AfterChannel(r, e, i - 1) \in ends
  BY DEF ChannelFrom
<1> HIDE DEF z, n, h
<1>3. ASSUME NEW i \in 0..n - 1 PROVE AfterChannel(z, End(h), i) = AfterChannel(r, e, i + 1)
  <2>1. i = 0 \/ i \in 1..n - 1
    BY <1>1
  <2>2. i + 1 # 0
    BY <1>1
  <2> QED BY <1>1, <2>1, <2>2 DEF AfterChannel
<1>4. IF h.kind = "out" THEN Follows(e, h.from) ELSE e \in ends
  <2>1. 1 \in 1..n /\ AfterChannel(r, e, 1 - 1) = e
    BY <1>1 DEF AfterChannel
  <2> QED BY <1>1, <1>2, <2>1
<1>5. ASSUME NEW i \in 1..Len(z)
      PROVE  IF z[i].kind = "out" THEN Follows(AfterChannel(z, End(h), i - 1), z[i].from)
             ELSE AfterChannel(z, End(h), i - 1) \in ends
  <2>1. i - 1 \in 0..n - 1 /\ i + 1 \in 1..n /\ (i - 1) + 1 = i /\ (i + 1) - 1 = i /\ i \in 1..n - 1
    BY <1>1
  <2>2. AfterChannel(z, End(h), i - 1) = AfterChannel(r, e, i) /\ z[i] = r[i + 1]
    BY <1>1, <1>3, <2>1
  <2> QED BY <1>2, <2>1, <2>2
<1>6. ChannelFrom(z, End(h), ends)
  BY <1>5 DEF ChannelFrom
<1>7. AfterChannel(z, End(h), Len(z)) = AfterChannel(r, e, n)
  <2>1. n - 1 \in 0..n - 1 /\ (n - 1) + 1 = n
    BY <1>1
  <2> QED BY <1>1, <1>3, <2>1
<1> QED BY <1>4, <1>6, <1>7 DEF z, n, h

\* The session sends: the next bytes of its output, or the exit after the last.
LEMMA SendStep ==
  ASSUME Everything, ~exited, NEW m \in SubMsg, Send(m), produced <= produced',
         produced' \in 0..MaxBytes, UNCHANGED <<task, batchVars, hand, outq, link, clientVars>>,
         \/ /\ m.kind = "out" /\ IsRun(m, produced') /\ m.from = produced /\ End(m) = produced'
            /\ UNCHANGED exited
         \/ m = Exit /\ exited' = TRUE /\ UNCHANGED produced
  PROVE  Everything'
<1> USE DEF Everything, FramesKept
<1>b. /\ produced \in Nat /\ MaxBytes \in Nat /\ produced <= MaxBytes
      /\ Unset \notin Nat /\ None \notin Stream /\ produced' \in Nat
  BY Bounds
<1>u. UNCHANGED <<task, pending, pendingFrom, flushAt, hand, outq, link, seen, got, phase>>
  BY DEF batchVars, clientVars
<1>q. QueueOk'
  BY <1>b, <1>u, QueueOkStays
<1>p. \A t \in Stream : PhaseOk(t)'
  BY <1>u DEF PhaseOk
<1>t. exited' \in BOOLEAN /\ produced' \in 0..MaxBytes
  BY DEF TypeOK
<1>1. CASE UNCHANGED rx /\ sub' = None
  <2>1. TypeOK'
    BY <1>1, <1>t, <1>u DEF TypeOK
  <2>2. \A t \in Stream : Same(t) /\ sub' # t /\ seen'[t] = seen[t]
    BY <1>1, <1>b, <1>u DEF Same
  <2>3. \A t \in Stream : TaskOk(t)' /\ StreamKept(t)'
    BY <1>b, <1>u, <2>2, OthersStay
  <2> QED BY <1>p, <1>q, <2>1, <2>3 DEF StreamsKept
<1>2. ASSUME NEW s \in Stream, sub = s, Len(rx[s]) < SUB_CAP, rx' = [rx EXCEPT ![s] = Append(@, m)],
             sub' = IF m = Exit THEN None ELSE sub
      PROVE  Everything'
  <2>0. /\ rx[s] \in Seq(SubMsg) /\ rx'[s] = Append(rx[s], m) /\ hand[s] \in Seq(Message)
        /\ pendingFrom[s] \in Nat /\ pending[s] \in Seq(Nat)
    BY <1>2 DEF TypeOK
  <2>1. /\ rx'[s] \in Seq(SubMsg) /\ Len(rx'[s]) = Len(rx[s]) + 1 /\ Len(rx[s]) \in Nat
        /\ rx'[s][Len(rx[s]) + 1] = m /\ \A i \in 1..Len(rx[s]) : rx'[s][i] = rx[s][i]
    BY <2>0, Appended
  <2>2. TypeOK'
    <3>1. SUB_CAP \in Nat
      BY FramesAssumption
    <3>2. rx' \in [Stream -> Seq(SubMsg)] /\ \A t \in Stream : Len(rx'[t]) <= SUB_CAP
      BY <1>2, <2>1, <3>1 DEF TypeOK
    <3>3. sub' \in Stream \cup {None}
      BY <1>2
    <3> QED BY <1>t, <1>u, <3>2, <3>3 DEF TypeOK
  <2>3. \A t \in Stream \ {s} : Same(t) /\ sub' # t /\ seen'[t] = seen[t]
    BY <1>2, <1>b, <1>u DEF Same
  <2>4. \A t \in Stream \ {s} : TaskOk(t)' /\ StreamKept(t)'
    <3> DEFINE S == Stream \ {s}
    <3>1. S \in SUBSET Stream /\ \A t \in S : Same(t) /\ sub' # t /\ seen'[t] = seen[t]
      BY <2>3
    <3> HIDE DEF S
    <3>2. \A t \in S : TaskOk(t)' /\ StreamKept(t)'
      BY <1>b, <1>u, <3>1, OthersStay
    <3> QED BY <3>2 DEF S
  <2>5. /\ \A i \in 1..Len(rx[s]) : rx[s][i].kind = "out" /\ IsRun(rx[s][i], produced)
        /\ \A i \in 1..Len(hand[s]) : /\ hand[s][i].kind = "frame" /\ i = 1 /\ hand[s][i].stream = s
                                      /\ IsRun(hand[s][i], produced)
        /\ task[s] = "push" <=> hand[s] # <<>>
        /\ task[s] = "push" => pending[s] = <<>>
        /\ task[s] # "unused"
        /\ flushAt[s] <=> pending[s] # <<>>
        /\ pending[s] # <<>> => IsRun(Frame(s, pendingFrom[s], pending[s]), produced)
    BY <1>2 DEF TaskOk
  <2>6. TaskOk(s)'
    <3>1. \A x : IsRun(x, produced) /\ End(x) \in Int => IsRun(x, produced')
      BY <1>b, RunsStay
    <3>2. \A i \in 1..Len(hand[s]) : IsRun(hand[s][i], produced')
      BY <2>5, <3>1, InTransit, MessagesEnd
    <3>3. pending[s] # <<>> => IsRun(Frame(s, pendingFrom[s], pending[s]), produced')
      <4>1. End(Frame(s, pendingFrom[s], pending[s])) \in Int
        BY <2>0 DEF End, Frame
      <4> QED BY <2>5, <3>1, <4>1
    <3>4. \A i \in 1..Len(rx[s]) : rx'[s][i].kind = "out" /\ IsRun(rx'[s][i], produced')
      <4>1. \A i \in 1..Len(rx[s]) : End(rx[s][i]) \in Int
        BY InTransit, MessagesEnd
      <4> QED BY <2>1, <2>5, <3>1, <4>1
    <3>6. /\ m.kind = "out" => IsRun(m, produced')
          /\ m.kind # "out" => exited' /\ sub' # s
      <4>1. m.kind # "out" => m = Exit
        BY MessagesEnd
      <4>2. Exit.kind = "exit"
        BY DEF Exit
      <4> QED BY <1>2, <1>b, <4>1, <4>2
    <3>7. \A i \in 1..Len(rx'[s]) : IF rx'[s][i].kind = "out" THEN IsRun(rx'[s][i], produced')
                                    ELSE i = Len(rx'[s]) /\ exited' /\ sub' # s
      <4>1. \A i \in 1..Len(rx'[s]) : i \in 1..Len(rx[s]) \/ i = Len(rx[s]) + 1
        BY <2>1
      <4> QED BY <2>1, <3>4, <3>6, <4>1
    <3> QED BY <1>u, <2>5, <3>2, <3>3, <3>7 DEF TaskOk
  <2>7. StreamKept(s)'
    <3>1. PICK e \in Offset : TaskFrom(s, e) /\ (link = "up" => QueueTo(outq, s, seen[s], e, Ends))
      BY DEF StreamsKept, StreamKept
    <3>2. Ends \subseteq Ends' /\ (exited' => Ends' = {Unset, produced'})
      BY DEF Ends
    <3>3. link = "up" => QueueTo(outq', s, seen'[s], e, Ends')
      BY <1>u, <3>1, <3>2, QueueStays
    <3>4. ToBatch(s, e)' = ToBatch(s, e) /\ ToChannel(s, e)' = ToChannel(s, e)
      BY <1>u DEF ToBatch, ToChannel
    <3>5. HandFrom(hand'[s], e, Ends')
      BY <1>u, <3>1, <3>2 DEF TaskFrom, HandFrom
    <3> DEFINE c == ToChannel(s, e)
               r == rx[s]
               ends == Ends
               ends2 == Ends'
    <3>6. /\ ChannelFrom(r, c, ends) /\ AfterChannel(r, c, Len(r)) \in {Unset, produced}
          /\ pending[s] # <<>> => Follows(ToBatch(s, e), pendingFrom[s])
      BY <1>2, <3>1 DEF TaskFrom
    <3>7. IF m.kind = "out" THEN m.from = produced ELSE {Unset, produced} \subseteq ends2
      <4>1. m = Exit => m.kind # "out"
        BY DEF Exit
      <4> QED BY <3>2, <4>1
    <3>8. r \in Seq(SubMsg) /\ rx'[s] = Append(r, m) /\ \A i \in 1..Len(r) : r[i].kind = "out"
      BY <2>0, <2>5
    <3>9. Len(rx'[s]) = Len(r) + 1
      BY <2>1
    <3> HIDE DEF c, r, ends, ends2
    <3>10. /\ ChannelFrom(Append(r, m), c, ends2)
           /\ AfterChannel(Append(r, m), c, Len(r) + 1) = End(m)
      BY <3>6, <3>7, <3>8, ChannelGrows
    <3>11. sub' = s => End(m) = produced'
      BY <1>2, <1>b
    <3>12. /\ ChannelFrom(rx'[s], ToChannel(s, e)', Ends')
           /\ sub' = s => AfterChannel(rx'[s], ToChannel(s, e)', Len(rx'[s])) = produced'
      BY <3>4, <3>8, <3>9, <3>10, <3>11 DEF c, ends2
    <3>13. TaskFrom(s, e)'
      BY <1>u, <3>4, <3>5, <3>6, <3>12 DEF TaskFrom
    <3> QED BY <1>u, <3>3, <3>13 DEF StreamKept
  <2> QED BY <1>p, <1>q, <2>2, <2>4, <2>6, <2>7 DEF StreamsKept
<1>3. CASE sub = None
  <2>1. UNCHANGED rx /\ sub' = None
    BY <1>3 DEF Send
  <2> QED BY <1>1, <2>1
<1>4. CASE sub # None
  <2>1. sub \in Stream
    BY <1>4 DEF TypeOK
  <2>2. CASE task[sub] = "ended"
    BY <1>1, <1>4, <2>2 DEF Send
  <2>3. CASE task[sub] # "ended"
    <3>1. /\ Len(rx[sub]) < SUB_CAP /\ rx' = [rx EXCEPT ![sub] = Append(@, m)]
          /\ sub' = IF m = Exit THEN None ELSE sub
      BY <1>4, <2>3 DEF Send
    <3> QED BY <1>2, <2>1, <3>1
  <2> QED BY <2>2, <2>3
<1> QED BY <1>3, <1>4

LEMMA SessionStep ==
  ASSUME Everything, (\E n \in 1..READ_MAX : Output(n)) \/ Exits \/ Detach
  PROVE  Everything'
<1>b. /\ produced \in Nat /\ MaxBytes \in Nat /\ produced <= MaxBytes
      /\ Unset \notin Nat /\ None \notin Stream
  BY Bounds DEF Everything, FramesKept
<1>1. ASSUME NEW n \in 1..READ_MAX, Output(n) PROVE Everything'
  <2> DEFINE u == produced + n
             m == Out(produced, Run(produced, u))
  <2>1. /\ u \in Nat /\ produced < u /\ u <= MaxBytes /\ produced' = u /\ ~exited /\ UNCHANGED exited
        /\ UNCHANGED <<task, batchVars, hand, outq, link, clientVars>> /\ Send(m)
    BY <1>b, <1>1 DEF Output
  <2>2. m \in SubMsg /\ m.kind = "out" /\ m.from = produced /\ End(m) = u /\ IsRun(m, u)
    BY <1>b, <2>1, OutIsRun
  <2> HIDE DEF u, m
  <2>3. produced' \in 0..MaxBytes /\ produced <= produced' /\ IsRun(m, produced') /\ End(m) = produced'
    BY <1>b, <2>1, <2>2
  <2> QED BY <2>1, <2>2, <2>3, SendStep
<1>2. CASE Exits
  <2>1. /\ ~exited /\ exited' = TRUE /\ Send(Exit) /\ produced' = produced
        /\ UNCHANGED <<task, batchVars, hand, outq, link, clientVars>>
    BY <1>2 DEF Exits
  <2>2. Exit \in SubMsg /\ produced' \in 0..MaxBytes /\ produced <= produced'
    BY <1>b, <2>1 DEF SubMsg
  <2> QED BY <2>1, <2>2, SendStep
<1>3. CASE Detach
  <2> USE DEF Everything, FramesKept
  <2>1. /\ sub' = None /\ UNCHANGED <<produced, exited, rx, task, pending, pendingFrom, flushAt, hand,
                                      outq, link, seen, got, phase>>
    BY <1>3 DEF Detach, batchVars, clientVars
  <2>2. TypeOK'
    BY <2>1 DEF TypeOK
  <2>3. \A t \in Stream : Same(t) /\ sub' # t /\ seen'[t] = seen[t]
    BY <1>b, <2>1 DEF Same
  <2>4. \A t \in Stream : TaskOk(t)' /\ StreamKept(t)'
    BY <1>b, <2>1, <2>3, OthersStay
  <2>5. QueueOk' /\ \A t \in Stream : PhaseOk(t)'
    BY <1>b, <2>1, QueueOkStays DEF PhaseOk
  <2> QED BY <2>2, <2>4, <2>5 DEF StreamsKept
<1> QED BY <1>1, <1>2, <1>3

-----------------------------------------------------------------------------
(* The subscriber task's steps. *)

\* A step of the task of s: what it takes from one place it puts in the next.
LEMMA OwnStep ==
  ASSUME Everything, NEW s \in Stream, TypeOK', task[s] \in {"recv", "push"}, TaskOk(s)',
         task'[s] # "unused", UNCHANGED <<sessionVars, outq, link, clientVars>>,
         \A t \in Stream \ {s} : Same(t),
         task'[s] = "ended" \/ \A e \in Offset : TaskFrom(s, e) => TaskFrom(s, e)',
         task'[s] = "ended" => /\ hand'[s] = <<>> /\ pending'[s] = <<>> /\ rx'[s] = <<>>
                               /\ \/ link = "down"
                                  \/ hand[s] = <<>> /\ pending[s] = <<>> /\ sub # s
  PROVE  Everything'
<1> USE DEF Everything, FramesKept
<1>b. produced \in Nat /\ Unset \in Offset
  BY Bounds DEF Offset
<1>u. UNCHANGED <<produced, exited, sub, outq, link, seen, got, phase>>
  BY DEF sessionVars, clientVars
<1>1. QueueOk'
  <2>1. \A t \in Stream : task[t] = "ended" => task'[t] = "ended"
    BY DEF Same
  <2> QED BY <1>b, <1>u, <2>1, QueueOkStays
<1>2. \A t \in Stream : PhaseOk(t)'
  <2>1. PhaseOk(s)'
    BY <1>u DEF PhaseOk
  <2>2. \A t \in Stream \ {s} : PhaseOk(t)'
    BY <1>u DEF PhaseOk, Same
  <2> QED BY <2>1, <2>2
<1>3. \A t \in Stream \ {s} : TaskOk(t)' /\ StreamKept(t)'
  <2> DEFINE S == Stream \ {s}
  <2>1. S \in SUBSET Stream /\ \A t \in S : Same(t) /\ seen'[t] = seen[t]
    BY <1>u
  <2> HIDE DEF S
  <2>2. \A t \in S : TaskOk(t)' /\ StreamKept(t)'
    BY <1>b, <1>u, <2>1, OthersStay
  <2> QED BY <2>2 DEF S
<1>4. StreamKept(s)'
  <2>1. PICK e \in Offset : TaskFrom(s, e) /\ (link = "up" => QueueTo(outq, s, seen[s], e, Ends))
    BY DEF StreamsKept, StreamKept
  <2>2. link' = "up" => QueueTo(outq', s, seen'[s], e, Ends')
    <3>1. Ends' = Ends
      BY <1>u DEF Ends
    <3> QED BY <1>u, <2>1, <3>1
  <2>3. CASE task'[s] # "ended"
    BY <2>1, <2>2, <2>3 DEF StreamKept
  <2>4. CASE task'[s] = "ended" /\ link = "down"
    <3>1. TaskFrom(s, Unset)'
      BY <2>4 DEF TaskFrom, HandFrom, ChannelFrom, AfterChannel, ToChannel, ToBatch, AfterHand, AfterBatch
    <3> QED BY <1>b, <1>u, <2>4, <3>1 DEF StreamKept
  <2>5. CASE task'[s] = "ended" /\ link # "down"
    <3>1. TaskFrom(s, e)'
      BY <1>u, <2>5 DEF TaskFrom, HandFrom, ChannelFrom
    <3> QED BY <2>1, <2>2, <3>1 DEF StreamKept
  <2> QED BY <2>3, <2>4, <2>5
<1> QED BY <1>1, <1>2, <1>3, <1>4 DEF StreamsKept

\* What the batch is when a chunk has joined it.
Joined(p, m) == p \o m.data
JoinedFrom(p, pf, m) == IF p = <<>> THEN m.from ELSE pf

LEMMA ChunkJoins ==
  ASSUME NEW p \in Seq(Nat), NEW pf \in Nat, NEW m \in SubMsg, NEW top \in Nat, NEW e, m.kind = "out",
         IsRun(m, top), p # <<>> => p = Run(pf, pf + Len(p)) /\ Follows(e, pf),
         Follows(AfterBatch(p, pf, e), m.from)
  PROVE  /\ Joined(p, m) \in Seq(Nat) /\ JoinedFrom(p, pf, m) \in Nat /\ Joined(p, m) # <<>>
         /\ JoinedFrom(p, pf, m) + Len(Joined(p, m)) = End(m) /\ End(m) <= top
         /\ Joined(p, m) = Run(JoinedFrom(p, pf, m), End(m)) /\ Follows(e, JoinedFrom(p, pf, m))
<1> DEFINE d == m.data
           f == m.from
           t == End(m)
<1>1. /\ f \in Nat /\ d \in Seq(Nat) /\ t \in Nat /\ t = f + Len(d) /\ Len(d) \in Nat
      /\ d = Run(f, t) /\ d # <<>> /\ t <= top
  BY MessagesEnd DEF IsRun, End
<1>2. Unset \notin Nat /\ Len(p) \in Nat
  BY DEF Unset
<1>3. Joined(p, m) = p \o d /\ JoinedFrom(p, pf, m) = (IF p = <<>> THEN f ELSE pf)
      /\ Follows(AfterBatch(p, pf, e), f)
  BY DEF Joined, JoinedFrom
<1> HIDE DEF d, f, t
<1>4. CASE p = <<>>
  <2>1. Joined(p, m) = d /\ JoinedFrom(p, pf, m) = f
    BY <1>1, <1>3, <1>4
  <2>2. Follows(e, f)
    BY <1>3, <1>4 DEF AfterBatch
  <2> QED BY <1>1, <2>1, <2>2 DEF t
<1>5. CASE p # <<>>
  <2>1. f = pf + Len(p)
    BY <1>2, <1>3, <1>5 DEF AfterBatch, Follows
  <2>2. p = Run(pf, f) /\ Follows(e, pf) /\ JoinedFrom(p, pf, m) = pf /\ Joined(p, m) = p \o d
    BY <1>3, <1>5, <2>1
  <2>3. pf <= f /\ f <= t
    BY <1>1, <1>2, <2>1
  <2> DEFINE b == p \o d
  <2>4. b = Run(pf, t)
    <3>1. Run(pf, f) \o Run(f, t) = Run(pf, t)
      BY <1>1, <2>3, RunJoins
    <3> QED BY <1>1, <2>2, <3>1
  <2>5. b \in Seq(Nat) /\ Len(b) = Len(p) + Len(d)
    BY <1>1
  <2> HIDE DEF b
  <2>6. pf + Len(b) = t
    BY <1>1, <1>2, <2>1, <2>5
  <2>7. Len(d) # 0
    BY <1>1
  <2>8. Len(b) # 0
    BY <1>1, <1>2, <2>5, <2>7
  <2>9. b # <<>>
    BY <2>8
  <2> QED BY <1>1, <2>2, <2>4, <2>5, <2>6, <2>9 DEF b, t
<1> QED BY <1>4, <1>5

\* The chunk a task takes continues its batch.
LEMMA ChunkContinues ==
  ASSUME TypeOK, NEW s \in Stream, TaskOk(s), NEW e \in Offset, TaskFrom(s, e), task[s] = "recv",
         rx[s] # <<>>, NEW m, m = Head(rx[s]), m.kind = "out",
         NEW bytes, bytes = Joined(pending[s], m),
         NEW from, from = JoinedFrom(pending[s], pendingFrom[s], m)
  PROVE  /\ bytes \in Seq(Nat) /\ from \in Nat /\ bytes # <<>>
         /\ from + Len(bytes) <= produced
         /\ bytes = Run(from, from + Len(bytes)) /\ Follows(e, from)
         /\ ChannelFrom(Tail(rx[s]), from + Len(bytes), Ends)
         /\ sub = s => AfterChannel(Tail(rx[s]), from + Len(bytes), Len(Tail(rx[s]))) \in {Unset, produced}
<1> DEFINE r == rx[s]
           p == pending[s]
           pf == pendingFrom[s]
           c == AfterBatch(p, pf, e)
           ends == Ends
<1>1. /\ r \in Seq(SubMsg) /\ r # <<>> /\ p \in Seq(Nat) /\ pf \in Nat
      /\ hand[s] = <<>> /\ produced \in Nat
  BY Bounds DEF TypeOK, TaskOk
<1>2. m = r[1] /\ m \in SubMsg /\ Len(r) \in Nat \ {0}
  <2>1. Head(r) = r[1] /\ r[1] \in SubMsg /\ Len(r) \in Nat \ {0}
    BY <1>1, Tailed
  <2> QED BY <2>1
<1>3. IsRun(m, produced)
  <2>1. 1 \in 1..Len(rx[s]) /\ rx[s][1].kind = "out"
    BY <1>2
  <2> QED BY <1>2, <2>1 DEF TaskOk
<1>4. p # <<>> => p = Run(pf, pf + Len(p))
  BY DEF TaskOk, IsRun, Frame, End
<1>5. ToBatch(s, e) = e /\ ToChannel(s, e) = c
  BY <1>1 DEF ToBatch, ToChannel, AfterHand
<1>6. /\ ChannelFrom(r, c, ends)
      /\ p # <<>> => Follows(e, pf)
      /\ sub = s => AfterChannel(r, c, Len(r)) \in {Unset, produced}
  BY <1>5 DEF TaskFrom
<1>7. Head(r) = m
  OBVIOUS
<1> HIDE DEF r, c, ends, p, pf
<1>8. /\ Follows(c, m.from) /\ ChannelFrom(Tail(r), End(m), ends)
      /\ AfterChannel(Tail(r), End(m), Len(Tail(r))) = AfterChannel(r, c, Len(r))
  <2>1. r \in Seq(SubMsg) /\ r # <<>>
    BY <1>1
  <2>3. ChannelFrom(r, c, ends)
    BY <1>6
  <2>2. /\ IF Head(r).kind = "out" THEN Follows(c, Head(r).from) ELSE c \in ends
        /\ ChannelFrom(Tail(r), End(Head(r)), ends)
        /\ AfterChannel(Tail(r), End(Head(r)), Len(Tail(r))) = AfterChannel(r, c, Len(r))
    BY <2>1, <2>3, ChannelShrinks
  <2> QED BY <1>7, <2>2
<1>9. /\ Joined(p, m) \in Seq(Nat) /\ JoinedFrom(p, pf, m) \in Nat /\ Joined(p, m) # <<>>
      /\ JoinedFrom(p, pf, m) + Len(Joined(p, m)) = End(m) /\ End(m) <= produced
      /\ Joined(p, m) = Run(JoinedFrom(p, pf, m), End(m)) /\ Follows(e, JoinedFrom(p, pf, m))
  <2>1. Follows(AfterBatch(p, pf, e), m.from)
    BY <1>8 DEF c
  <2> QED BY <1>1, <1>2, <1>3, <1>4, <1>6, <2>1, ChunkJoins
<1>10. bytes = Joined(p, m) /\ from = JoinedFrom(p, pf, m)
  BY DEF p, pf
<1>11. /\ bytes \in Seq(Nat) /\ from \in Nat /\ bytes # <<>> /\ from + Len(bytes) = End(m)
       /\ End(m) <= produced /\ bytes = Run(from, End(m)) /\ Follows(e, from)
  BY <1>9, <1>10
<1> QED BY <1>6, <1>8, <1>11 DEF r, ends

LEMMA RecvOutStep ==
  ASSUME Everything, NEW s \in Stream, RecvOut(s)
  PROVE  Everything'
<1> USE DEF Everything, FramesKept
<1> DEFINE m == Head(rx[s])
           bytes == Joined(pending[s], m)
           from == JoinedFrom(pending[s], pendingFrom[s], m)
           frame == Frame(s, from, bytes)
<1>1. /\ task[s] = "recv" /\ rx[s] # <<>> /\ m.kind = "out" /\ rx' = [rx EXCEPT ![s] = Tail(@)]
      /\ pendingFrom' = [pendingFrom EXCEPT ![s] = from]
      /\ UNCHANGED <<sessionVars, outq, link, clientVars>>
  BY DEF RecvOut, JoinedFrom
<1>2. \/ /\ pending' = [pending EXCEPT ![s] = <<>>] /\ flushAt' = [flushAt EXCEPT ![s] = FALSE]
         /\ hand' = [hand EXCEPT ![s] = <<frame>>] /\ task' = [task EXCEPT ![s] = "push"]
      \/ /\ pending' = [pending EXCEPT ![s] = bytes] /\ flushAt' = [flushAt EXCEPT ![s] = TRUE]
         /\ UNCHANGED <<task, hand>>
  BY DEF RecvOut, Pushes, Joined, JoinedFrom
<1>3. PICK e0 \in Offset : TaskFrom(s, e0)
  BY DEF StreamsKept, StreamKept
<1>4. /\ bytes \in Seq(Nat) /\ from \in Nat /\ bytes # <<>> /\ from + Len(bytes) <= produced
      /\ bytes = Run(from, from + Len(bytes))
  <2>1. TypeOK /\ TaskOk(s)
    OBVIOUS
  <2> QED BY <1>1, <1>3, <2>1, ChunkContinues
<1>5. \A e \in Offset : TaskFrom(s, e) =>
        /\ Follows(e, from) /\ ChannelFrom(Tail(rx[s]), from + Len(bytes), Ends)
        /\ sub = s => AfterChannel(Tail(rx[s]), from + Len(bytes), Len(Tail(rx[s]))) \in {Unset, produced}
  <2>1. TypeOK /\ TaskOk(s)
    OBVIOUS
  <2> QED BY <1>1, <2>1, ChunkContinues
<1> HIDE DEF m, bytes, from
<1>6. /\ frame \in Message /\ frame.kind = "frame" /\ frame.stream = s /\ frame.from = from
      /\ frame.data = bytes /\ End(frame) = from + Len(bytes) /\ IsRun(frame, produced)
  BY <1>4 DEF Frame, Message, IsRun, End
<1>7. /\ rx[s] \in Seq(SubMsg) /\ Tail(rx[s]) \in Seq(SubMsg) /\ rx'[s] = Tail(rx[s]) /\ Len(rx[s]) \in Nat \ {0}
      /\ Len(Tail(rx[s])) = Len(rx[s]) - 1 /\ \A i \in 1..Len(rx[s]) - 1 : Tail(rx[s])[i] = rx[s][i + 1]
  <2>1. rx[s] \in Seq(SubMsg) /\ rx'[s] = Tail(rx[s])
    BY <1>1 DEF TypeOK
  <2> QED BY <1>1, <2>1, Tailed
<1>8. /\ hand[s] = <<>> /\ pendingFrom'[s] = from
      /\ \/ pending'[s] = <<>> /\ flushAt'[s] = FALSE /\ hand'[s] = <<frame>> /\ task'[s] = "push"
         \/ pending'[s] = bytes /\ flushAt'[s] = TRUE /\ hand'[s] = <<>> /\ task'[s] = "recv"
      /\ \A t \in Stream \ {s} : Same(t)
  BY <1>1, <1>2 DEF TypeOK, TaskOk, Same
<1> HIDE DEF frame
<1>9. TypeOK'
  <2>1. rx' \in [Stream -> Seq(SubMsg)] /\ \A t \in Stream : Len(rx'[t]) <= SUB_CAP
    <3>1. SUB_CAP \in Nat
      BY FramesAssumption
    <3> QED BY <1>1, <1>7, <3>1 DEF TypeOK
  <2>2. <<>> \in Seq(Nat) /\ <<frame>> \in Seq(Message)
    BY <1>6
  <2>3. /\ pending' \in [Stream -> Seq(Nat)] /\ hand' \in [Stream -> Seq(Message)]
        /\ flushAt' \in [Stream -> BOOLEAN] /\ task' \in [Stream -> {"unused", "recv", "push", "ended"}]
        /\ pendingFrom' \in [Stream -> Nat]
    <3>1. /\ pending \in [Stream -> Seq(Nat)] /\ hand \in [Stream -> Seq(Message)]
          /\ flushAt \in [Stream -> BOOLEAN] /\ task \in [Stream -> {"unused", "recv", "push", "ended"}]
          /\ pendingFrom \in [Stream -> Nat]
      BY DEF TypeOK
    <3>2. pendingFrom' = [pendingFrom EXCEPT ![s] = from] /\ from \in Nat /\ bytes \in Seq(Nat)
      BY <1>1, <1>4
    <3> HIDE DEF Everything, FramesKept
    <3>3. CASE /\ pending' = [pending EXCEPT ![s] = <<>>] /\ flushAt' = [flushAt EXCEPT ![s] = FALSE]
               /\ hand' = [hand EXCEPT ![s] = <<frame>>] /\ task' = [task EXCEPT ![s] = "push"]
      BY <2>2, <3>1, <3>2, <3>3
    <3>4. CASE /\ pending' = [pending EXCEPT ![s] = bytes] /\ flushAt' = [flushAt EXCEPT ![s] = TRUE]
               /\ UNCHANGED <<task, hand>>
      BY <3>1, <3>2, <3>4
    <3> QED BY <1>2, <3>3, <3>4
  <2> QED BY <1>1, <2>1, <2>3 DEF TypeOK, sessionVars, clientVars
<1>10. TaskOk(s)'
  <2>1. UNCHANGED <<produced, exited, sub>>
    BY <1>1 DEF sessionVars
  <2>2. \A i \in 1..Len(rx'[s]) : IF rx'[s][i].kind = "out" THEN IsRun(rx'[s][i], produced)
                                  ELSE i = Len(rx'[s]) /\ exited /\ sub # s
    <3>1. \A i \in 1..Len(rx'[s]) : i \in 1..Len(rx[s]) - 1 /\ i + 1 \in 1..Len(rx[s]) /\ rx'[s][i] = rx[s][i + 1]
      BY <1>7
    <3> QED BY <1>7, <3>1 DEF TaskOk
  <2>3. CASE hand'[s] = <<frame>>
    <3>1. Len(<<frame>>) = 1 /\ <<frame>>[1] = frame /\ <<frame>> # <<>>
      OBVIOUS
    <3> QED BY <1>6, <1>8, <2>1, <2>2, <2>3, <3>1 DEF TaskOk
  <2>4. CASE pending'[s] = bytes /\ flushAt'[s] = TRUE /\ hand'[s] = <<>> /\ task'[s] = "recv"
    <3>1. IsRun(Frame(s, pendingFrom'[s], pending'[s]), produced)
      BY <1>6, <1>8, <2>4 DEF frame
    <3> QED BY <1>4, <2>1, <2>2, <2>4, <3>1 DEF TaskOk
  <2> QED BY <1>8, <2>3, <2>4
<1>11. ASSUME NEW e \in Offset, TaskFrom(s, e) PROVE TaskFrom(s, e)'
  <2>1. /\ Follows(e, from) /\ ChannelFrom(Tail(rx[s]), from + Len(bytes), Ends)
        /\ sub = s => AfterChannel(Tail(rx[s]), from + Len(bytes), Len(Tail(rx[s]))) \in {Unset, produced}
    BY <1>5, <1>11
  <2>2. Ends' = Ends /\ sub' = sub /\ produced' = produced
    BY <1>1 DEF Ends, sessionVars
  <2>3. CASE pending'[s] = <<>> /\ hand'[s] = <<frame>>
    <3>1. Len(<<frame>>) = 1 /\ <<frame>>[1] = frame /\ <<frame>> # <<>>
      OBVIOUS
    <3>2. AfterHand(hand'[s], e) = End(frame) /\ HandFrom(hand'[s], e, Ends)
      BY <1>6, <2>1, <2>3, <3>1 DEF AfterHand, HandFrom
    <3>3. ToBatch(s, e)' = End(frame) /\ ToChannel(s, e)' = from + Len(bytes)
      BY <1>6, <2>3, <3>2 DEF ToBatch, ToChannel, AfterBatch
    <3> QED BY <1>7, <2>1, <2>2, <2>3, <3>2, <3>3 DEF TaskFrom
  <2>4. CASE pending'[s] = bytes /\ hand'[s] = <<>>
    <3>1. AfterHand(hand'[s], e) = e /\ HandFrom(hand'[s], e, Ends)
      BY <2>4 DEF AfterHand, HandFrom
    <3>2. ToBatch(s, e)' = e /\ ToChannel(s, e)' = from + Len(bytes)
      BY <1>4, <1>8, <2>4, <3>1 DEF ToBatch, ToChannel, AfterBatch
    <3> QED BY <1>7, <1>8, <2>1, <2>2, <2>4, <3>1, <3>2 DEF TaskFrom
  <2> QED BY <1>8, <2>3, <2>4
<1> QED BY <1>1, <1>8, <1>9, <1>10, <1>11, OwnStep

\* The batch moves to the hand, whatever goes out behind it.
LEMMA BatchMoves ==
  ASSUME TypeOK, NEW s \in Stream, TaskOk(s), hand[s] = <<>>, task[s] = "recv"
  PROVE  /\ Batch(s) \in Seq(Message) /\ Len(Batch(s)) \in {0, 1}
         /\ \A i \in 1..Len(Batch(s)) : /\ i = 1 /\ Batch(s)[i].kind = "frame" /\ Batch(s)[i].stream = s
                                        /\ IsRun(Batch(s)[i], produced)
         /\ \A e : TaskFrom(s, e) =>
              /\ HandFrom(Batch(s), e, Ends)
              /\ AfterHand(Batch(s), e) = ToChannel(s, e)
<1> DEFINE p == pending[s]
           pf == pendingFrom[s]
           f == Frame(s, pf, p)
<1>0. p \in Seq(Nat) /\ pf \in Nat
  BY DEF TypeOK
<1>1. CASE p = <<>>
  <2>1. Batch(s) = <<>>
    BY <1>1 DEF Batch
  <2>2. <<>> \in Seq(Message) /\ Len(<<>>) = 0 /\ 1..Len(<<>>) = {}
    OBVIOUS
  <2>3. \A e : HandFrom(<<>>, e, Ends) /\ AfterHand(<<>>, e) = e
    BY <2>2 DEF HandFrom, AfterHand
  <2>4. \A e : ToChannel(s, e) = e
    BY <1>1 DEF ToChannel, ToBatch, AfterHand, AfterBatch
  <2> QED BY <2>1, <2>2, <2>3, <2>4
<1>2. CASE p # <<>>
  <2> DEFINE q == <<f>>
  <2>1. Batch(s) = q
    BY <1>2 DEF Batch
  <2>2. f \in Message /\ f.kind = "frame" /\ f.stream = s /\ f.from = pf /\ End(f) = pf + Len(p)
    BY <1>0 DEF Frame, Message, End
  <2>3. IsRun(f, produced)
    BY <1>2 DEF TaskOk
  <2> HIDE DEF f
  <2>4. q \in Seq(Message) /\ Len(q) = 1 /\ q[1] = f /\ q # <<>>
    BY <2>2
  <2> HIDE DEF q
  <2>5. \A i \in 1..Len(q) : i = 1
    BY <2>4
  <2>6. ASSUME NEW e, TaskFrom(s, e) PROVE HandFrom(q, e, Ends) /\ AfterHand(q, e) = ToChannel(s, e)
    <3>1. ToBatch(s, e) = e /\ ToChannel(s, e) = pf + Len(p)
      BY <1>2 DEF ToBatch, AfterHand, ToChannel, AfterBatch
    <3>2. Follows(e, pf)
      BY <1>2, <2>6, <3>1 DEF TaskFrom
    <3> QED BY <2>2, <2>4, <2>5, <3>1, <3>2 DEF HandFrom, AfterHand
  <2> QED BY <2>1, <2>2, <2>3, <2>4, <2>5, <2>6
<1> QED BY <1>1, <1>2

\* The window ends: the batch goes out.
LEMMA FlushStep ==
  ASSUME Everything, NEW s \in Stream, task[s] = "recv", flushAt[s], Pushes(s, Batch(s)), NoBatch(s),
         UNCHANGED <<sessionVars, rx, outq, link, clientVars>>
  PROVE  Everything'
<1> USE DEF Everything, FramesKept
<1> DEFINE q == Batch(s)
<1>1. /\ hand[s] = <<>> /\ pending[s] # <<>>
      /\ hand' = [hand EXCEPT ![s] = q] /\ task' = [task EXCEPT ![s] = "push"]
      /\ pending' = [pending EXCEPT ![s] = <<>>] /\ flushAt' = [flushAt EXCEPT ![s] = FALSE]
      /\ UNCHANGED <<pendingFrom, rx, produced, exited, sub, outq, link, seen, got, phase>>
  BY DEF TaskOk, Pushes, NoBatch, sessionVars, clientVars
<1>2. /\ q \in Seq(Message) /\ Len(q) \in {0, 1}
      /\ \A i \in 1..Len(q) : i = 1 /\ q[i].kind = "frame" /\ q[i].stream = s /\ IsRun(q[i], produced)
      /\ \A e : TaskFrom(s, e) => HandFrom(q, e, Ends) /\ AfterHand(q, e) = ToChannel(s, e)
  <2>1. TypeOK /\ TaskOk(s)
    OBVIOUS
  <2> QED BY <1>1, <2>1, BatchMoves
<1>3. q # <<>>
  <2>1. q = <<Frame(s, pendingFrom[s], pending[s])>>
    BY <1>1 DEF Batch
  <2> QED BY <2>1
<1> HIDE DEF q
<1>4. /\ hand'[s] = q /\ task'[s] = "push" /\ pending'[s] = <<>> /\ flushAt'[s] = FALSE
      /\ \A t \in Stream \ {s} : Same(t)
  BY <1>1 DEF Same, TypeOK
<1>5. TypeOK'
  <2>1. /\ hand' \in [Stream -> Seq(Message)] /\ pending' \in [Stream -> Seq(Nat)]
        /\ flushAt' \in [Stream -> BOOLEAN] /\ task' \in [Stream -> {"unused", "recv", "push", "ended"}]
    <3>1. /\ pending \in [Stream -> Seq(Nat)] /\ hand \in [Stream -> Seq(Message)]
          /\ flushAt \in [Stream -> BOOLEAN] /\ task \in [Stream -> {"unused", "recv", "push", "ended"}]
          /\ <<>> \in Seq(Nat)
      BY DEF TypeOK
    <3> HIDE DEF Everything, FramesKept
    <3> QED BY <1>1, <1>2, <3>1
  <2> QED BY <1>1, <2>1 DEF TypeOK
<1>6. TaskOk(s)'
  BY <1>1, <1>2, <1>3, <1>4 DEF TaskOk
<1>7. ASSUME NEW e \in Offset, TaskFrom(s, e) PROVE TaskFrom(s, e)'
  <2>1. HandFrom(q, e, Ends) /\ AfterHand(q, e) = ToChannel(s, e)
    BY <1>2, <1>7
  <2>2. Ends' = Ends /\ ToChannel(s, e)' = ToChannel(s, e)
    BY <1>1, <1>4, <2>1 DEF Ends, ToChannel, ToBatch, AfterBatch
  <2> QED BY <1>1, <1>4, <1>7, <2>1, <2>2 DEF TaskFrom
<1> QED BY <1>4, <1>5, <1>6, <1>7, OwnStep

\* The exit comes: the batch goes out before it.
LEMMA RecvExitStep ==
  ASSUME Everything, NEW s \in Stream, RecvExit(s)
  PROVE  Everything'
<1> USE DEF Everything, FramesKept
<1> DEFINE q == Batch(s)
           x == ExitEvent(s)
           z == Append(q, x)
<1>1. /\ task[s] = "recv" /\ hand[s] = <<>> /\ rx[s] # <<>> /\ Head(rx[s]) = Exit
      /\ rx' = [rx EXCEPT ![s] = Tail(@)]
      /\ hand' = [hand EXCEPT ![s] = q \o <<x>>] /\ task' = [task EXCEPT ![s] = "push"]
      /\ pending' = [pending EXCEPT ![s] = <<>>] /\ flushAt' = [flushAt EXCEPT ![s] = FALSE]
      /\ UNCHANGED <<pendingFrom, produced, exited, sub, outq, link, seen, got, phase>>
  BY DEF RecvExit, TaskOk, Pushes, NoBatch, sessionVars, clientVars
<1>2. /\ q \in Seq(Message) /\ Len(q) \in {0, 1}
      /\ \A i \in 1..Len(q) : i = 1 /\ q[i].kind = "frame" /\ q[i].stream = s /\ IsRun(q[i], produced)
      /\ \A e : TaskFrom(s, e) => HandFrom(q, e, Ends) /\ AfterHand(q, e) = ToChannel(s, e)
  <2>1. TypeOK /\ TaskOk(s)
    OBVIOUS
  <2> QED BY <1>1, <2>1, BatchMoves
<1>3. x \in Message /\ x.kind = "exit" /\ x.stream = s
  <2>1. <<>> \in Seq(Nat)
    OBVIOUS
  <2> QED BY <2>1 DEF ExitEvent, Message
<1>4. q \o <<x>> = z
  BY <1>2, <1>3, AppendProperties
<1> HIDE DEF q, x
<1>5. /\ z \in Seq(Message) /\ Len(z) = Len(q) + 1 /\ z[Len(q) + 1] = x
      /\ \A i \in 1..Len(q) : z[i] = q[i]
  BY <1>2, <1>3, Appended
<1> HIDE DEF z
<1>6. /\ hand'[s] = z /\ task'[s] = "push" /\ pending'[s] = <<>> /\ flushAt'[s] = FALSE
      /\ \A t \in Stream \ {s} : Same(t)
  BY <1>1, <1>4 DEF Same, TypeOK
<1>7. /\ rx[s] \in Seq(SubMsg) /\ Len(rx[s]) \in Nat \ {0} /\ rx[s][1] = Exit
      /\ rx'[s] = Tail(rx[s]) /\ Len(Tail(rx[s])) = Len(rx[s]) - 1
      /\ Tail(rx[s]) \in Seq(SubMsg)
  <2>1. rx[s] \in Seq(SubMsg) /\ rx'[s] = Tail(rx[s])
    BY <1>1 DEF TypeOK
  <2>2. Head(rx[s]) = rx[s][1] /\ Len(rx[s]) \in Nat \ {0} /\ Len(Tail(rx[s])) = Len(rx[s]) - 1
        /\ Tail(rx[s]) \in Seq(SubMsg)
    BY <1>1, <2>1, Tailed
  <2> QED BY <1>1, <2>1, <2>2
<1>8. Len(rx[s]) = 1 /\ exited /\ sub # s
  <2>1. 1 \in 1..Len(rx[s]) /\ rx[s][1].kind # "out"
    BY <1>7 DEF Exit
  <2>2. \A i \in 1..Len(rx[s]) : rx[s][i].kind # "out" => i = Len(rx[s]) /\ exited /\ sub # s
    BY DEF TaskOk
  <2> QED BY <2>1, <2>2
<1>9. rx'[s] = <<>> /\ 1..Len(rx'[s]) = {}
  <2>1. \A S : \A r \in Seq(S) : Len(r) = 0 => r = <<>> /\ 1..Len(r) = {}
    BY EmptySeq
  <2>2. rx'[s] \in Seq(SubMsg) /\ Len(rx'[s]) = 0
    BY <1>7, <1>8
  <2> QED BY <2>1, <2>2
<1>10. TypeOK'
  <2>1. rx' \in [Stream -> Seq(SubMsg)] /\ \A t \in Stream : Len(rx'[t]) <= SUB_CAP
    <3>1. SUB_CAP \in Nat
      BY FramesAssumption
    <3> QED BY <1>1, <1>7, <1>8, <3>1 DEF TypeOK
  <2>2. hand' = [hand EXCEPT ![s] = z]
    BY <1>1, <1>4
  <2>3. /\ hand' \in [Stream -> Seq(Message)] /\ pending' \in [Stream -> Seq(Nat)]
        /\ flushAt' \in [Stream -> BOOLEAN] /\ task' \in [Stream -> {"unused", "recv", "push", "ended"}]
    <3>1. <<>> \in Seq(Nat) /\ z \in Seq(Message)
      BY <1>5
    <3> QED BY <1>1, <2>2, <3>1 DEF TypeOK
  <2> QED BY <1>1, <2>1, <2>3 DEF TypeOK
<1>11. \A i \in 1..Len(z) : i \in 1..Len(q) \/ i = Len(q) + 1
  BY <1>2, <1>5
<1>12. Len(z) # 0 /\ Len(z) <= 2 /\ z # <<>>
  BY <1>2, <1>5
<1>13. TaskOk(s)'
  <2>1. ASSUME NEW i \in 1..Len(z)
        PROVE  /\ z[i].stream = s
               /\ IF z[i].kind = "frame" THEN i = 1 /\ IsRun(z[i], produced)
                  ELSE /\ i = Len(z) /\ z[i] = ExitEvent(s)
                       /\ i # 1 => i = 2 /\ z[1].kind = "frame"
    <3>1. CASE i \in 1..Len(q)
      BY <1>2, <1>5, <3>1
    <3>2. CASE i = Len(q) + 1
      <4>1. z[i] = x /\ z[i].kind # "frame" /\ z[i].stream = s /\ i = Len(z)
        BY <1>3, <1>5, <3>2
      <4>2. i # 1 => Len(q) = 1 /\ i = 2 /\ 1 \in 1..Len(q)
        <5> HIDE DEF Everything, FramesKept
        <5>1. Len(q) = 0 \/ Len(q) = 1
          BY <1>2
        <5>2. CASE Len(q) = 0
          BY <3>2, <5>2
        <5>3. CASE Len(q) = 1
          BY <3>2, <5>3
        <5> QED BY <5>1, <5>2, <5>3
      <4>3. i # 1 => z[1].kind = "frame"
        BY <1>2, <1>5, <4>2
      <4> QED BY <4>1, <4>2, <4>3 DEF x
    <3> QED BY <1>11, <3>1, <3>2
  <2> QED BY <1>1, <1>6, <1>8, <1>9, <1>12, <2>1 DEF TaskOk
<1>14. ASSUME NEW e \in Offset, TaskFrom(s, e) PROVE TaskFrom(s, e)'
  <2>1. HandFrom(q, e, Ends) /\ AfterHand(q, e) = ToChannel(s, e)
    BY <1>2, <1>14
  <2>2. AfterHand(z, e) = AfterHand(q, e)
    <3>1. CASE Len(q) = 0
      <4>1. z[1] = x /\ x.kind # "frame" /\ q = <<>>
        BY <1>2, <1>3, <1>5, <3>1
      <4> QED BY <4>1 DEF AfterHand
    <3>2. CASE Len(q) # 0
      <4>1. z[1] = q[1] /\ q # <<>>
        BY <1>2, <1>5, <3>2
      <4> QED BY <1>12, <4>1 DEF AfterHand
    <3> QED BY <3>1, <3>2
  <2>3. ToChannel(s, e) \in Ends
    <3>1. ChannelFrom(rx[s], ToChannel(s, e), Ends)
      BY <1>14 DEF TaskFrom
    <3>2. 1 \in 1..Len(rx[s]) /\ rx[s][1].kind # "out" /\ 1 - 1 = 0
      BY <1>7 DEF Exit
    <3> QED BY <3>1, <3>2 DEF ChannelFrom, AfterChannel
  <2>4. HandFrom(z, e, Ends)
    <3>1. \A i \in 1..Len(q) : z[i].kind = "frame" /\ Follows(e, z[i].from)
      BY <1>2, <1>5, <2>1 DEF HandFrom
    <3>2. z[Len(q) + 1].kind # "frame" /\ AfterHand(z, e) \in Ends
      BY <1>3, <1>5, <2>1, <2>2, <2>3
    <3> QED BY <1>11, <3>1, <3>2 DEF HandFrom
  <2>5. Ends' = Ends
    BY <1>1 DEF Ends
  <2>6. ChannelFrom(rx'[s], ToChannel(s, e)', Ends)
    BY <1>9 DEF ChannelFrom
  <2> QED BY <1>1, <1>6, <1>8, <2>4, <2>5, <2>6 DEF TaskFrom
<1> QED BY <1>1, <1>6, <1>10, <1>13, <1>14, OwnStep DEF sessionVars, clientVars

LEMMA RecvNoneStep ==
  ASSUME Everything, NEW s \in Stream, RecvNone(s)
  PROVE  Everything'
<1> USE DEF Everything, FramesKept
<1>1. CASE flushAt[s]
  BY <1>1, FlushStep DEF RecvNone
<1>2. CASE ~flushAt[s]
  <2>1. /\ task[s] = "recv" /\ rx[s] = <<>> /\ sub # s /\ hand[s] = <<>> /\ pending[s] = <<>>
        /\ task' = [task EXCEPT ![s] = "ended"]
        /\ UNCHANGED <<pending, pendingFrom, flushAt, hand, rx, sessionVars, outq, link, clientVars>>
    BY <1>2 DEF RecvNone, TaskOk, batchVars
  <2>2. task'[s] = "ended" /\ \A t \in Stream \ {s} : Same(t)
    BY <2>1 DEF Same, TypeOK
  <2>3. TypeOK'
    BY <2>1 DEF TypeOK, sessionVars, clientVars
  <2>4. TaskOk(s)'
    BY <2>1, <2>2 DEF TaskOk, sessionVars
  <2> QED BY <2>1, <2>2, <2>3, <2>4, OwnStep
<1> QED BY <1>1, <1>2

LEMMA TaskSteps ==
  ASSUME Everything, NEW s \in Stream, TaskStep(s)
  PROVE  Everything'
<1>1. CASE WindowEnds(s)
  BY <1>1, FlushStep DEF WindowEnds
<1> QED BY <1>1, RecvOutStep, RecvExitStep, RecvNoneStep DEF TaskStep

-----------------------------------------------------------------------------
(* The queue: a task pushes at its end, the writer takes from its front. *)

LEMMA QueueGrows ==
  ASSUME NEW q \in Seq(Message), NEW m \in Message, NEW t, NEW from, NEW e, NEW f \in Offset, NEW ends,
         QueueTo(q, t, from, e, ends), Carries(m, t, e, f, ends)
  PROVE  QueueTo(Append(q, m), t, from, f, ends)
<1> DEFINE z == Append(q, m)
           n == Len(q)
<1>1. n \in Nat /\ Len(z) = n + 1 /\ z[n + 1] = m /\ \A i \in 1..n : z[i] = q[i]
  BY Appended
<1>2. PICK pos \in [0..n -> Offset] :
        /\ pos[0] = from /\ pos[n] = e
        /\ \A i \in 1..n : Carries(q[i], t, pos[i - 1], pos[i], ends)
  BY DEF QueueTo
<1> HIDE DEF z, n
<1> DEFINE pos2 == [i \in 0..n + 1 |-> IF i = n + 1 THEN f ELSE pos[i]]
<1>3. /\ pos2 \in [0..n + 1 -> Offset] /\ pos2[n + 1] = f
      /\ \A i \in 0..n : pos2[i] = pos[i]
  BY <1>1, <1>2
<1> HIDE DEF pos2
<1>4. pos2[0] = from
  BY <1>1, <1>2, <1>3
<1>5. ASSUME NEW i \in 1..n PROVE Carries(z[i], t, pos2[i - 1], pos2[i], ends)
  <2>1. i - 1 \in 0..n /\ i \in 0..n
    BY <1>1
  <2>2. z[i] = q[i] /\ pos2[i - 1] = pos[i - 1] /\ pos2[i] = pos[i]
    BY <1>1, <1>3, <2>1
  <2> QED BY <1>2, <2>2
<1>6. Carries(z[n + 1], t, pos2[(n + 1) - 1], pos2[n + 1], ends)
  <2>1. (n + 1) - 1 = n /\ n \in 0..n
    BY <1>1
  <2>2. z[n + 1] = m /\ pos2[(n + 1) - 1] = e /\ pos2[n + 1] = f
    BY <1>1, <1>2, <1>3, <2>1
  <2> QED BY <2>2
<1>7. \A i \in 1..n + 1 : i \in 1..n \/ i = n + 1
  BY <1>1
<1>8. \A i \in 1..n + 1 : Carries(z[i], t, pos2[i - 1], pos2[i], ends)
  BY <1>5, <1>6, <1>7
<1> QED BY <1>1, <1>3, <1>4, <1>8 DEF QueueTo, z

LEMMA QueueShrinks ==
  ASSUME NEW q \in Seq(Message), q # <<>>, NEW t, NEW from, NEW e, NEW ends,
         QueueTo(q, t, from, e, ends)
  PROVE  \E f \in Offset : /\ Carries(Head(q), t, from, f, ends)
                           /\ QueueTo(Tail(q), t, f, e, ends)
<1> DEFINE z == Tail(q)
           n == Len(q)
<1>1. n \in Nat \ {0} /\ Len(z) = n - 1 /\ Head(q) = q[1] /\ \A i \in 1..n - 1 : z[i] = q[i + 1]
  BY Tailed
<1>2. PICK pos \in [0..n -> Offset] :
        /\ pos[0] = from /\ pos[n] = e
        /\ \A i \in 1..n : Carries(q[i], t, pos[i - 1], pos[i], ends)
  BY DEF QueueTo
<1> HIDE DEF z, n
<1> DEFINE pos2 == [i \in 0..n - 1 |-> pos[i + 1]]
<1>3. /\ pos2 \in [0..n - 1 -> Offset]
      /\ \A i \in 0..n - 1 : pos2[i] = pos[i + 1]
  <2>1. \A i \in 0..n - 1 : i + 1 \in 0..n
    BY <1>1
  <2> QED BY <1>2, <2>1
<1> HIDE DEF pos2
<1>4. pos2[0] = pos[1] /\ pos2[n - 1] = e /\ pos[1] \in Offset
  <2>1. 0 \in 0..n - 1 /\ n - 1 \in 0..n - 1 /\ (n - 1) + 1 = n /\ 0 + 1 = 1 /\ 1 \in 0..n
    BY <1>1
  <2> QED BY <1>2, <1>3, <2>1
<1>5. ASSUME NEW i \in 1..n - 1 PROVE Carries(z[i], t, pos2[i - 1], pos2[i], ends)
  <2>1. i - 1 \in 0..n - 1 /\ i \in 0..n - 1 /\ i + 1 \in 1..n /\ (i - 1) + 1 = i /\ (i + 1) - 1 = i
    BY <1>1
  <2>2. z[i] = q[i + 1] /\ pos2[i - 1] = pos[i] /\ pos2[i] = pos[i + 1]
    BY <1>1, <1>3, <2>1
  <2>3. Carries(q[i + 1], t, pos[(i + 1) - 1], pos[i + 1], ends)
    BY <1>2, <2>1
  <2> QED BY <2>1, <2>2, <2>3
<1>6. Carries(Head(q), t, from, pos[1], ends)
  <2>1. 1 \in 1..n /\ 1 - 1 = 0
    BY <1>1
  <2> QED BY <1>1, <1>2, <2>1
<1>7. QueueTo(z, t, pos[1], e, ends)
  BY <1>1, <1>3, <1>4, <1>5 DEF QueueTo
<1> QED BY <1>4, <1>6, <1>7 DEF z

\* A task pushes the first of its messages.
LEMMA PushUp ==
  ASSUME Everything, NEW s \in Stream, Push(s), link = "up"
  PROVE  Everything'
<1> USE DEF Everything, FramesKept
<1> DEFINE h == hand[s]
           m == Head(h)
           z == Tail(h)
<1>1. /\ task[s] = "push" /\ Len(outq) < OUT_CAP /\ outq' = Append(outq, m)
      /\ hand' = [hand EXCEPT ![s] = z]
      /\ task' = [task EXCEPT ![s] = IF z # <<>> THEN "push" ELSE IF m.kind = "exit" THEN "ended" ELSE "recv"]
      /\ UNCHANGED <<rx, produced, exited, sub, pending, pendingFrom, flushAt, link, seen, got, phase>>
  BY DEF Push, sessionVars, batchVars, clientVars
<1>2. /\ h \in Seq(Message) /\ h # <<>> /\ pending[s] = <<>> /\ phase[s] = "open"
      /\ flushAt[s] = FALSE /\ outq \in Seq(Message)
  <2>1. TaskOk(s) /\ PhaseOk(s) /\ h \in Seq(Message) /\ outq \in Seq(Message) /\ flushAt[s] \in BOOLEAN
    BY DEF TypeOK
  <2> QED BY <1>1, <2>1 DEF TaskOk, PhaseOk
<1>3. \A i \in 1..Len(h) :
        /\ h[i].stream = s
        /\ IF h[i].kind = "frame" THEN i = 1 /\ IsRun(h[i], produced)
           ELSE /\ i = Len(h) /\ h[i] = ExitEvent(s) /\ exited /\ rx[s] = <<>> /\ sub # s
                /\ i # 1 => i = 2 /\ h[1].kind = "frame"
  BY DEF TaskOk
<1>b. produced \in Nat /\ MaxBytes \in Nat /\ produced <= MaxBytes /\ Unset \notin Nat
  BY Bounds
<1>o. outq' \in Seq(Message) /\ Len(outq') = Len(outq) + 1 /\ Len(outq) \in Nat
      /\ outq'[Len(outq) + 1] = Head(hand[s]) /\ \A i \in 1..Len(outq) : outq'[i] = outq[i]
  <2>1. Head(hand[s]) \in Message
    BY <1>2, Tailed
  <2> QED BY <1>1, <1>2, <2>1, Appended
<1>h. /\ hand'[s] = z
      /\ task'[s] = (IF z # <<>> THEN "push" ELSE IF m.kind = "exit" THEN "ended" ELSE "recv")
      /\ \A t \in Stream \ {s} : Same(t)
  BY <1>1 DEF Same, TypeOK
<1>4. /\ z \in Seq(Message) /\ Len(h) \in Nat \ {0} /\ Len(z) = Len(h) - 1 /\ m = h[1] /\ m \in Message
      /\ \A i \in 1..Len(h) - 1 : z[i] = h[i + 1]
  BY <1>2, Tailed
<1>5. /\ m.stream = s /\ 1 \in 1..Len(h) /\ m.kind \in {"frame", "exit"}
      /\ m.kind = "frame" => IsRun(m, produced)
      /\ m.kind = "exit" => m = ExitEvent(s) /\ exited /\ Len(h) = 1
  <2>1. m.kind \in {"frame", "exit"} /\ 1 \in 1..Len(h)
    BY <1>4, MessagesEnd
  <2> QED BY <1>3, <1>4, <2>1
<1>6. \A i \in 1..Len(z) : /\ i = 1 /\ Len(z) = 1 /\ z[i].kind = "exit" /\ z[i] = ExitEvent(s) /\ z[i].stream = s
                           /\ exited /\ rx[s] = <<>> /\ sub # s /\ h[1].kind = "frame"
                           /\ z[i] = h[2] /\ 2 \in 1..Len(h)
  <2> SUFFICES ASSUME NEW i \in 1..Len(z)
               PROVE  /\ i = 1 /\ Len(z) = 1 /\ z[i].kind = "exit" /\ z[i] = ExitEvent(s) /\ z[i].stream = s
                      /\ exited /\ rx[s] = <<>> /\ sub # s /\ h[1].kind = "frame"
                      /\ z[i] = h[2] /\ 2 \in 1..Len(h)
    OBVIOUS
  <2>1. i + 1 \in 1..Len(h) /\ i + 1 # 1 /\ z[i] = h[i + 1] /\ i \in Nat
    BY <1>4
  <2>2. h[i + 1].kind # "frame"
    BY <1>3, <2>1
  <2>3. /\ i + 1 = Len(h) /\ h[i + 1] = ExitEvent(s) /\ exited /\ rx[s] = <<>> /\ sub # s
        /\ i + 1 = 2 /\ h[1].kind = "frame"
    BY <1>3, <2>1, <2>2
  <2>4. i = 1 /\ Len(z) = 1 /\ 2 \in 1..Len(h)
    <3>1. Len(z) = Len(h) - 1
      BY <1>4
    <3>2. i + 1 = 2 /\ i \in Nat /\ Len(h) = 2
      BY <2>1, <2>3
    <3> HIDE DEF Everything, FramesKept, h, m, z
    <3> QED BY <3>1, <3>2
  <2>5. z[i] = ExitEvent(s) /\ z[i].kind = "exit" /\ z[i].stream = s /\ z[i] = h[2]
    BY <2>1, <2>3 DEF ExitEvent
  <2> QED BY <2>3, <2>4, <2>5
<1>7. z # <<>> <=> Len(z) # 0
  BY <1>4, EmptySeq
<1> HIDE DEF h, m, z
<1>8. TypeOK'
  <2>1. hand' \in [Stream -> Seq(Message)] /\ task' \in [Stream -> {"unused", "recv", "push", "ended"}]
    BY <1>1, <1>4 DEF TypeOK
  <2>2. Len(outq') <= OUT_CAP
    <3>1. OUT_CAP \in Nat
      BY FramesAssumption
    <3> HIDE DEF Everything, FramesKept
    <3> QED BY <1>1, <1>o, <3>1
  <2> QED BY <1>1, <1>o, <2>1, <2>2 DEF TypeOK
<1>9. TaskOk(s)'
  <2>1. \A i \in 1..Len(z) : z[i].kind # "frame" /\ i = Len(z)
    BY <1>6
  <2>2. \A i \in 1..Len(rx[s]) : IF rx[s][i].kind = "out" THEN IsRun(rx[s][i], produced)
                                 ELSE i = Len(rx[s]) /\ exited /\ sub # s
    BY DEF TaskOk
  <2> QED BY <1>1, <1>2, <1>6, <1>h, <2>1, <2>2 DEF TaskOk
<1>10. \A t \in Stream \ {s} : TaskOk(t)'
  BY <1>1, <1>b, <1>h, TaskStays
<1>11. \A t \in Stream : PhaseOk(t)'
  <2>1. PhaseOk(s)'
    BY <1>1, <1>2, <1>h DEF PhaseOk
  <2>2. \A t \in Stream \ {s} : PhaseOk(t)'
    BY <1>1, <1>h DEF PhaseOk, Same
  <2> QED BY <2>1, <2>2
<1>12. QueueOk'
  <2>1. outq'[Len(outq) + 1] = m
    BY <1>o DEF m, h
  <2>2. \A i \in 1..Len(outq') : i \in 1..Len(outq) \/ i = Len(outq) + 1
    BY <1>o
  <2>3. ASSUME NEW i \in 1..Len(outq)
        PROVE  /\ phase[outq[i].stream] = "open"
               /\ IF outq[i].kind = "frame" THEN IsRun(outq[i], produced)
                  ELSE /\ outq[i] = ExitEvent(outq[i].stream) /\ exited /\ task'[outq[i].stream] = "ended"
                       /\ \A k \in i + 1..Len(outq) + 1 : outq'[k].stream # outq[i].stream
    <3>1. /\ phase[outq[i].stream] = "open"
          /\ IF outq[i].kind = "frame" THEN IsRun(outq[i], produced)
             ELSE /\ outq[i] = ExitEvent(outq[i].stream) /\ exited /\ task[outq[i].stream] = "ended"
                  /\ \A k \in i + 1..Len(outq) : outq[k].stream # outq[i].stream
      BY DEF QueueOk
    <3>2. outq[i].stream \in Stream
      BY <1>2, MessagesEnd
    <3>3. CASE outq[i].kind # "frame"
      <4>1. outq[i].stream # s /\ task'[outq[i].stream] = "ended"
        BY <1>1, <1>h, <3>1, <3>2, <3>3 DEF Same
      <4>2. \A k \in i + 1..Len(outq) + 1 : (k \in i + 1..Len(outq) /\ k \in 1..Len(outq)) \/ k = Len(outq) + 1
        BY <1>o
      <4>3. \A k \in i + 1..Len(outq) + 1 : outq'[k].stream # outq[i].stream
        BY <1>5, <1>o, <2>1, <3>1, <3>3, <4>1, <4>2
      <4> QED BY <3>1, <3>3, <4>1, <4>3
    <3> QED BY <3>1, <3>3
  <2>4. /\ phase[m.stream] = "open"
        /\ IF m.kind = "frame" THEN IsRun(m, produced)
           ELSE m = ExitEvent(m.stream) /\ exited /\ task'[m.stream] = "ended"
    <3>1. m.kind = "exit" => z = <<>>
      <4>1. m.kind = "exit" => Len(h) = 1
        BY <1>5
      <4>2. Len(h) = 1 => Len(z) = 0
        BY <1>4
      <4> QED BY <1>7, <4>1, <4>2
    <3> QED BY <1>2, <1>5, <1>h, <3>1
  <2>5. \A k \in (Len(outq) + 1) + 1..Len(outq') : FALSE
    BY <1>o
  <2> QED BY <1>1, <1>o, <2>1, <2>2, <2>3, <2>4, <2>5 DEF QueueOk
<1>e. Ends' = Ends
  BY <1>1 DEF Ends
<1>m. outq' = Append(outq, m) /\ m \in Message /\ outq \in Seq(Message) /\ seen' = seen
  BY <1>1, <1>2, <1>4
<1>13. ASSUME NEW t \in Stream \ {s} PROVE StreamKept(t)'
  <2>1. PICK e \in Offset : TaskFrom(t, e) /\ QueueTo(outq, t, seen[t], e, Ends)
    BY DEF StreamsKept, StreamKept
  <2>2. TaskFrom(t, e)'
    BY <1>1, <1>e, <1>h, <2>1, FlowStays
  <2>3. Carries(m, t, e, e, Ends)
    BY <1>5 DEF Carries
  <2> DEFINE ends == Ends
             from == seen[t]
             x == m
  <2>4. QueueTo(outq, t, from, e, ends) /\ Carries(x, t, e, e, ends) /\ x \in Message
    BY <1>m, <2>1, <2>3
  <2> HIDE DEF ends, from, x
  <2>5. QueueTo(Append(outq, x), t, from, e, ends)
    BY <1>m, <2>4, QueueGrows
  <2>6. QueueTo(outq', t, seen'[t], e, Ends')
    BY <1>e, <1>m, <2>5 DEF ends, from, x
  <2> QED BY <2>2, <2>6 DEF StreamKept
<1>14. StreamKept(s)'
  <2>1. PICK e \in Offset : TaskFrom(s, e) /\ QueueTo(outq, s, seen[s], e, Ends)
    BY DEF StreamsKept, StreamKept
  <2>2. AfterHand(h, e) = (IF m.kind = "frame" THEN End(m) ELSE e)
    BY <1>2, <1>4 DEF AfterHand, h
  <2>3. AfterHand(h, e) \in Offset
    <3>1. m.kind = "frame" => End(m) \in 0..MaxBytes
      <4>1. End(m) \in Nat
        BY <1>4, MessagesEnd
      <4>2. m.kind = "frame" => End(m) <= produced
        BY <1>5 DEF IsRun
      <4> HIDE DEF Everything, FramesKept
      <4> QED BY <1>b, <4>1, <4>2
    <3> QED BY <2>2, <3>1 DEF Offset
  <2>4. PICK f \in Offset : f = AfterHand(h, e)
    BY <2>3
  <2>5. /\ HandFrom(h, e, Ends) /\ ChannelFrom(rx[s], f, Ends)
        /\ sub = s => AfterChannel(rx[s], f, Len(rx[s])) \in {Unset, produced}
    BY <1>2, <2>1, <2>4 DEF TaskFrom, ToChannel, ToBatch, AfterBatch, h
  <2>6. Carries(m, s, e, f, Ends)
    <3>1. IF m.kind = "frame" THEN Follows(e, m.from) ELSE f \in Ends
      BY <1>4, <1>5, <2>4, <2>5 DEF HandFrom
    <3> QED BY <1>5, <2>2, <2>4, <3>1 DEF Carries
  <2>7. AfterHand(z, f) = f
    <3>1. z # <<>> => z[1].kind = "exit"
      BY <1>4, <1>6, <1>7
    <3> QED BY <3>1 DEF AfterHand
  <2>8. HandFrom(z, f, Ends)
    <3>1. ASSUME NEW i \in 1..Len(z) PROVE z[i].kind # "frame" /\ f \in Ends
      <4>1. h[2].kind # "frame" /\ 2 \in 1..Len(h) /\ z[i].kind # "frame"
        BY <1>6, <3>1
      <4> QED BY <2>4, <2>5, <4>1 DEF HandFrom
    <3> QED BY <2>7, <3>1 DEF HandFrom
  <2>9. TaskFrom(s, f)'
    <3>1. ToBatch(s, f)' = f /\ ToChannel(s, f)' = f
      BY <1>1, <1>2, <1>h, <2>7 DEF ToBatch, ToChannel, AfterBatch
    <3> QED BY <1>1, <1>2, <1>e, <1>h, <2>5, <2>8, <3>1 DEF TaskFrom
  <2> DEFINE ends == Ends
             from == seen[s]
             x == m
  <2>10. QueueTo(outq, s, from, e, ends) /\ Carries(x, s, e, f, ends) /\ x \in Message
    BY <1>m, <2>1, <2>6
  <2> HIDE DEF ends, from, x
  <2>11. QueueTo(Append(outq, x), s, from, f, ends)
    BY <1>m, <2>10, QueueGrows
  <2>12. QueueTo(outq', s, seen'[s], f, Ends')
    BY <1>e, <1>m, <2>11 DEF ends, from, x
  <2> QED BY <2>9, <2>12 DEF StreamKept
<1> QED BY <1>8, <1>9, <1>10, <1>11, <1>12, <1>13, <1>14 DEF StreamsKept

\* The writer is gone: the task drops what it has and ends.
LEMMA PushDown ==
  ASSUME Everything, NEW s \in Stream, Push(s), link = "down"
  PROVE  Everything'
<1> USE DEF Everything, FramesKept
<1>1. /\ task[s] = "push" /\ pending[s] = <<>> /\ flushAt[s] = FALSE
      /\ hand' = [hand EXCEPT ![s] = <<>>] /\ rx' = [rx EXCEPT ![s] = <<>>]
      /\ task' = [task EXCEPT ![s] = "ended"]
      /\ UNCHANGED <<pending, pendingFrom, flushAt, outq, link, sessionVars, clientVars>>
  <2>1. TaskOk(s) /\ flushAt[s] \in BOOLEAN /\ task[s] = "push"
    BY DEF TypeOK, Push
  <2> QED BY <2>1 DEF Push, batchVars, TaskOk
<1>2. /\ task'[s] = "ended" /\ hand'[s] = <<>> /\ rx'[s] = <<>> /\ pending'[s] = <<>>
      /\ \A t \in Stream \ {s} : Same(t)
  BY <1>1 DEF Same, TypeOK
<1>3. TypeOK'
  <2>1. SUB_CAP \in Nat
    BY FramesAssumption
  <2>2. \A S : <<>> \in Seq(S) /\ Len(<<>>) = 0
    OBVIOUS
  <2>3. /\ rx' \in [Stream -> Seq(SubMsg)] /\ hand' \in [Stream -> Seq(Message)]
        /\ \A t \in Stream : Len(rx'[t]) <= SUB_CAP
    BY <1>1, <2>1, <2>2 DEF TypeOK
  <2> QED BY <1>1, <2>3 DEF TypeOK, sessionVars, clientVars
<1>4. TaskOk(s)'
  BY <1>1, <1>2 DEF TaskOk, sessionVars
<1> QED BY <1>1, <1>2, <1>3, <1>4, OwnStep

LEMMA PushStep ==
  ASSUME Everything, NEW s \in Stream, Push(s)
  PROVE  Everything'
<1>1. link = "up" \/ link = "down"
  BY DEF Push
<1> QED BY <1>1, PushUp, PushDown

\* The writer takes the first of the queue: what it has of the stream it is of.
LEMMA WriteGives ==
  ASSUME Everything, Write
  PROVE  LET m == Head(outq)
             s == m.stream
         IN  /\ m \in Message /\ s \in Stream /\ phase[s] = "open"
             /\ IF m.kind = "frame"
                THEN /\ IsRun(m, produced) /\ Follows(seen[s], m.from)
                     /\ seen' = [seen EXCEPT ![s] = End(m)]
                     /\ got' = [got EXCEPT ![s] = @ + Len(m.data)] /\ phase' = phase
                ELSE /\ m.kind = "exit" /\ exited /\ task[s] = "ended" /\ seen[s] \in {Unset, produced}
                     /\ phase' = [phase EXCEPT ![s] = "exited"] /\ seen' = seen /\ got' = got
                     /\ \A i \in 1..Len(Tail(outq)) : Tail(outq)[i].stream # s
<1> USE DEF Everything, FramesKept
<1> DEFINE m == Head(outq)
           s == m.stream
<1>1. link = "up" /\ outq # <<>> /\ outq \in Seq(Message)
  BY DEF Write, TypeOK
<1>2. /\ m = outq[1] /\ m \in Message /\ Len(outq) \in Nat \ {0} /\ Len(Tail(outq)) = Len(outq) - 1
      /\ \A i \in 1..Len(outq) - 1 : Tail(outq)[i] = outq[i + 1]
  BY <1>1, Tailed
<1>3. m.kind \in {"frame", "exit"} /\ s \in Stream /\ 1 \in 1..Len(outq)
  BY <1>2, MessagesEnd
<1>4. /\ phase[s] = "open"
      /\ IF m.kind = "frame" THEN IsRun(m, produced)
         ELSE /\ exited /\ task[s] = "ended"
              /\ \A k \in 1 + 1..Len(outq) : outq[k].stream # s
  BY <1>2, <1>3 DEF QueueOk
<1>5. PICK e \in Offset : QueueTo(outq, s, seen[s], e, Ends)
  BY <1>1, <1>3 DEF StreamsKept, StreamKept
<1> DEFINE ends == Ends
           from == seen[s]
           q == outq
           x == m
<1>6. q \in Seq(Message) /\ q # <<>> /\ QueueTo(q, s, from, e, ends) /\ x = Head(q)
  BY <1>1, <1>5
<1> DEFINE t == s
<1>7. QueueTo(q, t, from, e, ends)
  BY <1>6
<1> HIDE DEF ends, from, q, x, t
<1>8. \E f \in Offset : Carries(Head(q), t, from, f, ends)
  BY <1>6, <1>7, QueueShrinks
<1>9. \E f \in Offset : Carries(m, s, seen[s], f, Ends)
  BY <1>8 DEF ends, from, q, t
<1>10. IF m.kind = "frame" THEN Follows(seen[s], m.from) ELSE seen[s] \in {Unset, produced}
  BY <1>9 DEF Carries, Ends
<1>11. \A i \in 1..Len(Tail(outq)) : i + 1 \in 1 + 1..Len(outq) /\ Tail(outq)[i] = outq[i + 1]
  BY <1>2
<1>12. m.kind # "frame" => \A i \in 1..Len(Tail(outq)) : Tail(outq)[i].stream # s
  BY <1>4, <1>11
<1>13. IF m.kind = "frame"
       THEN /\ seen' = [seen EXCEPT ![s] = End(m)]
            /\ got' = [got EXCEPT ![s] = @ + Len(m.data)] /\ phase' = phase
       ELSE phase' = [phase EXCEPT ![s] = "exited"] /\ seen' = seen /\ got' = got
  BY <1>3 DEF Write, End
<1> QED BY <1>2, <1>3, <1>4, <1>10, <1>12, <1>13

LEMMA WriteStep ==
  ASSUME Everything, Write
  PROVE  Everything'
<1> USE DEF Everything, FramesKept
<1> DEFINE z == Tail(outq)
<1>0. PICK m \in Message, s \in Stream : m = Head(outq) /\ s = m.stream
  BY WriteGives
<1>1. /\ m \in Message /\ s \in Stream /\ phase[s] = "open"
      /\ IF m.kind = "frame"
         THEN /\ IsRun(m, produced) /\ Follows(seen[s], m.from)
              /\ seen' = [seen EXCEPT ![s] = End(m)]
              /\ got' = [got EXCEPT ![s] = @ + Len(m.data)] /\ phase' = phase
         ELSE /\ m.kind = "exit" /\ exited /\ task[s] = "ended" /\ seen[s] \in {Unset, produced}
              /\ phase' = [phase EXCEPT ![s] = "exited"] /\ seen' = seen /\ got' = got
              /\ \A i \in 1..Len(z) : z[i].stream # s
  BY <1>0, WriteGives
<1>2. /\ link = "up" /\ outq # <<>> /\ outq \in Seq(Message) /\ outq' = z
      /\ UNCHANGED <<produced, exited, sub, rx, task, pending, pendingFrom, flushAt, hand, link>>
  BY DEF Write, TypeOK, sessionVars, batchVars
<1>3. /\ z \in Seq(Message) /\ Len(outq) \in Nat \ {0} /\ Len(z) = Len(outq) - 1
      /\ \A i \in 1..Len(outq) - 1 : z[i] = outq[i + 1]
  BY <1>2, Tailed
<1>4. End(m) \in Nat /\ Len(m.data) \in Nat /\ m.data \in Seq(Nat)
  BY <1>1, MessagesEnd
<1>b. produced \in Nat
  BY Bounds
<1> HIDE DEF z
<1>5. TypeOK'
  <2>1. /\ seen' \in [Stream -> Nat \cup {Unset}] /\ got' \in [Stream -> Nat]
        /\ phase' \in [Stream -> {"unused", "open", "exited", "lost"}]
    <3>1. CASE m.kind = "frame"
      <4>1. /\ seen' = [seen EXCEPT ![s] = End(m)] /\ got' = [got EXCEPT ![s] = @ + Len(m.data)]
            /\ phase' = phase
        BY <1>1, <3>1
      <4>2. /\ seen \in [Stream -> Nat \cup {Unset}] /\ got \in [Stream -> Nat]
            /\ phase \in [Stream -> {"unused", "open", "exited", "lost"}]
        BY DEF TypeOK
      <4>3. got[s] + Len(m.data) \in Nat
        BY <1>4, <4>2
      <4> HIDE DEF Everything, FramesKept
      <4> QED BY <1>4, <4>1, <4>2, <4>3
    <3>2. CASE m.kind # "frame"
      BY <1>1, <3>2 DEF TypeOK
    <3> QED BY <3>1, <3>2
  <2>2. Len(outq') <= OUT_CAP
    <3>1. OUT_CAP \in Nat /\ Len(outq) <= OUT_CAP
      BY FramesAssumption DEF TypeOK
    <3> HIDE DEF Everything, FramesKept
    <3> QED BY <1>2, <1>3, <3>1
  <2> QED BY <1>2, <1>3, <2>1, <2>2 DEF TypeOK
<1>6. \A t \in Stream : TaskOk(t)'
  <2>1. \A t \in Stream : Same(t)
    BY <1>2 DEF Same
  <2> QED BY <1>2, <1>b, <2>1, TaskStays
<1>7. \A t \in Stream : PhaseOk(t)'
  <2>1. PhaseOk(s)'
    BY <1>1, <1>2 DEF PhaseOk, TypeOK
  <2>2. \A t \in Stream \ {s} : PhaseOk(t)'
    BY <1>1, <1>2 DEF PhaseOk, TypeOK
  <2> QED BY <2>1, <2>2
<1>8. QueueOk'
  <2> SUFFICES ASSUME NEW i \in 1..Len(z)
               PROVE  /\ phase'[z[i].stream] = "open"
                      /\ IF z[i].kind = "frame" THEN IsRun(z[i], produced)
                         ELSE /\ z[i] = ExitEvent(z[i].stream) /\ exited /\ task[z[i].stream] = "ended"
                              /\ \A k \in i + 1..Len(z) : z[k].stream # z[i].stream
    BY <1>2 DEF QueueOk
  <2>1. /\ i + 1 \in 1..Len(outq) /\ z[i] = outq[i + 1]
        /\ \A k \in i + 1..Len(z) : k + 1 \in (i + 1) + 1..Len(outq) /\ z[k] = outq[k + 1]
    <3> HIDE DEF Everything, FramesKept
    <3> QED BY <1>3
  <2>2. /\ phase[z[i].stream] = "open"
        /\ IF z[i].kind = "frame" THEN IsRun(z[i], produced)
           ELSE /\ z[i] = ExitEvent(z[i].stream) /\ exited /\ task[z[i].stream] = "ended"
                /\ \A k \in (i + 1) + 1..Len(outq) : outq[k].stream # z[i].stream
    BY <2>1 DEF QueueOk
  <2>3. z[i] \in Message
    BY <1>3
  <2>4. phase'[z[i].stream] = "open"
    <3>1. z[i].stream \in Stream
      BY <2>3, MessagesEnd
    <3> QED BY <1>1, <2>2, <3>1 DEF TypeOK
  <2> QED BY <2>1, <2>2, <2>4
<1>9. ASSUME NEW t \in Stream PROVE StreamKept(t)'
  <2>1. PICK e \in Offset : TaskFrom(t, e) /\ QueueTo(outq, t, seen[t], e, Ends)
    BY <1>2 DEF StreamsKept, StreamKept
  <2>2. Ends' = Ends /\ Same(t)
    BY <1>2 DEF Ends, Same
  <2>3. TaskFrom(t, e)'
    BY <1>2, <2>1, <2>2, FlowStays
  <2> DEFINE ends == Ends
             from == seen[t]
             q == outq
  <2>4. q \in Seq(Message) /\ q # <<>> /\ QueueTo(q, t, from, e, ends)
    BY <1>2, <2>1
  <2> HIDE DEF ends, from, q
  <2>5. \E f \in Offset : Carries(Head(q), t, from, f, ends) /\ QueueTo(Tail(q), t, f, e, ends)
    BY <2>4, QueueShrinks
  <2>6. PICK f \in Offset : Carries(m, t, seen[t], f, Ends) /\ QueueTo(z, t, f, e, Ends)
    BY <1>0, <2>5 DEF ends, from, q, z
  <2>7. seen'[t] = f
    BY <1>0, <1>1, <2>6 DEF Carries, TypeOK
  <2>8. QueueTo(outq', t, seen'[t], e, Ends')
    BY <1>2, <2>2, <2>6, <2>7
  <2> QED BY <2>3, <2>8 DEF StreamKept
<1> QED BY <1>5, <1>6, <1>7, <1>8, <1>9 DEF StreamsKept

LEMMA LinkStep ==
  ASSUME Everything, LinkDown
  PROVE  Everything'
<1> USE DEF Everything, FramesKept
<1>1. /\ link = "up" /\ link' = "down" /\ outq' = <<>>
      /\ phase' = [s \in Stream |-> IF phase[s] = "open" THEN "lost" ELSE phase[s]]
      /\ UNCHANGED <<produced, exited, sub, rx, task, pending, pendingFrom, flushAt, hand, seen, got>>
  BY DEF LinkDown, sessionVars, batchVars
<1>2. TypeOK'
  <2>1. <<>> \in Seq(Message) /\ Len(<<>>) = 0 /\ OUT_CAP \in Nat
    BY FramesAssumption
  <2>2. outq' \in Seq(Message) /\ Len(outq') <= OUT_CAP
    BY <1>1, <2>1
  <2>3. phase' \in [Stream -> {"unused", "open", "exited", "lost"}]
    BY <1>1 DEF TypeOK
  <2> QED BY <1>1, <2>2, <2>3 DEF TypeOK
<1>3. QueueOk' /\ \A t \in Stream : PhaseOk(t)'
  BY <1>1 DEF QueueOk, PhaseOk
<1>4. \A t \in Stream : Same(t)
  BY <1>1 DEF Same
<1>5. \A t \in Stream : TaskOk(t)'
  <2>1. produced \in Nat
    BY Bounds
  <2> QED BY <1>1, <1>4, <2>1, TaskStays
<1>6. ASSUME NEW t \in Stream PROVE StreamKept(t)'
  <2>1. PICK e \in Offset : TaskFrom(t, e)
    BY DEF StreamsKept, StreamKept
  <2>2. Ends' = Ends
    BY <1>1 DEF Ends
  <2>3. TaskFrom(t, e)'
    BY <1>1, <1>4, <2>1, <2>2, FlowStays
  <2> QED BY <1>1, <2>3 DEF StreamKept
<1> QED BY <1>2, <1>3, <1>5, <1>6 DEF StreamsKept

LEMMA EverythingKept == Spec => []Everything
<1>1. Everything /\ [Next]_vars => Everything'
  <2> SUFFICES ASSUME Everything, [Next]_vars PROVE Everything'
    OBVIOUS
  <2>1. CASE UNCHANGED vars
    <3>1. UNCHANGED <<produced, exited, sub, rx, task, pending, pendingFrom, flushAt, hand, outq, link,
                      seen, got, phase>>
      BY <2>1 DEF vars, sessionVars, batchVars, clientVars
    <3> USE DEF Everything, FramesKept
    <3>2. \A t \in Stream : Same(t) /\ seen'[t] = seen[t]
      BY <3>1 DEF Same
    <3>3. produced \in Nat
      BY Bounds
    <3>4. \A t \in Stream : TaskOk(t)' /\ StreamKept(t)'
      BY <3>1, <3>2, <3>3, OthersStay
    <3>5. TypeOK' /\ QueueOk' /\ \A t \in Stream : PhaseOk(t)'
      BY <3>1, <3>3, QueueOkStays DEF TypeOK, PhaseOk
    <3> QED BY <3>4, <3>5 DEF StreamsKept
  <2>2. CASE Next
    BY <2>2, AttachStep, SessionStep, TaskSteps, PushStep, WriteStep, LinkStep DEF Next
  <2> QED BY <2>1, <2>2
<1> QED BY FramesInit, <1>1, PTL DEF Spec

-----------------------------------------------------------------------------
(* What it comes to. *)

LEMMA FramesHonest == Everything => FramesInv
<1> SUFFICES ASSUME Everything PROVE FramesInv
  OBVIOUS
<1> USE DEF Everything, FramesKept
<1>1. ASSUME NEW i \in 1..Len(outq)
      PROVE  outq[i].data = Run(outq[i].from, outq[i].from + Len(outq[i].data))
  <2>1. CASE outq[i].kind = "frame"
    BY <2>1 DEF QueueOk, IsRun, End
  <2>2. CASE outq[i].kind # "frame"
    <3>1. outq[i] = ExitEvent(outq[i].stream)
      BY <2>2 DEF QueueOk
    <3>2. outq[i].data = <<>> /\ outq[i].from = 0
      BY <3>1 DEF ExitEvent
    <3>3. Run(0, 0) \in Seq(Nat) /\ Len(Run(0, 0)) = 0
      <4>1. 0 \in Nat /\ 0 <= 0 /\ 0 - 0 = 0
        OBVIOUS
      <4>2. Run(0, 0) \in Seq(Nat) /\ Len(Run(0, 0)) = 0 - 0
        BY <4>1, RunIsSeq
      <4> QED BY <4>1, <4>2
    <3>4. Run(0, 0) = <<>>
      BY <3>3, EmptySeq
    <3>5. outq[i].from + Len(outq[i].data) = 0
      BY <3>2
    <3> QED BY <3>2, <3>4, <3>5
  <2> QED BY <2>1, <2>2
<1> QED BY <1>1 DEF FramesInv, FramesAreHonest

\* The queues hold what they may, and every frame carries the offset of its
\* first byte and, from there, every byte in turn: spawn_subscriber_task and
\* encode_output_frame.
THEOREM FramesAreKept == Spec => []FramesInv
BY EverythingKept, FramesHonest, PTL

LEMMA StreamRefines ==
  ASSUME Everything, [Next]_vars, NEW t \in Stream
  PROVE  [Promise(t)!Next]_(Promise(t)!vars)
<1> USE DEF sessionVars, batchVars, clientVars
<1>b. produced \in Nat /\ Unset \notin Nat /\ TypeOK
  BY Bounds DEF Everything, FramesKept
<1>1. ASSUME UNCHANGED <<produced, seen, got, phase>>
      PROVE  [Promise(t)!Next]_(Promise(t)!vars)
  BY <1>1 DEF Promise!vars
<1>2. ASSUME NEW s \in Stream, Attach(s)
      PROVE  [Promise(t)!Next]_(Promise(t)!vars)
  <2>1. phase[s] = "unused" /\ UNCHANGED <<produced, seen, got>>
        /\ phase' = [phase EXCEPT ![s] = IF link = "up" THEN "open" ELSE @]
    BY <1>2 DEF Everything, FramesKept, PhaseOk, Attach
  <2>2. CASE s = t /\ link = "up"
    <3>1. Promise(t)!Open
      BY <1>b, <2>1, <2>2 DEF Promise!Open, TypeOK
    <3> QED BY <3>1 DEF Promise!Next
  <2>3. CASE ~(s = t /\ link = "up")
    BY <1>b, <2>1, <2>3 DEF Promise!vars, TypeOK
  <2> QED BY <2>2, <2>3
<1>3. ASSUME NEW n \in 1..READ_MAX, Output(n)
      PROVE  [Promise(t)!Next]_(Promise(t)!vars)
  <2>1. ~exited /\ produced' = produced + n /\ UNCHANGED <<seen, got, phase>> /\ n \in Nat /\ n > 0
    BY <1>3, FramesAssumption DEF Output
  <2>2. phase[t] # "exited"
    BY <2>1 DEF Everything, FramesKept, PhaseOk
  <2>3. produced' \in Nat /\ produced' > produced
    BY <1>b, <2>1
  <2>4. Promise(t)!Produce
    BY <2>1, <2>2, <2>3 DEF Promise!Produce
  <2> QED BY <2>4 DEF Promise!Next
<1>4. CASE Write
  <2> DEFINE m == Head(outq)
             s == m.stream
  <2>1. /\ m \in Message /\ s \in Stream /\ phase[s] = "open"
        /\ IF m.kind = "frame"
           THEN /\ IsRun(m, produced) /\ Follows(seen[s], m.from)
                /\ seen' = [seen EXCEPT ![s] = End(m)]
                /\ got' = [got EXCEPT ![s] = @ + Len(m.data)] /\ phase' = phase
           ELSE /\ seen[s] \in {Unset, produced}
                /\ phase' = [phase EXCEPT ![s] = "exited"] /\ seen' = seen /\ got' = got
    BY <1>4, WriteGives
  <2>2. produced' = produced
    BY <1>4 DEF Write
  <2> HIDE DEF m, s
  <2>3. CASE s # t
    BY <1>b, <2>1, <2>2, <2>3 DEF Promise!vars, TypeOK
  <2>4. CASE s = t /\ m.kind = "frame"
    <3>1. m.from \in Nat /\ Len(m.data) \in Nat \ {0} /\ End(m) = m.from + Len(m.data) /\ End(m) <= produced
      <4>1. m.from \in Nat /\ m.data \in Seq(Nat) /\ m.data # <<>>
        BY <2>1, <2>4, MessagesEnd DEF IsRun
      <4> QED BY <2>1, <2>4, <4>1, EmptySeq DEF End, IsRun
    <3>2. Len(m.data) \in 1..produced /\ End(m) \in Len(m.data)..produced
      BY <1>b, <3>1
    <3>3. seen'[t] = End(m) /\ got'[t] = got[t] + Len(m.data) /\ phase[t] = "open" /\ phase' = phase
      BY <1>b, <2>1, <2>4 DEF TypeOK
    <3>4. seen[t] # Unset => seen'[t] = seen[t] + Len(m.data)
      BY <2>1, <2>4, <3>1, <3>3 DEF Follows
    <3>5. seen[t] # Promise(t)!Unset => seen'[t] = seen[t] + Len(m.data)
      BY <3>4 DEF Promise!Unset, Unset
    <3>6. Promise(t)!Deliver
      BY <2>2, <3>2, <3>3, <3>5 DEF Promise!Deliver
    <3> QED BY <3>6 DEF Promise!Next
  <2>5. CASE s = t /\ m.kind # "frame"
    <3>1. phase[t] = "open" /\ phase'[t] = "exited" /\ seen[t] \in {Unset, produced} /\ seen' = seen /\ got' = got
      BY <1>b, <2>1, <2>5 DEF TypeOK
    <3>2. Promise(t)!ExitStatus
      BY <2>2, <3>1 DEF Promise!ExitStatus, Promise!Unset, Unset
    <3> QED BY <3>2 DEF Promise!Next
  <2> QED BY <2>3, <2>4, <2>5
<1>5. CASE LinkDown
  <2>1. /\ UNCHANGED <<produced, seen, got>>
        /\ phase'[t] = IF phase[t] = "open" THEN "lost" ELSE phase[t]
    BY <1>5 DEF LinkDown
  <2>2. CASE phase[t] = "open"
    <3>1. Promise(t)!Stop
      BY <2>1, <2>2 DEF Promise!Stop
    <3> QED BY <3>1 DEF Promise!Next
  <2>3. CASE phase[t] # "open"
    BY <2>1, <2>3 DEF Promise!vars
  <2> QED BY <2>2, <2>3
<1>6. CASE Exits \/ Detach
  BY <1>1, <1>6 DEF Exits, Detach
<1>7. ASSUME NEW s \in Stream, TaskStep(s) \/ Push(s)
      PROVE  [Promise(t)!Next]_(Promise(t)!vars)
  BY <1>1, <1>7 DEF TaskStep, Push, RecvOut, RecvExit, WindowEnds, RecvNone
<1>8. CASE UNCHANGED vars
  BY <1>1, <1>8 DEF vars
<1> QED BY <1>2, <1>3, <1>4, <1>5, <1>6, <1>7, <1>8 DEF Next

\* Batches and frames keep the session's promise to each client: its bytes in
\* order, without a gap and each of them once, and the exit after the last.
THEOREM FramesKeepPromise == Spec => KeepsPromise
<1>1. Init => \A s \in Stream : Promise(s)!Init
  BY DEF Init, Promise!Init, Promise!Unset, Unset
<1>2. Everything /\ [Next]_vars => \A s \in Stream : [Promise(s)!Next]_(Promise(s)!vars)
  BY StreamRefines
<1>3. Spec => []Everything
  BY EverythingKept
<1> QED BY <1>1, <1>2, <1>3, PTL DEF Spec, KeepsPromise
=============================================================================
