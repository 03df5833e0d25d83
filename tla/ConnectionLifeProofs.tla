------------------------ MODULE ConnectionLifeProofs ------------------------
(***************************************************************************)
(* Whatever the idle limit, the ping interval and the queues are, as long  *)
(* as the limit leaves a ping time to be written, read and answered: a     *)
(* peer that is there and reads on is never taken for an idle one.         *)
(***************************************************************************)
EXTENDS ConnectionLife, SequenceTheorems, TLAPS

\* Ticks in which a live peer reads n messages.
ToRead(n) == n * LAG

\* Ticks until the idle limit, unless the clock is set back.
Left == IF reader = "wait" THEN remaining ELSE IDLE - age

\* The most ticks until the next ping is in the sockets and has been read, while
\* none is on its way: messages the writer holds or may take before it go first.
Held == IF writer = "data" THEN 1 ELSE 0
PingComes ==
  \/ \E k \in 1..Len(net) : net[k] = "ping" /\ ToRead(k) - lag < Left
  \/ writer = "ping" /\ ToRead(Len(net) + 1) - lag < Left
  \/ /\ writer \in {"select", "data"} /\ pingIn = 0
     /\ ToRead(Len(net) + Held + (PASS - passed) + 1) - lag < Left
  \/ /\ writer \in {"select", "data"} /\ pingIn > 0 /\ passed = 0
     /\ pingIn + ToRead(PASS + SOCK + 2) < Left

\* An invalid request is answered as soon as the queue has room, which a writer
\* makes that has one ping to write first at most.
ReplyGoesOut ==
  /\ age <= LAG + LAG
  /\ writer = "select" => age <= LAG /\ (pingIn = 0 => age = 0)
  /\ writer = "ping" => age <= LAG /\ (Len(net) = SOCK => age <= lag)
  /\ writer = "data" /\ Len(net) = SOCK => age <= LAG + lag

\* A pong arrives before the limit is reached, whatever the reader does but to
\* write input; and that counts in `blocked`.
LifeKept ==
  /\ TypeOK /\ LivePeerIsKept
  /\ pingIn > 0 => passed = 0
  /\ link = "broken" \/ writer = "gone" => peer = "silent"
  /\ peer = "up" =>
       /\ net = <<>> => lag = 0
       /\ writer = "ping" => pingIn > 0 /\ (Len(net) = SOCK => pingIn + lag >= PING)
       /\ reader \in {"check", "wait", "reply", "input"} /\ inbox = <<>> => PingComes
       /\ reader = "wait" => remaining > 0
       /\ reader = "check" => age < IDLE \/ blocked = IDLE
       /\ reader = "input" => age <= blocked
       /\ reader = "reply" => ReplyGoesOut

-----------------------------------------------------------------------------
(* Reading takes time in proportion. *)

LEMMA ReadingAddsUp ==
  /\ \A n \in Nat : ToRead(n) \in Nat /\ ToRead(n + 1) = ToRead(n) + LAG
  /\ \A m, n \in Nat : m <= n => ToRead(m) <= ToRead(n)
<1>1. LAG \in Nat
  BY LifeAssumption
<1>2. ASSUME NEW n \in Nat PROVE ToRead(n) \in Nat /\ ToRead(n + 1) = ToRead(n) + LAG
  BY <1>1 DEF ToRead
<1>3. ASSUME NEW m \in Nat, NEW n \in Nat, m <= n PROVE ToRead(m) <= ToRead(n)
  <2>1. n = m + (n - m) /\ n - m \in Nat
    BY <1>3
  <2>2. \A d \in Nat : (m + d) * LAG = m * LAG + d * LAG /\ m * LAG \in Nat /\ d * LAG \in Nat
    BY <1>1
  <2>3. ToRead(n) = ToRead(m) + (n - m) * LAG /\ (n - m) * LAG \in Nat /\ ToRead(m) \in Nat
    BY <2>1, <2>2 DEF ToRead
  <2> HIDE DEF ToRead
  <2> QED BY <2>3
<1> QED BY <1>2, <1>3

\* A reader that has just begun to wait has time for all that.
LEMMA LimitIsLongEnough ==
  ASSUME TypeOK, Left = IDLE, writer # "gone", pingIn > 0 => passed = 0
  PROVE  PingComes
<1>a. /\ IDLE \in Nat /\ PING \in Nat /\ PASS \in Nat /\ SOCK \in Nat /\ LAG \in Nat
      /\ PING + ToRead(PASS + SOCK + 2) < IDLE
  BY LifeAssumption DEF ToRead
<1>1. /\ writer \in {"select", "data", "ping"} /\ pingIn \in 0..PING /\ passed \in 0..PASS
      /\ Len(net) \in 0..SOCK /\ lag \in Nat /\ Held \in {0, 1}
  BY <1>a DEF TypeOK, Held
<1>b. ToRead(PASS + SOCK + 2) \in Nat
  BY <1>a, ReadingAddsUp
<1>2. CASE writer = "ping"
  <2> DEFINE n == Len(net) + 1
             m == PASS + SOCK + 2
  <2>1. n \in Nat /\ m \in Nat /\ n <= m
    BY <1>a, <1>1
  <2>2. ToRead(n) <= ToRead(m) /\ ToRead(n) \in Nat /\ ToRead(m) \in Nat
    BY <2>1, ReadingAddsUp
  <2>3. ToRead(Len(net) + 1) - lag < Left
    BY <1>a, <1>1, <2>2
  <2> QED BY <1>2, <2>3 DEF PingComes
<1>3. CASE writer # "ping" /\ pingIn = 0
  <2> DEFINE n == Len(net) + Held + (PASS - passed) + 1
             m == PASS + SOCK + 2
  <2>1. n \in Nat /\ m \in Nat /\ n <= m
    BY <1>a, <1>1
  <2>2. ToRead(n) <= ToRead(m) /\ ToRead(n) \in Nat /\ ToRead(m) \in Nat
    BY <2>1, ReadingAddsUp
  <2>3. ToRead(n) - lag < Left
    BY <1>a, <1>1, <2>2
  <2> QED BY <1>1, <1>3, <2>3 DEF PingComes
<1>4. CASE writer # "ping" /\ pingIn > 0
  BY <1>a, <1>b, <1>1, <1>4 DEF PingComes
<1> QED BY <1>1, <1>2, <1>3, <1>4

-----------------------------------------------------------------------------
(* Steps. *)

LEMMA Sizes ==
  /\ IDLE \in Nat /\ IDLE > 0 /\ PING \in Nat /\ PING > 0 /\ LAG \in Nat /\ LAG > 0
  /\ SOCK \in Nat /\ SOCK > 0 /\ PASS \in Nat /\ PASS > 0
  /\ INBOX \in Nat /\ INBOX > 0 /\ OUT_CAP \in Nat /\ OUT_CAP > 0
  /\ LAG < PING /\ LAG + LAG < IDLE
<1>1. /\ IDLE \in Nat /\ IDLE > 0 /\ PING \in Nat /\ PING > 0 /\ LAG \in Nat /\ LAG > 0
      /\ SOCK \in Nat /\ SOCK > 0 /\ PASS \in Nat /\ PASS > 0
      /\ INBOX \in Nat /\ INBOX > 0 /\ OUT_CAP \in Nat /\ OUT_CAP > 0
  BY LifeAssumption
<1>2. LAG < PING /\ PING + ToRead(PASS + SOCK + 2) < IDLE
  BY LifeAssumption DEF ToRead
<1>3. ToRead(1) = LAG
  BY <1>1 DEF ToRead
<1>4. ToRead(1 + 1) = ToRead(1) + LAG
  BY ReadingAddsUp
<1>5. ToRead(2) <= ToRead(PASS + SOCK + 2) /\ ToRead(2) \in Nat /\ ToRead(PASS + SOCK + 2) \in Nat
  <2> DEFINE m == PASS + SOCK + 2
  <2>1. m \in Nat /\ 2 <= m
    BY <1>1
  <2> QED BY <2>1, ReadingAddsUp
<1> QED BY <1>1, <1>2, <1>3, <1>4, <1>5

\* What the types say of the numbers.
LEMMA Numbers ==
  ASSUME TypeOK
  PROVE  /\ age \in 0..IDLE /\ remaining \in 0..IDLE /\ blocked \in 0..IDLE /\ Left \in Nat
         /\ Len(net) \in Nat /\ Len(net) <= SOCK /\ lag \in 0..LAG
         /\ pingIn \in 0..PING /\ passed \in 0..PASS /\ outq \in 0..OUT_CAP
  BY Sizes DEF TypeOK, Left

LEMMA LifeInit == Init => LifeKept
<1> SUFFICES ASSUME Init PROVE LifeKept
  OBVIOUS
<1> USE DEF Init
<1>1. TypeOK
  BY Sizes DEF TypeOK, Message
<1>2. Left = IDLE
  BY Sizes DEF Left
<1>3. PingComes
  BY <1>1, <1>2, LimitIsLongEnough
<1> QED BY <1>1, <1>3, LifeAssumption DEF LifeKept, LivePeerIsKept

\* The reader's steps, and those who only fill the queue or the way to it.
LEMMA ReaderStep ==
  ASSUME LifeKept,
         ReaderLoop \/ InputReturns \/ Enqueue \/ \E kind \in Message : PeerSends(kind)
  PROVE  LifeKept'
<1> USE DEF LifeKept
<1>s. ASSUME UNCHANGED <<net, lag, writer, pingIn, passed, Left>> PROVE PingComes' <=> PingComes
  BY <1>s DEF PingComes, Held, ToRead
\* The clock has just been set back, and the reader does not wait.
<1>f. ASSUME TypeOK', age' = 0, reader' # "wait", UNCHANGED <<writer, pingIn, passed, peer>>, peer = "up"
      PROVE  PingComes'
  <2>1. (TypeOK /\ Left = IDLE /\ writer # "gone" /\ (pingIn > 0 => passed = 0) => PingComes)'
    BY LimitIsLongEnough, PTL
  <2>2. Left' = IDLE
    BY Sizes, <1>f DEF Left
  <2> QED BY <1>f, <2>1, <2>2
<1>1. CASE Check
  <2> USE DEF Check, writerVars, peerVars
  <2>1. TypeOK'
    BY Sizes, <1>1 DEF TypeOK
  <2>2. CASE age >= IDLE
    <3>1. reader' = "closed" /\ UNCHANGED <<peer, blocked, net, lag, link, writer, pingIn, passed>>
      BY Sizes, <1>1, <2>2 DEF TypeOK
    <3>2. peer = "silent" \/ blocked = IDLE
      BY Sizes, <1>1, <2>2 DEF TypeOK
    <3> QED BY <2>1, <3>1, <3>2 DEF LivePeerIsKept
  <2>3. CASE age < IDLE
    <3>1. reader' = "wait" /\ remaining' = IDLE - age /\ UNCHANGED <<why, writerVars, inbox, net, peerVars>>
      BY Sizes, <1>1, <2>3 DEF TypeOK
    <3>2. Left' = Left /\ remaining' > 0
      BY Sizes, <1>1, <2>3, <3>1 DEF Left, TypeOK
    <3>3. PingComes' <=> PingComes
      BY <1>s, <3>1, <3>2
    <3> QED BY <1>1, <2>1, <3>1, <3>2, <3>3 DEF LivePeerIsKept, TypeOK
  <2> QED BY <1>1, <2>2, <2>3
<1>2. CASE TimesOut
  <2> USE DEF TimesOut, writerVars, peerVars
  <2>1. TypeOK' /\ peer = "silent"
    BY <1>2 DEF TypeOK
  <2> QED BY <1>2, <2>1 DEF LivePeerIsKept
<1>3. CASE Receive
  <2> USE DEF Receive, Take, Serves, writerVars, peerVars
  <2>1. Tail(inbox) \in Seq(Message) /\ Len(Tail(inbox)) <= INBOX /\ Head(inbox) \in Message
    BY Sizes, <1>3 DEF TypeOK
  <2>2. /\ reader' \in {"pong", "reply", "input", "closed", "check"}
        /\ reader' = "closed" <=> why' = "close"
        /\ why' \in {"none", "close"} /\ age' = 0
    BY <1>3 DEF TypeOK
  <2>3. TypeOK'
    BY Sizes, <1>3, <2>1, <2>2 DEF TypeOK
  <2>4. UNCHANGED <<writer, pingIn, passed, peer, net, lag, link, blocked>>
    BY <1>3
  <2>5. ReplyGoesOut'
    <3>1. age' = 0
      BY <2>2
    <3>2. lag' \in Nat
      BY Sizes, <2>3 DEF TypeOK
    <3> HIDE DEF Receive, Take, Serves, LifeKept
    <3>3. 0 <= LAG /\ 0 <= LAG + LAG
      BY Sizes
    <3>4. ASSUME NEW n \in Nat PROVE 0 <= n /\ 0 <= LAG + n
      BY Sizes
    <3>5. 0 <= lag' /\ 0 <= LAG + lag'
      BY <3>2, <3>4
    <3> QED BY <3>1, <3>3, <3>5 DEF ReplyGoesOut
  <2>6. peer = "up" => PingComes'
    BY <1>f, <2>2, <2>3, <2>4
  <2>7. 0 <= blocked' /\ 0 < IDLE
    BY Sizes, <2>3 DEF TypeOK
  <2> HIDE DEF Receive, Take, Serves
  <2> QED BY <2>2, <2>3, <2>4, <2>5, <2>6, <2>7 DEF LivePeerIsKept
<1>4. CASE SendAnswer
  <2> USE DEF SendAnswer, writerVars, peerVars
  <2>1. TypeOK'
    BY Sizes, <1>4 DEF TypeOK
  <2>2. UNCHANGED <<why, blocked, writer, pingIn, passed, net, inbox, peer, lag, link>> /\ reader' = "check"
    BY <1>4
  <2>3. CASE reader = "pong"
    <3>1. age' = 0
      BY <1>4, <2>3
    <3>2. peer = "up" => PingComes'
      BY <1>f, <2>1, <2>2, <3>1
    <3> QED BY Sizes, <2>1, <2>2, <3>1, <3>2 DEF LivePeerIsKept
  <2>4. CASE reader = "reply"
    <3>1. age' = age /\ Left' = Left
      BY <1>4, <2>4 DEF Left
    <3>2. PingComes' <=> PingComes
      BY <1>s, <2>2, <3>1
    <3>3. peer = "up" => age' < IDLE
      BY Sizes, Numbers, <2>1, <2>4, <3>1 DEF ReplyGoesOut, TypeOK
    <3> QED BY <2>1, <2>2, <2>4, <3>2, <3>3 DEF LivePeerIsKept
  <2> QED BY <1>4, <2>3, <2>4
<1>5. CASE ReadFails
  <2> USE DEF ReadFails, writerVars, peerVars
  <2>1. TypeOK' /\ peer = "silent"
    BY <1>5 DEF TypeOK
  <2> QED BY <1>5, <2>1 DEF LivePeerIsKept
<1>6. CASE Enqueue
  <2> USE DEF Enqueue, readerVars, writerVars, peerVars
  <2>1. TypeOK'
    BY Sizes, <1>6 DEF TypeOK
  <2>2. UNCHANGED <<reader, why, remaining, blocked, age, writer, pingIn, passed, net, inbox, peer, lag, link>>
    BY <1>6
  <2>3. UNCHANGED <<Left, PingComes, ReplyGoesOut, LivePeerIsKept>>
    BY <2>2 DEF Left, PingComes, Held, ToRead, ReplyGoesOut, LivePeerIsKept
  <2> QED BY <2>1, <2>2, <2>3
<1>7. ASSUME NEW kind \in Message, PeerSends(kind) PROVE LifeKept'
  <2> USE DEF PeerSends, readerVars, writerVars, peerVars
  <2>1. /\ Append(inbox, kind) \in Seq(Message)
        /\ Len(Append(inbox, kind)) <= INBOX /\ Append(inbox, kind) # <<>>
    BY Sizes, <1>7 DEF TypeOK
  <2>2. TypeOK'
    BY <1>7, <2>1 DEF TypeOK
  <2>3. /\ UNCHANGED <<reader, why, remaining, blocked, age, writer, pingIn, passed, net, peer, lag, link>>
        /\ inbox' # <<>>
    BY <1>7, <2>1
  <2>4. UNCHANGED <<ReplyGoesOut, LivePeerIsKept>>
    BY <2>3 DEF ReplyGoesOut, LivePeerIsKept
  <2> QED BY <2>2, <2>3, <2>4
<1>8. CASE InputReturns
  <2> USE DEF InputReturns, writerVars, peerVars
  <2>1. TypeOK'
    BY <1>8 DEF TypeOK
  <2>2. /\ UNCHANGED <<why, remaining, blocked, age, writer, pingIn, passed, net, inbox, peer, lag, link>>
        /\ reader = "input" /\ reader' = "check"
    BY <1>8
  <2>3. UNCHANGED <<Left, LivePeerIsKept>>
    BY <2>2 DEF Left, LivePeerIsKept
  <2>4. PingComes' <=> PingComes
    BY <1>s, <2>2, <2>3
  <2>5. peer = "up" => age < IDLE \/ blocked = IDLE
    BY Sizes, <2>2 DEF TypeOK
  <2> QED BY <2>1, <2>2, <2>3, <2>4, <2>5
<1> QED BY <1>1, <1>2, <1>3, <1>4, <1>5, <1>6, <1>7, <1>8 DEF ReaderLoop

\* The writer's: whatever it takes or writes, the ping comes no later.
LEMMA WriterStep ==
  ASSUME LifeKept, WriterTask
  PROVE  LifeKept'
<1>n. /\ Len(net) \in Nat /\ Len(net) <= SOCK /\ lag \in 0..LAG /\ Left \in Nat
      /\ passed \in 0..PASS /\ pingIn \in 0..PING /\ age \in 0..IDLE
  BY Numbers DEF LifeKept
<1> USE DEF LifeKept
<1>1. CASE TakeMessage
  <2> USE DEF TakeMessage, readerVars, writerVars, peerVars
  <2>1. TypeOK'
    BY Sizes, <1>1 DEF TypeOK
  <2>l. Left' = Left /\ LivePeerIsKept'
    BY <1>1 DEF Left, LivePeerIsKept
  <2>r. ReplyGoesOut => ReplyGoesOut'
    BY <1>1, Sizes, <1>n DEF ReplyGoesOut
  <2>2. ASSUME PingComes PROVE PingComes'
    <3>1. CASE pingIn = 0
      <4>1. Len(net) + 1 + (PASS - (passed + 1)) + 1 = Len(net) + 0 + (PASS - passed) + 1
        BY Sizes, <1>n
      <4> QED BY <1>1, <2>l, <2>2, <3>1, <4>1 DEF PingComes, Held, ToRead
    <3>2. CASE pingIn > 0
      BY <1>1, <2>l, <2>2, <3>2 DEF PingComes, ToRead
    <3> QED BY <1>n, <3>1, <3>2
  <2> QED BY <1>1, <2>1, <2>l, <2>r, <2>2
<1>2. CASE TakePing
  <2> USE DEF TakePing, readerVars, writerVars, peerVars
  <2>1. TypeOK'
    BY Sizes, <1>2 DEF TypeOK
  <2>l. Left' = Left /\ LivePeerIsKept'
    BY <1>2 DEF Left, LivePeerIsKept
  <2>r. ReplyGoesOut => ReplyGoesOut'
    BY <1>2, Sizes, <1>n DEF ReplyGoesOut
  <2>p. pingIn' > 0 /\ pingIn' + lag' >= PING
    BY <1>2, Sizes, <1>n
  <2>2. ASSUME PingComes PROVE PingComes'
    <3>1. CASE \E k \in 1..Len(net) : net[k] = "ping" /\ ToRead(k) - lag < Left
      BY <1>2, <2>l, <3>1 DEF PingComes, ToRead
    <3>2. CASE ToRead(Len(net) + Held + (PASS - passed) + 1) - lag < Left
      <4> DEFINE m == Len(net) + Held + (PASS - passed) + 1
                 n == Len(net) + 1
      <4>1. n \in Nat /\ m \in Nat /\ n <= m
        BY Sizes, <1>n DEF Held
      <4>2. ToRead(n) <= ToRead(m) /\ ToRead(n) \in Nat /\ ToRead(m) \in Nat
        BY <4>1, ReadingAddsUp
      <4>3. ToRead(n) - lag < Left
        BY <1>n, <3>2, <4>2
      <4>4. (ToRead(Len(net) + 1) - lag < Left)'
        BY <1>2, <2>l, <4>3 DEF ToRead
      <4> QED BY <1>2, <4>4 DEF PingComes
    <3> QED BY <1>2, <2>2, <3>1, <3>2 DEF PingComes
  <2> QED BY <1>2, <2>1, <2>l, <2>r, <2>p, <2>2
<1>3. CASE Written
  <2> USE DEF Written, readerVars, writerVars, peerVars
  <2>1. /\ net' \in Seq({"data", "ping"}) /\ Len(net') = Len(net) + 1 /\ Len(net') <= SOCK
        /\ net'[Len(net) + 1] = writer /\ \A k \in 1..Len(net) : net'[k] = net[k]
    <3>1. /\ net \in Seq({"data", "ping"}) /\ writer \in {"data", "ping"} /\ Len(net) < SOCK
          /\ net' = Append(net, writer)
      BY <1>3 DEF TypeOK
    <3>2. SOCK \in Nat
      BY Sizes
    <3> HIDE DEF Written, readerVars, writerVars, peerVars, LifeKept
    <3> QED BY <3>1, <3>2
  <2>2. TypeOK'
    BY <1>3, <2>1, Sizes DEF TypeOK
  <2>l. Left' \in Nat /\ Left' >= Left /\ LivePeerIsKept' /\ writer' = "select" /\ age' <= age
    BY <1>3, Sizes, <1>n, <2>2 DEF Left, LivePeerIsKept, TypeOK
  <2>r. ASSUME ReplyGoesOut, writer = "ping" => pingIn > 0 PROVE ReplyGoesOut'
    BY <1>3, Sizes, <1>n, <2>l, <2>r DEF ReplyGoesOut
  <2>3. ASSUME PingComes PROVE PingComes'
    <3>1. CASE \E k \in 1..Len(net) : net[k] = "ping" /\ ToRead(k) - lag < Left
      <4>1. PICK k \in 1..Len(net) : net[k] = "ping" /\ ToRead(k) - lag < Left
        BY <3>1
      <4>2. k \in 1..Len(net') /\ net'[k] = "ping" /\ ToRead(k) - lag' < Left'
        <5>1. ToRead(k) \in Nat
          BY <4>1, ReadingAddsUp
        <5> QED BY <1>n, <1>3, <2>1, <2>l, <4>1, <5>1
      <4> QED BY <4>2 DEF PingComes, ToRead
    <3>2. CASE writer = "ping" /\ ToRead(Len(net) + 1) - lag < Left
      <4> DEFINE k == Len(net) + 1
      <4>1. k \in 1..Len(net') /\ net'[k] = "ping" /\ ToRead(k) - lag' < Left'
        <5>1. k \in Nat
          BY <1>n
        <5>2. ToRead(k) \in Nat
          BY <5>1, ReadingAddsUp
        <5> QED BY <1>n, <1>3, <2>1, <2>l, <3>2, <5>2
      <4> QED BY <4>1 DEF PingComes, ToRead
    <3>3. CASE writer = "data"
      <4>1. CASE pingIn = 0 /\ ToRead(Len(net) + Held + (PASS - passed) + 1) - lag < Left
        <5>1. Len(net') + 0 + (PASS - passed) + 1 = Len(net) + Held + (PASS - passed) + 1
          BY Sizes, <1>n, <2>1, <3>3 DEF Held
        <5> DEFINE n == Len(net) + Held + (PASS - passed) + 1
        <5>2. n \in Nat
          BY Sizes, <1>n DEF Held
        <5>3. ToRead(n) \in Nat
          BY <5>2, ReadingAddsUp
        <5>4. ToRead(n) - lag' < Left'
          BY <1>3, <1>n, <2>l, <4>1, <5>3
        <5> QED BY <1>3, <2>l, <3>3, <4>1, <5>1, <5>4 DEF PingComes, Held, ToRead
      <4>2. CASE pingIn > 0 /\ passed = 0 /\ pingIn + ToRead(PASS + SOCK + 2) < Left
        <5> DEFINE m == PASS + SOCK + 2
        <5>1. m \in Nat
          BY Sizes
        <5>2. ToRead(m) \in Nat
          BY <5>1, ReadingAddsUp
        <5>3. pingIn + ToRead(m) < Left'
          BY <1>n, <2>l, <4>2, <5>2
        <5> QED BY <1>3, <2>l, <4>2, <5>3 DEF PingComes, ToRead
      <4> QED BY <2>3, <3>1, <3>3, <4>1, <4>2 DEF PingComes
    <3> QED BY <1>3, <2>3, <3>1, <3>2, <3>3 DEF PingComes
  <2>4. net' # <<>>
    BY <1>n, <2>1
  <2>5. /\ UNCHANGED <<reader, blocked, remaining, inbox, peer, link, pingIn, passed>>
        /\ age < IDLE => age' < IDLE
    <3>1. /\ UNCHANGED <<reader, blocked, remaining, inbox, peer, link, pingIn, passed>>
          /\ age' \in {0, age}
      BY <1>3
    <3> HIDE DEF Written, LifeKept
    <3> QED BY <1>n, <3>1, Sizes
  <2>6. age <= blocked => age' <= blocked'
    BY <1>n, <2>2, <2>l, <2>5 DEF TypeOK
  <2> HIDE DEF Written
  <2> QED BY <2>2, <2>3, <2>4, <2>5, <2>6, <2>l, <2>r DEF TypeOK
<1>4. CASE WriteFails
  <2> USE DEF WriteFails, readerVars, writerVars, peerVars
  <2>1. TypeOK' /\ peer = "silent"
    BY Sizes, <1>4 DEF TypeOK
  <2> QED BY <1>4, <2>1 DEF LivePeerIsKept
<1> QED BY <1>1, <1>2, <1>3, <1>4 DEF WriterTask

\* The peer's, the network's and the clock's: a live peer reads on within LAG.
LEMMA PeerStep ==
  ASSUME LifeKept, PeerReads \/ PeerVanishes \/ LinkBreaks \/ Tick
  PROVE  LifeKept'
<1>n. /\ Len(net) \in Nat /\ Len(net) <= SOCK /\ lag \in 0..LAG /\ Left \in Nat
      /\ passed \in 0..PASS /\ pingIn \in 0..PING /\ age \in 0..IDLE
      /\ remaining \in 0..IDLE /\ blocked \in 0..IDLE
  BY Numbers DEF LifeKept
<1>h. Held \in {0, 1} /\ PASS - passed \in 0..PASS /\ PASS \in Nat /\ SOCK \in Nat
  BY Sizes, <1>n DEF Held
<1> USE DEF LifeKept
<1>1. CASE PeerReads
  <2> USE DEF PeerReads, readerVars, writerVars, peerVars
  <2>1. /\ net' \in Seq({"data", "ping"}) /\ Len(net') = Len(net) - 1
        /\ \A k \in 1..(Len(net) - 1) : net'[k] = net[k + 1]
        /\ Head(net) = net[1] /\ Len(net) > 0
    BY <1>1, HeadTailProperties DEF TypeOK
  <2>2. inbox' \in Seq(Message) /\ Len(inbox') <= INBOX
    BY Sizes, <1>1 DEF TypeOK, Message
  <2>3. TypeOK'
    <3>1. UNCHANGED <<reader, why, age, remaining, blocked, writer, pingIn, passed, outq, peer, link>>
      BY <1>1
    <3>2. TypeOK /\ lag' = 0
      BY <1>1
    <3> HIDE DEF PeerReads, LifeKept
    <3>3. Len(net') <= SOCK /\ lag' \in 0..LAG
      BY Sizes, <1>n, <2>1, <3>2
    <3> QED BY <2>1, <2>2, <3>1, <3>2, <3>3 DEF TypeOK
  <2>l. Left' = Left /\ LivePeerIsKept'
    BY <1>1 DEF Left, LivePeerIsKept
  <2>o. ReplyGoesOut => ReplyGoesOut'
    <3>1. UNCHANGED <<age, writer, pingIn>>
      BY <1>1
    <3> HIDE DEF PeerReads, LifeKept
    <3>2. Len(net') # SOCK
      BY Sizes, <1>n, <2>1
    <3> QED BY <3>1, <3>2 DEF ReplyGoesOut
  <2>r. ASSUME NEW n \in Nat, n > 0, ToRead(n) - lag < Left PROVE ToRead(n - 1) < Left
    <3> DEFINE m == n - 1
    <3>1. m \in Nat /\ n = m + 1
      BY <2>r
    <3>2. ToRead(m + 1) = ToRead(m) + LAG /\ ToRead(m) \in Nat
      BY <3>1, ReadingAddsUp
    <3> QED BY Sizes, <1>n, <2>r, <3>1, <3>2
  <2>4. ASSUME PingComes, inbox' = <<>>, inbox = <<>> PROVE PingComes'
    <3>1. Head(net) # "ping"
      BY Sizes, <1>1, <2>4
    <3>2. CASE \E k \in 1..Len(net) : net[k] = "ping" /\ ToRead(k) - lag < Left
      <4>1. PICK k \in 1..Len(net) : net[k] = "ping" /\ ToRead(k) - lag < Left
        BY <3>2
      <4> DEFINE m == k - 1
      <4>2. m \in 1..(Len(net) - 1) /\ m + 1 = k /\ k > 0 /\ k \in Nat
        BY <2>1, <3>1, <4>1
      <4>3. net'[m] = "ping" /\ ToRead(m) < Left
        BY <2>1, <2>r, <4>1, <4>2
      <4>4. m \in 1..Len(net') /\ net'[m] = "ping" /\ ToRead(m) - lag' < Left' /\ ToRead(m) \in Nat
        BY <1>1, <2>1, <2>l, <4>2, <4>3, ReadingAddsUp
      <4> QED BY <4>4 DEF PingComes, ToRead
    <3>3. CASE writer = "ping" /\ ToRead(Len(net) + 1) - lag < Left
      <4>1. Len(net) + 1 \in Nat /\ Len(net) + 1 > 0 /\ (Len(net) + 1) - 1 = Len(net') + 1
        BY <1>n, <2>1
      <4>2. ToRead(Len(net') + 1) < Left /\ ToRead(Len(net') + 1) \in Nat
        BY <1>n, <2>1, <2>r, <3>3, <4>1, ReadingAddsUp
      <4>3. ToRead(Len(net') + 1) - lag' < Left'
        BY <1>1, <2>l, <4>2
      <4> QED BY <1>1, <3>3, <4>3 DEF PingComes, ToRead
    <3>4. CASE /\ writer \in {"select", "data"} /\ pingIn = 0
               /\ ToRead(Len(net) + Held + (PASS - passed) + 1) - lag < Left
      <4> DEFINE n == Len(net) + Held + (PASS - passed) + 1
                 m == Len(net') + Held + (PASS - passed) + 1
      <4>1. n \in Nat /\ n > 0 /\ n - 1 = m /\ m \in Nat
        BY <1>h, <1>n, <2>1
      <4>2. ToRead(m) < Left /\ ToRead(m) \in Nat
        BY <2>r, <3>4, <4>1, ReadingAddsUp
      <4>3. ToRead(m) - lag' < Left'
        BY <1>1, <2>l, <4>2
      <4> QED BY <1>1, <3>4, <4>3 DEF PingComes, ToRead, Held
    <3>5. CASE /\ writer \in {"select", "data"} /\ pingIn > 0 /\ passed = 0
               /\ pingIn + ToRead(PASS + SOCK + 2) < Left
      BY <1>1, <2>l, <3>5 DEF PingComes, ToRead
    <3> QED BY <2>4, <3>2, <3>3, <3>4, <3>5 DEF PingComes
  <2>5. inbox' = <<>> => inbox = <<>>
    BY <1>1 DEF TypeOK
  <2>6. Len(net') # SOCK
    BY Sizes, <1>n, <2>1
  <2> QED BY <1>1, <2>3, <2>4, <2>5, <2>6, <2>l, <2>o
<1>2. CASE PeerVanishes
  <2> USE DEF PeerVanishes, readerVars, writerVars, peerVars
  <2>1. TypeOK' /\ peer' = "silent"
    BY <1>2 DEF TypeOK
  <2> QED BY <1>2, <2>1 DEF LivePeerIsKept
<1>3. CASE LinkBreaks
  <2> USE DEF LinkBreaks, readerVars, writerVars, peerVars
  <2>1. <<>> \in Seq({"data", "ping"}) /\ Len(<<>>) = 0
    OBVIOUS
  <2>2. TypeOK' /\ peer' = "silent"
    BY Sizes, <1>3, <2>1 DEF TypeOK
  <2> QED BY <1>3, <2>2 DEF LivePeerIsKept
<1>4. CASE Tick
  <2> USE DEF Tick, readerVars, writerVars, peerVars
  <2>1. /\ reader # "check" /\ reader # "closed"
        /\ reader = "wait" => remaining > 0 /\ inbox = <<>>
        /\ reader = "reply" => outq = OUT_CAP
        /\ writer = "select" => pingIn > 0 /\ outq = 0
        /\ writer \in {"data", "ping"} => Len(net) >= SOCK
    BY <1>4, <1>n, Sizes DEF ServerBusy, TypeOK
  <2>2. TypeOK'
    <3>1. age' \in 0..IDLE
      BY <1>4, Sizes DEF TypeOK, Smaller
    <3>2. remaining' \in 0..IDLE /\ blocked' \in 0..IDLE
      BY <1>4, Sizes, <2>1 DEF TypeOK, Smaller
    <3>3. pingIn' \in 0..PING
      BY <1>4, Sizes DEF TypeOK
    <3>4. lag' \in 0..LAG
      BY <1>4, Sizes, <1>n
    <3> QED BY <1>4, <3>1, <3>2, <3>3, <3>4 DEF TypeOK
  <2>3. ASSUME peer = "up", PingComes PROVE Left' > 0 /\ PingComes'
    <3>p. Left > 0
      <4>1. \A n \in Nat : n > 0 => ToRead(n) \in Nat /\ ToRead(n) >= LAG
        <5> SUFFICES ASSUME NEW n \in Nat, n > 0 PROVE ToRead(n) \in Nat /\ ToRead(n) >= LAG
          OBVIOUS
        <5> DEFINE m == n - 1
        <5>1. m \in Nat /\ n = m + 1
          OBVIOUS
        <5>2. ToRead(m + 1) = ToRead(m) + LAG /\ ToRead(m) \in Nat
          BY <5>1, ReadingAddsUp
        <5> QED BY Sizes, <5>1, <5>2
      <4>2. ASSUME NEW n \in Nat, n > 0, ToRead(n) - lag < Left PROVE Left > 0
        BY Sizes, <1>n, <4>1, <4>2
      <4>3. /\ Len(net) + 1 \in Nat /\ Len(net) + 1 > 0
            /\ Len(net) + Held + (PASS - passed) + 1 \in Nat /\ Len(net) + Held + (PASS - passed) + 1 > 0
            /\ PASS + SOCK + 2 \in Nat /\ PASS + SOCK + 2 > 0
            /\ \A k \in 1..Len(net) : k \in Nat /\ k > 0
        BY Sizes, <1>h, <1>n
      <4>4. ToRead(PASS + SOCK + 2) \in Nat
        BY <4>1, <4>3
      <4>5. CASE pingIn > 0 /\ pingIn + ToRead(PASS + SOCK + 2) < Left
        BY <1>n, <4>4, <4>5
      <4> HIDE DEF Tick
      <4> QED BY <2>3, <4>2, <4>3, <4>5 DEF PingComes
    <3>1. Left' = Left - 1 /\ Left \in Nat /\ Left > 0
      BY <1>4, Sizes, <1>n, <2>1, <3>p DEF Left, Smaller
    <3>r. ASSUME NEW n \in Nat, n > 0, ToRead(n) - lag < Left, net # <<>>
          PROVE  Left' > 0 /\ ToRead(n) - lag' < Left'
      <4>1. lag < LAG /\ lag' = lag + 1
        BY <1>4, <2>3, <3>r
      <4>2. ToRead(n) >= LAG /\ ToRead(n) \in Nat
        <5> DEFINE m == n - 1
        <5>1. m \in Nat /\ n = m + 1
          BY <3>r
        <5>2. ToRead(m + 1) = ToRead(m) + LAG /\ ToRead(m) \in Nat
          BY <5>1, ReadingAddsUp
        <5> QED BY Sizes, <5>1, <5>2
      <4> QED BY Sizes, <1>n, <3>1, <3>r, <4>1, <4>2
    <3>2. CASE \E k \in 1..Len(net) : net[k] = "ping" /\ ToRead(k) - lag < Left
      <4>1. PICK k \in 1..Len(net) : net[k] = "ping" /\ ToRead(k) - lag < Left
        BY <3>2
      <4>2. k \in Nat /\ k > 0 /\ net # <<>>
        BY <4>1, <1>n
      <4>3. Left' > 0 /\ ToRead(k) - lag' < Left'
        BY <3>r, <4>1, <4>2
      <4> QED BY <1>4, <4>1, <4>3 DEF PingComes, ToRead
    <3>3. CASE writer = "ping" /\ ToRead(Len(net) + 1) - lag < Left
      <4>1. net # <<>> /\ Len(net) + 1 \in Nat /\ Len(net) + 1 > 0
        BY Sizes, <1>n, <2>1, <3>3
      <4>2. Left' > 0 /\ ToRead(Len(net) + 1) - lag' < Left'
        BY <3>r, <3>3, <4>1
      <4> QED BY <1>4, <3>3, <4>2 DEF PingComes, ToRead
    <3>4. CASE /\ writer \in {"select", "data"} /\ pingIn = 0
               /\ ToRead(Len(net) + Held + (PASS - passed) + 1) - lag < Left
      <4> DEFINE n == Len(net) + Held + (PASS - passed) + 1
      <4>1. net # <<>> /\ n \in Nat /\ n > 0
        BY Sizes, <1>n, <2>1, <3>4 DEF Held
      <4>2. Left' > 0 /\ ToRead(n) - lag' < Left'
        BY <3>r, <3>4, <4>1
      <4>3. pingIn' = 0
        BY <1>4, <3>4
      <4> QED BY <1>4, <3>4, <4>2, <4>3 DEF PingComes, ToRead, Held
    <3>5. CASE /\ writer \in {"select", "data"} /\ pingIn > 0 /\ passed = 0
               /\ pingIn + ToRead(PASS + SOCK + 2) < Left
      <4>1. pingIn' = pingIn - 1 /\ ToRead(PASS + SOCK + 2) \in Nat
        <5> DEFINE m == PASS + SOCK + 2
        <5>1. m \in Nat
          BY Sizes
        <5>2. ToRead(m) \in Nat
          BY <5>1, ReadingAddsUp
        <5> QED BY <1>4, <3>5, <5>2
      <4>2. Left' > 0 /\ pingIn' + ToRead(PASS + SOCK + 2) < Left'
        BY <1>n, <3>1, <3>5, <4>1
      <4>3. CASE pingIn' > 0
        BY <1>4, <3>5, <4>2, <4>3 DEF PingComes, ToRead
      <4>4. CASE pingIn' = 0
        <5> DEFINE n == Len(net) + Held + (PASS - passed) + 1
                   m == PASS + SOCK + 2
        <5>1. n \in Nat /\ m \in Nat /\ n <= m
          BY <1>h, <1>n
        <5>2. ToRead(n) <= ToRead(m) /\ ToRead(n) \in Nat /\ ToRead(m) \in Nat
          BY <5>1, ReadingAddsUp
        <5>3. lag' \in Nat /\ Left' \in Int /\ ToRead(m) < Left'
          <6>1. lag' \in Nat
            BY <1>4, <1>n
          <6> QED BY <6>1, <3>1, <4>2, <4>4, <5>2
        <5>4. ToRead(n) - lag' < Left' /\ lag' \in Nat
          <6> HIDE DEF n, m, Tick, LifeKept
          <6> QED BY <5>2, <5>3
        <5> QED BY <1>4, <3>5, <4>2, <4>4, <5>4 DEF PingComes, ToRead, Held
      <4> QED BY <1>n, <4>1, <4>2, <4>3, <4>4, <3>5
    <3> QED BY <2>3, <3>2, <3>3, <3>4, <3>5 DEF PingComes
  <2>4. peer = "up" /\ net = <<>> => lag' = 0
    BY <1>4
  <2>5. pingIn' > 0 => passed' = 0
    BY <1>4, <1>n
  <2>6. LivePeerIsKept'
    BY <1>4, <2>1 DEF LivePeerIsKept, TypeOK
  <2>7. ASSUME peer = "up", writer = "ping" PROVE pingIn' > 0 /\ pingIn' + lag' >= PING
    <3>1. Len(net) = SOCK /\ net # <<>>
      BY Sizes, <1>n, <2>1, <2>7
    <3> QED BY <1>4, Sizes, <1>n, <2>7, <3>1
  <2>8. ASSUME peer = "up", reader = "wait" PROVE remaining' > 0
    <3>1. Left' = remaining'
      BY <1>4, <2>8 DEF Left
    <3> QED BY <1>4, <2>1, <2>3, <2>8, <3>1
  <2>9. ASSUME reader = "input", age <= blocked PROVE age' <= blocked'
    BY <1>4, Sizes, <1>n, <2>9 DEF Smaller
  <2>10. ASSUME peer = "up", reader = "reply", ReplyGoesOut PROVE ReplyGoesOut'
    <3>1. writer \in {"data", "ping"} /\ Len(net) = SOCK /\ net # <<>>
      BY Sizes, <1>n, <2>1, <2>10 DEF TypeOK
    <3>2. age' <= age + 1 /\ lag' = lag + 1 /\ lag < LAG /\ age' \in Nat /\ UNCHANGED <<writer, net>>
      BY <1>4, Sizes, <1>n, <2>10, <3>1 DEF Smaller
    <3> QED BY Sizes, <1>n, <2>10, <3>1, <3>2 DEF ReplyGoesOut
  <2>11. UNCHANGED <<reader, writer, net, inbox, peer, link>>
    BY <1>4
  <2> HIDE DEF Tick
  <2> QED BY <2>1, <2>2, <2>3, <2>4, <2>5, <2>6, <2>7, <2>8, <2>9, <2>10, <2>11
<1> QED BY <1>1, <1>2, <1>3, <1>4

-----------------------------------------------------------------------------
\* For every idle limit that leaves a ping the time to be written, read and
\* answered: a peer that is there and reads on is never taken for an idle one.
THEOREM LivePeersAreKept == Spec => []LifeInv
<1>1. LifeKept /\ [Next]_vars => LifeKept'
  <2>1. ASSUME LifeKept, UNCHANGED vars PROVE LifeKept'
    <3>1. UNCHANGED <<reader, why, remaining, blocked, age, writer, pingIn, passed, outq, net, inbox,
                      peer, lag, link>>
      BY <2>1 DEF vars, readerVars, writerVars, peerVars
    <3>2. UNCHANGED <<PingComes, ReplyGoesOut, LivePeerIsKept>>
      BY <3>1 DEF PingComes, Held, ToRead, Left, ReplyGoesOut, LivePeerIsKept
    <3> QED BY <2>1, <3>1, <3>2 DEF LifeKept, TypeOK
  <2> QED BY <2>1, ReaderStep, WriterStep, PeerStep DEF Next
<1>2. LifeKept => LifeInv
  BY DEF LifeKept, LifeInv
<1> QED BY LifeInit, <1>1, <1>2, PTL DEF Spec
=============================================================================
