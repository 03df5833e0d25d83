-------------------------- MODULE PtySessionProofs --------------------------
(***************************************************************************)
(* Theorems about PtySession, for every number of attach calls, every      *)
(* capacity of ring, feed and channels and every length of the session:    *)
(* types, the ring, the detach clock, the streams of the clients, and that *)
(* a session implements TerminalStream and SessionControl.                 *)
(***************************************************************************)
EXTENDS PtySession, SequenceTheorems, TLAPS

(* Which program points go with which data: a stream task about to take a  *)
(* feed item has one, and holds a message exactly while it sends.          *)
TaskShape ==
  /\ task = "feed" => feed # <<>>
  /\ task = "send" <=> hand # NoHand

-----------------------------------------------------------------------------
(* Sequences. *)

LEMMA HeadTail ==
  ASSUME NEW S, NEW s \in Seq(S), s # <<>>
  PROVE  /\ Head(s) \in S
         /\ Tail(s) \in Seq(S)
         /\ Len(Tail(s)) = Len(s) - 1
         /\ Len(s) \in Nat \ {0}
         /\ Head(s) = s[1]
         /\ \A i \in 1..Len(s) - 1 : Tail(s)[i] = s[i + 1]
  BY HeadTailProperties

\* What the feed carries: chunks, and the end of file without bytes.
LEMMA ItemBytes ==
  ASSUME NEW x \in Item
  PROVE  /\ x.bytes \in Bytes /\ Len(x.bytes) \in Nat
         /\ x.kind = "eof" => x.bytes = <<>>
<1>1. CASE x \in [kind : {"data"}, bytes : Bytes]
  <2>1. x.bytes \in Bytes /\ x.kind = "data"
    BY <1>1
  <2>2. QED BY <2>1, LenProperties DEF Bytes
<1>2. CASE x = Eof
  <2>1. x.bytes = <<>> /\ Len(<<>>) = 0 /\ <<>> \in Seq(Nat)
    BY <1>2, EmptySeq DEF Eof
  <2>2. QED BY <2>1 DEF Bytes
<1>3. QED BY <1>1, <1>2 DEF Item

\* SessionState::push keeps at most RING_CAP bytes and never forgets one while
\* there is room.
LEMMA PushKeepsTail ==
  ASSUME ring \in Bytes, Len(ring) <= RING_CAP, ringStart \in Nat, total \in Nat,
         NEW bytes \in Bytes, Push(bytes)
  PROVE  /\ ring' \in Bytes
         /\ Len(ring') = Len(ring) + Len(bytes) - Dropped(bytes)
         /\ Len(ring') <= RING_CAP
         /\ \A i \in 1..Len(ring') : ring'[i] = (ring \o bytes)[i + Dropped(bytes)]
         /\ ringStart' \in Nat
         /\ total' \in Nat
         /\ Dropped(bytes) \in 0..Len(ring) + Len(bytes)
<1> DEFINE all == ring \o bytes
           d == Dropped(bytes)
<1>1. /\ all \in Bytes
      /\ Len(all) = Len(ring) + Len(bytes)
      /\ Len(ring) \in Nat /\ Len(bytes) \in Nat
  BY ConcatProperties, LenProperties DEF Bytes
<1>2. d \in 0..Len(all)
  BY <1>1, ConstantsAssumption DEF Dropped, Larger
<1>3. /\ ring' \in Bytes
      /\ Len(ring') = Len(all) - d
      /\ \A i \in 1..Len(all) - d : ring'[i] = all[i + d]
  <2>1. ring' = SubSeq(all, d + 1, Len(all))
    BY <1>1 DEF Push
  <2>2. /\ SubSeq(all, d + 1, Len(all)) \in Seq(Nat)
        /\ Len(SubSeq(all, d + 1, Len(all))) = Len(all) - d
        /\ \A i \in 1..Len(all) - d : SubSeq(all, d + 1, Len(all))[i] = all[i + d]
    <3>1. all \in Seq(Nat) BY <1>1 DEF Bytes
    <3>2. Len(all) \in Nat BY <1>1
    <3> HIDE DEF all, d
    <3>3. QED BY <3>1, <3>2, <1>2, SubSeqProperties, SMTT(30)
  <2>3. QED BY <2>1, <2>2 DEF Bytes
<1>4. Len(all) - d <= RING_CAP
  BY <1>1, ConstantsAssumption DEF Dropped, Larger
<1>5. ringStart' \in Nat /\ total' \in Nat
  BY <1>1, <1>2 DEF Push
<1>6. QED BY <1>1, <1>2, <1>3, <1>4, <1>5

-----------------------------------------------------------------------------
(* Type correctness. *)

LEMMA TypeInit == Init => TypeOK /\ TaskShape
<1> SUFFICES ASSUME Init PROVE TypeOK /\ TaskShape
  OBVIOUS
<1>1. /\ <<>> \in Bytes /\ <<>> \in Seq(Item) /\ <<>> \in Seq(Ctrl)
      /\ <<>> \in Seq(Msg) /\ Len(<<>>) = 0
  BY EmptySeq DEF Bytes
<1>2. /\ RING_CAP \in Nat /\ FEED_CAP \in Nat /\ SUB_CAP \in Nat
      /\ MaxBytes \in Nat /\ MaxCtrl \in Nat
  BY ConstantsAssumption
<1>3. /\ chan \in [Attach -> Seq(Msg)]
      /\ \A a \in Attach : Len(chan[a]) <= SUB_CAP
  BY <1>1, <1>2 DEF Init
<1>4. /\ info \in [Attach -> [from : Nat, end : Nat, truncated : BOOLEAN]]
      /\ seen \in [Attach -> Nat \cup {Unset}]
      /\ got \in [Attach -> Nat]
      /\ rx \in [Attach -> {"unused", "open", "exited", "told", "ended", "lost"}]
  BY DEF Init
<1>5. /\ child \in {"running", "mute", "dead"}
      /\ reader \in {"read", "send", "wait", "sendEof", "done"}
      /\ read \in 0..MaxBytes
      /\ ringStart \in Nat /\ total \in Nat
      /\ detachedAt \in {"none", "recent", "expired"}
      /\ task \in {"ctrl", "feed", "send", "gone"}
      /\ sub \in Attach \cup {NoSub}
      /\ session \in {"live", "killing"} \cup Over
  BY <1>2, SMT DEF Init
<1>6. exited \in BOOLEAN /\ aborted \in BOOLEAN
  BY Zenon DEF Init
<1>7. TypeOK
  BY <1>1, <1>2, <1>3, <1>4, <1>5, <1>6 DEF Init, TypeOK
<1>8. TaskShape
  BY DEF Init, TaskShape
<1>9. QED BY <1>7, <1>8

LEMMA TypeReader ==
  ASSUME TypeOK, TaskShape,
         ChildCloses \/ ChildExits \/ ReaderRead \/ ReaderRuns
  PROVE  TypeOK' /\ TaskShape'
<1> USE DEF readerVars, stateVars, taskVars, clientVars
<1>1. CASE ChildCloses
  BY <1>1 DEF ChildCloses, TypeOK, TaskShape
<1>2. CASE ChildExits
  BY <1>2 DEF ChildExits, TypeOK, TaskShape
<1>3. CASE ReaderRead
  <2>1. PICK n \in 1..READ_MAX :
          /\ read + n <= MaxBytes
          /\ chunk' = [i \in 1..n |-> read + i - 1]
          /\ read' = read + n
    BY <1>3 DEF ReaderRead
  <2>2. read' \in 0..MaxBytes
    BY <2>1, ConstantsAssumption DEF TypeOK
  <2>3. chunk' \in Bytes
    <3>1. \A i \in 1..n : read + i - 1 \in Nat
      BY <2>1, ConstantsAssumption DEF TypeOK
    <3>2. n \in Nat
      BY <2>1, ConstantsAssumption
    <3>3. chunk' \in [1..n -> Nat]
      BY <2>1, <3>1
    <3>4. QED BY <3>2, <3>3, SeqDef DEF Bytes
  <2>4. QED BY <1>3, <2>2, <2>3 DEF ReaderRead, TypeOK, TaskShape
<1>4. CASE ReaderRuns
  <2>1. CASE ReaderSend
    <3>1. Data(chunk) \in Item
      BY DEF TypeOK, Data, Item
    <3>2. CASE FeedHasRoom /\ feed' = Append(feed, Data(chunk)) /\ reader' = "read"
      <4>1. feed' \in Seq(Item) /\ Len(feed') <= FEED_CAP /\ feed' # <<>>
        BY <3>1, <3>2, AppendProperties, LenProperties, ConstantsAssumption
        DEF TypeOK, FeedHasRoom
      <4>2. QED BY <2>1, <3>2, <4>1, EmptySeq DEF ReaderSend, TypeOK, TaskShape, Bytes
    <3>3. CASE task = "gone" /\ reader' = "done" /\ UNCHANGED feed
      BY <2>1, <3>3 DEF ReaderSend, TypeOK, TaskShape, Bytes
    <3>4. QED BY <2>1, <3>2, <3>3 DEF ReaderSend
  <2>2. CASE ReaderEof
    BY <2>2 DEF ReaderEof, TypeOK, TaskShape
  <2>3. CASE ReaderWaited
    BY <2>3 DEF ReaderWaited, TypeOK, TaskShape
  <2>4. CASE ReaderSendEof
    <3>1. Eof \in Item
      BY DEF Eof, Item, Bytes
    <3>2. CASE FeedHasRoom /\ feed' = Append(feed, Eof)
      <4>1. feed' \in Seq(Item) /\ Len(feed') <= FEED_CAP /\ feed' # <<>>
        BY <3>1, <3>2, AppendProperties, LenProperties, ConstantsAssumption
        DEF TypeOK, FeedHasRoom
      <4>2. QED BY <2>4, <4>1 DEF ReaderSendEof, TypeOK, TaskShape
    <3>3. CASE task = "gone" /\ UNCHANGED feed
      BY <2>4, <3>3 DEF ReaderSendEof, TypeOK, TaskShape
    <3>4. QED BY <2>4, <3>2, <3>3 DEF ReaderSendEof
  <2>5. QED BY <1>4, <2>1, <2>2, <2>3, <2>4 DEF ReaderRuns
<1>5. QED BY <1>1, <1>2, <1>3, <1>4

LEMMA GoneIsTyped ==
  ASSUME TypeOK, TaskGone
  PROVE  /\ task' = "gone" /\ hand' = NoHand /\ sub' = NoSub
         /\ aborted' \in BOOLEAN
         /\ ctrl' \in Seq(Ctrl) /\ Len(ctrl') <= MaxCtrl
         /\ feed' \in Seq(Item) /\ Len(feed') <= FEED_CAP
<1>1. Len(<<>>) = 0 /\ <<>> \in Seq(Ctrl) /\ <<>> \in Seq(Item)
  BY EmptySeq
<1>2. MaxCtrl \in Nat /\ FEED_CAP \in Nat
  BY ConstantsAssumption
<1>3. aborted' \in BOOLEAN
  BY Zenon DEF TaskGone
<1>4. /\ task' = "gone" /\ hand' = NoHand /\ sub' = NoSub
      /\ ctrl' = <<>> /\ feed' = <<>>
  BY DEF TaskGone
<1>5. QED BY <1>1, <1>2, <1>3, <1>4

LEMMA MessagesTyped ==
  /\ \A from \in Nat, bytes \in Bytes : OutMsg(from, bytes) \in Msg
  /\ ExitMsg("status") \in Msg /\ ExitMsg("unknown") \in Msg
  BY EmptySeq DEF OutMsg, ExitMsg, Msg, Bytes

LEMMA ReplayTyped ==
  ASSUME TypeOK, NEW from \in Nat
  PROVE  /\ ReplayStart(from) \in Nat /\ ReplayStart(from) >= ringStart
         /\ Replay(from) \in Bytes
         /\ Len(Replay(from)) =
              IF ReplayStart(from) < ringStart + Len(ring)
              THEN ringStart + Len(ring) - ReplayStart(from) ELSE 0
         /\ \A i \in 1..Len(Replay(from)) :
              Replay(from)[i] = ring[ReplayStart(from) - ringStart + i]
<1> DEFINE m == ReplayStart(from) - ringStart + 1
           n == Len(ring)
<1>1. /\ ReplayStart(from) \in Nat /\ ReplayStart(from) >= ringStart
      /\ m \in Nat \ {0} /\ n \in Nat /\ ring \in Seq(Nat)
  BY LenProperties DEF TypeOK, ReplayStart, Larger, Bytes
<1>2. \A i \in m..n : ring[i] \in Nat
  BY <1>1, ElementOfSeq
<1>3. /\ SubSeq(ring, m, n) \in Seq(Nat)
      /\ Len(SubSeq(ring, m, n)) = IF m <= n THEN n - m + 1 ELSE 0
      /\ \A i \in 1..n - m + 1 : SubSeq(ring, m, n)[i] = ring[m + i - 1]
  <2> HIDE DEF m, n
  <2>1. QED BY <1>1, <1>2, SubSeqProperties
<1>4. Replay(from) = SubSeq(ring, m, n)
  BY DEF Replay
<1>5. Len(Replay(from)) = IF ReplayStart(from) < ringStart + Len(ring)
                          THEN ringStart + Len(ring) - ReplayStart(from) ELSE 0
  BY <1>1, <1>3, <1>4, SMTT(30) DEF TypeOK
<1>6. \A i \in 1..Len(Replay(from)) :
        Replay(from)[i] = ring[ReplayStart(from) - ringStart + i]
  <2> TAKE i \in 1..Len(Replay(from))
  <2>1. i \in 1..n - m + 1 /\ m + i - 1 = ReplayStart(from) - ringStart + i
    BY <1>1, <1>3, <1>4 DEF TypeOK
  <2>2. Replay(from)[i] = ring[m + i - 1]
    BY <2>1, <1>3, <1>4
  <2> HIDE DEF m, n
  <2>3. QED BY <2>1, <2>2
<1>7. QED BY <1>1, <1>3, <1>4, <1>5, <1>6 DEF Bytes

LEMMA TypeTask ==
  ASSUME TypeOK, TaskShape, StreamTask
  PROVE  TypeOK' /\ TaskShape'
<1> USE DEF readerVars, stateVars, taskVars, clientVars
<1>1. CASE TakeSubscribe
  <2>1. /\ Head(ctrl) \in [op : {"subscribe"}, tx : Attach, from : Nat]
        /\ Tail(ctrl) \in Seq(Ctrl)
        /\ Len(Tail(ctrl)) <= MaxCtrl
    <3>1. /\ Head(ctrl) \in Ctrl /\ Tail(ctrl) \in Seq(Ctrl)
          /\ Len(Tail(ctrl)) = Len(ctrl) - 1 /\ Len(ctrl) \in Nat
      BY <1>1, HeadTail DEF TakeSubscribe, TypeOK
    <3>2. Head(ctrl).op = "subscribe" /\ Len(ctrl) <= MaxCtrl
      BY <1>1 DEF TakeSubscribe, TypeOK
    <3>3. MaxCtrl \in Nat
      BY ConstantsAssumption
    <3>4. QED BY <3>1, <3>2, <3>3 DEF Ctrl, Unsubscribe
  <2> DEFINE a == Head(ctrl).tx
             from == Head(ctrl).from
  <2>2. a \in Attach /\ from \in Nat
    BY <2>1
  <2>3. CASE Replay(from) # <<>>
    <3>1. OutMsg(ReplayStart(from), Replay(from)) \in Msg
      BY <2>2, ReplayTyped, MessagesTyped
    <3>2. /\ task' = "send" /\ sub' = sub /\ detachedAt' = detachedAt
          /\ hand' = [to |-> a, why |-> "replay",
                      msg |-> OutMsg(ReplayStart(from), Replay(from))]
      BY <1>1, <2>3 DEF TakeSubscribe, Hold
    <3>3. hand' # NoHand
      BY <2>2, <3>2, ConstantsAssumption DEF NoHand
    <3>4. QED BY <1>1, <2>1, <2>2, <3>1, <3>2, <3>3, SMTT(30)
      DEF TakeSubscribe, TypeOK, TaskShape
  <2>4. CASE Replay(from) = <<>>
    BY <1>1, <2>1, <2>2, <2>4 DEF TakeSubscribe, TypeOK, TaskShape
  <2>5. QED BY <2>3, <2>4
<1>2. CASE TakeUnsubscribe
  <2>1. Tail(ctrl) \in Seq(Ctrl) /\ Len(Tail(ctrl)) <= MaxCtrl
    <3>1. /\ Tail(ctrl) \in Seq(Ctrl)
          /\ Len(Tail(ctrl)) = Len(ctrl) - 1 /\ Len(ctrl) \in Nat
      BY <1>2, HeadTail DEF TakeUnsubscribe, TypeOK
    <3>2. Len(ctrl) <= MaxCtrl /\ MaxCtrl \in Nat
      BY ConstantsAssumption DEF TypeOK
    <3>3. QED BY <3>1, <3>2
  <2>2. QED BY <1>2, <2>1 DEF TakeUnsubscribe, TypeOK, TaskShape
<1>3. CASE PollFeed
  BY <1>3 DEF PollFeed, TypeOK, TaskShape
<1>4. CASE CtrlEnds
  <2>1. CASE TaskGone
    BY <1>4, <2>1, GoneIsTyped DEF CtrlEnds, TypeOK, TaskShape
  <2>2. CASE ~(exited \/ sub = NoSub)
    <3>1. sub \in Attach
      BY <2>2 DEF TypeOK
    <3>2. hand' \in [to : Attach, why : {"replay", "live", "exit", "last"}, msg : Msg]
      BY <1>4, <2>2, <3>1, MessagesTyped DEF CtrlEnds, LoopEnds, Hold
    <3>3. hand' # NoHand
      BY <1>4, <2>2, <3>1, ConstantsAssumption DEF CtrlEnds, LoopEnds, Hold, NoHand
    <3>4. QED BY <1>4, <2>2, <3>2, <3>3
      DEF CtrlEnds, LoopEnds, Hold, TypeOK, TaskShape
  <2>3. QED BY <1>4, <2>1, <2>2 DEF CtrlEnds, LoopEnds
<1>5. CASE TakeData
  <2>1. /\ Head(feed) \in Item /\ Tail(feed) \in Seq(Item)
        /\ Len(Tail(feed)) <= FEED_CAP
    <3>1. feed # <<>> /\ feed \in Seq(Item) /\ Len(feed) <= FEED_CAP
      BY <1>5 DEF TakeData, TypeOK, TaskShape
    <3>2. /\ Head(feed) \in Item /\ Tail(feed) \in Seq(Item)
          /\ Len(Tail(feed)) = Len(feed) - 1 /\ Len(feed) \in Nat
      BY <3>1, HeadTail
    <3>3. FEED_CAP \in Nat
      BY ConstantsAssumption
    <3>4. QED BY <3>1, <3>2, <3>3
  <2> DEFINE bytes == Head(feed).bytes
  <2>2. bytes \in Bytes
    BY <2>1, ItemBytes
  <2>3. /\ ring' \in Bytes /\ Len(ring') <= RING_CAP
        /\ ringStart' \in Nat /\ total' \in Nat
    BY <1>5, <2>2, PushKeepsTail DEF TakeData, TypeOK
  <2>4. LiveFrom(bytes) \in Nat
    BY <1>5, <2>2, LenProperties DEF TakeData, Push, LiveFrom, TypeOK, Bytes
  <2>5. CASE sub # NoSub
    <3>1. sub \in Attach
      BY <2>5 DEF TypeOK
    <3>2. OutMsg(LiveFrom(bytes), bytes) \in Msg
      BY <2>2, <2>4, MessagesTyped
    <3>3. /\ task' = "send"
          /\ hand' = [to |-> sub, why |-> "live",
                      msg |-> OutMsg(LiveFrom(bytes), bytes)]
      BY <1>5, <2>5 DEF TakeData, Hold
    <3>4. hand' # NoHand
      BY <3>1, <3>3, ConstantsAssumption DEF NoHand
    <3>5. QED BY <1>5, <2>1, <2>3, <3>1, <3>2, <3>3, <3>4
      DEF TakeData, TypeOK, TaskShape
  <2>6. CASE sub = NoSub
    BY <1>5, <2>1, <2>3, <2>6 DEF TakeData, TypeOK, TaskShape
  <2>7. QED BY <2>5, <2>6
<1>6. CASE TakeEof
  <2>1. Tail(feed) \in Seq(Item) /\ Len(Tail(feed)) <= FEED_CAP
    <3>1. feed # <<>> /\ feed \in Seq(Item) /\ Len(feed) <= FEED_CAP
      BY <1>6 DEF TakeEof, TypeOK, TaskShape
    <3>2. /\ Tail(feed) \in Seq(Item)
          /\ Len(Tail(feed)) = Len(feed) - 1 /\ Len(feed) \in Nat
      BY <3>1, HeadTail
    <3>3. FEED_CAP \in Nat
      BY ConstantsAssumption
    <3>4. QED BY <3>1, <3>2, <3>3
  <2>2. CASE sub # NoSub
    <3>1. sub \in Attach
      BY <2>2 DEF TypeOK
    <3>2. /\ task' = "send"
          /\ hand' = [to |-> sub, why |-> "exit", msg |-> ExitMsg("status")]
      BY <1>6, <2>2 DEF TakeEof, Hold
    <3>3. hand' # NoHand
      BY <3>1, <3>2, ConstantsAssumption DEF NoHand
    <3>4. QED BY <1>6, <2>1, <3>1, <3>2, <3>3, MessagesTyped
      DEF TakeEof, TypeOK, TaskShape
  <2>3. CASE sub = NoSub
    BY <1>6, <2>1, <2>3 DEF TakeEof, TypeOK, TaskShape
  <2>4. QED BY <2>2, <2>3
<1>7. CASE SendDone
  <2> DEFINE a == hand.to
  <2>1. /\ task = "send" /\ a \in Attach /\ hand.msg \in Msg
        /\ hand \in [to : Attach, why : {"replay", "live", "exit", "last"}, msg : Msg]
    BY <1>7 DEF SendDone, TypeOK, TaskShape
  <2>2. chan' \in [Attach -> Seq(Msg)] /\ \A b \in Attach : Len(chan'[b]) <= SUB_CAP
    <3>1. CASE rx[a] = "open"
      <4>1. chan' = [chan EXCEPT ![a] = Append(@, hand.msg)]
        BY <1>7, <3>1 DEF SendDone
      <4>2. Len(chan[a]) < SUB_CAP
        BY <1>7, <3>1 DEF SendDone, SendReturns
      <4>3. /\ Append(chan[a], hand.msg) \in Seq(Msg)
            /\ Len(Append(chan[a], hand.msg)) = Len(chan[a]) + 1
            /\ Len(chan[a]) \in Nat /\ SUB_CAP \in Nat
        BY <2>1, AppendProperties, LenProperties, ConstantsAssumption DEF TypeOK
      <4>4. QED BY <2>1, <4>1, <4>2, <4>3 DEF TypeOK
    <3>2. CASE rx[a] # "open"
      BY <1>7, <3>2 DEF SendDone, TypeOK
    <3>3. QED BY <3>1, <3>2
  <2>3. detachedAt' \in {"none", "recent", "expired"}
    BY <1>7 DEF SendDone, TypeOK
  <2>4. CASE hand.why = "last"
    <3>1. TaskGone
      BY <1>7, <2>4 DEF SendDone
    <3>2. QED BY <1>7, <2>2, <2>3, <3>1, GoneIsTyped DEF SendDone, TypeOK, TaskShape
  <2>5. CASE hand.why # "last"
    <3>1. sub' \in Attach \cup {NoSub}
      BY <1>7, <2>1, <2>5 DEF SendDone, TypeOK
    <3>2. task' = "ctrl" /\ hand' = NoHand /\ UNCHANGED <<aborted, ctrl, feed>>
      BY <1>7, <2>5 DEF SendDone
    <3>3. QED BY <1>7, <2>2, <2>3, <3>1, <3>2 DEF SendDone, TypeOK, TaskShape
  <2>6. QED BY <2>4, <2>5
<1>8. CASE AbortTakesEffect
  BY <1>8, GoneIsTyped DEF AbortTakesEffect, TypeOK, TaskShape
<1>9. QED BY <1>1, <1>2, <1>3, <1>4, <1>5, <1>6, <1>7, <1>8
  DEF StreamTask, TaskRuns

LEMMA AbortTyped ==
  ASSUME TypeOK, TaskShape, Abort
  PROVE  /\ task' \in {"ctrl", "feed", "send", "gone"}
         /\ sub' \in Attach \cup {NoSub}
         /\ hand' \in {NoHand} \cup
              [to : Attach, why : {"replay", "live", "exit", "last"}, msg : Msg]
         /\ aborted' \in BOOLEAN
         /\ ctrl' \in Seq(Ctrl) /\ Len(ctrl') <= MaxCtrl
         /\ feed' \in Seq(Item) /\ Len(feed') <= FEED_CAP
         /\ TaskShape'
<1>1. CASE TaskGone
  BY <1>1, GoneIsTyped DEF TaskShape
<1>2. CASE aborted' = TRUE /\ UNCHANGED <<task, sub, hand, ctrl, feed>>
  <2>1. aborted' \in BOOLEAN
    BY <1>2, Zenon
  <2>2. QED BY <1>2, <2>1 DEF TypeOK, TaskShape
<1>3. QED BY <1>1, <1>2 DEF Abort

LEMMA TypeManager ==
  ASSUME TypeOK, TaskShape,
         \/ \E a \in Attach, asked \in Asked : SubscribeCall(a, asked)
         \/ UnsubscribeCall \/ KillCall \/ KillSession \/ Sweep \/ Replaced
         \/ DetachExpires
  PROVE  TypeOK' /\ TaskShape'
<1> USE DEF readerVars, stateVars, taskVars, clientVars
<1>1. ASSUME NEW a \in Attach, NEW asked \in Asked, SubscribeCall(a, asked)
      PROVE  TypeOK' /\ TaskShape'
  <2> DEFINE from == IF asked = Unset THEN ringStart ELSE Larger(asked, ringStart)
             answer == [from |-> from, end |-> total,
                        truncated |-> asked # Unset /\ asked < ringStart]
  <2>1. from \in Nat
    BY ConstantsAssumption DEF TypeOK, Unset, Larger
  <2>2. (asked # Unset /\ asked < ringStart) \in BOOLEAN
    BY Zenon
  <2>3. info' \in [Attach -> [from : Nat, end : Nat, truncated : BOOLEAN]]
    <3>1. info' = [info EXCEPT ![a] = answer]
      BY <1>1 DEF SubscribeCall
    <3>2. answer \in [from : Nat, end : Nat, truncated : BOOLEAN]
      BY <2>1, <2>2 DEF TypeOK
    <3> HIDE DEF answer
    <3>3. QED BY <3>1, <3>2 DEF TypeOK
  <2>4. ctrl' \in Seq(Ctrl) /\ Len(ctrl') <= MaxCtrl
    <3>1. Subscribe(a, from) \in Ctrl
      BY <2>1 DEF Subscribe, Ctrl
    <3>2. ctrl' = Append(ctrl, Subscribe(a, from)) /\ Len(ctrl) < MaxCtrl
      BY <1>1 DEF SubscribeCall
    <3> HIDE DEF from
    <3>3. QED BY <3>1, <3>2, AppendProperties, LenProperties, ConstantsAssumption
      DEF TypeOK
  <2>5. QED BY <1>1, <2>3, <2>4, SMTT(30) DEF SubscribeCall, TypeOK, TaskShape
<1>2. CASE UnsubscribeCall
  <2>1. Unsubscribe \in Ctrl
    BY DEF Ctrl
  <2>2. ctrl' \in Seq(Ctrl) /\ Len(ctrl') <= MaxCtrl
    BY <1>2, <2>1, AppendProperties, LenProperties, ConstantsAssumption
    DEF UnsubscribeCall, TypeOK
  <2>3. QED BY <1>2, <2>2 DEF UnsubscribeCall, TypeOK, TaskShape
<1>3. CASE KillCall
  BY <1>3 DEF KillCall, TypeOK, TaskShape
<1>4. CASE KillSession
  BY <1>4, AbortTyped DEF KillSession, TypeOK, TaskShape, Over
<1>5. CASE Sweep
  <2>1. CASE SweepExited
    BY <2>1, AbortTyped DEF SweepExited, TypeOK, TaskShape, Over
  <2>2. CASE SweepAbandoned
    BY <2>2 DEF SweepAbandoned, TypeOK, TaskShape
  <2>3. QED BY <1>5, <2>1, <2>2 DEF Sweep
<1>6. CASE Replaced
  BY <1>6 DEF Replaced, TypeOK, TaskShape, Over
<1>7. CASE DetachExpires
  BY <1>7 DEF DetachExpires, TypeOK, TaskShape
<1>8. QED BY <1>1, <1>2, <1>3, <1>4, <1>5, <1>6, <1>7

LEMMA CloseTyped ==
  ASSUME TypeOK, NEW a \in Attach, NEW how \in {"exited", "told", "ended", "lost"},
         Close(a, how)
  PROVE  /\ rx' \in [Attach -> {"unused", "open", "exited", "told", "ended", "lost"}]
         /\ chan' \in [Attach -> Seq(Msg)]
         /\ \A b \in Attach : Len(chan'[b]) <= SUB_CAP
<1>1. <<>> \in Seq(Msg) /\ Len(<<>>) = 0 /\ SUB_CAP \in Nat
  BY EmptySeq, ConstantsAssumption
<1>2. QED BY <1>1 DEF Close, TypeOK

LEMMA TypeClient ==
  ASSUME TypeOK, TaskShape, NEW a \in Attach, Client(a)
  PROVE  TypeOK' /\ TaskShape'
<1> USE DEF readerVars, stateVars, taskVars, clientVars
<1>1. CASE Receive(a)
  <2> DEFINE m == Head(chan[a])
  <2>1. /\ m \in Msg /\ Tail(chan[a]) \in Seq(Msg)
        /\ Len(Tail(chan[a])) <= SUB_CAP
    <3>1. chan[a] # <<>> /\ chan[a] \in Seq(Msg) /\ Len(chan[a]) <= SUB_CAP
      BY <1>1 DEF Receive, TypeOK
    <3>2. /\ m \in Msg /\ Tail(chan[a]) \in Seq(Msg)
          /\ Len(Tail(chan[a])) = Len(chan[a]) - 1 /\ Len(chan[a]) \in Nat
      BY <3>1, HeadTail
    <3>3. SUB_CAP \in Nat
      BY ConstantsAssumption
    <3>4. QED BY <3>1, <3>2, <3>3
  <2>2. m.from \in Nat /\ Len(m.data) \in Nat
    BY <2>1, LenProperties DEF Msg, Bytes
  <2>3. CASE m.kind = "out"
    <3>1. /\ seen' = [seen EXCEPT ![a] = m.from + Len(m.data)]
          /\ got' = [got EXCEPT ![a] = @ + Len(m.data)]
          /\ chan' = [chan EXCEPT ![a] = Tail(@)]
          /\ rx' = rx
      BY <1>1, <2>3 DEF Receive
    <3>0. got[a] \in Nat
      BY DEF TypeOK
    <3> HIDE DEF m
    <3>2. m.from + Len(m.data) \in Nat /\ got[a] + Len(m.data) \in Nat
      BY <2>2, <3>0
    <3>3. /\ seen' \in [Attach -> Nat \cup {Unset}] /\ got' \in [Attach -> Nat]
          /\ chan' \in [Attach -> Seq(Msg)]
          /\ \A b \in Attach : Len(chan'[b]) <= SUB_CAP
      BY <2>1, <3>1, <3>2 DEF TypeOK
    <3>4. UNCHANGED <<child, readerVars, feed, stateVars, ctrl, taskVars,
                      session, info>>
      BY <1>1 DEF Receive
    <3>5. TypeOK'
      BY <3>1, <3>3, <3>4, SMTT(30) DEF TypeOK
    <3>6. TaskShape'
      BY <3>4 DEF TaskShape
    <3>7. QED BY <3>5, <3>6
  <2>4. CASE m.kind = "status"
    <3>1. Close(a, "exited") /\ UNCHANGED <<seen, got>>
      BY <1>1, <2>4 DEF Receive
    <3>2. QED BY <1>1, <3>1, CloseTyped DEF Receive, TypeOK, TaskShape
  <2>5. CASE m.kind = "unknown"
    <3>1. Close(a, "told") /\ UNCHANGED <<seen, got>>
      BY <1>1, <2>5 DEF Receive
    <3>2. QED BY <1>1, <3>1, CloseTyped DEF Receive, TypeOK, TaskShape
  <2>6. QED BY <2>1, <2>3, <2>4, <2>5 DEF Msg
<1>2. CASE StreamEnds(a) \/ LinkLost(a)
  <2>1. Close(a, "ended") \/ Close(a, "lost")
    BY <1>2 DEF StreamEnds, LinkLost
  <2>2. /\ rx' \in [Attach -> {"unused", "open", "exited", "told", "ended", "lost"}]
        /\ chan' \in [Attach -> Seq(Msg)]
        /\ \A b \in Attach : Len(chan'[b]) <= SUB_CAP
    BY <2>1, CloseTyped
  <2>3. UNCHANGED <<child, readerVars, feed, stateVars, ctrl, taskVars, session,
                    info, seen, got>>
    BY <1>2 DEF StreamEnds, LinkLost
  <2>4. QED BY <2>2, <2>3 DEF TypeOK, TaskShape
<1>3. QED BY <1>1, <1>2 DEF Client

\* The variables keep their types: in particular no queue outgrows its
\* capacity and the ring never holds more than RING_CAP bytes.
THEOREM TypeCorrect == Spec => [](TypeOK /\ TaskShape)
<1>1. TypeOK /\ TaskShape /\ [Next]_vars => TypeOK' /\ TaskShape'
  <2> SUFFICES ASSUME TypeOK, TaskShape, [Next]_vars
               PROVE  TypeOK' /\ TaskShape'
    OBVIOUS
  <2>1. CASE UNCHANGED vars
    BY <2>1 DEF vars, readerVars, stateVars, taskVars, clientVars, TypeOK, TaskShape
  <2>2. CASE Next
    BY <2>2, TypeReader, TypeTask, TypeManager, TypeClient DEF Next
  <2>3. QED BY <2>1, <2>2
<1>2. QED BY <1>1, TypeInit, PTL DEF Spec

-----------------------------------------------------------------------------
(* The ring.  RingIsTail is not inductive: that the chunk the stream task   *)
(* takes next continues the ring rests on what is in the feed and in the    *)
(* reader's hands.  at[i] is the number of the first byte of feed item i.   *)

FeedContinues ==
  \E at \in [Nat -> Nat] :
    /\ at[1] = total
    /\ \A i \in 1..Len(feed) : /\ Numbered(feed[i].bytes, at[i])
                              /\ at[i + 1] = at[i] + Len(feed[i].bytes)
    /\ Numbered(chunk, at[Len(feed) + 1])
    /\ read = at[Len(feed) + 1] + Len(chunk)

ChunkInHand == reader # "send" => chunk = <<>>

RingInv == /\ RingIsTail
           /\ ChunkInHand
           /\ task # "gone" => FeedContinues

\* Bytes appended to a numbered run continue it.
LEMMA NumberedConcat ==
  ASSUME NEW s \in Bytes, NEW t \in Bytes, NEW from \in Nat,
         Numbered(s, from), Numbered(t, from + Len(s))
  PROVE  Numbered(s \o t, from)
<1>1. /\ Len(s) \in Nat /\ Len(t) \in Nat
      /\ Len(s \o t) = Len(s) + Len(t)
      /\ \A i \in 1..Len(s) + Len(t) :
           (s \o t)[i] = IF i <= Len(s) THEN s[i] ELSE t[i - Len(s)]
  BY ConcatProperties, LenProperties DEF Bytes
<1>2. SUFFICES ASSUME NEW i \in 1..Len(s) + Len(t)
               PROVE  (s \o t)[i] = from + i - 1
  BY <1>1 DEF Numbered
<1>3. CASE i <= Len(s)
  BY <1>1, <1>3 DEF Numbered
<1>4. CASE ~(i <= Len(s))
  <2>1. i - Len(s) \in 1..Len(t)
    BY <1>1, <1>4
  <2>2. t[i - Len(s)] = (from + Len(s)) + (i - Len(s)) - 1
    BY <2>1 DEF Numbered
  <2>3. QED BY <1>1, <1>4, <2>2
<1>5. QED BY <1>3, <1>4

LEMMA PushKeepsRing ==
  ASSUME TypeOK, RingIsTail, NEW bytes \in Bytes, Numbered(bytes, total), Push(bytes)
  PROVE  RingIsTail'
<1> DEFINE all == ring \o bytes
           d == Dropped(bytes)
<1>1. /\ Len(ring) \in Nat /\ Len(bytes) \in Nat
      /\ ringStart \in Nat /\ total = ringStart + Len(ring)
  BY LenProperties DEF TypeOK, Bytes, RingIsTail
<1>2. Numbered(all, ringStart) /\ Len(all) = Len(ring) + Len(bytes)
  <2>1. Numbered(all, ringStart)
    BY <1>1, NumberedConcat DEF TypeOK, RingIsTail
  <2>2. QED BY <2>1, ConcatProperties DEF TypeOK, Bytes
<1>3. /\ Len(ring') = Len(all) - d
      /\ \A i \in 1..Len(ring') : ring'[i] = all[i + d]
      /\ d \in 0..Len(all)
  <2>1. /\ ring \in Bytes /\ Len(ring) <= RING_CAP
        /\ ringStart \in Nat /\ total \in Nat
    BY DEF TypeOK
  <2>2. /\ Len(ring') = Len(ring) + Len(bytes) - d
        /\ \A i \in 1..Len(ring') : ring'[i] = all[i + d]
        /\ d \in 0..Len(ring) + Len(bytes)
    BY <2>1, PushKeepsTail
  <2> HIDE DEF all, d
  <2>3. QED BY <2>2, <1>2
<1>4. ringStart' = ringStart + d /\ total' = total + Len(bytes)
  BY DEF Push
<1>5. ringStart' + Len(ring') = total'
  <2> HIDE DEF all, d
  <2>1. QED BY <1>1, <1>2, <1>3, <1>4
<1>6. Numbered(ring', ringStart')
  <2> HIDE DEF all, d
  <2>1. \A i \in 1..Len(ring') : ring'[i] = ringStart + (i + d) - 1
    BY <1>1, <1>2, <1>3 DEF Numbered
  <2>2. QED BY <1>1, <1>3, <1>4, <2>1 DEF Numbered
<1>7. ringStart' > 0 => Len(ring') = RING_CAP
  BY <1>1, <1>2, <1>3, <1>4, ConstantsAssumption, SMTT(30)
  DEF RingIsTail, Dropped, Larger, TypeOK
<1>8. QED BY <1>5, <1>6, <1>7 DEF RingIsTail

LEMMA RingInit == Init => RingInv
<1> SUFFICES ASSUME Init PROVE RingInv
  OBVIOUS
<1>1. Len(<<>>) = 0
  BY EmptySeq
<1>2. RingIsTail /\ ChunkInHand
  BY <1>1 DEF Init, RingIsTail, Numbered, ChunkInHand
<1>3. FeedContinues
  <2> DEFINE at == [i \in Nat |-> 0]
  <2>1. at \in [Nat -> Nat] /\ at[1] = 0
    OBVIOUS
  <2> HIDE DEF at
  <2>2. /\ at[1] = total
        /\ \A i \in 1..Len(feed) : /\ Numbered(feed[i].bytes, at[i])
                                  /\ at[i + 1] = at[i] + Len(feed[i].bytes)
        /\ Numbered(chunk, at[Len(feed) + 1])
        /\ read = at[Len(feed) + 1] + Len(chunk)
    BY <1>1, <2>1 DEF Init, Numbered
  <2>3. QED BY <2>1, <2>2 DEF FeedContinues
<1>4. QED BY <1>2, <1>3 DEF RingInv

\* One more value behind the first L + 1 of a function.
LEMMA OneMore ==
  ASSUME NEW L \in Nat, NEW at \in [Nat -> Nat], NEW n \in Nat
  PROVE  \E new \in [Nat -> Nat] :
           /\ \A i \in 1..L + 1 : new[i] = at[i]
           /\ new[1] = at[1] /\ new[L + 1] = at[L + 1]
           /\ new[L + 2] = at[L + 1] + n
<1> DEFINE new == [at EXCEPT ![L + 2] = at[L + 1] + n]
<1>1. at[L + 1] + n \in Nat
  OBVIOUS
<1>2. new \in [Nat -> Nat] /\ new[L + 2] = at[L + 1] + n
  BY <1>1
<1>3. \A i \in 1..L + 1 : new[i] = at[i]
  OBVIOUS
<1>4. 1 \in 1..L + 1 /\ L + 1 \in 1..L + 1
  OBVIOUS
<1> HIDE DEF new
<1>5. QED BY <1>2, <1>3, <1>4

\* Reading, and moving the chunk into the feed.
LEMMA ReaderKeepsFeed ==
  ASSUME TypeOK, RingInv, task # "gone",
         ReaderRead \/ ReaderSend \/ ReaderSendEof
  PROVE  FeedContinues' /\ ChunkInHand'
<1> USE DEF stateVars, taskVars, clientVars
<1>1. PICK at \in [Nat -> Nat] :
        /\ at[1] = total
        /\ \A i \in 1..Len(feed) : /\ Numbered(feed[i].bytes, at[i])
                                  /\ at[i + 1] = at[i] + Len(feed[i].bytes)
        /\ Numbered(chunk, at[Len(feed) + 1])
        /\ read = at[Len(feed) + 1] + Len(chunk)
  BY DEF RingInv, FeedContinues
<1>2. /\ Len(feed) \in Nat /\ Len(chunk) \in Nat /\ Len(<<>>) = 0
      /\ \A i \in 1..Len(feed) : feed[i].bytes \in Bytes /\ Len(feed[i].bytes) \in Nat
  <2>1. /\ Len(feed) \in Nat /\ Len(chunk) \in Nat /\ Len(<<>>) = 0
        /\ \A i \in 1..Len(feed) : feed[i] \in Item
    BY LenProperties, EmptySeq, ElementOfSeq DEF TypeOK, Bytes
  <2>2. \A x \in Item : x.bytes \in Bytes /\ Len(x.bytes) \in Nat
    BY ItemBytes
  <2>3. QED BY <2>1, <2>2
<1>3. CASE ReaderRead
  <2>1. PICK n \in 1..READ_MAX :
          /\ chunk' = [i \in 1..n |-> read + i - 1]
          /\ read' = read + n
    BY <1>3 DEF ReaderRead
  <2>2. n \in Nat /\ Len(chunk') = n
    BY <2>1, ConstantsAssumption
  <2>3. chunk = <<>> /\ read = at[Len(feed) + 1] /\ UNCHANGED <<feed, total>>
    <3>1. chunk = <<>> /\ UNCHANGED <<feed, total>>
      BY <1>3 DEF ReaderRead, RingInv, ChunkInHand
    <3>2. at[Len(feed) + 1] \in Nat
      BY <1>2
    <3>3. QED BY <1>1, <1>2, <3>1, <3>2
  <2>4. Numbered(chunk', at[Len(feed) + 1])
    BY <2>1, <2>2, <2>3 DEF Numbered
  <2>5. FeedContinues'
    BY <1>1, <2>1, <2>2, <2>3, <2>4 DEF FeedContinues
  <2>6. QED BY <1>3, <2>5 DEF ReaderRead, ChunkInHand
<1>4. ASSUME NEW x \in Item, x.bytes = chunk, feed' = Append(feed, x),
             chunk' = <<>>, UNCHANGED <<total, read>>
      PROVE  FeedContinues'
  <2>1. PICK L \in Nat : L = Len(feed)
    BY <1>2
  <2>2. /\ Len(feed') = L + 1
        /\ \A i \in 1..L : feed'[i] = feed[i]
        /\ feed'[L + 1] = x
    BY <1>4, <2>1, AppendProperties DEF TypeOK
  <2>3. PICK new \in [Nat -> Nat] :
          /\ \A i \in 1..L + 1 : new[i] = at[i]
          /\ new[1] = at[1] /\ new[L + 1] = at[L + 1]
          /\ new[L + 2] = at[L + 1] + Len(chunk)
    BY <1>2, OneMore
  <2>4. /\ new[1] = total'
        /\ read' = new[L + 2] + Len(chunk')
        /\ Numbered(chunk', new[L + 2])
    <3>1. new[1] = total'
      BY <1>1, <1>4, <2>3
    <3>2. Len(chunk') = 0 /\ Numbered(chunk', new[L + 2])
      BY <1>2, <1>4 DEF Numbered
    <3>3. read' = new[L + 2]
      BY <1>1, <1>4, <2>1, <2>3
    <3>4. new[L + 2] \in Nat
      BY <2>1, <2>3
    <3>5. QED BY <3>1, <3>2, <3>3, <3>4
  <2>5. ASSUME NEW i \in 1..L + 1
        PROVE  /\ Numbered(feed'[i].bytes, new[i])
               /\ new[i + 1] = new[i] + Len(feed'[i].bytes)
    <3>1. CASE i \in 1..L
      <4>1. /\ Numbered(feed[i].bytes, at[i])
            /\ at[i + 1] = at[i] + Len(feed[i].bytes)
        BY <1>1, <2>1, <3>1
      <4>2. i + 1 \in 1..L + 1
        BY <2>1, <3>1
      <4>3. new[i] = at[i] /\ new[i + 1] = at[i + 1] /\ feed'[i] = feed[i]
        BY <2>2, <2>3, <3>1, <4>2
      <4>4. QED BY <4>1, <4>3
    <3>2. CASE i = L + 1
      <4>1. feed'[i].bytes = chunk /\ i + 1 = L + 2
        BY <1>4, <2>1, <2>2, <3>2
      <4>2. Numbered(chunk, at[L + 1])
        BY <1>1, <2>1
      <4>3. new[i] = at[L + 1] /\ new[i + 1] = at[L + 1] + Len(chunk)
        BY <2>3, <3>2, <4>1
      <4>4. QED BY <4>1, <4>2, <4>3
    <3>3. i \in 1..L \/ i = L + 1
      OBVIOUS
    <3>4. QED BY <3>1, <3>2, <3>3
  <2>6. L + 2 = Len(feed') + 1
    BY <2>1, <2>2
  <2>7. QED BY <2>2, <2>3, <2>4, <2>5, <2>6 DEF FeedContinues
<1>5. CASE ReaderSend
  <2>1. feed' = Append(feed, Data(chunk)) /\ chunk' = <<>> /\ UNCHANGED <<total, read>>
    BY <1>5 DEF ReaderSend
  <2>2. Data(chunk) \in Item /\ Data(chunk).bytes = chunk
    BY DEF Data, Item, TypeOK
  <2>3. QED BY <1>4, <2>1, <2>2 DEF ChunkInHand
<1>6. CASE ReaderSendEof
  <2>1. chunk = <<>>
    BY <1>6 DEF ReaderSendEof, RingInv, ChunkInHand
  <2>2. feed' = Append(feed, Eof) /\ chunk' = <<>> /\ UNCHANGED <<total, read>>
    BY <1>6, <2>1 DEF ReaderSendEof, FeedHasRoom
  <2>3. Eof \in Item /\ Eof.bytes = chunk
    BY <2>1, EmptySeq DEF Eof, Item, Bytes
  <2>4. QED BY <1>4, <2>2, <2>3 DEF ChunkInHand
<1>7. QED BY <1>3, <1>5, <1>6

\* Taking the next item out of the feed: a chunk continues the ring.
LEMMA FeedHead ==
  ASSUME TypeOK, RingInv, task # "gone", feed # <<>>
  PROVE  /\ Head(feed).bytes \in Bytes
         /\ Numbered(Head(feed).bytes, total)
         /\ feed' = Tail(feed) /\ total' = total + Len(Head(feed).bytes)
              /\ UNCHANGED <<chunk, read>> => FeedContinues'
<1>1. PICK at \in [Nat -> Nat] :
        /\ at[1] = total
        /\ \A i \in 1..Len(feed) : /\ Numbered(feed[i].bytes, at[i])
                                  /\ at[i + 1] = at[i] + Len(feed[i].bytes)
        /\ Numbered(chunk, at[Len(feed) + 1])
        /\ read = at[Len(feed) + 1] + Len(chunk)
  BY DEF RingInv, FeedContinues
<1>2. /\ Head(feed) \in Item /\ Head(feed) = feed[1]
      /\ Len(feed) \in Nat \ {0} /\ Len(Tail(feed)) = Len(feed) - 1
      /\ \A i \in 1..Len(feed) - 1 : Tail(feed)[i] = feed[i + 1]
  BY HeadTail DEF TypeOK
<1>3. Head(feed).bytes \in Bytes
  BY <1>2, ItemBytes
<1>4. Numbered(Head(feed).bytes, total)
  <2>1. 1 \in 1..Len(feed)
    BY <1>2
  <2>2. Numbered(feed[1].bytes, at[1])
    BY <1>1, <2>1
  <2>3. QED BY <1>1, <1>2, <2>2
<1>5. ASSUME feed' = Tail(feed), total' = total + Len(Head(feed).bytes),
             UNCHANGED <<chunk, read>>
      PROVE  FeedContinues'
  <2> DEFINE new == [i \in Nat |-> at[i + 1]]
  <2>1. new \in [Nat -> Nat] /\ \A i \in Nat : new[i] = at[i + 1]
    OBVIOUS
  <2> HIDE DEF new
  <2>2. new[1] = total'
    <3>1. 1 \in 1..Len(feed)
      BY <1>2
    <3>2. at[1 + 1] = at[1] + Len(feed[1].bytes)
      BY <1>1, <3>1
    <3>3. new[1] = at[1 + 1]
      BY <2>1
    <3>4. QED BY <1>1, <1>2, <1>5, <3>2, <3>3
  <2>3. ASSUME NEW i \in 1..Len(feed')
        PROVE  /\ Numbered(feed'[i].bytes, new[i])
               /\ new[i + 1] = new[i] + Len(feed'[i].bytes)
    <3>1. i + 1 \in 1..Len(feed) /\ i \in Nat /\ feed'[i] = feed[i + 1]
      BY <1>2, <1>5
    <3>2. /\ Numbered(feed[i + 1].bytes, at[i + 1])
          /\ at[(i + 1) + 1] = at[i + 1] + Len(feed[i + 1].bytes)
      BY <1>1, <3>1
    <3>3. new[i] = at[i + 1] /\ new[i + 1] = at[(i + 1) + 1]
      BY <2>1, <3>1
    <3>4. QED BY <3>1, <3>2, <3>3
  <2>4. new[Len(feed') + 1] = at[Len(feed) + 1]
    BY <1>2, <1>5, <2>1
  <2>5. QED BY <1>1, <1>5, <2>1, <2>2, <2>3, <2>4 DEF FeedContinues
<1>6. QED BY <1>3, <1>4, <1>5

\* Steps that leave the reader's chunk, the feed and the ring alone.
LEMMA RingUntouched ==
  ASSUME RingInv, UNCHANGED <<reader, chunk, read, feed, ring, ringStart, total>>,
         task = "gone" => task' = "gone"
  PROVE  RingInv'
<1>1. RingIsTail' /\ ChunkInHand'
  BY DEF RingInv, RingIsTail, ChunkInHand, Numbered
<1>2. FeedContinues => FeedContinues'
  BY DEF FeedContinues, Numbered
<1>3. QED BY <1>1, <1>2 DEF RingInv

\* Steps after which the stream task is gone.
LEMMA RingWithoutTask ==
  ASSUME RingInv, UNCHANGED <<reader, chunk, read, ring, ringStart, total>>,
         TaskGone
  PROVE  RingInv'
<1>1. RingIsTail' /\ ChunkInHand'
  BY DEF RingInv, RingIsTail, ChunkInHand, Numbered
<1>2. QED BY <1>1 DEF RingInv, TaskGone

LEMMA RingStep ==
  ASSUME TypeOK, TaskShape, RingInv, Next
  PROVE  RingInv'
<1> USE DEF readerVars, stateVars, taskVars, clientVars
<1>1. CASE ReaderRead \/ ReaderSend \/ ReaderSendEof
  <2>1. UNCHANGED <<ring, ringStart, total, task>>
    BY <1>1 DEF ReaderRead, ReaderSend, ReaderSendEof
  <2>2. RingIsTail'
    BY <2>1 DEF RingInv, RingIsTail, Numbered
  <2>3. CASE task # "gone"
    BY <1>1, <2>1, <2>2, <2>3, ReaderKeepsFeed DEF RingInv
  <2>4. CASE task = "gone"
    <3>1. ChunkInHand'
      BY <1>1 DEF ReaderRead, ReaderSend, ReaderSendEof, RingInv, ChunkInHand
    <3>2. QED BY <2>1, <2>2, <2>4, <3>1 DEF RingInv
  <2>5. QED BY <2>3, <2>4
<1>2. CASE TakeData
  <2> DEFINE bytes == Head(feed).bytes
  <2>1. task = "feed" /\ feed # <<>>
    BY <1>2 DEF TakeData, TaskShape
  <2>2. /\ bytes \in Bytes /\ Numbered(bytes, total)
        /\ feed' = Tail(feed) /\ total' = total + Len(bytes)
             /\ UNCHANGED <<chunk, read>> => FeedContinues'
    BY <2>1, FeedHead
  <2>3. Push(bytes) /\ feed' = Tail(feed) /\ UNCHANGED <<reader, chunk, read>>
    BY <1>2 DEF TakeData
  <2>4. RingIsTail'
    BY <2>2, <2>3, PushKeepsRing DEF RingInv
  <2>5. FeedContinues' /\ ChunkInHand'
    BY <2>2, <2>3 DEF Push, RingInv, ChunkInHand
  <2>6. QED BY <2>4, <2>5 DEF RingInv
<1>3. CASE TakeEof
  <2> DEFINE bytes == Head(feed).bytes
  <2>1. task = "feed" /\ feed # <<>>
    BY <1>3 DEF TakeEof, TaskShape
  <2>2. feed' = Tail(feed) /\ UNCHANGED <<reader, chunk, read, ring, ringStart, total>>
    BY <1>3 DEF TakeEof
  <2>3. RingIsTail' /\ ChunkInHand'
    BY <2>2 DEF RingInv, RingIsTail, Numbered, ChunkInHand
  <2>4. bytes = <<>> /\ Len(bytes) = 0
    <3>1. Head(feed) \in Item /\ Head(feed).kind = "eof"
      BY <1>3, <2>1, HeadTail DEF TakeEof, TypeOK
    <3>2. QED BY <3>1, EmptySeq, ItemBytes
  <2>5. total \in Nat
    BY DEF TypeOK
  <2>6. total' = total + Len(bytes)
    BY <2>2, <2>4, <2>5
  <2> HIDE DEF bytes
  <2>7. FeedContinues'
    BY <2>1, <2>2, <2>6, FeedHead DEF bytes
  <2>8. QED BY <2>3, <2>7 DEF RingInv
<1>4. CASE ReaderEof \/ ReaderWaited
  <2>1. UNCHANGED <<chunk, read, feed, ring, ringStart, total, task>>
    BY <1>4 DEF ReaderEof, ReaderWaited
  <2>2. reader # "send"
    BY <1>4 DEF ReaderEof, ReaderWaited
  <2>3. RingIsTail' /\ ChunkInHand'
    BY <2>1, <2>2 DEF RingInv, RingIsTail, Numbered, ChunkInHand
  <2>4. FeedContinues => FeedContinues'
    BY <2>1 DEF FeedContinues, Numbered
  <2>5. QED BY <2>1, <2>3, <2>4 DEF RingInv
<1>5. CASE TakeSubscribe \/ TakeUnsubscribe \/ PollFeed
  <2>1. UNCHANGED <<reader, chunk, read, feed, ring, ringStart, total>>
    BY <1>5 DEF TakeSubscribe, TakeUnsubscribe, PollFeed
  <2>2. task # "gone"
    BY <1>5 DEF TakeSubscribe, TakeUnsubscribe, PollFeed
  <2>3. QED BY <2>1, <2>2, RingUntouched
<1>6. CASE CtrlEnds \/ SendDone \/ AbortTakesEffect
  <2>1. UNCHANGED <<reader, chunk, read, ring, ringStart, total>>
    BY <1>6 DEF CtrlEnds, SendDone, AbortTakesEffect
  <2>2. task # "gone"
    BY <1>6 DEF CtrlEnds, SendDone, AbortTakesEffect
  <2>3. TaskGone \/ UNCHANGED feed
    BY <1>6 DEF CtrlEnds, SendDone, AbortTakesEffect, LoopEnds
  <2>4. QED BY <2>1, <2>2, <2>3, RingUntouched, RingWithoutTask
<1>7. CASE KillSession \/ Sweep
  <2>1. UNCHANGED <<reader, chunk, read, ring, ringStart, total>>
    BY <1>7 DEF KillSession, Sweep, SweepExited, SweepAbandoned
  <2>2. TaskGone \/ UNCHANGED <<feed, task>>
    BY <1>7 DEF KillSession, Sweep, SweepExited, SweepAbandoned, Abort
  <2>3. QED BY <2>1, <2>2, RingUntouched, RingWithoutTask
<1>8. CASE \/ ChildCloses \/ ChildExits \/ UnsubscribeCall \/ KillCall
           \/ Replaced \/ DetachExpires
           \/ \E a \in Attach, asked \in Asked : SubscribeCall(a, asked)
  <2>1. UNCHANGED <<reader, chunk, read, feed, ring, ringStart, total, task>>
    BY <1>8 DEF ChildCloses, ChildExits, UnsubscribeCall, KillCall, Replaced,
                DetachExpires, SubscribeCall
  <2>2. QED BY <2>1, RingUntouched
<1>9. ASSUME NEW a \in Attach, Client(a)
      PROVE  RingInv'
  <2>1. UNCHANGED <<reader, chunk, read, feed, ring, ringStart, total, task>>
    BY <1>9 DEF Client, Receive, StreamEnds, LinkLost
  <2>2. QED BY <2>1, RingUntouched
<1>10. QED
  BY <1>1, <1>2, <1>3, <1>4, <1>5, <1>6, <1>7, <1>8, <1>9
     DEF Next, ReaderRuns, StreamTask, TaskRuns

LEMMA RingInvariant == Spec => []RingInv
<1>1. Init => RingInv
  BY RingInit
<1>2. TypeOK /\ TaskShape /\ RingInv /\ [Next]_vars => RingInv'
  <2> SUFFICES ASSUME TypeOK, TaskShape, RingInv, [Next]_vars
               PROVE  RingInv'
    OBVIOUS
  <2>1. CASE Next
    BY <2>1, RingStep
  <2>2. CASE UNCHANGED vars
    <3>1. UNCHANGED <<reader, chunk, read, feed, ring, ringStart, total, task>>
      BY <2>2 DEF vars, readerVars, stateVars, taskVars
    <3>2. QED BY <3>1, RingUntouched
  <2>3. QED BY <2>1, <2>2
<1>3. QED BY <1>1, <1>2, TypeCorrect, PTL DEF Spec

\* The types are right, and the ring always holds the newest bytes the shell
\* produced, at their true offsets, for every capacity, chunk size and
\* interleaving (SessionState::push).
THEOREM RingCorrect == Spec => []SessionInv
<1>1. TypeOK /\ RingInv => SessionInv
  BY DEF RingInv, SessionInv
<1>2. QED BY <1>1, TypeCorrect, RingInvariant, PTL

-----------------------------------------------------------------------------
(* The detach clock. *)

\* A step that gives the session a subscriber stops the clock, and one that
\* starts the clock takes the subscriber away.
LEMMA ClockStep ==
  ASSUME AttachedIsNotReaped, [Next]_vars
  PROVE  AttachedIsNotReaped'
<1> USE DEF readerVars, stateVars, taskVars, clientVars
<1>1. ASSUME (sub' = sub \/ sub' = NoSub) /\ UNCHANGED detachedAt
      PROVE  AttachedIsNotReaped'
  BY <1>1 DEF AttachedIsNotReaped
<1>2. ASSUME detachedAt' = "none" \/ sub' = NoSub PROVE AttachedIsNotReaped'
  BY <1>2 DEF AttachedIsNotReaped
<1>3. CASE TakeSubscribe
  BY <1>1, <1>2, <1>3 DEF TakeSubscribe
<1>4. CASE TakeUnsubscribe \/ TakeEof
  BY <1>2, <1>4 DEF TakeUnsubscribe, TakeEof
<1>5. CASE CtrlEnds \/ AbortTakesEffect
  BY <1>1, <1>2, <1>5 DEF CtrlEnds, LoopEnds, AbortTakesEffect, TaskGone
<1>6. CASE PollFeed \/ TakeData
  BY <1>1, <1>6 DEF PollFeed, TakeData
<1>7. CASE SendDone
  <2>1. CASE hand.why = "replay" /\ rx[hand.to] = "open"
    <3>1. detachedAt' = "none"
      BY <1>7, <2>1 DEF SendDone
    <3> QED BY <1>2, <3>1
  <2>2. CASE hand.why = "last"
    <3>1. TaskGone
      BY <1>7, <2>2 DEF SendDone
    <3> QED BY <1>2, <3>1 DEF TaskGone
  <2>3. CASE hand.why # "last" /\ ~(hand.why = "replay" /\ rx[hand.to] = "open")
    <3>1. sub' = CASE hand.why = "replay" /\ rx[hand.to] = "open" -> hand.to
                   [] hand.why = "live" /\ rx[hand.to] # "open"   -> NoSub
                   [] OTHER                                       -> sub
      BY <1>7, <2>3 DEF SendDone
    <3>2. sub' = sub \/ sub' = NoSub
      <4>1. CASE hand.why = "live" /\ rx[hand.to] # "open"
        BY <2>3, <3>1, <4>1
      <4>2. CASE ~(hand.why = "live" /\ rx[hand.to] # "open")
        BY <2>3, <3>1, <4>2
      <4> QED BY <4>1, <4>2
    <3>3. UNCHANGED detachedAt
      BY <1>7, <2>3 DEF SendDone
    <3> QED BY <1>1, <3>2, <3>3
  <2> QED BY <2>1, <2>2, <2>3
<1>8. CASE DetachExpires
  BY <1>8 DEF DetachExpires, AttachedIsNotReaped
<1>9. CASE KillSession \/ Sweep
  BY <1>1, <1>9 DEF KillSession, Sweep, SweepExited, SweepAbandoned, Abort, TaskGone
<1>10. CASE \/ ChildCloses \/ ChildExits \/ ReaderRead \/ ReaderRuns
            \/ UnsubscribeCall \/ KillCall \/ Replaced
            \/ \E a \in Attach, asked \in Asked : SubscribeCall(a, asked)
            \/ \E a \in Attach : Client(a)
            \/ UNCHANGED vars
  <2>1. UNCHANGED <<sub, detachedAt>>
    BY <1>10 DEF ChildCloses, ChildExits, ReaderRead, ReaderRuns, ReaderSend, ReaderEof,
                 ReaderWaited, ReaderSendEof, UnsubscribeCall, KillCall, Replaced,
                 SubscribeCall, Client, Receive, StreamEnds, LinkLost, vars
  <2> QED BY <1>1, <2>1
<1> QED
  BY <1>3, <1>4, <1>5, <1>6, <1>7, <1>8, <1>9, <1>10 DEF Next, StreamTask, TaskRuns

\* sweep() never reaps a session under a client: while it has a subscriber no
\* detach clock runs, whatever attaches, detaches, exits and failed sends there
\* have been ("live ones that have had no subscriber").
THEOREM NoClientIsReaped == Spec => []AttachedIsNotReaped
<1>1. Init => AttachedIsNotReaped
  BY DEF Init, AttachedIsNotReaped
<1>2. AttachedIsNotReaped /\ [Next]_vars => AttachedIsNotReaped'
  BY ClockStep
<1> QED BY <1>1, <1>2, PTL DEF Spec

-----------------------------------------------------------------------------
(* What the clients get.                                                   *)
(* Gapless is not inductive.  That the message the stream task makes next  *)
(* continues what is on its way rests on where the attach has been so far: *)
(* it waits in ctrl, then its replay is sent, then it is the subscriber,   *)
(* and it never is two of these at once.                                   *)

\* No chunk is empty, and none holds a byte that the shell has not produced.
Produced(bytes) == bytes # <<>> /\ \A i \in 1..Len(bytes) : bytes[i] < read
ChunksHoldBytes ==
  /\ reader = "send" => Produced(chunk)
  /\ \A i \in 1..Len(feed) : feed[i].kind = "data" => Produced(feed[i].bytes)

EndOf(m) == m.from + Len(m.data)

\* Messages of which each starts where the one before ended.
Chained(p) ==
  /\ \A i \in 1..Len(p) : p[i].kind = "out" =>
        p[i].data # <<>> /\ Numbered(p[i].data, p[i].from)
  /\ \A i \in 1..Len(p) - 1 :
        /\ p[i].kind = "out"
        /\ p[i + 1].kind = "out" => p[i + 1].from = EndOf(p[i])

\* The oldest byte that may be the first one a gets.
Promised(a) == Larger(info[a].from, ringStart)

StartsWell(a) ==
  /\ got[a] = 0 <=> seen[a] = Unset
  /\ got[a] > 0 => seen[a] - got[a] <= Promised(a)

Continues(a) ==
  /\ Chained(Pipeline(a))
  /\ Pipeline(a) # <<>> /\ Pipeline(a)[1].kind = "out" =>
       IF seen[a] = Unset THEN Pipeline(a)[1].from <= Promised(a)
                          ELSE Pipeline(a)[1].from = seen[a]

\* Nothing of a's stream has been made: it was not asked for or not taken yet.
NotBegun(a) == /\ sub # a /\ hand.to # a
               /\ chan[a] = <<>> /\ seen[a] = Unset

Waits(a) ==
  \A i \in 1..Len(ctrl) : ctrl[i].tx = a =>
    /\ ctrl[i].from = info[a].from
    /\ \A j \in 1..Len(ctrl) : ctrl[j].tx = a => j = i
    /\ NotBegun(a)

Replays(a) ==
  hand.to = a /\ hand.why = "replay" =>
    /\ sub # a /\ chan[a] = <<>> /\ seen[a] = Unset
    /\ hand.msg.kind = "out" /\ EndOf(hand.msg) = total

UpToDate(a) ==
  sub = a =>
    IF Pipeline(a) # <<>>
    THEN /\ Pipeline(a)[Len(Pipeline(a))].kind = "out"
         /\ EndOf(Pipeline(a)[Len(Pipeline(a))]) = total
    ELSE IF seen[a] = Unset THEN total <= Promised(a) ELSE seen[a] = total

StreamInv(a) ==
  /\ rx[a] = "unused" => NotBegun(a) /\ \A i \in 1..Len(ctrl) : ctrl[i].tx # a
  /\ StartsWell(a)
  /\ rx[a] = "open" => Continues(a) /\ Waits(a) /\ Replays(a) /\ UpToDate(a)

LiveIsForSub == hand.why = "live" => sub = hand.to

GaplessInv == ChunksHoldBytes /\ LiveIsForSub /\ \A a \in Attach : StreamInv(a)

-----------------------------------------------------------------------------
(* Chains of messages. *)

LEMMA ChainedTail ==
  ASSUME NEW p \in Seq(Msg), p # <<>>, Chained(p)
  PROVE  /\ Chained(Tail(p))
         /\ Tail(p) # <<>> =>
              /\ p[1].kind = "out"
              /\ Tail(p)[1].kind = "out" => Tail(p)[1].from = EndOf(p[1])
              /\ Tail(p)[Len(Tail(p))] = p[Len(p)]
         /\ Tail(p) = <<>> => Len(p) = 1
<1>1. /\ Tail(p) \in Seq(Msg)
      /\ Len(Tail(p)) = Len(p) - 1 /\ Len(p) \in Nat \ {0}
      /\ \A i \in 1..Len(p) - 1 : Tail(p)[i] = p[i + 1]
  BY HeadTail
<1>2. Tail(p) = <<>> <=> Len(Tail(p)) = 0
  BY <1>1, EmptySeq
<1>3. Chained(Tail(p))
  <2>1. \A i \in 1..Len(Tail(p)) : i + 1 \in 1..Len(p) /\ Tail(p)[i] = p[i + 1]
    BY <1>1
  <2>2. \A i \in 1..Len(Tail(p)) - 1 :
          /\ i + 1 \in 1..Len(p) - 1
          /\ Tail(p)[i] = p[i + 1] /\ Tail(p)[i + 1] = p[(i + 1) + 1]
    BY <1>1
  <2>3. QED BY <2>1, <2>2 DEF Chained
<1>4. Tail(p) # <<>> => 1 \in 1..Len(p) - 1 /\ Tail(p)[1] = p[1 + 1]
                        /\ Tail(p)[Len(Tail(p))] = p[Len(p)]
  BY <1>1, <1>2
<1>5. Tail(p) = <<>> => Len(p) = 1
  BY <1>1, <1>2
<1>6. QED BY <1>3, <1>4, <1>5 DEF Chained

LEMMA ChainedAppend ==
  ASSUME NEW q \in Seq(Msg), NEW m \in Msg
  PROVE  /\ Append(q, m) \in Seq(Msg) /\ Append(q, m) # <<>>
         /\ Append(q, m)[Len(Append(q, m))] = m
         /\ Append(q, m)[1] = IF q = <<>> THEN m ELSE q[1]
         /\ Chained(Append(q, m)) <=>
              /\ Chained(q)
              /\ m.kind = "out" => m.data # <<>> /\ Numbered(m.data, m.from)
              /\ q # <<>> => /\ q[Len(q)].kind = "out"
                             /\ m.kind = "out" => m.from = EndOf(q[Len(q)])
<1> DEFINE p == Append(q, m)
<1>1. /\ p \in Seq(Msg) /\ Len(q) \in Nat /\ Len(p) = Len(q) + 1
      /\ \A i \in 1..Len(q) : p[i] = q[i]
      /\ p[Len(q) + 1] = m
  BY AppendProperties, LenProperties
<1> HIDE DEF p
<1>2. (q = <<>> <=> Len(q) = 0) /\ p # <<>>
  BY <1>1, EmptySeq
<1>3. p[Len(p)] = m /\ p[1] = IF q = <<>> THEN m ELSE q[1]
  BY <1>1, <1>2
<1>4. ASSUME Chained(p)
      PROVE  /\ Chained(q)
             /\ m.kind = "out" => m.data # <<>> /\ Numbered(m.data, m.from)
             /\ q # <<>> => /\ q[Len(q)].kind = "out"
                            /\ m.kind = "out" => m.from = EndOf(q[Len(q)])
  <2>1. \A i \in 1..Len(q) : i \in 1..Len(p) /\ p[i] = q[i]
    BY <1>1
  <2>2. \A i \in 1..Len(q) - 1 : /\ i \in 1..Len(p) - 1
                                 /\ p[i] = q[i] /\ p[i + 1] = q[i + 1]
    BY <1>1
  <2>3. Chained(q)
    BY <1>4, <2>1, <2>2 DEF Chained
  <2>4. Len(p) \in 1..Len(p)
    BY <1>1
  <2>5. q # <<>> => /\ Len(q) \in 1..Len(p) - 1
                    /\ p[Len(q)] = q[Len(q)] /\ p[Len(q) + 1] = m
    BY <1>1, <1>2
  <2>6. QED BY <1>3, <1>4, <2>3, <2>4, <2>5 DEF Chained
<1>5. ASSUME Chained(q),
             m.kind = "out" => m.data # <<>> /\ Numbered(m.data, m.from),
             q # <<>> => /\ q[Len(q)].kind = "out"
                         /\ m.kind = "out" => m.from = EndOf(q[Len(q)])
      PROVE  Chained(p)
  <2>1. \A i \in 1..Len(p) :
          (i \in 1..Len(q) /\ p[i] = q[i]) \/ p[i] = m
    BY <1>1
  <2>2. \A i \in 1..Len(p) - 1 :
          \/ i \in 1..Len(q) - 1 /\ p[i] = q[i] /\ p[i + 1] = q[i + 1]
          \/ q # <<>> /\ p[i] = q[Len(q)] /\ p[i + 1] = m
    BY <1>1, <1>2
  <2>3. QED BY <1>5, <2>1, <2>2 DEF Chained
<1>6. QED BY <1>1, <1>2, <1>3, <1>4, <1>5 DEF p

LEMMA ChainedEmpty == <<>> \in Seq(Msg) /\ Chained(<<>>)
<1>1. <<>> \in Seq(Msg) /\ Len(<<>>) = 0
  BY EmptySeq
<1>2. QED BY <1>1 DEF Chained

\* What is on its way to a.
LEMMA PipelineIs ==
  ASSUME TypeOK, NEW a \in Attach
  PROVE  /\ Pipeline(a) \in Seq(Msg)
         /\ hand.to # a => Pipeline(a) = chan[a]
         /\ hand.to = a => hand.msg \in Msg /\ Pipeline(a) = Append(chan[a], hand.msg)
<1>1. chan[a] \in Seq(Msg)
  BY DEF TypeOK
<1>2. CASE hand.to = a
  <2>1. hand.msg \in Msg
    BY <1>2, ConstantsAssumption DEF TypeOK, NoHand
  <2>2. Append(chan[a], hand.msg) = chan[a] \o <<hand.msg>>
    BY <1>1, <2>1, AppendIsConcat
  <2>3. QED BY <1>1, <1>2, <2>1, <2>2, AppendProperties DEF Pipeline
<1>3. CASE hand.to # a
  BY <1>1, <1>3, ConcatEmptySeq DEF Pipeline
<1>4. QED BY <1>2, <1>3

LEMMA PipelineIsNext ==
  ASSUME TypeOK', NEW a \in Attach
  PROVE  /\ Pipeline(a)' \in Seq(Msg)
         /\ hand'.to # a => Pipeline(a)' = chan'[a]
         /\ hand'.to = a => /\ hand'.msg \in Msg
                            /\ Pipeline(a)' = Append(chan'[a], hand'.msg)
<1>1. chan'[a] \in Seq(Msg)
  BY DEF TypeOK
<1>2. CASE hand'.to = a
  <2>1. hand'.msg \in Msg
    BY <1>2, ConstantsAssumption DEF TypeOK, NoHand
  <2>2. Append(chan'[a], hand'.msg) = chan'[a] \o <<hand'.msg>>
    BY <1>1, <2>1, AppendIsConcat
  <2>3. QED BY <1>1, <1>2, <2>1, <2>2, AppendProperties DEF Pipeline
<1>3. CASE hand'.to # a
  BY <1>1, <1>3, ConcatEmptySeq DEF Pipeline
<1>4. QED BY <1>2, <1>3

-----------------------------------------------------------------------------
(* How a's stream fares when somebody else moves, and when a message is     *)
(* made, delivered or lost.                                                *)

Still(a) == /\ rx'[a] = rx[a] /\ chan'[a] = chan[a] /\ info'[a] = info[a]
            /\ seen'[a] = seen[a] /\ got'[a] = got[a]

\* ctrl only lost its first message, or got one that is not a's.
Queued(a) == \/ ctrl' = ctrl
             \/ ctrl # <<>> /\ ctrl' = Tail(ctrl)
             \/ ctrl' = <<>>
             \/ \E c \in Ctrl : c.tx # a /\ ctrl' = Append(ctrl, c)

LEMMA WaitsStill ==
  ASSUME TypeOK, NEW a \in Attach, Queued(a), Still(a),
         sub' = a => sub = a, hand'.to = a => hand.to = a
  PROVE  /\ Waits(a) => Waits(a)'
         /\ (\A i \in 1..Len(ctrl) : ctrl[i].tx # a)
              => \A i \in 1..Len(ctrl') : ctrl'[i].tx # a
<1>1. Len(ctrl) \in Nat /\ Len(<<>>) = 0
  BY LenProperties, EmptySeq DEF TypeOK
<1>2. NotBegun(a) => NotBegun(a)'
  BY DEF NotBegun, Still
<1>3. CASE ctrl' = ctrl
  BY <1>2, <1>3 DEF Waits, Still
<1>4. CASE ctrl' = <<>>
  BY <1>1, <1>4 DEF Waits
<1>5. CASE ctrl # <<>> /\ ctrl' = Tail(ctrl)
  <2>1. /\ Len(ctrl') = Len(ctrl) - 1
        /\ \A i \in 1..Len(ctrl) - 1 : ctrl'[i] = ctrl[i + 1]
    BY <1>5, HeadTail DEF TypeOK
  <2>2. \A i \in 1..Len(ctrl') : i + 1 \in 1..Len(ctrl) /\ ctrl'[i] = ctrl[i + 1]
    BY <1>1, <2>1
  <2>3. ASSUME Waits(a), NEW i \in 1..Len(ctrl'), ctrl'[i].tx = a
        PROVE  /\ ctrl'[i].from = info'[a].from
               /\ \A j \in 1..Len(ctrl') : ctrl'[j].tx = a => j = i
               /\ NotBegun(a)
    <3>1. i + 1 \in 1..Len(ctrl) /\ ctrl[i + 1].tx = a /\ ctrl'[i] = ctrl[i + 1]
      BY <2>2, <2>3
    <3>2. \A j \in 1..Len(ctrl') : ctrl'[j].tx = a => j + 1 = i + 1
      BY <2>2, <2>3, <3>1 DEF Waits
    <3>3. QED BY <2>3, <3>1, <3>2 DEF Waits, Still
  <2>4. Waits(a) => Waits(a)'
    BY <1>2, <2>3 DEF Waits
  <2>5. QED BY <2>2, <2>4
<1>6. ASSUME NEW c \in Ctrl, c.tx # a, ctrl' = Append(ctrl, c)
      PROVE  /\ Waits(a) => Waits(a)'
             /\ (\A i \in 1..Len(ctrl) : ctrl[i].tx # a)
                  => \A i \in 1..Len(ctrl') : ctrl'[i].tx # a
  <2>1. /\ Len(ctrl') = Len(ctrl) + 1
        /\ \A i \in 1..Len(ctrl) : ctrl'[i] = ctrl[i]
        /\ ctrl'[Len(ctrl) + 1] = c
    BY <1>6, AppendProperties DEF TypeOK
  <2>2. \A i \in 1..Len(ctrl') : ctrl'[i].tx = a => i \in 1..Len(ctrl) /\ ctrl'[i] = ctrl[i]
    BY <1>1, <1>6, <2>1
  <2>3. QED BY <1>2, <2>2 DEF Waits, Still
<1>7. QED BY <1>3, <1>4, <1>5, <1>6 DEF Queued

\* The ring only ever forgets bytes.
LEMMA PromisedGrows ==
  ASSUME TypeOK, TypeOK', NEW a \in Attach, Still(a), ringStart' >= ringStart
  PROVE  /\ Promised(a) \in Nat /\ Promised(a)' \in Nat
         /\ Promised(a)' >= Promised(a) /\ Promised(a)' >= ringStart'
         /\ StartsWell(a) => StartsWell(a)'
<1>1. /\ info[a].from \in Nat /\ ringStart \in Nat /\ ringStart' \in Nat
      /\ got[a] \in Nat /\ (seen[a] \in Nat \/ seen[a] = Unset)
  BY DEF TypeOK
<1>2. Promised(a) \in Nat /\ Promised(a)' \in Nat
      /\ Promised(a)' >= Promised(a) /\ Promised(a)' >= ringStart'
  BY <1>1 DEF Promised, Larger, Still
<1>3. StartsWell(a) => StartsWell(a)'
  <2> USE DEF Unset
  <2>1. QED BY <1>1, <1>2 DEF StartsWell, Still
<1>4. QED BY <1>2, <1>3

\* Somebody else's step, or one that only loses what is in hand or the place of
\* the subscriber.
LEMMA StreamStill ==
  ASSUME TypeOK, TypeOK', NEW a \in Attach, StreamInv(a), Still(a), Queued(a),
         ringStart' >= ringStart,
         sub' = sub \/ sub' # a,
         hand' = hand \/ (hand'.to # a /\ (hand.to # a \/ sub' # a)),
         total' = total \/ (sub' # a /\ hand'.to # a)
  PROVE  StreamInv(a)'
<1>1. /\ Promised(a) \in Nat /\ Promised(a)' \in Nat
      /\ Promised(a)' >= Promised(a) /\ StartsWell(a)'
  BY PromisedGrows DEF StreamInv
<1>2. /\ Waits(a) => Waits(a)'
      /\ (\A i \in 1..Len(ctrl) : ctrl[i].tx # a)
           => \A i \in 1..Len(ctrl') : ctrl'[i].tx # a
  BY WaitsStill
<1>3. /\ chan[a] \in Seq(Msg) /\ chan'[a] = chan[a]
      /\ Pipeline(a) \in Seq(Msg)
      /\ hand.to # a => Pipeline(a) = chan[a]
      /\ hand.to = a => hand.msg \in Msg /\ Pipeline(a) = Append(chan[a], hand.msg)
      /\ hand'.to # a => Pipeline(a)' = chan[a]
      /\ hand'.to = a => Pipeline(a)' = Pipeline(a)
  <2>1. chan[a] \in Seq(Msg) /\ chan'[a] = chan[a]
    BY DEF Still, TypeOK
  <2>2. /\ Pipeline(a) \in Seq(Msg)
        /\ hand.to # a => Pipeline(a) = chan[a]
        /\ hand.to = a => hand.msg \in Msg /\ Pipeline(a) = Append(chan[a], hand.msg)
    BY PipelineIs
  <2>3. /\ hand'.to # a => Pipeline(a)' = chan'[a]
        /\ hand'.to = a => Pipeline(a)' = Append(chan'[a], hand'.msg)
    BY PipelineIsNext
  <2>4. QED BY <2>1, <2>2, <2>3
<1>4. NotBegun(a) => NotBegun(a)'
  BY DEF NotBegun, Still
<1>5. ASSUME rx[a] = "open"
      PROVE  Continues(a)' /\ Replays(a)' /\ UpToDate(a)'
  <2>1. Continues(a) /\ Replays(a) /\ UpToDate(a)
    BY <1>5 DEF StreamInv
  <2>2. CASE Pipeline(a)' = Pipeline(a)
    <3>1. Continues(a)'
      <4>1. Chained(Pipeline(a)')
        BY <2>1, <2>2 DEF Continues
      <4>2. ASSUME Pipeline(a) # <<>>
            PROVE  Pipeline(a)[1].from \in Nat
        <5>1. Pipeline(a)[1] \in Msg
          BY <1>3, <4>2, HeadTail
        <5>2. QED BY <5>1 DEF Msg
      <4>3. Pipeline(a)' # <<>> /\ Pipeline(a)'[1].kind = "out" =>
              IF seen'[a] = Unset THEN Pipeline(a)'[1].from <= Promised(a)'
                                  ELSE Pipeline(a)'[1].from = seen'[a]
        BY <1>1, <2>1, <2>2, <4>2 DEF Continues, Still
      <4>4. QED BY <4>1, <4>3 DEF Continues
    <3>2. Replays(a)'
      BY <2>1 DEF Replays, Still
    <3>3. UpToDate(a)'
      <4> SUFFICES ASSUME sub' = a PROVE UpToDate(a)'
        BY DEF UpToDate
      <4>1. sub = a /\ total' = total /\ total \in Nat
        BY DEF TypeOK
      <4>2. CASE Pipeline(a) # <<>>
        BY <2>1, <2>2, <4>1, <4>2 DEF UpToDate
      <4>3. CASE Pipeline(a) = <<>>
        BY <1>1, <2>1, <2>2, <4>1, <4>3 DEF UpToDate, Still
      <4>4. QED BY <4>2, <4>3
    <3>4. QED BY <3>1, <3>2, <3>3
  <2>3. CASE hand.to = a /\ hand'.to # a
    <3>0. /\ Pipeline(a) = Append(chan[a], hand.msg) /\ hand.msg \in Msg
          /\ Pipeline(a)' = chan[a]
      BY <1>3, <2>3
    <3>1. Chained(chan[a])
      <4>1. Chained(Append(chan[a], hand.msg))
        BY <2>1, <3>0 DEF Continues
      <4>2. QED BY <1>3, <3>0, <4>1, ChainedAppend
    <3>2. chan[a] # <<>> => Pipeline(a) # <<>> /\ Pipeline(a)[1] = chan[a][1]
      BY <1>3, <3>0, ChainedAppend
    <3>3. ASSUME chan[a] # <<>>
          PROVE  chan[a][1].from \in Nat
      <4>1. chan[a][1] \in Msg
        BY <1>3, <3>3, HeadTail
      <4>2. QED BY <4>1 DEF Msg
    <3>4. Continues(a)'
      BY <1>1, <2>1, <3>0, <3>1, <3>2, <3>3 DEF Continues, Still
    <3>5. Replays(a)' /\ UpToDate(a)'
      BY <2>3 DEF Replays, UpToDate
    <3>6. QED BY <3>4, <3>5
  <2>4. QED BY <1>3, <2>2, <2>3
<1>6. QED BY <1>1, <1>2, <1>4, <1>5 DEF StreamInv, Still

\* No attach is in ctrl once its stream has begun.
LEMMA BegunIsTaken ==
  ASSUME NEW a \in Attach, StreamInv(a), rx[a] = "open", ~NotBegun(a)
  PROVE  \A i \in 1..Len(ctrl) : ctrl[i].tx # a
  BY DEF StreamInv, Waits

\* The stream task makes a message for its subscriber: output that has just
\* been produced, or the exit.
LEMMA SubGetsMessage ==
  ASSUME TypeOK, TypeOK', NEW a \in Attach, StreamInv(a), Still(a), Queued(a),
         ringStart' >= ringStart,
         sub = a, hand.to # a, hand'.to = a, hand'.why # "replay",
         hand'.msg.kind = "out" =>
           /\ hand'.msg.from = total
           /\ hand'.msg.data # <<>> /\ Numbered(hand'.msg.data, total),
         sub' = a => hand'.msg.kind = "out" /\ EndOf(hand'.msg) = total'
  PROVE  StreamInv(a)'
<1> DEFINE m == hand'.msg
           p == Pipeline(a)
<1>1. /\ Promised(a) \in Nat /\ Promised(a)' \in Nat
      /\ Promised(a)' >= Promised(a) /\ StartsWell(a)' /\ total \in Nat
  BY PromisedGrows DEF StreamInv, TypeOK
<1>2. /\ p \in Seq(Msg) /\ p = chan[a] /\ m \in Msg
      /\ Pipeline(a)' = Append(p, m)
  <2>1. p \in Seq(Msg) /\ p = chan[a]
    BY PipelineIs
  <2>2. m \in Msg /\ Pipeline(a)' = Append(chan'[a], m)
    BY PipelineIsNext
  <2>3. QED BY <2>1, <2>2 DEF Still
<1>3. SUFFICES ASSUME rx[a] = "open"
               PROVE  StreamInv(a)'
  BY <1>1 DEF StreamInv, NotBegun, Still
<1>4. \A i \in 1..Len(ctrl) : ctrl[i].tx # a
  BY <1>3, BegunIsTaken DEF NotBegun
<1>5. \A i \in 1..Len(ctrl') : ctrl'[i].tx # a
  <2>1. CASE ctrl' = ctrl
    BY <1>4, <2>1
  <2>2. CASE ctrl' = <<>>
    BY <2>2, EmptySeq
  <2>3. CASE ctrl # <<>> /\ ctrl' = Tail(ctrl)
    <3>1. \A i \in 1..Len(ctrl') : i + 1 \in 1..Len(ctrl) /\ ctrl'[i] = ctrl[i + 1]
      <4>1. /\ Len(ctrl') = Len(ctrl) - 1 /\ Len(ctrl) \in Nat
            /\ \A i \in 1..Len(ctrl) - 1 : ctrl'[i] = ctrl[i + 1]
        BY <2>3, HeadTail DEF TypeOK
      <4>2. QED BY <4>1
    <3>2. QED BY <1>4, <3>1
  <2>4. CASE \E c \in Ctrl : c.tx # a /\ ctrl' = Append(ctrl, c)
    <3>1. PICK c \in Ctrl : c.tx # a /\ ctrl' = Append(ctrl, c)
      BY <2>4
    <3>2. /\ Len(ctrl') = Len(ctrl) + 1 /\ Len(ctrl) \in Nat
          /\ \A i \in 1..Len(ctrl) : ctrl'[i] = ctrl[i]
          /\ ctrl'[Len(ctrl) + 1] = c
      BY <3>1, AppendProperties, LenProperties DEF TypeOK
    <3>3. QED BY <1>4, <3>1, <3>2
  <2>5. QED BY <2>1, <2>2, <2>3, <2>4 DEF Queued
<1>6. UpToDate(a) /\ Continues(a)
  BY <1>3 DEF StreamInv
<1> HIDE DEF m, p
<1>7. Continues(a)'
  <2>1. p # <<>> => p[Len(p)].kind = "out" /\ EndOf(p[Len(p)]) = total
    BY <1>6 DEF UpToDate, p
  <2>2. Chained(Append(p, m))
    <3>1. Chained(p)
      BY <1>6 DEF Continues, p
    <3>2. QED BY <1>2, <2>1, <3>1, ChainedAppend DEF m
  <2>3. Append(p, m)[1] = IF p = <<>> THEN m ELSE p[1]
    BY <1>2, ChainedAppend
  <2>4. CASE p = <<>>
    <3>1. IF seen[a] = Unset THEN total <= Promised(a) ELSE seen[a] = total
      BY <1>6, <2>4 DEF UpToDate, p
    <3>2. m.kind = "out" =>
            IF seen[a] = Unset THEN m.from <= Promised(a)' ELSE m.from = seen[a]
      BY <1>1, <3>1 DEF m
    <3>3. QED BY <1>2, <2>2, <2>3, <2>4, <3>2 DEF Continues, Still
  <2>5. CASE p # <<>>
    <3>1. p[1].from \in Nat
      <4>1. p[1] \in Msg
        BY <1>2, <2>5, HeadTail
      <4>2. QED BY <4>1 DEF Msg
    <3>2. p[1].kind = "out" =>
            IF seen[a] = Unset THEN p[1].from <= Promised(a)' ELSE p[1].from = seen[a]
      BY <1>1, <1>6, <2>5, <3>1 DEF Continues, p
    <3>3. QED BY <1>2, <2>2, <2>3, <2>5, <3>2 DEF Continues, Still
  <2>6. QED BY <2>4, <2>5
<1>8. UpToDate(a)'
  <2>1. Append(p, m) # <<>> /\ Append(p, m)[Len(Append(p, m))] = m
    BY <1>2, ChainedAppend
  <2>2. sub' = a => m.kind = "out" /\ EndOf(m) = total'
    BY DEF m
  <2>3. QED BY <1>2, <2>1, <2>2 DEF UpToDate
<1>9. Waits(a)' /\ Replays(a)'
  BY <1>5 DEF Waits, Replays
<1>10. QED BY <1>1, <1>3, <1>7, <1>8, <1>9 DEF StreamInv, Still

\* The message for a that the stream task holds is delivered.
LEMMA MessageDelivered ==
  ASSUME TypeOK, TypeOK', NEW a \in Attach, StreamInv(a),
         rx[a] = "open", UNCHANGED <<rx, info, seen, got, ringStart, total>>,
         hand.to = a, hand'.to # a, chan'[a] = Append(chan[a], hand.msg),
         ctrl' = ctrl \/ ctrl' = <<>>,
         sub' = a => sub = a \/ hand.why = "replay"
  PROVE  StreamInv(a)'
<1>1. Pipeline(a)' = Pipeline(a) /\ Pipeline(a) = Append(chan[a], hand.msg)
      /\ hand.msg \in Msg /\ chan[a] \in Seq(Msg)
  <2>1. chan[a] \in Seq(Msg)
    BY DEF TypeOK
  <2>2. Pipeline(a) = Append(chan[a], hand.msg) /\ hand.msg \in Msg
    BY PipelineIs
  <2>3. Pipeline(a)' = chan'[a]
    BY PipelineIsNext
  <2>4. QED BY <2>1, <2>2, <2>3
<1>2. Continues(a) /\ Replays(a) /\ UpToDate(a) /\ StartsWell(a)
  BY DEF StreamInv
<1>3. Continues(a)' /\ StartsWell(a)'
  BY <1>1, <1>2 DEF Continues, StartsWell, Promised
<1>4. \A i \in 1..Len(ctrl') : ctrl'[i].tx # a
  BY BegunIsTaken, EmptySeq DEF NotBegun
<1>5. UpToDate(a)'
  <2>1. CASE hand.why = "replay"
    <3>1. chan[a] = <<>> /\ hand.msg.kind = "out" /\ EndOf(hand.msg) = total
      BY <1>2, <2>1 DEF Replays
    <3>2. Pipeline(a)' # <<>> /\ Pipeline(a)'[Len(Pipeline(a)')] = hand.msg
      BY <1>1, ChainedAppend
    <3>3. QED BY <3>1, <3>2 DEF UpToDate
  <2>2. CASE sub' = a => sub = a
    BY <1>1, <1>2, <2>2 DEF UpToDate, Promised
  <2>3. QED BY <2>1, <2>2
<1>6. Waits(a)' /\ Replays(a)'
  BY <1>4 DEF Waits, Replays
<1>7. QED BY <1>3, <1>5, <1>6 DEF StreamInv

-----------------------------------------------------------------------------
(* The steps of the stream task. *)

LEMMA NoHandIsForNobody ==
  ASSUME TypeOK, TaskShape, task # "send"
  PROVE  \A a \in Attach : hand.to # a
  BY ConstantsAssumption DEF TaskShape, NoHand

\* TakeSubscribe: what is replayed starts where the caller was told, or at the
\* oldest byte there still is, and ends with the newest one.
LEMMA StreamTakeSubscribe ==
  ASSUME TypeOK, TypeOK', TaskShape, RingIsTail, NEW a \in Attach, StreamInv(a),
         TakeSubscribe
  PROVE  StreamInv(a)'
<1> USE DEF readerVars, stateVars, taskVars, clientVars
<1> DEFINE b == Head(ctrl).tx
           from == Head(ctrl).from
<1>1. /\ Head(ctrl) \in [op : {"subscribe"}, tx : Attach, from : Nat]
      /\ Head(ctrl) = ctrl[1] /\ 1 \in 1..Len(ctrl)
  <2>1. Head(ctrl) \in Ctrl /\ Head(ctrl) = ctrl[1] /\ Len(ctrl) \in Nat \ {0}
    BY HeadTail DEF TakeSubscribe, TypeOK
  <2>2. Head(ctrl).op = "subscribe"
    BY DEF TakeSubscribe
  <2>3. QED BY <2>1, <2>2 DEF Ctrl, Unsubscribe
<1>2. b \in Attach /\ from \in Nat
  BY <1>1
<1>3. /\ UNCHANGED <<ringStart, total, rx, chan, info, seen, got>>
      /\ ctrl # <<>> /\ ctrl' = Tail(ctrl) /\ task = "ctrl"
  BY DEF TakeSubscribe
<1>4. Still(a) /\ Queued(a) /\ ringStart' >= ringStart
  <2>1. ringStart \in Nat
    BY DEF TypeOK
  <2>2. QED BY <1>3, <2>1 DEF Still, Queued
<1>5. hand.to # a
  BY <1>3, NoHandIsForNobody
<1>6. \/ sub' = sub /\ hand' = [to |-> b, why |-> "replay",
                               msg |-> OutMsg(ReplayStart(from), Replay(from))]
         /\ Replay(from) # <<>>
      \/ sub' = b /\ hand' = hand /\ Replay(from) = <<>>
  BY DEF TakeSubscribe, Hold
<1>7. CASE a # b
  <2>1. (sub' = sub \/ sub' # a) /\ (hand' = hand \/ hand'.to # a)
    BY <1>6, <1>7
  <2>2. QED BY <1>3, <1>4, <1>5, <2>1, StreamStill
<1>8. CASE a = b
  <2>1. rx[a] # "unused"
    BY <1>1, <1>8 DEF StreamInv
  <2>2. SUFFICES ASSUME rx[a] = "open"
                 PROVE  StreamInv(a)'
    <3>1. StartsWell(a)'
      BY <1>4, PromisedGrows DEF StreamInv
    <3>2. QED BY <1>3, <2>1, <3>1 DEF StreamInv
  <2>3. /\ from = info[a].from /\ NotBegun(a)
        /\ \A j \in 1..Len(ctrl) : ctrl[j].tx = a => j = 1
    BY <1>1, <1>8, <2>2 DEF StreamInv, Waits
  <2>4. \A i \in 1..Len(ctrl') : ctrl'[i].tx # a
    <3>1. /\ Len(ctrl') = Len(ctrl) - 1 /\ Len(ctrl) \in Nat
          /\ \A i \in 1..Len(ctrl) - 1 : ctrl'[i] = ctrl[i + 1]
      BY <1>3, HeadTail DEF TypeOK
    <3>2. \A i \in 1..Len(ctrl') : i + 1 \in 1..Len(ctrl) /\ i + 1 # 1
                                   /\ ctrl'[i] = ctrl[i + 1]
      BY <3>1
    <3>3. QED BY <2>3, <3>2
  <2>5. StartsWell(a)'
    BY <1>4, PromisedGrows DEF StreamInv
  <2>6. /\ ReplayStart(from) \in Nat /\ Replay(from) \in Bytes
        /\ ReplayStart(from) = Promised(a)' /\ Promised(a)' \in Nat
        /\ Replay(from) # <<>> => /\ Numbered(Replay(from), ReplayStart(from))
                                  /\ ReplayStart(from) + Len(Replay(from)) = total
        /\ Replay(from) = <<>> => total <= ReplayStart(from)
    <3>1. /\ ReplayStart(from) \in Nat /\ ReplayStart(from) >= ringStart
          /\ Replay(from) \in Bytes
          /\ Len(Replay(from)) =
               IF ReplayStart(from) < ringStart + Len(ring)
               THEN ringStart + Len(ring) - ReplayStart(from) ELSE 0
          /\ \A i \in 1..Len(Replay(from)) :
               Replay(from)[i] = ring[ReplayStart(from) - ringStart + i]
      BY <1>2, ReplayTyped
    <3>2. /\ ringStart \in Nat /\ ringStart + Len(ring) = total
          /\ Len(ring) \in Nat /\ Len(Replay(from)) \in Nat
          /\ \A i \in 1..Len(ring) : ring[i] = ringStart + i - 1
      BY <3>1, LenProperties DEF TypeOK, RingIsTail, Numbered, Bytes
    <3>3. ReplayStart(from) = Promised(a)'
      <4>1. Promised(a)' = Larger(from, ringStart)
        BY <1>3, <2>3 DEF Promised
      <4>2. QED BY <1>2, <3>2, <4>1 DEF ReplayStart, Larger
    <3>4. Replay(from) = <<>> <=> Len(Replay(from)) = 0
      BY <3>1, EmptySeq DEF Bytes
    <3>5. Numbered(Replay(from), ReplayStart(from))
      <4> SUFFICES ASSUME NEW i \in 1..Len(Replay(from))
                   PROVE  Replay(from)[i] = ReplayStart(from) + i - 1
        BY DEF Numbered
      <4>1. ReplayStart(from) - ringStart + i \in 1..Len(ring)
        BY <3>1, <3>2
      <4>2. Replay(from)[i] = ring[ReplayStart(from) - ringStart + i]
        BY <3>1
      <4>3. ring[ReplayStart(from) - ringStart + i]
              = ringStart + (ReplayStart(from) - ringStart + i) - 1
        BY <3>2, <4>1
      <4>4. i \in Nat
        OBVIOUS
      <4> HIDE DEF from
      <4>5. QED BY <3>1, <3>2, <4>2, <4>3, <4>4
    <3> HIDE DEF from
    <3>6. QED BY <3>1, <3>2, <3>3, <3>4, <3>5
  <2>7. Pipeline(a) = <<>> /\ chan'[a] = <<>> /\ seen'[a] = Unset
    BY <1>3, <2>3, PipelineIs DEF NotBegun
  <2>8. Waits(a)'
    BY <2>4 DEF Waits
  <2>9. CASE Replay(from) # <<>>
    <3> DEFINE m == OutMsg(ReplayStart(from), Replay(from))
    <3>1. /\ hand'.to = a /\ hand'.why = "replay" /\ hand'.msg = m
          /\ sub' # a
      BY <1>6, <1>8, <2>3, <2>9 DEF NotBegun
    <3>2. m \in Msg /\ m.kind = "out" /\ m.from = ReplayStart(from)
          /\ m.data = Replay(from)
      BY <2>6, MessagesTyped DEF OutMsg
    <3>3. EndOf(m) = total'
      BY <1>3, <2>6, <2>9, <3>2 DEF EndOf
    <3>4. Pipeline(a)' = Append(<<>>, m)
      BY <2>7, <3>1, PipelineIsNext
    <3> HIDE DEF m
    <3>5. Chained(Append(<<>>, m)) /\ Append(<<>>, m)[1] = m
      BY <2>6, <2>9, <3>2, ChainedAppend, ChainedEmpty
    <3>6. Continues(a)'
      <4>1. Pipeline(a)'[1].from <= Promised(a)'
        BY <2>6, <3>2, <3>4, <3>5
      <4>2. QED BY <2>7, <3>4, <3>5, <4>1 DEF Continues
    <3>7. Replays(a)'
      BY <2>7, <3>1, <3>2, <3>3 DEF Replays
    <3>8. UpToDate(a)'
      BY <3>1 DEF UpToDate
    <3>9. QED BY <1>3, <2>2, <2>5, <2>8, <3>6, <3>7, <3>8 DEF StreamInv
  <2>10. CASE Replay(from) = <<>>
    <3>1. hand' = hand /\ sub' = a
      BY <1>6, <1>8, <2>10
    <3>2. Pipeline(a)' = <<>>
      BY <1>5, <2>7, <3>1, PipelineIsNext
    <3>3. Continues(a)'
      BY <3>2, ChainedEmpty DEF Continues
    <3>4. Replays(a)'
      BY <1>5, <3>1 DEF Replays
    <3>5. UpToDate(a)'
      BY <1>3, <2>6, <2>7, <2>10, <3>2 DEF UpToDate
    <3>6. QED BY <1>3, <2>2, <2>5, <2>8, <3>3, <3>4, <3>5 DEF StreamInv
  <2>11. QED BY <2>9, <2>10
<1>9. QED BY <1>7, <1>8

\* TakeData: the chunk continues what the subscriber has been sent.
LEMMA StreamTakeData ==
  ASSUME TypeOK, TypeOK', TaskShape, RingInv, ChunksHoldBytes,
         NEW a \in Attach, StreamInv(a), TakeData
  PROVE  StreamInv(a)'
<1> USE DEF readerVars, stateVars, taskVars, clientVars
<1> DEFINE bytes == Head(feed).bytes
<1>1. task = "feed" /\ feed # <<>> /\ Head(feed).kind = "data"
  BY DEF TakeData, TaskShape
<1>2. bytes \in Bytes /\ Numbered(bytes, total)
  BY <1>1, FeedHead
<1>3. bytes # <<>>
  <2>1. Head(feed) = feed[1] /\ 1 \in 1..Len(feed)
    BY <1>1, HeadTail DEF TypeOK
  <2>2. QED BY <1>1, <2>1 DEF ChunksHoldBytes, Produced
<1>4. /\ ringStart' = ringStart + Dropped(bytes) /\ Dropped(bytes) \in Nat
      /\ total' = total + Len(bytes) /\ Len(bytes) \in Nat
      /\ total \in Nat /\ ringStart \in Nat
  <2>1. Len(bytes) \in Nat /\ Len(ring) \in Nat
    BY <1>2, LenProperties DEF TypeOK, Bytes
  <2>2. Dropped(bytes) \in Nat
    BY <2>1, ConstantsAssumption DEF Dropped, Larger
  <2>3. Push(bytes)
    BY DEF TakeData
  <2>4. QED BY <2>1, <2>2, <2>3 DEF Push, TypeOK
<1> HIDE DEF bytes
<1>5. Still(a) /\ Queued(a) /\ ringStart' >= ringStart /\ sub' = sub
  BY <1>4 DEF TakeData, Still, Queued
<1>6. hand.to # a
  BY <1>1, NoHandIsForNobody
<1>7. \/ sub = NoSub /\ hand' = hand
      \/ sub # NoSub /\ hand' = [to |-> sub, why |-> "live",
                                 msg |-> OutMsg(LiveFrom(bytes), bytes)]
  BY DEF TakeData, Hold, bytes
<1>8. LiveFrom(bytes) = total
  BY <1>4 DEF LiveFrom
<1>9. CASE sub = a
  <2>1. sub # NoSub
    BY <1>9, ConstantsAssumption
  <2>2. hand' = [to |-> a, why |-> "live", msg |-> OutMsg(total, bytes)]
    BY <1>7, <1>8, <1>9, <2>1
  <2>3. /\ hand'.msg.kind = "out" /\ hand'.msg.from = total
        /\ hand'.msg.data = bytes
        /\ hand'.to = a /\ hand'.why # "replay"
    BY <2>2 DEF OutMsg
  <2>4. EndOf(hand'.msg) = total'
    BY <1>4, <2>3 DEF EndOf
  <2>5. QED BY <1>2, <1>3, <1>5, <1>6, <1>9, <2>3, <2>4, SubGetsMessage
<1>10. CASE sub # a
  <2>1. hand' = hand \/ hand'.to # a
    BY <1>7, <1>10
  <2>2. hand'.to # a
    BY <1>6, <2>1
  <2>3. QED BY <1>5, <1>6, <1>10, <2>1, <2>2, StreamStill
<1>11. QED BY <1>9, <1>10

\* The exit, of the shell or of the session, goes to the subscriber if there is
\* one, and then there is none.
LEMMA StreamExits ==
  ASSUME TypeOK, TypeOK', TaskShape, NEW a \in Attach, StreamInv(a),
         TakeEof \/ CtrlEnds
  PROVE  StreamInv(a)'
<1> USE DEF readerVars, stateVars, taskVars, clientVars
<1>1. /\ Still(a) /\ Queued(a) /\ UNCHANGED <<ringStart, total>>
      /\ sub' = NoSub /\ sub' # a
  <2>1. sub' = NoSub /\ sub' # a
    BY ConstantsAssumption DEF TakeEof, CtrlEnds, LoopEnds, TaskGone
  <2>2. Queued(a)
    BY DEF TakeEof, CtrlEnds, LoopEnds, TaskGone, Queued
  <2>3. QED BY <2>1, <2>2 DEF TakeEof, CtrlEnds, Still
<1>2. hand.to # a /\ ringStart' >= ringStart
  <2>1. task # "send"
    BY DEF TakeEof, CtrlEnds
  <2>2. hand.to # a
    BY <2>1, NoHandIsForNobody
  <2>3. ringStart \in Nat /\ ringStart' = ringStart
    BY <1>1 DEF TypeOK
  <2>4. QED BY <2>2, <2>3
<1>3. \/ hand' = hand
      \/ hand' = NoHand
      \/ \E why \in {"exit", "last"}, code \in {"status", "unknown"} :
           hand' = [to |-> sub, why |-> why, msg |-> ExitMsg(code)]
  BY DEF TakeEof, CtrlEnds, LoopEnds, TaskGone, Hold
<1>4. CASE hand'.to = a
  <2>1. PICK why \in {"exit", "last"}, code \in {"status", "unknown"} :
           hand' = [to |-> sub, why |-> why, msg |-> ExitMsg(code)]
    BY <1>2, <1>3, <1>4, ConstantsAssumption DEF NoHand
  <2>2. sub = a /\ hand'.why # "replay" /\ hand'.msg.kind # "out"
    BY <1>4, <2>1 DEF ExitMsg
  <2>3. QED BY <1>1, <1>2, <1>4, <2>2, SubGetsMessage
<1>5. CASE hand'.to # a
  BY <1>1, <1>2, <1>5, StreamStill
<1>6. QED BY <1>4, <1>5

\* The task is gone, and with it what it holds.
LEMMA StreamTaskGone ==
  ASSUME TypeOK, TypeOK', NEW a \in Attach, StreamInv(a), Still(a),
         UNCHANGED <<ringStart, total>>, TaskGone
  PROVE  StreamInv(a)'
<1>1. sub' # a /\ hand'.to # a /\ Queued(a)
  BY ConstantsAssumption DEF TaskGone, NoHand, Queued
<1>2. ringStart' >= ringStart
  BY DEF TypeOK
<1>3. QED BY <1>1, <1>2, StreamStill

LEMMA StreamSendDone ==
  ASSUME TypeOK, TypeOK', TaskShape, LiveIsForSub, NEW a \in Attach, StreamInv(a),
         SendDone
  PROVE  StreamInv(a)'
<1> USE DEF readerVars, stateVars, taskVars, clientVars
<1>1. UNCHANGED <<rx, info, seen, got, ringStart, total>>
  BY DEF SendDone
<1>2. ringStart' >= ringStart
  BY <1>1 DEF TypeOK
<1>3. hand' = NoHand /\ hand'.to # a /\ (ctrl' = ctrl \/ ctrl' = <<>>)
  BY ConstantsAssumption DEF SendDone, TaskGone, NoHand
<1>4. /\ hand.to \in Attach
      /\ hand.why \in {"replay", "live", "exit", "last"}
  BY DEF SendDone, TaskShape, TypeOK
<1>5. CASE hand.why = "last"
  <2>1. sub' # a
    BY <1>5, ConstantsAssumption DEF SendDone, TaskGone
  <2>2. CASE hand.to = a /\ rx[a] = "open"
    <3>1. chan'[a] = Append(chan[a], hand.msg)
      BY <2>2 DEF SendDone, TypeOK
    <3>2. QED BY <1>1, <1>3, <2>1, <2>2, <3>1, MessageDelivered
  <2>3. CASE ~(hand.to = a /\ rx[a] = "open")
    <3>1. Still(a)
      BY <1>1, <1>4, <2>3 DEF SendDone, TypeOK, Still
    <3>2. QED BY <1>1, <1>5, <3>1, StreamTaskGone DEF SendDone
  <2>4. QED BY <2>2, <2>3
<1>6. CASE hand.why # "last"
  <2>1. \/ hand.why = "replay" /\ rx[hand.to] = "open" /\ sub' = hand.to
        \/ hand.why = "live" /\ rx[hand.to] # "open" /\ sub' = NoSub
        \/ /\ ~(hand.why = "replay" /\ rx[hand.to] = "open")
           /\ ~(hand.why = "live" /\ rx[hand.to] # "open")
           /\ sub' = sub
    BY <1>6 DEF SendDone
  <2>2. CASE hand.to = a /\ rx[a] = "open"
    <3>1. chan'[a] = Append(chan[a], hand.msg)
      BY <2>2 DEF SendDone, TypeOK
    <3>2. sub' = a => sub = a \/ hand.why = "replay"
      BY <2>1, <2>2
    <3>3. QED BY <1>1, <1>3, <2>2, <3>1, <3>2, MessageDelivered
  <2>3. CASE hand.to = a /\ rx[a] # "open"
    <3>1. rx[a] # "unused"
      BY <2>3 DEF StreamInv, NotBegun
    <3>2. Still(a)
      BY <1>1, <2>3 DEF SendDone, Still
    <3>3. StartsWell(a)'
      BY <1>2, <3>2, PromisedGrows DEF StreamInv
    <3>4. QED BY <1>1, <2>3, <3>1, <3>3 DEF StreamInv
  <2>4. CASE hand.to # a
    <3>1. Still(a) /\ Queued(a)
      BY <1>1, <1>3, <1>4, <2>4 DEF SendDone, TypeOK, Still, Queued
    <3>2. sub' = sub \/ sub' # a
      BY <2>1, <2>4, ConstantsAssumption
    <3>3. QED BY <1>1, <1>2, <1>3, <2>4, <3>1, <3>2, StreamStill
  <2>5. QED BY <2>2, <2>3, <2>4
<1>7. QED BY <1>5, <1>6

-----------------------------------------------------------------------------
(* The callers and the clients. *)

LEMMA StreamSubscribeCall ==
  ASSUME TypeOK, TypeOK', NEW a \in Attach, StreamInv(a),
         NEW b \in Attach, NEW asked \in Asked, SubscribeCall(b, asked)
  PROVE  StreamInv(a)'
<1> USE DEF readerVars, stateVars, taskVars, clientVars
<1> DEFINE from == IF asked = Unset THEN ringStart ELSE Larger(asked, ringStart)
           c == Subscribe(b, from)
<1>1. /\ UNCHANGED <<ringStart, total, sub, hand, chan, seen, got>>
      /\ ctrl' = Append(ctrl, c) /\ rx[b] = "unused"
      /\ rx' = [rx EXCEPT ![b] = "open"]
      /\ info' = [info EXCEPT ![b] =
                    [from |-> from, end |-> total,
                     truncated |-> asked # Unset /\ asked < ringStart]]
  BY DEF SubscribeCall
<1>2. c \in Ctrl /\ c.tx = b /\ c.from = from
  BY ConstantsAssumption DEF Subscribe, Ctrl, TypeOK, Unset, Larger
<1>3. ringStart' >= ringStart
  BY <1>1 DEF TypeOK
<1>4. CASE a # b
  <2>1. Still(a) /\ Queued(a)
    BY <1>1, <1>2, <1>4 DEF TypeOK, Still, Queued
  <2>2. QED BY <1>1, <1>3, <2>1, StreamStill
<1>5. CASE a = b
  <2>1. NotBegun(a) /\ \A i \in 1..Len(ctrl) : ctrl[i].tx # a
    BY <1>1, <1>5 DEF StreamInv
  <2>2. /\ NotBegun(a)' /\ rx'[a] = "open" /\ info'[a].from = from
        /\ got'[a] = got[a] /\ seen'[a] = seen[a]
    BY <1>1, <1>5, <2>1 DEF NotBegun, TypeOK
  <2>3. Pipeline(a)' = <<>>
    BY <2>2, PipelineIsNext DEF NotBegun
  <2>4. Continues(a)' /\ Replays(a)' /\ UpToDate(a)'
    BY <2>2, <2>3, ChainedEmpty DEF Continues, Replays, UpToDate, NotBegun
  <2>5. StartsWell(a)'
    <3>1. got[a] = 0 /\ seen[a] = Unset
      BY <2>1 DEF StreamInv, StartsWell, NotBegun
    <3>2. QED BY <2>2, <3>1 DEF StartsWell
  <2>6. Waits(a)'
    <3>1. /\ Len(ctrl') = Len(ctrl) + 1 /\ Len(ctrl) \in Nat
          /\ \A i \in 1..Len(ctrl) : ctrl'[i] = ctrl[i]
          /\ ctrl'[Len(ctrl) + 1] = c
      BY <1>1, <1>2, AppendProperties, LenProperties DEF TypeOK
    <3>2. \A i \in 1..Len(ctrl') : ctrl'[i].tx = a => i = Len(ctrl) + 1
      BY <2>1, <3>1
    <3>3. QED BY <1>2, <2>2, <3>1, <3>2 DEF Waits
  <2>7. QED BY <2>2, <2>4, <2>5, <2>6 DEF StreamInv
<1>6. QED BY <1>4, <1>5

\* The first message leaves the channel.
LEMMA PipelineTail ==
  ASSUME TypeOK, TypeOK', NEW a \in Attach, hand' = hand,
         chan[a] # <<>>, chan'[a] = Tail(chan[a])
  PROVE  /\ Pipeline(a) \in Seq(Msg) /\ Pipeline(a) # <<>>
         /\ Pipeline(a)[1] = Head(chan[a]) /\ Head(chan[a]) \in Msg
         /\ Pipeline(a)' = Tail(Pipeline(a))
<1> DEFINE p == Pipeline(a)
<1>1. /\ chan[a] \in Seq(Msg)
      /\ Head(chan[a]) \in Msg /\ Head(chan[a]) = chan[a][1]
  BY HeadTail DEF TypeOK
<1>2. CASE hand.to # a
  <2>1. p = chan[a] /\ Pipeline(a)' = chan'[a]
    BY <1>2, PipelineIs, PipelineIsNext
  <2>2. QED BY <1>1, <2>1
<1>3. CASE hand.to = a
  <2>1. /\ hand.msg \in Msg /\ p = Append(chan[a], hand.msg)
        /\ Pipeline(a)' = Append(Tail(chan[a]), hand.msg)
    BY <1>3, PipelineIs, PipelineIsNext
  <2>2. p \in Seq(Msg) /\ p # <<>> /\ p[1] = Head(chan[a])
    BY <1>1, <2>1, ChainedAppend
  <2>3. Append(Tail(chan[a]), hand.msg) = Tail(Append(chan[a], hand.msg))
    BY <1>1, <2>1, HeadTailAppend
  <2>4. QED BY <1>1, <2>1, <2>2, <2>3
<1>4. QED BY <1>2, <1>3

\* Receive: the next message goes from the channel to the client.
LEMMA StreamReceiveOut ==
  ASSUME TypeOK, TypeOK', NEW a \in Attach, StreamInv(a), Receive(a),
         Head(chan[a]).kind = "out"
  PROVE  StreamInv(a)'
<1> USE DEF readerVars, stateVars, taskVars, clientVars
<1> DEFINE m == Head(chan[a])
           p == Pipeline(a)
<1>1. /\ rx[a] = "open" /\ chan[a] # <<>> /\ chan[a] \in Seq(Msg)
      /\ UNCHANGED <<rx, info, ctrl, sub, hand, ringStart, total>>
      /\ seen' = [seen EXCEPT ![a] = m.from + Len(m.data)]
      /\ got' = [got EXCEPT ![a] = @ + Len(m.data)]
      /\ chan' = [chan EXCEPT ![a] = Tail(@)]
  BY DEF Receive, TypeOK
<1>2. /\ seen'[a] = EndOf(m) /\ got'[a] = got[a] + Len(m.data)
      /\ chan'[a] = Tail(chan[a])
      /\ got[a] \in Nat /\ (seen[a] \in Nat \/ seen[a] = Unset)
  BY <1>1 DEF TypeOK, EndOf
<1>3. Continues(a) /\ Waits(a) /\ Replays(a) /\ UpToDate(a) /\ StartsWell(a)
  BY <1>1 DEF StreamInv
<1>4. /\ p \in Seq(Msg) /\ p # <<>> /\ p[1] = m /\ m \in Msg
      /\ Pipeline(a)' = Tail(p)
  BY <1>1, <1>2, PipelineTail
<1>5. /\ m.from \in Nat /\ Len(m.data) \in Nat /\ m.data # <<>> /\ Len(m.data) > 0
      /\ m.from <= Promised(a) \/ seen[a] # Unset
      /\ seen[a] # Unset => m.from = seen[a]
  <2>1. m.from \in Nat /\ m.data \in Seq(Nat)
    BY <1>4 DEF Msg, Bytes
  <2>2. m.data # <<>>
    <3>1. 1 \in 1..Len(p)
      BY <1>4, HeadTail
    <3>2. QED BY <1>3, <1>4, <3>1 DEF Continues, Chained
  <2>3. Len(m.data) \in Nat /\ Len(m.data) > 0
    BY <2>1, <2>2, EmptySeq, LenProperties
  <2>4. QED BY <1>3, <1>4, <2>1, <2>2, <2>3 DEF Continues
<1>6. Promised(a) \in Nat /\ Promised(a)' = Promised(a)
  BY <1>1 DEF Promised, Larger, TypeOK
<1> HIDE DEF m, p
<1>7. seen'[a] \in Nat /\ seen'[a] # Unset
  BY <1>2, <1>5 DEF EndOf, Unset
<1>8. StartsWell(a)'
  <2>1. got'[a] # 0 /\ got'[a] > 0
    BY <1>2, <1>5
  <2>2. CASE seen[a] = Unset
    <3>1. got[a] = 0 /\ m.from <= Promised(a)
      BY <1>3, <1>5, <2>2 DEF StartsWell
    <3>2. seen'[a] - got'[a] = m.from
      BY <1>2, <1>5, <3>1 DEF EndOf
    <3>3. QED BY <1>6, <1>7, <2>1, <3>1, <3>2 DEF StartsWell
  <2>3. CASE seen[a] # Unset
    <3>1. got[a] > 0 /\ seen[a] - got[a] <= Promised(a) /\ m.from = seen[a]
      BY <1>2, <1>3, <1>5, <2>3 DEF StartsWell
    <3>2. seen'[a] - got'[a] = seen[a] - got[a]
      BY <1>2, <1>5, <3>1 DEF EndOf
    <3>3. QED BY <1>6, <1>7, <2>1, <3>1, <3>2 DEF StartsWell
  <2>4. QED BY <2>2, <2>3
<1>9. Chained(p)
  BY <1>3 DEF Continues, p
<1>10. Continues(a)'
  BY <1>2, <1>4, <1>7, <1>9, ChainedTail DEF Continues
<1>11. ~NotBegun(a)
  BY <1>1 DEF NotBegun
<1>12. Waits(a)'
  BY <1>1, <1>11, BegunIsTaken DEF Waits
<1>13. Replays(a)'
  BY <1>1, <1>3 DEF Replays
<1>14. UpToDate(a)'
  <2> SUFFICES ASSUME sub = a PROVE UpToDate(a)'
    BY <1>1 DEF UpToDate
  <2>1. p[Len(p)].kind = "out" /\ EndOf(p[Len(p)]) = total
    BY <1>3, <1>4 DEF UpToDate, p
  <2>2. CASE Tail(p) = <<>>
    <3>1. p[Len(p)] = m
      BY <1>4, <1>9, <2>2, ChainedTail
    <3>2. QED BY <1>1, <1>2, <1>4, <1>7, <2>1, <2>2, <3>1 DEF UpToDate
  <2>3. CASE Tail(p) # <<>>
    <3>1. Tail(p)[Len(Tail(p))] = p[Len(p)]
      BY <1>4, <1>9, <2>3, ChainedTail
    <3>2. QED BY <1>1, <1>4, <2>1, <2>3, <3>1 DEF UpToDate
  <2>4. QED BY <2>2, <2>3
<1>15. QED BY <1>1, <1>8, <1>10, <1>12, <1>13, <1>14 DEF StreamInv

LEMMA StreamClient ==
  ASSUME TypeOK, TypeOK', NEW a \in Attach, StreamInv(a), NEW b \in Attach, Client(b)
  PROVE  StreamInv(a)'
<1> USE DEF readerVars, stateVars, taskVars, clientVars
<1>1. UNCHANGED <<info, ctrl, sub, hand, ringStart, total>>
  BY DEF Client, Receive, StreamEnds, LinkLost
<1>2. ringStart' >= ringStart
  BY <1>1 DEF TypeOK
<1>3. Head(chan[b]).kind \in {"out", "status", "unknown"} \/ ~Receive(b)
  <2>1. Receive(b) => Head(chan[b]) \in Msg
    BY HeadTail DEF Receive, TypeOK
  <2>2. QED BY <2>1 DEF Msg
<1>4. CASE a # b
  <2>1. Still(a)
    BY <1>1, <1>3, <1>4 DEF Client, Receive, StreamEnds, LinkLost, Close, Still, TypeOK
  <2>2. QED BY <1>1, <1>2, <2>1, StreamStill DEF Queued
<1>5. CASE a = b /\ Receive(b) /\ Head(chan[b]).kind = "out"
  BY <1>5, StreamReceiveOut
<1>6. CASE a = b /\ ~(Receive(b) /\ Head(chan[b]).kind = "out")
  <2>1. /\ seen' = seen /\ got' = got
        /\ \E how \in {"exited", "told", "ended", "lost"} : Close(a, how)
    BY <1>3, <1>6 DEF Client, Receive, StreamEnds, LinkLost
  <2>2. rx'[a] \notin {"unused", "open"}
    BY <2>1 DEF Close, TypeOK
  <2>3. StartsWell(a)'
    BY <1>1, <2>1 DEF StreamInv, StartsWell, Promised
  <2>4. QED BY <2>2, <2>3 DEF StreamInv
<1>7. QED BY <1>4, <1>5, <1>6

-----------------------------------------------------------------------------
(* All the steps. *)

\* Steps that change neither the ring nor what the stream task does.
LEMMA StreamUntouched ==
  ASSUME TypeOK, NEW a \in Attach, StreamInv(a),
         UNCHANGED <<ringStart, total, ctrl, sub, hand, chan, clientVars>>
  PROVE  StreamInv(a)'
  BY DEF clientVars, StreamInv, NotBegun, StartsWell, Continues, Pipeline,
         Promised, Waits, Replays, UpToDate

LEMMA ChunksStep ==
  ASSUME TypeOK, TaskShape, ChunksHoldBytes, Next
  PROVE  ChunksHoldBytes'
<1> USE DEF readerVars, stateVars, taskVars, clientVars
<1>1. ASSUME UNCHANGED <<reader, chunk, read>>, feed' = feed \/ feed' = <<>>
      PROVE  ChunksHoldBytes'
  BY <1>1, EmptySeq DEF ChunksHoldBytes, Produced
<1>2. CASE ReaderRead
  <2>1. PICK n \in 1..READ_MAX :
          /\ chunk' = [i \in 1..n |-> read + i - 1]
          /\ read' = read + n
    BY <1>2 DEF ReaderRead
  <2>2. n \in Nat \ {0} /\ read \in Nat
    BY <2>1, ConstantsAssumption DEF TypeOK
  <2>3. chunk' # <<>> /\ \A i \in 1..Len(chunk') : chunk'[i] < read'
    <3>1. Len(chunk') = n
      BY <2>1, <2>2
    <3>2. QED BY <2>1, <2>2, <3>1, EmptySeq
  <2>4. ASSUME NEW i \in 1..Len(feed), feed[i].kind = "data"
        PROVE  Produced(feed[i].bytes)'
    <3>1. feed' = feed
      BY <1>2 DEF ReaderRead
    <3>2. Produced(feed[i].bytes)
      BY <2>4 DEF ChunksHoldBytes
    <3>3. \A k \in 1..Len(feed[i].bytes) : feed[i].bytes[k] \in Nat
      <4>1. feed[i].bytes \in Seq(Nat)
        BY ElementOfSeq, ItemBytes DEF TypeOK, Bytes
      <4>2. QED BY <4>1, ElementOfSeq
    <3>4. QED BY <2>1, <2>2, <3>1, <3>2, <3>3 DEF Produced
  <2>5. feed' = feed
    BY <1>2 DEF ReaderRead
  <2>6. QED BY <2>3, <2>4, <2>5 DEF ChunksHoldBytes, Produced
<1>3. ASSUME NEW x \in Item, feed' = Append(feed, x), read' = read,
             reader' # "send", x.kind = "data" => Produced(x.bytes)
      PROVE  ChunksHoldBytes'
  <2>1. /\ Len(feed') = Len(feed) + 1 /\ Len(feed) \in Nat
        /\ \A i \in 1..Len(feed) : feed'[i] = feed[i]
        /\ feed'[Len(feed) + 1] = x
    BY <1>3, AppendProperties, LenProperties DEF TypeOK
  <2>2. \A i \in 1..Len(feed') : feed'[i].kind = "data" => Produced(feed'[i].bytes)
    BY <1>3, <2>1 DEF ChunksHoldBytes
  <2>3. QED BY <1>3, <2>2 DEF ChunksHoldBytes, Produced
<1>4. CASE ReaderSend
  <2>1. CASE feed' = Append(feed, Data(chunk)) /\ reader' = "read"
    <3>1. /\ Data(chunk) \in Item /\ Data(chunk).kind = "data"
          /\ Produced(Data(chunk).bytes) /\ read' = read
      BY <1>4 DEF ReaderSend, ChunksHoldBytes, Data, Item, TypeOK
    <3>2. QED BY <1>3, <2>1, <3>1
  <2>2. CASE UNCHANGED feed /\ reader' = "done"
    BY <1>4, <2>2 DEF ReaderSend, ChunksHoldBytes, Produced
  <2>3. QED BY <1>4, <2>1, <2>2 DEF ReaderSend
<1>5. CASE ReaderSendEof
  <2>1. CASE feed' = Append(feed, Eof)
    <3>1. Eof \in Item /\ Eof.kind # "data" /\ read' = read /\ reader' # "send"
      BY <1>5 DEF ReaderSendEof, Eof, Item
    <3>2. QED BY <1>3, <2>1, <3>1
  <2>2. CASE UNCHANGED feed
    BY <1>5, <2>2 DEF ReaderSendEof, ChunksHoldBytes, Produced
  <2>3. QED BY <1>5, <2>1, <2>2 DEF ReaderSendEof
<1>6. CASE ReaderEof \/ ReaderWaited
  BY <1>6 DEF ReaderEof, ReaderWaited, ChunksHoldBytes, Produced
<1>7. CASE TakeData \/ TakeEof
  <2>1. feed # <<>> /\ feed' = Tail(feed) /\ UNCHANGED <<reader, chunk, read>>
    BY <1>7 DEF TakeData, TakeEof, TaskShape
  <2>2. /\ Len(feed') = Len(feed) - 1 /\ Len(feed) \in Nat
        /\ \A i \in 1..Len(feed) - 1 : feed'[i] = feed[i + 1]
    BY <2>1, HeadTail DEF TypeOK
  <2>3. \A i \in 1..Len(feed') : i + 1 \in 1..Len(feed) /\ feed'[i] = feed[i + 1]
    BY <2>2
  <2>4. QED BY <2>1, <2>3 DEF ChunksHoldBytes, Produced
<1>8. CASE TakeSubscribe \/ TakeUnsubscribe \/ PollFeed
  BY <1>1, <1>8 DEF TakeSubscribe, TakeUnsubscribe, PollFeed
<1>9. CASE CtrlEnds \/ SendDone \/ AbortTakesEffect
  BY <1>1, <1>9 DEF CtrlEnds, SendDone, AbortTakesEffect, LoopEnds, TaskGone
<1>10. CASE KillSession \/ Sweep
  BY <1>1, <1>10 DEF KillSession, Sweep, SweepExited, SweepAbandoned, Abort, TaskGone
<1>11. CASE \/ ChildCloses \/ ChildExits \/ UnsubscribeCall \/ KillCall
            \/ Replaced \/ DetachExpires
            \/ \E a \in Attach, asked \in Asked : SubscribeCall(a, asked)
            \/ \E a \in Attach : Client(a)
  BY <1>1, <1>11 DEF ChildCloses, ChildExits, UnsubscribeCall, KillCall, Replaced,
     DetachExpires, SubscribeCall, Client, Receive, StreamEnds, LinkLost
<1>12. QED
  BY <1>2, <1>4, <1>5, <1>6, <1>7, <1>8, <1>9, <1>10, <1>11
     DEF Next, ReaderRuns, StreamTask, TaskRuns

LEMMA LiveStep ==
  ASSUME TypeOK, TaskShape, LiveIsForSub, Next
  PROVE  LiveIsForSub'
<1> USE DEF readerVars, stateVars, taskVars, clientVars
<1>1. NoHand.why # "live"
  BY DEF NoHand
<1>2. CASE TakeSubscribe \/ TakeUnsubscribe \/ PollFeed \/ CtrlEnds \/ TakeData \/ TakeEof
  <2>1. task # "send" /\ hand = NoHand
    BY <1>2 DEF TakeSubscribe, TakeUnsubscribe, PollFeed, CtrlEnds, TakeData, TakeEof,
                TaskShape
  <2>2. hand'.why = "live" => sub' = hand'.to
    BY <1>1, <1>2, <2>1 DEF TakeSubscribe, TakeUnsubscribe, PollFeed, CtrlEnds,
                TakeData, TakeEof, LoopEnds, TaskGone, Hold
  <2>3. QED BY <2>2 DEF LiveIsForSub
<1>3. CASE SendDone \/ AbortTakesEffect
  BY <1>1, <1>3 DEF SendDone, AbortTakesEffect, TaskGone, LiveIsForSub
<1>4. CASE KillSession \/ Sweep
  BY <1>1, <1>4 DEF KillSession, Sweep, SweepExited, SweepAbandoned, Abort, TaskGone,
                    LiveIsForSub
<1>5. CASE \/ ChildCloses \/ ChildExits \/ ReaderRead \/ ReaderRuns
           \/ UnsubscribeCall \/ KillCall \/ Replaced \/ DetachExpires
           \/ \E a \in Attach, asked \in Asked : SubscribeCall(a, asked)
           \/ \E a \in Attach : Client(a)
  BY <1>5 DEF ChildCloses, ChildExits, ReaderRead, ReaderRuns, ReaderSend, ReaderEof,
     ReaderWaited, ReaderSendEof, UnsubscribeCall, KillCall, Replaced, DetachExpires,
     SubscribeCall, Client, Receive, StreamEnds, LinkLost, LiveIsForSub
<1>6. QED BY <1>2, <1>3, <1>4, <1>5 DEF Next, StreamTask, TaskRuns

LEMMA StreamStep ==
  ASSUME TypeOK, TypeOK', TaskShape, RingInv, GaplessInv, Next, NEW a \in Attach
  PROVE  StreamInv(a)'
<1> USE DEF readerVars, stateVars, taskVars, clientVars
<1>1. StreamInv(a) /\ ChunksHoldBytes /\ LiveIsForSub /\ RingIsTail
  BY DEF GaplessInv, RingInv
<1>2. CASE TakeSubscribe
  BY <1>1, <1>2, StreamTakeSubscribe
<1>3. CASE TakeData
  BY <1>1, <1>3, StreamTakeData
<1>4. CASE TakeEof \/ CtrlEnds
  BY <1>1, <1>4, StreamExits
<1>5. CASE SendDone
  BY <1>1, <1>5, StreamSendDone
<1>6. CASE TakeUnsubscribe
  <2>1. /\ Still(a) /\ Queued(a) /\ UNCHANGED <<ringStart, total, hand>>
        /\ sub' # a
    BY <1>6, ConstantsAssumption DEF TakeUnsubscribe, Still, Queued
  <2>2. ringStart' >= ringStart
    BY <2>1 DEF TypeOK
  <2>3. QED BY <1>1, <2>1, <2>2, StreamStill
<1>7. CASE AbortTakesEffect \/ KillSession \/ Sweep
  <2>1. /\ UNCHANGED <<ringStart, total, chan, rx, info, seen, got>>
        /\ TaskGone \/ UNCHANGED <<ctrl, sub, hand>>
    BY <1>7 DEF AbortTakesEffect, KillSession, Sweep, SweepExited, SweepAbandoned, Abort
  <2>2. CASE TaskGone
    BY <1>1, <2>1, <2>2, StreamTaskGone DEF Still
  <2>3. CASE UNCHANGED <<ctrl, sub, hand>>
    BY <1>1, <2>1, <2>3, StreamUntouched
  <2>4. QED BY <2>1, <2>2, <2>3
<1>8. CASE \E b \in Attach, asked \in Asked : SubscribeCall(b, asked)
  BY <1>1, <1>8, StreamSubscribeCall
<1>9. CASE \E b \in Attach : Client(b)
  BY <1>1, <1>9, StreamClient
<1>10. CASE UnsubscribeCall
  <2>1. /\ Still(a) /\ UNCHANGED <<ringStart, total, hand, sub>>
        /\ ctrl' = Append(ctrl, Unsubscribe)
    BY <1>10 DEF UnsubscribeCall, Still
  <2>2. Queued(a)
    BY <2>1, ConstantsAssumption DEF Queued, Ctrl, Unsubscribe
  <2>3. ringStart' >= ringStart
    BY <2>1 DEF TypeOK
  <2>4. QED BY <1>1, <2>1, <2>2, <2>3, StreamStill
<1>11. CASE \/ ChildCloses \/ ChildExits \/ ReaderRead \/ ReaderRuns \/ PollFeed
            \/ KillCall \/ Replaced \/ DetachExpires
  <2>1. UNCHANGED <<ringStart, total, ctrl, sub, hand, chan, clientVars>>
    BY <1>11 DEF ChildCloses, ChildExits, ReaderRead, ReaderRuns, ReaderSend, ReaderEof,
       ReaderWaited, ReaderSendEof, PollFeed, KillCall, Replaced, DetachExpires
  <2>2. QED BY <1>1, <2>1, StreamUntouched
<1>12. QED BY <1>2, <1>3, <1>4, <1>5, <1>6, <1>7, <1>8, <1>9, <1>10, <1>11
           DEF Next, StreamTask, TaskRuns

LEMMA GaplessInit == Init => GaplessInv
<1> SUFFICES ASSUME Init PROVE GaplessInv
  OBVIOUS
<1>1. Len(<<>>) = 0
  BY EmptySeq
<1>2. ChunksHoldBytes /\ LiveIsForSub
  BY <1>1 DEF Init, ChunksHoldBytes, LiveIsForSub, NoHand
<1>3. ASSUME NEW a \in Attach
      PROVE  StreamInv(a)
  BY <1>1, ConstantsAssumption DEF Init, StreamInv, NotBegun, StartsWell, NoHand, Unset
<1>4. QED BY <1>2, <1>3 DEF GaplessInv

LEMMA GaplessFollows == TypeOK /\ GaplessInv => Gapless
<1> SUFFICES ASSUME TypeOK, GaplessInv PROVE Gapless
  OBVIOUS
<1>1. NothingRetainedIsSkipped
  BY DEF GaplessInv, StreamInv, StartsWell, Promised, NothingRetainedIsSkipped
<1>2. ASSUME NEW a \in Attach, rx[a] = "open"
      PROVE  LET p == Pipeline(a)
                 End(i) == p[i].from + Len(p[i].data)
             IN  /\ \A i \in 1..Len(p) : p[i].kind = "out" =>
                       p[i].data # <<>> /\ Numbered(p[i].data, p[i].from)
                 /\ \A i \in 1..Len(p) - 1 :
                       /\ p[i].kind = "out"
                       /\ p[i + 1].kind = "out" => p[i + 1].from = End(i)
                 /\ p # <<>> /\ p[1].kind = "out" /\ seen[a] # Unset =>
                       p[1].from = seen[a]
                 /\ sub = a =>
                      IF p = <<>> THEN seen[a] \in {Unset, total}
                                  ELSE p[Len(p)].kind = "out" /\ End(Len(p)) = total
  <2>1. Continues(a) /\ UpToDate(a)
    BY <1>2 DEF GaplessInv, StreamInv
  <2>2. Chained(Pipeline(a))
    BY <2>1 DEF Continues
  <2>3. QED BY <2>1, <2>2 DEF Continues, UpToDate, Chained, EndOf
<1>3. QED BY <1>1, <1>2 DEF Gapless

LEMMA GaplessInvariant == Spec => []GaplessInv
<1>1. Init => GaplessInv
  BY GaplessInit
<1>2. /\ TypeOK /\ TaskShape /\ RingInv /\ GaplessInv /\ [Next]_vars /\ TypeOK'
      => GaplessInv'
  <2> SUFFICES ASSUME TypeOK, TypeOK', TaskShape, RingInv, GaplessInv, [Next]_vars
               PROVE  GaplessInv'
    OBVIOUS
  <2>1. CASE Next
    <3>1. ChunksHoldBytes' /\ LiveIsForSub'
      BY <2>1, ChunksStep, LiveStep DEF GaplessInv
    <3>2. \A a \in Attach : StreamInv(a)'
      BY <2>1, StreamStep
    <3>3. QED BY <3>1, <3>2 DEF GaplessInv
  <2>2. CASE UNCHANGED vars
    <3>1. ChunksHoldBytes' /\ LiveIsForSub'
      BY <2>2 DEF vars, readerVars, taskVars, GaplessInv, ChunksHoldBytes, Produced,
                  LiveIsForSub
    <3>2. ASSUME NEW a \in Attach
          PROVE  StreamInv(a)'
      <4>1. UNCHANGED <<ringStart, total, ctrl, sub, hand, chan, clientVars>>
        BY <2>2 DEF vars, stateVars, taskVars
      <4>2. QED BY <4>1, StreamUntouched DEF GaplessInv
    <3>3. QED BY <3>1, <3>2 DEF GaplessInv
  <2>3. QED BY <2>1, <2>2
<1>3. Spec => [](TypeOK /\ TaskShape) /\ []RingInv
  BY TypeCorrect, RingInvariant
<1>4. QED BY <1>1, <1>2, <1>3, PTL DEF Spec

\* What a client gets is one gapless run of what the shell produced, it begins
\* where the attach was promised or at the oldest byte retained, and a live
\* subscriber is up to date with the ring: for every capacity, every number of
\* attaches that take the session over from one another, every resume offset.
THEOREM NoByteLostOrRepeated == Spec => []Gapless
<1>1. TypeOK /\ GaplessInv => Gapless
  BY GaplessFollows
<1>2. QED BY <1>1, TypeCorrect, GaplessInvariant, PTL

-----------------------------------------------------------------------------
(* The promise to one client, TerminalStream.  An exit status says that all *)
(* of the output came before it: the end of file is the last thing in the   *)
(* feed, nothing is read after it, and when the stream task takes it the    *)
(* ring has everything.                                                     *)

EofIsLast ==
  /\ \A i \in 1..Len(feed) : feed[i].kind = "eof" => i = Len(feed) /\ reader = "done"
  /\ exited => feed = <<>> /\ reader = "done"

StatusIsLast(a) ==
  \A i \in 1..Len(Pipeline(a)) : Pipeline(a)[i].kind = "status" =>
    /\ reader = "done"
    /\ IF i = 1 THEN seen[a] \in {Unset, read}
                ELSE EndOf(Pipeline(a)[i - 1]) = read

OnlyProduced(a) ==
  \A i \in 1..Len(Pipeline(a)) :
    Pipeline(a)[i].kind = "out" => EndOf(Pipeline(a)[i]) <= read

PromiseInv ==
  /\ EofIsLast
  /\ total <= read
  /\ \A a \in Attach : /\ rx[a] = "open" => StatusIsLast(a) /\ OnlyProduced(a)
                       /\ rx[a] = "exited" => reader = "done"

\* Nothing is behind the end of file.
LEMMA EofEndsAll ==
  ASSUME TypeOK, TaskShape, RingInv, EofIsLast, TakeEof
  PROVE  /\ feed' = <<>> /\ reader = "done" /\ total = read
<1> USE DEF readerVars, stateVars, taskVars, clientVars
<1>1. /\ task = "feed" /\ feed # <<>> /\ Head(feed).kind = "eof" /\ feed' = Tail(feed)
  BY DEF TakeEof, TaskShape
<1>2. /\ Head(feed) \in Item /\ Head(feed) = feed[1] /\ Len(feed) \in Nat \ {0}
      /\ Tail(feed) \in Seq(Item) /\ Len(Tail(feed)) = Len(feed) - 1
  BY <1>1, HeadTail DEF TypeOK
<1>3. Len(feed) = 1 /\ reader = "done"
  <2>1. 1 \in 1..Len(feed)
    BY <1>2
  <2>2. QED BY <1>1, <1>2, <2>1 DEF EofIsLast
<1>4. feed' = <<>>
  BY <1>1, <1>2, <1>3, EmptySeq
<1>5. total = read
  <2>1. PICK at \in [Nat -> Nat] :
          /\ at[1] = total
          /\ \A i \in 1..Len(feed) : /\ Numbered(feed[i].bytes, at[i])
                                    /\ at[i + 1] = at[i] + Len(feed[i].bytes)
          /\ Numbered(chunk, at[Len(feed) + 1])
          /\ read = at[Len(feed) + 1] + Len(chunk)
    BY <1>1 DEF RingInv, FeedContinues
  <2>2. Len(chunk) = 0
    BY <1>3, EmptySeq DEF RingInv, ChunkInHand
  <2>3. Len(feed[1].bytes) = 0
    BY <1>1, <1>2, ItemBytes, EmptySeq
  <2>4. at[1 + 1] = at[1] + Len(feed[1].bytes) /\ read = at[1 + 1] + Len(chunk)
    <3>1. 1 \in 1..Len(feed)
      BY <1>2
    <3>2. at[1 + 1] = at[1] + Len(feed[1].bytes)
      BY <2>1, <3>1
    <3>3. QED BY <1>3, <2>1, <3>2
  <2>5. QED BY <2>1, <2>2, <2>3, <2>4 DEF TypeOK
<1>6. QED BY <1>3, <1>4, <1>5

\* A chunk holds bytes that were produced.
LEMMA TotalIsProduced ==
  ASSUME TypeOK, TaskShape, RingInv, ChunksHoldBytes, total <= read, TakeData
  PROVE  total' <= read'
<1> USE DEF readerVars, stateVars, taskVars, clientVars
<1> DEFINE bytes == Head(feed).bytes
<1>1. task = "feed" /\ feed # <<>> /\ Head(feed).kind = "data"
  BY DEF TakeData, TaskShape
<1>2. bytes \in Bytes /\ Numbered(bytes, total)
  BY <1>1, FeedHead
<1>3. Produced(bytes)
  <2>1. Head(feed) = feed[1] /\ 1 \in 1..Len(feed)
    BY <1>1, HeadTail DEF TypeOK
  <2>2. QED BY <1>1, <2>1 DEF ChunksHoldBytes
<1>4. Len(bytes) \in Nat \ {0}
  BY <1>2, <1>3, EmptySeq, LenProperties DEF Bytes, Produced
<1>5. total' = total + Len(bytes) /\ read' = read
  BY DEF TakeData, Push
<1> HIDE DEF bytes
<1>6. bytes[Len(bytes)] = total + Len(bytes) - 1 /\ bytes[Len(bytes)] < read
  BY <1>2, <1>3, <1>4 DEF Numbered, Produced
<1>7. total \in Nat /\ read \in Nat
  BY ConstantsAssumption DEF TypeOK
<1>8. QED BY <1>4, <1>5, <1>6, <1>7

LEMMA EofStep ==
  ASSUME TypeOK, TaskShape, RingInv, EofIsLast, Next
  PROVE  EofIsLast' /\ (reader = "done" => reader' = "done" /\ read' = read)
<1> USE DEF readerVars, stateVars, taskVars, clientVars
<1>0. Len(<<>>) = 0
  BY EmptySeq
<1>1. ASSUME UNCHANGED exited, feed' = feed \/ feed' = <<>>,
             reader = "done" => reader' = "done" /\ read' = read
      PROVE  EofIsLast'
  BY <1>0, <1>1 DEF EofIsLast
<1>2. ASSUME NEW x \in Item, feed' = Append(feed, x), UNCHANGED exited,
             reader # "done", x.kind = "eof" => reader' = "done"
      PROVE  EofIsLast'
  <2>1. /\ Len(feed') = Len(feed) + 1 /\ Len(feed) \in Nat
        /\ \A i \in 1..Len(feed) : feed'[i] = feed[i]
        /\ feed'[Len(feed) + 1] = x
    BY <1>2, AppendProperties, LenProperties DEF TypeOK
  <2>2. ~exited /\ \A i \in 1..Len(feed) : feed[i].kind # "eof"
    BY <1>2 DEF EofIsLast
  <2>3. QED BY <1>2, <2>1, <2>2 DEF EofIsLast
<1>3. CASE ReaderRead
  BY <1>1, <1>3 DEF ReaderRead
<1>4. CASE ReaderRuns
  <2>1. reader # "done" /\ UNCHANGED exited
    BY <1>4 DEF ReaderRuns, ReaderSend, ReaderEof, ReaderWaited, ReaderSendEof
  <2>2. CASE feed' = feed
    BY <1>1, <2>1, <2>2
  <2>3. CASE ReaderSend /\ feed' = Append(feed, Data(chunk))
    <3>1. Data(chunk) \in Item /\ Data(chunk).kind = "data"
      BY DEF Data, Item, TypeOK
    <3>2. QED BY <1>2, <2>1, <2>3, <3>1
  <2>4. CASE ReaderSendEof /\ feed' = Append(feed, Eof)
    <3>1. Eof \in Item /\ reader' = "done"
      BY <2>4 DEF Eof, Item, ReaderSendEof
    <3>2. QED BY <1>2, <2>1, <2>4, <3>1
  <2>5. QED BY <1>4, <2>1, <2>2, <2>3, <2>4
           DEF ReaderRuns, ReaderSend, ReaderEof, ReaderWaited, ReaderSendEof
<1>5. CASE TakeData
  <2>1. feed # <<>> /\ feed' = Tail(feed) /\ UNCHANGED <<reader, read, exited>>
    BY <1>5 DEF TakeData, TaskShape
  <2>2. /\ Len(feed') = Len(feed) - 1 /\ Len(feed) \in Nat
        /\ \A i \in 1..Len(feed) - 1 : feed'[i] = feed[i + 1]
    BY <2>1, HeadTail DEF TypeOK
  <2>3. \A i \in 1..Len(feed') : feed'[i].kind = "eof" => i = Len(feed') /\ reader = "done"
    BY <2>2 DEF EofIsLast
  <2>4. QED BY <2>1, <2>3 DEF EofIsLast
<1>6. CASE TakeEof
  <2>1. feed' = <<>> /\ reader = "done" /\ UNCHANGED <<reader, read>>
    BY <1>6, EofEndsAll DEF TakeEof
  <2>2. QED BY <1>0, <2>1 DEF EofIsLast
<1>7. CASE TakeSubscribe \/ TakeUnsubscribe \/ PollFeed
  BY <1>1, <1>7 DEF TakeSubscribe, TakeUnsubscribe, PollFeed
<1>8. CASE CtrlEnds \/ SendDone \/ AbortTakesEffect
  BY <1>1, <1>8 DEF CtrlEnds, SendDone, AbortTakesEffect, LoopEnds, TaskGone
<1>9. CASE KillSession \/ Sweep
  BY <1>1, <1>9 DEF KillSession, Sweep, SweepExited, SweepAbandoned, Abort, TaskGone
<1>10. CASE \/ ChildCloses \/ ChildExits \/ UnsubscribeCall \/ KillCall
            \/ Replaced \/ DetachExpires
            \/ \E a \in Attach, asked \in Asked : SubscribeCall(a, asked)
            \/ \E a \in Attach : Client(a)
  BY <1>1, <1>10 DEF ChildCloses, ChildExits, UnsubscribeCall, KillCall, Replaced,
     DetachExpires, SubscribeCall, Client, Receive, StreamEnds, LinkLost
<1>11. QED
  BY <1>3, <1>4, <1>5, <1>6, <1>7, <1>8, <1>9, <1>10
     DEF Next, StreamTask, TaskRuns

\* The reader thread never goes back to reading, and counts up.
Forth == /\ reader = "done" => reader' = "done" /\ read' = read
         /\ read' >= read

\* What is on its way to a loses its end, or nothing.
LEMMA PipelineCut ==
  ASSUME TypeOK, TypeOK', NEW a \in Attach,
         hand' = hand \/ hand'.to # a,
         \/ chan'[a] = chan[a]
         \/ hand.to = a /\ hand'.to # a /\ chan'[a] = Append(chan[a], hand.msg)
  PROVE  \A i \in 1..Len(Pipeline(a)') :
           i \in 1..Len(Pipeline(a)) /\ Pipeline(a)'[i] = Pipeline(a)[i]
<1>1. chan[a] \in Seq(Msg) /\ Len(chan[a]) \in Nat
  BY LenProperties DEF TypeOK
<1>2. /\ hand.to # a => Pipeline(a) = chan[a]
      /\ hand.to = a => hand.msg \in Msg /\ Pipeline(a) = Append(chan[a], hand.msg)
  BY PipelineIs
<1>3. /\ hand'.to # a => Pipeline(a)' = chan'[a]
      /\ hand'.to = a => Pipeline(a)' = Append(chan'[a], hand'.msg)
  BY PipelineIsNext
<1>4. CASE Pipeline(a)' = Pipeline(a)
  BY <1>4
<1>5. CASE hand.to = a /\ Pipeline(a)' = chan[a]
  <2>1. /\ Len(Pipeline(a)) = Len(chan[a]) + 1
        /\ \A i \in 1..Len(chan[a]) : Pipeline(a)[i] = chan[a][i]
    BY <1>1, <1>2, <1>5, AppendProperties
  <2>2. QED BY <1>1, <1>5, <2>1
<1>6. QED BY <1>2, <1>3, <1>4, <1>5

\* Then nothing that was promised is broken.
LEMMA PromiseOfPrefix ==
  ASSUME TypeOK, TypeOK', NEW a \in Attach, Forth, seen'[a] = seen[a],
         StatusIsLast(a), OnlyProduced(a),
         \A i \in 1..Len(Pipeline(a)') :
           i \in 1..Len(Pipeline(a)) /\ Pipeline(a)'[i] = Pipeline(a)[i]
  PROVE  StatusIsLast(a)' /\ OnlyProduced(a)'
<1>1. \A i \in 1..Len(Pipeline(a)') : i # 1 => i - 1 \in 1..Len(Pipeline(a)')
  <2>1. Len(Pipeline(a)') \in Nat
    BY PipelineIsNext, LenProperties
  <2>2. QED BY <2>1
<1>2. \A i \in 1..Len(Pipeline(a)) : EndOf(Pipeline(a)[i]) \in Nat
  <2> SUFFICES ASSUME NEW i \in 1..Len(Pipeline(a))
               PROVE  EndOf(Pipeline(a)[i]) \in Nat
    OBVIOUS
  <2>1. Pipeline(a)[i] \in Msg
    BY PipelineIs, ElementOfSeq
  <2>2. QED BY <2>1, LenProperties DEF EndOf, Msg, Bytes
<1>3. read \in Nat /\ read' \in Nat
  BY ConstantsAssumption DEF TypeOK
<1>4. StatusIsLast(a)'
  <2> SUFFICES ASSUME NEW i \in 1..Len(Pipeline(a)'), Pipeline(a)'[i].kind = "status"
               PROVE  /\ reader' = "done"
                      /\ IF i = 1 THEN seen'[a] \in {Unset, read'}
                                  ELSE EndOf(Pipeline(a)'[i - 1]) = read'
    BY DEF StatusIsLast
  <2>1. i \in 1..Len(Pipeline(a)) /\ Pipeline(a)[i].kind = "status"
    OBVIOUS
  <2>2. /\ reader = "done"
        /\ IF i = 1 THEN seen[a] \in {Unset, read}
                    ELSE EndOf(Pipeline(a)[i - 1]) = read
    BY <2>1 DEF StatusIsLast
  <2>3. i # 1 => Pipeline(a)'[i - 1] = Pipeline(a)[i - 1]
    BY <1>1
  <2>4. QED BY <2>2, <2>3 DEF Forth
<1>5. OnlyProduced(a)'
  BY <1>2, <1>3 DEF OnlyProduced, Forth
<1>6. QED BY <1>4, <1>5

\* A message is made: output up to the newest byte, or an exit; a status only
\* behind all of the output.
LEMMA PromiseOfMessage ==
  ASSUME TypeOK, TypeOK', NEW a \in Attach, Forth, seen'[a] = seen[a],
         StatusIsLast(a), OnlyProduced(a),
         hand.to # a, hand'.to = a, chan'[a] = chan[a],
         hand'.msg.kind = "out" => EndOf(hand'.msg) <= read',
         hand'.msg.kind = "status" =>
           /\ reader' = "done"
           /\ IF Pipeline(a) = <<>>
              THEN seen[a] \in {Unset, read'}
              ELSE EndOf(Pipeline(a)[Len(Pipeline(a))]) = read'
  PROVE  StatusIsLast(a)' /\ OnlyProduced(a)'
<1> DEFINE p == Pipeline(a)
           m == hand'.msg
<1>1. /\ p \in Seq(Msg) /\ p = chan[a] /\ m \in Msg /\ Pipeline(a)' = Append(p, m)
      /\ Len(p) \in Nat
  <2>1. p = chan[a] /\ p \in Seq(Msg)
    BY PipelineIs
  <2>2. m \in Msg /\ Pipeline(a)' = Append(chan'[a], m)
    BY PipelineIsNext
  <2>3. QED BY <2>1, <2>2, LenProperties
<1> HIDE DEF p, m
<1> DEFINE q == Append(p, m)
<1>2. /\ Len(q) = Len(p) + 1
      /\ \A i \in 1..Len(p) : q[i] = p[i]
      /\ q[Len(p) + 1] = m
      /\ p = <<>> <=> Len(p) = 0
  BY <1>1, AppendProperties, EmptySeq
<1>3. \A i \in 1..Len(p) : EndOf(p[i]) \in Nat
  <2> SUFFICES ASSUME NEW i \in 1..Len(p)
               PROVE  EndOf(p[i]) \in Nat
    OBVIOUS
  <2>1. p[i] \in Msg
    BY <1>1, ElementOfSeq
  <2>2. QED BY <2>1, LenProperties DEF EndOf, Msg, Bytes
<1>4. read \in Nat /\ read' \in Nat
  BY ConstantsAssumption DEF TypeOK
<1> HIDE DEF q
<1>5. ASSUME NEW i \in 1..Len(q), q[i].kind = "status"
      PROVE  /\ reader' = "done"
             /\ IF i = 1 THEN seen'[a] \in {Unset, read'} ELSE EndOf(q[i - 1]) = read'
  <2>1. CASE i \in 1..Len(p)
    <3>1. p[i].kind = "status"
      BY <1>2, <1>5, <2>1
    <3>2. /\ reader = "done"
          /\ IF i = 1 THEN seen[a] \in {Unset, read} ELSE EndOf(p[i - 1]) = read
      BY <2>1, <3>1 DEF StatusIsLast, p
    <3>3. i # 1 => i - 1 \in 1..Len(p) /\ q[i - 1] = p[i - 1]
      BY <1>1, <1>2, <2>1
    <3>4. QED BY <3>2, <3>3 DEF Forth
  <2>2. CASE i = Len(p) + 1
    <3>1. m.kind = "status"
      BY <1>2, <1>5, <2>2
    <3>2. /\ reader' = "done"
          /\ IF p = <<>> THEN seen[a] \in {Unset, read'} ELSE EndOf(p[Len(p)]) = read'
      BY <3>1 DEF m, p
    <3>3. CASE p = <<>>
      BY <1>2, <2>2, <3>2, <3>3
    <3>4. CASE p # <<>>
      <4>1. i # 1 /\ i - 1 = Len(p) /\ q[i - 1] = p[Len(p)]
        BY <1>1, <1>2, <2>2, <3>4
      <4>2. QED BY <3>2, <3>4, <4>1
    <3>5. QED BY <3>3, <3>4
  <2>3. QED BY <1>1, <1>2, <2>1, <2>2
<1>6. StatusIsLast(a)'
  BY <1>1, <1>5 DEF StatusIsLast, q
<1>7. \A i \in 1..Len(q) : q[i].kind = "out" => EndOf(q[i]) <= read'
  <2> SUFFICES ASSUME NEW i \in 1..Len(q), q[i].kind = "out"
               PROVE  EndOf(q[i]) <= read'
    OBVIOUS
  <2>1. CASE i \in 1..Len(p)
    BY <1>2, <1>3, <1>4, <2>1 DEF OnlyProduced, p, Forth
  <2>2. CASE i = Len(p) + 1
    BY <1>2, <2>2 DEF m
  <2>3. QED BY <1>1, <1>2, <2>1, <2>2
<1>8. OnlyProduced(a)'
  BY <1>1, <1>7 DEF OnlyProduced, q
<1>9. QED BY <1>6, <1>8

\* Receive: a status that comes next found everything delivered.
LEMMA PromiseOfReceive ==
  ASSUME TypeOK, TypeOK', NEW a \in Attach, UNCHANGED <<reader, read, hand>>,
         StatusIsLast(a), OnlyProduced(a),
         chan[a] # <<>>, chan'[a] = Tail(chan[a]), seen'[a] = EndOf(Head(chan[a]))
  PROVE  StatusIsLast(a)' /\ OnlyProduced(a)'
<1> DEFINE p == Pipeline(a)
<1>1. /\ p \in Seq(Msg) /\ p # <<>> /\ p[1] = Head(chan[a])
      /\ Pipeline(a)' = Tail(p)
  BY PipelineTail
<1>2. /\ Len(p) \in Nat \ {0} /\ Len(Tail(p)) = Len(p) - 1
      /\ \A i \in 1..Len(p) - 1 : Tail(p)[i] = p[i + 1]
  BY <1>1, HeadTail
<1> HIDE DEF p
<1>3. ASSUME NEW i \in 1..Len(Tail(p))
      PROVE  /\ i + 1 \in 1..Len(p) /\ i + 1 # 1 /\ Tail(p)[i] = p[i + 1]
             /\ i = 1 => p[(i + 1) - 1] = p[1]
             /\ i # 1 => i - 1 \in 1..Len(Tail(p)) /\ p[(i + 1) - 1] = Tail(p)[i - 1]
  <2>1. i + 1 \in 1..Len(p) /\ i + 1 # 1 /\ Tail(p)[i] = p[i + 1] /\ (i + 1) - 1 = i
    BY <1>2
  <2>2. i # 1 => i - 1 \in 1..Len(p) - 1 /\ (i - 1) + 1 = i
    BY <1>2
  <2>3. QED BY <1>2, <2>1, <2>2
<1>4. StatusIsLast(a)'
  <2> SUFFICES ASSUME NEW i \in 1..Len(Tail(p)), Tail(p)[i].kind = "status"
               PROVE  /\ reader' = "done"
                      /\ IF i = 1 THEN seen'[a] \in {Unset, read'}
                                  ELSE EndOf(Tail(p)[i - 1]) = read'
    BY <1>1 DEF StatusIsLast
  <2>1. i + 1 \in 1..Len(p) /\ i + 1 # 1 /\ p[i + 1].kind = "status"
    BY <1>3
  <2>2. reader = "done" /\ EndOf(p[(i + 1) - 1]) = read
    BY <2>1 DEF StatusIsLast, p
  <2>3. QED BY <1>1, <1>3, <2>2
<1>5. OnlyProduced(a)'
  BY <1>1, <1>3 DEF OnlyProduced, p
<1>6. QED BY <1>4, <1>5

LEMMA FirstOnItsWay ==
  ASSUME TypeOK, NEW a \in Attach, chan[a] # <<>>
  PROVE  /\ Pipeline(a) # <<>> /\ Pipeline(a)[1] = Head(chan[a])
         /\ 1 \in 1..Len(Pipeline(a))
<1>1. chan[a] \in Seq(Msg) /\ Head(chan[a]) = chan[a][1]
  BY HeadTail DEF TypeOK
<1>2. Pipeline(a) \in Seq(Msg) /\ Pipeline(a) # <<>> /\ Pipeline(a)[1] = Head(chan[a])
  <2>1. CASE hand.to # a
    BY <1>1, <2>1, PipelineIs
  <2>2. CASE hand.to = a
    BY <1>1, <2>2, PipelineIs, ChainedAppend
  <2>3. QED BY <2>1, <2>2
<1>3. QED BY <1>2, HeadTail

LEMMA FirstStatus ==
  ASSUME TypeOK, NEW a \in Attach, StatusIsLast(a),
         chan[a] # <<>>, Head(chan[a]).kind = "status"
  PROVE  reader = "done" /\ seen[a] \in {Unset, read}
  BY FirstOnItsWay DEF StatusIsLast

\* A replay and a live chunk end with the newest byte.
LEMMA SubscribeEndsAtTotal ==
  ASSUME TypeOK, RingIsTail, TakeSubscribe, hand' # hand
  PROVE  EndOf(hand'.msg) = total'
<1> USE DEF readerVars, stateVars, taskVars, clientVars
<1> DEFINE from == Head(ctrl).from
<1>1. from \in Nat
  <2>1. Head(ctrl) \in Ctrl
    BY HeadTail DEF TakeSubscribe, TypeOK
  <2>2. QED BY <2>1 DEF Ctrl, Unsubscribe
<1>2. /\ Replay(from) # <<>> /\ total' = total
      /\ hand'.msg = OutMsg(ReplayStart(from), Replay(from))
  BY DEF TakeSubscribe, Hold
<1>3. /\ ReplayStart(from) \in Nat /\ ReplayStart(from) >= ringStart
      /\ Replay(from) \in Bytes
      /\ Len(Replay(from)) =
           IF ReplayStart(from) < ringStart + Len(ring)
           THEN ringStart + Len(ring) - ReplayStart(from) ELSE 0
  BY <1>1, ReplayTyped
<1> HIDE DEF from
<1>4. Len(Replay(from)) # 0
  BY <1>2, <1>3, EmptySeq DEF Bytes
<1>5. ringStart + Len(ring) = total /\ Len(ring) \in Nat /\ ringStart \in Nat
  BY LenProperties DEF RingIsTail, TypeOK, Bytes
<1>6. ReplayStart(from) + Len(Replay(from)) = total
  BY <1>3, <1>4, <1>5
<1>7. QED BY <1>2, <1>6 DEF EndOf, OutMsg

LEMMA DataEndsAtTotal ==
  ASSUME TypeOK, TaskShape, TakeData, hand' # hand
  PROVE  EndOf(hand'.msg) = total'
<1> USE DEF readerVars, stateVars, taskVars, clientVars
<1> DEFINE bytes == Head(feed).bytes
<1>1. hand'.msg = OutMsg(LiveFrom(bytes), bytes) /\ total' = total + Len(bytes)
  BY DEF TakeData, Hold, Push
<1>2. bytes \in Bytes
  BY HeadTail, ItemBytes DEF TakeData, TaskShape, TypeOK
<1>3. Len(bytes) \in Nat /\ total \in Nat
  BY <1>2, LenProperties DEF TypeOK, Bytes
<1> HIDE DEF bytes
<1>4. QED BY <1>1, <1>3 DEF EndOf, OutMsg, LiveFrom

PromiseTo(a) == /\ rx[a] = "open" => StatusIsLast(a) /\ OnlyProduced(a)
                /\ rx[a] = "exited" => reader = "done"

LEMMA PromiseStep ==
  ASSUME TypeOK, TypeOK', TaskShape, RingInv, GaplessInv, PromiseInv, Next,
         total' <= read', NEW a \in Attach
  PROVE  PromiseTo(a)'
<1> USE DEF readerVars, stateVars, taskVars, clientVars
<1>1. PromiseTo(a) /\ EofIsLast /\ StreamInv(a) /\ RingIsTail /\ total <= read
  BY DEF PromiseInv, PromiseTo, GaplessInv, RingInv
<1>2. reader = "done" => reader' = "done" /\ read' = read
  BY <1>1, EofStep
<1>3. Forth
  <2>1. read' >= read
    <3>1. read \in Nat /\ read' \in Nat
      BY ConstantsAssumption DEF TypeOK
    <3>2. read' = read \/ ReaderRead
      BY DEF Next, ChildCloses, ChildExits, ReaderRuns, ReaderSend, ReaderEof,
         ReaderWaited, ReaderSendEof, StreamTask, TaskRuns, TakeSubscribe, TakeUnsubscribe,
         PollFeed, CtrlEnds, TakeData, TakeEof, SendDone, AbortTakesEffect, SubscribeCall,
         UnsubscribeCall, KillCall, KillSession, Sweep, SweepExited, SweepAbandoned,
         Replaced, DetachExpires, Client, Receive, StreamEnds, LinkLost
    <3>3. ReaderRead => \E n \in 1..READ_MAX : read' = read + n
      BY DEF ReaderRead
    <3>4. QED BY <3>1, <3>2, <3>3
  <2>2. QED BY <1>2, <2>1 DEF Forth
<1>4. ASSUME rx'[a] = rx[a], seen'[a] = seen[a],
             hand' = hand \/ hand'.to # a,
             \/ chan'[a] = chan[a]
             \/ hand.to = a /\ hand'.to # a /\ chan'[a] = Append(chan[a], hand.msg)
      PROVE  PromiseTo(a)'
  <2>1. \A i \in 1..Len(Pipeline(a)') :
           i \in 1..Len(Pipeline(a)) /\ Pipeline(a)'[i] = Pipeline(a)[i]
    BY <1>4, PipelineCut
  <2>2. StatusIsLast(a) /\ OnlyProduced(a) => StatusIsLast(a)' /\ OnlyProduced(a)'
    BY <1>3, <1>4, <2>1, PromiseOfPrefix
  <2>3. QED BY <1>1, <1>2, <1>4, <2>2 DEF PromiseTo
<1>5. ASSUME rx'[a] = rx[a], seen'[a] = seen[a], chan'[a] = chan[a],
             hand.to # a, hand'.to = a,
             hand'.msg.kind = "out" => EndOf(hand'.msg) <= read',
             rx[a] = "open" /\ hand'.msg.kind = "status" =>
               /\ reader' = "done"
               /\ IF Pipeline(a) = <<>>
                  THEN seen[a] \in {Unset, read'}
                  ELSE EndOf(Pipeline(a)[Len(Pipeline(a))]) = read'
      PROVE  PromiseTo(a)'
  <2>1. CASE rx[a] = "open"
    <3>1. StatusIsLast(a) /\ OnlyProduced(a)
      BY <1>1, <2>1 DEF PromiseTo
    <3>2. StatusIsLast(a)' /\ OnlyProduced(a)'
      BY <1>3, <1>5, <2>1, <3>1, PromiseOfMessage
    <3>3. QED BY <1>5, <2>1, <3>2 DEF PromiseTo
  <2>2. CASE rx[a] # "open"
    BY <1>1, <1>2, <1>5, <2>2 DEF PromiseTo
  <2>3. QED BY <2>1, <2>2
<1>6. CASE TakeSubscribe \/ TakeUnsubscribe \/ TakeData \/ TakeEof \/ CtrlEnds
  <2>1. UNCHANGED <<rx, seen, chan>> /\ hand.to # a
    BY <1>6, NoHandIsForNobody DEF TakeSubscribe, TakeUnsubscribe, TakeData, TakeEof, CtrlEnds
  <2>2. CASE hand'.to # a
    BY <1>4, <2>1, <2>2
  <2>3. CASE hand'.to = a
    <3>1. NoHand.to # a
      BY ConstantsAssumption DEF NoHand
    <3>2. CASE TakeSubscribe \/ TakeData
      <4>1. hand' # hand
        BY <2>1, <2>3
      <4>2. hand'.msg.kind = "out"
        BY <3>2, <4>1 DEF TakeSubscribe, TakeData, Hold, OutMsg
      <4>3. EndOf(hand'.msg) = total'
        <5>1. CASE TakeSubscribe
          <6>1. RingIsTail
            BY <1>1
          <6>2. QED BY <2>1, <2>3, <4>1, <5>1, <6>1, SubscribeEndsAtTotal
        <5>2. CASE TakeData
          BY <2>1, <2>3, <4>1, <5>2, DataEndsAtTotal
        <5>3. QED BY <3>2, <5>1, <5>2
      <4>4. QED BY <1>5, <2>1, <2>3, <4>2, <4>3
    <3>3. CASE TakeEof
      <4>1. /\ hand' = [to |-> sub, why |-> "exit", msg |-> ExitMsg("status")]
            /\ sub = a
        BY <2>1, <2>3, <3>3 DEF TakeEof, Hold
      <4>2. hand'.msg.kind = "status"
        BY <4>1 DEF ExitMsg
      <4>3. reader' = "done" /\ total = read /\ read' = read
        BY <1>1, <3>3, EofEndsAll DEF TakeEof
      <4>4. rx[a] = "open" => UpToDate(a)
        BY <1>1 DEF StreamInv
      <4>5. rx[a] = "open" =>
              IF Pipeline(a) = <<>>
              THEN seen[a] \in {Unset, read'}
              ELSE EndOf(Pipeline(a)[Len(Pipeline(a))]) = read'
        BY <4>1, <4>3, <4>4 DEF UpToDate
      <4>6. QED BY <1>5, <2>1, <2>3, <4>2, <4>3, <4>5
    <3>4. CASE TakeUnsubscribe
      BY <2>1, <2>3, <3>4 DEF TakeUnsubscribe
    <3>5. CASE CtrlEnds
      <4>1. hand'.msg.kind = "unknown"
        BY <2>1, <2>3, <3>1, <3>5 DEF CtrlEnds, LoopEnds, TaskGone, Hold, ExitMsg
      <4>2. QED BY <1>5, <2>1, <2>3, <4>1
    <3>6. QED BY <1>6, <3>2, <3>3, <3>4, <3>5
  <2>4. QED BY <2>2, <2>3
<1>7. CASE SendDone
  <2>1. UNCHANGED <<rx, seen>> /\ hand'.to # a
    BY <1>7, ConstantsAssumption DEF SendDone, TaskGone, NoHand
  <2>2. \/ chan'[a] = chan[a]
        \/ hand.to = a /\ chan'[a] = Append(chan[a], hand.msg)
    BY <1>7 DEF SendDone, TypeOK
  <2>3. QED BY <1>4, <2>1, <2>2
<1>8. CASE AbortTakesEffect \/ KillSession \/ Sweep
  <2>1. UNCHANGED <<rx, seen, chan>> /\ (hand' = hand \/ hand' = NoHand)
    BY <1>8 DEF AbortTakesEffect, KillSession, Sweep, SweepExited, SweepAbandoned, Abort,
                TaskGone
  <2>2. NoHand.to # a
    BY ConstantsAssumption DEF NoHand
  <2>3. QED BY <1>4, <2>1, <2>2
<1>9. CASE \E b \in Attach, asked \in Asked : SubscribeCall(b, asked)
  <2>1. PICK b \in Attach, asked \in Asked : SubscribeCall(b, asked)
    BY <1>9
  <2>2. /\ UNCHANGED <<hand, chan, seen>> /\ rx[b] = "unused"
        /\ rx' = [rx EXCEPT ![b] = "open"]
    BY <2>1 DEF SubscribeCall
  <2>3. CASE a # b
    BY <1>4, <2>2, <2>3 DEF TypeOK
  <2>4. CASE a = b
    <3>1. Pipeline(a)' = <<>>
      BY <1>1, <2>2, <2>4, PipelineIsNext DEF StreamInv, NotBegun
    <3>2. rx'[a] = "open"
      BY <2>2, <2>4 DEF TypeOK
    <3>3. QED BY <3>1, <3>2, EmptySeq DEF PromiseTo, StatusIsLast, OnlyProduced
  <2>5. QED BY <2>3, <2>4
<1>10. CASE \E b \in Attach : Client(b)
  <2>1. PICK b \in Attach : Client(b)
    BY <1>10
  <2>2. /\ UNCHANGED <<reader, read, hand>>
        /\ Receive(b) => chan[b] # <<>> /\ rx[b] = "open" /\ Head(chan[b]) \in Msg
    BY <2>1, HeadTail DEF Client, Receive, StreamEnds, LinkLost, TypeOK
  <2>3. CASE a # b
    <3>1. rx'[a] = rx[a] /\ seen'[a] = seen[a] /\ chan'[a] = chan[a]
      BY <2>1, <2>2, <2>3 DEF Client, Receive, StreamEnds, LinkLost, Close, TypeOK, Msg
    <3>2. QED BY <1>4, <2>2, <3>1
  <2>4. CASE a = b /\ Receive(a)
    <3>1. PromiseTo(a) /\ rx[a] = "open" /\ StatusIsLast(a) /\ OnlyProduced(a)
      BY <1>1, <2>2, <2>4 DEF PromiseTo
    <3>2. CASE Head(chan[a]).kind = "out"
      <4>1. /\ seen'[a] = EndOf(Head(chan[a])) /\ chan'[a] = Tail(chan[a])
            /\ rx' = rx
        BY <2>4, <3>2 DEF Receive, TypeOK, EndOf
      <4>2. QED BY <2>2, <2>4, <3>1, <4>1, PromiseOfReceive DEF PromiseTo
    <3>3. CASE Head(chan[a]).kind = "status"
      <4>1. reader = "done"
        BY <2>2, <2>4, <3>1, <3>3, FirstStatus
      <4>2. rx'[a] = "exited"
        BY <2>4, <3>3 DEF Receive, Close, TypeOK
      <4>3. QED BY <2>2, <4>1, <4>2 DEF PromiseTo
    <3>4. CASE Head(chan[a]).kind = "unknown"
      <4>1. rx'[a] = "told"
        BY <2>4, <3>4 DEF Receive, Close, TypeOK
      <4>2. QED BY <4>1 DEF PromiseTo
    <3>5. QED BY <2>2, <2>4, <3>2, <3>3, <3>4 DEF Msg
  <2>5. CASE a = b /\ ~Receive(a)
    <3>1. rx'[a] \in {"ended", "lost"}
      BY <2>1, <2>5 DEF Client, StreamEnds, LinkLost, Close, TypeOK
    <3>2. QED BY <3>1 DEF PromiseTo
  <2>6. QED BY <2>3, <2>4, <2>5
<1>11. CASE \/ ChildCloses \/ ChildExits \/ ReaderRead \/ ReaderRuns \/ PollFeed
            \/ UnsubscribeCall \/ KillCall \/ Replaced \/ DetachExpires
  <2>1. UNCHANGED <<hand, chan, rx, seen>>
    BY <1>11 DEF ChildCloses, ChildExits, ReaderRead, ReaderRuns, ReaderSend, ReaderEof,
       ReaderWaited, ReaderSendEof, PollFeed, UnsubscribeCall, KillCall, Replaced, DetachExpires
  <2>2. QED BY <1>4, <2>1
<1>12. QED BY <1>6, <1>7, <1>8, <1>9, <1>10, <1>11 DEF Next, StreamTask, TaskRuns

LEMMA PromiseInvariant == Spec => []PromiseInv
<1>1. Init => PromiseInv
  <2> SUFFICES ASSUME Init PROVE PromiseInv
    OBVIOUS
  <2>1. EofIsLast
    BY EmptySeq DEF Init, EofIsLast
  <2>2. \A a \in Attach : rx[a] = "unused"
    BY DEF Init
  <2>3. QED BY <2>1, <2>2 DEF Init, PromiseInv
<1>2. /\ TypeOK /\ TaskShape /\ RingInv /\ GaplessInv /\ PromiseInv
      /\ [Next]_vars /\ TypeOK'
      => PromiseInv'
  <2> SUFFICES ASSUME TypeOK, TypeOK', TaskShape, RingInv, GaplessInv, PromiseInv,
                      [Next]_vars
               PROVE  PromiseInv'
    OBVIOUS
  <2>1. CASE Next
    <3>1. EofIsLast' /\ (reader = "done" => reader' = "done" /\ read' = read)
      BY <2>1, EofStep DEF PromiseInv
    <3>2. total' <= read'
      <4>1. total' = total \/ TakeData
        BY <2>1 DEF Next, ChildCloses, ChildExits, ReaderRead, ReaderRuns, ReaderSend,
           ReaderEof, ReaderWaited, ReaderSendEof, StreamTask, TaskRuns, TakeSubscribe,
           TakeUnsubscribe, PollFeed, CtrlEnds, TakeEof, SendDone, AbortTakesEffect,
           SubscribeCall, UnsubscribeCall, KillCall, KillSession, Sweep, SweepExited,
           SweepAbandoned, Replaced, DetachExpires, Client, Receive, StreamEnds,
           LinkLost, stateVars
      <4>2. CASE TakeData
        BY <4>2, TotalIsProduced DEF PromiseInv, GaplessInv
      <4>3. CASE total' = total
        <5>1. read' = read \/ \E n \in 1..READ_MAX : read' = read + n
          BY <2>1 DEF Next, ChildCloses, ChildExits, ReaderRead, ReaderRuns, ReaderSend,
             ReaderEof, ReaderWaited, ReaderSendEof, StreamTask, TaskRuns, TakeSubscribe,
             TakeUnsubscribe, PollFeed, CtrlEnds, TakeData, TakeEof, SendDone,
             AbortTakesEffect, SubscribeCall, UnsubscribeCall, KillCall, KillSession,
             Sweep, SweepExited, SweepAbandoned, Replaced, DetachExpires, Client,
             Receive, StreamEnds, LinkLost, readerVars
        <5>2. total <= read /\ total \in Nat /\ read \in Nat /\ READ_MAX \in Nat
          BY ConstantsAssumption DEF PromiseInv, TypeOK
        <5>3. QED BY <4>3, <5>1, <5>2
      <4>4. QED BY <4>1, <4>2, <4>3
    <3>3. \A a \in Attach : PromiseTo(a)'
      BY <2>1, <3>2, PromiseStep
    <3>4. QED BY <3>1, <3>2, <3>3 DEF PromiseInv, PromiseTo
  <2>2. CASE UNCHANGED vars
    BY <2>2 DEF vars, readerVars, stateVars, taskVars, clientVars, PromiseInv, EofIsLast,
       StatusIsLast, OnlyProduced, Pipeline
  <2>3. QED BY <2>1, <2>2
<1>3. Spec => [](TypeOK /\ TaskShape) /\ []RingInv /\ []GaplessInv
  BY TypeCorrect, RingInvariant, GaplessInvariant
<1>4. QED BY <1>1, <1>2, <1>3, PTL DEF Spec

\* One step of the session is at most one step of a's stream.
LEMMA StreamRefines ==
  ASSUME TypeOK, TypeOK', GaplessInv, PromiseInv, [Next]_vars, NEW a \in Attach
  PROVE  [StreamOf(a)!Next]_(StreamOf(a)!vars)
<1> USE DEF readerVars, stateVars, taskVars, clientVars
<1>1. ASSUME UNCHANGED <<read, seen, got, rx>>
      PROVE  [StreamOf(a)!Next]_(StreamOf(a)!vars)
  BY <1>1 DEF StreamOf!vars
<1>2. CASE ReaderRead
  <2>1. UNCHANGED <<seen, got, rx>> /\ reader = "read"
    BY <1>2 DEF ReaderRead
  <2>2. rx[a] # "exited"
    BY <2>1 DEF PromiseInv
  <2>3. read' \in Nat /\ read' > read
    <3>1. read \in Nat /\ read' \in Nat /\ READ_MAX \in Nat
      BY ConstantsAssumption DEF TypeOK
    <3>2. \E n \in 1..READ_MAX : read' = read + n
      BY <1>2 DEF ReaderRead
    <3>3. QED BY <3>1, <3>2
  <2>4. StreamOf(a)!Produce
    BY <2>1, <2>2, <2>3 DEF StreamOf!Produce
  <2>5. QED BY <2>4 DEF StreamOf!Next
<1>3. ASSUME NEW b \in Attach, NEW asked \in Asked, SubscribeCall(b, asked)
      PROVE  [StreamOf(a)!Next]_(StreamOf(a)!vars)
  <2>1. UNCHANGED <<read, seen, got>> /\ rx[b] = "unused"
        /\ rx' = [rx EXCEPT ![b] = "open"]
    BY <1>3 DEF SubscribeCall
  <2>2. CASE a = b
    <3>1. StreamOf(a)!Open
      BY <2>1, <2>2 DEF StreamOf!Open, TypeOK
    <3>2. QED BY <3>1 DEF StreamOf!Next
  <2>3. CASE a # b
    BY <2>1, <2>3 DEF StreamOf!vars, TypeOK
  <2>4. QED BY <2>2, <2>3
<1>4. ASSUME NEW b \in Attach, Client(b)
      PROVE  [StreamOf(a)!Next]_(StreamOf(a)!vars)
  <2>1. /\ read' = read /\ rx[b] = "open"
        /\ Receive(b) => chan[b] # <<>> /\ Head(chan[b]) \in Msg
    BY <1>4, HeadTail DEF Client, Receive, StreamEnds, LinkLost, TypeOK
  <2>2. CASE a # b
    <3>1. rx'[a] = rx[a] /\ seen'[a] = seen[a] /\ got'[a] = got[a]
      BY <1>4, <2>1, <2>2 DEF Client, Receive, StreamEnds, LinkLost, Close, TypeOK, Msg
    <3>2. QED BY <2>1, <3>1 DEF StreamOf!vars
  <2>3. CASE a = b /\ Receive(a) /\ Head(chan[a]).kind = "out"
    <3> DEFINE m == Head(chan[a])
               n == Len(m.data)
    <3>1. /\ seen'[a] = m.from + n /\ got'[a] = got[a] + n /\ rx' = rx
      BY <2>3 DEF Receive, TypeOK
    <3>2. /\ Pipeline(a) # <<>> /\ Pipeline(a)[1] = m
          /\ 1 \in 1..Len(Pipeline(a))
      BY <2>1, <2>3, FirstOnItsWay
    <3>3. Continues(a) /\ OnlyProduced(a)
      BY <2>1, <2>3 DEF GaplessInv, StreamInv, PromiseInv
    <3>4. /\ m.from \in Nat /\ n \in Nat \ {0} /\ read \in Nat
          /\ m.from + n <= read
          /\ seen[a] # Unset => m.from = seen[a]
      <4>1. m.data # <<>> /\ m.data \in Seq(Nat) /\ m.from \in Nat
        BY <2>1, <2>3, <3>2, <3>3 DEF Continues, Chained, Msg, Bytes
      <4>2. n \in Nat \ {0}
        BY <4>1, EmptySeq, LenProperties
      <4>3. m.from + n <= read
        BY <2>3, <3>2, <3>3 DEF OnlyProduced, EndOf
      <4>4. seen[a] # Unset => m.from = seen[a]
        BY <2>3, <3>2, <3>3 DEF Continues
      <4>5. read \in Nat
        BY ConstantsAssumption DEF TypeOK
      <4>6. QED BY <4>1, <4>2, <4>3, <4>4, <4>5
    <3> HIDE DEF m, n
    <3>5. n \in 1..read /\ seen'[a] \in n..read
      BY <3>1, <3>4
    <3>6. seen[a] # -1 => seen'[a] = seen[a] + n
      BY <3>1, <3>4 DEF Unset
    <3>7. StreamOf(a)!Deliver
      BY <2>1, <2>3, <3>1, <3>5, <3>6 DEF StreamOf!Deliver, StreamOf!Unset
    <3>8. QED BY <3>7 DEF StreamOf!Next
  <2>4. CASE a = b /\ Receive(a) /\ Head(chan[a]).kind = "status"
    <3>1. seen[a] \in {Unset, read}
      BY <2>1, <2>4, FirstStatus DEF PromiseInv
    <3>2. rx'[a] = "exited" /\ UNCHANGED <<seen, got>>
      BY <2>4 DEF Receive, Close, TypeOK
    <3>3. StreamOf(a)!ExitStatus
      BY <2>1, <2>4, <3>1, <3>2 DEF StreamOf!ExitStatus, StreamOf!Unset, Unset
    <3>4. QED BY <3>3 DEF StreamOf!Next
  <2>5. CASE a = b /\ ~(Receive(a) /\ Head(chan[a]).kind \in {"out", "status"})
    <3>1. UNCHANGED <<seen, got>> /\ rx'[a] \in {"told", "ended", "lost"}
      BY <1>4, <2>1, <2>5 DEF Client, Receive, StreamEnds, LinkLost, Close, TypeOK, Msg
    <3>2. StreamOf(a)!Stop
      BY <2>1, <2>5, <3>1 DEF StreamOf!Stop
    <3>3. QED BY <3>2 DEF StreamOf!Next
  <2>6. QED BY <2>2, <2>3, <2>4, <2>5
<1>5. CASE StreamTask \/ ReaderRuns
  <2>1. UNCHANGED <<read, seen, got, rx>>
    BY <1>5 DEF StreamTask, TaskRuns, TakeSubscribe, TakeUnsubscribe, PollFeed, CtrlEnds,
       TakeData, TakeEof, SendDone, AbortTakesEffect, ReaderRuns, ReaderSend, ReaderEof,
       ReaderWaited, ReaderSendEof
  <2>2. QED BY <1>1, <2>1
<1>6. CASE \/ ChildCloses \/ ChildExits \/ UnsubscribeCall \/ KillCall \/ KillSession
           \/ Sweep \/ Replaced \/ DetachExpires \/ UNCHANGED vars
  <2>1. UNCHANGED <<read, seen, got, rx>>
    BY <1>6 DEF ChildCloses, ChildExits, UnsubscribeCall, KillCall, KillSession, Sweep,
       SweepExited, SweepAbandoned, Replaced, DetachExpires, vars
  <2>2. QED BY <1>1, <2>1
<1>7. QED BY <1>2, <1>3, <1>4, <1>5, <1>6 DEF Next

\* A session implements TerminalStream for each of its attaches: the client gets
\* a run of the bytes the shell produced, each of them once and in order, none
\* that was not produced, and an exit status comes after the last byte of all
\* ("so the client never sees exit overtake output", SubMsg::Exit).
THEOREM StreamKeepsPromise == Spec => KeepsPromise
<1>1. Init => \A a \in Attach : StreamOf(a)!Init
  BY DEF Init, StreamOf!Init, StreamOf!Unset, Unset
<1>2. /\ TypeOK /\ GaplessInv /\ PromiseInv /\ [Next]_vars /\ TypeOK'
      => [\A a \in Attach : [StreamOf(a)!Next]_(StreamOf(a)!vars)]_vars
  BY StreamRefines
<1>3. Spec => [](TypeOK /\ TaskShape) /\ []GaplessInv /\ []PromiseInv
  BY TypeCorrect, GaplessInvariant, PromiseInvariant
<1>4. QED BY <1>1, <1>2, <1>3, PTL DEF Spec, KeepsPromise

-----------------------------------------------------------------------------
(* The contract with the connections, SessionControl.  The calls that are   *)
(* not taken yet are those in ctrl, and the attach whose replay is sent.    *)

Calls(c) == [i \in 1..Len(c) |-> c[i].tx]
Replaying == IF hand.why = "replay" THEN <<hand.to>> ELSE <<>>

\* The task is only told to stop, and only says goodbye to its subscriber, when
\* the session is over.
ContractInv == /\ aborted => session \in Over
               /\ hand.why = "last" => session \in Over

LEMMA CallsTyped ==
  ASSUME NEW c \in Seq(Ctrl)
  PROVE  /\ Calls(c) \in Seq(Attach \cup {NoSub}) /\ Len(Calls(c)) = Len(c)
         /\ \A i \in 1..Len(c) : Calls(c)[i] = c[i].tx
<1>1. Len(c) \in Nat /\ \A i \in 1..Len(c) : c[i] \in Ctrl
  BY LenProperties, ElementOfSeq
<1>2. \A x \in Ctrl : x.tx \in Attach \cup {NoSub}
  BY DEF Ctrl, Unsubscribe
<1>3. QED BY <1>1, <1>2, SeqDef DEF Calls

\* A sequence is its head, then its tail.
LEMMA HeadThenTail ==
  ASSUME NEW S, NEW s \in Seq(S), s # <<>>
  PROVE  <<Head(s)>> \o Tail(s) = s
<1> DEFINE h == <<Head(s)>>
           u == h \o Tail(s)
<1>1. /\ Head(s) \in S /\ Head(s) = s[1] /\ Tail(s) \in Seq(S)
      /\ Len(s) \in Nat \ {0} /\ Len(Tail(s)) = Len(s) - 1
      /\ \A i \in 1..Len(s) - 1 : Tail(s)[i] = s[i + 1]
  BY HeadTail
<1>2. h \in Seq(S) /\ Len(h) = 1 /\ h[1] = s[1]
  BY <1>1
<1> HIDE DEF h
<1>3. /\ u \in Seq(S) /\ Len(u) = Len(s)
      /\ \A i \in 1..Len(s) : u[i] = IF i <= 1 THEN h[i] ELSE Tail(s)[i - 1]
  <2>1. /\ u \in Seq(S) /\ Len(u) = Len(h) + Len(Tail(s))
        /\ \A i \in 1..Len(h) + Len(Tail(s)) :
             u[i] = IF i <= Len(h) THEN h[i] ELSE Tail(s)[i - Len(h)]
    BY <1>1, <1>2, ConcatProperties
  <2>2. Len(h) + Len(Tail(s)) = Len(s)
    BY <1>1, <1>2
  <2>3. QED BY <1>2, <2>1, <2>2
<1> HIDE DEF u
<1>4. \A i \in 1..Len(s) : u[i] = s[i]
  <2> SUFFICES ASSUME NEW i \in 1..Len(s) PROVE u[i] = s[i]
    OBVIOUS
  <2>1. CASE i = 1
    BY <1>2, <1>3, <2>1
  <2>2. CASE i # 1
    <3>1. ~(i <= 1) /\ i - 1 \in 1..Len(s) - 1 /\ (i - 1) + 1 = i
      BY <1>1, <2>2
    <3>2. QED BY <1>1, <1>3, <3>1
  <2>3. QED BY <2>1, <2>2
<1>5. QED BY <1>3, <1>4, SeqEqual DEF h, u

LEMMA ConsHeadTail ==
  ASSUME NEW S, NEW x \in S, NEW t \in Seq(S)
  PROVE  /\ <<x>> \o t # <<>> /\ Head(<<x>> \o t) = x /\ Tail(<<x>> \o t) = t
<1> DEFINE h == <<x>>
           u == h \o t
<1>1. h \in Seq(S) /\ Len(h) = 1 /\ h[1] = x
  OBVIOUS
<1> HIDE DEF h
<1>2. /\ u \in Seq(S) /\ Len(u) = Len(t) + 1 /\ Len(t) \in Nat
      /\ \A i \in 1..Len(t) + 1 : u[i] = IF i <= 1 THEN h[i] ELSE t[i - 1]
  <2>1. /\ u \in Seq(S) /\ Len(u) = Len(h) + Len(t) /\ Len(t) \in Nat
        /\ \A i \in 1..Len(h) + Len(t) :
             u[i] = IF i <= Len(h) THEN h[i] ELSE t[i - Len(h)]
    BY <1>1, ConcatProperties, LenProperties
  <2>2. Len(h) + Len(t) = Len(t) + 1
    BY <1>1, <2>1
  <2>3. QED BY <1>1, <2>1, <2>2
<1> HIDE DEF u
<1>3. u # <<>> /\ 1 \in 1..Len(t) + 1
  BY <1>2, EmptySeq
<1>4. /\ Head(u) = u[1] /\ Tail(u) \in Seq(S) /\ Len(Tail(u)) = Len(t)
      /\ \A i \in 1..Len(t) : Tail(u)[i] = u[i + 1]
  <2>1. /\ Head(u) = u[1] /\ Tail(u) \in Seq(S) /\ Len(Tail(u)) = Len(u) - 1
        /\ \A i \in 1..Len(u) - 1 : Tail(u)[i] = u[i + 1]
    BY <1>2, <1>3, HeadTail
  <2>2. Len(u) - 1 = Len(t)
    BY <1>2
  <2>3. QED BY <2>1, <2>2
<1>5. \A i \in 1..Len(t) : Tail(u)[i] = t[i]
  <2> SUFFICES ASSUME NEW i \in 1..Len(t) PROVE Tail(u)[i] = t[i]
    OBVIOUS
  <2>1. i + 1 \in 1..Len(t) + 1 /\ ~(i + 1 <= 1) /\ (i + 1) - 1 = i
    BY <1>2
  <2>2. QED BY <1>2, <1>4, <2>1
<1>6. Tail(u) = t
  BY <1>4, <1>5, SeqEqual
<1>7. Head(u) = x
  BY <1>1, <1>2, <1>3, <1>4
<1>8. QED BY <1>3, <1>6, <1>7 DEF h, u

LEMMA CallsTail ==
  ASSUME NEW c \in Seq(Ctrl), c # <<>>
  PROVE  /\ Head(c).tx \in Attach \cup {NoSub}
         /\ <<Head(c).tx>> \o Calls(Tail(c)) = Calls(c)
         /\ Calls(c) # <<>> /\ Head(Calls(c)) = Head(c).tx
         /\ Tail(Calls(c)) = Calls(Tail(c))
<1> DEFINE T == Attach \cup {NoSub}
           s == Calls(c)
           t == Calls(Tail(c))
<1>1. /\ Head(c) \in Ctrl /\ Head(c) = c[1] /\ Tail(c) \in Seq(Ctrl)
      /\ Len(c) \in Nat \ {0} /\ Len(Tail(c)) = Len(c) - 1
      /\ \A i \in 1..Len(c) - 1 : Tail(c)[i] = c[i + 1]
  BY HeadTail
<1>2. \A x \in Ctrl : x.tx \in T
  BY DEF Ctrl, Unsubscribe
<1>3. /\ s \in Seq(T) /\ Len(s) = Len(c)
      /\ \A i \in 1..Len(c) : s[i] = c[i].tx
  BY <1>1, <1>2, CallsTyped
<1>4. /\ t \in Seq(T) /\ Len(t) = Len(c) - 1
      /\ \A i \in 1..Len(c) - 1 : t[i] = c[i + 1].tx
  <2>1. /\ t \in Seq(T) /\ Len(t) = Len(Tail(c))
        /\ \A i \in 1..Len(Tail(c)) : t[i] = Tail(c)[i].tx
    BY <1>1, CallsTyped
  <2>2. QED BY <1>1, <2>1
<1> HIDE DEF s, t, T
<1>5. s # <<>> /\ Head(s) = Head(c).tx
  <2>1. s # <<>>
    BY <1>1, <1>3, EmptySeq
  <2>2. Head(s) = s[1] /\ s[1] = c[1].tx
    BY <1>1, <1>3, <2>1, HeadTail
  <2>3. QED BY <1>1, <2>1, <2>2
<1>6. Tail(s) = t
  <2>1. /\ Tail(s) \in Seq(T) /\ Len(Tail(s)) = Len(c) - 1
        /\ \A i \in 1..Len(c) - 1 : Tail(s)[i] = s[i + 1]
    BY <1>3, <1>5, HeadTail
  <2>2. \A i \in 1..Len(c) - 1 : i + 1 \in 1..Len(c)
    BY <1>1
  <2>3. \A i \in 1..Len(c) - 1 : Tail(s)[i] = t[i]
    BY <1>3, <1>4, <2>1, <2>2
  <2>4. QED BY <1>4, <2>1, <2>3, SeqEqual
<1>7. <<Head(c).tx>> \o t = s
  BY <1>3, <1>5, <1>6, HeadThenTail
<1>8. Head(c).tx \in T
  BY <1>1, <1>2
<1>9. QED BY <1>5, <1>6, <1>7, <1>8 DEF s, t, T

LEMMA CallsAppend ==
  ASSUME NEW c \in Seq(Ctrl), NEW x \in Ctrl, NEW pre \in Seq(Attach \cup {NoSub})
  PROVE  pre \o Calls(Append(c, x)) = Append(pre \o Calls(c), x.tx)
<1> DEFINE T == Attach \cup {NoSub}
           s == Calls(Append(c, x))
           t == Append(Calls(c), x.tx)
<1>1. /\ Append(c, x) \in Seq(Ctrl) /\ Len(c) \in Nat
      /\ Len(Append(c, x)) = Len(c) + 1
      /\ \A i \in 1..Len(c) : Append(c, x)[i] = c[i]
      /\ Append(c, x)[Len(c) + 1] = x
  BY AppendProperties, LenProperties
<1>2. x.tx \in T
  BY DEF Ctrl, Unsubscribe
<1>3. /\ Calls(c) \in Seq(T) /\ Len(Calls(c)) = Len(c)
      /\ \A i \in 1..Len(c) : Calls(c)[i] = c[i].tx
  BY CallsTyped
<1>4. /\ s \in Seq(T) /\ Len(s) = Len(c) + 1
      /\ \A i \in 1..Len(c) + 1 : s[i] = Append(c, x)[i].tx
  BY <1>1, CallsTyped
<1>5. /\ t \in Seq(T) /\ Len(t) = Len(c) + 1
      /\ \A i \in 1..Len(c) : t[i] = Calls(c)[i]
      /\ t[Len(c) + 1] = x.tx
  BY <1>2, <1>3, AppendProperties
<1> HIDE DEF s, t, T
<1>6. s = t
  <2>1. \A i \in 1..Len(c) + 1 : i \in 1..Len(c) \/ i = Len(c) + 1
    BY <1>1
  <2>2. \A i \in 1..Len(c) + 1 : s[i] = t[i]
    BY <1>1, <1>3, <1>4, <1>5, <2>1
  <2>3. QED BY <1>4, <1>5, <2>2, SeqEqual
<1>7. pre \o Append(Calls(c), x.tx) = Append(pre \o Calls(c), x.tx)
  <2>1. /\ <<x.tx>> \in Seq(T) /\ pre \in Seq(T) /\ pre \o Calls(c) \in Seq(T)
    BY <1>2, <1>3, ConcatProperties DEF T
  <2>2. /\ Append(Calls(c), x.tx) = Calls(c) \o <<x.tx>>
        /\ Append(pre \o Calls(c), x.tx) = (pre \o Calls(c)) \o <<x.tx>>
    BY <1>2, <1>3, <2>1, AppendIsConcat
  <2>3. QED BY <1>3, <2>1, <2>2, ConcatAssociative
<1>8. QED BY <1>6, <1>7 DEF s, t

\* The calls not taken yet, who they are from, and what the connections know.
CallsBar == Replaying \o Calls(ctrl)
StBar == IF session \in Over THEN "over" ELSE session
RxBar == [a \in Attach |-> IF rx[a] \in {"unused", "open"} THEN rx[a] ELSE "closed"]

LEMMA BarTyped ==
  ASSUME TypeOK
  PROVE  /\ Replaying \in Seq(Attach \cup {NoSub})
         /\ hand.why # "replay" => CallsBar = Calls(ctrl)
         /\ hand.why = "replay" => hand.to \in Attach /\ CallsBar = <<hand.to>> \o Calls(ctrl)
<1>1. CASE hand.why = "replay"
  <2>1. hand.to \in Attach
    BY <1>1 DEF TypeOK, NoHand
  <2>2. QED BY <1>1, <2>1 DEF Replaying, CallsBar
<1>2. CASE hand.why # "replay"
  <2>1. Replaying = <<>> /\ <<>> \in Seq(Attach \cup {NoSub})
    BY <1>2 DEF Replaying
  <2>2. <<>> \o Calls(ctrl) = Calls(ctrl)
    BY CallsTyped, ConcatEmptySeq DEF TypeOK
  <2>3. QED BY <1>2, <2>1, <2>2 DEF CallsBar
<1>3. QED BY <1>1, <1>2

LEMMA ContractInvStep ==
  ASSUME TypeOK, TaskShape, ContractInv, Next
  PROVE  ContractInv'
<1> USE DEF readerVars, stateVars, taskVars, clientVars
<1>1. NoHand.why # "last"
  BY DEF NoHand
<1>2. CASE TakeSubscribe \/ TakeData \/ TakeEof \/ CtrlEnds
  <2>1. session' = session /\ hand = NoHand /\ (aborted' = aborted \/ aborted' = FALSE)
    BY <1>2 DEF TakeSubscribe, TakeData, TakeEof, CtrlEnds, LoopEnds, TaskGone, TaskShape
  <2>2. hand'.why = "last" => session \in Over
    BY <1>1, <1>2, <2>1 DEF TakeSubscribe, TakeData, TakeEof, CtrlEnds, LoopEnds, TaskGone,
                            Hold
  <2>3. QED BY <2>1, <2>2 DEF ContractInv
<1>3. CASE SendDone \/ AbortTakesEffect
  BY <1>1, <1>3 DEF SendDone, AbortTakesEffect, TaskGone, ContractInv
<1>4. CASE KillSession \/ SweepExited
  <2>1. session' \in Over
    BY <1>4 DEF KillSession, SweepExited, Over
  <2>2. QED BY <2>1 DEF ContractInv
<1>5. CASE KillCall \/ SweepAbandoned \/ Replaced
  BY <1>5 DEF KillCall, SweepAbandoned, Replaced, ContractInv, Over
<1>6. CASE \/ ChildCloses \/ ChildExits \/ ReaderRead \/ ReaderRuns
           \/ TakeUnsubscribe \/ PollFeed \/ UnsubscribeCall \/ DetachExpires
           \/ \E a \in Attach, asked \in Asked : SubscribeCall(a, asked)
           \/ \E a \in Attach : Client(a)
  <2>1. UNCHANGED <<session, hand, aborted>>
    BY <1>6 DEF ChildCloses, ChildExits, ReaderRead, ReaderRuns, ReaderSend, ReaderEof,
       ReaderWaited, ReaderSendEof, TakeUnsubscribe, PollFeed, UnsubscribeCall,
       DetachExpires, SubscribeCall, Client, Receive, StreamEnds, LinkLost
  <2>2. QED BY <2>1 DEF ContractInv
<1>7. QED BY <1>2, <1>3, <1>4, <1>5, <1>6 DEF Next, StreamTask, TaskRuns, Sweep

LEMMA ContractStep ==
  ASSUME TypeOK, TypeOK', TaskShape, GaplessInv, PromiseInv, ContractInv, [Next]_vars
  PROVE  [Control!Next]_(Control!vars)
<1> USE DEF readerVars, stateVars, taskVars, clientVars
<1> DEFINE Same == UNCHANGED <<sub, detachedAt, exited>> /\ StBar' = StBar /\ RxBar' = RxBar
           stutter == Same /\ CallsBar' = CallsBar
<1>1. ASSUME stutter PROVE [Control!Next]_(Control!vars)
  BY <1>1 DEF Control!vars, CallsBar, Replaying, Calls, StBar, RxBar
<1>2. ASSUME UNCHANGED <<session, ctrl, hand, sub, detachedAt, exited, rx>>
      PROVE  stutter
  BY <1>2 DEF CallsBar, Replaying, Calls, StBar, RxBar
<1>3. TaskGone => CallsBar' = <<>> /\ sub' = NoSub
  <2> SUFFICES ASSUME TaskGone PROVE CallsBar' = <<>> /\ sub' = NoSub
    OBVIOUS
  <2>1. Replaying' = <<>> /\ Calls(ctrl)' = <<>>
    BY DEF TaskGone, Replaying, NoHand, Calls
  <2>2. QED BY <2>1, ConcatEmptySeq DEF TaskGone, CallsBar
<1>4. CASE TakeSubscribe
  <2> DEFINE b == Head(ctrl).tx
  <2>1. /\ ctrl # <<>> /\ ctrl \in Seq(Ctrl) /\ ctrl' = Tail(ctrl)
        /\ UNCHANGED <<session, exited, rx>> /\ task = "ctrl" /\ hand = NoHand
    BY <1>4 DEF TakeSubscribe, TypeOK, TaskShape
  <2>2. b \in Attach
    <3>1. Head(ctrl) \in Ctrl /\ Head(ctrl).op = "subscribe"
      BY <1>4, <2>1, HeadTail DEF TakeSubscribe
    <3>2. QED BY <3>1 DEF Ctrl, Unsubscribe
  <2>3. CallsBar = Calls(ctrl)
    BY <2>1, BarTyped DEF NoHand
  <2>4. /\ <<b>> \o Calls(ctrl)' = Calls(ctrl)
        /\ Calls(ctrl) # <<>> /\ Head(Calls(ctrl)) = b
        /\ Tail(Calls(ctrl)) = Calls(ctrl)'
    BY <2>1, CallsTail
  <2>5. CASE hand'.why = "replay" /\ hand'.to = b /\ UNCHANGED <<sub, detachedAt>>
    <3>1. CallsBar' = CallsBar
      BY <2>3, <2>4, <2>5 DEF CallsBar, Replaying
    <3>2. QED BY <1>1, <2>1, <2>5, <3>1 DEF StBar, RxBar
  <2>6. CASE hand' = hand /\ sub' = b /\ detachedAt' = "none"
    <3>1. CallsBar' = Calls(ctrl)'
      <4>1. hand'.why # "replay"
        BY <2>1, <2>6 DEF NoHand
      <4>2. Replaying' = <<>>
        BY <4>1 DEF Replaying
      <4>3. <<>> \o Calls(ctrl)' = Calls(ctrl)'
        BY CallsTyped, ConcatEmptySeq, <2>1, HeadTail
      <4>4. QED BY <4>2, <4>3 DEF CallsBar
    <3>2. b # NoSub
      BY <2>2, ConstantsAssumption
    <3>3. Control!Take
      BY <2>1, <2>3, <2>4, <2>6, <3>1, <3>2
         DEF Control!Take, CallsBar, Replaying, Calls
    <3>4. QED BY <3>3 DEF Control!Next
  <2>7. QED BY <1>4, <2>5, <2>6 DEF TakeSubscribe, Hold
<1>5. CASE TakeUnsubscribe
  <2>1. /\ ctrl # <<>> /\ ctrl \in Seq(Ctrl) /\ ctrl' = Tail(ctrl)
        /\ UNCHANGED <<session, exited, rx, hand>> /\ task = "ctrl" /\ hand = NoHand
        /\ sub' = NoSub /\ detachedAt' = "recent"
    BY <1>5 DEF TakeUnsubscribe, TypeOK, TaskShape
  <2>2. Head(ctrl).tx = NoSub
    <3>1. Head(ctrl) \in Ctrl /\ Head(ctrl).op = "unsubscribe"
      BY <1>5, <2>1, HeadTail DEF TakeUnsubscribe
    <3>2. QED BY <3>1 DEF Ctrl, Unsubscribe
  <2>3. CallsBar = Calls(ctrl) /\ CallsBar' = Calls(ctrl)'
    <3>1. hand.why # "replay" /\ hand'.why # "replay"
      BY <2>1 DEF NoHand
    <3>2. <<>> \o Calls(ctrl) = Calls(ctrl) /\ <<>> \o Calls(ctrl') = Calls(ctrl')
      BY CallsTyped, ConcatEmptySeq, <2>1, HeadTail
    <3>3. QED BY <3>1, <3>2 DEF CallsBar, Replaying, Calls
  <2>4. /\ Calls(ctrl) # <<>> /\ Head(Calls(ctrl)) = NoSub
        /\ Tail(Calls(ctrl)) = Calls(ctrl)'
    BY <2>1, <2>2, CallsTail
  <2>5. Control!Take
    BY <2>1, <2>3, <2>4 DEF Control!Take, CallsBar, Replaying, Calls
  <2>6. QED BY <2>5 DEF Control!Next
<1>6. CASE SendDone
  <2>1. /\ UNCHANGED <<session, exited, rx>> /\ hand # NoHand
        /\ hand.to \in Attach /\ hand.why \in {"replay", "live", "exit", "last"}
    BY <1>6 DEF SendDone, TaskShape, TypeOK
  <2>2. rx[hand.to] # "unused"
    BY <2>1 DEF GaplessInv, StreamInv, NotBegun
  <2>3. CASE hand.why = "last"
    <3>1. TaskGone /\ UNCHANGED detachedAt /\ session \in Over
      BY <1>6, <2>3 DEF SendDone, ContractInv
    <3>2. Control!TaskEnds
      BY <1>3, <2>1, <3>1 DEF Control!TaskEnds, Control!Dropped, CallsBar, Replaying, Calls
    <3>3. QED BY <3>2 DEF Control!Next
  <2>4. CASE hand.why # "last"
    <3>1. /\ hand' = NoHand /\ ctrl' = ctrl
          /\ sub' = CASE hand.why = "replay" /\ rx[hand.to] = "open" -> hand.to
                      [] hand.why = "live" /\ rx[hand.to] # "open"   -> NoSub
                      [] OTHER                                       -> sub
          /\ detachedAt' = IF hand.why = "replay" /\ rx[hand.to] = "open"
                           THEN "none" ELSE detachedAt
      BY <1>6, <2>4 DEF SendDone
    <3>2. CallsBar' = Calls(ctrl)
      <4>1. Replaying' = <<>> /\ Calls(ctrl)' = Calls(ctrl)
        BY <3>1 DEF Replaying, NoHand, Calls
      <4>2. QED BY <4>1, CallsTyped, ConcatEmptySeq DEF CallsBar, TypeOK
    <3>3. CASE hand.why = "replay"
      <4>1. /\ CallsBar = <<hand.to>> \o Calls(ctrl)
            /\ CallsBar # <<>> /\ Head(CallsBar) = hand.to /\ Tail(CallsBar) = Calls(ctrl)
        <5>1. ctrl \in Seq(Ctrl)
          BY DEF TypeOK
        <5>2. CallsBar = <<hand.to>> \o Calls(ctrl)
          BY <3>3, BarTyped
        <5>3. Calls(ctrl) \in Seq(Attach \cup {NoSub})
          BY <5>1, CallsTyped
        <5>4. QED BY <2>1, <5>2, <5>3, ConsHeadTail
      <4>2. hand.to # NoSub
        BY <2>1, ConstantsAssumption
      <4>3. CASE rx[hand.to] = "open"
        <5>1. sub' = hand.to /\ detachedAt' = "none"
          BY <3>1, <3>3, <4>3
        <5>2. Control!Take
          BY <2>1, <3>2, <4>1, <4>2, <5>1 DEF Control!Take, CallsBar, Replaying, Calls
        <5>3. QED BY <5>2 DEF Control!Next
      <4>4. CASE rx[hand.to] # "open"
        <5>1. UNCHANGED <<sub, detachedAt>>
          BY <3>1, <3>3, <4>4
        <5>2. Control!Take
          BY <2>1, <2>2, <3>2, <4>1, <4>2, <4>4, <5>1
             DEF Control!Take, CallsBar, Replaying, Calls
        <5>3. QED BY <5>2 DEF Control!Next
      <4>5. QED BY <4>3, <4>4
    <3>4. CASE hand.why # "replay"
      <4>1. CallsBar' = CallsBar
        BY <3>2, <3>4, BarTyped
      <4>2. UNCHANGED detachedAt
        BY <3>1, <3>4
      <4>3. CASE hand.why = "live" /\ rx[hand.to] # "open"
        <5>1. sub = hand.to /\ sub' = NoSub
          BY <3>1, <3>4, <4>3 DEF GaplessInv, LiveIsForSub
        <5>2. Control!SendFails
          BY <2>1, <2>2, <4>1, <4>2, <4>3, <5>1, ConstantsAssumption
             DEF Control!SendFails, CallsBar, Replaying, Calls
        <5>3. QED BY <5>2 DEF Control!Next
      <4>4. CASE ~(hand.why = "live" /\ rx[hand.to] # "open")
        <5>1. sub' = sub
          BY <3>1, <3>4, <4>4
        <5>2. QED BY <1>1, <2>1, <4>1, <4>2, <5>1 DEF StBar, RxBar
      <4>5. QED BY <4>3, <4>4
    <3>5. QED BY <3>3, <3>4
  <2>5. QED BY <2>3, <2>4
<1>7. CASE TakeData \/ PollFeed
  <2>1. /\ UNCHANGED <<session, exited, rx, ctrl, sub, detachedAt>>
        /\ hand = NoHand /\ hand'.why # "replay"
    BY <1>7 DEF TakeData, PollFeed, TaskShape, Hold, NoHand
  <2>2. CallsBar' = CallsBar
    BY <2>1 DEF CallsBar, Replaying, Calls, NoHand
  <2>3. QED BY <1>1, <2>1, <2>2 DEF StBar, RxBar
<1>8. CASE TakeEof
  <2>1. /\ UNCHANGED <<session, rx, ctrl>> /\ feed # <<>>
        /\ hand = NoHand /\ hand'.why # "replay"
        /\ sub' = NoSub /\ exited' = TRUE /\ detachedAt' = "none"
    BY <1>8 DEF TakeEof, TaskShape, Hold, NoHand
  <2>2. ~exited
    BY <2>1 DEF PromiseInv, EofIsLast
  <2>3. CallsBar' = CallsBar
    BY <2>1 DEF CallsBar, Replaying, Calls, NoHand
  <2>4. Control!Exit
    BY <2>1, <2>2, <2>3 DEF Control!Exit, CallsBar, Replaying, Calls
  <2>5. QED BY <2>4 DEF Control!Next
<1>9. CASE CtrlEnds \/ AbortTakesEffect
  <2>1. /\ UNCHANGED <<session, rx, exited, detachedAt>> /\ session \in Over
        /\ sub' = NoSub
    BY <1>9 DEF CtrlEnds, AbortTakesEffect, LoopEnds, TaskGone, ContractInv
  <2>2. CallsBar' = <<>>
    <3>1. CASE TaskGone
      BY <1>3, <3>1
    <3>2. CASE CtrlEnds /\ ~TaskGone
      <4>1. ctrl' = <<>> /\ hand'.why = "last"
        BY <3>2 DEF CtrlEnds, LoopEnds, Hold
      <4>2. Replaying' = <<>> /\ Calls(ctrl)' = <<>>
        BY <4>1 DEF Replaying, Calls
      <4>3. QED BY <4>2, ConcatEmptySeq DEF CallsBar
    <3>3. QED BY <1>9, <3>1, <3>2 DEF AbortTakesEffect
  <2>3. Control!TaskEnds
    BY <2>1, <2>2 DEF Control!TaskEnds, Control!Dropped, CallsBar, Replaying, Calls
  <2>4. QED BY <2>3 DEF Control!Next
<1>10. CASE \E a \in Attach, asked \in Asked : SubscribeCall(a, asked)
  <2>1. PICK a \in Attach, asked \in Asked : SubscribeCall(a, asked)
    BY <1>10
  <2>2. /\ UNCHANGED <<session, exited, hand, sub, detachedAt>>
        /\ session = "live" /\ ~exited /\ rx[a] = "unused"
        /\ rx' = [rx EXCEPT ![a] = "open"]
    BY <2>1 DEF SubscribeCall
  <2>3. PICK c \in Ctrl : c.tx = a /\ ctrl' = Append(ctrl, c)
    <3> DEFINE from == IF asked = Unset THEN ringStart ELSE Larger(asked, ringStart)
    <3>1. Subscribe(a, from) \in Ctrl
      BY ConstantsAssumption DEF Subscribe, Ctrl, TypeOK, Unset, Larger
    <3>2. ctrl' = Append(ctrl, Subscribe(a, from)) /\ Subscribe(a, from).tx = a
      BY <2>1 DEF SubscribeCall, Subscribe
    <3>3. QED BY <3>1, <3>2
  <2>4. CallsBar' = Append(CallsBar, a)
    <3>1. Replaying' = Replaying /\ Replaying \in Seq(Attach \cup {NoSub})
      BY <2>2, BarTyped DEF Replaying
    <3>2. Replaying \o Calls(Append(ctrl, c)) = Append(Replaying \o Calls(ctrl), c.tx)
      BY <3>1, CallsAppend DEF TypeOK
    <3>3. QED BY <2>3, <3>1, <3>2 DEF CallsBar
  <2>5. RxBar[a] = "unused" /\ RxBar' = [RxBar EXCEPT ![a] = "open"]
    BY <2>2 DEF RxBar, TypeOK
  <2>6. Control!Subscribe(a)
    BY <2>2, <2>4, <2>5 DEF Control!Subscribe, CallsBar, Replaying, Calls, RxBar, Over
  <2>7. QED BY <2>6 DEF Control!Next
<1>11. CASE UnsubscribeCall
  <2>1. /\ UNCHANGED <<session, exited, hand, sub, detachedAt, rx>>
        /\ session = "live" /\ ctrl' = Append(ctrl, Unsubscribe)
    BY <1>11 DEF UnsubscribeCall
  <2>2. CallsBar' = Append(CallsBar, NoSub)
    <3>1. Replaying' = Replaying /\ Replaying \in Seq(Attach \cup {NoSub})
      BY <2>1, BarTyped DEF Replaying
    <3>2. Unsubscribe \in Ctrl /\ Unsubscribe.tx = NoSub
      BY DEF Unsubscribe, Ctrl
    <3>3. Replaying \o Calls(Append(ctrl, Unsubscribe))
            = Append(Replaying \o Calls(ctrl), Unsubscribe.tx)
      BY <3>1, <3>2, CallsAppend DEF TypeOK
    <3>4. QED BY <2>1, <3>1, <3>2, <3>3 DEF CallsBar
  <2>3. Control!Detach
    BY <2>1, <2>2 DEF Control!Detach, CallsBar, Replaying, Calls, Over
  <2>4. QED BY <2>3 DEF Control!Next
<1>12. CASE KillCall \/ SweepAbandoned
  <2>1. /\ UNCHANGED <<exited, hand, ctrl, sub, detachedAt, rx>>
        /\ session = "live" /\ session' = "killing"
    BY <1>12 DEF KillCall, SweepAbandoned
  <2>2. Control!Leave
    BY <2>1 DEF Control!Leave, Over
  <2>3. QED BY <2>2 DEF Control!Next
<1>13. CASE KillSession \/ SweepExited \/ Replaced
  <2>1. /\ UNCHANGED <<exited, detachedAt, rx>>
        /\ session \in {"live", "killing"} /\ session' \in Over
        /\ TaskGone \/ UNCHANGED <<hand, ctrl, sub>>
    BY <1>13 DEF KillSession, SweepExited, Replaced, Abort, Over
  <2>2. (CallsBar' = <<>> /\ sub' = NoSub) \/ (CallsBar' = CallsBar /\ sub' = sub)
    BY <1>3, <2>1 DEF CallsBar, Replaying, Calls
  <2>3. Control!End
    BY <2>1, <2>2 DEF Control!End, Control!Dropped, CallsBar, Replaying, Calls, Over
  <2>4. QED BY <2>3 DEF Control!Next
<1>14. CASE DetachExpires
  <2>1. Control!Expire
    BY <1>14 DEF DetachExpires, Control!Expire
  <2>2. QED BY <2>1 DEF Control!Next
<1>15. CASE \E a \in Attach : Client(a)
  <2>1. PICK a \in Attach : Client(a)
    BY <1>15
  <2>2. UNCHANGED <<session, ctrl, hand, sub, detachedAt, exited>> /\ rx[a] = "open"
    BY <2>1 DEF Client, Receive, StreamEnds, LinkLost
  <2>3. Receive(a) => Head(chan[a]).kind \in {"out", "status", "unknown"}
    <3>1. Receive(a) => Head(chan[a]) \in Msg
      BY HeadTail DEF Receive, TypeOK
    <3>2. QED BY <3>1 DEF Msg
  <2>4. \/ rx' = rx
        \/ \E how \in {"exited", "told", "ended", "lost"} : rx' = [rx EXCEPT ![a] = how]
    BY <2>1, <2>3 DEF Client, Receive, StreamEnds, LinkLost, Close
  <2>5. CASE rx' = rx
    BY <1>1, <1>2, <2>2, <2>5
  <2>6. CASE \E how \in {"exited", "told", "ended", "lost"} : rx' = [rx EXCEPT ![a] = how]
    <3>1. RxBar[a] = "open" /\ RxBar' = [RxBar EXCEPT ![a] = "closed"]
      BY <2>2, <2>6 DEF RxBar, TypeOK
    <3>2. Control!Close(a)
      BY <2>2, <3>1 DEF Control!Close, RxBar
    <3>3. QED BY <3>2 DEF Control!Next
  <2>7. QED BY <2>4, <2>5, <2>6
<1>16. CASE ChildCloses \/ ChildExits \/ ReaderRead \/ ReaderRuns \/ UNCHANGED vars
  <2>1. UNCHANGED <<session, ctrl, hand, sub, detachedAt, exited, rx>>
    BY <1>16 DEF ChildCloses, ChildExits, ReaderRead, ReaderRuns, ReaderSend, ReaderEof,
       ReaderWaited, ReaderSendEof, vars
  <2>2. QED BY <1>1, <1>2, <2>1
<1>17. QED
  BY <1>4, <1>5, <1>6, <1>7, <1>8, <1>9, <1>10, <1>11, <1>12, <1>13, <1>14, <1>15, <1>16
     DEF Next, StreamTask, TaskRuns, Sweep

\* Towards the connections a session behaves as SessionControl says: calls are
\* taken in order, one subscriber at a time, whatever the bytes, the replays and
\* the failing sends in between.
THEOREM SessionKeepsContract == Spec => KeepsContract
<1>1. Init => Control!Init
  <2> SUFFICES ASSUME Init PROVE Control!Init
    OBVIOUS
  <2>1. /\ session = "live" /\ sub = NoSub /\ detachedAt = "none" /\ exited = FALSE
        /\ rx = [a \in Attach |-> "unused"] /\ hand.why # "replay"
        /\ ctrl = <<>>
    BY DEF Init, NoHand
  <2>2. CallsBar = <<>>
    <3>1. Replaying = <<>> /\ Calls(ctrl) = <<>>
      BY <2>1 DEF Replaying, Calls
    <3>2. QED BY <3>1, ConcatEmptySeq DEF CallsBar
  <2>3. QED BY <2>1, <2>2 DEF Control!Init, CallsBar, Replaying, Calls, Over
<1>2. Init => ContractInv
  BY DEF Init, ContractInv, NoHand
<1>3. TypeOK /\ TaskShape /\ ContractInv /\ [Next]_vars => ContractInv'
  <2>1. ContractInv /\ UNCHANGED vars => ContractInv'
    BY DEF vars, taskVars, ContractInv
  <2>2. QED BY <2>1, ContractInvStep
<1>4. /\ TypeOK /\ TaskShape /\ GaplessInv /\ PromiseInv /\ ContractInv
      /\ [Next]_vars /\ TypeOK'
      => [Control!Next]_(Control!vars)
  BY ContractStep
<1>5. Spec => [](TypeOK /\ TaskShape) /\ []GaplessInv /\ []PromiseInv
  BY TypeCorrect, GaplessInvariant, PromiseInvariant
<1>6. QED BY <1>1, <1>2, <1>3, <1>4, <1>5, PTL DEF Spec, KeepsContract
=============================================================================
