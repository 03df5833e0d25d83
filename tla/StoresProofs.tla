---------------------------- MODULE StoresProofs ----------------------------
(***************************************************************************)
(* What is kept on disk, for every size of it: the cloudflared of the      *)
(* servers, the document of canvas-lab, the samples and the saved requests *)
(* of http-request, the snippets of code-vault, and the files the commands *)
(* and file-manager change: nothing of them is lost that no call was to    *)
(* delete or write over, and a copy is whole.                              *)
(***************************************************************************)
EXTENDS MC_Stores, Integers, SequenceTheorems, TLAPS

-----------------------------------------------------------------------------
(* The cloudflared of the servers (OwnTunnel). *)

\* Whatever else is going on: who writes has a file open, and has not written
\* all of it; and who is to chmod has renamed.
InHand ==
  \A s \in Proc :
    /\ at[s] = "writes" => writer[s].file \in 1..Len(holds) /\ writer[s].wrote \in 0..(PARTS - 1)
    /\ at[s] = "chmods" => name["dest"] # None

\* The one that downloads has the temporary file for itself, and has written
\* what is in it; it is not the file at dest.
OneAtIt ==
  /\ \A s, t \in Proc : T!Busy(s) /\ T!Busy(t) => s = t
  /\ name["tmp"] # None => name["tmp"] # name["dest"]
  /\ \A s \in Proc :
       /\ at[s] = "writes" => /\ writer[s].file = name["tmp"]
                              /\ holds[name["tmp"]] = 1..writer[s].wrote
       /\ at[s] = "renames" => name["tmp"] # None /\ T!Whole(name["tmp"])

TunnelKept == T!TypeOK /\ InHand /\ (apart => OneAtIt /\ T!DestIsWhole /\ T!DestRuns)

-----------------------------------------------------------------------------
\* There is nothing yet.
LEMMA TunnelInit == T!Init => TunnelKept
<1> SUFFICES ASSUME T!Init PROVE TunnelKept
  OBVIOUS
<1> USE DEF T!Init
<1>1. holds \in Seq(SUBSET T!Part) /\ Len(holds) = 0
  OBVIOUS
<1>2. T!TypeOK
  <2>1. 0 \in 0..STARTS /\ 0 \in 0..PARTS
    BY StoresAssumption DEF T!OwnTunnelAssumption
  <2>2. writer \in [Proc -> [file : {None} \cup 1..Len(holds), wrote : 0..PARTS]]
    BY <2>1
  <2>3. name \in [{"tmp", "dest"} -> {None} \cup 1..Len(holds)]
    OBVIOUS
  <2> QED BY <1>1, <2>1, <2>2, <2>3 DEF T!TypeOK
<1>3. InHand
  BY DEF InHand
<1>4. OneAtIt /\ T!DestIsWhole /\ T!DestRuns
  BY DEF OneAtIt, T!DestIsWhole, T!DestRuns, T!Busy
<1> QED BY <1>2, <1>3, <1>4 DEF TunnelKept

\* A server's step keeps the invariant.
LEMMA TunnelStep ==
  ASSUME TunnelKept, NEW s \in Proc,
         \/ T!Start(s) \/ T!Create(s) \/ T!WriteAll(s) \/ T!Rename(s)
         \/ T!SetPermissions(s) \/ T!Spawn(s) \/ T!Ends(s)
  PROVE  TunnelKept'
<1>a. PARTS \in Nat \ {0} /\ STARTS \in Nat \ {0} /\ None \notin Nat
  BY StoresAssumption DEF T!OwnTunnelAssumption
<1> USE <1>a DEF TunnelKept, InHand, OneAtIt, T!DestIsWhole, T!DestRuns, T!Whole,
            T!Busy, T!Goes, T!Part
<1>1. CASE T!Start(s)
  <2> USE <1>1 DEF T!Start
  <2>1. T!TypeOK'
    BY DEF T!TypeOK
  <2>2. InHand'
    BY DEF T!TypeOK
  <2>3. ASSUME apart' PROVE OneAtIt'
    BY <2>3 DEF T!TypeOK
  <2>4. ASSUME apart' PROVE T!DestIsWhole' /\ T!DestRuns'
    BY <2>4 DEF T!TypeOK
  <2> QED BY <2>1, <2>2, <2>3, <2>4
<1>2. CASE T!Create(s)
  <2> DEFINE f == IF name["tmp"] = None THEN Len(holds) + 1 ELSE name["tmp"]
  <2>1. /\ f \in 1..Len(holds') /\ holds' \in Seq(SUBSET T!Part)
        /\ Len(holds') >= Len(holds) /\ holds'[f] = {}
        /\ \A g \in 1..Len(holds) : g # f => holds'[g] = holds[g]
    <3>1. CASE name["tmp"] = None
      <4>1. holds' = Append(holds, {}) /\ f = Len(holds) + 1
        BY <1>2, <3>1 DEF T!Create, T!TypeOK
      <4> QED BY <4>1 DEF T!TypeOK
    <3>2. CASE name["tmp"] # None
      <4>1. f = name["tmp"] /\ f \in 1..Len(holds)
        BY <3>2 DEF T!TypeOK
      <4>2. holds' = [holds EXCEPT ![f] = {}]
        BY <1>2, <4>1 DEF T!Create, T!TypeOK
      <4> QED BY <4>1, <4>2 DEF T!TypeOK
    <3> QED BY <3>1, <3>2
  <2>2. /\ at' = [at EXCEPT ![s] = "writes"] /\ at[s] = "creates"
        /\ writer' = [writer EXCEPT ![s] = [file |-> f, wrote |-> 0]]
        /\ name' = [name EXCEPT !["tmp"] = f]
        /\ UNCHANGED <<starts, exec, apart, torn>>
    BY <1>2 DEF T!Create, T!Opens
  <2>3. f # name["dest"] \/ ~apart
    BY DEF T!TypeOK
  <2>4. T!TypeOK'
    BY <2>1, <2>2 DEF T!TypeOK
  <2>5. InHand'
    BY <2>1, <2>2 DEF T!TypeOK
  <2>6. ASSUME apart PROVE OneAtIt'
    BY <2>1, <2>2, <2>3, <2>6 DEF T!TypeOK
  <2>7. ASSUME apart PROVE T!DestIsWhole' /\ T!DestRuns'
    BY <2>1, <2>2, <2>3, <2>7 DEF T!TypeOK
  <2> QED BY <2>2, <2>4, <2>5, <2>6, <2>7
<1>3. CASE T!WriteAll(s)
  <2> DEFINE k == writer[s].wrote + 1
             f == writer[s].file
  <2>1. /\ at[s] = "writes" /\ f \in 1..Len(holds) /\ k \in 1..PARTS
        /\ holds' = [holds EXCEPT ![f] = @ \cup {k}]
        /\ writer' = [writer EXCEPT ![s].wrote = k]
        /\ at' = [at EXCEPT ![s] = IF k = PARTS THEN "renames" ELSE "writes"]
        /\ UNCHANGED <<starts, exec, name, apart, torn>>
    BY <1>3 DEF T!WriteAll, T!TypeOK
  <2>2. /\ holds' \in Seq(SUBSET T!Part) /\ Len(holds') = Len(holds)
        /\ holds'[f] = holds[f] \cup {k}
        /\ \A g \in 1..Len(holds) : g # f => holds'[g] = holds[g]
    BY <2>1 DEF T!TypeOK
  <2>3. T!TypeOK' /\ InHand'
    BY <2>1, <2>2 DEF T!TypeOK
  <2>4. ASSUME apart PROVE OneAtIt'
    <3>1. /\ f = name["tmp"] /\ holds[f] = 1..writer[s].wrote
          /\ \A t \in Proc \ {s} : ~T!Busy(t)
      BY <2>1, <2>4
    <3>2. holds'[f] = 1..k
      BY <2>1, <2>2, <3>1 DEF T!TypeOK
    <3>3. \A t \in Proc \ {s} : ~T!Busy(t)'
      BY <2>1, <3>1 DEF T!TypeOK
    <3>4. \A t, u \in Proc : T!Busy(t)' /\ T!Busy(u)' => t = u
      BY <3>3
    <3>5. at'[s] = "writes" => writer'[s].file = f /\ writer'[s].wrote = k
      BY <2>1 DEF T!TypeOK
    <3>6. at'[s] = "renames" => k = PARTS
      BY <2>1 DEF T!TypeOK
    <3>7. name' = name /\ f # None /\ f # name["dest"]
      BY <2>1, <2>4, <3>1 DEF T!TypeOK
    <3>8. ASSUME NEW t \in Proc, t # s PROVE at'[t] \notin {"writes", "renames"}
      BY <3>3, <3>8
    <3> HIDE DEF f, k
    <3> QED BY <3>1, <3>2, <3>4, <3>5, <3>6, <3>7, <3>8
  <2>5. ASSUME apart PROVE T!DestIsWhole' /\ T!DestRuns'
    BY <2>1, <2>2, <2>5 DEF T!TypeOK
  <2> QED BY <2>1, <2>3, <2>4, <2>5
<1>4. CASE T!Rename(s)
  <2>1. CASE name["tmp"] = None
    BY <1>4, <2>1 DEF T!Rename, T!TypeOK
  <2>2. CASE name["tmp"] # None
    <3>1. /\ at[s] = "renames" /\ at' = [at EXCEPT ![s] = "chmods"]
          /\ name' = [tmp |-> None, dest |-> name["tmp"]]
          /\ UNCHANGED <<starts, writer, holds, exec, apart, torn>>
      BY <1>4, <2>2 DEF T!Rename
    <3>2. name'["tmp"] = None /\ name'["dest"] = name["tmp"] /\ name["tmp"] \in 1..Len(holds)
      BY <2>2, <3>1 DEF T!TypeOK
    <3>3. name' \in [{"tmp", "dest"} -> {None} \cup 1..Len(holds)]
      BY <3>1, <3>2
    <3>4. T!TypeOK'
      BY <3>1, <3>3 DEF T!TypeOK
    <3>5. InHand'
      BY <2>2, <3>1, <3>2 DEF T!TypeOK
    <3>6. ASSUME apart PROVE OneAtIt'
      BY <2>2, <3>1, <3>2, <3>6 DEF T!TypeOK
    <3>7. ASSUME apart PROVE T!DestIsWhole' /\ T!DestRuns'
      BY <2>2, <3>1, <3>2, <3>7 DEF T!TypeOK
    <3> QED BY <3>1, <3>4, <3>5, <3>6, <3>7
  <2> QED BY <2>1, <2>2
<1>5. CASE T!SetPermissions(s)
  BY <1>5 DEF T!SetPermissions, T!TypeOK
<1>6. CASE T!Spawn(s)
  BY <1>6 DEF T!Spawn, T!TypeOK
<1>7. CASE T!Ends(s)
  BY <1>7 DEF T!Ends, T!TypeOK
<1> QED BY <1>1, <1>2, <1>3, <1>4, <1>5, <1>6, <1>7

\* Whenever servers start, end or are killed, and whatever they had written:
\* if no two were at the download at once, what is at dest is whole, and can be
\* executed but for an end between the rename and the chmod.
THEOREM TunnelIsWhole == SpecMC => []TunnelInv
<1>1. InitMC => TunnelKept
  BY TunnelInit DEF InitMC
<1>2. TunnelKept /\ [NextMC]_all => TunnelKept'
  <2>1. ASSUME TunnelKept, UNCHANGED tunnelVars PROVE TunnelKept'
    BY <2>1 DEF tunnelVars, TunnelKept, T!TypeOK, InHand, OneAtIt, T!DestIsWhole, T!DestRuns,
                T!Whole, T!Busy
  <2>2. ASSUME TunnelKept, T!Next PROVE TunnelKept'
    BY <2>2, TunnelStep DEF T!Next
  <2> QED BY <2>1, <2>2 DEF NextMC, NextTunnel, all
<1>3. TunnelKept => TunnelInv
  BY DEF TunnelKept, TunnelInv, T!TunnelInv
<1> QED BY <1>1, <1>2, <1>3, PTL DEF SpecMC

-----------------------------------------------------------------------------
(* The document of canvas-lab (CanvasDocument). *)

\* While PUTs come one after the other, the file is what the one that is under
\* way has made of it, or what readers have.
FileIsKnown ==
  /\ \A p, q \in Put : C!UnderWay(p) /\ C!UnderWay(q) => p = q
  /\ \A p \in Put : /\ put[p] = "opened" => last = p /\ canvas = C!Empty
                    /\ put[p] = "written" /\ p \in client => last = p
                    /\ put[p] = "checked" => C!Agree
  /\ last # None => put[last] \in {"opened", "written", "saved", "unwritten", "torn", "cut"}
  /\ C!FileIsTheLast /\ C!FileIsTheDocument

CanvasKept == C!TypeOK /\ (calm => FileIsKnown)

\* Who is under way is alone.
LEMMA CanvasStep ==
  ASSUME CanvasKept, NextCanvas
  PROVE  CanvasKept'
<1>a. Size \in [Canvas -> Nat \ {0}] /\ Blank \notin Canvas /\ None \notin Put
  BY StoresAssumption DEF C!CanvasAssumption
<1>1. C!TypeOK'
  BY <1>a DEF CanvasKept, NextCanvas, C!Next, C!Handler, C!Check, C!Open, C!Write, C!WriteFails,
     C!Remember, C!Dropped, C!Restart, C!Advance, C!TypeOK, C!Empty
<1>2. ASSUME calm' PROVE FileIsKnown'
  <2>1. /\ C!TypeOK /\ calm /\ FileIsKnown
        /\ \A p, q \in Put : (C!UnderWay(p) /\ C!UnderWay(q))' => p = q
    BY <1>2 DEF CanvasKept, NextCanvas
  <2> USE <1>a, <2>1 DEF C!TypeOK, FileIsKnown, C!FileIsTheLast, C!FileIsTheDocument, C!Agree, C!UnderWay
  <2>2. CASE C!Restart
    BY <2>2 DEF C!Restart
  <2>3. ASSUME NEW p \in Put, C!Check(p) PROVE FileIsKnown'
    BY <2>3 DEF C!Check, C!Advance
  <2>4. ASSUME NEW p \in Put, C!Open(p) PROVE FileIsKnown'
    BY <2>4 DEF C!Open, C!Advance, C!Empty
  <2>5. ASSUME NEW p \in Put, C!Write(p) PROVE FileIsKnown'
    <3>1. canvas.size = 0 /\ Size[doc[p]] \in Nat
      BY <1>a, <2>5 DEF C!Write, C!Advance, C!Empty
    <3>2. canvas'.holds = doc[p]
      BY <2>5, <3>1 DEF C!Write
    <3> QED BY <2>5, <3>2 DEF C!Write, C!Advance
  <2>6. ASSUME NEW p \in Put, C!WriteFails(p) PROVE FileIsKnown'
    BY <2>6 DEF C!WriteFails, C!Advance
  <2>7. ASSUME NEW p \in Put, C!Remember(p) PROVE FileIsKnown'
    BY <2>7 DEF C!Remember, C!Advance
  <2>8. ASSUME NEW p \in Put, C!Dropped(p) PROVE FileIsKnown'
    BY <2>8 DEF C!Dropped
  <2> QED BY <2>1, <2>2, <2>3, <2>4, <2>5, <2>6, <2>7, <2>8 DEF NextCanvas, C!Next, C!Handler
<1> QED BY <1>1, <1>2 DEF CanvasKept

\* However many PUTs there are, and of whatever documents, as long as they come one
\* after the other: a document answered as saved is in the file until the next PUT
\* opens it, and from there it is that PUT's or none, wherever it fails, loses its
\* connection or is killed; and readers have what is in the file, but for a last
\* PUT that failed or lost its connection.
THEOREM DocumentIsKept == SpecMC => []CanvasInv
<1>a. None \notin Put
  BY StoresAssumption DEF C!CanvasAssumption
<1>1. InitMC => CanvasKept
  <2>1. InitMC => C!Init
    BY DEF InitMC
  <2>2. C!Init => C!TypeOK
    BY DEF C!Init, C!Empty, C!TypeOK
  <2>3. C!Init => FileIsKnown
    BY <1>a DEF C!Init, C!Empty, FileIsKnown, C!FileIsTheLast, C!FileIsTheDocument, C!Agree, C!UnderWay
  <2> QED BY <2>1, <2>2, <2>3 DEF CanvasKept
<1>2. CanvasKept /\ [NextMC]_all => CanvasKept'
  <2>1. ASSUME CanvasKept, UNCHANGED canvasVars, UNCHANGED calm \/ ~calm' PROVE CanvasKept'
    BY <2>1 DEF canvasVars, CanvasKept, C!TypeOK, FileIsKnown, C!FileIsTheLast, C!FileIsTheDocument,
       C!Agree, C!UnderWay
  <2>2. NextFiles => UNCHANGED calm \/ ~calm'
    BY DEF NextFiles
  <2> QED BY <2>1, <2>2, CanvasStep DEF NextMC, NextRequests, NextSample, NextVault, NextTunnel, all
<1>3. CanvasKept => CanvasInv
  BY DEF CanvasKept, CanvasInv, FileIsKnown
<1> QED BY <1>1, <1>2, <1>3, PTL DEF SpecMC

-----------------------------------------------------------------------------
(* The samples of an OpenAPI import (SampleBody). *)

Calls == [at : Schema, left : SUBSET Schema]

\* A child of what is in the sample is in it too, or a call under way has it
\* still to do.
Pending(s, t) == \E k \in 1..Len(stack) : stack[k].at = s /\ t \in stack[k].left
ChildrenFollow == \A s \in seen : \A t \in Body!Children(s) : t \in seen \/ Pending(s, t)

SampleKept == Body!TypeOK /\ stack \in Seq(Calls) /\ ChildrenFollow

\* Where a $ref leads, and what a schema's sample is made of, are schemas.
LEMMA ChildrenAreSchemas ==
  ASSUME spec \in [Schema -> Body!Node], NEW s \in Schema
  PROVE  Body!Resolve(s) \in Schema /\ Body!Children(s) \subseteq Schema
<1>1. \A t \in Schema : spec[t] \in Body!Node /\ spec[t].next \subseteq Schema
  BY DEF Body!Node
<1>2. \A t \in Schema : Body!Resolve(t) \in Schema
  BY <1>1 DEF Body!Resolve
<1> QED BY <1>1, <1>2 DEF Body!Children

\* The first schema is sampled.
LEMMA SampleInit == InitMC => SampleKept
<1>1. ASSUME Body!Init PROVE SampleKept
  <2>0. Root \in Schema
    BY StoresAssumption DEF Body!SampleBodyAssumption
  <2>1. Body!Resolve(Root) \in Schema /\ Body!Children(Body!Resolve(Root)) \subseteq Schema
    BY <1>1, <2>0, ChildrenAreSchemas DEF Body!Init
  <2> DEFINE r == Body!Resolve(Root)
  <2>2. stack = <<[at |-> r, left |-> Body!Children(r)]>> /\ seen = {r}
    BY <1>1 DEF Body!Init, Body!Sampling
  <2> HIDE DEF r
  <2>3. stack \in Seq(Calls) /\ Len(stack) = 1 /\ stack[1].at = r /\ stack[1].left = Body!Children(r)
    BY <2>1, <2>2 DEF Calls, r
  <2>4. Body!TypeOK
    BY <1>1, <2>1, <2>2, <2>3 DEF Body!Init, Body!TypeOK, Calls, r
  <2>5. ChildrenFollow
    BY <2>2, <2>3 DEF ChildrenFollow, Pending
  <2> QED BY <2>3, <2>4, <2>5 DEF SampleKept
<1>2. ASSUME spec = [s \in Schema |-> [kind |-> "leaf", next |-> {}]], stack = <<>>, seen = {}
      PROVE  SampleKept
  <2>1. spec \in [Schema -> Body!Node]
    BY <1>2 DEF Body!Node
  <2>2. stack \in Seq(Calls) /\ DOMAIN stack = {}
    BY <1>2
  <2> QED BY <1>2, <2>1, <2>2 DEF SampleKept, Body!TypeOK, ChildrenFollow
<1> QED BY <1>1, <1>2 DEF InitMC

\* A call ends with nothing left to do, or goes into one of its children.
LEMMA SampleStep ==
  ASSUME SampleKept, Body!Next
  PROVE  SampleKept'
<1> DEFINE n == Len(stack)
<1>t. spec \in [Schema -> Body!Node] /\ stack \in Seq(Calls) /\ seen \subseteq Schema
  BY DEF SampleKept, Body!TypeOK
<1>1. CASE Body!Return
  <2>1. /\ n \in Nat \ {0} /\ stack[n].left = {} /\ UNCHANGED <<spec, seen>>
        /\ stack' = SubSeq(stack, 1, n - 1)
    BY <1>t, <1>1 DEF Body!Return, Body!Top
  <2>2. /\ stack' \in Seq(Calls) /\ Len(stack') = n - 1
        /\ \A k \in 1..(n - 1) : stack'[k] = stack[k]
    <3>1. 1 \in Int /\ n - 1 \in Int /\ \A k \in 1..(n - 1) : stack[k] \in Calls
      BY <1>t, <2>1
    <3> HIDE DEF n
    <3>2. /\ SubSeq(stack, 1, n - 1) \in Seq(Calls)
          /\ Len(SubSeq(stack, 1, n - 1)) = IF 1 <= n - 1 THEN n - 1 - 1 + 1 ELSE 0
          /\ \A k \in 1..(n - 1 - 1 + 1) : SubSeq(stack, 1, n - 1)[k] = stack[1 + k - 1]
      BY <3>1, SubSeqProperties
    <3>3. \A k \in 1..(n - 1) : 1 + k - 1 = k
      OBVIOUS
    <3> QED BY <2>1, <3>2, <3>3
  <2>3. Body!TypeOK'
    BY <1>t, <2>1, <2>2 DEF Body!TypeOK, Calls
  <2>4. ASSUME NEW s, NEW t, Pending(s, t) PROVE Pending(s, t)'
    <3>1. PICK k \in 1..n : stack[k].at = s /\ t \in stack[k].left
      BY <2>4 DEF Pending
    <3>2. k \in 1..(n - 1)
      BY <2>1, <3>1
    <3> QED BY <2>2, <3>1, <3>2 DEF Pending
  <2>5. \A s : Body!Children(s)' = Body!Children(s)
    BY <2>1 DEF Body!Children, Body!Resolve
  <2>6. ChildrenFollow'
    BY <2>1, <2>4, <2>5 DEF SampleKept, ChildrenFollow
  <2> QED BY <2>2, <2>3, <2>6 DEF SampleKept
<1>2. ASSUME NEW u \in Schema, Body!Descend(u) PROVE SampleKept'
  <2> DEFINE top == [stack[n] EXCEPT !.left = @ \ {u}]
             new == [at |-> u, left |-> Body!Children(u)]
  <2>1. /\ n \in Nat \ {0} /\ u \in stack[n].left /\ UNCHANGED spec /\ seen' = seen \cup {u}
        /\ stack' = Append([stack EXCEPT ![n].left = @ \ {u}], new)
    BY <1>t, <1>2 DEF Body!Descend, Body!Top, Body!Sampling
  <2>2. stack[n] \in Calls /\ top \in Calls /\ top.at = stack[n].at /\ top.left = stack[n].left \ {u}
    <3>1. stack[n] \in Calls
      BY <1>t, <2>1
    <3> QED BY <3>1 DEF Calls
  <2>3. new \in Calls /\ new.at = u /\ new.left = Body!Children(u)
    BY <1>t, ChildrenAreSchemas DEF Calls
  <2>4. stack' = Append([stack EXCEPT ![n] = top], new)
    BY <2>1
  <2> HIDE DEF top, new
  <2>5. /\ stack' \in Seq(Calls) /\ Len(stack') = n + 1 /\ stack'[n + 1] = new
        /\ stack'[n] = top /\ \A k \in 1..(n - 1) : stack'[k] = stack[k]
    <3> DEFINE m == [stack EXCEPT ![n] = top]
    <3>1. /\ m \in Seq(Calls) /\ Len(m) = n /\ m[n] = top
          /\ \A k \in 1..(n - 1) : m[k] = stack[k]
      BY <1>t, <2>1, <2>2
    <3>2. stack' = Append(m, new)
      BY <2>4
    <3> HIDE DEF m, n
    <3>3. n \in Nat \ {0}
      BY <2>1
    <3> QED BY <2>3, <3>1, <3>2, <3>3
  <2>6. Body!TypeOK'
    <3>1. \A k \in DOMAIN stack' : stack'[k] \in Calls
      BY <2>5
    <3>2. seen' \subseteq Schema /\ spec' \in [Schema -> Body!Node]
      BY <1>t, <2>1
    <3> QED BY <3>1, <3>2 DEF Body!TypeOK, Calls
  <2>7. ASSUME NEW s, NEW t, t # u, Pending(s, t) PROVE Pending(s, t)'
    <3>1. PICK k \in 1..n : stack[k].at = s /\ t \in stack[k].left
      BY <2>7 DEF Pending
    <3>2. stack'[k].at = s /\ t \in stack'[k].left /\ k \in 1..(n + 1)
      BY <2>1, <2>2, <2>5, <2>7, <3>1
    <3> QED BY <2>5, <3>2 DEF Pending
  <2>8. ASSUME NEW t \in Body!Children(u) PROVE Pending(u, t)'
    BY <2>1, <2>3, <2>5, <2>8 DEF Pending
  <2>9. \A s : Body!Children(s)' = Body!Children(s)
    BY <2>1 DEF Body!Children, Body!Resolve
  <2>10. ChildrenFollow'
    BY <2>1, <2>7, <2>8, <2>9 DEF SampleKept, ChildrenFollow
  <2> QED BY <2>5, <2>6, <2>10 DEF SampleKept
<1> QED BY <1>1, <1>2 DEF Body!Next

\* For every graph of schemas: when the walk is over, each property of an object
\* that is in the sample is in it too, by way of its $ref when it is one.
THEOREM SamplesAreComplete == SpecMC => []SamplesInv
<1>1. SampleKept /\ [NextMC]_all => SampleKept'
  <2>1. ASSUME SampleKept, UNCHANGED sampleVars PROVE SampleKept'
    <3>1. UNCHANGED <<spec, stack, seen>>
      BY <2>1 DEF sampleVars
    <3>2. \A s : Body!Children(s)' = Body!Children(s)
      BY <3>1 DEF Body!Children, Body!Resolve
    <3> QED BY <2>1, <3>1, <3>2 DEF SampleKept, Body!TypeOK, ChildrenFollow, Pending
  <2> QED BY <2>1, SampleStep DEF NextMC, NextSample, all
<1>2. SampleKept => SamplesInv
  <2> SUFFICES ASSUME SampleKept, stack = <<>>, NEW s \in seen, spec[s].kind = "object",
                      NEW t \in spec[s].next
               PROVE  IF spec[t].kind = "ref" /\ spec[t].next # {} THEN spec[t].next \subseteq seen
                                                                   ELSE t \in seen
    BY DEF SampleKept, SamplesInv, Body!PropertiesAreThere
  <2>1. s \in Schema /\ t \in Schema /\ spec[t] \in Body!Node
    BY DEF SampleKept, Body!TypeOK, Body!Node
  <2>2. Body!Resolve(t) \in seen
    <3>1. Body!Resolve(t) \in Body!Children(s)
      BY DEF Body!Children
    <3>2. ~Pending(s, Body!Resolve(t))
      BY DEF Pending
    <3> QED BY <3>1, <3>2 DEF SampleKept, ChildrenFollow
  <2>3. CASE spec[t].kind = "ref" /\ spec[t].next # {}
    <3>1. PICK v \in Schema : spec[t].next = {v}
      BY <2>1, <2>3 DEF Body!Node
    <3>2. Body!Resolve(t) = v
      BY <2>3, <3>1 DEF Body!Resolve
    <3> QED BY <2>2, <2>3, <3>1, <3>2
  <2>4. CASE ~(spec[t].kind = "ref" /\ spec[t].next # {})
    <3>1. Body!Resolve(t) = t
      BY <2>4 DEF Body!Resolve
    <3> QED BY <2>2, <2>4, <3>1
  <2> QED BY <2>3, <2>4
<1> QED BY SampleInit, <1>1, <1>2, PTL DEF SpecMC

-----------------------------------------------------------------------------
(* The saved requests of http-request (HttpStore). *)

FoldersOk(fs, ftop) == DOMAIN fs \subseteq 1..ftop /\ \A f \in DOMAIN fs : fs[f] \in Name
RequestsOk(rs, ftop, rtop) ==
  /\ DOMAIN rs \subseteq 1..rtop
  /\ \A r \in DOMAIN rs : rs[r] \in [of : Item, folder : 1..ftop \cup {None}]

\* The foreign key of a table that has it.
KeyHolds == linked => \A r \in DOMAIN requests : requests[r].folder \in DOMAIN folders \cup {None}

TablesOk ==
  /\ linked \in BOOLEAN /\ fseq \in 0..MAX_FOLDERS /\ rseq \in 0..MAX_REQUESTS
  /\ FoldersOk(folders, fseq) /\ RequestsOk(requests, fseq, rseq) /\ KeyHolds

\* The handlers a process can be in, and what they know.
OpenPath == [tag : Name, ops : Seq(Item)]
Update(ftop) == [op : {"update"}, r : Nat, i : Item, to : 1..ftop \cup {None},
           at : {"of", "folder", "done"}]
DeleteJob(ftop) == [op : {"delete"}, f : 1..ftop]
OpenApi(ftop, rtop) == [op : {"openapi"}, doc : Seq(OpenPath), paths : Seq(OpenPath), ops : Seq(Item),
            folder : 1..ftop \cup {None}, missing : BOOLEAN, made : SUBSET (1..rtop)]
Import(j, ftop, rtop) ==
  /\ j = [op |-> "import", file |-> j.file, id_map |-> j.id_map, made |-> j.made]
  /\ FoldersOk(j.file.folders, ftop) /\ RequestsOk(j.file.requests, ftop, rtop)
  /\ DOMAIN j.id_map \subseteq DOMAIN j.file.folders
  /\ \A old \in DOMAIN j.id_map : j.id_map[old] \in 1..ftop
  /\ DOMAIN j.made \subseteq DOMAIN j.file.requests
JobOk(j, ftop, rtop) == j = H!Idle \/ j \in Update(ftop) \/ j \in DeleteJob(ftop) \/ j \in OpenApi(ftop, rtop) \/ Import(j, ftop, rtop)

JobsOk ==
  /\ FoldersOk(file.folders, fseq) /\ RequestsOk(file.requests, fseq, rseq)
  /\ job = [p \in Proc |-> job[p]] /\ \A p \in Proc : JobOk(job[p], fseq, rseq)

\* An operation of a path is saved, to be saved next, or its path is to come.
IsSaved(fs, rs, j, tag, i) ==
  \E r \in j.made \cap DOMAIN rs : rs[r].of = i /\ H!NameOf(fs, rs[r].folder) = tag
IsNext(fs, j, tag, i) == fs[j.folder] = tag /\ \E l \in 1..Len(j.ops) : j.ops[l] = i
ToCome(j, path) == \E m \in 1..Len(j.paths) : j.paths[m] = path
OpenApiSoFar(fs, rs, j) ==
  /\ j.ops # <<>> => j.folder \in DOMAIN fs
  /\ \A k \in 1..Len(j.doc) : ToCome(j, j.doc[k]) \/
       \A n \in 1..Len(j.doc[k].ops) :
         \/ IsSaved(fs, rs, j, j.doc[k].tag, j.doc[k].ops[n])
         \/ IsNext(fs, j, j.doc[k].tag, j.doc[k].ops[n])

\* The folders that were made have the old names, and a copy is where its
\* original's folder went.
ImportSoFar(fs, rs, j) ==
  /\ \A old \in DOMAIN j.id_map :
       j.id_map[old] \in DOMAIN fs /\ fs[j.id_map[old]] = j.file.folders[old]
  /\ \A old \in DOMAIN j.made :
       /\ DOMAIN j.id_map = DOMAIN j.file.folders
       /\ j.made[old] \in DOMAIN rs
       /\ rs[j.made[old]].of = j.file.requests[old].of
       /\ rs[j.made[old]].folder =
            LET f == j.file.requests[old].folder IN
            IF f \in DOMAIN j.id_map THEN j.id_map[f] ELSE None

\* With one process nothing comes in between.
OneProcess ==
  \A p \in Proc :
    /\ p # First => job[p] = H!Idle
    /\ job[p].op = "openapi" => OpenApiSoFar(folders, requests, job[p])
    /\ job[p].op = "import" => ImportSoFar(folders, requests, job[p])

SavedKept == TablesOk /\ JobsOk /\ (part = "one process" => OneProcess)

\* Ids only grow, so what was a row or a handler stays one.
LEMMA IdsOnlyGrow ==
  ASSUME fseq \in Nat, rseq \in Nat, fseq' \in Nat, rseq' \in Nat, fseq <= fseq', rseq <= rseq'
  PROVE  /\ \A fs : FoldersOk(fs, fseq) => FoldersOk(fs, fseq')
         /\ \A rs : RequestsOk(rs, fseq, rseq) => RequestsOk(rs, fseq', rseq')
         /\ \A j : JobOk(j, fseq, rseq) => JobOk(j, fseq', rseq')
<1>1. 1..fseq \subseteq 1..fseq' /\ 1..rseq \subseteq 1..rseq'
  OBVIOUS
<1>2. \A fs : FoldersOk(fs, fseq) => FoldersOk(fs, fseq')
  BY <1>1 DEF FoldersOk
<1>3. \A rs : RequestsOk(rs, fseq, rseq) => RequestsOk(rs, fseq', rseq')
  BY <1>1 DEF RequestsOk
<1>4. \A j : j \in Update(fseq) => j \in Update(fseq')
  BY <1>1 DEF Update
<1>5. \A j : j \in DeleteJob(fseq) => j \in DeleteJob(fseq')
  BY <1>1 DEF DeleteJob
<1>6. \A j : j \in OpenApi(fseq, rseq) => j \in OpenApi(fseq', rseq')
  BY <1>1 DEF OpenApi
<1>7. \A j : Import(j, fseq, rseq) => Import(j, fseq', rseq')
  BY <1>1, <1>2, <1>3 DEF Import
<1> QED BY <1>2, <1>3, <1>4, <1>5, <1>6, <1>7 DEF JobOk

\* A folder gets the next id.
LEMMA FolderInserted ==
  ASSUME TablesOk, NEW n \in Name, H!InsertFolder(n), UNCHANGED <<linked, requests, rseq>>
  PROVE  /\ TablesOk' /\ fseq' = fseq + 1
         /\ fseq + 1 \notin DOMAIN folders /\ DOMAIN folders' = DOMAIN folders \cup {fseq + 1}
         /\ folders'[fseq + 1] = n /\ \A f \in DOMAIN folders : folders'[f] = folders[f]
<1>a. MAX_FOLDERS \in Nat
  BY StoresAssumption DEF H!HttpStoreAssumption
<1>1. /\ fseq' = fseq + 1 /\ fseq \in Nat /\ rseq \in Nat /\ fseq' \in 0..MAX_FOLDERS
      /\ DOMAIN folders \subseteq 1..fseq
  BY <1>a DEF TablesOk, FoldersOk, H!InsertFolder
<1>2. folders' = [f \in DOMAIN folders \cup {fseq + 1} |-> IF f = fseq + 1 THEN n ELSE folders[f]]
  BY DEF H!InsertFolder, H!Insert
<1>3. /\ fseq + 1 \notin DOMAIN folders /\ DOMAIN folders' = DOMAIN folders \cup {fseq + 1}
      /\ folders'[fseq + 1] = n /\ \A f \in DOMAIN folders : folders'[f] = folders[f]
  BY <1>1, <1>2
<1>4. FoldersOk(folders', fseq')
  BY <1>1, <1>3 DEF TablesOk, FoldersOk
<1>5. RequestsOk(requests', fseq', rseq')
  BY <1>1 DEF TablesOk, RequestsOk
<1>6. KeyHolds'
  BY <1>3 DEF TablesOk, KeyHolds
<1> QED BY <1>1, <1>3, <1>4, <1>5, <1>6 DEF TablesOk

\* A request gets the next id, in a folder its table accepts.
LEMMA RequestInserted ==
  ASSUME TablesOk, NEW i \in Item, NEW f \in 1..fseq \cup {None}, H!InsertRequest(i, f),
         UNCHANGED <<linked, folders, fseq>>
  PROVE  /\ TablesOk' /\ rseq' = rseq + 1
         /\ rseq + 1 \notin DOMAIN requests /\ DOMAIN requests' = DOMAIN requests \cup {rseq + 1}
         /\ requests'[rseq + 1] = [of |-> i, folder |-> f]
         /\ \A r \in DOMAIN requests : requests'[r] = requests[r]
<1>a. MAX_REQUESTS \in Nat
  BY StoresAssumption DEF H!HttpStoreAssumption
<1>1. /\ rseq' = rseq + 1 /\ fseq \in Nat /\ rseq \in Nat /\ rseq' \in 0..MAX_REQUESTS
      /\ DOMAIN requests \subseteq 1..rseq /\ H!FolderOk(f)
  BY <1>a DEF TablesOk, RequestsOk, H!InsertRequest
<1>2. requests' = [r \in DOMAIN requests \cup {rseq + 1} |->
                     IF r = rseq + 1 THEN [of |-> i, folder |-> f] ELSE requests[r]]
  BY DEF H!InsertRequest, H!Insert
<1>3. /\ rseq + 1 \notin DOMAIN requests /\ DOMAIN requests' = DOMAIN requests \cup {rseq + 1}
      /\ requests'[rseq + 1] = [of |-> i, folder |-> f]
      /\ \A r \in DOMAIN requests : requests'[r] = requests[r]
  BY <1>1, <1>2
<1>4. RequestsOk(requests', fseq', rseq')
  BY <1>1, <1>3 DEF TablesOk, RequestsOk
<1>5. FoldersOk(folders', fseq')
  BY DEF TablesOk, FoldersOk
<1>6. KeyHolds'
  BY <1>1, <1>3 DEF TablesOk, KeyHolds, H!FolderOk
<1> QED BY <1>1, <1>3, <1>4, <1>5, <1>6 DEF TablesOk

Grows == fseq' \in Nat /\ rseq' \in Nat /\ fseq <= fseq' /\ rseq <= rseq'

\* What is kept of the tables when neither gets a row.
LEMMA TablesShrink ==
  ASSUME TablesOk, UNCHANGED <<linked, fseq, rseq>>, FoldersOk(folders', fseq), RequestsOk(requests', fseq, rseq),
         linked => \A r \in DOMAIN requests' : requests'[r].folder \in DOMAIN folders' \cup {None}
  PROVE  TablesOk' /\ Grows
BY DEF TablesOk, FoldersOk, RequestsOk, KeyHolds, Grows

\* What each handler has in hand is what it was made of.
LEMMA JobInHand ==
  ASSUME JobsOk, NEW p \in Proc
  PROVE  /\ job[p].op \in {"idle", "update", "delete", "openapi", "import"}
         /\ job[p].op = "update"  => job[p] \in Update(fseq)
         /\ job[p].op = "delete"  => job[p] \in DeleteJob(fseq)
         /\ job[p].op = "openapi" => job[p] \in OpenApi(fseq, rseq)
         /\ job[p].op = "import"  => Import(job[p], fseq, rseq)
<1>1. JobOk(job[p], fseq, rseq)
  BY DEF JobsOk
<1>2. H!Idle.op = "idle" /\ (\A j : Import(j, fseq, rseq) => j.op = "import")
  BY DEF H!Idle, Import
<1>3. /\ \A j \in Update(fseq) : j.op = "update"
      /\ \A j \in DeleteJob(fseq) : j.op = "delete"
      /\ \A j \in OpenApi(fseq, rseq) : j.op = "openapi"
  BY DEF Update, DeleteJob, OpenApi
<1> QED BY <1>1, <1>2, <1>3 DEF JobOk

\* Every statement keeps the tables, and the foreign key of one that has it.
LEMMA TablesStep ==
  ASSUME TablesOk, JobsOk, NEW p \in Proc, H!Step(p)
  PROVE  TablesOk' /\ Grows
<1>n. fseq \in Nat /\ rseq \in Nat
  BY DEF TablesOk
<1>c. H!ClientFolder = 1..fseq \cup {None}
  BY DEF H!ClientFolder
<1>i. ASSUME NEW n \in Name, H!InsertFolder(n), UNCHANGED <<linked, requests, rseq>>
      PROVE  TablesOk' /\ Grows
  <2>1. TablesOk' /\ fseq' = fseq + 1 /\ rseq' = rseq
    BY <1>i, FolderInserted
  <2> QED BY <1>n, <2>1 DEF Grows
<1>r. ASSUME NEW i \in Item, NEW f \in 1..fseq \cup {None}, H!InsertRequest(i, f),
             UNCHANGED <<linked, folders, fseq>>
      PROVE  TablesOk' /\ Grows
  <2>1. TablesOk' /\ rseq' = rseq + 1 /\ fseq' = fseq
    BY <1>r, RequestInserted
  <2> QED BY <1>n, <2>1 DEF Grows
<1>s. ASSUME UNCHANGED <<linked, folders, requests, fseq, rseq>> PROVE TablesOk' /\ Grows
  BY <1>s, TablesShrink DEF TablesOk, KeyHolds
<1>d. ASSUME NEW S, requests' = H!DeleteRows(requests, S), UNCHANGED <<linked, folders, fseq, rseq>>
      PROVE  TablesOk' /\ Grows
  <2>1. /\ DOMAIN requests' \subseteq DOMAIN requests
        /\ \A r \in DOMAIN requests' : requests'[r] = requests[r]
    BY <1>d DEF H!DeleteRows, H!Restrict
  <2> QED BY <1>d, <2>1, TablesShrink DEF TablesOk, RequestsOk, KeyHolds
<1>1. ASSUME NEW n \in Name, H!CreateFolder(p, n) PROVE TablesOk' /\ Grows
  BY <1>1, <1>i DEF H!CreateFolder
<1>2. ASSUME NEW n \in Name, NEW f \in DOMAIN folders, H!UpdateFolder(p, f, n)
      PROVE  TablesOk' /\ Grows
  <2>1. /\ UNCHANGED <<linked, requests, fseq, rseq>> /\ DOMAIN folders' = DOMAIN folders
        /\ \A g \in DOMAIN folders : folders'[g] \in {n, folders[g]}
    BY <1>2 DEF H!UpdateFolder
  <2> QED BY <2>1, TablesShrink DEF TablesOk, FoldersOk, KeyHolds
<1>3. ASSUME NEW i \in Item, NEW f \in H!ClientFolder, H!CreateRequest(p, i, f)
      PROVE  TablesOk' /\ Grows
  BY <1>3, <1>c, <1>r DEF H!CreateRequest
<1>4. ASSUME NEW r \in DOMAIN requests, H!DeleteRequest(p, r) PROVE TablesOk' /\ Grows
  BY <1>4, <1>d DEF H!DeleteRequest
<1>5. ASSUME NEW f \in 1..fseq, H!DeleteFolder(p, f) PROVE TablesOk' /\ Grows
  BY <1>5, <1>d DEF H!DeleteFolder
<1>6. CASE H!UpdateContents(p) \/ H!UpdateFolderId(p)
  <2>1. UNCHANGED <<linked, folders, fseq, rseq>> /\ job[p] \in Update(fseq)
    BY <1>6, JobInHand DEF H!UpdateContents, H!UpdateFolderId
  <2>2. job[p].i \in Item /\ job[p].to \in 1..fseq \cup {None}
    BY <2>1 DEF Update
  <2>3. CASE UNCHANGED requests
    BY <1>s, <2>1, <2>3
  <2>4. CASE requests' = [r \in DOMAIN requests |->
               IF r = job[p].r THEN [requests[r] EXCEPT !.of = job[p].i] ELSE requests[r]]
    <3>1. /\ DOMAIN requests' = DOMAIN requests
          /\ \A r \in DOMAIN requests :
               requests[r] \in [of : Item, folder : 1..fseq \cup {None}] =>
               /\ requests'[r] \in [of : Item, folder : 1..fseq \cup {None}]
               /\ requests'[r].folder = requests[r].folder
      BY <2>2, <2>4
    <3> QED BY <2>1, <3>1, TablesShrink DEF TablesOk, RequestsOk, KeyHolds
  <2>5. CASE /\ H!FolderOk(job[p].to)
             /\ requests' = [r \in DOMAIN requests |->
               IF r = job[p].r THEN [requests[r] EXCEPT !.folder = job[p].to] ELSE requests[r]]
    <3>1. /\ DOMAIN requests' = DOMAIN requests
          /\ \A r \in DOMAIN requests :
               requests[r] \in [of : Item, folder : 1..fseq \cup {None}] =>
               /\ requests'[r] \in [of : Item, folder : 1..fseq \cup {None}]
               /\ requests'[r].folder \in {requests[r].folder, job[p].to}
      BY <2>2, <2>5
    <3>2. linked => job[p].to \in DOMAIN folders \cup {None}
      BY <2>5 DEF H!FolderOk
    <3> QED BY <2>1, <3>1, <3>2, TablesShrink DEF TablesOk, RequestsOk, KeyHolds
  <2> QED BY <1>6, <2>3, <2>4, <2>5 DEF H!UpdateContents, H!UpdateFolderId
<1>7. CASE H!DeleteItsRow(p)
  <2>1. H!DropFolder(job[p].f) /\ UNCHANGED <<linked, fseq, rseq>>
    BY <1>7 DEF H!DeleteItsRow
  <2>2. /\ DOMAIN folders' = DOMAIN folders \ {job[p].f}
        /\ \A f \in DOMAIN folders' : folders'[f] = folders[f]
    BY <2>1 DEF H!DropFolder, H!DeleteRows, H!Restrict
  <2>3. /\ DOMAIN requests' = DOMAIN requests
        /\ \A r \in DOMAIN requests :
             requests[r] \in [of : Item, folder : 1..fseq \cup {None}] =>
             /\ requests'[r] \in [of : Item, folder : 1..fseq \cup {None}]
             /\ requests'[r].folder \in {requests[r].folder, None}
             /\ linked /\ requests[r].folder = job[p].f => requests'[r].folder = None
    BY <2>1 DEF H!DropFolder, H!InFolder
  <2> QED BY <2>1, <2>2, <2>3, TablesShrink DEF TablesOk, FoldersOk, RequestsOk, KeyHolds
<1>8. CASE H!AddTagFolder(p)
  <2>1. job[p] \in OpenApi(fseq, rseq) /\ job[p].paths # <<>>
    BY <1>8, JobInHand DEF H!AddTagFolder, H!AtPath
  <2>2. job[p].paths[1] \in OpenPath
    BY <2>1 DEF OpenApi
  <2>3. job[p].paths[1].tag \in Name
    BY <2>2 DEF OpenPath
  <2> QED BY <1>8, <1>i, <2>3 DEF H!AddTagFolder
<1>9. CASE H!AddOperation(p)
  <2>1. job[p] \in OpenApi(fseq, rseq) /\ job[p].ops # <<>>
    BY <1>9, JobInHand DEF H!AddOperation
  <2>2. Head(job[p].ops) \in Item /\ job[p].folder \in 1..fseq \cup {None}
    BY <2>1 DEF OpenApi
  <2> QED BY <1>9, <1>r, <2>2 DEF H!AddOperation
<1>10. CASE H!AddFolder(p)
  <2>1. Import(job[p], fseq, rseq)
    BY <1>10, JobInHand DEF H!AddFolder
  <2>2. \A old \in DOMAIN job[p].file.folders : job[p].file.folders[old] \in Name
    BY <2>1 DEF Import, FoldersOk
  <2> QED BY <1>10, <1>i, <2>2 DEF H!AddFolder
<1>11. CASE H!AddSaved(p)
  <2>1. Import(job[p], fseq, rseq)
    BY <1>11, JobInHand DEF H!AddSaved
  <2>2. PICK old \in DOMAIN job[p].file.requests :
          H!InsertRequest(job[p].file.requests[old].of,
                          H!NewFolderOf(p, job[p].file.requests[old].folder))
    BY <1>11 DEF H!AddSaved
  <2>3. job[p].file.requests[old].of \in Item
    BY <2>1 DEF Import, RequestsOk
  <2>4. H!NewFolderOf(p, job[p].file.requests[old].folder) \in 1..fseq \cup {None}
    BY <2>1 DEF Import, H!NewFolderOf
  <2> QED BY <1>11, <1>r, <2>2, <2>3, <2>4 DEF H!AddSaved
<1>12. CASE UNCHANGED <<linked, folders, requests, fseq, rseq>>
  BY <1>12, <1>s
<1> QED BY <1>1, <1>2, <1>3, <1>4, <1>5, <1>6, <1>7, <1>8, <1>9, <1>10, <1>11, <1>12
        DEF H!Step, H!BeginUpdate, H!ImportOpenApi, H!LookUpTag, H!ExportCollections,
            H!ImportCollections, H!Answer, H!GivesUp

\* A process goes on in its handler, or to another, and no other does.
LEMMA JobsKept ==
  ASSUME TablesOk, JobsOk, Grows, NEW p \in Proc, NEW j, JobOk(j, fseq', rseq'), H!Does(p, j), UNCHANGED file
  PROVE  JobsOk' /\ job'[p] = j /\ \A q \in Proc \ {p} : job'[q] = job[q]
<1>1. \A fs : FoldersOk(fs, fseq) => FoldersOk(fs, fseq')
  BY IdsOnlyGrow DEF Grows, TablesOk
<1>2. \A rs : RequestsOk(rs, fseq, rseq) => RequestsOk(rs, fseq', rseq')
  BY IdsOnlyGrow DEF Grows, TablesOk
<1>3. \A k : JobOk(k, fseq, rseq) => JobOk(k, fseq', rseq')
  BY IdsOnlyGrow DEF Grows, TablesOk
<1>4. /\ job' = [q \in Proc |-> job'[q]] /\ job'[p] = j
      /\ \A q \in Proc \ {p} : job'[q] = job[q]
  BY DEF JobsOk, H!Does
<1>5. \A q \in Proc : JobOk(job'[q], fseq', rseq')
  BY <1>3, <1>4 DEF JobsOk
<1>6. FoldersOk(file'.folders, fseq') /\ RequestsOk(file'.requests, fseq', rseq')
  BY <1>1, <1>2 DEF JobsOk
<1> QED BY <1>4, <1>5, <1>6 DEF JobsOk

\* Statements of no handler leave every process in the one it is in.
LEMMA JobsStay ==
  ASSUME TablesOk, JobsOk, Grows, UNCHANGED job, FoldersOk(file'.folders, fseq'), RequestsOk(file'.requests, fseq', rseq')
  PROVE  JobsOk'
<1>1. \A k : JobOk(k, fseq, rseq) => JobOk(k, fseq', rseq')
  BY IdsOnlyGrow DEF Grows, TablesOk
<1> QED BY <1>1 DEF JobsOk

\* What is known in a handler is what there was.
LEMMA JobsStep ==
  ASSUME TablesOk, JobsOk, NEW p \in Proc, H!Step(p)
  PROVE  JobsOk'
<1>n. fseq \in Nat /\ rseq \in Nat
  BY DEF TablesOk
<1>g. TablesOk' /\ Grows
  BY TablesStep
<1>c. H!ClientFolder = 1..fseq \cup {None} /\ 1..fseq \subseteq 1..fseq' /\ 1..rseq \subseteq 1..rseq'
  BY <1>g, <1>n DEF H!ClientFolder, Grows
<1>j. ASSUME NEW j, JobOk(j, fseq', rseq'), H!Does(p, j), UNCHANGED file PROVE JobsOk'
  BY <1>g, <1>j, JobsKept
<1>f. \A fs : FoldersOk(fs, fseq) => FoldersOk(fs, fseq')
  BY <1>g, <1>n, IdsOnlyGrow DEF Grows
<1>r. \A rs : RequestsOk(rs, fseq, rseq) => RequestsOk(rs, fseq', rseq')
  BY <1>g, <1>n, IdsOnlyGrow DEF Grows
<1>s. ASSUME UNCHANGED <<job, file>> PROVE JobsOk'
  BY <1>f, <1>r, <1>g, <1>s, JobsStay DEF JobsOk
<1>1. CASE UNCHANGED <<job, file>>
  BY <1>1, <1>s
<1>2. CASE H!ExportCollections(p)
  <2>1. /\ file' = [folders |-> folders, requests |-> requests]
        /\ UNCHANGED job
    BY <1>2 DEF H!ExportCollections
  <2>2. FoldersOk(folders', fseq') /\ RequestsOk(requests', fseq', rseq') /\ UNCHANGED <<folders, requests>>
    BY <1>2, <1>g DEF TablesOk, H!ExportCollections
  <2>3. FoldersOk(file'.folders, fseq') /\ RequestsOk(file'.requests, fseq', rseq')
    BY <2>1, <2>2
  <2> QED BY <1>g, <2>1, <2>3, JobsStay
<1>3. ASSUME NEW i \in Item, NEW f \in H!ClientFolder, NEW r \in DOMAIN requests,
             H!BeginUpdate(p, r, i, f)
      PROVE  JobsOk'
  <2> DEFINE j == [op |-> "update", r |-> r, i |-> i, to |-> f, at |-> "of"]
  <2>1. r \in Nat
    BY DEF TablesOk, RequestsOk
  <2>2. j \in Update(fseq')
    BY <1>c, <2>1 DEF Update
  <2>3. H!Does(p, j) /\ UNCHANGED file
    BY <1>3 DEF H!BeginUpdate
  <2> HIDE DEF j
  <2> QED BY <1>j, <2>2, <2>3 DEF JobOk
<1>4. CASE H!UpdateContents(p) \/ H!UpdateFolderId(p)
  <2>1. PICK at1 \in {"folder", "done"} : H!Does(p, [job[p] EXCEPT !.at = at1])
    BY <1>4 DEF H!UpdateContents, H!UpdateFolderId
  <2>2. job[p] \in Update(fseq) /\ UNCHANGED <<file, fseq>>
    BY <1>4, JobInHand DEF H!UpdateContents, H!UpdateFolderId
  <2>3. [job[p] EXCEPT !.at = at1] \in Update(fseq')
    BY <2>2 DEF Update
  <2> QED BY <1>j, <2>1, <2>2, <2>3 DEF JobOk
<1>5. ASSUME NEW f \in 1..fseq, H!DeleteFolder(p, f) PROVE JobsOk'
  <2>1. [op |-> "delete", f |-> f] \in DeleteJob(fseq')
    BY <1>c DEF DeleteJob
  <2> QED BY <1>5, <1>j, <2>1 DEF H!DeleteFolder, JobOk
<1>6. CASE H!DeleteItsRow(p) \/ H!Answer(p) \/ H!GivesUp(p)
  <2>1. JobOk(H!Idle, fseq', rseq')
    BY DEF JobOk
  <2> QED BY <1>6, <1>j, <2>1 DEF H!DeleteItsRow, H!Answer, H!GivesUp
<1>7. ASSUME NEW d \in Doc, H!ImportOpenApi(p, d) PROVE JobsOk'
  <2> DEFINE j == [op |-> "openapi", doc |-> d, paths |-> d, ops |-> <<>>,
                   folder |-> None, missing |-> FALSE, made |-> {}]
  <2>1. d \in Seq(OpenPath)
    BY StoresAssumption DEF H!HttpStoreAssumption, OpenPath
  <2>2. j \in OpenApi(fseq', rseq')
    BY <2>1 DEF OpenApi
  <2>3. H!Does(p, j) /\ UNCHANGED file
    BY <1>7 DEF H!ImportOpenApi
  <2> HIDE DEF j
  <2> QED BY <1>j, <2>2, <2>3 DEF JobOk
<1>8. ASSUME NEW f \in 1..fseq' \cup {None}, H!AtPath(p), H!Does(p, H!EnterPath(p, f)), UNCHANGED file
      PROVE  JobsOk'
  <2>1. job[p] \in OpenApi(fseq, rseq) /\ job[p].paths # <<>>
    BY <1>8, JobInHand DEF H!AtPath
  <2>2. job[p].paths[1] \in OpenPath /\ Tail(job[p].paths) \in Seq(OpenPath)
    BY <2>1 DEF OpenApi
  <2>3. job[p].paths[1].ops \in Seq(Item)
    BY <2>2 DEF OpenPath
  <2>4. H!EnterPath(p, f) \in OpenApi(fseq', rseq')
    BY <1>8, <1>c, <2>1, <2>2, <2>3 DEF OpenApi, H!EnterPath
  <2> QED BY <1>8, <1>j, <2>4 DEF JobOk
<1>9. CASE H!LookUpTag(p)
  <2>1. CASE H!Does(p, [job[p] EXCEPT !.missing = TRUE])
    <3>1. job[p] \in OpenApi(fseq, rseq) /\ UNCHANGED <<file, fseq, rseq>>
      BY <1>9, JobInHand DEF H!LookUpTag, H!AtPath
    <3>2. [job[p] EXCEPT !.missing = TRUE] \in OpenApi(fseq', rseq')
      BY <3>1 DEF OpenApi
    <3> QED BY <1>j, <2>1, <3>1, <3>2 DEF JobOk
  <2>2. ASSUME NEW f \in DOMAIN folders, H!Does(p, H!EnterPath(p, f)) PROVE JobsOk'
    <3>1. f \in 1..fseq'
      BY <1>c DEF TablesOk, FoldersOk
    <3> QED BY <1>8, <1>9, <2>2, <3>1 DEF H!LookUpTag
  <2> QED BY <1>9, <2>1, <2>2 DEF H!LookUpTag
<1>10. CASE H!AddTagFolder(p)
  <2>1. fseq + 1 \in 1..fseq'
    BY <1>10, <1>n DEF H!AddTagFolder, H!InsertFolder
  <2> QED BY <1>8, <1>10, <2>1 DEF H!AddTagFolder
<1>11. CASE H!AddOperation(p)
  <2>1. job[p] \in OpenApi(fseq, rseq) /\ job[p].ops # <<>> /\ rseq' = rseq + 1 /\ UNCHANGED <<fseq, file>>
    BY <1>11, JobInHand DEF H!AddOperation, H!InsertRequest
  <2> DEFINE j == [job[p] EXCEPT !.ops = Tail(@), !.made = @ \cup {rseq + 1}]
  <2>2. Tail(job[p].ops) \in Seq(Item) /\ rseq + 1 \in 1..rseq'
    BY <1>n, <2>1 DEF OpenApi
  <2>3. j \in OpenApi(fseq', rseq')
    BY <1>c, <2>1, <2>2 DEF OpenApi
  <2>4. H!Does(p, j)
    BY <1>11 DEF H!AddOperation
  <2> HIDE DEF j
  <2> QED BY <1>j, <2>1, <2>3, <2>4 DEF JobOk
<1>12. CASE H!ImportCollections(p)
  <2> DEFINE j == [op |-> "import", file |-> file, id_map |-> H!NoRows, made |-> H!NoRows]
  <2>1. FoldersOk(file'.folders, fseq') /\ RequestsOk(file'.requests, fseq', rseq') /\ UNCHANGED file
    BY <1>12, <1>f, <1>r DEF JobsOk, H!ImportCollections
  <2>2. DOMAIN H!NoRows = {}
    BY DEF H!NoRows
  <2>3. Import(j, fseq', rseq')
    BY <2>1, <2>2 DEF Import
  <2>4. H!Does(p, j)
    BY <1>12 DEF H!ImportCollections
  <2> HIDE DEF j
  <2> QED BY <1>j, <2>1, <2>3, <2>4 DEF JobOk
<1>13. CASE H!AddFolder(p)
  <2>1. PICK old \in DOMAIN job[p].file.folders \ DOMAIN job[p].id_map :
          /\ fseq' = fseq + 1
          /\ H!Does(p, [job[p] EXCEPT !.id_map = H!Insert(@, old, fseq + 1)])
    BY <1>13 DEF H!AddFolder, H!InsertFolder
  <2> DEFINE j == [job[p] EXCEPT !.id_map = H!Insert(@, old, fseq + 1)]
  <2>3. Import(job[p], fseq, rseq)
    BY <1>13, JobInHand DEF H!AddFolder
  <2>4. /\ j = [op |-> "import", file |-> job[p].file, id_map |-> H!Insert(job[p].id_map, old, fseq + 1),
                made |-> job[p].made]
    BY <2>3 DEF Import
  <2>5. j.file = job[p].file /\ j.made = job[p].made /\ j.id_map = H!Insert(job[p].id_map, old, fseq + 1)
    BY <2>4
  <2>6. /\ DOMAIN j.id_map = DOMAIN job[p].id_map \cup {old}
        /\ \A o \in DOMAIN j.id_map : j.id_map[o] \in 1..fseq'
    BY <1>n, <1>c, <2>1, <2>3, <2>5 DEF Import, H!Insert
  <2>7. Import(j, fseq', rseq')
    <3>1. FoldersOk(job[p].file.folders, fseq) /\ RequestsOk(job[p].file.requests, fseq, rseq)
      BY <2>3 DEF Import
    <3>2. FoldersOk(j.file.folders, fseq') /\ RequestsOk(j.file.requests, fseq', rseq')
      BY <1>f, <1>r, <2>5, <3>1
    <3> QED BY <2>1, <2>3, <2>4, <2>5, <2>6, <3>2 DEF Import
  <2>8. H!Does(p, j) /\ UNCHANGED file
    BY <1>13, <2>1 DEF H!AddFolder
  <2> HIDE DEF j
  <2> QED BY <1>j, <2>7, <2>8 DEF JobOk
<1>14. CASE H!AddSaved(p)
  <2>1. PICK old \in DOMAIN job[p].file.requests \ DOMAIN job[p].made :
          /\ rseq' = rseq + 1
          /\ H!Does(p, [job[p] EXCEPT !.made = H!Insert(@, old, rseq + 1)])
    BY <1>14 DEF H!AddSaved, H!InsertRequest
  <2> DEFINE j == [job[p] EXCEPT !.made = H!Insert(@, old, rseq + 1)]
  <2>3. Import(job[p], fseq, rseq)
    BY <1>14, JobInHand DEF H!AddSaved
  <2>4. /\ j = [op |-> "import", file |-> job[p].file, id_map |-> job[p].id_map,
                made |-> H!Insert(job[p].made, old, rseq + 1)]
    BY <2>3 DEF Import
  <2>5. j.file = job[p].file /\ j.id_map = job[p].id_map /\ j.made = H!Insert(job[p].made, old, rseq + 1)
    BY <2>4
  <2>6. DOMAIN j.made = DOMAIN job[p].made \cup {old}
    BY <2>5 DEF H!Insert
  <2>7. Import(j, fseq', rseq')
    <3>1. FoldersOk(job[p].file.folders, fseq) /\ RequestsOk(job[p].file.requests, fseq, rseq)
      BY <2>3 DEF Import
    <3>2. FoldersOk(j.file.folders, fseq') /\ RequestsOk(j.file.requests, fseq', rseq')
      BY <1>f, <1>r, <2>5, <3>1
    <3>3. \A o \in DOMAIN j.id_map : j.id_map[o] \in 1..fseq'
      BY <1>c, <2>3, <2>5 DEF Import
    <3> QED BY <2>1, <2>3, <2>4, <2>5, <2>6, <3>2, <3>3 DEF Import
  <2>8. H!Does(p, j) /\ UNCHANGED file
    BY <1>14, <2>1 DEF H!AddSaved
  <2> HIDE DEF j
  <2> QED BY <1>j, <2>7, <2>8 DEF JobOk
<1> QED BY <1>1, <1>2, <1>3, <1>4, <1>5, <1>6, <1>7, <1>9, <1>10, <1>11, <1>12, <1>13, <1>14
        DEF H!Step, H!CreateFolder, H!UpdateFolder, H!CreateRequest, H!DeleteRequest

\* A step is of one process.
LEMMA OthersStay ==
  ASSUME JobsOk, NEW p \in Proc, H!Step(p)
  PROVE  \A q \in Proc \ {p} : job'[q] = job[q]
<1>1. ASSUME NEW j, H!Does(p, j) PROVE \A q \in Proc \ {p} : job'[q] = job[q]
  BY <1>1 DEF H!Does, JobsOk
<1> QED BY <1>1 DEF H!Step, H!CreateFolder, H!UpdateFolder, H!CreateRequest, H!DeleteRequest,
        H!ExportCollections, H!BeginUpdate, H!UpdateContents, H!UpdateFolderId, H!DeleteFolder,
        H!DeleteItsRow, H!ImportOpenApi, H!LookUpTag, H!AddTagFolder, H!AddOperation,
        H!ImportCollections, H!AddFolder, H!AddSaved, H!Answer, H!GivesUp

\* What a handler has saved stays saved: the folders it is in keep their names.
LEMMA SavedStays ==
  ASSUME TablesOk, NEW j, NEW k, NEW tag, NEW i, IsSaved(folders, requests, j, tag, i),
         j.made \subseteq k.made, DOMAIN requests \subseteq DOMAIN requests',
         \A r \in DOMAIN requests : requests'[r] = requests[r],
         \A f \in 1..fseq : f \in DOMAIN folders' <=> f \in DOMAIN folders,
         \A f \in DOMAIN folders : folders'[f] = folders[f],
         None \notin DOMAIN folders'
  PROVE  IsSaved(folders', requests', k, tag, i)
<1>1. PICK r \in j.made \cap DOMAIN requests :
        requests[r].of = i /\ H!NameOf(folders, requests[r].folder) = tag
  BY DEF IsSaved
<1>2. requests[r].folder \in 1..fseq \cup {None} /\ None \notin DOMAIN folders
  <2>1. None \notin 1..MAX_FOLDERS /\ MAX_FOLDERS \in Nat
    BY StoresAssumption DEF H!HttpStoreAssumption
  <2> QED BY <1>1, <2>1 DEF TablesOk, RequestsOk, FoldersOk
<1>3. H!NameOf(folders', requests[r].folder) = H!NameOf(folders, requests[r].folder)
  BY <1>2 DEF H!NameOf
<1>4. r \in k.made \cap DOMAIN requests' /\ requests'[r] = requests[r]
  BY <1>1
<1> QED BY <1>1, <1>3, <1>4 DEF IsSaved

\* The next path is entered, with a folder that has its tag's name.
LEMMA EnterPathKept ==
  ASSUME TablesOk, TablesOk', JobsOk, NEW p \in Proc, H!AtPath(p),
         OpenApiSoFar(folders, requests, job[p]), UNCHANGED requests,
         NEW f \in DOMAIN folders', folders'[f] = job[p].paths[1].tag,
         H!Does(p, H!EnterPath(p, f)),
         \A g \in 1..fseq : g \in DOMAIN folders' <=> g \in DOMAIN folders,
         \A g \in DOMAIN folders : folders'[g] = folders[g]
  PROVE  OpenApiSoFar(folders', requests', job'[p])
<1> DEFINE o == job[p]
           j == job'[p]
<1>1. o \in OpenApi(fseq, rseq) /\ o.paths # <<>> /\ o.ops = <<>>
  BY JobInHand DEF H!AtPath
<1>2. /\ j.doc = o.doc /\ j.paths = Tail(o.paths) /\ j.ops = o.paths[1].ops /\ j.folder = f
      /\ j.made = o.made
  <2>1. j = H!EnterPath(p, f)
    BY DEF H!Does, JobsOk
  <2> QED BY <1>1, <2>1 DEF OpenApi, H!EnterPath
<1>4. /\ o.doc \in Seq(OpenPath) /\ o.paths \in Seq(OpenPath) /\ Len(o.paths) \in Nat \ {0}
      /\ Len(o.doc) \in Nat
  BY <1>1 DEF OpenApi
<1>5. ASSUME NEW tag, NEW i, IsSaved(folders, requests, o, tag, i)
      PROVE  IsSaved(folders', requests', j, tag, i)
  <2>1. None \notin 1..MAX_FOLDERS /\ MAX_FOLDERS \in Nat
    BY StoresAssumption DEF H!HttpStoreAssumption
  <2>2. None \notin DOMAIN folders'
    BY <2>1 DEF TablesOk, FoldersOk
  <2> QED BY <1>2, <1>5, <2>2, SavedStays
<1> HIDE DEF j, o
<1>6. Len(j.paths) = Len(o.paths) - 1 /\ \A m \in 1..(Len(o.paths) - 1) : j.paths[m] = o.paths[m + 1]
  BY <1>1, <1>2, <1>4, HeadTailProperties
<1>s. /\ o.ops # <<>> => o.folder \in DOMAIN folders
      /\ \A k \in 1..Len(o.doc) : ToCome(o, o.doc[k]) \/
           \A n \in 1..Len(o.doc[k].ops) :
             \/ IsSaved(folders, requests, o, o.doc[k].tag, o.doc[k].ops[n])
             \/ IsNext(folders, o, o.doc[k].tag, o.doc[k].ops[n])
  BY DEF OpenApiSoFar, o
<1>7. ASSUME NEW k \in 1..Len(o.doc), ~ToCome(j, o.doc[k]), NEW n \in 1..Len(o.doc[k].ops)
      PROVE  \/ IsSaved(folders', requests', j, o.doc[k].tag, o.doc[k].ops[n])
             \/ IsNext(folders', j, o.doc[k].tag, o.doc[k].ops[n])
  <2>1. CASE ToCome(o, o.doc[k])
    <3>1. PICK m \in 1..Len(o.paths) : o.paths[m] = o.doc[k]
      BY <2>1 DEF ToCome
    <3>2. m = 1
      <4> SUFFICES ASSUME m # 1 PROVE FALSE
        OBVIOUS
      <4> DEFINE l == m - 1
      <4>1. l \in 1..(Len(o.paths) - 1) /\ l + 1 = m
        BY <1>4, <3>1
      <4>2. j.paths[l] = o.doc[k] /\ l \in 1..Len(j.paths)
        BY <1>6, <3>1, <4>1
      <4> QED BY <1>7, <4>2 DEF ToCome
    <3>3. j.ops[n] = o.doc[k].ops[n] /\ n \in 1..Len(j.ops) /\ folders'[j.folder] = o.doc[k].tag
      BY <1>2, <3>1, <3>2 DEF o
    <3> QED BY <3>3 DEF IsNext
  <2>2. CASE ~ToCome(o, o.doc[k])
    <3>1. Len(o.ops) = 0
      BY <1>1
    <3>2. ~IsNext(folders, o, o.doc[k].tag, o.doc[k].ops[n])
      BY <3>1 DEF IsNext
    <3> QED BY <1>5, <1>s, <2>2, <3>2
  <2> QED BY <2>1, <2>2
<1>8. j.folder \in DOMAIN folders'
  BY <1>2
<1>9. OpenApiSoFar(folders', requests', j)
  BY <1>2, <1>7, <1>8 DEF OpenApiSoFar
<1> QED BY <1>9 DEF j

\* The next operation is saved in the folder of its path.
LEMMA AddOperationKept ==
  ASSUME TablesOk, JobsOk, NEW p \in Proc, OpenApiSoFar(folders, requests, job[p]), H!AddOperation(p)
  PROVE  OpenApiSoFar(folders', requests', job'[p])
<1> DEFINE o == job[p]
           j == job'[p]
<1>1. o \in OpenApi(fseq, rseq) /\ o.ops # <<>>
  BY JobInHand DEF H!AddOperation
<1>2. /\ j.doc = o.doc /\ j.paths = o.paths /\ j.ops = Tail(o.ops) /\ j.folder = o.folder
      /\ j.made = o.made \cup {rseq + 1}
  <2>1. j = [o EXCEPT !.ops = Tail(@), !.made = @ \cup {rseq + 1}]
    BY DEF H!AddOperation, H!Does, JobsOk
  <2> QED BY <1>1, <2>1 DEF OpenApi
<1>4. o.ops \in Seq(Item) /\ Len(o.ops) \in Nat \ {0} /\ Head(o.ops) = o.ops[1] /\ o.ops[1] \in Item
      /\ o.folder \in 1..fseq \cup {None}
  BY <1>1 DEF OpenApi
<1>5. /\ UNCHANGED folders /\ DOMAIN requests' = DOMAIN requests \cup {rseq + 1}
      /\ requests'[rseq + 1] = [of |-> o.ops[1], folder |-> o.folder]
      /\ \A r \in DOMAIN requests : requests'[r] = requests[r]
  <2>1. H!InsertRequest(o.ops[1], o.folder) /\ UNCHANGED <<linked, folders, fseq>>
    BY <1>4 DEF H!AddOperation
  <2> QED BY <1>4, <2>1, RequestInserted
<1>6. ASSUME NEW tag, NEW i, IsSaved(folders, requests, o, tag, i)
      PROVE  IsSaved(folders', requests', j, tag, i)
  <2>1. None \notin 1..MAX_FOLDERS /\ MAX_FOLDERS \in Nat
    BY StoresAssumption DEF H!HttpStoreAssumption
  <2>2. None \notin DOMAIN folders'
    BY <1>5, <2>1 DEF TablesOk, FoldersOk
  <2> QED BY <1>2, <1>5, <1>6, <2>2, SavedStays
<1> HIDE DEF j, o
<1>s. /\ o.folder \in DOMAIN folders
      /\ \A k \in 1..Len(o.doc) : ToCome(o, o.doc[k]) \/
           \A n \in 1..Len(o.doc[k].ops) :
             \/ IsSaved(folders, requests, o, o.doc[k].tag, o.doc[k].ops[n])
             \/ IsNext(folders, o, o.doc[k].tag, o.doc[k].ops[n])
  BY <1>1 DEF OpenApiSoFar, o
<1>8. IsSaved(folders', requests', j, folders[o.folder], o.ops[1])
  <2>1. rseq + 1 \in j.made \cap DOMAIN requests'
    BY <1>2, <1>5
  <2>2. H!NameOf(folders', o.folder) = folders[o.folder]
    BY <1>5, <1>s DEF H!NameOf
  <2> QED BY <1>5, <2>1, <2>2 DEF IsSaved
<1>9. \A l \in 1..Len(o.ops) : l = 1 \/ \E m \in 1..Len(j.ops) : j.ops[m] = o.ops[l]
  <2>1. Len(j.ops) = Len(o.ops) - 1 /\ \A m \in 1..(Len(o.ops) - 1) : j.ops[m] = o.ops[m + 1]
    BY <1>1, <1>2, <1>4, HeadTailProperties
  <2> SUFFICES ASSUME NEW l \in 1..Len(o.ops), l # 1
               PROVE  \E m \in 1..Len(j.ops) : j.ops[m] = o.ops[l]
    OBVIOUS
  <2> DEFINE m == l - 1
  <2>2. m \in 1..(Len(o.ops) - 1) /\ m + 1 = l
    BY <1>4
  <2> QED BY <2>1, <2>2
<1>10. ASSUME NEW k \in 1..Len(o.doc), ~ToCome(j, o.doc[k]), NEW n \in 1..Len(o.doc[k].ops)
       PROVE  \/ IsSaved(folders', requests', j, o.doc[k].tag, o.doc[k].ops[n])
              \/ IsNext(folders', j, o.doc[k].tag, o.doc[k].ops[n])
  <2>1. ~ToCome(o, o.doc[k])
    BY <1>2, <1>10 DEF ToCome
  <2>2. CASE IsNext(folders, o, o.doc[k].tag, o.doc[k].ops[n])
    <3>1. PICK l \in 1..Len(o.ops) : o.ops[l] = o.doc[k].ops[n]
      BY <2>2 DEF IsNext
    <3>2. folders[o.folder] = o.doc[k].tag
      BY <2>2 DEF IsNext
    <3>3. CASE l = 1
      BY <1>8, <3>1, <3>2, <3>3
    <3>4. CASE l # 1
      BY <1>2, <1>5, <1>9, <3>1, <3>2, <3>4 DEF IsNext
    <3> QED BY <3>3, <3>4
  <2> QED BY <1>6, <1>s, <2>1, <2>2
<1>11. OpenApiSoFar(folders', requests', j)
  BY <1>2, <1>5, <1>10, <1>s DEF OpenApiSoFar
<1> QED BY <1>11 DEF j

\* A folder of the file is made again: no request has been.
LEMMA AddFolderKept ==
  ASSUME TablesOk, JobsOk, NEW p \in Proc, ImportSoFar(folders, requests, job[p]), H!AddFolder(p)
  PROVE  ImportSoFar(folders', requests', job'[p])
<1> DEFINE o == job[p]
           j == job'[p]
<1>1. Import(o, fseq, rseq)
  BY JobInHand DEF H!AddFolder
<1>2. PICK old \in DOMAIN o.file.folders \ DOMAIN o.id_map :
        /\ H!InsertFolder(o.file.folders[old])
        /\ H!Does(p, [o EXCEPT !.id_map = H!Insert(@, old, fseq + 1)])
  BY DEF H!AddFolder
<1>3. /\ j.file = o.file /\ j.made = o.made /\ DOMAIN j.id_map = DOMAIN o.id_map \cup {old}
      /\ j.id_map[old] = fseq + 1 /\ \A f \in DOMAIN o.id_map : j.id_map[f] = o.id_map[f]
  <2>1. j = [o EXCEPT !.id_map = H!Insert(o.id_map, old, fseq + 1)]
    BY <1>2 DEF H!Does, JobsOk
  <2>2. j.file = o.file /\ j.made = o.made /\ j.id_map = H!Insert(o.id_map, old, fseq + 1)
    BY <1>1, <2>1 DEF Import
  <2> QED BY <1>2, <2>2 DEF H!Insert
<1>4. /\ DOMAIN folders' = DOMAIN folders \cup {fseq + 1} /\ UNCHANGED requests
      /\ folders'[fseq + 1] = o.file.folders[old]
      /\ \A f \in DOMAIN folders : folders'[f] = folders[f]
  <2>1. o.file.folders[old] \in Name
    BY <1>1, <1>2 DEF Import, FoldersOk
  <2>2. UNCHANGED <<linked, requests, rseq>>
    BY DEF H!AddFolder
  <2> QED BY <1>2, <2>1, <2>2, FolderInserted
<1>5. DOMAIN o.made = {}
  BY <1>2 DEF ImportSoFar
<1>6. \A f \in DOMAIN o.id_map : o.id_map[f] \in DOMAIN folders /\ folders[o.id_map[f]] = o.file.folders[f]
  BY DEF ImportSoFar
<1> HIDE DEF j, o
<1>7. ASSUME NEW f \in DOMAIN j.id_map
      PROVE  j.id_map[f] \in DOMAIN folders' /\ folders'[j.id_map[f]] = j.file.folders[f]
  <2>1. CASE f = old
    BY <1>3, <1>4, <2>1
  <2>2. CASE f \in DOMAIN o.id_map
    BY <1>3, <1>4, <1>6, <1>2, <2>2
  <2> QED BY <1>3, <2>1, <2>2
<1>8. ImportSoFar(folders', requests', j)
  BY <1>3, <1>5, <1>7 DEF ImportSoFar
<1> QED BY <1>8 DEF j

\* A request of the file is made again, where its folder has gone.
LEMMA AddSavedKept ==
  ASSUME TablesOk, JobsOk, NEW p \in Proc, ImportSoFar(folders, requests, job[p]), H!AddSaved(p)
  PROVE  ImportSoFar(folders', requests', job'[p])
<1> DEFINE o == job[p]
           j == job'[p]
<1>1. Import(o, fseq, rseq) /\ DOMAIN o.id_map = DOMAIN o.file.folders
  BY JobInHand DEF H!AddSaved
<1>2. PICK old \in DOMAIN o.file.requests \ DOMAIN o.made :
        /\ H!InsertRequest(o.file.requests[old].of, H!NewFolderOf(p, o.file.requests[old].folder))
        /\ H!Does(p, [o EXCEPT !.made = H!Insert(@, old, rseq + 1)])
  BY DEF H!AddSaved
<1> DEFINE saved == o.file.requests[old]
           to == IF saved.folder \in DOMAIN o.id_map THEN o.id_map[saved.folder] ELSE None
<1>3. /\ j.file = o.file /\ j.id_map = o.id_map /\ DOMAIN j.made = DOMAIN o.made \cup {old}
      /\ j.made[old] = rseq + 1 /\ \A r \in DOMAIN o.made : j.made[r] = o.made[r]
  <2>1. j = [o EXCEPT !.made = H!Insert(o.made, old, rseq + 1)]
    BY <1>2 DEF H!Does, JobsOk
  <2>2. j.file = o.file /\ j.id_map = o.id_map /\ j.made = H!Insert(o.made, old, rseq + 1)
    BY <1>1, <2>1 DEF Import
  <2> QED BY <1>2, <2>2 DEF H!Insert
<1>4. /\ DOMAIN requests' = DOMAIN requests \cup {rseq + 1} /\ UNCHANGED folders
      /\ requests'[rseq + 1] = [of |-> saved.of, folder |-> to]
      /\ \A r \in DOMAIN requests : requests'[r] = requests[r]
  <2>1. saved.of \in Item /\ to \in 1..fseq \cup {None}
    BY <1>1, <1>2 DEF Import, RequestsOk
  <2>2. UNCHANGED <<linked, folders, fseq>> /\ H!NewFolderOf(p, saved.folder) = to
    BY DEF H!AddSaved, H!NewFolderOf
  <2>3. H!InsertRequest(saved.of, to)
    BY <1>2, <2>2
  <2> HIDE DEF saved, to
  <2> QED BY <2>1, <2>2, <2>3, RequestInserted
<1>5. DOMAIN requests \subseteq 1..rseq /\ rseq \in Nat
  BY DEF TablesOk, RequestsOk
<1>6. \A r \in DOMAIN o.made :
        /\ o.made[r] \in DOMAIN requests /\ requests[o.made[r]].of = o.file.requests[r].of
        /\ requests[o.made[r]].folder =
             LET f == o.file.requests[r].folder IN
             IF f \in DOMAIN o.id_map THEN o.id_map[f] ELSE None
  BY DEF ImportSoFar
<1>7. \A f \in DOMAIN o.id_map : o.id_map[f] \in DOMAIN folders /\ folders[o.id_map[f]] = o.file.folders[f]
  BY DEF ImportSoFar
<1>8. /\ requests'[rseq + 1].of = o.file.requests[old].of
      /\ requests'[rseq + 1].folder =
           LET f == o.file.requests[old].folder IN IF f \in DOMAIN o.id_map THEN o.id_map[f] ELSE None
  BY <1>4
<1> HIDE DEF j, o, saved, to
<1>9. ASSUME NEW r \in DOMAIN j.made
      PROVE  /\ j.made[r] \in DOMAIN requests' /\ requests'[j.made[r]].of = j.file.requests[r].of
             /\ requests'[j.made[r]].folder =
                  LET f == j.file.requests[r].folder IN
                  IF f \in DOMAIN j.id_map THEN j.id_map[f] ELSE None
  <2>1. CASE r = old
    BY <1>3, <1>4, <1>8, <2>1
  <2>2. CASE r \in DOMAIN o.made
    <3>1. requests'[o.made[r]] = requests[o.made[r]] /\ j.made[r] = o.made[r]
      BY <1>3, <1>4, <1>6, <2>2
    <3> QED BY <1>3, <1>4, <1>6, <2>2, <3>1
  <2> QED BY <1>3, <2>1, <2>2
<1>10. ImportSoFar(folders', requests', j)
  BY <1>1, <1>3, <1>4, <1>7, <1>9 DEF ImportSoFar
<1> QED BY <1>10 DEF j

\* With one process on the file nothing comes between the statements of a handler.
LEMMA OneProcessStep ==
  ASSUME TablesOk, JobsOk, OneProcess, First \in Proc, H!Step(First)
  PROVE  OneProcess'
<1> DEFINE o == job[First]
           j == job'[First]
<1>t. TablesOk'
  BY TablesStep
<1>1. \A p \in Proc \ {First} : job'[p] = H!Idle
  BY OthersStay DEF OneProcess
<1>2. H!Idle.op = "idle"
  BY DEF H!Idle
<1>3. ASSUME \/ j.op \notin {"openapi", "import"}
             \/ j.op = "openapi" /\ OpenApiSoFar(folders', requests', j)
             \/ j.op = "import" /\ ImportSoFar(folders', requests', j)
      PROVE  OneProcess'
  BY <1>1, <1>2, <1>3 DEF OneProcess
<1>4. \A k : H!Does(First, k) => j = k
  BY DEF H!Does, JobsOk
<1>5. ASSUME o = H!Idle, UNCHANGED job PROVE OneProcess'
  BY <1>2, <1>3, <1>5
<1>6. ASSUME NEW i \in Item, NEW f \in H!ClientFolder, NEW r \in DOMAIN requests,
             H!BeginUpdate(First, r, i, f)
      PROVE  OneProcess'
  BY <1>3, <1>4, <1>6 DEF H!BeginUpdate
<1>7. CASE H!UpdateContents(First) \/ H!UpdateFolderId(First)
  <2>1. o.op = "update" /\ \E a1 \in {"folder", "done"} : j = [o EXCEPT !.at = a1]
    BY <1>4, <1>7 DEF H!UpdateContents, H!UpdateFolderId
  <2>2. o \in Update(fseq)
    BY <2>1, JobInHand
  <2>3. j.op = "update"
    BY <2>1, <2>2 DEF Update
  <2> QED BY <1>3, <2>3
<1>8. ASSUME NEW f \in 1..fseq, H!DeleteFolder(First, f) PROVE OneProcess'
  BY <1>3, <1>4, <1>8 DEF H!DeleteFolder
<1>9. CASE H!DeleteItsRow(First) \/ H!Answer(First) \/ H!GivesUp(First)
  BY <1>2, <1>3, <1>4, <1>9 DEF H!DeleteItsRow, H!Answer, H!GivesUp
<1>10. ASSUME NEW d \in Doc, H!ImportOpenApi(First, d) PROVE OneProcess'
  <2>1. j.op = "openapi" /\ j.doc = d /\ j.paths = d /\ j.ops = <<>>
    BY <1>4, <1>10 DEF H!ImportOpenApi
  <2>2. OpenApiSoFar(folders', requests', j)
    BY <2>1 DEF OpenApiSoFar, ToCome
  <2> QED BY <1>3, <2>1, <2>2
<1>11. ASSUME o.op = "openapi", OpenApiSoFar(folders', requests', j), j.op = o.op PROVE OneProcess'
  BY <1>3, <1>11
<1>12. ASSUME H!AtPath(First), NEW f \in DOMAIN folders', UNCHANGED requests,
              folders'[f] = job[First].paths[1].tag, H!Does(First, H!EnterPath(First, f)),
              \A g \in 1..fseq : g \in DOMAIN folders' <=> g \in DOMAIN folders,
              \A g \in DOMAIN folders : folders'[g] = folders[g]
       PROVE  OneProcess'
  <2>1. OpenApiSoFar(folders, requests, o) /\ o \in OpenApi(fseq, rseq)
    BY <1>12, JobInHand DEF OneProcess, H!AtPath
  <2>2. OpenApiSoFar(folders', requests', j)
    BY <1>t, <1>12, <2>1, EnterPathKept
  <2>3. j.op = "openapi"
    BY <1>4, <1>12, <2>1 DEF OpenApi, H!EnterPath
  <2> QED BY <1>3, <2>2, <2>3
<1>13. CASE H!LookUpTag(First)
  <2>1. CASE H!Does(First, [job[First] EXCEPT !.missing = TRUE])
    <3>1. /\ OpenApiSoFar(folders, requests, o) /\ o \in OpenApi(fseq, rseq)
          /\ UNCHANGED <<folders, requests>>
      BY <1>13, JobInHand DEF OneProcess, H!LookUpTag, H!AtPath
    <3>2. /\ j.op = "openapi" /\ j.doc = o.doc /\ j.paths = o.paths /\ j.ops = o.ops
          /\ j.folder = o.folder /\ j.made = o.made
      BY <1>4, <2>1, <3>1 DEF OpenApi
    <3> HIDE DEF o, j
    <3>3. OpenApiSoFar(folders', requests', j)
      BY <3>1, <3>2 DEF OpenApiSoFar, ToCome, IsSaved, IsNext
    <3> QED BY <1>3, <3>2, <3>3 DEF j
  <2>2. ASSUME NEW f \in DOMAIN folders, folders[f] = job[First].paths[1].tag,
               H!Does(First, H!EnterPath(First, f))
        PROVE  OneProcess'
    BY <1>12, <1>13, <2>2 DEF H!LookUpTag
  <2> QED BY <1>13, <2>1, <2>2 DEF H!LookUpTag
<1>14. CASE H!AddTagFolder(First)
  <2>1. o \in OpenApi(fseq, rseq) /\ o.paths # <<>>
    BY <1>14, JobInHand DEF H!AddTagFolder, H!AtPath
  <2>2. o.paths[1].tag \in Name
    <3>1. o.paths[1] \in OpenPath
      BY <2>1 DEF OpenApi
    <3> QED BY <3>1 DEF OpenPath
  <2>3. /\ DOMAIN folders' = DOMAIN folders \cup {fseq + 1} /\ folders'[fseq + 1] = o.paths[1].tag
        /\ \A f \in DOMAIN folders : folders'[f] = folders[f]
    BY <1>14, <2>2, FolderInserted DEF H!AddTagFolder
  <2>4. fseq + 1 \notin 1..fseq
    BY DEF TablesOk
  <2>5. H!AtPath(First) /\ UNCHANGED requests /\ H!Does(First, H!EnterPath(First, fseq + 1))
    BY <1>14 DEF H!AddTagFolder
  <2> DEFINE f == fseq + 1
  <2>6. f \in DOMAIN folders' /\ H!Does(First, H!EnterPath(First, f))
    BY <2>3, <2>5
  <2> QED BY <1>12, <2>3, <2>4, <2>5
<1>15. CASE H!AddOperation(First)
  <2>1. OpenApiSoFar(folders, requests, o) /\ o \in OpenApi(fseq, rseq)
    BY <1>15, JobInHand DEF OneProcess, H!AddOperation
  <2>2. OpenApiSoFar(folders', requests', j)
    BY <1>15, <2>1, AddOperationKept
  <2>3. j.op = "openapi"
    BY <1>4, <1>15, <2>1 DEF OpenApi, H!AddOperation
  <2> QED BY <1>3, <2>2, <2>3
<1>16. CASE H!ImportCollections(First)
  <2>1. /\ j.op = "import" /\ j.id_map = H!NoRows /\ j.made = H!NoRows
    BY <1>4, <1>16 DEF H!ImportCollections
  <2>2. DOMAIN H!NoRows = {}
    BY DEF H!NoRows
  <2>3. ImportSoFar(folders', requests', j)
    BY <2>1, <2>2 DEF ImportSoFar
  <2> QED BY <1>3, <2>1, <2>3
<1>17. CASE H!AddFolder(First) \/ H!AddSaved(First)
  <2>1. Import(o, fseq, rseq) /\ ImportSoFar(folders, requests, o)
    BY <1>17, JobInHand DEF OneProcess, H!AddFolder, H!AddSaved
  <2>2. ImportSoFar(folders', requests', j)
    BY <1>17, <2>1, AddFolderKept, AddSavedKept
  <2>3. \/ \E m : j = [o EXCEPT !.id_map = m]
        \/ \E m : j = [o EXCEPT !.made = m]
    BY <1>4, <1>17 DEF H!AddFolder, H!AddSaved
  <2>4. j.op = "import"
    <3>1. PICK fl, ids, made : o = [op |-> "import", file |-> fl, id_map |-> ids, made |-> made]
      BY <2>1 DEF Import
    <3>2. PICK m : j = [o EXCEPT !.id_map = m] \/ j = [o EXCEPT !.made = m]
      BY <2>3
    <3> HIDE DEF o, j
    <3> QED BY <3>1, <3>2
  <2> QED BY <1>3, <2>2, <2>4
<1> QED BY <1>5, <1>6, <1>7, <1>8, <1>9, <1>10, <1>13, <1>14, <1>15, <1>16, <1>17
        DEF H!Step, H!CreateFolder, H!UpdateFolder, H!CreateRequest, H!DeleteRequest,
            H!ExportCollections

\* For any number of processes and of requests, the tables keep their types and,
\* where the foreign key is, hide no request; and with one process what an import
\* has come to is in place when it answers, and wherever it gives up.
THEOREM SavedIsWhole == SpecMC => []SavedInv
<1>p. First \in Proc
  <2>1. Proc # {}
    BY StoresAssumption DEF VaultAssumption
  <2> QED BY <2>1 DEF First
<1>1. InitMC => SavedKept
  <2> SUFFICES ASSUME H!Init PROVE SavedKept
    BY DEF InitMC
  <2> USE DEF H!Init
  <2>1. DOMAIN H!NoRows = {} /\ H!Nothing.folders = H!NoRows /\ H!Nothing.requests = H!NoRows
    BY DEF H!NoRows, H!Nothing
  <2>2. FoldersOk(H!NoRows, 0) /\ RequestsOk(H!NoRows, 0, 0)
    BY <2>1 DEF FoldersOk, RequestsOk
  <2>3. MAX_FOLDERS \in Nat /\ MAX_REQUESTS \in Nat
    BY StoresAssumption DEF H!HttpStoreAssumption
  <2>4. TablesOk
    BY <2>1, <2>2, <2>3 DEF TablesOk, KeyHolds
  <2>5. JobsOk
    BY <2>1, <2>2 DEF JobsOk, JobOk
  <2>6. H!Idle.op = "idle" /\ \A p \in Proc : job[p] = H!Idle
    BY DEF H!Idle
  <2>7. OneProcess
    BY <2>6 DEF OneProcess
  <2> QED BY <2>4, <2>5, <2>7 DEF SavedKept
<1>2. SavedKept /\ [NextMC]_all => SavedKept'
  <2>1. ASSUME SavedKept, UNCHANGED <<savedVars, part>> PROVE SavedKept'
    <3>1. UNCHANGED <<linked, folders, requests, fseq, rseq, file, job, part>>
      BY <2>1 DEF savedVars
    <3>2. TablesOk'
      BY <2>1, <3>1 DEF SavedKept, TablesOk, KeyHolds
    <3>3. JobsOk'
      BY <2>1, <3>1 DEF SavedKept, JobsOk
    <3>4. OneProcess => OneProcess'
      BY <3>1 DEF OneProcess
    <3> QED BY <2>1, <3>1, <3>2, <3>3, <3>4 DEF SavedKept
  <2>2. ASSUME SavedKept, NextRequests, UNCHANGED part PROVE SavedKept'
    <3>1. PICK p \in Proc : H!Step(p) /\ (part = "one process" => p = First)
      BY <1>p, <2>2 DEF NextRequests, H!Next
    <3>2. TablesOk' /\ JobsOk'
      BY <2>2, <3>1, TablesStep, JobsStep DEF SavedKept
    <3>3. part = "one process" => OneProcess'
      BY <1>p, <2>2, <3>1, OneProcessStep DEF SavedKept
    <3> QED BY <2>2, <3>2, <3>3 DEF SavedKept
  <2>3. UNCHANGED all => UNCHANGED <<savedVars, part>>
    BY DEF all
  <2> QED BY <2>1, <2>2, <2>3 DEF NextMC
<1>3. SavedKept => SavedInv
  <2> SUFFICES ASSUME SavedKept PROVE SavedInv
    OBVIOUS
  <2>1. H!TypeOK
    <3>1. \A p \in Proc : job[p].op \in {"idle", "update", "delete", "openapi", "import"}
      BY JobInHand DEF SavedKept
    <3> QED BY <3>1 DEF SavedKept, TablesOk, FoldersOk, RequestsOk, H!TypeOK
  <2>2. H!NothingHidden
    <3>1. ASSUME linked, NEW r \in DOMAIN requests PROVE r \in H!Listed
      <4>1. CASE requests[r].folder \in DOMAIN folders
        <5> DEFINE item == [id |-> requests[r].folder, requests |-> H!InFolder(requests[r].folder)]
        <5>1. item \in H!Listing /\ r \in item.requests
          BY <4>1 DEF H!Listing, H!InFolder
        <5> QED BY <5>1 DEF H!Listed
      <4>2. CASE requests[r].folder = None
        <5> DEFINE item == [id |-> 0, requests |-> H!InFolder(None)]
        <5>1. r \in H!InFolder(None)
          BY <4>2 DEF H!InFolder
        <5>2. item \in H!Listing /\ r \in item.requests
          BY <5>1 DEF H!Listing
        <5> QED BY <5>2 DEF H!Listed
      <4> QED BY <3>1, <4>1, <4>2 DEF SavedKept, TablesOk, KeyHolds
    <3>2. ASSUME NEW item \in H!Listing PROVE item.requests \subseteq DOMAIN requests
      <4>1. \E f : item.requests = H!InFolder(f)
        BY <3>2 DEF H!Listing
      <4> QED BY <4>1 DEF H!InFolder
    <3> QED BY <3>1, <3>2 DEF H!NothingHidden, H!Listed
  <2>3. ASSUME part = "one process" PROVE H!OpenApiIsWhole
    <3> SUFFICES ASSUME NEW p \in Proc, job[p].op = "openapi",
                        NEW k \in DOMAIN job[p].doc, NEW i \in H!Range(job[p].doc[k].ops),
                        job[p].doc[k] \notin H!Range(job[p].paths), i \notin H!Range(job[p].ops)
                 PROVE  IsSaved(folders, requests, job[p], job[p].doc[k].tag, i)
      BY DEF H!OpenApiIsWhole, IsSaved
    <3>1. job[p] \in OpenApi(fseq, rseq)
      BY JobInHand DEF SavedKept
    <3>d. DOMAIN job[p].paths = 1..Len(job[p].paths) /\ DOMAIN job[p].ops = 1..Len(job[p].ops)
      <4>1. job[p].paths \in Seq(OpenPath) /\ job[p].ops \in Seq(Item)
        BY <3>1 DEF OpenApi
      <4> QED BY <4>1
    <3>2. job[p].doc \in Seq(OpenPath) /\ k \in 1..Len(job[p].doc)
      BY <3>1 DEF OpenApi
    <3>3. job[p].doc[k].ops \in Seq(Item)
      <4>1. job[p].doc[k] \in OpenPath
        BY <3>2
      <4> QED BY <4>1 DEF OpenPath
    <3>4. PICK n \in 1..Len(job[p].doc[k].ops) : i = job[p].doc[k].ops[n]
      BY <3>3 DEF H!Range
    <3>5. ~ToCome(job[p], job[p].doc[k]) /\ ~IsNext(folders, job[p], job[p].doc[k].tag, i)
      BY <3>d DEF ToCome, IsNext, H!Range
    <3>6. OpenApiSoFar(folders, requests, job[p])
      BY <2>3 DEF SavedKept, OneProcess
    <3> QED BY <3>2, <3>4, <3>5, <3>6 DEF OpenApiSoFar
  <2>4. ASSUME part = "one process" PROVE H!ImportedAsExported
    <3> SUFFICES ASSUME NEW p \in Proc, job[p].op = "import",
                        NEW old \in DOMAIN job[p].made
                 PROVE  LET saved == job[p].file.requests[old]
                            new == job[p].made[old] IN
                        /\ new \in DOMAIN requests /\ requests[new].of = saved.of
                        /\ H!NameOf(folders, requests[new].folder)
                             = H!NameOf(job[p].file.folders, saved.folder)
                        /\ requests[new].folder \in H!Range(job[p].id_map) \cup {None}
      BY DEF H!ImportedAsExported
    <3> DEFINE f == job[p].file.requests[old].folder
               new == job[p].made[old]
    <3>1. ImportSoFar(folders, requests, job[p])
      BY <2>4 DEF SavedKept, OneProcess
    <3>2. /\ DOMAIN job[p].id_map = DOMAIN job[p].file.folders
          /\ new \in DOMAIN requests /\ requests[new].of = job[p].file.requests[old].of
          /\ requests[new].folder = IF f \in DOMAIN job[p].id_map THEN job[p].id_map[f] ELSE None
      BY <3>1 DEF ImportSoFar
    <3>3. None \notin DOMAIN folders
      <4>1. None \notin 1..MAX_FOLDERS /\ MAX_FOLDERS \in Nat
        BY StoresAssumption DEF H!HttpStoreAssumption
      <4>2. fseq \in 0..MAX_FOLDERS /\ DOMAIN folders \subseteq 1..fseq
        BY DEF SavedKept, TablesOk, FoldersOk
      <4> QED BY <4>1, <4>2
    <3>4. CASE f \in DOMAIN job[p].id_map
      <4>1. /\ job[p].id_map[f] \in DOMAIN folders
            /\ folders[job[p].id_map[f]] = job[p].file.folders[f]
        BY <3>1, <3>4 DEF ImportSoFar
      <4> QED BY <3>2, <3>4, <4>1 DEF H!NameOf, H!Range
    <3>5. CASE f \notin DOMAIN job[p].id_map
      BY <3>2, <3>3, <3>5 DEF H!NameOf
    <3> QED BY <3>4, <3>5
  <2> QED BY <2>1, <2>2, <2>3, <2>4 DEF SavedInv, H!RequestsInv
<1> QED BY <1>1, <1>2, <1>3, PTL DEF SpecMC

-----------------------------------------------------------------------------
(* The snippets of code-vault (CodeVault): a late request finds the snippet *)
(* its client saw or none, and with one process that nothing fails in, what *)
(* a handler does is one step for the others.                               *)

\* Requests are records with these fields.
IsRequest(q) ==
  q = [at |-> q.at, kind |-> q.kind, on |-> q.on, id |-> q.id, aim |-> q.aim,
       sets |-> q.sets, left |-> q.left, was |-> q.was, got |-> q.got]
Shape ==
  /\ request = [c \in Call |-> request[c]]
  /\ \A c \in Call : IsRequest(request[c])

\* What a request still has to do when it gets the lock is all of it.
AllIsLeft ==
  \A c \in Call :
    /\ Waits(c) => request[c].left = request[c].sets
    /\ Kinded(c, {"create"}) => request[c].sets # {}
    /\ Kinded(c, {"update"}) => request[c].sets \subseteq Field

\* One process: one handler at a time.
OneRuns ==
  /\ \A c, d \in Call :
       request[c].at # "new" /\ request[d].at # "new" => request[c].on = request[d].on
  /\ \A c, d \in Call : request[c].at = "runs" /\ request[d].at = "runs" => c = d

\* Before it gets the lock a request has written nothing, and what its
\* successors found when they got theirs is older than what now runs.
Unwritten ==
  \A c \in Call : request[c].at \in {"new", "waits"} =>
    /\ \A i \in DOMAIN rows, f \in Field : rows[i].text[f] # c
    /\ \A d \in Call, f \in Field : request[d].was[f] # c
    /\ \A d \in Call : \A i \in DOMAIN request[d].got, f \in Field :
         request[d].got[i].text[f] # c
WasIsOlder ==
  \A u, c \in Call : request[u].at = "runs" /\ c # u =>
    \A f \in Field : request[c].was[f] # u

\* What a running handler has done so far is there.
DoneSoFar ==
  \A c \in Call : request[c].at = "runs" /\ Exists(c) =>
    /\ Kinded(c, {"update"}) =>
         \A f \in request[c].sets \ request[c].left : rows[request[c].id].text[f] = c
    /\ Kinded(c, {"create"}) /\ request[c].left = {} => rows[request[c].id] = Row(c)

\* And no row is half of an update that does not run.
RowsAreWhole ==
  \A c \in Call : Kinded(c, {"update"}) /\ request[c].at # "runs" /\ Exists(c) =>
    ~Half(c, rows[request[c].id].text)

OneStep == OneRuns /\ Unwritten /\ WasIsOlder /\ DoneSoFar /\ RowsAreWhole
             /\ AnswersAreOwn /\ ReadersSeeWhole
VaultKept == TypeOK /\ IdsAreNotReused /\ Shape /\ AllIsLeft /\ (alone => OneStep)

-----------------------------------------------------------------------------
\* At first there are no requests.
LEMMA VaultInit ==
  ASSUME VaultAssumption
  PROVE  Init => VaultKept
<1> SUFFICES ASSUME Init PROVE VaultKept
  OBVIOUS
<1>1. /\ rows = [i \in {1} |-> Row(Given)] /\ seq = 1 /\ Given \notin Call
      /\ Row(Given) = [born |-> Given, text |-> Text(Given)]
      /\ Text(Given) \in [Field -> Writers] /\ \A f \in Field : Text(Given)[f] = Given
  BY DEF Init, VaultAssumption, Row, Text, Writers
<1>2. request = [c \in Call |-> New] /\ (CHOOSE p \in Proc : TRUE) \in Proc
  BY DEF Init, VaultAssumption
<1>3. \A c \in Call :
        /\ request[c].at = "new" /\ request[c].kind = "get" /\ request[c].on \in Proc
        /\ request[c].id = 1 /\ request[c].aim = Given /\ request[c].left = {}
        /\ request[c].sets = {} /\ request[c].was = Text(Given) /\ request[c].got = <<>>
  BY <1>2 DEF New
<1>4. TypeOK
  <2>1. Given \in Writers /\ 1 \in Nat /\ 1 \in 1..1 /\ "get" \in Kinds
    BY DEF Writers, Kinds
  <2>2. \A i \in DOMAIN rows : rows[i] \in [born : Writers, text : [Field -> Writers]]
    BY <1>1, <2>1
  <2>3. alone \in BOOLEAN
    BY DEF Init
  <2> QED BY <1>1, <1>3, <2>1, <2>2, <2>3 DEF TypeOK, Kinded
<1>5. IdsAreNotReused
  BY <1>3 DEF IdsAreNotReused
<1>6. Shape
  BY <1>2 DEF Shape, IsRequest, New
<1>7. AllIsLeft
  BY <1>3 DEF AllIsLeft, Kinded
<1>8. OneRuns /\ WasIsOlder /\ DoneSoFar
  BY <1>3 DEF OneRuns, WasIsOlder, DoneSoFar
<1>9. Unwritten
  BY <1>1, <1>3 DEF Unwritten
<1>10. RowsAreWhole /\ AnswersAreOwn /\ ReadersSeeWhole
  BY <1>3 DEF RowsAreWhole, AnswersAreOwn, ReadersSeeWhole, Answered, Kinded
<1> QED BY <1>4, <1>5, <1>6, <1>7, <1>8, <1>9, <1>10 DEF VaultKept, OneStep

\* A step that only changes one request, and not `alone` to TRUE.
OtherRequests(c) == \A d \in Call \ {c} : request'[d] = request[d]

\* A request comes in.
LEMMA AskStep ==
  ASSUME VaultAssumption, VaultKept, NEW c \in Call, NEW p \in Proc, NEW k \in Kinds,
         NEW i \in DOMAIN rows, NEW n \in Statements(k), Ask(c, p, k, i, n)
  PROVE  VaultKept'
<1> DEFINE q == [at |-> "waits", kind |-> k, on |-> p, id |-> i, aim |-> rows[i].born,
                 sets |-> n, left |-> n, was |-> Text(Given), got |-> <<>>]
<1>1. /\ q.at = "waits" /\ q.kind = k /\ q.on = p /\ q.id = i /\ q.aim = rows[i].born
      /\ q.sets = n /\ q.left = n /\ q.was = Text(Given) /\ q.got = <<>>
      /\ IsRequest(q)
  BY DEF IsRequest
<1>2. /\ request' = [request EXCEPT ![c] = q] /\ request[c].at = "new"
      /\ alone' = (alone /\ \A d \in Call : request[d].at # "new" => request[d].on = p)
      /\ UNCHANGED <<rows, seq>>
  BY DEF Ask
<1>3. request'[c] = q /\ OtherRequests(c)
  BY <1>2 DEF VaultKept, Shape, OtherRequests
<1> HIDE DEF q
<1>4. TypeOK'
  <2>1. rows[i].born \in Writers /\ i \in 1..seq
    BY DEF VaultKept, TypeOK
  <2>2. Text(Given) \in [Field -> Writers]
    BY DEF Text, Writers
  <2>3. alone' \in BOOLEAN
    BY <1>2 DEF VaultKept, TypeOK
  <2> QED BY <1>1, <1>2, <1>3, <2>1, <2>2, <2>3 DEF VaultKept, TypeOK, Kinded, OtherRequests
<1>5. IdsAreNotReused'
  BY <1>1, <1>2, <1>3 DEF VaultKept, IdsAreNotReused, Exists, OtherRequests
<1>6. Shape'
  BY <1>1, <1>2, <1>3 DEF VaultKept, Shape, OtherRequests
<1>7. AllIsLeft'
  <2>1. (k = "create" => n # {}) /\ (k = "update" => n \subseteq Field)
    BY DEF Statements
  <2> QED BY <1>1, <1>2, <1>3, <2>1 DEF VaultKept, AllIsLeft, Kinded, Waits, OtherRequests
<1>8. ASSUME alone' PROVE OneStep'
  <2> USE DEF OtherRequests
  <2>1. OneStep
    BY <1>2, <1>8 DEF VaultKept
  <2>2. OneRuns'
    <3>1. \A d \in Call : request'[d].at # "new" => request'[d].on = p
      BY <1>1, <1>2, <1>3, <1>8
    <3>2. \A d \in Call : request'[d].at = "runs" => d # c /\ request[d].at = "runs"
      BY <1>1, <1>3
    <3> QED BY <3>1, <3>2, <2>1 DEF OneStep, OneRuns
  <2>3. Unwritten'
    BY <1>1, <1>2, <1>3, <2>1 DEF OneStep, Unwritten, VaultAssumption, Text
  <2>4. WasIsOlder'
    BY <1>1, <1>2, <1>3, <2>1 DEF OneStep, WasIsOlder, VaultAssumption, Text
  <2>5. DoneSoFar'
    BY <1>1, <1>2, <1>3, <2>1 DEF OneStep, DoneSoFar, Exists, Kinded
  <2>6. RowsAreWhole'
    <3>1. \A j \in DOMAIN rows, f \in Field : rows[j].text[f] # c
      BY <1>2, <2>1 DEF OneStep, Unwritten
    <3>2. ASSUME NEW d \in Call, Kinded(d, {"update"})', request'[d].at # "runs", Exists(d)'
          PROVE  ~Half(d, rows[request[d].id].text)'
      <4>1. CASE d = c
        BY <1>1, <1>2, <1>3, <1>7, <3>1, <3>2, <4>1 DEF Exists, Half, AllIsLeft
      <4>2. CASE d # c
        BY <1>2, <1>3, <2>1, <3>2, <4>2 DEF OneStep, RowsAreWhole, Exists, Kinded, Half
      <4> QED BY <4>1, <4>2
    <3> QED BY <3>2 DEF RowsAreWhole
  <2>7. AnswersAreOwn'
    BY <1>1, <1>2, <1>3, <2>1 DEF OneStep, AnswersAreOwn, Answered, Kinded
  <2>8. ReadersSeeWhole'
    <3>1. \A d \in Call : \A j \in DOMAIN request[d].got, f \in Field :
            request[d].got[j].text[f] # c
      BY <1>2, <2>1 DEF OneStep, Unwritten
    <3>2. ASSUME NEW r \in Call, NEW d \in Call, Answered(r, {"get", "list"})',
                 Kinded(d, {"update"})', request'[d].id \in DOMAIN request'[r].got
          PROVE  ~Half(d, request[r].got[request[d].id].text)'
      <4>1. r # c
        BY <1>1, <1>3, <3>2 DEF Answered
      <4>2. CASE d = c
        BY <1>3, <1>7, <3>1, <3>2, <4>1, <4>2 DEF Half, AllIsLeft
      <4>3. CASE d # c
        BY <1>3, <2>1, <3>2, <4>1, <4>3 DEF OneStep, ReadersSeeWhole, Answered, Kinded, Half
      <4> QED BY <4>2, <4>3
    <3> QED BY <3>2 DEF ReadersSeeWhole
  <2> QED BY <2>2, <2>3, <2>4, <2>5, <2>6, <2>7, <2>8 DEF OneStep
<1> QED BY <1>4, <1>5, <1>6, <1>7, <1>8 DEF VaultKept

\* A request gets the lock, and sees what its snippet is like.
LEMMA LockStep ==
  ASSUME VaultAssumption, VaultKept, NEW c \in Call, Lock(c)
  PROVE  VaultKept'
<1> DEFINE was == IF Exists(c) THEN rows[request[c].id].text ELSE request[c].was
<1>1. /\ request[c].at = "waits" /\ request[c].left = request[c].sets
      /\ UNCHANGED <<rows, seq, alone>>
  BY DEF Lock, Gets, Waits, VaultKept, AllIsLeft
<1>2. /\ request'[c].at = "runs" /\ request'[c].was = was
      /\ request'[c].kind = request[c].kind /\ request'[c].on = request[c].on
      /\ request'[c].id = request[c].id /\ request'[c].aim = request[c].aim
      /\ request'[c].sets = request[c].sets /\ request'[c].left = request[c].left
      /\ request'[c].got = request[c].got
      /\ OtherRequests(c) /\ Shape'
  <2>1. request' = [request EXCEPT ![c] = [request[c] EXCEPT !.at = "runs", !.was = was]]
    BY DEF Lock, Gets, VaultKept, Shape
  <2>2. request'[c] = [request[c] EXCEPT !.at = "runs", !.was = was]
    BY <2>1 DEF VaultKept, Shape
  <2>3. OtherRequests(c) /\ request' = [d \in Call |-> request'[d]]
    BY <2>1 DEF VaultKept, Shape, OtherRequests
  <2>4. /\ request'[c].at = "runs" /\ request'[c].was = was
        /\ request'[c].kind = request[c].kind /\ request'[c].on = request[c].on
        /\ request'[c].id = request[c].id /\ request'[c].aim = request[c].aim
        /\ request'[c].sets = request[c].sets /\ request'[c].left = request[c].left
        /\ request'[c].got = request[c].got /\ IsRequest(request'[c])
    BY <2>2 DEF VaultKept, Shape, IsRequest
  <2> QED BY <2>3, <2>4 DEF VaultKept, Shape, OtherRequests
<1>3. was \in [Field -> Writers]
  BY DEF VaultKept, TypeOK, Exists
<1> HIDE DEF was
<1>4. TypeOK'
  BY <1>1, <1>2, <1>3 DEF VaultKept, TypeOK, Kinded, OtherRequests
<1>5. IdsAreNotReused'
  BY <1>1, <1>2 DEF VaultKept, IdsAreNotReused, Exists, OtherRequests
<1>6. Shape'
  BY <1>2
<1>7. AllIsLeft'
  BY <1>1, <1>2 DEF VaultKept, AllIsLeft, Kinded, Waits, OtherRequests
<1>8. ASSUME alone PROVE OneStep'
  <2> USE DEF OtherRequests
  <2>1. OneStep
    BY <1>8 DEF VaultKept
  <2>2. \A d \in Call \ {c} : request[d].at # "runs"
    BY <1>1, <2>1 DEF OneStep, OneRuns, Lock
  <2>3. OneRuns'
    BY <1>1, <1>2, <2>1, <2>2 DEF OneStep, OneRuns
  <2>4. \A f \in Field, d \in Call : request[d].at \in {"new", "waits"} => was[f] # d
    BY <2>1 DEF OneStep, Unwritten, Exists, was
  <2>5. Unwritten'
    BY <1>1, <1>2, <2>1, <2>4 DEF OneStep, Unwritten
  <2>6. WasIsOlder'
    BY <1>1, <1>2, <2>1, <2>2, <2>4 DEF OneStep, WasIsOlder, Unwritten
  <2>7. DoneSoFar'
    BY <1>1, <1>2, <2>1, <2>2 DEF OneStep, DoneSoFar, Exists, Kinded, VaultKept, AllIsLeft
  <2>8. RowsAreWhole'
    BY <1>1, <1>2, <2>1 DEF OneStep, RowsAreWhole, Exists, Kinded, Half
  <2>9. AnswersAreOwn'
    BY <1>1, <1>2, <2>1 DEF OneStep, AnswersAreOwn, Answered, Kinded
  <2>10. ReadersSeeWhole'
    <3>1. \A d \in Call : \A j \in DOMAIN request[d].got, f \in Field :
            request[d].got[j].text[f] # c
      BY <1>1, <2>1 DEF OneStep, Unwritten
    <3>2. ASSUME NEW r \in Call, NEW d \in Call, Answered(r, {"get", "list"})',
                 Kinded(d, {"update"})', request'[d].id \in DOMAIN request'[r].got
          PROVE  ~Half(d, request[r].got[request[d].id].text)'
      <4>1. r # c
        BY <1>2, <3>2 DEF Answered
      <4>2. CASE d = c
        BY <1>2, <1>7, <3>1, <3>2, <4>1, <4>2 DEF Half, AllIsLeft
      <4>3. CASE d # c
        BY <1>2, <2>1, <3>2, <4>1, <4>3 DEF OneStep, ReadersSeeWhole, Answered, Kinded, Half
      <4> QED BY <4>2, <4>3
    <3> QED BY <3>2 DEF ReadersSeeWhole
  <2> QED BY <2>3, <2>5, <2>6, <2>7, <2>8, <2>9, <2>10 DEF OneStep
<1> QED BY <1>1, <1>4, <1>5, <1>6, <1>7, <1>8 DEF VaultKept

\* A row is inserted.
LEMMA InsertStep ==
  ASSUME VaultAssumption, VaultKept, NEW c \in Call, Insert(c)
  PROVE  VaultKept'
<1> DEFINE left == request[c].left \ {Next1(request[c].left)}
<1>1. /\ request[c].at = "runs" /\ request[c].kind \in {"create", "import"}
      /\ seq' = seq + 1 /\ seq \in Nat /\ alone' = alone
      /\ DOMAIN rows' = DOMAIN rows \cup {seq + 1} /\ rows'[seq + 1] = Row(c)
      /\ \A i \in DOMAIN rows : i \in 1..seq /\ rows'[i] = rows[i]
  BY DEF Insert, Runs, Kinded, VaultKept, TypeOK
<1>2. /\ request'[c].id = seq + 1 /\ request'[c].aim = c /\ request'[c].left = left
      /\ request'[c].at = request[c].at /\ request'[c].was = request[c].was
      /\ request'[c].kind = request[c].kind /\ request'[c].on = request[c].on
      /\ request'[c].sets = request[c].sets /\ request'[c].got = request[c].got
      /\ OtherRequests(c) /\ Shape'
  <2>1. request' = [request EXCEPT ![c] = [request[c] EXCEPT !.id = seq + 1, !.aim = c, !.left = left]]
    BY DEF Insert, VaultKept, Shape
  <2>2. request'[c] = [request[c] EXCEPT !.id = seq + 1, !.aim = c, !.left = left]
    BY <2>1 DEF VaultKept, Shape
  <2>3. OtherRequests(c) /\ request' = [d \in Call |-> request'[d]]
    BY <2>1 DEF VaultKept, Shape, OtherRequests
  <2>4. /\ request'[c].id = seq + 1 /\ request'[c].aim = c /\ request'[c].left = left
        /\ request'[c].at = request[c].at /\ request'[c].was = request[c].was
        /\ request'[c].kind = request[c].kind /\ request'[c].on = request[c].on
        /\ request'[c].sets = request[c].sets /\ request'[c].got = request[c].got
        /\ IsRequest(request'[c])
    BY <2>2 DEF VaultKept, Shape, IsRequest
  <2> QED BY <2>3, <2>4 DEF VaultKept, Shape, OtherRequests
<1>3. /\ Row(c).born = c /\ \A f \in Field : Row(c).text[f] = c
      /\ Row(c) \in [born : Writers, text : [Field -> Writers]]
  BY DEF Row, Text, Writers
<1> HIDE DEF left
<1>4. TypeOK'
  <2>1. left \subseteq request[c].sets
    BY DEF VaultKept, TypeOK, left
  <2>2. c \in Writers
    BY DEF Writers
  <2>3. \A d \in Call : request'[d].id \in 1..seq'
    BY <1>1, <1>2 DEF VaultKept, TypeOK, OtherRequests
  <2> QED BY <1>1, <1>2, <1>3, <2>1, <2>2, <2>3 DEF VaultKept, TypeOK, Kinded, OtherRequests
<1>5. IdsAreNotReused'
  <2>1. ASSUME NEW d \in Call, d # c, request'[d].at # "new", Exists(d)'
        PROVE  rows'[request'[d].id].born = request'[d].aim
    BY <1>1, <1>2, <2>1 DEF VaultKept, IdsAreNotReused, Exists, OtherRequests, TypeOK
  <2> QED BY <1>1, <1>2, <1>3, <2>1 DEF IdsAreNotReused
<1>6. Shape'
  BY <1>2
<1>7. AllIsLeft'
  BY <1>1, <1>2 DEF VaultKept, AllIsLeft, Kinded, Waits, OtherRequests
<1>8. \A d \in Call \ {c} : request[d].id # seq + 1
  BY <1>1 DEF VaultKept, TypeOK
<1>9. ASSUME alone PROVE OneStep'
  <2> USE DEF OtherRequests
  <2>1. OneStep
    BY <1>9 DEF VaultKept
  <2>2. OneRuns'
    BY <1>1, <1>2, <2>1 DEF OneStep, OneRuns
  <2>3. Unwritten'
    BY <1>1, <1>2, <1>3, <2>1 DEF OneStep, Unwritten
  <2>4. WasIsOlder'
    BY <1>1, <1>2, <2>1 DEF OneStep, WasIsOlder
  <2>5. DoneSoFar'
    BY <1>1, <1>2, <1>3, <1>8, <2>1 DEF OneStep, DoneSoFar, Exists, Kinded
  <2>6. RowsAreWhole'
    BY <1>1, <1>2, <1>8, <2>1 DEF OneStep, RowsAreWhole, Exists, Kinded, Half
  <2>7. AnswersAreOwn'
    BY <1>1, <1>2, <2>1 DEF OneStep, AnswersAreOwn, Answered, Kinded
  <2>8. ReadersSeeWhole'
    BY <1>1, <1>2, <2>1 DEF OneStep, ReadersSeeWhole, Answered, Kinded, Half
  <2> QED BY <2>2, <2>3, <2>4, <2>5, <2>6, <2>7, <2>8 DEF OneStep
<1> QED BY <1>1, <1>4, <1>5, <1>6, <1>7, <1>9 DEF VaultKept

\* An update's next column is written.
LEMMA SetColumnStep ==
  ASSUME VaultAssumption, VaultKept, NEW c \in Call, SetColumn(c)
  PROVE  VaultKept'
<1> DEFINE f == Next1(request[c].left)
           left == request[c].left \ {f}
<1>1. /\ request[c].at = "runs" /\ request[c].kind = "update"
      /\ UNCHANGED <<seq, alone>> /\ DOMAIN rows' = DOMAIN rows
      /\ \A i \in DOMAIN rows : i # request[c].id => rows'[i] = rows[i]
      /\ \A i \in DOMAIN rows : i = request[c].id => rows'[i] = [rows[i] EXCEPT !.text[f] = c]
  BY DEF SetColumn, Runs, Kinded
<1>2. /\ request'[c].left = left
      /\ request'[c].at = request[c].at /\ request'[c].was = request[c].was
      /\ request'[c].kind = request[c].kind /\ request'[c].on = request[c].on
      /\ request'[c].id = request[c].id /\ request'[c].aim = request[c].aim
      /\ request'[c].sets = request[c].sets /\ request'[c].got = request[c].got
      /\ OtherRequests(c) /\ Shape'
  <2>1. request' = [request EXCEPT ![c] = [request[c] EXCEPT !.left = left]]
    BY DEF SetColumn, VaultKept, Shape
  <2>2. request'[c] = [request[c] EXCEPT !.left = left]
    BY <2>1 DEF VaultKept, Shape
  <2>3. OtherRequests(c) /\ request' = [d \in Call |-> request'[d]]
    BY <2>1 DEF VaultKept, Shape, OtherRequests
  <2>4. /\ request'[c].left = left
        /\ request'[c].at = request[c].at /\ request'[c].was = request[c].was
        /\ request'[c].kind = request[c].kind /\ request'[c].on = request[c].on
        /\ request'[c].id = request[c].id /\ request'[c].aim = request[c].aim
        /\ request'[c].sets = request[c].sets /\ request'[c].got = request[c].got
        /\ IsRequest(request'[c])
    BY <2>2 DEF VaultKept, Shape, IsRequest
  <2> QED BY <2>3, <2>4 DEF VaultKept, Shape, OtherRequests
<1>3. ASSUME NEW i \in DOMAIN rows
      PROVE  /\ rows'[i].born = rows[i].born
             /\ rows'[i] \in [born : Writers, text : [Field -> Writers]]
             /\ \A g \in Field : rows'[i].text[g] =
                  IF i = request[c].id /\ g = f THEN c ELSE rows[i].text[g]
  <2>1. rows[i] \in [born : Writers, text : [Field -> Writers]] /\ c \in Writers
    BY DEF VaultKept, TypeOK, Writers
  <2> HIDE DEF f
  <2>2. CASE i = request[c].id
    BY <1>1, <2>1, <2>2
  <2>3. CASE i # request[c].id
    BY <1>1, <2>1, <2>3
  <2> QED BY <2>2, <2>3
<1>4. left \subseteq request[c].left /\ request[c].left \ left \subseteq {f}
  OBVIOUS
<1> HIDE DEF f, left
<1>5. TypeOK'
  BY <1>1, <1>2, <1>3, <1>4 DEF VaultKept, TypeOK, Kinded, OtherRequests
<1>6. IdsAreNotReused'
  BY <1>1, <1>2, <1>3 DEF VaultKept, IdsAreNotReused, Exists, OtherRequests
<1>7. AllIsLeft'
  BY <1>1, <1>2 DEF VaultKept, AllIsLeft, Kinded, Waits, OtherRequests
<1>8. ASSUME alone PROVE OneStep'
  <2> USE DEF OtherRequests
  <2>1. OneStep
    BY <1>8 DEF VaultKept
  <2>2. \A d \in Call \ {c} : request[d].at # "runs"
    BY <1>1, <2>1 DEF OneStep, OneRuns
  <2>3. OneRuns'
    BY <1>1, <1>2, <2>1 DEF OneStep, OneRuns
  <2>4. Unwritten'
    BY <1>1, <1>2, <1>3, <2>1 DEF OneStep, Unwritten
  <2>5. WasIsOlder'
    BY <1>1, <1>2, <2>1 DEF OneStep, WasIsOlder
  <2>6. DoneSoFar'
    <3>1. request[c].sets \subseteq Field
      BY <1>1 DEF VaultKept, AllIsLeft, Kinded
    <3>2. ASSUME Exists(c)
          PROVE  \A g \in request[c].sets \ left : rows'[request[c].id].text[g] = c
      BY <1>1, <1>3, <1>4, <2>1, <3>1, <3>2 DEF OneStep, DoneSoFar, Exists, Kinded
    <3> QED BY <1>1, <1>2, <2>2, <3>2 DEF DoneSoFar, Exists, Kinded
  <2>7. RowsAreWhole'
    <3>1. ASSUME NEW d \in Call, d # c, Kinded(d, {"update"}), Exists(d)
          PROVE  ~Half(d, rows[request[d].id].text)'
      <4>1. ~Half(d, rows[request[d].id].text) /\ request[d].sets \subseteq Field
        BY <2>1, <2>2, <3>1 DEF OneStep, RowsAreWhole, VaultKept, AllIsLeft
      <4>2. \A g \in Field : request[d].was[g] # c
        BY <1>1, <2>1, <3>1 DEF OneStep, WasIsOlder
      <4>3. \A g \in Field : \/ rows'[request[d].id].text[g] = c
                             \/ rows'[request[d].id].text[g] = rows[request[d].id].text[g]
        BY <1>3, <3>1 DEF Exists
      <4> QED BY <1>2, <3>1, <4>1, <4>2, <4>3 DEF Half
    <3> QED BY <1>1, <1>2, <3>1 DEF RowsAreWhole, Kinded, Exists
  <2>8. AnswersAreOwn'
    BY <1>1, <1>2, <2>1 DEF OneStep, AnswersAreOwn, Answered, Kinded
  <2>9. ReadersSeeWhole'
    <3>1. ASSUME NEW r \in Call, NEW d \in Call, Answered(r, {"get", "list"})',
                 Kinded(d, {"update"})', request'[d].id \in DOMAIN request'[r].got
          PROVE  ~Half(d, request[r].got[request[d].id].text)'
      <4>1. /\ request'[r].got = request[r].got /\ request'[d].id = request[d].id
            /\ request'[d].was = request[d].was /\ request'[d].sets = request[d].sets
            /\ Answered(r, {"get", "list"}) /\ Kinded(d, {"update"})
        BY <1>2, <3>1 DEF Answered, Kinded
      <4>2. ~Half(d, request[r].got[request[d].id].text)
        BY <2>1, <3>1, <4>1 DEF OneStep, ReadersSeeWhole
      <4> QED BY <4>1, <4>2 DEF Half
    <3> QED BY <3>1 DEF ReadersSeeWhole
  <2> QED BY <2>3, <2>4, <2>5, <2>6, <2>7, <2>8, <2>9 DEF OneStep
<1> QED BY <1>1, <1>2, <1>5, <1>6, <1>7, <1>8 DEF VaultKept

\* What an answer changes in the request.
LEMMA AnswerFields ==
  ASSUME VaultKept, NEW c \in Call, NEW status, NEW got, Answers(c, status, got)
  PROVE  /\ request'[c].at = status /\ request'[c].got = got
         /\ request'[c].left = request[c].left /\ request'[c].was = request[c].was
         /\ request'[c].kind = request[c].kind /\ request'[c].on = request[c].on
         /\ request'[c].id = request[c].id /\ request'[c].aim = request[c].aim
         /\ request'[c].sets = request[c].sets
         /\ OtherRequests(c) /\ Shape'
<1>1. request' = [request EXCEPT ![c] = [request[c] EXCEPT !.at = status, !.got = got]]
  BY DEF Answers, VaultKept, Shape
<1>2. request'[c] = [request[c] EXCEPT !.at = status, !.got = got]
  BY <1>1 DEF VaultKept, Shape
<1>3. OtherRequests(c) /\ request' = [d \in Call |-> request'[d]]
  BY <1>1 DEF VaultKept, Shape, OtherRequests
<1>4. /\ request'[c].at = status /\ request'[c].got = got
      /\ request'[c].left = request[c].left /\ request'[c].was = request[c].was
      /\ request'[c].kind = request[c].kind /\ request'[c].on = request[c].on
      /\ request'[c].id = request[c].id /\ request'[c].aim = request[c].aim
      /\ request'[c].sets = request[c].sets /\ IsRequest(request'[c])
  BY <1>2 DEF VaultKept, Shape, IsRequest
<1> QED BY <1>3, <1>4 DEF VaultKept, Shape, OtherRequests

\* An answer that says what is there, after all that the request had to do.
LEMMA AnswerStep ==
  ASSUME VaultAssumption, VaultKept, NEW c \in Call, NEW status \in {"done", "failed"}, NEW got,
         Answers(c, status, got), UNCHANGED <<seq, alone>>,
         (request[c].at = "runs" \/ (Waits(c) /\ Kinded(c, {"export"}))),
         DOMAIN rows' \subseteq DOMAIN rows, \A i \in DOMAIN rows' : rows'[i] = rows[i],
         \A i \in DOMAIN got : i \in DOMAIN rows /\ got[i] = rows[i],
         Kinded(c, {"create", "update"}) /\ status = "done" =>
           request[c].left = {} /\ request[c].id \in DOMAIN got,
         Kinded(c, {"create", "update"}) /\ status = "failed" => ~Exists(c)
  PROVE  VaultKept'
<1>1. /\ request'[c].at = status /\ request'[c].got = got
      /\ request'[c].left = request[c].left /\ request'[c].was = request[c].was
      /\ request'[c].kind = request[c].kind /\ request'[c].on = request[c].on
      /\ request'[c].id = request[c].id /\ request'[c].aim = request[c].aim
      /\ request'[c].sets = request[c].sets
      /\ OtherRequests(c) /\ Shape'
  BY AnswerFields
<1>2. request[c].at # "new"
  BY DEF Waits
<1>3. TypeOK'
  BY <1>1 DEF VaultKept, TypeOK, Kinded, OtherRequests
<1>4. IdsAreNotReused'
  BY <1>1, <1>2 DEF VaultKept, IdsAreNotReused, Exists, OtherRequests
<1>5. AllIsLeft'
  BY <1>1 DEF VaultKept, AllIsLeft, Kinded, Waits, OtherRequests
<1>6. ASSUME alone PROVE OneStep'
  <2> USE DEF OtherRequests
  <2>1. OneStep
    BY <1>6 DEF VaultKept
  <2>2. request[c].at = "runs" => \A d \in Call \ {c} : request[d].at # "runs"
    BY <2>1 DEF OneStep, OneRuns
  <2>3. OneRuns'
    BY <1>1, <1>2, <2>1 DEF OneStep, OneRuns
  <2>4. Unwritten'
    BY <1>1, <2>1 DEF OneStep, Unwritten
  <2>5. WasIsOlder'
    BY <1>1, <2>1 DEF OneStep, WasIsOlder
  <2>6. DoneSoFar'
    BY <1>1, <2>1 DEF OneStep, DoneSoFar, Exists, Kinded
  <2>7. Kinded(c, {"update"}) /\ status = "done" =>
          \A f \in request[c].sets : rows[request[c].id].text[f] = c
    BY <2>1 DEF OneStep, DoneSoFar, Exists, Kinded
  <2>8. RowsAreWhole'
    <3>1. ASSUME Kinded(c, {"update"}), Exists(c)'
          PROVE  ~Half(c, rows[request[c].id].text)'
      BY <1>1, <2>7, <3>1 DEF Half, Exists, Kinded
    <3>2. ASSUME NEW d \in Call, d # c, Kinded(d, {"update"}), request[d].at # "runs", Exists(d)'
          PROVE  ~Half(d, rows[request[d].id].text)'
      BY <1>1, <2>1, <3>2 DEF OneStep, RowsAreWhole, Half, Exists
    <3> QED BY <1>1, <3>1, <3>2 DEF RowsAreWhole, Kinded
  <2>9. AnswersAreOwn'
    <3>1. Kinded(c, {"create"}) /\ status = "done" => got[request[c].id] = Row(c)
      BY <2>1 DEF OneStep, DoneSoFar, Exists, Kinded
    <3> QED BY <1>1, <2>1, <2>7, <3>1 DEF OneStep, AnswersAreOwn, Answered, Kinded
  <2>10. ReadersSeeWhole'
    <3>1. ASSUME NEW d \in Call, Kinded(d, {"update"}), Kinded(c, {"get", "list"}),
                 request[d].id \in DOMAIN got
          PROVE  ~Half(d, got[request[d].id].text)
      BY <2>1, <2>2, <3>1 DEF OneStep, RowsAreWhole, Exists, Kinded
    <3>2. ASSUME NEW r \in Call, NEW d \in Call, Answered(r, {"get", "list"})',
                 Kinded(d, {"update"})', request'[d].id \in DOMAIN request'[r].got
          PROVE  ~Half(d, request[r].got[request[d].id].text)'
      <4>1. CASE r = c
        BY <1>1, <3>1, <3>2, <4>1 DEF Half, Answered, Kinded
      <4>2. CASE r # c
        BY SMTT(30), <1>1, <2>1, <3>2, <4>2 DEF OneStep, ReadersSeeWhole, Answered, Kinded, Half
      <4> QED BY <4>1, <4>2
    <3> QED BY <3>2 DEF ReadersSeeWhole
  <2> QED BY <2>3, <2>4, <2>5, <2>6, <2>8, <2>9, <2>10 DEF OneStep
<1> QED BY <1>1, <1>3, <1>4, <1>5, <1>6 DEF VaultKept

\* The answers of the handlers.
LEMMA HandlersAnswer ==
  ASSUME VaultAssumption, VaultKept, NEW c \in Call,
         Select(c) \/ Imported(c) \/ Delete(c) \/ List(c) \/ Export(c)
  PROVE  VaultKept'
<1>1. CASE Select(c)
  <2>1. CASE Exists(c)
    <3> DEFINE got == [i \in {request[c].id} |-> rows[i]]
    <3>1. /\ Answers(c, "done", got) /\ UNCHANGED <<rows, seq, alone>>
          /\ request[c].at = "runs" /\ request[c].left = {}
      BY <1>1, <2>1 DEF Select, Runs
    <3>2. /\ \A i \in DOMAIN got : i \in DOMAIN rows /\ got[i] = rows[i]
          /\ request[c].id \in DOMAIN got
      BY <2>1 DEF Exists
    <3> HIDE DEF got
    <3> QED BY <3>1, <3>2, AnswerStep
  <2>2. CASE ~Exists(c)
    <3>1. /\ Answers(c, "failed", <<>>) /\ UNCHANGED <<rows, seq, alone>>
          /\ request[c].at = "runs" /\ DOMAIN <<>> = {}
      BY <1>1, <2>2 DEF Select, Runs
    <3> QED BY <2>2, <3>1, AnswerStep
  <2> QED BY <2>1, <2>2
<1>2. CASE Imported(c) \/ Delete(c)
  <2>1. /\ Answers(c, "done", <<>>) /\ UNCHANGED <<seq, alone>> /\ request[c].at = "runs"
        /\ DOMAIN rows' \subseteq DOMAIN rows /\ \A i \in DOMAIN rows' : rows'[i] = rows[i]
        /\ ~Kinded(c, {"create", "update"}) /\ DOMAIN <<>> = {}
    <3>1. CASE Imported(c)
      BY <3>1 DEF Imported, Runs, Kinded
    <3>2. CASE Delete(c)
      BY <3>2 DEF Delete, Runs, Kinded
    <3> QED BY <1>2, <3>1, <3>2
  <2> QED BY <2>1, AnswerStep
<1>3. CASE List(c) \/ Export(c)
  <2>1. /\ Answers(c, "done", rows) /\ UNCHANGED <<rows, seq, alone>>
        /\ (request[c].at = "runs" \/ (Waits(c) /\ Kinded(c, {"export"})))
        /\ ~Kinded(c, {"create", "update"})
    BY <1>3 DEF List, Export, Runs, Kinded
  <2> QED BY <2>1, AnswerStep
<1> QED BY <1>1, <1>2, <1>3

\* A statement fails, and the rest of the handler is not run.
LEMMA FailsStep ==
  ASSUME VaultKept, NEW c \in Call, Fails(c)
  PROVE  VaultKept'
<1>1. /\ Answers(c, "failed", <<>>) /\ request[c].at = "runs" /\ alone' = FALSE
      /\ UNCHANGED <<rows, seq>>
  BY DEF Fails
<1>2. /\ request'[c].at = "failed"
      /\ request'[c].left = request[c].left /\ request'[c].was = request[c].was
      /\ request'[c].kind = request[c].kind /\ request'[c].on = request[c].on
      /\ request'[c].id = request[c].id /\ request'[c].aim = request[c].aim
      /\ request'[c].sets = request[c].sets
      /\ OtherRequests(c) /\ Shape'
  BY <1>1, AnswerFields
<1>3. TypeOK'
  BY <1>1, <1>2 DEF VaultKept, TypeOK, Kinded, OtherRequests
<1>4. IdsAreNotReused'
  BY <1>1, <1>2 DEF VaultKept, IdsAreNotReused, Exists, OtherRequests
<1>5. AllIsLeft'
  BY <1>2 DEF VaultKept, AllIsLeft, Kinded, Waits, OtherRequests
<1> QED BY <1>1, <1>2, <1>3, <1>4, <1>5 DEF VaultKept

\* A process is killed between two statements.
LEMMA KillStep ==
  ASSUME VaultKept, NEW p \in Proc, Kill(p)
  PROVE  VaultKept'
<1>1. /\ alone' = FALSE /\ UNCHANGED <<rows, seq>>
      /\ request' = [c \in Call |->
           IF request[c].on = p /\ request[c].at \in {"waits", "runs"}
           THEN [request[c] EXCEPT !.at = "failed"] ELSE request[c]]
  BY DEF Kill
<1>2. ASSUME NEW c \in Call
      PROVE  /\ \/ request'[c].at = request[c].at
                \/ request[c].at # "new" /\ request'[c].at = "failed"
             /\ request'[c].left = request[c].left /\ request'[c].was = request[c].was
             /\ request'[c].kind = request[c].kind /\ request'[c].on = request[c].on
             /\ request'[c].id = request[c].id /\ request'[c].aim = request[c].aim
             /\ request'[c].sets = request[c].sets /\ IsRequest(request'[c])
  <2>1. CASE request'[c] = request[c]
    BY <2>1 DEF VaultKept, Shape
  <2>2. CASE request'[c] = [request[c] EXCEPT !.at = "failed"]
            /\ request[c].at \in {"waits", "runs"}
    BY <2>2 DEF VaultKept, Shape, IsRequest
  <2> QED BY <1>1, <2>1, <2>2
<1>3. Shape'
  <2>1. request' = [c \in Call |-> request'[c]]
    BY <1>1
  <2> QED BY <1>2, <2>1 DEF Shape
<1>4. TypeOK'
  BY <1>1, <1>2 DEF VaultKept, TypeOK, Kinded
<1>5. IdsAreNotReused'
  BY <1>1, <1>2 DEF VaultKept, IdsAreNotReused, Exists
<1>6. AllIsLeft'
  BY <1>2 DEF VaultKept, AllIsLeft, Kinded, Waits
<1> QED BY <1>1, <1>3, <1>4, <1>5, <1>6 DEF VaultKept

\* Nothing happens.
LEMMA VaultStutters ==
  ASSUME VaultKept, UNCHANGED vars
  PROVE  VaultKept'
<1>1. TypeOK' /\ IdsAreNotReused' /\ Shape' /\ AllIsLeft'
  BY DEF vars, VaultKept, TypeOK, IdsAreNotReused, Shape, IsRequest, AllIsLeft, Kinded, Waits, Exists
<1>2. OneStep' = OneStep
  BY DEF vars, OneStep, OneRuns, Unwritten, WasIsOlder, DoneSoFar, RowsAreWhole,
         AnswersAreOwn, ReadersSeeWhole, Answered, Kinded, Exists, Half
<1> QED BY <1>1, <1>2 DEF VaultKept, vars

-----------------------------------------------------------------------------
\* For every number of processes, requests, columns and ids: a late request
\* finds the snippet its client saw or none, whatever was deleted and inserted
\* since; and in one process that nothing fails in, an update, a create and an
\* import are each one step for every answer, though each of their statements
\* commits by itself (AUTOINCREMENT, and the lock of the connection).
THEOREM AHandlerIsOneStep == Spec => []VaultInv
<1>a. VaultAssumption
  BY StoresAssumption
<1>1. Init => VaultKept
  BY <1>a, VaultInit
<1>2. VaultKept /\ [Next]_vars => VaultKept'
  <2> SUFFICES ASSUME VaultKept, [Next]_vars PROVE VaultKept'
    OBVIOUS
  <2>1. ASSUME NEW c \in Call, NEW p \in Proc, NEW k \in Kinds, NEW i \in DOMAIN rows,
               NEW n \in Statements(k), Ask(c, p, k, i, n)
        PROVE  VaultKept'
    BY <1>a, <2>1, AskStep
  <2>2. ASSUME NEW c \in Call, Handler(c) PROVE VaultKept'
    BY <1>a, <2>2, LockStep, InsertStep, SetColumnStep, HandlersAnswer, FailsStep DEF Handler
  <2>3. ASSUME NEW p \in Proc, Kill(p) PROVE VaultKept'
    BY <2>3, KillStep
  <2>4. CASE UNCHANGED vars
    BY <2>4, VaultStutters
  <2> QED BY <2>1, <2>2, <2>3, <2>4 DEF Next
<1>3. VaultKept => VaultInv
  BY DEF VaultKept, VaultInv, OneStep
<1> QED BY <1>1, <1>2, <1>3, PTL DEF Spec

-----------------------------------------------------------------------------
(* The commands on files, and file-manager. *)

PathSet == Seq(Name)

\* A tree of paths: what is above a path in it is a directory of it.
IsTree(t) ==
  /\ DOMAIN t \subseteq PathSet
  /\ F!IsDir(t, <<>>)
  /\ \A p \in DOMAIN t : \A k \in 0..(Len(p) - 1) : F!IsDir(t, SubSeq(p, 1, k))

\* The contents of a tree.
Holds(t) == F!Contents(t, DOMAIN t)

-----------------------------------------------------------------------------
(* Paths. *)

\* The path k names down p.
LEMMA Above ==
  ASSUME NEW p \in PathSet, NEW k \in 0..Len(p)
  PROVE  /\ SubSeq(p, 1, k) \in PathSet /\ Len(SubSeq(p, 1, k)) = k
         /\ \A i \in 1..k : SubSeq(p, 1, k)[i] = p[i]
         /\ k = Len(p) => SubSeq(p, 1, k) = p
         /\ k = 0 => SubSeq(p, 1, k) = <<>>
<1>1. \A i \in 1..k : p[i] \in Name
  BY DEF PathSet
<1>2. Len(p) \in Nat /\ k \in Int /\ k >= 0
  BY DEF PathSet
<1>3. /\ SubSeq(p, 1, k) \in PathSet /\ Len(SubSeq(p, 1, k)) = k
      /\ \A i \in 1..k : SubSeq(p, 1, k)[i] = p[i]
  BY <1>1, <1>2, SubSeqProperties DEF PathSet
<1>4. k = Len(p) => SubSeq(p, 1, k) = p
  BY SubSeqFull DEF PathSet
<1>5. k = 0 => SubSeq(p, 1, k) = <<>>
  BY <1>2, SubSeqEmpty
<1> QED BY <1>3, <1>4, <1>5

\* Two paths are the same when they are name by name.
LEMMA SamePath ==
  ASSUME NEW p \in PathSet, NEW q \in PathSet, Len(p) = Len(q),
         \A i \in 1..Len(p) : p[i] = q[i]
  PROVE  p = q
  BY SeqEqual DEF PathSet

\* A path above a path above p is above p.
LEMMA AboveAbove ==
  ASSUME NEW p \in PathSet, NEW k \in 0..Len(p), NEW j \in 0..k
  PROVE  SubSeq(SubSeq(p, 1, k), 1, j) = SubSeq(p, 1, j)
<1>1. Len(p) \in Nat
  BY DEF PathSet
<1>2. j \in 0..Len(p)
  BY <1>1
<1>3. /\ SubSeq(p, 1, k) \in PathSet /\ Len(SubSeq(p, 1, k)) = k
      /\ \A i \in 1..k : SubSeq(p, 1, k)[i] = p[i]
  BY Above
<1>4. /\ SubSeq(p, 1, j) \in PathSet /\ Len(SubSeq(p, 1, j)) = j
      /\ \A i \in 1..j : SubSeq(p, 1, j)[i] = p[i]
  BY <1>2, Above
<1> DEFINE r == SubSeq(p, 1, k)
<1>5. /\ SubSeq(r, 1, j) \in PathSet /\ Len(SubSeq(r, 1, j)) = j
      /\ \A i \in 1..j : SubSeq(r, 1, j)[i] = r[i]
  BY <1>3, Above
<1>6. \A i \in 1..j : SubSeq(r, 1, j)[i] = SubSeq(p, 1, j)[i]
  BY <1>3, <1>4, <1>5
<1> QED BY <1>4, <1>5, <1>6, SamePath

\* p is a prefix of q when q starts with the names of p: then p is above q.
LEMMA PrefixOf ==
  ASSUME NEW p \in PathSet, NEW q \in PathSet
  PROVE  /\ F!IsPrefix(p, q) <=> Len(p) <= Len(q) /\ \A i \in 1..Len(p) : p[i] = q[i]
         /\ F!IsPrefix(p, q) <=> Len(p) <= Len(q) /\ p = SubSeq(q, 1, Len(p))
<1>1. Len(p) \in Nat /\ Len(q) \in Nat
  BY DEF PathSet
<1>2. SubSeq(p, 1, Len(p)) = p
  BY <1>1, Above
<1>3. F!IsPrefix(p, q) <=> Len(p) <= Len(q) /\ p = SubSeq(q, 1, Len(p))
  BY <1>2 DEF F!IsPrefix
<1>4. ASSUME Len(p) <= Len(q)
      PROVE  p = SubSeq(q, 1, Len(p)) <=> \A i \in 1..Len(p) : p[i] = q[i]
  <2>1. /\ SubSeq(q, 1, Len(p)) \in PathSet /\ Len(SubSeq(q, 1, Len(p))) = Len(p)
        /\ \A i \in 1..Len(p) : SubSeq(q, 1, Len(p))[i] = q[i]
    BY <1>1, <1>4, Above
  <2> QED BY <2>1, SamePath
<1> QED BY <1>3, <1>4

\* What is a prefix of a path above q is a prefix of q.
LEMMA PrefixOfAbove ==
  ASSUME NEW p \in PathSet, NEW q \in PathSet, NEW k \in 0..Len(q), F!IsPrefix(p, SubSeq(q, 1, k))
  PROVE  F!IsPrefix(p, q) /\ Len(p) <= k
<1> DEFINE r == SubSeq(q, 1, k)
<1>1. Len(p) \in Nat /\ Len(q) \in Nat
  BY DEF PathSet
<1>2. r \in PathSet /\ Len(r) = k /\ \A i \in 1..k : r[i] = q[i]
  BY Above
<1> HIDE DEF r
<1>3. F!IsPrefix(p, r)
  BY DEF r
<1>4. Len(p) <= k /\ \A i \in 1..Len(p) : p[i] = r[i]
  BY <1>2, <1>3, PrefixOf
<1>5. Len(p) <= Len(q) /\ \A i \in 1..Len(p) : p[i] = q[i]
  BY <1>1, <1>2, <1>4
<1> QED BY <1>4, <1>5, PrefixOf

\* The directory a path is in, and the paths above it.
LEMMA ParentOf ==
  ASSUME NEW p \in PathSet, p # <<>>
  PROVE  /\ Len(p) \in Nat \ {0} /\ F!Parent(p) \in PathSet /\ Len(F!Parent(p)) = Len(p) - 1
         /\ p[Len(p)] \in Name /\ F!Last(p) = p[Len(p)]
         /\ Append(F!Parent(p), F!Last(p)) = p
<1>1. Len(p) \in Nat \ {0}
  BY EmptySeq DEF PathSet
<1>2. /\ F!Parent(p) \in PathSet /\ Len(F!Parent(p)) = Len(p) - 1
      /\ \A i \in 1..(Len(p) - 1) : F!Parent(p)[i] = p[i]
  <2>1. Len(p) - 1 \in 0..Len(p)
    BY <1>1
  <2> QED BY <2>1, Above DEF F!Parent
<1>3. p[Len(p)] \in Name /\ F!Last(p) = p[Len(p)]
  BY <1>1 DEF F!Last, PathSet
<1>4. Append(F!Parent(p), F!Last(p)) = p
  <2> DEFINE r == F!Parent(p)
  <2>1. r \in Seq(Name) /\ p[Len(p)] \in Name
    BY <1>2, <1>3 DEF PathSet
  <2>a. Len(r) = Len(p) - 1 /\ \A i \in 1..(Len(p) - 1) : r[i] = p[i]
    BY <1>2
  <2> HIDE DEF r
  <2>2. /\ Append(r, p[Len(p)]) \in PathSet /\ Len(Append(r, p[Len(p)])) = Len(r) + 1
        /\ \A i \in 1..Len(r) : Append(r, p[Len(p)])[i] = r[i]
        /\ Append(r, p[Len(p)])[Len(r) + 1] = p[Len(p)]
    BY <2>1, AppendProperties DEF PathSet
  <2>3. \A i \in 1..Len(p) : Append(r, p[Len(p)])[i] = p[i]
    BY <1>1, <2>a, <2>2
  <2>b. Len(Append(r, p[Len(p)])) = Len(p)
    BY <1>1, <2>a, <2>2
  <2>4. Append(r, p[Len(p)]) = p
    BY <2>b, <2>2, <2>3, SamePath
  <2> QED BY <1>3, <2>4 DEF r
<1> QED BY <1>1, <1>2, <1>3, <1>4

\* One more name.
LEMMA ChildOf ==
  ASSUME NEW p \in PathSet, NEW n \in Name
  PROVE  /\ Append(p, n) \in PathSet /\ Append(p, n) # <<>> /\ Len(Append(p, n)) = Len(p) + 1
         /\ F!Parent(Append(p, n)) = p /\ F!Last(Append(p, n)) = n
<1>1. /\ Append(p, n) \in PathSet /\ Append(p, n) # <<>> /\ Len(Append(p, n)) = Len(p) + 1
      /\ \A i \in 1..Len(p) : Append(p, n)[i] = p[i]
      /\ Append(p, n)[Len(p) + 1] = n
  BY AppendProperties DEF PathSet
<1> DEFINE q == Append(p, n)
<1>2. q \in PathSet /\ q # <<>> /\ Len(q) = Len(p) + 1 /\ Len(p) \in Nat
  BY <1>1 DEF PathSet
<1>3. F!Last(q) = n
  BY <1>1, <1>2 DEF F!Last
<1>4. /\ F!Parent(q) \in PathSet /\ Len(F!Parent(q)) = Len(p)
      /\ \A i \in 1..Len(p) : F!Parent(q)[i] = q[i]
  <2> HIDE DEF q
  <2>1. Len(p) \in 0..Len(q)
    BY <1>2
  <2> QED BY <1>2, <2>1, Above DEF F!Parent
<1>5. F!Parent(q) = p
  BY <1>1, <1>4, SamePath
<1> QED BY <1>2, <1>3, <1>5

\* The names of the path at dst that corresponds to q at src.
LEMMA MovedNames ==
  ASSUME NEW src \in PathSet, NEW dst \in PathSet, NEW q \in PathSet, Len(src) <= Len(q)
  PROVE  LET m == F!Moved(q, src, dst) IN
         /\ m \in PathSet /\ Len(m) = Len(dst) + Len(q) - Len(src)
         /\ \A i \in 1..Len(m) :
              m[i] = IF i <= Len(dst) THEN dst[i] ELSE q[i - Len(dst) + Len(src)]
<1> DEFINE s == SubSeq(q, Len(src) + 1, Len(q))
           m == dst \o s
<1>1. PICK n \in Nat, d \in Nat, l \in Nat : n = Len(src) /\ d = Len(dst) /\ l = Len(q) /\ n <= l
  BY DEF PathSet
<1>2. s \in PathSet /\ Len(s) = l - n /\ \A i \in 1..(l - n) : s[i] = q[i + n]
  <2>1. \A i \in (n + 1)..l : q[i] \in Name
    BY <1>1 DEF PathSet
  <2>2. n + 1 \in Int /\ l \in Int
    BY <1>1
  <2>3. /\ SubSeq(q, n + 1, l) \in Seq(Name)
        /\ Len(SubSeq(q, n + 1, l)) = IF n + 1 <= l THEN l - (n + 1) + 1 ELSE 0
        /\ \A i \in 1..(l - (n + 1) + 1) : SubSeq(q, n + 1, l)[i] = q[(n + 1) + i - 1]
    <3> HIDE DEF PathSet
    <3> QED BY <2>1, <2>2, SubSeqProperties
  <2>4. Len(SubSeq(q, n + 1, l)) = l - n
    BY <1>1, <2>3
  <2>5. ASSUME NEW i \in 1..(l - n) PROVE SubSeq(q, n + 1, l)[i] = q[i + n]
    <3>1. i \in 1..(l - (n + 1) + 1) /\ (n + 1) + i - 1 = i + n
      BY <1>1
    <3> QED BY <2>3, <3>1
  <2> QED BY <1>1, <2>3, <2>4, <2>5 DEF PathSet
<1> HIDE DEF s
<1>3. /\ m \in PathSet /\ Len(m) = d + (l - n)
      /\ \A i \in 1..(d + (l - n)) : m[i] = IF i <= d THEN dst[i] ELSE s[i - d]
  <2>1. dst \in Seq(Name) /\ s \in Seq(Name)
    BY <1>2 DEF PathSet
  <2>2. /\ m \in Seq(Name) /\ Len(m) = Len(dst) + Len(s)
        /\ \A i \in 1..(Len(dst) + Len(s)) : m[i] = IF i <= Len(dst) THEN dst[i] ELSE s[i - Len(dst)]
    BY <2>1, ConcatProperties
  <2> HIDE DEF m
  <2> QED BY <1>1, <1>2, <2>2 DEF PathSet
<1> HIDE DEF m
<1>4. ASSUME NEW i \in 1..Len(m) PROVE m[i] = IF i <= d THEN dst[i] ELSE q[i - d + n]
  <2>1. CASE i <= d
    BY <1>1, <1>3, <2>1
  <2>2. CASE ~(i <= d)
    <3>1. i - d \in 1..(l - n) /\ m[i] = s[i - d]
      BY <1>1, <1>3, <2>2
    <3>2. s[i - d] = q[(i - d) + n]
      BY <1>2, <3>1
    <3> QED BY <2>2, <3>1, <3>2
  <2> QED BY <2>1, <2>2
<1>5. Len(m) = d + l - n
  BY <1>1, <1>3
<1> QED BY <1>1, <1>3, <1>4, <1>5 DEF F!Moved, m, s

\* The path at dst that corresponds to q at src, and back.
LEMMA MovedTo ==
  ASSUME NEW src \in PathSet, NEW dst \in PathSet, NEW q \in PathSet, F!IsPrefix(src, q)
  PROVE  LET m == F!Moved(q, src, dst) IN
         /\ m \in PathSet /\ Len(m) = Len(dst) + Len(q) - Len(src) /\ F!IsPrefix(dst, m)
         /\ \A i \in 1..Len(m) :
              m[i] = IF i <= Len(dst) THEN dst[i] ELSE q[i - Len(dst) + Len(src)]
         /\ F!Moved(m, dst, src) = q
<1> DEFINE m == F!Moved(q, src, dst)
           z == F!Moved(m, dst, src)
<1>1. Len(src) <= Len(q) /\ \A i \in 1..Len(src) : src[i] = q[i]
  BY PrefixOf
<1>2. PICK n \in Nat, d \in Nat, l \in Nat : n = Len(src) /\ d = Len(dst) /\ l = Len(q) /\ n <= l
  BY <1>1 DEF PathSet
<1>3. /\ m \in PathSet /\ Len(m) = Len(dst) + Len(q) - Len(src)
      /\ \A i \in 1..Len(m) : m[i] = IF i <= Len(dst) THEN dst[i] ELSE q[i - Len(dst) + Len(src)]
  BY <1>1, MovedNames
<1> HIDE DEF m
<1>4. Len(m) = d + l - n /\ Len(dst) <= Len(m)
  BY <1>2, <1>3
<1>5. /\ z \in PathSet /\ Len(z) = Len(src) + Len(m) - Len(dst)
      /\ \A i \in 1..Len(z) : z[i] = IF i <= Len(src) THEN src[i] ELSE m[i - Len(src) + Len(dst)]
  BY <1>3, <1>4, MovedNames
<1> HIDE DEF z
<1>6. Len(z) = l
  BY <1>2, <1>4, <1>5
<1>7. ASSUME NEW i \in 1..Len(z) PROVE z[i] = q[i]
  <2>1. CASE i <= n
    <3>1. z[i] = src[i] /\ i \in 1..Len(src)
      BY <1>2, <1>5, <1>6, <2>1
    <3> QED BY <1>1, <3>1
  <2>2. CASE ~(i <= n)
    <3>1. PICK j \in Int : j = i - n + d
      <4>1. i \in Int /\ i - n + d \in Int
        BY <1>2, <1>6
      <4> QED BY <4>1
    <3>2. j \in 1..Len(m) /\ ~(j <= d) /\ j - d + n = i
      BY <1>2, <1>4, <1>6, <2>2, <3>1
    <3>3. z[i] = m[j]
      BY <1>2, <1>5, <2>2, <3>1
    <3>4. m[j] = q[j - d + n]
      BY <1>2, <1>3, <3>2
    <3> QED BY <3>2, <3>3, <3>4
  <2> QED BY <2>1, <2>2
<1>8. z = q
  BY <1>2, <1>5, <1>6, <1>7, SamePath
<1>9. F!IsPrefix(dst, m)
  <2>1. \A i \in 1..Len(dst) : dst[i] = m[i]
    BY <1>2, <1>3, <1>4
  <2> QED BY <1>3, <1>4, <2>1, PrefixOf
<1> QED BY <1>3, <1>8, <1>9 DEF m, z

-----------------------------------------------------------------------------
(* Trees. *)

\* What create_dir_all makes of a tree.
LEMMA MkdirTree ==
  ASSUME NEW t, IsTree(t), NEW p \in PathSet, F!MkdirOk(t, p)
  PROVE  LET u == F!Mkdir(t, p) IN
         /\ IsTree(u) /\ F!IsDir(u, p)
         /\ DOMAIN t \subseteq DOMAIN u /\ \A q \in DOMAIN t : u[q] = t[q]
         /\ \A q \in DOMAIN u \ DOMAIN t : u[q] = Dir /\ q \in F!Upto(p)
<1> DEFINE u == F!Mkdir(t, p)
<1>a. Len(p) \in Nat
  BY DEF PathSet
<1>b. \A q \in F!Upto(p) : \E k \in 0..Len(p) : q = SubSeq(p, 1, k)
  BY DEF F!Upto
<1>c. \A k \in 0..Len(p) : SubSeq(p, 1, k) \in F!Upto(p)
  BY DEF F!Upto
<1>1. /\ DOMAIN u = DOMAIN t \cup F!Upto(p)
      /\ \A q \in DOMAIN u : u[q] = IF q \in DOMAIN t THEN t[q] ELSE Dir
  BY DEF F!Mkdir
<1>2. \A q \in F!Upto(p) : F!IsDir(u, q)
  BY <1>1 DEF F!MkdirOk, F!IsDir
<1>3. \A q \in DOMAIN t : F!IsDir(t, q) => F!IsDir(u, q)
  BY <1>1 DEF F!IsDir
<1>4. \A q \in F!Upto(p) : q \in PathSet
  BY <1>b, Above
<1>5. p \in F!Upto(p) /\ <<>> \in F!Upto(p)
  <2>1. SubSeq(p, 1, Len(p)) = p /\ SubSeq(p, 1, 0) = <<>>
    BY <1>a, Above
  <2>2. Len(p) \in 0..Len(p) /\ 0 \in 0..Len(p)
    BY <1>a
  <2> QED BY <1>c, <2>1, <2>2
<1>6. ASSUME NEW q \in DOMAIN u, NEW k \in 0..(Len(q) - 1)
      PROVE  F!IsDir(u, SubSeq(q, 1, k))
  <2>1. CASE q \in DOMAIN t
    BY <1>3, <2>1 DEF IsTree, F!IsDir
  <2>2. CASE q \notin DOMAIN t
    <3>1. PICK l \in 0..Len(p) : q = SubSeq(p, 1, l)
      BY <1>1, <1>b, <2>2
    <3>2. Len(q) = l
      BY <3>1, Above
    <3>3. k \in 0..l /\ k \in 0..Len(p)
      BY <1>a, <3>2
    <3>4. SubSeq(q, 1, k) = SubSeq(p, 1, k)
      BY <3>1, <3>3, AboveAbove
    <3> QED BY <1>2, <1>c, <3>3, <3>4
  <2> QED BY <2>1, <2>2
<1>7. IsTree(u)
  BY <1>1, <1>2, <1>4, <1>5, <1>6 DEF IsTree
<1> HIDE DEF u
<1> QED BY <1>1, <1>2, <1>5, <1>7 DEF u

\* A file is never above another path.
LEMMA WriteTree ==
  ASSUME NEW t, IsTree(t), NEW p \in PathSet, F!WriteOk(t, p), NEW v
  PROVE  LET u == F!Write(t, p, v) IN
         /\ IsTree(u) /\ DOMAIN u = DOMAIN t \cup {p} /\ u[p] = v
         /\ \A q \in DOMAIN t \ {p} : u[q] = t[q]
<1> DEFINE u == F!Write(t, p, v)
<1>1. /\ DOMAIN u = DOMAIN t \cup {p} /\ u[p] = v
      /\ \A q \in DOMAIN t \ {p} : u[q] = t[q]
  BY DEF F!Write
<1>2. p # <<>> /\ F!IsDir(t, F!Parent(p)) /\ ~F!IsDir(t, p)
  BY DEF F!WriteOk
<1>3. \A q : F!IsDir(t, q) => F!IsDir(u, q)
  BY <1>1, <1>2 DEF F!IsDir
<1>4. ASSUME NEW q \in DOMAIN u, NEW k \in 0..(Len(q) - 1)
      PROVE  F!IsDir(t, SubSeq(q, 1, k))
  <2>1. CASE q \in DOMAIN t
    BY <2>1 DEF IsTree
  <2>2. CASE q = p
    <3>1. /\ Len(p) \in Nat \ {0} /\ F!Parent(p) \in PathSet /\ Len(F!Parent(p)) = Len(p) - 1
          /\ F!Parent(p) = SubSeq(p, 1, Len(p) - 1) /\ F!Parent(p) \in DOMAIN t
      BY <1>2, ParentOf DEF F!Parent, F!IsDir
    <3>2. CASE k = Len(p) - 1
      BY <1>2, <2>2, <3>1, <3>2
    <3>3. CASE k # Len(p) - 1
      <4>1. Len(p) - 1 \in 0..Len(p) /\ k \in 0..(Len(p) - 1) /\ k \in 0..(Len(p) - 2)
        BY <2>2, <3>1, <3>3
      <4>2. SubSeq(F!Parent(p), 1, k) = SubSeq(p, 1, k)
        BY <3>1, <4>1, AboveAbove
      <4>3. k \in 0..(Len(F!Parent(p)) - 1)
        BY <3>1, <4>1
      <4>4. F!IsDir(t, SubSeq(F!Parent(p), 1, k))
        BY <3>1, <4>3 DEF IsTree
      <4> QED BY <2>2, <4>2, <4>4
    <3> QED BY <3>2, <3>3
  <2> QED BY <1>1, <2>1, <2>2
<1>5. IsTree(u)
  BY <1>1, <1>3, <1>4 DEF IsTree
<1> HIDE DEF u
<1> QED BY <1>1, <1>5 DEF u

\* What is left when a path and all below it are removed.
LEMMA WithoutTree ==
  ASSUME NEW t, IsTree(t), NEW p \in PathSet, p # <<>>
  PROVE  LET u == F!Without(t, p) IN
         /\ IsTree(u) /\ DOMAIN u = DOMAIN t \ F!Under(t, p)
         /\ \A q \in DOMAIN u : u[q] = t[q]
<1> DEFINE u == F!Without(t, p)
<1>1. /\ DOMAIN u = DOMAIN t \ F!Under(t, p)
      /\ \A q \in DOMAIN u : u[q] = t[q]
  BY DEF F!Without, F!Restrict
<1>2. \A q \in DOMAIN t : q \in F!Under(t, p) <=> F!IsPrefix(p, q)
  BY DEF F!Under
<1>3. DOMAIN t \subseteq PathSet /\ Len(p) \in Nat \ {0} /\ <<>> \in PathSet /\ Len(<<>>) = 0
  BY EmptySeq, ParentOf DEF IsTree, PathSet
<1>4. ~F!IsPrefix(p, <<>>)
  BY <1>3, PrefixOf
<1>5. ASSUME NEW q \in DOMAIN u, NEW k \in 0..(Len(q) - 1)
      PROVE  F!IsDir(u, SubSeq(q, 1, k))
  <2>1. q \in DOMAIN t /\ q \in PathSet /\ ~F!IsPrefix(p, q) /\ Len(q) \in Nat
    BY <1>1, <1>2, <1>3 DEF PathSet
  <2>2. F!IsDir(t, SubSeq(q, 1, k))
    BY <2>1 DEF IsTree
  <2>3. /\ SubSeq(q, 1, k) \in PathSet /\ Len(SubSeq(q, 1, k)) = k
        /\ \A i \in 1..k : SubSeq(q, 1, k)[i] = q[i]
    BY <2>1, Above
  <2>a. k \in 0..Len(q)
    BY <2>1
  <2>4. ~F!IsPrefix(p, SubSeq(q, 1, k))
    BY <2>1, <2>a, PrefixOfAbove
  <2> QED BY <1>1, <1>2, <2>2, <2>4 DEF F!IsDir
<1>6. IsTree(u)
  BY <1>1, <1>2, <1>3, <1>4, <1>5 DEF IsTree, F!IsDir
<1> HIDE DEF u
<1> QED BY <1>1, <1>6 DEF u

-----------------------------------------------------------------------------
(* A rename. *)

\* What a rename may replace has nothing below it.
LEMMA NothingBelow ==
  ASSUME NEW t, IsTree(t), NEW src \in PathSet, NEW dst \in PathSet,
         F!RenameOk(t, src, dst), src # dst
  PROVE  \A q \in DOMAIN t : F!IsPrefix(dst, q) => q = dst
<1> SUFFICES ASSUME NEW q \in DOMAIN t, F!IsPrefix(dst, q), q # dst PROVE FALSE
  OBVIOUS
<1>1. q \in PathSet /\ Len(q) \in Nat /\ Len(dst) \in Nat
  BY DEF IsTree, PathSet
<1>2. Len(dst) <= Len(q) /\ dst = SubSeq(q, 1, Len(dst))
  BY <1>1, PrefixOf
<1>3. Len(dst) # Len(q)
  BY <1>1, <1>2, Above
<1>4. F!IsDir(t, SubSeq(q, 1, Len(dst)))
  BY <1>1, <1>2, <1>3 DEF IsTree
<1>5. F!IsDir(t, dst)
  BY <1>2, <1>4
<1>6. q \in F!Under(t, dst)
  BY DEF F!Under
<1> QED BY <1>5, <1>6 DEF F!RenameOk, F!IsDir, F!IsFile

\* Every path of the tree stays where it is, or is moved, or is replaced.
LEMMA RenameMoves ==
  ASSUME NEW t, IsTree(t), NEW src \in PathSet, NEW dst \in PathSet,
         F!RenameOk(t, src, dst)
  PROVE  LET u == F!Rename(t, src, dst)
             stays == {q \in DOMAIN t : ~F!IsPrefix(src, q) /\ q # dst} IN
         /\ \A q \in stays : ~F!IsPrefix(dst, q) /\ q \in DOMAIN u /\ u[q] = t[q]
         /\ \A q \in DOMAIN t : F!IsPrefix(src, q) =>
              F!Moved(q, src, dst) \in DOMAIN u /\ u[F!Moved(q, src, dst)] = t[q]
         /\ \A r \in DOMAIN u : r \in stays \/ \E q \in DOMAIN t :
              F!IsPrefix(src, q) /\ r = F!Moved(q, src, dst)
<1> DEFINE u == F!Rename(t, src, dst)
           stays == {q \in DOMAIN t : ~F!IsPrefix(src, q) /\ q # dst}
           goes == {F!Moved(q, src, dst) : q \in F!Under(t, src)}
<1>1. F!Under(t, src) = {q \in DOMAIN t : F!IsPrefix(src, q)} /\ DOMAIN t \subseteq PathSet
  BY DEF F!Under, IsTree
<1>2. stays = DOMAIN t \ (F!Under(t, src) \cup {dst})
  BY <1>1
<1>3. u = [q \in stays \cup goes |-> IF q \in goes THEN t[F!Moved(q, dst, src)] ELSE t[q]]
  BY <1>2 DEF F!Rename
<1>4. \A q \in F!Under(t, src) :
        F!IsPrefix(dst, F!Moved(q, src, dst)) /\ F!Moved(F!Moved(q, src, dst), dst, src) = q
  BY <1>1, MovedTo
<1>5. ASSUME NEW q \in stays PROVE ~F!IsPrefix(dst, q)
  <2>1. CASE src = dst
    BY <2>1
  <2>2. CASE src # dst
    BY <2>2, NothingBelow
  <2> QED BY <2>1, <2>2
<1> HIDE DEF u, stays, goes
<1>6. \A r \in goes : \E q \in F!Under(t, src) : r = F!Moved(q, src, dst)
  BY DEF goes
<1>7. \A q \in F!Under(t, src) : F!Moved(q, src, dst) \in goes
  BY DEF goes
<1>8. ASSUME NEW q \in stays PROVE q \in DOMAIN u /\ u[q] = t[q]
  BY <1>3, <1>4, <1>5, <1>6
<1>9. ASSUME NEW q \in F!Under(t, src)
      PROVE  F!Moved(q, src, dst) \in DOMAIN u /\ u[F!Moved(q, src, dst)] = t[q]
  BY <1>3, <1>4, <1>7
<1>10. ASSUME NEW r \in DOMAIN u
       PROVE  r \in stays \/ \E q \in F!Under(t, src) : r = F!Moved(q, src, dst)
  BY <1>3, <1>6
<1> QED BY <1>1, <1>5, <1>8, <1>9, <1>10 DEF u, stays

\* A tree is a tree after it.
LEMMA RenameTree ==
  ASSUME NEW t, IsTree(t), NEW src \in PathSet, NEW dst \in PathSet,
         F!RenameOk(t, src, dst)
  PROVE  IsTree(F!Rename(t, src, dst))
<1> DEFINE u == F!Rename(t, src, dst)
           stays == {q \in DOMAIN t : ~F!IsPrefix(src, q) /\ q # dst}
<1>1. /\ \A q \in stays : ~F!IsPrefix(dst, q) /\ q \in DOMAIN u /\ u[q] = t[q]
      /\ \A q \in DOMAIN t : F!IsPrefix(src, q) =>
           F!Moved(q, src, dst) \in DOMAIN u /\ u[F!Moved(q, src, dst)] = t[q]
      /\ \A r \in DOMAIN u : r \in stays \/ \E q \in DOMAIN t :
           F!IsPrefix(src, q) /\ r = F!Moved(q, src, dst)
  BY RenameMoves
<1>2. \A q : q \in stays <=> q \in DOMAIN t /\ ~F!IsPrefix(src, q) /\ q # dst
  OBVIOUS
<1> HIDE DEF u, stays
<1>3. /\ DOMAIN t \subseteq PathSet /\ F!IsDir(t, <<>>) /\ <<>> \in PathSet /\ Len(<<>>) = 0
      /\ Len(src) \in Nat \ {0} /\ Len(dst) \in Nat \ {0}
      /\ F!IsDir(t, F!Parent(dst)) /\ ~F!IsStrictPrefix(src, dst)
      /\ F!Parent(dst) = SubSeq(dst, 1, Len(dst) - 1)
      /\ F!Parent(dst) \in PathSet /\ Len(F!Parent(dst)) = Len(dst) - 1
  BY EmptySeq, ParentOf DEF IsTree, PathSet, F!RenameOk, F!Parent
\* What is above a path that stays, stays.
<1>4. ASSUME NEW q \in stays, NEW k \in 0..(Len(q) - 1)
      PROVE  F!IsDir(u, SubSeq(q, 1, k))
  <2> DEFINE r == SubSeq(q, 1, k)
  <2>1. q \in DOMAIN t /\ q \in PathSet /\ Len(q) \in Nat /\ ~F!IsPrefix(src, q) /\ ~F!IsPrefix(dst, q)
    BY <1>1, <1>2, <1>3 DEF PathSet
  <2>2. F!IsDir(t, r)
    BY <2>1 DEF IsTree
  <2>3. r \in PathSet /\ Len(r) = k /\ \A i \in 1..k : r[i] = q[i]
    BY <2>1, Above
  <2>a. k \in 0..Len(q)
    BY <2>1
  <2>4. ~F!IsPrefix(src, r) /\ ~F!IsPrefix(dst, r)
    BY <2>1, <2>a, PrefixOfAbove
  <2> HIDE DEF r
  <2>5. r # dst
    BY <1>3, <2>4, PrefixOf
  <2>6. r \in stays
    BY <1>2, <2>2, <2>4, <2>5 DEF F!IsDir
  <2> QED BY <1>1, <2>2, <2>6 DEF F!IsDir, r
\* What is above the place it is renamed to, stays.
<1>5. ASSUME NEW k \in 0..(Len(dst) - 1)
      PROVE  F!IsDir(u, SubSeq(dst, 1, k))
  <2> DEFINE r == SubSeq(dst, 1, k)
  <2>1. r \in PathSet /\ Len(r) = k /\ \A i \in 1..k : r[i] = dst[i]
    BY <1>3, Above
  <2>2. F!IsDir(t, r)
    <3>1. CASE k = Len(dst) - 1
      BY <1>3, <3>1
    <3>2. CASE k # Len(dst) - 1
      <4>1. Len(dst) - 1 \in 0..Len(dst) /\ k \in 0..(Len(dst) - 1) /\ k \in 0..(Len(F!Parent(dst)) - 1)
        BY <1>3, <3>2
      <4>2. SubSeq(F!Parent(dst), 1, k) = r
        BY <1>3, <4>1, AboveAbove
      <4>3. F!IsDir(t, SubSeq(F!Parent(dst), 1, k))
        BY <1>3, <4>1 DEF IsTree, F!IsDir
      <4> QED BY <4>2, <4>3
    <3> QED BY <3>1, <3>2
  <2> HIDE DEF r
  <2>3. ~F!IsPrefix(src, r)
    <3> SUFFICES ASSUME F!IsPrefix(src, r) PROVE FALSE
      OBVIOUS
    <3>1. Len(src) <= k /\ \A i \in 1..Len(src) : src[i] = r[i]
      BY <1>3, <2>1, PrefixOf
    <3>2. Len(src) < Len(dst) /\ \A i \in 1..Len(src) : src[i] = dst[i]
      BY <1>3, <2>1, <3>1
    <3>3. F!IsPrefix(src, dst) /\ src # dst
      BY <1>3, <3>2, PrefixOf
    <3> QED BY <1>3, <3>3 DEF F!IsStrictPrefix
  <2>4. r # dst
    BY <1>3, <2>1
  <2>5. r \in stays
    BY <1>2, <2>2, <2>3, <2>4 DEF F!IsDir
  <2> QED BY <1>1, <2>2, <2>5 DEF F!IsDir, r
\* What is above a path that moves has moved too.
<1>6. ASSUME NEW q \in DOMAIN t, F!IsPrefix(src, q),
             NEW k \in 0..(Len(F!Moved(q, src, dst)) - 1)
      PROVE  F!IsDir(u, SubSeq(F!Moved(q, src, dst), 1, k))
  <2> DEFINE m == F!Moved(q, src, dst)
  <2>1. /\ m \in PathSet /\ Len(m) = Len(dst) + Len(q) - Len(src)
        /\ \A i \in 1..Len(m) : m[i] = IF i <= Len(dst) THEN dst[i] ELSE q[i - Len(dst) + Len(src)]
    BY <1>3, <1>6, MovedTo
  <2>2. /\ q \in PathSet /\ Len(q) \in Nat /\ Len(src) <= Len(q)
        /\ \A i \in 1..Len(src) : src[i] = q[i]
    BY <1>3, <1>6, PrefixOf DEF PathSet
  <2>3. k \in 0..(Len(m) - 1)
    BY <1>6
  <2> HIDE DEF m
  <2>4. SubSeq(m, 1, k) \in PathSet /\ Len(SubSeq(m, 1, k)) = k
        /\ \A i \in 1..k : SubSeq(m, 1, k)[i] = m[i]
    BY <1>3, <2>1, <2>2, <2>3, Above
  <2>5. CASE k < Len(dst)
    <3>1. k \in 0..(Len(dst) - 1) /\ k \in 0..Len(dst)
      BY <1>3, <2>3, <2>5
    <3>2. SubSeq(dst, 1, k) \in PathSet /\ Len(SubSeq(dst, 1, k)) = k
          /\ \A i \in 1..k : SubSeq(dst, 1, k)[i] = dst[i]
      BY <1>3, <3>1, Above
    <3>3. \A i \in 1..k : m[i] = dst[i]
      BY <1>3, <2>1, <2>2, <2>3, <2>5
    <3>4. SubSeq(m, 1, k) = SubSeq(dst, 1, k)
      BY <2>4, <3>2, <3>3, SamePath
    <3> QED BY <1>5, <3>1, <3>4 DEF m
  <2>6. CASE ~(k < Len(dst))
    <3> DEFINE l == k - Len(dst) + Len(src)
    <3>1. l \in 0..(Len(q) - 1) /\ l \in 0..Len(q) /\ l >= Len(src)
      BY <1>3, <2>1, <2>2, <2>3, <2>6
    <3> DEFINE r == SubSeq(q, 1, l)
    <3>2. r \in PathSet /\ Len(r) = l /\ \A i \in 1..l : r[i] = q[i]
      BY <2>2, <3>1, Above
    <3>3. F!IsDir(t, r)
      BY <3>1 DEF IsTree
    <3> HIDE DEF r
    <3>4. F!IsPrefix(src, r)
      BY <1>3, <2>2, <3>1, <3>2, PrefixOf
    <3>5. /\ F!Moved(r, src, dst) \in PathSet
          /\ Len(F!Moved(r, src, dst)) = Len(dst) + l - Len(src)
          /\ \A i \in 1..Len(F!Moved(r, src, dst)) : F!Moved(r, src, dst)[i] =
               IF i <= Len(dst) THEN dst[i] ELSE r[i - Len(dst) + Len(src)]
      <4> HIDE DEF l
      <4> QED BY <3>2, <3>4, MovedTo
    <3>6. Len(F!Moved(r, src, dst)) = k
      BY <1>3, <2>3, <3>5
    <3>7. ASSUME NEW i \in 1..k PROVE F!Moved(r, src, dst)[i] = SubSeq(m, 1, k)[i]
      <4>1. i \in 1..Len(m) /\ SubSeq(m, 1, k)[i] = m[i]
        BY <1>3, <2>1, <2>2, <2>3, <2>4
      <4>2. CASE i <= Len(dst)
        BY <2>1, <3>5, <3>6, <4>1, <4>2
      <4>3. CASE ~(i <= Len(dst))
        <5>1. i - Len(dst) + Len(src) \in 1..l
          BY <1>3, <2>3, <2>6, <4>3
        <5> QED BY <2>1, <3>2, <3>5, <3>6, <4>1, <4>3, <5>1
      <4> QED BY <4>2, <4>3
    <3>8. F!Moved(r, src, dst) = SubSeq(m, 1, k)
      BY <2>4, <3>5, <3>6, <3>7, SamePath
    <3>9. F!Moved(r, src, dst) \in DOMAIN u /\ u[F!Moved(r, src, dst)] = t[r]
      BY <1>1, <3>3, <3>4 DEF F!IsDir
    <3> QED BY <3>3, <3>8, <3>9 DEF F!IsDir, m
  <2> QED BY <2>5, <2>6
<1>7. DOMAIN u \subseteq PathSet
  BY <1>1, <1>2, <1>3, MovedTo
<1>8. F!IsDir(u, <<>>)
  <2>1. ~F!IsPrefix(src, <<>>) /\ <<>> # dst
    BY <1>3, PrefixOf
  <2> QED BY <1>1, <1>2, <1>3, <2>1 DEF F!IsDir
<1>9. ASSUME NEW q \in DOMAIN u, NEW k \in 0..(Len(q) - 1)
      PROVE  F!IsDir(u, SubSeq(q, 1, k))
  BY <1>1, <1>4, <1>6
<1> QED BY <1>7, <1>8, <1>9 DEF IsTree, u

-----------------------------------------------------------------------------
(* The calls. *)

CopyFrame == [src : PathSet, dst : PathSet, left : SUBSET PathSet]
AskOf(r) == r = [kind |-> r.kind, from |-> r.from, to |-> r.to] /\ r.from \in PathSet
IsCall(r) ==
  /\ r = [ask |-> r.ask, at |-> r.at, dst |-> r.dst, stack |-> r.stack, was |-> r.was]
  /\ AskOf(r.ask) /\ r.dst \in PathSet /\ r.stack \in Seq(CopyFrame)
  /\ r.at \in {"new", "looked", "copying", "ok", "error"}
  /\ r.at = "copying" => r.ask.kind \in {"copy", "cp"}
  /\ \A k \in 1..Len(r.stack) : \A q \in r.stack[k].left :
       q # <<>> /\ F!Parent(q) = r.stack[k].src

CallsAre == call = [c \in Call |-> call[c]] /\ \A c \in Call : IsCall(call[c])

\* What a command made sure of when it looked is still so: nothing is where it is to write.
IsFree(t, r) ==
  r.at = "looked" /\ r.ask.kind \in {"create", "rename", "copy"} =>
    r.dst \notin DOMAIN t /\ (r.ask.kind = "copy" => r.ask.from # r.dst)

\* A copy writes beside what it reads; and that of the command makes what it
\* writes, deeper and deeper.
IsApart(t, r) ==
  r.at = "copying" =>
    \A k \in 1..Len(r.stack) :
      /\ r.stack[k].src # r.stack[k].dst
      /\ r.ask.kind = "copy" =>
           /\ r.stack[k].dst \in DOMAIN t
           /\ \A q \in r.stack[k].left : Append(r.stack[k].dst, F!Last(q)) \notin DOMAIN t
           /\ \A l \in 1..(k - 1) : Len(r.stack[l].dst) < Len(r.stack[k].dst)

OneCall ==
  /\ \A c, d \in Call : F!UnderWay(c) /\ F!UnderWay(d) => c = d
  /\ \A c \in Call : ~F!CopiesOntoItself(c)

FilesKept ==
  /\ IsTree(tree) /\ CallsAre
  /\ calm => /\ OneCall /\ F!NothingLost
             /\ \A c \in Call : IsFree(tree, call[c]) /\ IsApart(tree, call[c])

-----------------------------------------------------------------------------
(* What is in a tree after a step. *)

LEMMA ContentsOf ==
  ASSUME NEW t, NEW ps, NEW k
  PROVE  k \in F!Contents(t, ps) <=> \E q \in ps \cap DOMAIN t : t[q] # Dir /\ t[q] = k
  BY DEF F!Contents

\* A file made with the directories above it.
LEMMA MakeKeeps ==
  ASSUME NEW t, IsTree(t), NEW p \in PathSet, F!MkdirOk(t, F!Parent(p)), NEW v,
         F!WriteOk(F!Mkdir(t, F!Parent(p)), p), v # Dir
  PROVE  LET u == F!Write(F!Mkdir(t, F!Parent(p)), p, v) IN
         /\ IsTree(u) /\ v \in Holds(u)
         /\ Holds(t) \subseteq Holds(u) \cup F!Contents(t, {p})
         /\ \A q \in DOMAIN u : q \in DOMAIN t \/ q = p \/ q \in F!Upto(F!Parent(p))
         /\ DOMAIN t \subseteq DOMAIN u
<1> DEFINE w == F!Mkdir(t, F!Parent(p))
           u == F!Write(w, p, v)
<1>1. p # <<>> /\ F!Parent(p) \in PathSet
  BY ParentOf DEF F!WriteOk
<1>2. /\ IsTree(w) /\ DOMAIN t \subseteq DOMAIN w /\ \A q \in DOMAIN t : w[q] = t[q]
      /\ \A q \in DOMAIN w \ DOMAIN t : w[q] = Dir /\ q \in F!Upto(F!Parent(p))
  BY <1>1, MkdirTree
<1>3. F!WriteOk(w, p)
  OBVIOUS
<1> HIDE DEF w
<1>4. /\ IsTree(u) /\ DOMAIN u = DOMAIN w \cup {p} /\ u[p] = v
      /\ \A q \in DOMAIN w \ {p} : u[q] = w[q]
  BY <1>2, <1>3, WriteTree
<1> HIDE DEF u
<1>5. v \in Holds(u)
  BY <1>4, ContentsOf DEF Holds
<1>6. ASSUME NEW k \in Holds(t) PROVE k \in Holds(u) \cup F!Contents(t, {p})
  <2>1. PICK q \in DOMAIN t : t[q] # Dir /\ t[q] = k
    BY <1>6, ContentsOf DEF Holds
  <2>2. CASE q = p
    BY <2>1, <2>2, ContentsOf
  <2>3. CASE q # p
    BY <1>2, <1>4, <2>1, <2>3, ContentsOf DEF Holds
  <2> QED BY <2>2, <2>3
<1> QED BY <1>2, <1>4, <1>5, <1>6 DEF u, w

\* A rename, with the directories made for it.
LEMMA RenameKeeps ==
  ASSUME NEW t, IsTree(t), NEW src \in PathSet, NEW dst \in PathSet,
         F!MkdirOk(t, F!Parent(dst)), F!RenameOk(F!Mkdir(t, F!Parent(dst)), src, dst)
  PROVE  LET u == F!Rename(F!Mkdir(t, F!Parent(dst)), src, dst) IN
         /\ IsTree(u)
         /\ Holds(t) \subseteq Holds(u) \cup (IF src = dst THEN {} ELSE F!Contents(t, {dst}))
<1> DEFINE w == F!Mkdir(t, F!Parent(dst))
           u == F!Rename(w, src, dst)
<1>1. dst # <<>> /\ F!Parent(dst) \in PathSet
  BY ParentOf DEF F!RenameOk
<1>2. IsTree(w) /\ DOMAIN t \subseteq DOMAIN w /\ \A q \in DOMAIN t : w[q] = t[q]
  BY <1>1, MkdirTree
<1>3. F!RenameOk(w, src, dst)
  OBVIOUS
<1> HIDE DEF w
<1>4. IsTree(u)
  BY <1>2, <1>3, RenameTree
<1>5. /\ \A q \in DOMAIN w : ~F!IsPrefix(src, q) /\ q # dst => q \in DOMAIN u /\ u[q] = w[q]
      /\ \A q \in DOMAIN w : F!IsPrefix(src, q) =>
           F!Moved(q, src, dst) \in DOMAIN u /\ u[F!Moved(q, src, dst)] = w[q]
  BY <1>2, <1>3, RenameMoves
<1> HIDE DEF u
<1>6. F!IsPrefix(src, src)
  BY PrefixOf
<1>7. ASSUME NEW k \in Holds(t)
      PROVE  k \in Holds(u) \cup (IF src = dst THEN {} ELSE F!Contents(t, {dst}))
  <2>1. PICK q \in DOMAIN t : t[q] # Dir /\ t[q] = k
    BY <1>7, ContentsOf DEF Holds
  <2>2. CASE F!IsPrefix(src, q)
    BY <1>2, <1>5, <2>1, <2>2, ContentsOf DEF Holds
  <2>3. CASE ~F!IsPrefix(src, q) /\ q # dst
    BY <1>2, <1>5, <2>1, <2>3, ContentsOf DEF Holds
  <2>4. CASE ~F!IsPrefix(src, q) /\ q = dst
    BY <1>6, <2>1, <2>4, ContentsOf
  <2> QED BY <2>2, <2>3, <2>4
<1> QED BY <1>4, <1>7 DEF u, w

\* A removal.
LEMMA RemoveKeeps ==
  ASSUME NEW t, IsTree(t), NEW p \in PathSet, p # <<>>
  PROVE  Holds(t) \subseteq Holds(F!Without(t, p)) \cup F!Contents(t, F!Under(t, p))
<1> DEFINE u == F!Without(t, p)
<1>1. DOMAIN u = DOMAIN t \ F!Under(t, p) /\ \A q \in DOMAIN u : u[q] = t[q]
  BY WithoutTree
<1> HIDE DEF u
<1>2. ASSUME NEW k \in Holds(t) PROVE k \in Holds(u) \cup F!Contents(t, F!Under(t, p))
  <2>1. PICK q \in DOMAIN t : t[q] # Dir /\ t[q] = k
    BY <1>2, ContentsOf DEF Holds
  <2>2. CASE q \in F!Under(t, p)
    BY <2>1, <2>2, ContentsOf
  <2>3. CASE q \notin F!Under(t, p)
    BY <1>1, <2>1, <2>3, ContentsOf DEF Holds
  <2> QED BY <2>2, <2>3
<1> QED BY <1>2 DEF u

-----------------------------------------------------------------------------
(* The steps. *)

LEMMA EndedIs ==
  ASSUME NEW kind, NEW status
  PROVE  F!Ended(kind, status) =
           [ask |-> [kind |-> kind, from |-> <<>>, to |-> <<>>], at |-> status,
            dst |-> <<>>, stack |-> <<>>, was |-> <<>>]
<1> DEFINE new == F!NewCall
           mid == [new EXCEPT !.ask.kind = kind]
<1>1. new = [ask |-> [kind |-> "none", from |-> <<>>, to |-> <<>>], at |-> "new",
             dst |-> <<>>, stack |-> <<>>, was |-> <<>>]
  BY DEF F!NewCall
<1>2. F!Ended(kind, status) = [new EXCEPT !.ask.kind = kind, !.at = status]
  BY DEF F!Ended
<1> HIDE DEF new
<1>3. mid = [new EXCEPT !.ask = [kind |-> kind, from |-> <<>>, to |-> <<>>]]
  <2>1. new.ask = [kind |-> "none", from |-> <<>>, to |-> <<>>]
    BY <1>1
  <2>2. [new.ask EXCEPT !.kind = kind] = [kind |-> kind, from |-> <<>>, to |-> <<>>]
    BY <2>1
  <2> QED BY <2>2
<1>4. mid = [ask |-> [kind |-> kind, from |-> <<>>, to |-> <<>>], at |-> "new",
             dst |-> <<>>, stack |-> <<>>, was |-> <<>>]
  BY <1>1, <1>3
<1>5. [new EXCEPT !.ask.kind = kind, !.at = status] = [mid EXCEPT !.at = status]
  BY <1>1
<1> HIDE DEF mid
<1> QED BY <1>2, <1>4, <1>5

\* What a call is when it has looked.
LookedCall(ask, dst, t) == [F!NewCall EXCEPT !.ask = ask, !.at = "looked", !.dst = dst, !.was = t]

LEMMA LookedIs ==
  ASSUME NEW ask, NEW dst, NEW t
  PROVE  LookedCall(ask, dst, t) =
           [ask |-> ask, at |-> "looked", dst |-> dst, stack |-> <<>>, was |-> t]
<1> DEFINE new == F!NewCall
           r1 == [new EXCEPT !.ask = ask]
           r2 == [r1 EXCEPT !.at = "looked"]
           r3 == [r2 EXCEPT !.dst = dst]
<1>1. new = [ask |-> new.ask, at |-> "new", dst |-> <<>>, stack |-> <<>>, was |-> <<>>]
  BY DEF F!NewCall
<1> HIDE DEF new
<1>2. r1 = [ask |-> ask, at |-> "new", dst |-> <<>>, stack |-> <<>>, was |-> <<>>]
  BY <1>1
<1> HIDE DEF r1
<1>3. r2 = [ask |-> ask, at |-> "looked", dst |-> <<>>, stack |-> <<>>, was |-> <<>>]
  BY <1>2
<1> HIDE DEF r2
<1>4. r3 = [ask |-> ask, at |-> "looked", dst |-> dst, stack |-> <<>>, was |-> <<>>]
  BY <1>3
<1> HIDE DEF r3
<1>5. [r3 EXCEPT !.was = t] = [ask |-> ask, at |-> "looked", dst |-> dst, stack |-> <<>>, was |-> t]
  BY <1>4
<1> QED BY <1>5 DEF LookedCall, new, r1, r2, r3

\* A call that does nothing.
LEMMA IdleCall ==
  ASSUME NEW kind, NEW status \in {"new", "ok", "error"}
  PROVE  IsCall([ask |-> [kind |-> kind, from |-> <<>>, to |-> <<>>], at |-> status,
                 dst |-> <<>>, stack |-> <<>>, was |-> <<>>])
<1>1. <<>> \in PathSet /\ <<>> \in Seq(CopyFrame) /\ Len(<<>>) = 0
  BY EmptySeq DEF PathSet
<1> QED BY <1>1 DEF IsCall, AskOf

\* One call goes on, and the others are as they were.
LEMMA OneGoesOn ==
  ASSUME CallsAre, NEW c \in Call, NEW r, IsCall(r), call' = [call EXCEPT ![c] = r]
  PROVE  CallsAre' /\ call'[c] = r /\ \A d \in Call \ {c} : call'[d] = call[d]
<1>1. call' = [d \in Call |-> IF d = c THEN r ELSE call[d]]
  BY DEF CallsAre
<1>2. call'[c] = r /\ \A d \in Call \ {c} : call'[d] = call[d]
  BY <1>1
<1>3. \A d \in Call : IsCall(call'[d])
  BY <1>2 DEF CallsAre
<1>4. call' = [d \in Call |-> call'[d]]
  BY <1>1
<1> QED BY <1>2, <1>3, <1>4 DEF CallsAre

\* As long as calls come one after the other, the step of one is not in the
\* way of another.
LEMMA OthersAreIdle ==
  ASSUME FilesKept, calm, NEW c \in Call, F!UnderWay(c),
         \A d \in Call \ {c} : call'[d] = call[d]
  PROVE  \A d \in Call \ {c} : ~F!UnderWay(d) /\ IsFree(tree', call'[d]) /\ IsApart(tree', call'[d])
<1>1. ASSUME NEW d \in Call \ {c} PROVE ~F!UnderWay(d)
  BY DEF FilesKept, OneCall
<1>2. ASSUME NEW d \in Call \ {c} PROVE IsFree(tree', call'[d]) /\ IsApart(tree', call'[d])
  BY <1>1, <1>2 DEF F!UnderWay, IsFree, IsApart
<1> QED BY <1>1, <1>2

\* What was in the tree or erased still is, and so is what a call that ends has written.
LEMMA NothingIsLost ==
  ASSUME F!NothingLost, NEW c \in Call, \A d \in Call \ {c} : call'[d] = call[d],
         Holds(tree) \cup erased \subseteq Holds(tree') \cup erased',
         F!Done(c, {"create", "write"})' => c \in Holds(tree')
  PROVE  F!NothingLost'
<1> SUFFICES ASSUME NEW k \in Old \cup {d \in Call : F!Done(d, {"create", "write"})'}
             PROVE  k \in Holds(tree') \cup erased'
  BY DEF F!NothingLost, Holds
<1>1. ASSUME k \in Old \cup {d \in Call : F!Done(d, {"create", "write"})}
      PROVE  k \in Holds(tree) \cup erased
  BY <1>1 DEF F!NothingLost, Holds
<1>2. CASE k \in Old
  BY <1>1, <1>2
<1>3. CASE k \in Call /\ F!Done(k, {"create", "write"})'
  <2>1. CASE k = c
    BY <1>3, <2>1
  <2>2. CASE k # c
    <3>1. F!Done(k, {"create", "write"})
      BY <1>3, <2>2 DEF F!Done, F!Kinded
    <3> QED BY <1>1, <1>3, <3>1
  <2> QED BY <2>1, <2>2
<1> QED BY <1>2, <1>3

\* A call ends, with its answer or with an error.
LEMMA EndsStep ==
  ASSUME FilesKept, NEW c \in Call, F!UnderWay(c), NEW status \in {"ok", "error"}, F!Ends(c, status),
         calm' => calm /\ OneCall', IsTree(tree'),
         calm => Holds(tree) \cup erased \subseteq Holds(tree') \cup erased',
         F!Kinded(c, {"create", "write"}) /\ status = "ok" => c \in Holds(tree')
  PROVE  FilesKept'
<1> DEFINE r == [ask |-> [kind |-> call[c].ask.kind, from |-> <<>>, to |-> <<>>], at |-> status,
                 dst |-> <<>>, stack |-> <<>>, was |-> <<>>]
<1>1. IsCall(r)
  BY IdleCall
<1>2. call' = [call EXCEPT ![c] = r]
  BY EndedIs DEF F!Ends, FilesKept, CallsAre
<1>3. r.ask.kind = call[c].ask.kind /\ r.at = status
  OBVIOUS
<1> HIDE DEF r
<1>4. CallsAre' /\ call'[c] = r /\ \A d \in Call \ {c} : call'[d] = call[d]
  BY <1>1, <1>2, OneGoesOn DEF FilesKept
<1>5. ASSUME calm'
      PROVE  OneCall' /\ F!NothingLost'
             /\ (\A d \in Call : IsFree(tree, call[d]) /\ IsApart(tree, call[d]))'
  <2>1. \A d \in Call \ {c} : IsFree(tree', call'[d]) /\ IsApart(tree', call'[d])
    BY <1>4, <1>5, OthersAreIdle
  <2>2. IsFree(tree', call'[c]) /\ IsApart(tree', call'[c])
    BY <1>3, <1>4 DEF IsFree, IsApart
  <2>3. F!Done(c, {"create", "write"})' => c \in Holds(tree')
    BY <1>3, <1>4 DEF F!Done, F!Kinded
  <2>4. F!NothingLost'
    BY <1>4, <1>5, <2>3, NothingIsLost DEF FilesKept
  <2> QED BY <1>5, <2>1, <2>2, <2>4
<1> QED BY <1>4, <1>5 DEF FilesKept

\* A call looks, and no other is in the way.
LEMMA LookStep ==
  ASSUME FilesKept, NEW c \in Call, NEW ask \in F!Ask, F!Look(c, ask),
         calm' => calm /\ OneCall'
  PROVE  FilesKept'
<1>1. /\ ask = [kind |-> ask.kind, from |-> ask.from, to |-> ask.to]
      /\ ask.from \in PathSet /\ ask.to \in PathSet
  <2>1. Path \subseteq PathSet /\ <<>> \in PathSet
    BY StoresAssumption, EmptySeq DEF F!FileOpsAssumption, PathSet
  <2>2. /\ ask = [kind |-> ask.kind, from |-> ask.from, to |-> ask.to]
        /\ ask.from \in Path \cup {<<>>} /\ ask.to \in Path \cup {<<>>}
    BY DEF F!Ask
  <2> QED BY <2>1, <2>2
<1>2. F!Target(ask) \in PathSet
  <2>1. CASE ask.from # <<>>
    <3>1. F!Last(ask.from) \in Name
      BY <1>1, <2>1, ParentOf
    <3>2. Append(ask.to, F!Last(ask.from)) \in PathSet
      BY <1>1, <3>1, ChildOf
    <3> QED BY <1>1, <3>2 DEF F!Target
  <2>2. CASE ask.from = <<>>
    BY <1>1, <2>2 DEF F!Target
  <2> QED BY <2>1, <2>2
<1> DEFINE looked == [ask |-> ask, at |-> "looked", dst |-> F!Target(ask), stack |-> <<>>, was |-> tree]
           refused == [ask |-> [kind |-> ask.kind, from |-> <<>>, to |-> <<>>], at |-> "error",
                       dst |-> <<>>, stack |-> <<>>, was |-> <<>>]
           r == IF F!Refused(ask) THEN refused ELSE looked
<1>3. call' = [call EXCEPT ![c] = r]
  <2>1. F!Ended(ask.kind, "error") = refused
    BY EndedIs
  <2>2. LookedCall(ask, F!Target(ask), tree) = looked
    BY LookedIs
  <2>3. call' = [call EXCEPT ![c] = IF F!Refused(ask) THEN F!Ended(ask.kind, "error")
                                    ELSE LookedCall(ask, F!Target(ask), tree)]
    BY DEF F!Look, LookedCall
  <2> QED BY <2>1, <2>2, <2>3
<1>4. IsCall(r)
  <2>1. IsCall(refused)
    BY IdleCall
  <2>2. <<>> \in Seq(CopyFrame) /\ Len(<<>>) = 0
    BY EmptySeq
  <2>3. IsCall(looked)
    <3>1. looked = [ask |-> looked.ask, at |-> looked.at, dst |-> looked.dst,
                    stack |-> looked.stack, was |-> looked.was]
      OBVIOUS
    <3>2. AskOf(looked.ask)
      BY <1>1 DEF AskOf
    <3> QED BY <1>2, <2>2, <3>1, <3>2 DEF IsCall
  <2> QED BY <2>1, <2>3
<1>5. r.at \in {"looked", "error"}
  OBVIOUS
<1>6. IsFree(tree, r) /\ IsApart(tree, r)
  <2>1. ~F!Refused(ask) /\ ask.kind \in {"create", "rename", "copy"} =>
          /\ ask.to \notin DOMAIN tree /\ F!Target(ask) = ask.to
          /\ ask.kind = "copy" => ask.from # ask.to
    BY DEF F!Refused, F!Target
  <2> QED BY <2>1 DEF IsFree, IsApart
<1> HIDE DEF r
<1>7. CallsAre' /\ call'[c] = r /\ \A d \in Call \ {c} : call'[d] = call[d]
  BY <1>3, <1>4, OneGoesOn DEF FilesKept
<1>8. tree' = tree /\ erased' = erased
  BY DEF F!Look
<1>9. ~F!Done(c, {"create", "write"})'
  BY <1>5, <1>7 DEF F!Done
<1>10. ASSUME calm'
       PROVE  OneCall' /\ F!NothingLost'
              /\ (\A d \in Call : IsFree(tree, call[d]) /\ IsApart(tree, call[d]))'
  <2>1. F!NothingLost'
    BY <1>7, <1>8, <1>9, <1>10, NothingIsLost DEF FilesKept
  <2>2. \A d \in Call : IsFree(tree', call'[d]) /\ IsApart(tree', call'[d])
    BY <1>6, <1>7, <1>8, <1>10 DEF FilesKept
  <2> QED BY <1>10, <2>1, <2>2
<1> QED BY <1>7, <1>8, <1>10 DEF FilesKept

\* What a call is about.
LEMMA CallFacts ==
  ASSUME CallsAre, NEW c \in Call
  PROVE  /\ F!From(c) \in PathSet /\ F!To(c) \in PathSet /\ call[c].stack \in Seq(CopyFrame)
         /\ F!From(c) = call[c].ask.from /\ F!To(c) = call[c].dst /\ IsCall(call[c])
  BY DEF CallsAre, IsCall, AskOf, F!From, F!To

\* create_file, write_file and file-manager's write.
LEMMA MakeFileStep ==
  ASSUME FilesKept, NEW c \in Call, F!CreateFile(c) \/ F!WriteFile(c),
         calm' => calm /\ OneCall'
  PROVE  FilesKept'
<1>1. /\ call[c].at = "looked" /\ F!UnderWay(c) /\ F!To(c) \in PathSet
      /\ F!To(c) = call[c].dst /\ IsTree(tree)
  BY CallFacts DEF F!CreateFile, F!WriteFile, F!Acts, F!UnderWay, FilesKept
<1>2. PICK covers \in BOOLEAN : F!MakeFile(c, covers) /\ (~covers => F!Kinded(c, {"create"}))
  BY DEF F!CreateFile, F!WriteFile, F!Acts
<1>3. CASE F!Fails(c)
  <2>1. F!Ends(c, "error") /\ tree' = tree /\ erased' = erased
    BY <1>3 DEF F!Fails
  <2> QED BY <1>1, <2>1, EndsStep
<1>4. CASE ~F!Fails(c)
  <2> DEFINE p == F!To(c)
             t == F!Mkdir(tree, F!Parent(p))
  <2>1. /\ F!MkdirOk(tree, F!Parent(p)) /\ F!WriteOk(t, p)
        /\ tree' = F!Write(t, p, c) /\ F!Ends(c, "ok")
        /\ erased' = IF covers THEN erased \cup F!Contents(tree, {p}) ELSE erased
    BY <1>2, <1>4 DEF F!MakeFile
  <2>2. c # Dir
    BY StoresAssumption DEF F!FileOpsAssumption
  <2>3. IsTree(tree') /\ c \in Holds(tree') /\ Holds(tree) \subseteq Holds(tree') \cup F!Contents(tree, {p})
    BY <1>1, <2>1, <2>2, MakeKeeps
  <2>4. ASSUME calm PROVE Holds(tree) \cup erased \subseteq Holds(tree') \cup erased'
    <3>1. CASE covers
      BY <2>1, <2>3, <3>1
    <3>2. CASE ~covers
      <4>1. p \notin DOMAIN tree
        BY <1>1, <1>2, <2>4, <3>2 DEF FilesKept, IsFree, F!Kinded
      <4>2. F!Contents(tree, {p}) = {}
        BY <4>1 DEF F!Contents
      <4> QED BY <2>1, <2>3, <3>2, <4>2
    <3> QED BY <3>1, <3>2
  <2> QED BY <1>1, <2>1, <2>3, <2>4, EndsStep
<1> QED BY <1>3, <1>4

\* create_directory, and file-manager's mkdir.
LEMMA MakeDirectoryStep ==
  ASSUME FilesKept, NEW c \in Call, F!MakeDirectory(c), calm' => calm /\ OneCall'
  PROVE  FilesKept'
<1>1. /\ call[c].at = "looked" /\ F!UnderWay(c) /\ F!To(c) \in PathSet /\ IsTree(tree)
      /\ ~F!Kinded(c, {"create", "write"})
  BY CallFacts DEF F!MakeDirectory, F!Acts, F!Kinded, F!UnderWay, FilesKept
<1>2. CASE ~F!MkdirOk(tree, F!To(c))
  <2>1. F!Ends(c, "error") /\ tree' = tree /\ erased' = erased
    BY <1>2 DEF F!MakeDirectory, F!Fails
  <2> QED BY <1>1, <2>1, EndsStep
<1>3. CASE F!MkdirOk(tree, F!To(c))
  <2>1. F!Ends(c, "ok") /\ tree' = F!Mkdir(tree, F!To(c)) /\ erased' = erased
    BY <1>3 DEF F!MakeDirectory
  <2>2. IsTree(tree') /\ DOMAIN tree \subseteq DOMAIN tree' /\ \A q \in DOMAIN tree : tree'[q] = tree[q]
    BY <1>1, <1>3, <2>1, MkdirTree
  <2>3. Holds(tree) \subseteq Holds(tree')
    BY <2>2 DEF Holds, F!Contents
  <2> QED BY <1>1, <2>1, <2>2, <2>3, EndsStep
<1> QED BY <1>2, <1>3

\* rename_entry and mv.
LEMMA MoveEntryStep ==
  ASSUME FilesKept, NEW c \in Call, F!MoveEntry(c), calm' => calm /\ OneCall'
  PROVE  FilesKept'
<1> DEFINE src == F!From(c)
           dst == F!To(c)
           t == F!Mkdir(tree, F!Parent(dst))
<1>1. /\ call[c].at = "looked" /\ F!UnderWay(c) /\ src \in PathSet /\ dst \in PathSet
      /\ IsTree(tree) /\ F!To(c) = call[c].dst
      /\ F!Kinded(c, {"rename", "mv"}) /\ ~F!Kinded(c, {"create", "write"})
  BY CallFacts DEF F!MoveEntry, F!Acts, F!Kinded, F!UnderWay, FilesKept
<1>2. CASE ~F!MkdirOk(tree, F!Parent(dst))
  <2>1. F!Ends(c, "error") /\ tree' = tree /\ erased' = erased
    BY <1>2 DEF F!MoveEntry, F!Fails
  <2> QED BY <1>1, <2>1, EndsStep
<1>3. CASE F!MkdirOk(tree, F!Parent(dst)) /\ ~F!RenameOk(t, src, dst)
  <2>1. F!Ends(c, "error") /\ tree' = t /\ erased' = erased
    BY <1>3 DEF F!MoveEntry
  <2>2. F!Parent(dst) \in PathSet
    <3>1. CASE dst # <<>>
      BY <1>1, <3>1, ParentOf
    <3>2. CASE dst = <<>>
      <4>1. F!Parent(dst) = <<>>
        BY <3>2, SubSeqEmpty DEF F!Parent
      <4> QED BY <1>1, <3>2, <4>1
    <3> QED BY <3>1, <3>2
  <2>3. IsTree(t) /\ DOMAIN tree \subseteq DOMAIN t /\ \A q \in DOMAIN tree : t[q] = tree[q]
    BY <1>1, <1>3, <2>2, MkdirTree
  <2> HIDE DEF t
  <2>4. Holds(tree) \subseteq Holds(t)
    BY <2>3 DEF Holds, F!Contents
  <2> QED BY <1>1, <2>1, <2>3, <2>4, EndsStep
<1>4. CASE F!MkdirOk(tree, F!Parent(dst)) /\ F!RenameOk(t, src, dst)
  <2>1. /\ F!Ends(c, "ok") /\ tree' = F!Rename(t, src, dst)
        /\ erased' = IF F!Kinded(c, {"mv"}) /\ src # dst
                     THEN erased \cup F!Contents(tree, {dst}) ELSE erased
    BY <1>4 DEF F!MoveEntry
  <2>2. /\ IsTree(tree')
        /\ Holds(tree) \subseteq Holds(tree') \cup (IF src = dst THEN {} ELSE F!Contents(tree, {dst}))
    BY <1>1, <1>4, <2>1, RenameKeeps
  <2>3. ASSUME calm PROVE Holds(tree) \cup erased \subseteq Holds(tree') \cup erased'
    <3>1. CASE F!Kinded(c, {"mv"})
      BY <2>1, <2>2, <3>1
    <3>2. CASE F!Kinded(c, {"rename"}) /\ ~F!Kinded(c, {"mv"})
      <4>1. dst \notin DOMAIN tree
        BY <1>1, <2>3, <3>2 DEF FilesKept, IsFree, F!Kinded
      <4>2. F!Contents(tree, {dst}) = {}
        BY <4>1 DEF F!Contents
      <4> QED BY <2>1, <2>2, <3>2, <4>2
    <3> QED BY <1>1, <3>1, <3>2 DEF F!Kinded
  <2> QED BY <1>1, <2>1, <2>2, <2>3, EndsStep
<1> QED BY <1>2, <1>3, <1>4

\* delete_entry and rm.
LEMMA RemoveEntryStep ==
  ASSUME FilesKept, NEW c \in Call, F!RemoveEntry(c), calm' => calm /\ OneCall'
  PROVE  FilesKept'
<1> DEFINE src == F!From(c)
<1>1. /\ call[c].at = "looked" /\ F!UnderWay(c) /\ src \in PathSet /\ IsTree(tree)
      /\ ~F!Kinded(c, {"create", "write"})
  BY CallFacts DEF F!RemoveEntry, F!Acts, F!Kinded, F!UnderWay, FilesKept
<1>2. CASE ~(src # <<>> /\ src \in DOMAIN tree)
  <2>1. F!Ends(c, "error") /\ tree' = tree /\ erased' = erased
    BY <1>2 DEF F!RemoveEntry, F!Fails
  <2> QED BY <1>1, <2>1, EndsStep
<1>3. CASE src # <<>> /\ src \in DOMAIN tree
  <2>1. /\ F!Ends(c, "ok") /\ tree' = F!Without(tree, src)
        /\ erased' = erased \cup F!Contents(tree, F!Under(tree, src))
    BY <1>3 DEF F!RemoveEntry
  <2>2. IsTree(tree') /\ Holds(tree) \subseteq Holds(tree') \cup F!Contents(tree, F!Under(tree, src))
    BY <1>1, <1>3, <2>1, WithoutTree, RemoveKeeps
  <2> QED BY <1>1, <2>1, <2>2, EndsStep
<1> QED BY <1>2, <1>3

-----------------------------------------------------------------------------
(* Copies. *)

\* What a call that goes on copying is.
LEMMA GoesOnAs ==
  ASSUME CallsAre, NEW c \in Call, NEW s,
         \/ call' = [call EXCEPT ![c].at = "copying", ![c].stack = s]
         \/ call[c].at = "copying" /\ call' = [call EXCEPT ![c].stack = s]
  PROVE  call' = [call EXCEPT ![c] = [ask |-> call[c].ask, at |-> "copying", dst |-> call[c].dst,
                                      stack |-> s, was |-> call[c].was]]
<1> DEFINE r == [ask |-> call[c].ask, at |-> "copying", dst |-> call[c].dst, stack |-> s,
                 was |-> call[c].was]
<1> DEFINE r0 == call[c]
<1>1. r0 = [ask |-> r0.ask, at |-> r0.at, dst |-> r0.dst, stack |-> r0.stack, was |-> r0.was]
  BY DEF CallsAre, IsCall
<1>2. [[r0 EXCEPT !.at = "copying"] EXCEPT !.stack = s] = r
  <2> HIDE DEF r0
  <2> DEFINE r1 == [r0 EXCEPT !.at = "copying"]
  <2>1. r1 = [ask |-> r0.ask, at |-> "copying", dst |-> r0.dst,
              stack |-> r0.stack, was |-> r0.was]
    BY <1>1
  <2> HIDE DEF r1
  <2>2. [r1 EXCEPT !.stack = s] = [ask |-> r0.ask, at |-> "copying", dst |-> r0.dst,
                                   stack |-> s, was |-> r0.was]
    BY <2>1
  <2> QED BY <2>2 DEF r0, r1
<1>3. r0.at = "copying" => [r0 EXCEPT !.stack = s] = r
  <2> HIDE DEF r0
  <2>1. r0.at = "copying" =>
          [r0 EXCEPT !.stack = s] = [ask |-> r0.ask, at |-> "copying", dst |-> r0.dst,
                                     stack |-> s, was |-> r0.was]
    BY <1>1
  <2> QED BY <2>1 DEF r0
<1>4. CASE call' = [call EXCEPT ![c].at = "copying", ![c].stack = s]
  <2>1. call' = [call EXCEPT ![c] = [[r0 EXCEPT !.at = "copying"] EXCEPT !.stack = s]]
    BY <1>4 DEF CallsAre
  <2> QED BY <1>2, <2>1
<1>5. CASE call[c].at = "copying" /\ call' = [call EXCEPT ![c].stack = s]
  BY <1>3, <1>5
<1> QED BY <1>4, <1>5

\* A call goes on copying.
LEMMA CopyGoesOn ==
  ASSUME FilesKept, NEW c \in Call, F!UnderWay(c), F!Kinded(c, {"copy", "cp"}),
         NEW s \in Seq(CopyFrame),
         \A k \in 1..Len(s) : \A q \in s[k].left : q # <<>> /\ F!Parent(q) = s[k].src,
         \/ call' = [call EXCEPT ![c].at = "copying", ![c].stack = s]
         \/ call[c].at = "copying" /\ call' = [call EXCEPT ![c].stack = s],
         calm' => calm /\ OneCall', IsTree(tree'),
         calm => Holds(tree) \cup erased \subseteq Holds(tree') \cup erased',
         calm' => \A r : r.at = "copying" /\ r.stack = s /\ r.ask = call[c].ask =>
                     IsApart(tree', r)
  PROVE  FilesKept'
<1> DEFINE r == [ask |-> call[c].ask, at |-> "copying", dst |-> call[c].dst, stack |-> s,
                 was |-> call[c].was]
<1>1. IsCall(call[c])
  BY CallFacts DEF FilesKept
<1>2. call' = [call EXCEPT ![c] = r]
  BY GoesOnAs DEF FilesKept
<1>3. IsCall(r)
  <2>1. call[c].ask.kind \in {"copy", "cp"} /\ AskOf(call[c].ask) /\ call[c].dst \in PathSet
    BY <1>1 DEF IsCall, F!Kinded
  <2> QED BY <2>1 DEF IsCall
<1>4. r.at = "copying" /\ r.stack = s /\ r.ask = call[c].ask
  OBVIOUS
<1> HIDE DEF r
<1>5. CallsAre' /\ call'[c] = r /\ \A d \in Call \ {c} : call'[d] = call[d]
  BY <1>2, <1>3, OneGoesOn DEF FilesKept
<1>6. ASSUME calm'
      PROVE  OneCall' /\ F!NothingLost'
             /\ (\A d \in Call : IsFree(tree, call[d]) /\ IsApart(tree, call[d]))'
  <2>1. \A d \in Call \ {c} : IsFree(tree', call'[d]) /\ IsApart(tree', call'[d])
    BY <1>5, <1>6, OthersAreIdle
  <2>2. IsFree(tree', call'[c]) /\ IsApart(tree', call'[c])
    BY <1>4, <1>5, <1>6 DEF IsFree
  <2>3. ~F!Done(c, {"create", "write"})'
    BY <1>4, <1>5 DEF F!Done
  <2>4. F!NothingLost'
    BY <1>5, <1>6, <2>3, NothingIsLost DEF FilesKept
  <2> QED BY <1>6, <2>1, <2>2, <2>4
<1> QED BY <1>5, <1>6 DEF FilesKept

\* The stack a copy returns to when it enters dst.
ReturnsTo(t, rest, dst, kind) ==
  \A k \in 1..Len(rest) :
    /\ rest[k].src # rest[k].dst
    /\ kind = "copy" =>
         /\ rest[k].dst \in DOMAIN t /\ Len(rest[k].dst) < Len(dst)
         /\ \A q \in rest[k].left : Append(rest[k].dst, F!Last(q)) \notin DOMAIN t \cup {dst}
         /\ \A l \in 1..(k - 1) : Len(rest[l].dst) < Len(rest[k].dst)

\* What the copy of src to dst keeps of the tree.
LEMMA CopiedFileKeeps ==
  ASSUME NEW t, IsTree(t), NEW src, F!IsFile(t, src), NEW dst \in PathSet,
         F!MkdirOk(t, F!Parent(dst)), F!WriteOk(F!Mkdir(t, F!Parent(dst)), dst)
  PROVE  LET u == F!CopiedFile(F!Mkdir(t, F!Parent(dst)), src, dst) IN
         /\ IsTree(u) /\ DOMAIN t \subseteq DOMAIN u
         /\ \A q \in DOMAIN u : q \in DOMAIN t \/ q = dst \/ q \in F!Upto(F!Parent(dst))
         /\ Holds(t) \subseteq Holds(u) \cup F!Contents(t, {dst})
<1> DEFINE w == F!Mkdir(t, F!Parent(dst))
           v == IF src = dst THEN Void ELSE w[src]
<1>1. v # Dir
  <2>1. dst # <<>> /\ F!Parent(dst) \in PathSet
    BY ParentOf DEF F!WriteOk
  <2>2. \A q \in DOMAIN t : w[q] = t[q]
    BY <2>1, MkdirTree
  <2>3. Void # Dir
    BY StoresAssumption DEF F!FileOpsAssumption
  <2> QED BY <2>2, <2>3 DEF F!IsFile
<1>2. F!CopiedFile(w, src, dst) = F!Write(w, dst, v)
  BY DEF F!CopiedFile
<1> QED BY <1>1, <1>2, MakeKeeps

\* In a directory that is there, one path is made.
LEMMA OneIsMade ==
  ASSUME NEW t, IsTree(t), NEW dst \in PathSet, dst # <<>>, F!Parent(dst) \in DOMAIN t
  PROVE  /\ \A q \in F!Upto(dst) : q \in DOMAIN t \/ q = dst
         /\ \A q \in F!Upto(F!Parent(dst)) : q \in DOMAIN t
<1> DEFINE p == F!Parent(dst)
<1>1. /\ Len(dst) \in Nat \ {0} /\ p \in PathSet /\ Len(p) = Len(dst) - 1
      /\ p = SubSeq(dst, 1, Len(dst) - 1)
  BY ParentOf DEF F!Parent
<1>2. ASSUME NEW k \in 0..Len(p) PROVE SubSeq(p, 1, k) \in DOMAIN t
  <2>1. CASE k = Len(p)
    BY <1>1, <2>1, Above
  <2>2. CASE k # Len(p)
    <3>1. k \in 0..(Len(p) - 1)
      BY <1>1, <2>2
    <3> QED BY <3>1 DEF IsTree, F!IsDir
  <2> QED BY <2>1, <2>2
<1>3. \A q \in F!Upto(p) : q \in DOMAIN t
  BY <1>2 DEF F!Upto
<1>4. ASSUME NEW k \in 0..Len(dst) PROVE SubSeq(dst, 1, k) \in DOMAIN t \/ SubSeq(dst, 1, k) = dst
  <2>1. CASE k = Len(dst)
    BY <1>1, <2>1, Above
  <2>2. CASE k # Len(dst)
    <3>1. k \in 0..Len(p) /\ Len(dst) - 1 \in 0..Len(dst) /\ k \in 0..(Len(dst) - 1)
      BY <1>1, <2>2
    <3>2. SubSeq(p, 1, k) = SubSeq(dst, 1, k)
      BY <1>1, <3>1, AboveAbove
    <3> QED BY <1>2, <3>1, <3>2
  <2> QED BY <2>1, <2>2
<1> QED BY <1>3, <1>4 DEF F!Upto

\* Where nothing is, nothing is below.
LEMMA NoChild ==
  ASSUME NEW t, IsTree(t), NEW dst \in PathSet, dst \notin DOMAIN t, NEW n \in Name
  PROVE  Append(dst, n) \notin DOMAIN t \cup F!Upto(dst)
<1> DEFINE q == Append(dst, n)
<1>1. q \in PathSet /\ Len(q) = Len(dst) + 1 /\ Len(dst) \in Nat /\ F!Parent(q) = dst
  BY ChildOf DEF PathSet
<1> HIDE DEF q
<1>2. F!Parent(q) = SubSeq(q, 1, Len(dst)) /\ Len(dst) \in 0..(Len(q) - 1)
  BY <1>1 DEF F!Parent
<1>3. q \notin DOMAIN t
  BY <1>1, <1>2 DEF IsTree, F!IsDir
<1>4. \A p \in F!Upto(dst) : Len(p) <= Len(dst)
  BY <1>1, Above DEF F!Upto
<1>5. q \notin F!Upto(dst)
  BY <1>1, <1>4
<1> QED BY <1>3, <1>5 DEF q

\* The entries of a directory.
LEMMA EntriesOf ==
  ASSUME NEW t, IsTree(t), NEW p \in PathSet
  PROVE  \A q \in F!Entries(t, p) :
           q \in DOMAIN t /\ q \in PathSet /\ q # <<>> /\ F!Parent(q) = p
<1> SUFFICES ASSUME NEW q \in F!Entries(t, p)
             PROVE  q \in DOMAIN t /\ q \in PathSet /\ q # <<>> /\ F!Parent(q) = p
  OBVIOUS
<1>1. q \in DOMAIN t /\ q \in PathSet /\ F!IsPrefix(p, q) /\ Len(q) = Len(p) + 1 /\ Len(p) \in Nat
  BY DEF F!Entries, F!Under, IsTree, PathSet
<1>2. p = SubSeq(q, 1, Len(p))
  BY <1>1, PrefixOf
<1>3. q # <<>>
  BY <1>1, EmptySeq
<1> QED BY <1>1, <1>2, <1>3 DEF F!Parent

\* What the stack returns to, with one more frame on it.
LEMMA OneDeeper ==
  ASSUME NEW t, NEW rest \in Seq(CopyFrame), NEW src \in PathSet, NEW dst \in PathSet, src # dst,
         NEW kind, NEW left \in SUBSET PathSet, NEW u, DOMAIN t \subseteq DOMAIN u,
         ReturnsTo(t, rest, dst, kind),
         kind = "copy" /\ Len(rest) > 0 => \A q \in DOMAIN u : q \in DOMAIN t \/ q = dst,
         kind = "copy" => dst \in DOMAIN u /\ \A q \in left : Append(dst, F!Last(q)) \notin DOMAIN u
  PROVE  \A r : /\ r.ask.kind = kind
                /\ \/ r.stack = rest
                   \/ r.stack = Append(rest, [src |-> src, dst |-> dst, left |-> left])
                => IsApart(u, r)
<1> DEFINE f == [src |-> src, dst |-> dst, left |-> left]
<1>1. Len(rest) \in Nat /\ f \in CopyFrame
  BY DEF CopyFrame
<1>2. f.src = src /\ f.dst = dst /\ f.left = left
  OBVIOUS
<1> HIDE DEF f
<1>3. ASSUME NEW k \in 1..Len(rest)
      PROVE  /\ rest[k].src # rest[k].dst
             /\ kind = "copy" =>
                  /\ rest[k].dst \in DOMAIN u /\ Len(rest[k].dst) < Len(dst)
                  /\ \A q \in rest[k].left : Append(rest[k].dst, F!Last(q)) \notin DOMAIN u
                  /\ \A l \in 1..(k - 1) : Len(rest[l].dst) < Len(rest[k].dst)
  <2>1. Len(rest) > 0
    BY <1>1
  <2> QED BY <2>1 DEF ReturnsTo
<1>4. ASSUME NEW r, r.ask.kind = kind, r.stack = rest PROVE IsApart(u, r)
  BY <1>3, <1>4 DEF IsApart
<1>5. ASSUME NEW r, r.ask.kind = kind, r.stack = Append(rest, f) PROVE IsApart(u, r)
  <2>1. /\ Len(r.stack) = Len(rest) + 1 /\ r.stack[Len(rest) + 1] = f
        /\ \A k \in 1..Len(rest) : r.stack[k] = rest[k]
    BY <1>1, <1>5, AppendProperties
  <2>2. ASSUME NEW k \in 1..Len(r.stack)
        PROVE  /\ r.stack[k].src # r.stack[k].dst
               /\ kind = "copy" =>
                    /\ r.stack[k].dst \in DOMAIN u
                    /\ \A q \in r.stack[k].left : Append(r.stack[k].dst, F!Last(q)) \notin DOMAIN u
                    /\ \A l \in 1..(k - 1) : Len(r.stack[l].dst) < Len(r.stack[k].dst)
    <3>1. CASE k = Len(rest) + 1
      <4>1. r.stack[k] = f /\ \A l \in 1..(k - 1) : l \in 1..Len(rest) /\ r.stack[l] = rest[l]
        BY <1>1, <2>1, <3>1
      <4> QED BY <1>2, <1>3, <4>1
    <3>2. CASE k # Len(rest) + 1
      <4>1. k \in 1..Len(rest) /\ r.stack[k] = rest[k]
            /\ \A l \in 1..(k - 1) : r.stack[l] = rest[l]
        BY <1>1, <2>1, <3>2
      <4> QED BY <1>3, <4>1
    <3> QED BY <3>1, <3>2
  <2> QED BY <1>5, <2>2 DEF IsApart
<1> QED BY <1>4, <1>5 DEF f

\* copy_recursive.
LEMMA EnterStep ==
  ASSUME FilesKept, NEW c \in Call, F!UnderWay(c), F!Kinded(c, {"copy", "cp"}),
         NEW rest \in Seq(CopyFrame),
         \A k \in 1..Len(rest) : \A q \in rest[k].left : q # <<>> /\ F!Parent(q) = rest[k].src,
         NEW src \in PathSet, NEW dst \in PathSet,
         F!Enter(c, src, dst, rest), F!CopyErases(c, src, dst), calm' => calm /\ OneCall',
         calm => /\ src # dst /\ ReturnsTo(tree, rest, dst, call[c].ask.kind)
                 /\ F!Kinded(c, {"copy"}) => /\ dst \notin DOMAIN tree
                                             /\ Len(rest) > 0 => F!Parent(dst) \in DOMAIN tree
  PROVE  FilesKept'
<1>a. IsTree(tree) /\ Len(rest) \in Nat
  BY DEF FilesKept
<1>b. /\ erased \subseteq erased'
      /\ IF F!Kinded(c, {"cp"}) /\ F!IsFile(tree, src) /\ src # dst
         THEN erased' = erased \cup F!Contents(tree, {dst}) ELSE erased' = erased
  BY DEF F!CopyErases
<1>c. ASSUME calm, F!Kinded(c, {"copy"})
      PROVE  /\ F!Contents(tree, {dst}) = {}
             /\ Len(rest) > 0 => \A q \in F!Upto(dst) \cup F!Upto(F!Parent(dst)) : q \in DOMAIN tree \/ q = dst
  <2>1. dst \notin DOMAIN tree /\ F!IsDir(tree, <<>>)
    BY <1>a, <1>c DEF IsTree
  <2>2. dst # <<>>
    BY <2>1 DEF F!IsDir
  <2>3. Len(rest) > 0 => \A q \in F!Upto(dst) \cup F!Upto(F!Parent(dst)) : q \in DOMAIN tree \/ q = dst
    BY <1>a, <1>c, <2>2, OneIsMade
  <2> QED BY <2>1, <2>3 DEF F!Contents
<1>1. CASE /\ F!IsDir(tree, src) /\ F!MkdirOk(tree, dst)
           /\ tree' = F!Mkdir(tree, dst)
           /\ call' = [call EXCEPT ![c].at = "copying",
                                   ![c].stack = Append(rest, F!Frame(tree', src, dst))]
  <2> DEFINE left == F!Entries(tree', src)
             f == [src |-> src, dst |-> dst, left |-> left]
  <2>1. /\ IsTree(tree') /\ F!IsDir(tree', dst)
        /\ DOMAIN tree \subseteq DOMAIN tree' /\ \A q \in DOMAIN tree : tree'[q] = tree[q]
        /\ \A q \in DOMAIN tree' \ DOMAIN tree : q \in F!Upto(dst)
    BY <1>a, <1>1, MkdirTree
  <2>2. \A q \in left : q \in PathSet /\ q # <<>> /\ F!Parent(q) = src
    BY <2>1, EntriesOf
  <2>3. left \in SUBSET PathSet /\ f \in CopyFrame /\ F!Frame(tree', src, dst) = f
    BY <2>2 DEF CopyFrame, F!Frame
  <2>4. f.src = src /\ f.dst = dst /\ f.left = left
    OBVIOUS
  <2>5. \A q \in left : F!Last(q) \in Name
    BY <2>2, ParentOf
  <2> HIDE DEF left
  <2> DEFINE s == Append(rest, f)
  <2>6. /\ s \in Seq(CopyFrame) /\ Len(s) = Len(rest) + 1 /\ s[Len(rest) + 1] = f
        /\ \A k \in 1..Len(rest) : s[k] = rest[k]
    <3> HIDE DEF f
    <3> QED BY <2>3, AppendProperties
  <2>7. ASSUME calm
        PROVE  \A r : r.ask.kind = call[c].ask.kind /\ r.stack = s => IsApart(tree', r)
    <3>1. src # dst /\ ReturnsTo(tree, rest, dst, call[c].ask.kind)
      BY <2>7
    <3>2. ASSUME call[c].ask.kind = "copy"
          PROVE  /\ Len(rest) > 0 => \A q \in DOMAIN tree' : q \in DOMAIN tree \/ q = dst
                 /\ \A q \in left : Append(dst, F!Last(q)) \notin DOMAIN tree'
      <4>1. F!Kinded(c, {"copy"}) /\ dst \notin DOMAIN tree
        BY <2>7, <3>2 DEF F!Kinded
      <4>2. \A q \in left : Append(dst, F!Last(q)) \notin DOMAIN tree'
        BY <1>a, <2>1, <2>5, <4>1, NoChild
      <4> QED BY <1>c, <2>1, <2>7, <4>1, <4>2
    <3>3. dst \in DOMAIN tree'
      BY <2>1 DEF F!IsDir
    <3>4. DOMAIN tree \subseteq DOMAIN tree' /\ left \in SUBSET PathSet
      BY <2>1, <2>3
    <3> QED BY SMTT(60), <3>1, <3>2, <3>3, <3>4, OneDeeper
  <2> HIDE DEF s, f
  <2>8. \A k \in 1..Len(s) : \A q \in s[k].left : q # <<>> /\ F!Parent(q) = s[k].src
    <3> SUFFICES ASSUME NEW k \in 1..Len(s) PROVE \A q \in s[k].left : q # <<>> /\ F!Parent(q) = s[k].src
      OBVIOUS
    <3>1. CASE k = Len(rest) + 1
      BY <2>2, <2>4, <2>6, <3>1
    <3>2. CASE k # Len(rest) + 1
      <4>1. k \in 1..Len(rest) /\ s[k] = rest[k]
        BY <1>a, <2>6, <3>2
      <4> QED BY <4>1
    <3> QED BY <3>1, <3>2
  <2>9. Holds(tree) \cup erased \subseteq Holds(tree') \cup erased'
    BY <1>b, <2>1 DEF Holds, F!Contents
  <2>10. call' = [call EXCEPT ![c].at = "copying", ![c].stack = s]
    BY <1>1, <2>3 DEF s
  <2>11. calm' => \A r : r.at = "copying" /\ r.stack = s /\ r.ask = call[c].ask => IsApart(tree', r)
    BY <2>7
  <2> QED BY <2>1, <2>6, <2>8, <2>9, <2>10, <2>11, CopyGoesOn
<1>2. CASE /\ F!IsFile(tree, src) /\ F!MkdirOk(tree, F!Parent(dst))
           /\ F!WriteOk(F!Mkdir(tree, F!Parent(dst)), dst)
           /\ tree' = F!CopiedFile(F!Mkdir(tree, F!Parent(dst)), src, dst)
           /\ call' = [call EXCEPT ![c].at = "copying", ![c].stack = rest]
  <2>1. /\ IsTree(tree') /\ DOMAIN tree \subseteq DOMAIN tree'
        /\ \A q \in DOMAIN tree' : q \in DOMAIN tree \/ q = dst \/ q \in F!Upto(F!Parent(dst))
        /\ Holds(tree) \subseteq Holds(tree') \cup F!Contents(tree, {dst})
    BY <1>a, <1>2, CopiedFileKeeps
  <2>2. ASSUME calm PROVE Holds(tree) \cup erased \subseteq Holds(tree') \cup erased'
    <3>1. CASE F!Kinded(c, {"cp"})
      BY <1>2, <1>b, <2>1, <2>2, <3>1
    <3>2. CASE F!Kinded(c, {"copy"})
      BY <1>b, <1>c, <2>1, <2>2, <3>2
    <3> QED BY <3>1, <3>2 DEF F!Kinded
  <2>3. ASSUME calm
        PROVE  \A r : r.ask.kind = call[c].ask.kind /\ r.stack = rest => IsApart(tree', r)
    <3>1. src # dst /\ ReturnsTo(tree, rest, dst, call[c].ask.kind)
      BY <2>3
    <3>2. call[c].ask.kind = "copy" /\ Len(rest) > 0 =>
            \A q \in DOMAIN tree' : q \in DOMAIN tree \/ q = dst
      BY <1>c, <2>1, <2>3 DEF F!Kinded
    <3>3. ASSUME NEW k \in 1..Len(rest)
          PROVE  /\ rest[k].src # rest[k].dst
                 /\ call[c].ask.kind = "copy" =>
                      /\ rest[k].dst \in DOMAIN tree'
                      /\ \A q \in rest[k].left : Append(rest[k].dst, F!Last(q)) \notin DOMAIN tree'
                      /\ \A l \in 1..(k - 1) : Len(rest[l].dst) < Len(rest[k].dst)
      <4>1. Len(rest) > 0
        BY <1>a
      <4> QED BY <2>1, <3>1, <3>2, <4>1 DEF ReturnsTo
    <3> QED BY <3>3 DEF IsApart
  <2>4. calm' => \A r : r.at = "copying" /\ r.stack = rest /\ r.ask = call[c].ask => IsApart(tree', r)
    BY <2>3
  <2> QED BY <1>2, <2>1, <2>2, <2>4, CopyGoesOn
<1>3. CASE F!Ends(c, "error") /\ tree' = tree
  <2>1. Holds(tree) \cup erased \subseteq Holds(tree') \cup erased'
    BY <1>b, <1>3
  <2>2. IsTree(tree')
    BY <1>a, <1>3
  <2> QED BY <1>3, <2>1, <2>2, EndsStep
<1>4. \/ F!IsDir(tree, src) /\ F!MkdirOk(tree, dst)
         /\ tree' = F!Mkdir(tree, IF F!IsDir(tree, src) THEN dst ELSE F!Parent(dst))
         /\ call' = [call EXCEPT ![c].at = "copying",
              ![c].stack = Append(rest, F!Frame(F!Mkdir(tree, IF F!IsDir(tree, src) THEN dst ELSE F!Parent(dst)), src, dst))]
      \/ /\ F!IsFile(tree, src) /\ F!MkdirOk(tree, F!Parent(dst))
         /\ F!WriteOk(F!Mkdir(tree, IF F!IsDir(tree, src) THEN dst ELSE F!Parent(dst)), dst)
         /\ tree' = F!CopiedFile(F!Mkdir(tree, IF F!IsDir(tree, src) THEN dst ELSE F!Parent(dst)), src, dst)
         /\ call' = [call EXCEPT ![c].at = "copying", ![c].stack = rest]
      \/ F!Ends(c, "error") /\ tree' = tree
  BY DEF F!Enter
<1>5. F!IsFile(tree, src) => ~F!IsDir(tree, src)
  BY DEF F!IsFile, F!IsDir
<1> QED BY <1>1, <1>2, <1>3, <1>4, <1>5

\* All but the last frame of a stack.
LEMMA FrontOf ==
  ASSUME NEW S, NEW s \in Seq(S), s # <<>>
  PROVE  /\ Len(s) \in Nat \ {0} /\ F!Front(s) \in Seq(S) /\ Len(F!Front(s)) = Len(s) - 1
         /\ \A k \in 1..(Len(s) - 1) : F!Front(s)[k] = s[k]
<1>1. Len(s) \in Nat \ {0}
  BY EmptySeq
<1>2. \A k \in 1..(Len(s) - 1) : s[k] \in S
  BY <1>1, ElementOfSeq
<1>3. 1 \in Int /\ Len(s) - 1 \in Int
  BY <1>1
<1>4. /\ F!Front(s) \in Seq(S)
      /\ Len(F!Front(s)) = IF 1 <= Len(s) - 1 THEN (Len(s) - 1) - 1 + 1 ELSE 0
      /\ \A k \in 1..((Len(s) - 1) - 1 + 1) : F!Front(s)[k] = s[1 + k - 1]
  BY <1>2, <1>3, SubSeqProperties DEF F!Front
<1>5. Len(F!Front(s)) = Len(s) - 1
  <2>1. PICK n \in Nat : n = Len(s) /\ n # 0
    BY <1>1
  <2>2. Len(F!Front(s)) = IF 1 <= n - 1 THEN (n - 1) - 1 + 1 ELSE 0
    BY <1>4, <2>1
  <2>3. (IF 1 <= n - 1 THEN (n - 1) - 1 + 1 ELSE 0) = n - 1
    BY <2>1
  <2> QED BY <2>1, <2>2, <2>3
<1>6. ASSUME NEW k \in 1..(Len(s) - 1) PROVE F!Front(s)[k] = s[k]
  <2>1. k \in 1..((Len(s) - 1) - 1 + 1) /\ 1 + k - 1 = k
    BY <1>1
  <2> QED BY <1>4, <2>1
<1> QED BY <1>1, <1>4, <1>5, <1>6

\* copy_entry and cp start.
LEMMA CopyStartsStep ==
  ASSUME FilesKept, NEW c \in Call, F!CopyStarts(c), calm' => calm /\ OneCall'
  PROVE  FilesKept'
<1>1. /\ call[c].at = "looked" /\ F!UnderWay(c) /\ F!Kinded(c, {"copy", "cp"})
      /\ F!From(c) \in PathSet /\ F!To(c) \in PathSet
      /\ F!From(c) = call[c].ask.from /\ F!To(c) = call[c].dst
      /\ F!Enter(c, F!From(c), F!To(c), <<>>) /\ F!CopyErases(c, F!From(c), F!To(c))
  BY CallFacts DEF F!CopyStarts, F!Acts, F!UnderWay, FilesKept
<1>2. <<>> \in Seq(CopyFrame) /\ Len(<<>>) = 0
  BY EmptySeq
<1>3. ASSUME calm
      PROVE  /\ F!From(c) # F!To(c) /\ ReturnsTo(tree, <<>>, F!To(c), call[c].ask.kind)
             /\ F!Kinded(c, {"copy"}) => F!To(c) \notin DOMAIN tree
  <2>1. F!Kinded(c, {"copy"}) => F!To(c) \notin DOMAIN tree
    BY <1>1, <1>3 DEF FilesKept, IsFree, F!Kinded
  <2>2. ~F!CopiesOntoItself(c)
    BY <1>3 DEF FilesKept, OneCall
  <2>3. F!Kinded(c, {"cp"}) => F!From(c) # F!To(c)
    BY <1>1, <2>2 DEF F!CopiesOntoItself
  <2>4. F!Kinded(c, {"copy"}) => F!From(c) # F!To(c)
    BY <1>1, <1>3, <2>1 DEF FilesKept, IsFree, F!Kinded
  <2> QED BY <1>1, <1>2, <2>1, <2>3, <2>4 DEF ReturnsTo, F!Kinded
<1>4. \A k \in 1..Len(<<>>) : \A q \in <<>>[k].left : q # <<>> /\ F!Parent(q) = <<>>[k].src
  BY <1>2
<1>5. ~(Len(<<>>) > 0)
  BY <1>2
<1> QED BY <1>1, <1>2, <1>3, <1>4, <1>5, EnterStep

\* copy_recursive goes on with an entry of the directory it is in.
LEMMA CopyEntryStep ==
  ASSUME FilesKept, NEW c \in Call, F!CopyEntry(c), calm' => calm /\ OneCall'
  PROVE  FilesKept'
<1> DEFINE stk == call[c].stack
           n == Len(stk)
           top == stk[n]
<1>1. /\ call[c].at = "copying" /\ F!UnderWay(c) /\ F!Kinded(c, {"copy", "cp"})
      /\ stk \in Seq(CopyFrame) /\ stk # <<>> /\ IsTree(tree) /\ F!Last(stk) = top
      /\ \A k \in 1..Len(stk) : \A p \in stk[k].left : p # <<>> /\ F!Parent(p) = stk[k].src
  BY CallFacts DEF F!CopyEntry, F!UnderWay, F!Kinded, FilesKept, IsCall, F!Last
<1>2. n \in Nat \ {0} /\ top \in CopyFrame
  BY <1>1, EmptySeq
<1>3. PICK q \in top.left :
        /\ F!Enter(c, q, Append(top.dst, F!Last(q)), Append(F!Front(stk), [top EXCEPT !.left = @ \ {q}]))
        /\ F!CopyErases(c, q, Append(top.dst, F!Last(q)))
  BY <1>1 DEF F!CopyEntry
<1> DEFINE dst == Append(top.dst, F!Last(q))
           f == [top EXCEPT !.left = @ \ {q}]
           rest == Append(F!Front(stk), f)
<1>4. calm => IsApart(tree, call[c])
  BY DEF FilesKept
<1>5. \A k \in 1..n : stk[k] \in CopyFrame
  BY <1>1
<1>6. top.src \in PathSet /\ top.dst \in PathSet /\ top.left \in SUBSET PathSet
      /\ top = [src |-> top.src, dst |-> top.dst, left |-> top.left]
  BY <1>2 DEF CopyFrame
<1>7. q \in PathSet /\ q # <<>> /\ F!Parent(q) = top.src /\ F!Last(q) \in Name
      /\ q = Append(top.src, F!Last(q))
  BY <1>1, <1>2, <1>6, ParentOf
<1>8. dst \in PathSet /\ Len(dst) = Len(top.dst) + 1 /\ F!Parent(dst) = top.dst
      /\ Len(top.dst) \in Nat /\ Len(dst) \in Nat /\ Len(top.dst) < Len(dst) /\ dst # <<>>
  <2> HIDE DEF top, n, stk
  <2>1. Len(top.dst) \in Nat
    BY <1>6 DEF PathSet
  <2>2. dst \in PathSet /\ Len(dst) = Len(top.dst) + 1 /\ F!Parent(dst) = top.dst /\ dst # <<>>
    BY <1>6, <1>7, ChildOf
  <2> QED BY <2>1, <2>2
<1>9. f \in CopyFrame /\ f.src = top.src /\ f.dst = top.dst /\ f.left = top.left \ {q}
  <2> HIDE DEF top
  <2> QED BY <1>6 DEF CopyFrame
<1>10. /\ F!Front(stk) \in Seq(CopyFrame) /\ Len(F!Front(stk)) = n - 1
       /\ \A k \in 1..(n - 1) : F!Front(stk)[k] = stk[k]
  BY <1>1, FrontOf
<1> HIDE DEF f
<1>11. /\ rest \in Seq(CopyFrame) /\ Len(rest) = n /\ rest[n] = f
       /\ \A k \in 1..(n - 1) : rest[k] = stk[k]
  <2> DEFINE g == F!Front(stk)
  <2>1. g \in Seq(CopyFrame) /\ Len(g) = n - 1 /\ \A k \in 1..(n - 1) : g[k] = stk[k]
    BY <1>10
  <2> HIDE DEF g
  <2>2. /\ Append(g, f) \in Seq(CopyFrame) /\ Len(Append(g, f)) = n /\ Append(g, f)[n] = f
        /\ \A k \in 1..(n - 1) : Append(g, f)[k] = g[k]
    BY <1>2, <1>9, <2>1, AppendProperties
  <2> QED BY <2>1, <2>2 DEF g
<1>12. F!Enter(c, q, dst, rest) /\ F!CopyErases(c, q, dst)
  BY <1>3 DEF f
<1> HIDE DEF rest, dst
<1>13. ASSUME NEW k \in 1..Len(rest), NEW p \in rest[k].left
       PROVE  p # <<>> /\ F!Parent(p) = rest[k].src
  <2>1. CASE k = n
    BY <1>1, <1>2, <1>9, <1>11, <2>1
  <2>2. CASE k # n
    <3>1. k \in 1..(n - 1) /\ k \in 1..n
      BY <1>2, <1>11, <2>2
    <3> QED BY <1>1, <1>11, <3>1
  <2> QED BY <2>1, <2>2
<1>14. ASSUME calm
       PROVE  /\ q # dst /\ ReturnsTo(tree, rest, dst, call[c].ask.kind)
              /\ F!Kinded(c, {"copy"}) => dst \notin DOMAIN tree /\ F!Parent(dst) \in DOMAIN tree
  <2>1. ASSUME NEW k \in 1..n
        PROVE  /\ stk[k].src # stk[k].dst
               /\ call[c].ask.kind = "copy" =>
                    /\ stk[k].dst \in DOMAIN tree
                    /\ \A p \in stk[k].left : Append(stk[k].dst, F!Last(p)) \notin DOMAIN tree
                    /\ \A l \in 1..(k - 1) : Len(stk[l].dst) < Len(stk[k].dst)
    BY <1>1, <1>4, <1>14 DEF IsApart
  <2>2. q # dst
    <3>1. top.src # top.dst
      BY <1>2, <2>1
    <3> HIDE DEF top
    <3> QED BY <1>7, <1>8, <3>1
  <2>3. ASSUME call[c].ask.kind = "copy"
        PROVE  dst \notin DOMAIN tree /\ F!Parent(dst) \in DOMAIN tree
    BY <1>2, <1>8, <2>1, <2>3 DEF dst
  <2>4. ASSUME NEW k \in 1..n
        PROVE  /\ rest[k].src # rest[k].dst
               /\ call[c].ask.kind = "copy" =>
                    /\ rest[k].dst \in DOMAIN tree /\ Len(rest[k].dst) < Len(dst)
                    /\ \A p \in rest[k].left : Append(rest[k].dst, F!Last(p)) \notin DOMAIN tree \cup {dst}
                    /\ \A l \in 1..(k - 1) : Len(rest[l].dst) < Len(rest[k].dst)
    <3>1. CASE k = n
      <4>1. rest[k].src = top.src /\ rest[k].dst = top.dst /\ rest[k].left = top.left \ {q}
        BY <1>9, <1>11, <3>1
      <4>2. \A l \in 1..(k - 1) : rest[l].dst = stk[l].dst
        BY <1>11, <3>1
      <4>3. ASSUME NEW p \in top.left \ {q} PROVE Append(top.dst, F!Last(p)) # dst
        <5>1. p \in PathSet /\ p # <<>> /\ F!Parent(p) = top.src
          BY <1>1, <1>2, <1>6
        <5>2. F!Last(p) \in Name /\ p = Append(top.src, F!Last(p))
          BY <5>1, ParentOf
        <5>3. F!Last(p) # F!Last(q)
          BY <1>7, <5>2
        <5>4. Append(top.dst, F!Last(p)) # Append(top.dst, F!Last(q))
          <6> HIDE DEF top, n, stk
          <6>1. top.dst \in Seq(Name) /\ F!Last(p) \in Name /\ F!Last(q) \in Name
            BY <1>6, <1>7, <5>2 DEF PathSet
          <6> QED BY <6>1, <5>3, AppendInjective
        <5> QED BY <5>4 DEF dst
      <4>4. Len(top.dst) < Len(dst)
        BY <1>8
      <4> QED BY <1>2, <2>1, <3>1, <4>1, <4>2, <4>3, <4>4
    <3>2. CASE k # n
      <4>1. k \in 1..(n - 1) /\ rest[k] = stk[k] /\ \A l \in 1..(k - 1) : rest[l] = stk[l]
        BY <1>2, <1>11, <3>2
      <4>2. ASSUME call[c].ask.kind = "copy"
            PROVE  /\ Len(stk[k].dst) < Len(dst)
                   /\ \A p \in stk[k].left : Append(stk[k].dst, F!Last(p)) # dst
        <5>1. Len(stk[k].dst) < Len(top.dst)
          BY <1>2, <2>1, <4>1, <4>2
        <5>2. stk[k] \in CopyFrame
          BY <1>5
        <5>3. stk[k].dst \in PathSet /\ stk[k].left \in SUBSET PathSet /\ Len(stk[k].dst) \in Nat
          BY <5>2 DEF CopyFrame, PathSet
        <5>4. ASSUME NEW p \in stk[k].left PROVE Append(stk[k].dst, F!Last(p)) # dst
          <6>1. p \in PathSet /\ p # <<>>
            BY <1>1, <5>3
          <6>2. F!Last(p) \in Name
            BY <6>1, ParentOf
          <6>3. Len(Append(stk[k].dst, F!Last(p))) = Len(stk[k].dst) + 1
            BY <5>3, <6>2, ChildOf
          <6> QED BY <1>8, <5>1, <5>3, <6>3
        <5>5. Len(stk[k].dst) < Len(dst)
          <6> HIDE DEF top, n, stk
          <6> QED BY <1>8, <5>1, <5>3
        <5> QED BY <5>4, <5>5
      <4> QED BY <2>1, <4>1, <4>2
    <3> QED BY <3>1, <3>2
  <2> QED BY <1>11, <2>2, <2>3, <2>4 DEF ReturnsTo, F!Kinded
<1> HIDE DEF top, n, stk
<1> QED BY <1>1, <1>7, <1>8, <1>11, <1>12, <1>13, <1>14, EnterStep

\* copy_recursive returns.
LEMMA CopyReturnsStep ==
  ASSUME FilesKept, NEW c \in Call, F!CopyReturns(c), calm' => calm /\ OneCall'
  PROVE  FilesKept'
<1> DEFINE stk == call[c].stack
           n == Len(stk)
<1>1. /\ call[c].at = "copying" /\ F!UnderWay(c) /\ F!Kinded(c, {"copy", "cp"})
      /\ ~F!Kinded(c, {"create", "write"})
      /\ stk \in Seq(CopyFrame) /\ IsTree(tree) /\ tree' = tree /\ erased' = erased
      /\ \A k \in 1..Len(stk) : \A p \in stk[k].left : p # <<>> /\ F!Parent(p) = stk[k].src
  BY CallFacts DEF F!CopyReturns, F!UnderWay, F!Kinded, FilesKept, IsCall
<1>2. CASE F!Ends(c, "ok")
  BY <1>1, <1>2, EndsStep
<1>3. CASE stk # <<>> /\ call' = [call EXCEPT ![c].stack = F!Front(@)]
  <2> DEFINE s == F!Front(stk)
  <2>1. n \in Nat \ {0}
    BY <1>1, <1>3, EmptySeq
  <2>2. s \in Seq(CopyFrame) /\ Len(s) = n - 1 /\ \A k \in 1..(n - 1) : s[k] = stk[k]
    BY <1>1, <1>3, FrontOf
  <2>3. call' = [call EXCEPT ![c].stack = s]
    BY <1>3 DEF FilesKept, CallsAre
  <2> HIDE DEF s
  <2>4. \A k \in 1..Len(s) : k \in 1..n /\ s[k] = stk[k] /\ \A l \in 1..(k - 1) : s[l] = stk[l]
    <3> HIDE DEF n, stk
    <3> QED BY <2>1, <2>2
  <2>5. \A k \in 1..Len(s) : \A q \in s[k].left : q # <<>> /\ F!Parent(q) = s[k].src
    BY <1>1, <2>4
  <2>6. ASSUME calm, NEW r, r.stack = s, r.ask = call[c].ask
        PROVE  IsApart(tree', r)
    <3>1. IsApart(tree, call[c])
      BY <2>6 DEF FilesKept
    <3> QED BY <1>1, <2>4, <2>6, <3>1 DEF IsApart
  <2>7. calm' => \A r : r.at = "copying" /\ r.stack = s /\ r.ask = call[c].ask => IsApart(tree', r)
    BY <2>6
  <2> QED BY <1>1, <2>2, <2>3, <2>5, <2>7, CopyGoesOn
<1> QED BY <1>1, <1>2, <1>3 DEF F!CopyReturns

\* A step of the commands or of file-manager.
LEMMA FilesStep ==
  ASSUME FilesKept, F!Next, calm' => calm /\ OneCall'
  PROVE  FilesKept'
<1>1. ASSUME NEW c \in Call, F!Step(c) PROVE FilesKept'
  BY <1>1, MakeFileStep, MakeDirectoryStep, MoveEntryStep, RemoveEntryStep, CopyStartsStep,
     CopyEntryStep, CopyReturnsStep DEF F!Step
<1>2. ASSUME NEW c \in Call, NEW ask \in F!Ask, F!Look(c, ask) PROVE FilesKept'
  BY <1>2, LookStep
<1> QED BY <1>1, <1>2 DEF F!Next

\* The trees there may be at the start, and no call.
LEMMA FilesInit == InitMC => FilesKept
<1> SUFFICES ASSUME InitMC PROVE FilesKept
  OBVIOUS
<1>1. tree \in Tree0 /\ call = [c \in Call |-> F!NewCall] /\ erased = {}
  BY DEF InitMC, F!Init
<1>2. IsTree(tree)
  <2>1. /\ DOMAIN tree \subseteq PathSet /\ F!IsDir(tree, <<>>)
        /\ \A p \in DOMAIN tree : \A q \in F!Upto(p) \ {p} : F!IsDir(tree, q)
    BY <1>1, StoresAssumption DEF F!FileOpsAssumption, PathSet
  <2>2. ASSUME NEW p \in DOMAIN tree, NEW k \in 0..(Len(p) - 1)
        PROVE  F!IsDir(tree, SubSeq(p, 1, k))
    <3>1. p \in PathSet /\ Len(p) \in Nat
      BY <2>1 DEF PathSet
    <3>2. k \in 0..Len(p) /\ k # Len(p)
      BY <3>1
    <3>3. SubSeq(p, 1, k) \in F!Upto(p) /\ SubSeq(p, 1, k) # p
      BY <3>1, <3>2, Above DEF F!Upto
    <3> QED BY <2>1, <3>3
  <2> QED BY <2>1, <2>2 DEF IsTree
<1>3. F!NewCall = [ask |-> [kind |-> "none", from |-> <<>>, to |-> <<>>], at |-> "new",
                   dst |-> <<>>, stack |-> <<>>, was |-> <<>>]
  BY DEF F!NewCall
<1>4. IsCall(F!NewCall) /\ F!NewCall.at = "new"
  BY <1>3, IdleCall
<1>5. CallsAre
  BY <1>1, <1>4 DEF CallsAre
<1>6. \A c \in Call : call[c].at = "new"
  BY <1>1, <1>4
<1>7. OneCall /\ \A c \in Call : IsFree(tree, call[c]) /\ IsApart(tree, call[c])
  BY <1>6 DEF OneCall, F!UnderWay, F!CopiesOntoItself, IsFree, IsApart
<1>8. F!NothingLost
  <2>1. Old \subseteq F!Contents(tree, DOMAIN tree)
    BY <1>1, StoresAssumption DEF F!FileOpsAssumption
  <2> QED BY <1>6, <2>1 DEF F!NothingLost, F!Done
<1> QED BY <1>2, <1>5, <1>7, <1>8 DEF FilesKept

\* The other parts leave the files alone.
LEMMA FilesStay ==
  ASSUME FilesKept, UNCHANGED fileVars, calm' => calm
  PROVE  FilesKept'
<1>1. tree' = tree /\ call' = call /\ erased' = erased
  BY DEF fileVars
<1>2. IsTree(tree)' /\ CallsAre'
  BY <1>1 DEF FilesKept, IsTree, CallsAre
<1>3. (OneCall /\ F!NothingLost)' = (OneCall /\ F!NothingLost)
  BY <1>1 DEF OneCall, F!UnderWay, F!CopiesOntoItself, F!Kinded, F!From, F!To, F!NothingLost, F!Done
<1>4. (\A c \in Call : IsFree(tree, call[c]) /\ IsApart(tree, call[c]))'
        = (\A c \in Call : IsFree(tree, call[c]) /\ IsApart(tree, call[c]))
  BY <1>1
<1> QED BY <1>2, <1>3, <1>4 DEF FilesKept

\* For every tree of every size, any names, paths and calls: what is above a
\* path is a directory, whatever the calls do to each other; and as long as
\* they come one after the other, and cp does not copy a file onto itself, what
\* was there and what was written is somewhere in the tree until a call deletes
\* it or writes over it by name (create_file, rename_entry, copy_recursive).
THEOREM NothingIsLostUnasked == SpecMC => []FilesInv
<1>1. FilesKept /\ [NextMC]_all => FilesKept'
  <2> SUFFICES ASSUME FilesKept, [NextMC]_all PROVE FilesKept'
    OBVIOUS
  <2>1. CASE NextFiles
    <3>1. F!Next /\ (calm' => calm /\ OneCall')
      BY <2>1 DEF NextFiles, OneCall
    <3> QED BY <3>1, FilesStep
  <2>2. CASE UNCHANGED fileVars /\ (calm' => calm)
    BY <2>2, FilesStay
  <2>3. NextFiles \/ (UNCHANGED fileVars /\ (calm' => calm))
    BY DEF NextMC, NextRequests, NextSample, NextCanvas, NextVault, NextTunnel, all, fileVars
  <2> QED BY <2>1, <2>2, <2>3
<1>2. FilesKept => FilesInv
  <2> SUFFICES ASSUME FilesKept PROVE FilesInv
    OBVIOUS
  <2>1. F!IsDir(tree, <<>>) /\ DOMAIN tree \subseteq PathSet
    BY DEF FilesKept, IsTree
  <2>2. ASSUME NEW p \in DOMAIN tree, p # <<>> PROVE F!IsDir(tree, F!Parent(p))
    <3>1. Len(p) \in Nat \ {0}
      BY <2>1, <2>2, ParentOf
    <3>2. Len(p) - 1 \in 0..(Len(p) - 1)
      BY <3>1
    <3> QED BY <3>2 DEF FilesKept, IsTree, F!Parent
  <2>3. \A c \in Call : call[c].at \in {"new", "looked", "copying", "ok", "error"}
    BY DEF FilesKept, CallsAre, IsCall
  <2> QED BY <2>1, <2>2, <2>3 DEF FilesInv, F!TypeOK, FilesKept
<1> QED BY <1>1, <1>2, FilesInit, PTL DEF SpecMC

-----------------------------------------------------------------------------
(* Copies that are answered. *)

\* Every directory a copy is in has its own at the target.
FramesMirror(t, from, to, s) ==
  \A k \in 1..Len(s) :
    /\ F!IsPrefix(from, s[k].src)
    /\ s[k].dst = F!Moved(s[k].src, from, to) /\ F!IsDir(t, s[k].dst)

\* A directory copied to below itself: the way to the target is still to be gone down.
Endless(s) ==
  \E k \in 1..Len(s) :
    /\ F!IsPrefix(s[k].src, s[k].dst)
    /\ SubSeq(s[k].dst, 1, Len(s[k].src) + 1) \in s[k].left

\* What was at and below a path still is.
SameUnder(t, w, from) ==
  \A q \in PathSet : F!IsPrefix(from, q) =>
    (q \in DOMAIN t <=> q \in DOMAIN w) /\ (q \in DOMAIN t => t[q] = w[q])

Copied(t, w, from, to, q) ==
  F!Moved(q, from, to) \in DOMAIN t /\ t[F!Moved(q, from, to)] = w[q]
ToCopy(s, q) == \E k \in 1..Len(s) : \E p \in s[k].left : F!IsPrefix(p, q)

\* All that there was is copied or is still to be.
CopiedSoFar(t, w, from, to, s) ==
  /\ DOMAIN w \subseteq PathSet /\ SameUnder(t, w, from)
  /\ \A q \in DOMAIN w : F!IsPrefix(from, q) => Copied(t, w, from, to, q) \/ ToCopy(s, q)

WholeSoFar(t, w, from, to, s) ==
  /\ FramesMirror(t, from, to, s)
  /\ F!IsPrefix(from, to) => Endless(s)
  /\ ~F!IsPrefix(from, to) => CopiedSoFar(t, w, from, to, s)

\* A copy that writes neither on its source nor above it.
IsWhole(t, r) ==
  /\ r.at = "looked" => r.was = t
  /\ r.at = "copying" /\ ~F!IsPrefix(r.dst, r.ask.from) =>
       WholeSoFar(t, r.was, r.ask.from, r.dst, r.stack)

CopiesKept == FilesKept /\ (calm => \A c \in Call : IsWhole(tree, call[c]))

-----------------------------------------------------------------------------
(* What a copy's next path does to that. *)

\* Two paths above a third: one of them is above the other.
LEMMA PrefixesCompare ==
  ASSUME NEW p \in PathSet, NEW q \in PathSet, NEW r \in PathSet,
         F!IsPrefix(p, r), F!IsPrefix(q, r)
  PROVE  F!IsPrefix(p, q) \/ F!IsPrefix(q, p)
<1>1. /\ Len(p) \in Nat /\ Len(q) \in Nat /\ Len(r) \in Nat /\ Len(p) <= Len(r) /\ Len(q) <= Len(r)
      /\ \A i \in 1..Len(p) : p[i] = r[i]
      /\ \A i \in 1..Len(q) : q[i] = r[i]
  BY PrefixOf DEF PathSet
<1>2. CASE Len(p) <= Len(q)
  <2>1. \A i \in 1..Len(p) : p[i] = q[i]
    BY <1>1, <1>2
  <2> QED BY <1>2, <2>1, PrefixOf
<1>3. CASE ~(Len(p) <= Len(q))
  <2>1. Len(q) <= Len(p) /\ \A i \in 1..Len(q) : q[i] = p[i]
    BY <1>1, <1>3
  <2> QED BY <2>1, PrefixOf
<1> QED BY <1>2, <1>3

\* A prefix of a prefix.
LEMMA PrefixTransitive ==
  ASSUME NEW p \in PathSet, NEW q \in PathSet, NEW r \in PathSet,
         F!IsPrefix(p, q), F!IsPrefix(q, r)
  PROVE  F!IsPrefix(p, r)
<1>1. q = SubSeq(r, 1, Len(q)) /\ Len(q) \in 0..Len(r)
  BY PrefixOf DEF PathSet
<1>2. F!IsPrefix(p, SubSeq(r, 1, Len(q)))
  BY <1>1
<1> QED BY <1>1, <1>2, PrefixOfAbove

\* The paths above a path are those it starts with.
LEMMA UptoIsPrefix ==
  ASSUME NEW p \in PathSet
  PROVE  \A q : q \in F!Upto(p) <=> q \in PathSet /\ F!IsPrefix(q, p)
<1>1. ASSUME NEW k \in 0..Len(p)
      PROVE  SubSeq(p, 1, k) \in PathSet /\ F!IsPrefix(SubSeq(p, 1, k), p)
  <2> DEFINE q == SubSeq(p, 1, k)
  <2>1. q \in PathSet /\ Len(q) = k
    BY Above
  <2>2. k <= Len(p) /\ q = SubSeq(p, 1, k)
    BY DEF PathSet
  <2> HIDE DEF q
  <2>3. F!IsPrefix(q, p)
    BY <2>1, <2>2, PrefixOf
  <2> QED BY <2>1, <2>3 DEF q
<1>2. ASSUME NEW q \in PathSet, F!IsPrefix(q, p)
      PROVE  Len(q) \in 0..Len(p) /\ q = SubSeq(p, 1, Len(q))
  BY <1>2, PrefixOf DEF PathSet
<1> QED BY <1>1, <1>2 DEF F!Upto

\* Where a path is not above its source, they are of the same length only when it is.
LEMMA MovedApart ==
  ASSUME NEW from \in PathSet, NEW to \in PathSet, ~F!IsPrefix(to, from),
         NEW p \in PathSet, F!IsPrefix(from, p)
  PROVE  /\ F!Moved(p, from, to) \in PathSet /\ F!IsPrefix(to, F!Moved(p, from, to))
         /\ F!Moved(p, from, to) # p
         /\ F!Moved(F!Moved(p, from, to), to, from) = p
         /\ F!IsPrefix(from, to) => Len(p) < Len(F!Moved(p, from, to))
         /\ ~F!IsPrefix(from, to) => ~F!IsPrefix(from, F!Moved(p, from, to))
<1> DEFINE m == F!Moved(p, from, to)
<1>1. /\ m \in PathSet /\ Len(m) = Len(to) + Len(p) - Len(from) /\ F!IsPrefix(to, m)
      /\ F!Moved(m, to, from) = p
  BY MovedTo
<1> HIDE DEF m
<1>2. Len(from) \in Nat /\ Len(to) \in Nat /\ Len(p) \in Nat
  BY DEF PathSet
<1>3. m # p
  <2> SUFFICES ASSUME m = p PROVE FALSE
    OBVIOUS
  <2>1. Len(from) = Len(to)
    BY <1>1, <1>2
  <2>2. F!IsPrefix(from, to) \/ F!IsPrefix(to, from)
    BY <1>1, PrefixesCompare
  <2>3. from = SubSeq(to, 1, Len(from)) /\ SubSeq(to, 1, Len(to)) = to
    BY <1>2, <2>2, PrefixOf, Above
  <2>4. from = to
    BY <2>1, <2>3
  <2> QED BY <2>2, <2>4
<1>4. F!IsPrefix(from, to) => Len(p) < Len(m)
  <2> SUFFICES ASSUME F!IsPrefix(from, to) PROVE Len(from) < Len(to)
    BY <1>1, <1>2
  <2>1. Len(from) <= Len(to) /\ from = SubSeq(to, 1, Len(from)) /\ SubSeq(to, 1, Len(to)) = to
    BY <1>2, PrefixOf, Above
  <2>2. Len(from) # Len(to)
    BY <2>1
  <2>3. \A k, l \in Nat : k <= l /\ k # l => k < l
    OBVIOUS
  <2> QED BY <1>2, <2>1, <2>2, <2>3
<1>5. ~F!IsPrefix(from, to) => ~F!IsPrefix(from, m)
  BY <1>1, PrefixesCompare
<1> QED BY <1>1, <1>3, <1>4, <1>5 DEF m

\* What is below a directory is one of its entries or below one.
LEMMA BelowAnEntry ==
  ASSUME NEW t, IsTree(t), NEW p \in PathSet, NEW q \in DOMAIN t, F!IsPrefix(p, q), q # p
  PROVE  \E e \in F!Entries(t, p) : F!IsPrefix(e, q)
<1>1. q \in PathSet /\ Len(q) \in Nat /\ Len(p) \in Nat
  BY DEF IsTree, PathSet
<1>2. Len(p) <= Len(q) /\ p = SubSeq(q, 1, Len(p)) /\ SubSeq(q, 1, Len(q)) = q
      /\ \A i \in 1..Len(p) : p[i] = q[i]
  BY <1>1, PrefixOf, Above
<1>3. Len(p) # Len(q)
  BY <1>2
<1>4. PICK k \in Nat : k = Len(p) + 1 /\ k \in 0..Len(q)
  <2>1. \A i, j \in Nat : i <= j /\ i # j => i + 1 \in Nat /\ i + 1 \in 0..j
    OBVIOUS
  <2> QED BY <1>1, <1>2, <1>3, <2>1
<1> DEFINE e == SubSeq(q, 1, k)
<1>5. e \in PathSet /\ Len(e) = k /\ \A i \in 1..k : e[i] = q[i]
  BY <1>1, <1>4, Above
<1>6. e \in DOMAIN t
  <2>1. CASE k = Len(q)
    BY <1>2, <2>1
  <2>2. CASE k # Len(q)
    <3>1. k \in 0..(Len(q) - 1)
      BY <1>1, <1>4, <2>2
    <3> QED BY <3>1 DEF IsTree, F!IsDir
  <2> QED BY <2>1, <2>2
<1>7. e \in F!Upto(q)
  BY <1>4 DEF F!Upto
<1>8. F!IsPrefix(e, q)
  BY <1>1, <1>7, UptoIsPrefix
<1> HIDE DEF e
<1>9. F!IsPrefix(p, e)
  <2>1. Len(p) <= Len(e) /\ \A i \in 1..Len(p) : p[i] = e[i]
    BY <1>1, <1>2, <1>4, <1>5
  <2> QED BY <1>5, <2>1, PrefixOf
<1>10. e \in F!Entries(t, p)
  BY <1>4, <1>5, <1>6, <1>9 DEF F!Entries, F!Under
<1> QED BY <1>8, <1>10

-----------------------------------------------------------------------------
(* A path is copied. *)

\* All that there was is copied, or to be when src is, which is next.
Entering(t, w, from, to, s, src, dst) ==
  /\ F!IsPrefix(from, src) /\ dst = F!Moved(src, from, to)
  /\ FramesMirror(t, from, to, s)
  /\ F!IsPrefix(from, to) => Endless(s) \/ F!IsPrefix(src, dst)
  /\ ~F!IsPrefix(from, to) =>
       /\ DOMAIN w \subseteq PathSet /\ SameUnder(t, w, from)
       /\ \A q \in DOMAIN w : F!IsPrefix(from, q) =>
            Copied(t, w, from, to, q) \/ ToCopy(s, q) \/ F!IsPrefix(src, q)

\* What was below the source still is, when nothing is made there.
LEMMA SameStays ==
  ASSUME NEW t, NEW u, NEW w, NEW from \in PathSet, SameUnder(t, w, from), DOMAIN t \subseteq DOMAIN u,
         \A q \in DOMAIN t : F!IsPrefix(from, q) => u[q] = t[q],
         \A q \in DOMAIN u \ DOMAIN t : ~F!IsPrefix(from, q)
  PROVE  SameUnder(u, w, from)
  BY DEF SameUnder

\* It is a directory: its entries are to be copied.
LEMMA DirectoryEntered ==
  ASSUME NEW t, IsTree(t), NEW from \in PathSet, NEW to \in PathSet, ~F!IsPrefix(to, from),
         NEW src \in PathSet, NEW dst \in PathSet, NEW rest \in Seq(CopyFrame), NEW w,
         F!IsDir(t, src), F!MkdirOk(t, dst), Entering(t, w, from, to, rest, src, dst)
  PROVE  LET u == F!Mkdir(t, dst) IN
         WholeSoFar(u, w, from, to, Append(rest, F!Frame(u, src, dst)))
<1> DEFINE u == F!Mkdir(t, dst)
           f == F!Frame(u, src, dst)
           s == Append(rest, f)
           n == Len(rest) + 1
<1>1. /\ IsTree(u) /\ F!IsDir(u, dst)
      /\ DOMAIN t \subseteq DOMAIN u /\ \A q \in DOMAIN t : u[q] = t[q]
      /\ \A q \in DOMAIN u \ DOMAIN t : q \in F!Upto(dst)
      /\ \A q \in F!Upto(dst) : q \in DOMAIN u
  <2>1. /\ IsTree(u) /\ F!IsDir(u, dst)
        /\ DOMAIN t \subseteq DOMAIN u /\ \A q \in DOMAIN t : u[q] = t[q]
        /\ \A q \in DOMAIN u \ DOMAIN t : q \in F!Upto(dst)
    BY MkdirTree
  <2>2. \A q \in F!Upto(dst) : q \in DOMAIN u
    BY DEF F!Mkdir
  <2> QED BY <2>1, <2>2
<1>2. /\ F!IsPrefix(from, src) /\ dst = F!Moved(src, from, to) /\ FramesMirror(t, from, to, rest)
      /\ F!IsPrefix(from, to) => Endless(rest) \/ F!IsPrefix(src, dst)
  BY DEF Entering
<1>3. f.src = src /\ f.dst = dst /\ f.left = F!Entries(u, src)
  BY DEF F!Frame
<1>4. f \in CopyFrame
  <2> HIDE DEF u
  <2>1. F!Entries(u, src) \in SUBSET PathSet
    BY <1>1, EntriesOf
  <2>2. f = [src |-> src, dst |-> dst, left |-> F!Entries(u, src)]
    BY DEF F!Frame
  <2> QED BY <2>1, <2>2 DEF CopyFrame
<1> HIDE DEF u, f
<1>5. /\ Len(rest) \in Nat /\ Len(s) = n /\ s[n] = f
      /\ \A k \in 1..Len(rest) : s[k] = rest[k]
  BY <1>4, AppendProperties
<1>6. \A k \in 1..n : k = n \/ k \in 1..Len(rest)
  BY <1>5
<1>a. n \in 1..n /\ 1..Len(rest) \subseteq 1..n
  BY <1>5
<1> HIDE DEF s, n
<1>7. FramesMirror(u, from, to, s)
  <2>1. \A q : F!IsDir(t, q) => F!IsDir(u, q)
    BY <1>1 DEF F!IsDir
  <2> QED BY <1>1, <1>2, <1>3, <1>5, <1>6, <2>1 DEF FramesMirror
<1>8. ASSUME F!IsPrefix(from, to) PROVE Endless(s)
  <2>1. CASE Endless(rest)
    BY <1>5, <1>a, <2>1 DEF Endless
  <2>2. CASE F!IsPrefix(src, dst)
    <3>1. Len(src) < Len(dst) /\ Len(src) \in Nat /\ Len(dst) \in Nat
      BY <1>2, <1>8, MovedApart DEF PathSet
    <3>2. Len(src) + 1 \in 0..Len(dst)
      BY <3>1
    <3> DEFINE e == SubSeq(dst, 1, Len(src) + 1)
    <3>3. e \in PathSet /\ Len(e) = Len(src) + 1 /\ \A i \in 1..(Len(src) + 1) : e[i] = dst[i]
      BY <3>2, Above
    <3>4. e \in DOMAIN u
      BY <1>1, <3>2 DEF F!Upto
    <3> HIDE DEF e
    <3>5. F!IsPrefix(src, e)
      <4>1. \A i \in 1..Len(src) : src[i] = dst[i]
        BY <2>2, PrefixOf
      <4>2. Len(src) <= Len(e) /\ \A i \in 1..Len(src) : src[i] = e[i]
        BY <3>1, <3>3, <4>1
      <4> QED BY <3>3, <4>2, PrefixOf
    <3>6. e \in F!Entries(u, src)
      BY <3>3, <3>4, <3>5 DEF F!Entries, F!Under
    <3> QED BY <1>3, <1>5, <1>a, <2>2, <3>6 DEF Endless, e
  <2> QED BY <1>2, <1>8, <2>1, <2>2
<1>9. ASSUME ~F!IsPrefix(from, to) PROVE CopiedSoFar(u, w, from, to, s)
  <2>1. /\ DOMAIN w \subseteq PathSet /\ SameUnder(t, w, from)
        /\ \A q \in DOMAIN w : F!IsPrefix(from, q) =>
             Copied(t, w, from, to, q) \/ ToCopy(rest, q) \/ F!IsPrefix(src, q)
    BY <1>9 DEF Entering
  <2>2. SameUnder(u, w, from)
    <3>1. ~F!IsPrefix(from, dst)
      BY <1>2, <1>9, MovedApart
    <3>2. ASSUME NEW q \in DOMAIN u \ DOMAIN t PROVE ~F!IsPrefix(from, q)
      <4>1. q \in PathSet /\ F!IsPrefix(q, dst)
        BY <1>1, <3>2, UptoIsPrefix
      <4> QED BY <3>1, <4>1, PrefixTransitive
    <3> QED BY <1>1, <2>1, <3>2, SameStays
  <2>3. ASSUME NEW q \in DOMAIN w, F!IsPrefix(from, q)
        PROVE  Copied(u, w, from, to, q) \/ ToCopy(s, q)
    <3>1. CASE Copied(t, w, from, to, q)
      BY <1>1, <3>1 DEF Copied
    <3>2. CASE ToCopy(rest, q)
      BY <1>5, <1>a, <3>2 DEF ToCopy
    <3>3. CASE F!IsPrefix(src, q) /\ q = src
      <4>1. t[src] = w[src]
        BY <1>2, <2>1, <3>3 DEF SameUnder
      <4> QED BY <1>1, <1>2, <3>3, <4>1 DEF Copied, F!IsDir
    <3>4. CASE F!IsPrefix(src, q) /\ q # src
      <4>1. q \in DOMAIN u
        BY <1>1, <2>1, <2>3 DEF SameUnder
      <4>2. \E e \in F!Entries(u, src) : F!IsPrefix(e, q)
        BY <1>1, <3>4, <4>1, BelowAnEntry
      <4> QED BY <1>3, <1>5, <1>a, <4>2 DEF ToCopy
    <3> QED BY <2>1, <2>3, <3>1, <3>2, <3>3, <3>4
  <2> QED BY <2>1, <2>2, <2>3 DEF CopiedSoFar
<1> QED BY <1>7, <1>8, <1>9 DEF WholeSoFar, u, f, s

\* It is a file: it is copied.
LEMMA FileEntered ==
  ASSUME NEW t, IsTree(t), NEW from \in PathSet, NEW to \in PathSet, ~F!IsPrefix(to, from),
         NEW src \in PathSet, NEW dst \in PathSet, NEW rest \in Seq(CopyFrame), NEW w,
         F!IsFile(t, src), F!MkdirOk(t, F!Parent(dst)),
         F!WriteOk(F!Mkdir(t, F!Parent(dst)), dst), Entering(t, w, from, to, rest, src, dst)
  PROVE  WholeSoFar(F!CopiedFile(F!Mkdir(t, F!Parent(dst)), src, dst), w, from, to, rest)
<1> DEFINE v == F!Mkdir(t, F!Parent(dst))
           u == F!CopiedFile(v, src, dst)
<1>1. /\ F!IsPrefix(from, src) /\ dst = F!Moved(src, from, to) /\ FramesMirror(t, from, to, rest)
      /\ F!IsPrefix(from, to) => Endless(rest) \/ F!IsPrefix(src, dst)
      /\ src # dst /\ dst # <<>>
  BY MovedApart DEF Entering, F!WriteOk
<1>2. F!Parent(dst) \in PathSet /\ F!Parent(dst) = SubSeq(dst, 1, Len(dst) - 1)
      /\ Len(dst) \in Nat \ {0} /\ Len(F!Parent(dst)) = Len(dst) - 1
  BY <1>1, ParentOf DEF F!Parent
<1>3. /\ IsTree(v) /\ DOMAIN t \subseteq DOMAIN v /\ \A q \in DOMAIN t : v[q] = t[q]
      /\ \A q \in DOMAIN v \ DOMAIN t : q \in F!Upto(F!Parent(dst))
  BY <1>2, MkdirTree
<1>4. /\ DOMAIN u = DOMAIN v \cup {dst} /\ u[dst] = v[src]
      /\ \A q \in DOMAIN v \ {dst} : u[q] = v[q]
      /\ ~F!IsDir(v, dst) /\ src \in DOMAIN t
  BY <1>1 DEF F!CopiedFile, F!Write, F!WriteOk, F!IsFile
<1> HIDE DEF v, u
<1>5. /\ DOMAIN t \subseteq DOMAIN u /\ dst \in DOMAIN u /\ u[dst] = t[src]
      /\ \A q \in DOMAIN t \ {dst} : u[q] = t[q]
  BY <1>3, <1>4
<1>6. \A q \in DOMAIN u \ DOMAIN t : q \in PathSet /\ F!IsPrefix(q, dst)
  <2>1. F!IsPrefix(F!Parent(dst), dst) /\ F!IsPrefix(dst, dst)
    <3>1. Len(dst) - 1 \in 0..Len(dst)
      BY <1>2
    <3>2. F!Parent(dst) \in F!Upto(dst)
      BY <1>2, <3>1 DEF F!Upto
    <3> QED BY <3>2, UptoIsPrefix, PrefixOf
  <2> QED BY <1>2, <1>3, <1>4, <2>1, UptoIsPrefix, PrefixTransitive
<1>7. FramesMirror(u, from, to, rest)
  <2>1. \A q : F!IsDir(t, q) => F!IsDir(u, q)
    BY <1>3, <1>4, <1>5 DEF F!IsDir
  <2> QED BY <1>1, <2>1 DEF FramesMirror
\* A file has no path below it.
<1>8. ASSUME NEW q \in DOMAIN t, F!IsPrefix(src, q) PROVE q = src
  <2>1. q \in PathSet /\ Len(q) \in Nat /\ Len(src) \in Nat
    BY DEF IsTree, PathSet
  <2>2. Len(src) <= Len(q) /\ src = SubSeq(q, 1, Len(src)) /\ SubSeq(q, 1, Len(q)) = q
    BY <1>8, <2>1, PrefixOf, Above
  <2>3. CASE Len(src) = Len(q)
    BY <2>2, <2>3
  <2>4. CASE Len(src) # Len(q)
    <3>a. \A i, j \in Nat : i <= j /\ i # j => i \in 0..(j - 1)
      OBVIOUS
    <3>1. Len(src) \in 0..(Len(q) - 1)
      BY <2>1, <2>2, <2>4, <3>a
    <3>2. F!IsDir(t, src)
      BY <2>2, <3>1 DEF IsTree
    <3> QED BY <3>2 DEF F!IsDir, F!IsFile
  <2> QED BY <2>3, <2>4
<1>9. ASSUME F!IsPrefix(from, to) PROVE Endless(rest)
  <2>1. SUFFICES ASSUME F!IsPrefix(src, dst) PROVE FALSE
    BY <1>1, <1>9
  <2>2. Len(src) < Len(dst) /\ Len(src) \in Nat
    BY <1>1, <1>9, MovedApart DEF PathSet
  <2>3. src = SubSeq(dst, 1, Len(src))
    BY <2>1, PrefixOf
  <2>4. Len(src) \in 0..(Len(dst) - 1) /\ Len(dst) - 1 \in 0..Len(dst) /\ Len(src) \in 0..Len(F!Parent(dst))
    BY <1>2, <2>2
  <2>5. src = SubSeq(F!Parent(dst), 1, Len(src))
    BY <1>2, <2>3, <2>4, AboveAbove
  <2>6. src \in F!Upto(F!Parent(dst))
    BY <2>4, <2>5 DEF F!Upto
  <2> QED BY <2>6 DEF F!MkdirOk, F!IsDir, F!IsFile
<1>10. ASSUME ~F!IsPrefix(from, to) PROVE CopiedSoFar(u, w, from, to, rest)
  <2>1. /\ DOMAIN w \subseteq PathSet /\ SameUnder(t, w, from)
        /\ \A q \in DOMAIN w : F!IsPrefix(from, q) =>
             Copied(t, w, from, to, q) \/ ToCopy(rest, q) \/ F!IsPrefix(src, q)
    BY <1>10 DEF Entering
  <2>2. SameUnder(u, w, from)
    <3>1. ~F!IsPrefix(from, dst)
      BY <1>1, <1>10, MovedApart
    <3>2. \A q \in DOMAIN u \ DOMAIN t : ~F!IsPrefix(from, q)
      BY <1>6, <3>1, PrefixTransitive
    <3> QED BY <1>5, <2>1, <3>1, <3>2, SameStays
  <2>3. Copied(u, w, from, to, src)
    <3>1. t[src] = w[src]
      BY <1>1, <1>4, <2>1 DEF SameUnder
    <3> QED BY <1>1, <1>5, <3>1 DEF Copied
  <2>4. ASSUME NEW q \in DOMAIN w, F!IsPrefix(from, q)
        PROVE  Copied(u, w, from, to, q) \/ ToCopy(rest, q)
    <3>1. CASE Copied(t, w, from, to, q)
      <4>1. q \in PathSet /\ F!Moved(F!Moved(q, from, to), to, from) = q
        BY <2>1, <2>4, MovedApart
      <4>2. F!Moved(dst, to, from) = src
        BY <1>1, MovedApart
      <4>3. CASE F!Moved(q, from, to) = dst
        BY <2>3, <4>1, <4>2, <4>3
      <4>4. CASE F!Moved(q, from, to) # dst
        BY <1>5, <3>1, <4>4 DEF Copied
      <4> QED BY <4>3, <4>4
    <3>2. CASE F!IsPrefix(src, q)
      <4>1. q \in DOMAIN t
        BY <2>1, <2>4 DEF SameUnder
      <4> QED BY <1>8, <2>3, <3>2, <4>1
    <3> QED BY <2>1, <2>4, <3>1, <3>2
  <2> QED BY <2>1, <2>2, <2>4 DEF CopiedSoFar
<1> QED BY <1>7, <1>9, <1>10 DEF WholeSoFar, u, v

\* A path is above one with one name more.
LEMMA BelowChild ==
  ASSUME NEW p \in PathSet, NEW n \in Name
  PROVE  F!IsPrefix(p, Append(p, n))
<1> DEFINE q == Append(p, n)
<1>1. q \in PathSet /\ Len(q) = Len(p) + 1 /\ Len(p) \in Nat /\ \A i \in 1..Len(p) : q[i] = p[i]
  BY AppendProperties DEF PathSet
<1> HIDE DEF q
<1>2. F!IsPrefix(p, q)
  BY <1>1, PrefixOf
<1> QED BY <1>2 DEF q

\* One name more is one name more at the target.
LEMMA MovedChild ==
  ASSUME NEW from \in PathSet, NEW to \in PathSet, NEW p \in PathSet, F!IsPrefix(from, p), NEW n \in Name
  PROVE  /\ F!IsPrefix(p, Append(p, n)) /\ F!IsPrefix(from, Append(p, n))
         /\ F!Moved(Append(p, n), from, to) = Append(F!Moved(p, from, to), n)
<1> DEFINE q == Append(p, n)
           m == F!Moved(p, from, to)
           mq == F!Moved(q, from, to)
           z == Append(m, n)
<1>1. PICK f \in Nat, d \in Nat, l \in Nat : f = Len(from) /\ d = Len(to) /\ l = Len(p) /\ f <= l
  BY PrefixOf DEF PathSet
<1>2. q \in PathSet /\ Len(q) = l + 1 /\ q[l + 1] = n /\ \A i \in 1..l : q[i] = p[i]
  BY <1>1, AppendProperties DEF PathSet
<1>3. /\ m \in PathSet /\ Len(m) = d + l - f
      /\ \A i \in 1..Len(m) : m[i] = IF i <= d THEN to[i] ELSE p[i - d + f]
  BY <1>1, MovedNames
<1> HIDE DEF q, m
<1>4. F!IsPrefix(p, q)
  BY <1>1, <1>2, PrefixOf
<1>5. F!IsPrefix(from, q)
  BY <1>2, <1>4, PrefixTransitive
<1>6. /\ mq \in PathSet /\ Len(mq) = d + (l + 1) - f
      /\ \A i \in 1..Len(mq) : mq[i] = IF i <= d THEN to[i] ELSE q[i - d + f]
  <2>1. Len(from) <= Len(q)
    BY <1>1, <1>2
  <2>2. /\ mq \in PathSet /\ Len(mq) = Len(to) + Len(q) - Len(from)
        /\ \A i \in 1..Len(mq) :
             mq[i] = IF i <= Len(to) THEN to[i] ELSE q[i - Len(to) + Len(from)]
    BY <1>2, <2>1, MovedNames
  <2> HIDE DEF mq
  <2> QED BY <1>1, <1>2, <2>2
<1>7. /\ z \in PathSet /\ Len(z) = Len(m) + 1 /\ z[Len(m) + 1] = n
      /\ \A i \in 1..Len(m) : z[i] = m[i]
  <2> HIDE DEF mq
  <2>1. m \in Seq(Name) /\ n \in Name
    BY <1>3 DEF PathSet
  <2> QED BY <2>1, AppendProperties DEF PathSet
<1> HIDE DEF mq, z
<1>8. ASSUME NEW i \in 1..Len(mq) PROVE mq[i] = z[i]
  <2>1. CASE i = d + l - f + 1
    <3>1. ~(i <= d) /\ i - d + f = l + 1
      BY <1>1, <2>1
    <3> QED BY <1>2, <1>3, <1>6, <1>7, <2>1, <3>1
  <2>2. CASE i # d + l - f + 1
    <3>1. i \in 1..Len(m)
      <4>1. \A j \in 1..(d + (l + 1) - f) : j # d + l - f + 1 => j \in 1..(d + l - f)
        BY <1>1
      <4> QED BY <1>3, <1>6, <2>2, <4>1
    <3>2. CASE i <= d
      BY <1>3, <1>6, <1>7, <3>1, <3>2
    <3>3. CASE ~(i <= d)
      <4>1. i - d + f \in 1..l
        BY <1>1, <1>3, <3>1, <3>3
      <4> QED BY <1>2, <1>3, <1>6, <1>7, <3>1, <3>3, <4>1
    <3> QED BY <3>2, <3>3
  <2> QED BY <2>1, <2>2
<1>9. Len(mq) = Len(z)
  BY <1>1, <1>3, <1>6, <1>7
<1>10. mq = z
  BY <1>6, <1>7, <1>8, <1>9, SamePath
<1> QED BY <1>4, <1>5, <1>10 DEF q, m, mq, z

\* copy_recursive goes on with q, an entry of the directory it is in.
LEMMA EntryEntered ==
  ASSUME NEW t, NEW w, NEW from \in PathSet, NEW to \in PathSet, ~F!IsPrefix(to, from),
         NEW s \in Seq(CopyFrame), NEW rest, NEW n \in Nat \ {0}, Len(s) = n, Len(rest) = n,
         \A k \in 1..n : \A p \in s[k].left : p # <<>> /\ F!Parent(p) = s[k].src,
         WholeSoFar(t, w, from, to, s), NEW q \in s[n].left,
         \A k \in 1..n : rest[k].src = s[k].src /\ rest[k].dst = s[k].dst,
         \A k \in 1..(n - 1) : rest[k].left = s[k].left,
         rest[n].left = s[n].left \ {q}
  PROVE  Entering(t, w, from, to, rest, q, Append(s[n].dst, F!Last(q)))
<1> DEFINE dir == s[n].src
           dst == Append(s[n].dst, F!Last(q))
<1>1. /\ n \in 1..n /\ 1..(n - 1) \subseteq 1..n
      /\ \A k \in 1..n : k = n \/ k \in 1..(n - 1)
  OBVIOUS
<1>2. s[n] \in CopyFrame /\ q # <<>> /\ F!Parent(q) = dir
  BY <1>1
<1>3. /\ q \in PathSet /\ dir \in PathSet /\ s[n].dst \in PathSet
      /\ F!Last(q) \in Name /\ q = Append(dir, F!Last(q)) /\ Len(q) = Len(dir) + 1
  <2>1. q \in PathSet /\ dir \in PathSet /\ s[n].dst \in PathSet
    BY <1>2 DEF CopyFrame
  <2>2. F!Last(q) \in Name /\ q = Append(dir, F!Last(q))
    BY <1>2, <2>1, ParentOf
  <2> QED BY <2>1, <2>2, ChildOf
<1>4. FramesMirror(t, from, to, s)
  BY DEF WholeSoFar
<1>5. F!IsPrefix(from, dir) /\ s[n].dst = F!Moved(dir, from, to)
  BY <1>1, <1>4 DEF FramesMirror
<1>6. F!IsPrefix(from, q) /\ dst = F!Moved(q, from, to)
  <2> HIDE DEF dir
  <2>1. PICK m \in Name : m = F!Last(q)
    BY <1>3
  <2>2. /\ F!IsPrefix(from, Append(dir, m))
        /\ F!Moved(Append(dir, m), from, to) = Append(F!Moved(dir, from, to), m)
    BY <1>3, <1>5, MovedChild
  <2> QED BY <1>3, <1>5, <2>1, <2>2
<1>7. FramesMirror(t, from, to, rest)
  BY <1>4 DEF FramesMirror
<1>8. ASSUME F!IsPrefix(from, to) PROVE Endless(rest) \/ F!IsPrefix(q, dst)
  <2>1. PICK k \in 1..n : /\ F!IsPrefix(s[k].src, s[k].dst)
                          /\ SubSeq(s[k].dst, 1, Len(s[k].src) + 1) \in s[k].left
    BY <1>8 DEF WholeSoFar, Endless
  <2>2. CASE SubSeq(s[k].dst, 1, Len(s[k].src) + 1) \in rest[k].left
    BY <2>1, <2>2 DEF Endless
  <2>3. CASE SubSeq(s[k].dst, 1, Len(s[k].src) + 1) \notin rest[k].left
    <3>1. k = n /\ q = SubSeq(s[n].dst, 1, Len(dir) + 1)
      BY <1>1, <2>1, <2>3
    <3>2. Len(dir) < Len(s[n].dst) /\ Len(dir) \in Nat /\ Len(s[n].dst) \in Nat
      BY <1>3, <1>5, <1>8, MovedApart DEF PathSet
    <3>3. Len(dir) + 1 \in 0..Len(s[n].dst)
      BY <3>2
    <3>4. q \in F!Upto(s[n].dst)
      BY <3>1, <3>3 DEF F!Upto
    <3>5. F!IsPrefix(q, s[n].dst)
      BY <1>3, <3>4, UptoIsPrefix
    <3>6. F!IsPrefix(s[n].dst, dst) /\ dst \in PathSet
      BY <1>3, BelowChild, ChildOf
    <3> QED BY <1>3, <3>5, <3>6, PrefixTransitive
  <2> QED BY <2>2, <2>3
<1>9. ASSUME ~F!IsPrefix(from, to)
      PROVE  /\ DOMAIN w \subseteq PathSet /\ SameUnder(t, w, from)
             /\ \A y \in DOMAIN w : F!IsPrefix(from, y) =>
                  Copied(t, w, from, to, y) \/ ToCopy(rest, y) \/ F!IsPrefix(q, y)
  <2>1. CopiedSoFar(t, w, from, to, s)
    BY <1>9 DEF WholeSoFar
  <2>2. ASSUME NEW y, ToCopy(s, y), ~F!IsPrefix(q, y) PROVE ToCopy(rest, y)
    <3>1. PICK k \in 1..n : \E p \in s[k].left : F!IsPrefix(p, y)
      BY <2>2 DEF ToCopy
    <3>2. \E p \in rest[k].left : F!IsPrefix(p, y)
      BY <1>1, <2>2, <3>1
    <3> QED BY <3>2 DEF ToCopy
  <2> QED BY <2>1, <2>2 DEF CopiedSoFar
<1> QED BY <1>6, <1>7, <1>8, <1>9 DEF Entering

-----------------------------------------------------------------------------
(* The steps of copies. *)

\* Where a call is that goes on copying.
LEMMA CopyingCall ==
  ASSUME CallsAre, NEW c \in Call, NEW s,
         \/ call' = [call EXCEPT ![c].at = "copying", ![c].stack = s]
         \/ call[c].at = "copying" /\ call' = [call EXCEPT ![c].stack = s]
  PROVE  /\ call'[c].at = "copying" /\ call'[c].stack = s /\ call'[c].ask = call[c].ask
         /\ call'[c].dst = call[c].dst /\ call'[c].was = call[c].was
         /\ \A d \in Call \ {c} : call'[d] = call[d]
<1> DEFINE r == [ask |-> call[c].ask, at |-> "copying", dst |-> call[c].dst, stack |-> s,
                 was |-> call[c].was]
<1>1. call' = [call EXCEPT ![c] = r]
  BY GoesOnAs
<1>2. /\ r.at = "copying" /\ r.stack = s /\ r.ask = call[c].ask
      /\ r.dst = call[c].dst /\ r.was = call[c].was
  OBVIOUS
<1> HIDE DEF r
<1>3. call'[c] = r /\ \A d \in Call \ {c} : call'[d] = call[d]
  BY <1>1 DEF CallsAre
<1> QED BY <1>2, <1>3

\* Where a call is that has ended.
LEMMA EndedCall ==
  ASSUME CallsAre, NEW c \in Call, NEW status, F!Ends(c, status)
  PROVE  call'[c].at = status /\ \A d \in Call \ {c} : call'[d] = call[d]
<1> DEFINE r == F!Ended(call[c].ask.kind, status)
<1>1. r.at = status
  <2>1. r = [ask |-> [kind |-> call[c].ask.kind, from |-> <<>>, to |-> <<>>], at |-> status,
             dst |-> <<>>, stack |-> <<>>, was |-> <<>>]
    BY EndedIs
  <2> QED BY <2>1
<1>2. call' = [call EXCEPT ![c] = r]
  BY DEF F!Ends, CallsAre
<1> HIDE DEF r
<1> QED BY <1>1, <1>2 DEF CallsAre

\* copy_recursive.
LEMMA EnterWhole ==
  ASSUME FilesKept, NEW c \in Call, NEW rest \in Seq(CopyFrame),
         NEW src \in PathSet, NEW dst \in PathSet, F!Enter(c, src, dst, rest),
         ~F!IsPrefix(call[c].dst, call[c].ask.from) =>
           Entering(tree, call[c].was, call[c].ask.from, call[c].dst, rest, src, dst)
  PROVE  /\ call'[c].at \in {"copying", "error"} /\ IsWhole(tree', call'[c])
         /\ \A d \in Call \ {c} : call'[d] = call[d]
<1> DEFINE from == call[c].ask.from
           to == call[c].dst
           w == call[c].was
<1>1. from \in PathSet /\ to \in PathSet /\ IsTree(tree) /\ CallsAre
  BY CallFacts DEF FilesKept
<1>2. CASE /\ F!IsDir(tree, src) /\ F!MkdirOk(tree, dst)
           /\ tree' = F!Mkdir(tree, dst)
           /\ call' = [call EXCEPT ![c].at = "copying",
                                   ![c].stack = Append(rest, F!Frame(tree', src, dst))]
  <2>1. /\ call'[c].at = "copying" /\ call'[c].stack = Append(rest, F!Frame(tree', src, dst))
        /\ call'[c].ask = call[c].ask /\ call'[c].dst = to /\ call'[c].was = w
        /\ \A d \in Call \ {c} : call'[d] = call[d]
    BY <1>1, <1>2, CopyingCall
  <2>2. ~F!IsPrefix(to, from) =>
          WholeSoFar(tree', w, from, to, Append(rest, F!Frame(tree', src, dst)))
    <3> HIDE DEF from, to, w
    <3>1. ~F!IsPrefix(to, from) => Entering(tree, w, from, to, rest, src, dst)
      BY DEF from, to, w
    <3> QED BY <1>1, <1>2, <3>1, DirectoryEntered
  <2> QED BY <2>1, <2>2 DEF IsWhole
<1>3. CASE /\ F!IsFile(tree, src) /\ F!MkdirOk(tree, F!Parent(dst))
           /\ F!WriteOk(F!Mkdir(tree, F!Parent(dst)), dst)
           /\ tree' = F!CopiedFile(F!Mkdir(tree, F!Parent(dst)), src, dst)
           /\ call' = [call EXCEPT ![c].at = "copying", ![c].stack = rest]
  <2>1. /\ call'[c].at = "copying" /\ call'[c].stack = rest
        /\ call'[c].ask = call[c].ask /\ call'[c].dst = to /\ call'[c].was = w
        /\ \A d \in Call \ {c} : call'[d] = call[d]
    BY <1>1, <1>3, CopyingCall
  <2>2. ~F!IsPrefix(to, from) => WholeSoFar(tree', w, from, to, rest)
    <3> HIDE DEF from, to, w
    <3>1. ~F!IsPrefix(to, from) => Entering(tree, w, from, to, rest, src, dst)
      BY DEF from, to, w
    <3> QED BY <1>1, <1>3, <3>1, FileEntered
  <2> QED BY <2>1, <2>2 DEF IsWhole
<1>4. CASE F!Ends(c, "error")
  <2>1. call'[c].at = "error" /\ \A d \in Call \ {c} : call'[d] = call[d]
    BY <1>1, <1>4, EndedCall
  <2> QED BY <2>1 DEF IsWhole
<1>5. \/ F!IsDir(tree, src) /\ F!MkdirOk(tree, dst)
         /\ tree' = F!Mkdir(tree, IF F!IsDir(tree, src) THEN dst ELSE F!Parent(dst))
         /\ call' = [call EXCEPT ![c].at = "copying",
              ![c].stack = Append(rest, F!Frame(F!Mkdir(tree, IF F!IsDir(tree, src) THEN dst ELSE F!Parent(dst)), src, dst))]
      \/ /\ F!IsFile(tree, src) /\ F!MkdirOk(tree, F!Parent(dst))
         /\ F!WriteOk(F!Mkdir(tree, IF F!IsDir(tree, src) THEN dst ELSE F!Parent(dst)), dst)
         /\ tree' = F!CopiedFile(F!Mkdir(tree, IF F!IsDir(tree, src) THEN dst ELSE F!Parent(dst)), src, dst)
         /\ call' = [call EXCEPT ![c].at = "copying", ![c].stack = rest]
      \/ F!Ends(c, "error")
  BY DEF F!Enter
<1>6. F!IsFile(tree, src) => ~F!IsDir(tree, src)
  BY DEF F!IsFile, F!IsDir
<1> QED BY <1>2, <1>3, <1>4, <1>5, <1>6

\* copy_entry and cp start: all there is, is to be copied.
LEMMA CopyStartsWhole ==
  ASSUME CopiesKept, calm, NEW c \in Call, F!CopyStarts(c)
  PROVE  /\ call'[c].at \in {"copying", "error"} /\ IsWhole(tree', call'[c])
         /\ \A d \in Call \ {c} : call'[d] = call[d]
<1> DEFINE from == call[c].ask.from
           to == call[c].dst
<1>1. /\ from \in PathSet /\ to \in PathSet /\ IsTree(tree) /\ FilesKept
      /\ call[c].at = "looked" /\ F!Enter(c, from, to, <<>>)
  BY CallFacts DEF F!CopyStarts, F!Acts, CopiesKept, FilesKept
<1>2. call[c].was = tree
  BY <1>1 DEF CopiesKept, IsWhole
<1>3. <<>> \in Seq(CopyFrame) /\ Len(<<>>) = 0
  BY EmptySeq
<1> HIDE DEF from, to
<1>4. F!IsPrefix(from, from) /\ to = F!Moved(from, from, to)
  <2>1. F!IsPrefix(from, from)
    BY <1>1, PrefixOf
  <2>2. Len(from) \in Nat /\ Len(to) \in Nat
    BY <1>1 DEF PathSet
  <2>3. /\ F!Moved(from, from, to) \in PathSet /\ Len(F!Moved(from, from, to)) = Len(to)
        /\ \A i \in 1..Len(to) : F!Moved(from, from, to)[i] = to[i]
    <3> DEFINE m == F!Moved(from, from, to)
    <3>1. /\ m \in PathSet /\ Len(m) = Len(to) + Len(from) - Len(from)
          /\ \A i \in 1..Len(m) : m[i] = IF i <= Len(to) THEN to[i] ELSE from[i - Len(to) + Len(from)]
      BY <1>1, <2>1, MovedTo
    <3> HIDE DEF m
    <3>2. Len(m) = Len(to)
      BY <2>2, <3>1
    <3>3. \A i \in 1..Len(to) : m[i] = to[i]
      BY <2>2, <3>1, <3>2
    <3> QED BY <3>1, <3>2, <3>3 DEF m
  <2> QED BY <1>1, <2>1, <2>3, SamePath
<1>5. Entering(tree, tree, from, to, <<>>, from, to)
  <2>1. FramesMirror(tree, from, to, <<>>)
    BY <1>3 DEF FramesMirror
  <2>2. DOMAIN tree \subseteq PathSet /\ SameUnder(tree, tree, from)
    BY <1>1 DEF IsTree, SameUnder
  <2> QED BY <1>4, <2>1, <2>2 DEF Entering
<1> QED BY <1>1, <1>2, <1>3, <1>5, EnterWhole DEF from, to

\* copy_recursive goes on.
LEMMA CopyEntryWhole ==
  ASSUME CopiesKept, calm, NEW c \in Call, F!CopyEntry(c)
  PROVE  /\ call'[c].at \in {"copying", "error"} /\ IsWhole(tree', call'[c])
         /\ \A d \in Call \ {c} : call'[d] = call[d]
<1> DEFINE from == call[c].ask.from
           to == call[c].dst
           w == call[c].was
           stk == call[c].stack
           n == Len(stk)
           top == stk[n]
<1>1. /\ from \in PathSet /\ to \in PathSet /\ IsTree(tree) /\ FilesKept
      /\ call[c].at = "copying" /\ stk \in Seq(CopyFrame) /\ stk # <<>> /\ F!Last(stk) = top
      /\ \A k \in 1..n : \A p \in stk[k].left : p # <<>> /\ F!Parent(p) = stk[k].src
  BY CallFacts DEF F!CopyEntry, CopiesKept, FilesKept, IsCall, F!Last
<1>2. n \in Nat \ {0} /\ top \in CopyFrame
  BY <1>1, EmptySeq
<1>3. PICK q \in top.left :
        F!Enter(c, q, Append(top.dst, F!Last(q)), Append(F!Front(stk), [top EXCEPT !.left = @ \ {q}]))
  BY <1>1 DEF F!CopyEntry
<1> DEFINE f == [top EXCEPT !.left = @ \ {q}]
           rest == Append(F!Front(stk), f)
<1>4. f \in CopyFrame /\ f.src = top.src /\ f.dst = top.dst /\ f.left = top.left \ {q}
  <2> HIDE DEF top
  <2>1. top.src \in PathSet /\ top.dst \in PathSet /\ top.left \in SUBSET PathSet
        /\ top = [src |-> top.src, dst |-> top.dst, left |-> top.left]
    BY <1>2 DEF CopyFrame
  <2> QED BY <2>1 DEF CopyFrame
<1> HIDE DEF f
<1>5. /\ rest \in Seq(CopyFrame) /\ Len(rest) = n /\ rest[n] = f
      /\ \A k \in 1..(n - 1) : rest[k] = stk[k]
  <2> DEFINE g == F!Front(stk)
  <2>1. g \in Seq(CopyFrame) /\ Len(g) = n - 1 /\ \A k \in 1..(n - 1) : g[k] = stk[k]
    BY <1>1, FrontOf
  <2> HIDE DEF g
  <2>2. /\ Append(g, f) \in Seq(CopyFrame) /\ Len(Append(g, f)) = n /\ Append(g, f)[n] = f
        /\ \A k \in 1..(n - 1) : Append(g, f)[k] = g[k]
    BY <1>2, <1>4, <2>1, AppendProperties
  <2> QED BY <2>1, <2>2 DEF g
<1>6. q \in PathSet /\ Append(top.dst, F!Last(q)) \in PathSet
  <2>1. top.dst \in PathSet /\ q \in PathSet /\ q # <<>>
    BY <1>1, <1>2 DEF CopyFrame
  <2>2. F!Last(q) \in Name
    BY <2>1, ParentOf
  <2> QED BY <2>1, <2>2, ChildOf
<1>7. F!Enter(c, q, Append(top.dst, F!Last(q)), rest)
  BY <1>3 DEF f
<1> HIDE DEF rest
<1>8. ASSUME ~F!IsPrefix(to, from)
      PROVE  Entering(tree, w, from, to, rest, q, Append(top.dst, F!Last(q)))
  <2>1. WholeSoFar(tree, w, from, to, stk)
    BY <1>1, <1>8 DEF CopiesKept, IsWhole
  <2>2. /\ \A k \in 1..n : rest[k].src = stk[k].src /\ rest[k].dst = stk[k].dst
        /\ \A k \in 1..(n - 1) : rest[k].left = stk[k].left
        /\ rest[n].left = stk[n].left \ {q}
    <3>1. \A k \in 1..n : k = n \/ k \in 1..(n - 1)
      BY <1>2
    <3> QED BY <1>4, <1>5, <3>1
  <2> HIDE DEF from, to, w, stk
  <2>3. PICK l \in Nat \ {0} : l = n
    BY <1>2
  <2> QED BY <1>1, <1>5, <1>8, <2>1, <2>2, <2>3, EntryEntered
<1> QED BY <1>1, <1>5, <1>6, <1>7, <1>8, EnterWhole

\* A frame with nothing left is returned from.
LEMMA FrontWhole ==
  ASSUME NEW t, NEW w, NEW from, NEW to, NEW s \in Seq(CopyFrame), s # <<>>,
         F!Last(s).left = {}, WholeSoFar(t, w, from, to, s)
  PROVE  WholeSoFar(t, w, from, to, F!Front(s))
<1> DEFINE n == Len(s)
           r == F!Front(s)
<1>1. n \in Nat \ {0} /\ Len(r) = n - 1 /\ \A k \in 1..(n - 1) : r[k] = s[k]
  BY FrontOf
<1>2. s[n].left = {}
  BY DEF F!Last
<1> HIDE DEF r
<1>3. \A k \in 1..n : k = n \/ k \in 1..Len(r)
  BY <1>1
<1>4. \A k \in 1..Len(r) : k \in 1..n /\ r[k] = s[k]
  BY <1>1
<1>5. FramesMirror(t, from, to, r)
  BY <1>4 DEF WholeSoFar, FramesMirror
<1>6. Endless(s) => Endless(r)
  BY <1>2, <1>3, <1>4 DEF Endless
<1>7. \A q : ToCopy(s, q) => ToCopy(r, q)
  BY <1>2, <1>3, <1>4 DEF ToCopy
<1> QED BY <1>5, <1>6, <1>7 DEF WholeSoFar, CopiedSoFar, r

\* copy_recursive returns.
LEMMA CopyReturnsWhole ==
  ASSUME CopiesKept, calm, NEW c \in Call, F!CopyReturns(c)
  PROVE  /\ call'[c].at \in {"copying", "ok"} /\ IsWhole(tree', call'[c])
         /\ call'[c].at = "ok" => call[c].stack = <<>>
         /\ \A d \in Call \ {c} : call'[d] = call[d]
<1>1. /\ CallsAre /\ call[c].stack \in Seq(CopyFrame) /\ call[c].at = "copying" /\ tree' = tree
      /\ IsWhole(tree, call[c])
  BY CallFacts DEF F!CopyReturns, CopiesKept, FilesKept
<1>2. CASE call[c].stack = <<>> /\ F!Ends(c, "ok")
  <2>1. call'[c].at = "ok" /\ \A d \in Call \ {c} : call'[d] = call[d]
    BY <1>1, <1>2, EndedCall
  <2> QED BY <1>2, <2>1 DEF IsWhole
<1>3. CASE /\ call[c].stack # <<>> /\ F!Last(call[c].stack).left = {}
           /\ call' = [call EXCEPT ![c].stack = F!Front(@)]
  <2> DEFINE s == F!Front(call[c].stack)
  <2>1. call' = [call EXCEPT ![c].stack = s]
    BY <1>1, <1>3 DEF CallsAre
  <2> HIDE DEF s
  <2>2. /\ call'[c].at = "copying" /\ call'[c].stack = s /\ call'[c].ask = call[c].ask
        /\ call'[c].dst = call[c].dst /\ call'[c].was = call[c].was
        /\ \A d \in Call \ {c} : call'[d] = call[d]
    BY <1>1, <2>1, CopyingCall
  <2>3. ~F!IsPrefix(call[c].dst, call[c].ask.from) =>
          WholeSoFar(tree, call[c].was, call[c].ask.from, call[c].dst, s)
    BY <1>1, <1>3, FrontWhole DEF IsWhole, s
  <2> QED BY <1>1, <2>2, <2>3 DEF IsWhole
<1> QED BY <1>2, <1>3 DEF F!CopyReturns

\* The others end, or have just looked.
LEMMA OthersWhole ==
  ASSUME CallsAre, NEW c \in Call,
         \/ F!CreateFile(c) \/ F!WriteFile(c) \/ F!MakeDirectory(c)
         \/ F!MoveEntry(c) \/ F!RemoveEntry(c) \/ \E ask \in F!Ask : F!Look(c, ask)
  PROVE  /\ call[c].at \in {"new", "looked"} /\ IsWhole(tree', call'[c])
         /\ \A d \in Call \ {c} : call'[d] = call[d]
<1>1. CASE F!Ends(c, "ok") \/ F!Ends(c, "error")
  <2>1. PICK status \in {"ok", "error"} : F!Ends(c, status)
    BY <1>1
  <2>2. call'[c].at = status /\ \A d \in Call \ {c} : call'[d] = call[d]
    BY <2>1, EndedCall
  <2> QED BY <2>2 DEF IsWhole, F!CreateFile, F!WriteFile, F!MakeDirectory,
          F!MoveEntry, F!RemoveEntry, F!Look, F!Acts
<1>2. ASSUME NEW ask \in F!Ask, F!Look(c, ask)
      PROVE  /\ call[c].at = "new" /\ IsWhole(tree', call'[c])
             /\ \A d \in Call \ {c} : call'[d] = call[d]
  <2> DEFINE r == IF F!Refused(ask) THEN F!Ended(ask.kind, "error")
                  ELSE LookedCall(ask, F!Target(ask), tree)
  <2>1. call[c].at = "new" /\ tree' = tree /\ call' = [call EXCEPT ![c] = r]
    BY <1>2 DEF F!Look, LookedCall
  <2>2. r.at \in {"looked", "error"} /\ (r.at = "looked" => r.was = tree)
    <3>1. LookedCall(ask, F!Target(ask), tree) =
            [ask |-> ask, at |-> "looked", dst |-> F!Target(ask), stack |-> <<>>, was |-> tree]
      BY LookedIs
    <3>2. F!Ended(ask.kind, "error") =
            [ask |-> [kind |-> ask.kind, from |-> <<>>, to |-> <<>>], at |-> "error",
             dst |-> <<>>, stack |-> <<>>, was |-> <<>>]
      BY EndedIs
    <3> QED BY <3>1, <3>2
  <2> HIDE DEF r
  <2>3. call'[c] = r /\ \A d \in Call \ {c} : call'[d] = call[d]
    BY <2>1 DEF CallsAre
  <2> QED BY <2>1, <2>2, <2>3 DEF IsWhole
<1>3. \/ F!Ends(c, "ok") \/ F!Ends(c, "error")
      \/ \E ask \in F!Ask : F!Look(c, ask)
  BY DEF F!CreateFile, F!WriteFile, F!MakeFile, F!MakeDirectory, F!MoveEntry, F!RemoveEntry, F!Fails
<1> QED BY <1>1, <1>2, <1>3

\* A step of the commands or of file-manager.
LEMMA CopiesStep ==
  ASSUME CopiesKept, calm, F!Next
  PROVE  /\ \A c \in Call : IsWhole(tree', call'[c])
         /\ \A c \in Call : call[c].at = "copying" /\ call'[c].at = "ok" =>
              call[c].stack = <<>> /\ tree' = tree
<1>1. PICK c \in Call : F!Step(c) \/ \E ask \in F!Ask : F!Look(c, ask)
  BY DEF F!Next
<1>2. CallsAre /\ FilesKept
  BY DEF CopiesKept, FilesKept
<1>3. /\ IsWhole(tree', call'[c])
      /\ call[c].at = "copying" /\ call'[c].at = "ok" => call[c].stack = <<>> /\ tree' = tree
      /\ \A d \in Call \ {c} : call'[d] = call[d]
  <2>1. CASE F!CopyStarts(c)
    BY <2>1, CopyStartsWhole
  <2>2. CASE F!CopyEntry(c)
    BY <2>2, CopyEntryWhole
  <2>3. CASE F!CopyReturns(c)
    BY <2>3, CopyReturnsWhole DEF F!CopyReturns
  <2>4. CASE ~F!CopyStarts(c) /\ ~F!CopyEntry(c) /\ ~F!CopyReturns(c)
    <3>1. \/ F!CreateFile(c) \/ F!WriteFile(c) \/ F!MakeDirectory(c)
          \/ F!MoveEntry(c) \/ F!RemoveEntry(c) \/ \E ask \in F!Ask : F!Look(c, ask)
      BY <1>1, <2>4 DEF F!Step
    <3>2. /\ call[c].at \in {"new", "looked"} /\ IsWhole(tree', call'[c])
          /\ \A d \in Call \ {c} : call'[d] = call[d]
      BY <1>2, <3>1, OthersWhole
    <3> QED BY <3>2
  <2> QED BY <2>1, <2>2, <2>3, <2>4
<1>4. ASSUME NEW d \in Call \ {c} PROVE IsWhole(tree', call'[d])
  <2>1. CASE tree' = tree
    BY <1>3, <2>1 DEF CopiesKept
  <2>2. CASE tree' # tree
    <3>1. F!UnderWay(c)
      <4>1. ~\E ask \in F!Ask : F!Look(c, ask)
        BY <2>2 DEF F!Look
      <4>2. F!Step(c)
        BY <1>1, <4>1
      <4> QED BY <4>2 DEF F!Step, F!UnderWay, F!CreateFile, F!WriteFile, F!MakeDirectory, F!MoveEntry,
                     F!RemoveEntry, F!CopyStarts, F!CopyEntry, F!CopyReturns, F!Acts
    <3>2. ~F!UnderWay(d)
      BY <1>2, <1>3, <3>1, OthersAreIdle
    <3> QED BY <1>3, <3>2 DEF F!UnderWay, IsWhole
  <2> QED BY <2>1, <2>2
<1>5. ASSUME NEW d \in Call \ {c} PROVE ~(call[d].at = "copying" /\ call'[d].at = "ok")
  BY <1>3
<1> QED BY <1>3, <1>4, <1>5

\* A copy that returns has copied all.
LEMMA CopiedWhole ==
  ASSUME CopiesKept, calm, F!Next
  PROVE  F!CopiesWhole
<1> SUFFICES ASSUME NEW c \in Call, call[c].at = "copying", call'[c].at = "ok",
                    ~F!IsPrefix(F!To(c), F!From(c)),
                    NEW q \in F!Under(call[c].was, F!From(c))
             PROVE  LET there == F!Moved(q, F!From(c), F!To(c)) IN
                    there \in DOMAIN tree' /\ tree'[there] = call[c].was[q]
  BY DEF F!CopiesWhole
<1>1. call[c].stack = <<>> /\ tree' = tree
  BY CopiesStep
<1>2. WholeSoFar(tree, call[c].was, F!From(c), F!To(c), <<>>)
  BY <1>1 DEF CopiesKept, IsWhole, F!From, F!To
<1>3. Len(<<>>) = 0
  BY EmptySeq
<1>4. ~Endless(<<>>) /\ ~ToCopy(<<>>, q)
  BY <1>3 DEF Endless, ToCopy
<1>5. q \in DOMAIN call[c].was /\ F!IsPrefix(F!From(c), q)
  BY DEF F!Under
<1>6. Copied(tree, call[c].was, F!From(c), F!To(c), q)
  BY <1>2, <1>4, <1>5 DEF WholeSoFar, CopiedSoFar
<1> QED BY <1>1, <1>6 DEF Copied

\* For every tree of every size, any names, paths and calls: as long as calls
\* come one after the other, and cp does not copy a file onto itself, a copy
\* that is answered as done has at its target everything the source had when it
\* was asked for, unless the target is the source or a directory above it
\* (copy_recursive).
THEOREM CopiesAreWhole == SpecMC => CopyIsWhole
<1>1. InitMC => CopiesKept
  <2> SUFFICES ASSUME InitMC PROVE CopiesKept
    OBVIOUS
  <2>1. ASSUME NEW c \in Call PROVE call[c].at = "new"
    BY DEF InitMC, F!Init, F!NewCall
  <2> QED BY <2>1, FilesInit DEF CopiesKept, IsWhole
<1>2. CopiesKept /\ [NextMC]_all => CopiesKept' /\ (calm' => F!CopiesWhole \/ call' = call)
  <2> SUFFICES ASSUME CopiesKept, [NextMC]_all
               PROVE  CopiesKept' /\ (calm' => F!CopiesWhole \/ call' = call)
    OBVIOUS
  <2>1. CASE NextFiles
    <3>1. F!Next /\ (calm' => calm /\ OneCall')
      BY <2>1 DEF NextFiles, OneCall
    <3>2. FilesKept'
      BY <3>1, FilesStep DEF CopiesKept
    <3>3. calm' => (\A c \in Call : IsWhole(tree, call[c]))'
      BY <3>1, CopiesStep
    <3> QED BY <3>1, <3>2, <3>3, CopiedWhole DEF CopiesKept
  <2>2. CASE UNCHANGED fileVars /\ (calm' => calm)
    <3>1. FilesKept'
      BY <2>2, FilesStay DEF CopiesKept
    <3>2. tree' = tree /\ call' = call
      BY <2>2 DEF fileVars
    <3>3. (\A c \in Call : IsWhole(tree, call[c]))' = (\A c \in Call : IsWhole(tree, call[c]))
      BY <3>2
    <3> QED BY <2>2, <3>1, <3>2, <3>3 DEF CopiesKept
  <2>3. NextFiles \/ (UNCHANGED fileVars /\ (calm' => calm))
    BY DEF NextMC, NextRequests, NextSample, NextCanvas, NextVault, NextTunnel, all, fileVars
  <2> QED BY <2>1, <2>2, <2>3
<1>3. call' = call => F!CopiesWhole
  BY DEF F!CopiesWhole
<1>4. CopiesKept /\ [NextMC]_all => [calm' => F!CopiesWhole]_all
  BY <1>2, <1>3
<1> QED BY <1>1, <1>2, <1>4, PTL DEF SpecMC, CopyIsWhole
=============================================================================
