--------------------------- MODULE CanvasDocument ---------------------------
(***************************************************************************)
(* The document of canvas-lab (canvas-lab/src/main.rs): a copy in memory,  *)
(* which readers get, and a file, which a restart reads.  A PUT truncates  *)
(* the file, writes it, and takes the lock only to replace the copy.       *)
(***************************************************************************)
EXTENDS Naturals

CONSTANTS
  Doc,   \* valid documents (with a nodes and a snapshots array)
  Size,  \* their lengths
  Put,   \* PUT requests
  None,  \* no PUT
  Blank  \* the document without nodes

CanvasAssumption ==
  /\ Blank \notin Doc /\ None \notin Put
  /\ Size \in [Doc -> Nat \ {0}]

VARIABLES
  file,   \* [holds, size]: a document whole, or nothing that parses (Blank)
  memory, \* AppState.document
  put,    \* "new", "checked", "opened", "written", "saved", "failed"; "unwritten"
          \* when its write failed, "torn" and "cut" when canvas-lab was killed
          \* before its write and after it
  doc,    \* what each PUT sends
  client, \* the PUTs whose connection is there to answer on
  last    \* history: the last PUT that opened the file

vars == <<file, memory, put, doc, client, last>>

Empty == [holds |-> Blank, size |-> 0]

Init ==
  /\ file = Empty /\ memory = Blank
  /\ put = [p \in Put |-> "new"] /\ doc \in [Put -> Doc] /\ client = Put
  /\ last = None

Advance(p, from, to) == put[p] = from /\ put' = [put EXCEPT ![p] = to]

\* The arrays are there, and the directory.
Check(p) ==
  /\ Advance(p, "new", "checked")
  /\ UNCHANGED <<file, memory, doc, client, last>>

\* std::fs::write on a blocking thread, which goes on when the handler is
\* dropped: create and truncate ...
Open(p) ==
  /\ Advance(p, "checked", "opened")
  /\ file' = Empty
  /\ last' = p
  /\ UNCHANGED <<memory, doc, client>>
\* ... then write from the start, over whatever another PUT wrote meanwhile.
Write(p) ==
  /\ Advance(p, "opened", "written")
  /\ file' = IF Size[doc[p]] >= file.size
             THEN [holds |-> doc[p], size |-> Size[doc[p]]]
             ELSE [file EXCEPT !.holds = Blank]
  /\ UNCHANGED <<memory, doc, client, last>>
WriteFails(p) ==
  /\ Advance(p, "opened", "unwritten")
  /\ UNCHANGED <<file, memory, doc, client, last>>

RememberNothing(p) ==
  /\ p \in client /\ Advance(p, "written", "saved")
  /\ UNCHANGED <<file, memory, doc, client, last>>
Remember(p) ==
  /\ p \in client /\ Advance(p, "written", "saved")
  /\ memory' = doc[p]
  /\ UNCHANGED <<file, doc, client, last>>

\* The connection goes and the handler with it, at an await.
Dropped(p) ==
  /\ p \in client /\ put[p] \in {"checked", "opened", "written"}
  /\ client' = client \ {p}
  /\ put' = [put EXCEPT ![p] = IF @ = "checked" THEN "failed" ELSE @]
  /\ UNCHANGED <<file, memory, doc, last>>

\* canvas-lab is killed and started again.
Restart ==
  /\ memory' = file.holds
  /\ put' = [p \in Put |-> CASE put[p] = "checked" -> "failed"
                             [] put[p] = "opened"  -> "torn"
                             [] put[p] = "written" -> "cut"
                             [] OTHER              -> put[p]]
  /\ UNCHANGED <<file, doc, client, last>>

Handler(p) ==
  Check(p) \/ Open(p) \/ Write(p) \/ WriteFails(p) \/ Remember(p) \/ Dropped(p)

Next == Restart \/ \E p \in Put : Handler(p)

Spec == Init /\ [][Next]_vars

UnderWay(p) ==
  put[p] \in {"checked", "opened"} \/ (put[p] = "written" /\ p \in client)

-----------------------------------------------------------------------------
TypeOK ==
  /\ file \in [holds : Doc \cup {Blank}, size : Nat]
  /\ memory \in Doc \cup {Blank}
  /\ put \in [Put -> {"new", "checked", "opened", "written", "saved", "failed",
                      "unwritten", "torn", "cut"}]
  /\ doc \in [Put -> Doc] /\ client \subseteq Put /\ last \in Put \cup {None}

\* The file a restart will read has the document of the last PUT that opened it,
\* so one that was answered as saved until the next PUT opens the file; and it has
\* no document from there until that PUT has written, nor when its write failed or
\* the process was killed before: then what readers had is lost (main.rs 58).
FileIsTheLast ==
  file.holds = IF last = None \/ put[last] \in {"opened", "unwritten", "torn"}
               THEN Blank ELSE doc[last]

\* Whenever no PUT is under way, readers have what is in the file, unless the last
\* one that opened it failed to write it, or lost its connection.
Agree == \/ file.holds = memory
         \/ last # None /\ (put[last] = "unwritten" \/ last \notin client)
FileIsTheDocument == (\A p \in Put : ~UnderWay(p)) => Agree
=============================================================================
