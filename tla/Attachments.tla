----------------------------- MODULE Attachments -----------------------------
(***************************************************************************)
(* The files that carry a chat request's attachments to its agent          *)
(* (server/src/commands.rs, write_attachment_files for kilo and opencode,  *)
(* write_nio_attachment_files for nio; chat_stream in ws_server.rs).       *)
(*                                                                         *)
(* Every request runs in a task of its own and writes to the one temporary *)
(* directory, a file at a time, before its agent is started; when the      *)
(* agent has ended the names it wrote are removed.                         *)
(***************************************************************************)
EXTENDS Naturals, Sequences

CONSTANTS
  Run,   \* chat requests
  Name,  \* what attachments are called
  Lists, \* the attachments of a request: sequences of [name, kind]
  Nonce, \* readings of the clock; two requests may get the same
  NIO_FILES \* how many nio takes (16)

\* blob: base64; bad: base64 that cannot be decoded.
Kind == {"text", "blob", "bad", "reference"}

AttachmentsAssumption ==
  /\ Lists \subseteq Seq([name : Name, kind : Kind])
  /\ Nonce # {} /\ NIO_FILES \in Nat

VARIABLES
  files,  \* the temporary files: path -> the run whose text it is
  run,    \* each run: where it is, its agent and list, the next to be written
  clash,  \* history: runs that had a path in common with another one's
  leaked  \* history: what runs that could not write all of it left

vars == <<files, run, clash, leaked>>

AnyNonce == CHOOSE n \in Nonce : TRUE

Init ==
  /\ files = <<>>
  /\ run = [r \in Run |-> [at |-> "new", nio |-> FALSE, nonce |-> AnyNonce,
                           list |-> <<>>, next |-> 1]]
  /\ clash = {} /\ leaked = {}

\* The index and the name, or the clock and the index; the pid is the server's.
Path(q, i) == IF q.nio THEN [agent |-> "nio", a |-> q.nonce, b |-> i]
                       ELSE [agent |-> "cli", a |-> i, b |-> q.list[i].name]
Indices(q) == {i \in 1..Len(q.list) : q.list[i].kind # "reference"}
Plan(q) == {Path(q, i) : i \in Indices(q)}
Written(q) == {Path(q, i) : i \in {j \in Indices(q) : j < q.next}}

Goes(r, at) == run' = [run EXCEPT ![r].at = at]
Underway(q) == q.at \in {"writes", "written", "runs"}
Removes(paths) == files' = [p \in DOMAIN files \ paths |-> files[p]]

-----------------------------------------------------------------------------
\* A request comes in.  nio takes text only, and not too much.
TooMuch(q) == Len(q.list) > NIO_FILES \/ \E i \in 1..Len(q.list) : q.list[i].kind # "text"
Start(r) ==
  /\ run[r].at = "new"
  /\ \E nio \in BOOLEAN, n \in Nonce, l \in Lists :
       /\ nio \/ n = AnyNonce
       /\ LET q == [at |-> "writes", nio |-> nio, nonce |-> n, list |-> l, next |-> 1] IN
          IF nio /\ TooMuch(q)
          THEN Goes(r, "failed") /\ UNCHANGED clash
          ELSE /\ run' = [run EXCEPT ![r] = q]
               /\ LET met == {s \in Run : Underway(run[s]) /\ Plan(run[s]) \cap Plan(q) # {}} IN
                    clash' = clash \cup met \cup (IF met = {} THEN {} ELSE {r})
  /\ UNCHANGED <<files, leaked>>

Writes(r, nio) == run[r].at = "writes" /\ run[r].nio = nio /\ run[r].next <= Len(run[r].list)
Put(p, r) == files' = [f \in DOMAIN files \cup {p} |-> IF f = p THEN r ELSE files[f]]

\* fs::write takes the place of what is there.
WriteFile(r) ==
  /\ Writes(r, FALSE)
  /\ run[r].list[run[r].next].kind \in {"text", "blob"}
  /\ Put(Path(run[r], run[r].next), r)
  /\ run' = [run EXCEPT ![r].next = @ + 1]
  /\ UNCHANGED <<clash, leaked>>

SkipReference(r) ==
  /\ Writes(r, FALSE)
  /\ run[r].list[run[r].next].kind = "reference"
  /\ run' = [run EXCEPT ![r].next = @ + 1]
  /\ UNCHANGED <<files, clash, leaked>>

\* It cannot be decoded, or not be written as a whole: what has been written stays.
WriteFails(r) ==
  /\ Writes(r, FALSE)
  /\ LET kind == run[r].list[run[r].next].kind
         p == Path(run[r], run[r].next)
     IN
     \/ kind = "bad" /\ leaked' = leaked \cup Written(run[r]) /\ UNCHANGED files
     \/ /\ kind \in {"text", "blob"}
        /\ leaked' = leaked \cup Written(run[r]) \cup {p} /\ Put(p, r)
  /\ Goes(r, "failed")
  /\ UNCHANGED clash

\* create_new.
CreateFile(r) ==
  /\ Writes(r, TRUE)
  /\ LET p == Path(run[r], run[r].next) IN p \notin DOMAIN files /\ Put(p, r)
  /\ run' = [run EXCEPT ![r].next = @ + 1]
  /\ UNCHANGED <<clash, leaked>>

\* It is there already, or cannot be written: whosever it is, it is removed.
CreateFails(r) ==
  /\ Writes(r, TRUE)
  /\ Removes(Written(run[r]) \cup {Path(run[r], run[r].next)})
  /\ Goes(r, "failed")
  /\ UNCHANGED <<clash, leaked>>

AllWritten(r) ==
  /\ run[r].at = "writes" /\ run[r].next > Len(run[r].list)
  /\ Goes(r, "written")
  /\ UNCHANGED <<files, clash, leaked>>

-----------------------------------------------------------------------------
\* No agent server, no process, or not nio's run command: what was written goes.
SetupReturns(r) ==
  /\ run[r].at = "written"
  /\ Goes(r, "failed")
  /\ UNCHANGED <<files, clash, leaked>>
SetupFails(r) ==
  /\ run[r].at = "written"
  /\ Removes(Written(run[r]))
  /\ Goes(r, "failed")
  /\ UNCHANGED <<clash, leaked>>

Spawn(r) ==
  /\ run[r].at = "written"
  /\ Goes(r, "runs")
  /\ UNCHANGED <<files, clash, leaked>>

\* The agent has ended, by itself or stopped.
Finish(r) ==
  /\ run[r].at = "runs"
  /\ Removes(Written(run[r]))
  /\ Goes(r, "done")
  /\ UNCHANGED <<clash, leaked>>

Next == \E r \in Run :
  \/ Start(r) \/ WriteFile(r) \/ SkipReference(r) \/ WriteFails(r) \/ CreateFile(r)
  \/ CreateFails(r) \/ AllWritten(r) \/ SetupFails(r) \/ Spawn(r) \/ Finish(r)

Spec == Init /\ [][Next]_vars

-----------------------------------------------------------------------------
TypeOK ==
  /\ run \in [Run -> [at : {"new", "writes", "written", "runs", "done", "failed"},
                      nio : BOOLEAN, nonce : Nonce, list : Lists \cup {<<>>}, next : Nat \ {0}]]
  /\ \A p \in DOMAIN files : files[p] \in Run
  /\ clash \subseteq Run

\* Its files are there, and are its own.
Found(r) == \A p \in Written(run[r]) : p \in DOMAIN files /\ files[p] = r

\* What is there will be removed by a run that is under way, unless one that
\* could not write all its files left it.
NoneIsLeft ==
  \A p \in DOMAIN files : p \in leaked \/ \E r \in Run : Underway(run[r]) /\ p \in Written(run[r])

\* An agent finds its files as they were sent, if no other run had a path in
\* common with it; and the directory is left as it was, but for failed writes.
AttachmentsInv ==
  /\ TypeOK
  /\ \A r \in Run : run[r].at = "runs" /\ r \notin clash => Found(r)
  /\ NoneIsLeft
=============================================================================
