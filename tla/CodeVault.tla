------------------------------ MODULE CodeVault ------------------------------
(***************************************************************************)
(* The snippets of code-vault (code-vault/src/main.rs): one SQLite file,   *)
(* and in each process on it one connection behind a lock that a handler   *)
(* holds from its first statement to its last.  Every statement commits by *)
(* itself: what other processes, the export of the file and a restart see  *)
(* is the state between two statements.                                    *)
(***************************************************************************)
EXTENDS Naturals

CONSTANTS
  Proc,   \* processes on the file: a start may find one that is still there
  Call,   \* requests
  FIELDS, \* the columns an update may set, in the order of its statements
  IMPORT, \* bound: snippets in an import
  IDS,    \* bound: ids given out
  Given   \* stands for whoever wrote what is in the file at the start

VaultAssumption ==
  Proc # {} /\ Given \notin Call /\ {FIELDS, IMPORT, IDS} \subseteq Nat \ {0}

Field == 1..FIELDS

VARIABLES
  rows,    \* the table: ids to rows
  seq,     \* sqlite_sequence: the highest id there ever was
  request, \* each request
  alone    \* history: requests to one process, no failed statement, no kill

vars == <<rows, seq, request, alone>>

\* A row says which call inserted it and which last wrote each column.
Text(who) == [f \in Field |-> who]
Row(who) == [born |-> who, text |-> Text(who)]

Kinds == {"create", "import", "update", "delete", "get", "list", "export"}

\* id, aim: the snippet it names, and who had inserted the one its client saw.
\* left: statements still to run.  was: the text under id when it got the lock.
New == [at |-> "new", kind |-> "get", on |-> CHOOSE p \in Proc : TRUE,
        id |-> 1, aim |-> Given, sets |-> {}, left |-> {}, was |-> Text(Given), got |-> <<>>]

Init ==
  /\ rows = [i \in {1} |-> Row(Given)] /\ seq = 1
  /\ request = [c \in Call |-> New]
  /\ alone = TRUE

Kinded(c, kinds) == request[c].kind \in kinds
Waits(c) == request[c].at = "waits"
Runs(c, kinds) == request[c].at = "runs" /\ Kinded(c, kinds)
Exists(c) == request[c].id \in DOMAIN rows
Next1(S) == CHOOSE n \in S : \A m \in S : n <= m

Statements(k) == CASE k = "update" -> SUBSET Field
                   [] k = "create" -> {{1}}
                   [] k = "import" -> {1..n : n \in 0..IMPORT}
                   [] OTHER        -> {{}}

-----------------------------------------------------------------------------
\* A request comes in; its client has seen the snippet it names.
Ask(c, p, k, i, n) ==
  /\ request[c].at = "new"
  /\ i \in DOMAIN rows /\ n \in Statements(k)
  /\ request' = [request EXCEPT ![c] =
       [at |-> "waits", kind |-> k, on |-> p, id |-> i, aim |-> rows[i].born,
        sets |-> n, left |-> n, was |-> Text(Given), got |-> <<>>]]
  /\ alone' = (alone /\ \A d \in Call : request[d].at # "new" => request[d].on = p)
  /\ UNCHANGED <<rows, seq>>

Gets(c) == request' = [request EXCEPT ![c].at = "runs",
                         ![c].was = IF Exists(c) THEN rows[request[c].id].text ELSE @]
LockAnyway(c) ==
  /\ Waits(c) /\ ~Kinded(c, {"export"})
  /\ Gets(c)
  /\ UNCHANGED <<rows, seq, alone>>
Lock(c) ==
  /\ Waits(c) /\ ~Kinded(c, {"export"})
  /\ \A d \in Call : request[d].at = "runs" => request[d].on # request[c].on
  /\ Gets(c)
  /\ UNCHANGED <<rows, seq, alone>>

-----------------------------------------------------------------------------
(* The statements of a handler, and its answer, with which it drops the lock. *)

Answers(c, at, got) == request' = [request EXCEPT ![c].at = at, ![c].got = got]

\* create_snippet, and import_json for each snippet: AUTOINCREMENT.
Insert(c) ==
  /\ Runs(c, {"create", "import"}) /\ request[c].left # {}
  /\ seq < IDS
  /\ seq' = seq + 1
  /\ rows' = [i \in DOMAIN rows \cup {seq + 1} |-> IF i = seq + 1 THEN Row(c) ELSE rows[i]]
  /\ request' = [request EXCEPT ![c].id = seq + 1, ![c].aim = c,
                                ![c].left = @ \ {Next1(@)}]
  /\ UNCHANGED alone

\* One of update_snippet's statements; without the row it changes nothing.
SetColumn(c) ==
  /\ Runs(c, {"update"}) /\ request[c].left # {}
  /\ LET f == Next1(request[c].left) IN
       /\ rows' = [i \in DOMAIN rows |->
                     IF i = request[c].id THEN [rows[i] EXCEPT !.text[f] = c] ELSE rows[i]]
       /\ request' = [request EXCEPT ![c].left = @ \ {f}]
  /\ UNCHANGED <<seq, alone>>

\* get_snippet, and what create_snippet and update_snippet answer.
Select(c) ==
  /\ Runs(c, {"get", "create", "update"}) /\ request[c].left = {}
  /\ IF Exists(c)
     THEN Answers(c, "done", [i \in {request[c].id} |-> rows[i]])
     ELSE Answers(c, "failed", <<>>)
  /\ UNCHANGED <<rows, seq, alone>>

Imported(c) ==
  /\ Runs(c, {"import"}) /\ request[c].left = {}
  /\ Answers(c, "done", <<>>)
  /\ UNCHANGED <<rows, seq, alone>>

Delete(c) ==
  /\ Runs(c, {"delete"})
  /\ rows' = [i \in DOMAIN rows \ {request[c].id} |-> rows[i]]
  /\ Answers(c, "done", <<>>)
  /\ UNCHANGED <<seq, alone>>

\* list_snippets and export_json.
List(c) ==
  /\ Runs(c, {"list"})
  /\ Answers(c, "done", rows)
  /\ UNCHANGED <<rows, seq, alone>>

\* export_db reads the file, and asks nobody.
Export(c) ==
  /\ Waits(c) /\ Kinded(c, {"export"})
  /\ Answers(c, "done", rows)
  /\ UNCHANGED <<rows, seq, alone>>

\* The file is locked by another process, or the disk is full.
Fails(c) ==
  /\ request[c].at = "runs"
  /\ Answers(c, "failed", <<>>)
  /\ alone' = FALSE
  /\ UNCHANGED <<rows, seq>>

\* The server stops the process and starts another.
Kill(p) ==
  /\ request' = [c \in Call |-> IF request[c].on = p /\ request[c].at \in {"waits", "runs"}
                                THEN [request[c] EXCEPT !.at = "failed"] ELSE request[c]]
  /\ alone' = FALSE
  /\ UNCHANGED <<rows, seq>>

Handler(c) == \/ Lock(c) \/ Insert(c) \/ SetColumn(c) \/ Select(c) \/ Imported(c)
              \/ Delete(c) \/ List(c) \/ Export(c) \/ Fails(c)

Next ==
  \/ \E c \in Call : Handler(c) \/ \E p \in Proc, k \in Kinds, i \in DOMAIN rows :
                                     \E n \in Statements(k) : Ask(c, p, k, i, n)
  \/ \E p \in Proc : Kill(p)

Spec == Init /\ [][Next]_vars

-----------------------------------------------------------------------------
Writers == Call \cup {Given}

TypeOK ==
  /\ seq \in Nat /\ DOMAIN rows \subseteq 1..seq
  /\ \A i \in DOMAIN rows : rows[i] \in [born : Writers, text : [Field -> Writers]]
  /\ \A c \in Call :
       /\ request[c].at \in {"new", "waits", "runs", "done", "failed"}
       /\ Kinded(c, Kinds) /\ request[c].on \in Proc /\ request[c].id \in 1..seq
       /\ request[c].aim \in Writers /\ request[c].was \in [Field -> Writers]
       /\ request[c].left \subseteq request[c].sets
  /\ alone \in BOOLEAN

\* An id is never given out again, so a request that comes late finds the
\* snippet its client meant or none, whatever was deleted and inserted since,
\* and by whichever process ("AUTOINCREMENT").
IdsAreNotReused ==
  \A c \in Call : request[c].at # "new" /\ Exists(c) =>
    rows[request[c].id].born = request[c].aim

Answered(c, kinds) == request[c].at = "done" /\ Kinded(c, kinds)

\* An update's answer has every column as the update set it, and a create's is
\* what was created.
AnswersAreOwn ==
  \A c \in Call : LET got == request[c].got IN
    /\ Answered(c, {"update"}) => \A f \in request[c].sets : got[request[c].id].text[f] = c
    /\ Answered(c, {"create"}) => got[request[c].id] = Row(c)

\* Some of what an update set is there, and some of what it was to replace.
Half(c, text) ==
  \E f, g \in request[c].sets :
    text[f] = c /\ text[g] = request[c].was[g] /\ text[g] # c

\* A list, a get and the JSON export never show half an update.
ReadersSeeWhole ==
  \A r, c \in Call :
    Answered(r, {"get", "list"}) /\ Kinded(c, {"update"}) /\ request[c].id \in DOMAIN request[r].got =>
      ~Half(c, request[r].got[request[c].id].text)

\* The types and ids; and, with one process in which nothing fails, that what a
\* handler does is one step for the others.
VaultInv == TypeOK /\ IdsAreNotReused /\ (alone => AnswersAreOwn /\ ReadersSeeWhole)
=============================================================================
