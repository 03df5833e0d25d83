----------------------------- MODULE HttpStore -----------------------------
(***************************************************************************)
(* The saved requests of http-request (http-request/src/main.rs): two      *)
(* SQLite tables, folders and requests, and the handlers that change them. *)
(*                                                                         *)
(* A process keeps its connection locked for a whole handler, but each     *)
(* statement commits by itself: an error, a kill, or a second process on   *)
(* the same file come between two statements of one handler.  A handler of *)
(* one statement is an action; a longer one is a job and an action per     *)
(* statement.                                                              *)
(***************************************************************************)
EXTENDS Naturals, Sequences, FiniteSets, Functions

CONSTANTS
  Proc,    \* http-request processes: those of the servers, and strays
  Name,    \* folder names and OpenAPI tags
  Item,    \* what a saved request asks for: method, URL, headers, body
  Doc,     \* OpenAPI documents: sequences of paths [tag, ops]
  None,    \* no folder (SQL NULL)
  MAX_FOLDERS, MAX_REQUESTS \* bounds: ids given out in each table

HttpStoreAssumption ==
  /\ MAX_FOLDERS \in Nat /\ MAX_REQUESTS \in Nat
  /\ None \notin 1..MAX_FOLDERS
  /\ Doc \subseteq Seq([tag : Name, ops : Seq(Item)])

VARIABLES
  linked,   \* the table was made with its foreign key, not migrated
  folders,  \* id -> name
  requests, \* id -> [of, folder]
  fseq,     \* AUTOINCREMENT: the last id given to a folder
  rseq,     \* and to a request
  file,     \* the export a user holds
  job       \* the handler each process is in

vars == <<linked, folders, requests, fseq, rseq, file, job>>

Idle == [op |-> "idle"]
NoRows == [x \in {} |-> None]
Nothing == [folders |-> NoRows, requests |-> NoRows]

\* ALTER TABLE adds folder_id without REFERENCES.
Init ==
  /\ linked \in BOOLEAN
  /\ folders = NoRows /\ requests = NoRows /\ fseq = 0 /\ rseq = 0
  /\ file = Nothing
  /\ job = [p \in Proc |-> Idle]

-----------------------------------------------------------------------------
(* Statements. *)

Insert(table, id, row) == [x \in DOMAIN table \cup {id} |->
                             IF x = id THEN row ELSE table[x]]
DeleteRows(table, ids) == Restrict(table, DOMAIN table \ ids)

InsertFolder(n) ==
  /\ fseq < MAX_FOLDERS
  /\ fseq' = fseq + 1
  /\ folders' = Insert(folders, fseq + 1, n)

\* rusqlite's SQLite enforces foreign keys.
FolderOk(f) == linked => f = None \/ f \in DOMAIN folders

InsertRequest(i, f) ==
  /\ rseq < MAX_REQUESTS /\ FolderOk(f)
  /\ rseq' = rseq + 1
  /\ requests' = Insert(requests, rseq + 1, [of |-> i, folder |-> f])

InFolder(f) == {r \in DOMAIN requests : requests[r].folder = f}

\* ON DELETE SET NULL.
DropFolder(f) ==
  /\ folders' = DeleteRows(folders, {f})
  /\ requests' = [r \in DOMAIN requests |->
       IF linked /\ r \in InFolder(f) THEN [requests[r] EXCEPT !.folder = None]
                                      ELSE requests[r]]

Does(p, j) == job' = [job EXCEPT ![p] = j]

-----------------------------------------------------------------------------
(* Handlers of one statement. *)

CreateFolder(p, n) ==
  /\ job[p] = Idle /\ InsertFolder(n)
  /\ UNCHANGED <<linked, requests, rseq, file, job>>

UpdateFolder(p, f, n) ==
  /\ job[p] = Idle /\ f \in DOMAIN folders
  /\ folders' = [folders EXCEPT ![f] = n]
  /\ UNCHANGED <<linked, requests, fseq, rseq, file, job>>

\* With whatever folder the client believes to exist.
CreateRequest(p, i, f) ==
  /\ job[p] = Idle /\ InsertRequest(i, f)
  /\ UNCHANGED <<linked, folders, fseq, file, job>>

DeleteRequest(p, r) ==
  /\ job[p] = Idle /\ r \in DOMAIN requests
  /\ requests' = DeleteRows(requests, {r})
  /\ UNCHANGED <<linked, folders, fseq, rseq, file, job>>

ExportCollections(p) ==
  /\ job[p] = Idle
  /\ file' = [folders |-> folders, requests |-> requests]
  /\ UNCHANGED <<linked, folders, requests, fseq, rseq, job>>

-----------------------------------------------------------------------------
(* Updates of a request: a statement per field. *)

BeginUpdate(p, r, i, to) ==
  /\ job[p] = Idle /\ r \in DOMAIN requests
  /\ Does(p, [op |-> "update", r |-> r, i |-> i, to |-> to, at |-> "of"])
  /\ UNCHANGED <<linked, folders, requests, fseq, rseq, file>>

UpdateContents(p) ==
  /\ job[p].op = "update" /\ job[p].at = "of"
  /\ requests' = [r \in DOMAIN requests |->
       IF r = job[p].r THEN [requests[r] EXCEPT !.of = job[p].i] ELSE requests[r]]
  /\ Does(p, [job[p] EXCEPT !.at = "folder"])
  /\ UNCHANGED <<linked, folders, fseq, rseq, file>>

\* serde reads null into Option<Option<i64>> as if the field were absent.
Absent(to) == to = None

UpdateFolderId(p) ==
  /\ job[p].op = "update" /\ job[p].at = "folder"
  /\ \/ Absent(job[p].to) /\ UNCHANGED requests
     \/ /\ ~Absent(job[p].to) /\ FolderOk(job[p].to)
        /\ requests' = [r \in DOMAIN requests |->
             IF r = job[p].r THEN [requests[r] EXCEPT !.folder = job[p].to]
                             ELSE requests[r]]
  /\ Does(p, [job[p] EXCEPT !.at = "done"])
  /\ UNCHANGED <<linked, folders, fseq, rseq, file>>

-----------------------------------------------------------------------------
(* delete_folder: its requests, then the folder. *)

DeleteFolder(p, f) ==
  /\ job[p] = Idle /\ f \in 1..fseq
  /\ requests' = DeleteRows(requests, InFolder(f))
  /\ Does(p, [op |-> "delete", f |-> f])
  /\ UNCHANGED <<linked, folders, fseq, rseq, file>>

DeleteItsRow(p) ==
  /\ job[p].op = "delete"
  /\ DropFolder(job[p].f)
  /\ Does(p, Idle)
  /\ UNCHANGED <<linked, fseq, rseq, file>>

-----------------------------------------------------------------------------
(* import_openapi: for each path its folder, then its operations. *)

ImportOpenApi(p, doc) ==
  /\ job[p] = Idle
  /\ Does(p, [op |-> "openapi", doc |-> doc, paths |-> doc, ops |-> <<>>,
              folder |-> None, missing |-> FALSE, made |-> {}])
  /\ UNCHANGED <<linked, folders, requests, fseq, rseq, file>>

AtPath(p) == /\ job[p].op = "openapi" /\ job[p].ops = <<>> /\ job[p].paths # <<>>
EnterPath(p, f) ==
  [job[p] EXCEPT !.paths = Tail(@), !.ops = job[p].paths[1].ops, !.folder = f,
                 !.missing = FALSE]

\* A query that fails counts as a folder that is not there.
LookUpTag(p) ==
  /\ AtPath(p) /\ ~job[p].missing
  /\ \/ Does(p, [job[p] EXCEPT !.missing = TRUE])
     \/ \E f \in DOMAIN folders :
          folders[f] = job[p].paths[1].tag /\ Does(p, EnterPath(p, f))
  /\ UNCHANGED <<linked, folders, requests, fseq, rseq, file>>

AddTagFolder(p) ==
  /\ AtPath(p) /\ job[p].missing
  /\ InsertFolder(job[p].paths[1].tag)
  /\ Does(p, EnterPath(p, fseq + 1))
  /\ UNCHANGED <<linked, requests, rseq, file>>

AddOperation(p) ==
  /\ job[p].op = "openapi" /\ job[p].ops # <<>>
  /\ InsertRequest(Head(job[p].ops), job[p].folder)
  /\ Does(p, [job[p] EXCEPT !.ops = Tail(@), !.made = @ \cup {rseq + 1}])
  /\ UNCHANGED <<linked, folders, fseq, file>>

-----------------------------------------------------------------------------
(* import_collections: the folders, remembering their new ids, then the    *)
(* requests.  The rows of one second come in any order.                    *)

ImportCollections(p) ==
  /\ job[p] = Idle
  /\ Does(p, [op |-> "import", file |-> file, id_map |-> NoRows, made |-> NoRows])
  /\ UNCHANGED <<linked, folders, requests, fseq, rseq, file>>

AddFolder(p) ==
  /\ job[p].op = "import"
  /\ \E old \in DOMAIN job[p].file.folders \ DOMAIN job[p].id_map :
       /\ InsertFolder(job[p].file.folders[old])
       /\ Does(p, [job[p] EXCEPT !.id_map = Insert(@, old, fseq + 1)])
  /\ UNCHANGED <<linked, requests, rseq, file>>

OldFolder(p, old) == old
NewFolderOf(p, old) ==
  IF old \in DOMAIN job[p].id_map THEN job[p].id_map[old] ELSE None

AddSaved(p) ==
  /\ job[p].op = "import"
  /\ DOMAIN job[p].id_map = DOMAIN job[p].file.folders
  /\ \E old \in DOMAIN job[p].file.requests \ DOMAIN job[p].made :
       LET saved == job[p].file.requests[old] IN
       /\ InsertRequest(saved.of, NewFolderOf(p, saved.folder))
       /\ Does(p, [job[p] EXCEPT !.made = Insert(@, old, rseq + 1)])
  /\ UNCHANGED <<linked, folders, fseq, file>>

-----------------------------------------------------------------------------
\* Nothing is left to do but to answer.
AtEnd(p) ==
  \/ job[p].op = "openapi" /\ job[p].paths = <<>> /\ job[p].ops = <<>>
  \/ /\ job[p].op = "import"
     /\ DOMAIN job[p].id_map = DOMAIN job[p].file.folders
     /\ DOMAIN job[p].made = DOMAIN job[p].file.requests
  \/ job[p].op = "update" /\ job[p].at = "done"

Answer(p) ==
  /\ AtEnd(p)
  /\ Does(p, Idle)
  /\ UNCHANGED <<linked, folders, requests, fseq, rseq, file>>

\* A statement fails and the handler returns its error, or the process is
\* killed: what has been committed stays.
GivesUp(p) ==
  /\ job[p] # Idle /\ ~AtEnd(p)
  /\ Does(p, Idle)
  /\ UNCHANGED <<linked, folders, requests, fseq, rseq, file>>

ClientFolder == 1..fseq \cup {None}

Step(p) ==
  \/ \E n \in Name : \/ CreateFolder(p, n)
                     \/ \E f \in DOMAIN folders : UpdateFolder(p, f, n)
  \/ \E i \in Item, f \in ClientFolder :
       \/ CreateRequest(p, i, f)
       \/ \E r \in DOMAIN requests : BeginUpdate(p, r, i, f)
  \/ \E r \in DOMAIN requests : DeleteRequest(p, r)
  \/ \E f \in 1..fseq : DeleteFolder(p, f)
  \/ UpdateContents(p) \/ UpdateFolderId(p) \/ DeleteItsRow(p)
  \/ \E doc \in Doc : ImportOpenApi(p, doc)
  \/ LookUpTag(p) \/ AddTagFolder(p) \/ AddOperation(p)
  \/ ExportCollections(p) \/ ImportCollections(p) \/ AddFolder(p) \/ AddSaved(p)
  \/ Answer(p) \/ GivesUp(p)

Next == \E p \in Proc : Step(p)

Spec == Init /\ [][Next]_vars

-----------------------------------------------------------------------------
\* list_requests: an entry for each folder, and one for the requests without.
Listing ==
  {[id |-> f, requests |-> InFolder(f)] : f \in DOMAIN folders}
    \cup IF InFolder(None) = {} THEN {}
         ELSE {[id |-> 0, requests |-> InFolder(None)]}

Listed == UNION {item.requests : item \in Listing}

TypeOK ==
  /\ linked \in BOOLEAN
  /\ fseq \in 0..MAX_FOLDERS /\ rseq \in 0..MAX_REQUESTS
  /\ DOMAIN folders \subseteq 1..fseq /\ DOMAIN requests \subseteq 1..rseq
  /\ \A f \in DOMAIN folders : folders[f] \in Name
  /\ \A r \in DOMAIN requests :
       requests[r] \in [of : Item, folder : 1..fseq \cup {None}]
  /\ \A p \in Proc : job[p].op \in {"idle", "update", "delete", "openapi", "import"}

\* In a database with the foreign key every saved request is in the list,
\* whatever the client, another process or a half-done delete does to folders.
NothingHidden == linked => Listed = DOMAIN requests

\* The types, and that no request is hidden.
RequestsInv == TypeOK /\ NothingHidden

NameOf(fs, f) == IF f \in DOMAIN fs THEN fs[f] ELSE None

\* However far an OpenAPI import has come, and so wherever it gives up: each
\* operation that is not to come yet is saved, in a folder named for its path's
\* tag.  When it answers, that is all of the document.
OpenApiIsWhole ==
  \A p \in Proc : job[p].op = "openapi" =>
    \A k \in DOMAIN job[p].doc : \A i \in Range(job[p].doc[k].ops) :
      \/ job[p].doc[k] \in Range(job[p].paths) \/ i \in Range(job[p].ops)
      \/ \E r \in job[p].made \cap DOMAIN requests :
           /\ requests[r].of = i
           /\ NameOf(folders, requests[r].folder) = job[p].doc[k].tag

\* However far an import of collections has come, and so wherever it gives up:
\* each copy is in a folder of the name its original had, wherever ids have gone
\* meanwhile, and never in the folders that have the old ids now.
ImportedAsExported ==
  \A p \in Proc : job[p].op = "import" =>
    \A old \in DOMAIN job[p].made :
      LET saved == job[p].file.requests[old]
          new == job[p].made[old] IN
      /\ new \in DOMAIN requests /\ requests[new].of = saved.of
      /\ NameOf(folders, requests[new].folder)
           = NameOf(job[p].file.folders, saved.folder)
      /\ requests[new].folder \in Range(job[p].id_map) \cup {None}
=============================================================================
