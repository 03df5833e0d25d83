------------------------------ MODULE MC_Stores ------------------------------
(***************************************************************************)
(* What is kept on disk, on small instances: the saved requests of         *)
(* http-request (HttpStore) with one and with two processes on the         *)
(* database, and the samples an import makes up for them (SampleBody); the *)
(* commands on the workspace and those of file-manager (FileOps); the      *)
(* document of canvas-lab (CanvasDocument); the snippets of code-vault     *)
(* (CodeVault), and VaultInv with them; and the cloudflared the servers    *)
(* download (OwnTunnel).  They share nothing, so a behaviour is that of    *)
(* one part, and the others stay as they are.                              *)
(***************************************************************************)
EXTENDS CodeVault, Sequences, FiniteSets

CONSTANTS
  Name, Item, Doc, None, MAX_FOLDERS, MAX_REQUESTS, MAX_SHARED, a, b, x, \* HttpStore
  Schema, Root, DEPTH,                                       \* SampleBody
  Old, Path, Tree0, Dir, Void, PATH_MAX, o1, o2,             \* FileOps
  c1, c2, c3,                                                \* calls
  Canvas, Size, short, long, Put, Blank,                     \* CanvasDocument
  PARTS, STARTS                                              \* OwnTunnel

VARIABLES
  part,
  calm, \* so far one call at a time, and no cp of a file onto itself
  linked, folders, requests, fseq, rseq, file, job,
  spec, stack, seen,
  tree, call, erased,
  canvas, memory, put, doc, client, last,
  starts, at, writer, holds, exec, name, apart, torn

savedVars == <<linked, folders, requests, fseq, rseq, file, job>>
sampleVars == <<spec, stack, seen>>
fileVars == <<tree, call, erased>>
canvasVars == <<canvas, memory, put, doc, client, last>>
tunnelVars == <<starts, at, writer, holds, exec, name, apart, torn>>
all == <<vars, part, calm, savedVars, sampleVars, fileVars, canvasVars, tunnelVars>>

Docs == { <<[tag |-> a, ops |-> <<x>>], [tag |-> b, ops |-> <<x>>]>> }

Paths == {<<>>, <<a>>, <<b>>, <<a, a>>, <<a, b>>}

\* a/a and b are files; or a/a and a/b are, and b is an empty directory.
Trees ==
  { [p \in {<<>>, <<a>>, <<a, a>>, <<b>>} |->
       CASE p = <<a, a>> -> o1 [] p = <<b>> -> o2 [] OTHER -> Dir],
    [p \in {<<>>, <<a>>, <<a, a>>, <<a, b>>, <<b>>} |->
       CASE p = <<a, a>> -> o1 [] p = <<a, b>> -> o2 [] OTHER -> Dir] }

Sizes == [d \in Canvas |-> IF d = short THEN 1 ELSE 2]

Commands == {"create", "createdir", "write", "rename", "copy", "delete"}
Manager == {"write", "mkdir", "rm", "mv", "cp"}

H == INSTANCE HttpStore
Body == INSTANCE SampleBody
F == INSTANCE FileOps WITH Kind <- Commands \cup Manager
C == INSTANCE CanvasDocument WITH file <- canvas, Doc <- Canvas
T == INSTANCE OwnTunnel WITH Server <- Proc

ASSUME StoresAssumption ==
  /\ VaultAssumption /\ H!HttpStoreAssumption /\ Body!SampleBodyAssumption
  /\ F!FileOpsAssumption /\ C!CanvasAssumption /\ T!OwnTunnelAssumption

-----------------------------------------------------------------------------
First == CHOOSE p \in Proc : TRUE

InitMC ==
  /\ Init /\ H!Init /\ F!Init /\ C!Init /\ T!Init /\ calm = TRUE
  /\ \/ part = "sample" /\ Body!Init
     \/ /\ part \in {"one process", "two processes", "commands", "manager", "canvas",
                    "one vault", "two vaults", "own tunnel"}
        /\ spec = [s \in Schema |-> [kind |-> "leaf", next |-> {}]]
        /\ stack = <<>> /\ seen = {}
  /\ part \notin {"one process", "two processes"} => linked
  /\ part \notin {"commands", "manager"} => tree = CHOOSE t \in Tree0 : TRUE
  /\ part # "canvas" => doc = [p \in Put |-> CHOOSE d \in Canvas : TRUE]

\* With two processes, MAX_SHARED requests.
NextRequests ==
  /\ \/ part = "one process" /\ H!Step(First)
     \/ part = "two processes" /\ H!Next /\ rseq' <= MAX_SHARED
  /\ UNCHANGED calm

\* bound DEPTH: a stack deeper than the number of schemas has one of them twice.
NextSample == part = "sample" /\ Body!Next /\ Len(stack') <= DEPTH /\ UNCHANGED calm

\* Calls are made in order, and the third alone: it copies what they have left.
NextFiles ==
  /\ part \in {"commands", "manager"}
  /\ F!Next
  /\ calm' = /\ calm
             /\ \A c, d \in Call : (F!UnderWay(c) /\ F!UnderWay(d))' => c = d
             /\ ~\E c \in Call : F!CopiesOntoItself(c)'
  /\ \A c \in Call :
       call'[c].ask.kind \notin (IF part = "commands" THEN Manager ELSE Commands)
  /\ call'[c1].at = "new" => call'[c2].at = "new"
  /\ call'[c3].at # "new" =>
       /\ calm' /\ ~F!UnderWay(c1) /\ ~F!UnderWay(c2) /\ call[c2].at # "new"
       /\ call'[c3].ask.kind \in {"copy", "cp"}

NextCanvas ==
  /\ part = "canvas"
  /\ C!Next
  /\ calm' = (calm /\ \A p, q \in Put : (C!UnderWay(p) /\ C!UnderWay(q))' => p = q)

\* Requests come in order: three with one process, two with two.
NextVault ==
  /\ part \in {"one vault", "two vaults"}
  /\ Next
  /\ \A c \in Call : part = "one vault" => request'[c].on = First
  /\ request'[c2].at # "new" => request[c1].at # "new"
  /\ request'[c3].at # "new" =>
       request[c2].at # "new" /\ part = "one vault" /\ request'[c3].kind \in {"update", "list"}
  /\ UNCHANGED calm

NextTunnel == part = "own tunnel" /\ T!Next /\ UNCHANGED calm

NextMC ==
  /\ UNCHANGED part
  /\ \/ NextRequests /\ UNCHANGED <<vars, sampleVars, fileVars, canvasVars, tunnelVars>>
     \/ NextSample /\ UNCHANGED <<vars, savedVars, fileVars, canvasVars, tunnelVars>>
     \/ NextFiles /\ UNCHANGED <<vars, savedVars, sampleVars, canvasVars, tunnelVars>>
     \/ NextCanvas /\ UNCHANGED <<vars, savedVars, sampleVars, fileVars, tunnelVars>>
     \/ NextVault /\ UNCHANGED <<savedVars, sampleVars, fileVars, canvasVars, tunnelVars>>
     \/ NextTunnel /\ UNCHANGED <<vars, savedVars, sampleVars, fileVars, canvasVars>>

\* The sampling is a loop of one thread.
SpecMC == InitMC /\ [][NextMC]_all /\ WF_sampleVars(NextSample)

-----------------------------------------------------------------------------
\* What HttpStore promises of the tables with any number of processes; and with
\* no other on the file, what an import has saved when it answers, or wherever it
\* gives up: an OpenAPI import each operation it has come to, in a folder named for
\* its path's tag, and an import of collections its copies in folders of their old
\* names, and never in the folders that have the old ids now.
SavedInv ==
  /\ H!RequestsInv
  /\ part = "one process" => H!OpenApiIsWhole /\ H!ImportedAsExported

\* Every property of an object that is sampled is sampled too, by way of its
\* $ref when it is one (SampleBody).
SamplesInv == Body!TypeOK /\ (part = "sample" => Body!PropertiesAreThere)

\* A sample is made up if, and only if, no schema that the request's leads to
\* leads back to itself: otherwise the recursion has no end (SampleBody).
SampleEnds == Body!SampleEnds

\* As long as calls come one after the other, and cp does not copy a file onto
\* itself, what was there and what was written is somewhere in the tree until a
\* call deletes it or writes over it by name (FileOps).
FilesInv == F!TypeOK /\ (calm => F!NothingLost)

\* As long as calls come one after the other, a copy answered as done has
\* everything the source had when it was asked for, unless what it was to write
\* is the source or a directory above it (FileOps).
CopyIsWhole == [][calm' => F!CopiesWhole]_all

\* As long as PUTs come one after the other, also when writes fail, connections go
\* and the process is killed: a document answered as saved is what a restart reads
\* until the next PUT opens the file, and a PUT that did not get to write leaves
\* none; and readers have what is in the file, unless its last write failed or
\* lost its connection (CanvasDocument).
CanvasInv == C!TypeOK /\ (calm => C!FileIsTheDocument /\ C!FileIsTheLast)

\* As long as no two servers are at it at once, what a start finds at dest is the
\* whole of cloudflared wherever the one that made it ended, and it can be
\* executed unless one ended between its rename and its chmod (OwnTunnel).
TunnelInv == T!TunnelInv
=============================================================================
