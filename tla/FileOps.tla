------------------------------- MODULE FileOps -------------------------------
(***************************************************************************)
(* What changes files: the commands create_file, create_directory,         *)
(* write_file, upload_file, rename_entry, copy_entry and delete_entry      *)
(* (server/src/commands.rs), and file-manager's write, mkdir, rm, mv and   *)
(* cp (file-manager/src/main.rs).                                          *)
(*                                                                         *)
(* Every one looks first and acts afterwards, and nothing keeps another    *)
(* out in between: each command runs in a task of its own.  A copy of a    *)
(* directory is a recursion that reads each directory when it gets there.  *)
(* cp and rm are the ones with `recursive`.                                *)
(***************************************************************************)
EXTENDS Files, FiniteSets

CONSTANTS
  Name,  \* what files and directories are called
  Call,  \* calls, each made once
  Kind,  \* the operations of a run
  Path,  \* the paths clients name
  Tree0, \* the trees there may be at the start
  Old,   \* the contents in all of them
  Void   \* the content of a truncated file

Contents(t, ps) == {t[q] : q \in {p \in ps \cap DOMAIN t : t[p] # Dir}}

FileOpsAssumption ==
  /\ FilesAssumption
  /\ Path \subseteq Seq(Name) /\ Dir \notin Call \cup Old \cup {Void}
  /\ \A t \in Tree0 : /\ DOMAIN t \subseteq Seq(Name) /\ Old \subseteq Contents(t, DOMAIN t)
                      /\ IsDir(t, <<>>)
                      /\ \A p \in DOMAIN t : \A q \in Upto(p) \ {p} : IsDir(t, q)
  /\ Kind \subseteq {"create", "createdir", "rename", "copy", "delete",
                     "write", "mkdir", "rm", "mv", "cp"}

VARIABLES
  tree,   \* the files
  call,   \* the calls: what they ask, where they are
  erased  \* the contents that were to go: deleted, removed, written over

vars == <<tree, call, erased>>

NewCall == [ask |-> [kind |-> "none", from |-> <<>>, to |-> <<>>], at |-> "new", dst |-> <<>>, stack |-> <<>>, was |-> <<>>]

Init ==
  /\ tree \in Tree0
  /\ call = [c \in Call |-> NewCall]
  /\ erased = {}

Kinded(c, kinds) == call[c].ask.kind \in kinds
Ended(kind, at) == [NewCall EXCEPT !.ask.kind = kind, !.at = at]
Ends(c, at) == call' = [call EXCEPT ![c] = Ended(@.ask.kind, at)]

-----------------------------------------------------------------------------
(* The look. *)

\* mv and cp into a directory that is there go inside it.
Target(a) ==
  IF a.kind \in {"mv", "cp"} /\ IsDir(tree, a.to) /\ a.from # <<>>
  THEN Append(a.to, Last(a.from)) ELSE a.to

SourceMissing(a) ==
  a.kind \in {"rename", "copy", "delete", "rm", "mv", "cp"} /\ a.from \notin DOMAIN tree
Refused(a) ==
  \/ a.kind \in {"create", "createdir", "rename", "copy"} /\ a.to \in DOMAIN tree
  \/ a.kind \in {"rename", "copy", "delete", "rm", "mv", "cp"}
       /\ a.from \notin DOMAIN tree

Look(c, a) ==
  /\ call[c].at = "new"
  /\ call' = [call EXCEPT ![c] =
       IF Refused(a) THEN Ended(a.kind, "error")
       ELSE [NewCall EXCEPT !.ask = a, !.at = "looked", !.dst = Target(a), !.was = tree]]
  /\ UNCHANGED <<tree, erased>>

-----------------------------------------------------------------------------
(* The act. *)

Acts(c, kinds) == call[c].at = "looked" /\ Kinded(c, kinds)
From(c) == call[c].ask.from
To(c) == call[c].dst

Fails(c) == Ends(c, "error") /\ UNCHANGED <<tree, erased>>

\* The parents first, then the file, whatever is there by now.
MakeFile(c, covers) ==
  LET t == Mkdir(tree, Parent(To(c))) IN
  IF MkdirOk(tree, Parent(To(c))) /\ WriteOk(t, To(c))
  THEN /\ tree' = Write(t, To(c), c)
       /\ erased' = IF covers THEN erased \cup Contents(tree, {To(c)}) ELSE erased
       /\ Ends(c, "ok")
  ELSE Fails(c)

CreateFile(c) == Acts(c, {"create"}) /\ MakeFile(c, FALSE)
WriteFile(c) == Acts(c, {"write"}) /\ MakeFile(c, TRUE)

MakeDirectory(c) ==
  /\ Acts(c, {"createdir", "mkdir"})
  /\ IF MkdirOk(tree, To(c))
     THEN tree' = Mkdir(tree, To(c)) /\ Ends(c, "ok") /\ UNCHANGED erased
     ELSE Fails(c)

\* mv may replace a file.  When rename fails the parents made for it stay.
MoveEntry(c) ==
  /\ Acts(c, {"rename", "mv"})
  /\ LET t == Mkdir(tree, Parent(To(c))) IN
     IF ~MkdirOk(tree, Parent(To(c))) THEN Fails(c)
     ELSE IF ~RenameOk(t, From(c), To(c))
     THEN tree' = t /\ Ends(c, "error") /\ UNCHANGED erased
     ELSE /\ tree' = Rename(t, From(c), To(c))
          /\ erased' = IF Kinded(c, {"mv"}) /\ From(c) # To(c)
                       THEN erased \cup Contents(tree, {To(c)}) ELSE erased
          /\ Ends(c, "ok")

\* Removed as a whole: nothing is made inside meanwhile.
RemoveEntry(c) ==
  /\ Acts(c, {"delete", "rm"})
  /\ IF From(c) # <<>> /\ From(c) \in DOMAIN tree
     THEN /\ tree' = Without(tree, From(c))
          /\ erased' = erased \cup Contents(tree, Under(tree, From(c)))
          /\ Ends(c, "ok")
     ELSE Fails(c)

-----------------------------------------------------------------------------
(* Copies. *)

\* std::fs::copy opens the target, truncating it, before it reads.
CopiedFile(t, a, b) == Write(t, b, IF a = b THEN Void ELSE t[a])

Frame(t, a, b) == [src |-> a, dst |-> b, left |-> Entries(t, a)]

EnterFileOnly(c, a, b, rest) ==
  IF IsFile(tree, a) /\ WriteOk(tree, b)
  THEN /\ tree' = CopiedFile(tree, a, b)
       /\ call' = [call EXCEPT ![c].stack = rest, ![c].at = "copying"]
  ELSE IF IsDir(tree, a)
  THEN /\ tree' = Mkdir(tree, b)
       /\ call' = [call EXCEPT ![c].stack = rest, ![c].at = "copying"]
  ELSE Ends(c, "error") /\ UNCHANGED tree
\* copy_recursive(a, b), with `rest` the calls it returns to.
Enter(c, a, b, rest) ==
  LET t == Mkdir(tree, IF IsDir(tree, a) THEN b ELSE Parent(b)) IN
  \/ /\ IsDir(tree, a) /\ MkdirOk(tree, b)
     /\ tree' = t
     /\ call' = [call EXCEPT ![c].at = "copying",
                             ![c].stack = Append(rest, Frame(t, a, b))]
  \/ /\ IsFile(tree, a) /\ MkdirOk(tree, Parent(b)) /\ WriteOk(t, b)
     /\ tree' = CopiedFile(t, a, b)
     /\ call' = [call EXCEPT ![c].at = "copying", ![c].stack = rest]
  \/ /\ \/ a \notin DOMAIN tree
        \/ IsDir(tree, a) /\ ~MkdirOk(tree, b)
        \/ IsFile(tree, a) /\ ~(MkdirOk(tree, Parent(b)) /\ WriteOk(t, b))
     /\ Ends(c, "error") /\ UNCHANGED tree

\* cp writes over a file that is there.
CopyErases(c, a, b) ==
  erased' = IF Kinded(c, {"cp"}) /\ IsFile(tree, a) /\ a # b
            THEN erased \cup Contents(tree, {b}) ELSE erased

CopyStarts(c) ==
  /\ Acts(c, {"copy", "cp"})
  /\ Enter(c, From(c), To(c), <<>>)
  /\ CopyErases(c, From(c), To(c))

CopyEntry(c) ==
  /\ call[c].at = "copying" /\ call[c].stack # <<>>
  /\ LET top == Last(call[c].stack) IN
     \E q \in top.left :
       /\ Enter(c, q, Append(top.dst, Last(q)),
                Append(Front(call[c].stack), [top EXCEPT !.left = @ \ {q}]))
       /\ CopyErases(c, q, Append(top.dst, Last(q)))

CopyReturns(c) ==
  /\ call[c].at = "copying"
  /\ \/ call[c].stack = <<>> /\ Ends(c, "ok")
     \/ /\ call[c].stack # <<>> /\ Last(call[c].stack).left = {}
        /\ call' = [call EXCEPT ![c].stack = Front(@)]
  /\ UNCHANGED <<tree, erased>>

-----------------------------------------------------------------------------
OnePath == {"create", "createdir", "write", "mkdir"}
Removal == {"delete", "rm"}
Ask ==
  [kind : Kind \cap OnePath, from : {<<>>}, to : Path \ {<<>>}]
    \cup [kind : Kind \cap Removal, from : Path \ {<<>>}, to : {<<>>}]
    \cup [kind : Kind \ (OnePath \cup Removal), from : Path \ {<<>>}, to : Path]

Step(c) ==
  \/ CreateFile(c) \/ WriteFile(c) \/ MakeDirectory(c) \/ MoveEntry(c) \/ RemoveEntry(c)
  \/ CopyStarts(c) \/ CopyEntry(c) \/ CopyReturns(c)

Next == \E c \in Call : Step(c) \/ \E a \in Ask : Look(c, a)

Spec == Init /\ [][Next]_vars

UnderWay(c) == call[c].at \in {"looked", "copying"}

\* cp empties a file it is told to copy onto itself.
CopiesOntoItself(c) == UnderWay(c) /\ Kinded(c, {"cp"}) /\ From(c) = To(c)

-----------------------------------------------------------------------------
\* Files and directories are in directories.
TypeOK ==
  /\ \A p \in DOMAIN tree : p # <<>> => IsDir(tree, Parent(p))
  /\ IsDir(tree, <<>>)
  /\ \A c \in Call : call[c].at \in {"new", "looked", "copying", "ok", "error"}

Done(c, kinds) == call[c].at = "ok" /\ Kinded(c, kinds)

\* What was there, and what was written, is somewhere in the tree until a call
\* deletes it or writes over it by name: the create, rename and copy commands
\* write over nothing ("File already exists", commands.rs:681).
NothingLost ==
  \A k \in Old \cup {c \in Call : Done(c, {"create", "write"})} :
    k \in Contents(tree, DOMAIN tree) \cup erased

\* A copy answered as done has everything the source had when it was asked for.
\* Not when cp is told to copy onto itself, or into a directory it is in: then
\* it can write over what it has not read yet.
CopiesWhole ==
  \A c \in Call :
    /\ Kinded(c, {"copy", "cp"}) /\ call[c].at = "copying" /\ call'[c].at = "ok"
    /\ ~IsPrefix(To(c), From(c))
    => \A q \in Under(call[c].was, From(c)) :
         LET there == Moved(q, From(c), To(c)) IN
         there \in DOMAIN tree' /\ tree'[there] = call[c].was[q]
=============================================================================
