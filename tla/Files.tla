-------------------------------- MODULE Files --------------------------------
(***************************************************************************)
(* A file tree and the system calls the server's commands and file-manager *)
(* make on it.  A tree maps the paths that exist, sequences of names, to   *)
(* Dir or to a file's content; <<>> is a directory that is always there.   *)
(***************************************************************************)
EXTENDS Naturals, Sequences, SequencesExt

CONSTANTS
  Dir,     \* what a directory maps to
  PATH_MAX \* bound: names in the longest path the system takes

FilesAssumption == PATH_MAX \in Nat

IsDir(t, p) == p \in DOMAIN t /\ t[p] = Dir
IsFile(t, p) == p \in DOMAIN t /\ t[p] # Dir

Under(t, p) == {q \in DOMAIN t : IsPrefix(p, q)}
Entries(t, p) == {q \in Under(t, p) : Len(q) = Len(p) + 1}
Upto(p) == {SubSeq(p, 1, k) : k \in 0..Len(p)}
Parent(p) == SubSeq(p, 1, Len(p) - 1)

\* The path at b that corresponds to q at a.
Moved(q, a, b) == b \o SubSeq(q, Len(a) + 1, Len(q))

MkdirOk(t, p) ==
  Len(p) <= PATH_MAX /\ \A q \in Upto(p) : q \in DOMAIN t => IsDir(t, q)
Mkdir(t, p) ==
  [q \in DOMAIN t \cup Upto(p) |-> IF q \in DOMAIN t THEN t[q] ELSE Dir]

WriteOk(t, p) ==
  p # <<>> /\ Len(p) <= PATH_MAX /\ IsDir(t, Parent(p)) /\ ~IsDir(t, p)
Write(t, p, c) ==
  [q \in DOMAIN t \cup {p} |-> IF q = p THEN c ELSE t[q]]

Without(t, p) == Restrict(t, DOMAIN t \ Under(t, p))

\* rename(2) replaces a file with a file and an empty directory with a directory.
RenameOk(t, a, b) ==
  /\ a # <<>> /\ a \in DOMAIN t
  /\ b # <<>> /\ IsDir(t, Parent(b)) /\ ~IsStrictPrefix(a, b)
  /\ \/ b \notin DOMAIN t \/ a = b
     \/ IsFile(t, a) /\ IsFile(t, b)
     \/ IsDir(t, a) /\ IsDir(t, b) /\ Under(t, b) = {b}
Rename(t, a, b) ==
  LET stays == DOMAIN t \ (Under(t, a) \cup {b})
      goes == {Moved(q, a, b) : q \in Under(t, a)} IN
  [q \in stays \cup goes |-> IF q \in goes THEN t[Moved(q, b, a)] ELSE t[q]]
=============================================================================
