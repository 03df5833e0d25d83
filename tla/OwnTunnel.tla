------------------------------ MODULE OwnTunnel ------------------------------
(***************************************************************************)
(* How a server comes by the cloudflared of its own tunnel                 *)
(* (server/src/cloudflare.rs).  When ~/.noide has none it downloads it     *)
(* to a file that has one name for all servers, renames that and makes it  *)
(* executable.  A server may end, or be killed, between any two steps.     *)
(***************************************************************************)
EXTENDS Naturals, Sequences

CONSTANTS
  Server,
  PARTS,  \* the writes a download takes
  STARTS, \* bound: starts of servers
  None    \* no file has the name

OwnTunnelAssumption == {PARTS, STARTS} \subseteq Nat \ {0} /\ None \notin Nat

Part == 1..PARTS

VARIABLES
  starts, \* starts so far
  at,     \* where each server is
  writer, \* the file it has open, and how much it wrote
  holds,  \* the parts there are in each file that was created
  exec,   \* the files that may be executed
  name,   \* the files the two names stand for
  apart,  \* history: never two servers at it at once
  torn    \* history: one ended between its rename and its chmod

tunnelVars == <<starts, at, writer, holds, exec, name, apart, torn>>

Init ==
  /\ starts = 0
  /\ at = [s \in Server |-> "off"]
  /\ writer = [s \in Server |-> [file |-> None, wrote |-> 0]]
  /\ holds = <<>> /\ exec = {}
  /\ name = [n \in {"tmp", "dest"} |-> None]
  /\ apart = TRUE /\ torn = FALSE

Goes(s, to) == at' = [at EXCEPT ![s] = to]
Busy(s) == at[s] \in {"creates", "writes", "renames", "chmods"}
Opens(s, f) == writer' = [writer EXCEPT ![s] = [file |-> f, wrote |-> 0]]

\* Whatever there is at dest will do.
Start(s) ==
  /\ at[s] = "off" /\ starts < STARTS
  /\ starts' = starts + 1
  /\ Goes(s, IF name["dest"] = None THEN "creates" ELSE "spawns")
  /\ apart' = (apart /\ \A t \in Server : ~Busy(t))
  /\ UNCHANGED <<writer, holds, exec, name, torn>>

\* Without the temporary file.
CreateDest(s) ==
  /\ at[s] = "creates"
  /\ Opens(s, Len(holds) + 1)
  /\ holds' = Append(holds, {})
  /\ name' = [n \in {"tmp", "dest"} |-> Len(holds) + 1]
  /\ Goes(s, "writes")
  /\ UNCHANGED <<starts, exec, apart, torn>>
\* File::create empties the file another has left, or is still writing.
Create(s) ==
  /\ at[s] = "creates"
  /\ LET f == IF name["tmp"] = None THEN Len(holds) + 1 ELSE name["tmp"] IN
       /\ Opens(s, f)
       /\ holds' = IF f > Len(holds) THEN Append(holds, {}) ELSE [holds EXCEPT ![f] = {}]
       /\ name' = [name EXCEPT !["tmp"] = f]
  /\ Goes(s, "writes")
  /\ UNCHANGED <<starts, exec, apart, torn>>

WriteAll(s) ==
  /\ at[s] = "writes"
  /\ LET k == writer[s].wrote + 1 IN
       /\ holds' = [holds EXCEPT ![writer[s].file] = @ \cup {k}]
       /\ writer' = [writer EXCEPT ![s].wrote = k]
       /\ Goes(s, IF k = PARTS THEN "renames" ELSE "writes")
  /\ UNCHANGED <<starts, exec, name, apart, torn>>

Rename(s) ==
  /\ at[s] = "renames"
  /\ IF name["tmp"] = None THEN Goes(s, "failed") /\ UNCHANGED name
     ELSE Goes(s, "chmods") /\ name' = [tmp |-> None, dest |-> name["tmp"]]
  /\ UNCHANGED <<starts, writer, holds, exec, apart, torn>>

SetPermissions(s) ==
  /\ at[s] = "chmods"
  /\ exec' = exec \cup {name["dest"]}
  /\ Goes(s, "spawns")
  /\ UNCHANGED <<starts, writer, holds, name, apart, torn>>

Whole(f) == holds[f] = Part
Writes(s, f) == at[s] = "writes" /\ writer[s].file = f

\* A file that is being written, or may not be executed, is not.
Spawn(s) ==
  /\ at[s] = "spawns"
  /\ LET f == name["dest"] IN
     Goes(s, IF f \in exec /\ Whole(f) /\ \A t \in Server : ~Writes(t, f)
             THEN "tunnel" ELSE "failed")
  /\ UNCHANGED <<starts, writer, holds, exec, name, apart, torn>>

\* The download, or a system call, fails; or the server ends or is killed.
Ends(s) ==
  /\ at[s] # "off"
  /\ Goes(s, "off")
  /\ torn' = (torn \/ at[s] = "chmods")
  /\ UNCHANGED <<starts, writer, holds, exec, name, apart>>

Next == \E s \in Server : \/ Start(s) \/ Create(s) \/ WriteAll(s) \/ Rename(s)
                          \/ SetPermissions(s) \/ Spawn(s) \/ Ends(s)

Spec == Init /\ [][Next]_tunnelVars

-----------------------------------------------------------------------------
TypeOK ==
  /\ starts \in 0..STARTS
  /\ at \in [Server -> {"off", "creates", "writes", "renames", "chmods", "spawns",
                        "tunnel", "failed"}]
  /\ writer \in [Server -> [file : {None} \cup 1..Len(holds), wrote : 0..PARTS]]
  /\ holds \in Seq(SUBSET Part) /\ exec \subseteq 1..Len(holds)
  /\ name \in [{"tmp", "dest"} -> {None} \cup 1..Len(holds)]
  /\ apart \in BOOLEAN /\ torn \in BOOLEAN

\* What a start finds at dest is the whole program, whenever the one that made it
\* ended ("Write to a temp file first, then atomically rename", cloudflare.rs:94).
DestIsWhole == name["dest"] # None => Whole(name["dest"])

\* And it can be executed, but for an end between the rename and the chmod, after
\* which no start makes it so.
DestRuns ==
  name["dest"] # None /\ ~torn =>
    name["dest"] \in exec \/ \E s \in Server : at[s] = "chmods"

TunnelInv == TypeOK /\ (apart => DestIsWhole /\ DestRuns)
=============================================================================
