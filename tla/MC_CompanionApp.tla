--------------------------- MODULE MC_CompanionApp ---------------------------
(***************************************************************************)
(* CompanionApp on small instances, with a history variable: whether two   *)
(* commands have ever been under way at once.                              *)
(***************************************************************************)
EXTENDS CompanionApp

VARIABLE overlapped

InitMC == Init /\ overlapped = FALSE
NextMC == Next /\ overlapped' = (overlapped \/ \E c, d \in Busy' : c # d)
SpecMC == InitMC /\ [][NextMC]_<<vars, overlapped>> /\ Fairness

\* As long as the client has waited for each answer the stored port is that of
\* the stored child.  With a stop between a start's two assignments (ws_server.rs
\* 2361-2362) it is not: the port stays behind without a child.
AgreeInTurn == ~overlapped => StateAgrees
=============================================================================
