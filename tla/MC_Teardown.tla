----------------------------- MODULE MC_Teardown -----------------------------
(***************************************************************************)
(* How things the server has started come to an end: port forwards         *)
(* (PortForward), one with everything that can happen to it and one whose  *)
(* binary finds no tunnel program; shells and chat runs at Ctrl+C          *)
(* (Shutdown); and the requests of port-forward's web interface            *)
(* (TunnelUi).  They share nothing, so a behaviour is one of the three,    *)
(* and the parts that are not played stay as they are.                     *)
(***************************************************************************)
EXTENDS PortForward

CONSTANTS Plain, Shell, Chat, Conn, Request, CHAN, LINES

VARIABLES part, aborts, server, sigint, handler, shell, sessions, victim, owner,
          poisoned, chat, tracker, termed, before,
          active, kind, task, program, pipe, printed, reader, found, chan, client

Ctrl == INSTANCE Shutdown
Ui == INSTANCE TunnelUi

ASSUME TeardownAssumption == Ctrl!ShutdownAssumption /\ Ui!TunnelUiAssumption

shutdownVars == <<aborts, server, sigint, handler, shell, sessions, victim, owner,
                  poisoned, chat, tracker, termed, before>>
uiVars == <<active, kind, task, program, pipe, printed, reader, found, chan, client>>
all == <<vars, part, shutdownVars, uiVars>>

InitMC ==
  /\ Init /\ Ctrl!Init /\ Ui!Init
  /\ part \in {"forwards", "shutdown", "web interface"}
  /\ part # "shutdown" => aborts

NextForwards ==
  /\ part = "forwards"
  /\ Next /\ tunnel'[Plain] = "none"
  /\ UNCHANGED <<part, shutdownVars, uiVars>>

NextShutdown ==
  part = "shutdown" /\ Ctrl!Next /\ UNCHANGED <<part, vars, uiVars>>

NextUi == part = "web interface" /\ Ui!Next /\ UNCHANGED <<part, vars, shutdownVars>>

NextMC == NextForwards \/ NextShutdown \/ NextUi

SpecMC == InitMC /\ [][NextMC]_all /\ Fairness /\ Ctrl!Fairness /\ Ui!Fairness

-----------------------------------------------------------------------------
\* Whatever connections do meanwhile, and also when one of them panicked with
\* the manager's lock: once the handler is past the kills, the shells and the
\* chat runs that were there when Ctrl+C came are dead or were told to end
\* (Shutdown).  Only a shell whose session was replaced is out of its reach.
ShutdownInv == Ctrl!TypeOK /\ Ctrl!CtrlCReaches

\* Ctrl+C gets its kills done, unless a call never lets go of the manager's lock
\* or a shell lives on without its terminal (Shutdown).
CtrlCIsServed == Ctrl!CtrlCIsServed

\* The event stream of a forward ends with its tunnel, and a posted forward is
\* answered when its tunnel has told how it went (TunnelUi).
UiEnds == Ui!UiEnds
=============================================================================
