------------------------------ MODULE MCSystem ------------------------------
(***************************************************************************)
(* Classes that stand alone, checked together: the self-contained ones of   *)
(* src/System, and TcpClient, whose progress is checked here.  They share no *)
(* state, so the behaviours of the whole are those of one class each: "part" *)
(* says whose, and the variables of the others do not move.                  *)
(***************************************************************************)
EXTENDS Event, UniqueID, Resource, Timer

CONSTANTS Addr, Handlers, Calls, IndexSpace, UidSpace, MaxConnects, MaxActions,
          MaxOut

VARIABLES part,
          server, sockets, uid, action, msgQueue, currQueue, todo, running,
          loop, asked, ran, destroyed, crashed

Tcp == INSTANCE TcpClient WITH heap <- sockets

MCCounts == {-1, 1}

tcpVars == <<server, sockets, uid, action, msgQueue, currQueue, todo, running,
             loop, asked, ran, destroyed, crashed>>
SysVars == <<part, vars, uidVars, resVars, tmVars, tcpVars>>

OthersThanEvent == UNCHANGED <<uidVars, resVars, tmVars, tcpVars>>
OthersThanUid == UNCHANGED <<vars, resVars, tmVars, tcpVars>>
OthersThanRes == UNCHANGED <<vars, uidVars, tmVars, tcpVars>>
OthersThanTm == UNCHANGED <<vars, uidVars, resVars, tcpVars>>
OthersThanTcp == UNCHANGED <<vars, uidVars, resVars, tmVars>>

SysInit ==
    /\ part \in {"event", "uid", "resource", "timer", "tcp"}
    /\ Init /\ UidInit /\ ResInit /\ TmInit /\ Tcp!Init

SysNext ==
    /\ UNCHANGED part
    /\ \/ part = "event" /\ Next /\ OthersThanEvent
       \/ part = "uid" /\ UidNext /\ OthersThanUid
       \/ part = "resource" /\ ResNext /\ OthersThanRes
       \/ part = "timer" /\ TmNext /\ OthersThanTm
       \/ part = "tcp" /\ Tcp!Next /\ OthersThanTcp

(***************************************************************************)
(* Fairness of TcpClient: the event loop is entered and served: its timer    *)
(* fires, a vector is worked off, and a socket that was shut down gets its   *)
(* end-of-file event.                                                       *)
(***************************************************************************)
Client == part = "tcp"
TcpFair ==
    /\ WF_tcpVars(Client /\ Tcp!Loop)
    /\ SF_tcpVars(Client /\ Tcp!OnRunCheck)
    /\ WF_tcpVars(Client /\ Tcp!OnRunCheckStopped)
    /\ WF_tcpVars(Client /\ Tcp!RunAction)
    /\ \A a \in Addr : SF_tcpVars(Client /\ sockets[a].shut /\ Tcp!Disconnect(a))

\* The fair actions of an event are not enabled while nobody waits for it.
SysSpec == SysInit /\ [][SysNext]_SysVars /\ EventFair /\ TcpFair

-----------------------------------------------------------------------------
\* Every action submitted to a TcpClient runs, unless the client is stopped.
EveryActionRuns == Tcp!EveryActionRuns

\* A stop() that comes once TcpClient::loop has raised the flag ends the loop,
\* though its vectors keep their actions.
StopEndsLoop == Tcp!StopEndsLoop
=============================================================================
