----------------------------- MODULE MCSockets ----------------------------
(***************************************************************************)
(* The sockets of the client and the bufferevents of libevent under them,   *)
(* checked together: their models share no state (TcpClient sees no more of *)
(* a bufferevent than whether there is output), so a behaviour of the whole *)
(* is one of a part: "part" says whose, and the variables of the other do   *)
(* not move.  No definition tells the heap cells or the handlers of          *)
(* TcpClient apart.                                                          *)
(***************************************************************************)
EXTENDS TcpClient, Bufferevent

VARIABLE part

SocketsInit ==
    /\ part \in {"tcp", "bufferevent"}
    /\ Init /\ BevInit

SocketsNext ==
    /\ UNCHANGED part
    /\ \/ part = "tcp" /\ Next /\ UNCHANGED bevVars
       \/ part = "bufferevent" /\ BevNext /\ UNCHANGED vars

SocketsSpec == SocketsInit /\ [][SocketsNext]_<<part, vars, bevVars>>

CellsAndHandlers == Permutations(Addr) \cup Permutations(Handlers)
=============================================================================
