------------------------------ MODULE TcpClient ------------------------------
(***************************************************************************)
(* Network::TcpClient (TcpClient, TcpAction and TcpSocket in Network/): the *)
(* sockets of the client, found by session id through the vector _server,   *)
(* and the queue of actions that other threads submit and the event loop    *)
(* runs.                                                                    *)
(*                                                                          *)
(* Sockets live in heap cells, and _server holds the cells' addresses, also *)
(* after the socket was deleted: remove() does not clear the slot, and a    *)
(* later socket may be allocated in the same cell.  Reading a deleted       *)
(* socket is undefined; the read of its id may give the old id, and then    *)
(* the freed bufferevent is used and the process is lost ("crashed"), or it *)
(* may give something else, and then the call returns.                      *)
(*                                                                          *)
(* Everything but stop(), close() and the pushes runs on the thread of the  *)
(* event loop.  A push and a fetchMsg() are single steps (MsgQueue).  At    *)
(* this commit close() is the only caller of pushMsg; Submit stands for a   *)
(* class derived from TcpClient that pushes the actions of TcpAction.h.     *)
(***************************************************************************)
EXTENDS Naturals, Sequences

CONSTANTS Addr,         \* heap cells for sockets
          Handlers,     \* handlers made for one connection each
          Calls,        \* what other threads do: "stop", "closeCall" and the
                        \* kinds of action they submit
          IndexSpace,   \* 2^20 in the code: a session id is a unique number
          UidSpace,     \* (2^12 values are left for it) and a slot index
          MaxConnects,  \* bound: number of connections made
          MaxActions,   \* bound: number of actions submitted
          MaxOut        \* bound: output buffer, in packets (saturates)

ASSUME ClientAssumption ==
    /\ Calls \subseteq {"close", "pendClose", "send", "sendEmpty", "closeCall", "stop"}
    /\ IndexSpace \in Nat \ {0}
    /\ UidSpace \in Nat \ {0}
    /\ {MaxConnects, MaxActions, MaxOut} \subseteq Nat

VARIABLES server,     \* _server: a sequence of addresses
          heap,       \* the cells
          uid,        \* _clientUniqueId
          action,     \* the actions submitted; a pointer is an index of it
          msgQueue,   \* the two vectors of pointers of the base class ...
          currQueue,  \* ... and the one being filled
          todo,       \* what onRunCheck still has to run
          running,    \* _running
          loop,       \* the event loop: "before", "entered" or "ended"
          asked,      \* history: what was asked by stop() and close()
          ran,        \* history: how often each action ran (0, 1 or 2)
          destroyed,  \* the handlers that destroyed themselves
          crashed     \* a freed bufferevent was used

sockVars == <<server, heap, uid, destroyed>>
queueVars == <<action, msgQueue, currQueue>>
loopVars == <<running, loop>>
vars == <<server, heap, uid, action, msgQueue, currQueue, todo, running, loop,
          asked, ran, destroyed, crashed>>

NullAction == 0
DefHandler == "default"   \* static; its destroy() does nothing
Kinds == {"close", "pendClose", "send", "sendEmpty"}
SessionIds == 0 .. (IndexSpace * UidSpace - 1)

\* TcpSocket, with the output buffer of its bufferevent, and (history) the
\* ids in whose name something was done to it.
Cell == [live : BOOLEAN, id : SessionIds, pendClose : BOOLEAN,
         out : 0..MaxOut, shut : BOOLEAN,
         handler : Handlers \cup {DefHandler}, from : SUBSET SessionIds]

NewSocket(sid) == [live |-> TRUE, id |-> sid, pendClose |-> FALSE,
                   out |-> 0, shut |-> FALSE, handler |-> DefHandler, from |-> {}]

TypeOK ==
    /\ server \in Seq(Addr)
    /\ heap \in [Addr -> Cell]
    /\ uid = Len(server)
    /\ action \in Seq([kind : Kinds, sid : SessionIds])
    /\ msgQueue \in [{0, 1} -> Seq(0..Len(action))]
    /\ currQueue \in {0, 1}
    /\ todo \in Seq(0..Len(action))
    /\ running \in BOOLEAN
    /\ loop \in {"before", "entered", "ended"}
    /\ ran \in [1..MaxActions -> 0..2]
    /\ destroyed \in SUBSET Handlers
    /\ crashed \in BOOLEAN

Init ==
    /\ server = <<>>
    /\ heap = [a \in Addr |-> [NewSocket(0) EXCEPT !.live = FALSE]]
    /\ uid = 0
    /\ action = <<>>
    /\ msgQueue = [i \in {0, 1} |-> <<>>]
    /\ currQueue = 0
    /\ todo = <<>>
    /\ running = TRUE
    /\ loop = "before"
    /\ asked = {}
    /\ ran = [n \in 1..MaxActions |-> 0]
    /\ destroyed = {}
    /\ crashed = FALSE

-----------------------------------------------------------------------------
(* Sessions.                                                                *)

SessionId(u, size) == (u * IndexSpace + size) % (IndexSpace * UidSpace)
Index(sid) == sid % IndexSpace

\* The ids connect() has handed out.
Issued == {SessionId(n, n - 1) : n \in 1..Len(server)}

\* A connect() that succeeds; one that fails changes nothing here (it leaks
\* the bufferevent if the connection is refused at once).
Connect(a) ==
    /\ ~crashed /\ todo = <<>>
    /\ Len(server) < MaxConnects
    /\ ~heap[a].live
    /\ uid' = uid + 1
    /\ heap' = [heap EXCEPT ![a] = NewSocket(SessionId(uid + 1, Len(server)))]
    /\ server' = Append(server, a)
    /\ UNCHANGED <<queueVars, todo, loopVars, asked, ran, destroyed, crashed>>

\* Mutant: the slot alone identifies the socket.
OnSessionByIndex(sid, new) ==
    LET i == Index(sid) + 1
    IN  IF i > Len(server) THEN UNCHANGED <<heap, crashed>>
        ELSE LET a == server[i]
             IN  IF heap[a].live
                   THEN heap' = [heap EXCEPT ![a] = new[a]] /\ UNCHANGED crashed
                   ELSE UNCHANGED <<heap, crashed>>

\* What close2, pendClose2, send2 and setHandler have in common: the socket in
\* the slot of the id becomes what new says if it has that id.
OnSession(sid, new) ==
    LET i == Index(sid) + 1
    IN  IF i > Len(server) THEN UNCHANGED <<heap, crashed>>
        ELSE LET a == server[i]
             IN  \/ /\ heap[a].live
                    /\ heap' = IF heap[a].id = sid
                                 THEN [heap EXCEPT ![a] = new[a]] ELSE heap
                    /\ UNCHANGED crashed
                 \/ /\ ~heap[a].live
                    /\ crashed' \in {heap[a].id = sid, FALSE}
                    /\ UNCHANGED heap

\* TcpSocket::shutdown(2); the peer sees the end of the connection.
Close2(s) == [s EXCEPT !.shut = TRUE]

PendClose2(s) ==
    IF s.out = 0 THEN [s EXCEPT !.shut = TRUE] ELSE [s EXCEPT !.pendClose = TRUE]

\* bufferevent_write of one packet.
Send2(s) == [s EXCEPT !.out = IF @ < MaxOut THEN @ + 1 ELSE @]

Destroy(h) == destroyed' = destroyed \cup ({h} \ {DefHandler})

\* The session's handler, if the slot holds a live socket with this id.
HandlerOf(sid) ==
    LET i == Index(sid) + 1
    IN  IF i <= Len(server) /\ heap[server[i]].live /\ heap[server[i]].id = sid
          THEN heap[server[i]].handler ELSE DefHandler

\* Mutant: setting the same handler again destroys it too.
SetHandlerDestroysAlways(sid, h) ==
    /\ ~crashed /\ todo = <<>>
    /\ h \notin destroyed
    /\ \A a \in Addr : heap[a].handler = h => heap[a].id = sid
    /\ OnSession(sid, [a \in Addr |-> [heap[a] EXCEPT !.handler = h]])
    /\ Destroy(HandlerOf(sid))
    /\ UNCHANGED <<server, uid, queueVars, todo, loopVars, asked, ran>>

\* setHandler, with a handler that no other connection has: the old one
\* destroys itself unless it is the same.
SetHandler(sid, h) ==
    /\ ~crashed /\ todo = <<>>
    /\ h \notin destroyed
    /\ \A a \in Addr : heap[a].handler = h => heap[a].id = sid
    /\ OnSession(sid, [a \in Addr |-> [heap[a] EXCEPT !.handler = h]])
    /\ IF HandlerOf(sid) # h THEN Destroy(HandlerOf(sid)) ELSE UNCHANGED destroyed
    /\ UNCHANGED <<server, uid, queueVars, todo, loopVars, asked, ran>>

\* TcpActionClose::run and TcpActionSend::run.
RunOn(act) ==
    LET Do(s) == CASE act.kind = "close"     -> Close2(s)
                   [] act.kind = "pendClose" -> PendClose2(s)
                   [] act.kind = "send"      -> Send2(s)
    IN  IF act.kind = "sendEmpty"
          THEN UNCHANGED <<heap, crashed>>
          ELSE OnSession(act.sid,
                         [a \in Addr |-> [Do(heap[a]) EXCEPT !.from = @ \cup {act.sid}]])

-----------------------------------------------------------------------------
(* Other threads.                                                           *)

PushMsg(ptr) == msgQueue' = [msgQueue EXCEPT ![currQueue] = Append(@, ptr)]

Submit(k, sid) ==
    /\ ~crashed
    /\ k \in Calls
    /\ Len(action) < MaxActions
    /\ action' = Append(action, [kind |-> k, sid |-> sid])
    /\ PushMsg(Len(action) + 1)
    /\ UNCHANGED <<sockVars, currQueue, todo, loopVars, asked, ran, crashed>>

\* TcpClient::close: the action is only pushed when it could not be allocated,
\* that is, as a null pointer.
CloseCall(sid) ==
    /\ ~crashed
    /\ "closeCall" \in Calls
    /\ <<"close", sid>> \notin asked
    /\ asked' = asked \cup {<<"close", sid>>}
    /\ PushMsg(NullAction) \/ UNCHANGED msgQueue
    /\ UNCHANGED <<sockVars, action, currQueue, todo, loopVars, ran, crashed>>

Stop ==
    /\ ~crashed
    /\ "stop" \in Calls
    /\ running' = FALSE
    /\ asked' = asked \cup {<<"stop">>}
    /\ UNCHANGED <<sockVars, queueVars, todo, loop, ran, crashed>>

-----------------------------------------------------------------------------
(* The event loop.                                                          *)

\* TcpClient::loop adds the timer and enters the loop of the base class,
\* which raises the flag first.
Loop ==
    /\ ~crashed
    /\ loop = "before"
    /\ loop' = "entered"
    /\ running' = TRUE
    /\ UNCHANGED <<sockVars, queueVars, todo, asked, ran, crashed>>

InLoop == loop = "entered" /\ todo = <<>> /\ ~crashed

\* Mutant: one message is run, the others of the vector are left out.
OnRunCheckHeadOnly ==
    /\ InLoop /\ running
    /\ msgQueue[currQueue] # <<>>
    /\ todo' = <<Head(msgQueue[currQueue])>>
    /\ currQueue' = 1 - currQueue
    /\ UNCHANGED <<sockVars, action, msgQueue, loopVars, asked, ran, crashed>>

\* The timer: onRunCheck while running.  The vector it fetched is neither
\* emptied nor given back with fetchEnd.
OnRunCheck ==
    /\ InLoop /\ running
    /\ msgQueue[currQueue] # <<>>
    /\ todo' = msgQueue[currQueue]
    /\ currQueue' = 1 - currQueue
    /\ UNCHANGED <<sockVars, action, msgQueue, loopVars, asked, ran, crashed>>

\* Mutant: the queued actions come first.
OnRunCheckStoppedIdle ==
    /\ InLoop /\ ~running
    /\ msgQueue[currQueue] = <<>>
    /\ loop' = "ended"
    /\ UNCHANGED <<sockVars, queueVars, todo, running, asked, ran, crashed>>

\* The timer after stop(): the loop is left, and the base class lowers the
\* flag.
OnRunCheckStopped ==
    /\ InLoop /\ ~running
    /\ loop' = "ended"
    /\ UNCHANGED <<sockVars, queueVars, todo, running, asked, ran, crashed>>

\* One turn of the loop in onRunCheck; null pointers are skipped.
RunAction ==
    /\ todo # <<>> /\ ~crashed
    /\ todo' = Tail(todo)
    /\ IF Head(todo) = NullAction
         THEN UNCHANGED <<heap, crashed, ran>>
         ELSE /\ RunOn(action[Head(todo)])
              /\ ran' = [ran EXCEPT ![Head(todo)] = IF @ < 2 THEN @ + 1 ELSE @]
    /\ UNCHANGED <<server, uid, destroyed, queueVars, loopVars, asked>>

\* Mutant: _onClientWrite does not wait for the output to be empty.
DrainShutsEarly(a) ==
    /\ InLoop /\ heap[a].live /\ heap[a].out > 0
    /\ heap' = [heap EXCEPT ![a].out = @ - 1, ![a].shut = @ \/ heap[a].pendClose]
    /\ UNCHANGED <<server, uid, destroyed, queueVars, todo, loopVars, asked, ran, crashed>>

\* libevent writes a packet out; when the buffer is empty it calls
\* _onClientWrite, which shuts the socket down if that is pending.
Drain(a) ==
    /\ InLoop /\ heap[a].live /\ heap[a].out > 0
    /\ heap' = [heap EXCEPT ![a].out = @ - 1,
                            ![a].shut = @ \/ (heap[a].pendClose /\ heap[a].out = 1)]
    /\ UNCHANGED <<server, uid, destroyed, queueVars, todo, loopVars, asked, ran, crashed>>

\* _onClientEvent on end of file, error or timeout: the ClientData with its
\* bufferevent and the socket are deleted, the slot in _server stays.
Disconnect(a) ==
    /\ InLoop /\ heap[a].live
    /\ heap' = [heap EXCEPT ![a].live = FALSE]
    /\ Destroy(heap[a].handler)
    /\ UNCHANGED <<server, uid, queueVars, todo, loopVars, asked, ran, crashed>>

Next ==
    \/ \E a \in Addr : Connect(a)
    \/ \E k \in Kinds, sid \in Issued : Submit(k, sid)
    \/ \E sid \in Issued : CloseCall(sid)
    \/ \E sid \in Issued, h \in Handlers : SetHandler(sid, h)
    \/ Stop
    \/ Loop
    \/ OnRunCheck
    \/ OnRunCheckStopped
    \/ RunAction
    \/ \E a \in Addr : Drain(a)
    \/ \E a \in Addr : Disconnect(a)

Spec == Init /\ [][Next]_vars

-----------------------------------------------------------------------------
\* Nothing is done to a socket in the name of another session, although
\* slots keep the addresses of deleted sockets, cells are used again and two
\* sessions may have the same slot index.
NoCrossTalk ==
    \A a \in Addr : heap[a].live => heap[a].from \subseteq {heap[a].id}

\* A pending close loses no output: but for a hard close, a socket is only
\* shut down when everything written to it has gone out.
RunsHardClose ==
    /\ todo # <<>>
    /\ Head(todo) # NullAction
    /\ action[Head(todo)].kind = "close"
PendCloseDrainsFirst ==
    [][\A a \in Addr :
         heap'[a].shut /\ ~heap[a].shut /\ ~RunsHardClose => heap'[a].out = 0]_vars

\* The handler of a live connection has not destroyed itself: neither setting
\* it twice nor a disconnect of another connection ends it.
HandlersAlive ==
    \A a \in Addr : heap[a].live => heap[a].handler \notin destroyed

\* The sockets and the handlers they use are what the class keeps them for.
SocketsSound == TypeOK /\ HandlersAlive

\* Every action submitted runs, unless the client is stopped.
EveryActionRuns ==
    \A n \in 1..MaxActions :
        (Len(action) >= n) ~> (ran[n] > 0 \/ crashed \/ <<"stop">> \in asked)

\* A stop() that comes once loop() has raised the flag ends the loop, though the
\* vectors keep their actions and nobody empties them.  (One that comes before
\* is undone by loop().)
StopEndsLoop == (loop = "entered" /\ ~running) ~> (loop = "ended" \/ crashed)

-----------------------------------------------------------------------------
(* What the documentation and comments say.                                 *)

\* "this virtual implementation adds timer to handle queued packets/actions":
\* an action is handled once.
EachActionRunsOnce == \A n \in 1..MaxActions : ran[n] < 2

\* "// _clients[index] = NULL;": the slot of a removed socket is cleared, so
\* that the test ts != NULL of close2, pendClose2 and send2 finds it gone.
NoUseAfterFree == ~crashed
=============================================================================
