--------------------------- MODULE TcpClientProofs ---------------------------
(***************************************************************************)
(* Proofs about TcpClient: for any number of heap cells, handlers and       *)
(* connections, and any width of the two parts of a session id, also when   *)
(* ids are issued twice.                                                    *)
(***************************************************************************)
EXTENDS TcpClient, Integers, TLAPS

\* A cell, with its flag spelt out for the provers.
Shape == [live : {TRUE, FALSE}, id : SessionIds, pendClose : BOOLEAN,
          out : 0..MaxOut, shut : BOOLEAN,
          handler : Handlers \cup {DefHandler}, from : SUBSET SessionIds]

LEMMA ShapeIsCell == Shape = Cell
<1>1. {TRUE, FALSE} = BOOLEAN
  OBVIOUS
<1> QED
  BY <1>1, Zenon DEF Shape, Cell

\* The inductive invariant: slots are addresses of cells, action pointers are
\* null or point to an action, and live sockets were only touched in their own
\* name.
SockInv ==
    /\ server \in Seq(Addr)
    /\ heap \in [Addr -> Shape]
    /\ uid = Len(server)
    /\ NoCrossTalk

Pointers(acts) == 0..Len(acts)

QueueInv ==
    /\ action \in Seq([kind : Kinds, sid : SessionIds])
    /\ msgQueue \in [{0, 1} -> Seq(Pointers(action))]
    /\ currQueue \in {0, 1}
    /\ todo \in Seq(Pointers(action))

Inv == SockInv /\ QueueInv

LEMMA SeqMono ==
    ASSUME NEW S, NEW T, S \subseteq T, NEW q \in Seq(S)
    PROVE  q \in Seq(T)
  OBVIOUS

LEMMA SeqElement ==
    ASSUME NEW S, NEW q \in Seq(S), NEW n \in 1..Len(q)
    PROVE  q[n] \in S
  OBVIOUS

LEMMA IdsInRange ==
    ASSUME NEW u \in Nat, NEW n \in Nat
    PROVE  SessionId(u, n) \in SessionIds
<1>1. IndexSpace * UidSpace \in Nat /\ IndexSpace * UidSpace > 0
  BY ClientAssumption
<1>2. u * IndexSpace + n \in Nat
  BY ClientAssumption
<1> QED
  BY <1>1, <1>2 DEF SessionId, SessionIds

LEMMA IdsAreNumbers == SessionIds \subseteq Nat
<1>1. IndexSpace * UidSpace \in Nat
  BY ClientAssumption
<1> QED
  BY <1>1 DEF SessionIds

LEMMA InvInit == Init => Inv
<1> SUFFICES ASSUME Init PROVE Inv
  OBVIOUS
<1>0. 0 \in SessionIds
  <2>1. IndexSpace * UidSpace \in Nat /\ IndexSpace * UidSpace > 0
    BY ClientAssumption
  <2> QED
    BY <2>1 DEF SessionIds
<1>1. heap \in [Addr -> Shape]
  <2>1. 0 \in 0..MaxOut
    BY ClientAssumption
  <2>2. [NewSocket(0) EXCEPT !.live = FALSE] \in Shape
    BY <1>0, <2>1 DEF Shape, NewSocket
  <2> QED
    BY <2>2 DEF Init
<1>2. NoCrossTalk
  BY DEF Init, NoCrossTalk, NewSocket
<1>3. server \in Seq(Addr) /\ uid = Len(server)
  BY DEF Init
<1>4. SockInv
  BY <1>1, <1>2, <1>3 DEF SockInv
<1>5. QueueInv
  BY DEF Init, QueueInv
<1> QED
  BY <1>4, <1>5 DEF Inv

\* The step OnSession: if what it makes of each socket is a socket with the
\* same id, and adds to its history only the id that was looked up, then it
\* preserves the invariant's part about sockets.
LEMMA OnSessionSafe ==
    ASSUME SockInv,
           NEW sid \in SessionIds,
           NEW new \in [Addr -> Shape],
           \A a \in Addr : /\ new[a].id = heap[a].id
                           /\ new[a].from \subseteq heap[a].from \cup {sid},
           OnSession(sid, new)
    PROVE  heap' \in [Addr -> Shape] /\ NoCrossTalk'
<1>1. CASE heap' = heap
  BY <1>1 DEF SockInv, NoCrossTalk
<1>2. CASE heap' # heap
  <2>1. Index(sid) \in Nat
    BY ClientAssumption, IdsAreNumbers DEF Index
  <2>0. Len(server) \in Nat
    BY DEF SockInv
  <2>2. Index(sid) + 1 \in 1..Len(server)
    <3>1. ~(Index(sid) + 1 > Len(server))
      BY <1>2 DEF OnSession
    <3> QED
      BY <3>1, <2>0, <2>1
  <2> DEFINE a == server[Index(sid) + 1]
  <2>3. a \in Addr
    BY <2>2 DEF SockInv
  <2>4. heap' = [heap EXCEPT ![a] = new[a]] /\ heap[a].id = sid /\ heap[a].live
    BY <1>2, <2>1, <2>2 DEF OnSession
  <2>5. heap' \in [Addr -> Shape]
    BY <2>3, <2>4 DEF SockInv
  <2>6. \A b \in Addr : b # a => heap'[b] = heap[b]
    BY <2>4 DEF SockInv
  <2>7. heap'[a] = new[a]
    BY <2>3, <2>4 DEF SockInv
  <2>8. new[a].from \subseteq {new[a].id}
    BY <2>3, <2>4 DEF SockInv, NoCrossTalk
  <2> QED
    BY <2>5, <2>6, <2>7, <2>8 DEF NoCrossTalk, SockInv
<1> QED
  BY <1>1, <1>2

LEMMA SockQuiet ==
    ASSUME SockInv, UNCHANGED <<server, heap, uid>>
    PROVE  SockInv'
  BY DEF SockInv, NoCrossTalk

LEMMA QueueQuiet ==
    ASSUME QueueInv, UNCHANGED <<action, msgQueue, currQueue, todo>>
    PROVE  QueueInv'
  BY DEF QueueInv

LEMMA SockConnect ==
    ASSUME SockInv, NEW a \in Addr, Connect(a)
    PROVE  SockInv'
<1> DEFINE s == NewSocket(SessionId(uid + 1, Len(server)))
<1>0. Len(server) \in Nat /\ uid + 1 \in Nat
  BY DEF SockInv
<1>1. SessionId(uid + 1, Len(server)) \in SessionIds
  BY <1>0, IdsInRange
<1>2. s \in Shape /\ s.from = {}
  BY <1>1, ClientAssumption DEF NewSocket, Shape
<1>3. heap' = [heap EXCEPT ![a] = s]
  BY DEF Connect
<1> HIDE DEF s
<1>4. heap' \in [Addr -> Shape]
  BY <1>2, <1>3 DEF SockInv
<1>5. NoCrossTalk'
  BY <1>2, <1>3 DEF SockInv, NoCrossTalk
<1>6. server' \in Seq(Addr) /\ uid' = Len(server')
  BY DEF Connect, SockInv
<1> QED
  BY <1>4, <1>5, <1>6 DEF SockInv

LEMMA IssuedInRange == SockInv => Issued \subseteq SessionIds
<1> SUFFICES ASSUME SockInv, NEW n \in 1..Len(server)
             PROVE  SessionId(n, n - 1) \in SessionIds
  BY DEF Issued
<1>1. n \in Nat /\ n - 1 \in Nat
  BY DEF SockInv
<1> QED
  BY <1>1, IdsInRange

LEMMA QueueSubmit ==
    ASSUME SockInv, QueueInv, NEW k \in Kinds, NEW sid \in Issued, Submit(k, sid)
    PROVE  QueueInv'
<1>1. sid \in SessionIds
  BY IssuedInRange
<1>2. action' \in Seq([kind : Kinds, sid : SessionIds]) /\ Len(action') = Len(action) + 1
  BY <1>1 DEF Submit, QueueInv
<1>3. Len(action) \in Nat
  BY DEF QueueInv
<1>4. Pointers(action) \subseteq Pointers(action')
  BY <1>2, <1>3 DEF Pointers
<1>5. Len(action) + 1 \in Pointers(action')
  BY <1>2, <1>3 DEF Pointers
<1>6. \A i \in {0, 1} : msgQueue[i] \in Seq(Pointers(action'))
  BY <1>4, SeqMono DEF QueueInv
<1>7. msgQueue' \in [{0, 1} -> Seq(Pointers(action'))]
  <2>1. Append(msgQueue[currQueue], Len(action) + 1) \in Seq(Pointers(action'))
    BY <1>5, <1>6 DEF QueueInv
  <2> QED
    BY <1>6, <2>1 DEF Submit, PushMsg, QueueInv
<1>8. todo' \in Seq(Pointers(action'))
  BY <1>4, SeqMono DEF Submit, QueueInv
<1> QED
  BY <1>2, <1>7, <1>8 DEF Submit, QueueInv

LEMMA QueueCloseCall ==
    ASSUME QueueInv, NEW sid \in Issued, CloseCall(sid)
    PROVE  QueueInv'
<1>1. NullAction \in Pointers(action)
  BY DEF QueueInv, NullAction, Pointers
<1>2. Append(msgQueue[currQueue], NullAction) \in Seq(Pointers(action))
  BY <1>1 DEF QueueInv
<1>3. msgQueue' \in [{0, 1} -> Seq(Pointers(action))]
  BY <1>2 DEF CloseCall, PushMsg, QueueInv
<1> QED
  BY <1>3 DEF CloseCall, QueueInv

LEMMA SockSetHandler ==
    ASSUME SockInv, NEW sid \in Issued, NEW h \in Handlers, SetHandler(sid, h)
    PROVE  SockInv'
<1> DEFINE new == [a \in Addr |-> [heap[a] EXCEPT !.handler = h]]
<1>1. new \in [Addr -> Shape]
  BY DEF SockInv, Shape
<1>2. \A a \in Addr : new[a].id = heap[a].id /\ new[a].from = heap[a].from
  BY DEF SockInv, Shape
<1>3. OnSession(sid, new)
  BY DEF SetHandler
<1>4. sid \in SessionIds
  BY IssuedInRange
<1> HIDE DEF new
<1>5. heap' \in [Addr -> Shape] /\ NoCrossTalk'
  BY <1>1, <1>2, <1>3, <1>4, OnSessionSafe
<1> QED
  BY <1>5 DEF SetHandler, SockInv

LEMMA QueueFetch ==
    ASSUME QueueInv, OnRunCheck
    PROVE  QueueInv'
  BY DEF QueueInv, OnRunCheck

\* What an action may do to a socket: its session and its handler stay, its
\* history gets the id of the action, and unless it is a hard close it shuts
\* the socket down only when there is no output.
RunEffect(t, s, sid) ==
    /\ t.live = s.live /\ t.id = s.id /\ t.handler = s.handler
    /\ t.from = s.from \cup {sid}
    /\ t.shut /\ ~s.shut /\ ~RunsHardClose => t.out = 0

\* Running an action, TcpActionClose::run and TcpActionSend::run, is a look-up
\* with one of those effects.
LEMMA RunLooksUp ==
    ASSUME SockInv, QueueInv, RunAction, heap' # heap
    PROVE  \E sid \in SessionIds, new \in [Addr -> Shape] :
             /\ OnSession(sid, new)
             /\ \A a \in Addr : RunEffect(new[a], heap[a], sid)
<1> DEFINE act == action[Head(todo)]
           Do(s) == CASE act.kind = "close"     -> Close2(s)
                      [] act.kind = "pendClose" -> PendClose2(s)
                      [] act.kind = "send"      -> Send2(s)
           new == [a \in Addr |-> [Do(heap[a]) EXCEPT !.from = @ \cup {act.sid}]]
           Same(t, s) == /\ t.live = s.live /\ t.id = s.id
                         /\ t.handler = s.handler /\ t.from = s.from
<1>1. Head(todo) \in Pointers(action) /\ Head(todo) # NullAction
  BY DEF RunAction, QueueInv
<1>2. Head(todo) \in 1..Len(action)
  BY <1>1 DEF Pointers, NullAction, QueueInv
<1>3. act.sid \in SessionIds /\ act.kind \in Kinds
  <2>0. action \in Seq([kind : Kinds, sid : SessionIds])
    BY DEF QueueInv
  <2>1. act \in [kind : Kinds, sid : SessionIds]
    BY <1>2, <2>0, SeqElement
  <2> HIDE DEF act
  <2> QED
    BY <2>1
<1>4. act.kind \in {"close", "pendClose", "send"} /\ OnSession(act.sid, new)
  BY <1>1, <1>3 DEF RunAction, RunOn, Kinds
<1>5. ASSUME NEW s \in Shape
      PROVE  /\ Do(s) \in Shape /\ Same(Do(s), s)
             /\ act.kind # "close" /\ Do(s).shut /\ ~s.shut => Do(s).out = 0
  <2>1. Close2(s) \in Shape /\ Same(Close2(s), s)
    BY DEF Close2, Shape
  <2>2. /\ PendClose2(s) \in Shape /\ Same(PendClose2(s), s)
        /\ PendClose2(s).shut /\ ~s.shut => PendClose2(s).out = 0
    BY DEF PendClose2, Shape
  <2>3. /\ Send2(s) \in Shape /\ Same(Send2(s), s)
        /\ Send2(s).shut = s.shut
    <3>1. PICK o \in 0..MaxOut : Send2(s) = [s EXCEPT !.out = o]
      <4>1. s.out \in 0..MaxOut /\ (s.out < MaxOut => s.out + 1 \in 0..MaxOut)
        BY ClientAssumption DEF Shape
      <4> QED
        BY <4>1 DEF Send2
    <3> QED
      BY <3>1 DEF Shape
  <2>4. CASE act.kind = "close"
    BY <2>1, <2>4
  <2>5. CASE act.kind = "pendClose"
    BY <2>2, <2>5
  <2>6. CASE act.kind = "send"
    BY <2>3, <2>6
  <2> QED
    BY <1>4, <2>4, <2>5, <2>6
<1>6. ~RunsHardClose => act.kind # "close"
  BY <1>1 DEF RunsHardClose, RunAction
<1>7. ASSUME NEW a \in Addr
      PROVE  new[a] \in Shape /\ RunEffect(new[a], heap[a], act.sid)
  <2> DEFINE d == Do(heap[a])
  <2>1. /\ d \in Shape /\ Same(d, heap[a])
        /\ act.kind # "close" /\ d.shut /\ ~heap[a].shut => d.out = 0
    BY <1>5 DEF SockInv
  <2>2. new[a] = [d EXCEPT !.from = @ \cup {act.sid}]
    OBVIOUS
  <2> HIDE DEF d, new, act
  <2>3. /\ new[a] \in Shape
        /\ new[a].live = d.live /\ new[a].id = d.id /\ new[a].handler = d.handler
        /\ new[a].from = d.from \cup {act.sid}
        /\ new[a].shut = d.shut /\ new[a].out = d.out
    BY <1>3, <2>1, <2>2 DEF Shape
  <2> QED
    BY <1>6, <2>1, <2>3 DEF RunEffect
<1>8. new \in [Addr -> Shape]
  BY <1>7
<1> QED
  BY <1>3, <1>4, <1>7, <1>8

LEMMA SockRun ==
    ASSUME SockInv, QueueInv, RunAction
    PROVE  SockInv'
<1>1. CASE UNCHANGED heap
  BY <1>1, SockQuiet DEF RunAction
<1>2. CASE heap' # heap
  <2>1. PICK sid \in SessionIds, new \in [Addr -> Shape] :
          /\ OnSession(sid, new)
          /\ \A a \in Addr : RunEffect(new[a], heap[a], sid)
    BY <1>2, RunLooksUp
  <2>2. \A a \in Addr : /\ new[a].id = heap[a].id
                        /\ new[a].from \subseteq heap[a].from \cup {sid}
    BY <2>1 DEF RunEffect
  <2>3. heap' \in [Addr -> Shape] /\ NoCrossTalk'
    BY <2>1, <2>2, OnSessionSafe
  <2> QED
    BY <2>3 DEF RunAction, SockInv
<1> QED
  BY <1>1, <1>2

LEMMA QueueRun ==
    ASSUME QueueInv, RunAction
    PROVE  QueueInv'
  BY DEF QueueInv, RunAction, queueVars

\* libevent writes output, or the connection is lost: neither changes the id
\* or the history of a socket.
LEMMA SockEvent ==
    ASSUME SockInv, NEW a \in Addr, Drain(a) \/ Disconnect(a)
    PROVE  SockInv'
<1>1. PICK s \in Shape :
        /\ heap' = [heap EXCEPT ![a] = s]
        /\ s.id = heap[a].id /\ s.from = heap[a].from /\ heap[a].live
  <2>0. heap[a] \in Shape
    BY DEF SockInv
  <2>1. CASE Drain(a)
    <3> DEFINE o == heap[a].out - 1
               b == heap[a].shut \/ (heap[a].pendClose /\ heap[a].out = 1)
               s == [heap[a] EXCEPT !.out = o, !.shut = b]
    <3>1. heap' = [heap EXCEPT ![a] = s]
      BY <2>0, <2>1 DEF Drain, SockInv
    <3>2. o \in 0..MaxOut
      <4>1. heap[a].out \in 0..MaxOut
        BY <2>0 DEF Shape
      <4>2. heap[a].out > 0
        BY <2>1 DEF Drain
      <4> QED
        BY <4>1, <4>2, ClientAssumption
    <3>b. b \in BOOLEAN
      OBVIOUS
    <3> HIDE DEF o, b
    <3>3. s \in Shape /\ s.id = heap[a].id /\ s.from = heap[a].from
      BY <2>0, <3>2, <3>b DEF Shape
    <3>4. heap[a].live
      BY <2>1 DEF Drain
    <3> QED
      BY <3>1, <3>3, <3>4
  <2>2. CASE Disconnect(a)
    <3> DEFINE s == [heap[a] EXCEPT !.live = FALSE]
    <3>1. heap' = [heap EXCEPT ![a] = s] /\ heap[a].live
      BY <2>0, <2>2 DEF Disconnect, SockInv
    <3>2. s \in Shape /\ s.id = heap[a].id /\ s.from = heap[a].from
      BY <2>0 DEF Shape
    <3> QED
      BY <3>1, <3>2
  <2> QED
    BY <2>1, <2>2
<1>2. heap' \in [Addr -> Shape] /\ heap'[a] = s
  BY <1>1 DEF SockInv
<1>3. s.from \subseteq {s.id}
  BY <1>1 DEF SockInv, NoCrossTalk
<1>4. NoCrossTalk'
  BY <1>1, <1>2, <1>3 DEF SockInv, NoCrossTalk
<1>5. UNCHANGED <<server, uid>>
  BY DEF Drain, Disconnect
<1> QED
  BY <1>2, <1>4, <1>5 DEF SockInv

LEMMA InvStep ==
    ASSUME Inv, [Next]_vars
    PROVE  Inv'
<1> USE DEF Inv
<1>1. ASSUME NEW a \in Addr, Connect(a) PROVE Inv'
  BY <1>1, SockConnect, QueueQuiet DEF Connect, queueVars
<1>2. ASSUME NEW k \in Kinds, NEW sid \in Issued, Submit(k, sid) PROVE Inv'
  BY <1>2, SockQuiet, QueueSubmit DEF Submit, sockVars
<1>3. ASSUME NEW sid \in Issued, CloseCall(sid) PROVE Inv'
  BY <1>3, SockQuiet, QueueCloseCall DEF CloseCall, sockVars
<1>4. ASSUME NEW sid \in Issued, NEW h \in Handlers, SetHandler(sid, h) PROVE Inv'
  BY <1>4, SockSetHandler, QueueQuiet DEF SetHandler, queueVars
<1>5. CASE Stop \/ Loop \/ OnRunCheckStopped
  BY <1>5, SockQuiet, QueueQuiet DEF Stop, Loop, OnRunCheckStopped, sockVars, queueVars
<1>6. CASE OnRunCheck
  BY <1>6, SockQuiet, QueueFetch DEF OnRunCheck, sockVars
<1>7. CASE RunAction
  BY <1>7, SockRun, QueueRun
<1>8. ASSUME NEW a \in Addr, Drain(a) \/ Disconnect(a) PROVE Inv'
  BY <1>8, SockEvent, QueueQuiet DEF Drain, Disconnect, queueVars
<1>9. CASE UNCHANGED vars
  BY <1>9, SockQuiet, QueueQuiet DEF vars
<1> QED
  BY <1>1, <1>2, <1>3, <1>4, <1>5, <1>6, <1>7, <1>8, <1>9 DEF Next

\* No action reaches the socket of another session, however many connections
\* came and went, cells were used again, slots were shared and ids repeated.
THEOREM SessionsApart == Spec => []NoCrossTalk
<1>1. Inv => NoCrossTalk
  BY DEF Inv, SockInv
<1> QED
  BY <1>1, InvInit, InvStep, PTL DEF Spec

-----------------------------------------------------------------------------
(* A pending close waits for the output.                                    *)

\* OnSession changes at most the cell it looks up, and that to what new says.
LEMMA OnSessionChanges ==
    ASSUME SockInv, NEW sid \in SessionIds, NEW new, OnSession(sid, new)
    PROVE  \/ UNCHANGED heap
           \/ \E i \in 1..Len(server) :
                /\ i = Index(sid) + 1
                /\ server[i] \in Addr
                /\ heap[server[i]].live /\ heap[server[i]].id = sid
                /\ heap' = [heap EXCEPT ![server[i]] = new[server[i]]]
<1>1. Index(sid) \in Nat /\ Len(server) \in Nat
  BY ClientAssumption, IdsAreNumbers DEF Index, SockInv
<1> DEFINE i == Index(sid) + 1
<1>2. CASE i > Len(server)
  BY <1>2 DEF OnSession
<1>3. CASE ~(i > Len(server))
  <2>1. i \in 1..Len(server)
    BY <1>1, <1>3
  <2>2. server[i] \in Addr
    BY <2>1 DEF SockInv
  <2> QED
    BY <1>3, <2>1, <2>2 DEF OnSession
<1> QED
  BY <1>2, <1>3

\* close2 aside, a socket goes down only with an empty output buffer:
\* pendClose2 and _onClientWrite shut it down when nothing is left to write.
THEOREM NoOutputLost == Spec => PendCloseDrainsFirst
<1> DEFINE Drained ==
             \A a \in Addr :
               heap'[a].shut /\ ~heap[a].shut /\ ~RunsHardClose => heap'[a].out = 0
<1>1. Inv /\ [Next]_vars => [Drained]_vars
  <2> SUFFICES ASSUME SockInv, QueueInv, Next, heap' # heap
               PROVE  Drained
    BY DEF Inv
  <2>1. ASSUME NEW a \in Addr, Connect(a) PROVE Drained
    <3>1. heap' = [heap EXCEPT ![a] = NewSocket(SessionId(uid + 1, Len(server)))]
      BY <2>1 DEF Connect
    <3> QED
      BY <3>1 DEF NewSocket, SockInv
  <2>2. ASSUME NEW sid \in Issued, NEW h \in Handlers, SetHandler(sid, h) PROVE Drained
    <3> DEFINE new == [a \in Addr |-> [heap[a] EXCEPT !.handler = h]]
    <3>1. \A a \in Addr : new[a].shut = heap[a].shut
      BY DEF SockInv, Shape
    <3>2. OnSession(sid, new) /\ sid \in SessionIds
      BY <2>2, IssuedInRange DEF SetHandler
    <3> HIDE DEF new
    <3>3. PICK b \in Addr : heap' = [heap EXCEPT ![b] = new[b]]
      BY <3>2, OnSessionChanges
    <3>4. \A a \in Addr : heap'[a].shut = heap[a].shut
      BY <3>1, <3>3 DEF SockInv
    <3> QED
      BY <3>4
  <2>3. CASE RunAction
    <3>1. PICK sid \in SessionIds, new \in [Addr -> Shape] :
            /\ OnSession(sid, new)
            /\ \A a \in Addr : RunEffect(new[a], heap[a], sid)
      BY <2>3, RunLooksUp
    <3>2. PICK b \in Addr : heap' = [heap EXCEPT ![b] = new[b]]
      BY <3>1, OnSessionChanges
    <3> QED
      BY <3>1, <3>2 DEF RunEffect, SockInv
  <2>4. ASSUME NEW a \in Addr, Drain(a) PROVE Drained
    <3> DEFINE o == heap[a].out - 1
               c == heap[a].shut \/ (heap[a].pendClose /\ heap[a].out = 1)
               t == [heap[a] EXCEPT !.out = o, !.shut = c]
    <3>1. heap[a] \in Shape
      BY DEF SockInv
    <3>2. heap' = [heap EXCEPT ![a] = t]
      BY <3>1, <2>4 DEF Drain, SockInv
    <3>3. heap[a].out \in 0..MaxOut
      BY <3>1 DEF Shape
    <3>4. c /\ ~heap[a].shut => o = 0
      BY <3>3
    <3>5. t.shut = c /\ t.out = o
      BY <3>1 DEF Shape
    <3> HIDE DEF t, c, o
    <3>6. heap'[a] = t /\ \A b \in Addr : b # a => heap'[b] = heap[b]
      BY <3>2 DEF SockInv
    <3> QED
      BY <3>4, <3>5, <3>6
  <2>5. ASSUME NEW a \in Addr, Disconnect(a) PROVE Drained
    <3>1. \A b \in Addr : heap'[b].shut = heap[b].shut
      BY <2>5 DEF Disconnect, SockInv, Shape
    <3> QED
      BY <3>1
  <2>6. CASE \/ \E k \in Kinds, sid \in Issued : Submit(k, sid)
             \/ \E sid \in Issued : CloseCall(sid)
             \/ Stop \/ Loop \/ OnRunCheck \/ OnRunCheckStopped
    BY <2>6 DEF Submit, CloseCall, Stop, Loop, OnRunCheck, OnRunCheckStopped, sockVars
  <2> QED
    BY <2>1, <2>2, <2>3, <2>4, <2>5, <2>6 DEF Next
<1>2. Spec => [][Drained]_vars
  BY <1>1, InvInit, InvStep, PTL DEF Spec
<1> QED
  BY <1>2 DEF PendCloseDrainsFirst

-----------------------------------------------------------------------------
(* Types, and the handlers of live connections.                             *)

\* The flags, the histories and the state of the loop.
FlagTypes == running \in BOOLEAN /\ crashed \in BOOLEAN

RestTypes ==
    /\ loop \in {"before", "entered", "ended"}
    /\ ran \in [1..MaxActions -> 0..2]
    /\ destroyed \in SUBSET Handlers

LEMMA TypeParts ==
    ASSUME Inv, FlagTypes, RestTypes
    PROVE  TypeOK
  BY ShapeIsCell, Zenon DEF Inv, SockInv, QueueInv, Pointers, FlagTypes, RestTypes, TypeOK

LEMMA OnSessionFlag ==
    ASSUME NEW sid, NEW new, crashed \in BOOLEAN, OnSession(sid, new)
    PROVE  crashed' \in BOOLEAN
  BY Zenon DEF OnSession

LEMMA FlagStep ==
    ASSUME FlagTypes, [Next]_vars
    PROVE  FlagTypes'
<1> USE DEF FlagTypes
<1>1. CASE RunAction
  <2> DEFINE act == action[Head(todo)]
             Do(s) == CASE act.kind = "close"     -> Close2(s)
                        [] act.kind = "pendClose" -> PendClose2(s)
                        [] act.kind = "send"      -> Send2(s)
             new == [a \in Addr |-> [Do(heap[a]) EXCEPT !.from = @ \cup {act.sid}]]
  <2>0. UNCHANGED crashed \/ OnSession(act.sid, new)
    BY <1>1 DEF RunAction, RunOn
  <2> HIDE DEF new, act
  <2>1. crashed' \in BOOLEAN
    BY <2>0, OnSessionFlag
  <2> QED
    BY <1>1, <2>1, Zenon DEF RunAction, loopVars
<1>2. ASSUME NEW sid \in Issued, NEW h \in Handlers, SetHandler(sid, h)
      PROVE  FlagTypes'
  <2> DEFINE new == [a \in Addr |-> [heap[a] EXCEPT !.handler = h]]
  <2>0. OnSession(sid, new)
    BY <1>2 DEF SetHandler
  <2> HIDE DEF new
  <2>1. crashed' \in BOOLEAN
    BY <2>0, OnSessionFlag
  <2>2. UNCHANGED running
    BY <1>2 DEF SetHandler, loopVars
  <2> QED
    BY <2>1, <2>2, Zenon
<1>3. CASE Stop \/ Loop \/ OnRunCheck \/ OnRunCheckStopped \/ UNCHANGED vars
  BY <1>3, Zenon DEF Stop, Loop, OnRunCheck, OnRunCheckStopped, vars, loopVars
<1>4. ASSUME NEW a \in Addr, Connect(a) \/ Drain(a) \/ Disconnect(a)
      PROVE  FlagTypes'
  BY <1>4, Zenon DEF Connect, Drain, Disconnect, loopVars
<1>5. ASSUME NEW k \in Kinds, NEW sid \in Issued, Submit(k, sid)
      PROVE  FlagTypes'
  BY <1>5, Zenon DEF Submit, loopVars
<1>6. ASSUME NEW sid \in Issued, CloseCall(sid)
      PROVE  FlagTypes'
  BY <1>6, Zenon DEF CloseCall, loopVars
<1> QED
  BY <1>1, <1>2, <1>3, <1>4, <1>5, <1>6, Zenon DEF Next

\* Only handlers are destroyed, and the default one never.
LEMMA DestroyedStep ==
    ASSUME NEW h \in Handlers \cup {DefHandler}, destroyed \in SUBSET Handlers, Destroy(h)
    PROVE  destroyed' \in SUBSET Handlers
  BY DEF Destroy

LEMMA HandlerOfType ==
    ASSUME SockInv, NEW sid \in SessionIds
    PROVE  HandlerOf(sid) \in Handlers \cup {DefHandler}
<1>1. Index(sid) + 1 \in Nat /\ Index(sid) + 1 > 0 /\ Len(server) \in Nat
  BY ClientAssumption, IdsAreNumbers DEF Index, SockInv
<1>2. CASE Index(sid) + 1 <= Len(server)
  <2>1. server[Index(sid) + 1] \in Addr
    BY <1>1, <1>2 DEF SockInv
  <2>2. heap[server[Index(sid) + 1]].handler \in Handlers \cup {DefHandler}
    BY <2>1 DEF SockInv, Shape
  <2> QED
    BY <2>2 DEF HandlerOf
<1>3. CASE ~(Index(sid) + 1 <= Len(server))
  BY <1>3 DEF HandlerOf
<1> QED
  BY <1>2, <1>3

LEMMA RestStep ==
    ASSUME Inv, RestTypes, [Next]_vars
    PROVE  RestTypes'
<1> USE DEF RestTypes
<1>1. CASE RunAction
  BY <1>1 DEF RunAction, loopVars
<1>2. ASSUME NEW sid \in Issued, NEW h \in Handlers, SetHandler(sid, h)
      PROVE  RestTypes'
  <2>1. HandlerOf(sid) \in Handlers \cup {DefHandler}
    BY HandlerOfType, IssuedInRange DEF Inv
  <2>2. destroyed' \in SUBSET Handlers
    BY <1>2, <2>1, DestroyedStep DEF SetHandler
  <2> QED
    BY <1>2, <2>2 DEF SetHandler, loopVars
<1>3. ASSUME NEW a \in Addr, Disconnect(a) PROVE RestTypes'
  <2>1. heap[a].handler \in Handlers \cup {DefHandler}
    BY DEF Inv, SockInv, Shape
  <2>2. destroyed' \in SUBSET Handlers
    BY <1>3, <2>1, DestroyedStep DEF Disconnect
  <2> QED
    BY <1>3, <2>2 DEF Disconnect, loopVars
<1>4. CASE Stop \/ Loop \/ OnRunCheck \/ OnRunCheckStopped \/ UNCHANGED vars
  BY <1>4 DEF Stop, Loop, OnRunCheck, OnRunCheckStopped, vars, loopVars, sockVars
<1>5. ASSUME NEW a \in Addr, Connect(a) \/ Drain(a)
      PROVE  RestTypes'
  BY <1>5 DEF Connect, Drain, loopVars
<1>6. ASSUME NEW k \in Kinds, NEW sid \in Issued, Submit(k, sid)
      PROVE  RestTypes'
  BY <1>6 DEF Submit, loopVars, sockVars
<1>7. ASSUME NEW sid \in Issued, CloseCall(sid)
      PROVE  RestTypes'
  BY <1>7 DEF CloseCall, loopVars, sockVars
<1> QED
  BY <1>1, <1>2, <1>3, <1>4, <1>5, <1>6, <1>7 DEF Next

\* The variables of the client keep their types: every slot holds the address
\* of a cell and every queued pointer is null or that of an action.
THEOREM TypeCorrect == Spec => []TypeOK
<1>1. Init => FlagTypes
  BY Zenon DEF Init, FlagTypes
<1>2. Init => RestTypes
  BY DEF Init, RestTypes
<1>3. Inv /\ FlagTypes /\ RestTypes => TypeOK
  BY TypeParts
<1> QED
  BY <1>1, <1>2, <1>3, InvInit, InvStep, FlagStep, RestStep, PTL DEF Spec

\* connect() issues no session id twice.  (The ids of 2^20 connections differ
\* in their slot index alone; see UniqueIdsUpToIndexSpace.)
IdsUnique ==
    \A m, n \in 1..MaxConnects : SessionId(m, m - 1) = SessionId(n, n - 1) => m = n

\* A multiple of k that is smaller than k is 0.
LEMMA SmallMultiple ==
    ASSUME NEW k \in Nat \ {0}, NEW z \in Int, NEW d \in Int,
           d = k * z, d < k, -k < d
    PROVE  d = 0
<1>1. CASE z >= 1
  <2>1. k * z >= k * 1
    BY <1>1
  <2> QED
    BY <2>1
<1>2. CASE z <= -1
  <2>1. k * z <= k * (-1)
    BY <1>2
  <2> QED
    BY <2>1
<1>3. CASE z = 0
  BY <1>3
<1> QED
  BY <1>1, <1>2, <1>3

LEMMA DivMod ==
    ASSUME NEW x \in Nat, NEW k \in Nat, k > 0
    PROVE  x \div k \in Int /\ x = k * (x \div k) + (x % k)
  OBVIOUS

\* As long as there are no more connections than slot indices, ids are unique,
\* whatever is left for the unique number.
LEMMA UniqueIdsUpToIndexSpace == MaxConnects <= IndexSpace => IdsUnique
<1> SUFFICES ASSUME MaxConnects <= IndexSpace,
                    NEW m \in 1..MaxConnects, NEW n \in 1..MaxConnects,
                    SessionId(m, m - 1) = SessionId(n, n - 1)
             PROVE  m = n
  BY DEF IdsUnique
<1> DEFINE k == IndexSpace * UidSpace
           x == m * IndexSpace + (m - 1)
           y == n * IndexSpace + (n - 1)
<1>1. MaxConnects \in Nat /\ IndexSpace \in Nat \ {0} /\ UidSpace \in Nat \ {0}
  BY ClientAssumption
<1>2. m \in Int /\ n \in Int /\ m - n < IndexSpace /\ -IndexSpace < m - n
  BY <1>1
<1>3. k \in Nat /\ k > 0 /\ x \in Nat /\ y \in Nat
  BY <1>1
<1>4. x % k = y % k
  BY DEF SessionId
<1> HIDE DEF k, x, y
<1>5. PICK q \in Int : x - y = q * k
  <2>1. x = k * (x \div k) + (x % k) /\ x \div k \in Int
    BY <1>3, DivMod
  <2>2. y = k * (y \div k) + (y % k) /\ y \div k \in Int
    BY <1>3, DivMod
  <2>3. x - y = (x \div k - y \div k) * k
    BY <1>3, <1>4, <2>1, <2>2
  <2> QED
    BY <2>1, <2>2, <2>3
<1>6. x - y = (m - n) * IndexSpace + (m - n)
  BY <1>1, <1>2 DEF x, y
<1>7. m - n = IndexSpace * (q * UidSpace - (m - n))
  <2>1. q * k = IndexSpace * (q * UidSpace)
    BY <1>1, <1>5 DEF k
  <2>2. IndexSpace * (q * UidSpace - (m - n))
          = IndexSpace * (q * UidSpace) - IndexSpace * (m - n)
    BY <1>1, <1>2, <1>5
  <2> QED
    BY <1>1, <1>2, <1>5, <1>6, <2>1, <2>2
<1>8. q * UidSpace - (m - n) \in Int
  BY <1>1, <1>2, <1>5
<1>9. m - n = 0
  BY <1>1, <1>2, <1>7, <1>8, SmallMultiple
<1> QED
  BY <1>2, <1>9

\* The inductive invariant behind HandlersAlive: the ids of live sockets were
\* issued and are distinct, a handler of its own belongs to one live socket at
\* most, and what a deleted socket still points to has destroyed itself.
HandlerInv ==
    /\ Len(server) <= MaxConnects
    /\ DefHandler \notin destroyed
    /\ HandlersAlive
    /\ \A a \in Addr : heap[a].live => heap[a].id \in Issued
    /\ \A a, b \in Addr :
         heap[a].live /\ heap[b].live /\ heap[a].id = heap[b].id => a = b
    /\ \A a, b \in Addr :
         heap[a].live /\ heap[b].live /\ heap[a].handler = heap[b].handler
           => a = b \/ heap[a].handler = DefHandler
    /\ \A a \in Addr :
         ~heap[a].live => heap[a].handler \in destroyed \cup {DefHandler}

LEMMA HandlerInit == Init => HandlerInv
  BY ClientAssumption DEF Init, HandlerInv, HandlersAlive, NewSocket

\* Steps that leave the sessions and the handlers of all sockets alone.
LEMMA HandlerQuiet ==
    ASSUME HandlerInv, UNCHANGED <<server, destroyed>>,
           \A a \in Addr : /\ heap'[a].live = heap[a].live
                           /\ heap'[a].id = heap[a].id
                           /\ heap'[a].handler = heap[a].handler
    PROVE  HandlerInv'
  BY DEF HandlerInv, HandlersAlive, Issued

\* A new id is none of those issued before.
LEMMA FreshId ==
    ASSUME IdsUnique, server \in Seq(Addr), Len(server) < MaxConnects
    PROVE  SessionId(Len(server) + 1, Len(server)) \notin Issued
<1> SUFFICES ASSUME NEW n \in 1..Len(server),
                    SessionId(Len(server) + 1, Len(server)) = SessionId(n, n - 1)
             PROVE  FALSE
  BY DEF Issued
<1> DEFINE m == Len(server) + 1
<1>1. Len(server) \in Nat /\ MaxConnects \in Nat
  BY ClientAssumption
<1>2. m \in 1..MaxConnects /\ n \in 1..MaxConnects /\ m - 1 = Len(server) /\ m # n
  BY <1>1
<1>3. SessionId(m, m - 1) = SessionId(n, n - 1)
  BY <1>2
<1> QED
  BY <1>2, <1>3 DEF IdsUnique

LEMMA HandlerConnect ==
    ASSUME IdsUnique, SockInv, HandlerInv, NEW a \in Addr, Connect(a)
    PROVE  HandlerInv'
<1> DEFINE sid == SessionId(Len(server) + 1, Len(server))
           s == NewSocket(sid)
<1>1. heap' = [heap EXCEPT ![a] = s] /\ ~heap[a].live /\ UNCHANGED destroyed
  BY DEF Connect, SockInv
<1>2. server' = Append(server, a) /\ Len(server) < MaxConnects
  BY DEF Connect
<1>3. sid \notin Issued
  BY <1>2, FreshId DEF SockInv
<1>4. s.live /\ s.id = sid /\ s.handler = DefHandler
  BY DEF NewSocket
<1>5. Issued' = Issued \cup {sid}
  <2>1. Len(server) \in Nat /\ Len(server') = Len(server) + 1
    BY <1>2 DEF SockInv
  <2>2. 1..Len(server') = (1..Len(server)) \cup {Len(server) + 1}
    BY <2>1
  <2>3. Len(server) + 1 - 1 = Len(server)
    BY <2>1
  <2> QED
    BY <2>2, <2>3 DEF Issued
<1>6. Len(server') <= MaxConnects
  BY <1>2, ClientAssumption DEF SockInv
<1> HIDE DEF s, sid
<1>7. heap'[a] = s /\ \A b \in Addr : b # a => heap'[b] = heap[b]
  BY <1>1 DEF SockInv
<1> QED
  BY <1>1, <1>3, <1>4, <1>5, <1>6, <1>7 DEF HandlerInv, HandlersAlive

LEMMA HandlerSet ==
    ASSUME SockInv, HandlerInv, NEW sid \in Issued, NEW h \in Handlers, SetHandler(sid, h)
    PROVE  HandlerInv'
<1> DEFINE new == [a \in Addr |-> [heap[a] EXCEPT !.handler = h]]
           i == Index(sid) + 1
<1>1. \A a \in Addr : /\ new[a].live = heap[a].live /\ new[a].id = heap[a].id
                      /\ new[a].handler = h
  BY DEF SockInv, Shape
<1>2. OnSession(sid, new) /\ sid \in SessionIds /\ UNCHANGED server /\ h \notin destroyed
  BY IssuedInRange DEF SetHandler
<1>3. UNCHANGED Issued
  BY <1>2 DEF Issued
<1> HIDE DEF new
<1>i. i \in Nat /\ i > 0 /\ Len(server) \in Nat
  BY <1>2, ClientAssumption, IdsAreNumbers DEF Index, SockInv
<1>4. CASE /\ i <= Len(server) /\ heap[server[i]].live /\ heap[server[i]].id = sid
  <2> DEFINE c == server[i]
             old == heap[c].handler
  <2>1. c \in Addr
    BY <1>4, <1>i DEF SockInv
  <2>2. heap' = [heap EXCEPT ![c] = new[c]]
    BY <1>2, <1>4, <1>i DEF OnSession
  <2>3. HandlerOf(sid) = old
    BY <1>4 DEF HandlerOf
  <2>4. destroyed' = IF old # h THEN destroyed \cup ({old} \ {DefHandler}) ELSE destroyed
    BY <2>3 DEF SetHandler, Destroy
  <2>5. \A b \in Addr : heap[b].handler = h => heap[b].id = sid
    BY DEF SetHandler
  <2>l. heap[c].live /\ heap[c].id = sid
    BY <1>4
  <2> HIDE DEF c
  <2>6. \A b \in Addr : b # c => heap'[b] = heap[b]
    BY <2>2 DEF SockInv
  <2>7. heap'[c].live /\ heap'[c].id = sid /\ heap'[c].handler = h
    BY <1>1, <2>1, <2>2, <2>l DEF SockInv
  <2>8. \A b \in Addr : b # c /\ heap[b].handler = h => h = DefHandler
    BY <1>2, <2>1, <2>5, <2>l DEF HandlerInv
  <2>9. \A b \in Addr : b # c /\ heap[b].live /\ heap[b].handler = old => old = DefHandler
    BY <2>1, <2>l DEF HandlerInv
  <2> HIDE DEF old
  <2>10. destroyed \subseteq destroyed' /\ destroyed' \subseteq destroyed \cup {old}
    BY <2>4
  <2>11. DefHandler \notin destroyed' /\ h \notin destroyed'
    BY <1>2, <2>4 DEF HandlerInv
  <2>12. ASSUME NEW b \in Addr, b # c, heap[b].live
         PROVE  heap[b].handler \notin destroyed'
    BY <2>9, <2>10, <2>11, <2>12 DEF HandlerInv, HandlersAlive
  <2>13. HandlersAlive'
    BY <2>6, <2>7, <2>11, <2>12 DEF HandlersAlive
  <2>14. ASSUME NEW a \in Addr, NEW b \in Addr, heap'[a].live, heap'[b].live
         PROVE  /\ heap'[a].id = heap'[b].id => a = b
                /\ heap'[a].handler = heap'[b].handler
                     => a = b \/ heap'[a].handler = DefHandler
    <3>1. heap'[a].id = heap[a].id /\ heap'[b].id = heap[b].id /\ heap[a].live /\ heap[b].live
      BY <2>6, <2>7, <2>14, <2>l
    <3>2. heap'[a].id = heap'[b].id => a = b
      BY <3>1 DEF HandlerInv
    <3>3. heap'[a].handler = heap'[b].handler => a = b \/ heap'[a].handler = DefHandler
      BY <2>6, <2>7, <2>8, <3>1 DEF HandlerInv
    <3> QED
      BY <3>2, <3>3
  <2>15. \A b \in Addr : heap'[b].live => heap'[b].id \in Issued
    BY <2>6, <2>7 DEF HandlerInv
  <2>16. \A b \in Addr : ~heap'[b].live => heap'[b].handler \in destroyed' \cup {DefHandler}
    BY <2>6, <2>7, <2>10 DEF HandlerInv
  <2> QED
    BY <1>2, <1>3, <2>11, <2>13, <2>14, <2>15, <2>16 DEF HandlerInv
<1>5. CASE ~(i <= Len(server) /\ heap[server[i]].live /\ heap[server[i]].id = sid)
  <2>1. UNCHANGED heap
    <3>1. CASE i > Len(server)
      BY <1>2, <3>1 DEF OnSession
    <3>2. CASE ~(i > Len(server)) /\ ~heap[server[i]].live
      BY <1>2, <3>2 DEF OnSession
    <3>3. CASE ~(i > Len(server)) /\ heap[server[i]].id # sid
      BY <1>2, <3>3 DEF OnSession
    <3> QED
      BY <1>5, <1>i, <3>1, <3>2, <3>3
  <2>2. HandlerOf(sid) = DefHandler
    BY <1>5 DEF HandlerOf
  <2>3. UNCHANGED destroyed
    BY <2>2 DEF SetHandler, Destroy
  <2> QED
    BY <1>2, <2>1, <2>3, HandlerQuiet
<1> QED
  BY <1>4, <1>5

LEMMA HandlerDisconnect ==
    ASSUME SockInv, HandlerInv, NEW c \in Addr, Disconnect(c)
    PROVE  HandlerInv'
<1> DEFINE old == heap[c].handler
<1>1. \A b \in Addr : b # c => heap'[b] = heap[b]
  BY DEF Disconnect, SockInv
<1>2. ~heap'[c].live /\ heap'[c].handler = old /\ heap[c].live
  BY DEF Disconnect, SockInv, Shape
<1>3. destroyed' = destroyed \cup ({old} \ {DefHandler}) /\ UNCHANGED server
  BY DEF Disconnect, Destroy
<1>4. \A b \in Addr : b # c /\ heap[b].live /\ heap[b].handler = old => old = DefHandler
  BY <1>2 DEF HandlerInv
<1>5. UNCHANGED Issued
  BY <1>3 DEF Issued
<1> HIDE DEF old
<1>6. HandlersAlive' /\ DefHandler \notin destroyed'
  BY <1>1, <1>2, <1>3, <1>4 DEF HandlersAlive, HandlerInv
<1> QED
  BY <1>1, <1>2, <1>3, <1>5, <1>6 DEF HandlerInv

LEMMA HandlerStep ==
    ASSUME IdsUnique, Inv, HandlerInv, [Next]_vars
    PROVE  HandlerInv'
<1> USE DEF Inv
<1>1. ASSUME NEW a \in Addr, Connect(a) PROVE HandlerInv'
  BY <1>1, HandlerConnect
<1>2. ASSUME NEW sid \in Issued, NEW h \in Handlers, SetHandler(sid, h) PROVE HandlerInv'
  BY <1>2, HandlerSet
<1>3. ASSUME NEW a \in Addr, Disconnect(a) PROVE HandlerInv'
  BY <1>3, HandlerDisconnect
<1>4. ASSUME NEW a \in Addr, Drain(a) PROVE HandlerInv'
  <2>1. \A b \in Addr : /\ heap'[b].live = heap[b].live
                        /\ heap'[b].id = heap[b].id
                        /\ heap'[b].handler = heap[b].handler
    BY <1>4 DEF Drain, SockInv, Shape
  <2> QED
    BY <1>4, <2>1, HandlerQuiet DEF Drain
<1>5. CASE RunAction
  <2>1. CASE UNCHANGED heap
    BY <1>5, <2>1, HandlerQuiet DEF RunAction
  <2>2. CASE heap' # heap
    <3>1. PICK sid \in SessionIds, new \in [Addr -> Shape] :
            /\ OnSession(sid, new)
            /\ \A a \in Addr : RunEffect(new[a], heap[a], sid)
      BY <1>5, <2>2, RunLooksUp
    <3>2. PICK b \in Addr : heap' = [heap EXCEPT ![b] = new[b]]
      BY <2>2, <3>1, OnSessionChanges
    <3>3. \A a \in Addr : /\ heap'[a].live = heap[a].live
                          /\ heap'[a].id = heap[a].id
                          /\ heap'[a].handler = heap[a].handler
      BY <3>1, <3>2 DEF RunEffect, SockInv
    <3> QED
      BY <1>5, <3>3, HandlerQuiet DEF RunAction
  <2> QED
    BY <2>1, <2>2
<1>6. CASE \/ \E k \in Kinds, sid \in Issued : Submit(k, sid)
           \/ \E sid \in Issued : CloseCall(sid)
           \/ Stop \/ Loop \/ OnRunCheck \/ OnRunCheckStopped \/ UNCHANGED vars
  BY <1>6, HandlerQuiet
  DEF Submit, CloseCall, Stop, Loop, OnRunCheck, OnRunCheckStopped, sockVars, vars
<1> QED
  BY <1>1, <1>2, <1>3, <1>4, <1>5, <1>6 DEF Next

\* As long as connect() repeats no session id, the state of the class keeps
\* its types and no live connection has a handler that destroyed itself, in
\* whatever order handlers are set and connections lost.
THEOREM SocketsAreSound ==
    ASSUME IdsUnique
    PROVE  Spec => []SocketsSound
<1>1. Inv /\ HandlerInv /\ [Next]_vars => HandlerInv'
  BY HandlerStep
<1>2. Spec => []HandlerInv
  BY <1>1, HandlerInit, InvInit, InvStep, PTL DEF Spec
<1>3. TypeOK /\ HandlerInv => SocketsSound
  BY DEF HandlerInv, SocketsSound
<1> QED
  BY <1>2, <1>3, TypeCorrect, PTL
=============================================================================
