------------------------------ MODULE ClientNet ------------------------------
(***************************************************************************)
(* TcpNetWork::ClientNet (CocTest/Classes/TcpNetwork/ClientNet.cpp and .h): *)
(* one blocking-connect, non-blocking-read TCP connection whose byte stream *)
(* runRecvMsg cuts into packets, in a receive buffer of fixed size.         *)
(*                                                                          *)
(* A byte is known by the connection it came over, the packet it belongs to *)
(* and its position there; that, and the length of its packet, is all the   *)
(* framing depends on.  Lengths are in bytes; HeaderLen, InMax and SizeMod  *)
(* are 6, 10*1024 and 2^16 in the code.                                     *)
(*                                                                          *)
(* The server and the kernel are the environment: the server writes whole   *)
(* packets no longer than MAX_MESSAGE_SIZE, and a read returns any part of  *)
(* what has arrived.  The client is one thread.                             *)
(***************************************************************************)
EXTENDS Naturals, Sequences

CONSTANTS HeaderLen,   \* sizeof(PktHdr)
          InMax,       \* sizeof(m_InputBuff)
          SizeMod,     \* nPacketSize is a UInt16
          Sizes,       \* bound: lengths of the packets the server sends,
                       \* header included
          MaxPackets,  \* bound: packets sent on one connection
          MaxConnects  \* bound: connections made

ASSUME NetAssumption ==
    /\ {HeaderLen, InMax, SizeMod} \subseteq Nat \ {0}
    /\ InMax < SizeMod
    /\ Sizes \subseteq HeaderLen..InMax
    /\ {MaxPackets, MaxConnects} \subseteq Nat

VARIABLES socket,    \* m_tcpsocket: "null", "open", or "fatal" after a null
                     \* pointer was used
          inBuf,     \* m_InputBuff[0 .. m_nInbufLen - 1]
          dataBuf,   \* what was last copied to m_cbDataBuf
          pc,        \* runRecvMsg: "idle" (not called), "read" or "frame"
          wire,      \* bytes sent by the server and not read yet
          conn,      \* number of the connection
          sent,      \* history: packets the server sent on this connection
          framed,    \* history: packets cut out on this connection
          spliced    \* history: a connection was replaced while bytes of it
                     \* were in the buffer

bufVars == <<inBuf, dataBuf>>
netVars == <<wire, conn, sent>>
cnVars == <<socket, inBuf, dataBuf, pc, wire, conn, sent, framed, spliced>>

Byte == [conn : 1..MaxConnects, pkt : 1..MaxPackets, pos : 1..InMax, len : Sizes]

\* The bytes of packet p, of length n, on connection c.
Bytes(c, p, n) == [k \in 1..n |-> [conn |-> c, pkt |-> p, pos |-> k, len |-> n]]

NetTypeOK ==
    /\ socket \in {"null", "open", "fatal"}
    /\ inBuf \in Seq(Byte) /\ Len(inBuf) <= InMax
    /\ dataBuf \in Seq(Byte)
    /\ pc \in {"idle", "read", "frame"}
    /\ wire \in Seq(Byte)
    /\ conn \in 0..MaxConnects
    /\ sent \in 0..MaxPackets
    /\ framed \in Nat
    /\ spliced \in BOOLEAN

NetInit ==
    /\ socket = "null"
    /\ inBuf = <<>>
    /\ dataBuf = <<>>
    /\ pc = "idle"
    /\ wire = <<>>
    /\ conn = 0
    /\ sent = 0
    /\ framed = 0
    /\ spliced = FALSE

-----------------------------------------------------------------------------
(* The environment.                                                         *)

ServerSend(n) ==
    /\ socket = "open"
    /\ sent < MaxPackets
    /\ sent' = sent + 1
    /\ wire' = wire \o Bytes(conn, sent + 1, n)
    /\ UNCHANGED <<socket, bufVars, pc, conn, framed, spliced>>

-----------------------------------------------------------------------------
(* connect                                                                  *)

\* connect with a usable address.  The old socket is deleted, with what has
\* arrived on it; the receive buffer is left as it is.
\*   "ready"    the connection is made
\*   "unready"  select fails or times out: false is returned, but closeSocket
\*              does nothing and the new socket stays, and may still connect
\*   "refused"  the new socket is deleted
\*   "none"     the system has no socket: it is deleted and then used
Connect(outcome) ==
    /\ pc = "idle" /\ socket # "fatal"
    /\ conn < MaxConnects
    /\ conn' = conn + 1
    /\ socket' = CASE outcome \in {"ready", "unready"} -> "open"
                   [] outcome = "refused"              -> "null"
                   [] outcome = "none"                 -> "fatal"
    /\ wire' = <<>>
    /\ sent' = 0
    /\ framed' = 0
    /\ spliced' = (spliced \/ inBuf # <<>>)
    /\ UNCHANGED <<bufVars, pc>>

-----------------------------------------------------------------------------
(* runRecvMsg                                                               *)

\* The call, past its test for a socket.
RunRecvMsg ==
    /\ pc = "idle"
    /\ socket = "open"
    /\ pc' = "read"
    /\ UNCHANGED <<socket, bufVars, netVars, framed, spliced>>

\* read() returns some bytes, as many as there is room for at most ...
ReadSome ==
    /\ pc = "read"
    /\ \E n \in 1..Len(wire) :
         /\ n <= InMax - Len(inBuf)
         /\ inBuf' = inBuf \o SubSeq(wire, 1, n)
         /\ wire' = SubSeq(wire, n + 1, Len(wire))
    /\ pc' = "frame"
    /\ UNCHANGED <<socket, dataBuf, conn, sent, framed, spliced>>

\* ... or none: the rest is still under way, the peer has closed, or the
\* buffer is full and read() was asked for 0 bytes.  Whatever lastErr() says,
\* the loop is left.
ReadNone ==
    /\ pc = "read"
    /\ pc' = "idle"
    /\ UNCHANGED <<socket, bufVars, netVars, framed, spliced>>

\* Is the buffer's front the header of a packet?
AtHeader ==
    /\ Len(inBuf) >= HeaderLen
    /\ SubSeq(inBuf, 1, HeaderLen)
         = SubSeq(Bytes(inBuf[1].conn, inBuf[1].pkt, inBuf[1].len), 1, HeaderLen)

\* nPacketSize: the size field, cut to 16 bits.  What is read where no header
\* starts can be any number.
PacketSizes ==
    IF AtHeader THEN {inBuf[1].len % SizeMod} ELSE 0..(SizeMod - 1)

\* Mutant: "<=" in place of "<" in the test for a whole packet.
TakesPacketLate(size) == Len(inBuf) >= HeaderLen /\ Len(inBuf) > size

\* The two tests of the inner loop: a header, and a whole packet.
TakesPacket(size) == Len(inBuf) >= HeaderLen /\ Len(inBuf) >= size

\* Mutant: "if" in place of "while": one packet per read.
FrameOneOnly ==
    /\ pc = "frame"
    /\ \E size \in PacketSizes :
         /\ TakesPacket(size)
         /\ dataBuf' = SubSeq(inBuf, 1, size)
         /\ inBuf' = SubSeq(inBuf, size + 1, Len(inBuf))
         /\ framed' = IF framed < MaxPackets THEN framed + 1 ELSE framed
    /\ pc' = "read"
    /\ UNCHANGED <<socket, netVars, spliced>>

\* A packet is copied to the start of m_cbDataBuf and moved out of the
\* receive buffer.  (A size of 0 moves nothing: the inner loop never ends.)
Frame ==
    /\ pc = "frame"
    /\ \E size \in PacketSizes :
         /\ TakesPacket(size)
         /\ dataBuf' = IF size = 0 THEN dataBuf ELSE SubSeq(inBuf, 1, size)
         /\ inBuf' = SubSeq(inBuf, size + 1, Len(inBuf))
         /\ framed' = IF size = 0 \/ framed = MaxPackets THEN framed ELSE framed + 1
    /\ UNCHANGED <<socket, pc, netVars, spliced>>

\* The inner loop is left, and the outer one reads again.
FrameEnd ==
    /\ pc = "frame"
    /\ \E size \in PacketSizes : ~TakesPacket(size)
    /\ pc' = "read"
    /\ UNCHANGED <<socket, bufVars, netVars, framed, spliced>>

NetNext ==
    \/ \E n \in Sizes : ServerSend(n)
    \/ \E o \in {"ready", "unready", "refused", "none"} : Connect(o)
    \/ RunRecvMsg
    \/ ReadSome
    \/ ReadNone
    \/ Frame
    \/ FrameEnd

NetSpec == NetInit /\ [][NetNext]_cnVars

(***************************************************************************)
(* Fairness: a call of runRecvMsg goes on to its end, and what is on the    *)
(* wire arrives, so that not every read that has room comes back empty.     *)
(* Who calls runRecvMsg, and how often, is for the property to say.         *)
(***************************************************************************)
NetFair ==
    /\ WF_cnVars(ReadNone) /\ SF_cnVars(ReadSome)
    /\ WF_cnVars(Frame \/ FrameEnd)

-----------------------------------------------------------------------------
\* What m_cbDataBuf holds is one packet, from its header to its end, and it
\* is the next one of its connection.
WholePacket ==
    framed > 0 => /\ dataBuf # <<>>
                  /\ dataBuf = Bytes(conn, framed, dataBuf[1].len)

\* Whatever parts the stream arrives in and however packets and reads
\* overlap, runRecvMsg cuts it exactly where the packets end, and skips and
\* repeats none, as long as no connection is replaced in the middle of a
\* packet.
FramesWhole == ~spliced => WholePacket

\* When runRecvMsg returns, no complete packet is left behind in the buffer
\* for a later call, which only looks at the buffer after new bytes came.
NothingLeftBehind ==
    pc = "idle" /\ ~spliced /\ Len(inBuf) >= HeaderLen => Len(inBuf) < inBuf[1].len

\* Packets are cut out where they begin and end, as soon as they are there.
FramingExact == FramesWhole /\ NothingLeftBehind

\* A packet that was sent is cut out, if runRecvMsg is called again and
\* again: the buffer never fills up with a part of a packet.
EveryPacketFramed ==
    []<><<RunRecvMsg>>_cnVars =>
      \A c \in 1..MaxConnects, n \in 1..MaxPackets :
        (conn = c /\ sent >= n) ~> (framed >= n \/ conn # c \/ spliced)

-----------------------------------------------------------------------------
\* ClientNet.h calls m_nInbufLen the length of the valid data in the receive
\* buffer, and runRecvMsg takes that many bytes for the stream of its
\* connection: what it cuts out is a whole packet, always.
FramesAlwaysWhole == WholePacket
=============================================================================
