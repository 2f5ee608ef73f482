---------------------------- MODULE Bufferevent -----------------------------
(***************************************************************************)
(* A connected socket bufferevent of libevent (event/bufferevent.c and       *)
(* bufferevent_sock.c) on top of two evbuffers.  The application may only    *)
(* take from the input (its end is frozen but for the read in readcb) and    *)
(* only add to the output (its start is frozen but for the write in          *)
(* writecb); a frozen end makes the call return -1 before it does anything.  *)
(* Its own callbacks run last in readcb and writecb, so what they do is what *)
(* the application may do at any time.                                       *)
(*                                                                           *)
(* Not here: connecting (TcpClient.tla), timeouts, rate limits, deferred     *)
(* callbacks and the suspension during a DNS lookup.                         *)
(***************************************************************************)
EXTENDS Evbuffer

CONSTANTS MaxRead,   \* EVBUFFER_MAX_READ, and the most the socket has at once
          MaxChunk,  \* bound: the bytes of one call of the application
          MaxBytes,  \* bound: the bytes in the two buffers
          Marks,     \* the high watermarks the application sets; 0 is none
          Careful    \* does the application keep away from what evbuffers with
                     \* empty chains at their end cannot do?

ASSUME BuffereventAssumption ==
    /\ MaxRead \in Nat \ {0} /\ MaxChunk \in Nat \ {0} /\ MaxBytes \in Nat
    /\ Marks \subseteq Nat
    /\ Careful \in BOOLEAN

VARIABLES input, output,  \* the buffers
          enabled,        \* what the application wants: "r", "w"
          armed,          \* the events that are pending: "r", "w"
          suspended,      \* BEV_SUSPEND_WM of read_suspended
          high,           \* wm_read.high
          received, sent  \* reference: the bytes the buffers should hold

bevVars == <<input, output, enabled, armed, suspended, high, received, sent>>

\* The bytes in the buffers are told apart: a new one is one that is in
\* neither.
Byte == 1..MaxBytes
Unused == Byte \ (Range(received) \cup Range(sent))
HasRoom(n) == n <= Cardinality(Unused)
Fresh(n) == CHOOSE d \in [1..n -> Unused] : IsInjective(d)

BevInit ==
    /\ input = EmptyBuffer /\ output = EmptyBuffer
    /\ enabled = {"w"} /\ armed = {}
    /\ suspended = FALSE
    /\ high = 0
    /\ received = <<>> /\ sent = <<>>

-----------------------------------------------------------------------------
(* Suspending, and the callbacks on the buffers.                             *)

Suspended(a) == IF suspended THEN a ELSE a \ {"r"}

Resumed(e, a) == IF "r" \in e THEN a \cup {"r"} ELSE a

\* bufferevent_inbuf_wm_cb, on the input while it has a high mark ...
Told(in) == high # 0 /\ (in.add # 0 \/ in.del # 0)
InbufWm(in, a) ==
    IF ~Told(in) THEN a
    ELSE IF in.total >= high THEN Suspended(a) ELSE Resumed(enabled, a)

\* ... and bufferevent_socket_outbuf_cb, on the output.
Outbuf(out, a) == IF out.add # 0 /\ "w" \in enabled THEN a \cup {"w"} ELSE a

\* evbuffer_invoke_callbacks of both buffers: the counts start again at 0.
Quiet(b) == [b EXCEPT !.add = 0, !.del = 0]
Invoke(in, out) ==
    /\ input' = Quiet(in)
    /\ output' = Quiet(out)
    /\ suspended' = IF Told(in) THEN in.total >= high ELSE suspended
    /\ armed' = Outbuf(out, InbufWm(in, armed))

-----------------------------------------------------------------------------
(* The application.                                                          *)

\* last_with_datap as evbuffer-internal.h describes it.
LastWithData(b) ==
    LET full == {i \in DOMAIN b.chains : Off(b.chains[i]) # 0}
    IN IF full = {} THEN 1 ELSE Max(full)

\* evbuffer_add writes into the last chain even when that is not the one behind
\* last_with_datap: a careful application does not add to such a buffer.
Addable(b) == Careful => Len(b.chains) <= b.lwd + 1

\* bufferevent_write
Write(n) ==
    /\ HasRoom(n)
    /\ Addable(output)
    /\ Invoke(input, EvbufferAdd(output, Fresh(n)))
    /\ sent' = sent \o Fresh(n)
    /\ UNCHANGED <<enabled, high, received>>

WriteReference(n) ==
    /\ HasRoom(n)
    /\ Invoke(input, EvbufferAddReference(output, Fresh(n)))
    /\ sent' = sent \o Fresh(n)
    /\ UNCHANGED <<enabled, high, received>>

\* evbuffer_reserve_space and evbuffer_commit_space on the output; the commit
\* may be refused.
WriteReserved(n) ==
    LET after == ReserveCommit(output, Fresh(n)) IN
    /\ HasRoom(n)
    /\ Invoke(input, after)
    /\ sent' = IF after.add = 0 THEN sent ELSE sent \o Fresh(n)
    /\ Careful => output.lwd = LastWithData(output)
    /\ UNCHANGED <<enabled, high, received>>

\* bufferevent_read, or evbuffer_drain of the input.
Read(n) ==
    /\ input.total > 0
    /\ Invoke(EvbufferDrain(input, n), output)
    /\ received' = Rest(received, n)
    /\ UNCHANGED <<enabled, high, sent>>

\* evbuffer_prepend to the input: the application puts data back.
Unread(n) ==
    /\ HasRoom(n)
    /\ Invoke(EvbufferPrepend(input, Fresh(n)), output)
    /\ received' = Fresh(n) \o received
    /\ UNCHANGED <<enabled, high, sent>>

\* evbuffer_pullup of the input; it calls nobody back.
Pullup(n) ==
    /\ n <= input.total
    /\ Off(input.chains[1]) < n
    /\ input' = EvbufferPullup(input, n)
    /\ UNCHANGED <<output, enabled, armed, suspended, high, received, sent>>

\* evbuffer_add_buffer, or evbuffer_remove_buffer of all there is.
Echo ==
    /\ input.total > 0
    /\ Invoke(Emptied(input), AddBuffer(output, input))
    /\ received' = <<>>
    /\ sent' = sent \o received
    /\ UNCHANGED <<enabled, high>>

Forward(n) ==
    /\ n < input.total
    /\ Addable(output)
    /\ Invoke(RemovedFrom(input, n), RemoveBuffer(input, output, n))
    /\ received' = Rest(received, n)
    /\ sent' = sent \o First(received, n)
    /\ UNCHANGED <<enabled, high>>

\* Mutant: without a mark the suspension is left to the next read.
SetWatermarkNotLifted(h) ==
    /\ high' = h
    /\ suspended' = IF h = 0 \/ input.total = h THEN suspended ELSE input.total > h
    /\ armed' = IF h = 0 \/ input.total = h THEN armed
                ELSE IF input.total > h THEN Suspended(armed)
                ELSE Resumed(enabled, armed)
    /\ UNCHANGED <<input, output, enabled, received, sent>>

\* bufferevent_setwatermark for reading; nothing is done about an input of
\* exactly the new mark.
SetWatermark(h) ==
    /\ high' = h
    /\ suspended' = IF h # 0 /\ input.total > h THEN TRUE
                    ELSE IF h # 0 /\ input.total = h THEN suspended
                    ELSE FALSE
    /\ armed' = IF h # 0 /\ input.total > h THEN Suspended(armed)
                ELSE IF h # 0 /\ input.total = h THEN armed
                ELSE Resumed(enabled, armed)
    /\ UNCHANGED <<input, output, enabled, received, sent>>

\* bufferevent_enable
Enable(what) ==
    /\ enabled' = enabled \cup {what}
    /\ armed' = armed \cup ({what} \ (IF suspended THEN {"r"} ELSE {}))
    /\ UNCHANGED <<input, output, suspended, high, received, sent>>

\* bufferevent_disable, by the application or after an error.
Disable(what) ==
    /\ enabled' = enabled \ {what}
    /\ armed' = armed \ {what}

AppDisable(what) ==
    /\ Disable(what)
    /\ UNCHANGED <<input, output, suspended, high, received, sent>>

-----------------------------------------------------------------------------
(* The loop.                                                                 *)

\* How much readcb wants, when the socket says it has n bytes.
Wanted(n) == IF high = 0 THEN n ELSE Min({high - input.total, n})
AtMark == high # 0 /\ input.total >= high

\* bufferevent_readcb: n bytes are there ...
ReadcbData(n) ==
    LET k == Wanted(n) IN
    /\ "r" \in armed /\ ~AtMark
    /\ HasRoom(k)
    /\ Invoke(EvbufferRead(input, k, Fresh(k)), output)
    /\ received' = received \o Fresh(k)
    /\ UNCHANGED <<enabled, high, sent>>

\* ... or none (the read would block), or the stream has ended or failed.
ReadcbNothing ==
    /\ "r" \in armed /\ ~AtMark
    /\ input' = EvbufferRead(input, Wanted(MaxRead), <<>>)
    /\ \/ UNCHANGED <<enabled, armed>>
       \/ Disable("r")
    /\ UNCHANGED <<output, suspended, high, received, sent>>

\* ... or the mark was lowered.
ReadcbAtMark ==
    /\ "r" \in armed /\ AtMark
    /\ armed' = Suspended(armed)
    /\ suspended' = TRUE
    /\ UNCHANGED <<input, output, enabled, high, received, sent>>

\* Mutant: the write event is taken for one that fires once.
WritecbDataOnce(n) ==
    /\ "w" \in armed /\ output.total >= n
    /\ output' = Quiet(EvbufferDrain(output, n))
    /\ sent' = Rest(sent, n)
    /\ armed' = armed \ {"w"}
    /\ UNCHANGED <<input, enabled, suspended, high, received>>

\* bufferevent_writecb: writev() took n bytes, which may be all.
WritecbData(n) ==
    LET after == EvbufferDrain(output, n) IN
    /\ "w" \in armed /\ output.total >= n
    /\ output' = Quiet(after)
    /\ sent' = Rest(sent, n)
    /\ armed' = IF after.total = 0 THEN armed \ {"w"} ELSE armed
    /\ UNCHANGED <<input, enabled, suspended, high, received>>

\* Nothing to write; or the write failed.
WritecbNothing ==
    /\ "w" \in armed
    /\ \/ output.total = 0 /\ armed' = armed \ {"w"} /\ UNCHANGED enabled
       \/ output.total # 0 /\ Disable("w")
    /\ UNCHANGED <<input, output, suspended, high, received, sent>>

\* A failed assertion is the end of the program.
BevNext ==
    /\ ~input.bad /\ ~output.bad
    /\ \/ \E n \in 1..MaxChunk : \/ Write(n) \/ WriteReference(n) \/ WriteReserved(n)
                                 \/ Read(n) \/ Unread(n) \/ Forward(n)
       \/ \E n \in 1..MaxBytes : Pullup(n) \/ WritecbData(n)
       \/ \E n \in 1..MaxRead : ReadcbData(n)
       \/ \E h \in Marks : SetWatermark(h)
       \/ \E what \in {"r", "w"} : Enable(what) \/ AppDisable(what)
       \/ Echo
       \/ ReadcbNothing \/ ReadcbAtMark \/ WritecbNothing

BevSpec == BevInit /\ [][BevNext]_bevVars

-----------------------------------------------------------------------------
(* What the bufferevent guarantees.                                          *)

ChainOK(c) ==
    /\ c.data \in Seq(Byte)
    /\ c.mis + Off(c) <= c.len
    /\ c.imm \in BOOLEAN

\* The slot of last_with_datap exists, and no chain holds more than its block.
BufferOK(b) ==
    /\ \A i \in DOMAIN b.chains : ChainOK(b.chains[i])
    /\ b.lwd \in 1..Len(b.chains) + 1
    /\ b.add = 0 /\ b.del = 0

BevTypeOK ==
    /\ BufferOK(input) /\ BufferOK(output)
    /\ enabled \subseteq {"r", "w"} /\ armed \subseteq {"r", "w"}
    /\ suspended \in BOOLEAN
    /\ high \in Marks \cup {0}
    /\ received \in Seq(Byte) /\ sent \in Seq(Byte)

\* However bytes are read, put back, copied, moved with their chains or pulled
\* together, the buffers hold exactly the right ones in the right order, and
\* total_len counts them.
BytesIntact ==
    /\ Flat(input) = received /\ input.total = Len(received)
    /\ Flat(output) = sent /\ output.total = Len(sent)

\* The EVUTIL_ASSERTs of buffer.c: the chains that evbuffer_chain_insert and
\* evbuffer_read replace are empty, the chains that evbuffer_remove_buffer moves
\* are before the last with data.
AssertionsHold == ~input.bad /\ ~output.bad

\* The input's last_with_datap is always at its last chain with data, though
\* chains before and at it are moved, freed and replaced.
InputPointerRight == input.lwd = LastWithData(input)

\* Reading is suspended only while the input is at its high mark: whatever
\* takes the input below the mark, or the mark away, takes reading up again.
SuspendedWhenFull == suspended => high # 0 /\ input.total >= high

\* The read event is pending exactly while reading is enabled and not
\* suspended, in whatever order the application enables, disables, drains and
\* changes the mark.
ReadingArmed == "r" \in armed <=> "r" \in enabled /\ ~suspended

\* Bytes in the output are not forgotten: while writing is enabled and there
\* are any, the write event is pending, however they got there.
OutputScheduled == "w" \in enabled /\ output.total > 0 => "w" \in armed

\* The buffers hold the right bytes and their structure is sound.
BuffersSound == BevTypeOK /\ BytesIntact /\ AssertionsHold /\ InputPointerRight

\* Reading stops at the high mark and nowhere else.
ReadingResumes == SuspendedWhenFull /\ ReadingArmed
=============================================================================
