-------------------------------- MODULE Evdns --------------------------------
(***************************************************************************)
(* The resolver of libevent (event/evdns.c): requests are sent to a ring of  *)
(* name servers over UDP, again after a timeout, to another server after a   *)
(* refusal and with another search domain after a failure; a server that     *)
(* fails is taken out of use and probed until it answers.                    *)
(*                                                                          *)
(* The resolver's lock is held by every function, and a function calls many  *)
(* others before it gives it up; so the state is one record and the          *)
(* functions are operators on it.  o says what sendto() returns for each     *)
(* server during one such call.  A packet may be lost, delayed, duplicated   *)
(* and answered late; request ids stay unique while a request is in flight   *)
(* (transaction_id_pick), so an answer is found by the request itself.       *)
(***************************************************************************)
EXTENDS Naturals, Sequences, SequencesExt, FiniteSets, FiniteSetsExt

CONSTANTS Servers,         \* addresses of name servers
          Configured,      \* those evdns_base_new() finds in resolv.conf
          Handles,         \* requests of the user, each made once
          Searching,       \* those that have another search domain to try
          NoServer,
          MaxInflight,     \* global_max_requests_inflight
          MaxRetransmits,  \* global_max_retransmits
          MaxReissues,     \* global_max_reissues
          MaxTimeouts,     \* global_max_nameserver_timeout
          MaxTroubles      \* bound: errors of the sockets and probes together

\* The probe of a server is a request of its own, named after the server.
Requests == Handles \cup Servers

ASSUME EvdnsAssumption ==
    /\ Searching \subseteq Handles /\ Handles \cap Servers = {}
    /\ NoServer \notin Servers
    /\ Configured \in Seq(Servers) /\ IsInjective(Configured)
    /\ MaxInflight \in Nat \ {0} /\ MaxRetransmits \in Nat
    /\ MaxReissues \in Nat /\ MaxTimeouts \in Nat
    /\ MaxTroubles \in Nat

VARIABLES dns,       \* the resolver
          started,   \* the requests that were made
          answered,  \* how often the user's callback was called
          cleared,   \* clear_nameservers_and_suspend was called (bound: once)
          troubles   \* number of such errors and probes so far

dnsVars == <<dns, started, answered, cleared, troubles>>

NewReq == [ns |-> NoServer, tx |-> 0, reissue |-> 0, transmit |-> FALSE,
           timer |-> FALSE]

EvdInit ==
    /\ dns = [ring |-> Configured,    \* server_head and those that follow it
              up |-> ToSet(Configured), \* servers with state 1
              good |-> Len(Configured), \* global_good_nameservers
              timedout |-> [n \in Servers |-> 0],
              choked |-> {},          \* servers with choked set
              writing |-> {},         \* servers that wait for EV_WRITE
              probeTimer |-> {},      \* servers whose timeout_event is pending
              probe |-> {},           \* servers with a probe_request
              freed |-> {},           \* servers deleted in the call under way
              req |-> [r \in Requests |-> NewReq],
              inflight |-> <<>>, nInflight |-> 0,
              waiting |-> <<>>, nWaiting |-> 0,
              deferred |-> <<>>,      \* callbacks that are scheduled
              searches |-> Searching, \* requests that can still try a domain
              sent |-> {},            \* what may still be answered
              crashed |-> FALSE]
    /\ started = {}
    /\ answered = [h \in Handles |-> 0]
    /\ cleared = FALSE
    /\ troubles = 0

\* What sendto() may still return in one call, and the errors among it.
InTrouble(o) == Cardinality({n \in Servers : o[n] # "ok"})
Outcomes ==
    {o \in [Servers -> {"ok", "again", "error"}] :
       InTrouble(o) <= MaxTroubles - troubles}

\* A call in which the sockets do o and which counts k itself.
Sending(o, k) ==
    /\ ~dns.crashed
    /\ troubles + InTrouble(o) + k <= MaxTroubles
    /\ troubles' = troubles + InTrouble(o) + k

Rotate(s, k) == SubSeq(s, k + 1, Len(s)) \o SubSeq(s, 1, k)

Live(s, r) == r \in ToSet(s.inflight) \cup ToSet(s.waiting)

-----------------------------------------------------------------------------
\* nameserver_pick: the server, and the ring with its new head.  With good
\* servers left the loop finds one of them.
GoodAt(s) == {k \in 1 .. Len(s.ring) : s.ring[k] \in s.up}
PickAt(s) ==
    IF s.good = 0 \/ GoodAt(s) = {} THEN 0
    ELSE CHOOSE k \in GoodAt(s) : \A j \in GoodAt(s) : k <= j

Picked(s) ==
    IF s.ring = <<>> THEN NoServer
    ELSE IF PickAt(s) = 0 THEN Rotate(s.ring, 1)[1] ELSE s.ring[PickAt(s)]

AfterPick(s) ==
    [s EXCEPT !.ring = IF @ = <<>> THEN @
                       ELSE IF PickAt(s) = 0 THEN Rotate(@, 1)
                       ELSE Rotate(@, PickAt(s) % Len(@)),
              !.crashed = @ \/ \E k \in 1 .. Len(s.ring) :
                               k <= Max({1, PickAt(s)}) /\ s.ring[k] \in s.freed]

\* A request gets a server from the ring.
Assigned(s, r) == [AfterPick(s) EXCEPT !.req[r].ns = Picked(s)]

\* nameserver_failed: requests that have not been sent yet go to others.
ServerFailed(s, n) ==
    IF n \notin s.up THEN s
    ELSE LET t == [s EXCEPT !.up = @ \ {n}, !.good = @ - 1,
                            !.probeTimer = @ \cup {n}]
             Moved(u, r) == IF u.req[r].tx = 0 /\ u.req[r].ns = n
                            THEN Assigned(u, r) ELSE u
         IN  IF t.good = 0 THEN t ELSE FoldLeft(Moved, t, t.inflight)

\* The part of evdns_request_transmit that follows a packet that was sent or
\* that could not be sent at all.
TimerSet(s, r) ==
    [s EXCEPT !.req[r].timer = TRUE, !.req[r].tx = @ + 1,
              !.req[r].transmit = FALSE]

\* Mutant: a server that would block is not watched for EV_WRITE.
TransmitForgetsChoked(s, r, o) ==
    LET n == s.req[r].ns
        m == [s EXCEPT !.req[r].transmit = TRUE]
    IN  IF n \in s.freed \cup {NoServer} THEN [s EXCEPT !.crashed = TRUE]
        ELSE IF n \in s.choked THEN m
        ELSE IF o[n] = "again" THEN [m EXCEPT !.choked = @ \cup {n}]
        ELSE IF o[n] = "error" THEN TimerSet(ServerFailed(m, n), r)
        ELSE TimerSet([m EXCEPT !.sent = @ \cup {<<n, r>>}], r)

\* evdns_request_transmit.  Without a server the program ends.
Transmit(s, r, o) ==
    LET n == s.req[r].ns
        m == [s EXCEPT !.req[r].transmit = TRUE]
    IN  IF n \in s.freed \cup {NoServer} THEN [s EXCEPT !.crashed = TRUE]
        ELSE IF n \in s.choked THEN m
        ELSE IF o[n] = "again"
             THEN [m EXCEPT !.choked = @ \cup {n}, !.writing = @ \cup {n}]
        ELSE IF o[n] = "error" THEN TimerSet(ServerFailed(m, n), r)
        ELSE TimerSet([m EXCEPT !.sent = @ \cup {<<n, r>>}], r)

\* evdns_transmit, and whether it tried anything.
TransmitAll(s, o) ==
    LET One(t, r) == IF t.req[r].transmit THEN Transmit(t, r, o) ELSE t
    IN  FoldLeft(One, s, s.inflight)
Tried(s) == \E r \in ToSet(s.inflight) : s.req[r].transmit

\* evdns_requests_pump_waiting_queue: one request moves, and then the next.
Promoted(s, o) ==
    LET r == Head(s.waiting)
        a == Assigned([s EXCEPT !.waiting = Tail(@), !.nWaiting = @ - 1,
                                !.nInflight = @ + 1], r)
    IN  TransmitAll(Transmit([a EXCEPT !.inflight = Append(@, r)], r, o), o)

RECURSIVE Pump(_, _)
Pump(s, o) ==
    IF s.nInflight < MaxInflight /\ s.nWaiting > 0 /\ ~s.crashed
    THEN Pump(Promoted(s, o), o) ELSE s

\* Mutant: a request that ends does not make room for one that waits.
FinishedKeepsOthersWaiting(s, r, o) ==
    LET was == s.req[r].ns # NoServer IN
    [s EXCEPT !.inflight = SelectSeq(@, LAMBDA x : x # r),
              !.waiting = SelectSeq(@, LAMBDA x : x # r),
              !.nInflight = IF was THEN @ - 1 ELSE @,
              !.nWaiting = IF was THEN @ ELSE @ - 1,
              !.req[r] = NewReq,
              !.sent = {p \in @ : p[2] # r}]

\* request_finished.
Finished(s, r, o) ==
    LET was == s.req[r].ns # NoServer
    IN  Pump([s EXCEPT !.inflight = SelectSeq(@, LAMBDA x : x # r),
                       !.waiting = SelectSeq(@, LAMBDA x : x # r),
                       !.nInflight = IF was THEN @ - 1 ELSE @,
                       !.nWaiting = IF was THEN @ ELSE @ - 1,
                       !.req[r] = NewReq,
                       !.sent = {p \in @ : p[2] # r}], o)

\* reply_schedule_callback.  What the user is told makes no difference here.
Told(s, r, result) ==
    [s EXCEPT !.deferred = Append(@, <<r, IF r \in Handles THEN "told" ELSE result>>)]

PendingCb(s, r) == \E k \in 1 .. Len(s.deferred) : s.deferred[k][1] = r

\* The callback that comes next is one whose server is gone.
PendingStale == dns.deferred # <<>> /\ Head(dns.deferred)[2] = "stale"

\* Mutant: a request that is over can still be cancelled.
CancelledAnyway(s, r, o) == Finished(Told(s, r, "cancel"), r, o)

\* evdns_cancel_request.
Cancelled(s, r, o) ==
    IF ~Live(s, r) \/ PendingCb(s, r) THEN s
    ELSE Finished(Told(s, r, "cancel"), r, o)

\* nameserver_up.
ServerUp(s, n, o) ==
    IF n \in s.up THEN s
    ELSE LET t == [s EXCEPT !.probeTimer = @ \ {n}]
             c == IF n \in s.probe THEN Cancelled(t, n, o) ELSE t
         IN  [c EXCEPT !.probe = @ \ {n}, !.up = @ \cup {n},
                       !.timedout[n] = 0, !.good = @ + 1]

\* nameserver_probe_failed.
ProbeFailed(s, n) ==
    [s EXCEPT !.probeTimer = IF n \in s.up THEN @ \ {n} ELSE @ \cup {n}]

\* request_new, when it is decided whether the request is sent at once, and
\* request_submit.
Issuing(s) == s.nInflight < MaxInflight

Submitted(s, r, o) ==
    IF s.req[r].ns = NoServer
    THEN [s EXCEPT !.waiting = Append(@, r), !.nWaiting = @ + 1]
    ELSE Transmit([s EXCEPT !.inflight = Append(@, r),
                            !.nInflight = @ + 1], r, o)

Requested(s, r) ==
    IF Issuing(s) THEN Assigned([s EXCEPT !.req[r] = NewReq], r)
    ELSE [s EXCEPT !.req[r] = NewReq]

-----------------------------------------------------------------------------
\* evdns_base_resolve_ipv4 and its like.
Resolve(h, o) ==
    /\ h \notin started
    /\ started' = started \cup {h}
    /\ dns' = Submitted(Requested(dns, h), h, o)
    /\ UNCHANGED <<answered, cleared>>

\* evdns_cancel_request by the user, who has the handle until the callback.
CancelRequest(h, o) ==
    /\ h \in started /\ answered[h] = 0
    /\ dns' = Cancelled(dns, h, o)
    /\ UNCHANGED <<started, answered, cleared>>

\* evdns_request_timeout_callback.
RequestTimeout(r, o) ==
    /\ dns.req[r].timer
    /\ LET n == dns.req[r].ns
           f == [dns EXCEPT !.req[r].timer = FALSE]
           t == IF f.timedout[n] + 1 > MaxTimeouts
                THEN ServerFailed([f EXCEPT !.timedout[n] = 0], n)
                ELSE [f EXCEPT !.timedout[n] = @ + 1]
       IN  dns' = IF t.req[r].tx >= MaxRetransmits
                  THEN Finished(Told(t, r, "timeout"), r, o)
                  ELSE Transmit(Assigned(t, r), r, o)
    /\ UNCHANGED <<started, answered, cleared>>

\* The end of reply_handle for a reply that is no answer: the next search
\* domain, for which the server is picked before the old request is taken off
\* the list, or the callback.
Failed(s, r, why, o) ==
    IF r \in s.searches
    THEN LET n == IF Issuing(s) THEN Picked(s) ELSE NoServer
             a == IF Issuing(s) THEN AfterPick(s) ELSE s
             f == Finished([a EXCEPT !.searches = @ \ {r}], r, o)
         IN  Submitted([f EXCEPT !.req[r].ns = n], r, o)
    ELSE Finished(Told(s, r, why), r, o)

\* Mutant: the answer to a probe leaves the probe to be cancelled.
GoodReplyKeepsProbe(s, r, o) == ServerUp(s, s.req[r].ns, o)

\* reply_handle takes the answer for one of the server the request is with.
GoodReply(s, r, o) ==
    LET n == s.req[r].ns
    IN  ServerUp([s EXCEPT !.probe = IF r = n THEN @ \ {n} ELSE @], n, o)

Answered(s, r, o) ==
    LET t == GoodReply(Told(s, r, "none"), r, o) IN Finished(t, r, o)

\* request_reissue.
Reissued(s, r) ==
    LET t == Assigned(s, r)
    IN  IF t.req[r].ns = s.req[r].ns THEN t
        ELSE [t EXCEPT !.req[r].reissue = @ + 1, !.req[r].tx = 0,
                       !.req[r].transmit = TRUE]

Refused(s, r, o) ==
    IF s.req[r].reissue >= MaxReissues THEN Failed(s, r, "refused", o)
    ELSE LET t == Reissued(ServerFailed(s, s.req[r].ns), r)
         IN  IF t.req[r].reissue > s.req[r].reissue THEN t
             ELSE Failed(t, r, "refused", o)

\* A packet from server n: nameserver_read, reply_parse and reply_handle.
Reply(n, r, kind, o) ==
    /\ <<n, r>> \in dns.sent
    /\ LET s == [dns EXCEPT !.timedout[n] = 0]
       IN  dns' = CASE kind = "answer" -> Answered(s, r, o)
                    [] kind \in {"notexist", "nodata"} ->
                         Failed(GoodReply(s, r, o), r, kind, o)
                    [] kind = "servfail" -> Failed(s, r, "servfail", o)
                    [] kind = "refused" -> Refused(s, r, o)
    /\ UNCHANGED <<started, answered, cleared>>

\* recvfrom() fails.
ReadError(n) ==
    /\ n \in ToSet(dns.ring)
    /\ troubles < MaxTroubles /\ troubles' = troubles + 1
    /\ dns' = ServerFailed(dns, n)
    /\ UNCHANGED <<started, answered, cleared>>

\* nameserver_ready_callback for EV_WRITE: the socket takes a packet.
WriteReady(n, o) ==
    /\ n \in dns.writing
    /\ o[n] # "again"
    /\ LET s == [dns EXCEPT !.choked = @ \ {n}]
           t == TransmitAll(s, o)
       IN  dns' = IF Tried(s) THEN t ELSE [t EXCEPT !.writing = @ \ {n}]
    /\ UNCHANGED <<started, answered, cleared>>

\* nameserver_prod_callback and nameserver_send_probe.  The timer takes ten
\* seconds at least, in which a callback that is scheduled has run.
Prod(n, o) ==
    /\ n \in dns.probeTimer
    /\ ~PendingCb(dns, n)
    /\ LET s == Requested([dns EXCEPT !.probeTimer = @ \ {n},
                                      !.probe = @ \cup {n}], n)
       IN  dns' = Submitted([s EXCEPT !.req[n].ns = n], n, o)
    /\ UNCHANGED <<started, answered, cleared>>

\* A scheduled callback: the user's, or nameserver_probe_callback.
RunCallback(o) ==
    /\ dns.deferred # <<>>
    /\ LET r == Head(dns.deferred)[1]
           result == Head(dns.deferred)[2]
           s == [dns EXCEPT !.deferred = Tail(@)]
           p == [s EXCEPT !.probe = @ \ {r}]
       IN  IF r \in Handles
           THEN /\ answered' = [answered EXCEPT ![r] = @ + 1]
                /\ dns' = s
           ELSE /\ UNCHANGED answered
                /\ dns' = IF result = "cancel" THEN s
                          ELSE IF result = "stale"
                               THEN [dns EXCEPT !.crashed = TRUE]
                          ELSE IF result \in {"none", "notexist"}
                               THEN ServerUp(p, r, o)
                          ELSE ProbeFailed(p, r)
    /\ UNCHANGED <<started, cleared>>

\* evdns_base_nameserver_add: the new server comes after the head.
AddServer(n) ==
    /\ n \notin ToSet(dns.ring)
    /\ dns' = [dns EXCEPT !.ring = IF @ = <<>> THEN <<n>>
                                   ELSE <<Head(@), n>> \o Tail(@),
                          !.up = @ \cup {n}, !.good = @ + 1,
                          !.timedout[n] = 0]
    /\ UNCHANGED <<started, answered, cleared, troubles>>

\* evdns_base_clear_nameservers_and_suspend: servers are deleted one by one
\* while they are still in the ring, then all requests wait again, the ones
\* in flight in front.  A callback of a probe that is scheduled points to a
\* server that is gone.
Clear(o) ==
    /\ ~cleared /\ cleared' = TRUE
    /\ dns.ring # <<>>
    /\ LET Gone(s, n) ==
             LET t == [s EXCEPT !.writing = @ \ {n}, !.choked = @ \ {n},
                                !.probeTimer = @ \ {n}]
                 c == IF n \in s.probe THEN Cancelled(t, n, o) ELSE t
             IN  [c EXCEPT !.probe = @ \ {n}, !.freed = @ \cup {n}]
           s == FoldLeft(Gone, dns, dns.ring)
           Stale(d) == IF d[1] \in Servers /\ d[2] # "cancel"
                       THEN <<d[1], "stale">> ELSE d
       IN  dns' = [s EXCEPT !.ring = <<>>, !.up = {}, !.good = 0, !.freed = {},
                            !.req = [r \in Requests |-> NewReq],
                            !.deferred = [k \in 1 .. Len(@) |-> Stale(@[k])],
                            !.waiting = Reverse(s.inflight) \o @,
                            !.nWaiting = @ + Len(s.inflight),
                            !.inflight = <<>>, !.nInflight = 0, !.sent = {}]
    /\ UNCHANGED <<started, answered>>

\* evdns_base_resume.
Resume(o) ==
    /\ dns' = Pump(dns, o)
    /\ UNCHANGED <<started, answered, cleared>>

EvdNext ==
    \/ \E o \in Outcomes :
         \/ /\ Sending(o, 0)
            /\ \/ \E h \in Handles : Resolve(h, o) \/ CancelRequest(h, o)
               \/ \E r \in Requests : RequestTimeout(r, o)
               \/ \E n \in Servers, r \in Requests,
                    kind \in {"answer", "notexist", "nodata", "servfail", "refused"} :
                      Reply(n, r, kind, o)
               \/ \E n \in Servers : WriteReady(n, o)
               \/ RunCallback(o) \/ Resume(o) \/ Clear(o)
         \/ Sending(o, 1) /\ \E n \in Servers : Prod(n, o)
    \/ \E n \in Servers : ~dns.crashed /\ (AddServer(n) \/ ReadError(n))

EvdSpec == EvdInit /\ [][EvdNext]_dnsVars

(***************************************************************************)
(* Fairness: timers that are set expire, a socket takes packets again in the *)
(* end, and callbacks that are scheduled are run.  No server has to answer,  *)
(* and every packet may be lost.  Each formula is a consequence of weak      *)
(* fairness of RequestTimeout, WriteReady or RunCallback, with the guard in  *)
(* the place of ENABLED and what the step changes in the place of the step.  *)
(***************************************************************************)
Expires(r) == dns'.req[r] # dns.req[r]

Unchokes ==
    \/ dns'.choked # dns.choked \/ dns'.writing # dns.writing
    \/ \E r \in Requests : dns.req[r].transmit /\ ~dns'.req[r].transmit

CallsBack ==
    /\ dns.deferred # <<>>
    /\ dns'.deferred # <<>> => Head(dns'.deferred) # Head(dns.deferred)

EvdFair ==
    /\ \A r \in Requests :
         []<>(~dns.req[r].timer \/ dns.crashed) \/ []<><<Expires(r)>>_dnsVars
    /\ \A n \in Servers :
         []<>(n \notin dns.writing \/ dns.crashed) \/ []<><<Unchokes>>_dnsVars
    /\ []<>(dns.deferred = <<>> \/ dns.crashed) \/ []<><<CallsBack>>_dnsVars

EvdFairSpec == EvdSpec /\ EvdFair

-----------------------------------------------------------------------------
Results == {"none", "notexist", "nodata", "servfail", "refused", "timeout",
             "cancel", "stale", "told"}

EvdTypeOK ==
    /\ ToSet(dns.ring) \subseteq Servers /\ dns.up \subseteq ToSet(dns.ring)
    /\ dns.req \in [Requests -> [ns : Servers \cup {NoServer}, tx : Nat,
                                 reissue : Nat, transmit : BOOLEAN,
                                 timer : BOOLEAN]]
    /\ ToSet(dns.inflight) \cup ToSet(dns.waiting) \subseteq Requests
    /\ ToSet(dns.deferred) \subseteq Requests \X Results
    /\ dns.choked \subseteq dns.writing
    /\ answered \in [Handles -> Nat]

\* The counters agree with the lists, which evdns.c asserts in
\* nameserver_failed, nameserver_pick and the pump of the waiting queue, and
\* a request is in the list that evdns_cancel_request takes it from, which
\* goes by req->ns.
ListsAgree ==
    ~dns.crashed =>
        /\ dns.nInflight = Len(dns.inflight) /\ dns.nWaiting = Len(dns.waiting)
        /\ IsInjective(dns.inflight \o dns.waiting)
        /\ dns.good = Cardinality(dns.up)
        /\ \A r \in Requests :
             r \in ToSet(dns.inflight) <=> dns.req[r].ns # NoServer

\* The callback of a request is called once, whatever was cancelled, timed
\* out, answered twice, answered late or tried again in the meantime, and
\* never while the request is still on a list.
AnsweredOnce ==
    \A h \in Handles :
        /\ answered[h] + Len(SelectSeq(dns.deferred, LAMBDA d : d[1] = h))
             + (IF Live(dns, h) THEN 1 ELSE 0) <= 1
        /\ h \in started => Live(dns, h) \/ PendingCb(dns, h) \/ answered[h] = 1

\* A request in flight has a timer or is to be sent when some socket takes
\* packets again: it is never forgotten.
NothingStuck ==
    ~dns.crashed =>
        \A r \in ToSet(dns.inflight) :
            dns.req[r].timer \/ (dns.req[r].transmit /\ dns.writing # {})

\* A server that is out of use is tried again: its timer runs, its probe is
\* in flight, or the result of the probe is on its way.
FailedIsProbed ==
    \A n \in ToSet(dns.ring) \ dns.up :
        n \in dns.probeTimer \/ Live(dns, n) \/ PendingCb(dns, n)

\* No server is used that is not there, as long as there is one at all, except
\* by the callback of a probe that was scheduled when
\* clear_nameservers_and_suspend deleted the server.
ServersExist ==
    dns.crashed => dns.ring = <<>> \/ PendingStale

\* The lists and counters are sound, and so is the ring they refer to.
ListsSound == EvdTypeOK /\ ListsAgree /\ ServersExist

\* Whatever waits for something to happen has that something under way.
NothingForgotten == NothingStuck /\ FailedIsProbed

\* A request is answered in the end once it is in flight, or waits behind one
\* that is, unless the servers are taken away.
EveryRequestAnswered ==
    \A h \in Handles :
        Live(dns, h) /\ dns.inflight # <<>>
          ~> answered[h] = 1 \/ cleared \/ dns.crashed

-----------------------------------------------------------------------------
(* What the comments say.                                                   *)

\* "requests that we're waiting to send, but haven't sent yet because there are
\* too many requests inflight" (evdns.c, req_waiting_head): a request waits
\* only while the limit is reached, unless clear_nameservers_and_suspend put it
\* on the list.
WaitsForRoom ==
    dns.waiting # <<>> => dns.nInflight >= MaxInflight \/ cleared \/ dns.crashed
=============================================================================
