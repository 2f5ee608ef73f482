------------------------------ MODULE MsgQueue ------------------------------
(***************************************************************************)
(* System::MsgQueue (System/MsgQueue.h): two vectors, of which producers    *)
(* fill one while the consumer works on the other, under a mutex, with a    *)
(* manual-reset event to wake the consumer.                                 *)
(*                                                                          *)
(* Each step is what a thread does between two operations on shared state.  *)
(* The queue's mutex does not protect the event: a push raises it holding   *)
(* the mutex, the consumer lowers it without.                               *)
(*                                                                          *)
(* The consumer uses one of three forms of the interface:                   *)
(*   "poll"   fetchMsg()                                                    *)
(*   "timed"  fetchMsg(milli): wait, swap, then lower the event             *)
(*   "event"  tryWaitEvent(milli), which lowers the event, then fetchMsg()  *)
(* and calls fetchEnd on every vector it got before it fetches again.       *)
(***************************************************************************)
EXTENDS Naturals, Sequences

CONSTANTS Producers,   \* the threads that push
          Consumer,    \* the thread that fetches
          Msg,         \* the messages
          NoThread,    \* holder of a free mutex
          Null,        \* the NULL of fetchMsg
          Forms,       \* the forms of fetching the consumer uses
          Batches,     \* may producers use pushLock .. pushUnlock?
          MaxPushes    \* bound: number of messages pushed

ASSUME QueueAssumption ==
    /\ Consumer \notin Producers
    /\ NoThread \notin Producers \cup {Consumer}
    /\ Null \notin {0, 1}
    /\ Forms \subseteq {"poll", "timed", "event"}
    /\ Batches \in BOOLEAN
    /\ MaxPushes \in Nat

VARIABLES currQueue,   \* index of the vector being filled
          msgQueue,    \* the two vectors
          queueMutex,  \* who holds the mutex
          evState,     \* the event ...
          evWait,      \* ... and the consumer's phase in it
          ppc,         \* where each producer is
          cpc,         \* where the consumer is
          form,        \* the form of the consumer's current call
          fetched,     \* the vector the consumer got: 0, 1 or Null
          pushed,      \* history: all messages pushed, in order
          delivered    \* history: all messages given back by fetchEnd, in order

queueVars == <<currQueue, msgQueue>>
eventVars == <<evState, evWait>>
mqVars == <<currQueue, msgQueue, queueMutex, evState, evWait, ppc, cpc, form,
          fetched, pushed, delivered>>

Ev == INSTANCE EventImpl WITH Waiters <- {Consumer}, AutoReset <- FALSE

ProducerPC == {"idle", "append", "set", "unlock", "batch"}
ConsumerPC == {"idle", "wait", "fetch", "swap", "unlock", "reset", "process"}
Threads == Producers \cup {Consumer}

QueueTypeOK ==
    /\ currQueue \in {0, 1}
    /\ msgQueue \in [{0, 1} -> Seq(Msg)]
    /\ queueMutex \in Threads \cup {NoThread}
    /\ ppc \in [Producers -> ProducerPC]
    /\ cpc \in ConsumerPC
    /\ form \in {"poll", "timed", "event"}
    /\ fetched \in {0, 1, Null}
    /\ pushed \in Seq(Msg)
    /\ delivered \in Seq(Msg)

MqTypeOK == QueueTypeOK /\ Ev!EventTypeOK

MqInit ==
    /\ currQueue = 0
    /\ msgQueue = [i \in {0, 1} |-> <<>>]
    /\ queueMutex = NoThread
    /\ Ev!EventInit
    /\ ppc = [p \in Producers |-> "idle"]
    /\ cpc = "idle"
    /\ form = "poll"
    /\ fetched = Null
    /\ pushed = <<>>
    /\ delivered = <<>>

-----------------------------------------------------------------------------
(* The mutex.                                                               *)

\* Mutant: the lock does not exclude anybody.
LockAlwaysGranted(t) == queueMutex' = t

Lock(t) ==
    /\ queueMutex = NoThread
    /\ queueMutex' = t

Unlock == queueMutex' = NoThread

-----------------------------------------------------------------------------
(* Producers.                                                               *)

\* _msgQueue[_currQueue].push_back(data)
PushBack(m) ==
    /\ Len(pushed) < MaxPushes
    /\ msgQueue' = [msgQueue EXCEPT ![currQueue] = Append(@, m)]
    /\ pushed' = Append(pushed, m)
    /\ UNCHANGED currQueue

\* pushMsg: the scoped lock is taken ...
PushMsgLock(p) ==
    /\ ppc[p] = "idle"
    /\ Len(pushed) < MaxPushes
    /\ Lock(p)
    /\ ppc' = [ppc EXCEPT ![p] = "append"]
    /\ UNCHANGED <<queueVars, eventVars, cpc, form, fetched, pushed, delivered>>

\* ... the message is appended ...
PushMsgAppend(p, m) ==
    /\ ppc[p] = "append"
    /\ PushBack(m)
    /\ ppc' = [ppc EXCEPT ![p] = "set"]
    /\ UNCHANGED <<queueMutex, eventVars, cpc, form, fetched, delivered>>

\* Mutant: the event is not raised.
PushMsgSetForgotten(p) ==
    /\ ppc[p] = "set"
    /\ ppc' = [ppc EXCEPT ![p] = "unlock"]
    /\ UNCHANGED <<queueVars, queueMutex, eventVars, cpc, form, fetched, pushed,
                   delivered>>

\* ... the event is raised ...
PushMsgSet(p) ==
    /\ ppc[p] = "set"
    /\ Ev!SetImpl
    /\ ppc' = [ppc EXCEPT ![p] = "unlock"]
    /\ UNCHANGED <<queueVars, queueMutex, cpc, form, fetched, pushed, delivered>>

\* ... and the lock goes out of scope.
PushMsgUnlock(p) ==
    /\ ppc[p] = "unlock"
    /\ Unlock
    /\ ppc' = [ppc EXCEPT ![p] = "idle"]
    /\ UNCHANGED <<queueVars, eventVars, cpc, form, fetched, pushed, delivered>>

PushLock(p) ==
    /\ Batches
    /\ ppc[p] = "idle"
    /\ Len(pushed) < MaxPushes
    /\ Lock(p)
    /\ ppc' = [ppc EXCEPT ![p] = "batch"]
    /\ UNCHANGED <<queueVars, eventVars, cpc, form, fetched, pushed, delivered>>

\* pushMsgNoLock does not raise the event, and neither does pushUnlock.
PushMsgNoLock(p, m) ==
    /\ ppc[p] = "batch"
    /\ PushBack(m)
    /\ UNCHANGED <<queueMutex, eventVars, ppc, cpc, form, fetched, delivered>>

PushUnlock(p) ==
    /\ ppc[p] = "batch"
    /\ Unlock
    /\ ppc' = [ppc EXCEPT ![p] = "idle"]
    /\ UNCHANGED <<queueVars, eventVars, cpc, form, fetched, pushed, delivered>>

Produce(p) ==
    \/ PushMsgLock(p)
    \/ \E m \in Msg : PushMsgAppend(p, m)
    \/ PushMsgSet(p)
    \/ PushMsgUnlock(p)
    \/ PushLock(p)
    \/ \E m \in Msg : PushMsgNoLock(p, m)
    \/ PushUnlock(p)

-----------------------------------------------------------------------------
(* The consumer.                                                            *)

\* fetchMsg() is called.
FetchMsg ==
    /\ cpc = "idle"
    /\ "poll" \in Forms
    /\ form' = "poll"
    /\ cpc' = "fetch"
    /\ UNCHANGED <<queueVars, queueMutex, eventVars, ppc, fetched, pushed, delivered>>

\* What follows a successful wait: tryWaitEvent lowers the event at once,
\* fetchMsg(milli) swaps first.
AfterWait(f) == IF f = "event" THEN "reset" ELSE "fetch"

\* fetchMsg(milli) or tryWaitEvent(milli) is called, up to the first test of
\* the event.
FetchWait(f) ==
    /\ cpc = "idle"
    /\ f \in Forms \ {"poll"}
    /\ form' = f
    /\ \/ Ev!WaitReturns(Consumer) /\ cpc' = AfterWait(f)
       \/ Ev!WaitBlocks(Consumer) /\ cpc' = "wait"
    /\ UNCHANGED <<queueVars, queueMutex, ppc, fetched, pushed, delivered>>

\* The consumer inside Event::tryWait.
Waiting ==
    /\ cpc = "wait"
    /\ \/ /\ evWait[Consumer] = "woken"
          /\ \/ Ev!WaitReturns(Consumer) /\ cpc' = AfterWait(form)
             \/ Ev!WaitBlocks(Consumer) /\ UNCHANGED cpc
       \/ Ev!WaitExpires(Consumer) /\ UNCHANGED cpc
       \/ Ev!WaitTimedOut(Consumer) /\ cpc' = "idle"
    /\ UNCHANGED <<queueVars, queueMutex, ppc, form, fetched, pushed, delivered>>

\* fetchMsg() takes the lock ...
FetchLock ==
    /\ cpc = "fetch"
    /\ Lock(Consumer)
    /\ cpc' = "swap"
    /\ UNCHANGED <<queueVars, eventVars, ppc, form, fetched, pushed, delivered>>

\* Mutant: &_msgQueue[_currQueue] is returned after the exchange.
FetchSwapReturnsCurrent ==
    /\ cpc = "swap"
    /\ IF msgQueue[currQueue] = <<>>
         THEN fetched' = Null /\ UNCHANGED currQueue
         ELSE fetched' = 1 - currQueue /\ currQueue' = 1 - currQueue
    /\ cpc' = "unlock"
    /\ UNCHANGED <<msgQueue, queueMutex, eventVars, ppc, form, pushed, delivered>>

\* Mutant: the emptiness test looks at the spare vector.
FetchSwapTestsSpare ==
    /\ cpc = "swap"
    /\ IF msgQueue[1 - currQueue] = <<>>
         THEN fetched' = Null /\ UNCHANGED currQueue
         ELSE fetched' = currQueue /\ currQueue' = 1 - currQueue
    /\ cpc' = "unlock"
    /\ UNCHANGED <<msgQueue, queueMutex, eventVars, ppc, form, pushed, delivered>>

\* ... exchanges the vectors unless there is nothing to fetch ...
FetchSwap ==
    /\ cpc = "swap"
    /\ IF msgQueue[currQueue] = <<>>
         THEN /\ fetched' = Null
              /\ UNCHANGED currQueue
         ELSE /\ fetched' = currQueue
              /\ currQueue' = 1 - currQueue
    /\ cpc' = "unlock"
    /\ UNCHANGED <<msgQueue, queueMutex, eventVars, ppc, form, pushed, delivered>>

\* Where fetchMsg() returns to.
AfterFetch == IF fetched = Null THEN "idle" ELSE "process"

\* ... and releases the lock.
FetchUnlock ==
    /\ cpc = "unlock"
    /\ Unlock
    /\ cpc' = IF form = "timed" THEN "reset" ELSE AfterFetch
    /\ UNCHANGED <<queueVars, eventVars, ppc, form, fetched, pushed, delivered>>

\* _event.reset(), the last act of fetchMsg(milli) and of tryWaitEvent(milli);
\* after the latter the consumer calls fetchMsg().
FetchReset ==
    /\ cpc = "reset"
    /\ Ev!ResetImpl
    /\ cpc' = IF form = "event" THEN "fetch" ELSE AfterFetch
    /\ UNCHANGED <<queueVars, queueMutex, ppc, form, fetched, pushed, delivered>>

\* Mutant: the vector is given back without clear(), as
\* Network::TcpClient::onRunCheck does.
FetchEndKeepsMessages ==
    /\ cpc = "process"
    /\ delivered' = delivered \o msgQueue[fetched]
    /\ fetched' = Null
    /\ cpc' = "idle"
    /\ UNCHANGED <<queueVars, queueMutex, eventVars, ppc, form, pushed>>

\* The consumer is done with the vector it got: q->clear(), without the lock.
FetchEnd ==
    /\ cpc = "process"
    /\ delivered' = delivered \o msgQueue[fetched]
    /\ msgQueue' = [msgQueue EXCEPT ![fetched] = <<>>]
    /\ fetched' = Null
    /\ cpc' = "idle"
    /\ UNCHANGED <<currQueue, queueMutex, eventVars, ppc, form, pushed>>

Consume ==
    \/ FetchMsg
    \/ \E f \in Forms : FetchWait(f)
    \/ Waiting
    \/ FetchLock
    \/ FetchSwap
    \/ FetchUnlock
    \/ FetchReset
    \/ FetchEnd

MqNext ==
    \/ \E p \in Producers : Produce(p)
    \/ Consume

MqSpec == MqInit /\ [][MqNext]_mqVars

-----------------------------------------------------------------------------
(* What the queue guarantees.                                               *)

Pending == msgQueue[currQueue]
Batch == IF fetched = Null THEN <<>> ELSE msgQueue[fetched]

\* Every message pushed is delivered at most once and none is lost or
\* overtaken: what was pushed is what was given back, then what the consumer
\* holds, then what is waiting, although producers and consumer only share
\* the lock for the push and the swap and fetchEnd clears without it.
ExactlyOnceInOrder == pushed = delivered \o Batch \o Pending

\* The vector the consumer works on is not the one producers append to, and
\* while it has none the spare one is empty: a swap never hands producers a
\* vector with old messages in it.
VectorsApart ==
    /\ fetched # Null => fetched # currQueue
    /\ fetched = Null => msgQueue[1 - currQueue] = <<>>

\* Whoever is between taking and releasing the lock holds it.
InSection(t) ==
    IF t = Consumer THEN cpc \in {"swap", "unlock"}
                    ELSE ppc[t] # "idle"
MutexHeld == \A t \in Threads : InSection(t) <=> queueMutex = t

\* The queue under its lock: no message is lost, doubled or overtaken, and the
\* two vectors keep their roles.
QueueExact == ExactlyOnceInOrder /\ VectorsApart /\ MutexHeld

\* Nothing touches the vector the consumer got until it calls fetchEnd,
\* though producers go on pushing.
FetchedVectorStable ==
    [][fetched # Null /\ fetched' = fetched
         => msgQueue'[fetched] = msgQueue[fetched]]_mqVars

\* A MsgQueue is a Channel.
Ch == INSTANCE Channel WITH pending <- Pending, batch <- Batch
ImplementsChannel == Ch!Spec

Delivered == \A n \in 1..MaxPushes : (Len(pushed) >= n) ~> (Len(delivered) >= n)

\* A consumer that polls again and again, as TcpClient::onRunCheck does, gets
\* every message, those that pushMsgNoLock pushed without a signal included.
PollingDelivers == []<><<FetchMsg>>_mqVars => Delivered

\* A consumer that only waits with tryWaitEvent, which lowers the event before
\* the fetch, gets every message if every push raises the event.
EventDelivers ==
    [](form # "timed" /\ \A p \in Producers : ppc[p] # "batch") => Delivered

\* Both ways to consume that leave the event alone between fetch and reset.
MessagesDelivered == PollingDelivers /\ EventDelivers

\* What fetchMsg(milli) still guarantees: a message is delivered if its
\* signal is there while the consumer is not between its swap and the reset
\* that follows it.  (A push inside that window loses its signal, and its
\* message waits for the next push.)
SignalledPushDelivered ==
    \A n \in 1..MaxPushes :
        (Len(pushed) >= n /\ evState /\ cpc \notin {"unlock", "reset"})
            ~> (Len(delivered) >= n)
=============================================================================
