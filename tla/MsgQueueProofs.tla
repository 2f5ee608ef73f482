--------------------------- MODULE MsgQueueProofs ---------------------------
(***************************************************************************)
(* What is proved of System::MsgQueue for any number of producers, any      *)
(* messages, any mix of the three forms of fetching and any number of       *)
(* pushes.                                                                  *)
(***************************************************************************)
EXTENDS MsgQueue, SequenceTheorems, TLAPS

\* Between two fetches the consumer holds no vector; while it processes one
\* it holds it.
FetchedFollowsPC ==
    /\ cpc \in {"idle", "wait", "fetch", "swap"} => fetched = Null
    /\ cpc = "process" => fetched # Null
    /\ cpc = "reset" /\ form = "event" => fetched = Null

IInv == QueueTypeOK /\ MutexHeld /\ FetchedFollowsPC /\ VectorsApart
            /\ ExactlyOnceInOrder

-----------------------------------------------------------------------------
(* Sequences.                                                               *)

\* Appending to the last of three sequences appends to their concatenation:
\* a push goes to the end of everything pushed so far.
LEMMA AppendToLast ==
    ASSUME NEW S, NEW a \in Seq(S), NEW b \in Seq(S), NEW c \in Seq(S), NEW m \in S
    PROVE  (a \o b) \o Append(c, m) = Append((a \o b) \o c, m)
<1>1. /\ a \o b \in Seq(S)
      /\ (a \o b) \o c \in Seq(S)
  BY ConcatProperties
<1>2. Append(c, m) = c \o <<m>> /\ <<m>> \in Seq(S)
  BY AppendIsConcat
<1>3. Append((a \o b) \o c, m) = ((a \o b) \o c) \o <<m>>
  BY <1>1, AppendIsConcat
<1> QED
  BY <1>1, <1>2, <1>3, ConcatAssociative

-----------------------------------------------------------------------------
(* The inductive invariant, action by action.                               *)

\* The queue starts empty, unlocked and with nothing fetched.
LEMMA InitIInv == MqInit => IInv
<1> SUFFICES ASSUME MqInit PROVE IInv
  OBVIOUS
<1> USE QueueAssumption DEF MqInit
<1>1. QueueTypeOK
  BY DEF QueueTypeOK, ProducerPC, ConsumerPC, Threads
<1>2. MutexHeld
  BY DEF MutexHeld, InSection, Threads
<1>3. FetchedFollowsPC /\ VectorsApart
  BY DEF FetchedFollowsPC, VectorsApart
<1>4. ExactlyOnceInOrder
  BY ConcatEmptySeq, EmptySeq DEF ExactlyOnceInOrder, Batch, Pending
<1> QED
  BY <1>1, <1>2, <1>3, <1>4 DEF IInv

\* push_back under the lock: the message goes to the end of the vector being
\* filled, the vector the consumer holds is untouched.
LEMMA PushBackStep ==
    ASSUME IInv, NEW m \in Msg, PushBack(m), UNCHANGED <<fetched, delivered>>
    PROVE  /\ msgQueue' \in [{0, 1} -> Seq(Msg)]
           /\ pushed' \in Seq(Msg)
           /\ VectorsApart'
           /\ ExactlyOnceInOrder'
<1> USE QueueAssumption DEF IInv, QueueTypeOK, PushBack
<1>1. /\ msgQueue' \in [{0, 1} -> Seq(Msg)]
      /\ pushed' \in Seq(Msg)
  BY AppendProperties
<1>2. VectorsApart'
  BY DEF VectorsApart
<1>3. Batch' = Batch
  BY DEF Batch, VectorsApart
<1>4. Pending' = Append(Pending, m)
  BY DEF Pending
<1>5. Batch \in Seq(Msg) /\ Pending \in Seq(Msg)
  BY DEF Batch, Pending
<1>6. ExactlyOnceInOrder'
  <2>1. delivered \in Seq(Msg) /\ delivered' = delivered
    OBVIOUS
  <2>2. (delivered \o Batch) \o Append(Pending, m)
            = Append((delivered \o Batch) \o Pending, m)
    <3> HIDE DEF IInv, QueueTypeOK, PushBack
    <3> QED
      BY <1>5, <2>1, AppendToLast
  <2>3. pushed' = Append((delivered \o Batch) \o Pending, m)
    BY DEF ExactlyOnceInOrder
  <2> QED
    BY <1>3, <1>4, <2>1, <2>2, <2>3, Zenon DEF ExactlyOnceInOrder
<1> QED
  BY <1>1, <1>2, <1>6

\* A step that leaves the vectors and what was fetched alone keeps what is
\* said of them.
LEMMA QueueUnchanged ==
    ASSUME VectorsApart, ExactlyOnceInOrder,
           UNCHANGED <<queueVars, fetched, pushed, delivered>>
    PROVE  VectorsApart' /\ ExactlyOnceInOrder'
  BY DEF VectorsApart, ExactlyOnceInOrder, Batch, Pending, queueVars

\* Every step of a producer keeps the invariant.
LEMMA ProduceStep ==
    ASSUME IInv, NEW p \in Producers, Produce(p) PROVE IInv'
<1> USE QueueAssumption DEF IInv
<1>1. ASSUME NEW m \in Msg, PushMsgAppend(p, m) \/ PushMsgNoLock(p, m) PROVE IInv'
  <2>1. PushBack(m) /\ UNCHANGED <<queueMutex, cpc, form, fetched, delivered, currQueue>>
    BY <1>1 DEF PushMsgAppend, PushMsgNoLock, PushBack
  <2>2. /\ msgQueue' \in [{0, 1} -> Seq(Msg)]
        /\ pushed' \in Seq(Msg)
        /\ VectorsApart'
        /\ ExactlyOnceInOrder'
    BY <2>1, PushBackStep
  <2>3. ppc' \in [Producers -> ProducerPC]
    BY <1>1 DEF PushMsgAppend, PushMsgNoLock, QueueTypeOK, ProducerPC
  <2>4. QueueTypeOK'
    BY <2>1, <2>2, <2>3 DEF QueueTypeOK
  <2>5. MutexHeld'
    BY <1>1, <2>1 DEF PushMsgAppend, PushMsgNoLock, MutexHeld, InSection, QueueTypeOK, Threads
  <2>6. FetchedFollowsPC'
    BY <2>1 DEF FetchedFollowsPC
  <2> QED
    BY <2>2, <2>4, <2>5, <2>6
<1>2. ASSUME PushMsgLock(p) \/ PushLock(p) PROVE IInv'
  <2> USE <1>2 DEF PushMsgLock, PushLock, Lock
  <2>1. QueueTypeOK'
    BY DEF QueueTypeOK, ProducerPC, Threads, queueVars
  <2>2. MutexHeld'
    BY DEF MutexHeld, InSection, QueueTypeOK, Threads
  <2>3. FetchedFollowsPC'
    BY DEF FetchedFollowsPC
  <2> QED
    BY <2>1, <2>2, <2>3, QueueUnchanged
<1>3. ASSUME PushMsgUnlock(p) \/ PushUnlock(p) PROVE IInv'
  <2> USE <1>3 DEF PushMsgUnlock, PushUnlock, Unlock
  <2>1. QueueTypeOK'
    BY DEF QueueTypeOK, ProducerPC, Threads, queueVars
  <2>2. MutexHeld'
    BY DEF MutexHeld, InSection, QueueTypeOK, Threads
  <2>3. FetchedFollowsPC'
    BY DEF FetchedFollowsPC
  <2> QED
    BY <2>1, <2>2, <2>3, QueueUnchanged
<1>4. ASSUME PushMsgSet(p) PROVE IInv'
  <2> USE <1>4 DEF PushMsgSet
  <2>1. QueueTypeOK'
    BY DEF QueueTypeOK, ProducerPC, queueVars
  <2>2. MutexHeld'
    BY DEF MutexHeld, InSection, QueueTypeOK, Threads
  <2>3. FetchedFollowsPC'
    BY DEF FetchedFollowsPC
  <2> QED
    BY <2>1, <2>2, <2>3, QueueUnchanged
<1> QED
  BY <1>1, <1>2, <1>3, <1>4 DEF Produce

\* The consumer's calls and its stay inside Event::tryWait change nothing of
\* the queue.
LEMMA WaitStep ==
    ASSUME IInv, FetchMsg \/ (\E f \in Forms : FetchWait(f)) \/ Waiting
    PROVE  IInv'
<1> USE QueueAssumption DEF IInv
<1>1. UNCHANGED <<queueVars, queueMutex, ppc, fetched, pushed, delivered>>
  BY DEF FetchMsg, FetchWait, Waiting
<1>2. /\ cpc \in {"idle", "wait"}
      /\ cpc' \in {"idle", "wait", "fetch", "reset"}
      /\ form' \in {"poll", "timed", "event"}
      /\ cpc' = "reset" => form' = "event"
  BY DEF FetchMsg, FetchWait, Waiting, AfterWait, QueueTypeOK
<1>3. QueueTypeOK'
  BY <1>1, <1>2 DEF QueueTypeOK, ConsumerPC, queueVars
<1>4. MutexHeld'
  BY <1>1, <1>2 DEF MutexHeld, InSection, Threads
<1>5. FetchedFollowsPC'
  BY <1>1, <1>2 DEF FetchedFollowsPC
<1> QED
  BY <1>1, <1>3, <1>4, <1>5, QueueUnchanged

\* fetchMsg() exchanges the vectors: what was waiting becomes the consumer's
\* batch, and producers get the spare vector, which is empty.
LEMMA SwapStep == ASSUME IInv, FetchSwap PROVE IInv'
<1> USE QueueAssumption DEF IInv, FetchSwap
<1>0. fetched = Null /\ msgQueue[1 - currQueue] = <<>>
  BY DEF FetchedFollowsPC, VectorsApart
<1>1. QueueTypeOK'
  BY DEF QueueTypeOK, ConsumerPC
<1>2. MutexHeld'
  BY DEF MutexHeld, InSection, QueueTypeOK, Threads
<1>3. FetchedFollowsPC'
  BY DEF FetchedFollowsPC
<1>4. VectorsApart'
  BY <1>0 DEF VectorsApart, QueueTypeOK
<1>5. ExactlyOnceInOrder'
  <2>1. CASE msgQueue[currQueue] = <<>>
    BY <1>0, <2>1 DEF ExactlyOnceInOrder, Batch, Pending
  <2>2. CASE msgQueue[currQueue] # <<>>
    <3>1. Batch' = Pending /\ Pending' = <<>> /\ Batch = <<>>
      BY <1>0, <2>2 DEF Batch, Pending, QueueTypeOK
    <3>2. Pending \in Seq(Msg) /\ delivered \in Seq(Msg)
      BY DEF Pending, QueueTypeOK
    <3>3. (delivered \o Pending) \o <<>> = (delivered \o <<>>) \o Pending
      BY <3>2, ConcatEmptySeq, ConcatProperties
    <3> QED
      BY <3>1, <3>3 DEF ExactlyOnceInOrder
  <2> QED
    BY <2>1, <2>2
<1> QED
  BY <1>1, <1>2, <1>3, <1>4, <1>5

\* fetchEnd clears the consumer's vector, without the lock: the batch becomes
\* delivered and the spare vector is empty again.
LEMMA EndStep == ASSUME IInv, FetchEnd PROVE IInv'
<1> USE QueueAssumption DEF IInv, FetchEnd
<1>0. fetched \in {0, 1} /\ fetched # currQueue /\ fetched = 1 - currQueue
  BY DEF FetchedFollowsPC, VectorsApart, QueueTypeOK
<1>1. QueueTypeOK'
  <2>1. msgQueue' \in [{0, 1} -> Seq(Msg)]
    BY <1>0, EmptySeq DEF QueueTypeOK
  <2>2. delivered' \in Seq(Msg)
    BY <1>0, ConcatProperties DEF QueueTypeOK
  <2> QED
    BY <2>1, <2>2 DEF QueueTypeOK, ConsumerPC
<1>2. MutexHeld'
  BY DEF MutexHeld, InSection, QueueTypeOK, Threads
<1>3. FetchedFollowsPC'
  BY DEF FetchedFollowsPC
<1>4. VectorsApart'
  BY <1>0 DEF VectorsApart, QueueTypeOK
<1>5. ExactlyOnceInOrder'
  <2>1. Batch = msgQueue[fetched] /\ Batch' = <<>>
    BY <1>0 DEF Batch
  <2>2. Pending' = Pending
    BY <1>0 DEF Pending, QueueTypeOK
  <2>3. delivered' = delivered \o Batch /\ delivered' \in Seq(Msg)
    BY <1>1, <2>1 DEF QueueTypeOK
  <2>4. delivered' \o <<>> = delivered'
    BY <2>3, ConcatEmptySeq
  <2> QED
    BY <2>1, <2>2, <2>3, <2>4 DEF ExactlyOnceInOrder
<1> QED
  BY <1>1, <1>2, <1>3, <1>4, <1>5

\* Every step of the consumer keeps the invariant.
LEMMA ConsumeStep == ASSUME IInv, Consume PROVE IInv'
<1> USE QueueAssumption DEF IInv
<1>1. ASSUME FetchLock \/ FetchUnlock PROVE IInv'
  <2> USE <1>1 DEF FetchLock, FetchUnlock, Lock, Unlock
  <2>1. QueueTypeOK'
    BY DEF QueueTypeOK, ConsumerPC, Threads, queueVars, AfterFetch
  <2>2. MutexHeld'
    BY DEF MutexHeld, InSection, QueueTypeOK, Threads, AfterFetch
  <2>3. FetchedFollowsPC'
    BY DEF FetchedFollowsPC, AfterFetch
  <2> QED
    BY <2>1, <2>2, <2>3, QueueUnchanged
<1>2. ASSUME FetchReset PROVE IInv'
  <2> USE <1>2 DEF FetchReset
  <2>1. QueueTypeOK'
    BY DEF QueueTypeOK, ConsumerPC, queueVars, AfterFetch
  <2>2. MutexHeld'
    BY DEF MutexHeld, InSection, QueueTypeOK, Threads, AfterFetch
  <2>3. FetchedFollowsPC'
    BY DEF FetchedFollowsPC, AfterFetch
  <2> QED
    BY <2>1, <2>2, <2>3, QueueUnchanged
<1> QED
  BY <1>1, <1>2, WaitStep, SwapStep, EndStep DEF Consume

\* IInv is inductive.
LEMMA StepIInv == IInv /\ [MqNext]_mqVars => IInv'
<1>1. ASSUME IInv, UNCHANGED mqVars PROVE IInv'
  BY <1>1
     DEF mqVars, IInv, QueueTypeOK, MutexHeld, InSection, FetchedFollowsPC,
         VectorsApart, ExactlyOnceInOrder, Batch, Pending
<1> QED
  BY <1>1, ProduceStep, ConsumeStep DEF MqNext

-----------------------------------------------------------------------------
(* The theorems.                                                            *)

\* IInv holds in every reachable state.
THEOREM Invariance == MqSpec => []IInv
  BY InitIInv, StepIInv, PTL DEF MqSpec

\* The flag stays a Boolean and the consumer's wait phase a phase.
LEMMA EventStep == Ev!EventTypeOK /\ [MqNext]_mqVars => Ev!EventTypeOK'
<1> SUFFICES ASSUME Ev!EventTypeOK, [MqNext]_mqVars PROVE Ev!EventTypeOK'
  OBVIOUS
<1>1. \/ Ev!SetImpl \/ Ev!ResetImpl \/ UNCHANGED eventVars
      \/ Ev!WaitBlocks(Consumer) \/ Ev!WaitReturns(Consumer)
      \/ Ev!WaitExpires(Consumer) \/ Ev!WaitTimedOut(Consumer)
  BY DEF MqNext, Produce, PushMsgLock, PushMsgAppend, PushMsgSet, PushMsgUnlock,
         PushLock, PushMsgNoLock, PushUnlock, Consume, FetchMsg, FetchWait,
         Waiting, FetchLock, FetchSwap, FetchUnlock, FetchReset, FetchEnd,
         mqVars, eventVars
<1>2. evState' \in BOOLEAN
  BY <1>1, Zenon DEF Ev!SetImpl, Ev!ResetImpl, Ev!WaitBlocks, Ev!WaitReturns,
         Ev!WaitExpires, Ev!WaitTimedOut, Ev!EventTypeOK, eventVars
<1>3. evWait' \in [{Consumer} -> Ev!Phases]
  <2>1. evWait \in [{Consumer} -> Ev!Phases]
    BY DEF Ev!EventTypeOK
  <2> QED
    BY <1>1, <2>1 DEF Ev!SetImpl, Ev!ResetImpl, Ev!WaitBlocks, Ev!WaitReturns,
         Ev!WaitExpires, Ev!WaitTimedOut, Ev!Phases, eventVars
<1> QED
  BY <1>2, <1>3 DEF Ev!EventTypeOK

\* The variables keep their types: in particular _currQueue stays 0 or 1 and
\* both vectors hold only messages.
THEOREM TypeCorrect == MqSpec => []MqTypeOK
<1>1. MqInit => Ev!EventTypeOK
  <2>1. MqInit => evState \in BOOLEAN
    BY Zenon DEF MqInit, Ev!EventInit
  <2>2. MqInit => evWait \in [{Consumer} -> Ev!Phases]
    BY DEF MqInit, Ev!EventInit, Ev!Phases
  <2> QED
    BY <2>1, <2>2 DEF Ev!EventTypeOK
<1>2. IInv /\ Ev!EventTypeOK => MqTypeOK
  BY DEF IInv, MqTypeOK
<1> QED
  BY <1>1, <1>2, EventStep, Invariance, PTL DEF MqSpec

\* Every message is delivered at most once, in the order pushed, and none is
\* lost between the two vectors of the queue.
THEOREM Conservation == MqSpec => []ExactlyOnceInOrder
<1>1. IInv => ExactlyOnceInOrder
  BY DEF IInv
<1> QED
  BY <1>1, Invariance, PTL

\* The lock is held by exactly the thread between Lock() and Unlock().
THEOREM MutualExclusion == MqSpec => []MutexHeld
<1>1. IInv => MutexHeld
  BY DEF IInv
<1> QED
  BY <1>1, Invariance, PTL

\* The consumer's vector and the producers' vector are never the same one.
THEOREM Apart == MqSpec => []VectorsApart
<1>1. IInv => VectorsApart
  BY DEF IInv
<1> QED
  BY <1>1, Invariance, PTL

\* The queue as a whole: nothing is lost, doubled or reordered, the vector
\* being filled is never the one handed out, and the lock excludes.
THEOREM QueueIsExact == MqSpec => []QueueExact
<1>1. IInv => QueueExact
  BY DEF IInv, QueueExact
<1> QED
  BY <1>1, Invariance, PTL

\* While the consumer keeps the vector it got, no step changes that vector.
THEOREM StableBatch == MqSpec => FetchedVectorStable
<1>1. ASSUME IInv, MqNext, fetched # Null, fetched' = fetched
      PROVE  msgQueue'[fetched] = msgQueue[fetched]
  <2> USE QueueAssumption
  <2>0. fetched # currQueue /\ fetched \in {0, 1}
    BY <1>1 DEF IInv, VectorsApart, QueueTypeOK
  <2>1. ASSUME NEW p \in Producers, Produce(p)
        PROVE  msgQueue'[fetched] = msgQueue[fetched]
    BY <1>1, <2>0, <2>1
       DEF Produce, PushMsgLock, PushMsgAppend, PushMsgSet, PushMsgUnlock,
           PushLock, PushMsgNoLock, PushUnlock, PushBack, IInv, QueueTypeOK, queueVars
  <2>2. ASSUME Consume
        PROVE  msgQueue'[fetched] = msgQueue[fetched]
    BY <1>1, <2>0, <2>2
       DEF Consume, FetchMsg, FetchWait, Waiting, FetchLock, FetchSwap,
           FetchUnlock, FetchReset, FetchEnd, queueVars
  <2> QED
    BY <1>1, <2>1, <2>2 DEF MqNext
<1>2. IInv /\ [MqNext]_mqVars =>
        [fetched # Null /\ fetched' = fetched
           => msgQueue'[fetched] = msgQueue[fetched]]_mqVars
  BY <1>1 DEF mqVars
<1> QED
  BY <1>2, Invariance, PTL DEF MqSpec, FetchedVectorStable

\* MsgQueue implements Channel: a push is a Send, the swap of fetchMsg() is
\* the Take, fetchEnd is the GiveBack, and every other step is invisible.
THEOREM Refinement == MqSpec => ImplementsChannel
<1>1. MqInit => Ch!Init
  BY DEF MqInit, Ch!Init, Pending, Batch
<1>2. IInv /\ [MqNext]_mqVars => [Ch!Next]_(Ch!chVars)
  <2> SUFFICES ASSUME IInv, [MqNext]_mqVars PROVE [Ch!Next]_(Ch!chVars)
    OBVIOUS
  <2> USE QueueAssumption
  <2>1. ASSUME UNCHANGED <<queueVars, fetched, delivered>>
        PROVE  UNCHANGED Ch!chVars
    BY <2>1 DEF Ch!chVars, Pending, Batch, queueVars
  <2>2. ASSUME NEW m \in Msg, PushBack(m), UNCHANGED <<fetched, delivered>>
        PROVE  Ch!Send(m)
    BY <2>2 DEF Ch!Send, PushBack, Pending, Batch, IInv, QueueTypeOK, VectorsApart
  <2>3. ASSUME FetchSwap PROVE Ch!Take \/ UNCHANGED <<queueVars, fetched, delivered>>
    BY <2>3 DEF FetchSwap, Ch!Take, Pending, Batch, IInv, QueueTypeOK,
                VectorsApart, FetchedFollowsPC, queueVars
  <2>4. ASSUME FetchEnd PROVE [Ch!GiveBack]_(Ch!chVars)
    <3>1. fetched \in {0, 1} /\ fetched # currQueue
      BY <2>4 DEF FetchEnd, IInv, FetchedFollowsPC, VectorsApart, QueueTypeOK
    <3>2. /\ Batch = msgQueue[fetched] /\ Batch' = <<>>
          /\ Pending' = Pending
          /\ delivered' = delivered \o Batch
      BY <2>4, <3>1 DEF FetchEnd, Batch, Pending, IInv, QueueTypeOK
    <3>3. Batch = <<>> => delivered' = delivered
      BY <3>2, ConcatEmptySeq DEF IInv, QueueTypeOK
    <3> QED
      BY <3>2, <3>3 DEF Ch!GiveBack, Ch!chVars
  <2>5. ASSUME NEW p \in Producers, Produce(p)
        PROVE  [Ch!Next]_(Ch!chVars)
    <3>1. \/ UNCHANGED <<queueVars, fetched, delivered>>
          \/ \E m \in Msg : PushBack(m) /\ UNCHANGED <<fetched, delivered>>
      BY <2>5 DEF Produce, PushMsgLock, PushMsgAppend, PushMsgSet,
                  PushMsgUnlock, PushLock, PushMsgNoLock, PushUnlock
    <3> QED
      BY <2>1, <2>2, <3>1 DEF Ch!Next
  <2>6. ASSUME Consume PROVE [Ch!Next]_(Ch!chVars)
    <3>1. \/ UNCHANGED <<queueVars, fetched, delivered>>
          \/ FetchSwap
          \/ FetchEnd
      BY <2>6 DEF Consume, FetchMsg, FetchWait, Waiting, FetchLock,
                  FetchUnlock, FetchReset
    <3> QED
      BY <2>1, <2>3, <2>4, <3>1 DEF Ch!Next
  <2> QED
    BY <2>1, <2>5, <2>6 DEF MqNext, mqVars, queueVars
<1> QED
  BY <1>1, <1>2, Invariance, PTL DEF MqSpec, ImplementsChannel, Ch!Spec
=============================================================================
