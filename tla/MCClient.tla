------------------------------ MODULE MCClient ------------------------------
(***************************************************************************)
(* The parts of the client that share no state, checked together: the       *)
(* worker thread, the packet framing and the message queue.  A behaviour of  *)
(* the whole is one of a part: "part" says whose, and the variables of the   *)
(* others do not move.                                                       *)
(***************************************************************************)
EXTENDS Worker, ClientNet, MsgQueue

VARIABLE part

ClientVars == <<part, vars, cnVars, mqVars>>

ClientInit ==
    /\ part \in {"worker", "net", "queue"}
    /\ Init /\ NetInit /\ MqInit

ClientNext ==
    /\ UNCHANGED part
    /\ \/ part = "worker" /\ Next /\ UNCHANGED <<cnVars, mqVars>>
       \/ part = "net" /\ NetNext /\ UNCHANGED <<vars, mqVars>>
       \/ part = "queue" /\ MqNext /\ UNCHANGED <<vars, cnVars>>

(***************************************************************************)
(* Fairness of the queue: the consumer is a loop (TcpClient's 50 ms timer    *)
(* calls onRunCheck for ever), a producer that began to push goes on to the  *)
(* end of its push, and a mutex that is released again and again is granted  *)
(* to the consumer some time (a producer may take and release it without     *)
(* end).  Nothing makes a producer begin to push.                            *)
(***************************************************************************)
ClientTypeOK == TypeOK /\ NetTypeOK /\ MqTypeOK

Queue == part = "queue"
QueueFair ==
    /\ WF_mqVars(Queue /\ Consume)
    /\ SF_mqVars(Queue /\ FetchLock)
    /\ \A p \in Producers : WF_mqVars(Queue /\ ppc[p] # "idle" /\ Produce(p))

\* The other two begin with none of their fair actions enabled, so that one
\* that does not move is not asked to.
ClientSpec ==
    /\ ClientInit /\ [][ClientNext]_ClientVars
    /\ WorkerFair /\ NetFair /\ QueueFair
=============================================================================
