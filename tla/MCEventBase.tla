----------------------------- MODULE MCEventBase -----------------------------
(***************************************************************************)
(* EventBase for TLC: a persistent event with a descriptor, a one-shot timer *)
(* of a higher priority, and the event of event_base_loopexit().             *)
(***************************************************************************)
EXTENDS EventBase

CONSTANTS io, timer

MCPri == [e \in AllEvents |-> IF e \in {NotifyEv, timer} THEN 0 ELSE 1]
=============================================================================
