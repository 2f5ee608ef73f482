------------------------------- MODULE Channel -------------------------------
(***************************************************************************)
(* What System::MsgQueue promises its users: an unbounded FIFO between many *)
(* senders and one receiver, who takes everything that is waiting as one    *)
(* batch, works on it undisturbed and gives it back.                        *)
(***************************************************************************)
EXTENDS Sequences

CONSTANT Msg   \* the messages

VARIABLES pending,    \* sent and not yet taken
          batch,      \* taken and not yet given back
          delivered   \* given back, in order

chVars == <<pending, batch, delivered>>

Init ==
    /\ pending = <<>>
    /\ batch = <<>>
    /\ delivered = <<>>

Send(m) ==
    /\ pending' = Append(pending, m)
    /\ UNCHANGED <<batch, delivered>>

Take ==
    /\ batch = <<>>
    /\ pending # <<>>
    /\ batch' = pending
    /\ pending' = <<>>
    /\ UNCHANGED delivered

GiveBack ==
    /\ batch # <<>>
    /\ delivered' = delivered \o batch
    /\ batch' = <<>>
    /\ UNCHANGED pending

Next ==
    \/ \E m \in Msg : Send(m)
    \/ Take
    \/ GiveBack

Spec == Init /\ [][Next]_chVars
=============================================================================
