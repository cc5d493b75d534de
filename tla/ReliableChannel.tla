-------------------------- MODULE ReliableChannel --------------------------
(***************************************************************************)
(* What the reliability layer promises for RELIABLE messages               *)
(* (PacketPriority.h): every message handed to the peer's user was sent,   *)
(* and it is handed over at most once, in no particular order.  Messages   *)
(* are named by the order in which the sender numbered them: 0, 1, 2 ...   *)
(***************************************************************************)
EXTENDS Naturals, Sequences

VARIABLES
    sentCount,   \* messages 0 .. sentCount-1 have been numbered by the sender
    output       \* the messages handed to the receiving user

vars == <<sentCount, output>>

Init == sentCount = 0 /\ output = <<>>

(* The sender accepts one or more messages.                                *)
Send ==
    /\ sentCount' \in Nat
    /\ sentCount' > sentCount
    /\ UNCHANGED output

(* A delivery hands over one message that was sent and not handed over.    *)
Deliver ==
    /\ \E m \in 0 .. sentCount - 1 :
          /\ \A i \in DOMAIN output : output[i] # m
          /\ output' = Append(output, m)
    /\ UNCHANGED sentCount

Next == Send \/ Deliver

Spec == Init /\ [][Next]_vars
=============================================================================
