-------------------------- MODULE MCReceiveWindow --------------------------
(***************************************************************************)
(* Model-checking instance of ReceiveWindow.  The range has 10 numbers,    *)
(* the resend buffer 3 slots, and 12 messages are sent from number 0 or    *)
(* number 8: every number is used again.  The hole limit lies above the    *)
(* resend buffer, so that it is the sender that bounds the queue.          *)
(***************************************************************************)
EXTENDS ReceiveWindow

MCStartNumbers == {0, 8}
=============================================================================
