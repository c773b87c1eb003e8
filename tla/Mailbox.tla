------------------------------ MODULE Mailbox ------------------------------
(***************************************************************************)
(* What try_send and try_receive promise their callers: a bounded first-in *)
(* first-out queue that refuses a message when it is full.                 *)
(***************************************************************************)
EXTENDS Naturals, Sequences

CONSTANT Depth

VARIABLE queue

Init == queue = <<>>
Put == /\ Len(queue) < Depth
       /\ Len(queue') = Len(queue) + 1
       /\ SubSeq(queue', 1, Len(queue)) = queue
Take == queue # <<>> /\ queue' = Tail(queue)
\* A new server registers with a new endpoint.
Renew == queue' = <<>>

Spec == Init /\ [][Put \/ Take \/ Renew]_queue
=============================================================================
