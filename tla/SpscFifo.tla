------------------------------- MODULE SpscFifo -------------------------------
(***************************************************************************)
(* What a single-producer, single-consumer queue promises: the elements it   *)
(* accepts come out once each and in order.  The k-th element accepted is    *)
(* the number k.                                                            *)
(***************************************************************************)
EXTENDS Naturals, Sequences

VARIABLES
    sent,       \* elements accepted
    queue,      \* elements waiting
    received    \* elements handed to the consumer

vars == <<sent, queue, received>>

Init == sent = 0 /\ queue = <<>> /\ received = <<>>

Accept ==
    /\ sent' = sent + 1
    /\ queue' = Append(queue, sent')
    /\ UNCHANGED received

Deliver ==
    /\ queue # <<>>
    /\ received' = Append(received, Head(queue))
    /\ queue' = Tail(queue)
    /\ UNCHANGED sent

Next == Accept \/ Deliver

Spec == Init /\ [][Next]_vars

===============================================================================
