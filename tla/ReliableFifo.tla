---------------------------- MODULE ReliableFifo ---------------------------
(***************************************************************************)
(* What a KCP conversation promises the session on top of it: a first-in   *)
(* first-out queue of messages that loses, repeats and reorders nothing.   *)
(***************************************************************************)
EXTENDS Sequences

CONSTANT Data  \* messages

VARIABLES
  queue,  \* accepted by Send and not yet returned by Recv
  got     \* what Recv has returned, in order

vars == <<queue, got>>

Init == queue = <<>> /\ got = <<>>

Send(d) == queue' = Append(queue, d) /\ UNCHANGED got

Recv == /\ queue # <<>>
        /\ got' = Append(got, Head(queue))
        /\ queue' = Tail(queue)

Next == (\E d \in Data : Send(d)) \/ Recv

Spec == Init /\ [][Next]_vars
=============================================================================
