-------------------------------- MODULE Packets --------------------------------
(***************************************************************************)
(* What a packet stream promises a task: the packets sent on one side are   *)
(* received on the other, in order and each once; one whose body does not   *)
(* parse is reported at its place.                                          *)
(***************************************************************************)
EXTENDS Naturals, Sequences

VARIABLES sent, received    \* packets, as [frame, ok]

Init == sent = <<>> /\ received = <<>>

Send(p) == sent' = Append(sent, p) /\ UNCHANGED received

Deliver ==
    /\ Len(received) < Len(sent)
    /\ received' = Append(received, sent[Len(received) + 1])
    /\ UNCHANGED sent

Next == (\E ok \in BOOLEAN : Send([frame |-> Len(sent) + 1, ok |-> ok])) \/ Deliver

Spec == Init /\ [][Next]_<<sent, received>>
=============================================================================
