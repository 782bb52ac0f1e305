---------------------------------- MODULE Rpc ---------------------------------
(***************************************************************************)
(* What a lafere connection promises the users at its two ends, call by     *)
(* call and without tasks, ids or packets: a Request gets one outcome, an    *)
(* Ok outcome is the answer its responder gave, NoResponse means that the    *)
(* responder gave none and never will; a stream hands its consumer what the  *)
(* producer put in, in order, each message at most once.                     *)
(***************************************************************************)
EXTENDS Naturals

CONSTANTS Calls, Requests, MaxMsgs,
          Lossy         \* a message may be lost: its body may fail to parse

VARIABLES outcome,      \* of starting the call, and of a Request
          sent,         \* messages the producer has put in
          arrived       \* number of the last one handed to the consumer

rpcVars == <<outcome, sent, arrived>>

Init == /\ outcome = [c \in Calls |-> "idle"]
        /\ sent = [c \in Calls |-> 0]
        /\ arrived = [c \in Calls |-> 0]

Start(c, o) == /\ outcome[c] = "idle" /\ o \in {"pending", "AlreadyClosed"}
               /\ outcome' = [outcome EXCEPT ![c] = o]
               /\ UNCHANGED <<sent, arrived>>

\* nothing is accepted from a responder whose requestor was told there is no answer
Produce(c) == /\ outcome[c] \notin {"idle", "AlreadyClosed", "NoResponse", "MalformedRequest"}
              /\ sent[c] < IF c \in Requests THEN 1 ELSE MaxMsgs
              /\ sent' = [sent EXCEPT ![c] = @ + 1]
              /\ UNCHANGED <<outcome, arrived>>

Arrive(c) == /\ c \notin Requests
             /\ \E n \in arrived[c] + 1 .. sent[c] :
                  /\ Lossy \/ n = arrived[c] + 1
                  /\ arrived' = [arrived EXCEPT ![c] = n]
             /\ UNCHANGED <<outcome, sent>>

Resolved == {"Ok", "ResponsePacket", "NoResponse", "MalformedRequest", "Cancelled"}

Resolve(c, o) ==
    /\ c \in Requests /\ outcome[c] = "pending"
    /\ outcome' = [outcome EXCEPT ![c] = o]
    /\ o \in {"Ok", "ResponsePacket"} => sent[c] = 1
    /\ o \in {"NoResponse", "MalformedRequest"} => sent[c] = 0
    /\ arrived' = [arrived EXCEPT ![c] = IF o = "Ok" THEN 1 ELSE @]
    /\ UNCHANGED sent

\* the task gives up Requests, all that it knows of at once when it closes or ends
Fail(S) == /\ S # {} /\ S \subseteq {c \in Requests : outcome[c] = "pending"}
           /\ outcome' = [c \in Calls |-> IF c \in S THEN "TaskFailed" ELSE outcome[c]]
           /\ UNCHANGED <<sent, arrived>>

Next == \/ \E c \in Calls :
            \/ \E o \in {"pending", "AlreadyClosed"} : Start(c, o)
            \/ Produce(c)
            \/ Arrive(c)
            \/ \E o \in Resolved : Resolve(c, o)
        \/ \E S \in SUBSET Requests : Fail(S)

Spec == Init /\ [][Next]_rpcVars
===============================================================================
