------------------------------ MODULE Connection ------------------------------
(***************************************************************************)
(* One lafere connection: the background tasks of its two ends (bg_stream  *)
(* and Handler of lafere/src/handler/handler.rs), the handles their users   *)
(* hold (Sender, Receiver, ResponseSender, StreamSender, StreamReceiver)    *)
(* and the byte stream between them, as a bounded FIFO of packets.          *)
(*                                                                         *)
(* A call c of kind KindOf[c], started by CallerOf[c], is one channel from  *)
(* its producer Prod(c) to its consumer Cons(c): the answer of a Request,   *)
(* the stream of a RequestReceiver, and, the other way, the stream of a     *)
(* RequestSender.  The producer's user fills up[c] (the oneshot or mpsc     *)
(* whose receiver is in waiting_on_user of Prod(c)); the consumer's task    *)
(* fills down[c] (the one whose sender is in waiting_on_stream of Cons(c)). *)
(* A packet's call and n are the payload: which call a body belongs to and  *)
(* its place in that call's sequence.  The code never looks at them.        *)
(***************************************************************************)
EXTENDS Integers, Sequences, FiniteSets

CONSTANTS
    Calls,          \* the calls users may start
    CallerOf,       \* who starts each of them
    KindOf,         \* Request, RequestReceiver or RequestSender
    Enable,         \* the EnableServerRequests item of the queues
    NoCall,
    Mid,            \* U32_MID
    MaxId,          \* u32::MAX
    QueueCap,       \* rx_requests and tx_requests, 10 in the code
    StreamCap,      \* the mpsc of a stream, 10 in the code
    LinkCap,        \* packets in flight in one direction
    MaxMsgs,        \* bound: messages a user puts in one stream
    BadKinds,       \* kinds whose body may fail to parse on arrival
    MayEnable,      \* bound: EnableServerRequests of the client on their way at once
    MayPing,        \* bound: whose ping interval fires
    MayClose,       \* bound: whose user closes or drops the connection
    MayDrop,        \* bound: whose user drops its Receiver
    MayCancel,      \* bound: calls whose consumer may lose interest
    MayBreak,       \* bound: whether the byte stream may fail
    MaxReconnects   \* bound: reconnections; 0 is a client without ReconStrat

Peers == {"client", "server"}
Other(p) == IF p = "client" THEN "server" ELSE "client"

RequestKinds == {"Request", "RequestReceiver", "RequestSender"}
BodyKinds == RequestKinds \cup {"Response", "Stream"}
Kinds == BodyKinds \cup {"NoResponse", "MalformedRequest", "StreamClosed",
                         "EnableServerRequests", "Close", "Ping"}

ASSUME CallsAssumption == /\ CallerOf \in [Calls -> Peers]
                          /\ KindOf \in [Calls -> RequestKinds]
                          /\ NoCall \notin Calls
                          /\ Enable \notin Calls
ASSUME IdAssumption == Mid \in Nat /\ MaxId \in Nat /\ Mid < MaxId
ASSUME CapAssumption == /\ {QueueCap, StreamCap, LinkCap, MaxMsgs} \subseteq Nat \ {0}
                         /\ MaxReconnects \in Nat
ASSUME BoundAssumption == /\ BadKinds \subseteq BodyKinds
                          /\ MayPing \cup MayClose \cup MayDrop \subseteq Peers
                          /\ MayCancel \subseteq Calls
                          /\ MayEnable \in Nat /\ MayBreak \in BOOLEAN

Ids == 0 .. MaxId
NoId == MaxId + 1                       \* the counter's None

Packets == {m \in [kind : Kinds, id : Ids, call : Calls \cup {NoCall}, n : 0 .. MaxMsgs] :
                m.kind \in BodyKinds => m.call \in Calls}
Packet(k, id, c, n) == [kind |-> k, id |-> id, call |-> c, n |-> n]
Control(k, id) == Packet(k, id, NoCall, 0)      \* P::empty() with its header

IsRequest(c) == KindOf[c] = "Request"
Prod(c) == IF KindOf[c] = "RequestSender" THEN CallerOf[c] ELSE Other(CallerOf[c])
Cons(c) == Other(Prod(c))

Bodies == [call : Calls \cup {NoCall}, n : 0 .. MaxMsgs]
Body(m) == [call |-> m.call, n |-> m.n]

EmptyTable == [i \in Ids |-> NoCall]
CallsIn(table) == {c \in Calls : \E i \in Ids : table[i] = c}
CallsOf(queue) == {c \in Calls : \E i \in 1 .. Len(queue) : queue[i] = c}

VARIABLES
    mode,               \* HandlerState, without its counter
    next,               \* the counter of HandlerState
    waiting_on_stream,  \* id -> call whose body this end waits for
    waiting_on_user,    \* id -> call this end's user feeds
    rx_requests,        \* queue from the Sender handles to the task
    rx_open,            \* rx_requests not closed
    tx_requests,        \* queue from the task to the Receiver handle
    receiver,           \* the Receiver handle exists
    may_call,           \* the user may use its Sender (server.rs sender_enabled)
    task,               \* where bg_stream is, and the packet it is busy with
    should_close,
    close_packet,       \* bg_stream's close_packet is Some
    close_signal,       \* TaskHandle.close: not used, sent or dropped, seen by the task
    result,             \* what bg_stream returned
    link,               \* packets written and not yet received
    broken,             \* the byte stream failed
    reconnects,         \* byte streams the client has opened after the first
    id_of,              \* history: the id a call was given, below 0 for one of an
                        \* earlier byte stream
    res,                \* outcome of starting a call, and of a Request
    tx,                 \* the producer's handle on up
    up,                 \* answer or messages not yet taken by the task
    shut,               \* receiving half of up closed or dropped
    sent,               \* history: messages the producer's user has put in
    rx,                 \* a stream consumer's handle on down
    down,               \* bodies the consumer's task has put in
    got                 \* history: the last message its user took or threw away

peerVars == <<mode, next, waiting_on_stream, waiting_on_user>>
receiverVars == <<tx_requests, receiver, may_call>>
userQueueVars == <<rx_open, receiverVars>>
queueVars == <<rx_requests, userQueueVars>>
endVars == <<should_close, close_packet, close_signal, result>>
taskVars == <<task, endVars>>
linkVars == <<link, broken, reconnects>>
prodVars == <<tx, up, shut, sent>>
consVars == <<rx, down, got>>
handleVars == <<prodVars, consVars, id_of>>
callVars == <<handleVars, res>>
vars == <<peerVars, queueVars, taskVars, linkVars, callVars>>

Idle == [at |-> "select", packet |-> Control("Ping", 0)]

Init ==
    /\ mode = [p \in Peers |-> IF p = "server" THEN "UniServer" ELSE "UniClient"]
    /\ next = [p \in Peers |-> IF p = "server" THEN NoId ELSE 0]
    /\ waiting_on_stream = [p \in Peers |-> EmptyTable]
    /\ waiting_on_user = [p \in Peers |-> EmptyTable]
    /\ rx_requests = [p \in Peers |-> <<>>]
    /\ rx_open = [p \in Peers |-> TRUE]
    /\ tx_requests = [p \in Peers |-> <<>>]
    /\ receiver = [p \in Peers |-> TRUE]
    /\ may_call = [p \in Peers |-> p = "client"]
    /\ task = [p \in Peers |-> Idle]
    /\ should_close = [p \in Peers |-> FALSE]
    /\ close_packet = [p \in Peers |-> FALSE]
    /\ close_signal = [p \in Peers |-> "no"]
    /\ result = [p \in Peers |-> "running"]
    /\ link = [p \in Peers |-> <<>>]
    /\ broken = FALSE
    /\ reconnects = 0
    /\ id_of = [c \in Calls |-> NoId]
    /\ res = [c \in Calls |-> "idle"]
    /\ tx = [c \in Calls |-> "none"]
    /\ up = [c \in Calls |-> <<>>]
    /\ shut = [c \in Calls |-> FALSE]
    /\ sent = [c \in Calls |-> 0]
    /\ rx = [c \in Calls |-> "none"]
    /\ down = [c \in Calls |-> <<>>]
    /\ got = [c \in Calls |-> 0]

-----------------------------------------------------------------------------
(* HandlerState *)

CanReceiveRequests(p) == mode[p] # "UniClient"
CanSendRequests(p) == mode[p] # "UniServer"

\* the first id of a server, after those of its client
FirstIdAtMid == Mid                             \* mutant: off by one
FirstServerId == Mid + 1

\* next_id: the counter after the id it returns
Advance(p) == CASE next[p] = NoId -> NoId
                [] mode[p] = "BiClient" /\ next[p] >= Mid -> NoId
                [] OTHER -> next[p] + 1

\* enable_server_requests with counter n: the new mode and counter, or the old
NewlyEnabled(p) == mode[p] \in {"UniServer", "UniClient"}
EnableServerRequests(p, n) ==
    /\ mode' = [mode EXCEPT ![p] = CASE @ = "UniServer" -> "BiServer"
                                     [] @ = "UniClient" -> "BiClient"
                                     [] OTHER -> @]
    /\ next' = [next EXCEPT ![p] =
                  CASE mode[p] = "UniServer" -> FirstServerId
                    [] mode[p] = "UniClient" -> IF n <= Mid THEN n ELSE NoId
                    [] OTHER -> n]

-----------------------------------------------------------------------------
(* What dropping the halves of channels held by a task does to the users *)

\* a Request future whose sender is dropped resolves to TaskFailed
FailedForgotten(S) == res                       \* mutant: the sender is kept
Failed(S) == [c \in Calls |-> IF c \in S /\ IsRequest(c) /\ res[c] = "pending"
                              THEN "TaskFailed" ELSE res[c]]

\* what is sent on a closed channel is refused
ShutForgotten(S) == shut                        \* mutant: the receiver is kept open
Shut(S) == [c \in Calls |-> shut[c] \/ c \in S]

\* Handler::close
CloseHandler(p) ==
    /\ should_close' = [should_close EXCEPT ![p] = TRUE]
    /\ rx_open' = [rx_open EXCEPT ![p] = FALSE]
    /\ waiting_on_stream' = [waiting_on_stream EXCEPT ![p] = EmptyTable]
    /\ res' = Failed(CallsIn(waiting_on_stream[p]))
    /\ shut' = Shut(CallsIn(waiting_on_user[p]))

\* bg_stream returns r (or panics) and the task drops the Handler
DropHandler(p) ==
    LET waiting == CallsIn(waiting_on_stream[p])
        feeding == CallsIn(waiting_on_user[p])
        queued == CallsOf(rx_requests[p])
        closed == feeding \cup {c \in queued : KindOf[c] = "RequestSender"}
    IN /\ waiting_on_stream' = [waiting_on_stream EXCEPT ![p] = EmptyTable]
       /\ waiting_on_user' = [waiting_on_user EXCEPT ![p] = EmptyTable]
       /\ rx_requests' = [rx_requests EXCEPT ![p] = <<>>]
       /\ rx_open' = [rx_open EXCEPT ![p] = FALSE]
       /\ res' = Failed(waiting \cup queued)
       /\ shut' = Shut(closed)
       /\ up' = [c \in Calls |-> IF c \in closed THEN <<>> ELSE up[c]]
       /\ UNCHANGED <<mode, next, receiverVars, consVars, tx, sent, id_of>>

\* ... unless bg_stream_reconnect keeps it for the next byte stream
KeepsHandler(p, r) == /\ p = "client" /\ MaxReconnects > 0
                      /\ r \notin {"Ok", "Join"} /\ close_signal[p] # "seen"

End(p, r) ==
    /\ result' = [result EXCEPT ![p] = r]
    /\ task' = [task EXCEPT ![p] = Idle]
    /\ IF KeepsHandler(p, r) THEN UNCHANGED <<peerVars, queueVars, callVars>>
       ELSE DropHandler(p)
    /\ UNCHANGED <<should_close, close_packet, close_signal>>

Selecting(p) == result[p] = "running" /\ task[p].at = "select"
Goto(p, at, m) == task' = [task EXCEPT ![p] = [at |-> at, packet |-> m]]
Put(table, p, id, c) == [table EXCEPT ![p][id] = c]

-----------------------------------------------------------------------------
(* The users *)

\* Connection::enable_server_requests of the client; bound: MayEnable of them on
\* their way at once, and none once the server knows
Enabling ==
    Cardinality({i \in 1 .. Len(rx_requests["client"]) : rx_requests["client"][i] = Enable})
    + Cardinality({i \in 1 .. Len(link["client"]) :
                      link["client"][i].kind = "EnableServerRequests"})
    + (IF task["client"].packet.kind = "EnableServerRequests" THEN 1 ELSE 0)
AskEnable ==
    LET p == "client" IN
    /\ mode["server"] = "UniServer" /\ Enabling < MayEnable
    /\ rx_open[p] /\ Len(rx_requests[p]) < QueueCap
    /\ rx_requests' = [rx_requests EXCEPT ![p] = Append(@, Enable)]
    /\ UNCHANGED <<peerVars, userQueueVars, taskVars, linkVars, callVars>>

\* Sender::request, request_sender, request_receiver: into rx_requests
StartCall(c) ==
    LET p == CallerOf[c] IN
    /\ res[c] = "idle" /\ may_call[p]
    /\ rx_open[p] /\ Len(rx_requests[p]) < QueueCap
    /\ rx_requests' = [rx_requests EXCEPT ![p] = Append(@, c)]
    /\ res' = [res EXCEPT ![c] = "pending"]
    /\ tx' = [tx EXCEPT ![c] = IF KindOf[c] = "RequestSender" THEN "live" ELSE @]
    /\ rx' = [rx EXCEPT ![c] = IF KindOf[c] = "RequestReceiver" THEN "live" ELSE @]
    /\ UNCHANGED <<peerVars, userQueueVars, taskVars, linkVars, up, shut, sent, down,
                   got, id_of>>

\* ... which fails with ConnectionAlreadyClosed once the task has closed it
RefuseCall(c) ==
    /\ res[c] = "idle" /\ may_call[CallerOf[c]]
    /\ ~rx_open[CallerOf[c]]
    /\ res' = [res EXCEPT ![c] = "AlreadyClosed"]
    /\ UNCHANGED <<peerVars, queueVars, taskVars, linkVars, handleVars>>

\* Receiver::receive (of a server also Connection::receive): the next request
Receive(p) ==
    /\ receiver[p] /\ tx_requests[p] # <<>>
    /\ LET item == Head(tx_requests[p]) IN
         IF item = Enable
           THEN /\ may_call' = [may_call EXCEPT ![p] = TRUE]
                /\ UNCHANGED <<tx, rx>>
           ELSE /\ tx' = [tx EXCEPT ![item] = IF Prod(item) = p THEN "live" ELSE @]
                /\ rx' = [rx EXCEPT ![item] = IF Cons(item) = p THEN "live" ELSE @]
                /\ UNCHANGED may_call
    /\ tx_requests' = [tx_requests EXCEPT ![p] = Tail(@)]
    /\ UNCHANGED <<peerVars, rx_requests, rx_open, receiver, taskVars, linkVars, up,
                   shut, sent, down, got, id_of, res>>

\* the Receiver is dropped, and with it the handles in the requests it holds
DropReceiver(p) ==
    LET held == CallsOf(tx_requests[p]) IN
    /\ p \in MayDrop /\ receiver[p]
    /\ receiver' = [receiver EXCEPT ![p] = FALSE]
    /\ tx_requests' = [tx_requests EXCEPT ![p] = <<>>]
    /\ tx' = [c \in Calls |-> IF c \in held /\ Prod(c) = p THEN "dropped" ELSE tx[c]]
    /\ rx' = [c \in Calls |-> IF c \in held /\ Cons(c) = p THEN "dropped" ELSE rx[c]]
    /\ UNCHANGED <<peerVars, rx_requests, rx_open, may_call, taskVars, linkVars, up,
                   shut, sent, down, got, id_of, res>>

\* ResponseSender::send: consumes the handle, fails if the task no longer listens
Answer(c) ==
    /\ IsRequest(c) /\ tx[c] = "live"
    /\ tx' = [tx EXCEPT ![c] = "dropped"]
    /\ up' = [up EXCEPT ![c] = IF shut[c] THEN @ ELSE <<1>>]
    /\ sent' = [sent EXCEPT ![c] = IF shut[c] THEN @ ELSE 1]
    /\ UNCHANGED <<peerVars, queueVars, taskVars, linkVars, shut, consVars, id_of, res>>

\* StreamSender::send: waits for room
Emit(c) ==
    /\ ~IsRequest(c) /\ tx[c] = "live" /\ ~shut[c]
    /\ sent[c] < MaxMsgs /\ Len(up[c]) < StreamCap
    /\ up' = [up EXCEPT ![c] = Append(@, sent[c] + 1)]
    /\ sent' = [sent EXCEPT ![c] = @ + 1]
    /\ UNCHANGED <<peerVars, queueVars, taskVars, linkVars, tx, shut, consVars, id_of,
                   res>>

\* the ResponseSender or the last StreamSender is dropped
DropSender(c) ==
    /\ tx[c] = "live"
    /\ tx' = [tx EXCEPT ![c] = "dropped"]
    /\ UNCHANGED <<peerVars, queueVars, taskVars, linkVars, up, shut, sent, consVars,
                   id_of, res>>

\* StreamReceiver::receive
Take(c) ==
    /\ rx[c] \in {"live", "closed"} /\ down[c] # <<>> /\ ~IsRequest(c)
    /\ down' = [down EXCEPT ![c] = Tail(@)]
    /\ got' = [got EXCEPT ![c] = Head(down[c]).n]
    /\ UNCHANGED <<peerVars, queueVars, taskVars, linkVars, prodVars, rx, id_of, res>>

\* StreamReceiver::close: the rest can still be received
CloseStream(c) ==
    /\ c \in MayCancel /\ rx[c] = "live"
    /\ rx' = [rx EXCEPT ![c] = "closed"]
    /\ UNCHANGED <<peerVars, queueVars, taskVars, linkVars, prodVars, down, got, id_of,
                   res>>

\* the number of the last body the task of the consumer has put in
LastN(c) == IF down[c] = <<>> THEN got[c] ELSE down[c][Len(down[c])].n

\* the request future or the StreamReceiver is dropped
Cancel(c) ==
    /\ c \in MayCancel
    /\ IF IsRequest(c)
         THEN /\ res[c] = "pending"
              /\ res' = [res EXCEPT ![c] = "Cancelled"]
              /\ UNCHANGED consVars
         ELSE /\ rx[c] \in {"live", "closed"}
              /\ rx' = [rx EXCEPT ![c] = "dropped"]
              /\ down' = [down EXCEPT ![c] = <<>>]
              /\ got' = [got EXCEPT ![c] = LastN(c)]
              /\ UNCHANGED res
    /\ UNCHANGED <<peerVars, queueVars, taskVars, linkVars, prodVars, id_of>>

\* Connection::close, or its TaskHandle dropped
SignalClose(p) ==
    /\ p \in MayClose /\ close_signal[p] = "no"
    /\ close_signal' = [close_signal EXCEPT ![p] = "sent"]
    /\ UNCHANGED <<peerVars, queueVars, task, should_close, close_packet, result,
                   linkVars, callVars>>

\* the byte stream fails in both directions
Break ==
    /\ MayBreak /\ ~broken
    /\ broken' = TRUE
    /\ link' = [p \in Peers |-> <<>>]
    /\ UNCHANGED <<peerVars, queueVars, taskVars, reconnects, callVars>>

-----------------------------------------------------------------------------
(* bg_stream: the receive arm of its select, one action per packet kind.    *)
(* Handler::send is awaited in the arm: no other arm runs meanwhile.         *)

Arrived(p) == link[Other(p)]

\* the error with which Handler::send refuses packet m
Refusal(p, m) ==
    LET awaited == waiting_on_stream[p][m.id]
        awaitsAnswer == awaited # NoCall /\ IsRequest(awaited)
        taken == IF m.kind = "RequestSender" THEN awaited ELSE waiting_on_user[p][m.id]
    IN IF m.kind \in RequestKinds
         THEN IF ~CanReceiveRequests(p) THEN "WrongPacketKind"
              ELSE IF taken # NoCall THEN "ExistingId" ELSE "none"
       ELSE IF m.kind \in {"Response", "NoResponse", "MalformedRequest"}
         THEN IF awaitsAnswer THEN "none" ELSE "UnknownId"
       ELSE IF m.kind = "Stream" /\ awaitsAnswer THEN "UnknownId" ELSE "none"

Arrives(p, kinds) == /\ Selecting(p) /\ ~should_close[p]
                     /\ Arrived(p) # <<>> /\ Head(Arrived(p)).kind \in kinds
Accepts(p, kinds) == /\ Arrives(p, kinds) /\ Refusal(p, Head(Arrived(p))) = "none"
                     /\ link' = [link EXCEPT ![Other(p)] = Tail(@)]
                     /\ UNCHANGED <<broken, reconnects>>
HangUp(p) == [link EXCEPT ![Other(p)] = <<>>]   \* nobody will read those

RecvRefused(p) ==
    /\ Arrives(p, Kinds) /\ Refusal(p, Head(Arrived(p))) # "none"
    /\ End(p, Refusal(p, Head(Arrived(p))))
    /\ link' = HangUp(p) /\ UNCHANGED <<broken, reconnects>>

RecvEnableServerRequests(p) ==
    /\ Accepts(p, {"EnableServerRequests"})
    /\ EnableServerRequests(p, next[p])
    /\ IF NewlyEnabled(p) THEN Goto(p, "deliver", Head(Arrived(p))) ELSE UNCHANGED task
    /\ UNCHANGED <<waiting_on_stream, waiting_on_user, queueVars, endVars, callVars>>

RecvRequest(p) ==
    LET m == Head(Arrived(p)) IN
    /\ Accepts(p, RequestKinds)
    /\ IF m.kind = "RequestSender"
         THEN /\ waiting_on_stream' = Put(waiting_on_stream, p, m.id, m.call)
              /\ UNCHANGED waiting_on_user
         ELSE /\ waiting_on_user' = Put(waiting_on_user, p, m.id, m.call)
              /\ UNCHANGED waiting_on_stream
    /\ Goto(p, "deliver", m)
    /\ UNCHANGED <<mode, next, queueVars, endVars, callVars>>

\* Response, NoResponse and MalformedRequest resolve the Request future, if any
RecvAnswer(p) ==
    LET m == Head(Arrived(p))
        c == waiting_on_stream[p][m.id]
        outcome == IF m.kind = "Response" THEN "Ok" ELSE m.kind
    IN /\ Accepts(p, {"Response", "NoResponse", "MalformedRequest"})
       /\ waiting_on_stream' = Put(waiting_on_stream, p, m.id, NoCall)
       /\ IF res[c] = "pending"
            THEN /\ res' = [res EXCEPT ![c] = outcome]
                 /\ down' = [down EXCEPT ![c] = IF outcome = "Ok" THEN <<Body(m)>> ELSE @]
            ELSE UNCHANGED <<res, down>>
       /\ UNCHANGED <<mode, next, waiting_on_user, queueVars, taskVars, prodVars, rx,
                      got, id_of>>

RecvStream(p) ==
    LET m == Head(Arrived(p)) IN
    /\ Accepts(p, {"Stream"})
    /\ IF waiting_on_stream[p][m.id] = NoCall
         THEN Goto(p, "write", Control("StreamClosed", m.id))
         ELSE Goto(p, "deliver", m)
    /\ UNCHANGED <<peerVars, queueVars, endVars, callVars>>

RecvStreamClosed(p) ==
    LET id == Head(Arrived(p)).id
        ended == {waiting_on_stream[p][id]} \cap Calls
        closed == {waiting_on_user[p][id]} \cap Calls
    IN /\ Accepts(p, {"StreamClosed"})
       /\ waiting_on_stream' = Put(waiting_on_stream, p, id, NoCall)
       /\ res' = Failed(ended)
       /\ shut' = Shut(closed)
       /\ UNCHANGED <<mode, next, waiting_on_user, queueVars, taskVars, tx, up, sent,
                      consVars, id_of>>

RecvClose(p) ==
    /\ Accepts(p, {"Close"})
    /\ CloseHandler(p)
    /\ UNCHANGED <<mode, next, waiting_on_user, rx_requests, receiverVars, task,
                   close_packet, close_signal, result, tx, up, sent, consVars, id_of>>

RecvPing(p) ==
    /\ Accepts(p, {"Ping"})
    /\ UNCHANGED <<peerVars, queueVars, taskVars, callVars>>

\* what is said of a request whose body failed to parse
ComplaintAlike(kind) == "MalformedRequest"      \* mutant: of streams, too
Complaint(kind) == IF kind = "Request" THEN "MalformedRequest" ELSE "StreamClosed"

\* packet_error: the body of a packet failed to parse
RecvMalformed(p) ==
    LET m == Head(Arrived(p))
        c == waiting_on_stream[p][m.id]
    IN /\ Arrives(p, BadKinds)
       /\ IF m.kind = "Response" /\ Refusal(p, m) # "none"
            THEN End(p, "UnknownId") /\ link' = HangUp(p)
            ELSE /\ link' = [link EXCEPT ![Other(p)] = Tail(@)]
                 /\ IF m.kind = "Response"
                      THEN /\ waiting_on_stream' = Put(waiting_on_stream, p, m.id, NoCall)
                           /\ res' = [res EXCEPT ![c] =
                                        IF @ = "pending" THEN "ResponsePacket" ELSE @]
                           /\ UNCHANGED task
                      ELSE /\ IF m.kind = "Stream" THEN UNCHANGED task
                              ELSE Goto(p, "write", Control(Complaint(m.kind), m.id))
                           /\ UNCHANGED <<waiting_on_stream, res>>
                 /\ UNCHANGED <<mode, next, waiting_on_user, queueVars, endVars,
                                handleVars>>
       /\ UNCHANGED <<broken, reconnects>>

ReadFails(p) ==
    /\ Selecting(p) /\ ~should_close[p]
    /\ broken \/ (Arrived(p) = <<>> /\ result[Other(p)] # "running")
    /\ End(p, "Io")
    /\ UNCHANGED linkVars

-----------------------------------------------------------------------------
(* The sends awaited inside Handler::send: into tx_requests or a stream *)

Delivering(p) == result[p] = "running" /\ task[p].at = "deliver"
ItemCall(m) == m.call                           \* mutant: Enable is not told apart
Item(m) == IF m.kind = "EnableServerRequests" THEN Enable ELSE m.call

DeliverRequest(p) ==
    LET m == task[p].packet IN
    /\ Delivering(p) /\ m.kind # "Stream"
    /\ receiver[p] /\ Len(tx_requests[p]) < QueueCap
    /\ tx_requests' = [tx_requests EXCEPT ![p] = Append(@, Item(m))]
    /\ task' = [task EXCEPT ![p] = Idle]
    /\ UNCHANGED <<peerVars, rx_requests, rx_open, receiver, may_call, endVars,
                   linkVars, callVars>>

\* nobody takes requests anymore: CloseWithPacket, and the handle in it is dropped
DeliverToNobody(p) ==
    LET m == task[p].packet IN
    /\ Delivering(p) /\ m.kind # "Stream" /\ ~receiver[p]
    /\ CloseHandler(p)
    /\ close_packet' = [close_packet EXCEPT ![p] = TRUE]
    /\ task' = [task EXCEPT ![p] = Idle]
    /\ tx' = [c \in Calls |-> IF c = Item(m) /\ Prod(c) = p THEN "dropped" ELSE tx[c]]
    /\ rx' = [c \in Calls |-> IF c = Item(m) /\ Cons(c) = p THEN "dropped" ELSE rx[c]]
    /\ UNCHANGED <<mode, next, waiting_on_user, rx_requests, receiverVars, close_signal,
                   result, linkVars, up, sent, down, got, id_of>>

DeliverMessage(p) ==
    LET m == task[p].packet
        c == waiting_on_stream[p][m.id]
        open == rx[c] \notin {"closed", "dropped"}
    IN /\ Delivering(p) /\ m.kind = "Stream"
       /\ IF open
            THEN /\ Len(down[c]) < StreamCap
                 /\ down' = [down EXCEPT ![c] = Append(@, Body(m))]
                 /\ task' = [task EXCEPT ![p] = Idle]
            ELSE /\ Goto(p, "write", Control("StreamClosed", m.id))
                 /\ UNCHANGED down
       /\ UNCHANGED <<peerVars, queueVars, endVars, linkVars, prodVars, rx, got, id_of,
                      res>>

-----------------------------------------------------------------------------
(* The to_send arm: WaitingOnUser::to_send, in any order of its HashMap, or *)
(* the next item of rx_requests *)

\* no message is left and none will come
OverNever(c) == FALSE                           \* mutant: the end is taken for a wait
OverUnread(c) == tx[c] = "dropped" \/ shut[c]   \* mutant: closed before it is read empty
OverEarly(c) == up[c] = <<>>                    \* mutant: nothing yet is nothing at all
Over(c) == up[c] = <<>> /\ (tx[c] = "dropped" \/ shut[c])

\* the entry goes with the answer, or with the end of the stream
RemovedWhenOver(c) == Over(c)                   \* mutant: an answered entry stays
Removed(c) == Over(c) \/ IsRequest(c)

Peeked(c) == up[c]                              \* mutant: the message stays queued
Taken(c) == Tail(up[c])

ToSendUser(p, id) ==
    LET c == waiting_on_user[p][id]
        m == IF Over(c) THEN Control(IF IsRequest(c) THEN "NoResponse" ELSE "StreamClosed", id)
             ELSE Packet(IF IsRequest(c) THEN "Response" ELSE "Stream", id, c, Head(up[c]))
    IN /\ Selecting(p) /\ c # NoCall
       /\ Over(c) \/ up[c] # <<>>
       /\ up' = [up EXCEPT ![c] = IF Over(c) THEN <<>> ELSE Taken(c)]
       /\ waiting_on_user' = IF Removed(c) THEN Put(waiting_on_user, p, id, NoCall)
                             ELSE waiting_on_user
       /\ shut' = Shut({c} \cap {d \in Calls : Removed(d)})
       /\ Goto(p, "write", m)
       /\ UNCHANGED <<mode, next, waiting_on_stream, queueVars, endVars, linkVars, tx,
                      sent, consVars, id_of, res>>

HasRequest(p) == /\ Selecting(p) /\ CanSendRequests(p) /\ rx_requests[p] # <<>>
TakeRequest(p) == rx_requests' = [rx_requests EXCEPT ![p] = Tail(@)]

ToSendEnable(p) ==
    /\ HasRequest(p) /\ next[p] # NoId /\ Head(rx_requests[p]) = Enable
    /\ TakeRequest(p)
    /\ EnableServerRequests(p, Advance(p))
    /\ Goto(p, "write", Control("EnableServerRequests", next[p]))
    /\ UNCHANGED <<waiting_on_stream, waiting_on_user, userQueueVars, endVars, linkVars,
                   callVars>>

\* the table the call of a caller goes to, and the assertions on its id
CallTable(p, c) == IF KindOf[c] = "RequestSender" THEN waiting_on_user[p]
                   ELSE waiting_on_stream[p]
Duplicate(p) == LET c == Head(rx_requests[p]) IN
                c # Enable /\ CallTable(p, c)[next[p]] # NoCall

ToSendRequest(p) ==
    LET c == Head(rx_requests[p])
        id == next[p]
    IN /\ HasRequest(p) /\ id # NoId /\ c # Enable /\ ~Duplicate(p)
       /\ TakeRequest(p)
       /\ next' = [next EXCEPT ![p] = Advance(p)]
       /\ id_of' = [id_of EXCEPT ![c] = id]
       /\ IF KindOf[c] = "RequestSender"
            THEN /\ waiting_on_user' = Put(waiting_on_user, p, id, c)
                 /\ UNCHANGED waiting_on_stream
            ELSE /\ waiting_on_stream' = Put(waiting_on_stream, p, id, c)
                 /\ UNCHANGED waiting_on_user
       /\ Goto(p, "write", Packet(KindOf[c], id, c, 0))
       /\ UNCHANGED <<mode, userQueueVars, endVars, linkVars, prodVars, consVars, res>>

\* "generated a duplicate id": the task panics
ToSendDuplicate(p) ==
    /\ HasRequest(p) /\ next[p] # NoId /\ Duplicate(p)
    /\ End(p, "Join")
    /\ link' = HangUp(p) /\ UNCHANGED <<broken, reconnects>>

\* out of ids: the request is dropped and to_send returns None
ToSendNoId(p) ==
    LET c == Head(rx_requests[p]) IN
    /\ HasRequest(p) /\ next[p] = NoId /\ ~should_close[p]
    /\ TakeRequest(p)
    /\ res' = Failed({c} \cap Calls)
    /\ shut' = Shut({c} \cap {d \in Calls : KindOf[d] = "RequestSender"})
    /\ UNCHANGED <<peerVars, userQueueVars, taskVars, linkVars, tx, up, sent, consVars,
                   id_of>>

-----------------------------------------------------------------------------
(* The other arms, and the stream.send every arm may await *)

Ping(p) ==
    /\ p \in MayPing /\ Selecting(p) /\ ~should_close[p]
    /\ Goto(p, "write", Control("Ping", 0))
    /\ UNCHANGED <<peerVars, queueVars, endVars, linkVars, callVars>>

CloseSignal(p) ==
    /\ close_signal[p] = "sent" /\ Selecting(p) /\ ~should_close[p]
    /\ CloseHandler(p)
    /\ close_packet' = [close_packet EXCEPT ![p] = TRUE]
    /\ close_signal' = [close_signal EXCEPT ![p] = "seen"]
    /\ UNCHANGED <<mode, next, waiting_on_user, rx_requests, receiverVars, task,
                   result, linkVars, tx, up, sent, consVars, id_of>>

\* to_send returned None while closing: the else arm
NothingRequested(p) == rx_requests[p] = <<>>    \* mutant: answers are not waited for
NothingToSend(p) ==
    \/ waiting_on_user[p] = EmptyTable
       /\ (~CanSendRequests(p) \/ rx_requests[p] = <<>>)
    \/ CanSendRequests(p) /\ rx_requests[p] # <<>> /\ next[p] = NoId

Finish(p) ==
    /\ Selecting(p) /\ should_close[p] /\ NothingToSend(p)
    /\ IF close_packet[p]
         THEN /\ Goto(p, "write", Control("Close", 0))
              /\ close_packet' = [close_packet EXCEPT ![p] = FALSE]
              /\ UNCHANGED <<peerVars, queueVars, should_close, close_signal, result,
                             linkVars, callVars>>
         ELSE /\ End(p, "Ok")
              /\ link' = HangUp(p) /\ UNCHANGED <<broken, reconnects>>

Writing(p) == result[p] = "running" /\ task[p].at = "write"
Hung(p) == result[Other(p)] # "running"

Write(p) ==
    LET m == task[p].packet IN
    /\ Writing(p) /\ m.kind # "Close" /\ ~broken
    /\ Hung(p) \/ Len(link[p]) < LinkCap
    /\ link' = IF Hung(p) THEN link ELSE [link EXCEPT ![p] = Append(@, m)]
    /\ task' = [task EXCEPT ![p] = Idle]
    /\ UNCHANGED <<peerVars, queueVars, endVars, broken, reconnects, callVars>>

WriteFails(p) ==
    /\ Writing(p) /\ task[p].packet.kind # "Close"
    /\ broken \/ Hung(p)
    /\ End(p, "Io")
    /\ link' = HangUp(p) /\ UNCHANGED <<broken, reconnects>>

\* the Close packet: an error is only logged, and the task ends
WriteClose(p) ==
    LET m == task[p].packet IN
    /\ Writing(p) /\ m.kind = "Close"
    /\ broken \/ Hung(p) \/ Len(link[p]) < LinkCap
    /\ End(p, "Ok")
    /\ link' = [HangUp(p) EXCEPT ![p] = IF broken \/ Hung(p) THEN @ ELSE Append(@, m)]
    /\ UNCHANGED <<broken, reconnects>>

-----------------------------------------------------------------------------
\* Handler::close_all_started; the closed channels stay in waiting_on_user
CloseAllStarted(p) ==
    /\ waiting_on_stream' = [waiting_on_stream EXCEPT ![p] = EmptyTable]
    /\ res' = Failed(CallsIn(waiting_on_stream[p]))
    /\ shut' = Shut(CallsIn(waiting_on_user[p]))

\* bg_stream_reconnect: a new byte stream to a new connection of the server, once the
\* old one is gone, whose users have dropped its Receiver.
Reconnect ==
    LET c == "client"
        s == "server"
        held == CallsOf(tx_requests[s])
    IN /\ result[c] # "running" /\ KeepsHandler(c, result[c]) /\ result[s] # "running"
       /\ reconnects < MaxReconnects
       /\ reconnects' = reconnects + 1
       /\ result' = [p \in Peers |-> "running"]
       /\ link' = [p \in Peers |-> <<>>] /\ broken' = FALSE
       /\ should_close' = [p \in Peers |-> FALSE]
       /\ close_packet' = [p \in Peers |-> FALSE]
       /\ close_signal' = [close_signal EXCEPT ![s] = "no"]
       /\ CloseAllStarted(c)
       /\ mode' = [mode EXCEPT ![s] = "UniServer"]
       /\ next' = [next EXCEPT ![c] = 0, ![s] = NoId]
       /\ rx_open' = [rx_open EXCEPT ![s] = TRUE]
       /\ tx_requests' = [tx_requests EXCEPT ![s] = <<>>]
       /\ receiver' = [receiver EXCEPT ![s] = TRUE]
       /\ may_call' = [may_call EXCEPT ![s] = FALSE]
       /\ tx' = [d \in Calls |-> IF d \in held /\ Prod(d) = s THEN "dropped" ELSE tx[d]]
       /\ rx' = [d \in Calls |-> IF d \in held /\ Cons(d) = s THEN "dropped" ELSE rx[d]]
       /\ id_of' = [d \in Calls |-> IF id_of[d] = NoId THEN NoId ELSE id_of[d] - NoId]
       /\ UNCHANGED <<task, waiting_on_user, rx_requests, up, sent, down, got>>

-----------------------------------------------------------------------------
User(p) == Receive(p) \/ DropReceiver(p) \/ SignalClose(p)
UserCall(c) ==
    \/ StartCall(c) \/ RefuseCall(c)
    \/ Answer(c) \/ Emit(c) \/ DropSender(c)
    \/ Take(c) \/ CloseStream(c) \/ Cancel(c)
Recv(p) ==
    \/ RecvRefused(p) \/ RecvEnableServerRequests(p) \/ RecvRequest(p)
    \/ RecvAnswer(p) \/ RecvStream(p) \/ RecvStreamClosed(p) \/ RecvClose(p)
    \/ RecvPing(p) \/ RecvMalformed(p) \/ ReadFails(p)
ToSend(p) ==
    \/ \E id \in Ids : ToSendUser(p, id)
    \/ ToSendEnable(p) \/ ToSendRequest(p) \/ ToSendDuplicate(p) \/ ToSendNoId(p)
Deliver(p) == DeliverRequest(p) \/ DeliverToNobody(p) \/ DeliverMessage(p)
Send(p) == Write(p) \/ WriteFails(p) \/ WriteClose(p)
Task(p) == Recv(p) \/ Deliver(p) \/ ToSend(p) \/ Ping(p) \/ CloseSignal(p)
           \/ Finish(p) \/ Send(p)

Next ==
    \/ \E p \in Peers : Task(p) \/ User(p)
    \/ \E c \in Calls : UserCall(c)
    \/ AskEnable
    \/ Break
    \/ Reconnect

Spec == Init /\ [][Next]_vars

-----------------------------------------------------------------------------
Tables == [Ids -> Calls \cup {NoCall}]
Queues == Seq(Calls \cup {Enable})
Delivered == RequestKinds \cup {"Stream", "EnableServerRequests"}
Tasks == {t \in [at : {"select", "deliver", "write"}, packet : Packets] :
              t.at = "deliver" => t.packet.kind \in Delivered}
Outcomes == {"idle", "pending", "Ok", "NoResponse", "MalformedRequest",
             "ResponsePacket", "TaskFailed", "AlreadyClosed", "Cancelled"}
Results == {"running", "Ok", "Io", "UnknownId", "ExistingId", "WrongPacketKind", "Join"}

PeerTypeOK ==
    /\ mode \in [Peers -> {"UniServer", "UniClient", "BiServer", "BiClient"}]
    /\ next \in [Peers -> Ids \cup {NoId}]
    /\ waiting_on_stream \in [Peers -> Tables]
    /\ waiting_on_user \in [Peers -> Tables]
QueueTypeOK ==
    /\ rx_requests \in [Peers -> Queues]
    /\ rx_open \in [Peers -> BOOLEAN]
    /\ tx_requests \in [Peers -> Queues]
    /\ receiver \in [Peers -> BOOLEAN]
    /\ may_call \in [Peers -> BOOLEAN]
TaskTypeOK ==
    /\ task \in [Peers -> Tasks]
    /\ should_close \in [Peers -> BOOLEAN]
    /\ close_packet \in [Peers -> BOOLEAN]
    /\ close_signal \in [Peers -> {"no", "sent", "seen"}]
    /\ result \in [Peers -> Results]
LinkTypeOK ==
    /\ link \in [Peers -> Seq(Packets)]
    /\ broken \in BOOLEAN
    /\ reconnects \in 0 .. MaxReconnects
CallTypeOK ==
    /\ id_of \in [Calls -> Int]
    /\ res \in [Calls -> Outcomes]
    /\ tx \in [Calls -> {"none", "live", "dropped"}]
    /\ up \in [Calls -> Seq(1 .. MaxMsgs)]
    /\ shut \in [Calls -> BOOLEAN]
    /\ sent \in [Calls -> 0 .. MaxMsgs]
    /\ rx \in [Calls -> {"none", "live", "closed", "dropped"}]
    /\ down \in [Calls -> Seq(Bodies)]
    /\ got \in [Calls -> 0 .. MaxMsgs]

\* Every variable has its type: a request handed to the Receiver is a call or
\* EnableServerRequests, and a packet with a body is one of a call.
TypeOK == PeerTypeOK /\ QueueTypeOK /\ TaskTypeOK /\ LinkTypeOK /\ CallTypeOK

=============================================================================
