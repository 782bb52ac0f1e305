--------------------------- MODULE ConnectionProofs ---------------------------
(* Theorems about Connection for every set of calls, every U32_MID and every    *)
(* capacity: first the types, then the correlation of requests with answers.    *)
EXTENDS ConnectionProperties, TLAPS

-----------------------------------------------------------------------------
(* The parts actions are built from *)

LEMMA Basics ==
    /\ Mid \in Nat /\ MaxId \in Nat /\ Mid < MaxId
    /\ NoCall \notin Calls /\ Enable \notin Calls
    /\ CallerOf \in [Calls -> Peers] /\ KindOf \in [Calls -> RequestKinds]
    /\ MaxMsgs \in Nat /\ MaxMsgs >= 1 /\ StreamCap \in Nat /\ QueueCap \in Nat
    /\ MaxReconnects \in Nat
  BY CallsAssumption, IdAssumption, CapAssumption

LEMMA OtherPeer == ASSUME NEW p \in Peers PROVE Other(p) \in Peers
  BY DEF Other, Peers

LEMMA Unchanged ==
    /\ PeerTypeOK /\ UNCHANGED peerVars => PeerTypeOK'
    /\ QueueTypeOK /\ UNCHANGED queueVars => QueueTypeOK'
    /\ TaskTypeOK /\ UNCHANGED taskVars => TaskTypeOK'
    /\ TaskTypeOK /\ UNCHANGED endVars /\ task' \in [Peers -> Tasks] => TaskTypeOK'
    /\ LinkTypeOK /\ UNCHANGED linkVars => LinkTypeOK'
    /\ CallTypeOK /\ UNCHANGED callVars => CallTypeOK'
    /\ CallTypeOK /\ UNCHANGED handleVars /\ res' \in [Calls -> Outcomes] => CallTypeOK'
  BY DEF PeerTypeOK, peerVars, QueueTypeOK, queueVars, userQueueVars, receiverVars,
         TaskTypeOK, taskVars, endVars, LinkTypeOK, linkVars, CallTypeOK, callVars,
         handleVars, prodVars, consVars

LEMMA HeadAndTail ==
    ASSUME NEW S, NEW seq \in Seq(S), seq # <<>>
    PROVE  Head(seq) \in S /\ Tail(seq) \in Seq(S)
  OBVIOUS

LEMMA EmptyTableType == EmptyTable \in Tables
  BY DEF EmptyTable, Tables

LEMMA PutType ==
    ASSUME NEW table \in [Peers -> Tables], NEW p \in Peers, NEW id \in Ids,
           NEW c \in Calls \cup {NoCall}
    PROVE  Put(table, p, id, c) \in [Peers -> Tables]
  BY DEF Put, Tables

LEMMA IdleType == Idle \in Tasks
  BY Basics DEF Idle, Tasks, Packets, Control, Packet, Kinds, BodyKinds, RequestKinds, Ids

LEMMA ControlType ==
    ASSUME NEW k \in Kinds \ BodyKinds, NEW id \in Ids
    PROVE  Control(k, id) \in Packets
  BY Basics DEF Control, Packet, Packets

\* a task goes back to its select, or on to deliver or write a packet
LEMMA GotoType ==
    ASSUME TaskTypeOK, NEW p \in Peers, NEW m \in Packets,
           NEW at \in {"select", "deliver", "write"},
           at = "deliver" => m.kind \in Delivered
    PROVE  /\ Goto(p, at, m) => task' \in [Peers -> Tasks]
           /\ task' = [task EXCEPT ![p] = Idle] => task' \in [Peers -> Tasks]
<1>1. [at |-> at, packet |-> m] \in Tasks
  BY DEF Tasks
<1> QED
  BY <1>1, IdleType DEF TaskTypeOK, Goto

LEMMA BackToSelect ==
    ASSUME TaskTypeOK, NEW p \in Peers, task' = [task EXCEPT ![p] = Idle]
    PROVE  task' \in [Peers -> Tasks]
  BY IdleType DEF TaskTypeOK

LEMMA FailedType == ASSUME CallTypeOK, NEW S PROVE Failed(S) \in [Calls -> Outcomes]
  BY DEF CallTypeOK, Failed, Outcomes

LEMMA ShutType == ASSUME CallTypeOK, NEW S PROVE Shut(S) \in [Calls -> BOOLEAN]
  BY DEF CallTypeOK, Shut

LEMMA FirstArrived ==
    ASSUME NEW p \in Peers, LinkTypeOK, Arrived(p) # <<>>
    PROVE  /\ Head(Arrived(p)) \in Packets
           /\ [link EXCEPT ![Other(p)] = Tail(@)] \in [Peers -> Seq(Packets)]
  BY OtherPeer DEF LinkTypeOK, Arrived

LEMMA HangUpType ==
    ASSUME NEW p \in Peers, LinkTypeOK, link' = HangUp(p), UNCHANGED <<broken, reconnects>>
    PROVE  LinkTypeOK'
  BY OtherPeer DEF LinkTypeOK, HangUp

LEMMA Accepted ==
    ASSUME NEW p \in Peers, LinkTypeOK, NEW kinds, Accepts(p, kinds)
    PROVE  /\ LinkTypeOK'
           /\ Head(Arrived(p)) \in Packets /\ Head(Arrived(p)).kind \in kinds
  BY FirstArrived DEF Accepts, Arrives, LinkTypeOK

LEMMA HandlerClosed ==
    ASSUME TypeOK, NEW p \in Peers, CloseHandler(p)
    PROVE  /\ should_close' \in [Peers -> BOOLEAN]
           /\ rx_open' \in [Peers -> BOOLEAN]
           /\ waiting_on_stream' \in [Peers -> Tables]
           /\ res' \in [Calls -> Outcomes]
           /\ shut' \in [Calls -> BOOLEAN]
  BY EmptyTableType, FailedType, ShutType
     DEF CloseHandler, TypeOK, PeerTypeOK, QueueTypeOK, TaskTypeOK

LEMMA EmptiedType ==
    ASSUME CallTypeOK, NEW S
    PROVE  [c \in Calls |-> IF c \in S THEN <<>> ELSE up[c]] \in [Calls -> Seq(1 .. MaxMsgs)]
<1>1. <<>> \in Seq(1 .. MaxMsgs)
  OBVIOUS
<1>2. \A c \in Calls : up[c] \in Seq(1 .. MaxMsgs)
  BY DEF CallTypeOK
<1>3. \A c \in Calls : (IF c \in S THEN <<>> ELSE up[c]) \in Seq(1 .. MaxMsgs)
  BY <1>1, <1>2
<1> QED
  BY <1>3

LEMMA HandlerDropped ==
    ASSUME TypeOK, NEW p \in Peers, DropHandler(p)
    PROVE  PeerTypeOK' /\ QueueTypeOK' /\ CallTypeOK'
<1>1. PeerTypeOK'
  BY EmptyTableType DEF DropHandler, TypeOK, PeerTypeOK
<1>2. QueueTypeOK'
  BY DEF DropHandler, TypeOK, QueueTypeOK, Queues, receiverVars
<1>3. res' \in [Calls -> Outcomes] /\ shut' \in [Calls -> BOOLEAN]
  BY FailedType, ShutType DEF DropHandler, TypeOK
<1>4. CallTypeOK'
  BY <1>3, EmptiedType DEF DropHandler, TypeOK, CallTypeOK, consVars
<1> QED
  BY <1>1, <1>2, <1>4

LEMMA EndType ==
    ASSUME TypeOK, NEW p \in Peers, NEW r \in Results, End(p, r)
    PROVE  PeerTypeOK' /\ QueueTypeOK' /\ TaskTypeOK' /\ CallTypeOK'
<1>1. TaskTypeOK'
  BY IdleType DEF End, TypeOK, TaskTypeOK
<1>2. CASE KeepsHandler(p, r)
  BY <1>1, <1>2, Unchanged DEF End, TypeOK
<1>3. CASE ~KeepsHandler(p, r)
  BY <1>1, <1>3, HandlerDropped DEF End
<1> QED
  BY <1>2, <1>3

-----------------------------------------------------------------------------
(* What the users do keeps the types *)

LEMMA InitType == Init => TypeOK
<1> SUFFICES ASSUME Init PROVE TypeOK
  OBVIOUS
<1>1. PeerTypeOK
  BY EmptyTableType, Basics DEF Init, PeerTypeOK, Peers, Ids, NoId
<1>2. QueueTypeOK
  BY DEF Init, QueueTypeOK, Queues
<1>3. TaskTypeOK
  BY IdleType DEF Init, TaskTypeOK, Results
<1>4. LinkTypeOK
  <2>1. link \in [Peers -> Seq(Packets)]
    BY DEF Init
  <2>2. broken \in BOOLEAN
    BY DEF Init
  <2>3. reconnects \in 0 .. MaxReconnects
    BY Basics DEF Init
  <2> QED
    BY <2>1, <2>2, <2>3 DEF LinkTypeOK
<1>5. CallTypeOK
  BY Basics DEF Init, CallTypeOK, Outcomes, NoId
<1> QED
  BY <1>1, <1>2, <1>3, <1>4, <1>5 DEF TypeOK

LEMMA AskEnableType == TypeOK /\ AskEnable => TypeOK'
<1> SUFFICES ASSUME TypeOK, AskEnable PROVE TypeOK'
  OBVIOUS
<1>1. QueueTypeOK'
  BY DEF AskEnable, TypeOK, QueueTypeOK, Queues, Peers, userQueueVars, receiverVars
<1> QED
  BY <1>1, Unchanged DEF AskEnable, TypeOK

LEMMA StartCallType == ASSUME TypeOK, NEW c \in Calls, StartCall(c) PROVE TypeOK'
<1>1. QueueTypeOK'
  BY Basics DEF StartCall, TypeOK, QueueTypeOK, Queues, userQueueVars, receiverVars
<1>2. CallTypeOK'
  BY DEF StartCall, TypeOK, CallTypeOK, Outcomes
<1> QED
  BY <1>1, <1>2, Unchanged DEF StartCall, TypeOK

LEMMA RefuseCallType == ASSUME TypeOK, NEW c \in Calls, RefuseCall(c) PROVE TypeOK'
<1>1. res' \in [Calls -> Outcomes]
  BY DEF RefuseCall, TypeOK, CallTypeOK, Outcomes
<1> QED
  BY <1>1, Unchanged DEF RefuseCall, TypeOK

LEMMA ReceiveType == ASSUME TypeOK, NEW p \in Peers, Receive(p) PROVE TypeOK'
<1>1. QueueTypeOK'
  <2>1. Tail(tx_requests[p]) \in Queues
    BY DEF Receive, TypeOK, QueueTypeOK, Queues
  <2>2. tx_requests' \in [Peers -> Queues]
    BY <2>1 DEF Receive, TypeOK, QueueTypeOK
  <2>3. may_call' \in [Peers -> BOOLEAN]
    BY DEF Receive, TypeOK, QueueTypeOK
  <2> QED
    BY <2>2, <2>3 DEF Receive, TypeOK, QueueTypeOK
<1>2. CallTypeOK'
  <2> DEFINE item == Head(tx_requests[p])
  <2>1. tx' \in [Calls -> {"none", "live", "dropped"}]
    <3> DEFINE T == {"none", "live", "dropped"}
    <3> DEFINE new == IF Prod(item) = p THEN "live" ELSE tx[item]
    <3>1. CASE item = Enable
      BY <3>1 DEF Receive, TypeOK, CallTypeOK
    <3>2. CASE item # Enable
      <4>1. tx' = [tx EXCEPT ![item] = new]
        BY <3>2 DEF Receive
      <4>2. item \in Calls => new \in T
        BY DEF TypeOK, CallTypeOK
      <4>3. tx \in [Calls -> T]
        BY DEF TypeOK, CallTypeOK
      <4> SUFFICES tx' \in [Calls -> T]
        OBVIOUS
      <4> HIDE DEF new, item, T
      <4> QED
        BY <4>1, <4>2, <4>3
    <3> QED
      BY <3>1, <3>2
  <2>2. rx' \in [Calls -> {"none", "live", "closed", "dropped"}]
    <3> DEFINE T == {"none", "live", "closed", "dropped"}
    <3> DEFINE new == IF Cons(item) = p THEN "live" ELSE rx[item]
    <3>1. CASE item = Enable
      BY <3>1 DEF Receive, TypeOK, CallTypeOK
    <3>2. CASE item # Enable
      <4>1. rx' = [rx EXCEPT ![item] = new]
        BY <3>2 DEF Receive
      <4>2. item \in Calls => new \in T
        BY DEF TypeOK, CallTypeOK
      <4>3. rx \in [Calls -> T]
        BY DEF TypeOK, CallTypeOK
      <4> SUFFICES rx' \in [Calls -> T]
        OBVIOUS
      <4> HIDE DEF new, item, T
      <4> QED
        BY <4>1, <4>2, <4>3
    <3> QED
      BY <3>1, <3>2
  <2> QED
    BY <2>1, <2>2 DEF Receive, TypeOK, CallTypeOK
<1> QED
  BY <1>1, <1>2, Unchanged DEF Receive, TypeOK

LEMMA DropReceiverType == ASSUME TypeOK, NEW p \in Peers, DropReceiver(p) PROVE TypeOK'
<1>1. <<>> \in Queues
  BY DEF Queues
<1>2. QueueTypeOK'
  <2>1. tx_requests' \in [Peers -> Queues]
    BY <1>1 DEF DropReceiver, TypeOK, QueueTypeOK
  <2>2. receiver' \in [Peers -> BOOLEAN]
    BY DEF DropReceiver, TypeOK, QueueTypeOK
  <2> QED
    BY <2>1, <2>2 DEF DropReceiver, TypeOK, QueueTypeOK
<1>3. CallTypeOK'
  BY DEF DropReceiver, TypeOK, CallTypeOK
<1> QED
  BY <1>2, <1>3, Unchanged DEF DropReceiver, TypeOK

LEMMA SignalCloseType == ASSUME TypeOK, NEW p \in Peers, SignalClose(p) PROVE TypeOK'
<1>1. TaskTypeOK'
  BY DEF SignalClose, TypeOK, TaskTypeOK
<1> QED
  BY <1>1, Unchanged DEF SignalClose, TypeOK

LEMMA BreakType == TypeOK /\ Break => TypeOK'
<1> SUFFICES ASSUME TypeOK, Break PROVE TypeOK'
  OBVIOUS
<1>1. LinkTypeOK'
  BY DEF Break, TypeOK, LinkTypeOK
<1> QED
  BY <1>1, Unchanged DEF Break, TypeOK

\* the handles of calls: no queue, table or task of the connection is touched
LEMMA HandleType ==
    ASSUME TypeOK, NEW c \in Calls,
           Answer(c) \/ Emit(c) \/ DropSender(c) \/ Take(c) \/ CloseStream(c) \/ Cancel(c)
    PROVE  TypeOK'
<1>1. CASE Answer(c)
  <2>1. <<1>> \in Seq(1 .. MaxMsgs)
    BY Basics
  <2>2. up' \in [Calls -> Seq(1 .. MaxMsgs)]
    BY <1>1, <2>1 DEF Answer, TypeOK, CallTypeOK
  <2>3. sent' \in [Calls -> 0 .. MaxMsgs]
    BY <1>1, Basics DEF Answer, TypeOK, CallTypeOK
  <2>4. CallTypeOK'
    BY <1>1, <2>2, <2>3 DEF Answer, TypeOK, CallTypeOK, consVars
  <2> QED
    BY <1>1, <2>4, Unchanged DEF Answer, TypeOK
<1>2. CASE Emit(c)
  <2> CallTypeOK'
    BY <1>2, Basics DEF Emit, TypeOK, CallTypeOK, consVars
  <2> QED
    BY <1>2, Unchanged DEF Emit, TypeOK
<1>3. CASE DropSender(c)
  <2> CallTypeOK'
    BY <1>3 DEF DropSender, TypeOK, CallTypeOK, consVars
  <2> QED
    BY <1>3, Unchanged DEF DropSender, TypeOK
<1>4. CASE Take(c)
  <2>1. Head(down[c]) \in Bodies /\ Tail(down[c]) \in Seq(Bodies)
    BY <1>4 DEF Take, TypeOK, CallTypeOK
  <2>2. Head(down[c]).n \in 0 .. MaxMsgs
    BY <2>1 DEF Bodies
  <2>3. CallTypeOK'
    BY <1>4, <2>1, <2>2 DEF Take, TypeOK, CallTypeOK, prodVars
  <2> QED
    BY <1>4, <2>3, Unchanged DEF Take, TypeOK
<1>5. CASE CloseStream(c)
  <2> CallTypeOK'
    BY <1>5 DEF CloseStream, TypeOK, CallTypeOK, prodVars
  <2> QED
    BY <1>5, Unchanged DEF CloseStream, TypeOK
<1>6. CASE Cancel(c)
  <2>1. down[c] = <<>> \/ down[c][Len(down[c])] \in Bodies
    BY DEF TypeOK, CallTypeOK
  <2>2. LastN(c) \in 0 .. MaxMsgs
    BY <2>1 DEF LastN, TypeOK, CallTypeOK, Bodies
  <2>3. <<>> \in Seq(Bodies)
    OBVIOUS
  <2>4. CallTypeOK'
    BY <1>6, <2>2, <2>3 DEF Cancel, TypeOK, CallTypeOK, prodVars, consVars, Outcomes
  <2> QED
    BY <1>6, <2>4, Unchanged DEF Cancel, TypeOK
<1> QED
  BY <1>1, <1>2, <1>3, <1>4, <1>5, <1>6

-----------------------------------------------------------------------------
(* What a task does on its receive arm keeps the types *)

LEMMA RefusalType ==
    ASSUME NEW p, NEW m, Refusal(p, m) # "none"
    PROVE  Refusal(p, m) \in Results
  BY DEF Refusal, Results

LEMMA RecvRefusedType == ASSUME TypeOK, NEW p \in Peers, RecvRefused(p) PROVE TypeOK'
<1>1. LinkTypeOK'
  BY HangUpType DEF RecvRefused, TypeOK
<1> QED
  BY <1>1, RefusalType, EndType DEF RecvRefused, TypeOK

LEMMA EnableServerRequestsType ==
    ASSUME TypeOK, NEW p \in Peers, NEW n \in Ids \cup {NoId}, EnableServerRequests(p, n),
           UNCHANGED <<waiting_on_stream, waiting_on_user>>
    PROVE  PeerTypeOK'
<1>1. mode' \in [Peers -> {"UniServer", "UniClient", "BiServer", "BiClient"}]
  BY DEF EnableServerRequests, TypeOK, PeerTypeOK
<1>2. FirstServerId \in Ids /\ NoId \in Ids \cup {NoId}
  BY Basics DEF FirstServerId, Ids
<1>3. next' \in [Peers -> Ids \cup {NoId}]
  BY <1>2 DEF EnableServerRequests, TypeOK, PeerTypeOK
<1> QED
  BY <1>1, <1>3 DEF TypeOK, PeerTypeOK

LEMMA RecvEnableType ==
    ASSUME TypeOK, NEW p \in Peers, RecvEnableServerRequests(p) PROVE TypeOK'
<1>1. LinkTypeOK' /\ Head(Arrived(p)) \in Packets
                  /\ Head(Arrived(p)).kind = "EnableServerRequests"
  BY Accepted DEF RecvEnableServerRequests, TypeOK
<1>2. PeerTypeOK'
  BY EnableServerRequestsType DEF RecvEnableServerRequests, TypeOK, PeerTypeOK
<1>3. task' \in [Peers -> Tasks]
  BY <1>1, GotoType DEF RecvEnableServerRequests, TypeOK, TaskTypeOK, Delivered
<1> QED
  BY <1>1, <1>2, <1>3, Unchanged DEF RecvEnableServerRequests, TypeOK

LEMMA RecvRequestType == ASSUME TypeOK, NEW p \in Peers, RecvRequest(p) PROVE TypeOK'
<1> DEFINE m == Head(Arrived(p))
<1>1. LinkTypeOK' /\ m \in Packets /\ m.kind \in RequestKinds
  BY Accepted DEF RecvRequest, TypeOK
<1>2. m.id \in Ids /\ m.call \in Calls
  BY <1>1 DEF Packets, BodyKinds
<1>3. PeerTypeOK'
  BY <1>2, PutType DEF RecvRequest, TypeOK, PeerTypeOK
<1>4. task' \in [Peers -> Tasks]
  BY <1>1, GotoType DEF RecvRequest, TypeOK, Delivered
<1> QED
  BY <1>1, <1>3, <1>4, Unchanged DEF RecvRequest, TypeOK

LEMMA RecvAnswerType == ASSUME TypeOK, NEW p \in Peers, RecvAnswer(p) PROVE TypeOK'
<1> DEFINE m == Head(Arrived(p))
           c == waiting_on_stream[p][m.id]
<1>1. LinkTypeOK' /\ m \in Packets /\ m.kind \in {"Response", "NoResponse", "MalformedRequest"}
  BY Accepted DEF RecvAnswer, TypeOK
<1>2. m.id \in Ids /\ Body(m) \in Bodies
  BY <1>1 DEF Packets, Body, Bodies
<1>3. PeerTypeOK'
  BY <1>2, PutType DEF RecvAnswer, TypeOK, PeerTypeOK
<1>4. res' \in [Calls -> Outcomes]
  <2>1. {"Ok", "NoResponse", "MalformedRequest"} \subseteq Outcomes
    BY DEF Outcomes
  <2>2. (IF m.kind = "Response" THEN "Ok" ELSE m.kind) \in Outcomes
    BY <1>1, <2>1
  <2>3. \/ res' = [res EXCEPT ![c] = IF m.kind = "Response" THEN "Ok" ELSE m.kind]
        \/ res' = res
    BY DEF RecvAnswer
  <2> QED
    BY <2>2, <2>3 DEF TypeOK, CallTypeOK
<1>5. <<Body(m)>> \in Seq(Bodies)
  BY <1>2
<1>6. down' \in [Calls -> Seq(Bodies)]
  BY <1>5 DEF RecvAnswer, TypeOK, CallTypeOK
<1>7. CallTypeOK'
  BY <1>4, <1>6 DEF RecvAnswer, TypeOK, CallTypeOK, prodVars
<1> QED
  BY <1>1, <1>3, <1>7, Unchanged DEF RecvAnswer, TypeOK

LEMMA RecvStreamType == ASSUME TypeOK, NEW p \in Peers, RecvStream(p) PROVE TypeOK'
<1> DEFINE m == Head(Arrived(p))
<1>1. LinkTypeOK' /\ m \in Packets /\ m.kind = "Stream"
  BY Accepted DEF RecvStream, TypeOK
<1>2. Control("StreamClosed", m.id) \in Packets
  BY <1>1, ControlType DEF Packets, Kinds, BodyKinds, RequestKinds
<1>3. task' \in [Peers -> Tasks]
  BY <1>1, <1>2, GotoType DEF RecvStream, TypeOK, Delivered
<1> QED
  BY <1>1, <1>3, Unchanged DEF RecvStream, TypeOK

LEMMA RecvStreamClosedType ==
    ASSUME TypeOK, NEW p \in Peers, RecvStreamClosed(p) PROVE TypeOK'
<1> DEFINE m == Head(Arrived(p))
<1>1. LinkTypeOK' /\ m \in Packets
  BY Accepted DEF RecvStreamClosed, TypeOK
<1>2. PeerTypeOK'
  BY <1>1, PutType DEF RecvStreamClosed, TypeOK, PeerTypeOK, Packets
<1>3. CallTypeOK'
  BY FailedType, ShutType DEF RecvStreamClosed, TypeOK, CallTypeOK, consVars
<1> QED
  BY <1>1, <1>2, <1>3, Unchanged DEF RecvStreamClosed, TypeOK

LEMMA RecvCloseType == ASSUME TypeOK, NEW p \in Peers, RecvClose(p) PROVE TypeOK'
<1>1. LinkTypeOK'
  BY Accepted DEF RecvClose, TypeOK
<1>2. CloseHandler(p)
  BY DEF RecvClose
<1>3. PeerTypeOK' /\ QueueTypeOK' /\ TaskTypeOK' /\ CallTypeOK'
  BY <1>2, HandlerClosed
     DEF RecvClose, TypeOK, PeerTypeOK, QueueTypeOK, TaskTypeOK, CallTypeOK,
         receiverVars, consVars
<1> QED
  BY <1>1, <1>3 DEF TypeOK

LEMMA RecvPingType == ASSUME TypeOK, NEW p \in Peers, RecvPing(p) PROVE TypeOK'
  BY Accepted, Unchanged DEF RecvPing, TypeOK

LEMMA RecvMalformedType == ASSUME TypeOK, NEW p \in Peers, RecvMalformed(p) PROVE TypeOK'
<1> DEFINE m == Head(Arrived(p))
           c == waiting_on_stream[p][m.id]
<1>1. m \in Packets /\ m.kind \in BadKinds
  BY FirstArrived DEF RecvMalformed, Arrives, TypeOK
<1>2. CASE m.kind = "Response" /\ Refusal(p, m) # "none"
  <2>1. End(p, "UnknownId") /\ "UnknownId" \in Results
    BY <1>2 DEF RecvMalformed, Results
  <2>2. LinkTypeOK'
    BY <1>2, HangUpType DEF RecvMalformed, TypeOK
  <2> QED
    BY <2>1, <2>2, EndType DEF TypeOK
<1>3. CASE ~(m.kind = "Response" /\ Refusal(p, m) # "none")
  <2>1. LinkTypeOK'
    <3>1. link' \in [Peers -> Seq(Packets)]
      BY <1>3, FirstArrived DEF RecvMalformed, Arrives, TypeOK
    <3> QED
      BY <3>1 DEF RecvMalformed, TypeOK, LinkTypeOK
  <2>2. PeerTypeOK'
    BY <1>1, <1>3, PutType DEF RecvMalformed, TypeOK, PeerTypeOK, Packets
  <2>3. Control(Complaint(m.kind), m.id) \in Packets
    BY <1>1, ControlType DEF Complaint, Packets, Kinds, BodyKinds, RequestKinds
  <2>4. task' \in [Peers -> Tasks]
    BY <1>3, <2>3, GotoType DEF RecvMalformed, TypeOK, TaskTypeOK
  <2>5. res' \in [Calls -> Outcomes]
    <3>1. (IF res[c] = "pending" THEN "ResponsePacket" ELSE res[c]) \in Outcomes
          \/ c \notin Calls
      BY DEF TypeOK, CallTypeOK, Outcomes
    <3> QED
      BY <1>3, <3>1 DEF RecvMalformed, TypeOK, CallTypeOK
  <2>6. UNCHANGED <<queueVars, endVars, handleVars>>
    BY <1>3 DEF RecvMalformed
  <2> QED
    BY <2>1, <2>2, <2>4, <2>5, <2>6, Unchanged DEF TypeOK
<1> QED
  BY <1>2, <1>3

LEMMA ReadFailsType == ASSUME TypeOK, NEW p \in Peers, ReadFails(p) PROVE TypeOK'
<1>1. End(p, "Io") /\ "Io" \in Results
  BY DEF ReadFails, Results
<1> QED
  BY <1>1, EndType, Unchanged DEF ReadFails, TypeOK

-----------------------------------------------------------------------------
(* ... and what it does on the others *)

LEMMA DeliverRequestType == ASSUME TypeOK, NEW p \in Peers, DeliverRequest(p) PROVE TypeOK'
<1> DEFINE m == task[p].packet
<1>1. Item(m) \in Calls \cup {Enable}
  <2>1. m \in Packets /\ m.kind \in RequestKinds \cup {"EnableServerRequests"}
    BY DEF DeliverRequest, Delivering, TypeOK, TaskTypeOK, Tasks, Delivered
  <2> QED
    BY <2>1 DEF Item, Packets, BodyKinds
<1>2. QueueTypeOK'
  <2>1. Append(tx_requests[p], Item(m)) \in Queues
    BY <1>1 DEF TypeOK, QueueTypeOK, Queues
  <2>2. tx_requests' \in [Peers -> Queues]
    BY <2>1 DEF DeliverRequest, TypeOK, QueueTypeOK
  <2> QED
    BY <2>2 DEF DeliverRequest, TypeOK, QueueTypeOK
<1>3. task' \in [Peers -> Tasks]
  BY BackToSelect DEF DeliverRequest, TypeOK
<1> QED
  BY <1>2, <1>3, Unchanged DEF DeliverRequest, TypeOK

LEMMA DeliverToNobodyType ==
    ASSUME TypeOK, NEW p \in Peers, DeliverToNobody(p) PROVE TypeOK'
<1>1. CloseHandler(p)
  BY DEF DeliverToNobody
<1>2. PeerTypeOK' /\ QueueTypeOK'
  BY <1>1, HandlerClosed
     DEF DeliverToNobody, TypeOK, PeerTypeOK, QueueTypeOK, receiverVars
<1>3. TaskTypeOK'
  <2>1. close_packet' \in [Peers -> BOOLEAN]
    BY DEF DeliverToNobody, TypeOK, TaskTypeOK
  <2>2. task' \in [Peers -> Tasks]
    BY BackToSelect DEF DeliverToNobody, TypeOK
  <2> QED
    BY <1>1, <2>1, <2>2, HandlerClosed DEF DeliverToNobody, TypeOK, TaskTypeOK
<1>4. CallTypeOK'
  <2>1. tx' \in [Calls -> {"none", "live", "dropped"}]
    BY DEF DeliverToNobody, TypeOK, CallTypeOK
  <2>2. rx' \in [Calls -> {"none", "live", "closed", "dropped"}]
    BY DEF DeliverToNobody, TypeOK, CallTypeOK
  <2> QED
    BY <1>1, <2>1, <2>2, HandlerClosed DEF DeliverToNobody, TypeOK, CallTypeOK
<1> QED
  BY <1>2, <1>3, <1>4, Unchanged DEF DeliverToNobody, TypeOK

LEMMA DeliverMessageType == ASSUME TypeOK, NEW p \in Peers, DeliverMessage(p) PROVE TypeOK'
<1> DEFINE m == task[p].packet
           c == waiting_on_stream[p][m.id]
<1>1. m \in Packets
  BY DEF TypeOK, TaskTypeOK, Tasks
<1>2. m.id \in Ids /\ Body(m) \in Bodies
  BY <1>1 DEF Packets, Body, Bodies
<1>3. Control("StreamClosed", m.id) \in Packets
  BY <1>2, ControlType DEF Kinds, BodyKinds, RequestKinds
<1>4. task' \in [Peers -> Tasks]
  BY <1>3, GotoType, BackToSelect DEF DeliverMessage, TypeOK
<1>5. CallTypeOK'
  <2>1. down' \in [Calls -> Seq(Bodies)]
    <3>1. \/ down' = [down EXCEPT ![c] = Append(@, Body(m))]
          \/ down' = down
      BY DEF DeliverMessage
    <3>2. CASE c \in Calls
      <4>1. Append(down[c], Body(m)) \in Seq(Bodies)
        BY <1>2, <3>2 DEF TypeOK, CallTypeOK
      <4> QED
        BY <3>1, <4>1 DEF TypeOK, CallTypeOK
    <3>3. CASE c \notin Calls
      BY <3>1, <3>3 DEF TypeOK, CallTypeOK
    <3> QED
      BY <3>2, <3>3
  <2> QED
    BY <2>1 DEF DeliverMessage, TypeOK, CallTypeOK, prodVars
<1> QED
  BY <1>4, <1>5, Unchanged DEF DeliverMessage, TypeOK

LEMMA ToSendUserType ==
    ASSUME TypeOK, NEW p \in Peers, NEW id \in Ids, ToSendUser(p, id) PROVE TypeOK'
<1> DEFINE c == waiting_on_user[p][id]
           closing == Control(IF IsRequest(c) THEN "NoResponse" ELSE "StreamClosed", id)
           body == Packet(IF IsRequest(c) THEN "Response" ELSE "Stream", id, c, Head(up[c]))
<1>1. c \in Calls /\ up[c] \in Seq(1 .. MaxMsgs)
  BY DEF ToSendUser, TypeOK, PeerTypeOK, CallTypeOK, Tables
<1>2. (IF Over(c) THEN closing ELSE body) \in Packets
  <2>1. CASE Over(c)
    BY <2>1, ControlType DEF Kinds, BodyKinds, RequestKinds
  <2>2. CASE ~Over(c)
    <3>1. Head(up[c]) \in 1 .. MaxMsgs
      BY <1>1, <2>2, HeadAndTail DEF ToSendUser
    <3>2. Head(up[c]) \in 0 .. MaxMsgs
      BY <3>1, Basics
    <3> QED
      BY <1>1, <2>2, <3>2 DEF Packet, Packets, Kinds, BodyKinds
  <2> QED
    BY <2>1, <2>2
<1>3. task' \in [Peers -> Tasks]
  BY <1>2, GotoType DEF ToSendUser, TypeOK
<1>4. PeerTypeOK'
  BY PutType DEF ToSendUser, TypeOK, PeerTypeOK
<1>5. CallTypeOK'
  <2>1. <<>> \in Seq(1 .. MaxMsgs)
    OBVIOUS
  <2>2. (IF Over(c) THEN <<>> ELSE Taken(c)) \in Seq(1 .. MaxMsgs)
    BY <1>1, <2>1, HeadAndTail DEF ToSendUser, Taken
  <2>3. up' \in [Calls -> Seq(1 .. MaxMsgs)]
    BY <2>2 DEF ToSendUser, TypeOK, CallTypeOK
  <2>4. shut' \in [Calls -> BOOLEAN]
    BY ShutType DEF ToSendUser, TypeOK
  <2> QED
    BY <2>3, <2>4 DEF ToSendUser, TypeOK, CallTypeOK, consVars
<1> QED
  BY <1>3, <1>4, <1>5, Unchanged DEF ToSendUser, TypeOK

\* the first item of rx_requests, and the queue without it
LEMMA TakeRequestType ==
    ASSUME TypeOK, NEW p \in Peers, HasRequest(p)
    PROVE  /\ Head(rx_requests[p]) \in Calls \cup {Enable}
           /\ TakeRequest(p) /\ UNCHANGED userQueueVars => QueueTypeOK'
<1>1. rx_requests[p] \in Queues /\ rx_requests[p] # <<>>
  BY DEF HasRequest, TypeOK, QueueTypeOK
<1>2. Head(rx_requests[p]) \in Calls \cup {Enable} /\ Tail(rx_requests[p]) \in Queues
  BY <1>1 DEF Queues
<1>3. TakeRequest(p) => rx_requests' \in [Peers -> Queues]
  BY <1>2 DEF TakeRequest, TypeOK, QueueTypeOK
<1> QED
  BY <1>2, <1>3 DEF TypeOK, QueueTypeOK, userQueueVars, receiverVars

LEMMA AdvanceType ==
    ASSUME TypeOK, NEW p \in Peers
    PROVE  Advance(p) \in Ids \cup {NoId}
  BY Basics DEF Advance, TypeOK, PeerTypeOK, Ids, NoId

LEMMA ToSendEnableType == ASSUME TypeOK, NEW p \in Peers, ToSendEnable(p) PROVE TypeOK'
<1>1. PeerTypeOK'
  BY AdvanceType, EnableServerRequestsType DEF ToSendEnable
<1>2. QueueTypeOK'
  BY TakeRequestType DEF ToSendEnable
<1>3. Control("EnableServerRequests", next[p]) \in Packets
  BY ControlType
     DEF ToSendEnable, TypeOK, PeerTypeOK, Kinds, BodyKinds, RequestKinds
<1>4. task' \in [Peers -> Tasks]
  BY <1>3, GotoType DEF ToSendEnable, TypeOK
<1> QED
  BY <1>1, <1>2, <1>4, Unchanged DEF ToSendEnable, TypeOK

LEMMA ToSendRequestType == ASSUME TypeOK, NEW p \in Peers, ToSendRequest(p) PROVE TypeOK'
<1> DEFINE c == Head(rx_requests[p])
<1>1. c \in Calls /\ next[p] \in Ids
  BY TakeRequestType DEF ToSendRequest, TypeOK, PeerTypeOK
<1>2. QueueTypeOK'
  BY TakeRequestType DEF ToSendRequest
<1>3. next' \in [Peers -> Ids \cup {NoId}]
  BY AdvanceType DEF ToSendRequest, TypeOK, PeerTypeOK
<1>4. PeerTypeOK'
  BY <1>1, <1>3, PutType DEF ToSendRequest, TypeOK, PeerTypeOK
<1>5. Packet(KindOf[c], next[p], c, 0) \in Packets
  BY <1>1, Basics DEF Packet, Packets, Kinds, BodyKinds
<1>6. task' \in [Peers -> Tasks]
  BY <1>5, GotoType DEF ToSendRequest, TypeOK
<1>7. CallTypeOK'
  <2>1. next[p] \in Int
    BY <1>1, Basics DEF Ids, NoId
  <2> QED
    BY <1>1, <2>1 DEF ToSendRequest, TypeOK, CallTypeOK, prodVars, consVars
<1> QED
  BY <1>2, <1>4, <1>6, <1>7, Unchanged DEF ToSendRequest, TypeOK

LEMMA ToSendDuplicateType == ASSUME TypeOK, NEW p \in Peers, ToSendDuplicate(p) PROVE TypeOK'
<1>1. End(p, "Join") /\ "Join" \in Results
  BY DEF ToSendDuplicate, Results
<1>2. LinkTypeOK'
  BY HangUpType DEF ToSendDuplicate, TypeOK
<1> QED
  BY <1>1, <1>2, EndType DEF TypeOK

LEMMA ToSendNoIdType == ASSUME TypeOK, NEW p \in Peers, ToSendNoId(p) PROVE TypeOK'
<1>1. QueueTypeOK'
  BY TakeRequestType DEF ToSendNoId
<1>2. CallTypeOK'
  BY FailedType, ShutType DEF ToSendNoId, TypeOK, CallTypeOK, consVars
<1> QED
  BY <1>1, <1>2, Unchanged DEF ToSendNoId, TypeOK

LEMMA PingType == ASSUME TypeOK, NEW p \in Peers, Ping(p) PROVE TypeOK'
<1>1. Control("Ping", 0) \in Packets
  BY ControlType, Basics DEF Kinds, BodyKinds, RequestKinds, Ids
<1>2. task' \in [Peers -> Tasks]
  BY <1>1, GotoType DEF Ping, TypeOK
<1> QED
  BY <1>2, Unchanged DEF Ping, TypeOK

LEMMA CloseSignalType == ASSUME TypeOK, NEW p \in Peers, CloseSignal(p) PROVE TypeOK'
<1>1. CloseHandler(p)
  BY DEF CloseSignal
<1>2. PeerTypeOK' /\ QueueTypeOK' /\ CallTypeOK'
  BY <1>1, HandlerClosed
     DEF CloseSignal, TypeOK, PeerTypeOK, QueueTypeOK, CallTypeOK, receiverVars, consVars
<1>3. TaskTypeOK'
  BY <1>1, HandlerClosed DEF CloseSignal, TypeOK, TaskTypeOK
<1> QED
  BY <1>2, <1>3, Unchanged DEF CloseSignal, TypeOK

LEMMA FinishType == ASSUME TypeOK, NEW p \in Peers, Finish(p) PROVE TypeOK'
<1>1. CASE close_packet[p]
  <2>1. Control("Close", 0) \in Packets
    BY ControlType, Basics DEF Kinds, BodyKinds, RequestKinds, Ids
  <2>2. task' \in [Peers -> Tasks]
    BY <1>1, <2>1, GotoType DEF Finish, TypeOK
  <2>3. TaskTypeOK'
    BY <1>1, <2>2 DEF Finish, TypeOK, TaskTypeOK
  <2> QED
    BY <1>1, <2>3, Unchanged DEF Finish, TypeOK
<1>2. CASE ~close_packet[p]
  <2>1. End(p, "Ok") /\ "Ok" \in Results
    BY <1>2 DEF Finish, Results
  <2>2. LinkTypeOK'
    BY <1>2, HangUpType DEF Finish, TypeOK
  <2> QED
    BY <2>1, <2>2, EndType DEF TypeOK
<1> QED
  BY <1>1, <1>2

LEMMA WriteType == ASSUME TypeOK, NEW p \in Peers, Write(p) PROVE TypeOK'
<1>1. task[p].packet \in Packets
  BY DEF TypeOK, TaskTypeOK, Tasks
<1>2. LinkTypeOK'
  <2>1. link' \in [Peers -> Seq(Packets)]
    BY <1>1 DEF Write, TypeOK, LinkTypeOK
  <2> QED
    BY <2>1 DEF Write, TypeOK, LinkTypeOK
<1>3. task' \in [Peers -> Tasks]
  BY BackToSelect DEF Write, TypeOK
<1> QED
  BY <1>2, <1>3, Unchanged DEF Write, TypeOK

LEMMA WriteFailsType == ASSUME TypeOK, NEW p \in Peers, WriteFails(p) PROVE TypeOK'
<1>1. End(p, "Io") /\ "Io" \in Results
  BY DEF WriteFails, Results
<1>2. LinkTypeOK'
  BY HangUpType DEF WriteFails, TypeOK
<1> QED
  BY <1>1, <1>2, EndType DEF TypeOK

LEMMA WriteCloseType == ASSUME TypeOK, NEW p \in Peers, WriteClose(p) PROVE TypeOK'
<1>1. End(p, "Ok") /\ "Ok" \in Results
  BY DEF WriteClose, Results
<1>2. task[p].packet \in Packets
  BY DEF TypeOK, TaskTypeOK, Tasks
<1>3. HangUp(p) \in [Peers -> Seq(Packets)]
  BY OtherPeer DEF HangUp, TypeOK, LinkTypeOK
<1>4. LinkTypeOK'
  <2>1. link' \in [Peers -> Seq(Packets)]
    BY <1>2, <1>3 DEF WriteClose
  <2> QED
    BY <2>1 DEF WriteClose, TypeOK, LinkTypeOK
<1> QED
  BY <1>1, <1>4, EndType DEF TypeOK

LEMMA ReconnectType == TypeOK /\ Reconnect => TypeOK'
<1> SUFFICES ASSUME TypeOK, Reconnect PROVE TypeOK'
  OBVIOUS
<1>1. PeerTypeOK'
  <2>1. waiting_on_stream' \in [Peers -> Tables]
    BY EmptyTableType DEF Reconnect, CloseAllStarted, TypeOK, PeerTypeOK
  <2>2. next' \in [Peers -> Ids \cup {NoId}]
    <3>1. {0, NoId} \subseteq Ids \cup {NoId}
      BY Basics DEF Ids
    <3>2. next \in [Peers -> Ids \cup {NoId}]
      BY DEF TypeOK, PeerTypeOK
    <3> QED
      BY <3>1, <3>2 DEF Reconnect
  <2> QED
    BY <2>1, <2>2 DEF Reconnect, TypeOK, PeerTypeOK
<1>2. QueueTypeOK'
  <2>1. <<>> \in Queues
    BY DEF Queues
  <2>2. tx_requests' \in [Peers -> Queues]
    BY <2>1 DEF Reconnect, TypeOK, QueueTypeOK
  <2> QED
    BY <2>2 DEF Reconnect, TypeOK, QueueTypeOK
<1>3. TaskTypeOK'
  BY DEF Reconnect, TypeOK, TaskTypeOK, Results
<1>4. LinkTypeOK'
  <2>1. link' \in [Peers -> Seq(Packets)]
    BY DEF Reconnect
  <2>2. broken' \in BOOLEAN
    BY DEF Reconnect
  <2>3. reconnects' \in 0 .. MaxReconnects
    BY Basics DEF Reconnect, TypeOK, LinkTypeOK
  <2> QED
    BY <2>1, <2>2, <2>3 DEF LinkTypeOK
<1>5. CallTypeOK'
  <2>1. res' \in [Calls -> Outcomes] /\ shut' \in [Calls -> BOOLEAN]
    BY FailedType, ShutType DEF Reconnect, CloseAllStarted, TypeOK
  <2>2. tx' \in [Calls -> {"none", "live", "dropped"}]
    BY DEF Reconnect, TypeOK, CallTypeOK
  <2>3. rx' \in [Calls -> {"none", "live", "closed", "dropped"}]
    BY DEF Reconnect, TypeOK, CallTypeOK
  <2>4. id_of' \in [Calls -> Int]
    BY Basics DEF Reconnect, TypeOK, CallTypeOK, NoId
  <2> QED
    BY <2>1, <2>2, <2>3, <2>4 DEF Reconnect, TypeOK, CallTypeOK
<1> QED
  BY <1>1, <1>2, <1>3, <1>4, <1>5 DEF TypeOK

-----------------------------------------------------------------------------
LEMMA UserType ==
    ASSUME TypeOK, \/ \E p \in Peers : User(p)
                   \/ \E c \in Calls : UserCall(c)
                   \/ AskEnable
    PROVE  TypeOK'
  BY AskEnableType, StartCallType, RefuseCallType, ReceiveType, DropReceiverType,
     SignalCloseType, HandleType DEF User, UserCall

LEMMA TaskType == ASSUME TypeOK, NEW p \in Peers, Task(p) PROVE TypeOK'
<1>1. CASE Recv(p)
  BY <1>1, RecvRefusedType, RecvEnableType, RecvRequestType, RecvAnswerType,
     RecvStreamType, RecvStreamClosedType, RecvCloseType, RecvPingType,
     RecvMalformedType, ReadFailsType DEF Recv
<1>2. CASE ToSend(p)
  BY <1>2, ToSendUserType, ToSendEnableType, ToSendRequestType, ToSendDuplicateType,
     ToSendNoIdType DEF ToSend
<1>3. CASE Deliver(p) \/ Send(p)
  BY <1>3, DeliverRequestType, DeliverToNobodyType, DeliverMessageType, WriteType,
     WriteFailsType, WriteCloseType DEF Deliver, Send
<1>4. CASE Ping(p) \/ CloseSignal(p) \/ Finish(p)
  BY <1>4, PingType, CloseSignalType, FinishType
<1> QED
  BY <1>1, <1>2, <1>3, <1>4 DEF Task

LEMMA StutterType == TypeOK /\ UNCHANGED vars => TypeOK'
  BY Unchanged DEF vars, TypeOK

LEMMA NextType == TypeOK /\ [Next]_vars => TypeOK'
  BY UserType, TaskType, BreakType, ReconnectType, StutterType DEF Next

\* Every variable keeps its type, whatever the calls, the capacities and U32_MID, and
\* over any number of reconnections: the counter of ids stays an id or None, only
\* calls and EnableServerRequests reach the Receiver, a packet with a body has a call.
THEOREM TypeCorrect == Spec => []TypeOK
  BY NextType, InitType, PTL DEF Spec

-----------------------------------------------------------------------------
(* Bodies reach the call they are meant for.  Most actions only take away from  *)
(* what CorrelationInv speaks of: what "calm" says of each of its parts.        *)

CalmIds == UNCHANGED <<mode, next, id_of>>

CalmPackets ==
    \A p \in Peers :
        /\ \/ link'[p] = link[p] \/ link'[p] = <<>>
           \/ link[p] # <<>> /\ link'[p] = Tail(link[p])
        /\ \/ task'[p] = task[p] \/ task'[p].at = "select"
           \/ task'[p].packet.kind \notin BodyKinds

CalmEntries ==
    \A p \in Peers : \A i \in Ids :
        /\ waiting_on_stream'[p][i] \in {waiting_on_stream[p][i], NoCall}
        /\ waiting_on_user'[p][i] \in {waiting_on_user[p][i], NoCall}

CalmQueues ==
    /\ \A p \in Peers :
          \/ rx_requests'[p] = rx_requests[p] \/ rx_requests'[p] = <<>>
          \/ rx_requests[p] # <<>> /\ rx_requests'[p] = Tail(rx_requests[p])
    /\ \A c \in Calls : res'[c] = "idle" => res[c] = "idle"

CalmBodies ==
    \A c \in Calls :
        \/ down'[c] = down[c] \/ down'[c] = <<>>
        \/ down[c] # <<>> /\ down'[c] = Tail(down[c])

LEMMA Remainder ==
    ASSUME NEW S, NEW old \in Seq(S), NEW new,
           new = old \/ new = <<>> \/ (old # <<>> /\ new = Tail(old))
    PROVE  \A i \in 1 .. Len(new) : \E j \in 1 .. Len(old) : new[i] = old[j]
<1>1. CASE new = old
  BY <1>1
<1>2. CASE new = <<>>
  BY <1>2
<1>3. CASE old # <<>> /\ new = Tail(old)
  <2> SUFFICES ASSUME NEW i \in 1 .. Len(new)
               PROVE  i + 1 \in 1 .. Len(old) /\ new[i] = old[i + 1]
    OBVIOUS
  <2> QED
    BY <1>3
<1> QED
  BY <1>1, <1>2, <1>3

LEMMA FrameIds == ASSUME IdsAscend, CalmIds PROVE IdsAscend'
  BY DEF IdsAscend, CalmIds, Old

LEMMA FramePackets ==
    ASSUME TypeOK, GenuinePackets, UNCHANGED id_of, CalmPackets
    PROVE  GenuinePackets'
<1> SUFFICES ASSUME NEW p \in Peers
             PROVE  (/\ \A i \in 1 .. Len(link[p]) : Genuine(p, link[p][i])
                     /\ task[p].at = "write" => Genuine(p, task[p].packet)
                     /\ task[p].at = "deliver" => Genuine(Other(p), task[p].packet))'
  BY DEF GenuinePackets
<1> DEFINE old == link[p]
           new == link'[p]
<1>1. old \in Seq(Packets)
  BY DEF TypeOK, LinkTypeOK
<1>2. \A i \in 1 .. Len(new) : \E j \in 1 .. Len(old) : new[i] = old[j]
  <2>1. new = old \/ new = <<>> \/ (old # <<>> /\ new = Tail(old))
    BY DEF CalmPackets
  <2> HIDE DEF old, new
  <2> QED
    BY <1>1, <2>1, Remainder
<1>3. (\A i \in 1 .. Len(link[p]) : Genuine(p, link[p][i]))'
  BY <1>2 DEF GenuinePackets, Genuine
<1>4. CASE task'[p] = task[p]
  BY <1>3, <1>4 DEF GenuinePackets, Genuine
<1>5. CASE task'[p].at = "select" \/ task'[p].packet.kind \notin BodyKinds
  BY <1>3, <1>5 DEF Genuine
<1> QED
  BY <1>4, <1>5 DEF CalmPackets

LEMMA FrameEntries ==
    ASSUME GenuineEntries, UNCHANGED id_of, CalmEntries
    PROVE  GenuineEntries'
  BY DEF GenuineEntries, CalmEntries

LEMMA FrameQueues ==
    ASSUME TypeOK, QueuedOnce, UNCHANGED id_of, CalmQueues
    PROVE  QueuedOnce'
<1>1. ASSUME NEW p \in Peers, NEW i \in 1 .. Len(rx_requests'[p]), rx_requests'[p][i] # Enable
      PROVE  LET c == rx_requests'[p][i] IN
             /\ CallerOf[c] = p /\ id_of'[c] = NoId /\ res'[c] # "idle"
             /\ \A j \in 1 .. Len(rx_requests'[p]) : rx_requests'[p][j] = c => i = j
  <2>1. rx_requests[p] \in Seq(Calls \cup {Enable})
    BY DEF TypeOK, QueueTypeOK, Queues
  <2>2. CASE rx_requests'[p] = rx_requests[p]
    BY <1>1, <2>1, <2>2 DEF CalmQueues, QueuedOnce
  <2>3. CASE rx_requests[p] # <<>> /\ rx_requests'[p] = Tail(rx_requests[p])
    <3>1. /\ Len(rx_requests'[p]) = Len(rx_requests[p]) - 1
          /\ \A j \in 1 .. Len(rx_requests'[p]) :
                j + 1 \in 1 .. Len(rx_requests[p]) /\ rx_requests'[p][j] = rx_requests[p][j + 1]
      BY <2>1, <2>3
    <3>2. rx_requests'[p][i] \in Calls
      BY <1>1, <2>1, <3>1
    <3> QED
      BY <1>1, <2>1, <3>1, <3>2 DEF CalmQueues, QueuedOnce
  <2>4. CASE rx_requests'[p] = <<>>
    BY <1>1, <2>4
  <2> QED
    BY <2>2, <2>3, <2>4 DEF CalmQueues
<1>2. \A c \in Calls : res'[c] = "idle" => id_of'[c] = NoId
  BY DEF CalmQueues, QueuedOnce
<1> QED
  BY <1>1, <1>2 DEF QueuedOnce

LEMMA FrameBodies ==
    ASSUME TypeOK, CorrelationApart, IdsApart' => IdsApart, CalmBodies
    PROVE  CorrelationApart'
<1> SUFFICES ASSUME IdsApart', NEW c \in Calls, NEW i \in 1 .. Len(down'[c])
             PROVE  down'[c][i].call = c
  BY DEF CorrelationApart, Correlation
<1> DEFINE old == down[c]
           new == down'[c]
<1>1. old \in Seq(Bodies)
  BY DEF TypeOK, CallTypeOK
<1>2. new = old \/ new = <<>> \/ (old # <<>> /\ new = Tail(old))
  BY DEF CalmBodies
<1>3. \E j \in 1 .. Len(old) : new[i] = old[j]
  <2>1. \A k \in 1 .. Len(new) : \E j \in 1 .. Len(old) : new[k] = old[j]
    <3> HIDE DEF old, new
    <3>1. CASE new = old \/ new = <<>>
      BY <3>1
    <3>2. CASE old # <<>> /\ new = Tail(old)
      BY <1>1, <3>2, Remainder
    <3> QED
      BY <1>2, <3>1, <3>2
  <2> QED
    BY <2>1
<1> QED
  BY <1>3 DEF CorrelationApart, Correlation

LEMMA FrameApart == ASSUME UNCHANGED <<mode, id_of>> PROVE IdsApart' => IdsApart
  BY DEF IdsApart

LEMMA CalmStep ==
    ASSUME TypeOK, CorrelationInv,
           CalmIds, CalmPackets, CalmEntries, CalmQueues, CalmBodies
    PROVE  CorrelationInv'
  BY FrameIds, FramePackets, FrameEntries, FrameQueues, FrameBodies, FrameApart
     DEF CorrelationInv, CalmIds

\* what an action leaves as it is, and what the common parts of actions do, is calm
LEMMA CalmUnchanged ==
    /\ UNCHANGED <<peerVars, handleVars>> => CalmIds /\ CalmEntries /\ CalmBodies
    /\ UNCHANGED <<peerVars>> => CalmEntries
    /\ UNCHANGED <<waiting_on_stream, waiting_on_user>> => CalmEntries
    /\ UNCHANGED <<mode, next, id_of>> => CalmIds
    /\ UNCHANGED <<link, task>> => CalmPackets
    /\ UNCHANGED <<rx_requests, res>> => CalmQueues
    /\ UNCHANGED down => CalmBodies
  BY DEF CalmIds, CalmEntries, CalmBodies, CalmPackets, CalmQueues, peerVars, handleVars,
         prodVars, consVars

LEMMA CalmFailed ==
    ASSUME NEW S, res' = Failed(S), UNCHANGED rx_requests
    PROVE  CalmQueues
  BY DEF CalmQueues, Failed

LEMMA CalmClose ==
    ASSUME TypeOK, NEW p \in Peers, CloseHandler(p), UNCHANGED <<waiting_on_user, rx_requests>>
    PROVE  CalmEntries /\ CalmQueues
<1>1. CalmEntries
  BY DEF CalmEntries, CloseHandler, EmptyTable, TypeOK, PeerTypeOK
<1> QED
  BY <1>1, CalmFailed DEF CloseHandler

LEMMA CalmEnd ==
    ASSUME TypeOK, NEW p \in Peers, NEW r, End(p, r)
    PROVE  /\ CalmIds /\ CalmEntries /\ CalmQueues /\ CalmBodies
           /\ task' = [task EXCEPT ![p] = Idle]
<1>1. CASE KeepsHandler(p, r)
  BY <1>1, CalmUnchanged DEF End, queueVars, callVars
<1>2. CASE ~KeepsHandler(p, r)
  <2>1. DropHandler(p)
    BY <1>2 DEF End
  <2>2. CalmEntries
    BY <2>1 DEF DropHandler, CalmEntries, EmptyTable, TypeOK, PeerTypeOK
  <2>3. CalmQueues
    BY <2>1 DEF DropHandler, CalmQueues, Failed, TypeOK, QueueTypeOK
  <2>4. CalmIds /\ CalmBodies
    BY <2>1, CalmUnchanged DEF DropHandler, consVars
  <2> QED
    BY <2>2, <2>3, <2>4 DEF End
<1> QED
  BY <1>1, <1>2

\* a task that goes to select, or to write a packet without a body
LEMMA CalmTask ==
    ASSUME TypeOK, NEW p \in Peers, NEW at, NEW k \in Kinds \ BodyKinds, NEW id,
           \/ task' = task
           \/ task' = [task EXCEPT ![p] = Idle]
           \/ Goto(p, at, Control(k, id))
    PROVE  \A q \in Peers : \/ task'[q] = task[q] \/ task'[q].at = "select"
                            \/ task'[q].packet.kind \notin BodyKinds
  BY DEF TypeOK, TaskTypeOK, Idle, Goto, Control, Packet

LEMMA CalmReceived ==
    ASSUME TypeOK, NEW p \in Peers,
           \/ link' = link \/ link' = HangUp(p)
           \/ Arrived(p) # <<>> /\ link' = [link EXCEPT ![Other(p)] = Tail(@)],
           \A q \in Peers : \/ task'[q] = task[q] \/ task'[q].at = "select"
                            \/ task'[q].packet.kind \notin BodyKinds
    PROVE  CalmPackets
  BY OtherPeer DEF TypeOK, LinkTypeOK, CalmPackets, HangUp, Arrived

LEMMA CalmUsers ==
    ASSUME TypeOK, CorrelationInv,
           \/ \E p \in Peers : User(p)
           \/ \E c \in Calls : UserCall(c) /\ ~StartCall(c)
           \/ Break
           \/ UNCHANGED vars
    PROVE  CorrelationInv'
<1>1. ASSUME NEW p \in Peers, User(p) PROVE CorrelationInv'
  <2>1. /\ UNCHANGED <<peerVars, link, task, rx_requests, res, down, id_of>>
    BY <1>1 DEF User, Receive, DropReceiver, SignalClose, taskVars, linkVars, queueVars,
                callVars, handleVars, consVars
  <2> QED
    BY <2>1, CalmUnchanged, CalmStep DEF peerVars
<1>2. ASSUME NEW c \in Calls, RefuseCall(c) PROVE CorrelationInv'
  <2>1. CalmQueues
    BY <1>2 DEF RefuseCall, CalmQueues, TypeOK, CallTypeOK, queueVars
  <2> QED
    BY <1>2, <2>1, CalmUnchanged, CalmStep DEF RefuseCall, taskVars, linkVars
<1>3. ASSUME NEW c \in Calls, Answer(c) \/ Emit(c) \/ DropSender(c) \/ CloseStream(c)
      PROVE  CorrelationInv'
  <2>1. UNCHANGED <<peerVars, link, task, rx_requests, res, down, id_of>>
    BY <1>3 DEF Answer, Emit, DropSender, CloseStream, taskVars, linkVars, queueVars,
                consVars
  <2> QED
    BY <2>1, CalmUnchanged, CalmStep DEF peerVars
<1>4. ASSUME NEW c \in Calls, Take(c) \/ Cancel(c) PROVE CorrelationInv'
  <2>1. UNCHANGED <<peerVars, link, task, rx_requests, id_of>>
    BY <1>4 DEF Take, Cancel, taskVars, linkVars, queueVars
  <2>2. CalmBodies
    BY <1>4 DEF Take, Cancel, CalmBodies, TypeOK, CallTypeOK, consVars
  <2>3. CalmQueues
    BY <1>4, <2>1 DEF Take, Cancel, CalmQueues, TypeOK, CallTypeOK
  <2> QED
    BY <2>1, <2>2, <2>3, CalmUnchanged, CalmStep DEF peerVars
<1>5. ASSUME Break PROVE CorrelationInv'
  <2>1. CalmPackets
    BY <1>5 DEF Break, CalmPackets, taskVars
  <2> QED
    BY <1>5, <2>1, CalmUnchanged, CalmStep DEF Break, queueVars, callVars
<1>6. ASSUME UNCHANGED vars PROVE CorrelationInv'
  BY <1>6, CalmUnchanged, CalmStep
     DEF vars, queueVars, taskVars, linkVars, callVars
<1> QED
  BY <1>1, <1>2, <1>3, <1>4, <1>5, <1>6 DEF UserCall

LEMMA CalmTasks ==
    ASSUME TypeOK, CorrelationInv, NEW p \in Peers,
           \/ RecvRefused(p) \/ RecvStreamClosed(p) \/ RecvClose(p) \/ RecvPing(p)
           \/ RecvMalformed(p) \/ ReadFails(p)
           \/ DeliverRequest(p) \/ DeliverToNobody(p)
           \/ ToSendDuplicate(p) \/ ToSendNoId(p)
           \/ Ping(p) \/ CloseSignal(p) \/ Finish(p) \/ WriteFails(p)
    PROVE  CorrelationInv'
<1>0. {"Ping", "Close", "StreamClosed", "MalformedRequest"} \subseteq Kinds \ BodyKinds
  BY DEF Kinds, BodyKinds, RequestKinds
<1>1. CASE RecvRefused(p) \/ ReadFails(p) \/ ToSendDuplicate(p) \/ WriteFails(p)
  <2>1. PICK r : End(p, r)
    BY <1>1 DEF RecvRefused, ReadFails, ToSendDuplicate, WriteFails
  <2>2. link' = link \/ link' = HangUp(p)
    BY <1>1 DEF RecvRefused, ReadFails, ToSendDuplicate, WriteFails, linkVars
  <2> QED
    BY <1>0, <2>1, <2>2, CalmEnd, CalmTask, CalmReceived, CalmStep
<1>2. CASE RecvStreamClosed(p)
  <2>1. CalmPackets
    BY <1>0, <1>2, CalmTask, CalmReceived DEF RecvStreamClosed, Accepts, Arrives, taskVars
  <2>2. Head(Arrived(p)).id \in Ids
    BY <1>2, FirstArrived DEF RecvStreamClosed, Accepts, Arrives, TypeOK, Packets
  <2>3. CalmEntries
    BY <1>2, <2>2 DEF RecvStreamClosed, CalmEntries, Put, TypeOK, PeerTypeOK, Tables
  <2>4. CalmQueues
    BY <1>2, CalmFailed DEF RecvStreamClosed, queueVars
  <2> QED
    BY <1>2, <2>1, <2>3, <2>4, CalmUnchanged, CalmStep DEF RecvStreamClosed, consVars
<1>3. CASE RecvClose(p)
  <2>1. CalmPackets
    BY <1>0, <1>3, CalmTask, CalmReceived DEF RecvClose, Accepts, Arrives
  <2> QED
    BY <1>3, <2>1, CalmClose, CalmUnchanged, CalmStep DEF RecvClose, consVars
<1>4. CASE RecvPing(p)
  <2>1. CalmPackets
    BY <1>0, <1>4, CalmTask, CalmReceived DEF RecvPing, Accepts, Arrives, taskVars
  <2> QED
    BY <1>4, <2>1, CalmUnchanged, CalmStep DEF RecvPing, queueVars, callVars
<1>5. CASE RecvMalformed(p)
  <2> DEFINE m == Head(Arrived(p))
  <2>1. CASE m.kind = "Response" /\ Refusal(p, m) # "none"
    <3>1. End(p, "UnknownId") /\ link' = HangUp(p)
      BY <1>5, <2>1 DEF RecvMalformed
    <3> QED
      BY <1>0, <3>1, CalmEnd, CalmTask, CalmReceived, CalmStep
  <2>2. CASE ~(m.kind = "Response" /\ Refusal(p, m) # "none")
    <3>1. Complaint(m.kind) \in Kinds \ BodyKinds
      BY <1>0 DEF Complaint
    <3>2. task' = task \/ Goto(p, "write", Control(Complaint(m.kind), m.id))
      BY <1>5, <2>2 DEF RecvMalformed
    <3>3. CalmPackets
      BY <1>5, <2>2, <3>1, <3>2, CalmTask, CalmReceived DEF RecvMalformed, Arrives
    <3>4. m.id \in Ids
      BY <1>5, FirstArrived DEF RecvMalformed, Arrives, TypeOK, Packets
    <3>5. CalmEntries
      <4>1. /\ UNCHANGED waiting_on_user
            /\ \/ waiting_on_stream' = Put(waiting_on_stream, p, m.id, NoCall)
               \/ UNCHANGED waiting_on_stream
        BY <1>5, <2>2 DEF RecvMalformed
      <4> QED
        BY <3>4, <4>1 DEF CalmEntries, Put, TypeOK, PeerTypeOK, Tables
    <3>6. CalmQueues
      BY <1>5, <2>2 DEF RecvMalformed, CalmQueues, TypeOK, CallTypeOK, queueVars
    <3> QED
      BY <1>5, <2>2, <3>3, <3>5, <3>6, CalmUnchanged, CalmStep
         DEF RecvMalformed, handleVars, consVars
  <2> QED
    BY <2>1, <2>2
<1>6. CASE DeliverRequest(p)
  <2>1. CalmPackets
    BY <1>0, <1>6, CalmTask, CalmReceived DEF DeliverRequest, linkVars
  <2> QED
    BY <1>6, <2>1, CalmUnchanged, CalmStep DEF DeliverRequest, callVars
<1>7. CASE DeliverToNobody(p)
  <2>1. CalmPackets
    BY <1>0, <1>7, CalmTask, CalmReceived DEF DeliverToNobody, linkVars
  <2> QED
    BY <1>7, <2>1, CalmClose, CalmUnchanged, CalmStep DEF DeliverToNobody
<1>8. CASE ToSendNoId(p)
  <2>1. CalmQueues
    BY <1>8 DEF ToSendNoId, HasRequest, TakeRequest, CalmQueues, Failed, TypeOK, QueueTypeOK
  <2> QED
    BY <1>8, <2>1, CalmUnchanged, CalmStep
       DEF ToSendNoId, peerVars, taskVars, linkVars, consVars
<1>9. CASE Ping(p)
  <2>1. CalmPackets
    BY <1>0, <1>9, CalmTask, CalmReceived DEF Ping, linkVars
  <2> QED
    BY <1>9, <2>1, CalmUnchanged, CalmStep DEF Ping, queueVars, callVars
<1>10. CASE CloseSignal(p)
  <2>1. CalmPackets
    BY <1>10, CalmUnchanged DEF CloseSignal, linkVars
  <2> QED
    BY <1>10, <2>1, CalmClose, CalmUnchanged, CalmStep DEF CloseSignal, consVars
<1>11. CASE Finish(p) /\ close_packet[p]
  <2>1. CalmPackets
    BY <1>0, <1>11, CalmTask, CalmReceived DEF Finish, linkVars
  <2> QED
    BY <1>11, <2>1, CalmUnchanged, CalmStep DEF Finish, queueVars, callVars
<1>12. CASE Finish(p) /\ ~close_packet[p]
  <2>1. End(p, "Ok") /\ link' = HangUp(p)
    BY <1>12 DEF Finish
  <2> QED
    BY <1>0, <2>1, CalmEnd, CalmTask, CalmReceived, CalmStep
<1> QED
  BY <1>1, <1>2, <1>3, <1>4, <1>5, <1>6, <1>7, <1>8, <1>9, <1>10, <1>11, <1>12

-----------------------------------------------------------------------------
(* The actions that add a packet, an entry, a queued call or a body *)

LEMMA Element ==
    ASSUME NEW S, NEW seq \in Seq(S), NEW i \in 1 .. Len(seq)
    PROVE  seq[i] \in S
  OBVIOUS

LEMMA FirstGenuine ==
    ASSUME TypeOK, GenuinePackets, NEW p \in Peers, Arrived(p) # <<>>
    PROVE  Genuine(Other(p), Head(Arrived(p)))
<1>1. link[Other(p)] \in Seq(Packets) /\ Other(p) \in Peers
  BY OtherPeer DEF TypeOK, LinkTypeOK
<1>2. 1 \in 1 .. Len(link[Other(p)]) /\ Head(link[Other(p)]) = link[Other(p)][1]
  BY <1>1 DEF Arrived
<1> QED
  BY <1>1, <1>2 DEF GenuinePackets, Arrived

\* the packet in p's hands is the one that arrived
LEMMA ReceivedGenuine ==
    ASSUME TypeOK, GenuinePackets, UNCHANGED id_of, NEW p \in Peers, Arrived(p) # <<>>,
           link' = [link EXCEPT ![Other(p)] = Tail(@)],
           Goto(p, "deliver", Head(Arrived(p)))
    PROVE  GenuinePackets'
<1>1. Genuine(Other(p), Head(Arrived(p)))
  BY FirstGenuine
<1>2. ASSUME NEW q \in Peers
      PROVE  (/\ \A i \in 1 .. Len(link[q]) : Genuine(q, link[q][i])
              /\ task[q].at = "write" => Genuine(q, task[q].packet)
              /\ task[q].at = "deliver" => Genuine(Other(q), task[q].packet))'
  <2> DEFINE old == link[q]
             new == link'[q]
  <2>1. old \in Seq(Packets)
    BY DEF TypeOK, LinkTypeOK
  <2>2. new = old \/ (old # <<>> /\ new = Tail(old))
    BY OtherPeer DEF TypeOK, LinkTypeOK, Arrived
  <2>3. \A i \in 1 .. Len(new) : \E j \in 1 .. Len(old) : new[i] = old[j]
    <3> HIDE DEF old, new
    <3> QED
      BY <2>1, <2>2, Remainder
  <2>4. ASSUME NEW i \in 1 .. Len(link'[q])
        PROVE  Genuine(q, link[q][i])'
    <3>1. PICK j \in 1 .. Len(old) : new[i] = old[j]
      BY <2>3
    <3>2. Genuine(q, old[j])
      BY <3>1 DEF GenuinePackets
    <3> QED
      BY <3>1, <3>2 DEF Genuine
  <2>5. (\A i \in 1 .. Len(link[q]) : Genuine(q, link[q][i]))'
    BY <2>4
  <2>6. CASE q = p
    <3>1. task'[q] = [at |-> "deliver", packet |-> Head(Arrived(p))]
      BY <2>6 DEF Goto, TypeOK, TaskTypeOK
    <3>2. Genuine(Other(q), task[q].packet)'
      BY <1>1, <2>6, <3>1 DEF Genuine
    <3>3. task'[q].at = "deliver"
      BY <3>1
    <3>4. (task[q].at = "write" => Genuine(q, task[q].packet))'
      BY <3>3
    <3> QED
      BY <2>5, <3>2, <3>4
  <2>7. CASE q # p
    <3>1. task'[q] = task[q]
      BY <2>7 DEF Goto, TypeOK, TaskTypeOK
    <3> QED
      BY <2>5, <3>1 DEF GenuinePackets, Genuine
  <2> QED
    BY <2>6, <2>7
<1> QED
  BY <1>2 DEF GenuinePackets

\* a call or EnableServerRequests joins the queue of its caller
LEMMA QueueGrows ==
    ASSUME TypeOK, QueuedOnce, UNCHANGED id_of, NEW p \in Peers,
           NEW x \in Calls \cup {Enable},
           rx_requests' = [rx_requests EXCEPT ![p] = Append(@, x)],
           x # Enable => CallerOf[x] = p /\ res[x] = "idle" /\ res'[x] # "idle",
           \A c \in Calls : c # x => res'[c] = res[c]
    PROVE  QueuedOnce'
<1>1. \A q \in Peers : rx_requests[q] \in Seq(Calls \cup {Enable})
  BY DEF TypeOK, QueueTypeOK, Queues
<1>2. \A c \in Calls : res'[c] = "idle" => res[c] = "idle"
  BY Basics
<1>3. ASSUME NEW q \in Peers, NEW i \in 1 .. Len(rx_requests[q]), rx_requests[q][i] # Enable,
             x # Enable
      PROVE  rx_requests[q][i] # x
  BY <1>1, <1>3 DEF QueuedOnce
<1>4. ASSUME NEW q \in Peers, NEW i \in 1 .. Len(rx_requests'[q]), rx_requests'[q][i] # Enable
      PROVE  LET c == rx_requests'[q][i] IN
             /\ CallerOf[c] = q /\ id_of'[c] = NoId /\ res'[c] # "idle"
             /\ \A j \in 1 .. Len(rx_requests'[q]) : rx_requests'[q][j] = c => i = j
  <2>1. CASE q # p
    <3>1. rx_requests'[q] = rx_requests[q]
      BY <2>1 DEF TypeOK, QueueTypeOK
    <3>2. rx_requests[q][i] \in Calls \cup {Enable}
      BY <1>1, <1>4, <3>1, Element
    <3> QED
      BY <1>2, <1>4, <3>1, <3>2 DEF QueuedOnce
  <2>2. CASE q = p
    <3>1. /\ Len(rx_requests'[p]) = Len(rx_requests[p]) + 1
          /\ \A j \in 1 .. Len(rx_requests[p]) : rx_requests'[p][j] = rx_requests[p][j]
          /\ rx_requests'[p][Len(rx_requests[p]) + 1] = x
      BY <1>1 DEF TypeOK, QueueTypeOK
    <3>2. CASE i \in 1 .. Len(rx_requests[p])
      <4>1. rx_requests'[p][i] = rx_requests[p][i] /\ rx_requests[p][i] \in Calls
        BY <1>1, <1>4, <2>2, <3>1, <3>2
      <4>2. rx_requests[p][i] # x
        BY <1>3, <1>4, <2>2, <3>2, <4>1
      <4> QED
        BY <1>1, <1>2, <1>4, <2>2, <3>1, <3>2, <4>1, <4>2 DEF QueuedOnce
    <3>3. CASE i = Len(rx_requests[p]) + 1
      <4>1. rx_requests'[p][i] = x /\ x # Enable /\ x \in Calls
        BY <1>4, <2>2, <3>1, <3>3
      <4>2. CallerOf[x] = p /\ id_of'[x] = NoId /\ res'[x] # "idle"
        BY <4>1 DEF QueuedOnce
      <4>3. ASSUME NEW j \in 1 .. Len(rx_requests'[p]), rx_requests'[p][j] = x PROVE i = j
        <5>1. CASE j \in 1 .. Len(rx_requests[p])
          BY <1>3, <3>1, <4>1, <4>3, <5>1
        <5> QED
          BY <1>1, <3>1, <3>3, <4>3, <5>1
      <4> QED
        BY <2>2, <4>1, <4>2, <4>3
    <3> QED
      BY <1>1, <1>4, <2>2, <3>1, <3>2, <3>3
  <2> QED
    BY <2>1, <2>2
<1>5. \A c \in Calls : res'[c] = "idle" => id_of'[c] = NoId
  BY <1>2 DEF QueuedOnce
<1> QED
  BY <1>4, <1>5 DEF QueuedOnce

LEMMA AskEnableCorr == ASSUME TypeOK, CorrelationInv, AskEnable PROVE CorrelationInv'
<1>1. QueuedOnce'
  BY QueueGrows DEF AskEnable, CorrelationInv, Peers, callVars, handleVars
<1> QED
  BY <1>1, CalmUnchanged, FrameIds, FramePackets, FrameEntries, FrameBodies, FrameApart
     DEF AskEnable, CorrelationInv, taskVars, linkVars, callVars, handleVars, peerVars

LEMMA StartCallCorr ==
    ASSUME TypeOK, CorrelationInv, NEW c \in Calls, StartCall(c) PROVE CorrelationInv'
<1>1. CallerOf[c] \in Peers /\ c # Enable
  BY Basics
<1>2. QueuedOnce'
  BY <1>1, QueueGrows DEF StartCall, CorrelationInv, TypeOK, CallTypeOK
<1> QED
  BY <1>2, CalmUnchanged, FrameIds, FramePackets, FrameEntries, FrameBodies, FrameApart
     DEF StartCall, CorrelationInv, taskVars, linkVars, peerVars

\* server-initiated calls begin, with ids above U32_MID
LEMMA EnableIds ==
    ASSUME TypeOK, IdsAscend, NEW p \in Peers, NEW n, EnableServerRequests(p, n),
           n = next[p] \/ n = Advance(p), UNCHANGED id_of
    PROVE  IdsAscend' /\ (IdsApart' => IdsApart)
<1>1. /\ next \in [Peers -> 0 .. MaxId + 1] /\ id_of \in [Calls -> Int]
      /\ mode \in [Peers -> {"UniServer", "UniClient", "BiServer", "BiClient"}]
      /\ n \in 0 .. MaxId + 1 /\ n >= next[p]
  <2>1. /\ next \in [Peers -> 0 .. MaxId + 1] /\ id_of \in [Calls -> Int]
        /\ mode \in [Peers -> {"UniServer", "UniClient", "BiServer", "BiClient"}]
    BY Basics DEF TypeOK, PeerTypeOK, CallTypeOK, Ids, NoId
  <2>2. Advance(p) \in 0 .. MaxId + 1
    BY AdvanceType, Basics DEF Ids, NoId
  <2>3. Advance(p) >= next[p]
    BY <2>1, Basics DEF Advance, NoId
  <2> QED
    BY <2>1, <2>2, <2>3
<1>2. \A q \in Peers : q # p => mode'[q] = mode[q] /\ next'[q] = next[q]
  BY <1>1 DEF EnableServerRequests
<1>3. /\ mode[p] = "UniServer" => mode'[p] = "BiServer" /\ next'[p] = Mid + 1
      /\ mode[p] = "UniClient" => mode'[p] = "BiClient" /\ next'[p] \in {n, MaxId + 1}
      /\ mode[p] \notin {"UniServer", "UniClient"} => mode'[p] = mode[p] /\ next'[p] = n
  BY <1>1 DEF EnableServerRequests, FirstServerId, NoId
<1>4. \A c \in Calls : id_of[c] # NoId /\ CallerOf[c] = p => id_of[c] < next'[p]
  BY <1>1, <1>3, Basics DEF IdsAscend, Peers, NoId, Old
<1>5. IdsAscend'
  BY <1>1, <1>2, <1>3, <1>4, Basics DEF IdsAscend, Peers, NoId, Old
<1>6. IdsApart' => IdsApart
  BY <1>1, <1>2, <1>3 DEF IdsApart, Peers, IdsAscend
<1> QED
  BY <1>5, <1>6

LEMMA RecvEnableCorr ==
    ASSUME TypeOK, CorrelationInv, NEW p \in Peers, RecvEnableServerRequests(p)
    PROVE  CorrelationInv'
<1>1. IdsAscend' /\ (IdsApart' => IdsApart)
  BY EnableIds DEF RecvEnableServerRequests, CorrelationInv, callVars, handleVars
<1>2. CalmPackets
  <2>1. Head(Arrived(p)).kind \notin BodyKinds
    BY Accepted DEF RecvEnableServerRequests, TypeOK, BodyKinds, RequestKinds
  <2>2. task' = task \/ task' = [task EXCEPT ![p] = [at |-> "deliver", packet |-> Head(Arrived(p))]]
    BY DEF RecvEnableServerRequests, Goto
  <2>3. \A q \in Peers : task'[q] = task[q] \/ task'[q].packet.kind \notin BodyKinds
    BY <2>1, <2>2 DEF TypeOK, TaskTypeOK
  <2> QED
    BY <2>3, CalmReceived DEF RecvEnableServerRequests, Accepts, Arrives
<1> QED
  BY <1>1, <1>2, CalmUnchanged, FramePackets, FrameEntries, FrameQueues, FrameBodies
     DEF RecvEnableServerRequests, CorrelationInv, queueVars, callVars, handleVars, consVars

LEMMA ToSendEnableCorr ==
    ASSUME TypeOK, CorrelationInv, NEW p \in Peers, ToSendEnable(p)
    PROVE  CorrelationInv'
<1>1. IdsAscend' /\ (IdsApart' => IdsApart)
  BY EnableIds DEF ToSendEnable, CorrelationInv, callVars, handleVars
<1>2. CalmPackets
  <2>1. "EnableServerRequests" \in Kinds \ BodyKinds
    BY DEF Kinds, BodyKinds, RequestKinds
  <2> QED
    <3>1. Goto(p, "write", Control("EnableServerRequests", next[p])) /\ link' = link
      BY DEF ToSendEnable, linkVars
    <3> QED
      BY <2>1, <3>1, CalmTask, CalmReceived
<1>3. CalmQueues
  BY DEF ToSendEnable, HasRequest, TakeRequest, CalmQueues, TypeOK, QueueTypeOK, callVars
<1> QED
  BY <1>1, <1>2, <1>3, CalmUnchanged, FramePackets, FrameEntries, FrameQueues, FrameBodies
     DEF ToSendEnable, CorrelationInv, callVars, handleVars, consVars

LEMMA RecvRequestCorr ==
    ASSUME TypeOK, CorrelationInv, NEW p \in Peers, RecvRequest(p) PROVE CorrelationInv'
<1> DEFINE m == Head(Arrived(p))
<1>1. m \in Packets /\ m.kind \in RequestKinds /\ m.id \in Ids /\ m.call \in Calls
  BY Accepted DEF RecvRequest, TypeOK, Packets, BodyKinds
<1>2. Genuine(Other(p), m)
  BY FirstGenuine DEF RecvRequest, Accepts, Arrives, CorrelationInv
<1>3. id_of[m.call] = m.id /\ KindOf[m.call] = m.kind /\ CallerOf[m.call] = Other(p)
  BY <1>1, <1>2 DEF Genuine, BodyKinds
<1>4. UNCHANGED <<mode, next, id_of, rx_requests, res, down>>
  BY DEF RecvRequest, queueVars, callVars, handleVars, consVars
<1>5. GenuineEntries'
  <2>1. IF m.kind = "RequestSender" THEN Cons(m.call) = p ELSE Prod(m.call) = p
    BY <1>1, <1>3 DEF Cons, Prod, Other, Peers
  <2>2. CASE m.kind = "RequestSender"
    BY <1>1, <1>3, <1>4, <2>1, <2>2
       DEF RecvRequest, CorrelationInv, GenuineEntries, Put, TypeOK, PeerTypeOK, Tables
  <2>3. CASE m.kind # "RequestSender"
    BY <1>1, <1>3, <1>4, <2>1, <2>3
       DEF RecvRequest, CorrelationInv, GenuineEntries, Put, TypeOK, PeerTypeOK, Tables
  <2> QED
    BY <2>2, <2>3
<1>6. GenuinePackets'
  BY <1>2, ReceivedGenuine DEF RecvRequest, Accepts, Arrives, CorrelationInv, callVars, handleVars
<1> QED
  BY <1>4, <1>5, <1>6, CalmUnchanged, FrameIds, FrameQueues, FrameBodies, FrameApart
     DEF CorrelationInv

LEMMA RecvStreamCorr ==
    ASSUME TypeOK, CorrelationInv, NEW p \in Peers, RecvStream(p) PROVE CorrelationInv'
<1>1. UNCHANGED <<peerVars, id_of, rx_requests, res, down>>
  BY DEF RecvStream, queueVars, callVars, handleVars, consVars
<1>2. GenuinePackets'
  <2>1. CASE waiting_on_stream[p][Head(Arrived(p)).id] = NoCall
    <3>1. "StreamClosed" \in Kinds \ BodyKinds
      BY DEF Kinds, BodyKinds, RequestKinds
    <3>2. CalmPackets
      BY <2>1, <3>1, CalmTask, CalmReceived DEF RecvStream, Accepts, Arrives
    <3> QED
      BY <1>1, <3>2, FramePackets DEF CorrelationInv
  <2>2. CASE waiting_on_stream[p][Head(Arrived(p)).id] # NoCall
    BY <1>1, <2>2, FirstGenuine, ReceivedGenuine
       DEF RecvStream, Accepts, Arrives, CorrelationInv
  <2> QED
    BY <2>1, <2>2
<1> QED
  BY <1>1, <1>2, CalmUnchanged, FrameIds, FrameEntries, FrameQueues, FrameBodies, FrameApart
     DEF CorrelationInv, peerVars

\* a body that arrives under the id of an entry is of the call of that entry
LEMMA SameRequest ==
    ASSUME IdsAscend, NEW c \in Calls, NEW d \in Calls, id_of[c] = id_of[d], id_of[c] \in Ids,
           Prod(c) = Prod(d), IsRequest(c), IsRequest(d)
    PROVE  c = d
<1>1. CallerOf[c] = CallerOf[d]
  BY Basics DEF Prod, IsRequest, Other, Peers
<1>2. id_of[c] # NoId
  BY Basics DEF Ids, NoId
<1> QED
  BY <1>1, <1>2 DEF IdsAscend

LEMMA SameCall ==
    ASSUME TypeOK, IdsAscend, IdsApart,
           NEW c \in Calls, NEW d \in Calls, id_of[c] = id_of[d], id_of[c] \in Ids
    PROVE  c = d
<1>1. id_of[c] # NoId /\ id_of[c] \in Nat
  BY Basics DEF Ids, NoId
<1>2. CallerOf[c] = CallerOf[d]
  BY <1>1, Basics DEF IdsApart, IdsAscend, Peers, Old
<1> QED
  BY <1>1, <1>2 DEF IdsAscend

LEMMA RecvAnswerCorr ==
    ASSUME TypeOK, CorrelationInv, NEW p \in Peers, RecvAnswer(p) PROVE CorrelationInv'
<1> DEFINE m == Head(Arrived(p))
           c == waiting_on_stream[p][m.id]
<1>1. m \in Packets /\ m.id \in Ids /\ m.kind \in {"Response", "NoResponse", "MalformedRequest"}
  BY Accepted DEF RecvAnswer, TypeOK, Packets
<1>2. Genuine(Other(p), m)
  BY FirstGenuine DEF RecvAnswer, Accepts, Arrives, CorrelationInv
<1>3. c \in Calls /\ IsRequest(c) /\ id_of[c] = m.id /\ Cons(c) = p
  <2>1. c # NoCall /\ IsRequest(c)
    BY <1>1 DEF RecvAnswer, Accepts, Refusal, RequestKinds
  <2> QED
    BY <1>1, <2>1 DEF TypeOK, PeerTypeOK, Tables, CorrelationInv, GenuineEntries
<1>4. m.kind = "Response" => m.call = c
  <2> SUFFICES ASSUME m.kind = "Response" PROVE m.call = c
    OBVIOUS
  <2>1. m.call \in Calls /\ id_of[m.call] = m.id /\ Prod(m.call) = Other(p) /\ IsRequest(m.call)
    BY <1>1, <1>2 DEF Genuine, BodyKinds, Packets
  <2>2. Prod(c) = Other(p)
    BY <1>3, Basics DEF Cons, Prod, Other, Peers
  <2> QED
    BY <1>1, <1>3, <2>1, <2>2, SameRequest DEF CorrelationInv
<1>5. CorrelationApart'
  <2>1. UNCHANGED <<mode, id_of>>
    BY DEF RecvAnswer
  <2>2. \/ down' = down
        \/ m.kind = "Response" /\ down' = [down EXCEPT ![c] = <<Body(m)>>]
    <3>1. \/ down' = down
          \/ down' = [down EXCEPT ![c] = IF m.kind = "Response" THEN <<Body(m)>> ELSE @]
      BY <1>1 DEF RecvAnswer
    <3>2. [down EXCEPT ![c] = @] = down
      BY DEF TypeOK, CallTypeOK
    <3> QED
      BY <3>1, <3>2
  <2>3. CASE down' = down
    BY <2>1, <2>3, CalmUnchanged, FrameBodies, FrameApart DEF CorrelationInv
  <2>4. CASE m.kind = "Response" /\ down' = [down EXCEPT ![c] = <<Body(m)>>]
    <3>1. Body(m).call = c
      BY <1>4, <2>4 DEF Body
    <3>2. down \in [Calls -> Seq(Bodies)]
      BY DEF TypeOK, CallTypeOK
    <3> QED
      BY <1>3, <2>1, <2>4, <3>1, <3>2, FrameApart
         DEF CorrelationInv, CorrelationApart, Correlation
  <2> QED
    BY <2>2, <2>3, <2>4
<1>6. CalmPackets
  BY CalmReceived DEF RecvAnswer, Accepts, Arrives, taskVars
<1>7. CalmEntries
  BY <1>1 DEF RecvAnswer, CalmEntries, Put, TypeOK, PeerTypeOK, Tables
<1>8. CalmQueues
  BY <1>1, <1>3 DEF RecvAnswer, CalmQueues, queueVars, TypeOK, CallTypeOK
<1> QED
  BY <1>5, <1>6, <1>7, <1>8, CalmUnchanged, FrameIds, FramePackets, FrameEntries, FrameQueues
     DEF RecvAnswer, CorrelationInv

LEMMA DeliverMessageCorr ==
    ASSUME TypeOK, CorrelationInv, NEW p \in Peers, DeliverMessage(p) PROVE CorrelationInv'
<1> DEFINE m == task[p].packet
           c == waiting_on_stream[p][m.id]
<1>1. m \in Packets /\ m.id \in Ids /\ m.kind = "Stream" /\ m.call \in Calls
  BY DEF DeliverMessage, TypeOK, TaskTypeOK, Tasks, Packets, BodyKinds
<1>2. id_of[m.call] = m.id
  BY <1>1 DEF DeliverMessage, Delivering, CorrelationInv, GenuinePackets, Genuine, BodyKinds
<1>3. UNCHANGED <<peerVars, id_of, rx_requests, res>>
  BY DEF DeliverMessage, queueVars
<1>4. CorrelationApart'
  <2>1. \/ down' = [down EXCEPT ![c] = Append(@, Body(m))]
        \/ down' = down
    BY DEF DeliverMessage
  <2>2. CASE down' = down \/ c \notin Calls
    <3>1. c \notin Calls => [down EXCEPT ![c] = Append(@, Body(m))] = down
      BY DEF TypeOK, CallTypeOK
    <3>2. down' = down
      BY <2>1, <2>2, <3>1
    <3> QED
      BY <1>3, <3>2, CalmUnchanged, FrameBodies, FrameApart DEF CorrelationInv, peerVars
  <2>3. CASE c \in Calls /\ down' = [down EXCEPT ![c] = Append(@, Body(m))]
    <3> SUFFICES ASSUME IdsApart', NEW d \in Calls, NEW i \in 1 .. Len(down'[d])
                 PROVE  down'[d][i].call = d
      BY DEF CorrelationApart, Correlation
    <3>1. IdsApart
      BY <1>3, FrameApart DEF peerVars
    <3>2. id_of[c] = m.id
      BY <1>1, <2>3, Basics DEF CorrelationInv, GenuineEntries
    <3>3. m.call = c
      BY <1>1, <1>2, <2>3, <3>1, <3>2, SameCall DEF CorrelationInv
    <3> DEFINE old == down[d]
    <3>4. old \in Seq(Bodies)
      BY DEF TypeOK, CallTypeOK
    <3>5. down'[d] = IF d = c THEN Append(old, Body(m)) ELSE old
      BY <2>3 DEF TypeOK, CallTypeOK
    <3>6. \A j \in 1 .. Len(old) : old[j].call = d
      BY <3>1 DEF CorrelationInv, CorrelationApart, Correlation
    <3>7. CASE d = c /\ i = Len(old) + 1
      <4>1. down'[d][i] = Body(m)
        <5> HIDE DEF old
        <5> QED
          BY <3>4, <3>5, <3>7
      <4>2. Body(m).call = m.call
        BY DEF Body
      <4> HIDE DEF m
      <4> QED
        BY <3>3, <3>7, <4>1, <4>2
    <3>8. CASE ~(d = c /\ i = Len(old) + 1)
      <4>1. i \in 1 .. Len(old) /\ down'[d][i] = old[i]
        <5> HIDE DEF old
        <5> QED
          BY <3>4, <3>5, <3>8
      <4> QED
        BY <3>6, <4>1
    <3> QED
      BY <3>7, <3>8
  <2> QED
    BY <2>1, <2>2, <2>3
<1>5. CalmPackets
  <2>1. "StreamClosed" \in Kinds \ BodyKinds
    BY DEF Kinds, BodyKinds, RequestKinds
  <2> QED
    BY <2>1, CalmTask, CalmReceived DEF DeliverMessage, linkVars
<1> QED
  BY <1>3, <1>4, <1>5, CalmUnchanged, FrameIds, FramePackets, FrameEntries, FrameQueues
     DEF CorrelationInv, peerVars

\* p writes its packet to the link: it was genuine in its hands
LEMMA SentGenuine ==
    ASSUME TypeOK, GenuinePackets, UNCHANGED id_of, NEW p \in Peers,
           task[p].at = "write", task' = [task EXCEPT ![p] = Idle],
           link'[p] \in {link[p], Append(link[p], task[p].packet)},
           link'[Other(p)] \in {link[Other(p)], <<>>}
    PROVE  GenuinePackets'
<1>1. task[p].packet \in Packets /\ Genuine(p, task[p].packet)
  BY DEF TypeOK, TaskTypeOK, Tasks, GenuinePackets
<1>2. ASSUME NEW q \in Peers
      PROVE  (/\ \A i \in 1 .. Len(link[q]) : Genuine(q, link[q][i])
              /\ task[q].at = "write" => Genuine(q, task[q].packet)
              /\ task[q].at = "deliver" => Genuine(Other(q), task[q].packet))'
  <2> DEFINE old == link[q]
             new == link'[q]
             m == task[p].packet
  <2>1. old \in Seq(Packets)
    BY DEF TypeOK, LinkTypeOK
  <2>2. new \in {old, <<>>} \/ (q = p /\ new = Append(old, m))
    BY DEF Other, Peers
  <2>3. \A i \in 1 .. Len(new) : (\E j \in 1 .. Len(old) : new[i] = old[j]) \/ (q = p /\ new[i] = m)
    <3> HIDE DEF old, new, m
    <3> QED
      BY <1>1, <2>1, <2>2
  <2>4. ASSUME NEW i \in 1 .. Len(link'[q])
        PROVE  Genuine(q, link[q][i])'
    <3>1. Genuine(q, new[i])
      BY <1>1, <2>3 DEF GenuinePackets
    <3> QED
      BY <3>1 DEF Genuine
  <2>5. (\A i \in 1 .. Len(link[q]) : Genuine(q, link[q][i]))'
    BY <2>4
  <2>6. task'[q] = Idle \/ task'[q] = task[q]
    BY DEF TypeOK, TaskTypeOK
  <2>7. (task[q].at = "write" => Genuine(q, task[q].packet))'
    BY <2>6 DEF GenuinePackets, Genuine, Idle
  <2>8. (task[q].at = "deliver" => Genuine(Other(q), task[q].packet))'
    BY <2>6 DEF GenuinePackets, Genuine, Idle
  <2> QED
    BY <2>5, <2>7, <2>8
<1> QED
  BY <1>2 DEF GenuinePackets

LEMMA WriteCorr ==
    ASSUME TypeOK, CorrelationInv, NEW p \in Peers, Write(p) \/ WriteClose(p)
    PROVE  CorrelationInv'
<1>1. /\ CalmIds /\ CalmEntries /\ CalmQueues /\ CalmBodies
      /\ task' = [task EXCEPT ![p] = Idle]
  <2>1. CASE Write(p)
    BY <2>1, CalmUnchanged DEF Write, queueVars, callVars
  <2>2. CASE WriteClose(p)
    BY <2>2, CalmEnd DEF WriteClose
  <2> QED
    BY <2>1, <2>2
<1>2. task[p].at = "write" /\ UNCHANGED id_of
  BY <1>1 DEF Write, WriteClose, Writing, CalmIds
<1>3. /\ link'[p] \in {link[p], Append(link[p], task[p].packet)}
      /\ link'[Other(p)] \in {link[Other(p)], <<>>}
  BY OtherPeer DEF Write, WriteClose, HangUp, Other, Peers, TypeOK, LinkTypeOK
<1>4. GenuinePackets'
  BY <1>1, <1>2, <1>3, SentGenuine DEF CorrelationInv
<1> QED
  BY <1>1, <1>4, FrameIds, FrameEntries, FrameQueues, FrameBodies, FrameApart
     DEF CorrelationInv, CalmIds

\* p is about to write m, and calls that had an id keep it
LEMMA WritingGenuine ==
    ASSUME TypeOK, GenuinePackets, NEW p \in Peers, NEW m,
           \A d \in Calls : id_of[d] \in Ids => id_of'[d] = id_of[d],
           Goto(p, "write", m), UNCHANGED link,
           m.kind \in BodyKinds =>
               /\ id_of'[m.call] = m.id
               /\ m.kind \in RequestKinds => KindOf[m.call] = m.kind /\ CallerOf[m.call] = p
               /\ m.kind \in {"Response", "Stream"} =>
                     Prod(m.call) = p /\ (m.kind = "Response" <=> IsRequest(m.call))
    PROVE  GenuinePackets'
<1>1. ASSUME NEW q, NEW x \in Packets, Genuine(q, x), x.kind \in BodyKinds
      PROVE  id_of'[x.call] = x.id
  BY <1>1 DEF Genuine, Packets
<1>2. ASSUME NEW q \in Peers
      PROVE  (/\ \A i \in 1 .. Len(link[q]) : Genuine(q, link[q][i])
              /\ task[q].at = "write" => Genuine(q, task[q].packet)
              /\ task[q].at = "deliver" => Genuine(Other(q), task[q].packet))'
  <2>1. task[q].packet \in Packets /\ link[q] \in Seq(Packets) /\ link'[q] = link[q]
    BY DEF TypeOK, LinkTypeOK, TaskTypeOK, Tasks
  <2>2. \A i \in 1 .. Len(link[q]) : link[q][i] \in Packets
    BY <2>1, Element
  <2>3. (\A i \in 1 .. Len(link[q]) : Genuine(q, link[q][i]))'
    <3>1. \A i \in 1 .. Len(link[q]) :
             /\ Genuine(q, link[q][i])
             /\ link[q][i].kind \in BodyKinds => id_of'[link[q][i].call] = link[q][i].id
      BY <1>1, <2>2 DEF GenuinePackets
    <3> QED
      BY <2>1, <3>1 DEF Genuine
  <2>4. CASE q = p
    <3>1. task'[q] = [at |-> "write", packet |-> m]
      BY <2>4 DEF Goto, TypeOK, TaskTypeOK
    <3> QED
      BY <2>3, <2>4, <3>1 DEF Genuine
  <2>5. CASE q # p
    <3>1. task'[q] = task[q]
      BY <2>5 DEF Goto, TypeOK, TaskTypeOK
    <3> DEFINE x == task[q].packet
    <3>2. /\ task[q].at = "write" => Genuine(q, x)
          /\ task[q].at = "deliver" => Genuine(Other(q), x)
      BY DEF GenuinePackets
    <3>3. task[q].at \in {"write", "deliver"} /\ x.kind \in BodyKinds => id_of'[x.call] = x.id
      BY <1>1, <2>1, <3>2
    <3> QED
      BY <2>3, <3>1, <3>2, <3>3 DEF Genuine
  <2> QED
    BY <2>4, <2>5
<1> QED
  BY <1>2 DEF GenuinePackets

LEMMA ToSendUserCorr ==
    ASSUME TypeOK, CorrelationInv, NEW p \in Peers, NEW id \in Ids, ToSendUser(p, id)
    PROVE  CorrelationInv'
<1> DEFINE c == waiting_on_user[p][id]
           m == IF Over(c) THEN Control(IF IsRequest(c) THEN "NoResponse" ELSE "StreamClosed", id)
                ELSE Packet(IF IsRequest(c) THEN "Response" ELSE "Stream", id, c, Head(up[c]))
<1>1. c \in Calls /\ id_of[c] = id /\ Prod(c) = p
  BY DEF ToSendUser, CorrelationInv, GenuineEntries, TypeOK, PeerTypeOK, Tables
<1>2. UNCHANGED <<mode, next, id_of, rx_requests, res, down, link>> /\ Goto(p, "write", m)
  BY DEF ToSendUser, queueVars, linkVars, consVars
<1>3. m.kind \in BodyKinds =>
         /\ m.call = c /\ m.id = id
         /\ m.kind = IF IsRequest(c) THEN "Response" ELSE "Stream"
  BY DEF Control, Packet, BodyKinds, RequestKinds
<1>4. GenuinePackets'
  <2>1. m.kind \in BodyKinds =>
           /\ id_of'[m.call] = m.id
           /\ m.kind \in RequestKinds => KindOf[m.call] = m.kind /\ CallerOf[m.call] = p
           /\ m.kind \in {"Response", "Stream"} =>
                 Prod(m.call) = p /\ (m.kind = "Response" <=> IsRequest(m.call))
    BY <1>1, <1>2, <1>3 DEF RequestKinds
  <2> HIDE DEF m
  <2> QED
    BY <1>2, <2>1, WritingGenuine DEF CorrelationInv
<1>5. CalmEntries
  BY DEF ToSendUser, CalmEntries, Put, TypeOK, PeerTypeOK, Tables
<1> QED
  BY <1>2, <1>4, <1>5, CalmUnchanged, FrameIds, FrameEntries, FrameQueues, FrameBodies, FrameApart
     DEF CorrelationInv

LEMMA CounterType == Ids \cup {NoId} = 0 .. MaxId + 1
  BY Basics DEF Ids, NoId

LEMMA ToSendRequestCorr ==
    ASSUME TypeOK, CorrelationInv, NEW p \in Peers, ToSendRequest(p) PROVE CorrelationInv'
<1> DEFINE c == Head(rx_requests[p])
           id == next[p]
           m == Packet(KindOf[c], id, c, 0)
<1>1. rx_requests[p] \in Seq(Calls \cup {Enable}) /\ rx_requests[p] # <<>>
  BY DEF ToSendRequest, HasRequest, TypeOK, QueueTypeOK, Queues
<1>2. 1 \in 1 .. Len(rx_requests[p]) /\ c = rx_requests[p][1]
  BY <1>1
<1>3. c \in Calls /\ CallerOf[c] = p /\ id_of[c] = NoId /\ res[c] # "idle"
  BY <1>2, TakeRequestType DEF ToSendRequest, CorrelationInv, QueuedOnce
<1>4. id \in Ids /\ id # NoId /\ NoId \notin Ids
  BY Basics DEF ToSendRequest, TypeOK, PeerTypeOK, Ids, NoId
<1>5. UNCHANGED <<mode, link, res, down>> /\ Goto(p, "write", m)
  BY DEF ToSendRequest, linkVars, consVars
<1>6. /\ id_of' = [id_of EXCEPT ![c] = id] /\ id_of'[c] = id
      /\ \A d \in Calls : d # c => id_of'[d] = id_of[d]
  BY <1>3 DEF ToSendRequest, TypeOK, CallTypeOK
<1>7. GenuinePackets'
  <2>1. \A d \in Calls : id_of[d] \in Ids => id_of'[d] = id_of[d]
    BY <1>3, <1>4, <1>6
  <2>2. m.kind \in BodyKinds =>
           /\ id_of'[m.call] = m.id
           /\ m.kind \in RequestKinds => KindOf[m.call] = m.kind /\ CallerOf[m.call] = p
           /\ m.kind \in {"Response", "Stream"} =>
                 Prod(m.call) = p /\ (m.kind = "Response" <=> IsRequest(m.call))
    BY <1>3, <1>6, Basics DEF Packet, RequestKinds
  <2> HIDE DEF m
  <2> QED
    BY <1>5, <2>1, <2>2, WritingGenuine DEF CorrelationInv
<1>8. GenuineEntries'
  <2>1. IF KindOf[c] = "RequestSender" THEN Prod(c) = p ELSE Cons(c) = p
    BY <1>3 DEF Prod, Cons, Other, Peers
  <2>2. \A q \in Peers : \A i \in Ids :
           /\ waiting_on_stream[q][i] \in Calls \cup {NoCall}
           /\ waiting_on_user[q][i] \in Calls \cup {NoCall}
    BY DEF TypeOK, PeerTypeOK, Tables
  <2>3. \A q \in Peers : \A i \in Ids :
           /\ waiting_on_stream'[q][i] = waiting_on_stream[q][i]
              \/ (q = p /\ i = id /\ waiting_on_stream'[q][i] = c /\ Cons(c) = p)
           /\ waiting_on_user'[q][i] = waiting_on_user[q][i]
              \/ (q = p /\ i = id /\ waiting_on_user'[q][i] = c /\ Prod(c) = p)
    BY <2>1 DEF ToSendRequest, Put, TypeOK, PeerTypeOK, Tables
  <2> QED
    BY <1>3, <1>4, <1>6, <2>2, <2>3 DEF CorrelationInv, GenuineEntries
<1>9. IdsAscend'
  <2>1. next \in [Peers -> 0 .. MaxId + 1] /\ id_of \in [Calls -> Int]
    BY CounterType DEF TypeOK, PeerTypeOK, CallTypeOK
  <2>2. next'[p] > id /\ \A q \in Peers : q # p => next'[q] = next[q]
    BY <1>4, <2>1, Basics DEF ToSendRequest, Advance, Ids, NoId
  <2>3. p = "server" => mode[p] = "BiServer" /\ id > Mid
    BY DEF ToSendRequest, HasRequest, CanSendRequests, CorrelationInv, IdsAscend
  <2>4. \A d \in Calls : id_of[d] # NoId /\ CallerOf[d] = p => id_of[d] < id
    BY DEF CorrelationInv, IdsAscend
  <2>5. \A d \in Calls : id_of'[d] # NoId =>
           /\ id_of'[d] < next'[CallerOf[d]]
           /\ CallerOf[d] = "server" /\ ~Old(d)' => mode'["server"] = "BiServer" /\ id_of'[d] > Mid
    <3> SUFFICES ASSUME NEW d \in Calls, id_of'[d] # NoId
                 PROVE  /\ id_of'[d] < next'[CallerOf[d]]
                        /\ CallerOf[d] = "server" /\ ~Old(d)' => mode'["server"] = "BiServer" /\ id_of'[d] > Mid
      OBVIOUS
    <3>1. CASE d = c
      BY <1>3, <1>5, <1>6, <2>2, <2>3, <3>1
    <3>2. CASE d # c
      <4>1. id_of[d] # NoId /\ id_of'[d] = id_of[d] /\ CallerOf[d] \in Peers
        BY <1>6, <3>2, Basics
      <4>2. id_of[d] < next[CallerOf[d]]
            /\ (CallerOf[d] = "server" /\ ~Old(d) => mode["server"] = "BiServer" /\ id_of[d] > Mid)
        BY <4>1 DEF CorrelationInv, IdsAscend
      <4>3. id_of[d] < next'[CallerOf[d]]
        <5>1. id_of[d] \in Int /\ id \in 0 .. MaxId + 1
          BY <2>1
        <5>2. next'[p] \in 0 .. MaxId + 1
          BY <1>4, <2>1, Basics DEF ToSendRequest, Advance, Ids, NoId
        <5> QED
          BY <2>2, <4>1, <4>2, <5>1, <5>2, Basics
      <4> QED
        BY <1>5, <4>1, <4>2, <4>3 DEF Old
    <3> QED
      BY <3>1, <3>2
  <2>6. \A d, e \in Calls :
           CallerOf[d] = CallerOf[e] /\ id_of'[d] = id_of'[e] /\ id_of'[d] # NoId => d = e
    BY <1>3, <1>4, <1>6, <2>1, <2>4 DEF CorrelationInv, IdsAscend, Ids
  <2>7. mode'["server"] = "BiServer" => next'["server"] > Mid
    <3>1. next'["server"] \in Int /\ id \in Int
      BY <1>4, <2>1, Basics DEF ToSendRequest, Advance, Ids, NoId, Peers
    <3> QED
      BY <1>5, <2>2, <2>3, <3>1, Basics DEF CorrelationInv, IdsAscend, Peers
  <2> QED
    BY <1>5, <2>5, <2>6, <2>7 DEF CorrelationInv, IdsAscend
<1>10. QueuedOnce'
  <2>1. UNCHANGED res /\ rx_requests' = [rx_requests EXCEPT ![p] = Tail(@)]
    BY <1>5 DEF ToSendRequest, TakeRequest
  <2>2. ASSUME NEW q \in Peers, NEW i \in 1 .. Len(rx_requests'[q]), rx_requests'[q][i] # Enable
        PROVE  LET d == rx_requests'[q][i] IN
               /\ CallerOf[d] = q /\ id_of'[d] = NoId /\ res'[d] # "idle"
               /\ \A j \in 1 .. Len(rx_requests'[q]) : rx_requests'[q][j] = d => i = j
    <3>1. rx_requests[q] \in Seq(Calls \cup {Enable})
      BY DEF TypeOK, QueueTypeOK, Queues
    <3>2. CASE q = p
      <4>1. /\ Len(rx_requests'[p]) = Len(rx_requests[p]) - 1
            /\ \A j \in 1 .. Len(rx_requests'[p]) :
                  j + 1 \in 1 .. Len(rx_requests[p])
                  /\ rx_requests'[p][j] = rx_requests[p][j + 1]
        BY <1>1, <2>1 DEF TypeOK, QueueTypeOK
      <4> DEFINE d == rx_requests'[p][i]
      <4>2. d = rx_requests[p][i + 1] /\ i + 1 \in 1 .. Len(rx_requests[p]) /\ d # Enable
        BY <2>2, <3>2, <4>1
      <4>3. d \in Calls
        BY <3>1, <3>2, <4>2, Element
      <4>4. CallerOf[d] = p /\ id_of[d] = NoId /\ res[d] # "idle"
        BY <4>2, <4>3 DEF CorrelationInv, QueuedOnce
      <4>5. d # c
        <5>1. ASSUME d = c PROVE i + 1 = 1
          BY <1>2, <4>2, <5>1 DEF CorrelationInv, QueuedOnce
        <5> QED
          BY <2>2, <3>2, <4>1, <5>1
      <4>6. ASSUME NEW j \in 1 .. Len(rx_requests'[p]), rx_requests'[p][j] = d PROVE i = j
        <5>1. i + 1 = j + 1
          BY <4>1, <4>2, <4>6 DEF CorrelationInv, QueuedOnce
        <5> QED
          BY <2>2, <3>2, <4>1, <5>1
      <4> QED
        BY <1>6, <2>1, <3>2, <4>3, <4>4, <4>5, <4>6
    <3>3. CASE q # p
      <4>1. rx_requests'[q] = rx_requests[q]
        BY <2>1, <3>3 DEF TypeOK, QueueTypeOK
      <4> DEFINE d == rx_requests[q][i]
      <4>2. d \in Calls \cup {Enable} /\ d # Enable
        BY <2>2, <3>1, <4>1, Element
      <4>3. CallerOf[d] = q /\ d # c
        BY <1>3, <2>2, <3>3, <4>1, <4>2 DEF CorrelationInv, QueuedOnce
      <4> QED
        BY <1>6, <2>1, <2>2, <4>1, <4>2, <4>3 DEF CorrelationInv, QueuedOnce
    <3> QED
      BY <3>2, <3>3
  <2>3. \A d \in Calls : res'[d] = "idle" => id_of'[d] = NoId
    BY <1>3, <1>6, <2>1 DEF CorrelationInv, QueuedOnce
  <2> QED
    BY <2>2, <2>3 DEF QueuedOnce
<1>11. CorrelationApart'
  <2>1. IdsApart' => IdsApart
    BY <1>3, <1>5, <1>6 DEF IdsApart
  <2> QED
    BY <1>5, <2>1, CalmUnchanged, FrameBodies DEF CorrelationInv
<1> QED
  BY <1>7, <1>8, <1>9, <1>10, <1>11 DEF CorrelationInv

-----------------------------------------------------------------------------
LEMMA InitCorr == Init => CorrelationInv
<1> SUFFICES ASSUME Init PROVE CorrelationInv
  OBVIOUS
<1>1. GenuinePackets
  BY DEF Init, GenuinePackets, Idle
<1>2. GenuineEntries
  BY DEF Init, GenuineEntries, EmptyTable
<1>3. IdsAscend
  BY DEF Init, IdsAscend, Peers
<1>4. QueuedOnce
  BY DEF Init, QueuedOnce
<1>5. CorrelationApart
  BY DEF Init, CorrelationApart, Correlation
<1> QED
  BY <1>1, <1>2, <1>3, <1>4, <1>5 DEF CorrelationInv

\* every step of a connection but the one to the next byte stream
LEMMA NextCorr ==
    ASSUME TypeOK, CorrelationInv, [Next]_vars, ~Reconnect
    PROVE  CorrelationInv'
<1>1. ASSUME NEW p \in Peers, Task(p) PROVE CorrelationInv'
  BY <1>1, CalmTasks, RecvEnableCorr, RecvRequestCorr, RecvAnswerCorr, RecvStreamCorr,
     DeliverMessageCorr, ToSendUserCorr, ToSendEnableCorr, ToSendRequestCorr, WriteCorr
     DEF Task, Recv, Deliver, ToSend, Send
<1> QED
  BY <1>1, CalmUsers, StartCallCorr, AskEnableCorr DEF Next

=============================================================================
