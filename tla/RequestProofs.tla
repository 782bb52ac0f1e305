----------------------------- MODULE RequestProofs -----------------------------
(* A Request is asked once, served once and answered once, by what its responder   *)
(* did, for all parameters and while the reconnections of the client are clean.    *)
EXTENDS FlowProofs, FiniteSetTheorems

-----------------------------------------------------------------------------
(* What a sequence has *)

LEMMA HasWithin ==
    ASSUME NEW new, NEW old, NEW X, new = old \/ Within(new, old)
    PROVE  (Has(new, X) => Has(old, X)) /\ (Once(old, X) => Once(new, X))
<1>1. CASE new = old
  BY <1>1
<1>2. CASE Within(new, old)
  <2>1. Has(new, X) => Has(old, X)
    BY <1>2 DEF Within, Has
  <2>2. ASSUME Once(old, X), NEW i \in 1 .. Len(new), NEW k \in 1 .. Len(new), i < k,
               new[i] \in X, new[k] \in X
        PROVE  FALSE
    <3>1. PICK j \in 1 .. Len(old), l \in 1 .. Len(old) :
             j < l /\ new[i] = old[j] /\ new[k] = old[l]
      BY <1>2, <2>2 DEF Within
    <3>2. j = l
      BY <2>2, <3>1 DEF Once
    <3> QED
      BY <3>1, <3>2
  <2>3. ASSUME Once(old, X), NEW i \in 1 .. Len(new), NEW k \in 1 .. Len(new),
               new[i] \in X, new[k] \in X
        PROVE  i = k
    <3>1. ~(i < k) /\ ~(k < i) /\ i \in Int /\ k \in Int
      BY <2>2, <2>3
    <3> QED
      BY <3>1
  <2> QED
    BY <2>1, <2>3 DEF Once
<1> QED
  BY <1>1, <1>2

LEMMA HasAppend ==
    ASSUME NEW T, NEW old \in Seq(T), NEW m \in T, NEW X
    PROVE  /\ Has(Append(old, m), X) <=> Has(old, X) \/ m \in X
           /\ Once(old, X) /\ ~(Has(old, X) /\ m \in X) => Once(Append(old, m), X)
<1> DEFINE new == Append(old, m)
<1>1. /\ Len(new) = Len(old) + 1 /\ Len(old) \in Nat
      /\ \A i \in 1 .. Len(old) : new[i] = old[i] /\ i \in 1 .. Len(new)
      /\ new[Len(old) + 1] = m /\ Len(old) + 1 \in 1 .. Len(new)
      /\ \A i \in 1 .. Len(new) : i \in 1 .. Len(old) \/ i = Len(old) + 1
  OBVIOUS
<1> HIDE DEF new
<1>2. Has(new, X) <=> Has(old, X) \/ m \in X
  BY <1>1 DEF Has
<1>3. ASSUME Once(old, X), ~(Has(old, X) /\ m \in X),
             NEW i \in 1 .. Len(new), NEW k \in 1 .. Len(new), new[i] \in X, new[k] \in X
      PROVE  i = k
  BY <1>1, <1>3 DEF Once, Has
<1> QED
  BY <1>2, <1>3 DEF Once, new

LEMMA HasTail ==
    ASSUME NEW T, NEW old \in Seq(T), old # <<>>, NEW X
    PROVE  /\ Has(Tail(old), X) => Has(old, X)
           /\ Once(old, X) => Once(Tail(old), X)
           /\ Has(old, X) <=> Has(Tail(old), X) \/ Head(old) \in X
           /\ Once(old, X) /\ Head(old) \in X => ~Has(Tail(old), X)
<1> DEFINE new == Tail(old)
<1>1. /\ Len(old) \in Nat /\ Head(old) = old[1] /\ 1 \in 1 .. Len(old)
      /\ \A i \in 1 .. Len(new) : i + 1 \in 1 .. Len(old) /\ new[i] = old[i + 1] /\ i + 1 # 1
      /\ \A i \in 1 .. Len(old) : i = 1 \/ (i - 1 \in 1 .. Len(new) /\ old[i] = new[i - 1])
  BY TailOf
<1> HIDE DEF new
<1>2. Has(old, X) <=> Has(new, X) \/ Head(old) \in X
  BY <1>1 DEF Has
<1>3. ASSUME Once(old, X), NEW i \in 1 .. Len(new), NEW k \in 1 .. Len(new),
             new[i] \in X, new[k] \in X
      PROVE  i = k
  <2>1. i + 1 = k + 1
    BY <1>1, <1>3 DEF Once
  <2> QED
    BY <2>1
<1>4. ASSUME Once(old, X), Head(old) \in X, NEW i \in 1 .. Len(new), new[i] \in X PROVE FALSE
  BY <1>1, <1>4 DEF Once
<1> QED
  BY <1>2, <1>3, <1>4 DEF Once, Has, new

\* what a step does to the packets of some set that are on the way
LEMMA WayHas ==
    ASSUME TypeOK, Ended, [Next]_vars, NEW r \in Peers, NEW X
    PROVE  LET old == OnTheWay(r)
               new == OnTheWay(r)'
           IN /\ Has(new, X) => Has(old, X) \/ \E m \in X : Speaks(r, m)
              /\ Once(old, X) => Once(new, X) \/ (Has(old, X) /\ \E m \in X : Speaks(r, m))
              /\ Has(old, X) => \/ Has(new, X) \/ Lost(r)
                                \/ Listens(Other(r)) /\ Arriving(Other(r)) \in X
<1> DEFINE old == OnTheWay(r)
           new == OnTheWay(r)'
<1>1. old \in Seq(Packets)
  BY WayType
<1>2. ASSUME NEW m \in Packets, Speaks(r, m)
      PROVE  /\ Has(new, X) <=> Has(old, X) \/ m \in X
             /\ Once(old, X) /\ ~(Has(old, X) /\ m \in X) => Once(new, X)
  <2>1. new = Append(old, m)
    BY <1>2 DEF Speaks, Says
  <2> HIDE DEF old, new
  <2> QED
    BY <1>1, <2>1, HasAppend
<1>3. ASSUME Listens(Other(r))
      PROVE  /\ Has(new, X) => Has(old, X)
             /\ Once(old, X) => Once(new, X)
             /\ Has(old, X) <=> Has(new, X) \/ Arriving(Other(r)) \in X
  <2>1. old # <<>> /\ new = Tail(old) /\ Head(old) = Arriving(Other(r))
    BY <1>3, TwoPeers DEF Listens, Heard, Arriving
  <2> HIDE DEF old, new
  <2> QED
    BY <1>1, <2>1, HasTail
<1>4. ASSUME new = old \/ Within(new, old)
      PROVE  /\ Has(new, X) => Has(old, X)
             /\ Once(old, X) => Once(new, X)
  <2> HIDE DEF old, new
  <2> QED
    BY <1>4, HasWithin
<1>5. new = old \/ (\E m \in Packets : Speaks(r, m)) \/ Listens(Other(r)) \/ CutOff(r)
  BY WayFlow DEF WayOf
<1>6. CASE new = old
  BY <1>4, <1>6
<1>7. CASE CutOff(r)
  BY <1>4, <1>7 DEF CutOff
<1> HIDE DEF old, new
<1> QED
  BY <1>2, <1>3, <1>5, <1>6, <1>7 DEF old, new

\* what is heard is gone
LEMMA HeardOnce ==
    ASSUME TypeOK, NEW p \in Peers, Listens(p), NEW X, Once(OnTheWay(Other(p)), X),
           Arriving(p) \in X
    PROVE  ~Has(OnTheWay(Other(p))', X) /\ Has(OnTheWay(Other(p)), X)
<1> DEFINE old == OnTheWay(Other(p))
           new == OnTheWay(Other(p))'
<1>1. old \in Seq(Packets)
  BY TwoPeers, WayType
<1>2. old # <<>> /\ new = Tail(old) /\ Head(old) = Arriving(p)
  BY DEF Listens, Heard, Arriving
<1> HIDE DEF old, new
<1>3. Once(old, X)
  BY DEF old
<1>4. ~Has(new, X) /\ Has(old, X)
  BY <1>1, <1>2, <1>3, HasTail
<1> QED
  BY <1>4 DEF old, new

\* what a step does to a request on its way to a user
LEMMA HandedHas ==
    ASSUME TypeOK, Ended, [Next]_vars, NEW r \in Peers, NEW X
    PROVE  LET old == Handed(r)
               new == Handed(r)'
               comes == /\ RecvRequest(r) \/ RecvEnableServerRequests(r)
                        /\ Item(Arriving(r)) \in X
           IN /\ Has(new, X) => Has(old, X) \/ comes
              /\ Once(old, X) => Once(new, X) \/ (Has(old, X) /\ comes)
<1> DEFINE old == Handed(r)
           new == Handed(r)'
<1>1. old \in Seq(Calls \cup {Enable})
  BY HandedType
<1>2. ASSUME RecvRequest(r) \/ RecvEnableServerRequests(r)
      PROVE  Item(Arriving(r)) \in Calls \cup {Enable}
  BY <1>2, FirstArrived DEF RecvRequest, RecvEnableServerRequests, Accepts, Arrives, Arriving, Item,
     Packets, TypeOK, BodyKinds
<1>3. ASSUME NEW m \in Calls \cup {Enable}, new = Append(old, m)
      PROVE  /\ Has(new, X) <=> Has(old, X) \/ m \in X
             /\ Once(old, X) /\ ~(Has(old, X) /\ m \in X) => Once(new, X)
  <2> HIDE DEF old, new
  <2> QED
    BY <1>1, <1>3, HasAppend
<1>4. ASSUME old # <<>>, new = Tail(old)
      PROVE  (Has(new, X) => Has(old, X)) /\ (Once(old, X) => Once(new, X))
  <2> HIDE DEF old, new
  <2> QED
    BY <1>1, <1>4, HasTail
<1>5. ASSUME new = old \/ Within(new, old)
      PROVE  (Has(new, X) => Has(old, X)) /\ (Once(old, X) => Once(new, X))
  <2> HIDE DEF old, new
  <2> QED
    BY <1>5, HasWithin
<1>6. \/ new = old \/ (old # <<>> /\ new = Tail(old)) \/ Within(new, old)
      \/ /\ RecvRequest(r) \/ RecvEnableServerRequests(r)
         /\ new = Append(old, Item(Arriving(r)))
  BY HandedFlow DEF HandedOf, Arriving
<1> HIDE DEF old, new
<1> QED
  BY <1>2, <1>3, <1>4, <1>5, <1>6 DEF old, new

-----------------------------------------------------------------------------
(* What happens to a call *)

\* its caller's task asks for it, the other end accepts or cannot read it, and answers
Asks(c) == ToSendRequest(CallerOf[c]) /\ Asking(CallerOf[c]) = c
Gets(c) == RecvRequest(Callee(c)) /\ Arriving(Callee(c)) \in AskFor(c)
Garbles(c) == RecvMalformed(Callee(c)) /\ Arriving(Callee(c)) \in AskFor(c)
Replies(c) == /\ id_of[c] \in Ids /\ waiting_on_user[Callee(c)][id_of[c]] = c
              /\ ToSendUser(Callee(c), id_of[c])

-----------------------------------------------------------------------------
(* Tasks that have ended, and the next byte stream *)

\* how a task ends
LEMMA EndFlow ==
    ASSUME TypeOK, [Next]_vars, NEW p \in Peers, result'[p] # "running"
    PROVE  \/ /\ result[p] # "running" /\ result'[p] = result[p]
              /\ close_signal'[p] = "seen" <=> close_signal[p] = "seen"
           \/ result[p] = "running" /\ End(p, result'[p])
<1>0. /\ result \in [Peers -> Results] /\ close_signal \in [Peers -> {"no", "sent", "seen"}]
      /\ ~Reconnect
  BY DEF TypeOK, TaskTypeOK, Reconnect
<1>1. ASSUME NEW q \in Peers, NEW x, End(q, x)
      PROVE  /\ UNCHANGED close_signal
             /\ q # p => result'[p] = result[p]
             /\ q = p => x = result'[p]
  BY <1>0, <1>1 DEF End
<1>2. ASSUME NEW q \in Peers, Task(q)
      PROVE  result[q] = "running"
  BY <1>2 DEF Task, Recv, RecvRefused, RecvEnableServerRequests, RecvRequest, RecvAnswer,
     RecvStream, RecvStreamClosed, RecvClose, RecvPing, RecvMalformed, ReadFails, Accepts, Arrives,
     Deliver, DeliverRequest, DeliverToNobody, DeliverMessage, Delivering, Selecting, Send, Write,
     WriteFails, WriteClose, Writing, Ping, CloseSignal, Finish, ToSend, ToSendUser, ToSendEnable,
     ToSendRequest, ToSendDuplicate, ToSendNoId, HasRequest
<1>3. ASSUME NEW q \in Peers, Task(q), ~\E x : End(q, x)
      PROVE  /\ UNCHANGED result
             /\ UNCHANGED close_signal \/ close_signal' = [close_signal EXCEPT ![q] = "seen"]
  BY <1>3 DEF Task, Recv, RecvRefused, RecvEnableServerRequests, RecvRequest, RecvAnswer,
     RecvStream, RecvStreamClosed, RecvClose, RecvPing, RecvMalformed, ReadFails, CloseHandler,
     Deliver, DeliverRequest, DeliverToNobody, DeliverMessage, Send, Write,
     WriteFails, WriteClose, Ping, CloseSignal, Finish, ToSend, ToSendUser, ToSendEnable,
     ToSendRequest, ToSendDuplicate, ToSendNoId, taskVars, endVars
<1>4. ASSUME NEW q \in Peers, Task(q)
      PROVE  \/ result'[p] = result[p] /\ (close_signal'[p] = "seen" <=> close_signal[p] = "seen")
             \/ result[p] = "running" /\ End(p, result'[p])
  <2>1. ASSUME NEW x, End(q, x)
        PROVE  \/ result'[p] = result[p] /\ (close_signal'[p] = "seen" <=> close_signal[p] = "seen")
               \/ result[p] = "running" /\ End(p, result'[p])
    <3>1. q # p => result'[p] = result[p] /\ close_signal'[p] = close_signal[p]
      BY <1>1, <2>1
    <3>2. q = p => result[p] = "running" /\ End(p, result'[p])
      BY <1>1, <1>2, <1>4, <2>1
    <3> QED
      BY <3>1, <3>2
  <2>2. CASE ~\E x : End(q, x)
    <3>1. q # p => close_signal'[p] = close_signal[p]
      BY <1>0, <1>3, <1>4, <2>2
    <3>2. result' = result /\ result[q] = "running"
      BY <1>2, <1>3, <1>4, <2>2
    <3> QED
      BY <3>1, <3>2
  <2> QED
    BY <2>1, <2>2
<1>5. CASE \/ \E q \in Peers : Receive(q) \/ DropReceiver(q)
           \/ \E d \in Calls : UserCall(d)
           \/ AskEnable \/ Break \/ UNCHANGED vars
  BY <1>5 DEF Receive, DropReceiver, UserCall, StartCall, RefuseCall,
     Answer, Emit, DropSender, Take, CloseStream, Cancel, AskEnable, Break, vars, taskVars,
     endVars
<1>6. ASSUME NEW q \in Peers, SignalClose(q)
      PROVE  UNCHANGED result /\ close_signal[q] = "no"
             /\ close_signal' = [close_signal EXCEPT ![q] = "sent"]
  BY <1>6 DEF SignalClose
<1>7. CASE \E q \in Peers : SignalClose(q)
  BY <1>0, <1>6, <1>7
<1> QED
  BY <1>0, <1>4, <1>5, <1>7 DEF Next, User

\* rx_requests is not opened again, but for the next connection of a server
LEMMA OpenFlow ==
    ASSUME TypeOK, [Next]_vars, ~Reconnect, NEW p \in Peers, rx_open'[p] PROVE rx_open[p]
<1>0. rx_open \in [Peers -> BOOLEAN]
  BY DEF TypeOK, QueueTypeOK
<1>1. ASSUME NEW q \in Peers, NEW x, End(q, x)
      PROVE  UNCHANGED rx_open \/ rx_open' = [rx_open EXCEPT ![q] = FALSE]
  BY <1>1 DEF End, DropHandler, queueVars, userQueueVars
<1>2. ASSUME NEW q \in Peers, Task(q), ~\E x : End(q, x)
      PROVE  UNCHANGED rx_open \/ rx_open' = [rx_open EXCEPT ![q] = FALSE]
  <2>1. CASE Recv(q)
    BY <1>2, <2>1 DEF Recv, RecvRefused, RecvEnableServerRequests, RecvRequest, RecvAnswer,
       RecvStream, RecvStreamClosed, RecvClose, RecvPing, RecvMalformed, ReadFails, CloseHandler,
       queueVars, userQueueVars
  <2>2. CASE Deliver(q) \/ Send(q) \/ Ping(q) \/ CloseSignal(q) \/ Finish(q)
    BY <1>2, <2>2 DEF Deliver, DeliverRequest, DeliverToNobody, DeliverMessage, Send, Write,
       WriteFails, WriteClose, Ping, CloseSignal, Finish, CloseHandler, queueVars, userQueueVars
  <2>3. CASE ToSend(q)
    BY <1>2, <2>3 DEF ToSend, ToSendUser, ToSendEnable, ToSendRequest, ToSendDuplicate,
       ToSendNoId, queueVars, userQueueVars
  <2> QED
    BY <1>2, <2>1, <2>2, <2>3 DEF Task
<1>3. CASE \E q \in Peers : Task(q)
  BY <1>0, <1>1, <1>2, <1>3
<1>4. CASE \/ \E q \in Peers : User(q)
           \/ \E d \in Calls : UserCall(d)
           \/ AskEnable \/ Break \/ UNCHANGED vars
  BY <1>4 DEF User, Receive, DropReceiver, SignalClose, UserCall, StartCall, RefuseCall,
     Answer, Emit, DropSender, Take, CloseStream, Cancel, AskEnable, Break, vars,
     queueVars, userQueueVars
<1> QED
  BY <1>3, <1>4 DEF Next

\* nothing is put in the tables and the queue of a task that has ended
LEMMA DroppedStep == ASSUME TypeOK, Dropped, [Next]_vars PROVE Dropped'
<1> SUFFICES ASSUME NEW p \in Peers, result'[p] # "running", ~KeepsHandler(p, result[p])'
             PROVE  (/\ ~rx_open[p] /\ rx_requests[p] = <<>>
                     /\ waiting_on_stream[p] = EmptyTable /\ waiting_on_user[p] = EmptyTable)'
  BY DEF Dropped
<1>0. ~Reconnect
  BY DEF Reconnect
<1>1. CASE result[p] = "running" /\ End(p, result'[p])
  <2>1. ~KeepsHandler(p, result'[p])
    BY <1>1 DEF KeepsHandler, End
  <2>2. DropHandler(p)
    BY <1>1, <2>1 DEF End
  <2> QED
    BY <2>2 DEF DropHandler, TypeOK, QueueTypeOK, PeerTypeOK
<1>2. CASE /\ result[p] # "running" /\ result'[p] = result[p]
           /\ close_signal'[p] = "seen" <=> close_signal[p] = "seen"
  <2>1. ~KeepsHandler(p, result[p])
    BY <1>2 DEF KeepsHandler
  <2>2. /\ ~rx_open[p] /\ rx_requests[p] = <<>>
        /\ waiting_on_stream[p] = EmptyTable /\ waiting_on_user[p] = EmptyTable
    BY <1>2, <2>1 DEF Dropped
  <2>3. ~rx_open'[p]
    BY <1>0, <2>2, OpenFlow
  <2>4. ASSUME NEW q \in Peers, Task(q) PROVE result[q] = "running"
    BY <2>4 DEF Task, Recv, RecvRefused, RecvEnableServerRequests, RecvRequest, RecvAnswer,
       RecvStream, RecvStreamClosed, RecvClose, RecvPing, RecvMalformed, ReadFails, Accepts, Arrives,
       Deliver, DeliverRequest, DeliverToNobody, DeliverMessage, Delivering, Selecting, Send, Write,
       WriteFails, WriteClose, Writing, Ping, CloseSignal, Finish, ToSend, ToSendUser, ToSendEnable,
       ToSendRequest, ToSendDuplicate, ToSendNoId, HasRequest
  <2>5. ~Recv(p) /\ ~ToSendRequest(p) /\ ~\E id \in Ids : ToSendUser(p, id)
    BY <1>2, <2>4 DEF Task, ToSend
  <2>6. ~RecvRequest(p) /\ ~RecvAnswer(p) /\ ~RecvStreamClosed(p) /\ ~RecvMalformed(p)
    BY <2>5 DEF Recv
  <2>7. rx_requests'[p] = <<>>
    <3>1. QueueOf(p)
      BY QueueFlow
    <3>2. ~AskEnable \/ p # "client"
      BY <2>2 DEF AskEnable
    <3>3. \A x \in Calls : StartCall(x) => CallerOf[x] # p
      BY <2>2 DEF StartCall
    <3> QED
      BY <2>2, <3>1, <3>2, <3>3 DEF QueueOf
  <2>8. waiting_on_stream'[p] = EmptyTable
    <3>1. StreamEntriesOf(p)
      BY EntriesFlow
    <3> QED
      BY <2>2, <2>5, <2>6, <3>1 DEF StreamEntriesOf
  <2>9. waiting_on_user'[p] = EmptyTable
    <3>1. UserEntriesOf(p)
      BY EntriesFlow
    <3> QED
      BY <2>2, <2>5, <2>6, <3>1 DEF UserEntriesOf
  <2> QED
    BY <2>3, <2>7, <2>8, <2>9
<1> QED
  BY <1>1, <1>2, EndFlow

\* what is left of the old byte stream: neither end has a packet or an entry of it
LEMMA Reconnected ==
    ASSUME TypeOK, Ended, Dropped, IdsAscend, Reconnect, Clean
    PROVE  /\ \A p \in Peers : /\ link'[p] = <<>> /\ task'[p] = task[p] /\ task[p].at = "select"
                               /\ result'[p] = "running" /\ should_close'[p] = FALSE
                               /\ waiting_on_stream'[p] = EmptyTable
                               /\ waiting_on_user'[p] = EmptyTable
                               /\ OnTheWay(p)' = <<>>
           /\ rx_requests' = rx_requests /\ rx_requests["server"] = <<>>
           /\ \A c \in Calls : id_of[c] = NoId <=> id_of'[c] = NoId
           /\ \A c \in Calls : id_of'[c] # NoId => Old(c)'
<1>1. \A p \in Peers : result[p] # "running" /\ task[p].at = "select" /\ p \in {"client", "server"}
  BY DEF Reconnect, Ended, Peers
<1>2. \A p \in Peers : /\ link'[p] = <<>> /\ task'[p] = task[p]
                       /\ result'[p] = "running" /\ should_close'[p] = FALSE
  BY DEF Reconnect
<1>3. /\ rx_requests["server"] = <<>>
      /\ waiting_on_stream["server"] = EmptyTable /\ waiting_on_user["server"] = EmptyTable
  BY <1>1 DEF Dropped, KeepsHandler, Peers
<1>4. \A p \in Peers : waiting_on_stream'[p] = EmptyTable /\ waiting_on_user'[p] = EmptyTable
  BY <1>1, <1>3, TablesType DEF Reconnect, CloseAllStarted, Clean
<1>5. \A p \in Peers : OnTheWay(p)' = <<>>
  BY <1>1, <1>2 DEF OnTheWay, InHand, Writing
<1>6. /\ \A c \in Calls : id_of[c] = NoId <=> id_of'[c] = NoId
      /\ \A c \in Calls : id_of'[c] # NoId => Old(c)'
  <2>1. \A c \in Calls : id_of[c] \in Int /\ next[CallerOf[c]] \in 0 .. MaxId + 1
    BY CounterType, Basics DEF TypeOK, CallTypeOK, PeerTypeOK
  <2>2. \A c \in Calls : id_of[c] # NoId => id_of[c] < next[CallerOf[c]]
    BY DEF IdsAscend
  <2>3. \A c \in Calls : id_of'[c] = IF id_of[c] = NoId THEN NoId ELSE id_of[c] - NoId
    <3>1. id_of' = [d \in Calls |-> IF id_of[d] = NoId THEN NoId ELSE id_of[d] - NoId]
      BY DEF Reconnect
    <3> QED
      BY <3>1
  <2>4. \A c \in Calls : id_of[c] # NoId => id_of[c] < MaxId + 1
    BY <2>1, <2>2, Basics
  <2>5. MaxId \in Nat /\ NoId = MaxId + 1
    BY Basics DEF NoId
  <2>6. \A c \in Calls : Old(c)' <=> id_of'[c] < 0
    BY DEF Old
  <2> QED
    BY <2>1, <2>3, <2>4, <2>5, <2>6
<1>7. rx_requests' = rx_requests
  BY DEF Reconnect
<1> QED
  BY <1>1, <1>2, <1>3, <1>4, <1>5, <1>6, <1>7

\* what a reconnection does to the calls
LEMMA ReconnectedCalls ==
    ASSUME TypeOK, Ended, Dropped, Reconnect, Clean, NEW c \in Calls
    PROVE  /\ \/ res'[c] = res[c]
              \/ IsRequest(c) /\ res[c] = "pending" /\ res'[c] = "TaskFailed"
           /\ c \in CallsIn(waiting_on_stream["client"]) /\ IsRequest(c) => res'[c] # "pending"
           /\ shut'[c] = shut[c] /\ UNCHANGED <<up, sent, down, got>>
           /\ \/ tx'[c] = tx[c]
              \/ tx'[c] = "dropped" /\ Prod(c) = "server" /\ c \in CallsOf(Handed("server"))
           /\ \/ rx'[c] = rx[c]
              \/ rx'[c] = "dropped" /\ Cons(c) = "server" /\ c \in CallsOf(Handed("server"))
           /\ Handed("server")' = <<>> /\ Handed("client")' = Handed("client")
<1>1. \A p \in Peers : result[p] # "running" /\ task[p].at = "select"
  BY DEF Reconnect, Ended, Peers
<1>2. /\ res' = Failed(CallsIn(waiting_on_stream["client"]))
      /\ shut' = Shut(CallsIn(waiting_on_user["client"]))
  BY DEF Reconnect, CloseAllStarted
<1>3. CallsIn(waiting_on_user["client"]) = {}
  BY Basics DEF Clean, CallsIn, EmptyTable
<1>4. shut'[c] = shut[c]
  BY <1>2, <1>3 DEF Shut, TypeOK, CallTypeOK
<1>5. /\ res'[c] = res[c] \/ (IsRequest(c) /\ res[c] = "pending" /\ res'[c] = "TaskFailed")
      /\ c \in CallsIn(waiting_on_stream["client"]) /\ IsRequest(c) => res'[c] # "pending"
  BY <1>2 DEF Failed
<1>6. /\ \A p \in Peers : Handed(p) = tx_requests[p] /\ Handed(p)' = tx_requests'[p]
      /\ tx_requests'["server"] = <<>> /\ tx_requests'["client"] = tx_requests["client"]
  <2>1. \A p \in Peers : ~Delivering(p) /\ ~Delivering(p)'
    BY <1>1 DEF Delivering, Reconnect
  <2>2. tx_requests' = [tx_requests EXCEPT !["server"] = <<>>]
    BY DEF Reconnect
  <2>3. /\ tx_requests'["server"] = <<>> /\ tx_requests'["client"] = tx_requests["client"]
        /\ \A p \in Peers : tx_requests[p] \in Seq(Calls \cup {Enable})
                            /\ tx_requests'[p] \in Seq(Calls \cup {Enable})
    BY <2>2, QueueType DEF Peers
  <2>4. \A s \in Seq(Calls \cup {Enable}) : s \o <<>> = s
    OBVIOUS
  <2> QED
    BY <2>1, <2>3, <2>4 DEF Handed
<1>7. /\ tx' = [d \in Calls |-> IF d \in CallsOf(tx_requests["server"]) /\ Prod(d) = "server"
                                THEN "dropped" ELSE tx[d]]
      /\ rx' = [d \in Calls |-> IF d \in CallsOf(tx_requests["server"]) /\ Cons(d) = "server"
                                THEN "dropped" ELSE rx[d]]
      /\ UNCHANGED <<up, sent, down, got>>
  BY DEF Reconnect
<1>8. "server" \in Peers /\ "client" \in Peers
  BY DEF Peers
<1> QED
  BY <1>4, <1>5, <1>6, <1>7, <1>8

\* ids of the old byte stream are below those of the next, and nothing is said of them
LEMMA ReconnectCorr ==
    ASSUME TypeOK, Ended, Dropped, CorrelationInv, Reconnect, Clean PROVE CorrelationInv'
<1>0. IdsAscend /\ QueuedOnce /\ (\A p \in Peers : rx_requests[p] \in Seq(Calls \cup {Enable}))
  BY QueueType DEF CorrelationInv
<1>a. \A p \in Peers : /\ link'[p] = <<>> /\ task'[p] = task[p] /\ task[p].at = "select"
                       /\ waiting_on_stream'[p] = EmptyTable
                       /\ waiting_on_user'[p] = EmptyTable
  BY <1>0, Reconnected
<1>1. GenuinePackets'
  BY <1>a DEF GenuinePackets
<1>2. GenuineEntries'
  BY <1>a DEF GenuineEntries, EmptyTable
<1>3. IdsAscend'
  <2>1. \A c \in Calls : id_of'[c] = IF id_of[c] = NoId THEN NoId ELSE id_of[c] - NoId
    <3>1. id_of' = [d \in Calls |-> IF id_of[d] = NoId THEN NoId ELSE id_of[d] - NoId]
      BY DEF Reconnect
    <3> QED
      BY <3>1
  <2>2. /\ next' = [next EXCEPT !["client"] = 0, !["server"] = NoId]
        /\ mode' = [mode EXCEPT !["server"] = "UniServer"]
    BY DEF Reconnect
  <2>3. /\ next'["client"] = 0 /\ next'["server"] = NoId
        /\ mode'["client"] = mode["client"] /\ mode'["server"] = "UniServer"
    BY <2>2 DEF TypeOK, PeerTypeOK, Peers
  <2>4. \A c \in Calls : id_of[c] \in Int /\ CallerOf[c] \in {"client", "server"}
    BY Basics DEF TypeOK, CallTypeOK, Peers
  <2>5. \A c \in Calls : id_of'[c] # NoId => Old(c)' /\ id_of'[c] < 0 /\ id_of'[c] \in Int
    BY <1>0, <2>1, <2>4, Basics, Reconnected DEF Old, NoId
  <2>6. \A c \in Calls : id_of'[c] # NoId => id_of'[c] < next'[CallerOf[c]]
    BY <2>3, <2>4, <2>5, Basics DEF NoId
  <2>7. \A c, d \in Calls :
          CallerOf[c] = CallerOf[d] /\ id_of'[c] = id_of'[d] /\ id_of'[c] # NoId => c = d
    <3>1. SUFFICES ASSUME NEW c \in Calls, NEW d \in Calls, CallerOf[c] = CallerOf[d],
                          id_of'[c] = id_of'[d], id_of'[c] # NoId
                   PROVE  c = d
      OBVIOUS
    <3>2. id_of[c] # NoId /\ id_of[d] # NoId
      BY <2>1, <3>1
    <3>3. id_of[c] - NoId = id_of[d] - NoId
      BY <2>1, <3>1, <3>2
    <3>4. id_of[c] = id_of[d]
      BY <2>4, <3>3, Basics DEF NoId
    <3> QED
      BY <1>0, <3>1, <3>2, <3>4 DEF IdsAscend
  <2>8. mode["client"] \in {"UniClient", "BiClient"}
    BY <1>0 DEF IdsAscend
  <2> QED
    BY <2>3, <2>5, <2>6, <2>7, <2>8 DEF IdsAscend
<1>4. QueuedOnce'
  <2>1. \A c \in Calls : /\ res[c] # "idle" => res'[c] # "idle"
                         /\ id_of[c] = NoId => id_of'[c] = NoId
                         /\ res'[c] = "idle" => res[c] = "idle"
    BY <1>0, Reconnected, ReconnectedCalls
  <2>2. rx_requests' = rx_requests
    BY <1>0, Reconnected
  <2>3. \A p \in Peers : \A i \in 1 .. Len(rx_requests[p]) : rx_requests[p][i] \in Calls \cup {Enable}
    BY <1>0, Element
  <2> QED
    BY <1>0, <2>1, <2>2, <2>3 DEF QueuedOnce
<1>5. CorrelationApart'
  <2>1. Correlation
    BY DEF CorrelationInv, CorrelationApart, Clean
  <2>2. down' = down
    BY DEF Reconnect
  <2> QED
    BY <2>1, <2>2 DEF CorrelationApart, Correlation
<1> QED
  BY <1>1, <1>2, <1>3, <1>4, <1>5 DEF CorrelationInv

\* what is known of a state, and what a step leads to
Sound == TypeOK /\ OrphanInv /\ CorrelationInv /\ Dropped
LEMMA SoundStep == ASSUME Sound, [Next]_vars, ~Reconnect PROVE Sound' /\ ~Reconnect /\ Ended
  BY NextType, OrphanStep, NextCorr, DroppedStep DEF Sound, OrphanInv

\* ... of a state in which all of it is known
LEMMA NewStream ==
    ASSUME Sound, Reconnect, Clean
    PROVE  /\ Sound' /\ IdsApart
           /\ \A p \in Peers : /\ OnTheWay(p)' = <<>> /\ task'[p] = task[p] /\ task[p].at = "select"
                               /\ result'[p] = "running" /\ should_close'[p] = FALSE
                               /\ waiting_on_stream'[p] = EmptyTable
                               /\ waiting_on_user'[p] = EmptyTable
                               /\ waiting_on_user[p] = EmptyTable
                               /\ Handed(p)' = Handed(p) \/ Handed(p)' = <<>>
           /\ rx_requests' = rx_requests /\ rx_requests["server"] = <<>>
           /\ mode'["server"] = "UniServer" /\ next'["client"] = 0 /\ Handed("server")' = <<>>
           /\ ~may_call'["server"] /\ ~broken' /\ \A p \in Peers : link'[p] = <<>>
           /\ \A c \in Calls : id_of[c] = NoId <=> id_of'[c] = NoId
           /\ \A c \in Calls : id_of'[c] # NoId => Old(c)'
<1>1. TypeOK /\ Ended /\ Dropped /\ CorrelationInv /\ IdsAscend
  BY DEF Sound, OrphanInv, CorrelationInv
<1>2. TypeOK' /\ OrphanInv' /\ CorrelationInv'
  <2>1. Reconnect => [Next]_vars
    BY DEF Next
  <2> QED
    BY <1>1, <2>1, NextType, OrphanStep, ReconnectCorr DEF Sound
<1>3. \A p \in Peers : /\ link'[p] = <<>> /\ task'[p] = task[p] /\ task[p].at = "select"
                       /\ result'[p] = "running" /\ should_close'[p] = FALSE
                       /\ waiting_on_stream'[p] = EmptyTable
                       /\ waiting_on_user'[p] = EmptyTable
                       /\ OnTheWay(p)' = <<>>
  BY <1>1, Reconnected
<1>4. /\ rx_requests' = rx_requests /\ rx_requests["server"] = <<>>
      /\ \A c \in Calls : id_of[c] = NoId <=> id_of'[c] = NoId
      /\ \A c \in Calls : id_of'[c] # NoId => Old(c)'
  BY <1>1, Reconnected
<1>5. Dropped'
  BY <1>3 DEF Dropped
<1>6. \A p \in Peers : waiting_on_user[p] = EmptyTable
  BY <1>1 DEF Clean, Peers, Reconnect, Dropped, KeepsHandler
<1>7. /\ mode'["server"] = "UniServer" /\ next'["client"] = 0 /\ ~may_call'["server"] /\ ~broken'
  <2>1. /\ mode' = [mode EXCEPT !["server"] = "UniServer"]
        /\ next' = [next EXCEPT !["client"] = 0, !["server"] = NoId]
        /\ may_call' = [may_call EXCEPT !["server"] = FALSE] /\ ~broken'
    BY DEF Reconnect
  <2> QED
    BY <1>1, <2>1 DEF TypeOK, PeerTypeOK, QueueTypeOK, Peers
<1>8. Handed("server")' = <<>> /\ \A p \in Peers : Handed(p)' = Handed(p) \/ Handed(p)' = <<>>
  <2>1. \A p \in Peers : ~Delivering(p) /\ ~Delivering(p)'
    BY <1>3 DEF Delivering
  <2>2. tx_requests' = [tx_requests EXCEPT !["server"] = <<>>]
    BY DEF Reconnect
  <2>3. /\ tx_requests'["server"] = <<>> /\ tx_requests'["client"] = tx_requests["client"]
        /\ \A p \in Peers : tx_requests[p] \in Seq(Calls \cup {Enable})
    BY <1>1, <2>2, QueueType DEF Peers
  <2>4. \A s \in Seq(Calls \cup {Enable}) : s \o <<>> = s
    OBVIOUS
  <2>5. <<>> \o <<>> = <<>>
    OBVIOUS
  <2> QED
    BY <2>1, <2>3, <2>4, <2>5 DEF Handed, Peers
<1>9. Sound' /\ IdsApart
  BY <1>2, <1>5 DEF Sound, Clean
<1> QED
  BY <1>3, <1>4, <1>6, <1>7, <1>8, <1>9

LEMMA TwoEnds ==
    ASSUME NEW c \in Calls
    PROVE  /\ CallerOf[c] \in Peers /\ Callee(c) \in Peers /\ Callee(c) # CallerOf[c]
           /\ Other(CallerOf[c]) = Callee(c) /\ Other(Callee(c)) = CallerOf[c]
           /\ Peers = {CallerOf[c], Callee(c)}
           /\ IsRequest(c) => Prod(c) = Callee(c) /\ Cons(c) = CallerOf[c]
           /\ c # NoCall /\ c # Enable
BY Basics DEF Callee, Other, Peers, Prod, Cons, IsRequest

LEMMA PacketSets ==
    ASSUME NEW m \in Packets, NEW c \in Calls
    PROVE  /\ m \in AskFor(c) <=> m.kind \in RequestKinds /\ m.call = c
           /\ \A id, kinds : m \in With(id, kinds) <=> m.kind \in kinds /\ m.id = id
BY DEF Packets, AskFor, With

LEMMA IdFlow ==
    ASSUME TypeOK, OwnCalls, [Next]_vars, ~Reconnect, NEW c \in Calls
    PROVE  id_of'[c] = id_of[c] \/ (Asks(c) /\ id_of'[c] = next[CallerOf[c]])
<1>1. ASSUME NEW p \in Peers, ToSendRequest(p)
      PROVE  id_of'[c] = id_of[c] \/ (Asks(c) /\ id_of'[c] = next[CallerOf[c]])
  <2>1. Asking(p) \in Calls /\ CallerOf[Asking(p)] = p
    BY <1>1, AskedFirst, CallEntries DEF ToSendRequest, Asking
  <2>2. id_of' = [id_of EXCEPT ![Asking(p)] = next[p]]
    BY <1>1 DEF ToSendRequest, Asking
  <2> QED
    BY <1>1, <2>1, <2>2 DEF Asks, TypeOK, CallTypeOK
<1>2. ASSUME NEW p \in Peers, Task(p), ~ToSendRequest(p) PROVE UNCHANGED id_of
  <2>1. ASSUME NEW x, End(p, x) PROVE UNCHANGED id_of
    BY <2>1 DEF End, DropHandler, callVars, handleVars
  <2>2. CASE Recv(p)
    BY <2>1, <2>2 DEF Recv, RecvRefused, RecvEnableServerRequests, RecvRequest, RecvAnswer,
       RecvStream, RecvStreamClosed, RecvClose, RecvPing, RecvMalformed, ReadFails, callVars,
       handleVars
  <2>3. CASE Deliver(p) \/ Send(p) \/ Ping(p) \/ CloseSignal(p) \/ Finish(p)
    BY <2>1, <2>3 DEF Deliver, DeliverRequest, DeliverToNobody, DeliverMessage, Send, Write,
       WriteFails, WriteClose, Ping, CloseSignal, Finish, callVars, handleVars
  <2>4. CASE ToSend(p)
    BY <1>2, <2>1, <2>4 DEF ToSend, ToSendUser, ToSendEnable, ToSendDuplicate, ToSendNoId,
       callVars, handleVars
  <2> QED
    BY <1>2, <2>2, <2>3, <2>4 DEF Task
<1>3. (\E p \in Peers : User(p)) \/ (\E d \in Calls : UserCall(d)) \/ AskEnable \/ Break
         \/ Reconnect \/ UNCHANGED vars => UNCHANGED id_of
  BY DEF User, Receive, DropReceiver, SignalClose, UserCall, StartCall, RefuseCall, Answer, Emit,
     DropSender, Take, CloseStream, Cancel, AskEnable, Break, Reconnect, vars, callVars, handleVars
<1> QED
  BY <1>1, <1>2, <1>3 DEF Next

\* what the receive arm takes of the other end
LEMMA Hears ==
    ASSUME TypeOK, NEW p \in Peers,
           RecvRequest(p) \/ RecvAnswer(p) \/ (RecvMalformed(p) /\ Arriving(p).kind # "Response")
    PROVE  Listens(p) /\ Arriving(p) \in Packets
<1>1. BadKinds \subseteq Kinds /\ RequestKinds \subseteq Kinds
      /\ {"Response", "NoResponse", "MalformedRequest"} \subseteq Kinds
  BY BoundAssumption DEF Kinds, BodyKinds
<1>2. Arrives(p, Kinds) /\ Recv(p) /\ Arrived(p) # <<>>
  BY <1>1 DEF RecvRequest, RecvAnswer, RecvMalformed, Accepts, Arrives, Recv
<1>3. link' = [link EXCEPT ![Other(p)] = Tail(@)] /\ UNCHANGED result
  BY DEF RecvRequest, RecvAnswer, RecvMalformed, Accepts, taskVars, endVars, Arriving
<1>4. task'[Other(p)] = task[Other(p)]
  <2>1. task' = task \/ \E t : task' = [task EXCEPT ![p] = t]
    BY DEF RecvRequest, RecvAnswer, RecvMalformed, Goto, taskVars, Arriving
  <2> QED
    BY <2>1, TaskOfOne
<1>5. Arriving(p) \in Packets
  BY <1>2, FirstArrived DEF Arriving, TypeOK
<1> QED
  BY <1>2, <1>3, <1>4, <1>5, HeardWay DEF Listens

LEMMA GenuineWay ==
    ASSUME TypeOK, GenuinePackets, NEW p \in Peers, NEW i \in 1 .. Len(OnTheWay(p))
    PROVE  OnTheWay(p)[i] \in Packets /\ Genuine(p, OnTheWay(p)[i])
<1>1. /\ link[p] \in Seq(Packets) /\ OnTheWay(p) \in Seq(Packets)
      /\ ~Writing(p) => OnTheWay(p) = link[p]
      /\ Writing(p) => OnTheWay(p) = Append(link[p], task[p].packet)
      /\ task[p].packet \in Packets
  BY WayType
<1>2. OnTheWay(p)[i] \in Packets
  BY <1>1, Element
<1>3. CASE ~Writing(p)
  BY <1>1, <1>2, <1>3 DEF GenuinePackets
<1>4. CASE Writing(p)
  <2>1. i \in 1 .. Len(link[p]) \/ i = Len(link[p]) + 1
    BY <1>1, <1>4, Appended
  <2>2. i \in 1 .. Len(link[p]) => OnTheWay(p)[i] = link[p][i]
    BY <1>1, <1>4, Appended
  <2>3. OnTheWay(p)[Len(link[p]) + 1] = task[p].packet
    BY <1>1, <1>4, Appended
  <2> QED
    BY <1>2, <1>4, <2>1, <2>2, <2>3 DEF GenuinePackets, Writing
<1> QED
  BY <1>3, <1>4

\* a call on the way has an id, and what arrives is on the way
LEMMA AskedHasId ==
    ASSUME Sound, NEW c \in Calls, Asked(c)
    PROVE  id_of[c] \in Ids /\ id_of[c] # NoId
<1>1. PICK i \in 1 .. Len(OnTheWay(CallerOf[c])) : OnTheWay(CallerOf[c])[i] \in AskFor(c)
  BY DEF Asked, Has
<1> DEFINE m == OnTheWay(CallerOf[c])[i]
<1>2. m \in Packets /\ Genuine(CallerOf[c], m)
  BY <1>1, GenuineWay, TwoEnds DEF Sound, CorrelationInv
<1>3. m.kind \in RequestKinds /\ m.call = c /\ m.id \in Ids
  BY <1>1, <1>2, PacketSets DEF Packets
<1> HIDE DEF m
<1>4. id_of[c] = m.id
  BY <1>2, <1>3 DEF Genuine, BodyKinds
<1> QED
  BY <1>3, <1>4, Basics DEF Ids, NoId

LEMMA AskedFlow ==
    ASSUME Sound, [Next]_vars, ~Reconnect, NEW c \in Calls
    PROVE  /\ Asked(c)' => Asked(c) \/ Asks(c)
           /\ Once(OnTheWay(CallerOf[c]), AskFor(c)) => Once(OnTheWay(CallerOf[c])', AskFor(c))
           /\ Asks(c) => /\ id_of[c] = NoId /\ id_of'[c] = next[CallerOf[c]]
                         /\ next[CallerOf[c]] \in Ids /\ c \in CallsOf(rx_requests[CallerOf[c]])
<1> DEFINE p == CallerOf[c]
<1>0. p \in Peers /\ TypeOK /\ Ended /\ OwnCalls /\ CorrelationInv
  BY TwoEnds DEF Sound, OrphanInv
<1>1. ASSUME NEW m \in AskFor(c), Speaks(p, m) PROVE Asks(c)
  <2>1. m.kind \in RequestKinds /\ m.call = c
    BY DEF AskFor
  <2>2. ToSendRequest(p) /\ m = Packet(KindOf[Asking(p)], next[p], Asking(p), 0)
    BY <1>0, <1>1, <2>1, OnlyAsked
  <2> QED
    BY <2>1, <2>2 DEF Asks, Packet
<1>2. ASSUME Asks(c)
      PROVE  /\ id_of[c] = NoId /\ id_of'[c] = next[p] /\ next[p] \in Ids
             /\ c \in CallsOf(rx_requests[p])
  <2>1. c \in CallsOf(rx_requests[p]) /\ next[p] \in Ids
    <3>1. ToSendRequest(p) /\ Asking(p) = c
      BY <1>2 DEF Asks
    <3>2. HasRequest(p) /\ Asking(p) # Enable
      BY <3>1, TwoEnds DEF ToSendRequest
    <3> QED
      BY <1>0, <3>1, <3>2, AskedFirst, CallEntries
  <2>2. id_of[c] = NoId
    BY <1>0, <2>1, TwoEnds DEF CorrelationInv, QueuedOnce, CallsOf
  <2>3. id_of' = [id_of EXCEPT ![c] = next[p]]
    BY <1>2 DEF Asks, ToSendRequest, Asking
  <2> QED
    BY <1>0, <2>1, <2>2, <2>3 DEF TypeOK, CallTypeOK
<1>3. ~(Asked(c) /\ Asks(c))
  BY <1>2, AskedHasId
<1> QED
  BY <1>0, <1>1, <1>2, <1>3, WayHas DEF Asked

\* a call is of an earlier byte stream from one reconnection on
LEMMA OldStays ==
    ASSUME Sound, [Next]_vars, ~Reconnect, NEW c \in Calls PROVE Old(c)' <=> Old(c)
<1>1. TypeOK /\ OwnCalls
  BY DEF Sound, OrphanInv
<1>2. CASE id_of'[c] = id_of[c]
  BY <1>2 DEF Old
<1>3. CASE Asks(c)
  <2>1. id_of[c] = NoId /\ id_of'[c] \in Ids
    BY <1>3, AskedFlow
  <2> QED
    BY <2>1, Basics DEF Old, Ids, NoId
<1> QED
  BY <1>1, <1>2, <1>3, IdFlow

\* what is taken is not on the way any more
LEMMA Heeded ==
    ASSUME Sound, NEW c \in Calls, AskedOnce(c), Gets(c) \/ Garbles(c)
    PROVE  Asked(c) /\ ~Asked(c)' /\ Listens(Callee(c)) /\ ~Asks(c)
<1> DEFINE q == Callee(c)
<1>1. /\ q \in Peers /\ Other(q) = CallerOf[c] /\ TypeOK /\ Once(OnTheWay(Other(q)), AskFor(c))
      /\ CallerOf[c] \in Peers /\ q # CallerOf[c]
  BY TwoEnds DEF AskedOnce, Sound
<1>2. Arriving(q) \in AskFor(c) /\ Arriving(q).kind # "Response"
  BY DEF Gets, Garbles, AskFor, RequestKinds
<1>3. Listens(q)
  BY <1>1, <1>2, Hears DEF Gets, Garbles
<1>4. ~Has(OnTheWay(Other(q))', AskFor(c)) /\ Has(OnTheWay(Other(q)), AskFor(c))
  BY <1>1, <1>2, <1>3, HeardOnce
<1>5. Asked(c) /\ ~Asked(c)'
  BY <1>1, <1>4 DEF Asked
<1>6. ~Asks(c)
  <2>1. link' = [link EXCEPT ![Other(q)] = Tail(@)] /\ link[Other(q)] # <<>>
    BY <1>2 DEF Gets, Garbles, RecvRequest, RecvMalformed, Accepts, Arrives, Arriving, Arrived
  <2>2. link' # link
    <3>1. link[Other(q)] \in Seq(Packets) /\ Other(q) \in Peers
      BY <1>1 DEF TypeOK, LinkTypeOK
    <3>2. link'[Other(q)] = Tail(link[Other(q)])
      BY <1>1, <2>1, <3>1 DEF TypeOK, LinkTypeOK
    <3>3. ASSUME NEW s \in Seq(Packets), s # <<>> PROVE Tail(s) # s
      <4>1. Len(Tail(s)) = Len(s) - 1 /\ Len(s) \in Nat
        BY <3>3, TailOf
      <4>2. Len(Tail(s)) # Len(s)
        BY <4>1
      <4> QED
        BY <4>2
    <3> QED
      BY <2>1, <3>1, <3>2, <3>3
  <2> QED
    BY <2>2 DEF Asks, ToSendRequest, linkVars
<1> QED
  BY <1>3, <1>5, <1>6

\* an entry is under the id of its call
LEMMA ServedAt ==
    ASSUME Sound, NEW c \in Calls, NEW p \in Peers, NEW id \in Ids, waiting_on_user[p][id] = c
    PROVE  id = id_of[c] /\ p = Prod(c)
BY TwoEnds DEF Sound, CorrelationInv, GenuineEntries

LEMMA ServedFlow ==
    ASSUME Sound, [Next]_vars, ~Reconnect, NEW c \in Calls
    PROVE  LET q == Callee(c) IN
           /\ Served(c)' => Served(c) \/ Gets(c)
           /\ c \in CallsIn(waiting_on_stream'[q]) => c \in CallsIn(waiting_on_stream[q]) \/ Gets(c)
           /\ IsRequest(c) /\ Served(c) /\ ~Served(c)' =>
                Replies(c) \/ (DropHandler(q) /\ result'[q] # "running")
<1> DEFINE q == Callee(c)
           old == waiting_on_user[q]
           new == waiting_on_user'[q]
<1>0. q \in Peers /\ TypeOK /\ OwnCalls /\ q # CallerOf[c] /\ c # NoCall /\ c # Enable
  BY TwoEnds DEF Sound, OrphanInv
<1>1. ASSUME RecvRequest(q), Arriving(q).call = c PROVE Gets(c)
  <2>1. Arriving(q).kind \in RequestKinds
    BY <1>1 DEF RecvRequest, Accepts, Arrives, Arriving
  <2> QED
    BY <1>0, <1>1, <2>1, Hears, PacketSets DEF Gets
<1>2. ASSUME ToSendRequest(q), Asking(q) = c PROVE FALSE
  <2>1. HasRequest(q) /\ Asking(q) # Enable
    BY <1>0, <1>2 DEF ToSendRequest
  <2> QED
    BY <1>0, <1>2, <2>1, AskedFirst
<1>3. old \in [Ids -> Calls \cup {NoCall}] /\ waiting_on_stream[q] \in [Ids -> Calls \cup {NoCall}]
  BY <1>0, TablesType
<1>4. UserEntriesOf(q) /\ StreamEntriesOf(q)
  BY <1>0, EntriesFlow
<1>5. ASSUME Served(c)' PROVE Served(c) \/ Gets(c)
  <2>1. PICK i \in Ids : new[i] = c
    BY <1>5 DEF Served, CallsIn, Callee
  <2>2. old[i] = c => Served(c)
    BY DEF Served, CallsIn
  <2> QED
    BY <1>0, <1>1, <1>2, <1>3, <1>4, <2>1, <2>2 DEF UserEntriesOf, EmptyTable
<1>6. ASSUME c \in CallsIn(waiting_on_stream'[q])
      PROVE  c \in CallsIn(waiting_on_stream[q]) \/ Gets(c)
  <2>1. PICK i \in Ids : waiting_on_stream'[q][i] = c
    BY <1>6 DEF CallsIn
  <2>2. waiting_on_stream[q][i] = c => c \in CallsIn(waiting_on_stream[q])
    BY DEF CallsIn
  <2> QED
    BY <1>0, <1>1, <1>2, <1>3, <1>4, <2>1, <2>2 DEF StreamEntriesOf, EmptyTable
<1>7. ASSUME IsRequest(c), Served(c), ~Served(c)'
      PROVE  Replies(c) \/ (DropHandler(q) /\ result'[q] # "running")
  <2>1. PICK i \in Ids : old[i] = c
    BY <1>7 DEF Served, CallsIn
  <2>2. i = id_of[c]
    BY <1>0, <2>1, ServedAt
  <2>3. new[i] # c
    BY <1>7 DEF Served, CallsIn, Callee
  <2>4. ASSUME NEW id \in Ids, ToSendUser(q, id), new = [old EXCEPT ![id] = NoCall]
        PROVE  Replies(c)
    <3>1. id = i
      BY <1>3, <2>1, <2>3, <2>4
    <3> QED
      BY <2>1, <2>2, <2>4, <3>1 DEF Replies
  <2> QED
    BY <1>0, <1>3, <1>4, <2>1, <2>3, <2>4 DEF UserEntriesOf
<1> QED
  BY <1>5, <1>6, <1>7

\* who answers a Request: the responder's task, or the parser that cannot read it
LEMMA WhoAnswers ==
    ASSUME Sound, NEW c \in Requests, NEW m, Speaks(Callee(c), m),
           m \in With(id_of[c], AnswerKinds)
    PROVE  \/ Replies(c) /\ m = Said(Callee(c), id_of[c])
           \/ Garbles(c) /\ m.kind = "MalformedRequest"
<1> DEFINE q == Callee(c)
<1>0. /\ c \in Calls /\ IsRequest(c) /\ q \in Peers /\ TypeOK /\ IdsAscend /\ GenuinePackets
      /\ Prod(c) = q /\ Other(q) = CallerOf[c]
  BY TwoEnds DEF Requests, Sound, CorrelationInv
<1>1. m \in Packets /\ m.kind \in AnswerKinds /\ m.id = id_of[c] /\ id_of[c] \in Ids
  <2>1. m \in Packets
    BY DEF Speaks
  <2> QED
    BY <1>0, <2>1, PacketSets DEF Packets
<1>2. CASE ToSendRequest(q) /\ m = Packet(KindOf[Asking(q)], next[q], Asking(q), 0)
  <2>1. m.kind \in RequestKinds
    BY <1>0, <1>2, CallEntries, Basics DEF Packet
  <2> QED
    BY <1>1, <2>1 DEF RequestKinds, AnswerKinds
<1>3. ASSUME NEW id \in Ids, ToSendUser(q, id), m = Said(q, id) PROVE Replies(c) /\ m = Said(q, id_of[c])
  <2> DEFINE d == waiting_on_user[q][id]
  <2>1. d \in Calls
    BY <1>0, <1>3, TablesType DEF ToSendUser
  <2>2. id_of[d] = id /\ Prod(d) = q
    BY <1>0, <2>1, ServedAt
  <2>3. IsRequest(d) /\ id = id_of[c]
    BY <1>1, <1>3, SaidKinds DEF AnswerKinds
  <2>4. d = c
    BY <1>0, <1>1, <2>1, <2>2, <2>3, SameRequest
  <2> QED
    BY <1>3, <2>3, <2>4 DEF Replies
<1>4. CASE /\ RecvMalformed(q) /\ Arriving(q).kind \in RequestKinds
           /\ m = Control(Complaint(Arriving(q).kind), Arriving(q).id)
  <2> DEFINE d == Arriving(q).call
  <2>1. Arriving(q).kind = "Request" /\ Arriving(q).id = id_of[c] /\ m.kind = "MalformedRequest"
    BY <1>1, <1>4 DEF Complaint, Control, Packet, AnswerKinds
  <2>2. Arriving(q) \in Packets /\ d \in Calls
    BY <1>0, <1>4, <2>1, Hears DEF Packets, BodyKinds, RequestKinds
  <2>3. Genuine(Other(q), Arriving(q))
    BY <1>0, <1>4, FirstGenuine DEF RecvMalformed, Arrives, Arriving
  <2>4. id_of[d] = id_of[c] /\ IsRequest(d) /\ CallerOf[d] = CallerOf[c]
    BY <1>0, <1>4, <2>1, <2>3 DEF Genuine, BodyKinds, RequestKinds, IsRequest
  <2>5. Prod(d) = q
    BY <2>2, <2>4, TwoEnds DEF Callee
  <2>6. d = c
    BY <1>0, <1>1, <2>2, <2>4, <2>5, SameRequest
  <2> QED
    BY <1>0, <1>4, <2>1, <2>2, <2>6, PacketSets DEF Garbles
<1>5. m.kind \notin {"EnableServerRequests", "StreamClosed", "Ping", "Close"}
  BY <1>1 DEF AnswerKinds
<1> QED
  BY <1>0, <1>2, <1>3, <1>4, <1>5, Sayings DEF Control, Packet

\* a call that gets its id has no answer yet
LEMMA FreshAnswer ==
    ASSUME Sound, ControlIds, [Next]_vars, ~Reconnect, NEW c \in Requests, Asks(c), NEW kinds \in SUBSET AnswerKinds
    PROVE  ~Answered(c, kinds)'
<1> DEFINE p == CallerOf[c]
           q == Callee(c)
<1>0. /\ c \in Calls /\ IsRequest(c) /\ p \in Peers /\ q \in Peers /\ q # p /\ TypeOK
      /\ IdsAscend /\ GenuinePackets /\ Prod(c) = q
  BY TwoEnds DEF Requests, Sound, CorrelationInv
<1>1. id_of'[c] = next[p] /\ next[p] \in Ids
  BY <1>0, AskedFlow
<1>2. task'[q] = task[q] /\ UNCHANGED <<link, result>>
  BY <1>0 DEF Asks, ToSendRequest, Goto, TypeOK, TaskTypeOK, linkVars, endVars
<1>3. OnTheWay(q)' = OnTheWay(q)
  BY <1>0, <1>2, OtherWay
<1>4. ASSUME NEW d \in Requests, Callee(d) = q PROVE id_of[d] # next[p]
  <2>1. d \in Calls /\ CallerOf[d] = p /\ id_of[d] \in Int
    BY <1>0, <1>4, TwoEnds DEF Requests, TypeOK, CallTypeOK
  <2>2. id_of[d] = NoId \/ id_of[d] < next[p]
    BY <1>0, <2>1 DEF IdsAscend
  <2>3. next[p] \in Nat /\ next[p] # NoId
    BY <1>1, Basics DEF Ids, NoId
  <2> QED
    BY <2>1, <2>2, <2>3
<1>5. ASSUME NEW i \in 1 .. Len(OnTheWay(q)), OnTheWay(q)[i] \in With(next[p], kinds) PROVE FALSE
  <2> DEFINE m == OnTheWay(q)[i]
             d == m.call
  <2>1. m \in Packets /\ Genuine(q, m)
    BY <1>0, <1>5, GenuineWay
  <2>2. m.kind \in AnswerKinds /\ m.id = next[p]
    BY <1>0, <1>5, <2>1, PacketSets
  <2>3. CASE m.kind = "Response"
    <3>1. d \in Calls
      BY <2>1, <2>3 DEF Packets, BodyKinds
    <3>2. Prod(d) = q /\ IsRequest(d) /\ id_of[d] = next[p]
      BY <2>1, <2>2, <2>3 DEF Genuine, BodyKinds
    <3>3. d \in Requests /\ Callee(d) = q
      BY <3>1, <3>2, TwoEnds DEF Requests
    <3> QED
      BY <1>4, <3>2, <3>3
  <2>4. CASE m.kind # "Response"
    BY <1>0, <1>4, <1>5, <2>2, <2>4 DEF ControlIds, AnswerKinds
  <2> QED
    BY <2>3, <2>4
<1> QED
  BY <1>1, <1>3, <1>5 DEF Answered, Has, Callee

LEMMA AnswerFlow ==
    ASSUME Sound, ControlIds, [Next]_vars, ~Reconnect, NEW c \in Requests, NEW kinds \in SUBSET AnswerKinds
    PROVE  /\ Answered(c, kinds)' =>
                /\ id_of'[c] = id_of[c] /\ id_of[c] \in Ids
                /\ \/ Answered(c, kinds)
                   \/ Replies(c) /\ Said(Callee(c), id_of[c]).kind \in kinds
                   \/ Garbles(c) /\ "MalformedRequest" \in kinds
           /\ Once(OnTheWay(Callee(c)), With(id_of[c], kinds)) =>
                \/ Once(OnTheWay(Callee(c))', With(id_of'[c], kinds))
                \/ Answered(c, kinds) /\ (Replies(c) \/ Garbles(c))
<1> DEFINE q == Callee(c)
           X == With(id_of[c], kinds)
<1>0. c \in Calls /\ q \in Peers /\ TypeOK /\ TypeOK' /\ Ended /\ OwnCalls
  BY TwoEnds, SoundStep DEF Requests, Sound, OrphanInv
<1>1. CASE Asks(c)
  <2>1. ~Has(OnTheWay(q)', With(id_of'[c], kinds)) /\ ~Answered(c, kinds)'
    BY <1>1, FreshAnswer DEF Answered, Callee
  <2> QED
    BY <2>1 DEF Once, Has
<1>2. CASE ~Asks(c)
  <2>1. id_of'[c] = id_of[c]
    BY <1>0, <1>2, IdFlow
  <2>2. ASSUME NEW m \in X, Speaks(q, m)
        PROVE  \/ Replies(c) /\ Said(q, id_of[c]).kind \in kinds
               \/ Garbles(c) /\ "MalformedRequest" \in kinds
    <3>1. m \in Packets
      BY <2>2 DEF Speaks
    <3>2. m \in With(id_of[c], AnswerKinds) /\ m.kind \in kinds
      BY <1>0, <3>1, PacketSets
    <3> QED
      BY <2>2, <3>2, WhoAnswers
  <2>3. Answered(c, kinds)' = Has(OnTheWay(q)', X)
    BY <2>1 DEF Answered, Callee
  <2>4. \A m \in Packets : m \in X => id_of[c] \in Ids
    BY <1>0, PacketSets DEF Packets
  <2>5. \A i \in 1 .. Len(OnTheWay(q)) : OnTheWay(q)[i] \in Packets
    BY <1>0, GenuineWay DEF Sound, CorrelationInv
  <2> HIDE DEF X
  <2>6. /\ Has(OnTheWay(q)', X) => Has(OnTheWay(q), X) \/ \E m \in X : Speaks(q, m)
        /\ Once(OnTheWay(q), X) =>
             Once(OnTheWay(q)', X) \/ (Has(OnTheWay(q), X) /\ \E m \in X : Speaks(q, m))
    BY <1>0, WayHas
  <2>7. Has(OnTheWay(q)', X) => id_of[c] \in Ids
    BY <2>4, <2>5, <2>6 DEF Has, Speaks
  <2> QED
    BY <2>1, <2>2, <2>3, <2>6, <2>7 DEF X, Answered
<1> QED
  BY <1>1, <1>2

-----------------------------------------------------------------------------
(* What happens to the handle of a Request *)

LEMMA HandedFor ==
    ASSUME Sound, [Next]_vars, ~Reconnect, NEW c \in Calls
    PROVE  /\ IsHanded(c)' => IsHanded(c) \/ Gets(c)
           /\ Once(Handed(Callee(c)), {c}) =>
                Once(Handed(Callee(c))', {c}) \/ (IsHanded(c) /\ Gets(c))
<1> DEFINE q == Callee(c)
<1>0. q \in Peers /\ TypeOK /\ Ended /\ c # Enable
  BY TwoEnds DEF Sound, OrphanInv
<1>1. ASSUME RecvRequest(q) \/ RecvEnableServerRequests(q), Item(Arriving(q)) \in {c}
      PROVE  Gets(c)
  <2>1. CASE RecvEnableServerRequests(q)
    BY <1>0, <1>1, <2>1 DEF RecvEnableServerRequests, Accepts, Arrives, Arriving, Item
  <2>2. CASE RecvRequest(q)
    <3>1. Arriving(q).kind \in RequestKinds
      BY <2>2 DEF RecvRequest, Accepts, Arrives, Arriving
    <3>2. Arriving(q).call = c
      BY <1>1, <3>1 DEF Item, RequestKinds
    <3>3. Arriving(q) \in Packets
      BY <1>0, <2>2, Hears
    <3> QED
      BY <2>2, <3>1, <3>2, <3>3, PacketSets DEF Gets
  <2> QED
    BY <1>1, <2>1, <2>2
<1>2. /\ Has(Handed(q)', {c}) => Has(Handed(q), {c}) \/ Gets(c)
      /\ Once(Handed(q), {c}) => Once(Handed(q)', {c}) \/ (Has(Handed(q), {c}) /\ Gets(c))
  BY <1>0, <1>1, HandedHas
<1> QED
  BY <1>2 DEF IsHanded, Callee

\* who receives a request, or drops it, is the only one who has it
LEMMA HandedGone ==
    ASSUME TypeOK, [Next]_vars, NEW q \in Peers, NEW c \in Calls, Once(Handed(q), {c}),
           \/ Receive(q) /\ Head(tx_requests[q]) = c
           \/ DropReceiver(q) /\ c \in CallsOf(tx_requests[q])
           \/ DeliverToNobody(q) /\ Item(task[q].packet) = c
    PROVE  Has(Handed(q), {c}) /\ ~Has(Handed(q)', {c})
<1> DEFINE a == tx_requests[q]
           b == InDelivery(q)
           S == Calls \cup {Enable}
<1>1. /\ a \in Seq(S) /\ b \in Seq(S) /\ Handed(q) = a \o b
      /\ Handed(q)' = tx_requests'[q] \o InDelivery(q)'
  BY HandedType
<1>2. /\ Len(a) \in Nat /\ Len(b) \in Nat /\ Len(a \o b) = Len(a) + Len(b)
      /\ \A i \in 1 .. Len(a) : (a \o b)[i] = a[i]
      /\ \A i \in 1 .. Len(b) : (a \o b)[Len(a) + i] = b[i]
  BY <1>1
<1>3. Has(a, {c}) => ~Has(b, {c})
  <2> SUFFICES ASSUME NEW i \in 1 .. Len(a), a[i] = c, NEW j \in 1 .. Len(b), b[j] = c
               PROVE  FALSE
    BY DEF Has
  <2>1. i \in 1 .. Len(a \o b) /\ Len(a) + j \in 1 .. Len(a \o b) /\ i # Len(a) + j
    BY <1>2
  <2>2. (a \o b)[i] = c /\ (a \o b)[Len(a) + j] = c
    BY <1>2
  <2> QED
    BY <1>1, <2>1, <2>2 DEF Once
<1>4. Has(a, {c}) \/ Has(b, {c}) => Has(a \o b, {c})
  <2>1. \A i \in 1 .. Len(a) : i \in 1 .. Len(a \o b)
    BY <1>2
  <2>2. \A i \in 1 .. Len(b) : Len(a) + i \in 1 .. Len(a \o b)
    BY <1>2
  <2> QED
    BY <1>2, <2>1, <2>2 DEF Has
<1>5. CASE Receive(q) /\ Head(tx_requests[q]) = c
  <2>1. a # <<>> /\ tx_requests'[q] = Tail(a) /\ UNCHANGED <<task, result>>
    BY <1>5, QueueType DEF Receive, taskVars, endVars
  <2>2. InDelivery(q)' = b
    BY <2>1 DEF InDelivery, Delivering, Item
  <2>3. Tail(a) \o b = Tail(a \o b) /\ a \o b # <<>> /\ Head(a \o b) = c
    <3>1. \A s, t \in Seq(S) : s # <<>> =>
            s \o t # <<>> /\ Tail(s \o t) = Tail(s) \o t /\ Head(s \o t) = Head(s)
      <4>1. ASSUME NEW T, NEW s \in Seq(T), NEW t \in Seq(T), s # <<>>
            PROVE  s \o t # <<>> /\ Tail(s \o t) = Tail(s) \o t /\ Head(s \o t) = Head(s)
        BY <4>1
      <4> QED
        BY <4>1
    <3> QED
      BY <1>1, <1>5, <2>1, <3>1
  <2>4. a \o b \in Seq(S)
    BY <1>1
  <2> HIDE DEF S
  <2>5. Has(a \o b, {c}) /\ ~Has(Tail(a \o b), {c})
    <3> DEFINE old == a \o b
    <3>1. old \in Seq(S) /\ old # <<>> /\ Head(old) \in {c} /\ Once(old, {c})
      BY <1>1, <2>3, <2>4
    <3> HIDE DEF old
    <3>2. Has(old, {c}) /\ ~Has(Tail(old), {c})
      BY <3>1, HasTail
    <3> QED
      BY <3>2 DEF old
  <2> QED
    BY <1>1, <2>1, <2>2, <2>3, <2>5
<1>6. CASE DropReceiver(q) /\ c \in CallsOf(tx_requests[q])
  <2>1. tx_requests'[q] = <<>> /\ UNCHANGED <<task, result>> /\ Has(a, {c})
    BY <1>6, QueueType DEF DropReceiver, taskVars, endVars, CallsOf, Has
  <2>2. InDelivery(q)' = b
    BY <2>1 DEF InDelivery, Delivering, Item
  <2>3. <<>> \o b = b
    BY <1>1
  <2> QED
    BY <1>1, <1>3, <1>4, <2>1, <2>2, <2>3
<1>7. CASE DeliverToNobody(q) /\ Item(task[q].packet) = c
  <2>1. b = <<c>>
    BY <1>7 DEF DeliverToNobody, InDelivery
  <2>2. Has(b, {c})
    BY <2>1 DEF Has
  <2>3. tx_requests'[q] = a /\ task'[q].at = "select"
    BY <1>7 DEF DeliverToNobody, receiverVars, Idle, TypeOK, TaskTypeOK
  <2>4. InDelivery(q)' = <<>>
    BY <2>3 DEF InDelivery, Delivering
  <2>5. a \o <<>> = a
    BY <1>1
  <2> QED
    BY <1>1, <1>3, <1>4, <2>2, <2>3, <2>4, <2>5
<1> QED
  BY <1>5, <1>6, <1>7

\* the handle of a responder
LEMMA ResponderFlow ==
    ASSUME Sound, [Next]_vars, ~Reconnect, NEW c \in Requests, Once(Handed(Callee(c)), {c})
    PROVE  \/ tx'[c] = tx[c]
           \/ tx[c] = "live" /\ tx'[c] = "dropped"
           \/ IsHanded(c) /\ ~IsHanded(c)'
<1>1. /\ c \in Calls /\ KindOf[c] = "Request" /\ Callee(c) \in Peers /\ Prod(c) = Callee(c)
      /\ TypeOK /\ ~Reconnect
  BY TwoEnds, SoundStep DEF Requests, Sound, IsRequest
<1>2. Has(Handed(Callee(c))', {c}) <=> IsHanded(c)'
  BY DEF IsHanded, Callee
<1> QED
  BY <1>1, <1>2, SenderFlow, HandedGone DEF IsHanded

\* ... and what it sent: taken by the task that replies, or thrown away when it ends
LEMMA SentFlow ==
    ASSUME Sound, [Next]_vars, ~Reconnect, NEW c \in Requests
    PROVE  \/ up'[c] = up[c] /\ sent'[c] = sent[c]
           \/ Answer(c)
           \/ /\ Replies(c) /\ sent'[c] = sent[c]
              /\ up'[c] = IF Over(c) THEN <<>> ELSE Taken(c)
           \/ /\ DropHandler(Callee(c)) /\ result'[Callee(c)] # "running"
              /\ sent'[c] = sent[c] /\ up'[c] = <<>>
<1> DEFINE q == Callee(c)
           Goal == \/ up'[c] = up[c] /\ sent'[c] = sent[c]
                   \/ Answer(c)
                   \/ /\ Replies(c) /\ sent'[c] = sent[c]
                      /\ up'[c] = IF Over(c) THEN <<>> ELSE Taken(c)
                   \/ /\ DropHandler(q) /\ result'[q] # "running"
                      /\ sent'[c] = sent[c] /\ up'[c] = <<>>
<1>0. /\ c \in Calls /\ IsRequest(c) /\ KindOf[c] = "Request" /\ q \in Peers /\ Prod(c) = q
      /\ TypeOK /\ ~Reconnect
  BY TwoEnds, SoundStep DEF Requests, Sound, IsRequest
<1>1. ASSUME UNCHANGED <<up, sent>> PROVE Goal
  BY <1>1
<1>2. ASSUME NEW p \in Peers, DropHandler(p), result'[p] # "running" PROVE Goal
  <2>1. /\ sent' = sent
        /\ up'[c] = IF c \in CallsIn(waiting_on_user[p]) THEN <<>> ELSE up[c]
    BY <1>0, <1>2 DEF DropHandler
  <2>2. c \in CallsIn(waiting_on_user[p]) => p = q
    BY <1>0, ServedAt DEF CallsIn
  <2> QED
    BY <1>2, <2>1, <2>2
<1>3. ASSUME NEW p \in Peers, NEW x, x # "running", End(p, x) PROVE Goal
  <2>1. result'[p] # "running"
    BY <1>0, <1>3 DEF End, TypeOK, TaskTypeOK
  <2> QED
    BY <1>1, <1>2, <1>3, <2>1 DEF End, callVars, handleVars, prodVars
<1>4. ASSUME NEW p \in Peers, NEW id \in Ids, ToSendUser(p, id) PROVE Goal
  <2> DEFINE d == waiting_on_user[p][id]
  <2>1. /\ up' = [up EXCEPT ![d] = IF Over(d) THEN <<>> ELSE Taken(d)] /\ UNCHANGED sent
        /\ d \in Calls
    BY <1>0, <1>4, TablesType DEF ToSendUser
  <2>2. CASE d = c
    <3>1. id = id_of[c] /\ p = q
      BY <1>0, <2>2, ServedAt
    <3>2. up'[c] = IF Over(c) THEN <<>> ELSE Taken(c)
      BY <1>0, <2>1, <2>2 DEF TypeOK, CallTypeOK
    <3> QED
      BY <1>4, <2>1, <2>2, <3>1, <3>2 DEF Replies
  <2>3. CASE d # c
    <3> HIDE DEF d
    <3>1. up'[c] = up[c]
      BY <1>0, <2>1, <2>3 DEF TypeOK, CallTypeOK
    <3> QED
      BY <2>1, <3>1
  <2> QED
    BY <2>2, <2>3
<1>5. ASSUME NEW p \in Peers, Task(p)
      PROVE  \/ UNCHANGED <<up, sent>> \/ \E x : x # "running" /\ End(p, x)
             \/ \E id \in Ids : ToSendUser(p, id)
  <2>1. CASE Recv(p)
    BY <2>1 DEF Recv, RecvRefused, RecvEnableServerRequests, RecvRequest, RecvAnswer,
       RecvStream, RecvStreamClosed, RecvClose, RecvPing, RecvMalformed, ReadFails, callVars,
       handleVars, prodVars, Refusal
  <2>2. CASE Deliver(p) \/ Send(p) \/ Ping(p) \/ CloseSignal(p) \/ Finish(p)
    BY <2>2 DEF Deliver, DeliverRequest, DeliverToNobody, DeliverMessage, Send, Write, WriteFails,
       WriteClose, Ping, CloseSignal, Finish, callVars, handleVars, prodVars
  <2>3. CASE ToSend(p)
    BY <2>3 DEF ToSend, ToSendEnable, ToSendRequest, ToSendDuplicate,
       ToSendNoId, callVars, handleVars, prodVars
  <2> QED
    BY <1>5, <2>1, <2>2, <2>3 DEF Task
<1>6. ASSUME NEW d \in Calls, Emit(d) PROVE Goal
  BY <1>0, <1>6 DEF Emit, TypeOK, CallTypeOK
<1>7. ASSUME NEW d \in Calls, Answer(d) PROVE Goal
  <2>1. d # c => up'[c] = up[c] /\ sent'[c] = sent[c]
    BY <1>0, <1>7 DEF Answer, TypeOK, CallTypeOK
  <2> QED
    BY <1>7, <2>1
<1>8. ASSUME NEW d \in Calls, UserCall(d), ~Answer(d), ~Emit(d) PROVE UNCHANGED <<up, sent>>
  BY <1>8 DEF UserCall, StartCall, RefuseCall, DropSender, Take, CloseStream, Cancel, handleVars,
     prodVars
<1>9. ASSUME (\E p \in Peers : User(p)) \/ AskEnable \/ Break \/ UNCHANGED vars
      PROVE  UNCHANGED <<up, sent>>
  BY <1>9 DEF User, Receive, DropReceiver, SignalClose, AskEnable, Break, vars, callVars,
     handleVars, prodVars
<1> HIDE DEF Goal
<1>10. Goal
  BY <1>0, <1>1, <1>3, <1>4, <1>5, <1>6, <1>7, <1>8, <1>9 DEF Next
<1> QED
  BY <1>10 DEF Goal

\* a responder is no longer listened to when its task answers, closes or ends, or when
\* the id of the call is taken for one of a stream
LEMMA ShutFlow ==
    ASSUME Sound, [Next]_vars, ~Reconnect, NEW c \in Requests, shut'[c], ~shut[c]
    PROVE  LET q == Callee(c) IN
           /\ Served(c)
           /\ \/ should_close'[q]
              \/ DropHandler(q) /\ result'[q] # "running"
              \/ Replies(c)
              \/ RecvStreamClosed(q) /\ waiting_on_user[q][Arriving(q).id] = c
<1> DEFINE q == Callee(c)
           How(p) == \/ should_close'[p]
                     \/ DropHandler(p) /\ result'[p] # "running"
                     \/ Replies(c)
                     \/ RecvStreamClosed(p) /\ waiting_on_user[p][Arriving(p).id] = c
<1>0. /\ c \in Calls /\ KindOf[c] = "Request" /\ IsRequest(c) /\ q \in Peers /\ Prod(c) = q
      /\ TypeOK /\ ~Reconnect
  BY TwoEnds, SoundStep DEF Requests, Sound, IsRequest
<1>1. ASSUME NEW p \in Peers, c \in CallsIn(waiting_on_user[p]), How(p) PROVE Served(c) /\ How(q)
  <2>1. p = q
    BY <1>0, <1>1, ServedAt DEF CallsIn
  <2> QED
    BY <1>1, <2>1 DEF Served
<1>2. ASSUME NEW p \in Peers, CloseHandler(p)
      PROVE  c \in CallsIn(waiting_on_user[p]) /\ should_close'[p]
  BY <1>0, <1>2 DEF CloseHandler, Shut, TypeOK, TaskTypeOK
<1>3. ASSUME NEW p \in Peers, NEW x, x # "running", End(p, x)
      PROVE  c \in CallsIn(waiting_on_user[p]) /\ DropHandler(p) /\ result'[p] # "running"
  BY <1>0, <1>3 DEF End, DropHandler, Shut, callVars, handleVars, prodVars, TypeOK, TaskTypeOK
<1>4. ASSUME NEW p \in Peers, NEW id \in Ids, ToSendUser(p, id)
      PROVE  c \in CallsIn(waiting_on_user[p]) /\ Replies(c)
  <2>1. waiting_on_user[p][id] = c
    BY <1>0, <1>4 DEF ToSendUser, Shut
  <2>2. id = id_of[c] /\ p = q
    BY <1>0, <2>1, ServedAt
  <2> QED
    BY <1>0, <1>4, <2>1, <2>2 DEF Replies, CallsIn
<1>5. ASSUME NEW p \in Peers, RecvStreamClosed(p)
      PROVE  /\ waiting_on_user[p][Arriving(p).id] = c
             /\ c \in CallsIn(waiting_on_user[p])
  <2>1. waiting_on_user[p][Arriving(p).id] = c
    BY <1>0, <1>5 DEF RecvStreamClosed, Shut, Arriving
  <2>2. Arriving(p).id \in Ids
    BY <1>0, <1>5, FirstArrived DEF RecvStreamClosed, Accepts, Arrives, Arriving, TypeOK, Packets
  <2> QED
    BY <1>0, <2>1, <2>2 DEF CallsIn
<1>6. ASSUME NEW p \in Peers, Task(p)
      PROVE  \/ UNCHANGED shut \/ CloseHandler(p) \/ \E x : x # "running" /\ End(p, x)
             \/ (\E id \in Ids : ToSendUser(p, id)) \/ RecvStreamClosed(p)
  <2>1. CASE Recv(p)
    BY <2>1 DEF Recv, RecvRefused, RecvEnableServerRequests, RecvRequest, RecvAnswer,
       RecvStream, RecvClose, RecvPing, RecvMalformed, ReadFails, callVars,
       handleVars, prodVars, Refusal
  <2>2. CASE Deliver(p) \/ Send(p) \/ Ping(p) \/ CloseSignal(p) \/ Finish(p)
    BY <2>2 DEF Deliver, DeliverRequest, DeliverToNobody, DeliverMessage, Send, Write, WriteFails,
       WriteClose, Ping, CloseSignal, Finish, callVars, handleVars, prodVars
  <2>3. CASE ToSend(p)
    <3>1. ToSendNoId(p) => shut'[c] = shut[c]
      BY <1>0 DEF ToSendNoId, Shut
    <3> QED
      BY <2>3, <3>1 DEF ToSend, ToSendEnable, ToSendRequest, ToSendDuplicate, callVars, handleVars,
         prodVars
  <2> QED
    BY <1>6, <2>1, <2>2, <2>3 DEF Task
<1>7. (\E p \in Peers : User(p)) \/ (\E d \in Calls : UserCall(d)) \/ AskEnable \/ Break
         \/ UNCHANGED vars => UNCHANGED shut
  BY DEF User, Receive, DropReceiver, SignalClose, UserCall, StartCall, RefuseCall, Answer, Emit,
     DropSender, Take, CloseStream, Cancel, AskEnable, Break, vars, callVars, handleVars, prodVars
<1>8. \E p \in Peers : Task(p)
  BY <1>0, <1>7 DEF Next
<1>9. Served(c) /\ How(q)
  BY <1>1, <1>2, <1>3, <1>4, <1>5, <1>6, <1>8
<1> QED
  BY <1>9

\* the outcome of a Request is what its answer said
LEMMA OutcomeSaid ==
    ASSUME Sound, [Next]_vars, ~Reconnect, NEW c \in Requests, NEW kind \in {"NoResponse", "MalformedRequest"},
           res'[c] = kind
    PROVE  res[c] = kind \/ Answered(c, {kind})
<1>0. c \in Calls /\ TypeOK /\ IsRequest(c) /\ OrphanInv /\ CorrelationInv
      /\ Cons(c) = CallerOf[c] /\ Other(CallerOf[c]) = Callee(c)
  BY TwoEnds DEF Requests, Sound
<1>1. ASSUME NEW p \in Peers, RecvAnswer(p), Arriving(p).kind = kind,
             waiting_on_stream[p][Arriving(p).id] = c
      PROVE  Answered(c, {kind})
  <2> DEFINE m == Arriving(p)
  <2>1. Listens(p) /\ m \in Packets /\ m.id \in Ids
    BY <1>0, <1>1, Hears DEF Packets
  <2>2. id_of[c] = m.id /\ Cons(c) = p
    BY <1>0, <1>1, <2>1, TwoEnds DEF CorrelationInv, GenuineEntries
  <2>3. m \in With(id_of[c], {kind})
    BY <1>0, <1>1, <2>1, <2>2, PacketSets
  <2>4. Callee(c) = Other(p) /\ OnTheWay(Other(p)) # <<>> /\ Head(OnTheWay(Other(p))) = m
    BY <1>0, <2>1, <2>2 DEF Listens, Heard, Arriving
  <2>5. OnTheWay(Other(p)) \in Seq(Packets)
    BY <1>0, TwoPeers, WayType
  <2>6. 1 \in 1 .. Len(OnTheWay(Other(p))) /\ OnTheWay(Other(p))[1] = m
    BY <2>4, <2>5
  <2> QED
    BY <2>3, <2>4, <2>6 DEF Answered, Has
<1> QED
  BY <1>0, <1>1, OutcomeFlow

-----------------------------------------------------------------------------
(* RequestInv, part by part *)

\* what the other end says of an id, it says of a call it knows
LEMMA ControlIdsStay == ASSUME Sound, ControlIds, [Next]_vars, ~Reconnect PROVE ControlIds'
<1>0. /\ TypeOK /\ Ended /\ OwnCalls /\ GenuinePackets /\ GenuineEntries
      /\ QueuedOnce /\ IdsAscend
  BY DEF Sound, OrphanInv, CorrelationInv
<1>1. ASSUME NEW c \in Calls, id_of[c] \in Ids PROVE id_of'[c] = id_of[c]
  <2>1. ~Asks(c)
    BY <1>1, AskedFlow, Basics DEF Ids, NoId
  <2> QED
    BY <1>0, <2>1, IdFlow
<1>2. ASSUME NEW p \in Peers, NEW m, Speaks(p, m), m \in Packets
      PROVE  /\ m.kind \in {"NoResponse", "MalformedRequest"} =>
                   \E c \in Requests : id_of[c] = m.id /\ Callee(c) = p
             /\ m.kind = "StreamClosed" => \E c \in Streams : id_of[c] = m.id
  <2>1. ASSUME NEW id \in Ids, ToSendUser(p, id), m = Said(p, id)
        PROVE  LET c == waiting_on_user[p][id] IN
               /\ c \in Calls /\ id_of[c] = m.id /\ Prod(c) = p
               /\ IsRequest(c) => m.kind \in {"NoResponse", "Response"}
               /\ ~IsRequest(c) => m.kind \in {"StreamClosed", "Stream"}
    <3> DEFINE c == waiting_on_user[p][id]
    <3>1. c \in Calls
      BY <1>0, <2>1, TablesType DEF ToSendUser
    <3>2. id_of[c] = id /\ Prod(c) = p
      BY <3>1, ServedAt
    <3> QED
      BY <2>1, <3>1, <3>2, SaidKinds
  <2>2. CASE RecvMalformed(p) /\ Arriving(p).kind \in RequestKinds
             /\ m = Control(Complaint(Arriving(p).kind), Arriving(p).id)
    <3> DEFINE c == Arriving(p).call
    <3>1. Genuine(Other(p), Arriving(p)) /\ Arriving(p) \in Packets
      BY <1>0, <2>2, Hears, FirstGenuine DEF RecvMalformed, Arrives, Arriving, RequestKinds
    <3>2. /\ c \in Calls /\ id_of[c] = m.id /\ CallerOf[c] = Other(p)
          /\ IsRequest(c) <=> Arriving(p).kind = "Request"
      BY <2>2, <3>1 DEF Genuine, Packets, BodyKinds, Control, Packet, IsRequest
    <3>3. Callee(c) = p
      BY <3>2, TwoPeers DEF Callee
    <3>4. /\ IsRequest(c) => m.kind = "MalformedRequest"
          /\ ~IsRequest(c) => m.kind = "StreamClosed"
      BY <2>2, <3>2 DEF Complaint, Control, Packet
    <3> QED
      BY <3>2, <3>3, <3>4 DEF Requests, Streams
  <2>3. CASE RecvStream(p) /\ m = Control("StreamClosed", Arriving(p).id)
    <3>1. Arrived(p) # <<>> /\ Arriving(p).kind = "Stream" /\ m.kind = "StreamClosed"
          /\ m.id = Arriving(p).id
      BY <2>3 DEF RecvStream, Accepts, Arrives, Arriving, Control, Packet
    <3>2. Genuine(Other(p), Arriving(p)) /\ Arriving(p) \in Packets
      BY <1>0, <3>1, FirstGenuine, FirstArrived DEF Arriving, TypeOK
    <3>3. Arriving(p).call \in Streams /\ id_of[Arriving(p).call] = m.id
      BY <3>1, <3>2 DEF Genuine, Packets, BodyKinds, Streams, Requests
    <3> QED
      BY <3>1, <3>3
  <2>4. CASE DeliverMessage(p) /\ m = Control("StreamClosed", task[p].packet.id)
    <3> DEFINE d == task[p].packet
    <3>1. task[p].at = "deliver" /\ d.kind = "Stream" /\ m.kind = "StreamClosed" /\ m.id = d.id
      BY <2>4 DEF DeliverMessage, Delivering, Control, Packet
    <3>2. d \in Packets /\ Genuine(Other(p), d)
      BY <1>0, <3>1, WayType DEF GenuinePackets
    <3>3. d.call \in Streams /\ id_of[d.call] = m.id
      BY <3>1, <3>2 DEF Genuine, Packets, BodyKinds, Streams, Requests
    <3> QED
      BY <3>1, <3>3
  <2>5. CASE ToSendRequest(p) /\ m = Packet(KindOf[Asking(p)], next[p], Asking(p), 0)
    <3>1. m.kind \in RequestKinds
      BY <1>0, <2>5, CallEntries, Basics DEF Packet
    <3> QED
      BY <3>1 DEF RequestKinds
  <2>6. ASSUME NEW id \in Ids, ToSendUser(p, id), m = Said(p, id)
        PROVE  /\ m.kind \in {"NoResponse", "MalformedRequest"} =>
                     \E c \in Requests : id_of[c] = m.id /\ Callee(c) = p
               /\ m.kind = "StreamClosed" => \E c \in Streams : id_of[c] = m.id
    <3> DEFINE c == waiting_on_user[p][id]
    <3>1. /\ c \in Calls /\ id_of[c] = m.id /\ Prod(c) = p
          /\ IsRequest(c) => m.kind \in {"NoResponse", "Response"}
          /\ ~IsRequest(c) => m.kind \in {"StreamClosed", "Stream"}
      BY <2>1, <2>6
    <3> HIDE DEF c
    <3> QED
      BY <3>1, TwoEnds DEF Requests, Streams
  <2> QED
    BY <1>0, <1>2, <2>2, <2>3, <2>4, <2>5, <2>6, Sayings DEF Control, Packet
<1>3. ASSUME NEW p \in Peers, NEW i \in 1 .. Len(OnTheWay(p)'), NEW m, m = OnTheWay(p)'[i]
      PROVE  /\ m \in Packets
             /\ m.kind \in {"NoResponse", "MalformedRequest"} =>
                   \E c \in Requests : id_of[c] = m.id /\ Callee(c) = p
             /\ m.kind = "StreamClosed" => \E c \in Streams : id_of[c] = m.id
  <2>1. Has(OnTheWay(p)', {m})
    BY <1>3 DEF Has
  <2>2. Has(OnTheWay(p), {m}) \/ Speaks(p, m)
    BY <1>0, <2>1, WayHas
  <2>3. CASE Has(OnTheWay(p), {m})
    BY <1>0, <2>3, GenuineWay DEF Has, ControlIds
  <2>4. CASE Speaks(p, m)
    <3>1. m \in Packets
      BY <2>4 DEF Speaks
    <3> QED
      BY <1>2, <2>4, <3>1
  <2> QED
    BY <2>2, <2>3, <2>4
<1>4. ASSUME NEW p \in Peers, NEW i \in 1 .. Len(OnTheWay(p)')
      PROVE  LET m == OnTheWay(p)'[i] IN
             /\ m.kind \in {"NoResponse", "MalformedRequest"} =>
                   \E c \in Requests : id_of'[c] = m.id /\ Callee(c) = p
             /\ m.kind = "StreamClosed" => \E c \in Streams : id_of'[c] = m.id
  <2>1. PICK m : m = OnTheWay(p)'[i]
    OBVIOUS
  <2>2. m \in Packets /\ m.id \in Ids
    BY <1>3, <2>1 DEF Packets
  <2> QED
    BY <1>1, <1>3, <2>1, <2>2 DEF Requests, Streams
<1> QED
  BY <1>4 DEF ControlIds, Requests, Streams, IsRequest, Callee

\* the other end gets to know a call when it takes its packet, which is gone then
LEMMA NotYet ==
    ASSUME Sound, [Next]_vars, ~Reconnect, NEW c \in Calls, AskedOnce(c), id_of'[c] = NoId \/ Asked(c)'
    PROVE  (id_of[c] = NoId \/ Asked(c)) /\ ~Gets(c) /\ ~Garbles(c)
<1>0. TypeOK /\ OwnCalls
  BY DEF Sound, OrphanInv
<1>1. NoId \notin Ids
  BY Basics DEF Ids, NoId
<1>2. CASE id_of'[c] = NoId
  <2>1. id_of[c] = NoId
    BY <1>0, <1>1, <1>2, IdFlow, AskedFlow
  <2>2. ~Asked(c)
    BY <2>1, AskedHasId
  <2> QED
    BY <2>1, <2>2, Heeded
<1>3. CASE Asked(c)'
  BY <1>3, AskedFlow, Heeded
<1> QED
  BY <1>2, <1>3

LEMMA AskedOnceStays ==
    ASSUME Sound, [Next]_vars, ~Reconnect, NEW c \in Calls, AskedOnce(c)
    PROVE  AskedOnce(c)'
<1>1. Once(OnTheWay(CallerOf[c])', AskFor(c))
  BY AskedFlow DEF AskedOnce
<1>2. ASSUME id_of'[c] = NoId \/ Asked(c)'
      PROVE  ~Served(c)' /\ ~IsHanded(c)' /\ c \notin CallsIn(waiting_on_stream'[Callee(c)])
  <2>1. (id_of[c] = NoId \/ Asked(c)) /\ ~Gets(c)
    BY <1>2, NotYet
  <2>2. ~Served(c) /\ ~IsHanded(c) /\ c \notin CallsIn(waiting_on_stream[Callee(c)])
    BY <2>1 DEF AskedOnce
  <2> QED
    BY <2>1, <2>2, ServedFlow, HandedFor
<1> QED
  BY <1>1, <1>2 DEF AskedOnce, Once, CallsIn, Callee

LEMMA GarblesOnly ==
    ASSUME TypeOK, NEW c \in Calls, Garbles(c) PROVE ~Gets(c)
<1> DEFINE q == Callee(c)
<1>1. Arriving(q).kind \in RequestKinds /\ q \in Peers
  BY TwoEnds DEF Garbles, AskFor
<1>2. \E m : Goto(q, "write", m)
  BY <1>1 DEF Garbles, RecvMalformed, Arriving, RequestKinds
<1>3. Gets(c) => \E m : Goto(q, "deliver", m)
  BY DEF Gets, RecvRequest
<1>4. \A at, m : Goto(q, at, m) => task'[q].at = at
  BY <1>1 DEF Goto, TypeOK, TaskTypeOK
<1> QED
  BY <1>2, <1>3, <1>4

\* a task that replies has forgotten the call
LEMMA Replied ==
    ASSUME Sound, NEW c \in Requests, Replies(c)
    PROVE  /\ Served(c) /\ ~Served(c)' /\ id_of' = id_of /\ tx' = tx /\ sent' = sent
           /\ Over(c) \/ up[c] # <<>>
           /\ Said(Callee(c), id_of[c]).kind = IF Over(c) THEN "NoResponse" ELSE "Response"
<1> DEFINE q == Callee(c)
           id == id_of[c]
<1>0. /\ c \in Calls /\ IsRequest(c) /\ q \in Peers /\ TypeOK /\ id \in Ids /\ c # NoCall
      /\ waiting_on_user[q][id] = c /\ ToSendUser(q, id)
  BY TwoEnds DEF Requests, Sound, Replies
<1>1. id_of' = id_of /\ tx' = tx /\ sent' = sent /\ (Over(c) \/ up[c] # <<>>)
  BY <1>0 DEF ToSendUser
<1>2. Said(q, id).kind = IF Over(c) THEN "NoResponse" ELSE "Response"
  BY <1>0, SaidKinds
<1>3. Served(c)
  BY <1>0 DEF Served, CallsIn
<1>4. waiting_on_user'[q] = [waiting_on_user[q] EXCEPT ![id] = NoCall]
  <2>1. waiting_on_user' = [waiting_on_user EXCEPT ![q][id] = NoCall]
    BY <1>0 DEF ToSendUser, Removed, Put
  <2> QED
    BY <1>0, <2>1, TablesType
<1>5. ASSUME NEW i \in Ids, waiting_on_user'[q][i] = c PROVE FALSE
  <2>1. i # id /\ waiting_on_user[q][i] = c
    BY <1>0, <1>4, <1>5, TablesType
  <2> QED
    BY <1>0, <2>1, ServedAt
<1> QED
  BY <1>1, <1>2, <1>3, <1>5 DEF Served, CallsIn, Callee

LEMMA OnePlaceStays ==
    ASSUME Sound, ControlIds, [Next]_vars, ~Reconnect, NEW c \in Requests, AskedOnce(c), OnePlace(c)
    PROVE  OnePlace(c)'
<1>0. c \in Calls /\ TypeOK
  BY DEF Requests, Sound
<1>1. Replies(c) \/ Garbles(c) => ~Answered(c, AnswerKinds)
  BY <1>0, Replied, Heeded DEF OnePlace
<1>2. Once(OnTheWay(Callee(c))', With(id_of'[c], AnswerKinds))
  BY <1>1, AnswerFlow DEF OnePlace
<1>3. ASSUME Asked(c)' \/ Served(c)', Answered(c, AnswerKinds)' PROVE FALSE
  <2>1. /\ id_of'[c] = id_of[c] /\ id_of[c] \in Ids
        /\ Answered(c, AnswerKinds) \/ Replies(c) \/ Garbles(c)
    BY <1>3, AnswerFlow
  <2>2. ~Asks(c)
    BY <1>0, <2>1, AskedFlow, Basics DEF Ids, NoId
  <2>3. Asked(c)' => Asked(c) /\ ~Gets(c) /\ ~Garbles(c)
    BY <1>0, <2>2, AskedFlow, NotYet
  <2>4. Served(c)' => Served(c) \/ Gets(c)
    BY <1>0, ServedFlow
  <2>5. CASE Answered(c, AnswerKinds)
    BY <1>0, <1>3, <2>3, <2>4, <2>5, Heeded DEF OnePlace
  <2>6. CASE Replies(c)
    BY <1>0, <1>3, <2>3, <2>6, Replied DEF AskedOnce
  <2>7. CASE Garbles(c)
    BY <1>0, <1>3, <2>3, <2>4, <2>7, Heeded, GarblesOnly DEF AskedOnce
  <2> QED
    BY <2>1, <2>5, <2>6, <2>7
<1> QED
  BY <1>2, <1>3 DEF OnePlace, Once, Callee

LEMMA UnheardStays ==
    ASSUME Sound, [Next]_vars, ~Reconnect, NEW c \in Requests, Once(Handed(Callee(c)), {c}),
           Unheard(c), ~Gets(c), ~Served(c)
    PROVE  Unheard(c)'
<1>0. c \in Calls /\ TypeOK
  BY DEF Requests, Sound
<1>1. ~IsHanded(c)'
  BY <1>0, HandedFor DEF Unheard
<1>2. tx'[c] = "none"
  BY <1>0, ResponderFlow DEF Unheard
<1>3. sent'[c] = 0 /\ up'[c] = <<>>
  BY <1>0, SentFlow, Replied DEF Unheard, Answer
<1>4. ~shut'[c]
  BY ShutFlow, <1>0 DEF Unheard, TypeOK, CallTypeOK
<1> QED
  BY <1>1, <1>2, <1>3, <1>4 DEF Unheard

\* what a responder has sent is in the hands of its task, which serves the call
LEMMA HandleOfStays ==
    ASSUME Sound, [Next]_vars, ~Reconnect, NEW c \in Requests, AskedOnce(c), HandleOf(c)
    PROVE  HandleOf(c)'
<1> DEFINE q == Callee(c)
<1>0. /\ c \in Calls /\ IsRequest(c) /\ Prod(c) = q /\ q \in Peers /\ CallerOf[c] # q
      /\ TypeOK /\ OwnCalls /\ NoOrphan
      /\ sent \in [Calls -> 0 .. MaxMsgs] /\ up[c] \in Seq(1 .. MaxMsgs)
  BY TwoEnds DEF Requests, Sound, OrphanInv, TypeOK, CallTypeOK
<1>1. ASSUME id_of'[c] = NoId \/ Asked(c)' PROVE Unheard(c)'
  <2>1. Unheard(c) /\ ~Gets(c) /\ ~Served(c)
    BY <1>0, <1>1, NotYet DEF HandleOf, AskedOnce
  <2> QED
    BY <2>1, UnheardStays DEF HandleOf
<1>2. Gets(c) => Asked(c) /\ Unheard(c) /\ UNCHANGED <<tx, up, sent>>
  BY <1>0, Heeded DEF HandleOf, Gets, RecvRequest, callVars, handleVars, prodVars
<1>3. Once(Handed(q)', {c})
  BY <1>0, <1>2, HandedFor DEF HandleOf, Unheard
<1>4. ASSUME IsHanded(c)' PROVE tx'[c] = "none"
  <2>1. IsHanded(c) \/ Gets(c)
    BY <1>0, <1>4, HandedFor
  <2>2. tx[c] = "none"
    BY <1>2, <2>1 DEF HandleOf, Unheard
  <2> QED
    BY <1>4, <2>2, ResponderFlow DEF HandleOf
<1>5. sent'[c] <= 1
  BY <1>0, SentFlow DEF HandleOf, Answer
<1>6. ASSUME tx'[c] # "dropped" PROVE sent'[c] = 0
  <2>1. tx[c] # "dropped"
    BY <1>6, ResponderFlow DEF HandleOf
  <2>2. ~Answer(c)
    BY <1>0, <1>6 DEF Answer, TypeOK, CallTypeOK
  <2> QED
    BY <2>1, <2>2, SentFlow DEF HandleOf
<1>7. ASSUME Answer(c)
      PROVE  /\ sent[c] = 0 /\ UNCHANGED <<waiting_on_user, shut>>
             /\ IF shut[c] THEN up'[c] = up[c] /\ sent'[c] = sent[c] /\ UNCHANGED shut
                ELSE up'[c] = <<1>> /\ sent'[c] = 1
  BY <1>0, <1>7 DEF Answer, HandleOf, peerVars, TypeOK, CallTypeOK
<1>8. ASSUME Served(c)' PROVE Len(up'[c]) = sent'[c]
  <2>1. Served(c) \/ Gets(c)
    BY <1>0, <1>8, ServedFlow
  <2>2. CASE Gets(c)
    BY <1>2, <2>2 DEF Unheard
  <2>3. CASE Served(c)
    <3>1. Len(up[c]) = sent[c]
      BY <2>3 DEF HandleOf
    <3>2. ~Replies(c)
      BY <1>8, Replied
    <3>3. DropHandler(q) => ~Served(c)'
      <4>1. DropHandler(q) => waiting_on_user'[q] = EmptyTable
        BY <1>0, TablesType DEF DropHandler
      <4> QED
        BY <1>0, <4>1, TwoEnds DEF Served, CallsIn, EmptyTable, Callee
    <3> QED
      BY <1>7, <1>8, <3>1, <3>2, <3>3, SentFlow
  <2> QED
    BY <2>1, <2>2, <2>3
<1>9. ASSUME up'[c] # <<>> PROVE Served(c)'
  <2>1. CASE Answer(c) /\ ~shut[c]
    <3>1. c \in CallsIn(waiting_on_user[q]) \cup CallsOf(rx_requests[q])
      BY <1>0, <2>1 DEF NoOrphan, Answer
    <3>2. c \notin CallsOf(rx_requests[q])
      BY <1>0 DEF OwnCalls
    <3> QED
      BY <1>7, <2>1, <3>1, <3>2 DEF Served, CallsIn, Callee
  <2>2. CASE ~(Answer(c) /\ ~shut[c])
    <3>1. ~Replies(c)
      <4>1. ASSUME Replies(c), ~Over(c) PROVE Tail(up[c]) = <<>>
        <5>1. Len(up[c]) <= 1 /\ up[c] # <<>>
          BY <1>0, <4>1, Replied DEF HandleOf
        <5> QED
          BY <1>0, <5>1
      <4>2. ASSUME Replies(c) PROVE up'[c] = IF Over(c) THEN <<>> ELSE Tail(up[c])
        BY <1>0, <4>2 DEF Replies, ToSendUser, Taken, TypeOK, CallTypeOK
      <4> QED
        BY <1>9, <4>1, <4>2
    <3>2. up[c] # <<>> /\ ~(DropHandler(q) /\ up'[c] = <<>>)
      BY <1>7, <1>9, <2>2, <3>1, SentFlow
    <3>3. Served(c)
      BY <3>2 DEF HandleOf
    <3>4. DropHandler(q) => up'[c] = <<>>
      BY <1>0, <3>3 DEF DropHandler, Served
    <3> QED
      BY <1>0, <1>9, <3>1, <3>3, <3>4, ServedFlow
  <2> QED
    BY <2>1, <2>2
<1> QED
  BY <1>1, <1>3, <1>4, <1>5, <1>6, <1>8, <1>9 DEF HandleOf, Once, Callee

LEMMA PastStays ==
    ASSUME Sound, [Next]_vars, ~Reconnect, NEW c \in Calls, AskedOnce(c), Past(c) PROVE Past(c)' /\ ~Gets(c)
<1>0. TypeOK /\ OwnCalls
  BY DEF Sound, OrphanInv
<1>1. ~Gets(c) /\ ~Asks(c)
  BY Heeded, AskedFlow DEF Past
<1>2. id_of'[c] = id_of[c]
  BY <1>0, <1>1, IdFlow
<1> QED
  BY <1>1, <1>2, AskedFlow, ServedFlow DEF Past

\* whose responder can say no more has nothing to say
LEMMA SilentStays ==
    ASSUME Sound, [Next]_vars, ~Reconnect, NEW c \in Requests, AskedOnce(c), HandleOf(c),
           Past(c), sent[c] = 0, tx[c] = "dropped" \/ shut[c]
    PROVE  Past(c)' /\ sent'[c] = 0 /\ (tx'[c] = "dropped" \/ shut'[c])
<1>0. c \in Calls /\ TypeOK
  BY DEF Requests, Sound
<1>1. Past(c)'
  BY <1>0, PastStays
<1>2. sent'[c] = 0
  BY <1>0, SentFlow DEF Answer, TypeOK, CallTypeOK
<1>3. tx[c] = "dropped" => tx'[c] = "dropped"
  BY ResponderFlow DEF HandleOf
<1>4. shut[c] => shut'[c]
  BY <1>0, ShutStays
<1> QED
  BY <1>1, <1>2, <1>3, <1>4

LEMMA QueuedBy ==
    ASSUME TypeOK, [Next]_vars, NEW p \in Peers, NEW c \in CallsOf(rx_requests'[p])
    PROVE  c \in CallsOf(rx_requests[p]) \/ StartCall(c)
<1> DEFINE old == rx_requests[p]
           new == rx_requests'[p]
<1>1. PICK i \in 1 .. Len(new) : new[i] = c
  BY DEF CallsOf
<1>2. old \in Seq(Calls \cup {Enable}) /\ c \in Calls /\ c # Enable
  BY QueueType, Basics DEF CallsOf
<1>3. QueueOf(p)
  BY QueueFlow
<1>4. (\E j \in 1 .. Len(old) : old[j] = c) => c \in CallsOf(old)
  BY <1>2 DEF CallsOf
<1>5. CASE new = old \/ new = <<>>
  BY <1>1, <1>4, <1>5
<1>6. CASE old # <<>> /\ new = Tail(old)
  <2> HIDE DEF old, new
  <2>1. \A j \in 1 .. Len(new) : j + 1 \in 1 .. Len(old) /\ new[j] = old[j + 1]
    BY <1>2, <1>6, TailOf
  <2> QED
    BY <1>1, <1>4, <2>1 DEF old
<1>7. ASSUME NEW x \in Calls \cup {Enable}, new = Append(old, x), x = Enable \/ StartCall(x)
      PROVE  c \in CallsOf(old) \/ StartCall(c)
  <2> HIDE DEF old, new
  <2>1. /\ \A j \in 1 .. Len(old) : new[j] = old[j]
        /\ new[Len(old) + 1] = x /\ (i \in 1 .. Len(old) \/ i = Len(old) + 1)
    BY <1>1, <1>2, <1>7, Appended
  <2> QED
    BY <1>1, <1>2, <1>4, <1>7, <2>1
<1> QED
  BY <1>3, <1>5, <1>6, <1>7 DEF QueueOf

LEMMA MeaningStays ==
    ASSUME Sound, ControlIds, [Next]_vars, ~Reconnect, NEW c \in Requests,
           AskedOnce(c), HandleOf(c), Meaning(c)
    PROVE  Meaning(c)'
<1>0. /\ c \in Calls /\ IsRequest(c) /\ TypeOK /\ OwnCalls
      /\ sent \in [Calls -> 0 .. MaxMsgs] /\ up[c] \in Seq(1 .. MaxMsgs)
  BY DEF Requests, Sound, OrphanInv, TypeOK, CallTypeOK
<1>1. ASSUME Replies(c), id_of'[c] = id_of[c]
      PROVE  /\ Past(c)' /\ sent'[c] = sent[c] /\ Len(up[c]) = sent[c]
             /\ tx'[c] = tx[c] /\ (shut[c] => shut'[c])
  <2>1. id_of[c] # NoId /\ Served(c) /\ ~Served(c)' /\ tx'[c] = tx[c] /\ sent'[c] = sent[c]
    BY <1>1, Replied, Basics DEF Replies, Ids, NoId
  <2>2. ~Asked(c) /\ ~Asks(c)
    BY <1>0, <2>1, AskedFlow DEF AskedOnce
  <2>3. ~Asked(c)'
    BY <1>0, <2>2, AskedFlow
  <2> QED
    BY <1>0, <1>1, <2>1, <2>3, ShutStays DEF Past, HandleOf
<1>2. ASSUME Garbles(c), id_of'[c] = id_of[c] PROVE Past(c)' /\ Unheard(c)'
  <2>1. Asked(c) /\ ~Asked(c)' /\ ~Gets(c) /\ id_of[c] # NoId
    BY <1>0, <1>2, Heeded, AskedHasId, GarblesOnly
  <2>2. ~Served(c)' /\ Unheard(c) /\ ~Served(c)
    BY <1>0, <2>1, ServedFlow DEF AskedOnce, HandleOf
  <2> QED
    BY <1>2, <2>1, <2>2, UnheardStays DEF Past, HandleOf
<1>3. /\ {"NoResponse"} \in SUBSET AnswerKinds /\ {"MalformedRequest"} \in SUBSET AnswerKinds
      /\ {"Response"} \in SUBSET AnswerKinds
  BY DEF AnswerKinds
<1>4. ASSUME Answered(c, {"NoResponse"})' \/ res'[c] = "NoResponse"
      PROVE  Past(c)' /\ sent'[c] = 0 /\ (tx'[c] = "dropped" \/ shut'[c])
  <2>1. CASE Answered(c, {"NoResponse"}) \/ res[c] = "NoResponse"
    BY <2>1, SilentStays DEF Meaning
  <2>2. CASE ~Answered(c, {"NoResponse"}) /\ res[c] # "NoResponse"
    <3>1. Answered(c, {"NoResponse"})'
      BY <1>4, <2>2, OutcomeSaid
    <3>2. /\ id_of'[c] = id_of[c] /\ Replies(c)
          /\ Said(Callee(c), id_of[c]).kind = "NoResponse"
      BY <1>3, <2>2, <3>1, AnswerFlow
    <3>3. Over(c)
      BY <3>2, Replied
    <3> QED
      BY <1>0, <1>1, <3>2, <3>3 DEF Over
  <2> QED
    BY <2>1, <2>2
<1>5. ASSUME Answered(c, {"MalformedRequest"})' \/ res'[c] = "MalformedRequest"
      PROVE  Past(c)' /\ Unheard(c)'
  <2>1. CASE Answered(c, {"MalformedRequest"}) \/ res[c] = "MalformedRequest"
    <3>1. Past(c) /\ Unheard(c)
      BY <2>1 DEF Meaning
    <3> QED
      BY <1>0, <3>1, PastStays, UnheardStays DEF HandleOf, Past
  <2>2. CASE ~Answered(c, {"MalformedRequest"}) /\ res[c] # "MalformedRequest"
    <3>1. Answered(c, {"MalformedRequest"})'
      BY <1>5, <2>2, OutcomeSaid
    <3>2. /\ id_of'[c] = id_of[c]
          /\ \/ Replies(c) /\ Said(Callee(c), id_of[c]).kind = "MalformedRequest"
             \/ Garbles(c)
      BY <1>3, <2>2, <3>1, AnswerFlow
    <3> QED
      BY <1>2, <3>2, Replied
  <2> QED
    BY <2>1, <2>2
<1>6. ASSUME Answered(c, {"Response"})' PROVE sent'[c] = 1
  <2>1. CASE Answered(c, {"Response"})
    <3>1. sent[c] = 1
      BY <2>1 DEF Meaning
    <3>2. ~Answer(c)
      BY <1>0, <3>1 DEF HandleOf, Answer
    <3> QED
      BY <3>1, <3>2, SentFlow
  <2>2. CASE ~Answered(c, {"Response"})
    <3>1. id_of'[c] = id_of[c] /\ Replies(c) /\ Said(Callee(c), id_of[c]).kind = "Response"
      BY <1>3, <1>6, <2>2, AnswerFlow
    <3>2. up[c] # <<>>
      BY <3>1, Replied
    <3>3. Len(up[c]) = sent[c] /\ sent'[c] = sent[c] /\ sent[c] <= 1
      BY <1>1, <3>1 DEF HandleOf
    <3> QED
      BY <1>0, <3>2, <3>3
  <2> QED
    BY <2>1, <2>2
<1>7. ASSUME res'[c] \in {"idle", "AlreadyClosed"}
      PROVE  id_of'[c] = NoId /\ c \notin CallsOf(rx_requests'[CallerOf[c]])
  <2>1. res[c] \in {"idle", "AlreadyClosed"} /\ ~StartCall(c)
    <3>1. StartCall(c) => res'[c] = "pending"
      BY <1>0 DEF StartCall, TypeOK, CallTypeOK
    <3> QED
      BY <1>0, <1>7, <3>1, OutcomeFlow
  <2>2. id_of[c] = NoId /\ c \notin CallsOf(rx_requests[CallerOf[c]])
    BY <2>1 DEF Meaning
  <2>3. id_of'[c] = NoId
    BY <1>0, <2>2, IdFlow, AskedFlow
  <2>4. c \notin CallsOf(rx_requests'[CallerOf[c]])
    BY <1>0, <2>1, <2>2, QueuedBy, TwoEnds
  <2> QED
    BY <2>3, <2>4
<1> QED
  BY <1>4, <1>5, <1>6, <1>7 DEF Meaning, CallsOf

LEMMA RequestStep ==
    ASSUME Sound, RequestInv, [Next]_vars, ~Reconnect PROVE RequestInv'
<1>1. ControlIds'
  BY ControlIdsStay DEF RequestInv
<1>2. ASSUME NEW c \in Calls PROVE AskedOnce(c)'
  BY AskedOnceStays DEF RequestInv
<1>3. ASSUME NEW c \in Requests PROVE OnePlace(c)' /\ HandleOf(c)' /\ Meaning(c)'
  <2>1. AskedOnce(c) /\ OnePlace(c) /\ HandleOf(c) /\ Meaning(c) /\ ControlIds
    BY DEF RequestInv, Requests
  <2> QED
    BY <2>1, OnePlaceStays, HandleOfStays, MeaningStays
<1> QED
  BY <1>1, <1>2, <1>3 DEF RequestInv, Requests, IsRequest

LEMMA RequestInit == ASSUME Init PROVE RequestInv
<1>1. ASSUME NEW p \in Peers
      PROVE  OnTheWay(p) = <<>> /\ Handed(p) = <<>> /\ rx_requests[p] = <<>>
  <2>1. task[p].at = "select" /\ link[p] = <<>> /\ tx_requests[p] = <<>>
    BY DEF Init, Idle
  <2> QED
    BY <2>1 DEF Init, OnTheWay, InHand, Writing, Handed, Delivering
<1>2. ASSUME NEW p \in Peers PROVE waiting_on_user[p] = EmptyTable /\ waiting_on_stream[p] = EmptyTable
  BY DEF Init
<1>3. \A c \in Calls : c \notin CallsIn(EmptyTable)
  BY Basics DEF CallsIn, EmptyTable
<1>4. ASSUME NEW c \in Calls
      PROVE  /\ id_of[c] = NoId /\ res[c] = "idle" /\ tx[c] = "none" /\ sent[c] = 0 /\ up[c] = <<>>
         /\ ~shut[c]
  BY DEF Init
<1>5. ASSUME NEW X PROVE ~Has(<<>>, X) /\ Once(<<>>, X)
  BY DEF Has, Once
<1>6. ControlIds
  BY <1>1 DEF ControlIds
<1>7. ASSUME NEW c \in Calls PROVE AskedOnce(c)
  BY <1>1, <1>2, <1>3, <1>5, TwoEnds DEF AskedOnce, Asked, IsHanded, Served
<1>8. ASSUME NEW c \in Requests PROVE OnePlace(c) /\ HandleOf(c) /\ Meaning(c)
  <2>1. c \in Calls
    BY DEF Requests
  <2>2. \A X : ~Answered(c, X)
    BY <1>1, <1>5, <2>1, TwoEnds DEF Answered
  <2>3. OnePlace(c)
    BY <1>1, <1>5, <2>1, <2>2, TwoEnds DEF OnePlace
  <2>4. HandleOf(c)
    BY <1>1, <1>2, <1>3, <1>4, <1>5, <2>1, TwoEnds DEF HandleOf, Unheard, IsHanded, Served
  <2>5. Meaning(c)
    BY <1>1, <1>4, <2>1, <2>2, TwoEnds DEF Meaning, CallsOf
  <2> QED
    BY <2>3, <2>4, <2>5
<1> QED
  BY <1>6, <1>7, <1>8 DEF RequestInv

\* a Request of the old byte stream has failed, or was answered, and is nowhere
LEMMA NewRequests ==
    ASSUME Sound, RequestInv, Reconnect, Clean PROVE RequestInv'
<1>0. /\ TypeOK /\ Ended /\ Dropped
      /\ \A p \in Peers : /\ OnTheWay(p)' = <<>>
                          /\ Handed(p)' = Handed(p) \/ Handed(p)' = <<>>
                          /\ waiting_on_stream'[p] = EmptyTable
                          /\ waiting_on_user'[p] = EmptyTable /\ waiting_on_user[p] = EmptyTable
      /\ rx_requests' = rx_requests /\ \A c \in Calls : id_of[c] = NoId <=> id_of'[c] = NoId
  BY NewStream DEF Sound, OrphanInv
<1>1. \A c \in Calls : c \notin CallsIn(EmptyTable)
  BY Basics DEF CallsIn, EmptyTable
<1>2. \A X : ~Has(<<>>, X) /\ Once(<<>>, X)
  BY DEF Has, Once
<1>3. ASSUME NEW c \in Calls
      PROVE  /\ ~Asked(c)' /\ ~Served(c)' /\ ~Served(c) /\ \A X : ~Answered(c, X)'
             /\ Once(OnTheWay(CallerOf[c])', AskFor(c)) /\ \A X : Once(OnTheWay(Callee(c))', X)
             /\ c \notin CallsIn(waiting_on_stream'[Callee(c)])
             /\ IsHanded(c)' => IsHanded(c)
             /\ Once(Handed(Callee(c)), {c}) => Once(Handed(Callee(c))', {c})
  <2>1. /\ CallerOf[c] \in Peers /\ Callee(c) \in Peers /\ Callee(c)' = Callee(c)
        /\ \A id, X : With(id, X)' = With(id, X)
    BY TwoEnds DEF Callee
  <2>2. /\ OnTheWay(CallerOf[c])' = <<>> /\ OnTheWay(Callee(c))' = <<>>
        /\ Handed(Callee(c))' = Handed(Callee(c)) \/ Handed(Callee(c))' = <<>>
    BY <1>0, <2>1
  <2>3. ~Asked(c)' /\ (\A X : ~Answered(c, X)')
    BY <1>2, <2>1, <2>2 DEF Asked, Answered
  <2>4. ~Served(c)' /\ ~Served(c) /\ c \notin CallsIn(waiting_on_stream'[Callee(c)])
    BY <1>0, <1>1, <2>1 DEF Served
  <2> QED
    BY <1>2, <2>1, <2>2, <2>3, <2>4 DEF IsHanded
<1>4. ControlIds'
  BY <1>0 DEF ControlIds
<1>5. ASSUME NEW c \in Calls PROVE AskedOnce(c)'
  <2>1. AskedOnce(c) /\ (id_of'[c] = NoId => id_of[c] = NoId)
    BY <1>0 DEF RequestInv
  <2> QED
    BY <1>3, <2>1 DEF AskedOnce, Callee
<1>6. ASSUME NEW c \in Requests PROVE OnePlace(c)' /\ HandleOf(c)' /\ Meaning(c)'
  <2>1. /\ c \in Calls /\ OnePlace(c) /\ HandleOf(c) /\ Meaning(c)
        /\ IsRequest(c) /\ Prod(c) = Callee(c) /\ Cons(c) = CallerOf[c] /\ Cons(c) # Prod(c)
        /\ id_of[c] = NoId <=> id_of'[c] = NoId
    BY <1>0, TwoEnds DEF RequestInv, Requests
  <2>2. /\ res'[c] = res[c] \/ (res[c] = "pending" /\ res'[c] = "TaskFailed")
        /\ shut'[c] = shut[c] /\ UNCHANGED <<up, sent, down, got>>
        /\ tx'[c] = tx[c] \/ (tx'[c] = "dropped" /\ Prod(c) = "server"
                                /\ c \in CallsOf(Handed("server")))
        /\ Handed("server")' = <<>>
    BY <1>0, <2>1, ReconnectedCalls
  <2>3. c \in CallsOf(Handed("server")) /\ Prod(c) = "server" => IsHanded(c)
    BY <2>1 DEF CallsOf, IsHanded, Has
  <2>4. Prod(c) = "server" => ~IsHanded(c)'
    BY <1>2, <2>1, <2>2 DEF IsHanded, Callee
  <2>5. OnePlace(c)'
    BY <1>3, <2>1 DEF OnePlace, Callee
  <2>6. Unheard(c) => Unheard(c)'
    BY <1>3, <2>1, <2>2, <2>3 DEF Unheard
  <2>7. up[c] = <<>>
    BY <1>3, <2>1 DEF HandleOf
  <2>8. HandleOf(c)'
    <3>1. id_of'[c] = NoId \/ Asked(c)' => Unheard(c)'
      BY <1>3, <2>1, <2>6 DEF HandleOf
    <3>2. IsHanded(c)' => tx'[c] = "none"
      BY <1>3, <2>1, <2>2, <2>4 DEF HandleOf
    <3>3. Once(Handed(Callee(c)), {c})'
      BY <1>3, <2>1 DEF HandleOf, Callee
    <3>4. sent'[c] <= 1 /\ (tx'[c] # "dropped" => sent'[c] = 0)
      BY <2>1, <2>2 DEF HandleOf
    <3> QED
      BY <1>3, <2>1, <2>2, <2>7, <3>1, <3>2, <3>3, <3>4 DEF HandleOf
  <2>9. Meaning(c)'
    <3>1. Past(c) => Past(c)'
      BY <1>3, <2>1 DEF Past
    <3>2. c \in CallsOf(rx_requests[CallerOf[c]])' => c \in CallsOf(rx_requests[CallerOf[c]])
      BY <1>0
    <3> QED
      BY <1>3, <2>1, <2>2, <2>6, <3>1, <3>2 DEF Meaning
  <2> QED
    BY <2>5, <2>8, <2>9
<1> QED
  BY <1>4, <1>5, <1>6 DEF RequestInv, Requests, IsRequest

LEMMA CleanOne ==
    ASSUME Sound, [Reconnect => Clean]_vars, Reconnect PROVE Clean
<1>1. reconnects \in Nat /\ reconnects' = reconnects + 1
  BY Basics DEF Sound, TypeOK, LinkTypeOK, Reconnect
<1>2. reconnects' # reconnects
  BY <1>1
<1> QED
  BY <1>2 DEF vars, linkVars

\* Where there are no reconnections (bg_stream is run once, handler.rs 738-760), none is unclean.
LEMMA NoReconnects == MaxReconnects = 0 => (Spec => CleanReconnects)
<1> SUFFICES ASSUME MaxReconnects = 0 PROVE Spec => CleanReconnects
  OBVIOUS
<1>1. TypeOK /\ [Next]_vars => [Reconnect => Clean]_vars
  BY DEF TypeOK, LinkTypeOK, Reconnect
<1> QED
  BY <1>1, TypeCorrect, PTL DEF Spec, CleanReconnects

LEMMA SoundAlways == Spec /\ CleanReconnects => []Sound
<1>1. Init => Sound
  BY InitType, OrphanInit, InitCorr DEF Sound, Init, Dropped
<1>2. Sound /\ [Next]_vars /\ [Reconnect => Clean]_vars => Sound'
  BY SoundStep, CleanOne, NewStream
<1> QED
  BY <1>1, <1>2, PTL DEF Spec, CleanReconnects

\* Every id stands for one call of its side and of its byte stream, wherever it is
\* written: in packets, in both tables, in the counters and in the queues.  The ids of
\* the calls that an earlier byte stream has left are in none of them.
THEOREM IdsGenuine == Spec /\ CleanReconnects => []CorrelationInv
<1>1. Sound => CorrelationInv
  BY DEF Sound
<1> QED
  BY <1>1, SoundAlways, PTL

\* A body reaches only the user of the call it is meant for, whatever the calls, the
\* capacities and U32_MID, while the ids of the two ends are apart.
THEOREM Correlated == Spec /\ CleanReconnects => []CorrelationApart
<1>1. CorrelationInv => CorrelationApart
  BY DEF CorrelationInv
<1> QED
  BY <1>1, IdsGenuine, PTL

\* For all parameters, a Request is on its way to the other end, in waiting_on_user or on
\* its way back, never in two of them and never twice in one; its ResponseSender exists
\* once, and the packet that answers it says what became of it (Handler::send and to_send,
\* handler.rs 115-170, 390-480), also when byte streams fail and the client opens others.
THEOREM RequestInvHolds == Spec /\ CleanReconnects => []RequestInv
<1>1. Init => RequestInv
  BY RequestInit
<1>2. Sound /\ RequestInv /\ [Next]_vars /\ [Reconnect => Clean]_vars => RequestInv'
  BY RequestStep, CleanOne, NewRequests
<1> QED
  BY <1>1, <1>2, SoundAlways, PTL DEF Spec, CleanReconnects

\* The ids of the two ends being apart, an id is in use at an end for one call only, in
\* one of its two tables: neither end gives an id that it has taken for the other's.
THEOREM UsedOnce == Spec /\ CleanReconnects => [](IdsApart => IdUsedOnce)
<1>1. Sound => (IdsApart => IdUsedOnce)
  <2> SUFFICES ASSUME Sound, IdsApart, NEW p \in Peers, NEW i \in Ids,
                      waiting_on_stream[p][i] # NoCall, waiting_on_user[p][i] # NoCall
               PROVE  FALSE
    BY DEF IdUsedOnce, Sound, CorrelationInv
  <2> DEFINE c == waiting_on_stream[p][i]
             d == waiting_on_user[p][i]
  <2>1. TypeOK /\ IdsAscend /\ c \in Calls /\ d \in Calls
    BY TablesType DEF Sound, CorrelationInv
  <2>2. id_of[c] = i /\ Cons(c) = p /\ id_of[d] = i /\ Prod(d) = p
    BY DEF Sound, CorrelationInv, GenuineEntries
  <2> HIDE DEF c, d
  <2>3. c = d
    BY <2>1, <2>2, SameCall
  <2> QED
    BY <2>1, <2>2, <2>3, TwoEnds DEF Prod, Cons, Other, Peers
<1> QED
  BY <1>1, SoundAlways, PTL

-----------------------------------------------------------------------------
(* A waiting Request is not forgotten *)

\* what an arm says is on its way
LEMMA SaidIsOnTheWay ==
    ASSUME TypeOK, NEW p \in Peers, NEW m \in Packets, Goto(p, "write", m), UNCHANGED result,
           result[p] = "running", task[p].at # "write", link'[p] = link[p], NEW X, m \in X
    PROVE  Has(OnTheWay(p)', X)
<1>1. OnTheWay(p)' = Append(OnTheWay(p), m) /\ OnTheWay(p) \in Seq(Packets)
  BY SaidWay, WayType DEF Says
<1>2. Has(Append(OnTheWay(p), m), X)
  BY <1>1, HasAppend
<1> QED
  BY <1>1, <1>2

LEMMA AsksIt ==
    ASSUME Sound, NEW c \in Calls, Asks(c) PROVE Asked(c)'
<1> DEFINE p == CallerOf[c]
           m == Packet(KindOf[c], next[p], c, 0)
<1>0. p \in Peers /\ TypeOK /\ ToSendRequest(p) /\ Asking(p) = c
  BY TwoEnds DEF Sound, Asks
<1>1. /\ Goto(p, "write", m) /\ UNCHANGED <<result, link>> /\ Selecting(p) /\ next[p] \in Ids
  BY <1>0, CallEntries DEF ToSendRequest, Asking, HasRequest, endVars, linkVars
<1>2. m \in Packets /\ m \in AskFor(c)
  BY <1>1, CallsAssumption, CapAssumption DEF Packets, Packet, AskFor, Kinds, BodyKinds
<1>3. Has(OnTheWay(p)', AskFor(c))
  BY <1>0, <1>1, <1>2, SaidIsOnTheWay DEF Selecting
<1> QED
  BY <1>3 DEF Asked, AskFor

LEMMA RepliesIt ==
    ASSUME Sound, NEW c \in Requests, Replies(c)
    PROVE  IF Over(c) THEN Answered(c, {"NoResponse"})' ELSE Answered(c, {"Response"})'
<1> DEFINE q == Callee(c)
           id == id_of[c]
           m == Said(q, id)
<1>0. /\ c \in Calls /\ IsRequest(c) /\ q \in Peers /\ TypeOK /\ id \in Ids
      /\ waiting_on_user[q][id] = c /\ ToSendUser(q, id)
  BY TwoEnds DEF Requests, Sound, Replies
<1>1. Goto(q, "write", m) /\ UNCHANGED <<result, link, id_of>> /\ Selecting(q)
  BY <1>0 DEF ToSendUser, Said, endVars, linkVars
<1>2. Over(c) \/ up[c] # <<>>
  BY Replied
<1>3. m = IF Over(c) THEN Control("NoResponse", id) ELSE Packet("Response", id, c, Head(up[c]))
  BY <1>0 DEF Said
<1>4. m \in Packets
  <2>1. Control("NoResponse", id) \in Packets
    BY <1>0, ControlType DEF Kinds, BodyKinds, RequestKinds
  <2>2. up[c] # <<>> => Packet("Response", id, c, Head(up[c])) \in Packets
    <3>1. up[c] \in Seq(1 .. MaxMsgs)
      BY <1>0 DEF TypeOK, CallTypeOK
    <3>2. up[c] # <<>> => Head(up[c]) \in 0 .. MaxMsgs
      BY <3>1, CapAssumption, HeadAndTail
    <3> QED
      BY <1>0, <3>2 DEF Packet, Packets, Kinds, BodyKinds
  <2> QED
    BY <1>2, <1>3, <2>1, <2>2
<1>5. m.id = id /\ m.kind = IF Over(c) THEN "NoResponse" ELSE "Response"
  BY <1>3 DEF Control, Packet
<1> HIDE DEF m
<1>6. ASSUME NEW kind, kind = m.kind PROVE Has(OnTheWay(q)', With(id, {kind}))
  <2>1. m \in With(id, {kind})
    BY <1>0, <1>4, <1>5, <1>6, PacketSets
  <2> QED
    BY <1>0, <1>1, <1>4, <2>1, SaidIsOnTheWay DEF Selecting
<1>7. \A kinds : Has(OnTheWay(q)', With(id, kinds)) => Answered(c, kinds)'
  BY <1>1 DEF Answered, Callee
<1> QED
  BY <1>5, <1>6, <1>7

LEMMA GarblesIt ==
    ASSUME Sound, NEW c \in Requests, Garbles(c)
    PROVE  Answered(c, {"MalformedRequest"})'
<1> DEFINE q == Callee(c)
           a == Arriving(q)
           m == Control("MalformedRequest", a.id)
<1>0. c \in Calls /\ q \in Peers /\ TypeOK /\ RecvMalformed(q) /\ a \in AskFor(c)
      /\ Other(q) = CallerOf[c]
  BY TwoEnds DEF Requests, Sound, Garbles
<1>1. a.kind \in RequestKinds /\ a.call = c /\ a.kind # "Response" /\ a.kind # "Stream"
  BY <1>0 DEF AskFor, RequestKinds
<1>2. a \in Packets /\ Listens(q)
  BY <1>0, <1>1, Hears
<1>3. a.id \in Ids
  BY <1>2 DEF Packets
<1>4. Genuine(Other(q), a)
  <2>1. OnTheWay(Other(q)) \in Seq(Packets) /\ OnTheWay(Other(q)) # <<>>
        /\ Head(OnTheWay(Other(q))) = a
    BY <1>0, <1>2, TwoPeers, WayType DEF Listens, Heard, Arriving
  <2>2. 1 \in 1 .. Len(OnTheWay(Other(q))) /\ OnTheWay(Other(q))[1] = a
    BY <2>1
  <2> QED
    BY <1>0, <2>2, GenuineWay, TwoPeers DEF Sound, CorrelationInv
<1>5. id_of[c] = a.id /\ a.kind = "Request"
  BY <1>1, <1>4 DEF Genuine, BodyKinds, Requests, IsRequest
<1>6. Goto(q, "write", m) /\ UNCHANGED <<result, id_of>> /\ Selecting(q) /\ link'[q] = link[q]
  <2>1. Goto(q, "write", m) /\ UNCHANGED <<result, id_of>> /\ Selecting(q)
        /\ link' = [link EXCEPT ![Other(q)] = Tail(@)]
    BY <1>0, <1>5 DEF RecvMalformed, Complaint, Arriving, Arrives, endVars, handleVars
  <2> QED
    BY <1>0, <2>1, TwoPeers DEF TypeOK, LinkTypeOK
<1>7. m \in Packets /\ m \in With(id_of[c], {"MalformedRequest"})
  <2>1. m \in Packets
    BY <1>3, ControlType DEF Kinds, BodyKinds, RequestKinds
  <2> QED
    BY <1>0, <1>5, <2>1, PacketSets DEF Control, Packet
<1> HIDE DEF m
<1>8. Has(OnTheWay(q)', With(id_of[c], {"MalformedRequest"}))
  BY <1>0, <1>6, <1>7, SaidIsOnTheWay DEF Selecting
<1> QED
  BY <1>6, <1>8 DEF Answered, Callee

\* an end that hears of a call takes it or complains, unless it ends
LEMMA HearsOfIt ==
    ASSUME Sound, NEW c \in Calls, Listens(Callee(c)), Arriving(Callee(c)) \in AskFor(c),
           result'[Callee(c)] = "running"
    PROVE  Gets(c) \/ Garbles(c)
<1> DEFINE q == Callee(c)
<1>0. q \in Peers /\ TypeOK /\ Recv(q) /\ Arriving(q).kind \in RequestKinds /\ Arrives(q, Kinds)
  BY TwoEnds DEF Sound, Listens, AskFor
<1>1. ASSUME NEW x, x # "running", End(q, x) PROVE FALSE
  BY <1>0, <1>1 DEF End, TypeOK, TaskTypeOK
<1>2. RecvRefused(q) => \E x : x # "running" /\ End(q, x)
  BY DEF RecvRefused, Refusal
<1>3. ReadFails(q) => \E x : x # "running" /\ End(q, x)
  BY DEF ReadFails
<1>4. RecvRequest(q) \/ RecvMalformed(q)
  BY <1>0, <1>1, <1>2, <1>3 DEF Recv, RecvEnableServerRequests, RecvAnswer, RecvStream,
     RecvStreamClosed, RecvClose, RecvPing, Accepts, Arrives, Arriving, RequestKinds
<1> QED
  BY <1>4 DEF Gets, Garbles

\* what has ended, is closing or is broken stays so
LEMMA OnceEnded ==
    ASSUME Sound, [Next]_vars, ~Reconnect, NEW p \in Peers
    PROVE  /\ result[p] # "running" => result'[p] = result[p]
           /\ should_close[p] => should_close'[p]
           /\ broken => broken'
<1>0. TypeOK /\ ~Reconnect
  BY SoundStep DEF Sound
<1>1. ASSUME NEW q \in Peers, NEW x, End(q, x)
      PROVE  UNCHANGED should_close /\ (result[q] = "running" => (result[p] # "running" => result'[p] = result[p]))
  BY <1>0, <1>1 DEF End, TypeOK, TaskTypeOK
<1>2. ASSUME NEW q \in Peers, Task(q) PROVE result[q] = "running" /\ UNCHANGED broken
  BY <1>2 DEF Task, Recv, RecvRefused, RecvEnableServerRequests, RecvRequest, RecvAnswer,
     RecvStream, RecvStreamClosed, RecvClose, RecvPing, RecvMalformed, ReadFails, Accepts, Arrives,
     Deliver, DeliverRequest, DeliverToNobody, DeliverMessage, Delivering, Selecting, Send, Write,
     WriteFails, WriteClose, Writing, Ping, CloseSignal, Finish, ToSend, ToSendUser, ToSendEnable,
     ToSendRequest, ToSendDuplicate, ToSendNoId, HasRequest, linkVars
<1>3. ASSUME NEW q \in Peers, Task(q), ~\E x : End(q, x)
      PROVE  /\ UNCHANGED result
             /\ UNCHANGED should_close \/ should_close' = [should_close EXCEPT ![q] = TRUE]
  BY <1>3 DEF Task, Recv, RecvRefused, RecvEnableServerRequests, RecvRequest, RecvAnswer,
     RecvStream, RecvStreamClosed, RecvClose, RecvPing, RecvMalformed, ReadFails, CloseHandler,
     Deliver, DeliverRequest, DeliverToNobody, DeliverMessage, Send, Write,
     WriteFails, WriteClose, Ping, CloseSignal, Finish, ToSend, ToSendUser, ToSendEnable,
     ToSendRequest, ToSendDuplicate, ToSendNoId, taskVars, endVars
<1>4. CASE \E q \in Peers : Task(q)
  BY <1>0, <1>1, <1>2, <1>3, <1>4 DEF TypeOK, TaskTypeOK
<1>5. CASE \/ \E q \in Peers : User(q)
           \/ \E d \in Calls : UserCall(d)
           \/ AskEnable \/ Break \/ UNCHANGED vars
  BY <1>5 DEF User, Receive, DropReceiver, SignalClose, UserCall, StartCall, RefuseCall,
     Answer, Emit, DropSender, Take, CloseStream, Cancel, AskEnable, Break, vars, taskVars,
     endVars, linkVars
<1> QED
  BY <1>0, <1>4, <1>5 DEF Next

LEMMA AwaitedAt ==
    ASSUME Sound, NEW c \in Calls, NEW p \in Peers, NEW id \in Ids, waiting_on_stream[p][id] = c
    PROVE  id = id_of[c] /\ p = Cons(c)
BY TwoEnds DEF Sound, CorrelationInv, GenuineEntries

\* how the entry of a Request comes and goes
LEMMA AwaitedFlow ==
    ASSUME Sound, [Next]_vars, ~Reconnect, NEW c \in Requests
    PROVE  LET p == CallerOf[c] IN
           /\ Awaited(c)' => Awaited(c) \/ Asks(c)
           /\ Asks(c) => Awaited(c)'
           /\ Awaited(c) /\ ~Awaited(c)' =>
                \/ /\ RecvAnswer(p) \/ RecvStreamClosed(p)
                      \/ (RecvMalformed(p) /\ Arriving(p).kind = "Response")
                   /\ Arriving(p).id = id_of[c]
                \/ should_close'[p]
                \/ DropHandler(p) /\ result'[p] # "running"
<1> DEFINE p == CallerOf[c]
           old == waiting_on_stream[p]
           new == waiting_on_stream'[p]
<1>0. /\ c \in Calls /\ KindOf[c] = "Request" /\ p \in Peers /\ TypeOK /\ ~Reconnect
      /\ GenuinePackets /\ c # NoCall /\ OwnCalls
  BY TwoEnds, SoundStep DEF Requests, IsRequest, Sound, CorrelationInv, OrphanInv
<1>1. old \in [Ids -> Calls \cup {NoCall}] /\ StreamEntriesOf(p)
  BY <1>0, TablesType, EntriesFlow
<1>2. ASSUME RecvRequest(p), Arriving(p).kind = "RequestSender" PROVE Arriving(p).call # c
  <2>1. Arrived(p) # <<>>
    BY <1>2 DEF RecvRequest, Accepts, Arrives
  <2>2. Genuine(Other(p), Arriving(p))
    BY <1>0, <2>1, FirstGenuine DEF Arriving
  <2> QED
    BY <1>0, <1>2, <2>2 DEF Genuine, BodyKinds, RequestKinds
<1>3. ASSUME Awaited(c)' PROVE Awaited(c) \/ Asks(c)
  <2>1. PICK i \in Ids : new[i] = c
    BY <1>3 DEF Awaited, CallsIn
  <2>2. old[i] = c => Awaited(c)
    BY <1>0 DEF Awaited, CallsIn
  <2> QED
    BY <1>0, <1>1, <1>2, <2>1, <2>2 DEF StreamEntriesOf, EmptyTable, Asks
<1>4. ASSUME Asks(c) PROVE Awaited(c)'
  <2>1. waiting_on_stream' = [waiting_on_stream EXCEPT ![p][next[p]] = c] /\ next[p] \in Ids
    BY <1>0, <1>4, CallEntries DEF Asks, ToSendRequest, Asking, Put
  <2>2. new[next[p]] = c
    BY <1>0, <2>1, TablesType
  <2> QED
    BY <1>0, <2>1, <2>2 DEF Awaited, CallsIn
<1>5. ASSUME CloseHandler(p) PROVE should_close'[p]
  BY <1>0, <1>5 DEF CloseHandler, TypeOK, TaskTypeOK
<1>6. ASSUME Awaited(c), ~Awaited(c)'
      PROVE  \/ /\ RecvAnswer(p) \/ RecvStreamClosed(p)
                   \/ (RecvMalformed(p) /\ Arriving(p).kind = "Response")
                /\ Arriving(p).id = id_of[c]
             \/ should_close'[p]
             \/ DropHandler(p) /\ result'[p] # "running"
  <2>1. PICK i \in Ids : old[i] = c
    BY <1>6 DEF Awaited, CallsIn
  <2>2. i = id_of[c] /\ new[i] # c
    BY <1>0, <1>6, <2>1, AwaitedAt DEF Awaited, CallsIn
  <2> QED
    BY <1>0, <1>1, <1>5, <2>1, <2>2 DEF StreamEntriesOf
<1> QED
  BY <1>3, <1>4, <1>6

LEMMA NotForgotten ==
    ASSUME Sound, RequestInv, [Next]_vars, ~Reconnect, NEW c \in Requests,
           Open /\ Awaited(c) => HasToken(c), Open', Awaited(c)'
    PROVE  HasToken(c)'
<1> DEFINE p == CallerOf[c]
           q == Callee(c)
<1>0. /\ c \in Calls /\ p \in Peers /\ q \in Peers /\ Other(p) = q /\ Other(q) = p
      /\ TypeOK /\ OwnCalls /\ Ended /\ ~Reconnect
      /\ AskedOnce(c) /\ OnePlace(c) /\ HandleOf(c) /\ ControlIds
  BY TwoEnds, SoundStep DEF Requests, Sound, OrphanInv, RequestInv
<1>1. Open /\ ~Lost(p) /\ ~Lost(q) /\ result'[p] = "running" /\ result'[q] = "running"
  <2>1. \A r \in Peers : result[r] = "running" /\ ~should_close[r]
    BY OnceEnded DEF Open
  <2>2. ~broken
    BY <1>0, OnceEnded DEF Open
  <2> QED
    BY <1>0, <2>1, <2>2 DEF Open, Lost
<1>2. CASE Asks(c)
  BY <1>0, <1>2, AsksIt DEF HasToken
<1>3. ASSUME ~Asks(c) PROVE HasToken(c)'
  <2>1. Awaited(c) /\ HasToken(c) /\ id_of'[c] = id_of[c]
    BY <1>0, <1>1, <1>3, AwaitedFlow, IdFlow
  <2>2. Garbles(c) => Answered(c, AnswerKinds)'
    <3>1. Answered(c, {"MalformedRequest"})' => Answered(c, AnswerKinds)'
      BY DEF Answered, With, AnswerKinds, Has
    <3> QED
      BY <3>1, GarblesIt
  <2>3. Replies(c) => Answered(c, AnswerKinds)'
    <3>1. Answered(c, {"NoResponse"})' \/ Answered(c, {"Response"})' => Answered(c, AnswerKinds)'
      BY DEF Answered, With, AnswerKinds, Has
    <3> QED
      BY <3>1, RepliesIt
  <2>4. Gets(c) => Served(c)'
    <3> SUFFICES ASSUME Gets(c) PROVE Served(c)'
      OBVIOUS
    <3> DEFINE a == Arriving(q)
    <3>1. RecvRequest(q) /\ a \in Packets /\ a.call = c /\ a.kind \in RequestKinds
      BY <1>0, Hears DEF Gets, AskFor
    <3>2. a.kind = "Request" /\ a.id \in Ids
      <4>1. Arrived(q) # <<>>
        BY <3>1 DEF RecvRequest, Accepts, Arrives
      <4>2. Genuine(Other(q), a)
        BY <1>0, <4>1, FirstGenuine DEF Arriving, Sound, CorrelationInv
      <4> QED
        BY <3>1, <4>2 DEF Genuine, BodyKinds, Requests, IsRequest, Packets
    <3>3. waiting_on_user' = [waiting_on_user EXCEPT ![q][a.id] = c]
      BY <3>1, <3>2 DEF RecvRequest, Put, Arriving
    <3>4. waiting_on_user'[q][a.id] = c
      BY <1>0, <3>2, <3>3, TablesType
    <3> QED
      BY <1>0, <3>2, <3>4 DEF Served, CallsIn, Callee
  <2>5. CASE Asked(c)
    <3>1. Asked(c)' \/ (Listens(q) /\ Arriving(q) \in AskFor(c))
      BY <1>0, <1>1, <2>5, WayHas DEF Asked
    <3> QED
      BY <1>0, <1>1, <2>2, <2>4, <3>1, HearsOfIt DEF HasToken
  <2>6. CASE Served(c)
    <3>1. Served(c)' \/ Replies(c)
      BY <1>0, <1>1, <2>6, ServedFlow DEF Requests
    <3> QED
      BY <2>3, <3>1 DEF HasToken
  <2>7. CASE Answered(c, AnswerKinds)
    <3> DEFINE X == With(id_of[c], AnswerKinds)
    <3>1. Has(OnTheWay(q), X)
      BY <2>7 DEF Answered
    <3>2. Has(OnTheWay(q)', X) => Answered(c, AnswerKinds)'
      BY <2>1 DEF Answered, Callee
    <3>3. ASSUME Listens(p), Arriving(p) \in X PROVE FALSE
      <4> DEFINE a == Arriving(p)
      <4>1. Recv(p) /\ Arrives(p, Kinds) /\ a.kind \in AnswerKinds /\ a.id = id_of[c]
        BY <3>3 DEF Listens, With
      <4>2. ASSUME NEW x, x # "running", End(p, x) PROVE FALSE
        BY <1>0, <1>1, <4>2 DEF End, TypeOK, TaskTypeOK
      <4>3. RecvRefused(p) => \E x : x # "running" /\ End(p, x)
        BY DEF RecvRefused, Refusal
      <4>4. ReadFails(p) => \E x : x # "running" /\ End(p, x)
        BY DEF ReadFails
      <4>5. RecvMalformed(p) => a.kind = "Response"
        BY <4>1, BoundAssumption DEF RecvMalformed, Arrives, BodyKinds, AnswerKinds, RequestKinds,
           Arriving
      <4>6. RecvAnswer(p) \/ RecvMalformed(p)
        BY <4>1, <4>2, <4>3, <4>4 DEF Recv, RecvEnableServerRequests, RecvRequest, RecvStream,
           RecvStreamClosed, RecvClose, RecvPing, Accepts, Arrives, Arriving, AnswerKinds,
           RequestKinds
      <4>7. waiting_on_stream' = Put(waiting_on_stream, p, a.id, NoCall)
        BY <4>2, <4>5, <4>6 DEF RecvAnswer, RecvMalformed, Arriving
      <4>8. a.id \in Ids
        BY <1>0, <4>1, FirstArrived DEF Arrives, Arriving, TypeOK, Packets
      <4>9. ASSUME NEW i \in Ids, waiting_on_stream'[p][i] = c PROVE FALSE
        <5>1. i # a.id /\ waiting_on_stream[p][i] = c
          BY <1>0, <4>7, <4>8, <4>9, TablesType, TwoEnds DEF Put
        <5> QED
          BY <1>0, <4>1, <5>1, AwaitedAt
      <4> QED
        BY <4>9 DEF Awaited, CallsIn
    <3> HIDE DEF X
    <3>4. Has(OnTheWay(q)', X)
      BY <1>0, <1>1, <3>1, <3>3, WayHas
    <3> QED
      BY <3>2, <3>4 DEF HasToken
  <2> QED
    BY <2>1, <2>5, <2>6, <2>7 DEF HasToken
<1> QED
  BY <1>2, <1>3

LEMMA ForgottenStep ==
    ASSUME Sound, RequestInv, NoneForgotten, [Next]_vars, ~Reconnect PROVE NoneForgotten'
BY NotForgotten DEF NoneForgotten, Requests, IsRequest, Open

\* a Request is in one place only, as OneToken names them
LEMMA TokenOfOne ==
    ASSUME Sound, RequestInv, NoneForgotten PROVE OneToken
<1> SUFFICES ASSUME NEW c \in Requests,
                    ~broken /\ (\A q \in Peers : result[q] = "running" /\ ~should_close[q]),
                    Awaited(c)
             PROVE  LET p == CallerOf[c]
                        places == {w \in {"asked", "serving", "answered"} :
                            CASE w = "asked" -> Carries(p, c, {"Request"})
                              [] w = "serving" -> c \in CallsIn(waiting_on_user[Other(p)])
                              [] w = "answered" -> Carries(Other(p), c,
                                         {"Response", "NoResponse", "MalformedRequest"})}
                    IN Cardinality(places) = 1
  BY DEF OneToken, Awaited
<1> DEFINE p == CallerOf[c]
           q == Callee(c)
           asked == Carries(p, c, {"Request"})
           serving == c \in CallsIn(waiting_on_user[Other(p)])
           answered == Carries(Other(p), c, {"Response", "NoResponse", "MalformedRequest"})
           places == {w \in {"asked", "serving", "answered"} :
                            CASE w = "asked" -> asked
                              [] w = "serving" -> serving
                              [] w = "answered" -> answered}
<1>0. /\ c \in Calls /\ IsRequest(c) /\ p \in Peers /\ q \in Peers /\ Other(p) = q /\ p # q
      /\ TypeOK /\ GenuinePackets /\ IdsAscend /\ AskedOnce(c) /\ OnePlace(c)
  BY TwoEnds DEF Requests, Sound, CorrelationInv, RequestInv
<1>1. HasToken(c)
  BY DEF NoneForgotten, Open
<1>2. asked <=> Asked(c)
  <2>1. ASSUME NEW i \in 1 .. Len(OnTheWay(p))
        PROVE  LET m == OnTheWay(p)[i] IN
               m.kind \in {"Request"} /\ m.id = id_of[c] <=> m \in AskFor(c)
    <3> DEFINE m == OnTheWay(p)[i]
               d == m.call
    <3>1. m \in Packets /\ Genuine(p, m)
      BY <1>0, GenuineWay
    <3>2. ASSUME m \in AskFor(c) PROVE m.kind = "Request" /\ m.id = id_of[c]
      <4>1. m.kind \in RequestKinds /\ m.call = c
        BY <1>0, <3>1, <3>2, PacketSets
      <4> QED
        BY <1>0, <3>1, <4>1 DEF Genuine, BodyKinds, IsRequest
    <3>3. ASSUME m.kind = "Request", m.id = id_of[c] PROVE m \in AskFor(c)
      <4>1. d \in Calls /\ m.id \in Ids
        BY <3>1, <3>3 DEF Packets, BodyKinds, RequestKinds
      <4>2. id_of[d] = id_of[c] /\ IsRequest(d) /\ CallerOf[d] = p /\ id_of[c] # NoId
        BY <3>1, <3>3, <4>1, Basics DEF Genuine, BodyKinds, RequestKinds, IsRequest, Ids, NoId
      <4>3. d = c
        BY <1>0, <4>1, <4>2 DEF IdsAscend
      <4> QED
        BY <1>0, <3>1, <3>3, <4>3, PacketSets DEF RequestKinds
    <3> QED
      BY <3>2, <3>3
  <2> QED
    BY <2>1 DEF Carries, Asked, Has
<1>3. serving <=> Served(c)
  BY <1>0 DEF Served
<1>4. answered <=> Answered(c, AnswerKinds)
  <2>1. ASSUME NEW i \in 1 .. Len(OnTheWay(q))
        PROVE  LET m == OnTheWay(q)[i] IN
               m.kind \in {"Response", "NoResponse", "MalformedRequest"} /\ m.id = id_of[c]
                 <=> m \in With(id_of[c], AnswerKinds)
    BY <1>0, GenuineWay, PacketSets DEF AnswerKinds
  <2> QED
    BY <1>0, <2>1 DEF Carries, Answered, Has
<1>5. (asked \/ serving \/ answered) /\ ~(asked /\ serving) /\ ~(asked /\ answered)
         /\ ~(serving /\ answered)
  BY <1>1, <1>2, <1>3, <1>4, <1>0 DEF HasToken, AskedOnce, OnePlace
<1> HIDE DEF asked, serving, answered
<1>6. places = {"asked"} \/ places = {"serving"} \/ places = {"answered"}
  BY <1>5
<1>7. Cardinality({"asked"}) = 1 /\ Cardinality({"serving"}) = 1 /\ Cardinality({"answered"}) = 1
  BY FS_Singleton
<1>8. Cardinality(places) = 1
  BY <1>6, <1>7
<1> QED
  BY <1>8 DEF asked, serving, answered

-----------------------------------------------------------------------------
(* The ids of the two ends apart *)

\* what becomes of the mode and the counter of an end
LEMMA ModeFlow ==
    ASSUME TypeOK, ~Reconnect, [Next]_vars, NEW p \in Peers
    PROVE  \/ mode'[p] = mode[p] /\ next'[p] = next[p]
           \/ /\ RecvEnableServerRequests(p) \/ ToSendEnable(p)
              /\ mode'[p] = CASE mode[p] = "UniServer" -> "BiServer"
                              [] mode[p] = "UniClient" -> "BiClient"
                              [] OTHER -> mode[p]
           \/ ToSendRequest(p) /\ mode'[p] = mode[p] /\ next'[p] = Advance(p)
<1>0. mode \in [Peers -> {"UniServer", "UniClient", "BiServer", "BiClient"}]
      /\ next \in [Peers -> Ids \cup {NoId}]
  BY DEF TypeOK, PeerTypeOK
<1>1. ASSUME NEW q \in Peers, NEW x, End(q, x) PROVE UNCHANGED <<mode, next>>
  BY <1>1 DEF End, DropHandler, peerVars
<1>2. ASSUME NEW q \in Peers, Task(q)
      PROVE  \/ UNCHANGED <<mode, next>> \/ (\E x : End(q, x))
             \/ RecvEnableServerRequests(q) \/ ToSendEnable(q) \/ ToSendRequest(q)
  <2>1. CASE Recv(q)
    BY <2>1 DEF Recv, RecvRefused, RecvRequest, RecvAnswer, RecvStream, RecvStreamClosed, RecvClose,
       RecvPing, RecvMalformed, ReadFails, peerVars
  <2>2. CASE Deliver(q) \/ Send(q) \/ Ping(q) \/ CloseSignal(q) \/ Finish(q)
    BY <2>2 DEF Deliver, DeliverRequest, DeliverToNobody, DeliverMessage, Send, Write,
       WriteFails, WriteClose, Ping, CloseSignal, Finish, peerVars
  <2>3. CASE ToSend(q)
    BY <2>3 DEF ToSend, ToSendUser, ToSendDuplicate, ToSendNoId, peerVars
  <2> QED
    BY <1>2, <2>1, <2>2, <2>3 DEF Task
<1>3. ASSUME NEW q \in Peers, ToSendRequest(q)
      PROVE  mode' = mode /\ next' = [next EXCEPT ![q] = Advance(q)]
  BY <1>3 DEF ToSendRequest
<1>4. ASSUME NEW q \in Peers, RecvEnableServerRequests(q) \/ ToSendEnable(q)
      PROVE  \E n : EnableServerRequests(q, n)
  BY <1>4 DEF RecvEnableServerRequests, ToSendEnable
<1>5. CASE \/ \E q \in Peers : User(q)
           \/ \E d \in Calls : UserCall(d)
           \/ AskEnable \/ Break \/ UNCHANGED vars
  BY <1>5 DEF User, Receive, DropReceiver, SignalClose, UserCall, StartCall, RefuseCall,
     Answer, Emit, DropSender, Take, CloseStream, Cancel, AskEnable, Break, vars, peerVars
<1>6. CASE \E q \in Peers : Task(q)
  <2>1. PICK q \in Peers : Task(q)
    BY <1>6
  <2>2. CASE UNCHANGED <<mode, next>>
    BY <2>2
  <2>3. CASE ToSendRequest(q)
    <3>1. mode' = mode /\ next' = [next EXCEPT ![q] = Advance(q)]
      BY <1>3, <2>3
    <3> QED
      BY <1>0, <2>3, <3>1
  <2>4. CASE RecvEnableServerRequests(q) \/ ToSendEnable(q)
    <3>1. PICK n : EnableServerRequests(q, n)
      BY <1>4, <2>4
    <3>2. CASE p = q
      BY <1>0, <2>4, <3>1, <3>2 DEF EnableServerRequests
    <3>3. CASE p # q
      BY <1>0, <3>1, <3>3 DEF EnableServerRequests
    <3> QED
      BY <3>2, <3>3
  <2> QED
    BY <1>1, <1>2, <2>1, <2>2, <2>3, <2>4
<1> QED
  BY <1>5, <1>6 DEF Next

LEMMA ApartBefore ==
    ASSUME Sound, [Next]_vars, ~Reconnect, IdsApart' PROVE IdsApart
<1>1. TypeOK /\ OwnCalls /\ ~Reconnect /\ "server" \in Peers
  BY SoundStep DEF Sound, OrphanInv, Peers
<1>2. CASE mode'["server"] = "UniServer"
  BY <1>1, <1>2, ModeFlow DEF IdsApart
<1>3. CASE mode'["server"] # "UniServer"
  <2>1. ASSUME NEW c \in Calls, CallerOf[c] = "client" PROVE id_of[c] <= Mid \/ id_of[c] = NoId
    BY <1>1, <1>3, <2>1, IdFlow, AskedFlow DEF IdsApart
  <2> QED
    BY <2>1 DEF IdsApart
<1> QED
  BY <1>2, <1>3

\* what arrives is on the way
LEMMA FirstOnTheWay ==
    ASSUME TypeOK, NEW p \in Peers, Arrived(p) # <<>>
    PROVE  /\ 1 \in 1 .. Len(OnTheWay(Other(p))) /\ OnTheWay(Other(p))[1] = Arriving(p)
           /\ Arriving(p) \in Packets /\ Arriving(p).id \in Ids
<1> DEFINE q == Other(p)
<1>1. q \in Peers /\ link[q] \in Seq(Packets) /\ InHand(q) \in Seq(Packets) /\ link[q] # <<>>
  BY TwoPeers, WayType DEF Arrived
<1>2. ASSUME NEW T, NEW a \in Seq(T), NEW b \in Seq(T), a # <<>>
      PROVE  1 \in 1 .. Len(a \o b) /\ (a \o b)[1] = Head(a) /\ Head(a) \in T
  BY <1>2
<1> QED
  BY <1>1, <1>2 DEF OnTheWay, Arriving, Arrived, Packets

\* with the ids apart, a StreamClosed is about a stream
LEMMA ClosesNoRequest ==
    ASSUME Sound, ControlIds, IdsApart, NEW p \in Peers, RecvStreamClosed(p), NEW c \in Requests
    PROVE  id_of[c] # Arriving(p).id
<1>1. TypeOK /\ IdsAscend /\ c \in Calls /\ IsRequest(c)
  BY DEF Sound, CorrelationInv, Requests
<1>2. Arrived(p) # <<>> /\ Arriving(p).kind = "StreamClosed"
  BY DEF RecvStreamClosed, Accepts, Arrives, Arriving
<1>3. PICK d \in Streams : id_of[d] = Arriving(p).id
  BY <1>1, <1>2, FirstOnTheWay, TwoPeers DEF ControlIds
<1> QED
  BY <1>1, <1>2, <1>3, FirstOnTheWay, SameCall DEF Streams, Requests

\* the answer of a Request is heard once
LEMMA HearsAnswer ==
    ASSUME Sound, NEW c \in Requests, OnePlace(c),
           LET p == CallerOf[c] IN
           /\ RecvAnswer(p) \/ (RecvMalformed(p) /\ Arriving(p).kind = "Response")
           /\ Arriving(p).id = id_of[c] /\ result'[p] = "running"
    PROVE  /\ Answered(c, AnswerKinds) /\ ~Has(OnTheWay(Callee(c))', With(id_of[c], AnswerKinds))
           /\ ~Asks(c) /\ ~Replies(c)
<1> DEFINE p == CallerOf[c]
           q == Callee(c)
           a == Arriving(p)
           X == With(id_of[c], AnswerKinds)
<1>0. c \in Calls /\ p \in Peers /\ Other(p) = q /\ TypeOK /\ Once(OnTheWay(q), X) /\ q # p
  BY TwoEnds DEF Requests, Sound, OnePlace
<1>1. Arrived(p) # <<>> /\ a.kind \in AnswerKinds
  BY DEF RecvAnswer, RecvMalformed, Accepts, Arrives, Arriving, AnswerKinds
<1>2. a \in X
  BY <1>0, <1>1, FirstOnTheWay, PacketSets
<1>3. ASSUME RecvMalformed(p), a.kind = "Response"
      PROVE  /\ link' = [link EXCEPT ![Other(p)] = Tail(@)] /\ UNCHANGED <<result, task, id_of>>
             /\ Arrives(p, Kinds)
  <2>1. ASSUME NEW x, x # "running", End(p, x) PROVE FALSE
    BY <1>0, <2>1 DEF End, TypeOK, TaskTypeOK
  <2> QED
    BY <1>3, <2>1, BoundAssumption DEF RecvMalformed, Arriving, endVars, handleVars, Arrives, Kinds,
       BodyKinds, RequestKinds
<1>4. Listens(p)
  <2>1. CASE RecvAnswer(p)
    BY <1>0, <2>1, Hears
  <2>2. CASE RecvMalformed(p) /\ a.kind = "Response"
    BY <1>0, <1>1, <1>3, <2>2, HeardWay DEF Listens, Recv, Arriving
  <2> QED
    BY <2>1, <2>2
<1> HIDE DEF X
<1>5. ~Has(OnTheWay(q)', X) /\ Has(OnTheWay(q), X)
  BY <1>0, <1>2, <1>4, HeardOnce
<1>6. UNCHANGED task /\ Selecting(p)
  BY <1>3 DEF RecvAnswer, taskVars, Accepts, Arrives, Arriving
<1>7. \A r \in Peers : \A m : Goto(r, "write", m) /\ UNCHANGED task => task[r].at = "write"
  BY <1>0 DEF Goto, TypeOK, TaskTypeOK
<1>8. ~Asks(c) /\ ~Replies(c)
  <2>1. Asks(c) => Selecting(p) /\ \E m : Goto(p, "write", m)
    BY DEF Asks, ToSendRequest, HasRequest
  <2>2. Replies(c) => Selecting(q) /\ \E m : Goto(q, "write", m)
    BY DEF Replies, ToSendUser
  <2>3. \A r : Selecting(r) => task[r].at # "write"
    BY DEF Selecting
  <2> QED
    BY <1>0, <1>6, <1>7, <2>1, <2>2, <2>3, TwoPeers
<1> QED
  BY <1>5, <1>8 DEF Answered, X

LEMMA ChosenStays ==
    ASSUME Sound, RequestInv, IdsApart, [Next]_vars, ~Reconnect, NEW c \in Requests, Chosen(c)
    PROVE  Chosen(c)'
<1> DEFINE q == Callee(c)
<1>0. /\ c \in Calls /\ TypeOK /\ OwnCalls /\ q \in Peers /\ IsRequest(c)
      /\ AskedOnce(c) /\ OnePlace(c) /\ HandleOf(c) /\ Meaning(c) /\ ControlIds
  BY TwoEnds DEF Requests, Sound, OrphanInv, RequestInv
<1>1. should_close[q] => should_close'[q]
  BY <1>0, OnceEnded
<1>2. ASSUME Served(c)', shut'[c] PROVE should_close'[q]
  <2>1. CASE Gets(c)
    <3>1. ~shut[c] /\ UNCHANGED shut
      BY <1>0, <2>1, Heeded DEF HandleOf, Unheard, Gets, RecvRequest, callVars, handleVars, prodVars
    <3> QED
      BY <1>2, <3>1
  <2>2. CASE ~Gets(c)
    <3>1. Served(c)
      BY <1>0, <1>2, <2>2, ServedFlow
    <3>2. CASE shut[c]
      BY <1>1, <3>1, <3>2 DEF Chosen
    <3>3. CASE ~shut[c]
      <4>1. ~Replies(c)
        BY <1>2, Replied
      <4>2. ~DropHandler(q)
        <5>1. DropHandler(q) => waiting_on_user'[q] = EmptyTable
          BY <1>0, TablesType DEF DropHandler
        <5> QED
          BY <1>0, <1>2, <5>1, TwoEnds DEF Served, CallsIn, EmptyTable, Callee
      <4>3. ~(RecvStreamClosed(q) /\ waiting_on_user[q][Arriving(q).id] = c)
        <5> SUFFICES ASSUME RecvStreamClosed(q), waiting_on_user[q][Arriving(q).id] = c
                     PROVE  FALSE
          OBVIOUS
        <5>1. Arriving(q).id \in Ids
          BY <1>0, FirstOnTheWay DEF RecvStreamClosed, Accepts, Arrives
        <5>2. id_of[c] = Arriving(q).id
          BY <1>0, <5>1, ServedAt
        <5> QED
          BY <1>0, <5>2, ClosesNoRequest
      <4> QED
        BY <1>2, <3>3, <4>1, <4>2, <4>3, ShutFlow
    <3> QED
      BY <3>2, <3>3
  <2> QED
    BY <2>1, <2>2
<1>3. ASSUME Answered(c, {"NoResponse"})' \/ res'[c] = "NoResponse"
      PROVE  tx'[c] = "dropped" \/ should_close'[q] \/ Old(c)'
  <2>1. CASE Answered(c, {"NoResponse"}) \/ res[c] = "NoResponse"
    <3>1. tx[c] = "dropped" => tx'[c] = "dropped"
      BY <1>0, ResponderFlow DEF HandleOf
    <3>2. Old(c)' <=> Old(c)
      BY <1>0, OldStays
    <3> QED
      BY <1>1, <2>1, <3>1, <3>2 DEF Chosen
  <2>2. CASE ~Answered(c, {"NoResponse"}) /\ res[c] # "NoResponse"
    <3>1. Answered(c, {"NoResponse"})' /\ {"NoResponse"} \in SUBSET AnswerKinds
      BY <1>3, <2>2, OutcomeSaid DEF AnswerKinds
    <3>2. Replies(c) /\ Said(Callee(c), id_of[c]).kind = "NoResponse"
      BY <1>0, <2>2, <3>1, AnswerFlow
    <3>3. Served(c) /\ (tx[c] = "dropped" \/ shut[c]) /\ tx' = tx
      BY <3>2, Replied DEF Over
    <3> QED
      BY <1>1, <3>3 DEF Chosen
  <2> QED
    BY <2>1, <2>2
<1> QED
  BY <1>2, <1>3 DEF Chosen, Callee

LEMMA ExpectedStays ==
    ASSUME Sound, RequestInv, IdsApart, [Next]_vars, ~Reconnect, NEW c \in Requests, Expected(c)
    PROVE  Expected(c)'
<1> DEFINE p == CallerOf[c]
           q == Callee(c)
<1> SUFFICES ASSUME HasToken(c)', result'[p] = "running", ~should_close'[p], ~Awaited(c)'
             PROVE  FALSE
  BY DEF Expected
<1>0. /\ c \in Calls /\ TypeOK /\ OwnCalls /\ p \in Peers
      /\ AskedOnce(c) /\ OnePlace(c) /\ ControlIds
  BY TwoEnds DEF Requests, Sound, OrphanInv, RequestInv
<1>1. ~Asks(c) /\ id_of'[c] = id_of[c]
  BY <1>0, AwaitedFlow, IdFlow
<1>2. /\ Asked(c)' => Asked(c)
      /\ Served(c)' => Served(c) \/ Asked(c)
      /\ Answered(c, AnswerKinds)' => Answered(c, AnswerKinds) \/ Replies(c) \/ Garbles(c)
  BY <1>0, <1>1, AskedFlow, ServedFlow, Heeded, AnswerFlow
<1>3. Replies(c) => Served(c)
  BY Replied
<1>4. HasToken(c) /\ result[p] = "running" /\ ~should_close[p]
  BY <1>0, <1>2, <1>3, Heeded, OnceEnded DEF HasToken
<1>5. Awaited(c)
  BY <1>4 DEF Expected
<1>6. /\ \/ RecvAnswer(p)
         \/ RecvMalformed(p) /\ Arriving(p).kind = "Response"
      /\ Arriving(p).id = id_of[c]
  BY <1>0, <1>5, AwaitedFlow, ClosesNoRequest
<1>7. /\ Answered(c, AnswerKinds) /\ ~Has(OnTheWay(q)', With(id_of[c], AnswerKinds))
  BY <1>0, <1>6, HearsAnswer
<1>8. ~Answered(c, AnswerKinds)'
  BY <1>1, <1>7 DEF Answered, Callee
<1>9. ~Asked(c) /\ ~Served(c)
  BY <1>0, <1>7 DEF OnePlace
<1> QED
  BY <1>2, <1>8, <1>9 DEF HasToken

LEMMA ApartStep ==
    ASSUME Sound, RequestInv, ApartInv, [Next]_vars, ~Reconnect PROVE ApartInv'
<1> SUFFICES ASSUME IdsApart', NEW c \in Requests PROVE Chosen(c)' /\ Expected(c)'
  BY DEF ApartInv, Requests, IsRequest
<1>1. IdsApart
  BY ApartBefore
<1> QED
  BY <1>1, ChosenStays, ExpectedStays DEF ApartInv

LEMMA ApartInit == ASSUME Init PROVE ApartInv
<1> SUFFICES ASSUME NEW c \in Requests PROVE Chosen(c) /\ Expected(c)
  BY DEF ApartInv
<1>1. c \in Calls /\ ~shut[c] /\ res[c] = "idle"
  BY DEF Init, Requests
<1>2. RequestInv /\ \A p \in Peers : OnTheWay(p) = <<>>
  <2>1. ASSUME NEW p \in Peers PROVE OnTheWay(p) = <<>>
    <3>1. task[p].at = "select" /\ link[p] = <<>>
      BY DEF Init, Idle
    <3> QED
      BY <3>1 DEF OnTheWay, InHand, Writing
  <2> QED
    BY <2>1, RequestInit
<1>3. ~Asked(c) /\ ~Served(c) /\ \A X : ~Answered(c, X)
  BY <1>1, <1>2, TwoEnds DEF RequestInv, AskedOnce, Asked, Answered, Has, Init
<1> QED
  BY <1>1, <1>3 DEF Chosen, Expected, HasToken

-----------------------------------------------------------------------------
(* The ends never refuse each other *)

Enablings == {m \in Packets : m.kind = "EnableServerRequests"}

LEMMA EnablingsWay ==
    ASSUME TypeOK, NEW p \in Peers
    PROVE  Has(OnTheWay(p), Enablings) <=>
              \E i \in 1 .. Len(OnTheWay(p)) : OnTheWay(p)[i].kind = "EnableServerRequests"
<1>1. OnTheWay(p) \in Seq(Packets)
  BY WayType
<1>2. \A i \in 1 .. Len(OnTheWay(p)) : OnTheWay(p)[i] \in Packets
  BY <1>1, Element
<1> QED
  BY <1>2 DEF Has, Enablings

LEMMA EnablesNone ==
    ASSUME TypeOK, EnabledFirst PROVE ~ToSendEnable("server") /\ ~RecvEnableServerRequests("client")
<1>0. "server" \in Peers /\ "client" \in Peers /\ Other("client") = "server"
  BY DEF Peers, Other
<1>1. ASSUME ToSendEnable("server") PROVE FALSE
  <2>1. rx_requests["server"] # <<>> /\ rx_requests["server"] \in Seq(Calls \cup {Enable})
    BY <1>0, <1>1, QueueType DEF ToSendEnable, HasRequest
  <2>2. 1 \in 1 .. Len(rx_requests["server"]) /\ Head(rx_requests["server"]) = rx_requests["server"][1]
    BY <2>1, TailOf
  <2> QED
    BY <1>1, <2>2 DEF ToSendEnable, EnabledFirst
<1>2. ASSUME RecvEnableServerRequests("client") PROVE FALSE
  <2>1. Arrived("client") # <<>> /\ Arriving("client").kind = "EnableServerRequests"
    BY <1>2 DEF RecvEnableServerRequests, Accepts, Arrives, Arriving
  <2> QED
    BY <1>0, <2>1, FirstOnTheWay DEF EnabledFirst
<1> QED
  BY <1>1, <1>2

LEMMA SpeaksEnable ==
    ASSUME TypeOK, NEW p \in Peers, NEW m \in Enablings, Speaks(p, m) PROVE ToSendEnable(p)
<1>1. m.kind = "EnableServerRequests"
  BY DEF Enablings
<1>2. ToSendRequest(p) => m # Packet(KindOf[Asking(p)], next[p], Asking(p), 0)
  <2>1. ToSendRequest(p) => KindOf[Asking(p)] \in RequestKinds
    BY CallEntries, Basics
  <2> QED
    BY <1>1, <2>1 DEF Packet, RequestKinds
<1>3. \A id : Said(p, id).kind # "EnableServerRequests"
  BY SaidKinds
<1> QED
  BY <1>1, <1>2, <1>3, Sayings DEF Control, Packet, Complaint

LEMMA EnabledStep ==
    ASSUME Sound, EnabledFirst, [Next]_vars, ~Reconnect PROVE EnabledFirst'
<1> DEFINE s == "server"
           c == "client"
           old == rx_requests[s]
           new == rx_requests'[s]
<1>0. /\ s \in Peers /\ c \in Peers /\ s # c /\ Other(s) = c /\ TypeOK /\ Ended /\ ~Reconnect
      /\ TypeOK' /\ IdsAscend /\ IdsAscend'
  BY SoundStep DEF Peers, Other, Sound, CorrelationInv
<1>1. ASSUME NEW i \in 1 .. Len(new) PROVE new[i] # Enable
  <2>1. old \in Seq(Calls \cup {Enable}) /\ QueueOf(s)
    BY <1>0, QueueType, QueueFlow
  <2>2. \A j \in 1 .. Len(old) : old[j] # Enable
    BY DEF EnabledFirst
  <2>3. CASE new = old \/ new = <<>>
    BY <2>2, <2>3
  <2>4. CASE old # <<>> /\ new = Tail(old)
    <3> HIDE DEF old, new
    <3>1. \A j \in 1 .. Len(new) : j + 1 \in 1 .. Len(old) /\ new[j] = old[j + 1]
      BY <2>1, <2>4, TailOf
    <3> QED
      BY <2>2, <3>1
  <2>5. ASSUME NEW x \in Calls, new = Append(old, x) PROVE new[i] # Enable
    <3> HIDE DEF old, new
    <3>1. /\ \A j \in 1 .. Len(old) : new[j] = old[j]
          /\ new[Len(old) + 1] = x /\ (i \in 1 .. Len(old) \/ i = Len(old) + 1)
      BY <2>1, <2>5, Appended
    <3> QED
      BY <2>2, <2>5, <3>1, Basics
  <2> QED
    BY <1>0, <2>1, <2>3, <2>4, <2>5 DEF QueueOf
<1>2. ~Has(OnTheWay(s)', Enablings)
  <2>1. ~Has(OnTheWay(s), Enablings)
    BY <1>0, EnablingsWay DEF EnabledFirst
  <2> QED
    BY <1>0, <2>1, WayHas, SpeaksEnable, EnablesNone
<1>3. mode[c] = "BiClient" => mode'[c] = "BiClient"
  BY <1>0, ModeFlow
<1>4. ToSendEnable(c) => mode'[c] = "BiClient"
  BY <1>0 DEF ToSendEnable, EnableServerRequests, IdsAscend, TypeOK, PeerTypeOK
<1>5. Has(OnTheWay(c)', Enablings) => mode'[c] = "BiClient"
  <2>1. Has(OnTheWay(c), Enablings) => mode[c] = "BiClient"
    BY <1>0, EnablingsWay DEF EnabledFirst
  <2>2. Has(OnTheWay(c)', Enablings) => Has(OnTheWay(c), Enablings) \/ ToSendEnable(c)
    BY <1>0, WayHas, SpeaksEnable
  <2> QED
    BY <1>3, <1>4, <2>1, <2>2
<1>6. mode'[s] = "BiServer" => mode'[c] = "BiClient"
  <2>1. RecvEnableServerRequests(s) => mode[c] = "BiClient"
    <3>1. RecvEnableServerRequests(s) =>
            Arrived(s) # <<>> /\ Arriving(s).kind = "EnableServerRequests"
      BY DEF RecvEnableServerRequests, Accepts, Arrives, Arriving
    <3> QED
      BY <1>0, <3>1, FirstOnTheWay DEF EnabledFirst
  <2>2. mode'[s] = mode[s] \/ RecvEnableServerRequests(s)
    BY <1>0, ModeFlow, EnablesNone
  <2> QED
    BY <1>3, <2>1, <2>2 DEF EnabledFirst
<1>7. mode'[c] = "BiClient" => next'[c] <= Mid \/ next'[c] = NoId
  <2>0. next[c] \in Ids \cup {NoId} /\ Mid \in Nat /\ NoId \in Nat /\ Ids \subseteq Nat
    BY <1>0, Basics, IdAssumption DEF TypeOK, PeerTypeOK, Ids, NoId
  <2>1. mode[c] = "BiClient" => Advance(c) <= Mid \/ Advance(c) = NoId
    BY <2>0 DEF Advance
  <2>2. CASE mode'[c] = mode[c] /\ next'[c] = next[c]
    BY <2>2 DEF EnabledFirst
  <2>3. CASE ToSendRequest(c) /\ mode'[c] = mode[c] /\ next'[c] = Advance(c)
    BY <2>1, <2>3
  <2>4. CASE ToSendEnable(c)
    <3>1. next'[c] = CASE mode[c] = "UniServer" -> FirstServerId
                       [] mode[c] = "UniClient" -> IF Advance(c) <= Mid THEN Advance(c) ELSE NoId
                       [] OTHER -> Advance(c)
      BY <1>0, <2>4 DEF ToSendEnable, EnableServerRequests, TypeOK, PeerTypeOK
    <3>2. mode[c] \in {"UniClient", "BiClient"}
      BY <1>0 DEF IdsAscend
    <3> QED
      BY <2>0, <2>1, <3>1, <3>2
  <2> QED
    BY <1>0, <2>2, <2>3, <2>4, ModeFlow, EnablesNone
<1>8. /\ \A i \in 1 .. Len(OnTheWay(s)') : OnTheWay(s)'[i].kind # "EnableServerRequests"
      /\ (\E i \in 1 .. Len(OnTheWay(c)') : OnTheWay(c)'[i].kind = "EnableServerRequests")
            => mode'[c] = "BiClient"
  <2>1. ASSUME NEW p \in Peers
        PROVE  Has(OnTheWay(p)', Enablings) <=>
                  \E i \in 1 .. Len(OnTheWay(p)') : OnTheWay(p)'[i].kind = "EnableServerRequests"
    <3>1. OnTheWay(p)' \in Seq(Packets)
      <4>1. link'[p] \in Seq(Packets) /\ task'[p].packet \in Packets
        BY <1>0 DEF TypeOK, LinkTypeOK, TaskTypeOK, Tasks
      <4>2. InHand(p)' \in Seq(Packets)
        BY <4>1 DEF InHand
      <4> QED
        BY <4>1, <4>2 DEF OnTheWay
    <3>2. \A i \in 1 .. Len(OnTheWay(p)') : OnTheWay(p)'[i] \in Packets
      BY <3>1, Element
    <3> QED
      BY <3>2 DEF Has, Enablings
  <2> QED
    BY <1>0, <1>2, <1>5, <2>1
<1> QED
  BY <1>1, <1>6, <1>7, <1>8 DEF EnabledFirst

LEMMA NothingRefused ==
    ASSUME Sound, RequestInv, ApartInv, EnabledFirst, IdsApart,
           NEW p \in Peers, Selecting(p), ~should_close[p], Arrived(p) # <<>>
    PROVE  Refusal(p, Arriving(p)) = "none"
<1> DEFINE m == Arriving(p)
           q == Other(p)
<1>0. /\ TypeOK /\ IdsAscend /\ GenuinePackets /\ q \in Peers /\ Other(q) = p /\ q # p
      /\ ControlIds /\ result[p] = "running"
  BY TwoPeers DEF Sound, CorrelationInv, RequestInv, Selecting
<1>1. /\ m \in Packets /\ m.id \in Ids /\ Genuine(q, m)
      /\ 1 \in 1 .. Len(OnTheWay(q)) /\ OnTheWay(q)[1] = m
  BY <1>0, FirstOnTheWay, GenuineWay
<1>2. /\ waiting_on_stream[p][m.id] \in Calls \cup {NoCall}
      /\ waiting_on_user[p][m.id] \in Calls \cup {NoCall}
  BY <1>0, <1>1, TablesType
<1>3. ASSUME NEW c \in Calls, id_of[c] = m.id,
             NEW d \in Calls, d = waiting_on_stream[p][m.id] \/ d = waiting_on_user[p][m.id]
      PROVE  d = c
  <2>1. id_of[d] = m.id
    BY <1>0, <1>1, <1>3, ServedAt, AwaitedAt
  <2> QED
    BY <1>0, <1>1, <1>3, <2>1, SameCall
<1>4. CASE m.kind \in RequestKinds
  <2> DEFINE c == m.call
  <2>1. /\ c \in Calls /\ id_of[c] = m.id /\ KindOf[c] = m.kind /\ CallerOf[c] = q /\ Callee(c) = p
    BY <1>0, <1>1, <1>4 DEF Packets, Genuine, BodyKinds, Callee
  <2>2. Asked(c) /\ AskedOnce(c)
    <3>1. m \in AskFor(c)
      BY <1>1, <1>4, <2>1, PacketSets
    <3> QED
      BY <1>1, <2>1, <3>1 DEF Asked, Has, RequestInv
  <2>3. c # waiting_on_stream[p][m.id] /\ c # waiting_on_user[p][m.id]
    BY <1>1, <2>1, <2>2 DEF AskedOnce, Served, CallsIn
  <2>4. waiting_on_stream[p][m.id] = NoCall /\ waiting_on_user[p][m.id] = NoCall
    BY <1>2, <1>3, <2>1, <2>3
  <2>5. CanReceiveRequests(p)
    <3>1. CASE p = "server"
      BY <1>0, <3>1 DEF IdsAscend, CanReceiveRequests
    <3>2. CASE p = "client"
      <4>1. CallerOf[c] = "server" /\ id_of[c] # NoId /\ ~Old(c)
        BY <1>1, <2>1, <3>2, Basics DEF Other, Ids, NoId, Old
      <4>2. mode["server"] = "BiServer"
        BY <1>0, <2>1, <4>1 DEF IdsAscend
      <4> QED
        BY <3>2, <4>2 DEF EnabledFirst, CanReceiveRequests
    <3> QED
      BY <3>1, <3>2 DEF Peers
  <2> QED
    BY <1>4, <2>4, <2>5 DEF Refusal
<1>5. CASE m.kind \in AnswerKinds
  <2>1. \E c \in Requests : id_of[c] = m.id /\ Callee(c) = q
    <3>1. CASE m.kind = "Response"
      <4>1. m.call \in Calls /\ IsRequest(m.call) /\ Prod(m.call) = q /\ id_of[m.call] = m.id
        BY <1>1, <3>1 DEF Packets, Genuine, BodyKinds
      <4> QED
        BY <4>1, TwoEnds DEF Requests
    <3>2. CASE m.kind # "Response"
      BY <1>0, <1>1, <1>5, <3>2 DEF ControlIds, AnswerKinds
    <3> QED
      BY <3>1, <3>2
  <2>2. PICK c \in Requests : id_of[c] = m.id /\ Callee(c) = q
    BY <2>1
  <2>3. c \in Calls /\ IsRequest(c) /\ CallerOf[c] = p
    BY <1>0, <2>2, TwoEnds, TwoPeers DEF Requests
  <2>4. Answered(c, AnswerKinds)
    <3>1. m \in With(id_of[c], AnswerKinds)
      BY <1>1, <1>5, <2>2, <2>3, PacketSets
    <3> QED
      BY <1>1, <2>2, <3>1 DEF Answered, Has
  <2>5. Awaited(c)
    BY <1>0, <2>3, <2>4 DEF ApartInv, Expected, HasToken
  <2>6. PICK i \in Ids : waiting_on_stream[p][i] = c
    BY <2>3, <2>5 DEF Awaited, CallsIn
  <2>7. waiting_on_stream[p][m.id] = c /\ c # NoCall
    BY <1>0, <2>2, <2>3, <2>6, AwaitedAt, TwoEnds
  <2> QED
    BY <1>5, <2>3, <2>7 DEF Refusal, AnswerKinds, RequestKinds
<1>6. CASE m.kind = "Stream"
  <2>1. m.call \in Calls /\ ~IsRequest(m.call) /\ id_of[m.call] = m.id
    BY <1>1, <1>6 DEF Packets, Genuine, BodyKinds
  <2>2. waiting_on_stream[p][m.id] = NoCall \/ ~IsRequest(waiting_on_stream[p][m.id])
    BY <1>2, <1>3, <2>1
  <2> QED
    BY <1>6, <2>2 DEF Refusal, RequestKinds
<1>7. CASE m.kind \notin RequestKinds \cup AnswerKinds \cup {"Stream"}
  BY <1>7 DEF Refusal, AnswerKinds
<1> QED
  BY <1>4, <1>5, <1>6, <1>7

LEMMA NoDuplicate ==
    ASSUME Sound, EnabledFirst, IdsApart, NEW p \in Peers PROVE ~ToSendDuplicate(p)
<1> SUFFICES ASSUME ToSendDuplicate(p) PROVE FALSE
  OBVIOUS
<1> DEFINE c == Asking(p)
           d == CallTable(p, c)[next[p]]
<1>0. TypeOK /\ IdsAscend /\ next[p] \in Ids \cup {NoId} /\ Mid \in Nat
  BY IdAssumption DEF Sound, CorrelationInv, TypeOK, PeerTypeOK
<1>1. next[p] \in Ids /\ next[p] # NoId /\ d # NoCall
  BY <1>0 DEF ToSendDuplicate, Duplicate, Asking
<1>2. d \in Calls
  BY <1>0, <1>1, TablesType DEF CallTable
<1>3. id_of[d] = next[p] /\ id_of[d] # NoId
  BY <1>0, <1>1, <1>2, ServedAt, AwaitedAt DEF CallTable
<1> HIDE DEF d
<1>4. next[p] \in Nat
  BY <1>1, Basics DEF Ids
<1>5. CallerOf[d] # p
  BY <1>0, <1>2, <1>3, <1>4 DEF IdsAscend
<1>6. CASE p = "client"
  <2>1. CallerOf[d] = "server"
    BY <1>2, <1>5, <1>6, Basics DEF Peers
  <2>2. mode["server"] = "BiServer" /\ id_of[d] > Mid
    BY <1>0, <1>2, <1>3, <1>4, <2>1 DEF IdsAscend, Old
  <2>3. next["client"] <= Mid
    BY <1>1, <1>6, <2>2 DEF EnabledFirst
  <2> QED
    BY <1>0, <1>3, <1>4, <1>6, <2>2, <2>3
<1>7. CASE p = "server"
  <2>1. CallerOf[d] = "client"
    BY <1>2, <1>5, <1>7, Basics DEF Peers
  <2>2. mode["server"] = "BiServer"
    BY <1>0, <1>7 DEF ToSendDuplicate, HasRequest, CanSendRequests, IdsAscend
  <2>3. id_of[d] <= Mid /\ next["server"] > Mid
    BY <1>0, <1>2, <1>3, <2>1, <2>2 DEF IdsApart, IdsAscend
  <2> QED
    BY <1>0, <1>3, <1>4, <1>7, <2>3
<1> QED
  BY <1>6, <1>7 DEF Peers

LEMMA ProtocolStep ==
    ASSUME Sound, RequestInv, ApartInv, EnabledFirst, IdsApart, NoProtocolError, [Next]_vars, ~Reconnect
    PROVE  NoProtocolError'
<1>0. TypeOK /\ ~Reconnect
  BY SoundStep DEF Sound
<1>1. ASSUME NEW q \in Peers, NEW x \in {"Ok", "Io"}, End(q, x) PROVE NoProtocolError'
  BY <1>0, <1>1 DEF End, NoProtocolError, TypeOK, TaskTypeOK
<1>2. CASE UNCHANGED result
  BY <1>2 DEF NoProtocolError
<1>3. ASSUME NEW q \in Peers PROVE ~RecvRefused(q) /\ ~ToSendDuplicate(q)
  BY NothingRefused, NoDuplicate DEF RecvRefused, Arrives, Arriving
<1>4. ASSUME NEW q \in Peers, RecvMalformed(q) PROVE UNCHANGED result
  <2>1. Refusal(q, Arriving(q)) = "none"
    BY <1>4, NothingRefused DEF RecvMalformed, Arrives
  <2> QED
    BY <1>4, <2>1 DEF RecvMalformed, Arriving, endVars
<1>5. ASSUME NEW q \in Peers, Task(q) PROVE UNCHANGED result \/ \E x \in {"Ok", "Io"} : End(q, x)
  <2>1. CASE Recv(q)
    BY <1>3, <1>4, <2>1 DEF Recv, RecvEnableServerRequests, RecvRequest, RecvAnswer,
       RecvStream, RecvStreamClosed, RecvClose, RecvPing, ReadFails, taskVars, endVars
  <2>2. CASE Deliver(q) \/ Send(q) \/ Ping(q) \/ CloseSignal(q) \/ Finish(q)
    BY <2>2 DEF Deliver, DeliverRequest, DeliverToNobody, DeliverMessage, Send, Write,
       WriteFails, WriteClose, Ping, CloseSignal, Finish, taskVars, endVars
  <2>3. CASE ToSend(q)
    BY <1>3, <2>3 DEF ToSend, ToSendUser, ToSendEnable, ToSendRequest, ToSendNoId, taskVars,
       endVars
  <2> QED
    BY <1>5, <2>1, <2>2, <2>3 DEF Task
<1>6. CASE \/ \E q \in Peers : User(q)
           \/ \E d \in Calls : UserCall(d)
           \/ AskEnable \/ Break \/ UNCHANGED vars
  BY <1>2, <1>6 DEF User, Receive, DropReceiver, SignalClose, UserCall, StartCall, RefuseCall,
     Answer, Emit, DropSender, Take, CloseStream, Cancel, AskEnable, Break, vars, taskVars,
     endVars
<1> QED
  BY <1>0, <1>1, <1>2, <1>5, <1>6 DEF Next

-----------------------------------------------------------------------------
(* An answer that was sent is not lost *)

\* an end that has run out of ids does not get new ones
LEMMA IdsLeftBefore ==
    ASSUME Sound, [Next]_vars, ~Reconnect, IdsLeft' PROVE IdsLeft
<1> SUFFICES ASSUME NEW p \in Peers, CanSendRequests(p), next[p] = NoId PROVE FALSE
  BY DEF IdsLeft
<1>0. TypeOK /\ ~Reconnect /\ ~(NoId <= Mid)
  BY SoundStep, IdAssumption DEF Sound, NoId
<1>1. mode[p] \in {"UniClient", "BiServer", "BiClient"}
  BY <1>0 DEF TypeOK, PeerTypeOK, CanSendRequests
<1>2. ~ToSendRequest(p) /\ ~ToSendEnable(p)
  BY DEF ToSendRequest, ToSendEnable
<1>3. RecvEnableServerRequests(p) => next'[p] = NoId
  BY <1>0, <1>1 DEF RecvEnableServerRequests, EnableServerRequests, TypeOK, PeerTypeOK
<1>4. next'[p] = NoId /\ mode'[p] # "UniServer"
  BY <1>0, <1>1, <1>2, <1>3, ModeFlow
<1> QED
  BY <1>4 DEF IdsLeft, CanSendRequests

\* a task ends with Ok, or says Close, when there is nothing to send or Close is said
LEMMA CloseFlow ==
    ASSUME Sound, [Next]_vars, ~Reconnect, NEW p \in Peers
    PROVE  /\ result'[p] = "Ok" =>
                result[p] = "Ok" \/ ((Finish(p) \/ WriteClose(p)) /\ End(p, "Ok"))
           /\ Saying(p, "Close")' =>
                \/ Saying(p, "Close")
                \/ Finish(p) /\ waiting_on_user'[p] = waiting_on_user[p]
<1>0. TypeOK /\ ~Reconnect /\ Ended
  BY SoundStep DEF Sound
<1>1. ASSUME NEW q \in Peers, Task(q)
      PROVE  \/ UNCHANGED result
             \/ (Finish(q) \/ WriteClose(q)) /\ End(q, "Ok")
             \/ \E x \in Results \ {"Ok"} : End(q, x)
  <2>1. CASE Recv(q)
    BY <2>1 DEF Recv, RecvRefused, RecvEnableServerRequests, RecvRequest, RecvAnswer, RecvStream,
       RecvStreamClosed, RecvClose, RecvPing, RecvMalformed, ReadFails, Refusal, Results,
       taskVars, endVars
  <2>2. CASE Deliver(q) \/ Send(q) \/ Ping(q) \/ CloseSignal(q) \/ Finish(q)
    BY <2>2 DEF Deliver, DeliverRequest, DeliverToNobody, DeliverMessage, Send, Write, WriteFails,
       WriteClose, Ping, CloseSignal, Finish, Results, taskVars, endVars
  <2>3. CASE ToSend(q)
    BY <2>3 DEF ToSend, ToSendUser, ToSendEnable, ToSendRequest, ToSendDuplicate, ToSendNoId,
       Results, taskVars, endVars
  <2> QED
    BY <1>1, <2>1, <2>2, <2>3 DEF Task
<1>2. ASSUME NEW q \in Peers, Task(q)
      PROVE  \/ UNCHANGED task \/ \E t : t.at = "select" /\ task' = [task EXCEPT ![q] = t]
             \/ Goto(q, "deliver", Arriving(q)) \/ \E m : m.kind # "Close" /\ Goto(q, "write", m)
             \/ Finish(q) /\ UNCHANGED waiting_on_user
  <2>0. \A x : End(q, x) => task' = [task EXCEPT ![q] = Idle]
    BY DEF End
  <2>1. CASE Recv(q)
    BY <2>0, <2>1 DEF Recv, RecvRefused, RecvEnableServerRequests, RecvRequest, RecvAnswer,
       RecvStream, RecvStreamClosed, RecvClose, RecvPing, RecvMalformed, ReadFails, Arriving,
       Complaint, Control, Packet, Idle, taskVars
  <2>2. CASE Deliver(q) \/ Send(q) \/ Ping(q) \/ CloseSignal(q)
    BY <2>0, <2>2 DEF Deliver, DeliverRequest, DeliverToNobody, DeliverMessage, Send, Write,
       WriteFails, WriteClose, Ping, CloseSignal, Control, Packet, Idle
  <2>3. CASE Finish(q)
    BY <2>0, <2>3 DEF Finish, Idle, peerVars
  <2>4. CASE ToSend(q)
    <3>1. ASSUME NEW id \in Ids, ToSendUser(q, id)
          PROVE  Goto(q, "write", Said(q, id)) /\ Said(q, id).kind # "Close"
      BY <3>1, SaidKinds DEF ToSendUser, Said
    <3>2. ToSendRequest(q) => KindOf[Asking(q)] \in RequestKinds
      BY <1>0, CallEntries, Basics
    <3> QED
      BY <2>0, <2>4, <3>1, <3>2 DEF ToSend, ToSendEnable, ToSendRequest, Asking, ToSendDuplicate,
         ToSendNoId, Control, Packet, Idle, RequestKinds, taskVars
  <2> QED
    BY <1>2, <2>1, <2>2, <2>3, <2>4 DEF Task
<1>3. CASE \/ \E q \in Peers : User(q)
           \/ \E d \in Calls : UserCall(d)
           \/ AskEnable \/ Break \/ UNCHANGED vars
  BY <1>3 DEF User, Receive, DropReceiver, SignalClose, UserCall, StartCall, RefuseCall,
     Answer, Emit, DropSender, Take, CloseStream, Cancel, AskEnable, Break, vars, taskVars,
     endVars, Saying
<1>4. ASSUME NEW q \in Peers, Task(q), result'[p] = "Ok"
      PROVE  result[p] = "Ok" \/ ((Finish(p) \/ WriteClose(p)) /\ End(p, "Ok"))
  <2>1. CASE UNCHANGED result
    BY <1>4, <2>1
  <2>2. ASSUME NEW x \in Results, End(q, x) PROVE result[p] = "Ok" \/ (q = p /\ x = "Ok")
    BY <1>0, <1>4, <2>2 DEF End, TypeOK, TaskTypeOK
  <2> QED
    BY <1>1, <1>4, <2>1, <2>2 DEF Results
<1>5. ASSUME NEW q \in Peers, Task(q), Saying(p, "Close")'
      PROVE  Saying(p, "Close") \/ (Finish(p) /\ waiting_on_user'[p] = waiting_on_user[p])
  <2>1. ASSUME NEW t, task' = [task EXCEPT ![q] = t] PROVE task'[p] = IF q = p THEN t ELSE task[p]
    BY <1>0, <2>1 DEF TypeOK, TaskTypeOK
  <2>2. CASE p = q
    BY <1>2, <1>5, <2>1, <2>2 DEF Saying, Goto
  <2>3. CASE p # q
    <3>1. task'[p] = task[p]
      <4>1. task' = task \/ \E t : task' = [task EXCEPT ![q] = t]
        BY <1>2, <1>5 DEF Goto, Finish, End
      <4> QED
        BY <2>1, <2>3, <4>1
    <3> QED
      BY <1>5, <3>1 DEF Saying
  <2> QED
    BY <2>2, <2>3
<1> QED
  BY <1>0, <1>3, <1>4, <1>5 DEF Next

\* a task that closes gracefully closes with an empty waiting_on_user
LEMMA ClosesEmpty ==
    ASSUME Sound, IdsLeft, Drained, NEW p \in Peers, Finish(p) \/ WriteClose(p)
    PROVE  waiting_on_user[p] = EmptyTable
<1>1. CASE Finish(p)
  BY <1>1 DEF Finish, NothingToSend, IdsLeft
<1>2. CASE WriteClose(p)
  BY <1>2 DEF WriteClose, Writing, Drained, Saying
<1> QED
  BY <1>1, <1>2

LEMMA DrainedStays ==
    ASSUME Sound, IdsLeft, Drained, [Next]_vars, ~Reconnect PROVE Drained'
<1> SUFFICES ASSUME NEW p \in Peers, result'[p] = "Ok" \/ Saying(p, "Close")'
             PROVE  waiting_on_user'[p] = EmptyTable
  BY DEF Drained, Saying
<1>0. TypeOK /\ UserEntriesOf(p) /\ Ended
  BY EntriesFlow, SoundStep DEF Sound
<1>1. ASSUME End(p, "Ok") PROVE waiting_on_user'[p] = EmptyTable
  BY <1>0, <1>1, TablesType DEF End, KeepsHandler, DropHandler
<1>2. CASE result[p] = "Ok" \/ Saying(p, "Close")
  <2>1. ~Selecting(p)
    BY <1>2 DEF Selecting, Saying
  <2>2. waiting_on_user[p] = EmptyTable
    BY <1>2 DEF Drained
  <2> QED
    BY <1>0, <2>1, <2>2 DEF UserEntriesOf, RecvRequest, Accepts, Arrives, ToSendRequest,
       HasRequest, ToSendUser
<1>3. CASE Finish(p) /\ waiting_on_user'[p] = waiting_on_user[p]
  BY <1>3, ClosesEmpty
<1> QED
  BY <1>1, <1>2, <1>3, CloseFlow

\* the Response that arrives resolves the Request that waits for it
LEMMA ResponseResolves ==
    ASSUME Sound, [Next]_vars, ~Reconnect, NEW c \in Requests, res[c] = "pending", id_of[c] # NoId,
           Listens(CallerOf[c]), Arriving(CallerOf[c]) \in With(id_of[c], {"Response"}),
           result'[CallerOf[c]] = "running"
    PROVE  res'[c] # "pending"
<1> DEFINE p == CallerOf[c]
           a == Arriving(p)
<1>0. /\ c \in Calls /\ IsRequest(c) /\ p \in Peers /\ TypeOK /\ NoOrphan /\ QueuedOnce
  BY TwoEnds DEF Requests, Sound, OrphanInv, CorrelationInv
<1>1. Recv(p) /\ Arrives(p, Kinds) /\ a.kind = "Response" /\ a.id = id_of[c]
  BY DEF Listens, With
<1>2. c \in CallsIn(waiting_on_stream[p])
  <2>1. c \notin CallsOf(rx_requests[p])
    BY <1>0, TwoEnds DEF QueuedOnce, CallsOf
  <2> QED
    BY <1>0, <2>1 DEF NoOrphan
<1>3. waiting_on_stream[p][a.id] = c
  <2>1. PICK i \in Ids : waiting_on_stream[p][i] = c
    BY <1>2 DEF CallsIn
  <2> QED
    BY <1>0, <1>1, <2>1, AwaitedAt
<1>4. ASSUME NEW x, x # "running", End(p, x) PROVE FALSE
  BY <1>0, <1>4 DEF End, TypeOK, TaskTypeOK
<1>5. RecvRefused(p) => \E x : x # "running" /\ End(p, x)
  BY DEF RecvRefused, Refusal
<1>6. ReadFails(p) => \E x : x # "running" /\ End(p, x)
  BY DEF ReadFails
<1>7. RecvAnswer(p) \/ RecvMalformed(p)
  BY <1>1, <1>4, <1>5, <1>6 DEF Recv, RecvEnableServerRequests, RecvRequest, RecvStream,
     RecvStreamClosed, RecvClose, RecvPing, Accepts, Arrives, Arriving, RequestKinds
<1>8. res' = [res EXCEPT ![c] = "Ok"] \/ res' = [res EXCEPT ![c] = "ResponsePacket"]
  <2>1. RecvAnswer(p) => res' = [res EXCEPT ![c] = "Ok"]
    BY <1>1, <1>3 DEF RecvAnswer, Arriving
  <2>2. RecvMalformed(p) => res' = [res EXCEPT ![c] = "ResponsePacket"]
    BY <1>0, <1>1, <1>3, <1>4 DEF RecvMalformed, Arriving, TypeOK, CallTypeOK
  <2> QED
    BY <1>7, <2>1, <2>2
<1> QED
  BY <1>0, <1>8 DEF TypeOK, CallTypeOK

\* AnswerNotLost, for one Request
Heeding(c) == /\ sent[c] = 1 /\ ~broken
              /\ result[CallerOf[c]] = "running" /\ ~should_close[CallerOf[c]]
              /\ result[Callee(c)] \in {"running", "Ok"}
HasAnswer(c) == res[c] # "pending" \/ up[c] # <<>> \/ Answered(c, {"Response"})

LEMMA AnswerStays ==
    ASSUME Sound, RequestInv, IdsLeft, Drained, [Next]_vars, ~Reconnect, NEW c \in Requests,
           Heeding(c) => HasAnswer(c), Heeding(c)'
    PROVE  HasAnswer(c)'
<1> DEFINE p == CallerOf[c]
           q == Callee(c)
<1>0. /\ c \in Calls /\ IsRequest(c) /\ p \in Peers /\ q \in Peers /\ Other(q) = p
      /\ TypeOK /\ Ended /\ OwnCalls /\ ~Reconnect /\ HandleOf(c) /\ Meaning(c)
  BY TwoEnds, SoundStep DEF Requests, Sound, RequestInv, OrphanInv
<1>1. ~broken /\ result[p] = "running" /\ ~should_close[p] /\ result[q] \in {"running", "Ok"}
  BY <1>0, OnceEnded DEF Heeding, Callee
<1>2. CASE Answer(c)
  <2>1. up'[c] = <<1>> \/ sent'[c] = sent[c]
    BY <1>0, <1>2 DEF Answer, TypeOK, CallTypeOK
  <2>2. sent[c] = 0
    BY <1>0, <1>2 DEF Answer, HandleOf
  <2>3. sent'[c] = 1
    BY DEF Heeding
  <2>4. up'[c] = <<1>>
    BY <2>1, <2>2, <2>3
  <2>5. <<1>> # <<>>
    OBVIOUS
  <2>6. up'[c] # <<>>
    BY <2>4, <2>5, Zenon
  <2> QED
    BY <2>6 DEF HasAnswer
<1>3. CASE ~Answer(c)
  <2>1. sent[c] = 1
    BY <1>3, SentFlow DEF Heeding
  <2>2. HasAnswer(c) /\ id_of[c] # NoId /\ res[c] # "idle"
    BY <1>0, <1>1, <2>1 DEF Heeding, HandleOf, Unheard, Meaning
  <2>3. id_of'[c] = id_of[c]
    <3>1. ~Asks(c)
      BY <1>0, <2>2, AskedFlow
    <3> QED
      BY <1>0, <3>1, IdFlow
  <2>4. CASE res[c] # "pending"
    <3>1. res'[c] # "pending"
      BY <1>0, <2>2, <2>4, PendingBy DEF StartCall
    <3> QED
      BY <3>1 DEF HasAnswer
  <2>5. CASE up[c] # <<>>
    <3>1. Served(c)
      BY <1>0, <2>5 DEF HandleOf
    <3>2. waiting_on_user[q] # EmptyTable
      BY <1>0, <3>1, TwoEnds DEF Served, CallsIn, EmptyTable
    <3>3. CASE Replies(c)
      BY <2>5, <3>3, RepliesIt DEF HasAnswer, Over
    <3>4. result'[q] = "running"
      <4>1. result'[q] \in {"running", "Ok"}
        BY DEF Heeding, Callee
      <4>2. result'[q] # "Ok"
        BY <1>0, <3>2, ClosesEmpty, CloseFlow DEF Drained
      <4> QED
        BY <4>1, <4>2
    <3> QED
      BY <1>3, <2>5, <3>3, <3>4, SentFlow DEF HasAnswer
  <2>6. CASE Answered(c, {"Response"}) /\ res[c] = "pending"
    <3> DEFINE X == With(id_of[c], {"Response"})
    <3>1. Has(OnTheWay(q), X)
      BY <2>6 DEF Answered
    <3>2. Has(OnTheWay(q)', X) => Answered(c, {"Response"})'
      BY <2>3 DEF Answered, Callee
    <3>3. Listens(p) /\ Arriving(p) \in X => res'[c] # "pending"
      BY <2>2, <2>6, ResponseResolves DEF Heeding
    <3>4. ~Lost(q)
      BY <1>0 DEF Lost, Heeding, Callee
    <3> HIDE DEF X
    <3> QED
      BY <1>0, <3>1, <3>2, <3>3, <3>4, WayHas DEF HasAnswer
  <2> QED
    BY <2>2, <2>4, <2>5, <2>6 DEF HasAnswer
<1> QED
  BY <1>2, <1>3

LEMMA AnswerNotLostIs ==
    ASSUME Sound PROVE AnswerNotLost <=> \A c \in Requests : Heeding(c) => HasAnswer(c)
<1> SUFFICES ASSUME NEW c \in Requests
             PROVE  Carries(Callee(c), c, {"Response"}) <=> Answered(c, {"Response"})
  <2>1. \A c \in Requests : Other(CallerOf[c]) = Callee(c)
    BY TwoEnds DEF Requests
  <2> QED
    BY <2>1 DEF AnswerNotLost, Heeding, HasAnswer
<1> DEFINE q == Callee(c)
<1>1. c \in Calls /\ q \in Peers /\ TypeOK /\ GenuinePackets
  BY TwoEnds DEF Requests, Sound, CorrelationInv
<1>2. ASSUME NEW i \in 1 .. Len(OnTheWay(q))
      PROVE  OnTheWay(q)[i] \in With(id_of[c], {"Response"}) <=>
                OnTheWay(q)[i].kind \in {"Response"} /\ OnTheWay(q)[i].id = id_of[c]
  BY <1>1, GenuineWay, PacketSets
<1> QED
  BY <1>2 DEF Carries, Answered, Has

-----------------------------------------------------------------------------
(* The theorems *)

LEMMA OthersInit ==
    ASSUME Init PROVE NoneForgotten /\ EnabledFirst /\ Drained /\ NoProtocolError
<1>1. ASSUME NEW p \in Peers PROVE OnTheWay(p) = <<>> /\ rx_requests[p] = <<>>
  <2>1. task[p].at = "select" /\ link[p] = <<>> /\ rx_requests[p] = <<>>
    BY DEF Init, Idle
  <2> QED
    BY <2>1 DEF OnTheWay, InHand, Writing
<1>2. mode["server"] = "UniServer" /\ mode["client"] = "UniClient"
  BY DEF Init, Peers
<1>3. EnabledFirst
  BY <1>1, <1>2 DEF EnabledFirst, Peers
<1>4. Drained /\ NoProtocolError
  BY DEF Init, Drained, Saying, Idle, NoProtocolError
<1>5. NoneForgotten
  BY Basics DEF Init, NoneForgotten, Awaited, CallsIn, EmptyTable, Requests
<1> QED
  BY <1>3, <1>4, <1>5

\* a new byte stream owes nothing to the calls of the old one
LEMMA NewCalls ==
    ASSUME Sound, CallsInv, Reconnect, Clean
    PROVE  NoneForgotten' /\ ApartInv' /\ EnabledFirst' /\ Drained' /\ NoProtocolError'
<1>0. /\ \A p \in Peers : /\ OnTheWay(p)' = <<>> /\ task'[p] = task[p] /\ task[p].at = "select"
                          /\ result'[p] = "running" /\ should_close'[p] = FALSE
                          /\ waiting_on_stream'[p] = EmptyTable /\ waiting_on_user'[p] = EmptyTable
      /\ rx_requests' = rx_requests /\ rx_requests["server"] = <<>>
      /\ mode'["server"] = "UniServer" /\ next'["client"] = 0
      /\ \A c \in Calls : id_of[c] = NoId <=> id_of'[c] = NoId
      /\ \A c \in Calls : id_of'[c] # NoId => Old(c)'
  BY NewStream
<1>1. \A c \in Calls : c \notin CallsIn(EmptyTable)
  BY Basics DEF CallsIn, EmptyTable
<1>2. \A X : ~Has(<<>>, X)
  BY DEF Has
<1>3. ASSUME NEW c \in Calls
      PROVE  ~Awaited(c)' /\ ~Served(c)' /\ ~HasToken(c)' /\ \A X : ~Answered(c, X)'
  <2>1. CallerOf[c] \in Peers /\ Callee(c) \in Peers /\ Callee(c)' = Callee(c)
    BY TwoEnds DEF Callee
  <2>2. OnTheWay(CallerOf[c])' = <<>> /\ OnTheWay(Callee(c))' = <<>>
    BY <1>0, <2>1
  <2>3. ~Asked(c)' /\ (\A X : ~Answered(c, X)')
    BY <1>2, <2>1, <2>2 DEF Asked, Answered
  <2>4. ~Served(c)' /\ ~Awaited(c)'
    BY <1>0, <1>1, <2>1 DEF Served, Awaited
  <2>5. ~Answered(c, AnswerKinds)'
    BY <2>3 DEF Answered, AnswerKinds
  <2> QED
    BY <2>3, <2>4, <2>5 DEF HasToken
<1>4. NoneForgotten'
  BY <1>3 DEF NoneForgotten, Requests
<1>5. ApartInv'
  <2> SUFFICES ASSUME NEW c \in Requests PROVE Chosen(c)' /\ Expected(c)'
    BY DEF ApartInv, Requests, IsRequest
  <2>1. c \in Calls /\ Meaning(c)
    BY DEF CallsInv, RequestInv, Requests
  <2>2. res'[c] = "NoResponse" => res[c] = "NoResponse"
    BY <2>1, ReconnectedCalls DEF Sound, OrphanInv
  <2>3. res'[c] = "NoResponse" => Old(c)'
    BY <1>0, <2>1, <2>2 DEF Meaning, Past
  <2> QED
    BY <1>3, <2>1, <2>3 DEF Chosen, Expected
<1>6. EnabledFirst'
  <2>1. OnTheWay("server")' = <<>> /\ OnTheWay("client")' = <<>>
    BY <1>0 DEF Peers
  <2>2. next'["client"] <= Mid
    BY <1>0, Basics
  <2> QED
    BY <1>0, <2>1, <2>2 DEF EnabledFirst
<1>7. Drained' /\ NoProtocolError'
  BY <1>0 DEF Drained, NoProtocolError
<1> QED
  BY <1>4, <1>5, <1>6, <1>7

\* a Request that is still pending then waits in the queue of its caller
LEMMA StillQueued ==
    ASSUME Sound, CallsInv, Reconnect, Clean, NEW c \in Requests, res'[c] = "pending"
    PROVE  id_of[c] = NoId /\ sent'[c] = 0 /\ c \in CallsOf(rx_requests[CallerOf[c]])
<1>0. /\ c \in Calls /\ IsRequest(c) /\ TypeOK /\ Ended /\ Dropped /\ QueuedOnce /\ HandleOf(c)
      /\ NoOrphan /\ CallerOf[c] \in Peers
  BY TwoEnds DEF Requests, Sound, OrphanInv, CorrelationInv, CallsInv, RequestInv
<1>1. res[c] = "pending" /\ c \notin CallsIn(waiting_on_stream["client"]) /\ sent' = sent
  BY <1>0, ReconnectedCalls
<1>2. /\ rx_requests["server"] = <<>> /\ waiting_on_stream["server"] = EmptyTable
  BY <1>0 DEF Reconnect, Dropped, KeepsHandler, Peers
<1>3. c \notin CallsIn(EmptyTable)
  BY Basics DEF CallsIn, EmptyTable
<1>4. c \in CallsOf(rx_requests[CallerOf[c]])
  BY <1>0, <1>1, <1>2, <1>3 DEF NoOrphan, Peers
<1>5. id_of[c] = NoId
  <2>1. PICK i \in 1 .. Len(rx_requests[CallerOf[c]]) : rx_requests[CallerOf[c]][i] = c
    BY <1>4 DEF CallsOf
  <2>2. c # Enable
    BY <1>0, Basics
  <2> QED
    BY <1>0, <2>1, <2>2 DEF QueuedOnce
<1> QED
  BY <1>0, <1>1, <1>4, <1>5 DEF HandleOf, Unheard

\* Every step of the two ends, and every clean reconnection, keeps CallsInv: where a call
\* is, what its packets mean, and that each end can go on with what the other says.
THEOREM CallsInvHolds == Spec /\ CleanReconnects => []CallsInv
<1>1. Init => NoneForgotten /\ EnabledFirst /\ Drained /\ ApartInv
  BY OthersInit, ApartInit
<1>2. Sound /\ CallsInv /\ [Next]_vars /\ [Reconnect => Clean]_vars =>
        NoneForgotten' /\ ApartInv' /\ EnabledFirst' /\ (IdsLeft => Drained)'
  <2>1. CASE ~Reconnect
    BY <2>1, ForgottenStep, ApartStep, EnabledStep, IdsLeftBefore, DrainedStays DEF CallsInv
  <2> QED
    BY <2>1, CleanOne, NewCalls
<1>3. /\ CallsInv => RequestInv /\ NoneForgotten /\ ApartInv /\ EnabledFirst
                     /\ (IdsLeft => Drained)
      /\ Sound /\ RequestInv /\ NoneForgotten /\ ApartInv /\ EnabledFirst /\ (IdsLeft => Drained)
            => CallsInv
  BY DEF CallsInv, Sound
<1>4. Spec /\ CleanReconnects => []Sound
  BY SoundAlways
<1>5. Spec /\ CleanReconnects => []RequestInv
  BY RequestInvHolds
<1> QED
  BY <1>1, <1>2, <1>3, <1>4, <1>5, PTL DEF Spec, CleanReconnects

\* While both ends serve the connection a waiting Request is in exactly one place, with
\* whatever ids: also a client that enabled server requests too late keeps it.
THEOREM TokenOnce == Spec /\ CleanReconnects => []OneToken
<1>1. Sound /\ CallsInv => OneToken
  BY TokenOfOne DEF CallsInv
<1>2. Spec /\ CleanReconnects => []Sound
  BY SoundAlways
<1>3. Spec /\ CleanReconnects => []CallsInv
  BY CallsInvHolds
<1> QED
  BY <1>1, <1>2, <1>3, PTL

\* While the ids of the two ends are apart a NoResponse is the responder's doing: it dropped
\* its ResponseSender unused or its end closes.  A client that reconnects has had its answer
\* before: nothing of a new byte stream ends a Request of an old one.
THEOREM NoResponseMeant == Spec /\ CleanReconnects => [](IdsApart => NoResponseIsChosen)
<1>1. CallsInv => (IdsApart => NoResponseIsChosen)
  <2> SUFFICES ASSUME RequestInv, ApartInv, IdsApart, NEW c \in Requests, res[c] = "NoResponse"
               PROVE  sent[c] = 0 /\ (tx[c] = "dropped" \/ should_close[Prod(c)] \/ Old(c))
    BY DEF NoResponseIsChosen, CallsInv
  <2>1. Meaning(c) /\ Chosen(c)
    BY DEF RequestInv, ApartInv
  <2> QED
    BY <2>1, TwoEnds DEF Meaning, Chosen, Requests
<1>2. Spec /\ CleanReconnects => []CallsInv
  BY CallsInvHolds
<1> QED
  BY <1>1, <1>2, PTL

\* While the ids are apart Handler::send never refuses a packet of the other end, and no
\* assertion on a new id fails, on the first byte stream and on those a client reconnects
\* to (handler.rs 390-506, 533-548).
THEOREM NeverRefused == Spec /\ CleanReconnects => [](IdsApart => NoProtocolError)
<1>1. Init => NoProtocolError
  BY OthersInit
<1>2. Sound /\ CallsInv /\ (IdsApart => NoProtocolError) /\ [Next]_vars
         /\ [Reconnect => Clean]_vars => (IdsApart => NoProtocolError)'
  <2>1. CASE ~Reconnect
    BY <2>1, ApartBefore, ProtocolStep DEF CallsInv
  <2> QED
    BY <2>1, CleanOne, NewCalls
<1>3. Spec /\ CleanReconnects => []Sound
  BY SoundAlways
<1>4. Spec /\ CleanReconnects => []CallsInv
  BY CallsInvHolds
<1> QED
  BY <1>1, <1>2, <1>3, <1>4, PTL DEF Spec, CleanReconnects

\* A ResponseSender::send that succeeded is not lost while its caller serves the connection, not
\* even when the responder closes gracefully after it: to_send runs until it returns None.
\* The condition is the code's own: with its ids exhausted, an end that closes takes the
\* queued request it cannot send for None, and leaves the answers (handler.rs 521).
THEOREM AnswersArrive == Spec /\ CleanReconnects => [](IdsLeft => AnswerNotLost)
<1> DEFINE Kept == \A c \in Requests : Heeding(c) => HasAnswer(c)
<1>1. Init => Kept
  <2>1. Init => \A c \in Requests : sent[c] # 1
    BY DEF Init, Requests
  <2> QED
    BY <2>1 DEF Heeding
<1>2. Sound /\ CallsInv /\ (IdsLeft => Kept) /\ [Next]_vars /\ [Reconnect => Clean]_vars
         => (IdsLeft => Kept)'
  <2> SUFFICES ASSUME Sound, CallsInv, IdsLeft => Kept, [Next]_vars, [Reconnect => Clean]_vars,
                      IdsLeft', NEW c \in Requests, Heeding(c)'
               PROVE  HasAnswer(c)'
    BY DEF Requests, IsRequest
  <2>1. CASE ~Reconnect
    <3>1. IdsLeft
      BY <2>1, IdsLeftBefore
    <3> QED
      BY <2>1, <3>1, AnswerStays DEF CallsInv
  <2>2. CASE Reconnect
    BY <2>2, CleanOne, StillQueued DEF Heeding, HasAnswer
  <2> QED
    BY <2>1, <2>2
<1>3. Sound => (Kept => AnswerNotLost)
  BY AnswerNotLostIs
<1>4. Spec /\ CleanReconnects => []Sound
  BY SoundAlways
<1>5. Spec /\ CleanReconnects => []CallsInv
  BY CallsInvHolds
<1> HIDE DEF Kept
<1> QED
  BY <1>1, <1>2, <1>3, <1>4, <1>5, PTL DEF Spec, CleanReconnects

-----------------------------------------------------------------------------
(* A client that only asks *)

LEMMA OwesStep ==
    ASSUME OnlyAsks, TypeOK, Ended, OwnCalls, OwesNothing, [Next]_vars PROVE OwesNothing'
<1>0. "client" \in Peers /\ "server" \in Peers /\ Peers = {"client", "server"}
  BY DEF Peers
<1>1. ASSUME NEW p \in Peers, ToSendEnable(p) PROVE FALSE
  <2>1. CASE p = "client"
    <3>1. /\ rx_requests["client"] \in Seq(Calls \cup {Enable})
          /\ rx_requests["client"] # <<>> /\ Head(rx_requests["client"]) = Enable
      BY <1>0, <1>1, <2>1, QueueType DEF ToSendEnable, HasRequest
    <3> QED
      BY <3>1, TailOf DEF OwesNothing
  <2>2. CASE p = "server"
    BY <1>1, <2>2 DEF ToSendEnable, HasRequest, CanSendRequests, OwesNothing
  <2> QED
    BY <2>1, <2>2 DEF Peers
<1>2. ASSUME NEW p \in Peers, RecvEnableServerRequests(p) PROVE FALSE
  <2>1. Arrived(p) # <<>> /\ Arriving(p).kind = "EnableServerRequests"
    BY <1>2 DEF RecvEnableServerRequests, Accepts, Arrives, Arriving
  <2>2. 1 \in 1 .. Len(OnTheWay(Other(p))) /\ OnTheWay(Other(p))[1] = Arriving(p)
    BY <2>1, FirstOnTheWay
  <2> QED
    BY <2>1, <2>2, TwoPeers DEF OwesNothing
<1>3. mode'["client"] = "UniClient" /\ mode'["server"] = "UniServer"
  <2>1. CASE Reconnect
    <3>1. mode' = [mode EXCEPT !["server"] = "UniServer"]
      BY <2>1 DEF Reconnect
    <3> QED
      BY <1>0, <3>1 DEF TypeOK, PeerTypeOK, OwesNothing
  <2>2. CASE ~Reconnect
    <3>1. \A p \in Peers : mode'[p] = mode[p]
      BY <1>1, <1>2, <2>2, ModeFlow
    <3> QED
      BY <1>0, <3>1 DEF OwesNothing
  <2> QED
    BY <2>1, <2>2
<1>4. waiting_on_user'["client"] = EmptyTable
  <2>1. UserEntriesOf("client")
    BY <1>0, EntriesFlow
  <2>2. ~RecvRequest("client")
    BY Basics DEF RecvRequest, Accepts, Arrives, Refusal, CanReceiveRequests, OwesNothing
  <2>3. ASSUME ToSendRequest("client") PROVE KindOf[Asking("client")] # "RequestSender"
    <3>1. HasRequest("client") /\ Asking("client") # Enable
      BY <2>3 DEF ToSendRequest, Asking
    <3>2. Asking("client") \in Calls /\ CallerOf[Asking("client")] = "client"
      BY <1>0, <2>3, <3>1, AskedFirst, CallEntries
    <3> QED
      BY <3>2 DEF OnlyAsks
  <2>4. ASSUME NEW id \in Ids PROVE ~ToSendUser("client", id)
    BY DEF ToSendUser, OwesNothing, EmptyTable
  <2> QED
    BY <2>1, <2>2, <2>3, <2>4 DEF UserEntriesOf, OwesNothing
<1>5. ~AskEnable
  <2> DEFINE s == link["client"]
             t == rx_requests["client"]
             A == {i \in 1 .. Len(t) : t[i] = Enable}
             B == {i \in 1 .. Len(s) : s[i].kind = "EnableServerRequests"}
  <2>1. Len(s) \in Nat /\ Len(t) \in Nat
    BY <1>0, QueueType DEF TypeOK, LinkTypeOK
  <2>2. IsFiniteSet(1 .. Len(s)) /\ IsFiniteSet(1 .. Len(t))
    <3>1. \A k \in Nat : IsFiniteSet(1 .. k)
      BY FS_Interval
    <3> QED
      BY <2>1, <3>1
  <2>3. Cardinality(A) \in Nat /\ Cardinality(B) \in Nat
    <3>1. A \in SUBSET (1 .. Len(t)) /\ B \in SUBSET (1 .. Len(s))
      OBVIOUS
    <3>2. IsFiniteSet(A) /\ IsFiniteSet(B)
      BY <2>2, <3>1, FS_Subset
    <3> QED
      BY <3>2, FS_CardinalityType
  <2>4. Enabling = Cardinality(A) + Cardinality(B)
                   + (IF task["client"].packet.kind = "EnableServerRequests" THEN 1 ELSE 0)
    BY DEF Enabling
  <2> HIDE DEF A, B
  <2>5. ~(Enabling < 0)
    BY <2>3, <2>4
  <2> QED
    BY <2>5 DEF AskEnable, OnlyAsks
<1>6. \A i \in 1 .. Len(rx_requests'["client"]) : rx_requests'["client"][i] # Enable
  <2> DEFINE old == rx_requests["client"]
             new == rx_requests'["client"]
  <2>1. old \in Seq(Calls \cup {Enable}) /\ \A i \in 1 .. Len(old) : old[i] # Enable
    BY <1>0, QueueType DEF OwesNothing
  <2>2. ASSUME NEW x \in Calls, new = Append(old, x), NEW i \in 1 .. Len(new)
        PROVE  new[i] # Enable
    <3> HIDE DEF old, new
    <3>1. /\ \A j \in 1 .. Len(old) : new[j] = old[j]
          /\ new[Len(old) + 1] = x /\ (i \in 1 .. Len(old) \/ i = Len(old) + 1)
      BY <2>1, <2>2, Appended
    <3> QED
      BY <2>1, <2>2, <3>1, Basics
  <2>3. ASSUME old # <<>>, new = Tail(old), NEW i \in 1 .. Len(new) PROVE new[i] # Enable
    <3> HIDE DEF old, new
    <3>1. i + 1 \in 1 .. Len(old) /\ new[i] = old[i + 1]
      BY <2>1, <2>3, TailOf
    <3> QED
      BY <2>1, <3>1
  <2>4. \/ new = old \/ (\E x \in Calls : new = Append(old, x))
        \/ (old # <<>> /\ new = Tail(old)) \/ new = <<>>
    BY <1>0, <1>5, QueueFlow DEF QueueOf
  <2> HIDE DEF old, new
  <2>5. \A i \in 1 .. Len(new) : new[i] # Enable
    BY <2>1, <2>2, <2>3, <2>4
  <2> QED
    BY <2>5 DEF new
<1>7. ASSUME NEW p \in Peers, NEW i \in 1 .. Len(OnTheWay(p)')
      PROVE  OnTheWay(p)'[i].kind # "EnableServerRequests"
  <2>1. ~Has(OnTheWay(p), Enablings)
    BY EnablingsWay DEF OwesNothing
  <2>2. ~Has(OnTheWay(p)', Enablings)
    BY <1>1, <2>1, WayHas, SpeaksEnable
  <2>3. OnTheWay(p)' \in Seq(Packets)
    <3>1. link'[p] \in Seq(Packets) /\ task'[p].packet \in Packets
      BY NextType DEF TypeOK, LinkTypeOK, TaskTypeOK, Tasks
    <3>2. InHand(p)' \in Seq(Packets)
      BY <3>1 DEF InHand
    <3> QED
      BY <3>1, <3>2 DEF OnTheWay
  <2> QED
    BY <2>2, <2>3, Element DEF Has, Enablings
<1> QED
  BY <1>3, <1>4, <1>6, <1>7 DEF OwesNothing

LEMMA OwesAlways == OnlyAsks => (Spec => []OwesNothing)
<1> SUFFICES ASSUME OnlyAsks PROVE Spec => []OwesNothing
  OBVIOUS
<1>1. Init => OwesNothing
  BY DEF Init, OwesNothing, OnTheWay, InHand, Writing, Idle, Peers
<1>2. TypeOK /\ OrphanInv /\ OwesNothing /\ [Next]_vars => OwesNothing'
  BY OwesStep DEF OrphanInv
<1> QED
  BY <1>1, <1>2, TypeCorrect, OrphanInvHolds, PTL DEF Spec

\* The reconnections of a client that only asks are clean, and its ids and its server's
\* never meet: it owes no answer and feeds no stream when its byte stream fails, and the
\* server stays a UniServer (handler.rs 244-281, 617-624, 798-820).
THEOREM AskersReconnect == OnlyAsks => (Spec => CleanReconnects /\ []IdsApart)
<1>1. OwesNothing => Clean /\ IdsApart
  BY DEF OwesNothing, Clean, IdsApart
<1>2. OwesNothing /\ [Next]_vars => [Reconnect => Clean]_vars
  BY <1>1
<1> QED
  BY <1>1, <1>2, OwesAlways, PTL DEF Spec, CleanReconnects

=============================================================================
