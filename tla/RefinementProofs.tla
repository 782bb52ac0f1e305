--------------------------- MODULE RefinementProofs ---------------------------
(* A Connection does for its users what Rpc promises them: what it holds of a       *)
(* stream is in order and without gaps, every step is a step of Rpc or none, and    *)
(* the two halves of a stream end together.                                         *)
EXTENDS RequestProofs

-----------------------------------------------------------------------------
(* Sequences with numbers *)

LEMMA RisingWithin ==
    ASSUME NEW T, NEW old \in Seq(T), NEW new \in Seq(T), Within(new, old),
           NEW S, \A m \in S : m.n \in Nat,
           NEW low \in Nat, NEW high \in Int, NEW more \in Int, high <= more,
           Rising(old, S, low, high)
    PROVE  Rising(new, S, low, more)
<1>1. ASSUME NEW i \in 1 .. Len(new), new[i] \in S PROVE low < new[i].n /\ new[i].n <= more
  <2>1. PICK j \in 1 .. Len(old) : new[i] = old[j]
    BY DEF Within
  <2>2. low < old[j].n /\ old[j].n <= high /\ old[j].n \in Nat
    BY <1>1, <2>1 DEF Rising
  <2> QED
    BY <2>1, <2>2
<1>2. ASSUME NEW i \in 1 .. Len(new), NEW k \in 1 .. Len(new), i < k, new[i] \in S, new[k] \in S
      PROVE  new[i].n < new[k].n
  <2>1. PICK j \in 1 .. Len(old), l \in 1 .. Len(old) : j < l /\ new[i] = old[j] /\ new[k] = old[l]
    BY <1>2 DEF Within
  <2> QED
    BY <1>2, <2>1 DEF Rising
<1> QED
  BY <1>1, <1>2 DEF Rising

LEMMA RisingAppend ==
    ASSUME NEW T, NEW old \in Seq(T), NEW m \in T, NEW S, \A x \in S : x.n \in Nat,
           NEW low \in Nat, NEW high \in Int, NEW more \in Int, low <= high, high <= more,
           m \in S => high < m.n /\ m.n <= more,
           Rising(old, S, low, high)
    PROVE  Rising(Append(old, m), S, low, more)
<1> DEFINE new == Append(old, m)
<1>1. /\ \A i \in 1 .. Len(old) : new[i] = old[i]
      /\ new[Len(old) + 1] = m /\ Len(old) \in Nat
      /\ \A i \in 1 .. Len(new) : i \in 1 .. Len(old) \/ i = Len(old) + 1
  BY Appended
<1> HIDE DEF new
<1>2. ASSUME NEW i \in 1 .. Len(old), old[i] \in S
      PROVE  low < old[i].n /\ old[i].n <= high /\ old[i].n \in Nat
  BY <1>2 DEF Rising
<1>3. ASSUME NEW i \in 1 .. Len(new), new[i] \in S PROVE low < new[i].n /\ new[i].n <= more
  <2>1. CASE i \in 1 .. Len(old)
    <3>1. low < old[i].n /\ old[i].n <= high /\ old[i].n \in Nat /\ new[i] = old[i]
      BY <1>1, <1>2, <1>3, <2>1
    <3> QED
      BY <3>1
  <2>2. CASE i = Len(old) + 1
    <3>1. new[i] = m /\ m.n \in Nat
      BY <1>1, <1>3, <2>2
    <3> QED
      BY <1>3, <3>1
  <2> QED
    BY <1>1, <2>1, <2>2
<1>4. ASSUME NEW i \in 1 .. Len(new), NEW k \in 1 .. Len(new), i < k, new[i] \in S, new[k] \in S
      PROVE  new[i].n < new[k].n
  <2>1. i \in 1 .. Len(old)
    BY <1>1, <1>4
  <2>2. CASE k \in 1 .. Len(old)
    BY <1>1, <1>4, <2>1, <2>2 DEF Rising
  <2>3. CASE k = Len(old) + 1
    <3>1. new[k] = m /\ high < m.n /\ m.n \in Nat
      BY <1>1, <1>4, <2>3
    <3>2. old[i].n <= high /\ old[i].n \in Nat /\ new[i] = old[i]
      BY <1>1, <1>2, <1>4, <2>1
    <3> QED
      BY <3>1, <3>2
  <2> QED
    BY <1>1, <2>2, <2>3
<1> QED
  BY <1>3, <1>4 DEF Rising, new

LEMMA RisingTail ==
    ASSUME NEW T, NEW old \in Seq(T), old # <<>>, NEW S, NEW low \in Nat, NEW high \in Int,
           Rising(old, S, low, high), Head(old) \in S
    PROVE  /\ low < Head(old).n /\ Head(old).n <= high
           /\ Rising(Tail(old), S, Head(old).n, high)
<1> DEFINE new == Tail(old)
<1>1. /\ Len(old) \in Nat /\ Head(old) = old[1] /\ 1 \in 1 .. Len(old)
      /\ \A i \in 1 .. Len(new) : i + 1 \in 1 .. Len(old) /\ new[i] = old[i + 1] /\ 1 < i + 1
  BY TailOf
<1> HIDE DEF new
<1>2. low < old[1].n /\ old[1].n <= high
  BY <1>1 DEF Rising
<1>3. ASSUME NEW i \in 1 .. Len(new), new[i] \in S PROVE old[1].n < new[i].n /\ new[i].n <= high
  BY <1>1, <1>3 DEF Rising
<1>4. ASSUME NEW i \in 1 .. Len(new), NEW k \in 1 .. Len(new), i < k, new[i] \in S, new[k] \in S
      PROVE  new[i].n < new[k].n
  <2>1. i + 1 < k + 1
    BY <1>4
  <2> QED
    BY <1>1, <1>4, <2>1 DEF Rising
<1> QED
  BY <1>1, <1>2, <1>3, <1>4 DEF Rising, new

\* new is what old begins with
Front(new, old) == Len(new) <= Len(old) /\ \A i \in 1 .. Len(new) : new[i] = old[i]

LEMMA CompleteAppend ==
    ASSUME NEW T, NEW old \in Seq(T), NEW m \in T, NEW S, NEW low \in Nat, NEW high \in Int,
           NEW more \in Int, NEW f \in BOOLEAN, NEW g \in BOOLEAN, g => f,
           \/ m \notin S /\ more = high
           \/ m \in S /\ f /\ m.n = high + 1 /\ more = high + 1,
           Complete(old, S, low, high, f)
    PROVE  Complete(Append(old, m), S, low, more, g)
<1> DEFINE new == Append(old, m)
           of(k) == {x \in S : x.n = k}
<1>1. /\ \A i \in 1 .. Len(old) : new[i] = old[i]
      /\ new[Len(old) + 1] = m /\ Len(old) \in Nat
      /\ \A i \in 1 .. Len(new) : i \in 1 .. Len(old) \/ i = Len(old) + 1
  BY Appended
<1>2. \A k : Has(new, of(k)) <=> Has(old, of(k)) \/ m \in of(k)
  BY HasAppend
<1> HIDE DEF new
<1> SUFFICES ASSUME NEW k \in low + 1 .. more, ~Has(new, of(k))
             PROVE  ~g /\ \A i \in 1 .. Len(new) : new[i] \in S => new[i].n < k
  BY DEF Complete, new
<1>3. ~Has(old, of(k)) /\ m \notin of(k)
  BY <1>2
<1>4. k \in low + 1 .. high
  <2>1. m \in S => m.n # k
    BY <1>3
  <2> QED
    BY <2>1
<1>5. ~f /\ \A i \in 1 .. Len(old) : old[i] \in S => old[i].n < k
  BY <1>3, <1>4 DEF Complete
<1> QED
  BY <1>1, <1>5

LEMMA CompleteTail ==
    ASSUME NEW T, NEW old \in Seq(T), old # <<>>, NEW S, NEW low \in Nat, NEW high \in Int,
           NEW f \in BOOLEAN, NEW g \in BOOLEAN, g => f, Head(old) \notin S,
           Complete(old, S, low, high, f)
    PROVE  Complete(Tail(old), S, low, high, g)
<1> DEFINE new == Tail(old)
           of(k) == {x \in S : x.n = k}
<1>1. \A i \in 1 .. Len(new) : i + 1 \in 1 .. Len(old) /\ new[i] = old[i + 1]
  BY TailOf
<1>2. \A k : Has(old, of(k)) <=> Has(new, of(k)) \/ Head(old) \in of(k)
  BY HasTail
<1> HIDE DEF new
<1> SUFFICES ASSUME NEW k \in low + 1 .. high, ~Has(new, of(k))
             PROVE  ~g /\ \A i \in 1 .. Len(new) : new[i] \in S => new[i].n < k
  BY DEF Complete, new
<1>3. ~Has(old, of(k))
  BY <1>2
<1>4. ~f /\ \A i \in 1 .. Len(old) : old[i] \in S => old[i].n < k
  BY <1>3 DEF Complete
<1> QED
  BY <1>1, <1>4

\* the first of them is the next one
LEMMA CompleteHead ==
    ASSUME NEW T, NEW old \in Seq(T), old # <<>>, NEW S, \A x \in S : x.n \in Nat,
           NEW low \in Nat, NEW high \in Int, NEW f \in BOOLEAN, Head(old) \in S,
           Rising(old, S, low, high), Complete(old, S, low, high, f)
    PROVE  /\ Head(old).n = low + 1
           /\ Complete(Tail(old), S, Head(old).n, high, f)
<1> DEFINE new == Tail(old)
           of(k) == {x \in S : x.n = k}
<1>1. /\ Len(old) \in Nat /\ Head(old) = old[1] /\ 1 \in 1 .. Len(old)
      /\ \A i \in 1 .. Len(new) : i + 1 \in 1 .. Len(old) /\ new[i] = old[i + 1]
      /\ \A i \in 1 .. Len(old) : i = 1 \/ (i - 1 \in 1 .. Len(new) /\ old[i] = new[i - 1])
  BY TailOf
<1>2. \A k : Has(old, of(k)) <=> Has(new, of(k)) \/ Head(old) \in of(k)
  BY HasTail
<1>3. low < old[1].n /\ old[1].n <= high /\ old[1].n \in Nat
  BY <1>1 DEF Rising
<1>4. old[1].n = low + 1
  <2>1. low + 1 \in low + 1 .. high
    BY <1>3
  <2>2. CASE Has(old, of(low + 1))
    <3>1. PICK i \in 1 .. Len(old) : old[i] \in S /\ old[i].n = low + 1
      BY <2>2 DEF Has
    <3>2. 1 < i => old[1].n < old[i].n
      BY <1>1, <3>1 DEF Rising
    <3> QED
      BY <1>3, <3>1, <3>2
  <2>3. CASE ~Has(old, of(low + 1))
    <3>1. old[1].n < low + 1
      BY <1>1, <2>1, <2>3 DEF Complete
    <3> QED
      BY <1>3, <3>1
  <2> QED
    BY <2>2, <2>3
<1> HIDE DEF new
<1>5. ASSUME NEW k \in old[1].n + 1 .. high, ~Has(new, of(k))
      PROVE  ~f /\ \A i \in 1 .. Len(new) : new[i] \in S => new[i].n < k
  <2>1. k \in low + 1 .. high /\ old[1].n # k
    BY <1>3, <1>4, <1>5
  <2>2. ~Has(old, of(k))
    <3>1. Head(old) \notin of(k)
      BY <1>1, <2>1
    <3> QED
      BY <1>2, <1>5, <3>1
  <2>3. ~f /\ \A i \in 1 .. Len(old) : old[i] \in S => old[i].n < k
    BY <2>1, <2>2 DEF Complete
  <2> QED
    BY <1>1, <2>3
<1> QED
  BY <1>1, <1>4, <1>5 DEF Complete, new

LEMMA CompleteFront ==
    ASSUME NEW T, NEW old \in Seq(T), NEW new \in Seq(T), Front(new, old),
           NEW S, \A x \in S : x.n \in Nat,
           NEW low \in Nat, NEW high \in Int, NEW more \in Int, high <= more, NEW f \in BOOLEAN,
           Rising(old, S, low, high), Complete(old, S, low, high, f)
    PROVE  Complete(new, S, low, more, FALSE)
<1> DEFINE of(k) == {x \in S : x.n = k}
<1>1. /\ Len(new) \in Nat /\ Len(old) \in Nat
      /\ \A i \in 1 .. Len(new) : i \in 1 .. Len(old) /\ new[i] = old[i]
  BY DEF Front
<1> SUFFICES ASSUME NEW k \in low + 1 .. more, ~Has(new, of(k)),
                    NEW i \in 1 .. Len(new), new[i] \in S
             PROVE  new[i].n < k
  BY DEF Complete
<1>2. old[i].n <= high /\ old[i].n \in Nat /\ old[i] = new[i] /\ i \in 1 .. Len(old)
  BY <1>1 DEF Rising
<1>3. CASE k > high
  BY <1>2, <1>3
<1>4. CASE k <= high /\ Has(old, of(k))
  <2>1. PICK j \in 1 .. Len(old) : old[j] \in S /\ old[j].n = k
    BY <1>4 DEF Has
  <2>2. j \notin 1 .. Len(new)
    BY <1>1, <2>1 DEF Has
  <2>3. i < j
    BY <1>1, <2>2
  <2> QED
    BY <1>2, <2>1, <2>3 DEF Rising
<1>5. CASE k <= high /\ ~Has(old, of(k))
  BY <1>2, <1>5 DEF Complete
<1> QED
  BY <1>3, <1>4, <1>5

-----------------------------------------------------------------------------
(* The track of a stream *)

\* a task ends once, and drops its Handler or keeps all of it
LEMMA EndsOnce ==
    ASSUME TypeOK, ~Reconnect, [Next]_vars, NEW p \in Peers
    PROVE  result'[p] = result[p] \/ (result[p] = "running" /\ End(p, result'[p]))
<1>1. ASSUME NEW q \in Peers, NEW x, result[q] = "running", End(q, x)
      PROVE  result'[p] = result[p] \/ (result[p] = "running" /\ End(p, result'[p]))
  BY <1>1 DEF End, TypeOK, TaskTypeOK
<1>2. ASSUME NEW q \in Peers, Task(q)
      PROVE  UNCHANGED result \/ (result[q] = "running" /\ \E x : End(q, x))
  <2>1. CASE Recv(q)
    BY <2>1 DEF Recv, RecvRefused, RecvEnableServerRequests, RecvRequest, RecvAnswer,
       RecvStream, RecvStreamClosed, RecvClose, RecvPing, RecvMalformed, ReadFails, taskVars,
       endVars, Arrives, Selecting
  <2>2. CASE Deliver(q) \/ Send(q) \/ Ping(q) \/ CloseSignal(q) \/ Finish(q)
    BY <2>2 DEF Deliver, DeliverRequest, DeliverToNobody, DeliverMessage, Send, Write, WriteFails,
       WriteClose, Ping, CloseSignal, Finish, endVars, Writing, Selecting
  <2>3. CASE ToSend(q)
    BY <2>3 DEF ToSend, ToSendUser, ToSendEnable, ToSendRequest, ToSendDuplicate,
       ToSendNoId, endVars, taskVars, HasRequest, Selecting
  <2> QED
    BY <1>2, <2>1, <2>2, <2>3 DEF Task
<1>3. CASE \/ \E q \in Peers : User(q)
           \/ \E c \in Calls : UserCall(c)
           \/ AskEnable
           \/ UNCHANGED vars
  BY <1>3, UserWay
<1>4. CASE Break
  BY <1>4 DEF Break, taskVars, endVars
<1> QED
  BY <1>1, <1>2, <1>3, <1>4 DEF Next

\* the write of a task that goes on to reconnect failed, and so did the other end
LEMMA KeptWrite ==
    ASSUME TypeOK, ~Reconnect, [Next]_vars, NEW p \in Peers, Writing(p),
           result'[p] # "running", KeepsHandler(p, result'[p])
    PROVE  broken' \/ result'[Other(p)] # "running"
<1>0. /\ result \in [Peers -> Results] /\ Other(p) \in Peers /\ Other(p) # p
      /\ result[p] = "running" /\ task[p].at = "write"
  BY TwoPeers DEF TypeOK, TaskTypeOK, Writing
<1>1. ASSUME NEW q \in Peers, NEW x, End(q, x), q # p PROVE FALSE
  BY <1>0, <1>1 DEF End
<1>2. ASSUME UNCHANGED result PROVE FALSE
  BY <1>0, <1>2
<1>3. ASSUME NEW q \in Peers, Task(q) PROVE q = p /\ \E x : End(q, x)
  <2>1. UNCHANGED result \/ \E x : End(q, x)
    BY <1>3 DEF Task, Recv, RecvRefused, RecvEnableServerRequests, RecvRequest, RecvAnswer,
       RecvStream, RecvStreamClosed, RecvClose, RecvPing, RecvMalformed, ReadFails, CloseHandler,
       Deliver, DeliverRequest, DeliverToNobody, DeliverMessage, Send, Write,
       WriteFails, WriteClose, Ping, CloseSignal, Finish, ToSend, ToSendUser, ToSendEnable,
       ToSendRequest, ToSendDuplicate, ToSendNoId, taskVars, endVars
  <2> QED
    BY <1>1, <1>2, <2>1
<1>4. ASSUME Task(p) PROVE Send(p)
  BY <1>0, <1>4 DEF Task, Recv, RecvRefused, RecvEnableServerRequests, RecvRequest, RecvAnswer,
     RecvStream, RecvStreamClosed, RecvClose, RecvPing, RecvMalformed, ReadFails, Accepts, Arrives,
     Deliver, DeliverRequest, DeliverToNobody, DeliverMessage, Delivering, Selecting,
     Ping, CloseSignal, Finish, ToSend, ToSendUser, ToSendEnable,
     ToSendRequest, ToSendDuplicate, ToSendNoId, HasRequest
<1>5. ~WriteClose(p)
  BY <1>0 DEF WriteClose, End, KeepsHandler
<1>6. ~Write(p)
  BY <1>2 DEF Write, endVars
<1>7. WriteFails(p) => broken' \/ result'[Other(p)] # "running"
  BY <1>0 DEF WriteFails, End, Hung
<1>8. CASE \/ \E q \in Peers : User(q)
           \/ \E d \in Calls : UserCall(d)
           \/ AskEnable \/ Break \/ UNCHANGED vars
  <2>1. UNCHANGED result
    BY <1>8 DEF User, Receive, DropReceiver, SignalClose, UserCall, StartCall, RefuseCall,
       Answer, Emit, DropSender, Take, CloseStream, Cancel, AskEnable, Break, vars, taskVars,
       endVars
  <2> QED
    BY <1>2, <2>1
<1> QED
  BY <1>3, <1>4, <1>5, <1>6, <1>7, <1>8 DEF Next, Send

\* what becomes of link[r]
LEMMA LinkFlow ==
    ASSUME TypeOK, ~Reconnect, [Next]_vars, NEW r \in Peers
    PROVE  \/ link'[r] = link[r]
           \/ Listens(Other(r)) /\ result'[Other(r)] = result[Other(r)]
           \/ (Write(r) \/ WriteClose(r)) /\ result'[r] \in {result[r], "Ok"}
           \/ broken' \/ result'[Other(r)] # "running"
<1> DEFINE Goal == \/ link'[r] = link[r]
                   \/ Listens(Other(r)) /\ result'[Other(r)] = result[Other(r)]
                   \/ (Write(r) \/ WriteClose(r)) /\ result'[r] \in {result[r], "Ok"}
                   \/ broken' \/ result'[Other(r)] # "running"
<1>0. /\ link \in [Peers -> Seq(Packets)] /\ result \in [Peers -> Results]
      /\ Other(r) \in Peers /\ Other(r) # r /\ Peers = {r, Other(r)} /\ Other(Other(r)) = r
  BY TwoPeers DEF TypeOK, LinkTypeOK, TaskTypeOK
<1>1. ASSUME NEW q \in Peers, NEW x, x # "running", End(q, x), link' \in {link, HangUp(q)}
      PROVE  Goal
  <2>1. result'[q] # "running"
    BY <1>0, <1>1 DEF End
  <2> QED
    BY <1>0, <1>1, <2>1 DEF HangUp
<1>2. ASSUME NEW q \in Peers, Recv(q) PROVE Goal
  <2> DEFINE ends == /\ link' \in {link, HangUp(q)}
                     /\ \E x : x # "running" /\ End(q, x)
             hears == /\ Arrives(q, Kinds) /\ UNCHANGED result
                      /\ link' = [link EXCEPT ![Other(q)] = Tail(@)]
                      /\ task' = task \/ \E at, m : Goto(q, at, m)
  <2>0. hears => Goal
    <3>1. ASSUME hears, q # r PROVE task'[r] = task[r] /\ q = Other(r)
      <4>1. ASSUME NEW at, NEW m, Goto(q, at, m) PROVE task'[r] = task[r]
        BY <3>1, <4>1, OneTask DEF Goto
      <4> QED
        BY <1>0, <3>1, <4>1
    <3>2. hears /\ q # r => Listens(Other(r))
      BY <1>0, <1>2, <3>1, HeardWay DEF Listens, Arrives
    <3>3. hears /\ q = r => link'[r] = link[r]
      BY <1>0
    <3> QED
      BY <3>2, <3>3
  <2>1. CASE RecvRefused(q) \/ ReadFails(q)
    <3>1. ends
      BY <2>1 DEF RecvRefused, ReadFails, linkVars, Refusal
    <3> QED
      BY <1>1, <3>1
  <2>2. CASE RecvMalformed(q)
    <3>1. (\E x : x # "running" /\ End(q, x) /\ link' = HangUp(q)) \/ hears
      BY <2>2, BoundAssumption DEF RecvMalformed, endVars, Arrives, Kinds
    <3> QED
      BY <1>1, <2>0, <3>1
  <2>3. CASE ~(RecvRefused(q) \/ ReadFails(q) \/ RecvMalformed(q))
    <3>1. hears
      BY <1>2, <2>3
      DEF Recv, RecvEnableServerRequests, RecvRequest, RecvAnswer, RecvStream, RecvStreamClosed,
          RecvClose, RecvPing, Accepts, Arrives, taskVars, endVars, Kinds, BodyKinds
    <3> QED
      BY <2>0, <3>1
  <2> QED
    BY <1>2, <2>1, <2>2, <2>3
<1>3. ASSUME NEW q \in Peers, Task(q), ~Recv(q) PROVE Goal
  <2>1. CASE Write(q) \/ WriteClose(q)
    <3>1. result'[q] \in {result[q], "Ok"} /\ (q # r => result'[q] # "running" \/ link'[r] = link[r])
      BY <1>0, <2>1 DEF Write, WriteClose, End, endVars
    <3> QED
      BY <1>0, <2>1, <3>1
  <2>2. CASE ToSendDuplicate(q) \/ WriteFails(q) \/ (Finish(q) /\ End(q, "Ok"))
    <3>1. link' \in {link, HangUp(q)} /\ \E x : x # "running" /\ End(q, x)
      BY <2>2 DEF ToSendDuplicate, WriteFails, Finish, linkVars
    <3> QED
      BY <1>1, <3>1
  <2>3. CASE ~(Write(q) \/ WriteClose(q) \/ ToSendDuplicate(q) \/ WriteFails(q)
               \/ (Finish(q) /\ End(q, "Ok")))
    <3>1. UNCHANGED link
      BY <1>3, <2>3 DEF Task, Deliver, DeliverRequest, DeliverToNobody, DeliverMessage, Send,
         Ping, CloseSignal, Finish, ToSend, ToSendUser, ToSendEnable, ToSendRequest, ToSendNoId,
         linkVars
    <3> QED
      BY <3>1
  <2> QED
    BY <2>1, <2>2, <2>3
<1>4. CASE \/ \E q \in Peers : User(q)
           \/ \E c \in Calls : UserCall(c)
           \/ AskEnable
           \/ UNCHANGED vars
  BY <1>4, UserWay
<1>5. CASE Break
  BY <1>5 DEF Break
<1> QED
  BY <1>2, <1>3, <1>4, <1>5 DEF Next

\* what becomes of the message a task is about to put in a stream
ArmsOf(q) ==
    \/ InArms(q)' = InArms(q)
    \/ /\ InArms(q) = <<>> /\ InArms(q)' = <<Arriving(q)>>
       /\ RecvStream(q) /\ Listens(q) /\ waiting_on_stream[q][Arriving(q).id] # NoCall
    \/ /\ InArms(q) = <<task[q].packet>> /\ InArms(q)' = <<>>
       /\ DeliverMessage(q)

LEMMA ArmsFlow ==
    ASSUME TypeOK, Ended, [Next]_vars, ~Reconnect, NEW q \in Peers
    PROVE  ArmsOf(q)
<1>0. /\ task \in [Peers -> Tasks] /\ result \in [Peers -> Results] /\ task' \in [Peers -> Tasks]
      /\ result' \in [Peers -> Results]
  BY NextType DEF TypeOK, TaskTypeOK
<1>1. ASSUME task'[q] = task[q], result'[q] = result[q] PROVE ArmsOf(q)
  BY <1>1 DEF ArmsOf, InArms, Delivering
<1>2. ASSUME ~Delivering(q), ~Delivering(q)' \/ task'[q].packet.kind # "Stream" PROVE ArmsOf(q)
  BY <1>2 DEF ArmsOf, InArms, Delivering
<1>3. ASSUME NEW p \in Peers, NEW x, x # "running", End(p, x), task[p].at # "deliver" PROVE ArmsOf(q)
  <2>1. p # q => task'[q] = task[q] /\ result'[q] = result[q]
    BY <1>0, <1>3 DEF End
  <2>2. p = q => ~Delivering(q) /\ ~Delivering(q)'
    BY <1>0, <1>3 DEF End, Delivering
  <2> QED
    BY <1>1, <1>2, <2>1, <2>2
<1>4. ASSUME NEW p \in Peers, NEW at, NEW m,
             task' = task \/ task' = [task EXCEPT ![p] = Idle] \/ Goto(p, at, m)
      PROVE  /\ p # q => task'[q] = task[q]
             /\ at # "deliver" \/ m.kind # "Stream" =>
                  task'[p] = task[p] \/ task'[p].at # "deliver" \/ task'[p].packet.kind # "Stream"
  BY <1>0, <1>4 DEF Goto, Idle
<1>5. ASSUME NEW p \in Peers, Recv(p) PROVE ArmsOf(q)
  <2> DEFINE m == Arriving(p)
  <2>1. CASE \E x : x # "running" /\ End(p, x)
    <3>1. task[p].at # "deliver"
      BY <1>5 DEF Recv, RecvRefused, RecvEnableServerRequests, RecvRequest, RecvAnswer, RecvStream,
         RecvStreamClosed, RecvClose, RecvPing, RecvMalformed, ReadFails, Accepts, Arrives, Selecting
    <3> QED
      BY <1>3, <2>1, <3>1
  <2>2. CASE RecvStream(p) /\ waiting_on_stream[p][m.id] # NoCall
    <3>1. /\ task' = [task EXCEPT ![p] = [at |-> "deliver", packet |-> m]] /\ UNCHANGED result
          /\ result[p] = "running" /\ task[p].at = "select" /\ m.kind = "Stream"
      BY <2>2 DEF RecvStream, Goto, endVars, Accepts, Arrives, Selecting, Arriving
    <3>0. p # q => task'[q] = task[q]
      BY <1>0, <3>1
    <3>2. CASE p = q
      <4>1. InArms(q) = <<>> /\ InArms(q)' = <<m>>
        BY <1>0, <3>1, <3>2 DEF InArms, Delivering
      <4>2. WayOf(Other(p)) /\ Other(p) \in Peers /\ Other(Other(p)) = p
        BY <1>5, RecvWay, TwoPeers
      <4>3. Listens(p)
        <5>1. Arrived(p) # <<>> /\ link' = [link EXCEPT ![Other(p)] = Tail(@)] /\ Arrives(p, Kinds)
          BY <2>2 DEF RecvStream, Accepts, Arrives, Kinds, BodyKinds
        <5>2. task'[Other(p)] = task[Other(p)]
          BY <1>0, <3>1, TwoPeers
        <5> QED
          BY <1>5, <3>1, <5>1, <5>2, HeardWay DEF Listens
      <4> QED
        BY <2>2, <3>2, <4>1, <4>3 DEF ArmsOf
    <3> QED
      BY <1>1, <3>0, <3>1, <3>2
  <2>3. CASE ~(\E x : x # "running" /\ End(p, x)) /\ ~(RecvStream(p) /\ waiting_on_stream[p][m.id] # NoCall)
    <3>1. UNCHANGED result /\ Selecting(p)
      BY <1>5, <2>3 DEF Recv, RecvRefused, RecvEnableServerRequests, RecvRequest, RecvAnswer, RecvStream,
         RecvStreamClosed, RecvClose, RecvPing, RecvMalformed, ReadFails, Accepts, Arrives,
         taskVars, endVars, Refusal
    <3>2. \/ task' = task
          \/ Goto(p, "write", Control("StreamClosed", m.id))
          \/ Goto(p, "write", Control(Complaint(m.kind), m.id))
          \/ Goto(p, "deliver", m) /\ m.kind # "Stream"
      BY <1>5, <2>3 DEF Recv, RecvRefused, RecvEnableServerRequests, RecvRequest, RecvAnswer, RecvStream,
         RecvStreamClosed, RecvClose, RecvPing, RecvMalformed, ReadFails, Accepts, Arrives,
         taskVars, endVars, Refusal, Arriving, RequestKinds
    <3>3. p # q => task'[q] = task[q]
      BY <1>4, <3>2
    <3>4. task'[p] = task[p] \/ task'[p].at # "deliver" \/ task'[p].packet.kind # "Stream"
      BY <1>4, <3>2
    <3>5. p = q => ~Delivering(q) /\ (~Delivering(q)' \/ task'[q].packet.kind # "Stream")
      BY <3>1, <3>4 DEF Selecting, Delivering
    <3> QED
      BY <1>1, <1>2, <3>1, <3>3, <3>5
  <2> QED
    BY <2>1, <2>2, <2>3
<1>6. ASSUME NEW p \in Peers, Deliver(p) PROVE ArmsOf(q)
  <2>1. /\ UNCHANGED result /\ Delivering(p)
        /\ \/ task' = [task EXCEPT ![p] = Idle]
           \/ Goto(p, "write", Control("StreamClosed", task[p].packet.id))
    BY <1>6 DEF Deliver, DeliverRequest, DeliverToNobody, DeliverMessage, endVars
  <2>0. /\ p # q => task'[q] = task[q]
        /\ task'[p].at # "deliver"
    BY <1>0, <2>1 DEF Goto, Idle
  <2>2. CASE p = q
    <3>1. InArms(q)' = <<>>
      BY <2>0, <2>2 DEF InArms, Delivering
    <3>2. CASE DeliverMessage(q)
      BY <3>1, <3>2 DEF ArmsOf, InArms, DeliverMessage
    <3>3. CASE ~DeliverMessage(q)
      BY <1>6, <2>2, <3>1, <3>3 DEF ArmsOf, InArms, Deliver, DeliverRequest, DeliverToNobody
    <3> QED
      BY <3>2, <3>3
  <2> QED
    BY <1>1, <2>0, <2>1, <2>2
<1>7. ASSUME NEW p \in Peers, ToSend(p) \/ Ping(p) \/ CloseSignal(p) \/ Finish(p) \/ Send(p)
      PROVE  ArmsOf(q)
  <2>1. task[p].at # "deliver"
    BY <1>7 DEF ToSend, ToSendUser, ToSendEnable, ToSendRequest, ToSendDuplicate, ToSendNoId,
       Ping, CloseSignal, Finish, Send, Write, WriteFails, WriteClose, HasRequest, Selecting, Writing
  <2>2. \/ \E x : x # "running" /\ End(p, x)
        \/ UNCHANGED result /\ (task' = task \/ task' = [task EXCEPT ![p] = Idle] \/ \E m : Goto(p, "write", m))
    <3>1. CASE ToSend(p)
      BY <3>1 DEF ToSend, ToSendUser, ToSendEnable, ToSendRequest, ToSendDuplicate, ToSendNoId,
         endVars, taskVars
    <3>2. CASE ~ToSend(p)
      BY <1>7, <3>2 DEF Ping, CloseSignal, Finish, Send, Write, WriteFails, WriteClose, endVars,
         taskVars
    <3> QED
      BY <3>1, <3>2
  <2>3. CASE UNCHANGED result /\ (task' = task \/ task' = [task EXCEPT ![p] = Idle]
                                \/ \E m : Goto(p, "write", m))
    <3>1. (p # q => task'[q] = task[q]) /\ task'[p].at # "deliver"
      BY <1>0, <2>1, <2>3 DEF Goto, Idle
    <3>2. p = q => ~Delivering(q) /\ ~Delivering(q)'
      BY <2>1, <3>1 DEF Delivering
    <3> QED
      BY <1>1, <1>2, <2>3, <3>1, <3>2
  <2> QED
    BY <1>3, <2>1, <2>2, <2>3
<1>8. CASE \/ \E p \in Peers : User(p)
           \/ \E c \in Calls : UserCall(c)
           \/ AskEnable
           \/ UNCHANGED vars
  BY <1>1, <1>8, UserWay
<1>9. CASE Break
  BY <1>1, <1>9 DEF Break, taskVars, endVars
<1> QED
  BY <1>5, <1>6, <1>7, <1>8, <1>9 DEF Next, Task

LEMMA Joined ==
    ASSUME NEW T, NEW a \in Seq(T), NEW b \in Seq(T), NEW c \in Seq(T), NEW m \in T
    PROVE  /\ a \o b \in Seq(T) /\ <<>> \o b = b /\ <<m>> \in Seq(T) /\ <<>> \in Seq(T)
           /\ Append(a \o b, m) = a \o Append(b, m)
           /\ b # <<>> => <<Head(b)>> \o Tail(b) = b
           /\ Head(<<m>> \o b) = m /\ Tail(<<m>> \o b) = b /\ <<m>> \o b # <<>>
           /\ Front(c, b) => Front(a \o c, a \o b)
<1>1. /\ a \o b \in Seq(T) /\ <<>> \o b = b /\ <<m>> \in Seq(T) /\ <<>> \in Seq(T)
      /\ Head(<<m>> \o b) = m /\ Tail(<<m>> \o b) = b /\ <<m>> \o b # <<>>
  OBVIOUS
<1>2. Append(a \o b, m) = a \o Append(b, m)
  BY SMTT(30)
<1>3. b # <<>> => <<Head(b)>> \o Tail(b) = b
  OBVIOUS
<1>4. Front(c, b) => Front(a \o c, a \o b)
  <2> DEFINE new == a \o c
             old == a \o b
  <2>1. /\ Len(new) = Len(a) + Len(c) /\ Len(old) = Len(a) + Len(b)
        /\ Len(a) \in Nat /\ Len(b) \in Nat /\ Len(c) \in Nat
        /\ \A i \in 1 .. Len(new) : new[i] = IF i <= Len(a) THEN a[i] ELSE c[i - Len(a)]
        /\ \A i \in 1 .. Len(old) : old[i] = IF i <= Len(a) THEN a[i] ELSE b[i - Len(a)]
    OBVIOUS
  <2> HIDE DEF new, old
  <2>2. ASSUME Front(c, b) PROVE Front(new, old)
    <3>1. Len(new) <= Len(old)
      BY <2>1, <2>2 DEF Front
    <3>2. ASSUME NEW i \in 1 .. Len(new) PROVE new[i] = old[i]
      <4>1. i \in 1 .. Len(old)
        BY <2>1, <3>1
      <4>2. ~(i <= Len(a)) => i - Len(a) \in 1 .. Len(c)
        BY <2>1
      <4> QED
        BY <2>1, <2>2, <4>1, <4>2 DEF Front
    <3> QED
      BY <3>1, <3>2 DEF Front
  <2> QED
    BY <2>2 DEF new, old
<1> QED
  BY <1>1, <1>2, <1>3, <1>4

LEMMA TrackType ==
    ASSUME TypeOK, NEW p \in Peers
    PROVE  /\ InArms(p) \in Seq(Packets) /\ Track(p) \in Seq(Packets)
           /\ InArms(p) = <<>> \/ InArms(p) = <<task[p].packet>>
           /\ Selecting(p) => InArms(p) = <<>>
<1>1. InArms(p) \in Seq(Packets) /\ (InArms(p) = <<>> \/ InArms(p) = <<task[p].packet>>)
  BY WayType DEF InArms
<1>2. Other(p) \in Peers /\ OnTheWay(p) \in Seq(Packets)
  BY TwoPeers, WayType
<1>3. InArms(Other(p)) \in Seq(Packets)
  BY <1>2, WayType DEF InArms
<1> QED
  BY <1>1, <1>2, <1>3 DEF Track, Selecting, InArms, Delivering

LEMMA TrackTypeNext ==
    ASSUME TypeOK', NEW p \in Peers
    PROVE  OnTheWay(p)' \in Seq(Packets) /\ InArms(p)' \in Seq(Packets) /\ Track(p)' \in Seq(Packets)
<1>1. ASSUME NEW r \in Peers
      PROVE  link'[r] \in Seq(Packets) /\ task'[r].packet \in Packets
  BY <1>1 DEF TypeOK, LinkTypeOK, TaskTypeOK, Tasks
<1>2. ASSUME NEW r \in Peers
      PROVE  InHand(r)' \in Seq(Packets) /\ InArms(r)' \in Seq(Packets)
  BY <1>1, <1>2 DEF InHand, InArms
<1>3. Other(p) \in Peers
  BY TwoPeers
<1>4. OnTheWay(p)' \in Seq(Packets) /\ InArms(p)' \in Seq(Packets) /\ InArms(Other(p))' \in Seq(Packets)
  BY <1>1, <1>2, <1>3 DEF OnTheWay
<1> QED
  BY <1>4 DEF Track

\* what becomes of Track(p)
Dealt(p) ==
    LET q == Other(p) IN
    /\ Track(p) # <<>> /\ Track(p)' = Tail(Track(p))
    /\ \/ /\ Listens(q) /\ InArms(q) = <<>> /\ InArms(q)' = <<>>
          /\ Head(Track(p)) = Arriving(q)
       \/ /\ DeliverMessage(q) /\ InArms(q) = <<task[q].packet>> /\ InArms(q)' = <<>>
          /\ Head(Track(p)) = task[q].packet
TrackOf(p) ==
    \/ Track(p)' = Track(p)
    \/ \E m \in Packets : Speaks(p, m) /\ Track(p)' = Append(Track(p), m)
    \/ Dealt(p)
    \/ /\ Within(Track(p)', Track(p))
       /\ broken' \/ result'[Other(p)] # "running"
    \/ /\ Front(Track(p)', Track(p))
       /\ DropHandler(p) /\ result'[p] # "running" /\ result[p] = "running"

\* a task that hangs up, with or without Close, has said all that it has written
LEMMA CutFront ==
    ASSUME TypeOK, Ended, [Next]_vars, ~Reconnect, NEW p \in Peers, CutOff(p),
           ~broken', result'[Other(p)] = "running"
    PROVE  \/ Listens(Other(p))
           \/ OnTheWay(p)' = OnTheWay(p)
           \/ /\ Front(OnTheWay(p)', OnTheWay(p))
              /\ DropHandler(p) /\ result'[p] # "running" /\ result[p] = "running"
<1> DEFINE q == Other(p)
<1>0. /\ q \in Peers /\ q # p /\ Other(q) = p /\ TypeOK'
      /\ link[p] \in Seq(Packets) /\ OnTheWay(p) \in Seq(Packets)
  BY TwoPeers, NextType, WayType
<1>1. result'[p] \notin {"running", "Ok"}
  BY DEF CutOff, Lost
<1>2. ~Writing(p)' /\ OnTheWay(p)' = link'[p]
  <2>1. ~Writing(p)'
    BY <1>1 DEF Writing
  <2>2. link'[p] \in Seq(Packets)
    BY <1>0 DEF TypeOK, LinkTypeOK
  <2> QED
    BY <2>1, <2>2 DEF OnTheWay, InHand
<1>3. ~Write(p) /\ ~WriteClose(p)
  BY <1>0, <1>1 DEF Write, WriteClose, End, endVars, Writing, TypeOK, TaskTypeOK
<1>4. link'[p] = link[p] \/ Listens(q)
  BY <1>0, <1>1, <1>3, LinkFlow
<1>5. CASE result[p] # "running" /\ link'[p] = link[p]
  BY <1>0, <1>2, <1>5, WayType DEF Writing
<1>6. CASE result[p] = "running" /\ link'[p] = link[p]
  <2>1. Front(link[p], OnTheWay(p))
    <3>1. OnTheWay(p) = link[p] \/ OnTheWay(p) = Append(link[p], task[p].packet)
      BY WayType
    <3>2. \A x : Front(link[p], link[p]) /\ Front(link[p], Append(link[p], x))
      BY <1>0 DEF Front
    <3> QED
      BY <3>1, <3>2
  <2>2. End(p, result'[p])
    BY <1>1, <1>6, EndsOnce
  <2>3. CASE KeepsHandler(p, result'[p])
    <3>1. ~Writing(p)
      BY <1>1, <2>3, KeptWrite
    <3> QED
      BY <1>2, <1>6, <3>1, WayType
  <2>4. CASE ~KeepsHandler(p, result'[p])
    BY <1>1, <1>2, <1>6, <2>1, <2>2, <2>4 DEF End
  <2> QED
    BY <2>3, <2>4
<1> QED
  BY <1>4, <1>5, <1>6

LEMMA TrackFlow ==
    ASSUME TypeOK, Ended, [Next]_vars, ~Reconnect, NEW p \in Peers
    PROVE  TrackOf(p)
<1> DEFINE q == Other(p)
           arms == InArms(q)
           way == OnTheWay(p)
<1>0. /\ q \in Peers /\ q # p /\ Other(q) = p /\ TypeOK'
      /\ arms \in Seq(Packets) /\ way \in Seq(Packets)
      /\ arms' \in Seq(Packets) /\ way' \in Seq(Packets)
      /\ Track(p) = arms \o way /\ Track(p)' = arms' \o way'
  <2>1. q \in Peers /\ q # p /\ Other(q) = p /\ TypeOK'
    BY TwoPeers, NextType
  <2>2. arms \in Seq(Packets) /\ way \in Seq(Packets)
    BY <2>1, TrackType, WayType
  <2>3. link'[p] \in Seq(Packets) /\ task'[p].packet \in Packets /\ task'[q].packet \in Packets
    BY <2>1 DEF TypeOK, LinkTypeOK, TaskTypeOK, Tasks
  <2>4. arms' \in Seq(Packets) /\ way' \in Seq(Packets)
    BY <2>3 DEF InArms, OnTheWay, InHand
  <2> QED
    BY <2>1, <2>2, <2>4 DEF Track
<1>1. ArmsOf(q) /\ WayOf(p)
  BY <1>0, ArmsFlow, WayFlow
<1>2. CASE arms' = arms
  <2>1. CASE way' = way
    BY <1>0, <1>2, <2>1 DEF TrackOf
  <2>2. CASE \E m \in Packets : Speaks(p, m)
    <3>1. PICK m \in Packets : Speaks(p, m)
      BY <2>2
    <3>2. way' = Append(way, m)
      BY <3>1 DEF Speaks, Says
    <3>3. Track(p)' = Append(Track(p), m)
      BY <1>0, <1>2, <3>2, Joined
    <3> QED
      BY <3>1, <3>3 DEF TrackOf
  <2>3. CASE Listens(q)
    <3>1. way # <<>> /\ way' = Tail(way) /\ Head(way) = Arriving(q) /\ Selecting(q)
      BY <1>0, <2>3 DEF Listens, Heard, Arriving, Arrives
    <3>2. arms = <<>> /\ arms' = <<>>
      BY <1>0, <1>2, <3>1, TrackType
    <3>3. Track(p) = way /\ Track(p)' = way'
      BY <1>0, <3>2, Joined
    <3> QED
      BY <2>3, <3>1, <3>2, <3>3 DEF TrackOf, Dealt
  <2>4. CASE CutOff(p) /\ (broken' \/ result'[q] # "running")
    <3>1. Within(arms', arms)
      BY <1>0, <1>2, WithinSelf
    <3>2. Within(Track(p)', Track(p))
      BY <1>0, <2>4, <3>1, WithinBoth DEF CutOff
    <3> QED
      BY <2>4, <3>2 DEF TrackOf
  <2>5. CASE CutOff(p) /\ ~(broken' \/ result'[q] # "running") /\ way' # way /\ ~Listens(q)
    <3>1. Front(way', way) /\ DropHandler(p) /\ result'[p] # "running" /\ result[p] = "running"
      BY <2>5, CutFront
    <3>2. task[p].packet \in Packets
      BY WayType
    <3>3. Front(Track(p)', Track(p))
      <4>1. \A a, b, c \in Seq(Packets) : Front(c, b) => Front(a \o c, a \o b)
        BY <3>2, Joined
      <4>2. Front(arms \o way', arms \o way)
        BY <1>0, <3>1, <4>1
      <4> QED
        BY <1>0, <1>2, <4>2
    <3> QED
      BY <3>1, <3>3 DEF TrackOf
  <2> QED
    BY <1>1, <2>1, <2>2, <2>3, <2>4, <2>5 DEF WayOf
<1>3. CASE arms' # arms /\ RecvStream(q)
  <2>1. arms = <<>> /\ arms' = <<Arriving(q)>> /\ Listens(q)
    BY <1>1, <1>3 DEF ArmsOf, DeliverMessage, Delivering, RecvStream, Accepts, Arrives, Selecting
  <2>2. way # <<>> /\ way' = Tail(way) /\ Head(way) = Arriving(q)
    BY <1>0, <2>1 DEF Listens, Heard, Arriving
  <2>3. Track(p)' = Track(p)
    BY <1>0, <2>1, <2>2, Joined
  <2> QED
    BY <2>3 DEF TrackOf
<1>4. CASE arms' # arms /\ DeliverMessage(q)
  <2>1. arms = <<task[q].packet>> /\ arms' = <<>> /\ task[q].packet \in Packets
    BY <1>0, <1>1, <1>4, WayType DEF ArmsOf, DeliverMessage, Delivering, RecvStream, Accepts, Arrives, Selecting
  <2>2. way' = way
    <3>1. task'[p] = task[p] /\ result'[p] = result[p] /\ link'[p] = link[p]
      BY <1>0, <1>4 DEF DeliverMessage, endVars, linkVars, Goto, TypeOK, TaskTypeOK
    <3> QED
      BY <3>1, OtherWay
  <2>3. Track(p) # <<>> /\ Track(p)' = Tail(Track(p)) /\ Head(Track(p)) = task[q].packet
    BY <1>0, <2>1, <2>2, Joined
  <2> QED
    BY <1>4, <2>1, <2>3 DEF TrackOf, Dealt
<1> QED
  BY <1>1, <1>2, <1>3, <1>4 DEF ArmsOf

-----------------------------------------------------------------------------
(* What becomes of a stream *)

LEMMA TwoHalves ==
    ASSUME NEW c \in Streams
    PROVE  LET p == Prod(c)
               q == Cons(c)
           IN /\ c \in Calls /\ ~IsRequest(c) /\ c # NoCall /\ c # Enable
              /\ p \in Peers /\ q \in Peers /\ p # q /\ Other(p) = q /\ Other(q) = p
              /\ Callee(c) \in Peers /\ CallerOf[c] \in Peers /\ Callee(c) # CallerOf[c]
              /\ \/ KindOf[c] = "RequestSender" /\ p = CallerOf[c] /\ q = Callee(c)
                 \/ KindOf[c] = "RequestReceiver" /\ p = Callee(c) /\ q = CallerOf[c]
<1>1. /\ c \in Calls /\ ~IsRequest(c) /\ KindOf[c] \in RequestKinds /\ CallerOf[c] \in Peers
      /\ c # NoCall /\ c # Enable
  BY Basics DEF Streams, Requests
<1> QED
  BY <1>1, TwoPeers DEF IsRequest, RequestKinds, Prod, Cons, Callee

Feeding(c) == /\ id_of[c] \in Ids /\ waiting_on_user[Prod(c)][id_of[c]] = c
              /\ ToSendUser(Prod(c), id_of[c])

LEMMA StockFlow ==
    ASSUME Sound, [Next]_vars, ~Reconnect, NEW c \in Streams
    PROVE  \/ up'[c] = up[c] /\ sent'[c] = sent[c]
           \/ Emit(c)
           \/ /\ Feeding(c) /\ sent'[c] = sent[c]
              /\ up'[c] = IF Over(c) THEN <<>> ELSE Tail(up[c])
           \/ /\ DropHandler(Prod(c)) /\ result[Prod(c)] = "running" /\ result'[Prod(c)] # "running"
              /\ sent'[c] = sent[c] /\ up'[c] = <<>>
              /\ Feeds(c) \/ (KindOf[c] = "RequestSender" /\ c \in CallsOf(rx_requests[CallerOf[c]]))
<1> DEFINE q == Prod(c)
           Goal == \/ up'[c] = up[c] /\ sent'[c] = sent[c]
                   \/ Emit(c)
                   \/ /\ Feeding(c) /\ sent'[c] = sent[c]
                      /\ up'[c] = IF Over(c) THEN <<>> ELSE Tail(up[c])
                   \/ /\ DropHandler(q) /\ result[q] = "running" /\ result'[q] # "running"
                      /\ sent'[c] = sent[c] /\ up'[c] = <<>>
                      /\ Feeds(c) \/ (KindOf[c] = "RequestSender" /\ c \in CallsOf(rx_requests[CallerOf[c]]))
<1>0. /\ c \in Calls /\ ~IsRequest(c) /\ q \in Peers
      /\ TypeOK /\ ~Reconnect /\ OwnCalls
      /\ KindOf[c] = "RequestSender" => q = CallerOf[c]
  BY TwoHalves, SoundStep DEF Sound, OrphanInv
<1>1. ASSUME UNCHANGED <<up, sent>> PROVE Goal
  BY <1>1
<1>2. ASSUME NEW p \in Peers, DropHandler(p), result[p] = "running", result'[p] # "running" PROVE Goal
  <2> DEFINE closed == CallsIn(waiting_on_user[p])
                       \cup {d \in CallsOf(rx_requests[p]) : KindOf[d] = "RequestSender"}
  <2>1. /\ sent' = sent
        /\ up'[c] = IF c \in closed THEN <<>> ELSE up[c]
    BY <1>0, <1>2 DEF DropHandler
  <2>2. c \in CallsIn(waiting_on_user[p]) => p = q
    BY <1>0, ServedAt DEF CallsIn
  <2>3. c \in CallsOf(rx_requests[p]) /\ KindOf[c] = "RequestSender" => p = q
    BY <1>0 DEF OwnCalls
  <2> QED
    BY <1>0, <1>2, <2>1, <2>2, <2>3 DEF Feeds
<1>3. ASSUME NEW p \in Peers, NEW x, x # "running", End(p, x), result[p] = "running" PROVE Goal
  <2>1. result'[p] # "running"
    BY <1>0, <1>3 DEF End, TypeOK, TaskTypeOK
  <2> QED
    BY <1>1, <1>2, <1>3, <2>1 DEF End, callVars, handleVars, prodVars
<1>4. ASSUME NEW p \in Peers, NEW id \in Ids, ToSendUser(p, id) PROVE Goal
  <2> DEFINE d == waiting_on_user[p][id]
  <2>1. /\ up' = [up EXCEPT ![d] = IF Over(d) THEN <<>> ELSE Tail(up[d])] /\ UNCHANGED sent
        /\ d \in Calls
    BY <1>0, <1>4, TablesType DEF ToSendUser, Taken
  <2>2. CASE d = c
    <3>1. id = id_of[c] /\ p = q
      BY <1>0, <2>2, ServedAt
    <3>2. up'[c] = IF Over(c) THEN <<>> ELSE Tail(up[c])
      BY <1>0, <2>1, <2>2 DEF TypeOK, CallTypeOK
    <3> QED
      BY <1>4, <2>1, <2>2, <3>1, <3>2 DEF Feeding
  <2>3. CASE d # c
    <3> HIDE DEF d
    <3>1. up'[c] = up[c]
      BY <1>0, <2>1, <2>3 DEF TypeOK, CallTypeOK
    <3> QED
      BY <2>1, <3>1
  <2> QED
    BY <2>2, <2>3
<1>5. ASSUME NEW p \in Peers, Task(p)
      PROVE  \/ UNCHANGED <<up, sent>> \/ \E x : x # "running" /\ End(p, x) /\ result[p] = "running"
             \/ \E id \in Ids : ToSendUser(p, id)
  <2>1. CASE Recv(p)
    BY <2>1 DEF Recv, RecvRefused, RecvEnableServerRequests, RecvRequest, RecvAnswer,
       RecvStream, RecvStreamClosed, RecvClose, RecvPing, RecvMalformed, ReadFails, callVars,
       handleVars, prodVars, Refusal, Arrives, Accepts, Selecting
  <2>2. CASE Deliver(p) \/ Send(p) \/ Ping(p) \/ CloseSignal(p) \/ Finish(p)
    BY <2>2 DEF Deliver, DeliverRequest, DeliverToNobody, DeliverMessage, Send, Write, WriteFails,
       WriteClose, Ping, CloseSignal, Finish, callVars, handleVars, prodVars, Selecting, Writing
  <2>3. CASE ToSend(p)
    BY <2>3 DEF ToSend, ToSendEnable, ToSendRequest, ToSendDuplicate,
       ToSendNoId, callVars, handleVars, prodVars, HasRequest, Selecting
  <2> QED
    BY <1>5, <2>1, <2>2, <2>3 DEF Task
<1>6. ASSUME NEW d \in Calls, Emit(d) PROVE Goal
  <2>1. d # c => up'[c] = up[c] /\ sent'[c] = sent[c]
    BY <1>0, <1>6 DEF Emit, TypeOK, CallTypeOK
  <2> QED
    BY <1>6, <2>1
<1>7. ASSUME NEW d \in Calls, Answer(d) PROVE Goal
  BY <1>0, <1>7 DEF Answer, TypeOK, CallTypeOK
<1>8. ASSUME NEW d \in Calls, UserCall(d), ~Answer(d), ~Emit(d) PROVE UNCHANGED <<up, sent>>
  BY <1>8 DEF UserCall, StartCall, RefuseCall, DropSender, Take, CloseStream, Cancel,
     handleVars, prodVars
<1>9. CASE (\E p \in Peers : User(p)) \/ AskEnable \/ Break \/ UNCHANGED vars
  BY <1>1, <1>9 DEF User, Receive, DropReceiver, SignalClose, AskEnable, Break, vars, callVars,
     handleVars, prodVars
<1> QED
  BY <1>0, <1>1, <1>3, <1>4, <1>5, <1>6, <1>7, <1>8, <1>9 DEF Next

\* an entry of a stream is made when it is asked, at one end, and when it is heard of
LEMMA FeedsFlow ==
    ASSUME Sound, [Next]_vars, ~Reconnect, NEW c \in Streams
    PROVE  /\ Feeds(c)' => \/ Feeds(c)
                           \/ Asks(c) /\ KindOf[c] = "RequestSender"
                           \/ Gets(c) /\ KindOf[c] = "RequestReceiver"
           /\ Reads(c)' => \/ Reads(c)
                           \/ Asks(c) /\ KindOf[c] = "RequestReceiver"
                           \/ Gets(c) /\ KindOf[c] = "RequestSender"
<1> DEFINE p == CallerOf[c]
<1>0. /\ c \in Calls /\ p \in Peers /\ TypeOK /\ ~Reconnect /\ GenuinePackets /\ c # NoCall
      /\ Callee(c) \in Peers /\ Callee(c) # p
      /\ \/ KindOf[c] = "RequestSender" /\ Prod(c) = p /\ Cons(c) = Callee(c)
         \/ KindOf[c] = "RequestReceiver" /\ Prod(c) = Callee(c) /\ Cons(c) = p
  BY TwoHalves, SoundStep DEF Sound, CorrelationInv
<1>1. waiting_on_user[p] \in [Ids -> Calls \cup {NoCall}] /\ waiting_on_stream[p] \in [Ids -> Calls \cup {NoCall}]
  BY <1>0, TablesType
<1>2. UserEntriesOf(p) /\ StreamEntriesOf(p)
  BY <1>0, EntriesFlow
<1>3. ASSUME RecvRequest(p) PROVE Arriving(p).call # c
  <2>1. Arrived(p) # <<>> /\ Arriving(p).kind \in RequestKinds
    BY <1>3 DEF RecvRequest, Accepts, Arrives, Arriving
  <2>2. Genuine(Other(p), Arriving(p)) /\ Other(p) # p
    BY <1>0, <2>1, FirstGenuine, TwoPeers DEF Arriving
  <2> QED
    BY <1>0, <2>1, <2>2 DEF Genuine, BodyKinds
<1>4. ASSUME c \in CallsIn(waiting_on_user'[p])
      PROVE  c \in CallsIn(waiting_on_user[p]) \/ Asks(c)
  <2>1. PICK i \in Ids : waiting_on_user'[p][i] = c
    BY <1>4 DEF CallsIn
  <2>2. waiting_on_user[p][i] = c => c \in CallsIn(waiting_on_user[p])
    BY <1>0 DEF CallsIn
  <2> QED
    BY <1>0, <1>1, <1>2, <1>3, <2>1, <2>2 DEF UserEntriesOf, EmptyTable, Asks
<1>5. ASSUME c \in CallsIn(waiting_on_stream'[p])
      PROVE  c \in CallsIn(waiting_on_stream[p]) \/ Asks(c)
  <2>1. PICK i \in Ids : waiting_on_stream'[p][i] = c
    BY <1>5 DEF CallsIn
  <2>2. waiting_on_stream[p][i] = c => c \in CallsIn(waiting_on_stream[p])
    BY <1>0 DEF CallsIn
  <2> QED
    BY <1>0, <1>1, <1>2, <1>3, <2>1, <2>2 DEF StreamEntriesOf, EmptyTable, Asks
<1>6. /\ Served(c)' => Served(c) \/ Gets(c)
      /\ c \in CallsIn(waiting_on_stream'[Callee(c)]) =>
            c \in CallsIn(waiting_on_stream[Callee(c)]) \/ Gets(c)
  BY <1>0, ServedFlow
<1>7. /\ Feeds(c)' <=> c \in CallsIn(waiting_on_user'[Prod(c)])
      /\ Reads(c)' <=> c \in CallsIn(waiting_on_stream'[Cons(c)])
      /\ Served(c)' <=> c \in CallsIn(waiting_on_user'[Callee(c)])
  BY DEF Feeds, Reads, Served, Callee, Prod, Cons
<1> QED
  BY <1>0, <1>4, <1>5, <1>6, <1>7 DEF Feeds, Reads, Served

LEMMA DownFlow ==
    ASSUME Sound, [Next]_vars, ~Reconnect, NEW c \in Streams
    PROVE  LET q == Cons(c) IN
           \/ down'[c] = down[c] /\ got'[c] = got[c]
           \/ Take(c)
           \/ down'[c] = <<>> /\ got'[c] = LastN(c)
           \/ /\ DeliverMessage(q) /\ Wanted(c) /\ waiting_on_stream[q][task[q].packet.id] = c
              /\ down'[c] = Append(down[c], Body(task[q].packet)) /\ got'[c] = got[c]
<1> DEFINE q == Cons(c)
           Goal == \/ down'[c] = down[c] /\ got'[c] = got[c]
                   \/ Take(c)
                   \/ down'[c] = <<>> /\ got'[c] = LastN(c)
                   \/ /\ DeliverMessage(q) /\ Wanted(c) /\ waiting_on_stream[q][task[q].packet.id] = c
                      /\ down'[c] = Append(down[c], Body(task[q].packet)) /\ got'[c] = got[c]
<1>0. /\ c \in Calls /\ ~IsRequest(c) /\ c # NoCall
      /\ TypeOK /\ ~Reconnect /\ down \in [Calls -> Seq(Bodies)] /\ got \in [Calls -> 0 .. MaxMsgs]
  BY TwoHalves, SoundStep DEF Sound, TypeOK, CallTypeOK
<1>1. ASSUME UNCHANGED <<down, got>> PROVE Goal
  BY <1>1
<1>2. ASSUME NEW p \in Peers, NEW x, End(p, x) PROVE UNCHANGED <<down, got>>
  BY <1>2 DEF End, DropHandler, callVars, handleVars, consVars
<1>3. ASSUME NEW p \in Peers, RecvAnswer(p) PROVE Goal
  <2> DEFINE d == waiting_on_stream[p][Head(Arrived(p)).id]
  <2>1. IsRequest(d) /\ d # NoCall
    BY <1>3 DEF RecvAnswer, Accepts, Arrives, Refusal, RequestKinds
  <2>2. d # c
    BY <1>0, <2>1
  <2>3. got' = got /\ (down' = down \/ \E b : down' = [down EXCEPT ![d] = b])
    BY <1>3 DEF RecvAnswer
  <2> HIDE DEF d
  <2> QED
    BY <1>0, <2>2, <2>3
<1>4. ASSUME NEW p \in Peers, DeliverMessage(p) PROVE Goal
  <2> DEFINE m == task[p].packet
             d == waiting_on_stream[p][m.id]
  <2>1. got' = got /\ (down' = down \/ (Wanted(d) /\ down' = [down EXCEPT ![d] = Append(@, Body(m))]))
    BY <1>4 DEF DeliverMessage, Wanted
  <2>2. m.id \in Ids
    BY <1>0, WayType DEF Packets
  <2>3. d = c => p = q
    BY <1>0, <2>2, AwaitedAt
  <2>4. d # c => Goal
    <3> HIDE DEF d
    <3> QED
      BY <1>0, <2>1
  <2> QED
    BY <1>0, <1>4, <2>1, <2>3, <2>4
<1>5. ASSUME NEW p \in Peers, Task(p), ~DeliverMessage(p), ~RecvAnswer(p) PROVE UNCHANGED <<down, got>>
  <2>1. CASE Recv(p)
    BY <1>2, <1>5, <2>1 DEF Recv, RecvRefused, RecvEnableServerRequests, RecvRequest,
       RecvStream, RecvStreamClosed, RecvClose, RecvPing, RecvMalformed, ReadFails, callVars,
       handleVars, consVars
  <2>2. CASE Deliver(p) \/ Send(p) \/ Ping(p) \/ CloseSignal(p) \/ Finish(p)
    BY <1>2, <1>5, <2>2 DEF Deliver, DeliverRequest, DeliverToNobody, Send, Write, WriteFails,
       WriteClose, Ping, CloseSignal, Finish, callVars, handleVars, consVars
  <2>3. CASE ToSend(p)
    BY <1>2, <2>3 DEF ToSend, ToSendUser, ToSendEnable, ToSendRequest, ToSendDuplicate,
       ToSendNoId, callVars, handleVars, consVars
  <2> QED
    BY <1>5, <2>1, <2>2, <2>3 DEF Task
<1>6. ASSUME NEW d \in Calls, UserCall(d) PROVE Goal
  <2>1. CASE Take(d)
    <3>1. d # c => down'[c] = down[c] /\ got'[c] = got[c]
      BY <1>0, <2>1 DEF Take
    <3> QED
      BY <2>1, <3>1
  <2>2. CASE Cancel(d)
    <3>1. d # c => down'[c] = down[c] /\ got'[c] = got[c]
      BY <1>0, <2>2 DEF Cancel, consVars
    <3>2. d = c => down'[c] = <<>> /\ got'[c] = LastN(c)
      BY <1>0, <2>2 DEF Cancel
    <3> QED
      BY <3>1, <3>2
  <2> QED
    BY <1>1, <1>6, <2>1, <2>2 DEF UserCall, StartCall, RefuseCall, Answer, Emit, DropSender,
       CloseStream, handleVars, consVars
<1>7. ASSUME (\E p \in Peers : User(p)) \/ AskEnable \/ Break \/ UNCHANGED vars PROVE Goal
  BY <1>1, <1>7 DEF User, Receive, DropReceiver, SignalClose, AskEnable, Break, vars, callVars,
     handleVars, consVars
<1> HIDE DEF Goal
<1>8. Goal
  BY <1>0, <1>1, <1>3, <1>4, <1>5, <1>6, <1>7 DEF Next
<1> QED
  BY <1>8 DEF Goal

\* the last message handed to the consumer
LEMMA LastType ==
    ASSUME TypeOK, NEW c \in Calls
    PROVE  LastN(c) \in 0 .. MaxMsgs /\ LastN(c) \in Nat
<1>1. got[c] \in 0 .. MaxMsgs /\ down[c] \in Seq(Bodies) /\ MaxMsgs \in Nat
  BY Basics DEF TypeOK, CallTypeOK
<1>2. down[c] # <<>> => Len(down[c]) \in 1 .. Len(down[c])
  BY <1>1
<1>3. \A b \in Bodies : b.n \in 0 .. MaxMsgs
  BY DEF Bodies
<1> QED
  BY <1>1, <1>2, <1>3, Element DEF LastN

LEMMA LastFlow ==
    ASSUME Sound, [Next]_vars, ~Reconnect, NEW c \in Streams
    PROVE  LET q == Cons(c)
               m == task[q].packet
           IN \/ LastN(c)' = LastN(c) /\ (InOrder(c) => InOrder(c)')
              \/ /\ DeliverMessage(q) /\ Wanted(c) /\ waiting_on_stream[q][m.id] = c
                 /\ LastN(c)' = m.n
                 /\ InOrder(c) /\ m.call = c /\ m.n > LastN(c) => InOrder(c)'
<1> DEFINE q == Cons(c)
           m == task[q].packet
           old == down[c]
           new == down'[c]
<1>0. /\ c \in Calls /\ q \in Peers /\ TypeOK
      /\ old \in Seq(Bodies) /\ Len(old) \in Nat /\ got[c] \in 0 .. MaxMsgs
      /\ LastN(c)' = IF new = <<>> THEN got'[c] ELSE new[Len(new)].n
      /\ InOrder(c)' <=> \A i \in 1 .. Len(new) :
            /\ new[i].call = c
            /\ new[i].n > IF i = 1 THEN got'[c] ELSE new[i - 1].n
  BY TwoHalves DEF Sound, TypeOK, CallTypeOK, LastN, InOrder
<1>1. CASE new = old /\ got'[c] = got[c]
  BY <1>0, <1>1 DEF LastN, InOrder
<1>2. CASE Take(c)
  <2>1. /\ old # <<>> /\ new = Tail(old) /\ got'[c] = Head(old).n
    BY <1>0, <1>2 DEF Take, TypeOK, CallTypeOK
  <2>2. /\ Len(new) = Len(old) - 1 /\ Head(old) = old[1]
        /\ \A i \in 1 .. Len(new) : i + 1 \in 1 .. Len(old) /\ new[i] = old[i + 1]
        /\ new \in Seq(Bodies)
    BY <1>0, <2>1, TailOf
  <2> HIDE DEF new
  <2>3. LastN(c)' = LastN(c)
    <3>1. CASE new = <<>>
      <4>1. Len(old) = 1
        BY <1>0, <2>2, <3>1
      <4>2. LastN(c) = old[1].n
        BY <2>1, <4>1 DEF LastN
      <4>3. LastN(c)' = got'[c]
        BY <1>0, <3>1
      <4> QED
        BY <2>1, <2>2, <4>2, <4>3
    <3>2. CASE new # <<>>
      <4>1. Len(new) \in 1 .. Len(new) /\ Len(new) + 1 = Len(old)
        BY <1>0, <2>2, <3>2
      <4>2. new[Len(new)] = old[Len(old)]
        BY <2>2, <4>1
      <4>3. LastN(c) = old[Len(old)].n
        BY <2>1 DEF LastN
      <4>4. LastN(c)' = new[Len(new)].n
        BY <1>0, <3>2
      <4> QED
        BY <4>2, <4>3, <4>4
    <3> QED
      BY <3>1, <3>2
  <2>4. ASSUME InOrder(c) PROVE InOrder(c)'
    <3>1. ASSUME NEW i \in 1 .. Len(new)
          PROVE  new[i].call = c /\ new[i].n > IF i = 1 THEN got'[c] ELSE new[i - 1].n
      <4>0. Len(old) \in Nat /\ Len(new) \in Nat /\ Len(new) = Len(old) - 1
        BY <1>0, <2>2
      <4>1. i + 1 \in 1 .. Len(old) /\ new[i] = old[i + 1] /\ i + 1 # 1 /\ (i + 1) - 1 = i
        BY <2>2, <4>0
      <4>2. new[i].call = c /\ new[i].n > old[i].n
        BY <2>4, <4>1 DEF InOrder
      <4>3. i # 1 => new[i - 1] = old[i]
        BY <1>0, <2>2
      <4> QED
        BY <2>1, <2>2, <4>2, <4>3
    <3> QED
      BY <1>0, <3>1
  <2> QED
    BY <2>3, <2>4
<1>3. CASE new = <<>> /\ got'[c] = LastN(c)
  BY <1>0, <1>3
<1>4. CASE /\ DeliverMessage(q) /\ Wanted(c) /\ waiting_on_stream[q][m.id] = c
           /\ new = Append(old, Body(m)) /\ got'[c] = got[c]
  <2>1. m \in Packets /\ Body(m) \in Bodies /\ Body(m).n = m.n /\ Body(m).call = m.call
    BY <1>0, WayType DEF Packets, Body, Bodies
  <2>2. /\ \A i \in 1 .. Len(old) : new[i] = old[i]
        /\ new[Len(old) + 1] = Body(m) /\ Len(new) = Len(old) + 1
        /\ \A i \in 1 .. Len(new) : i \in 1 .. Len(old) \/ i = Len(old) + 1
    BY <1>0, <1>4, <2>1, Appended
  <2> HIDE DEF new
  <2>3. new # <<>> /\ LastN(c)' = m.n
    BY <1>0, <2>1, <2>2
  <2>4. ASSUME InOrder(c), m.call = c, m.n > LastN(c) PROVE InOrder(c)'
    <3>1. ASSUME NEW i \in 1 .. Len(new)
          PROVE  new[i].call = c /\ new[i].n > IF i = 1 THEN got'[c] ELSE new[i - 1].n
      <4>1. CASE i \in 1 .. Len(old)
        <5>1. new[i] = old[i] /\ (i # 1 => new[i - 1] = old[i - 1])
          BY <1>0, <2>2, <4>1
        <5> QED
          BY <1>4, <2>4, <4>1, <5>1 DEF InOrder
      <4>2. CASE i = Len(old) + 1
        <5>1. new[i].call = c /\ new[i].n = m.n
          BY <2>1, <2>2, <2>4, <4>2
        <5>2. i = 1 => old = <<>>
          BY <1>0, <4>2
        <5>3. i # 1 => old # <<>> /\ i - 1 = Len(old) /\ i - 1 \in 1 .. Len(old)
          BY <1>0, <4>2
        <5> QED
          BY <1>4, <2>2, <2>4, <5>1, <5>2, <5>3 DEF LastN
      <4> QED
        BY <2>2, <4>1, <4>2
    <3> QED
      BY <1>0, <3>1
  <2> QED
    BY <1>4, <2>3, <2>4
<1> QED
  BY <1>1, <1>2, <1>3, <1>4, DownFlow

LEMMA ReaderFlow ==
    ASSUME Sound, [Next]_vars, ~Reconnect, NEW c \in Streams
    PROVE  LET q == Cons(c) IN
           \/ rx'[c] = rx[c]
           \/ StartCall(c) /\ KindOf[c] = "RequestReceiver"
           \/ rx[c] \in {"live", "closed"} /\ ~Wanted(c)'
           \/ Receive(q) /\ Head(tx_requests[q]) = c
           \/ DropReceiver(q) /\ c \in CallsOf(tx_requests[q])
           \/ DeliverToNobody(q) /\ Item(task[q].packet) = c
<1> DEFINE r == Cons(c)
           Goal == \/ rx'[c] = rx[c]
                   \/ StartCall(c) /\ KindOf[c] = "RequestReceiver"
                   \/ rx[c] \in {"live", "closed"} /\ ~Wanted(c)'
                   \/ Receive(r) /\ Head(tx_requests[r]) = c
                   \/ DropReceiver(r) /\ c \in CallsOf(tx_requests[r])
                   \/ DeliverToNobody(r) /\ Item(task[r].packet) = c
<1>0. /\ c \in Calls /\ ~IsRequest(c) /\ c # NoCall
      /\ TypeOK /\ ~Reconnect /\ rx \in [Calls -> {"none", "live", "closed", "dropped"}]
  BY TwoHalves, SoundStep DEF Sound, TypeOK, CallTypeOK
<1>1. ASSUME UNCHANGED rx PROVE Goal
  BY <1>1
<1>2. ASSUME NEW p \in Peers, NEW x, End(p, x) PROVE UNCHANGED rx
  BY <1>2 DEF End, DropHandler, callVars, handleVars, consVars
<1>3. ASSUME NEW p \in Peers, Task(p), ~DeliverToNobody(p) PROVE UNCHANGED rx
  <2>1. CASE Recv(p)
    BY <1>2, <2>1 DEF Recv, RecvRefused, RecvEnableServerRequests, RecvRequest, RecvAnswer,
       RecvStream, RecvStreamClosed, RecvClose, RecvPing, RecvMalformed, ReadFails, callVars,
       handleVars, consVars
  <2>2. CASE Deliver(p) \/ Send(p) \/ Ping(p) \/ CloseSignal(p) \/ Finish(p)
    BY <1>2, <1>3, <2>2 DEF Deliver, DeliverRequest, DeliverMessage, Send, Write, WriteFails,
       WriteClose, Ping, CloseSignal, Finish, callVars, handleVars, consVars
  <2>3. CASE ToSend(p)
    BY <1>2, <2>3 DEF ToSend, ToSendUser, ToSendEnable, ToSendRequest, ToSendDuplicate,
       ToSendNoId, callVars, handleVars, consVars
  <2> QED
    BY <1>3, <2>1, <2>2, <2>3 DEF Task
<1>4. ASSUME NEW p \in Peers, DeliverToNobody(p) PROVE Goal
  <2>1. rx' = [d \in Calls |-> IF d = Item(task[p].packet) /\ Cons(d) = p THEN "dropped" ELSE rx[d]]
    BY <1>4 DEF DeliverToNobody
  <2> QED
    BY <1>0, <1>4, <2>1
<1>5. ASSUME NEW p \in Peers, User(p) PROVE Goal
  <2>1. CASE Receive(p)
    <3>1. CASE Head(tx_requests[p]) = Enable
      BY <1>1, <2>1, <3>1 DEF Receive
    <3>2. CASE Head(tx_requests[p]) # Enable
      <4>1. rx' = [rx EXCEPT ![Head(tx_requests[p])] =
                      IF Cons(Head(tx_requests[p])) = p THEN "live" ELSE @]
        BY <2>1, <3>2 DEF Receive
      <4> QED
        BY <1>0, <2>1, <4>1
    <3> QED
      BY <3>1, <3>2
  <2>2. CASE DropReceiver(p)
    <3>1. rx' = [d \in Calls |-> IF d \in CallsOf(tx_requests[p]) /\ Cons(d) = p THEN "dropped" ELSE rx[d]]
      BY <2>2 DEF DropReceiver
    <3> QED
      BY <1>0, <2>2, <3>1
  <2> QED
    BY <1>1, <1>5, <2>1, <2>2 DEF User, SignalClose, callVars, handleVars, consVars
<1>6. ASSUME NEW d \in Calls, UserCall(d) PROVE Goal
  <2>1. CASE StartCall(d)
    <3>1. rx' = [rx EXCEPT ![d] = IF KindOf[d] = "RequestReceiver" THEN "live" ELSE @]
      BY <2>1 DEF StartCall
    <3> QED
      BY <1>0, <2>1, <3>1
  <2>2. CASE CloseStream(d) \/ Cancel(d)
    <3>1. rx'[c] = rx[c] \/ (rx[c] \in {"live", "closed"} /\ rx'[c] \in {"closed", "dropped"})
      BY <1>0, <2>2 DEF CloseStream, Cancel, consVars
    <3> QED
      BY <3>1 DEF Wanted
  <2> QED
    BY <1>1, <1>6, <2>1, <2>2 DEF UserCall, RefuseCall, Answer, Emit, DropSender, Take,
       handleVars, consVars
<1>7. ASSUME AskEnable \/ Break \/ UNCHANGED vars PROVE Goal
  BY <1>1, <1>7 DEF AskEnable, Break, vars, callVars, handleVars, consVars
<1> HIDE DEF Goal
<1>8. Goal
  BY <1>0, <1>1, <1>3, <1>4, <1>5, <1>6, <1>7 DEF Next
<1> QED
  BY <1>8 DEF Goal

\* starting a stream has an outcome, and nothing after it
LEMMA StartedFlow ==
    ASSUME Sound, [Next]_vars, ~Reconnect, NEW c \in Streams
    PROVE  \/ res'[c] = res[c]
           \/ StartCall(c) /\ res'[c] = "pending"
           \/ RefuseCall(c) /\ res'[c] = "AlreadyClosed"
<1> DEFINE Goal == \/ res'[c] = res[c]
                   \/ StartCall(c) /\ res'[c] = "pending"
                   \/ RefuseCall(c) /\ res'[c] = "AlreadyClosed"
<1>0. /\ c \in Calls /\ ~IsRequest(c) /\ TypeOK /\ ~Reconnect /\ res \in [Calls -> Outcomes]
  BY TwoHalves, SoundStep DEF Sound, TypeOK, CallTypeOK
<1>1. ASSUME (res' = res) \/ (\E S : res' = Failed(S)) PROVE Goal
  BY <1>0, <1>1 DEF Failed
<1>2. ASSUME NEW p \in Peers, NEW x, End(p, x) PROVE Goal
  BY <1>1, <1>2 DEF End, DropHandler, callVars
<1>3. ASSUME NEW p \in Peers, RecvAnswer(p) \/ RecvMalformed(p) PROVE Goal
  <2> DEFINE m == Head(Arrived(p))
             d == waiting_on_stream[p][m.id]
  <2>1. CASE \E x : End(p, x)
    BY <1>2, <2>1
  <2>2. CASE res' = res
    BY <2>2
  <2>3. CASE ~(\E x : End(p, x)) /\ res' # res
    <3>1. IsRequest(d) /\ \E o : res' = [res EXCEPT ![d] = o]
      <4>1. CASE RecvAnswer(p)
        BY <2>3, <4>1 DEF RecvAnswer, Accepts, Arrives, Refusal, RequestKinds
      <4>2. CASE RecvMalformed(p)
        <5>1. m.kind = "Response" /\ Refusal(p, m) = "none"
          BY <2>3, <4>2 DEF RecvMalformed
        <5>2. IsRequest(d)
          BY <5>1 DEF Refusal, RequestKinds
        <5>3. res' = [res EXCEPT ![d] = IF @ = "pending" THEN "ResponsePacket" ELSE @]
          BY <4>2, <5>1 DEF RecvMalformed
        <5> QED
          BY <5>2, <5>3
      <4> QED
        BY <1>3, <4>1, <4>2
    <3> HIDE DEF d
    <3> QED
      BY <1>0, <3>1
  <2> QED
    BY <2>1, <2>2, <2>3
<1>4. ASSUME NEW p \in Peers, Task(p), ~RecvAnswer(p), ~RecvMalformed(p) PROVE Goal
  <2>1. CASE Recv(p)
    BY <1>1, <1>2, <1>4, <2>1 DEF Recv, RecvRefused, RecvEnableServerRequests, RecvRequest,
       RecvStream, RecvStreamClosed, RecvClose, RecvPing, ReadFails, callVars, CloseHandler
  <2>2. CASE Deliver(p) \/ Send(p) \/ Ping(p) \/ CloseSignal(p) \/ Finish(p)
    BY <1>1, <1>2, <1>4, <2>2 DEF Deliver, DeliverRequest, DeliverToNobody, DeliverMessage, Send,
       Write, WriteFails, WriteClose, Ping, CloseSignal, Finish, callVars, CloseHandler
  <2>3. CASE ToSend(p)
    BY <1>1, <1>2, <2>3 DEF ToSend, ToSendUser, ToSendEnable, ToSendRequest, ToSendDuplicate,
       ToSendNoId, callVars
  <2> QED
    BY <1>4, <2>1, <2>2, <2>3 DEF Task
<1>5. ASSUME NEW d \in Calls, UserCall(d) PROVE Goal
  <2>1. CASE StartCall(d) \/ RefuseCall(d)
    BY <1>0, <2>1 DEF StartCall, RefuseCall
  <2>2. CASE Cancel(d)
    BY <1>0, <2>2 DEF Cancel
  <2> QED
    BY <1>5, <2>1, <2>2 DEF UserCall, Answer, Emit, DropSender, Take, CloseStream
<1>6. ASSUME (\E p \in Peers : User(p)) \/ AskEnable \/ Break \/ UNCHANGED vars PROVE Goal
  BY <1>1, <1>6 DEF User, Receive, DropReceiver, SignalClose, AskEnable, Break, vars, callVars
<1> HIDE DEF Goal
<1>7. Goal
  BY <1>0, <1>3, <1>4, <1>5, <1>6 DEF Next
<1> QED
  BY <1>7 DEF Goal

-----------------------------------------------------------------------------
(* OrderInv: the parts that are about every step *)

BrokenEmpty == broken => \A p \in Peers : link[p] = <<>>

LEMMA BrokenStep ==
    ASSUME Sound, BrokenEmpty, [Next]_vars, ~Reconnect PROVE BrokenEmpty'
<1>0. TypeOK /\ ~Reconnect /\ link \in [Peers -> Seq(Packets)]
  BY SoundStep DEF Sound, TypeOK, LinkTypeOK
<1>1. ASSUME UNCHANGED <<link, broken>> PROVE BrokenEmpty'
  BY <1>1 DEF BrokenEmpty
<1>2. ASSUME NEW p \in Peers, Task(p), UNCHANGED broken
      PROVE  broken => link' = link \/ link' = HangUp(p)
  <2>0. broken => Arrived(p) = <<>>
    BY TwoPeers DEF BrokenEmpty, Arrived
  <2>1. CASE Recv(p)
    BY <2>0, <2>1 DEF Recv, RecvRefused, RecvEnableServerRequests, RecvRequest, RecvAnswer,
       RecvStream, RecvStreamClosed, RecvClose, RecvPing, RecvMalformed, ReadFails, Accepts,
       Arrives, linkVars
  <2>2. CASE Deliver(p) \/ Ping(p) \/ CloseSignal(p) \/ Finish(p)
    BY <2>2 DEF Deliver, DeliverRequest, DeliverToNobody, DeliverMessage, Ping, CloseSignal, Finish,
       linkVars
  <2>3. CASE ToSend(p)
    BY <2>3 DEF ToSend, ToSendUser, ToSendEnable, ToSendRequest, ToSendDuplicate,
       ToSendNoId, linkVars
  <2>4. CASE Write(p) \/ WriteFails(p)
    BY <2>4 DEF Write, WriteFails
  <2>5. CASE WriteClose(p)
    <3>1. broken => link' = [HangUp(p) EXCEPT ![p] = @]
      BY <2>5 DEF WriteClose
    <3>2. [HangUp(p) EXCEPT ![p] = @] = HangUp(p)
      BY <1>0 DEF HangUp
    <3> QED
      BY <3>1, <3>2
  <2> QED
    BY <1>2, <2>1, <2>2, <2>3, <2>4, <2>5 DEF Task, Send
<1>3. ASSUME NEW p \in Peers, Task(p) PROVE UNCHANGED broken
  <2>1. CASE Recv(p)
    BY <2>1 DEF Recv, RecvRefused, RecvEnableServerRequests, RecvRequest, RecvAnswer,
       RecvStream, RecvStreamClosed, RecvClose, RecvPing, RecvMalformed, ReadFails, Accepts, linkVars
  <2>2. CASE Deliver(p) \/ Ping(p) \/ CloseSignal(p) \/ Finish(p) \/ Send(p)
    BY <2>2 DEF Deliver, DeliverRequest, DeliverToNobody, DeliverMessage, Ping, CloseSignal, Finish,
       Send, Write, WriteFails, WriteClose, linkVars
  <2>3. CASE ToSend(p)
    BY <2>3 DEF ToSend, ToSendUser, ToSendEnable, ToSendRequest, ToSendDuplicate,
       ToSendNoId, linkVars
  <2> QED
    BY <1>3, <2>1, <2>2, <2>3 DEF Task
<1>4. ASSUME NEW p \in Peers, Task(p) PROVE BrokenEmpty'
  <2>1. CASE broken
    <3>1. link' = link \/ link' = [link EXCEPT ![Other(p)] = <<>>]
      BY <1>2, <1>3, <1>4, <2>1 DEF HangUp
    <3>2. \A q \in Peers : link[q] = <<>>
      BY <2>1 DEF BrokenEmpty
    <3> QED
      BY <1>0, <3>1, <3>2 DEF BrokenEmpty
  <2>2. CASE ~broken
    BY <1>3, <1>4, <2>2 DEF BrokenEmpty
  <2> QED
    BY <2>1, <2>2
<1>5. CASE Break
  BY <1>5 DEF Break, BrokenEmpty
<1>6. ASSUME (\E p \in Peers : User(p)) \/ (\E c \in Calls : UserCall(c)) \/ AskEnable \/ UNCHANGED vars
      PROVE  UNCHANGED <<link, broken>>
  BY <1>6 DEF User, Receive, DropReceiver, SignalClose, AskEnable, vars, linkVars,
     UserCall, StartCall, RefuseCall, Answer, Emit, DropSender, Take, CloseStream, Cancel
<1> QED
  BY <1>0, <1>1, <1>4, <1>5, <1>6 DEF Next

\* while a task is putting a message in a stream nothing else happens at its end
LEMMA ArmsKeep ==
    ASSUME Sound, [Next]_vars, ~Reconnect, NEW q \in Peers, InArms(q) # <<>>
    PROVE  waiting_on_stream'[q] = waiting_on_stream[q]
<1>0. /\ TypeOK /\ ~Reconnect /\ waiting_on_stream \in [Peers -> [Ids -> Calls \cup {NoCall}]]
      /\ task[q].at = "deliver" /\ task[q].packet.kind = "Stream"
  BY SoundStep, TablesType DEF Sound, InArms, Delivering
<1>1. ASSUME NEW p \in Peers, p # q, NEW t, waiting_on_stream' = [waiting_on_stream EXCEPT ![p] = t]
      PROVE  waiting_on_stream'[q] = waiting_on_stream[q]
  BY <1>0, <1>1
<1>2. ASSUME NEW p \in Peers, NEW x, End(p, x)
      PROVE  \/ waiting_on_stream' = waiting_on_stream
             \/ waiting_on_stream' = [waiting_on_stream EXCEPT ![p] = EmptyTable]
  BY <1>2 DEF End, DropHandler, peerVars
<1>3. ASSUME NEW p \in Peers, Task(p)
      PROVE  \/ UNCHANGED waiting_on_stream
             \/ p # q /\ \E t : waiting_on_stream' = [waiting_on_stream EXCEPT ![p] = t]
  <2>1. CASE Recv(p)
    <3>1. p # q
      BY <1>0, <2>1 DEF Recv, RecvRefused, RecvEnableServerRequests, RecvRequest,
         RecvAnswer, RecvStream, RecvStreamClosed, RecvClose, RecvPing, RecvMalformed, ReadFails,
         Accepts, Arrives, Selecting
    <3>2. \A id, c : Put(waiting_on_stream, p, id, c) =
              [waiting_on_stream EXCEPT ![p] = [waiting_on_stream[p] EXCEPT ![id] = c]]
      BY <1>0 DEF Put
    <3>3. \A id, c : waiting_on_stream' = Put(waiting_on_stream, p, id, c) =>
              \E t : waiting_on_stream' = [waiting_on_stream EXCEPT ![p] = t]
      BY <3>2
    <3>4. CASE RecvRefused(p) \/ ReadFails(p)
      BY <1>2, <3>1, <3>4 DEF RecvRefused, ReadFails
    <3>5. CASE RecvMalformed(p)
      BY <1>2, <3>1, <3>3, <3>5 DEF RecvMalformed
    <3>6. CASE RecvRequest(p) \/ RecvAnswer(p) \/ RecvStreamClosed(p) \/ RecvClose(p)
      BY <3>1, <3>3, <3>6 DEF RecvRequest, RecvAnswer, RecvStreamClosed, RecvClose, CloseHandler
    <3> QED
      BY <2>1, <3>4, <3>5, <3>6 DEF Recv, RecvEnableServerRequests, RecvStream, RecvPing, peerVars
  <2>2. CASE Deliver(p)
    BY <1>0, <2>2 DEF Deliver, DeliverRequest, DeliverToNobody, DeliverMessage, CloseHandler, peerVars
  <2>3. CASE ToSend(p) \/ Ping(p) \/ CloseSignal(p) \/ Finish(p) \/ Send(p)
    <3>1. p # q
      BY <1>0, <2>3 DEF ToSend, ToSendUser, ToSendEnable, ToSendRequest, ToSendDuplicate, ToSendNoId,
         Ping, CloseSignal, Finish, Send, Write, WriteFails, WriteClose, HasRequest, Selecting, Writing
    <3>2. CASE ToSendRequest(p)
      <4>1. \A id, c : Put(waiting_on_stream, p, id, c) =
                [waiting_on_stream EXCEPT ![p] = [waiting_on_stream[p] EXCEPT ![id] = c]]
        BY <1>0 DEF Put
      <4>2. \A id, c : waiting_on_stream' = Put(waiting_on_stream, p, id, c) =>
                \E t : waiting_on_stream' = [waiting_on_stream EXCEPT ![p] = t]
        BY <4>1
      <4> QED
        BY <3>1, <3>2, <4>2 DEF ToSendRequest
    <3>3. CASE ToSend(p) /\ ~ToSendRequest(p)
      BY <1>2, <3>1, <3>3 DEF ToSend, ToSendUser, ToSendEnable, ToSendDuplicate, ToSendNoId, peerVars
    <3>4. CASE Ping(p) \/ CloseSignal(p) \/ Finish(p) \/ Send(p)
      BY <1>2, <3>1, <3>4 DEF Ping, CloseSignal, Finish, Send, Write, WriteFails, WriteClose,
         CloseHandler, peerVars
    <3> QED
      BY <2>3, <3>2, <3>3, <3>4
  <2> QED
    BY <1>3, <2>1, <2>2, <2>3 DEF Task
<1>4. CASE (\E p \in Peers : User(p)) \/ (\E c \in Calls : UserCall(c)) \/ AskEnable \/ Break \/ UNCHANGED vars
  BY <1>4 DEF User, Receive, DropReceiver, SignalClose, AskEnable, Break, vars, peerVars,
     UserCall, StartCall, RefuseCall, Answer, Emit, DropSender, Take, CloseStream, Cancel
<1> QED
  BY <1>0, <1>1, <1>3, <1>4 DEF Next

LEMMA AttendedStep ==
    ASSUME Sound, Attended, [Next]_vars, ~Reconnect PROVE Attended'
<1> SUFFICES ASSUME NEW q \in Peers, NEW i \in 1 .. Len(InArms(q)')
             PROVE  waiting_on_stream'[q][InArms(q)'[i].id] \in Streams
  BY DEF Attended
<1>0. TypeOK /\ Ended /\ ~Reconnect
  BY SoundStep DEF Sound
<1>1. ArmsOf(q)
  BY <1>0, ArmsFlow
<1>2. CASE InArms(q)' = InArms(q)
  <2>1. waiting_on_stream'[q] = waiting_on_stream[q]
    BY <1>2, ArmsKeep
  <2> QED
    BY <1>2, <2>1 DEF Attended
<1>3. CASE /\ InArms(q)' = <<Arriving(q)>>
           /\ RecvStream(q) /\ waiting_on_stream[q][Arriving(q).id] # NoCall
  <2> DEFINE d == waiting_on_stream[q][Arriving(q).id]
  <2>1. /\ UNCHANGED waiting_on_stream /\ Refusal(q, Arriving(q)) = "none" /\ Arriving(q).kind = "Stream"
        /\ Arrived(q) # <<>>
    BY <1>3 DEF RecvStream, peerVars, Accepts, Arrives, Arriving
  <2>2. Arriving(q).id \in Ids
    BY <1>0, <2>1, FirstOnTheWay
  <2>3. d \in Calls /\ ~IsRequest(d)
    BY <1>0, <1>3, <2>1, <2>2, TablesType DEF Refusal, RequestKinds
  <2>4. InArms(q)'[i] = Arriving(q)
    BY <1>3
  <2> QED
    BY <2>1, <2>3, <2>4 DEF Streams, Requests
<1> QED
  BY <1>1, <1>2, <1>3 DEF ArmsOf

-----------------------------------------------------------------------------
(* The answers of Requests have the number one *)

\* a packet with a message is what ToSendUser took from the queue of its call
LEMMA Uttered ==
    ASSUME TypeOK, NEW p \in Peers, NEW m, Speaks(p, m), m.kind \in {"Response", "Stream"}
    PROVE  \E id \in Ids : LET c == waiting_on_user[p][id] IN
              /\ ToSendUser(p, id) /\ c \in Calls /\ ~Over(c) /\ up[c] # <<>>
              /\ m = Packet(IF IsRequest(c) THEN "Response" ELSE "Stream", id, c, Head(up[c]))
<1>1. ToSendRequest(p) => KindOf[Asking(p)] \in RequestKinds
  BY CallEntries, Basics
<1>2. PICK id \in Ids : ToSendUser(p, id) /\ m = Said(p, id)
  BY <1>1, Sayings DEF Packet, Control, RequestKinds, Complaint
<1> DEFINE c == waiting_on_user[p][id]
<1>3. c \in Calls
  BY <1>2, TablesType DEF ToSendUser
<1>4. ~Over(c)
  BY <1>2, SaidKinds
<1>5. up[c] # <<>>
  BY <1>2, <1>4 DEF ToSendUser
<1> QED
  BY <1>2, <1>3, <1>4, <1>5 DEF Said

LEMMA FirstAnswersStep ==
    ASSUME Sound, FirstAnswers, \A c \in Requests : Single(c), [Next]_vars, ~Reconnect PROVE FirstAnswers'
<1> SUFFICES ASSUME NEW p \in Peers, NEW i \in 1 .. Len(OnTheWay(p)'),
                    OnTheWay(p)'[i].kind = "Response"
             PROVE  OnTheWay(p)'[i].n = 1
  BY DEF FirstAnswers
<1> DEFINE X == {m \in Packets : m.kind = "Response" /\ m.n # 1}
<1>0. TypeOK /\ Ended /\ TypeOK'
  BY SoundStep DEF Sound
<1>1. ~Has(OnTheWay(p), X)
  BY DEF Has, FirstAnswers
<1>2. ASSUME NEW m \in X, Speaks(p, m) PROVE FALSE
  <2>1. PICK id \in Ids : LET c == waiting_on_user[p][id] IN
              /\ ToSendUser(p, id) /\ c \in Calls /\ ~Over(c) /\ up[c] # <<>>
              /\ m = Packet(IF IsRequest(c) THEN "Response" ELSE "Stream", id, c, Head(up[c]))
    BY <1>0, <1>2, Uttered
  <2> DEFINE c == waiting_on_user[p][id]
  <2>2. c \in Requests
    BY <1>2, <2>1 DEF Requests, Packet
  <2>3. up[c] \in Seq(1 .. MaxMsgs) /\ up[c] # <<>>
    BY <1>0, <2>1 DEF TypeOK, CallTypeOK
  <2>4. Head(up[c]) = 1
    BY <2>2, <2>3, TailOf DEF Single
  <2> QED
    BY <1>2, <2>1, <2>4 DEF Packet
<1>3. ~Has(OnTheWay(p)', X)
  BY <1>0, <1>1, <1>2, WayHas
<1>4. OnTheWay(p)'[i] \in Packets
  <2>1. OnTheWay(p)' \in Seq(Packets)
    BY <1>0, TrackTypeNext
  <2> QED
    BY <2>1, Element
<1> QED
  BY <1>3, <1>4 DEF Has

LEMMA SingleStep ==
    ASSUME Sound, FirstAnswers, Attended, [Next]_vars, ~Reconnect, NEW c \in Requests, HandleOf(c), Single(c)
    PROVE  Single(c)'
<1>0. /\ TypeOK /\ TypeOK' /\ Ended /\ ~Reconnect /\ c \in Calls /\ IsRequest(c)
      /\ up \in [Calls -> Seq(1 .. MaxMsgs)] /\ down \in [Calls -> Seq(Bodies)]
      /\ got \in [Calls -> 0 .. MaxMsgs]
  BY SoundStep DEF Sound, Requests, TypeOK, CallTypeOK
<1>1. up'[c] = up[c] \/ up'[c] = <<>> \/ up'[c] = <<1>> \/ (up[c] # <<>> /\ up'[c] = Tail(up[c]))
  <2>1. Answer(c) => up'[c] = up[c] \/ up'[c] = <<1>>
    BY <1>0 DEF Answer
  <2>2. Replies(c) => Over(c) \/ up[c] # <<>>
    BY Replied
  <2> QED
    BY <2>1, <2>2, SentFlow DEF Taken
<1>2. \A i \in 1 .. Len(up'[c]) : up'[c][i] = 1
  <2>1. up[c] \in Seq(1 .. MaxMsgs) /\ \A i \in 1 .. Len(up[c]) : up[c][i] = 1
    BY <1>0 DEF Single
  <2>2. CASE up[c] # <<>> /\ up'[c] = Tail(up[c])
    BY <2>1, <2>2, TailOf
  <2>3. CASE up'[c] = <<>> \/ up'[c] = <<1>>
    BY <2>3
  <2> QED
    BY <1>1, <2>1, <2>2, <2>3
<1> DEFINE Goal == /\ got'[c] = got[c]
                   /\ \/ down'[c] = down[c]
                      \/ Len(down'[c]) = 1 /\ down'[c][1].n = 1
<1>3. ASSUME UNCHANGED <<down, got>> PROVE Goal
  BY <1>3
<1>4. ASSUME NEW p \in Peers, NEW x, End(p, x) PROVE UNCHANGED <<down, got>>
  BY <1>4 DEF End, DropHandler, callVars, handleVars, consVars
<1>5. ASSUME NEW p \in Peers, RecvAnswer(p) PROVE Goal
  <2> DEFINE d == waiting_on_stream[p][Head(Arrived(p)).id]
             b == Body(Head(Arrived(p)))
  <2>1. \/ down' = down
        \/ Head(Arrived(p)).kind = "Response" /\ down' = [down EXCEPT ![d] = <<b>>]
    <3>1. Head(Arrived(p)).kind \in {"Response", "NoResponse", "MalformedRequest"}
      BY <1>5 DEF RecvAnswer, Accepts, Arrives
    <3>2. CASE Head(Arrived(p)).kind = "Response"
      BY <1>5, <3>2 DEF RecvAnswer
    <3>3. CASE Head(Arrived(p)).kind # "Response"
      <4>1. down' = down \/ down' = [down EXCEPT ![d] = @]
        BY <1>5, <3>1, <3>3 DEF RecvAnswer
      <4>2. [down EXCEPT ![d] = @] = down
        BY <1>0
      <4> QED
        BY <4>1, <4>2
    <3> QED
      BY <3>2, <3>3
  <2>2. Arrived(p) # <<>> /\ got' = got
    BY <1>5 DEF RecvAnswer, Accepts, Arrives
  <2>3. Head(Arrived(p)).kind = "Response" => b.n = 1
    <3>1. Other(p) \in Peers
      BY TwoPeers
    <3>2. 1 \in 1 .. Len(OnTheWay(Other(p))) /\ OnTheWay(Other(p))[1] = Head(Arrived(p))
      BY <1>0, <2>2, FirstOnTheWay DEF Arriving
    <3>3. Head(Arrived(p)).kind = "Response" => Head(Arrived(p)).n = 1
      BY <3>1, <3>2 DEF FirstAnswers
    <3> QED
      BY <3>3 DEF Body
  <2> HIDE DEF d, b
  <2>4. down'[c] = down[c] \/ (down'[c] = <<b>> /\ b.n = 1)
    BY <1>0, <2>1, <2>3
  <2>5. Len(<<b>>) = 1 /\ <<b>>[1] = b
    OBVIOUS
  <2> QED
    BY <2>2, <2>4, <2>5
<1>6. ASSUME NEW p \in Peers, DeliverMessage(p) PROVE Goal
  <2> DEFINE m == task[p].packet
             d == waiting_on_stream[p][m.id]
  <2>1. got' = got /\ (down' = down \/ down' = [down EXCEPT ![d] = Append(@, Body(m))])
    BY <1>6 DEF DeliverMessage
  <2>2. InArms(p) = <<m>>
    BY <1>6 DEF DeliverMessage, InArms
  <2>3. d \in Streams
    BY <2>2 DEF Attended
  <2>4. d # c
    BY <2>3 DEF Streams
  <2> HIDE DEF d
  <2> QED
    BY <1>0, <2>1, <2>4
<1>7. ASSUME NEW p \in Peers, Task(p), ~DeliverMessage(p), ~RecvAnswer(p) PROVE UNCHANGED <<down, got>>
  <2>1. CASE Recv(p)
    BY <1>4, <1>7, <2>1 DEF Recv, RecvRefused, RecvEnableServerRequests, RecvRequest,
       RecvStream, RecvStreamClosed, RecvClose, RecvPing, RecvMalformed, ReadFails, callVars,
       handleVars, consVars
  <2>2. CASE Deliver(p) \/ Send(p) \/ Ping(p) \/ CloseSignal(p) \/ Finish(p)
    BY <1>4, <1>7, <2>2 DEF Deliver, DeliverRequest, DeliverToNobody, Send, Write, WriteFails,
       WriteClose, Ping, CloseSignal, Finish, callVars, handleVars, consVars
  <2>3. CASE ToSend(p)
    BY <1>4, <2>3 DEF ToSend, ToSendUser, ToSendEnable, ToSendRequest, ToSendDuplicate,
       ToSendNoId, callVars, handleVars, consVars
  <2> QED
    BY <1>7, <2>1, <2>2, <2>3 DEF Task
<1>8. ASSUME NEW d \in Calls, UserCall(d) PROVE Goal
  <2>1. CASE Take(d)
    BY <1>0, <2>1 DEF Take
  <2>2. CASE Cancel(d)
    <3>1. d # c => down'[c] = down[c] /\ got'[c] = got[c]
      BY <1>0, <2>2 DEF Cancel, consVars
    <3>2. d = c => UNCHANGED <<down, got>>
      BY <1>0, <2>2 DEF Cancel, consVars
    <3> QED
      BY <3>1, <3>2
  <2> QED
    BY <1>3, <1>8, <2>1, <2>2 DEF UserCall, StartCall, RefuseCall, Answer, Emit, DropSender,
       CloseStream, handleVars, consVars
<1>9. ASSUME (\E p \in Peers : User(p)) \/ AskEnable \/ Break \/ UNCHANGED vars PROVE Goal
  BY <1>3, <1>9 DEF User, Receive, DropReceiver, SignalClose, AskEnable, Break, vars, callVars,
     handleVars, consVars
<1> HIDE DEF Goal
<1>10. Goal
  BY <1>0, <1>3, <1>5, <1>6, <1>7, <1>8, <1>9 DEF Next
<1>11. got[c] = 0 /\ Len(down[c]) <= 1 /\ \A i \in 1 .. Len(down[c]) : down[c][i].n = 1
  BY DEF Single
<1>12. got'[c] = 0 /\ Len(down'[c]) <= 1 /\ \A i \in 1 .. Len(down'[c]) : down'[c][i].n = 1
  <2>1. CASE down'[c] = down[c]
    BY <1>10, <1>11, <2>1 DEF Goal
  <2>2. CASE Len(down'[c]) = 1 /\ down'[c][1].n = 1
    BY <1>10, <1>11, <2>2 DEF Goal
  <2> QED
    BY <1>10, <2>1, <2>2 DEF Goal
<1> QED
  BY <1>2, <1>12 DEF Single

-----------------------------------------------------------------------------
(* OrderInv: the beginning of a stream *)

\* a stream that is fed has its id, and its handle on its way to a user is at its callee
LEMMA StreamFacts ==
    ASSUME Sound, NEW c \in Streams
    PROVE  /\ Feeds(c) => id_of[c] \in Ids /\ id_of[c] # NoId
           /\ c \in CallsOf(rx_requests[CallerOf[c]]) => id_of[c] = NoId /\ res[c] # "idle"
           /\ KindOf[c] = "RequestReceiver" => (Feeds(c) <=> Served(c))
           /\ KindOf[c] = "RequestSender" =>
                (Reads(c) <=> c \in CallsIn(waiting_on_stream[Callee(c)]))
           /\ NoId \notin Ids
<1>0. TypeOK /\ GenuineEntries /\ QueuedOnce /\ c \in Calls
  BY TwoHalves DEF Sound, CorrelationInv
<1>1. Feeds(c) => id_of[c] \in Ids
  BY <1>0, TwoHalves DEF Feeds, CallsIn, GenuineEntries
<1>2. NoId \notin Ids
  BY Basics DEF NoId, Ids
<1>3. c \in CallsOf(rx_requests[CallerOf[c]]) => id_of[c] = NoId /\ res[c] # "idle"
  BY <1>0, TwoHalves DEF CallsOf, QueuedOnce
<1> QED
  BY <1>1, <1>2, <1>3, TwoHalves DEF Feeds, Served, Reads

LEMMA QueuedAfter ==
    ASSUME Sound, [Next]_vars, ~Reconnect, NEW c \in Streams, c \in CallsOf(rx_requests'[CallerOf[c]])
    PROVE  c \in CallsOf(rx_requests[CallerOf[c]]) \/ (res[c] = "idle" /\ res'[c] = "pending")
<1>0. TypeOK /\ c \in Calls /\ CallerOf[c] \in Peers /\ res \in [Calls -> Outcomes]
  BY TwoHalves DEF Sound, TypeOK, CallTypeOK
<1>1. StartCall(c) => res[c] = "idle" /\ res'[c] = "pending"
  BY <1>0 DEF StartCall
<1> QED
  BY <1>0, <1>1, QueuedBy

\* what makes Out(c) be 0
Unfed(c) == \/ res[c] = "idle" \/ c \in CallsOf(rx_requests[CallerOf[c]])
            \/ Asked(c) /\ KindOf[c] = "RequestReceiver"

LEMMA UnfedStays ==
    ASSUME Sound, [Next]_vars, ~Reconnect, NEW c \in Streams, AskedOnce(c), Beginning(c), Unfed(c)'
    PROVE  Out(c)' = 0
<1>0. /\ TypeOK /\ c \in Calls /\ CallerOf[c] \in Peers /\ res \in [Calls -> Outcomes]
      /\ up[c] \in Seq(1 .. MaxMsgs) /\ sent[c] \in 0 .. MaxMsgs
      /\ up \in [Calls -> Seq(1 .. MaxMsgs)] /\ sent \in [Calls -> 0 .. MaxMsgs]
  BY TwoHalves DEF Sound, TypeOK, CallTypeOK
<1>1. res'[c] = "idle" => res[c] = "idle"
  BY <1>0, StartedFlow
<1>2. Asked(c)' => Asked(c) \/ c \in CallsOf(rx_requests[CallerOf[c]])
  BY <1>0, AskedFlow
<1>3. Unfed(c)
  BY <1>1, <1>2, QueuedAfter DEF Unfed
<1>4. Out(c) = 0
  BY <1>3 DEF Unfed, Beginning
<1>5. ~Feeds(c)
  BY <1>3, StreamFacts DEF Unfed, Beginning, AskedOnce
<1>6. CASE up'[c] = up[c] /\ sent'[c] = sent[c]
  BY <1>4, <1>6 DEF Out
<1>7. CASE Emit(c)
  <2>1. up'[c] = Append(up[c], sent[c] + 1) /\ sent'[c] = sent[c] + 1
    BY <1>0, <1>7 DEF Emit
  <2>2. Len(up'[c]) = Len(up[c]) + 1
    BY <1>0, <2>1
  <2> QED
    BY <1>0, <1>4, <2>1, <2>2 DEF Out
<1>8. ~Feeding(c)
  BY <1>0, <1>5, TwoHalves DEF Feeding, Feeds, CallsIn
<1>9. ASSUME DropHandler(Prod(c)), KindOf[c] = "RequestSender", c \in CallsOf(rx_requests[CallerOf[c]])
      PROVE  FALSE
  <2>1. rx_requests'[CallerOf[c]] = <<>>
    <3>1. rx_requests \in [Peers -> Seq(Calls \cup {Enable})]
      BY <1>0, QueueType
    <3> QED
      BY <1>0, <1>9, <3>1, TwoHalves DEF DropHandler
  <2>2. c \notin CallsOf(rx_requests'[CallerOf[c]])
    BY <2>1 DEF CallsOf
  <2>3. res[c] # "idle"
    BY <1>9, StreamFacts
  <2> QED
    BY <1>1, <1>9, <2>2, <2>3 DEF Unfed
<1> QED
  BY <1>5, <1>6, <1>7, <1>8, <1>9, StockFlow

LEMMA UntakenStays ==
    ASSUME Sound, [Next]_vars, ~Reconnect, NEW c \in Streams, AskedOnce(c), Beginning(c),
           KindOf[c] = "RequestSender", id_of'[c] = NoId \/ Asked(c)' \/ IsHanded(c)'
    PROVE  rx'[c] = "none"
<1>0. TypeOK /\ c \in Calls /\ Callee(c) \in Peers /\ Cons(c) = Callee(c)
  BY TwoHalves DEF Sound
<1>1. (id_of'[c] = NoId \/ Asked(c)') => (id_of[c] = NoId \/ Asked(c)) /\ ~Gets(c)
  BY <1>0, NotYet
<1>2. Gets(c) => Asked(c)
  BY <1>0, Heeded
<1>3. id_of[c] = NoId \/ Asked(c) \/ IsHanded(c)
  BY <1>0, <1>1, <1>2, HandedFor
<1>4. rx[c] = "none"
  BY <1>3 DEF Beginning
<1>5. ASSUME \/ Receive(Callee(c)) /\ Head(tx_requests[Callee(c)]) = c
             \/ DropReceiver(Callee(c)) /\ c \in CallsOf(tx_requests[Callee(c)])
             \/ DeliverToNobody(Callee(c)) /\ Item(task[Callee(c)].packet) = c
      PROVE  FALSE
  <2>1. IsHanded(c) /\ ~IsHanded(c)'
    BY <1>0, <1>5, HandedGone DEF IsHanded, Beginning
  <2>2. ~(id_of[c] = NoId \/ Asked(c))
    BY <2>1 DEF AskedOnce
  <2> QED
    BY <1>1, <2>1, <2>2
<1> QED
  BY <1>0, <1>4, <1>5, ReaderFlow

LEMMA HandedOnceStays ==
    ASSUME Sound, [Next]_vars, ~Reconnect, NEW c \in Streams, AskedOnce(c), Beginning(c)
    PROVE  Once(Handed(Callee(c))', {c}) /\ ~Has(Handed(CallerOf[c])', {c})
<1> DEFINE r == CallerOf[c]
<1>0. /\ TypeOK /\ Ended /\ GenuinePackets /\ c \in Calls /\ r \in Peers /\ c # Enable /\ Other(r) = Callee(c)
      /\ Callee(c) # r
  BY TwoHalves, TwoEnds, SoundStep DEF Sound, CorrelationInv
<1>1. Gets(c) => ~IsHanded(c)
  BY <1>0, Heeded DEF AskedOnce
<1>2. Once(Handed(Callee(c))', {c})
  BY <1>0, <1>1, HandedFor DEF Beginning
<1>3. ASSUME RecvRequest(r) \/ RecvEnableServerRequests(r), Item(Arriving(r)) = c PROVE FALSE
  <2>1. CASE RecvRequest(r)
    <3>1. Arrived(r) # <<>> /\ Arriving(r).kind \in RequestKinds
      BY <2>1 DEF RecvRequest, Accepts, Arrives, Arriving
    <3>2. Genuine(Other(r), Arriving(r))
      BY <1>0, <3>1, FirstGenuine DEF Arriving
    <3>3. Arriving(r).call = c
      BY <1>0, <1>3, <3>1 DEF Item, RequestKinds
    <3> QED
      BY <1>0, <3>1, <3>2, <3>3 DEF Genuine, BodyKinds
  <2>2. CASE RecvEnableServerRequests(r)
    <3>1. Arriving(r).kind = "EnableServerRequests"
      BY <2>2 DEF RecvEnableServerRequests, Accepts, Arrives, Arriving
    <3> QED
      BY <1>0, <1>3, <3>1 DEF Item
  <2> QED
    BY <1>3, <2>1, <2>2
<1>4. ~Has(Handed(r), {c})
  BY DEF Beginning
<1>5. ~Has(Handed(r)', {c})
  BY <1>0, <1>3, <1>4, HandedHas
<1> QED
  BY <1>2, <1>5

LEMMA AskedBefore ==
    ASSUME Sound, [Next]_vars, ~Reconnect, NEW c \in Streams, Beginning(c),
           NEW i \in 1 .. Len(OnTheWay(Prod(c))'), NEW k \in 1 .. Len(OnTheWay(Prod(c))'),
           OnTheWay(Prod(c))'[i] \in Messages(c), OnTheWay(Prod(c))'[k] \in AskFor(c)
    PROVE  k < i
<1> DEFINE p == Prod(c)
           old == OnTheWay(p)
           new == OnTheWay(p)'
<1>0. /\ TypeOK /\ Ended /\ GenuinePackets /\ c \in Calls /\ p \in Peers
      /\ old \in Seq(Packets) /\ new \in Seq(Packets) /\ Other(Other(p)) = p /\ Other(p) \in Peers
  BY TwoHalves, SoundStep, WayType, TrackTypeNext, TwoPeers DEF Sound, CorrelationInv
<1>1. \A j, l \in 1 .. Len(old) : old[j] \in Messages(c) /\ old[l] \in AskFor(c) => l < j
  BY DEF Beginning
<1>2. i # k
  BY DEF Messages, AskFor, RequestKinds
<1>3. CASE Within(new, old)
  <2>1. i < k => FALSE
    <3>1. ASSUME i < k PROVE \E j, l \in 1 .. Len(old) : j < l /\ new[i] = old[j] /\ new[k] = old[l]
      BY <1>3, <3>1 DEF Within
    <3>2. \A j, l \in 1 .. Len(old) : j < l => ~(new[i] = old[j] /\ new[k] = old[l])
      BY <1>0, <1>1
    <3> QED
      BY <3>1, <3>2
  <2> QED
    BY <1>0, <1>2, <2>1
<1>4. ASSUME NEW m \in Packets, Speaks(p, m), new = Append(old, m) PROVE k < i
  <2>1. /\ \A j \in 1 .. Len(old) : new[j] = old[j]
        /\ new[Len(old) + 1] = m
        /\ \A j \in 1 .. Len(new) : j \in 1 .. Len(old) \/ j = Len(old) + 1
    BY <1>0, <1>4, Appended
  <2>2. CASE i \in 1 .. Len(old) /\ k \in 1 .. Len(old)
    BY <1>1, <2>1, <2>2
  <2>3. CASE i = Len(old) + 1 /\ k \in 1 .. Len(old)
    BY <1>0, <2>3
  <2>4. CASE i \in 1 .. Len(old) /\ k = Len(old) + 1
    <3>1. m \in AskFor(c)
      BY <2>1, <2>4
    <3>2. m.kind \in RequestKinds /\ m.call = c
      BY <3>1 DEF AskFor
    <3>3. ToSendRequest(p) /\ m = Packet(KindOf[Asking(p)], next[p], Asking(p), 0)
      BY <1>0, <1>4, <3>2, OnlyAsked
    <3>4. ToSendRequest(p) /\ Asking(p) = c
      BY <3>2, <3>3 DEF Packet
    <3>5. HasRequest(p) /\ Asking(p) # Enable
      BY <3>3 DEF ToSendRequest, Asking
    <3>6. CallerOf[c] = p
      BY <1>0, <3>4, <3>5, AskedFirst DEF Sound, OrphanInv
    <3>7. id_of[c] = NoId
      BY <1>0, <3>4, <3>6, AskedFlow DEF Asks
    <3>8. old[i] \in Messages(c)
      BY <2>1, <2>4
    <3>9. id_of[c] \in Ids
      BY <1>0, <2>4, <3>8, GenuineWay DEF Genuine, Messages, BodyKinds
    <3> QED
      BY <3>7, <3>9, StreamFacts
  <2> QED
    BY <1>2, <2>1, <2>2, <2>3, <2>4
<1>5. WayOf(p)
  BY <1>0, WayFlow
<1>6. CASE Listens(Other(p))
  <2>1. old # <<>> /\ new = Tail(old)
    BY <1>0, <1>6 DEF Listens, Heard
  <2> QED
    BY <1>0, <1>3, <2>1, WithinSelf
<1>7. CASE new = old
  BY <1>0, <1>3, <1>7, WithinSelf
<1>8. CASE CutOff(p)
  BY <1>3, <1>8 DEF CutOff
<1> QED
  BY <1>4, <1>5, <1>6, <1>7, <1>8 DEF WayOf, Speaks, Says

LEMMA BeginningStep ==
    ASSUME Sound, [Next]_vars, ~Reconnect, NEW c \in Streams, AskedOnce(c), Beginning(c)
    PROVE  Beginning(c)'
<1>0. /\ TypeOK /\ OwnCalls /\ c \in Calls /\ CallerOf[c] \in Peers
      /\ res \in [Calls -> Outcomes] /\ res' \in [Calls -> Outcomes]
  BY TwoHalves, SoundStep DEF Sound, OrphanInv, TypeOK, CallTypeOK
<1>1. StartCall(c) => res[c] = "idle"
  BY DEF StartCall
<1>2. RefuseCall(c) => res[c] = "idle"
  BY DEF RefuseCall
<1>3. res'[c] \in {"idle", "pending", "AlreadyClosed"}
  BY StartedFlow DEF Beginning
<1>4. ASSUME res'[c] # "pending"
      PROVE  id_of'[c] = NoId /\ c \notin CallsOf(rx_requests'[CallerOf[c]])
  <2>1. id_of[c] = NoId /\ c \notin CallsOf(rx_requests[CallerOf[c]])
    BY <1>2, <1>4, StartedFlow DEF Beginning
  <2>2. ~Asks(c)
    BY <1>0, <2>1, AskedFlow
  <2> QED
    BY <1>0, <1>4, <2>1, <2>2, IdFlow, QueuedAfter
<1>5. Unfed(c)' => Out(c)' = 0
  BY UnfedStays
<1> QED
  BY <1>3, <1>4, <1>5, UntakenStays, HandedOnceStays, AskedBefore DEF Beginning, Unfed

-----------------------------------------------------------------------------
(* OrderInv: what is sent and what arrives ascends *)

Stocked(c) == \A i \in 1 .. Len(up[c]) : up[c][i] = Out(c) + i

LEMMA StockStep ==
    ASSUME Sound, [Next]_vars, ~Reconnect, NEW c \in Streams, Stocked(c)
    PROVE  /\ Stocked(c)' /\ Out(c) \in Int /\ Out(c)' \in Int /\ Out(c)' >= Out(c)
           /\ Feeding(c) /\ ~Over(c) =>
                up[c] # <<>> /\ Head(up[c]) = Out(c) + 1 /\ Out(c)' = Out(c) + 1
           /\ \/ Out(c)' = Out(c) \/ (Feeding(c) /\ ~Over(c))
              \/ DropHandler(Prod(c)) /\ result[Prod(c)] = "running" /\ result'[Prod(c)] # "running"
<1>a. TypeOK /\ TypeOK' /\ c \in Calls /\ MaxMsgs \in Nat
  BY TwoHalves, SoundStep, Basics DEF Sound
<1>0. /\ TypeOK /\ c \in Calls
      /\ up[c] \in Seq(1 .. MaxMsgs) /\ sent[c] \in 0 .. MaxMsgs /\ up'[c] \in Seq(1 .. MaxMsgs)
      /\ up \in [Calls -> Seq(1 .. MaxMsgs)] /\ sent \in [Calls -> 0 .. MaxMsgs]
      /\ sent'[c] \in 0 .. MaxMsgs /\ Out(c) \in Int /\ MaxMsgs \in Nat
  <2>1. /\ up \in [Calls -> Seq(1 .. MaxMsgs)] /\ sent \in [Calls -> 0 .. MaxMsgs]
        /\ up' \in [Calls -> Seq(1 .. MaxMsgs)] /\ sent' \in [Calls -> 0 .. MaxMsgs]
    BY <1>a DEF TypeOK, CallTypeOK
  <2> QED
    BY <1>a, <2>1 DEF Out
<1>1. \A i \in 1 .. Len(up[c]) : up[c][i] = sent[c] - Len(up[c]) + i
  BY DEF Stocked, Out
<1>2. Feeding(c) => /\ up' = [up EXCEPT ![c] = IF Over(c) THEN <<>> ELSE Tail(up[c])]
                    /\ sent' = sent /\ (~Over(c) => up[c] # <<>>)
  BY <1>0, TwoHalves DEF Feeding, ToSendUser, Taken
<1>3. CASE up'[c] = up[c] /\ sent'[c] = sent[c] /\ ~Feeding(c)
  BY <1>0, <1>1, <1>3 DEF Stocked, Out
<1>4. CASE Emit(c) /\ ~Feeding(c)
  <2>1. up'[c] = Append(up[c], sent[c] + 1) /\ sent'[c] = sent[c] + 1
    BY <1>0, <1>4 DEF Emit
  <2>2. Len(up'[c]) = Len(up[c]) + 1
    BY <1>0, <2>1
  <2>3. Out(c)' = Out(c)
    BY <1>0, <2>1, <2>2 DEF Out
  <2>4. ASSUME NEW i \in 1 .. Len(up'[c]) PROVE up'[c][i] = sent'[c] - Len(up'[c]) + i
    <3>1. CASE i = Len(up[c]) + 1
      BY <1>0, <2>1, <2>2, <3>1
    <3>2. CASE i \in 1 .. Len(up[c])
      <4>1. up'[c][i] = up[c][i]
        BY <1>0, <2>1, <3>2
      <4> QED
        BY <1>0, <1>1, <2>1, <2>2, <3>2, <4>1
    <3> QED
      BY <1>0, <2>2, <3>1, <3>2
  <2> QED
    BY <1>0, <1>4, <2>3, <2>4 DEF Stocked, Out
<1>5. CASE Feeding(c)
  <2>1. CASE Over(c)
    <3>1. up[c] = <<>> /\ up'[c] = <<>> /\ sent'[c] = sent[c]
      BY <1>0, <1>2, <1>5, <2>1 DEF Over
    <3> QED
      BY <1>0, <2>1, <3>1 DEF Stocked, Out
  <2>2. CASE ~Over(c)
    <3>1. up[c] # <<>> /\ up'[c] = Tail(up[c]) /\ sent'[c] = sent[c]
      BY <1>0, <1>2, <1>5, <2>2
    <3>2. /\ Len(up'[c]) = Len(up[c]) - 1 /\ Head(up[c]) = up[c][1] /\ 1 \in 1 .. Len(up[c])
          /\ \A i \in 1 .. Len(up'[c]) : i + 1 \in 1 .. Len(up[c]) /\ up'[c][i] = up[c][i + 1]
          /\ Len(up[c]) \in Nat
      BY <1>0, <3>1, TailOf
    <3>3. Head(up[c]) = Out(c) + 1
      BY <1>1, <3>2 DEF Out
    <3>4. Out(c)' = Out(c) + 1
      BY <1>0, <3>1, <3>2 DEF Out
    <3>5. ASSUME NEW i \in 1 .. Len(up'[c]) PROVE up'[c][i] = sent'[c] - Len(up'[c]) + i
      BY <1>0, <1>1, <3>1, <3>2
    <3> QED
      BY <1>0, <1>5, <2>2, <3>1, <3>3, <3>4, <3>5 DEF Stocked, Out
  <2> QED
    BY <2>1, <2>2
<1>6. CASE /\ DropHandler(Prod(c)) /\ result[Prod(c)] = "running" /\ result'[Prod(c)] # "running"
           /\ sent'[c] = sent[c] /\ up'[c] = <<>> /\ ~Feeding(c)
  BY <1>0, <1>6 DEF Stocked, Out
<1> QED
  BY <1>3, <1>4, <1>5, <1>6, StockFlow

\* the task of the producer takes a message and says it
LEMMA FeedsIt ==
    ASSUME Sound, NEW c \in Streams, Feeding(c), ~Over(c)
    PROVE  LET m == Packet("Stream", id_of[c], c, Head(up[c])) IN
           /\ m \in Messages(c) /\ Speaks(Prod(c), m)
           /\ Track(Prod(c))' = Append(Track(Prod(c)), m)
<1> DEFINE p == Prod(c)
           q == Cons(c)
           m == Packet("Stream", id_of[c], c, Head(up[c]))
<1>0. /\ TypeOK /\ c \in Calls /\ ~IsRequest(c) /\ p \in Peers /\ q \in Peers /\ Other(p) = q /\ p # q
      /\ up[c] \in Seq(1 .. MaxMsgs) /\ id_of[c] \in Ids /\ MaxMsgs \in Nat
  BY TwoHalves, Basics DEF Sound, TypeOK, CallTypeOK, Feeding
<1>1. /\ waiting_on_user[p][id_of[c]] = c /\ ToSendUser(p, id_of[c])
      /\ Goto(p, "write", m) /\ UNCHANGED <<result, link>> /\ result[p] = "running"
      /\ task[p].at = "select" /\ up[c] # <<>>
  BY <1>0 DEF Feeding, ToSendUser, Selecting, endVars, linkVars
<1>2. Head(up[c]) \in 1 .. MaxMsgs
  BY <1>0, <1>1, HeadAndTail
<1>3. m \in Packets /\ m \in Messages(c)
  BY <1>0, <1>2 DEF Messages, Packets, Packet, Kinds, BodyKinds
<1> HIDE DEF m
<1>4. Says(p, m)
  BY <1>0, <1>1, SaidWay
<1>5. Speaks(p, m)
  BY <1>0, <1>1, <1>3, <1>4 DEF Speaks
<1>6. task'[q] = task[q] /\ result'[q] = result[q]
  BY <1>0, <1>1, OneTask DEF Goto
<1>7. InArms(q)' = InArms(q)
  BY <1>6 DEF InArms, Delivering
<1>8. /\ InArms(q) \in Seq(Packets) /\ OnTheWay(p) \in Seq(Packets)
      /\ Track(p)' = InArms(q)' \o OnTheWay(p)' /\ Track(p) = InArms(q) \o OnTheWay(p)
  BY <1>0, TrackType, WayType DEF Track
<1>9. Track(p)' = Append(Track(p), m)
  BY <1>3, <1>4, <1>7, <1>8, Joined DEF Says
<1> QED
  BY <1>3, <1>5, <1>9 DEF m

\* ... and nothing else says a message of it
LEMMA OnlyFed ==
    ASSUME Sound, NEW c \in Streams, NEW m, Speaks(Prod(c), m), m \in Messages(c)
    PROVE  Feeding(c) /\ ~Over(c) /\ m.n = Head(up[c])
<1> DEFINE p == Prod(c)
<1>0. TypeOK /\ c \in Calls /\ p \in Peers /\ m.kind = "Stream" /\ m.call = c
  BY TwoHalves DEF Sound, Messages
<1>1. PICK id \in Ids : LET d == waiting_on_user[p][id] IN
              /\ ToSendUser(p, id) /\ d \in Calls /\ ~Over(d) /\ up[d] # <<>>
              /\ m = Packet(IF IsRequest(d) THEN "Response" ELSE "Stream", id, d, Head(up[d]))
  BY <1>0, Uttered
<1>2. waiting_on_user[p][id] = c
  BY <1>0, <1>1 DEF Packet
<1>3. id = id_of[c]
  BY <1>0, <1>2, ServedAt
<1> QED
  BY <1>1, <1>2, <1>3 DEF Feeding, Packet

\* DeliverMessage takes the first of what is under way
LEMMA DeliveredTrack ==
    ASSUME TypeOK, NEW p \in Peers, DeliverMessage(Other(p))
    PROVE  LET q == Other(p) IN
           /\ Track(p) # <<>> /\ Track(p)' = Tail(Track(p)) /\ Head(Track(p)) = task[q].packet
           /\ InArms(q) = <<task[q].packet>> /\ InArms(q)' = <<>>
           /\ UNCHANGED <<up, sent, result, waiting_on_user, waiting_on_stream, rx>>
<1> DEFINE q == Other(p)
           m == task[q].packet
<1>0. q \in Peers /\ p # q /\ m \in Packets /\ OnTheWay(p) \in Seq(Packets)
  BY TwoPeers, WayType
<1>1. /\ UNCHANGED <<up, sent, result, waiting_on_user, waiting_on_stream, rx, link>>
      /\ InArms(q) = <<m>> /\ task[q].at = "deliver"
  BY DEF DeliverMessage, InArms, Delivering, prodVars, peerVars, endVars, linkVars
<1>2. task' = [task EXCEPT ![q] = Idle] \/ Goto(q, "write", Control("StreamClosed", m.id))
  BY DEF DeliverMessage
<1>3. task'[q].at # "deliver" /\ task'[p] = task[p]
  <2>1. task \in [Peers -> Tasks]
    BY DEF TypeOK, TaskTypeOK
  <2> QED
    BY <1>0, <1>2, <2>1 DEF Idle, Goto
<1>4. InArms(q)' = <<>>
  BY <1>3 DEF InArms, Delivering
<1>5. OnTheWay(p)' = OnTheWay(p)
  BY <1>0, <1>1, <1>3, OtherWay
<1>6. Track(p) = <<m>> \o OnTheWay(p) /\ Track(p)' = <<>> \o OnTheWay(p)'
  BY <1>1, <1>4 DEF Track
<1> HIDE DEF m
<1>7. Track(p) # <<>> /\ Head(Track(p)) = m /\ Tail(Track(p)) = OnTheWay(p) /\ Track(p)' = OnTheWay(p)
  BY <1>0, <1>5, <1>6, Joined
<1> QED
  BY <1>1, <1>4, <1>7 DEF m

\* what a task is about to put in a stream is a message of the stream of the entry
LEMMA ArmsOwner ==
    ASSUME Sound, IdsApart, NEW c \in Streams, NEW m,
           \/ InArms(Cons(c)) = <<m>> /\ m = task[Cons(c)].packet
           \/ Arrived(Cons(c)) # <<>> /\ m = Arriving(Cons(c)) /\ m.kind = "Stream"
    PROVE  /\ m \in Packets /\ m.id \in Ids
           /\ waiting_on_stream[Cons(c)][m.id] = c => m \in Messages(c)
           /\ m \in Messages(c) =>
                m.id = id_of[c] /\ waiting_on_stream[Cons(c)][m.id] \in {c, NoCall}
<1> DEFINE p == Prod(c)
           q == Cons(c)
           e == waiting_on_stream[q][m.id]
<1>0. /\ TypeOK /\ c \in Calls /\ ~IsRequest(c) /\ p \in Peers /\ q \in Peers /\ Other(q) = p /\ c # NoCall
      /\ IdsAscend /\ GenuinePackets /\ GenuineEntries
  BY TwoHalves DEF Sound, CorrelationInv
<1>1. m.kind = "Stream" /\ m \in Packets /\ Genuine(p, m)
  <2>1. CASE InArms(q) = <<m>> /\ m = task[q].packet
    <3>1. m.kind = "Stream" /\ task[q].at = "deliver"
      BY <2>1 DEF InArms, Delivering
    <3> QED
      BY <1>0, <2>1, <3>1, WayType DEF GenuinePackets
  <2>2. CASE Arrived(q) # <<>> /\ m = Arriving(q) /\ m.kind = "Stream"
    BY <1>0, <2>2, FirstGenuine, FirstOnTheWay DEF Arriving
  <2> QED
    BY <2>1, <2>2
<1>2. m.id \in Ids /\ m.call \in Calls /\ m.n \in 0 .. MaxMsgs /\ id_of[m.call] = m.id
  BY <1>1 DEF Packets, Genuine, BodyKinds
<1>3. m.call = c => m \in Messages(c)
  BY <1>1, <1>2 DEF Messages, Packets
<1>4. e # NoCall => e \in Calls /\ id_of[e] = m.id
  BY <1>0, <1>2, TablesType DEF GenuineEntries
<1>5. e # NoCall => e = m.call
  BY <1>0, <1>2, <1>4, SameCall
<1>6. m \in Messages(c) => m.call = c
  BY DEF Messages
<1> QED
  BY <1>0, <1>1, <1>2, <1>3, <1>5, <1>6

LEMMA FrontWithin ==
    ASSUME NEW new, NEW old, Len(new) \in Nat, Len(old) \in Nat, Front(new, old)
    PROVE  Within(new, old)
BY DEF Front, Within

\* the sequence of what is under way only loses, or gets the next message
LEMMA AscendingStep ==
    ASSUME Sound, IdsApart, [Next]_vars, ~Reconnect, NEW c \in Streams, Ascending(c)
    PROVE  Ascending(c)'
<1> DEFINE p == Prod(c)
           q == Cons(c)
           S == Messages(c)
<1>0. /\ TypeOK /\ TypeOK' /\ Ended /\ ~Reconnect
      /\ p \in Peers /\ q \in Peers /\ Other(p) = q /\ c \in Calls
      /\ Track(p) \in Seq(Packets) /\ Track(p)' \in Seq(Packets)
      /\ \A m \in S : m.n \in Nat
      /\ LastN(c) \in Nat
  BY TwoHalves, SoundStep, TrackType, TrackTypeNext, LastType, Basics DEF Sound, Messages
<1>1. /\ Stocked(c)' /\ Out(c) \in Int /\ Out(c)' \in Int /\ Out(c)' >= Out(c)
      /\ Feeding(c) /\ ~Over(c) => Head(up[c]) = Out(c) + 1 /\ Out(c)' = Out(c) + 1
  BY StockStep DEF Ascending, Stocked
<1>2. Rising(Track(p), S, LastN(c), Out(c)) /\ LastN(c) <= Out(c) /\ InOrder(c)
  BY DEF Ascending
<1>3. CASE LastN(c)' = LastN(c) /\ InOrder(c)'
  <2>1. ASSUME Within(Track(p)', Track(p)) PROVE Rising(Track(p)', S, LastN(c), Out(c)')
    BY <1>0, <1>1, <1>2, <2>1, RisingWithin
  <2>2. ASSUME NEW m \in Packets, Speaks(p, m), Track(p)' = Append(Track(p), m)
        PROVE  Rising(Track(p)', S, LastN(c), Out(c)')
    <3>1. m \in S => Out(c) < m.n /\ m.n <= Out(c)'
      BY <1>1, <2>2, OnlyFed
    <3>2. Rising(Append(Track(p), m), S, LastN(c), Out(c)')
      BY <1>0, <1>1, <1>2, <3>1, RisingAppend
    <3> QED
      BY <2>2, <3>2
  <2>3. ASSUME Dealt(p) PROVE Within(Track(p)', Track(p))
    BY <1>0, <2>3, WithinSelf DEF Dealt
  <2>4. ASSUME Track(p)' = Track(p) PROVE Within(Track(p)', Track(p))
    BY <1>0, <2>4, WithinSelf
  <2>5. ASSUME Front(Track(p)', Track(p)) PROVE Within(Track(p)', Track(p))
    BY <1>0, <2>5, FrontWithin
  <2>6. TrackOf(p)
    BY <1>0, TrackFlow
  <2>7. Rising(Track(p)', S, LastN(c), Out(c)')
    BY <2>1, <2>2, <2>3, <2>4, <2>5, <2>6 DEF TrackOf
  <2>8. Rising(Track(p), S, LastN(c), Out(c))'
    BY <1>3, <2>7 DEF Rising
  <2>9. (LastN(c) <= Out(c))'
    BY <1>0, <1>1, <1>2, <1>3
  <2> QED
    BY <1>1, <1>3, <2>8, <2>9 DEF Ascending, Stocked
<1>4. CASE /\ DeliverMessage(q) /\ Wanted(c) /\ waiting_on_stream[q][task[q].packet.id] = c
           /\ LastN(c)' = task[q].packet.n
           /\ InOrder(c) /\ task[q].packet.call = c /\ task[q].packet.n > LastN(c) => InOrder(c)'
  <2> DEFINE m == task[q].packet
  <2>1. /\ Track(p) # <<>> /\ Track(p)' = Tail(Track(p)) /\ Head(Track(p)) = m
        /\ InArms(q) = <<m>> /\ UNCHANGED <<up, sent>>
    BY <1>0, <1>4, DeliveredTrack
  <2>2. m \in S
    BY <1>4, <2>1, ArmsOwner
  <2>3. m.call = c /\ m.n \in Nat
    BY <1>0, <2>2 DEF Messages
  <2>4. LastN(c) < m.n /\ m.n <= Out(c) /\ Rising(Track(p)', S, m.n, Out(c))
    BY <1>0, <1>1, <1>2, <2>1, <2>2, RisingTail
  <2>5. Out(c)' = Out(c)
    BY <2>1 DEF Out
  <2>6. Rising(Track(p), S, LastN(c), Out(c))'
    BY <1>4, <2>4, <2>5 DEF Rising
  <2>7. InOrder(c)' /\ (LastN(c) <= Out(c))'
    BY <1>2, <1>4, <2>3, <2>4, <2>5
  <2> QED
    BY <1>1, <2>6, <2>7 DEF Ascending, Stocked
<1> QED
  BY <1>2, <1>3, <1>4, LastFlow

-----------------------------------------------------------------------------
(* OrderInv: nothing is left out for who listens *)

LEMMA CompleteSame ==
    ASSUME NEW seq, NEW S, NEW low, NEW high, NEW f \in BOOLEAN, NEW g \in BOOLEAN, g => f,
           Complete(seq, S, low, high, f)
    PROVE  Complete(seq, S, low, high, g)
BY DEF Complete

\* whoever listens after a step did before it, or there is nothing to hear yet
LEMMA ListenedBefore ==
    ASSUME Sound, [Next]_vars, ~Reconnect, NEW c \in Streams, AskedOnce(c), Beginning(c), Out(c)' # 0
    PROVE  /\ Listening(c)' => Listening(c)
           /\ Wanted(c)' => Wanted(c)
           /\ Feeds(c)' => Feeds(c)
<1>0. /\ TypeOK /\ c \in Calls /\ Callee(c) \in Peers /\ CallerOf[c] \in Peers /\ Cons(c) \in Peers
      /\ ~Unfed(c)'
  BY TwoHalves, UnfedStays DEF Sound
<1>1. ~Asks(c)
  <2>1. ASSUME Asks(c) PROVE Out(c)' = Out(c) /\ Out(c) = 0
    <3>1. UNCHANGED <<up, sent>>
      BY <2>1 DEF Asks, ToSendRequest, prodVars
    <3>2. c \in CallsOf(rx_requests[CallerOf[c]])
      BY <1>0, <2>1, AskedFlow
    <3> QED
      BY <3>1, <3>2 DEF Out, Beginning
  <2> QED
    BY <2>1
<1>2. ~(Gets(c) /\ KindOf[c] = "RequestReceiver")
  <2>1. ASSUME Gets(c), KindOf[c] = "RequestReceiver" PROVE Out(c)' = Out(c) /\ Out(c) = 0
    <3>1. UNCHANGED <<up, sent>>
      BY <2>1 DEF Gets, RecvRequest, callVars, handleVars, prodVars
    <3>2. Asked(c)
      BY <1>0, <2>1, Heeded
    <3> QED
      BY <2>1, <3>1, <3>2 DEF Out, Beginning
  <2> QED
    BY <2>1
<1>3. ~StartCall(c)
  <2>1. ASSUME StartCall(c) PROVE Out(c)' = Out(c) /\ Out(c) = 0
    <3>1. UNCHANGED <<up, sent>> /\ res[c] = "idle"
      BY <2>1 DEF StartCall
    <3> QED
      BY <3>1 DEF Out, Beginning
  <2> QED
    BY <2>1
<1>4. ASSUME Wanted(c)' PROVE Wanted(c)
  <2>1. CASE rx'[c] = rx[c]
    BY <1>4, <2>1 DEF Wanted
  <2>2. ASSUME \/ Receive(Cons(c)) /\ Head(tx_requests[Cons(c)]) = c
               \/ DropReceiver(Cons(c)) /\ c \in CallsOf(tx_requests[Cons(c)])
               \/ DeliverToNobody(Cons(c)) /\ Item(task[Cons(c)].packet) = c
        PROVE  Wanted(c)
    <3>1. Once(Handed(Cons(c)), {c})
      BY TwoHalves DEF Beginning, Once, Has
    <3>2. Has(Handed(Cons(c)), {c})
      BY <1>0, <2>2, <3>1, HandedGone
    <3>3. KindOf[c] = "RequestSender" /\ IsHanded(c)
      BY <3>2, TwoHalves DEF Beginning, IsHanded
    <3> QED
      BY <3>3 DEF Beginning, Wanted
  <2> QED
    BY <1>3, <1>4, <2>1, <2>2, ReaderFlow
<1>5. Feeds(c)' => Feeds(c)
  BY <1>1, <1>2, FeedsFlow
<1>6. ASSUME Listening(c)' PROVE Listening(c)
  <2>1. ~broken /\ result[Cons(c)] = "running" /\ Wanted(c)
    BY <1>0, <1>4, <1>6, OnceEnded DEF Listening
  <2>2. CASE Reads(c)'
    <3>1. Gets(c) => Asked(c)
      BY <1>0, Heeded
    <3> QED
      BY <1>1, <2>1, <2>2, <3>1, FeedsFlow DEF Listening
  <2>3. CASE Asked(c)' /\ KindOf[c] = "RequestSender"
    BY <1>0, <1>1, <2>1, <2>3, AskedFlow DEF Listening
  <2> QED
    BY <1>6, <2>2, <2>3 DEF Listening
<1> QED
  BY <1>4, <1>5, <1>6

\* a listening end does not throw a message of the stream away
LEMMA HeardStream ==
    ASSUME Sound, IdsApart, NEW c \in Streams, Beginning(c), Listening(c), "Stream" \notin BadKinds,
           Listens(Cons(c)), InArms(Cons(c))' = <<>>, result'[Cons(c)] = "running"
    PROVE  Arriving(Cons(c)) \notin Messages(c)
<1> DEFINE p == Prod(c)
           q == Cons(c)
           m == Arriving(q)
<1> SUFFICES ASSUME m \in Messages(c) PROVE FALSE
  OBVIOUS
<1>0. /\ TypeOK /\ c \in Calls /\ c # NoCall /\ p \in Peers /\ q \in Peers /\ Other(q) = p
      /\ m.kind = "Stream" /\ GenuineEntries
  BY TwoHalves DEF Sound, CorrelationInv, Messages
<1>1. Recv(q) /\ Arrived(q) # <<>> /\ Selecting(q)
  BY DEF Listens, Arrives
<1>2. /\ 1 \in 1 .. Len(OnTheWay(p)) /\ OnTheWay(p)[1] = m /\ m \in Packets /\ m.id \in Ids
      /\ m.id = id_of[c]
  BY <1>0, <1>1, FirstOnTheWay, ArmsOwner
<1>3. ASSUME NEW x, x # "running", End(q, x) PROVE FALSE
  BY <1>0, <1>3 DEF End, TypeOK, TaskTypeOK
<1>4. waiting_on_stream[q][m.id] # NoCall
  <2>1. CASE Reads(c)
    <3>1. PICK id \in Ids : waiting_on_stream[q][id] = c
      BY <2>1 DEF Reads, CallsIn
    <3>2. id = id_of[c]
      BY <1>0, <3>1, AwaitedAt
    <3> QED
      BY <1>0, <1>2, <3>1, <3>2
  <2>2. CASE Asked(c) /\ KindOf[c] = "RequestSender"
    <3>1. PICK k \in 1 .. Len(OnTheWay(p)) : OnTheWay(p)[k] \in AskFor(c)
      BY <2>2, TwoHalves DEF Asked, Has
    <3>2. k < 1
      BY <1>2, <3>1 DEF Beginning
    <3> QED
      BY <3>1, <3>2
  <2> QED
    BY <2>1, <2>2 DEF Listening
<1>5. CASE RecvStream(q)
  <2>1. Goto(q, "deliver", m) /\ UNCHANGED result
    BY <1>4, <1>5 DEF RecvStream, endVars, Arriving
  <2>2. task'[q] = [at |-> "deliver", packet |-> m]
    BY <1>0, <2>1 DEF Goto, TypeOK, TaskTypeOK
  <2>3. InArms(q)' = <<m>>
    BY <1>0, <2>1, <2>2 DEF InArms, Delivering
  <2> QED
    BY <2>3
<1>6. CASE RecvRefused(q) \/ ReadFails(q)
  BY <1>3, <1>6 DEF RecvRefused, ReadFails, Refusal
<1>7. ~(RecvMalformed(q) \/ RecvEnableServerRequests(q) \/ RecvRequest(q) \/ RecvAnswer(q)
        \/ RecvStreamClosed(q) \/ RecvClose(q) \/ RecvPing(q))
  BY <1>0 DEF RecvMalformed, RecvEnableServerRequests, RecvRequest, RecvAnswer, RecvStreamClosed,
     RecvClose, RecvPing, Accepts, Arrives, RequestKinds, Arriving
<1> QED
  BY <1>1, <1>5, <1>6, <1>7 DEF Recv

\* what a task puts in a stream that is wanted is the last there
LEMMA DeliveredLast ==
    ASSUME Sound, IdsApart, Attended, NEW c \in Streams, Wanted(c), DeliverMessage(Cons(c)),
           task[Cons(c)].packet \in Messages(c)
    PROVE  LastN(c)' = task[Cons(c)].packet.n
<1> DEFINE q == Cons(c)
           m == task[q].packet
<1>0. /\ TypeOK /\ c \in Calls /\ q \in Peers /\ Prod(c) \in Peers /\ Other(Prod(c)) = q
      /\ down \in [Calls -> Seq(Bodies)] /\ NoCall \notin Calls
  BY TwoHalves, Basics DEF Sound, TypeOK, CallTypeOK
<1>1. InArms(q) = <<m>>
  BY <1>0, DeliveredTrack
<1>2. waiting_on_stream[q][m.id] = c
  <2>1. waiting_on_stream[q][m.id] \in Streams
    <3>1. 1 \in 1 .. Len(InArms(q)) /\ InArms(q)[1] = m
      BY <1>1
    <3> QED
      BY <1>0, <3>1 DEF Attended
  <2>2. waiting_on_stream[q][m.id] \in {c, NoCall}
    BY <1>1, ArmsOwner
  <2> QED
    BY <1>0, <2>1, <2>2 DEF Streams
<1>3. down' = [down EXCEPT ![c] = Append(@, Body(m))]
  BY <1>2 DEF DeliverMessage, Wanted
<1>4. down'[c] = Append(down[c], Body(m)) /\ down[c] \in Seq(Bodies)
  BY <1>0, <1>3
<1>5. Body(m) \in Bodies
  <2>1. m \in Packets
    BY <1>0, WayType
  <2> QED
    BY <2>1 DEF Body, Bodies, Packets
<1>6. down'[c] # <<>> /\ down'[c][Len(down'[c])] = Body(m)
  <2>1. Len(down'[c]) = Len(down[c]) + 1 /\ down'[c][Len(down[c]) + 1] = Body(m) /\ Len(down[c]) \in Nat
    BY <1>4, <1>5, Appended
  <2> QED
    BY <2>1
<1> QED
  BY <1>6 DEF LastN, Body

LEMMA ListeningComplete ==
    ASSUME Sound, IdsApart, Attended, [Next]_vars, ~Reconnect, NEW c \in Streams, AskedOnce(c), Beginning(c),
           Ascending(c), Gapless(c), "Stream" \notin BadKinds, Listening(c)', LastN(c)' \in Nat
    PROVE  Complete(Track(Prod(c))', Messages(c), LastN(c)', Out(c)', Feeds(c)')
<1> DEFINE p == Prod(c)
           q == Cons(c)
           S == Messages(c)
           f == Feeds(c)
           g == Feeds(c)'
           low == LastN(c)
           old == Track(p)
           new == Track(p)'
           Goal == Complete(new, S, LastN(c)', Out(c)', g)
<1>0. /\ TypeOK /\ TypeOK' /\ Ended /\ Ended' /\ ~Reconnect
      /\ p \in Peers /\ q \in Peers /\ Other(p) = q /\ c \in Calls
      /\ old \in Seq(Packets) /\ new \in Seq(Packets)
      /\ \A m \in S : m.n \in Nat
      /\ low \in Nat /\ f \in BOOLEAN /\ g \in BOOLEAN
  BY TwoHalves, SoundStep, TrackType, TrackTypeNext, LastType, Basics DEF Sound, OrphanInv, Messages, Feeds
<1>1. /\ Out(c) \in Int /\ Out(c)' \in Int /\ Out(c)' >= Out(c)
      /\ Feeding(c) /\ ~Over(c) => Head(up[c]) = Out(c) + 1 /\ Out(c)' = Out(c) + 1
      /\ \/ Out(c)' = Out(c) \/ (Feeding(c) /\ ~Over(c))
         \/ DropHandler(p) /\ result[p] = "running" /\ result'[p] # "running"
  BY StockStep DEF Ascending, Stocked
<1>2. CASE Out(c)' = 0
  BY <1>2 DEF Complete
<1>3. ASSUME Out(c)' # 0 PROVE Goal
  <2>1. Listening(c) /\ Wanted(c) /\ (g => f)
    BY <1>3, ListenedBefore DEF Listening
  <2>2. /\ Complete(old, S, low, Out(c), f) /\ Rising(old, S, low, Out(c))
        /\ ~broken' /\ result'[q] = "running"
    BY <2>1 DEF Gapless, Ascending, Listening
  <2>3. ASSUME DropHandler(p) PROVE g = FALSE
    <3>1. waiting_on_user'[p] = EmptyTable
      BY <1>0, <2>3, TablesType DEF DropHandler
    <3> QED
      BY <1>0, <3>1, Basics DEF Feeds, CallsIn, EmptyTable
  <2>4. ASSUME DeliverMessage(q) PROVE Goal
    <3> DEFINE m == task[q].packet
    <3>1. /\ old # <<>> /\ new = Tail(old) /\ Head(old) = m /\ InArms(q) = <<m>>
          /\ UNCHANGED <<up, sent>>
      BY <1>0, <2>4, DeliveredTrack
    <3>2. Out(c)' = Out(c)
      BY <3>1 DEF Out
    <3>3. CASE m \in S
      <4>1. LastN(c)' = m.n
        BY <2>1, <2>4, <3>3, DeliveredLast
      <4>2. Head(old) \in S
        BY <3>1, <3>3
      <4>3. Complete(Tail(old), S, Head(old).n, Out(c), f)
        BY <1>0, <1>1, <2>2, <3>1, <4>2, CompleteHead
      <4>4. Complete(new, S, LastN(c)', Out(c)', f)
        BY <3>1, <3>2, <4>1, <4>3
      <4> QED
        BY <1>0, <2>1, <4>4, CompleteSame
    <3>4. CASE m \notin S
      <4>1. waiting_on_stream[q][m.id] # c
        BY <3>1, <3>4, ArmsOwner
      <4>2. LastN(c)' = low
        BY <4>1, LastFlow
      <4>3. Complete(new, S, low, Out(c), g)
        BY <1>0, <1>1, <2>1, <2>2, <3>1, <3>4, CompleteTail
      <4> QED
        BY <3>2, <4>2, <4>3
    <3> QED
      BY <3>3, <3>4
  <2>5. ASSUME ~DeliverMessage(q) PROVE Goal
    <3>1. LastN(c)' = low
      BY <2>5, LastFlow
    <3>2. ASSUME Feeding(c), ~Over(c) PROVE Goal
      <4> DEFINE m == Packet("Stream", id_of[c], c, Head(up[c]))
      <4>1. m \in S /\ m \in Packets /\ new = Append(old, m) /\ m.n = Head(up[c])
        BY <3>2, FeedsIt DEF Speaks, Packet
      <4>2. f
        BY <3>2, <1>0 DEF Feeding, Feeds, CallsIn
      <4> HIDE DEF m
      <4>3. Complete(Append(old, m), S, low, Out(c)', g)
        BY <1>0, <1>1, <2>1, <2>2, <3>2, <4>1, <4>2, CompleteAppend
      <4> QED
        BY <3>1, <4>1, <4>3
    <3>3. ASSUME DropHandler(p), Front(new, old) PROVE Goal
      <4>1. Complete(new, S, low, Out(c)', FALSE)
        BY <1>0, <1>1, <2>2, <3>3, CompleteFront
      <4> QED
        BY <2>3, <3>1, <3>3, <4>1
    <3>4. ASSUME DropHandler(p), result[p] = "running", result'[p] # "running" PROVE Goal
      <4>1. new = old => Front(new, old)
        BY <1>0 DEF Front
      <4>2. ASSUME NEW m, Speaks(p, m) PROVE FALSE
        <5>1. task'[p].at = "write"
          BY <1>0, <4>2 DEF Speaks, Goto, TypeOK, TaskTypeOK
        <5> QED
          BY <1>0, <3>4, <5>1 DEF Ended
      <4>3. ~Dealt(p)
        <5>1. ~Listens(q)
          <6>1. ASSUME Recv(q) PROVE result'[p] = result[p]
            <7>1. ASSUME NEW x, End(q, x) PROVE result'[p] = result[p]
              BY <1>0, <7>1, TwoPeers DEF End, TypeOK, TaskTypeOK
            <7> QED
              BY <6>1, <7>1 DEF Recv, RecvRefused, RecvEnableServerRequests, RecvRequest,
                 RecvAnswer, RecvStream, RecvStreamClosed, RecvClose, RecvPing, RecvMalformed,
                 ReadFails, taskVars, endVars
          <6> QED
            BY <3>4, <6>1 DEF Listens
        <5> QED
          BY <1>0, <2>5, <5>1 DEF Dealt
      <4> QED
        BY <1>0, <2>2, <3>3, <3>4, <4>1, <4>2, <4>3, TrackFlow DEF TrackOf
    <3>5. ASSUME Out(c)' = Out(c), ~(Feeding(c) /\ ~Over(c)) PROVE Goal
      <4>1. CASE new = old
        BY <1>0, <2>1, <2>2, <3>1, <3>5, <4>1, CompleteSame
      <4>2. ASSUME NEW m \in Packets, Speaks(p, m), new = Append(old, m) PROVE Goal
        <5>1. m \notin S
          BY <3>5, <4>2, OnlyFed
        <5>2. Complete(Append(old, m), S, low, Out(c)', g)
          BY <1>0, <1>1, <2>1, <2>2, <3>5, <5>1, CompleteAppend
        <5> QED
          BY <3>1, <4>2, <5>2
      <4>3. CASE Dealt(p)
        <5>1. /\ old # <<>> /\ new = Tail(old) /\ Head(old) = Arriving(q)
              /\ Listens(q) /\ InArms(q)' = <<>>
          BY <1>0, <2>5, <4>3 DEF Dealt
        <5>2. Head(old) \notin S
          BY <2>1, <2>2, <5>1, HeardStream
        <5>3. Complete(new, S, low, Out(c), g)
          BY <1>0, <1>1, <2>1, <2>2, <5>1, <5>2, CompleteTail
        <5> QED
          BY <3>1, <3>5, <5>3
      <4> QED
        BY <1>0, <2>2, <3>3, <4>1, <4>2, <4>3, TrackFlow DEF TrackOf
    <3> QED
      BY <1>1, <3>2, <3>4, <3>5
  <2> QED
    BY <2>4, <2>5
<1> QED
  BY <1>2, <1>3

\* what a task is about to put in a stream is the next message of it
LEMMA ArmsNext ==
    ASSUME Sound, BrokenEmpty, IdsApart, [Next]_vars, ~Reconnect, NEW c \in Streams, AskedOnce(c), Beginning(c),
           Ascending(c), Gapless(c), Wanted(c)', NEW i \in 1 .. Len(InArms(Cons(c))'),
           InArms(Cons(c))'[i] \in Messages(c)
    PROVE  InArms(Cons(c))'[i].n = LastN(c)' + 1
<1> DEFINE p == Prod(c)
           q == Cons(c)
           S == Messages(c)
<1>0. /\ TypeOK /\ TypeOK' /\ Ended /\ ~Reconnect
      /\ p \in Peers /\ q \in Peers /\ Other(p) = q /\ Other(q) = p /\ c \in Calls /\ c # NoCall
      /\ Track(p) \in Seq(Packets) /\ LastN(c) \in Nat /\ Feeds(c) \in BOOLEAN
      /\ \A m \in S : m.n \in Nat
  BY TwoHalves, SoundStep, TrackType, LastType, Basics DEF Sound, Messages, Feeds
<1>1. ArmsOf(q)
  BY <1>0, ArmsFlow
<1>2. CASE InArms(q)' = InArms(q)
  <2>1. ~DeliverMessage(q)
    <3>1. InArms(q) # <<>>
      BY <1>2
    <3> QED
      BY <1>0, <1>2, <3>1, DeliveredTrack
  <2>2. LastN(c)' = LastN(c)
    BY <2>1, LastFlow
  <2>3. Wanted(c)
    <3>1. InArms(q) = <<task[q].packet>> /\ task[q].packet \in S
      BY <1>0, <1>2, TrackType
    <3>2. id_of[c] \in Ids
      BY <3>1, ArmsOwner
    <3>3. id_of[c] # NoId
      BY <3>2, StreamFacts
    <3>4. ~StartCall(c)
      BY <3>3 DEF StartCall, Beginning
    <3>5. CASE rx'[c] = rx[c]
      BY <3>5 DEF Wanted
    <3>6. ASSUME \/ Receive(q) /\ Head(tx_requests[q]) = c
                 \/ DropReceiver(q) /\ c \in CallsOf(tx_requests[q])
                 \/ DeliverToNobody(q) /\ Item(task[q].packet) = c
          PROVE  Wanted(c)
      <4>1. Once(Handed(q), {c})
        BY TwoHalves DEF Beginning, Once, Has
      <4>2. Has(Handed(q), {c})
        BY <1>0, <3>6, <4>1, HandedGone
      <4>3. KindOf[c] = "RequestSender" /\ IsHanded(c)
        BY <4>2, TwoHalves DEF Beginning, IsHanded
      <4> QED
        BY <4>3 DEF Beginning, Wanted
    <3> QED
      BY <3>4, <3>5, <3>6, ReaderFlow DEF Wanted
  <2> QED
    BY <1>2, <2>2, <2>3 DEF Gapless
<1>3. CASE /\ InArms(q) = <<>> /\ InArms(q)' = <<Arriving(q)>>
           /\ RecvStream(q) /\ Listens(q) /\ waiting_on_stream[q][Arriving(q).id] # NoCall
  <2> DEFINE m == Arriving(q)
  <2>1. m \in S /\ m.kind = "Stream" /\ InArms(q)'[i] = m
    BY <1>3 DEF Messages
  <2>2. /\ Arrived(q) # <<>> /\ result[q] = "running"
        /\ UNCHANGED <<rx, down, got>>
    BY <1>3 DEF RecvStream, Accepts, Arrives, Selecting, callVars, handleVars, consVars
  <2>3. Reads(c)
    <3>1. m.id \in Ids /\ waiting_on_stream[q][m.id] = c
      BY <1>3, <2>1, <2>2, ArmsOwner
    <3> QED
      BY <1>0, <3>1 DEF Reads, CallsIn
  <2>4. ~broken
    BY <1>0, <2>2 DEF BrokenEmpty, Arrived
  <2>5. Wanted(c)
    BY <2>2 DEF Wanted
  <2>6. Complete(Track(p), S, LastN(c), Out(c), Feeds(c)) /\ Rising(Track(p), S, LastN(c), Out(c))
    BY <2>2, <2>3, <2>4, <2>5 DEF Listening, Gapless, Ascending
  <2>7. Out(c) \in Int
    BY StockStep DEF Ascending, Stocked
  <2>8. Track(p) # <<>> /\ Head(Track(p)) = m
    <3>1. Heard(p) /\ Head(OnTheWay(p)) = m
      BY <1>0, <1>3 DEF Listens, Arriving
    <3>2. Track(p) = OnTheWay(p)
      BY <1>0, <1>3, WayType, Joined DEF Track
    <3> QED
      BY <3>1, <3>2 DEF Heard
  <2>9. m.n = LastN(c) + 1
    BY <1>0, <2>1, <2>6, <2>7, <2>8, CompleteHead
  <2>10. LastN(c)' = LastN(c)
    BY <2>2 DEF LastN
  <2> QED
    BY <2>1, <2>9, <2>10
<1> QED
  BY <1>1, <1>2, <1>3 DEF ArmsOf

LEMMA GaplessStep ==
    ASSUME Sound, BrokenEmpty, Attended, IdsApart, [Next]_vars, ~Reconnect, NEW c \in Streams,
           AskedOnce(c), Beginning(c), Ascending(c), Gapless(c), "Stream" \notin BadKinds
    PROVE  Gapless(c)'
<1>1. LastN(c)' \in Nat
  <2>1. LastN(c) \in Nat /\ task[Cons(c)].packet.n \in Nat
    <3>1. TypeOK /\ c \in Calls /\ Cons(c) \in Peers /\ MaxMsgs \in Nat
      BY TwoHalves, Basics DEF Sound
    <3>2. task[Cons(c)].packet \in Packets
      BY <3>1, WayType
    <3> QED
      BY <3>1, <3>2, LastType DEF Packets
  <2> QED
    BY <2>1, LastFlow
<1>2. Listening(c)' => Complete(Track(Prod(c))', Messages(c), LastN(c)', Out(c)', Feeds(c)')
  BY <1>1, ListeningComplete
<1>3. (Listening(c) => Complete(Track(Prod(c)), Messages(c), LastN(c), Out(c), Feeds(c)))'
  BY <1>2 DEF Complete
<1>4. ASSUME Wanted(c)', NEW i \in 1 .. Len(InArms(Cons(c))'), InArms(Cons(c))'[i] \in Messages(c)
      PROVE  InArms(Cons(c))'[i].n = LastN(c)' + 1
  BY <1>4, ArmsNext
<1> QED
  BY <1>3, <1>4 DEF Gapless

LEMMA OrderStep ==
    ASSUME Sound, RequestInv, OrderInv, [Next]_vars, ~Reconnect PROVE OrderInv'
<1>1. BrokenEmpty' /\ Attended'
  BY BrokenStep, AttendedStep DEF OrderInv, BrokenEmpty
<1>2. FirstAnswers' /\ \A c \in Requests : Single(c)'
  BY FirstAnswersStep, SingleStep DEF OrderInv, RequestInv
<1>3. \A c \in Streams : AskedOnce(c) /\ Beginning(c)'
  <2>1. \A c \in Streams : AskedOnce(c)
    BY TwoHalves DEF RequestInv
  <2> QED
    BY <2>1, BeginningStep DEF OrderInv
<1>4. ASSUME IdsApart', NEW c \in Streams
      PROVE  Ascending(c)' /\ ("Stream" \notin BadKinds => Gapless(c)')
  <2>1. IdsApart
    BY <1>4, ApartBefore
  <2>2. Beginning(c) /\ Ascending(c) /\ BrokenEmpty /\ Attended /\ ("Stream" \notin BadKinds => Gapless(c))
    BY <2>1 DEF OrderInv, BrokenEmpty
  <2> QED
    BY <1>3, <2>1, <2>2, AscendingStep, GaplessStep
<1> QED
  BY <1>1, <1>2, <1>3, <1>4 DEF OrderInv, BrokenEmpty

\* a new byte stream carries nothing, and nobody listens on it yet
LEMMA NewOrder ==
    ASSUME Sound, RequestInv, OrderInv, Reconnect, Clean PROVE OrderInv'
<1>0. /\ TypeOK /\ Ended /\ Dropped /\ IdsApart /\ ~broken' /\ Handed("server")' = <<>>
      /\ \A p \in Peers : /\ OnTheWay(p)' = <<>> /\ task'[p] = task[p] /\ task[p].at = "select"
                          /\ Handed(p)' = Handed(p) \/ Handed(p)' = <<>>
                          /\ waiting_on_stream'[p] = EmptyTable
      /\ rx_requests' = rx_requests /\ \A c \in Calls : id_of[c] = NoId <=> id_of'[c] = NoId
  BY NewStream DEF Sound, OrphanInv
<1>1. \A c \in Calls : c \notin CallsIn(EmptyTable)
  BY Basics DEF CallsIn, EmptyTable
<1>2. \A X : ~Has(<<>>, X) /\ Once(<<>>, X)
  BY DEF Has, Once
<1>3. \A p \in Peers : InArms(p)' = <<>>
  BY <1>0 DEF InArms, Delivering
<1>4. \A p \in Peers : Track(p)' = <<>>
  <2>1. <<>> \o <<>> = <<>>
    OBVIOUS
  <2> QED
    BY <1>0, <1>3, <2>1, TwoPeers DEF Track
<1>5. Attended' /\ FirstAnswers'
  BY <1>0, <1>3 DEF Attended, FirstAnswers
<1>6. UNCHANGED <<up, sent, down, got>>
  BY DEF Reconnect
<1>7. \A c \in Requests : Single(c)'
  BY <1>6 DEF OrderInv, Single
<1>8. ASSUME NEW c \in Streams PROVE Beginning(c)'
  <2>1. /\ c \in Calls /\ ~IsRequest(c) /\ Prod(c) \in Peers /\ Callee(c) \in Peers
        /\ CallerOf[c] \in Peers /\ Beginning(c) /\ AskedOnce(c)
        /\ KindOf[c] = "RequestSender" => Cons(c) = Callee(c)
    BY TwoHalves DEF OrderInv, RequestInv
  <2>2. ~Asked(c)' /\ Out(c)' = Out(c) /\ Callee(c)' = Callee(c) /\ Prod(c)' = Prod(c)
    BY <1>0, <1>2, <1>6, <2>1 DEF Asked, Out, Callee, Prod
  <2>3. /\ res'[c] = res[c]
        /\ rx'[c] = rx[c] \/ (Cons(c) = "server" /\ c \in CallsOf(Handed("server")))
    BY <1>0, <2>1, ReconnectedCalls
  <2>4. /\ IsHanded(c)' => IsHanded(c) /\ Callee(c) # "server"
        /\ Once(Handed(Callee(c))', {c}) /\ ~Has(Handed(CallerOf[c])', {c})
    BY <1>0, <1>2, <2>1, <2>2 DEF IsHanded, Beginning
  <2>5. c \in CallsOf(Handed("server")) /\ Callee(c) = "server" => IsHanded(c)
    BY DEF CallsOf, IsHanded, Has
  <2>6. KindOf[c] = "RequestSender" /\ (id_of'[c] = NoId \/ Asked(c)' \/ IsHanded(c)') => rx'[c] = "none"
    <3> SUFFICES ASSUME KindOf[c] = "RequestSender", id_of[c] = NoId \/ (IsHanded(c) /\ Callee(c) # "server")
                 PROVE  rx'[c] = "none"
      BY <1>0, <2>1, <2>2, <2>4
    <3>1. rx[c] = "none" /\ Cons(c) = Callee(c)
      BY <2>1 DEF Beginning
    <3>2. id_of[c] = NoId => ~IsHanded(c)
      BY <2>1 DEF AskedOnce
    <3> QED
      BY <2>3, <2>5, <3>1, <3>2
  <2>7. OnTheWay(Prod(c))' = <<>>
    BY <1>0, <2>1
  <2> QED
    BY <1>0, <2>1, <2>2, <2>3, <2>4, <2>6, <2>7 DEF Beginning
<1>9. ASSUME NEW c \in Streams PROVE Ascending(c)' /\ Gapless(c)'
  <2>1. /\ c \in Calls /\ Prod(c) \in Peers /\ Cons(c) \in Peers /\ CallerOf[c] \in Peers
        /\ Ascending(c)
    BY <1>0, TwoHalves DEF OrderInv
  <2>2. Track(Prod(c))' = <<>> /\ InArms(Cons(c))' = <<>> /\ OnTheWay(CallerOf[c])' = <<>>
    BY <1>0, <1>3, <1>4, <2>1
  <2>3. LastN(c)' = LastN(c) /\ Out(c)' = Out(c) /\ (InOrder(c) => InOrder(c)')
    BY <1>6 DEF LastN, Out, InOrder
  <2>4. Rising(Track(Prod(c)), Messages(c), LastN(c), Out(c))'
    BY <2>2 DEF Rising, Prod
  <2>5. Ascending(c)'
    BY <1>6, <2>1, <2>3, <2>4 DEF Ascending
  <2>6. ~Reads(c)' /\ ~Asked(c)'
    BY <1>0, <1>1, <1>2, <2>1, <2>2 DEF Reads, Asked, Cons, Prod
  <2>7. ~Listening(c)'
    BY <2>6 DEF Listening
  <2> QED
    BY <2>2, <2>5, <2>7 DEF Gapless, Cons, Prod
<1> QED
  BY <1>0, <1>5, <1>7, <1>8, <1>9 DEF OrderInv, Streams, Requests, IsRequest

LEMMA OrderInit == ASSUME Init PROVE OrderInv
<1>1. \A p \in Peers : /\ OnTheWay(p) = <<>> /\ InArms(p) = <<>> /\ Handed(p) = <<>>
                       /\ rx_requests[p] = <<>> /\ link[p] = <<>>
  BY DEF Init, OnTheWay, InHand, InArms, Handed, Writing, Delivering, Idle
<1>2. \A p \in Peers : Track(p) = <<>>
  BY <1>1, TwoPeers DEF Track
<1>3. \A c \in Calls : /\ up[c] = <<>> /\ sent[c] = 0 /\ down[c] = <<>> /\ got[c] = 0 /\ rx[c] = "none"
                       /\ res[c] = "idle" /\ id_of[c] = NoId
  BY DEF Init
<1>4. ~broken /\ Attended /\ FirstAnswers
  BY <1>1 DEF Init, Attended, FirstAnswers
<1>5. \A c \in Requests : Single(c)
  BY <1>3 DEF Single, Requests
<1>6. ASSUME NEW c \in Streams PROVE Beginning(c)
  <2>1. /\ c \in Calls /\ Prod(c) \in Peers /\ Callee(c) \in Peers /\ CallerOf[c] \in Peers
    BY TwoHalves
  <2>2. Out(c) = 0
    BY <1>3, <2>1 DEF Out
  <2>3. c \notin CallsOf(rx_requests[CallerOf[c]])
    BY <1>1, <2>1 DEF CallsOf
  <2>4. Once(Handed(Callee(c)), {c}) /\ ~Has(Handed(CallerOf[c]), {c})
    BY <1>1, <2>1 DEF Once, Has
  <2> QED
    BY <1>1, <1>3, <2>1, <2>2, <2>3, <2>4 DEF Beginning
<1>7. ASSUME NEW c \in Streams PROVE Ascending(c) /\ Gapless(c)
  <2>1. /\ c \in Calls /\ Prod(c) \in Peers /\ Cons(c) \in Peers
    BY TwoHalves
  <2>2. Out(c) = 0 /\ LastN(c) = 0 /\ InOrder(c)
    BY <1>3, <2>1 DEF Out, LastN, InOrder
  <2>3. Rising(Track(Prod(c)), Messages(c), LastN(c), Out(c))
    BY <1>2, <2>1 DEF Rising
  <2>4. Complete(Track(Prod(c)), Messages(c), LastN(c), Out(c), Feeds(c))
    BY <2>2 DEF Complete
  <2> QED
    BY <1>1, <1>3, <2>1, <2>2, <2>3, <2>4 DEF Ascending, Gapless
<1> QED
  BY <1>4, <1>5, <1>6, <1>7 DEF OrderInv

\* What a connection holds of a call is what its producer put in and its consumer has not
\* taken: an answer has one place, the messages of a stream lie in the order in which
\* they were sent from the channel of the consumer back to that of the producer, and none
\* is missing while the consumer's end listens (handler.rs 403-436, 537-611).
THEOREM OrderInvHolds == Spec /\ CleanReconnects => []OrderInv
<1>1. Init => OrderInv
  BY OrderInit
<1>2. Sound /\ RequestInv /\ OrderInv /\ [Next]_vars /\ [Reconnect => Clean]_vars => OrderInv'
  BY OrderStep, CleanOne, NewOrder
<1>3. Spec /\ CleanReconnects => []Sound
  BY SoundAlways
<1>4. Spec /\ CleanReconnects => []RequestInv
  BY RequestInvHolds
<1> QED
  BY <1>1, <1>2, <1>3, <1>4, PTL DEF Spec, CleanReconnects

-----------------------------------------------------------------------------
(* Connection implements Rpc *)

\* what Rpc calls arrived
Seen == [c \in Calls |-> IF InOrder(c) THEN LastN(c) ELSE MaxMsgs + 1]

LEMMA AllInOrder ==
    ASSUME Sound, OrderInv, IdsApart, NEW c \in Calls
    PROVE  InOrder(c)
<1>1. CASE c \in Streams
  BY <1>1 DEF OrderInv, Ascending
<1>2. CASE c \in Requests
  <2>1. \A i \in 1 .. Len(down[c]) : down[c][i].call = c
    BY DEF Sound, CorrelationInv, CorrelationApart, Correlation
  <2>2. got[c] = 0 /\ Len(down[c]) <= 1 /\ \A i \in 1 .. Len(down[c]) : down[c][i].n = 1
    BY <1>2 DEF OrderInv, Single
  <2>3. Len(down[c]) \in Nat
    BY DEF Sound, TypeOK, CallTypeOK
  <2>4. \A i \in 1 .. Len(down[c]) : i = 1
    BY <2>2, <2>3
  <2> QED
    BY <2>1, <2>2, <2>4 DEF InOrder
<1> QED
  BY <1>1, <1>2 DEF Streams

LEMMA SeenIs ==
    ASSUME Sound, OrderInv, IdsApart
    PROVE  Seen = [c \in Calls |-> LastN(c)]
BY AllInOrder DEF Seen

LEMMA SeenNext == (Sound /\ OrderInv /\ IdsApart)' => Seen' = [c \in Calls |-> LastN(c)']
<1> DEFINE Last == Seen = [c \in Calls |-> LastN(c)]
<1>1. Sound /\ OrderInv /\ IdsApart => Last
  BY SeenIs
<1> HIDE DEF Last
<1>2. (Sound /\ OrderInv /\ IdsApart)' => Last'
  BY <1>1, PTL
<1> QED
  BY <1>2 DEF Last

RpcStep == rpc!Next \/ UNCHANGED rpc!rpcVars

LEMMA RpcStutter ==
    ASSUME UNCHANGED <<res, sent, down, got>>
    PROVE  RpcStep
BY DEF RpcStep, rpc!rpcVars, InOrder, LastN

LEMMA RpcFails ==
    ASSUME TypeOK, UNCHANGED <<sent, down, got>>, NEW S, res' = Failed(S)
    PROVE  RpcStep
<1> DEFINE T == {c \in Requests : c \in S /\ res[c] = "pending"}
<1>1. UNCHANGED Seen
  BY DEF Seen, InOrder, LastN
<1>2. res' = [c \in Calls |-> IF c \in T THEN "TaskFailed" ELSE res[c]]
  BY DEF Failed, Requests
<1>3. CASE T = {}
  BY <1>1, <1>2, <1>3, RpcStutter DEF TypeOK, CallTypeOK
<1>4. CASE T # {}
  <2>1. T \in SUBSET Requests
    OBVIOUS
  <2>2. rpc!Fail(T)
    BY <1>1, <1>2, <1>4 DEF rpc!Fail, Seen
  <2> QED
    BY <2>1, <2>2 DEF RpcStep, rpc!Next
<1> QED
  BY <1>3, <1>4

\* what is known before and after a step
Known == Sound /\ RequestInv /\ OrderInv /\ IdsApart

LEMMA SeenBoth ==
    ASSUME Known, Known'
    PROVE  Seen = [c \in Calls |-> LastN(c)] /\ Seen' = [c \in Calls |-> LastN(c)']
BY SeenIs, SeenNext DEF Known

LEMMA SeenSame ==
    ASSUME Known, Known', \A d \in Calls : LastN(d)' = LastN(d)
    PROVE  Seen' = Seen
BY SeenBoth

LEMMA SeenAt ==
    ASSUME Known, Known', NEW c \in Calls, NEW n, LastN(c)' = n,
           \A d \in Calls : d # c => LastN(d)' = LastN(d)
    PROVE  Seen' = [Seen EXCEPT ![c] = n] /\ Seen[c] = LastN(c)
BY SeenBoth

LEMMA RpcStarts ==
    ASSUME NEW c \in Calls, StartCall(c) \/ RefuseCall(c)
    PROVE  RpcStep
<1>1. /\ res[c] = "idle" /\ UNCHANGED <<sent, down, got>>
      /\ res' = [res EXCEPT ![c] = "pending"] \/ res' = [res EXCEPT ![c] = "AlreadyClosed"]
  BY DEF StartCall, RefuseCall, handleVars, prodVars, consVars
<1>2. UNCHANGED Seen
  BY <1>1 DEF Seen, InOrder, LastN
<1>3. rpc!Start(c, "pending") \/ rpc!Start(c, "AlreadyClosed")
  BY <1>1, <1>2 DEF rpc!Start, Seen
<1> QED
  BY <1>3 DEF RpcStep, rpc!Next

\* who can still send has not been told that there is no answer
LEMMA RpcProduces ==
    ASSUME Known, NEW c \in Calls, Answer(c) \/ Emit(c)
    PROVE  RpcStep
<1>0. TypeOK /\ res \in [Calls -> Outcomes] /\ sent \in [Calls -> 0 .. MaxMsgs] /\ MaxMsgs \in Nat
  BY Basics DEF Known, Sound, TypeOK, CallTypeOK
<1>1. UNCHANGED <<res, down, got>> /\ tx[c] = "live"
  BY DEF Answer, Emit, consVars
<1>2. UNCHANGED Seen
  BY <1>1 DEF Seen, InOrder, LastN
<1>3. CASE Answer(c)
  <2>1. c \in Requests
    BY <1>3 DEF Answer, Requests
  <2>2. CASE shut[c]
    <3>1. sent' = sent
      BY <1>0, <1>3, <2>2 DEF Answer
    <3> QED
      BY <1>1, <3>1, RpcStutter
  <2>3. CASE ~shut[c]
    <3>1. HandleOf(c) /\ Meaning(c)
      BY <2>1 DEF Known, RequestInv
    <3>2. sent[c] = 0
      BY <1>0, <1>1, <3>1 DEF HandleOf
    <3>3. sent' = [sent EXCEPT ![c] = @ + 1]
      BY <1>0, <1>3, <2>3, <3>2 DEF Answer
    <3>4. res[c] \notin {"idle", "AlreadyClosed", "NoResponse", "MalformedRequest"}
      BY <1>1, <2>3, <3>1 DEF HandleOf, Meaning, Unheard
    <3>5. rpc!Produce(c)
      BY <1>1, <1>2, <2>1, <3>2, <3>3, <3>4 DEF rpc!Produce, Seen
    <3> QED
      BY <3>5 DEF RpcStep, rpc!Next
  <2> QED
    BY <2>2, <2>3
<1>4. CASE Emit(c)
  <2>1. c \in Streams /\ c \notin Requests
    BY <1>4 DEF Emit, Streams, Requests
  <2>2. /\ sent' = [sent EXCEPT ![c] = @ + 1] /\ sent[c] < MaxMsgs /\ ~shut[c]
    BY <1>4 DEF Emit
  <2>3. c \in CallsIn(waiting_on_user[Prod(c)]) \cup CallsOf(rx_requests[Prod(c)])
    BY <1>1, <2>2 DEF Known, Sound, OrphanInv, NoOrphan
  <2>4. res[c] = "pending"
    <3>1. Beginning(c)
      BY <2>1 DEF Known, OrderInv
    <3>2. CASE Feeds(c)
      BY <2>1, <3>1, <3>2, StreamFacts DEF Known, Beginning
    <3>3. CASE c \in CallsOf(rx_requests[Prod(c)])
      <4>1. CallerOf[c] = Prod(c)
        BY <2>1, <3>3, TwoHalves DEF Known, Sound, OrphanInv, OwnCalls
      <4> QED
        BY <3>1, <3>3, <4>1 DEF Beginning
    <3> QED
      BY <2>3, <3>2, <3>3 DEF Feeds
  <2>5. rpc!Produce(c)
    BY <1>1, <1>2, <2>1, <2>2, <2>4 DEF rpc!Produce, Seen
  <2> QED
    BY <2>5 DEF RpcStep, rpc!Next
<1> QED
  BY <1>3, <1>4

\* taking a message, or throwing them away, is nothing new
LEMMA RpcTakes ==
    ASSUME Known, Known', NEW c \in Calls, Take(c) \/ (Cancel(c) /\ ~IsRequest(c))
    PROVE  RpcStep
<1>0. TypeOK /\ down \in [Calls -> Seq(Bodies)] /\ got \in [Calls -> 0 .. MaxMsgs]
  BY DEF Known, Sound, TypeOK, CallTypeOK
<1>1. UNCHANGED <<res, sent>>
  BY DEF Take, Cancel, prodVars
<1>2. \A d \in Calls : d # c => down'[d] = down[d] /\ got'[d] = got[d]
  BY <1>0 DEF Take, Cancel
<1>3. LastN(c)' = LastN(c)
  <2>1. CASE Take(c)
    <3>1. down[c] # <<>> /\ down'[c] = Tail(down[c]) /\ got'[c] = down[c][1].n
      BY <1>0, <2>1 DEF Take
    <3>2. down[c] \in Seq(Bodies)
      BY <1>0
    <3>3. CASE down'[c] = <<>>
      <4>1. Len(down'[c]) = Len(down[c]) - 1 /\ Len(down[c]) \in Nat
        BY <3>1, <3>2, TailOf
      <4>2. Len(down[c]) = 1
        BY <3>3, <4>1
      <4>3. LastN(c) = down[c][1].n
        BY <3>1, <4>2 DEF LastN
      <4>4. LastN(c)' = got'[c]
        BY <3>3 DEF LastN
      <4> QED
        BY <3>1, <4>3, <4>4
    <3>4. CASE down'[c] # <<>>
      <4>1. down'[c][Len(down'[c])] = down[c][Len(down[c])]
        BY <3>1, <3>2, <3>4, TailOf
      <4>2. LastN(c) = down[c][Len(down[c])].n
        BY <3>1 DEF LastN
      <4>3. LastN(c)' = down'[c][Len(down'[c])].n
        BY <3>4 DEF LastN
      <4> QED
        BY <4>1, <4>2, <4>3
    <3> QED
      BY <3>3, <3>4
  <2>2. CASE Cancel(c) /\ ~IsRequest(c)
    BY <1>0, <2>2 DEF Cancel, LastN
  <2> QED
    BY <2>1, <2>2
<1>4. \A d \in Calls : LastN(d)' = LastN(d)
  BY <1>2, <1>3 DEF LastN
<1>5. Seen' = Seen
  BY <1>4, SeenSame
<1> QED
  BY <1>1, <1>5 DEF RpcStep, rpc!rpcVars, Seen

LEMMA RpcCancels ==
    ASSUME NEW c \in Calls, Cancel(c), IsRequest(c)
    PROVE  RpcStep
<1>1. /\ res[c] = "pending" /\ res' = [res EXCEPT ![c] = "Cancelled"]
      /\ UNCHANGED <<sent, down, got>> /\ c \in Requests
  BY DEF Cancel, prodVars, consVars, Requests
<1>2. UNCHANGED Seen
  BY <1>1 DEF Seen, InOrder, LastN
<1>3. Seen = [Seen EXCEPT ![c] = @]
  BY DEF Seen
<1>4. rpc!Resolve(c, "Cancelled")
  BY <1>1, <1>2, <1>3 DEF rpc!Resolve, Seen
<1> QED
  BY <1>4 DEF RpcStep, rpc!Next, rpc!Resolved

\* the message that is put in a stream is the next one, or a later one
LEMMA RpcArrives ==
    ASSUME Known, Known', NEW q \in Peers, DeliverMessage(q)
    PROVE  RpcStep
<1> DEFINE m == task[q].packet
<1>0. /\ TypeOK /\ down \in [Calls -> Seq(Bodies)] /\ m \in Packets /\ m.id \in Ids
      /\ sent \in [Calls -> 0 .. MaxMsgs] /\ up \in [Calls -> Seq(1 .. MaxMsgs)]
  BY WayType DEF Known, Sound, TypeOK, CallTypeOK, Packets
<1>1. InArms(q) = <<m>> /\ UNCHANGED <<res, sent, got>>
  BY DEF DeliverMessage, InArms, Delivering, prodVars
<1>2. PICK c \in Streams : c = waiting_on_stream[q][m.id]
  <2>1. 1 \in 1 .. Len(InArms(q)) /\ InArms(q)[1] = m
    BY <1>1
  <2> QED
    BY <2>1 DEF Known, OrderInv, Attended
<1>3. CASE ~Wanted(c)
  <2>1. UNCHANGED down
    BY <1>2, <1>3 DEF DeliverMessage, Wanted
  <2> QED
    BY <1>1, <2>1, RpcStutter
<1>4. CASE Wanted(c)
  <2>1. c \in Calls /\ c \notin Requests /\ q = Cons(c) /\ Other(Prod(c)) = q /\ Prod(c) \in Peers
    BY <1>0, <1>2, AwaitedAt, TwoHalves DEF Known, Streams
  <2>2. m \in Messages(c)
    BY <1>1, <1>2, <2>1, ArmsOwner DEF Known
  <2>3. LastN(c)' = m.n
    <3>1. DeliverMessage(Cons(c)) /\ task[Cons(c)].packet = m
      BY <2>1
    <3>2. Sound /\ IdsApart /\ Attended
      BY DEF Known, OrderInv
    <3> HIDE DEF m
    <3>3. LastN(c)' = task[Cons(c)].packet.n
      BY <1>2, <1>4, <2>2, <3>1, <3>2, DeliveredLast
    <3> QED
      BY <3>1, <3>3
  <2>4. \A d \in Calls : d # c => LastN(d)' = LastN(d)
    <3>1. down' = [down EXCEPT ![c] = Append(@, Body(m))]
      BY <1>2, <1>4 DEF DeliverMessage, Wanted
    <3> QED
      BY <1>0, <1>1, <3>1 DEF LastN
  <2>5. Seen' = [Seen EXCEPT ![c] = m.n] /\ Seen[c] = LastN(c)
    <3> HIDE DEF m
    <3> QED
      BY <2>1, <2>3, <2>4, SeenAt
  <2>6. LastN(c) < m.n /\ m.n <= Out(c)
    <3>1. Track(Prod(c)) # <<>> /\ Head(Track(Prod(c))) = m /\ Track(Prod(c)) \in Seq(Packets)
      BY <1>0, <2>1, DeliveredTrack, TrackType
    <3>2. Rising(Track(Prod(c)), Messages(c), LastN(c), Out(c))
      BY <1>2 DEF Known, OrderInv, Ascending
    <3>3. 1 \in 1 .. Len(Track(Prod(c))) /\ Track(Prod(c))[1] = m
      BY <3>1, TailOf
    <3> QED
      BY <2>2, <3>2, <3>3 DEF Rising
  <2>7. Out(c) <= sent[c] /\ LastN(c) \in Nat /\ m.n \in Nat /\ sent[c] \in Nat /\ Out(c) \in Int
    <3>1. up[c] \in Seq(1 .. MaxMsgs) /\ sent[c] \in 0 .. MaxMsgs /\ m.n \in 0 .. MaxMsgs
      BY <1>0, <2>1 DEF Packets
    <3> QED
      BY <1>0, <2>1, <3>1, LastType, Basics DEF Out
  <2>8. m.n \in LastN(c) + 1 .. sent[c]
    BY <2>6, <2>7
  <2>9. "Stream" \in BadKinds \/ m.n = LastN(c) + 1
    <3>1. 1 \in 1 .. Len(InArms(Cons(c))) /\ InArms(Cons(c))[1] = m
      BY <1>1, <2>1
    <3> QED
      BY <1>2, <1>4, <2>2, <3>1 DEF Known, OrderInv, Gapless
  <2>10. rpc!Arrive(c)
    <3> HIDE DEF m
    <3>1. /\ m.n \in Seen[c] + 1 .. sent[c]
          /\ "Stream" \in BadKinds \/ m.n = Seen[c] + 1
          /\ Seen' = [Seen EXCEPT ![c] = m.n]
      BY <2>5, <2>8, <2>9
    <3> QED
      BY <1>1, <2>1, <3>1 DEF rpc!Arrive, Seen
  <2> QED
    BY <2>1, <2>10 DEF RpcStep, rpc!Next
<1> QED
  BY <1>3, <1>4

\* an answer says what became of the ResponseSender
LEMMA RpcResolves ==
    ASSUME Known, Known', NEW p \in Peers, NEW c,
           RecvAnswer(p) \/ (RecvMalformed(p) /\ Arriving(p).kind = "Response"),
           c = waiting_on_stream[p][Arriving(p).id], Refusal(p, Arriving(p)) = "none",
           res[c] = "pending"
    PROVE  RpcStep
<1> DEFINE m == Arriving(p)
<1>0. /\ TypeOK /\ down \in [Calls -> Seq(Bodies)] /\ Arrived(p) # <<>>
      /\ m.kind \in {"Response", "NoResponse", "MalformedRequest"} /\ NoCall \notin Calls
  BY Basics DEF Known, Sound, TypeOK, CallTypeOK, RecvAnswer, RecvMalformed, Accepts, Arrives, Arriving
<1>1. /\ 1 \in 1 .. Len(OnTheWay(Other(p))) /\ OnTheWay(Other(p))[1] = m
      /\ m \in Packets /\ m.id \in Ids
  BY <1>0, FirstOnTheWay
<1>2. c \in Calls /\ IsRequest(c) /\ c \in Requests
  <2>1. c # NoCall /\ IsRequest(c)
    BY <1>0 DEF Refusal, RequestKinds
  <2>2. c \in Calls
    BY <1>0, <1>1, <2>1, TablesType
  <2> QED
    BY <2>1, <2>2 DEF Requests
<1>3. m.id = id_of[c] /\ p = CallerOf[c] /\ Other(p) = Callee(c)
  BY <1>1, <1>2, AwaitedAt, TwoEnds DEF Known
<1>4. Answered(c, {m.kind})
  <2>1. m \in With(id_of[c], {m.kind})
    BY <1>1, <1>2, <1>3, PacketSets
  <2> QED
    BY <1>1, <1>3, <2>1 DEF Answered, Has
<1>5. /\ m.kind = "Response" => sent[c] = 1 /\ m.n = 1
      /\ m.kind # "Response" => sent[c] = 0
  <2>1. Meaning(c) /\ HandleOf(c)
    BY <1>2 DEF Known, RequestInv
  <2>2. m.kind = "Response" => m.n = 1
    BY <1>1, TwoPeers DEF Known, OrderInv, FirstAnswers
  <2> QED
    BY <1>0, <1>4, <2>1, <2>2 DEF Meaning, Unheard
<1>6. UNCHANGED <<sent, got>>
  BY DEF RecvAnswer, RecvMalformed, prodVars, handleVars, consVars, End, DropHandler, callVars
<1>7. CASE RecvMalformed(p) /\ m.kind = "Response"
  <2>1. res' = [res EXCEPT ![c] = "ResponsePacket"] /\ UNCHANGED down
    BY <1>7 DEF RecvMalformed, Arriving, handleVars, consVars
  <2>2. UNCHANGED Seen
    BY <1>6, <2>1 DEF Seen, InOrder, LastN
  <2>3. Seen = [Seen EXCEPT ![c] = @]
    BY DEF Seen
  <2>4. rpc!Resolve(c, "ResponsePacket")
    BY <1>2, <1>5, <1>6, <1>7, <2>1, <2>2, <2>3 DEF rpc!Resolve, Seen
  <2> QED
    BY <1>2, <2>4 DEF RpcStep, rpc!Next, rpc!Resolved
<1>8. CASE RecvAnswer(p) /\ m.kind = "Response"
  <2>1. res' = [res EXCEPT ![c] = "Ok"] /\ down' = [down EXCEPT ![c] = <<Body(m)>>]
    BY <1>8 DEF RecvAnswer, Arriving
  <2>2. LastN(c)' = 1
    <3>1. down'[c] = <<Body(m)>> /\ Body(m).n = 1
      BY <1>0, <1>2, <1>5, <1>8, <2>1 DEF Body
    <3>2. Len(<<Body(m)>>) = 1 /\ <<Body(m)>>[1] = Body(m) /\ <<Body(m)>> # <<>>
      OBVIOUS
    <3> QED
      BY <3>1, <3>2 DEF LastN
  <2>3. \A d \in Calls : d # c => LastN(d)' = LastN(d)
    BY <1>0, <1>2, <1>6, <2>1 DEF LastN
  <2>4. Seen' = [Seen EXCEPT ![c] = 1]
    BY <1>2, <2>2, <2>3, SeenAt
  <2>5. rpc!Resolve(c, "Ok")
    BY <1>2, <1>5, <1>6, <1>8, <2>1, <2>4 DEF rpc!Resolve, Seen
  <2> QED
    BY <1>2, <2>5 DEF RpcStep, rpc!Next, rpc!Resolved
<1>9. CASE RecvAnswer(p) /\ m.kind # "Response"
  <2>1. res' = [res EXCEPT ![c] = m.kind]
    BY <1>9 DEF RecvAnswer, Arriving
  <2>2. down' = down
    <3>1. down' = [down EXCEPT ![c] = @]
      BY <1>0, <1>9 DEF RecvAnswer, Arriving
    <3> QED
      BY <1>0, <3>1
  <2>3. UNCHANGED Seen
    BY <1>6, <2>2 DEF Seen, InOrder, LastN
  <2>4. Seen = [Seen EXCEPT ![c] = @]
    BY DEF Seen
  <2>5. m.kind \in {"NoResponse", "MalformedRequest"}
    BY <1>0, <1>9
  <2> HIDE DEF m
  <2>6. rpc!Resolve(c, m.kind)
    BY <1>2, <1>5, <1>6, <1>9, <2>1, <2>3, <2>4, <2>5 DEF rpc!Resolve, Seen
  <2> QED
    BY <1>2, <2>5, <2>6 DEF RpcStep, rpc!Next, rpc!Resolved
<1> QED
  BY <1>7, <1>8, <1>9

\* the end of a task, with its handler or without
LEMMA RpcEnds ==
    ASSUME TypeOK, NEW p \in Peers, NEW r, End(p, r)
    PROVE  RpcStep
<1>1. CASE UNCHANGED callVars
  BY <1>1, RpcStutter DEF callVars, handleVars, prodVars, consVars
<1>2. CASE DropHandler(p)
  <2>1. UNCHANGED <<sent, down, got>> /\ \E S : res' = Failed(S)
    BY <1>2 DEF DropHandler, consVars
  <2> QED
    BY <2>1, RpcFails
<1> QED
  BY <1>1, <1>2 DEF End

LEMMA RpcCloses ==
    ASSUME TypeOK, NEW p \in Peers, CloseHandler(p), UNCHANGED <<sent, down, got>>
    PROVE  RpcStep
<1>1. \E S : res' = Failed(S)
  BY DEF CloseHandler
<1> QED
  BY <1>1, RpcFails

\* the receive arm of a task
LEMMA RpcRecv ==
    ASSUME Known, Known', NEW p \in Peers, Recv(p)
    PROVE  RpcStep
<1> DEFINE m == Arriving(p)
           c == waiting_on_stream[p][m.id]
<1>0. TypeOK
  BY DEF Known, Sound
<1>1. CASE RecvRefused(p) \/ ReadFails(p)
  BY <1>0, <1>1, RpcEnds DEF RecvRefused, ReadFails
<1>2. CASE RecvEnableServerRequests(p) \/ RecvRequest(p) \/ RecvStream(p) \/ RecvPing(p)
  BY <1>2, RpcStutter DEF RecvEnableServerRequests, RecvRequest, RecvStream, RecvPing, callVars,
     handleVars, prodVars, consVars
<1>3. CASE RecvAnswer(p)
  <2>1. Refusal(p, m) = "none"
    BY <1>3 DEF RecvAnswer, Accepts, Arriving
  <2>2. CASE res[c] = "pending"
    BY <1>3, <2>1, <2>2, RpcResolves
  <2>3. CASE res[c] # "pending"
    BY <1>3, <2>3, RpcStutter DEF RecvAnswer, Arriving, prodVars
  <2> QED
    BY <2>2, <2>3
<1>4. CASE RecvMalformed(p)
  <2>1. CASE m.kind = "Response" /\ Refusal(p, m) # "none"
    BY <1>0, <1>4, <2>1, RpcEnds DEF RecvMalformed, Arriving
  <2>2. CASE m.kind = "Response" /\ Refusal(p, m) = "none" /\ res[c] = "pending"
    BY <1>4, <2>2, RpcResolves
  <2>3. CASE m.kind = "Response" /\ Refusal(p, m) = "none" /\ res[c] # "pending"
    <3>1. UNCHANGED <<sent, down, got>> /\ res' = [res EXCEPT ![c] = @]
      BY <1>4, <2>3 DEF RecvMalformed, Arriving, handleVars, prodVars, consVars
    <3>2. res' = res
      BY <1>0, <3>1 DEF TypeOK, CallTypeOK
    <3> QED
      BY <3>1, <3>2, RpcStutter
  <2>4. CASE m.kind # "Response"
    BY <1>4, <2>4, RpcStutter DEF RecvMalformed, Arriving, handleVars, prodVars, consVars
  <2> QED
    BY <2>1, <2>2, <2>3, <2>4
<1>5. CASE RecvStreamClosed(p)
  <2>1. UNCHANGED <<sent, down, got>> /\ \E S : res' = Failed(S)
    BY <1>5 DEF RecvStreamClosed, consVars
  <2> QED
    BY <1>0, <2>1, RpcFails
<1>6. CASE RecvClose(p)
  BY <1>0, <1>6, RpcCloses DEF RecvClose, consVars
<1> QED
  BY <1>1, <1>2, <1>3, <1>4, <1>5, <1>6 DEF Recv

\* the other steps of a task
LEMMA RpcTask ==
    ASSUME Known, Known', NEW p \in Peers, Task(p), ~Recv(p)
    PROVE  RpcStep
<1>0. TypeOK
  BY DEF Known, Sound
<1>1. CASE Deliver(p)
  <2>1. CASE DeliverRequest(p)
    BY <2>1, RpcStutter DEF DeliverRequest, callVars, handleVars, prodVars, consVars
  <2>2. CASE DeliverToNobody(p)
    BY <1>0, <2>2, RpcCloses DEF DeliverToNobody
  <2> QED
    BY <1>1, <2>1, <2>2, RpcArrives DEF Deliver
<1>2. CASE ToSend(p)
  <2>1. CASE ToSendDuplicate(p)
    BY <1>0, <2>1, RpcEnds DEF ToSendDuplicate
  <2>2. CASE ToSendNoId(p)
    <3>1. UNCHANGED <<sent, down, got>> /\ \E S : res' = Failed(S)
      BY <2>2 DEF ToSendNoId, consVars
    <3> QED
      BY <1>0, <3>1, RpcFails
  <2>3. ASSUME NEW id \in Ids, ToSendUser(p, id) PROVE RpcStep
    BY <2>3, RpcStutter DEF ToSendUser, consVars
  <2>4. CASE ToSendEnable(p) \/ ToSendRequest(p)
    BY <2>4, RpcStutter DEF ToSendEnable, ToSendRequest, callVars, handleVars, prodVars, consVars
  <2> QED
    BY <1>2, <2>1, <2>2, <2>3, <2>4 DEF ToSend
<1>3. CASE Ping(p)
  BY <1>3, RpcStutter DEF Ping, callVars, handleVars, prodVars, consVars
<1>4. CASE CloseSignal(p)
  BY <1>0, <1>4, RpcCloses DEF CloseSignal, consVars
<1>5. CASE Finish(p)
  <2>1. CASE close_packet[p]
    BY <1>5, <2>1, RpcStutter DEF Finish, callVars, handleVars, prodVars, consVars
  <2>2. CASE ~close_packet[p]
    BY <1>0, <1>5, <2>2, RpcEnds DEF Finish
  <2> QED
    BY <2>1, <2>2
<1>6. CASE Send(p)
  <2>1. CASE Write(p)
    BY <2>1, RpcStutter DEF Write, callVars, handleVars, prodVars, consVars
  <2>2. CASE WriteFails(p) \/ WriteClose(p)
    BY <1>0, <2>2, RpcEnds DEF WriteFails, WriteClose
  <2> QED
    BY <1>6, <2>1, <2>2 DEF Send
<1> QED
  BY <1>1, <1>2, <1>3, <1>4, <1>5, <1>6 DEF Task

\* the steps of users that Rpc does not see
LEMMA RpcUser ==
    ASSUME \/ \E p \in Peers : User(p)
           \/ \E c \in Calls : DropSender(c) \/ CloseStream(c)
           \/ AskEnable \/ Break \/ UNCHANGED vars
    PROVE  RpcStep
<1>1. CASE \E p \in Peers : User(p)
  BY <1>1, RpcStutter DEF User, Receive, DropReceiver, SignalClose, callVars, handleVars, prodVars,
     consVars
<1>2. CASE \E c \in Calls : DropSender(c) \/ CloseStream(c)
  BY <1>2, RpcStutter DEF DropSender, CloseStream, consVars, prodVars
<1>3. CASE AskEnable \/ Break \/ UNCHANGED vars
  BY <1>3, RpcStutter DEF AskEnable, Break, vars, callVars, handleVars, prodVars, consVars
<1> QED
  BY <1>1, <1>2, <1>3

LEMMA RpcNext ==
    ASSUME Known, Known', [Next]_vars
    PROVE  [rpc!Next]_(rpc!rpcVars)
<1>1. RpcStep
  <2>1. ASSUME NEW p \in Peers, Task(p) PROVE RpcStep
    BY <2>1, RpcRecv, RpcTask
  <2>2. ASSUME NEW c \in Calls, UserCall(c) PROVE RpcStep
    <3>1. CASE StartCall(c) \/ RefuseCall(c)
      BY <3>1, RpcStarts
    <3>2. CASE Answer(c) \/ Emit(c)
      BY <3>2, RpcProduces
    <3>3. CASE Take(c) \/ Cancel(c)
      BY <3>3, RpcTakes, RpcCancels
    <3>4. CASE DropSender(c) \/ CloseStream(c)
      BY <3>4, RpcUser
    <3> QED
      BY <2>2, <3>1, <3>2, <3>3, <3>4 DEF UserCall
  <2>3. CASE Reconnect
    BY <2>3, RpcFails DEF Known, Sound, Reconnect, CloseAllStarted
  <2> QED
    BY <2>1, <2>2, <2>3, RpcUser DEF Next
<1> QED
  BY <1>1 DEF RpcStep

\* A connection is an implementation of Rpc: whatever the tasks and users do and however
\* often the client reconnects cleanly, each call is started once, its producer is heard in
\* order and no message twice, a Request is resolved once and with what its ResponseSender
\* did (handler.rs 206-330, 403-611, 745-820), as long as the ids of the two ends stay apart.
THEOREM Implements == Spec /\ CleanReconnects /\ []IdsApart => ImplementsRpc
<1>1. Init => rpc!Init
  BY DEF Init, rpc!Init, InOrder, LastN
<1>2. Known /\ Known' /\ [Next]_vars => [rpc!Next]_(rpc!rpcVars)
  BY RpcNext
<1>3. Spec /\ CleanReconnects => []Sound
  BY SoundAlways
<1>4. Spec /\ CleanReconnects => []RequestInv
  BY RequestInvHolds
<1>5. Spec /\ CleanReconnects => []OrderInv
  BY OrderInvHolds
<1> QED
  BY <1>1, <1>2, <1>3, <1>4, <1>5, PTL DEF Spec, CleanReconnects, rpc!Spec, ImplementsRpc, Known

\* So is one of a client that only asks, with no condition on the behaviour: over all the
\* byte streams it opens, its calls are what Rpc says (bg_stream_reconnect, handler.rs 738-820).
THEOREM AskersImplement == OnlyAsks => (Spec => ImplementsRpc)
<1> QED
  BY Implements, AskersReconnect, PTL

-----------------------------------------------------------------------------
(* How streams end *)

\* p says that its half of the stream c is closed
Closes(p, c) ==
    \/ Feeding(c) /\ Over(c) /\ p = Prod(c)
    \/ Garbles(c) /\ p = Callee(c)
    \/ /\ p = Cons(c) /\ RecvStream(p) /\ Arrived(p) # <<>> /\ Arriving(p) \in Messages(c)
       /\ waiting_on_stream[p][id_of[c]] = NoCall
    \/ /\ p = Cons(c) /\ DeliverMessage(p) /\ ~Wanted(c) /\ task[p].packet \in Messages(c)
       /\ waiting_on_stream[p][id_of[c]] = c

\* ... which nobody else says
LEMMA WhoCloses ==
    ASSUME Sound, Attended, IdsApart, NEW c \in Streams, NEW p \in Peers, NEW m, Speaks(p, m),
           m \in With(id_of[c], {"StreamClosed"})
    PROVE  Closes(p, c)
<1>0. /\ TypeOK /\ c \in Calls /\ ~IsRequest(c) /\ c # NoCall /\ IdsAscend /\ GenuinePackets /\ GenuineEntries
      /\ Prod(c) \in Peers /\ Cons(c) = Other(Prod(c)) /\ Prod(c) = Other(Cons(c)) /\ Cons(c) \in Peers
      /\ \A q \in Peers : Other(Other(q)) = q /\ Other(q) \in Peers
  BY TwoHalves, TwoPeers DEF Sound, CorrelationInv
<1>1. m \in Packets /\ m.kind = "StreamClosed" /\ m.id = id_of[c] /\ id_of[c] \in Ids /\ Goto(p, "write", m)
  <2>1. m \in Packets /\ Goto(p, "write", m)
    BY DEF Speaks
  <2> QED
    BY <1>0, <2>1, PacketSets DEF Packets
<1>2. \A d \in Calls : id_of[d] = id_of[c] => d = c
  BY <1>0, <1>1, SameCall
<1>3. task'[p] = [at |-> "write", packet |-> m]
  BY <1>0, <1>1 DEF Goto, TypeOK, TaskTypeOK
<1>4. CASE ToSendRequest(p) /\ m = Packet(KindOf[Asking(p)], next[p], Asking(p), 0)
  <2>1. m.kind \in RequestKinds
    BY <1>0, <1>4, CallEntries, Basics DEF Packet
  <2> QED
    BY <1>1, <2>1 DEF RequestKinds
<1>5. ASSUME NEW id \in Ids, ToSendUser(p, id), m = Said(p, id) PROVE Closes(p, c)
  <2> DEFINE d == waiting_on_user[p][id]
  <2>1. d \in Calls
    BY <1>0, <1>5, TablesType DEF ToSendUser
  <2>2. id_of[d] = id /\ Prod(d) = p
    BY <1>0, <2>1, ServedAt
  <2>3. id = id_of[c] /\ ~IsRequest(d) /\ Over(d)
    BY <1>1, <1>5, SaidKinds
  <2>4. d = c
    BY <1>2, <2>1, <2>2, <2>3
  <2> QED
    BY <1>1, <1>5, <2>2, <2>3, <2>4 DEF Closes, Feeding
<1>6. CASE /\ RecvMalformed(p) /\ Arriving(p).kind \in RequestKinds
           /\ m = Control(Complaint(Arriving(p).kind), Arriving(p).id)
  <2> DEFINE d == Arriving(p).call
  <2>1. Arriving(p) \in Packets /\ d \in Calls /\ Arriving(p).id = id_of[c]
    BY <1>0, <1>1, <1>6, Hears DEF Packets, BodyKinds, RequestKinds, Control, Packet
  <2>2. Genuine(Other(p), Arriving(p))
    BY <1>0, <1>6, FirstGenuine DEF RecvMalformed, Arrives, Arriving
  <2>3. id_of[d] = id_of[c] /\ CallerOf[d] = Other(p)
    BY <1>6, <2>1, <2>2 DEF Genuine, BodyKinds
  <2>4. d = c /\ p = Callee(c)
    BY <1>0, <1>2, <2>1, <2>3 DEF Callee
  <2> QED
    BY <1>0, <1>6, <2>1, <2>4, PacketSets DEF Garbles, Closes
<1>7. CASE RecvStream(p) /\ m = Control("StreamClosed", Arriving(p).id)
  <2> DEFINE a == Arriving(p)
  <2>1. Arrived(p) # <<>> /\ a.kind = "Stream" /\ a.id = id_of[c]
    BY <1>1, <1>7 DEF RecvStream, Accepts, Arrives, Arriving, Control, Packet
  <2>2. Genuine(Other(p), a) /\ a \in Packets
    BY <1>0, <2>1, FirstGenuine, FirstOnTheWay DEF Arriving
  <2>3. a.call \in Calls /\ id_of[a.call] = id_of[c] /\ Prod(a.call) = Other(p)
    BY <2>1, <2>2 DEF Genuine, Packets, BodyKinds
  <2>4. a.call = c /\ p = Cons(c)
    BY <1>0, <1>2, <2>3
  <2>5. a \in Messages(c)
    BY <2>1, <2>2, <2>4 DEF Messages, Packets
  <2>6. waiting_on_stream[p][a.id] = NoCall
    <3>1. waiting_on_stream[p][a.id] # NoCall => Goto(p, "deliver", a)
      BY <1>7 DEF RecvStream, Arriving
    <3>2. ~Goto(p, "deliver", a)
      BY <1>0, <1>3 DEF Goto, TypeOK, TaskTypeOK
    <3> QED
      BY <3>1, <3>2
  <2> QED
    BY <1>7, <2>1, <2>4, <2>5, <2>6 DEF Closes
<1>8. CASE DeliverMessage(p) /\ m = Control("StreamClosed", task[p].packet.id)
  <2> DEFINE a == task[p].packet
             e == waiting_on_stream[p][a.id]
  <2>1. task[p].at = "deliver" /\ a.kind = "Stream" /\ a.id = id_of[c]
    BY <1>1, <1>8 DEF DeliverMessage, Delivering, Control, Packet
  <2>2. Genuine(Other(p), a) /\ a \in Packets
    BY <1>0, <2>1, WayType DEF GenuinePackets
  <2>3. a.call \in Calls /\ id_of[a.call] = id_of[c] /\ Prod(a.call) = Other(p)
    BY <2>1, <2>2 DEF Genuine, Packets, BodyKinds
  <2>4. a.call = c /\ p = Cons(c)
    BY <1>0, <1>2, <2>3
  <2>5. a \in Messages(c)
    BY <2>1, <2>2, <2>4 DEF Messages, Packets
  <2>6. e = c
    <3>1. InArms(p) = <<a>>
      BY <1>8, <2>1 DEF InArms, DeliverMessage
    <3>2. 1 \in 1 .. Len(InArms(p)) /\ InArms(p)[1] = a
      BY <3>1
    <3>3. e \in Streams
      BY <1>0, <3>2 DEF Attended
    <3>4. e \in Calls /\ id_of[e] = a.id
      BY <1>0, <1>1, <2>1, <3>3, TwoHalves DEF GenuineEntries
    <3> QED
      BY <1>2, <2>1, <3>4
  <2>7. ~Wanted(c)
    <3>1. Wanted(c) => task' = [task EXCEPT ![p] = Idle]
      BY <1>8, <2>6 DEF DeliverMessage, Wanted
    <3>2. task' # [task EXCEPT ![p] = Idle]
      BY <1>0, <1>3 DEF Idle, TypeOK, TaskTypeOK
    <3> QED
      BY <3>1, <3>2
  <2> QED
    BY <1>8, <2>1, <2>4, <2>5, <2>6, <2>7 DEF Closes
<1> QED
  BY <1>0, <1>1, <1>4, <1>5, <1>6, <1>7, <1>8, Sayings DEF Control, Packet

\* the id of a stream that p says is closed is the one it had
LEMMA ClosingFlow ==
    ASSUME Sound, ControlIds, Attended, IdsApart, IdsApart', [Next]_vars, ~Reconnect,
           NEW c \in Streams, NEW p \in Peers
    PROVE  /\ Closing(p, c) => id_of[c] \in Ids
           /\ Closing(p, c)' => /\ ~Asks(c) /\ id_of'[c] = id_of[c] /\ id_of[c] \in Ids
                                /\ Closing(p, c) \/ Closes(p, c)
           /\ Closing(p, c) => \/ Closing(p, c)' \/ Lost(p)
                               \/ /\ Listens(Other(p))
                                  /\ Arriving(Other(p)) \in With(id_of[c], {"StreamClosed"})
<1> DEFINE X == With(id_of[c], {"StreamClosed"})
           way == OnTheWay(p)
<1>0. /\ TypeOK /\ Ended /\ OwnCalls /\ c \in Calls /\ GenuinePackets /\ IdsAscend
      /\ CallerOf[c] \in Peers
  BY TwoHalves, SoundStep DEF Sound, OrphanInv, CorrelationInv
<1>1. \A m \in Packets : m \in X => m.kind = "StreamClosed" /\ m.id = id_of[c] /\ id_of[c] \in Ids
  BY <1>0, PacketSets DEF Packets
<1>2. \A i \in 1 .. Len(way) : way[i] \in Packets
  BY <1>0, GenuineWay
<1>3. Closing(p, c) => id_of[c] \in Ids
  BY <1>1, <1>2 DEF Closing, Has
<1>4. ~Asks(c) => id_of'[c] = id_of[c]
  BY <1>0, IdFlow
<1>5. ASSUME Asks(c), Closing(p, c)' PROVE FALSE
  <2>1. id_of'[c] = next[CallerOf[c]] /\ next[CallerOf[c]] \in Ids /\ id_of[c] = NoId
    BY <1>0, <1>5, AskedFlow
  <2>2. PICK id \in Ids : id = id_of'[c]
    BY <2>1
  <2>3. Has(way', With(id, {"StreamClosed"}))
    BY <1>5, <2>2 DEF Closing
  <2>4. Has(way, With(id, {"StreamClosed"})) \/ \E m \in With(id, {"StreamClosed"}) : Speaks(p, m)
    BY <1>0, <2>3, WayHas
  <2>5. ASSUME NEW m \in With(id, {"StreamClosed"}), Speaks(p, m) PROVE FALSE
    <3>1. m.kind = "StreamClosed" /\ m \in Packets /\ Goto(p, "write", m)
      BY <2>5 DEF With, Speaks
    <3>2. task' = [task EXCEPT ![CallerOf[c]] =
                     [at |-> "write", packet |-> Packet(KindOf[c], id, c, 0)]]
      BY <1>5, <2>1, <2>2 DEF Asks, ToSendRequest, Asking, Goto
    <3>3. KindOf[c] # "StreamClosed"
      BY <1>0, Basics DEF RequestKinds
    <3>4. task'[p] = [at |-> "write", packet |-> m]
      BY <1>0, <3>1 DEF Goto, TypeOK, TaskTypeOK
    <3>5. CASE p = CallerOf[c]
      BY <1>0, <3>1, <3>2, <3>3, <3>4, <3>5 DEF TypeOK, TaskTypeOK, Packet
    <3>6. CASE p # CallerOf[c]
      <4>1. task'[p] = task[p] /\ UNCHANGED <<link, result>>
        BY <1>0, <1>5, <3>2, <3>6 DEF TypeOK, TaskTypeOK, Asks, ToSendRequest, endVars, linkVars
      <4>2. OnTheWay(p)' = OnTheWay(p)
        BY <4>1, OtherWay
      <4>3. Len(Append(way, m)) = Len(way) + 1 /\ Len(way) \in Nat
        BY <1>0, <3>1, WayType, Appended
      <4> QED
        BY <2>5, <4>2, <4>3 DEF Speaks, Says
    <3> QED
      BY <3>5, <3>6
  <2>6. ASSUME Has(way, With(id, {"StreamClosed"})) PROVE FALSE
    <3>1. PICK i \in 1 .. Len(way) : way[i] \in With(id, {"StreamClosed"})
      BY <2>6 DEF Has
    <3>2. way[i].kind = "StreamClosed" /\ way[i].id = id
      BY <3>1 DEF With
    <3>3. PICK d \in Streams : id_of[d] = id
      BY <3>1, <3>2 DEF ControlIds
    <3>4. d \in Calls /\ d # c /\ id \in Ids /\ NoId \notin Ids
      BY <2>1, <2>2, <3>3, StreamFacts, TwoHalves
    <3>5. id_of'[d] = id /\ id_of'[c] = id
      BY <1>0, <1>5, <2>2, <3>3, <3>4 DEF Asks, ToSendRequest, Asking, TypeOK, CallTypeOK
    <3>6. TypeOK' /\ IdsAscend'
      BY SoundStep DEF Sound, CorrelationInv
    <3>7. id \in Int /\ Mid \in Int /\ \A e \in Calls : CallerOf[e] \in {"client", "server"}
      BY <3>4, Basics DEF Ids, Peers
    <3> QED
      <4>1. ~Old(c)' /\ ~Old(d)'
        BY <3>4, <3>5, Basics DEF Old, Ids
      <4>2. \A e, f \in Calls :
              CallerOf[e] = CallerOf[f] /\ id_of'[e] = id_of'[f] /\ id_of'[e] # NoId => e = f
        BY <3>6 DEF IdsAscend
      <4>3. CallerOf[c] # CallerOf[d]
        BY <1>0, <3>4, <3>5, <4>2
      <4> QED
        BY <1>0, <3>4, <3>5, <3>6, <3>7, <4>1, <4>3 DEF IdsAscend, IdsApart
  <2> QED
    BY <2>4, <2>5, <2>6
<1>6. ~Asks(c) => (Closing(p, c)' <=> Has(way', X))
  BY <1>4 DEF Closing
<1>7. ASSUME NEW m \in X, Speaks(p, m) PROVE Closes(p, c)
  BY <1>7, WhoCloses
<1>8. Asks(c) => ~Closing(p, c)
  <2>1. Asks(c) => id_of[c] = NoId
    BY <1>0, AskedFlow
  <2> QED
    BY <1>3, <2>1, StreamFacts
<1> HIDE DEF X
<1>9. /\ Has(way', X) => Has(way, X) \/ \E m \in X : Speaks(p, m)
      /\ Has(way, X) => Has(way', X) \/ Lost(p) \/ (Listens(Other(p)) /\ Arriving(Other(p)) \in X)
  BY <1>0, WayHas
<1>10. Closing(p, c) <=> Has(way, X)
  BY DEF X, Closing
<1>11. \A m : Speaks(p, m) => m \in Packets
  BY DEF Speaks
<1>12. Has(way', X) => id_of[c] \in Ids
  BY <1>1, <1>3, <1>9, <1>10, <1>11
<1> QED
  BY <1>3, <1>4, <1>5, <1>6, <1>7, <1>8, <1>9, <1>10, <1>12 DEF X

\* what a task says of an id is on the way
LEMMA SaysClosed ==
    ASSUME Sound, NEW p \in Peers, NEW id \in Ids, Goto(p, "write", Control("StreamClosed", id)),
           UNCHANGED result, result[p] = "running", task[p].at # "write", link'[p] = link[p]
    PROVE  Has(OnTheWay(p)', With(id, {"StreamClosed"}))
<1> DEFINE m == Control("StreamClosed", id)
<1>1. TypeOK /\ m \in Packets
  BY ControlType DEF Sound, Kinds, BodyKinds, RequestKinds
<1>2. m \in With(id, {"StreamClosed"})
  BY <1>1 DEF With, Packets, Control, Packet
<1> HIDE DEF m
<1> QED
  BY <1>1, <1>2, SaidIsOnTheWay DEF m

\* a producer that is over removes its entry
LEMMA FeedsOver ==
    ASSUME Sound, NEW c \in Streams, Feeding(c), Over(c)
    PROVE  ~Feeds(c)'
<1> DEFINE p == Prod(c)
           id == id_of[c]
<1>0. TypeOK /\ c \in Calls /\ c # NoCall /\ p \in Peers
  BY TwoHalves DEF Sound
<1>1. waiting_on_user' = Put(waiting_on_user, p, id, NoCall) /\ id \in Ids
  BY <1>0 DEF Feeding, ToSendUser, Removed
<1>2. ASSUME NEW i \in Ids, waiting_on_user'[p][i] = c PROVE FALSE
  <2>1. waiting_on_user[p][i] = c
    BY <1>0, <1>1, <1>2, TablesType DEF Put
  <2>2. i = id
    BY <1>0, <2>1, ServedAt
  <2> QED
    BY <1>0, <1>1, <1>2, <2>2, TablesType DEF Put
<1> QED
  BY <1>2 DEF Feeds, CallsIn, Prod

\* an end that closes its half of a stream says so
LEMMA ClosesIt ==
    ASSUME Sound, NEW c \in Streams, NEW p \in Peers, Closes(p, c), id_of[c] \in Ids
    PROVE  Closing(p, c)' /\ id_of' = id_of
<1> DEFINE id == id_of[c]
<1>0. /\ TypeOK /\ c \in Calls /\ ~IsRequest(c) /\ c # NoCall /\ GenuinePackets
      /\ Prod(c) # Cons(c) /\ Other(p) \in Peers /\ Other(p) # p
      /\ \A r \in Peers : Other(r) # r /\ Other(r) \in Peers
  BY TwoHalves, TwoPeers DEF Sound, CorrelationInv
<1>1. ASSUME Goto(p, "write", Control("StreamClosed", id)), UNCHANGED <<result, id_of>>,
             result[p] = "running", task[p].at # "write", link'[p] = link[p]
      PROVE  Closing(p, c)' /\ id_of' = id_of
  BY <1>1, SaysClosed DEF Closing
<1>2. CASE Feeding(c) /\ Over(c) /\ p = Prod(c)
  <2>1. /\ Goto(p, "write", Control("StreamClosed", id)) /\ UNCHANGED <<result, id_of, link>>
        /\ Selecting(p)
    BY <1>0, <1>2 DEF Feeding, ToSendUser, endVars, linkVars
  <2> QED
    BY <1>1, <2>1 DEF Selecting
<1>3. CASE Garbles(c) /\ p = Callee(c)
  <2> DEFINE a == Arriving(p)
  <2>1. RecvMalformed(p) /\ a.kind \in RequestKinds /\ a.call = c /\ a.kind # "Response" /\ a.kind # "Stream"
    BY <1>3 DEF Garbles, AskFor, RequestKinds
  <2>2. Arrived(p) # <<>> /\ Genuine(Other(p), a) /\ a \in Packets
    BY <1>0, <2>1, Hears, FirstGenuine DEF RecvMalformed, Arrives, Arriving
  <2>3. id = a.id /\ a.kind # "Request"
    BY <1>0, <2>1, <2>2 DEF Genuine, BodyKinds, IsRequest
  <2>4. /\ Goto(p, "write", Control("StreamClosed", id)) /\ UNCHANGED <<result, id_of>>
        /\ Selecting(p) /\ link' = [link EXCEPT ![Other(p)] = Tail(@)]
    BY <2>1, <2>3 DEF RecvMalformed, Complaint, Arriving, Arrives, endVars, handleVars
  <2>5. link'[p] = link[p]
    BY <1>0, <2>4 DEF TypeOK, LinkTypeOK
  <2> QED
    BY <1>1, <1>3, <2>4, <2>5 DEF Selecting
<1>4. CASE /\ p = Cons(c) /\ RecvStream(p) /\ Arriving(p) \in Messages(c) /\ Arrived(p) # <<>>
           /\ waiting_on_stream[p][id] = NoCall
  <2> DEFINE a == Arriving(p)
  <2>1. a.kind = "Stream" /\ a.call = c
    BY <1>4 DEF Messages
  <2>2. Genuine(Other(p), a)
    BY <1>0, <1>4, FirstGenuine DEF Arriving
  <2>3. a.id = id
    BY <2>1, <2>2 DEF Genuine, BodyKinds
  <2>4. /\ Goto(p, "write", Control("StreamClosed", id)) /\ UNCHANGED <<result, id_of>>
        /\ Selecting(p) /\ link' = [link EXCEPT ![Other(p)] = Tail(@)]
    BY <1>4, <2>3 DEF RecvStream, Accepts, Arriving, Arrives, endVars, callVars, handleVars
  <2>5. link'[p] = link[p]
    BY <1>0, <2>4 DEF TypeOK, LinkTypeOK
  <2> QED
    BY <1>0, <1>1, <1>4, <2>4, <2>5 DEF Selecting
<1>5. CASE /\ p = Cons(c) /\ DeliverMessage(p) /\ ~Wanted(c) /\ task[p].packet \in Messages(c)
           /\ waiting_on_stream[p][id] = c
  <2> DEFINE a == task[p].packet
  <2>1. a.kind = "Stream" /\ a.call = c /\ task[p].at = "deliver" /\ result[p] = "running"
    BY <1>5 DEF Messages, DeliverMessage, Delivering
  <2>2. Genuine(Other(p), a)
    BY <1>0, <2>1 DEF GenuinePackets
  <2>3. a.id = id
    BY <2>1, <2>2 DEF Genuine, BodyKinds
  <2>4. /\ Goto(p, "write", Control("StreamClosed", id)) /\ UNCHANGED <<result, id_of, link>>
    BY <1>5, <2>3 DEF DeliverMessage, Wanted, endVars, linkVars
  <2> QED
    BY <1>0, <1>1, <1>5, <2>1, <2>4
<1> QED
  BY <1>2, <1>3, <1>4, <1>5 DEF Closes

\* an end that hears that a stream is closed closes its half, whichever it is
LEMMA HearsClosed ==
    ASSUME Sound, NEW c \in Streams, NEW p \in Peers, Listens(p), result'[p] = "running",
           Arriving(p) \in With(id_of[c], {"StreamClosed"})
    PROVE  /\ RecvStreamClosed(p) /\ c \notin CallsIn(waiting_on_stream'[p])
           /\ c \in CallsIn(waiting_on_user[p]) => shut'[c]
<1>0. /\ TypeOK /\ c \in Calls /\ c # NoCall /\ Recv(p) /\ Arrives(p, Kinds)
      /\ Arriving(p).kind = "StreamClosed" /\ Arriving(p).id = id_of[c]
  BY TwoHalves DEF Sound, Listens, With
<1>1. ASSUME NEW x, x # "running", End(p, x) PROVE FALSE
  BY <1>0, <1>1 DEF End, TypeOK, TaskTypeOK
<1>2. RecvRefused(p) \/ ReadFails(p) => \E x : x # "running" /\ End(p, x)
  BY DEF RecvRefused, ReadFails, Refusal
<1>3. RecvStreamClosed(p)
  BY <1>0, <1>1, <1>2, BoundAssumption DEF Recv, RecvEnableServerRequests, RecvRequest, RecvAnswer, RecvStream,
     RecvMalformed, RecvClose, RecvPing, Accepts, Arrives, Arriving, RequestKinds, BodyKinds
<1>4. ASSUME NEW i \in Ids, waiting_on_stream'[p][i] = c PROVE FALSE
  <2>1. waiting_on_stream' = [waiting_on_stream EXCEPT ![p][id_of[c]] = NoCall]
    BY <1>0, <1>3 DEF RecvStreamClosed, Put, Arriving
  <2>2. waiting_on_stream[p][i] = c
    BY <1>0, <1>4, <2>1, TablesType
  <2>3. i = id_of[c]
    BY <1>0, <2>2, AwaitedAt
  <2> QED
    BY <1>0, <1>4, <2>1, <2>3, TablesType
<1>5. ASSUME c \in CallsIn(waiting_on_user[p]) PROVE shut'[c]
  <2>1. PICK i \in Ids : waiting_on_user[p][i] = c
    BY <1>5 DEF CallsIn
  <2>2. i = Arriving(p).id
    BY <1>0, <2>1, ServedAt
  <2>3. shut' = Shut({waiting_on_user[p][Arriving(p).id]} \cap Calls)
    BY <1>3 DEF RecvStreamClosed, Arriving
  <2> QED
    BY <1>0, <2>1, <2>2, <2>3 DEF Shut
<1> QED
  BY <1>3, <1>4, <1>5 DEF CallsIn

\* a consumer's entry goes with the word that the stream is closed, or with its end
LEMMA ReadsGone ==
    ASSUME Sound, [Next]_vars, ~Reconnect, NEW c \in Streams, Reads(c), ~Reads(c)'
    PROVE  \/ should_close'[Cons(c)] \/ result'[Cons(c)] # "running"
           \/ /\ RecvStreamClosed(Cons(c)) /\ Selecting(Cons(c)) /\ Closing(Prod(c), c)
              /\ OnTheWay(Prod(c)) # <<>>
              /\ OnTheWay(Prod(c))[1] \in With(id_of[c], {"StreamClosed"})
<1> DEFINE q == Cons(c)
           old == waiting_on_stream[q]
           new == waiting_on_stream'[q]
           a == Arriving(q)
<1>0. /\ c \in Calls /\ ~IsRequest(c) /\ c # NoCall /\ q \in Peers /\ Prod(c) = Other(q)
      /\ TypeOK /\ ~Reconnect
  BY TwoHalves, SoundStep DEF Sound
<1>1. old \in [Ids -> Calls \cup {NoCall}] /\ StreamEntriesOf(q)
  BY <1>0, TablesType, EntriesFlow
<1>2. CloseHandler(q) => should_close'[q]
  BY <1>0 DEF CloseHandler, TypeOK, TaskTypeOK
<1>3. PICK i \in Ids : old[i] = c
  BY DEF Reads, CallsIn
<1>4. i = id_of[c] /\ new[i] # c
  BY <1>0, <1>3, AwaitedAt DEF Reads, CallsIn, Cons, Prod
<1>5. CASE /\ RecvAnswer(q) \/ RecvStreamClosed(q) \/ (RecvMalformed(q) /\ a.kind = "Response")
           /\ a.id \in Ids /\ new = [old EXCEPT ![a.id] = NoCall]
  <2>1. a.id = i
    BY <1>1, <1>3, <1>4, <1>5
  <2>2. ~RecvAnswer(q)
    BY <1>0, <1>3, <2>1 DEF RecvAnswer, Accepts, Arrives, Refusal, Arriving, RequestKinds
  <2>3. RecvMalformed(q) /\ a.kind = "Response" => result'[q] # "running"
    <3>1. a.kind = "Response" => Refusal(q, a) # "none"
      BY <1>0, <1>3, <2>1 DEF Refusal, RequestKinds
    <3>2. RecvMalformed(q) /\ a.kind = "Response" => End(q, "UnknownId")
      BY <3>1 DEF RecvMalformed, Arriving
    <3> QED
      BY <1>0, <3>2 DEF End, TypeOK, TaskTypeOK
  <2>4. ASSUME RecvStreamClosed(q)
        PROVE  /\ Selecting(q) /\ Closing(Prod(c), c) /\ OnTheWay(Prod(c)) # <<>>
               /\ OnTheWay(Prod(c))[1] \in With(id_of[c], {"StreamClosed"})
    <3>1. Arrived(q) # <<>> /\ a.kind = "StreamClosed" /\ Selecting(q)
      BY <2>4 DEF RecvStreamClosed, Accepts, Arrives, Arriving
    <3>2. 1 \in 1 .. Len(OnTheWay(Prod(c))) /\ OnTheWay(Prod(c))[1] = a /\ a \in Packets
      BY <1>0, <3>1, FirstOnTheWay
    <3>3. a \in With(id_of[c], {"StreamClosed"})
      BY <1>0, <1>4, <2>1, <3>1, <3>2, PacketSets
    <3> HIDE DEF a
    <3> QED
      BY <3>1, <3>2, <3>3 DEF Closing, Has
  <2> QED
    BY <1>5, <2>2, <2>3, <2>4
<1>6. new[i] # old[i]
  BY <1>3, <1>4
<1> QED
  BY <1>0, <1>1, <1>2, <1>3, <1>5, <1>6 DEF StreamEntriesOf

\* a producer's entry goes when the stream is over, or with its end
LEMMA FeedsGone ==
    ASSUME Sound, [Next]_vars, ~Reconnect, NEW c \in Streams, Feeds(c), ~Feeds(c)'
    PROVE  (Feeding(c) /\ Over(c)) \/ (DropHandler(Prod(c)) /\ result'[Prod(c)] # "running")
<1> DEFINE p == Prod(c)
           old == waiting_on_user[p]
           new == waiting_on_user'[p]
<1>0. c \in Calls /\ ~IsRequest(c) /\ c # NoCall /\ p \in Peers /\ TypeOK
  BY TwoHalves DEF Sound
<1>1. old \in [Ids -> Calls \cup {NoCall}] /\ UserEntriesOf(p)
  BY <1>0, TablesType, EntriesFlow
<1>2. PICK i \in Ids : old[i] = c
  BY DEF Feeds, CallsIn
<1>3. i = id_of[c] /\ new[i] # c
  BY <1>0, <1>2, ServedAt DEF Feeds, CallsIn, Prod
<1>4. ASSUME NEW id \in Ids, ToSendUser(p, id), Removed(old[id]), new = [old EXCEPT ![id] = NoCall]
      PROVE  Feeding(c) /\ Over(c)
  <2>1. id = i
    BY <1>1, <1>2, <1>3, <1>4
  <2> QED
    BY <1>0, <1>2, <1>3, <1>4, <2>1 DEF Feeding, Removed
<1>5. new[i] # old[i]
  BY <1>2, <1>3
<1> QED
  BY <1>0, <1>1, <1>2, <1>4, <1>5 DEF UserEntriesOf

\* the end that is asked makes its entry, and the caller made its own before
LEMMA GetsIt ==
    ASSUME Sound, NEW c \in Streams, Gets(c)
    PROVE  IF KindOf[c] = "RequestSender"
           THEN Reads(c)' /\ (Feeds(c) => Feeds(c)') ELSE Feeds(c)' /\ (Reads(c) => Reads(c)')
<1> DEFINE q == Callee(c)
           a == Arriving(q)
<1>0. /\ c \in Calls /\ q \in Peers /\ TypeOK /\ GenuinePackets
      /\ \/ KindOf[c] = "RequestSender" /\ Prod(c) = CallerOf[c] /\ Cons(c) = q
         \/ KindOf[c] = "RequestReceiver" /\ Prod(c) = q /\ Cons(c) = CallerOf[c]
  BY TwoHalves DEF Sound, CorrelationInv
<1>1. RecvRequest(q) /\ a.kind \in RequestKinds /\ a.call = c
  BY DEF Gets, AskFor
<1>2. Arrived(q) # <<>> /\ Genuine(Other(q), a) /\ a \in Packets /\ a.id \in Ids
  BY <1>0, <1>1, FirstGenuine, FirstOnTheWay DEF RecvRequest, Accepts, Arrives, Arriving
<1>3. a.kind = KindOf[c]
  BY <1>0, <1>1, <1>2 DEF Genuine, BodyKinds
<1>4. CASE KindOf[c] = "RequestSender"
  <2>1. waiting_on_stream' = [waiting_on_stream EXCEPT ![q][a.id] = c] /\ UNCHANGED waiting_on_user
    BY <1>1, <1>3, <1>4 DEF RecvRequest, Put, Arriving
  <2>2. waiting_on_stream'[q][a.id] = c
    BY <1>0, <1>2, <2>1, TablesType
  <2> QED
    BY <1>0, <1>2, <1>4, <2>1, <2>2 DEF Reads, Feeds, CallsIn, Cons, Prod, Callee
<1>5. CASE KindOf[c] # "RequestSender"
  <2>1. waiting_on_user' = [waiting_on_user EXCEPT ![q][a.id] = c] /\ UNCHANGED waiting_on_stream
    BY <1>1, <1>3, <1>5 DEF RecvRequest, Put, Arriving
  <2>2. waiting_on_user'[q][a.id] = c
    BY <1>0, <1>2, <2>1, TablesType
  <2> QED
    BY <1>0, <1>2, <1>5, <2>1, <2>2 DEF Reads, Feeds, CallsIn, Cons, Prod, Callee
<1> QED
  BY <1>4, <1>5

LEMMA AsksBoth ==
    ASSUME Sound, NEW c \in Streams, Asks(c)
    PROVE  Asked(c)' /\ IF KindOf[c] = "RequestSender" THEN Feeds(c)' ELSE Reads(c)'
<1> DEFINE p == CallerOf[c]
<1>0. /\ c \in Calls /\ p \in Peers /\ TypeOK /\ ToSendRequest(p) /\ Asking(p) = c
      /\ \/ KindOf[c] = "RequestSender" /\ Prod(c) = p
         \/ KindOf[c] = "RequestReceiver" /\ Cons(c) = p
  BY TwoHalves DEF Sound, Asks
<1>1. next[p] \in Ids
  BY <1>0, CallEntries
<1>2. CASE KindOf[c] = "RequestSender"
  <2>1. waiting_on_user' = [waiting_on_user EXCEPT ![p][next[p]] = c]
    BY <1>0, <1>2 DEF ToSendRequest, Put, Asking
  <2>2. waiting_on_user'[p][next[p]] = c
    BY <1>0, <1>1, <2>1, TablesType
  <2> QED
    BY <1>0, <1>1, <1>2, <2>2, AsksIt DEF Feeds, CallsIn, Prod
<1>3. CASE KindOf[c] = "RequestReceiver"
  <2>1. waiting_on_stream' = [waiting_on_stream EXCEPT ![p][next[p]] = c]
    BY <1>0, <1>3 DEF ToSendRequest, Put, Asking
  <2>2. waiting_on_stream'[p][next[p]] = c
    BY <1>0, <1>1, <2>1, TablesType
  <2> QED
    BY <1>0, <1>1, <1>3, <2>2, AsksIt DEF Reads, CallsIn, Cons, Prod
<1> QED
  BY <1>0, <1>2, <1>3

\* what asks for a call gets there, if nothing is lost
LEMMA AskedGone ==
    ASSUME Sound, [Next]_vars, ~Reconnect, NEW c \in Calls, Asked(c), ~Asked(c)', ~Lost(CallerOf[c])
    PROVE  Gets(c) \/ Garbles(c)
<1>0. /\ TypeOK /\ Ended /\ CallerOf[c] \in Peers /\ Callee(c) \in Peers /\ Other(CallerOf[c]) = Callee(c)
  BY TwoEnds, SoundStep DEF Sound
<1>1. Listens(Callee(c)) /\ Arriving(Callee(c)) \in AskFor(c)
  BY <1>0, WayHas DEF Asked
<1>2. result'[Callee(c)] = "running"
  BY <1>0 DEF Lost
<1> QED
  BY <1>0, <1>1, <1>2, HearsOfIt

LEMMA FeedingFeeds ==
    ASSUME NEW c \in Streams, Feeding(c) PROVE Feeds(c)
<1> QED
  BY TwoHalves DEF Feeding, Feeds, CallsIn

\* an end that has not read the packet that opens a stream has closed nothing
LEMMA ClosedAsked ==
    ASSUME Sound, RequestInv, OrderInv, IdsApart, IdsApart', [Next]_vars, ~Reconnect, NEW c \in Streams,
           ClosedLast(c), Closing(Callee(c), c)', Asked(c)'
    PROVE  FALSE
<1> DEFINE q == Callee(c)
<1>0. /\ TypeOK /\ c \in Calls /\ c # NoCall /\ q \in Peers /\ CallerOf[c] \in Peers
      /\ Other(q) = CallerOf[c] /\ AskedOnce(c) /\ Beginning(c) /\ Attended /\ ControlIds
      /\ Prod(c) # Cons(c)
      /\ \/ KindOf[c] = "RequestSender" /\ Prod(c) = CallerOf[c] /\ Cons(c) = q
         \/ KindOf[c] = "RequestReceiver" /\ Prod(c) = q /\ Cons(c) = CallerOf[c]
  BY TwoHalves, TwoEnds DEF Sound, RequestInv, OrderInv
<1>1. ~Asks(c) /\ id_of[c] \in Ids /\ (Closing(q, c) \/ Closes(q, c))
  BY <1>0, ClosingFlow
<1>2. Asked(c)
  BY <1>0, <1>1, AskedFlow
<1>3. Closes(q, c)
  BY <1>1, <1>2 DEF ClosedLast
<1>4. ~Served(c) /\ c \notin CallsIn(waiting_on_stream[q])
  BY <1>2, <1>0 DEF AskedOnce
<1>5. CASE Feeding(c) /\ q = Prod(c)
  BY <1>0, <1>4, <1>5 DEF Feeding, Served, CallsIn
<1>6. CASE Garbles(c)
  BY <1>0, <1>6, Heeded
<1>7. CASE q = Cons(c) /\ Arrived(q) # <<>> /\ Arriving(q) \in Messages(c)
  <2>1. Prod(c) = CallerOf[c] /\ 1 \in 1 .. Len(OnTheWay(CallerOf[c])) /\ OnTheWay(CallerOf[c])[1] = Arriving(q)
    BY <1>0, <1>7, FirstOnTheWay
  <2>2. PICK k \in 1 .. Len(OnTheWay(CallerOf[c])) : OnTheWay(CallerOf[c])[k] \in AskFor(c)
    BY <1>2 DEF Asked, Has
  <2>3. k < 1
    BY <1>0, <1>7, <2>1, <2>2 DEF Beginning
  <2> QED
    BY <2>3
<1>8. CASE waiting_on_stream[q][id_of[c]] = c
  BY <1>0, <1>1, <1>4, <1>8 DEF CallsIn
<1> QED
  BY <1>3, <1>5, <1>6, <1>7, <1>8 DEF Closes

\* a producer that says that its stream is closed has no entry for it
LEMMA ClosedFeeds ==
    ASSUME Sound, RequestInv, OrderInv, IdsApart, IdsApart', [Next]_vars, ~Reconnect, NEW c \in Streams,
           ClosedLast(c), Closing(Prod(c), c)', Feeds(c)'
    PROVE  FALSE
<1> DEFINE p == Prod(c)
<1>0. /\ TypeOK /\ c \in Calls /\ c # NoCall /\ p \in Peers
      /\ AskedOnce(c) /\ Attended /\ ControlIds /\ p # Cons(c)
      /\ KindOf[c] = "RequestReceiver" <=> p = Callee(c)
      /\ KindOf[c] = "RequestReceiver" \/ KindOf[c] = "RequestSender"
  BY TwoHalves DEF Sound, RequestInv, OrderInv
<1>1. ~Asks(c) /\ id_of[c] \in Ids /\ (Closing(p, c) \/ Closes(p, c))
  BY <1>0, ClosingFlow
<1>2. Garbles(c) \/ Gets(c) => Asked(c)
  BY <1>0, Heeded
<1>3. Asked(c) => ~Served(c)
  BY <1>0 DEF AskedOnce
<1>4. Closes(p, c) => (Feeding(c) /\ Over(c)) \/ (Garbles(c) /\ p = Callee(c))
  BY <1>0 DEF Closes
<1>5. CASE Feeds(c)
  <2>1. ~Closing(p, c)
    BY <1>5 DEF ClosedLast
  <2>2. Garbles(c) /\ p = Callee(c)
    BY <1>1, <1>4, <2>1, FeedsOver
  <2> QED
    BY <1>0, <1>2, <1>3, <1>5, <2>2, StreamFacts
<1>6. CASE Gets(c) /\ KindOf[c] = "RequestReceiver"
  <2>1. ~Closing(p, c) /\ ~Served(c)
    BY <1>0, <1>2, <1>3, <1>6 DEF ClosedLast
  <2>2. ~Garbles(c)
    BY <1>0, <1>6, GarblesOnly
  <2>3. Feeding(c)
    BY <1>1, <1>4, <2>1, <2>2
  <2> QED
    BY <1>6, <2>1, <2>3, FeedingFeeds, StreamFacts
<1> QED
  BY <1>1, <1>5, <1>6, FeedsFlow

\* it says so after all else
LEMMA ClosedAfter ==
    ASSUME Sound, RequestInv, OrderInv, IdsApart, IdsApart', [Next]_vars, ~Reconnect, NEW c \in Streams,
           ClosedLast(c),
           NEW i \in 1 .. Len(OnTheWay(Prod(c))'), NEW k \in 1 .. Len(OnTheWay(Prod(c))'),
           OnTheWay(Prod(c))'[i] \in Messages(c) \cup AskFor(c),
           OnTheWay(Prod(c))'[k] \in With(id_of'[c], {"StreamClosed"})
    PROVE  i < k
<1> DEFINE p == Prod(c)
           old == OnTheWay(p)
           new == OnTheWay(p)'
           X == With(id_of[c], {"StreamClosed"})
           Y == Messages(c) \cup AskFor(c)
<1>0. /\ TypeOK /\ Ended /\ OwnCalls /\ GenuinePackets /\ c \in Calls /\ p \in Peers
      /\ old \in Seq(Packets) /\ new \in Seq(Packets) /\ Other(Other(p)) = p /\ Other(p) \in Peers
      /\ ControlIds /\ Attended
  BY TwoHalves, SoundStep, WayType, TrackTypeNext, TwoPeers
     DEF Sound, CorrelationInv, OrphanInv, RequestInv, OrderInv
<1>1. Closing(p, c)'
  BY <1>0 DEF Closing, Has
<1>2. ~Asks(c) /\ id_of'[c] = id_of[c]
  BY <1>0, <1>1, ClosingFlow
<1>3. new[k] \in X /\ new[i] \in Y
  BY <1>2
<1>4. \A j, l \in 1 .. Len(old) : old[j] \in Y /\ old[l] \in X => j < l
  BY DEF ClosedLast
<1>5. X \cap Y = {}
  BY DEF Messages, AskFor, RequestKinds, With
<1>6. i # k
  BY <1>3, <1>5
<1>7. ASSUME NEW l \in 1 .. Len(old), old[l] \in X PROVE ~Feeds(c)
  BY <1>7 DEF ClosedLast, Closing, Has
<1>8. ASSUME NEW m \in Y, Speaks(p, m) PROVE Feeding(c)
  <2>1. CASE m \in Messages(c)
    BY <1>8, <2>1, OnlyFed
  <2>2. CASE m \in AskFor(c)
    <3>1. m.kind \in RequestKinds /\ m.call = c
      BY <2>2 DEF AskFor
    <3>2. ToSendRequest(p) /\ m = Packet(KindOf[Asking(p)], next[p], Asking(p), 0)
      BY <1>0, <1>8, <3>1, OnlyAsked
    <3>3. ToSendRequest(p) /\ Asking(p) = c
      BY <3>1, <3>2 DEF Packet
    <3>4. HasRequest(p) /\ Asking(p) # Enable
      BY <3>2 DEF ToSendRequest, Asking
    <3>5. CallerOf[c] = p
      BY <1>0, <3>3, <3>4, AskedFirst
    <3> QED
      BY <1>2, <3>3, <3>5 DEF Asks
  <2> QED
    BY <2>1, <2>2
<1> HIDE DEF X, Y
<1>9. CASE Within(new, old)
  <2>1. k < i => FALSE
    <3>1. ASSUME k < i PROVE \E j, l \in 1 .. Len(old) : j < l /\ new[k] = old[j] /\ new[i] = old[l]
      BY <1>9, <3>1 DEF Within
    <3>2. \A j, l \in 1 .. Len(old) : j < l => ~(new[k] = old[j] /\ new[i] = old[l])
      BY <1>0, <1>3, <1>4
    <3> QED
      BY <3>1, <3>2
  <2> QED
    BY <1>0, <1>6, <2>1
<1>10. ASSUME NEW m \in Packets, Speaks(p, m), new = Append(old, m) PROVE i < k
  <2>1. /\ \A j \in 1 .. Len(old) : new[j] = old[j]
        /\ new[Len(old) + 1] = m
        /\ \A j \in 1 .. Len(new) : j \in 1 .. Len(old) \/ j = Len(old) + 1
    BY <1>0, <1>10, Appended
  <2>2. CASE i \in 1 .. Len(old) /\ k \in 1 .. Len(old)
    BY <1>3, <1>4, <2>1, <2>2
  <2>3. CASE k = Len(old) + 1 /\ i \in 1 .. Len(old)
    BY <1>0, <2>3
  <2>4. CASE k \in 1 .. Len(old) /\ i = Len(old) + 1
    <3>1. m \in Y /\ old[k] \in X
      BY <1>3, <2>1, <2>4
    <3>2. Feeds(c)
      BY <1>8, <1>10, <3>1, FeedingFeeds
    <3> QED
      BY <1>7, <2>4, <3>1, <3>2
  <2> QED
    BY <1>6, <2>1, <2>2, <2>3, <2>4
<1>11. WayOf(p)
  BY <1>0, WayFlow
<1>12. CASE Listens(Other(p))
  <2>1. old # <<>> /\ new = Tail(old)
    BY <1>0, <1>12 DEF Listens, Heard
  <2> QED
    BY <1>0, <1>9, <2>1, WithinSelf
<1>13. CASE new = old
  BY <1>0, <1>9, <1>13, WithinSelf
<1>14. CASE CutOff(p)
  BY <1>9, <1>14 DEF CutOff
<1> QED
  BY <1>10, <1>11, <1>12, <1>13, <1>14 DEF WayOf, Speaks, Says

LEMMA ClosedLastStep ==
    ASSUME Sound, RequestInv, OrderInv, IdsApart, IdsApart', [Next]_vars, ~Reconnect, NEW c \in Streams,
           ClosedLast(c)
    PROVE  ClosedLast(c)'
<1>1. Closing(Callee(c), c)' => ~Asked(c)'
  BY ClosedAsked
<1>2. Closing(Prod(c), c)' => ~Feeds(c)'
  BY ClosedFeeds
<1>3. \A i, k \in 1 .. Len(OnTheWay(Prod(c))') :
          /\ OnTheWay(Prod(c))'[i] \in Messages(c) \cup AskFor(c)
          /\ OnTheWay(Prod(c))'[k] \in With(id_of'[c], {"StreamClosed"})
          => i < k
  BY ClosedAfter
<1> QED
  BY <1>1, <1>2, <1>3 DEF ClosedLast

\* what an end says of a stream stays on the way until the other end hears it
LEMMA ClosingStays ==
    ASSUME Sound, RequestInv, OrderInv, IdsApart, IdsApart', [Next]_vars, ~Reconnect, NEW c \in Streams,
           NEW p \in Peers, Closing(p, c), ~Lost(p)
    PROVE  \/ Closing(p, c)'
           \/ /\ Listens(Other(p)) /\ result'[Other(p)] = "running" /\ RecvStreamClosed(Other(p))
              /\ Arriving(Other(p)) \in With(id_of[c], {"StreamClosed"})
              /\ OnTheWay(p) # <<>> /\ OnTheWay(p)[1] = Arriving(Other(p))
              /\ c \notin CallsIn(waiting_on_stream'[Other(p)])
              /\ c \in CallsIn(waiting_on_user[Other(p)]) => shut'[c]
<1>0. /\ ControlIds /\ Attended /\ TypeOK /\ Other(p) \in Peers /\ Other(Other(p)) = p
  BY TwoPeers DEF RequestInv, OrderInv, Sound
<1>1. CASE Closing(p, c)'
  BY <1>1
<1>2. CASE Listens(Other(p)) /\ Arriving(Other(p)) \in With(id_of[c], {"StreamClosed"})
  <2>1. result'[Other(p)] = "running"
    BY DEF Lost
  <2>2. Arrived(Other(p)) # <<>>
    BY <1>2 DEF Listens, Arrives
  <2>3. 1 \in 1 .. Len(OnTheWay(p)) /\ OnTheWay(p)[1] = Arriving(Other(p))
    BY <1>0, <2>2, FirstOnTheWay
  <2>4. OnTheWay(p) # <<>>
    BY <1>0, <1>2 DEF Listens, Heard
  <2> QED
    BY <1>0, <1>2, <2>1, <2>3, <2>4, HearsClosed
<1> QED
  BY <1>0, <1>1, <1>2, ClosingFlow

\* a call that is asked is known to its caller only
LEMMA AskedApart ==
    ASSUME Sound, RequestInv, NEW c \in Streams, Asked(c)
    PROVE  IF KindOf[c] = "RequestSender" THEN ~Reads(c) ELSE ~Feeds(c)
<1>1. ~Served(c) /\ c \notin CallsIn(waiting_on_stream[Callee(c)]) /\ c \in Calls
  BY TwoHalves DEF RequestInv, AskedOnce
<1> QED
  BY <1>1, TwoHalves, StreamFacts

\* a stream whose opening does not parse is closed by the callee
LEMMA GarblesCloses ==
    ASSUME Sound, RequestInv, NEW c \in Streams, Garbles(c)
    PROVE  Closing(Callee(c), c)' /\ id_of' = id_of /\ Asked(c) /\ ~Asked(c)'
<1>1. Asked(c) /\ ~Asked(c)' /\ id_of[c] \in Ids /\ Callee(c) \in Peers
  BY TwoHalves, Heeded, AskedHasId DEF RequestInv
<1>2. Closes(Callee(c), c)
  BY DEF Closes
<1> QED
  BY <1>1, <1>2, ClosesIt

\* a producer that is over says so
LEMMA OverCloses ==
    ASSUME Sound, NEW c \in Streams, Feeding(c), Over(c)
    PROVE  Closing(Prod(c), c)' /\ id_of' = id_of
<1>1. Closes(Prod(c), c) /\ id_of[c] \in Ids /\ Prod(c) \in Peers
  BY TwoHalves DEF Closes, Feeding
<1> QED
  BY <1>1, ClosesIt

\* between ends that serve ...
LEMMA OpenBefore ==
    ASSUME Sound, [Next]_vars, ~Reconnect, Open'
    PROVE  /\ Open
           /\ \A p \in Peers : ~Lost(p) /\ result'[p] = "running" /\ ~should_close'[p]
<1>1. \A p \in Peers : result'[p] = "running" /\ ~should_close'[p]
  BY DEF Open
<1>2. Open
  <2>1. ASSUME NEW p \in Peers PROVE result[p] = "running" /\ ~should_close[p]
    <3>1. result[p] = "running"
      BY <1>1, OnceEnded
    <3>2. ~should_close[p]
      BY <1>1, OnceEnded, ZenonT(20)
    <3> QED
      BY <3>1, <3>2
  <2>2. ~broken
    <3>1. ~broken' /\ "client" \in Peers
      BY DEF Open, Peers
    <3> QED
      BY <3>1, OnceEnded, ZenonT(20)
  <2> QED
    BY <2>1, <2>2 DEF Open
<1>3. \A p \in Peers : Other(p) \in Peers
  BY TwoPeers
<1>4. ~broken' /\ ~Reconnect
  BY SoundStep DEF Open
<1>5. ASSUME NEW p \in Peers PROVE ~Lost(p)
  BY <1>1, <1>3, <1>4 DEF Lost
<1> QED
  BY <1>1, <1>2, <1>5

LEMMA FedAttached ==
    ASSUME Sound, RequestInv, OrderInv, IdsApart, IdsApart', [Next]_vars, ~Reconnect, NEW c \in Streams,
           ClosedLast(c), Attached(c), Open', Feeds(c)', ~shut'[c]
    PROVE  Reads(c)' \/ Asked(c)' \/ Closing(Cons(c), c)'
<1> DEFINE p == Prod(c)
           q == Cons(c)
<1>0. /\ c \in Calls /\ p \in Peers /\ q \in Peers /\ Other(q) = p /\ CallerOf[c] \in Peers /\ AskedOnce(c)
      /\ KindOf[c] = "RequestSender" => p = CallerOf[c] /\ q = Callee(c)
      /\ KindOf[c] # "RequestSender" => KindOf[c] = "RequestReceiver" /\ p = Callee(c) /\ q = CallerOf[c]
      /\ p # q /\ TypeOK
  BY TwoHalves DEF RequestInv, Sound
<1>1. /\ Open /\ \A r \in Peers : ~Lost(r) /\ result'[r] = "running" /\ ~should_close'[r]
  BY OpenBefore
<1>2. ~shut[c]
  BY <1>0, ShutStays
<1>3. CASE Asks(c)
  BY <1>3, AsksBoth
<1>4. CASE Gets(c) /\ KindOf[c] = "RequestReceiver"
  <2>1. Asked(c)
    BY <1>0, <1>4, Heeded
  <2>2. Reads(c)
    BY <1>0, <1>1, <1>4, <2>1 DEF Attached
  <2> QED
    BY <1>4, <2>2, GetsIt
<1>5. CASE Feeds(c)
  <2>1. CASE Reads(c)
    <3>1. ~Closing(p, c)
      BY <1>5 DEF ClosedLast
    <3> QED
      BY <1>0, <1>1, <2>1, <3>1, ReadsGone
  <2>2. CASE Asked(c)
    <3>1. KindOf[c] = "RequestSender"
      BY <1>5, <2>2, AskedApart
    <3>2. CASE Gets(c)
      BY <3>1, <3>2, GetsIt
    <3>3. CASE Garbles(c)
      BY <1>0, <3>1, <3>3, GarblesCloses
    <3> QED
      BY <1>0, <1>1, <2>2, <3>2, <3>3, AskedGone
  <2>3. CASE Closing(q, c)
    <3>1. c \in CallsIn(waiting_on_user[Other(q)])
      BY <1>0, <1>5 DEF Feeds
    <3> QED
      BY <1>0, <1>1, <2>3, <3>1, ClosingStays
  <2> QED
    BY <1>1, <1>2, <1>5, <2>1, <2>2, <2>3 DEF Attached
<1> QED
  BY <1>3, <1>4, <1>5, FeedsFlow

LEMMA ReadAttached ==
    ASSUME Sound, RequestInv, OrderInv, IdsApart, IdsApart', [Next]_vars, ~Reconnect, NEW c \in Streams,
           ClosedLast(c), Attached(c), Open', Reads(c)'
    PROVE  Feeds(c)' \/ Asked(c)' \/ Closing(Prod(c), c)'
<1> DEFINE p == Prod(c)
           q == Cons(c)
<1>0. /\ c \in Calls /\ p \in Peers /\ q \in Peers /\ Other(p) = q /\ CallerOf[c] \in Peers /\ AskedOnce(c)
      /\ KindOf[c] = "RequestSender" => p = CallerOf[c] /\ q = Callee(c)
      /\ KindOf[c] # "RequestSender" => KindOf[c] = "RequestReceiver" /\ p = Callee(c) /\ q = CallerOf[c]
      /\ p # q /\ TypeOK
  BY TwoHalves DEF RequestInv, Sound
<1>1. /\ Open /\ \A r \in Peers : ~Lost(r) /\ result'[r] = "running" /\ ~should_close'[r]
  BY OpenBefore
<1>2. CASE Asks(c)
  BY <1>2, AsksBoth
<1>3. CASE Gets(c) /\ KindOf[c] = "RequestSender"
  <2>1. Asked(c)
    BY <1>0, <1>3, Heeded
  <2>2. Feeds(c) \/ Closing(p, c)
    BY <1>0, <1>1, <1>3, <2>1 DEF Attached
  <2>3. CASE Feeds(c)
    BY <1>3, <2>3, GetsIt
  <2>4. CASE Closing(p, c)
    <3>1. Arriving(q) \notin With(id_of[c], {"StreamClosed"})
      BY <1>0, <1>3 DEF Gets, AskFor, With, RequestKinds
    <3> QED
      BY <1>0, <1>1, <2>4, <3>1, ClosingStays
  <2> QED
    BY <2>2, <2>3, <2>4
<1>4. CASE Reads(c)
  <2>1. CASE Feeds(c)
    BY <1>0, <1>1, <2>1, FeedsGone, OverCloses
  <2>2. CASE Asked(c)
    <3>1. KindOf[c] = "RequestReceiver"
      BY <1>0, <1>4, <2>2, AskedApart
    <3>2. CASE Gets(c)
      BY <3>1, <3>2, GetsIt
    <3>3. CASE Garbles(c)
      BY <1>0, <3>1, <3>3, GarblesCloses
    <3> QED
      BY <1>0, <1>1, <2>2, <3>2, <3>3, AskedGone
  <2>3. CASE Closing(p, c)
    <3>1. c \in CallsIn(waiting_on_stream'[q])
      BY <1>0 DEF Reads, Cons, Prod
    <3> QED
      BY <1>0, <1>1, <2>3, <3>1, ClosingStays
  <2> QED
    BY <1>1, <1>4, <2>1, <2>2, <2>3 DEF Attached
<1> QED
  BY <1>2, <1>3, <1>4, FeedsFlow

LEMMA AskedAttached ==
    ASSUME Sound, RequestInv, OrderInv, IdsApart, IdsApart', [Next]_vars, ~Reconnect, NEW c \in Streams,
           ClosedLast(c), Attached(c), Open', Asked(c)'
    PROVE  IF Prod(c) = CallerOf[c] THEN Feeds(c)' \/ Closing(Prod(c), c)' ELSE Reads(c)'
<1> DEFINE p == Prod(c)
           q == Cons(c)
<1>0. /\ c \in Calls /\ p \in Peers /\ q \in Peers /\ Other(p) = q /\ CallerOf[c] \in Peers /\ AskedOnce(c)
      /\ KindOf[c] = "RequestSender" <=> p = CallerOf[c]
      /\ p = CallerOf[c] \/ p = Callee(c)
      /\ p # q /\ TypeOK
  BY TwoHalves DEF RequestInv, Sound
<1>1. /\ Open /\ \A r \in Peers : ~Lost(r) /\ result'[r] = "running" /\ ~should_close'[r]
  BY OpenBefore
<1>2. CASE Asks(c)
  BY <1>0, <1>2, AsksBoth
<1>3. CASE Asked(c) /\ p = CallerOf[c]
  <2>1. CASE Feeds(c)
    BY <1>0, <1>1, <1>3, <2>1, FeedsGone, OverCloses
  <2>2. CASE Closing(p, c)
    <3>1. ASSUME OnTheWay(p) # <<>>, OnTheWay(p)[1] \in With(id_of[c], {"StreamClosed"}) PROVE FALSE
      <4>1. PICK k \in 1 .. Len(OnTheWay(p)) : OnTheWay(p)[k] \in AskFor(c)
        BY <1>3 DEF Asked, Has
      <4>2. 1 \in 1 .. Len(OnTheWay(p))
        BY <4>1
      <4>3. k < 1
        BY <3>1, <4>1, <4>2 DEF ClosedLast
      <4> QED
        BY <4>1, <4>3
    <3> QED
      BY <1>0, <1>1, <1>3, <2>2, <3>1, ClosingStays
  <2> QED
    BY <1>1, <1>3, <2>1, <2>2 DEF Attached
<1>4. CASE Asked(c) /\ p # CallerOf[c]
  <2>1. Reads(c) /\ ~Closing(p, c)
    BY <1>0, <1>1, <1>4 DEF Attached, ClosedLast
  <2> QED
    BY <1>0, <1>1, <1>4, <2>1, ReadsGone
<1> QED
  BY <1>0, <1>2, <1>3, <1>4, AskedFlow

LEMMA AttachedStep ==
    ASSUME Sound, RequestInv, OrderInv, IdsApart, IdsApart', [Next]_vars, ~Reconnect, NEW c \in Streams,
           ClosedLast(c), Attached(c)
    PROVE  Attached(c)'
<1>1. ASSUME Open', Feeds(c)', ~shut'[c] PROVE Reads(c)' \/ Asked(c)' \/ Closing(Cons(c), c)'
  BY <1>1, FedAttached
<1>2. ASSUME Open', Reads(c)' PROVE Feeds(c)' \/ Asked(c)' \/ Closing(Prod(c), c)'
  BY <1>2, ReadAttached
<1>3. ASSUME Open', Asked(c)'
      PROVE  IF Prod(c) = CallerOf[c] THEN Feeds(c)' \/ Closing(Prod(c), c)' ELSE Reads(c)'
  BY <1>3, AskedAttached
<1> QED
  BY <1>1, <1>2, <1>3 DEF Attached

\* an end that stops taking calls never takes them again, and a user that may call was told
LEMMA TakesFlow ==
    ASSUME Sound, [Next]_vars, ~Reconnect, NEW p \in Peers
    PROVE  /\ rx_open'[p] => rx_open[p]
           /\ should_close'[p] => should_close[p] \/ ~rx_open'[p]
           /\ may_call'[p] => \/ may_call[p]
                              \/ /\ Receive(p) /\ tx_requests[p] # <<>>
                                 /\ Head(tx_requests[p]) = Enable
<1>0. /\ TypeOK /\ ~Reconnect /\ rx_open \in [Peers -> BOOLEAN] /\ may_call \in [Peers -> BOOLEAN]
      /\ should_close \in [Peers -> BOOLEAN]
  BY SoundStep DEF Sound, TypeOK, QueueTypeOK, TaskTypeOK
<1>1. ASSUME NEW q \in Peers, NEW x, End(q, x)
      PROVE  /\ UNCHANGED <<should_close, may_call>>
             /\ UNCHANGED rx_open \/ rx_open' = [rx_open EXCEPT ![q] = FALSE]
  BY <1>1 DEF End, DropHandler, queueVars, userQueueVars, receiverVars
<1>2. ASSUME NEW q \in Peers, Task(q), ~\E x : End(q, x)
      PROVE  /\ UNCHANGED may_call
             /\ \/ UNCHANGED <<should_close, rx_open>>
                \/ /\ should_close' = [should_close EXCEPT ![q] = TRUE]
                   /\ rx_open' = [rx_open EXCEPT ![q] = FALSE]
  <2>1. CASE Recv(q)
    BY <1>2, <2>1 DEF Recv, RecvRefused, RecvEnableServerRequests, RecvRequest, RecvAnswer,
       RecvStream, RecvStreamClosed, RecvClose, RecvPing, RecvMalformed, ReadFails, CloseHandler,
       queueVars, userQueueVars, receiverVars, taskVars, endVars
  <2>2. CASE Deliver(q) \/ Send(q) \/ Ping(q) \/ CloseSignal(q) \/ Finish(q)
    BY <1>2, <2>2 DEF Deliver, DeliverRequest, DeliverToNobody, DeliverMessage, Send, Write,
       WriteFails, WriteClose, Ping, CloseSignal, Finish, CloseHandler,
       queueVars, userQueueVars, receiverVars, taskVars, endVars
  <2>3. CASE ToSend(q)
    BY <1>2, <2>3 DEF ToSend, ToSendUser, ToSendEnable, ToSendRequest, ToSendDuplicate,
       ToSendNoId, queueVars, userQueueVars, receiverVars, taskVars, endVars
  <2> QED
    BY <1>2, <2>1, <2>2, <2>3 DEF Task
<1>3. CASE \E q \in Peers : Task(q)
  BY <1>0, <1>1, <1>2, <1>3
<1>4. ASSUME NEW q \in Peers, Receive(q)
      PROVE  /\ UNCHANGED <<should_close, rx_open>>
             /\ may_call'[p] => may_call[p] \/ (q = p /\ tx_requests[p] # <<>> /\ Head(tx_requests[p]) = Enable)
  BY <1>0, <1>4 DEF Receive, taskVars, endVars
<1>5. CASE \/ \E q \in Peers : DropReceiver(q) \/ SignalClose(q)
           \/ \E d \in Calls : UserCall(d)
           \/ AskEnable \/ Break \/ UNCHANGED vars
  BY <1>5 DEF DropReceiver, SignalClose, UserCall, StartCall, RefuseCall,
     Answer, Emit, DropSender, Take, CloseStream, Cancel, AskEnable, Break, vars, taskVars,
     endVars, queueVars, userQueueVars, receiverVars
<1> QED
  BY <1>0, <1>3, <1>4, <1>5 DEF Next, User

\* a server that may not call has no calls
LEMMA ServerSilent ==
    ASSUME Sound, Emptied, [Next]_vars, ~Reconnect, mode'["server"] = "UniServer"
    PROVE  rx_requests'["server"] = <<>> /\ ~may_call'["server"] /\ ~Has(Handed("server")', {Enable})
<1> DEFINE s == "server"
<1>0. TypeOK /\ ~Reconnect /\ Ended /\ s \in Peers /\ IdsAscend
  BY SoundStep DEF Sound, CorrelationInv, Peers
<1>1. mode[s] \in {"UniServer", "BiServer"}
  BY <1>0 DEF IdsAscend
<1>2. mode[s] = "UniServer" /\ ~RecvEnableServerRequests(s)
  <2>1. mode[s] = "UniServer"
    BY <1>0, <1>1, ModeFlow
  <2>2. RecvEnableServerRequests(s) => mode'[s] = "BiServer"
    BY <1>0, <2>1 DEF RecvEnableServerRequests, EnableServerRequests, TypeOK, PeerTypeOK
  <2> QED
    BY <2>1, <2>2
<1>3. rx_requests[s] = <<>> /\ ~may_call[s] /\ ~Has(Handed(s), {Enable})
  BY <1>2 DEF Emptied
<1>4. rx_requests'[s] = <<>>
  <2>1. QueueOf(s)
    BY <1>0, QueueFlow
  <2>2. ~\E x \in Calls : StartCall(x) /\ CallerOf[x] = s
    BY <1>3 DEF StartCall
  <2> QED
    BY <1>3, <2>1, <2>2 DEF QueueOf
<1>5. ~may_call'[s]
  <2>1. ASSUME tx_requests[s] # <<>>, Head(tx_requests[s]) = Enable PROVE FALSE
    <3>1. /\ Handed(s) = tx_requests[s] \o InDelivery(s)
          /\ tx_requests[s] \in Seq(Calls \cup {Enable}) /\ InDelivery(s) \in Seq(Calls \cup {Enable})
      BY <1>0, HandedType
    <3>2. 1 \in 1 .. Len(Handed(s)) /\ Handed(s)[1] = Enable
      BY <2>1, <3>1
    <3> QED
      BY <1>3, <3>2 DEF Has
  <2> QED
    BY <1>0, <1>3, <2>1, TakesFlow
<1>6. ~Has(Handed(s)', {Enable})
  <2>1. ASSUME RecvRequest(s), Item(Arriving(s)) = Enable PROVE FALSE
    <3>1. Arriving(s) \in Packets /\ Arriving(s).kind \in RequestKinds
      BY <1>0, <2>1, Hears DEF RecvRequest, Accepts, Arrives, Arriving
    <3>2. Item(Arriving(s)) \in Calls
      BY <3>1 DEF Item, Packets, RequestKinds, BodyKinds
    <3> QED
      BY <2>1, <3>2, CallsAssumption
  <2> QED
    BY <1>0, <1>2, <1>3, <2>1, HandedHas
<1> QED
  BY <1>4, <1>5, <1>6

LEMMA EmptiedStep ==
    ASSUME Sound, IdsLeft, Emptied, [Next]_vars, ~Reconnect PROVE Emptied'
<1>1. mode'["server"] = "UniServer" =>
        rx_requests'["server"] = <<>> /\ ~may_call'["server"] /\ ~Has(Handed("server")', {Enable})
  BY ServerSilent
<1>2. ASSUME NEW p \in Peers
      PROVE  /\ should_close'[p] \/ result'[p] = "Ok" \/ Saying(p, "Close")' => ~rx_open'[p]
             /\ result'[p] = "Ok" \/ Saying(p, "Close")' => rx_requests'[p] = <<>>
  <2>0. /\ TypeOK /\ ~Reconnect /\ IdsAscend /\ QueueOf(p)
        /\ rx_requests[p] \in Seq(Calls \cup {Enable})
    BY SoundStep, QueueFlow DEF Sound, CorrelationInv, TypeOK, QueueTypeOK, Queues
  <2>1. Finish(p) => should_close[p]
    BY DEF Finish
  <2>2. DropHandler(p) => ~rx_open'[p] /\ rx_requests'[p] = <<>>
    BY <2>0 DEF DropHandler, TypeOK, QueueTypeOK
  <2>3. should_close[p] \/ result[p] = "Ok" \/ Saying(p, "Close") => ~rx_open[p] /\ ~rx_open'[p]
    BY TakesFlow DEF Emptied
  <2>a. End(p, "Ok") => DropHandler(p)
    BY DEF End, KeepsHandler
  <2>4. should_close'[p] \/ result'[p] = "Ok" \/ Saying(p, "Close")' => ~rx_open'[p]
    BY <2>0, <2>1, <2>2, <2>3, <2>a, TakesFlow, EndsOnce, CloseFlow
  <2>5. ~rx_open[p] /\ rx_requests[p] = <<>> => rx_requests'[p] = <<>>
    BY <2>0 DEF QueueOf, AskEnable, StartCall
  <2>6. Finish(p) => rx_requests[p] = <<>>
    <3>1. ASSUME ~CanSendRequests(p) PROVE rx_requests[p] = <<>>
      <4>1. p = "server" /\ mode["server"] = "UniServer"
        BY <2>0, <3>1 DEF CanSendRequests, IdsAscend, Peers
      <4> QED
        BY <4>1 DEF Emptied
    <3> QED
      BY <3>1 DEF Finish, NothingToSend, IdsLeft
  <2>7. ASSUME result'[p] = "Ok" \/ Saying(p, "Close")' PROVE rx_requests'[p] = <<>>
    <3>1. CASE result[p] = "Ok" \/ Saying(p, "Close")
      <4>1. rx_requests[p] = <<>>
        BY <3>1 DEF Emptied
      <4> QED
        BY <2>3, <2>5, <3>1, <4>1
    <3>2. CASE End(p, "Ok")
      BY <2>0, <2>2, <3>2 DEF End, KeepsHandler
    <3>3. CASE Finish(p)
      BY <2>1, <2>3, <2>5, <2>6, <3>3
    <3> QED
      BY <2>7, <3>1, <3>2, <3>3, CloseFlow
  <2> QED
    BY <2>4, <2>7
<1> QED
  BY <1>1, <1>2 DEF Emptied

\* a call that is gone does not come back
LEMMA GoneStays ==
    ASSUME Sound, [Next]_vars, ~Reconnect, NEW c \in Streams, Gone(c) PROVE Gone(c)'
<1>0. TypeOK /\ OwnCalls /\ c \in Calls /\ CallerOf[c] \in Peers
  BY TwoHalves DEF Sound, OrphanInv
<1>1. CASE Old(c)
  BY <1>0, <1>1, OldStays DEF Gone
<1>2. CASE id_of[c] = NoId /\ res[c] # "idle" /\ c \notin CallsOf(rx_requests[CallerOf[c]])
  <2>1. id_of'[c] = NoId
    BY <1>0, <1>2, IdFlow, AskedFlow
  <2>2. ~StartCall(c)
    BY <1>2 DEF StartCall
  <2>3. c \notin CallsOf(rx_requests'[CallerOf[c]])
    BY <1>0, <1>2, <2>2, QueuedBy
  <2>4. res'[c] # "idle"
    BY <1>2, StartedFlow
  <2> QED
    BY <2>1, <2>3, <2>4 DEF Gone
<1> QED
  BY <1>1, <1>2 DEF Gone

\* a stream that has been kept whole was so before, from its start
LEMMA LastingBefore ==
    ASSUME Sound, RequestInv, OrderInv, [Next]_vars, ~Reconnect, NEW c \in Streams, Lasting(c)'
    PROVE  /\ Lasting(c) \/ StartCall(c)
           /\ ~Lost(Prod(c)) /\ result'[Cons(c)] = "running" /\ ~should_close'[Cons(c)]
           /\ result'[Prod(c)] \in {"running", "Ok"} /\ ~Garbles(c) /\ "Stream" \notin BadKinds
<1> DEFINE p == Prod(c)
           q == Cons(c)
<1>0. /\ TypeOK /\ ~Reconnect /\ c \in Calls /\ p \in Peers /\ q \in Peers /\ Other(p) = q
      /\ AskedOnce(c) /\ Beginning(c)
  BY TwoHalves, SoundStep DEF Sound, RequestInv, OrderInv
<1>1. /\ ~broken' /\ BadKinds = {} /\ Wanted(c)' /\ result'[q] = "running" /\ ~should_close'[q]
      /\ result'[p] \in {"running", "Ok"}
  BY DEF Lasting, Cons, Prod
<1>2. ~Garbles(c)
  BY <1>1 DEF Garbles, RecvMalformed, Arrives
<1>3. result[q] = "running" /\ result[p] \in {"running", "Ok"}
  BY <1>0, <1>1, OnceEnded
<1>4. ~should_close[q] /\ ~broken
  BY <1>0, <1>1, OnceEnded, ZenonT(20)
<1>5. ASSUME ~StartCall(c) PROVE Wanted(c)
  <2>1. CASE rx'[c] = rx[c]
    BY <1>1, <2>1 DEF Wanted
  <2>2. ASSUME \/ Receive(q) /\ Head(tx_requests[q]) = c
               \/ DropReceiver(q) /\ c \in CallsOf(tx_requests[q])
               \/ DeliverToNobody(q) /\ Item(task[q].packet) = c
        PROVE  Wanted(c)
    <3>1. Once(Handed(q), {c})
      BY <1>0, TwoHalves DEF Beginning, Once, Has
    <3>2. Has(Handed(q), {c})
      BY <1>0, <2>2, <3>1, HandedGone
    <3>3. KindOf[c] = "RequestSender" /\ IsHanded(c)
      BY <1>0, <3>2, TwoHalves DEF Beginning, IsHanded
    <3> QED
      BY <1>0, <3>3 DEF Beginning, Wanted
  <2> QED
    BY <1>1, <1>5, <2>1, <2>2, ReaderFlow
<1>6. ~Gone(c)
  BY GoneStays DEF Lasting
<1> QED
  BY <1>0, <1>1, <1>2, <1>3, <1>4, <1>5, <1>6 DEF Lasting, Lost

\* the consumer's end says nothing of it
LEMMA NotClosing ==
    ASSUME Sound, RequestInv, OrderInv, IdsApart, IdsApart', [Next]_vars, ~Reconnect, NEW c \in Streams,
           Conserved(c), Lasting(c), Lasting(c)'
    PROVE  ~Closing(Cons(c), c)'
<1> DEFINE p == Prod(c)
           q == Cons(c)
<1>0. /\ TypeOK /\ c \in Calls /\ c # NoCall /\ p \in Peers /\ q \in Peers /\ Other(q) = p /\ p # q
      /\ Attended /\ ControlIds /\ Beginning(c) /\ Other(p) = q
      /\ Track(p) \in Seq(Packets) /\ OnTheWay(p) \in Seq(Packets)
  BY TwoHalves, TrackType, WayType DEF Sound, RequestInv, OrderInv
<1>1. ASSUME RecvStream(q), Arrived(q) # <<>>, Arriving(q) \in Messages(c),
             waiting_on_stream[q][id_of[c]] = NoCall
      PROVE  FALSE
  <2>1. 1 \in 1 .. Len(OnTheWay(p)) /\ OnTheWay(p)[1] = Arriving(q)
    BY <1>0, <1>1, FirstOnTheWay
  <2>2. InArms(q) = <<>>
    BY <1>0, <1>1, TrackType DEF RecvStream, Accepts, Arrives
  <2>3. Track(p) = OnTheWay(p)
    BY <1>0, <2>2, Joined DEF Track
  <2>4. Has(Track(p), Messages(c))
    BY <1>1, <2>1, <2>3 DEF Has
  <2>5. Reads(c) \/ (Asked(c) /\ p = CallerOf[c])
    BY <2>4 DEF Conserved
  <2>6. ~Reads(c)
    <3>1. ASSUME NEW i \in Ids, waiting_on_stream[q][i] = c PROVE FALSE
      BY <1>0, <1>1, <3>1, AwaitedAt
    <3> QED
      BY <3>1 DEF Reads, CallsIn
  <2>7. ASSUME Asked(c), p = CallerOf[c] PROVE FALSE
    <3>1. PICK k \in 1 .. Len(OnTheWay(p)) : OnTheWay(p)[k] \in AskFor(c)
      BY <2>7 DEF Asked, Has
    <3>2. k < 1
      BY <1>0, <1>1, <2>1, <3>1 DEF Beginning
    <3> QED
      BY <3>1, <3>2
  <2> QED
    BY <2>5, <2>6, <2>7
<1>2. ~Closes(q, c)
  <2>1. ~Garbles(c) /\ Wanted(c)
    BY LastingBefore DEF Lasting
  <2> QED
    BY <1>0, <1>1, <2>1 DEF Closes
<1>3. ~Closing(q, c)
  BY DEF Conserved
<1> QED
  BY <1>0, <1>2, <1>3, ClosingFlow

\* the consumer keeps its entry for what is on its way
LEMMA StillRead ==
    ASSUME Sound, RequestInv, OrderInv, IdsApart, IdsApart', [Next]_vars, ~Reconnect, NEW c \in Streams,
           ClosedLast(c), Conserved(c), Lasting(c), Lasting(c)'
    PROVE  /\ Asked(c)' /\ Prod(c) # CallerOf[c] => Reads(c)'
           /\ Feeds(c)' => Reads(c)' \/ Asked(c)'
           /\ Has(Track(Prod(c)), Messages(c)) \/ Feeds(c) =>
                Reads(c)' \/ (Asked(c)' /\ Prod(c) = CallerOf[c])
<1> DEFINE p == Prod(c)
           q == Cons(c)
<1>0. /\ TypeOK /\ c \in Calls /\ p \in Peers /\ q \in Peers /\ Other(p) = q /\ Other(q) = p /\ AskedOnce(c)
      /\ CallerOf[c] \in Peers /\ p # q
      /\ KindOf[c] = "RequestSender" => p = CallerOf[c]
      /\ KindOf[c] # "RequestSender" => KindOf[c] = "RequestReceiver" /\ p = Callee(c) /\ p # CallerOf[c]
      /\ OnTheWay(p) \in Seq(Packets)
  BY TwoHalves, WayType DEF RequestInv, Sound
<1>1. /\ ~Lost(p) /\ result'[q] = "running" /\ ~should_close'[q] /\ ~Garbles(c)
  BY LastingBefore
<1>2. /\ Asked(c) /\ p # CallerOf[c] => Reads(c)
      /\ Feeds(c) => Reads(c) \/ Asked(c)
      /\ Has(Track(p), Messages(c)) => Reads(c) \/ (Asked(c) /\ p = CallerOf[c])
  BY DEF Conserved
<1>3. ASSUME Reads(c), ~Reads(c)'
      PROVE  /\ RecvStreamClosed(q) /\ Selecting(q) /\ Closing(p, c) /\ OnTheWay(p) # <<>>
             /\ OnTheWay(p)[1] \in With(id_of[c], {"StreamClosed"})
  BY <1>1, <1>3, ReadsGone
<1>4. Closing(Callee(c), c) => ~Asked(c)
  BY DEF ClosedLast
<1>5. Closing(p, c) => ~Feeds(c)
  BY DEF ClosedLast
<1>6. Asked(c) /\ p = CallerOf[c] => Asked(c)' \/ Reads(c)'
  <2>1. Asked(c) /\ ~Asked(c)' /\ p = CallerOf[c] => Gets(c)
    BY <1>0, <1>1, AskedGone
  <2> QED
    BY <1>0, <2>1, GetsIt
<1>7. Asked(c) /\ p # CallerOf[c] => Reads(c)'
  BY <1>0, <1>2, <1>3, <1>4
<1>8. Asked(c)' /\ p # CallerOf[c] => Reads(c)'
  BY <1>0, <1>7, AskedFlow, AsksBoth
<1>9. Feeds(c) => Reads(c)' \/ (Asked(c)' /\ p = CallerOf[c])
  <2>1. Feeds(c) /\ Asked(c) => p = CallerOf[c]
    BY <1>0, AskedApart
  <2> QED
    BY <1>2, <1>3, <1>5, <1>6, <2>1
<1>10. Feeds(c)' => Reads(c)' \/ Asked(c)'
  <2>1. Gets(c) /\ KindOf[c] = "RequestReceiver" => Asked(c) /\ p # CallerOf[c]
    BY <1>0, Heeded
  <2> QED
    BY <1>7, <1>9, <2>1, FeedsFlow, AsksBoth
<1>11. ASSUME Has(Track(p), Messages(c)) PROVE Reads(c)' \/ (Asked(c)' /\ p = CallerOf[c])
  <2>1. CASE Asked(c) /\ p = CallerOf[c]
    BY <1>6, <2>1
  <2>2. ASSUME Reads(c), ~Reads(c)' PROVE FALSE
    <3>1. InArms(q) = <<>>
      BY <1>0, <1>3, <2>2, TrackType
    <3>2. Track(p) = OnTheWay(p)
      BY <1>0, <3>1, Joined DEF Track
    <3>3. PICK i \in 1 .. Len(OnTheWay(p)) : OnTheWay(p)[i] \in Messages(c)
      BY <1>11, <3>2 DEF Has
    <3>4. 1 \in 1 .. Len(OnTheWay(p))
      BY <3>3
    <3>5. i < 1
      BY <1>3, <2>2, <3>3, <3>4 DEF ClosedLast
    <3> QED
      BY <3>3, <3>5
  <2> QED
    BY <1>2, <1>11, <2>1, <2>2
<1> QED
  BY <1>8, <1>9, <1>10, <1>11

\* a producer's end that closes gracefully has taken all that its user put in
LEMMA TakenOf ==
    ASSUME Sound, IdsLeft, Drained, Emptied, [Next]_vars, ~Reconnect, NEW c \in Streams, Stocked(c),
           result'[Prod(c)] \in {"running", "Ok"}
    PROVE  Out(c)' = Out(c) \/ (Feeding(c) /\ ~Over(c))
<1> DEFINE p == Prod(c)
<1>0. /\ TypeOK /\ c \in Calls /\ c # NoCall /\ p \in Peers /\ IdsAscend
      /\ KindOf[c] = "RequestSender" => p = CallerOf[c]
  BY TwoHalves DEF Sound, CorrelationInv
<1>1. ASSUME DropHandler(p), result[p] = "running", result'[p] # "running"
      PROVE  ~Feeds(c) /\ ~(KindOf[c] = "RequestSender" /\ c \in CallsOf(rx_requests[CallerOf[c]]))
  <2>1. (Finish(p) \/ WriteClose(p)) /\ End(p, "Ok")
    BY <1>0, <1>1, CloseFlow
  <2>2. waiting_on_user[p] = EmptyTable
    BY <1>0, <2>1, ClosesEmpty
  <2>3. ~Feeds(c)
    BY <1>0, <2>2 DEF Feeds, CallsIn, EmptyTable
  <2>4. rx_requests[p] = <<>>
    <3>1. WriteClose(p) => Saying(p, "Close")
      BY DEF WriteClose, Writing, Saying
    <3>2. ASSUME ~CanSendRequests(p) PROVE rx_requests[p] = <<>>
      <4>1. p = "server" /\ mode["server"] = "UniServer"
        BY <1>0, <3>2 DEF CanSendRequests, IdsAscend, Peers
      <4> QED
        BY <4>1 DEF Emptied
    <3> QED
      BY <1>0, <2>1, <3>1, <3>2 DEF Finish, NothingToSend, IdsLeft, Emptied
  <2>5. CallsOf(rx_requests[p]) = {}
    BY <2>4 DEF CallsOf
  <2> QED
    BY <1>0, <2>3, <2>5
<1>2. up[c] \in Seq(1 .. MaxMsgs) /\ sent[c] \in Int
  BY <1>0, Basics DEF TypeOK, CallTypeOK
<1>3. CASE up'[c] = up[c] /\ sent'[c] = sent[c]
  BY <1>3 DEF Out
<1>4. CASE Emit(c)
  <2>1. up'[c] = Append(up[c], sent[c] + 1) /\ sent'[c] = sent[c] + 1
    BY <1>0, <1>4 DEF Emit, TypeOK, CallTypeOK
  <2>2. Len(up'[c]) = Len(up[c]) + 1 /\ Len(up[c]) \in Nat
    BY <1>2, <2>1
  <2>3. Out(c)' = sent'[c] - Len(up'[c]) /\ Out(c) = sent[c] - Len(up[c])
    BY DEF Out
  <2> HIDE DEF p
  <2> QED
    BY <1>2, <2>1, <2>2, <2>3
<1>5. CASE Feeding(c) /\ sent'[c] = sent[c] /\ up'[c] = IF Over(c) THEN <<>> ELSE Tail(up[c])
  BY <1>5 DEF Out, Over
<1> QED
  BY <1>1, <1>3, <1>4, <1>5, StockFlow

\* the last message in the consumer's channel is the last it was given
LEMMA LastGrows ==
    ASSUME Sound, IdsApart, [Next]_vars, ~Reconnect, NEW c \in Streams, Ascending(c)
    PROVE  LastN(c)' \in Nat /\ LastN(c) \in Nat /\ LastN(c)' >= LastN(c)
<1> DEFINE p == Prod(c)
           q == Cons(c)
           m == task[q].packet
<1>0. /\ TypeOK /\ TypeOK' /\ c \in Calls /\ p \in Peers /\ q \in Peers /\ Other(p) = q
      /\ LastN(c) \in Nat /\ OnTheWay(p) \in Seq(Packets)
  BY TwoHalves, SoundStep, LastType, WayType DEF Sound
<1>1. CASE LastN(c)' = LastN(c)
  BY <1>0, <1>1
<1>2. CASE DeliverMessage(q) /\ waiting_on_stream[q][m.id] = c /\ LastN(c)' = m.n
  <2>1. Track(p) # <<>> /\ Head(Track(p)) = m /\ InArms(q) = <<m>>
    BY <1>0, <1>2, DeliveredTrack
  <2>2. m \in Messages(c)
    BY <1>2, <2>1, ArmsOwner
  <2>3. Track(p) \in Seq(Packets)
    BY <1>0, TrackType
  <2>4. 1 \in 1 .. Len(Track(p)) /\ Track(p)[1] = m
    BY <2>1, <2>3
  <2>5. LastN(c) < m.n
    BY <2>2, <2>4 DEF Ascending, Rising
  <2>6. m.n \in Nat
    BY <2>2, Basics DEF Messages
  <2> QED
    BY <1>0, <1>2, <2>5, <2>6
<1> QED
  BY <1>1, <1>2, LastFlow

\* what the consumer has not got is in the arms of its task or on the way
LEMMA StillThere ==
    ASSUME Sound, RequestInv, OrderInv, IdsApart, IdsLeft, Drained, Emptied, [Next]_vars, ~Reconnect,
           NEW c \in Streams, Conserved(c), Lasting(c), Lasting(c)',
           NEW k \in Int, LastN(c)' < k, k <= Out(c)'
    PROVE  Has(Track(Prod(c))', {m \in Messages(c) : m.n = k})
<1> DEFINE p == Prod(c)
           q == Cons(c)
           X == {m \in Messages(c) : m.n = k}
<1>0. /\ TypeOK /\ TypeOK' /\ Ended /\ ~Reconnect /\ c \in Calls
      /\ p \in Peers /\ q \in Peers /\ Other(p) = q /\ Attended /\ Beginning(c)
      /\ "Stream" \notin BadKinds
      /\ Track(p) \in Seq(Packets) /\ InArms(q) \in Seq(Packets) /\ OnTheWay(p) \in Seq(Packets)
      /\ Track(p)' \in Seq(Packets) /\ InArms(q)' \in Seq(Packets) /\ OnTheWay(p)' \in Seq(Packets)
      /\ Track(p) = InArms(q) \o OnTheWay(p) /\ Track(p)' = InArms(q)' \o OnTheWay(p)'
  BY TwoHalves, SoundStep, TrackType, TrackTypeNext, WayType, LastingBefore DEF Sound, OrderInv, Track
<1>1. /\ ~Lost(p) /\ result'[q] = "running" /\ result'[p] \in {"running", "Ok"}
  BY LastingBefore
<1>2. Ascending(c) /\ Stocked(c)
  BY DEF OrderInv, Ascending, Stocked
<1>3. LastN(c)' \in Nat /\ LastN(c) \in Nat /\ LastN(c)' >= LastN(c)
  BY <1>2, LastGrows
<1>4. /\ Out(c) \in Int
      /\ Feeding(c) /\ ~Over(c) => Head(up[c]) = Out(c) + 1 /\ Out(c)' = Out(c) + 1
  BY <1>2, StockStep
<1>5. Out(c)' = Out(c) \/ (Feeding(c) /\ ~Over(c))
  BY <1>1, <1>2, TakenOf
<1>6. CASE Feeding(c) /\ ~Over(c) /\ k = Out(c) + 1
  <2> DEFINE m == Packet("Stream", id_of[c], c, Head(up[c]))
  <2>1. m \in Messages(c) /\ Track(p)' = Append(Track(p), m) /\ m \in Packets
    BY <1>6, FeedsIt DEF Speaks
  <2>2. m \in X
    BY <1>4, <1>6, <2>1 DEF Packet
  <2>3. Has(Append(Track(p), m), X)
    <3> HIDE DEF m, X
    <3> QED
      BY <1>0, <2>1, <2>2, HasAppend
  <2> QED
    BY <2>1, <2>3
<1>7. CASE k <= Out(c)
  <2>1. Has(Track(p), X)
    BY <1>3, <1>7 DEF Conserved
  <2>2. Has(InArms(q), X) \/ Has(OnTheWay(p), X)
    <3>1. PICK i \in 1 .. Len(Track(p)) : Track(p)[i] \in X
      BY <2>1 DEF Has
    <3>2. CASE i <= Len(InArms(q))
      BY <1>0, <3>1, <3>2 DEF Has
    <3>3. CASE i > Len(InArms(q))
      <4>1. /\ i - Len(InArms(q)) \in 1 .. Len(OnTheWay(p))
            /\ OnTheWay(p)[i - Len(InArms(q))] = Track(p)[i]
        BY <1>0, <3>1, <3>3
      <4> QED
        BY <3>1, <4>1 DEF Has
    <3> QED
      BY <1>0, <3>1, <3>2, <3>3
  <2>3. ASSUME Has(InArms(q)', X) \/ Has(OnTheWay(p)', X) PROVE Has(Track(p)', X)
    <3>1. ASSUME NEW i \in 1 .. Len(InArms(q)'), InArms(q)'[i] \in X PROVE Has(Track(p)', X)
      <4>1. i \in 1 .. Len(Track(p)') /\ Track(p)'[i] = InArms(q)'[i]
        BY <1>0
      <4> QED
        BY <3>1, <4>1 DEF Has
    <3>2. ASSUME NEW i \in 1 .. Len(OnTheWay(p)'), OnTheWay(p)'[i] \in X PROVE Has(Track(p)', X)
      <4>1. /\ i + Len(InArms(q)') \in 1 .. Len(Track(p)')
            /\ Track(p)'[i + Len(InArms(q)')] = OnTheWay(p)'[i]
        BY <1>0
      <4> QED
        BY <3>2, <4>1 DEF Has
    <3> QED
      BY <2>3, <3>1, <3>2 DEF Has
  <2>4. ArmsOf(q)
    BY <1>0, ArmsFlow
  <2>5. Listening(c)
    <3>1. Has(Track(p), Messages(c))
      BY <2>1 DEF Has
    <3>2. Reads(c) \/ (Asked(c) /\ p = CallerOf[c])
      BY <3>1 DEF Conserved
    <3>3. Reads(c) \/ (Asked(c) /\ KindOf[c] = "RequestSender")
      BY <3>2, TwoHalves
    <3> QED
      BY <3>3 DEF Lasting, Listening
  <2>6. CASE Has(OnTheWay(p), X)
    <3>1. Has(OnTheWay(p)', X) \/ (Listens(q) /\ Arriving(q) \in X)
      BY <1>0, <1>1, <2>6, WayHas
    <3>2. ASSUME Listens(q), Arriving(q) \in X PROVE Has(InArms(q)', X)
      <4>1. InArms(q)' # <<>>
        BY <1>0, <1>1, <2>5, <3>2, HeardStream
      <4>2. Selecting(q)
        BY <3>2 DEF Listens, Arrives
      <4>3. InArms(q) = <<>>
        BY <1>0, <4>2, TrackType
      <4>4. InArms(q)' = <<Arriving(q)>>
        BY <2>4, <4>1, <4>3 DEF ArmsOf
      <4> QED
        BY <3>2, <4>4 DEF Has
    <3> QED
      BY <2>3, <3>1, <3>2
  <2>7. CASE Has(InArms(q), X)
    <3>1. CASE InArms(q)' = InArms(q)
      BY <2>3, <2>7, <3>1
    <3>2. CASE InArms(q) = <<task[q].packet>> /\ DeliverMessage(q)
      <4>1. task[q].packet \in Messages(c) /\ task[q].packet.n = k
        BY <2>7, <3>2 DEF Has
      <4>2. LastN(c)' = k
        BY <1>0, <3>2, <4>1, DeliveredLast DEF Lasting
      <4> QED
        BY <1>3, <4>2
    <3>3. InArms(q) # <<>>
      BY <2>7 DEF Has
    <3> QED
      BY <2>4, <3>1, <3>2, <3>3 DEF ArmsOf
  <2> QED
    BY <2>2, <2>6, <2>7
<1> QED
  BY <1>4, <1>5, <1>6, <1>7

\* the consumer's channel has no gaps
LEMMA DownNext ==
    ASSUME Sound, RequestInv, OrderInv, IdsApart, [Next]_vars, ~Reconnect, NEW c \in Streams,
           Conserved(c), Lasting(c), Lasting(c)'
    PROVE  \A i \in 1 .. Len(down'[c]) : down'[c][i].n = got'[c] + i
<1> DEFINE q == Cons(c)
           m == task[q].packet
<1>0. /\ TypeOK /\ c \in Calls /\ q \in Peers /\ down[c] \in Seq(Bodies) /\ got[c] \in Nat /\ got[c] \in Int
      /\ "Stream" \notin BadKinds /\ Other(q) = Prod(c) /\ Prod(c) \in Peers /\ Other(Prod(c)) = q
  BY TwoHalves, Basics, LastingBefore DEF Sound, TypeOK, CallTypeOK
<1>1. \A i \in 1 .. Len(down[c]) : down[c][i].n = got[c] + i
  BY DEF Conserved
<1>2. CASE down'[c] = down[c] /\ got'[c] = got[c]
  BY <1>1, <1>2
<1>3. CASE Take(c)
  <2>1. down[c] # <<>> /\ down'[c] = Tail(down[c]) /\ got'[c] = Head(down[c]).n
    BY <1>0, <1>3 DEF Take, TypeOK, CallTypeOK
  <2>2. /\ Head(down[c]) = down[c][1] /\ 1 \in 1 .. Len(down[c]) /\ Len(down[c]) \in Nat
        /\ \A i \in 1 .. Len(Tail(down[c])) : i + 1 \in 1 .. Len(down[c]) /\ Tail(down[c])[i] = down[c][i + 1]
    BY <1>0, <2>1, TailOf
  <2>3. got'[c] = got[c] + 1
    BY <1>1, <2>1, <2>2
  <2>4. ASSUME NEW i \in 1 .. Len(Tail(down[c])) PROVE Tail(down[c])[i].n = got'[c] + i
    <3>1. i + 1 \in 1 .. Len(down[c]) /\ Tail(down[c])[i] = down[c][i + 1]
      BY <2>2
    <3>2. down[c][i + 1].n = got[c] + (i + 1)
      BY <1>1, <3>1
    <3> QED
      BY <1>0, <2>3, <3>1, <3>2
  <2> QED
    BY <2>1, <2>4
<1>4. CASE down'[c] = <<>>
  BY <1>4
<1>5. CASE /\ DeliverMessage(q) /\ waiting_on_stream[q][m.id] = c
           /\ down'[c] = Append(down[c], Body(m)) /\ got'[c] = got[c]
  <2>1. InArms(q) = <<m>>
    BY <1>0, <1>5, DeliveredTrack
  <2>2. m \in Messages(c)
    BY <1>5, <2>1, ArmsOwner
  <2>3. m.n = LastN(c) + 1
    <3>1. /\ Wanted(c)
          /\ Gapless(c)
      BY <1>0 DEF Lasting, OrderInv
    <3>2. 1 \in 1 .. Len(InArms(q)) /\ InArms(q)[1] = m
      BY <2>1
    <3> QED
      BY <2>2, <3>1, <3>2 DEF Gapless
  <2>4. LastN(c) = got[c] + Len(down[c]) /\ Len(down[c]) \in Nat
    <3>1. CASE down[c] = <<>>
      BY <1>0, <3>1 DEF LastN
    <3>2. CASE down[c] # <<>>
      <4>1. Len(down[c]) \in 1 .. Len(down[c])
        BY <1>0, <3>2
      <4> QED
        BY <1>1, <3>2, <4>1 DEF LastN
    <3> QED
      BY <3>1, <3>2
  <2>5. Body(m) \in Bodies /\ Body(m).n = m.n
    BY <2>2 DEF Body, Bodies, Messages, Streams
  <2>6. /\ \A i \in 1 .. Len(down[c]) : down'[c][i] = down[c][i]
        /\ down'[c][Len(down[c]) + 1] = Body(m)
        /\ \A i \in 1 .. Len(down'[c]) : i \in 1 .. Len(down[c]) \/ i = Len(down[c]) + 1
    <3> HIDE DEF m
    <3> QED
      BY <1>0, <1>5, <2>5, Appended
  <2>7. Body(m).n = got'[c] + (Len(down[c]) + 1)
    BY <1>0, <1>5, <2>3, <2>4, <2>5
  <2> HIDE DEF m
  <2> QED
    BY <1>1, <1>5, <2>6, <2>7
<1> QED
  BY <1>2, <1>3, <1>4, <1>5, DownFlow

\* a consumer has got none of a stream of which nothing was taken
LEMMA NoneYet ==
    ASSUME TypeOK, NEW c \in Calls, Ascending(c), Out(c) = 0
    PROVE  LastN(c) = 0 /\ down[c] = <<>>
<1> DEFINE d == down[c]
<1>0. d \in Seq(Bodies) /\ got[c] \in Nat
  BY Basics DEF TypeOK, CallTypeOK
<1>1. LastN(c) \in Nat /\ LastN(c) <= 0
  BY LastType DEF Ascending
<1>2. LastN(c) = 0
  BY <1>1
<1>3. ASSUME d # <<>> PROVE FALSE
  <2>1. Len(d) \in Nat /\ Len(d) \in 1 .. Len(d) /\ \A i \in 1 .. Len(d) : d[i] \in Bodies
    BY <1>0, <1>3
  <2>2. LastN(c) = d[Len(d)].n
    BY <1>3 DEF LastN
  <2>3. \A i \in 1 .. Len(d) : d[i].n \in Nat
    <3>1. \A b \in Bodies : b.n \in Nat
      BY Basics DEF Bodies
    <3> HIDE DEF d
    <3> QED
      BY <2>1, <3>1
  <2>4. d[Len(d)].n > IF Len(d) = 1 THEN got[c] ELSE d[Len(d) - 1].n
    BY <2>1 DEF Ascending, InOrder
  <2>5. Len(d) # 1 => Len(d) - 1 \in 1 .. Len(d)
    <3>1. Len(d) \in Nat /\ Len(d) >= 1
      BY <2>1
    <3>2. \A n \in Nat : n >= 1 /\ n # 1 => n - 1 \in 1 .. n
      OBVIOUS
    <3> QED
      BY <3>1, <3>2
  <2>6. (IF Len(d) = 1 THEN got[c] ELSE d[Len(d) - 1].n) \in Nat
    BY <1>0, <2>3, <2>5
  <2> QED
    BY <1>2, <2>2, <2>4, <2>6
<1> QED
  BY <1>2, <1>3

\* nothing is known of a call that is started
LEMMA StartedConserved ==
    ASSUME Sound, RequestInv, OrderInv, OrderInv', IdsApart, IdsApart', [Next]_vars, ~Reconnect,
           NEW c \in Streams, StartCall(c)
    PROVE  Conserved(c)'
<1> DEFINE p == Prod(c)
           q == Cons(c)
<1>0. /\ TypeOK /\ TypeOK' /\ c \in Calls /\ p \in Peers /\ q \in Peers /\ Track(p)' \in Seq(Packets)
      /\ AskedOnce(c) /\ Beginning(c) /\ ControlIds /\ Attended /\ Ascending(c)' /\ Ascending(c)
      /\ down[c] \in Seq(Bodies) /\ got[c] \in Nat
  <2>1. TypeOK /\ TypeOK'
    BY SoundStep DEF Sound
  <2>2. c \in Calls /\ p \in Peers /\ q \in Peers
    BY TwoHalves
  <2>3. Track(p)' \in Seq(Packets)
    BY <2>1, <2>2, TrackTypeNext
  <2>4. AskedOnce(c) /\ ControlIds
    BY <2>2 DEF RequestInv
  <2>5. Beginning(c) /\ Attended /\ Ascending(c) /\ Ascending(c)'
    BY DEF OrderInv
  <2>6. down[c] \in Seq(Bodies) /\ got[c] \in Nat
    BY <2>1, <2>2, Basics DEF TypeOK, CallTypeOK
  <2> QED
    BY <2>1, <2>2, <2>3, <2>4, <2>5, <2>6
<1>1. /\ res[c] = "idle" /\ UNCHANGED <<up, sent, down, got>>
  BY DEF StartCall
<1>2. id_of[c] \notin Ids
  <2>1. id_of[c] = NoId
    BY <1>0, <1>1 DEF Beginning
  <2> QED
    BY <2>1, StreamFacts
<1>3. ~Asked(c) /\ ~Feeds(c)
  BY <1>0, <1>2, AskedHasId, StreamFacts
<1>4. ~Asks(c) /\ ~Gets(c)
  BY <1>0, <1>1, <1>3, AskedFlow, Heeded, StreamFacts
<1>5. ~Closing(q, c)' /\ ~Asked(c)' /\ ~Feeds(c)'
  BY <1>0, <1>2, <1>3, <1>4, ClosingFlow, AskedFlow, FeedsFlow
<1>6. Out(c)' = 0 /\ Out(c) = 0
  BY <1>0, <1>1 DEF Out, Beginning
<1>7. LastN(c) = 0 /\ down[c] = <<>>
  BY <1>0, <1>6, NoneYet
<1>8. LastN(c)' = 0
  BY <1>1, <1>7 DEF LastN
<1>9. ~Has(Track(p)', Messages(c))
  <2>1. ASSUME NEW i \in 1 .. Len(Track(p)'), Track(p)'[i] \in Messages(c) PROVE FALSE
    <3>1. LastN(c)' < Track(p)'[i].n /\ Track(p)'[i].n <= Out(c)'
      BY <1>0, <2>1 DEF Ascending, Rising
    <3>2. Track(p)'[i].n \in Nat
      BY <2>1, Basics DEF Messages
    <3> QED
      BY <1>6, <1>8, <3>1, <3>2
  <2> QED
    BY <2>1 DEF Has
<1> QED
  BY <1>1, <1>5, <1>6, <1>7, <1>8, <1>9 DEF Conserved, Prod, Cons

LEMMA ConservedStep ==
    ASSUME Sound, RequestInv, OrderInv, OrderInv', IdsApart, IdsApart', IdsLeft, Drained, Emptied,
           [Next]_vars, ~Reconnect, NEW c \in Streams, ClosedLast(c), Conserved(c)
    PROVE  Conserved(c)'
<1>1. CASE StartCall(c)
  BY <1>1, StartedConserved
<1>2. ASSUME Lasting(c)', Lasting(c) PROVE Conserved(c)'
  <2> DEFINE p == Prod(c)
  <2>0. TypeOK /\ TypeOK' /\ p \in Peers /\ LastN(c)' \in Nat /\ Out(c)' \in Int
    <3>1. Ascending(c) /\ Stocked(c)
      BY DEF OrderInv, Ascending, Stocked
    <3> QED
      BY <3>1, SoundStep, TwoHalves, LastGrows, StockStep DEF Sound
  <2>1. ~Closing(Cons(c), c)'
    BY <1>2, NotClosing
  <2>2. /\ Asked(c)' /\ p # CallerOf[c] => Reads(c)'
        /\ Feeds(c)' => Reads(c)' \/ Asked(c)'
        /\ Has(Track(p), Messages(c)) \/ Feeds(c) => Reads(c)' \/ (Asked(c)' /\ p = CallerOf[c])
    BY <1>2, StillRead
  <2>3. Has(Track(p)', Messages(c)) => Has(Track(p), Messages(c)) \/ Feeds(c)
    <3>1. /\ Ended /\ ~Reconnect /\ Track(p) \in Seq(Packets) /\ Track(p)' \in Seq(Packets)
      BY <2>0, SoundStep, TrackType, TrackTypeNext DEF Sound
    <3>2. ASSUME Within(Track(p)', Track(p)), Has(Track(p)', Messages(c)) PROVE Has(Track(p), Messages(c))
      BY <3>2, HasWithin
    <3>3. ASSUME NEW m \in Packets, Speaks(p, m), Track(p)' = Append(Track(p), m),
                 Has(Track(p)', Messages(c))
          PROVE  Has(Track(p), Messages(c)) \/ Feeds(c)
      <4>1. Has(Track(p), Messages(c)) \/ m \in Messages(c)
        <5>1. Has(Append(Track(p), m), Messages(c))
          BY <3>3
        <5> QED
          BY <3>1, <5>1, HasAppend
      <4>2. m \in Messages(c) => Feeds(c)
        BY <3>3, OnlyFed, FeedingFeeds
      <4> QED
        BY <4>1, <4>2
    <3>4. ASSUME Dealt(p) PROVE Within(Track(p)', Track(p))
      BY <3>1, <3>4, WithinSelf DEF Dealt
    <3>5. Front(Track(p)', Track(p)) => Within(Track(p)', Track(p))
      BY <3>1, FrontWithin
    <3>6. Track(p)' = Track(p) => Within(Track(p)', Track(p))
      BY <3>1, WithinSelf
    <3>7. TrackOf(p)
      BY <2>0, <3>1, TrackFlow
    <3> QED
      BY <3>2, <3>3, <3>4, <3>5, <3>6, <3>7 DEF TrackOf
  <2>4. \A k \in LastN(c)' + 1 .. Out(c)' : Has(Track(p)', {m \in Messages(c) : m.n = k})
    <3> TAKE k \in LastN(c)' + 1 .. Out(c)'
    <3>1. k \in Int /\ LastN(c)' < k /\ k <= Out(c)'
      BY <2>0
    <3> QED
      BY <1>2, <3>1, StillThere
  <2>5. \A i \in 1 .. Len(down'[c]) : down'[c][i].n = got'[c] + i
    BY <1>2, DownNext
  <2> QED
    BY <2>1, <2>2, <2>3, <2>4, <2>5 DEF Conserved
<1>3. Lasting(c)' => Lasting(c) \/ StartCall(c)
  BY LastingBefore
<1>4. ~Lasting(c)' => Conserved(c)'
  BY DEF Conserved
<1> QED
  BY <1>1, <1>2, <1>3, <1>4

\* an end that is just made has nothing to close
LEMMA StreamInit == ASSUME Init PROVE HalvesInv
<1>1. \A p \in Peers : /\ OnTheWay(p) = <<>> /\ InArms(p) = <<>> /\ Handed(p) = <<>>
                       /\ rx_requests[p] = <<>> /\ waiting_on_user[p] = EmptyTable
                       /\ waiting_on_stream[p] = EmptyTable /\ task[p].at = "select"
                       /\ result[p] = "running" /\ ~should_close[p]
  BY DEF Init, OnTheWay, InHand, InArms, Handed, Writing, Delivering, Idle
<1>2. \A p \in Peers : Track(p) = <<>>
  BY <1>1, TwoPeers DEF Track
<1>3. Emptied
  <2>1. ~may_call["server"] /\ "server" \in Peers
    BY DEF Init, Peers
  <2> QED
    BY <1>1, <2>1 DEF Emptied, Has, Saying
<1>4. ASSUME NEW c \in Streams PROVE ClosedLast(c) /\ Attached(c) /\ Conserved(c)
  <2>1. /\ c \in Calls /\ Prod(c) \in Peers /\ Cons(c) \in Peers /\ Callee(c) \in Peers
        /\ CallerOf[c] \in Peers
    BY TwoHalves
  <2>2. \A p \in Peers : ~Closing(p, c)
    BY <1>1 DEF Closing, Has
  <2>3. ~Asked(c) /\ ~Feeds(c) /\ ~Reads(c)
    BY <1>1, <2>1, Basics DEF Asked, Feeds, Reads, Has, CallsIn, EmptyTable
  <2>4. ~Has(Track(Prod(c)), Messages(c))
    BY <1>2, <2>1 DEF Has
  <2>5. LastN(c) = 0 /\ Out(c) = 0 /\ down[c] = <<>>
    BY <2>1 DEF Init, LastN, Out
  <2>6. ClosedLast(c) /\ Attached(c)
    BY <1>1, <2>1, <2>2, <2>3 DEF ClosedLast, Attached
  <2>7. Conserved(c)
    BY <2>1, <2>2, <2>3, <2>4, <2>5 DEF Conserved
  <2> QED
    BY <2>6, <2>7
<1> QED
  BY <1>3, <1>4 DEF HalvesInv

LEMMA StreamStep ==
    ASSUME Sound, CallsInv, OrderInv, OrderInv', HalvesInv, [Next]_vars, ~Reconnect PROVE HalvesInv'
<1>1. RequestInv /\ (IdsLeft => Drained)
  BY DEF CallsInv
<1>2. IdsLeft' => IdsLeft /\ Emptied /\ Emptied'
  BY IdsLeftBefore, EmptiedStep DEF HalvesInv
<1>3. ASSUME IdsApart' PROVE /\ \A c \in Streams : ClosedLast(c)' /\ Attached(c)'
                             /\ IdsLeft' => \A c \in Streams : Conserved(c)'
  <2>1. IdsApart /\ \A c \in Streams : ClosedLast(c) /\ Attached(c)
    BY <1>3, ApartBefore DEF HalvesInv
  <2>2. ASSUME NEW c \in Streams PROVE ClosedLast(c)' /\ Attached(c)'
    BY <1>1, <1>3, <2>1, ClosedLastStep, AttachedStep
  <2>3. ASSUME IdsLeft', NEW c \in Streams PROVE Conserved(c)'
    <3>1. IdsLeft /\ Emptied /\ Drained /\ Conserved(c)
      BY <1>1, <1>2, <2>1, <2>3 DEF HalvesInv
    <3> QED
      BY <1>1, <1>3, <2>1, <3>1, ConservedStep
  <2> QED
    BY <2>2, <2>3
<1> QED
  BY <1>2, <1>3 DEF HalvesInv, Streams

\* ... and so are the halves of old streams when the client reconnects
LEMMA NewHalves ==
    ASSUME Sound, CallsInv, OrderInv, Reconnect, Clean PROVE HalvesInv'
<1>0. /\ TypeOK /\ IdsApart /\ Handed("server")' = <<>> /\ ~may_call'["server"]
      /\ \A p \in Peers : /\ OnTheWay(p)' = <<>> /\ task'[p] = task[p] /\ task[p].at = "select"
                          /\ result'[p] = "running" /\ should_close'[p] = FALSE
                          /\ waiting_on_stream'[p] = EmptyTable
                          /\ waiting_on_user'[p] = EmptyTable
      /\ rx_requests' = rx_requests /\ rx_requests["server"] = <<>>
      /\ \A c \in Calls : id_of[c] = NoId <=> id_of'[c] = NoId
      /\ \A c \in Calls : id_of'[c] # NoId => Old(c)'
  BY NewStream DEF Sound
<1>1. \A c \in Calls : c \notin CallsIn(EmptyTable)
  BY Basics DEF CallsIn, EmptyTable
<1>2. \A X : ~Has(<<>>, X)
  BY DEF Has
<1>3. Emptied'
  BY <1>0, <1>2 DEF Emptied, Saying
<1>4. \A p \in Peers : InArms(p)' = <<>>
  BY <1>0 DEF InArms, Delivering
<1>5. \A p \in Peers : Track(p)' = <<>>
  <2>1. <<>> \o <<>> = <<>>
    OBVIOUS
  <2> QED
    BY <1>0, <1>4, <2>1, TwoPeers DEF Track
<1>6. UNCHANGED <<up, sent, down, got>>
  BY DEF Reconnect
<1>7. ASSUME NEW c \in Streams PROVE ClosedLast(c)' /\ Attached(c)' /\ Conserved(c)'
  <2>1. /\ c \in Calls /\ ~IsRequest(c) /\ Prod(c) \in Peers /\ Cons(c) \in Peers
        /\ Callee(c) \in Peers /\ CallerOf[c] \in Peers /\ Beginning(c) /\ Ascending(c)
    BY <1>0, TwoHalves DEF OrderInv
  <2>2. \A p \in Peers : ~Closing(p, c)'
    BY <1>0, <1>2 DEF Closing
  <2>3. ~Reads(c)' /\ ~Asked(c)' /\ ~Feeds(c)'
    <3>1. OnTheWay(CallerOf[c])' = <<>> /\ waiting_on_stream'[Cons(c)] = EmptyTable
          /\ waiting_on_user'[Prod(c)] = EmptyTable
      BY <1>0, <2>1
    <3> QED
      BY <1>1, <1>2, <2>1, <3>1 DEF Reads, Asked, Feeds, Cons, Prod
  <2>4. OnTheWay(Prod(c))' = <<>> /\ Track(Prod(c))' = <<>>
    BY <1>0, <1>5, <2>1
  <2>5. ClosedLast(c)'
    <3>1. ~Closing(Prod(c), c)' /\ ~Closing(Callee(c), c)'
      BY <2>1, <2>2
    <3> QED
      BY <2>4, <3>1 DEF ClosedLast, Prod, Callee
  <2>6. Attached(c)'
    BY <2>3 DEF Attached
  <2>7. Conserved(c)'
    <3> SUFFICES ASSUME Lasting(c)' PROVE Conserved(c)'
      BY DEF Conserved
    <3>1. id_of'[c] = NoId /\ (res'[c] = "idle" \/ c \in CallsOf(rx_requests[CallerOf[c]]))
      BY <1>0, <2>1 DEF Lasting, Gone
    <3>2. res'[c] = res[c]
      BY <2>1, ReconnectedCalls DEF Sound, OrphanInv
    <3>3. Out(c) = 0
      BY <2>1, <3>1, <3>2 DEF Beginning
    <3>4. LastN(c) = 0 /\ down[c] = <<>>
      BY <1>0, <2>1, <3>3, NoneYet
    <3>5. Out(c)' = 0 /\ LastN(c)' = 0 /\ down'[c] = <<>>
      BY <1>6, <3>3, <3>4 DEF Out, LastN
    <3>6. ~Closing(Cons(c), c)' /\ ~Has(Track(Prod(c))', Messages(c))
      BY <1>2, <2>1, <2>2, <2>4
    <3> QED
      BY <2>3, <3>5, <3>6 DEF Conserved, Prod, Cons
  <2> QED
    BY <2>5, <2>6, <2>7
<1> QED
  BY <1>3, <1>7 DEF HalvesInv, Streams, Requests, IsRequest

\* ... nor does a step undo it
LEMMA HalvesAlways == Spec /\ CleanReconnects => []HalvesInv
<1>1. Init => HalvesInv
  BY StreamInit
<1>2. Sound /\ CallsInv /\ OrderInv /\ OrderInv' /\ HalvesInv /\ [Next]_vars
         /\ [Reconnect => Clean]_vars => HalvesInv'
  BY StreamStep, CleanOne, NewHalves
<1>3. Spec /\ CleanReconnects => []Sound
  BY SoundAlways
<1>4. Spec /\ CleanReconnects => []CallsInv
  BY CallsInvHolds
<1>5. Spec /\ CleanReconnects => []OrderInv
  BY OrderInvHolds
<1> QED
  BY <1>1, <1>2, <1>3, <1>4, <1>5, PTL DEF Spec, CleanReconnects

\* The messages of a stream are in order and none is missing while its consumer's end
\* listens, and its two halves end together: an end says that a stream is closed after
\* everything else it has to say of it, the other end has heard of it or will, and an end
\* that closes gracefully writes what its producers sent before it says Close
\* (handler.rs 431-480, 512-561, 604-615).
THEOREM StreamInvHolds == Spec /\ CleanReconnects => []StreamInv
<1>1. OrderInv /\ HalvesInv => StreamInv
  BY DEF StreamInv
<1> QED
  BY <1>1, OrderInvHolds, HalvesAlways, PTL

\* what Attached says in the words of the packets
LEMMA AttachedIs ==
    ASSUME Sound, IdsApart, HalvesInv
    PROVE  StreamAttached
<1> SUFFICES ASSUME NEW c \in Streams, Open
             PROVE  LET p == Prod(c)
                        q == Cons(c)
                        asked == Carries(CallerOf[c], c, {KindOf[c]})
                    IN /\ Feeds(c) /\ ~shut[c] => Reads(c) \/ asked \/ Carries(q, c, {"StreamClosed"})
                       /\ Reads(c) => Feeds(c) \/ asked \/ Carries(p, c, {"StreamClosed"})
  BY DEF StreamAttached, Open, Feeds, Reads
<1>1. Attached(c) /\ CallerOf[c] \in Peers /\ TypeOK
  BY TwoHalves DEF HalvesInv, Sound
<1>2. ASSUME NEW p \in Peers, Closing(p, c) PROVE Carries(p, c, {"StreamClosed"})
  <2>1. PICK i \in 1 .. Len(OnTheWay(p)) : OnTheWay(p)[i] \in With(id_of[c], {"StreamClosed"})
    BY <1>2 DEF Closing, Has
  <2>2. OnTheWay(p)[i].kind = "StreamClosed" /\ OnTheWay(p)[i].id = id_of[c]
    BY <2>1 DEF With
  <2> QED
    BY <2>2 DEF Carries
<1>3. Asked(c) => Carries(CallerOf[c], c, {KindOf[c]})
  <2> SUFFICES ASSUME NEW i \in 1 .. Len(OnTheWay(CallerOf[c])), OnTheWay(CallerOf[c])[i] \in AskFor(c)
               PROVE  Carries(CallerOf[c], c, {KindOf[c]})
    BY DEF Asked, Has
  <2> DEFINE m == OnTheWay(CallerOf[c])[i]
  <2>1. Genuine(CallerOf[c], m)
    BY <1>1, GenuineWay DEF Sound, CorrelationInv
  <2>2. m.kind \in RequestKinds /\ m.call = c
    BY DEF AskFor
  <2>3. m.kind = KindOf[c] /\ m.id = id_of[c]
    BY <2>1, <2>2 DEF Genuine, BodyKinds
  <2> QED
    BY <2>3 DEF Carries
<1> QED
  BY <1>1, <1>2, <1>3, TwoHalves DEF Attached

\* Nobody waits on a stream whose other half is gone, as long as the ids of the two ends
\* stay apart (handler.rs 244-281, 431-480, 537-615).
THEOREM StreamsAttached == Spec /\ CleanReconnects => [](IdsApart => StreamAttached)
<1>1. Sound /\ HalvesInv => (IdsApart => StreamAttached)
  BY AttachedIs
<1>2. Spec /\ CleanReconnects => []Sound
  BY SoundAlways
<1>3. Spec /\ CleanReconnects => []HalvesInv
  BY HalvesAlways
<1> QED
  BY <1>1, <1>2, <1>3, PTL

\* what Conserved says in the words of the channels
LEMMA ConservedIs ==
    ASSUME Sound, OrderInv, IdsApart, IdsLeft, HalvesInv
    PROVE  StreamConserved
<1> DEFINE first(c) == got[c] + Len(down[c])
           last(c) == sent[c] - Len(up[c])
<1> SUFFICES ASSUME NEW c \in Streams, Lasting(c)
             PROVE  /\ \A i \in 1 .. Len(down[c]) : down[c][i].n = got[c] + i
                    /\ InFull(Track(Prod(c)), c, first(c), last(c))
                    /\ \A i \in 1 .. Len(up[c]) : up[c][i] = last(c) + i
  BY DEF StreamConserved, Lasting, Wanted
<1> DEFINE seq == Track(Prod(c))
           mine == {i \in 1 .. Len(seq) : seq[i].kind = "Stream" /\ seq[i].call = c}
<1>0. /\ TypeOK /\ c \in Calls /\ Prod(c) \in Peers /\ down[c] \in Seq(Bodies) /\ got[c] \in Nat
      /\ sent[c] \in Nat /\ up[c] \in Seq(1 .. MaxMsgs)
  BY TwoHalves, Basics DEF Sound, TypeOK, CallTypeOK
<1>1. Ascending(c) /\ Conserved(c)
  BY DEF OrderInv, HalvesInv
<1>2. \A i \in 1 .. Len(down[c]) : down[c][i].n = got[c] + i
  BY <1>1 DEF Conserved
<1>3. LastN(c) = first(c)
  <2>1. CASE down[c] = <<>>
    BY <1>0, <2>1 DEF LastN
  <2>2. CASE down[c] # <<>>
    <3>1. Len(down[c]) \in 1 .. Len(down[c])
      BY <1>0, <2>2
    <3> QED
      BY <1>2, <2>2, <3>1 DEF LastN
  <2> QED
    BY <2>1, <2>2
<1>4. Out(c) = last(c) /\ last(c) \in Int /\ first(c) \in Int
  BY <1>0 DEF Out
<1>5. \A i \in mine : seq[i] \in Messages(c) /\ seq[i].n \in Int
  <2>1. seq \in Seq(Packets)
    BY <1>0, TrackType
  <2>2. \A i \in mine : seq[i] \in Packets /\ seq[i].kind = "Stream" /\ seq[i].call = c
    BY <2>1
  <2> HIDE DEF seq, mine
  <2> QED
    BY <2>2, Basics DEF Packets, Messages
<1> HIDE DEF first, last
<1>6. Rising(seq, Messages(c), first(c), last(c)) /\ first(c) <= last(c)
  BY <1>1, <1>3, <1>4 DEF Ascending
<1>7. {seq[i].n : i \in mine} = first(c) + 1 .. last(c)
  <2>1. ASSUME NEW i \in mine PROVE seq[i].n \in first(c) + 1 .. last(c)
    <3>1. first(c) < seq[i].n /\ seq[i].n <= last(c)
      BY <1>5, <1>6 DEF Rising
    <3> HIDE DEF seq, mine
    <3> QED
      BY <1>4, <1>5, <3>1
  <2>2. ASSUME NEW k \in first(c) + 1 .. last(c) PROVE \E i \in mine : seq[i].n = k
    <3>1. Has(seq, {m \in Messages(c) : m.n = k})
      BY <1>1, <1>3, <1>4 DEF Conserved
    <3>2. PICK i \in 1 .. Len(seq) : seq[i] \in Messages(c) /\ seq[i].n = k
      BY <3>1 DEF Has
    <3>3. seq[i].kind = "Stream" /\ seq[i].call = c
      BY <3>2 DEF Messages
    <3> QED
      BY <3>2, <3>3
  <2> QED
    BY <2>1, <2>2
<1>8. \A i, k \in mine : i < k => seq[i].n < seq[k].n
  BY <1>5, <1>6 DEF Rising
<1>9. \A i \in 1 .. Len(up[c]) : up[c][i] = last(c) + i
  BY <1>1, <1>4 DEF Ascending
<1> QED
  BY <1>2, <1>6, <1>7, <1>8, <1>9 DEF InFull

\* Nothing of a stream is lost while its consumer listens, also when the producer's end
\* closes gracefully: what lies between the two users is what was sent and not taken, once
\* and in order (handler.rs 431-436, 512-561, 713-730), while ids last and the ids
\* of the two ends stay apart.
THEOREM StreamsConserved == Spec /\ CleanReconnects => [](IdsApart /\ IdsLeft => StreamConserved)
<1>1. Sound /\ OrderInv /\ HalvesInv => (IdsApart /\ IdsLeft => StreamConserved)
  BY ConservedIs
<1>2. Spec /\ CleanReconnects => []Sound
  BY SoundAlways
<1>3. Spec /\ CleanReconnects => []OrderInv
  BY OrderInvHolds
<1>4. Spec /\ CleanReconnects => []HalvesInv
  BY HalvesAlways
<1> QED
  BY <1>1, <1>2, <1>3, <1>4, PTL

\* The invariants of calls and streams hold over all the byte streams of a client that only
\* asks, however often and wherever they fail (handler.rs 617-624, 738-820).
THEOREM ReconnectInvHolds == OnlyAsks => (Spec => []ReconnectInv)
<1>1. Sound /\ OwesNothing /\ CallsInv /\ StreamInv => ReconnectInv
  BY DEF Sound, ReconnectInv
<1> QED
  BY <1>1, SoundAlways, OwesAlways, CallsInvHolds, StreamInvHolds, AskersReconnect, PTL

\* Over all its byte streams a client that only asks gets, of each stream that is not of an
\* earlier one, every message in order, until it or the server's end is over; nobody waits
\* for the other half of a stream that is gone (handler.rs 431-480, 512-561, 798-820).
THEOREM AskersStreams == OnlyAsks => (Spec => [](StreamAttached /\ (IdsLeft => StreamConserved)))
<1> QED
  BY StreamsAttached, StreamsConserved, AskersReconnect, PTL

=============================================================================
