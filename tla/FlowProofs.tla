------------------------------ MODULE FlowProofs ------------------------------
(* What every step of a Connection does to the packets on the way, and to the      *)
(* requests on their way to a user; and from it, that no handle is left unheard.   *)
EXTENDS ConnectionProofs, CallInvariants

-----------------------------------------------------------------------------
(* Sequences from which something was taken *)

\* new has elements of old, in their order
Within(new, old) ==
    /\ \A i \in 1 .. Len(new) : \E j \in 1 .. Len(old) : new[i] = old[j]
    /\ \A i, k \in 1 .. Len(new) : i < k =>
          \E j, l \in 1 .. Len(old) : j < l /\ new[i] = old[j] /\ new[k] = old[l]

LEMMA WithinSelf ==
    ASSUME NEW S, NEW s \in Seq(S)
    PROVE  Within(s, s) /\ Within(<<>>, s) /\ (s # <<>> => Within(Tail(s), s))
<1>1. Within(s, s) /\ Within(<<>>, s)
  BY DEF Within
<1>2. ASSUME s # <<>> PROVE Within(Tail(s), s)
  <2>1. /\ Len(Tail(s)) = Len(s) - 1 /\ Len(s) \in Nat
        /\ \A i \in 1 .. Len(Tail(s)) : Tail(s)[i] = s[i + 1]
    BY <1>2
  <2>2. \A i \in 1 .. Len(Tail(s)) : i + 1 \in 1 .. Len(s)
    BY <2>1
  <2> QED
    BY <2>1, <2>2 DEF Within
<1> QED
  BY <1>1, <1>2

\* one after the other
LEMMA WithinBoth ==
    ASSUME NEW S, NEW a \in Seq(S), NEW b \in Seq(S), NEW c \in Seq(S), NEW d \in Seq(S),
           Within(c, a), Within(d, b)
    PROVE  Within(c \o d, a \o b)
<1> DEFINE new == c \o d
           old == a \o b
<1>1. /\ Len(new) = Len(c) + Len(d) /\ Len(old) = Len(a) + Len(b)
      /\ Len(a) \in Nat /\ Len(b) \in Nat /\ Len(c) \in Nat /\ Len(d) \in Nat
      /\ \A i \in 1 .. Len(c) : new[i] = c[i]
      /\ \A i \in 1 .. Len(a) : old[i] = a[i]
      /\ \A i \in 1 .. Len(b) : old[Len(a) + i] = b[i]
      /\ \A i \in 1 .. Len(d) : new[Len(c) + i] = d[i]
  OBVIOUS
<1>2. \A i \in 1 .. Len(new) : i \in 1 .. Len(c) \/
          (i > Len(c) /\ i - Len(c) \in 1 .. Len(d) /\ new[i] = d[i - Len(c)])
  <2> SUFFICES ASSUME NEW i \in 1 .. Len(new), i > Len(c)
               PROVE  i - Len(c) \in 1 .. Len(d) /\ new[i] = d[i - Len(c)]
    BY <1>1
  <2>1. i - Len(c) \in 1 .. Len(d) /\ i = Len(c) + (i - Len(c))
    BY <1>1
  <2> QED
    BY <1>1, <2>1
<1> HIDE DEF new, old
\* where an element of new comes from, before or behind the joint
<1>3. ASSUME NEW i \in 1 .. Len(c)
      PROVE  \E j \in 1 .. Len(old) : j <= Len(a) /\ new[i] = old[j]
  <2>1. PICK j \in 1 .. Len(a) : c[i] = a[j]
    BY DEF Within
  <2> QED
    BY <1>1, <2>1
<1>4. ASSUME NEW i \in 1 .. Len(new), i > Len(c)
      PROVE  \E j \in 1 .. Len(old) : j > Len(a) /\ new[i] = old[j]
  <2>0. i - Len(c) \in 1 .. Len(d) /\ new[i] = d[i - Len(c)]
    BY <1>1, <1>2, <1>4
  <2>1. PICK k \in 1 .. Len(d) : new[i] = d[k]
    BY <2>0
  <2>2. PICK j \in 1 .. Len(b) : d[k] = b[j]
    BY DEF Within
  <2>3. Len(a) + j \in 1 .. Len(old) /\ Len(a) + j > Len(a)
    BY <1>1
  <2> QED
    BY <1>1, <2>1, <2>2, <2>3
<1>5. ASSUME NEW i \in 1 .. Len(new), NEW k \in 1 .. Len(new), i < k
      PROVE  \E j, l \in 1 .. Len(old) : j < l /\ new[i] = old[j] /\ new[k] = old[l]
  <2>1. CASE k <= Len(c)
    <3>1. i \in 1 .. Len(c) /\ k \in 1 .. Len(c)
      BY <1>1, <1>5, <2>1
    <3>2. PICK j \in 1 .. Len(a), l \in 1 .. Len(a) : j < l /\ c[i] = a[j] /\ c[k] = a[l]
      BY <1>5, <3>1 DEF Within
    <3>3. j \in 1 .. Len(old) /\ l \in 1 .. Len(old)
      BY <1>1
    <3> QED
      BY <1>1, <3>1, <3>2, <3>3
  <2>2. CASE i <= Len(c) /\ k > Len(c)
    <3>1. i \in 1 .. Len(c)
      BY <1>1, <2>2
    <3>2. PICK j \in 1 .. Len(old) : j <= Len(a) /\ new[i] = old[j]
      BY <1>3, <3>1
    <3>3. PICK l \in 1 .. Len(old) : l > Len(a) /\ new[k] = old[l]
      BY <1>4, <2>2
    <3> QED
      BY <1>1, <3>2, <3>3
  <2>3. CASE i > Len(c)
    <3>1. /\ i - Len(c) \in 1 .. Len(d) /\ k - Len(c) \in 1 .. Len(d)
          /\ new[i] = d[i - Len(c)] /\ new[k] = d[k - Len(c)] /\ i - Len(c) < k - Len(c)
      BY <1>1, <1>2, <1>5, <2>3
    <3>2. PICK j \in 1 .. Len(b), l \in 1 .. Len(b) :
             j < l /\ d[i - Len(c)] = b[j] /\ d[k - Len(c)] = b[l]
      BY <3>1 DEF Within
    <3>3. /\ Len(a) + j \in 1 .. Len(old) /\ Len(a) + l \in 1 .. Len(old)
          /\ Len(a) + j < Len(a) + l
      <4>1. Len(a) \in Nat /\ Len(b) \in Nat /\ Len(old) = Len(a) + Len(b) /\ j < l
        BY <1>1, <3>2
      <4> QED
        BY <4>1
    <3> QED
      BY <1>1, <3>1, <3>2, <3>3
  <2> QED
    BY <1>1, <1>5, <2>1, <2>2, <2>3
<1>6. \A i \in 1 .. Len(new) : \E j \in 1 .. Len(old) : new[i] = old[j]
  BY <1>1, <1>2, <1>3, <1>4
<1> QED
  BY <1>5, <1>6 DEF Within, new, old

LEMMA WithinPackets ==
    /\ <<>> \in Seq(Packets)
    /\ \A s \in Seq(Packets) : Within(s, s) /\ Within(<<>>, s)
    /\ \A s \in Seq(Packets) : s # <<>> => Within(Tail(s), s)
    /\ \A a, b, c, d \in Seq(Packets) :
          Within(c, a) /\ Within(d, b) => Within(c \o d, a \o b)
<1>1. ASSUME NEW s \in Seq(Packets)
      PROVE  Within(s, s) /\ Within(<<>>, s) /\ (s # <<>> => Within(Tail(s), s))
  BY WithinSelf
<1>2. ASSUME NEW a \in Seq(Packets), NEW b \in Seq(Packets), NEW c \in Seq(Packets),
             NEW d \in Seq(Packets), Within(c, a), Within(d, b)
      PROVE  Within(c \o d, a \o b)
  BY <1>2, WithinBoth
<1>3. <<>> \in Seq(Packets)
  OBVIOUS
<1> QED
  BY <1>1, <1>2, <1>3

LEMMA Appended ==
    ASSUME NEW S, NEW s \in Seq(S), NEW x \in S
    PROVE  /\ Append(s, x) \in Seq(S) /\ Len(Append(s, x)) = Len(s) + 1
           /\ \A i \in 1 .. Len(s) : Append(s, x)[i] = s[i]
           /\ Append(s, x)[Len(s) + 1] = x
           /\ \A i \in 1 .. Len(Append(s, x)) : i \in 1 .. Len(s) \/ i = Len(s) + 1
  OBVIOUS

LEMMA TailOf ==
    ASSUME NEW S, NEW s \in Seq(S), s # <<>>
    PROVE  /\ Tail(s) \in Seq(S) /\ Len(Tail(s)) = Len(s) - 1 /\ Len(s) \in Nat
           /\ Head(s) = s[1] /\ 1 \in 1 .. Len(s)
           /\ \A i \in 1 .. Len(Tail(s)) : i + 1 \in 1 .. Len(s) /\ Tail(s)[i] = s[i + 1]
           /\ \A i \in 1 .. Len(s) : i = 1 \/ (i - 1 \in 1 .. Len(Tail(s)) /\ s[i] = Tail(s)[i - 1])
  OBVIOUS

-----------------------------------------------------------------------------
(* The packets on the way *)

Says(p, m) == OnTheWay(p)' = Append(OnTheWay(p), m)
Heard(p) == OnTheWay(p) # <<>> /\ OnTheWay(p)' = Tail(OnTheWay(p))
\* what is said is lost for a reason
Lost(p) == \/ broken' \/ Reconnect
           \/ result'[Other(p)] # "running" \/ result'[p] \notin {"running", "Ok"}
CutOff(p) == Within(OnTheWay(p)', OnTheWay(p)) /\ Lost(p)

LEMMA WayType ==
    ASSUME TypeOK, NEW p \in Peers
    PROVE  /\ link[p] \in Seq(Packets) /\ InHand(p) \in Seq(Packets)
           /\ OnTheWay(p) \in Seq(Packets) /\ task[p].packet \in Packets
           /\ ~Writing(p) => OnTheWay(p) = link[p]
           /\ Writing(p) => OnTheWay(p) = Append(link[p], task[p].packet)
<1>1. link[p] \in Seq(Packets) /\ task[p].packet \in Packets
  BY DEF TypeOK, LinkTypeOK, TaskTypeOK, Tasks
<1>2. InHand(p) \in Seq(Packets)
  BY <1>1 DEF InHand
<1>3. ASSUME Writing(p) PROVE OnTheWay(p) = Append(link[p], task[p].packet)
  <2>1. OnTheWay(p) = link[p] \o <<task[p].packet>>
    BY <1>3 DEF OnTheWay, InHand
  <2> QED
    BY <1>1, <2>1
<1>4. ASSUME ~Writing(p) PROVE OnTheWay(p) = link[p]
  BY <1>1, <1>4 DEF OnTheWay, InHand
<1> QED
  BY <1>1, <1>2, <1>3, <1>4 DEF OnTheWay

\* an arm that neither receives nor has something to write
LEMMA SilentWay ==
    ASSUME TypeOK, UNCHANGED <<link, result>>, NEW p \in Peers, NEW t, t.at # "write",
           task' = task \/ (task[p].at # "write" /\ task' = [task EXCEPT ![p] = t]),
           NEW r \in Peers
    PROVE  OnTheWay(r)' = OnTheWay(r)
<1>1. Writing(r)' = Writing(r) /\ (Writing(r) => task'[r] = task[r])
  BY DEF Writing, TypeOK, TaskTypeOK
<1> QED
  BY <1>1 DEF OnTheWay, InHand

\* an arm that has something to write
LEMMA SaidWay ==
    ASSUME TypeOK, NEW p \in Peers, NEW m, Goto(p, "write", m), UNCHANGED result,
           result[p] = "running", task[p].at # "write", link'[p] = link[p]
    PROVE  Says(p, m)
<1>1. link[p] \in Seq(Packets) /\ OnTheWay(p) = link[p]
  BY WayType DEF Writing
<1>2. task'[p] = [at |-> "write", packet |-> m] /\ result'[p] = "running"
  BY DEF Goto, TypeOK, TaskTypeOK
<1>3. OnTheWay(p)' = link[p] \o <<m>>
  BY <1>2 DEF OnTheWay, InHand, Writing
<1> QED
  BY <1>1, <1>3 DEF Says

\* the receive arm takes the first packet of the other end
LEMMA HeardWay ==
    ASSUME TypeOK, NEW p \in Peers, Arrived(p) # <<>>,
           link' = [link EXCEPT ![Other(p)] = Tail(@)],
           UNCHANGED result, task'[Other(p)] = task[Other(p)]
    PROVE  Heard(Other(p)) /\ Head(OnTheWay(Other(p))) = Head(Arrived(p))
<1> DEFINE q == Other(p)
<1>1. q \in Peers /\ link[q] \in Seq(Packets) /\ link[q] # <<>> /\ InHand(q) \in Seq(Packets)
  BY OtherPeer, WayType DEF Arrived
<1>2. link'[q] = Tail(link[q])
  BY <1>1 DEF TypeOK, LinkTypeOK
<1>3. InHand(q)' = InHand(q)
  BY DEF InHand, Writing
<1>4. ASSUME NEW a \in Seq(Packets), NEW b \in Seq(Packets), a # <<>>
      PROVE  a \o b # <<>> /\ Tail(a \o b) = Tail(a) \o b /\ Head(a \o b) = Head(a)
  BY <1>4
<1> QED
  BY <1>1, <1>2, <1>3, <1>4 DEF Heard, OnTheWay, Arrived

LEMMA TaskOfOne ==
    ASSUME TypeOK, NEW p \in Peers, NEW t, task' = task \/ task' = [task EXCEPT ![p] = t]
    PROVE  task'[Other(p)] = task[Other(p)] /\ Other(p) # p /\ Peers = {p, Other(p)}
  BY OtherPeer DEF TypeOK, TaskTypeOK, Other, Peers

\* the way of the end whose task receives
LEMMA OwnWay ==
    ASSUME TypeOK, NEW p \in Peers, Arrived(p) # <<>>,
           link' = [link EXCEPT ![Other(p)] = Tail(@)], UNCHANGED result,
           task[p].at # "write", task'[p].at # "write"
    PROVE  OnTheWay(p)' = OnTheWay(p)
<1>1. link'[p] = link[p]
  BY OtherPeer DEF TypeOK, LinkTypeOK, Other, Peers
<1> QED
  BY <1>1 DEF OnTheWay, InHand, Writing

\* a task that ends leaves what the byte stream has taken of it
LEMMA EndedWay ==
    ASSUME TypeOK, NEW p \in Peers, NEW r, r # "running",
           task' = [task EXCEPT ![p] = Idle], result' = [result EXCEPT ![p] = r],
           link' = link \/ link' = HangUp(p), task[p].at # "write" \/ r # "Ok",
           NEW s \in Peers
    PROVE  OnTheWay(s)' = OnTheWay(s) \/ CutOff(s)
<1>1. /\ task'[p] = Idle /\ result'[p] = r
      /\ \A q \in Peers : q # p => task'[q] = task[q] /\ result'[q] = result[q]
  BY DEF TypeOK, TaskTypeOK
<1>2. CASE s = p
  <2>1. link'[p] = link[p] /\ link[p] \in Seq(Packets)
    BY OtherPeer, WayType DEF HangUp, TypeOK, LinkTypeOK, Other, Peers
  <2>2. OnTheWay(p)' = link[p] \o <<>>
    BY <1>1, <2>1 DEF OnTheWay, InHand, Writing
  <2>3. CASE ~Writing(p)
    <3>1. OnTheWay(p) = link[p]
      BY <2>3, WayType
    <3>2. OnTheWay(p)' = link[p]
      BY <2>1, <2>2
    <3> QED
      BY <1>2, <3>1, <3>2
  <2>4. CASE Writing(p)
    <3>1. Within(link[p] \o <<>>, link[p] \o InHand(p))
      <4>1. Within(link[p], link[p]) /\ Within(<<>>, InHand(p)) /\ InHand(p) \in Seq(Packets)
        BY <2>1, WayType, WithinPackets
      <4> QED
        BY <2>1, <4>1, WithinPackets
    <3>2. result'[p] \notin {"running", "Ok"}
      BY <1>1, <2>4 DEF Writing
    <3> QED
      BY <1>2, <2>2, <3>1, <3>2 DEF CutOff, Lost, OnTheWay
  <2> QED
    BY <2>3, <2>4
<1>3. CASE s # p
  <2>1. s = Other(p) /\ p = Other(s)
    <3>1. s \in {"client", "server"} /\ p \in {"client", "server"} /\ "client" # "server"
      BY DEF Peers
    <3> QED
      BY <1>3, <3>1 DEF Other
  <2>2. link'[s] \in {link[s], <<>>} /\ InHand(s)' = InHand(s)
    BY <1>1, <1>3, <2>1 DEF HangUp, TypeOK, LinkTypeOK, InHand, Writing
  <2>3. link[s] \in Seq(Packets) /\ InHand(s) \in Seq(Packets)
    BY WayType
  <2>4. Within(link'[s], link[s]) /\ Within(InHand(s), InHand(s)) /\ link'[s] \in Seq(Packets)
    BY <2>2, <2>3, WithinPackets
  <2>5. Within(link'[s] \o InHand(s), link[s] \o InHand(s))
    BY <2>3, <2>4, WithinPackets
  <2>6. Lost(s)
    BY <1>1, <2>1 DEF Lost
  <2> QED
    BY <2>2, <2>5, <2>6 DEF CutOff, OnTheWay
<1> QED
  BY <1>2, <1>3

\* the way of an end that does nothing
LEMMA OtherWay ==
    ASSUME NEW r \in Peers, task'[r] = task[r], result'[r] = result[r], link'[r] = link[r]
    PROVE  OnTheWay(r)' = OnTheWay(r)
BY DEF OnTheWay, InHand, Writing

\* who has something to say
Speaks(p, m) ==
    /\ m \in Packets /\ Goto(p, "write", m) /\ Says(p, m)
    /\ \/ ToSendRequest(p) \/ ToSendEnable(p) \/ (\E id \in Ids : ToSendUser(p, id))
       \/ RecvStream(p) \/ DeliverMessage(p) \/ RecvMalformed(p)
       \/ m.kind \in {"Ping", "Close"}
Listens(p) ==
    /\ Heard(Other(p)) /\ Recv(p) /\ Arrives(p, Kinds)
    /\ Head(OnTheWay(Other(p))) = Head(Arrived(p))

WayOf(r) ==
    \/ OnTheWay(r)' = OnTheWay(r)
    \/ \E m \in Packets : Speaks(r, m)
    \/ Listens(Other(r))
    \/ CutOff(r)

LEMMA TwoPeers ==
    ASSUME NEW p \in Peers
    PROVE  /\ Other(p) \in Peers /\ Other(p) # p /\ Other(Other(p)) = p
           /\ Peers = {p, Other(p)}
BY DEF Other, Peers

LEMMA UserWay ==
    ASSUME \/ \E p \in Peers : User(p) \/ CloseSignal(p) \/ ToSendNoId(p)
           \/ \E c \in Calls : UserCall(c)
           \/ AskEnable
           \/ UNCHANGED vars
    PROVE  UNCHANGED <<link, task, result>>
BY DEF User, Receive, DropReceiver, SignalClose, CloseSignal, ToSendNoId, UserCall, StartCall,
       RefuseCall, Answer, Emit, DropSender, Take, CloseStream, Cancel, AskEnable, vars,
       taskVars, endVars, linkVars

\* Handler::send has taken a packet and has nothing to say of it
LEMMA ListenWay ==
    ASSUME TypeOK, NEW p \in Peers, Recv(p), Arrives(p, Kinds),
           link' = [link EXCEPT ![Other(p)] = Tail(@)], UNCHANGED result,
           NEW t, t.at # "write", task' = task \/ task' = [task EXCEPT ![p] = t],
           NEW r \in Peers
    PROVE  WayOf(r)
<1>1. Arrived(p) # <<>> /\ task[p].at # "write" /\ Other(p) \in Peers
  BY TwoPeers DEF Arrives, Selecting
<1>2. task'[p].at # "write" /\ task'[Other(p)] = task[Other(p)]
  BY <1>1, TwoPeers DEF TypeOK, TaskTypeOK
<1>3. OnTheWay(p)' = OnTheWay(p)
  BY <1>1, <1>2, OwnWay
<1>4. Listens(p)
  BY <1>1, <1>2, HeardWay DEF Listens
<1> QED
  BY <1>3, <1>4, TwoPeers DEF WayOf

\* ... or has
LEMMA ReplyWay ==
    ASSUME TypeOK, NEW p \in Peers, RecvStream(p) \/ RecvMalformed(p), Arrives(p, Kinds),
           link' = [link EXCEPT ![Other(p)] = Tail(@)], UNCHANGED result,
           NEW m \in Packets, Goto(p, "write", m),
           NEW r \in Peers
    PROVE  WayOf(r)
<1>1. Arrived(p) # <<>> /\ task[p].at # "write" /\ result[p] = "running"
  BY DEF Arrives, Selecting
<1>2. task'[Other(p)] = task[Other(p)] /\ link'[p] = link[p]
  BY TwoPeers DEF Goto, TypeOK, TaskTypeOK, LinkTypeOK
<1>3. Listens(p)
  BY <1>1, <1>2, HeardWay DEF Listens, Recv
<1>4. Speaks(p, m)
  BY <1>1, <1>2, SaidWay DEF Speaks
<1> QED
  BY <1>3, <1>4, TwoPeers DEF WayOf

\* an arm says something without having received anything
LEMMA SpeakWay ==
    ASSUME TypeOK, NEW p \in Peers, NEW m \in Packets, Goto(p, "write", m),
           UNCHANGED <<link, result>>, result[p] = "running", task[p].at # "write",
           \/ ToSendRequest(p) \/ ToSendEnable(p) \/ (\E id \in Ids : ToSendUser(p, id))
           \/ DeliverMessage(p) \/ m.kind \in {"Ping", "Close"},
           NEW r \in Peers
    PROVE  WayOf(r)
<1>1. Speaks(p, m)
  BY SaidWay DEF Speaks
<1>2. CASE r # p
  <2>1. task'[r] = task[r]
    BY <1>2, TwoPeers DEF Goto, TypeOK, TaskTypeOK
  <2> QED
    BY <2>1, OtherWay DEF WayOf
<1> QED
  BY <1>1, <1>2 DEF WayOf

LEMMA WriteWay == ASSUME TypeOK, NEW p \in Peers, Write(p), NEW r \in Peers PROVE WayOf(r)
<1> DEFINE m == task[p].packet
<1>1. /\ Writing(p) /\ m \in Packets /\ link[p] \in Seq(Packets)
      /\ OnTheWay(p) = Append(link[p], m)
  BY WayType DEF Write
<1>2. /\ task'[p].at # "write" /\ task'[Other(p)] = task[Other(p)] /\ UNCHANGED result
      /\ link' = IF Hung(p) THEN link ELSE [link EXCEPT ![p] = Append(@, m)]
  BY TwoPeers DEF Write, Idle, endVars, TypeOK, TaskTypeOK
<1>3. OnTheWay(p)' = link'[p] \o <<>>
  BY <1>2 DEF OnTheWay, InHand, Writing
<1>4. CASE r # p
  <2>1. link'[r] = link[r] /\ task'[r] = task[r]
    BY <1>2, <1>4, TwoPeers DEF TypeOK, LinkTypeOK
  <2> QED
    BY <1>2, <2>1, OtherWay DEF WayOf
<1>5. CASE r = p /\ ~Hung(p)
  <2>1. link'[p] = Append(link[p], m)
    BY <1>2, <1>5 DEF TypeOK, LinkTypeOK
  <2>2. OnTheWay(p)' = OnTheWay(p)
    BY <1>1, <1>3, <2>1
  <2> QED
    BY <1>5, <2>2 DEF WayOf
<1>6. CASE r = p /\ Hung(p)
  <2>1. OnTheWay(p)' = link[p] \o <<>> /\ OnTheWay(p) = link[p] \o InHand(p)
    BY <1>2, <1>3, <1>6 DEF OnTheWay
  <2>2. Within(link[p], link[p]) /\ Within(<<>>, InHand(p)) /\ InHand(p) \in Seq(Packets)
    BY WayType, WithinPackets
  <2>3. Within(OnTheWay(p)', OnTheWay(p))
    BY <1>1, <2>1, <2>2, WithinPackets
  <2>4. Lost(p)
    BY <1>2, <1>6 DEF Hung, Lost
  <2> QED
    BY <1>6, <2>3, <2>4 DEF WayOf, CutOff
<1> QED
  BY <1>4, <1>5, <1>6

LEMMA WriteCloseWay ==
    ASSUME TypeOK, NEW p \in Peers, WriteClose(p), NEW r \in Peers
    PROVE  WayOf(r)
<1> DEFINE m == task[p].packet
           q == Other(p)
<1>1. /\ Writing(p) /\ m \in Packets /\ link[p] \in Seq(Packets)
      /\ OnTheWay(p) = Append(link[p], m)
  BY WayType DEF WriteClose
<1>2. /\ task'[p] = Idle /\ task'[q] = task[q] /\ result'[p] = "Ok" /\ result'[q] = result[q]
      /\ q \in Peers /\ q # p
  BY TwoPeers DEF WriteClose, End, TypeOK, TaskTypeOK
<1>3. /\ link'[p] = IF broken \/ Hung(p) THEN link[p] ELSE Append(link[p], m)
      /\ link'[q] = <<>>
  BY <1>2, TwoPeers DEF WriteClose, HangUp, TypeOK, LinkTypeOK
<1>4. OnTheWay(p)' = link'[p] \o <<>>
  BY <1>2 DEF OnTheWay, InHand, Writing, Idle
<1>5. CASE r = q
  <2>1. InHand(q)' = InHand(q) /\ link[q] \in Seq(Packets) /\ InHand(q) \in Seq(Packets)
    BY <1>2, WayType DEF InHand, Writing
  <2>2. Within(<<>>, link[q]) /\ Within(InHand(q), InHand(q)) /\ <<>> \in Seq(Packets)
    BY <2>1, WithinPackets
  <2>3. Within(OnTheWay(q)', OnTheWay(q))
    BY <1>3, <2>1, <2>2, WithinPackets DEF OnTheWay
  <2>4. Lost(q)
    BY <1>2, TwoPeers DEF Lost
  <2> QED
    BY <1>5, <2>3, <2>4 DEF WayOf, CutOff
<1>6. CASE r = p /\ ~broken /\ ~Hung(p)
  <2>1. OnTheWay(p)' = OnTheWay(p)
    BY <1>1, <1>3, <1>4, <1>6
  <2> QED
    BY <1>6, <2>1 DEF WayOf
<1>7. CASE r = p /\ (broken \/ Hung(p))
  <2>1. OnTheWay(p)' = link[p] \o <<>> /\ OnTheWay(p) = link[p] \o InHand(p)
    BY <1>3, <1>4, <1>7 DEF OnTheWay
  <2>2. Within(link[p], link[p]) /\ Within(<<>>, InHand(p)) /\ InHand(p) \in Seq(Packets)
    BY WayType, WithinPackets
  <2>3. Within(OnTheWay(p)', OnTheWay(p))
    BY <1>1, <2>1, <2>2, WithinPackets
  <2>4. Lost(p)
    BY <1>2, <1>7 DEF Hung, Lost, WriteClose
  <2> QED
    BY <1>7, <2>3, <2>4 DEF WayOf, CutOff
<1> QED
  BY <1>5, <1>6, <1>7, TwoPeers

\* the byte stream fails, or is replaced by another
LEMMA BreakWay ==
    ASSUME TypeOK, Ended, Break \/ Reconnect, NEW r \in Peers
    PROVE  WayOf(r)
<1>1. link'[r] = <<>> /\ (broken' \/ Reconnect) /\ task' = task
  BY DEF Break, Reconnect, taskVars
<1>2. InHand(r)' = InHand(r)
  <2>1. CASE Break
    BY <2>1 DEF Break, taskVars, endVars, InHand, Writing
  <2>2. CASE Reconnect
    <3>1. \A q \in Peers : result[q] # "running"
      BY <2>2 DEF Reconnect, Peers
    <3>2. task[r].at = "select"
      BY <3>1 DEF Ended
    <3> QED
      BY <1>1, <3>2 DEF InHand, Writing
  <2> QED
    BY <2>1, <2>2
<1>3. Within(<<>>, link[r]) /\ Within(InHand(r), InHand(r)) /\ <<>> \in Seq(Packets)
      /\ link[r] \in Seq(Packets) /\ InHand(r) \in Seq(Packets)
  BY WayType, WithinPackets
<1>4. Within(OnTheWay(r)', OnTheWay(r))
  BY <1>1, <1>2, <1>3, WithinPackets DEF OnTheWay
<1> QED
  BY <1>1, <1>4 DEF WayOf, CutOff, Lost

LEMMA RecvWay == ASSUME TypeOK, NEW p \in Peers, Recv(p), NEW r \in Peers PROVE WayOf(r)
<1> DEFINE m == Head(Arrived(p))
<1>1. Idle.at # "write" /\ [at |-> "deliver", packet |-> m].at # "write"
  BY DEF Idle
<1>2. ASSUME Arrives(p, Kinds) PROVE m \in Packets /\ m.id \in Ids
  BY <1>2, FirstArrived DEF Arrives, TypeOK, Packets
<1>3. \A kinds \in SUBSET Kinds : Arrives(p, kinds) => Arrives(p, Kinds)
  BY DEF Arrives
<1>4. CASE RecvRefused(p) \/ ReadFails(p)
  <2>1. PICK x : x # "running" /\ End(p, x)
    BY <1>4 DEF RecvRefused, ReadFails, Refusal
  <2>2. link' = link \/ link' = HangUp(p)
    BY <1>4 DEF RecvRefused, ReadFails, linkVars
  <2>3. task[p].at # "write"
    BY <1>4 DEF RecvRefused, ReadFails, Arrives, Selecting
  <2> QED
    BY <2>1, <2>2, <2>3, EndedWay DEF End, WayOf
<1>5. CASE RecvMalformed(p) /\ m.kind = "Response" /\ Refusal(p, m) # "none"
  <2>1. /\ "UnknownId" # "running" /\ End(p, "UnknownId") /\ link' = HangUp(p)
        /\ task[p].at # "write"
    BY <1>5 DEF RecvMalformed, Arrives, Selecting
  <2> QED
    BY <2>1, EndedWay DEF End, WayOf
<1>6. CASE RecvMalformed(p) /\ ~(m.kind = "Response" /\ Refusal(p, m) # "none")
  <2>1. /\ Arrives(p, Kinds) /\ link' = [link EXCEPT ![Other(p)] = Tail(@)] /\ UNCHANGED result
        /\ task' = task \/ Goto(p, "write", Control(Complaint(m.kind), m.id))
    <3>1. BadKinds \subseteq Kinds
      BY BoundAssumption DEF Kinds
    <3> QED
      BY <1>6, <3>1 DEF RecvMalformed, endVars, Arrives
  <2>2. Control(Complaint(m.kind), m.id) \in Packets
    BY <1>2, <2>1, ControlType DEF Complaint, Kinds, BodyKinds, RequestKinds
  <2>3. CASE task' = task
    BY <1>1, <2>1, <2>3, ListenWay
  <2> QED
    BY <1>6, <2>1, <2>2, <2>3, ReplyWay
<1>7. CASE RecvStream(p)
  <2>1. Arrives(p, Kinds) /\ link' = [link EXCEPT ![Other(p)] = Tail(@)] /\ UNCHANGED result
    BY <1>3, <1>7 DEF RecvStream, Accepts, endVars, Kinds, BodyKinds
  <2>2. Control("StreamClosed", m.id) \in Packets
    BY <1>2, <2>1, ControlType DEF Kinds, BodyKinds, RequestKinds
  <2>3. CASE Goto(p, "write", Control("StreamClosed", m.id))
    BY <1>7, <2>1, <2>2, <2>3, ReplyWay
  <2>4. CASE Goto(p, "deliver", m)
    BY <1>1, <2>1, <2>4, ListenWay DEF Goto
  <2> QED
    BY <1>7, <2>3, <2>4 DEF RecvStream
<1>8. CASE \/ RecvEnableServerRequests(p) \/ RecvRequest(p) \/ RecvAnswer(p)
           \/ RecvStreamClosed(p) \/ RecvClose(p) \/ RecvPing(p)
  <2>1. /\ Arrives(p, Kinds) /\ link' = [link EXCEPT ![Other(p)] = Tail(@)] /\ UNCHANGED result
        /\ task' = task \/ task' = [task EXCEPT ![p] = [at |-> "deliver", packet |-> m]]
    BY <1>3, <1>8 DEF RecvEnableServerRequests, RecvRequest, RecvAnswer, RecvStreamClosed,
       RecvClose, RecvPing, Accepts, Arrives, Goto, taskVars, endVars, Kinds, BodyKinds
  <2> QED
    BY <1>1, <2>1, ListenWay
<1> QED
  BY <1>4, <1>5, <1>6, <1>7, <1>8 DEF Recv

LEMMA DeliverWay == ASSUME TypeOK, NEW p \in Peers, Deliver(p), NEW r \in Peers PROVE WayOf(r)
<1> DEFINE m == task[p].packet
<1>1. m \in Packets /\ m.id \in Ids /\ Idle.at # "write"
  BY WayType DEF Packets, Idle
<1>2. task[p].at # "write" /\ result[p] = "running" /\ UNCHANGED <<link, result>>
  BY DEF Deliver, DeliverRequest, DeliverToNobody, DeliverMessage, Delivering, endVars, linkVars
<1>3. CASE task' = [task EXCEPT ![p] = Idle]
  BY <1>1, <1>2, <1>3, SilentWay DEF WayOf
<1>4. CASE DeliverMessage(p) /\ Goto(p, "write", Control("StreamClosed", m.id))
  <2>1. Control("StreamClosed", m.id) \in Packets
    BY <1>1, ControlType DEF Kinds, BodyKinds, RequestKinds
  <2> QED
    BY <1>2, <1>4, <2>1, SpeakWay
<1> QED
  BY <1>3, <1>4 DEF Deliver, DeliverRequest, DeliverToNobody, DeliverMessage

LEMMA ArmWay ==
    ASSUME TypeOK, NEW p \in Peers, ToSend(p) \/ Ping(p) \/ CloseSignal(p) \/ Finish(p),
           NEW r \in Peers
    PROVE  WayOf(r)
<1>1. CASE CloseSignal(p) \/ ToSendNoId(p)
  <2>1. UNCHANGED <<link, task, result>>
    BY <1>1, UserWay
  <2> QED
    BY <2>1, OtherWay DEF WayOf
<1>2. CASE ToSendDuplicate(p)
  <2>1. /\ "Join" # "running" /\ End(p, "Join") /\ link' = HangUp(p)
        /\ task[p].at # "write"
    BY <1>2 DEF ToSendDuplicate, HasRequest, Selecting
  <2> QED
    BY <2>1, EndedWay DEF End, WayOf
<1>3. CASE Finish(p) /\ ~close_packet[p]
  <2>1. /\ "Ok" # "running" /\ End(p, "Ok") /\ link' = HangUp(p)
        /\ task[p].at # "write"
    BY <1>3 DEF Finish, Selecting
  <2> QED
    BY <2>1, EndedWay DEF End, WayOf
<1>4. CASE \/ ToSendEnable(p) \/ ToSendRequest(p) \/ (\E id \in Ids : ToSendUser(p, id))
           \/ Ping(p) \/ (Finish(p) /\ close_packet[p])
  <2>1. /\ UNCHANGED <<link, result>> /\ result[p] = "running" /\ task[p].at # "write"
    BY <1>4 DEF ToSendEnable, ToSendRequest, ToSendUser, Ping, Finish, HasRequest, Selecting,
       endVars, linkVars
  <2>2. /\ task'[p].packet \in Packets /\ Goto(p, "write", task'[p].packet)
        /\ \/ ToSendEnable(p) \/ ToSendRequest(p) \/ (\E id \in Ids : ToSendUser(p, id))
           \/ task'[p].packet.kind \in {"Ping", "Close"}
    <3>1. TypeOK'
      BY <1>4, ToSendEnableType, ToSendRequestType, ToSendUserType, PingType, FinishType
    <3>2. ASSUME NEW m, Goto(p, "write", m)
          PROVE  m \in Packets /\ task'[p].packet = m
      BY <3>1, <3>2 DEF Goto, TypeOK, TaskTypeOK, Tasks
    <3>3. CASE Ping(p) \/ (Finish(p) /\ close_packet[p])
      <4>1. \E m : Goto(p, "write", m) /\ m.kind \in {"Ping", "Close"}
        BY <3>3 DEF Ping, Finish, Control, Packet
      <4> QED
        BY <3>2, <4>1
    <3>4. CASE ToSendEnable(p) \/ ToSendRequest(p) \/ (\E id \in Ids : ToSendUser(p, id))
      <4>1. \E m : Goto(p, "write", m)
        BY <3>4 DEF ToSendEnable, ToSendRequest, ToSendUser
      <4> QED
        BY <3>2, <3>4, <4>1
    <3> QED
      BY <1>4, <3>3, <3>4
  <2> QED
    BY <1>4, <2>1, <2>2, SpeakWay
<1> QED
  BY <1>1, <1>2, <1>3, <1>4 DEF ToSend

LEMMA SendWay == ASSUME TypeOK, NEW p \in Peers, Send(p), NEW r \in Peers PROVE WayOf(r)
<1>1. CASE WriteFails(p)
  <2>1. "Io" # "running" /\ "Io" # "Ok" /\ End(p, "Io") /\ link' = HangUp(p)
    BY <1>1 DEF WriteFails
  <2> QED
    BY <2>1, EndedWay DEF End, WayOf
<1> QED
  BY <1>1, WriteWay, WriteCloseWay DEF Send

\* Every step: what is on the way stays, is added to, is heard, or is lost for a reason.
LEMMA WayFlow == ASSUME TypeOK, Ended, [Next]_vars, NEW r \in Peers PROVE WayOf(r)
<1>1. CASE \/ \E p \in Peers : User(p)
           \/ \E c \in Calls : UserCall(c)
           \/ AskEnable
           \/ UNCHANGED vars
  <2>1. UNCHANGED <<link, task, result>>
    BY <1>1, UserWay
  <2> QED
    BY <2>1, OtherWay DEF WayOf
<1> QED
  BY <1>1, BreakWay, RecvWay, DeliverWay, ArmWay, SendWay DEF Next, Task

-----------------------------------------------------------------------------
(* The queue of the Sender handles *)

\* what becomes of rx_requests[p]
QueueOf(p) ==
    \/ rx_requests'[p] = rx_requests[p]
    \/ \E x \in Calls \cup {Enable} :
          /\ rx_requests'[p] = Append(rx_requests[p], x)
          /\ \/ x = Enable /\ AskEnable /\ p = "client"
             \/ x \in Calls /\ StartCall(x) /\ CallerOf[x] = p
    \/ /\ rx_requests[p] # <<>> /\ rx_requests'[p] = Tail(rx_requests[p])
       /\ ToSendEnable(p) \/ ToSendRequest(p) \/ ToSendNoId(p)
    \/ rx_requests'[p] = <<>> /\ DropHandler(p)

LEMMA QueueType == TypeOK => /\ rx_requests \in [Peers -> Seq(Calls \cup {Enable})]
                             /\ tx_requests \in [Peers -> Seq(Calls \cup {Enable})]
BY DEF TypeOK, QueueTypeOK, Queues

LEMMA QueueEnds ==
    ASSUME TypeOK, NEW p \in Peers, NEW x, End(p, x), NEW r \in Peers
    PROVE  QueueOf(r)
<1>1. CASE KeepsHandler(p, x)
  BY <1>1 DEF End, queueVars, QueueOf
<1>2. CASE ~KeepsHandler(p, x)
  <2>1. DropHandler(p) /\ rx_requests' = [rx_requests EXCEPT ![p] = <<>>]
    BY <1>2 DEF End, DropHandler
  <2> QED
    BY <2>1, QueueType DEF QueueOf
<1> QED
  BY <1>1, <1>2

LEMMA QueueFlow == ASSUME TypeOK, [Next]_vars, NEW r \in Peers PROVE QueueOf(r)
<1>1. CASE AskEnable \/ \E c \in Calls : StartCall(c)
  <2>1. CASE AskEnable
    BY <2>1, QueueType DEF AskEnable, QueueOf
  <2>2. ASSUME NEW c \in Calls, StartCall(c) PROVE QueueOf(r)
    <3>1. rx_requests' = [rx_requests EXCEPT ![CallerOf[c]] = Append(@, c)]
      BY <2>2 DEF StartCall
    <3> QED
      BY <2>2, <3>1, QueueType, Basics DEF QueueOf
  <2> QED
    BY <1>1, <2>1, <2>2
<1>2. ASSUME NEW p \in Peers, ToSendEnable(p) \/ ToSendRequest(p) \/ ToSendNoId(p)
      PROVE  QueueOf(r)
  <2>1. /\ rx_requests[p] # <<>> /\ rx_requests' = [rx_requests EXCEPT ![p] = Tail(@)]
    BY <1>2 DEF ToSendEnable, ToSendRequest, ToSendNoId, HasRequest, TakeRequest
  <2> QED
    BY <1>2, <2>1, QueueType DEF QueueOf
<1>3. ASSUME NEW p \in Peers, NEW x, End(p, x) PROVE QueueOf(r)
  BY <1>3, QueueEnds
<1>4. CASE rx_requests' = rx_requests
  BY <1>4 DEF QueueOf
<1>5. ASSUME NEW p \in Peers, Recv(p)
      PROVE  rx_requests' = rx_requests \/ \E x : End(p, x)
  BY <1>5 DEF Recv, RecvRefused, RecvEnableServerRequests, RecvRequest, RecvAnswer, RecvStream,
     RecvStreamClosed, RecvClose, RecvPing, RecvMalformed, ReadFails, queueVars
<1>6. ASSUME NEW p \in Peers, Deliver(p) \/ Send(p) \/ Ping(p) \/ CloseSignal(p) \/ Finish(p)
      PROVE  rx_requests' = rx_requests \/ \E x : End(p, x)
  BY <1>6 DEF Deliver, DeliverRequest, DeliverToNobody, DeliverMessage, Send, Write, WriteFails,
     WriteClose, Ping, CloseSignal, Finish, queueVars
<1>7. ASSUME NEW p \in Peers, ToSend(p)
      PROVE  \/ ToSendEnable(p) \/ ToSendRequest(p) \/ ToSendNoId(p)
             \/ rx_requests' = rx_requests \/ \E x : End(p, x)
  BY <1>7 DEF ToSend, ToSendUser, ToSendDuplicate, queueVars
<1>8. ASSUME NEW p \in Peers, User(p) PROVE rx_requests' = rx_requests
  BY <1>8 DEF User, Receive, DropReceiver, SignalClose, queueVars
<1>9. ASSUME NEW c \in Calls, UserCall(c) PROVE StartCall(c) \/ rx_requests' = rx_requests
  BY <1>9 DEF UserCall, RefuseCall, Answer, Emit, DropSender, Take, CloseStream, Cancel, queueVars
<1>10. Break \/ Reconnect \/ UNCHANGED vars => rx_requests' = rx_requests
  BY DEF Break, Reconnect, vars, queueVars
<1> QED
  BY <1>1, <1>2, <1>3, <1>4, <1>5, <1>6, <1>7, <1>8, <1>9, <1>10 DEF Next, Task

-----------------------------------------------------------------------------
(* The requests on their way to the Receiver of a user *)

\* what becomes of Handed(p)
HandedOf(p) ==
    \/ Handed(p)' = Handed(p)
    \/ /\ Receive(p) /\ Handed(p) # <<>> /\ Handed(p)' = Tail(Handed(p))
       /\ Head(Handed(p)) = Head(tx_requests[p])
    \/ /\ RecvRequest(p) \/ RecvEnableServerRequests(p)
       /\ Handed(p)' = Append(Handed(p), Item(Head(Arrived(p))))
    \/ /\ DropReceiver(p) \/ DeliverToNobody(p) \/ (Reconnect /\ p = "server")
       /\ Within(Handed(p)', Handed(p))

InDelivery(p) ==
    IF Delivering(p) /\ task[p].packet.kind # "Stream" THEN <<Item(task[p].packet)>> ELSE <<>>

LEMMA HandedType ==
    ASSUME TypeOK, NEW p \in Peers
    PROVE  /\ InDelivery(p) \in Seq(Calls \cup {Enable}) /\ tx_requests[p] \in Seq(Calls \cup {Enable})
           /\ Handed(p) = tx_requests[p] \o InDelivery(p)
           /\ Handed(p)' = tx_requests'[p] \o InDelivery(p)'
           /\ Handed(p) \in Seq(Calls \cup {Enable})
<1>1. tx_requests[p] \in Seq(Calls \cup {Enable})
  BY QueueType
<1>2. InDelivery(p) \in Seq(Calls \cup {Enable})
  <2>1. CASE Delivering(p) /\ task[p].packet.kind # "Stream"
    <3>1. task[p].packet \in Packets /\ task[p].packet.kind \in RequestKinds \cup {"EnableServerRequests"}
      BY <2>1 DEF Delivering, TypeOK, TaskTypeOK, Tasks, Delivered
    <3>2. Item(task[p].packet) \in Calls \cup {Enable}
      BY <3>1 DEF Item, Packets, BodyKinds
    <3> QED
      BY <2>1, <3>2 DEF InDelivery
  <2> QED
    BY <2>1 DEF InDelivery
<1> QED
  BY <1>1, <1>2 DEF Handed, InDelivery

LEMMA WithinQueues ==
    LET Queue == Seq(Calls \cup {Enable}) IN
    /\ <<>> \in Queue
    /\ \A s \in Queue : Within(s, s) /\ Within(<<>>, s)
    /\ \A a, b, c, d \in Queue : Within(c, a) /\ Within(d, b) => Within(c \o d, a \o b)
<1> DEFINE Queue == Seq(Calls \cup {Enable})
<1>1. ASSUME NEW s \in Queue PROVE Within(s, s) /\ Within(<<>>, s)
  BY WithinSelf
<1>2. ASSUME NEW a \in Queue, NEW b \in Queue, NEW c \in Queue, NEW d \in Queue,
             Within(c, a), Within(d, b)
      PROVE  Within(c \o d, a \o b)
  BY <1>2, WithinBoth
<1>3. <<>> \in Queue
  OBVIOUS
<1> QED
  BY <1>1, <1>2, <1>3

\* the task of another, or one that does not deliver, leaves it alone
LEMMA HandedStays ==
    ASSUME NEW p \in Peers, tx_requests'[p] = tx_requests[p],
           \/ task'[p] = task[p] /\ result'[p] = result[p]
           \/ /\ task[p].at # "deliver" \/ (task[p].packet.kind = "Stream" /\ Delivering(p))
              /\ task'[p].at # "deliver" \/ task'[p].packet.kind = "Stream"
    PROVE  Handed(p)' = Handed(p)
BY DEF Handed, Delivering

LEMMA HandedEnds ==
    ASSUME TypeOK, NEW p \in Peers, NEW x, End(p, x), task[p].at # "deliver", NEW r \in Peers
    PROVE  HandedOf(r)
<1>1. UNCHANGED tx_requests
  BY DEF End, DropHandler, queueVars, userQueueVars, receiverVars
<1>2. CASE r = p
  <2>1. task'[p].at # "deliver"
    BY DEF End, Idle, TypeOK, TaskTypeOK
  <2> QED
    BY <1>1, <1>2, <2>1, HandedStays DEF HandedOf
<1>3. CASE r # p
  <2>1. task'[r] = task[r] /\ result'[r] = result[r]
    BY <1>3 DEF End, TypeOK, TaskTypeOK
  <2> QED
    BY <1>1, <2>1, HandedStays DEF HandedOf
<1> QED
  BY <1>2, <1>3

LEMMA ReceiveHanded ==
    ASSUME TypeOK, NEW p \in Peers, Receive(p) \/ DropReceiver(p), NEW r \in Peers
    PROVE  HandedOf(r)
<1>1. UNCHANGED <<task, result>>
  BY DEF Receive, DropReceiver, taskVars, endVars
<1>2. InDelivery(r)' = InDelivery(r)
  BY <1>1 DEF InDelivery, Delivering, Item
<1>3. CASE r # p
  <2>1. tx_requests'[r] = tx_requests[r]
    BY <1>3, QueueType DEF Receive, DropReceiver
  <2> QED
    BY <1>1, <2>1, HandedStays DEF HandedOf
<1>4. CASE r = p /\ Receive(p)
  <2>1. tx_requests[p] # <<>> /\ tx_requests'[p] = Tail(tx_requests[p])
    BY <1>4, QueueType DEF Receive
  <2>2. ASSUME NEW a \in Seq(Calls \cup {Enable}), NEW b \in Seq(Calls \cup {Enable}), a # <<>>
        PROVE  a \o b # <<>> /\ Tail(a \o b) = Tail(a) \o b /\ Head(a \o b) = Head(a)
    BY <2>2
  <2>3. /\ Handed(p) # <<>> /\ Handed(p)' = Tail(Handed(p))
        /\ Head(Handed(p)) = Head(tx_requests[p])
    <3>1. /\ Handed(p) = tx_requests[p] \o InDelivery(p)
          /\ Handed(p)' = Tail(tx_requests[p]) \o InDelivery(p)
          /\ tx_requests[p] \in Seq(Calls \cup {Enable})
          /\ InDelivery(p) \in Seq(Calls \cup {Enable})
      BY <1>2, <1>4, <2>1, HandedType
    <3> QED
      BY <2>1, <2>2, <3>1
  <2> QED
    BY <1>4, <2>3 DEF HandedOf
<1>5. CASE r = p /\ DropReceiver(p)
  <2>1. tx_requests'[p] = <<>>
    BY <1>5, QueueType DEF DropReceiver
  <2>2. /\ Within(<<>>, tx_requests[p]) /\ Within(InDelivery(p), InDelivery(p))
        /\ <<>> \in Seq(Calls \cup {Enable})
    BY HandedType, WithinQueues
  <2>3. Within(Handed(p)', Handed(p))
    BY <1>2, <1>5, <2>1, <2>2, HandedType, WithinQueues
  <2> QED
    BY <1>5, <2>3 DEF HandedOf
<1> QED
  BY <1>3, <1>4, <1>5

LEMMA OneTask ==
    ASSUME TypeOK, NEW p \in Peers, NEW r \in Peers, r # p, NEW t,
           task' = task \/ task' = [task EXCEPT ![p] = t]
    PROVE  task'[r] = task[r]
BY DEF TypeOK, TaskTypeOK

LEMMA RecvHanded ==
    ASSUME TypeOK, NEW p \in Peers, Recv(p), NEW r \in Peers PROVE HandedOf(r)
<1> DEFINE m == Head(Arrived(p))
<1>0. CASE \E x : End(p, x)
  <2>1. task[p].at # "deliver"
    BY DEF Recv, RecvRefused, RecvEnableServerRequests, RecvRequest, RecvAnswer, RecvStream,
     RecvStreamClosed, RecvClose, RecvPing, RecvMalformed, ReadFails, Accepts, Arrives, Selecting
  <2> QED
    BY <1>0, <2>1, HandedEnds
<1>1. CASE ~\E x : End(p, x)
  <2>1. /\ Arrives(p, Kinds) /\ UNCHANGED <<tx_requests, result>>
    <3>1. BadKinds \subseteq Kinds /\ RequestKinds \subseteq Kinds
      BY BoundAssumption DEF Kinds, BodyKinds
    <3> QED
      BY <1>1, <3>1 DEF Recv, RecvRefused, RecvEnableServerRequests, RecvRequest, RecvAnswer,
         RecvStream, RecvStreamClosed, RecvClose, RecvPing, RecvMalformed, ReadFails, Accepts,
         Arrives, queueVars, userQueueVars, receiverVars, taskVars, endVars, Kinds, BodyKinds
  <2>2. \/ task' = task
        \/ Goto(p, "write", Control("StreamClosed", m.id))
        \/ Goto(p, "write", Control(Complaint(m.kind), m.id))
        \/ RecvStream(p) /\ m.kind = "Stream" /\ Goto(p, "deliver", m)
        \/ RecvRequest(p) /\ Goto(p, "deliver", m)
        \/ RecvEnableServerRequests(p) /\ Goto(p, "deliver", m)
    BY <1>1 DEF Recv, RecvRefused, RecvEnableServerRequests, RecvRequest, RecvAnswer,
         RecvStream, RecvStreamClosed, RecvClose, RecvPing, RecvMalformed, ReadFails, Accepts,
         Arrives, taskVars
  <2>3. /\ task[p].at # "deliver" /\ result[p] = "running" /\ m \in Packets
        /\ m.kind \in BodyKinds => m.call \in Calls
    BY <2>1, FirstArrived DEF Arrives, Selecting, TypeOK, Packets
  <2>4. CASE r # p
    <3>1. task'[r] = task[r]
      BY <2>2, <2>4, OneTask DEF Goto
    <3> QED
      BY <2>1, <3>1, HandedStays DEF HandedOf
  <2>5. CASE r = p /\ task' = task
    BY <2>1, <2>5, HandedStays DEF HandedOf
  <2>6. CASE r = p /\ \/ Goto(p, "write", Control("StreamClosed", m.id))
                      \/ Goto(p, "write", Control(Complaint(m.kind), m.id))
                      \/ m.kind = "Stream" /\ Goto(p, "deliver", m)
    <3>1. task'[p].at # "deliver" \/ task'[p].packet.kind = "Stream"
      BY <2>6 DEF Goto, TypeOK, TaskTypeOK
    <3> QED
      BY <2>1, <2>3, <2>6, <3>1, HandedStays DEF HandedOf
  <2>7. CASE r = p /\ (RecvRequest(p) \/ RecvEnableServerRequests(p)) /\ Goto(p, "deliver", m)
    <3>1. task'[p] = [at |-> "deliver", packet |-> m] /\ result'[p] = "running"
      BY <2>1, <2>3, <2>7 DEF Goto, TypeOK, TaskTypeOK
    <3>2. m.kind # "Stream" /\ Item(m) \in Calls \cup {Enable}
      BY <2>3, <2>7 DEF RecvRequest, RecvEnableServerRequests, Accepts, Arrives, RequestKinds,
         BodyKinds, Item
    <3>3. InDelivery(p) = <<>> /\ InDelivery(p)' = <<Item(m)>>
      BY <2>3, <3>1, <3>2 DEF InDelivery, Delivering, Item
    <3>4. tx_requests'[p] = tx_requests[p] /\ tx_requests[p] \in Seq(Calls \cup {Enable})
      BY <2>1, QueueType
    <3>5. Handed(p) = tx_requests[p] \o <<>> /\ Handed(p)' = tx_requests[p] \o <<Item(m)>>
      BY <3>3, <3>4, HandedType
    <3>6. Handed(p)' = Append(Handed(p), Item(m))
      BY <3>2, <3>4, <3>5
    <3> QED
      BY <2>7, <3>6 DEF HandedOf
  <2> QED
    BY <2>2, <2>4, <2>5, <2>6, <2>7
<1> QED
  BY <1>0, <1>1

LEMMA DeliverHanded ==
    ASSUME TypeOK, NEW p \in Peers, Deliver(p), NEW r \in Peers PROVE HandedOf(r)
<1> DEFINE m == task[p].packet
<1>1. Delivering(p) /\ UNCHANGED result /\ tx_requests[p] \in Seq(Calls \cup {Enable})
      /\ tx_requests \in [Peers -> Seq(Calls \cup {Enable})]
  BY QueueType DEF Deliver, DeliverRequest, DeliverToNobody, DeliverMessage, endVars
<1>2. CASE r # p
  <2>1. task'[r] = task[r]
    BY <1>2, OneTask DEF Deliver, DeliverRequest, DeliverToNobody, DeliverMessage, Goto
  <2>2. tx_requests'[r] = tx_requests[r]
    BY <1>1, <1>2 DEF Deliver, DeliverRequest, DeliverToNobody, DeliverMessage, queueVars,
       userQueueVars, receiverVars
  <2> QED
    BY <1>1, <2>1, <2>2, HandedStays DEF HandedOf
<1>3. CASE r = p /\ DeliverMessage(p)
  <2>1. task'[p].at # "deliver"
    BY <1>3 DEF DeliverMessage, Goto, Idle, TypeOK, TaskTypeOK
  <2> QED
    BY <1>1, <1>3, <2>1, HandedStays
       DEF HandedOf, DeliverMessage, queueVars, userQueueVars, receiverVars
<1>4. CASE r = p /\ (DeliverRequest(p) \/ DeliverToNobody(p))
  <2>1. /\ m.kind # "Stream" /\ task'[p] = Idle
        /\ tx_requests'[p] = (IF DeliverRequest(p) THEN Append(tx_requests[p], Item(m))
                              ELSE tx_requests[p])
    BY <1>1, <1>4 DEF DeliverRequest, DeliverToNobody, TypeOK, TaskTypeOK, receiverVars
  <2>2. InDelivery(p) = <<Item(m)>> /\ InDelivery(p)' = <<>> /\ Item(m) \in Calls \cup {Enable}
    <3>1. InDelivery(p) = <<Item(m)>> /\ InDelivery(p)' = <<>>
      BY <1>1, <2>1 DEF InDelivery, Delivering, Idle
    <3>2. InDelivery(p) \in Seq(Calls \cup {Enable})
      BY HandedType
    <3>3. ASSUME NEW i, <<i>> \in Seq(Calls \cup {Enable}) PROVE i \in Calls \cup {Enable}
      <4>1. <<i>>[1] = i /\ 1 \in 1 .. Len(<<i>>)
        OBVIOUS
      <4> QED
        BY <3>3, <4>1, Element
    <3> QED
      BY <3>1, <3>2, <3>3
  <2>3. CASE DeliverRequest(p)
    <3>1. Handed(p)' = Append(tx_requests[p], Item(m)) \o <<>>
          /\ Handed(p) = tx_requests[p] \o <<Item(m)>>
      BY <2>1, <2>2, <2>3, HandedType
    <3> QED
      BY <1>1, <1>4, <2>2, <3>1 DEF HandedOf
  <2>4. CASE ~DeliverRequest(p)
    <3>1. Handed(p)' = tx_requests[p] \o <<>> /\ Handed(p) = tx_requests[p] \o InDelivery(p)
      BY <2>1, <2>2, <2>4, HandedType
    <3>2. /\ Within(tx_requests[p], tx_requests[p]) /\ Within(<<>>, InDelivery(p))
          /\ <<>> \in Seq(Calls \cup {Enable}) /\ InDelivery(p) \in Seq(Calls \cup {Enable})
      BY HandedType, WithinQueues
    <3>3. Within(Handed(p)', Handed(p))
      BY <1>1, <3>1, <3>2, WithinQueues
    <3> QED
      BY <1>4, <2>4, <3>3 DEF HandedOf
  <2> QED
    BY <2>3, <2>4
<1> QED
  BY <1>2, <1>3, <1>4 DEF Deliver

LEMMA ReconnectHanded ==
    ASSUME TypeOK, Ended, Reconnect, NEW r \in Peers PROVE HandedOf(r)
<1>1. task[r].at = "select" /\ task' = task
  BY DEF Reconnect, Ended, Peers
<1>2. CASE r # "server"
  <2>1. tx_requests'[r] = tx_requests[r]
    BY <1>2, QueueType DEF Reconnect
  <2> QED
    BY <1>1, <2>1, HandedStays DEF HandedOf
<1>3. CASE r = "server"
  <2>1. tx_requests'[r] = <<>> /\ InDelivery(r)' = InDelivery(r)
    BY <1>1, <1>3, QueueType DEF Reconnect, InDelivery, Delivering
  <2>2. /\ Within(<<>>, tx_requests[r]) /\ Within(InDelivery(r), InDelivery(r))
        /\ <<>> \in Seq(Calls \cup {Enable})
    BY HandedType, WithinQueues
  <2>3. Within(Handed(r)', Handed(r))
    BY <2>1, <2>2, HandedType, WithinQueues
  <2> QED
    BY <1>3, <2>3 DEF HandedOf
<1> QED
  BY <1>2, <1>3

\* an arm that neither receives nor delivers
LEMMA ArmHanded ==
    ASSUME TypeOK, NEW p \in Peers, NEW r \in Peers,
           ToSend(p) \/ Ping(p) \/ CloseSignal(p) \/ Finish(p) \/ Send(p)
    PROVE  HandedOf(r)
<1>1. task[p].at # "deliver"
  BY DEF ToSend, ToSendUser, ToSendEnable, ToSendRequest, ToSendDuplicate, ToSendNoId, HasRequest,
     Ping, CloseSignal, Finish, Selecting, Send, Write, WriteFails, WriteClose, Writing
<1>2. CASE \E x : End(p, x)
  BY <1>1, <1>2, HandedEnds
<1>3. CASE ~\E x : End(p, x)
  <2>1. UNCHANGED <<tx_requests, result>>
    BY <1>3 DEF ToSend, ToSendUser, ToSendEnable, ToSendRequest, ToSendDuplicate, ToSendNoId,
     Ping, CloseSignal, Finish, Send, Write, WriteFails, WriteClose, queueVars, userQueueVars,
     receiverVars, taskVars, endVars
  <2>2. \/ task' = task \/ task' = [task EXCEPT ![p] = Idle]
        \/ \E m : task' = [task EXCEPT ![p] = [at |-> "write", packet |-> m]]
    BY <1>3 DEF ToSend, ToSendUser, ToSendEnable, ToSendRequest, ToSendDuplicate, ToSendNoId,
     Ping, CloseSignal, Finish, Send, Write, WriteFails, WriteClose, taskVars, Goto
  <2>3. r # p => task'[r] = task[r]
    BY <2>2, OneTask
  <2>4. task'[p].at # "deliver"
    BY <1>1, <2>2 DEF TypeOK, TaskTypeOK, Idle
  <2> QED
    BY <1>1, <2>1, <2>3, <2>4, HandedStays DEF HandedOf
<1> QED
  BY <1>2, <1>3

LEMMA HandedFlow == ASSUME TypeOK, Ended, [Next]_vars, NEW r \in Peers PROVE HandedOf(r)
<1>1. CASE \/ \E p \in Peers : SignalClose(p)
           \/ \E c \in Calls : UserCall(c)
           \/ AskEnable \/ Break \/ UNCHANGED vars
  <2>1. UNCHANGED <<tx_requests, task, result>>
    BY <1>1 DEF SignalClose, UserCall, StartCall, RefuseCall, Answer, Emit, DropSender, Take,
       CloseStream, Cancel, AskEnable, Break, vars, queueVars, userQueueVars, receiverVars,
       taskVars, endVars
  <2> QED
    BY <2>1, HandedStays DEF HandedOf
<1> QED
  BY <1>1, ReceiveHanded, RecvHanded, DeliverHanded, ArmHanded, ReconnectHanded
     DEF Next, User, Task

-----------------------------------------------------------------------------
(* The entries of the two tables *)

Arriving(p) == Head(Arrived(p))
Asking(p) == Head(rx_requests[p])

\* what becomes of waiting_on_user[p]
UserEntriesOf(p) ==
    \/ waiting_on_user'[p] = waiting_on_user[p]
    \/ /\ RecvRequest(p) /\ Arriving(p).kind # "RequestSender"
       /\ Arriving(p).id \in Ids /\ waiting_on_user[p][Arriving(p).id] = NoCall
       /\ waiting_on_user'[p] = [waiting_on_user[p] EXCEPT ![Arriving(p).id] = Arriving(p).call]
    \/ /\ ToSendRequest(p) /\ KindOf[Asking(p)] = "RequestSender"
       /\ next[p] \in Ids /\ waiting_on_user[p][next[p]] = NoCall
       /\ waiting_on_user'[p] = [waiting_on_user[p] EXCEPT ![next[p]] = Asking(p)]
    \/ \E id \in Ids :
          /\ ToSendUser(p, id) /\ Removed(waiting_on_user[p][id])
          /\ waiting_on_user'[p] = [waiting_on_user[p] EXCEPT ![id] = NoCall]
    \/ DropHandler(p) /\ result'[p] # "running" /\ waiting_on_user'[p] = EmptyTable

\* ... and of waiting_on_stream[p]
StreamEntriesOf(p) ==
    \/ waiting_on_stream'[p] = waiting_on_stream[p]
    \/ /\ RecvRequest(p) /\ Arriving(p).kind = "RequestSender"
       /\ Arriving(p).id \in Ids /\ waiting_on_stream[p][Arriving(p).id] = NoCall
       /\ waiting_on_stream'[p] = [waiting_on_stream[p] EXCEPT ![Arriving(p).id] = Arriving(p).call]
    \/ /\ ToSendRequest(p) /\ KindOf[Asking(p)] # "RequestSender"
       /\ next[p] \in Ids /\ waiting_on_stream[p][next[p]] = NoCall
       /\ waiting_on_stream'[p] = [waiting_on_stream[p] EXCEPT ![next[p]] = Asking(p)]
    \/ /\ RecvAnswer(p) \/ RecvStreamClosed(p) \/ (RecvMalformed(p) /\ Arriving(p).kind = "Response")
       /\ Arriving(p).id \in Ids
       /\ waiting_on_stream'[p] = [waiting_on_stream[p] EXCEPT ![Arriving(p).id] = NoCall]
    \/ /\ \/ CloseHandler(p)
          \/ DropHandler(p) /\ result'[p] # "running"
          \/ Reconnect /\ p = "client"
       /\ waiting_on_stream'[p] = EmptyTable

LEMMA TablesType == TypeOK => /\ waiting_on_user \in [Peers -> [Ids -> Calls \cup {NoCall}]]
                              /\ waiting_on_stream \in [Peers -> [Ids -> Calls \cup {NoCall}]]
BY DEF TypeOK, PeerTypeOK, Tables

LEMMA EntriesEnd ==
    ASSUME TypeOK, NEW p \in Peers, NEW x, x # "running", End(p, x), NEW r \in Peers
    PROVE  UserEntriesOf(r) /\ StreamEntriesOf(r)
<1>1. CASE KeepsHandler(p, x)
  BY <1>1 DEF End, peerVars, UserEntriesOf, StreamEntriesOf
<1>2. CASE ~KeepsHandler(p, x)
  <2>1. /\ DropHandler(p) /\ result'[p] # "running"
        /\ waiting_on_user' = [waiting_on_user EXCEPT ![p] = EmptyTable]
        /\ waiting_on_stream' = [waiting_on_stream EXCEPT ![p] = EmptyTable]
    BY <1>2 DEF End, DropHandler, TypeOK, TaskTypeOK
  <2> QED
    BY <2>1, TablesType DEF UserEntriesOf, StreamEntriesOf
<1> QED
  BY <1>1, <1>2

LEMMA EntriesClosed ==
    ASSUME TypeOK, NEW p \in Peers, CloseHandler(p), UNCHANGED waiting_on_user, NEW r \in Peers
    PROVE  UserEntriesOf(r) /\ StreamEntriesOf(r)
BY TablesType DEF CloseHandler, UserEntriesOf, StreamEntriesOf

LEMMA RequestEntries ==
    ASSUME TypeOK, NEW p \in Peers, RecvRequest(p), NEW r \in Peers
    PROVE  UserEntriesOf(r) /\ StreamEntriesOf(r)
<1> DEFINE m == Arriving(p)
<1>1. m \in Packets /\ m.kind \in RequestKinds /\ Refusal(p, m) = "none"
  BY FirstArrived DEF RecvRequest, Accepts, Arrives, Arriving, TypeOK
<1>2. m.id \in Ids
  BY <1>1 DEF Packets
<1>3. CASE m.kind = "RequestSender"
  <2>1. /\ waiting_on_stream' = [waiting_on_stream EXCEPT ![p][m.id] = m.call]
        /\ UNCHANGED waiting_on_user
    BY <1>3 DEF RecvRequest, Put, Arriving
  <2>2. waiting_on_stream[p][m.id] = NoCall
    BY <1>1, <1>3 DEF Refusal
  <2> QED
    BY <1>2, <1>3, <2>1, <2>2, TablesType DEF UserEntriesOf, StreamEntriesOf
<1>4. CASE m.kind # "RequestSender"
  <2>1. /\ waiting_on_user' = [waiting_on_user EXCEPT ![p][m.id] = m.call]
        /\ UNCHANGED waiting_on_stream
    BY <1>4 DEF RecvRequest, Put, Arriving
  <2>2. waiting_on_user[p][m.id] = NoCall
    BY <1>1, <1>4 DEF Refusal
  <2> QED
    BY <1>2, <1>4, <2>1, <2>2, TablesType DEF UserEntriesOf, StreamEntriesOf
<1> QED
  BY <1>3, <1>4

LEMMA CallEntries ==
    ASSUME TypeOK, NEW p \in Peers, ToSendRequest(p), NEW r \in Peers
    PROVE  /\ Asking(p) \in Calls /\ next[p] \in Ids
           /\ UserEntriesOf(r) /\ StreamEntriesOf(r)
<1> DEFINE c == Asking(p)
<1>1. c \in Calls /\ next[p] \in Ids
  BY TakeRequestType DEF ToSendRequest, Asking, TypeOK, PeerTypeOK, Ids, NoId
<1>2. CallTable(p, c)[next[p]] = NoCall
  BY DEF ToSendRequest, Duplicate, Asking
<1>3. CASE KindOf[c] = "RequestSender"
  <2>1. /\ waiting_on_user' = [waiting_on_user EXCEPT ![p][next[p]] = c]
        /\ UNCHANGED waiting_on_stream /\ waiting_on_user[p][next[p]] = NoCall
    BY <1>2, <1>3 DEF ToSendRequest, Put, Asking, CallTable
  <2> QED
    BY <1>1, <1>3, <2>1, TablesType DEF UserEntriesOf, StreamEntriesOf
<1>4. CASE KindOf[c] # "RequestSender"
  <2>1. /\ waiting_on_stream' = [waiting_on_stream EXCEPT ![p][next[p]] = c]
        /\ UNCHANGED waiting_on_user /\ waiting_on_stream[p][next[p]] = NoCall
    BY <1>2, <1>4 DEF ToSendRequest, Put, Asking, CallTable
  <2> QED
    BY <1>1, <1>4, <2>1, TablesType DEF UserEntriesOf, StreamEntriesOf
<1> QED
  BY <1>1, <1>3, <1>4

LEMMA AnswerEntries ==
    ASSUME TypeOK, NEW p \in Peers,
           RecvAnswer(p) \/ RecvStreamClosed(p) \/ RecvMalformed(p), NEW r \in Peers
    PROVE  UserEntriesOf(r) /\ StreamEntriesOf(r)
<1> DEFINE m == Arriving(p)
<1>1. CASE \E x : x # "running" /\ End(p, x)
  BY <1>1, EntriesEnd
<1>2. CASE ~\E x : x # "running" /\ End(p, x)
  <2>1. m \in Packets /\ m.id \in Ids
    BY FirstArrived DEF RecvAnswer, RecvStreamClosed, RecvMalformed, Accepts, Arrives, Arriving,
       TypeOK, Packets
  <2>2. /\ UNCHANGED waiting_on_user
        /\ \/ UNCHANGED waiting_on_stream
           \/ /\ waiting_on_stream' = [waiting_on_stream EXCEPT ![p][m.id] = NoCall]
              /\ RecvMalformed(p) => m.kind = "Response"
    BY <1>2 DEF RecvAnswer, RecvStreamClosed, RecvMalformed, Arriving, Put
  <2>3. ASSUME waiting_on_stream' = [waiting_on_stream EXCEPT ![p][m.id] = NoCall]
        PROVE  /\ waiting_on_stream'[p] = [waiting_on_stream[p] EXCEPT ![m.id] = NoCall]
               /\ r # p => waiting_on_stream'[r] = waiting_on_stream[r]
    BY <2>3, TablesType
  <2> QED
    BY <2>1, <2>2, <2>3 DEF UserEntriesOf, StreamEntriesOf
<1> QED
  BY <1>1, <1>2

LEMMA UserEntriesSent ==
    ASSUME TypeOK, NEW p \in Peers, NEW id \in Ids, ToSendUser(p, id), NEW r \in Peers
    PROVE  UserEntriesOf(r) /\ StreamEntriesOf(r)
<1>1. UNCHANGED waiting_on_stream
  BY DEF ToSendUser
<1>2. CASE UNCHANGED waiting_on_user
  BY <1>1, <1>2 DEF UserEntriesOf, StreamEntriesOf
<1>3. CASE /\ Removed(waiting_on_user[p][id])
           /\ waiting_on_user' = [waiting_on_user EXCEPT ![p][id] = NoCall]
  <2>1. /\ waiting_on_user'[p] = [waiting_on_user[p] EXCEPT ![id] = NoCall]
        /\ r # p => waiting_on_user'[r] = waiting_on_user[r]
    BY <1>3, TablesType
  <2> QED
    BY <1>1, <1>3, <2>1 DEF UserEntriesOf, StreamEntriesOf
<1> QED
  BY <1>2, <1>3 DEF ToSendUser, Put

LEMMA EntriesFlow ==
    ASSUME TypeOK, [Next]_vars, NEW r \in Peers PROVE UserEntriesOf(r) /\ StreamEntriesOf(r)
<1>1. CASE UNCHANGED <<waiting_on_stream, waiting_on_user>>
  BY <1>1 DEF UserEntriesOf, StreamEntriesOf
<1>2. CASE Reconnect
  BY <1>2, TablesType DEF Reconnect, CloseAllStarted, UserEntriesOf, StreamEntriesOf
<1>3. ASSUME NEW p \in Peers, Task(p)
      PROVE  \/ UNCHANGED <<waiting_on_stream, waiting_on_user>>
             \/ (\E x : x # "running" /\ End(p, x))
             \/ RecvRequest(p) \/ ToSendRequest(p) \/ RecvAnswer(p)
             \/ RecvStreamClosed(p) \/ RecvMalformed(p) \/ (\E id \in Ids : ToSendUser(p, id))
             \/ (CloseHandler(p) /\ UNCHANGED waiting_on_user)
  <2>1. CASE Recv(p)
    BY <2>1 DEF Recv, RecvRefused, RecvEnableServerRequests, RecvStream, RecvClose, RecvPing,
       ReadFails, peerVars, Refusal
  <2>2. CASE Deliver(p) \/ Send(p) \/ Ping(p) \/ CloseSignal(p) \/ Finish(p)
    BY <2>2 DEF Deliver, DeliverRequest, DeliverToNobody, DeliverMessage, Send, Write, WriteFails,
       WriteClose, Ping, CloseSignal, Finish, peerVars
  <2>3. CASE ToSend(p)
    BY <2>3 DEF ToSend, ToSendEnable, ToSendDuplicate, ToSendNoId, peerVars
  <2> QED
    BY <1>3, <2>1, <2>2, <2>3 DEF Task
<1>4. CASE \/ \E p \in Peers : User(p)
           \/ \E c \in Calls : UserCall(c)
           \/ AskEnable \/ Break \/ UNCHANGED vars
  BY <1>1, <1>4 DEF User, Receive, DropReceiver, SignalClose, UserCall, StartCall, RefuseCall,
     Answer, Emit, DropSender, Take, CloseStream, Cancel, AskEnable, Break, vars, peerVars
<1> QED
  BY <1>1, <1>2, <1>3, <1>4, EntriesEnd, EntriesClosed, RequestEntries, CallEntries,
     AnswerEntries, UserEntriesSent DEF Next

-----------------------------------------------------------------------------
(* A handle is heard, whatever happens: NoOrphan, over any number of reconnections *)

\* the receiving half of a channel stays closed
LEMMA ShutStays == ASSUME TypeOK, [Next]_vars, NEW c \in Calls, shut[c] PROVE shut'[c]
<1>1. ASSUME UNCHANGED shut \/ \E S : shut' = Shut(S) PROVE shut'[c]
  BY <1>1 DEF Shut, TypeOK, CallTypeOK
<1>2. ASSUME NEW p \in Peers, NEW x, End(p, x) PROVE UNCHANGED shut \/ \E S : shut' = Shut(S)
  BY <1>2 DEF End, DropHandler, callVars, handleVars, prodVars
<1>3. ASSUME NEW p \in Peers, Recv(p)
      PROVE  UNCHANGED shut \/ (\E S : shut' = Shut(S)) \/ \E x : End(p, x)
  BY <1>3 DEF Recv, RecvRefused, RecvEnableServerRequests, RecvRequest, RecvAnswer, RecvStream,
     RecvStreamClosed, RecvClose, CloseHandler, RecvPing, RecvMalformed, ReadFails, callVars,
     handleVars, prodVars
<1>4. ASSUME NEW p \in Peers, Deliver(p) \/ Send(p) \/ Ping(p) \/ CloseSignal(p) \/ Finish(p)
      PROVE  UNCHANGED shut \/ (\E S : shut' = Shut(S)) \/ \E x : End(p, x)
  BY <1>4 DEF Deliver, DeliverRequest, DeliverToNobody, DeliverMessage, Send, Write, WriteFails,
     WriteClose, Ping, CloseSignal, CloseHandler, Finish, callVars, handleVars, prodVars
<1>5. ASSUME NEW p \in Peers, ToSend(p)
      PROVE  UNCHANGED shut \/ (\E S : shut' = Shut(S)) \/ \E x : End(p, x)
  BY <1>5 DEF ToSend, ToSendUser, ToSendEnable, ToSendRequest, ToSendDuplicate, ToSendNoId,
     callVars, handleVars, prodVars
<1>6. CASE \/ \E p \in Peers : User(p)
           \/ \E d \in Calls : UserCall(d)
           \/ AskEnable \/ Break \/ UNCHANGED vars
  BY <1>1, <1>6 DEF User, Receive, DropReceiver, SignalClose, UserCall, StartCall, RefuseCall,
     Answer, Emit, DropSender, Take, CloseStream, Cancel, AskEnable, Break, vars, callVars,
     handleVars, prodVars
<1>7. CASE Reconnect
  BY <1>1, <1>7 DEF Reconnect, CloseAllStarted
<1> QED
  BY <1>1, <1>2, <1>3, <1>4, <1>5, <1>6, <1>7 DEF Next, Task

\* what becomes of the outcome of a call
LEMMA OutcomeFlow ==
    ASSUME TypeOK, [Next]_vars, NEW c \in Calls
    PROVE  \/ res'[c] = res[c]
           \/ StartCall(c) /\ res'[c] = "pending"
           \/ res[c] = "idle" /\ res'[c] = "AlreadyClosed"
           \/ /\ res[c] = "pending"
              /\ res'[c] \in {"TaskFailed", "Cancelled", "ResponsePacket", "Ok"}
           \/ /\ res[c] = "pending" /\ res'[c] \in {"NoResponse", "MalformedRequest"}
              /\ \E p \in Peers : /\ RecvAnswer(p) /\ Arriving(p).kind = res'[c]
                                  /\ waiting_on_stream[p][Arriving(p).id] = c
<1> DEFINE Goal == \/ res'[c] = res[c]
                   \/ StartCall(c) /\ res'[c] = "pending"
                   \/ res[c] = "idle" /\ res'[c] = "AlreadyClosed"
                   \/ /\ res[c] = "pending"
                      /\ res'[c] \in {"TaskFailed", "Cancelled", "ResponsePacket", "Ok"}
                   \/ /\ res[c] = "pending" /\ res'[c] \in {"NoResponse", "MalformedRequest"}
                      /\ \E p \in Peers : /\ RecvAnswer(p) /\ Arriving(p).kind = res'[c]
                                          /\ waiting_on_stream[p][Arriving(p).id] = c
<1>1. ASSUME UNCHANGED res \/ \E S : res' = Failed(S) PROVE Goal
  BY <1>1 DEF Failed, TypeOK, CallTypeOK
<1>2. ASSUME NEW p \in Peers, NEW x, End(p, x) PROVE UNCHANGED res \/ \E S : res' = Failed(S)
  BY <1>2 DEF End, DropHandler, callVars
<1>3. ASSUME NEW d, NEW v, res' = [res EXCEPT ![d] = v]
      PROVE  res'[c] = res[c] \/ (d = c /\ res'[c] = v)
  BY <1>3 DEF TypeOK, CallTypeOK
<1>4. ASSUME NEW p \in Peers, RecvAnswer(p) PROVE Goal
  <2> DEFINE m == Arriving(p)
             d == waiting_on_stream[p][m.id]
             v == IF m.kind = "Response" THEN "Ok" ELSE m.kind
  <2>1. \/ UNCHANGED res
        \/ res[d] = "pending" /\ res' = [res EXCEPT ![d] = v]
    BY <1>4 DEF RecvAnswer, Arriving
  <2>2. v \in {"Ok", "NoResponse", "MalformedRequest"} /\ (v # "Ok" => v = m.kind)
    BY <1>4 DEF RecvAnswer, Accepts, Arrives, Arriving
  <2>3. CASE UNCHANGED res
    BY <2>3
  <2>4. CASE res[d] = "pending" /\ res' = [res EXCEPT ![d] = v]
    <3> HIDE DEF d, v
    <3>1. res'[c] = res[c] \/ (d = c /\ res'[c] = v)
      BY <1>3, <2>4
    <3> QED
      BY <1>4, <2>2, <2>4, <3>1 DEF d
  <2> QED
    BY <2>1, <2>3, <2>4
<1>5. ASSUME NEW p \in Peers, RecvMalformed(p), ~\E x : End(p, x) PROVE Goal
  <2>1. \/ UNCHANGED res
        \/ \E d : res' = [res EXCEPT ![d] = IF @ = "pending" THEN "ResponsePacket" ELSE @]
    BY <1>5 DEF RecvMalformed
  <2> QED
    BY <1>1, <2>1 DEF TypeOK, CallTypeOK
<1>6. ASSUME NEW p \in Peers, Recv(p)
      PROVE  \/ UNCHANGED res \/ (\E S : res' = Failed(S)) \/ \E x : End(p, x)
             \/ RecvAnswer(p) \/ RecvMalformed(p)
  BY <1>6 DEF Recv, RecvRefused, RecvEnableServerRequests, RecvRequest, RecvStream,
     RecvStreamClosed, RecvClose, CloseHandler, RecvPing, ReadFails, callVars
<1>7. ASSUME NEW p \in Peers, Deliver(p) \/ Send(p) \/ Ping(p) \/ CloseSignal(p) \/ Finish(p)
      PROVE  UNCHANGED res \/ (\E S : res' = Failed(S)) \/ \E x : End(p, x)
  BY <1>7 DEF Deliver, DeliverRequest, DeliverToNobody, DeliverMessage, Send, Write, WriteFails,
     WriteClose, Ping, CloseSignal, CloseHandler, Finish, callVars
<1>8. ASSUME NEW p \in Peers, ToSend(p)
      PROVE  UNCHANGED res \/ (\E S : res' = Failed(S)) \/ \E x : End(p, x)
  BY <1>8 DEF ToSend, ToSendUser, ToSendEnable, ToSendRequest, ToSendDuplicate, ToSendNoId,
     callVars
<1>9. ASSUME NEW d \in Calls, UserCall(d) PROVE Goal
  <2>1. CASE StartCall(d)
    <3>1. res' = [res EXCEPT ![d] = "pending"]
      BY <2>1 DEF StartCall
    <3> QED
      BY <1>3, <2>1, <3>1
  <2>2. CASE RefuseCall(d) \/ Cancel(d)
    <3>1. \/ UNCHANGED res
          \/ res[d] = "idle" /\ res' = [res EXCEPT ![d] = "AlreadyClosed"]
          \/ res[d] = "pending" /\ res' = [res EXCEPT ![d] = "Cancelled"]
      BY <2>2 DEF RefuseCall, Cancel
    <3> QED
      BY <1>1, <1>3, <3>1
  <2> QED
    BY <1>1, <1>9, <2>1, <2>2 DEF UserCall, Answer, Emit, DropSender, Take, CloseStream
<1>10. ASSUME (\E p \in Peers : User(p)) \/ AskEnable \/ Break \/ UNCHANGED vars PROVE Goal
  BY <1>1, <1>10 DEF User, Receive, DropReceiver, SignalClose, AskEnable, Break, vars, callVars
<1>11. ASSUME Reconnect PROVE Goal
  BY <1>1, <1>11 DEF Reconnect, CloseAllStarted
<1> HIDE DEF Goal
<1>12. Goal
  BY <1>1, <1>2, <1>4, <1>5, <1>6, <1>7, <1>8, <1>9, <1>10, <1>11 DEF Next, Task
<1> QED
  BY <1>12 DEF Goal

LEMMA PendingBy ==
    ASSUME TypeOK, [Next]_vars, NEW c \in Calls, res'[c] = "pending"
    PROVE  res[c] = "pending" \/ StartCall(c)
BY OutcomeFlow

\* what becomes of the handle of a producer: it gets it with the call it starts, or with
\* the request it receives, and uses it up, drops it or never sees it
LEMMA SenderFlow ==
    ASSUME TypeOK, [Next]_vars, NEW c \in Calls
    PROVE  LET p == Prod(c) IN
           \/ tx'[c] = tx[c]
           \/ StartCall(c) /\ KindOf[c] = "RequestSender"
           \/ Receive(p) /\ Head(tx_requests[p]) = c /\ tx'[c] = "live"
           \/ (Answer(c) \/ DropSender(c)) /\ tx[c] = "live" /\ tx'[c] = "dropped"
           \/ /\ tx'[c] = "dropped"
              /\ \/ (DropReceiver(p) \/ Reconnect) /\ c \in CallsOf(tx_requests[p])
                 \/ DeliverToNobody(p) /\ Item(task[p].packet) = c
<1> DEFINE r == Prod(c)
           Goal == \/ tx'[c] = tx[c]
                   \/ StartCall(c) /\ KindOf[c] = "RequestSender"
                   \/ Receive(r) /\ Head(tx_requests[r]) = c /\ tx'[c] = "live"
                   \/ (Answer(c) \/ DropSender(c)) /\ tx[c] = "live" /\ tx'[c] = "dropped"
                   \/ /\ tx'[c] = "dropped"
                      /\ \/ (DropReceiver(r) \/ Reconnect) /\ c \in CallsOf(tx_requests[r])
                         \/ DeliverToNobody(r) /\ Item(task[r].packet) = c
<1>1. ASSUME UNCHANGED tx PROVE Goal
  BY <1>1
<1>2. ASSUME NEW p \in Peers, NEW x, End(p, x) PROVE UNCHANGED tx
  BY <1>2 DEF End, DropHandler, callVars, handleVars, prodVars
<1>3. ASSUME NEW p \in Peers, Task(p), ~DeliverToNobody(p) PROVE UNCHANGED tx
  <2>1. CASE Recv(p)
    BY <1>2, <2>1 DEF Recv, RecvRefused, RecvEnableServerRequests, RecvRequest, RecvAnswer,
       RecvStream, RecvStreamClosed, RecvClose, RecvPing, RecvMalformed, ReadFails, callVars,
       handleVars, prodVars
  <2>2. CASE Deliver(p) \/ Send(p) \/ Ping(p) \/ CloseSignal(p) \/ Finish(p)
    BY <1>2, <1>3, <2>2 DEF Deliver, DeliverRequest, DeliverMessage, Send, Write, WriteFails,
       WriteClose, Ping, CloseSignal, Finish, callVars, handleVars, prodVars
  <2>3. CASE ToSend(p)
    BY <1>2, <2>3 DEF ToSend, ToSendUser, ToSendEnable, ToSendRequest, ToSendDuplicate,
       ToSendNoId, callVars, handleVars, prodVars
  <2> QED
    BY <1>3, <2>1, <2>2, <2>3 DEF Task
<1>4. ASSUME NEW p \in Peers, DeliverToNobody(p) PROVE Goal
  BY <1>4 DEF DeliverToNobody
<1>5. ASSUME Reconnect PROVE Goal
  BY <1>5 DEF Reconnect
<1>6. ASSUME NEW p \in Peers, User(p) PROVE Goal
  <2>1. CASE Receive(p)
    <3>1. CASE Head(tx_requests[p]) = Enable
      BY <2>1, <3>1 DEF Receive
    <3>2. CASE Head(tx_requests[p]) # Enable
      <4>1. tx' = [tx EXCEPT ![Head(tx_requests[p])] =
                      IF Prod(Head(tx_requests[p])) = p THEN "live" ELSE @]
        BY <2>1, <3>2 DEF Receive
      <4> QED
        BY <2>1, <4>1 DEF TypeOK, CallTypeOK
    <3> QED
      BY <3>1, <3>2
  <2>2. CASE DropReceiver(p)
    BY <2>2 DEF DropReceiver
  <2> QED
    BY <1>6, <2>1, <2>2 DEF User, SignalClose, callVars, handleVars, prodVars
<1>7. ASSUME NEW d \in Calls, UserCall(d) PROVE Goal
  <2>1. CASE StartCall(d)
    <3>1. tx' = [tx EXCEPT ![d] = IF KindOf[d] = "RequestSender" THEN "live" ELSE @]
      BY <2>1 DEF StartCall
    <3>2. d # c => tx'[c] = tx[c]
      BY <3>1 DEF TypeOK, CallTypeOK
    <3>3. KindOf[d] # "RequestSender" => tx'[c] = tx[c]
      BY <3>1 DEF TypeOK, CallTypeOK
    <3> QED
      BY <2>1, <3>2, <3>3
  <2>2. CASE Answer(d) \/ DropSender(d)
    <3>1. tx[d] = "live" /\ tx' = [tx EXCEPT ![d] = "dropped"]
      BY <2>2 DEF Answer, DropSender
    <3> QED
      BY <2>2, <3>1 DEF TypeOK, CallTypeOK
  <2> QED
    BY <1>7, <2>1, <2>2 DEF UserCall, RefuseCall, Emit, Take, CloseStream, Cancel, handleVars,
       prodVars
<1>8. ASSUME AskEnable \/ Break \/ UNCHANGED vars PROVE Goal
  BY <1>8 DEF AskEnable, Break, vars, callVars, handleVars, prodVars
<1> HIDE DEF Goal
<1>9. Goal
  BY <1>1, <1>3, <1>4, <1>5, <1>6, <1>7, <1>8 DEF Next
<1> QED
  BY <1>9 DEF Goal

LEMMA LiveBy ==
    ASSUME TypeOK, [Next]_vars, NEW c \in Calls, tx'[c] = "live"
    PROVE  \/ tx[c] = "live"
           \/ StartCall(c) /\ KindOf[c] = "RequestSender"
           \/ Receive(Prod(c)) /\ Head(tx_requests[Prod(c)]) = c
BY SenderFlow

LEMMA EndedStays == ASSUME TypeOK, Ended, [Next]_vars PROVE Ended'
<1> SUFFICES ASSUME NEW p \in Peers, result'[p] # "running" PROVE task'[p].at = "select"
  BY DEF Ended
<1>1. ASSUME NEW q \in Peers, NEW x, End(q, x) PROVE task'[p].at = "select"
  BY <1>1 DEF End, Idle, Ended, TypeOK, TaskTypeOK
<1>2. ASSUME NEW q \in Peers, Task(q), ~\E x : End(q, x)
      PROVE  UNCHANGED result /\ result[q] = "running"
  BY <1>2 DEF Task, Recv, RecvRefused, RecvEnableServerRequests, RecvRequest, RecvAnswer,
     RecvStream, RecvStreamClosed, RecvClose, RecvPing, RecvMalformed, ReadFails, Accepts, Arrives,
     Deliver, DeliverRequest, DeliverToNobody, DeliverMessage, Delivering, Selecting, Send, Write,
     WriteFails, WriteClose, Writing, Ping, CloseSignal, Finish, ToSend, ToSendUser, ToSendEnable,
     ToSendRequest, ToSendDuplicate, ToSendNoId, HasRequest, taskVars, endVars
<1>3. ASSUME NEW q \in Peers, Task(q), ~\E x : End(q, x), q # p
      PROVE  task'[p] = task[p]
  <2>1. task' = task \/ \E t : task' = [task EXCEPT ![q] = t]
    BY <1>3 DEF Task, Recv, RecvRefused, RecvEnableServerRequests, RecvRequest, RecvAnswer,
     RecvStream, RecvStreamClosed, RecvClose, RecvPing, RecvMalformed, ReadFails,
     Deliver, DeliverRequest, DeliverToNobody, DeliverMessage, Send, Write,
     WriteFails, WriteClose, Ping, CloseSignal, Finish, ToSend, ToSendUser, ToSendEnable,
     ToSendRequest, ToSendDuplicate, ToSendNoId, taskVars, Goto
  <2> QED
    BY <1>3, <2>1, OneTask
<1>4. CASE \E q \in Peers : Task(q)
  BY <1>1, <1>2, <1>3, <1>4 DEF Ended
<1>5. CASE Reconnect
  BY <1>5 DEF Reconnect, Peers
<1>6. CASE \/ \E q \in Peers : User(q)
           \/ \E d \in Calls : UserCall(d)
           \/ AskEnable \/ Break \/ UNCHANGED vars
  BY <1>6 DEF User, Receive, DropReceiver, SignalClose, UserCall, StartCall, RefuseCall,
     Answer, Emit, DropSender, Take, CloseStream, Cancel, AskEnable, Break, vars, taskVars,
     endVars, Ended
<1> QED
  BY <1>4, <1>5, <1>6 DEF Next

\* who asks, asks for the call at the head of its queue
LEMMA AskedFirst ==
    ASSUME TypeOK, OwnCalls, NEW p \in Peers, HasRequest(p), Asking(p) # Enable
    PROVE  Asking(p) \in CallsOf(rx_requests[p]) /\ CallerOf[Asking(p)] = p
<1>1. rx_requests[p] \in Seq(Calls \cup {Enable}) /\ rx_requests[p] # <<>>
  BY QueueType DEF HasRequest
<1>2. /\ 1 \in 1 .. Len(rx_requests[p]) /\ Asking(p) = rx_requests[p][1]
      /\ Asking(p) \in Calls \cup {Enable}
  BY <1>1, TailOf, Element DEF Asking
<1>3. Asking(p) \in CallsOf(rx_requests[p])
  BY <1>2 DEF CallsOf
<1> QED
  BY <1>3 DEF OwnCalls

\* the packet of to_send for an entry of waiting_on_user
Said(p, id) ==
    LET c == waiting_on_user[p][id] IN
    IF Over(c) THEN Control(IF IsRequest(c) THEN "NoResponse" ELSE "StreamClosed", id)
    ELSE Packet(IF IsRequest(c) THEN "Response" ELSE "Stream", id, c, Head(up[c]))

\* who says what
LEMMA Sayings ==
    ASSUME TypeOK, NEW p \in Peers, NEW m, Speaks(p, m)
    PROVE  \/ ToSendRequest(p) /\ m = Packet(KindOf[Asking(p)], next[p], Asking(p), 0)
           \/ \E id \in Ids : ToSendUser(p, id) /\ m = Said(p, id)
           \/ ToSendEnable(p) /\ m = Control("EnableServerRequests", next[p])
           \/ RecvStream(p) /\ m = Control("StreamClosed", Arriving(p).id)
           \/ DeliverMessage(p) /\ m = Control("StreamClosed", task[p].packet.id)
           \/ /\ RecvMalformed(p) /\ Arriving(p).kind \in RequestKinds
              /\ m = Control(Complaint(Arriving(p).kind), Arriving(p).id)
           \/ m.kind \in {"Ping", "Close"}
<1>1. task'[p] = [at |-> "write", packet |-> m]
  BY DEF Speaks, Goto, TypeOK, TaskTypeOK
<1>2. ASSUME NEW n, Goto(p, "write", n) PROVE n = m
  BY <1>2 DEF Speaks, Goto, TypeOK, TaskTypeOK
<1>3. CASE ToSendRequest(p)
  BY <1>2, <1>3 DEF ToSendRequest, Asking
<1>4. ASSUME NEW id \in Ids, ToSendUser(p, id) PROVE m = Said(p, id)
  BY <1>2, <1>4 DEF ToSendUser, Said
<1>5. CASE ToSendEnable(p)
  BY <1>2, <1>5 DEF ToSendEnable
<1>6. CASE RecvStream(p)
  <2>1. \/ task'[p].at = "deliver"
        \/ Goto(p, "write", Control("StreamClosed", Arriving(p).id))
    BY <1>6 DEF RecvStream, Arriving, Goto, TypeOK, TaskTypeOK
  <2> QED
    BY <1>1, <1>2, <1>6, <2>1
<1>7. CASE DeliverMessage(p)
  <2>1. \/ task'[p] = Idle
        \/ Goto(p, "write", Control("StreamClosed", task[p].packet.id))
    BY <1>7 DEF DeliverMessage, TypeOK, TaskTypeOK
  <2> QED
    BY <1>1, <1>2, <1>7, <2>1 DEF Idle
<1>8. CASE RecvMalformed(p)
  <2>1. \/ task'[p] = Idle \/ task'[p] = task[p]
        \/ /\ Goto(p, "write", Control(Complaint(Arriving(p).kind), Arriving(p).id))
           /\ Arriving(p).kind \notin {"Response", "Stream"}
    BY <1>8 DEF RecvMalformed, End, Arriving, TypeOK, TaskTypeOK
  <2>2. task[p].at = "select" /\ Arriving(p).kind \in BodyKinds
    BY <1>8, BoundAssumption DEF RecvMalformed, Arrives, Selecting, Arriving
  <2> QED
    BY <1>1, <1>2, <1>8, <2>1, <2>2 DEF Idle, BodyKinds
<1> QED
  BY <1>3, <1>4, <1>5, <1>6, <1>7, <1>8 DEF Speaks

LEMMA SaidKinds ==
    ASSUME NEW p, NEW id
    PROVE  LET c == waiting_on_user[p][id] IN
           /\ IsRequest(c) => Said(p, id).kind = IF Over(c) THEN "NoResponse" ELSE "Response"
           /\ ~IsRequest(c) => Said(p, id).kind = IF Over(c) THEN "StreamClosed" ELSE "Stream"
           /\ Said(p, id).id = id
BY DEF Said, Control, Packet

\* the packets that ask are those of the queue
LEMMA OnlyAsked ==
    ASSUME TypeOK, NEW p \in Peers, NEW m, Speaks(p, m), m.kind \in RequestKinds
    PROVE  ToSendRequest(p) /\ m = Packet(KindOf[Asking(p)], next[p], Asking(p), 0)
<1>1. \A id \in Ids : Said(p, id).kind \notin RequestKinds
  BY SaidKinds DEF RequestKinds
<1>2. ASSUME NEW k \in Kinds \ RequestKinds, NEW id PROVE m # Control(k, id)
  BY <1>2 DEF Control, Packet
<1>3. /\ {"EnableServerRequests", "StreamClosed", "MalformedRequest", "Ping", "Close"}
           \subseteq Kinds \ RequestKinds
      /\ Complaint(Arriving(p).kind) \in Kinds \ RequestKinds
  BY DEF Kinds, BodyKinds, RequestKinds, Complaint
<1> QED
  BY <1>1, <1>2, <1>3, Sayings

LEMMA OwnCallsStays == ASSUME TypeOK, Ended, OwnCalls, [Next]_vars PROVE OwnCalls'
<1>1. ASSUME NEW p \in Peers, NEW c \in CallsOf(rx_requests'[p]) PROVE CallerOf[c] = p
  <2>1. PICK i \in 1 .. Len(rx_requests'[p]) : c \in Calls /\ rx_requests'[p][i] = c
    BY <1>1 DEF CallsOf
  <2>2. rx_requests[p] \in Seq(Calls \cup {Enable})
    BY QueueType
  <2>3. \/ \E j \in 1 .. Len(rx_requests[p]) : rx_requests[p][j] = c
        \/ StartCall(c) /\ CallerOf[c] = p
    <3>1. CASE rx_requests'[p] = rx_requests[p]
      BY <2>1, <3>1
    <3>2. ASSUME NEW x \in Calls \cup {Enable}, rx_requests'[p] = Append(rx_requests[p], x),
                 x = Enable \/ (x \in Calls /\ StartCall(x) /\ CallerOf[x] = p)
          PROVE  \/ \E j \in 1 .. Len(rx_requests[p]) : rx_requests[p][j] = c
                 \/ StartCall(c) /\ CallerOf[c] = p
      BY <2>1, <2>2, <3>2, Appended, Basics
    <3>3. CASE rx_requests[p] # <<>> /\ rx_requests'[p] = Tail(rx_requests[p])
      BY <2>1, <2>2, <3>3, TailOf
    <3>4. CASE rx_requests'[p] = <<>>
      BY <2>1, <3>4
    <3> QED
      BY <3>1, <3>2, <3>3, <3>4, QueueFlow DEF QueueOf
  <2> QED
    BY <2>1, <2>3 DEF OwnCalls, CallsOf
<1>2. ASSUME NEW p \in Peers, NEW i \in 1 .. Len(OnTheWay(p)'),
             OnTheWay(p)'[i].kind \in RequestKinds
      PROVE  KindOf[OnTheWay(p)'[i].call] = OnTheWay(p)'[i].kind
             /\ CallerOf[OnTheWay(p)'[i].call] = p
  <2> DEFINE old == OnTheWay(p)
             new == OnTheWay(p)'
             m == new[i]
  <2>1. old \in Seq(Packets)
    BY WayType
  <2>2. ASSUME NEW j \in 1 .. Len(old), m = old[j]
        PROVE  KindOf[m.call] = m.kind /\ CallerOf[m.call] = p
    BY <1>2, <2>2 DEF OwnCalls
  <2> HIDE DEF old, new
  <2>3. CASE new = old
    BY <1>2, <2>2, <2>3 DEF new
  <2>4. CASE old # <<>> /\ new = Tail(old)
    BY <1>2, <2>1, <2>2, <2>4, TailOf DEF new
  <2>5. CASE Within(new, old)
    BY <1>2, <2>2, <2>5 DEF new, Within
  <2>6. ASSUME NEW n \in Packets, Speaks(p, n)
        PROVE  KindOf[m.call] = m.kind /\ CallerOf[m.call] = p
    <3>1. new = Append(old, n)
      BY <2>6 DEF Speaks, Says, new, old
    <3>2. (\E j \in 1 .. Len(old) : m = old[j]) \/ m = n
      BY <1>2, <2>1, <3>1, Appended DEF new
    <3>3. CASE m = n
      <4>1. ToSendRequest(p) /\ m = Packet(KindOf[Asking(p)], next[p], Asking(p), 0)
        BY <1>2, <2>6, <3>3, OnlyAsked DEF new
      <4> QED
        BY <4>1, AskedFirst DEF ToSendRequest, Asking, Packet
    <3> QED
      BY <2>2, <3>2, <3>3
  <2> QED
    BY <2>3, <2>4, <2>5, <2>6, WayFlow, TwoPeers DEF WayOf, Listens, Heard, CutOff, new, old
<1> QED
  BY <1>1, <1>2 DEF OwnCalls

\* an entry of waiting_on_user goes with its channel
LEMMA FedStays ==
    ASSUME TypeOK, [Next]_vars, NEW p \in Peers, NEW c \in CallsIn(waiting_on_user[p])
    PROVE  c \in CallsIn(waiting_on_user'[p]) \/ shut'[c]
<1>1. PICK i \in Ids : c \in Calls /\ waiting_on_user[p][i] = c
  BY DEF CallsIn
<1>2. c # NoCall
  BY <1>1, Basics
<1>3. waiting_on_user[p] \in [Ids -> Calls \cup {NoCall}]
  BY TablesType
<1>4. ASSUME NEW id \in Ids, NEW d, waiting_on_user[p][id] = NoCall,
             waiting_on_user'[p] = [waiting_on_user[p] EXCEPT ![id] = d]
      PROVE  c \in CallsIn(waiting_on_user'[p])
  <2>1. waiting_on_user'[p][i] = c
    BY <1>1, <1>2, <1>3, <1>4
  <2> QED
    BY <1>1, <2>1 DEF CallsIn
<1>5. ASSUME NEW id \in Ids, ToSendUser(p, id), Removed(waiting_on_user[p][id]),
             waiting_on_user'[p] = [waiting_on_user[p] EXCEPT ![id] = NoCall]
      PROVE  c \in CallsIn(waiting_on_user'[p]) \/ shut'[c]
  <2>1. CASE id = i
    BY <1>1, <1>5, <2>1 DEF ToSendUser, Shut
  <2>2. CASE id # i
    BY <1>1, <1>3, <1>5, <2>2 DEF CallsIn
  <2> QED
    BY <2>1, <2>2
<1>6. ASSUME DropHandler(p) PROVE shut'[c]
  BY <1>1, <1>6 DEF DropHandler, Shut
<1> QED
  BY <1>1, <1>4, <1>5, <1>6, EntriesFlow DEF UserEntriesOf, CallsIn

LEMMA CallsInQueue ==
    ASSUME TypeOK, NEW p \in Peers
    PROVE  /\ \A c \in CallsOf(rx_requests[p]) : QueueOf(p) =>
                 \/ c \in CallsOf(rx_requests'[p])
                 \/ DropHandler(p)
                 \/ /\ c = Asking(p) /\ rx_requests[p] # <<>>
                    /\ ToSendEnable(p) \/ ToSendRequest(p) \/ ToSendNoId(p)
<1> SUFFICES ASSUME NEW c \in CallsOf(rx_requests[p]), QueueOf(p)
             PROVE  \/ c \in CallsOf(rx_requests'[p])
                    \/ DropHandler(p)
                    \/ /\ c = Asking(p) /\ rx_requests[p] # <<>>
                       /\ ToSendEnable(p) \/ ToSendRequest(p) \/ ToSendNoId(p)
  OBVIOUS
<1> DEFINE old == rx_requests[p]
           new == rx_requests'[p]
<1>1. old \in Seq(Calls \cup {Enable})
  BY QueueType
<1>2. PICK i \in 1 .. Len(old) : old[i] = c /\ c \in Calls
  BY DEF CallsOf
<1>3. CASE new = old
  BY <1>3
<1>4. ASSUME NEW x \in Calls \cup {Enable}, new = Append(old, x) PROVE c \in CallsOf(new)
  <2> HIDE DEF old, new
  <2>1. i \in 1 .. Len(new) /\ new[i] = c
    BY <1>1, <1>2, <1>4, Appended
  <2> QED
    BY <1>2, <2>1 DEF CallsOf
<1>5. ASSUME old # <<>>, new = Tail(old), c # Asking(p) PROVE c \in CallsOf(new)
  <2>1. i # 1
    BY <1>1, <1>2, <1>5, TailOf DEF Asking
  <2> HIDE DEF old, new
  <2>2. i - 1 \in 1 .. Len(new) /\ new[i - 1] = c
    BY <1>1, <1>2, <1>5, <2>1, TailOf
  <2> QED
    BY <1>2, <2>2 DEF CallsOf
<1> QED
  BY <1>3, <1>4, <1>5 DEF QueueOf

\* a pending Request is queued or awaited
LEMMA PendingStays ==
    ASSUME TypeOK, NoOrphan, OwnCalls, [Next]_vars, NEW c \in Calls,
           IsRequest(c), res'[c] = "pending"
    PROVE  c \in CallsIn(waiting_on_stream'[CallerOf[c]]) \cup CallsOf(rx_requests'[CallerOf[c]])
<1> DEFINE p == CallerOf[c]
<1>0. p \in Peers /\ c # NoCall /\ c # Enable /\ KindOf[c] = "Request"
  BY Basics DEF IsRequest
<1>1. CASE StartCall(c)
  <2>1. rx_requests'[p] = Append(rx_requests[p], c) /\ rx_requests[p] \in Seq(Calls \cup {Enable})
    BY <1>0, <1>1, QueueType DEF StartCall
  <2> QED
    BY <2>1, Appended DEF CallsOf
<1>2. CASE res[c] = "pending" /\ c \in CallsOf(rx_requests[p])
  <2>1. ASSUME DropHandler(p) PROVE FALSE
    BY <1>2, <2>1 DEF DropHandler, Failed
  <2>2. ASSUME ToSendNoId(p), c = Asking(p) PROVE FALSE
    BY <1>2, <2>2 DEF ToSendNoId, Asking, Failed
  <2>3. ASSUME ToSendEnable(p), c = Asking(p) PROVE FALSE
    BY <1>0, <2>3 DEF ToSendEnable, Asking
  <2>4. ASSUME ToSendRequest(p), c = Asking(p) PROVE c \in CallsIn(waiting_on_stream'[p])
    <3>1. next[p] \in Ids
      BY <1>0, <2>4, CallEntries
    <3>2. waiting_on_stream' = [waiting_on_stream EXCEPT ![p][next[p]] = c]
      BY <1>0, <2>4 DEF ToSendRequest, Asking, Put
    <3>3. waiting_on_stream'[p][next[p]] = c
      BY <1>0, <3>1, <3>2, TablesType
    <3> QED
      BY <3>1, <3>3 DEF CallsIn
  <2> QED
    BY <1>0, <1>2, <2>1, <2>2, <2>3, <2>4, QueueFlow, CallsInQueue
<1>3. CASE res[c] = "pending" /\ c \in CallsIn(waiting_on_stream[p])
  <2>1. PICK i \in Ids : waiting_on_stream[p][i] = c
    BY <1>3 DEF CallsIn
  <2>2. waiting_on_stream[p] \in [Ids -> Calls \cup {NoCall}]
    BY <1>0, TablesType
  <2>3. ASSUME NEW id \in Ids, NEW d, waiting_on_stream[p][id] = NoCall,
               waiting_on_stream'[p] = [waiting_on_stream[p] EXCEPT ![id] = d]
        PROVE  c \in CallsIn(waiting_on_stream'[p])
    <3>1. waiting_on_stream'[p][i] = c
      BY <1>0, <2>1, <2>2, <2>3
    <3> QED
      BY <2>1, <3>1 DEF CallsIn
  <2>4. ASSUME NEW id \in Ids, id = Arriving(p).id,
               RecvAnswer(p) \/ RecvStreamClosed(p) \/ (RecvMalformed(p) /\ Arriving(p).kind = "Response"),
               waiting_on_stream'[p] = [waiting_on_stream[p] EXCEPT ![id] = NoCall]
        PROVE  c \in CallsIn(waiting_on_stream'[p])
    <3>1. CASE id # i
      BY <2>1, <2>2, <2>4, <3>1 DEF CallsIn
    <3>2. CASE id = i /\ RecvAnswer(p)
      BY <1>3, <2>1, <2>4, <3>2
         DEF RecvAnswer, Arriving, TypeOK, CallTypeOK, Accepts, Arrives
    <3>3. CASE id = i /\ RecvStreamClosed(p)
      BY <1>3, <2>1, <2>4, <3>3 DEF RecvStreamClosed, Arriving, Failed
    <3>4. CASE id = i /\ RecvMalformed(p) /\ Arriving(p).kind = "Response"
      <4>1. CASE End(p, "UnknownId")
        <5>1. waiting_on_stream'[p][i] = NoCall
          BY <2>2, <2>4, <3>4
        <5>2. ~KeepsHandler(p, "UnknownId")
          BY <1>0, <2>1, <4>1, <5>1 DEF End, peerVars
        <5> QED
          BY <1>3, <4>1, <5>2 DEF End, DropHandler, Failed
      <4>2. CASE ~End(p, "UnknownId")
        <5>1. /\ waiting_on_stream[p][Head(Arrived(p)).id] = c
              /\ Head(Arrived(p)).kind = "Response"
          BY <2>1, <2>4, <3>4 DEF Arriving
        <5>2. res' = [res EXCEPT ![waiting_on_stream[p][Head(Arrived(p)).id]] =
                         IF @ = "pending" THEN "ResponsePacket" ELSE @]
          BY <3>4, <4>2, <5>1 DEF RecvMalformed
        <5>3. res'[c] = "ResponsePacket"
          BY <1>3, <5>1, <5>2 DEF TypeOK, CallTypeOK
        <5> QED
          BY <5>3
      <4> QED
        BY <4>1, <4>2
    <3> QED
      BY <2>4, <3>1, <3>2, <3>3, <3>4
  <2>5. ASSUME CloseHandler(p) \/ DropHandler(p) \/ (Reconnect /\ p = "client")
        PROVE  FALSE
    BY <1>3, <2>5 DEF CloseHandler, DropHandler, Reconnect, CloseAllStarted, Failed
  <2> QED
    BY <1>0, <1>3, <2>3, <2>4, <2>5, EntriesFlow DEF StreamEntriesOf
<1> QED
  BY <1>1, <1>2, <1>3, PendingBy DEF NoOrphan

\* a request on its way to a user has its entry
LEMMA HandedStaysFed ==
    ASSUME TypeOK, Ended, OwnCalls, HandedIsFed, [Next]_vars, NEW c \in Calls,
           c \in CallsOf(Handed(Prod(c))'), ~shut'[c]
    PROVE  c \in CallsIn(waiting_on_user'[Prod(c)])
<1> DEFINE p == Prod(c)
           old == Handed(p)
           new == Handed(p)'
<1>0. p \in Peers /\ Other(p) \in Peers /\ Other(p) # p /\ ~shut[c] /\ c # Enable
  BY TwoPeers, ShutStays, Basics DEF Prod
<1>1. old \in Seq(Calls \cup {Enable})
  BY <1>0, HandedType
<1>2. PICK i \in 1 .. Len(new) : new[i] = c
  BY DEF CallsOf
<1>3. ASSUME \E j \in 1 .. Len(old) : old[j] = c PROVE c \in CallsIn(waiting_on_user'[p])
  <2>1. c \in CallsIn(waiting_on_user[p])
    BY <1>0, <1>3 DEF HandedIsFed, CallsOf
  <2> QED
    BY <1>0, <2>1, FedStays
<1>4. ASSUME RecvRequest(p) \/ RecvEnableServerRequests(p), new = Append(old, Item(Arriving(p))),
             ~\E j \in 1 .. Len(old) : old[j] = c
      PROVE  c \in CallsIn(waiting_on_user'[p])
  <2>1. c = Item(Arriving(p))
    <3>1. new \in Seq(Calls \cup {Enable}) /\ Len(new) = Len(old) + 1
          /\ (\A j \in 1 .. Len(old) : new[j] = old[j]) /\ new[Len(old) + 1] = Item(Arriving(p))
          /\ Len(old) \in Nat
      <4> HIDE DEF old, new
      <4>1. ASSUME NEW x PROVE Len(Append(old, x)) = Len(old) + 1
                               /\ (\A j \in 1 .. Len(old) : Append(old, x)[j] = old[j])
                               /\ Append(old, x)[Len(old) + 1] = x
                               /\ Len(old) \in Nat
        BY <1>1
      <4>2. Item(Arriving(p)) \in Calls \cup {Enable}
        BY <1>0, <1>4, FirstArrived
           DEF RecvRequest, RecvEnableServerRequests, Accepts, Arrives, Arriving, Item, Packets,
               TypeOK, BodyKinds
      <4> QED
        BY <1>1, <1>4, <4>1, <4>2
    <3> QED
      BY <1>2, <1>4, <3>1
  <2>2. CASE RecvEnableServerRequests(p)
    BY <1>0, <2>1, <2>2 DEF RecvEnableServerRequests, Accepts, Arrives, Arriving, Item
  <2>3. CASE RecvRequest(p)
    <3>1. /\ Arriving(p) \in Packets /\ Arriving(p).kind \in RequestKinds /\ link[Other(p)] # <<>>
          /\ Arriving(p) = link[Other(p)][1] /\ 1 \in 1 .. Len(link[Other(p)])
      <4>1. link[Other(p)] \in Seq(Packets)
        BY <1>0, WayType
      <4> QED
        BY <1>0, <2>3, <4>1, FirstArrived, TailOf
           DEF RecvRequest, Accepts, Arrives, Arriving, Arrived, TypeOK
    <3>2. c = Arriving(p).call
      BY <2>1, <3>1 DEF Item, RequestKinds
    <3>3. 1 \in 1 .. Len(OnTheWay(Other(p))) /\ OnTheWay(Other(p))[1] = Arriving(p)
      <4>1. link[Other(p)] \in Seq(Packets) /\ InHand(Other(p)) \in Seq(Packets)
        BY <1>0, WayType
      <4> QED
        BY <3>1, <4>1 DEF OnTheWay
    <3>4. KindOf[c] = Arriving(p).kind /\ CallerOf[c] = Other(p)
      BY <1>0, <3>1, <3>2, <3>3 DEF OwnCalls
    <3>5. Arriving(p).kind # "RequestSender"
      BY <1>0, <3>4 DEF Prod
    <3>6. waiting_on_user' = [waiting_on_user EXCEPT ![p][Arriving(p).id] = c]
      BY <2>3, <3>2, <3>5 DEF RecvRequest, Arriving, Put
    <3>7. Arriving(p).id \in Ids
      BY <3>1 DEF Packets
    <3>8. waiting_on_user'[p][Arriving(p).id] = c
      BY <1>0, <3>6, <3>7, TablesType
    <3> QED
      BY <3>7, <3>8 DEF CallsIn
  <2> QED
    BY <1>4, <2>2, <2>3
<1>5. ASSUME new = old \/ (old # <<>> /\ new = Tail(old)) \/ Within(new, old)
      PROVE  \E j \in 1 .. Len(old) : old[j] = c
  <2> HIDE DEF old, new
  <2>1. CASE new = old
    BY <1>2, <2>1
  <2>2. CASE old # <<>> /\ new = Tail(old)
    BY <1>1, <1>2, <2>2, TailOf
  <2>3. CASE Within(new, old)
    BY <1>2, <2>3 DEF Within
  <2> QED
    BY <1>5, <2>1, <2>2, <2>3
<1> QED
  BY <1>0, <1>3, <1>4, <1>5, HandedFlow DEF HandedOf, Arriving

\* who can send is listened to
LEMMA LiveStays ==
    ASSUME TypeOK, NoOrphan, OwnCalls, HandedIsFed, [Next]_vars, NEW c \in Calls,
           tx'[c] = "live", ~shut'[c]
    PROVE  c \in CallsIn(waiting_on_user'[Prod(c)]) \cup CallsOf(rx_requests'[Prod(c)])
<1> DEFINE p == Prod(c)
<1>0. p \in Peers /\ ~shut[c] /\ c # Enable
  BY TwoPeers, ShutStays, Basics DEF Prod
<1>1. CASE StartCall(c) /\ KindOf[c] = "RequestSender"
  <2>1. rx_requests'[p] = Append(rx_requests[p], c) /\ rx_requests[p] \in Seq(Calls \cup {Enable})
    BY <1>0, <1>1, QueueType DEF StartCall, Prod
  <2> QED
    BY <2>1, Appended DEF CallsOf
<1>2. CASE Receive(p) /\ Head(tx_requests[p]) = c
  <2>1. tx_requests[p] # <<>> /\ tx_requests[p] \in Seq(Calls \cup {Enable})
    BY <1>0, <1>2, QueueType DEF Receive
  <2>2. InDelivery(p) \in Seq(Calls \cup {Enable}) /\ Handed(p) = tx_requests[p] \o InDelivery(p)
    BY <1>0, HandedType
  <2>3. 1 \in 1 .. Len(Handed(p)) /\ Handed(p)[1] = c
    BY <1>2, <2>1, <2>2
  <2>4. c \in CallsIn(waiting_on_user[p])
    BY <1>0, <2>3 DEF HandedIsFed, CallsOf
  <2> QED
    BY <1>0, <2>4, FedStays
<1>3. CASE tx[c] = "live" /\ c \in CallsIn(waiting_on_user[p])
  BY <1>0, <1>3, FedStays
<1>4. CASE tx[c] = "live" /\ c \in CallsOf(rx_requests[p])
  <2>1. KindOf[c] = "RequestSender"
    BY <1>0, <1>4, TwoPeers, Basics DEF OwnCalls, Prod
  <2>2. ASSUME DropHandler(p) PROVE FALSE
    BY <1>4, <2>1, <2>2 DEF DropHandler, Shut
  <2>3. ASSUME ToSendNoId(p), c = Asking(p) PROVE FALSE
    BY <2>1, <2>3 DEF ToSendNoId, Asking, Shut
  <2>4. ASSUME ToSendEnable(p), c = Asking(p) PROVE FALSE
    BY <1>0, <2>4 DEF ToSendEnable, Asking
  <2>5. ASSUME ToSendRequest(p), c = Asking(p) PROVE c \in CallsIn(waiting_on_user'[p])
    <3>1. next[p] \in Ids
      BY <1>0, <2>5, CallEntries
    <3>2. waiting_on_user' = [waiting_on_user EXCEPT ![p][next[p]] = c]
      BY <2>1, <2>5 DEF ToSendRequest, Asking, Put
    <3>3. waiting_on_user'[p][next[p]] = c
      BY <1>0, <3>1, <3>2, TablesType
    <3> QED
      BY <3>1, <3>3 DEF CallsIn
  <2> QED
    BY <1>0, <1>4, <2>2, <2>3, <2>4, <2>5, QueueFlow, CallsInQueue
<1> QED
  BY <1>0, <1>1, <1>2, <1>3, <1>4, LiveBy DEF NoOrphan

LEMMA OrphanStep == ASSUME TypeOK, OrphanInv, [Next]_vars PROVE OrphanInv'
<1>1. OwnCalls'
  BY OwnCallsStays DEF OrphanInv
<1>2. HandedIsFed'
  <2> SUFFICES ASSUME NEW c \in Calls, c \in CallsOf(Handed(Prod(c))'), ~shut'[c]
               PROVE  c \in CallsIn(waiting_on_user'[Prod(c)])
    BY DEF HandedIsFed, CallsOf, CallsIn, Prod
  <2> QED
    BY HandedStaysFed DEF OrphanInv
<1>3. NoOrphan'
  BY PendingStays, LiveStays DEF OrphanInv, NoOrphan, CallsOf, CallsIn, Prod, IsRequest
<1>4. Ended'
  BY EndedStays DEF OrphanInv
<1> QED
  BY <1>1, <1>2, <1>3, <1>4 DEF OrphanInv

LEMMA OrphanInit == ASSUME Init PROVE OrphanInv
<1>1. \A p \in Peers : /\ OnTheWay(p) = <<>> /\ Handed(p) = <<>> /\ rx_requests[p] = <<>>
                       /\ task[p].at = "select"
  BY DEF Init, OnTheWay, InHand, Handed, Writing, Delivering, Idle
<1>2. \A p \in Peers : CallsOf(Handed(p)) = {} /\ CallsOf(rx_requests[p]) = {}
  BY <1>1 DEF CallsOf
<1>3. \A c \in Calls : Prod(c) \in Peers /\ res[c] = "idle" /\ tx[c] = "none"
  BY TwoPeers, Basics DEF Prod, Init
<1> QED
  BY <1>1, <1>2, <1>3 DEF Ended, OrphanInv, NoOrphan, OwnCalls, HandedIsFed

\* Handler::send makes the entry of a call before its handle is put into tx_requests, and
\* nothing takes it out again without shutting the channel (handler.rs 388-449, 604-615).
THEOREM OrphanInvHolds == Spec => []OrphanInv
<1>1. Init => OrphanInv
  BY OrphanInit
<1>2. TypeOK /\ OrphanInv /\ [Next]_vars => OrphanInv'
  BY OrphanStep
<1> QED
  BY <1>1, <1>2, TypeCorrect, PTL DEF Spec

\* A pending Request is queued or awaited, and whoever can still send is listened to: in
\* every state, whatever the users do and the byte stream breaks, over any number of
\* reconnections, and with ids that ran out or crossed.
THEOREM NoneOrphaned == Spec => []NoOrphan
<1>1. OrphanInv => NoOrphan
  BY DEF OrphanInv
<1> QED
  BY <1>1, OrphanInvHolds, PTL

=============================================================================
