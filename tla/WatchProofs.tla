------------------------------ MODULE WatchProofs ------------------------------
(* The invariants of the configuration channel, for any number of senders, *)
(* receivers and values.                                                   *)
EXTENDS WatchProperties, FiniteSetTheorems, TLAPS

LEMMA InitType == Init => WatchTypeOK
  BY HandlesAssumption, SendsAssumption DEF Init, WatchTypeOK

LEMMA NextType ==
    ASSUME WatchTypeOK, Versioned, CountsAlive, [Next]_vars
    PROVE  WatchTypeOK'
<1>1. ASSUME NEW s \in Senders, Store(s) PROVE WatchTypeOK'
  BY <1>1, SendsAssumption DEF WatchTypeOK, Store, Goes, Written, receiverVars
<1>2. ASSUME NEW s \in Senders, Bump(s) PROVE WatchTypeOK'
  <2>1. version + 1 = data
    BY <1>2 DEF Bump, Goes, Versioned
  <2> QED
    BY <1>2, <2>1 DEF WatchTypeOK, Bump, Goes, receiverVars
<1>3. ASSUME NEW s \in Senders, Unlock(s) PROVE WatchTypeOK'
  BY <1>3 DEF WatchTypeOK, Unlock, Goes, receiverVars
<1>4. ASSUME NEW s \in Senders, NotifyWaiters(s) PROVE WatchTypeOK'
  BY <1>4 DEF WatchTypeOK, NotifyWaiters, Goes, Woken, receiverVars
<1>5. ASSUME NEW s \in Senders, NEW t \in Senders, CloneSender(s, t) PROVE WatchTypeOK'
  BY <1>5 DEF WatchTypeOK, CloneSender, Counted, receiverVars
<1>6. ASSUME NEW s \in Senders, DropSender(s) PROVE WatchTypeOK'
  <2>1. Alive # {}
    BY <1>6 DEF DropSender, Goes, Alive
  <2>2. tx_count # 0
    BY <2>1, FS_EmptySet DEF CountsAlive
  <2> QED
    BY <1>6, <2>2 DEF WatchTypeOK, DropSender, Goes, receiverVars
<1>7. ASSUME NEW r \in Receivers, Receive(r) \/ Abort(r) PROVE WatchTypeOK'
  <2>1. CASE Recv(r) \/ Wake(r)
    BY <2>1 DEF WatchTypeOK, Recv, Wake, Listen, senderVars
  <2>2. CASE LoadVersion(r)
    BY <2>2 DEF WatchTypeOK, LoadVersion, senderVars
  <2>3. CASE ReadData(r) \/ Abort(r)
    BY <2>3 DEF WatchTypeOK, ReadData, Abort, senderVars
  <2>4. CASE LoadCount(r)
    BY <2>4 DEF WatchTypeOK, LoadCount, Awaited, senderVars
  <2> QED
    BY <1>7, <2>1, <2>2, <2>3, <2>4 DEF Receive
<1>8. ASSUME NEW r \in Receivers, NEW q \in Receivers, CloneReceiver(r, q) PROVE WatchTypeOK'
  BY <1>8 DEF WatchTypeOK, CloneReceiver, senderVars
<1>9. CASE UNCHANGED vars
  BY <1>9 DEF WatchTypeOK, vars, senderVars, receiverVars
<1> QED
  BY <1>1, <1>2, <1>3, <1>4, <1>5, <1>6, <1>7, <1>8, <1>9 DEF Next, Send

-----------------------------------------------------------------------------
(* The lock and the two counters *)

LEMMA VersionedStep == ASSUME WatchTypeOK, Versioned, [Next]_vars PROVE Versioned'
<1>1. ASSUME NEW s \in Senders, Store(s) PROVE Versioned'
  BY <1>1, HandlesAssumption DEF WatchTypeOK, Versioned, Store, Goes, Written
<1>2. ASSUME NEW s \in Senders, Bump(s) PROVE Versioned'
  <2>1. \A q \in Senders : tx'[q] # "stored"
    BY <1>2 DEF WatchTypeOK, Versioned, Bump, Goes
  <2> QED
    BY <1>2, <2>1 DEF WatchTypeOK, Versioned, Bump, Goes
<1>3. ASSUME NEW s \in Senders, Unlock(s) PROVE Versioned'
  BY <1>3, HandlesAssumption DEF WatchTypeOK, Versioned, Unlock, Goes
<1>4. ASSUME NEW s \in Senders, NotifyWaiters(s) PROVE Versioned'
  BY <1>4 DEF WatchTypeOK, Versioned, NotifyWaiters, Goes
<1>5. ASSUME NEW s \in Senders, NEW t \in Senders, CloneSender(s, t) PROVE Versioned'
  BY <1>5 DEF WatchTypeOK, Versioned, CloneSender
<1>6. ASSUME NEW s \in Senders, DropSender(s) PROVE Versioned'
  BY <1>6 DEF WatchTypeOK, Versioned, DropSender, Goes
<1>7. CASE UNCHANGED senderVars
  BY <1>7 DEF Versioned, senderVars
<1> QED
  BY <1>1, <1>2, <1>3, <1>4, <1>5, <1>6, <1>7
     DEF Next, Send, Receive, Recv, LoadVersion, ReadData, LoadCount, Wake, Abort,
         CloneReceiver, vars

\* tx_count counts the senders that exist, and nobody counts for one that is dropped
LEMMA CountStep ==
    ASSUME WatchTypeOK, CountsAlive, NoneIsTheEnd, [Next]_vars
    PROVE  CountsAlive' /\ NoneIsTheEnd'
<1>1. ASSUME NEW s \in Senders, Store(s) \/ Send(s) PROVE CountsAlive' /\ NoneIsTheEnd'
  <2>1. Alive' = Alive
    BY <1>1 DEF WatchTypeOK, Alive, Store, Send, Bump, Unlock, NotifyWaiters, Goes
  <2> QED
    BY <1>1, <2>1 DEF CountsAlive, NoneIsTheEnd, Store, Send, Bump, Unlock, NotifyWaiters,
       receiverVars
<1>2. ASSUME NEW s \in Senders, NEW t \in Senders, CloneSender(s, t)
      PROVE  CountsAlive' /\ NoneIsTheEnd'
  <2>1. Alive' = Alive \cup {t} /\ t \notin Alive /\ s \in Alive
    BY <1>2 DEF WatchTypeOK, Alive, CloneSender
  <2> QED
    BY <1>2, <2>1, FS_AddElement DEF CountsAlive, NoneIsTheEnd, CloneSender, Counted,
       receiverVars
<1>3. ASSUME NEW s \in Senders, DropSender(s) PROVE CountsAlive' /\ NoneIsTheEnd'
  <2>1. Alive' = Alive \ {s} /\ s \in Alive
    BY <1>3 DEF WatchTypeOK, Alive, DropSender, Goes
  <2> QED
    BY <1>3, <2>1, FS_RemoveElement DEF CountsAlive, NoneIsTheEnd, DropSender, receiverVars
<1>4. ASSUME NEW r \in Receivers, LoadCount(r) PROVE CountsAlive' /\ NoneIsTheEnd'
  <2>1. Alive' = Alive
    BY <1>4 DEF Alive, LoadCount, senderVars
  <2>2. tx_count = 0 => Alive = {}
    BY FS_EmptySet DEF CountsAlive
  <2> QED
    BY <1>4, <2>1, <2>2 DEF WatchTypeOK, CountsAlive, NoneIsTheEnd, LoadCount, senderVars
<1>5. CASE UNCHANGED <<senderVars, none>>
  <2>1. Alive' = Alive
    BY <1>5 DEF Alive, senderVars
  <2> QED
    BY <1>5, <2>1 DEF CountsAlive, NoneIsTheEnd, senderVars
<1> QED
  BY <1>1, <1>2, <1>3, <1>4, <1>5
     DEF Next, Receive, Recv, LoadVersion, ReadData, Wake, Abort, CloneReceiver, vars,
         receiverVars

-----------------------------------------------------------------------------
(* What receivers have seen *)

LEMMA SeenStep ==
    ASSUME WatchTypeOK, Versioned, SeenInTime, [Next]_vars PROVE SeenInTime'
<1>1. CASE UNCHANGED <<version, rx, seen, got>>
  BY <1>1 DEF SeenInTime, NeverStale
<1>2. ASSUME NEW s \in Senders, Bump(s) PROVE SeenInTime'
  BY <1>2 DEF WatchTypeOK, SeenInTime, NeverStale, Bump, receiverVars
<1>3. ASSUME NEW r \in Receivers, Recv(r) \/ LoadCount(r) \/ Wake(r) \/ Abort(r)
      PROVE  SeenInTime'
  <2>1. UNCHANGED <<version, seen, got>> /\ rx[r] # "read" /\ \A q \in Receivers : q # r => rx'[q] = rx[q]
    BY <1>3 DEF WatchTypeOK, Recv, LoadCount, Wake, Abort, senderVars
  <2> QED
    BY <2>1 DEF SeenInTime, NeverStale
<1>4. ASSUME NEW r \in Receivers, LoadVersion(r) PROVE SeenInTime'
  <2>1. CASE version = seen[r]
    BY <1>4, <2>1 DEF WatchTypeOK, SeenInTime, NeverStale, LoadVersion, senderVars
  <2>2. CASE version # seen[r]
    BY <1>4, <2>2 DEF WatchTypeOK, SeenInTime, NeverStale, LoadVersion, senderVars
  <2> QED
    BY <2>1, <2>2
<1>5. ASSUME NEW r \in Receivers, ReadData(r) PROVE SeenInTime'
  <2>1. data = version
    BY <1>5, HandlesAssumption DEF ReadData, Versioned
  <2> QED
    BY <1>5, <2>1 DEF WatchTypeOK, SeenInTime, NeverStale, ReadData, senderVars
<1>6. ASSUME NEW r \in Receivers, NEW q \in Receivers, CloneReceiver(r, q)
      PROVE  SeenInTime'
  BY <1>6 DEF WatchTypeOK, SeenInTime, NeverStale, CloneReceiver, senderVars
<1> QED
  BY <1>1, <1>2, <1>3, <1>4, <1>5, <1>6
     DEF Next, Receive, Send, Store, Unlock, NotifyWaiters, CloneSender, DropSender, vars,
         receiverVars, senderVars

-----------------------------------------------------------------------------
(* Who sleeps *)

Bumper == \E s \in Senders : tx[s] \in {"bumped", "notify"}
Dropper == \E s \in Senders : tx[s] = "last"

\* a receiver that is not to be woken has checked, and nothing changed since
LEMMA AsleepStep ==
    ASSUME WatchTypeOK, Awakened,
           UNCHANGED <<rx, noti, seen>>,
           version' # version => Bumper', Bumper => Bumper',
           tx_count' = 0 => tx_count = 0 \/ Dropper', Dropper => Dropper'
    PROVE  Awakened'
  BY DEF Awakened, NoLostWakeup, Bumper, Dropper

LEMMA AwakenedStep == ASSUME WatchTypeOK, Awakened, [Next]_vars PROVE Awakened'
<1>1. ASSUME NEW s \in Senders, Store(s) PROVE Awakened'
  <2>1. \A q \in Senders : tx[q] \in {"bumped", "notify", "last"} => tx'[q] = tx[q]
    BY <1>1 DEF WatchTypeOK, Store, Goes
  <2> QED
    BY <1>1, <2>1, AsleepStep DEF Store, receiverVars, Bumper, Dropper
<1>2. ASSUME NEW s \in Senders, Bump(s) \/ Unlock(s) PROVE Awakened'
  <2>1. tx'[s] \in {"bumped", "notify"} /\ \A q \in Senders : tx[q] = "last" => tx'[q] = tx[q]
    BY <1>2 DEF WatchTypeOK, Bump, Unlock, Goes
  <2> QED
    BY <1>2, <2>1, AsleepStep DEF Bump, Unlock, receiverVars, Bumper, Dropper
<1>3. ASSUME NEW s \in Senders, NotifyWaiters(s) PROVE Awakened'
  <2>1. \A r \in Receivers : noti'[r] # "armed"
    BY <1>3 DEF WatchTypeOK, NotifyWaiters, Woken
  <2> QED
    BY <2>1 DEF Awakened, NoLostWakeup
<1>4. ASSUME NEW s \in Senders, NEW t \in Senders, CloneSender(s, t) PROVE Awakened'
  <2>1. \A q \in Senders : tx[q] \in {"bumped", "notify", "last"} => tx'[q] = tx[q]
    BY <1>4 DEF WatchTypeOK, CloneSender
  <2>2. tx_count' # 0
    BY <1>4 DEF WatchTypeOK, CloneSender, Counted
  <2> QED
    BY <1>4, <2>1, <2>2, AsleepStep DEF CloneSender, receiverVars, Bumper, Dropper
<1>5. ASSUME NEW s \in Senders, DropSender(s) PROVE Awakened'
  <2>1. \A q \in Senders : tx[q] \in {"bumped", "notify", "last"} => tx'[q] = tx[q]
    BY <1>5 DEF WatchTypeOK, DropSender, Goes
  <2>2. tx_count' = 0 => tx'[s] = "last"
    BY <1>5 DEF WatchTypeOK, DropSender, Goes, LastOne
  <2> QED
    BY <1>5, <2>1, <2>2, AsleepStep DEF DropSender, receiverVars, Bumper, Dropper
<1>6. ASSUME NEW r \in Receivers, Recv(r) \/ ReadData(r) \/ Wake(r) \/ Abort(r)
      PROVE  Awakened'
  <2>1. /\ rx'[r] \notin {"count", "wait"} /\ UNCHANGED <<seen, version, tx, tx_count>>
        /\ \A q \in Receivers : q # r => rx'[q] = rx[q] /\ noti'[q] = noti[q]
    BY <1>6 DEF WatchTypeOK, Recv, ReadData, Wake, Abort, Listen, senderVars
  <2> QED
    BY <2>1 DEF Awakened, NoLostWakeup
<1>7. ASSUME NEW r \in Receivers, LoadVersion(r) PROVE Awakened'
  <2>1. /\ rx'[r] # "wait" /\ seen'[r] = version /\ UNCHANGED <<noti, version, tx, tx_count>>
        /\ \A q \in Receivers : q # r => rx'[q] = rx[q] /\ seen'[q] = seen[q]
    BY <1>7 DEF WatchTypeOK, LoadVersion, senderVars
  <2> QED
    BY <2>1 DEF Awakened, NoLostWakeup
<1>8. ASSUME NEW r \in Receivers, LoadCount(r) PROVE Awakened'
  <2>1. /\ rx[r] = "count" /\ rx'[r] \in {"idle", "wait"}
        /\ rx'[r] = "wait" => noti'[r] = noti[r] /\ tx_count # 0
        /\ UNCHANGED <<seen, version, tx, tx_count>>
        /\ \A q \in Receivers : q # r => rx'[q] = rx[q] /\ noti'[q] = noti[q]
    BY <1>8 DEF WatchTypeOK, LoadCount, Awaited, senderVars
  <2> QED
    BY <2>1 DEF Awakened, NoLostWakeup
<1>9. ASSUME NEW r \in Receivers, NEW q \in Receivers, CloneReceiver(r, q)
      PROVE  Awakened'
  <2>1. /\ rx'[q] = "idle" /\ UNCHANGED <<noti, version, tx, tx_count>>
        /\ \A p \in Receivers : p # q => rx'[p] = rx[p] /\ seen'[p] = seen[p]
    BY <1>9 DEF WatchTypeOK, CloneReceiver, senderVars
  <2> QED
    BY <2>1 DEF Awakened, NoLostWakeup
<1>10. CASE UNCHANGED vars
  BY <1>10 DEF vars, senderVars, receiverVars, Awakened, NoLostWakeup
<1> QED
  BY <1>1, <1>2, <1>3, <1>4, <1>5, <1>6, <1>7, <1>8, <1>9, <1>10
     DEF Next, Send, Receive

-----------------------------------------------------------------------------
LEMMA InitInv == Init => WatchInv
<1> SUFFICES ASSUME Init PROVE WatchInv
  OBVIOUS
<1>1. Versioned
  BY HandlesAssumption DEF Init, Versioned
<1>2. SeenInTime /\ Awakened /\ NoneIsTheEnd
  BY DEF Init, SeenInTime, NeverStale, Awakened, NoLostWakeup, NoneIsTheEnd
<1>3. Alive = {First}
  BY HandlesAssumption DEF Init, Alive
<1>4. CountsAlive
  BY <1>3, FS_Singleton DEF Init, CountsAlive
<1> QED
  BY InitType, <1>1, <1>2, <1>4 DEF WatchInv

LEMMA NextInv == ASSUME WatchInv, [Next]_vars PROVE WatchInv'
  BY NextType, VersionedStep, SeenStep, AwakenedStep, CountStep DEF WatchInv

\* Whatever the threads do and at which statement, versions, wakeups and counts of senders
\* agree (watch.rs 34-114): the invariant the three properties below rest on.
THEOREM WatchInvHolds == Spec => []WatchInv
<1>1. WatchInv /\ [Next]_vars => WatchInv'
  BY NextInv
<1> QED
  BY <1>1, InitInv, PTL DEF Spec

\* A receiver sleeps only with the newest version seen and a sender left, or with
\* its wakeup on the way: recv (watch.rs 90-114) misses no notification, however many
\* threads send, clone and drop meanwhile.
THEOREM NothingSleptThrough == Spec => []NoLostWakeup
<1>1. WatchInv => NoLostWakeup
  BY DEF WatchInv, Awakened
<1> QED
  BY <1>1, WatchInvHolds, PTL

\* A version noted is that of a value returned or of an older one, though they
\* are read apart.
THEOREM Fresh == Spec => []NeverStale
<1>1. WatchInv => NeverStale
  BY DEF WatchInv, SeenInTime
<1> QED
  BY <1>1, WatchInvHolds, PTL

\* recv returns None only when every sender was dropped.
THEOREM NoneOnlyAtTheEnd == Spec => []NoneIsTheEnd
<1>1. WatchInv => NoneIsTheEnd
  BY DEF WatchInv
<1> QED
  BY <1>1, WatchInvHolds, PTL

=============================================================================
