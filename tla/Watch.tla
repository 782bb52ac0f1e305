--------------------------------- MODULE Watch ---------------------------------
(***************************************************************************)
(* The configuration channel of lafere/src/util/watch.rs: senders and       *)
(* receivers on threads of their own share a value behind a lock, its       *)
(* version, the number of senders and tokio's Notify.  One action is one    *)
(* access to any of these.  A value is the number of values before it.      *)
(***************************************************************************)
EXTENDS Naturals, FiniteSets

CONSTANTS Senders, Receivers,
          First,        \* the sender and the receiver channel() returns
          FirstReceiver,
          NoOne,
          MaxSends      \* bound: values sent

ASSUME HandlesAssumption == /\ First \in Senders /\ FirstReceiver \in Receivers
                            /\ NoOne \notin Senders
ASSUME SendsAssumption == MaxSends \in Nat

VARIABLES
    data,       \* the value behind the lock
    writer,     \* who holds the lock for writing
    version,
    tx_count,
    tx,         \* where each sender is: unborn, idle, in send or drop, gone
    rx,         \* where each receiver is: unborn, idle or in recv
    noti,       \* its Notified future: none, armed, or fired by notify_waiters
    seen,       \* its version
    got,        \* history: the last value recv returned
    none        \* history: recv has returned None

senderVars == <<data, writer, version, tx_count, tx>>
receiverVars == <<rx, seen, got, none>>
vars == <<senderVars, receiverVars, noti>>

Init ==
    /\ data = 1 /\ writer = NoOne /\ version = 1 /\ tx_count = 1
    /\ tx = [s \in Senders |-> IF s = First THEN "idle" ELSE "unborn"]
    /\ rx = [r \in Receivers |-> IF r = FirstReceiver THEN "idle" ELSE "unborn"]
    /\ noti = [r \in Receivers |-> "none"]
    /\ seen = [r \in Receivers |-> 0]
    /\ got = [r \in Receivers |-> 0]
    /\ none = [r \in Receivers |-> FALSE]

-----------------------------------------------------------------------------
(* Sender: send takes the lock, writes, counts the version up, unlocks, notifies *)

Goes(s, from, to) == tx[s] = from /\ tx' = [tx EXCEPT ![s] = to]

NotWritten == data                              \* mutant: the value is not written
Written == data + 1
Store(s) ==
    /\ Goes(s, "idle", "stored")
    /\ writer = NoOne /\ data <= MaxSends
    /\ writer' = s /\ data' = Written
    /\ UNCHANGED <<version, tx_count, receiverVars, noti>>

Bump(s) ==
    /\ Goes(s, "stored", "bumped")
    /\ version' = version + 1
    /\ UNCHANGED <<data, writer, tx_count, receiverVars, noti>>

Unlock(s) ==
    /\ Goes(s, "bumped", "notify")
    /\ writer' = NoOne
    /\ UNCHANGED <<data, version, tx_count, receiverVars, noti>>

\* notify_waiters: fires the Notified futures that exist, and no later one
WokenOne == [r \in Receivers |->                \* mutant: notify_one
    IF r = (CHOOSE q \in Receivers : (\E p \in Receivers : noti[p] = "armed")
                                        => noti[q] = "armed")
      THEN "fired" ELSE noti[r]]
Woken == [r \in Receivers |-> IF noti[r] = "armed" THEN "fired" ELSE noti[r]]
NotifyWaiters(s) ==
    /\ Goes(s, "notify", "idle") \/ Goes(s, "last", "gone")
    /\ noti' = Woken
    /\ UNCHANGED <<data, writer, version, tx_count, receiverVars>>

Uncounted == tx_count                           \* mutant: a clone is not counted
Counted == tx_count + 1
CloneSender(s, t) ==
    /\ tx[s] = "idle" /\ tx[t] = "unborn"
    /\ tx' = [tx EXCEPT ![t] = "idle"]
    /\ tx_count' = Counted
    /\ UNCHANGED <<data, writer, version, receiverVars, noti>>

NeverLast == FALSE                              \* mutant: the last drop tells nobody
LastOne == tx_count = 1
DropSender(s) ==
    /\ Goes(s, "idle", IF LastOne THEN "last" ELSE "gone")
    /\ tx_count' = tx_count - 1
    /\ UNCHANGED <<data, writer, version, receiverVars, noti>>

-----------------------------------------------------------------------------
(* Receiver::recv *)

\* notified(): created before the version is looked at, and awaited after it
AwaitedAnew(r) == "armed"                       \* mutant: another one is awaited
Awaited(r) == noti[r]
Listen(r) == noti' = [noti EXCEPT ![r] = "armed"]

Recv(r) ==
    /\ rx[r] = "idle"
    /\ rx' = [rx EXCEPT ![r] = "version"]
    /\ Listen(r)
    /\ UNCHANGED <<senderVars, seen, got, none>>

LoadVersion(r) ==
    /\ rx[r] = "version"
    /\ rx' = [rx EXCEPT ![r] = IF version # seen[r] THEN "read" ELSE "count"]
    /\ seen' = [seen EXCEPT ![r] = version]
    /\ UNCHANGED <<senderVars, noti, got, none>>

ReadData(r) ==
    /\ rx[r] = "read" /\ writer = NoOne
    /\ rx' = [rx EXCEPT ![r] = "idle"]
    /\ got' = [got EXCEPT ![r] = data]
    /\ noti' = [noti EXCEPT ![r] = "none"]
    /\ UNCHANGED <<senderVars, seen, none>>

LoadCount(r) ==
    /\ rx[r] = "count"
    /\ IF tx_count = 0
         THEN /\ rx' = [rx EXCEPT ![r] = "idle"]
              /\ noti' = [noti EXCEPT ![r] = "none"]
              /\ none' = [none EXCEPT ![r] = TRUE]
         ELSE /\ rx' = [rx EXCEPT ![r] = "wait"]
              /\ noti' = [noti EXCEPT ![r] = Awaited(r)]
              /\ UNCHANGED none
    /\ UNCHANGED <<senderVars, seen, got>>

\* noti.await is over: the loop starts again
Wake(r) ==
    /\ rx[r] = "wait" /\ noti[r] = "fired"
    /\ rx' = [rx EXCEPT ![r] = "version"]
    /\ Listen(r)
    /\ UNCHANGED <<senderVars, seen, got, none>>

\* select! takes another arm: the future is dropped at its only await
Abort(r) ==
    /\ rx[r] = "wait"
    /\ rx' = [rx EXCEPT ![r] = "idle"]
    /\ noti' = [noti EXCEPT ![r] = "none"]
    /\ UNCHANGED <<senderVars, seen, got, none>>

CloneReceiver(r, q) ==
    /\ rx[r] = "idle" /\ rx[q] = "unborn"
    /\ rx' = [rx EXCEPT ![q] = "idle"]
    /\ seen' = [seen EXCEPT ![q] = seen[r]]
    /\ got' = [got EXCEPT ![q] = got[r]]
    /\ UNCHANGED <<senderVars, noti, none>>

-----------------------------------------------------------------------------
Send(s) == Bump(s) \/ Unlock(s) \/ NotifyWaiters(s)
Receive(r) == Recv(r) \/ LoadVersion(r) \/ ReadData(r) \/ LoadCount(r) \/ Wake(r)

Next ==
    \/ \E s \in Senders : Store(s) \/ Send(s) \/ DropSender(s)
    \/ \E s, t \in Senders : CloneSender(s, t)
    \/ \E r \in Receivers : Receive(r) \/ Abort(r)
    \/ \E r, q \in Receivers : CloneReceiver(r, q)

Spec == Init /\ [][Next]_vars

\* threads that are in a call go on with it, and a receiver calls recv again: the
\* select! of bg_stream, which drops the call whenever another arm is first
FairSpec == /\ Spec
            /\ \A s \in Senders : WF_vars(Send(s))
            /\ \A r \in Receivers : WF_vars(Receive(r))
=============================================================================
