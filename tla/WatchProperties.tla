---------------------------- MODULE WatchProperties ----------------------------
(* What the configuration channel promises a task and its Configurators. *)
EXTENDS Watch

Alive == {s \in Senders : tx[s] \notin {"unborn", "last", "gone"}}

WatchTypeOK ==
    /\ data \in 1 .. MaxSends + 1 /\ version \in 1 .. MaxSends + 1
    /\ writer \in Senders \cup {NoOne}
    /\ tx_count \in Nat
    /\ tx \in [Senders -> {"unborn", "idle", "stored", "bumped", "notify", "last", "gone"}]
    /\ rx \in [Receivers -> {"unborn", "idle", "version", "read", "count", "wait"}]
    /\ noti \in [Receivers -> {"none", "armed", "fired"}]
    /\ seen \in [Receivers -> 0 .. MaxSends + 1]
    /\ got \in [Receivers -> 0 .. MaxSends + 1]
    /\ none \in [Receivers -> BOOLEAN]

\* The version and the value are read apart, without the lock between (watch.rs
\* 100-103): a receiver may get a value newer than the version it notes, and then
\* again, but never notes the version of a value it has not been given.
NeverStale ==
    \A r \in Receivers : rx[r] # "read" => got[r] >= seen[r]

\* "to not miss any notification that could be sent between our check" (watch.rs
\* 95-97): whoever sleeps on has seen the newest version, and a sender, or somebody
\* is about to wake it.
NoLostWakeup ==
    \A r \in Receivers : rx[r] = "wait" /\ noti[r] = "armed" =>
        /\ seen[r] # version => \E s \in Senders : tx[s] \in {"bumped", "notify"}
        /\ tx_count = 0 => \E s \in Senders : tx[s] = "last"

\* "Returns None if there isn't any sender left" (watch.rs 89), and only then, also
\* if senders are cloned and dropped meanwhile.
NoneIsTheEnd == (\E r \in Receivers : none[r]) => Alive = {}

-----------------------------------------------------------------------------
(* Why: what the lock, the count and the order of accesses keep true in between *)

\* data is one ahead of version between the two writes under the lock
Versioned ==
    /\ \A s \in Senders : tx[s] \in {"stored", "bumped"} <=> writer = s
    /\ data = IF \E s \in Senders : tx[s] = "stored" THEN version + 1 ELSE version

SeenInTime ==
    /\ NeverStale
    /\ \A r \in Receivers : seen[r] <= version

\* a receiver that has compared the versions, asleep or not yet
Awakened ==
    /\ NoLostWakeup
    /\ \A r \in Receivers :
          rx[r] = "count" /\ noti[r] = "armed" /\ seen[r] # version =>
            \E s \in Senders : tx[s] \in {"bumped", "notify"}

CountsAlive == IsFiniteSet(Alive) /\ tx_count = Cardinality(Alive)

WatchInv == /\ WatchTypeOK /\ Versioned /\ SeenInTime /\ Awakened
            /\ CountsAlive /\ NoneIsTheEnd

-----------------------------------------------------------------------------
\* A configuration that was sent arrives, or a newer one, however often recv is
\* dropped at its await.
NewestArrives ==
    \A r \in Receivers : \A v \in 1 .. MaxSends + 1 :
        rx[r] # "unborn" /\ version = v ~> got[r] >= v

\* Every receiver that goes on learns that the last sender was dropped.
EndArrives ==
    \A r \in Receivers :
        rx[r] # "unborn" /\ Alive = {} ~> none[r]
=============================================================================
