--------------------------- MODULE TimeoutProperties ---------------------------
(* When a read times out, whose fault that is, and that it does when it must. *)
EXTENDS Timeout

Packets == {"packet", "close", "eof"}
Frames == [kind : Packets, age : 0 .. Delay]

TimeoutTypeOK ==
    /\ timeout \in [Ends -> Timeouts]
    /\ timer \in [Ends -> 0 .. Cap] /\ active \in [Ends -> BOOLEAN]
    /\ interval \in [Ends -> 1 .. Cap] /\ due \in [Ends -> 1 .. Cap]
    /\ owed \in [Ends -> BOOLEAN]
    /\ place \in [Ends -> {"new", "select", "working"} \cup Writing \cup Gone]
    /\ closing \in [Ends -> {"no", "told", "asked"}]
    /\ wire \in [Ends -> Seq(Frames)]
    /\ socket \in [Ends -> Seq(Packets)]
    /\ late \in [Ends -> 0 .. Cap] /\ waited \in [Ends -> 0 .. Cap]
    /\ changes \in 0 .. MaxChanges

-----------------------------------------------------------------------------
(* The end that times out had heard nothing for all of its timeout.  The other one was
   lost, or a ping of it came late: as late as the margin of the interval and what the
   network takes do not allow for. *)
Heard(e) == LET p == Peer(e)
            IN \/ place[p] = "dead"
               \/ timeout[e] <= interval[p] + waited[e] + Delay
TimeoutOnlyOfTheLate == \A e \in Ends : place[e] = "timed_out" => Heard(e)

\* How long the timer of e has been running, when nothing has arrived since
Silence(e) == timeout[e] - timer[e]
SilenceBound(e) ==
    LET p == Peer(e)
    IN IF wire[e] # <<>> THEN interval[p] + waited[e] + Head(wire[e]).age
       ELSE IF Unpinged(p) THEN interval[p] + late[p]
       ELSE interval[p] - due[p]

\* a task that is gone has closed the stream: the end of it is still to be read
EndAhead(e) == \/ \E i \in DOMAIN wire[e] : wire[e][i].kind = "eof"
               \/ \E i \in DOMAIN socket[e] : socket[e][i] = "eof"

IntervalOK(e) == /\ due[e] <= interval[e]
                 /\ place[e] = "new" => owed[e]
                 /\ place[e] = "pinging" /\ owed[e] => interval[e] - due[e] <= late[e]
TimerOK(e) == active[e] => timer[e] <= timeout[e] /\ late[Peer(e)] <= waited[e]
EndOK(e) == place[Peer(e)] \in {"ended", "timed_out"} /\ place[e] \notin Gone => EndAhead(e)
SilenceOK(e) ==
    active[e] /\ socket[e] = <<>> /\ place[e] \notin Gone /\ place[Peer(e)] # "dead" =>
        Silence(e) <= SilenceBound(e)
SilenceExplained == \A e \in Ends : IntervalOK(e) /\ TimerOK(e) /\ EndOK(e) /\ SilenceOK(e)

TimeoutInv == TimeoutTypeOK /\ SilenceExplained /\ TimeoutOnlyOfTheLate

-----------------------------------------------------------------------------
(* Fairness, of an end that is not lost.  Time passes, the network delivers, users take what
   a task waits to give them; select! polls its arms in a random order, so that one which is
   ready again and again is taken. *)
Survivors == Ends \ Mortal
Fairness ==
    /\ WF_vars(Tick)
    /\ \A e \in Survivors :
          /\ WF_vars(Start(e)) /\ WF_vars(Arrive(e)) /\ WF_vars(Received(e))
          /\ WF_vars(Written(e)) /\ WF_vars(WriteFails(e))
          /\ SF_vars(ResetTimer(e)) /\ SF_vars(TimeOut(e)) /\ SF_vars(Receive(e) \/ ReceiveEof(e))
          /\ SF_vars(Ping(e)) /\ SF_vars(Finish(e))

FairSpec == Spec /\ Fairness

(* An end that is lost is noticed by the other, whatever that is doing: unless it waits
   for room in a stream that is no longer read, for a write has no timeout. *)
Stuck(e) == ~HasRoom(e) /\ (place[e] \in Writing \/ closing[e] = "asked")
LossNoticed == \A e \in Survivors :
    place[Peer(e)] = "dead" ~> place[e] \in Gone \/ Stuck(e)
================================================================================
