--------------------------------- MODULE Timeout --------------------------------
(***************************************************************************)
(* The two clocks of a connection: the read timeout of TimeoutReader and the  *)
(* interval at which bg_stream sends a ping, so that the other end's timeout   *)
(* is not reached.  Time goes in ticks; what is ready at a select! is done      *)
(* before the next tick, an arm that awaits a user or room in the stream takes  *)
(* as long as it takes.                                                        *)
(***************************************************************************)
EXTENDS Integers, Sequences, FiniteSetsExt

CONSTANTS
    Ends,           \* two
    Timeouts,       \* what a Config may hold, in ticks
    Initially,      \* those that a connection may start with
    Sec,            \* ticks of a second
    Delay,          \* a packet arrives at most so many ticks after it was written
    Room,           \* packets that are written and not read
    Cap,            \* lateness is counted up to here
    MaxChanges,     \* bound on new Configs
    Mortal, Closers, Configured     \* the ends that may die, be closed, be configured

\* interval() panics for a period of 0
ASSUME TimeoutAssumption ==
    /\ \E a, b \in Ends : a # b /\ Ends = {a, b}
    /\ Sec \in Nat \ {0} /\ Delay \in Nat /\ Room \in Nat \ {0}
    /\ Cap \in Nat /\ MaxChanges \in Nat
    /\ Initially \subseteq Timeouts /\ Timeouts \subseteq 1 .. Cap
    /\ Mortal \subseteq Ends /\ Closers \subseteq Ends /\ Configured \subseteq Ends

VARIABLES
    timeout,        \* TimeoutReader
    timer, active,  \* ticks that remain; whether the timer was reset since the last read
    interval,
    due,            \* ticks until the next tick of the interval
    owed,           \* a tick of the interval is ready
    place,          \* where bg_stream is, or how it ended
    closing,        \* should_close, and whether close_packet was set
    wire,           \* packets on the way to this end, with their ages
    socket,         \* those that arrived and are not read
    late,           \* age of the tick whose ping is not written yet
    waited,         \* the greatest age of such a tick of the other end while timer runs
    changes

clocks == <<timer, active, due, owed, late, waited>>
stream == <<wire, socket>>
vars == <<timeout, timer, active, interval, due, owed, place, closing, wire, socket,
          late, waited, changes>>

Peer(e) == CHOOSE p \in Ends : p # e

-----------------------------------------------------------------------------
(* diff: what the ping comes earlier than the timeout, by as_secs(), its whole seconds *)
Margin(t) == IF t < 2 * Sec THEN 0 ELSE IF t < 11 * Sec THEN Sec ELSE 5 * Sec
Period(t) == t - Margin(t)

Init == /\ timeout \in [Ends -> Initially]
        /\ interval = [e \in Ends |-> Period(timeout[e])]
        /\ due = interval
        /\ timer = [e \in Ends |-> 0] /\ active = [e \in Ends |-> FALSE]
        /\ owed = [e \in Ends |-> TRUE]                 \* the first tick is ready at once
        /\ place = [e \in Ends |-> "new"]
        /\ closing = [e \in Ends |-> "no"]
        /\ wire = [e \in Ends |-> <<>>] /\ socket = [e \in Ends |-> <<>>]
        /\ late = [e \in Ends |-> 0] /\ waited = [e \in Ends |-> 0]
        /\ changes = 0

Gone == {"ended", "timed_out", "dead"}
Writing == {"sending", "pinging"}
Unpinged(e) == owed[e] \/ place[e] = "pinging"
Selecting(e) == place[e] = "select"
Reading(e) == Selecting(e) /\ closing[e] = "no"
Goto(e, p) == place' = [place EXCEPT ![e] = p]

Frame(kind) == [kind |-> kind, age |-> 0]
OnWire(e, frames) == wire' = [wire EXCEPT ![Peer(e)] = @ \o frames]

\* bg_stream returns: its interval is dropped, and the stream with what is not read of it
Return(e, how, left) ==
    /\ Goto(e, how)
    /\ active' = [active EXCEPT ![e] = FALSE] /\ timer' = [timer EXCEPT ![e] = 0]
    /\ owed' = [owed EXCEPT ![e] = FALSE] /\ due' = [due EXCEPT ![e] = interval[e]]
    /\ late' = [late EXCEPT ![e] = 0]
    /\ wire' = [wire EXCEPT ![Peer(e)] = left, ![e] = <<>>]
    /\ socket' = [socket EXCEPT ![e] = <<>>]
    /\ closing' = [closing EXCEPT ![e] = "no"]
    /\ UNCHANGED <<timeout, interval, waited, changes>>
HangUp(e, how, frames) == Return(e, how, wire[Peer(e)] \o frames)

-----------------------------------------------------------------------------
(* TimeoutReader *)

\* mutant: a read leaves the timer as it is
KeepTimer(e) == UNCHANGED <<timer, active, waited>>
\* not active: the time it is at is of no meaning
StopTimer(e) == /\ active' = [active EXCEPT ![e] = FALSE]
                /\ timer' = [timer EXCEPT ![e] = 0]
                /\ waited' = [waited EXCEPT ![e] = 0]

\* poll_timeout, for a read that is pending
\* mutant: the timer is reset at every poll
PollAnew(e) == active[e] => timer[e] < timeout[e]
NeedsTimer(e) == ~active[e]
\* mutant: the timer is polled before the stream
TimerFirst(e) == Reading(e)
Pending(e) == Reading(e) /\ socket[e] = <<>>
ResetTimer(e) ==
    /\ Pending(e) /\ NeedsTimer(e)
    /\ timer' = [timer EXCEPT ![e] = timeout[e]]
    /\ active' = [active EXCEPT ![e] = TRUE]
    /\ waited' = [waited EXCEPT ![e] = late[Peer(e)]]
    /\ UNCHANGED <<timeout, interval, due, owed, place, closing, stream, late, changes>>

\* bg_stream returns the error, its stream is dropped
TimeOut(e) ==
    /\ Pending(e) /\ active[e] /\ timer[e] = 0
    /\ HangUp(e, "timed_out", <<Frame("eof")>>)

SetTimeout(e, t) ==
    /\ e \in Configured /\ Reading(e) /\ changes < MaxChanges
    /\ timeout' = [timeout EXCEPT ![e] = t]
    /\ StopTimer(e)
    /\ changes' = changes + 1
    /\ UNCHANGED <<interval, due, owed, place, closing, stream, late>>

-----------------------------------------------------------------------------
(* The arms of bg_stream *)

Start(e) == /\ place[e] = "new"
            /\ Goto(e, "select")
            /\ UNCHANGED <<timeout, interval, clocks, closing, stream, changes>>

\* a request may wait for room in the user's channel
Receive(e) ==
    /\ Reading(e) /\ socket[e] # <<>> /\ Head(socket[e]) # "eof"
    /\ socket' = [socket EXCEPT ![e] = Tail(@)]
    /\ StopTimer(e)
    /\ IF Head(socket[e]) = "close"
         THEN closing' = [closing EXCEPT ![e] = "told"] /\ UNCHANGED place
         ELSE (\E p \in {"select", "working"} : Goto(e, p)) /\ UNCHANGED closing
    /\ UNCHANGED <<timeout, interval, due, owed, wire, late, changes>>

ReceiveEof(e) == /\ Reading(e) /\ socket[e] # <<>> /\ Head(socket[e]) = "eof"
                 /\ HangUp(e, "ended", <<Frame("eof")>>)

Received(e) == /\ place[e] = "working"
               /\ Goto(e, "select")
               /\ UNCHANGED <<timeout, interval, clocks, closing, stream, changes>>

\* to_send: a user has something, also while the task closes
Send(e) == /\ Selecting(e)
           /\ Goto(e, "sending")
           /\ UNCHANGED <<timeout, interval, clocks, closing, stream, changes>>

Ping(e) == /\ Reading(e) /\ owed[e]
           /\ Goto(e, "pinging")
           /\ owed' = [owed EXCEPT ![e] = FALSE]
           /\ UNCHANGED <<timeout, timer, active, interval, due, closing, stream, late, waited,
                          changes>>

HasRoom(e) == Len(wire[Peer(e)]) + Len(socket[Peer(e)]) < Room

\* on a way that is lost a ping takes no room: what the operating system keeps for an end
\* it takes to be there holds more pings than a timeout has
Packet(e) == IF place[e] = "pinging" /\ place[Peer(e)] = "dead" THEN <<>> ELSE <<Frame("packet")>>
Written(e) ==
    /\ place[e] \in Writing /\ HasRoom(e)
    /\ Goto(e, "select") /\ OnWire(e, Packet(e))
    /\ late' = [late EXCEPT ![e] = IF place[e] # "pinging" THEN @
                                   ELSE IF owed[e] THEN interval[e] - due[e] ELSE 0]
    /\ UNCHANGED <<timeout, timer, active, interval, due, owed, closing, socket, waited, changes>>

WriteFails(e) ==
    /\ place[e] \in Writing /\ place[Peer(e)] \in {"ended", "timed_out"}
    /\ HangUp(e, "ended", <<Frame("eof")>>)

Close(e) == /\ e \in Closers /\ Reading(e)
            /\ closing' = [closing EXCEPT ![e] = "asked"]
            /\ UNCHANGED <<timeout, interval, clocks, place, stream, changes>>

\* nothing is left to send: the close packet, and shutdown
Finish(e) ==
    /\ Selecting(e) /\ closing[e] # "no"
    /\ closing[e] = "asked" => HasRoom(e)
    /\ HangUp(e, "ended", IF closing[e] = "asked" THEN <<Frame("close"), Frame("eof")>> ELSE <<Frame("eof")>>)

-----------------------------------------------------------------------------
(* The network, and time *)

\* the machine is lost, or the way to it, and what was on that way
Die(e, n) ==
    /\ e \in Mortal /\ place[e] \notin Gone \cup {"new"}
    /\ Return(e, "dead", SubSeq(wire[Peer(e)], 1, n))

Arrive(e) ==
    /\ wire[e] # <<>> /\ place[e] \notin Gone
    /\ socket' = [socket EXCEPT ![e] = Append(@, Head(wire[e]).kind)]
    /\ wire' = [wire EXCEPT ![e] = Tail(@)]
    /\ UNCHANGED <<timeout, interval, clocks, place, closing, changes>>

\* what a select! does before it waits
Ready(e) == Reading(e) /\ (socket[e] # <<>> \/ owed[e] \/ NeedsTimer(e) \/ timer[e] = 0)

Older(n) == Min({n + 1, Cap})
Aged(w) == [i \in DOMAIN w |-> [kind |-> w[i].kind, age |-> Min({w[i].age + 1, Delay})]]
Counts(e) == place[e] \notin Gone \cup {"new"}
Elapsed(e) == Counts(e) /\ due[e] = 1

\* MissedTickBehavior::Skip: a tick that comes while one is ready is not owed twice
Tick ==
    /\ \E e \in Ends : place[e] \notin Gone
    /\ \A e \in Ends : /\ ~Ready(e)
                       /\ place[e] \notin Gone /\ wire[e] # <<>> => Head(wire[e]).age < Delay
    /\ timer' = [e \in Ends |-> IF active[e] /\ timer[e] > 0 THEN timer[e] - 1 ELSE timer[e]]
    /\ due' = [e \in Ends |-> IF Elapsed(e) THEN interval[e]
                              ELSE IF Counts(e) THEN due[e] - 1 ELSE due[e]]
    /\ owed' = [e \in Ends |-> owed[e] \/ Elapsed(e)]
    /\ late' = [e \in Ends |-> IF Unpinged(e) THEN Older(late[e]) ELSE 0]
    /\ waited' = [e \in Ends |-> IF active[e] THEN Max({waited[e], late'[Peer(e)]}) ELSE waited[e]]
    /\ wire' = [e \in Ends |-> Aged(wire[e])]
    /\ UNCHANGED <<timeout, active, interval, place, closing, socket, changes>>

-----------------------------------------------------------------------------
Task(e) == \/ Start(e) \/ ResetTimer(e) \/ TimeOut(e) \/ Receive(e) \/ ReceiveEof(e)
           \/ Received(e) \/ Send(e) \/ Ping(e) \/ Written(e) \/ WriteFails(e) \/ Close(e) \/ Finish(e)
           \/ \E t \in Timeouts : SetTimeout(e, t)

Next == \/ \E e \in Ends : Task(e) \/ Arrive(e)
        \/ \E e \in Ends : \E n \in 0 .. Len(wire[Peer(e)]) : Die(e, n)
        \/ Tick

Spec == Init /\ [][Next]_vars
================================================================================
