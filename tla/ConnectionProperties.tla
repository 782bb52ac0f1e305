------------------------- MODULE ConnectionProperties -------------------------
(* What must hold of a Connection, and the fairness under which it gets done. *)
EXTENDS Connection

Requests == {c \in Calls : IsRequest(c)}
Streams == Calls \ Requests

\* a call that was made on an earlier byte stream
Old(c) == id_of[c] < 0

\* ... or was dropped from the queue of its caller, which will never ask for it
Gone(c) == \/ Old(c)
           \/ /\ id_of[c] = NoId /\ res[c] # "idle"
              /\ c \notin CallsOf(rx_requests[CallerOf[c]])

\* Two ends of this code never refuse each other's packets nor trip over their
\* own ids: Handler::send returns no UnknownId, ExistingId or WrongPacketKind, and
\* the "generated a duplicate id" assertions hold (handler.rs 390-506, 533-548).
NoProtocolError ==
    \A p \in Peers : result[p] \in {"running", "Ok", "Io"}

\* A body reaches the user of the call it was meant for: ids never cross two
\* calls, whichever of them ended, was cancelled or failed to parse on the way.
Correlation ==
    \A c \in Calls : \A i \in 1 .. Len(down[c]) : down[c][i].call = c

\* ... as long as the ids of the two ends are apart: a server that starts to make
\* requests counts from U32_MID + 1, whatever the client has counted to before it
\* enabled them ("do we check all our existing ids?", handler.rs 362-365).
IdsApart ==
    \/ mode["server"] = "UniServer"
    \/ \A c \in Calls : CallerOf[c] = "client" => id_of[c] <= Mid \/ id_of[c] = NoId
CorrelationApart == IdsApart => Correlation

\* A user's handle is never left unheard: a pending Request is queued or has its
\* sender in waiting_on_stream, and whoever can still send is listened to, also
\* while closing, after StreamClosed and once the task has ended.
NoOrphan ==
    \A c \in Calls :
        /\ IsRequest(c) /\ res[c] = "pending" =>
              c \in CallsIn(waiting_on_stream[CallerOf[c]])
                    \cup CallsOf(rx_requests[CallerOf[c]])
        /\ tx[c] = "live" /\ ~shut[c] =>
              c \in CallsIn(waiting_on_user[Prod(c)]) \cup CallsOf(rx_requests[Prod(c)])

\* "The other side didn't bother to send a response" (error.rs 43): a NoResponse is
\* the responder's doing, who dropped its ResponseSender or closed its end.
NoResponseIsChosen ==
    \A c \in Requests : res[c] = "NoResponse" =>
        sent[c] = 0 /\ (tx[c] = "dropped" \/ should_close[Prod(c)] \/ Old(c))

-----------------------------------------------------------------------------
\* the packet task p is about to write, as a sequence
InHand(p) == IF Writing(p) THEN <<task[p].packet>> ELSE <<>>
OnTheWay(p) == link[p] \o InHand(p)
Carries(p, c, kinds) ==
    \E i \in 1 .. Len(OnTheWay(p)) :
        LET m == OnTheWay(p)[i] IN m.kind \in kinds /\ m.id = id_of[c]

\* While both ends serve the connection a waiting Request is in exactly one
\* place: its packet on the way, the responder's waiting_on_user, or the answer
\* on the way back.  None is forgotten and none is served twice.
OneToken ==
    \A c \in Requests :
        LET p == CallerOf[c]
            places == {w \in {"asked", "serving", "answered"} :
                CASE w = "asked" -> Carries(p, c, {"Request"})
                  [] w = "serving" -> c \in CallsIn(waiting_on_user[Other(p)])
                  [] w = "answered" -> Carries(Other(p), c,
                                         {"Response", "NoResponse", "MalformedRequest"})}
        IN ~broken /\ (\A q \in Peers : result[q] = "running" /\ ~should_close[q])
           /\ c \in CallsIn(waiting_on_stream[p]) => Cardinality(places) = 1

\* A ResponseSender::send that succeeded is not lost, not even when the responder
\* closes gracefully after it (to_send runs until it returns None before Close).
AnswerNotLost ==
    \A c \in Requests :
        LET p == CallerOf[c]
            q == Other(p)
        IN /\ sent[c] = 1 /\ ~broken
           /\ result[p] = "running" /\ ~should_close[p] /\ result[q] \in {"running", "Ok"}
           => res[c] # "pending" \/ up[c] # <<>> \/ Carries(q, c, {"Response"})

\* The messages of c in seq are those from low + 1 to high, each once and in order.
InFull(seq, c, low, high) ==
    LET mine == {i \in 1 .. Len(seq) : seq[i].kind = "Stream" /\ seq[i].call = c}
    IN /\ low <= high /\ {seq[i].n : i \in mine} = low + 1 .. high
       /\ \A i, k \in mine : i < k => seq[i].n < seq[k].n

\* what p has sent and the other end has not dealt with: the message its task is about
\* to put in a stream, and the packets on the way
InArms(p) ==
    IF Delivering(p) /\ task[p].packet.kind = "Stream" THEN <<task[p].packet>> ELSE <<>>
Track(p) == InArms(Other(p)) \o OnTheWay(p)

\* The messages of a stream between the producer's hand and the consumer's, oldest
\* first: what Connection holds of them, in the consumer's channel, on the way and in
\* the producer's channel, is all of them, once, in order, for as long as the consumer
\* listens, even if the producer's end has closed gracefully.
StreamConserved ==
    \A c \in Streams :
        LET first == got[c] + Len(down[c])
            last == sent[c] - Len(up[c])
        IN ~broken /\ ~Gone(c) /\ BadKinds = {} /\ rx[c] \notin {"closed", "dropped"}
           /\ result[Cons(c)] = "running" /\ ~should_close[Cons(c)]
           /\ result[Prod(c)] \in {"running", "Ok"}
           => /\ \A i \in 1 .. Len(down[c]) : down[c][i].n = got[c] + i
              /\ InFull(Track(Prod(c)), c, first, last)
              /\ \A i \in 1 .. Len(up[c]) : up[c][i] = last + i

\* Nobody waits on a stream whose other half is gone: while both ends serve the
\* connection a stream that is fed has its consumer's entry, and the reverse, or the
\* packet that opens or closes it is on the way.
StreamAttached ==
    \A c \in Streams :
        LET p == Prod(c)
            q == Cons(c)
            asked == Carries(CallerOf[c], c, {KindOf[c]})
            fed == c \in CallsIn(waiting_on_user[p]) /\ ~shut[c]
            awaited == c \in CallsIn(waiting_on_stream[q])
        IN ~broken /\ (\A r \in Peers : result[r] = "running" /\ ~should_close[r])
           => /\ fed => awaited \/ asked \/ Carries(q, c, {"StreamClosed"})
              /\ awaited => c \in CallsIn(waiting_on_user[p]) \/ asked
                             \/ Carries(p, c, {"StreamClosed"})

\* an entry of a table is under the id of its call
GenuineEntries ==
    \A p \in Peers : \A i \in Ids :
        LET waits == waiting_on_stream[p][i]
            feeds == waiting_on_user[p][i]
        IN /\ waits # NoCall => id_of[waits] = i /\ Cons(waits) = p
           /\ feeds # NoCall => id_of[feeds] = i /\ Prod(feeds) = p

\* An id in use at one end is in use there for one call only, in one of the two
\* tables, and both ends hold it for the same call.
IdUsedOnce ==
    /\ GenuineEntries
    /\ \A p \in Peers : \A i \in Ids :
          waiting_on_stream[p][i] = NoCall \/ waiting_on_user[p][i] = NoCall

-----------------------------------------------------------------------------
(* Why bodies are not confused: what every id stands for, wherever it is written *)

\* a packet of p has the id of the call its body belongs to, which p may send
Genuine(p, m) ==
    LET c == m.call IN
    m.kind \in BodyKinds =>
        /\ id_of[c] = m.id
        /\ m.kind \in RequestKinds => KindOf[c] = m.kind /\ CallerOf[c] = p
        /\ m.kind \in {"Response", "Stream"} =>
              Prod(c) = p /\ (m.kind = "Response" <=> IsRequest(c))
GenuinePackets ==
    \A p \in Peers :
        /\ \A i \in 1 .. Len(link[p]) : Genuine(p, link[p][i])
        /\ task[p].at = "write" => Genuine(p, task[p].packet)
        /\ task[p].at = "deliver" => Genuine(Other(p), task[p].packet)

\* ids are given in ascending order, once, by a server from U32_MID + 1
IdsAscend ==
    /\ mode["client"] \in {"UniClient", "BiClient"}
    /\ mode["server"] \in {"UniServer", "BiServer"}
    /\ mode["server"] = "BiServer" => next["server"] > Mid
    /\ \A c \in Calls : id_of[c] # NoId =>
          /\ id_of[c] < next[CallerOf[c]]
          /\ CallerOf[c] = "server" /\ ~Old(c) => mode["server"] = "BiServer" /\ id_of[c] > Mid
    /\ \A c, d \in Calls :
          CallerOf[c] = CallerOf[d] /\ id_of[c] = id_of[d] /\ id_of[c] # NoId => c = d

\* a call is queued once, by its caller, before it gets an id
QueuedOnce ==
    /\ \A p \in Peers : \A i \in 1 .. Len(rx_requests[p]) :
          LET c == rx_requests[p][i] IN c # Enable =>
            /\ CallerOf[c] = p /\ id_of[c] = NoId /\ res[c] # "idle"
            /\ \A j \in 1 .. Len(rx_requests[p]) : rx_requests[p][j] = c => i = j
    /\ \A c \in Calls : res[c] = "idle" => id_of[c] = NoId

\* CorrelationApart as an inductive invariant: packets, entries, counters and queues
\* agree on the call of every id, and every body was put where its id said.
CorrelationInv == /\ GenuinePackets /\ GenuineEntries
                  /\ IdsAscend /\ QueuedOnce
                  /\ CorrelationApart

-----------------------------------------------------------------------------
\* Connection is an implementation of Rpc; a body of another call, a repeated or a
\* late one would be a message that was never sent.
InOrder(c) == \A i \in 1 .. Len(down[c]) :
    /\ down[c][i].call = c
    /\ down[c][i].n > IF i = 1 THEN got[c] ELSE down[c][i - 1].n
rpc == INSTANCE Rpc WITH
          Lossy <- "Stream" \in BadKinds,
          outcome <- res,
          arrived <- [c \in Calls |->
              IF InOrder(c) THEN LastN(c) ELSE MaxMsgs + 1]
\* Every behaviour of the connection is one of Rpc, seen from the users' handles.
ImplementsRpc == rpc!Spec

-----------------------------------------------------------------------------
(* Fairness.  A task runs whenever an await of it can complete; select! starts at *)
(* a random arm, so an arm that is ready again and again is taken.                *)
FairTasks ==
    \A p \in Peers :
        /\ WF_vars(Deliver(p)) /\ WF_vars(Send(p)) /\ WF_vars(Finish(p))
        /\ WF_vars(Reconnect)
        /\ SF_vars(Recv(p)) /\ SF_vars(CloseSignal(p))
        /\ SF_vars(\E id \in Ids : ToSendUser(p, id))
        /\ SF_vars(ToSendEnable(p) \/ ToSendRequest(p) \/ ToSendDuplicate(p) \/ ToSendNoId(p))

\* users that take what arrives, and answer or drop the senders they hold
FairUsers ==
    /\ \A p \in Peers : WF_vars(Receive(p))
    /\ \A c \in Calls : WF_vars(Answer(c) \/ DropSender(c)) /\ WF_vars(Take(c))

FairSpec == Spec /\ FairTasks /\ FairUsers

\* Both ends await the end of a write to a full byte stream and neither reads, which the
\* todo in bg_stream leaves open (handler.rs 701-710): only a failure of the stream ends it.
Jammed ==
    /\ ~broken
    /\ \A p \in Peers : Writing(p) /\ ~Hung(p) /\ Len(link[p]) = LinkCap

\* A Request future ends, whatever pings, other calls, a closing server and a failing byte
\* stream do meanwhile, unless the connection jams.
RequestEnds == \A c \in Requests : res[c] = "pending" ~> res[c] # "pending" \/ Jammed

\* The consumer of a stream learns that it is over once its producer is done: the entry
\* that keeps StreamReceiver::receive waiting goes, unless the connection jams.
StreamEnds == \A c \in Streams :
    tx[c] = "dropped" /\ c \in CallsIn(waiting_on_stream[Cons(c)])
        ~> c \notin CallsIn(waiting_on_stream[Cons(c)]) \/ Jammed

\* Once told to close, the background task ends, unless the connection jams.
CloseEnds == \A p \in MayClose : close_signal[p] # "no" ~> result[p] # "running" \/ Jammed
===============================================================================
