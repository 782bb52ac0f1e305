--------------------------- MODULE CallInvariants ---------------------------
(* Why the properties of a Connection hold: what is true of a call wherever it  *)
(* is, from the queue of its caller to the outcome of its Request.  They are     *)
(* inductive: with TypeOK and CorrelationInv each step of the code keeps them.   *)
EXTENDS ConnectionProperties

\* the end that serves a call
Callee(c) == Other(CallerOf[c])

\* a sequence has an element of S, or at most one
Has(seq, S) == \E i \in 1 .. Len(seq) : seq[i] \in S
Once(seq, S) == \A i, j \in 1 .. Len(seq) : seq[i] \in S /\ seq[j] \in S => i = j

\* the packets that ask for a call, and those of some kinds that have an id
AskFor(c) == [kind : RequestKinds, id : Ids, call : {c}, n : 0 .. MaxMsgs]
With(id, kinds) == [kind : kinds, id : {id}, call : Calls \cup {NoCall}, n : 0 .. MaxMsgs]
AnswerKinds == {"Response", "NoResponse", "MalformedRequest"}

\* what waits for the user of p to receive it, and what its task is about to add
Handed(p) == tx_requests[p] \o
    (IF Delivering(p) /\ task[p].packet.kind # "Stream" THEN <<Item(task[p].packet)>> ELSE <<>>)

\* where a call is
Asked(c) == Has(OnTheWay(CallerOf[c]), AskFor(c))
IsHanded(c) == Has(Handed(Callee(c)), {c})
Served(c) == c \in CallsIn(waiting_on_user[Callee(c)])
Awaited(c) == c \in CallsIn(waiting_on_stream[CallerOf[c]])
Answered(c, kinds) == Has(OnTheWay(Callee(c)), With(id_of[c], kinds))
HasToken(c) == Asked(c) \/ Served(c) \/ Answered(c, AnswerKinds)

\* a task that has ended is in no arm of its select
Ended == \A p \in Peers : result[p] # "running" => task[p].at = "select"

\* ... and has dropped its Handler, but for a client that will reconnect
Dropped ==
    \A p \in Peers : result[p] # "running" /\ ~KeepsHandler(p, result[p]) =>
        /\ ~rx_open[p] /\ rx_requests[p] = <<>>
        /\ waiting_on_stream[p] = EmptyTable /\ waiting_on_user[p] = EmptyTable

\* A client takes nothing of its old byte stream to a new one: it feeds no stream and owes
\* no answer (close_all_started leaves those in waiting_on_user, under ids that start
\* again at 0, handler.rs 617-624, 798-820), and it gave no id of its server's before.
Clean == waiting_on_user["client"] = EmptyTable /\ IdsApart
CleanReconnects == [][Reconnect => Clean]_vars

\* A client that only asks: it never enables server requests and sends no stream
OnlyAsks == /\ MayEnable = 0
            /\ \A c \in Calls : CallerOf[c] = "client" => KindOf[c] # "RequestSender"

\* ... feeds nobody and has no server that counts ids, so all its reconnections are clean
OwesNothing ==
    /\ mode["client"] = "UniClient" /\ mode["server"] = "UniServer"
    /\ waiting_on_user["client"] = EmptyTable
    /\ \A i \in 1 .. Len(rx_requests["client"]) : rx_requests["client"][i] # Enable
    /\ \A p \in Peers : \A i \in 1 .. Len(OnTheWay(p)) :
          OnTheWay(p)[i].kind # "EnableServerRequests"

-----------------------------------------------------------------------------
(* Handles *)

\* a call is queued by its caller, and asked of the other end under its kind
OwnCalls ==
    \A p \in Peers :
        /\ \A c \in CallsOf(rx_requests[p]) : CallerOf[c] = p
        /\ \A i \in 1 .. Len(OnTheWay(p)) :
              LET m == OnTheWay(p)[i] IN
              m.kind \in RequestKinds => KindOf[m.call] = m.kind /\ CallerOf[m.call] = p

\* a handle that is on its way to a user has its entry already
HandedIsFed ==
    \A c \in Calls : c \in CallsOf(Handed(Prod(c))) /\ ~shut[c] =>
        c \in CallsIn(waiting_on_user[Prod(c)])

\* NoOrphan as an inductive invariant, with TypeOK: Receiver::receive gives a handle
\* to a user long after Handler::send has made its entry, and the entry is still there.
OrphanInv == Ended /\ NoOrphan /\ OwnCalls /\ HandedIsFed

-----------------------------------------------------------------------------
(* Requests *)

\* a call is asked once, of an end that does not know of it yet
AskedOnce(c) ==
    /\ Once(OnTheWay(CallerOf[c]), AskFor(c))
    /\ id_of[c] = NoId \/ Asked(c) =>
          ~Served(c) /\ ~IsHanded(c) /\ c \notin CallsIn(waiting_on_stream[Callee(c)])

\* it is asked, then served, then answered, and answered once
OnePlace(c) ==
    /\ Once(OnTheWay(Callee(c)), With(id_of[c], AnswerKinds))
    /\ Asked(c) \/ Served(c) => ~Answered(c, AnswerKinds)

\* nothing was done with the responder's handle, which nobody has
Unheard(c) == tx[c] = "none" /\ sent[c] = 0 /\ up[c] = <<>> /\ ~IsHanded(c) /\ ~shut[c]

\* the responder's handle exists once, and what it sent is in the hands of its task
HandleOf(c) ==
    /\ id_of[c] = NoId \/ Asked(c) => Unheard(c)
    /\ IsHanded(c) => tx[c] = "none"
    /\ Once(Handed(Callee(c)), {c})
    /\ sent[c] <= 1 /\ (tx[c] # "dropped" => sent[c] = 0)
    /\ Served(c) => Len(up[c]) = sent[c]
    /\ up[c] # <<>> => Served(c)

\* nobody will answer a call that was asked and is no longer served
Past(c) == id_of[c] # NoId /\ ~Asked(c) /\ ~Served(c)

\* an answer says what the responder did, and so does the outcome of the Request
Meaning(c) ==
    /\ Answered(c, {"NoResponse"}) \/ res[c] = "NoResponse" =>
          Past(c) /\ sent[c] = 0 /\ (tx[c] = "dropped" \/ shut[c])
    /\ Answered(c, {"MalformedRequest"}) \/ res[c] = "MalformedRequest" =>
          Past(c) /\ Unheard(c)
    /\ Answered(c, {"Response"}) => sent[c] = 1
    /\ res[c] \in {"idle", "AlreadyClosed"} =>
          id_of[c] = NoId /\ c \notin CallsOf(rx_requests[CallerOf[c]])

\* the packets that are about an id, without a body, are about a call that has it
ControlIds ==
    \A p \in Peers : \A i \in 1 .. Len(OnTheWay(p)) :
        LET m == OnTheWay(p)[i] IN
        /\ m.kind \in {"NoResponse", "MalformedRequest"} =>
              \E c \in Requests : id_of[c] = m.id /\ Callee(c) = p
        /\ m.kind = "StreamClosed" => \E c \in Streams : id_of[c] = m.id

\* A Request is asked of the other end once, served once and answered once, by a
\* packet that says what became of the ResponseSender (handler.rs 390-480, 537-560).
RequestInv ==
    /\ ControlIds
    /\ \A c \in Calls : AskedOnce(c)
    /\ \A c \in Requests : OnePlace(c) /\ HandleOf(c) /\ Meaning(c)

-----------------------------------------------------------------------------
\* both ends serve the connection
Open == ~broken /\ \A q \in Peers : result[q] = "running" /\ ~should_close[q]

\* OneToken, one half: no waiting Request is forgotten
NoneForgotten == \A c \in Requests : Open /\ Awaited(c) => HasToken(c)

\* The ids of the two ends being apart, a responder's channel is closed by its own end
\* only, and whoever is to be answered waits for it.
Chosen(c) ==
    /\ Served(c) /\ shut[c] => should_close[Callee(c)]
    /\ Answered(c, {"NoResponse"}) \/ res[c] = "NoResponse" =>
          tx[c] = "dropped" \/ should_close[Callee(c)] \/ Old(c)
Expected(c) ==
    HasToken(c) /\ result[CallerOf[c]] = "running" /\ ~should_close[CallerOf[c]] => Awaited(c)
ApartInv == IdsApart => \A c \in Requests : Chosen(c) /\ Expected(c)

\* a client learns that the server may call it before the server does
EnabledFirst ==
    /\ \A i \in 1 .. Len(rx_requests["server"]) : rx_requests["server"][i] # Enable
    /\ \A i \in 1 .. Len(OnTheWay("server")) : OnTheWay("server")[i].kind # "EnableServerRequests"
    /\ \/ mode["server"] = "BiServer"
       \/ \E i \in 1 .. Len(OnTheWay("client")) :
             OnTheWay("client")[i].kind = "EnableServerRequests"
       => mode["client"] = "BiClient"
    /\ mode["client"] = "BiClient" => next["client"] <= Mid \/ next["client"] = NoId

\* no end that may send requests has run out of ids
IdsLeft == \A p \in Peers : CanSendRequests(p) => next[p] # NoId

\* a task that is saying Close, or has ended after it, has answered all it was asked
Saying(p, kind) == task[p].at = "write" /\ task[p].packet.kind = kind
Drained == \A p \in Peers : result[p] = "Ok" \/ Saying(p, "Close") => waiting_on_user[p] = EmptyTable

-----------------------------------------------------------------------------
\* Everything that is true of a call and of its id while reconnections are clean:
\* what the handler does at one end leaves the other end able to go on (handler.rs 353-561).
CallsInv == /\ CorrelationInv /\ OrphanInv
            /\ RequestInv /\ NoneForgotten
            /\ ApartInv /\ EnabledFirst
            /\ IdsLeft => Drained

-----------------------------------------------------------------------------
(* Streams *)

Feeds(c) == c \in CallsIn(waiting_on_user[Prod(c)])
Reads(c) == c \in CallsIn(waiting_on_stream[Cons(c)])
Wanted(c) == rx[c] \notin {"closed", "dropped"}

\* the messages of a stream, and how many its task has taken
Messages(c) == [kind : {"Stream"}, id : Ids, call : {c}, n : 0 .. MaxMsgs]
Out(c) == sent[c] - Len(up[c])

\* nothing is taken from a producer before the other end knows of the stream, and
\* nothing was done with a handle that nobody has
Beginning(c) ==
    /\ \/ res[c] = "idle" \/ c \in CallsOf(rx_requests[CallerOf[c]])
       \/ Asked(c) /\ KindOf[c] = "RequestReceiver"
       => Out(c) = 0
    /\ KindOf[c] = "RequestSender" /\ (id_of[c] = NoId \/ Asked(c) \/ IsHanded(c)) => rx[c] = "none"
    /\ Once(Handed(Callee(c)), {c}) /\ ~Has(Handed(CallerOf[c]), {c})
    /\ \A i, k \in 1 .. Len(OnTheWay(Prod(c))) :
          OnTheWay(Prod(c))[i] \in Messages(c) /\ OnTheWay(Prod(c))[k] \in AskFor(c) => k < i
    /\ res[c] \in {"idle", "pending", "AlreadyClosed"}
    /\ res[c] # "pending" => id_of[c] = NoId /\ c \notin CallsOf(rx_requests[CallerOf[c]])

\* the packets of seq that are in S have ascending numbers, above low and up to high
Rising(seq, S, low, high) ==
    /\ \A i \in 1 .. Len(seq) : seq[i] \in S => low < seq[i].n /\ seq[i].n <= high
    /\ \A i, k \in 1 .. Len(seq) : i < k /\ seq[i] \in S /\ seq[k] \in S => seq[i].n < seq[k].n

\* from the consumer's channel back to the producer's the numbers ascend
Ascending(c) ==
    /\ InOrder(c) /\ LastN(c) <= Out(c)
    /\ \A i \in 1 .. Len(up[c]) : up[c][i] = Out(c) + i
    /\ Rising(Track(Prod(c)), Messages(c), LastN(c), Out(c))

\* the consumer's end still puts what arrives where the consumer takes it
Listening(c) == /\ ~broken /\ result[Cons(c)] = "running" /\ Wanted(c)
                /\ Reads(c) \/ (Asked(c) /\ KindOf[c] = "RequestSender")

\* seq has every number of S above low and up to high, or a last one if no more will come
Complete(seq, S, low, high, more) ==
    \A k \in low + 1 .. high :
        \/ Has(seq, {m \in S : m.n = k})
        \/ ~more /\ \A i \in 1 .. Len(seq) : seq[i] \in S => seq[i].n < k

\* unless bodies fail to parse no number is left out
Gapless(c) ==
    /\ Listening(c) => Complete(Track(Prod(c)), Messages(c), LastN(c), Out(c), Feeds(c))
    /\ Wanted(c) => \A i \in 1 .. Len(InArms(Cons(c))) :
          InArms(Cons(c))[i] \in Messages(c) => InArms(Cons(c))[i].n = LastN(c) + 1

\* a message is put where Handler::send found an entry: no other arm runs meanwhile
Attended == \A p \in Peers : \A i \in 1 .. Len(InArms(p)) :
                waiting_on_stream[p][InArms(p)[i].id] \in Streams

\* a Request has one answer, with the number one
Single(c) ==
    /\ got[c] = 0 /\ Len(down[c]) <= 1
    /\ \A i \in 1 .. Len(up[c]) : up[c][i] = 1
    /\ \A i \in 1 .. Len(down[c]) : down[c][i].n = 1
FirstAnswers == \A p \in Peers : \A i \in 1 .. Len(OnTheWay(p)) :
                    OnTheWay(p)[i].kind = "Response" => OnTheWay(p)[i].n = 1

\* What a connection holds of a call is what its producer put in and its consumer has not
\* taken, in order (handler.rs 403-436, 537-611, sender.rs, receiver.rs).
OrderInv ==
    /\ broken => \A p \in Peers : link[p] = <<>>
    /\ Attended
    /\ FirstAnswers /\ \A c \in Requests : Single(c)
    /\ \A c \in Streams : Beginning(c)
    /\ IdsApart => \A c \in Streams :
          Ascending(c) /\ ("Stream" \notin BadKinds => Gapless(c))

-----------------------------------------------------------------------------
(* How streams end *)

\* p has said, of the id of c, that its half of the stream is closed
Closing(p, c) == Has(OnTheWay(p), With(id_of[c], {"StreamClosed"}))

\* an end says that a stream is closed after all else that it has to say of it, and
\* when the callee has read the packet that opens it, or the producer's entry is gone
ClosedLast(c) ==
    /\ Closing(Callee(c), c) => ~Asked(c)
    /\ Closing(Prod(c), c) => ~Feeds(c)
    /\ \A i, k \in 1 .. Len(OnTheWay(Prod(c))) :
          /\ OnTheWay(Prod(c))[i] \in Messages(c) \cup AskFor(c)
          /\ OnTheWay(Prod(c))[k] \in With(id_of[c], {"StreamClosed"})
          => i < k

\* between ends that serve, the two halves of a stream are there, or one of them is
\* about to be made or has said that it is gone
Attached(c) ==
    LET p == Prod(c)
        q == Cons(c)
    IN Open =>
         /\ Feeds(c) /\ ~shut[c] => Reads(c) \/ Asked(c) \/ Closing(q, c)
         /\ Reads(c) => Feeds(c) \/ Asked(c) \/ Closing(p, c)
         /\ Asked(c) => IF p = CallerOf[c] THEN Feeds(c) \/ Closing(p, c) ELSE Reads(c)

\* bodies parse, and the consumer's end listens to a producer that did not fail
Lasting(c) ==
    /\ ~broken /\ ~Gone(c) /\ BadKinds = {} /\ Wanted(c)
    /\ result[Cons(c)] = "running" /\ ~should_close[Cons(c)]
    /\ result[Prod(c)] \in {"running", "Ok"}

\* then nothing of a stream is lost, also while the producer closes gracefully
Conserved(c) ==
    LET p == Prod(c) IN
    Lasting(c) =>
      /\ ~Closing(Cons(c), c)
      /\ Asked(c) /\ p # CallerOf[c] => Reads(c)
      /\ Feeds(c) => Reads(c) \/ Asked(c)
      /\ Has(Track(p), Messages(c)) => Reads(c) \/ (Asked(c) /\ p = CallerOf[c])
      /\ \A k \in LastN(c) + 1 .. Out(c) : Has(Track(p), {m \in Messages(c) : m.n = k})
      /\ \A i \in 1 .. Len(down[c]) : down[c][i].n = got[c] + i

\* an end that has said Close has written the calls of its users, too, and takes no
\* more; a server that may not call has none
Emptied ==
    /\ mode["server"] = "UniServer" =>
          rx_requests["server"] = <<>> /\ ~may_call["server"] /\ ~Has(Handed("server"), {Enable})
    /\ \A p \in Peers :
          /\ should_close[p] \/ result[p] = "Ok" \/ Saying(p, "Close") => ~rx_open[p]
          /\ result[p] = "Ok" \/ Saying(p, "Close") => rx_requests[p] = <<>>

\* why the two halves of a stream end together, and no message is between them then
HalvesInv == (IdsLeft => Emptied) /\ (IdsApart =>
    /\ \A c \in Streams : ClosedLast(c) /\ Attached(c)
    /\ IdsLeft => \A c \in Streams : Conserved(c))

\* Everything that is true of a stream while reconnections are clean: its messages
\* are in order, all there, and its halves know of each other until the last is through
\* (handler.rs 431-480, 512-561, 604-615).
StreamInv == OrderInv /\ HalvesInv

\* All of it holds over the byte streams of a client that only asks: what close_all_started
\* and the end of the old server leave is nothing that the next stream could take for its own
\* (handler.rs 617-624, 738-820).
ReconnectInv == Dropped /\ OwesNothing /\ CallsInv /\ StreamInv

=============================================================================
