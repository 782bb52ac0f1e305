----------------------------------- MODULE Api ---------------------------------
(***************************************************************************)
(* lafere_api: requests with an action, the handlers a server or a client     *)
(* registers for them, and the loop that hands each request of a connection    *)
(* to a task of its own.  A handler may call back over the connection it       *)
(* serves, or over another one, and wait for the answer.  The connections are   *)
(* what Rpc promises of them.                                                *)
(***************************************************************************)
EXTENDS Naturals, Sequences

CONSTANTS
    Clients,        \* each with one connection to the server
    Server,
    Calls,
    Conn,           \* [Calls -> Clients]: the connection of a call
    Callee,         \* [Calls -> {"server", "client", "local"}]: who serves it
    Parent,         \* [Calls -> Calls \cup {Root}]: the call whose handler makes it
    Root,
    Actions,        \* the variants of the callee's Action enum
    Newer,          \* an action of the caller's that the callee's enum lacks
    Handlers,
    ActionOf,       \* [Handlers -> Actions]: H::action()
    Args,           \* [Handlers -> SUBSET Datas]: the data a handler takes by reference
    Datas,
    NoHandler, NoAction

Owners == Clients \cup {Server}
Loops == Clients \X {"server", "client", "local"}

ASSUME CallsAssumption == /\ Conn \in [Calls -> Clients]
                          /\ Callee \in [Calls -> {"server", "client", "local"}]
                          /\ Parent \in [Calls -> Calls \cup {Root}]
ASSUME HandlersAssumption == /\ ActionOf \in [Handlers -> Actions]
                             /\ Args \in [Handlers -> SUBSET Datas]
                             /\ NoHandler \notin Handlers
                             /\ NoAction \notin Actions /\ Newer \notin Actions /\ Newer # NoAction
                             /\ Server \notin Clients

VARIABLES
    data,           \* [Owners -> SUBSET Datas]
    table,          \* [Owners -> [Actions -> Handlers \cup {NoHandler}]]: Requests.inner
    esr,            \* the server has a handler for EnableServerRequests
    built,          \* the owners whose builder was built
    con,            \* [Clients -> {"none", "open", "closed"}]: each connects once
    enabled,        \* the clients that enabled server requests
    requestor,      \* the connections a Requestor was made of
    serving,        \* the loops that run
    inbox,          \* [Loops -> Seq(Calls \cup {"enable"})]: on the way to the loop
    request,        \* [Calls -> [action, readable]]
    task,           \* of a call, at its callee
    result,         \* what its handler returned
    reply,          \* the message made of that
    answer,         \* what the caller's request() returned
    outcome, sent, arrived          \* of the connections

registryVars == <<data, table, esr, built>>
connVars == <<con, enabled, requestor, serving>>
rpcVars == <<outcome, sent, arrived>>
vars == <<registryVars, connVars, inbox, request, task, result, reply, answer, rpcVars>>

rpc == INSTANCE Rpc WITH Requests <- Calls, MaxMsgs <- 1, Lossy <- FALSE

Loop(c) == <<Conn[c], Callee[c]>>
OwnerOf(loop) == IF loop[2] = "client" THEN loop[1] ELSE Server
Children(c) == {d \in Calls : Parent[d] = c}
Open(k) == con[k] = "open"

NoRequest == [action |-> NoAction, readable |-> FALSE]
NoReply == [success |-> TRUE, body |-> "none"]

Init == /\ data = [e \in Owners |-> {}]
        /\ table = [e \in Owners |-> [a \in Actions |-> NoHandler]]
        /\ esr = FALSE /\ built = {}
        /\ con = [k \in Clients |-> "none"] /\ enabled = {} /\ requestor = {} /\ serving = {}
        /\ inbox = [l \in Loops |-> <<>>]
        /\ request = [c \in Calls |-> NoRequest]
        /\ task = [c \in Calls |-> "none"]
        /\ result = [c \in Calls |-> "none"]
        /\ reply = [c \in Calls |-> NoReply]
        /\ answer = [c \in Calls |-> "none"]
        /\ rpc!Init

-----------------------------------------------------------------------------
(* RequestHandlersBuilder *)

RegisterData(e, d) ==
    /\ e \notin built
    /\ data' = [data EXCEPT ![e] = @ \cup {d}]
    /\ UNCHANGED <<table, esr, built>>

\* mutant: the data is not validated
RegisterUnvalidated(e, h) ==
    /\ e \notin built
    /\ table' = [table EXCEPT ![e][ActionOf[h]] = h]
    /\ UNCHANGED <<data, esr, built>>

\* data that is missing panics here: the program does not get to run
RegisterRequest(e, h) ==
    /\ e \notin built
    /\ Args[h] \subseteq data[e]
    /\ table' = [table EXCEPT ![e][ActionOf[h]] = h]
    /\ UNCHANGED <<data, esr, built>>

RegisterEnableServerRequests ==
    /\ Server \notin built /\ ~esr
    /\ esr' = TRUE
    /\ UNCHANGED <<data, table, built>>

Build(e) == /\ e \notin built
            /\ built' = built \cup {e}
            /\ UNCHANGED <<data, table, esr>>

Setup == /\ \/ \E e \in Owners, d \in Datas : RegisterData(e, d)
            \/ \E e \in Owners, h \in Handlers : RegisterRequest(e, h)
            \/ RegisterEnableServerRequests
            \/ \E e \in Owners : Build(e)
         /\ UNCHANGED <<connVars, inbox, request, task, result, reply, answer, rpcVars>>

-----------------------------------------------------------------------------
(* Connections *)

Accept(k) ==
    /\ Server \in built /\ con[k] = "none"
    /\ con' = [con EXCEPT ![k] = "open"]
    /\ serving' = serving \cup {<<k, "server">>}
    /\ UNCHANGED <<registryVars, enabled, requestor, inbox, request, task, result, reply,
                   answer, rpcVars>>

\* attach_request_handlers, up to its await and from there
Enable(k) ==
    /\ k \in built /\ Open(k) /\ k \notin enabled
    /\ enabled' = enabled \cup {k}
    /\ inbox' = [inbox EXCEPT ![<<k, "server">>] = Append(@, "enable")]
    /\ UNCHANGED <<registryVars, con, requestor, serving, request, task, result, reply,
                   answer, rpcVars>>
Attach(k) ==
    /\ k \in enabled /\ <<k, "client">> \notin serving
    /\ serving' = serving \cup {<<k, "client">>}
    /\ UNCHANGED <<registryVars, con, enabled, requestor, inbox, request, task, result, reply,
                   answer, rpcVars>>

\* by either end, or because the stream failed; what has not arrived yet is lost, and the
\* loops end with what has
Disconnect(k, server_has, client_has) ==
    /\ Open(k)
    /\ con' = [con EXCEPT ![k] = "closed"]
    /\ inbox' = [inbox EXCEPT ![<<k, "server">>] = SubSeq(@, 1, server_has),
                              ![<<k, "client">>] = SubSeq(@, 1, client_has)]
    /\ UNCHANGED <<registryVars, enabled, requestor, serving, request, task, result, reply,
                   answer, rpcVars>>

-----------------------------------------------------------------------------
(* The caller: Client::request, Requestor::request and BuiltServer::request *)

\* a Root call is the user's, any other is made by the handler of its parent
MayCall(c) ==
    /\ task[c] = "none" /\ outcome[c] = "idle" /\ answer[c] = "none"
    /\ Parent[c] # Root => task[Parent[c]] = "running"
    /\ Callee[c] = "client" => Conn[c] \in requestor
    /\ Callee[c] = "server" => <<Conn[c], "server">> \in serving
    /\ Callee[c] = "local" => Server \in built

\* the request itself has no message form: from_message_error
AskUnencodable(c) ==
    /\ MayCall(c)
    /\ answer' = [answer EXCEPT ![c] = "MessageError"]
    /\ UNCHANGED <<registryVars, connVars, inbox, request, task, result, reply, rpcVars>>

Ask(c, r) ==
    /\ MayCall(c) /\ Open(Conn[c]) /\ Callee[c] # "local"
    /\ request' = [request EXCEPT ![c] = r]
    /\ inbox' = [inbox EXCEPT ![Loop(c)] = Append(@, c)]
    /\ rpc!Start(c, "pending")
    /\ UNCHANGED <<registryVars, connVars, task, result, reply, answer>>

AskClosed(c) ==
    /\ MayCall(c) /\ ~Open(Conn[c]) /\ Callee[c] # "local"
    /\ answer' = [answer EXCEPT ![c] = "RequestError"]
    /\ rpc!Start(c, "AlreadyClosed")
    /\ UNCHANGED <<registryVars, connVars, inbox, request, task, result, reply>>

\* no connection: the handler runs in the caller's task
AskLocal(c, r) ==
    /\ MayCall(c) /\ Callee[c] = "local" /\ r.action \in Actions
    /\ request' = [request EXCEPT ![c] = r]
    /\ task' = [task EXCEPT ![c] = "spawned"]
    /\ rpc!Start(c, "pending")
    /\ UNCHANGED <<registryVars, connVars, inbox, result, reply, answer>>

\* mutant: what came is a response
ReadAlways(m) == "Response"
\* an answer is read by its success flag
Read(m) == IF m.success THEN "Response" ELSE "Error"

Answered(c, readable) ==
    /\ rpc!Resolve(c, "Ok")
    /\ answer' = [answer EXCEPT ![c] = IF readable THEN Read(reply[c]) ELSE "MessageError"]
    /\ UNCHANGED <<registryVars, connVars, inbox, request, task, result, reply>>

\* the ResponseSender of the call was dropped
NotAnswered(c) ==
    /\ task[c] \in {"dropped", "no_data"}
    /\ rpc!Resolve(c, "NoResponse")
    /\ answer' = [answer EXCEPT ![c] = "RequestError"]
    /\ UNCHANGED <<registryVars, connVars, inbox, request, task, result, reply>>

\* the connection ended before the answer came
Waiting(k) == {c \in Calls : /\ outcome[c] = "pending" /\ Conn[c] = k /\ Callee[c] # "local"}
Failed(k) ==
    /\ ~Open(k)
    /\ rpc!Fail(Waiting(k))
    /\ answer' = [c \in Calls |-> IF c \in Waiting(k) THEN "RequestError" ELSE answer[c]]
    /\ UNCHANGED <<registryVars, connVars, inbox, request, task, result, reply>>

-----------------------------------------------------------------------------
(* handle_connection: the loop, and a task for each request *)

\* the action of a header that was read: what the enum does not have is kept apart
HeaderAction(a) == IF a \in Actions THEN a ELSE NoAction

\* mutant: the loop handles a request before it takes the next
Busy(l) == \E c \in Calls : Loop(c) = l /\ task[c] \in {"spawned", "running"}
TakenAlone(l) == l \in serving /\ inbox[l] # <<>> /\ ~Busy(l)
Taken(l) == l \in serving /\ inbox[l] # <<>>

Dispatch(l) ==
    /\ Taken(l)
    /\ inbox' = [inbox EXCEPT ![l] = Tail(@)]
    /\ IF Head(inbox[l]) = "enable"
         THEN /\ requestor' = IF esr THEN requestor \cup {l[1]} ELSE requestor
              /\ UNCHANGED task
         ELSE LET c == Head(inbox[l])
              IN /\ task' = [task EXCEPT ![c] = IF HeaderAction(request[c].action) = NoAction
                                                THEN "dropped" ELSE "spawned"]
                 /\ UNCHANGED requestor
    /\ UNCHANGED <<registryVars, con, enabled, serving, request, result, reply,
                   answer, rpcVars>>

HandlerOf(c) == table[OwnerOf(Loop(c))][request[c].action]

\* the message is made a request, and the handler's arguments are fetched: a request that
\* is no request is answered with an error, data that is missing panics
Handle(c) ==
    /\ task[c] = "spawned"
    /\ task' = [task EXCEPT ![c] =
                   CASE HandlerOf(c) = NoHandler -> "dropped"
                     [] HandlerOf(c) # NoHandler /\ ~request[c].readable -> "unread"
                     [] OTHER -> IF Args[HandlerOf(c)] \subseteq data[OwnerOf(Loop(c))]
                                 THEN "running" ELSE "no_data"]
    /\ UNCHANGED <<registryVars, connVars, inbox, request, result, reply,
                   answer, rpcVars>>

\* what a handler returns and the message that becomes of it: a response or an error that
\* has no message form becomes an error, then nothing
Outcomes == {<<"Ok", "response">>, <<"Ok", "error">>, <<"Ok", "none">>,
             <<"Err", "error">>, <<"Err", "none">>, <<"panic", "none">>}
Unread == {<<"none", "error">>, <<"none", "none">>}

\* the connection takes an answer only while the caller waits for it
Send(c) == IF outcome[c] = "pending" THEN rpc!Produce(c)
           ELSE rpc!Produce(c) \/ UNCHANGED rpcVars

Finish(c, res, body) ==
    /\ \/ task[c] = "running" /\ <<res, body>> \in Outcomes
       \/ task[c] = "unread" /\ <<res, body>> \in Unread
    /\ \A d \in Children(c) : outcome[d] # "pending"
    /\ Callee[c] = "local" => res # "panic"        \* that would be the caller's own
    /\ result' = [result EXCEPT ![c] = res]
    /\ IF body = "none"
         THEN /\ task' = [task EXCEPT ![c] = "dropped"]
              /\ UNCHANGED <<reply, rpcVars>>
         ELSE /\ task' = [task EXCEPT ![c] = "answered"]
              /\ reply' = [reply EXCEPT ![c] = [success |-> body = "response", body |-> body]]
              /\ Send(c)
    /\ UNCHANGED <<registryVars, connVars, inbox, request, answer>>

-----------------------------------------------------------------------------
Requests == [action : Actions \cup {Newer}, readable : BOOLEAN]

Next == \/ Setup
        \/ \E k \in Clients : Accept(k) \/ Enable(k) \/ Attach(k) \/ Failed(k)
        \/ \E k \in Clients : \E m \in 0 .. Len(inbox[<<k, "server">>]),
                                n \in 0 .. Len(inbox[<<k, "client">>]) : Disconnect(k, m, n)
        \/ \E c \in Calls : \E r \in Requests : Ask(c, r) \/ AskLocal(c, r)
        \/ \E c \in Calls : AskUnencodable(c) \/ AskClosed(c) \/ NotAnswered(c)
        \/ \E c \in Calls, readable \in BOOLEAN : Answered(c, readable)
        \/ \E l \in Loops : Dispatch(l)
        \/ \E c \in Calls : Handle(c)
        \/ \E c \in Calls : \E o \in Outcomes \cup Unread : Finish(c, o[1], o[2])

Spec == Init /\ [][Next]_vars
================================================================================
