----------------------------- MODULE ApiProperties -----------------------------
(* What a caller may conclude from what request() returned, and that it returns. *)
EXTENDS Api

TaskStates == {"none", "spawned", "running", "unread", "answered", "dropped", "no_data"}
Replies == {NoReply} \cup {[success |-> b = "response", body |-> b] : b \in {"response", "error"}}

ApiTypeOK ==
    /\ data \in [Owners -> SUBSET Datas]
    /\ table \in [Owners -> [Actions -> Handlers \cup {NoHandler}]]
    /\ esr \in BOOLEAN /\ built \subseteq Owners
    /\ con \in [Clients -> {"none", "open", "closed"}]
    /\ enabled \subseteq Clients /\ requestor \subseteq Clients /\ serving \subseteq Loops
    /\ inbox \in [Loops -> Seq(Calls \cup {"enable"})]
    /\ request \in [Calls -> Requests \cup {NoRequest}]
    /\ task \in [Calls -> TaskStates]
    /\ result \in [Calls -> {"none", "Ok", "Err", "panic"}]
    /\ reply \in [Calls -> Replies]
    /\ answer \in [Calls -> {"none", "Response", "Error", "MessageError", "RequestError"}]
    /\ outcome \in [Calls -> {"idle", "pending", "AlreadyClosed", "TaskFailed"} \cup rpc!Resolved]
    /\ sent \in [Calls -> {0, 1}] /\ arrived \in [Calls -> {0, 1}]

\* What request() returns is what the handler meant: a Response only where it returned
\* Ok, an Error of the API where it returned one or a message did not fit its type, and
\* over a connection that holds a RequestError only where no answer can be made at all.
AnswerOfItsHandler ==
    \A c \in Calls :
        /\ answer[c] = "Response" => result[c] = "Ok" /\ reply[c].body = "response"
        /\ answer[c] = "Error" => reply[c].body = "error"
        /\ answer[c] = "RequestError" /\ (Open(Conn[c]) \/ Callee[c] = "local") =>
              task[c] = "dropped"

\* get_data_as_ref finds its data (util.rs 91): what validate_data saw when a handler
\* was registered is there for every request, whatever was registered around it.
DataThere ==
    /\ \A e \in Owners : \A a \in Actions :
          table[e][a] # NoHandler => Args[table[e][a]] \subseteq data[e]
    /\ \A c \in Calls : task[c] # "no_data"

-----------------------------------------------------------------------------
(* Why: each call is in one place at a time, and the callee runs it once *)

OnItsWay ==
    /\ \A l \in Loops : \A i \in DOMAIN inbox[l] :
          inbox[l][i] = "enable" \/ /\ inbox[l][i] \in Calls /\ Loop(inbox[l][i]) = l
                                    /\ task[inbox[l][i]] = "none"
                                    /\ outcome[inbox[l][i]] # "idle"
                                    /\ request[inbox[l][i]] # NoRequest
    /\ \A l \in Loops : \A i, j \in DOMAIN inbox[l] :
          inbox[l][i] = inbox[l][j] /\ inbox[l][i] # "enable" => i = j

Served ==
    \A c \in Calls :
        /\ task[c] # "none" => outcome[c] # "idle" /\ request[c] # NoRequest
        /\ task[c] \in {"none", "spawned", "running", "unread"} =>
              result[c] = "none" /\ reply[c] = NoReply
        /\ task[c] \in {"spawned", "running", "unread"} => request[c].action \in Actions
        /\ sent[c] = 1 => task[c] = "answered"
        /\ task[c] = "answered" => reply[c] # NoReply
        /\ reply[c].body = "response" => result[c] = "Ok"
        /\ outcome[c] = "Ok" => sent[c] = 1

\* a connection is made once: what was asked of one is over when it has closed
Connected ==
    /\ \A l \in serving : con[l[1]] # "none"
    /\ \A k \in enabled \cup requestor : con[k] # "none"
    /\ \A c \in Calls : /\ outcome[c] # "idle" /\ Callee[c] # "local" => con[Conn[c]] # "none"
                        /\ answer[c] = "RequestError" => outcome[c] # "idle"

ApiInv == /\ ApiTypeOK /\ OnItsWay /\ Served /\ Connected
          /\ AnswerOfItsHandler /\ DataThere

-----------------------------------------------------------------------------
(* Fairness.  The loops, the tasks and the connections run; a handler returns once the
   requests it waits for have. *)
Fairness ==
    /\ \A l \in Loops : WF_vars(Dispatch(l))
    /\ \A k \in Clients : WF_vars(Attach(k)) /\ WF_vars(Failed(k))
    /\ \A c \in Calls :
          /\ WF_vars(Handle(c)) /\ WF_vars(NotAnswered(c))
          /\ WF_vars(\E readable \in BOOLEAN : Answered(c, readable))
          /\ WF_vars(\E o \in Outcomes \cup Unread : Finish(c, o[1], o[2]))

FairSpec == Spec /\ Fairness

\* A request returns, though handlers of both ends wait for requests of their own over
\* the same connection.
EveryRequestEnds == \A c \in Calls : outcome[c] = "pending" ~> answer[c] # "none"
================================================================================
