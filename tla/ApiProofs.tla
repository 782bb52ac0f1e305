------------------------------- MODULE ApiProofs -------------------------------
(* For all calls, handlers and connections: an answer is what the handler meant by it. *)
EXTENDS ApiProperties, TLAPS

-----------------------------------------------------------------------------
(* Queues *)

LEMMA Pushed ==
    ASSUME NEW S, NEW s \in Seq(S), NEW x \in S
    PROVE  /\ Append(s, x) \in Seq(S)
           /\ DOMAIN Append(s, x) = 1 .. Len(s) + 1 /\ DOMAIN s = 1 .. Len(s) /\ Len(s) \in Nat
           /\ \A i \in 1 .. Len(s) : Append(s, x)[i] = s[i]
           /\ Append(s, x)[Len(s) + 1] = x
OBVIOUS

LEMMA Popped ==
    ASSUME NEW S, NEW s \in Seq(S), s # <<>>
    PROVE  /\ Tail(s) \in Seq(S) /\ Head(s) \in S /\ 1 \in DOMAIN s /\ Head(s) = s[1]
           /\ \A i \in DOMAIN Tail(s) : /\ i \in Nat \ {0} /\ i + 1 \in DOMAIN s
                                        /\ Tail(s)[i] = s[i + 1]
OBVIOUS

LEMMA Cut ==
    ASSUME NEW S, NEW s \in Seq(S), NEW n \in 0 .. Len(s)
    PROVE  /\ SubSeq(s, 1, n) \in Seq(S)
           /\ \A i \in DOMAIN SubSeq(s, 1, n) : /\ i \in Nat \ {0} /\ i + 0 \in DOMAIN s
                                                /\ SubSeq(s, 1, n)[i] = s[i + 0]
<1>1. n \in Nat /\ n <= Len(s) /\ Len(s) \in Nat
  OBVIOUS
<1>2. /\ SubSeq(s, 1, n) \in Seq(S) /\ Len(SubSeq(s, 1, n)) = n
      /\ \A i \in 1 .. n : SubSeq(s, 1, n)[i] = s[i]
  BY <1>1
<1> QED BY <1>1, <1>2

LEMMA Same ==
    ASSUME NEW S, NEW s \in Seq(S)
    PROVE  \A i \in DOMAIN s : i \in Nat \ {0} /\ i + 0 \in DOMAIN s /\ s[i] = s[i + 0]
OBVIOUS

-----------------------------------------------------------------------------
(* What a step leaves alone *)

LEMMA Loopy ==
    ASSUME NEW c \in Calls
    PROVE  /\ Conn[c] \in Clients /\ Callee[c] \in {"server", "client", "local"}
           /\ Loop(c) \in Loops /\ Loop(c)[1] = Conn[c] /\ Loop(c)[2] = Callee[c]
           /\ OwnerOf(Loop(c)) \in Owners
BY CallsAssumption DEF Loop, Loops, OwnerOf, Owners

LEMMA Kept ==
    /\ OnItsWay /\ UNCHANGED <<inbox, task, outcome, request>> => OnItsWay'
    /\ Served /\ UNCHANGED <<task, outcome, request, result, reply, sent>> => Served'
    /\ Connected /\ UNCHANGED <<serving, con, enabled, requestor, outcome, answer>> => Connected'
    /\ AnswerOfItsHandler /\ UNCHANGED <<answer, result, reply, con, task>> => AnswerOfItsHandler'
    /\ DataThere /\ UNCHANGED <<table, data, task>> => DataThere'
<1>1. OnItsWay /\ UNCHANGED <<inbox, task, outcome, request>> => OnItsWay'
  <2> SUFFICES ASSUME OnItsWay, UNCHANGED <<inbox, task, outcome, request>> PROVE OnItsWay'
    OBVIOUS
  <2>1. ASSUME NEW l \in Loops, NEW i \in DOMAIN inbox[l]
        PROVE  inbox[l][i] = "enable" \/ /\ inbox[l][i] \in Calls /\ Loop(inbox[l][i]) = l
                                         /\ task[inbox[l][i]] = "none"
                                         /\ outcome[inbox[l][i]] # "idle"
                                         /\ request[inbox[l][i]] # NoRequest
    BY DEF OnItsWay
  <2>2. \A l \in Loops : \A i, j \in DOMAIN inbox[l] :
           inbox[l][i] = inbox[l][j] /\ inbox[l][i] # "enable" => i = j
    BY DEF OnItsWay
  <2> QED BY <2>1, <2>2, Zenon DEF OnItsWay, NoRequest
<1>2. Served /\ UNCHANGED <<task, outcome, request, result, reply, sent>> => Served'
  BY DEF Served, NoRequest, NoReply
<1>3. Connected /\ UNCHANGED <<serving, con, enabled, requestor, outcome, answer>> => Connected'
  BY DEF Connected
<1>4. AnswerOfItsHandler /\ UNCHANGED <<answer, result, reply, con, task>> => AnswerOfItsHandler'
  BY DEF AnswerOfItsHandler, Open
<1>5. DataThere /\ UNCHANGED <<table, data, task>> => DataThere'
  BY DEF DataThere
<1> QED BY <1>1, <1>2, <1>3, <1>4, <1>5

LEMMA WayIs ==
    ASSUME \A l \in Loops : \A i \in DOMAIN inbox'[l] :
              inbox'[l][i] = "enable" \/ /\ inbox'[l][i] \in Calls /\ Loop(inbox'[l][i]) = l
                                         /\ task'[inbox'[l][i]] = "none"
                                         /\ outcome'[inbox'[l][i]] # "idle"
                                         /\ request'[inbox'[l][i]] # NoRequest,
           \A l \in Loops : \A i, j \in DOMAIN inbox'[l] :
              inbox'[l][i] = inbox'[l][j] /\ inbox'[l][i] # "enable" => i = j
    PROVE  OnItsWay'
BY DEF OnItsWay, NoRequest

LEMMA ServedIs ==
    ASSUME \A x \in Calls :
              /\ task'[x] # "none" => outcome'[x] # "idle" /\ request'[x] # NoRequest
              /\ task'[x] \in {"none", "spawned", "running", "unread"} =>
                    result'[x] = "none" /\ reply'[x] = NoReply
              /\ task'[x] \in {"spawned", "running", "unread"} => request'[x].action \in Actions
              /\ sent'[x] = 1 => task'[x] = "answered"
              /\ task'[x] = "answered" => reply'[x] # NoReply
              /\ reply'[x].body = "response" => result'[x] = "Ok"
              /\ outcome'[x] = "Ok" => sent'[x] = 1
    PROVE  Served'
BY DEF Served, NoRequest, NoReply

\* What is taken from a queue, or lost at its end, leaves the rest in its place.
LEMMA WayKeeps ==
    ASSUME OnItsWay,
           \A l \in Loops : \E n \in {0, 1} : \A i \in DOMAIN inbox'[l] :
              i \in Nat \ {0} /\ i + n \in DOMAIN inbox[l] /\ inbox'[l][i] = inbox[l][i + n],
           \A l \in Loops : \A i \in DOMAIN inbox'[l] : inbox'[l][i] # "enable" =>
              /\ task'[inbox'[l][i]] = "none"
              /\ outcome'[inbox'[l][i]] # "idle"
              /\ request'[inbox'[l][i]] # NoRequest
    PROVE  OnItsWay'
<1>1. ASSUME NEW l \in Loops, NEW i \in DOMAIN inbox'[l]
      PROVE  inbox'[l][i] = "enable" \/ /\ inbox'[l][i] \in Calls /\ Loop(inbox'[l][i]) = l
                                        /\ task'[inbox'[l][i]] = "none"
                                        /\ outcome'[inbox'[l][i]] # "idle"
                                        /\ request'[inbox'[l][i]] # NoRequest
  <2>1. PICK n \in {0, 1} : \A k \in DOMAIN inbox'[l] :
              k \in Nat \ {0} /\ k + n \in DOMAIN inbox[l] /\ inbox'[l][k] = inbox[l][k + n]
    OBVIOUS
  <2>2. i + n \in DOMAIN inbox[l] /\ inbox'[l][i] = inbox[l][i + n]
    BY <2>1
  <2> QED BY <2>2 DEF OnItsWay
<1>2. ASSUME NEW l \in Loops, NEW i \in DOMAIN inbox'[l], NEW j \in DOMAIN inbox'[l],
             inbox'[l][i] = inbox'[l][j], inbox'[l][i] # "enable"
      PROVE  i = j
  <2>1. PICK n \in {0, 1} : \A k \in DOMAIN inbox'[l] :
              k \in Nat \ {0} /\ k + n \in DOMAIN inbox[l] /\ inbox'[l][k] = inbox[l][k + n]
    OBVIOUS
  <2>2. /\ i \in Nat /\ i + n \in DOMAIN inbox[l] /\ inbox'[l][i] = inbox[l][i + n]
        /\ j \in Nat /\ j + n \in DOMAIN inbox[l] /\ inbox'[l][j] = inbox[l][j + n]
    BY <2>1
  <2>3. \A a, b \in DOMAIN inbox[l] :
           inbox[l][a] = inbox[l][b] /\ inbox[l][a] # "enable" => a = b
    BY DEF OnItsWay
  <2>4. inbox[l][i + n] = inbox[l][j + n] /\ inbox[l][i + n] # "enable"
    BY <1>2, <2>2
  <2>5. i + n = j + n
    BY <2>2, <2>3, <2>4
  <2> QED BY <2>2, <2>5
<1> QED BY <1>1, <1>2, WayIs

\* The queues stay as they are, and so does what is on its way in them.
LEMMA WayStays ==
    ASSUME ApiTypeOK, OnItsWay, inbox' = inbox,
           \A c \in Calls : task[c] = "none" /\ outcome[c] # "idle" /\ request[c] # NoRequest =>
              task'[c] = "none" /\ outcome'[c] # "idle" /\ request'[c] # NoRequest
    PROVE  OnItsWay'
<1>1. \A l \in Loops : \E n \in {0, 1} : \A i \in DOMAIN inbox'[l] :
              i \in Nat \ {0} /\ i + n \in DOMAIN inbox[l] /\ inbox'[l][i] = inbox[l][i + n]
  <2> TAKE l \in Loops
  <2>1. inbox[l] \in Seq(Calls \cup {"enable"})
    BY DEF ApiTypeOK
  <2> WITNESS 0 \in {0, 1}
  <2> QED BY <2>1, Same
<1>2. \A l \in Loops : \A i \in DOMAIN inbox'[l] : inbox'[l][i] # "enable" =>
              /\ task'[inbox'[l][i]] = "none"
              /\ outcome'[inbox'[l][i]] # "idle"
              /\ request'[inbox'[l][i]] # NoRequest
  BY DEF OnItsWay
<1> QED BY <1>1, <1>2, WayKeeps

-----------------------------------------------------------------------------
(* One lemma for each action *)

LEMMA InitKeeps == Init => ApiInv
<1> SUFFICES ASSUME Init PROVE ApiInv
  OBVIOUS
<1>1. ApiTypeOK
  <2>1. /\ data \in [Owners -> SUBSET Datas]
        /\ table \in [Owners -> [Actions -> Handlers \cup {NoHandler}]]
    BY DEF Init
  <2>2. /\ inbox \in [Loops -> Seq(Calls \cup {"enable"})]
        /\ con \in [Clients -> {"none", "open", "closed"}]
    BY DEF Init
  <2>3. /\ outcome \in [Calls -> {"idle"}] /\ sent \in [Calls -> {0}]
        /\ arrived \in [Calls -> {0}]
    BY DEF Init, rpc!Init
  <2>4. reply \in [Calls -> Replies] /\ request \in [Calls -> Requests \cup {NoRequest}]
    BY DEF Init, Replies
  <2> QED BY <2>1, <2>2, <2>3, <2>4 DEF Init, ApiTypeOK, TaskStates
<1>2. OnItsWay /\ Served /\ Connected
  BY Loopy DEF Init, OnItsWay, Served, Connected, NoReply, rpc!Init
<1>3. AnswerOfItsHandler /\ DataThere
  BY HandlersAssumption DEF Init, AnswerOfItsHandler, DataThere
<1> QED BY <1>1, <1>2, <1>3 DEF ApiInv

LEMMA SetupKeeps == ApiInv /\ Setup => ApiInv'
<1> SUFFICES ASSUME ApiInv, Setup PROVE ApiInv'
  OBVIOUS
<1> USE DEF ApiInv
<1>0. UNCHANGED <<con, enabled, requestor, serving, inbox, request, task, result, reply, answer,
                  outcome, sent, arrived>>
  BY DEF Setup, connVars, rpcVars
<1>1. OnItsWay' /\ Served' /\ Connected' /\ AnswerOfItsHandler'
  BY <1>0, Kept
<1> DEFINE Registered == /\ data' \in [Owners -> SUBSET Datas]
                         /\ table' \in [Owners -> [Actions -> Handlers \cup {NoHandler}]]
                         /\ esr' \in BOOLEAN /\ built' \subseteq Owners /\ DataThere'
<1>2. Registered
  <2>1. ASSUME NEW e \in Owners, NEW d \in Datas, RegisterData(e, d)
        PROVE  Registered
    <3>1. /\ data' = [data EXCEPT ![e] = @ \cup {d}] /\ UNCHANGED <<table, esr, built>>
      BY <2>1 DEF RegisterData
    <3> QED BY <1>0, <3>1 DEF ApiTypeOK, DataThere
  <2>2. ASSUME NEW e \in Owners, NEW h \in Handlers, RegisterRequest(e, h)
        PROVE  Registered
    <3>1. /\ table' = [table EXCEPT ![e][ActionOf[h]] = h] /\ UNCHANGED <<data, esr, built>>
          /\ Args[h] \subseteq data[e] /\ ActionOf[h] \in Actions
      BY <2>2, HandlersAssumption DEF RegisterRequest
    <3> QED BY <1>0, <3>1 DEF ApiTypeOK, DataThere
  <2>3. ASSUME RegisterEnableServerRequests \/ \E e \in Owners : Build(e)
        PROVE  Registered
    BY <1>0, <2>3 DEF RegisterEnableServerRequests, Build, ApiTypeOK, DataThere
  <2> QED BY <2>1, <2>2, <2>3 DEF Setup
<1>3. ApiTypeOK'
  BY <1>0, <1>2 DEF ApiTypeOK
<1> QED BY <1>1, <1>2, <1>3

LEMMA AcceptKeeps == ASSUME ApiInv, NEW k \in Clients, Accept(k) PROVE ApiInv'
<1> USE DEF ApiInv
<1>0. /\ con[k] = "none" /\ con' = [con EXCEPT ![k] = "open"]
      /\ serving' = serving \cup {<<k, "server">>}
      /\ UNCHANGED <<data, table, esr, built, enabled, requestor, inbox, request, task, result,
                     reply, answer, outcome, sent, arrived>>
  BY DEF Accept, registryVars, rpcVars
<1>1. OnItsWay' /\ Served' /\ DataThere'
  BY <1>0, Kept
<1>2. ApiTypeOK'
  BY <1>0 DEF ApiTypeOK, Loops
<1>3. Connected'
  BY <1>0, Loopy DEF Connected, ApiTypeOK, Loops
<1>4. AnswerOfItsHandler'
  BY <1>0, Loopy DEF Connected, AnswerOfItsHandler, ApiTypeOK, Open
<1> QED BY <1>1, <1>2, <1>3, <1>4

\* What is put into a queue is not in it yet.
LEMMA WayGrows ==
    ASSUME ApiTypeOK, OnItsWay, NEW m \in Loops, NEW x \in Calls \cup {"enable"},
           inbox' = [inbox EXCEPT ![m] = Append(inbox[m], x)],
           x = "enable" \/ /\ Loop(x) = m /\ task'[x] = "none" /\ outcome[x] = "idle"
                           /\ outcome'[x] # "idle" /\ request'[x] # NoRequest,
           \A c \in Calls \ {x} : /\ task'[c] = task[c] /\ outcome'[c] = outcome[c]
                                  /\ request'[c] = request[c]
    PROVE  OnItsWay'
<1>1. /\ inbox[m] \in Seq(Calls \cup {"enable"}) /\ inbox'[m] = Append(inbox[m], x)
      /\ \A l \in Loops \ {m} : inbox'[l] = inbox[l]
  BY DEF ApiTypeOK
<1>2. /\ DOMAIN inbox'[m] = 1 .. Len(inbox[m]) + 1 /\ DOMAIN inbox[m] = 1 .. Len(inbox[m])
      /\ Len(inbox[m]) \in Nat /\ inbox'[m][Len(inbox[m]) + 1] = x
      /\ \A i \in 1 .. Len(inbox[m]) : inbox'[m][i] = inbox[m][i]
  BY <1>1, Pushed
<1>3. \A i \in DOMAIN inbox[m] : inbox[m][i] = "enable" \/ inbox[m][i] # x
  BY DEF OnItsWay
<1>4. \A l \in Loops : \A i \in DOMAIN inbox[l] :
         inbox[l][i] = "enable" \/ /\ inbox[l][i] \in Calls /\ Loop(inbox[l][i]) = l
                                   /\ task[inbox[l][i]] = "none"
                                   /\ outcome[inbox[l][i]] # "idle"
                                   /\ request[inbox[l][i]] # NoRequest
  BY DEF OnItsWay
<1>5. \A l \in Loops : \A i, j \in DOMAIN inbox[l] :
         inbox[l][i] = inbox[l][j] /\ inbox[l][i] # "enable" => i = j
  BY DEF OnItsWay
<1>6. ASSUME NEW l \in Loops, NEW i \in DOMAIN inbox'[l]
      PROVE  inbox'[l][i] = "enable" \/ /\ inbox'[l][i] \in Calls /\ Loop(inbox'[l][i]) = l
                                        /\ task'[inbox'[l][i]] = "none"
                                        /\ outcome'[inbox'[l][i]] # "idle"
                                        /\ request'[inbox'[l][i]] # NoRequest
  <2>1. CASE l = m /\ i = Len(inbox[m]) + 1
    BY <1>2, <2>1
  <2>2. CASE l # m \/ i # Len(inbox[m]) + 1
    <3>1. i \in DOMAIN inbox[l] /\ inbox'[l][i] = inbox[l][i]
      BY <1>1, <1>2, <2>2
    <3>2. inbox[l][i] # "enable" => inbox[l][i] \in Calls \ {x}
      BY <1>4, <3>1
    <3> QED BY <1>4, <3>1, <3>2
  <2> QED BY <2>1, <2>2
<1>7. ASSUME NEW l \in Loops, NEW i \in DOMAIN inbox'[l], NEW j \in DOMAIN inbox'[l],
             inbox'[l][i] = inbox'[l][j], inbox'[l][i] # "enable"
      PROVE  i = j
  <2>1. CASE l # m
    BY <1>1, <1>5, <1>7, <2>1
  <2>2. CASE l = m
    <3>1. i \in 1 .. Len(inbox[m]) + 1 /\ j \in 1 .. Len(inbox[m]) + 1
      BY <1>2, <2>2
    <3>2. CASE i \in 1 .. Len(inbox[m]) /\ j \in 1 .. Len(inbox[m])
      <4>1. /\ inbox'[m][i] = inbox[m][i] /\ inbox'[m][j] = inbox[m][j]
            /\ i \in DOMAIN inbox[m] /\ j \in DOMAIN inbox[m]
        BY <1>2, <3>2
      <4> QED BY <1>5, <1>7, <2>2, <4>1
    <3>3. CASE i \in 1 .. Len(inbox[m]) /\ j = Len(inbox[m]) + 1
      BY <1>2, <1>3, <1>7, <2>2, <3>3
    <3>4. CASE j \in 1 .. Len(inbox[m]) /\ i = Len(inbox[m]) + 1
      BY <1>2, <1>3, <1>7, <2>2, <3>4
    <3> QED BY <1>2, <3>1, <3>2, <3>3, <3>4
  <2> QED BY <2>1, <2>2
<1> QED BY <1>6, <1>7, WayIs

LEMMA EnableKeeps == ASSUME ApiInv, NEW k \in Clients, Enable(k) PROVE ApiInv'
<1> USE DEF ApiInv
<1> DEFINE m == <<k, "server">>
<1>0. /\ con[k] = "open" /\ enabled' = enabled \cup {k}
      /\ m \in Loops /\ inbox' = [inbox EXCEPT ![m] = Append(inbox[m], "enable")]
      /\ UNCHANGED <<data, table, esr, built, con, requestor, serving, request, task, result,
                     reply, answer, outcome, sent, arrived>>
  BY DEF Enable, registryVars, rpcVars, Open, Loops
<1> HIDE DEF m
<1>1. Served' /\ DataThere' /\ AnswerOfItsHandler'
  BY <1>0, Kept
<1>2. OnItsWay'
  BY <1>0, WayGrows
<1>3. ApiTypeOK'
  <2>1. Append(inbox[m], "enable") \in Seq(Calls \cup {"enable"})
    BY <1>0 DEF ApiTypeOK
  <2> QED BY <1>0, <2>1 DEF ApiTypeOK
<1>4. Connected'
  BY <1>0 DEF Connected
<1> QED BY <1>1, <1>2, <1>3, <1>4

LEMMA AttachKeeps == ASSUME ApiInv, NEW k \in Clients, Attach(k) PROVE ApiInv'
<1> USE DEF ApiInv
<1>0. /\ k \in enabled /\ serving' = serving \cup {<<k, "client">>}
      /\ UNCHANGED <<data, table, esr, built, con, enabled, requestor, inbox, request, task, result,
                     reply, answer, outcome, sent, arrived>>
  BY DEF Attach, registryVars, rpcVars
<1>1. OnItsWay' /\ Served' /\ DataThere' /\ AnswerOfItsHandler'
  BY <1>0, Kept
<1>2. ApiTypeOK'
  BY <1>0 DEF ApiTypeOK, Loops
<1>3. Connected'
  BY <1>0 DEF Connected
<1> QED BY <1>1, <1>2, <1>3

LEMMA DisconnectKeeps ==
    ASSUME ApiInv, NEW k \in Clients, NEW m \in 0 .. Len(inbox[<<k, "server">>]),
           NEW n \in 0 .. Len(inbox[<<k, "client">>]), Disconnect(k, m, n)
    PROVE  ApiInv'
<1> USE DEF ApiInv
<1> DEFINE s == <<k, "server">>
           t == <<k, "client">>
<1>0. /\ con[k] = "open" /\ con' = [con EXCEPT ![k] = "closed"]
      /\ s \in Loops /\ t \in Loops /\ s # t
      /\ inbox' = [inbox EXCEPT ![s] = SubSeq(inbox[s], 1, m), ![t] = SubSeq(inbox[t], 1, n)]
      /\ UNCHANGED <<data, table, esr, built, enabled, requestor, serving, request, task, result,
                     reply, answer, outcome, sent, arrived>>
  BY DEF Disconnect, registryVars, rpcVars, Open, Loops
<1>t. \A l \in Loops : inbox[l] \in Seq(Calls \cup {"enable"})
  BY DEF ApiTypeOK
<1>k. m \in 0 .. Len(inbox[s]) /\ n \in 0 .. Len(inbox[t])
  OBVIOUS
<1> HIDE DEF s, t
<1>1. Served' /\ DataThere'
  BY <1>0, Kept
<1>2. /\ inbox'[s] = SubSeq(inbox[s], 1, m) /\ inbox'[t] = SubSeq(inbox[t], 1, n)
      /\ \A l \in Loops \ {s, t} : inbox'[l] = inbox[l]
  BY <1>0 DEF ApiTypeOK
<1>3. ASSUME NEW l \in Loops
      PROVE  /\ inbox'[l] \in Seq(Calls \cup {"enable"})
             /\ \A i \in DOMAIN inbox'[l] : /\ i \in Nat \ {0} /\ i + 0 \in DOMAIN inbox[l]
                                            /\ inbox'[l][i] = inbox[l][i + 0]
  <2>1. CASE l = s
    <3>1. /\ SubSeq(inbox[s], 1, m) \in Seq(Calls \cup {"enable"})
          /\ \A i \in DOMAIN SubSeq(inbox[s], 1, m) :
                /\ i \in Nat \ {0} /\ i + 0 \in DOMAIN inbox[s]
                /\ SubSeq(inbox[s], 1, m)[i] = inbox[s][i + 0]
      BY <1>0, <1>t, <1>k, Cut
    <3> QED BY <1>2, <2>1, <3>1
  <2>2. CASE l = t
    <3>1. /\ SubSeq(inbox[t], 1, n) \in Seq(Calls \cup {"enable"})
          /\ \A i \in DOMAIN SubSeq(inbox[t], 1, n) :
                /\ i \in Nat \ {0} /\ i + 0 \in DOMAIN inbox[t]
                /\ SubSeq(inbox[t], 1, n)[i] = inbox[t][i + 0]
      BY <1>0, <1>t, <1>k, Cut
    <3> QED BY <1>2, <2>2, <3>1
  <2>3. CASE l \notin {s, t}
    BY <1>2, <1>t, <2>3, Same
  <2> QED BY <2>1, <2>2, <2>3
<1>4. OnItsWay'
  <2>1. \A l \in Loops : \E q \in {0, 1} : \A i \in DOMAIN inbox'[l] :
           i \in Nat \ {0} /\ i + q \in DOMAIN inbox[l] /\ inbox'[l][i] = inbox[l][i + q]
    BY <1>3
  <2>2. \A l \in Loops : \A i \in DOMAIN inbox'[l] : inbox'[l][i] # "enable" =>
           /\ task'[inbox'[l][i]] = "none"
           /\ outcome'[inbox'[l][i]] # "idle"
           /\ request'[inbox'[l][i]] # NoRequest
    <3> TAKE l \in Loops
    <3> TAKE i \in DOMAIN inbox'[l]
    <3>1. i + 0 \in DOMAIN inbox[l] /\ inbox'[l][i] = inbox[l][i + 0]
      BY <1>3
    <3> QED BY <1>0, <3>1 DEF OnItsWay
  <2> QED BY <2>1, <2>2, WayKeeps
<1>5. ApiTypeOK'
  <2>1. inbox' \in [Loops -> Seq(Calls \cup {"enable"})]
    BY <1>0, <1>3 DEF ApiTypeOK
  <2> QED BY <1>0, <2>1 DEF ApiTypeOK
<1>6. Connected'
  BY <1>0, Loopy DEF Connected, ApiTypeOK, Loops
<1>7. AnswerOfItsHandler'
  BY <1>0, Loopy DEF AnswerOfItsHandler, ApiTypeOK, Open
<1> QED BY <1>1, <1>4, <1>5, <1>6, <1>7

-----------------------------------------------------------------------------
(* The caller *)

LEMMA RequestIs ==
    ASSUME NEW r \in Requests
    PROVE  r # NoRequest /\ r \in Requests \cup {NoRequest}
<1>1. r.action \in Actions \cup {Newer}
  BY DEF Requests
<1>2. NoRequest.action = NoAction
  BY DEF NoRequest
<1> QED BY <1>1, <1>2, HandlersAssumption

LEMMA AskKeeps == ASSUME ApiInv, NEW c \in Calls, NEW r \in Requests, Ask(c, r) PROVE ApiInv'
<1> USE DEF ApiInv
<1> DEFINE m == Loop(c)
<1>0. /\ task[c] = "none" /\ outcome[c] = "idle" /\ answer[c] = "none" /\ con[Conn[c]] = "open"
      /\ request' = [request EXCEPT ![c] = r]
      /\ m \in Loops /\ inbox' = [inbox EXCEPT ![m] = Append(inbox[m], c)]
      /\ outcome' = [outcome EXCEPT ![c] = "pending"]
      /\ UNCHANGED <<data, table, esr, built, con, enabled, requestor, serving, task, result, reply,
                     answer, sent, arrived>>
  BY Loopy DEF Ask, MayCall, rpc!Start, registryVars, connVars, Open
<1> HIDE DEF m
<1>1. DataThere' /\ AnswerOfItsHandler'
  BY <1>0, Kept
<1>2. OnItsWay'
  <2>1. Loop(c) = m /\ task'[c] = "none" /\ outcome'[c] # "idle" /\ request'[c] # NoRequest
    BY <1>0, RequestIs DEF m, ApiTypeOK
  <2>2. \A x \in Calls \ {c} : /\ task'[x] = task[x] /\ outcome'[x] = outcome[x]
                               /\ request'[x] = request[x]
    BY <1>0 DEF ApiTypeOK
  <2> QED BY <1>0, <2>1, <2>2, WayGrows
<1>3. ApiTypeOK'
  <2>1. Append(inbox[m], c) \in Seq(Calls \cup {"enable"})
    BY <1>0 DEF ApiTypeOK
  <2>2. request' \in [Calls -> Requests \cup {NoRequest}]
    BY <1>0, RequestIs DEF ApiTypeOK
  <2> QED BY <1>0, <2>1, <2>2 DEF ApiTypeOK
<1>4. Served'
  <2> SUFFICES ASSUME NEW x \in Calls
               PROVE  /\ task[x] # "none" => outcome'[x] # "idle" /\ request'[x] # NoRequest
                      /\ task[x] \in {"none", "spawned", "running", "unread"} =>
                            result[x] = "none" /\ reply[x] = NoReply
                      /\ task[x] \in {"spawned", "running", "unread"} =>
                            request'[x].action \in Actions
                      /\ sent[x] = 1 => task[x] = "answered"
                      /\ task[x] = "answered" => reply[x] # NoReply
                      /\ reply[x].body = "response" => result[x] = "Ok"
                      /\ outcome'[x] = "Ok" => sent[x] = 1
    BY <1>0 DEF Served, NoRequest, NoReply
  <2>1. x # c => outcome'[x] = outcome[x] /\ request'[x] = request[x]
    BY <1>0 DEF ApiTypeOK
  <2>2. outcome'[c] = "pending"
    BY <1>0 DEF ApiTypeOK
  <2> QED BY <1>0, <2>1, <2>2 DEF Served
<1>5. Connected'
  BY <1>0 DEF Connected, ApiTypeOK
<1> QED BY <1>1, <1>2, <1>3, <1>4, <1>5

LEMMA AskLocalKeeps ==
    ASSUME ApiInv, NEW c \in Calls, NEW r \in Requests, AskLocal(c, r)
    PROVE  ApiInv'
<1> USE DEF ApiInv
<1>0. /\ task[c] = "none" /\ outcome[c] = "idle" /\ answer[c] = "none" /\ Callee[c] = "local"
      /\ r.action \in Actions
      /\ request' = [request EXCEPT ![c] = r]
      /\ task' = [task EXCEPT ![c] = "spawned"]
      /\ outcome' = [outcome EXCEPT ![c] = "pending"]
      /\ UNCHANGED <<data, table, esr, built, con, enabled, requestor, serving, inbox, result, reply,
                     answer, sent, arrived>>
  BY DEF AskLocal, MayCall, rpc!Start, registryVars, connVars
<1>x. /\ task'[c] = "spawned" /\ outcome'[c] = "pending" /\ request'[c] = r
      /\ \A x \in Calls \ {c} : /\ task'[x] = task[x] /\ outcome'[x] = outcome[x]
                                /\ request'[x] = request[x]
  BY <1>0 DEF ApiTypeOK
<1>1. DataThere'
  BY <1>0, <1>x DEF DataThere
<1>2. OnItsWay'
  BY <1>0, <1>x, WayStays
<1>3. ApiTypeOK'
  <2>1. request' \in [Calls -> Requests \cup {NoRequest}]
    BY <1>0, RequestIs DEF ApiTypeOK
  <2> QED BY <1>0, <2>1 DEF ApiTypeOK, TaskStates
<1>4. Served'
  <2> SUFFICES ASSUME NEW x \in Calls
               PROVE  /\ task'[x] # "none" => outcome'[x] # "idle" /\ request'[x] # NoRequest
                      /\ task'[x] \in {"none", "spawned", "running", "unread"} =>
                            result[x] = "none" /\ reply[x] = NoReply
                      /\ task'[x] \in {"spawned", "running", "unread"} =>
                            request'[x].action \in Actions
                      /\ sent[x] = 1 => task'[x] = "answered"
                      /\ task'[x] = "answered" => reply[x] # NoReply
                      /\ reply[x].body = "response" => result[x] = "Ok"
                      /\ outcome'[x] = "Ok" => sent[x] = 1
    BY <1>0 DEF Served, NoRequest, NoReply
  <2> QED BY <1>0, <1>x, RequestIs DEF Served
<1>5. Connected' /\ AnswerOfItsHandler'
  BY <1>0, <1>x DEF Connected, AnswerOfItsHandler, Open
<1> QED BY <1>1, <1>2, <1>3, <1>4, <1>5

\* What request() returns to the caller.
LEMMA AnswerKeeps ==
    ASSUME ApiInv, NEW S \in SUBSET Calls,
           outcome' \in [Calls -> {"idle", "pending", "AlreadyClosed", "TaskFailed"} \cup rpc!Resolved],
           answer' \in [Calls -> {"none", "Response", "Error", "MessageError", "RequestError"}],
           arrived' \in [Calls -> {0, 1}],
           UNCHANGED <<registryVars, connVars, inbox, request, task, result, reply, sent>>,
           \A x \in Calls \ S : outcome'[x] = outcome[x] /\ answer'[x] = answer[x],
           \A x \in S :
              /\ outcome'[x] = "Ok" => sent[x] = 1
              /\ outcome'[x] = "idle" => outcome[x] = "idle" /\ answer'[x] = "MessageError"
              /\ outcome'[x] # "idle" /\ Callee[x] # "local" => con[Conn[x]] # "none"
              /\ answer'[x] = "Response" => result[x] = "Ok" /\ reply[x].body = "response"
              /\ answer'[x] = "Error" => reply[x].body = "error"
              /\ answer'[x] = "RequestError" /\ (Open(Conn[x]) \/ Callee[x] = "local") =>
                    task[x] = "dropped"
    PROVE  ApiInv'
<1> USE DEF ApiInv
<1>0. UNCHANGED <<data, table, esr, built, con, enabled, requestor, serving, inbox, request, task,
                  result, reply, sent>>
  BY DEF registryVars, connVars
<1>1. ApiTypeOK'
  BY <1>0 DEF ApiTypeOK
<1>2. DataThere'
  BY <1>0, Kept
<1>3. \A x \in Calls : outcome[x] # "idle" => outcome'[x] # "idle"
  OBVIOUS
<1>4. OnItsWay'
  BY <1>0, <1>3, WayStays
<1>5. Served'
  <2>1. \A x \in Calls : outcome'[x] = "Ok" => sent[x] = 1
    BY DEF Served
  <2>2. ASSUME NEW x \in Calls
        PROVE  /\ task[x] # "none" => outcome'[x] # "idle" /\ request[x] # NoRequest
               /\ task[x] \in {"none", "spawned", "running", "unread"} =>
                     result[x] = "none" /\ reply[x] = NoReply
               /\ task[x] \in {"spawned", "running", "unread"} => request[x].action \in Actions
               /\ sent[x] = 1 => task[x] = "answered"
               /\ task[x] = "answered" => reply[x] # NoReply
               /\ reply[x].body = "response" => result[x] = "Ok"
    BY <1>3 DEF Served
  <2> QED BY <1>0, <2>1, <2>2, ServedIs
<1>6. Connected'
  BY <1>0 DEF Connected
<1>7. AnswerOfItsHandler'
  BY <1>0 DEF AnswerOfItsHandler, Open
<1> QED BY <1>1, <1>2, <1>4, <1>5, <1>6, <1>7

LEMMA OneAnswerKeeps ==
    ASSUME ApiInv, NEW c \in Calls,
           outcome' \in [Calls -> {"idle", "pending", "AlreadyClosed", "TaskFailed"} \cup rpc!Resolved],
           answer' \in [Calls -> {"none", "Response", "Error", "MessageError", "RequestError"}],
           arrived' \in [Calls -> {0, 1}],
           UNCHANGED <<registryVars, connVars, inbox, request, task, result, reply, sent>>,
           \A x \in Calls \ {c} : outcome'[x] = outcome[x] /\ answer'[x] = answer[x],
           outcome'[c] = "Ok" => sent[c] = 1,
           outcome'[c] = "idle" => outcome[c] = "idle" /\ answer'[c] = "MessageError",
           outcome'[c] # "idle" /\ Callee[c] # "local" => con[Conn[c]] # "none",
           answer'[c] = "Response" => result[c] = "Ok" /\ reply[c].body = "response",
           answer'[c] = "Error" => reply[c].body = "error",
           answer'[c] = "RequestError" /\ (Open(Conn[c]) \/ Callee[c] = "local") =>
              task[c] = "dropped"
    PROVE  ApiInv'
<1> DEFINE S == {c}
<1>1. S \in SUBSET Calls /\ (\A x \in S : x = c) /\ \A x \in Calls \ S : x \in Calls \ {c}
  OBVIOUS
<1> HIDE DEF S
<1> QED BY <1>1, AnswerKeeps

LEMMA AskFailsKeeps ==
    ASSUME ApiInv, NEW c \in Calls, AskUnencodable(c) \/ AskClosed(c)
    PROVE  ApiInv'
<1> USE DEF ApiInv
<1>1. /\ task[c] = "none" /\ outcome[c] = "idle" /\ Conn[c] \in Clients
      /\ Callee[c] \in {"server", "client", "local"}
  BY Loopy DEF AskUnencodable, AskClosed, MayCall
<1>2. CASE AskUnencodable(c)
  <2>1. /\ answer' = [answer EXCEPT ![c] = "MessageError"]
        /\ UNCHANGED <<registryVars, connVars, inbox, request, task, result, reply, outcome, sent,
                       arrived>>
    BY <1>2 DEF AskUnencodable, rpcVars
  <2>2. \A x \in Calls \ {c} : outcome'[x] = outcome[x] /\ answer'[x] = answer[x]
    BY <2>1 DEF ApiTypeOK
  <2>3. answer'[c] = "MessageError" /\ outcome'[c] = "idle"
    BY <1>1, <2>1 DEF ApiTypeOK
  <2>4. /\ outcome' \in [Calls -> {"idle", "pending", "AlreadyClosed", "TaskFailed"} \cup rpc!Resolved]
        /\ answer' \in [Calls -> {"none", "Response", "Error", "MessageError", "RequestError"}]
        /\ arrived' \in [Calls -> {0, 1}]
    BY <2>1 DEF ApiTypeOK
  <2> QED BY <1>1, <2>1, <2>2, <2>3, <2>4, OneAnswerKeeps
<1>3. CASE AskClosed(c)
  <2>1. /\ answer' = [answer EXCEPT ![c] = "RequestError"] /\ con[Conn[c]] # "open"
        /\ Callee[c] # "local"
        /\ outcome' = [outcome EXCEPT ![c] = "AlreadyClosed"]
        /\ UNCHANGED <<registryVars, connVars, inbox, request, task, result, reply, sent, arrived>>
    BY <1>3 DEF AskClosed, rpc!Start, Open
  <2>2. con[Conn[c]] # "none"
    <3>1. Conn[c] \in requestor \/ <<Conn[c], "server">> \in serving
      BY <1>1, <1>3, <2>1 DEF AskClosed, MayCall
    <3> QED BY <3>1 DEF Connected
  <2>3. \A x \in Calls \ {c} : outcome'[x] = outcome[x] /\ answer'[x] = answer[x]
    BY <2>1 DEF ApiTypeOK
  <2>4. answer'[c] = "RequestError" /\ outcome'[c] = "AlreadyClosed"
    BY <1>1, <2>1 DEF ApiTypeOK
  <2>5. /\ outcome' \in [Calls -> {"idle", "pending", "AlreadyClosed", "TaskFailed"} \cup rpc!Resolved]
        /\ answer' \in [Calls -> {"none", "Response", "Error", "MessageError", "RequestError"}]
        /\ arrived' \in [Calls -> {0, 1}]
    BY <2>1 DEF ApiTypeOK
  <2> QED BY <1>1, <2>1, <2>2, <2>3, <2>4, <2>5, OneAnswerKeeps DEF Open
<1> QED BY <1>2, <1>3

LEMMA AnsweredKeeps ==
    ASSUME ApiInv, NEW c \in Calls, NEW readable \in BOOLEAN, Answered(c, readable)
    PROVE  ApiInv'
<1> USE DEF ApiInv
<1>1. /\ outcome[c] = "pending" /\ outcome' = [outcome EXCEPT ![c] = "Ok"] /\ sent[c] = 1
      /\ arrived' = [arrived EXCEPT ![c] = 1]
      /\ answer' = [answer EXCEPT ![c] = IF readable THEN Read(reply[c]) ELSE "MessageError"]
      /\ UNCHANGED <<registryVars, connVars, inbox, request, task, result, reply, sent>>
  BY DEF Answered, rpc!Resolve
<1>2. /\ outcome' \in [Calls -> {"idle", "pending", "AlreadyClosed", "TaskFailed"} \cup rpc!Resolved]
      /\ answer' \in [Calls -> {"none", "Response", "Error", "MessageError", "RequestError"}]
      /\ arrived' \in [Calls -> {0, 1}]
  BY <1>1 DEF ApiTypeOK, Read, rpc!Resolved
<1>3. outcome'[c] = "Ok" /\ answer'[c] = IF readable THEN Read(reply[c]) ELSE "MessageError"
  BY <1>1 DEF ApiTypeOK
<1>4. /\ reply[c].success => reply[c].body = "response" /\ result[c] = "Ok"
      /\ ~reply[c].success => reply[c].body = "error"
  <2>1. reply[c] # NoReply /\ reply[c] \in Replies
    BY <1>1 DEF Served, ApiTypeOK
  <2>2. PICK b \in {"response", "error"} : reply[c] = [success |-> b = "response", body |-> b]
    BY <2>1 DEF Replies
  <2>3. reply[c].body = b /\ reply[c].success = (b = "response")
    BY <2>2
  <2> QED BY <2>3 DEF Served
<1>5. answer'[c] # "RequestError"
  BY <1>3 DEF Read
<1>6. /\ answer'[c] = "Response" => result[c] = "Ok" /\ reply[c].body = "response"
      /\ answer'[c] = "Error" => reply[c].body = "error"
  BY <1>3, <1>4 DEF Read
<1>7. Callee[c] # "local" => con[Conn[c]] # "none"
  BY <1>1 DEF Connected
<1>8. \A x \in Calls \ {c} : outcome'[x] = outcome[x] /\ answer'[x] = answer[x]
  BY <1>1 DEF ApiTypeOK
<1> QED BY <1>1, <1>2, <1>3, <1>5, <1>6, <1>7, <1>8, OneAnswerKeeps

LEMMA NotAnsweredKeeps == ASSUME ApiInv, NEW c \in Calls, NotAnswered(c) PROVE ApiInv'
<1> USE DEF ApiInv
<1>1. /\ outcome[c] = "pending" /\ outcome' = [outcome EXCEPT ![c] = "NoResponse"]
      /\ task[c] = "dropped" /\ answer' = [answer EXCEPT ![c] = "RequestError"]
      /\ UNCHANGED <<registryVars, connVars, inbox, request, task, result, reply, sent>>
  BY DEF NotAnswered, rpc!Resolve, DataThere
<1>2. arrived' = arrived
  BY DEF NotAnswered, rpc!Resolve, ApiTypeOK
<1>3. /\ outcome' \in [Calls -> {"idle", "pending", "AlreadyClosed", "TaskFailed"} \cup rpc!Resolved]
      /\ answer' \in [Calls -> {"none", "Response", "Error", "MessageError", "RequestError"}]
      /\ arrived' \in [Calls -> {0, 1}]
  BY <1>1, <1>2 DEF ApiTypeOK, rpc!Resolved
<1>4. outcome'[c] = "NoResponse" /\ answer'[c] = "RequestError"
  BY <1>1 DEF ApiTypeOK
<1>5. Callee[c] # "local" => con[Conn[c]] # "none"
  BY <1>1 DEF Connected
<1>6. \A x \in Calls \ {c} : outcome'[x] = outcome[x] /\ answer'[x] = answer[x]
  BY <1>1 DEF ApiTypeOK
<1> QED BY <1>1, <1>3, <1>4, <1>5, <1>6, OneAnswerKeeps

LEMMA FailedKeeps == ASSUME ApiInv, NEW k \in Clients, Failed(k) PROVE ApiInv'
<1> USE DEF ApiInv
<1> DEFINE S == Waiting(k)
<1>1. S \in SUBSET Calls /\ \A x \in S : /\ outcome[x] = "pending" /\ Conn[x] = k
                                         /\ Callee[x] # "local"
  BY DEF Waiting
<1>2. /\ ~Open(k)
      /\ outcome' = [x \in Calls |-> IF x \in S THEN "TaskFailed" ELSE outcome[x]]
      /\ answer' = [x \in Calls |-> IF x \in S THEN "RequestError" ELSE answer[x]]
      /\ UNCHANGED <<registryVars, connVars, inbox, request, task, result, reply, sent, arrived>>
  BY DEF Failed, rpc!Fail
<1> HIDE DEF S
<1>3. \A x \in S : /\ outcome'[x] = "TaskFailed" /\ answer'[x] = "RequestError"
                   /\ con[Conn[x]] # "none" /\ ~Open(Conn[x])
  BY <1>1, <1>2 DEF Connected
<1>4. \A x \in Calls \ S : outcome'[x] = outcome[x] /\ answer'[x] = answer[x]
  BY <1>2
<1>5. /\ outcome' \in [Calls -> {"idle", "pending", "AlreadyClosed", "TaskFailed"} \cup rpc!Resolved]
      /\ answer' \in [Calls -> {"none", "Response", "Error", "MessageError", "RequestError"}]
      /\ arrived' \in [Calls -> {0, 1}]
  BY <1>2 DEF ApiTypeOK
<1> QED BY <1>1, <1>2, <1>3, <1>4, <1>5, AnswerKeeps

-----------------------------------------------------------------------------
(* The callee *)

LEMMA DispatchKeeps == ASSUME ApiInv, NEW l \in Loops, Dispatch(l) PROVE ApiInv'
<1> USE DEF ApiInv
<1> DEFINE x == Head(inbox[l])
<1>0. /\ l \in serving /\ inbox[l] # <<>>
      /\ inbox' = [inbox EXCEPT ![l] = Tail(inbox[l])]
      /\ x = "enable" => /\ requestor' = IF esr THEN requestor \cup {l[1]} ELSE requestor
                         /\ task' = task
      /\ x # "enable" =>
            /\ task' = [task EXCEPT ![x] = IF HeaderAction(request[x].action) = NoAction
                                           THEN "dropped" ELSE "spawned"]
            /\ requestor' = requestor
      /\ UNCHANGED <<data, table, esr, built, con, enabled, serving, request, result, reply, answer,
                     outcome, sent, arrived>>
  BY DEF Dispatch, Taken, registryVars, rpcVars
<1>t. \A m \in Loops : inbox[m] \in Seq(Calls \cup {"enable"})
  BY DEF ApiTypeOK
<1>q. /\ Tail(inbox[l]) \in Seq(Calls \cup {"enable"}) /\ x \in Calls \cup {"enable"}
      /\ 1 \in DOMAIN inbox[l] /\ x = inbox[l][1]
      /\ \A i \in DOMAIN Tail(inbox[l]) : /\ i \in Nat \ {0} /\ i + 1 \in DOMAIN inbox[l]
                                          /\ Tail(inbox[l])[i] = inbox[l][i + 1]
  BY <1>0, <1>t, Popped
<1> HIDE DEF x
<1>i. inbox'[l] = Tail(inbox[l]) /\ \A m \in Loops \ {l} : inbox'[m] = inbox[m]
  BY <1>0 DEF ApiTypeOK
<1>x. x # "enable" =>
         /\ x \in Calls /\ Loop(x) = l /\ task[x] = "none" /\ outcome[x] # "idle"
         /\ request[x] # NoRequest
  BY <1>q DEF OnItsWay
<1>y. \A c \in Calls \ {x} : task'[c] = task[c]
  BY <1>0, <1>q DEF ApiTypeOK
<1>z. x # "enable" => /\ task'[x] \in {"dropped", "spawned"}
                      /\ task'[x] = "spawned" => request[x].action \in Actions
  BY <1>0, <1>x DEF ApiTypeOK, HeaderAction
<1>1. OnItsWay'
  <2>1. \A m \in Loops : \E n \in {0, 1} : \A i \in DOMAIN inbox'[m] :
           i \in Nat \ {0} /\ i + n \in DOMAIN inbox[m] /\ inbox'[m][i] = inbox[m][i + n]
    <3> TAKE m \in Loops
    <3>1. CASE m = l
      <4> WITNESS 1 \in {0, 1}
      <4> QED BY <1>i, <1>q, <3>1
    <3>2. CASE m # l
      <4> WITNESS 0 \in {0, 1}
      <4> QED BY <1>i, <1>t, <3>2, Same
    <3> QED BY <3>1, <3>2
  <2>2. \A m \in Loops : \A i \in DOMAIN inbox'[m] : inbox'[m][i] # "enable" =>
           /\ task'[inbox'[m][i]] = "none"
           /\ outcome'[inbox'[m][i]] # "idle"
           /\ request'[inbox'[m][i]] # NoRequest
    <3> TAKE m \in Loops
    <3> TAKE i \in DOMAIN inbox'[m]
    <3> HAVE inbox'[m][i] # "enable"
    <3>1. \E j \in DOMAIN inbox[m] : inbox[m][j] = inbox'[m][i] /\ (m = l => j # 1)
      <4>1. CASE m = l
        <5>1. i \in Nat \ {0} /\ i + 1 \in DOMAIN inbox[l] /\ inbox'[l][i] = inbox[l][i + 1]
          BY <1>i, <1>q, <4>1
        <5>2. i + 1 # 1
          BY <5>1
        <5> QED BY <4>1, <5>1, <5>2
      <4>2. CASE m # l
        BY <1>i, <4>2
      <4> QED BY <4>1, <4>2
    <3>2. PICK j \in DOMAIN inbox[m] : inbox[m][j] = inbox'[m][i] /\ (m = l => j # 1)
      BY <3>1
    <3>3. /\ inbox[m][j] \in Calls /\ Loop(inbox[m][j]) = m /\ task[inbox[m][j]] = "none"
          /\ outcome[inbox[m][j]] # "idle" /\ request[inbox[m][j]] # NoRequest
      BY <3>2 DEF OnItsWay
    <3>4. inbox[m][j] # x
      <4>1. CASE m = l
        <5>1. inbox[l][j] = inbox[l][1] /\ inbox[l][j] # "enable" => j = 1
          BY <1>q, <3>2, <4>1 DEF OnItsWay
        <5> QED BY <1>q, <3>2, <4>1, <5>1
      <4>2. CASE m # l
        BY <1>x, <3>2, <3>3, <4>2
      <4> QED BY <4>1, <4>2
    <3> QED BY <1>0, <1>y, <3>2, <3>3, <3>4
  <2> QED BY <2>1, <2>2, WayKeeps
<1>2. ApiTypeOK'
  <2>1. inbox' \in [Loops -> Seq(Calls \cup {"enable"})]
    BY <1>0, <1>q DEF ApiTypeOK
  <2>2. task' \in [Calls -> TaskStates]
    BY <1>0, <1>q DEF ApiTypeOK, TaskStates
  <2>3. requestor' \subseteq Clients
    <3>1. l[1] \in Clients
      BY DEF Loops
    <3> QED BY <1>0, <3>1 DEF ApiTypeOK
  <2> QED BY <1>0, <2>1, <2>2, <2>3 DEF ApiTypeOK
<1>3. Served'
  <2>1. ASSUME NEW c \in Calls
        PROVE  /\ task'[c] # "none" => outcome[c] # "idle" /\ request[c] # NoRequest
               /\ task'[c] \in {"none", "spawned", "running", "unread"} =>
                     result[c] = "none" /\ reply[c] = NoReply
               /\ task'[c] \in {"spawned", "running", "unread"} => request[c].action \in Actions
               /\ sent[c] = 1 => task'[c] = "answered"
               /\ task'[c] = "answered" => reply[c] # NoReply
               /\ reply[c].body = "response" => result[c] = "Ok"
               /\ outcome[c] = "Ok" => sent[c] = 1
    <3>1. CASE task'[c] = task[c]
      BY <3>1 DEF Served
    <3>2. CASE task'[c] # task[c]
      <4>1. c = x /\ x # "enable"
        BY <1>0, <1>y, <3>2
      <4> QED BY <1>x, <1>z, <4>1 DEF Served
    <3> QED BY <3>1, <3>2
  <2> QED BY <1>0, <2>1, ServedIs
<1>4. Connected'
  BY <1>0 DEF Connected
<1>5. AnswerOfItsHandler' /\ DataThere'
  BY <1>0, <1>x, <1>y, <1>z DEF AnswerOfItsHandler, DataThere, Open
<1> QED BY <1>1, <1>2, <1>3, <1>4, <1>5

LEMMA HandleKeeps == ASSUME ApiInv, NEW c \in Calls, Handle(c) PROVE ApiInv'
<1> USE DEF ApiInv
<1>0. /\ task[c] = "spawned"
      /\ task' = [task EXCEPT ![c] =
            CASE HandlerOf(c) = NoHandler -> "dropped"
              [] HandlerOf(c) # NoHandler /\ ~request[c].readable -> "unread"
              [] OTHER -> IF Args[HandlerOf(c)] \subseteq data[OwnerOf(Loop(c))]
                          THEN "running" ELSE "no_data"]
      /\ UNCHANGED <<data, table, esr, built, con, enabled, requestor, serving, inbox, request,
                     result, reply, answer, outcome, sent, arrived>>
  BY DEF Handle, registryVars, connVars, rpcVars
<1>1. HandlerOf(c) # NoHandler => Args[HandlerOf(c)] \subseteq data[OwnerOf(Loop(c))]
  <2>1. request[c].action \in Actions
    BY <1>0 DEF Served
  <2> QED BY <2>1, Loopy DEF DataThere, HandlerOf
<1>2. task'[c] \in {"dropped", "unread", "running"} /\ \A x \in Calls \ {c} : task'[x] = task[x]
  BY <1>0, <1>1 DEF ApiTypeOK
<1>3. OnItsWay'
  BY <1>0, <1>2, WayStays
<1>4. ApiTypeOK'
  <2>1. task' \in [Calls -> TaskStates]
    BY <1>0 DEF ApiTypeOK, TaskStates
  <2> QED BY <1>0, <2>1 DEF ApiTypeOK
<1>5. Served'
  <2>1. ASSUME NEW x \in Calls
        PROVE  /\ task'[x] # "none" => outcome[x] # "idle" /\ request[x] # NoRequest
               /\ task'[x] \in {"none", "spawned", "running", "unread"} =>
                     result[x] = "none" /\ reply[x] = NoReply
               /\ task'[x] \in {"spawned", "running", "unread"} => request[x].action \in Actions
               /\ sent[x] = 1 => task'[x] = "answered"
               /\ task'[x] = "answered" => reply[x] # NoReply
               /\ reply[x].body = "response" => result[x] = "Ok"
               /\ outcome[x] = "Ok" => sent[x] = 1
    BY <1>0, <1>2 DEF Served
  <2> QED BY <1>0, <2>1, ServedIs
<1>6. Connected'
  BY <1>0, Kept
<1>7. AnswerOfItsHandler' /\ DataThere'
  BY <1>0, <1>2 DEF AnswerOfItsHandler, DataThere, Open
<1> QED BY <1>3, <1>4, <1>5, <1>6, <1>7

LEMMA FinishKeeps ==
    ASSUME ApiInv, NEW c \in Calls, NEW o \in Outcomes \cup Unread, Finish(c, o[1], o[2])
    PROVE  ApiInv'
<1> USE DEF ApiInv
<1> DEFINE res == o[1]
           body == o[2]
<1>0. /\ task[c] \in {"running", "unread"}
      /\ result' = [result EXCEPT ![c] = res]
      /\ body = "none" => /\ task' = [task EXCEPT ![c] = "dropped"]
                          /\ UNCHANGED <<reply, outcome, sent, arrived>>
      /\ body # "none" =>
            /\ task' = [task EXCEPT ![c] = "answered"]
            /\ reply' = [reply EXCEPT ![c] = [success |-> body = "response", body |-> body]]
            /\ UNCHANGED <<outcome, arrived>>
            /\ sent' = sent \/ sent' = [sent EXCEPT ![c] = sent[c] + 1]
      /\ UNCHANGED <<data, table, esr, built, con, enabled, requestor, serving, inbox, request,
                     answer>>
  BY DEF Finish, Send, rpc!Produce, registryVars, connVars, rpcVars
<1>b. /\ res \in {"none", "Ok", "Err", "panic"} /\ body \in {"response", "error", "none"}
      /\ body = "response" => res = "Ok"
  BY DEF Outcomes, Unread
<1> HIDE DEF res, body
<1>c. sent[c] = 0 /\ result[c] = "none" /\ reply[c] = NoReply
  BY <1>0 DEF Served, ApiTypeOK
<1>r. LET r == [success |-> body = "response", body |-> body]
      IN  body # "none" => r \in Replies /\ r # NoReply /\ r.body = body
  <2>1. [success |-> body = "response", body |-> body].body = body /\ NoReply.body = "none"
    BY DEF NoReply
  <2> QED BY <1>b, <2>1 DEF Replies
<1>1. ApiTypeOK'
  <2>1. task' \in [Calls -> TaskStates]
    BY <1>0 DEF ApiTypeOK, TaskStates
  <2>2. result' \in [Calls -> {"none", "Ok", "Err", "panic"}]
    BY <1>0, <1>b DEF ApiTypeOK
  <2>3. reply' \in [Calls -> Replies]
    BY <1>0, <1>r DEF ApiTypeOK
  <2>4. sent' \in [Calls -> {0, 1}]
    BY <1>0, <1>c DEF ApiTypeOK
  <2>5. outcome' = outcome /\ arrived' = arrived
    BY <1>0
  <2> QED BY <1>0, <2>1, <2>2, <2>3, <2>4, <2>5 DEF ApiTypeOK
<1>2. /\ \A x \in Calls \ {c} : /\ task'[x] = task[x] /\ result'[x] = result[x]
                                /\ reply'[x] = reply[x] /\ sent'[x] = sent[x]
      /\ outcome' = outcome /\ arrived' = arrived
  BY <1>0 DEF ApiTypeOK
<1>3. /\ result'[c] = res /\ task'[c] \in {"dropped", "answered"}
      /\ task'[c] = "dropped" => sent'[c] = 0 /\ reply'[c] = NoReply
      /\ task'[c] = "answered" => /\ reply'[c] # NoReply
                                  /\ reply'[c].body = "response" => res = "Ok"
  <2>1. result'[c] = res
    BY <1>0 DEF ApiTypeOK
  <2>2. CASE body = "none"
    <3>1. task'[c] = "dropped" /\ sent'[c] = 0 /\ reply'[c] = NoReply
      BY <1>0, <1>c, <2>2 DEF ApiTypeOK
    <3> QED BY <2>1, <3>1
  <2>3. CASE body # "none"
    <3>1. /\ task'[c] = "answered"
          /\ reply'[c] = [success |-> body = "response", body |-> body]
      BY <1>0, <2>3 DEF ApiTypeOK
    <3>2. reply'[c] # NoReply /\ reply'[c].body = body
      BY <1>r, <2>3, <3>1
    <3> QED BY <1>b, <2>1, <3>1, <3>2
  <2> QED BY <2>2, <2>3
<1>4. OnItsWay'
  BY <1>0, <1>2, WayStays
<1>5. Served'
  <2>0. outcome[c] # "idle" /\ request[c] # NoRequest /\ outcome[c] # "Ok"
    BY <1>0, <1>c DEF Served
  <2>n. NoReply.body # "response"
    BY DEF NoReply
  <2>1. ASSUME NEW x \in Calls
        PROVE  /\ task'[x] # "none" => outcome'[x] # "idle" /\ request[x] # NoRequest
               /\ task'[x] \in {"none", "spawned", "running", "unread"} =>
                     result'[x] = "none" /\ reply'[x] = NoReply
               /\ task'[x] \in {"spawned", "running", "unread"} => request[x].action \in Actions
               /\ sent'[x] = 1 => task'[x] = "answered"
               /\ task'[x] = "answered" => reply'[x] # NoReply
               /\ reply'[x].body = "response" => result'[x] = "Ok"
               /\ outcome'[x] = "Ok" => sent'[x] = 1
    <3>1. CASE x = c
      BY <1>2, <1>3, <2>0, <2>n, <3>1
    <3>2. CASE x # c
      <4>1. /\ task'[x] = task[x] /\ result'[x] = result[x] /\ reply'[x] = reply[x]
            /\ sent'[x] = sent[x] /\ outcome' = outcome
        BY <1>2, <3>2
      <4> QED BY <4>1 DEF Served
    <3> QED BY <3>1, <3>2
  <2> QED BY <1>0, <2>1, ServedIs
<1>6. Connected'
  BY <1>0, <1>2, Kept
<1>7. AnswerOfItsHandler'
  <2>1. NoReply.body = "none"
    BY DEF NoReply
  <2>2. answer[c] \notin {"Response", "Error"}
    BY <1>c, <2>1 DEF AnswerOfItsHandler
  <2>3. answer[c] = "RequestError" => ~(Open(Conn[c]) \/ Callee[c] = "local")
    BY <1>0 DEF AnswerOfItsHandler
  <2> QED BY <1>0, <1>2, <2>2, <2>3 DEF AnswerOfItsHandler, Open
<1>8. DataThere'
  BY <1>0, <1>2, <1>3 DEF DataThere
<1> QED BY <1>1, <1>4, <1>5, <1>6, <1>7, <1>8

-----------------------------------------------------------------------------
(* The theorem *)

LEMMA StepKeeps == ApiInv /\ [Next]_vars => ApiInv'
<1> SUFFICES ASSUME ApiInv, [Next]_vars PROVE ApiInv'
  OBVIOUS
<1>1. CASE UNCHANGED vars
  <2>1. UNCHANGED <<data, table, esr, built, con, enabled, requestor, serving, inbox, request, task,
                    result, reply, answer, outcome, sent, arrived>>
    BY <1>1 DEF vars, registryVars, connVars, rpcVars
  <2>2. ApiTypeOK'
    BY <2>1 DEF ApiInv, ApiTypeOK
  <2> QED BY <2>1, <2>2, Kept DEF ApiInv
<1>2. CASE Next
  BY <1>2, SetupKeeps, AcceptKeeps, EnableKeeps, AttachKeeps, FailedKeeps, DisconnectKeeps, AskKeeps,
     AskLocalKeeps, AskFailsKeeps, NotAnsweredKeeps, AnsweredKeeps, DispatchKeeps, HandleKeeps,
     FinishKeeps DEF Next
<1> QED BY <1>1, <1>2

(* ApiInv always holds, for every tree of calls, every set of handlers and any connections
   that end at any time. *)
THEOREM ApiInvHolds == Spec => []ApiInv
<1>1. Init => ApiInv
  BY InitKeeps
<1>2. ApiInv /\ [Next]_vars => ApiInv'
  BY StepKeeps
<1> QED BY <1>1, <1>2, PTL DEF Spec

(* What request() returns is what the handler of that request meant, and no handler finds
   its data missing. *)
THEOREM AnswersMeant == Spec => [](AnswerOfItsHandler /\ DataThere)
<1>1. ApiInv => AnswerOfItsHandler /\ DataThere
  BY DEF ApiInv
<1> QED BY <1>1, ApiInvHolds, PTL
================================================================================
