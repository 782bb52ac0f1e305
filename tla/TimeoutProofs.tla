----------------------------- MODULE TimeoutProofs -----------------------------
(* For all timeouts, delays and bounds: a read times out on an end that was lost or late. *)
EXTENDS TimeoutProperties, TLAPS

-----------------------------------------------------------------------------
(* The two ends, and the helpers on numbers and sequences *)

\* Peer is the other one of the two.
LEMMA PeerIs ==
    ASSUME NEW e \in Ends
    PROVE  /\ Peer(e) \in Ends /\ Peer(e) # e /\ Ends = {e, Peer(e)}
           /\ Peer(Peer(e)) = e
<1>1. PICK a, b \in Ends : a # b /\ Ends = {a, b}
  BY TimeoutAssumption
<1>2. \A x \in Ends : Peer(x) \in Ends /\ Peer(x) # x
  BY <1>1 DEF Peer
<1> QED BY <1>1, <1>2

\* The interval is a positive time, and not over the timeout.
LEMMA PeriodIs ==
    ASSUME NEW t \in Timeouts
    PROVE  Period(t) \in 1 .. Cap
BY TimeoutAssumption DEF Period, Margin

LEMMA OlderIs ==
    ASSUME NEW n \in 0 .. Cap
    PROVE  Older(n) = IF n < Cap THEN n + 1 ELSE Cap
<1>1. \A x, y \in Int : Min({x, y}) = IF x <= y THEN x ELSE y
  BY DEF Min
<1> QED BY <1>1, TimeoutAssumption DEF Older

LEMMA MaxIs ==
    ASSUME NEW x \in Int, NEW y \in Int
    PROVE  Max({x, y}) = IF x >= y THEN x ELSE y
BY DEF Max

LEMMA AgeIs ==
    ASSUME NEW n \in 0 .. Delay
    PROVE  Min({n + 1, Delay}) = IF n < Delay THEN n + 1 ELSE Delay
<1>1. \A x, y \in Int : Min({x, y}) = IF x <= y THEN x ELSE y
  BY DEF Min
<1> QED BY <1>1, TimeoutAssumption

\* What is put on the wire comes behind what is there.
LEMMA Appended ==
    ASSUME NEW w \in Seq(Frames), NEW f \in Seq(Frames)
    PROVE  /\ w \o f \in Seq(Frames)
           /\ w # <<>> => w \o f # <<>> /\ Head(w \o f) = Head(w)
           /\ w = <<>> => w \o f = f
           /\ f # <<>> => w \o f # <<>>
           /\ \A i \in DOMAIN w : i \in DOMAIN (w \o f) /\ (w \o f)[i] = w[i]
           /\ \A i \in DOMAIN f : \E j \in DOMAIN (w \o f) : (w \o f)[j] = f[i]
<1>1. /\ w \o f \in Seq(Frames) /\ Len(w \o f) = Len(w) + Len(f)
      /\ \A i \in 1 .. Len(w) : (w \o f)[i] = w[i]
      /\ \A i \in 1 .. Len(f) : (w \o f)[Len(w) + i] = f[i]
  OBVIOUS
<1>2. \A i \in DOMAIN f : \E j \in DOMAIN (w \o f) : (w \o f)[j] = f[i]
  <2> SUFFICES ASSUME NEW i \in DOMAIN f
               PROVE  Len(w) + i \in DOMAIN (w \o f) /\ (w \o f)[Len(w) + i] = f[i]
    OBVIOUS
  <2> QED BY <1>1
<1>3. \A i \in DOMAIN w : i \in DOMAIN (w \o f) /\ (w \o f)[i] = w[i]
  BY <1>1
<1>4. w # <<>> => w \o f # <<>> /\ Head(w \o f) = Head(w)
  BY <1>1
<1>5. w = <<>> => w \o f = f
  OBVIOUS
<1>6. f # <<>> => w \o f # <<>>
  BY <1>1
<1> QED BY <1>1, <1>2, <1>3, <1>4, <1>5, <1>6

\* A tick leaves the frames where they are, one tick older.
LEMMA AgedIs ==
    ASSUME NEW w \in Seq(Frames)
    PROVE  /\ Aged(w) \in Seq(Frames) /\ DOMAIN Aged(w) = DOMAIN w
           /\ \A i \in DOMAIN w : Aged(w)[i].kind = w[i].kind
           /\ w # <<>> => Aged(w) # <<>>
           /\ w # <<>> /\ Head(w).age < Delay => Head(Aged(w)).age = Head(w).age + 1
           /\ w = <<>> => Aged(w) = <<>>
<1> DEFINE older(i) == [kind |-> w[i].kind, age |-> Min({w[i].age + 1, Delay})]
<1>1. \A i \in DOMAIN w : w[i] \in Frames
  OBVIOUS
<1>2. \A i \in DOMAIN w : older(i) \in Frames /\ older(i).kind = w[i].kind
                          /\ (w[i].age < Delay => older(i).age = w[i].age + 1)
  <2> SUFFICES ASSUME NEW i \in DOMAIN w
               PROVE  /\ older(i) \in Frames /\ older(i).kind = w[i].kind
                      /\ w[i].age < Delay => older(i).age = w[i].age + 1
    OBVIOUS
  <2>1. w[i].age \in 0 .. Delay /\ w[i].kind \in Packets
    BY <1>1 DEF Frames
  <2>2. Min({w[i].age + 1, Delay}) = IF w[i].age < Delay THEN w[i].age + 1 ELSE Delay
    BY <2>1, AgeIs
  <2> QED BY <2>1, <2>2, TimeoutAssumption DEF Frames
<1> HIDE DEF older
<1>3. DOMAIN Aged(w) = DOMAIN w /\ Aged(w) \in Seq(Frames)
  <2>1. Aged(w) = [i \in 1 .. Len(w) |-> older(i)]
    BY DEF Aged, older
  <2>2. \A i \in 1 .. Len(w) : older(i) \in Frames
    BY <1>2
  <2> QED BY <2>1, <2>2
<1>4. \A i \in DOMAIN w : Aged(w)[i].kind = w[i].kind
  BY <1>2 DEF Aged, older
<1>5. w # <<>> => /\ Aged(w) # <<>>
                  /\ Head(w).age < Delay => Head(Aged(w)).age = Head(w).age + 1
  <2> HAVE w # <<>>
  <2>1. 1 \in DOMAIN w /\ Head(w) = w[1]
    OBVIOUS
  <2>2. Aged(w) # <<>> /\ Head(Aged(w)) = Aged(w)[1]
    BY <2>1, <1>3
  <2> QED BY <2>1, <2>2, <1>2 DEF Aged, older
<1>6. w = <<>> => Aged(w) = <<>>
  BY <1>3
<1> QED BY <1>3, <1>4, <1>5, <1>6

-----------------------------------------------------------------------------
(* An end that goes *)

Shaped == TimeoutTypeOK /\ SilenceExplained

LEMMA Times ==
    ASSUME TimeoutTypeOK, NEW e \in Ends
    PROVE  /\ Silence(e) \in Int /\ SilenceBound(e) \in Int
           /\ timeout[e] \in 1 .. Cap /\ timer[e] \in 0 .. Cap
           /\ interval[e] \in 1 .. Cap /\ due[e] \in 1 .. Cap
           /\ late[e] \in 0 .. Cap /\ waited[e] \in 0 .. Cap
           /\ wire[e] # <<>> => Head(wire[e]).age \in 0 .. Delay
<1>1. \A x \in Ends : /\ timeout[x] \in 1 .. Cap /\ timer[x] \in 0 .. Cap
                     /\ interval[x] \in 1 .. Cap /\ due[x] \in 1 .. Cap
                     /\ late[x] \in 0 .. Cap /\ waited[x] \in 0 .. Cap
  BY TimeoutAssumption DEF TimeoutTypeOK
<1>2. wire[e] # <<>> => Head(wire[e]).age \in 0 .. Delay
  <2>1. wire[e] \in Seq(Frames)
    BY DEF TimeoutTypeOK
  <2>2. wire[e] # <<>> => Head(wire[e]) \in Frames
    BY <2>1
  <2> QED BY <2>2 DEF Frames
<1>3. Silence(e) \in Int
  BY <1>1, TimeoutAssumption DEF Silence
<1>4. SilenceBound(e) \in Int
  <2>1. Peer(e) \in Ends
    BY PeerIs
  <2>2. /\ interval[Peer(e)] \in Int /\ late[Peer(e)] \in Int /\ due[Peer(e)] \in Int
        /\ waited[e] \in Int
    BY <1>1, <2>1, TimeoutAssumption
  <2>3. CASE wire[e] # <<>>
    BY <1>2, <2>2, <2>3, TimeoutAssumption DEF SilenceBound
  <2>4. CASE wire[e] = <<>>
    BY <2>2, <2>4 DEF SilenceBound
  <2> QED BY <2>3, <2>4
<1> QED BY <1>1, <1>2, <1>3, <1>4

LEMMA InitKeeps == Init => TimeoutInv
<1> SUFFICES ASSUME Init PROVE TimeoutInv
  OBVIOUS
<1>1. \A e \in Ends : timeout[e] \in Timeouts /\ interval[e] = Period(timeout[e])
  BY TimeoutAssumption DEF Init
<1>2. \A e \in Ends : interval[e] \in 1 .. Cap
  BY <1>1, PeriodIs
<1>3. TimeoutTypeOK
  BY <1>1, <1>2, TimeoutAssumption DEF Init, TimeoutTypeOK
<1>4. SilenceExplained
  BY <1>2, PeerIs DEF Init, SilenceExplained, IntervalOK, TimerOK, EndOK, SilenceOK
<1>5. TimeoutOnlyOfTheLate
  BY DEF Init, TimeoutOnlyOfTheLate
<1> QED BY <1>3, <1>4, <1>5 DEF TimeoutInv

\* A task that returns lets the other end find the end of the stream.
LEMMA HangUpKeeps ==
    ASSUME Shaped, NEW e \in Ends, NEW how \in {"ended", "timed_out"},
           NEW f \in {<<Frame("eof")>>, <<Frame("close"), Frame("eof")>>},
           place[e] \notin Gone, HangUp(e, how, f)
    PROVE  Shaped'
<1> DEFINE p == Peer(e)
<1>p. p \in Ends /\ p # e /\ Ends = {e, p} /\ Peer(p) = e
  BY PeerIs
<1> USE DEF Shaped
<1>f. f \in Seq(Frames) /\ f # <<>> /\ Head(f).age = 0 /\ \E i \in DOMAIN f : f[i].kind = "eof"
  <2>1. CASE f = <<Frame("eof")>>
    BY <2>1, TimeoutAssumption DEF Frame, Frames, Packets
  <2>2. CASE f = <<Frame("close"), Frame("eof")>>
    <3>1. f[2].kind = "eof" /\ 2 \in DOMAIN f
      BY <2>2 DEF Frame
    <3> QED BY <3>1, <2>2, TimeoutAssumption DEF Frame, Frames, Packets
  <2> QED BY <2>1, <2>2
<1>w. wire[p] \in Seq(Frames)
  BY <1>p DEF TimeoutTypeOK
<1>1. /\ wire[p] \o f \in Seq(Frames)
      /\ wire[p] # <<>> => wire[p] \o f # <<>> /\ Head(wire[p] \o f) = Head(wire[p])
      /\ wire[p] = <<>> => wire[p] \o f = f
      /\ wire[p] \o f # <<>>
      /\ \A i \in DOMAIN f : \E j \in DOMAIN (wire[p] \o f) : (wire[p] \o f)[j] = f[i]
  BY <1>f, <1>w, Appended
<1> DEFINE w == wire[p] \o f
<1>2. /\ place' = [place EXCEPT ![e] = how] /\ active' = [active EXCEPT ![e] = FALSE]
      /\ timer' = [timer EXCEPT ![e] = 0] /\ owed' = [owed EXCEPT ![e] = FALSE]
      /\ due' = [due EXCEPT ![e] = interval[e]] /\ late' = [late EXCEPT ![e] = 0]
      /\ wire' = [wire EXCEPT ![p] = w, ![e] = <<>>]
      /\ socket' = [socket EXCEPT ![e] = <<>>]
      /\ closing' = [closing EXCEPT ![e] = "no"]
      /\ UNCHANGED <<timeout, interval, waited, changes>>
  BY DEF HangUp, Return, Goto
<1> HIDE DEF w, p
<1>3. w \in Seq(Frames) /\ w # <<>> /\ (\E j \in DOMAIN w : w[j].kind = "eof")
      /\ (wire[p] # <<>> => Head(w) = Head(wire[p])) /\ (wire[p] = <<>> => Head(w).age = 0)
  <2>1. \E j \in DOMAIN w : w[j].kind = "eof"
    BY <1>1, <1>f, Zenon DEF w
  <2> QED BY <1>1, <1>f, <2>1 DEF w
<1>4. TimeoutTypeOK'
  <2>1. wire' \in [Ends -> Seq(Frames)]
    <3>1. wire \in [Ends -> Seq(Frames)] /\ w \in Seq(Frames) /\ <<>> \in Seq(Frames)
      BY <1>3 DEF TimeoutTypeOK
    <3> QED BY <1>2, <3>1
  <2>2. socket' \in [Ends -> Seq(Packets)]
    BY <1>2, <1>p DEF TimeoutTypeOK
  <2>3. place' \in [Ends -> {"new", "select", "working"} \cup Writing \cup Gone]
    BY <1>2 DEF TimeoutTypeOK, Gone
  <2>4. /\ timer' \in [Ends -> 0 .. Cap] /\ active' \in [Ends -> BOOLEAN]
        /\ due' \in [Ends -> 1 .. Cap] /\ owed' \in [Ends -> BOOLEAN]
        /\ closing' \in [Ends -> {"no", "told", "asked"}] /\ late' \in [Ends -> 0 .. Cap]
    BY <1>2, TimeoutAssumption DEF TimeoutTypeOK
  <2> QED BY <1>2, <2>1, <2>2, <2>3, <2>4 DEF TimeoutTypeOK
<1>5. IntervalOK(e)' /\ TimerOK(e)' /\ EndOK(e)' /\ SilenceOK(e)'
  BY <1>2, <1>p DEF TimeoutTypeOK, IntervalOK, TimerOK, EndOK, SilenceOK, Gone
<1>6. IntervalOK(p)'
  BY <1>2, <1>p DEF TimeoutTypeOK, SilenceExplained, IntervalOK
<1>7. TimerOK(p)'
  BY <1>2, <1>p DEF TimeoutTypeOK, SilenceExplained, TimerOK
<1>8. EndOK(p)'
  BY <1>2, <1>3, <1>p DEF TimeoutTypeOK, EndOK, EndAhead
<1>9. SilenceOK(p)'
  <2> SUFFICES ASSUME active[p], socket[p] = <<>>, place[p] \notin Gone, place[e] # "dead"
               PROVE  Silence(p)' <= SilenceBound(p)'
    BY <1>2, <1>p DEF SilenceOK, TimeoutTypeOK, Gone
  <2>1. Silence(p)' = Silence(p) /\ Silence(p) <= SilenceBound(p)
    BY <1>2, <1>p DEF SilenceExplained, SilenceOK, Silence, TimeoutTypeOK
  <2>2. SilenceBound(p)' = interval[e] + waited[p] + Head(w).age
    BY <1>2, <1>3, <1>p DEF SilenceBound, TimeoutTypeOK
  <2>3. CASE wire[p] # <<>>
    BY <2>1, <2>2, <2>3, <1>3, <1>p DEF SilenceBound
  <2>4. CASE wire[p] = <<>>
    <3>1. late[e] <= waited[p] /\ due[e] \in 1 .. Cap
      BY <1>p DEF SilenceExplained, TimerOK, TimeoutTypeOK
    <3>2. SilenceBound(p) <= interval[e] + waited[p]
      BY <2>4, <3>1, <1>p DEF SilenceBound, TimeoutTypeOK
    <3>3. SilenceBound(p)' = interval[e] + waited[p]
      BY <2>2, <2>4, <1>3, <1>p DEF TimeoutTypeOK
    <3>4. Silence(p) \in Int /\ SilenceBound(p) \in Int
      BY <1>p, Times
    <3>5. interval[e] + waited[p] \in Int
      BY <1>p, TimeoutAssumption DEF TimeoutTypeOK
    <3> QED BY <2>1, <3>2, <3>3, <3>4, <3>5
  <2> QED BY <2>3, <2>4
<1> QED BY <1>4, <1>5, <1>6, <1>7, <1>8, <1>9, <1>p DEF SilenceExplained

LEMMA DieKeeps ==
    ASSUME Shaped, NEW e \in Ends, NEW n \in 0 .. Len(wire[Peer(e)]), Die(e, n)
    PROVE  Shaped'
<1> DEFINE p == Peer(e)
<1>p. p \in Ends /\ p # e /\ Ends = {e, p} /\ Peer(p) = e
  BY PeerIs
<1> USE DEF Shaped
<1>w. wire[p] \in Seq(Frames)
  BY <1>p DEF TimeoutTypeOK
<1> DEFINE w == SubSeq(wire[p], 1, n)
<1>1. w \in Seq(Frames)
  BY <1>w, <1>p
<1>2. /\ place' = [place EXCEPT ![e] = "dead"] /\ active' = [active EXCEPT ![e] = FALSE]
      /\ timer' = [timer EXCEPT ![e] = 0] /\ owed' = [owed EXCEPT ![e] = FALSE]
      /\ due' = [due EXCEPT ![e] = interval[e]] /\ late' = [late EXCEPT ![e] = 0]
      /\ wire' = [wire EXCEPT ![p] = w, ![e] = <<>>]
      /\ socket' = [socket EXCEPT ![e] = <<>>]
      /\ closing' = [closing EXCEPT ![e] = "no"]
      /\ UNCHANGED <<timeout, interval, waited, changes>>
  BY DEF Die, Return, Goto
<1> HIDE DEF w, p
<1>4. TimeoutTypeOK'
  <2>1. wire' \in [Ends -> Seq(Frames)]
    <3>1. wire \in [Ends -> Seq(Frames)] /\ w \in Seq(Frames) /\ <<>> \in Seq(Frames)
      BY <1>1 DEF TimeoutTypeOK
    <3> QED BY <1>2, <3>1
  <2>2. socket' \in [Ends -> Seq(Packets)]
    BY <1>2 DEF TimeoutTypeOK
  <2>3. place' \in [Ends -> {"new", "select", "working"} \cup Writing \cup Gone]
    BY <1>2 DEF TimeoutTypeOK, Gone
  <2>4. /\ timer' \in [Ends -> 0 .. Cap] /\ active' \in [Ends -> BOOLEAN]
        /\ due' \in [Ends -> 1 .. Cap] /\ owed' \in [Ends -> BOOLEAN]
        /\ closing' \in [Ends -> {"no", "told", "asked"}] /\ late' \in [Ends -> 0 .. Cap]
    BY <1>2, TimeoutAssumption DEF TimeoutTypeOK
  <2> QED BY <1>2, <2>1, <2>2, <2>3, <2>4 DEF TimeoutTypeOK
<1>5. IntervalOK(e)' /\ TimerOK(e)' /\ EndOK(e)' /\ SilenceOK(e)'
  BY <1>2, <1>p DEF TimeoutTypeOK, IntervalOK, TimerOK, EndOK, SilenceOK, Gone
<1>6. IntervalOK(p)'
  BY <1>2, <1>p DEF TimeoutTypeOK, SilenceExplained, IntervalOK
<1>7. TimerOK(p)'
  BY <1>2, <1>p DEF TimeoutTypeOK, SilenceExplained, TimerOK
<1>8. EndOK(p)' /\ SilenceOK(p)'
  BY <1>2, <1>p DEF TimeoutTypeOK, EndOK, SilenceOK
<1> QED BY <1>4, <1>5, <1>6, <1>7, <1>8, <1>p DEF SilenceExplained

-----------------------------------------------------------------------------
(* The timer *)

LEMMA ResetTimerKeeps ==
    ASSUME Shaped, NEW e \in Ends, ResetTimer(e)
    PROVE  Shaped'
<1> DEFINE p == Peer(e)
<1>p. p \in Ends /\ p # e /\ Ends = {e, p} /\ Peer(p) = e
  BY PeerIs
<1> USE DEF Shaped
<1>2. /\ timer' = [timer EXCEPT ![e] = timeout[e]] /\ active' = [active EXCEPT ![e] = TRUE]
      /\ waited' = [waited EXCEPT ![e] = late[p]]
      /\ UNCHANGED <<timeout, interval, due, owed, place, closing, wire, socket, late, changes>>
  BY DEF ResetTimer, stream
<1> HIDE DEF p
<1>t. timeout[e] \in 1 .. Cap /\ late[p] \in 0 .. Cap
  BY <1>p, Times
<1>4. TimeoutTypeOK'
  BY <1>2, <1>t, TimeoutAssumption DEF TimeoutTypeOK
<1>5. \A x \in Ends : IntervalOK(x)' /\ EndOK(x)'
  BY <1>2, <1>p DEF SilenceExplained, IntervalOK, EndOK, EndAhead
<1>6. TimerOK(e)' /\ TimerOK(p)'
  <2>1. TimerOK(e)'
    BY <1>2, <1>p, <1>t DEF TimerOK, TimeoutTypeOK, p
  <2>2. TimerOK(p)'
    BY <1>2, <1>p DEF SilenceExplained, TimerOK, TimeoutTypeOK
  <2> QED BY <2>1, <2>2
<1>7. SilenceOK(e)'
  <2>1. Silence(e)' = 0
    BY <1>2, <1>t DEF Silence, TimeoutTypeOK
  <2>2. due[p] <= interval[p] /\ p \in Ends /\ due[p] \in Int /\ interval[p] \in 1 .. Cap
    BY <1>p, Times DEF SilenceExplained, IntervalOK
  <2>3. CASE wire[e] # <<>>
    <3>1. Head(wire[e]).age \in 0 .. Delay
      BY <2>3, Times
    <3>2. SilenceBound(e)' = interval[p] + late[p] + Head(wire[e]).age
      BY <1>2, <2>3, <1>p DEF SilenceBound, TimeoutTypeOK, p
    <3> QED BY <2>1, <2>2, <3>1, <3>2, <1>t, TimeoutAssumption DEF SilenceOK
  <2>4. CASE wire[e] = <<>>
    <3>1. SilenceBound(e)' = interval[p] + late[p] \/ SilenceBound(e)' = interval[p] - due[p]
      BY <1>2, <2>4, <1>p DEF SilenceBound, p
    <3> QED BY <2>1, <2>2, <3>1, <1>t DEF SilenceOK
  <2> QED BY <2>3, <2>4
<1>8. SilenceOK(p)'
  <2>1. Silence(p)' = Silence(p) /\ SilenceBound(p)' = SilenceBound(p)
    BY <1>2, <1>p DEF Silence, SilenceBound, Unpinged, TimeoutTypeOK
  <2> QED BY <1>2, <1>p, <2>1 DEF SilenceExplained, SilenceOK, TimeoutTypeOK
<1> QED BY <1>4, <1>5, <1>6, <1>7, <1>8, <1>p DEF SilenceExplained

\* A read, and a new timeout.
LEMMA StopTimerKeeps ==
    ASSUME Shaped, NEW e \in Ends, Reading(e), StopTimer(e),
           timeout' \in [Ends -> Timeouts], \A x \in Ends : x # e => timeout'[x] = timeout[x],
           NEW q \in {"select", "working"}, place' = [place EXCEPT ![e] = q],
           socket' \in [Ends -> Seq(Packets)],
           \A x \in Ends : x # e => socket'[x] = socket[x],
           (\E i \in DOMAIN socket[e] : socket[e][i] = "eof") =>
              \E i \in DOMAIN socket'[e] : socket'[e][i] = "eof",
           closing' \in [Ends -> {"no", "told", "asked"}], changes' \in 0 .. MaxChanges,
           UNCHANGED <<interval, due, owed, wire, late>>
    PROVE  Shaped'
<1> DEFINE p == Peer(e)
<1>p. p \in Ends /\ p # e /\ Ends = {e, p} /\ Peer(p) = e
  BY PeerIs
<1> USE DEF Shaped
<1>2. /\ timer' = [timer EXCEPT ![e] = 0] /\ active' = [active EXCEPT ![e] = FALSE]
      /\ waited' = [waited EXCEPT ![e] = 0]
  BY DEF StopTimer
<1>3. place[e] = "select"
  BY DEF Reading, Selecting
<1> HIDE DEF p
<1>4. TimeoutTypeOK'
  BY <1>2, TimeoutAssumption DEF TimeoutTypeOK
<1>5. IntervalOK(e)' /\ TimerOK(e)' /\ SilenceOK(e)'
  BY <1>2, <1>p, <1>3 DEF TimeoutTypeOK, SilenceExplained, IntervalOK, TimerOK, SilenceOK
<1>6. EndOK(e)'
  <2> SUFFICES ASSUME place[p] \in {"ended", "timed_out"}
               PROVE  EndAhead(e)'
    BY <1>p DEF EndOK, TimeoutTypeOK, p
  <2>1. EndAhead(e)
    BY <1>3, <1>p DEF SilenceExplained, EndOK, Gone, p
  <2> QED BY <2>1 DEF EndAhead
<1>7. IntervalOK(p)' /\ TimerOK(p)'
  BY <1>2, <1>p, <1>3 DEF TimeoutTypeOK, SilenceExplained, IntervalOK, TimerOK
<1>8. EndOK(p)'
  BY <1>p, <1>3 DEF EndOK, TimeoutTypeOK
<1>9. SilenceOK(p)'
  <2>1. Silence(p)' = Silence(p)
    BY <1>2, <1>p DEF Silence, TimeoutTypeOK
  <2>2. SilenceBound(p)' = SilenceBound(p)
    BY <1>2, <1>p, <1>3 DEF SilenceBound, Unpinged, TimeoutTypeOK
  <2> QED BY <1>2, <1>p, <1>3, <2>1, <2>2 DEF SilenceExplained, SilenceOK, TimeoutTypeOK
<1> QED BY <1>4, <1>5, <1>6, <1>7, <1>8, <1>9, <1>p DEF SilenceExplained

LEMMA SetTimeoutKeeps ==
    ASSUME Shaped, NEW e \in Ends, NEW t \in Timeouts, SetTimeout(e, t)
    PROVE  Shaped'
<1>1. /\ timeout' \in [Ends -> Timeouts] /\ \A x \in Ends : x # e => timeout'[x] = timeout[x]
      /\ changes' \in 0 .. MaxChanges
  BY TimeoutAssumption DEF SetTimeout, Shaped, TimeoutTypeOK
<1>2. place' = [place EXCEPT ![e] = "select"]
  BY DEF SetTimeout, Reading, Selecting, Shaped, TimeoutTypeOK
<1> QED BY <1>1, <1>2, StopTimerKeeps DEF SetTimeout, stream, Shaped, TimeoutTypeOK

LEMMA ReceiveKeeps ==
    ASSUME Shaped, NEW e \in Ends, Receive(e)
    PROVE  Shaped'
<1>1. PICK q \in {"select", "working"} : place' = [place EXCEPT ![e] = q]
  <2>1. CASE Head(socket[e]) = "close"
    <3>1. place' = [place EXCEPT ![e] = "select"]
      BY <2>1 DEF Receive, Reading, Selecting, Shaped, TimeoutTypeOK
    <3> QED BY <3>1
  <2>2. CASE Head(socket[e]) # "close"
    BY <2>2 DEF Receive, Goto
  <2> QED BY <2>1, <2>2
<1>2. closing' \in [Ends -> {"no", "told", "asked"}]
  BY DEF Receive, Shaped, TimeoutTypeOK
<1>3. socket[e] \in Seq(Packets) /\ socket[e] # <<>> /\ Head(socket[e]) # "eof"
      /\ socket' = [socket EXCEPT ![e] = Tail(socket[e])]
  BY DEF Receive, Shaped, TimeoutTypeOK
<1>4. socket' \in [Ends -> Seq(Packets)] /\ \A x \in Ends : x # e => socket'[x] = socket[x]
  BY <1>3 DEF Shaped, TimeoutTypeOK
<1>5. ASSUME NEW i \in DOMAIN socket[e], socket[e][i] = "eof"
      PROVE  \E j \in DOMAIN socket'[e] : socket'[e][j] = "eof"
  <2>1. i # 1 /\ i \in 1 .. Len(socket[e])
    BY <1>3, <1>5
  <2>2. i - 1 \in 1 .. Len(Tail(socket[e])) /\ Tail(socket[e])[i - 1] = socket[e][i]
    BY <2>1, <1>3
  <2>3. socket'[e] = Tail(socket[e])
    BY <1>3 DEF Shaped, TimeoutTypeOK
  <2>4. i - 1 \in DOMAIN socket'[e] /\ socket'[e][i - 1] = "eof"
    BY <2>2, <2>3, <1>3, <1>5
  <2> QED BY <2>4
<1>6. timeout' \in [Ends -> Timeouts] /\ (\A x \in Ends : x # e => timeout'[x] = timeout[x])
      /\ changes' \in 0 .. MaxChanges /\ Reading(e) /\ StopTimer(e)
      /\ UNCHANGED <<interval, due, owed, wire, late>>
  BY DEF Receive, Shaped, TimeoutTypeOK
<1> QED BY <1>1, <1>2, <1>4, <1>5, <1>6, StopTimerKeeps

-----------------------------------------------------------------------------
(* The arms *)

\* To an arm, and back from one that wrote nothing.
LEMMA MoveKeeps ==
    ASSUME Shaped, NEW e \in Ends, place[e] \in {"new", "select", "working"},
           NEW q \in {"select", "working", "sending"}, place' = [place EXCEPT ![e] = q],
           closing' \in [Ends -> {"no", "told", "asked"}],
           UNCHANGED <<timeout, interval, clocks, stream, changes>>
    PROVE  Shaped'
<1> DEFINE p == Peer(e)
<1>p. p \in Ends /\ p # e /\ Ends = {e, p} /\ Peer(p) = e
  BY PeerIs
<1> USE DEF Shaped, clocks, stream
<1> HIDE DEF p
<1>1. TimeoutTypeOK'
  BY DEF TimeoutTypeOK, Writing
<1>2. \A x \in Ends : IntervalOK(x)' /\ TimerOK(x)'
  BY DEF TimeoutTypeOK, SilenceExplained, IntervalOK, TimerOK
<1>3. EndOK(e)' /\ EndOK(p)'
  <2>1. EndOK(e)'
    BY <1>p DEF TimeoutTypeOK, SilenceExplained, EndOK, EndAhead, Gone, p
  <2>2. EndOK(p)'
    BY <1>p DEF TimeoutTypeOK, EndOK
  <2> QED BY <2>1, <2>2
<1>4. SilenceOK(e)'
  <2>1. Silence(e)' = Silence(e) /\ SilenceBound(e)' = SilenceBound(e)
    BY <1>p DEF Silence, SilenceBound, Unpinged, TimeoutTypeOK, p
  <2> QED BY <1>p, <2>1 DEF SilenceExplained, SilenceOK, TimeoutTypeOK, Gone, p
<1>5. SilenceOK(p)'
  <2>1. Silence(p)' = Silence(p) /\ SilenceBound(p)' = SilenceBound(p)
    BY <1>p DEF Silence, SilenceBound, Unpinged, TimeoutTypeOK
  <2> QED BY <1>p, <2>1 DEF SilenceExplained, SilenceOK, TimeoutTypeOK, Gone
<1> QED BY <1>1, <1>2, <1>3, <1>4, <1>5, <1>p DEF SilenceExplained

LEMMA PingKeeps ==
    ASSUME Shaped, NEW e \in Ends, Ping(e)
    PROVE  Shaped'
<1> DEFINE p == Peer(e)
<1>p. p \in Ends /\ p # e /\ Ends = {e, p} /\ Peer(p) = e
  BY PeerIs
<1> USE DEF Shaped
<1> HIDE DEF p
<1>0. /\ place[e] = "select" /\ owed[e]
      /\ place' = [place EXCEPT ![e] = "pinging"] /\ owed' = [owed EXCEPT ![e] = FALSE]
      /\ UNCHANGED <<timeout, timer, active, interval, due, closing, wire, socket, late, waited,
                     changes>>
  BY DEF Ping, Reading, Selecting, Goto, stream
<1>1. TimeoutTypeOK'
  BY <1>0 DEF TimeoutTypeOK, Writing
<1>2. \A x \in Ends : IntervalOK(x)' /\ TimerOK(x)'
  BY <1>0 DEF TimeoutTypeOK, SilenceExplained, IntervalOK, TimerOK
<1>3. EndOK(e)' /\ EndOK(p)'
  <2>1. EndOK(e)'
    BY <1>0, <1>p DEF TimeoutTypeOK, SilenceExplained, EndOK, EndAhead, Gone, p
  <2>2. EndOK(p)'
    BY <1>0, <1>p DEF TimeoutTypeOK, EndOK
  <2> QED BY <2>1, <2>2
<1>4. SilenceOK(e)'
  <2>1. Silence(e)' = Silence(e) /\ SilenceBound(e)' = SilenceBound(e)
    BY <1>0, <1>p DEF Silence, SilenceBound, Unpinged, TimeoutTypeOK, p
  <2> QED BY <1>0, <1>p, <2>1 DEF SilenceExplained, SilenceOK, TimeoutTypeOK, Gone, p
<1>5. SilenceOK(p)'
  <2>1. Silence(p)' = Silence(p) /\ SilenceBound(p)' = SilenceBound(p)
    BY <1>0, <1>p DEF Silence, SilenceBound, Unpinged, TimeoutTypeOK
  <2> QED BY <1>0, <1>p, <2>1 DEF SilenceExplained, SilenceOK, TimeoutTypeOK, Gone
<1> QED BY <1>1, <1>2, <1>3, <1>4, <1>5, <1>p DEF SilenceExplained

\* What is written is younger than all that is on the way.
LEMMA WrittenKeeps ==
    ASSUME Shaped, NEW e \in Ends, Written(e)
    PROVE  Shaped'
<1> DEFINE p == Peer(e)
           f == Packet(e)
           w == wire[p] \o f
           l == IF place[e] # "pinging" THEN late[e]
                ELSE IF owed[e] THEN interval[e] - due[e] ELSE 0
<1>p. p \in Ends /\ p # e /\ Ends = {e, p} /\ Peer(p) = e
  BY PeerIs
<1> USE DEF Shaped
<1>0. /\ place[e] \in {"sending", "pinging"} /\ place' = [place EXCEPT ![e] = "select"]
      /\ wire' = [wire EXCEPT ![p] = w] /\ late' = [late EXCEPT ![e] = l]
      /\ UNCHANGED <<timeout, timer, active, interval, due, owed, closing, socket, waited, changes>>
  BY DEF Written, OnWire, Goto, Writing, TimeoutTypeOK
<1>f. /\ f \in Seq(Frames)
      /\ f # <<>> => Head(f).age = 0
      /\ place[p] # "dead" => f # <<>>
  <2>1. Frame("packet") \in Frames /\ Frame("packet").age = 0
    BY TimeoutAssumption DEF Frame, Frames, Packets
  <2> QED BY <2>1 DEF Packet
<1>w. wire[p] \in Seq(Frames)
  BY <1>p DEF TimeoutTypeOK
<1> HIDE DEF f, p
<1>a. /\ w \in Seq(Frames)
      /\ wire[p] # <<>> => w # <<>> /\ Head(w) = Head(wire[p])
      /\ wire[p] = <<>> => w = f
      /\ \A i \in DOMAIN wire[p] : i \in DOMAIN w /\ w[i] = wire[p][i]
  BY <1>f, <1>w, Appended
<1>l. /\ l \in 0 .. Cap /\ l <= late[e] /\ due[e] <= interval[e]
      /\ interval[e] \in 1 .. Cap /\ due[e] \in 1 .. Cap /\ late[e] \in 0 .. Cap
  <2>1. /\ due[e] <= interval[e] /\ interval[e] \in 1 .. Cap /\ due[e] \in 1 .. Cap
        /\ late[e] \in 0 .. Cap
        /\ place[e] = "pinging" /\ owed[e] => interval[e] - due[e] <= late[e]
    BY Times DEF SilenceExplained, IntervalOK
  <2> QED BY <2>1, TimeoutAssumption
<1> HIDE DEF w, l
<1>1. TimeoutTypeOK'
  <2>1. wire' \in [Ends -> Seq(Frames)]
    BY <1>0, <1>a DEF TimeoutTypeOK
  <2> QED BY <1>0, <1>l, <2>1 DEF TimeoutTypeOK
<1>2. IntervalOK(e)' /\ TimerOK(e)'
  <2>1. IntervalOK(e)'
    BY <1>0, <1>l DEF TimeoutTypeOK, IntervalOK
  <2>2. TimerOK(e)'
    BY <1>0, <1>p DEF TimeoutTypeOK, SilenceExplained, TimerOK, p
  <2> QED BY <2>1, <2>2
<1>3. IntervalOK(p)' /\ TimerOK(p)'
  <2>1. IntervalOK(p)'
    BY <1>0, <1>p DEF TimeoutTypeOK, SilenceExplained, IntervalOK
  <2>2. active[p] => timer[p] <= timeout[p] /\ late[e] <= waited[p]
    BY <1>p DEF SilenceExplained, TimerOK
  <2>3. late'[e] = l /\ waited[p] \in 0 .. Cap
    BY <1>0, <1>p DEF TimeoutTypeOK
  <2>4. active[p] => l <= waited[p]
    BY <2>2, <2>3, <1>l
  <2>5. TimerOK(p)'
    BY <1>0, <1>p, <2>2, <2>3, <2>4 DEF TimerOK
  <2> QED BY <2>1, <2>5
<1>4. EndOK(e)' /\ EndOK(p)'
  <2>1. EndOK(e)'
    BY <1>0, <1>p DEF TimeoutTypeOK, SilenceExplained, EndOK, EndAhead, Gone, p
  <2>2. EndOK(p)'
    BY <1>0, <1>p DEF TimeoutTypeOK, EndOK
  <2> QED BY <2>1, <2>2
<1>5. SilenceOK(e)'
  <2>1. Silence(e)' = Silence(e) /\ SilenceBound(e)' = SilenceBound(e)
    BY <1>0, <1>p DEF Silence, SilenceBound, Unpinged, TimeoutTypeOK, p
  <2> QED BY <1>0, <1>p, <2>1 DEF SilenceExplained, SilenceOK, TimeoutTypeOK, Gone, p
<1>6. SilenceOK(p)'
  <2> SUFFICES ASSUME active[p], socket[p] = <<>>, place[p] \notin Gone
               PROVE  Silence(p)' <= SilenceBound(p)'
    BY <1>0, <1>p DEF SilenceOK, TimeoutTypeOK, Gone
  <2>1. Silence(p)' = Silence(p) /\ Silence(p) <= SilenceBound(p) /\ late[e] <= waited[p]
    BY <1>0, <1>p DEF SilenceExplained, SilenceOK, TimerOK, Silence, TimeoutTypeOK
  <2>2. wire'[p] = w /\ w # <<>>
    BY <1>0, <1>p, <1>a, <1>f DEF TimeoutTypeOK, Gone
  <2>3. SilenceBound(p)' = interval[e] + waited[p] + Head(w).age
    BY <1>0, <2>2, <1>p DEF SilenceBound
  <2>4. CASE wire[p] # <<>>
    BY <2>1, <2>3, <2>4, <1>a, <1>p DEF SilenceBound
  <2>5. CASE wire[p] = <<>>
    <3>1. SilenceBound(p) <= interval[e] + waited[p]
      <4>1. waited[p] \in 0 .. Cap
        BY <1>p, Times
      <4> QED BY <2>1, <2>5, <1>l, <1>p, <4>1 DEF SilenceBound
    <3>2. SilenceBound(p)' = interval[e] + waited[p]
      <4>1. Head(w).age = 0 /\ waited[p] \in 0 .. Cap
        BY <2>2, <2>5, <1>a, <1>f, <1>p, Times
      <4> QED BY <2>3, <4>1, <1>l
    <3>3. Silence(p) \in Int /\ SilenceBound(p) \in Int /\ waited[p] \in 0 .. Cap
      BY <1>p, Times
    <3> QED BY <2>1, <3>1, <3>2, <3>3, <1>l
  <2> QED BY <2>4, <2>5
<1> QED BY <1>1, <1>2, <1>3, <1>4, <1>5, <1>6, <1>p DEF SilenceExplained

-----------------------------------------------------------------------------
(* The network, and time *)

LEMMA ArriveKeeps ==
    ASSUME Shaped, NEW e \in Ends, Arrive(e)
    PROVE  Shaped'
<1> DEFINE p == Peer(e)
           h == Head(wire[e]).kind
<1>p. p \in Ends /\ p # e /\ Ends = {e, p} /\ Peer(p) = e
  BY PeerIs
<1> USE DEF Shaped, clocks
<1>0. /\ wire[e] # <<>> /\ wire[e] \in Seq(Frames) /\ socket[e] \in Seq(Packets)
      /\ socket' = [socket EXCEPT ![e] = Append(socket[e], h)]
      /\ wire' = [wire EXCEPT ![e] = Tail(wire[e])]
      /\ UNCHANGED <<timeout, interval, timer, active, due, owed, late, waited, place, closing,
                     changes>>
  BY DEF Arrive, TimeoutTypeOK
<1>h. h \in Packets
  <2>1. Head(wire[e]) \in Frames
    BY <1>0
  <2> QED BY <2>1 DEF Frames
<1>s. socket'[e] = Append(socket[e], h) /\ wire'[e] = Tail(wire[e])
  BY <1>0 DEF TimeoutTypeOK
<1> HIDE DEF p, h
<1>1. TimeoutTypeOK'
  <2>1. wire' \in [Ends -> Seq(Frames)] /\ socket' \in [Ends -> Seq(Packets)]
    BY <1>0, <1>h DEF TimeoutTypeOK
  <2> QED BY <1>0, <2>1 DEF TimeoutTypeOK
<1>2. \A x \in Ends : IntervalOK(x)' /\ TimerOK(x)'
  BY <1>0 DEF SilenceExplained, IntervalOK, TimerOK
<1>3. EndOK(e)'
  <2> SUFFICES ASSUME EndAhead(e) PROVE EndAhead(e)'
    BY <1>0 DEF SilenceExplained, EndOK
  <2>1. CASE \E i \in DOMAIN socket[e] : socket[e][i] = "eof"
    <3>1. PICK i \in DOMAIN socket[e] : socket[e][i] = "eof"
      BY <2>1
    <3>2. i \in DOMAIN socket'[e] /\ socket'[e][i] = "eof"
      BY <1>0, <1>s, <1>h, <3>1
    <3> QED BY <3>2 DEF EndAhead
  <2>2. CASE \E i \in DOMAIN wire[e] : wire[e][i].kind = "eof"
    <3>1. PICK i \in 1 .. Len(wire[e]) : wire[e][i].kind = "eof"
      BY <2>2, <1>0
    <3>2. CASE i = 1
      <4>1. h = "eof"
        BY <1>0, <3>1, <3>2 DEF h
      <4>2. Len(socket[e]) + 1 \in DOMAIN socket'[e] /\ socket'[e][Len(socket[e]) + 1] = h
        BY <1>0, <1>s, <1>h
      <4> QED BY <4>1, <4>2 DEF EndAhead
    <3>3. CASE i # 1
      <4>1. /\ i - 1 \in 1 .. Len(Tail(wire[e])) /\ Tail(wire[e])[i - 1] = wire[e][i]
            /\ DOMAIN Tail(wire[e]) = 1 .. Len(Tail(wire[e]))
        BY <1>0, <3>1, <3>3
      <4>2. i - 1 \in DOMAIN wire'[e] /\ wire'[e][i - 1].kind = "eof"
        BY <1>s, <3>1, <4>1, Zenon
      <4> QED BY <4>2 DEF EndAhead
    <3> QED BY <3>2, <3>3
  <2> QED BY <2>1, <2>2 DEF EndAhead
<1>4. EndOK(p)'
  BY <1>0, <1>p DEF SilenceExplained, EndOK, EndAhead, TimeoutTypeOK
<1>5. SilenceOK(e)'
  <2>1. socket'[e] # <<>>
    BY <1>0, <1>s, <1>h
  <2> QED BY <2>1 DEF SilenceOK
<1>6. SilenceOK(p)'
  <2>1. Silence(p)' = Silence(p) /\ SilenceBound(p)' = SilenceBound(p)
    BY <1>0, <1>p DEF Silence, SilenceBound, Unpinged, TimeoutTypeOK
  <2> QED BY <1>0, <1>p, <2>1 DEF SilenceExplained, SilenceOK, TimeoutTypeOK
<1> QED BY <1>1, <1>2, <1>3, <1>4, <1>5, <1>6, <1>p DEF SilenceExplained

\* A tick of silence is a tick of a frame's way, of a ping's lateness or of the interval.
LEMMA TickKeeps ==
    ASSUME Shaped, Tick
    PROVE  Shaped'
<1> USE DEF Shaped
<1> DEFINE l(e) == IF Unpinged(e) THEN Older(late[e]) ELSE 0
<1>t. ASSUME NEW e \in Ends
      PROVE  /\ timeout[e] \in 1 .. Cap /\ timer[e] \in 0 .. Cap
             /\ interval[e] \in 1 .. Cap /\ due[e] \in 1 .. Cap
             /\ late[e] \in 0 .. Cap /\ waited[e] \in 0 .. Cap
             /\ wire[e] \in Seq(Frames)
             /\ due[e] <= interval[e]
  BY Times DEF TimeoutTypeOK, SilenceExplained, IntervalOK
<1>l. ASSUME NEW e \in Ends
      PROVE  /\ l(e) \in 0 .. Cap
             /\ Unpinged(e) => l(e) = IF late[e] < Cap THEN late[e] + 1 ELSE Cap
             /\ ~Unpinged(e) => l(e) = 0
  <2>1. Older(late[e]) = IF late[e] < Cap THEN late[e] + 1 ELSE Cap
    BY <1>t, OlderIs
  <2>2. CASE Unpinged(e)
    <3>1. l(e) = IF late[e] < Cap THEN late[e] + 1 ELSE Cap
      BY <2>1, <2>2
    <3>2. late[e] \in 0 .. Cap /\ Cap \in Nat
      BY <1>t, TimeoutAssumption
    <3>3. l(e) \in 0 .. Cap
      BY <3>1, <3>2
    <3> HIDE DEF l
    <3> QED BY <2>2, <3>1, <3>3
  <2>3. CASE ~Unpinged(e)
    BY <2>3, TimeoutAssumption
  <2> QED BY <2>2, <2>3
<1>m. ASSUME NEW e \in Ends
      PROVE  Max({waited[e], l(Peer(e))}) = IF waited[e] >= l(Peer(e)) THEN waited[e]
                                            ELSE l(Peer(e))
  <2>1. waited[e] \in Int /\ l(Peer(e)) \in Int
    BY <1>t, <1>l, PeerIs, TimeoutAssumption
  <2> QED BY <2>1, MaxIs
<1>r. ASSUME NEW e \in Ends
      PROVE  /\ timer'[e] = IF active[e] /\ timer[e] > 0 THEN timer[e] - 1 ELSE timer[e]
             /\ due'[e] = IF Elapsed(e) THEN interval[e]
                          ELSE IF Counts(e) THEN due[e] - 1 ELSE due[e]
             /\ owed'[e] = (owed[e] \/ Elapsed(e))
             /\ late'[e] = l(e)
             /\ waited'[e] = IF active[e] THEN Max({waited[e], l(Peer(e))}) ELSE waited[e]
             /\ wire'[e] = Aged(wire[e])
             /\ place[e] \notin Gone /\ wire[e] # <<>> => Head(wire[e]).age < Delay
  BY PeerIs DEF Tick
<1> HIDE DEF l
<1>0. ASSUME NEW e \in Ends
      PROVE  /\ timer'[e] \in 0 .. Cap /\ timer'[e] <= timer[e] /\ timer[e] - 1 <= timer'[e]
             /\ Elapsed(e) => due'[e] = interval[e] /\ due[e] = 1 /\ Counts(e)
             /\ ~Elapsed(e) /\ Counts(e) => due'[e] = due[e] - 1 /\ due[e] > 1
             /\ ~Counts(e) => due'[e] = due[e]
             /\ due'[e] \in 1 .. Cap /\ due'[e] <= interval[e]
             /\ owed'[e] <=> owed[e] \/ Elapsed(e)
             /\ late'[e] = l(e)
             /\ waited'[e] \in 0 .. Cap /\ waited[e] <= waited'[e]
             /\ active[e] => l(Peer(e)) <= waited'[e]
             /\ wire'[e] = Aged(wire[e])
             /\ place[e] \notin Gone /\ wire[e] # <<>> => Head(wire[e]).age < Delay
  <2>t. /\ timer[e] \in 0 .. Cap /\ interval[e] \in 1 .. Cap /\ due[e] \in 1 .. Cap
        /\ waited[e] \in 0 .. Cap /\ due[e] <= interval[e]
    BY <1>t
  <2>1. timer'[e] \in 0 .. Cap /\ timer'[e] <= timer[e] /\ timer[e] - 1 <= timer'[e]
    <3>1. CASE active[e] /\ timer[e] > 0
      <4>1. timer'[e] = timer[e] - 1
        BY <1>r, <3>1
      <4> QED BY <4>1, <3>1, <2>t, TimeoutAssumption
    <3>2. CASE ~(active[e] /\ timer[e] > 0)
      <4>1. timer'[e] = timer[e]
        BY <1>r, <3>2
      <4> QED BY <4>1, <2>t, TimeoutAssumption
    <3> QED BY <3>1, <3>2
  <2>2. Elapsed(e) => due'[e] = interval[e] /\ due[e] = 1 /\ Counts(e)
    BY <1>r DEF Elapsed
  <2>3. ~Elapsed(e) /\ Counts(e) => due'[e] = due[e] - 1 /\ due[e] > 1
    <3>1. ~Elapsed(e) /\ Counts(e) => due'[e] = due[e] - 1
      BY <1>r
    <3>2. ~Elapsed(e) /\ Counts(e) => due[e] > 1
      BY <2>t, TimeoutAssumption DEF Elapsed
    <3> QED BY <3>1, <3>2
  <2>4. ~Counts(e) => due'[e] = due[e]
    BY <1>r DEF Elapsed
  <2>5. due'[e] \in 1 .. Cap /\ due'[e] <= interval[e]
    <3>1. CASE Elapsed(e)
      BY <3>1, <2>2, <2>t, TimeoutAssumption
    <3>2. CASE ~Elapsed(e) /\ Counts(e)
      BY <3>2, <2>3, <2>t, TimeoutAssumption
    <3>3. CASE ~Counts(e)
      BY <3>3, <2>4, <2>t
    <3> QED BY <3>1, <3>2, <3>3
  <2>6. waited'[e] \in 0 .. Cap /\ waited[e] <= waited'[e]
        /\ (active[e] => l(Peer(e)) <= waited'[e])
    <3>1. l(Peer(e)) \in 0 .. Cap
      BY <1>l, PeerIs
    <3>2. CASE active[e]
      <4>1. waited'[e] = IF waited[e] >= l(Peer(e)) THEN waited[e] ELSE l(Peer(e))
        BY <1>r, <1>m, <3>2
      <4> QED BY <4>1, <3>1, <2>t, TimeoutAssumption
    <3>3. CASE ~active[e]
      <4>1. waited'[e] = waited[e]
        BY <1>r, <3>3
      <4> QED BY <4>1, <3>3, <2>t, TimeoutAssumption
    <3> QED BY <3>2, <3>3
  <2> QED BY <1>r, <2>1, <2>2, <2>3, <2>4, <2>5, <2>6
<1>u. UNCHANGED <<timeout, active, interval, place, closing, socket, changes>>
  BY DEF Tick
<1>1. TimeoutTypeOK'
  <2>1. wire' \in [Ends -> Seq(Frames)]
    <3>1. \A e \in Ends : Aged(wire[e]) \in Seq(Frames)
      BY <1>t, AgedIs
    <3> QED BY <3>1 DEF Tick
  <2>2. late' \in [Ends -> 0 .. Cap]
    <3>1. late' = [e \in Ends |-> l(e)]
      BY DEF Tick, l
    <3> QED BY <3>1, <1>l
  <2>3. waited' \in [Ends -> 0 .. Cap]
    <3>1. waited' = [e \in Ends |-> waited'[e]]
      BY DEF Tick
    <3>2. \A e \in Ends : waited'[e] \in 0 .. Cap
      BY <1>0
    <3> QED BY <3>1, <3>2
  <2>4. due' \in [Ends -> 1 .. Cap]
    <3>1. due' = [e \in Ends |-> due'[e]]
      BY DEF Tick
    <3>2. \A e \in Ends : due'[e] \in 1 .. Cap
      BY <1>0
    <3> QED BY <3>1, <3>2
  <2>5. timer' \in [Ends -> 0 .. Cap]
    <3>1. timer' = [e \in Ends |-> timer'[e]]
      BY DEF Tick
    <3>2. \A e \in Ends : timer'[e] \in 0 .. Cap
      BY <1>0
    <3> QED BY <3>1, <3>2
  <2>6. owed' \in [Ends -> BOOLEAN]
    BY DEF Tick, TimeoutTypeOK, Elapsed
  <2> QED BY <2>1, <2>2, <2>3, <2>4, <2>5, <2>6, <1>u DEF TimeoutTypeOK
<1>2. ASSUME NEW e \in Ends
      PROVE  IntervalOK(e)'
  <2>1. due'[e] <= interval'[e]
    BY <1>0, <1>u
  <2>2. place'[e] = "new" => owed'[e]
    BY <1>0, <1>u DEF SilenceExplained, IntervalOK
  <2>3. place'[e] = "pinging" /\ owed'[e] => interval'[e] - due'[e] <= late'[e]
    <3> SUFFICES ASSUME place[e] = "pinging", owed'[e]
                 PROVE  interval[e] - due'[e] <= l(e)
      BY <1>0, <1>u
    <3>1. Unpinged(e) /\ Counts(e)
      BY DEF Unpinged, Counts, Gone
    <3>t. /\ interval[e] \in 1 .. Cap /\ due[e] \in 1 .. Cap /\ late[e] \in 0 .. Cap
          /\ l(e) = IF late[e] < Cap THEN late[e] + 1 ELSE Cap
      BY <3>1, <1>t, <1>l
    <3>2. CASE Elapsed(e)
      <4>1. due'[e] = interval[e]
        BY <3>2, <1>0
      <4> QED BY <4>1, <3>t, TimeoutAssumption
    <3>3. CASE ~Elapsed(e)
      <4>1. owed[e] /\ interval[e] - due[e] <= late[e]
        BY <3>3, <1>0 DEF SilenceExplained, IntervalOK
      <4>2. due'[e] = due[e] - 1
        BY <3>1, <3>3, <1>0
      <4> QED BY <4>1, <4>2, <3>t, TimeoutAssumption
    <3> QED BY <3>2, <3>3
  <2> QED BY <2>1, <2>2, <2>3 DEF IntervalOK
<1>3. ASSUME NEW e \in Ends
      PROVE  TimerOK(e)'
  <2> SUFFICES ASSUME active[e]
               PROVE  timer'[e] <= timeout[e] /\ late'[Peer(e)] <= waited'[e]
    BY <1>u DEF TimerOK
  <2>1. timer'[e] <= timeout[e]
    <3>1. timer'[e] <= timer[e] /\ timer'[e] \in 0 .. Cap
      BY <1>0
    <3>2. timer[e] <= timeout[e]
      BY DEF SilenceExplained, TimerOK
    <3>3. timer[e] \in 0 .. Cap /\ timeout[e] \in 1 .. Cap
      BY <1>t
    <3> QED BY <3>1, <3>2, <3>3, TimeoutAssumption
  <2>2. late'[Peer(e)] <= waited'[e]
    <3>1. late'[Peer(e)] = l(Peer(e))
      BY <1>0, PeerIs
    <3> QED BY <3>1, <1>0
  <2> QED BY <2>1, <2>2
<1>4. ASSUME NEW e \in Ends
      PROVE  EndOK(e)'
  <2> SUFFICES ASSUME EndAhead(e) PROVE EndAhead(e)'
    BY <1>u DEF SilenceExplained, EndOK
  <2>1. DOMAIN Aged(wire[e]) = DOMAIN wire[e]
        /\ \A i \in DOMAIN wire[e] : Aged(wire[e])[i].kind = wire[e][i].kind
    BY <1>t, AgedIs
  <2> QED BY <2>1, <1>0, <1>u DEF EndAhead
<1>5. ASSUME NEW e \in Ends
      PROVE  SilenceOK(e)'
  <2> DEFINE p == Peer(e)
  <2>p. p \in Ends /\ Peer(p) = e
    BY PeerIs
  <2> SUFFICES ASSUME active[e], socket[e] = <<>>, place[e] \notin Gone, place[p] # "dead"
               PROVE  Silence(e)' <= SilenceBound(e)'
    BY <1>u DEF SilenceOK
  <2> HIDE DEF p
  <2>1. /\ Silence(e) = timeout[e] - timer[e] /\ Silence(e) <= SilenceBound(e)
        /\ Silence(e)' = timeout[e] - timer'[e]
        /\ late[p] <= waited[e]
    BY <1>u DEF SilenceExplained, SilenceOK, TimerOK, Silence, p
  <2>2. Silence(e) \in Int /\ Silence(e)' \in Int /\ Silence(e)' <= Silence(e) + 1
        /\ Silence(e)' <= Cap
    <3>1. timer'[e] \in 0 .. Cap /\ timer[e] - 1 <= timer'[e]
      BY <1>0
    <3>2. timer[e] \in 0 .. Cap /\ timeout[e] \in 1 .. Cap
      BY <1>t
    <3> QED BY <2>1, <3>1, <3>2, TimeoutAssumption
  <2>3. waited[e] <= waited'[e] /\ waited'[e] \in Int
    <3>1. waited'[e] \in 0 .. Cap /\ waited[e] <= waited'[e]
      BY <1>0
    <3> QED BY <3>1, TimeoutAssumption
  <2>4. CASE wire[e] # <<>>
    <3>1. /\ Aged(wire[e]) # <<>> /\ Head(Aged(wire[e])).age = Head(wire[e]).age + 1
          /\ Head(wire[e]).age \in 0 .. Delay
      BY <2>4, <1>0, <1>t, AgedIs, Times
    <3>2. SilenceBound(e)' = interval[p] + waited'[e] + (Head(wire[e]).age + 1)
      BY <3>1, <1>0, <1>u DEF SilenceBound, p
    <3>3. SilenceBound(e) = interval[p] + waited[e] + Head(wire[e]).age
      BY <2>4 DEF SilenceBound, p
    <3>4. interval[p] \in Int /\ waited[e] \in Int /\ Head(wire[e]).age \in Int
      <4>1. interval[p] \in 1 .. Cap
        BY <2>p, <1>t
      <4>2. waited[e] \in 0 .. Cap
        BY <1>t
      <4> QED BY <3>1, <4>1, <4>2
    <3> QED BY <2>1, <2>2, <2>3, <3>2, <3>3, <3>4
  <2>5. CASE wire[e] = <<>>
    <3>0. wire'[e] = <<>>
      BY <2>5, <1>0, <1>t, AgedIs
    <3>1. place[p] \notin Gone
      <4>1. SUFFICES ASSUME place[p] \in {"ended", "timed_out"} PROVE FALSE
        BY DEF Gone
      <4>2. EndAhead(e)
        BY <4>1 DEF SilenceExplained, EndOK, p
      <4> QED BY <4>2, <2>5 DEF EndAhead
    <3>2. Unpinged(p)' = (Unpinged(p) \/ Elapsed(p))
      BY <1>0, <1>u, <2>p DEF Unpinged
    <3>3. /\ interval[p] \in 1 .. Cap /\ due[p] \in 1 .. Cap /\ late[p] \in 0 .. Cap
          /\ l(p) \in 0 .. Cap /\ due[p] <= interval[p]
      BY <2>p, <1>t, <1>l
    <3>4. CASE Unpinged(p)
      <4>1. SilenceBound(e)' = interval[p] + l(p) /\ SilenceBound(e) = interval[p] + late[p]
        BY <3>0, <3>2, <3>4, <2>5, <1>0, <1>u, <2>p DEF SilenceBound, p
      <4>2. l(p) = IF late[p] < Cap THEN late[p] + 1 ELSE Cap
        BY <3>4, <2>p, <1>l
      <4> QED BY <4>1, <4>2, <3>3, <2>1, <2>2, TimeoutAssumption
    <3>5. CASE ~Unpinged(p) /\ Elapsed(p)
      <4>1. SilenceBound(e)' = interval[p] + l(p) /\ SilenceBound(e) = interval[p] - due[p]
        BY <3>0, <3>2, <3>5, <2>5, <1>0, <1>u, <2>p DEF SilenceBound, p
      <4>2. l(p) = 0 /\ due[p] = 1
        BY <3>5, <2>p, <1>l DEF Elapsed
      <4> QED BY <4>1, <4>2, <3>3, <2>1, <2>2, TimeoutAssumption
    <3>6. CASE ~Unpinged(p) /\ ~Elapsed(p)
      <4>1. Counts(p)
        BY <3>1, <3>6, <2>p DEF Counts, SilenceExplained, IntervalOK, Unpinged
      <4>2. due'[p] = due[p] - 1
        BY <4>1, <3>6, <2>p, <1>0
      <4>3. SilenceBound(e)' = interval[p] - (due[p] - 1) /\ SilenceBound(e) = interval[p] - due[p]
        BY <3>0, <3>2, <3>6, <4>2, <2>5, <1>0, <1>u, <2>p DEF SilenceBound, p
      <4> QED BY <4>3, <3>3, <2>1, <2>2, TimeoutAssumption
    <3> QED BY <3>4, <3>5, <3>6
  <2> QED BY <2>4, <2>5
<1> QED BY <1>1, <1>2, <1>3, <1>4, <1>5 DEF SilenceExplained

-----------------------------------------------------------------------------
(* The theorem *)

\* What an end that timed out had heard does not become less.
LEMMA HeardStays ==
    ASSUME Shaped, Shaped', TimeoutOnlyOfTheLate, interval' = interval,
           \A x \in Ends : place[x] = "dead" => place'[x] = "dead",
           \A x \in Ends : place'[x] = "timed_out" =>
              /\ place[x] = "timed_out" \/ Heard(x)
              /\ timeout'[x] = timeout[x] /\ waited[x] <= waited'[x]
    PROVE  TimeoutOnlyOfTheLate'
<1> SUFFICES ASSUME NEW x \in Ends, place'[x] = "timed_out"
             PROVE  Heard(x)'
  BY DEF TimeoutOnlyOfTheLate
<1>1. Heard(x) /\ timeout'[x] = timeout[x] /\ waited[x] <= waited'[x]
  BY DEF TimeoutOnlyOfTheLate
<1>2. Peer(x) \in Ends
  BY PeerIs
<1>3. CASE place[Peer(x)] = "dead"
  BY <1>2, <1>3 DEF Heard
<1>4. CASE timeout[x] <= interval[Peer(x)] + waited[x] + Delay
  <2>1. timeout[x] \in 1 .. Cap /\ interval[Peer(x)] \in 1 .. Cap /\ waited[x] \in 0 .. Cap
    BY <1>2, Times DEF Shaped
  <2>2. waited'[x] \in 0 .. Cap
    BY DEF Shaped, TimeoutTypeOK
  <2>3. timeout[x] <= interval[Peer(x)] + waited'[x] + Delay
    BY <1>1, <1>4, <2>1, <2>2, TimeoutAssumption
  <2> QED BY <1>1, <2>3 DEF Heard
<1> QED BY <1>1, <1>3, <1>4 DEF Heard

\* The silence that ends a timer that has run for all of its time.
LEMMA TimeOutIsHeard ==
    ASSUME Shaped, NEW e \in Ends, TimeOut(e)
    PROVE  Heard(e)
<1> USE DEF Shaped
<1>1. /\ active[e] /\ timer[e] = 0 /\ socket[e] = <<>> /\ place[e] \notin Gone
  BY DEF TimeOut, Pending, Reading, Selecting, Gone
<1>2. SUFFICES ASSUME place[Peer(e)] # "dead"
               PROVE  timeout[e] <= interval[Peer(e)] + waited[e] + Delay
  BY DEF Heard
<1>p. Peer(e) \in Ends
  BY PeerIs
<1>3. Silence(e) <= SilenceBound(e) /\ late[Peer(e)] <= waited[e]
  BY <1>1, <1>2 DEF SilenceExplained, SilenceOK, TimerOK
<1>4. /\ timeout[e] \in 1 .. Cap /\ waited[e] \in 0 .. Cap
      /\ interval[Peer(e)] \in 1 .. Cap /\ due[Peer(e)] \in 1 .. Cap
      /\ late[Peer(e)] \in 0 .. Cap
  BY <1>p, Times
<1>5. Silence(e) = timeout[e]
  BY <1>1, <1>4, TimeoutAssumption DEF Silence
<1>6. CASE wire[e] # <<>>
  <2>1. Head(wire[e]).age \in 0 .. Delay
    BY <1>6, Times
  <2> QED BY <1>3, <1>4, <1>5, <1>6, <2>1, TimeoutAssumption DEF SilenceBound
<1>7. CASE wire[e] = <<>>
  BY <1>3, <1>4, <1>5, <1>7, TimeoutAssumption DEF SilenceBound
<1> QED BY <1>6, <1>7

LEMMA StepKeeps == TimeoutInv /\ [Next]_vars => TimeoutInv'
<1> SUFFICES ASSUME Shaped, TimeoutOnlyOfTheLate, [Next]_vars
             PROVE  Shaped' /\ TimeoutOnlyOfTheLate'
  BY DEF TimeoutInv, Shaped
<1> DEFINE Stays == /\ interval' = interval
                    /\ \A x \in Ends : place[x] = "dead" => place'[x] = "dead"
                    /\ \A x \in Ends : place'[x] = "timed_out" =>
                          /\ place[x] = "timed_out" \/ Heard(x)
                          /\ timeout'[x] = timeout[x] /\ waited[x] <= waited'[x]
<1>0. \A x \in Ends : waited[x] \in Int /\ waited[x] <= waited[x]
  <2>1. \A x \in Ends : waited[x] \in 0 .. Cap
    BY DEF Shaped, TimeoutTypeOK
  <2> QED BY <2>1, TimeoutAssumption
<1>t. DOMAIN place = Ends
  BY DEF Shaped, TimeoutTypeOK
<1>1. SUFFICES Shaped' /\ Stays
  BY HeardStays
<1>2. ASSUME NEW e \in Ends, Start(e) \/ Received(e) \/ Send(e) \/ Close(e)
      PROVE  Shaped' /\ Stays
  <2>1. \E q \in {"select", "working", "sending"} :
           /\ place[e] \in {"new", "select", "working"} /\ place' = [place EXCEPT ![e] = q]
           /\ closing' \in [Ends -> {"no", "told", "asked"}]
           /\ UNCHANGED <<timeout, interval, clocks, stream, changes>>
    <3>1. /\ closing \in [Ends -> {"no", "told", "asked"}]
          /\ place = [place EXCEPT ![e] = place[e]]
      BY <1>t DEF Shaped, TimeoutTypeOK
    <3>2. CASE Start(e) \/ Received(e) \/ Send(e)
      BY <3>1, <3>2 DEF Start, Received, Send, Goto, Selecting
    <3>3. CASE Close(e)
      BY <3>1, <3>3 DEF Close, Selecting, Reading
    <3> QED BY <1>2, <3>2, <3>3
  <2>2. Shaped'
    BY <2>1, MoveKeeps
  <2>3. \A x \in Ends : x # e => place'[x] = place[x]
    BY <2>1, <1>t
  <2>4. place[e] # "dead" /\ place'[e] # "timed_out"
    BY <2>1, <1>t
  <2>5. UNCHANGED <<timeout, interval, waited>>
    BY <2>1 DEF clocks
  <2> QED BY <1>0, <2>2, <2>3, <2>4, <2>5
<1>3. ASSUME NEW e \in Ends, TimeOut(e) \/ ReceiveEof(e) \/ WriteFails(e) \/ Finish(e)
      PROVE  Shaped' /\ Stays
  <2>1. PICK how \in {"ended", "timed_out"},
             f \in {<<Frame("eof")>>, <<Frame("close"), Frame("eof")>>} :
           /\ place[e] \notin Gone /\ HangUp(e, how, f)
           /\ how = "timed_out" => TimeOut(e)
    BY <1>3 DEF TimeOut, ReceiveEof, WriteFails, Finish, Pending, Reading, Selecting, Writing,
                Gone
  <2>2. Shaped'
    BY <2>1, HangUpKeeps
  <2>3. how = "timed_out" => Heard(e)
    BY <2>1, TimeOutIsHeard
  <2>4. UNCHANGED <<timeout, interval, waited>> /\ place' = [place EXCEPT ![e] = how]
    BY <2>1 DEF HangUp, Return, Goto
  <2>5. place[e] # "dead" /\ \A x \in Ends : x # e => place'[x] = place[x]
    BY <2>1, <2>4, <1>t DEF Gone
  <2>6. place'[e] = how
    BY <2>4, <1>t
  <2> QED BY <1>0, <2>1, <2>2, <2>3, <2>4, <2>5, <2>6
<1>4. ASSUME NEW e \in Ends, NEW n \in 0 .. Len(wire[Peer(e)]), Die(e, n)
      PROVE  Shaped' /\ Stays
  <2>1. UNCHANGED <<timeout, interval, waited>> /\ place' = [place EXCEPT ![e] = "dead"]
    BY <1>4 DEF Die, Return, Goto
  <2>2. place'[e] = "dead" /\ \A x \in Ends : x # e => place'[x] = place[x]
    BY <2>1, <1>t
  <2>3. Shaped'
    BY <1>4, DieKeeps
  <2> QED BY <1>0, <2>1, <2>2, <2>3
<1>5. ASSUME NEW e \in Ends, ResetTimer(e) \/ Receive(e) \/ \E t \in Timeouts : SetTimeout(e, t)
      PROVE  Shaped' /\ Stays
  <2>1. Shaped'
    BY <1>5, ResetTimerKeeps, ReceiveKeeps, SetTimeoutKeeps
  <2>2. /\ interval' = interval /\ place[e] = "select"
        /\ \E q \in {"select", "working"} : place' = [place EXCEPT ![e] = q]
        /\ \A x \in Ends : x # e => timeout'[x] = timeout[x] /\ waited'[x] = waited[x]
    <3>1. /\ place = [place EXCEPT ![e] = place[e]]
          /\ \A v : \A x \in Ends : x # e => /\ [timeout EXCEPT ![e] = v][x] = timeout[x]
                                              /\ [waited EXCEPT ![e] = v][x] = waited[x]
      BY DEF Shaped, TimeoutTypeOK
    <3>2. CASE ResetTimer(e)
      BY <3>1, <3>2 DEF ResetTimer, Pending, Reading, Selecting
    <3>3. CASE Receive(e)
      BY <3>1, <3>3 DEF Receive, StopTimer, Reading, Selecting, Goto
    <3>4. CASE \E t \in Timeouts : SetTimeout(e, t)
      BY <3>1, <3>4 DEF SetTimeout, StopTimer, Reading, Selecting
    <3> QED BY <1>5, <3>2, <3>3, <3>4
  <2>3. /\ place'[e] \in {"select", "working"}
        /\ \A x \in Ends : x # e => place'[x] = place[x]
    BY <2>2, <1>t
  <2> QED BY <1>0, <2>1, <2>2, <2>3
<1>6. ASSUME NEW e \in Ends, Ping(e) \/ Written(e)
      PROVE  Shaped' /\ Stays
  <2>1. Shaped'
    BY <1>6, PingKeeps, WrittenKeeps
  <2>2. /\ UNCHANGED <<timeout, interval, waited>>
        /\ place[e] \in {"select", "sending", "pinging"}
        /\ \E q \in {"select", "pinging"} : place' = [place EXCEPT ![e] = q]
    BY <1>6 DEF Ping, Written, Reading, Selecting, Writing, Goto
  <2>3. place[e] # "dead" /\ place'[e] # "timed_out"
    BY <2>2, <1>t
  <2>4. \A x \in Ends : x # e => place'[x] = place[x]
    BY <2>2, <1>t
  <2> QED BY <1>0, <2>1, <2>2, <2>3, <2>4
<1>7. ASSUME NEW e \in Ends, Arrive(e)
      PROVE  Shaped' /\ Stays
  <2>1. UNCHANGED <<timeout, interval, waited, place>>
    BY <1>7 DEF Arrive, clocks
  <2> QED BY <1>0, <1>7, <2>1, ArriveKeeps
<1>8. ASSUME Tick
      PROVE  Shaped' /\ Stays
  <2>1. UNCHANGED <<timeout, interval, place>>
    BY <1>8 DEF Tick
  <2>2. ASSUME NEW x \in Ends
        PROVE  waited[x] <= waited'[x]
    <3>1. waited[x] \in Int /\ late'[Peer(x)] \in Int
      <4>1. late'[Peer(x)] \in 0 .. Cap
        BY <1>8, TickKeeps, PeerIs DEF Shaped, TimeoutTypeOK
      <4> QED BY <1>0, <4>1, TimeoutAssumption
    <3>2. waited'[x] = IF active[x] THEN Max({waited[x], late'[Peer(x)]}) ELSE waited[x]
      BY <1>8 DEF Tick
    <3> QED BY <3>1, <3>2, MaxIs
  <2> QED BY <1>8, <2>1, <2>2, TickKeeps
<1>9. ASSUME UNCHANGED vars
      PROVE  Shaped' /\ Stays
  <2>1. Shaped'
    BY <1>9 DEF vars, Shaped, TimeoutTypeOK, SilenceExplained, IntervalOK, TimerOK, EndOK,
                SilenceOK, EndAhead, Silence, SilenceBound, Unpinged
  <2> QED BY <1>0, <1>9, <2>1 DEF vars
<1> QED BY <1>2, <1>3, <1>4, <1>5, <1>6, <1>7, <1>8, <1>9 DEF Next, Task

(* TimeoutInv always holds: for all ends, timeouts, delays, with machines that are lost, new
   Configs and arms that take as long as they take. *)
THEOREM TimeoutInvHolds == Spec => []TimeoutInv
<1>1. Init => TimeoutInv
  BY InitKeeps
<1>2. TimeoutInv /\ [Next]_vars => TimeoutInv'
  BY StepKeeps
<1> QED BY <1>1, <1>2, PTL DEF Spec

(* A read times out only on an end that was lost, or whose ping came later than the margin of
   its interval and the network's delay allow. *)
THEOREM TimeoutsExplained == Spec => []TimeoutOnlyOfTheLate
<1>1. TimeoutInv => TimeoutOnlyOfTheLate
  BY DEF TimeoutInv
<1> QED BY <1>1, TimeoutInvHolds, PTL
================================================================================
