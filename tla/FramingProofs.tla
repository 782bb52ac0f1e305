----------------------------- MODULE FramingProofs -----------------------------
(***************************************************************************)
(* The framing's invariant, for all sizes, limits and numbers of frames, and *)
(* that the frames received are those sent.                                 *)
(***************************************************************************)
EXTENDS FramingProperties, TLAPS

(* The sizes that every step works with. *)
LEMMA Sizes ==
    ASSUME FramingTypeOK
    PROVE  /\ mac \in Nat /\ HeadSize \in Nat /\ HeadSize > 0
           /\ \A len \in Nat : /\ BodySize(len) \in Nat /\ Sealings(len) \in Nat
                               /\ len # 0 => BodySize(len) > 0
           /\ \A f \in DOMAIN sent :
                 /\ sent[f].start \in Nat /\ sent[f].nonce \in Nat
                 /\ sent[f].len \in Nat /\ sent[f].good \in BOOLEAN
                 /\ BodyStart(f) = sent[f].start + HeadSize
                 /\ End(f) = sent[f].start + HeadSize + BodySize(sent[f].len)
                 /\ BodyStart(f) \in Nat /\ End(f) \in Nat
           /\ Total \in Nat
           /\ DOMAIN sent = 1 .. Len(sent) /\ Len(sent) \in Nat
           /\ DOMAIN received = 1 .. Len(received) /\ Len(received) \in Nat
           /\ DOMAIN buf = 1 .. Len(buf) /\ Len(buf) \in Nat
<1>1. mac \in Nat /\ HeadSize \in Nat /\ HeadSize > 0
  BY SizesAssumption DEF FramingTypeOK, HeadSize
<1>2. \A len \in Nat : /\ BodySize(len) \in Nat /\ Sealings(len) \in Nat
                       /\ len # 0 => BodySize(len) > 0
  BY <1>1 DEF BodySize, Sealings
<1>3. /\ DOMAIN sent = 1 .. Len(sent) /\ Len(sent) \in Nat
      /\ DOMAIN received = 1 .. Len(received) /\ Len(received) \in Nat
      /\ DOMAIN buf = 1 .. Len(buf) /\ Len(buf) \in Nat
  BY DEF FramingTypeOK
<1>4. \A f \in DOMAIN sent : /\ sent[f].start \in Nat /\ sent[f].nonce \in Nat
                             /\ sent[f].len \in Nat /\ sent[f].good \in BOOLEAN
  <2> TAKE f \in DOMAIN sent
  <2>1. sent \in Seq(Frames)
    BY DEF FramingTypeOK
  <2>2. sent[f] \in Frames
    BY <2>1, <1>3
  <2> QED
    BY <2>2 DEF Frames
<1>5. \A f \in DOMAIN sent :
         /\ BodyStart(f) = sent[f].start + HeadSize
         /\ End(f) = sent[f].start + HeadSize + BodySize(sent[f].len)
         /\ BodyStart(f) \in Nat /\ End(f) \in Nat
  BY <1>1, <1>2, <1>4 DEF BodyStart, End
<1>6. Total \in Nat
  BY <1>3, <1>5 DEF Total
<1> QED
  BY <1>1, <1>2, <1>3, <1>4, <1>5, <1>6

LEMMA Counters ==
    ASSUME FramingTypeOK
    PROVE  /\ written \in Nat /\ consumed \in Nat /\ consumed <= written /\ written <= Total
           /\ read \in Nat /\ read <= Len(buf)
<1>1. Total \in Nat /\ Len(buf) \in Nat
  BY Sizes
<1>2. /\ written \in 0 .. Total /\ consumed \in 0 .. written /\ read \in 0 .. Len(buf)
  BY DEF FramingTypeOK
<1>3. written \in Nat /\ written <= Total
  BY <1>1, <1>2
<1> QED
  BY <1>1, <1>2, <1>3

(* Where the part that is read begins, and that it is not beyond what is sent. *)
LEMMA NextPart ==
    ASSUME FramingInv, header = NoHeader
    PROVE  /\ Ahead \in Nat /\ Ahead > 0 /\ Len(received) = Ahead - 1
           /\ Ahead \in DOMAIN sent => PartStart = sent[Ahead].start
           /\ Ahead \notin DOMAIN sent => PartStart = Total /\ Len(received) = Len(sent)
<1>1. FramingTypeOK /\ Reported
  BY DEF FramingInv
<1>2. /\ DOMAIN sent = 1 .. Len(sent) /\ Len(sent) \in Nat
      /\ Len(received) \in Nat /\ Len(received) <= Len(sent)
  BY <1>1, Sizes DEF Reported
<1>3. Ahead \in Nat /\ Ahead > 0 /\ Len(received) = Ahead - 1
  BY <1>2 DEF Ahead
<1>4. Ahead \in DOMAIN sent => PartStart = sent[Ahead].start
  BY DEF PartStart
<1>5. Ahead \notin DOMAIN sent => PartStart = Total /\ Len(received) = Len(sent)
  BY <1>2, <1>3 DEF PartStart
<1> QED
  BY <1>3, <1>4, <1>5

(* A frame ends where the next one begins, or where everything sent ends. *)
LEMMA FrameEnd ==
    ASSUME FramingInv, NEW f \in DOMAIN sent
    PROVE  /\ End(f) <= Total
           /\ f + 1 \in DOMAIN sent =>
                 /\ sent[f + 1].start = End(f)
                 /\ sent[f + 1].nonce = sent[f].nonce + Sealings(sent[f].len)
           /\ f + 1 \notin DOMAIN sent =>
                 /\ Total = End(f)
                 /\ send_nonce = sent[f].nonce + Sealings(sent[f].len)
<1>1. FramingTypeOK /\ Laid
  BY DEF FramingInv
<1>2. DOMAIN sent = 1 .. Len(sent) /\ Len(sent) \in Nat /\ End(f) \in Nat /\ f \in Nat
  BY <1>1, Sizes
<1>3. Len(sent) \in DOMAIN sent /\ sent # <<>> /\ f <= Len(sent)
  BY <1>2
<1>4. Total = End(Len(sent))
  BY <1>3 DEF Total
<1>5. End(Len(sent)) = sent[Len(sent)].start + HeadSize + BodySize(sent[Len(sent)].len)
  BY <1>1, <1>3, Sizes
<1>6. /\ HeadSize \in Nat /\ BodySize(sent[Len(sent)].len) \in Nat
      /\ sent[Len(sent)].start \in Nat
  BY <1>1, <1>3, Sizes
<1>7. f < Len(sent) => End(f) <= sent[Len(sent)].start
  BY <1>1, <1>3 DEF Laid
<1>8. End(f) <= Total
  BY <1>2, <1>3, <1>4, <1>5, <1>6, <1>7
<1>9. f + 1 \in DOMAIN sent =>
         /\ sent[f + 1].start = End(f)
         /\ sent[f + 1].nonce = sent[f].nonce + Sealings(sent[f].len)
  BY <1>1 DEF Laid
<1>10. f + 1 \notin DOMAIN sent => f = Len(sent)
  BY <1>2
<1>11. f = Len(sent) => send_nonce = sent[f].nonce + Sealings(sent[f].len)
  BY <1>1, <1>3 DEF Laid
<1> QED
  BY <1>4, <1>8, <1>9, <1>10, <1>11

(* The bytes of the frame ahead's header are those of no other frame's header. *)
LEMMA OneFrame ==
    ASSUME FramingInv, NEW f \in DOMAIN sent, NEW g \in DOMAIN sent,
           sent[f].start = sent[g].start
    PROVE  f = g
<1>1. FramingTypeOK /\ Laid
  BY DEF FramingInv
<1>2. /\ f \in Nat /\ g \in Nat /\ End(f) > sent[f].start /\ End(g) > sent[g].start
      /\ sent[f].start \in Nat /\ sent[g].start \in Nat /\ End(f) \in Nat /\ End(g) \in Nat
  <2>1. /\ HeadSize \in Nat /\ HeadSize > 0 /\ DOMAIN sent = 1 .. Len(sent) /\ Len(sent) \in Nat
    BY <1>1, Sizes
  <2>2. \A h \in DOMAIN sent : /\ End(h) = sent[h].start + HeadSize + BodySize(sent[h].len)
                               /\ sent[h].start \in Nat /\ BodySize(sent[h].len) \in Nat
    BY <1>1, Sizes
  <2> QED
    BY <2>1, <2>2
<1>3. (f < g => End(f) <= sent[g].start) /\ (g < f => End(g) <= sent[f].start)
  BY <1>1 DEF Laid
<1> QED
  BY <1>2, <1>3

-----------------------------------------------------------------------------
(* The buffer *)

LEMMA BlankIs ==
    ASSUME NEW n \in Nat
    PROVE  Blank(n) \in Seq(Nat) /\ Len(Blank(n)) = n
BY DEF Blank

\* A read leaves the bytes of the part up to where it got to in place.
LEMMA FilledIs ==
    ASSUME FramingInv, at \in {"header", "body"}, NEW n, Reads(n)
    PROVE  /\ n \in Nat /\ n > 0 /\ read + n <= Len(buf) /\ consumed + n <= written
           /\ pos = read /\ read \in Nat /\ PartStart \in Nat /\ consumed = PartStart + read
           /\ Filled(n) \in Seq(Nat) /\ Len(Filled(n)) = Len(buf)
           /\ \A i \in 1 .. read + n : Filled(n)[i] = PartStart + i
<1>1. /\ FramingTypeOK /\ pos = read /\ consumed = PartStart + read
      /\ \A i \in 1 .. read : buf[i] = PartStart + i
      /\ header # NoHeader => header \in DOMAIN sent
  BY DEF FramingInv, InPlace, Failures
<1>2. /\ buf \in Seq(Nat) /\ Len(buf) \in Nat /\ DOMAIN buf = 1 .. Len(buf)
      /\ read \in Nat /\ read <= Len(buf)
  BY <1>1 DEF FramingTypeOK
<1>3. consumed \in Nat /\ written \in Nat /\ consumed <= written
  BY <1>1, Sizes DEF FramingTypeOK
<1>4. PartStart \in Nat
  BY <1>1, Sizes DEF PartStart
<1>5. n \in Nat /\ n > 0 /\ read + n <= Len(buf) /\ consumed + n <= written
  BY <1>1, <1>2, <1>3 DEF Reads
<1>6. \A i \in 1 .. Len(buf) : buf[i] \in Nat
  BY <1>2
<1>7. \A i \in 1 .. Len(buf) :
         Filled(n)[i] = IF i \in read + 1 .. read + n THEN PartStart + i ELSE buf[i]
  BY <1>1, <1>2, <1>3, <1>4, <1>5 DEF Filled
<1>8. Filled(n) \in Seq(Nat) /\ Len(Filled(n)) = Len(buf)
  <2>1. Filled(n) \in [1 .. Len(buf) -> Nat]
    BY <1>1, <1>2, <1>3, <1>4, <1>5, <1>6 DEF Filled
  <2> QED
    BY <2>1, <1>2
<1>9. \A i \in 1 .. read + n : Filled(n)[i] = PartStart + i
  BY <1>1, <1>2, <1>5, <1>7
<1> QED
  BY <1>1, <1>2, <1>4, <1>5, <1>8, <1>9

-----------------------------------------------------------------------------
(* The steps *)

LEMMA FramingInitially == Init => FramingInv
<1> SUFFICES ASSUME Init PROVE FramingInv
  OBVIOUS
<1>1. mac \in Nat /\ HeadSize \in Nat /\ HeadSize > 0
  BY SizesAssumption DEF Init, HeadSize
<1>2. sent = <<>> /\ Len(sent) = 0 /\ DOMAIN sent = {} /\ received = <<>> /\ Len(received) = 0
  BY DEF Init
<1>3. Total = 0 /\ Ahead = 1 /\ PartStart = 0 /\ PartSize = HeadSize
  BY <1>2 DEF Total, Ahead, PartStart, PartSize, Init, NoHeader
<1>4. buf \in Seq(Nat) /\ Len(buf) = HeadSize
  BY <1>1, BlankIs DEF Init
<1>5. FramingTypeOK
  <2>1. <<>> \in Seq(Frames) /\ <<>> \in Seq([frame : Nat, ok : BOOLEAN])
    OBVIOUS
  <2>2. read \in 0 .. Len(buf) /\ pos \in 0 .. Len(buf)
    BY <1>1, <1>4 DEF Init
  <2>3. written \in 0 .. Total /\ consumed \in 0 .. written /\ header \in 0 .. Len(sent)
    BY <1>2, <1>3 DEF Init, NoHeader
  <2> QED
    BY <1>2, <1>4, <2>1, <2>2, <2>3 DEF Init, FramingTypeOK
<1>6. Laid /\ Reported
  BY <1>2 DEF Init, Laid, Reported
<1>7. InPlace
  BY <1>1, <1>3, <1>4 DEF Init, InPlace, NoHeader, Failures
<1>8. NonceInSync /\ HardIsOverLimit /\ CutAtTheEnd
  BY <1>2 DEF Init, NonceInSync, HardIsOverLimit, CutAtTheEnd
<1> QED
  BY <1>5, <1>6, <1>7, <1>8 DEF FramingInv

\* The limits of the actions are fixed with the frames, and so is what a hard error says.
LEMMA SameLimits ==
    ASSUME UNCHANGED sent
    PROVE  \A f : OverMax(f)' = OverMax(f)
BY DEF OverMax

LEMMA SameHard ==
    ASSUME HardIsOverLimit, UNCHANGED <<sent, received, at, header, body_limit>>
    PROVE  HardIsOverLimit'
<1>1. Ahead' = Ahead
  BY DEF Ahead
<1>2. OverMax(Ahead)' = OverMax(Ahead)
  BY <1>1 DEF OverMax
<1> QED
  BY <1>1, <1>2 DEF HardIsOverLimit, Over

\* As long as the frames stay, so do their places.
LEMMA SamePlaces ==
    ASSUME UNCHANGED <<mac, sent>>
    PROVE  /\ HeadSize' = HeadSize /\ Total' = Total
           /\ \A f : End(f)' = End(f) /\ BodyStart(f)' = BodyStart(f)
           /\ \A len : BodySize(len)' = BodySize(len) /\ Sealings(len)' = Sealings(len)
           /\ send_nonce' = send_nonce => (Laid => Laid')
           /\ received' = received => (Reported => Reported') /\ Ahead' = Ahead
<1>1. HeadSize' = HeadSize
  BY DEF HeadSize
<1>2. \A len : BodySize(len)' = BodySize(len) /\ Sealings(len)' = Sealings(len)
  BY DEF BodySize, Sealings
<1>3. \A f : End(f)' = End(f) /\ BodyStart(f)' = BodyStart(f)
  BY <1>1, <1>2 DEF End, BodyStart
<1>4. Total' = Total
  BY <1>3 DEF Total
<1>5. send_nonce' = send_nonce => (Laid => Laid')
  BY <1>2, <1>3 DEF Laid
<1>6. \A f : OverMax(f)' = OverMax(f)
  BY SameLimits
<1>7. received' = received => (Reported => Reported') /\ Ahead' = Ahead
  BY <1>6 DEF Reported, Ahead
<1> QED
  BY <1>1, <1>2, <1>3, <1>4, <1>5, <1>7

\* Steps that move no byte and end no part: what they change is where the call is.
LEMMA Still ==
    ASSUME FramingInv,
           UNCHANGED <<mac, sent, send_nonce, recv_nonce, consumed, builder, received>>,
           at' \notin Failures => at \notin Failures,
           at' \in {"idle", "header", "body"} \cup Failures,
           at' \in {"header", "body"} => pos' = read /\ (at' = "header" <=> header = NoHeader),
           at' = "eof" => closed',
           written' \in written .. Total, closed' \in BOOLEAN, pos' \in 0 .. Len(buf),
           body_limit' \in Limits,
           HardIsOverLimit', CutAtTheEnd'
    PROVE  FramingInv'
<1>1. FramingTypeOK /\ Laid /\ Reported /\ InPlace /\ NonceInSync
  BY DEF FramingInv
<1>2. UNCHANGED <<mac, sent>> /\ UNCHANGED <<header, read, buf, received, consumed>>
  BY DEF builder
<1>3. Laid' /\ Reported' /\ Total' = Total /\ Ahead' = Ahead
  BY <1>1, <1>2, SamePlaces
<1>4. FramingTypeOK'
  BY <1>1, <1>2, <1>3, Sizes DEF FramingTypeOK
<1>5. PartStart' = PartStart /\ PartSize' = PartSize
  BY <1>2, <1>3, SamePlaces DEF PartStart, PartSize
<1>6. InPlace'
  <2>1. OverMax(header)' = OverMax(header)
    BY <1>2 DEF OverMax
  <2> QED
    BY <1>1, <1>2, <1>3, <1>5, <2>1 DEF InPlace
<1>7. NonceInSync'
  BY <1>1, <1>2, <1>3 DEF NonceInSync
<1> QED
  BY <1>3, <1>4, <1>6, <1>7 DEF FramingInv

LEMMA WriteKeeps == ASSUME FramingInv, NEW n \in 1 .. WireCap, Write(n) PROVE FramingInv'
<1>1. FramingTypeOK /\ InPlace /\ HardIsOverLimit /\ CutAtTheEnd
  BY DEF FramingInv
<1>2. UNCHANGED <<mac, sent, send_nonce, recv_nonce, consumed, builder, received>>
  BY DEF Write
<1>3. UNCHANGED <<at, pos, closed, body_limit, header>> /\ ~closed
  BY DEF Write, builder
<1>4. written' \in written .. Total
  BY <1>1, SizesAssumption, Sizes DEF Write, FramingTypeOK
<1>5. HardIsOverLimit'
  BY <1>1, <1>2, <1>3, SameHard
<1>6. at' # "eof" /\ CutAtTheEnd'
  BY <1>1, <1>3 DEF InPlace, CutAtTheEnd
<1>7. /\ at' \in {"idle", "header", "body"} \cup Failures /\ pos' \in 0 .. Len(buf)
      /\ body_limit' \in Limits /\ closed' \in BOOLEAN
      /\ at' \in {"header", "body"} => pos' = read /\ (at' = "header" <=> header = NoHeader)
  BY <1>1, <1>3 DEF FramingTypeOK, InPlace
<1> QED
  BY <1>2, <1>3, <1>4, <1>5, <1>6, <1>7, Still

LEMMA HangUpKeeps == ASSUME FramingInv, HangUp PROVE FramingInv'
<1>1. FramingTypeOK /\ InPlace /\ HardIsOverLimit /\ CutAtTheEnd
  BY DEF FramingInv
<1>2. UNCHANGED <<mac, sent, send_nonce, recv_nonce, consumed, builder, received>>
  BY DEF HangUp
<1>3. UNCHANGED <<at, pos, written, body_limit, header>> /\ closed'
  BY DEF HangUp, builder
<1>4. written' \in written .. Total
  BY <1>1, <1>3, Sizes DEF FramingTypeOK
<1>5. HardIsOverLimit' /\ CutAtTheEnd'
  <2>1. HardIsOverLimit'
    BY <1>1, <1>2, <1>3, SameHard
  <2> QED
    BY <1>1, <1>2, <1>3, <2>1, SamePlaces DEF CutAtTheEnd
<1>6. /\ at' \in {"idle", "header", "body"} \cup Failures /\ pos' \in 0 .. Len(buf)
      /\ body_limit' \in Limits /\ closed' \in BOOLEAN
      /\ at' \in {"header", "body"} => pos' = read /\ (at' = "header" <=> header = NoHeader)
  BY <1>1, <1>3 DEF FramingTypeOK, InPlace, HangUp
<1> QED
  BY <1>2, <1>3, <1>4, <1>5, <1>6, Still

\* a call that starts with the header, is dropped, or fails; a new limit
LEMMA CallKeeps ==
    ASSUME FramingInv,
           \/ Receive /\ header = NoHeader
           \/ ReadEnd \/ ReadFails \/ Abort
           \/ \E limit \in Limits : SetLimit(limit)
    PROVE  FramingInv'
<1>1. FramingTypeOK /\ InPlace
  BY DEF FramingInv
<1>2. UNCHANGED <<mac, sent, send_nonce, recv_nonce, consumed, builder, received>>
  BY DEF Receive, ReadEnd, ReadFails, Abort, SetLimit, Fail, sender
<1>3. UNCHANGED <<written, closed, header>>
  BY DEF Receive, ReadEnd, ReadFails, Abort, SetLimit, sender, builder
<1>4. written' \in written .. Total /\ closed' \in BOOLEAN
  BY <1>1, <1>3, Sizes DEF FramingTypeOK
<1>5. /\ at \notin Failures
      /\ at' \in {"idle", "header", "body"} \cup Failures /\ at' # "hard"
      /\ at' \in {"header", "body"} => pos' = read /\ (at' = "header" <=> header = NoHeader)
      /\ at' = "eof" => closed' /\ consumed = written
  BY <1>1, <1>3 DEF Receive, ReadEnd, ReadFails, Abort, SetLimit, Fail, Failures,
                    InPlace, Seek
<1>6. pos' \in 0 .. Len(buf) /\ body_limit' \in Limits
  <2>1. pos' = read \/ pos' = 0 \/ pos' = pos
    BY DEF Receive, ReadEnd, ReadFails, Abort, SetLimit, Fail, Seek
  <2>2. body_limit' = body_limit \/ body_limit' \in Limits
    BY DEF Receive, ReadEnd, ReadFails, Abort, SetLimit
  <2>3. Len(buf) \in Nat /\ pos \in 0 .. Len(buf) /\ read \in 0 .. Len(buf)
        /\ body_limit \in Limits
    BY <1>1, Sizes DEF FramingTypeOK
  <2> QED
    BY <2>1, <2>2, <2>3
<1>7. HardIsOverLimit'
  BY <1>5 DEF HardIsOverLimit
<1>8. CutAtTheEnd'
  <2> SUFFICES ASSUME at' = "eof", NEW f \in DOMAIN sent, End(f) <= written
               PROVE  f \in DOMAIN received
    BY <1>2, <1>3, SamePlaces DEF CutAtTheEnd
  <2>1. /\ consumed = written /\ consumed = PartStart + read /\ read < PartSize
        /\ header # NoHeader => header = Ahead /\ Ahead \in DOMAIN sent
    BY <1>1, <1>5 DEF InPlace
  <2>2. /\ DOMAIN sent = 1 .. Len(sent) /\ Len(sent) \in Nat /\ Len(received) \in Nat
        /\ DOMAIN received = 1 .. Len(received) /\ Ahead = Len(received) + 1
        /\ Len(received) <= Len(sent)
    BY <1>1, Sizes DEF Ahead, FramingInv, Reported
  <2>3. CASE Ahead \notin DOMAIN sent
    BY <2>2, <2>3
  <2>4. CASE Ahead \in DOMAIN sent
    <3>1. /\ HeadSize \in Nat /\ BodySize(sent[Ahead].len) \in Nat
          /\ sent[Ahead].start \in Nat /\ read \in Nat
          /\ BodyStart(Ahead) = sent[Ahead].start + HeadSize
          /\ End(Ahead) = sent[Ahead].start + HeadSize + BodySize(sent[Ahead].len)
      BY <1>1, <2>4, Sizes, Counters
    <3>2. consumed < End(Ahead)
      <4>1. CASE header = NoHeader
        BY <2>1, <2>4, <3>1, <4>1 DEF PartStart, PartSize
      <4>2. CASE header # NoHeader
        BY <2>1, <2>4, <3>1, <4>2 DEF PartStart, PartSize
      <4> QED
        BY <4>1, <4>2
    <3>3. Ahead < f => End(Ahead) <= sent[f].start
      BY <2>4 DEF FramingInv, Laid
    <3>4. sent[f].start \in Nat /\ sent[f].start <= End(f) /\ End(f) \in Nat
      <4>1. /\ HeadSize \in Nat /\ BodySize(sent[f].len) \in Nat
            /\ sent[f].start \in Nat
            /\ End(f) = sent[f].start + HeadSize + BodySize(sent[f].len)
        BY <1>1, Sizes
      <4> QED
        BY <4>1
    <3>5. consumed \in Nat /\ End(Ahead) \in Nat
      BY <1>1, <2>4, Sizes, Counters
    <3>6. f # Ahead /\ ~(Ahead < f)
      BY <2>1, <3>2, <3>3, <3>4, <3>5
    <3> QED
      BY <2>2, <3>6
  <2> QED
    BY <2>3, <2>4
<1> QED
  BY <1>2, <1>3, <1>4, <1>5, <1>6, <1>7, <1>8, Still

LEMMA ReadSomeKeeps == ASSUME FramingInv, NEW n \in 1 .. WireCap, ReadSome(n) PROVE FramingInv'
<1>1. FramingTypeOK /\ Laid /\ Reported /\ InPlace /\ NonceInSync
  BY DEF FramingInv
<1>2. at \in {"header", "body"} /\ Reads(n)
  BY DEF ReadSome
<1>3. /\ n \in Nat /\ read + n <= Len(buf) /\ consumed + n <= written
      /\ pos = read /\ read \in Nat /\ PartStart \in Nat /\ consumed = PartStart + read
      /\ Filled(n) \in Seq(Nat) /\ Len(Filled(n)) = Len(buf)
      /\ \A i \in 1 .. read + n : Filled(n)[i] = PartStart + i
  BY <1>2, FilledIs
<1>4. UNCHANGED <<mac, sent, written, closed, send_nonce, recv_nonce, at, header,
                  body_limit, received>>
  BY DEF ReadSome, Reads, sender
<1>5. /\ consumed' = consumed + n /\ pos' = read + n /\ read' = read + n
      /\ buf' = Filled(n) /\ read + n < Len(buf)
  BY <1>3 DEF ReadSome, Reads
<1>6. Laid' /\ Reported' /\ Total' = Total /\ Ahead' = Ahead
  BY <1>1, <1>4, SamePlaces
<1>7. consumed \in Nat /\ written \in Nat /\ Len(buf) \in Nat
  BY <1>1, Sizes DEF FramingTypeOK
<1>8. FramingTypeOK'
  <2>1. consumed' \in 0 .. written' /\ written' \in 0 .. Total'
    BY <1>1, <1>3, <1>4, <1>5, <1>6, <1>7 DEF FramingTypeOK
  <2>2. read' \in 0 .. Len(buf') /\ pos' \in 0 .. Len(buf') /\ buf' \in Seq(Nat)
    BY <1>3, <1>5, <1>7
  <2> QED
    BY <1>1, <1>4, <2>1, <2>2 DEF FramingTypeOK
<1>9. PartStart' = PartStart /\ PartSize' = PartSize
  BY <1>4, <1>6, SamePlaces DEF PartStart, PartSize
<1>10. InPlace'
  <2>1. OverMax(header)' = OverMax(header)
    BY <1>4 DEF OverMax
  <2> QED
    BY <1>1, <1>2, <1>3, <1>4, <1>5, <1>6, <1>7, <1>9, <2>1 DEF InPlace, Failures
<1>11. NonceInSync'
  BY <1>1, <1>4, <1>6 DEF NonceInSync
<1>12. HardIsOverLimit' /\ CutAtTheEnd'
  BY <1>2, <1>4 DEF HardIsOverLimit, CutAtTheEnd
<1> QED
  BY <1>6, <1>8, <1>10, <1>11, <1>12 DEF FramingInv

\* A frame is put behind those there are.
LEMMA SendKeeps ==
    ASSUME FramingInv, NEW h \in Headers, NEW good \in BOOLEAN, Send(h, good)
    PROVE  FramingInv'
<1> DEFINE len == h.len
           new == [start |-> Total, nonce |-> send_nonce,
                   len |-> len, max |-> h.max, good |-> good]
<1>1. FramingTypeOK /\ Laid /\ Reported /\ InPlace
  BY DEF FramingInv
<1>0. PICK N \in Nat : N = Len(sent)
  BY <1>1, Sizes
<1>2. /\ sent' = Append(sent, new) /\ send_nonce' = send_nonce + Sealings(len)
      /\ written = Total /\ ~closed
      /\ UNCHANGED <<mac, written, closed, recv_nonce, consumed, at, header, read, buf,
                     pos, body_limit, received>>
  BY DEF Send, builder
<1>3. sent \in Seq(Frames) /\ new \in Frames /\ send_nonce \in Nat /\ Total \in Nat
      /\ N \in Nat /\ DOMAIN sent = 1 .. N /\ len \in Nat
  BY <1>0, <1>1, Sizes, SizesAssumption DEF FramingTypeOK, Frames
<1> HIDE DEF new, len
<1>4. /\ sent' \in Seq(Frames) /\ Len(sent') = N + 1 /\ DOMAIN sent' = 1 .. N + 1
      /\ sent'[N + 1] = new /\ \A f \in 1 .. N : sent'[f] = sent[f]
  BY <1>0, <1>2, <1>3
<1>5. /\ new.start = Total /\ new.nonce = send_nonce /\ new.len = len /\ new.good = good
  BY DEF new
<1>23. \A f \in 1 .. N : OverMax(f)' = OverMax(f)
  BY <1>4 DEF OverMax
<1>6. HeadSize' = HeadSize /\ \A l : BodySize(l)' = BodySize(l) /\ Sealings(l)' = Sealings(l)
  BY <1>2 DEF HeadSize, BodySize, Sealings
<1>7. \A f \in 1 .. N : End(f)' = End(f) /\ BodyStart(f)' = BodyStart(f)
  BY <1>4, <1>6 DEF End, BodyStart
<1>8. End(N + 1)' = Total + HeadSize + BodySize(len)
  BY <1>4, <1>5, <1>6 DEF End, BodyStart
<1>9. /\ HeadSize \in Nat /\ HeadSize > 0 /\ BodySize(len) \in Nat /\ Sealings(len) \in Nat
  BY <1>1, <1>3, Sizes
<1>10. Total' = End(N + 1)' /\ Total' > Total /\ Total' \in Nat
  <2>1. sent' # <<>>
    BY <1>0, <1>3, <1>4
  <2> QED
    BY <1>0, <1>3, <1>4, <1>8, <1>9, <2>1 DEF Total
<1>11. \A f \in 1 .. N : End(f) <= Total /\ End(f) \in Nat
  BY <1>1, <1>3, FrameEnd, Sizes
<1>12. FramingTypeOK'
  <2>1. written' \in 0 .. Total' /\ consumed' \in 0 .. written'
    BY <1>1, <1>2, <1>3, <1>10 DEF FramingTypeOK
  <2>2. header' \in 0 .. Len(sent') /\ send_nonce' \in Nat
    BY <1>0, <1>1, <1>2, <1>3, <1>4, <1>9 DEF FramingTypeOK
  <2> QED
    BY <1>1, <1>2, <1>4, <2>1, <2>2 DEF FramingTypeOK
<1>13. N = 0 => Total = 0 /\ send_nonce = 0
  BY <1>0, <1>1, <1>3 DEF Total, Laid
<1>14. N # 0 => Total = End(N) /\ send_nonce = sent[N].nonce + Sealings(sent[N].len)
  <2> SUFFICES ASSUME N # 0 PROVE Total = End(N) /\ send_nonce = sent[N].nonce + Sealings(sent[N].len)
    OBVIOUS
  <2>1. N \in DOMAIN sent /\ N + 1 \notin DOMAIN sent
    BY <1>3
  <2> QED
    BY <1>0, <2>1, FrameEnd DEF Total
<1>15. Laid'
  <2>1. sent'[1].start = 0 /\ sent'[1].nonce = 0
    <3>1. CASE N = 0
      BY <1>4, <1>5, <1>13, <3>1
    <3>2. CASE N # 0
      <4>1. sent # <<>> /\ 1 \in 1 .. N
        BY <1>3, <3>2
      <4> QED
        BY <1>1, <1>4, <4>1 DEF Laid
    <3> QED
      BY <3>1, <3>2
  <2>2. ASSUME NEW f \in 1 .. N + 1, NEW g \in 1 .. N + 1
        PROVE  /\ f < g => End(f)' <= sent'[g].start
               /\ g = f + 1 => /\ sent'[g].start = End(f)'
                              /\ sent'[g].nonce = sent'[f].nonce + Sealings(sent[f].len)'
    <3>1. CASE f \in 1 .. N /\ g \in 1 .. N
      BY <1>1, <1>3, <1>4, <1>6, <1>7, <3>1 DEF Laid
    <3>2. CASE f \in 1 .. N /\ g = N + 1
      <4>1. g = f + 1 => f = N /\ N # 0
        BY <1>3, <3>2
      <4> QED
        BY <1>4, <1>5, <1>6, <1>7, <1>11, <1>14, <3>2, <4>1
    <3>3. CASE f = N + 1
      BY <1>3, <3>3
    <3> QED
      BY <1>3, <3>1, <3>2, <3>3
  <2>3. send_nonce' = sent'[Len(sent')].nonce + Sealings(sent[Len(sent)].len)'
    BY <1>2, <1>4, <1>5, <1>6
  <2>4. sent' # <<>>
    BY <1>3, <1>4
  <2> QED
    BY <1>4, <2>1, <2>2, <2>3, <2>4 DEF Laid
<1>16. Reported' /\ Ahead' = Ahead
  <2>1. /\ Len(received) <= N /\ Len(received) \in Nat
        /\ DOMAIN received = 1 .. Len(received)
    BY <1>0, <1>1, Sizes DEF Reported
  <2> QED
    BY <1>0, <1>1, <1>2, <1>3, <1>4, <1>23, <2>1 DEF Reported, Ahead
<1>17. at \notin Failures => header = NoHeader \/ (header = Ahead /\ header \in 1 .. N)
  BY <1>1, <1>3 DEF InPlace
<1>18. at \notin Failures => /\ PartStart' = PartStart /\ PartSize' = PartSize
                             /\ (header # NoHeader => sent'[header] = sent[header])
  <2> SUFFICES ASSUME at \notin Failures
               PROVE  /\ PartStart' = PartStart /\ PartSize' = PartSize
                      /\ (header # NoHeader => sent'[header] = sent[header])
    OBVIOUS
  <2>1. CASE header # NoHeader
    BY <1>2, <1>4, <1>6, <1>7, <1>17, <2>1 DEF PartStart, PartSize
  <2>2. CASE header = NoHeader /\ Ahead \in DOMAIN sent
    BY <1>2, <1>3, <1>4, <1>6, <1>16, <2>2 DEF PartStart, PartSize
  <2>3. CASE header = NoHeader /\ Ahead \notin DOMAIN sent
    <3>1. Ahead = N + 1 /\ PartStart = Total
      BY <1>0, <1>1, <1>3, <2>3, NextPart
    <3>2. Ahead' \in DOMAIN sent' /\ sent'[Ahead'].start = Total
      BY <1>3, <1>4, <1>5, <1>16, <3>1
    <3> QED
      BY <1>2, <1>6, <2>3, <3>1, <3>2 DEF PartStart, PartSize
  <2> QED
    BY <2>1, <2>2, <2>3
<1>19. InPlace'
  <2>1. at \notin Failures /\ header # NoHeader => OverMax(header)' = OverMax(header)
    BY <1>2, <1>17, <1>23
  <2> QED
    BY <1>1, <1>2, <1>3, <1>4, <1>16, <1>18, <2>1 DEF InPlace
<1>20. NonceInSync'
  <2> SUFFICES ASSUME mac # 0, at \notin Failures
               PROVE  recv_nonce = CASE header # NoHeader -> sent'[header].nonce + 1
                                     [] header = NoHeader /\ Ahead \in DOMAIN sent' -> sent'[Ahead].nonce
                                     [] OTHER -> send_nonce'
    BY <1>2, <1>16 DEF NonceInSync
  <2>1. NonceInSync
    BY DEF FramingInv
  <2>2. CASE header # NoHeader
    BY <1>18, <2>1, <2>2 DEF NonceInSync
  <2>3. CASE header = NoHeader /\ Ahead \in DOMAIN sent
    BY <1>3, <1>4, <2>1, <2>3 DEF NonceInSync
  <2>4. CASE header = NoHeader /\ Ahead \notin DOMAIN sent
    <3>1. Ahead = N + 1
      BY <1>0, <1>3, <2>4, NextPart
    <3>2. recv_nonce = send_nonce
      BY <2>1, <2>4 DEF NonceInSync
    <3>3. N + 1 \in DOMAIN sent' /\ sent'[N + 1].nonce = send_nonce
      BY <1>3, <1>4, <1>5
    <3> QED
      BY <2>4, <3>1, <3>2, <3>3
  <2> QED
    BY <2>2, <2>3, <2>4
<1>21. HardIsOverLimit'
  <2>1. at = "hard" => /\ Ahead \in 1 .. N
                       /\ \/ header = NoHeader /\ OverMax(Ahead)
                          \/ header = Ahead /\ Over(sent[Ahead].len)
    BY <1>1, <1>3 DEF FramingInv, HardIsOverLimit
  <2>2. at = "hard" => /\ Ahead' \in DOMAIN sent' /\ sent'[Ahead] = sent[Ahead]
                       /\ OverMax(Ahead)' = OverMax(Ahead)
    BY <1>3, <1>4, <1>16, <1>23, <2>1 DEF OverMax
  <2> QED
    BY <1>2, <1>16, <2>1, <2>2 DEF HardIsOverLimit, Over
<1>22. CutAtTheEnd'
  BY <1>1, <1>2 DEF InPlace, CutAtTheEnd
<1> QED
  BY <1>12, <1>15, <1>16, <1>19, <1>20, <1>21, <1>22 DEF FramingInv

\* The frame ahead is taken whole: the next part is the header behind it.
LEMMA Taken ==
    ASSUME FramingInv, NEW f \in Nat, f = Ahead, f \in DOMAIN sent, ~OverMax(f),
           UNCHANGED <<mac, sender, body_limit>>,
           consumed' = End(f), consumed' <= written,
           recv_nonce' \in Nat,
           mac # 0 => recv_nonce' = sent[f].nonce + Sealings(sent[f].len),
           Take(f, sent[f].good)
    PROVE  FramingInv'
<1>1. FramingTypeOK /\ Laid /\ Reported
  BY DEF FramingInv
<1>2. UNCHANGED <<mac, sent, written, closed, send_nonce, body_limit>>
  BY DEF sender
<1>3. /\ header' = NoHeader /\ read' = 0 /\ buf' = Blank(HeadSize) /\ at' = "idle" /\ pos' = 0
      /\ received' = Append(received, [frame |-> f, ok |-> sent[f].good])
  BY DEF Take
<1>4. /\ Laid' /\ Total' = Total /\ HeadSize' = HeadSize
      /\ \A g : End(g)' = End(g) /\ BodyStart(g)' = BodyStart(g)
  BY <1>1, <1>2, SamePlaces
<1>5. /\ HeadSize \in Nat /\ HeadSize > 0 /\ End(f) \in Nat /\ written \in Nat
      /\ sent[f].good \in BOOLEAN /\ DOMAIN sent = 1 .. Len(sent) /\ Len(sent) \in Nat
      /\ DOMAIN received = 1 .. Len(received) /\ Len(received) \in Nat
      /\ written <= Total /\ Total \in Nat
  BY <1>1, Sizes, Counters
<1>6. Len(received) = f - 1 /\ received \in Seq([frame : Nat, ok : BOOLEAN])
  BY <1>1, <1>5 DEF Ahead, FramingTypeOK
<1>7. /\ received' \in Seq([frame : Nat, ok : BOOLEAN]) /\ Len(received') = f
      /\ DOMAIN received' = 1 .. f
      /\ received'[f] = [frame |-> f, ok |-> sent[f].good]
      /\ \A g \in 1 .. f - 1 : received'[g] = received[g]
  BY <1>3, <1>5, <1>6
<1>8. buf' \in Seq(Nat) /\ Len(buf') = HeadSize
  BY <1>3, <1>5, BlankIs
<1>9. FramingTypeOK'
  <2>1. consumed' \in 0 .. written' /\ written' \in 0 .. Total'
    <3>1. consumed' \in Nat
      BY <1>5
    <3> QED
      BY <1>2, <1>4, <1>5, <3>1
  <2>2. read' \in 0 .. Len(buf') /\ pos' \in 0 .. Len(buf') /\ header' \in 0 .. Len(sent')
    BY <1>2, <1>3, <1>5, <1>8 DEF NoHeader
  <2> QED
    BY <1>1, <1>2, <1>3, <1>7, <1>8, <2>1, <2>2 DEF FramingTypeOK
<1>10. Reported'
  <2>1. \A g : OverMax(g)' = OverMax(g)
    BY <1>2 DEF OverMax
  <2> QED
    BY <1>1, <1>2, <1>5, <1>6, <1>7, <2>1 DEF Reported
<1>11. Ahead' = f + 1
  BY <1>7 DEF Ahead
<1>12. PartStart' = End(f) /\ PartSize' = HeadSize
  BY <1>2, <1>3, <1>4, <1>11, FrameEnd DEF PartStart, PartSize
<1>13. InPlace'
  BY <1>3, <1>5, <1>8, <1>12 DEF InPlace, Failures
<1>14. NonceInSync'
  <2> SUFFICES ASSUME mac # 0
               PROVE  recv_nonce' = IF f + 1 \in DOMAIN sent THEN sent[f + 1].nonce
                                    ELSE send_nonce
    BY <1>2, <1>3, <1>11 DEF NonceInSync
  <2> QED
    BY FrameEnd
<1>15. HardIsOverLimit' /\ CutAtTheEnd'
  BY <1>3 DEF HardIsOverLimit, CutAtTheEnd
<1> QED
  BY <1>4, <1>9, <1>10, <1>13, <1>14, <1>15 DEF FramingInv

\* The body of the frame ahead is entered, with r bytes of it read before.
LEMMA Entered ==
    ASSUME FramingInv, NEW f \in Nat, f = Ahead, f \in DOMAIN sent, sent[f].len # 0,
           ~OverMax(f), UNCHANGED <<mac, sender, body_limit>>,
           NEW r \in Nat, r < BodySize(sent[f].len),
           consumed' = BodyStart(f) + r, consumed' <= written,
           NEW bytes \in Seq(Nat), r <= Len(bytes),
           r # 0 => /\ Len(bytes) = BodySize(sent[f].len)
                    /\ \A i \in 1 .. r : bytes[i] = BodyStart(f) + i,
           recv_nonce' \in Nat,
           mac # 0 => recv_nonce' = sent[f].nonce + 1,
           EnterBody(f, r, bytes)
    PROVE  FramingInv'
<1>1. FramingTypeOK /\ Laid /\ Reported
  BY DEF FramingInv
<1>2. UNCHANGED <<mac, sent, written, closed, send_nonce, body_limit>>
  BY DEF sender
<1>3. /\ header' = f /\ read' = r /\ received' = received
      /\ \/ at' = "hard" /\ pos' = 0 /\ Over(sent[f].len) /\ buf' = bytes
         \/ /\ at' = "body" /\ pos' = r
            /\ buf' = IF r = 0 THEN Blank(BodySize(sent[f].len)) ELSE bytes
  BY DEF EnterBody, Fail
<1>4. /\ Laid' /\ Reported' /\ Total' = Total /\ Ahead' = Ahead
      /\ BodyStart(f)' = BodyStart(f)
      /\ \A len : BodySize(len)' = BodySize(len)
  BY <1>1, <1>2, <1>3, SamePlaces
<1>5. /\ BodySize(sent[f].len) \in Nat /\ BodyStart(f) \in Nat /\ written \in Nat
      /\ DOMAIN sent = 1 .. Len(sent) /\ Len(sent) \in Nat /\ Len(bytes) \in Nat
      /\ written <= Total /\ Total \in Nat
  <2>1. /\ BodySize(sent[f].len) \in Nat /\ BodyStart(f) \in Nat /\ Total \in Nat
        /\ DOMAIN sent = 1 .. Len(sent) /\ Len(sent) \in Nat
    BY <1>1, Sizes
  <2>2. written \in Nat /\ written <= Total
    BY <1>1, Counters
  <2>3. Len(bytes) \in Nat
    OBVIOUS
  <2> QED
    BY <2>1, <2>2, <2>3
<1>6. f # NoHeader
  BY <1>5 DEF NoHeader
<1>7. at' = "body" => /\ buf' \in Seq(Nat) /\ Len(buf') = BodySize(sent[f].len)
                      /\ \A i \in 1 .. r : buf'[i] = BodyStart(f) + i
  <2>1. CASE r = 0
    <3>1. at' = "body" => buf' = Blank(BodySize(sent[f].len))
      BY <1>3, <2>1
    <3> QED
      BY <1>5, <2>1, <3>1, BlankIs
  <2>2. CASE r # 0
    BY <1>3, <2>2
  <2> QED
    BY <2>1, <2>2
<1>8. FramingTypeOK'
  <2>1. consumed' \in 0 .. written' /\ written' \in 0 .. Total'
    <3>1. consumed' \in Nat
      BY <1>5
    <3> QED
      BY <1>2, <1>4, <1>5, <3>1
  <2>2. /\ read' \in 0 .. Len(buf') /\ pos' \in 0 .. Len(buf') /\ buf' \in Seq(Nat)
        /\ header' \in 0 .. Len(sent') /\ at' \in {"hard", "body"}
    BY <1>2, <1>3, <1>5, <1>7
  <2> QED
    BY <1>1, <1>2, <1>3, <2>1, <2>2 DEF FramingTypeOK, Failures
<1>9. PartStart' = BodyStart(f) /\ PartSize' = BodySize(sent[f].len)
  BY <1>2, <1>3, <1>4, <1>6 DEF PartStart, PartSize
<1>10. InPlace'
  <2>1. ~OverMax(f)'
    BY <1>2 DEF OverMax
  <2> QED
    BY <1>2, <1>3, <1>4, <1>6, <1>7, <1>9, <2>1 DEF InPlace, Failures
<1>11. NonceInSync'
  BY <1>2, <1>3, <1>6 DEF NonceInSync
<1>12. HardIsOverLimit' /\ CutAtTheEnd'
  BY <1>2, <1>3, <1>4, <1>6 DEF HardIsOverLimit, CutAtTheEnd, Over
<1> QED
  BY <1>4, <1>8, <1>10, <1>11, <1>12 DEF FramingInv

LEMMA ReceiveKeeps == ASSUME FramingInv, Receive PROVE FramingInv'
<1>1. CASE header = NoHeader
  BY <1>1, CallKeeps
<1>2. CASE header # NoHeader
  <2>1. /\ FramingTypeOK /\ InPlace /\ NonceInSync /\ at \notin Failures
        /\ at = "idle"
    BY DEF FramingInv, Receive, Failures
  <2>2. EnterBody(header, read, buf) /\ UNCHANGED <<mac, sender, recv_nonce, consumed, body_limit>>
    BY <1>2 DEF Receive
  <2>3. /\ header = Ahead /\ header \in DOMAIN sent /\ header \in Nat
        /\ consumed = BodyStart(header) + read
        /\ Len(buf) = BodySize(sent[header].len) /\ read < BodySize(sent[header].len)
        /\ \A i \in 1 .. read : buf[i] = BodyStart(header) + i
    <3>1. /\ consumed = PartStart + read /\ Len(buf) = PartSize /\ read < PartSize
          /\ \A i \in 1 .. read : buf[i] = PartStart + i
          /\ header = Ahead /\ Ahead \in DOMAIN sent
      BY <1>2, <2>1 DEF InPlace
    <3>2. PartStart = BodyStart(header) /\ PartSize = BodySize(sent[header].len)
      BY <1>2 DEF PartStart, PartSize
    <3> QED
      BY <2>1, <3>1, <3>2 DEF FramingTypeOK
  <2>4. PICK f \in Nat, r \in Nat, bytes \in Seq(Nat) : f = header /\ r = read /\ bytes = buf
    BY <2>1, <2>3, Sizes DEF FramingTypeOK
  <2>5. /\ consumed \in Nat /\ written \in Nat /\ consumed <= written
        /\ recv_nonce \in Nat
        /\ mac # 0 => recv_nonce = sent[header].nonce + 1
    BY <1>2, <2>1, Sizes DEF FramingTypeOK, NonceInSync
  <2>6. sent[f].len # 0
    BY <2>3, <2>4 DEF BodySize
  <2>7. ~OverMax(f)
    BY <1>2, <2>1, <2>4 DEF InPlace
  <2> QED
    BY <2>2, <2>3, <2>4, <2>5, <2>6, <2>7, Entered
<1> QED
  BY <1>1, <1>2

LEMMA NonceStep == ASSUME FramingInv, recv_nonce' = NextNonce PROVE recv_nonce' \in Nat
BY DEF FramingInv, FramingTypeOK, NextNonce

(* What a whole header is: that of the frame ahead and of no other, which from_bytes may *)
(* refuse.                                                                              *)
LEMMA WholeHeader ==
    ASSUME FramingInv, NEW n, ReadHeader(n)
    PROVE  /\ Ahead \in DOMAIN sent
           /\ \/ ~OverMax(Ahead) /\ EnterBody(Ahead, 0, Filled(n))
              \/ /\ OverMax(Ahead) /\ Fail("hard")
                 /\ read' = read + n /\ buf' = Filled(n) /\ UNCHANGED header
           /\ consumed + n = BodyStart(Ahead) /\ consumed + n <= written
           /\ mac # 0 => recv_nonce = sent[Ahead].nonce
<1>1. /\ FramingTypeOK /\ InPlace /\ NonceInSync /\ at = "header" /\ Reads(n)
      /\ header = NoHeader /\ pos + n = Len(buf)
  BY DEF FramingInv, ReadHeader, InPlace
<1>2. /\ n \in Nat /\ n > 0 /\ consumed + n <= written /\ pos = read /\ read \in Nat
      /\ PartStart \in Nat /\ consumed = PartStart + read
      /\ Filled(n) \in Seq(Nat) /\ Len(Filled(n)) = Len(buf)
      /\ \A i \in 1 .. read + n : Filled(n)[i] = PartStart + i
  BY <1>1, FilledIs
<1>3. Len(buf) = HeadSize /\ HeadSize \in Nat /\ HeadSize > 0
  BY <1>1, Sizes DEF InPlace, PartSize, Failures
<1>4. consumed \in Nat /\ written \in Nat /\ written <= Total /\ Total \in Nat
  BY <1>1, Sizes, Counters
<1>5. Ahead \in DOMAIN sent
  <2> SUFFICES ASSUME Ahead \notin DOMAIN sent PROVE FALSE
    OBVIOUS
  <2>1. PartStart = Total
    BY <1>1, NextPart
  <2> QED
    BY <1>2, <1>4, <2>1
<1>6. PartStart = sent[Ahead].start
  BY <1>1, <1>5, NextPart
<1>7. mac # 0 => recv_nonce = sent[Ahead].nonce
  BY <1>1, <1>5 DEF NonceInSync, Failures
<1>8. DOMAIN Filled(n) = 1 .. HeadSize /\ read + n = HeadSize
  BY <1>1, <1>2, <1>3
<1>9. Intact(Filled(n), sent[Ahead].start, sent[Ahead].nonce)
  BY <1>2, <1>6, <1>7, <1>8 DEF Intact
<1>10. ASSUME NEW f \in DOMAIN sent, Intact(Filled(n), sent[f].start, sent[f].nonce)
       PROVE  f = Ahead
  <2>1. 1 \in DOMAIN Filled(n)
    BY <1>3, <1>8
  <2>2. Filled(n)[1] = sent[f].start + 1 /\ Filled(n)[1] = sent[Ahead].start + 1
    BY <1>9, <1>10, <2>1 DEF Intact
  <2>3. sent[f].start \in Nat /\ sent[Ahead].start \in Nat
    BY <1>1, <1>5, Sizes
  <2> QED
    BY <1>5, <2>2, <2>3, OneFrame
<1>11. consumed + n = BodyStart(Ahead)
  <2>1. BodyStart(Ahead) = sent[Ahead].start + HeadSize
    BY <1>1, <1>5, Sizes
  <2>2. n \in Nat /\ read \in Nat /\ PartStart \in Nat /\ consumed = PartStart + read
    BY <1>2
  <2>3. read + n = HeadSize
    BY <1>8
  <2>4. consumed + n = PartStart + HeadSize
    BY <1>3, <2>2, <2>3
  <2> QED
    BY <1>6, <2>1, <2>4
<1>12. CASE OverMax(Ahead)
  <2>1. {f \in DOMAIN sent :
            Intact(Filled(n), sent[f].start, sent[f].nonce) /\ ~OverMax(f)} = {}
    BY <1>10, <1>12
  <2> QED
    BY <1>2, <1>5, <1>7, <1>12, <1>11, <2>1 DEF ReadHeader
<1>13. CASE ~OverMax(Ahead)
  <2>1. EnterBody(Ahead, 0, Filled(n))
    BY <1>5, <1>9, <1>10, <1>13 DEF ReadHeader
  <2> QED
    BY <1>2, <1>5, <1>7, <1>11, <1>13, <2>1
<1> QED
  BY <1>12, <1>13

\* The header of the frame ahead is refused, and receive is not called again.
LEMMA Refused ==
    ASSUME FramingInv, NEW n, at = "header", Reads(n), recv_nonce' \in Nat,
           Ahead \in DOMAIN sent, OverMax(Ahead), Fail("hard"),
           read' = read + n, buf' = Filled(n), UNCHANGED header
    PROVE  FramingInv'
<1>1. FramingTypeOK /\ Laid /\ Reported /\ header = NoHeader
  BY DEF FramingInv, InPlace
<1>2. /\ n \in Nat /\ read + n <= Len(buf) /\ consumed + n <= written /\ read \in Nat
      /\ Filled(n) \in Seq(Nat) /\ Len(Filled(n)) = Len(buf)
  BY FilledIs
<1>3. /\ UNCHANGED <<mac, sent, written, closed, send_nonce, body_limit, received>>
      /\ consumed' = consumed + n /\ at' = "hard" /\ pos' = 0
  BY DEF Reads, sender, Fail
<1>4. /\ Laid' /\ Reported' /\ Total' = Total /\ Ahead' = Ahead
      /\ OverMax(Ahead)' = OverMax(Ahead)
  <2>1. Laid' /\ Reported' /\ Total' = Total /\ Ahead' = Ahead
    BY <1>1, <1>3, SamePlaces
  <2> QED
    BY <1>3, <2>1 DEF OverMax
<1>5. FramingTypeOK'
  <2>1. consumed' \in 0 .. written' /\ written' \in 0 .. Total'
    <3>1. consumed \in Nat /\ written \in Nat /\ written <= Total /\ Total \in Nat
      BY <1>1, Sizes, Counters
    <3> QED
      BY <1>2, <1>3, <1>4, <3>1
  <2>2. read' \in 0 .. Len(buf') /\ pos' \in 0 .. Len(buf') /\ buf' \in Seq(Nat)
    BY <1>2, <1>3
  <2> QED
    BY <1>1, <1>3, <2>1, <2>2 DEF FramingTypeOK, Failures
<1>6. InPlace' /\ NonceInSync' /\ CutAtTheEnd'
  BY <1>3 DEF InPlace, NonceInSync, CutAtTheEnd, Failures
<1>7. HardIsOverLimit'
  BY <1>1, <1>3, <1>4 DEF HardIsOverLimit
<1> QED
  BY <1>4, <1>5, <1>6, <1>7 DEF FramingInv

LEMMA ReadHeaderKeeps == ASSUME FramingInv, NEW n, ReadHeader(n) PROVE FramingInv'
<1>1. FramingTypeOK /\ Reads(n) /\ at = "header" /\ pos + n = Len(buf) /\ recv_nonce' = NextNonce
  BY DEF FramingInv, ReadHeader
<1>2. /\ Ahead \in DOMAIN sent
      /\ \/ ~OverMax(Ahead) /\ EnterBody(Ahead, 0, Filled(n))
         \/ /\ OverMax(Ahead) /\ Fail("hard")
            /\ read' = read + n /\ buf' = Filled(n) /\ UNCHANGED header
      /\ consumed + n = BodyStart(Ahead) /\ consumed + n <= written
      /\ mac # 0 => recv_nonce = sent[Ahead].nonce
  BY WholeHeader
<1>3. UNCHANGED <<mac, sender, body_limit>> /\ consumed' = consumed + n
  BY <1>1 DEF Reads
<1>4. recv_nonce' \in Nat
  BY <1>1, NonceStep
<1>5. DOMAIN sent = 1 .. Len(sent) /\ Len(sent) \in Nat
  BY <1>1, Sizes
<1>6. PICK f \in Nat : f = Ahead
  BY <1>2, <1>5
<1>7. Filled(n) \in Seq(Nat)
  BY <1>1, FilledIs
<1>8. PICK bytes \in Seq(Nat) : bytes = Filled(n)
  BY <1>7
<1>9. /\ sent[f].nonce \in Nat /\ sent[f].len \in Nat /\ BodySize(sent[f].len) \in Nat
      /\ sent[f].len # 0 => BodySize(sent[f].len) > 0
      /\ BodyStart(f) = sent[f].start + HeadSize /\ BodyStart(f) \in Nat
      /\ End(f) = sent[f].start + HeadSize + BodySize(sent[f].len)
  BY <1>1, <1>2, <1>6, Sizes
<1>10. mac # 0 => recv_nonce' = sent[f].nonce + 1
  BY <1>1, <1>2, <1>6 DEF NextNonce
<1>11. CASE ~OverMax(f) /\ sent[f].len = 0
  <2>1. Take(f, sent[f].good)
    BY <1>2, <1>6, <1>11 DEF EnterBody
  <2>2. Sealings(sent[f].len) = IF mac = 0 THEN 0 ELSE 1
    BY <1>11 DEF Sealings
  <2>3. BodySize(sent[f].len) = 0
    BY <1>11 DEF BodySize
  <2>4. End(f) = BodyStart(f)
    BY <1>9, <2>3 DEF End
  <2> QED
    BY <1>2, <1>3, <1>4, <1>6, <1>10, <2>1, <1>11, <2>2, <2>4, Taken
<1>12. CASE ~OverMax(f) /\ sent[f].len # 0
  <2>1. EnterBody(f, 0, bytes) /\ 0 <= Len(bytes)
    BY <1>2, <1>6, <1>8, <1>12
  <2>2. consumed' = BodyStart(f) + 0
    BY <1>2, <1>3, <1>6, <1>9
  <2> QED
    BY <1>2, <1>3, <1>4, <1>6, <1>9, <1>10, <1>12, <2>1, <2>2, Entered
<1>13. CASE OverMax(f)
  BY <1>1, <1>2, <1>3, <1>4, <1>6, <1>13, Refused
<1> QED
  BY <1>11, <1>12, <1>13

(* What a whole body is: that of the frame whose header was read. *)
LEMMA WholeBody ==
    ASSUME FramingInv, NEW n, ReadBody(n)
    PROVE  /\ header = Ahead /\ Ahead \in DOMAIN sent /\ Take(header, sent[header].good)
           /\ consumed + n = End(Ahead) /\ consumed + n <= written
           /\ sent[Ahead].len # 0 /\ ~OverMax(Ahead)
           /\ mac # 0 => recv_nonce = sent[Ahead].nonce + 1
<1>1. /\ FramingTypeOK /\ InPlace /\ NonceInSync /\ at = "body" /\ Reads(n)
      /\ header # NoHeader /\ header = Ahead /\ Ahead \in DOMAIN sent /\ pos + n = Len(buf)
      /\ ~OverMax(Ahead)
  BY DEF FramingInv, ReadBody, InPlace, Failures
<1>2. /\ n \in Nat /\ n > 0 /\ consumed + n <= written /\ pos = read /\ read \in Nat
      /\ PartStart \in Nat /\ consumed = PartStart + read
      /\ Filled(n) \in Seq(Nat) /\ Len(Filled(n)) = Len(buf)
      /\ \A i \in 1 .. read + n : Filled(n)[i] = PartStart + i
  BY <1>1, FilledIs
<1>3. /\ Len(buf) = BodySize(sent[header].len) /\ read < Len(buf)
      /\ PartStart = BodyStart(header)
  BY <1>1 DEF InPlace, PartSize, PartStart, Failures
<1>4. /\ BodySize(sent[header].len) \in Nat /\ BodyStart(header) \in Nat
      /\ BodyStart(header) = sent[header].start + HeadSize
      /\ End(header) = sent[header].start + HeadSize + BodySize(sent[header].len)
      /\ sent[header].good \in BOOLEAN
      /\ HeadSize \in Nat /\ sent[header].start \in Nat
  BY <1>1, Sizes
<1>5. mac # 0 => recv_nonce = sent[header].nonce + 1
  BY <1>1 DEF NonceInSync, Failures
<1>6. DOMAIN Filled(n) = 1 .. Len(buf) /\ read + n = Len(buf)
  BY <1>1, <1>2, <1>3, <1>4
<1>7. Intact(Filled(n), BodyStart(header), sent[header].nonce + 1)
  BY <1>2, <1>3, <1>5, <1>6 DEF Intact
<1>8. Take(header, sent[header].good)
  <2>1. (sent[header].good /\ Intact(Filled(n), BodyStart(header), sent[header].nonce + 1))
            = sent[header].good
    BY <1>4, <1>7
  <2> QED
    BY <2>1 DEF ReadBody
<1>9. consumed + n = End(header)
  <2>1. consumed + n = PartStart + Len(buf)
    <3>1. n \in Nat /\ read \in Nat /\ PartStart \in Nat /\ consumed = PartStart + read
      BY <1>2
    <3> QED
      BY <1>6, <3>1
  <2> QED
    BY <1>3, <1>4, <2>1
<1>10. sent[header].len # 0
  BY <1>2, <1>3, <1>4 DEF BodySize
<1> QED
  BY <1>1, <1>2, <1>5, <1>8, <1>9, <1>10

LEMMA ReadBodyKeeps == ASSUME FramingInv, NEW n, ReadBody(n) PROVE FramingInv'
<1>1. FramingTypeOK /\ Reads(n) /\ recv_nonce' = NextNonce
  BY DEF FramingInv, ReadBody
<1>2. /\ header = Ahead /\ Ahead \in DOMAIN sent /\ Take(header, sent[header].good)
      /\ consumed + n = End(Ahead) /\ consumed + n <= written
      /\ sent[Ahead].len # 0 /\ ~OverMax(Ahead)
      /\ mac # 0 => recv_nonce = sent[Ahead].nonce + 1
  BY WholeBody
<1>3. UNCHANGED <<mac, sender, body_limit>> /\ consumed' = consumed + n
  BY <1>1 DEF Reads
<1>4. recv_nonce' \in Nat
  BY <1>1, NonceStep
<1>5. DOMAIN sent = 1 .. Len(sent) /\ Len(sent) \in Nat
  BY <1>1, Sizes
<1>6. PICK f \in Nat : f = Ahead
  BY <1>2, <1>5
<1>7. mac # 0 => recv_nonce' = sent[f].nonce + Sealings(sent[f].len)
  <2>1. mac # 0 => Sealings(sent[f].len) = 2
    BY <1>2, <1>6 DEF Sealings
  <2>2. sent[f].nonce \in Nat
    BY <1>1, <1>2, <1>6, Sizes
  <2> QED
    BY <1>1, <1>2, <1>6, <2>1, <2>2 DEF NextNonce
<1> QED
  BY <1>2, <1>3, <1>4, <1>6, <1>7, Taken

-----------------------------------------------------------------------------
(* The theorems *)

LEMMA StutterKeeps == ASSUME FramingInv, UNCHANGED vars PROVE FramingInv'
<1>1. FramingTypeOK /\ Laid /\ Reported /\ InPlace /\ HardIsOverLimit /\ CutAtTheEnd
  BY DEF FramingInv
<1>2. /\ UNCHANGED <<mac, sent, send_nonce, recv_nonce, consumed, builder, received>>
      /\ UNCHANGED <<written, closed, at, pos, body_limit, header>>
  BY DEF vars, sender, builder
<1>3. written' \in written .. Total
  BY <1>1, <1>2, Sizes DEF FramingTypeOK
<1>4. HardIsOverLimit' /\ CutAtTheEnd'
  <2>1. HardIsOverLimit'
    BY <1>1, <1>2, SameHard
  <2> QED
    BY <1>1, <1>2, <2>1, SamePlaces DEF CutAtTheEnd
<1>5. /\ at' \in {"idle", "header", "body"} \cup Failures /\ pos' \in 0 .. Len(buf)
      /\ body_limit' \in Limits /\ closed' \in BOOLEAN
      /\ at' \in {"header", "body"} => pos' = read /\ (at' = "header" <=> header = NoHeader)
      /\ at' = "eof" => closed'
  BY <1>1, <1>2 DEF FramingTypeOK, InPlace
<1> QED
  BY <1>2, <1>3, <1>4, <1>5, Still

LEMMA FramingStep == FramingInv /\ [Next]_vars => FramingInv'
<1> SUFFICES ASSUME FramingInv, [Next]_vars PROVE FramingInv'
  OBVIOUS
<1>1. ASSUME NEW h \in Headers, NEW good \in BOOLEAN, Send(h, good) PROVE FramingInv'
  BY <1>1, SendKeeps
<1>2. CASE WriteSome
  BY <1>2, WriteKeeps DEF WriteSome
<1>3. CASE HangUp
  BY <1>3, HangUpKeeps
<1>4. CASE Receive
  BY <1>4, ReceiveKeeps
<1>5. CASE Read
  <2> SUFFICES ASSUME NEW n \in 1 .. WireCap, ReadSome(n) \/ ReadHeader(n) \/ ReadBody(n)
               PROVE  FramingInv'
    BY <1>5 DEF Read
  <2> QED
    BY ReadSomeKeeps, ReadHeaderKeeps, ReadBodyKeeps
<1>6. CASE ReadEnd \/ ReadFails \/ Abort \/ \E limit \in Limits : SetLimit(limit)
  BY <1>6, CallKeeps
<1>7. CASE UNCHANGED vars
  BY <1>7, StutterKeeps
<1> QED
  BY <1>1, <1>2, <1>3, <1>4, <1>5, <1>6, <1>7 DEF Next

\* Frames, buffer and nonces agree after every await of receive, whatever it is dropped at
\* (builder.rs 46-178): the invariant the properties below and the refinement rest on.
THEOREM FramingInvHolds == Spec => []FramingInv
BY FramingInitially, FramingStep, PTL DEF Spec

\* The nonces of both ends stay together, whatever reads are dropped at and whichever
\* bodies do not parse (encrypted/stream.rs 157-189).
THEOREM Synchronized == Spec => []NonceInSync
<1>1. FramingInv => NonceInSync
  BY DEF FramingInv
<1> QED
  BY <1>1, FramingInvHolds, PTL

\* A hard error is a body over its action's limit or over the stream's, of the frame whose turn
\* it is, and nothing else (builder.rs 84-85, 119-121, 183-185, message.rs 197-201).
THEOREM HardOnlyOverLimit == Spec => []HardIsOverLimit
<1>1. FramingInv => HardIsOverLimit
  BY DEF FramingInv
<1> QED
  BY <1>1, FramingInvHolds, PTL

\* An early eof leaves no frame behind that was written whole (builder.rs 75-77).
THEOREM NothingCut == Spec => []CutAtTheEnd
<1>1. FramingInv => CutAtTheEnd
  BY DEF FramingInv
<1> QED
  BY <1>1, FramingInvHolds, PTL

\* What Promised!sent is.
PromisedSent == [f \in DOMAIN sent |-> [frame |-> f, ok |-> sent[f].good]]

\* The frame taken is the one ahead.
LEMMA TakeDelivers ==
    ASSUME FramingInv, Ahead \in DOMAIN sent, Take(Ahead, sent[Ahead].good), UNCHANGED sent
    PROVE  Promised!Deliver
<1>1. /\ DOMAIN sent = 1 .. Len(sent) /\ Len(sent) \in Nat
      /\ Len(received) \in Nat /\ Ahead = Len(received) + 1
  BY Sizes DEF FramingInv, Ahead
<1>2. Len(PromisedSent) = Len(sent) /\ PromisedSent' = PromisedSent
  BY <1>1 DEF PromisedSent
<1>3. PromisedSent[Ahead] = [frame |-> Ahead, ok |-> sent[Ahead].good]
  BY DEF PromisedSent
<1>4. received' = Append(received, PromisedSent[Len(received) + 1])
  BY <1>1, <1>3 DEF Take
<1>5. Len(received) < Len(PromisedSent)
  BY <1>1, <1>2
<1> QED
  BY <1>2, <1>4, <1>5 DEF Promised!Deliver, PromisedSent

LEMMA SendSends ==
    ASSUME FramingInv, NEW h \in Headers, NEW good \in BOOLEAN, Send(h, good)
    PROVE  Promised!Next
<1>1. FramingTypeOK
  BY DEF FramingInv
<1>2. PICK N \in Nat : N = Len(sent) /\ DOMAIN sent = 1 .. N
  BY <1>1, Sizes
<1> DEFINE new == [start |-> Total, nonce |-> send_nonce,
                   len |-> h.len, max |-> h.max, good |-> good]
<1>3. sent \in Seq(Frames) /\ new \in Frames
  BY <1>1, Sizes, SizesAssumption DEF FramingTypeOK, Frames
<1>4. sent' = Append(sent, new) /\ new.good = good /\ received' = received
  BY DEF Send
<1> HIDE DEF new
<1>5. /\ DOMAIN sent' = 1 .. N + 1 /\ sent'[N + 1] = new
      /\ \A f \in 1 .. N : sent'[f] = sent[f]
  BY <1>2, <1>3, <1>4
<1> DEFINE p == [frame |-> N + 1, ok |-> good]
           Numbered == [frame : Nat, ok : BOOLEAN]
<1>6. PromisedSent \in Seq(Numbered) /\ Len(PromisedSent) = N
  <2>1. \A f \in 1 .. N : sent[f].good \in BOOLEAN
    BY <1>1, <1>2, Sizes
  <2>2. PromisedSent \in [1 .. N -> Numbered]
    BY <1>2, <2>1 DEF PromisedSent
  <2> HIDE DEF Numbered
  <2> QED
    BY <1>2, <2>2
<1>7. PromisedSent' = [f \in 1 .. N + 1 |-> [frame |-> f, ok |-> sent'[f].good]]
  BY <1>5 DEF PromisedSent
<1>8. PromisedSent' = Append(PromisedSent, p)
  <2> DEFINE s == Append(PromisedSent, p)
  <2>1. p \in Numbered
    BY <1>2
  <2>2. /\ s \in Seq(Numbered) /\ Len(s) = N + 1 /\ s[N + 1] = p
        /\ \A f \in 1 .. N : s[f] = PromisedSent[f]
    BY <1>2, <1>6, <2>1
  <2>3. s = [f \in 1 .. N + 1 |-> s[f]]
    BY <2>2
  <2>4. ASSUME NEW f \in 1 .. N + 1
        PROVE  s[f] = [frame |-> f, ok |-> sent'[f].good]
    <3>1. CASE f = N + 1
      BY <1>4, <1>5, <2>2, <3>1
    <3>2. CASE f \in 1 .. N
      <4>1. s[f] = PromisedSent[f] /\ f \in DOMAIN sent
        BY <1>2, <2>2, <3>2
      <4>2. PromisedSent[f] = [frame |-> f, ok |-> sent[f].good]
        BY <4>1 DEF PromisedSent
      <4>3. sent'[f] = sent[f]
        BY <1>5, <3>2
      <4> HIDE DEF s
      <4> QED
        BY <4>1, <4>2, <4>3
    <3> HIDE DEF s
    <3> QED
      BY <1>2, <3>1, <3>2
  <2> QED
    BY <1>7, <2>3, <2>4
<1>9. /\ PromisedSent' = Append(PromisedSent, [frame |-> Len(PromisedSent) + 1, ok |-> good])
      /\ UNCHANGED received
  BY <1>4, <1>6, <1>8
<1>10. \E ok \in BOOLEAN :
          /\ PromisedSent' = Append(PromisedSent, [frame |-> Len(PromisedSent) + 1, ok |-> ok])
          /\ UNCHANGED received
  BY <1>9
<1> QED
  BY <1>10 DEF Promised!Next, Promised!Send, PromisedSent

LEMMA PacketsStep ==
    FramingInv /\ [Next]_vars => [Promised!Next]_<<PromisedSent, received>>
<1> SUFFICES ASSUME FramingInv, [Next]_vars
             PROVE  Promised!Next \/ UNCHANGED <<PromisedSent, received>>
  OBVIOUS
<1>1. ASSUME NEW h \in Headers, NEW good \in BOOLEAN, Send(h, good) PROVE Promised!Next
  BY <1>1, SendSends
<1>2. CASE Receive
  <2>1. UNCHANGED sent
    BY <1>2 DEF Receive, sender
  <2>2. CASE header = NoHeader
    BY <1>2, <2>1, <2>2 DEF Receive, PromisedSent
  <2>3. CASE header # NoHeader
    <3>1. header = Ahead /\ Ahead \in DOMAIN sent
      BY <1>2, <2>3 DEF FramingInv, InPlace, Receive, Failures
    <3>2. CASE sent[header].len = 0
      <4>1. Take(Ahead, sent[Ahead].good)
        BY <1>2, <2>3, <3>1, <3>2 DEF Receive, EnterBody
      <4> QED
        BY <2>1, <3>1, <4>1, TakeDelivers DEF Promised!Next
    <3>3. CASE sent[header].len # 0
      BY <1>2, <2>1, <2>3, <3>3 DEF Receive, EnterBody, Fail, PromisedSent
    <3> QED
      BY <3>2, <3>3
  <2> QED
    BY <2>2, <2>3
<1>3. ASSUME NEW n, ReadHeader(n) PROVE Promised!Next \/ UNCHANGED <<PromisedSent, received>>
  <2>1. /\ Ahead \in DOMAIN sent
        /\ EnterBody(Ahead, 0, Filled(n)) \/ Fail("hard")
    BY <1>3, WholeHeader
  <2>2. UNCHANGED sent
    BY <1>3 DEF ReadHeader, Reads, sender
  <2>3. CASE EnterBody(Ahead, 0, Filled(n)) /\ sent[Ahead].len = 0
    <3>1. Take(Ahead, sent[Ahead].good)
      BY <2>3 DEF EnterBody
    <3> QED
      BY <2>1, <2>2, <3>1, TakeDelivers DEF Promised!Next
  <2>4. CASE EnterBody(Ahead, 0, Filled(n)) /\ sent[Ahead].len # 0
    BY <2>2, <2>4 DEF EnterBody, Fail, PromisedSent
  <2>5. CASE Fail("hard")
    BY <2>2, <2>5 DEF Fail, PromisedSent
  <2> QED
    BY <2>1, <2>3, <2>4, <2>5
<1>4. ASSUME NEW n, ReadBody(n) PROVE Promised!Next
  <2>1. Ahead \in DOMAIN sent /\ Take(Ahead, sent[Ahead].good)
    BY <1>4, WholeBody
  <2>2. UNCHANGED sent
    BY <1>4 DEF ReadBody, Reads, sender
  <2> QED
    BY <2>1, <2>2, TakeDelivers DEF Promised!Next
<1>5. CASE Read
  <2> SUFFICES ASSUME NEW n \in 1 .. WireCap, ReadSome(n)
               PROVE  UNCHANGED <<PromisedSent, received>>
    BY <1>3, <1>4, <1>5 DEF Read
  <2> QED
    BY DEF ReadSome, Reads, sender, PromisedSent
<1>6. CASE \/ WriteSome \/ HangUp \/ ReadEnd \/ ReadFails \/ Abort \/ UNCHANGED vars
           \/ \E limit \in Limits : SetLimit(limit)
  BY <1>6 DEF WriteSome, Write, HangUp, ReadEnd, ReadFails, Abort, SetLimit, Fail,
              sender, vars, PromisedSent
<1> QED
  BY <1>1, <1>2, <1>5, <1>6 DEF Next

\* "make frame stream abort safe" (builder.rs 9): what receive returns is what was sent,
\* in order, each once, wherever its calls were dropped.
THEOREM AbortSafe == Spec => ImplementsPackets
<1>1. Init => Promised!Init
  <2> SUFFICES ASSUME Init PROVE PromisedSent = <<>> /\ received = <<>>
    BY DEF Promised!Init, PromisedSent
  <2>1. DOMAIN sent = {} /\ received = <<>>
    BY DEF Init
  <2>2. PromisedSent = <<>>
    BY <2>1 DEF PromisedSent
  <2> QED
    BY <2>1, <2>2
<1>2. FramingInv /\ [Next]_vars => [Promised!Next]_<<PromisedSent, received>>
  BY PacketsStep
<1> QED
  BY <1>1, <1>2, FramingInvHolds, PTL DEF Spec, ImplementsPackets, Promised!Spec, PromisedSent
=============================================================================
