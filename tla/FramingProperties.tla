--------------------------- MODULE FramingProperties ---------------------------
(* What packets a task receives, wherever its calls of receive were dropped. *)
EXTENDS Framing

Failures == {"io", "eof", "hard"}

Frames == [start : Nat, nonce : Nat, len : Nat, max : Nat \cup {NoMax}, good : BOOLEAN]

FramingTypeOK ==
    /\ mac \in MacLens /\ body_limit \in Limits
    /\ sent \in Seq(Frames)
    /\ written \in 0 .. Total /\ consumed \in 0 .. written
    /\ closed \in BOOLEAN
    /\ send_nonce \in Nat /\ recv_nonce \in Nat
    /\ at \in {"idle", "header", "body"} \cup Failures
    /\ header \in 0 .. Len(sent)
    /\ buf \in Seq(Nat)
    /\ read \in 0 .. Len(buf) /\ pos \in 0 .. Len(buf)
    /\ received \in Seq([frame : Nat, ok : BOOLEAN])

\* "abort safe" (builder.rs 9, 92): packets arrive in order, each once, and only one
\* that does not parse is an error, whatever the reads were split and dropped at.
Promised == INSTANCE Packets WITH
    sent <- [f \in DOMAIN sent |-> [frame |-> f, ok |-> sent[f].good]]
ImplementsPackets == Promised!Spec

\* "the packet state is broken and the connection needs to be opened again"
\* (builder.rs 183): between two ends of this code that is only so for the frame whose
\* turn it is, for a header whose action forbids its length or a body over the limit, and
\* never by reads out of step or nonces apart.
Ahead == Len(received) + 1
HardIsOverLimit ==
    at = "hard" => /\ Ahead \in DOMAIN sent
                   /\ \/ header = NoHeader /\ OverMax(Ahead)
                      \/ header = Ahead /\ Over(sent[Ahead].len)

\* The nonces of both ends stay together over soft errors (encrypted/stream.rs
\* 157-189): the next part is decrypted with the nonce it was encrypted with.
NonceInSync ==
    (mac # 0 /\ at \notin Failures) =>
        recv_nonce = CASE header # NoHeader -> sent[header].nonce + 1
                       [] header = NoHeader /\ Ahead \in DOMAIN sent -> sent[Ahead].nonce
                       [] OTHER -> send_nonce

\* A stream that ends cuts nothing but a frame that was not written whole
\* (builder.rs 75-77, 146-148).
CutAtTheEnd ==
    at = "eof" => \A f \in DOMAIN sent : End(f) <= written => f \in DOMAIN received

-----------------------------------------------------------------------------
(* Why: nothing read is ever lost or read again *)

\* frames lie behind one another, and so do their nonces
Laid ==
    /\ sent # <<>> => sent[1].start = 0 /\ sent[1].nonce = 0
    /\ \A f, g \in DOMAIN sent :
          /\ f < g => End(f) <= sent[g].start
          /\ g = f + 1 => /\ sent[g].start = End(f)
                         /\ sent[g].nonce = sent[f].nonce + Sealings(sent[f].len)
    /\ send_nonce = IF sent = <<>> THEN 0
                    ELSE sent[Len(sent)].nonce + Sealings(sent[Len(sent)].len)

\* what was received is what was sent first, and within what its action allows
Reported ==
    /\ Len(received) <= Len(sent)
    /\ \A f \in DOMAIN received :
          received[f] = [frame |-> f, ok |-> sent[f].good] /\ ~OverMax(f)

\* the bytes read so far of the part that is being read are in place
PartStart == IF header # NoHeader THEN BodyStart(header)
             ELSE IF Ahead \in DOMAIN sent THEN sent[Ahead].start ELSE Total
PartSize == IF header # NoHeader THEN BodySize(sent[header].len) ELSE HeadSize
InPlace ==
    /\ at \notin Failures =>
          /\ consumed = PartStart + read
          /\ Len(buf) = PartSize /\ read < PartSize
          /\ \A i \in 1 .. read : buf[i] = PartStart + i
          /\ header # NoHeader => /\ header = Ahead /\ Ahead \in DOMAIN sent
                                 /\ ~OverMax(header)
    /\ at \in {"header", "body"} => pos = read /\ (at = "header" <=> header = NoHeader)
    /\ at = "eof" => closed

FramingInv ==
    /\ FramingTypeOK /\ Laid /\ Reported /\ InPlace
    /\ NonceInSync /\ HardIsOverLimit /\ CutAtTheEnd

-----------------------------------------------------------------------------
\* What is sent arrives, though receive be dropped at every await, unless the body is
\* over a limit or the stream fails or ends before all of it is written.
Cut(f) == closed /\ f \in DOMAIN sent /\ written < End(f)
AllArrive ==
    \A f \in 1 .. MaxFrames :
        f \in DOMAIN sent ~> f \in DOMAIN received \/ at \in {"io", "hard"} \/ Cut(f)
=============================================================================
