-------------------------------- MODULE Framing --------------------------------
(***************************************************************************)
(* One direction of a packet stream: send of the plain and of the encrypted *)
(* stream on one side, and receive, that is PacketReceiver of               *)
(* packet/builder.rs, on the other.  receive is dropped at its awaits and   *)
(* called again; the byte stream splits and joins frames as it likes.       *)
(*                                                                          *)
(* A byte is its position in everything sent, so that the byte stream, which *)
(* keeps the order, is the interval consumed + 1 .. written.                *)
(***************************************************************************)
EXTENDS Naturals, Sequences

CONSTANTS HeaderLen,    \* Header::LEN
          Headers,      \* of packets: their body_len, and the largest their action allows
          NoMax,        \* an action with a max_body_size of None
          Limits,       \* body limits; 0 does not limit
          MacLens,      \* Mac::LEN, and 0 for a plain stream
          WireCap,      \* bytes the byte stream holds
          MaxFrames     \* bound: frames sent

ASSUME SizesAssumption == /\ HeaderLen \in Nat \ {0} /\ WireCap \in Nat \ {0}
                          /\ Headers \subseteq [len : Nat, max : Nat \cup {NoMax}]
                          /\ NoMax \notin Nat /\ Limits \subseteq Nat
                          /\ MacLens \subseteq Nat /\ MaxFrames \in Nat

VARIABLES
    mac,            \* the Mac::LEN of this connection
    sent,           \* frames: where they start, their first nonce, len, max, good
    written,        \* bytes written of them
    closed,         \* the sender shut the stream down, or it failed
    send_nonce, recv_nonce,
    consumed,       \* bytes read
    at,             \* receive: idle, awaits in header or body, or failed
    header,         \* the frame whose header is read, or NoHeader
    read,
    buf,            \* full_header_mut, or full_body_mut once there is a header
    pos,            \* where the running call writes next in it
    body_limit,
    received        \* history: what receive returned, Ok and Soft

sender == <<sent, written, closed, send_nonce>>
builder == <<header, read, buf>>
vars == <<mac, sender, recv_nonce, consumed, at, builder, pos, body_limit, received>>

NoHeader == 0
Blank(n) == [i \in 1 .. n |-> 0]

HeadSize == HeaderLen + mac
BodySize(len) == IF len = 0 THEN 0 ELSE len + mac
BodyStart(f) == sent[f].start + HeadSize
End(f) == BodyStart(f) + BodySize(sent[f].len)
Total == IF sent = <<>> THEN 0 ELSE End(Len(sent))

Init ==
    /\ mac \in MacLens
    /\ sent = <<>> /\ written = 0 /\ closed = FALSE
    /\ send_nonce = 0 /\ recv_nonce = 0
    /\ consumed = 0 /\ at = "idle"
    /\ header = NoHeader /\ read = 0 /\ buf = Blank(HeadSize) /\ pos = 0
    /\ body_limit \in Limits
    /\ received = <<>>

-----------------------------------------------------------------------------
(* send *)

\* encrypt: one nonce for the header, one for a body
OneSealing(len) == IF mac = 0 THEN 0 ELSE 1     \* mutant: not for the body
Sealings(len) == IF mac = 0 THEN 0 ELSE IF len = 0 THEN 1 ELSE 2
Send(h, good) ==
    /\ ~closed /\ written = Total /\ Len(sent) < MaxFrames
    /\ sent' = Append(sent, [start |-> Total, nonce |-> send_nonce,
                             len |-> h.len, max |-> h.max, good |-> good])
    /\ send_nonce' = send_nonce + Sealings(h.len)
    /\ UNCHANGED <<mac, written, closed, recv_nonce, consumed, at, builder, pos,
                   body_limit, received>>

\* write_all: as many bytes as the stream takes
Write(n) ==
    /\ ~closed /\ written + n <= Total /\ written + n - consumed <= WireCap
    /\ written' = written + n
    /\ UNCHANGED <<mac, sent, closed, send_nonce, recv_nonce, consumed, at, builder,
                   pos, body_limit, received>>

\* shutdown, or a failure in the middle of write_all
HangUp ==
    /\ ~closed /\ closed' = TRUE
    /\ UNCHANGED <<mac, sent, written, send_nonce, recv_nonce, consumed, at, builder,
                   pos, body_limit, received>>

-----------------------------------------------------------------------------
(* receive *)

\* the next read writes behind what is there: seek
FromStart == 0                                  \* mutant: no seek
Seek == read

\* the builder is ready for the next header, and receive returns
Take(f, ok) ==
    /\ header' = NoHeader /\ read' = 0 /\ buf' = Blank(HeadSize)
    /\ at' = "idle" /\ pos' = 0
    /\ received' = Append(received, [frame |-> f, ok |-> ok])

Fail(kind) ==
    /\ at' = kind /\ pos' = 0
    /\ UNCHANGED received

Over(len) == body_limit # 0 /\ len > body_limit

\* read_body up to its await, with r bytes of the body read before
EnterBody(f, r, bytes) ==
    LET len == sent[f].len IN
    \/ len = 0 /\ Take(f, sent[f].good)
    \/ /\ len # 0 /\ r = 0 /\ Over(len)
       /\ Fail("hard")
       /\ header' = f /\ read' = r /\ buf' = bytes
    \/ /\ len # 0 /\ ~(r = 0 /\ Over(len))
       /\ at' = "body" /\ header' = f /\ read' = r /\ pos' = r
       /\ buf' = IF r = 0 THEN Blank(BodySize(len)) ELSE bytes
       /\ UNCHANGED received

Receive ==
    /\ at = "idle"
    /\ IF header = NoHeader
         THEN at' = "header" /\ pos' = Seek /\ UNCHANGED <<builder, received>>
         ELSE EnterBody(header, read, buf)
    /\ UNCHANGED <<mac, sender, recv_nonce, consumed, body_limit>>

\* one read: n bytes to where the call is in the buffer
Filled(n) == [i \in DOMAIN buf |->
                 IF i \in pos + 1 .. pos + n THEN consumed + i - pos ELSE buf[i]]
Reads(n) ==
    /\ n \in 1 .. Len(buf) - pos /\ consumed + n <= written
    /\ consumed' = consumed + n
    /\ UNCHANGED <<mac, sender, body_limit>>

ReadSome(n) ==
    /\ at \in {"header", "body"} /\ Reads(n) /\ pos + n < Len(buf)
    /\ pos' = pos + n /\ read' = read + n /\ buf' = Filled(n)
    /\ UNCHANGED <<at, header, recv_nonce, received>>

\* bytes that are those of a part of a frame, under the nonce it was sealed with
Intact(bytes, start, nonce) ==
    /\ \A i \in DOMAIN bytes : bytes[i] = start + i
    /\ mac # 0 => recv_nonce = nonce
SameNonce == recv_nonce                         \* mutant: decrypting uses no nonce up
NextNonce == IF mac = 0 THEN recv_nonce ELSE recv_nonce + 1

\* from_bytes refuses a header with a body over what its action allows
OverMax(f) == sent[f].max # NoMax /\ sent[f].len > sent[f].max

\* the header is whole: it is decrypted and converted, and the body entered
ReadHeader(n) ==
    /\ at = "header" /\ Reads(n) /\ pos + n = Len(buf)
    /\ recv_nonce' = NextNonce
    /\ LET Of == {f \in DOMAIN sent :
                     Intact(Filled(n), sent[f].start, sent[f].nonce) /\ ~OverMax(f)}
       IN  IF Of # {} THEN \E f \in Of : EnterBody(f, 0, Filled(n))
           ELSE Fail("hard") /\ read' = read + n /\ buf' = Filled(n) /\ UNCHANGED header

\* the body is whole: it is decrypted and parsed, or the error is soft
ReadBody(n) ==
    /\ at = "body" /\ Reads(n) /\ pos + n = Len(buf)
    /\ recv_nonce' = NextNonce
    /\ Take(header, /\ sent[header].good
                    /\ Intact(Filled(n), BodyStart(header), sent[header].nonce + 1))

\* early eof, which is also how a stream ends between two frames
ReadEnd ==
    /\ at \in {"header", "body"} /\ closed /\ consumed = written
    /\ Fail("eof")
    /\ UNCHANGED <<mac, sender, recv_nonce, consumed, builder, body_limit>>

\* the stream fails with bytes unread, or TimeoutReader's time is over
ReadFails ==
    /\ at \in {"header", "body"}
    /\ Fail("io")
    /\ UNCHANGED <<mac, sender, recv_nonce, consumed, builder, body_limit>>

\* select! takes another arm
Abort ==
    /\ at \in {"header", "body"}
    /\ at' = "idle" /\ pos' = 0
    /\ UNCHANGED <<mac, sender, recv_nonce, consumed, builder, body_limit, received>>

\* update_config, between two calls
SetLimit(limit) ==
    /\ at = "idle" /\ body_limit # limit
    /\ body_limit' = limit
    /\ UNCHANGED <<mac, sender, recv_nonce, consumed, at, builder, pos, received>>

-----------------------------------------------------------------------------
Read == \E n \in 1 .. WireCap : ReadSome(n) \/ ReadHeader(n) \/ ReadBody(n)
WriteSome == \E n \in 1 .. WireCap : Write(n)

Next ==
    \/ \E h \in Headers, good \in BOOLEAN : Send(h, good)
    \/ WriteSome \/ HangUp
    \/ Receive \/ Read \/ ReadEnd \/ ReadFails \/ Abort
    \/ \E limit \in Limits : SetLimit(limit)

Spec == Init /\ [][Next]_vars

\* write_all goes on; receive is called again, and a read that is ready again and
\* again wins a select! that starts at a random arm
FairSpec == /\ Spec
            /\ WF_vars(WriteSome)
            /\ WF_vars(Receive) /\ SF_vars(Read) /\ SF_vars(ReadEnd)
=============================================================================
