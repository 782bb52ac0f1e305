# lafere: specifications, model checking and proofs

lafere multiplexes requests, answers and streams of two peers over one byte
stream; lafere-api gives requests actions and handlers, protopuffer their bytes. This
directory holds TLA+ modules of its core, TLC configurations that
check them on small instances, and proofs checked by TLAPS. Paths below are
relative to `src/`; `handler.rs` is `lafere/src/handler/handler.rs`.

## The system

| component | state | operations | interacts with |
|---|---|---|---|
| Connection task: `bg_stream`, `bg_stream_reconnect`, `Handler`, `HandlerState`, `WaitingOnUser` (`handler.rs`) | tables `waiting_on_stream`, `waiting_on_user` by id; id counter and mode; `should_close`, `close_packet`; where it awaits | one `select!`: receive a packet, send what users have ready, ping, close signal, new configuration; then `else` ends it | the byte stream; users' channels; the other end's task |
| User handles (`handler/mod.rs`, `sender.rs`, `receiver.rs`) | oneshot and mpsc channels, close signal | `Sender::request/request_sender/request_receiver/enable_server_requests`, `Receiver::receive`, `ResponseSender::send`, `StreamSender::send`, `StreamReceiver::receive/close`, `TaskHandle::close`, and dropping each | the task, by bounded channels (10) |
| Connections (`client.rs`, `server.rs`) | the handles; `sender_enabled` of a server | construction, `enable_server_requests`, `take_receiver`, `close`, `wait` | handles, task |
| Packet kinds and headers (`packet/packet.rs`) | - | `Kind`, `Flags`, header bytes | framing, handler |
| Plain stream (`plain/mod.rs`), framing (`packet/builder.rs`, `bytes.rs`, `body_bytes.rs`) | bytes read of the header or body; header | `send`, `receive` (abort safe), `shutdown` | task, byte stream |
| Encrypted stream (`encrypted/*`, `packet/encrypted_bytes.rs`) | two keys with a nonce each | handshake, encrypt, decrypt header and body | framing |
| Timeout and ping (`util/timeout.rs`, `handler.rs` 653-667) | deadline, interval | read with a timeout, ping | the other end's pings |
| Configuration channel (`util/watch.rs`) | data, version, count of senders, waiters | `send`, `recv`, clone and drop of a sender | Configurator and the task |
| API server (`lafere-api/src/server.rs`, `request_handlers.rs`) | handlers by action, data by type, sessions | register, accept, spawn a task per request, answer, call a handler of its own | `server::Connection`, a `Requestor` |
| API client (`lafere-api/src/client.rs`, `requestor.rs`) | - | typed request, attach handlers for server requests | `client::Connection` |
| API messages (`lafere-api/src/message.rs`, `encdec.rs`, `error.rs`, ...) | - | header with an action and flags, errors as messages | both |
| Protopuffer codec (`protopuffer/src/*`) | - | varints, fields, messages: encode, decode, skip | API messages |
| Derive macros (`*-codegen`) | - | generate Rust | API, codec |
| Listeners, stream traits, future helpers (`util/listener.rs`, `standalone_util`) | - | adapters | operating system |

### What is hard in it

* A task is one `select!` loop, but its arms await inside: into `tx_requests`,
  into a stream's channel, into the byte stream. Users act on every channel
  meanwhile, and while an arm waits the task does nothing else.
* Every call lives in up to four places (a queue, a table on either side, packets
  on the way), and is dropped by either user, by a graceful close, by a failed
  byte stream, or by a body that does not parse, at any point.
* Both ends give out ids of one space, split at `U32_MID` once server requests
  are enabled, an event that itself travels through the queues.
* A reconnecting client keeps its handler, and with it table entries, for a
  server that starts from nothing.
* The two clocks of an end, of its reads and of its pings, are started by different
  things and run against the other end's.
* Handlers call back over the connection they are called on, and data, handlers and
  connections come in any order.
* A field's size is computed by one traversal of a value and its bytes by another, and
  a repeated value has three forms.

### What makes the components correct

* Task and handler: a body reaches the call it is meant for; a call gets one
  outcome; a request is in one place at a time; nobody holds a handle that nobody
  hears; an answer or message accepted from a user is not lost to a graceful
  close; two ends of this code never refuse each other's packets; every call and
  every close ends, but in a jam of both ends' writes.
* Framing and encryption: the packets received are those sent, in order,
  wherever a read was aborted; the nonces of both ends stay together.
* Configuration channel: a receiver gets the newest value, and learns when no
  sender is left.
* Timeout: an end times out only on a peer that is lost or whose ping is too late, and
  it does time out on one that is lost.
* API: what a caller is given is what the handler meant; a handler that panics, does not
  exist or cannot be answered gives an error and not a hang; a registered handler
  has its data.
* Codec: what was encoded is decoded as it was, also as another writer may have put it;
  sizes are exact; a message that was cut is not a shorter one.

## Modules

* `Rpc` - what a connection promises its users, call by call, without tasks, ids
  or packets. A Request is started, answered at most once, and resolved once: `Ok`
  only with the answer its responder gave, `NoResponse` and `MalformedRequest`
  only if none was and will be accepted. Messages of a stream arrive in order, each
  at most once, and without gaps unless bodies may fail to parse.
* `Connection` - the two tasks, their users and the byte stream.
* `Packets` - what a packet stream promises the task: a FIFO of packets, those that
  do not parse reported at their place. It is the `link` of `Connection`.
* `Framing` - one direction of a plain or encrypted stream, byte by byte.
* `Watch` - the configuration channel, access by access.
* `Timeout` - the read timeout and the ping interval of two ends, in ticks.
* `Api` - handlers and their tasks, over connections that are what `Rpc` promises.
* `Codec` - encoding and decoding as functions of types and values. It is recursive, as
  the code is, and so for TLC alone. `CodecWire` - a message between a writer, what other
  writers may make of it, and its reader.
* `*Properties` - invariants, the refinements of `Rpc` and `Packets`, liveness; for
  `Connection` also fairness. `CallInvariants` - what is true of a call wherever it is in a
  `Connection`: the inductive invariants behind its properties.
* `MC*` - TLC's instances. `*Proofs` - the theorems; those of `Connection` are in
  `ConnectionProofs` (types, ids), `FlowProofs` (where packets, handles and entries can have
  come from, and handles that nobody hears), `RequestProofs` (what becomes of a Request) and
  `RefinementProofs` (the order of messages, that `Connection` implements `Rpc`, and how streams end).

### How Connection corresponds to the code

A call `c` has a caller and a kind (`Request`, `RequestReceiver`: the caller
receives a stream, `RequestSender`: the caller sends one). It has one producer and
one consumer, and two channels: `up[c]` from the producer's user to its task (the
receiving half is in `waiting_on_user`) and `down[c]` from the consumer's task to
its user (the sending half is in `waiting_on_stream`). `tx`, `rx` are the users'
handles, `shut` says that the receiving half of `up` is closed or gone.

`task[p].at` is where `bg_stream` awaits: `select`, `deliver` (in
`tx_requests.send` or a stream's `send`, with the packet in hand) or `write` (in
`stream.send`). Each arm of the `select!` up to its first await is one action,
what follows the await another: `Recv*` and `RecvMalformed` (`Handler::send` and
`packet_error`) then `Deliver*`; `ToSend*` (`Handler::to_send`), `Ping` and
`CloseSignal` then `Write`, `WriteFails`, `WriteClose`; `Finish` is the `else` arm.
`End` is every return: it drops the handler, and with it every channel half in its
tables and queues, unless `bg_stream_reconnect` keeps it (`KeepsHandler`).
`Reconnect` is its next iteration together with `close_all_started`. Since the counter of
ids starts again, `id_of` (a history variable) then moves the ids given on the old byte
stream below 0 (`Old(c)`): an id below 0 names no entry, and no two byte streams share one.

Tokio's channels are sequences with capacities; a dropped half is noticed by the
other at its next use. A oneshot's `Sender` in `waiting_on_stream` of a Request
is `res[c] = "pending"`: dropping it resolves the future to `TaskFailed`.

What is abstract:

* payloads: `call` and `n` of a packet say which call a body is of and its place;
  no action looks at them except to move them. `Genuine*` and the properties do;
* header bytes, encryption and fragments of frames: `link[p]` is a bounded FIFO of
  whole packets. A frame whose body fails to parse is `RecvMalformed`, for the kinds
  in `BadKinds`; one whose header fails ends the task like a failed stream does;
* time: a ping may be sent at any moment by the ends in `MayPing`, and a read timeout
  is one of the failures of `Break`;
* the configuration arm (`update_config` changes the body limit and timeout only);
* `to_send` returning `None` because ids are exhausted: the arm is then disabled
  until another event; the model lets the loop go on at once, which gives more
  interleavings and the same end of a closing task;
* a reconnect happens once the old connection's server task has ended and its
  user has dropped the `Receiver`; the new server's ids and tables start empty,
  while the responders of old requests may still hold their handles. Failed
  attempts of `ReconStrat` are invisible.

Bounds that are not in the code: `MaxMsgs` messages of one stream, `MayEnable`
EnableServerRequests packets on the way, `MaxReconnects`, and the sets `MayPing`,
`MayClose`, `MayDrop`, `MayCancel`, `MayBreak`, which switch events of the environment
on. Capacities (`QueueCap`, `StreamCap`, `LinkCap`) are 1 in the runs: full channels
are where the code waits, and a larger capacity only postpones it. `Mid` and `MaxId`
stand for `U32_MID` and `u32::MAX`.

### How Framing corresponds to the code

One side sends (`Send` seals a frame, `Write` is one write of `write_all`), the other
calls `receive` in a `select!`. `at` is where such a call awaits: in the loop of
`read_header` or of `read_body`; `Abort` is the `select!` dropping it there. What the
call keeps in `PacketReceiver` is `header`, `read` and `buf` (`full_header_mut` until
there is a header, then `full_body_mut`); its own cursor is `pos`. The last read of a
part is one action with what follows up to the next await: `ReadHeader` decrypts,
converts and enters the body, or takes a message without one; `ReadBody` decrypts and
parses. `from_bytes` may refuse a whole header, which is a hard error of a builder without
a header: for a body that the packet's action does not allow (`OverMax`,
`Action::max_body_size`). A byte is its position in everything sent, so that the byte stream, which keeps
the order, is the interval `consumed + 1 .. written`. A header is recognised, and a
part decrypts, when its bytes are in place and the nonces agree (`Intact`); what
other bytes would be taken for does not matter, since it is shown not to happen. A body
that does not parse is a choice of `Send`. `mac = 0` is the plain stream. Nothing
corrupts bytes, so a wrong Mac can only come from this code.

### How Watch corresponds to the code

`send` takes the lock and stores (`Store`), counts the version up (`Bump`), drops the lock
(`Unlock`) and calls `notify_waiters`; a drop counts down and may notify; `recv` makes its
`Notified` and loads the version in the next step, reads the data, or loads the count and
awaits. Accesses are sequentially consistent: the version is `SeqCst`, and the count,
whose changes are `Relaxed`, is an atomic of its own: a receiver that reads it too high
goes on to await a `Notified` made before, and the last drop calls `notify_waiters`
after its change, whose lock orders that change before the next look. tokio's `Notify`
wakes the `Notified` that exist and keeps nothing for later ones. A value is the number of
values before it.

### How Timeout corresponds to the code

`timer` and `active` are `TimeoutReader`'s: a read that is pending starts the timer if it
is not `active` (`ResetTimer`), whatever is read or `set_timeout` stops it, and
`TimeOut` is the poll that finds it over; a poll of a `select!` that is dropped changes
nothing more. `interval`, `due` and `owed` are tokio's `Interval` with
`MissedTickBehavior::Skip`: ticks stay on their grid, and one that is missed is owed once.
The interval is fixed when the task starts, `SetTimeout` (the configuration arm) does
not change it. Each arm is an action up to its await, `working` and `Writing` are those
awaits. `Tick` lets time pass when nothing in a `select!` is ready and no packet is
older than `Delay`; a task that waits in an arm lets time pass. Frames have no contents: a
`packet` (a ping or anything else), `close`, and the `eof` of a stream that was dropped.
`late` and `waited` are in no program: how late the next ping of an end is, and the most
of it that the other end's timer has seen. An end that `Die`s stops, with what was
on its way; its peer still has room for pings, of which a timeout has only a few.

### How Api corresponds to the code

A call is one use of `request`, by a user (`Root`) or by the handler of another call; its
callee is the server, over the connection, a client, through a `Requestor`, or
the server itself (`BuiltServer::request`). `RegisterData`, `RegisterRequest` and `Build`
are the builder's, where `RegisterRequest` stands for one whose `validate_data` does not
panic. `inbox` is what has been sent on a connection and not taken by its loop;
`Dispatch` is one turn of `handle_connection`, `Handle` the task it spawns up to the
handler's first line (its handler looked up, the message made a request, its data
fetched), `Finish` the rest, from what the user's function returns to `resp.send`. Every
conversion of a message may fail, by a choice: `Outcomes` are what a handler returns
together with the message that becomes of it. A task that ends without an answer drops
its `ResponseSender`, which is `NoResponse` at its caller. The connection is an instance
of `Rpc` with a message per request, started by `Ask`, and ended by `Answered`,
`NotAnswered` or `Failed`. A connection that ends leaves the requests already received to
the loop. Reconnecting clients are not in `Api`.

### How Codec corresponds to the code

A type is a record (a Rust type that implements `EncodeMessage` or `DecodeMessage`), and
the impls are cases of `EncodedSize`, `Encode` and `Merge`. `FieldOpt` is `FieldOpt`, with
`NoField` for `None`. `Vec`, `HashMap` and `Option` share `SizeRepeated`, `EncodeRepeated`
and `MergeRepeated`, as their impls are copies of one another; a tuple is a struct with
fields counted from 0; `Slot`s are the fields of a derived struct, or the variants of an
enum. Bytes have `GroupBits + 1` bits and integers `Width32` and `Width64`, so that
varints of more than one byte, sign extension and the cut of a cast appear with
small numbers. Strings are bytes. An iteration order of a `HashMap` is the order of
the sequence that models it. In `CodecWire` the message is the sequence of its
fields' bytes; `Extend`, `Swap`, `Unpack` and `Supersede` are changes that the protobuf
format leaves to a writer, made by none in this repository and marked external.

## Runs

`conn_live`, `framing`, `watch`, `api` and `timeout` assume `FairSpec`, the others nothing. Deadlock is checked for `watch`, whose receivers always
go on, and not elsewhere: a connection whose calls are done, or whose tasks have ended,
rightly stops.

| run | instance | shows |
|---|---|---|
| `conn_requests` | c1, c2 of the client, c3 of the server, server requests enabled, c1 cancelled, either end closes | no refused packets, one token per request, answers survive a graceful close, ids used once, refinement of `Rpc` |
| `conn_streams` | a stream each way, 2 messages, readers close or drop, the server closes | streams conserved while closing, with the inductive `StreamInv` (`OrderInv` and `HalvesInv`) that says why |
| `conn_faults` | one client call and two server calls of the three kinds; every body may be malformed; the stream may break; the client may drop its Receiver; ids 0..2 with Mid = 1, enabling twice: both ends run out of ids | types, the inductive invariant `CallsInv`, `CorrelationApart`, streams attached on both ends or neither |
| `conn_live` | a request and a stream of the client, which pings and may give the request up; the server closes; the stream holds one packet each way and may break | every request, stream and close ends, under `FairSpec`, unless the connection jams |
| `reconnect` | a request and two streams that a client sends (symmetric), over two byte streams; late packets may be refused | no handle unheard (as the inductive `OrphanInv`), refinement of `Rpc`, across a reconnect |
| `framing` | three frames, bodies of 0 to 2 bytes, good or not, header of 2, Mac of 0 or 1, limits 0 and 1, an action that allows one byte, a stream of 3 bytes | refinement of `Packets`, nonces, hard errors only over a limit and of the frame whose turn it is, no whole frame cut, all arrive |
| `watch` | two senders, two receivers, one of each a clone, two more values | no wakeup missed, nothing noted unseen, `None` only at the end, newest value and end arrive |
| `codec` | 24 types like those of the crate's tests, numbers at the ends of their ranges, lists of up to two, one change by another writer | read as written, sizes exact, a cut in a field is an error |
| `api` | one client; a call to the server, whose handler calls the client, whose handler calls the server; a call inside the server; one handler that needs data | answers are those of the handlers, data is there, requests end |
| `timeout` | timeouts of 1 and 2 ticks, a second of one, one change, room for one packet, a server that may be lost or close | timeouts explained, a loss noticed |
| `reconnect_crossed` | two server calls over a reconnect | departs from the doc of `close_all_started` |
| `codec_silent` | two enums with a variant that holds a list or an option | departs from the doc of `EncodeMessage`: see below |

Two calls from one end and one from the other are enough for ids of both ends to
meet, for a call to be overtaken by another, and for one to take the other's place in a
full queue. Three frames are a frame behind one that fails and before another; a header
and body of two bytes are the least that a read can split, and a stream of three joins the
end of one frame to the next. Two values and two senders let one be sent while another is
being read, and the last sender be a clone. Two messages with capacity one are enough for a producer to wait while
one message is in each place. Three ids with `Mid = 1` make both counters end.

In `codec` a varint byte has three bits and the high one, so that a number of four
bits takes two and one of eight three, the cast of a negative i32 among them; types are
nested up to three deep, beyond which the same cases return. `api` has each kind of callee and
a call tree that goes to the other end and back over one connection: the least in which a
loop that ran its handlers would wait for itself. In `timeout` a timeout of 1 is of the
class without a margin and 2 of that with one of a second; the third class differs
in a number. A delay of the network and longer seconds were checked for safety only (a
second of two ticks, timeouts of 3 and 4, a delay of one: 3.9 million states) and are in the
theorem.

### Departures the runs show

* `reconnect_crossed`: `close_all_started` closes the channels in `waiting_on_user`
  and leaves their entries: an answer given before is sent on the new connection,
  under an id that there stands for another call. The same entries may occupy an id that
  the reset counter gives again, and `expect("generated a duplicate id")` panics.
* `codec_silent`: a field that is given a number must be written, says `EncodeMessage`; an
  empty list or an option of none writes nothing. As a struct's field this is the
  default and read as such, but as the payload of a variant the variant is lost.

Met while modelling and left out of the runs:

* A request queued at the moment of a close enters `waiting_on_user` open; exhausted ids
  end a closing task early; a client past `U32_MID` when it enables server requests shares
  ids with its server; a client whose server closed while a write failed reconnects with
  a closed queue.
* A write has no timeout: an end that waits for room in the stream of a lost peer does
  not notice it. A timeout under two seconds has an interval of the same length, and any
  delay ends the connection. An interval does not follow a changed timeout.
* `typerepresentation.md` numbers key and value of a map's entry 1 and 2; the code, which
  writes it as a tuple, 0 and 1. A number, a bool or an enum without fields that is a
  message of its own is written bare and cannot be read back, since a message is read as fields. -0.0
  is a default and not written. `ZigZag` reads sint32 from 2^30 and below -2^30 wrong.
* Two arguments of a handler that take the request pass `validate_data` and panic at the
  first request. Requests of one connection are handled in no order.

### What the liveness properties except

An arm that writes to the byte stream waits until all is written and reads nothing
meanwhile (the code's own todo, handler.rs 702): when both ends write to a full stream
they wait for each other until it fails. It happens in `conn_live`, where the stream
holds one packet each way, the client pings and the server sends only what it was asked
for. `RequestEnds`, `StreamEnds` and `CloseEnds` name that state, `Jammed`, as the one
in which a call may be left pending or a task running: TLC refutes each of them in
seconds without the exception, and shows with it that nothing else stops a call. As a
leads-to speaks of every state, a call that stays pending stays in a jam: when a failure
of the stream breaks it, the call must end. Pings of both ends, or both calls given up,
make the check of liveness longer than is of use and were left out. `TaskHandle::close`
also waits for a task that waits for room in `tx_requests`; `CloseEnds` holds of users
who receive.

### Fairness

`FairTasks` gives each await of a task weak fairness: tokio polls a task that was
woken. The arms of `select!` get strong fairness, since `select!` starts at a
random arm and an arm that is ready again and again is taken with probability one;
`to_send` as a whole gets it, and not each entry of the `HashMap`. `FairUsers` are
users that take what arrives and that answer or drop what they hold; nothing is
assumed of starting calls, closing or cancelling.

In `Framing` a write that has room and a call of `receive` are weakly fair; reads are
strongly fair, since the call may be dropped again and again but a `select!` that finds
the arm ready again and again takes it. Sending, hanging up, aborting and limits are
not fair. In `Watch` threads finish the calls they are in, and a receiver calls `recv`
again, as the loop of `bg_stream` does; sending, cloning, dropping and aborting are not
fair.

In `Timeout` time passes, the network delivers and users take what a task waits to give
them; the arms of `select!` are strongly fair as in `Connection`. Only an end that is never
lost is fair, and nothing is assumed of sending, closing and configuring. In `Api` the
loops, the spawned tasks and the connections are weakly fair, and a handler returns once
the requests it made have; making requests, registering and disconnecting are not fair.

## Theorems

Of every set of calls, kinds, callers, capacities, bounds and value of `U32_MID`:

* `TypeCorrect`: `Spec => []TypeOK`, also with reconnects.
* `OrphanInvHolds`, `NoneOrphaned`: `Spec => []NoOrphan`, also with reconnects. A user never
  waits for a channel that nobody hears.

and, as long as what reconnections there are are clean (`CleanReconnects`, see below; `C` in
the formulas):

* `IdsGenuine`, `Correlated`: `Spec /\ C => []CorrelationApart`. A body reaches only
  the user of the call it is meant for as long as the ids of both ends are apart.
* `CallsInvHolds`: `Spec /\ C => []CallsInv`, the invariant that the rest follows from.
* `TokenOnce`: a waiting Request is in one place: queued, on its way, served, or answered.
* `UsedOnce`: while ids are apart no two calls that are alive share one.
* `NoResponseMeant`: while ids are apart, `NoResponse` means that the responder dropped its
  handle or its end was closing.
* `NeverRefused`: while ids are apart no end refuses what the other says: a packet of an unknown
  id, a request that the mode forbids or a second use of an id never ends a task.
* `AnswersArrive`: while ids are left, an answer that a user gave is not lost to a graceful close.
* `OrderInvHolds`: `Spec /\ C => []OrderInv`, the order of what a connection holds of a call.
* `Implements`: `Spec /\ C /\ []IdsApart => ImplementsRpc`, a connection implements `Rpc` for as long as
  the ids of its ends are apart.
* `StreamInvHolds`: `Spec /\ C => []StreamInv`, that order and how the two halves of a stream end.
* `StreamsAttached`: while ids are apart, nobody waits on a stream whose other half is gone and
  unannounced.
* `StreamsConserved`: while ids are apart and left, what lies between the users of a stream is what
  was sent and not taken, each message once and in order, also while the producer's end closes.

A client that only asks (`OnlyAsks`: it calls neither `enable_server_requests` nor
`request_sender`) meets both conditions, however many byte streams it opens:

* `AskersReconnect`: `OnlyAsks => (Spec => CleanReconnects /\ []IdsApart)`.
* `AskersImplement`: `OnlyAsks => (Spec => ImplementsRpc)`. What its users see over all its byte
  streams is a behaviour of `Rpc`: no answer or message of an old one reaches a call of a new one.
* `ReconnectInvHolds`: `OnlyAsks => (Spec => []ReconnectInv)`, the invariants behind it.
* `AskersStreams`: its streams are attached and, while ids are left, conserved.

The conditions are those of the code. A reconnection is `Clean` if nothing is in the
client's `waiting_on_user` and the ids of both ends have not crossed before: that table is the
one thing that `close_all_started` keeps, and the new byte stream gives its ids again. So
a connection of a client without a `ReconStrat`, which has no reconnections, satisfies it trivially,
and so does that of a client that only asks (`AskersReconnect`, by
the inductive `OwesNothing`: no EnableServerRequests is queued or on the way, so its server never
calls it and it has nobody to answer, and without a stream that it sends nothing enters its
`waiting_on_user`). Another client that reconnects with an entry left answers under an id of
another call (`reconnect_crossed`), and for it only `TypeCorrect` and `NoneOrphaned` are
proved. `IdsApart` fails only for a client that passed `U32_MID` before it enabled server
requests. `IdsLeft` fails only for an end that gave out all its ids: `next_id()?` in `to_send`
then ends the loop of a closing task before the answers that are queued.

Across a reconnection the invariants speak of the byte stream at hand and leave out calls that
are `Old`. `Dropped` says why nothing else of the old one can come back: a task that has
ended, and whose handler is not kept, has dropped its queue and tables, so the new server's end
starts empty and the client's `waiting_on_stream` is emptied by `close_all_started`. What then
remains of an old call are its users' handles, of which the consumer's has its outcome (a Request)
or its end (a stream), and the responder's is not listened to. With that, `Reconnect` is one more case
of each conjunct (`NewStream`, `NewRequests`, `NewCalls`, `NewOrder`, `NewHalves`), and in `Rpc`
it is the `Fail` of all calls that were given up at once. `Sound` is types, `OrphanInv`,
`Dropped` and `CorrelationInv` together (`SoundAlways`).

`CorrelationApart` speaks of the last hop only and is not inductive. `CorrelationInv`
adds what every hop knows: packets on the way or in a task's hand carry the id of
their call (`GenuinePackets`), entries of both tables are of the call that has their
id and of the right side (`GenuineEntries`), counters are past every id given,
those of a server past `Mid`, no two calls of one caller share an id
(`IdsAscend`), and a call is queued once, by its caller, before it has an id
(`QueuedOnce`). A delivered body's id then names one call of each caller, the ids of
callers are apart, and so the entry found is of that call.

`OrphanInv` adds to `NoOrphan` that a handle which waits in `rx_requests`, or in the hand of a task
that awaits room there, has its entry (`HandedIsFed`), and that a task which has ended
awaits nothing. `CallsInv` follows a call further: `AskedOnce` says that it is asked by one packet, of an
end that does not know it yet; `OnePlace` that it is asked, then served, then
answered by one packet; `HandleOf` that its `ResponseSender` exists once and what it sent
is in its channel until its task takes it; `Meaning` what each kind of answer, and each
outcome, says about the responder; `ControlIds` that a packet without a body is about a
call that exists. These five (`RequestInv`) hold also where ids meet. `NoneForgotten` is
the other half of `OneToken`: between ends that both serve, a Request which is waited for
has one of these places. `ApartInv` adds what needs `IdsApart`: whoever is to be answered
waits, and a responder's channel is closed by its own end alone. `EnabledFirst` is
why a server may call a client: `EnableServerRequests` precedes its packets, or has been
heard; `Drained` says that an end which says Close has answered everything. `conn_faults`
checks `CallsInv` and `reconnect` checks `OrphanInv`. `ReconnectInv` was checked before it was
proved, as an invariant of `Spec` on the calls of `conn_live` with `MaxReconnects = 2`, readers
that give up and a server that drops its `Receiver` (722 000 states).

`OrderInv` is what the refinement needs of streams. `Track` is what an end has said and the
other has not dealt with, the message in the hand of its task (`InArms`) before the packets on
the way. `Beginning`: nothing is taken from a producer before the packet that opens its
stream is written, and no outcome but `pending` goes with an id. `Ascending`: from the
consumer's channel over `Track` to the producer's channel the numbers of a stream ascend, and
those in the producer's channel are the last. `Gapless`: as long as the consumer's end listens,
and unless `Stream` bodies fail to parse, none is left out; if it stops to listen, what is in
the hand of its task still is the next one. `Attended`: a task has an entry for what it holds,
since no other arm of its `select!` runs. A message that a task puts in a channel is then
`Arrive` of `Rpc`. `Answer` and `Emit` are `Produce`: `Meaning` says that who can still answer
was not said to have given up, and `NoOrphan` that who feeds a stream was started. An answer packet
is `Resolve`, by `Meaning` and `FirstAnswers`; the ends of tasks, closes and ids that ran out are
`Fail` of what they gave up; all other steps leave `Rpc` unchanged (`RpcNext`).

`StreamInv` adds `HalvesInv` to it, why the halves of a stream end together. `ClosedLast`: StreamClosed is the last
thing an end says of a stream. A producer's end removes the entry as it says it; a consumer's end
says it only in answer to a message, which it was sent after the packet that opens the stream; a
callee that cannot read that packet consumed it. `Attached`: between ends that serve, one half has
the other, or asks for it, or is about to hear that it is gone. Each way a half goes, its user drops
it, a body fails to parse or the other end closed it, is a step that writes StreamClosed or
reads it (`ClosingStays`, `HearsClosed`), and by `ClosedLast` nothing of the stream follows that an
end without the entry would have to keep. `Emptied`: an end that has said Close has closed
`rx_requests` and read it to its end, and with `Drained` it feeds no stream, so that `result = "Ok"`
of a producer's end means that all it took is on the way. `Conserved`: while the consumer listens and
its end serves, there is no reason to say StreamClosed against the direction of the messages, so the
consumer's entry stays until the producer's StreamClosed is read, which is behind all messages; and
then every number between those of the two channels is in `Track`. `IdsLeft` is needed there:
`next_id()?` ends a closing task before it took what its producers sent.

The proofs go action by action once, and then by what a step can do. `FlowProofs` says for
each action, and so for `Next`, how a queue, the packets on the way of an end, the
handles for its user and its tables change: an end may add one packet that it says, lose
the first to the other's task, and lose all when it ends (`WayFlow`, `QueueFlow`,
`HandedFlow`, `EntriesFlow`, `OutcomeFlow`, `SenderFlow`). `RequestProofs` turns these into the
events of one call (`WhoAnswers`: an answer is said by the task that served it, which
forgets it, or by one that could not read the request; `ServedFlow`, `AwaitedFlow`,
`ResponderFlow`, `ShutFlow`), and each conjunct of `CallsInv` then has its own lemma
(`*Stays`), which looks at a handful of events and no longer at actions. In
`ConnectionProofs`, most actions only take away or touch nothing: lemmas `Frame*` and
`Calm*` treat them together; the nine that add something have a lemma each. The
assumptions are those named in `Connection`: callers and kinds are functions on the calls,
`NoCall` and `Enable` are not calls, `Mid < MaxId`, capacities are at least one.

For every size of headers, bodies and Macs, every limit and fragmentation (`FramingProofs`):

* `AbortSafe`: `Spec => ImplementsPackets`, the framing implements `Packets`.
* `HardOnlyOverLimit`: a hard error is one of the frame whose turn it is, either of its header,
  when its action does not allow the body, or with the header read, when the stream does not.
* `Synchronized`, `NothingCut`: the other invariants of the run.

They rest on `FramingInv` (`FramingInvHolds`). `Laid` says that frames and their nonces lie behind one
another without gaps; `InPlace` that the bytes consumed are those before the part that is
read and `read` of it, which are in place in `buf`, and that a call's `pos` is `read`. A
whole header then holds the bytes of one frame only (`OneFrame`), the one after those
received, and the nonce is that frame's (`WholeHeader`, `WholeBody`); a step takes
it (`Taken`), enters its body (`Entered`), or moves nothing (`Still`).

For any senders, receivers and values (`WatchProofs`):

* `NothingSleptThrough`, `Fresh`, `NoneOnlyAtTheEnd`: the invariants of the run. `WatchInv`
  (`WatchInvHolds`) adds that a receiver between its check and its await has a `Notified` that is armed
  for any version it has not seen, that the lock holds value and version one apart
  only between the two writes, and that the count is the number of senders alive.

For all timeouts, seconds, delays, rooms and whichever end may be lost, closed or
configured (`TimeoutProofs`):

* `TimeoutInvHolds`, `TimeoutsExplained`: the invariants of the run. What is proved on the
  way is `SilenceOK`: while the timer of an end runs and nothing has arrived, the time it
  has run is bounded by what the other end is doing: a packet on its way was written
  at most an interval and the lateness of its ping after the last one, and has its age; a
  ping that is owed or being written is late by `late`; and otherwise the interval has run
  since its last tick. When the timer is over, that bound has reached the timeout, which
  is the property. `IntervalOK` and `TimerOK` relate the clocks of one end; `EndOK` says
  that the end of a stream is ahead of a reader whose peer has returned.

For any clients, calls, callees, handlers and data (`ApiProofs`):

* `ApiInvHolds`: `Spec => []ApiInv`. A call is on its way at one place of one inbox and
  has no task yet (`OnItsWay`); its task, its handler's result, its reply and what the
  connection took of it agree (`Served`); what was asked of a connection was asked of one
  that was made (`Connected`).
* `AnswersMeant`: `Spec => [](AnswerOfItsHandler /\ DataThere)`, which follows. `DataThere`
  is why registration may check data once: data is only added, a handler is only
  registered over data that is there, and the data of a built server is fixed.

Only model-checked: the refinement of `Rpc` by a client that reconnects with entries left in its
`waiting_on_user`, which are the streams it sends and the answers it owes (`reconnect` checks
it for streams, and `reconnect_crossed` shows what goes wrong with answers); the codec, whose
definitions are recursive, so that its properties would need an induction over data; and all
liveness (fairness and ENABLED are out of the prover's reach).

## Not modelled, and the plan

Not modelled: the handshake beyond its result, a nonce on which both ends agree, and the
cryptography itself (an external crate); listeners and socket adapters (no state); the
layout of header bytes; the data a Session holds for its handlers; UTF-8; the parsing of
attributes by the derive macros.

Left of the plan, by weight:

1. Proofs: the refinement of `Rpc` across a reconnection that is not clean, with an invariant of
   the entries of streams that `close_all_started` leaves; what `Timeout` promises of the peer
   that is lost.
2. `Api` over a client that reconnects: what its loop and its server's `Requestor` see.
3. The layout of the packet header and of the message header, over `Framing`.
