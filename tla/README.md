# socket-flow in TLA+

socket-flow is a WebSocket library (RFC 6455, with permessage-deflate, RFC
7692) on top of Tokio. This directory models the opening handshake with its
negotiation of extensions, what the library does on an established connection,
how it writes frames to its stream, and its ready-made server; checks all of it
with TLC on small instances; and proves with TLAPS, for every instance, all the
safety properties the passing runs check and all four refinements. Liveness is
model-checked.

Source references are to `src/src/`, unless a path says otherwise.

## 1. The system

| Component | State it keeps | Operations | Talks to |
|---|---|---|---|
| **Read task** (`read.rs`, spawned in `handshake.rs:130-134`) | the message in progress (`fragmented_message`), its decoder, its half of the socket | `poll_messages`: read a frame, check it, reassemble, inflate, deliver, answer Ping and Close | the channel to the user (capacity 20); the Writer, through a mutex |
| **Writer** (`write.rs`) | the write half of the socket | `write_frame` | shared by read task and user behind `Arc<Mutex<_>>` |
| **User's writing half** `WSWriter` (`split.rs`) | its encoder, its configuration | `send*`, `send_message`, `send_ping`, `send_large_data_fragmented`, `close_connection` | the Writer, one lock per frame |
| **User's reading half** `WSReader` (`split.rs:19-35`) | the receiving end of the channel | `next` | the read task |
| **Connection** (`connection.rs`, `handshake.rs:91-137`) | both halves | the calls of both, `split` | |
| **DEFLATE contexts** (`encoder.rs`, `decoder.rs`) | a window of earlier messages each | `compress`, `decompress` | in step with the coder at the other end |
| **Extension negotiation** (`extensions.rs`) | none | `parse_extensions`, `merge_extensions`, `add_extension_headers` | the handshake |
| **Opening handshake** (`handshake.rs`, `request.rs`, `utils.rs`) | none that survives it | request, response, timeout, choice of coders | leaves its `BufReader` to the read task |
| **Server** (`server.rs`, `event.rs`) | the accept loop, one task per client, an event channel (capacity 1000) | accept, TLS, handshake, forward messages | `EventStream` |
| **Stream, TLS** (`stream.rs`, rustls) | none of its own | delegates polls | |
| **Configuration, frames, messages, errors** | values | | |

### What is hard

*Two tasks, one writer.* The read task answers Pings and Closes itself, so
that it competes with the user for the mutex of the Writer, between any two
frames of a message; and while it waits it reads nothing.

*Back pressure in a circle.* Channel, mutex and TCP buffers can all be full. A
user blocked in a write holds the mutex its own read task may wait for.

*Errors on every path.* A dozen errors end the read task. Each must reach the
user, once, after all that came before it.

*State across frames.* Fragments with control frames between them, text cut
inside a character, limits that fragments reach only together, compression
contexts that both ends must move in step.

*Ends.* A close crosses a close, the peer leaves without one, a user drops one
half and not the other. The socket closes only when both halves are given up.

*Two programs, one agreement.* Either end computes from its own settings and
from what it reads of the other's which coders it builds, and what it reads may
come with frames behind it, be cut off, or never come.

*Half a frame.* A frame is several `write_all` calls without a flush; the
future of a call may be dropped between any two of them.

*One feed for many clients.* The accept loop and the clients' tasks send into
one bounded channel; a slow user, a client that keeps silent and a panic in one
place are felt in another.

### What makes each component correct

- Read task: the user receives exactly the messages the frames carry, in
  order; an error when and only when one is due; nothing after it; nothing is
  read after a Close; buffers stay bounded.
- Writing half: messages come out whole and in the order of the calls,
  whatever comes between their frames; a call ends.
- Connection: either direction is a pipe; two ends of the library never accuse
  each other; a close, or the loss of the peer, ends both streams.
- DEFLATE contexts: what is compressed by one end is read by the other.
- Negotiation: both ends come to the same agreement, and build coders that fit
  each other.
- Handshake: it succeeds for both or fails, and leaves the read task exactly
  the bytes after it.
- Server: a client's events come in the order NewClient, messages, at most one
  Error, Disconnect; one client does not keep others waiting.

## 2. The modules

```
Frames                         bytes, payloads, DEFLATE, frames, messages, errors
  Link                         what the tasks of one end share
    ReadStream   WSWriter      the read task; the user's writing half
      \           /
        Endpoint               one end; fairness
       /        \
  AnyPeer     Connection       ... against any peer; ... against itself
     |          /      \
     |  Extensions   MessagePipe   what one direction promises (abstract)
  AnyPeerProperties + Reassembly   what frame sequences mean (reference)
  AnyPeerMC, ConnectionMC      instances for TLC
  EndpointProofs               lemmas about one end
    AnyPeerProofs              theorems about AnyPeerProperties
    CourseProofs               lemmas about the stream from one end to another
      ConnectionProofs         theorems about Connection, CourseProofs twice

Extensions                     parameters, the merge, the coders that follow
  Handshake                    both ends, or one against any other program
    HandshakeMC                instance for TLC
  ExtensionProofs              lemmas: what is written into a header is read
    HandshakeProofs            theorems

Writer                         one direction, part by part of a frame
  MessagePipe                  the same promise, of frames
  WriterProofs                 theorems

Server                         accept loop, clients' tasks, event channel
  EventFeed                    what the user hears of each id (abstract)
  ServerProofs                 theorems
```

| Module | Code | Correspondence |
|---|---|---|
| `Frames` | `frame.rs`, `message.rs`, `error.rs`, `decoder.rs`, `encoder.rs` | A payload is a sequence of units: bytes, or the i-th part of the compressed form of a message together with the number of messages in the encoder's window. `Decompressions` says what a decoder may return: the message if its window fits, and otherwise the message or one of `Misreadings`: an error; if the window holds other messages, other bytes (DEFLATE has no checksum); nothing or anything once the decoder has met bytes no encoder produced. What fails to inflate is a `DecompressError`, which in the code is an `IOError` like that of a lost connection; the model tells them apart by where they come from. |
| `Link` | `handshake.rs:91-114`, `write.rs` | TCP buffers, mutex, channel. `Written`/`WriteFails` are `write_frame` returning Ok/Err. |
| `ReadStream` | `read.rs` | `pc` is the await the read task is at. Everything between two awaits is one action, one per arm of the match in `poll_messages` (`StartMessage`, `ContinueMessage`, `FinishMessage`, `WholeMessage`, `RefuseFrame`, `AnswerClose`, `AnswerPing`, `IgnorePong`) or early return in `read_frame` (`RejectHeader`, `PayloadMissing`, `PayloadUnreadable`, `EndOfInput`). `Deliver`, `LockForReply`, `WriteReply` and `ReportFailure` are the awaits, with the ways in which they fail. |
| `WSWriter` | `split.rs` | A call computes its frames at once (`MessageFrames`, `LargeFrames`), then takes the mutex, writes and frees it for each of them. |
| `Endpoint` | `connection.rs`, `split.rs:19-41`, `handshake.rs:91-137` | Both tasks with the user's `next`, and dropping of either half. `Split` says whether the user reads and writes in one task or in two. |
| `AnyPeer` | | The peer writes any frames of a set, reads or does not, leaves when it likes. `taken` and `heard` record the frames that crossed. |
| `Reassembly` | RFC 6455 section 5.4, RFC 7692 | Which frame sequences are allowed and what messages they carry, by quantifiers over the whole sequence: a message is where it ends, where it began, and what is joined between. The read loop and the frames `WSWriter` writes are checked, and proved, against it. |
| `Connection` | `handshake.rs:56-88, 200-230` | Two `Endpoint`s wired to each other. The settings of both users are constants; `Extensions` says what they agree to, and each end builds its coders from that the way the code does. |
| `MessagePipe` | | The abstract specification of one direction. `Connection` implements it in both (`ToServerIsPipe`, `ToClientIsPipe`), `Writer` for the frames of one (`FramesStayWhole`). |
| `Extensions` | `extensions.rs`, `encoder.rs:7-20`, `decoder.rs:8-20` | A header value is the sequence of its parameters; `parse_extensions`, `merge_extensions` and `add_extension_headers` are functions of them. `DecoderOf` and `EncoderOf` are the coders, `Panics` a width that is none for flate2. |
| `Handshake` | `handshake.rs`, `request.rs` | `ours` says which ends are this library. A stream is a sequence of lines with frames behind them. `at` is the await an end is at; each check has its error (`HeadError`, `RequestError`, `Accepted`), the timeout is in `HeadMissing`. `agreed` is `config.extensions` as the handshake leaves it, `seen` what the read task finds. |
| `Writer` | `write.rs`, `read.rs:168-272`, `stream.rs` | `WritePart` is one `write_all`, `ReadPart` one read of `read_frame`; `DropCall` drops the future of the user's call; `buffer` is what a TLS stream holds back. |
| `Server` | `server.rs`, `event.rs` | `at` is where the accept loop is, `task[i]` where the task of client `i`; `pending[i]` is the event it is about to send. `LoopDies` and `TaskDies` are the `unwrap` of a failed send. |
| `EventFeed` | | The abstract specification of an `EventStream`. `Server` implements it (`FeedIsOrderly`). |

A definition whose name starts with `Bug_` is a mutated form of the one that
follows it: a plausible mistake in that code. It is part of no specification.
Replacing the original by it makes the property it is paired with in
`PROJECT.json` fail, which shows that the property is about the code.

### Abstractions

- In `Link` a frame crosses TCP in one step: `Writer` shows that frames written
  under the mutex never mix as long as no call is dropped. A write that fails
  midway is followed by nothing.
- `Writer` takes the first byte, the length in whatever encoding, the mask and
  the pieces of a payload for one step each. What a TLS stream has not passed
  on to the socket it passes on in a later write only (tokio_rustls drives its
  session in `poll_write` and `poll_flush`; nothing here flushes). The payload
  timeout fires only when nobody writes, so that it stands for a rest that
  does not come, not for slow writers.
- A head is a sequence of lines, each with the values the checks look at, and
  is cut off between lines only. A key stands for the accept value made from
  it. `Garbled` stands for every value that is no number of eight bits.
- What happens between two awaits is one action, in the handshake as in the
  read task. An end of a handshake that is another program writes any prefix of
  one of `Requests` or `Responses`, and then frames.
- The uuid of a client is the number of the accept loop's turn. `Server` knows
  of a handshake only whether it ends well, badly, in a panic, or has a client
  that keeps silent; of a connection, that its `WSReader` yields messages, then
  perhaps an error, then `None`.
- Masking is left out: a reader undoes it wherever it finds it (and demands it
  of nobody, in the code as in the model).
- A frame whose payload is cut short (`whole = FALSE`) is the last the peer is
  modelled to write: what follows is taken for its payload by the code too.
- A call refused for its arguments (`MaxMessageSize`,
  `CustomFragmentSizeExceeded`, invalid UTF-8) changes nothing and is no step.
- Of lengths the model keeps what the checks compare: `MaxFrameSize`,
  `MaxMessageSize`, `ShortMax` for 125. A limit of `None`, which the code takes
  for 0, is excluded by `ConfigAssumption`.
- A peer that leaves sends FIN (`peerGone`). If it leaves bytes unread, TCP
  resets the connection at some later time (`broken`): writes then fail, and
  what this end had not read may be lost, from any point on.
- The half second `close_connection` sleeps is a step (`CloseReturns`) that may
  come before or after the answer; likewise the five seconds of the payload
  timeout (`PayloadMissing`).

## 3. The runs

Deadlock is not checked: an end whose peer is gone, or whose user has stopped
calling, has nothing left to do. That nobody is stuck *before* that is what the
liveness properties say.

| Run | Question | Shows |
|---|---|---|
| `reading` | Does an end read every mix of up to four frames correctly? Seventeen frames: legal ones of each kind and one for each check of the code. One task reads and writes. | The user gets exactly the messages the frames carry (`DeliversWhatWasRead`), the task goes on exactly with allowed conversations (`AcceptsOnlyAllowed`, `BlamesOnlyForbidden`), text is UTF-8, an error is last, the end is explained, buffers are bounded, nothing is read after a Close. |
| `deflate` | The same for compressed messages, whole and in fragments, with and without a window. | `DeliversWhatWasRead` with the decoder's window in step, and no failure to inflate what was compressed for that window (`BlamesOnlyNonsense`). |
| `replies` | Do replies and the user's frames get in each other's way? Two frames of the peer (two Pings that differ, a Close), two calls of one and three frames, a close among them, buffers of one frame. | Every Pong is the right one, in its turn; messages on the wire stay whole; and, with fairness, Pings are answered, calls return, a user that reads learns that the peer has left. |
| `pair` | Do two ends work together? Compression with kept contexts, compressed messages of two frames, two calls of the client and one of the server, pings and a close among them; both may drop either half at any time. | Both directions implement `MessagePipe`; neither end accuses the other; what is sent arrives, calls return, a close ends both streams. |
| `handshake` | Do two ends come to one agreement, and does an end get along with whatever it is connected to? Every pair of 30 settings of the two users; against other programs, four offers, requests and responses that fail each check once, cut off anywhere. | Both have the same settings (`SameAgreement`), within what either has set (`NobodyOverruled`), and coders that fit if the users set both directions alike (`CodersFollow`); the read task finds what the peer wrote behind its head and nothing else (`CleanHandover`); the calls return (`HandshakesEnd`). |
| `server` | Does the user hear of every client, in order? With and without TLS, silent clients, a failing `accept()`, a full channel, a dropped `EventStream`. | The server implements `EventFeed`; whoever connects is heard of (`EveryoneServed`); no task is left waiting or ends before it has told all (`TasksTellAll`). |
| `writer` | What comes out of a stream that two tasks write to, part by part? Both roles, plain and TLS, calls dropped anywhere. | Frames come out whole and in order, up to the first that is torn (`FramesStayWhole`, the implementation of `MessagePipe`); they arrive (`FramesArrive`), on TLS unless the stream holds them back. |
| `marks` | Are only first frames marked compressed? | Violated, see 5. |
| `inflates` | Is no received message larger than the limit? | Violated, see 5. |
| `pings` | Do calls return if both sides ping? | Violated, see 5. |
| `takeover` | Do the coders of both ends fit each other with `client_no_context_takeover`? | Violated, see 5. |
| `half_open` | Does the connection end with the read task? | Violated, see 5. |

### Bounds, and why they are enough

- Frames from the peer (`MaxWritten`): four are a message of three fragments
  with a control frame in it, or a message and a second one of three frames;
  every pair of state of the reader and next frame occurs, and the task carries
  nothing from one message to the next but its decoder's window (`deflate`: two
  compressed messages and what is between them).
- Sizes: frames of at most 2 bytes and messages of at most 3, so that each
  limit has payloads on both sides, and two or three chunks are cut.
  `DeflatedLen` is 2 or 3: one frame, or two.
- Calls (`MaxCalls`, `ClientCalls`, `ServerCalls`): two per user are a message
  that follows another in a window, or a close that follows a message. `pings`
  needs three of either side to fill a buffer of one frame, a mutex and a read
  task.
- Buffers: `TcpCap` 1 or 2 frames and `ChanCap` 1 item (20 in the code) make
  them full and empty within a few steps; nothing in the code depends on their
  size but whether they are full.
- `Threshold` is 1, as `PAYLOAD_SIZE_COMPRESSION_ENABLE` is.
- Settings in `handshake`: both flags absent, false and true; widths absent,
  equal, and different for the two directions; compression off; no extensions;
  a width that panics. The merge looks at one parameter of both ends at a time
  and compares widths, so that every case of it occurs. Two frames of each
  end may follow its head (`MaxFrames`), before the other has read it.
- `server`: two clients and a failing `accept()` are three turns of the loop; a
  client's task runs next to a later turn and next to another client's task.
  Two messages and the other events of a client are more than the two places
  of the channel (`EventCap`, 1000 in the code), so that everyone waits for
  room with everyone.
- `writer`: two frames of each task, with payloads of no, one and two pieces,
  are up to twenty parts; the buffers hold two (`TcpCap`, `TlsCap`), so that
  every part comes to be the one that does not fit.

### Fairness

- Tokio polls a task whose await is ready: weak fairness of the read task and
  of a call in progress (`TaskFairness`).
- `tokio::sync::Mutex` is FIFO: a task that waits for it gets it although the
  other takes it again and again: strong fairness of the two lock steps.
- Calling, dropping and closing are up to the user: no fairness. That the user
  goes on reading, while it has its reader, is an assumption
  (`ReaderFairness`): without it back pressure stops everything, by design.
- `Handshake`: Tokio polls what is ready and its timer fires, so that reading,
  checking and answering are weakly fair. Connecting and the TLS handshake are
  not: nothing bounds them. Nor is anything another program does.
- `Server`: the loop and the tasks go on (weak fairness), and wait in the
  channel's FIFO queue for room (strong fairness of each send). That the user
  goes on reading its `EventStream` while it has it is an assumption. Clients
  need not come, speak or leave; a client that is silent in its TLS handshake
  may stay so for ever.
- `Writer`: a call that runs goes on, and the other end reads (weak fairness);
  calls are begun and dropped as the user likes.
- A peer that has left goes for good, so that a blocked write fails
  (`WF(PeerResets)`). That a peer which stays goes on reading is assumed only
  where a property says so (`PeerGoesOnReading => ...`).

The liveness properties of `Connection` have an escape, `Deaf`: an end whose
read task is over, or whose user has dropped its `WSReader`, stops reading its
socket, and the other end's calls may then block. `half_open` is about exactly
this. `CloseEndsBoth` has a second one: if the closing end calls `send` after
`close_connection`, its read task waits for the mutex with the answer in hand.

The other properties that make exceptions name them, and each exception is a
fact about the code:

- `Stuck` in `EveryoneServed`: a client that is silent in its TLS handshake, for
  which nothing waits with a timeout (`server.rs:39`), or a panic on a window
  size no coder has, keeps the accept loop from all others.
- `MarkedOnlyFirst` in `DeliversWhatWasRead`: a peer that sets RSV1 on
  continuations or control frames has them inflated (`read.rs:279`), and is
  owed no particular message. The large calls of this library are such a peer
  (`marks`).
- `OneLineTooMany` in `CleanHandover`: extensions configured with compression
  off make `extensions.rs:143` end the head with one line break too many.
- `Alike` in `CodersFollow`: where a user sets the two directions differently,
  the run `takeover` shows what happens.
- `HeldBack` in `FramesArrive`: no frame is flushed, so that on TLS a rest may
  stay in the stream's buffer until the next write; the peer's payload timeout
  may end its read task meanwhile (`peer = "failed"`).

## 4. The proofs

Every theorem holds for any sets of frames, messages and settings, any limits,
capacities and numbers of calls, clients and frames, within the assumptions the
modules declare. Each inductive invariant was checked by TLC, as an invariant
of the run of its component, before it was proved.

**An end against any peer** (`AnyPeerProofs`)

| Theorem | Property | Argument |
|---|---|---|
| `TypeCorrect` | `TypeOK` | Inductive as it stands. It includes that the mutex is with the read task exactly while it writes, and with the user only while a call has frames to write. |
| `FragmentsBounded` | `FragmentBound` | Inductive with `TypeOK`: the first fragment is not inflated, so that the frame limit bounds it; later ones are checked together before the task goes on. |
| `ErrorsAreLast` | `ErrorIsLast` | `ErrorInv`: while the task runs there is no error anywhere; once it has ended, the one error is last in the channel, or the channel is empty and it is last with the user. Needed because `ErrorIsLast` alone does not say that the task stops after an error. |
| `TextsAreUtf8` | `TextIsUtf8` | `TextInv`: the same of the task's hand and the channel. |
| `EndsAreExplained` | `EndIsExplained` | `CloseInv`: a Close once read is the last frame, and the task is answering it or done; when it is done, a Close was last or an error is last in the channel or with the user, unless the user has dropped its reader. |
| `CloseEndsReading` | `NothingReadAfterClose` | The same invariant: after a Close `ReadFrame` is disabled. |
| `AcceptsTheAllowed` | `AcceptsOnlyAllowed` | `FramingInv`: while the task goes on, all it has read is allowed, and it has a message in progress exactly if the last data frame read is not final. The second half ties the one record `frag` of the code to a property of the whole history; without it a continuation could not be judged. `FramesAreUnderstood` says for each action of `ReadFrame` what the frame was and what the task has then. |
| `BlamesTheForbidden` | `BlamesOnlyForbidden` | `BlameInv`: an error in the task's hand, in the channel or with the user that accuses the peer is justified by the frames read. It rests on `FramingInv` (a refused frame is forbidden after what was accepted) and on `ErrorInv` (after an error nothing is read that could make it look unjustified). |
| `BlamesTheNonsense` | `BlamesOnlyNonsense` | The other half of `BlameInv`: an error of the decoder means that RSV1 was misplaced or that bytes were compressed for another window. `InflatesOne` and `InflatesAll` say of the two places that inflate, `read_frame` and `poll_messages`, that they do not fail otherwise, from `DecoderInv`. |
| `SendsWellFragmented` | first half of `SendsWhatWasAsked` | `WireInv`: the frames of a call are a chain of fragments; while no write has failed, the next of them is a continuation exactly if the message on the wire is unfinished; and what the read task writes between them are control frames. |
| `DeliversTheRead` | `DeliversWhatWasRead` | `DecoderInv`: what the task has in progress is the bytes of the message begun in the frames read, with its kind, and while all compressed messages so far are meaningful, the decoder's window is the number of them (or of no account). `DeliveredInv`: what is in the task's hand, in the channel and with the user are the messages that end in the frames read, one for one; while the task goes on none is missing. |
| `SendsTheAsked` | `SendsWhatWasAsked` | `SentInv`, with `WireInv`: between two calls the wire carries all the messages of the calls and the encoder's window is the one a reader of the wire expects (`Level`); within a call the bytes of its message on the wire and those still to be written are its code (`Midway`). Hypothesis: no large call has empty data, for it returns `Ok` and writes nothing (section 5). |
| `PongsAnswer` | `PongsAnswerPings` | `PongInv`, with `WireInv`: the wire has as many Pongs as Pings have been read, or one less, and then the task holds the answer to the last Ping. |

`EndpointProofs` holds what does not depend on the peer: what each operator
returns (`DecompressionType`, `ChunksType`, `FragmentsType`, ...), that each
action of the end keeps its types (`EndNextType`), what reading one frame can
lead to (`ReadFrameOutcome`), and that a user who has dropped both halves
closes the socket for good (`ClosedForGood`). `StepCases` reduces the steps of
a connection to the four kinds the user-side invariants can tell apart.

`DeliversTheRead` and `SendsTheAsked` compare what a task does frame by frame
with what `Reassembly` says of the whole sequence. Their lemmas say what one
more frame does to each of its definitions (`EndsAppend`, `FinishedAppend`,
`StartOfAppend`, `JoinedAppend`, `BehindAppend`, `MeaningfulAppend`), and hence
to the messages (`MessagesKept`: those that have ended stay what they are).
Where these definitions concatenate payloads (`FlattenSeq`, a recursive function
of the library) an induction would be due; in its place stands a least
counterexample, from the well-foundedness of the natural numbers
(`FlattenMore`, `FlattenFirst`). `ReadAdvances` and `ChunksJoin` then say that
reading appends to the message in progress what the frame carries, and that the
chunks of a call join to what was cut.

Preparing these proofs corrected the property. The reference used to count
a message in the window although the decoder is reset for each
(`ResetsDecoder`), and said nothing of RSV1 on later frames; for such peers the
old `DeliversWhatWasRead` is false, and the instances had none.

**Two ends** (`ConnectionProofs`, with the lemmas of `CourseProofs`)

| Theorem | Property | Hypotheses |
|---|---|---|
| `TypeCorrect` | `TypeOK` | none |
| `ServerHearsClient` | `ToServerIsPipe` | `CodersFit`, `CallsFit` |
| `ClientHearsServer` | `ToClientIsPipe` | `CodersFit`, `CallsFit` |
| `NobodyAccused` | `NeverAccusePeer` | `CodersFit`, `CallsFit`, `MessagesFit` |

`TypeCorrect` takes the lemmas of one end twice, as `ClientEnd` and
`ServerEnd`, with the variables of each end and the coders it has built. A step
of one end is a step of the outside world for the other; what is left to show
is that what one end writes is a frame the other end can have on its wire, and
that an end which has left does not come back.

The other three rest on the invariant `ToServerCourse` and its mirror image
`ToClientCourse`. A *place* in a stream, `At(n, w, o)`, is the position behind
the first `o` bytes of the `n`-th message a user has said, which was
compressed, if it was, behind `w` others. `Carries(told, resets, p, f, q)` says
that frame `f` is what is due at place `p`, and leads to place `q`: the next
bytes of the message, with the opcode, the RSV1 bit and the FIN bit that belong
there, or a control frame, which leads nowhere. `Leads` extends this to a
sequence of frames, by a function from its indices to places, so that it needs
no recursion over the frames. The invariant says:

- at the writing end (`Outbound`), the frames of the call in progress lead from
  the place its stream has got to, to the place behind everything its user has
  said, unless TCP has reset its connection or it has closed its socket;
- the frames on the wire lead from the place where the reader stands to the
  place where the writer is;
- at the reading end (`Placed`), a reader that is still reading stands between
  two messages with no message in progress, or has in progress exactly the
  first `o` bytes of one, and its decoder's window is the `w` of its place, or
  of no account because the encoder keeps none;
- what its user has received and what the channel holds are the messages up to
  that place, and an error, if there is one, is the last (`Received`);
- the read task has no replies but the two that are due to a Close and to a
  Ping without payload, the ones this library sends (`RepliesPlainly`).

Neither half is inductive without the other: what the reader makes of a frame
depends on where the writer was, and the writer's stream carries the replies of
its own read task, which depend on what the other end writes. `MessageLeads`
and `LargeLeads` are about what a call writes, `BytesRead` and `ControlRead`
about what the reader makes of it, `OutboundStep` and `InboundStep` put either
end together, and `ToServerCarries` says that a frame carries the same for the
end that writes it as for the end that reads it, which needs
`SameExtensions`: both compress, or neither, with the same settings
(`AgreedReadsBack` of `ExtensionProofs`). `Blameless` adds that no error but
`IOError` is anywhere, the loss of the connection: a message that cannot be
inflated is a `DecompressError`, which `NeverAccusePeer` does not admit.

The hypotheses exclude what section 5 shows or notes to fail:

- `CodersFit`: if compression is agreed, a decoder forgets only what the
  encoder at the other end forgets (`takeover` shows what happens otherwise).
  `ContextsKept` proves it for all settings but those in which the server's
  user has set `client_no_context_takeover` and the client's has set it to true.
- `CallsFit`: what is passed to `send_large_data_fragmented` is not empty, for
  then the call returns and sends nothing, and is not compressed (`marks`).
- `MessagesFit`: text is UTF-8, which the type `String` sees to and
  `send_large_data_fragmented` does not; and a message that is compressed is
  within `max_message_size` also in that form.

**The writer, part by part** (`WriterProofs`). `FramesImplemented`: `Writer`
implements `MessagePipe` (`FramesStayWhole`). The invariant `StreamsInv` has

- `LockInv`: the mutex is with the task that has begun a frame, so that at most
  one has;
- `StreamInv`: what the reader has taken of a frame, the socket and the buffer
  of the TLS stream together begin with the parts of all frames that are due
  (written and not read), one after the other; and unless a call was dropped
  inside a frame, what follows and what is still to be written are one frame;
- `TakenInv`: while a frame is due, the reader is inside it and knows its
  length;
- `GotInv`: what has come out are the first of the frames that went in;
- `BufferInv`: only a TLS stream holds anything back, and the socket's buffer
  is not overrun.

`IsCut` gives the ends of the frames in the stream by a function, so that it
needs no recursion over the frames. The lemmas `CutBegins`, `CutGrows`,
`CutGains`, `CutDropped`, `CutTorn` and `CutLoses` say what each kind of step
does to it, for any way of cutting frames in which the second part tells the
length; `WriteAppends` that a part which is written is last in the stream
whatever TLS passes on at the time. `WriterMapsStep` then maps the last part of
a frame to `Send`, the read of the last part to `Receive`, and all else to a
stutter.

**The server** (`ServerProofs`)

| Theorem | Property | Argument |
|---|---|---|
| `TypeCorrect` | `TypeOK` | `TurnInv`: the turns that are over are the accepted connections and the failures of `accept()`, so that an id is always free for the next. |
| `FeedImplemented` | `FeedIsOrderly` | `FeedInv` says of each id that its first event in the channel continues what has been heard of it, that each later one continues the one before, and that its task is exactly behind the last. `EventFeed` follows: hearing the next event of an id is one of its steps, and all else is a stutter. The events of other ids lie between, which is why the invariant speaks of the next event *of this id*. |

**The handshake** (`HandshakeProofs`, with the lemmas of `ExtensionProofs` about
the first index of a line, and about headers that are written and read)

| Theorem | Property | Argument |
|---|---|---|
| `TypeCorrect` | `TypeOK` | With `PlaceInv`: the server's call begins when the connection stands. |
| `HandoverIsClean` | `CleanHandover` | `HandoverInv`: while an end waits, its stream is a part of one head and then the frames written so far; once it is open, the frames are in what its read task finds and in the stream, and no line of the head is. |
| `ServerOverrulesNobody` | `NobodyOverruled` | `OwnInv` for the server against any client, `AgreementInv` for two ends of the library; lemmas about `merge_extensions` say that the merge is within both. |
| `AgreementIsShared` | `SameAgreement` | `AgreementInv`: what the server reads is what the client has set, what the client reads is what the server has agreed to. The lemma behind it, `AgreedReadsBack`, is that parsing the header that was written for an agreement returns it. |
| `DecodersFollow` | `CodersFollow` | From `AgreementInv` and the merge of two settings that are alike in both directions. |
| `SettingsHandedOver` | | From `AgreementInv`: what either end has in `config.extensions` after the handshake is what `Connection` defines as `ServerExtensions` and `ClientExtensions` from the same two settings. The theorems about a connection begin where this one ends. |

**Assumptions.** Those the modules declare, all evaluated by TLC on the runs:
limits and capacities are positive; the calls of users are data messages of
bytes, and a fragment size is positive (`CallsAssumption`, `UsersAssumption`);
`Byte` contains the three special bytes; `None` differs from what it is an
alternative to (`NoneAssumption`, `AbsentAssumption`, `NoErrorAssumption`), as
the `Option` it stands for, and `Unreadable`, the outcome of a decompression
that fails, from every payload (`UnreadableAssumption`); the peer writes
members of `RawFrame`; of the requests and responses another program writes,
each is one head, ended by one empty line (`OneHead`).

**Only model-checked**

- All liveness (`UserLearnsOfLeave`, `PingsGetAnswered`, `CallsReturn`, and those of the other components):
  fairness and `ENABLED` are out of this prover's reach.
- The violations of section 5 are single behaviours, which TLC exhibits.

## 5. What the violations show

- `marks`: `send_large_data_fragmented` calls `write_frames` once per chunk
  (`split.rs:126-143`), so every chunk has RSV1; the comments at
  `split.rs:221-222` and `231-233` say only the first frame has. The library's
  own reader inflates the last chunk by itself, and then the whole again.
- `inflates`: `max_message_size` bounds compressed bytes only
  (`read.rs:86-90`), `config.rs:47-49` says it bounds the message.
- `pings`: the read task stops reading while it waits for the mutex
  (`read.rs:161`). With both users in a blocked write and both read tasks at a
  Pong, both connections stand still.
- `takeover`: the client builds its encoder from the *server's* parameter
  (`handshake.rs:204-220`). With `client_no_context_takeover` the server's
  decoder resets, the client's encoder does not, and the second compressed
  message refers to bytes that the decoder no longer has: it fails
  (`decoder.rs:64-67`), and the server's user gets an `IOError` for a message
  its peer sent well. (`DecompressError` in the trace, to keep it apart from
  the `IOError` of a lost connection, which is no fault of either end.)
- `half_open`: the comments at `read.rs:314-318` and `handshake.rs:127-129` say
  that the connection ends with the read task. The Writer is shared, so it
  stays open, unread, for as long as the user keeps its `WSWriter`.

Noted without a run of their own (the models contain them; the runs exclude
them by name or do not reach them):

- The comment at `split.rs:56-60` says `close_connection` waits until it
  receives the confirmation, inside a timeout; the code sleeps for half a
  second, whether or not an answer comes (`CloseReturns`, `split.rs:65`).
- The comment at `split.rs:149` says payloads above 8KB are compressed, the
  constant is one byte.
- The sender compares a message with `max_message_size` before it is compressed
  (`split.rs:117`, `212`), the receiver its fragments as they come
  (`read.rs:86-90`). A message that compression makes longer may be sent, and
  ends the connection of a peer with the same limit, which `config.rs:47-49`
  describes as one on the payload of a message. With `MaxMessageSize` below
  `DeflatedLen`, TLC finds `NeverAccusePeer` violated in the instance of `pair`.
- The reader accepts RSV1 on continuation and control frames, and inflates them.
- A window of 8 bits, which `error.rs:143` takes for valid, is agreed and
  written into the answer; then building the coders panics. In `server.rs` that
  ends the accept loop (`Panics`, `HandshakePanics`).
- A server's `Some(false)` counts as consent to give up a context:
  `Option::and` looks only at `Some` (`And`; the comment at
  `extensions.rs:42-46` speaks of prioritizing what is default). A server that
  has `server_no_context_takeover` unset does not answer an offer of it.
- A client accepts extensions it has not offered, and other parameters than it
  has offered; the comment at `extensions.rs:81-84` has the server merge what
  both can do.
- The body announced by a Content-Length is never read, since the name is
  looked up in upper case in a map of lower-cased names (`request.rs:116, 122`).
- The client checks neither the status of the answer nor its Upgrade header.
- The comment at `request.rs:86-88` speaks of a timeout for peers that keep
  silent; the TLS handshake before it has none (`server.rs:39`).
- `send_large_data_fragmented` with empty data returns `Ok` and sends nothing,
  while `send_message` sends an empty message (`split.rs:124`, `169-176`).
- A call dropped while it waits for the mutex has moved the encoder's window
  although nothing was sent (`split.rs:158`).

## 6. Not modelled

- The loops of `encoder.rs` and `decoder.rs` over their buffers: what they do
  depends on flate2 and zlib, of which this repository shows only the calls.
  `Frames` has what they amount to, with both outcomes where a stream ends
  early.
- Calls dropped above the Writer, that is between two frames or in front of
  the mutex (the last point of section 5).
- Masking and the three encodings of a length; header lines as text.
- `lib.rs` and the tests; examples, benchmark and Autobahn client, which are
  users of the library.

## 7. What could follow

- A dropped call in `WSWriter`. The encoder's window is then ahead of what was
  sent, and a message may stay cut off between two frames; a connection no
  longer implements `MessagePipe`, and what it promises instead would have to
  be said first (the code and its documents do not).
- The time between agreement and connection: `Handshake` ends with the frames
  its read task finds, `Connection` begins with none on the wire.
  `SettingsHandedOver` and `HandoverIsClean` are the two facts a composition
  of the two modules would rest on.
