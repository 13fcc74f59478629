------------------------- MODULE AnyPeerProperties -------------------------
(***************************************************************************)
(* What one end promises its user and its peer, whatever the peer does,    *)
(* as far as it takes the meaning that Reassembly gives to sequences of    *)
(* frames to say it, and what it brings about in the end.                  *)
(***************************************************************************)
EXTENDS AnyPeer, Reassembly

(***************************************************************************)
(* Towards the user.                                                       *)
(***************************************************************************)
\* What a user has received but for the error, which is its last item if
\* there is one.
MessagesIn(items) ==
    IF items # <<>> /\ IsErr(items[Len(items)])
    THEN SubSeq(items, 1, Len(items) - 1)
    ELSE items

\* The message a frame sequence carries: bytes that mean nothing may come
\* out as anything.
Carries(wanted, given) ==
    /\ given.kind = wanted.kind
    /\ wanted.data # Unreadable => given.data = wanted.data

\* The user receives the messages that the frames read so far carry, whole,
\* in order and without repetition: nothing is lost between two fragments,
\* across control frames or in the channel (read.rs:56-157, 300-311).  A
\* peer that sets RSV1 elsewhere than RFC 7692 lets it is owed nothing.
DeliversWhatWasRead ==
    rx # "dropped" /\ MarkedOnlyFirst(taken) =>
        LET given == MessagesIn(Stream)
        IN /\ Len(given) <= Finished(taken, Len(taken))
           /\ \A e \in Ends(taken) :
                 Finished(taken, e) <= Len(given) =>
                     Carries(MessageAt(taken, e, ~ResetsDecoder),
                             given[Finished(taken, e)])
           /\ pc \in {"read", "deliver", "lock", "write"} =>
                 Len(given) = Finished(taken, Len(taken))

HeaderAllowed(f) ==
    /\ f.op \in OpCode
    /\ ~f.rsv /\ (f.rsv1 => Deflate)
    /\ f.op \in Control => f.fin /\ ~f.long
    /\ Len(f.payload) <= MaxFrameSize

Allowed(fs) == WellFragmented(fs) /\ \A i \in 1..Len(fs) : HeaderAllowed(fs[i])

\* A read task goes on only while all it has read is a well-formed
\* conversation (read.rs:64-132, 178-235).
AcceptsOnlyAllowed == pc \notin {"fail", "done"} => Allowed(taken)

ProtocolError ==
    {"InvalidOpcode", "RSVNotZero", "ControlFramesFragmented",
     "ControlFramePayloadSize", "MaxFrameSize", "FragmentedInProgress",
     "InvalidContinuationFrame", "InvalidFrameFragmentation"}

\* ... and it blames the peer's protocol only for a conversation that is
\* not: fragments with control frames between them are no error.
BlamesOnlyForbidden ==
    \A i \in 1..Len(Stream) :
        IsErr(Stream[i]) /\ Stream[i].error \in ProtocolError
            => ~Allowed(taken)

\* A message that cannot be inflated is the peer's doing too: the windows of
\* both ends stay together over fragments, over messages that are not
\* compressed and over control frames, as long as RSV1 is only where RFC 7692
\* has it and the bytes are an encoder's (decoder.rs:33-80, read.rs:98-104,
\* 279-282).
BlamesOnlyNonsense ==
    MarkedOnlyFirst(taken) /\ Meaningful(taken, Len(taken), ~ResetsDecoder) =>
        \A i \in 1..Len(Stream) :
            ~(IsErr(Stream[i]) /\ Stream[i].error = "DecompressError")

(***************************************************************************)
(* Towards the peer.                                                       *)
(***************************************************************************)
OnWire == heard \o outbox

Pings == CountOf(taken, "Ping", Len(taken))
Pongs == CountOf(OnWire, "Pong", Len(OnWire))

\* The payload answers the n-th Ping of fs: it is the same, if that is what
\* has been read (a Ping with RSV1 is inflated).
Answers(payload, fs, n) ==
    \A j \in 1..Len(fs) :
        fs[j].op = "Ping" /\ ~fs[j].rsv1 /\ CountOf(fs, "Ping", j) = n
            => payload = fs[j].payload

AllAnswer(ws, fs) ==
    \A i \in 1..Len(ws) :
        ws[i].op = "Pong" =>
            Answers(ws[i].payload, fs, CountOf(ws, "Pong", i))

\* The n-th Pong answers the n-th Ping, with its payload, while the user
\* writes frames of its own (read.rs:144-146, 159-166).  The task owes at
\* most the Pong it is about to write or has failed to write.
PongsAnswerPings ==
    /\ AllAnswer(OnWire, taken)
    /\ Pongs \in {Pings, Pings - 1}
    /\ Pongs < Pings => pc \in {"lock", "write", "fail", "done"}

\* The data frames of an end form well-fragmented messages, in the order of
\* the calls, although the mutex is given up after every frame and replies
\* come between (split.rs:220-237).
SendsWhatWasAsked ==
    /\ WellFragmented(OnWire)
    /\ Finished(OnWire, Len(OnWire)) <= Len(sent)
    /\ \A e \in Ends(OnWire) :
          MessageAt(OnWire, e, ~ResetsEncoder) = sent[Finished(OnWire, e)]
    /\ call = "idle" /\ ~peerGone =>
          Finished(OnWire, Len(OnWire)) = Len(sent)

\* Whatever is compressed, RSV1 marks first frames only: "we only need to
\* set RSV1 bit for the first frame" (split.rs:221-222, 231-233).
MarksFirstOnly == MarkedOnlyFirst(OnWire)

\* No message the user receives is larger than "the maximum payload size a
\* message can have" (config.rs:47-50).
WithinMessageSize ==
    \A i \in 1..Len(got) : ~IsErr(got[i]) => Len(got[i].data) <= MaxMessageSize

(***************************************************************************)
(* Liveness.                                                               *)
(***************************************************************************)

\* A user that goes on reading learns that the peer is gone, even if the
\* task is writing to it or waiting for the mutex just then.
UserLearnsOfLeave == peerGone ~> rx # "open"

Owed == Pings - Pongs

\* A peer that goes on reading gets its Pong, or the end of the connection,
\* although the user competes for the mutex (read.rs:159-166).
PingsGetAnswered ==
    PeerGoesOnReading => (Owed > 0 ~> (Owed = 0 \/ pc = "done"))

\* A call of the user ends, whatever the reader does with the mutex, if the
\* peer goes on reading or leaves.
CallsReturn == PeerGoesOnReading => (call # "idle" ~> call = "idle")
=============================================================================
