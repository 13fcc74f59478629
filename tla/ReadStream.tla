----------------------------- MODULE ReadStream -----------------------------
(***************************************************************************)
(* The read task of one end (read.rs): poll_messages and read_frame, and   *)
(* the task around them that second_stage_handshake spawns                 *)
(* (handshake.rs:130-134).                                                 *)
(*                                                                         *)
(* Reading one frame and dispatching it is one step: between them the task *)
(* touches nothing another task sees.  The awaits that do matter are steps *)
(* of their own: handing an item to the user, taking the Writer's mutex,   *)
(* and writing a reply.  `pc` says which of them the task is at:           *)
(*                                                                         *)
(*    read --> deliver --> read             a complete message             *)
(*    read --> lock --> write --> read      a Ping and its Pong            *)
(*    read --> lock --> write --> done      a Close and its answer         *)
(*    any  --> fail --> done                an error, handed to the user   *)
(*                                                                         *)
(* A definition called Bug_... is the one that follows it with a mistake   *)
(* in it: the runs show that their properties would notice.                *)
(***************************************************************************)
EXTENDS Link

CONSTANT ResetsDecoder   \* Decoder.reset_context

ASSUME DecoderAssumption == ResetsDecoder \in BOOLEAN

VARIABLES
    pc,      \* where the read task is
    hand,    \* the item or reply it is about to pass on
    frag,    \* fragmented_message
    window   \* messages in the window of its decoder

readVars == <<pc, hand, frag, window>>

\* What the task holds at each of these places.
HandTypeOK ==
    \/ pc \in {"read", "done"} /\ hand = None
    \/ pc = "deliver" /\ hand \in Message
    \/ pc = "fail" /\ hand \in Failure
    \/ pc \in {"lock", "write"} /\ hand \in RawFrame

ReadTypeOK ==
    /\ HandTypeOK
    /\ frag \in {None} \cup Fragmented
    /\ window \in Window
    /\ pc = "write" <=> lock = "reader"

ReadInit ==
    /\ pc = "read"
    /\ hand = None
    /\ frag = None
    /\ window = 0

(***************************************************************************)
(* read_frame.                                                             *)
(***************************************************************************)

\* The first check that a header fails, or None.
Bug_FragmentedControl(f) ==
    IF f.op = Reserved THEN "InvalidOpcode"
    ELSE IF f.rsv \/ (f.rsv1 /\ ~Deflate) THEN "RSVNotZero"
    ELSE IF f.long /\ f.op \in Control THEN "ControlFramePayloadSize"
    ELSE IF Len(f.payload) > MaxFrameSize THEN "MaxFrameSize"
    ELSE None
HeaderError(f) ==
    IF f.op = Reserved THEN "InvalidOpcode"
    ELSE IF f.rsv \/ (f.rsv1 /\ ~Deflate) THEN "RSVNotZero"
    ELSE IF ~f.fin /\ f.op \in Control THEN "ControlFramesFragmented"
    ELSE IF f.long /\ f.op \in Control THEN "ControlFramePayloadSize"
    ELSE IF Len(f.payload) > MaxFrameSize THEN "MaxFrameSize"
    ELSE None

\* What a decoder with window w may make of p, and the window it then has.
Bug_ForgetsWindow(p, w) == 0
NextWindow(p, w) ==
    IF ResetsDecoder THEN 0 ELSE IF Readable(p, w) THEN w + 1 ELSE Astray

Decompress(p, w) ==
    {[bytes |-> b, window |-> NextWindow(p, w)] : b \in Decompressions(p, w)}

Verbatim(p) == {[bytes |-> p, window |-> window]}

\* A frame with RSV1 is inflated as soon as it is read if it has FIN.
Bug_InflatesFragments(f) ==
    IF f.rsv1 THEN Decompress(f.payload, window) ELSE Verbatim(f.payload)
Body(f) ==
    IF f.rsv1 /\ f.fin THEN Decompress(f.payload, window)
                       ELSE Verbatim(f.payload)

Fail(e) == pc' = "fail" /\ hand' = Err(e)

Take(f) ==
    /\ pc = "read"
    /\ inbox # <<>>
    /\ f = Head(inbox)
    /\ inbox' = Tail(inbox)

\* read_frame returns f with the payload r.bytes.
Receive(f, r) ==
    /\ Take(f)
    /\ HeaderError(f) = None
    /\ f.whole
    /\ r \in Body(f)
    /\ r.bytes # Unreadable

\* read_frame stops at the header.
RejectHeader(f) ==
    /\ Take(f)
    /\ HeaderError(f) # None
    /\ Fail(HeaderError(f))
    /\ UNCHANGED <<frag, window>>

\* The payload does not arrive: five seconds pass, or the stream ends first.
PayloadMissing(f) ==
    /\ Take(f)
    /\ HeaderError(f) = None
    /\ ~f.whole
    /\ \/ Fail("Timeout")
       \/ peerGone /\ Fail("IOError")
    /\ UNCHANGED <<frag, window>>

\* The payload is not what a decoder can read.
PayloadUnreadable(f) ==
    /\ Take(f)
    /\ HeaderError(f) = None
    /\ f.whole
    /\ \E r \in Body(f) : r.bytes = Unreadable /\ window' = r.window
    /\ Fail("DecompressError")
    /\ UNCHANGED frag

\* The stream ends where a header is expected.
EndOfInput ==
    /\ pc = "read"
    /\ inbox = <<>>
    /\ peerGone
    /\ Fail("IOError")
    /\ UNCHANGED <<inbox, frag, window>>

(***************************************************************************)
(* poll_messages: one action per arm of its match.                         *)
(***************************************************************************)

\* transmit_message, up to the send: text must be UTF-8.
Bug_AnyText(kind, bytes) ==
    pc' = "deliver" /\ hand' = [kind |-> kind, data |-> bytes]
Transmit(kind, bytes) ==
    IF kind = "Text" /\ ~IsUtf8(bytes)
    THEN Fail("FromUtf8Error")
    ELSE pc' = "deliver" /\ hand' = [kind |-> kind, data |-> bytes]

Continues(f) == f.op = "Continue"
Starts(f) == f.op \in Data /\ ~f.fin
Stands(f) == f.op \in Data /\ f.fin

StartMessage(f, r) ==
    /\ Receive(f, r)
    /\ Starts(f)
    /\ frag = None
    /\ frag' = [kind |-> f.op, payload |-> r.bytes, compressed |-> f.rsv1]
    /\ window' = r.window
    /\ UNCHANGED <<pc, hand>>

\* A frame that does not fit the message in progress, or the lack of one.
FramingError(f) ==
    CASE Starts(f) /\ frag # None -> "FragmentedInProgress"
      [] Stands(f) /\ frag # None -> "InvalidFrameFragmentation"
      [] Continues(f) /\ frag = None -> "InvalidContinuationFrame"
      [] OTHER -> None

RefuseFrame(f, r) ==
    /\ Receive(f, r)
    /\ FramingError(f) # None
    /\ Fail(FramingError(f))
    /\ window' = r.window
    /\ UNCHANGED frag

Bug_NoSizeCheck(payload) == FALSE
TooLong(payload) == Len(payload) > MaxMessageSize

\* extend_from_slice.
Bug_Replaces(bytes) == bytes
Grown(bytes) == frag.payload \o bytes

ContinueMessage(f, r) ==
    /\ Receive(f, r)
    /\ Continues(f) /\ frag # None
    /\ TooLong(Grown(r.bytes)) \/ ~f.fin
    /\ frag' = [frag EXCEPT !.payload = Grown(r.bytes)]
    /\ IF TooLong(Grown(r.bytes)) THEN Fail("MaxMessageSize")
                                  ELSE UNCHANGED <<pc, hand>>
    /\ window' = r.window

\* The last fragment: the message is inflated as a whole if its first
\* fragment had RSV1, by the decoder that Receive has left behind.
FinishMessage(f, r) ==
    /\ Receive(f, r)
    /\ Continues(f) /\ frag # None
    /\ f.fin
    /\ ~TooLong(Grown(r.bytes))
    /\ frag' = None
    /\ IF ~frag.compressed
       THEN Transmit(frag.kind, Grown(r.bytes)) /\ window' = r.window
       ELSE \E whole \in Decompress(Grown(r.bytes), r.window) :
              /\ window' = whole.window
              /\ IF whole.bytes = Unreadable THEN Fail("DecompressError")
                 ELSE Transmit(frag.kind, whole.bytes)

WholeMessage(f, r) ==
    /\ Receive(f, r)
    /\ Stands(f) /\ frag = None
    /\ Transmit(f.op, r.bytes)
    /\ window' = r.window
    /\ UNCHANGED frag

\* send_close_frame and send_pong_frame begin by waiting for the mutex.
Reply(frame) == pc' = "lock" /\ hand' = frame

AnswerClose(f, r) ==
    /\ Receive(f, r)
    /\ f.op = "Close"
    /\ Reply(CloseFrame)
    /\ window' = r.window
    /\ UNCHANGED frag

Bug_PingEndsFragments(f, r) ==
    /\ Receive(f, r)
    /\ f.op = "Ping"
    /\ Reply(PongFrame(r.bytes))
    /\ window' = r.window
    /\ frag' = None
Bug_EmptyPong(f, r) ==
    /\ Receive(f, r)
    /\ f.op = "Ping"
    /\ Reply(PongFrame(<<>>))
    /\ window' = r.window
    /\ UNCHANGED frag
AnswerPing(f, r) ==
    /\ Receive(f, r)
    /\ f.op = "Ping"
    /\ Reply(PongFrame(r.bytes))
    /\ window' = r.window
    /\ UNCHANGED frag

IgnorePong(f, r) ==
    /\ Receive(f, r)
    /\ f.op = "Pong"
    /\ window' = r.window
    /\ UNCHANGED <<pc, hand, frag>>

ReadFrame ==
    /\ pc = "read" /\ inbox # <<>>
    /\ LET f == Head(inbox) IN
          \/ RejectHeader(f) \/ PayloadMissing(f) \/ PayloadUnreadable(f)
          \/ \E r \in Body(f) :
                \/ StartMessage(f, r) \/ ContinueMessage(f, r)
                \/ FinishMessage(f, r) \/ WholeMessage(f, r)
                \/ RefuseFrame(f, r) \/ AnswerClose(f, r)
                \/ AnswerPing(f, r) \/ IgnorePong(f, r)
    /\ UNCHANGED <<outbox, lock, chan, rx>>

Disconnected == EndOfInput /\ UNCHANGED <<outbox, lock, chan, rx>>

(***************************************************************************)
(* The awaits.                                                             *)
(***************************************************************************)
Deliver ==
    /\ pc = "deliver"
    /\ Queue(hand)
    /\ pc' = "read" /\ hand' = None
    /\ UNCHANGED <<inbox, outbox, lock, rx, frag, window>>

\* The user has dropped its WSReader.
DeliverRefused ==
    /\ pc = "deliver"
    /\ rx = "dropped"
    /\ Fail("CommunicationError")
    /\ UNCHANGED <<inbox, outbox, lock, chan, rx, frag, window>>

Bug_NoLock ==
    /\ pc = "lock"
    /\ pc' = "write"
    /\ UNCHANGED <<inbox, outbox, lock, chan, rx, hand, frag, window>>
LockForReply ==
    /\ pc = "lock"
    /\ Acquire("reader")
    /\ pc' = "write"
    /\ UNCHANGED <<inbox, outbox, chan, rx, hand, frag, window>>

Bug_StopsAfterPong(frame) == "done"
Bug_ReadsOn(frame) == "read"
AfterReply(frame) == IF frame.op = "Close" THEN "done" ELSE "read"

Bug_KeepsLock ==
    /\ pc = "write"
    /\ Written(hand)
    /\ pc' = AfterReply(hand) /\ hand' = None
    /\ UNCHANGED <<inbox, lock, chan, rx, frag, window>>
WriteReply ==
    /\ pc = "write"
    /\ Written(hand)
    /\ pc' = AfterReply(hand) /\ hand' = None
    /\ lock' = "free"
    /\ UNCHANGED <<inbox, chan, rx, frag, window>>

ReplyFails ==
    /\ pc = "write"
    /\ WriteFails
    /\ Fail("IOError")
    /\ lock' = "free"
    /\ UNCHANGED <<inbox, chan, rx, frag, window>>

\* The task's last act: the error goes to the user, if there is still one.
Bug_ReadsOnAfterFailure ==
    /\ pc = "fail"
    /\ \/ Queue(hand)
       \/ rx = "dropped" /\ UNCHANGED chan
    /\ pc' = "read" /\ hand' = None
    /\ UNCHANGED <<inbox, outbox, lock, rx, frag, window>>
ReportFailure ==
    /\ pc = "fail"
    /\ \/ Queue(hand)
       \/ rx = "dropped" /\ UNCHANGED chan
    /\ pc' = "done" /\ hand' = None
    /\ UNCHANGED <<inbox, outbox, lock, rx, frag, window>>

ReadTask ==
    \/ ReadFrame \/ Disconnected
    \/ Deliver \/ DeliverRefused
    \/ LockForReply \/ WriteReply \/ ReplyFails
    \/ ReportFailure
=============================================================================
