------------------------------ MODULE WSWriter ------------------------------
(***************************************************************************)
(* The writing half a user holds (split.rs), on top of the shared Writer.  *)
(* A call turns its data into frames, and writes them one by one, taking   *)
(* the mutex for each of them: replies of the read task can come between.  *)
(*                                                                         *)
(* MaxCalls bounds the model: a user of the code may call without end.     *)
(* Bug_... definitions are mutated forms, as in ReadStream.                *)
(***************************************************************************)
EXTENDS Link

CONSTANTS
    ResetsEncoder,    \* Encoder.reset_context
    Threshold,        \* PAYLOAD_SIZE_COMPRESSION_ENABLE
    Messages,         \* what the user may send with send_message and the like
    LargeCalls,       \* what it may pass to send_large_data_fragmented
    Uses,             \* which of "ping" and "close" it calls
    MaxCalls

ASSUME CallsAssumption ==
    /\ ResetsEncoder \in BOOLEAN
    /\ Threshold \in Nat
    /\ Messages \subseteq [kind : Data, data : Seq(Byte)]
    /\ LargeCalls \subseteq [data : Seq(Byte), size : Nat \ {0}]
    /\ Uses \subseteq {"ping", "close"}
    /\ MaxCalls \in Nat

VARIABLES
    call,      \* the call in progress
    todo,      \* the frames it has still to write
    handle,    \* the WSWriter itself: "held" or "dropped"
    encoded,   \* messages in the window of its encoder
    calls,     \* calls made so far
    sent       \* history: the messages the calls were given

writeVars == <<call, todo, handle, encoded, calls, sent>>

WriteTypeOK ==
    /\ call \in {"idle", "send", "close", "sleep"}
    /\ todo \in Seq(RawFrame)
    /\ todo = <<>> <=> call \in {"idle", "sleep"}
    /\ handle \in {"held", "dropped"}
    /\ handle = "dropped" => call = "idle"
    /\ encoded \in Nat
    /\ calls \in 0..MaxCalls
    /\ sent \in Seq(Message)
    /\ lock = "user" => todo # <<>>

WriteInit ==
    /\ call = "idle"
    /\ todo = <<>>
    /\ handle = "held"
    /\ encoded = 0
    /\ calls = 0
    /\ sent = <<>>

(***************************************************************************)
(* Turning data into frames.                                               *)
(***************************************************************************)

\* check_compression.
Compresses(data) == Deflate /\ Len(data) > Threshold

Encoded(data) == IF Compresses(data) THEN Deflated(data, encoded) ELSE data

\* slice::chunks.
Chunks(p, size) ==
    [i \in 1..((Len(p) + size - 1) \div size) |->
        SubSeq(p, (i - 1) * size + 1,
                  IF i * size < Len(p) THEN i * size ELSE Len(p))]

\* The chunks of a message as frames; those in `marked` have RSV1.
Bug_RepeatsOpcode(op, chunks, marked) ==
    [i \in 1..Len(chunks) |->
        WireFrame(i = Len(chunks), op, i \in marked, chunks[i])]
Fragments(op, chunks, marked) ==
    [i \in 1..Len(chunks) |->
        WireFrame(i = Len(chunks), IF i = 1 THEN op ELSE "Continue",
                  i \in marked, chunks[i])]

\* convert_to_frames and write_frames.
MessageFrames(m) ==
    IF m.data = <<>> THEN <<WireFrame(TRUE, m.kind, FALSE, <<>>)>>
    ELSE Fragments(m.kind, Chunks(Encoded(m.data), MaxFrameSize),
                   IF Compresses(m.data) THEN {1} ELSE {})

\* send_large_data_fragmented calls write_frames once for every chunk.
LargeFrames(data, size) ==
    LET chunks == Chunks(Encoded(data), size)
    IN Fragments("Text", chunks,
                 IF Compresses(data) THEN 1..Len(chunks) ELSE {})

(***************************************************************************)
(* The calls.  One that is refused for its size (MaxMessageSize,           *)
(* CustomFragmentSizeExceeded, invalid UTF-8) returns an error and changes *)
(* nothing: it is no step here.                                            *)
(***************************************************************************)
Calls ==
    /\ call = "idle"
    /\ handle = "held"
    /\ calls < MaxCalls
    /\ calls' = calls + 1
    /\ UNCHANGED <<inbox, outbox, lock, chan, rx, handle>>

Encodes(data) ==
    encoded' = IF Compresses(data) /\ ~ResetsEncoder THEN encoded + 1
               ELSE encoded

SizeAllowed(data) == Len(data) <= MaxMessageSize

SendMessage ==
    \E m \in Messages :
        /\ Calls
        /\ SizeAllowed(m.data)
        /\ call' = "send" /\ todo' = MessageFrames(m)
        /\ Encodes(m.data)
        /\ sent' = Append(sent, m)

\* Empty data has no chunks: the call returns at once.
SendLarge ==
    \E c \in LargeCalls :
        /\ Calls
        /\ c.size <= MaxFrameSize
        /\ SizeAllowed(c.data)
        /\ todo' = LargeFrames(c.data, c.size)
        /\ call' = IF c.data = <<>> THEN "idle" ELSE "send"
        /\ Encodes(c.data)
        /\ sent' = Append(sent, [kind |-> "Text", data |-> c.data])

SendPing ==
    /\ "ping" \in Uses
    /\ Calls
    /\ call' = "send" /\ todo' = <<PingFrame>>
    /\ UNCHANGED <<encoded, sent>>

CloseConnection ==
    /\ "close" \in Uses
    /\ Calls
    /\ call' = "close" /\ todo' = <<CloseFrame>>
    /\ UNCHANGED <<encoded, sent>>

LockForFrame ==
    /\ todo # <<>>
    /\ Acquire("user")
    /\ UNCHANGED <<inbox, outbox, chan, rx>>
    /\ UNCHANGED writeVars

\* close_connection sleeps for half a second after its frame.
AfterFrames == IF call = "close" THEN "sleep" ELSE "idle"

Bug_ClosesLocked ==
    /\ lock = "user" /\ todo # <<>>
    /\ Written(Head(todo))
    /\ lock' = IF call = "close" THEN lock ELSE "free"
    /\ todo' = Tail(todo)
    /\ call' = IF Tail(todo) = <<>> THEN AfterFrames ELSE call
    /\ UNCHANGED <<inbox, chan, rx, handle, encoded, calls, sent>>
WriteFrame ==
    /\ lock = "user"
    /\ Written(Head(todo))
    /\ lock' = "free"
    /\ todo' = Tail(todo)
    /\ call' = IF Tail(todo) = <<>> THEN AfterFrames ELSE call
    /\ UNCHANGED <<inbox, chan, rx, handle, encoded, calls, sent>>

\* The call returns the error and forgets its other frames.
Bug_FailsLocked ==
    /\ lock = "user"
    /\ WriteFails
    /\ todo' = <<>> /\ call' = "idle"
    /\ UNCHANGED <<inbox, lock, chan, rx, handle, encoded, calls, sent>>
FrameFails ==
    /\ lock = "user"
    /\ WriteFails
    /\ lock' = "free"
    /\ todo' = <<>> /\ call' = "idle"
    /\ UNCHANGED <<inbox, chan, rx, handle, encoded, calls, sent>>

CloseReturns ==
    /\ call = "sleep"
    /\ call' = "idle"
    /\ UNCHANGED <<inbox, outbox, lock, chan, rx>>
    /\ UNCHANGED <<todo, handle, encoded, calls, sent>>

DropWriter ==
    /\ call = "idle" /\ handle = "held"
    /\ handle' = "dropped"
    /\ UNCHANGED <<inbox, outbox, lock, chan, rx>>
    /\ UNCHANGED <<call, todo, encoded, calls, sent>>

Call == SendMessage \/ SendLarge \/ SendPing \/ CloseConnection
WriteTask == LockForFrame \/ WriteFrame \/ FrameFails \/ CloseReturns
=============================================================================
