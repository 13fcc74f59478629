--------------------------- MODULE EndpointProofs ---------------------------
(***************************************************************************)
(* What every step of one end preserves, whatever is at the other end:     *)
(* first the types of what its operators return, then those of its state.  *)
(***************************************************************************)
EXTENDS Endpoint, SequenceTheorems, TLAPS

(***************************************************************************)
(* Payloads and frames.                                                    *)
(***************************************************************************)

\* Plain bytes are a payload.
LEMMA BytesArePayloads == Seq(Byte) \subseteq Payload
  BY SeqMonotonic, Byte \subseteq Unit DEF Payload, Unit

\* The compressed form of a message is a payload, and is not empty.
LEMMA DeflatedType ==
  ASSUME NEW p \in Seq(Byte), NEW w \in Nat
  PROVE  /\ Deflated(p, w) \in Payload
         /\ Deflated(p, w) # <<>>
<1>1. DeflatedLen \in Nat \ {0}
  BY SizeAssumption
<1>2. \A i \in 1..DeflatedLen : [of |-> p, at |-> i, window |-> w] \in Unit
  BY DEF DeflateUnit, Unit
<1>3. Deflated(p, w) \in Seq(Unit)
  BY <1>1, <1>2 DEF Deflated
<1>4. DOMAIN Deflated(p, w) = 1..DeflatedLen
  BY DEF Deflated
<1>5. Len(Deflated(p, w)) = DeflatedLen
  BY <1>1, <1>3, <1>4, LenProperties
<1> QED
  BY <1>1, <1>3, <1>5, EmptySeq DEF Payload

\* A decompression that does not fail returns plain bytes (decoder.rs:33-80).
LEMMA DecompressionType ==
  ASSUME NEW p \in Payload, NEW w \in Window,
         NEW b \in Decompressions(p, w), b # Unreadable
  PROVE  b \in Seq(Byte)
<1>1. ASSUME IsDeflated(p) PROVE p[1].of \in Seq(Byte)
  BY <1>1 DEF IsDeflated, DeflateUnit
<1>2. <<Junk>> \in Seq(Byte)
  BY ByteAssumption
<1>3. <<>> \in Seq(Byte)
  OBVIOUS
<1>4. b \in {<<>>, <<Junk>>} \/ (IsDeflated(p) /\ b = p[1].of)
  BY DEF Decompressions, Misreadings, Readable
<1> QED
  BY <1>1, <1>2, <1>3, <1>4

\* ... and leaves the decoder with a window.
LEMMA NextWindowType ==
  ASSUME NEW p \in Payload, NEW w \in Window
  PROVE  NextWindow(p, w) \in Window
<1>1. Readable(p, w) => w \in Nat
  BY DEF Readable, Window
<1> QED
  BY <1>1 DEF NextWindow, Window

\* What read_frame returns is a payload (read.rs:272-290).
LEMMA BodyType ==
  ASSUME NEW f \in RawFrame, window \in Window, NEW r \in Body(f)
  PROVE  /\ r.window \in Window
         /\ r.bytes # Unreadable => r.bytes \in Payload
<1>1. f.payload \in Payload
  BY DEF RawFrame
<1>2. CASE r \in Verbatim(f.payload)
  BY <1>1, <1>2 DEF Verbatim
<1>3. CASE r \in Decompress(f.payload, window)
  BY <1>1, <1>3, DecompressionType, NextWindowType, BytesArePayloads
  DEF Decompress
<1> QED
  BY <1>2, <1>3 DEF Body

LEMMA WireFrameType ==
  ASSUME NEW fin \in BOOLEAN, NEW op \in OpCode, NEW rsv1 \in BOOLEAN,
         NEW payload \in Payload
  PROVE  WireFrame(fin, op, rsv1, payload) \in RawFrame
<1>1. Len(payload) \in Nat
  BY LenProperties DEF Payload
<1>2. (Len(payload) > ShortMax) \in BOOLEAN
  BY <1>1, SizeAssumption
<1> QED
  BY <1>2 DEF WireFrame, RawFrame

LEMMA EmptyPayload == <<>> \in Payload
  BY EmptySeq DEF Payload

LEMMA ControlFrameTypes ==
  /\ CloseFrame \in RawFrame
  /\ PingFrame \in RawFrame
  /\ \A p \in Payload : PongFrame(p) \in RawFrame
<1>1. {"Close", "Ping", "Pong"} \subseteq OpCode
  BY DEF OpCode, Control
<1> QED
  BY <1>1, EmptyPayload, WireFrameType DEF CloseFrame, PingFrame, PongFrame

(***************************************************************************)
(* Messages as frames.                                                     *)
(***************************************************************************)

\* Rounding up: only nothing is cut into no chunks.
LEMMA ChunkCount ==
  ASSUME NEW n \in Nat, NEW size \in Nat \ {0}
  PROVE  /\ (n + size - 1) \div size \in Nat
         /\ (n + size - 1) \div size = 0 <=> n = 0
         /\ \A i \in 1..((n + size - 1) \div size) : (i - 1) * size < n
OBVIOUS

\* A payload is cut into payloads, none of them longer than asked for.
LEMMA ChunksType ==
  ASSUME NEW p \in Payload, NEW size \in Nat \ {0}
  PROVE  /\ Chunks(p, size) \in Seq(Payload)
         /\ Chunks(p, size) = <<>> <=> p = <<>>
         /\ \A i \in 1..Len(Chunks(p, size)) :
               Len(Chunks(p, size)[i]) \in 1..size
<1> DEFINE count == (Len(p) + size - 1) \div size
<1> DEFINE from(i) == (i - 1) * size + 1
<1> DEFINE to(i) == IF i * size < Len(p) THEN i * size ELSE Len(p)
<1>1. /\ p \in Seq(Unit)
      /\ Len(p) \in Nat
      /\ p \in [1..Len(p) -> Unit]
  BY LenProperties DEF Payload
<1>2. /\ count \in Nat
      /\ count = 0 <=> Len(p) = 0
      /\ \A i \in 1..count : (i - 1) * size < Len(p)
  BY <1>1, ChunkCount
<1> HIDE DEF count
<1>3. ASSUME NEW i \in 1..count
      PROVE  /\ from(i) \in Nat \ {0}
             /\ to(i) \in from(i)..Len(p)
             /\ to(i) - from(i) + 1 \in 1..size
  <2>1. i \in Nat \ {0} /\ (i - 1) * size < Len(p)
    BY <1>2
  <2>2. /\ (i - 1) * size \in Nat
        /\ i * size = (i - 1) * size + size
    BY <2>1
  <2> QED
    BY <1>1, <2>1, <2>2
<1>4. ASSUME NEW i \in 1..count
      PROVE  /\ SubSeq(p, from(i), to(i)) \in Seq(Unit)
             /\ Len(SubSeq(p, from(i), to(i))) \in 1..size
  <2>1. \A j \in from(i)..to(i) : p[j] \in Unit
    BY <1>1, <1>3
  <2> QED
    BY <1>1, <1>3, <2>1, SubSeqProperties
<1>5. Chunks(p, size) = [i \in 1..count |-> SubSeq(p, from(i), to(i))]
  BY DEF Chunks, count
<1> HIDE DEF from, to
<1>6. /\ Chunks(p, size) \in Seq(Payload)
      /\ Len(Chunks(p, size)) = count
  BY <1>2, <1>4, <1>5 DEF Payload
<1> QED
  BY <1>1, <1>2, <1>4, <1>5, <1>6, EmptySeq DEF Payload

LEMMA FragmentsType ==
  ASSUME NEW op \in Data, NEW chunks \in Seq(Payload), NEW marked
  PROVE  /\ Fragments(op, chunks, marked) \in Seq(RawFrame)
         /\ Fragments(op, chunks, marked) = <<>> <=> chunks = <<>>
<1> DEFINE frame(i) == WireFrame(i = Len(chunks),
                                 IF i = 1 THEN op ELSE "Continue",
                                 i \in marked, chunks[i])
<1>1. Len(chunks) \in Nat /\ chunks \in [1..Len(chunks) -> Payload]
  BY LenProperties
<1>2. ASSUME NEW i \in 1..Len(chunks)
      PROVE  frame(i) \in RawFrame
  <2>1. (IF i = 1 THEN op ELSE "Continue") \in OpCode
    BY DEF OpCode
  <2>2. chunks[i] \in Payload
    BY <1>1
  <2>3. (i = Len(chunks)) \in BOOLEAN /\ (i \in marked) \in BOOLEAN
    BY SMT
  <2> QED
    BY <2>1, <2>2, <2>3, WireFrameType, Zenon
<1>3. Fragments(op, chunks, marked) = [i \in 1..Len(chunks) |-> frame(i)]
  BY DEF Fragments
<1> HIDE DEF frame
<1>4. /\ Fragments(op, chunks, marked) \in Seq(RawFrame)
      /\ Len(Fragments(op, chunks, marked)) = Len(chunks)
  BY <1>1, <1>2, <1>3
<1> QED
  BY <1>1, <1>4, EmptySeq

\* check_compression leaves nothing empty that was not (split.rs:147-163).
LEMMA EncodedType ==
  ASSUME NEW data \in Seq(Byte), encoded \in Nat
  PROVE  /\ Encoded(data) \in Payload
         /\ Encoded(data) = <<>> <=> data = <<>>
<1>1. Compresses(data) => data # <<>>
  BY CallsAssumption, EmptySeq DEF Compresses
<1> QED
  BY <1>1, DeflatedType, BytesArePayloads DEF Encoded

LEMMA OneElementSeq ==
  ASSUME NEW S, NEW x \in S
  PROVE  <<x>> \in Seq(S) /\ <<x>> # <<>>
OBVIOUS

LEMMA MessageFramesType ==
  ASSUME NEW m \in Messages, encoded \in Nat
  PROVE  /\ MessageFrames(m) \in Seq(RawFrame)
         /\ MessageFrames(m) # <<>>
<1>1. m.kind \in Data /\ m.data \in Seq(Byte) /\ m.kind \in OpCode
  BY CallsAssumption DEF OpCode
<1>2. CASE m.data = <<>>
  <2>1. WireFrame(TRUE, m.kind, FALSE, <<>>) \in RawFrame
    BY <1>1, EmptyPayload, WireFrameType, Zenon
  <2>2. MessageFrames(m) = <<WireFrame(TRUE, m.kind, FALSE, <<>>)>>
    BY <1>2 DEF MessageFrames
  <2> QED
    BY <2>1, <2>2, OneElementSeq, Zenon
<1>3. CASE m.data # <<>>
  BY <1>1, <1>3, EncodedType, ChunksType, FragmentsType, ConfigAssumption
  DEF MessageFrames
<1> QED
  BY <1>2, <1>3

LEMMA LargeFramesType ==
  ASSUME NEW data \in Seq(Byte), NEW size \in Nat \ {0}, encoded \in Nat
  PROVE  /\ LargeFrames(data, size) \in Seq(RawFrame)
         /\ LargeFrames(data, size) = <<>> <=> data = <<>>
<1>1. "Text" \in Data
  BY DEF Data
<1> QED
  BY <1>1, EncodedType, ChunksType, FragmentsType DEF LargeFrames

(***************************************************************************)
(* The read task.                                                          *)
(***************************************************************************)

LEMMA TakeType ==
  ASSUME LinkTypeOK, NEW f, Take(f)
  PROVE  f \in RawFrame /\ inbox' \in Seq(RawFrame)
BY HeadTailProperties DEF LinkTypeOK, Take

LEMMA HeaderErrorType ==
  ASSUME NEW f
  PROVE  HeaderError(f) \in Error \cup {None}
BY DEF HeaderError, Error

LEMMA FramingErrorType ==
  ASSUME NEW f
  PROVE  FramingError(f) \in Error \cup {None}
BY DEF FramingError, Error

\* Every error leads to the state in which the task reports it.
LEMMA FailType ==
  ASSUME NEW e \in Error, Fail(e)
  PROVE  pc' = "fail" /\ hand' \in Failure
BY DEF Fail, Err, Failure

LEMMA TransmitType ==
  ASSUME NEW kind \in Data, NEW bytes \in Payload, Transmit(kind, bytes)
  PROVE  \/ pc' = "fail" /\ hand' \in Failure
         \/ pc' = "deliver" /\ hand' \in Message
<1>1. "FromUtf8Error" \in Error
  BY DEF Error
<1> QED
  BY <1>1, FailType DEF Transmit, Message

\* One iteration of poll_messages leaves the task in a place that fits what
\* it holds, and everything it keeps well typed (read.rs:56-157).
LEMMA ReadFrameType ==
  ASSUME LinkTypeOK, ReadTypeOK, ReadFrame
  PROVE  /\ inbox' \in Seq(RawFrame)
         /\ HandTypeOK'
         /\ pc' # "write"
         /\ frag' \in {None} \cup Fragmented
         /\ window' \in Window
<1> DEFINE f == Head(inbox)
<1> DEFINE Goal == /\ HandTypeOK'
                   /\ pc' # "write"
                   /\ frag' \in {None} \cup Fragmented
                   /\ window' \in Window
<1>1. /\ f \in RawFrame
      /\ inbox' \in Seq(RawFrame)
      /\ f.payload \in Payload
      /\ f.rsv1 \in BOOLEAN
  <2>1. Take(f)
    BY DEF ReadFrame, RejectHeader, PayloadMissing, PayloadUnreadable,
      StartMessage, ContinueMessage, FinishMessage, WholeMessage, RefuseFrame,
      AnswerClose, AnswerPing, IgnorePong, Receive
  <2>2. f \in RawFrame /\ inbox' \in Seq(RawFrame)
    BY <2>1, TakeType
  <2> QED
    BY <2>2 DEF RawFrame
<1>2. /\ frag \in {None} \cup Fragmented
      /\ window \in Window
  BY DEF ReadTypeOK
<1> HIDE DEF f
<1>3. ASSUME RejectHeader(f) PROVE Goal
  <2>1. HeaderError(f) \in Error /\ Fail(HeaderError(f))
    BY <1>3, HeaderErrorType DEF RejectHeader
  <2> QED
    BY <1>2, <1>3, <2>1, FailType DEF RejectHeader, HandTypeOK
<1>4. ASSUME PayloadMissing(f) PROVE Goal
  <2>1. {"Timeout", "IOError"} \subseteq Error
    BY DEF Error
  <2> QED
    BY <1>2, <1>4, <2>1, FailType DEF PayloadMissing, HandTypeOK
<1>5. ASSUME PayloadUnreadable(f) PROVE Goal
  <2>1. "DecompressError" \in Error
    BY DEF Error
  <2>2. window' \in Window
    BY <1>1, <1>2, <1>5, BodyType DEF PayloadUnreadable
  <2> QED
    BY <1>2, <1>5, <2>1, <2>2, FailType DEF PayloadUnreadable, HandTypeOK
<1>6. ASSUME NEW r \in Body(f), Receive(f, r)
      PROVE  /\ pc = "read"
             /\ r.bytes \in Payload
             /\ r.window \in Window
  BY <1>1, <1>2, <1>6, BodyType DEF Receive, Take
<1>7. ASSUME NEW r \in Body(f), StartMessage(f, r) PROVE Goal
  <2>1. r.bytes \in Payload /\ r.window \in Window /\ pc = "read"
    BY <1>6, <1>7 DEF StartMessage
  <2>2. frag' \in Fragmented
    BY <1>1, <1>7, <2>1 DEF StartMessage, Starts, Fragmented
  <2> QED
    BY <1>7, <2>1, <2>2 DEF StartMessage, HandTypeOK, ReadTypeOK
<1>8. ASSUME NEW r \in Body(f), Continues(f), frag # None, Receive(f, r)
      PROVE  /\ frag \in Fragmented
             /\ frag.kind \in Data
             /\ Grown(r.bytes) \in Payload
  <2>1. frag \in Fragmented /\ frag.payload \in Seq(Unit)
    BY <1>2, <1>8 DEF Fragmented, Payload
  <2>2. r.bytes \in Seq(Unit)
    BY <1>6, <1>8 DEF Payload
  <2> QED
    BY <2>1, <2>2, ConcatProperties DEF Grown, Fragmented, Payload
<1>9. ASSUME NEW r \in Body(f), ContinueMessage(f, r) PROVE Goal
  <2>1. r.window \in Window /\ pc = "read"
    BY <1>6, <1>9 DEF ContinueMessage
  <2>2. frag' \in Fragmented
    BY <1>8, <1>9 DEF ContinueMessage, Fragmented
  <2>3. "MaxMessageSize" \in Error
    BY DEF Error
  <2>4. HandTypeOK' /\ pc' # "write"
    BY <1>9, <2>1, <2>3, FailType
    DEF ContinueMessage, HandTypeOK, ReadTypeOK
  <2> QED
    BY <1>9, <2>1, <2>2, <2>4 DEF ContinueMessage
<1>10. ASSUME NEW r \in Body(f), FinishMessage(f, r) PROVE Goal
  <2>1. /\ r.window \in Window
        /\ frag.kind \in Data
        /\ Grown(r.bytes) \in Payload
        /\ frag' = None
    BY <1>6, <1>8, <1>10 DEF FinishMessage
  <2>2. CASE ~frag.compressed
    BY <1>10, <2>1, <2>2, TransmitType DEF FinishMessage, HandTypeOK
  <2>3. CASE frag.compressed
    <3>1. PICK whole \in Decompress(Grown(r.bytes), r.window) :
            /\ window' = whole.window
            /\ IF whole.bytes = Unreadable THEN Fail("DecompressError")
               ELSE Transmit(frag.kind, whole.bytes)
      BY <1>10, <2>3 DEF FinishMessage
    <3>2. /\ whole.window \in Window
          /\ whole.bytes # Unreadable => whole.bytes \in Payload
      BY <2>1, <3>1, DecompressionType, NextWindowType, BytesArePayloads
      DEF Decompress
    <3>3. "DecompressError" \in Error
      BY DEF Error
    <3> QED
      BY <2>1, <3>1, <3>2, <3>3, FailType, TransmitType DEF HandTypeOK
  <2> QED
    BY <2>2, <2>3
<1>11. ASSUME NEW r \in Body(f), WholeMessage(f, r) PROVE Goal
  <2>1. r.bytes \in Payload /\ r.window \in Window
    BY <1>6, <1>11 DEF WholeMessage
  <2>2. f.op \in Data
    BY <1>11 DEF WholeMessage, Stands
  <2> QED
    BY <1>2, <1>11, <2>1, <2>2, TransmitType DEF WholeMessage, HandTypeOK
<1>12. ASSUME NEW r \in Body(f), RefuseFrame(f, r) PROVE Goal
  <2>1. r.window \in Window
    BY <1>6, <1>12 DEF RefuseFrame
  <2>2. FramingError(f) \in Error /\ Fail(FramingError(f))
    BY <1>12, FramingErrorType DEF RefuseFrame
  <2> QED
    BY <1>2, <1>12, <2>1, <2>2, FailType DEF RefuseFrame, HandTypeOK
<1>13. ASSUME NEW r \in Body(f), AnswerClose(f, r) \/ AnswerPing(f, r)
       PROVE  Goal
  <2>1. r.bytes \in Payload /\ r.window \in Window
    BY <1>6, <1>13 DEF AnswerClose, AnswerPing
  <2>2. pc' = "lock" /\ hand' \in RawFrame
    BY <1>13, <2>1, ControlFrameTypes DEF AnswerClose, AnswerPing, Reply
  <2> QED
    BY <1>2, <1>13, <2>1, <2>2 DEF AnswerClose, AnswerPing, HandTypeOK
<1>14. ASSUME NEW r \in Body(f), IgnorePong(f, r) PROVE Goal
  BY <1>2, <1>6, <1>14 DEF IgnorePong, HandTypeOK, ReadTypeOK
<1> QED
  BY <1>1, <1>3, <1>4, <1>5, <1>7, <1>9, <1>10, <1>11, <1>12, <1>13, <1>14
  DEF ReadFrame, f

LEMMA ReadTaskType ==
  ASSUME EndTypeOK, Reading, UNCHANGED <<peerGone, broken>>
  PROVE  EndTypeOK'
<1>1. LinkTypeOK /\ ReadTypeOK /\ WriteTypeOK /\ got \in Seq(Item)
  BY DEF EndTypeOK
<1>2. ReadTask /\ UNCHANGED userVars
  BY DEF Reading
<1>3. {"IOError", "CommunicationError"} \subseteq Error
  BY DEF Error
<1> DEFINE Goal == /\ LinkTypeOK' /\ ReadTypeOK'
                   /\ lock' = "user" => lock = "user"
<1>4. ASSUME ReadFrame PROVE Goal
  <2>1. pc = "read"
    BY <1>4 DEF ReadFrame
  <2> QED
    BY <1>1, <1>4, <2>1, ReadFrameType DEF ReadFrame, ReadTypeOK, LinkTypeOK
<1>5. ASSUME Disconnected PROVE Goal
  BY <1>1, <1>3, <1>5, FailType
  DEF Disconnected, EndOfInput, ReadTypeOK, HandTypeOK, LinkTypeOK
<1>6. ASSUME Deliver PROVE Goal
  <2>1. hand \in Item
    BY <1>1, <1>6 DEF Deliver, ReadTypeOK, HandTypeOK, Item
  <2>2. chan' \in Seq(Item)
    BY <1>1, <1>6, <2>1, AppendProperties DEF Deliver, Queue, LinkTypeOK
  <2> QED
    BY <1>1, <1>6, <2>2 DEF Deliver, ReadTypeOK, HandTypeOK, LinkTypeOK
<1>7. ASSUME DeliverRefused PROVE Goal
  BY <1>1, <1>3, <1>7, FailType
  DEF DeliverRefused, ReadTypeOK, HandTypeOK, LinkTypeOK
<1>8. ASSUME LockForReply PROVE Goal
  BY <1>1, <1>8
  DEF LockForReply, Acquire, ReadTypeOK, HandTypeOK, LinkTypeOK, Holder
<1>9. ASSUME WriteReply PROVE Goal
  <2>1. hand \in RawFrame
    BY <1>1, <1>9 DEF WriteReply, ReadTypeOK, HandTypeOK
  <2>2. outbox' \in Seq(RawFrame)
    BY <1>1, <1>9, <2>1, AppendProperties DEF WriteReply, Written, LinkTypeOK
  <2> QED
    BY <1>1, <1>9, <2>2
    DEF WriteReply, AfterReply, ReadTypeOK, HandTypeOK, LinkTypeOK, Holder
<1>10. ASSUME ReplyFails PROVE Goal
  BY <1>1, <1>3, <1>10, FailType
  DEF ReplyFails, WriteFails, ReadTypeOK, HandTypeOK, LinkTypeOK, Holder
<1>11. ASSUME ReportFailure PROVE Goal
  <2>1. hand \in Item
    BY <1>1, <1>11 DEF ReportFailure, ReadTypeOK, HandTypeOK, Item
  <2>2. chan \in Seq(Item)
    BY <1>1 DEF LinkTypeOK
  <2>3. chan' = Append(chan, hand) \/ chan' = chan
    BY <1>11 DEF ReportFailure, Queue
  <2>4. chan' \in Seq(Item)
    BY <2>1, <2>2, <2>3, AppendProperties
  <2> QED
    BY <1>1, <1>11, <2>4 DEF ReportFailure, ReadTypeOK, HandTypeOK, LinkTypeOK
<1>12. Goal
  BY <1>2, <1>4, <1>5, <1>6, <1>7, <1>8, <1>9, <1>10, <1>11 DEF ReadTask
<1> QED
  BY <1>1, <1>2, <1>12 DEF EndTypeOK, WriteTypeOK, userVars, writeVars

(***************************************************************************)
(* The user's calls.                                                       *)
(***************************************************************************)
LEMMA CallType ==
  ASSUME LinkTypeOK, WriteTypeOK, Call
  PROVE  WriteTypeOK'
<1>1. \/ SendMessage \/ SendLarge \/ SendPing \/ CloseConnection
  BY DEF Call
<1>2. /\ lock' = lock
      /\ lock # "user"
      /\ handle = "held" /\ handle' = "held"
      /\ calls' \in 0..MaxCalls
  <2>1. Calls
    BY <1>1 DEF SendMessage, SendLarge, SendPing, CloseConnection
  <2> QED
    BY <2>1, CallsAssumption DEF Calls, WriteTypeOK
<1>3. encoded \in Nat /\ sent \in Seq(Message)
  BY DEF WriteTypeOK
<1>4. ASSUME NEW data, Encodes(data) PROVE encoded' \in Nat
  BY <1>3, <1>4 DEF Encodes
<1>5. ASSUME NEW m \in Message, sent' = Append(sent, m)
      PROVE  sent' \in Seq(Message)
  BY <1>3, <1>5, AppendProperties
<1>6. CASE SendMessage
  <2>1. PICK m \in Messages :
          /\ call' = "send" /\ todo' = MessageFrames(m)
          /\ Encodes(m.data)
          /\ sent' = Append(sent, m)
    BY <1>6 DEF SendMessage
  <2>2. m \in Message
    BY CallsAssumption, BytesArePayloads DEF Message
  <2> QED
    BY <1>2, <1>3, <1>4, <1>5, <2>1, <2>2, MessageFramesType DEF WriteTypeOK
<1>7. CASE SendLarge
  <2>1. PICK c \in LargeCalls :
          /\ todo' = LargeFrames(c.data, c.size)
          /\ call' = IF c.data = <<>> THEN "idle" ELSE "send"
          /\ Encodes(c.data)
          /\ sent' = Append(sent, [kind |-> "Text", data |-> c.data])
    BY <1>7 DEF SendLarge
  <2>2. c.data \in Seq(Byte) /\ c.size \in Nat \ {0}
    BY CallsAssumption
  <2>3. [kind |-> "Text", data |-> c.data] \in Message
    BY <2>2, BytesArePayloads DEF Message, Data
  <2>4. todo' \in Seq(RawFrame) /\ (todo' = <<>> <=> c.data = <<>>)
    BY <1>3, <2>1, <2>2, LargeFramesType
  <2> QED
    BY <1>2, <1>4, <1>5, <2>1, <2>3, <2>4 DEF WriteTypeOK
<1>8. CASE SendPing
  BY <1>2, <1>3, <1>8, ControlFrameTypes, OneElementSeq
  DEF SendPing, WriteTypeOK
<1>9. CASE CloseConnection
  BY <1>2, <1>3, <1>9, ControlFrameTypes, OneElementSeq
  DEF CloseConnection, WriteTypeOK
<1> QED
  BY <1>1, <1>6, <1>7, <1>8, <1>9

\* A call that runs holds the mutex only while it has a frame to write.
LEMMA WriteTaskType ==
  ASSUME LinkTypeOK, WriteTypeOK, WriteTask
  PROVE  /\ WriteTypeOK'
         /\ outbox' \in Seq(RawFrame)
         /\ lock' \in Holder
         /\ lock' = "reader" <=> lock = "reader"
         /\ UNCHANGED <<inbox, chan, rx>>
<1>1. CASE LockForFrame
  BY <1>1 DEF LockForFrame, Acquire, WriteTypeOK, LinkTypeOK, Holder, writeVars
<1>2. CASE WriteFrame
  <2>1. todo \in Seq(RawFrame) /\ todo # <<>>
    BY <1>2 DEF WriteFrame, WriteTypeOK
  <2>2. Head(todo) \in RawFrame /\ todo' \in Seq(RawFrame)
    BY <1>2, <2>1, HeadTailProperties DEF WriteFrame
  <2>3. outbox' \in Seq(RawFrame)
    BY <1>2, <2>2, AppendProperties DEF WriteFrame, Written, LinkTypeOK
  <2> QED
    BY <1>2, <2>1, <2>2, <2>3
    DEF WriteFrame, AfterFrames, WriteTypeOK, LinkTypeOK, Holder
<1>3. CASE FrameFails
  BY <1>3 DEF FrameFails, WriteFails, WriteTypeOK, LinkTypeOK, Holder
<1>4. CASE CloseReturns
  BY <1>4 DEF CloseReturns, WriteTypeOK, LinkTypeOK
<1> QED
  BY <1>1, <1>2, <1>3, <1>4 DEF WriteTask

(***************************************************************************)
(* One end as a whole.                                                     *)
(***************************************************************************)
LEMMA EndInitType ==
  ASSUME EndInit,
         inbox \in Seq(RawFrame), outbox \in Seq(RawFrame),
         peerGone \in BOOLEAN, broken = FALSE
  PROVE  EndTypeOK
<1>1. LinkTypeOK
  <2>1. broken \in BOOLEAN /\ (broken => peerGone)
    BY Zenon
  <2> QED
    BY <2>1 DEF EndInit, LinkInit, LinkTypeOK, Holder
<1>2. ReadTypeOK
  BY DEF EndInit, LinkInit, ReadInit, ReadTypeOK, HandTypeOK, Window
<1>3. WriteTypeOK
  BY CallsAssumption DEF EndInit, LinkInit, WriteInit, WriteTypeOK
<1> QED
  BY <1>1, <1>2, <1>3 DEF EndInit, EndTypeOK

LEMMA EndNextType ==
  ASSUME EndTypeOK, EndNext, UNCHANGED <<peerGone, broken>>
  PROVE  EndTypeOK'
<1>1. LinkTypeOK /\ ReadTypeOK /\ WriteTypeOK /\ got \in Seq(Item)
  BY DEF EndTypeOK
<1>2. CASE Reading
  BY <1>2, ReadTaskType
<1>3. CASE Writing
  <2>1. CASE Call
    <3>1. UNCHANGED <<inbox, outbox, lock, chan, rx>>
      BY <2>1
      DEF Call, SendMessage, SendLarge, SendPing, CloseConnection, Calls
    <3> QED
      BY <1>1, <1>3, <2>1, <3>1, CallType
      DEF Writing, EndTypeOK, LinkTypeOK, ReadTypeOK, HandTypeOK, readVars
  <2>2. CASE WriteTask
    BY <1>1, <1>3, <2>2, WriteTaskType
    DEF Writing, EndTypeOK, LinkTypeOK, ReadTypeOK, HandTypeOK, readVars
  <2>3. CASE DropWriter
    BY <1>1, <1>3, <2>3
    DEF DropWriter, Writing, EndTypeOK, LinkTypeOK, ReadTypeOK, HandTypeOK,
      WriteTypeOK, readVars
  <2> QED
    BY <1>3, <2>1, <2>2, <2>3 DEF Writing
<1>4. CASE NextItem
  <2>1. Head(chan) \in Item /\ chan' \in Seq(Item)
    BY <1>1, <1>4, HeadTailProperties DEF NextItem, LinkTypeOK
  <2>2. got' \in Seq(Item)
    BY <1>1, <1>4, <2>1, AppendProperties DEF NextItem
  <2> QED
    BY <1>1, <1>4, <2>1, <2>2
    DEF NextItem, EndTypeOK, LinkTypeOK, ReadTypeOK, HandTypeOK, WriteTypeOK,
      readVars, writeVars
<1>5. CASE NextNone
  BY <1>1, <1>5
  DEF NextNone, EndTypeOK, LinkTypeOK, ReadTypeOK, HandTypeOK, WriteTypeOK,
    readVars, writeVars
<1>6. CASE DropReader
  <2>1. chan' \in Seq(Item) /\ rx' = "dropped"
    BY <1>6 DEF DropReader
  <2> QED
    BY <1>1, <1>6, <2>1
    DEF DropReader, EndTypeOK, LinkTypeOK, ReadTypeOK, HandTypeOK,
      WriteTypeOK, readVars, writeVars
<1> QED
  BY <1>2, <1>3, <1>4, <1>5, <1>6 DEF EndNext

\* Whatever else happens to the connection, the types outlive it: frames come
\* and go on the wires, the other end closes its socket for good.
LEMMA OutsideType ==
  ASSUME EndTypeOK,
         UNCHANGED <<lock, chan, rx, broken, readVars, userVars>>,
         inbox' \in Seq(RawFrame), outbox' \in Seq(RawFrame),
         peerGone' \in BOOLEAN, peerGone => peerGone'
  PROVE  EndTypeOK'
BY DEF EndTypeOK, LinkTypeOK, ReadTypeOK, HandTypeOK, WriteTypeOK,
  readVars, userVars, writeVars

LEMMA ResetType ==
  ASSUME EndTypeOK, Reset,
         UNCHANGED <<outbox, lock, chan, rx, readVars, userVars, peerGone>>
  PROVE  EndTypeOK'
<1>1. PICK n \in 0..Len(inbox) : inbox' = SubSeq(inbox, 1, n)
  BY DEF Reset
<1>2. inbox \in Seq(RawFrame)
  BY DEF EndTypeOK, LinkTypeOK
<1>3. Len(inbox) \in Nat /\ \A i \in 1..n : inbox[i] \in RawFrame
  BY <1>2, LenProperties
<1>4. inbox' \in Seq(RawFrame)
  BY <1>1, <1>2, <1>3, SubSeqProperties
<1> QED
  BY <1>4
  DEF Reset, EndTypeOK, LinkTypeOK, ReadTypeOK, HandTypeOK, WriteTypeOK,
    readVars, userVars, writeVars

\* An end that has closed its socket takes it up no more.
LEMMA ClosedForGood ==
  ASSUME EndNext, SocketClosed
  PROVE  SocketClosed'
BY DEF SocketClosed, EndNext, Reading, ReadTask, ReadFrame, Disconnected,
  EndOfInput, Deliver, DeliverRefused, LockForReply, WriteReply, ReplyFails,
  ReportFailure, Writing, Call, SendMessage, SendLarge, SendPing,
  CloseConnection, Calls, WriteTask, LockForFrame, WriteFrame, FrameFails,
  CloseReturns, DropWriter, NextItem, NextNone, DropReader,
  readVars, userVars, writeVars

(***************************************************************************)
(* What reading one frame can lead to.                                     *)
(***************************************************************************)
TextOK(item) == item.kind = "Text" => IsUtf8(item.data)

LEMMA TransmitOutcome ==
  ASSUME NEW kind, NEW bytes, Transmit(kind, bytes)
  PROVE  pc' = "fail" \/ (pc' = "deliver" /\ TextOK(hand'))
BY DEF Transmit, Fail, TextOK

\* A Close leads to an answer or to an error, nothing else is answered with
\* a Close, and text is judged before it is delivered (read.rs:56-157).
LEMMA ReadFrameOutcome ==
  ASSUME ReadFrame
  PROVE  /\ pc = "read"
         /\ inbox # <<>> /\ inbox' = Tail(inbox)
         /\ UNCHANGED <<chan, rx>>
         /\ \/ pc' = "fail"
            \/ pc' = "read" /\ Head(inbox).op # "Close"
            \/ pc' = "deliver" /\ TextOK(hand') /\ Head(inbox).op # "Close"
            \/ /\ pc' = "lock"
               /\ hand'.op = "Close" <=> Head(inbox).op = "Close"
<1> DEFINE f == Head(inbox)
<1> DEFINE Goal ==
      /\ inbox' = Tail(inbox)
      /\ \/ pc' = "fail"
         \/ pc' = "read" /\ f.op # "Close"
         \/ pc' = "deliver" /\ TextOK(hand') /\ f.op # "Close"
         \/ pc' = "lock" /\ (hand'.op = "Close" <=> f.op = "Close")
<1>1. pc = "read" /\ inbox # <<>> /\ UNCHANGED <<chan, rx>>
  BY DEF ReadFrame
<1> HIDE DEF f
<1>2. ASSUME RejectHeader(f) \/ PayloadMissing(f) \/ PayloadUnreadable(f)
      PROVE  Goal
  BY <1>2
  DEF RejectHeader, PayloadMissing, PayloadUnreadable, Fail, Take
<1>3. ASSUME NEW r, StartMessage(f, r) \/ IgnorePong(f, r) PROVE Goal
  BY <1>1, <1>3 DEF StartMessage, IgnorePong, Receive, Take, Starts, Data
<1>4. ASSUME NEW r, ContinueMessage(f, r) PROVE Goal
  BY <1>1, <1>4 DEF ContinueMessage, Receive, Take, Continues, Fail
<1>5. ASSUME NEW r, FinishMessage(f, r) PROVE Goal
  <2>1. inbox' = Tail(inbox) /\ f.op # "Close"
    BY <1>5 DEF FinishMessage, Receive, Take, Continues
  <2>2. \/ Fail("DecompressError")
        \/ \E bytes : Transmit(frag.kind, bytes)
    BY <1>5 DEF FinishMessage
  <2> QED
    BY <2>1, <2>2, TransmitOutcome DEF Fail
<1>6. ASSUME NEW r, WholeMessage(f, r) PROVE Goal
  <2>1. inbox' = Tail(inbox) /\ f.op # "Close" /\ Transmit(f.op, r.bytes)
    BY <1>6 DEF WholeMessage, Receive, Take, Stands, Data
  <2> QED
    BY <2>1, TransmitOutcome
<1>7. ASSUME NEW r, RefuseFrame(f, r) PROVE Goal
  BY <1>7 DEF RefuseFrame, Receive, Take, Fail
<1>8. ASSUME NEW r, AnswerClose(f, r) PROVE Goal
  BY <1>8 DEF AnswerClose, Receive, Take, Reply, CloseFrame, WireFrame
<1>9. ASSUME NEW r, AnswerPing(f, r) PROVE Goal
  BY <1>9 DEF AnswerPing, Receive, Take, Reply, PongFrame, WireFrame
<1>10. Goal
  BY <1>2, <1>3, <1>4, <1>5, <1>6, <1>7, <1>8, <1>9 DEF ReadFrame, f
<1> QED
  BY <1>1, <1>10 DEF f
=============================================================================
