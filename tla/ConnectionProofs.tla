-------------------------- MODULE ConnectionProofs --------------------------
(***************************************************************************)
(* What two ends of this library keep between them.                        *)
(***************************************************************************)
EXTENDS Connection, TLAPS

ClientEnd == INSTANCE CourseProofs WITH
    inbox <- s2c, outbox <- c2s, peerGone <- ServerGone,
    lock <- cLock, chan <- cChan, rx <- cRx, broken <- cBroken,
    pc <- cPc, hand <- cHand, frag <- cFrag, window <- cWindow,
    call <- cCall, todo <- cTodo, handle <- cHandle,
    encoded <- cEncoded, calls <- cCalls, sent <- cSent, got <- cGot,
    Messages <- ClientMessages, LargeCalls <- ClientLargeCalls,
    Uses <- ClientUses, MaxCalls <- ClientCalls,
    Deflate <- ClientDeflates,
    ResetsDecoder <- ClientDecoder.resets, ResetsEncoder <- ClientEncoder.resets

ServerEnd == INSTANCE CourseProofs WITH
    inbox <- c2s, outbox <- s2c, peerGone <- ClientGone,
    lock <- sLock, chan <- sChan, rx <- sRx, broken <- sBroken,
    pc <- sPc, hand <- sHand, frag <- sFrag, window <- sWindow,
    call <- sCall, todo <- sTodo, handle <- sHandle,
    encoded <- sEncoded, calls <- sCalls, sent <- sSent, got <- sGot,
    Messages <- ServerMessages, LargeCalls <- ServerLargeCalls,
    Uses <- ServerUses, MaxCalls <- ServerCalls,
    Deflate <- ServerDeflates,
    ResetsDecoder <- ServerDecoder.resets, ResetsEncoder <- ServerEncoder.resets

LEMMA SameClient ==
  /\ ClientEnd!EndTypeOK <=> Client!EndTypeOK
  /\ ClientEnd!EndTypeOK' <=> Client!EndTypeOK'
  /\ ClientEnd!EndInit <=> Client!EndInit
  /\ ClientEnd!EndNext <=> Client!EndNext
  /\ ClientEnd!Reset <=> Client!Reset
BY DEF
  Client!DeflateUnit, Client!Unit, Client!Payload, Client!Deflated,
  Client!IsDeflated, Client!Astray, Client!Window, Client!Readable,
  Client!Misreadings, Client!Decompressions, Client!IsUtf8,
  Client!Data, Client!Control,
  Client!OpCode, Client!Reserved, Client!RawFrame, Client!WireFrame,
  Client!CloseFrame, Client!PingFrame, Client!PongFrame, Client!Message,
  Client!Error, Client!Fragmented, Client!Failure, Client!Err, Client!Item,
  Client!Holder, Client!LinkTypeOK, Client!LinkInit, Client!Acquire,
  Client!Written, Client!WriteFails, Client!Reset, Client!Queue,
  Client!readVars, Client!HandTypeOK, Client!ReadTypeOK, Client!ReadInit,
  Client!HeaderError, Client!NextWindow, Client!Decompress, Client!Verbatim,
  Client!Body, Client!Fail, Client!Take, Client!Receive, Client!RejectHeader,
  Client!PayloadMissing, Client!PayloadUnreadable, Client!EndOfInput,
  Client!Transmit, Client!Continues, Client!Starts, Client!Stands,
  Client!StartMessage, Client!FramingError, Client!RefuseFrame,
  Client!TooLong, Client!Grown, Client!ContinueMessage, Client!FinishMessage,
  Client!WholeMessage, Client!Reply, Client!AnswerClose, Client!AnswerPing,
  Client!IgnorePong, Client!ReadFrame, Client!Disconnected, Client!Deliver,
  Client!DeliverRefused, Client!LockForReply, Client!AfterReply,
  Client!WriteReply, Client!ReplyFails, Client!ReportFailure, Client!ReadTask,
  Client!writeVars, Client!WriteTypeOK, Client!WriteInit, Client!Compresses,
  Client!Encoded, Client!Chunks, Client!Fragments, Client!MessageFrames,
  Client!LargeFrames, Client!Calls, Client!Encodes, Client!SizeAllowed,
  Client!SendMessage, Client!SendLarge, Client!SendPing,
  Client!CloseConnection, Client!LockForFrame, Client!AfterFrames,
  Client!WriteFrame, Client!FrameFails, Client!CloseReturns,
  Client!DropWriter, Client!Call, Client!WriteTask, Client!linkVars,
  Client!userVars, Client!EndTypeOK, Client!EndInit, Client!MayRead,
  Client!NextItem, Client!NextNone, Client!DropReader, Client!Reading,
  Client!Writing, Client!EndNext,
  ClientEnd!DeflateUnit, ClientEnd!Unit, ClientEnd!Payload,
  ClientEnd!Deflated, ClientEnd!IsDeflated, ClientEnd!Astray,
  ClientEnd!Window, ClientEnd!Readable, ClientEnd!Misreadings,
  ClientEnd!Decompressions,
  ClientEnd!IsUtf8, ClientEnd!Data, ClientEnd!Control, ClientEnd!OpCode,
  ClientEnd!Reserved, ClientEnd!RawFrame, ClientEnd!WireFrame,
  ClientEnd!CloseFrame, ClientEnd!PingFrame, ClientEnd!PongFrame,
  ClientEnd!Message, ClientEnd!Error, ClientEnd!Fragmented, ClientEnd!Failure,
  ClientEnd!Err, ClientEnd!Item, ClientEnd!Holder, ClientEnd!LinkTypeOK,
  ClientEnd!LinkInit, ClientEnd!Acquire, ClientEnd!Written,
  ClientEnd!WriteFails, ClientEnd!Reset, ClientEnd!Queue, ClientEnd!readVars,
  ClientEnd!HandTypeOK, ClientEnd!ReadTypeOK, ClientEnd!ReadInit,
  ClientEnd!HeaderError, ClientEnd!NextWindow, ClientEnd!Decompress,
  ClientEnd!Verbatim, ClientEnd!Body, ClientEnd!Fail, ClientEnd!Take,
  ClientEnd!Receive, ClientEnd!RejectHeader, ClientEnd!PayloadMissing,
  ClientEnd!PayloadUnreadable, ClientEnd!EndOfInput, ClientEnd!Transmit,
  ClientEnd!Continues, ClientEnd!Starts, ClientEnd!Stands,
  ClientEnd!StartMessage, ClientEnd!FramingError, ClientEnd!RefuseFrame,
  ClientEnd!TooLong, ClientEnd!Grown, ClientEnd!ContinueMessage,
  ClientEnd!FinishMessage, ClientEnd!WholeMessage, ClientEnd!Reply,
  ClientEnd!AnswerClose, ClientEnd!AnswerPing, ClientEnd!IgnorePong,
  ClientEnd!ReadFrame, ClientEnd!Disconnected, ClientEnd!Deliver,
  ClientEnd!DeliverRefused, ClientEnd!LockForReply, ClientEnd!AfterReply,
  ClientEnd!WriteReply, ClientEnd!ReplyFails, ClientEnd!ReportFailure,
  ClientEnd!ReadTask, ClientEnd!writeVars, ClientEnd!WriteTypeOK,
  ClientEnd!WriteInit, ClientEnd!Compresses, ClientEnd!Encoded,
  ClientEnd!Chunks, ClientEnd!Fragments, ClientEnd!MessageFrames,
  ClientEnd!LargeFrames, ClientEnd!Calls, ClientEnd!Encodes,
  ClientEnd!SizeAllowed, ClientEnd!SendMessage, ClientEnd!SendLarge,
  ClientEnd!SendPing, ClientEnd!CloseConnection, ClientEnd!LockForFrame,
  ClientEnd!AfterFrames, ClientEnd!WriteFrame, ClientEnd!FrameFails,
  ClientEnd!CloseReturns, ClientEnd!DropWriter, ClientEnd!Call,
  ClientEnd!WriteTask, ClientEnd!linkVars, ClientEnd!userVars,
  ClientEnd!EndTypeOK, ClientEnd!EndInit, ClientEnd!MayRead,
  ClientEnd!NextItem, ClientEnd!NextNone, ClientEnd!DropReader,
  ClientEnd!Reading, ClientEnd!Writing, ClientEnd!EndNext

LEMMA SameServer ==
  /\ ServerEnd!EndTypeOK <=> Server!EndTypeOK
  /\ ServerEnd!EndTypeOK' <=> Server!EndTypeOK'
  /\ ServerEnd!EndInit <=> Server!EndInit
  /\ ServerEnd!EndNext <=> Server!EndNext
  /\ ServerEnd!Reset <=> Server!Reset
BY DEF
  Server!DeflateUnit, Server!Unit, Server!Payload, Server!Deflated,
  Server!IsDeflated, Server!Astray, Server!Window, Server!Readable,
  Server!Misreadings, Server!Decompressions, Server!IsUtf8,
  Server!Data, Server!Control,
  Server!OpCode, Server!Reserved, Server!RawFrame, Server!WireFrame,
  Server!CloseFrame, Server!PingFrame, Server!PongFrame, Server!Message,
  Server!Error, Server!Fragmented, Server!Failure, Server!Err, Server!Item,
  Server!Holder, Server!LinkTypeOK, Server!LinkInit, Server!Acquire,
  Server!Written, Server!WriteFails, Server!Reset, Server!Queue,
  Server!readVars, Server!HandTypeOK, Server!ReadTypeOK, Server!ReadInit,
  Server!HeaderError, Server!NextWindow, Server!Decompress, Server!Verbatim,
  Server!Body, Server!Fail, Server!Take, Server!Receive, Server!RejectHeader,
  Server!PayloadMissing, Server!PayloadUnreadable, Server!EndOfInput,
  Server!Transmit, Server!Continues, Server!Starts, Server!Stands,
  Server!StartMessage, Server!FramingError, Server!RefuseFrame,
  Server!TooLong, Server!Grown, Server!ContinueMessage, Server!FinishMessage,
  Server!WholeMessage, Server!Reply, Server!AnswerClose, Server!AnswerPing,
  Server!IgnorePong, Server!ReadFrame, Server!Disconnected, Server!Deliver,
  Server!DeliverRefused, Server!LockForReply, Server!AfterReply,
  Server!WriteReply, Server!ReplyFails, Server!ReportFailure, Server!ReadTask,
  Server!writeVars, Server!WriteTypeOK, Server!WriteInit, Server!Compresses,
  Server!Encoded, Server!Chunks, Server!Fragments, Server!MessageFrames,
  Server!LargeFrames, Server!Calls, Server!Encodes, Server!SizeAllowed,
  Server!SendMessage, Server!SendLarge, Server!SendPing,
  Server!CloseConnection, Server!LockForFrame, Server!AfterFrames,
  Server!WriteFrame, Server!FrameFails, Server!CloseReturns,
  Server!DropWriter, Server!Call, Server!WriteTask, Server!linkVars,
  Server!userVars, Server!EndTypeOK, Server!EndInit, Server!MayRead,
  Server!NextItem, Server!NextNone, Server!DropReader, Server!Reading,
  Server!Writing, Server!EndNext,
  ServerEnd!DeflateUnit, ServerEnd!Unit, ServerEnd!Payload,
  ServerEnd!Deflated, ServerEnd!IsDeflated, ServerEnd!Astray,
  ServerEnd!Window, ServerEnd!Readable, ServerEnd!Misreadings,
  ServerEnd!Decompressions,
  ServerEnd!IsUtf8, ServerEnd!Data, ServerEnd!Control, ServerEnd!OpCode,
  ServerEnd!Reserved, ServerEnd!RawFrame, ServerEnd!WireFrame,
  ServerEnd!CloseFrame, ServerEnd!PingFrame, ServerEnd!PongFrame,
  ServerEnd!Message, ServerEnd!Error, ServerEnd!Fragmented, ServerEnd!Failure,
  ServerEnd!Err, ServerEnd!Item, ServerEnd!Holder, ServerEnd!LinkTypeOK,
  ServerEnd!LinkInit, ServerEnd!Acquire, ServerEnd!Written,
  ServerEnd!WriteFails, ServerEnd!Reset, ServerEnd!Queue, ServerEnd!readVars,
  ServerEnd!HandTypeOK, ServerEnd!ReadTypeOK, ServerEnd!ReadInit,
  ServerEnd!HeaderError, ServerEnd!NextWindow, ServerEnd!Decompress,
  ServerEnd!Verbatim, ServerEnd!Body, ServerEnd!Fail, ServerEnd!Take,
  ServerEnd!Receive, ServerEnd!RejectHeader, ServerEnd!PayloadMissing,
  ServerEnd!PayloadUnreadable, ServerEnd!EndOfInput, ServerEnd!Transmit,
  ServerEnd!Continues, ServerEnd!Starts, ServerEnd!Stands,
  ServerEnd!StartMessage, ServerEnd!FramingError, ServerEnd!RefuseFrame,
  ServerEnd!TooLong, ServerEnd!Grown, ServerEnd!ContinueMessage,
  ServerEnd!FinishMessage, ServerEnd!WholeMessage, ServerEnd!Reply,
  ServerEnd!AnswerClose, ServerEnd!AnswerPing, ServerEnd!IgnorePong,
  ServerEnd!ReadFrame, ServerEnd!Disconnected, ServerEnd!Deliver,
  ServerEnd!DeliverRefused, ServerEnd!LockForReply, ServerEnd!AfterReply,
  ServerEnd!WriteReply, ServerEnd!ReplyFails, ServerEnd!ReportFailure,
  ServerEnd!ReadTask, ServerEnd!writeVars, ServerEnd!WriteTypeOK,
  ServerEnd!WriteInit, ServerEnd!Compresses, ServerEnd!Encoded,
  ServerEnd!Chunks, ServerEnd!Fragments, ServerEnd!MessageFrames,
  ServerEnd!LargeFrames, ServerEnd!Calls, ServerEnd!Encodes,
  ServerEnd!SizeAllowed, ServerEnd!SendMessage, ServerEnd!SendLarge,
  ServerEnd!SendPing, ServerEnd!CloseConnection, ServerEnd!LockForFrame,
  ServerEnd!AfterFrames, ServerEnd!WriteFrame, ServerEnd!FrameFails,
  ServerEnd!CloseReturns, ServerEnd!DropWriter, ServerEnd!Call,
  ServerEnd!WriteTask, ServerEnd!linkVars, ServerEnd!userVars,
  ServerEnd!EndTypeOK, ServerEnd!EndInit, ServerEnd!MayRead,
  ServerEnd!NextItem, ServerEnd!NextNone, ServerEnd!DropReader,
  ServerEnd!Reading, ServerEnd!Writing, ServerEnd!EndNext

(***************************************************************************)
(* The client's end.                                                       *)
(***************************************************************************)
LEMMA ClientAssumptions ==
  /\ Unreadable \notin ClientEnd!Payload
  /\ None \notin ClientEnd!Error /\ None \notin ClientEnd!Fragmented
  /\ TcpCap \in Nat \ {0} /\ ChanCap \in Nat \ {0}
  /\ MaxFrameSize \in Nat \ {0} /\ MaxMessageSize \in Nat
  /\ ClientDeflates \in BOOLEAN
  /\ ClientDecoder.resets \in BOOLEAN
  /\ ClientEncoder.resets \in BOOLEAN
  /\ Threshold \in Nat
  /\ ClientMessages \subseteq [kind : ClientEnd!Data, data : Seq(Byte)]
  /\ ClientLargeCalls \subseteq [data : Seq(Byte), size : Nat \ {0}]
  /\ ClientUses \subseteq {"ping", "close"}
  /\ ClientCalls \in Nat
  /\ Split \in BOOLEAN
<1>1. None \notin ClientEnd!Error /\ None \notin ClientEnd!Fragmented
  BY NoneAssumption
  DEF Error, Fragmented, Payload, Unit, DeflateUnit, Data, ClientEnd!Error,
    ClientEnd!Fragmented, ClientEnd!Payload, ClientEnd!Unit, ClientEnd!DeflateUnit,
    ClientEnd!Data
<1>5. Unreadable \notin ClientEnd!Payload
  BY UnreadableAssumption
  DEF Payload, Unit, DeflateUnit, ClientEnd!Payload, ClientEnd!Unit,
    ClientEnd!DeflateUnit
<1>2. ClientDeflates \in BOOLEAN
  BY DEF ClientDeflates, Negotiation!Deflates
<1>3. ClientDecoder.resets \in BOOLEAN /\ ClientEncoder.resets \in BOOLEAN
  BY DEF ClientDecoder, ClientEncoder, Negotiation!DecoderOf,
    Negotiation!EncoderOf, Negotiation!Coder, Negotiation!IsTrue
<1>4. ClientMessages \subseteq [kind : ClientEnd!Data, data : Seq(Byte)]
  BY UsersAssumption DEF Data, ClientEnd!Data
<1> QED
  BY <1>1, <1>2, <1>3, <1>4, <1>5, ConfigAssumption, UsersAssumption

LEMMA ClientInitType == Init => Client!EndTypeOK
<1> SUFFICES ASSUME Init PROVE Client!EndTypeOK
  OBVIOUS
<1>1. ClientEnd!EndInit /\ cBroken = FALSE
  BY SameClient DEF Init
<1>2. /\ c2s \in Seq(ClientEnd!RawFrame) /\ s2c \in Seq(ClientEnd!RawFrame)
      /\ ServerGone \in BOOLEAN
  BY DEF Init, ServerGone
<1>3. ClientEnd!EndTypeOK
  BY <1>1, <1>2, ClientEnd!EndInitType, ClientAssumptions, ByteAssumption,
    SizeAssumption
<1> QED
  BY <1>3, SameClient

\* What the client does itself, and what TCP does to it.
LEMMA ClientStepType ==
  ASSUME Client!EndTypeOK, ClientStep \/ ClientReset
  PROVE  Client!EndTypeOK'
<1>1. UNCHANGED ServerGone
  BY DEF ClientStep, ClientReset, ServerGone, sVars, sHalves
<1>2. ClientEnd!EndTypeOK
  BY SameClient
<1>3. CASE ClientStep
  <2>1. ClientEnd!EndNext /\ UNCHANGED cBroken
    BY <1>3, SameClient DEF ClientStep
  <2>2. ClientEnd!EndTypeOK'
    BY <1>1, <1>2, <2>1, ClientEnd!EndNextType, ClientAssumptions, ByteAssumption,
      SizeAssumption
  <2> QED
    BY <2>2, SameClient
<1>4. CASE ClientReset
  <2>1. ClientEnd!Reset
    BY <1>4, SameClient DEF ClientReset
  <2>2. /\ UNCHANGED <<c2s, cLock, cChan, cRx>>
        /\ UNCHANGED ClientEnd!readVars
        /\ UNCHANGED ClientEnd!userVars
    BY <1>4 DEF ClientReset, cHalves, ClientEnd!readVars, ClientEnd!userVars,
      ClientEnd!writeVars
  <2>3. ClientEnd!EndTypeOK'
    BY <1>1, <1>2, <2>1, <2>2, ClientEnd!ResetType, ClientAssumptions,
      ByteAssumption, SizeAssumption
  <2> QED
    BY <2>3, SameClient
<1> QED
  BY <1>3, <1>4

\* A socket that is closed stays closed.
LEMMA ClientLeaves ==
  ASSUME ClientStep \/ ClientReset
  PROVE  ClientGone => ClientGone'
<1>1. CASE ClientStep
  <2>1. ClientEnd!EndNext
    BY <1>1, SameClient DEF ClientStep
  <2>2. ClientGone <=> ClientEnd!SocketClosed
    BY DEF ClientGone, ClientEnd!SocketClosed
  <2>3. ClientGone' <=> ClientEnd!SocketClosed'
    BY DEF ClientGone, ClientEnd!SocketClosed
  <2>4. ClientEnd!SocketClosed => ClientEnd!SocketClosed'
    BY <2>1, ClientEnd!ClosedForGood, ClientAssumptions, ByteAssumption,
      SizeAssumption
  <2> QED
    BY <2>2, <2>3, <2>4
<1>2. CASE ClientReset
  BY <1>2 DEF ClientReset, cHalves, ClientGone
<1> QED
  BY <1>1, <1>2

\* What the server does changes the wires and may close its socket.
LEMMA ClientOutside ==
  ASSUME Client!EndTypeOK, Server!EndTypeOK', ServerGone => ServerGone',
         UNCHANGED cVars
  PROVE  Client!EndTypeOK'
<1>1. /\ c2s' \in Seq(ClientEnd!RawFrame)
      /\ s2c' \in Seq(ClientEnd!RawFrame)
  BY DEF Server!EndTypeOK, Server!LinkTypeOK, Server!RawFrame, Server!OpCode, Server!Data,
    Server!Control, Server!Reserved, Server!Payload, Server!Unit, Server!DeflateUnit,
    ClientEnd!RawFrame, ClientEnd!OpCode, ClientEnd!Data, ClientEnd!Control,
    ClientEnd!Reserved, ClientEnd!Payload, ClientEnd!Unit, ClientEnd!DeflateUnit
<1>2. /\ UNCHANGED <<cLock, cChan, cRx, cBroken>>
      /\ UNCHANGED ClientEnd!readVars
      /\ UNCHANGED ClientEnd!userVars
  BY DEF cVars, cHalves, ClientEnd!readVars, ClientEnd!userVars, ClientEnd!writeVars
<1>3. ServerGone' \in BOOLEAN
  BY DEF ServerGone
<1>4. ClientEnd!EndTypeOK
  BY SameClient
<1>5. ClientEnd!EndTypeOK'
  BY <1>1, <1>2, <1>3, <1>4, ClientEnd!OutsideType, ClientAssumptions,
    ByteAssumption, SizeAssumption
<1> QED
  BY <1>5, SameClient

(***************************************************************************)
(* The server's end.                                                       *)
(***************************************************************************)
LEMMA ServerAssumptions ==
  /\ Unreadable \notin ServerEnd!Payload
  /\ None \notin ServerEnd!Error /\ None \notin ServerEnd!Fragmented
  /\ TcpCap \in Nat \ {0} /\ ChanCap \in Nat \ {0}
  /\ MaxFrameSize \in Nat \ {0} /\ MaxMessageSize \in Nat
  /\ ServerDeflates \in BOOLEAN
  /\ ServerDecoder.resets \in BOOLEAN
  /\ ServerEncoder.resets \in BOOLEAN
  /\ Threshold \in Nat
  /\ ServerMessages \subseteq [kind : ServerEnd!Data, data : Seq(Byte)]
  /\ ServerLargeCalls \subseteq [data : Seq(Byte), size : Nat \ {0}]
  /\ ServerUses \subseteq {"ping", "close"}
  /\ ServerCalls \in Nat
  /\ Split \in BOOLEAN
<1>1. None \notin ServerEnd!Error /\ None \notin ServerEnd!Fragmented
  BY NoneAssumption
  DEF Error, Fragmented, Payload, Unit, DeflateUnit, Data, ServerEnd!Error,
    ServerEnd!Fragmented, ServerEnd!Payload, ServerEnd!Unit, ServerEnd!DeflateUnit,
    ServerEnd!Data
<1>5. Unreadable \notin ServerEnd!Payload
  BY UnreadableAssumption
  DEF Payload, Unit, DeflateUnit, ServerEnd!Payload, ServerEnd!Unit,
    ServerEnd!DeflateUnit
<1>2. ServerDeflates \in BOOLEAN
  BY DEF ServerDeflates, Negotiation!Deflates
<1>3. ServerDecoder.resets \in BOOLEAN /\ ServerEncoder.resets \in BOOLEAN
  BY DEF ServerDecoder, ServerEncoder, Negotiation!DecoderOf,
    Negotiation!EncoderOf, Negotiation!Coder, Negotiation!IsTrue
<1>4. ServerMessages \subseteq [kind : ServerEnd!Data, data : Seq(Byte)]
  BY UsersAssumption DEF Data, ServerEnd!Data
<1> QED
  BY <1>1, <1>2, <1>3, <1>4, <1>5, ConfigAssumption, UsersAssumption

LEMMA ServerInitType == Init => Server!EndTypeOK
<1> SUFFICES ASSUME Init PROVE Server!EndTypeOK
  OBVIOUS
<1>1. ServerEnd!EndInit /\ sBroken = FALSE
  BY SameServer DEF Init
<1>2. /\ c2s \in Seq(ServerEnd!RawFrame) /\ s2c \in Seq(ServerEnd!RawFrame)
      /\ ClientGone \in BOOLEAN
  BY DEF Init, ClientGone
<1>3. ServerEnd!EndTypeOK
  BY <1>1, <1>2, ServerEnd!EndInitType, ServerAssumptions, ByteAssumption,
    SizeAssumption
<1> QED
  BY <1>3, SameServer

\* What the server does itself, and what TCP does to it.
LEMMA ServerStepType ==
  ASSUME Server!EndTypeOK, ServerStep \/ ServerReset
  PROVE  Server!EndTypeOK'
<1>1. UNCHANGED ClientGone
  BY DEF ServerStep, ServerReset, ClientGone, cVars, cHalves
<1>2. ServerEnd!EndTypeOK
  BY SameServer
<1>3. CASE ServerStep
  <2>1. ServerEnd!EndNext /\ UNCHANGED sBroken
    BY <1>3, SameServer DEF ServerStep
  <2>2. ServerEnd!EndTypeOK'
    BY <1>1, <1>2, <2>1, ServerEnd!EndNextType, ServerAssumptions, ByteAssumption,
      SizeAssumption
  <2> QED
    BY <2>2, SameServer
<1>4. CASE ServerReset
  <2>1. ServerEnd!Reset
    BY <1>4, SameServer DEF ServerReset
  <2>2. /\ UNCHANGED <<s2c, sLock, sChan, sRx>>
        /\ UNCHANGED ServerEnd!readVars
        /\ UNCHANGED ServerEnd!userVars
    BY <1>4 DEF ServerReset, sHalves, ServerEnd!readVars, ServerEnd!userVars,
      ServerEnd!writeVars
  <2>3. ServerEnd!EndTypeOK'
    BY <1>1, <1>2, <2>1, <2>2, ServerEnd!ResetType, ServerAssumptions,
      ByteAssumption, SizeAssumption
  <2> QED
    BY <2>3, SameServer
<1> QED
  BY <1>3, <1>4

\* A socket that is closed stays closed.
LEMMA ServerLeaves ==
  ASSUME ServerStep \/ ServerReset
  PROVE  ServerGone => ServerGone'
<1>1. CASE ServerStep
  <2>1. ServerEnd!EndNext
    BY <1>1, SameServer DEF ServerStep
  <2>2. ServerGone <=> ServerEnd!SocketClosed
    BY DEF ServerGone, ServerEnd!SocketClosed
  <2>3. ServerGone' <=> ServerEnd!SocketClosed'
    BY DEF ServerGone, ServerEnd!SocketClosed
  <2>4. ServerEnd!SocketClosed => ServerEnd!SocketClosed'
    BY <2>1, ServerEnd!ClosedForGood, ServerAssumptions, ByteAssumption,
      SizeAssumption
  <2> QED
    BY <2>2, <2>3, <2>4
<1>2. CASE ServerReset
  BY <1>2 DEF ServerReset, sHalves, ServerGone
<1> QED
  BY <1>1, <1>2

\* What the client does changes the wires and may close its socket.
LEMMA ServerOutside ==
  ASSUME Server!EndTypeOK, Client!EndTypeOK', ClientGone => ClientGone',
         UNCHANGED sVars
  PROVE  Server!EndTypeOK'
<1>1. /\ c2s' \in Seq(ServerEnd!RawFrame)
      /\ s2c' \in Seq(ServerEnd!RawFrame)
  BY DEF Client!EndTypeOK, Client!LinkTypeOK, Client!RawFrame, Client!OpCode, Client!Data,
    Client!Control, Client!Reserved, Client!Payload, Client!Unit, Client!DeflateUnit,
    ServerEnd!RawFrame, ServerEnd!OpCode, ServerEnd!Data, ServerEnd!Control,
    ServerEnd!Reserved, ServerEnd!Payload, ServerEnd!Unit, ServerEnd!DeflateUnit
<1>2. /\ UNCHANGED <<sLock, sChan, sRx, sBroken>>
      /\ UNCHANGED ServerEnd!readVars
      /\ UNCHANGED ServerEnd!userVars
  BY DEF sVars, sHalves, ServerEnd!readVars, ServerEnd!userVars, ServerEnd!writeVars
<1>3. ClientGone' \in BOOLEAN
  BY DEF ClientGone
<1>4. ServerEnd!EndTypeOK
  BY SameServer
<1>5. ServerEnd!EndTypeOK'
  BY <1>1, <1>2, <1>3, <1>4, ServerEnd!OutsideType, ServerAssumptions,
    ByteAssumption, SizeAssumption
<1> QED
  BY <1>5, SameServer

(***************************************************************************)
(* The connection.                                                         *)
(***************************************************************************)
LEMMA StepType == TypeOK /\ [Next]_vars => TypeOK'
<1> SUFFICES ASSUME TypeOK, [Next]_vars PROVE TypeOK'
  OBVIOUS
<1>1. Client!EndTypeOK /\ Server!EndTypeOK
  BY DEF TypeOK
<1>2. CASE ClientStep \/ ClientReset
  <2>1. UNCHANGED sVars
    BY <1>2 DEF ClientStep, ClientReset
  <2> QED
    BY <1>1, <1>2, <2>1, ClientStepType, ClientLeaves, ServerOutside DEF TypeOK
<1>3. CASE ServerStep \/ ServerReset
  <2>1. UNCHANGED cVars
    BY <1>3 DEF ServerStep, ServerReset
  <2> QED
    BY <1>1, <1>3, <2>1, ServerStepType, ServerLeaves, ClientOutside DEF TypeOK
<1>4. CASE UNCHANGED vars
  BY <1>1, <1>4
  DEF vars, cVars, cHalves, sVars, sHalves, TypeOK, ClientGone, ServerGone,
    Client!EndTypeOK, Client!LinkTypeOK, Client!ReadTypeOK, Client!HandTypeOK,
    Client!WriteTypeOK, Server!EndTypeOK, Server!LinkTypeOK,
    Server!ReadTypeOK, Server!HandTypeOK, Server!WriteTypeOK
<1> QED
  BY <1>2, <1>3, <1>4 DEF Next, ClientStep, ServerStep

\* Two ends that write to each other stay in the places that fit what they
\* hold, whatever either of them calls and drops: a frame on a wire is one
\* that an end may write, a task has the mutex exactly while it writes, and
\* only a socket whose other end is closed is ever reset (connection.rs,
\* handshake.rs:91-137).
THEOREM TypeCorrect == Spec => []TypeOK
<1>1. Init => TypeOK
  BY ClientInitType, ServerInitType DEF TypeOK
<1> QED
  BY <1>1, StepType, PTL DEF Spec

(***************************************************************************)
(* What the two ends have agreed on.                                       *)
(***************************************************************************)
Agreement == INSTANCE ExtensionProofs

LEMMA SameReads ==
  \A e : Negotiation!Reads(e) = Agreement!Reads(e)
<1>1. \A s, name :
        Negotiation!LastNamed(s, name) = Agreement!LastNamed(s, name)
  BY Zenon
  DEF Negotiation!LastNamed, Agreement!LastNamed, Negotiation!Max,
    Agreement!Max
<1>2. \A params : Negotiation!parse_extensions(params)
                    = Agreement!parse_extensions(params)
  BY <1>1
  DEF Negotiation!parse_extensions, Agreement!parse_extensions,
    Negotiation!FlagIn, Agreement!FlagIn, Negotiation!WidthIn,
    Agreement!WidthIn, Negotiation!Garbled, Agreement!Garbled
<1>3. \A e : Negotiation!HeaderValue(e) = Agreement!HeaderValue(e)
  BY DEF Negotiation!HeaderValue, Agreement!HeaderValue, Negotiation!IfTrue,
    Agreement!IfTrue, Negotiation!IfSome, Agreement!IfSome, Negotiation!P,
    Agreement!P, Negotiation!IsTrue, Agreement!IsTrue
<1> QED
  BY <1>2, <1>3, Zenon DEF Negotiation!Reads, Agreement!Reads

LEMMA SameSettings ==
  /\ Negotiation!Settings = Agreement!Settings
  /\ Negotiation!Param = Agreement!Param
BY DEF Negotiation!Settings, Agreement!Settings, Negotiation!Param,
  Agreement!Param, Negotiation!Flag, Agreement!Flag, Negotiation!Width,
  Agreement!Width, Negotiation!Garbled, Agreement!Garbled

\* Both ends compress, or neither does, and then with the same settings.
LEMMA SameExtensions ==
  /\ ClientDeflates = ServerDeflates
  /\ ServerDeflates => ClientExtensions = ServerExtensions
<1>1. \A own, asked : Negotiation!merge_extensions(own, asked)
                        = Agreement!merge_extensions(own, asked)
  BY DEF Negotiation!merge_extensions, Agreement!merge_extensions,
    Negotiation!And, Agreement!And, Negotiation!Narrower, Agreement!Narrower
<1>2. \A e : Negotiation!Deflates(e) <=> Agreement!Deflates(e)
  BY DEF Negotiation!Deflates, Agreement!Deflates
<1>3. /\ Negotiation!Settings = Agreement!Settings
      /\ Negotiation!Param = Agreement!Param
  BY SameSettings
<1>4. /\ ServerConfig \in {None} \cup Agreement!Settings
      /\ ClientConfig \in {None} \cup Agreement!Settings
  BY <1>3, ConfigAssumption
<1>5. /\ Agreement!Deflates(ServerExtensions) =>
           Agreement!Reads(ServerExtensions) = ServerExtensions
      /\ ~Agreement!Deflates(ServerExtensions) =>
           Agreement!Reads(ServerExtensions) = None
  BY <1>1, <1>3, <1>4, SameReads, AbsentAssumption, Agreement!AgreedReadsBack
  DEF ServerExtensions
<1> QED
  BY <1>2, <1>5, SameReads
  DEF ClientDeflates, ServerDeflates, ClientExtensions, Negotiation!Deflates,
    Agreement!Deflates

(***************************************************************************)
(* Under which assumptions about what the users have set and what they     *)
(* call.                                                                   *)
(***************************************************************************)
CodersFit ==
  ServerDeflates => /\ ServerDecoder.resets => ClientEncoder.resets
                    /\ ClientDecoder.resets => ServerEncoder.resets

\* The decoders forget nothing unless both users have set
\* client_no_context_takeover (extensions.rs:85-117, handshake.rs:61-77).
LEMMA ContextsKept ==
  ASSUME \/ ServerConfig = None
         \/ ServerConfig.client_no_context_takeover = None
         \/ ClientConfig = None
         \/ ClientConfig.client_no_context_takeover # TRUE
  PROVE  CodersFit
<1> SUFFICES ASSUME ServerDeflates
             PROVE  ~ServerDecoder.resets /\ ~ClientDecoder.resets
  BY DEF CodersFit
<1>1. ClientDecoder = ServerDecoder
  BY SameExtensions DEF ClientDecoder, ServerDecoder
<1>2. ServerExtensions # None
  BY DEF ServerDeflates, Negotiation!Deflates
<1>3. ServerConfig # None /\ Negotiation!Reads(ClientConfig) # None
  BY <1>2 DEF ServerExtensions, Negotiation!merge_extensions
<1>4. ClientConfig # None /\ ClientConfig \in Agreement!Settings
      /\ ServerConfig \in Agreement!Settings
  BY <1>3, SameSettings, ConfigAssumption DEF Negotiation!Reads
<1>5. Negotiation!Reads(ClientConfig).client_no_context_takeover
        = Agreement!OnlyTrue(ClientConfig.client_no_context_takeover)
  <2>1. /\ Agreement!Reads(ClientConfig) # None
        /\ Agreement!Reads(ClientConfig)
             = IF Agreement!Deflates(ClientConfig)
               THEN Agreement!AsRead(ClientConfig) ELSE None
    BY <1>3, <1>4, SameReads, AbsentAssumption, SameSettings,
      Agreement!ReadsType
  <2>2. Negotiation!Reads(ClientConfig) = Agreement!AsRead(ClientConfig)
    BY <2>1, SameReads
  <2> QED
    BY <2>2 DEF Agreement!AsRead
<1>6. ServerExtensions.client_no_context_takeover
        = Negotiation!And(ServerConfig.client_no_context_takeover,
            Agreement!OnlyTrue(ClientConfig.client_no_context_takeover))
  BY <1>3, <1>5 DEF ServerExtensions, Negotiation!merge_extensions
<1>7. ServerExtensions.client_no_context_takeover # TRUE
  BY <1>3, <1>4, <1>6, AbsentAssumption
  DEF Negotiation!And, Agreement!OnlyTrue, Agreement!IsTrue
<1> QED
  BY <1>1, <1>2, <1>7
  DEF ServerDecoder, Negotiation!DecoderOf, Negotiation!Coder,
    Negotiation!IsTrue

CallsFit ==
  \A c \in ClientLargeCalls \cup ServerLargeCalls :
    c.data # <<>> /\ ~(ServerDeflates /\ Len(c.data) > Threshold)

\* Whether what comes from the client is decoded without a window to keep: its
\* encoder has none, or without compression nothing depends on it.
ToServerResets == ClientEncoder.resets \/ ServerDecoder.resets

\* The frames on the wire lead from where the server stands to where the
\* client has got to, along what the client's user has said.
ToServerCourse ==
  \E told \in Seq(ClientEnd!Spoken), q \in ClientEnd!Place :
    /\ told = cSent
    /\ \A i \in 1..Len(told) : ClientEnd!Asked(told[i])
    /\ ClientEnd!Outbound(q)
    /\ ServerEnd!Inbound(told, ToServerResets, q)

\* Whether what comes from the server is decoded without a window to keep: its
\* encoder has none, or without compression nothing depends on it.
ToClientResets == ServerEncoder.resets \/ ClientDecoder.resets

\* The frames on the wire lead from where the client stands to where the
\* server has got to, along what the server's user has said.
ToClientCourse ==
  \E told \in Seq(ServerEnd!Spoken), q \in ServerEnd!Place :
    /\ told = sSent
    /\ \A i \in 1..Len(told) : ServerEnd!Asked(told[i])
    /\ ServerEnd!Outbound(q)
    /\ ClientEnd!Inbound(told, ToClientResets, q)

(***************************************************************************)
(* What the client says to the server.                                     *)
(***************************************************************************)

LEMMA ToServerWords ==
  /\ ServerEnd!Spoken = ClientEnd!Spoken
  /\ ServerEnd!Place = ClientEnd!Place
  /\ ServerEnd!RawFrame = ClientEnd!RawFrame
  /\ ToServerResets \in BOOLEAN
  /\ ServerEnd!Follows(ToServerResets)
<1>1. ToServerResets \in BOOLEAN /\ ServerEnd!Follows(ToServerResets)
  BY ClientAssumptions, ServerAssumptions DEF ToServerResets, ServerEnd!Follows
<1>2. /\ ServerEnd!Spoken = ClientEnd!Spoken
      /\ ServerEnd!Place = ClientEnd!Place
  BY DEF ServerEnd!Spoken, ClientEnd!Spoken, ServerEnd!Data, ClientEnd!Data,
    ServerEnd!Place, ClientEnd!Place
<1>3. ServerEnd!RawFrame = ClientEnd!RawFrame
  BY DEF ServerEnd!RawFrame, ServerEnd!OpCode, ServerEnd!Data,
    ServerEnd!Control, ServerEnd!Reserved, ServerEnd!Payload, ServerEnd!Unit,
    ServerEnd!DeflateUnit, ClientEnd!RawFrame, ClientEnd!OpCode,
    ClientEnd!Data, ClientEnd!Control, ClientEnd!Reserved, ClientEnd!Payload,
    ClientEnd!Unit, ClientEnd!DeflateUnit
<1> QED
  BY <1>1, <1>2, <1>3

\* A frame carries the same for the client that writes it as for the server
\* that reads it.
LEMMA ToServerCarries ==
  ASSUME CodersFit, NEW told, NEW p, NEW f, NEW q,
         ClientEnd!Carries(told, ClientEncoder.resets, p, f, q)
  PROVE  ServerEnd!Carries(told, ToServerResets, p, f, q)
<1>1. \A data : ClientEnd!Compresses(data) = ServerEnd!Compresses(data)
  BY SameExtensions DEF ClientEnd!Compresses, ServerEnd!Compresses
<1>2. \A m, w : ClientEnd!Coded(m, w) = ServerEnd!Coded(m, w)
  BY <1>1
  DEF ClientEnd!Coded, ServerEnd!Coded, ClientEnd!Deflated, ServerEnd!Deflated
<1>3. \A fin, op, rsv1, payload :
        ClientEnd!WireFrame(fin, op, rsv1, payload)
          = ServerEnd!WireFrame(fin, op, rsv1, payload)
  BY DEF ClientEnd!WireFrame, ServerEnd!WireFrame
<1>4. \A m, e, r, to :
        ClientEnd!Part(m, e, r, to) = ServerEnd!Part(m, e, r, to)
  BY <1>1, <1>3, Zenon DEF ClientEnd!Part, ServerEnd!Part
<1>5. \A n, w, o : ClientEnd!At(n, w, o) = ServerEnd!At(n, w, o)
  BY DEF ClientEnd!At, ServerEnd!At
<1>6. ClientEnd!Passed(told, ClientEncoder.resets, p)
        = ServerEnd!Passed(told, ToServerResets, p)
  <2>1. ServerEnd!Compresses(told[p.n].data) =>
          ToServerResets = ClientEncoder.resets
    BY SameExtensions, ClientAssumptions, ServerAssumptions
    DEF CodersFit, ToServerResets, ServerEnd!Compresses
  <2> QED
    BY <1>1, <1>5, <2>1 DEF ClientEnd!Passed, ServerEnd!Passed
<1>7. ClientEnd!CarriesBytes(told, ClientEncoder.resets, p, f, q)
        => ServerEnd!CarriesBytes(told, ToServerResets, p, f, q)
  BY <1>2, <1>4, <1>5, <1>6, Zenon
  DEF ClientEnd!CarriesBytes, ServerEnd!CarriesBytes
<1>8. /\ ClientEnd!CloseFrame = ServerEnd!CloseFrame
      /\ ClientEnd!PingFrame = ServerEnd!PingFrame
      /\ ClientEnd!PongFrame(<<>>) = ServerEnd!PongFrame(<<>>)
  BY <1>3
  DEF ClientEnd!CloseFrame, ServerEnd!CloseFrame, ClientEnd!PingFrame,
    ServerEnd!PingFrame, ClientEnd!PongFrame, ServerEnd!PongFrame
<1> QED
  BY <1>7, <1>8 DEF ClientEnd!Carries, ServerEnd!Carries

LEMMA ToServerInit == Init => ToServerCourse
<1> SUFFICES ASSUME Init PROVE ToServerCourse
  OBVIOUS
<1> DEFINE q == ClientEnd!At(1, 0, 0)
<1>1. ClientEnd!EndInit /\ ServerEnd!EndInit /\ c2s = <<>> /\ s2c = <<>>
  BY SameClient, SameServer DEF Init
<1>2. /\ cSent = <<>> /\ ClientEnd!Outbound(q)
  BY <1>1, ClientEnd!CourseBegins, ClientAssumptions, ByteAssumption,
    SizeAssumption
<1>3. ServerEnd!Inbound(<<>>, ToServerResets, ServerEnd!At(1, 0, 0))
  BY <1>1, ServerEnd!CourseBegins, ServerAssumptions, ByteAssumption,
    SizeAssumption
<1>4. q \in ClientEnd!Place /\ q = ServerEnd!At(1, 0, 0)
  BY DEF ClientEnd!Place, ClientEnd!At, ServerEnd!At
<1>5. /\ <<>> \in Seq(ClientEnd!Spoken)
      /\ \A i \in 1..Len(<<>>) : ClientEnd!Asked(<<>>[i])
  <2>1. 1..Len(<<>>) = {}
    OBVIOUS
  <2> QED
    BY <2>1
<1> HIDE DEF q
<1> QED
  BY <1>2, <1>3, <1>4, <1>5 DEF ToServerCourse

\* The client goes on.
LEMMA ToServerClient ==
  ASSUME CodersFit, CallsFit, TypeOK, ToServerCourse, ToClientCourse,
         ClientStep
  PROVE  /\ ToServerCourse'
         /\ \/ cSent' = cSent
            \/ \E m : ClientEnd!Asked(m) /\ cSent' = Append(cSent, m)
<1>1. PICK told \in Seq(ClientEnd!Spoken), q \in ClientEnd!Place :
        /\ told = cSent
        /\ \A i \in 1..Len(told) : ClientEnd!Asked(told[i])
        /\ ClientEnd!Outbound(q)
        /\ ServerEnd!Inbound(told, ToServerResets, q)
  BY DEF ToServerCourse
<1>2. /\ ClientEnd!EndTypeOK /\ ServerEnd!EndTypeOK
      /\ ClientEnd!EndNext /\ UNCHANGED cBroken
      /\ UNCHANGED <<sChan, sRx, sGot>> /\ UNCHANGED ServerEnd!readVars
  BY SameClient, SameServer
  DEF TypeOK, ClientStep, sVars, sHalves, ServerEnd!readVars
<1>3. ClientEnd!RepliesPlainly
  BY DEF ToClientCourse, ClientEnd!Inbound
<1>4. ClientEnd!PlainLargeCalls
  BY SameExtensions DEF CallsFit, ClientEnd!PlainLargeCalls, ClientEnd!Compresses
<1>5. /\ \/ cSent' = cSent
         \/ \E m : ClientEnd!Asked(m) /\ cSent' = Append(cSent, m)
      /\ \/ c2s' = c2s /\ ClientEnd!Outbound(q)'
         \/ \E f \in ClientEnd!RawFrame, r \in ClientEnd!Place :
              /\ c2s' = Append(c2s, f) /\ cSent' = cSent
              /\ ClientEnd!Carries(cSent, ClientEncoder.resets, q, f, r)
              /\ ClientEnd!Outbound(r)'
  BY <1>1, <1>2, <1>3, <1>4, ClientEnd!OutboundStep, ClientAssumptions,
    ByteAssumption, SizeAssumption
<1>6. CASE c2s' = c2s /\ ClientEnd!Outbound(q)' /\ cSent' = cSent
  <2>1. ServerEnd!Inbound(told, ToServerResets, q)'
    BY <1>1, <1>2, <1>6, ServerEnd!InboundAsBefore, ServerAssumptions,
      ByteAssumption, SizeAssumption
  <2> QED
    BY <1>1, <1>6, <2>1 DEF ToServerCourse
<1>7. ASSUME c2s' = c2s, ClientEnd!Outbound(q)',
             NEW m, ClientEnd!Asked(m), cSent' = Append(cSent, m)
      PROVE  ToServerCourse'
  <2>1. m \in ClientEnd!Spoken /\ m \in ServerEnd!Spoken
    BY <1>7, ClientEnd!AskedType, ToServerWords, ClientAssumptions,
      ByteAssumption, SizeAssumption
  <2>2. told \in Seq(ServerEnd!Spoken)
    BY ToServerWords
  <2>3. ServerEnd!Inbound(Append(told, m), ToServerResets, q)'
    BY <1>1, <1>2, <1>7, <2>1, <2>2, ServerEnd!MoreIsSaid, ServerAssumptions,
      ByteAssumption, SizeAssumption
  <2>4. /\ Append(told, m) \in Seq(ClientEnd!Spoken)
        /\ Append(told, m) = cSent'
        /\ \A i \in 1..Len(Append(told, m)) :
             ClientEnd!Asked(Append(told, m)[i])
    <3>1. /\ \A i \in 1..Len(told) : Append(told, m)[i] = told[i]
          /\ \A i \in 1..Len(Append(told, m)) :
               i \in 1..Len(told) \/ Append(told, m)[i] = m
      OBVIOUS
    <3> QED
      BY <1>1, <1>7, <2>1, <3>1
  <2> QED
    BY <1>7, <2>3, <2>4 DEF ToServerCourse
<1>8. ASSUME NEW f \in ClientEnd!RawFrame, NEW r \in ClientEnd!Place,
             c2s' = Append(c2s, f), cSent' = cSent, ClientEnd!Outbound(r)',
             ClientEnd!Carries(cSent, ClientEncoder.resets, q, f, r)
      PROVE  ToServerCourse'
  <2>1. ServerEnd!Carries(told, ToServerResets, q, f, r)
    BY <1>1, <1>8, ToServerCarries
  <2>2. f \in ServerEnd!RawFrame /\ r \in ServerEnd!Place
    BY ToServerWords
  <2>3. ServerEnd!Inbound(told, ToServerResets, r)'
    BY <1>1, <1>2, <1>8, <2>1, <2>2, ServerEnd!FrameComes, ServerAssumptions,
      ByteAssumption, SizeAssumption
  <2> QED
    BY <1>1, <1>8, <2>3 DEF ToServerCourse
<1> QED
  BY <1>5, <1>6, <1>7, <1>8

\* The server goes on.
LEMMA ToServerServer ==
  ASSUME TypeOK, ToServerCourse, ServerStep
  PROVE  ToServerCourse'
<1>1. PICK told \in Seq(ClientEnd!Spoken), q \in ClientEnd!Place :
        /\ told = cSent
        /\ \A i \in 1..Len(told) : ClientEnd!Asked(told[i])
        /\ ClientEnd!Outbound(q)
        /\ ServerEnd!Inbound(told, ToServerResets, q)
  BY DEF ToServerCourse
<1>2. /\ ServerEnd!EndTypeOK /\ ServerEnd!EndNext /\ UNCHANGED cVars
      /\ told \in Seq(ServerEnd!Spoken)
  BY SameServer, ToServerWords DEF TypeOK, ServerStep
<1>3. ServerEnd!Inbound(told, ToServerResets, q)'
  BY <1>1, <1>2, ServerEnd!InboundStep, ToServerWords, ServerAssumptions,
    ByteAssumption, SizeAssumption
<1>4. ClientEnd!Outbound(q)' /\ cSent' = cSent
  BY <1>1, <1>2
  DEF cVars, cHalves, ClientEnd!Outbound, ClientEnd!SocketClosed,
    ClientEnd!Destination
<1> QED
  BY <1>1, <1>3, <1>4 DEF ToServerCourse

\* Once TCP has reset the connection for the client, or the client has closed
\* its socket, it need not get anywhere.
LEMMA ToServerReset ==
  ASSUME TypeOK, ToServerCourse,
         ClientReset \/ ServerReset \/ UNCHANGED vars
  PROVE  ToServerCourse'
<1>1. PICK told \in Seq(ClientEnd!Spoken), q \in ClientEnd!Place :
        /\ told = cSent
        /\ \A i \in 1..Len(told) : ClientEnd!Asked(told[i])
        /\ ClientEnd!Outbound(q)
        /\ ServerEnd!Inbound(told, ToServerResets, q)
  BY DEF ToServerCourse
<1>2. /\ UNCHANGED <<sChan, sRx, sGot>> /\ UNCHANGED ServerEnd!readVars
      /\ UNCHANGED cHalves
  BY DEF ClientReset, ServerReset, vars, cVars, sVars, sHalves, cHalves,
    ServerEnd!readVars
<1>3. CASE ClientReset \/ UNCHANGED vars
  <2>1. c2s' = c2s /\ (cBroken' \/ cBroken' = cBroken)
    BY <1>3 DEF ClientReset, Client!Reset, vars, cVars
  <2>2. ServerEnd!Inbound(told, ToServerResets, q)'
    BY <1>1, <1>2, <2>1, ServerEnd!InboundAsBefore, ServerAssumptions,
      ByteAssumption, SizeAssumption
  <2>3. ClientEnd!Outbound(q)' /\ cSent' = cSent
    BY <1>1, <1>2, <2>1
    DEF cHalves, ClientEnd!Outbound, ClientEnd!SocketClosed,
      ClientEnd!Destination
  <2> QED
    BY <1>1, <2>2, <2>3 DEF ToServerCourse
<1>4. CASE ServerReset
  <2>1. ServerEnd!EndTypeOK /\ ServerEnd!Reset /\ ClientGone
    BY <1>4, SameServer DEF TypeOK, ServerReset, Server!Reset
  <2>2. PICK r \in ServerEnd!Place :
          ServerEnd!Inbound(told, ToServerResets, r)'
    BY <1>1, <1>2, <2>1, ServerEnd!InboundReset, ServerAssumptions,
      ByteAssumption, SizeAssumption
  <2>3. cSent' = cSent /\ ClientEnd!Outbound(r)'
    BY <1>2, <2>1
    DEF cHalves, ClientGone, ClientEnd!Outbound, ClientEnd!SocketClosed
  <2> QED
    BY <1>1, <2>2, <2>3, ToServerWords DEF ToServerCourse
<1> QED
  BY <1>3, <1>4

(***************************************************************************)
(* What the server says to the client.                                     *)
(***************************************************************************)

LEMMA ToClientWords ==
  /\ ClientEnd!Spoken = ServerEnd!Spoken
  /\ ClientEnd!Place = ServerEnd!Place
  /\ ClientEnd!RawFrame = ServerEnd!RawFrame
  /\ ToClientResets \in BOOLEAN
  /\ ClientEnd!Follows(ToClientResets)
<1>1. ToClientResets \in BOOLEAN /\ ClientEnd!Follows(ToClientResets)
  BY ServerAssumptions, ClientAssumptions DEF ToClientResets, ClientEnd!Follows
<1>2. /\ ClientEnd!Spoken = ServerEnd!Spoken
      /\ ClientEnd!Place = ServerEnd!Place
  BY DEF ClientEnd!Spoken, ServerEnd!Spoken, ClientEnd!Data, ServerEnd!Data,
    ClientEnd!Place, ServerEnd!Place
<1>3. ClientEnd!RawFrame = ServerEnd!RawFrame
  BY DEF ClientEnd!RawFrame, ClientEnd!OpCode, ClientEnd!Data,
    ClientEnd!Control, ClientEnd!Reserved, ClientEnd!Payload, ClientEnd!Unit,
    ClientEnd!DeflateUnit, ServerEnd!RawFrame, ServerEnd!OpCode,
    ServerEnd!Data, ServerEnd!Control, ServerEnd!Reserved, ServerEnd!Payload,
    ServerEnd!Unit, ServerEnd!DeflateUnit
<1> QED
  BY <1>1, <1>2, <1>3

\* A frame carries the same for the server that writes it as for the client
\* that reads it.
LEMMA ToClientCarries ==
  ASSUME CodersFit, NEW told, NEW p, NEW f, NEW q,
         ServerEnd!Carries(told, ServerEncoder.resets, p, f, q)
  PROVE  ClientEnd!Carries(told, ToClientResets, p, f, q)
<1>1. \A data : ServerEnd!Compresses(data) = ClientEnd!Compresses(data)
  BY SameExtensions DEF ServerEnd!Compresses, ClientEnd!Compresses
<1>2. \A m, w : ServerEnd!Coded(m, w) = ClientEnd!Coded(m, w)
  BY <1>1
  DEF ServerEnd!Coded, ClientEnd!Coded, ServerEnd!Deflated, ClientEnd!Deflated
<1>3. \A fin, op, rsv1, payload :
        ServerEnd!WireFrame(fin, op, rsv1, payload)
          = ClientEnd!WireFrame(fin, op, rsv1, payload)
  BY DEF ServerEnd!WireFrame, ClientEnd!WireFrame
<1>4. \A m, e, r, to :
        ServerEnd!Part(m, e, r, to) = ClientEnd!Part(m, e, r, to)
  BY <1>1, <1>3, Zenon DEF ServerEnd!Part, ClientEnd!Part
<1>5. \A n, w, o : ServerEnd!At(n, w, o) = ClientEnd!At(n, w, o)
  BY DEF ServerEnd!At, ClientEnd!At
<1>6. ServerEnd!Passed(told, ServerEncoder.resets, p)
        = ClientEnd!Passed(told, ToClientResets, p)
  <2>1. ClientEnd!Compresses(told[p.n].data) =>
          ToClientResets = ServerEncoder.resets
    BY SameExtensions, ServerAssumptions, ClientAssumptions
    DEF CodersFit, ToClientResets, ClientEnd!Compresses
  <2> QED
    BY <1>1, <1>5, <2>1 DEF ServerEnd!Passed, ClientEnd!Passed
<1>7. ServerEnd!CarriesBytes(told, ServerEncoder.resets, p, f, q)
        => ClientEnd!CarriesBytes(told, ToClientResets, p, f, q)
  BY <1>2, <1>4, <1>5, <1>6, Zenon
  DEF ServerEnd!CarriesBytes, ClientEnd!CarriesBytes
<1>8. /\ ServerEnd!CloseFrame = ClientEnd!CloseFrame
      /\ ServerEnd!PingFrame = ClientEnd!PingFrame
      /\ ServerEnd!PongFrame(<<>>) = ClientEnd!PongFrame(<<>>)
  BY <1>3
  DEF ServerEnd!CloseFrame, ClientEnd!CloseFrame, ServerEnd!PingFrame,
    ClientEnd!PingFrame, ServerEnd!PongFrame, ClientEnd!PongFrame
<1> QED
  BY <1>7, <1>8 DEF ServerEnd!Carries, ClientEnd!Carries

LEMMA ToClientInit == Init => ToClientCourse
<1> SUFFICES ASSUME Init PROVE ToClientCourse
  OBVIOUS
<1> DEFINE q == ServerEnd!At(1, 0, 0)
<1>1. ServerEnd!EndInit /\ ClientEnd!EndInit /\ s2c = <<>> /\ c2s = <<>>
  BY SameServer, SameClient DEF Init
<1>2. /\ sSent = <<>> /\ ServerEnd!Outbound(q)
  BY <1>1, ServerEnd!CourseBegins, ServerAssumptions, ByteAssumption,
    SizeAssumption
<1>3. ClientEnd!Inbound(<<>>, ToClientResets, ClientEnd!At(1, 0, 0))
  BY <1>1, ClientEnd!CourseBegins, ClientAssumptions, ByteAssumption,
    SizeAssumption
<1>4. q \in ServerEnd!Place /\ q = ClientEnd!At(1, 0, 0)
  BY DEF ServerEnd!Place, ServerEnd!At, ClientEnd!At
<1>5. /\ <<>> \in Seq(ServerEnd!Spoken)
      /\ \A i \in 1..Len(<<>>) : ServerEnd!Asked(<<>>[i])
  <2>1. 1..Len(<<>>) = {}
    OBVIOUS
  <2> QED
    BY <2>1
<1> HIDE DEF q
<1> QED
  BY <1>2, <1>3, <1>4, <1>5 DEF ToClientCourse

\* The server goes on.
LEMMA ToClientServer ==
  ASSUME CodersFit, CallsFit, TypeOK, ToClientCourse, ToServerCourse,
         ServerStep
  PROVE  /\ ToClientCourse'
         /\ \/ sSent' = sSent
            \/ \E m : ServerEnd!Asked(m) /\ sSent' = Append(sSent, m)
<1>1. PICK told \in Seq(ServerEnd!Spoken), q \in ServerEnd!Place :
        /\ told = sSent
        /\ \A i \in 1..Len(told) : ServerEnd!Asked(told[i])
        /\ ServerEnd!Outbound(q)
        /\ ClientEnd!Inbound(told, ToClientResets, q)
  BY DEF ToClientCourse
<1>2. /\ ServerEnd!EndTypeOK /\ ClientEnd!EndTypeOK
      /\ ServerEnd!EndNext /\ UNCHANGED sBroken
      /\ UNCHANGED <<cChan, cRx, cGot>> /\ UNCHANGED ClientEnd!readVars
  BY SameServer, SameClient
  DEF TypeOK, ServerStep, cVars, cHalves, ClientEnd!readVars
<1>3. ServerEnd!RepliesPlainly
  BY DEF ToServerCourse, ServerEnd!Inbound
<1>4. ServerEnd!PlainLargeCalls
  BY SameExtensions DEF CallsFit, ServerEnd!PlainLargeCalls, ServerEnd!Compresses
<1>5. /\ \/ sSent' = sSent
         \/ \E m : ServerEnd!Asked(m) /\ sSent' = Append(sSent, m)
      /\ \/ s2c' = s2c /\ ServerEnd!Outbound(q)'
         \/ \E f \in ServerEnd!RawFrame, r \in ServerEnd!Place :
              /\ s2c' = Append(s2c, f) /\ sSent' = sSent
              /\ ServerEnd!Carries(sSent, ServerEncoder.resets, q, f, r)
              /\ ServerEnd!Outbound(r)'
  BY <1>1, <1>2, <1>3, <1>4, ServerEnd!OutboundStep, ServerAssumptions,
    ByteAssumption, SizeAssumption
<1>6. CASE s2c' = s2c /\ ServerEnd!Outbound(q)' /\ sSent' = sSent
  <2>1. ClientEnd!Inbound(told, ToClientResets, q)'
    BY <1>1, <1>2, <1>6, ClientEnd!InboundAsBefore, ClientAssumptions,
      ByteAssumption, SizeAssumption
  <2> QED
    BY <1>1, <1>6, <2>1 DEF ToClientCourse
<1>7. ASSUME s2c' = s2c, ServerEnd!Outbound(q)',
             NEW m, ServerEnd!Asked(m), sSent' = Append(sSent, m)
      PROVE  ToClientCourse'
  <2>1. m \in ServerEnd!Spoken /\ m \in ClientEnd!Spoken
    BY <1>7, ServerEnd!AskedType, ToClientWords, ServerAssumptions,
      ByteAssumption, SizeAssumption
  <2>2. told \in Seq(ClientEnd!Spoken)
    BY ToClientWords
  <2>3. ClientEnd!Inbound(Append(told, m), ToClientResets, q)'
    BY <1>1, <1>2, <1>7, <2>1, <2>2, ClientEnd!MoreIsSaid, ClientAssumptions,
      ByteAssumption, SizeAssumption
  <2>4. /\ Append(told, m) \in Seq(ServerEnd!Spoken)
        /\ Append(told, m) = sSent'
        /\ \A i \in 1..Len(Append(told, m)) :
             ServerEnd!Asked(Append(told, m)[i])
    <3>1. /\ \A i \in 1..Len(told) : Append(told, m)[i] = told[i]
          /\ \A i \in 1..Len(Append(told, m)) :
               i \in 1..Len(told) \/ Append(told, m)[i] = m
      OBVIOUS
    <3> QED
      BY <1>1, <1>7, <2>1, <3>1
  <2> QED
    BY <1>7, <2>3, <2>4 DEF ToClientCourse
<1>8. ASSUME NEW f \in ServerEnd!RawFrame, NEW r \in ServerEnd!Place,
             s2c' = Append(s2c, f), sSent' = sSent, ServerEnd!Outbound(r)',
             ServerEnd!Carries(sSent, ServerEncoder.resets, q, f, r)
      PROVE  ToClientCourse'
  <2>1. ClientEnd!Carries(told, ToClientResets, q, f, r)
    BY <1>1, <1>8, ToClientCarries
  <2>2. f \in ClientEnd!RawFrame /\ r \in ClientEnd!Place
    BY ToClientWords
  <2>3. ClientEnd!Inbound(told, ToClientResets, r)'
    BY <1>1, <1>2, <1>8, <2>1, <2>2, ClientEnd!FrameComes, ClientAssumptions,
      ByteAssumption, SizeAssumption
  <2> QED
    BY <1>1, <1>8, <2>3 DEF ToClientCourse
<1> QED
  BY <1>5, <1>6, <1>7, <1>8

\* The client goes on.
LEMMA ToClientClient ==
  ASSUME TypeOK, ToClientCourse, ClientStep
  PROVE  ToClientCourse'
<1>1. PICK told \in Seq(ServerEnd!Spoken), q \in ServerEnd!Place :
        /\ told = sSent
        /\ \A i \in 1..Len(told) : ServerEnd!Asked(told[i])
        /\ ServerEnd!Outbound(q)
        /\ ClientEnd!Inbound(told, ToClientResets, q)
  BY DEF ToClientCourse
<1>2. /\ ClientEnd!EndTypeOK /\ ClientEnd!EndNext /\ UNCHANGED sVars
      /\ told \in Seq(ClientEnd!Spoken)
  BY SameClient, ToClientWords DEF TypeOK, ClientStep
<1>3. ClientEnd!Inbound(told, ToClientResets, q)'
  BY <1>1, <1>2, ClientEnd!InboundStep, ToClientWords, ClientAssumptions,
    ByteAssumption, SizeAssumption
<1>4. ServerEnd!Outbound(q)' /\ sSent' = sSent
  BY <1>1, <1>2
  DEF sVars, sHalves, ServerEnd!Outbound, ServerEnd!SocketClosed,
    ServerEnd!Destination
<1> QED
  BY <1>1, <1>3, <1>4 DEF ToClientCourse

\* Once TCP has reset the connection for the server, or the server has closed
\* its socket, it need not get anywhere.
LEMMA ToClientReset ==
  ASSUME TypeOK, ToClientCourse,
         ServerReset \/ ClientReset \/ UNCHANGED vars
  PROVE  ToClientCourse'
<1>1. PICK told \in Seq(ServerEnd!Spoken), q \in ServerEnd!Place :
        /\ told = sSent
        /\ \A i \in 1..Len(told) : ServerEnd!Asked(told[i])
        /\ ServerEnd!Outbound(q)
        /\ ClientEnd!Inbound(told, ToClientResets, q)
  BY DEF ToClientCourse
<1>2. /\ UNCHANGED <<cChan, cRx, cGot>> /\ UNCHANGED ClientEnd!readVars
      /\ UNCHANGED sHalves
  BY DEF ServerReset, ClientReset, vars, sVars, cVars, cHalves, sHalves,
    ClientEnd!readVars
<1>3. CASE ServerReset \/ UNCHANGED vars
  <2>1. s2c' = s2c /\ (sBroken' \/ sBroken' = sBroken)
    BY <1>3 DEF ServerReset, Server!Reset, vars, sVars
  <2>2. ClientEnd!Inbound(told, ToClientResets, q)'
    BY <1>1, <1>2, <2>1, ClientEnd!InboundAsBefore, ClientAssumptions,
      ByteAssumption, SizeAssumption
  <2>3. ServerEnd!Outbound(q)' /\ sSent' = sSent
    BY <1>1, <1>2, <2>1
    DEF sHalves, ServerEnd!Outbound, ServerEnd!SocketClosed,
      ServerEnd!Destination
  <2> QED
    BY <1>1, <2>2, <2>3 DEF ToClientCourse
<1>4. CASE ClientReset
  <2>1. ClientEnd!EndTypeOK /\ ClientEnd!Reset /\ ServerGone
    BY <1>4, SameClient DEF TypeOK, ClientReset, Client!Reset
  <2>2. PICK r \in ClientEnd!Place :
          ClientEnd!Inbound(told, ToClientResets, r)'
    BY <1>1, <1>2, <2>1, ClientEnd!InboundReset, ClientAssumptions,
      ByteAssumption, SizeAssumption
  <2>3. sSent' = sSent /\ ServerEnd!Outbound(r)'
    BY <1>2, <2>1
    DEF sHalves, ServerGone, ServerEnd!Outbound, ServerEnd!SocketClosed
  <2> QED
    BY <1>1, <2>2, <2>3, ToClientWords DEF ToClientCourse
<1> QED
  BY <1>3, <1>4

(***************************************************************************)
(* The messages of both directions.                                        *)
(***************************************************************************)
Courses == TypeOK /\ ToServerCourse /\ ToClientCourse

LEMMA CoursesInit == Init => Courses
BY ClientInitType, ServerInitType, ToServerInit, ToClientInit
DEF Courses, TypeOK

LEMMA CoursesStep ==
  ASSUME CodersFit, CallsFit, Courses, [Next]_vars
  PROVE  Courses'
<1>1. TypeOK'
  BY StepType DEF Courses
<1>2. ToServerCourse'
  BY ToServerClient, ToServerServer, ToServerReset DEF Courses, Next
<1>3. ToClientCourse'
  BY ToClientServer, ToClientClient, ToClientReset DEF Courses, Next
<1> QED
  BY <1>1, <1>2, <1>3 DEF Courses

\* What reaches the server's user, seen as the pipe of MessagePipe.
LEMMA ToServerMaps ==
  ASSUME CodersFit, CallsFit, Courses, [Next]_vars
  PROVE  [ToServer!Send \/ ToServer!Receive]_<<cSent, MessagesIn(sGot)>>
<1>1. PICK told \in Seq(ClientEnd!Spoken), q \in ClientEnd!Place :
        told = cSent /\ ServerEnd!Inbound(told, ToServerResets, q)
  BY DEF Courses, ToServerCourse
<1>2. /\ ServerEnd!EndTypeOK /\ told \in Seq(ServerEnd!Spoken)
      /\ sGot \in Seq(ServerEnd!Item)
  BY SameServer, ToServerWords DEF Courses, TypeOK, ServerEnd!EndTypeOK
<1>3. CASE ClientStep
  <2>1. sGot' = sGot
    BY <1>3 DEF ClientStep, sVars, sHalves
  <2>2. ASSUME NEW m, ClientEnd!Asked(m), cSent' = Append(cSent, m)
        PROVE  ToServer!Send
    <3>1. m \in Given(ClientMessages, ClientLargeCalls)
      BY <2>2 DEF Given, ClientEnd!Asked
    <3> QED
      BY <2>1, <2>2, <3>1 DEF ToServer!Send
  <2>3. \/ cSent' = cSent
        \/ \E m : ClientEnd!Asked(m) /\ cSent' = Append(cSent, m)
    BY <1>3, ToServerClient DEF Courses
  <2> QED
    BY <2>1, <2>2, <2>3
<1>4. CASE ServerStep
  <2>1. ServerEnd!EndNext /\ cSent' = cSent
    BY <1>4, SameServer DEF ServerStep, cVars, cHalves
  <2>2. CASE ServerEnd!NextItem
    <3> DEFINE item == Head(sChan)
    <3>1. /\ ~ServerEnd!Final(sGot) /\ sGot' = Append(sGot, item)
          /\ \/ item \in ServerEnd!Failure
             \/ /\ Len(sGot) + 1 \in 1..Len(told)
                /\ item = told[Len(sGot) + 1]
                /\ item \notin ServerEnd!Failure
      BY <1>1, <1>2, <2>2, ServerEnd!ItemTaken, ServerAssumptions,
        ByteAssumption, SizeAssumption
    <3> HIDE DEF item
    <3>2. \A i \in ServerEnd!Item :
            i \in ServerEnd!Failure <=> i.kind = "Err"
      BY DEF ServerEnd!Item, ServerEnd!Message, ServerEnd!Failure,
        ServerEnd!Data
    <3>3. MessagesIn(sGot) = sGot
      <4>1. sGot # <<>> => sGot[Len(sGot)] \in ServerEnd!Item
        BY <1>2
      <4> QED
        BY <3>1, <3>2, <4>1 DEF MessagesIn, ServerEnd!Final
    <3>4. /\ Len(sGot) \in Nat /\ Len(sGot') = Len(sGot) + 1
          /\ sGot'[Len(sGot')] = item /\ sGot' # <<>>
          /\ SubSeq(sGot', 1, Len(sGot)) = sGot
      <4>1. Len(sGot) \in Nat
        BY <1>2
      <4>2. /\ Len(Append(sGot, item)) = Len(sGot) + 1
            /\ Append(sGot, item)[Len(sGot) + 1] = item
            /\ Append(sGot, item) # <<>>
        BY <1>2
      <4>3. SubSeq(Append(sGot, item), 1, Len(sGot)) = sGot
        BY <1>2
      <4> QED
        BY <3>1, <4>1, <4>2, <4>3
    <3>5. CASE item \in ServerEnd!Failure
      <4>1. item.kind = "Err"
        BY <3>5 DEF ServerEnd!Failure
      <4>2. MessagesIn(sGot)' = sGot
        BY <3>4, <4>1 DEF MessagesIn
      <4> QED
        BY <2>1, <3>3, <4>2
    <3>6. CASE item \notin ServerEnd!Failure
      <4>1. /\ Len(sGot) < Len(cSent) /\ item = cSent[Len(sGot) + 1]
            /\ item \in ServerEnd!Spoken
        BY <1>1, <1>2, <3>1, <3>4, <3>6
      <4>2. item.kind # "Err"
        BY <4>1 DEF ServerEnd!Spoken, ServerEnd!Data
      <4>3. MessagesIn(sGot)' = sGot'
        BY <3>4, <4>2 DEF MessagesIn
      <4> QED
        BY <2>1, <3>1, <3>3, <4>1, <4>3 DEF ToServer!Receive
    <3> QED
      BY <3>5, <3>6
  <2>3. ServerEnd!NextItem \/ sGot' = sGot
    BY <2>1
    DEF ServerEnd!EndNext, ServerEnd!Reading, ServerEnd!userVars,
      ServerEnd!Writing, ServerEnd!NextNone, ServerEnd!DropReader
  <2> QED
    BY <2>1, <2>2, <2>3
<1>5. CASE ClientReset \/ ServerReset \/ UNCHANGED vars
  BY <1>5
  DEF ClientReset, ServerReset, vars, cVars, sVars, cHalves, sHalves
<1> QED
  BY <1>3, <1>4, <1>5 DEF Next

\* What reaches the client's user, seen as the pipe of MessagePipe.
LEMMA ToClientMaps ==
  ASSUME CodersFit, CallsFit, Courses, [Next]_vars
  PROVE  [ToClient!Send \/ ToClient!Receive]_<<sSent, MessagesIn(cGot)>>
<1>1. PICK told \in Seq(ServerEnd!Spoken), q \in ServerEnd!Place :
        told = sSent /\ ClientEnd!Inbound(told, ToClientResets, q)
  BY DEF Courses, ToClientCourse
<1>2. /\ ClientEnd!EndTypeOK /\ told \in Seq(ClientEnd!Spoken)
      /\ cGot \in Seq(ClientEnd!Item)
  BY SameClient, ToClientWords DEF Courses, TypeOK, ClientEnd!EndTypeOK
<1>3. CASE ServerStep
  <2>1. cGot' = cGot
    BY <1>3 DEF ServerStep, cVars, cHalves
  <2>2. ASSUME NEW m, ServerEnd!Asked(m), sSent' = Append(sSent, m)
        PROVE  ToClient!Send
    <3>1. m \in Given(ServerMessages, ServerLargeCalls)
      BY <2>2 DEF Given, ServerEnd!Asked
    <3> QED
      BY <2>1, <2>2, <3>1 DEF ToClient!Send
  <2>3. \/ sSent' = sSent
        \/ \E m : ServerEnd!Asked(m) /\ sSent' = Append(sSent, m)
    BY <1>3, ToClientServer DEF Courses
  <2> QED
    BY <2>1, <2>2, <2>3
<1>4. CASE ClientStep
  <2>1. ClientEnd!EndNext /\ sSent' = sSent
    BY <1>4, SameClient DEF ClientStep, sVars, sHalves
  <2>2. CASE ClientEnd!NextItem
    <3> DEFINE item == Head(cChan)
    <3>1. /\ ~ClientEnd!Final(cGot) /\ cGot' = Append(cGot, item)
          /\ \/ item \in ClientEnd!Failure
             \/ /\ Len(cGot) + 1 \in 1..Len(told)
                /\ item = told[Len(cGot) + 1]
                /\ item \notin ClientEnd!Failure
      BY <1>1, <1>2, <2>2, ClientEnd!ItemTaken, ClientAssumptions,
        ByteAssumption, SizeAssumption
    <3> HIDE DEF item
    <3>2. \A i \in ClientEnd!Item :
            i \in ClientEnd!Failure <=> i.kind = "Err"
      BY DEF ClientEnd!Item, ClientEnd!Message, ClientEnd!Failure,
        ClientEnd!Data
    <3>3. MessagesIn(cGot) = cGot
      <4>1. cGot # <<>> => cGot[Len(cGot)] \in ClientEnd!Item
        BY <1>2
      <4> QED
        BY <3>1, <3>2, <4>1 DEF MessagesIn, ClientEnd!Final
    <3>4. /\ Len(cGot) \in Nat /\ Len(cGot') = Len(cGot) + 1
          /\ cGot'[Len(cGot')] = item /\ cGot' # <<>>
          /\ SubSeq(cGot', 1, Len(cGot)) = cGot
      <4>1. Len(cGot) \in Nat
        BY <1>2
      <4>2. /\ Len(Append(cGot, item)) = Len(cGot) + 1
            /\ Append(cGot, item)[Len(cGot) + 1] = item
            /\ Append(cGot, item) # <<>>
        BY <1>2
      <4>3. SubSeq(Append(cGot, item), 1, Len(cGot)) = cGot
        BY <1>2
      <4> QED
        BY <3>1, <4>1, <4>2, <4>3
    <3>5. CASE item \in ClientEnd!Failure
      <4>1. item.kind = "Err"
        BY <3>5 DEF ClientEnd!Failure
      <4>2. MessagesIn(cGot)' = cGot
        BY <3>4, <4>1 DEF MessagesIn
      <4> QED
        BY <2>1, <3>3, <4>2
    <3>6. CASE item \notin ClientEnd!Failure
      <4>1. /\ Len(cGot) < Len(sSent) /\ item = sSent[Len(cGot) + 1]
            /\ item \in ClientEnd!Spoken
        BY <1>1, <1>2, <3>1, <3>4, <3>6
      <4>2. item.kind # "Err"
        BY <4>1 DEF ClientEnd!Spoken, ClientEnd!Data
      <4>3. MessagesIn(cGot)' = cGot'
        BY <3>4, <4>2 DEF MessagesIn
      <4> QED
        BY <2>1, <3>1, <3>3, <4>1, <4>3 DEF ToClient!Receive
    <3> QED
      BY <3>5, <3>6
  <2>3. ClientEnd!NextItem \/ cGot' = cGot
    BY <2>1
    DEF ClientEnd!EndNext, ClientEnd!Reading, ClientEnd!userVars,
      ClientEnd!Writing, ClientEnd!NextNone, ClientEnd!DropReader
  <2> QED
    BY <2>1, <2>2, <2>3
<1>5. CASE ServerReset \/ ClientReset \/ UNCHANGED vars
  BY <1>5
  DEF ServerReset, ClientReset, vars, sVars, cVars, sHalves, cHalves
<1> QED
  BY <1>3, <1>4, <1>5 DEF Next

\* What the client's user hands to its WSWriter comes out of the server's
\* WSReader: the same messages in the same order, none twice, none that was
\* not sent, whatever pings, closes and replies come in between, wherever the
\* connection breaks, with the encoder and the decoder at the two ends of it
\* in step (split.rs:79-183, read.rs:88-300).  The decoders must forget no
\* more than the encoders, and send_large_data_fragmented must have something
\* to send and nothing to compress.
THEOREM ServerHearsClient ==
  ASSUME CodersFit, CallsFit
  PROVE  Spec => ToServerIsPipe
<1>1. Init => Courses
  BY CoursesInit
<1>2. Courses /\ [Next]_vars => Courses'
  BY CoursesStep
<1>3. Courses /\ [Next]_vars =>
        [ToServer!Send \/ ToServer!Receive]_<<cSent, MessagesIn(sGot)>>
  BY ToServerMaps
<1>4. Init => ToServer!Init
  BY DEF Init, Client!EndInit, Client!WriteInit, Server!EndInit, MessagesIn,
    ToServer!Init
<1> QED
  BY <1>1, <1>2, <1>3, <1>4, PTL DEF Spec, ToServerIsPipe, ToServer!Spec

\* What the server's user hands to its WSWriter comes out of the client's
\* WSReader: the same messages in the same order, none twice, none that was
\* not sent, whatever pings, closes and replies come in between, wherever the
\* connection breaks, with the encoder and the decoder at the two ends of it
\* in step (split.rs:79-183, read.rs:88-300).  The decoders must forget no
\* more than the encoders, and send_large_data_fragmented must have something
\* to send and nothing to compress.
THEOREM ClientHearsServer ==
  ASSUME CodersFit, CallsFit
  PROVE  Spec => ToClientIsPipe
<1>1. Init => Courses
  BY CoursesInit
<1>2. Courses /\ [Next]_vars => Courses'
  BY CoursesStep
<1>3. Courses /\ [Next]_vars =>
        [ToClient!Send \/ ToClient!Receive]_<<sSent, MessagesIn(cGot)>>
  BY ToClientMaps
<1>4. Init => ToClient!Init
  BY DEF Init, Server!EndInit, Server!WriteInit, Client!EndInit, MessagesIn,
    ToClient!Init
<1> QED
  BY <1>1, <1>2, <1>3, <1>4, PTL DEF Spec, ToClientIsPipe, ToClient!Spec

(***************************************************************************)
(* Who is blamed for what.                                                 *)
(***************************************************************************)

\* Texts are text, and a message that may be sent is within the limits of the
\* other end also when it is compressed.
MessagesFit ==
  /\ \A m \in ClientMessages \cup ServerMessages :
       m.kind = "Text" => IsUtf8(m.data)
  /\ \A c \in ClientLargeCalls \cup ServerLargeCalls : IsUtf8(c.data)
  /\ ServerDeflates => DeflatedLen <= MaxMessageSize

LEMMA ServerBlameless ==
  ASSUME MessagesFit, Courses, ServerEnd!Blameless, [Next]_vars
  PROVE  ServerEnd!Blameless'
<1>1. PICK told \in Seq(ClientEnd!Spoken), q \in ClientEnd!Place :
        /\ told = cSent
        /\ \A i \in 1..Len(told) : ClientEnd!Asked(told[i])
        /\ ServerEnd!Inbound(told, ToServerResets, q)
  BY DEF Courses, ToServerCourse
<1>2. ASSUME NEW m, ClientEnd!Asked(m) PROVE ServerEnd!Sendable(m)
  <2>1. m.kind = "Text" => IsUtf8(m.data)
    BY <1>2 DEF ClientEnd!Asked, MessagesFit
  <2>2. IsUtf8(m.data) = ServerEnd!IsUtf8(m.data)
    BY DEF IsUtf8, ServerEnd!IsUtf8
  <2>3. Len(m.data) <= MaxMessageSize
    BY <1>2 DEF ClientEnd!Asked, ClientEnd!SizeAllowed
  <2>4. ServerEnd!Compresses(m.data) => DeflatedLen <= MaxMessageSize
    BY SameExtensions DEF MessagesFit, ServerEnd!Compresses
  <2> QED
    BY <2>1, <2>2, <2>3, <2>4 DEF ServerEnd!Sendable
<1>3. CASE ServerStep
  <2>1. ServerEnd!EndTypeOK /\ ServerEnd!EndNext
    BY <1>3, SameServer DEF Courses, TypeOK, ServerStep
  <2> QED
    BY <1>1, <1>2, <2>1, ToServerWords, ServerEnd!BlamelessStep,
      ServerAssumptions, ByteAssumption, SizeAssumption
<1>4. CASE ClientStep \/ ClientReset \/ ServerReset \/ UNCHANGED vars
  <2>1. UNCHANGED <<sGot, sChan, sPc, sHand, sRx>>
    BY <1>4
    DEF ClientStep, ClientReset, ServerReset, vars, sVars, sHalves
  <2> QED
    BY <2>1 DEF ServerEnd!Blameless, ServerEnd!Harmless
<1> QED
  BY <1>3, <1>4 DEF Next

LEMMA ServerHarmless ==
  ASSUME TypeOK, ServerEnd!Blameless
  PROVE  Errors(sGot) \subseteq {"IOError"}
<1>1. sGot \in Seq(ServerEnd!Item)
  BY SameServer DEF TypeOK, ServerEnd!EndTypeOK
<1>2. ASSUME NEW i \in 1..Len(sGot), sGot[i].kind = "Err"
      PROVE  sGot[i].error = "IOError"
  <2>1. sGot[i] \in ServerEnd!Failure
    BY <1>1, <1>2 DEF ServerEnd!Item, ServerEnd!Message, ServerEnd!Data
  <2>2. sGot[i] = ServerEnd!Err("IOError")
    BY <2>1 DEF ServerEnd!Blameless, ServerEnd!Harmless
  <2> QED
    BY <2>2 DEF ServerEnd!Err
<1> QED
  BY <1>2 DEF Errors

LEMMA ClientBlameless ==
  ASSUME MessagesFit, Courses, ClientEnd!Blameless, [Next]_vars
  PROVE  ClientEnd!Blameless'
<1>1. PICK told \in Seq(ServerEnd!Spoken), q \in ServerEnd!Place :
        /\ told = sSent
        /\ \A i \in 1..Len(told) : ServerEnd!Asked(told[i])
        /\ ClientEnd!Inbound(told, ToClientResets, q)
  BY DEF Courses, ToClientCourse
<1>2. ASSUME NEW m, ServerEnd!Asked(m) PROVE ClientEnd!Sendable(m)
  <2>1. m.kind = "Text" => IsUtf8(m.data)
    BY <1>2 DEF ServerEnd!Asked, MessagesFit
  <2>2. IsUtf8(m.data) = ClientEnd!IsUtf8(m.data)
    BY DEF IsUtf8, ClientEnd!IsUtf8
  <2>3. Len(m.data) <= MaxMessageSize
    BY <1>2 DEF ServerEnd!Asked, ServerEnd!SizeAllowed
  <2>4. ClientEnd!Compresses(m.data) => DeflatedLen <= MaxMessageSize
    BY SameExtensions DEF MessagesFit, ClientEnd!Compresses
  <2> QED
    BY <2>1, <2>2, <2>3, <2>4 DEF ClientEnd!Sendable
<1>3. CASE ClientStep
  <2>1. ClientEnd!EndTypeOK /\ ClientEnd!EndNext
    BY <1>3, SameClient DEF Courses, TypeOK, ClientStep
  <2> QED
    BY <1>1, <1>2, <2>1, ToClientWords, ClientEnd!BlamelessStep,
      ClientAssumptions, ByteAssumption, SizeAssumption
<1>4. CASE ServerStep \/ ServerReset \/ ClientReset \/ UNCHANGED vars
  <2>1. UNCHANGED <<cGot, cChan, cPc, cHand, cRx>>
    BY <1>4
    DEF ServerStep, ServerReset, ClientReset, vars, cVars, cHalves
  <2> QED
    BY <2>1 DEF ClientEnd!Blameless, ClientEnd!Harmless
<1> QED
  BY <1>3, <1>4 DEF Next

LEMMA ClientHarmless ==
  ASSUME TypeOK, ClientEnd!Blameless
  PROVE  Errors(cGot) \subseteq {"IOError"}
<1>1. cGot \in Seq(ClientEnd!Item)
  BY SameClient DEF TypeOK, ClientEnd!EndTypeOK
<1>2. ASSUME NEW i \in 1..Len(cGot), cGot[i].kind = "Err"
      PROVE  cGot[i].error = "IOError"
  <2>1. cGot[i] \in ClientEnd!Failure
    BY <1>1, <1>2 DEF ClientEnd!Item, ClientEnd!Message, ClientEnd!Data
  <2>2. cGot[i] = ClientEnd!Err("IOError")
    BY <2>1 DEF ClientEnd!Blameless, ClientEnd!Harmless
  <2> QED
    BY <2>2 DEF ClientEnd!Err
<1> QED
  BY <1>2 DEF Errors

\* Two ends with the same limits never accuse each other: whatever both users
\* call, drop and leave unread, the one error either of them can see is that
\* the connection is lost (read.rs:88-300).  The decoders must forget no more
\* than the encoders, send_large_data_fragmented must have a text to send and
\* nothing to compress, and a compressed message must be within the limit.
THEOREM NobodyAccused ==
  ASSUME CodersFit, CallsFit, MessagesFit
  PROVE  Spec => []NeverAccusePeer
<1> DEFINE Inv ==
      Courses /\ ClientEnd!Blameless /\ ServerEnd!Blameless
<1>1. Init => Inv
  <2>1. ASSUME Init PROVE ClientEnd!Blameless /\ ServerEnd!Blameless
    <3>1. /\ cGot = <<>> /\ cChan = <<>> /\ cPc = "read"
          /\ sGot = <<>> /\ sChan = <<>> /\ sPc = "read"
      BY <2>1
      DEF Init, Client!EndInit, Client!LinkInit, Client!ReadInit,
        Server!EndInit, Server!LinkInit, Server!ReadInit
    <3>2. 1..Len(<<>>) = {}
      OBVIOUS
    <3> QED
      BY <3>1, <3>2
      DEF ClientEnd!Blameless, ClientEnd!Harmless, ServerEnd!Blameless,
        ServerEnd!Harmless
  <2> QED
    BY <2>1, CoursesInit
<1>2. Inv /\ [Next]_vars => Inv'
  BY CoursesStep, ClientBlameless, ServerBlameless
<1>3. Inv => NeverAccusePeer
  BY ClientHarmless, ServerHarmless DEF Courses, NeverAccusePeer
<1> QED
  BY <1>1, <1>2, <1>3, PTL DEF Spec
=============================================================================
