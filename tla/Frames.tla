------------------------------- MODULE Frames -------------------------------
(***************************************************************************)
(* The vocabulary of a connection: bytes and payloads, frames as they      *)
(* travel on the wire, the messages and errors a user receives, and what   *)
(* DEFLATE does to a payload.  Bytes are model values.  Four of them are   *)
(* told apart, because the code tells them apart: Lead and Trail are the   *)
(* two halves of one two-byte character, so that a chunk boundary can fall *)
(* inside a character, and Junk is what a decoder makes of bytes that no   *)
(* encoder produced.                                                       *)
(***************************************************************************)
EXTENDS Integers, Sequences

CONSTANTS
    None,         \* the absent value (Rust's Option::None)
    Byte,         \* the bytes a payload is made of
    Lead, Trail,  \* the two bytes of a two-byte character
    Junk,         \* a byte that is never valid UTF-8
    DeflatedLen,  \* the length of a compressed payload
    ShortMax,     \* the largest length of the 7-bit length field: 125
    Unreadable    \* the outcome of a decompression that fails

ASSUME ByteAssumption == {Lead, Trail, Junk} \subseteq Byte
ASSUME SizeAssumption ==
    /\ DeflatedLen \in Nat \ {0}
    /\ ShortMax \in Nat

(***************************************************************************)
(* Payloads.  The i-th byte of the DEFLATE form of p is a unit that says   *)
(* what it is the i-th part of, and how many earlier messages the encoder  *)
(* had in its window when it compressed p: those bytes mean p to a decoder *)
(* with the same window, and nothing in any other order or number.         *)
(***************************************************************************)
DeflateUnit == [of : Seq(Byte), at : 1..DeflatedLen, window : Nat]
Unit == Byte \cup DeflateUnit
Payload == Seq(Unit)

Deflated(p, window) ==
    [i \in 1..DeflatedLen |-> [of |-> p, at |-> i, window |-> window]]

IsDeflated(p) ==
    /\ p # <<>>
    /\ p[1] \in DeflateUnit
    /\ p = Deflated(p[1].of, p[1].window)

\* The window of a decoder that was fed something it could not make sense of.
Astray == -1
Window == Nat \cup {Astray}

\* A failure is no payload.
ASSUME UnreadableAssumption == Unreadable \notin Payload

\* Can a decoder that has `window` messages behind it read p exactly?
Readable(p, window) ==
    /\ IsDeflated(p)
    /\ window # Astray
    /\ p[1].window \in {0, window}

\* What comes of bytes that refer to what the decoder does not have.  Nothing
\* is behind an empty window, and zlib says so.  In a window of other
\* messages it finds other bytes, or too few: DEFLATE has no checksum.  And
\* after foreign bytes the stream may have ended for the decoder (its output
\* is then dropped), or be in any other state.
Misreadings(window) ==
    {Unreadable} \cup (IF window = 0 THEN {} ELSE {<<Junk>>})
                 \cup (IF window = Astray THEN {<<>>} ELSE {})

\* What Decoder::decompress may return for p.  An encoder need not refer to
\* its window, so that p may be read by a decoder that lacks it.
Decompressions(p, window) ==
    IF Readable(p, window) THEN {p[1].of}
    ELSE IF IsDeflated(p) THEN {p[1].of} \cup Misreadings(window)
    ELSE Misreadings(Astray)

\* String::from_utf8 accepts p.
IsUtf8(p) ==
    \A i \in 1..Len(p) :
        /\ p[i] \in Byte \ {Junk}
        /\ p[i] = Lead => i < Len(p) /\ p[i + 1] = Trail
        /\ p[i] = Trail => i > 1 /\ p[i - 1] = Lead

(***************************************************************************)
(* Frames.                                                                 *)
(***************************************************************************)
Data == {"Text", "Binary"}
Control == {"Close", "Ping", "Pong"}
OpCode == {"Continue"} \cup Data \cup Control
Reserved == "Reserved"   \* any of the opcodes OpCode::from refuses

\* A frame as a peer may put it on the wire.  `rsv` stands for RSV2 or RSV3,
\* `long` says that the length is in an extended field, and `whole` is FALSE
\* when fewer bytes follow than the length announces.
RawFrame ==
    [fin : BOOLEAN, op : OpCode \cup {Reserved}, rsv1 : BOOLEAN,
     rsv : BOOLEAN, long : BOOLEAN, whole : BOOLEAN, payload : Payload]

\* What Writer::write_frame puts on the wire.  The client's masking is
\* undone by the reader of every masked frame, so it does not appear.
WireFrame(fin, op, rsv1, payload) ==
    [fin |-> fin, op |-> op, rsv1 |-> rsv1, rsv |-> FALSE,
     long |-> Len(payload) > ShortMax, whole |-> TRUE, payload |-> payload]

CloseFrame == WireFrame(TRUE, "Close", FALSE, <<>>)
PingFrame == WireFrame(TRUE, "Ping", FALSE, <<>>)
PongFrame(payload) == WireFrame(TRUE, "Pong", FALSE, payload)

(***************************************************************************)
(* What a user receives: messages, and at most one error.                  *)
(***************************************************************************)
Message == [kind : Data, data : Payload]

\* DecompressError is the code's IOError of a decoder: its source is flate2's
\* error (decoder.rs:64-67, read.rs:100, 280).  IOError is that of the socket.
Error ==
    {"InvalidOpcode", "RSVNotZero", "ControlFramesFragmented",
     "ControlFramePayloadSize", "MaxFrameSize", "Timeout", "IOError",
     "FragmentedInProgress", "InvalidContinuationFrame",
     "InvalidFrameFragmentation", "MaxMessageSize", "FromUtf8Error",
     "CommunicationError", "DecompressError"}

\* A message of which the first fragments have been read.
Fragmented == [kind : Data, payload : Payload, compressed : BOOLEAN]

\* An absent error, or message in progress, is none of these.
ASSUME NoneAssumption == None \notin Error /\ None \notin Fragmented

Failure == [kind : {"Err"}, error : Error]
Err(e) == [kind |-> "Err", error |-> e]
Item == Message \cup Failure
=============================================================================
