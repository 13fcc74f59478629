----------------------------- MODULE Extensions -----------------------------
(***************************************************************************)
(* The negotiation of permessage-deflate (extensions.rs): what an end      *)
(* offers or answers in its header, what the other end reads there, how a  *)
(* server merges an offer with its own settings, and the coders both ends  *)
(* build from the outcome (handshake.rs:61-77, 204-220).                   *)
(*                                                                         *)
(* A header value is the sequence of its parameters, without the text      *)
(* around them.  Bug_... definitions are mutated forms, as in ReadStream.  *)
(***************************************************************************)
EXTENDS Integers, Sequences, FiniteSetsExt

CONSTANT None    \* the absent value, and a parameter without "="

\* Stands for every value of a parameter that is no number of eight bits.
Garbled == 256

Flag == {None} \cup BOOLEAN
IsTrue(flag) == flag = TRUE
Width == {None} \cup 0..255

\* struct Extensions; an Option of it is one of these or None.
Settings ==
    [permessage_deflate : BOOLEAN,
     client_no_context_takeover : Flag, server_no_context_takeover : Flag,
     client_max_window_bits : Width, server_max_window_bits : Width]

Param ==
    [name : {"permessage-deflate", "client_no_context_takeover",
             "server_no_context_takeover", "client_max_window_bits",
             "server_max_window_bits", "unknown"},
     value : Width \cup {Garbled}]

P(name, value) == [name |-> name, value |-> value]

\* An absent value is no other.
ASSUME AbsentAssumption ==
    /\ None \notin BOOLEAN /\ None \notin 0..255
    /\ None \notin Param /\ None \notin Seq(Param) /\ None \notin Settings

(***************************************************************************)
(* parse_extensions.                                                       *)
(***************************************************************************)

\* The last element of s that has the given name, or None.
LastNamed(s, name) ==
    LET indices == {i \in 1..Len(s) : s[i].name = name}
    IN IF indices = {} THEN None ELSE s[Max(indices)]

FlagIn(params, name) == IF LastNamed(params, name) = None THEN None ELSE TRUE

Bug_WidthUnchecked(params, name) ==
    LET p == LastNamed(params, name)
    IN IF p = None THEN None ELSE IF p.value = None THEN 15 ELSE p.value
WidthIn(params, name) ==
    LET p == LastNamed(params, name)
    IN IF p = None THEN None
       ELSE IF p.value = None THEN 15
       ELSE IF p.value = Garbled THEN None
       ELSE p.value

parse_extensions(params) ==
    IF LastNamed(params, "permessage-deflate") = None THEN None
    ELSE [permessage_deflate |-> TRUE,
          client_no_context_takeover |->
              FlagIn(params, "client_no_context_takeover"),
          server_no_context_takeover |->
              FlagIn(params, "server_no_context_takeover"),
          client_max_window_bits |-> WidthIn(params, "client_max_window_bits"),
          server_max_window_bits |-> WidthIn(params, "server_max_window_bits")]

(***************************************************************************)
(* merge_extensions.                                                       *)
(***************************************************************************)

\* Option::and: what the server has set counts only as "something".
And(server, client) == IF server = None THEN None ELSE client

Bug_Wider(server, client) ==
    IF server = None THEN client
    ELSE IF client = None THEN server
    ELSE IF server > client THEN server ELSE client
Narrower(server, client) ==
    IF server = None THEN client
    ELSE IF client = None THEN server
    ELSE IF server <= client THEN server ELSE client

merge_extensions(server, client) ==
    IF server = None \/ client = None THEN None
    ELSE [permessage_deflate |->
              client.permessage_deflate /\ server.permessage_deflate,
          client_no_context_takeover |->
              And(server.client_no_context_takeover,
                  client.client_no_context_takeover),
          server_no_context_takeover |->
              And(server.server_no_context_takeover,
                  client.server_no_context_takeover),
          client_max_window_bits |->
              Narrower(server.client_max_window_bits,
                       client.client_max_window_bits),
          server_max_window_bits |->
              Narrower(server.server_max_window_bits,
                       client.server_max_window_bits)]

(***************************************************************************)
(* add_extension_headers.  The text it continues ends with a line break,   *)
(* so that one more is the empty line that ends a header block, and two    *)
(* more are an empty line and another one behind it.                       *)
(***************************************************************************)
Blank == [name |-> "blank"]
ExtensionLine(params) ==
    [name |-> "sec-websocket-extensions", value |-> params]

\* if let Some(true), if let Some(bits).
IfTrue(flag, name) == IF IsTrue(flag) THEN <<P(name, None)>> ELSE <<>>
IfSome(width, name) == IF width # None THEN <<P(name, width)>> ELSE <<>>

Bug_OmitsServerWidth(e) ==
    <<P("permessage-deflate", None)>>
        \o IfTrue(e.client_no_context_takeover, "client_no_context_takeover")
        \o IfTrue(e.server_no_context_takeover, "server_no_context_takeover")
        \o IfSome(e.client_max_window_bits, "client_max_window_bits")
HeaderValue(e) ==
    <<P("permessage-deflate", None)>>
        \o IfTrue(e.client_no_context_takeover, "client_no_context_takeover")
        \o IfTrue(e.server_no_context_takeover, "server_no_context_takeover")
        \o IfSome(e.client_max_window_bits, "client_max_window_bits")
        \o IfSome(e.server_max_window_bits, "server_max_window_bits")

add_extension_headers(e) ==
    IF e = None THEN <<Blank>>
    ELSE IF e.permessage_deflate
    THEN <<ExtensionLine(HeaderValue(e)), Blank>>
    ELSE <<Blank, Blank>>

\* What an end reads that is sent the settings e of the other: without
\* compression there is no header.
Reads(e) ==
    IF e = None \/ ~e.permessage_deflate THEN None
    ELSE parse_extensions(HeaderValue(e))

(***************************************************************************)
(* The coders.  Both ends build their decoder from what was agreed for the *)
(* client and their encoder from what was agreed for the server.           *)
(***************************************************************************)
Deflates(e) == e # None /\ e.permessage_deflate

Coder(flag, width) ==
    [resets |-> IsTrue(flag), width |-> IF width = None THEN 15 ELSE width]

DecoderOf(e) ==
    IF e = None THEN Coder(None, None)
    ELSE Coder(e.client_no_context_takeover, e.client_max_window_bits)

EncoderOf(e) ==
    IF e = None THEN Coder(None, None)
    ELSE Coder(e.server_no_context_takeover, e.server_max_window_bits)

\* flate2 takes window sizes of 9 to 15 bits and panics at any other.
Panics(e) ==
    ~({DecoderOf(e).width, EncoderOf(e).width} \subseteq 9..15)

\* A decoder can follow an encoder whose window is no larger than its own,
\* and if it forgets its window after a message the encoder has to as well.
Follows(decoder, encoder) ==
    /\ encoder.width <= decoder.width
    /\ decoder.resets => encoder.resets
=============================================================================
