------------------------------ MODULE Handshake ------------------------------
(***************************************************************************)
(* The opening handshake (handshake.rs, request.rs): a client writes a     *)
(* request, a server checks it and answers, the client checks the answer,  *)
(* and each hands what it has not read of its stream to its read task.     *)
(* Either end may be this library or anything else: `ours` says which.     *)
(*                                                                         *)
(* A stream is a sequence of lines, with frames behind them.  A line is    *)
(* written and read whole; a head that is cut off ends after some line.    *)
(* Whatever the tasks do between two awaits is one action.                 *)
(*                                                                         *)
(* MaxFrames bounds the frames an end writes once it is open.              *)
(***************************************************************************)
EXTENDS Extensions

CONSTANTS
    Configs,     \* [client, server]: config.extensions of both ends
    Requests,    \* what a client that is not this library may write
    Responses,   \* what such a server may answer
    MaxFrames

Role == {"client", "server"}
Peer(r) == IF r = "client" THEN "server" ELSE "client"

\* Keys stand for themselves and for the accept values made from them.
Key == {"own", "other"}

\* The first line of a head, with its number of words.  An empty line has
\* none.
Start(method, words) == [name |-> "start", method |-> method, words |-> words]
Header(name, value) == [name |-> name, value |-> value]
Frame == [name |-> "frame"]

Line ==
    [name : {"start"}, method : {"GET", "other"}, words : 1..3]
        \cup [name : {"host", "other"}, value : {None}]
        \cup [name : {"sec-websocket-key"}, value : Key]
        \cup [name : {"sec-websocket-accept"}, value : SUBSET Key]
        \cup [name : {"sec-websocket-extensions"}, value : Seq(Param)]
        \cup {Blank, Frame}

\* A head, or what is there of one: an empty line comes first or ends it.
OneHead(lines) ==
    /\ lines \in Seq(Line)
    /\ \A i \in 1..Len(lines) :
          lines[i] # Frame /\ (lines[i] = Blank => i \in {1, Len(lines)})

ASSUME HandshakeAssumption ==
    /\ Configs \subseteq [Role -> {None} \cup Settings]
    /\ \A lines \in Requests \cup Responses : OneHead(lines)
    /\ MaxFrames \in Nat

HandshakeError ==
    {"URLParseError", "InvalidSchemeURL", "URLNoHost", "DomainError",
     "IOError", "Timeout", "HttpParseError", "InvalidHTTPRequestLine",
     "MissingHTTPMethod", "MissingHTTPUri", "MissingHTTPVersion",
     "InvalidHTTPHandshake",
     "NoHostHeaderPresent", "NoSecWebsocketKey", "InvalidAcceptKey"}

ASSUME NoErrorAssumption == None \notin HandshakeError /\ None \notin Line

VARIABLES
    ours,      \* the ends that are this library
    config,    \* config.extensions as the users have set them
    at,        \* where each end is
    error,     \* the error its call has returned
    agreed,    \* config.extensions as the handshake leaves them
    stream,    \* what is on its way to each end
    wrote,     \* frames an end has written after opening
    seen       \* history: what the read task of an end has found

vars == <<ours, config, at, error, agreed, stream, wrote, seen>>

Places ==
    {"start", "connect", "tls", "request", "await", "open", "failed",
     "panicked", "left"}

\* Both ends are at a place of their code, and an end that has failed has
\* an error to return.
TypeOK ==
    /\ ours \subseteq Role
    /\ config \in Configs
    /\ at \in [Role -> Places]
    /\ error \in [Role -> {None} \cup HandshakeError]
    /\ \A r \in Role : at[r] = "failed" <=> error[r] # None
    /\ agreed \in [Role -> {None} \cup Settings]
    /\ stream \in [Role -> Seq(Line)]
    /\ wrote \in [Role -> 0..MaxFrames]
    /\ seen \in [Role -> Seq(Line)]

\* An end that is not this library begins with a connection that stands.
Init ==
    /\ ours \in {{"client", "server"}, {"client"}, {"server"}}
    /\ config \in Configs
    /\ \A r \in Role \ ours : config[r] = None
    /\ at = [client |-> IF "client" \in ours THEN "start" ELSE "request",
             server |-> IF "client" \in ours THEN "start" ELSE "await"]
    /\ error = [r \in Role |-> None]
    /\ agreed = [r \in Role |-> None]
    /\ stream = [r \in Role |-> <<>>]
    /\ wrote = [r \in Role |-> 0]
    /\ seen = [r \in Role |-> <<>>]

\* The socket of r is closed: the call has returned without a connection.
Gone(r) == at[r] \in {"failed", "panicked", "left"}

Goes(r, from, to) == at[r] = from /\ at' = [at EXCEPT ![r] = to]

Fails(r, e) ==
    /\ at' = [at EXCEPT ![r] = "failed"]
    /\ error' = [error EXCEPT ![r] = e]

Write(r, lines) == stream' = [stream EXCEPT ![Peer(r)] = @ \o lines]

(***************************************************************************)
(* parse_http_request: lines up to the first empty one that follows a      *)
(* line.                                                                   *)
(***************************************************************************)
Heads(lines) ==
    {SubSeq(lines, 1, n) :
        n \in {m \in 2..Len(lines) : /\ lines[m] = Blank
                                     /\ \A l \in 2..(m - 1) : lines[l] # Blank}}

\* The BufReader keeps what it has read beyond the head for the read task.
Bug_DropsReadAhead(lines, head) == <<>>
Rest(lines, head) == SubSeq(lines, Len(head) + 1, Len(lines))

HeadError(head) ==
    IF head = <<Blank, Blank>> THEN "InvalidHTTPRequestLine"
    ELSE IF head[1].name # "start" THEN "MissingHTTPMethod"
    ELSE IF head[1].words = 1 THEN "MissingHTTPUri"
    ELSE IF head[1].words = 2 THEN "MissingHTTPVersion"
    ELSE None

\* get_header_value: a later header replaces an earlier one of its name.
ValueOf(head, name) ==
    LET header == LastNamed(Tail(head), name)
    IN IF header = None THEN None ELSE header.value

ExtensionsIn(head) ==
    LET value == ValueOf(head, "sec-websocket-extensions")
    IN parse_extensions(IF value = None THEN <<>> ELSE value)

\* No head within five seconds, or the stream ends or is no text before it
\* does.
Bug_WaitsForEver(r) ==
    /\ at[r] = "await" /\ r \in ours
    /\ Heads(stream[r]) = {}
    /\ Gone(Peer(r)) /\ Fails(r, "HttpParseError")
    /\ UNCHANGED <<ours, config, agreed, stream, wrote, seen>>
HeadMissing(r) ==
    /\ at[r] = "await" /\ r \in ours
    /\ Heads(stream[r]) = {}
    /\ \/ Fails(r, "Timeout")
       \/ /\ Gone(Peer(r)) \/ \E i \in 1..Len(stream[r]) : stream[r][i] = Frame
          /\ Fails(r, "HttpParseError")
    /\ UNCHANGED <<ours, config, agreed, stream, wrote, seen>>

Arrived(r) == IF at[r] = "await" /\ r \in ours THEN Heads(stream[r]) ELSE {}

HeadUnreadable(r) ==
    /\ \E head \in Arrived(r) :
          HeadError(head) # None /\ Fails(r, HeadError(head))
    /\ UNCHANGED <<ours, config, agreed, stream, wrote, seen>>

\* The coders are built last, from config.extensions.
Opens(r, extensions) ==
    /\ agreed' = [agreed EXCEPT ![r] = extensions]
    /\ at' = [at EXCEPT ![r] = IF Panics(agreed'[r]) THEN "panicked"
                               ELSE "open"]

(***************************************************************************)
(* connect_async_with_config.                                              *)
(***************************************************************************)

\* construct_http_request.
BadURL ==
    /\ at["client"] = "start" /\ "client" \in ours
    /\ \E e \in {"URLParseError", "InvalidSchemeURL", "URLNoHost"} :
          Fails("client", e)
    /\ UNCHANGED <<ours, config, agreed, stream, wrote, seen>>

GoodURL ==
    /\ "client" \in ours
    /\ Goes("client", "start", "connect")
    /\ UNCHANGED <<ours, config, error, agreed, stream, wrote, seen>>

\* TcpStream::connect, and with "wss" the TLS handshake, which no timeout
\* bounds.  Only then does the server's call begin.
Connects ==
    /\ \/ Goes("client", "connect", "tls")
       \/ /\ at["client"] \in {"connect", "tls"}
          /\ at' = [client |-> "request", server |-> "await"]
    /\ UNCHANGED <<ours, config, error, agreed, stream, wrote, seen>>

ConnectFails ==
    /\ \/ at["client"] \in {"connect", "tls"} /\ Fails("client", "IOError")
       \/ at["client"] = "tls" /\ Fails("client", "DomainError")
    /\ UNCHANGED <<ours, config, agreed, stream, wrote, seen>>

Request(extensions) ==
    <<Start("GET", 3), Header("host", None), Header("other", None),
      Header("sec-websocket-key", "own")>> \o add_extension_headers(extensions)

SendRequest ==
    /\ "client" \in ours
    /\ \/ /\ Goes("client", "request", "await")
          /\ Write("client", Request(config["client"]))
          /\ UNCHANGED error
       \/ /\ at["client"] = "request"
          /\ Gone("server") /\ Fails("client", "IOError")
          /\ UNCHANGED stream
    /\ UNCHANGED <<ours, config, agreed, wrote, seen>>

\* parse_handshake_client: the accept value has to be in what the header
\* holds.
Accepted(head) ==
    LET value == ValueOf(head, "sec-websocket-accept")
    IN value # None /\ "own" \in value

Bug_KeepsOwnConfig(head) == config["client"]
ClientSettings(head) == ExtensionsIn(head)

ReadResponse ==
    /\ \E head \in Arrived("client") :
          /\ HeadError(head) = None
          /\ \/ /\ ~Accepted(head)
                /\ Fails("client", "InvalidAcceptKey")
                /\ UNCHANGED <<agreed, stream>>
             \/ /\ Accepted(head)
                /\ Opens("client", ClientSettings(head))
                /\ stream' = [stream EXCEPT !["client"] = Rest(@, head)]
                /\ UNCHANGED error
    /\ UNCHANGED <<ours, config, wrote, seen>>

(***************************************************************************)
(* accept_async_with_config.                                               *)
(***************************************************************************)

\* parse_handshake_server, up to the answer.
RequestError(head) ==
    IF head[1].method # "GET" THEN "InvalidHTTPHandshake"
    ELSE IF LastNamed(Tail(head), "host") = None THEN "NoHostHeaderPresent"
    ELSE IF LastNamed(Tail(head), "sec-websocket-key") = None
    THEN "NoSecWebsocketKey"
    ELSE None

RefuseRequest ==
    /\ \E head \in Arrived("server") :
          /\ HeadError(head) = None
          /\ RequestError(head) # None
          /\ Fails("server", RequestError(head))
    /\ UNCHANGED <<ours, config, agreed, stream, wrote, seen>>

Response(key, extensions) ==
    <<Start("other", 3), Header("other", None),
      Header("sec-websocket-accept", {key})>>
        \o add_extension_headers(extensions)

Bug_EchoesOffer(head) == ExtensionsIn(head)
Merged(head) == merge_extensions(config["server"], ExtensionsIn(head))

AcceptRequest ==
    /\ \E head \in Arrived("server") :
          /\ HeadError(head) = None
          /\ RequestError(head) = None
          /\ \/ /\ Opens("server", Merged(head))
                /\ stream' =
                      [server |-> Rest(stream["server"], head),
                       client |-> stream["client"] \o
                           Response(ValueOf(head, "sec-websocket-key"),
                                    agreed'["server"])]
                /\ UNCHANGED error
             \/ /\ Gone("client") /\ Fails("server", "IOError")
                /\ UNCHANGED <<agreed, stream>>
    /\ UNCHANGED <<ours, config, wrote, seen>>

(***************************************************************************)
(* After the handshake: an open end may write frames at once, and its read *)
(* task takes the first two bytes it finds for a frame header.  An empty   *)
(* line is none: the opcode in its first byte is reserved.                 *)
(***************************************************************************)
WriteFrame(r) ==
    /\ at[r] = "open"
    /\ wrote[r] < MaxFrames
    /\ wrote' = [wrote EXCEPT ![r] = @ + 1]
    /\ Write(r, <<Frame>>)
    /\ UNCHANGED <<ours, config, at, error, agreed, seen>>

ReadsOn(r) == \A i \in 1..Len(seen[r]) : seen[r][i] = Frame

ReadHeader(r) ==
    /\ at[r] = "open" /\ r \in ours
    /\ ReadsOn(r)
    /\ stream[r] # <<>>
    /\ seen' = [seen EXCEPT ![r] = Append(@, Head(stream[r]))]
    /\ stream' = [stream EXCEPT ![r] = Tail(@)]
    /\ UNCHANGED <<ours, config, at, error, agreed, wrote>>

(***************************************************************************)
(* An end that is something else writes a head, or a part of it; it may go *)
(* on with frames, or go.                                                  *)
(***************************************************************************)
Foreign(r) == r \notin ours

ForeignRequest ==
    /\ Foreign("client")
    /\ Goes("client", "request", "open")
    /\ \E lines \in Requests : \E n \in 0..Len(lines) :
          Write("client", SubSeq(lines, 1, n))
    /\ UNCHANGED <<ours, config, error, agreed, wrote, seen>>

ForeignResponse ==
    /\ Foreign("server")
    /\ Goes("server", "await", "open")
    /\ \E lines \in Responses : \E n \in 0..Len(lines) :
          Write("server", SubSeq(lines, 1, n))
    /\ UNCHANGED <<ours, config, error, agreed, wrote, seen>>

ForeignLeaves(r) ==
    /\ Foreign(r)
    /\ Goes(r, "open", "left")
    /\ UNCHANGED <<ours, config, error, agreed, stream, wrote, seen>>

ClientStep ==
    \/ BadURL \/ GoodURL \/ Connects \/ ConnectFails
    \/ SendRequest \/ ReadResponse

ServerStep == RefuseRequest \/ AcceptRequest

EitherStep(r) ==
    \/ HeadMissing(r) \/ HeadUnreadable(r)
    \/ WriteFrame(r) \/ ReadHeader(r)

ForeignStep ==
    \/ ForeignRequest \/ ForeignResponse
    \/ \E r \in Role : ForeignLeaves(r)

Next ==
    \/ ClientStep \/ ServerStep
    \/ \E r \in Role : EitherStep(r)
    \/ ForeignStep

Spec == Init /\ [][Next]_vars

\* Tokio polls what is ready, and its timer fires: weak fairness of each end
\* while it exchanges heads and reads.  None of connecting, which the TLS
\* handshake of either end may keep waiting, nor of the other programs.
FairSpec ==
    /\ Spec
    /\ WF_vars(SendRequest) /\ WF_vars(ReadResponse) /\ WF_vars(ServerStep)
    /\ \A r \in Role :
          WF_vars(HeadMissing(r) \/ HeadUnreadable(r)) /\ WF_vars(ReadHeader(r))

(***************************************************************************)
(* Properties.                                                             *)
(***************************************************************************)
BothOurs == ours = Role
Built(r) == at[r] \in {"open", "panicked"}

\* When a client of this library has opened, its server has too, and both
\* compress by the same settings or neither compresses: the client takes
\* them from the answer, the server before it is written
\* (handshake.rs:70, 259-271, 290).
SameAgreement ==
    BothOurs /\ Built("client") =>
        /\ Built("server")
        /\ Deflates(agreed["client"]) = Deflates(agreed["server"])
        /\ Deflates(agreed["server"]) => agreed["client"] = agreed["server"]

\* Some(_) of a setting, and no width beyond it.
Allows(own, width) == own = None \/ (width # None /\ width <= own)

\* What is agreed goes no further than one end has set.
Within(e, own) ==
    /\ own # None /\ own.permessage_deflate
    /\ IsTrue(e.client_no_context_takeover) =>
           own.client_no_context_takeover # None
    /\ IsTrue(e.server_no_context_takeover) =>
           own.server_no_context_takeover # None
    /\ Allows(own.client_max_window_bits, e.client_max_window_bits)
    /\ Allows(own.server_max_window_bits, e.server_max_window_bits)

\* What a server agrees to stays within what its user has set, whatever the
\* client offers, and within what a client of this library has offered: it
\* compresses only where both have it on, a context is given up only where
\* the client asks for it and the server has set something, and no window
\* is larger than either has set (extensions.rs:85-119).
NobodyOverruled ==
    "server" \in ours /\ Deflates(agreed["server"]) =>
        \A r \in ours : Within(agreed["server"], config[r])

\* A user has set both directions alike.
Alike(e) ==
    e = None \/
        /\ e.client_no_context_takeover = e.server_no_context_takeover
        /\ e.client_max_window_bits = e.server_max_window_bits

\* Where both compress, two users that set both directions alike, each in
\* its own way, get decoders that follow the encoders of the other end,
\* although each end builds both of its own from one side of the settings
\* (handshake.rs:61-77, 204-220).  Where the directions differ they need
\* not: see ConnectionTakeover.cfg.
CodersFollow ==
    /\ BothOurs /\ (\A r \in Role : Built(r) /\ Alike(config[r]))
    /\ Deflates(agreed["server"])
    => \A r \in Role :
           Follows(DecoderOf(agreed[r]), EncoderOf(agreed[Peer(r)]))

\* An end of this library that has extensions configured with compression
\* off ends its head with an empty line too many (extensions.rs:143).
OneLineTooMany(r) ==
    r \in ours /\ config[r] # None /\ ~config[r].permessage_deflate

\* What the read task of an open end finds and has yet to find is what the
\* other end has written since its head and nothing else: the bytes the
\* handshake had buffered behind the head are not lost, and no line of the
\* head is left over (request.rs:89-97, handshake.rs:54, 107).
CleanHandover ==
    \A r \in ours :
        at[r] = "open" /\ ~OneLineTooMany(Peer(r)) =>
            seen[r] \o stream[r] = [i \in 1..wrote[Peer(r)] |-> Frame]

\* A call that has begun to exchange heads returns, whatever the other end
\* writes, cuts off or keeps back (request.rs:89-97).
HandshakesEnd ==
    \A r \in Role :
        r \in ours /\ at[r] \in {"request", "await"}
            ~> at[r] \in {"open", "failed", "panicked"}
=============================================================================
