------------------------------ MODULE Connection ------------------------------
(***************************************************************************)
(* Two ends of this library with one TCP connection between them, after    *)
(* the handshake: each end writes what the other reads, and an end sees    *)
(* FIN once the other has given up both halves of its socket.              *)
(*                                                                         *)
(* Whether they compress, and when a coder forgets its window, follows     *)
(* from what the two users have set, through the negotiation of            *)
(* Extensions: client_no_context_takeover resets both decoders, and        *)
(* server_no_context_takeover both encoders (handshake.rs:61-77, 204-220). *)
(***************************************************************************)
EXTENDS Frames

CONSTANTS
    TcpCap, ChanCap, MaxFrameSize, MaxMessageSize,
    ClientConfig, ServerConfig,   \* config.extensions of either user
    Threshold,
    ClientMessages, ClientLargeCalls, ClientUses, ClientCalls,
    ServerMessages, ServerLargeCalls, ServerUses, ServerCalls,
    Split

Negotiation == INSTANCE Extensions

\* As in Extensions: an absent value is no other.
ASSUME AbsentAssumption ==
    /\ None \notin BOOLEAN /\ None \notin 0..255
    /\ None \notin Negotiation!Param /\ None \notin Seq(Negotiation!Param)
    /\ None \notin Negotiation!Settings

ASSUME ConfigAssumption ==
    /\ {ClientConfig, ServerConfig} \subseteq {None} \cup Negotiation!Settings
    /\ TcpCap \in Nat \ {0} /\ ChanCap \in Nat \ {0}
    /\ MaxFrameSize \in Nat \ {0} /\ MaxMessageSize \in Nat

ASSUME UsersAssumption ==
    /\ Threshold \in Nat
    /\ ClientMessages \cup ServerMessages \subseteq
          [kind : Data, data : Seq(Byte)]
    /\ ClientLargeCalls \cup ServerLargeCalls \subseteq
          [data : Seq(Byte), size : Nat \ {0}]
    /\ ClientUses \cup ServerUses \subseteq {"ping", "close"}
    /\ ClientCalls \in Nat /\ ServerCalls \in Nat
    /\ Split \in BOOLEAN

\* What the handshake leaves in config.extensions of either end.
ServerExtensions ==
    Negotiation!merge_extensions(ServerConfig, Negotiation!Reads(ClientConfig))
ClientExtensions == Negotiation!Reads(ServerExtensions)

ServerDeflates == Negotiation!Deflates(ServerExtensions)
ServerDecoder == Negotiation!DecoderOf(ServerExtensions)
ServerEncoder == Negotiation!EncoderOf(ServerExtensions)
ClientDeflates == Negotiation!Deflates(ClientExtensions)
ClientDecoder == Negotiation!DecoderOf(ClientExtensions)
ClientEncoder == Negotiation!EncoderOf(ClientExtensions)

VARIABLES
    c2s, s2c,   \* the two directions of the TCP connection
    \* the client's end
    cLock, cChan, cRx, cBroken, cPc, cHand, cFrag, cWindow,
    cCall, cTodo, cHandle, cEncoded, cCalls, cSent, cGot,
    \* the server's end
    sLock, sChan, sRx, sBroken, sPc, sHand, sFrag, sWindow,
    sCall, sTodo, sHandle, sEncoded, sCalls, sSent, sGot

ClientGone == cPc = "done" /\ cHandle = "dropped"
ServerGone == sPc = "done" /\ sHandle = "dropped"

Client == INSTANCE Endpoint WITH
    inbox <- s2c, outbox <- c2s, peerGone <- ServerGone,
    lock <- cLock, chan <- cChan, rx <- cRx, broken <- cBroken,
    pc <- cPc, hand <- cHand, frag <- cFrag, window <- cWindow,
    call <- cCall, todo <- cTodo, handle <- cHandle, encoded <- cEncoded,
    calls <- cCalls, sent <- cSent, got <- cGot,
    Messages <- ClientMessages, LargeCalls <- ClientLargeCalls,
    Uses <- ClientUses, MaxCalls <- ClientCalls,
    Deflate <- ClientDeflates,
    ResetsDecoder <- ClientDecoder.resets, ResetsEncoder <- ClientEncoder.resets

Server == INSTANCE Endpoint WITH
    inbox <- c2s, outbox <- s2c, peerGone <- ClientGone,
    lock <- sLock, chan <- sChan, rx <- sRx, broken <- sBroken,
    pc <- sPc, hand <- sHand, frag <- sFrag, window <- sWindow,
    call <- sCall, todo <- sTodo, handle <- sHandle, encoded <- sEncoded,
    calls <- sCalls, sent <- sSent, got <- sGot,
    Messages <- ServerMessages, LargeCalls <- ServerLargeCalls,
    Uses <- ServerUses, MaxCalls <- ServerCalls,
    Deflate <- ServerDeflates,
    ResetsDecoder <- ServerDecoder.resets, ResetsEncoder <- ServerEncoder.resets

cHalves == <<cPc, cHand, cFrag, cWindow,
             cCall, cTodo, cHandle, cEncoded, cCalls, cSent, cGot>>
cVars == <<cLock, cChan, cRx, cBroken, cHalves>>
sHalves == <<sPc, sHand, sFrag, sWindow,
             sCall, sTodo, sHandle, sEncoded, sCalls, sSent, sGot>>
sVars == <<sLock, sChan, sRx, sBroken, sHalves>>
vars == <<c2s, s2c, cVars, sVars>>

Init ==
    /\ c2s = <<>> /\ s2c = <<>>
    /\ Client!EndInit /\ cBroken = FALSE
    /\ Server!EndInit /\ sBroken = FALSE

ClientStep == Client!EndNext /\ UNCHANGED <<cBroken, sVars>>
ServerStep == Server!EndNext /\ UNCHANGED <<sBroken, cVars>>

ClientReset ==
    /\ Client!Reset
    /\ UNCHANGED <<c2s, cLock, cChan, cRx, cHalves>>
    /\ UNCHANGED sVars

ServerReset ==
    /\ Server!Reset
    /\ UNCHANGED <<s2c, sLock, sChan, sRx, sHalves>>
    /\ UNCHANGED cVars

Next == ClientStep \/ ServerStep \/ ClientReset \/ ServerReset

Spec == Init /\ [][Next]_vars

\* Both ends keep to the types of Endpoint, each seeing the other's socket.
TypeOK == Client!EndTypeOK /\ Server!EndTypeOK

(***************************************************************************)
(* Fairness of both ends, of TCP, and of users that go on reading.         *)
(***************************************************************************)
FairSpec ==
    /\ Spec
    /\ Client!TaskFairness /\ Client!ReaderFairness
    /\ Server!TaskFairness /\ Server!ReaderFairness
    /\ WF_vars(ClientReset) /\ WF_vars(ServerReset)

(***************************************************************************)
(* Properties.                                                             *)
(***************************************************************************)

\* What a user has received but for the error, which is its last item if
\* there is one.
MessagesIn(items) ==
    IF items # <<>> /\ items[Len(items)].kind = "Err"
    THEN SubSeq(items, 1, Len(items) - 1)
    ELSE items

Given(messages, largeCalls) ==
    messages \cup {[kind |-> "Text", data |-> c.data] : c \in largeCalls}

\* Either direction is a pipe: the user at its end receives the messages
\* that the calls at its beginning were given, in order, none changed, none
\* twice, none that was not sent.
ToServer == INSTANCE MessagePipe WITH
    Message <- Given(ClientMessages, ClientLargeCalls),
    sent <- cSent, got <- MessagesIn(sGot)
ToClient == INSTANCE MessagePipe WITH
    Message <- Given(ServerMessages, ServerLargeCalls),
    sent <- sSent, got <- MessagesIn(cGot)
ToServerIsPipe == ToServer!Spec
ToClientIsPipe == ToClient!Spec

Errors(items) ==
    LET errs == {i \in 1..Len(items) : items[i].kind = "Err"}
    IN {items[i].error : i \in errs}

\* Two ends of this library with the same limits never accuse each other:
\* the one error a user can see is that the connection is lost.  That a
\* message could not be inflated is another (Error of Frames), although the
\* code has one name for both.
NeverAccusePeer == Errors(cGot) \cup Errors(sGot) \subseteq {"IOError"}

\* One of the read tasks has ended, or is about to because its user has
\* dropped its WSReader: from then on that end may stop reading its stream.
Deaf == cPc = "done" \/ sPc = "done" \/ cRx # "open" \/ sRx # "open"

\* A call returns: nobody is blocked for good while both ends read
\* (connection.rs:45-50, handshake.rs:124-126).
CallsReturn ==
    /\ cCall # "idle" ~> (cCall = "idle" \/ Deaf)
    /\ sCall # "idle" ~> (sCall = "idle" \/ Deaf)

\* What is sent arrives while both ends read (split.rs:211-237,
\* read.rs:300-311).
Arrives ==
    /\ \A n \in 1..ClientCalls :
          Len(cSent) >= n ~> (Len(MessagesIn(sGot)) >= n \/ Deaf)
    /\ \A n \in 1..ServerCalls :
          Len(sSent) >= n ~> (Len(MessagesIn(cGot)) >= n \/ Deaf)

\* close_connection ends the streams of both users: the Close is answered,
\* and the answer ends the other read task (read.rs:133-143).  Unless, that
\* is, a user has dropped its WSReader, or the client sends more: the read
\* task that gets the answer waits for the mutex once again.
CloseEndsBoth ==
    cCall = "close" ~> \/ cRx # "open" /\ sRx # "open"
                       \/ cRx = "dropped" \/ sRx = "dropped"
                       \/ cCall = "send"

\* When a read task ends, its connection does: "if these attributes are
\* dropped, all channels will be closed, and the TCP connection, terminated"
\* (read.rs:314-318, and handshake.rs:127-129), so that the other user learns
\* of it.
TaskEndIsSeen == sPc = "done" ~> cRx # "open"
=============================================================================
