----------------------------- MODULE HandshakeMC -----------------------------
(***************************************************************************)
(* Instance of Handshake for TLC.  Both users choose from every            *)
(* combination of the two flags with three pairs of window sizes, from     *)
(* compression off, from nothing and from a window of eight bits.          *)
(***************************************************************************)
EXTENDS Handshake

E(client, server, clientBits, serverBits) ==
    [permessage_deflate |-> TRUE,
     client_no_context_takeover |-> client,
     server_no_context_takeover |-> server,
     client_max_window_bits |-> clientBits,
     server_max_window_bits |-> serverBits]

Off(e) == [e EXCEPT !.permessage_deflate = FALSE]

MCSettings ==
    {None, Off(E(None, None, None, None)), E(TRUE, TRUE, 8, 8)}
        \cup {E(c, s, b[1], b[2]) :
                 c \in Flag, s \in Flag,
                 b \in {<<None, None>>, <<10, 10>>, <<12, 9>>}}

MCConfigs == [Role -> MCSettings]

Offers ==
    {<<P("permessage-deflate", None)>>,
     <<P("permessage-deflate", None), P("client_max_window_bits", None),
       P("server_max_window_bits", Garbled), P("unknown", None)>>,
     <<P("client_no_context_takeover", None), P("server_max_window_bits", 11),
       P("permessage-deflate", None), P("server_max_window_bits", 15)>>,
     <<P("client_no_context_takeover", None)>>}

ClientHead(lines) == <<Start("GET", 3)>> \o lines \o <<Blank>>
Host == Header("host", None)
TheKey(k) == Header("sec-websocket-key", k)

\* Every offer, and every check of the server failing once.
MCRequests ==
    {ClientHead(<<Host, ExtensionLine(o), TheKey("other")>>) : o \in Offers}
        \cup
    {ClientHead(<<TheKey("own"), TheKey("other"), Host>>),
     ClientHead(<<Host>>), ClientHead(<<TheKey("own")>>), ClientHead(<<>>),
     <<Start("other", 3), Host, TheKey("own"), Blank>>,
     <<Start("GET", 2), Host, Blank>>, <<Start("GET", 1), Blank>>,
     <<Blank, Start("GET", 3), Host, TheKey("own"), Blank>>,
     <<Blank, Blank>>}

ServerHead(lines) == <<Start("other", 3)>> \o lines \o <<Blank>>
Accept(keys) == Header("sec-websocket-accept", keys)

\* Right and wrong answers, a right one among others and a right one that
\* is replaced, extensions nobody asked for.
MCResponses ==
    {ServerHead(<<Accept(keys)>>) : keys \in SUBSET Key}
        \cup
    {ServerHead(<<ExtensionLine(o), Accept({"own"})>>) : o \in Offers}
        \cup
    {ServerHead(<<Accept({"own"}), Accept({"other"})>>), ServerHead(<<>>),
     <<Start("other", 1), Blank>>, <<Blank, Blank>>}
=============================================================================
