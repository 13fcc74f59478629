---------------------------- MODULE ConnectionMC ----------------------------
(***************************************************************************)
(* Connection on small instances: frames of at most two bytes, messages of *)
(* one frame and (compressed, three bytes) of two, a channel of one item.  *)
(***************************************************************************)
EXTENDS Connection

CONSTANT Plain   \* an ASCII byte

Text(data) == [kind |-> "Text", data |-> data]
Binary(data) == [kind |-> "Binary", data |-> data]

\* Compression with the contexts kept, and with the client's given up.
Keeping ==
    [permessage_deflate |-> TRUE,
     client_no_context_takeover |-> None, server_no_context_takeover |-> None,
     client_max_window_bits |-> None, server_max_window_bits |-> None]
GivingUpClient == [Keeping EXCEPT !.client_no_context_takeover = TRUE]

Nothing == {}
Pair == {Text(<<Plain, Plain>>)}
Short == {Binary(<<Plain>>)}
=============================================================================
