----------------------------- MODULE AnyPeerMC -----------------------------
(***************************************************************************)
(* AnyPeer on small instances.  Payloads have at most three bytes, frames  *)
(* at most two of them unless a check is to refuse them, messages at most  *)
(* three: every size check has payloads on both sides of its bound.        *)
(***************************************************************************)
EXTENDS AnyPeerProperties

CONSTANT Plain   \* an ASCII byte

F(fin, op, payload) == WireFrame(fin, op, FALSE, payload)
Marked(fin, op, payload) == WireFrame(fin, op, TRUE, payload)

\* Frames a correct peer sends: whole and fragmented messages, a fragment
\* that ends inside a character, an empty last fragment, control frames.
GoodFrames ==
    {F(FALSE, "Text", <<Lead>>), F(FALSE, "Continue", <<Trail, Plain>>),
     F(TRUE, "Continue", <<>>), F(TRUE, "Continue", <<Plain>>),
     F(TRUE, "Binary", <<Lead>>), F(TRUE, "Ping", <<Plain>>), CloseFrame}

\* Frames no correct peer sends, one for each check of the code.
BadFrames ==
    {[F(TRUE, "Text", <<>>) EXCEPT !.op = Reserved],
     [F(TRUE, "Pong", <<>>) EXCEPT !.rsv = TRUE],
     F(FALSE, "Ping", <<>>),
     [F(TRUE, "Close", <<>>) EXCEPT !.long = TRUE],
     F(TRUE, "Binary", <<Plain, Plain, Plain>>),
     F(FALSE, "Binary", <<Plain, Plain>>),
     F(TRUE, "Text", <<Lead>>),
     Marked(TRUE, "Text", <<Plain>>),
     [F(TRUE, "Text", <<Plain>>) EXCEPT !.whole = FALSE]}

ReadingFrames == GoodFrames \cup BadFrames \cup {F(TRUE, "Pong", <<Plain>>)}

Fresh(p) == Deflated(p, 0)
Text(data) == [kind |-> "Text", data |-> data]
Binary(data) == [kind |-> "Binary", data |-> data]

\* Compressed messages, whole and in fragments, with and without a window.
DeflateFrames ==
    LET p == <<Plain, Plain>>
        late == Deflated(p, 1)
    IN {Marked(TRUE, "Text", Fresh(p)), Marked(TRUE, "Binary", late),
        Marked(FALSE, "Text", SubSeq(Fresh(p), 1, 1)),
        F(TRUE, "Continue", SubSeq(Fresh(p), 2, 2)),
        F(TRUE, "Binary", p), F(TRUE, "Ping", <<Plain>>)}

\* A payload that fits, of a message that does not.
BombFrames ==
    {Marked(TRUE, "Binary", Fresh(<<Plain, Plain, Plain, Plain>>)), CloseFrame}

\* Two Pings that are not the same, so that their Pongs have an order.
PingFrames == {F(TRUE, "Ping", <<Plain>>), F(TRUE, "Ping", <<Lead>>), CloseFrame}

NoMessages == {}
UserMessages ==
    {Text(<<Plain, Lead, Trail>>), Binary(<<>>)}
UserLarge == {[data |-> <<Plain, Lead, Trail>>, size |-> 1]}
=============================================================================
