----------------------------- MODULE Reassembly -----------------------------
(***************************************************************************)
(* What a sequence of frames means, said without a reader that goes        *)
(* through it: which sequences RFC 6455 and RFC 7692 allow, and which      *)
(* messages they carry.  ReadStream computes the same frame by frame, and  *)
(* is checked against these definitions; so are the frames that WSWriter   *)
(* puts on the wire.                                                       *)
(***************************************************************************)
EXTENDS Frames, FiniteSets, SequencesExt

\* Is the last data frame among the first n frames one that another has to
\* follow?  Control frames may come between.
Unfinished(fs, n) ==
    \E j \in 1..n :
        /\ fs[j].op \notin Control /\ ~fs[j].fin
        /\ \A k \in (j + 1)..n : fs[k].op \in Control

\* A continuation follows an unfinished frame, and nothing else does.
WellFragmented(fs) ==
    \A i \in 1..Len(fs) :
        fs[i].op \notin Control =>
            (fs[i].op = "Continue" <=> Unfinished(fs, i - 1))

\* How many of the first n frames are of the kind op.
CountOf(fs, op, n) == Cardinality({i \in 1..n : fs[i].op = op})

\* RSV1 belongs on the first frame of a message and nowhere else.
MarkedOnlyFirst(fs) == \A i \in 1..Len(fs) : fs[i].rsv1 => fs[i].op \in Data

(***************************************************************************)
(* The messages of a well-fragmented sequence: one for every final data    *)
(* frame, made of the data frames since its opcode was given.              *)
(***************************************************************************)
Ends(fs) == {i \in 1..Len(fs) : fs[i].op \notin Control /\ fs[i].fin}

\* How many messages are complete with the first n frames.
Finished(fs, n) == Cardinality({e \in Ends(fs) : e <= n})

\* Where the message of frame e began: the last frame up to e that has the
\* opcode of a message.  In a well-fragmented sequence there is one.
StartOf(fs, e) == Max({1} \cup {i \in 1..e : fs[i].op \in Data})

Carried(f) == IF f.op \in Control THEN <<>> ELSE f.payload

\* The payloads of the data frames from `first` to `last`.
Joined(fs, first, last) ==
    FlattenSeq([j \in 1..(last - first + 1) |-> Carried(fs[first + j - 1])])

Kind(fs, e) == fs[StartOf(fs, e)].op
Compressed(fs, e) == fs[StartOf(fs, e)].rsv1
Bytes(fs, e) == Joined(fs, StartOf(fs, e), e)

\* The number of compressed messages that end before frame e.
Behind(fs, e) == Cardinality({d \in Ends(fs) : d < e /\ Compressed(fs, d)})

\* Compressed bytes mean what they were made from if the sender's window
\* holds nothing or, where the ends have agreed to keep it, the messages
\* before them.
Makes(bytes, kept, window) ==
    /\ IsDeflated(bytes)
    /\ bytes[1].window = 0 \/ (kept /\ bytes[1].window = window)

\* ... and all before them were meaningful too.
Meaningful(fs, n, kept) ==
    \A e \in Ends(fs) :
        e <= n /\ Compressed(fs, e) => Makes(Bytes(fs, e), kept, Behind(fs, e))

\* The message that ends with frame e.
MessageAt(fs, e, kept) ==
    [kind |-> Kind(fs, e),
     data |-> IF ~Compressed(fs, e) THEN Bytes(fs, e)
              ELSE IF Meaningful(fs, e, kept) THEN Bytes(fs, e)[1].of
              ELSE Unreadable]
=============================================================================
