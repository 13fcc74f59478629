------------------------------- MODULE Writer -------------------------------
(***************************************************************************)
(* One direction of a connection at the grain of write_all and read_exact  *)
(* (write.rs, read.rs:168-272): the two tasks that share the Writer put    *)
(* the parts of their frames into the stream one after the other, and the  *)
(* other end's read task cuts the stream into frames again.  Link takes a  *)
(* frame for one step; here is what that rests on, and what is left of it  *)
(* when the future of a call is dropped while it writes (a timeout or      *)
(* select! around it).                                                     *)
(*                                                                         *)
(* A part of a frame is written and read in one step; a call can be        *)
(* dropped between any two.  MaxFrames bounds the frames of each task,     *)
(* MaxSize the parts of a payload.                                         *)
(***************************************************************************)
EXTENDS Integers, Sequences

CONSTANTS
    TcpCap,     \* parts that fit into the buffers of the socket
    TlsCap,     \* ... and into the buffer of a TLS stream
    MaxFrames,
    MaxSize

ASSUME WriterAssumption ==
    /\ TcpCap \in Nat \ {0} /\ TlsCap \in Nat \ {0}
    /\ MaxFrames \in Nat /\ MaxSize \in Nat

Task == {"user", "reader"}

VARIABLES
    kind,      \* WriterKind: a client masks its payloads
    secure,    \* SocketFlowStream::Secure
    lock,      \* who holds the mutex of the Writer
    begun,     \* frames each task has begun
    rest,      \* what each task has yet to write of its frame
    buffer,    \* what the TLS stream holds back
    wire,      \* what is in the socket
    sent,      \* history: frames written before any was torn
    torn,      \* history: has a call been dropped inside a frame?
    peer,      \* the other end's read task
    need,      \* the number of parts its frame should have
    taken,     \* what it has read of that
    got        \* the frames it has read

writeVars == <<lock, begun, rest, buffer, sent, torn>>
readVars == <<peer, need, taken, got>>
vars == <<kind, secure, wire, writeVars, readVars>>

Frame == [from : Task, no : 1..MaxFrames, size : 0..MaxSize]

\* What the other end makes of parts that are no frame.
Garbage == "garbage"

(***************************************************************************)
(* write_frame_server, write_frame_client: the first byte, the length, the *)
(* mask if there is one, the payload.                                      *)
(***************************************************************************)
Part(frame, name) == [frame |-> frame, name |-> name]
Payload(frame) == [i \in 1..frame.size |-> Part(frame, "payload")]
Mask(frame) == IF kind = "Client" THEN <<Part(frame, "mask")>> ELSE <<>>
Parts(frame) ==
    <<Part(frame, "first"), Part(frame, "length")>>
        \o Mask(frame) \o Payload(frame)

Init ==
    /\ kind \in {"Client", "Server"} /\ secure \in BOOLEAN
    /\ lock = "free"
    /\ begun = [t \in Task |-> 0] /\ rest = [t \in Task |-> <<>>]
    /\ buffer = <<>> /\ wire = <<>>
    /\ sent = <<>> /\ torn = FALSE
    /\ peer = "reads" /\ need = 2 /\ taken = <<>> /\ got = <<>>

Bug_NoLock(t) == lock' = t
Acquire(t) == lock = "free" /\ lock' = t

Begin(t) ==
    /\ rest[t] = <<>> /\ begun[t] < MaxFrames
    /\ Acquire(t)
    /\ begun' = [begun EXCEPT ![t] = @ + 1]
    /\ \E size \in 0..MaxSize :
          rest' = [rest EXCEPT ![t] =
                      Parts([from |-> t, no |-> begun'[t], size |-> size])]
    /\ UNCHANGED <<kind, secure, buffer, wire, sent, torn, readVars>>

Room == TcpCap - Len(wire)

\* A TLS stream takes what its buffer has room for, and passes on to the
\* socket as much as that takes: write_all returns although a remainder may
\* stay behind.
Holds(part) ==
    LET all == Append(buffer, part)
        n == IF Room < Len(all) THEN Room ELSE Len(all)
    IN /\ Len(buffer) < TlsCap \/ Room > 0
       /\ wire' = wire \o SubSeq(all, 1, n)
       /\ buffer' = SubSeq(all, n + 1, Len(all))

\* poll_write of SocketFlowStream, without a flush.
Bug_Buffers(part) == Holds(part)
WriteAll(part) ==
    IF secure THEN Holds(part)
    ELSE /\ Room > 0
         /\ wire' = Append(wire, part)
         /\ UNCHANGED buffer

\* The last part ends the call, and the mutex is free.
WritePart(t) ==
    /\ rest[t] # <<>>
    /\ WriteAll(Head(rest[t]))
    /\ rest' = [rest EXCEPT ![t] = Tail(@)]
    /\ IF Len(rest[t]) > 1 THEN UNCHANGED <<lock, sent>>
       ELSE /\ lock' = "free"
            /\ sent' = IF torn THEN sent
                       ELSE Append(sent, Head(rest[t]).frame)
    /\ UNCHANGED <<kind, secure, begun, torn, readVars>>

\* The future of the user's call is dropped, and the guard with it.
DropCall ==
    /\ rest["user"] # <<>>
    /\ lock' = "free"
    /\ torn' = (torn \/ Head(rest["user"]).name # "first")
    /\ rest' = [rest EXCEPT !["user"] = <<>>]
    /\ UNCHANGED <<kind, secure, begun, buffer, wire, sent, readVars>>

(***************************************************************************)
(* read_frame of the other end.                                            *)
(***************************************************************************)

\* The parts a frame should have after those that have been read: what is no
\* length may be taken for any.
Needs(parts) ==
    IF Len(parts) < 2 THEN {2}
    ELSE IF Len(parts) > 2 THEN {need}
    ELSE IF parts[2].name = "length" THEN {Len(Parts(parts[2].frame))}
    ELSE 2..(3 + MaxSize)

Read(parts) ==
    IF parts = Parts(parts[1].frame) THEN parts[1].frame ELSE Garbage

ReadPart ==
    /\ peer = "reads" /\ wire # <<>>
    /\ LET parts == Append(taken, Head(wire))
       IN /\ need' \in Needs(parts)
          /\ IF Len(parts) < need'
             THEN taken' = parts /\ UNCHANGED got
             ELSE taken' = <<>> /\ got' = Append(got, Read(parts))
    /\ wire' = Tail(wire)
    /\ UNCHANGED <<kind, secure, writeVars, peer>>

\* What is no first byte may be refused.
RefusePart ==
    /\ peer = "reads" /\ taken # <<>>
    /\ taken[1].name # "first"
    /\ peer' = "failed"
    /\ UNCHANGED <<kind, secure, wire, writeVars, need, taken, got>>

\* No payload within five seconds: of the header and the mask there is no
\* such limit.  A task that still writes is taken to be fast enough.
PayloadTimesOut ==
    /\ peer = "reads" /\ wire = <<>> /\ lock = "free"
    /\ Len(taken) >= (IF kind = "Client" THEN 3 ELSE 2)
    /\ peer' = "failed"
    /\ UNCHANGED <<kind, secure, wire, writeVars, need, taken, got>>

Next ==
    \/ \E t \in Task : Begin(t) \/ WritePart(t)
    \/ DropCall
    \/ ReadPart \/ RefusePart \/ PayloadTimesOut

\* A call that runs goes on, and the other end reads what is there.
Spec ==
    /\ Init /\ [][Next]_vars
    /\ \A t \in Task : WF_vars(WritePart(t))
    /\ WF_vars(ReadPart)

(***************************************************************************)
(* Properties.                                                             *)
(***************************************************************************)

\* The frames that are written before one is torn come out whole and in
\* their order, whichever task wrote them; and while no call has been
\* dropped inside a frame, nothing else comes out (write.rs:30-131,
\* read.rs:154-161, split.rs:225-230).
Whole == IF torn /\ Len(got) > Len(sent) THEN SubSeq(got, 1, Len(sent))
         ELSE got
Frames == INSTANCE MessagePipe WITH Message <- Frame, got <- Whole
FramesStayWhole == Frames!Spec

\* The TLS stream holds something back and nobody writes.
HeldBack == buffer # <<>> /\ lock = "free"

\* A frame that has been written reaches the other end, on a plain stream
\* always.  On a TLS stream it may stay in its buffer, for ever if nobody
\* writes again, since no frame is flushed; and the other end may have given
\* it up when the rest follows (write.rs:64, read.rs:253-261).
FramesArrive ==
    \A n \in 1..(2 * MaxFrames) :
        Len(sent) >= n
            ~> \/ Len(got) >= n
               \/ secure /\ (peer = "failed" \/ []HeldBack)
=============================================================================
