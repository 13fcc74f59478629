------------------------------- MODULE AnyPeer -------------------------------
(***************************************************************************)
(* One end of a connection against a peer about which nothing is known: it *)
(* may put any frame of RawFrames on the wire at any time, read what it is *)
(* sent or leave it, and close its socket.  What holds here holds for this *)
(* library whatever implementation, correct or not, is at the other end.   *)
(*                                                                         *)
(* MaxWritten bounds the frames the peer writes.                           *)
(***************************************************************************)
EXTENDS Endpoint

CONSTANTS
    RawFrames,    \* the frames the peer may write
    MaxWritten

ASSUME PeerAssumption == RawFrames \subseteq RawFrame /\ MaxWritten \in Nat

VARIABLES
    taken,   \* history: the frames the read task has read
    heard    \* history: the frames the peer has read

vars == <<endVars, peerGone, broken, taken, heard>>

\* Every task is in a place that fits what it holds, and the mutex is with
\* the task that is writing (read.rs:159-166, split.rs:225-230).
TypeOK ==
    /\ EndTypeOK
    /\ taken \in Seq(RawFrame)
    /\ heard \in Seq(RawFrame)

Init ==
    /\ EndInit
    /\ inbox = <<>> /\ outbox = <<>>
    /\ peerGone = FALSE /\ broken = FALSE
    /\ taken = <<>> /\ heard = <<>>

EndStep ==
    /\ EndNext
    /\ taken' = IF inbox' # inbox THEN Append(taken, Head(inbox)) ELSE taken
    /\ UNCHANGED <<peerGone, broken, heard>>

\* A frame that is cut short is the last one that is understood as a frame:
\* whatever follows would be taken for the rest of its payload.
PeerWrites ==
    \E f \in RawFrames :
        /\ ~peerGone
        /\ Len(inbox) < TcpCap
        /\ Len(taken) + Len(inbox) < MaxWritten
        /\ \A i \in 1..Len(inbox) : inbox[i].whole
        /\ inbox' = Append(inbox, f)
        /\ UNCHANGED <<outbox, lock, chan, rx, readVars, userVars>>
        /\ UNCHANGED <<peerGone, broken, taken, heard>>

PeerReads ==
    /\ outbox # <<>>
    /\ heard' = Append(heard, Head(outbox))
    /\ outbox' = Tail(outbox)
    /\ UNCHANGED <<inbox, lock, chan, rx, readVars, userVars>>
    /\ UNCHANGED <<peerGone, broken, taken>>

\* The peer sends FIN.  It may still read: the other direction stays open
\* until it is reset.
PeerLeaves ==
    /\ ~peerGone
    /\ peerGone' = TRUE
    /\ UNCHANGED <<endVars, broken, taken, heard>>

PeerResets ==
    /\ Reset
    /\ UNCHANGED <<outbox, lock, chan, rx, readVars, userVars>>
    /\ UNCHANGED <<peerGone, taken, heard>>

Next == EndStep \/ PeerWrites \/ PeerReads \/ PeerLeaves \/ PeerResets

Spec == Init /\ [][Next]_vars

\* A peer that has left goes for good: it does not stop reading and yet keep
\* its socket.
FairSpec == Spec /\ TaskFairness /\ ReaderFairness /\ WF_vars(PeerResets)

\* What the peer is assumed to do where a property needs it.
PeerGoesOnReading == WF_vars(PeerReads)

(***************************************************************************)
(* Safety.                                                                 *)
(***************************************************************************)

\* Everything the read task has given or is about to give to the user.
InHand == IF pc \in {"deliver", "fail"} THEN <<hand>> ELSE <<>>
Stream == got \o chan \o InHand

IsErr(item) == item.kind = "Err"

\* An error is the last thing a user receives: no message follows one
\* (handshake.rs:130-134 sends it after poll_messages has returned).
ErrorIsLast == \A i \in 1..Len(Stream) : IsErr(Stream[i]) => i = Len(Stream)

Largest ==
    IF MaxFrameSize > MaxMessageSize THEN MaxFrameSize ELSE MaxMessageSize

\* However many fragments a peer sends, a read task that goes on reading
\* buffers no more of a message than one frame or one message may have
\* (read.rs:64-90).
FragmentBound ==
    frag # None /\ pc \notin {"fail", "done"} => Len(frag.payload) <= Largest

\* Text that reaches the user is valid UTF-8 although a fragment may end
\* inside a character (read.rs:300-305).
TextIsUtf8 ==
    \A i \in 1..Len(got) : got[i].kind = "Text" => IsUtf8(got[i].data)

\* When the user's stream ends the user can tell why: the peer sent a Close,
\* and it was the last frame read, or the last item is an error
\* (read.rs:133-143, handshake.rs:131-133).
EndIsExplained ==
    rx = "ended" =>
        \/ got # <<>> /\ IsErr(got[Len(got)])
        \/ taken # <<>> /\ taken[Len(taken)].op = "Close"

HasReadClose == \E i \in 1..Len(taken) : taken[i].op = "Close"

\* A Close is the last frame that is read (read.rs:140-142).
NothingReadAfterClose == [][HasReadClose => UNCHANGED taken]_taken
=============================================================================
