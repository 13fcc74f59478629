-------------------------------- MODULE Link --------------------------------
(***************************************************************************)
(* What the tasks of one end of a connection share: its TCP stream, the    *)
(* mutex around the Writer (handshake.rs:101), the channel from the read   *)
(* task to the user (handshake.rs:107), and the configuration that both    *)
(* halves keep a copy of (handshake.rs:109, 120).                          *)
(*                                                                         *)
(* A TCP stream carries whole frames here.  Every frame is written under   *)
(* the mutex, so that frames never mix; that one write consists of several *)
(* write_all calls matters only when one of them fails, and then the       *)
(* stream is over.                                                         *)
(***************************************************************************)
EXTENDS Frames

CONSTANTS
    TcpCap,          \* frames that fit into the buffers of one direction
    ChanCap,         \* capacity of the channel to the user: 20 in the code
    MaxFrameSize,    \* config.max_frame_size
    MaxMessageSize,  \* config.max_message_size
    Deflate          \* has permessage-deflate been agreed?

ASSUME CapacityAssumption == TcpCap \in Nat \ {0} /\ ChanCap \in Nat \ {0}
ASSUME ConfigAssumption ==
    /\ MaxFrameSize \in Nat \ {0}
    /\ MaxMessageSize \in Nat
    /\ Deflate \in BOOLEAN

VARIABLES
    inbox,     \* frames on their way to this end
    outbox,    \* frames this end has written and its peer has not read
    peerGone,  \* the peer has closed its socket: FIN follows the inbox
    broken,    \* ... and has reset the connection since
    lock,      \* who holds the mutex of the Writer
    chan,      \* read items the user has not taken from the channel
    rx         \* the user's end of the channel (WSReader)

Holder == {"free", "reader", "user"}

LinkTypeOK ==
    /\ inbox \in Seq(RawFrame)
    /\ outbox \in Seq(RawFrame)
    /\ peerGone \in BOOLEAN
    /\ broken \in BOOLEAN
    /\ broken => peerGone
    /\ lock \in Holder
    /\ chan \in Seq(Item)
    /\ rx \in {"open", "ended", "dropped"}

LinkInit ==
    /\ lock = "free"
    /\ chan = <<>>
    /\ rx = "open"

\* tokio::sync::Mutex::lock().
Acquire(task) == lock = "free" /\ lock' = task

\* Writer::write_frame returns Ok: the frame is in the socket's buffers.
\* That does not mean that the peer is there to read it.
Written(frame) ==
    /\ ~broken
    /\ Len(outbox) < TcpCap
    /\ outbox' = Append(outbox, frame)

\* Writer::write_frame returns an error, as all later writes will.
WriteFails == broken /\ UNCHANGED outbox

\* What a closed socket never reads makes TCP reset the connection.  What
\* this end has not read yet may still be there, or some of it, or nothing.
Reset ==
    /\ peerGone /\ ~broken
    /\ outbox # <<>> \/ lock # "free"
    /\ broken' = TRUE
    /\ \E n \in 0..Len(inbox) : inbox' = SubSeq(inbox, 1, n)

\* Sender::send(item).await completes.
Queue(item) ==
    /\ rx = "open"
    /\ Len(chan) < ChanCap
    /\ chan' = Append(chan, item)
=============================================================================
