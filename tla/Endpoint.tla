------------------------------ MODULE Endpoint ------------------------------
(***************************************************************************)
(* One end of an established connection: what second_stage_handshake and   *)
(* WSConnection put together (handshake.rs:91-137, connection.rs).  The    *)
(* read task and the user share the Writer's mutex and the channel; the    *)
(* user holds a WSWriter and a WSReader, in two tasks if it has split the  *)
(* connection, in one if it has not.                                       *)
(*                                                                         *)
(* Nothing here changes peerGone and broken: when the other end closes its *)
(* socket is for the module that composes this one with a peer to say.     *)
(***************************************************************************)
EXTENDS ReadStream, WSWriter

CONSTANT Split   \* do reads and writes of the user run in separate tasks?

ASSUME SplitAssumption == Split \in BOOLEAN

VARIABLE got     \* history: the items the user has received

linkVars == <<inbox, outbox, lock, chan, rx>>
userVars == <<writeVars, got>>
endVars == <<linkVars, readVars, userVars>>

EndTypeOK ==
    /\ LinkTypeOK /\ ReadTypeOK /\ WriteTypeOK
    /\ got \in Seq(Item)

EndInit == LinkInit /\ ReadInit /\ WriteInit /\ got = <<>>

\* The task is gone, and with it its half of the stream; the user has given
\* up the other half: now the socket closes.
SocketClosed == pc = "done" /\ handle = "dropped"

\* A user with one task does not read while it is inside a call.
MayRead == rx = "open" /\ (Split \/ call = "idle")

\* WSReader::poll_next is Ready(Some(item)).
NextItem ==
    /\ MayRead
    /\ chan # <<>>
    /\ got' = Append(got, Head(chan))
    /\ chan' = Tail(chan)
    /\ UNCHANGED <<inbox, outbox, lock, rx>>
    /\ UNCHANGED <<readVars, writeVars>>

\* WSReader::poll_next is Ready(None): the sender is gone.
NextNone ==
    /\ MayRead
    /\ chan = <<>>
    /\ pc = "done"
    /\ rx' = "ended"
    /\ UNCHANGED <<inbox, outbox, lock, chan, got>>
    /\ UNCHANGED <<readVars, writeVars>>

\* The user drops its WSReader, and what the channel still holds.
DropReader ==
    /\ rx = "open"
    /\ rx' = "dropped"
    /\ chan' = <<>>
    /\ UNCHANGED <<inbox, outbox, lock, got>>
    /\ UNCHANGED <<readVars, writeVars>>

Reading == ReadTask /\ UNCHANGED userVars
Writing == (Call \/ WriteTask \/ DropWriter) /\ UNCHANGED <<readVars, got>>

EndNext == Reading \/ Writing \/ NextItem \/ NextNone \/ DropReader

(***************************************************************************)
(* Fairness.  Tokio polls a task whose await is ready, a call that runs    *)
(* goes on, and tokio's Mutex is fair (FIFO): a task that waits for it     *)
(* gets it although the other asks for it again and again.  What the user  *)
(* does of its own accord (to call, to drop) is not fair; that it goes on  *)
(* reading is an assumption about the user, stated by ReaderFairness.      *)
(***************************************************************************)
TaskFairness ==
    /\ WF_endVars(Reading)
    /\ SF_endVars(LockForReply /\ UNCHANGED userVars)
    /\ WF_endVars(WriteTask /\ UNCHANGED <<readVars, got>>)
    /\ SF_endVars(LockForFrame /\ UNCHANGED <<readVars, got>>)

ReaderFairness == WF_endVars(NextItem \/ NextNone)
=============================================================================
