------------------------------- MODULE Server -------------------------------
(***************************************************************************)
(* The ready-made server (server.rs, event.rs): a task that accepts one    *)
(* connection after another, a task for each client, and the channel       *)
(* through which all of them tell the user, who holds the EventStream.     *)
(*                                                                         *)
(* The ids are the turns of the accept loop: every turn draws a uuid, and  *)
(* no two are the same.  What happens inside a handshake is the module     *)
(* Handshake, and inside a connection, Connection: here a handshake ends   *)
(* well or not, and a WSReader gives messages, then perhaps an error, then *)
(* the end of its stream.  Bug_... definitions are mutated forms.          *)
(*                                                                         *)
(* MaxClients, MaxFailures and MaxMessages bound the connections that      *)
(* arrive, the errors of accept(), and the messages of one client.         *)
(***************************************************************************)
EXTENDS Integers, Sequences, FiniteSets

CONSTANTS EventCap,    \* capacity of the event channel: 1000 in the code
          MaxClients, MaxFailures, MaxMessages

ASSUME ServerAssumption ==
    /\ EventCap \in Nat \ {0}
    /\ {MaxClients, MaxFailures, MaxMessages} \subseteq Nat

Id == 1..(MaxClients + MaxFailures)

VARIABLES
    tls,        \* is there a tls_config?
    extended,   \* has web_socket_config extensions?
    arrived,    \* connections that have reached the listener
    accepted,   \* ... and that the loop has taken from it
    failed,     \* turns in which accept() returned an error
    at,         \* where the accept loop is
    id,         \* the uuid of its turn
    silent,     \* does the client it waits for keep silent?
    pending,    \* the event a task is about to send, for each id
    task,       \* where the task of each client is
    read,       \* messages it has taken from its WSReader
    events,     \* what is in the channel
    stream,     \* the user's end of it, the EventStream
    heard       \* history: what the user has been told of each id

loopVars == <<accepted, failed, at, id, silent>>
vars == <<tls, extended, arrived, loopVars, pending, task, read, events,
          stream, heard>>

F == INSTANCE EventFeed

Event ==
    {F!NewClient, F!Disconnect, F!Error}
        \cup {F!NewMessage(n) : n \in 1..MaxMessages}

\* The tasks are at places of their code, and the channel is not over full.
TypeOK ==
    /\ {tls, extended, silent} \subseteq BOOLEAN
    /\ arrived \in 0..MaxClients
    /\ accepted \in 0..arrived
    /\ failed \subseteq Id
    /\ at \in {"accept", "tls", "handshake", "send", "dead"}
    /\ id \in 1..(MaxClients + MaxFailures + 1)
    /\ pending \in [Id -> Event]
    /\ task \in [Id -> {"none", "reads", "sends", "leaves", "done",
                        "panicked"}]
    /\ read \in [Id -> 0..MaxMessages]
    /\ events \in Seq([id : Id, event : Event]) /\ Len(events) <= EventCap
    /\ stream \in {"open", "dropped"}
    /\ heard \in [Id -> Seq(Event)]

Init ==
    /\ tls \in BOOLEAN /\ extended \in BOOLEAN
    /\ arrived = 0 /\ accepted = 0 /\ failed = {}
    /\ at = "accept" /\ id = 1 /\ silent = FALSE
    /\ pending = [i \in Id |-> F!Error]
    /\ task = [i \in Id |-> "none"]
    /\ read = [i \in Id |-> 0]
    /\ events = <<>> /\ stream = "open"
    /\ heard = [i \in Id |-> <<>>]

\* tx.send(event).await: it waits for room, and fails when the EventStream
\* is gone.
Bug_Unbounded(i, event) ==
    /\ stream = "open"
    /\ events' = Append(events, [id |-> i, event |-> event])
Sent(i, event) ==
    /\ stream = "open"
    /\ Len(events) < EventCap
    /\ events' = Append(events, [id |-> i, event |-> event])

(***************************************************************************)
(* The accept loop.                                                        *)
(***************************************************************************)
Arrive ==
    /\ at # "dead" /\ arrived < MaxClients
    /\ arrived' = arrived + 1
    /\ UNCHANGED <<tls, extended, loopVars, pending, task, read, events,
                   stream, heard>>

WillSend(event) ==
    /\ at' = "send"
    /\ pending' = [pending EXCEPT ![id] = event]

Accept ==
    /\ at = "accept" /\ accepted < arrived
    /\ accepted' = accepted + 1
    /\ at' = IF tls THEN "tls" ELSE "handshake"
    /\ silent' \in BOOLEAN
    /\ UNCHANGED <<failed, id, pending, task>>

AcceptFails ==
    /\ at = "accept" /\ Cardinality(failed) < MaxFailures
    /\ failed' = failed \cup {id}
    /\ WillSend(F!Error)
    /\ UNCHANGED <<accepted, id, silent, task>>

\* acceptor.accept(stream).await waits for the client as long as it takes.
TlsEnds ==
    /\ at = "tls" /\ ~silent
    /\ \/ at' = "handshake" /\ silent' \in BOOLEAN /\ UNCHANGED pending
       \/ WillSend(F!Error) /\ UNCHANGED silent
    /\ UNCHANGED <<accepted, failed, id, task>>

SilentClientLeaves ==
    /\ at = "tls" /\ silent
    /\ WillSend(F!Error)
    /\ UNCHANGED <<accepted, failed, id, silent, task>>

Bug_SpawnsFirst ==
    /\ at = "handshake" /\ ~silent
    /\ WillSend(F!NewClient)
    /\ task' = [task EXCEPT ![id] = "reads"]
    /\ UNCHANGED <<accepted, failed, id, silent>>
HandshakeSucceeds ==
    /\ at = "handshake" /\ ~silent
    /\ WillSend(F!NewClient)
    /\ UNCHANGED <<accepted, failed, id, silent, task>>

\* A silent client is given five seconds for its request.
Bug_NoTimeout ==
    /\ at = "handshake" /\ ~silent
    /\ WillSend(F!Error)
    /\ UNCHANGED <<accepted, failed, id, silent, task>>
HandshakeFails ==
    /\ at = "handshake"
    /\ WillSend(F!Error)
    /\ UNCHANGED <<accepted, failed, id, silent, task>>

\* A window size that was agreed and is none for the coders: Panics of
\* Extensions.
HandshakePanics ==
    /\ at = "handshake" /\ ~silent /\ extended
    /\ at' = "dead"
    /\ UNCHANGED <<accepted, failed, id, silent, pending, task>>

otherVars == <<tls, extended, arrived, read, events, stream, heard>>

\* What neither another connection nor the silence of a client can keep back.
LoopGoesOn ==
    /\ Accept \/ TlsEnds \/ HandshakeSucceeds \/ HandshakeFails
    /\ UNCHANGED otherVars

LoopWaits ==
    \/ LoopGoesOn
    \/ /\ AcceptFails \/ SilentClientLeaves \/ HandshakePanics
       /\ UNCHANGED otherVars

\* The task of the client is spawned when NewClient is in the channel.
LoopSends ==
    /\ at = "send"
    /\ Sent(id, pending[id])
    /\ task' = IF pending[id] = F!NewClient
               THEN [task EXCEPT ![id] = "reads"] ELSE task
    /\ at' = "accept" /\ id' = id + 1
    /\ UNCHANGED <<tls, extended, arrived, accepted, failed, silent, pending,
                   read, stream, heard>>

\* unwrap() panics.
LoopDies ==
    /\ at = "send" /\ stream = "dropped"
    /\ at' = "dead"
    /\ UNCHANGED <<tls, extended, arrived, accepted, failed, id, silent,
                   pending, task, read, events, stream, heard>>

(***************************************************************************)
(* The task of one client.                                                 *)
(***************************************************************************)
Goes(i, from, to) == task[i] = from /\ task' = [task EXCEPT ![i] = to]

TakesMessage(i) ==
    /\ read[i] < MaxMessages
    /\ Goes(i, "reads", "sends")
    /\ read' = [read EXCEPT ![i] = @ + 1]
    /\ pending' = [pending EXCEPT ![i] = F!NewMessage(read'[i])]
    /\ UNCHANGED <<tls, extended, arrived, loopVars, events, stream, heard>>

TakesError(i) ==
    /\ Goes(i, "reads", "sends")
    /\ pending' = [pending EXCEPT ![i] = F!Error]
    /\ UNCHANGED <<tls, extended, arrived, loopVars, read, events, stream,
                   heard>>

TakesNone(i) ==
    /\ Goes(i, "reads", "leaves")
    /\ UNCHANGED <<tls, extended, arrived, loopVars, pending, read, events,
                   stream, heard>>

Bug_ReturnsAfterError(i) ==
    /\ Goes(i, "sends", IF pending[i] = F!Error THEN "done" ELSE "reads")
    /\ Sent(i, pending[i])
    /\ UNCHANGED <<tls, extended, arrived, loopVars, pending, read, stream,
                   heard>>
TaskSends(i) ==
    /\ Goes(i, "sends", IF pending[i] = F!Error THEN "leaves" ELSE "reads")
    /\ Sent(i, pending[i])
    /\ UNCHANGED <<tls, extended, arrived, loopVars, pending, read, stream,
                   heard>>

TaskDies(i) ==
    /\ stream = "dropped"
    /\ Goes(i, "sends", "panicked")
    /\ UNCHANGED <<tls, extended, arrived, loopVars, pending, read, events,
                   stream, heard>>

\* The result of this one is ignored.
SendsDisconnect(i) ==
    /\ Goes(i, "leaves", "done")
    /\ \/ Sent(i, F!Disconnect)
       \/ stream = "dropped" /\ UNCHANGED events
    /\ UNCHANGED <<tls, extended, arrived, loopVars, pending, read, stream,
                   heard>>

(***************************************************************************)
(* The user.                                                               *)
(***************************************************************************)
NextEvent ==
    /\ stream = "open" /\ events # <<>>
    /\ LET e == Head(events)
       IN heard' = [heard EXCEPT ![e.id] = Append(@, e.event)]
    /\ events' = Tail(events)
    /\ UNCHANGED <<tls, extended, arrived, loopVars, pending, task, read,
                   stream>>

DropStream ==
    /\ stream = "open"
    /\ stream' = "dropped" /\ events' = <<>>
    /\ UNCHANGED <<tls, extended, arrived, loopVars, pending, task, read,
                   heard>>

TaskStep(i) ==
    \/ TakesMessage(i) \/ TakesError(i) \/ TakesNone(i)
    \/ TaskSends(i) \/ TaskDies(i) \/ SendsDisconnect(i)

Next ==
    \/ Arrive \/ LoopWaits \/ LoopSends \/ LoopDies
    \/ \E i \in Id : TaskStep(i)
    \/ NextEvent \/ DropStream

Spec == Init /\ [][Next]_vars

\* The loop and the tasks run; tokio's channel gives its room to those that
\* wait for it in turn.  The user is assumed to go on reading.  Nobody can
\* be relied on to connect, to speak, or to leave.
FairSpec ==
    /\ Spec
    /\ WF_vars(LoopGoesOn)
    /\ SF_vars(LoopSends \/ LoopDies)
    /\ \A i \in Id :
          SF_vars(TaskSends(i) \/ TaskDies(i) \/ SendsDisconnect(i))
    /\ WF_vars(NextEvent)

(***************************************************************************)
(* Properties.                                                             *)
(***************************************************************************)

\* What the user hears of each client is in order although it comes from two
\* tasks: NewClient before anything else, its messages as they were read, an
\* error at most once, Disconnect last, and nothing after the error of a
\* handshake (server.rs:50-87).
FeedIsOrderly == F!Spec

\* The loop cannot go on: a TLS client that keeps silent (no timeout bounds
\* server.rs:39), or a panic.
Stuck == (at = "tls" /\ silent) \/ (at = "dead" /\ extended)

\* Whoever connects is heard of, as a client or by an error, however many
\* before it keep silent in their handshake (server.rs:32-93,
\* request.rs:86-97); unless the loop is stuck or the EventStream dropped.
EveryoneServed ==
    \A n \in 1..MaxClients :
        arrived >= n ~> \/ Cardinality({i \in Id \ failed : heard[i] # <<>>})
                               >= n
                        \/ stream = "dropped" \/ Stuck

\* The user has been told all of a client that has gone.
Told(i) ==
    /\ heard[i] # <<>> /\ F!Last(i) = F!Disconnect
    /\ read[i] > 0 => F!NewMessage(read[i]) \in {heard[i][n] :
                                                 n \in 1..Len(heard[i])}

\* The task of a client that has something to tell goes on to read, or all
\* of it is told to the end, whatever ended it; and when the EventStream is
\* dropped, no task waits any longer for room in its channel
\* (server.rs:69-86).
TasksTellAll ==
    \A i \in Id :
        task[i] \in {"sends", "leaves"}
            ~> \/ task[i] = "reads" \/ Told(i)
               \/ stream = "dropped" /\ task[i] \in {"done", "panicked"}
=============================================================================
