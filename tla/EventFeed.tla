------------------------------ MODULE EventFeed ------------------------------
(***************************************************************************)
(* What an EventStream promises of each id: a client comes, speaks, may    *)
(* fail once, and leaves; or something fails before it is a client, and    *)
(* that is all.  Its messages come in their order, none twice and none     *)
(* left out.  The feed does not promise that anything comes.               *)
(***************************************************************************)
EXTENDS Sequences, Naturals

CONSTANT Id

VARIABLE heard    \* what the user has been told of each id

NewClient == [kind |-> "NewClient"]
Disconnect == [kind |-> "Disconnect"]
Error == [kind |-> "Error"]
NewMessage(n) == [kind |-> "NewMessage", n |-> n]

Init == heard = [id \in Id |-> <<>>]

Last(id) == heard[id][Len(heard[id])]

\* It has come, and has neither failed nor left.
Connected(id) ==
    heard[id] # <<>> /\ Last(id).kind \in {"NewClient", "NewMessage"}

Tell(id, event) == heard' = [heard EXCEPT ![id] = Append(@, event)]

Comes(id) == heard[id] = <<>> /\ Tell(id, NewClient)
Speaks(id) == Connected(id) /\ Tell(id, NewMessage(Len(heard[id])))
Fails(id) == (heard[id] = <<>> \/ Connected(id)) /\ Tell(id, Error)
Leaves(id) ==
    /\ heard[id] # <<>> /\ heard[id][1] = NewClient
    /\ Last(id) # Disconnect
    /\ Tell(id, Disconnect)

Next == \E id \in Id : Comes(id) \/ Speaks(id) \/ Fails(id) \/ Leaves(id)

Spec == Init /\ [][Next]_heard
=============================================================================
