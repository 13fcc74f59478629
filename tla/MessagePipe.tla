----------------------------- MODULE MessagePipe -----------------------------
(***************************************************************************)
(* What one direction of a connection promises: messages come out as they  *)
(* went in, in the same order, each at most once.  It does not promise     *)
(* that they come out.                                                     *)
(***************************************************************************)
EXTENDS Sequences, Naturals

CONSTANT Message

VARIABLES sent, got

TypeOK == sent \in Seq(Message) /\ got \in Seq(Message)

Init == sent = <<>> /\ got = <<>>

Send ==
    /\ \E m \in Message : sent' = Append(sent, m)
    /\ UNCHANGED got

Receive ==
    /\ Len(got) < Len(sent)
    /\ got' = Append(got, sent[Len(got) + 1])
    /\ UNCHANGED sent

Spec == Init /\ [][Send \/ Receive]_<<sent, got>>
=============================================================================
