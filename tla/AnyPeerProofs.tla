---------------------------- MODULE AnyPeerProofs ----------------------------
(***************************************************************************)
(* What one end keeps against any peer, for any set of frames, any limits  *)
(* and any number of calls.                                                *)
(***************************************************************************)
EXTENDS AnyPeerProperties, EndpointProofs, FiniteSetTheorems,
    WellFoundedInduction

(***************************************************************************)
(* Types.                                                                  *)
(***************************************************************************)
LEMMA InitType == Init => TypeOK
<1> SUFFICES ASSUME Init PROVE TypeOK
  OBVIOUS
<1>1. EndTypeOK
  BY EndInitType, EmptySeq DEF Init
<1> QED
  BY <1>1 DEF Init, TypeOK

LEMMA StepType == TypeOK /\ [Next]_vars => TypeOK'
<1> SUFFICES ASSUME TypeOK, [Next]_vars PROVE TypeOK'
  OBVIOUS
<1>1. /\ EndTypeOK /\ LinkTypeOK /\ ReadTypeOK /\ WriteTypeOK
      /\ got \in Seq(Item)
      /\ taken \in Seq(RawFrame) /\ heard \in Seq(RawFrame)
      /\ inbox \in Seq(RawFrame) /\ outbox \in Seq(RawFrame)
  BY DEF TypeOK, EndTypeOK, LinkTypeOK
<1>2. ASSUME EndStep PROVE TypeOK'
  <2>1. EndTypeOK'
    BY <1>1, <1>2, EndNextType DEF EndStep
  <2>2. inbox' # inbox => inbox # <<>>
    <3>1. ASSUME ReadFrame PROVE inbox # <<>>
      BY <3>1 DEF ReadFrame
    <3>2. ReadFrame \/ UNCHANGED inbox
      BY <1>2
      DEF EndStep, EndNext, Reading, Writing, NextItem, NextNone, DropReader,
        ReadTask, Disconnected, EndOfInput, Deliver, DeliverRefused,
        LockForReply, WriteReply, ReplyFails, ReportFailure,
        Call, SendMessage, SendLarge, SendPing, CloseConnection, Calls,
        WriteTask, LockForFrame, WriteFrame, FrameFails, CloseReturns,
        DropWriter
    <3> QED
      BY <3>1, <3>2
  <2>3. taken' \in Seq(RawFrame)
    BY <1>1, <1>2, <2>2, HeadTailProperties, AppendProperties DEF EndStep
  <2> QED
    BY <1>1, <1>2, <2>1, <2>3 DEF EndStep, TypeOK
<1>3. ASSUME PeerWrites PROVE TypeOK'
  <2>1. inbox' \in Seq(RawFrame)
    BY <1>1, <1>3, PeerAssumption, AppendProperties DEF PeerWrites
  <2>2. peerGone' = peerGone /\ peerGone \in BOOLEAN
    BY <1>1, <1>3 DEF PeerWrites, LinkTypeOK
  <2> QED
    BY <1>1, <1>3, <2>1, <2>2, OutsideType DEF PeerWrites, TypeOK
<1>4. ASSUME PeerReads PROVE TypeOK'
  <2>1. outbox' \in Seq(RawFrame) /\ heard' \in Seq(RawFrame)
    BY <1>1, <1>4, HeadTailProperties, AppendProperties DEF PeerReads
  <2>2. peerGone' = peerGone /\ peerGone \in BOOLEAN
    BY <1>1, <1>4 DEF PeerReads, LinkTypeOK
  <2> QED
    BY <1>1, <1>4, <2>1, <2>2, OutsideType DEF PeerReads, TypeOK
<1>5. ASSUME PeerLeaves PROVE TypeOK'
  BY <1>1, <1>5, OutsideType DEF PeerLeaves, TypeOK, endVars, linkVars
<1>6. ASSUME PeerResets PROVE TypeOK'
  BY <1>1, <1>6, ResetType DEF PeerResets, TypeOK
<1>7. ASSUME UNCHANGED vars PROVE TypeOK'
  BY <1>1, <1>7
  DEF vars, TypeOK, EndTypeOK, LinkTypeOK, ReadTypeOK, HandTypeOK,
    WriteTypeOK, endVars, linkVars, readVars, userVars, writeVars
<1> QED
  BY <1>2, <1>3, <1>4, <1>5, <1>6, <1>7 DEF Next

\* At all times every task is in a place that fits what it holds, what the
\* channel and the wires carry is of the right kind, and the mutex is with
\* the read task exactly while it writes a reply (read.rs:159-166, 292-298).
THEOREM TypeCorrect == Spec => []TypeOK
BY InitType, StepType, PTL DEF Spec

(***************************************************************************)
(* The four ways in which a step can touch what the user sees: a frame is  *)
(* read, an await of the read task completes, the user reads, or none of   *)
(* these.                                                                  *)
(***************************************************************************)
Await ==
    \/ Disconnected \/ Deliver \/ DeliverRefused
    \/ LockForReply \/ WriteReply \/ ReplyFails \/ ReportFailure

LEMMA StepCases ==
  ASSUME TypeOK, [Next]_vars
  PROVE  \/ ReadFrame /\ got' = got /\ taken' = Append(taken, Head(inbox))
         \/ Await /\ UNCHANGED <<got, taken>>
         \/ (NextItem \/ NextNone \/ DropReader) /\ UNCHANGED taken
         \/ UNCHANGED <<pc, hand, frag, window, chan, rx, got, taken>>
<1>1. ASSUME EndStep, Reading, ReadFrame
      PROVE  got' = got /\ taken' = Append(taken, Head(inbox))
  <2>1. inbox # <<>> /\ inbox' = Tail(inbox) /\ inbox \in Seq(RawFrame)
    BY <1>1, ReadFrameOutcome DEF TypeOK, EndTypeOK, LinkTypeOK
  <2>2. Len(inbox') # Len(inbox)
    BY <2>1, HeadTailProperties, LenProperties
  <2> QED
    BY <1>1, <2>2 DEF EndStep, Reading, userVars
<1>2. ASSUME EndStep, Reading, Await PROVE UNCHANGED <<got, taken>>
  <2>1. inbox' = inbox
    BY <1>2
    DEF Await, Disconnected, EndOfInput, Deliver, DeliverRefused,
      LockForReply, WriteReply, ReplyFails, ReportFailure
  <2> QED
    BY <1>2, <2>1 DEF EndStep, Reading, userVars
<1>3. ASSUME EndStep, Writing
      PROVE  UNCHANGED <<pc, hand, frag, window, chan, rx, got, taken>>
  <2>1. UNCHANGED <<inbox, chan, rx>>
    BY <1>3
    DEF Writing, Call, SendMessage, SendLarge, SendPing, CloseConnection,
      Calls, WriteTask, LockForFrame, WriteFrame, FrameFails, CloseReturns,
      DropWriter
  <2> QED
    BY <1>3, <2>1 DEF EndStep, Writing, readVars
<1>4. ASSUME EndStep, NextItem \/ NextNone \/ DropReader
      PROVE  UNCHANGED taken
  BY <1>4 DEF EndStep, NextItem, NextNone, DropReader
<1>5. ASSUME \/ PeerWrites \/ PeerReads \/ PeerLeaves \/ PeerResets
             \/ UNCHANGED vars
      PROVE  UNCHANGED <<pc, hand, frag, window, chan, rx, got, taken>>
  BY <1>5
  DEF PeerWrites, PeerReads, PeerLeaves, PeerResets, vars, endVars, linkVars,
    readVars, userVars
<1> QED
  BY <1>1, <1>2, <1>3, <1>4, <1>5
  DEF Next, EndStep, EndNext, Reading, ReadTask, Await

(***************************************************************************)
(* The buffer of fragments.                                                *)
(***************************************************************************)
LEMMA FragmentInit == Init => FragmentBound
BY DEF Init, EndInit, ReadInit, FragmentBound

LEMMA FragmentStep ==
  TypeOK /\ FragmentBound /\ [Next]_vars => FragmentBound'
<1> SUFFICES ASSUME TypeOK, FragmentBound, [Next]_vars
             PROVE  FragmentBound'
  OBVIOUS
<1>1. /\ Largest \in Nat
      /\ MaxFrameSize <= Largest /\ MaxMessageSize <= Largest
      /\ MaxFrameSize \in Nat /\ MaxMessageSize \in Nat
  BY ConfigAssumption DEF Largest
<1>2. ASSUME ReadFrame PROVE FragmentBound'
  <2> DEFINE f == Head(inbox)
  <2>1. f \in RawFrame /\ Len(f.payload) \in Nat
    <3>1. f \in RawFrame
      BY <1>2, HeadTailProperties
      DEF ReadFrame, TypeOK, EndTypeOK, LinkTypeOK
    <3> QED
      BY <3>1, LenProperties DEF RawFrame, Payload
  <2>2. pc = "read"
    BY <1>2 DEF ReadFrame
  <2> HIDE DEF f
  <2>3. ASSUME NEW r \in Body(f), StartMessage(f, r) PROVE FragmentBound'
    <3>1. r.bytes = f.payload
      BY <2>3 DEF StartMessage, Starts, Body, Verbatim
    <3>2. ~(Len(f.payload) > MaxFrameSize)
      BY <2>3, NoneAssumption
      DEF StartMessage, Starts, Receive, HeaderError, Error
    <3>3. frag'.payload = f.payload
      BY <2>3, <3>1 DEF StartMessage
    <3> QED
      BY <1>1, <2>1, <3>2, <3>3 DEF FragmentBound
  <2>4. ASSUME NEW r \in Body(f), ContinueMessage(f, r) PROVE FragmentBound'
    <3>1. frag \in Fragmented
      BY <2>4 DEF ContinueMessage, TypeOK, EndTypeOK, ReadTypeOK
    <3>2. frag'.payload = Grown(r.bytes)
      BY <2>4, <3>1 DEF ContinueMessage, Fragmented
    <3>3. r.bytes \in Payload
      BY <2>1, <2>4, BodyType
      DEF ContinueMessage, Receive, TypeOK, EndTypeOK, ReadTypeOK
    <3>4. Len(Grown(r.bytes)) \in Nat
      BY <3>1, <3>3, ConcatProperties, LenProperties
      DEF Grown, Fragmented, Payload
    <3>5. pc' = "fail" \/ ~TooLong(Grown(r.bytes))
      BY <2>4 DEF ContinueMessage, Fail
    <3> QED
      BY <1>1, <3>2, <3>4, <3>5 DEF FragmentBound, TooLong
  <2>5. ASSUME NEW r \in Body(f), FinishMessage(f, r) PROVE frag' = None
    BY <2>5 DEF FinishMessage
  <2>6. ASSUME NEW r \in Body(f),
               \/ WholeMessage(f, r) \/ RefuseFrame(f, r)
               \/ AnswerClose(f, r) \/ AnswerPing(f, r) \/ IgnorePong(f, r)
        PROVE  frag' = frag
    BY <2>6 DEF WholeMessage, RefuseFrame, AnswerClose, AnswerPing, IgnorePong
  <2>7. ASSUME RejectHeader(f) \/ PayloadMissing(f) \/ PayloadUnreadable(f)
        PROVE  frag' = frag
    BY <2>7 DEF RejectHeader, PayloadMissing, PayloadUnreadable
  <2>8. frag' = frag \/ frag' = None => FragmentBound'
    BY <2>2 DEF FragmentBound
  <2> QED
    BY <1>2, <2>3, <2>4, <2>5, <2>6, <2>7, <2>8 DEF ReadFrame, f
<1>3. ASSUME Await PROVE FragmentBound'
  BY <1>3
  DEF Await, Disconnected, EndOfInput, Deliver, DeliverRefused, LockForReply,
    WriteReply, ReplyFails, ReportFailure, Fail, FragmentBound, Largest
<1>4. ASSUME NextItem \/ NextNone \/ DropReader PROVE FragmentBound'
  BY <1>4 DEF NextItem, NextNone, DropReader, readVars, FragmentBound, Largest
<1>5. ASSUME UNCHANGED <<pc, frag>> PROVE FragmentBound'
  BY <1>5 DEF FragmentBound, Largest
<1> QED
  BY <1>2, <1>3, <1>4, <1>5, StepCases

\* However a peer cuts its messages, a read task that goes on buffers no more
\* than one frame or one message (read.rs:64-90).
THEOREM FragmentsBounded == Spec => []FragmentBound
BY InitType, StepType, FragmentInit, FragmentStep, PTL DEF Spec

(***************************************************************************)
(* What an await of the read task does to the channel.                     *)
(***************************************************************************)
LEMMA AwaitCases ==
  ASSUME TypeOK, Await
  PROVE  /\ pc # "done"
         /\ \/ /\ \/ pc' = "fail"
                  \/ pc = "lock" /\ pc' = "write" /\ hand' = hand
               /\ UNCHANGED <<chan, rx>>
            \/ /\ pc = "write" /\ pc' = AfterReply(hand)
               /\ UNCHANGED <<chan, rx>>
            \/ /\ pc = "deliver" /\ pc' = "read" /\ hand \in Message
               /\ chan' = Append(chan, hand) /\ UNCHANGED rx
            \/ /\ pc = "fail" /\ pc' = "done" /\ hand \in Failure
               /\ UNCHANGED rx
               /\ \/ chan' = Append(chan, hand)
                  \/ rx = "dropped" /\ chan' = chan
BY DEF Await, Disconnected, EndOfInput, Deliver, DeliverRefused, LockForReply,
  WriteReply, ReplyFails, ReportFailure, Fail, Queue, TypeOK, EndTypeOK,
  ReadTypeOK, HandTypeOK

LEMMA ItemKinds ==
  /\ \A m \in Message : ~IsErr(m)
  /\ \A e \in Failure : IsErr(e)
BY DEF Message, Data, Failure, IsErr

(***************************************************************************)
(* Errors.  While the read task runs there is none on the way to the user. *)
(* When it has ended there may be one: the last item of the channel, or,   *)
(* once the channel is empty, the last that the user has received.         *)
(***************************************************************************)
ErrorFree(items) == \A i \in 1..Len(items) : ~IsErr(items[i])
ErrorOnlyLast(items) ==
    \A i \in 1..Len(items) : IsErr(items[i]) => i = Len(items)

ErrorInv ==
    /\ ErrorOnlyLast(got) /\ ErrorOnlyLast(chan)
    /\ chan # <<>> \/ pc # "done" => ErrorFree(got)
    /\ pc # "done" => ErrorFree(chan)

LEMMA ErrorFreeLemma ==
  ASSUME NEW items \in Seq(Item), ErrorFree(items), NEW item \in Item
  PROVE  /\ ErrorOnlyLast(items)
         /\ ErrorOnlyLast(Append(items, item))
         /\ ~IsErr(item) => ErrorFree(Append(items, item))
<1>1. Len(items) \in Nat
  BY LenProperties
<1> QED
  BY <1>1, AppendProperties DEF ErrorFree, ErrorOnlyLast

LEMMA ErrorTailLemma ==
  ASSUME NEW items \in Seq(Item), ErrorOnlyLast(items), items # <<>>
  PROVE  /\ ErrorOnlyLast(Tail(items))
         /\ ErrorFree(items) => ErrorFree(Tail(items)) /\ ~IsErr(Head(items))
         /\ Tail(items) # <<>> => ~IsErr(Head(items))
<1> DEFINE tail == Tail(items)
<1>1. Len(items) \in Nat \ {0} /\ Head(items) = items[1]
  BY EmptySeq
<1>2. /\ tail \in Seq(Item)
      /\ Len(tail) = Len(items) - 1
      /\ \A i \in 1..Len(tail) : tail[i] = items[i + 1]
  BY HeadTailProperties
<1> HIDE DEF tail
<1>3. tail # <<>> => Len(items) # 1
  BY <1>1, <1>2, EmptySeq
<1>4. \A i \in 1..Len(tail) : i + 1 \in 1..Len(items)
  BY <1>1, <1>2
<1>5. ErrorOnlyLast(tail)
  <2> SUFFICES ASSUME NEW i \in 1..Len(tail), IsErr(tail[i])
               PROVE  i = Len(tail)
    BY DEF ErrorOnlyLast
  <2>1. i + 1 \in 1..Len(items) /\ IsErr(items[i + 1])
    BY <1>2, <1>4
  <2>2. i + 1 = Len(items)
    BY <2>1 DEF ErrorOnlyLast
  <2> QED
    BY <1>1, <1>2, <2>2
<1>6. ErrorFree(items) => ErrorFree(tail) /\ ~IsErr(Head(items))
  <2>1. 1 \in 1..Len(items)
    BY <1>1
  <2> QED
    BY <1>1, <1>2, <1>4, <2>1 DEF ErrorFree
<1>7. tail # <<>> => ~IsErr(Head(items))
  BY <1>1, <1>3 DEF ErrorOnlyLast
<1> QED
  BY <1>5, <1>6, <1>7 DEF tail

LEMMA ErrorInit == Init => ErrorInv
BY EmptySeq DEF Init, EndInit, LinkInit, ErrorInv, ErrorFree, ErrorOnlyLast

LEMMA ErrorStep == TypeOK /\ ErrorInv /\ [Next]_vars => ErrorInv'
<1> SUFFICES ASSUME TypeOK, ErrorInv, [Next]_vars PROVE ErrorInv'
  OBVIOUS
<1>1. chan \in Seq(Item) /\ got \in Seq(Item)
  BY DEF TypeOK, EndTypeOK, LinkTypeOK
<1>2. ASSUME ReadFrame, got' = got PROVE ErrorInv'
  BY <1>2, ReadFrameOutcome DEF ErrorInv, ErrorFree, ErrorOnlyLast
<1>3. ASSUME Await, got' = got PROVE ErrorInv'
  <2>1. pc # "done" /\ ErrorFree(got) /\ ErrorFree(chan)
    BY <1>3, AwaitCases DEF ErrorInv
  <2>2. CASE chan' = chan
    BY <1>3, <2>1, <2>2 DEF ErrorInv, ErrorFree, ErrorOnlyLast
  <2>3. CASE /\ pc' = "read" /\ hand \in Message
             /\ chan' = Append(chan, hand)
    <3>1. ErrorFree(chan') /\ ErrorOnlyLast(chan')
      BY <1>1, <2>1, <2>3, ItemKinds, ErrorFreeLemma DEF Item
    <3> QED
      BY <1>3, <2>1, <3>1 DEF ErrorInv, ErrorFree, ErrorOnlyLast
  <2>4. CASE /\ pc' = "done" /\ hand \in Failure
             /\ chan' = Append(chan, hand)
    <3>1. ErrorOnlyLast(chan')
      BY <1>1, <2>1, <2>4, ErrorFreeLemma DEF Item
    <3> QED
      BY <1>3, <2>1, <2>4, <3>1 DEF ErrorInv, ErrorFree, ErrorOnlyLast
  <2> QED
    BY <1>3, <2>2, <2>3, <2>4, AwaitCases
<1>4. ASSUME NextItem PROVE ErrorInv'
  <2>1. /\ chan # <<>> /\ chan' = Tail(chan)
        /\ got' = Append(got, Head(chan))
        /\ pc' = pc
    BY <1>4 DEF NextItem, readVars
  <2>2. ErrorFree(got) /\ ErrorOnlyLast(chan)
    BY <2>1 DEF ErrorInv
  <2>3. Head(chan) \in Item
    BY <1>1, <2>1, HeadTailProperties
  <2>4. ErrorOnlyLast(got') /\ (~IsErr(Head(chan)) => ErrorFree(got'))
    BY <1>1, <2>1, <2>2, <2>3, ErrorFreeLemma
  <2>5. /\ ErrorOnlyLast(chan')
        /\ chan' # <<>> => ~IsErr(Head(chan))
        /\ ErrorFree(chan) => ErrorFree(chan') /\ ~IsErr(Head(chan))
    BY <1>1, <2>1, <2>2, ErrorTailLemma
  <2> QED
    BY <2>1, <2>4, <2>5 DEF ErrorInv, ErrorFree, ErrorOnlyLast
<1>5. ASSUME NextNone \/ UNCHANGED <<pc, chan, got>> PROVE ErrorInv'
  BY <1>5 DEF NextNone, readVars, ErrorInv, ErrorFree, ErrorOnlyLast
<1>6. ASSUME DropReader PROVE ErrorInv'
  BY <1>6, EmptySeq
  DEF DropReader, readVars, ErrorInv, ErrorFree, ErrorOnlyLast
<1> QED
  BY <1>2, <1>3, <1>4, <1>5, <1>6, StepCases

LEMMA ErrorInvImplies == TypeOK /\ ErrorInv => ErrorIsLast
<1> SUFFICES ASSUME TypeOK, ErrorInv PROVE ErrorIsLast
  OBVIOUS
<1>1. chan \in Seq(Item) /\ got \in Seq(Item)
  BY DEF TypeOK, EndTypeOK, LinkTypeOK
<1>2. /\ InHand \in Seq(Item)
      /\ InHand = <<>> \/ (pc # "done" /\ Len(InHand) = 1)
  <2>1. CASE pc \in {"deliver", "fail"}
    <3>1. hand \in Item
      BY <2>1 DEF TypeOK, EndTypeOK, ReadTypeOK, HandTypeOK, Item
    <3>2. InHand = <<hand>>
      BY <2>1 DEF InHand
    <3> QED
      BY <2>1, <3>1, <3>2
  <2>2. CASE pc \notin {"deliver", "fail"}
    BY <2>2 DEF InHand
  <2> QED
    BY <2>1, <2>2
<1> DEFINE both == got \o chan
<1>3. /\ both \in Seq(Item)
      /\ Len(both) = Len(got) + Len(chan)
      /\ \A i \in 1..Len(both) :
            both[i] = IF i <= Len(got) THEN got[i] ELSE chan[i - Len(got)]
  BY <1>1, ConcatProperties
<1>4. Len(got) \in Nat /\ Len(chan) \in Nat /\ Len(both) \in Nat
  BY <1>1, <1>3, LenProperties
<1> HIDE DEF both
<1>5. /\ Stream = both \o InHand
      /\ Len(Stream) = Len(both) + Len(InHand)
      /\ \A i \in 1..Len(both) : Stream[i] = both[i]
  BY <1>2, <1>3, <1>4, ConcatProperties, LenProperties DEF Stream, both
<1>6. CASE pc # "done"
  <2>1. \A i \in 1..Len(both) : ~IsErr(both[i])
    <3> SUFFICES ASSUME NEW i \in 1..Len(both) PROVE ~IsErr(both[i])
      OBVIOUS
    <3>1. ErrorFree(got) /\ ErrorFree(chan)
      BY <1>6 DEF ErrorInv
    <3>2. CASE i <= Len(got)
      BY <1>3, <1>4, <3>1, <3>2 DEF ErrorFree
    <3>3. CASE i > Len(got)
      <4>1. i - Len(got) \in 1..Len(chan) /\ both[i] = chan[i - Len(got)]
        BY <1>3, <1>4, <3>3
      <4> QED
        BY <3>1, <4>1 DEF ErrorFree
    <3> QED
      BY <1>4, <3>2, <3>3
  <2>2. Len(InHand) \in {0, 1}
    BY <1>2, EmptySeq
  <2> SUFFICES ASSUME NEW i \in 1..Len(Stream), i # Len(Stream)
               PROVE  ~IsErr(Stream[i])
    BY DEF ErrorIsLast
  <2>3. i \in 1..Len(both)
    BY <1>4, <1>5, <2>2
  <2> QED
    BY <1>5, <2>1, <2>3
<1>7. CASE pc = "done"
  <2>1. InHand = <<>> /\ Len(InHand) = 0
    BY <1>2, <1>7, EmptySeq
  <2>2. \A i \in 1..Len(both) : IsErr(both[i]) => i = Len(both)
    <3>1. CASE chan = <<>>
      BY <1>3, <1>4, <3>1, EmptySeq DEF ErrorInv, ErrorOnlyLast
    <3>2. CASE chan # <<>>
      BY <1>3, <1>4, <3>2 DEF ErrorInv, ErrorFree, ErrorOnlyLast
    <3> QED
      BY <3>1, <3>2
  <2>3. Len(Stream) = Len(both)
    BY <1>4, <1>5, <2>1
  <2>4. \A i \in 1..Len(Stream) : Stream[i] = both[i]
    BY <1>5, <2>3
  <2> QED
    BY <2>2, <2>3, <2>4 DEF ErrorIsLast, IsErr
<1> QED
  BY <1>6, <1>7

\* The user of an end never receives anything after an error, whatever the
\* error was and however long the channel is (handshake.rs:130-134).
THEOREM ErrorsAreLast == Spec => []ErrorIsLast
BY InitType, StepType, ErrorInit, ErrorStep, ErrorInvImplies, PTL DEF Spec

(***************************************************************************)
(* Text.                                                                   *)
(***************************************************************************)
AllTextOK(items) == \A i \in 1..Len(items) : TextOK(items[i])

TextInv ==
    /\ AllTextOK(got) /\ AllTextOK(chan)
    /\ pc = "deliver" => TextOK(hand)

LEMMA TextInit == Init => TextInv
BY EmptySeq DEF Init, EndInit, LinkInit, ReadInit, TextInv, AllTextOK

LEMMA AllTextAppend ==
  ASSUME NEW items \in Seq(Item), AllTextOK(items),
         NEW item \in Item, TextOK(item)
  PROVE  AllTextOK(Append(items, item))
<1>1. Len(items) \in Nat
  BY LenProperties
<1> QED
  BY <1>1, AppendProperties DEF AllTextOK

LEMMA AllTextTail ==
  ASSUME NEW items \in Seq(Item), AllTextOK(items), items # <<>>
  PROVE  TextOK(Head(items)) /\ AllTextOK(Tail(items))
<1>1. Len(items) \in Nat \ {0} /\ Head(items) = items[1]
  BY EmptySeq
<1>2. /\ Len(Tail(items)) = Len(items) - 1
      /\ \A i \in 1..Len(Tail(items)) : Tail(items)[i] = items[i + 1]
  BY HeadTailProperties
<1>3. \A i \in 1..Len(Tail(items)) : i + 1 \in 1..Len(items)
  BY <1>1, <1>2
<1> QED
  BY <1>1, <1>2, <1>3 DEF AllTextOK

LEMMA TextStep == TypeOK /\ TextInv /\ [Next]_vars => TextInv'
<1> SUFFICES ASSUME TypeOK, TextInv, [Next]_vars PROVE TextInv'
  OBVIOUS
<1>1. chan \in Seq(Item) /\ got \in Seq(Item)
  BY DEF TypeOK, EndTypeOK, LinkTypeOK
<1>2. ASSUME ReadFrame, got' = got PROVE TextInv'
  BY <1>2, ReadFrameOutcome DEF TextInv, AllTextOK, TextOK
<1>3. ASSUME Await, got' = got PROVE TextInv'
  <2>1. pc' # "deliver"
    BY AwaitCases, <1>3 DEF AfterReply
  <2>2. CASE chan' = chan
    BY <1>3, <2>1, <2>2 DEF TextInv, AllTextOK, TextOK
  <2>3. CASE pc \in {"deliver", "fail"} /\ chan' = Append(chan, hand)
    <3>1. hand \in Item /\ TextOK(hand)
      BY <2>3
      DEF TextInv, TextOK, TypeOK, EndTypeOK, ReadTypeOK, HandTypeOK, Item,
        Failure
    <3>2. AllTextOK(chan')
      BY <1>1, <2>3, <3>1, AllTextAppend DEF TextInv
    <3> QED
      BY <1>3, <2>1, <3>2 DEF TextInv, AllTextOK, TextOK
  <2> QED
    BY <1>3, <2>2, <2>3, AwaitCases
<1>4. ASSUME NextItem PROVE TextInv'
  <2>1. /\ chan # <<>> /\ chan' = Tail(chan)
        /\ got' = Append(got, Head(chan))
        /\ pc' = pc /\ hand' = hand
    BY <1>4 DEF NextItem, readVars
  <2>2. TextOK(Head(chan)) /\ AllTextOK(chan') /\ Head(chan) \in Item
    BY <1>1, <2>1, AllTextTail, HeadTailProperties DEF TextInv
  <2>3. AllTextOK(got')
    BY <1>1, <2>1, <2>2, AllTextAppend DEF TextInv
  <2> QED
    BY <2>1, <2>2, <2>3 DEF TextInv, TextOK
<1>5. ASSUME NextNone \/ UNCHANGED <<pc, hand, chan, got>> PROVE TextInv'
  BY <1>5 DEF NextNone, readVars, TextInv, AllTextOK, TextOK
<1>6. ASSUME DropReader PROVE TextInv'
  BY <1>6, EmptySeq DEF DropReader, readVars, TextInv, AllTextOK, TextOK
<1> QED
  BY <1>2, <1>3, <1>4, <1>5, <1>6, StepCases

\* Text that reaches the user is valid UTF-8, however it was cut into frames
\* and whatever a decoder made of it (read.rs:300-305).
THEOREM TextsAreUtf8 == Spec => []TextIsUtf8
<1>1. TextInv => TextIsUtf8
  BY DEF TextInv, AllTextOK, TextOK, TextIsUtf8
<1> QED
  BY <1>1, InitType, StepType, TextInit, TextStep, PTL DEF Spec

(***************************************************************************)
(* The end of the stream.  A Close, once read, leaves the task nothing to  *)
(* do but to answer it; and the task ends for a Close or for an error      *)
(* that is still on its way or has arrived.                                *)
(***************************************************************************)
LastIsClose == taken # <<>> /\ taken[Len(taken)].op = "Close"
LastIsErr(items) == items # <<>> /\ IsErr(items[Len(items)])
Closing == pc \in {"lock", "write"} /\ hand.op = "Close"

CloseInv ==
    /\ HasReadClose => Closing \/ pc \in {"fail", "done"}
    /\ Closing => LastIsClose
    /\ pc = "done" /\ rx # "dropped" =>
          \/ LastIsClose
          \/ LastIsErr(chan)
          \/ chan = <<>> /\ LastIsErr(got)
    /\ rx = "ended" => pc = "done" /\ chan = <<>>

LEMMA CloseInit == Init => CloseInv
BY EmptySeq
DEF Init, EndInit, LinkInit, ReadInit, CloseInv, Closing, HasReadClose

LEMMA CloseStep == TypeOK /\ CloseInv /\ [Next]_vars => CloseInv'
<1> SUFFICES ASSUME TypeOK, CloseInv, [Next]_vars PROVE CloseInv'
  OBVIOUS
<1>1. /\ chan \in Seq(Item) /\ got \in Seq(Item)
      /\ taken \in Seq(RawFrame) /\ Len(taken) \in Nat
      /\ inbox \in Seq(RawFrame)
  BY LenProperties DEF TypeOK, EndTypeOK, LinkTypeOK
<1>2. ASSUME ReadFrame, got' = got, taken' = Append(taken, Head(inbox))
      PROVE  CloseInv'
  <2>1. /\ pc = "read" /\ inbox # <<>>
        /\ UNCHANGED <<chan, rx>>
    BY <1>2, ReadFrameOutcome
  <2>2. /\ Len(taken') = Len(taken) + 1
        /\ taken' # <<>>
        /\ \A i \in 1..Len(taken) : taken'[i] = taken[i]
        /\ taken'[Len(taken')] = Head(inbox)
    BY <1>1, <1>2, <2>1, HeadTailProperties, AppendProperties
  <2>3. ~HasReadClose
    BY <2>1 DEF CloseInv, Closing
  <2>4. LastIsClose' <=> Head(inbox).op = "Close"
    BY <2>2 DEF LastIsClose
  <2>5. HasReadClose' => Head(inbox).op = "Close"
    BY <1>1, <2>2, <2>3 DEF HasReadClose
  <2>6. Closing' => LastIsClose'
    BY <1>2, <2>4, ReadFrameOutcome DEF Closing
  <2>7. HasReadClose' => Closing' \/ pc' = "fail"
    BY <1>2, <2>5, ReadFrameOutcome DEF Closing
  <2>8. pc' # "done" /\ rx' # "ended"
    BY <1>2, <2>1, ReadFrameOutcome DEF CloseInv
  <2> QED
    BY <2>6, <2>7, <2>8 DEF CloseInv
<1>3. ASSUME Await, UNCHANGED <<got, taken>> PROVE CloseInv'
  <2>1. pc # "done" /\ rx # "ended" /\ rx' = rx
    BY <1>3, AwaitCases DEF CloseInv
  <2>2. UNCHANGED <<LastIsClose, HasReadClose>>
    BY <1>3 DEF LastIsClose, HasReadClose
  <2>3. CASE pc' = "fail"
    BY <2>1, <2>2, <2>3 DEF CloseInv, Closing
  <2>4. CASE pc = "lock" /\ pc' = "write" /\ hand' = hand
    BY <2>1, <2>2, <2>4 DEF CloseInv, Closing
  <2>5. CASE pc = "write" /\ pc' = AfterReply(hand)
    BY <2>1, <2>2, <2>5 DEF CloseInv, Closing, AfterReply
  <2>6. CASE pc = "deliver" /\ pc' = "read"
    BY <2>1, <2>2, <2>6 DEF CloseInv, Closing
  <2>7. CASE /\ pc = "fail" /\ pc' = "done" /\ hand \in Failure
             /\ chan' = Append(chan, hand) \/ rx = "dropped"
    <3>1. ASSUME chan' = Append(chan, hand) PROVE LastIsErr(chan')
      <4>1. hand \in Item /\ IsErr(hand)
        BY <2>7, ItemKinds DEF Item
      <4>2. chan' # <<>> /\ chan'[Len(chan')] = hand
        BY <1>1, <3>1, <4>1, AppendProperties
      <4> QED
        BY <4>1, <4>2 DEF LastIsErr
    <3> QED
      BY <2>1, <2>2, <2>7, <3>1 DEF CloseInv, Closing
  <2> QED
    BY <1>3, <2>3, <2>4, <2>5, <2>6, <2>7, AwaitCases
<1>4. ASSUME NextItem, UNCHANGED taken PROVE CloseInv'
  <2>1. /\ chan # <<>> /\ chan' = Tail(chan)
        /\ got' = Append(got, Head(chan))
        /\ UNCHANGED <<pc, hand, rx>>
    BY <1>4 DEF NextItem, readVars
  <2>2. UNCHANGED <<LastIsClose, HasReadClose, Closing>>
    BY <1>4, <2>1 DEF LastIsClose, HasReadClose, Closing
  <2>3. rx # "ended"
    BY <2>1 DEF CloseInv
  <2>4. LastIsErr(chan) =>
          LastIsErr(chan') \/ (chan' = <<>> /\ LastIsErr(got'))
    <3>1. /\ Len(chan) \in Nat \ {0} /\ Head(chan) = chan[1]
          /\ Head(chan) \in Item
          /\ chan' \in Seq(Item)
          /\ Len(chan') = Len(chan) - 1
          /\ \A i \in 1..Len(chan') : chan'[i] = chan[i + 1]
      BY <1>1, <2>1, HeadTailProperties, EmptySeq
    <3>2. CASE Len(chan) = 1
      <4>1. chan' = <<>>
        BY <3>1, <3>2, EmptySeq
      <4>2. got' # <<>> /\ got'[Len(got')] = chan[1]
        BY <1>1, <2>1, <3>1, AppendProperties
      <4> QED
        BY <3>2, <4>1, <4>2 DEF LastIsErr
    <3>3. CASE Len(chan) # 1
      <4>1. chan' # <<>> /\ chan'[Len(chan')] = chan[Len(chan)]
        BY <3>1, <3>3, EmptySeq
      <4> QED
        BY <4>1 DEF LastIsErr
    <3> QED
      BY <3>2, <3>3
  <2> QED
    BY <2>1, <2>2, <2>3, <2>4 DEF CloseInv
<1>5. ASSUME NextNone, UNCHANGED taken PROVE CloseInv'
  BY <1>5
  DEF NextNone, MayRead, readVars, CloseInv, Closing, LastIsClose,
    HasReadClose, LastIsErr
<1>6. ASSUME DropReader, UNCHANGED taken PROVE CloseInv'
  BY <1>6
  DEF DropReader, readVars, CloseInv, Closing, LastIsClose, HasReadClose
<1>7. ASSUME UNCHANGED <<pc, hand, chan, rx, got, taken>> PROVE CloseInv'
  BY <1>7 DEF CloseInv, Closing, LastIsClose, HasReadClose, LastIsErr
<1> QED
  BY <1>2, <1>3, <1>4, <1>5, <1>6, <1>7, StepCases

\* A user whose stream has ended knows why: the peer's Close was the last
\* frame, or the last item is the error (read.rs:133-143,
\* handshake.rs:131-133).
THEOREM EndsAreExplained == Spec => []EndIsExplained
<1>1. CloseInv => EndIsExplained
  BY EmptySeq DEF CloseInv, LastIsErr, LastIsClose, EndIsExplained
<1> QED
  BY <1>1, InitType, StepType, CloseInit, CloseStep, PTL DEF Spec

\* Whatever a peer writes after its Close, it is not read (read.rs:140-142).
THEOREM CloseEndsReading == Spec => NothingReadAfterClose
<1>1. TypeOK /\ CloseInv /\ [Next]_vars
        => [HasReadClose => UNCHANGED taken]_taken
  <2> SUFFICES ASSUME TypeOK, CloseInv, [Next]_vars, HasReadClose
               PROVE  UNCHANGED taken
    OBVIOUS
  <2>1. ~ReadFrame
    BY DEF CloseInv, Closing, ReadFrame
  <2> QED
    BY <2>1, StepCases
<1> QED
  BY <1>1, InitType, StepType, CloseInit, CloseStep, PTL
  DEF Spec, NothingReadAfterClose

(***************************************************************************)
(* What one end accepts, answers and writes, frame by frame: the           *)
(* properties that relate the histories of both wires to what the read     *)
(* task and the user are doing.                                            *)
(***************************************************************************)


(***************************************************************************)
(* One more frame.                                                         *)
(***************************************************************************)
LEMMA Appended ==
  ASSUME NEW fs \in Seq(RawFrame), NEW f \in RawFrame
  PROVE  /\ Append(fs, f) \in Seq(RawFrame)
         /\ Len(fs) \in Nat
         /\ Len(Append(fs, f)) = Len(fs) + 1
         /\ Append(fs, f)[Len(fs) + 1] = f
         /\ \A i \in 1..Len(fs) : Append(fs, f)[i] = fs[i]
BY AppendProperties, LenProperties

\* What is unfinished among the first n frames does not depend on later ones.
LEMMA UnfinishedBefore ==
  ASSUME NEW fs \in Seq(RawFrame), NEW f \in RawFrame,
         NEW n \in 0..Len(fs)
  PROVE  Unfinished(Append(fs, f), n) <=> Unfinished(fs, n)
<1> DEFINE gs == Append(fs, f)
<1>1. Len(fs) \in Nat /\ \A i \in 1..Len(fs) : gs[i] = fs[i]
  BY Appended
<1> HIDE DEF gs
<1>2. \A i \in 1..n : gs[i] = fs[i]
  BY <1>1
<1>3. \A j \in 1..n : \A k \in (j + 1)..n : k \in 1..n
  BY <1>1
<1>4. Unfinished(gs, n) <=> Unfinished(fs, n)
  BY <1>2, <1>3 DEF Unfinished
<1> QED
  BY <1>4 DEF gs

\* A data frame decides whether something is unfinished, a control frame
\* leaves it as it was.
LEMMA UnfinishedAfter ==
  ASSUME NEW fs \in Seq(RawFrame), NEW f \in RawFrame
  PROVE  /\ f.op \in Control =>
              (Unfinished(Append(fs, f), Len(fs) + 1)
                 <=> Unfinished(fs, Len(fs)))
         /\ f.op \notin Control =>
              (Unfinished(Append(fs, f), Len(fs) + 1) <=> ~f.fin)
<1> DEFINE gs == Append(fs, f)
<1> DEFINE n == Len(fs)
<1>1. n \in Nat /\ gs[n + 1] = f /\ \A i \in 1..n : gs[i] = fs[i]
  BY Appended
<1> HIDE DEF gs, n
<1>2. 1..(n + 1) = (1..n) \cup {n + 1}
  BY <1>1
<1>3. (n + 2)..(n + 1) = {}
  BY <1>1
<1>4. \A j \in 1..n : (j + 1)..(n + 1) = ((j + 1)..n) \cup {n + 1}
  BY <1>1
<1>5. \A j \in 1..n : \A k \in (j + 1)..n : k \in 1..n
  BY <1>1
<1>6. n + 1 + 1 = n + 2
  BY <1>1
<1>7. ASSUME f.op \in Control
      PROVE  Unfinished(gs, n + 1) <=> Unfinished(fs, n)
  <2>1. ASSUME Unfinished(gs, n + 1) PROVE Unfinished(fs, n)
    <3>1. PICK j \in 1..(n + 1) :
            /\ gs[j].op \notin Control /\ ~gs[j].fin
            /\ \A k \in (j + 1)..(n + 1) : gs[k].op \in Control
      BY <2>1 DEF Unfinished
    <3>2. j \in 1..n
      BY <1>1, <1>2, <1>7, <3>1
    <3>3. \A k \in (j + 1)..n : fs[k].op \in Control
      BY <1>1, <1>4, <1>5, <3>1, <3>2
    <3> QED
      BY <1>1, <3>1, <3>2, <3>3 DEF Unfinished
  <2>2. ASSUME Unfinished(fs, n) PROVE Unfinished(gs, n + 1)
    <3>1. PICK j \in 1..n :
            /\ fs[j].op \notin Control /\ ~fs[j].fin
            /\ \A k \in (j + 1)..n : fs[k].op \in Control
      BY <2>2 DEF Unfinished
    <3>2. \A k \in (j + 1)..(n + 1) : gs[k].op \in Control
      BY <1>1, <1>4, <1>5, <1>7, <3>1
    <3>3. j \in 1..(n + 1) /\ gs[j] = fs[j]
      BY <1>1, <1>2
    <3> QED
      BY <3>1, <3>2, <3>3 DEF Unfinished
  <2> QED
    BY <2>1, <2>2
<1>8. ASSUME f.op \notin Control
      PROVE  Unfinished(gs, n + 1) <=> ~f.fin
  <2>1. ASSUME NEW j \in 1..n PROVE n + 1 \in (j + 1)..(n + 1)
    BY <1>1
  <2>2. n + 1 \in 1..(n + 1)
    BY <1>1
  <2> QED
    BY <1>1, <1>2, <1>3, <1>6, <1>8, <2>1, <2>2 DEF Unfinished
<1> QED
  BY <1>7, <1>8 DEF gs, n

\* Does f continue what is unfinished in fs, or begin where nothing is?
Fits(fs, f) ==
    f.op \notin Control => (f.op = "Continue" <=> Unfinished(fs, Len(fs)))

LEMMA WellFragmentedAppend ==
  ASSUME NEW fs \in Seq(RawFrame), NEW f \in RawFrame
  PROVE  WellFragmented(Append(fs, f)) <=> WellFragmented(fs) /\ Fits(fs, f)
<1> DEFINE gs == Append(fs, f)
<1> DEFINE n == Len(fs)
<1>1. /\ n \in Nat /\ Len(gs) = n + 1
      /\ gs[n + 1] = f /\ \A i \in 1..n : gs[i] = fs[i]
  BY Appended
<1>2. \A i \in 0..n : Unfinished(gs, i) <=> Unfinished(fs, i)
  BY UnfinishedBefore
<1> HIDE DEF gs, n
<1>3. 1..(n + 1) = (1..n) \cup {n + 1} /\ n + 1 - 1 = n
  BY <1>1
<1>4. \A i \in 1..n : i - 1 \in 0..n
  BY <1>1
<1>5. n \in 0..n
  BY <1>1
<1>6. WellFragmented(gs) <=>
        /\ \A i \in 1..n :
              gs[i].op \notin Control =>
                  (gs[i].op = "Continue" <=> Unfinished(gs, i - 1))
        /\ gs[n + 1].op \notin Control =>
              (gs[n + 1].op = "Continue" <=> Unfinished(gs, n + 1 - 1))
  BY <1>1, <1>3 DEF WellFragmented
<1>7. WellFragmented(fs) <=>
        \A i \in 1..n :
              gs[i].op \notin Control =>
                  (gs[i].op = "Continue" <=> Unfinished(gs, i - 1))
  BY <1>1, <1>2, <1>4 DEF WellFragmented, n
<1>8. Fits(fs, f) <=>
        (gs[n + 1].op \notin Control =>
              (gs[n + 1].op = "Continue" <=> Unfinished(gs, n + 1 - 1)))
  BY <1>1, <1>2, <1>3, <1>5 DEF Fits, n
<1>9. WellFragmented(gs) <=> WellFragmented(fs) /\ Fits(fs, f)
  BY <1>6, <1>7, <1>8
<1> QED
  BY <1>9 DEF gs

LEMMA AllowedAppend ==
  ASSUME NEW fs \in Seq(RawFrame), NEW f \in RawFrame
  PROVE  Allowed(Append(fs, f))
           <=> Allowed(fs) /\ Fits(fs, f) /\ HeaderAllowed(f)
<1> DEFINE gs == Append(fs, f)
<1> DEFINE n == Len(fs)
<1>1. /\ n \in Nat /\ Len(gs) = n + 1
      /\ gs[n + 1] = f /\ \A i \in 1..n : gs[i] = fs[i]
  BY Appended
<1>2. WellFragmented(gs) <=> WellFragmented(fs) /\ Fits(fs, f)
  BY WellFragmentedAppend
<1> HIDE DEF gs, n
<1>3. 1..(n + 1) = (1..n) \cup {n + 1}
  BY <1>1
<1>4. (\A i \in 1..Len(gs) : HeaderAllowed(gs[i]))
        <=> (\A i \in 1..n : HeaderAllowed(fs[i])) /\ HeaderAllowed(f)
  BY <1>1, <1>3
<1>5. Allowed(gs) <=> Allowed(fs) /\ Fits(fs, f) /\ HeaderAllowed(f)
  BY <1>2, <1>4 DEF Allowed, n
<1> QED
  BY <1>5 DEF gs

(***************************************************************************)
(* Counting frames.                                                        *)
(***************************************************************************)
LEMMA CountType ==
  ASSUME NEW fs, NEW op, NEW n \in Nat
  PROVE  /\ IsFiniteSet({i \in 1..n : fs[i].op = op})
         /\ CountOf(fs, op, n) \in Nat
<1>1. IsFiniteSet(1..n)
  BY FS_Interval
<1>2. {i \in 1..n : fs[i].op = op} \in SUBSET (1..n)
  OBVIOUS
<1> QED
  BY <1>1, <1>2, FS_Subset, FS_CardinalityType DEF CountOf

LEMMA CountGrows ==
  ASSUME NEW fs, NEW op, NEW n \in Nat, NEW m \in 0..n
  PROVE  CountOf(fs, op, m) <= CountOf(fs, op, n)
<1> DEFINE S == {i \in 1..n : fs[i].op = op}
<1> DEFINE T == {i \in 1..m : fs[i].op = op}
<1>1. IsFiniteSet(S)
  BY CountType
<1>2. T \in SUBSET S
  OBVIOUS
<1>3. CountOf(fs, op, m) = Cardinality(T) /\ CountOf(fs, op, n) = Cardinality(S)
  BY DEF CountOf
<1> HIDE DEF S, T
<1> QED
  BY <1>1, <1>2, <1>3, FS_Subset

LEMMA CountAppend ==
  ASSUME NEW fs \in Seq(RawFrame), NEW f \in RawFrame, NEW op
  PROVE  /\ \A m \in 0..Len(fs) :
               CountOf(Append(fs, f), op, m) = CountOf(fs, op, m)
         /\ CountOf(Append(fs, f), op, Len(fs) + 1) =
               CountOf(fs, op, Len(fs)) + IF f.op = op THEN 1 ELSE 0
<1> DEFINE gs == Append(fs, f)
<1> DEFINE n == Len(fs)
<1> DEFINE old == {i \in 1..n : fs[i].op = op}
<1>1. n \in Nat /\ gs[n + 1] = f /\ \A i \in 1..n : gs[i] = fs[i]
  BY Appended
<1> HIDE DEF gs, n
<1>2. ASSUME NEW m \in 0..n PROVE CountOf(gs, op, m) = CountOf(fs, op, m)
  <2>1. \A i \in 1..m : gs[i] = fs[i]
    BY <1>1
  <2>2. {i \in 1..m : gs[i].op = op} = {i \in 1..m : fs[i].op = op}
    BY <2>1
  <2> QED
    BY <2>2 DEF CountOf
<1>3. /\ IsFiniteSet(old) /\ n + 1 \notin old
      /\ CountOf(fs, op, n) = Cardinality(old) /\ Cardinality(old) \in Nat
  <2>1. IsFiniteSet(old) /\ CountOf(fs, op, n) \in Nat
    BY <1>1, CountType
  <2>2. CountOf(fs, op, n) = Cardinality(old)
    BY DEF CountOf
  <2>3. n + 1 \notin old
    BY <1>1
  <2> QED
    BY <2>1, <2>2, <2>3
<1>4. 1..(n + 1) = (1..n) \cup {n + 1}
  BY <1>1
<1>5. f.op = op => {i \in 1..(n + 1) : gs[i].op = op} = old \cup {n + 1}
  BY <1>1, <1>4
<1>6. f.op # op => {i \in 1..(n + 1) : gs[i].op = op} = old
  BY <1>1, <1>4
<1>7. Cardinality(old \cup {n + 1}) = Cardinality(old) + 1
  <2> HIDE DEF old
  <2> QED
    BY <1>3, FS_AddElement
<1>8. CountOf(gs, op, n + 1) = CountOf(fs, op, n) + IF f.op = op THEN 1 ELSE 0
  <2>1. CountOf(gs, op, n + 1)
          = Cardinality({i \in 1..(n + 1) : gs[i].op = op})
    BY DEF CountOf
  <2> DEFINE new == {i \in 1..(n + 1) : gs[i].op = op}
  <2>2. Cardinality(new) = Cardinality(old) + IF f.op = op THEN 1 ELSE 0
    <3>1. CASE f.op = op
      <4>1. new = old \cup {n + 1}
        BY <1>5, <3>1
      <4> HIDE DEF new, old
      <4> QED
        BY <1>7, <3>1, <4>1
    <3>2. CASE f.op # op
      <4>1. new = old
        BY <1>6, <3>2
      <4> HIDE DEF new, old
      <4> QED
        BY <1>3, <3>2, <4>1
    <3> QED
      BY <3>1, <3>2
  <2> HIDE DEF new, old
  <2> QED
    BY <1>3, <2>1, <2>2 DEF new
<1> QED
  BY <1>2, <1>8 DEF gs, n

(***************************************************************************)
(* What the read task makes of a frame.                                    *)
(***************************************************************************)

\* The checks of read_frame refuse exactly the headers that are not allowed
\* (read.rs:178-235).
LEMMA HeaderJudged ==
  ASSUME NEW f \in RawFrame
  PROVE  HeaderError(f) = None <=> HeaderAllowed(f)
<1>1. /\ None \notin {"InvalidOpcode", "RSVNotZero", "ControlFramesFragmented",
                      "ControlFramePayloadSize", "MaxFrameSize"}
  BY NoneAssumption DEF Error
<1>2. f.op = Reserved <=> f.op \notin OpCode
  BY DEF RawFrame, OpCode, Data, Control, Reserved
<1>3. Len(f.payload) \in Nat /\ MaxFrameSize \in Nat
  BY LenProperties, ConfigAssumption DEF RawFrame, Payload
<1>4. Len(f.payload) > MaxFrameSize <=> ~(Len(f.payload) <= MaxFrameSize)
  BY <1>3
<1> QED
  BY <1>1, <1>2, <1>4 DEF HeaderError, HeaderAllowed

\* ... and those of poll_messages the frames that do not fit the message in
\* progress, or the lack of one (read.rs:64-132).
Misplaced(f) == f.op \notin Control /\ ~(f.op = "Continue" <=> frag # None)

LEMMA FramingJudged ==
  ASSUME NEW f \in RawFrame, HeaderAllowed(f)
  PROVE  FramingError(f) # None <=> Misplaced(f)
<1>1. None \notin {"FragmentedInProgress", "InvalidFrameFragmentation",
                   "InvalidContinuationFrame"}
  BY NoneAssumption DEF Error
<1>2. f.op \in OpCode
  BY DEF HeaderAllowed
<1> QED
  BY <1>1, <1>2
  DEF FramingError, Misplaced, Starts, Stands, Continues, OpCode, Data, Control

\* The four things that can come of a frame.
Refused(f) ==
    /\ pc' = "fail"
    /\ \E e \in Error :
          /\ hand' = Err(e)
          /\ e \in ProtocolError => ~HeaderAllowed(f) \/ Misplaced(f)
Understood(f) == HeaderAllowed(f) /\ ~Misplaced(f)
Absorbed(f) ==
    /\ pc' \in {"read", "deliver"}
    /\ Understood(f)
    /\ f.op \notin {"Ping", "Close"}
    /\ f.op \in Control => frag' = frag
    /\ f.op \notin Control => (frag' # None <=> ~f.fin)
ClosesWith(f) ==
    /\ pc' = "lock" /\ hand' = CloseFrame
    /\ Understood(f) /\ f.op = "Close"
    /\ frag' = frag
PongsWith(f) ==
    /\ pc' = "lock"
    /\ \E p \in Payload : hand' = PongFrame(p) /\ (~f.rsv1 => p = f.payload)
    /\ Understood(f) /\ f.op = "Ping"
    /\ frag' = frag

LEMMA FramesAreUnderstood ==
  ASSUME TypeOK, ReadFrame
  PROVE  /\ pc = "read"
         /\ Head(inbox) \in RawFrame
         /\ \/ Refused(Head(inbox)) \/ Absorbed(Head(inbox))
            \/ ClosesWith(Head(inbox)) \/ PongsWith(Head(inbox))
<1> DEFINE f == Head(inbox)
<1> DEFINE Goal == Refused(f) \/ Absorbed(f) \/ ClosesWith(f) \/ PongsWith(f)
<1>1. /\ pc = "read" /\ f \in RawFrame
      /\ frag \in {None} \cup Fragmented /\ window \in Window
  BY HeadTailProperties
  DEF ReadFrame, TypeOK, EndTypeOK, LinkTypeOK, ReadTypeOK
<1> HIDE DEF f
<1>2. /\ {"Timeout", "IOError", "DecompressError", "MaxMessageSize",
          "FromUtf8Error"}
           \cap ProtocolError = {}
      /\ {"Timeout", "IOError", "DecompressError", "MaxMessageSize",
          "FromUtf8Error"}
           \subseteq Error
  BY DEF ProtocolError, Error
<1>3. ASSUME NEW e \in {"Timeout", "IOError", "DecompressError",
                        "MaxMessageSize", "FromUtf8Error"}, Fail(e)
      PROVE  Goal
  BY <1>2, <1>3 DEF Fail, Refused
<1>4. ASSUME RejectHeader(f) PROVE Goal
  <2>1. /\ HeaderError(f) # None /\ Fail(HeaderError(f))
        /\ HeaderError(f) \in Error
    BY <1>4, HeaderErrorType DEF RejectHeader
  <2> QED
    BY <1>1, <2>1, HeaderJudged DEF Fail, Refused
<1>5. ASSUME PayloadMissing(f) \/ PayloadUnreadable(f) PROVE Goal
  BY <1>3, <1>5 DEF PayloadMissing, PayloadUnreadable
<1>6. ASSUME NEW r, Receive(f, r) PROVE HeaderAllowed(f)
  BY <1>1, <1>6, HeaderJudged DEF Receive
<1>7. ASSUME NEW r, RefuseFrame(f, r) PROVE Goal
  <2>1. HeaderAllowed(f) /\ FramingError(f) # None
    BY <1>6, <1>7 DEF RefuseFrame
  <2>2. FramingError(f) \in Error /\ Misplaced(f) /\ Fail(FramingError(f))
    BY <1>1, <1>7, <2>1, FramingErrorType, FramingJudged DEF RefuseFrame
  <2> QED
    BY <2>2 DEF Fail, Refused
<1>8. None \notin Fragmented
  BY NoneAssumption
<1>9. ASSUME NEW r \in Body(f), Receive(f, r)
      PROVE  /\ r.bytes \in Payload
             /\ ~f.rsv1 => r.bytes = f.payload
  BY <1>1, <1>9, BodyType DEF Receive, Body, Verbatim
<1>10. ASSUME NEW kind, NEW bytes, Transmit(kind, bytes)
       PROVE  \/ Fail("FromUtf8Error")
              \/ pc' = "deliver"
  BY <1>10 DEF Transmit
<1>11. ASSUME NEW r \in Body(f), StartMessage(f, r) PROVE Goal
  <2>1. HeaderAllowed(f) /\ r.bytes \in Payload
    BY <1>6, <1>9, <1>11 DEF StartMessage
  <2>2. f.op \in Data /\ ~f.fin /\ frag = None /\ pc' = "read"
    BY <1>1, <1>11 DEF StartMessage, Starts
  <2>3. frag' = [kind |-> f.op, payload |-> r.bytes, compressed |-> f.rsv1]
    BY <1>11 DEF StartMessage
  <2>4. f.rsv1 \in BOOLEAN
    BY <1>1 DEF RawFrame
  <2>5. frag' # None
    BY <1>8, <2>1, <2>2, <2>3, <2>4 DEF Fragmented
  <2> QED
    BY <2>1, <2>2, <2>5 DEF Absorbed, Understood, Misplaced, Data, Control
<1>12. ASSUME NEW r \in Body(f), ContinueMessage(f, r) PROVE Goal
  <2>1. HeaderAllowed(f)
    BY <1>6, <1>12 DEF ContinueMessage
  <2>2. CASE Fail("MaxMessageSize")
    BY <1>3, <2>2
  <2>3. CASE ~Fail("MaxMessageSize")
    <3>1. f.op = "Continue" /\ frag # None /\ ~f.fin /\ pc' = "read"
      BY <1>1, <1>12, <2>3 DEF ContinueMessage, Continues
    <3>2. frag' # None
      <4>1. frag \in Fragmented
        BY <1>1, <3>1
      <4>2. frag' = [frag EXCEPT !.payload = Grown(r.bytes)]
        BY <1>12 DEF ContinueMessage
      <4>3. Grown(r.bytes) \in Payload
        <5>1. frag.payload \in Seq(Unit) /\ r.bytes \in Seq(Unit)
          BY <1>9, <1>12, <4>1 DEF ContinueMessage, Fragmented, Payload
        <5> QED
          BY <5>1, ConcatProperties DEF Grown, Payload
      <4>4. frag' \in Fragmented
        BY <4>1, <4>2, <4>3 DEF Fragmented
      <4> QED
        BY <1>8, <4>4
    <3> QED
      BY <2>1, <3>1, <3>2 DEF Absorbed, Understood, Misplaced, Control
  <2> QED
    BY <2>2, <2>3
<1>13. ASSUME NEW r \in Body(f), FinishMessage(f, r) PROVE Goal
  <2>1. /\ HeaderAllowed(f) /\ f.op = "Continue" /\ frag # None /\ f.fin
        /\ frag' = None
    BY <1>6, <1>13 DEF FinishMessage, Continues
  <2>2. \/ Fail("DecompressError")
        \/ \E bytes : Transmit(frag.kind, bytes)
    BY <1>13 DEF FinishMessage
  <2>3. CASE pc' = "deliver"
    BY <2>1, <2>3 DEF Absorbed, Understood, Misplaced, Control
  <2> QED
    BY <1>3, <1>10, <2>2, <2>3
<1>14. ASSUME NEW r \in Body(f), WholeMessage(f, r) PROVE Goal
  <2>1. /\ HeaderAllowed(f) /\ f.op \in Data /\ frag = None /\ f.fin
        /\ frag' = frag
        /\ Transmit(f.op, r.bytes)
    BY <1>6, <1>14 DEF WholeMessage, Stands
  <2>2. CASE pc' = "deliver"
    BY <2>1, <2>2 DEF Absorbed, Understood, Misplaced, Data, Control
  <2> QED
    BY <1>3, <1>10, <2>1, <2>2
<1>15. ASSUME NEW r \in Body(f), IgnorePong(f, r) PROVE Goal
  <2>1. HeaderAllowed(f) /\ f.op = "Pong" /\ frag' = frag /\ pc' = "read"
    BY <1>1, <1>6, <1>15 DEF IgnorePong
  <2> QED
    BY <2>1 DEF Absorbed, Understood, Misplaced, Control
<1>16. ASSUME NEW r \in Body(f), AnswerClose(f, r) PROVE Goal
  <2>1. HeaderAllowed(f)
    BY <1>6, <1>16 DEF AnswerClose
  <2> QED
    BY <1>16, <2>1
    DEF AnswerClose, Reply, ClosesWith, Understood, Misplaced, Control
<1>17. ASSUME NEW r \in Body(f), AnswerPing(f, r) PROVE Goal
  <2>1. /\ HeaderAllowed(f) /\ r.bytes \in Payload
        /\ ~f.rsv1 => r.bytes = f.payload
    BY <1>6, <1>9, <1>17 DEF AnswerPing
  <2> QED
    BY <1>17, <2>1
    DEF AnswerPing, Reply, PongsWith, Understood, Misplaced, Control
<1> QED
  BY <1>1, <1>4, <1>5, <1>7, <1>11, <1>12, <1>13, <1>14, <1>15, <1>16, <1>17
  DEF ReadFrame, f

(***************************************************************************)
(* What is accepted and what is refused.  As long as the task goes on, all *)
(* it has read is allowed, and it has a message in progress exactly when   *)
(* the frames say so; when it stops, the histories stop with it.           *)
(***************************************************************************)
FramingInv ==
    pc \notin {"fail", "done"} =>
        /\ Allowed(taken)
        /\ frag # None <=> Unfinished(taken, Len(taken))

LEMMA FramingInit == Init => FramingInv
<1> SUFFICES ASSUME Init PROVE FramingInv
  OBVIOUS
<1>1. taken = <<>> /\ Len(taken) = 0 /\ frag = None
  BY EmptySeq DEF Init, EndInit, ReadInit
<1>2. 1..0 = {}
  OBVIOUS
<1> QED
  BY <1>1, <1>2 DEF FramingInv, Allowed, WellFragmented, Unfinished

LEMMA FramingRead ==
  ASSUME TypeOK, FramingInv, ReadFrame, taken' = Append(taken, Head(inbox))
  PROVE  FramingInv'
<1> DEFINE f == Head(inbox)
<1>1. /\ f \in RawFrame /\ taken \in Seq(RawFrame)
      /\ Allowed(taken)
      /\ frag # None <=> Unfinished(taken, Len(taken))
      /\ Refused(f) \/ Absorbed(f) \/ ClosesWith(f) \/ PongsWith(f)
  BY FramesAreUnderstood DEF FramingInv, TypeOK
<1>2. taken' = Append(taken, f)
  OBVIOUS
<1> HIDE DEF f
<1>3. /\ Len(taken') = Len(taken) + 1
      /\ Allowed(taken') <=> Fits(taken, f) /\ HeaderAllowed(f)
      /\ f.op \in Control =>
           (Unfinished(taken', Len(taken')) <=> frag # None)
      /\ f.op \notin Control => (Unfinished(taken', Len(taken')) <=> ~f.fin)
  BY <1>1, <1>2, Appended, AllowedAppend, UnfinishedAfter
<1>4. Fits(taken, f) <=> ~Misplaced(f)
  BY <1>1 DEF Fits, Misplaced
<1>5. CASE Refused(f)
  BY <1>5 DEF Refused, FramingInv
<1>6. CASE Absorbed(f)
  <2>1. Allowed(taken')
    BY <1>3, <1>4, <1>6 DEF Absorbed, Understood
  <2>2. frag' # None <=> Unfinished(taken', Len(taken'))
    BY <1>3, <1>6 DEF Absorbed
  <2> QED
    BY <2>1, <2>2 DEF FramingInv, Allowed, HeaderAllowed
<1>7. CASE ClosesWith(f) \/ PongsWith(f)
  <2>1. Allowed(taken') /\ f.op \in Control /\ frag' = frag
    BY <1>3, <1>4, <1>7 DEF ClosesWith, PongsWith, Understood, Control
  <2>2. frag' # None <=> Unfinished(taken', Len(taken'))
    BY <1>3, <2>1
  <2> QED
    BY <2>1, <2>2 DEF FramingInv, Allowed, HeaderAllowed
<1> QED
  BY <1>1, <1>5, <1>6, <1>7

LEMMA FramingStep == TypeOK /\ FramingInv /\ [Next]_vars => FramingInv'
<1> SUFFICES ASSUME TypeOK, FramingInv, [Next]_vars PROVE FramingInv'
  OBVIOUS
<1>1. ASSUME Await, taken' = taken PROVE FramingInv'
  <2>1. pc \notin {"fail", "done"} \/ pc' = "fail" \/ pc' = "done"
    BY <1>1, AwaitCases
  <2>2. frag' = frag
    BY <1>1
    DEF Await, Disconnected, EndOfInput, Deliver, DeliverRefused,
      LockForReply, WriteReply, ReplyFails, ReportFailure
  <2> QED
    BY <1>1, <2>1, <2>2 DEF FramingInv, Allowed, HeaderAllowed
<1>2. ASSUME NextItem \/ NextNone \/ DropReader, taken' = taken
      PROVE  FramingInv'
  BY <1>2
  DEF NextItem, NextNone, DropReader, readVars, FramingInv, Allowed,
    HeaderAllowed
<1>3. ASSUME UNCHANGED <<pc, frag, taken>> PROVE FramingInv'
  BY <1>3 DEF FramingInv, Allowed, HeaderAllowed
<1> QED
  BY <1>1, <1>2, <1>3, FramingRead, StepCases

\* A read task that has not failed has read nothing but a conversation that
\* RFC 6455 allows: no frame with a forbidden header, and none that begins a
\* message inside another or continues nothing (read.rs:64-132, 178-235).
THEOREM AcceptsTheAllowed == Spec => []AcceptsOnlyAllowed
<1>1. FramingInv => AcceptsOnlyAllowed
  BY DEF FramingInv, AcceptsOnlyAllowed
<1> QED
  BY <1>1, InitType, StepType, FramingInit, FramingStep, PTL DEF Spec

(***************************************************************************)
(* The wire that leads to the peer.  In one step the read task puts its    *)
(* reply on it, or the user's call the first frame it has still to write,  *)
(* or nothing is written; and nothing is once the connection is broken.    *)
(***************************************************************************)
Reads ==
    /\ ReadFrame
    /\ taken' = Append(taken, Head(inbox))
    /\ UNCHANGED <<OnWire, todo, broken, sent, encoded>>
Replies ==
    /\ pc = "write" /\ ~broken
    /\ pc' = AfterReply(hand)
    /\ OnWire' = Append(OnWire, hand)
    /\ UNCHANGED <<taken, todo, broken, sent, encoded>>
Sends ==
    /\ todo # <<>> /\ ~broken
    /\ OnWire' = Append(OnWire, Head(todo))
    /\ todo' = Tail(todo)
    /\ UNCHANGED <<pc, hand, taken, broken, sent, encoded>>
Asks ==
    /\ Call
    /\ UNCHANGED <<OnWire, pc, hand, taken, broken>>
WritesNothing ==
    /\ UNCHANGED <<OnWire, taken, sent, encoded>>
    /\ broken => broken'
    /\ todo' = todo \/ (broken /\ todo' = <<>>)
    /\ \/ pc' = "fail"
       \/ pc = "lock" /\ pc' = "write" /\ hand' = hand
       \/ pc = "deliver" /\ pc' = "read"
       \/ pc = "fail" /\ pc' = "done"
       \/ UNCHANGED <<pc, hand>>

LEMMA WireType ==
  TypeOK => OnWire \in Seq(RawFrame) /\ Len(OnWire) \in Nat
<1> SUFFICES ASSUME TypeOK
             PROVE  OnWire \in Seq(RawFrame) /\ Len(OnWire) \in Nat
  OBVIOUS
<1>1. heard \in Seq(RawFrame) /\ outbox \in Seq(RawFrame)
  BY DEF TypeOK, EndTypeOK, LinkTypeOK
<1>2. OnWire \in Seq(RawFrame)
  BY <1>1, ConcatProperties DEF OnWire
<1> QED
  BY <1>2, LenProperties

\* Appending behind a concatenation.
LEMMA AppendBehind ==
  ASSUME NEW S, NEW s \in Seq(S), NEW t \in Seq(S), NEW x \in S
  PROVE  s \o Append(t, x) = Append(s \o t, x)
<1>1. /\ <<x>> \in Seq(S) /\ s \o t \in Seq(S)
      /\ Append(t, x) = t \o <<x>>
  BY AppendIsConcat, ConcatProperties
<1>2. Append(s \o t, x) = (s \o t) \o <<x>>
  BY <1>1, AppendIsConcat
<1> QED
  BY <1>1, <1>2, ConcatAssociative

\* Moving the first element of the second sequence to the end of the first.
LEMMA MoveHead ==
  ASSUME NEW S, NEW s \in Seq(S), NEW t \in Seq(S), t # <<>>
  PROVE  Append(s, Head(t)) \o Tail(t) = s \o t
<1>1. Head(t) \in S /\ Tail(t) \in Seq(S) /\ t = <<Head(t)>> \o Tail(t)
  BY HeadTailProperties
<1>2. <<Head(t)>> \in Seq(S) /\ Append(s, Head(t)) = s \o <<Head(t)>>
  BY <1>1, AppendIsConcat
<1> QED
  BY <1>1, <1>2, ConcatAssociative

LEMMA WireCases ==
  ASSUME TypeOK, [Next]_vars
  PROVE  Reads \/ Replies \/ Sends \/ Asks \/ WritesNothing
<1>1. /\ heard \in Seq(RawFrame) /\ outbox \in Seq(RawFrame)
      /\ todo \in Seq(RawFrame)
  BY DEF TypeOK, EndTypeOK, LinkTypeOK, WriteTypeOK
<1>2. ASSUME NEW f \in RawFrame, outbox' = Append(outbox, f), heard' = heard
      PROVE  OnWire' = Append(OnWire, f)
  BY <1>1, <1>2, AppendBehind DEF OnWire
<1>3. ASSUME UNCHANGED <<outbox, heard>> PROVE OnWire' = OnWire
  BY <1>3 DEF OnWire
<1>4. ASSUME EndStep, Reading, ReadFrame PROVE Reads
  <2>1. inbox # <<>> /\ inbox' = Tail(inbox) /\ inbox \in Seq(RawFrame)
    BY <1>4, ReadFrameOutcome DEF TypeOK, EndTypeOK, LinkTypeOK
  <2>2. Len(inbox') # Len(inbox)
    BY <2>1, HeadTailProperties, LenProperties
  <2>3. taken' = Append(taken, Head(inbox))
    BY <1>4, <2>2 DEF EndStep
  <2>4. UNCHANGED <<outbox, heard, todo, broken, sent, encoded>>
    BY <1>4 DEF EndStep, Reading, ReadFrame, userVars, writeVars
  <2> QED
    BY <1>3, <1>4, <2>3, <2>4 DEF Reads
<1>5. ASSUME EndStep, Reading, Await PROVE Replies \/ WritesNothing
  <2>1. UNCHANGED <<inbox, heard, taken, todo, broken, sent, encoded>>
    BY <1>5
    DEF EndStep, Reading, userVars, writeVars, Await, Disconnected,
      EndOfInput, Deliver, DeliverRefused, LockForReply, WriteReply,
      ReplyFails, ReportFailure
  <2>2. CASE WriteReply
    <3>1. hand \in RawFrame /\ pc = "write"
      BY <2>2 DEF WriteReply, TypeOK, EndTypeOK, ReadTypeOK, HandTypeOK
    <3>2. /\ ~broken /\ pc' = AfterReply(hand)
          /\ outbox' = Append(outbox, hand)
      BY <2>2 DEF WriteReply, Written
    <3> QED
      BY <1>2, <2>1, <3>1, <3>2 DEF Replies
  <2>3. CASE ~WriteReply
    <3>1. outbox' = outbox
      BY <1>5, <2>3
      DEF Await, Disconnected, EndOfInput, Deliver, DeliverRefused,
        LockForReply, ReplyFails, ReportFailure, WriteFails
    <3>2. \/ pc' = "fail"
          \/ pc = "lock" /\ pc' = "write" /\ hand' = hand
          \/ pc = "deliver" /\ pc' = "read"
          \/ pc = "fail" /\ pc' = "done"
      BY <1>5, <2>3
      DEF Await, Disconnected, EndOfInput, Deliver, DeliverRefused,
        LockForReply, ReplyFails, ReportFailure, Fail
    <3> QED
      BY <1>3, <2>1, <3>1, <3>2 DEF WritesNothing
  <2> QED
    BY <2>2, <2>3
<1>6. ASSUME EndStep, Writing PROVE Sends \/ Asks \/ WritesNothing
  <2>1. UNCHANGED <<inbox, heard, taken, pc, hand, broken>>
    BY <1>6
    DEF EndStep, Writing, readVars, Call, SendMessage, SendLarge, SendPing,
      CloseConnection, Calls, WriteTask, LockForFrame, WriteFrame, FrameFails,
      CloseReturns, DropWriter
  <2>2. CASE Call
    <3>1. outbox' = outbox
      BY <2>2 DEF Call, SendMessage, SendLarge, SendPing, CloseConnection, Calls
    <3> QED
      BY <1>3, <2>1, <2>2, <3>1 DEF Asks
  <2>3. CASE WriteFrame
    <3>1. /\ todo # <<>> /\ ~broken
          /\ outbox' = Append(outbox, Head(todo))
          /\ todo' = Tail(todo) /\ UNCHANGED <<sent, encoded>>
      BY <2>3 DEF WriteFrame, Written, TypeOK, EndTypeOK, WriteTypeOK
    <3>2. Head(todo) \in RawFrame
      BY <1>1, <3>1, HeadTailProperties
    <3> QED
      BY <1>2, <2>1, <3>1, <3>2 DEF Sends
  <2>4. CASE LockForFrame \/ FrameFails \/ CloseReturns \/ DropWriter
    <3>1. /\ UNCHANGED <<outbox, sent, encoded>>
          /\ todo' = todo \/ (broken /\ todo' = <<>>)
      BY <2>4
      DEF LockForFrame, FrameFails, CloseReturns, DropWriter, WriteFails,
        writeVars
    <3> QED
      BY <1>3, <2>1, <3>1 DEF WritesNothing
  <2> QED
    BY <1>6, <2>2, <2>3, <2>4 DEF Writing, WriteTask
<1>7. ASSUME EndStep, NextItem \/ NextNone \/ DropReader PROVE WritesNothing
  <2>1. UNCHANGED <<outbox, heard, taken, todo, pc, hand, broken, sent,
                   encoded>>
    BY <1>7
    DEF EndStep, NextItem, NextNone, DropReader, readVars, writeVars
  <2> QED
    BY <1>3, <2>1 DEF WritesNothing
<1>8. CASE PeerReads
  <2>1. OnWire' = OnWire
    BY <1>1, <1>8, MoveHead DEF PeerReads, OnWire
  <2> QED
    BY <1>8, <2>1 DEF PeerReads, WritesNothing, readVars, userVars, writeVars
<1>9. CASE PeerWrites \/ PeerLeaves \/ PeerResets \/ UNCHANGED vars
  <2>1. /\ UNCHANGED <<outbox, heard, taken, todo, pc, hand, sent, encoded>>
        /\ broken => broken'
    BY <1>9
    DEF PeerWrites, PeerLeaves, PeerResets, Reset, vars, endVars, linkVars,
      readVars, userVars, writeVars
  <2> QED
    BY <1>3, <2>1 DEF WritesNothing
<1> QED
  BY <1>4, <1>5, <1>6, <1>7, <1>8, <1>9
  DEF Next, EndStep, EndNext, Reading, ReadTask, Await

(***************************************************************************)
(* What the calls leave to be written: the frames of one message, each     *)
(* continuing the one before it and only the last final, or one control    *)
(* frame; in no case a Pong.                                               *)
(***************************************************************************)
Chain(fs) ==
    \A i \in 1..Len(fs) :
        /\ fs[i].op # "Pong"
        /\ i > 1 => fs[i].op = "Continue"
        /\ fs[i].op \in Control => fs[i].fin
        /\ fs[i].fin <=> i = Len(fs)
Begins(fs) == fs # <<>> => fs[1].op # "Continue"

LEMMA ChainOfOne ==
  ASSUME NEW f \in RawFrame, f.fin, f.op \notin {"Pong", "Continue"}
  PROVE  Chain(<<f>>) /\ Begins(<<f>>)
<1>1. Len(<<f>>) = 1 /\ <<f>>[1] = f
  OBVIOUS
<1> QED
  BY <1>1 DEF Chain, Begins

LEMMA FragmentsChain ==
  ASSUME NEW op \in Data, NEW chunks \in Seq(Payload), NEW marked
  PROVE  /\ Chain(Fragments(op, chunks, marked))
         /\ Begins(Fragments(op, chunks, marked))
<1> DEFINE frame(i) == WireFrame(i = Len(chunks),
                                 IF i = 1 THEN op ELSE "Continue",
                                 i \in marked, chunks[i])
<1> DEFINE fs == Fragments(op, chunks, marked)
<1>1. Len(chunks) \in Nat
  BY LenProperties
<1>2. fs = [i \in 1..Len(chunks) |-> frame(i)]
  BY DEF Fragments
<1>3. ASSUME NEW i \in 1..Len(chunks)
      PROVE  /\ frame(i).op \notin Control
             /\ i = 1 => frame(i).op = op
             /\ i > 1 => frame(i).op = "Continue"
             /\ frame(i).fin <=> i = Len(chunks)
  <2>1. frame(i).op = IF i = 1 THEN op ELSE "Continue"
    BY DEF WireFrame
  <2>2. frame(i).fin <=> i = Len(chunks)
    BY Zenon DEF WireFrame
  <2> HIDE DEF frame
  <2> QED
    BY <2>1, <2>2 DEF Data, Control
<1>4. fs \in Seq(RawFrame)
  BY FragmentsType
<1> HIDE DEF frame, fs
<1>5. Len(fs) = Len(chunks)
  BY <1>1, <1>2, <1>4, LenProperties
<1>6. \A i \in 1..Len(chunks) : fs[i] = frame(i)
  BY <1>2
<1>7. Chain(fs)
  BY <1>3, <1>5, <1>6 DEF Chain, Control
<1>8. Begins(fs)
  <2>1. CASE fs # <<>>
    <3>1. 1 \in 1..Len(chunks)
      BY <1>1, <1>4, <1>5, <2>1, EmptySeq
    <3> QED
      BY <1>3, <1>6, <3>1 DEF Begins, Data
  <2> QED
    BY <2>1 DEF Begins
<1> QED
  BY <1>7, <1>8 DEF fs

LEMMA AskedChain ==
  ASSUME TypeOK, Call
  PROVE  todo = <<>> /\ Chain(todo') /\ Begins(todo')
<1>1. encoded \in Nat /\ todo = <<>>
  BY DEF TypeOK, EndTypeOK, WriteTypeOK, Call, SendMessage, SendLarge,
    SendPing, CloseConnection, Calls
<1>2. ASSUME NEW f \in {PingFrame, CloseFrame}, todo' = <<f>>
      PROVE  Chain(todo') /\ Begins(todo')
  <2>1. f \in RawFrame
    BY ControlFrameTypes
  <2>2. f.fin /\ f.op \notin {"Pong", "Continue"}
    BY DEF PingFrame, CloseFrame, WireFrame
  <2> QED
    BY <1>2, <2>1, <2>2, ChainOfOne
<1>3. ASSUME NEW m \in Messages, todo' = MessageFrames(m)
      PROVE  Chain(todo') /\ Begins(todo')
  <2>1. m.kind \in Data /\ m.data \in Seq(Byte)
    BY CallsAssumption
  <2>2. CASE m.data = <<>>
    <3> DEFINE f == WireFrame(TRUE, m.kind, FALSE, <<>>)
    <3>1. f \in RawFrame
      BY <2>1, EmptyPayload, WireFrameType DEF OpCode
    <3>2. f.fin /\ f.op \notin {"Pong", "Continue"}
      BY <2>1 DEF WireFrame, Data
    <3>3. todo' = <<f>>
      BY <1>3, <2>2 DEF MessageFrames
    <3> HIDE DEF f
    <3> QED
      BY <3>1, <3>2, <3>3, ChainOfOne
  <2>3. CASE m.data # <<>>
    <3>1. Chunks(Encoded(m.data), MaxFrameSize) \in Seq(Payload)
      BY <1>1, <2>1, EncodedType, ChunksType, ConfigAssumption
    <3> QED
      BY <1>3, <2>1, <2>3, <3>1, FragmentsChain DEF MessageFrames
  <2> QED
    BY <2>2, <2>3
<1>4. ASSUME NEW c \in LargeCalls, todo' = LargeFrames(c.data, c.size)
      PROVE  Chain(todo') /\ Begins(todo')
  <2>1. c.data \in Seq(Byte) /\ c.size \in Nat \ {0} /\ "Text" \in Data
    BY CallsAssumption DEF Data
  <2>2. Chunks(Encoded(c.data), c.size) \in Seq(Payload)
    BY <1>1, <2>1, EncodedType, ChunksType
  <2> QED
    BY <1>4, <2>1, <2>2, FragmentsChain DEF LargeFrames
<1> QED
  BY <1>1, <1>2, <1>3, <1>4
  DEF Call, SendMessage, SendLarge, SendPing, CloseConnection

\* Once its first frame is written, a chain goes on with a continuation or
\* has come to its end.
LEMMA ChainTail ==
  ASSUME NEW fs \in Seq(RawFrame), fs # <<>>, Chain(fs)
  PROVE  /\ Chain(Tail(fs))
         /\ Head(fs) \in RawFrame
         /\ Head(fs) = fs[1]
         /\ Head(fs).op # "Pong"
         /\ Head(fs).op \in Control => Head(fs).fin
         /\ Head(fs).fin <=> Tail(fs) = <<>>
         /\ Tail(fs) # <<>> => Tail(fs)[1].op = "Continue"
<1> DEFINE gs == Tail(fs)
<1>1. Len(fs) \in Nat \ {0} /\ Head(fs) = fs[1] /\ Head(fs) \in RawFrame
  BY EmptySeq, HeadTailProperties
<1>2. /\ gs \in Seq(RawFrame)
      /\ Len(gs) = Len(fs) - 1
      /\ \A i \in 1..Len(gs) : gs[i] = fs[i + 1]
  BY HeadTailProperties
<1> HIDE DEF gs
<1>3. gs = <<>> <=> Len(gs) = 0
  BY <1>2, EmptySeq
<1>4. \A i \in 1..Len(gs) : i + 1 \in 1..Len(fs) /\ i + 1 > 1
  BY <1>1, <1>2
<1>5. Chain(gs)
  <2> SUFFICES ASSUME NEW i \in 1..Len(gs)
               PROVE  /\ gs[i].op # "Pong"
                      /\ i > 1 => gs[i].op = "Continue"
                      /\ gs[i].op \in Control => gs[i].fin
                      /\ gs[i].fin <=> i = Len(gs)
    BY DEF Chain
  <2>1. /\ fs[i + 1].op # "Pong"
        /\ fs[i + 1].op = "Continue"
        /\ fs[i + 1].op \in Control => fs[i + 1].fin
        /\ fs[i + 1].fin <=> i + 1 = Len(fs)
    BY <1>4 DEF Chain
  <2>2. i + 1 = Len(fs) <=> i = Len(gs)
    BY <1>1, <1>2
  <2> QED
    BY <1>2, <2>1, <2>2
<1>6. /\ fs[1].op # "Pong"
      /\ fs[1].op \in Control => fs[1].fin
      /\ fs[1].fin <=> 1 = Len(fs)
  <2>1. 1 \in 1..Len(fs)
    BY <1>1
  <2> QED
    BY <2>1 DEF Chain
<1>7. gs # <<>> => gs[1].op = "Continue"
  <2> SUFFICES ASSUME gs # <<>> PROVE gs[1].op = "Continue"
    OBVIOUS
  <2>1. 1 \in 1..Len(gs)
    BY <1>1, <1>2, <1>3
  <2>2. gs[1] = fs[1 + 1] /\ 1 + 1 \in 1..Len(fs) /\ 1 + 1 > 1
    BY <1>2, <1>4, <2>1
  <2> QED
    BY <2>2 DEF Chain
<1>8. gs = <<>> <=> 1 = Len(fs)
  BY <1>1, <1>2, <1>3
<1> QED
  BY <1>1, <1>5, <1>6, <1>7, <1>8 DEF gs

(***************************************************************************)
(* Messages on the wire.  A call that runs has begun a message exactly     *)
(* when the wire has an unfinished one, unless a write has failed: then no *)
(* frame follows at all.                                                   *)
(***************************************************************************)
Open == Unfinished(OnWire, Len(OnWire))

WireInv ==
    /\ WellFragmented(OnWire)
    /\ Chain(todo)
    /\ ~broken /\ todo = <<>> => ~Open
    /\ ~broken /\ todo # <<>> => (todo[1].op = "Continue" <=> Open)
    /\ pc \in {"lock", "write"} => hand.op \in Control

LEMMA WireInit == Init => WireInv
<1> SUFFICES ASSUME Init PROVE WireInv
  OBVIOUS
<1>1. /\ heard = <<>> /\ outbox = <<>> /\ todo = <<>> /\ pc = "read"
      /\ Len(<<>>) = 0
  BY EmptySeq DEF Init, EndInit, ReadInit, WriteInit
<1>2. OnWire = <<>>
  BY <1>1, ConcatEmptySeq, EmptySeq DEF OnWire
<1>3. 1..0 = {}
  OBVIOUS
<1> QED
  BY <1>1, <1>2, <1>3 DEF WireInv, WellFragmented, Chain, Open, Unfinished

LEMMA WireGrows ==
  ASSUME TypeOK, WellFragmented(OnWire), NEW f \in RawFrame,
         OnWire' = Append(OnWire, f), Fits(OnWire, f)
  PROVE  /\ WellFragmented(OnWire')
         /\ f.op \in Control => (Open' <=> Open)
         /\ f.op \notin Control => (Open' <=> ~f.fin)
<1>1. OnWire \in Seq(RawFrame)
  BY WireType
<1>2. Len(OnWire') = Len(OnWire) + 1
  BY <1>1, Appended
<1> QED
  BY <1>1, <1>2, WellFragmentedAppend, UnfinishedAfter DEF Open

LEMMA WireStep == TypeOK /\ WireInv /\ [Next]_vars => WireInv'
<1> SUFFICES ASSUME TypeOK, WireInv, [Next]_vars PROVE WireInv'
  OBVIOUS
<1>1. todo \in Seq(RawFrame) /\ broken \in BOOLEAN
  BY DEF TypeOK, EndTypeOK, WriteTypeOK, LinkTypeOK
<1>2. OnWire' = OnWire => (Open' <=> Open) /\ WellFragmented(OnWire')
  BY DEF WireInv, Open
<1>3. CASE Reads
  <2>1. pc' \in {"lock", "write"} => hand'.op \in Control
    BY <1>3, FramesAreUnderstood
    DEF Reads, Refused, Absorbed, ClosesWith, PongsWith, CloseFrame,
      PongFrame, WireFrame, Control
  <2>2. UNCHANGED <<OnWire, todo, broken>>
    BY <1>3 DEF Reads
  <2> QED
    BY <1>2, <2>1, <2>2 DEF WireInv
<1>4. CASE Replies
  <2>1. /\ hand \in RawFrame /\ hand.op \in Control
        /\ OnWire' = Append(OnWire, hand)
        /\ UNCHANGED <<todo, broken>>
        /\ pc' \notin {"lock", "write"}
    BY <1>4
    DEF Replies, AfterReply, WireInv, TypeOK, EndTypeOK, ReadTypeOK,
      HandTypeOK
  <2>2. WellFragmented(OnWire') /\ (Open' <=> Open)
    BY <2>1, WireGrows DEF WireInv, Fits
  <2> QED
    BY <2>1, <2>2 DEF WireInv
<1>5. CASE Sends
  <2> DEFINE f == Head(todo)
  <2>1. /\ todo # <<>> /\ ~broken /\ todo' = Tail(todo)
        /\ OnWire' = Append(OnWire, f)
        /\ UNCHANGED <<pc, hand, broken>>
    BY <1>5 DEF Sends
  <2>2. /\ Chain(todo')
        /\ f \in RawFrame /\ f = todo[1]
        /\ f.op \in Control => f.fin
        /\ f.fin <=> todo' = <<>>
        /\ todo' # <<>> => todo'[1].op = "Continue"
    BY <1>1, <2>1, ChainTail DEF WireInv
  <2> HIDE DEF f
  <2>3. f.op = "Continue" <=> Open
    BY <2>1, <2>2 DEF WireInv
  <2>4. /\ WellFragmented(OnWire')
        /\ f.op \in Control => (Open' <=> Open)
        /\ f.op \notin Control => (Open' <=> ~f.fin)
    BY <2>1, <2>2, <2>3, WireGrows DEF WireInv, Fits, Open
  <2>5. ~f.fin => f.op \notin Control
    BY <2>2
  <2>6. Open' <=> todo' # <<>>
    BY <2>2, <2>3, <2>4, <2>5 DEF Control
  <2> QED
    BY <2>1, <2>2, <2>4, <2>6 DEF WireInv
<1>6. CASE Asks
  <2>1. /\ todo = <<>> /\ Chain(todo') /\ Begins(todo')
        /\ UNCHANGED <<OnWire, pc, hand, broken>>
    BY <1>6, AskedChain DEF Asks
  <2> QED
    BY <1>2, <2>1 DEF WireInv, Begins
<1>7. CASE WritesNothing
  <2>1. /\ OnWire' = OnWire
        /\ broken => broken'
        /\ todo' = todo \/ (broken /\ todo' = <<>>)
        /\ pc' \in {"lock", "write"} =>
             pc \in {"lock", "write"} /\ hand' = hand
    BY <1>7 DEF WritesNothing
  <2>2. Chain(todo')
    <3>1. Chain(<<>>)
      BY EmptySeq DEF Chain
    <3> QED
      BY <2>1, <3>1 DEF WireInv
  <2> QED
    BY <1>2, <2>1, <2>2 DEF WireInv
<1> QED
  BY <1>3, <1>4, <1>5, <1>6, <1>7, WireCases

\* Whatever the two tasks of an end write between each other's frames, a
\* continuation on its wire follows an unfinished frame of the same message
\* and every unfinished frame is followed by one or by nothing: the mutex is
\* given up after every frame, but no second call and no reply breaks into
\* a message (split.rs:220-237, read.rs:159-166).
THEOREM SendsWellFragmented == Spec => []WellFragmented(OnWire)
<1>1. WireInv => WellFragmented(OnWire)
  BY DEF WireInv
<1> QED
  BY <1>1, InitType, StepType, WireInit, WireStep, PTL DEF Spec

(***************************************************************************)
(* Pings and Pongs.  The wire has as many Pongs as Pings have been read,   *)
(* or one less: the Pong the task holds, or had no time to write.          *)
(***************************************************************************)
CountAll(fs, op) == CountOf(fs, op, Len(fs))

LEMMA CountAllAppend ==
  ASSUME NEW fs \in Seq(RawFrame), NEW f \in RawFrame, NEW op
  PROVE  /\ CountAll(fs, op) \in Nat
         /\ CountAll(Append(fs, f), op) =
               CountAll(fs, op) + IF f.op = op THEN 1 ELSE 0
<1>1. Len(fs) \in Nat /\ Len(Append(fs, f)) = Len(fs) + 1
  BY Appended
<1>2. CountOf(Append(fs, f), op, Len(fs) + 1) =
        CountOf(fs, op, Len(fs)) + IF f.op = op THEN 1 ELSE 0
  BY CountAppend
<1>3. CountOf(fs, op, Len(fs)) \in Nat
  BY <1>1, CountType
<1> QED
  BY <1>1, <1>2, <1>3 DEF CountAll

\* How many there are among the first i frames is at most how many there are.
LEMMA CountWithin ==
  ASSUME NEW fs \in Seq(RawFrame), NEW op, NEW i \in 1..Len(fs)
  PROVE  CountOf(fs, op, i) \in 0..CountAll(fs, op)
<1>1. Len(fs) \in Nat
  BY LenProperties
<1>2. i \in Nat /\ i \in 0..Len(fs)
  BY <1>1
<1>3. CountOf(fs, op, i) \in Nat /\ CountOf(fs, op, Len(fs)) \in Nat
  BY <1>1, <1>2, CountType
<1>4. CountOf(fs, op, i) <= CountOf(fs, op, Len(fs))
  BY <1>1, <1>2, CountGrows
<1> QED
  BY <1>3, <1>4 DEF CountAll

\* An answer to an earlier Ping remains one ...
LEMMA AnswersSince ==
  ASSUME NEW fs \in Seq(RawFrame), NEW f \in RawFrame, NEW payload,
         NEW n \in 0..CountAll(fs, "Ping"), Answers(payload, fs, n)
  PROVE  Answers(payload, Append(fs, f), n)
<1> DEFINE gs == Append(fs, f)
<1>1. /\ Len(fs) \in Nat /\ Len(gs) = Len(fs) + 1
      /\ gs[Len(fs) + 1] = f /\ \A j \in 1..Len(fs) : gs[j] = fs[j]
  BY Appended
<1>2. /\ CountAll(fs, "Ping") \in Nat
      /\ CountOf(gs, "Ping", Len(fs) + 1)
           = CountAll(fs, "Ping") + IF f.op = "Ping" THEN 1 ELSE 0
      /\ \A m \in 0..Len(fs) : CountOf(gs, "Ping", m) = CountOf(fs, "Ping", m)
  BY CountAppend, CountAllAppend DEF CountAll
<1> HIDE DEF gs
<1> SUFFICES ASSUME NEW j \in 1..Len(gs),
                    gs[j].op = "Ping", ~gs[j].rsv1,
                    CountOf(gs, "Ping", j) = n
             PROVE  payload = gs[j].payload
  BY DEF Answers, gs
<1>3. j # Len(fs) + 1
  BY <1>1, <1>2
<1>4. j \in 1..Len(fs) /\ j \in 0..Len(fs)
  BY <1>1, <1>3
<1> QED
  BY <1>1, <1>2, <1>4 DEF Answers

\* ... and one to the Ping just read is its payload.
LEMMA AnswersNow ==
  ASSUME NEW fs \in Seq(RawFrame), NEW f \in RawFrame, NEW payload,
         ~f.rsv1 => payload = f.payload
  PROVE  Answers(payload, Append(fs, f), CountAll(fs, "Ping") + 1)
<1> DEFINE gs == Append(fs, f)
<1>1. /\ Len(fs) \in Nat /\ Len(gs) = Len(fs) + 1
      /\ gs[Len(fs) + 1] = f /\ \A j \in 1..Len(fs) : gs[j] = fs[j]
  BY Appended
<1>2. \A j \in 1..Len(fs) :
        CountOf(gs, "Ping", j) \in 0..CountAll(fs, "Ping")
  <2>1. \A j \in 1..Len(fs) : j \in 0..Len(fs)
    BY <1>1
  <2> QED
    BY <2>1, CountAppend, CountWithin
<1>3. CountAll(fs, "Ping") \in Nat
  BY CountAllAppend
<1> HIDE DEF gs
<1> SUFFICES ASSUME NEW j \in 1..Len(gs),
                    gs[j].op = "Ping", ~gs[j].rsv1,
                    CountOf(gs, "Ping", j) = CountAll(fs, "Ping") + 1
             PROVE  payload = gs[j].payload
  BY DEF Answers, gs
<1>4. j \notin 1..Len(fs)
  BY <1>2, <1>3
<1>5. j = Len(fs) + 1
  BY <1>1, <1>4
<1> QED
  BY <1>1, <1>5

LEMMA AllAnswerSince ==
  ASSUME NEW fs \in Seq(RawFrame), NEW f \in RawFrame,
         NEW ws \in Seq(RawFrame), AllAnswer(ws, fs),
         CountAll(ws, "Pong") <= CountAll(fs, "Ping")
  PROVE  AllAnswer(ws, Append(fs, f))
<1> SUFFICES ASSUME NEW i \in 1..Len(ws), ws[i].op = "Pong"
             PROVE  Answers(ws[i].payload, Append(fs, f),
                            CountOf(ws, "Pong", i))
  BY DEF AllAnswer
<1>1. CountOf(ws, "Pong", i) \in 0..CountAll(ws, "Pong")
  BY CountWithin
<1>2. CountAll(ws, "Pong") \in Nat /\ CountAll(fs, "Ping") \in Nat
  BY CountType, LenProperties DEF CountAll
<1>3. CountOf(ws, "Pong", i) \in 0..CountAll(fs, "Ping")
  BY <1>1, <1>2
<1> QED
  BY <1>3, AnswersSince DEF AllAnswer

LEMMA AllAnswerAppend ==
  ASSUME NEW ws \in Seq(RawFrame), NEW w \in RawFrame,
         NEW fs, AllAnswer(ws, fs),
         w.op = "Pong" => Answers(w.payload, fs, CountAll(ws, "Pong") + 1)
  PROVE  AllAnswer(Append(ws, w), fs)
<1> DEFINE vs == Append(ws, w)
<1>1. /\ Len(ws) \in Nat /\ Len(vs) = Len(ws) + 1
      /\ vs[Len(ws) + 1] = w /\ \A i \in 1..Len(ws) : vs[i] = ws[i]
  BY Appended
<1>2. /\ CountOf(vs, "Pong", Len(ws) + 1)
           = CountAll(ws, "Pong") + IF w.op = "Pong" THEN 1 ELSE 0
      /\ \A m \in 0..Len(ws) : CountOf(vs, "Pong", m) = CountOf(ws, "Pong", m)
  BY CountAppend DEF CountAll
<1> HIDE DEF vs
<1> SUFFICES ASSUME NEW i \in 1..Len(vs), vs[i].op = "Pong"
             PROVE  Answers(vs[i].payload, fs, CountOf(vs, "Pong", i))
  BY DEF AllAnswer, vs
<1>3. CASE i = Len(ws) + 1
  BY <1>1, <1>2, <1>3
<1>4. CASE i # Len(ws) + 1
  <2>1. i \in 1..Len(ws) /\ i \in 0..Len(ws)
    BY <1>1, <1>4
  <2> QED
    BY <1>1, <1>2, <2>1 DEF AllAnswer
<1> QED
  BY <1>3, <1>4

PongInv ==
    /\ AllAnswer(OnWire, taken)
    /\ Pongs \in {Pings, Pings - 1}
    /\ pc \in {"read", "deliver"} => Pongs = Pings
    /\ pc \in {"lock", "write"} /\ hand.op # "Pong" => Pongs = Pings
    /\ pc \in {"lock", "write"} /\ hand.op = "Pong" =>
          Pongs = Pings - 1 /\ Answers(hand.payload, taken, Pings)

LEMMA PongInit == Init => PongInv
<1> SUFFICES ASSUME Init PROVE PongInv
  OBVIOUS
<1>1. /\ heard = <<>> /\ outbox = <<>> /\ taken = <<>> /\ pc = "read"
      /\ Len(<<>>) = 0
  BY EmptySeq DEF Init, EndInit, ReadInit
<1>2. OnWire = <<>>
  BY <1>1, ConcatEmptySeq, EmptySeq DEF OnWire
<1>3. \A op : CountOf(<<>>, op, 0) = 0
  <2> SUFFICES ASSUME NEW op PROVE CountOf(<<>>, op, 0) = 0
    OBVIOUS
  <2>1. {i \in 1..0 : <<>>[i].op = op} = {}
    OBVIOUS
  <2> QED
    BY <2>1, FS_EmptySet DEF CountOf
<1> QED
  BY <1>1, <1>2, <1>3 DEF PongInv, AllAnswer, Pings, Pongs

LEMMA PongRead ==
  ASSUME TypeOK, PongInv, Reads
  PROVE  PongInv'
<1> DEFINE f == Head(inbox)
<1>1. /\ f \in RawFrame /\ taken \in Seq(RawFrame)
      /\ OnWire \in Seq(RawFrame)
      /\ pc = "read" /\ Pongs = Pings /\ AllAnswer(OnWire, taken)
      /\ Refused(f) \/ Absorbed(f) \/ ClosesWith(f) \/ PongsWith(f)
  BY FramesAreUnderstood, WireType DEF Reads, PongInv, TypeOK
<1>2. taken' = Append(taken, f) /\ OnWire' = OnWire
  BY DEF Reads
<1> HIDE DEF f
<1>3. Pings = CountAll(taken, "Ping") /\ Pongs = CountAll(OnWire, "Pong")
  BY DEF CountAll, Pings, Pongs
<1>4. /\ Pings \in Nat /\ Pongs' = Pongs
      /\ Pings' = Pings + IF f.op = "Ping" THEN 1 ELSE 0
  <2>1. Pings' = CountAll(taken', "Ping")
    BY DEF CountAll, Pings
  <2>2. Pongs' = CountAll(OnWire', "Pong")
    BY DEF CountAll, Pongs
  <2> QED
    BY <1>1, <1>2, <1>3, <2>1, <2>2, CountAllAppend
<1>5. AllAnswer(OnWire', taken')
  BY <1>1, <1>2, <1>3, <1>4, AllAnswerSince
<1>6. CASE PongsWith(f)
  <2>1. PICK p \in Payload : hand' = PongFrame(p) /\ (~f.rsv1 => p = f.payload)
    BY <1>6 DEF PongsWith
  <2>2. hand'.op = "Pong" /\ hand'.payload = p
    BY <2>1 DEF PongFrame, WireFrame
  <2>3. Answers(p, taken', Pings + 1)
    BY <1>1, <1>2, <1>3, <2>1, AnswersNow
  <2>4. pc' = "lock" /\ f.op = "Ping"
    BY <1>6 DEF PongsWith
  <2> QED
    BY <1>1, <1>4, <1>5, <2>2, <2>3, <2>4 DEF PongInv
<1>7. CASE ClosesWith(f)
  <2>1. hand'.op = "Close" /\ pc' = "lock" /\ f.op = "Close"
    BY <1>7 DEF ClosesWith, CloseFrame, WireFrame
  <2> QED
    BY <1>1, <1>4, <1>5, <2>1 DEF PongInv
<1>8. CASE Absorbed(f)
  BY <1>1, <1>4, <1>5, <1>8 DEF Absorbed, PongInv
<1>9. CASE Refused(f)
  BY <1>1, <1>4, <1>5, <1>9 DEF Refused, PongInv
<1> QED
  BY <1>1, <1>6, <1>7, <1>8, <1>9

LEMMA PongStep ==
  TypeOK /\ WireInv /\ PongInv /\ [Next]_vars => PongInv'
<1> SUFFICES ASSUME TypeOK, WireInv, PongInv, [Next]_vars PROVE PongInv'
  OBVIOUS
<1>1. OnWire \in Seq(RawFrame) /\ todo \in Seq(RawFrame)
  BY WireType DEF TypeOK, EndTypeOK, WriteTypeOK
<1>2. /\ Pings = CountAll(taken, "Ping") /\ Pongs = CountAll(OnWire, "Pong")
      /\ Pings \in Nat /\ Pongs \in Nat
  BY CountType, LenProperties, WireType DEF CountAll, Pings, Pongs, TypeOK
<1>3. Pongs' = CountAll(OnWire', "Pong")
  BY DEF CountAll, Pongs
<1>4. taken' = taken => Pings' = Pings
  BY DEF Pings
<1>5. CASE Replies
  <2>1. /\ hand \in RawFrame /\ pc = "write"
        /\ OnWire' = Append(OnWire, hand) /\ taken' = taken
        /\ pc' \in {"read", "done"}
    BY <1>5
    DEF Replies, AfterReply, TypeOK, EndTypeOK, ReadTypeOK, HandTypeOK
  <2>2. Pongs' = Pongs + IF hand.op = "Pong" THEN 1 ELSE 0
    BY <1>1, <1>2, <1>3, <2>1, CountAllAppend
  <2>3. Pongs' = Pings'
    BY <1>2, <1>4, <2>1, <2>2 DEF PongInv
  <2>4. hand.op = "Pong" => Answers(hand.payload, taken, Pongs + 1)
    <3>1. hand.op = "Pong" => Pongs + 1 = Pings
      BY <1>2, <2>1 DEF PongInv
    <3> QED
      BY <2>1, <3>1 DEF PongInv
  <2>5. AllAnswer(OnWire', taken')
    BY <1>1, <1>2, <2>1, <2>4, AllAnswerAppend DEF PongInv
  <2> QED
    BY <2>1, <2>3, <2>5 DEF PongInv
<1>6. CASE Sends
  <2>1. /\ todo # <<>>
        /\ OnWire' = Append(OnWire, Head(todo))
        /\ UNCHANGED <<pc, hand, taken>>
    BY <1>6 DEF Sends
  <2>2. Head(todo) \in RawFrame /\ Head(todo).op # "Pong"
    BY <1>1, <2>1, ChainTail DEF WireInv
  <2>3. Pongs' = Pongs
    BY <1>1, <1>2, <1>3, <2>1, <2>2, CountAllAppend
  <2>4. AllAnswer(OnWire', taken')
    BY <1>1, <2>1, <2>2, AllAnswerAppend DEF PongInv
  <2> QED
    BY <1>4, <2>1, <2>3, <2>4 DEF PongInv
<1>7. CASE Asks \/ WritesNothing
  <2>1. /\ OnWire' = OnWire /\ taken' = taken
        /\ \/ pc' \in {"fail", "done"}
           \/ pc = "lock" /\ pc' = "write" /\ hand' = hand
           \/ pc = "deliver" /\ pc' = "read"
           \/ UNCHANGED <<pc, hand>>
    BY <1>7 DEF Asks, WritesNothing
  <2>2. Pongs' = Pongs /\ Pings' = Pings /\ AllAnswer(OnWire', taken')
    BY <2>1 DEF Pongs, Pings, PongInv
  <2> QED
    BY <2>1, <2>2 DEF PongInv
<1> QED
  BY <1>5, <1>6, <1>7, PongRead, WireCases

\* Every Pong on the wire answers the Ping of the same number, with its
\* payload, although the task gives up the wire between reading the one and
\* writing the other and the user writes meanwhile; the task goes back to
\* reading only when it owes no Pong (read.rs:144-146, 159-166).
THEOREM PongsAnswer == Spec => []PongsAnswerPings
<1>1. TypeOK /\ PongInv => PongsAnswerPings
  <2> SUFFICES ASSUME TypeOK, PongInv PROVE PongsAnswerPings
    OBVIOUS
  <2>1. /\ pc \in {"read", "deliver", "lock", "write", "fail", "done"}
        /\ Pings \in Nat
    BY CountType, LenProperties
    DEF Pings, TypeOK, EndTypeOK, ReadTypeOK, HandTypeOK
  <2> QED
    BY <2>1 DEF PongInv, PongsAnswerPings
<1> QED
  BY <1>1, InitType, StepType, WireInit, WireStep, PongInit, PongStep, PTL
  DEF Spec

(***************************************************************************)
(* Indices: a set of natural numbers has a least element, and a set of     *)
(* indices a greatest.                                                     *)
(***************************************************************************)

\* A set of numbers has a least one: their order has no infinite descent.
LEMMA Least ==
  ASSUME NEW S, S \subseteq Nat, S # {}
  PROVE  \E x \in S : \A y \in S : x <= y
<1> DEFINE R == {p \in Nat \X Nat : p[1] < p[2]}
<1>1. IsWellFoundedOn(R, Nat)
  BY NatLessThanWellFounded DEF OpToRel
<1> HIDE DEF R
<1>2. PICK x \in S : \A y \in S : <<y, x>> \notin R
  BY <1>1, WFMin
<1>3. \A y \in S : ~ (y < x)
  BY <1>2 DEF R
<1> QED
  BY <1>3

\* What is unique is what Max yields.
LEMMA MaxIs ==
  ASSUME NEW S, S \subseteq Nat, NEW m \in S, \A y \in S : y <= m
  PROVE  Max(S) = m
<1>1. m \in S /\ \A y \in S : m >= y
  OBVIOUS
<1>2. Max(S) \in S /\ \A y \in S : Max(S) >= y
  BY <1>1 DEF Max
<1>3. m \in Nat /\ Max(S) \in Nat /\ Max(S) <= m /\ Max(S) >= m
  BY <1>2
<1> QED
  BY <1>3

LEMMA Greatest ==
  ASSUME NEW n \in Nat, NEW S, S \subseteq 1..n, S # {}
  PROVE  Max(S) \in S /\ \A y \in S : y <= Max(S)
<1> DEFINE T == {d \in Nat : n - d \in S}
<1>1. T # {}
  <2>1. PICK x \in S : TRUE
    OBVIOUS
  <2>2. n - x \in Nat /\ n - (n - x) = x
    OBVIOUS
  <2> QED
    BY <2>1, <2>2
<1>2. PICK d \in T : \A e \in T : d <= e
  BY <1>1, Least
<1>3. n - d \in S
  OBVIOUS
<1>4. ASSUME NEW y \in S PROVE y <= n - d
  <2>1. y \in 1..n
    OBVIOUS
  <2>2. n - y \in Nat /\ n - (n - y) = y
    BY <2>1
  <2>3. d <= n - y /\ d \in Nat
    BY <1>2, <2>2
  <2> QED
    BY <2>1, <2>3
<1>5. Max(S) = n - d
  <2> DEFINE m == n - d
  <2>1. m \in S /\ \A y \in S : y <= m
    BY <1>3, <1>4
  <2> HIDE DEF m
  <2>2. S \subseteq Nat
    OBVIOUS
  <2>3. Max(S) = m
    BY <2>1, <2>2, MaxIs
  <2> QED
    BY <2>3 DEF m
<1> QED
  BY <1>3, <1>4, <1>5

(***************************************************************************)
(* Many sequences joined to one.                                           *)
(***************************************************************************)

\* g[i] is what the first i of ss make, for i up to n.
Runs(ss, n, g) ==
    g = [i \in 1..n |-> IF i = 1 THEN ss[i] ELSE g[i - 1] \o ss[i]]

LEMMA RunsStart ==
  ASSUME NEW ss, NEW n \in Nat, NEW g, Runs(ss, n, g)
  PROVE  \A i \in 1..n : g[i] = IF i = 1 THEN ss[i] ELSE g[i - 1] \o ss[i]
<1> DEFINE e(i) == IF i = 1 THEN ss[i] ELSE g[i - 1] \o ss[i]
<1>1. g = [i \in 1..n |-> e(i)]
  BY DEF Runs
<1> HIDE DEF e
<1>2. \A i \in 1..n : g[i] = e(i)
  BY <1>1
<1> QED
  BY <1>2 DEF e

LEMMA RunsGrow ==
  ASSUME NEW ss, NEW n \in Nat \ {0}, NEW g, Runs(ss, n, g)
  PROVE  \E h : Runs(ss, n + 1, h)
<1> DEFINE h == [i \in 1..(n + 1) |->
                   IF i = n + 1 THEN g[n] \o ss[n + 1] ELSE g[i]]
<1>1. \A i \in 1..(n + 1) : h[i] = IF i = n + 1 THEN g[n] \o ss[n + 1] ELSE g[i]
  OBVIOUS
<1>2. \A i \in 1..n : g[i] = IF i = 1 THEN ss[i] ELSE g[i - 1] \o ss[i]
  BY RunsStart
<1> DEFINE e(i) == IF i = 1 THEN ss[i] ELSE h[i - 1] \o ss[i]
<1>3. DOMAIN h = 1..(n + 1) /\ h = [i \in DOMAIN h |-> h[i]]
  OBVIOUS
<1> HIDE DEF h
<1>4. ASSUME NEW i \in 1..(n + 1) PROVE h[i] = e(i)
  <2>1. CASE i = n + 1
    <3>1. i - 1 = n /\ n \in 1..(n + 1) /\ n # n + 1 /\ i # 1
      BY <2>1
    <3>2. h[i - 1] = g[n]
      BY <1>1, <3>1
    <3> QED
      BY <1>1, <2>1, <3>1, <3>2
  <2>2. CASE i # n + 1
    <3>1. i \in 1..n /\ (i # 1 => i - 1 \in 1..(n + 1) /\ i - 1 # n + 1)
      BY <2>2
    <3> QED
      BY <1>1, <1>2, <2>2, <3>1
  <2> QED
    BY <2>1, <2>2
<1> HIDE DEF e
<1>5. h = [i \in 1..(n + 1) |-> e(i)]
  BY <1>3, <1>4
<1> QED
  BY <1>5 DEF e, Runs

LEMMA RunsExist ==
  ASSUME NEW ss, NEW n \in Nat
  PROVE  \E g : Runs(ss, n, g)
<1>1. \E g : Runs(ss, 0, g)
  <2> DEFINE g == [i \in 1..0 |-> ss]
  <2> DEFINE e(i) == IF i = 1 THEN ss[i] ELSE g[i - 1] \o ss[i]
  <2>1. g = [i \in 1..0 |-> e(i)]
    <3>1. 1..0 = {}
      OBVIOUS
    <3> QED
      BY <3>1
  <2> QED
    BY <2>1 DEF Runs
<1>2. \E g : Runs(ss, 1, g)
  <2> DEFINE g == [i \in 1..1 |-> ss[i]]
  <2> DEFINE e(i) == IF i = 1 THEN ss[i] ELSE g[i - 1] \o ss[i]
  <2>1. \A i \in 1..1 : ss[i] = e(i)
    OBVIOUS
  <2> HIDE DEF e
  <2>2. g = [i \in 1..1 |-> e(i)]
    BY <2>1
  <2> HIDE DEF g
  <2> QED
    BY <2>2 DEF Runs, e
<1> DEFINE none == {k \in Nat : ~\E g : Runs(ss, k, g)}
<1>3. ASSUME none # {} PROVE FALSE
  <2>1. PICK k \in none : \A j \in none : k <= j
    BY <1>3, Least
  <2>2. k \in Nat \ {0, 1}
    BY <1>1, <1>2
  <2>3. k - 1 \in Nat \ {0} /\ k - 1 \notin none /\ (k - 1) + 1 = k
    BY <2>1, <2>2
  <2>4. PICK g : Runs(ss, k - 1, g)
    BY <2>3
  <2>5. \E h : Runs(ss, k, h)
    BY <2>3, <2>4, RunsGrow
  <2> QED
    BY <2>5
<1> QED
  BY <1>3

\* The first n elements of g are those of f.
Alike(f, g, n) == \A i \in 1..n : g[i] = f[i]

\* Sequences that begin alike run alike.
LEMMA RunsAgree ==
  ASSUME NEW ss, NEW tt, NEW n \in Nat, NEW m \in Nat, n <= m,
         Alike(ss, tt, n),
         NEW g, NEW h, Runs(ss, n, g), Runs(tt, m, h)
  PROVE  Alike(g, h, n)
<1> DEFINE apart == {i \in 1..n : h[i] # g[i]}
<1>1. \A i \in 1..n : g[i] = IF i = 1 THEN ss[i] ELSE g[i - 1] \o ss[i]
  BY RunsStart
<1>2. \A i \in 1..m : h[i] = IF i = 1 THEN tt[i] ELSE h[i - 1] \o tt[i]
  BY RunsStart
<1>3. ASSUME apart # {} PROVE FALSE
  <2>1. PICK k \in apart : \A j \in apart : k <= j
    <3>1. apart \subseteq Nat
      OBVIOUS
    <3> HIDE DEF apart
    <3> QED
      BY <1>3, <3>1, Least
  <2>2. k \in 1..n /\ k \in 1..m
    OBVIOUS
  <2>3. k # 1
    BY <1>1, <1>2, <2>2 DEF Alike
  <2>4. k - 1 \in 1..n /\ k - 1 \notin apart
    BY <2>1, <2>2, <2>3
  <2>5. h[k - 1] = g[k - 1]
    BY <2>4
  <2>6. h[k] = g[k]
    BY <1>1, <1>2, <2>2, <2>3, <2>5 DEF Alike
  <2> QED
    BY <2>6
<1> QED
  BY <1>3 DEF Alike

LEMMA FlattenRuns ==
  ASSUME NEW T, NEW ss \in Seq(T), ss # <<>>
  PROVE  \E g : Runs(ss, Len(ss), g) /\ FlattenSeq(ss) = g[Len(ss)]
<1> DEFINE g == CHOOSE g : Runs(ss, Len(ss), g)
<1>1. Len(ss) \in Nat /\ Len(ss) # 0
  BY EmptySeq
<1>2. Runs(ss, Len(ss), g)
  BY <1>1, RunsExist
<1>3. FlattenSeq(ss) = g[Len(ss)]
  BY <1>1 DEF FlattenSeq, Runs
<1> QED
  BY <1>2, <1>3

LEMMA FlattenEmpty == FlattenSeq(<<>>) = <<>>
BY EmptySeq DEF FlattenSeq

LEMMA RunsType ==
  ASSUME NEW T, NEW ss \in Seq(Seq(T)), NEW g, Runs(ss, Len(ss), g)
  PROVE  \A i \in 1..Len(ss) : g[i] \in Seq(T)
<1> DEFINE wrong == {i \in 1..Len(ss) : g[i] \notin Seq(T)}
<1>1. Len(ss) \in Nat /\ \A i \in 1..Len(ss) : ss[i] \in Seq(T)
  BY LenProperties, ElementOfSeq
<1>2. \A i \in 1..Len(ss) : g[i] = IF i = 1 THEN ss[i] ELSE g[i - 1] \o ss[i]
  BY <1>1, RunsStart
<1>3. ASSUME wrong # {} PROVE FALSE
  <2>1. PICK k \in wrong : \A j \in wrong : k <= j
    <3>1. wrong \subseteq Nat
      BY <1>1
    <3> HIDE DEF wrong
    <3> QED
      BY <1>3, <3>1, Least
  <2>2. k \in 1..Len(ss) /\ k # 1
    BY <1>1, <1>2
  <2>3. k - 1 \in 1..Len(ss) /\ ~(k <= k - 1)
    BY <1>1, <2>2
  <2>4. g[k - 1] \in Seq(T)
    BY <2>1, <2>3
  <2>5. g[k] = g[k - 1] \o ss[k]
    BY <1>2, <2>2
  <2> QED
    BY <1>1, <2>2, <2>4, <2>5, ConcatProperties
<1> QED
  BY <1>3

LEMMA FlattenType ==
  ASSUME NEW T, NEW ss \in Seq(Seq(T))
  PROVE  FlattenSeq(ss) \in Seq(T)
<1>1. CASE ss = <<>>
  BY <1>1, FlattenEmpty, EmptySeq
<1>2. CASE ss # <<>>
  <2>1. PICK g : Runs(ss, Len(ss), g) /\ FlattenSeq(ss) = g[Len(ss)]
    BY <1>2, FlattenRuns
  <2>2. Len(ss) \in 1..Len(ss)
    BY <1>2, EmptySeq
  <2> QED
    BY <2>1, <2>2, RunsType
<1> QED
  BY <1>1, <1>2

\* A sequence joined behind others.
LEMMA FlattenMore ==
  ASSUME NEW T, NEW ss \in Seq(Seq(T)), NEW s \in Seq(T)
  PROVE  FlattenSeq(Append(ss, s)) = FlattenSeq(ss) \o s
<1> DEFINE tt == Append(ss, s)
<1> DEFINE n == Len(ss)
<1>1. /\ tt \in Seq(Seq(T)) /\ tt # <<>> /\ n \in Nat /\ Len(tt) = n + 1
      /\ tt[n + 1] = s /\ \A i \in 1..n : tt[i] = ss[i]
  BY AppendProperties, LenProperties
<1>2. ss = <<>> <=> n = 0
  BY EmptySeq
<1> HIDE DEF tt
<1>3. PICK h : Runs(tt, n + 1, h) /\ FlattenSeq(tt) = h[n + 1]
  BY <1>1, FlattenRuns
<1>4. h[n + 1] = IF n + 1 = 1 THEN tt[n + 1] ELSE h[(n + 1) - 1] \o tt[n + 1]
  <2>1. \A i \in 1..(n + 1) :
           h[i] = IF i = 1 THEN tt[i] ELSE h[i - 1] \o tt[i]
    BY <1>1, <1>3, RunsStart
  <2>2. n + 1 \in 1..(n + 1)
    BY <1>1
  <2> QED
    BY <2>1, <2>2
<1>5. CASE n = 0
  <2>1. FlattenSeq(tt) = s
    BY <1>1, <1>3, <1>4, <1>5
  <2>2. FlattenSeq(ss) = <<>>
    BY <1>2, <1>5, FlattenEmpty
  <2> QED
    BY <2>1, <2>2, ConcatEmptySeq DEF tt
<1>6. CASE n # 0
  <2>1. PICK g : Runs(ss, n, g) /\ FlattenSeq(ss) = g[n]
    BY <1>2, <1>6, FlattenRuns
  <2>2. \A i \in 1..n : h[i] = g[i]
    <3> DEFINE m == n + 1
    <3>1. n \in Nat /\ m \in Nat /\ n <= m /\ Alike(ss, tt, n)
      BY <1>1 DEF Alike
    <3>2. Runs(ss, n, g) /\ Runs(tt, m, h)
      BY <1>3, <2>1
    <3> HIDE DEF n, m
    <3>3. Alike(g, h, n)
      BY <3>1, <3>2, RunsAgree
    <3> QED
      BY <3>3 DEF Alike
  <2>3. h[n] = g[n] /\ (n + 1) - 1 = n /\ n + 1 # 1
    BY <1>1, <1>6, <2>2
  <2> QED
    BY <1>1, <1>3, <1>4, <2>1, <2>3 DEF tt
<1> QED
  BY <1>5, <1>6

LEMMA FlattenOne ==
  ASSUME NEW T, NEW s \in Seq(T)
  PROVE  FlattenSeq(<<s>>) = s
<1>1. <<>> \in Seq(Seq(T)) /\ Append(<<>>, s) = <<s>>
  OBVIOUS
<1>2. FlattenSeq(<<s>>) = FlattenSeq(<<>>) \o s
  BY <1>1, FlattenMore
<1> QED
  BY <1>2, FlattenEmpty, ConcatEmptySeq


\* ... and the first before the others.
Unfolds(ss) == FlattenSeq(ss) = Head(ss) \o FlattenSeq(Tail(ss))

LEMMA UnfoldsMore ==
  ASSUME NEW T, NEW ss \in Seq(Seq(T)), ss = <<>> \/ Unfolds(ss),
         NEW s \in Seq(T)
  PROVE  Unfolds(Append(ss, s))
<1> DEFINE tt == Append(ss, s)
<1>1. FlattenSeq(tt) = FlattenSeq(ss) \o s
  BY FlattenMore
<1>2. /\ Head(tt) = IF ss = <<>> THEN s ELSE Head(ss)
      /\ Tail(tt) = IF ss = <<>> THEN <<>> ELSE Append(Tail(ss), s)
  BY HeadTailAppend
<1> HIDE DEF tt
<1>3. CASE ss = <<>>
  <2>1. FlattenSeq(tt) = s
    BY <1>1, <1>3, FlattenEmpty, ConcatEmptySeq
  <2>2. Head(tt) \o FlattenSeq(Tail(tt)) = s
    BY <1>2, <1>3, FlattenEmpty, ConcatEmptySeq
  <2> QED
    BY <2>1, <2>2 DEF Unfolds, tt
<1>4. CASE ss # <<>>
  <2> DEFINE a == Head(ss)
  <2> DEFINE b == FlattenSeq(Tail(ss))
  <2>1. a \in Seq(T) /\ Tail(ss) \in Seq(Seq(T))
    BY <1>4, HeadTailProperties
  <2>2. b \in Seq(T) /\ FlattenSeq(Append(Tail(ss), s)) = b \o s
    BY <2>1, FlattenType, FlattenMore
  <2>3. FlattenSeq(ss) = a \o b
    BY <1>4 DEF Unfolds
  <2>4. Head(tt) = a /\ FlattenSeq(Tail(tt)) = b \o s
    BY <1>2, <1>4, <2>2
  <2> HIDE DEF a, b
  <2>5. (a \o b) \o s = a \o (b \o s)
    BY <2>1, <2>2, ConcatAssociative
  <2> QED
    BY <1>1, <2>3, <2>4, <2>5 DEF Unfolds, tt
<1> QED
  BY <1>3, <1>4

LEMMA FlattenFirst ==
  ASSUME NEW T, NEW ss \in Seq(Seq(T)), ss # <<>>
  PROVE  FlattenSeq(ss) = Head(ss) \o FlattenSeq(Tail(ss))
<1> DEFINE wrong ==
      {k \in Nat : \E tt \in Seq(Seq(T)) :
                      tt # <<>> /\ ~Unfolds(tt) /\ k = Len(tt)}
<1>1. ASSUME wrong # {} PROVE FALSE
  <2>1. PICK k \in wrong : \A j \in wrong : k <= j
    <3>1. wrong \subseteq Nat
      OBVIOUS
    <3> HIDE DEF wrong
    <3> QED
      BY <1>1, <3>1, Least
  <2>2. PICK tt \in Seq(Seq(T)) : tt # <<>> /\ ~Unfolds(tt) /\ k = Len(tt)
    OBVIOUS
  <2>3. PICK uu \in Seq(Seq(T)), e \in Seq(T) : tt = Append(uu, e)
    BY <2>2, SequenceEmptyOrAppend
  <2>4. Len(uu) \in Nat /\ Len(tt) = Len(uu) + 1
    BY <2>3, AppendProperties, LenProperties
  <2>5. Len(uu) \notin wrong
    <3>1. ~(k <= Len(uu))
      BY <2>2, <2>4
    <3> HIDE DEF wrong
    <3> QED
      BY <2>1, <3>1
  <2>6. uu = <<>> \/ Unfolds(uu)
    BY <2>4, <2>5
  <2> HIDE DEF wrong
  <2>7. Unfolds(tt)
    BY <2>3, <2>6, UnfoldsMore
  <2> QED
    BY <2>2, <2>7
<1>2. Len(ss) \in Nat
  BY LenProperties
<1> QED
  BY <1>1, <1>2 DEF Unfolds

LEMMA ChunkSteps ==
  ASSUME NEW n \in Nat \ {0}, NEW size \in Nat \ {0}
  PROVE  LET count == (n + size - 1) \div size
         IN /\ count \in Nat \ {0}
            /\ count * size >= n
            /\ \A i \in 2..count : (i - 1) * size \in Nat /\ (i - 1) * size < n
<1> DEFINE count == (n + size - 1) \div size
<1>1. count \in Nat /\ count # 0 /\ \A i \in 1..count : (i - 1) * size < n
  BY ChunkCount
<1>2. count * size >= n
  OBVIOUS
<1> HIDE DEF count
<1>3. \A i \in 2..count : i \in 1..count /\ (i - 1) * size \in Nat
  BY <1>1
<1> QED
  BY <1>1, <1>2, <1>3 DEF count

\* The chunks of a payload make the payload.
LEMMA ChunksJoin ==
  ASSUME NEW p \in Payload, NEW size \in Nat \ {0}
  PROVE  FlattenSeq(Chunks(p, size)) = p
<1> DEFINE n == Len(p)
<1> DEFINE count == (n + size - 1) \div size
<1> DEFINE to(i) == IF i * size < n THEN i * size ELSE n
<1> DEFINE chunks == Chunks(p, size)
<1>1. n \in Nat /\ p \in Seq(Unit)
  BY LenProperties DEF Payload
<1>2. chunks \in Seq(Payload) /\ (chunks = <<>> <=> p = <<>>)
  BY ChunksType
<1>3. CASE p = <<>>
  BY <1>2, <1>3, FlattenEmpty
<1>4. CASE p # <<>>
  <2>1. n \in Nat \ {0}
    BY <1>1, <1>4, EmptySeq
  <2>2. /\ count \in Nat \ {0} /\ count * size >= n
        /\ \A i \in 2..count : (i - 1) * size \in Nat /\ (i - 1) * size < n
    BY <2>1, ChunkSteps
  <2>3. chunks = [i \in 1..count |-> SubSeq(p, (i - 1) * size + 1, to(i))]
    BY DEF Chunks
  <2> HIDE DEF n, count, chunks
  <2> DEFINE c(i) == SubSeq(p, (i - 1) * size + 1, to(i))
  <2>4. Len(chunks) = count /\ \A i \in 1..count : chunks[i] = c(i)
    <3>1. chunks = [i \in 1..count |-> c(i)]
      BY <2>3
    <3> HIDE DEF c
    <3>2. \A i \in 1..count : chunks[i] = c(i)
      BY <3>1
    <3>3. DOMAIN chunks = 1..count /\ DOMAIN chunks = 1..Len(chunks)
      BY <1>2, <3>1, LenProperties
    <3>4. Len(chunks) \in Nat
      BY <1>2, LenProperties
    <3> QED
      BY <2>2, <3>2, <3>3, <3>4
  <2>5. PICK g : Runs(chunks, count, g) /\ FlattenSeq(chunks) = g[count]
    BY <1>2, <1>4, <2>4, FlattenRuns
  <2>6. \A i \in 1..count :
           g[i] = IF i = 1 THEN chunks[i] ELSE g[i - 1] \o chunks[i]
    BY <2>2, <2>5, RunsStart
  <2> DEFINE wrong == {i \in 1..count : g[i] # SubSeq(p, 1, to(i))}
  <2>7. ASSUME wrong # {} PROVE FALSE
    <3>1. PICK k \in wrong : \A j \in wrong : k <= j
      <4>1. wrong \subseteq Nat
        BY <2>2
      <4> HIDE DEF wrong
      <4> QED
        BY <2>7, <4>1, Least
    <3>2. k \in 1..count /\ g[k] # SubSeq(p, 1, to(k))
      OBVIOUS
    <3>3. k # 1
      <4>1. ASSUME k = 1 PROVE FALSE
        <5>1. (k - 1) * size + 1 = 1
          BY <4>1
        <5>2. g[k] = SubSeq(p, (k - 1) * size + 1, to(k))
          BY <2>4, <2>6, <3>2, <4>1
        <5> QED
          BY <3>2, <5>1, <5>2
      <4> QED
        BY <4>1
    <3> DEFINE m == (k - 1) * size
    <3>4. k \in 2..count /\ k - 1 \in 1..count /\ ~(k <= k - 1)
      BY <2>2, <3>2, <3>3
    <3>5. m \in Nat /\ m < n
      BY <2>2, <3>4
    <3>6. k * size = m + size
      BY <3>4
    <3>7. to(k - 1) = m /\ to(k) \in m..n
      <4> HIDE DEF m
      <4>1. to(k) \in m..n
        BY <2>1, <3>5, <3>6
      <4> QED
        BY <3>5, <4>1 DEF m
    <3>8. g[k - 1] = SubSeq(p, 1, m)
      <4>1. k - 1 \notin wrong
        BY <3>1, <3>4
      <4> QED
        BY <3>4, <3>7, <4>1
    <3>9. g[k] = SubSeq(p, 1, m) \o SubSeq(p, m + 1, to(k))
      BY <2>4, <2>6, <3>2, <3>3, <3>8
    <3>10. SubSeq(p, 1, m) \o SubSeq(p, m + 1, to(k)) = SubSeq(p, 1, to(k))
      <4> DEFINE e == to(k)
      <4>1. 1 \in 1..(Len(p) + 1) /\ m \in (1 - 1)..Len(p) /\ e \in m..Len(p)
        BY <2>1, <3>5, <3>7 DEF n
      <4> HIDE DEF m, e
      <4>2. SubSeq(p, 1, m) \o SubSeq(p, m + 1, e) = SubSeq(p, 1, e)
        BY <1>1, <4>1, ConcatAdjacentSubSeq
      <4> QED
        BY <4>2 DEF e
    <3> QED
      BY <3>2, <3>9, <3>10
  <2>8. g[count] = SubSeq(p, 1, to(count))
    <3>1. count \in 1..count
      BY <2>2
    <3> QED
      BY <2>7, <3>1
  <2>9. to(count) = n
    BY <2>1, <2>2
  <2> QED
    BY <1>1, <2>5, <2>8, <2>9, SubSeqFull DEF chunks, n
<1> QED
  BY <1>3, <1>4

(***************************************************************************)
(* What one more frame changes in the meaning of those before it: nothing; *)
(* and what it adds.                                                       *)
(***************************************************************************)

\* f is the last frame of a message.
Final(f) == f.op \notin Control /\ f.fin

LEMMA EndsAppend ==
  ASSUME NEW fs \in Seq(RawFrame), NEW f \in RawFrame
  PROVE  /\ Ends(fs) \subseteq 1..Len(fs) /\ IsFiniteSet(Ends(fs))
         /\ Ends(Append(fs, f)) =
              Ends(fs) \cup (IF Final(f) THEN {Len(fs) + 1} ELSE {})
<1> DEFINE gs == Append(fs, f)
<1> DEFINE n == Len(fs)
<1>1. /\ n \in Nat /\ Len(gs) = n + 1
      /\ gs[n + 1] = f /\ \A i \in 1..n : gs[i] = fs[i]
  BY Appended
<1>2. Ends(fs) \subseteq 1..n
  BY DEF Ends
<1>3. IsFiniteSet(Ends(fs))
  <2>1. IsFiniteSet(1..n) /\ Ends(fs) \in SUBSET (1..n)
    BY <1>1, <1>2, FS_Interval
  <2> QED
    BY <2>1, FS_Subset
<1> HIDE DEF gs
<1>4. 1..(n + 1) = (1..n) \cup {n + 1}
  BY <1>1
<1>5. Ends(gs) = Ends(fs) \cup (IF Final(f) THEN {n + 1} ELSE {})
  BY <1>1, <1>4 DEF Ends, Final
<1> QED
  BY <1>2, <1>3, <1>5 DEF gs

\* Counting a finite set of indices: what lies beyond adds nothing, and one
\* index more adds one.
LEMMA OneMore ==
  ASSUME NEW S, IsFiniteSet(S), NEW x, x \notin S, NEW b \in BOOLEAN
  PROVE  /\ Cardinality(S) \in Nat
         /\ Cardinality(S \cup (IF b THEN {x} ELSE {}))
              = Cardinality(S) + IF b THEN 1 ELSE 0
<1>1. Cardinality(S) \in Nat
  BY FS_CardinalityType
<1>2. CASE b
  <2>1. Cardinality(S \cup {x}) = Cardinality(S) + 1
    BY FS_AddElement
  <2> QED
    BY <1>1, <1>2, <2>1
<1>3. CASE ~b
  <2>1. S \cup (IF b THEN {x} ELSE {}) = S
    BY <1>3
  <2> QED
    BY <1>1, <1>3, <2>1
<1> QED
  BY <1>2, <1>3

LEMMA FinishedType ==
  ASSUME NEW fs \in Seq(RawFrame), NEW n \in 0..Len(fs)
  PROVE  /\ Finished(fs, n) \in Nat
         /\ Finished(fs, n) <= Finished(fs, Len(fs))
         /\ n \in Ends(fs) => Finished(fs, n) # 0
<1> DEFINE S == {e \in Ends(fs) : e <= n}
<1> DEFINE T == {e \in Ends(fs) : e <= Len(fs)}
<1>1. Len(fs) \in Nat
  BY LenProperties
<1>2. Ends(fs) \subseteq 1..Len(fs) /\ IsFiniteSet(Ends(fs))
  <2>1. IsFiniteSet(1..Len(fs)) /\ Ends(fs) \in SUBSET (1..Len(fs))
    BY <1>1, FS_Interval DEF Ends
  <2> QED
    BY <2>1, FS_Subset
<1>3. S \in SUBSET T /\ T \in SUBSET Ends(fs)
  BY <1>1, <1>2
<1>4. n \in Ends(fs) => S # {}
  BY <1>1
<1>5. Finished(fs, n) = Cardinality(S) /\ Finished(fs, Len(fs)) = Cardinality(T)
  BY DEF Finished
<1> HIDE DEF S, T
<1>6. IsFiniteSet(T) /\ IsFiniteSet(S)
  BY <1>2, <1>3, FS_Subset
<1>7. Cardinality(S) \in Nat /\ Cardinality(S) <= Cardinality(T)
  BY <1>3, <1>6, FS_Subset, FS_CardinalityType
<1>8. Cardinality(S) = 0 => S = {}
  BY <1>6, FS_EmptySet
<1> QED
  BY <1>4, <1>5, <1>7, <1>8

LEMMA FinishedAppend ==
  ASSUME NEW fs \in Seq(RawFrame), NEW f \in RawFrame
  PROVE  /\ \A m \in 0..Len(fs) :
               Finished(Append(fs, f), m) = Finished(fs, m)
         /\ Finished(Append(fs, f), Len(fs) + 1)
              = Finished(fs, Len(fs)) + IF Final(f) THEN 1 ELSE 0
<1> DEFINE gs == Append(fs, f)
<1> DEFINE n == Len(fs)
<1>1. n \in Nat
  BY LenProperties
<1>2. /\ Ends(fs) \subseteq 1..n /\ IsFiniteSet(Ends(fs))
      /\ Ends(gs) = Ends(fs) \cup (IF Final(f) THEN {n + 1} ELSE {})
  BY EndsAppend
<1> HIDE DEF gs, n
<1>3. ASSUME NEW m \in 0..n PROVE Finished(gs, m) = Finished(fs, m)
  <2>1. {e \in Ends(gs) : e <= m} = {e \in Ends(fs) : e <= m}
    BY <1>1, <1>2
  <2> QED
    BY <2>1 DEF Finished
<1>4. /\ {e \in Ends(gs) : e <= n + 1} = Ends(gs)
      /\ {e \in Ends(fs) : e <= n} = Ends(fs)
  BY <1>1, <1>2
<1>5. n + 1 \notin Ends(fs) /\ Final(f) \in BOOLEAN
  BY <1>1, <1>2 DEF Final, RawFrame
<1>6. Cardinality(Ends(gs)) = Cardinality(Ends(fs)) + IF Final(f) THEN 1 ELSE 0
  BY <1>2, <1>5, OneMore
<1> QED
  BY <1>3, <1>4, <1>6 DEF gs, n, Finished

LEMMA StartOfAppend ==
  ASSUME NEW fs \in Seq(RawFrame), NEW f \in RawFrame
  PROVE  /\ \A e \in 1..Len(fs) :
               /\ StartOf(fs, e) \in 1..e
               /\ StartOf(Append(fs, f), e) = StartOf(fs, e)
         /\ StartOf(Append(fs, f), Len(fs) + 1) =
              IF f.op \in Data \/ fs = <<>> THEN Len(fs) + 1
              ELSE StartOf(fs, Len(fs))
<1> DEFINE gs == Append(fs, f)
<1> DEFINE n == Len(fs)
<1>1. /\ n \in Nat /\ (fs = <<>> <=> n = 0)
      /\ gs[n + 1] = f /\ \A i \in 1..n : gs[i] = fs[i]
  BY Appended, EmptySeq
<1> HIDE DEF gs, n
<1>2. ASSUME NEW e \in 1..n
      PROVE  StartOf(fs, e) \in 1..e /\ StartOf(gs, e) = StartOf(fs, e)
  <2> DEFINE S == {1} \cup {i \in 1..e : fs[i].op \in Data}
  <2>1. S = {1} \cup {i \in 1..e : gs[i].op \in Data}
    BY <1>1
  <2>2. S \subseteq 1..e /\ S # {} /\ e \in Nat
    BY <1>1
  <2>3. StartOf(fs, e) = Max(S)
    BY DEF StartOf
  <2>4. StartOf(gs, e) = Max(S)
    BY <2>1 DEF StartOf
  <2> HIDE DEF S
  <2> QED
    BY <2>2, <2>3, <2>4, Greatest
<1> DEFINE D == {1} \cup {i \in 1..(n + 1) : gs[i].op \in Data}
<1>3. StartOf(gs, n + 1) = Max(D)
  BY DEF StartOf
<1>4. D \subseteq 1..(n + 1)
  BY <1>1
<1>5. CASE f.op \in Data \/ n = 0
  <2> DEFINE m == n + 1
  <2>1. m \in D /\ D \subseteq Nat /\ \A y \in D : y <= m
    BY <1>1, <1>4, <1>5
  <2> HIDE DEF D, m
  <2>2. Max(D) = m
    BY <2>1, MaxIs
  <2> QED
    BY <1>1, <1>2, <1>3, <1>5, <2>2 DEF gs, n, m
<1>6. CASE f.op \notin Data /\ n # 0
  <2>1. 1..(n + 1) = (1..n) \cup {n + 1}
    BY <1>1
  <2>2. D = {1} \cup {i \in 1..n : fs[i].op \in Data}
    BY <1>1, <1>6, <2>1
  <2>3. Max(D) = StartOf(fs, n)
    BY <2>2 DEF StartOf
  <2> QED
    BY <1>1, <1>2, <1>3, <1>6, <2>3 DEF gs, n
<1> QED
  BY <1>5, <1>6

LEMMA CarriedType ==
  ASSUME NEW f \in RawFrame
  PROVE  Carried(f) \in Payload
BY EmptyPayload DEF Carried, RawFrame

LEMMA JoinedType ==
  ASSUME NEW fs \in Seq(RawFrame),
         NEW first \in Nat \ {0}, NEW last \in 0..Len(fs), first <= last + 1
  PROVE  LET parts == [j \in 1..(last - first + 1) |->
                         Carried(fs[first + j - 1])]
         IN /\ parts \in Seq(Payload)
            /\ Len(parts) = last - first + 1
            /\ Joined(fs, first, last) = FlattenSeq(parts)
            /\ Joined(fs, first, last) \in Payload
<1> DEFINE part(j) == Carried(fs[first + j - 1])
<1> DEFINE n == last - first + 1
<1> DEFINE parts == [j \in 1..n |-> part(j)]
<1>1. Len(fs) \in Nat /\ n \in Nat
  BY LenProperties
<1>2. ASSUME NEW j \in 1..n PROVE part(j) \in Payload
  <2>1. first + j - 1 \in 1..Len(fs)
    BY <1>1
  <2> QED
    BY <2>1, CarriedType, ElementOfSeq
<1> HIDE DEF part, n
<1>3. parts \in Seq(Payload) /\ Len(parts) = n
  BY <1>1, <1>2
<1>4. Joined(fs, first, last) = FlattenSeq(parts)
  BY DEF Joined, parts, part, n
<1> HIDE DEF parts
<1>5. FlattenSeq(parts) \in Payload
  BY <1>3, FlattenType DEF Payload
<1> QED
  BY <1>3, <1>4, <1>5 DEF parts, part, n

LEMMA JoinedAppend ==
  ASSUME NEW fs \in Seq(RawFrame), NEW f \in RawFrame
  PROVE  /\ \A last \in 1..Len(fs) : \A first \in 1..last :
               Joined(Append(fs, f), first, last) = Joined(fs, first, last)
         /\ \A first \in 1..Len(fs) :
               Joined(Append(fs, f), first, Len(fs) + 1)
                 = Joined(fs, first, Len(fs)) \o Carried(f)
         /\ Joined(Append(fs, f), Len(fs) + 1, Len(fs) + 1) = Carried(f)
<1> DEFINE gs == Append(fs, f)
<1> DEFINE n == Len(fs)
<1>1. /\ gs \in Seq(RawFrame) /\ n \in Nat /\ Len(gs) = n + 1
      /\ gs[n + 1] = f /\ \A i \in 1..n : gs[i] = fs[i]
  BY Appended
<1> HIDE DEF gs
<1>2. ASSUME NEW last \in 1..n, NEW first \in 1..last
      PROVE  Joined(gs, first, last) = Joined(fs, first, last)
  <2>1. \A j \in 1..(last - first + 1) : first + j - 1 \in 1..n
    BY <1>1
  <2>2. \A j \in 1..(last - first + 1) :
           Carried(gs[first + j - 1]) = Carried(fs[first + j - 1])
    BY <1>1, <2>1
  <2>3. [j \in 1..(last - first + 1) |-> Carried(gs[first + j - 1])]
          = [j \in 1..(last - first + 1) |-> Carried(fs[first + j - 1])]
    BY <2>2
  <2> QED
    BY <2>3 DEF Joined
<1>3. ASSUME NEW first \in 1..(n + 1)
      PROVE  Joined(gs, first, n + 1) = Joined(fs, first, n) \o Carried(f)
  <2> DEFINE old == [j \in 1..(n - first + 1) |-> Carried(fs[first + j - 1])]
  <2> DEFINE new == [j \in 1..((n + 1) - first + 1) |->
                        Carried(gs[first + j - 1])]
  <2>1. /\ first \in Nat \ {0} /\ n \in 0..Len(fs) /\ first <= n + 1
        /\ n + 1 \in 0..Len(gs) /\ first <= (n + 1) + 1
    BY <1>1
  <2>2. /\ old \in Seq(Payload) /\ Len(old) = n - first + 1
        /\ Joined(fs, first, n) = FlattenSeq(old)
    BY <2>1, JoinedType
  <2>3. /\ new \in Seq(Payload) /\ Len(new) = (n + 1) - first + 1
        /\ Joined(gs, first, n + 1) = FlattenSeq(new)
    BY <1>1, <2>1, JoinedType
  <2>4. Carried(f) \in Payload
    BY CarriedType
  <2>5. new = Append(old, Carried(f))
    <3> DEFINE app == Append(old, Carried(f))
    <3> DEFINE k == n - first + 1
    <3>1. /\ k \in Nat
          /\ (n + 1) - first + 1 = k + 1
          /\ first + (k + 1) - 1 = n + 1
      BY <1>1
    <3>2. \A j \in 1..(k + 1) : new[j] = Carried(gs[first + j - 1])
      BY <3>1
    <3>3. \A j \in 1..k : old[j] = Carried(fs[first + j - 1])
      OBVIOUS
    <3>4. \A j \in 1..k : first + j - 1 \in 1..n
      BY <1>1
    <3> HIDE DEF old, new
    <3>5. /\ app \in Seq(Payload) /\ Len(app) = k + 1
          /\ app[k + 1] = Carried(f) /\ \A j \in 1..k : app[j] = old[j]
      BY <2>2, <2>4, AppendProperties
    <3> HIDE DEF app
    <3>6. ASSUME NEW j \in 1..(k + 1) PROVE new[j] = app[j]
      <4>1. CASE j = k + 1
        BY <1>1, <3>1, <3>2, <3>5, <4>1
      <4>2. CASE j # k + 1
        <5>1. j \in 1..k
          BY <3>1, <4>2
        <5> QED
          BY <1>1, <3>2, <3>3, <3>4, <3>5, <5>1
      <4> QED
        BY <4>1, <4>2
    <3>7. Len(new) = k + 1
      BY <2>3, <3>1
    <3>8. new = app
      BY <2>3, <3>5, <3>6, <3>7, SeqEqual
    <3> QED
      BY <3>8 DEF app
  <2> HIDE DEF old, new
  <2>6. FlattenSeq(new) = FlattenSeq(old) \o Carried(f)
    BY <2>2, <2>4, <2>5, FlattenMore DEF Payload
  <2> QED
    BY <2>2, <2>3, <2>6
<1>4. Joined(gs, n + 1, n + 1) = Carried(f)
  <2>1. Joined(gs, n + 1, n + 1) = Joined(fs, n + 1, n) \o Carried(f)
    BY <1>1, <1>3
  <2>2. Joined(fs, n + 1, n) = <<>>
    <3>1. n - (n + 1) + 1 = 0 /\ 1..0 = {}
      BY <1>1
    <3>2. [j \in 1..(n - (n + 1) + 1) |-> Carried(fs[(n + 1) + j - 1])] = <<>>
      BY <3>1
    <3> QED
      BY <3>2, FlattenEmpty DEF Joined
  <2>3. Carried(f) \in Seq(Unit)
    BY CarriedType DEF Payload
  <2> QED
    BY <2>1, <2>2, <2>3, ConcatEmptySeq
<1>5. \A first \in 1..n : first \in 1..(n + 1)
  BY <1>1
<1> QED
  BY <1>2, <1>3, <1>4, <1>5 DEF gs

\* The frames up to e mean what they meant.
LEMMA MeaningKept ==
  ASSUME NEW fs \in Seq(RawFrame), NEW f \in RawFrame, NEW e \in 1..Len(fs)
  PROVE  /\ Kind(Append(fs, f), e) = Kind(fs, e)
         /\ Compressed(Append(fs, f), e) = Compressed(fs, e)
         /\ Bytes(Append(fs, f), e) = Bytes(fs, e)
         /\ Bytes(fs, e) \in Payload
         /\ Compressed(fs, e) \in BOOLEAN
<1> DEFINE gs == Append(fs, f)
<1> DEFINE s == StartOf(fs, e)
<1>1. /\ Len(fs) \in Nat /\ \A i \in 1..Len(fs) : gs[i] = fs[i]
  BY Appended
<1>2. s \in 1..e /\ StartOf(gs, e) = s
  BY StartOfAppend
<1>3. Joined(gs, s, e) = Joined(fs, s, e)
  BY <1>2, JoinedAppend
<1> HIDE DEF gs, s
<1>4. s \in 1..Len(fs) /\ gs[s] = fs[s] /\ fs[s] \in RawFrame
  <2>1. s \in 1..Len(fs)
    BY <1>1, <1>2
  <2> QED
    BY <1>1, <2>1, ElementOfSeq
<1>5. Joined(fs, s, e) \in Payload
  <2>1. s \in Nat \ {0} /\ e \in 0..Len(fs) /\ s <= e + 1
    BY <1>1, <1>2
  <2> QED
    BY <2>1, JoinedType
<1>6. Kind(gs, e) = Kind(fs, e)
  BY <1>2, <1>4 DEF Kind, s
<1>7. Compressed(gs, e) = Compressed(fs, e) /\ Compressed(fs, e) \in BOOLEAN
  BY <1>2, <1>4 DEF Compressed, s, RawFrame
<1>8. Bytes(gs, e) = Bytes(fs, e) /\ Bytes(fs, e) \in Payload
  BY <1>2, <1>3, <1>5 DEF Bytes, s
<1> QED
  BY <1>6, <1>7, <1>8 DEF gs

\* A frame with an opcode of its own begins a message ...
LEMMA MeaningBegins ==
  ASSUME NEW fs \in Seq(RawFrame), NEW f \in RawFrame, f.op \in Data
  PROVE  /\ Kind(Append(fs, f), Len(fs) + 1) = f.op
         /\ Compressed(Append(fs, f), Len(fs) + 1) = f.rsv1
         /\ Bytes(Append(fs, f), Len(fs) + 1) = f.payload
<1> DEFINE gs == Append(fs, f)
<1>1. gs[Len(fs) + 1] = f
  BY Appended
<1>2. StartOf(gs, Len(fs) + 1) = Len(fs) + 1
  BY StartOfAppend
<1>3. Joined(gs, Len(fs) + 1, Len(fs) + 1) = Carried(f)
  BY JoinedAppend
<1>4. Carried(f) = f.payload
  BY DEF Carried, Data, Control
<1> QED
  BY <1>1, <1>2, <1>3, <1>4 DEF Kind, Compressed, Bytes

\* ... and any other belongs to the one before it.
LEMMA MeaningGoesOn ==
  ASSUME NEW fs \in Seq(RawFrame), NEW f \in RawFrame, fs # <<>>,
         f.op \notin Data
  PROVE  /\ Kind(Append(fs, f), Len(fs) + 1) = Kind(fs, Len(fs))
         /\ Compressed(Append(fs, f), Len(fs) + 1) = Compressed(fs, Len(fs))
         /\ Bytes(Append(fs, f), Len(fs) + 1) = Bytes(fs, Len(fs)) \o Carried(f)
<1> DEFINE gs == Append(fs, f)
<1> DEFINE n == Len(fs)
<1> DEFINE s == StartOf(fs, n)
<1>1. n \in Nat \ {0} /\ \A i \in 1..n : gs[i] = fs[i]
  BY Appended, EmptySeq
<1>2. n \in 1..n
  BY <1>1
<1>3. s \in 1..n /\ StartOf(gs, n + 1) = s
  BY <1>2, StartOfAppend
<1>4. Joined(gs, s, n + 1) = Joined(fs, s, n) \o Carried(f)
  BY <1>3, JoinedAppend
<1>5. gs[s] = fs[s]
  BY <1>1, <1>3
<1> HIDE DEF gs, n, s
<1> QED
  BY <1>3, <1>4, <1>5 DEF Kind, Compressed, Bytes, gs, n, s

LEMMA BehindAppend ==
  ASSUME NEW fs \in Seq(RawFrame), NEW f \in RawFrame
  PROVE  /\ \A e \in 1..(Len(fs) + 1) :
               /\ Behind(fs, e) \in Nat
               /\ Behind(Append(fs, f), e) = Behind(fs, e)
         /\ Behind(Append(fs, f), Len(fs) + 2)
              = Behind(fs, Len(fs) + 1)
                  + IF Final(f) /\ Compressed(Append(fs, f), Len(fs) + 1)
                    THEN 1 ELSE 0
<1> DEFINE gs == Append(fs, f)
<1> DEFINE n == Len(fs)
<1> DEFINE b == Final(f) /\ Compressed(gs, n + 1)
<1>1. n \in Nat /\ (fs = <<>> <=> n = 0)
  BY LenProperties, EmptySeq
<1>2. /\ Ends(fs) \subseteq 1..n /\ IsFiniteSet(Ends(fs))
      /\ Ends(gs) = Ends(fs) \cup (IF Final(f) THEN {n + 1} ELSE {})
  BY EndsAppend
<1>3. \A d \in 1..n : Compressed(gs, d) = Compressed(fs, d)
  BY MeaningKept
<1> HIDE DEF gs, n, b
<1>4. ASSUME NEW e \in 1..(n + 1)
      PROVE  Behind(fs, e) \in Nat /\ Behind(gs, e) = Behind(fs, e)
  <2> DEFINE S == {d \in Ends(fs) : d < e /\ Compressed(fs, d)}
  <2>1. S = {d \in Ends(gs) : d < e /\ Compressed(gs, d)}
    BY <1>1, <1>2, <1>3
  <2>2. S \in SUBSET Ends(fs)
    OBVIOUS
  <2>3. Behind(fs, e) = Cardinality(S) /\ Behind(gs, e) = Cardinality(S)
    BY <2>1 DEF Behind
  <2> HIDE DEF S
  <2>4. IsFiniteSet(S)
    BY <1>2, <2>2, FS_Subset
  <2> QED
    BY <2>3, <2>4, FS_CardinalityType
<1>5. Behind(gs, n + 2) = Behind(fs, n + 1) + IF b THEN 1 ELSE 0
  <2> DEFINE S == {d \in Ends(fs) : d < n + 1 /\ Compressed(fs, d)}
  <2> DEFINE T == {d \in Ends(gs) : d < n + 2 /\ Compressed(gs, d)}
  <2>1. T = S \cup (IF b THEN {n + 1} ELSE {})
    <3>1. ASSUME NEW d PROVE d \in T <=> d \in S \/ (b /\ d = n + 1)
      <4>1. CASE d \in 1..n
        BY <1>1, <1>2, <1>3, <4>1
      <4>2. CASE d = n + 1
        BY <1>1, <1>2, <4>2 DEF b
      <4>3. CASE d \notin 1..n /\ d # n + 1
        BY <1>1, <1>2, <4>3
      <4> QED
        BY <4>1, <4>2, <4>3
    <3> QED
      BY <3>1
  <2>2. S \in SUBSET Ends(fs) /\ n + 1 \notin S
    BY <1>1, <1>2
  <2>3. Behind(fs, n + 1) = Cardinality(S) /\ Behind(gs, n + 2) = Cardinality(T)
    BY DEF Behind
  <2> HIDE DEF S, T
  <2>4. IsFiniteSet(S)
    BY <1>2, <2>2, FS_Subset
  <2>5. Cardinality(S \cup (IF b THEN {n + 1} ELSE {}))
          = Cardinality(S) + IF b THEN 1 ELSE 0
    <3>1. CASE b
      BY <2>2, <2>4, <3>1, FS_AddElement
    <3>2. CASE ~b
      <4>1. Cardinality(S) \in Nat
        BY <2>4, FS_CardinalityType
      <4>2. S \cup (IF b THEN {n + 1} ELSE {}) = S
        BY <3>2
      <4> QED
        BY <3>2, <4>1, <4>2
    <3> QED
      BY <3>1, <3>2
  <2> QED
    BY <2>1, <2>3, <2>5
<1> QED
  BY <1>4, <1>5 DEF gs, n, b

\* The window of a coder that has followed fs, and whether all that is
\* compressed in fs makes sense to it.
Expected(fs, kept) == IF kept THEN Behind(fs, Len(fs) + 1) ELSE 0
Sensible(fs, kept) == Meaningful(fs, Len(fs), kept)

LEMMA MeaningfulAppend ==
  ASSUME NEW fs \in Seq(RawFrame), NEW f \in RawFrame, NEW kept
  PROVE  /\ \A m \in 0..Len(fs) :
               Meaningful(Append(fs, f), m, kept) <=> Meaningful(fs, m, kept)
         /\ Sensible(Append(fs, f), kept) <=>
               /\ Sensible(fs, kept)
               /\ Final(f) /\ Compressed(Append(fs, f), Len(fs) + 1) =>
                     Makes(Bytes(Append(fs, f), Len(fs) + 1), kept,
                           Behind(fs, Len(fs) + 1))
<1> DEFINE gs == Append(fs, f)
<1> DEFINE n == Len(fs)
<1>1. n \in Nat /\ Len(gs) = n + 1
  BY Appended
<1>2. /\ Ends(fs) \subseteq 1..n
      /\ Ends(gs) = Ends(fs) \cup (IF Final(f) THEN {n + 1} ELSE {})
  BY EndsAppend
<1>3. \A e \in 1..n : /\ Compressed(gs, e) = Compressed(fs, e)
                      /\ Bytes(gs, e) = Bytes(fs, e)
                      /\ Behind(gs, e) = Behind(fs, e)
  <2>1. \A e \in 1..n : e \in 1..(n + 1)
    BY <1>1
  <2> QED
    BY <2>1, MeaningKept, BehindAppend
<1>4. Behind(gs, n + 1) = Behind(fs, n + 1)
  <2>1. n + 1 \in 1..(n + 1)
    BY <1>1
  <2> QED
    BY <2>1, BehindAppend
<1> HIDE DEF gs, n
<1> DEFINE Ok(ts, e) ==
      Compressed(ts, e) => Makes(Bytes(ts, e), kept, Behind(ts, e))
<1>5. \A e \in 1..n : Ok(gs, e) <=> Ok(fs, e)
  BY <1>3
<1>6. \A ts, m : Meaningful(ts, m, kept) <=>
                   \A e \in Ends(ts) : e <= m => Ok(ts, e)
  BY DEF Meaningful
<1> HIDE DEF Ok
<1>7. ASSUME NEW m \in 0..n
      PROVE  Meaningful(gs, m, kept) <=> Meaningful(fs, m, kept)
  BY <1>1, <1>2, <1>5, <1>6
<1>8. Meaningful(gs, n + 1, kept) <=>
        Meaningful(fs, n, kept) /\ (Final(f) => Ok(gs, n + 1))
  BY <1>1, <1>2, <1>5, <1>6
<1>9. Sensible(gs, kept) <=>
        /\ Sensible(fs, kept)
        /\ Final(f) /\ Compressed(gs, n + 1) =>
              Makes(Bytes(gs, n + 1), kept, Behind(fs, n + 1))
  BY <1>1, <1>4, <1>8 DEF Sensible, Ok, n
<1> QED
  BY <1>7, <1>9 DEF gs, n

\* ... and so do the messages.
LEMMA MessagesKept ==
  ASSUME NEW fs \in Seq(RawFrame), NEW f \in RawFrame, NEW e \in 1..Len(fs),
         NEW kept
  PROVE  MessageAt(Append(fs, f), e, kept) = MessageAt(fs, e, kept)
<1>1. e \in 0..Len(fs)
  BY LenProperties
<1>2. Meaningful(Append(fs, f), e, kept) <=> Meaningful(fs, e, kept)
  BY <1>1, MeaningfulAppend
<1> QED
  BY <1>2, MeaningKept DEF MessageAt

(***************************************************************************)
(* What the read task has understood.  While it goes on, its buffer holds  *)
(* the message in progress, and its decoder is where a sender that marks   *)
(* its frames as RFC 7692 asks has left it, as long as all that was        *)
(* compressed made sense.                                                  *)
(***************************************************************************)
Kept == ~ResetsDecoder

InProgress(fs, f) ==
    /\ f.kind = Kind(fs, Len(fs))
    /\ f.compressed = Compressed(fs, Len(fs))
    /\ f.payload = Bytes(fs, Len(fs))

Followed(fs, fragment, w) ==
    /\ fragment # None => fs # <<>> /\ InProgress(fs, fragment)
    /\ Sensible(fs, Kept) => w = Expected(fs, Kept)

DecoderInv ==
    pc \notin {"fail", "done"} /\ MarkedOnlyFirst(taken) =>
        Followed(taken, frag, window)

LEMMA MarkedAppend ==
  ASSUME NEW fs \in Seq(RawFrame), NEW f \in RawFrame
  PROVE  MarkedOnlyFirst(Append(fs, f)) <=>
           MarkedOnlyFirst(fs) /\ (f.rsv1 => f.op \in Data)
<1> DEFINE gs == Append(fs, f)
<1>1. /\ Len(fs) \in Nat /\ Len(gs) = Len(fs) + 1
      /\ gs[Len(fs) + 1] = f /\ \A i \in 1..Len(fs) : gs[i] = fs[i]
  BY Appended
<1> HIDE DEF gs
<1>2. 1..(Len(fs) + 1) = (1..Len(fs)) \cup {Len(fs) + 1}
  BY <1>1
<1>3. MarkedOnlyFirst(gs) <=> MarkedOnlyFirst(fs) /\ (f.rsv1 => f.op \in Data)
  BY <1>1, <1>2 DEF MarkedOnlyFirst
<1> QED
  BY <1>3 DEF gs

\* A decoder in the window its peer compressed in reads what was meant.
LEMMA DecompressMade ==
  ASSUME NEW bytes \in Payload, NEW b \in Nat, Makes(bytes, Kept, b),
         NEW d \in Decompress(bytes, IF Kept THEN b ELSE 0)
  PROVE  /\ d.bytes = bytes[1].of
         /\ d.window = IF Kept THEN b + 1 ELSE 0
<1> DEFINE w == IF Kept THEN b ELSE 0
<1>1. w \in Nat /\ w # Astray
  BY DEF Astray
<1>2. Readable(bytes, w)
  BY <1>1 DEF Makes, Readable
<1>3. Decompressions(bytes, w) = {bytes[1].of}
  BY <1>2 DEF Decompressions
<1>4. NextWindow(bytes, w) = IF Kept THEN b + 1 ELSE 0
  BY <1>2 DEF NextWindow, Kept
<1> HIDE DEF w
<1>5. PICK p \in Decompressions(bytes, w) :
        d = [bytes |-> p, window |-> NextWindow(bytes, w)]
  BY DEF Decompress, w
<1> QED
  BY <1>3, <1>4, <1>5

\* A frame that ends no message moves no window.
LEMMA FollowedInside ==
  ASSUME NEW fs \in Seq(RawFrame), NEW f \in RawFrame, ~Final(f),
         NEW w, Sensible(fs, Kept) => w = Expected(fs, Kept)
  PROVE  LET gs == Append(fs, f)
         IN Sensible(gs, Kept) => w = Expected(gs, Kept)
<1> DEFINE gs == Append(fs, f)
<1> DEFINE n == Len(fs)
<1>1. n \in Nat /\ Len(gs) = n + 1 /\ (n + 1) + 1 = n + 2
  BY Appended
<1>2. Sensible(gs, Kept) => Sensible(fs, Kept)
  BY MeaningfulAppend
<1>3. n + 1 \in 1..(n + 1)
  BY <1>1
<1>4. /\ Behind(gs, n + 2) = Behind(fs, n + 1) + 0
      /\ Behind(fs, n + 1) \in Nat
  BY <1>3, BehindAppend
<1>5. Expected(gs, Kept) = Expected(fs, Kept)
  BY <1>1, <1>4 DEF Expected
<1> QED
  BY <1>2, <1>5

\* What read_frame or poll_messages make of the last frame of a message: the
\* message that the frames carry, if they carry one.
Inflated(compressed, bytes, w) ==
    IF compressed THEN Decompress(bytes, w)
                  ELSE {[bytes |-> bytes, window |-> w]}

LEMMA FollowedToEnd ==
  ASSUME NEW fs \in Seq(RawFrame), NEW f \in RawFrame, Final(f),
         NEW w, Sensible(fs, Kept) => w = Expected(fs, Kept),
         NEW bytes \in Payload, NEW compressed, NEW kind,
         bytes = Bytes(Append(fs, f), Len(fs) + 1),
         compressed = Compressed(Append(fs, f), Len(fs) + 1),
         kind = Kind(Append(fs, f), Len(fs) + 1),
         NEW d \in Inflated(compressed, bytes, w)
  PROVE  LET gs == Append(fs, f)
         IN /\ Sensible(gs, Kept) => d.window = Expected(gs, Kept)
            /\ Carries(MessageAt(gs, Len(gs), Kept),
                       [kind |-> kind, data |-> d.bytes])
<1> DEFINE gs == Append(fs, f)
<1> DEFINE n == Len(fs)
<1> DEFINE b == Behind(fs, n + 1)
<1>1. n \in Nat /\ Len(gs) = n + 1 /\ (n + 1) + 1 = n + 2
  BY Appended
<1>2. n + 1 \in 1..(n + 1)
  BY <1>1
<1>3. /\ Behind(gs, n + 2) = b + IF compressed THEN 1 ELSE 0
      /\ b \in Nat
  BY <1>2, BehindAppend
<1>4. Sensible(gs, Kept) <=>
        Sensible(fs, Kept) /\ (compressed => Makes(bytes, Kept, b))
  BY MeaningfulAppend
<1>5. /\ Expected(fs, Kept) = IF Kept THEN b ELSE 0
      /\ Expected(gs, Kept) = IF Kept THEN Behind(gs, n + 2) ELSE 0
  BY <1>1 DEF Expected
<1>6. MessageAt(gs, n + 1, Kept) =
        [kind |-> kind,
         data |-> IF ~compressed THEN bytes
                  ELSE IF Sensible(gs, Kept) THEN bytes[1].of
                  ELSE Unreadable]
  BY <1>1 DEF MessageAt, Sensible
<1> HIDE DEF gs, n, b
<1>7. CASE ~compressed
  <2>1. d = [bytes |-> bytes, window |-> w]
    BY <1>7 DEF Inflated
  <2>2. Expected(gs, Kept) = Expected(fs, Kept)
    BY <1>3, <1>5, <1>7
  <2>3. Sensible(gs, Kept) => d.window = Expected(gs, Kept)
    BY <1>4, <2>1, <2>2
  <2>4. Carries(MessageAt(gs, n + 1, Kept), [kind |-> kind, data |-> d.bytes])
    BY <1>6, <1>7, <2>1 DEF Carries
  <2> QED
    BY <1>1, <2>3, <2>4 DEF gs, n
<1>8. CASE compressed
  <2>1. d \in Decompress(bytes, w)
    BY <1>8 DEF Inflated
  <2>2. ASSUME Sensible(gs, Kept)
        PROVE  d.bytes = bytes[1].of /\ d.window = Expected(gs, Kept)
    <3>1. Makes(bytes, Kept, b) /\ w = IF Kept THEN b ELSE 0
      BY <1>4, <1>5, <1>8, <2>2
    <3>2. d.bytes = bytes[1].of /\ d.window = IF Kept THEN b + 1 ELSE 0
      BY <1>3, <2>1, <3>1, DecompressMade
    <3> QED
      BY <1>3, <1>5, <1>8, <3>2
  <2>3. Carries(MessageAt(gs, n + 1, Kept), [kind |-> kind, data |-> d.bytes])
    BY <1>6, <1>8, <2>2 DEF Carries
  <2> QED
    BY <1>1, <2>2, <2>3 DEF gs, n
<1>9. compressed \in BOOLEAN
  <2>1. gs \in Seq(RawFrame) /\ n + 1 \in 1..Len(gs)
    BY <1>1, Appended DEF gs
  <2> QED
    BY <2>1, <1>1, MeaningKept DEF gs, n
<1> QED
  BY <1>7, <1>8, <1>9

\* What comes of a frame: a failure; more of a message, or a reply; or the
\* message that it ends.
Advances(f) ==
    \/ pc' = "fail"
    \/ /\ pc' \in {"read", "lock"} /\ ~Final(f)
       /\ Followed(Append(taken, f), frag', window')
    \/ /\ pc' = "deliver" /\ Final(f)
       /\ Followed(Append(taken, f), frag', window')
       /\ Carries(MessageAt(Append(taken, f), Len(taken) + 1, Kept), hand')

LEMMA TransmitAdvances ==
  ASSUME taken \in Seq(RawFrame), NEW f \in RawFrame, Final(f),
         NEW kind, NEW bytes \in Payload,
         kind = Kind(Append(taken, f), Len(taken) + 1),
         bytes = Bytes(Append(taken, f), Len(taken) + 1),
         Sensible(taken, Kept) => window = Expected(taken, Kept),
         NEW d \in Inflated(Compressed(Append(taken, f), Len(taken) + 1),
                            bytes, window),
         Transmit(kind, d.bytes), window' = d.window, frag' = None
  PROVE  Advances(f)
<1> DEFINE gs == Append(taken, f)
<1>1. Len(gs) = Len(taken) + 1
  BY Appended
<1>2. /\ Sensible(gs, Kept) => d.window = Expected(gs, Kept)
      /\ Carries(MessageAt(gs, Len(gs), Kept),
                 [kind |-> kind, data |-> d.bytes])
  BY FollowedToEnd
<1>3. \/ pc' = "fail"
      \/ pc' = "deliver" /\ hand' = [kind |-> kind, data |-> d.bytes]
  BY DEF Transmit, Fail
<1>4. Followed(gs, frag', window')
  BY <1>2 DEF Followed
<1> QED
  BY <1>1, <1>2, <1>3, <1>4 DEF Advances

LEMMA ReadAdvances ==
  ASSUME TypeOK, DecoderInv, ReadFrame,
         MarkedOnlyFirst(Append(taken, Head(inbox)))
  PROVE  Advances(Head(inbox))
<1> DEFINE f == Head(inbox)
<1> DEFINE gs == Append(taken, f)
<1> DEFINE n == Len(taken)
<1>1. /\ pc = "read" /\ f \in RawFrame /\ taken \in Seq(RawFrame)
      /\ frag \in {None} \cup Fragmented /\ window \in Window
      /\ f.payload \in Payload
  <2>1. /\ pc = "read" /\ f \in RawFrame /\ taken \in Seq(RawFrame)
        /\ frag \in {None} \cup Fragmented /\ window \in Window
    BY HeadTailProperties
    DEF ReadFrame, TypeOK, EndTypeOK, LinkTypeOK, ReadTypeOK
  <2> HIDE DEF f
  <2> QED
    BY <2>1 DEF RawFrame
<1> HIDE DEF f
<1>2. /\ MarkedOnlyFirst(taken) /\ (f.rsv1 => f.op \in Data)
      /\ n \in Nat /\ Len(gs) = n + 1
  <2>1. MarkedOnlyFirst(gs)
    BY DEF f
  <2> QED
    BY <1>1, <2>1, MarkedAppend, Appended
<1>3. /\ frag # None => taken # <<>> /\ InProgress(taken, frag)
      /\ Sensible(taken, Kept) => window = Expected(taken, Kept)
  BY <1>1, <1>2 DEF DecoderInv, Followed
<1>4. None \notin Fragmented
  BY NoneAssumption
<1>5. ASSUME ~Final(f) PROVE Sensible(gs, Kept) => window = Expected(gs, Kept)
  BY <1>1, <1>3, <1>5, FollowedInside
<1>6. ASSUME NEW r \in Body(f), ~f.rsv1 \/ ~f.fin
      PROVE  r.bytes = f.payload /\ r.window = window
  BY <1>6 DEF Body, Verbatim
<1>7. ASSUME f.op \notin Data, frag # None
      PROVE  /\ Kind(gs, n + 1) = frag.kind
             /\ Compressed(gs, n + 1) = frag.compressed
             /\ Bytes(gs, n + 1) = frag.payload \o Carried(f)
  BY <1>1, <1>3, <1>7, MeaningGoesOn DEF InProgress
<1>8. ASSUME RejectHeader(f) \/ PayloadMissing(f) \/ PayloadUnreadable(f)
      PROVE  pc' = "fail"
  BY <1>8 DEF RejectHeader, PayloadMissing, PayloadUnreadable, Fail
<1>9. ASSUME NEW r \in Body(f), StartMessage(f, r) PROVE Advances(f)
  <2>1. /\ f.op \in Data /\ ~f.fin /\ ~Final(f)
        /\ pc' = "read" /\ r.bytes = f.payload /\ window' = window
        /\ frag' = [kind |-> f.op, payload |-> f.payload, compressed |-> f.rsv1]
    BY <1>1, <1>6, <1>9 DEF StartMessage, Starts, Final
  <2>2. InProgress(gs, frag')
    BY <1>1, <1>2, <2>1, MeaningBegins DEF InProgress
  <2>3. gs # <<>>
    BY <1>1, AppendProperties
  <2> QED
    BY <1>5, <2>1, <2>2, <2>3 DEF Advances, Followed
<1>10. ASSUME NEW r \in Body(f), ContinueMessage(f, r) PROVE Advances(f)
  <2>1. CASE Fail("MaxMessageSize")
    BY <2>1 DEF Fail, Advances
  <2>2. CASE ~Fail("MaxMessageSize")
    <3>1. /\ f.op = "Continue" /\ frag # None /\ ~f.fin /\ pc' = "read"
          /\ frag' = [frag EXCEPT !.payload = Grown(r.bytes)]
          /\ window' = r.window
      BY <1>1, <1>10, <2>2 DEF ContinueMessage, Continues
    <3>2. /\ f.op \notin Data /\ ~Final(f) /\ frag \in Fragmented
          /\ r.bytes = f.payload /\ window' = window
          /\ Carried(f) = f.payload
      BY <1>1, <1>6, <3>1 DEF Data, Final, Carried, Control
    <3>3. /\ frag'.kind = frag.kind /\ frag'.compressed = frag.compressed
          /\ frag'.payload = frag.payload \o f.payload
      BY <3>1, <3>2 DEF Fragmented, Grown
    <3>4. InProgress(gs, frag')
      BY <1>2, <1>7, <3>1, <3>2, <3>3 DEF InProgress
    <3>5. gs # <<>>
      BY <1>1, AppendProperties
    <3> QED
      BY <1>5, <3>1, <3>2, <3>4, <3>5 DEF Advances, Followed
  <2> QED
    BY <2>1, <2>2
<1>11. ASSUME NEW r \in Body(f), FinishMessage(f, r) PROVE Advances(f)
  <2>1. f.op = "Continue" /\ frag # None /\ f.fin /\ frag' = None
    BY <1>11 DEF FinishMessage, Continues
  <2>2. /\ f.op \notin Data /\ Final(f) /\ frag \in Fragmented
        /\ r.bytes = f.payload /\ r.window = window
        /\ Carried(f) = f.payload
    BY <1>1, <1>2, <1>6, <2>1 DEF Data, Final, Carried, Control
  <2> DEFINE bytes == frag.payload \o f.payload
  <2>3. /\ Kind(gs, n + 1) = frag.kind
        /\ Compressed(gs, n + 1) = frag.compressed
        /\ Bytes(gs, n + 1) = bytes
        /\ Grown(r.bytes) = bytes
    BY <1>7, <2>1, <2>2 DEF Grown
  <2>4. bytes \in Payload
    BY <1>1, <2>2, ConcatProperties DEF Payload, Fragmented
  <2> HIDE DEF bytes
  <2>5. CASE ~frag.compressed
    <3> DEFINE d == [bytes |-> bytes, window |-> window]
    <3>1. d \in Inflated(Compressed(gs, n + 1), bytes, window)
      BY <2>3, <2>5 DEF Inflated
    <3>2. Transmit(frag.kind, d.bytes) /\ window' = d.window
      BY <1>11, <2>2, <2>3, <2>5 DEF FinishMessage
    <3> HIDE DEF d
    <3> QED
      BY <1>1, <1>3, <2>1, <2>2, <2>3, <2>4, <3>1, <3>2, TransmitAdvances
  <2>6. CASE frag.compressed
    <3>1. PICK d \in Decompress(bytes, window) :
            /\ window' = d.window
            /\ Fail("DecompressError") \/ Transmit(frag.kind, d.bytes)
      BY <1>11, <2>2, <2>3, <2>6 DEF FinishMessage
    <3>2. d \in Inflated(Compressed(gs, n + 1), bytes, window)
      BY <2>3, <2>6 DEF Inflated
    <3>3. CASE Fail("DecompressError")
      BY <3>3 DEF Fail, Advances
    <3>4. CASE Transmit(frag.kind, d.bytes)
      BY <1>1, <1>3, <2>1, <2>2, <2>3, <2>4, <3>1, <3>2, <3>4,
        TransmitAdvances
    <3> QED
      BY <3>1, <3>3, <3>4
  <2> QED
    BY <2>5, <2>6
<1>12. ASSUME NEW r \in Body(f), WholeMessage(f, r) PROVE Advances(f)
  <2>1. /\ f.op \in Data /\ f.fin /\ Final(f) /\ frag' = None
        /\ Transmit(f.op, r.bytes) /\ window' = r.window
    BY <1>12 DEF WholeMessage, Stands, Final, Data, Control
  <2>2. /\ Kind(gs, n + 1) = f.op /\ Compressed(gs, n + 1) = f.rsv1
        /\ Bytes(gs, n + 1) = f.payload
    BY <1>1, <2>1, MeaningBegins
  <2>3. r \in Inflated(Compressed(gs, n + 1), f.payload, window)
    BY <2>1, <2>2 DEF Body, Verbatim, Inflated
  <2> QED
    BY <1>1, <1>3, <2>1, <2>2, <2>3, TransmitAdvances
<1>13. ASSUME NEW r \in Body(f), RefuseFrame(f, r) PROVE pc' = "fail"
  BY <1>13 DEF RefuseFrame, Fail
<1>14. ASSUME NEW r \in Body(f),
              AnswerClose(f, r) \/ AnswerPing(f, r) \/ IgnorePong(f, r)
       PROVE  Advances(f)
  <2>1. /\ f.op \in Control /\ frag' = frag /\ window' = r.window
        /\ pc' \in {"read", "lock"}
    BY <1>1, <1>14 DEF AnswerClose, AnswerPing, IgnorePong, Reply, Control
  <2>2. f.op \notin Data /\ ~Final(f) /\ window' = window /\ Carried(f) = <<>>
    BY <1>2, <1>6, <2>1 DEF Data, Control, Final, Carried
  <2>3. frag # None => InProgress(gs, frag')
    <3>1. ASSUME frag # None PROVE frag.payload \o <<>> = frag.payload
      BY <1>1, <3>1, ConcatEmptySeq DEF Fragmented, Payload
    <3> QED
      BY <1>2, <1>7, <2>1, <2>2, <3>1 DEF InProgress
  <2>4. gs # <<>>
    BY <1>1, AppendProperties
  <2> QED
    BY <1>5, <2>1, <2>2, <2>3, <2>4 DEF Advances, Followed
<1>15. pc' = "fail" => Advances(f)
  BY DEF Advances
<1> QED
  BY <1>8, <1>9, <1>10, <1>11, <1>12, <1>13, <1>14, <1>15 DEF ReadFrame, f

LEMMA DecoderInit == Init => DecoderInv
<1> SUFFICES ASSUME Init PROVE DecoderInv
  OBVIOUS
<1>1. taken = <<>> /\ Len(taken) = 0 /\ frag = None /\ window = 0
  BY EmptySeq DEF Init, EndInit, ReadInit
<1>2. Behind(taken, 0 + 1) = 0
  <2>1. Ends(taken) = {}
    BY <1>1 DEF Ends
  <2>2. {d \in Ends(taken) : d < 0 + 1 /\ Compressed(taken, d)} = {}
    BY <2>1
  <2> QED
    BY <2>2, FS_EmptySet DEF Behind
<1> QED
  BY <1>1, <1>2 DEF DecoderInv, Followed, Expected

LEMMA DecoderStep == TypeOK /\ DecoderInv /\ [Next]_vars => DecoderInv'
<1> SUFFICES ASSUME TypeOK, DecoderInv, [Next]_vars PROVE DecoderInv'
  OBVIOUS
<1>1. ASSUME ReadFrame, taken' = Append(taken, Head(inbox))
      PROVE  DecoderInv'
  <2>1. MarkedOnlyFirst(taken') => Advances(Head(inbox))
    BY <1>1, ReadAdvances
  <2> QED
    BY <1>1, <2>1 DEF DecoderInv, Advances
<1> DEFINE Goes == pc \notin {"fail", "done"} \/ pc' \in {"fail", "done"}
<1>2. ASSUME Goes, UNCHANGED <<frag, window, taken>> PROVE DecoderInv'
  BY <1>2 DEF DecoderInv
<1>3. ASSUME Await PROVE Goes /\ UNCHANGED <<frag, window>>
  <2>1. Goes
    BY <1>3, AwaitCases
  <2>2. UNCHANGED <<frag, window>>
    BY <1>3
    DEF Await, Disconnected, EndOfInput, Deliver, DeliverRefused,
      LockForReply, WriteReply, ReplyFails, ReportFailure
  <2> QED
    BY <2>1, <2>2
<1>4. ASSUME NextItem \/ NextNone \/ DropReader
      PROVE  UNCHANGED <<pc, frag, window>>
  BY <1>4 DEF NextItem, NextNone, DropReader, readVars
<1>5. pc' = pc => Goes
  OBVIOUS
<1> HIDE DEF Goes
<1> QED
  BY <1>1, <1>2, <1>3, <1>4, <1>5, StepCases

(***************************************************************************)
(* Blame.  An error that accuses the peer, of a breach of protocol or of   *)
(* bytes that mean nothing, is made of a frame that was the last to be     *)
(* read, and nothing is read after it.                                     *)
(***************************************************************************)
Sound(fs) == MarkedOnlyFirst(fs) /\ Sensible(fs, Kept)

Justified(item, fs) ==
    IsErr(item) =>
        /\ item.error \in ProtocolError => ~Allowed(fs)
        /\ item.error = "DecompressError" => ~Sound(fs)
AllJustified(items, fs) == \A i \in 1..Len(items) : Justified(items[i], fs)

BlameInv ==
    /\ pc = "fail" => Justified(hand, taken)
    /\ AllJustified(chan, taken)
    /\ AllJustified(got, taken)

LEMMA BlameInit == Init => BlameInv
<1> SUFFICES ASSUME Init PROVE BlameInv
  OBVIOUS
<1>1. pc = "read" /\ chan = <<>> /\ got = <<>> /\ Len(<<>>) = 0
  BY EmptySeq DEF Init, EndInit, LinkInit, ReadInit
<1> QED
  BY <1>1 DEF BlameInv, AllJustified

LEMMA JustifiedAppend ==
  ASSUME NEW items \in Seq(Item), NEW item \in Item, NEW fs,
         AllJustified(items, fs), Justified(item, fs)
  PROVE  AllJustified(Append(items, item), fs)
<1>1. Len(items) \in Nat
  BY LenProperties
<1>2. /\ Len(Append(items, item)) = Len(items) + 1
      /\ \A i \in 1..Len(items) : Append(items, item)[i] = items[i]
      /\ Append(items, item)[Len(items) + 1] = item
  BY AppendProperties
<1> QED
  BY <1>1, <1>2 DEF AllJustified

LEMMA JustifiedTail ==
  ASSUME NEW items \in Seq(Item), items # <<>>, NEW fs,
         AllJustified(items, fs)
  PROVE  /\ Justified(Head(items), fs)
         /\ AllJustified(Tail(items), fs)
<1>1. Len(items) \in Nat \ {0} /\ Head(items) = items[1]
  BY EmptySeq
<1>2. /\ Len(Tail(items)) = Len(items) - 1
      /\ \A i \in 1..Len(Tail(items)) : Tail(items)[i] = items[i + 1]
  BY HeadTailProperties
<1>3. \A i \in 1..Len(Tail(items)) : i + 1 \in 1..Len(items)
  BY <1>1, <1>2
<1> QED
  BY <1>1, <1>2, <1>3 DEF AllJustified

LEMMA UnreadableIsNoPayload == ASSUME NEW p \in Payload PROVE p # Unreadable
BY UnreadableAssumption DEF Payload

\* What the last frame of fs completes makes sense to a decoder that has
\* followed the frames before it.
LEMMA InflatesSense ==
  ASSUME NEW fs \in Seq(RawFrame), NEW f \in RawFrame, Final(f),
         Sensible(Append(fs, f), Kept),
         Compressed(Append(fs, f), Len(fs) + 1),
         NEW bytes \in Payload, bytes = Bytes(Append(fs, f), Len(fs) + 1),
         NEW d \in Decompress(bytes, Expected(fs, Kept))
  PROVE  d.bytes # Unreadable
<1> DEFINE b == Behind(fs, Len(fs) + 1)
<1>1. Makes(bytes, Kept, b)
  BY MeaningfulAppend
<1>2. b \in Nat
  <2>1. Len(fs) \in Nat /\ Len(fs) + 1 \in 1..(Len(fs) + 1)
    BY LenProperties
  <2> QED
    BY <2>1, BehindAppend
<1>3. Expected(fs, Kept) = IF Kept THEN b ELSE 0
  BY DEF Expected
<1> HIDE DEF b
<1>4. d.bytes = bytes[1].of
  BY <1>1, <1>2, <1>3, DecompressMade
<1>5. bytes[1].of \in Seq(Byte)
  BY <1>1 DEF Makes, IsDeflated, DeflateUnit
<1> QED
  BY <1>4, <1>5, BytesArePayloads, UnreadableAssumption

\* No decoder gives up on what was compressed for its window: neither that
\* of read_frame ...
LEMMA InflatesOne ==
  ASSUME TypeOK, DecoderInv, pc = "read", NEW f \in RawFrame,
         Sound(Append(taken, f)), NEW r \in Body(f)
  PROVE  r.bytes # Unreadable
<1>1. taken \in Seq(RawFrame) /\ f.payload \in Payload
  BY DEF TypeOK, EndTypeOK, RawFrame
<1>2. /\ MarkedOnlyFirst(taken) /\ (f.rsv1 => f.op \in Data)
      /\ Sensible(taken, Kept)
  BY <1>1, MarkedAppend, MeaningfulAppend DEF Sound
<1>3. window = Expected(taken, Kept)
  BY <1>2 DEF DecoderInv, Followed
<1>4. CASE ~(f.rsv1 /\ f.fin)
  BY <1>1, <1>4, UnreadableIsNoPayload DEF Body, Verbatim
<1>5. CASE f.rsv1 /\ f.fin
  <2>1. /\ Final(f) /\ Compressed(Append(taken, f), Len(taken) + 1)
        /\ Bytes(Append(taken, f), Len(taken) + 1) = f.payload
    BY <1>1, <1>2, <1>5, MeaningBegins DEF Final, Data, Control
  <2>2. r \in Decompress(f.payload, window)
    BY <1>5 DEF Body
  <2> QED
    BY <1>1, <1>3, <2>1, <2>2, InflatesSense DEF Sound
<1> QED
  BY <1>4, <1>5

\* ... nor that of poll_messages.
LEMMA InflatesAll ==
  ASSUME TypeOK, DecoderInv, NEW f \in RawFrame, Sound(Append(taken, f)),
         NEW r \in Body(f), FinishMessage(f, r), frag.compressed,
         NEW d \in Decompress(Grown(r.bytes), r.window)
  PROVE  d.bytes # Unreadable
<1>1. /\ taken \in Seq(RawFrame) /\ f.payload \in Payload
      /\ frag \in {None} \cup Fragmented
  BY DEF TypeOK, EndTypeOK, ReadTypeOK, RawFrame
<1>2. /\ MarkedOnlyFirst(taken) /\ (f.rsv1 => f.op \in Data)
      /\ Sensible(taken, Kept)
  BY <1>1, MarkedAppend, MeaningfulAppend DEF Sound
<1>3. /\ pc = "read" /\ f.op = "Continue" /\ f.fin
      /\ frag # None /\ frag \in Fragmented
  BY <1>1 DEF FinishMessage, Receive, Take, Continues
<1>4. /\ window = Expected(taken, Kept)
      /\ taken # <<>> /\ InProgress(taken, frag)
  BY <1>2, <1>3 DEF DecoderInv, Followed
<1>5. f.op \notin Data /\ Final(f) /\ Carried(f) = f.payload
  BY <1>3 DEF Data, Final, Carried, Control
<1>6. r.bytes = f.payload /\ r.window = window
  BY <1>2, <1>5 DEF Body, Verbatim
<1>7. /\ Compressed(Append(taken, f), Len(taken) + 1)
      /\ Bytes(Append(taken, f), Len(taken) + 1) = Grown(r.bytes)
  BY <1>1, <1>4, <1>5, <1>6, MeaningGoesOn DEF InProgress, Grown
<1>8. Grown(r.bytes) \in Payload
  BY <1>1, <1>3, <1>6, ConcatProperties DEF Grown, Payload, Fragmented
<1> QED
  BY <1>1, <1>4, <1>5, <1>6, <1>7, <1>8, InflatesSense DEF Sound

LEMMA ReadFailure ==
  ASSUME TypeOK, DecoderInv, ReadFrame, pc' = "fail",
         Sound(Append(taken, Head(inbox)))
  PROVE  hand'.error # "DecompressError"
<1> DEFINE f == Head(inbox)
<1>1. pc = "read" /\ f \in RawFrame
  BY HeadTailProperties DEF ReadFrame, TypeOK, EndTypeOK, LinkTypeOK
<1> HIDE DEF f
<1>2. ASSUME NEW e, Fail(e), e # "DecompressError"
      PROVE  hand'.error # "DecompressError"
  BY <1>2 DEF Fail, Err
<1>3. \A r \in Body(f) : r.bytes # Unreadable
  BY <1>1, InflatesOne DEF f
<1>4. ~PayloadUnreadable(f)
  BY <1>3 DEF PayloadUnreadable
<1>5. ASSUME RejectHeader(f) PROVE hand'.error # "DecompressError"
  <2>1. Fail(HeaderError(f)) /\ HeaderError(f) # "DecompressError"
    BY <1>5, NoneAssumption DEF RejectHeader, HeaderError, Error
  <2> QED
    BY <1>2, <2>1
<1>6. ASSUME PayloadMissing(f) PROVE hand'.error # "DecompressError"
  BY <1>2, <1>6 DEF PayloadMissing
<1>7. ASSUME NEW kind, NEW bytes, Transmit(kind, bytes)
      PROVE  hand'.error # "DecompressError"
  BY <1>2, <1>7 DEF Transmit
<1>8. ASSUME NEW r \in Body(f), ContinueMessage(f, r)
      PROVE  hand'.error # "DecompressError"
  BY <1>1, <1>2, <1>8 DEF ContinueMessage
<1>9. ASSUME NEW r \in Body(f), FinishMessage(f, r)
      PROVE  hand'.error # "DecompressError"
  <2>1. \E bytes : Transmit(frag.kind, bytes)
    <3>1. CASE ~frag.compressed
      BY <1>9, <3>1 DEF FinishMessage
    <3>2. CASE frag.compressed
      BY <1>1, <1>9, <3>2, InflatesAll DEF FinishMessage, f
    <3> QED
      BY <3>1, <3>2
  <2> QED
    BY <1>7, <2>1
<1>10. ASSUME NEW r \in Body(f), WholeMessage(f, r)
       PROVE  hand'.error # "DecompressError"
  BY <1>7, <1>10 DEF WholeMessage
<1>11. ASSUME NEW r \in Body(f), RefuseFrame(f, r)
       PROVE  hand'.error # "DecompressError"
  <2>1. Fail(FramingError(f)) /\ FramingError(f) # "DecompressError"
    BY <1>11 DEF RefuseFrame, FramingError
  <2> QED
    BY <1>2, <2>1
<1>12. ASSUME NEW r \in Body(f),
              StartMessage(f, r) \/ AnswerClose(f, r) \/ AnswerPing(f, r)
                \/ IgnorePong(f, r)
       PROVE  pc' # "fail"
  BY <1>1, <1>12
  DEF StartMessage, AnswerClose, AnswerPing, IgnorePong, Reply
<1> QED
  BY <1>4, <1>5, <1>6, <1>8, <1>9, <1>10, <1>11, <1>12 DEF ReadFrame, f

LEMMA BlameRead ==
  ASSUME TypeOK, ErrorInv, FramingInv, DecoderInv, ReadFrame, got' = got,
         taken' = Append(taken, Head(inbox))
  PROVE  BlameInv'
<1> DEFINE f == Head(inbox)
<1>1. /\ pc = "read" /\ f \in RawFrame /\ taken \in Seq(RawFrame)
      /\ frag # None <=> Unfinished(taken, Len(taken))
      /\ Refused(f) \/ pc' # "fail"
      /\ chan' = chan
  BY FramesAreUnderstood
  DEF FramingInv, TypeOK, Absorbed, ClosesWith, PongsWith, ReadFrame
<1>2. taken' = Append(taken, f)
  OBVIOUS
<1> HIDE DEF f
<1>3. AllJustified(chan, taken') /\ AllJustified(got, taken')
  BY <1>1 DEF ErrorInv, ErrorFree, AllJustified, Justified
<1>4. ASSUME Refused(f)
      PROVE  /\ IsErr(hand')
             /\ hand'.error \in ProtocolError => ~Allowed(taken')
  <2>1. PICK e \in Error :
          /\ hand' = Err(e)
          /\ e \in ProtocolError => ~HeaderAllowed(f) \/ Misplaced(f)
    BY <1>4 DEF Refused
  <2>2. Allowed(taken') => HeaderAllowed(f) /\ Fits(taken, f)
    BY <1>1, <1>2, AllowedAppend
  <2>3. Fits(taken, f) => ~Misplaced(f)
    BY <1>1 DEF Fits, Misplaced
  <2> QED
    BY <2>1, <2>2, <2>3 DEF Err, IsErr
<1>5. ASSUME Sound(taken'), pc' = "fail"
      PROVE  hand'.error # "DecompressError"
  BY <1>1, <1>2, <1>5, ReadFailure DEF f
<1>6. pc' = "fail" => Justified(hand', taken')
  BY <1>1, <1>4, <1>5 DEF Justified
<1>7. AllJustified(chan', taken') /\ AllJustified(got', taken')
  BY <1>1, <1>3
<1> QED
  BY <1>6, <1>7
  DEF BlameInv, AllJustified, Justified, Allowed, HeaderAllowed, Sound,
    Sensible, Kept

LEMMA BlameStep ==
  /\ TypeOK /\ ErrorInv /\ FramingInv /\ DecoderInv /\ BlameInv
  /\ [Next]_vars
  => BlameInv'
<1> SUFFICES ASSUME TypeOK, ErrorInv, FramingInv, DecoderInv, BlameInv,
                    [Next]_vars
             PROVE  BlameInv'
  OBVIOUS
<1>1. chan \in Seq(Item) /\ got \in Seq(Item)
  BY DEF TypeOK, EndTypeOK, LinkTypeOK
<1> DEFINE Goal == /\ pc' = "fail" => Justified(hand', taken)
                   /\ AllJustified(chan', taken)
                   /\ AllJustified(got', taken)
<1>2. ASSUME taken' = taken, Goal PROVE BlameInv'
  BY <1>2 DEF BlameInv, Justified, AllJustified, Allowed, HeaderAllowed,
    Sound, Sensible, Kept
<1>3. ASSUME Await, got' = got PROVE Goal
  <2>1. ASSUME pc' = "fail" PROVE Justified(hand', taken)
    <3>1. \/ hand' = hand /\ pc = "fail"
          \/ hand' \in {Err("IOError"), Err("CommunicationError")}
      BY <1>3, <2>1
      DEF Await, Disconnected, EndOfInput, Deliver, DeliverRefused,
        LockForReply, WriteReply, ReplyFails, ReportFailure, Fail, AfterReply
    <3> QED
      BY <2>1, <3>1 DEF BlameInv, Justified, ProtocolError, Err
  <2>2. \/ chan' = chan
        \/ /\ pc \in {"deliver", "fail"} /\ hand \in Message \cup Failure
           /\ chan' = Append(chan, hand)
           /\ pc = "deliver" => hand \in Message
    BY <1>3, AwaitCases
  <2>3. ASSUME pc \in {"deliver", "fail"},
               pc = "deliver" => hand \in Message
        PROVE  Justified(hand, taken)
    BY <2>3, ItemKinds DEF BlameInv, Justified
  <2>4. AllJustified(chan', taken)
    BY <1>1, <2>2, <2>3, JustifiedAppend DEF BlameInv, Item
  <2> QED
    BY <1>3, <2>1, <2>4 DEF BlameInv
<1>4. ASSUME NextItem PROVE Goal
  <2>1. /\ chan # <<>> /\ chan' = Tail(chan)
        /\ got' = Append(got, Head(chan))
        /\ pc' = pc /\ hand' = hand
    BY <1>4 DEF NextItem, readVars
  <2>2. Head(chan) \in Item
    BY <1>1, <2>1, HeadTailProperties
  <2> QED
    BY <1>1, <2>1, <2>2, JustifiedTail, JustifiedAppend DEF BlameInv
<1>5. ASSUME NextNone \/ UNCHANGED <<pc, hand, chan, got>> PROVE Goal
  BY <1>5 DEF NextNone, readVars, BlameInv
<1>6. ASSUME DropReader PROVE Goal
  <2>1. chan' = <<>> /\ Len(<<>>) = 0
    BY <1>6, EmptySeq DEF DropReader
  <2> QED
    BY <1>6, <2>1 DEF DropReader, readVars, BlameInv, AllJustified
<1> QED
  BY <1>2, <1>3, <1>4, <1>5, <1>6, BlameRead, StepCases

\* Everything in the stream of a user is behind, in or before the channel.
LEMMA StreamItems ==
  ASSUME TypeOK, NEW i \in 1..Len(Stream)
  PROVE  \/ \E j \in 1..Len(got) : Stream[i] = got[j]
         \/ \E j \in 1..Len(chan) : Stream[i] = chan[j]
         \/ pc \in {"deliver", "fail"} /\ Stream[i] = hand
<1>1. chan \in Seq(Item) /\ got \in Seq(Item)
  BY DEF TypeOK, EndTypeOK, LinkTypeOK
<1>2. /\ InHand \in Seq(Item)
      /\ InHand = <<>> \/ (pc \in {"deliver", "fail"} /\ InHand = <<hand>>)
  <2>1. CASE pc \in {"deliver", "fail"}
    <3>1. hand \in Item /\ InHand = <<hand>>
      BY <2>1 DEF InHand, TypeOK, EndTypeOK, ReadTypeOK, HandTypeOK, Item
    <3> QED
      BY <2>1, <3>1
  <2>2. CASE pc \notin {"deliver", "fail"}
    BY <2>2 DEF InHand
  <2> QED
    BY <2>1, <2>2
<1> DEFINE both == got \o chan
<1>3. /\ both \in Seq(Item)
      /\ Len(both) = Len(got) + Len(chan)
      /\ \A j \in 1..Len(both) :
            both[j] = IF j <= Len(got) THEN got[j] ELSE chan[j - Len(got)]
  BY <1>1, ConcatProperties
<1>4. /\ Len(got) \in Nat /\ Len(chan) \in Nat /\ Len(both) \in Nat
      /\ Len(InHand) \in Nat
  BY <1>1, <1>2, <1>3, LenProperties
<1> HIDE DEF both
<1>5. /\ Stream = both \o InHand
      /\ Len(Stream) = Len(both) + Len(InHand)
      /\ \A j \in 1..(Len(both) + Len(InHand)) :
            Stream[j] = IF j <= Len(both) THEN both[j]
                                          ELSE InHand[j - Len(both)]
  BY <1>2, <1>3, ConcatProperties DEF Stream, both
<1>6. CASE i <= Len(both)
  <2>1. Stream[i] = both[i] /\ i \in 1..Len(both)
    BY <1>4, <1>5, <1>6
  <2>2. CASE i <= Len(got)
    BY <1>3, <1>4, <2>1, <2>2
  <2>3. CASE ~(i <= Len(got))
    <3>1. i - Len(got) \in 1..Len(chan)
      BY <1>3, <1>4, <2>1, <2>3
    <3> QED
      BY <1>3, <2>1, <2>3, <3>1
  <2> QED
    BY <2>2, <2>3
<1>7. CASE ~(i <= Len(both))
  <2>1. Stream[i] = InHand[i - Len(both)] /\ i - Len(both) \in 1..Len(InHand)
    BY <1>4, <1>5, <1>7
  <2> QED
    BY <1>2, <2>1, EmptySeq
<1> QED
  BY <1>6, <1>7

\* Whoever is accused of a protocol error has committed one: a conversation
\* that RFC 6455 allows never ends in one of those errors, whatever control
\* frames come between its fragments (read.rs:64-132, 178-235).
THEOREM BlamesTheForbidden == Spec => []BlamesOnlyForbidden
<1>1. TypeOK /\ BlameInv => BlamesOnlyForbidden
  <2> SUFFICES ASSUME TypeOK, BlameInv, NEW i \in 1..Len(Stream),
                      IsErr(Stream[i]), Stream[i].error \in ProtocolError
               PROVE  ~Allowed(taken)
    BY DEF BlamesOnlyForbidden
  <2>1. pc \in {"deliver", "fail"} => Justified(hand, taken)
    BY ItemKinds
    DEF BlameInv, TypeOK, EndTypeOK, ReadTypeOK, HandTypeOK, Justified
  <2>2. Justified(Stream[i], taken)
    BY <2>1, StreamItems DEF BlameInv, AllJustified
  <2> QED
    BY <2>2 DEF Justified
<1> QED
  BY <1>1, InitType, StepType, ErrorInit, ErrorStep, FramingInit, FramingStep,
    DecoderInit, DecoderStep, BlameInit, BlameStep, PTL DEF Spec

\* Nor is a decoder ever at a loss before bytes that mean something: a
\* conversation whose compressed messages are an encoder's, marked as RFC
\* 7692 asks, never ends in an error of the decoder, whatever is fragmented,
\* left plain or comes between (decoder.rs:33-80, read.rs:98-104, 279-282).
THEOREM BlamesTheNonsense == Spec => []BlamesOnlyNonsense
<1>1. TypeOK /\ BlameInv => BlamesOnlyNonsense
  <2> SUFFICES ASSUME TypeOK, BlameInv, NEW i \in 1..Len(Stream),
                      IsErr(Stream[i]), Stream[i].error = "DecompressError"
               PROVE  ~Sound(taken)
    BY DEF BlamesOnlyNonsense, Sound, Sensible, Kept
  <2>1. pc \in {"deliver", "fail"} => Justified(hand, taken)
    BY ItemKinds
    DEF BlameInv, TypeOK, EndTypeOK, ReadTypeOK, HandTypeOK, Justified
  <2>2. Justified(Stream[i], taken)
    BY <2>1, StreamItems DEF BlameInv, AllJustified
  <2> QED
    BY <2>2 DEF Justified
<1> QED
  BY <1>1, InitType, StepType, ErrorInit, ErrorStep, FramingInit, FramingStep,
    DecoderInit, DecoderStep, BlameInit, BlameStep, PTL DEF Spec

(***************************************************************************)
(* What a user is given.                                                   *)
(***************************************************************************)
StreamOf(g, c, p, h) ==
    IF p \in {"deliver", "fail"} THEN Append(g \o c, h) ELSE g \o c

LEMMA StreamJoins ==
  ASSUME NEW g \in Seq(Item), NEW c \in Seq(Item), NEW p, NEW h,
         p \in {"deliver", "fail"} => h \in Item
  PROVE  /\ g \o c \o (IF p \in {"deliver", "fail"} THEN <<h>> ELSE <<>>)
              = StreamOf(g, c, p, h)
         /\ StreamOf(g, c, p, h) \in Seq(Item)
<1>1. g \o c \in Seq(Item)
  BY ConcatProperties
<1>2. CASE p \in {"deliver", "fail"}
  <2>1. h \in Item
    BY <1>2
  <2>2. /\ Append(g \o c, h) = (g \o c) \o <<h>>
        /\ Append(g \o c, h) \in Seq(Item)
    BY <1>1, <2>1, AppendIsConcat, AppendProperties
  <2> QED
    BY <1>2, <2>2 DEF StreamOf
<1>3. CASE p \notin {"deliver", "fail"}
  BY <1>1, <1>3, ConcatEmptySeq DEF StreamOf
<1> QED
  BY <1>2, <1>3

LEMMA StreamType ==
  TypeOK => Stream = StreamOf(got, chan, pc, hand) /\ Stream \in Seq(Item)
<1> SUFFICES ASSUME TypeOK
             PROVE  /\ Stream = StreamOf(got, chan, pc, hand)
                    /\ Stream \in Seq(Item)
  OBVIOUS
<1>1. /\ got \in Seq(Item) /\ chan \in Seq(Item)
      /\ pc \in {"deliver", "fail"} => hand \in Item
  BY DEF TypeOK, EndTypeOK, LinkTypeOK, ReadTypeOK, HandTypeOK, Item
<1> QED
  BY <1>1, StreamJoins DEF Stream, InHand

LEMMA StreamCases ==
  ASSUME TypeOK, TypeOK', [Next]_vars, rx' # "dropped"
  PROVE  /\ rx # "dropped"
         /\ \/ /\ ReadFrame /\ taken' = Append(taken, Head(inbox))
               /\ Stream' = IF pc' \in {"deliver", "fail"}
                            THEN Append(Stream, hand') ELSE Stream
            \/ /\ UNCHANGED <<taken, Stream>>
               /\ pc \in {"fail", "done"} => pc' \in {"fail", "done"}
            \/ /\ taken' = taken /\ Stream' = Append(Stream, hand')
               /\ pc \notin {"fail", "done"} /\ pc' = "fail"
<1>1. /\ got \in Seq(Item) /\ chan \in Seq(Item)
      /\ pc \in {"deliver", "fail"} => hand \in Item
  BY DEF TypeOK, EndTypeOK, LinkTypeOK, ReadTypeOK, HandTypeOK, Item
<1>2. /\ got' \in Seq(Item) /\ chan' \in Seq(Item)
      /\ pc' \in {"deliver", "fail"} => hand' \in Item
  BY DEF TypeOK, EndTypeOK, LinkTypeOK, ReadTypeOK, HandTypeOK, Item
<1>3. Stream = StreamOf(got, chan, pc, hand)
  BY StreamType
<1>4. Stream' = StreamOf(got', chan', pc', hand')
  BY <1>2, StreamJoins DEF Stream, InHand
<1>5. rx # "dropped"
  <2>1. ReadFrame => rx' = rx
    BY DEF ReadFrame
  <2>2. Await => rx' = rx
    BY AwaitCases
  <2>3. NextItem \/ NextNone => rx # "dropped"
    BY DEF NextItem, NextNone, MayRead
  <2>4. ~DropReader
    BY DEF DropReader
  <2> QED
    BY <2>1, <2>2, <2>3, <2>4, StepCases
<1>6. ASSUME ReadFrame, got' = got
      PROVE  Stream' = IF pc' \in {"deliver", "fail"}
                       THEN Append(Stream, hand') ELSE Stream
  <2>1. pc = "read" /\ chan' = chan
    BY <1>6 DEF ReadFrame
  <2> QED
    BY <1>3, <1>4, <1>6, <2>1 DEF StreamOf
<1>7. ASSUME Await, got' = got
      PROVE  \/ /\ Stream' = Stream
                /\ pc \in {"fail", "done"} => pc' \in {"fail", "done"}
             \/ /\ Stream' = Append(Stream, hand')
                /\ pc \notin {"fail", "done"} /\ pc' = "fail"
  <2>1. CASE pc' = "fail"
    <3>1. pc \in {"read", "write"} /\ chan' = chan
      BY <1>5, <1>7, <2>1
      DEF Await, Disconnected, EndOfInput, Deliver, DeliverRefused,
        LockForReply, WriteReply, ReplyFails, ReportFailure, AfterReply
    <3> QED
      BY <1>3, <1>4, <1>7, <2>1, <3>1 DEF StreamOf
  <2>2. CASE pc = "lock" /\ pc' = "write" /\ chan' = chan
    BY <1>3, <1>4, <1>7, <2>2 DEF StreamOf
  <2>3. CASE pc = "write" /\ pc' = AfterReply(hand) /\ chan' = chan
    BY <1>3, <1>4, <1>7, <2>3 DEF StreamOf, AfterReply
  <2>4. CASE /\ \/ pc = "deliver" /\ pc' = "read"
                \/ pc = "fail" /\ pc' = "done"
             /\ chan' = Append(chan, hand)
    <3>1. got \o Append(chan, hand) = Append(got \o chan, hand)
      BY <1>1, <2>4, AppendBehind
    <3> QED
      BY <1>3, <1>4, <1>7, <2>4, <3>1 DEF StreamOf
  <2> QED
    BY <1>5, <1>7, <2>1, <2>2, <2>3, <2>4, AwaitCases
<1>8. ASSUME NextItem PROVE Stream' = Stream /\ pc' = pc
  <2>1. /\ chan # <<>> /\ chan' = Tail(chan)
        /\ got' = Append(got, Head(chan))
        /\ pc' = pc /\ hand' = hand
    BY <1>8 DEF NextItem, readVars
  <2>2. got' \o chan' = got \o chan
    BY <1>1, <2>1, MoveHead
  <2> QED
    BY <1>3, <1>4, <2>1, <2>2 DEF StreamOf
<1>9. ASSUME NextNone \/ UNCHANGED <<pc, hand, chan, got>>
      PROVE  Stream' = Stream /\ pc' = pc
  BY <1>3, <1>4, <1>9 DEF NextNone, readVars
<1>10. ~DropReader
  BY DEF DropReader
<1> QED
  BY <1>5, <1>6, <1>7, <1>8, <1>9, <1>10, StepCases

(***************************************************************************)
(* Delivery.  While the task goes on, the user has, or will be handed, one *)
(* item for every message that has been finished, and each is the message  *)
(* that its frames carry; an error, which comes last, adds none.           *)
(***************************************************************************)
Delivered(items, fs) ==
    /\ Len(items) <= Finished(fs, Len(fs))
    /\ \A e \in Ends(fs) :
          Finished(fs, e) <= Len(items) =>
              Carries(MessageAt(fs, e, Kept), items[Finished(fs, e)])

DeliveredInv ==
    rx # "dropped" /\ MarkedOnlyFirst(taken) =>
        /\ Delivered(MessagesIn(Stream), taken)
        /\ pc \notin {"fail", "done"} =>
              Len(Stream) = Finished(taken, Len(taken))

\* A frame that ends no message, or one that could not be delivered, leaves
\* right what was delivered before.
LEMMA DeliveredAppend ==
  ASSUME NEW items \in Seq(Item), NEW fs \in Seq(RawFrame),
         NEW f \in RawFrame,
         Delivered(items, fs), Len(items) = Finished(fs, Len(fs))
  PROVE  Delivered(items, Append(fs, f))
<1> DEFINE gs == Append(fs, f)
<1> DEFINE n == Len(fs)
<1>1. /\ n \in Nat /\ Len(gs) = n + 1 /\ Len(items) \in Nat
      /\ \A e \in 1..n : e \in 0..n
  BY Appended, LenProperties
<1>2. /\ Ends(fs) \subseteq 1..n
      /\ Ends(gs) = Ends(fs) \cup (IF Final(f) THEN {n + 1} ELSE {})
  BY EndsAppend
<1>3. /\ \A m \in 0..n : Finished(gs, m) = Finished(fs, m)
      /\ Finished(gs, n + 1) = Finished(fs, n) + IF Final(f) THEN 1 ELSE 0
  BY FinishedAppend
<1>4. \A e \in 1..n : MessageAt(gs, e, Kept) = MessageAt(fs, e, Kept)
  BY MessagesKept
<1> HIDE DEF gs, n
<1>5. Len(items) <= Finished(gs, Len(gs))
  BY <1>1, <1>3 DEF n
<1>6. ASSUME NEW e \in Ends(gs), Finished(gs, e) <= Len(items)
      PROVE  Carries(MessageAt(gs, e, Kept), items[Finished(gs, e)])
  <2>1. e \in Ends(fs)
    <3>1. CASE e = n + 1 /\ Final(f)
      BY <1>1, <1>3, <1>6, <3>1 DEF n
    <3> QED
      BY <1>2, <3>1
  <2>2. /\ e \in 1..n /\ Finished(gs, e) = Finished(fs, e)
        /\ MessageAt(gs, e, Kept) = MessageAt(fs, e, Kept)
    BY <1>1, <1>2, <1>3, <1>4, <2>1
  <2> QED
    BY <1>6, <2>1, <2>2 DEF Delivered
<1> QED
  BY <1>5, <1>6 DEF Delivered, gs

\* A message delivered with the frame that ends it is the next one.
LEMMA DeliveredMore ==
  ASSUME NEW items \in Seq(Item), NEW fs \in Seq(RawFrame),
         NEW f \in RawFrame, Final(f), NEW item \in Item,
         Delivered(items, fs), Len(items) = Finished(fs, Len(fs)),
         Carries(MessageAt(Append(fs, f), Len(fs) + 1, Kept), item)
  PROVE  /\ Delivered(Append(items, item), Append(fs, f))
         /\ Len(Append(items, item))
              = Finished(Append(fs, f), Len(Append(fs, f)))
<1> DEFINE gs == Append(fs, f)
<1> DEFINE more == Append(items, item)
<1> DEFINE n == Len(fs)
<1>1. /\ n \in Nat /\ Len(gs) = n + 1
      /\ \A e \in 1..n : e \in 0..n
  BY Appended
<1>2. /\ Ends(fs) \subseteq 1..n
      /\ Ends(gs) = Ends(fs) \cup (IF Final(f) THEN {n + 1} ELSE {})
  BY EndsAppend
<1>3. /\ \A m \in 0..n : Finished(gs, m) = Finished(fs, m)
      /\ Finished(gs, n + 1) = Finished(fs, n) + IF Final(f) THEN 1 ELSE 0
  BY FinishedAppend
<1>4. \A e \in 1..n : MessageAt(gs, e, Kept) = MessageAt(fs, e, Kept)
  BY MessagesKept
<1>5. /\ Len(items) \in Nat /\ Len(more) = Len(items) + 1
      /\ more[Len(items) + 1] = item
      /\ \A i \in 1..Len(items) : more[i] = items[i]
  BY AppendProperties, LenProperties
<1>6. \A e \in Ends(fs) : Finished(fs, e) \in 1..Len(items)
  <2> SUFFICES ASSUME NEW e \in Ends(fs)
               PROVE  Finished(fs, e) \in 1..Len(items)
    OBVIOUS
  <2>1. e \in 0..n
    BY <1>1, <1>2
  <2>2. /\ Finished(fs, e) \in Nat /\ Finished(fs, e) # 0
        /\ Finished(fs, e) <= Finished(fs, Len(fs))
    BY <2>1, FinishedType
  <2> QED
    BY <1>5, <2>2
<1>7. Carries(MessageAt(gs, n + 1, Kept), item)
  OBVIOUS
<1> HIDE DEF gs, more, n
<1>8. Len(more) = Finished(gs, Len(gs))
  BY <1>1, <1>3, <1>5 DEF n
<1>9. ASSUME NEW e \in Ends(gs)
      PROVE  Carries(MessageAt(gs, e, Kept), more[Finished(gs, e)])
  <2>1. CASE e \in Ends(fs)
    <3>1. /\ e \in 1..n /\ Finished(gs, e) = Finished(fs, e)
          /\ MessageAt(gs, e, Kept) = MessageAt(fs, e, Kept)
      BY <1>1, <1>2, <1>3, <1>4, <2>1
    <3>2. /\ Finished(fs, e) \in 1..Len(items)
          /\ Carries(MessageAt(fs, e, Kept), items[Finished(fs, e)])
      BY <1>5, <1>6, <2>1 DEF Delivered
    <3> QED
      BY <1>5, <3>1, <3>2
  <2>2. CASE e = n + 1
    BY <1>3, <1>5, <1>7, <2>2 DEF n
  <2> QED
    BY <1>2, <2>1, <2>2
<1>10. Len(more) <= Finished(gs, Len(gs))
  BY <1>5, <1>8
<1> QED
  BY <1>8, <1>9, <1>10 DEF Delivered, gs, more

\* A user is told of no error before the task has failed.
LEMMA RunningStream ==
  ASSUME TypeOK, ErrorInv, pc \notin {"fail", "done"}
  PROVE  MessagesIn(Stream) = Stream
<1>1. \A i \in 1..Len(Stream) : ~IsErr(Stream[i])
  <2> SUFFICES ASSUME NEW i \in 1..Len(Stream) PROVE ~IsErr(Stream[i])
    OBVIOUS
  <2>1. ErrorFree(got) /\ ErrorFree(chan)
    BY DEF ErrorInv
  <2>2. pc = "deliver" => ~IsErr(hand)
    BY ItemKinds DEF TypeOK, EndTypeOK, ReadTypeOK, HandTypeOK
  <2> QED
    BY <2>1, <2>2, StreamItems DEF ErrorFree
<1>2. Stream \in Seq(Item)
  BY StreamType
<1> HIDE DEF Stream
<1>3. Stream # <<>> => Len(Stream) \in 1..Len(Stream)
  BY <1>2, LenProperties, EmptySeq
<1> QED
  BY <1>1, <1>3 DEF MessagesIn

LEMMA MessagesAppend ==
  ASSUME NEW items \in Seq(Item), NEW item \in Item
  PROVE  MessagesIn(Append(items, item)) =
           IF IsErr(item) THEN items ELSE Append(items, item)
<1> DEFINE more == Append(items, item)
<1>1. /\ more \in Seq(Item) /\ Len(more) = Len(items) + 1
      /\ more[Len(items) + 1] = item /\ Len(items) \in Nat
  BY AppendProperties, LenProperties
<1>2. more # <<>>
  BY <1>1, EmptySeq
<1>3. SubSeq(more, 1, Len(items)) = items
  <2> DEFINE first == SubSeq(more, 1, Len(items))
  <2> HIDE DEF more
  <2>1. 1 \in 1..(Len(more) + 1) /\ Len(items) \in 0..Len(more)
    BY <1>1
  <2>2. /\ first \in Seq(Item)
        /\ Len(first) = IF 1 <= Len(items) THEN Len(items) - 1 + 1 ELSE 0
        /\ \A i \in 1..(Len(items) - 1 + 1) : first[i] = more[1 + i - 1]
    BY <1>1, <2>1, SubSeqProperties
  <2>3. \A i \in 1..Len(items) : more[i] = items[i]
    BY AppendProperties DEF more
  <2> HIDE DEF first
  <2>4. Len(first) = Len(items) /\ \A i \in 1..Len(first) : first[i] = items[i]
    BY <1>1, <2>2, <2>3
  <2>5. first = items
    BY <2>2, <2>4, SeqEqual
  <2> QED
    BY <2>5 DEF first
<1> HIDE DEF more
<1>4. Len(more) - 1 = Len(items) /\ more[Len(more)] = item
  BY <1>1
<1>5. MessagesIn(more) = IF IsErr(item) THEN items ELSE more
  BY <1>2, <1>3, <1>4 DEF MessagesIn
<1> QED
  BY <1>5 DEF more

LEMMA DeliveredInit == Init => DeliveredInv
<1> SUFFICES ASSUME Init PROVE DeliveredInv
  OBVIOUS
<1>1. taken = <<>> /\ got = <<>> /\ chan = <<>> /\ pc = "read"
  BY DEF Init, EndInit, LinkInit, ReadInit
<1>2. /\ <<>> \in Seq(RawFrame) /\ Len(<<>>) = 0
      /\ <<>> \o <<>> = <<>>
  BY EmptySeq
<1>3. Stream = <<>>
  BY <1>1, <1>2 DEF Stream, InHand
<1>4. Ends(taken) = {}
  BY <1>1, <1>2 DEF Ends
<1>5. Finished(taken, 0) = 0
  <2>1. {e \in Ends(taken) : e <= 0} = {}
    BY <1>4
  <2> QED
    BY <2>1, FS_EmptySet DEF Finished
<1> QED
  BY <1>1, <1>2, <1>3, <1>4, <1>5 DEF DeliveredInv, Delivered, MessagesIn

LEMMA DeliveredStep ==
  TypeOK /\ TypeOK' /\ ErrorInv /\ DecoderInv /\ DeliveredInv /\ [Next]_vars
    => DeliveredInv'
<1> SUFFICES ASSUME TypeOK, TypeOK', ErrorInv, DecoderInv, DeliveredInv,
                    [Next]_vars, rx' # "dropped", MarkedOnlyFirst(taken')
             PROVE  /\ Delivered(MessagesIn(Stream'), taken')
                    /\ pc' \notin {"fail", "done"} =>
                          Len(Stream') = Finished(taken', Len(taken'))
  BY DEF DeliveredInv, MessagesIn
<1>1. rx # "dropped" /\ taken \in Seq(RawFrame) /\ Stream \in Seq(Item)
  BY StreamCases, StreamType DEF TypeOK
<1>2. /\ pc' = "fail" => hand' \in Item /\ IsErr(hand')
      /\ pc' = "deliver" => hand' \in Item /\ ~IsErr(hand')
  BY ItemKinds DEF TypeOK, EndTypeOK, ReadTypeOK, HandTypeOK, Item
<1>3. ASSUME MarkedOnlyFirst(taken), pc \notin {"fail", "done"}
      PROVE  /\ MessagesIn(Stream) = Stream
             /\ Delivered(Stream, taken)
             /\ Len(Stream) = Finished(taken, Len(taken))
  BY <1>1, <1>3, RunningStream DEF DeliveredInv
<1>4. CASE /\ ReadFrame /\ taken' = Append(taken, Head(inbox))
           /\ Stream' = IF pc' \in {"deliver", "fail"}
                        THEN Append(Stream, hand') ELSE Stream
  <2> DEFINE f == Head(inbox)
  <2>1. pc = "read" /\ f \in RawFrame /\ Advances(f)
    <3>1. inbox # <<>> /\ inbox \in Seq(RawFrame) /\ pc = "read"
      BY <1>4 DEF ReadFrame, TypeOK, EndTypeOK, LinkTypeOK
    <3> QED
      BY <1>4, <3>1, HeadTailProperties, ReadAdvances
  <2> HIDE DEF f
  <2>2. taken' = Append(taken, f)
    BY <1>4 DEF f
  <2>3. MarkedOnlyFirst(taken)
    BY <1>1, <2>1, <2>2, MarkedAppend
  <2>4. /\ MessagesIn(Stream) = Stream
        /\ Delivered(Stream, taken)
        /\ Len(Stream) = Finished(taken, Len(taken))
    BY <1>3, <2>1, <2>3
  <2>5. Delivered(Stream, taken')
    BY <1>1, <2>1, <2>2, <2>4, DeliveredAppend
  <2>6. CASE pc' = "fail"
    <3>1. MessagesIn(Stream') = Stream
      BY <1>1, <1>2, <1>4, <2>6, MessagesAppend
    <3> QED
      BY <2>5, <2>6, <3>1
  <2>7. CASE pc' \in {"read", "lock"} /\ ~Final(f)
    <3>1. Stream' = Stream
      BY <1>4, <2>7
    <3>2. Finished(taken', Len(taken')) = Finished(taken, Len(taken))
      <4>1. /\ Len(taken') = Len(taken) + 1
            /\ Finished(taken', Len(taken) + 1)
                 = Finished(taken, Len(taken)) + 0
        BY <1>1, <2>1, <2>2, <2>7, Appended, FinishedAppend
      <4>2. Finished(taken, Len(taken)) \in Nat
        BY <1>1, LenProperties, FinishedType
      <4> QED
        BY <4>1, <4>2
    <3> QED
      BY <2>4, <2>5, <3>1, <3>2
  <2>8. CASE /\ pc' = "deliver" /\ Final(f)
             /\ Carries(MessageAt(Append(taken, f), Len(taken) + 1, Kept),
                        hand')
    <3>1. Stream' = Append(Stream, hand') /\ MessagesIn(Stream') = Stream'
      BY <1>1, <1>2, <1>4, <2>8, MessagesAppend
    <3> QED
      BY <1>1, <1>2, <2>1, <2>2, <2>4, <2>8, <3>1, DeliveredMore
  <2> QED
    BY <2>1, <2>6, <2>7, <2>8 DEF Advances
<1>5. CASE /\ UNCHANGED <<taken, Stream>>
           /\ pc \in {"fail", "done"} => pc' \in {"fail", "done"}
  BY <1>1, <1>5 DEF DeliveredInv
<1>6. CASE /\ taken' = taken /\ Stream' = Append(Stream, hand')
           /\ pc \notin {"fail", "done"} /\ pc' = "fail"
  <2>1. MessagesIn(Stream') = Stream
    BY <1>1, <1>2, <1>6, MessagesAppend
  <2> QED
    BY <1>3, <1>6, <2>1
<1> QED
  BY <1>4, <1>5, <1>6, StreamCases

\* The user gets the messages that the frames on the wire carry: each one
\* whole, in order and once, however many fragments and control frames a
\* peer makes of them and wherever the task and the user are just then; what
\* was compressed, as it was before, as long as all that was compressed makes
\* sense (read.rs:56-157, 243-311).  The message that the task could not put
\* together is the only one that is missing, and an error stands in its place.
THEOREM DeliversTheRead == Spec => []DeliversWhatWasRead
<1>1. TypeOK /\ ErrorInv /\ DeliveredInv => DeliversWhatWasRead
  <2> SUFFICES ASSUME TypeOK, ErrorInv, DeliveredInv
               PROVE  DeliversWhatWasRead
    OBVIOUS
  <2>1. pc \in {"read", "deliver", "lock", "write"} =>
          MessagesIn(Stream) = Stream
    BY RunningStream
  <2> QED
    BY <2>1 DEF DeliversWhatWasRead, DeliveredInv, Delivered, Kept
<1> QED
  BY <1>1, InitType, StepType, ErrorInit, ErrorStep, DecoderInit, DecoderStep,
    DeliveredInit, DeliveredStep, PTL DEF Spec

(***************************************************************************)
(* What the calls put on the wire.  Between two calls all messages are on  *)
(* the wire and the encoder is where a decoder that has read them would    *)
(* be; within a call the bytes of its message that are there, together     *)
(* with those it has still to write, are the code of that message.         *)
(***************************************************************************)
KeptOut == ~ResetsEncoder
Sendable == [kind : Data, data : Seq(Byte)]

Code(m, w) == IF Compresses(m.data) THEN Deflated(m.data, w) ELSE m.data
Rest(fs) == FlattenSeq([i \in 1..Len(fs) |-> fs[i].payload])

\* Frame f begins or goes on with the message m behind the frames fs, and
\* `rest` is the bytes from it on.
Halfway(fs, f, rest, m) ==
    IF f.op = "Continue"
    THEN /\ fs # <<>>
         /\ Kind(fs, Len(fs)) = m.kind
         /\ Compressed(fs, Len(fs)) = Compresses(m.data)
         /\ Bytes(fs, Len(fs)) \o rest = Code(m, Expected(fs, KeptOut))
    ELSE /\ f.op = m.kind
         /\ f.rsv1 = Compresses(m.data)
         /\ rest = Code(m, Expected(fs, KeptOut))

LEMMA RestSplit ==
  ASSUME NEW fs \in Seq(RawFrame), fs # <<>>
  PROVE  /\ Rest(fs) = Head(fs).payload \o Rest(Tail(fs))
         /\ Head(fs).payload \in Payload
         /\ Rest(Tail(fs)) \in Payload
<1> DEFINE gs == Tail(fs)
<1> DEFINE ps == [i \in 1..Len(fs) |-> fs[i].payload]
<1> DEFINE qs == [i \in 1..Len(gs) |-> gs[i].payload]
<1>1. /\ Len(fs) \in Nat \ {0} /\ fs[1] \in RawFrame /\ Head(fs) = fs[1]
      /\ \A i \in 1..Len(fs) : fs[i] \in RawFrame
  BY EmptySeq, ElementOfSeq, HeadTailProperties
<1>2. /\ gs \in Seq(RawFrame) /\ Len(gs) = Len(fs) - 1
      /\ \A i \in 1..Len(gs) : gs[i] = fs[i + 1]
  BY HeadTailProperties
<1> HIDE DEF gs
<1>3. \A f \in RawFrame : f.payload \in Payload
  BY DEF RawFrame
<1>4. ps \in Seq(Payload) /\ Len(ps) = Len(fs)
  <2>1. \A i \in 1..Len(fs) : fs[i].payload \in Payload
    BY <1>1, <1>3
  <2> HIDE DEF ps
  <2>2. ps \in [1..Len(fs) -> Payload]
    BY <2>1 DEF ps
  <2> QED
    BY <1>1, <2>2
<1>5. qs \in Seq(Payload) /\ Len(qs) = Len(gs)
  <2>1. \A i \in 1..Len(gs) : gs[i].payload \in Payload
    <3>1. \A i \in 1..Len(gs) : i + 1 \in 1..Len(fs)
      BY <1>1, <1>2
    <3> QED
      BY <1>1, <1>2, <1>3, <3>1
  <2>2. qs \in [1..Len(gs) -> Payload] /\ Len(gs) \in Nat
    BY <1>1, <1>2, <2>1
  <2> HIDE DEF qs
  <2> QED
    BY <2>2
<1>6. /\ \A i \in 1..Len(fs) : ps[i] = fs[i].payload
      /\ \A i \in 1..Len(gs) : qs[i] = gs[i].payload
  OBVIOUS
<1>7. Rest(fs) = FlattenSeq(ps) /\ Rest(gs) = FlattenSeq(qs)
  BY DEF Rest
<1> HIDE DEF ps, qs
<1>8. ps # <<>>
  BY <1>1, <1>4, EmptySeq
<1>9. Head(ps) = Head(fs).payload
  <2>1. Head(ps) = ps[1] /\ 1 \in 1..Len(fs)
    BY <1>1, <1>4, <1>8, HeadTailProperties
  <2> QED
    BY <1>1, <1>6, <2>1
<1>10. Tail(ps) = qs
  <2> DEFINE ts == Tail(ps)
  <2>1. /\ ts \in Seq(Payload) /\ Len(ts) = Len(ps) - 1
        /\ \A i \in 1..Len(ts) : ts[i] = ps[i + 1]
    BY <1>4, <1>8, HeadTailProperties
  <2> HIDE DEF ts
  <2>2. Len(ts) = Len(qs) /\ Len(qs) = Len(gs)
    BY <1>1, <1>2, <1>4, <1>5, <2>1
  <2>3. \A i \in 1..Len(ts) : ts[i] = qs[i]
    <3> SUFFICES ASSUME NEW i \in 1..Len(ts) PROVE ts[i] = qs[i]
      OBVIOUS
    <3>1. i \in 1..Len(gs) /\ i + 1 \in 1..Len(fs)
      BY <1>1, <1>2, <2>2
    <3> QED
      BY <1>2, <1>6, <2>1, <3>1
  <2>4. ts = qs
    BY <1>5, <2>1, <2>2, <2>3, SeqEqual
  <2> QED
    BY <2>4 DEF ts
<1>11. FlattenSeq(ps) = Head(ps) \o FlattenSeq(Tail(ps))
  BY <1>4, <1>8, FlattenFirst DEF Payload
<1>12. FlattenSeq(qs) \in Payload
  BY <1>5, FlattenType DEF Payload
<1> QED
  BY <1>1, <1>3, <1>7, <1>9, <1>10, <1>11, <1>12 DEF gs

LEMMA RestEmpty == Rest(<<>>) = <<>>
<1>1. [i \in 1..Len(<<>>) |-> <<>>[i].payload] = <<>>
  BY EmptySeq
<1> QED
  BY <1>1, FlattenEmpty DEF Rest

\* The code of a message ...
LEMMA CodeType ==
  ASSUME NEW m \in Sendable, NEW w \in Nat
  PROVE  /\ Code(m, w) \in Payload
         /\ Compresses(m.data) => /\ IsDeflated(Code(m, w))
                                  /\ Code(m, w)[1].window = w
                                  /\ Code(m, w)[1].of = m.data
<1>1. m.data \in Seq(Byte) /\ m.data \in Payload
  BY BytesArePayloads DEF Sendable
<1>2. CASE ~Compresses(m.data)
  BY <1>1, <1>2 DEF Code
<1>3. CASE Compresses(m.data)
  <2> DEFINE d == Deflated(m.data, w)
  <2>1. d \in Payload /\ d # <<>> /\ Code(m, w) = d
    BY <1>1, <1>3, DeflatedType DEF Code
  <2>2. 1 \in 1..DeflatedLen
    BY SizeAssumption
  <2>3. d[1] = [of |-> m.data, at |-> 1, window |-> w]
    BY <2>2 DEF Deflated
  <2>4. d[1] \in DeflateUnit /\ d[1].of = m.data /\ d[1].window = w
    BY <1>1, <2>2, <2>3 DEF DeflateUnit
  <2>5. IsDeflated(d)
    BY <2>1, <2>4 DEF IsDeflated
  <2> QED
    BY <2>1, <2>4, <2>5
<1> QED
  BY <1>2, <1>3

LEMMA ExpectedType ==
  ASSUME NEW fs \in Seq(RawFrame), NEW kept \in BOOLEAN
  PROVE  Expected(fs, kept) \in Nat
<1>1. Len(fs) + 1 \in 1..(Len(fs) + 1)
  BY LenProperties
<1>2. \E f \in RawFrame : TRUE
  BY ControlFrameTypes
<1>3. Behind(fs, Len(fs) + 1) \in Nat
  BY <1>1, <1>2, BehindAppend
<1> QED
  BY <1>3 DEF Expected

\* ... comes on the wire frame by frame ...
LEMMA SpokenMore ==
  ASSUME NEW fs \in Seq(RawFrame), NEW ts \in Seq(RawFrame), ts # <<>>,
         NEW m \in Sendable, Head(ts).op \notin Control,
         Halfway(fs, Head(ts), Rest(ts), m)
  PROVE  LET gs == Append(fs, Head(ts))
         IN /\ Kind(gs, Len(gs)) = m.kind
            /\ Compressed(gs, Len(gs)) = Compresses(m.data)
            /\ Bytes(gs, Len(gs)) \o Rest(Tail(ts))
                 = Code(m, Expected(fs, KeptOut))
            /\ Bytes(gs, Len(gs)) \in Payload
<1> DEFINE f == Head(ts)
<1> DEFINE gs == Append(fs, f)
<1> DEFINE n == Len(fs)
<1> DEFINE w == Expected(fs, KeptOut)
<1>1. f \in RawFrame
  BY HeadTailProperties
<1>2. /\ Rest(ts) = f.payload \o Rest(Tail(ts))
      /\ f.payload \in Payload /\ Rest(Tail(ts)) \in Payload
  BY RestSplit
<1>3. f.op \notin Control /\ Halfway(fs, f, Rest(ts), m)
  OBVIOUS
<1> HIDE DEF f
<1>4. Len(gs) = n + 1
  BY <1>1, Appended
<1>5. CASE f.op = "Continue"
  <2>1. /\ fs # <<>>
        /\ Kind(fs, n) = m.kind
        /\ Compressed(fs, n) = Compresses(m.data)
        /\ Bytes(fs, n) \o Rest(ts) = Code(m, w)
    BY <1>3, <1>5 DEF Halfway
  <2>2. f.op \notin Data /\ Carried(f) = f.payload
    BY <1>3, <1>5 DEF Data, Carried
  <2>3. /\ Kind(gs, n + 1) = Kind(fs, n)
        /\ Compressed(gs, n + 1) = Compressed(fs, n)
        /\ Bytes(gs, n + 1) = Bytes(fs, n) \o f.payload
    BY <1>1, <2>1, <2>2, MeaningGoesOn
  <2>4. Bytes(fs, n) \in Payload
    <3>1. n \in 1..n
      BY <2>1, EmptySeq
    <3> QED
      BY <1>1, <3>1, MeaningKept
  <2> DEFINE p == Bytes(fs, n)
  <2> DEFINE q == Rest(Tail(ts))
  <2>5. /\ (p \o f.payload) \o q = p \o (f.payload \o q)
        /\ p \o f.payload \in Payload
    <3> DEFINE x == f.payload
    <3>1. p \in Seq(Unit) /\ x \in Seq(Unit) /\ q \in Seq(Unit)
      BY <1>2, <2>4 DEF Payload
    <3> HIDE DEF p, q, x
    <3>2. (p \o x) \o q = p \o (x \o q)
      BY <3>1, ConcatAssociative
    <3>3. p \o x \in Seq(Unit)
      BY <3>1, ConcatProperties
    <3> QED
      BY <3>2, <3>3 DEF x, Payload
  <2> QED
    BY <1>2, <1>4, <2>1, <2>3, <2>5 DEF f
<1>6. CASE f.op # "Continue"
  <2>1. /\ f.op = m.kind /\ f.rsv1 = Compresses(m.data)
        /\ Rest(ts) = Code(m, w)
    BY <1>3, <1>6 DEF Halfway
  <2>2. f.op \in Data
    BY <2>1 DEF Sendable
  <2>3. /\ Kind(gs, n + 1) = f.op
        /\ Compressed(gs, n + 1) = f.rsv1
        /\ Bytes(gs, n + 1) = f.payload
    BY <1>1, <2>2, MeaningBegins
  <2> QED
    BY <1>2, <1>4, <2>1, <2>3 DEF f
<1> QED
  BY <1>5, <1>6

\* ... and is the message that was asked for when its last frame is there.
LEMMA SpokenWhole ==
  ASSUME NEW fs \in Seq(RawFrame), NEW f \in RawFrame, Final(f),
         NEW m \in Sendable, Sensible(fs, KeptOut),
         Kind(Append(fs, f), Len(fs) + 1) = m.kind,
         Compressed(Append(fs, f), Len(fs) + 1) = Compresses(m.data),
         Bytes(Append(fs, f), Len(fs) + 1) = Code(m, Expected(fs, KeptOut))
  PROVE  /\ Sensible(Append(fs, f), KeptOut)
         /\ MessageAt(Append(fs, f), Len(fs) + 1, KeptOut) = m
         /\ Expected(Append(fs, f), KeptOut)
              = Expected(fs, KeptOut)
                  + IF Compresses(m.data) /\ KeptOut THEN 1 ELSE 0
<1> DEFINE gs == Append(fs, f)
<1> DEFINE n == Len(fs)
<1> DEFINE b == Behind(fs, n + 1)
<1>1. KeptOut \in BOOLEAN /\ n \in Nat /\ Len(gs) = n + 1
  BY Appended DEF KeptOut
<1>2. Expected(fs, KeptOut) \in Nat
  BY <1>1, ExpectedType
<1>3. Compresses(m.data) =>
        /\ IsDeflated(Code(m, Expected(fs, KeptOut)))
        /\ Code(m, Expected(fs, KeptOut))[1].window = Expected(fs, KeptOut)
        /\ Code(m, Expected(fs, KeptOut))[1].of = m.data
  BY <1>2, CodeType
<1>4. Compresses(m.data) => Makes(Bytes(gs, n + 1), KeptOut, b)
  BY <1>3 DEF Makes, Expected
<1>5. Sensible(gs, KeptOut)
  BY <1>4, MeaningfulAppend
<1>6. b \in Nat /\ Behind(gs, n + 2) = b + IF Compresses(m.data) THEN 1 ELSE 0
  <2>1. n + 1 \in 1..(n + 1)
    BY <1>1
  <2> QED
    BY <2>1, BehindAppend
<1>7. Expected(gs, KeptOut)
        = Expected(fs, KeptOut)
            + IF Compresses(m.data) /\ KeptOut THEN 1 ELSE 0
  <2>1. Len(gs) + 1 = n + 2
    BY <1>1
  <2> QED
    BY <1>6, <2>1 DEF Expected
<1>8. MessageAt(gs, n + 1, KeptOut) = m
  <2>1. m = [kind |-> m.kind, data |-> m.data]
    BY DEF Sendable
  <2>2. Meaningful(gs, n + 1, KeptOut)
    BY <1>1, <1>5 DEF Sensible
  <2> QED
    BY <1>3, <2>1, <2>2 DEF MessageAt, Code
<1> QED
  BY <1>5, <1>7, <1>8

\* The frames fs carry the first of the messages ss, and no others.
WireSays(fs, ss) ==
    /\ Sensible(fs, KeptOut)
    /\ Finished(fs, Len(fs)) <= Len(ss)
    /\ \A e \in Ends(fs) : MessageAt(fs, e, KeptOut) = ss[Finished(fs, e)]

Level(fs, ss, w) ==
    /\ Len(ss) = Finished(fs, Len(fs))
    /\ w = Expected(fs, KeptOut)

\* The last of the messages ss is still to be written from frame f on.
Midway(fs, f, rest, ss, w) ==
    LET m == ss[Len(ss)]
    IN /\ Len(ss) = Finished(fs, Len(fs)) + 1
       /\ w = Expected(fs, KeptOut)
                + IF Compresses(m.data) /\ KeptOut THEN 1 ELSE 0
       /\ Halfway(fs, f, rest, m)

Speaks == todo # <<>> /\ Head(todo).op \notin Control

SentInv ==
    /\ sent \in Seq(Sendable)
    /\ WireSays(OnWire, sent)
    /\ ~broken /\ ~Speaks => Level(OnWire, sent, encoded)
    /\ ~broken /\ Speaks =>
          Midway(OnWire, Head(todo), Rest(todo), sent, encoded)

\* A frame that ends no message.
LEMMA WireSaysInside ==
  ASSUME NEW fs \in Seq(RawFrame), NEW f \in RawFrame, ~Final(f),
         NEW ss \in Seq(Sendable), WireSays(fs, ss)
  PROVE  /\ WireSays(Append(fs, f), ss)
         /\ Finished(Append(fs, f), Len(Append(fs, f)))
              = Finished(fs, Len(fs))
         /\ Expected(Append(fs, f), KeptOut) = Expected(fs, KeptOut)
<1> DEFINE gs == Append(fs, f)
<1> DEFINE n == Len(fs)
<1>1. /\ n \in Nat /\ Len(gs) = n + 1 /\ Len(ss) \in Nat
      /\ \A e \in 1..n : e \in 0..n
      /\ n \in 0..n /\ n + 1 \in 1..(n + 1) /\ Len(gs) + 1 = n + 2
  BY Appended, LenProperties
<1>2. Ends(fs) \subseteq 1..n /\ Ends(gs) = Ends(fs)
  BY EndsAppend
<1>3. /\ \A m \in 0..n : Finished(gs, m) = Finished(fs, m)
      /\ Finished(gs, n + 1) = Finished(fs, n) + 0
  BY FinishedAppend
<1>4. \A e \in 1..n : MessageAt(gs, e, KeptOut) = MessageAt(fs, e, KeptOut)
  BY MessagesKept
<1>5. Sensible(gs, KeptOut) <=> Sensible(fs, KeptOut)
  BY MeaningfulAppend
<1>6. /\ Behind(gs, n + 2) = Behind(fs, n + 1) + 0
      /\ Behind(fs, n + 1) \in Nat
  BY <1>1, BehindAppend
<1>7. Finished(fs, n) \in Nat
  BY <1>1, FinishedType
<1> HIDE DEF gs, n
<1>8. Finished(gs, Len(gs)) = Finished(fs, n)
  BY <1>1, <1>3, <1>7
<1>9. Expected(gs, KeptOut) = Expected(fs, KeptOut)
  BY <1>1, <1>6 DEF Expected, n
<1>10. WireSays(gs, ss)
  <2>1. ASSUME NEW e \in Ends(gs)
        PROVE  MessageAt(gs, e, KeptOut) = ss[Finished(gs, e)]
    BY <1>1, <1>2, <1>3, <1>4 DEF WireSays
  <2> QED
    BY <1>5, <1>8, <2>1 DEF WireSays, n
<1> QED
  BY <1>8, <1>9, <1>10 DEF gs, n

\* The frame that ends the message which comes next.
LEMMA WireSaysMore ==
  ASSUME NEW fs \in Seq(RawFrame), NEW f \in RawFrame, Final(f),
         NEW ss \in Seq(Sendable), WireSays(fs, ss),
         Len(ss) = Finished(fs, Len(fs)) + 1,
         Sensible(Append(fs, f), KeptOut),
         MessageAt(Append(fs, f), Len(fs) + 1, KeptOut) = ss[Len(ss)]
  PROVE  /\ WireSays(Append(fs, f), ss)
         /\ Finished(Append(fs, f), Len(Append(fs, f))) = Len(ss)
<1> DEFINE gs == Append(fs, f)
<1> DEFINE n == Len(fs)
<1>1. /\ n \in Nat /\ Len(gs) = n + 1 /\ Len(ss) \in Nat
      /\ \A e \in 1..n : e \in 0..n
  BY Appended, LenProperties
<1>2. /\ Ends(fs) \subseteq 1..n
      /\ Ends(gs) = Ends(fs) \cup {n + 1}
  BY EndsAppend
<1>3. /\ \A m \in 0..n : Finished(gs, m) = Finished(fs, m)
      /\ Finished(gs, n + 1) = Finished(fs, n) + 1
  BY FinishedAppend
<1>4. \A e \in 1..n : MessageAt(gs, e, KeptOut) = MessageAt(fs, e, KeptOut)
  BY MessagesKept
<1>5. MessageAt(gs, n + 1, KeptOut) = ss[Len(ss)]
  OBVIOUS
<1> HIDE DEF gs, n
<1>6. Finished(gs, Len(gs)) = Len(ss)
  BY <1>1, <1>3 DEF n
<1>7. ASSUME NEW e \in Ends(gs)
      PROVE  MessageAt(gs, e, KeptOut) = ss[Finished(gs, e)]
  <2>1. CASE e \in Ends(fs)
    BY <1>1, <1>2, <1>3, <1>4, <2>1 DEF WireSays
  <2>2. CASE e = n + 1
    BY <1>1, <1>5, <1>6, <2>2
  <2> QED
    BY <1>2, <2>1, <2>2
<1>8. Finished(gs, Len(gs)) <= Len(ss)
  BY <1>1, <1>6
<1> QED
  BY <1>6, <1>7, <1>8 DEF WireSays, gs

\* A message that is asked for and not yet written.
LEMMA WireSaysAsked ==
  ASSUME NEW fs \in Seq(RawFrame), NEW ss \in Seq(Sendable),
         NEW m \in Sendable, WireSays(fs, ss)
  PROVE  WireSays(fs, Append(ss, m))
<1> DEFINE tt == Append(ss, m)
<1> DEFINE n == Len(fs)
<1>1. /\ n \in Nat /\ Len(ss) \in Nat /\ Len(tt) = Len(ss) + 1
      /\ \A i \in 1..Len(ss) : tt[i] = ss[i]
  BY AppendProperties, LenProperties
<1>2. ASSUME NEW e \in Ends(fs)
      PROVE  Finished(fs, e) \in 1..Len(ss)
  <2>1. e \in 0..n
    BY <1>1 DEF Ends
  <2>2. n \in 0..n
    BY <1>1
  <2>3. /\ Finished(fs, e) \in Nat /\ Finished(fs, e) # 0
        /\ Finished(fs, e) <= Finished(fs, n)
        /\ Finished(fs, n) \in Nat
    BY <2>1, <2>2, FinishedType
  <2> QED
    BY <1>1, <2>3 DEF WireSays
<1>3. Finished(fs, n) \in Nat
  <2>1. n \in 0..n
    BY <1>1
  <2> QED
    BY <2>1, FinishedType
<1> HIDE DEF tt, n
<1>4. Finished(fs, n) <= Len(tt)
  BY <1>1, <1>3 DEF WireSays, n
<1> QED
  BY <1>1, <1>2, <1>4 DEF WireSays, tt, n

\* A control frame between two frames of a message.
LEMMA HalfwayAcross ==
  ASSUME NEW fs \in Seq(RawFrame), NEW f \in RawFrame, f.op \in Control,
         NEW g, NEW rest, NEW m, Halfway(fs, g, rest, m),
         Expected(Append(fs, f), KeptOut) = Expected(fs, KeptOut)
  PROVE  Halfway(Append(fs, f), g, rest, m)
<1> DEFINE gs == Append(fs, f)
<1>1. Len(gs) = Len(fs) + 1 /\ gs # <<>>
  BY Appended, AppendProperties
<1>2. ASSUME fs # <<>>
      PROVE  /\ Kind(gs, Len(gs)) = Kind(fs, Len(fs))
             /\ Compressed(gs, Len(gs)) = Compressed(fs, Len(fs))
             /\ Bytes(gs, Len(gs)) = Bytes(fs, Len(fs))
  <2>1. f.op \notin Data /\ Carried(f) = <<>>
    BY DEF Data, Control, Carried
  <2>2. Bytes(fs, Len(fs)) \in Payload
    <3>1. Len(fs) \in 1..Len(fs)
      BY <1>2, EmptySeq
    <3> QED
      BY <3>1, MeaningKept
  <2>3. Bytes(fs, Len(fs)) \o <<>> = Bytes(fs, Len(fs))
    BY <2>2, ConcatEmptySeq DEF Payload
  <2> QED
    BY <1>1, <1>2, <2>1, <2>3, MeaningGoesOn
<1> HIDE DEF gs
<1> QED
  BY <1>1, <1>2 DEF Halfway, gs

LEMMA FragmentsRest ==
  ASSUME NEW op \in Data, NEW chunks \in Seq(Payload), NEW marked,
         chunks # <<>>
  PROVE  LET fs == Fragments(op, chunks, marked)
         IN /\ fs \in Seq(RawFrame) /\ fs # <<>>
            /\ Head(fs).op = op
            /\ Head(fs).rsv1 = (1 \in marked)
            /\ Rest(fs) = FlattenSeq(chunks)
<1> DEFINE frame(i) == WireFrame(i = Len(chunks),
                                 IF i = 1 THEN op ELSE "Continue",
                                 i \in marked, chunks[i])
<1> DEFINE fs == Fragments(op, chunks, marked)
<1>1. Len(chunks) \in Nat \ {0} /\ chunks \in [1..Len(chunks) -> Payload]
  BY EmptySeq, LenProperties
<1>2. fs \in Seq(RawFrame) /\ fs # <<>>
  BY FragmentsType
<1>3. fs = [i \in 1..Len(chunks) |-> frame(i)]
  BY DEF Fragments
<1>4. \A i \in 1..Len(chunks) : frame(i).payload = chunks[i]
  BY DEF WireFrame
<1>5. frame(1).op = op
  BY DEF WireFrame
<1>6. frame(1).rsv1 = (1 \in marked)
  BY Zenon DEF WireFrame
<1> HIDE DEF frame, fs
<1>7. Len(fs) = Len(chunks) /\ \A i \in 1..Len(chunks) : fs[i] = frame(i)
  BY <1>1, <1>2, <1>3, LenProperties
<1>8. Head(fs) = frame(1)
  <2>1. 1 \in 1..Len(chunks) /\ Head(fs) = fs[1]
    BY <1>1, <1>2, HeadTailProperties
  <2> QED
    BY <1>7, <2>1
<1>9. [i \in 1..Len(fs) |-> fs[i].payload] = chunks
  <2>1. \A i \in 1..Len(chunks) : fs[i].payload = chunks[i]
    BY <1>4, <1>7
  <2>2. [i \in 1..Len(chunks) |-> fs[i].payload]
          = [i \in 1..Len(chunks) |-> chunks[i]]
    BY <2>1
  <2>3. chunks = [i \in 1..Len(chunks) |-> chunks[i]]
    BY <1>1
  <2> QED
    BY <1>7, <2>2, <2>3
<1>10. Rest(fs) = FlattenSeq(chunks)
  BY <1>9 DEF Rest
<1>11. Head(fs).op = op
  BY <1>5, <1>8
<1>12. Head(fs).rsv1 = (1 \in marked)
  BY <1>6, <1>8
<1> QED
  BY <1>2, <1>10, <1>11, <1>12 DEF fs

\* The frames ts say the message m, compressed in the window w.
Says(ts, m, w) ==
    /\ ts # <<>>
    /\ Head(ts).op = m.kind
    /\ Head(ts).rsv1 = Compresses(m.data)
    /\ Rest(ts) = Code(m, w)

LEMMA MessageFramesSay ==
  ASSUME NEW m \in Messages, encoded \in Nat
  PROVE  m \in Sendable /\ Says(MessageFrames(m), m, encoded)
<1>1. /\ m \in Sendable /\ m.kind \in Data /\ m.data \in Seq(Byte)
  BY CallsAssumption DEF Sendable
<1>2. Encoded(m.data) = Code(m, encoded)
  BY DEF Encoded, Code
<1>3. CASE m.data = <<>>
  <2> DEFINE f == WireFrame(TRUE, m.kind, FALSE, <<>>)
  <2>1. f \in RawFrame
    BY <1>1, EmptyPayload, WireFrameType DEF OpCode
  <2>2. f.op = m.kind /\ f.rsv1 = FALSE /\ f.payload = <<>>
    BY DEF WireFrame
  <2>3. MessageFrames(m) = <<f>>
    BY <1>3 DEF MessageFrames
  <2> HIDE DEF f
  <2>4. /\ <<f>> \in Seq(RawFrame) /\ <<f>> # <<>>
        /\ Head(<<f>>) = f /\ Tail(<<f>>) = <<>>
    BY <2>1
  <2>5. Rest(<<f>>) = <<>>
    <3>1. Rest(<<f>>) = f.payload \o Rest(<<>>)
      BY <2>4, RestSplit
    <3>2. <<>> \o <<>> = <<>>
      BY EmptySeq
    <3> QED
      BY <2>2, <3>1, <3>2, RestEmpty
  <2>6. Compresses(m.data) = FALSE
    <3>1. Len(m.data) = 0
      BY <1>3, EmptySeq
    <3> QED
      BY <3>1, CallsAssumption DEF Compresses
  <2>7. Code(m, encoded) = <<>>
    BY <1>3, <2>6 DEF Code
  <2> QED
    BY <1>1, <2>2, <2>3, <2>4, <2>5, <2>6, <2>7 DEF Says
<1>4. CASE m.data # <<>>
  <2> DEFINE chunks == Chunks(Encoded(m.data), MaxFrameSize)
  <2> DEFINE marked == IF Compresses(m.data) THEN {1} ELSE {}
  <2>1. Encoded(m.data) \in Payload /\ Encoded(m.data) # <<>>
    BY <1>1, <1>4, EncodedType
  <2>2. /\ chunks \in Seq(Payload) /\ chunks # <<>>
        /\ FlattenSeq(chunks) = Encoded(m.data)
    BY <2>1, ChunksType, ChunksJoin, ConfigAssumption
  <2>3. MessageFrames(m) = Fragments(m.kind, chunks, marked)
    BY <1>4 DEF MessageFrames
  <2>4. (1 \in marked) = Compresses(m.data)
    BY DEF Compresses
  <2> HIDE DEF chunks, marked
  <2> QED
    BY <1>1, <1>2, <2>2, <2>3, <2>4, FragmentsRest DEF Says
<1> QED
  BY <1>3, <1>4

LEMMA LargeFramesSay ==
  ASSUME NEW c \in LargeCalls, c.data # <<>>, encoded \in Nat
  PROVE  LET m == [kind |-> "Text", data |-> c.data]
         IN m \in Sendable /\ Says(LargeFrames(c.data, c.size), m, encoded)
<1> DEFINE m == [kind |-> "Text", data |-> c.data]
<1>1. /\ m \in Sendable /\ m.kind = "Text" /\ m.data = c.data
      /\ "Text" \in Data /\ c.data \in Seq(Byte) /\ c.size \in Nat \ {0}
  BY CallsAssumption DEF Sendable, Data
<1> HIDE DEF m
<1>2. Encoded(c.data) = Code(m, encoded)
  BY <1>1 DEF Encoded, Code
<1> DEFINE chunks == Chunks(Encoded(c.data), c.size)
<1> DEFINE marked == IF Compresses(c.data) THEN 1..Len(chunks) ELSE {}
<1>3. Encoded(c.data) \in Payload /\ Encoded(c.data) # <<>>
  BY <1>1, EncodedType
<1>4. /\ chunks \in Seq(Payload) /\ chunks # <<>>
      /\ FlattenSeq(chunks) = Encoded(c.data)
  BY <1>1, <1>3, ChunksType, ChunksJoin
<1>5. LargeFrames(c.data, c.size) = Fragments("Text", chunks, marked)
  BY DEF LargeFrames
<1> HIDE DEF chunks
<1>6. (1 \in marked) = Compresses(c.data)
  <2>1. 1 \in 1..Len(chunks)
    BY <1>4, EmptySeq
  <2> QED
    BY <2>1 DEF Compresses
<1> HIDE DEF marked
<1>7. Says(LargeFrames(c.data, c.size), m, encoded)
  BY <1>1, <1>2, <1>4, <1>5, <1>6, FragmentsRest DEF Says
<1> QED
  BY <1>1, <1>7 DEF m

\* A call begins a control frame, or all that says its message.
LEMMA AskedSays ==
  ASSUME \A c \in LargeCalls : c.data # <<>>, TypeOK, Call
  PROVE  /\ todo = <<>>
         /\ \/ /\ UNCHANGED <<sent, encoded>>
               /\ todo' # <<>> /\ Head(todo').op \in Control
            \/ \E m \in Sendable :
                  /\ sent' = Append(sent, m)
                  /\ Says(todo', m, encoded)
                  /\ encoded' = encoded
                       + IF Compresses(m.data) /\ KeptOut THEN 1 ELSE 0
<1>1. encoded \in Nat /\ todo = <<>>
  BY DEF TypeOK, EndTypeOK, WriteTypeOK, Call, SendMessage, SendLarge,
    SendPing, CloseConnection, Calls
<1>2. ASSUME NEW data, Encodes(data)
      PROVE  encoded' = encoded + IF Compresses(data) /\ KeptOut THEN 1 ELSE 0
  BY <1>1, <1>2 DEF Encodes, KeptOut
<1>3. CASE SendMessage
  <2>1. PICK m \in Messages :
          /\ todo' = MessageFrames(m) /\ Encodes(m.data)
          /\ sent' = Append(sent, m)
    BY <1>3 DEF SendMessage
  <2> QED
    BY <1>1, <1>2, <2>1, MessageFramesSay
<1>4. CASE SendLarge
  <2>1. PICK c \in LargeCalls :
          /\ todo' = LargeFrames(c.data, c.size) /\ Encodes(c.data)
          /\ sent' = Append(sent, [kind |-> "Text", data |-> c.data])
    BY <1>4 DEF SendLarge
  <2> DEFINE m == [kind |-> "Text", data |-> c.data]
  <2>2. m \in Sendable /\ Says(todo', m, encoded)
    BY <1>1, <2>1, LargeFramesSay
  <2>3. m.data = c.data /\ sent' = Append(sent, m)
    BY <2>1
  <2> HIDE DEF m
  <2> QED
    BY <1>1, <1>2, <2>1, <2>2, <2>3
<1>5. CASE SendPing \/ CloseConnection
  <2>1. PICK f \in {PingFrame, CloseFrame} :
          todo' = <<f>> /\ UNCHANGED <<sent, encoded>>
    BY <1>5 DEF SendPing, CloseConnection
  <2>2. f.op \in Control
    BY DEF PingFrame, CloseFrame, WireFrame, Control
  <2>3. Head(<<f>>) = f /\ <<f>> # <<>>
    OBVIOUS
  <2> QED
    BY <1>1, <2>1, <2>2, <2>3
<1> QED
  BY <1>3, <1>4, <1>5 DEF Call

LEMMA SentInit == Init => SentInv
<1> SUFFICES ASSUME Init PROVE SentInv
  OBVIOUS
<1>1. /\ heard = <<>> /\ outbox = <<>> /\ todo = <<>> /\ sent = <<>>
      /\ encoded = 0 /\ Len(<<>>) = 0
  BY EmptySeq DEF Init, EndInit, WriteInit
<1>2. OnWire = <<>> /\ Len(OnWire) = 0
  BY <1>1, ConcatEmptySeq, EmptySeq DEF OnWire
<1>3. Ends(OnWire) = {}
  BY <1>2 DEF Ends
<1>4. Finished(OnWire, 0) = 0
  <2>1. {e \in Ends(OnWire) : e <= 0} = {}
    BY <1>3
  <2> QED
    BY <2>1, FS_EmptySet DEF Finished
<1>5. Expected(OnWire, KeptOut) = 0
  <2>1. {d \in Ends(OnWire) :
           d < Len(OnWire) + 1 /\ Compressed(OnWire, d)} = {}
    BY <1>3
  <2> QED
    BY <2>1, FS_EmptySet DEF Expected, Behind
<1>6. Sensible(OnWire, KeptOut)
  BY <1>3 DEF Sensible, Meaningful
<1>7. sent \in Seq(Sendable)
  BY <1>1, EmptySeq
<1> QED
  BY <1>1, <1>2, <1>3, <1>4, <1>5, <1>6, <1>7
  DEF SentInv, WireSays, Level, Speaks

\* A frame of a message goes on the wire.
LEMMA SentGoesOn ==
  ASSUME TypeOK, WireInv, SentInv, Sends, Speaks
  PROVE  SentInv'
<1> DEFINE f == Head(todo)
<1> DEFINE fs == OnWire
<1> DEFINE gs == Append(fs, f)
<1> DEFINE n == Len(fs)
<1> DEFINE m == sent[Len(sent)]
<1>1. /\ todo # <<>> /\ ~broken /\ broken' = broken
      /\ OnWire' = gs /\ todo' = Tail(todo)
      /\ UNCHANGED <<sent, encoded>>
      /\ todo \in Seq(RawFrame)
  BY DEF Sends, TypeOK, EndTypeOK, WriteTypeOK
<1>2. /\ f \in RawFrame /\ f.op \notin Control
      /\ f.fin <=> todo' = <<>>
      /\ todo' # <<>> => todo'[1].op = "Continue"
  BY <1>1, ChainTail DEF WireInv, Speaks
<1>3. /\ sent \in Seq(Sendable) /\ WireSays(fs, sent)
      /\ Midway(fs, f, Rest(todo), sent, encoded)
      /\ fs \in Seq(RawFrame)
  BY <1>1, WireType DEF SentInv
<1>4. todo' # <<>> => Head(todo').op = "Continue"
  <2>1. todo' \in Seq(RawFrame)
    BY <1>1, HeadTailProperties
  <2> QED
    BY <1>2, <2>1, HeadTailProperties
<1>5. m \in Sendable
  <2>1. Finished(fs, n) \in Nat
    <3>1. n \in 0..n
      BY <1>3, LenProperties
    <3> QED
      BY <1>3, <3>1, FinishedType
  <2>2. Len(sent) \in 1..Len(sent)
    BY <1>3, <2>1, LenProperties DEF Midway
  <2> QED
    BY <1>3, <2>2, ElementOfSeq
<1>6. /\ Len(sent) = Finished(fs, n) + 1
      /\ encoded = Expected(fs, KeptOut)
                     + IF Compresses(m.data) /\ KeptOut THEN 1 ELSE 0
      /\ Halfway(fs, f, Rest(todo), m)
  BY <1>3 DEF Midway
<1>7. Len(gs) = n + 1 /\ gs # <<>>
  BY <1>2, <1>3, Appended, AppendProperties
<1>8. /\ Kind(gs, Len(gs)) = m.kind
      /\ Compressed(gs, Len(gs)) = Compresses(m.data)
      /\ Bytes(gs, Len(gs)) \o Rest(todo') = Code(m, Expected(fs, KeptOut))
      /\ Bytes(gs, Len(gs)) \in Payload
  BY <1>1, <1>2, <1>3, <1>5, <1>6, SpokenMore
<1> HIDE DEF f, fs, gs, m
<1>9. CASE ~f.fin
  <2>1. ~Final(f)
    BY <1>9 DEF Final
  <2>2. /\ WireSays(gs, sent)
        /\ Finished(gs, Len(gs)) = Finished(fs, n)
        /\ Expected(gs, KeptOut) = Expected(fs, KeptOut)
    BY <1>2, <1>3, <2>1, WireSaysInside DEF gs
  <2>3. todo' # <<>> /\ Head(todo').op = "Continue"
    BY <1>2, <1>4, <1>9
  <2>4. Halfway(gs, Head(todo'), Rest(todo'), m)
    BY <1>7, <1>8, <2>2, <2>3 DEF Halfway
  <2>5. Midway(gs, Head(todo'), Rest(todo'), sent, encoded)
    BY <1>6, <2>2, <2>4 DEF Midway, m
  <2>6. Speaks'
    BY <2>3 DEF Speaks, Control
  <2> QED
    BY <1>1, <1>3, <2>2, <2>5, <2>6 DEF SentInv
<1>10. CASE f.fin
  <2>1. Final(f)
    BY <1>2, <1>10 DEF Final
  <2>2. todo' = <<>> /\ ~Speaks'
    BY <1>2, <1>10 DEF Speaks
  <2>3. Bytes(gs, Len(gs)) = Code(m, Expected(fs, KeptOut))
    BY <1>8, <2>2, RestEmpty, ConcatEmptySeq DEF Payload
  <2>4. /\ Sensible(gs, KeptOut)
        /\ MessageAt(gs, n + 1, KeptOut) = m
        /\ Expected(gs, KeptOut) = encoded
    BY <1>2, <1>3, <1>5, <1>6, <1>7, <1>8, <2>1, <2>3, SpokenWhole
    DEF WireSays, gs
  <2>5. WireSays(gs, sent) /\ Finished(gs, Len(gs)) = Len(sent)
    BY <1>2, <1>3, <1>6, <2>1, <2>4, WireSaysMore DEF gs, m
  <2>6. Level(gs, sent, encoded)
    BY <2>4, <2>5 DEF Level
  <2> QED
    BY <1>1, <1>3, <2>2, <2>5, <2>6 DEF SentInv
<1> QED
  BY <1>9, <1>10

\* A control frame goes on the wire: a reply of the task, between two frames
\* of a call or two calls, ...
LEMMA SentReplies ==
  ASSUME TypeOK, WireInv, SentInv, Replies
  PROVE  SentInv'
<1> DEFINE fs == OnWire
<1> DEFINE gs == Append(fs, hand)
<1>1. /\ hand \in RawFrame /\ hand.op \in Control
      /\ OnWire' = gs
      /\ UNCHANGED <<todo, broken, sent, encoded>>
  BY DEF Replies, WireInv, TypeOK, EndTypeOK, ReadTypeOK, HandTypeOK
<1>2. fs \in Seq(RawFrame) /\ sent \in Seq(Sendable) /\ WireSays(fs, sent)
  BY WireType DEF SentInv
<1>3. ~Final(hand)
  BY <1>1 DEF Final
<1>4. /\ WireSays(gs, sent)
      /\ Finished(gs, Len(gs)) = Finished(fs, Len(fs))
      /\ Expected(gs, KeptOut) = Expected(fs, KeptOut)
  BY <1>1, <1>2, <1>3, WireSaysInside
<1> HIDE DEF fs, gs
<1>5. Level(fs, sent, encoded) => Level(gs, sent, encoded)
  BY <1>4 DEF Level
<1>6. Midway(fs, Head(todo), Rest(todo), sent, encoded)
        => Midway(gs, Head(todo), Rest(todo), sent, encoded)
  BY <1>1, <1>2, <1>4, HalfwayAcross DEF Midway, gs
<1>7. Speaks' <=> Speaks
  BY <1>1 DEF Speaks
<1>8. Rest(todo') = Rest(todo) /\ Head(todo') = Head(todo)
  BY <1>1
<1> QED
  BY <1>1, <1>2, <1>4, <1>5, <1>6, <1>7, <1>8 DEF SentInv, fs

\* ... or the Ping or Close of a call.
LEMMA SentControls ==
  ASSUME TypeOK, WireInv, SentInv, Sends, ~Speaks
  PROVE  SentInv'
<1> DEFINE f == Head(todo)
<1> DEFINE fs == OnWire
<1> DEFINE gs == Append(fs, f)
<1>1. /\ todo # <<>> /\ ~broken /\ broken' = broken
      /\ OnWire' = gs /\ todo' = Tail(todo)
      /\ UNCHANGED <<sent, encoded>>
      /\ todo \in Seq(RawFrame)
  BY DEF Sends, TypeOK, EndTypeOK, WriteTypeOK
<1>2. f \in RawFrame /\ f.op \in Control /\ todo' = <<>>
  BY <1>1, ChainTail DEF WireInv, Speaks
<1>3. /\ fs \in Seq(RawFrame) /\ sent \in Seq(Sendable)
      /\ WireSays(fs, sent) /\ Level(fs, sent, encoded)
  BY <1>1, WireType DEF SentInv
<1>4. ~Final(f)
  BY <1>2 DEF Final
<1> HIDE DEF f, fs
<1>5. /\ WireSays(gs, sent)
      /\ Finished(gs, Len(gs)) = Finished(fs, Len(fs))
      /\ Expected(gs, KeptOut) = Expected(fs, KeptOut)
  BY <1>2, <1>3, <1>4, WireSaysInside
<1>6. Level(gs, sent, encoded) /\ ~Speaks'
  BY <1>2, <1>3, <1>5 DEF Level, Speaks
<1> QED
  BY <1>1, <1>3, <1>5, <1>6 DEF SentInv

LEMMA SentAsks ==
  ASSUME \A c \in LargeCalls : c.data # <<>>, TypeOK, SentInv, Asks
  PROVE  SentInv'
<1>1. Call /\ UNCHANGED <<OnWire, broken>>
  BY DEF Asks
<1>2. /\ OnWire \in Seq(RawFrame) /\ sent \in Seq(Sendable)
      /\ WireSays(OnWire, sent)
  BY WireType DEF SentInv
<1>3. /\ todo = <<>> /\ ~Speaks
      /\ ~broken => Level(OnWire, sent, encoded)
  BY <1>1, AskedSays DEF SentInv, Speaks
<1>4. CASE /\ UNCHANGED <<sent, encoded>>
           /\ todo' # <<>> /\ Head(todo').op \in Control
  <2>1. ~Speaks'
    BY <1>4 DEF Speaks
  <2> QED
    BY <1>1, <1>2, <1>3, <1>4, <2>1 DEF SentInv
<1>5. ASSUME NEW m \in Sendable,
             sent' = Append(sent, m), Says(todo', m, encoded),
             encoded' = encoded + IF Compresses(m.data) /\ KeptOut THEN 1 ELSE 0
      PROVE  SentInv'
  <2>1. /\ sent' \in Seq(Sendable) /\ Len(sent') = Len(sent) + 1
        /\ sent'[Len(sent')] = m
    BY <1>2, <1>5, AppendProperties, LenProperties
  <2>2. WireSays(OnWire, sent')
    BY <1>2, <1>5, WireSaysAsked
  <2>3. ~broken => Midway(OnWire, Head(todo'), Rest(todo'), sent', encoded')
    <3>1. Head(todo').op # "Continue"
      BY <1>5 DEF Says, Sendable, Data
    <3>2. ~broken => Halfway(OnWire, Head(todo'), Rest(todo'), m)
      BY <1>3, <1>5, <3>1 DEF Says, Halfway, Level
    <3> QED
      BY <1>3, <1>5, <2>1, <3>2 DEF Midway, Level
  <2>4. Speaks'
    BY <1>5 DEF Speaks, Says, Sendable, Data, Control
  <2> QED
    BY <1>1, <2>1, <2>2, <2>3, <2>4 DEF SentInv
<1> QED
  BY <1>1, <1>4, <1>5, AskedSays

LEMMA SentStep ==
  ASSUME \A c \in LargeCalls : c.data # <<>>
  PROVE  TypeOK /\ WireInv /\ SentInv /\ [Next]_vars => SentInv'
<1> SUFFICES ASSUME TypeOK, WireInv, SentInv, [Next]_vars PROVE SentInv'
  OBVIOUS
<1>1. CASE Reads
  BY <1>1 DEF Reads, SentInv, Speaks
<1>2. CASE WritesNothing
  <2>1. /\ OnWire' = OnWire /\ UNCHANGED <<sent, encoded>>
        /\ broken => broken'
        /\ todo' = todo \/ broken
    BY <1>2 DEF WritesNothing
  <2>2. CASE broken'
    BY <2>1, <2>2 DEF SentInv
  <2>3. CASE ~broken'
    <3>1. ~broken /\ todo' = todo
      BY <2>1, <2>3
    <3> QED
      BY <2>1, <3>1 DEF SentInv, Speaks
  <2> QED
    BY <2>2, <2>3
<1> QED
  BY <1>1, <1>2, SentReplies, SentGoesOn, SentControls, SentAsks, WireCases

\* The frames an end has put on the wire are those of the messages its calls
\* were given, each message whole, in order and once, what was compressed
\* readable to a peer that follows, whatever limits cut the messages into
\* frames and whatever the read task writes between them (split.rs:104-158,
\* 170-237); and between two calls none is missing.  Of a large call without
\* data there is no frame, so that it is supposed that there is no such call
\* (split.rs:124-134).
THEOREM SendsTheAsked ==
  ASSUME \A c \in LargeCalls : c.data # <<>>
  PROVE  Spec => []SendsWhatWasAsked
<1>1. TypeOK /\ WireInv /\ SentInv => SendsWhatWasAsked
  <2> SUFFICES ASSUME TypeOK, WireInv, SentInv PROVE SendsWhatWasAsked
    OBVIOUS
  <2>1. WellFragmented(OnWire) /\ WireSays(OnWire, sent)
    BY DEF WireInv, SentInv
  <2>2. call = "idle" /\ ~peerGone =>
          Finished(OnWire, Len(OnWire)) = Len(sent)
    <3>1. /\ call = "idle" => todo = <<>>
          /\ broken => peerGone
      BY DEF TypeOK, EndTypeOK, WriteTypeOK, LinkTypeOK
    <3> QED
      BY <3>1 DEF SentInv, Speaks, Level
  <2> QED
    BY <2>1, <2>2 DEF SendsWhatWasAsked, WireSays, KeptOut
<1>2. TypeOK /\ WireInv /\ SentInv /\ [Next]_vars => SentInv'
  BY SentStep
<1> QED
  BY <1>1, <1>2, InitType, StepType, WireInit, WireStep, SentInit, PTL
  DEF Spec
=============================================================================
