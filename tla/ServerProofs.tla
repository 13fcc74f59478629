---------------------------- MODULE ServerProofs ----------------------------
(***************************************************************************)
(* What the server keeps for any number of clients, failures and messages, *)
(* and any capacity of the event channel.                                  *)
(***************************************************************************)
EXTENDS Server, SequenceTheorems, FiniteSetTheorems, TLAPS

(***************************************************************************)
(* Types.  Every turn of the loop takes a connection or a failure of       *)
(* accept(), so that the turns do not run out of ids.                      *)
(***************************************************************************)
TurnInv ==
    /\ id = accepted + Cardinality(failed) + (IF at = "accept" THEN 1 ELSE 0)
    /\ Cardinality(failed) <= MaxFailures
    /\ failed \subseteq 1..(IF at = "accept" THEN id - 1 ELSE id)

LEMMA IdIsFinite ==
  /\ Id \subseteq Nat \ {0}
  /\ \A S \in SUBSET Id : IsFiniteSet(S) /\ Cardinality(S) \in Nat
<1>1. MaxClients + MaxFailures \in Nat
  BY ServerAssumption
<1>2. IsFiniteSet(Id)
  BY <1>1, FS_Interval DEF Id
<1>3. ASSUME NEW S \in SUBSET Id
      PROVE  IsFiniteSet(S) /\ Cardinality(S) \in Nat
  BY <1>2, FS_Subset, FS_CardinalityType
<1> QED
  BY <1>1, <1>3 DEF Id

\* A turn has an id of its own.
LEMMA TurnHasId ==
  ASSUME TypeOK, TurnInv,
         \/ at \in {"tls", "handshake", "send"}
         \/ at = "accept" /\ accepted < arrived
         \/ at = "accept" /\ Cardinality(failed) < MaxFailures
  PROVE  id \in Id
<1>1. /\ Cardinality(failed) \in Nat
      /\ MaxClients \in Nat /\ MaxFailures \in Nat
  BY IdIsFinite, ServerAssumption DEF TypeOK
<1>2. accepted \in Nat /\ arrived \in Nat /\ accepted <= arrived
      /\ arrived <= MaxClients /\ id \in Nat \ {0}
  BY <1>1 DEF TypeOK
<1> QED
  BY <1>1, <1>2 DEF TurnInv, Id

LEMMA EventTypes ==
  /\ {F!NewClient, F!Disconnect, F!Error} \subseteq Event
  /\ \A n \in 1..MaxMessages : F!NewMessage(n) \in Event
BY DEF Event

LEMMA InitType == Init => TypeOK /\ TurnInv
<1> SUFFICES ASSUME Init PROVE TypeOK /\ TurnInv
  OBVIOUS
<1>1. /\ MaxClients \in Nat /\ MaxFailures \in Nat /\ MaxMessages \in Nat
      /\ EventCap \in Nat
  BY ServerAssumption
<1>2. TypeOK
  <2>1. \A S : <<>> \in Seq(S) /\ Len(<<>>) = 0
    OBVIOUS
  <2>2. 1 \in 1..(MaxClients + MaxFailures + 1)
    BY <1>1
  <2>3. events \in Seq([id : Id, event : Event]) /\ Len(events) <= EventCap
    BY <1>1, <2>1 DEF Init
  <2>4. /\ pending \in [Id -> Event] /\ read \in [Id -> 0..MaxMessages]
        /\ heard \in [Id -> Seq(Event)]
    BY <1>1, <2>1, EventTypes DEF Init
  <2>5. {tls, extended, silent} \subseteq BOOLEAN
    BY DEF Init
  <2> QED
    BY <1>1, <2>2, <2>3, <2>4, <2>5 DEF Init, TypeOK
<1>3. TurnInv
  BY <1>1, FS_EmptySet DEF Init, TurnInv
<1> QED
  BY <1>2, <1>3

LEMMA SentType ==
  ASSUME TypeOK, NEW i \in Id, NEW e \in Event, Sent(i, e)
  PROVE  /\ events' \in Seq([id : Id, event : Event])
         /\ Len(events') <= EventCap
<1>1. events \in Seq([id : Id, event : Event]) /\ Len(events) \in Nat
  BY DEF TypeOK
<1> QED
  BY <1>1, AppendProperties, ServerAssumption DEF Sent

LEMMA LoopStepType ==
  ASSUME TypeOK, TurnInv, LoopWaits \/ LoopSends \/ LoopDies
  PROVE  TypeOK' /\ TurnInv'
<1>1. /\ MaxClients \in Nat /\ MaxFailures \in Nat
      /\ Cardinality(failed) \in Nat /\ IsFiniteSet(failed)
      /\ {F!NewClient, F!Error} \subseteq Event
  BY IdIsFinite, EventTypes, ServerAssumption DEF TypeOK
<1>2. /\ accepted \in Nat /\ arrived \in Nat /\ accepted <= arrived
      /\ arrived <= MaxClients /\ id \in Nat \ {0}
  BY <1>1 DEF TypeOK
<1>3. ASSUME Accept, UNCHANGED otherVars PROVE TypeOK' /\ TurnInv'
  <2>1. /\ accepted' = accepted + 1 /\ accepted' \in 0..arrived
        /\ at = "accept" /\ at' \in {"tls", "handshake"}
        /\ UNCHANGED <<failed, id, pending, task>>
    BY <1>2, <1>3 DEF Accept
  <2>2. TypeOK'
    BY <1>3, <2>1 DEF Accept, otherVars, TypeOK
  <2>3. TurnInv'
    BY <1>1, <1>2, <2>1 DEF TurnInv
  <2> QED
    BY <2>2, <2>3
<1>4. ASSUME AcceptFails, UNCHANGED otherVars PROVE TypeOK' /\ TurnInv'
  <2>1. /\ at = "accept" /\ at' = "send" /\ failed' = failed \cup {id}
        /\ Cardinality(failed) < MaxFailures
        /\ pending' = [pending EXCEPT ![id] = F!Error]
        /\ UNCHANGED <<accepted, id, silent, task>>
    BY <1>4 DEF AcceptFails, WillSend
  <2>2. id \in Id /\ id \notin failed
    BY <1>2, <2>1, TurnHasId DEF TurnInv
  <2>3. Cardinality(failed') = Cardinality(failed) + 1
    BY <1>1, <2>1, <2>2, FS_AddElement
  <2>4. TypeOK'
    BY <1>1, <1>4, <2>1, <2>2 DEF otherVars, TypeOK
  <2>5. TurnInv'
    <3>1. id = accepted + Cardinality(failed) + 1
      BY <2>1 DEF TurnInv
    <3>2. failed' \subseteq 1..(IF at' = "accept" THEN id' - 1 ELSE id')
      <4>1. failed \subseteq 1..(id - 1)
        BY <2>1 DEF TurnInv
      <4>2. ASSUME NEW t \in failed' PROVE t \in 1..id
        <5>1. t \in 1..(id - 1) \/ t = id
          BY <2>1, <4>1
        <5> QED
          BY <1>2, <5>1
      <4>3. at' # "accept" /\ id' = id
        BY <2>1
      <4> QED
        BY <4>2, <4>3
    <3>3. Cardinality(failed') <= MaxFailures
      BY <1>1, <2>1, <2>3
    <3>4. id' = accepted' + Cardinality(failed')
                    + (IF at' = "accept" THEN 1 ELSE 0)
      BY <1>1, <1>2, <2>1, <2>3, <3>1
    <3> QED
      BY <3>2, <3>3, <3>4 DEF TurnInv
  <2> QED
    BY <2>4, <2>5
<1>5. ASSUME TlsEnds \/ SilentClientLeaves \/ HandshakeSucceeds
                \/ HandshakeFails \/ HandshakePanics,
             UNCHANGED otherVars
      PROVE  TypeOK' /\ TurnInv'
  <2>1. /\ at \in {"tls", "handshake"} /\ at' \in {"handshake", "send", "dead"}
        /\ silent' \in BOOLEAN
        /\ \/ pending' = pending
           \/ \E e \in {F!NewClient, F!Error} :
                 pending' = [pending EXCEPT ![id] = e]
        /\ UNCHANGED <<accepted, failed, id, task>>
    BY <1>5
    DEF TlsEnds, SilentClientLeaves, HandshakeSucceeds, HandshakeFails,
      HandshakePanics, WillSend, TypeOK
  <2>2. TypeOK'
    BY <1>1, <1>5, <2>1 DEF otherVars, TypeOK
  <2>3. TurnInv'
    BY <1>1, <1>2, <2>1 DEF TurnInv
  <2> QED
    BY <2>2, <2>3
<1>6. ASSUME LoopSends PROVE TypeOK' /\ TurnInv'
  <2>1. /\ at = "send" /\ at' = "accept" /\ id' = id + 1
        /\ UNCHANGED <<accepted, arrived, failed>>
    BY <1>6 DEF LoopSends
  <2>2. id \in Id /\ pending[id] \in Event
    BY <2>1, TurnHasId DEF TypeOK
  <2>3. /\ events' \in Seq([id : Id, event : Event])
        /\ Len(events') <= EventCap
    BY <1>6, <2>2, SentType DEF LoopSends
  <2>4. id' \in 1..(MaxClients + MaxFailures + 1)
    BY <1>1, <2>1, <2>2 DEF Id
  <2>5. task' \in [Id -> {"none", "reads", "sends", "leaves", "done",
                         "panicked"}]
    BY <1>6, <2>2 DEF LoopSends, TypeOK
  <2>6. TypeOK'
    BY <1>6, <2>3, <2>4, <2>5 DEF LoopSends, TypeOK
  <2>7. TurnInv'
    BY <1>1, <1>2, <2>1 DEF TurnInv
  <2> QED
    BY <2>6, <2>7
<1>7. ASSUME LoopDies PROVE TypeOK' /\ TurnInv'
  <2>1. TypeOK'
    BY <1>7 DEF LoopDies, TypeOK
  <2>2. TurnInv'
    BY <1>7 DEF LoopDies, TurnInv
  <2> QED
    BY <2>1, <2>2
<1> QED
  BY <1>3, <1>4, <1>5, <1>6, <1>7 DEF LoopWaits, LoopGoesOn

LEMMA TaskStepType ==
  ASSUME TypeOK, NEW i \in Id, TaskStep(i)
  PROVE  TypeOK'
<1>1. MaxMessages \in Nat
  BY ServerAssumption
<1>2. \A place \in {"reads", "sends", "leaves", "done", "panicked"} :
        [task EXCEPT ![i] = place]
            \in [Id -> {"none", "reads", "sends", "leaves", "done",
                       "panicked"}]
  BY DEF TypeOK
<1>3. ASSUME TakesMessage(i) PROVE TypeOK'
  <2>1. read[i] \in 0..MaxMessages /\ read[i] < MaxMessages
    BY <1>3 DEF TypeOK, TakesMessage
  <2>2. /\ read' \in [Id -> 0..MaxMessages]
        /\ read'[i] \in 1..MaxMessages
    BY <1>1, <1>3, <2>1 DEF TakesMessage, TypeOK
  <2>3. pending' \in [Id -> Event]
    BY <1>3, <2>2, EventTypes DEF TakesMessage, TypeOK
  <2> QED
    BY <1>2, <1>3, <2>2, <2>3 DEF TakesMessage, Goes, loopVars, TypeOK
<1>4. ASSUME TakesError(i) PROVE TypeOK'
  <2>1. pending' \in [Id -> Event]
    BY <1>4, EventTypes DEF TakesError, TypeOK
  <2> QED
    BY <1>2, <1>4, <2>1 DEF TakesError, Goes, loopVars, TypeOK
<1>5. ASSUME TakesNone(i) \/ TaskDies(i) PROVE TypeOK'
  BY <1>2, <1>5 DEF TakesNone, TaskDies, Goes, loopVars, TypeOK
<1>6. ASSUME TaskSends(i) PROVE TypeOK'
  <2>1. pending[i] \in Event
    BY DEF TypeOK
  <2>2. /\ events' \in Seq([id : Id, event : Event])
        /\ Len(events') <= EventCap
    BY <1>6, <2>1, SentType DEF TaskSends
  <2> QED
    BY <1>2, <1>6, <2>2 DEF TaskSends, Goes, loopVars, TypeOK
<1>7. ASSUME SendsDisconnect(i) PROVE TypeOK'
  <2>1. /\ events' \in Seq([id : Id, event : Event])
        /\ Len(events') <= EventCap
    BY <1>7, SentType, EventTypes DEF SendsDisconnect, TypeOK
  <2> QED
    BY <1>2, <1>7, <2>1 DEF SendsDisconnect, Goes, loopVars, TypeOK
<1> QED
  BY <1>3, <1>4, <1>5, <1>6, <1>7 DEF TaskStep

LEMMA UserStepType ==
  ASSUME TypeOK, NextEvent \/ DropStream \/ Arrive
  PROVE  TypeOK'
<1>1. MaxClients \in Nat /\ EventCap \in Nat
  BY ServerAssumption
<1>2. events \in Seq([id : Id, event : Event])
  BY DEF TypeOK
<1>3. ASSUME NextEvent PROVE TypeOK'
  <2>1. /\ Head(events) \in [id : Id, event : Event]
        /\ events' \in Seq([id : Id, event : Event])
        /\ Len(events') = Len(events) - 1
    BY <1>2, <1>3, HeadTailProperties DEF NextEvent
  <2>2. Append(heard[Head(events).id], Head(events).event) \in Seq(Event)
    BY <2>1, AppendProperties DEF TypeOK
  <2>3. heard' \in [Id -> Seq(Event)]
    BY <1>3, <2>1, <2>2 DEF NextEvent, TypeOK
  <2>4. Len(events') <= EventCap
    BY <1>1, <1>2, <2>1 DEF TypeOK
  <2> QED
    BY <1>3, <2>1, <2>3, <2>4 DEF NextEvent, loopVars, TypeOK
<1>4. ASSUME DropStream PROVE TypeOK'
  BY <1>1, <1>4 DEF DropStream, loopVars, TypeOK
<1>5. ASSUME Arrive PROVE TypeOK'
  BY <1>1, <1>5 DEF Arrive, loopVars, TypeOK
<1> QED
  BY <1>3, <1>4, <1>5

LEMMA StepType == TypeOK /\ TurnInv /\ [Next]_vars => TypeOK' /\ TurnInv'
<1> SUFFICES ASSUME TypeOK, TurnInv, [Next]_vars
             PROVE  TypeOK' /\ TurnInv'
  OBVIOUS
<1>1. CASE LoopWaits \/ LoopSends \/ LoopDies
  BY <1>1, LoopStepType
<1>2. ASSUME UNCHANGED loopVars PROVE TurnInv'
  BY <1>2 DEF loopVars, TurnInv
<1>3. ASSUME NEW i \in Id, TaskStep(i) PROVE TypeOK' /\ TurnInv'
  <2>1. UNCHANGED loopVars
    BY <1>3
    DEF TaskStep, TakesMessage, TakesError, TakesNone, TaskSends, TaskDies,
      SendsDisconnect
  <2> QED
    BY <1>2, <1>3, <2>1, TaskStepType
<1>4. CASE NextEvent \/ DropStream \/ Arrive
  BY <1>2, <1>4, UserStepType DEF NextEvent, DropStream, Arrive
<1>5. CASE UNCHANGED vars
  <2>1. TypeOK'
    BY <1>5 DEF vars, loopVars, TypeOK
  <2> QED
    BY <1>2, <1>5, <2>1 DEF vars
<1> QED
  BY <1>1, <1>3, <1>4, <1>5 DEF Next

\* Each task is at a place of its code, no turn of the loop is without an
\* id, and the channel never holds more events than it has places
\* (server.rs:25, 32-93).
THEOREM TypeCorrect == Spec => []TypeOK
BY InitType, StepType, PTL DEF Spec

(***************************************************************************)
(* The feed of one id, from what has been heard through the channel to     *)
(* what its task is about to send.                                         *)
(***************************************************************************)

\* What a client's task tells of a connection that goes well: NewClient, then
\* its messages.
Nth(n) == IF n = 0 THEN F!NewClient ELSE F!NewMessage(n)

\* e may come right after d.
Follows(d, e) ==
    \/ \E n \in 0..MaxMessages :
         d = Nth(n) /\ e \in {Nth(n + 1), F!Error, F!Disconnect}
    \/ d = F!Error /\ e = F!Disconnect

\* e is the last that has been sent about i.
Latest(i, e) ==
    \/ \E k \in 1..Len(events) :
          /\ events[k] = [id |-> i, event |-> e]
          /\ \A l \in (k + 1)..Len(events) : events[l].id # i
    \/ /\ \A l \in 1..Len(events) : events[l].id # i
       /\ heard[i] # <<>> /\ F!Last(i) = e

\* The first event about i in the channel continues what has been heard.
Starts(i) ==
    \A k \in 1..Len(events) :
        /\ events[k].id = i
        /\ \A j \in 1..(k - 1) : events[j].id # i
        => IF heard[i] = <<>>
           THEN events[k].event =
                    IF task[i] = "none" THEN F!Error ELSE F!NewClient
           ELSE task[i] # "none" /\ Follows(F!Last(i), events[k].event)

\* Each other one continues the one before it.
Continues(i) ==
    \A j \in 1..Len(events) : \A k \in (j + 1)..Len(events) :
        /\ events[j].id = i /\ events[k].id = i
        /\ \A l \in (j + 1)..(k - 1) : events[l].id # i
        => task[i] # "none" /\ Follows(events[j].event, events[k].event)

\* What has been heard is a connection's, and its length that of its last
\* message.
Remembers(i) ==
    heard[i] # <<>> /\ task[i] # "none" =>
        /\ heard[i][1] = F!NewClient
        /\ \A n \in 0..MaxMessages : F!Last(i) = Nth(n) => Len(heard[i]) = n + 1

\* What its task sends next continues what has been sent last.
IsUpToDate(i) ==
    CASE task[i] = "none" ->
            i >= id =>
                /\ heard[i] = <<>>
                /\ \A k \in 1..Len(events) : events[k].id # i
      [] task[i] = "reads" -> Latest(i, Nth(read[i]))
      [] task[i] = "sends" ->
            \/ pending[i] = F!Error /\ Latest(i, Nth(read[i]))
            \/ /\ read[i] # 0 /\ pending[i] = Nth(read[i])
               /\ Latest(i, Nth(read[i] - 1))
      [] task[i] = "leaves" -> Latest(i, Nth(read[i])) \/ Latest(i, F!Error)
      [] OTHER -> TRUE

FeedInv ==
    /\ at = "send" => pending[id] \in {F!NewClient, F!Error}
    /\ \A i \in Id : i >= id => task[i] = "none" /\ read[i] = 0
    /\ stream = "open" =>
          \A i \in Id :
              Starts(i) /\ Continues(i) /\ Remembers(i) /\ IsUpToDate(i)

\* The events are told apart by their kinds and numbers.
LEMMA EventsDiffer ==
  /\ Nth(0) = F!NewClient /\ F!NewClient # F!Error
  /\ F!Error # F!Disconnect
  /\ \A n \in Nat : /\ Nth(n).kind \in {"NewClient", "NewMessage"}
                    /\ Nth(n) \notin {F!Error, F!Disconnect}
                    /\ \A m \in Nat : Nth(n) = Nth(m) => n = m
                    /\ n # 0 => Nth(n) = F!NewMessage(n)
BY DEF Nth, F!NewClient, F!Error, F!Disconnect, F!NewMessage

LEMMA Appended ==
  ASSUME TypeOK, NEW j \in Id, NEW e \in Event,
         events' = Append(events, [id |-> j, event |-> e])
  PROVE  /\ Len(events) \in Nat /\ Len(events') = Len(events) + 1
         /\ \A k \in 1..Len(events) : events'[k] = events[k]
         /\ events'[Len(events')] = [id |-> j, event |-> e]
BY AppendProperties DEF TypeOK

\* An event about j changes nothing for any other id.
LEMMA SendLeavesOthers ==
  ASSUME TypeOK, NEW i \in Id, NEW j \in Id, i # j, NEW e \in Event,
         events' = Append(events, [id |-> j, event |-> e]),
         UNCHANGED <<heard, task[i]>>
  PROVE  /\ Starts(i) => Starts(i)'
         /\ Continues(i) => Continues(i)'
         /\ Remembers(i) => Remembers(i)'
         /\ \A d : Latest(i, d) => Latest(i, d)'
         /\ (\A k \in 1..Len(events) : events[k].id # i)
              => \A k \in 1..Len(events') : events'[k].id # i
<1>1. /\ Len(events) \in Nat /\ Len(events') = Len(events) + 1
      /\ \A k \in 1..Len(events) : events'[k] = events[k]
      /\ events'[Len(events')].id # i
  BY Appended
<1>2. \A k \in 1..Len(events') : events'[k].id = i => k \in 1..Len(events)
  BY <1>1
<1>3. Starts(i) => Starts(i)'
  BY <1>1, <1>2 DEF Starts, F!Last
<1>4. ASSUME Continues(i) PROVE Continues(i)'
  <2>1. ASSUME NEW m \in 1..Len(events'), NEW n \in (m + 1)..Len(events'),
               events'[m].id = i, events'[n].id = i,
               \A l \in (m + 1)..(n - 1) : events'[l].id # i
        PROVE  task[i] # "none" /\ Follows(events'[m].event, events'[n].event)
    <3>1. /\ m \in 1..Len(events) /\ n \in (m + 1)..Len(events)
          /\ events[m] = events'[m] /\ events[n] = events'[n]
          /\ \A l \in (m + 1)..(n - 1) : events[l].id # i
      BY <1>1, <1>2, <2>1
    <3> QED
      BY <1>4, <2>1, <3>1 DEF Continues
  <2> QED
    BY <2>1 DEF Continues
<1>5. Remembers(i) => Remembers(i)'
  BY DEF Remembers, F!Last
<1>6. ASSUME NEW d, Latest(i, d) PROVE Latest(i, d)'
  BY <1>1, <1>2, <1>6 DEF Latest, F!Last
<1> QED
  BY <1>1, <1>2, <1>3, <1>4, <1>5, <1>6

\* An event that follows the latest one about j, or is the first about it.
LEMMA SendContinues ==
  ASSUME TypeOK, NEW j \in Id, NEW e \in Event,
         events' = Append(events, [id |-> j, event |-> e]), heard' = heard,
         Starts(j), Continues(j), Remembers(j),
         \/ /\ heard[j] = <<>>
            /\ \A k \in 1..Len(events) : events[k].id # j
            /\ e = IF task'[j] = "none" THEN F!Error ELSE F!NewClient
         \/ /\ task[j] # "none" /\ task'[j] # "none"
            /\ \E d : Latest(j, d) /\ Follows(d, e)
  PROVE  Starts(j)' /\ Continues(j)' /\ Remembers(j)' /\ Latest(j, e)'
<1>1. /\ Len(events) \in Nat /\ Len(events') = Len(events) + 1
      /\ \A k \in 1..Len(events) : events'[k] = events[k]
      /\ events'[Len(events')] = [id |-> j, event |-> e]
  BY Appended
<1>2. Latest(j, e)'
  BY <1>1 DEF Latest
<1>3. CASE /\ heard[j] = <<>>
           /\ \A k \in 1..Len(events) : events[k].id # j
           /\ e = IF task'[j] = "none" THEN F!Error ELSE F!NewClient
  <2>1. \A k \in 1..Len(events') : events'[k].id = j => k = Len(events')
    BY <1>1, <1>3
  <2> QED
    BY <1>1, <1>2, <1>3, <2>1 DEF Starts, Continues, Remembers
<1>4. ASSUME task[j] # "none", task'[j] # "none",
             NEW d, Latest(j, d), Follows(d, e)
      PROVE  Starts(j)' /\ Continues(j)' /\ Remembers(j)'
  <2>1. CASE /\ \A l \in 1..Len(events) : events[l].id # j
             /\ heard[j] # <<>> /\ F!Last(j) = d
    <3>1. \A k \in 1..Len(events') : events'[k].id = j => k = Len(events')
      BY <1>1, <2>1
    <3> QED
      BY <1>1, <1>4, <2>1, <3>1 DEF Starts, Continues, Remembers, F!Last
  <2>2. ASSUME NEW k \in 1..Len(events),
               events[k] = [id |-> j, event |-> d],
               \A l \in (k + 1)..Len(events) : events[l].id # j
        PROVE  Starts(j)' /\ Continues(j)' /\ Remembers(j)'
    <3>1. Starts(j)'
      BY <1>1, <1>4, <2>2 DEF Starts, F!Last
    <3>2. ASSUME NEW m \in 1..Len(events'), NEW n \in (m + 1)..Len(events'),
                 events'[m].id = j, events'[n].id = j,
                 \A l \in (m + 1)..(n - 1) : events'[l].id # j
          PROVE  Follows(events'[m].event, events'[n].event)
      <4>1. CASE n \in 1..Len(events)
        BY <1>1, <3>2, <4>1 DEF Continues
      <4>2. CASE n = Len(events')
        <5>1. m = k
          BY <1>1, <2>2, <3>2, <4>2
        <5> QED
          BY <1>1, <1>4, <2>2, <4>2, <5>1
      <4> QED
        BY <1>1, <4>1, <4>2
    <3>3. Continues(j)'
      BY <1>4, <3>2 DEF Continues
    <3>4. Remembers(j)'
      BY <1>4 DEF Remembers, F!Last
    <3> QED
      BY <3>1, <3>3, <3>4
  <2> QED
    BY <1>4, <2>1, <2>2 DEF Latest
<1> QED
  BY <1>2, <1>3, <1>4

LEMMA HeardNext ==
  ASSUME TypeOK, NextEvent
  PROVE  /\ Head(events).id \in Id /\ Head(events).event \in Event
         /\ Head(events) = events[1] /\ stream = "open"
         /\ Len(events) \in Nat \ {0} /\ Len(events') = Len(events) - 1
         /\ \A k \in 1..Len(events') : events'[k] = events[k + 1]
<1>1. /\ events \in Seq([id : Id, event : Event]) /\ events # <<>>
      /\ events' = Tail(events) /\ stream = "open"
  BY DEF TypeOK, NextEvent
<1>2. Head(events) \in [id : Id, event : Event]
  BY <1>1, HeadTailProperties
<1> QED
  BY <1>1, <1>2, HeadTailProperties, EmptySeq

\* What is heard next of i continues what has been heard of it, and the rest
\* of the channel continues that.
LEMMA HearLeavesOthers ==
  ASSUME TypeOK, NEW i \in Id, NextEvent, Head(events).id # i
  PROVE  /\ heard'[i] = heard[i]
         /\ Starts(i) => Starts(i)'
         /\ Continues(i) => Continues(i)'
         /\ Remembers(i) => Remembers(i)'
         /\ \A d : Latest(i, d) => Latest(i, d)'
         /\ (\A k \in 1..Len(events) : events[k].id # i)
              => \A k \in 1..Len(events') : events'[k].id # i
<1>1. /\ Len(events) \in Nat \ {0} /\ Len(events') = Len(events) - 1
      /\ events[1].id # i
      /\ \A k \in 1..Len(events') : events'[k] = events[k + 1]
  BY HeardNext
<1>2. heard'[i] = heard[i] /\ task' = task
  BY DEF TypeOK, NextEvent
<1>3. ASSUME Starts(i) PROVE Starts(i)'
  <2>1. ASSUME NEW k \in 1..Len(events'), events'[k].id = i,
               \A j \in 1..(k - 1) : events'[j].id # i
        PROVE  /\ k + 1 \in 1..Len(events) /\ events[k + 1] = events'[k]
               /\ \A j \in 1..k : events[j].id # i
    <3>1. \A j \in 2..k : events[j] = events'[j - 1]
      BY <1>1
    <3> QED
      BY <1>1, <2>1, <3>1
  <2> QED
    BY <1>2, <1>3, <2>1 DEF Starts, F!Last
<1>4. ASSUME Continues(i) PROVE Continues(i)'
  <2>1. ASSUME NEW m \in 1..Len(events'), NEW n \in (m + 1)..Len(events'),
               events'[m].id = i, events'[n].id = i,
               \A l \in (m + 1)..(n - 1) : events'[l].id # i
        PROVE  task[i] # "none" /\ Follows(events'[m].event, events'[n].event)
    <3>1. /\ m + 1 \in 1..Len(events)
          /\ n + 1 \in (m + 1 + 1)..Len(events)
          /\ events[m + 1] = events'[m] /\ events[n + 1] = events'[n]
      BY <1>1
    <3>2. \A l \in (m + 1 + 1)..(n + 1 - 1) : events[l].id # i
      <4>1. \A l \in (m + 1 + 1)..(n + 1 - 1) :
                /\ l - 1 \in (m + 1)..(n - 1)
                /\ events[l] = events'[l - 1]
        BY <1>1
      <4> QED
        BY <2>1, <4>1
    <3> DEFINE p == m + 1
               q == n + 1
    <3>3. /\ p \in 1..Len(events) /\ q \in (p + 1)..Len(events)
          /\ events[p] = events'[m] /\ events[q] = events'[n]
          /\ events[p].id = i /\ events[q].id = i
          /\ \A l \in (p + 1)..(q - 1) : events[l].id # i
      BY <2>1, <3>1, <3>2
    <3> HIDE DEF p, q
    <3>4. task[i] # "none" /\ Follows(events[p].event, events[q].event)
      BY <1>4, <3>3 DEF Continues
    <3> QED
      BY <3>3, <3>4
  <2> QED
    BY <1>2, <2>1 DEF Continues
<1>5. Remembers(i) => Remembers(i)'
  BY <1>2 DEF Remembers, F!Last
<1>6. (\A k \in 1..Len(events) : events[k].id # i)
        => \A k \in 1..Len(events') : events'[k].id # i
  BY <1>1
<1>7. ASSUME NEW d, Latest(i, d) PROVE Latest(i, d)'
  <2>1. ASSUME NEW k \in 1..Len(events),
               events[k] = [id |-> i, event |-> d],
               \A l \in (k + 1)..Len(events) : events[l].id # i
        PROVE  Latest(i, d)'
    <3>1. k - 1 \in 1..Len(events') /\ events'[k - 1] = events[k]
      BY <1>1, <2>1
    <3>2. \A l \in k..Len(events') : events'[l].id # i
      BY <1>1, <2>1
    <3> QED
      BY <2>1, <3>1, <3>2 DEF Latest
  <2> QED
    BY <1>2, <1>6, <1>7, <2>1 DEF Latest, F!Last
<1> QED
  BY <1>2, <1>3, <1>4, <1>5, <1>6, <1>7

LEMMA HearContinues ==
  ASSUME TypeOK, NEW i \in Id, NextEvent, Head(events).id = i,
         Starts(i), Continues(i), Remembers(i)
  PROVE  /\ Starts(i)' /\ Continues(i)' /\ Remembers(i)'
         /\ \A d : Latest(i, d) => Latest(i, d)'
         /\ F!Comes(i) \/ F!Speaks(i) \/ F!Fails(i) \/ F!Leaves(i)
<1> DEFINE e == Head(events).event
<1>1. /\ Len(events) \in Nat \ {0} /\ Len(events') = Len(events) - 1
      /\ events[1] = Head(events) /\ e \in Event
      /\ \A k \in 1..Len(events') : events'[k] = events[k + 1]
  BY HeardNext
<1>2. /\ heard' = [heard EXCEPT ![i] = Append(heard[i], e)]
      /\ heard[i] \in Seq(Event) /\ task' = task
  BY DEF TypeOK, NextEvent
<1> HIDE DEF e
<1>3. /\ Len(heard[i]) \in Nat /\ Len(heard'[i]) = Len(heard[i]) + 1
      /\ heard'[i] # <<>> /\ F!Last(i)' = e
      /\ heard[i] # <<>> => heard'[i][1] = heard[i][1]
      /\ heard[i] = <<>> => heard'[i][1] = e
  <2>1. heard'[i] = Append(heard[i], e)
    BY <1>2 DEF TypeOK
  <2> QED
    BY <1>1, <1>2, <2>1, AppendProperties, EmptySeq DEF F!Last
<1>4. IF heard[i] = <<>>
      THEN e = IF task[i] = "none" THEN F!Error ELSE F!NewClient
      ELSE task[i] # "none" /\ Follows(F!Last(i), e)
  BY <1>1 DEF Starts, e
<1>5. Starts(i)'
  <2>1. ASSUME NEW k \in 1..Len(events'), events'[k].id = i,
               \A j \in 1..(k - 1) : events'[j].id # i
        PROVE  task[i] # "none" /\ Follows(e, events'[k].event)
    <3>1. \A j \in 2..k : events[j] = events'[j - 1] /\ j - 1 \in 1..(k - 1)
      BY <1>1
    <3>2. \A j \in 2..k : events[j].id # i
      BY <2>1, <3>1
    <3>3. /\ 1 \in 1..Len(events) /\ k + 1 \in 2..Len(events)
          /\ events[k + 1] = events'[k]
      BY <1>1
    <3> QED
      BY <1>1, <2>1, <3>2, <3>3 DEF Continues, e
  <2> QED
    BY <1>2, <1>3, <2>1 DEF Starts
<1>6. Continues(i)'
  <2>1. ASSUME NEW m \in 1..Len(events'), NEW n \in (m + 1)..Len(events'),
               events'[m].id = i, events'[n].id = i,
               \A l \in (m + 1)..(n - 1) : events'[l].id # i
        PROVE  task[i] # "none" /\ Follows(events'[m].event, events'[n].event)
    <3>1. /\ m + 1 \in 1..Len(events)
          /\ n + 1 \in (m + 1 + 1)..Len(events)
          /\ events[m + 1] = events'[m] /\ events[n + 1] = events'[n]
      BY <1>1
    <3>2. \A l \in (m + 1 + 1)..(n + 1 - 1) : events[l].id # i
      <4>1. \A l \in (m + 1 + 1)..(n + 1 - 1) :
                /\ l - 1 \in (m + 1)..(n - 1)
                /\ events[l] = events'[l - 1]
        BY <1>1
      <4> QED
        BY <2>1, <4>1
    <3> DEFINE p == m + 1
               q == n + 1
    <3>3. /\ p \in 1..Len(events) /\ q \in (p + 1)..Len(events)
          /\ events[p] = events'[m] /\ events[q] = events'[n]
          /\ events[p].id = i /\ events[q].id = i
          /\ \A l \in (p + 1)..(q - 1) : events[l].id # i
      BY <2>1, <3>1, <3>2
    <3> HIDE DEF p, q
    <3>4. task[i] # "none" /\ Follows(events[p].event, events[q].event)
      BY <3>3 DEF Continues
    <3> QED
      BY <3>3, <3>4
  <2> QED
    BY <1>2, <2>1 DEF Continues
<1>7. ASSUME NEW n \in 0..MaxMessages, e = Nth(n), task[i] # "none"
      PROVE  Len(heard[i]) = n
  <2>1. n \in Nat /\ MaxMessages \in Nat
    BY ServerAssumption
  <2>2. CASE heard[i] = <<>>
    BY <1>4, <1>7, <2>1, <2>2, EventsDiffer, EmptySeq
  <2>3. CASE heard[i] # <<>>
    <3>1. PICK m \in 0..MaxMessages : F!Last(i) = Nth(m) /\ e = Nth(m + 1)
      BY <1>4, <1>7, <2>1, <2>3, EventsDiffer DEF Follows
    <3>2. m + 1 = n
      <4>1. m + 1 \in Nat /\ Nth(m + 1) = Nth(n)
        BY <1>7, <2>1, <3>1
      <4> QED
        BY <2>1, <4>1, EventsDiffer
    <3> QED
      BY <1>7, <2>3, <3>1, <3>2 DEF Remembers
  <2> QED
    BY <2>2, <2>3
<1>8. Remembers(i)'
  BY <1>2, <1>3, <1>4, <1>7 DEF Remembers
<1>9. ASSUME NEW d, Latest(i, d) PROVE Latest(i, d)'
  <2>1. PICK k \in 1..Len(events) :
          /\ events[k] = [id |-> i, event |-> d]
          /\ \A l \in (k + 1)..Len(events) : events[l].id # i
    BY <1>1, <1>9 DEF Latest
  <2>2. \A l \in k..Len(events') : events'[l].id # i
    BY <1>1, <2>1
  <2>3. CASE k = 1
    BY <1>1, <1>3, <2>1, <2>2, <2>3 DEF Latest, e
  <2>4. CASE k # 1
    <3>1. k - 1 \in 1..Len(events') /\ events'[k - 1] = events[k]
      BY <1>1, <2>4
    <3> QED
      BY <2>1, <2>2, <3>1 DEF Latest
  <2> QED
    BY <2>3, <2>4
<1>10. F!Tell(i, e)
  BY <1>2 DEF F!Tell
<1>11. ASSUME heard[i] = <<>> PROVE F!Comes(i) \/ F!Fails(i)
  BY <1>4, <1>10, <1>11 DEF F!Comes, F!Fails
<1>12. ASSUME heard[i] # <<>>
       PROVE  F!Speaks(i) \/ F!Fails(i) \/ F!Leaves(i)
  <2>1. heard[i][1] = F!NewClient /\ task[i] # "none"
    BY <1>4, <1>12 DEF Remembers
  <2>2. ASSUME NEW m \in 0..MaxMessages, F!Last(i) = Nth(m),
               e \in {Nth(m + 1), F!Error, F!Disconnect}
        PROVE  F!Speaks(i) \/ F!Fails(i) \/ F!Leaves(i)
    <3>1. m \in Nat /\ m + 1 \in Nat \ {0}
      BY ServerAssumption
    <3>2. F!Connected(i) /\ F!Last(i) # F!Disconnect
      BY <1>12, <2>2, <3>1, EventsDiffer DEF F!Connected
    <3>3. Len(heard[i]) = m + 1 /\ Nth(m + 1) = F!NewMessage(m + 1)
      BY <1>12, <2>1, <2>2, <3>1, EventsDiffer DEF Remembers
    <3> QED
      BY <1>10, <1>12, <2>1, <2>2, <3>2, <3>3 DEF F!Speaks, F!Fails, F!Leaves
  <2>3. ASSUME F!Last(i) = F!Error, e = F!Disconnect
        PROVE  F!Leaves(i)
    BY <1>10, <1>12, <2>1, <2>3, EventsDiffer DEF F!Leaves
  <2> QED
    BY <1>4, <1>12, <2>2, <2>3 DEF Follows
<1> QED
  BY <1>5, <1>6, <1>8, <1>9, <1>11, <1>12

(***************************************************************************)
(* The invariant of the feed.                                              *)
(***************************************************************************)
FeedOf(i) == Starts(i) /\ Continues(i) /\ Remembers(i) /\ IsUpToDate(i)

LEMMA FeedInit == Init => FeedInv
<1> SUFFICES ASSUME Init PROVE FeedInv
  OBVIOUS
<1>1. Len(events) = 0
  BY EmptySeq DEF Init
<1> QED
  BY <1>1
  DEF Init, FeedInv, Starts, Continues, Remembers, IsUpToDate

\* Nothing about the feed of i has changed.
LEMMA FeedUntouched ==
  ASSUME NEW i \in Id, FeedOf(i),
         UNCHANGED <<events, heard, task[i], read[i]>>,
         task[i] # "none" => pending'[i] = pending[i],
         task[i] = "none" => id' >= id /\ id \in Nat /\ id' \in Nat
  PROVE  FeedOf(i)'
<1>1. \A d : Latest(i, d)' <=> Latest(i, d)
  BY DEF Latest, F!Last
<1>2. Starts(i)' /\ Continues(i)' /\ Remembers(i)'
  BY DEF FeedOf, Starts, Continues, Remembers, F!Last
<1>3. IsUpToDate(i)'
  <2>1. CASE task[i] = "none"
    BY <2>1, IdIsFinite DEF FeedOf, IsUpToDate
  <2>2. CASE task[i] # "none"
    BY <1>1, <2>2 DEF FeedOf, IsUpToDate
  <2> QED
    BY <2>1, <2>2
<1> QED
  BY <1>2, <1>3 DEF FeedOf

\* An event about j is sent.
LEMMA FeedSend ==
  ASSUME TypeOK, TypeOK', NEW j \in Id, NEW e \in Event,
         events' = Append(events, [id |-> j, event |-> e]),
         UNCHANGED <<heard, pending, read>>,
         \A i \in Id \ {j} : task'[i] = task[i], id' >= id,
         \A i \in Id : FeedOf(i),
         \/ /\ heard[j] = <<>>
            /\ \A k \in 1..Len(events) : events[k].id # j
            /\ e = IF task'[j] = "none" THEN F!Error ELSE F!NewClient
         \/ /\ task[j] # "none" /\ task'[j] # "none"
            /\ \E d : Latest(j, d) /\ Follows(d, e),
         Latest(j, e)' => IsUpToDate(j)'
  PROVE  \A i \in Id : FeedOf(i)'
<1>1. ASSUME NEW i \in Id \ {j} PROVE FeedOf(i)'
  <2>1. /\ Starts(i)' /\ Continues(i)' /\ Remembers(i)'
        /\ \A d : Latest(i, d) => Latest(i, d)'
        /\ (\A k \in 1..Len(events) : events[k].id # i)
             => \A k \in 1..Len(events') : events'[k].id # i
    BY SendLeavesOthers DEF FeedOf
  <2>2. IsUpToDate(i)'
    <3>1. id \in Nat /\ id' \in Nat /\ i \in Nat
      BY IdIsFinite, ServerAssumption DEF TypeOK
    <3> QED
      BY <2>1, <3>1 DEF FeedOf, IsUpToDate
  <2> QED
    BY <2>1, <2>2 DEF FeedOf
<1>2. FeedOf(j)'
  BY SendContinues DEF FeedOf
<1> QED
  BY <1>1, <1>2

LEMMA FeedStep == TypeOK /\ TurnInv /\ FeedInv /\ [Next]_vars => FeedInv'
<1> SUFFICES ASSUME TypeOK, TurnInv, FeedInv, [Next]_vars
             PROVE  FeedInv'
  OBVIOUS
<1>1. TypeOK'
  BY StepType
<1>2. id \in Nat /\ id' \in Nat /\ MaxMessages \in Nat
  BY <1>1, ServerAssumption DEF TypeOK
<1>3. stream = "open" => \A i \in Id : FeedOf(i)
  BY DEF FeedInv, FeedOf
<1>4. ASSUME UNCHANGED <<task, events, stream, heard, read, id>>,
             \A i \in Id : task[i] # "none" => pending'[i] = pending[i],
             at' = "send" => pending'[id] \in {F!NewClient, F!Error}
      PROVE  FeedInv'
  <2>1. ASSUME NEW i \in Id, stream = "open" PROVE FeedOf(i)'
    BY <1>2, <1>3, <1>4, <2>1, FeedUntouched
  <2> QED
    BY <1>4, <2>1 DEF FeedInv, FeedOf
<1>5. ASSUME LoopWaits PROVE FeedInv'
  <2>1. /\ UNCHANGED <<task, events, stream, heard, read, id>>
        /\ \/ at' # "send" /\ pending' = pending
           \/ \E e \in {F!NewClient, F!Error} : WillSend(e)
    BY <1>5
    DEF LoopWaits, LoopGoesOn, otherVars, Accept, AcceptFails, TlsEnds,
      SilentClientLeaves, HandshakeSucceeds, HandshakeFails, HandshakePanics
  <2>2. at \in {"accept", "tls", "handshake"}
        /\ (at = "accept" => accepted < arrived
                              \/ Cardinality(failed) < MaxFailures)
    BY <1>5
    DEF LoopWaits, LoopGoesOn, Accept, AcceptFails, TlsEnds,
      SilentClientLeaves, HandshakeSucceeds, HandshakeFails, HandshakePanics
  <2>3. id \in Id /\ task[id] = "none"
    BY <1>2, <2>2, TurnHasId DEF FeedInv
  <2> QED
    BY <1>4, <2>1, <2>3 DEF WillSend, TypeOK
<1>6. ASSUME LoopSends, NEW j \in Id, j = id PROVE FeedInv'
  <2>1. /\ at = "send" /\ at' = "accept" /\ id' = j + 1
        /\ stream = "open" /\ stream' = "open"
        /\ events' = Append(events, [id |-> j, event |-> pending[j]])
        /\ UNCHANGED <<heard, pending, read>>
        /\ task' = IF pending[j] = F!NewClient
                   THEN [task EXCEPT ![j] = "reads"] ELSE task
    BY <1>6 DEF LoopSends, Sent
  <2>2. /\ pending[j] \in {F!NewClient, F!Error}
        /\ pending[j] \in Event /\ task[j] = "none" /\ read[j] = 0
    BY <1>2, <1>6, <2>1, EventTypes DEF FeedInv
  <2>3. /\ heard[j] = <<>>
        /\ \A k \in 1..Len(events) : events[k].id # j
    BY <1>2, <1>3, <1>6, <2>1, <2>2 DEF FeedOf, IsUpToDate
  <2>4. /\ \A i \in Id \ {j} : task'[i] = task[i]
        /\ task'[j] = IF pending[j] = F!NewClient THEN "reads" ELSE "none"
    BY <2>1, <2>2 DEF TypeOK
  <2>5. ASSUME Latest(j, pending[j])' PROVE IsUpToDate(j)'
    <3>1. CASE pending[j] = F!NewClient
      BY <2>1, <2>2, <2>4, <2>5, <3>1, EventsDiffer DEF IsUpToDate
    <3>2. CASE pending[j] # F!NewClient
      BY <1>2, <2>1, <2>4, <3>2, IdIsFinite DEF IsUpToDate
    <3> QED
      BY <3>1, <3>2
  <2>6. \A i \in Id : FeedOf(i)'
    <3>1. pending[j] = IF task'[j] = "none" THEN F!Error ELSE F!NewClient
      BY <2>2, <2>4
    <3> QED
      BY <1>1, <1>2, <1>3, <1>6, <2>1, <2>2, <2>3, <2>4, <2>5, <3>1, FeedSend
  <2>7. \A i \in Id : i >= id' => task'[i] = "none" /\ read'[i] = 0
    <3>1. \A i \in Id : i >= j + 1 => i >= id /\ i # j
      BY <1>2, <1>6, IdIsFinite
    <3> QED
      BY <2>1, <2>4, <3>1 DEF FeedInv
  <2> QED
    BY <2>1, <2>6, <2>7 DEF FeedInv, FeedOf
<1>7. ASSUME NEW j \in Id, TaskStep(j) PROVE FeedInv'
  <2>1. /\ task[j] \notin {"none", "done", "panicked"}
        /\ UNCHANGED <<at, id, stream, heard>>
    BY <1>7
    DEF TaskStep, TakesMessage, TakesError, TakesNone, TaskSends, TaskDies,
      SendsDisconnect, Goes, loopVars
  <2>2. /\ \A i \in Id \ {j} : UNCHANGED <<task[i], pending[i], read[i]>>
        /\ task'[j] # "none"
    BY <1>7
    DEF TaskStep, TakesMessage, TakesError, TakesNone, TaskSends, TaskDies,
      SendsDisconnect, Goes, TypeOK
  <2>3. \A i \in Id : i >= id => i # j
    BY <2>1 DEF FeedInv
  <2>4. at' = "send" => pending'[id'] \in {F!NewClient, F!Error}
    <3>1. ASSUME at = "send" PROVE id \in Id \ {j}
      BY <1>2, <2>3, <3>1, TurnHasId
    <3> QED
      BY <2>1, <2>2, <3>1 DEF FeedInv
  <2>5. \A i \in Id : i >= id' => task'[i] = "none" /\ read'[i] = 0
    BY <2>1, <2>2, <2>3 DEF FeedInv
  <2>6. ASSUME UNCHANGED events, stream = "open",
               FeedOf(j) => IsUpToDate(j)'
        PROVE  \A i \in Id : FeedOf(i)'
    <3>1. ASSUME NEW i \in Id \ {j} PROVE FeedOf(i)'
      BY <1>2, <1>3, <2>1, <2>2, <2>6, FeedUntouched
    <3>2. FeedOf(j)'
      BY <1>3, <2>1, <2>2, <2>6
      DEF FeedOf, Starts, Continues, Remembers, F!Last
    <3> QED
      BY <3>1, <3>2
  <2>7. ASSUME UNCHANGED events, stream = "open"
        PROVE  \A d : Latest(j, d)' <=> Latest(j, d)
    BY <2>1, <2>7 DEF Latest, F!Last
  <2>8. ASSUME TakesMessage(j), stream = "open"
        PROVE  \A i \in Id : FeedOf(i)'
    <3>1. /\ task[j] = "reads" /\ task'[j] = "sends" /\ events' = events
          /\ read[j] \in Nat /\ read'[j] = read[j] + 1
          /\ pending'[j] = F!NewMessage(read'[j])
      BY <1>2, <2>8 DEF TakesMessage, Goes, TypeOK
    <3>2. read'[j] # 0 /\ read'[j] - 1 = read[j]
          /\ pending'[j] = Nth(read'[j])
      BY <3>1, EventsDiffer
    <3> QED
      BY <2>6, <2>7, <2>8, <3>1, <3>2 DEF FeedOf, IsUpToDate
  <2>9. ASSUME TakesError(j), stream = "open"
        PROVE  \A i \in Id : FeedOf(i)'
    <3>1. /\ task[j] = "reads" /\ task'[j] = "sends" /\ events' = events
          /\ read' = read /\ pending'[j] = F!Error
      BY <2>9 DEF TakesError, Goes, TypeOK
    <3> QED
      BY <2>6, <2>7, <2>9, <3>1 DEF FeedOf, IsUpToDate
  <2>10. ASSUME TakesNone(j), stream = "open"
         PROVE  \A i \in Id : FeedOf(i)'
    <3>1. /\ task[j] = "reads" /\ task'[j] = "leaves" /\ events' = events
          /\ read' = read
      BY <2>10 DEF TakesNone, Goes, TypeOK
    <3> QED
      BY <2>6, <2>7, <2>10, <3>1 DEF FeedOf, IsUpToDate
  <2>11. ASSUME TaskSends(j), stream = "open"
         PROVE  \A i \in Id : FeedOf(i)'
    <3>1. /\ task[j] = "sends"
          /\ task'[j] = IF pending[j] = F!Error THEN "leaves" ELSE "reads"
          /\ events' = Append(events, [id |-> j, event |-> pending[j]])
          /\ UNCHANGED <<heard, pending, read>>
      BY <2>11 DEF TaskSends, Goes, Sent, TypeOK
    <3>2. read[j] \in 0..MaxMessages /\ pending[j] \in Event
      BY DEF TypeOK
    <3>3. CASE pending[j] = F!Error /\ Latest(j, Nth(read[j]))
      <4>1. Follows(Nth(read[j]), pending[j])
        BY <3>2, <3>3 DEF Follows
      <4>2. Latest(j, pending[j])' => IsUpToDate(j)'
        BY <3>1, <3>3 DEF IsUpToDate
      <4> QED
        BY <1>1, <1>2, <1>3, <2>1, <2>2, <2>11, <3>1, <3>2, <3>3, <4>1, <4>2,
          FeedSend
    <3>4. CASE /\ read[j] # 0 /\ pending[j] = Nth(read[j])
               /\ Latest(j, Nth(read[j] - 1))
      <4>1. read[j] - 1 \in 0..MaxMessages /\ read[j] - 1 + 1 = read[j]
        BY <1>2, <3>2, <3>4
      <4>2. Follows(Nth(read[j] - 1), pending[j])
        BY <3>4, <4>1 DEF Follows
      <4>3. pending[j] # F!Error
        BY <3>2, <3>4, EventsDiffer
      <4>4. Latest(j, pending[j])' => IsUpToDate(j)'
        BY <3>1, <3>4, <4>3 DEF IsUpToDate
      <4> QED
        BY <1>1, <1>2, <1>3, <2>1, <2>2, <2>11, <3>1, <3>2, <3>4, <4>2, <4>4,
          FeedSend
    <3> QED
      BY <1>3, <2>11, <3>1, <3>3, <3>4 DEF FeedOf, IsUpToDate
  <2>12. ASSUME SendsDisconnect(j), stream = "open"
         PROVE  \A i \in Id : FeedOf(i)'
    <3>1. /\ task[j] = "leaves" /\ task'[j] = "done"
          /\ events' = Append(events, [id |-> j, event |-> F!Disconnect])
          /\ UNCHANGED <<heard, pending, read>>
      BY <2>12 DEF SendsDisconnect, Goes, Sent, TypeOK
    <3>2. read[j] \in 0..MaxMessages
      BY DEF TypeOK
    <3>3. \E d : Latest(j, d) /\ Follows(d, F!Disconnect)
      BY <1>3, <2>12, <3>1, <3>2 DEF FeedOf, IsUpToDate, Follows
    <3>4. IsUpToDate(j)'
      BY <3>1 DEF IsUpToDate
    <3> QED
      BY <1>1, <1>2, <1>3, <2>1, <2>2, <2>12, <3>1, <3>3, <3>4, EventTypes,
        FeedSend
  <2>13. stream = "open" => \A i \in Id : FeedOf(i)'
    BY <1>7, <2>8, <2>9, <2>10, <2>11, <2>12 DEF TaskStep, TaskDies
  <2> QED
    BY <2>1, <2>4, <2>5, <2>13 DEF FeedInv, FeedOf
<1>8. ASSUME NextEvent PROVE FeedInv'
  <2>1. /\ stream = "open" /\ Head(events).id \in Id
        /\ UNCHANGED <<at, id, pending, task, read, stream>>
    BY <1>8, HeardNext DEF NextEvent, loopVars
  <2>2. ASSUME NEW i \in Id PROVE FeedOf(i)'
    <3>1. /\ Starts(i)' /\ Continues(i)' /\ Remembers(i)'
          /\ \A d : Latest(i, d) => Latest(i, d)'
      BY <1>3, <1>8, <2>1, HearContinues, HearLeavesOthers DEF FeedOf
    <3>2. i >= id =>
            /\ heard'[i] = heard[i]
            /\ (\A k \in 1..Len(events) : events[k].id # i)
                 => \A k \in 1..Len(events') : events'[k].id # i
      BY <1>3, <1>8, <2>1, HearLeavesOthers, HeardNext DEF FeedOf, FeedInv,
        IsUpToDate
    <3>3. IsUpToDate(i)'
      BY <1>3, <2>1, <3>1, <3>2 DEF FeedOf, IsUpToDate
    <3> QED
      BY <3>1, <3>3 DEF FeedOf
  <2> QED
    BY <2>1, <2>2 DEF FeedInv, FeedOf
<1>9. ASSUME DropStream PROVE FeedInv'
  BY <1>9 DEF DropStream, loopVars, FeedInv
<1>10. ASSUME Arrive \/ LoopDies \/ UNCHANGED vars PROVE FeedInv'
  <2>1. /\ UNCHANGED <<pending, task, events, stream, heard, read, id>>
        /\ at' = "send" => at = "send"
    BY <1>10 DEF Arrive, LoopDies, vars, loopVars
  <2> QED
    BY <1>4, <2>1 DEF FeedInv
<1>11. ASSUME LoopSends PROVE id \in Id
  <2>1. /\ id \in Nat \ {0} /\ MaxClients \in Nat /\ MaxFailures \in Nat
        /\ accepted \in Nat /\ arrived \in Nat
        /\ accepted <= arrived /\ arrived <= MaxClients
    BY ServerAssumption DEF TypeOK
  <2>2. Cardinality(failed) \in Nat
    BY IdIsFinite DEF TypeOK
  <2>3. /\ id = accepted + Cardinality(failed)
        /\ Cardinality(failed) <= MaxFailures
    BY <1>11, <2>1, <2>2 DEF LoopSends, TurnInv
  <2>4. \A c \in Nat :
          c <= MaxFailures => accepted + c <= MaxClients + MaxFailures
    BY <2>1
  <2> QED
    BY <2>1, <2>2, <2>3, <2>4 DEF Id
<1>12. LoopSends => FeedInv'
  BY <1>6, <1>11
<1>13. (\E j \in Id : TaskStep(j)) => FeedInv'
  BY <1>7
<1> QED
  BY <1>5, <1>8, <1>9, <1>10, <1>12, <1>13 DEF Next

\* Whatever the clients' tasks and the loop do at the same time, and however
\* full the channel is, the user hears of every id in order: NewClient first,
\* its messages as they were read, at most one error, Disconnect last
\* (server.rs:50-87).
THEOREM FeedImplemented == Spec => FeedIsOrderly
<1>1. Init => F!Init
  BY DEF Init, F!Init
<1>2. TypeOK /\ FeedInv /\ [Next]_vars => [F!Next]_heard
  <2> SUFFICES ASSUME TypeOK, FeedInv, [Next]_vars PROVE [F!Next]_heard
    OBVIOUS
  <2>1. ASSUME NextEvent PROVE F!Next
    <3>1. Head(events).id \in Id /\ stream = "open"
      BY <2>1, HeardNext
    <3> QED
      BY <2>1, <3>1, HearContinues DEF FeedInv, F!Next
  <2>2. NextEvent \/ heard' = heard
    BY DEF Next, vars, Arrive, LoopWaits, LoopGoesOn, LoopSends, LoopDies,
      otherVars, TaskStep, TakesMessage, TakesError, TakesNone, TaskSends,
      TaskDies, SendsDisconnect, DropStream
  <2> QED
    BY <2>1, <2>2
<1> QED
  BY <1>1, <1>2, InitType, StepType, FeedInit, FeedStep, PTL
  DEF Spec, FeedIsOrderly, F!Spec
=============================================================================
