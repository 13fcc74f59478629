-------------------------- MODULE HandshakeProofs --------------------------
(***************************************************************************)
(* What the opening handshake keeps, for any settings of the two users and *)
(* any heads that another program may write.                               *)
(***************************************************************************)
EXTENDS Handshake, ExtensionProofs

(***************************************************************************)
(* Heads.                                                                  *)
(***************************************************************************)
LEMMA HeadOf ==
  ASSUME NEW lines \in Seq(Line), NEW head \in Heads(lines)
  PROVE  \E n \in 2..Len(lines) :
           /\ lines[n] = Blank /\ \A l \in 2..(n - 1) : lines[l] # Blank
           /\ head = SubSeq(lines, 1, n)
           /\ head \in Seq(Line) /\ Len(head) = n
           /\ \A i \in 1..n : head[i] = lines[i]
           /\ Rest(lines, head) = SubSeq(lines, n + 1, Len(lines))
           /\ Rest(lines, head) \in Seq(Line)
           /\ Tail(head) = SubSeq(lines, 2, n) /\ Tail(head) \in Seq(Line)
<1>1. PICK n \in 2..Len(lines) :
        /\ lines[n] = Blank /\ \A l \in 2..(n - 1) : lines[l] # Blank
        /\ head = SubSeq(lines, 1, n)
  BY DEF Heads
<1>2. n \in Nat /\ 1 <= n /\ n <= Len(lines) /\ Len(lines) \in Nat
  OBVIOUS
<1>3. /\ head \in Seq(Line) /\ Len(head) = n
      /\ \A i \in 1..n : head[i] = lines[i]
  BY <1>1, <1>2, SubSeqProperties
<1>4. /\ Rest(lines, head) = SubSeq(lines, n + 1, Len(lines))
      /\ Rest(lines, head) \in Seq(Line)
  BY <1>2, <1>3, SubSeqProperties DEF Rest
<1>5. Tail(head) \in Seq(Line)
  BY <1>2, <1>3, EmptySeq, HeadTailProperties
<1>6. Tail(head) = SubSeq(lines, 2, n)
  BY <1>1, <1>2, <1>3
<1> QED
  BY <1>1, <1>3, <1>4, <1>5, <1>6

LEMMA HeaderType ==
  ASSUME NEW lines \in Seq(Line), NEW head \in Heads(lines)
  PROVE  /\ HeadError(head) \in {None} \cup HandshakeError
         /\ RequestError(head) \in {None} \cup HandshakeError
         /\ ExtensionsIn(head) \in {None} \cup Settings
         /\ RequestError(head) = None
              => ValueOf(head, "sec-websocket-key") \in Key
<1>1. Tail(head) \in Seq(Line)
  BY HeadOf
<1>2. \A name : \/ LastNamed(Tail(head), name) = None
                \/ /\ LastNamed(Tail(head), name) \in Line
                   /\ LastNamed(Tail(head), name).name = name
  BY <1>1, LastNamedType
<1>3. \A line \in Line :
        /\ line.name = "sec-websocket-key" => line.value \in Key
        /\ line.name = "sec-websocket-extensions" => line.value \in Seq(Param)
  BY DEF Line, Blank, Frame
<1>4. ValueOf(head, "sec-websocket-extensions") \in {None} \cup Seq(Param)
  BY <1>2, <1>3 DEF ValueOf
<1>5. ExtensionsIn(head) \in {None} \cup Settings
  <2>1. <<>> \in Seq(Param)
    OBVIOUS
  <2> QED
    BY <1>4, <2>1, ParseType DEF ExtensionsIn
<1>6. RequestError(head) = None => ValueOf(head, "sec-websocket-key") \in Key
  BY <1>2, <1>3, NoErrorAssumption DEF RequestError, ValueOf, HandshakeError
<1>7. HeadError(head) \in {None} \cup HandshakeError
  BY DEF HeadError, HandshakeError
<1>8. RequestError(head) \in {None} \cup HandshakeError
  BY DEF RequestError, HandshakeError
<1> QED
  BY <1>5, <1>6, <1>7, <1>8

LEMMA LinesType ==
  /\ Blank \in Line /\ Frame \in Line
  /\ Blank # Frame
  /\ \A e \in Settings : ExtensionLine(HeaderValue(e)) \in Line
  /\ \A e \in {None} \cup Settings :
       /\ add_extension_headers(e) \in Seq(Line)
       /\ Request(e) \in Seq(Line)
       /\ \A key \in Key : Response(key, e) \in Seq(Line)
<1>1. Blank \in Line /\ Frame \in Line
  BY DEF Line
<1>2. Blank # Frame
  BY DEF Blank, Frame
<1>7. \A e \in Settings : ExtensionLine(HeaderValue(e)) \in Line
  BY ReadsBack DEF ExtensionLine, Line
<1>3. ASSUME NEW e \in {None} \cup Settings
      PROVE  add_extension_headers(e) \in Seq(Line)
  <2>1. e # None => ExtensionLine(HeaderValue(e)) \in Line
    BY <1>7
  <2> QED
    BY <1>1, <2>1 DEF add_extension_headers
<1>4. <<Start("GET", 3), Header("host", None), Header("other", None),
        Header("sec-websocket-key", "own")>> \in Seq(Line)
  <2>1. /\ Start("GET", 3) \in Line /\ Header("host", None) \in Line
        /\ Header("other", None) \in Line
        /\ Header("sec-websocket-key", "own") \in Line
    BY DEF Line, Start, Header, Key
  <2> QED
    BY <2>1
<1>5. ASSUME NEW key \in Key
      PROVE  <<Start("other", 3), Header("other", None),
               Header("sec-websocket-accept", {key})>> \in Seq(Line)
  <2>1. /\ Start("other", 3) \in Line /\ Header("other", None) \in Line
        /\ Header("sec-websocket-accept", {key}) \in Line
    BY DEF Line, Start, Header
  <2> QED
    BY <2>1
<1>6. \A e \in {None} \cup Settings :
        /\ add_extension_headers(e) \in Seq(Line)
        /\ Request(e) \in Seq(Line)
        /\ \A key \in Key : Response(key, e) \in Seq(Line)
  BY <1>3, <1>4, <1>5 DEF Request, Response
<1> QED
  BY <1>1, <1>2, <1>6, <1>7

(***************************************************************************)
(* Types.                                                                  *)
(***************************************************************************)

\* The server's call begins when the connection stands.
PlaceInv == at["client"] \in {"start", "connect", "tls"} => at["server"] = "start"

LEMMA InitType == Init => TypeOK /\ PlaceInv
<1> SUFFICES ASSUME Init PROVE TypeOK /\ PlaceInv
  OBVIOUS
<1>1. MaxFrames \in Nat
  BY HandshakeAssumption
<1>2. at \in [Role -> Places]
  BY DEF Init, Role, Places
<1>3. stream \in [Role -> Seq(Line)] /\ seen \in [Role -> Seq(Line)]
  BY EmptySeq DEF Init
<1>4. wrote \in [Role -> 0..MaxFrames]
  BY <1>1 DEF Init
<1>5. \A r \in Role : at[r] # "failed" /\ error[r] = None
  BY DEF Init, Role
<1>6. ours \subseteq Role
  BY DEF Init, Role
<1> QED
  BY <1>2, <1>3, <1>4, <1>5, <1>6 DEF Init, TypeOK, PlaceInv

\* An end that fails has an error to return.
LEMMA FailsType ==
  ASSUME TypeOK, NEW r \in Role, NEW e \in HandshakeError, Fails(r, e)
  PROVE  /\ at' \in [Role -> Places]
         /\ error' \in [Role -> {None} \cup HandshakeError]
         /\ \A q \in Role : at'[q] = "failed" <=> error'[q] # None
         /\ \A q \in Role \ {r} : at'[q] = at[q]
         /\ at'[r] = "failed"
  BY NoErrorAssumption DEF TypeOK, Fails, Places

\* ... and one that goes on has none.
LEMMA GoesType ==
  ASSUME TypeOK, NEW r \in Role, NEW to \in Places, to # "failed",
         at[r] # "failed", at' = [at EXCEPT ![r] = to], UNCHANGED error
  PROVE  /\ at' \in [Role -> Places]
         /\ error' \in [Role -> {None} \cup HandshakeError]
         /\ \A q \in Role : at'[q] = "failed" <=> error'[q] # None
         /\ \A q \in Role \ {r} : at'[q] = at[q]
         /\ at'[r] = to
  BY DEF TypeOK

LEMMA WriteType ==
  ASSUME TypeOK, NEW r \in Role, NEW lines \in Seq(Line), Write(r, lines)
  PROVE  /\ stream' \in [Role -> Seq(Line)]
         /\ stream'[Peer(r)] = stream[Peer(r)] \o lines
         /\ \A q \in Role \ {Peer(r)} : stream'[q] = stream[q]
<1>1. Peer(r) \in Role
  BY DEF Peer, Role
<1>2. stream[Peer(r)] \o lines \in Seq(Line)
  BY <1>1 DEF TypeOK
<1> QED
  BY <1>1, <1>2 DEF TypeOK, Write

LEMMA RoleFacts ==
  /\ Role = {"client", "server"}
  /\ Peer("client") = "server" /\ Peer("server") = "client"
  BY DEF Role, Peer

LEMMA StepType == TypeOK /\ PlaceInv /\ [Next]_vars => TypeOK' /\ PlaceInv'
<1> SUFFICES ASSUME TypeOK, PlaceInv, [Next]_vars PROVE TypeOK' /\ PlaceInv'
  OBVIOUS
<1>1. /\ ours \subseteq Role /\ config \in Configs
      /\ at \in [Role -> Places]
      /\ error \in [Role -> {None} \cup HandshakeError]
      /\ \A r \in Role : at[r] = "failed" <=> error[r] # None
      /\ agreed \in [Role -> {None} \cup Settings]
      /\ stream \in [Role -> Seq(Line)]
      /\ wrote \in [Role -> 0..MaxFrames]
      /\ seen \in [Role -> Seq(Line)]
  BY DEF TypeOK
<1>2. /\ config \in [Role -> {None} \cup Settings]
      /\ MaxFrames \in Nat
      /\ \A lines \in Requests \cup Responses : lines \in Seq(Line)
  BY <1>1, HandshakeAssumption DEF OneHead
<1>3. Role = {"client", "server"}
  BY DEF Role
<1>4. ASSUME NEW r \in Role, NEW e \in HandshakeError, Fails(r, e),
             r = "server" => at[r] = "await",
             UNCHANGED <<ours, config, agreed, stream, wrote, seen>>
      PROVE  TypeOK' /\ PlaceInv'
  BY <1>1, <1>3, <1>4, FailsType DEF TypeOK, PlaceInv
<1>5. ASSUME NEW r \in Role, HeadMissing(r) PROVE TypeOK' /\ PlaceInv'
  <2>1. {"Timeout", "HttpParseError"} \subseteq HandshakeError
    BY DEF HandshakeError
  <2> QED
    BY <1>4, <1>5, <2>1 DEF HeadMissing
<1>6. ASSUME NEW r \in Role, HeadUnreadable(r) PROVE TypeOK' /\ PlaceInv'
  <2>1. PICK head \in Arrived(r) :
          HeadError(head) # None /\ Fails(r, HeadError(head))
    BY <1>6 DEF HeadUnreadable
  <2>2. at[r] = "await" /\ head \in Heads(stream[r])
    BY <2>1 DEF Arrived
  <2>3. HeadError(head) \in HandshakeError
    BY <1>1, <2>1, <2>2, HeaderType
  <2> QED
    BY <1>4, <1>6, <2>1, <2>2, <2>3 DEF HeadUnreadable
<1>7. ASSUME BadURL \/ ConnectFails PROVE TypeOK' /\ PlaceInv'
  <2>1. {"URLParseError", "InvalidSchemeURL", "URLNoHost", "IOError",
         "DomainError"} \subseteq HandshakeError
    BY DEF HandshakeError
  <2>2. \E e \in HandshakeError : Fails("client", e)
    BY <1>7, <2>1 DEF BadURL, ConnectFails
  <2> QED
    BY <1>3, <1>4, <1>7, <2>2 DEF BadURL, ConnectFails
<1>8. ASSUME GoodURL PROVE TypeOK' /\ PlaceInv'
  <2>1. at["client"] = "start" /\ at' = [at EXCEPT !["client"] = "connect"]
    BY <1>8 DEF GoodURL, Goes
  <2> QED
    BY <1>1, <1>3, <1>8, <2>1 DEF GoodURL, TypeOK, PlaceInv, Places
<1>9. ASSUME Connects PROVE TypeOK' /\ PlaceInv'
  <2>1. CASE Goes("client", "connect", "tls")
    BY <1>1, <1>3, <1>9, <2>1 DEF Connects, Goes, TypeOK, PlaceInv, Places
  <2>2. CASE /\ at["client"] \in {"connect", "tls"}
             /\ at' = [client |-> "request", server |-> "await"]
    <3>1. /\ at' \in [Role -> Places]
          /\ at'["client"] = "request" /\ at'["server"] = "await"
      BY <2>2 DEF Role, Places
    <3>2. at["client"] # "failed" /\ at["server"] # "failed"
      BY <2>2 DEF PlaceInv
    <3> QED
      BY <1>1, <1>3, <1>9, <3>1, <3>2 DEF Connects, TypeOK, PlaceInv
  <2> QED
    BY <1>9, <2>1, <2>2 DEF Connects
<1>10. ASSUME SendRequest PROVE TypeOK' /\ PlaceInv'
  <2>1. CASE /\ Goes("client", "request", "await")
             /\ Write("client", Request(config["client"]))
             /\ UNCHANGED error
    <3>1. Request(config["client"]) \in Seq(Line)
      BY <1>2, <1>3, LinesType
    <3>2. stream' \in [Role -> Seq(Line)]
      BY <1>3, <2>1, <3>1, WriteType
    <3> QED
      BY <1>1, <1>3, <1>10, <2>1, <3>2
      DEF SendRequest, Goes, TypeOK, PlaceInv, Places
  <2>2. CASE /\ at["client"] = "request" /\ Fails("client", "IOError")
             /\ UNCHANGED stream
    BY <1>3, <1>4, <1>10, <2>2 DEF SendRequest, HandshakeError
  <2> QED
    BY <1>10, <2>1, <2>2 DEF SendRequest
<1>11. ASSUME NEW r \in Role, NEW e \in {None} \cup Settings,
              at[r] = "await", Opens(r, e), UNCHANGED error
       PROVE  /\ agreed' \in [Role -> {None} \cup Settings]
              /\ agreed'[r] = e
              /\ at' \in [Role -> Places]
              /\ \A q \in Role : at'[q] = "failed" <=> error'[q] # None
              /\ PlaceInv'
  <2>1. agreed' \in [Role -> {None} \cup Settings] /\ agreed'[r] = e
    BY <1>1, <1>11 DEF Opens
  <2>2. \E to \in {"open", "panicked"} : at' = [at EXCEPT ![r] = to]
    BY <1>11 DEF Opens
  <2> QED
    BY <1>1, <1>3, <1>11, <2>1, <2>2 DEF PlaceInv, Places
<1>12. ASSUME ReadResponse PROVE TypeOK' /\ PlaceInv'
  <2>1. PICK head \in Arrived("client") :
          \/ /\ Fails("client", "InvalidAcceptKey")
             /\ UNCHANGED <<agreed, stream>>
          \/ /\ Opens("client", ClientSettings(head))
             /\ stream' = [stream EXCEPT !["client"] = Rest(@, head)]
             /\ UNCHANGED error
    BY <1>12 DEF ReadResponse
  <2>2. at["client"] = "await" /\ head \in Heads(stream["client"])
    BY <2>1 DEF Arrived
  <2>3. CASE Fails("client", "InvalidAcceptKey") /\ UNCHANGED <<agreed, stream>>
    BY <1>3, <1>4, <1>12, <2>2, <2>3 DEF ReadResponse, HandshakeError
  <2>4. CASE /\ Opens("client", ClientSettings(head))
             /\ stream' = [stream EXCEPT !["client"] = Rest(@, head)]
             /\ UNCHANGED error
    <3>1. ClientSettings(head) \in {None} \cup Settings
      BY <1>1, <1>3, <2>2, HeaderType DEF ClientSettings
    <3>2. Rest(stream["client"], head) \in Seq(Line)
      BY <1>1, <1>3, <2>2, HeadOf
    <3>3. stream' \in [Role -> Seq(Line)]
      BY <1>1, <2>4, <3>2
    <3> QED
      BY <1>1, <1>3, <1>11, <1>12, <2>2, <2>4, <3>1, <3>3
      DEF ReadResponse, TypeOK
  <2> QED
    BY <2>1, <2>3, <2>4
<1>13. ASSUME RefuseRequest PROVE TypeOK' /\ PlaceInv'
  <2>1. PICK head \in Arrived("server") :
          RequestError(head) # None /\ Fails("server", RequestError(head))
    BY <1>13 DEF RefuseRequest
  <2>2. at["server"] = "await" /\ head \in Heads(stream["server"])
    BY <2>1 DEF Arrived
  <2>3. RequestError(head) \in HandshakeError
    BY <1>1, <1>3, <2>1, <2>2, HeaderType
  <2> QED
    BY <1>3, <1>4, <1>13, <2>1, <2>2, <2>3 DEF RefuseRequest
<1>14. ASSUME AcceptRequest PROVE TypeOK' /\ PlaceInv'
  <2>1. PICK head \in Arrived("server") :
          /\ RequestError(head) = None
          /\ \/ /\ Opens("server", Merged(head))
                /\ stream' =
                      [server |-> Rest(stream["server"], head),
                       client |-> stream["client"] \o
                           Response(ValueOf(head, "sec-websocket-key"),
                                    agreed'["server"])]
                /\ UNCHANGED error
             \/ Fails("server", "IOError") /\ UNCHANGED <<agreed, stream>>
    BY <1>14 DEF AcceptRequest
  <2>2. at["server"] = "await" /\ head \in Heads(stream["server"])
    BY <2>1 DEF Arrived
  <2>3. CASE Fails("server", "IOError") /\ UNCHANGED <<agreed, stream>>
    BY <1>3, <1>4, <1>14, <2>2, <2>3 DEF AcceptRequest, HandshakeError
  <2>4. CASE /\ Opens("server", Merged(head))
             /\ stream' =
                   [server |-> Rest(stream["server"], head),
                    client |-> stream["client"] \o
                        Response(ValueOf(head, "sec-websocket-key"),
                                 agreed'["server"])]
             /\ UNCHANGED error
    <3>1. Merged(head) \in {None} \cup Settings
      BY <1>1, <1>2, <1>3, <2>2, HeaderType, MergeType DEF Merged
    <3>2. agreed'["server"] \in {None} \cup Settings
      BY <1>3, <1>11, <2>2, <2>4, <3>1
    <3>3. ValueOf(head, "sec-websocket-key") \in Key
      BY <1>1, <1>3, <2>1, <2>2, HeaderType
    <3>4. Response(ValueOf(head, "sec-websocket-key"), agreed'["server"])
            \in Seq(Line)
      BY <3>2, <3>3, LinesType
    <3>5. Rest(stream["server"], head) \in Seq(Line)
      BY <1>1, <1>3, <2>2, HeadOf
    <3>6. stream["client"] \o
            Response(ValueOf(head, "sec-websocket-key"), agreed'["server"])
              \in Seq(Line)
      BY <1>1, <1>3, <3>4, ConcatProperties
    <3>7. stream' \in [Role -> Seq(Line)]
      <4> DEFINE a == Rest(stream["server"], head)
                 b == stream["client"] \o
                          Response(ValueOf(head, "sec-websocket-key"),
                                   agreed'["server"])
      <4>1. a \in Seq(Line) /\ b \in Seq(Line)
        BY <3>5, <3>6
      <4>2. stream' = [server |-> a, client |-> b]
        BY <2>4
      <4> HIDE DEF a, b
      <4> QED
        BY <4>1, <4>2 DEF Role
    <3> QED
      BY <1>1, <1>3, <1>11, <1>14, <2>2, <2>4, <3>1, <3>7
      DEF AcceptRequest, TypeOK
  <2> QED
    BY <2>1, <2>3, <2>4
<1>15. ASSUME NEW r \in Role, WriteFrame(r) PROVE TypeOK' /\ PlaceInv'
  <2>1. <<Frame>> \in Seq(Line)
    BY LinesType
  <2>2. stream' \in [Role -> Seq(Line)]
    BY <1>15, <2>1, WriteType DEF WriteFrame
  <2>3. wrote' \in [Role -> 0..MaxFrames]
    BY <1>1, <1>2, <1>15 DEF WriteFrame
  <2> QED
    BY <1>1, <1>15, <2>2, <2>3 DEF WriteFrame, TypeOK, PlaceInv
<1>16. ASSUME NEW r \in Role, ReadHeader(r) PROVE TypeOK' /\ PlaceInv'
  <2>1. stream[r] \in Seq(Line) /\ stream[r] # <<>> /\ seen[r] \in Seq(Line)
    BY <1>1, <1>16 DEF ReadHeader
  <2>2. Head(stream[r]) \in Line /\ Tail(stream[r]) \in Seq(Line)
    BY <2>1, HeadTailProperties
  <2>3. Append(seen[r], Head(stream[r])) \in Seq(Line)
    BY <2>1, <2>2, AppendProperties
  <2>4. stream' \in [Role -> Seq(Line)] /\ seen' \in [Role -> Seq(Line)]
    BY <1>1, <1>16, <2>2, <2>3 DEF ReadHeader
  <2> QED
    BY <1>1, <1>16, <2>4 DEF ReadHeader, TypeOK, PlaceInv
<1>17. ASSUME ForeignRequest \/ ForeignResponse PROVE TypeOK' /\ PlaceInv'
  <2>1. PICK r \in Role, from \in {"request", "await"},
             lines \in Requests \cup Responses :
          /\ Goes(r, from, "open")
          /\ \E n \in 0..Len(lines) : Write(r, SubSeq(lines, 1, n))
    BY <1>3, <1>17 DEF ForeignRequest, ForeignResponse
  <2>2. \A n \in 0..Len(lines) : SubSeq(lines, 1, n) \in Seq(Line)
    BY <1>2, SubSeqProperties
  <2>3. stream' \in [Role -> Seq(Line)]
    BY <2>1, <2>2, WriteType
  <2>4. at[r] = from /\ at' = [at EXCEPT ![r] = "open"]
    BY <2>1 DEF Goes
  <2>5. UNCHANGED <<ours, config, error, agreed, wrote, seen>>
    BY <1>17 DEF ForeignRequest, ForeignResponse
  <2> QED
    BY <1>1, <1>3, <2>3, <2>4, <2>5 DEF TypeOK, PlaceInv, Places
<1>18. ASSUME NEW r \in Role, ForeignLeaves(r) PROVE TypeOK' /\ PlaceInv'
  <2>1. at[r] = "open" /\ at' = [at EXCEPT ![r] = "left"]
    BY <1>18 DEF ForeignLeaves, Goes
  <2> QED
    BY <1>1, <1>3, <1>18, <2>1 DEF ForeignLeaves, TypeOK, PlaceInv, Places
<1>19. ASSUME UNCHANGED vars PROVE TypeOK' /\ PlaceInv'
  BY <1>1, <1>19 DEF vars, TypeOK, PlaceInv
<1> QED
  BY <1>5, <1>6, <1>7, <1>8, <1>9, <1>10, <1>12, <1>13, <1>14, <1>15, <1>16,
    <1>17, <1>18, <1>19
  DEF Next, ClientStep, ServerStep, EitherStep, ForeignStep

\* Every end is at a place of its code, and has an error exactly if it has
\* failed, whatever the other end writes (handshake.rs, error.rs:22-137).
THEOREM TypeCorrect == Spec => []TypeOK
  BY InitType, StepType, PTL DEF Spec

(***************************************************************************)
(* What is on its way to an end of this library that has not opened is at  *)
(* most one head with the frames of the other end behind it; to one that   *)
(* has, it is frames alone.                                                *)
(***************************************************************************)
Waits(r) == at[r] \in {"start", "connect", "tls", "request", "await"}

\* The end has not written its head.
Silent(r) ==
    at[r] \in IF r = "client" THEN {"start", "connect", "tls", "request"}
             ELSE {"start", "await"}

HeadThenFrames(lines, frames) ==
    LET n == Len(lines) - frames
    IN /\ n >= 0
       /\ \A i \in 1..Len(lines) :
             IF i <= n THEN /\ lines[i] # Frame
                            /\ lines[i] = Blank => i \in {1, n}
             ELSE lines[i] = Frame

OnlyFrames(lines) == \A i \in 1..Len(lines) : lines[i] = Frame

HandoverOf(r) ==
    /\ Waits(r) => seen[r] = <<>>
    /\ Silent(Peer(r)) =>
          stream[r] = <<>> /\ wrote[Peer(r)] = 0 /\ at[r] # "open"
    /\ ~OneLineTooMany(Peer(r)) =>
          /\ Waits(r) => HeadThenFrames(stream[r], wrote[Peer(r)])
          /\ at[r] = "open" =>
                /\ OnlyFrames(seen[r]) /\ OnlyFrames(stream[r])
                /\ Len(seen[r]) + Len(stream[r]) = wrote[Peer(r)]

HandoverInv == \A r \in ours : HandoverOf(r)

(***************************************************************************)
(* When both ends are this library, what one reads is what the other has   *)
(* set, and the server's answer is what it has agreed to.                  *)
(***************************************************************************)
Answered(lines, e) ==
    \E key \in Key :
        LET head == Response(key, e)
        IN Len(lines) >= Len(head) /\ SubSeq(lines, 1, Len(head)) = head

AgreementInv ==
    BothOurs =>
        /\ at["server"] = "await" =>
              stream["server"] \in {<<>>, Request(config["client"])}
        /\ Built("server") =>
              agreed["server"] =
                  merge_extensions(config["server"], Reads(config["client"]))
        /\ Waits("client") =>
              IF Built("server")
              THEN Answered(stream["client"], agreed["server"])
              ELSE stream["client"] = <<>>
        /\ Built("client") =>
              /\ Built("server")
              /\ agreed["client"] = Reads(agreed["server"])

\* A server of this library agrees to nothing its user has not set.
OwnInv ==
    "server" \in ours =>
        /\ ~Built("server") => agreed["server"] = None
        /\ Deflates(agreed["server"]) =>
              Within(agreed["server"], config["server"])

\* The first lines of a head, up to its extensions.
Opening(lines) ==
    /\ lines \in Seq(Line) /\ lines # <<>>
    /\ \A i \in 1..Len(lines) : lines[i] \notin {Blank, Frame}
    /\ \A i \in 2..Len(lines) : lines[i].name # "sec-websocket-extensions"

LEMMA Openings ==
  /\ Opening(<<Start("GET", 3), Header("host", None), Header("other", None),
               Header("sec-websocket-key", "own")>>)
  /\ \A key \in Key :
       Opening(<<Start("other", 3), Header("other", None),
                 Header("sec-websocket-accept", {key})>>)
<1>1. /\ Start("GET", 3) \in Line /\ Header("host", None) \in Line
      /\ Header("other", None) \in Line
      /\ Header("sec-websocket-key", "own") \in Line
      /\ Start("other", 3) \in Line
      /\ \A key \in Key : Header("sec-websocket-accept", {key}) \in Line
  BY DEF Line, Start, Header, Key
<1>2. /\ Start("GET", 3).name = "start" /\ Start("other", 3).name = "start"
      /\ \A name, value : Header(name, value).name = name
      /\ Blank.name = "blank" /\ Frame.name = "frame"
  BY DEF Start, Header, Blank, Frame
<1> QED
  BY <1>1, <1>2 DEF Opening

\* The lines behind the first ones of a head.
Closing(e) ==
    IF Deflates(e) THEN <<ExtensionLine(HeaderValue(e)), Blank>> ELSE <<Blank>>

LEMMA LineAppended ==
  ASSUME NEW lines \in Seq(Line), NEW line \in Line, NEW name
  PROVE  /\ lines \o <<line>> \in Seq(Line)
         /\ line.name = name => LastNamed(lines \o <<line>>, name) = line
         /\ line.name # name =>
              LastNamed(lines \o <<line>>, name) = LastNamed(lines, name)
  BY LastNamedAppend

LEMMA TailOfOpening ==
  ASSUME NEW opening, Opening(opening)
  PROVE  \E lines \in Seq(Line) :
           /\ lines = Tail(opening)
           /\ Len(lines) = Len(opening) - 1
           /\ \A i \in 1..Len(lines) : lines[i] = opening[i + 1]
           /\ LastNamed(lines, "sec-websocket-extensions") = None
<1>1. opening \in Seq(Line) /\ Len(opening) \in Nat \ {0}
  BY EmptySeq DEF Opening
<1>2. /\ Tail(opening) \in Seq(Line) /\ Len(Tail(opening)) = Len(opening) - 1
      /\ \A i \in 1..Len(Tail(opening)) : Tail(opening)[i] = opening[i + 1]
  BY <1>1
<1>3. \A i \in 1..Len(Tail(opening)) :
        Tail(opening)[i].name # "sec-websocket-extensions"
  BY <1>1, <1>2 DEF Opening
<1>4. LastNamed(Tail(opening), "sec-websocket-extensions") = None
  BY <1>3 DEF LastNamed
<1> QED
  BY <1>2, <1>4

LEMMA OneMore ==
  ASSUME NEW S, NEW s \in Seq(S), NEW x \in S
  PROVE  /\ s \o <<x>> \in Seq(S) /\ Len(s \o <<x>>) = Len(s) + 1
         /\ \A i \in 1..Len(s) : (s \o <<x>>)[i] = s[i]
         /\ (s \o <<x>>)[Len(s) + 1] = x
         /\ s # <<>> => Tail(s \o <<x>>) = Tail(s) \o <<x>>
<1>1. /\ s \o <<x>> \in Seq(S) /\ Len(s \o <<x>>) = Len(s) + 1
      /\ \A i \in 1..Len(s) : (s \o <<x>>)[i] = s[i]
      /\ (s \o <<x>>)[Len(s) + 1] = x
  OBVIOUS
<1>2. ASSUME s # <<>> PROVE Tail(s \o <<x>>) = Tail(s) \o <<x>>
  BY <1>2
<1> QED
  BY <1>1, <1>2

LEMMA OneByOne ==
  ASSUME NEW S, NEW s \in Seq(S), NEW x \in S, NEW y \in S
  PROVE  s \o <<x, y>> = (s \o <<x>>) \o <<y>>
<1>1. <<x>> \in Seq(S) /\ <<y>> \in Seq(S)
  OBVIOUS
<1>2. <<x, y>> \in Seq(S) /\ <<x>> \o <<y>> \in Seq(S)
  OBVIOUS
<1>3. Len(<<x, y>>) = 2 /\ Len(<<x>> \o <<y>>) = 2
  OBVIOUS
<1>4. /\ <<x, y>>[1] = x /\ <<x, y>>[2] = y
      /\ (<<x>> \o <<y>>)[1] = x /\ (<<x>> \o <<y>>)[2] = y
  OBVIOUS
<1>5. <<x, y>> = <<x>> \o <<y>>
  <2> DEFINE a == <<x, y>>
             b == <<x>> \o <<y>>
  <2>1. /\ a \in Seq(S) /\ b \in Seq(S) /\ Len(a) = 2 /\ Len(b) = 2
        /\ a[1] = b[1] /\ a[2] = b[2]
    BY <1>2, <1>3, <1>4
  <2> HIDE DEF a, b
  <2>2. \A i \in 1..Len(a) : a[i] = b[i]
    <3>1. \A i \in 1..2 : i = 1 \/ i = 2
      OBVIOUS
    <3> QED
      BY <2>1, <3>1
  <2>3. a = b
    BY <2>1, <2>2, SeqEqual
  <2> QED
    BY <2>3 DEF a, b
<1> QED
  BY <1>1, <1>5, ConcatAssociative

\* Lines that hold no empty one, and an empty one behind them, are the head.
LEMMA FirstHead ==
  ASSUME NEW lines \in Seq(Line), lines # <<>>,
         \A i \in 1..Len(lines) : lines[i] # Blank,
         NEW rest \in Seq(Line),
         NEW head \in Heads((lines \o <<Blank>>) \o rest)
  PROVE  /\ head = lines \o <<Blank>>
         /\ Tail(head) = Tail(lines) \o <<Blank>>
<1> DEFINE all == (lines \o <<Blank>>) \o rest
           k == Len(lines)
<1>1. /\ k \in Nat /\ 1 <= k /\ Blank \in Line
      /\ lines \o <<Blank>> \in Seq(Line) /\ Len(lines \o <<Blank>>) = k + 1
      /\ \A i \in 1..k : (lines \o <<Blank>>)[i] = lines[i]
      /\ (lines \o <<Blank>>)[k + 1] = Blank
  BY EmptySeq DEF Line
<1>2. /\ all \in Seq(Line) /\ Len(all) >= k + 1
      /\ \A i \in 1..(k + 1) : all[i] = (lines \o <<Blank>>)[i]
  BY <1>1
<1> HIDE DEF all
<1>3. PICK n \in 2..Len(all) :
        /\ all[n] = Blank /\ \A l \in 2..(n - 1) : all[l] # Blank
        /\ head = SubSeq(all, 1, n) /\ Tail(head) = SubSeq(all, 2, n)
  BY <1>2, HeadOf DEF all
<1>4. n = k + 1
  <2>1. n \notin 1..k
    BY <1>1, <1>2, <1>3
  <2> QED
    BY <1>1, <1>2, <1>3, <2>1
<1>5. /\ Len(head) = k + 1
      /\ \A i \in 1..(k + 1) : head[i] = (lines \o <<Blank>>)[i]
      /\ head \in Seq(Line)
  BY <1>1, <1>2, <1>3, <1>4, SubSeqProperties
<1> HIDE DEF k
<1>6. head = lines \o <<Blank>>
  BY <1>1, <1>5, SeqEqual
<1>7. Tail(lines \o <<Blank>>) = Tail(lines) \o <<Blank>>
  BY <1>1 DEF k
<1> QED
  BY <1>6, <1>7

\* The empty line is no header.
LEMMA BlankAppended ==
  ASSUME NEW lines \in Seq(Line)
  PROVE  LastNamed(lines \o <<Blank>>, "sec-websocket-extensions")
           = LastNamed(lines, "sec-websocket-extensions")
<1>1. Blank \in Line /\ Blank.name # "sec-websocket-extensions"
  BY DEF Line, Blank
<1> QED
  BY <1>1, LineAppended

\* The lines before the empty one, when one of them is an extension header.
LEMMA OpeningExtended ==
  ASSUME NEW opening, Opening(opening),
         NEW ext \in Line, ext.name = "sec-websocket-extensions"
  PROVE  \E first \in Seq(Line) :
           /\ first = opening \o <<ext>> /\ first # <<>>
           /\ opening \o <<ext, Blank>> = first \o <<Blank>>
           /\ \A i \in 1..Len(first) : first[i] # Blank
           /\ Tail(first) \in Seq(Line)
           /\ LastNamed(Tail(first), "sec-websocket-extensions") = ext
<1> DEFINE first == opening \o <<ext>>
<1>1. /\ opening \in Seq(Line) /\ opening # <<>> /\ Len(opening) \in Nat
      /\ \A i \in 1..Len(opening) : opening[i] # Blank
      /\ Blank \in Line /\ Blank.name # ext.name
  BY DEF Opening, Line, Blank
<1>2. PICK lines \in Seq(Line) : lines = Tail(opening)
  BY TailOfOpening
<1>7. opening \o <<ext, Blank>> = first \o <<Blank>>
  BY <1>1, OneByOne
<1>3. /\ first \in Seq(Line) /\ Len(first) = Len(opening) + 1
      /\ \A i \in 1..Len(opening) : first[i] = opening[i]
      /\ first[Len(opening) + 1] = ext
      /\ Tail(first) = lines \o <<ext>>
  BY <1>1, <1>2, OneMore
<1>4. /\ lines \o <<ext>> \in Seq(Line)
      /\ LastNamed(lines \o <<ext>>, "sec-websocket-extensions") = ext
  BY LineAppended
<1> HIDE DEF first
<1>5. first # <<>>
  BY <1>1, <1>3
<1>6. \A i \in 1..Len(first) : first[i] # Blank
  <2>1. ext # Blank
    BY <1>1
  <2>2. \A i \in 1..Len(first) : i \in 1..Len(opening) \/ i = Len(opening) + 1
    BY <1>1, <1>3
  <2> QED
    BY <1>1, <1>3, <2>1, <2>2
<1> QED
  BY <1>3, <1>4, <1>5, <1>6, <1>7 DEF first

\* A head ends with its first empty line, and the other end reads the
\* settings in it.
LEMMA HeadWritten ==
  ASSUME NEW opening, Opening(opening),
         NEW e \in {None} \cup Settings, NEW rest \in Seq(Line)
  PROVE  \A head \in Heads((opening \o add_extension_headers(e)) \o rest) :
           /\ head = opening \o Closing(e)
           /\ ExtensionsIn(head) = Reads(e)
<1>1. /\ opening \in Seq(Line) /\ opening # <<>>
      /\ \A i \in 1..Len(opening) : opening[i] # Blank
      /\ Blank \in Line /\ <<Blank>> \in Seq(Line)
  BY DEF Opening, Line
<1>2. CASE Deflates(e)
  <2>1. e \in Settings /\ e # None /\ e.permessage_deflate
    BY <1>2 DEF Deflates
  <2>2. HeaderValue(e) \in Seq(Param)
    BY <2>1, ReadsBack
  <2>3. PICK ext \in Line :
          /\ ext = ExtensionLine(HeaderValue(e))
          /\ ext.name = "sec-websocket-extensions"
          /\ ext.value = HeaderValue(e)
    BY <2>1, LinesType DEF ExtensionLine
  <2>4. add_extension_headers(e) = <<ext, Blank>> /\ Closing(e) = <<ext, Blank>>
    BY <1>2, <2>1, <2>3 DEF add_extension_headers, Closing
  <2>5. PICK first \in Seq(Line) :
          /\ first = opening \o <<ext>> /\ first # <<>>
          /\ opening \o <<ext, Blank>> = first \o <<Blank>>
          /\ \A i \in 1..Len(first) : first[i] # Blank
          /\ Tail(first) \in Seq(Line)
          /\ LastNamed(Tail(first), "sec-websocket-extensions") = ext
    BY <2>3, OpeningExtended
  <2>6. \A head \in Heads((first \o <<Blank>>) \o rest) :
          head = first \o <<Blank>> /\ Tail(head) = Tail(first) \o <<Blank>>
    BY <2>5, FirstHead
  <2>7. LastNamed(Tail(first) \o <<Blank>>, "sec-websocket-extensions") = ext
    BY <2>5, BlankAppended
  <2>8. ext # None /\ HeaderValue(e) # None
    BY <2>2, <2>3, AbsentAssumption, NoErrorAssumption
  <2>9. Reads(e) = parse_extensions(HeaderValue(e))
    BY <2>1 DEF Reads
  <2>10. \A head : Tail(head) = Tail(first) \o <<Blank>>
           => ExtensionsIn(head) = parse_extensions(HeaderValue(e))
    BY <2>3, <2>7, <2>8 DEF ExtensionsIn, ValueOf
  <2> QED
    BY <2>4, <2>5, <2>6, <2>9, <2>10
<1>3. CASE ~Deflates(e)
  <2>1. PICK more \in Seq(Line) :
          (opening \o add_extension_headers(e)) \o rest
            = (opening \o <<Blank>>) \o more
    <3>1. CASE add_extension_headers(e) = <<Blank>>
      BY <3>1
    <3>2. CASE add_extension_headers(e) = <<Blank, Blank>>
      <4>1. /\ opening \o <<Blank, Blank>> = (opening \o <<Blank>>) \o <<Blank>>
            /\ opening \o <<Blank>> \in Seq(Line)
        BY <1>1, OneByOne, OneMore
      <4>2. (opening \o <<Blank, Blank>>) \o rest
              = (opening \o <<Blank>>) \o (<<Blank>> \o rest)
        BY <1>1, <4>1, ConcatAssociative
      <4>3. <<Blank>> \o rest \in Seq(Line)
        BY <1>1, ConcatProperties
      <4> QED
        BY <3>2, <4>2, <4>3
    <3> QED
      BY <1>3, <3>1, <3>2 DEF add_extension_headers, Deflates
  <2>2. \A head \in Heads((opening \o <<Blank>>) \o more) :
          head = opening \o <<Blank>> /\ Tail(head) = Tail(opening) \o <<Blank>>
    BY <1>1, FirstHead
  <2>3. LastNamed(Tail(opening) \o <<Blank>>, "sec-websocket-extensions") = None
    BY TailOfOpening, BlankAppended
  <2>4. \A head : Tail(head) = Tail(opening) \o <<Blank>>
          => ExtensionsIn(head) = None
    BY <2>3, LastNamedEmpty DEF ExtensionsIn, ValueOf, parse_extensions
  <2> QED
    BY <1>3, <2>1, <2>2, <2>4 DEF Reads, Deflates, Closing
<1> QED
  BY <1>2, <1>3
(***************************************************************************)
(* The handover, step by step.                                             *)
(***************************************************************************)

\* A head that is all there ends where the frames begin, and what is left
\* when it has been read is frames.
LEMMA HeadRead ==
  ASSUME NEW lines \in Seq(Line), NEW frames \in Nat,
         HeadThenFrames(lines, frames), NEW head \in Heads(lines)
  PROVE  OnlyFrames(Rest(lines, head)) /\ Len(Rest(lines, head)) = frames
<1>1. PICK n \in 2..Len(lines) :
        /\ lines[n] = Blank
        /\ Rest(lines, head) = SubSeq(lines, n + 1, Len(lines))
  BY HeadOf
<1>2. n = Len(lines) - frames
  BY <1>1, LinesType DEF HeadThenFrames
<1>3. Len(lines) \in Nat /\ n \in Nat
  OBVIOUS
<1> DEFINE left == SubSeq(lines, n + 1, Len(lines))
<1>4. /\ Len(left) = Len(lines) - n
      /\ \A i \in 1..(Len(lines) - n) : left[i] = lines[n + i]
  BY <1>3
<1>5. \A i \in 1..(Len(lines) - n) : lines[n + i] = Frame
  BY <1>2, <1>3 DEF HeadThenFrames
<1> HIDE DEF left
<1>6. Len(left) = frames
  BY <1>2, <1>3, <1>4
<1>7. OnlyFrames(left)
  BY <1>4, <1>5 DEF OnlyFrames
<1> QED
  BY <1>1, <1>6, <1>7 DEF left

\* A head without a line too many, or its beginning, is one.
LEMMA HeadAlone ==
  /\ HeadThenFrames(<<>>, 0)
  /\ \A lines \in Seq(Line) :
       OneHead(lines) =>
         \A n \in 0..Len(lines) : HeadThenFrames(SubSeq(lines, 1, n), 0)
<1>1. HeadThenFrames(<<>>, 0)
  BY DEF HeadThenFrames
<1>2. ASSUME NEW lines \in Seq(Line), OneHead(lines), NEW n \in 0..Len(lines)
      PROVE  HeadThenFrames(SubSeq(lines, 1, n), 0)
  <2>1. /\ Len(SubSeq(lines, 1, n)) = n
        /\ \A i \in 1..n : SubSeq(lines, 1, n)[i] = lines[i]
    BY <1>2
  <2> QED
    BY <1>2, <2>1 DEF HeadThenFrames, OneHead
<1> QED
  BY <1>1, <1>2

\* A frame that is written comes behind the others.
LEMMA FrameBehind ==
  ASSUME NEW lines \in Seq(Line), NEW frames \in Nat
  PROVE  /\ Len(lines \o <<Frame>>) = Len(lines) + 1
         /\ HeadThenFrames(lines, frames)
              => HeadThenFrames(lines \o <<Frame>>, frames + 1)
         /\ OnlyFrames(lines) => OnlyFrames(lines \o <<Frame>>)
<1>1. /\ Len(lines \o <<Frame>>) = Len(lines) + 1 /\ Len(lines) \in Nat
      /\ \A i \in 1..Len(lines) : (lines \o <<Frame>>)[i] = lines[i]
      /\ (lines \o <<Frame>>)[Len(lines) + 1] = Frame
  BY LinesType, OneMore
<1>2. \A i \in 1..(Len(lines) + 1) : i \in 1..Len(lines) \/ i = Len(lines) + 1
  BY <1>1
<1>3. ASSUME HeadThenFrames(lines, frames)
      PROVE  HeadThenFrames(lines \o <<Frame>>, frames + 1)
  BY <1>1, <1>2, <1>3 DEF HeadThenFrames
<1>4. OnlyFrames(lines) => OnlyFrames(lines \o <<Frame>>)
  BY <1>1, <1>2 DEF OnlyFrames
<1> QED
  BY <1>1, <1>3, <1>4

\* Settings that do not turn compression off make one head.
LEMMA OwnHead ==
  ASSUME NEW opening, Opening(opening), NEW e \in {None} \cup Settings,
         e = None \/ e.permessage_deflate
  PROVE  HeadThenFrames(opening \o add_extension_headers(e), 0)
<1>1. /\ opening \in Seq(Line) /\ Len(opening) \in Nat
      /\ \A i \in 1..Len(opening) : opening[i] \notin {Blank, Frame}
      /\ Blank # Frame /\ Blank \in Line
  BY LinesType DEF Opening
<1>2. CASE e = None
  <2>1. add_extension_headers(e) = <<Blank>>
    BY <1>2 DEF add_extension_headers
  <2>2. HeadThenFrames(opening \o <<Blank>>, 0)
    BY <1>1, OneMore DEF HeadThenFrames
  <2> QED
    BY <2>1, <2>2
<1>3. CASE e # None
  <2>1. PICK ext \in Line :
          /\ ext = ExtensionLine(HeaderValue(e))
          /\ ext.name = "sec-websocket-extensions"
    BY <1>3, LinesType DEF ExtensionLine
  <2>2. ext \notin {Blank, Frame}
    BY <2>1 DEF Blank, Frame
  <2>3. add_extension_headers(e) = <<ext, Blank>>
    BY <1>3, <2>1 DEF add_extension_headers
  <2>4. PICK first \in Seq(Line) :
          /\ opening \o <<ext, Blank>> = first \o <<Blank>>
          /\ Len(first) = Len(opening) + 1
          /\ \A i \in 1..Len(opening) : first[i] = opening[i]
          /\ first[Len(opening) + 1] = ext
    <3> DEFINE first == opening \o <<ext>>
    <3>1. opening \o <<ext, Blank>> = first \o <<Blank>>
      BY <1>1, <2>1, OneByOne
    <3>2. /\ first \in Seq(Line) /\ Len(first) = Len(opening) + 1
          /\ \A i \in 1..Len(opening) : first[i] = opening[i]
          /\ first[Len(opening) + 1] = ext
      BY <1>1, <2>1, OneMore
    <3> HIDE DEF first
    <3> QED
      BY <3>1, <3>2
  <2>5. \A i \in 1..Len(first) : first[i] \notin {Blank, Frame}
    <3>1. \A i \in 1..Len(first) : i \in 1..Len(opening) \/ i = Len(opening) + 1
      BY <1>1, <2>4
    <3> QED
      BY <1>1, <2>2, <2>4, <3>1
  <2>6. HeadThenFrames(first \o <<Blank>>, 0)
    BY <1>1, <2>5, OneMore DEF HeadThenFrames
  <2> QED
    BY <2>3, <2>4, <2>6
<1> QED
  BY <1>2, <1>3
\* The heads that this library writes, where no line is too many.
LEMMA OwnHeads ==
  ASSUME NEW e \in {None} \cup Settings, e = None \/ e.permessage_deflate
  PROVE  /\ HeadThenFrames(Request(e), 0)
         /\ \A key \in Key : HeadThenFrames(Response(key, e), 0)
  BY Openings, OwnHead DEF Request, Response

\* A step that leaves what an end hears alone, and lets neither end begin to
\* wait or to be silent again, changes nothing about its handover.
LEMMA HandoverKept ==
  ASSUME TypeOK, NEW r \in ours, HandoverOf(r),
         UNCHANGED <<config, ours>>,
         stream'[r] = stream[r], wrote'[Peer(r)] = wrote[Peer(r)],
         seen'[r] = seen[r],
         Waits(r)' => Waits(r),
         Silent(Peer(r))' => Silent(Peer(r)),
         at[r] # "open" => at'[r] # "open"
  PROVE  HandoverOf(r)'
<1>1. OneLineTooMany(Peer(r))' <=> OneLineTooMany(Peer(r))
  BY DEF OneLineTooMany
<1>2. at'[r] = "open" => at[r] = "open"
  OBVIOUS
<1> QED
  BY <1>1, <1>2 DEF HandoverOf

\* The server of this library has compression off in what it has agreed to
\* only when its user has.
LEMMA MergedOff ==
  ASSUME NEW own \in {None} \cup Settings, NEW head,
         merge_extensions(own, ExtensionsIn(head)) # None,
         ~merge_extensions(own, ExtensionsIn(head)).permessage_deflate
  PROVE  own # None /\ ~own.permessage_deflate
<1>1. ExtensionsIn(head) # None => ExtensionsIn(head).permessage_deflate
  BY DEF ExtensionsIn, parse_extensions
<1> QED
  BY <1>1 DEF merge_extensions
LEMMA InitHandover == Init => HandoverInv
<1> SUFFICES ASSUME Init, NEW r \in ours PROVE HandoverOf(r)
  BY DEF HandoverInv
<1>1. r \in Role /\ Peer(r) \in Role /\ at[r] # "open"
  BY DEF Init, Role, Peer
<1>2. stream[r] = <<>> /\ seen[r] = <<>> /\ wrote[Peer(r)] = 0
  BY <1>1 DEF Init
<1> QED
  BY <1>1, <1>2, HeadAlone DEF HandoverOf

\* The steps that only change where the ends are.
QuietStep ==
    \/ BadURL \/ GoodURL \/ Connects \/ ConnectFails
    \/ RefuseRequest
    \/ \E r \in Role : HeadMissing(r) \/ HeadUnreadable(r) \/ ForeignLeaves(r)

LEMMA QuietHandover ==
  TypeOK /\ PlaceInv /\ HandoverInv /\ QuietStep => HandoverInv'
<1> SUFFICES ASSUME TypeOK, PlaceInv, HandoverInv, QuietStep,
                    NEW r \in ours
             PROVE  HandoverOf(r)'
  BY DEF HandoverInv, QuietStep, BadURL, GoodURL, Connects, ConnectFails,
         RefuseRequest, HeadMissing, HeadUnreadable, ForeignLeaves
<1>1. UNCHANGED <<config, ours, stream, wrote, seen>>
  BY DEF QuietStep, BadURL, GoodURL, Connects, ConnectFails, RefuseRequest,
         HeadMissing, HeadUnreadable, ForeignLeaves
<1>2. r \in Role /\ at \in [Role -> Places]
  BY DEF TypeOK
<1>3. /\ Waits(r)' => Waits(r)
      /\ Silent(Peer(r))' => Silent(Peer(r))
      /\ at[r] # "open" => at'[r] # "open"
  <2>1. CASE Connects
    <3>1. at["client"] \in {"connect", "tls"}
      BY <2>1 DEF Connects, Goes
    <3>2. at["server"] = "start"
      BY <3>1 DEF PlaceInv
    <3> QED
      BY <1>2, <2>1, <3>1, <3>2
      DEF Connects, Goes, Waits, Silent, Peer, Role
  <2>2. CASE \E q \in Role : \E to \in {"failed", "left"} :
               at' = [at EXCEPT ![q] = to]
    BY <1>2, <2>2 DEF Waits, Silent, Peer, Role
  <2>3. CASE GoodURL
    BY <1>2, <2>3 DEF GoodURL, Goes, Waits, Silent, Peer, Role
  <2>4. \/ Connects \/ GoodURL
        \/ \E q \in Role : \E to \in {"failed", "left"} :
             at' = [at EXCEPT ![q] = to]
    <3>1. "client" \in Role /\ "server" \in Role
      BY DEF Role
    <3> QED
      BY <3>1 DEF QuietStep, BadURL, ConnectFails, RefuseRequest, HeadMissing,
                  HeadUnreadable, ForeignLeaves, Goes, Fails
  <2> QED
    BY <2>1, <2>2, <2>3, <2>4
<1> QED
  BY <1>1, <1>3, HandoverKept DEF HandoverInv
\* An end that has been silent writes its head.
LEMMA HeadSent ==
  ASSUME TypeOK, NEW s \in Role, Peer(s) \in ours, HandoverOf(Peer(s)),
         Silent(s), ~Silent(s)',
         NEW lines \in Seq(Line),
         ~OneLineTooMany(s) => HeadThenFrames(lines, 0),
         at'[Peer(s)] = at[Peer(s)],
         stream'[Peer(s)] = stream[Peer(s)] \o lines,
         UNCHANGED <<config, ours, wrote, seen>>
  PROVE  HandoverOf(Peer(s))'
<1>1. Peer(Peer(s)) = s
  BY DEF Peer, Role
<1>2. /\ stream[Peer(s)] = <<>> /\ wrote[s] = 0 /\ at[Peer(s)] # "open"
      /\ Waits(Peer(s)) => seen[Peer(s)] = <<>>
  BY <1>1 DEF HandoverOf
<1>3. stream'[Peer(s)] = lines
  BY <1>2
<1>4. OneLineTooMany(s)' <=> OneLineTooMany(s)
  BY DEF OneLineTooMany
<1>5. Waits(Peer(s))' <=> Waits(Peer(s))
  BY DEF Waits
<1> QED
  BY <1>1, <1>2, <1>3, <1>4, <1>5 DEF HandoverOf

\* An end reads the head that has come, and keeps what is behind it.
LEMMA HeadTaken ==
  ASSUME TypeOK, NEW r \in ours, HandoverOf(r),
         at[r] = "await", NEW head \in Heads(stream[r]),
         at'[r] \in {"open", "panicked"},
         stream'[r] = Rest(stream[r], head),
         Silent(Peer(r))' => Silent(Peer(r)),
         UNCHANGED <<config, ours, wrote, seen>>
  PROVE  HandoverOf(r)'
<1>1. r \in Role /\ Peer(r) \in Role
  BY DEF TypeOK, Role, Peer
<1>2. stream[r] \in Seq(Line) /\ wrote[Peer(r)] \in Nat
  BY <1>1, HandshakeAssumption DEF TypeOK
<1>3. ~Silent(Peer(r))
  <2>1. stream[r] # <<>>
    BY <1>2, HeadOf
  <2> QED
    BY <2>1 DEF HandoverOf
<1>4. seen[r] = <<>> /\ Waits(r) /\ ~Waits(r)'
  BY DEF HandoverOf, Waits
<1>5. OneLineTooMany(Peer(r))' <=> OneLineTooMany(Peer(r))
  BY DEF OneLineTooMany
<1>6. ASSUME ~OneLineTooMany(Peer(r))
      PROVE  /\ OnlyFrames(stream'[r]) /\ Len(stream'[r]) = wrote[Peer(r)]
             /\ OnlyFrames(seen'[r]) /\ Len(seen'[r]) = 0
  <2>1. HeadThenFrames(stream[r], wrote[Peer(r)])
    BY <1>4, <1>6 DEF HandoverOf
  <2>2. OnlyFrames(<<>>) /\ Len(<<>>) = 0
    BY DEF OnlyFrames
  <2> QED
    BY <1>2, <1>4, <2>1, <2>2, HeadRead
<1> QED
  BY <1>2, <1>3, <1>4, <1>5, <1>6 DEF HandoverOf

LEMMA FrameHandover ==
  ASSUME TypeOK, HandoverInv, NEW q \in Role, WriteFrame(q)
  PROVE  HandoverInv'
<1> SUFFICES ASSUME NEW r \in ours PROVE HandoverOf(r)'
  BY DEF HandoverInv, WriteFrame
<1>1. /\ r \in Role /\ Peer(r) \in Role /\ HandoverOf(r)
      /\ stream[r] \in Seq(Line) /\ seen[r] \in Seq(Line)
      /\ wrote[Peer(r)] \in Nat /\ DOMAIN stream = Role /\ DOMAIN wrote = Role
  BY HandshakeAssumption DEF TypeOK, HandoverInv, Role, Peer
<1>2. /\ UNCHANGED <<ours, config, at, seen>> /\ at[q] = "open"
      /\ wrote' = [wrote EXCEPT ![q] = @ + 1]
      /\ stream' = [stream EXCEPT ![Peer(q)] = @ \o <<Frame>>]
  BY DEF WriteFrame, Write
<1>3. CASE q = r
  <2>1. Peer(q) # r /\ Peer(r) # q
    BY <1>3 DEF Peer, Role
  <2>2. stream'[r] = stream[r] /\ wrote'[Peer(r)] = wrote[Peer(r)]
    BY <1>1, <1>2, <2>1
  <2> QED
    BY <1>1, <1>2, <2>2, HandoverKept DEF Waits, Silent
<1>4. CASE q # r
  <2>1. q = Peer(r) /\ Peer(q) = r
    BY <1>1, <1>4 DEF Peer, Role
  <2>2. /\ stream'[r] = stream[r] \o <<Frame>>
        /\ wrote'[Peer(r)] = wrote[Peer(r)] + 1
        /\ seen'[r] = seen[r] /\ at' = at
    BY <1>1, <1>2, <2>1
  <2>3. ~Silent(Peer(r)) /\ ~Silent(Peer(r))'
    BY <1>2, <2>1 DEF Silent
  <2>4. OneLineTooMany(Peer(r))' <=> OneLineTooMany(Peer(r))
    BY <1>2 DEF OneLineTooMany
  <2>5. Waits(r)' <=> Waits(r)
    BY <1>2 DEF Waits
  <2>6. Len(seen[r]) \in Nat /\ Len(stream[r]) \in Nat
    BY <1>1
  <2>7. ASSUME ~OneLineTooMany(Peer(r)), Waits(r)
        PROVE  HeadThenFrames(stream'[r], wrote'[Peer(r)])
    BY <1>1, <2>2, <2>7, FrameBehind DEF HandoverOf
  <2>8. ASSUME ~OneLineTooMany(Peer(r)), at[r] = "open"
        PROVE  /\ OnlyFrames(seen'[r]) /\ OnlyFrames(stream'[r])
               /\ Len(seen'[r]) + Len(stream'[r]) = wrote'[Peer(r)]
    <3>1. /\ OnlyFrames(seen[r]) /\ OnlyFrames(stream[r])
          /\ Len(seen[r]) + Len(stream[r]) = wrote[Peer(r)]
      BY <1>1, <2>8 DEF HandoverOf
    <3>2. OnlyFrames(stream'[r]) /\ Len(stream'[r]) = Len(stream[r]) + 1
      BY <1>1, <2>2, <3>1, FrameBehind
    <3>3. PICK a \in Nat, b \in Nat : a = Len(seen[r]) /\ b = Len(stream[r])
      BY <2>6
    <3>4. a + b = wrote[Peer(r)] /\ Len(seen'[r]) = a
      BY <2>2, <3>1, <3>3
    <3>5. Len(stream'[r]) = b + 1 /\ wrote'[Peer(r)] = a + b + 1
      BY <2>2, <3>2, <3>3, <3>4
    <3> QED
      BY <2>2, <3>1, <3>2, <3>4, <3>5
  <2> QED
    BY <1>1, <2>2, <2>3, <2>4, <2>5, <2>7, <2>8 DEF HandoverOf
<1> QED
  BY <1>3, <1>4

LEMMA HeaderHandover ==
  ASSUME TypeOK, HandoverInv, NEW q \in Role, ReadHeader(q)
  PROVE  HandoverInv'
<1> SUFFICES ASSUME NEW r \in ours PROVE HandoverOf(r)'
  BY DEF HandoverInv, ReadHeader
<1>1. /\ r \in Role /\ HandoverOf(r)
      /\ stream[r] \in Seq(Line) /\ seen[r] \in Seq(Line)
      /\ DOMAIN stream = Role /\ DOMAIN seen = Role
  BY DEF TypeOK, HandoverInv
<1>2. /\ UNCHANGED <<ours, config, at, wrote>> /\ at[q] = "open"
      /\ stream[q] # <<>>
      /\ seen' = [seen EXCEPT ![q] = Append(@, Head(stream[q]))]
      /\ stream' = [stream EXCEPT ![q] = Tail(@)]
  BY DEF ReadHeader
<1>3. CASE q # r
  BY <1>1, <1>2, <1>3, HandoverKept DEF Waits, Silent
<1>4. CASE q = r
  <2>1. /\ seen'[r] = Append(seen[r], Head(stream[r]))
        /\ stream'[r] = Tail(stream[r]) /\ stream[r] # <<>>
        /\ at' = at /\ at[r] = "open"
    BY <1>1, <1>2, <1>4
  <2>2. /\ Len(seen'[r]) = Len(seen[r]) + 1
        /\ Len(stream'[r]) = Len(stream[r]) - 1
        /\ Len(seen[r]) \in Nat /\ Len(stream[r]) \in Nat
    BY <1>1, <2>1
  <2>3. ~Silent(Peer(r)) /\ ~Silent(Peer(r))' /\ ~Waits(r) /\ ~Waits(r)'
    BY <1>1, <2>1 DEF HandoverOf, Waits, Silent
  <2>4. OneLineTooMany(Peer(r))' <=> OneLineTooMany(Peer(r))
    BY <1>2 DEF OneLineTooMany
  <2>5. ASSUME ~OneLineTooMany(Peer(r))
        PROVE  /\ OnlyFrames(seen'[r]) /\ OnlyFrames(stream'[r])
               /\ Len(seen'[r]) + Len(stream'[r]) = wrote[Peer(r)]
    <3>1. /\ OnlyFrames(seen[r]) /\ OnlyFrames(stream[r])
          /\ Len(seen[r]) + Len(stream[r]) = wrote[Peer(r)]
      BY <1>1, <2>1, <2>5 DEF HandoverOf
    <3>2. OnlyFrames(stream'[r])
      BY <1>1, <2>1, <3>1 DEF OnlyFrames
    <3>3. OnlyFrames(seen'[r])
      BY <1>1, <2>1, <3>1 DEF OnlyFrames
    <3>4. PICK a \in Nat, b \in Nat : a = Len(seen[r]) /\ b = Len(stream[r])
      BY <2>2
    <3>6. /\ a + b = wrote[Peer(r)]
          /\ Len(seen'[r]) = a + 1 /\ Len(stream'[r]) = b - 1
      BY <2>2, <3>1, <3>4
    <3>7. (a + 1) + (b - 1) = a + b
      OBVIOUS
    <3>5. Len(seen'[r]) + Len(stream'[r]) = wrote[Peer(r)]
      BY <3>6, <3>7
    <3> QED
      BY <3>2, <3>3, <3>5
  <2> QED
    BY <1>2, <2>1, <2>3, <2>4, <2>5 DEF HandoverOf
<1> QED
  BY <1>3, <1>4
LEMMA RequestHandover ==
  ASSUME TypeOK, PlaceInv, HandoverInv, SendRequest
  PROVE  HandoverInv'
<1> SUFFICES ASSUME NEW r \in ours PROVE HandoverOf(r)'
  BY DEF HandoverInv, SendRequest
<1>1. /\ r \in Role /\ HandoverOf(r) /\ at \in [Role -> Places]
      /\ DOMAIN stream = Role
      /\ config["client"] \in {None} \cup Settings /\ "client" \in ours
  BY HandshakeAssumption DEF TypeOK, HandoverInv, SendRequest, Role
<1>2. /\ UNCHANGED <<ours, config, wrote, seen>> /\ at["client"] = "request"
  BY DEF SendRequest, Goes
<1>3. CASE Fails("client", "IOError") /\ UNCHANGED stream
  <2>1. at' = [at EXCEPT !["client"] = "failed"]
    BY <1>3 DEF Fails
  <2>2. /\ Waits(r)' => Waits(r)
        /\ Silent(Peer(r))' => Silent(Peer(r))
        /\ at[r] # "open" => at'[r] # "open"
    BY <1>1, <2>1 DEF Waits, Silent, Peer, Role
  <2> QED
    BY <1>1, <1>2, <1>3, <2>2, HandoverKept
<1>4. CASE Goes("client", "request", "await")
           /\ Write("client", Request(config["client"]))
  <2>1. /\ at' = [at EXCEPT !["client"] = "await"]
        /\ stream' = [stream EXCEPT !["server"] =
                         @ \o Request(config["client"])]
    BY <1>4 DEF Goes, Write, Peer
  <2>2. CASE r = "client"
    <3>1. /\ Waits(r)' => Waits(r)
          /\ Silent(Peer(r))' => Silent(Peer(r))
          /\ at[r] # "open" => at'[r] # "open"
      BY <1>1, <1>2, <2>1, <2>2 DEF Waits, Silent, Peer, Role
    <3>2. stream'[r] = stream[r]
      BY <1>1, <2>1, <2>2
    <3> QED
      BY <1>1, <1>2, <3>1, <3>2, HandoverKept
  <2>3. CASE r = "server"
    <3>1. /\ Peer("client") = "server" /\ "client" \in Role
          /\ "server" \in Role
      BY DEF Peer, Role
    <3>2. /\ at'["server"] = at["server"] /\ at'["client"] = "await"
          /\ stream'["server"] = stream["server"] \o Request(config["client"])
      BY <1>1, <2>1, <3>1
    <3>3. Silent("client") /\ ~Silent("client")'
      BY <1>2, <3>2 DEF Silent
    <3>4. Request(config["client"]) \in Seq(Line)
      BY <1>1, LinesType
    <3>5. ~OneLineTooMany("client")
            => HeadThenFrames(Request(config["client"]), 0)
      BY <1>1, OwnHeads DEF OneLineTooMany
    <3> QED
      BY <1>1, <1>2, <2>3, <3>1, <3>2, <3>3, <3>4, <3>5, HeadSent
  <2> QED
    BY <1>1, <2>2, <2>3 DEF Role
<1> QED
  BY <1>3, <1>4 DEF SendRequest

LEMMA ResponseHandover ==
  ASSUME TypeOK, HandoverInv, ReadResponse
  PROVE  HandoverInv'
<1> SUFFICES ASSUME NEW r \in ours PROVE HandoverOf(r)'
  BY DEF HandoverInv, ReadResponse
<1>1. /\ r \in Role /\ HandoverOf(r) /\ at \in [Role -> Places]
      /\ DOMAIN stream = Role /\ UNCHANGED <<ours, config, wrote, seen>>
  BY DEF TypeOK, HandoverInv, ReadResponse
<1>2. PICK head \in Heads(stream["client"]) :
        \/ /\ at' = [at EXCEPT !["client"] = "failed"]
           /\ UNCHANGED stream
        \/ /\ at' = [at EXCEPT !["client"] = "open"]
                \/ at' = [at EXCEPT !["client"] = "panicked"]
           /\ stream' = [stream EXCEPT !["client"] = Rest(@, head)]
  BY DEF ReadResponse, Arrived, Opens, Fails
<1>3. at["client"] = "await" /\ "client" \in ours
  BY DEF ReadResponse, Arrived
<1>4. \/ at' = [at EXCEPT !["client"] = "failed"]
      \/ at' = [at EXCEPT !["client"] = "open"]
      \/ at' = [at EXCEPT !["client"] = "panicked"]
  BY <1>2
<1>5. CASE r = "server"
  <2>1. stream'[r] = stream[r]
    BY <1>1, <1>2, <1>5
  <2>2. /\ Waits(r)' => Waits(r)
        /\ Silent(Peer(r))' => Silent(Peer(r))
        /\ at[r] # "open" => at'[r] # "open"
    BY <1>1, <1>4, <1>5 DEF Waits, Silent, Peer, Role
  <2> QED
    BY <1>1, <2>1, <2>2, HandoverKept
<1>6. CASE r = "client"
  <2>1. Silent(Peer(r))' => Silent(Peer(r))
    BY <1>1, <1>4, <1>6 DEF Silent, Peer, Role
  <2>2. CASE at' = [at EXCEPT !["client"] = "failed"] /\ UNCHANGED stream
    <3>1. /\ Waits(r)' => Waits(r)
          /\ at[r] # "open" => at'[r] # "open"
      BY <1>1, <1>6, <2>2 DEF Waits
    <3> QED
      BY <1>1, <2>1, <2>2, <3>1, HandoverKept
  <2>3. CASE /\ at' = [at EXCEPT !["client"] = "open"]
                  \/ at' = [at EXCEPT !["client"] = "panicked"]
             /\ stream' = [stream EXCEPT !["client"] = Rest(@, head)]
    <3>1. /\ at'[r] \in {"open", "panicked"}
          /\ stream'[r] = Rest(stream[r], head)
      BY <1>1, <1>6, <2>3
    <3> QED
      BY <1>1, <1>2, <1>3, <1>6, <2>1, <3>1, HeadTaken
  <2> QED
    BY <1>2, <2>2, <2>3
<1> QED
  BY <1>1, <1>5, <1>6 DEF Role

LEMMA ForeignHandover ==
  ASSUME TypeOK, HandoverInv, ForeignRequest \/ ForeignResponse
  PROVE  HandoverInv'
<1>1. PICK s \in Role, from \in Places, lines \in Requests \cup Responses :
        /\ s \notin ours /\ at[s] = from /\ at' = [at EXCEPT ![s] = "open"]
        /\ from = IF s = "client" THEN "request" ELSE "await"
        /\ \E n \in 0..Len(lines) : Write(s, SubSeq(lines, 1, n))
        /\ UNCHANGED <<ours, config, wrote, seen>>
  <2>1. "client" \in Role /\ "server" \in Role
        /\ "request" \in Places /\ "await" \in Places
    BY DEF Role, Places
  <2> QED
    BY <2>1 DEF ForeignRequest, ForeignResponse, Goes, Foreign
<1> SUFFICES ASSUME NEW r \in ours PROVE HandoverOf(r)'
  BY <1>1 DEF HandoverInv
<1>2. /\ r \in Role /\ HandoverOf(r) /\ at \in [Role -> Places]
      /\ DOMAIN stream = Role
  BY DEF TypeOK, HandoverInv
<1>3. r = Peer(s)
  BY <1>1, <1>2 DEF Role, Peer
<1>4. OneHead(lines) /\ lines \in Seq(Line)
  BY HandshakeAssumption DEF OneHead
<1>5. PICK n \in 0..Len(lines) : Write(s, SubSeq(lines, 1, n))
  BY <1>1
<1>6. /\ SubSeq(lines, 1, n) \in Seq(Line)
      /\ HeadThenFrames(SubSeq(lines, 1, n), 0)
  BY <1>4, HeadAlone, SubSeqProperties
<1>7. stream'[Peer(s)] = stream[Peer(s)] \o SubSeq(lines, 1, n)
  BY <1>2, <1>3, <1>5 DEF Write
<1>8. Silent(s) /\ ~Silent(s)' /\ at'[Peer(s)] = at[Peer(s)]
  BY <1>1, <1>2, <1>3 DEF Silent, Peer, Role
<1> QED
  BY <1>1, <1>2, <1>3, <1>6, <1>7, <1>8, HeadSent
LEMMA AcceptHandover ==
  ASSUME TypeOK, HandoverInv, AcceptRequest
  PROVE  HandoverInv'
<1> SUFFICES ASSUME NEW r \in ours PROVE HandoverOf(r)'
  BY DEF HandoverInv, AcceptRequest
<1>1. /\ r \in Role /\ HandoverOf(r) /\ at \in [Role -> Places]
      /\ DOMAIN stream = Role /\ UNCHANGED <<ours, config, wrote, seen>>
      /\ config["server"] \in {None} \cup Settings
      /\ stream["server"] \in Seq(Line) /\ agreed \in [Role -> {None} \cup Settings]
      /\ "server" \in Role /\ "client" \in Role
  BY HandshakeAssumption DEF TypeOK, HandoverInv, AcceptRequest, Role
<1>2. PICK head \in Heads(stream["server"]) :
        /\ HeadError(head) = None /\ RequestError(head) = None
        /\ \/ /\ Opens("server", Merged(head))
              /\ stream' =
                    [server |-> Rest(stream["server"], head),
                     client |-> stream["client"] \o
                         Response(ValueOf(head, "sec-websocket-key"),
                                  agreed'["server"])]
           \/ Fails("server", "IOError") /\ UNCHANGED <<agreed, stream>>
  BY DEF AcceptRequest, Arrived
<1>3. at["server"] = "await" /\ "server" \in ours
  BY DEF AcceptRequest, Arrived
<1>4. CASE Fails("server", "IOError") /\ UNCHANGED <<agreed, stream>>
  <2>1. at' = [at EXCEPT !["server"] = "failed"]
    BY <1>4 DEF Fails
  <2>2. /\ Waits(r)' => Waits(r)
        /\ Silent(Peer(r))' => Silent(Peer(r))
        /\ at[r] # "open" => at'[r] # "open"
    BY <1>1, <2>1 DEF Waits, Silent, Peer, Role
  <2> QED
    BY <1>1, <1>4, <2>2, HandoverKept
<1>5. CASE /\ Opens("server", Merged(head))
           /\ stream' =
                 [server |-> Rest(stream["server"], head),
                  client |-> stream["client"] \o
                      Response(ValueOf(head, "sec-websocket-key"),
                               agreed'["server"])]
  <2>1. /\ at' = [at EXCEPT !["server"] = "open"]
             \/ at' = [at EXCEPT !["server"] = "panicked"]
        /\ agreed'["server"] = Merged(head)
    BY <1>1, <1>5 DEF Opens
  <2>2. CASE r = "server"
    <3>1. Silent(Peer(r))' => Silent(Peer(r))
      BY <1>1, <2>1, <2>2 DEF Silent, Peer, Role
    <3>2. /\ at'[r] \in {"open", "panicked"}
          /\ stream'[r] = Rest(stream[r], head)
      BY <1>1, <1>5, <2>1, <2>2
    <3> QED
      BY <1>1, <1>2, <1>3, <2>2, <3>1, <3>2, HeadTaken
  <2>3. CASE r = "client"
    <3>1. Peer("server") = "client"
      BY DEF Peer
    <3>2. head \in Seq(Line)
      BY <1>1, HeadOf
    <3>3. PICK key \in Key : key = ValueOf(head, "sec-websocket-key")
      BY <1>1, <1>2, HeaderType
    <3>4. PICK e \in {None} \cup Settings : e = agreed'["server"]
      BY <1>1, <1>2, <2>1, HeaderType, MergeType DEF Merged
    <3>5. Response(key, e) \in Seq(Line)
      BY LinesType
    <3>6. ~OneLineTooMany("server") => HeadThenFrames(Response(key, e), 0)
      <4>1. ~OneLineTooMany("server") => e = None \/ e.permessage_deflate
        BY <1>1, <1>3, <2>1, <3>4, MergedOff DEF Merged, OneLineTooMany
      <4> QED
        BY <4>1, OwnHeads
    <3>7. stream'["client"] = stream["client"] \o Response(key, e)
      BY <1>5, <3>3, <3>4
    <3>8. /\ Silent("server") /\ ~Silent("server")'
          /\ at'["client"] = at["client"]
      BY <1>1, <1>3, <2>1 DEF Silent
    <3> QED
      BY <1>1, <2>3, <3>1, <3>5, <3>6, <3>7, <3>8, HeadSent
  <2> QED
    BY <1>1, <2>2, <2>3 DEF Role
<1> QED
  BY <1>2, <1>4, <1>5

LEMMA StepHandover ==
  TypeOK /\ PlaceInv /\ HandoverInv /\ [Next]_vars => HandoverInv'
<1> SUFFICES ASSUME TypeOK, PlaceInv, HandoverInv, [Next]_vars
             PROVE  HandoverInv'
  OBVIOUS
<1>1. CASE QuietStep
  BY <1>1, QuietHandover
<1>2. CASE SendRequest \/ ReadResponse
  BY <1>2, RequestHandover, ResponseHandover
<1>3. CASE AcceptRequest \/ ForeignRequest \/ ForeignResponse
  BY <1>3, AcceptHandover, ForeignHandover
<1>4. CASE \E q \in Role : WriteFrame(q) \/ ReadHeader(q)
  BY <1>4, FrameHandover, HeaderHandover
<1>5. CASE UNCHANGED vars
  BY <1>5 DEF vars, HandoverInv, HandoverOf, Waits, Silent, OneLineTooMany
<1> QED
  BY <1>1, <1>2, <1>3, <1>4, <1>5
  DEF Next, ClientStep, ServerStep, EitherStep, ForeignStep, QuietStep

LEMMA HandoverEnough == TypeOK /\ HandoverInv => CleanHandover
<1> SUFFICES ASSUME TypeOK, HandoverInv, NEW r \in ours,
                    at[r] = "open", ~OneLineTooMany(Peer(r))
             PROVE  seen[r] \o stream[r]
                      = [i \in 1..wrote[Peer(r)] |-> Frame]
  BY DEF CleanHandover
<1>1. PICK a \in Seq(Line), b \in Seq(Line), n \in Nat :
        a = seen[r] /\ b = stream[r] /\ n = wrote[Peer(r)]
  BY HandshakeAssumption DEF TypeOK, Role, Peer
<1>2. OnlyFrames(a) /\ OnlyFrames(b) /\ Len(a) + Len(b) = n
  BY <1>1 DEF HandoverInv, HandoverOf
<1> DEFINE all == a \o b
           frames == [i \in 1..n |-> Frame]
<1>3. /\ all \in Seq(Line) /\ Len(all) = n
      /\ \A i \in 1..Len(a) : all[i] = a[i]
      /\ \A i \in 1..n : i \notin 1..Len(a) => all[i] = b[i - Len(a)]
  BY <1>2
<1>4. /\ frames \in Seq(Line) /\ Len(frames) = n
      /\ \A i \in 1..n : frames[i] = Frame
  BY LinesType, IsASeq
<1>5. \A i \in 1..n : all[i] = Frame
  <2>1. Len(a) \in Nat /\ Len(b) \in Nat
    OBVIOUS
  <2>2. \A i \in 1..n : i \notin 1..Len(a) => i - Len(a) \in 1..Len(b)
    BY <1>2, <2>1
  <2> QED
    BY <1>2, <1>3, <2>2 DEF OnlyFrames
<1> HIDE DEF all, frames
<1>6. all = frames
  BY <1>3, <1>4, <1>5, SeqEqual
<1> QED
  BY <1>1, <1>6 DEF all, frames

\* Whatever the other end writes, cuts off or sends along with its head,
\* what an open end finds behind the head is all the frames of the other
\* end and nothing else: nothing that the handshake had buffered is lost,
\* and no line of a head is left over (request.rs:89-97,
\* handshake.rs:54, 107).
THEOREM HandoverIsClean == Spec => []CleanHandover
<1>1. Init => TypeOK /\ PlaceInv /\ HandoverInv
  BY InitType, InitHandover
<1>2. TypeOK /\ PlaceInv /\ HandoverInv /\ [Next]_vars
        => TypeOK' /\ PlaceInv' /\ HandoverInv'
  BY StepType, StepHandover
<1>3. TypeOK /\ HandoverInv => CleanHandover
  BY HandoverEnough
<1> QED
  BY <1>1, <1>2, <1>3, PTL DEF Spec
(***************************************************************************)
(* The agreement.                                                          *)
(***************************************************************************)

\* What a server agrees to with an offer.
LEMMA MergeWithin ==
  ASSUME NEW own \in {None} \cup Settings, NEW offer \in {None} \cup Settings,
         Deflates(merge_extensions(own, offer))
  PROVE  /\ Within(merge_extensions(own, offer), own)
         /\ Deflates(offer)
         /\ \A asked \in Settings :
              asked.permessage_deflate /\ offer = AsRead(asked)
                => Within(merge_extensions(own, offer), asked)
<1>1. own # None /\ offer # None
  BY DEF Deflates, merge_extensions
<1>2. PICK m : m = merge_extensions(own, offer)
  OBVIOUS
<1>3. /\ own.permessage_deflate /\ offer.permessage_deflate
      /\ m.client_no_context_takeover
           = And(own.client_no_context_takeover,
                 offer.client_no_context_takeover)
      /\ m.server_no_context_takeover
           = And(own.server_no_context_takeover,
                 offer.server_no_context_takeover)
      /\ m.client_max_window_bits
           = Narrower(own.client_max_window_bits, offer.client_max_window_bits)
      /\ m.server_max_window_bits
           = Narrower(own.server_max_window_bits, offer.server_max_window_bits)
  BY <1>1, <1>2 DEF Deflates, merge_extensions
<1>4. \A a, b \in Width :
        Allows(a, Narrower(a, b)) /\ Allows(b, Narrower(a, b))
  <2>1. ASSUME NEW a \in 0..255, NEW b \in 0..255
        PROVE  Allows(a, Narrower(a, b)) /\ Allows(b, Narrower(a, b))
    <3>1. a # None /\ b # None
      BY AbsentAssumption
    <3>2. Narrower(a, b) = IF a <= b THEN a ELSE b
      BY <3>1 DEF Narrower
    <3>3. Narrower(a, b) \in {a, b} /\ Narrower(a, b) <= a /\ Narrower(a, b) <= b
      BY <3>2
    <3> QED
      BY <3>1, <3>3 DEF Allows
  <2>2. ASSUME NEW a \in 0..255
        PROVE  /\ Narrower(a, None) = a /\ Narrower(None, a) = a
               /\ Allows(a, a) /\ Allows(None, a)
    BY AbsentAssumption DEF Narrower, Allows
  <2>3. Allows(None, Narrower(None, None))
    BY DEF Allows
  <2>4. \A a \in Width : a = None \/ a \in 0..255
    BY DEF Width
  <2>5. ASSUME NEW a \in Width, NEW b \in Width
        PROVE  Allows(a, Narrower(a, b)) /\ Allows(b, Narrower(a, b))
    <3>1. CASE a = None
      BY <2>2, <2>3, <2>4, <3>1
    <3>2. CASE b = None
      BY <2>2, <2>3, <2>4, <3>2
    <3> QED
      BY <2>1, <2>4, <3>1, <3>2
  <2> QED
    BY <2>5
<1>5. /\ \A f, g \in Flag : IsTrue(And(f, g)) => f # None /\ IsTrue(g)
      /\ \A f \in Flag : IsTrue(OnlyTrue(f)) => f # None
  BY AbsentAssumption DEF Flag, IsTrue, And, OnlyTrue
<1>6. \A e \in Settings : /\ e.client_no_context_takeover \in Flag
                          /\ e.server_no_context_takeover \in Flag
                          /\ e.client_max_window_bits \in Width
                          /\ e.server_max_window_bits \in Width
  BY DEF Settings
<1>7. Within(m, own)
  BY <1>1, <1>3, <1>4, <1>5, <1>6 DEF Within
<1>8. Deflates(offer)
  BY <1>1, <1>3 DEF Deflates
<1>9. ASSUME NEW asked \in Settings, asked.permessage_deflate,
             offer = AsRead(asked)
      PROVE  Within(m, asked)
  <2>1. /\ offer.client_no_context_takeover
             = OnlyTrue(asked.client_no_context_takeover)
        /\ offer.server_no_context_takeover
             = OnlyTrue(asked.server_no_context_takeover)
        /\ offer.client_max_window_bits = asked.client_max_window_bits
        /\ offer.server_max_window_bits = asked.server_max_window_bits
    BY <1>9 DEF AsRead
  <2>2. asked # None
    BY AbsentAssumption
  <2>3. /\ IsTrue(m.client_no_context_takeover)
             => asked.client_no_context_takeover # None
        /\ IsTrue(m.server_no_context_takeover)
             => asked.server_no_context_takeover # None
    BY <1>1, <1>3, <1>5, <1>6, <2>1
  <2>4. /\ Allows(asked.client_max_window_bits, m.client_max_window_bits)
        /\ Allows(asked.server_max_window_bits, m.server_max_window_bits)
    BY <1>1, <1>3, <1>4, <1>6, <2>1
  <2> QED
    BY <1>9, <2>2, <2>3, <2>4 DEF Within
<1> QED
  BY <1>2, <1>7, <1>8, <1>9

\* An answer is still there when more is behind it.
LEMMA AnswerStays ==
  ASSUME NEW lines \in Seq(Line), NEW more \in Seq(Line),
         NEW e \in {None} \cup Settings, Answered(lines, e)
  PROVE  Answered(lines \o more, e)
<1>1. PICK key \in Key :
        /\ Len(lines) >= Len(Response(key, e))
        /\ SubSeq(lines, 1, Len(Response(key, e))) = Response(key, e)
  BY DEF Answered
<1>2. PICK head \in Seq(Line) : head = Response(key, e)
  BY LinesType
<1>3. /\ Len(lines \o more) >= Len(head)
      /\ SubSeq(lines \o more, 1, Len(head)) = SubSeq(lines, 1, Len(head))
  BY <1>1, <1>2
<1> QED
  BY <1>1, <1>2, <1>3 DEF Answered

LEMMA AnswerAlone ==
  ASSUME NEW key \in Key, NEW e \in {None} \cup Settings
  PROVE  Answered(<<>> \o Response(key, e), e)
<1>1. PICK head \in Seq(Line) : head = Response(key, e)
  BY LinesType
<1>2. <<>> \o head = head /\ SubSeq(head, 1, Len(head)) = head
  BY SubSeqFull
<1> QED
  BY <1>1, <1>2 DEF Answered

\* The client reads in an answer what the server has agreed to.
LEMMA AnswerRead ==
  ASSUME NEW lines \in Seq(Line), NEW e \in {None} \cup Settings,
         Answered(lines, e), NEW head \in Heads(lines)
  PROVE  ExtensionsIn(head) = Reads(e)
<1>1. PICK key \in Key :
        /\ Len(lines) >= Len(Response(key, e))
        /\ SubSeq(lines, 1, Len(Response(key, e))) = Response(key, e)
  BY DEF Answered
<1>2. PICK answer \in Seq(Line) : answer = Response(key, e)
  BY LinesType
<1>3. PICK n \in Nat : n = Len(answer)
  BY <1>2
<1>4. PICK rest \in Seq(Line) : rest = SubSeq(lines, n + 1, Len(lines))
  <2>1. /\ n + 1 \in Int /\ Len(lines) \in Int
        /\ \A i \in (n + 1)..Len(lines) : lines[i] \in Line
    BY <1>3
  <2>2. SubSeq(lines, n + 1, Len(lines)) \in Seq(Line)
    BY <2>1, SubSeqProperties
  <2> QED
    BY <2>2
<1>5. lines = answer \o rest
  <2>1. /\ 1 \in 1..(Len(lines) + 1) /\ n \in 0..Len(lines)
        /\ Len(lines) \in n..Len(lines) /\ 1 - 1 = 0
    BY <1>1, <1>2, <1>3
  <2>2. SubSeq(lines, 1, n) \o SubSeq(lines, n + 1, Len(lines))
          = SubSeq(lines, 1, Len(lines))
    BY <2>1, ConcatAdjacentSubSeq
  <2> QED
    BY <1>1, <1>2, <1>3, <1>4, <2>2, SubSeqFull
<1>6. head \in Heads(answer \o rest)
  BY <1>5
<1> QED
  BY <1>2, <1>6, Openings, HeadWritten DEF Response

LEMMA RequestRead ==
  ASSUME NEW e \in {None} \cup Settings, NEW head \in Heads(Request(e))
  PROVE  ExtensionsIn(head) = Reads(e)
<1>1. Request(e) \in Seq(Line)
  BY LinesType
<1>2. Request(e) \o <<>> = Request(e)
  BY <1>1
<1>3. head \in Heads(Request(e) \o <<>>)
  BY <1>2
<1>4. <<>> \in Seq(Line)
  BY EmptySeq
<1> QED
  BY <1>3, <1>4, Openings, HeadWritten DEF Request

LEMMA InitAgreement == Init => AgreementInv /\ OwnInv
<1> SUFFICES ASSUME Init PROVE AgreementInv /\ OwnInv
  OBVIOUS
<1>1. /\ stream["server"] = <<>> /\ stream["client"] = <<>>
      /\ agreed["server"] = None
      /\ "server" \in ours => ~Built("server")
      /\ "client" \in ours => ~Built("client")
  BY DEF Init, Role, Built
<1> QED
  BY <1>1 DEF AgreementInv, OwnInv, BothOurs, Role, Deflates
\* What a step of another kind leaves as it is.
LEMMA AgreementKept ==
  ASSUME AgreementInv, OwnInv,
         UNCHANGED <<ours, config, agreed>>,
         BothOurs => /\ at'["server"] = "await" =>
                           \/ at["server"] = "await"
                                /\ stream'["server"] = stream["server"]
                           \/ stream'["server"] = <<>>
                     /\ Waits("client")' =>
                           /\ Waits("client")
                           /\ stream'["client"] = stream["client"],
         "client" \in ours => (Built("client") <=> Built("client")'),
         "server" \in ours => (Built("server") <=> Built("server")')
  PROVE  AgreementInv' /\ OwnInv'
<1>1. OwnInv'
  BY DEF OwnInv
<1>2. ASSUME BothOurs PROVE BothOurs' /\ "client" \in ours /\ "server" \in ours
  BY <1>2 DEF BothOurs, Role
<1>3. BothOurs' => BothOurs
  BY DEF BothOurs
<1> QED
  BY <1>1, <1>2, <1>3 DEF AgreementInv
\* What a server of this library agrees to, and what its client takes from
\* the answer.
LEMMA StepAgreement ==
  TypeOK /\ PlaceInv /\ HandoverInv /\ AgreementInv /\ OwnInv /\ [Next]_vars
    => AgreementInv' /\ OwnInv'
<1> SUFFICES ASSUME TypeOK, PlaceInv, HandoverInv, AgreementInv, OwnInv,
                    [Next]_vars
             PROVE  AgreementInv' /\ OwnInv'
  OBVIOUS
<1>1. /\ "client" \in Role /\ "server" \in Role
      /\ at \in [Role -> Places] /\ stream \in [Role -> Seq(Line)]
      /\ agreed \in [Role -> {None} \cup Settings]
      /\ config \in [Role -> {None} \cup Settings]
      /\ BothOurs => "client" \in ours /\ "server" \in ours
      /\ "client" # "server"
  BY HandshakeAssumption DEF TypeOK, Role, BothOurs
<1>2. CASE QuietStep
  <2>1. UNCHANGED <<ours, config, agreed, stream>>
    BY <1>2
    DEF QuietStep, BadURL, GoodURL, Connects, ConnectFails, RefuseRequest,
        HeadMissing, HeadUnreadable, ForeignLeaves
  <2>2. CASE Connects
    <3>1. at["client"] \in {"connect", "tls"} /\ at["server"] = "start"
      BY <2>2 DEF Connects, Goes, PlaceInv
    <3>2. /\ at'["client"] \in {"tls", "request"}
          /\ at'["server"] \in {"start", "await"}
      BY <1>1, <2>2, <3>1 DEF Connects, Goes
    <3>3. BothOurs => stream["server"] = <<>>
      BY <1>1, <3>1 DEF HandoverInv, HandoverOf, Silent, Peer
    <3> QED
      BY <1>1, <2>1, <3>1, <3>2, <3>3, AgreementKept DEF Waits, Built
  <2>3. CASE GoodURL
    <3>1. at["client"] = "start" /\ at' = [at EXCEPT !["client"] = "connect"]
      BY <2>3 DEF GoodURL, Goes
    <3> QED
      BY <1>1, <2>1, <3>1, AgreementKept DEF Waits, Built
  <2>4. CASE \E q \in Role : /\ at' = [at EXCEPT ![q] = "failed"]
                             /\ ~Built(q)
    BY <1>1, <2>1, <2>4, AgreementKept DEF Waits, Built, Role
  <2>5. CASE \E q \in Role : q \notin ours /\ at' = [at EXCEPT ![q] = "left"]
    BY <1>1, <2>1, <2>5, AgreementKept DEF Waits, Built, Role
  <2>6. \/ Connects \/ GoodURL
        \/ \E q \in Role : at' = [at EXCEPT ![q] = "failed"] /\ ~Built(q)
        \/ \E q \in Role : q \notin ours /\ at' = [at EXCEPT ![q] = "left"]
    BY <1>1, <1>2
    DEF QuietStep, BadURL, ConnectFails, RefuseRequest, HeadMissing,
        HeadUnreadable, ForeignLeaves, Foreign, Goes, Fails, Arrived, Built
  <2> QED
    BY <2>2, <2>3, <2>4, <2>5, <2>6
<1>3. CASE SendRequest
  <2>1. /\ UNCHANGED <<ours, config, agreed>>
        /\ at["client"] = "request" /\ "client" \in ours
    BY <1>3 DEF SendRequest, Goes
  <2>2. CASE at' = [at EXCEPT !["client"] = "failed"] /\ UNCHANGED stream
    BY <1>1, <2>1, <2>2, AgreementKept DEF Waits, Built
  <2>3. CASE /\ at' = [at EXCEPT !["client"] = "await"]
             /\ Write("client", Request(config["client"]))
    <3>1. /\ at'["server"] = at["server"] /\ at'["client"] = "await"
          /\ stream'["client"] = stream["client"]
          /\ stream'["server"] = stream["server"] \o Request(config["client"])
      BY <1>1, <2>3 DEF Write, Peer
    <3>2. BothOurs => stream["server"] = <<>>
      BY <1>1, <2>1 DEF HandoverInv, HandoverOf, Silent, Peer
    <3>3. BothOurs => stream'["server"] = Request(config["client"])
      BY <1>1, <3>1, <3>2, LinesType
    <3>4. Waits("client") /\ Waits("client")'
      BY <2>1, <3>1 DEF Waits
    <3>5. /\ Built("server")' <=> Built("server")
          /\ ~Built("client") /\ ~Built("client")'
      BY <2>1, <3>1 DEF Built
    <3>6. BothOurs' => BothOurs
      BY <2>1 DEF BothOurs
    <3> QED
      BY <2>1, <3>1, <3>3, <3>4, <3>5, <3>6 DEF AgreementInv, OwnInv
  <2> QED
    BY <1>3, <2>2, <2>3 DEF SendRequest, Goes, Fails
<1>4. CASE ReadResponse
  <2>1. /\ UNCHANGED <<ours, config>>
        /\ at["client"] = "await" /\ "client" \in ours
    BY <1>4 DEF ReadResponse, Arrived
  <2>2. PICK head \in Heads(stream["client"]) :
          \/ Fails("client", "InvalidAcceptKey") /\ UNCHANGED <<agreed, stream>>
          \/ /\ Opens("client", ClientSettings(head))
             /\ stream' = [stream EXCEPT !["client"] = Rest(@, head)]
    BY <1>4 DEF ReadResponse, Arrived
  <2>3. CASE Fails("client", "InvalidAcceptKey") /\ UNCHANGED <<agreed, stream>>
    <3>1. at' = [at EXCEPT !["client"] = "failed"]
      BY <2>3 DEF Fails
    <3> QED
      BY <1>1, <2>1, <2>3, <3>1, AgreementKept DEF Waits, Built
  <2>4. CASE /\ Opens("client", ClientSettings(head))
             /\ stream' = [stream EXCEPT !["client"] = Rest(@, head)]
    <3>1. /\ at'["client"] \in {"open", "panicked"}
          /\ at'["server"] = at["server"]
          /\ agreed'["client"] = ExtensionsIn(head)
          /\ agreed'["server"] = agreed["server"]
          /\ stream'["server"] = stream["server"]
      BY <1>1, <2>4 DEF Opens, ClientSettings
    <3>2. /\ Built("server")' <=> Built("server")
          /\ Built("client")' /\ ~Waits("client")' /\ Waits("client")
      BY <2>1, <3>1 DEF Built, Waits
    <3>3. ASSUME BothOurs
          PROVE  Built("server") /\ ExtensionsIn(head) = Reads(agreed["server"])
      <4>1. stream["client"] # <<>>
        BY <1>1, <2>2, HeadOf
      <4>2. Built("server") /\ Answered(stream["client"], agreed["server"])
        BY <3>2, <3>3, <4>1 DEF AgreementInv
      <4> QED
        BY <1>1, <2>2, <4>2, AnswerRead
    <3>4. BothOurs' => BothOurs
      BY <2>1 DEF BothOurs
    <3> QED
      BY <2>1, <3>1, <3>2, <3>3, <3>4 DEF AgreementInv, OwnInv
  <2> QED
    BY <2>2, <2>3, <2>4
<1>5. CASE AcceptRequest
  <2>1. /\ UNCHANGED <<ours, config>>
        /\ at["server"] = "await" /\ "server" \in ours
    BY <1>5 DEF AcceptRequest, Arrived
  <2>2. PICK head \in Heads(stream["server"]) :
          /\ HeadError(head) = None /\ RequestError(head) = None
          /\ \/ /\ Opens("server", Merged(head))
                /\ stream' =
                      [server |-> Rest(stream["server"], head),
                       client |-> stream["client"] \o
                           Response(ValueOf(head, "sec-websocket-key"),
                                    agreed'["server"])]
             \/ Fails("server", "IOError") /\ UNCHANGED <<agreed, stream>>
    BY <1>5 DEF AcceptRequest, Arrived
  <2>3. CASE Fails("server", "IOError") /\ UNCHANGED <<agreed, stream>>
    <3>1. at' = [at EXCEPT !["server"] = "failed"]
      BY <2>3 DEF Fails
    <3> QED
      BY <1>1, <2>1, <2>3, <3>1, AgreementKept DEF Waits, Built
  <2>4. CASE /\ Opens("server", Merged(head))
             /\ stream' =
                   [server |-> Rest(stream["server"], head),
                    client |-> stream["client"] \o
                        Response(ValueOf(head, "sec-websocket-key"),
                                 agreed'["server"])]
    <3>1. /\ at'["server"] \in {"open", "panicked"}
          /\ at'["client"] = at["client"]
          /\ agreed'["server"] = Merged(head)
          /\ agreed'["client"] = agreed["client"]
      BY <1>1, <2>4 DEF Opens
    <3>2. PICK key \in Key : key = ValueOf(head, "sec-websocket-key")
      BY <1>1, <2>2, HeaderType
    <3>3. PICK offer \in {None} \cup Settings : offer = ExtensionsIn(head)
      BY <1>1, <2>2, HeaderType
    <3>4. PICK e \in {None} \cup Settings :
            /\ e = agreed'["server"]
            /\ e = merge_extensions(config["server"], offer)
      BY <1>1, <3>1, <3>3, MergeType DEF Merged
    <3>5. stream'["client"] = stream["client"] \o Response(key, e)
      BY <2>4, <3>2, <3>4
    <3>6. /\ ~Built("server") /\ Built("server")'
          /\ Built("client")' <=> Built("client")
          /\ Waits("client")' <=> Waits("client")
          /\ at'["server"] # "await"
      BY <2>1, <3>1 DEF Built, Waits
    <3>7. OwnInv'
      <4>1. Deflates(e) => Within(e, config["server"])
        BY <1>1, <3>4, MergeWithin
      <4> QED
        BY <2>1, <3>4, <3>6, <4>1 DEF OwnInv
    <3>8. ASSUME BothOurs
          PROVE  /\ offer = Reads(config["client"])
                 /\ Waits("client") => Answered(stream'["client"], e)
                 /\ ~Built("client")
      <4>1. head \in Heads(Request(config["client"]))
        <5>1. stream["server"] # <<>>
          BY <1>1, <2>2, HeadOf
        <5> QED
          BY <2>1, <2>2, <3>8, <5>1 DEF AgreementInv
      <4>2. offer = Reads(config["client"])
        BY <1>1, <3>3, <4>1, RequestRead
      <4>3. ~Built("client")
        BY <3>6, <3>8 DEF AgreementInv
      <4>4. Waits("client") => stream["client"] = <<>>
        BY <3>6, <3>8 DEF AgreementInv
      <4> QED
        BY <3>5, <4>2, <4>3, <4>4, AnswerAlone
    <3>9. BothOurs' => BothOurs
      BY <2>1 DEF BothOurs
    <3> QED
      BY <2>1, <3>4, <3>6, <3>7, <3>8, <3>9 DEF AgreementInv
  <2> QED
    BY <2>2, <2>3, <2>4
<1>6. ASSUME NEW q \in Role, WriteFrame(q) PROVE AgreementInv' /\ OwnInv'
  <2>1. /\ UNCHANGED <<ours, config, agreed, at>> /\ at[q] = "open"
        /\ stream' = [stream EXCEPT ![Peer(q)] = @ \o <<Frame>>]
    BY <1>6 DEF WriteFrame, Write
  <2>2. OwnInv'
    BY <2>1 DEF OwnInv, Built
  <2>3. (Built("server")' <=> Built("server"))
        /\ (Built("client")' <=> Built("client"))
        /\ (Waits("client")' <=> Waits("client"))
    BY <2>1 DEF Built, Waits
  <2>4. ASSUME BothOurs, at["server"] = "await"
        PROVE  stream'["server"] = stream["server"]
    <3>1. ~Built("server") /\ ~Built("client")
      BY <2>4 DEF AgreementInv, Built
    <3>2. FALSE
      BY <2>1, <3>1 DEF Built, Role
    <3> QED
      BY <3>2
  <2>5. ASSUME BothOurs, Waits("client")
        PROVE  Built("server") /\ Answered(stream'["client"], agreed["server"])
    <3>1. q = "server"
      BY <2>1, <2>5 DEF Waits, Role
    <3>2. Built("server") /\ stream'["client"] = stream["client"] \o <<Frame>>
      BY <1>1, <2>1, <3>1 DEF Built, Peer
    <3>3. Answered(stream["client"], agreed["server"])
      BY <2>5, <3>2 DEF AgreementInv
    <3>4. /\ stream["client"] \in Seq(Line) /\ <<Frame>> \in Seq(Line)
          /\ agreed["server"] \in {None} \cup Settings
      BY <1>1, LinesType
    <3>5. Answered(stream["client"] \o <<Frame>>, agreed["server"])
      BY <3>3, <3>4, AnswerStays
    <3> QED
      BY <3>2, <3>5
  <2>6. BothOurs' => BothOurs
    BY <2>1 DEF BothOurs
  <2> QED
    BY <2>1, <2>2, <2>3, <2>4, <2>5, <2>6 DEF AgreementInv
<1>7. ASSUME NEW q \in Role, ReadHeader(q) PROVE AgreementInv' /\ OwnInv'
  <2>1. /\ UNCHANGED <<ours, config, agreed, at>> /\ at[q] = "open"
        /\ stream' = [stream EXCEPT ![q] = Tail(@)]
    BY <1>7 DEF ReadHeader
  <2>2. /\ at["server"] = "await" => stream'["server"] = stream["server"]
        /\ Waits("client") => stream'["client"] = stream["client"]
    BY <1>1, <2>1 DEF Waits
  <2> QED
    BY <2>1, <2>2, AgreementKept DEF Waits, Built
<1>8. CASE ForeignRequest \/ ForeignResponse
  <2>1. PICK s \in Role : s \notin ours /\ at' = [at EXCEPT ![s] = "open"]
    BY <1>1, <1>8 DEF ForeignRequest, ForeignResponse, Foreign, Goes
  <2>2. UNCHANGED <<ours, config, agreed>> /\ ~BothOurs
    BY <1>8, <2>1 DEF ForeignRequest, ForeignResponse, BothOurs
  <2> QED
    BY <1>1, <2>1, <2>2, AgreementKept DEF Built
<1>9. CASE UNCHANGED vars
  BY <1>9, AgreementKept DEF vars, Waits, Built
<1> QED
  BY <1>2, <1>3, <1>4, <1>5, <1>6, <1>7, <1>8, <1>9
  DEF Next, ClientStep, ServerStep, EitherStep, ForeignStep, QuietStep
Inv == TypeOK /\ PlaceInv /\ HandoverInv /\ AgreementInv /\ OwnInv

LEMMA Invariant == Spec => []Inv
<1>1. Init => Inv
  BY InitType, InitHandover, InitAgreement DEF Inv
<1>2. Inv /\ [Next]_vars => Inv'
  BY StepType, StepHandover, StepAgreement DEF Inv
<1> QED
  BY <1>1, <1>2, PTL DEF Spec

\* Nothing is agreed to that a user of this library has not set: against
\* any client for the server's, and for the client's too where it is this
\* library that offers (extensions.rs:85-119).
THEOREM ServerOverrulesNobody == Spec => []NobodyOverruled
<1>1. Inv => NobodyOverruled
  <2> SUFFICES ASSUME Inv, "server" \in ours, Deflates(agreed["server"]),
                      NEW r \in ours
               PROVE  Within(agreed["server"], config[r])
    BY DEF NobodyOverruled
  <2>1. Built("server") /\ Within(agreed["server"], config["server"])
    BY DEF Inv, OwnInv, Deflates
  <2>2. CASE r = "client"
    <3>1. BothOurs
      BY <2>2 DEF Inv, TypeOK, BothOurs, Role
    <3>2. PICK own \in {None} \cup Settings, asked \in {None} \cup Settings :
            own = config["server"] /\ asked = config["client"]
      BY HandshakeAssumption DEF Inv, TypeOK, Role
    <3>3. agreed["server"] = merge_extensions(own, Reads(asked))
      BY <2>1, <3>1, <3>2 DEF Inv, AgreementInv
    <3>4. Deflates(Reads(asked))
      BY <3>3, ReadsType, MergeWithin
    <3>5. Reads(asked) = AsRead(asked) /\ Deflates(asked)
      BY <3>4, ReadsType DEF Deflates
    <3>6. asked \in Settings /\ asked.permessage_deflate
      BY <3>5 DEF Deflates
    <3> QED
      BY <2>2, <3>2, <3>3, <3>5, <3>6, ReadsType, MergeWithin
  <2> QED
    BY <2>1, <2>2 DEF Inv, TypeOK, Role
<1> QED
  BY <1>1, Invariant, PTL

LEMMA AgreementEnough ==
  ASSUME Inv, BothOurs, Built("client")
  PROVE  /\ Built("server")
         /\ Deflates(agreed["server"]) => agreed["client"] = agreed["server"]
         /\ ~Deflates(agreed["server"]) => agreed["client"] = None
<1>1. PICK own \in {None} \cup Settings, asked \in {None} \cup Settings :
        own = config["server"] /\ asked = config["client"]
  BY HandshakeAssumption DEF Inv, TypeOK, Role
<1>2. /\ Built("server")
      /\ agreed["server"] = merge_extensions(own, Reads(asked))
      /\ agreed["client"] = Reads(agreed["server"])
  BY <1>1 DEF Inv, AgreementInv
<1> QED
  BY <1>2, AgreedReadsBack

\* Both ends of a connection between two users of this library compress by
\* the same settings, or neither compresses (handshake.rs:70, 259-271, 290).
THEOREM AgreementIsShared == Spec => []SameAgreement
<1>1. Inv => SameAgreement
  BY AgreementEnough DEF SameAgreement, Deflates
<1> QED
  BY <1>1, Invariant, PTL

\* A merge of settings that treat both directions alike treats them alike.
LEMMA MergeAlike ==
  ASSUME NEW own \in {None} \cup Settings, NEW asked \in {None} \cup Settings,
         Alike(own), Alike(asked),
         Deflates(merge_extensions(own, Reads(asked)))
  PROVE  Alike(merge_extensions(own, Reads(asked)))
<1>1. PICK e : e = merge_extensions(own, Reads(asked))
  OBVIOUS
<1>2. own # None /\ Reads(asked) # None
  BY DEF Deflates, merge_extensions
<1>3. Reads(asked) = AsRead(asked) /\ asked # None
  BY <1>2, ReadsType DEF Deflates
<1>4. /\ own.client_no_context_takeover = own.server_no_context_takeover
      /\ own.client_max_window_bits = own.server_max_window_bits
      /\ asked.client_no_context_takeover = asked.server_no_context_takeover
      /\ asked.client_max_window_bits = asked.server_max_window_bits
  BY <1>2, <1>3 DEF Alike
<1>5. /\ e.client_no_context_takeover = e.server_no_context_takeover
      /\ e.client_max_window_bits = e.server_max_window_bits
  BY <1>1, <1>2, <1>3, <1>4 DEF merge_extensions, AsRead
<1> QED
  BY <1>1, <1>5 DEF Alike

\* Where both users have set both directions alike, every decoder can follow
\* the encoder at the other end, although each end builds both from one side
\* of the settings (handshake.rs:61-77, 204-220).
THEOREM DecodersFollow == Spec => []CodersFollow
<1>1. Inv => CodersFollow
  <2> SUFFICES ASSUME Inv, BothOurs,
                      \A r \in Role : Built(r) /\ Alike(config[r]),
                      Deflates(agreed["server"]),
                      NEW r \in Role
               PROVE  Follows(DecoderOf(agreed[r]), EncoderOf(agreed[Peer(r)]))
    BY DEF CodersFollow
  <2>1. PICK own \in {None} \cup Settings, asked \in {None} \cup Settings :
          own = config["server"] /\ asked = config["client"]
    BY HandshakeAssumption DEF Inv, TypeOK, Role
  <2>2. Built("client") /\ Built("server") /\ Alike(own) /\ Alike(asked)
    BY <2>1 DEF Role
  <2>3. PICK e : /\ e = agreed["server"] /\ e = agreed["client"]
                 /\ e = merge_extensions(own, Reads(asked))
    BY <2>1, <2>2, AgreementEnough DEF Inv, AgreementInv
  <2>4. Alike(e) /\ e # None
    BY <2>1, <2>2, <2>3, MergeAlike DEF Deflates
  <2>5. e \in Settings
    BY <2>3, <2>4 DEF Inv, TypeOK, Role
  <2>6. DecoderOf(e) = EncoderOf(e)
    BY <2>4 DEF DecoderOf, EncoderOf, Coder, Alike
  <2>7. EncoderOf(e).width \in 0..255
    <3>1. e.server_max_window_bits \in Width
      BY <2>5 DEF Settings
    <3> QED
      BY <2>4, <3>1 DEF EncoderOf, Coder, Width
  <2>8. agreed[r] = e /\ agreed[Peer(r)] = e
    BY <2>3 DEF Role, Peer
  <2> QED
    BY <2>6, <2>7, <2>8 DEF Follows
<1> QED
  BY <1>1, Invariant, PTL

\* What the two ends of a connection start from, as Connection defines it
\* (ServerExtensions, ClientExtensions): the server's settings are the merge
\* of its user's with the offer it has read, the client's are what it has
\* read of them in the answer.
ServersStart == merge_extensions(config["server"], Reads(config["client"]))
ClientsStart == Reads(ServersStart)

SettingsLeft ==
  BothOurs => /\ Built("server") => agreed["server"] = ServersStart
              /\ Built("client") => agreed["client"] = ClientsStart

\* Whatever the timing, and whatever is written behind the heads, a handshake
\* of two ends of this library leaves in config.extensions of either end the
\* settings that Connection begins with (handshake.rs:259-271, 290-295).
THEOREM SettingsHandedOver == Spec => []SettingsLeft
<1>1. Inv => SettingsLeft
  <2> SUFFICES ASSUME Inv, BothOurs
               PROVE  /\ Built("server") => agreed["server"] = ServersStart
                      /\ Built("client") => agreed["client"] = ClientsStart
    BY DEF SettingsLeft
  <2>1. Built("server") => agreed["server"] = ServersStart
    BY DEF Inv, AgreementInv, ServersStart
  <2>2. Built("client") =>
          Built("server") /\ agreed["client"] = Reads(agreed["server"])
    BY DEF Inv, AgreementInv
  <2> QED
    BY <2>1, <2>2 DEF ClientsStart
<1> QED
  BY <1>1, Invariant, PTL
=============================================================================
