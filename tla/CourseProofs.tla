---------------------------- MODULE CourseProofs ----------------------------
(***************************************************************************)
(* The course of a stream between two ends of this library: where the      *)
(* writer has got to, where the reader stands, and that the frames under   *)
(* way lead from the one place to the other.                               *)
(*                                                                         *)
(* A place in the stream of frames that carry the messages of `told` says  *)
(* what comes next: what follows the first o bytes of the n-th message,    *)
(* which was compressed, if it was, behind w others.  A control frame may  *)
(* come at any place; a data frame carries the next bytes and leads to the *)
(* place behind them.  The lemmas are about one end and one direction;     *)
(* ConnectionProofs puts two ends together.                                *)
(***************************************************************************)
EXTENDS EndpointProofs

Place == [n : Nat, w : Nat, o : Nat]
At(n, w, o) == [n |-> n, w |-> w, o |-> o]

\* The payload of message m, made by an encoder with w messages behind it.
Coded(m, w) == IF Compresses(m.data) THEN Deflated(m.data, w) ELSE m.data

\* The place behind the n-th message, for coders that forget or do not.
Passed(told, resets, p) ==
  At(p.n + 1,
     IF Compresses(told[p.n].data) /\ ~resets THEN p.w + 1 ELSE p.w, 0)

\* The frame of the bytes from p to `to` of message m with payload e.
Part(m, e, p, to) ==
  WireFrame(to = Len(e), IF p.o = 0 THEN m.kind ELSE "Continue",
            p.o = 0 /\ Compresses(m.data), SubSeq(e, p.o + 1, to))

CarriesBytes(told, resets, p, f, q) ==
  /\ p.n \in 1..Len(told)
  /\ \E to \in p.o..Len(Coded(told[p.n], p.w)) :
       /\ to - p.o <= MaxFrameSize
       /\ f = Part(told[p.n], Coded(told[p.n], p.w), p, to)
       /\ \/ to = Len(Coded(told[p.n], p.w)) /\ q = Passed(told, resets, p)
          \/ /\ p.o < to /\ to < Len(Coded(told[p.n], p.w))
             /\ q = At(p.n, p.w, to)

Carries(told, resets, p, f, q) ==
  \/ f \in {CloseFrame, PingFrame, PongFrame(<<>>)} /\ q = p
  \/ CarriesBytes(told, resets, p, f, q)

\* The frames fs lead from place p to place q.
Leads(told, resets, fs, p, q) ==
  \E g \in [0..Len(fs) -> Place] :
    /\ g[0] = p /\ g[Len(fs)] = q
    /\ \A i \in 1..Len(fs) : Carries(told, resets, g[i - 1], fs[i], g[i])

LEMMA LeadsNowhere ==
  ASSUME NEW told, NEW resets, NEW p \in Place, NEW q
  PROVE  Leads(told, resets, <<>>, p, q) <=> p = q
<1>1. ASSUME p = q PROVE Leads(told, resets, <<>>, p, q)
  <2> DEFINE g == [i \in 0..0 |-> p]
  <2>1. g \in [0..0 -> Place] /\ g[0] = p
    OBVIOUS
  <2> HIDE DEF g
  <2> QED
    BY <1>1, <2>1, Len(<<>>) = 0 DEF Leads
<1>2. Leads(told, resets, <<>>, p, q) => p = q
  BY Len(<<>>) = 0 DEF Leads
<1> QED
  BY <1>1, <1>2

\* The first of the frames leads to where the others begin.
LEMMA LeadsOn ==
  ASSUME NEW told, NEW resets, NEW S, NEW fs \in Seq(S), fs # <<>>,
         NEW p \in Place, NEW q, Leads(told, resets, fs, p, q)
  PROVE  \E r \in Place : /\ Carries(told, resets, p, Head(fs), r)
                          /\ Leads(told, resets, Tail(fs), r, q)
<1>1. PICK g \in [0..Len(fs) -> Place] :
        /\ g[0] = p /\ g[Len(fs)] = q
        /\ \A i \in 1..Len(fs) : Carries(told, resets, g[i - 1], fs[i], g[i])
  BY DEF Leads
<1>2. /\ Len(fs) \in Nat \ {0} /\ Len(Tail(fs)) = Len(fs) - 1
      /\ Head(fs) = fs[1]
      /\ \A i \in 1..(Len(fs) - 1) : Tail(fs)[i] = fs[i + 1]
  BY EmptySeq, HeadTailProperties
<1> DEFINE h == [i \in 0..(Len(fs) - 1) |-> g[i + 1]]
<1>3. h \in [0..(Len(fs) - 1) -> Place]
  BY <1>2
<1>4. h[0] = g[1] /\ h[Len(fs) - 1] = q
  BY <1>1, <1>2
<1>5. ASSUME NEW i \in 1..(Len(fs) - 1)
      PROVE  Carries(told, resets, h[i - 1], Tail(fs)[i], h[i])
  <2>1. h[i - 1] = g[i] /\ h[i] = g[i + 1] /\ Tail(fs)[i] = fs[i + 1]
    BY <1>2
  <2>2. i + 1 \in 1..Len(fs) /\ (i + 1) - 1 = i
    BY <1>2
  <2>3. Carries(told, resets, g[(i + 1) - 1], fs[i + 1], g[i + 1])
    BY <1>1, <2>2
  <2> QED
    BY <2>1, <2>2, <2>3
<1> HIDE DEF h
<1>6. Leads(told, resets, Tail(fs), g[1], q)
  BY <1>2, <1>3, <1>4, <1>5 DEF Leads
<1>7. g[1] \in Place /\ Carries(told, resets, p, Head(fs), g[1])
  BY <1>1, <1>2
<1> QED
  BY <1>6, <1>7

\* One more frame.
LEMMA LeadsFurther ==
  ASSUME NEW told, NEW resets, NEW S, NEW fs \in Seq(S), NEW f \in S,
         NEW p, NEW q, NEW r \in Place,
         Leads(told, resets, fs, p, q), Carries(told, resets, q, f, r)
  PROVE  Leads(told, resets, Append(fs, f), p, r)
<1>1. PICK g \in [0..Len(fs) -> Place] :
        /\ g[0] = p /\ g[Len(fs)] = q
        /\ \A i \in 1..Len(fs) : Carries(told, resets, g[i - 1], fs[i], g[i])
  BY DEF Leads
<1>2. /\ Len(fs) \in Nat /\ Len(Append(fs, f)) = Len(fs) + 1
      /\ Append(fs, f)[Len(fs) + 1] = f
      /\ \A i \in 1..Len(fs) : Append(fs, f)[i] = fs[i]
  OBVIOUS
<1> DEFINE n == Len(fs)
<1> DEFINE t == Append(fs, f)
<1> DEFINE h == [i \in 0..(n + 1) |-> IF i = n + 1 THEN r ELSE g[i]]
<1> HIDE DEF n, t
<1>3. n \in Nat /\ n = Len(fs) /\ Len(t) = n + 1 /\ t[n + 1] = f
      /\ \A i \in 1..n : t[i] = fs[i]
  BY <1>2 DEF n, t
<1>4. /\ h \in [0..(n + 1) -> Place]
      /\ h[0] = p /\ h[n + 1] = r /\ h[n] = q
      /\ \A i \in 0..n : h[i] = g[i]
  BY <1>1, <1>3
<1> HIDE DEF h
<1>5. ASSUME NEW i \in 1..(n + 1)
      PROVE  Carries(told, resets, h[i - 1], t[i], h[i])
  <2>1. CASE i = n + 1
    <3>1. i - 1 = n
      BY <1>3, <2>1
    <3> QED
      BY <1>3, <1>4, <2>1, <3>1
  <2>2. CASE i # n + 1
    <3>1. i \in 1..n /\ i - 1 \in 0..n /\ i \in 0..n
      BY <1>3, <2>2
    <3> QED
      BY <1>1, <1>3, <1>4, <3>1
  <2> QED
    BY <2>1, <2>2
<1>6. Leads(told, resets, t, p, r)
  BY <1>3, <1>4, <1>5 DEF Leads
<1> QED
  BY <1>6 DEF t

\* Part of the way.
LEMMA LeadsPartly ==
  ASSUME NEW told, NEW resets, NEW S, NEW fs \in Seq(S),
         NEW p, NEW q, Leads(told, resets, fs, p, q), NEW n \in 0..Len(fs)
  PROVE  \E r \in Place : Leads(told, resets, SubSeq(fs, 1, n), p, r)
<1>1. PICK g \in [0..Len(fs) -> Place] :
        /\ g[0] = p /\ g[Len(fs)] = q
        /\ \A i \in 1..Len(fs) : Carries(told, resets, g[i - 1], fs[i], g[i])
  BY DEF Leads
<1>2. Len(fs) \in Nat /\ n \in Nat /\ n <= Len(fs)
  OBVIOUS
<1> DEFINE t == SubSeq(fs, 1, n)
<1>3. Len(t) = n /\ \A i \in 1..n : t[i] = fs[i]
  BY <1>2
<1> HIDE DEF t
<1> DEFINE h == [i \in 0..n |-> g[i]]
<1>4. h \in [0..n -> Place] /\ h[0] = p /\ \A i \in 0..n : h[i] = g[i]
  BY <1>1, <1>2
<1> HIDE DEF h
<1>5. ASSUME NEW i \in 1..n
      PROVE  Carries(told, resets, h[i - 1], t[i], h[i])
  <2>1. i \in 1..Len(fs) /\ i \in 0..n /\ i - 1 \in 0..n
    BY <1>2
  <2> QED
    BY <1>1, <1>3, <1>4, <2>1
<1>6. Leads(told, resets, t, p, h[n])
  BY <1>2, <1>3, <1>4, <1>5 DEF Leads
<1>7. h[n] \in Place
  BY <1>2, <1>4
<1> QED
  BY <1>6, <1>7 DEF t

\* What has been said stays said.
LEMMA CarriesStays ==
  ASSUME NEW S, NEW told \in Seq(S), NEW m \in S, NEW resets,
         NEW p, NEW f, NEW q, Carries(told, resets, p, f, q)
  PROVE  Carries(Append(told, m), resets, p, f, q)
<1>1. /\ Len(Append(told, m)) = Len(told) + 1 /\ Len(told) \in Nat
      /\ \A i \in 1..Len(told) : Append(told, m)[i] = told[i]
  OBVIOUS
<1>2. CASE CarriesBytes(told, resets, p, f, q)
  <2>1. p.n \in 1..Len(told) /\ p.n \in 1..Len(Append(told, m))
        /\ Append(told, m)[p.n] = told[p.n]
    BY <1>1, <1>2 DEF CarriesBytes
  <2>2. CarriesBytes(Append(told, m), resets, p, f, q)
    BY <1>2, <2>1 DEF CarriesBytes, Passed
  <2> QED
    BY <2>2 DEF Carries
<1> QED
  BY <1>2 DEF Carries

LEMMA LeadsStays ==
  ASSUME NEW S, NEW told \in Seq(S), NEW m \in S, NEW resets,
         NEW fs, NEW p, NEW q, Leads(told, resets, fs, p, q)
  PROVE  Leads(Append(told, m), resets, fs, p, q)
BY CarriesStays DEF Leads

\* Every frame leads somewhere.
LEMMA PassedType ==
  ASSUME NEW told, NEW resets, NEW p \in Place
  PROVE  Passed(told, resets, p) \in Place
BY DEF Passed, Place, At

(***************************************************************************)
(* What a call writes carries the message it was given.                    *)
(***************************************************************************)

\* The last chunk ends where the payload does, every other before.
LEMMA ChunkEnds ==
  ASSUME NEW n \in Nat \ {0}, NEW size \in Nat \ {0}
  PROVE  LET count == (n + size - 1) \div size
         IN /\ count \in Nat \ {0}
            /\ count * size >= n
            /\ (count - 1) * size < n
            /\ \A i \in 1..(count - 1) : i * size < n
<1> DEFINE count == (n + size - 1) \div size
<1>1. count \in Nat /\ count # 0 /\ \A i \in 1..count : (i - 1) * size < n
  BY ChunkCount
<1>2. count * size >= n
  OBVIOUS
<1> HIDE DEF count
<1>3. ASSUME NEW i \in 1..(count - 1) PROVE i * size < n
  <2>1. i + 1 \in 1..count /\ (i + 1) - 1 = i
    BY <1>1
  <2> QED
    BY <1>1, <2>1
<1>4. count \in 1..count
  BY <1>1
<1> QED
  BY <1>1, <1>2, <1>3, <1>4 DEF count

LEMMA FragmentsLead ==
  ASSUME NEW told, NEW k \in 1..Len(told), Len(told) \in Nat, NEW w \in Nat,
         NEW resets,
         told[k].kind \in Data,
         Coded(told[k], w) \in Payload, Coded(told[k], w) # <<>>,
         NEW size \in 1..MaxFrameSize, NEW marked,
         \A i \in Nat \ {0} : i \in marked <=> i = 1 /\ Compresses(told[k].data)
  PROVE  Leads(told, resets,
               Fragments(told[k].kind, Chunks(Coded(told[k], w), size), marked),
               At(k, w, 0), Passed(told, resets, At(k, w, 0)))
<1> DEFINE e == Coded(told[k], w)
<1> DEFINE m == told[k]
<1> DEFINE n == Len(e)
<1> DEFINE count == (n + size - 1) \div size
<1> DEFINE chunks == Chunks(e, size)
<1> DEFINE fs == Fragments(m.kind, chunks, marked)
<1> DEFINE to(i) == IF i * size < n THEN i * size ELSE n
<1>1. n \in Nat \ {0} /\ size \in Nat \ {0} /\ size <= MaxFrameSize
  BY EmptySeq, LenProperties, ConfigAssumption DEF Payload
<1>2. /\ count \in Nat \ {0} /\ count * size >= n /\ (count - 1) * size < n
      /\ \A i \in 1..(count - 1) : i * size < n
  BY <1>1, ChunkEnds
<1> HIDE DEF e, n
<1>3. chunks = [i \in 1..count |-> SubSeq(e, (i - 1) * size + 1, to(i))]
  BY DEF Chunks, n
<1> HIDE DEF count, chunks
<1>4. Len(chunks) = count /\ \A i \in 1..count :
        chunks[i] = SubSeq(e, (i - 1) * size + 1, to(i))
  <2> DEFINE c(i) == SubSeq(e, (i - 1) * size + 1, to(i))
  <2>1. chunks = [i \in 1..count |-> c(i)]
    BY <1>3
  <2> HIDE DEF c
  <2>2. /\ chunks \in Seq({c(i) : i \in 1..count})
        /\ Len(chunks) = count
    BY <1>2, <2>1
  <2>3. \A i \in 1..count : chunks[i] = c(i)
    BY <2>1
  <2> QED
    BY <2>2, <2>3 DEF c
<1>5. fs = [i \in 1..count |->
              WireFrame(i = count, IF i = 1 THEN m.kind ELSE "Continue",
                        i \in marked, chunks[i])]
  BY <1>4 DEF Fragments
<1> HIDE DEF fs
<1>6. Len(fs) = count /\ \A i \in 1..count :
        fs[i] = WireFrame(i = count, IF i = 1 THEN m.kind ELSE "Continue",
                          i \in marked, chunks[i])
  BY <1>2, <1>5
<1> DEFINE end == Passed(told, resets, At(k, w, 0))
<1> DEFINE g ==
      [i \in 0..count |-> IF i = count THEN end ELSE At(k, w, i * size)]
<1>7. k \in Nat /\ At(k, w, 0) \in Place /\ end \in Place
  <2>1. k \in Nat /\ At(k, w, 0) \in Place
    BY DEF Place, At
  <2> QED
    BY <2>1, PassedType
<1> HIDE DEF end
<1>8. /\ g \in [0..count -> Place] /\ g[0] = At(k, w, 0) /\ g[count] = end
      /\ \A i \in 0..(count - 1) : g[i] = At(k, w, i * size)
  <2>1. \A i \in 0..(count - 1) : i * size \in Nat /\ i # count
    BY <1>1, <1>2
  <2>2. \A i \in 0..(count - 1) : At(k, w, i * size) \in Place
    BY <1>7, <2>1 DEF Place, At
  <2>3. \A i \in 0..count : i = count \/ i \in 0..(count - 1)
    BY <1>2
  <2>4. g \in [0..count -> Place]
    BY <1>7, <2>2, <2>3
  <2>5. 0 \in 0..count /\ 0 # count /\ 0 * size = 0 /\ count \in 0..count
    BY <1>1, <1>2
  <2> QED
    BY <2>1, <2>3, <2>4, <2>5
<1> HIDE DEF g
<1>9. ASSUME NEW i \in 1..count
      PROVE  Carries(told, resets, g[i - 1], fs[i], g[i])
  <2> DEFINE p == At(k, w, (i - 1) * size)
  <2>1. /\ i - 1 \in 0..(count - 1) /\ g[i - 1] = p
        /\ p.n = k /\ p.w = w /\ p.o = (i - 1) * size
    BY <1>2, <1>8 DEF At
  <2>2. /\ (i - 1) * size \in Nat /\ i * size \in Nat
        /\ i * size = (i - 1) * size + size
        /\ (i - 1) * size = 0 <=> i = 1
        /\ (i - 1) * size < n
    <3>1. i = count \/ i - 1 = 0 \/ i - 1 \in 1..(count - 1)
      BY <1>2
    <3>2. (i - 1) * size < n
      BY <1>1, <1>2, <3>1
    <3>3. (i - 1) * size \in Nat /\ i * size \in Nat
          /\ i * size = (i - 1) * size + size
      BY <1>1, <1>2
    <3>4. (i - 1) * size = 0 <=> i = 1
      BY <1>1, <1>2
    <3> QED
      BY <3>2, <3>3, <3>4
  <2>3. /\ to(i) \in (i - 1) * size..n
        /\ (i - 1) * size < to(i)
        /\ to(i) - (i - 1) * size <= MaxFrameSize
    BY <1>1, <2>2, ConfigAssumption
  <2>4. to(i) = n <=> i = count
    <3>1. i # count => i \in 1..(count - 1)
      BY <1>2
    <3> QED
      BY <1>1, <1>2, <2>2, <3>1
  <2>5. fs[i] = Part(m, e, p, to(i))
    <3>1. i \in marked <=> (p.o = 0 /\ Compresses(m.data))
      <4>1. i \in Nat \ {0}
        BY <1>2
      <4> QED
        BY <2>1, <2>2, <4>1
    <3>2. (i \in marked) = (p.o = 0 /\ Compresses(m.data))
      BY <3>1
    <3>3. (i = count) = (to(i) = n)
      BY <2>4
    <3>4. (IF i = 1 THEN m.kind ELSE "Continue")
            = (IF p.o = 0 THEN m.kind ELSE "Continue")
      BY <2>1, <2>2
    <3>5. chunks[i] = SubSeq(e, p.o + 1, to(i))
      BY <1>4, <2>1
    <3> HIDE DEF to, p
    <3>6. fs[i] = WireFrame(i = count, IF i = 1 THEN m.kind ELSE "Continue",
                            i \in marked, chunks[i])
      BY <1>6
    <3>7. fs[i] = WireFrame(i = count, IF p.o = 0 THEN m.kind ELSE "Continue",
                            i \in marked, SubSeq(e, p.o + 1, to(i)))
      BY <3>4, <3>5, <3>6, Zenon
    <3>8. fs[i] = WireFrame(to(i) = n, IF p.o = 0 THEN m.kind ELSE "Continue",
                            i \in marked, SubSeq(e, p.o + 1, to(i)))
      BY <3>3, <3>7, Zenon
    <3>9. fs[i] = WireFrame(to(i) = n, IF p.o = 0 THEN m.kind ELSE "Continue",
                            p.o = 0 /\ Compresses(m.data),
                            SubSeq(e, p.o + 1, to(i)))
      BY <3>2, <3>8, Zenon
    <3> QED
      BY <3>9 DEF Part, n
  <2>6. CASE i = count
    <3>1. g[i] = end /\ end = Passed(told, resets, p)
      BY <1>8, <2>1, <2>6 DEF end, Passed, At
    <3> QED
      BY <2>1, <2>3, <2>4, <2>5, <2>6, <3>1 DEF Carries, CarriesBytes, e, n
  <2>7. CASE i # count
    <3>1. i \in 0..(count - 1) /\ i \in 1..(count - 1)
      BY <1>2, <2>7
    <3>2. g[i] = At(k, w, i * size) /\ i * size < n /\ to(i) = i * size
      BY <1>2, <1>8, <3>1
    <3>3. g[i] = At(p.n, p.w, to(i)) /\ to(i) < n
      BY <2>1, <3>2
    <3> QED
      BY <2>1, <2>3, <2>5, <3>3 DEF Carries, CarriesBytes, e, n
  <2> QED
    BY <2>6, <2>7
<1>10. Leads(told, resets, fs, At(k, w, 0), end)
  BY <1>6, <1>8, <1>9 DEF Leads
<1> QED
  BY <1>10 DEF fs, chunks, e, end

LEMMA LeadsOnce ==
  ASSUME NEW told, NEW resets, NEW p \in Place, NEW f, NEW q \in Place,
         Carries(told, resets, p, f, q)
  PROVE  Leads(told, resets, <<f>>, p, q)
<1>1. <<f>> = Append(<<>>, f) /\ <<>> \in Seq({f}) /\ f \in {f}
  OBVIOUS
<1>2. Leads(told, resets, <<>>, p, p)
  BY LeadsNowhere
<1> QED
  BY <1>1, <1>2, LeadsFurther

\* What a user may say: plain bytes.
Spoken == [kind : Data, data : Seq(Byte)]

LEMMA SpokenAreMessages == Spoken \subseteq Message
  BY BytesArePayloads DEF Spoken, Message

LEMMA CodedType ==
  ASSUME NEW m \in Spoken, NEW w \in Nat
  PROVE  /\ Coded(m, w) \in Payload /\ Len(Coded(m, w)) \in Nat
         /\ Coded(m, w) = <<>> <=> m.data = <<>>
         /\ ~Compresses(m.data) => Coded(m, w) = m.data
         /\ Compresses(m.data) =>
              /\ Deflate /\ m.data # <<>>
              /\ Coded(m, w) = Deflated(m.data, w)
<1>1. m.data \in Seq(Byte)
  BY DEF Spoken
<1>2. Compresses(m.data) => Deflate /\ m.data # <<>>
  BY CallsAssumption, EmptySeq DEF Compresses
<1>3. Coded(m, w) \in Payload
  BY <1>1, DeflatedType, BytesArePayloads DEF Coded
<1> QED
  BY <1>1, <1>2, <1>3, DeflatedType, LenProperties DEF Coded, Payload

(***************************************************************************)
(* The way a writer goes: while its socket is open in both directions,     *)
(* what it has still to write leads from where its stream has got to, to   *)
(* the place behind everything its user has said.                          *)
(***************************************************************************)
Destination == At(Len(sent) + 1, encoded, 0)

Outbound(q) ==
  ~broken /\ ~SocketClosed => Leads(sent, ResetsEncoder, todo, q, Destination)

\* A user that has its large data cut up says something, and does so without
\* compression.
PlainLargeCalls == \A c \in LargeCalls : c.data # <<>> /\ ~Compresses(c.data)

\* What a call may be given.
Asked(m) ==
  /\ \/ m \in Messages
     \/ \E c \in LargeCalls : m = [kind |-> "Text", data |-> c.data]
  /\ SizeAllowed(m.data)

LEMMA AskedType ==
  ASSUME NEW m, Asked(m)
  PROVE  m \in Spoken
BY CallsAssumption DEF Asked, Spoken, Data

\* The frames of a message lead past it.
LEMMA MessageLeads ==
  ASSUME NEW told \in Seq(Spoken), NEW k \in 1..Len(told),
         NEW resets, encoded \in Nat
  PROVE  Leads(told, resets, MessageFrames(told[k]),
               At(k, encoded, 0), Passed(told, resets, At(k, encoded, 0)))
<1> DEFINE m == told[k]
<1> DEFINE p == At(k, encoded, 0)
<1>1. m \in Spoken /\ m.kind \in Data /\ Len(told) \in Nat /\ k \in Nat
  <2>1. m \in Spoken /\ Len(told) \in Nat /\ k \in Nat
    OBVIOUS
  <2> QED
    BY <2>1 DEF Spoken
<1>2. p \in Place /\ p.n = k /\ p.w = encoded /\ p.o = 0
  BY <1>1 DEF Place, At
<1>3. CASE m.data = <<>>
  <2>1. Coded(m, encoded) = <<>> /\ ~Compresses(m.data)
    BY <1>1, <1>3, CodedType
  <2>2. SubSeq(<<>>, 1, 0) = <<>>
    OBVIOUS
  <2>3. (0 = Len(<<>>)) = TRUE /\ (p.o = 0 /\ Compresses(m.data)) = FALSE
    BY <2>1
  <2>4. Part(m, <<>>, p, 0) = WireFrame(TRUE, m.kind, FALSE, <<>>)
    <3>1. Part(m, <<>>, p, 0)
            = WireFrame(0 = Len(<<>>), m.kind, p.o = 0 /\ Compresses(m.data),
                        SubSeq(<<>>, 1, 0))
      BY <1>2 DEF Part
    <3>2. Part(m, <<>>, p, 0)
            = WireFrame(0 = Len(<<>>), m.kind,
                        p.o = 0 /\ Compresses(m.data), <<>>)
      BY <2>2, <3>1, Zenon
    <3> QED
      BY <2>3, <3>2, Zenon
  <2>5. MessageFrames(m) = <<Part(m, <<>>, p, 0)>>
    BY <1>3, <2>4 DEF MessageFrames
  <2>6. 0 \in 0..Len(<<>>) /\ 0 - 0 <= MaxFrameSize /\ 0 = Len(<<>>)
    BY ConfigAssumption
  <2>7. Carries(told, resets, p, Part(m, <<>>, p, 0), Passed(told, resets, p))
    BY <1>2, <2>1, <2>6 DEF Carries, CarriesBytes
  <2> QED
    BY <1>2, <2>5, <2>7, LeadsOnce, PassedType
<1>4. CASE m.data # <<>>
  <2> DEFINE marked == IF Compresses(m.data) THEN {1} ELSE {}
  <2>1. \A i \in Nat \ {0} : i \in marked <=> i = 1 /\ Compresses(m.data)
    OBVIOUS
  <2>2. Encoded(m.data) = Coded(m, encoded)
    BY DEF Encoded, Coded
  <2>3. MaxFrameSize \in 1..MaxFrameSize
    BY ConfigAssumption
  <2>4. MessageFrames(m)
          = Fragments(m.kind, Chunks(Coded(m, encoded), MaxFrameSize), marked)
    BY <1>4, <2>2 DEF MessageFrames
  <2> HIDE DEF marked
  <2>5. Coded(m, encoded) \in Payload /\ Coded(m, encoded) # <<>>
    BY <1>1, <1>4, CodedType
  <2> QED
    BY <1>1, <2>1, <2>3, <2>4, <2>5, FragmentsLead
<1> QED
  BY <1>3, <1>4

LEMMA LargeLeads ==
  ASSUME NEW told \in Seq(Spoken), NEW k \in 1..Len(told),
         NEW resets, encoded \in Nat,
         told[k].kind = "Text", told[k].data # <<>>, ~Compresses(told[k].data),
         NEW size \in 1..MaxFrameSize
  PROVE  Leads(told, resets, LargeFrames(told[k].data, size),
               At(k, encoded, 0), Passed(told, resets, At(k, encoded, 0)))
<1> DEFINE m == told[k]
<1>1. m \in Spoken /\ m.kind \in Data /\ Len(told) \in Nat
  <2>1. m \in Spoken /\ Len(told) \in Nat
    OBVIOUS
  <2> QED
    BY <2>1 DEF Spoken
<1>2. Encoded(m.data) = Coded(m, encoded)
  BY DEF Encoded, Coded
<1>3. LargeFrames(m.data, size)
        = Fragments(m.kind, Chunks(Coded(m, encoded), size), {})
  BY <1>2 DEF LargeFrames
<1>4. Coded(m, encoded) \in Payload /\ Coded(m, encoded) # <<>>
  BY <1>1, CodedType
<1>5. \A i \in Nat \ {0} : i \in {} <=> i = 1 /\ Compresses(m.data)
  OBVIOUS
<1> QED
  BY <1>1, <1>3, <1>4, <1>5, FragmentsLead

\* A call puts the way to a new destination behind the old one.
LEMMA CallOutbound ==
  ASSUME EndTypeOK, sent \in Seq(Spoken), PlainLargeCalls, Call,
         UNCHANGED <<broken, pc>>, NEW q \in Place, Outbound(q)
  PROVE  /\ Outbound(q)'
         /\ outbox' = outbox
         /\ sent' = sent \/ \E m : Asked(m) /\ sent' = Append(sent, m)
<1>1. \/ SendMessage \/ SendLarge \/ SendPing \/ CloseConnection
  BY DEF Call
<1>2. /\ call = "idle" /\ handle = "held" /\ todo = <<>> /\ encoded \in Nat
      /\ outbox' = outbox /\ handle' = handle
  BY <1>1 DEF SendMessage, SendLarge, SendPing, CloseConnection, Calls,
    EndTypeOK, WriteTypeOK
<1>3. ~SocketClosed /\ ~SocketClosed'
  BY <1>2 DEF SocketClosed
<1>4. ~broken => q = Destination
  BY <1>2, <1>3, LeadsNowhere DEF Outbound
<1>5. Len(sent) \in Nat /\ Destination \in Place
  BY <1>2 DEF Destination, At, Place
<1>6. ASSUME NEW m \in Spoken, Encodes(m.data), sent' = Append(sent, m)
      PROVE  /\ sent' \in Seq(Spoken)
             /\ Len(sent) + 1 \in 1..Len(sent') /\ sent'[Len(sent) + 1] = m
             /\ Destination' = Passed(sent', ResetsEncoder, Destination)
  <2>1. /\ sent' \in Seq(Spoken) /\ Len(sent') = Len(sent) + 1
        /\ Len(sent) + 1 \in 1..Len(sent') /\ sent'[Len(sent) + 1] = m
    BY <1>5, <1>6
  <2>2. Destination.n = Len(sent) + 1 /\ Destination.w = encoded
    BY DEF Destination, At
  <2>3. encoded' = IF Compresses(m.data) /\ ~ResetsEncoder THEN encoded + 1
                   ELSE encoded
    BY <1>6 DEF Encodes
  <2> QED
    BY <2>1, <2>2, <2>3 DEF Passed, Destination, At
<1>7. CASE SendMessage
  <2>1. PICK m \in Messages :
          /\ SizeAllowed(m.data)
          /\ todo' = MessageFrames(m)
          /\ Encodes(m.data)
          /\ sent' = Append(sent, m)
    BY <1>7 DEF SendMessage
  <2>2. Asked(m) /\ m \in Spoken
    BY <2>1, AskedType DEF Asked
  <2>3. Leads(sent', ResetsEncoder, MessageFrames(sent'[Len(sent) + 1]),
              Destination, Passed(sent', ResetsEncoder, Destination))
    BY <1>2, <1>6, <2>1, <2>2, MessageLeads DEF Destination
  <2>4. ~broken => Leads(sent', ResetsEncoder, todo', q, Destination')
    BY <1>4, <1>6, <2>1, <2>2, <2>3
  <2> QED
    BY <1>2, <2>1, <2>2, <2>4 DEF Outbound
<1>8. CASE SendLarge
  <2>1. PICK c \in LargeCalls :
          /\ c.size <= MaxFrameSize
          /\ SizeAllowed(c.data)
          /\ todo' = LargeFrames(c.data, c.size)
          /\ Encodes(c.data)
          /\ sent' = Append(sent, [kind |-> "Text", data |-> c.data])
    BY <1>8 DEF SendLarge
  <2>2. PICK m : m = [kind |-> "Text", data |-> c.data]
    OBVIOUS
  <2>3. m.data = c.data /\ m.kind = "Text"
    BY <2>2
  <2>4. Asked(m) /\ m \in Spoken
    BY <2>1, <2>2, <2>3, AskedType DEF Asked
  <2>5. m.data # <<>> /\ ~Compresses(m.data) /\ c.size \in 1..MaxFrameSize
    BY <2>1, <2>3, CallsAssumption, ConfigAssumption DEF PlainLargeCalls
  <2>6. Leads(sent', ResetsEncoder, LargeFrames(m.data, c.size),
              Destination, Passed(sent', ResetsEncoder, Destination))
    BY <1>2, <1>6, <2>1, <2>2, <2>3, <2>4, <2>5, LargeLeads DEF Destination
  <2>7. ~broken => Leads(sent', ResetsEncoder, todo', q, Destination')
    BY <1>4, <1>6, <2>1, <2>2, <2>3, <2>4, <2>6
  <2> QED
    BY <1>2, <2>1, <2>2, <2>4, <2>7 DEF Outbound
<1>9. CASE SendPing \/ CloseConnection
  <2>1. /\ \E f \in {PingFrame, CloseFrame} : todo' = <<f>>
        /\ UNCHANGED <<sent, encoded>>
    BY <1>9 DEF SendPing, CloseConnection
  <2>2. Destination' = Destination
    BY <2>1 DEF Destination
  <2>3. \A f \in {PingFrame, CloseFrame} :
          Leads(sent, ResetsEncoder, <<f>>, Destination, Destination)
    BY <1>5, LeadsOnce DEF Carries
  <2> QED
    BY <1>2, <1>4, <2>1, <2>2, <2>3 DEF Outbound
<1> QED
  BY <1>1, <1>7, <1>8, <1>9

\* The read task answers what a peer of this library sends with these frames.
RepliesPlainly ==
  pc \in {"lock", "write"} => hand \in {CloseFrame, PongFrame(<<>>)}

\* Every step of an end writes nothing, or a frame that leads its stream on;
\* and its user says nothing, or one message more.
LEMMA OutboundStep ==
  ASSUME EndTypeOK, sent \in Seq(Spoken), PlainLargeCalls, RepliesPlainly,
         EndNext, UNCHANGED broken, NEW q \in Place, Outbound(q)
  PROVE  /\ sent' = sent \/ \E m : Asked(m) /\ sent' = Append(sent, m)
         /\ \/ outbox' = outbox /\ Outbound(q)'
            \/ \E f \in RawFrame, r \in Place :
                 /\ outbox' = Append(outbox, f) /\ sent' = sent
                 /\ Carries(sent, ResetsEncoder, q, f, r)
                 /\ Outbound(r)'
<1> DEFINE Goal ==
      \/ outbox' = outbox /\ Outbound(q)'
      \/ \E f \in RawFrame, r \in Place :
           /\ outbox' = Append(outbox, f) /\ sent' = sent
           /\ Carries(sent, ResetsEncoder, q, f, r)
           /\ Outbound(r)'
<1>1. SocketClosed => SocketClosed'
  BY ClosedForGood
<1>2. LinkTypeOK /\ ReadTypeOK /\ WriteTypeOK
  BY DEF EndTypeOK
\* Steps that leave the writing half alone.
<1>3. ASSUME UNCHANGED <<todo, encoded, sent>>, NEW r, Outbound(r)
      PROVE  Outbound(r)'
  <2>1. Destination' = Destination
    BY <1>3 DEF Destination
  <2> QED
    BY <1>1, <1>3, <2>1 DEF Outbound
<1>4. CASE Reading
  <2>1. UNCHANGED <<todo, encoded, sent>>
    BY <1>4 DEF Reading, userVars, writeVars
  <2>2. CASE WriteReply
    <3>1. outbox' = Append(outbox, hand)
      BY <2>2 DEF WriteReply, Written
    <3>2. /\ hand \in {CloseFrame, PongFrame(<<>>)} /\ hand \in RawFrame
      BY <2>2, ControlFrameTypes, EmptyPayload DEF WriteReply, RepliesPlainly
    <3>3. Carries(sent, ResetsEncoder, q, hand, q)
      BY <3>2 DEF Carries
    <3> QED
      BY <1>3, <2>1, <3>1, <3>2, <3>3
  <2>3. CASE ~WriteReply
    <3>1. outbox' = outbox
      BY <1>4, <2>3
      DEF Reading, ReadTask, ReadFrame, Disconnected, Deliver, DeliverRefused,
        LockForReply, ReplyFails, WriteFails, ReportFailure
    <3> QED
      BY <1>3, <2>1, <3>1
  <2> QED
    BY <2>1, <2>2, <2>3
<1>5. CASE Call /\ UNCHANGED readVars
  BY <1>5, CallOutbound DEF readVars
<1>6. CASE WriteTask
  <2>1. CASE WriteFrame
    <3>1. /\ todo # <<>> /\ ~broken /\ ~SocketClosed
          /\ todo \in Seq(RawFrame)
      BY <1>2, <2>1 DEF WriteFrame, Written, WriteTypeOK, SocketClosed
    <3>2. PICK r \in Place :
            /\ Carries(sent, ResetsEncoder, q, Head(todo), r)
            /\ Leads(sent, ResetsEncoder, Tail(todo), r, Destination)
      BY <3>1, LeadsOn DEF Outbound
    <3>3. /\ outbox' = Append(outbox, Head(todo)) /\ todo' = Tail(todo)
          /\ UNCHANGED <<encoded, sent>>
      BY <2>1 DEF WriteFrame, Written
    <3>4. Destination' = Destination
      BY <3>3 DEF Destination
    <3>5. Outbound(r)'
      BY <3>2, <3>3, <3>4 DEF Outbound
    <3>6. Head(todo) \in RawFrame
      BY <3>1, HeadTailProperties
    <3> QED
      BY <3>2, <3>3, <3>5, <3>6
  <2>2. CASE FrameFails
    <3>1. broken /\ outbox' = outbox /\ sent' = sent
      BY <2>2 DEF FrameFails, WriteFails
    <3> QED
      BY <3>1 DEF Outbound
  <2>3. CASE LockForFrame \/ CloseReturns
    BY <1>3, <2>3 DEF LockForFrame, CloseReturns, writeVars
  <2> QED
    BY <1>6, <2>1, <2>2, <2>3 DEF WriteTask
<1>7. CASE DropWriter
  BY <1>3, <1>7 DEF DropWriter
<1>8. CASE NextItem \/ NextNone \/ DropReader
  BY <1>3, <1>8 DEF NextItem, NextNone, DropReader, writeVars
<1> QED
  BY <1>4, <1>5, <1>6, <1>7, <1>8 DEF EndNext, Writing

(***************************************************************************)
(* The way a reader goes.                                                  *)
(***************************************************************************)

\* A message of which the first o bytes of its payload e have been read.
Begun(m, e, o) ==
  [kind |-> m.kind, payload |-> SubSeq(e, 1, o),
   compressed |-> Compresses(m.data)]

\* The decoder forgets only what the encoder has forgotten (extensions.rs,
\* Extensions!Follows).
Follows(resets) == ResetsDecoder => resets

\* The reader stands at place p.  What an encoder that forgets has written, a
\* decoder with any window can read.
Stays(told, resets, p) ==
  /\ window \in Nat
  /\ IF resets THEN p.w = 0 ELSE window = p.w
  /\ p.o > 0 => p.n \in 1..Len(told)
  /\ frag = IF p.o = 0 THEN None
            ELSE Begun(told[p.n], Coded(told[p.n], p.w), p.o)

\* A message that a peer with the same limits can take.
Sendable(m) ==
  /\ m.kind = "Text" => IsUtf8(m.data)
  /\ Len(m.data) <= MaxMessageSize
  /\ Compresses(m.data) => DeflatedLen <= MaxMessageSize

LEMMA CodedLength ==
  ASSUME NEW m \in Spoken, NEW w \in Nat, Sendable(m)
  PROVE  Len(Coded(m, w)) <= MaxMessageSize
<1>1. CASE Compresses(m.data)
  <2>1. Coded(m, w) = Deflated(m.data, w) /\ Coded(m, w) \in Seq(Unit)
    BY <1>1, CodedType DEF Payload
  <2>2. DOMAIN Coded(m, w) = 1..DeflatedLen /\ DeflatedLen \in Nat
    BY <2>1, SizeAssumption DEF Deflated
  <2>3. Len(Coded(m, w)) = DeflatedLen
    BY <2>1, <2>2, LenProperties
  <2> QED
    BY <1>1, <2>3 DEF Sendable
<1>2. CASE ~Compresses(m.data)
  BY <1>2, CodedType DEF Sendable
<1> QED
  BY <1>1, <1>2

\* A decoder with the window of the encoder, or with any at all if that had
\* none, makes of the bytes what they were made from (decoder.rs:33-80).
LEMMA Inflated ==
  ASSUME NEW m \in Spoken, NEW v \in Nat, NEW w \in {0, v}
  PROVE  Decompress(Deflated(m.data, w), v)
           = {[bytes |-> m.data, window |-> IF ResetsDecoder THEN 0 ELSE v + 1]}
<1> DEFINE p == Deflated(m.data, w)
<1>1. m.data \in Seq(Byte) /\ w \in Nat
  BY DEF Spoken
<1>2. p # <<>> /\ p[1] = [of |-> m.data, at |-> 1, window |-> w]
  <2>1. p # <<>>
    BY <1>1, DeflatedType
  <2>2. 1 \in 1..DeflatedLen
    BY SizeAssumption
  <2>3. p[1] = [of |-> m.data, at |-> 1, window |-> w]
    BY <2>2 DEF Deflated
  <2> QED
    BY <2>1, <2>3
<1>3. p[1] \in DeflateUnit
  BY <1>1, <1>2, SizeAssumption DEF DeflateUnit
<1>4. p[1].of = m.data /\ p[1].window = w
  BY <1>2
<1>5. p = Deflated(p[1].of, p[1].window)
  BY <1>4
<1>6. v # Astray
  BY DEF Astray
<1> HIDE DEF p
<1>7. Readable(p, v)
  BY <1>2, <1>3, <1>4, <1>5, <1>6 DEF Readable, IsDeflated
<1>8. Decompressions(p, v) = {m.data}
  BY <1>4, <1>7 DEF Decompressions
<1>9. NextWindow(p, v) = IF ResetsDecoder THEN 0 ELSE v + 1
  BY <1>7 DEF NextWindow
<1>10. Decompress(p, v)
         = {[bytes |-> m.data, window |-> IF ResetsDecoder THEN 0 ELSE v + 1]}
  BY <1>8, <1>9 DEF Decompress
<1> QED
  BY <1>10 DEF p

\* A frame of a message passes the checks of its header (read.rs:170-243).
LEMMA PartRead ==
  ASSUME NEW m \in Spoken, NEW e \in Payload, NEW p \in Place,
         NEW to \in p.o..Len(e), to - p.o <= MaxFrameSize
  PROVE  LET f == Part(m, e, p, to)
         IN /\ f.fin = (to = Len(e))
            /\ f.op = IF p.o = 0 THEN m.kind ELSE "Continue"
            /\ f.rsv1 = (p.o = 0 /\ Compresses(m.data))
            /\ f.whole = TRUE
            /\ f.payload = SubSeq(e, p.o + 1, to)
            /\ Len(f.payload) = to - p.o
            /\ HeaderError(f) = None
<1> DEFINE f == Part(m, e, p, to)
<1>1. /\ p.o \in Nat /\ Len(e) \in Nat /\ e \in Seq(Unit)
      /\ to \in Nat /\ p.o <= to /\ to <= Len(e)
  BY LenProperties DEF Place, Payload
<1>2. Len(SubSeq(e, p.o + 1, to)) = to - p.o
  BY <1>1
<1>3. /\ f.fin = (to = Len(e))
      /\ f.op = IF p.o = 0 THEN m.kind ELSE "Continue"
      /\ f.rsv1 = (p.o = 0 /\ Compresses(m.data))
      /\ f.rsv = FALSE
      /\ f.whole = TRUE
      /\ f.payload = SubSeq(e, p.o + 1, to)
  BY DEF Part, WireFrame
<1> HIDE DEF f
<1>4. m.kind \in Data
  BY DEF Spoken
<1>5. f.op # Reserved /\ f.op \notin Control
  BY <1>3, <1>4 DEF Reserved, Control, Data
<1>6. f.rsv1 => Deflate
  BY <1>3, CodedType DEF Compresses
<1>7. ~(Len(f.payload) > MaxFrameSize)
  BY <1>1, <1>2, <1>3, ConfigAssumption
<1>8. HeaderError(f) = None
  BY <1>3, <1>5, <1>6, <1>7 DEF HeaderError
<1> QED
  BY <1>2, <1>3, <1>8 DEF f

\* What reading a frame that carries the stream from p to q may lead to.
Read(told, resets, p, q) ==
  \/ pc' = "fail" /\ hand' \in Failure
     /\ p.n \in 1..Len(told) /\ ~Sendable(told[p.n])
  \/ pc' = "read" /\ Stays(told, resets, q)' /\ q.n = p.n
  \/ pc' = "lock" /\ Stays(told, resets, q)' /\ q.n = p.n
     /\ hand' \in {CloseFrame, PongFrame(<<>>)}
  \/ pc' = "deliver" /\ Stays(told, resets, q)' /\ q.n = p.n + 1
     /\ p.n \in 1..Len(told) /\ hand' = told[p.n]

LEMMA ControlRead ==
  ASSUME NEW told, NEW resets, NEW p \in Place, Stays(told, resets, p),
         ReadFrame,
         Head(inbox) \in {CloseFrame, PingFrame, PongFrame(<<>>)}
  PROVE  Read(told, resets, p, p)
<1> DEFINE f == Head(inbox)
<1>1. /\ f.op \in Control /\ f.fin = TRUE /\ f.rsv1 = FALSE /\ f.rsv = FALSE
      /\ f.whole = TRUE /\ f.payload = <<>> /\ f.long = FALSE
  <2>1. (Len(<<>>) > ShortMax) = FALSE
    BY SizeAssumption
  <2>2. PICK op \in Control : f = WireFrame(TRUE, op, FALSE, <<>>)
    BY DEF CloseFrame, PingFrame, PongFrame, Control
  <2> HIDE DEF f
  <2>3. f = [fin |-> TRUE, op |-> op, rsv1 |-> FALSE, rsv |-> FALSE,
             long |-> FALSE, whole |-> TRUE, payload |-> <<>>]
    BY <2>1, <2>2, Zenon DEF WireFrame
  <2> QED
    BY <2>3
<1> HIDE DEF f
<1>2. HeaderError(f) = None
  <2>1. f.op # Reserved /\ ~(Len(<<>>) > MaxFrameSize)
    BY <1>1, ConfigAssumption DEF Reserved, Control
  <2> QED
    BY <1>1, <2>1 DEF HeaderError
<1>3. Body(f) = {[bytes |-> <<>>, window |-> window]}
  BY <1>1 DEF Body, Verbatim
<1>4. ~Starts(f) /\ ~Stands(f) /\ ~Continues(f)
  BY <1>1 DEF Starts, Stands, Continues, Data, Control
<1>5. FramingError(f) = None
  BY <1>4 DEF FramingError
<1>6. <<>> # Unreadable
  BY UnreadableAssumption, EmptyPayload
<1>7. pc = "read" /\ \E r \in Body(f) :
                   \/ AnswerClose(f, r) \/ AnswerPing(f, r)
                   \/ IgnorePong(f, r)
  BY <1>1, <1>2, <1>3, <1>4, <1>5, <1>6
  DEF ReadFrame, f, RejectHeader, PayloadMissing, PayloadUnreadable,
    StartMessage, ContinueMessage, FinishMessage, WholeMessage, RefuseFrame
<1> QED
  BY <1>3, <1>7
  DEF Read, AnswerClose, AnswerPing, IgnorePong, Reply, Stays, Receive

\* Two parts of a payload that meet.
LEMMA PartsMeet ==
  ASSUME NEW e \in Payload, NEW o \in Nat, NEW to \in o..Len(e)
  PROVE  /\ SubSeq(e, 1, o) \o SubSeq(e, o + 1, to) = SubSeq(e, 1, to)
         /\ Len(SubSeq(e, 1, to)) = to
         /\ SubSeq(e, 1, to) \in Payload
         /\ to = Len(e) => SubSeq(e, 1, to) = e
<1>1. e \in Seq(Unit) /\ Len(e) \in Nat /\ to \in Nat /\ o <= to /\ to <= Len(e)
  BY LenProperties DEF Payload
<1>2. /\ SubSeq(e, 1, o) \in Seq(Unit) /\ Len(SubSeq(e, 1, o)) = o
      /\ SubSeq(e, o + 1, to) \in Seq(Unit)
      /\ Len(SubSeq(e, o + 1, to)) = to - o
      /\ SubSeq(e, 1, to) \in Seq(Unit) /\ Len(SubSeq(e, 1, to)) = to
      /\ \A i \in 1..o : SubSeq(e, 1, o)[i] = e[i]
      /\ \A i \in 1..(to - o) : SubSeq(e, o + 1, to)[i] = e[o + i]
      /\ \A i \in 1..to : SubSeq(e, 1, to)[i] = e[i]
  BY <1>1
<1>3. SubSeq(e, 1, o) \o SubSeq(e, o + 1, to) = SubSeq(e, 1, to)
  BY <1>1, <1>2
<1>4. to = Len(e) => SubSeq(e, 1, to) = e
  BY <1>1, <1>2
<1> QED
  BY <1>2, <1>3, <1>4 DEF Payload

\* Delivered as it was said, unless it is a text that is none.
LEMMA SaidIsDelivered ==
  ASSUME NEW m \in Spoken, Transmit(m.kind, m.data)
  PROVE  \/ pc' = "fail" /\ hand' \in Failure /\ ~Sendable(m)
         \/ pc' = "deliver" /\ hand' = m
<1>1. m = [kind |-> m.kind, data |-> m.data]
  BY DEF Spoken
<1>2. "FromUtf8Error" \in Error
  BY DEF Error
<1> QED
  BY <1>1, <1>2, FailType DEF Transmit, Sendable

LEMMA BytesRead ==
  ASSUME NEW told \in Seq(Spoken), NEW resets \in BOOLEAN, Follows(resets),
         NEW p \in Place, Stays(told, resets, p), ReadFrame,
         NEW q, CarriesBytes(told, resets, p, Head(inbox), q)
  PROVE  Read(told, resets, p, q)
<1> DEFINE f == Head(inbox)
<1> DEFINE m == told[p.n]
<1> DEFINE e == Coded(m, p.w)
<1>1. /\ p.n \in 1..Len(told) /\ m \in Spoken
      /\ p.w \in Nat /\ p.o \in Nat /\ p.n \in Nat
  <2>1. p.n \in 1..Len(told) /\ p.w \in Nat /\ p.o \in Nat /\ p.n \in Nat
    BY DEF CarriesBytes, Place
  <2> QED
    BY <2>1
<1>2. PICK to \in p.o..Len(e) :
        /\ to - p.o <= MaxFrameSize
        /\ f = Part(m, e, p, to)
        /\ \/ to = Len(e) /\ q = Passed(told, resets, p)
           \/ p.o < to /\ to < Len(e) /\ q = At(p.n, p.w, to)
  BY DEF CarriesBytes
<1>3. /\ e \in Payload /\ Len(e) \in Nat
      /\ ~Compresses(m.data) => e = m.data
      /\ Compresses(m.data) => Deflate /\ e = Deflated(m.data, p.w)
  BY <1>1, CodedType
<1>4. Sendable(m) => Len(e) <= MaxMessageSize
  BY <1>1, CodedLength
<1> HIDE DEF f, e
<1>5. /\ f.fin = (to = Len(e))
      /\ f.op = IF p.o = 0 THEN m.kind ELSE "Continue"
      /\ f.rsv1 = (p.o = 0 /\ Compresses(m.data))
      /\ f.whole = TRUE
      /\ f.payload = SubSeq(e, p.o + 1, to)
      /\ HeaderError(f) = None
  <2> HIDE DEF m
  <2>1. /\ m \in Spoken /\ e \in Payload /\ to \in p.o..Len(e)
        /\ to - p.o <= MaxFrameSize /\ f = Part(m, e, p, to)
    BY <1>1, <1>2, <1>3
  <2> QED
    BY <2>1, PartRead, Zenon
<1>6. /\ window \in Nat /\ p.w \in {0, window}
      /\ IF resets THEN p.w = 0 ELSE window = p.w
      /\ p.o = 0 => frag = None
      /\ p.o > 0 => frag = Begun(m, e, p.o)
  BY <1>1 DEF Stays, e
<1>7. /\ m.data \in Payload /\ m.data # Unreadable /\ m.kind \in Data
      /\ f.payload \in Payload /\ f.payload # Unreadable
  <2>1. m.data \in Payload /\ m.kind \in Data
    BY <1>1, BytesArePayloads DEF Spoken
  <2>2. f.payload \in Payload
    <3>1. e \in Seq(Unit) /\ to \in Nat /\ p.o + 1 \in Nat \ {0} /\ to <= Len(e)
      BY <1>1, <1>2, <1>3 DEF Payload
    <3>2. SubSeq(e, p.o + 1, to) \in Seq(Unit)
      BY <3>1
    <3> QED
      BY <1>5, <3>2 DEF Payload
  <2> QED
    BY <2>1, <2>2, UnreadableAssumption
<1>8. Begun(m, e, p.o) \in Fragmented => Begun(m, e, p.o) # None
  BY NoneAssumption
<1>9. p.o > 0 => frag # None
  <2>1. Compresses(m.data) \in BOOLEAN
    BY ConfigAssumption DEF Compresses
  <2>2. p.o \in 0..Len(e)
    BY <1>1, <1>2, <1>3
  <2>3. SubSeq(e, 1, p.o) \in Payload
    BY <1>3, <2>2, PartsMeet
  <2>4. Begun(m, e, p.o) \in Fragmented
    BY <1>7, <2>1, <2>3 DEF Begun, Fragmented
  <2> QED
    BY <1>6, <1>8, <2>4
<1> DEFINE next == IF Compresses(m.data)
                   THEN IF ResetsDecoder THEN 0 ELSE window + 1
                   ELSE window
<1>10. ASSUME q = Passed(told, resets, p), window' = next, frag' = None
       PROVE  Stays(told, resets, q)' /\ q.n = p.n + 1
  <2>1. q = At(p.n + 1, IF Compresses(m.data) /\ ~resets THEN p.w + 1
                        ELSE p.w, 0)
    BY <1>10 DEF Passed
  <2>2. /\ q.n = p.n + 1 /\ q.o = 0
        /\ q.w = IF Compresses(m.data) /\ ~resets THEN p.w + 1 ELSE p.w
    BY <2>1 DEF At
  <2>3. next \in Nat /\ IF resets THEN q.w = 0 ELSE next = q.w
    BY <1>6, <2>2 DEF Follows
  <2> QED
    BY <1>10, <2>2, <2>3 DEF Stays
\* Nothing stops at the header, or for want of bytes.
<1>11. /\ pc = "read"
       /\ \/ PayloadUnreadable(f)
          \/ \E r \in Body(f) :
               \/ StartMessage(f, r) \/ ContinueMessage(f, r)
               \/ FinishMessage(f, r) \/ WholeMessage(f, r)
               \/ RefuseFrame(f, r)
  <2>1. f.op # "Close" /\ f.op # "Ping" /\ f.op # "Pong"
    BY <1>5, <1>7 DEF Data
  <2> QED
    BY <1>5, <2>1
    DEF ReadFrame, f, RejectHeader, PayloadMissing, AnswerClose, AnswerPing,
      IgnorePong
\* A message in one frame.
<1>12. CASE p.o = 0 /\ to = Len(e)
  <2>1. Stands(f) /\ ~Starts(f) /\ ~Continues(f) /\ frag = None
    BY <1>5, <1>6, <1>7, <1>12 DEF Stands, Starts, Continues, Data
  <2>2. FramingError(f) = None
    BY <2>1 DEF FramingError
  <2>3. f.payload = e
    BY <1>1, <1>2, <1>3, <1>5, <1>12, PartsMeet
  <2>4. Body(f) = {[bytes |-> m.data, window |-> next]}
    <3>1. CASE Compresses(m.data)
      <4>1. Body(f) = Decompress(Deflated(m.data, p.w), window)
        BY <1>3, <1>5, <1>12, <2>3, <3>1 DEF Body
      <4> QED
        BY <1>1, <1>6, <3>1, <4>1, Inflated
    <3>2. CASE ~Compresses(m.data)
      BY <1>3, <1>5, <1>6, <2>3, <3>2 DEF Body, Verbatim
    <3> QED
      BY <3>1, <3>2
  <2>5. PICK r \in Body(f) : WholeMessage(f, r)
    BY <1>7, <1>11, <2>1, <2>2, <2>4
    DEF PayloadUnreadable, StartMessage, ContinueMessage, FinishMessage,
      RefuseFrame
  <2>6. Transmit(m.kind, m.data) /\ frag' = None /\ window' = next
    BY <1>5, <1>12, <2>1, <2>4, <2>5 DEF WholeMessage
  <2>7. q = Passed(told, resets, p)
    BY <1>2, <1>12
  <2>8. Stays(told, resets, q)' /\ q.n = p.n + 1
    BY <1>10, <2>6, <2>7
  <2>10. \/ pc' = "fail" /\ hand' \in Failure /\ ~Sendable(m)
         \/ pc' = "deliver" /\ hand' = m
    BY <1>1, <2>6, SaidIsDelivered
  <2> QED
    BY <1>1, <2>8, <2>10 DEF Read
\* The other frames of a message are kept as they are.
<1>13. ASSUME ~(p.o = 0 /\ to = Len(e))
       PROVE  Body(f) = {[bytes |-> f.payload, window |-> window]}
  <2>1. ~(f.rsv1 /\ f.fin)
    BY <1>5, <1>13
  <2> QED
    BY <1>6, <2>1 DEF Body, Verbatim
<1>14. ASSUME ~(p.o = 0 /\ to = Len(e))
       PROVE  /\ ~PayloadUnreadable(f)
              /\ ~Stands(f)
              /\ Starts(f) <=> p.o = 0
              /\ Continues(f) <=> p.o > 0
              /\ FramingError(f) = None
  <2>1. ~PayloadUnreadable(f)
    BY <1>7, <1>13, <1>14 DEF PayloadUnreadable
  <2>2. f.op = IF p.o = 0 THEN m.kind ELSE "Continue"
    BY <1>5
  <2>3. m.kind \in Data /\ "Continue" \notin Data
    BY <1>7 DEF Data
  <2>4. f.op \in Data <=> p.o = 0
    BY <2>2, <2>3
  <2>5. f.op \in Data => f.fin = FALSE
    BY <1>5, <1>14, <2>4
  <2>6. f.op = "Continue" <=> p.o # 0
    BY <2>2, <2>3
  <2>7. p.o # 0 <=> p.o > 0
    BY <1>1
  <2>8. /\ ~Stands(f)
        /\ Starts(f) <=> p.o = 0
        /\ Continues(f) <=> p.o > 0
    BY <2>4, <2>5, <2>6, <2>7 DEF Stands, Starts, Continues
  <2>9. FramingError(f) = None
    BY <1>1, <1>6, <1>9, <2>8 DEF FramingError
  <2> QED
    BY <2>1, <2>8, <2>9
\* The first of several frames.
<1>15. CASE p.o = 0 /\ to # Len(e)
  <2>1. PICK r \in Body(f) : StartMessage(f, r)
    BY <1>6, <1>11, <1>14, <1>15
    DEF ContinueMessage, FinishMessage, WholeMessage, RefuseFrame
  <2>2. /\ frag' = [kind |-> m.kind, payload |-> f.payload,
                    compressed |-> f.rsv1]
        /\ window' = window /\ pc' = pc
    <3>1. r.bytes = f.payload /\ r.window = window
      BY <1>13, <1>15
    <3>2. f.op = m.kind
      BY <1>5, <1>15
    <3> QED
      BY <2>1, <3>1, <3>2 DEF StartMessage
  <2>3. frag' = Begun(m, e, to)
    <3>1. Compresses(m.data) \in BOOLEAN
      BY ConfigAssumption DEF Compresses
    <3>2. f.rsv1 = Compresses(m.data)
      BY <1>5, <1>15, <3>1
    <3>3. f.payload = SubSeq(e, 1, to)
      BY <1>5, <1>15
    <3> QED
      BY <2>2, <3>2, <3>3, Zenon DEF Begun
  <2>4. q = At(p.n, p.w, to) /\ to > 0
    BY <1>2, <1>15
  <2>5. q.n = p.n /\ q.w = p.w /\ q.o = to
    BY <2>4 DEF At
  <2>6. Stays(told, resets, q)'
    BY <1>1, <1>6, <2>2, <2>3, <2>4, <2>5 DEF Stays, e
  <2> QED
    BY <1>11, <2>2, <2>5, <2>6 DEF Read
<1>16. ASSUME p.o > 0
       PROVE  /\ Grown(f.payload) = SubSeq(e, 1, to)
              /\ Len(Grown(f.payload)) = to
              /\ frag.kind = m.kind /\ frag.compressed = Compresses(m.data)
              /\ [frag EXCEPT !.payload = SubSeq(e, 1, to)] = Begun(m, e, to)
  <2>1. frag = Begun(m, e, p.o)
    BY <1>6, <1>16
  <2>2. frag.payload = SubSeq(e, 1, p.o)
    BY <2>1 DEF Begun
  <2>3. Grown(f.payload) = SubSeq(e, 1, to) /\ Len(Grown(f.payload)) = to
    <3>1. frag.payload \o f.payload
            = SubSeq(e, 1, p.o) \o SubSeq(e, p.o + 1, to)
      BY <1>5, <2>2
    <3> QED
      <4>1. to \in p.o..Len(e) /\ p.o \in Nat /\ e \in Payload
        BY <1>1, <1>3
      <4> HIDE DEF m
      <4>2. /\ SubSeq(e, 1, p.o) \o SubSeq(e, p.o + 1, to) = SubSeq(e, 1, to)
            /\ Len(SubSeq(e, 1, to)) = to
        BY <4>1, PartsMeet, Zenon
      <4> QED
        BY <3>1, <4>2 DEF Grown
  <2>4. frag.kind = m.kind /\ frag.compressed = Compresses(m.data)
    BY <2>1 DEF Begun
  <2>5. [frag EXCEPT !.payload = SubSeq(e, 1, to)] = Begun(m, e, to)
    <3>1. PICK a, b, c : /\ a = SubSeq(e, 1, p.o) /\ b = SubSeq(e, 1, to)
                         /\ c = Compresses(m.data)
      OBVIOUS
    <3>2. frag = [kind |-> m.kind, payload |-> a, compressed |-> c]
      BY <2>1, <3>1 DEF Begun
    <3>3. [frag EXCEPT !.payload = b]
            = [kind |-> m.kind, payload |-> b, compressed |-> c]
      BY <3>2
    <3> QED
      BY <3>1, <3>3 DEF Begun
  <2> QED
    BY <2>3, <2>4, <2>5
<1>17. ASSUME p.o > 0, TooLong(Grown(f.payload)), NEW r \in Body(f),
              ContinueMessage(f, r)
       PROVE  Read(told, resets, p, q)
  <2>1. r.bytes = f.payload
    BY <1>1, <1>13, <1>17
  <2>2. Fail("MaxMessageSize")
    BY <1>17, <2>1 DEF ContinueMessage
  <2>3. to > MaxMessageSize /\ to <= Len(e)
    BY <1>2, <1>16, <1>17 DEF TooLong
  <2>4. ~Sendable(m)
    BY <1>2, <1>3, <1>4, <2>3, ConfigAssumption
  <2>5. "MaxMessageSize" \in Error
    BY DEF Error
  <2> QED
    BY <1>1, <2>2, <2>4, <2>5, FailType DEF Read
\* One in the middle.
<1>18. CASE p.o > 0 /\ to # Len(e)
  <2>1. PICK r \in Body(f) : ContinueMessage(f, r)
    BY <1>1, <1>5, <1>9, <1>11, <1>14, <1>18
    DEF StartMessage, FinishMessage, WholeMessage, RefuseFrame
  <2>2. r.bytes = f.payload /\ r.window = window
    BY <1>1, <1>13, <1>18
  <2>3. CASE ~TooLong(Grown(f.payload))
    <3>1. /\ frag' = Begun(m, e, to)
          /\ window' = window /\ pc' = pc
      BY <1>16, <1>18, <2>1, <2>2, <2>3 DEF ContinueMessage
    <3>2. q.n = p.n /\ q.w = p.w /\ q.o = to /\ to > 0
      BY <1>1, <1>2, <1>18 DEF At
    <3>3. Stays(told, resets, q)'
      BY <1>1, <1>6, <3>1, <3>2 DEF Stays, e
    <3> QED
      BY <1>11, <3>1, <3>2, <3>3 DEF Read
  <2> QED
    BY <1>17, <1>18, <2>1, <2>3
\* The last one: the message is inflated as a whole.
<1>19. CASE p.o > 0 /\ to = Len(e)
  <2>1. Grown(f.payload) = e
    BY <1>1, <1>2, <1>3, <1>16, <1>19, PartsMeet
  <2>2. PICK r \in Body(f) : ContinueMessage(f, r) \/ FinishMessage(f, r)
    BY <1>1, <1>9, <1>11, <1>14, <1>19
    DEF StartMessage, WholeMessage, RefuseFrame
  <2>3. r.bytes = f.payload /\ r.window = window
    BY <1>1, <1>13, <1>19
  <2>4. CASE ~TooLong(Grown(f.payload))
    <3>1. FinishMessage(f, r)
      BY <1>5, <1>19, <2>2, <2>3, <2>4 DEF ContinueMessage
    <3>2. frag' = None /\ Transmit(m.kind, m.data) /\ window' = next
      <4>1. CASE Compresses(m.data)
        <5>1. frag' = None /\ \E whole \in Decompress(e, window) :
                 /\ window' = whole.window
                 /\ IF whole.bytes = Unreadable THEN Fail("DecompressError")
                    ELSE Transmit(m.kind, whole.bytes)
          BY <1>16, <1>19, <2>1, <2>3, <3>1, <4>1 DEF FinishMessage
        <5>2. Decompress(e, window)
                = {[bytes |-> m.data,
                    window |-> IF ResetsDecoder THEN 0 ELSE window + 1]}
          BY <1>1, <1>3, <1>6, <4>1, Inflated
        <5> QED
          BY <1>6, <1>7, <4>1, <5>1, <5>2
      <4>2. CASE ~Compresses(m.data)
        BY <1>3, <1>16, <1>19, <2>1, <2>3, <3>1, <4>2 DEF FinishMessage
      <4> QED
        BY <4>1, <4>2
    <3>3. q = Passed(told, resets, p)
      BY <1>2, <1>19
    <3>4. Stays(told, resets, q)' /\ q.n = p.n + 1
      BY <1>10, <3>2, <3>3
    <3>6. \/ pc' = "fail" /\ hand' \in Failure /\ ~Sendable(m)
          \/ pc' = "deliver" /\ hand' = m
      BY <1>1, <3>2, SaidIsDelivered
    <3> QED
      BY <1>1, <3>4, <3>6 DEF Read
  <2>5. CASE TooLong(Grown(f.payload))
    <3>1. ContinueMessage(f, r)
      BY <2>2, <2>3, <2>5 DEF FinishMessage
    <3> QED
      BY <1>17, <1>19, <2>5, <3>1
  <2> QED
    BY <2>4, <2>5
<1> QED
  BY <1>1, <1>12, <1>15, <1>18, <1>19

(***************************************************************************)
(* What a user has received, and what waits for it in the channel, is what *)
(* has been said, in order, but for an error at the very end.              *)
(***************************************************************************)
Matches(told, items, k) ==
  \A i \in 1..Len(items) :
    \/ k + i \in 1..Len(told) /\ items[i] = told[k + i]
    \/ i = Len(items) /\ items[i] \in Failure

Final(items) == items # <<>> /\ items[Len(items)] \in Failure

LEMMA SpokenIsNoFailure == \A m \in Spoken : m \notin Failure
BY DEF Spoken, Failure, Data

LEMMA MatchesNext ==
  ASSUME NEW told \in Seq(Spoken), NEW items \in Seq(Item), NEW k \in Nat,
         items # <<>>, Matches(told, items, k)
  PROVE  /\ Matches(told, Tail(items), k + 1)
         /\ Head(items) \in Failure => Tail(items) = <<>> /\ Final(items)
         /\ Head(items) \notin Failure =>
              k + 1 \in 1..Len(told) /\ Head(items) = told[k + 1]
         /\ Final(Tail(items)) => Final(items)
<1>1. /\ Len(items) \in Nat \ {0} /\ Head(items) = items[1]
      /\ Len(Tail(items)) = Len(items) - 1
      /\ \A i \in 1..(Len(items) - 1) : Tail(items)[i] = items[i + 1]
      /\ Tail(items) \in Seq(Item)
  BY EmptySeq, HeadTailProperties
<1>2. ASSUME NEW i \in 1..Len(Tail(items))
      PROVE  \/ (k + 1) + i \in 1..Len(told)
                /\ Tail(items)[i] = told[(k + 1) + i]
             \/ i = Len(Tail(items)) /\ Tail(items)[i] \in Failure
  <2>1. /\ i + 1 \in 1..Len(items) /\ Tail(items)[i] = items[i + 1]
        /\ k + (i + 1) = (k + 1) + i
        /\ i + 1 = Len(items) <=> i = Len(Tail(items))
    BY <1>1
  <2> QED
    BY <2>1 DEF Matches
<1>3. 1 \in 1..Len(items)
  BY <1>1
<1>4. \/ k + 1 \in 1..Len(told) /\ Head(items) = told[k + 1]
      \/ 1 = Len(items) /\ Head(items) \in Failure
  BY <1>1, <1>3 DEF Matches
<1>5. k + 1 \in 1..Len(told) => told[k + 1] \notin Failure
  <2>1. k + 1 \in 1..Len(told) => told[k + 1] \in Spoken
    BY Zenon, ElementOfSeq
  <2> QED
    BY <2>1, SpokenIsNoFailure, Zenon
<1>6. ASSUME 1 = Len(items)
      PROVE  Tail(items) = <<>> /\ items[1] = items[Len(items)]
  <2>1. Len(Tail(items)) = 0
    <3>1. Len(items) - 1 = 0
      BY <1>6
    <3> QED
      BY <1>1, <3>1, Zenon
  <2> QED
    BY <1>1, <1>6, <2>1, EmptySeq
<1>7. Final(Tail(items)) => Final(items)
  <2> SUFFICES ASSUME Tail(items) # <<>>
               PROVE  Tail(items)[Len(Tail(items))] = items[Len(items)]
    BY DEF Final
  <2>1. Len(items) - 1 # 0
    BY <1>1, EmptySeq
  <2> QED
    BY <1>1, <2>1
<1> QED
  BY <1>1, <1>2, <1>4, <1>5, <1>6, <1>7 DEF Matches, Final

LEMMA MatchesMore ==
  ASSUME NEW told, NEW items \in Seq(Item), NEW k \in Nat,
         Matches(told, items, k), ~Final(items), NEW x \in Item,
         \/ /\ k + Len(items) + 1 \in 1..Len(told)
            /\ x = told[k + Len(items) + 1]
         \/ x \in Failure
  PROVE  /\ Matches(told, Append(items, x), k)
         /\ Final(Append(items, x)) => x \in Failure
<1>1. /\ Len(items) \in Nat /\ Len(Append(items, x)) = Len(items) + 1
      /\ Append(items, x)[Len(items) + 1] = x
      /\ \A i \in 1..Len(items) : Append(items, x)[i] = items[i]
  OBVIOUS
<1>2. ASSUME NEW i \in 1..Len(Append(items, x))
      PROVE  \/ k + i \in 1..Len(told) /\ Append(items, x)[i] = told[k + i]
             \/ /\ i = Len(Append(items, x))
                /\ Append(items, x)[i] \in Failure
  <2>1. CASE i \in 1..Len(items)
    <3>1. ~(i = Len(items) /\ items[i] \in Failure)
      BY <2>1, EmptySeq DEF Final
    <3> QED
      BY <1>1, <2>1, <3>1 DEF Matches
  <2>2. CASE i = Len(items) + 1
    <3>1. k + i = k + Len(items) + 1
      BY <1>1, <2>2
    <3> QED
      BY <1>1, <2>2, <3>1
  <2> QED
    BY <1>1, <2>1, <2>2
<1> QED
  BY <1>1, <1>2 DEF Matches, Final

LEMMA MatchesStays ==
  ASSUME NEW told \in Seq(Spoken), NEW m \in Spoken, NEW items, NEW k,
         Matches(told, items, k)
  PROVE  Matches(Append(told, m), items, k)
BY DEF Matches

Received(told) ==
  /\ Matches(told, got, 0)
  /\ Final(got) => pc = "done" /\ chan = <<>>
  /\ rx = "open" =>
       /\ Matches(told, chan, Len(got))
       /\ Final(chan) => pc = "done"
       /\ pc = "deliver" =>
            /\ Len(got) + Len(chan) + 1 \in 1..Len(told)
            /\ hand = told[Len(got) + Len(chan) + 1]

\* A read task at work stands at place p, as many messages on as it has
\* passed on.
Placed(told, resets, p) ==
  pc \notin {"fail", "done"} =>
    /\ Stays(told, resets, p)
    /\ rx = "open" =>
         p.n = Len(got) + Len(chan) + IF pc = "deliver" THEN 2 ELSE 1

Inbound(told, resets, q) ==
  /\ \E p \in Place : /\ Leads(told, resets, inbox, p, q)
                       /\ Placed(told, resets, p)
  /\ Received(told)
  /\ RepliesPlainly

\* Where reading the next frame of the stream leads.
LEMMA NextRead ==
  ASSUME LinkTypeOK, NEW told \in Seq(Spoken), NEW resets \in BOOLEAN,
         Follows(resets), NEW q, NEW p \in Place,
         Leads(told, resets, inbox, p, q), Placed(told, resets, p), ReadFrame
  PROVE  \E r \in Place : /\ Leads(told, resets, inbox', r, q)
                          /\ Read(told, resets, p, r)
<1>1. /\ inbox \in Seq(RawFrame) /\ inbox # <<>> /\ pc = "read"
      /\ inbox' = Tail(inbox)
  BY ReadFrameOutcome DEF LinkTypeOK
<1>2. PICK r \in Place : /\ Carries(told, resets, p, Head(inbox), r)
                         /\ Leads(told, resets, Tail(inbox), r, q)
  BY <1>1, LeadsOn
<1>3. Stays(told, resets, p)
  BY <1>1 DEF Placed
<1>4. CASE Head(inbox) \in {CloseFrame, PingFrame, PongFrame(<<>>)} /\ r = p
  BY <1>1, <1>2, <1>3, <1>4, ControlRead
<1>5. CASE CarriesBytes(told, resets, p, Head(inbox), r)
  BY <1>1, <1>2, <1>3, <1>5, BytesRead
<1> QED
  BY <1>2, <1>4, <1>5 DEF Carries

LEMMA ReadInbound ==
  ASSUME EndTypeOK, NEW told \in Seq(Spoken), NEW resets \in BOOLEAN,
         Follows(resets), NEW q, Inbound(told, resets, q),
         ReadFrame, UNCHANGED got
  PROVE  Inbound(told, resets, q)'
<1>1. PICK p \in Place :
        Leads(told, resets, inbox, p, q) /\ Placed(told, resets, p)
  BY DEF Inbound
<1>2. PICK r \in Place :
        Leads(told, resets, inbox', r, q) /\ Read(told, resets, p, r)
  BY <1>1, NextRead DEF EndTypeOK
<1>3. pc = "read" /\ UNCHANGED <<chan, rx, got>>
  BY DEF ReadFrame
<1>4. Received(told)
  BY DEF Inbound
<1>5. rx = "open" => p.n = Len(got) + Len(chan) + 1
  BY <1>1, <1>3 DEF Placed
<1>6. Len(got) \in Nat /\ Len(chan) \in Nat
  BY DEF EndTypeOK, LinkTypeOK
<1>7. ~Final(got) /\ (rx = "open" => ~Final(chan))
  BY <1>3, <1>4 DEF Received
<1>8. Placed(told, resets, r)' /\ RepliesPlainly'
  BY <1>2, <1>3, <1>5, <1>6 DEF Read, Placed, RepliesPlainly
<1>9. Received(told)'
  BY <1>2, <1>3, <1>4, <1>5, <1>7 DEF Read, Received, Matches, Final
<1> QED
  BY <1>2, <1>8, <1>9 DEF Inbound

LEMMA PassedOn ==
  ASSUME EndTypeOK, NEW told \in Seq(Spoken), NEW resets, NEW q,
         Inbound(told, resets, q),
         Deliver, UNCHANGED got
  PROVE  Inbound(told, resets, q)'
<1>1. PICK p \in Place :
        Leads(told, resets, inbox, p, q) /\ Placed(told, resets, p)
  BY DEF Inbound
<1>2. /\ pc = "deliver" /\ pc' = "read" /\ rx = "open"
      /\ chan' = Append(chan, hand)
      /\ UNCHANGED <<inbox, rx, frag, window, got>>
  BY DEF Deliver, Queue
<1>3. Received(told)
  BY DEF Inbound
<1>4. got \in Seq(Item) /\ chan \in Seq(Item) /\ hand \in Item
  BY <1>2 DEF EndTypeOK, LinkTypeOK, ReadTypeOK, HandTypeOK, Item
<1>5. Len(got) \in Nat /\ Len(chan) \in Nat /\ Len(chan') = Len(chan) + 1
  BY <1>2, <1>4
<1>6. ~Final(got) /\ ~Final(chan)
  BY <1>2, <1>3 DEF Received
<1>7. /\ Matches(told, chan, Len(got))
      /\ Len(got) + Len(chan) + 1 \in 1..Len(told)
      /\ hand = told[Len(got) + Len(chan) + 1]
  BY <1>2, <1>3 DEF Received
<1>8. hand \notin Failure
  BY <1>7, SpokenIsNoFailure, ElementOfSeq
<1>9. Matches(told, chan', Len(got)) /\ ~Final(chan')
  BY <1>2, <1>4, <1>5, <1>6, <1>7, <1>8, MatchesMore
<1>10. Received(told)'
  BY <1>2, <1>3, <1>6, <1>9 DEF Received, Matches, Final
<1>11. Placed(told, resets, p)'
  <2>1. Stays(told, resets, p)'
    BY <1>1, <1>2 DEF Placed, Stays
  <2> QED
    BY <1>1, <1>2, <1>5, <2>1 DEF Placed
<1>12. RepliesPlainly'
  BY <1>2 DEF RepliesPlainly
<1>13. Leads(told, resets, inbox', p, q)
  BY <1>1, <1>2
<1> QED
  BY <1>10, <1>11, <1>12, <1>13 DEF Inbound

\* The last item is an error.
LEMMA FailureReported ==
  ASSUME EndTypeOK, NEW told \in Seq(Spoken), NEW resets, NEW q,
         Inbound(told, resets, q),
         ReportFailure, UNCHANGED got
  PROVE  Inbound(told, resets, q)'
<1>1. /\ pc = "fail" /\ pc' = "done"
      /\ UNCHANGED <<inbox, rx, frag, window, got>>
      /\ \/ rx = "open" /\ chan' = Append(chan, hand)
         \/ rx = "dropped" /\ chan' = chan
  BY DEF ReportFailure, Queue
<1>2. Received(told)
  BY DEF Inbound
<1>3. /\ got \in Seq(Item) /\ chan \in Seq(Item) /\ hand \in Failure
      /\ hand \in Item
  BY <1>1 DEF EndTypeOK, LinkTypeOK, ReadTypeOK, HandTypeOK, Item
<1>4. Len(got) \in Nat
  BY <1>3
<1>5. ~Final(got) /\ (rx = "open" => ~Final(chan))
  BY <1>1, <1>2 DEF Received
<1>6. rx = "open" => Matches(told, chan', Len(got))
  <2> SUFFICES ASSUME rx = "open" PROVE Matches(told, chan', Len(got))
    OBVIOUS
  <2>1. Matches(told, chan, Len(got)) /\ chan' = Append(chan, hand)
    BY <1>1, <1>2 DEF Received
  <2> QED
    BY <1>3, <1>4, <1>5, <2>1, MatchesMore
<1>7. Received(told)'
  BY <1>1, <1>2, <1>5, <1>6 DEF Received, Matches, Final
<1> QED
  BY <1>1, <1>7 DEF Inbound, Placed, RepliesPlainly

LEMMA ItemTaken ==
  ASSUME EndTypeOK, NEW told \in Seq(Spoken), NEW resets, NEW q,
         Inbound(told, resets, q), NextItem
  PROVE  /\ Inbound(told, resets, q)'
         /\ ~Final(got)
         /\ got' = Append(got, Head(chan))
         /\ \/ Head(chan) \in Failure
            \/ /\ Len(got) + 1 \in 1..Len(told)
               /\ Head(chan) = told[Len(got) + 1]
               /\ Head(chan) \notin Failure
<1>1. /\ rx = "open" /\ chan # <<>>
      /\ got' = Append(got, Head(chan)) /\ chan' = Tail(chan)
      /\ UNCHANGED <<inbox, rx, pc, hand, frag, window>>
  BY DEF NextItem, MayRead, readVars
<1>2. Received(told)
  BY DEF Inbound
<1>3. /\ got \in Seq(Item) /\ chan \in Seq(Item) /\ Head(chan) \in Item
  BY <1>1, HeadTailProperties DEF EndTypeOK, LinkTypeOK
<1>4. /\ Len(got) \in Nat /\ Len(chan) \in Nat
      /\ Len(got') = Len(got) + 1 /\ Len(chan') = Len(chan) - 1
  BY <1>1, <1>3, HeadTailProperties
<1>5. ~Final(got) /\ Matches(told, got, 0) /\ Matches(told, chan, Len(got))
  BY <1>1, <1>2 DEF Received
<1>6. /\ Matches(told, chan', Len(got'))
      /\ Head(chan) \in Failure => chan' = <<>> /\ Final(chan)
      /\ Head(chan) \notin Failure =>
           Len(got) + 1 \in 1..Len(told) /\ Head(chan) = told[Len(got) + 1]
      /\ Final(chan') => Final(chan)
  BY <1>1, <1>3, <1>4, <1>5, MatchesNext
<1>7. Matches(told, got', 0) /\ (Final(got') => Head(chan) \in Failure)
  <2>1. 0 + Len(got) + 1 = Len(got) + 1
    BY <1>4
  <2> QED
    BY <1>1, <1>3, <1>5, <1>6, <2>1, MatchesMore
<1>8. Received(told)'
  <2>1. Len(got') + Len(chan') = Len(got) + Len(chan)
    BY <1>4
  <2> QED
    BY <1>1, <1>2, <1>6, <1>7, <2>1 DEF Received, Matches, Final
<1>9. PICK p \in Place :
        Leads(told, resets, inbox, p, q) /\ Placed(told, resets, p)
  BY DEF Inbound
<1>10. Placed(told, resets, p)'
  <2>1. Len(got') + Len(chan') = Len(got) + Len(chan)
    BY <1>4
  <2>2. Stays(told, resets, p) => Stays(told, resets, p)'
    BY <1>1 DEF Stays
  <2> QED
    BY <1>1, <1>9, <2>1, <2>2 DEF Placed
<1>11. Inbound(told, resets, q)'
  BY <1>1, <1>8, <1>9, <1>10 DEF Inbound, RepliesPlainly
<1> QED
  BY <1>1, <1>5, <1>6, <1>11

\* Every step of an end keeps to what it has been told so far.
LEMMA InboundStep ==
  ASSUME EndTypeOK, NEW told \in Seq(Spoken), NEW resets \in BOOLEAN,
         Follows(resets), NEW q, Inbound(told, resets, q), EndNext
  PROVE  Inbound(told, resets, q)'
<1>1. PICK p \in Place :
        Leads(told, resets, inbox, p, q) /\ Placed(told, resets, p)
  BY DEF Inbound
<1>2. Received(told) /\ RepliesPlainly
  BY DEF Inbound
\* Steps that leave the task where it is, or end its work.
<1>3. ASSUME UNCHANGED <<inbox, got, frag, window>>,
             rx' = rx \/ rx' # "open",
             rx' = "open" => chan' = chan,
             chan' = chan \/ chan' = <<>>,
             Placed(told, resets, p)', RepliesPlainly',
             Final(got) => pc' = "done",
             Final(chan) /\ rx' = "open" => pc' = "done",
             rx' = "open" /\ pc' = "deliver" => pc = "deliver" /\ hand' = hand
      PROVE  Inbound(told, resets, q)'
  <2>1. Received(told)'
    BY <1>2, <1>3 DEF Received, Matches, Final
  <2> QED
    BY <1>1, <1>3, <2>1 DEF Inbound
<1>4. CASE Reading
  <2>1. UNCHANGED got
    BY <1>4 DEF Reading, userVars
  <2>2. CASE ReadFrame \/ Deliver \/ ReportFailure
    BY <2>1, <2>2, ReadInbound, PassedOn, FailureReported
  <2>3. CASE Disconnected \/ DeliverRefused \/ ReplyFails
    <3>1. /\ pc' = "fail" /\ pc # "done"
          /\ UNCHANGED <<inbox, got, frag, window, rx, chan>>
      BY <2>1, <2>3
      DEF Disconnected, EndOfInput, DeliverRefused, ReplyFails, Fail
    <3>2. Placed(told, resets, p)' /\ RepliesPlainly'
      BY <3>1 DEF Placed, RepliesPlainly
    <3>3. ~Final(got) /\ (rx = "open" => ~Final(chan))
      BY <1>2, <3>1 DEF Received
    <3> QED
      BY <1>3, <3>1, <3>2, <3>3
  <2>4. CASE LockForReply \/ WriteReply
    <3>1. /\ pc \in {"lock", "write"} /\ pc' \in {"write", "read", "done"}
          /\ pc' = "write" => hand' = hand
          /\ UNCHANGED <<inbox, got, frag, window, rx, chan>>
      BY <2>1, <2>4 DEF LockForReply, WriteReply, AfterReply
    <3>2. Placed(told, resets, p)'
      BY <1>1, <3>1 DEF Placed, Stays
    <3>3. RepliesPlainly'
      BY <1>2, <3>1 DEF RepliesPlainly
    <3>4. ~Final(got) /\ (rx = "open" => ~Final(chan))
      BY <1>2, <3>1 DEF Received
    <3> QED
      BY <1>3, <3>1, <3>2, <3>3, <3>4
  <2> QED
    BY <1>4, <2>2, <2>3, <2>4 DEF Reading, ReadTask
<1>5. CASE Writing
  <2>1. UNCHANGED <<inbox, got, frag, window, rx, chan, pc, hand>>
    BY <1>5
    DEF Writing, readVars, Call, SendMessage, SendLarge, SendPing,
      CloseConnection, Calls, WriteTask, LockForFrame, WriteFrame, FrameFails,
      CloseReturns, DropWriter
  <2>2. Placed(told, resets, p)' /\ RepliesPlainly'
    BY <1>1, <1>2, <2>1 DEF Placed, Stays, RepliesPlainly
  <2> QED
    BY <1>2, <1>3, <2>1, <2>2 DEF Received
<1>6. CASE NextItem
  BY <1>6, ItemTaken
<1>7. CASE NextNone \/ DropReader
  <2>1. /\ rx' # "open"
        /\ UNCHANGED <<inbox, got, frag, window, pc, hand>>
        /\ chan' = chan \/ chan' = <<>>
    BY <1>7 DEF NextNone, DropReader, readVars
  <2>2. Placed(told, resets, p)' /\ RepliesPlainly'
    BY <1>1, <1>2, <2>1 DEF Placed, Stays, RepliesPlainly
  <2> QED
    BY <1>2, <1>3, <2>1, <2>2 DEF Received
<1> QED
  BY <1>4, <1>5, <1>6, <1>7 DEF EndNext

(***************************************************************************)
(* What comes from outside.                                                *)
(***************************************************************************)
LEMMA Undisturbed ==
  ASSUME NEW told, NEW resets, NEW p,
         Placed(told, resets, p), Received(told), RepliesPlainly,
         UNCHANGED <<chan, rx, got, readVars>>
  PROVE  Placed(told, resets, p)' /\ Received(told)' /\ RepliesPlainly'
BY DEF Placed, Stays, Received, Matches, Final, RepliesPlainly, readVars

\* The other end is idle, or has written one more frame.
LEMMA InboundAsBefore ==
  ASSUME NEW told, NEW resets, NEW q, Inbound(told, resets, q),
         UNCHANGED <<inbox, chan, rx, got, readVars>>
  PROVE  Inbound(told, resets, q)'
BY Undisturbed DEF Inbound

LEMMA FrameComes ==
  ASSUME EndTypeOK, NEW told, NEW resets, NEW q,
         NEW r \in Place, NEW f \in RawFrame,
         Inbound(told, resets, q), Carries(told, resets, q, f, r),
         inbox' = Append(inbox, f), UNCHANGED <<chan, rx, got, readVars>>
  PROVE  Inbound(told, resets, r)'
<1>1. PICK p \in Place :
        Leads(told, resets, inbox, p, q) /\ Placed(told, resets, p)
  BY DEF Inbound
<1>2. Leads(told, resets, inbox', p, r)
  BY <1>1, LeadsFurther DEF EndTypeOK, LinkTypeOK
<1> QED
  BY <1>1, <1>2, Undisturbed DEF Inbound

\* The other user says something more.
LEMMA MoreIsSaid ==
  ASSUME NEW told \in Seq(Spoken), NEW resets, NEW m \in Spoken, NEW q,
         Inbound(told, resets, q),
         UNCHANGED <<inbox, chan, rx, got, readVars>>
  PROVE  Inbound(Append(told, m), resets, q)'
<1>1. PICK p \in Place :
        Leads(told, resets, inbox, p, q) /\ Placed(told, resets, p)
  BY DEF Inbound
<1>2. Placed(told, resets, p)' /\ Received(told)' /\ RepliesPlainly'
  BY <1>1, Undisturbed DEF Inbound
<1>3. Leads(Append(told, m), resets, inbox', p, q)
  BY <1>1, LeadsStays
<1>4. Placed(Append(told, m), resets, p)'
  <2>1. p.n \in 1..Len(told) =>
          p.n \in 1..Len(Append(told, m)) /\ Append(told, m)[p.n] = told[p.n]
    OBVIOUS
  <2>2. p.o \in Nat
    BY DEF Place
  <2>3. Stays(told, resets, p)' => Stays(Append(told, m), resets, p)'
    BY <2>1, <2>2 DEF Stays
  <2> QED
    BY <1>2, <2>3 DEF Placed
<1>5. Received(Append(told, m))'
  BY <1>2 DEF Received, Matches
<1> QED
  BY <1>2, <1>3, <1>4, <1>5 DEF Inbound

\* TCP drops the end of what is under way.
LEMMA InboundReset ==
  ASSUME EndTypeOK, NEW told, NEW resets, NEW q,
         Inbound(told, resets, q), Reset, UNCHANGED <<chan, rx, got, readVars>>
  PROVE  \E r \in Place : Inbound(told, resets, r)'
<1>1. PICK p \in Place :
        Leads(told, resets, inbox, p, q) /\ Placed(told, resets, p)
  BY DEF Inbound
<1>2. PICK n \in 0..Len(inbox) : inbox' = SubSeq(inbox, 1, n)
  BY DEF Reset
<1>3. PICK r \in Place : Leads(told, resets, inbox', p, r)
  BY <1>1, <1>2, LeadsPartly DEF EndTypeOK, LinkTypeOK
<1> QED
  BY <1>1, <1>3, Undisturbed DEF Inbound

\* Before anything is said or written.
LEMMA CourseBegins ==
  ASSUME EndInit, inbox = <<>>, outbox = <<>>, NEW resets
  PROVE  /\ Inbound(<<>>, resets, At(1, 0, 0))
         /\ sent = <<>> /\ Outbound(At(1, 0, 0))
<1>1. At(1, 0, 0) \in Place /\ At(1, 0, 0) = [n |-> 1, w |-> 0, o |-> 0]
  BY DEF At, Place
<1>2. /\ pc = "read" /\ hand = None /\ frag = None /\ window = 0
      /\ chan = <<>> /\ got = <<>> /\ todo = <<>> /\ encoded = 0 /\ sent = <<>>
  BY DEF EndInit, LinkInit, ReadInit, WriteInit
<1>3. Len(<<>>) = 0
  OBVIOUS
<1>4. Placed(<<>>, resets, At(1, 0, 0)) /\ Received(<<>>) /\ RepliesPlainly
  BY <1>1, <1>2, <1>3
  DEF Placed, Stays, Received, Matches, Final, RepliesPlainly
<1>5. Leads(<<>>, resets, inbox, At(1, 0, 0), At(1, 0, 0))
  BY <1>1, LeadsNowhere
<1>6. Destination = At(1, 0, 0)
  BY <1>2, <1>3 DEF Destination
<1>7. Leads(sent, ResetsEncoder, todo, At(1, 0, 0), Destination)
  BY <1>1, <1>2, <1>6, LeadsNowhere
<1> QED
  BY <1>1, <1>2, <1>4, <1>5, <1>7 DEF Inbound, Outbound

(***************************************************************************)
(* Who is blamed for what: all that can go wrong between two ends with the *)
(* same limits is that the connection is lost.                             *)
(***************************************************************************)
Harmless(items) ==
  \A i \in 1..Len(items) : items[i] \in Failure => items[i] = Err("IOError")

Blameless ==
  /\ Harmless(got) /\ Harmless(chan)
  /\ pc = "fail" /\ rx # "dropped" => hand = Err("IOError")

LEMMA BlamelessStep ==
  ASSUME EndTypeOK, NEW told \in Seq(Spoken), NEW resets \in BOOLEAN,
         Follows(resets), NEW q, Inbound(told, resets, q),
         \A i \in 1..Len(told) : Sendable(told[i]), Blameless, EndNext
  PROVE  Blameless'
<1>1. PICK p \in Place :
        Leads(told, resets, inbox, p, q) /\ Placed(told, resets, p)
  BY DEF Inbound
<1>2. got \in Seq(Item) /\ chan \in Seq(Item) /\ LinkTypeOK
  BY DEF EndTypeOK, LinkTypeOK
<1>3. CASE Reading
  <2>1. UNCHANGED got
    BY <1>3 DEF Reading, userVars
  <2>2. CASE ReadFrame
    <3>1. pc' # "fail" /\ UNCHANGED <<chan, rx>>
      BY <1>1, <1>2, <2>2, NextRead DEF Read, ReadFrame
    <3> QED
      BY <2>1, <3>1 DEF Blameless, Harmless
  <2>3. CASE Disconnected \/ ReplyFails
    <3>1. hand' = Err("IOError") /\ UNCHANGED <<chan, rx>>
      BY <2>3 DEF Disconnected, EndOfInput, ReplyFails, Fail
    <3> QED
      BY <2>1, <3>1 DEF Blameless, Harmless
  <2>4. CASE DeliverRefused \/ LockForReply \/ WriteReply
    <3>1. /\ rx' = "dropped" \/ pc' # "fail"
          /\ UNCHANGED chan
      BY <2>4 DEF DeliverRefused, LockForReply, WriteReply, AfterReply
    <3> QED
      BY <2>1, <3>1 DEF Blameless, Harmless
  <2>5. CASE Deliver \/ ReportFailure
    <3>1. /\ pc' # "fail"
          /\ \/ chan' = chan
             \/ /\ chan' = Append(chan, hand)
                /\ hand \in Message \/ hand = Err("IOError")
      BY <1>2, <2>5
      DEF Deliver, ReportFailure, Queue, Blameless, EndTypeOK, ReadTypeOK,
        HandTypeOK
    <3>2. hand \in Message => hand \notin Failure
      BY DEF Message, Failure, Data
    <3>3. Harmless(chan')
      <4>1. CASE chan' = chan
        BY <4>1 DEF Blameless
      <4>2. CASE chan' = Append(chan, hand)
        <5>1. hand \in Failure => hand = Err("IOError")
          BY <2>5, <3>1, <3>2, <4>2
          DEF Deliver, ReportFailure, Queue, Blameless, EndTypeOK, ReadTypeOK,
            HandTypeOK
        <5>2. ASSUME NEW i \in 1..Len(Append(chan, hand)),
                     Append(chan, hand)[i] \in Failure
              PROVE  Append(chan, hand)[i] = Err("IOError")
          <6>1. i \in 1..Len(chan) => Append(chan, hand)[i] = chan[i]
            BY <1>2
          <6>2. i \notin 1..Len(chan) => Append(chan, hand)[i] = hand
            BY <1>2
          <6> QED
            BY <5>1, <5>2, <6>1, <6>2 DEF Blameless, Harmless
        <5> QED
          BY <4>2, <5>2 DEF Harmless
      <4> QED
        BY <3>1, <4>1, <4>2
    <3> QED
      BY <2>1, <3>1, <3>3 DEF Blameless, Harmless
  <2> QED
    BY <1>3, <2>2, <2>3, <2>4, <2>5 DEF Reading, ReadTask
<1>4. CASE Writing
  <2>1. UNCHANGED <<got, chan, rx, pc, hand>>
    BY <1>4
    DEF Writing, readVars, Call, SendMessage, SendLarge, SendPing,
      CloseConnection, Calls, WriteTask, LockForFrame, WriteFrame, FrameFails,
      CloseReturns, DropWriter
  <2> QED
    BY <2>1 DEF Blameless, Harmless
<1>5. CASE NextItem
  <2>1. /\ chan # <<>> /\ chan' = Tail(chan) /\ got' = Append(got, Head(chan))
        /\ UNCHANGED <<rx, pc, hand>>
    BY <1>5 DEF NextItem, readVars
  <2>2. ASSUME NEW i \in 1..Len(Tail(chan)), Tail(chan)[i] \in Failure
        PROVE  Tail(chan)[i] = Err("IOError")
    <3>1. i + 1 \in 1..Len(chan) /\ Tail(chan)[i] = chan[i + 1]
      BY <1>2, <2>1
    <3> QED
      BY <2>2, <3>1 DEF Blameless, Harmless
  <2>3. Head(chan) \in Failure => Head(chan) = Err("IOError")
    <3>1. 1 \in 1..Len(chan) /\ Head(chan) = chan[1]
      BY <1>2, <2>1, EmptySeq
    <3> QED
      BY <3>1 DEF Blameless, Harmless
  <2>4. ASSUME NEW i \in 1..Len(Append(got, Head(chan))),
               Append(got, Head(chan))[i] \in Failure
        PROVE  Append(got, Head(chan))[i] = Err("IOError")
    <3>1. i \in 1..Len(got) => Append(got, Head(chan))[i] = got[i]
      BY <1>2
    <3>2. i \notin 1..Len(got) => Append(got, Head(chan))[i] = Head(chan)
      BY <1>2
    <3> QED
      BY <2>3, <2>4, <3>1, <3>2 DEF Blameless, Harmless
  <2> QED
    BY <2>1, <2>2, <2>4 DEF Blameless, Harmless
<1>6. CASE NextNone \/ DropReader
  <2>1. /\ chan' = chan \/ chan' = <<>>
        /\ UNCHANGED <<got, pc, hand>>
        /\ rx' = "dropped" \/ rx # "dropped"
    BY <1>6 DEF NextNone, DropReader, MayRead, readVars
  <2> QED
    BY <2>1 DEF Blameless, Harmless
<1> QED
  BY <1>3, <1>4, <1>5, <1>6 DEF EndNext
=============================================================================
