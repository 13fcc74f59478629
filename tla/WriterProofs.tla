---------------------------- MODULE WriterProofs ----------------------------
(***************************************************************************)
(* The frames of one direction come out whole: Writer implements           *)
(* MessagePipe, for every number and size of frames and every size of the  *)
(* buffers, with a call dropped wherever it likes.                         *)
(***************************************************************************)
EXTENDS Writer, SequenceTheorems, TLAPS

Name == {"first", "length", "mask", "payload"}
AnyPart == [frame : Frame, name : Name]

\* How a frame is cut, as a value: kind never changes.
Cut == [f \in Frame |-> Parts(f)]

\* A way of cutting frames that a reader can undo.
Cutting(P) ==
    /\ P \in [Frame -> Seq(AnyPart)]
    /\ \A f \in Frame :
          /\ Len(P[f]) >= 2
          /\ P[f][2].name = "length"
          /\ \A i \in 1..Len(P[f]) :
                P[f][i].frame = f /\ (P[f][i].name = "first" <=> i = 1)

LEMMA CutCuts == kind \in {"Client", "Server"} => Cutting(Cut)
<1> SUFFICES ASSUME kind \in {"Client", "Server"} PROVE Cutting(Cut)
  OBVIOUS
<1> SUFFICES ASSUME NEW f \in Frame
             PROVE  /\ Parts(f) \in Seq(AnyPart)
                    /\ Len(Parts(f)) >= 2
                    /\ Parts(f)[2].name = "length"
                    /\ \A i \in 1..Len(Parts(f)) :
                          /\ Parts(f)[i].frame = f
                          /\ (Parts(f)[i].name = "first" <=> i = 1)
  <2>1. \A f \in Frame : Cut[f] = Parts(f)
    BY Zenon DEF Cut
  <2>2. (\A f \in Frame : Parts(f) \in Seq(AnyPart))
          => Cut \in [Frame -> Seq(AnyPart)]
    BY Zenon DEF Cut
  <2> QED
    BY <2>1, <2>2 DEF Cutting
<1>1. f.size \in Nat
  BY WriterAssumption DEF Frame
<1> DEFINE head == <<Part(f, "first"), Part(f, "length")>>
           Later(p) == p.frame = f /\ p.name # "first"
<1>2. /\ head \in Seq(AnyPart) /\ Len(head) = 2
      /\ head[1].frame = f /\ head[1].name = "first"
      /\ Later(head[2]) /\ head[2].name = "length"
  BY DEF Part, AnyPart, Name
<1>3. /\ Mask(f) \in Seq(AnyPart)
      /\ \A i \in 1..Len(Mask(f)) : Later(Mask(f)[i])
  <2>1. CASE kind = "Client"
    BY <2>1 DEF Mask, Part, AnyPart, Name
  <2>2. CASE kind # "Client"
    <3>1. Mask(f) = <<>>
      BY <2>2 DEF Mask
    <3> QED
      BY <3>1
  <2> QED
    BY <2>1, <2>2
<1>4. /\ Payload(f) \in Seq(AnyPart)
      /\ \A i \in 1..Len(Payload(f)) : Later(Payload(f)[i])
  <2>1. Part(f, "payload") \in AnyPart /\ Later(Part(f, "payload"))
    BY DEF Part, AnyPart, Name
  <2>2. /\ Payload(f) \in [1..f.size -> AnyPart]
        /\ \A i \in 1..f.size : Payload(f)[i] = Part(f, "payload")
    BY <2>1, Zenon DEF Payload
  <2>3. Payload(f) \in Seq(AnyPart)
    <3>1. Seq(AnyPart) = UNION {[1..n -> AnyPart] : n \in Nat}
      BY SeqDef
    <3> QED
      BY <2>2, <1>1, <3>1, Zenon
  <2>4. 1..Len(Payload(f)) = 1..f.size
    <3>1. DOMAIN Payload(f) = 1..Len(Payload(f))
      BY <2>3, LenProperties
    <3>2. DOMAIN Payload(f) = 1..f.size
      BY <2>2, Zenon
    <3> QED
      BY <3>1, <3>2, Zenon
  <2> QED
    BY <2>1, <2>2, <2>3, <2>4, Zenon
<1>5. Parts(f) = head \o Mask(f) \o Payload(f)
  BY DEF Parts
<1> HIDE DEF head, Later
<1>6. ASSUME NEW s \in Seq(AnyPart), Len(s) >= 2, s[1].frame = f,
             s[1].name = "first", s[2].name = "length",
             \A i \in 2..Len(s) : Later(s[i]),
             NEW t \in Seq(AnyPart), \A i \in 1..Len(t) : Later(t[i])
      PROVE  /\ s \o t \in Seq(AnyPart)
             /\ Len(s \o t) >= 2
             /\ (s \o t)[1].frame = f /\ (s \o t)[1].name = "first"
             /\ (s \o t)[2].name = "length"
             /\ \A i \in 2..Len(s \o t) : Later((s \o t)[i])
  <2> DEFINE u == s \o t
  <2>1. /\ u \in Seq(AnyPart)
        /\ Len(u) = Len(s) + Len(t)
        /\ \A i \in 1..Len(s) + Len(t) :
              u[i] = IF i <= Len(s) THEN s[i] ELSE t[i - Len(s)]
    BY <1>6, ConcatProperties
  <2>2. Len(s) \in Nat /\ Len(t) \in Nat
    BY <1>6, LenProperties
  <2> HIDE DEF u
  <2>3. u[1] = s[1] /\ u[2] = s[2] /\ Len(u) >= 2
    BY <2>1, <2>2, <1>6
  <2>4. \A i \in 2..Len(u) : Later(u[i])
    <3> TAKE i \in 2..Len(u)
    <3>1. CASE i <= Len(s)
      BY <3>1, <2>1, <2>2, <1>6
    <3>2. CASE ~(i <= Len(s))
      BY <3>2, <2>1, <2>2, <1>6
    <3> QED
      BY <3>1, <3>2
  <2> QED
    BY <2>1, <2>3, <2>4, <1>6 DEF u
<1> DEFINE front == head \o Mask(f)
<1>7. /\ front \in Seq(AnyPart) /\ Len(front) >= 2
      /\ front[1].frame = f /\ front[1].name = "first"
      /\ front[2].name = "length"
      /\ \A i \in 2..Len(front) : Later(front[i])
  <2>1. \A i \in 2..Len(head) : Later(head[i])
    BY <1>2
  <2>2. Len(head) >= 2
    BY <1>2
  <2> QED
    BY <1>2, <1>3, <1>6, <2>1, <2>2, Zenon
<1> HIDE DEF front
<1>8. Parts(f) = front \o Payload(f)
  BY <1>5 DEF front
<1>9. /\ Parts(f) \in Seq(AnyPart) /\ Len(Parts(f)) >= 2
      /\ Parts(f)[1].frame = f /\ Parts(f)[1].name = "first"
      /\ Parts(f)[2].name = "length"
      /\ \A i \in 2..Len(Parts(f)) : Later(Parts(f)[i])
  BY <1>7, <1>8, <1>4, <1>6
<1>10. Len(Parts(f)) \in Nat
  BY <1>9, LenProperties
<1> QED
  BY <1>9, <1>10 DEF Later

(***************************************************************************)
(* A stream begins with the parts of the frames fs, whose ends are at b.   *)
(***************************************************************************)
Framed(P, s, fs, b) ==
    /\ b \in [0..Len(fs) -> 0..Len(s)]
    /\ b[0] = 0
    /\ \A j, k \in 0..Len(fs) : j <= k => b[j] <= b[k]
    /\ \A k \in 1..Len(fs) :
          /\ b[k] = b[k - 1] + Len(P[fs[k]])
          /\ \A i \in 1..Len(P[fs[k]]) : s[b[k - 1] + i] = P[fs[k]][i]

\* ... and what follows them and what is still to be written, r, are one
\* frame, or nothing.
Continued(P, s, e, r) ==
    IF r = <<>> THEN Len(s) = e
    ELSE LET f == r[1].frame
             n == Len(s) - e
         IN /\ Len(P[f]) = n + Len(r)
            /\ \A i \in 1..n : s[e + i] = P[f][i]
            /\ \A i \in 1..Len(r) : r[i] = P[f][n + i]

IsCut(P, s, fs, r, ragged) ==
    \E b \in [0..Len(fs) -> 0..Len(s)] :
        /\ Framed(P, s, fs, b)
        /\ ~ragged => Continued(P, s, b[Len(fs)], r)

\* Nothing has been written.
LEMMA EmptyFramed ==
  ASSUME NEW P, NEW s \in Seq(AnyPart)
  PROVE  Framed(P, s, <<>>, [k \in 0..0 |-> 0])
BY DEF Framed

\* A part is written that does not end its frame, or after a tear.
LEMMA FramedGrows ==
  ASSUME NEW P, Cutting(P), NEW s \in Seq(AnyPart), NEW p \in AnyPart,
         NEW fs \in Seq(Frame), NEW b, Framed(P, s, fs, b)
  PROVE  Framed(P, Append(s, p), fs, b)
<1> DEFINE t == Append(s, p)
<1>1. Len(t) = Len(s) + 1 /\ \A i \in 1..Len(s) : t[i] = s[i]
  OBVIOUS
<1> HIDE DEF t
<1>2. b \in [0..Len(fs) -> 0..Len(t)]
  BY <1>1 DEF Framed
<1>3. ASSUME NEW k \in 1..Len(fs), NEW i \in 1..Len(P[fs[k]])
      PROVE  t[b[k - 1] + i] = P[fs[k]][i]
  <2>1. /\ fs[k] \in Frame /\ k - 1 \in 0..Len(fs) /\ k \in 0..Len(fs)
        /\ Len(P[fs[k]]) \in Nat
    BY DEF Cutting
  <2>2. b[k] \in 0..Len(s) /\ b[k - 1] \in 0..Len(s)
        /\ b[k] = b[k - 1] + Len(P[fs[k]])
    BY <2>1 DEF Framed
  <2>3. b[k - 1] + i \in 1..Len(s)
    BY <2>1, <2>2
  <2> QED
    BY <2>3, <1>1 DEF Framed
<1> QED
  BY <1>2, <1>3 DEF Framed, t

LEMMA ContinuedGrows ==
  ASSUME NEW P, Cutting(P), NEW s \in Seq(AnyPart), NEW e \in 0..Len(s),
         NEW r \in Seq(AnyPart), Len(r) > 1, Continued(P, s, e, r)
  PROVE  Continued(P, Append(s, Head(r)), e, Tail(r))
<1> DEFINE t == Append(s, r[1])
           q == Tail(r)
           f == r[1].frame
           n == Len(s) - e
<1>1. /\ Len(t) = Len(s) + 1 /\ \A i \in 1..Len(s) : t[i] = s[i]
      /\ t[Len(s) + 1] = r[1]
  OBVIOUS
<1>2. /\ Len(q) = Len(r) - 1 /\ q # <<>>
      /\ \A i \in 1..Len(q) : q[i] = r[i + 1]
  <2>1. Len(r) \in Nat /\ r # <<>>
    BY LenProperties, EmptySeq
  <2>2. /\ q \in Seq(AnyPart) /\ Len(q) = Len(r) - 1
        /\ \A i \in 1..Len(q) : q[i] = r[i + 1]
    BY <2>1, HeadTailProperties
  <2> HIDE DEF q
  <2> QED
    BY <2>1, <2>2, EmptySeq
<1>3. n \in Nat /\ f \in Frame /\ Len(P[f]) \in Nat
  <2>1. Len(s) \in Nat /\ e \in 0..Len(s)
    BY LenProperties
  <2>2. r[1] \in AnyPart
    BY ElementOfSeq, LenProperties
  <2>3. f \in Frame
    BY <2>2 DEF AnyPart
  <2> QED
    BY <2>1, <2>3, LenProperties DEF Cutting
<1>4. /\ Len(P[f]) = n + Len(r)
      /\ \A i \in 1..n : s[e + i] = P[f][i]
      /\ \A i \in 1..Len(r) : r[i] = P[f][n + i]
  BY DEF Continued
<1>5. q[1].frame = f
  <2>1. q[1] = P[f][n + 2]
    BY <1>2, <1>3, <1>4
  <2>2. n + 2 \in 1..Len(P[f])
    BY <1>3, <1>4
  <2> QED
    BY <2>1, <2>2, <1>3 DEF Cutting
<1> HIDE DEF t, q, f, n
<1>6. Len(t) - e = n + 1
  BY <1>1 DEF n
<1>7. \A i \in 1..(n + 1) : t[e + i] = P[f][i]
  <2> TAKE i \in 1..(n + 1)
  <2>1. CASE i = n + 1
    <3>1. e + i = Len(s) + 1
      BY <2>1 DEF n
    <3>2. r[1] = P[f][n + 1]
      BY <1>4, <1>3
    <3> QED
      BY <3>1, <3>2, <2>1, <1>1
  <2>2. CASE i \in 1..n
    <3>1. e + i \in 1..Len(s)
      BY <2>2 DEF n
    <3> QED
      BY <3>1, <2>2, <1>1, <1>4
  <2> QED
    BY <2>1, <2>2, <1>3
<1>8. \A i \in 1..Len(q) : q[i] = P[f][n + 1 + i]
  <2> TAKE i \in 1..Len(q)
  <2>1. i + 1 \in 1..Len(r) /\ n + (i + 1) = n + 1 + i
    BY <1>2, <1>3
  <2> QED
    BY <2>1, <1>2, <1>4
<1>9. Len(P[f]) = n + 1 + Len(q)
  BY <1>2, <1>3, <1>4
<1>10. Continued(P, t, e, q)
  BY <1>2, <1>5, <1>6, <1>7, <1>8, <1>9 DEF Continued
<1> QED
  BY <1>10 DEF t, q

\* The last part of a frame is written.
LEMMA FramedGains ==
  ASSUME NEW P, Cutting(P), NEW s \in Seq(AnyPart), NEW fs \in Seq(Frame),
         NEW b, Framed(P, s, fs, b), NEW p \in AnyPart,
         Continued(P, s, b[Len(fs)], <<p>>)
  PROVE  \E c : /\ Framed(P, Append(s, p), Append(fs, p.frame), c)
                /\ c[Len(fs) + 1] = Len(s) + 1
<1> DEFINE t == Append(s, p)
           f == p.frame
           gs == Append(fs, f)
           m == Len(fs)
           e == b[m]
           l == Len(s)
           c == [k \in 0..(m + 1) |-> IF k = m + 1 THEN Len(s) + 1 ELSE b[k]]
<1>1. /\ Len(t) = Len(s) + 1 /\ \A i \in 1..Len(s) : t[i] = s[i]
      /\ t[Len(s) + 1] = p
  OBVIOUS
<1>2. /\ m \in Nat /\ f \in Frame /\ gs \in Seq(Frame) /\ Len(gs) = m + 1
      /\ gs[m + 1] = f /\ \A k \in 1..m : gs[k] = fs[k]
  BY DEF AnyPart
<1>3. /\ e \in 0..l /\ l \in Nat
      /\ \A k \in 0..m : b[k] \in 0..l /\ b[k] <= e
  <2>1. /\ b \in [0..m -> 0..l]
        /\ \A j, k \in 0..m : j <= k => b[j] <= b[k]
    BY DEF Framed
  <2>2. m \in 0..m /\ l \in Nat
    BY <1>2, LenProperties
  <2> HIDE DEF m, l
  <2> QED
    BY <2>1, <2>2, <1>2
<1>4. /\ Len(P[f]) = (l - e) + 1
      /\ \A i \in 1..(l - e) : s[e + i] = P[f][i]
      /\ p = P[f][(l - e) + 1]
  BY DEF Continued
<1>5. Framed(P, t, fs, b)
  BY FramedGrows
<1>d. /\ \A j, k \in 0..m : j <= k => b[j] <= b[k]
      /\ b[0] = 0
      /\ \A k \in 1..m :
          /\ b[k] = b[k - 1] + Len(P[fs[k]])
          /\ \A i \in 1..Len(P[fs[k]]) : t[b[k - 1] + i] = P[fs[k]][i]
  BY <1>5 DEF Framed
<1>t. Len(t) = l + 1 /\ (\A i \in 1..l : t[i] = s[i]) /\ t[l + 1] = p
  BY <1>1
<1> HIDE DEF t, gs, m, e, l, f
<1>c. /\ c \in [0..(m + 1) -> 0..(l + 1)] /\ c[m + 1] = l + 1
      /\ \A k \in 0..m : c[k] = b[k]
  <2>1. \A k \in 0..(m + 1) : k # m + 1 => k \in 0..m
    BY <1>2
  <2>2. \A k \in 0..m : k # m + 1 /\ k \in 0..(m + 1)
    BY <1>2
  <2>3. m + 1 \in 0..(m + 1)
    BY <1>2
  <2>4. \A k \in 0..(m + 1) :
           (IF k = m + 1 THEN Len(s) + 1 ELSE b[k]) \in 0..(l + 1)
    BY <1>2, <1>3, <2>1 DEF l
  <2> QED
    BY <2>2, <2>3, <2>4, Zenon DEF l
<1> HIDE DEF c
<1>6. c[0] = 0
  BY <1>c, <1>2, <1>d
<1>7. \A j, k \in 0..(m + 1) : j <= k => c[j] <= c[k]
  <2> TAKE j, k \in 0..(m + 1)
  <2> HAVE j <= k
  <2>1. CASE k = m + 1 /\ j = m + 1
    BY <2>1, <1>c, <1>3
  <2>2. CASE k = m + 1 /\ j \in 0..m
    <3>1. c[j] = b[j] /\ b[j] \in 0..l /\ c[k] = l + 1
      BY <2>2, <1>c, <1>3
    <3> QED
      BY <3>1, <1>3
  <2>3. CASE k \in 0..m
    <3>1. j \in 0..m
      BY <2>3, <1>2
    <3> QED
      BY <3>1, <2>3, <1>c, <1>d
  <2> QED
    BY <2>1, <2>2, <2>3, <1>2
<1>8. ASSUME NEW k \in 1..(m + 1)
      PROVE  /\ c[k] = c[k - 1] + Len(P[gs[k]])
             /\ \A i \in 1..Len(P[gs[k]]) : t[c[k - 1] + i] = P[gs[k]][i]
  <2>1. CASE k = m + 1
    <3>1. c[k - 1] = b[m] /\ c[k] = l + 1 /\ gs[k] = f
      <4>1. k - 1 = m /\ m \in 0..m
        BY <2>1, <1>2
      <4> QED
        BY <4>1, <2>1, <1>c, <1>2
    <3>e. c[k - 1] = e
      BY <3>1 DEF e
    <3>2. \A i \in 1..Len(P[f]) : t[e + i] = P[f][i]
      <4> TAKE i \in 1..Len(P[f])
      <4>1. CASE i = (l - e) + 1
        <5>1. e + i = l + 1
          BY <4>1, <1>3
        <5> QED
          BY <5>1, <4>1, <1>t, <1>4
      <4>2. CASE i \in 1..(l - e)
        <5>1. e + i \in 1..l
          BY <4>2, <1>3
        <5> QED
          BY <5>1, <4>2, <1>t, <1>4
      <4> QED
        BY <4>1, <4>2, <1>3, <1>4
    <3>3. l + 1 = e + Len(P[f])
      BY <1>3, <1>4
    <3> QED
      BY <3>1, <3>e, <3>2, <3>3
  <2>2. CASE k \in 1..m
    <3>0. k \in 0..m /\ k - 1 \in 0..m
      BY <2>2, <1>2
    <3>1. c[k] = b[k] /\ c[k - 1] = b[k - 1] /\ gs[k] = fs[k]
      BY <3>0, <2>2, <1>c, <1>2
    <3> QED
      BY <3>1, <2>2, <1>d
  <2> QED
    BY <2>1, <2>2, <1>2
<1>9. Framed(P, t, gs, c)
  BY <1>c, <1>6, <1>7, <1>8, <1>2, <1>t, Zenon DEF Framed
<1> QED
  BY <1>9, <1>c DEF t, gs, m, l, f

\* The first frame is read.
LEMMA FramedLoses ==
  ASSUME NEW P, Cutting(P), NEW s \in Seq(AnyPart), NEW fs \in Seq(Frame),
         NEW b, Framed(P, s, fs, b), fs # <<>>,
         NEW t \in Seq(AnyPart), Len(t) = Len(s) - Len(P[fs[1]]),
         \A i \in 1..Len(t) : t[i] = s[Len(P[fs[1]]) + i]
  PROVE  \E c : /\ Framed(P, t, Tail(fs), c)
                /\ c[Len(fs) - 1] = b[Len(fs)] - Len(P[fs[1]])
<1> DEFINE m == Len(fs)
           l == Len(s)
           d == Len(P[fs[1]])
           gs == Tail(fs)
           c == [k \in 0..(m - 1) |-> b[k + 1] - d]
<1>1. /\ m \in Nat \ {0} /\ gs \in Seq(Frame) /\ Len(gs) = m - 1
      /\ \A k \in 1..(m - 1) : gs[k] = fs[k + 1]
  BY HeadTailProperties, EmptySeq
<1>a. \A k \in 1..m : fs[k] \in Frame
  BY ElementOfSeq
<1>b. \A k \in 1..m : Len(P[fs[k]]) \in Nat
  <2>1. \A f \in Frame : Len(P[f]) \in Nat
    BY LenProperties DEF Cutting
  <2> QED
    BY <2>1, <1>a
<1>d. /\ b \in [0..m -> 0..l]
      /\ \A j, k \in 0..m : j <= k => b[j] <= b[k]
      /\ b[0] = 0
      /\ \A k \in 1..m :
          /\ b[k] = b[k - 1] + Len(P[fs[k]])
          /\ \A i \in 1..Len(P[fs[k]]) : s[b[k - 1] + i] = P[fs[k]][i]
  BY DEF Framed
<1>l. l \in Nat /\ Len(t) = l - d
  BY LenProperties
<1>dn. d \in Nat
  BY <1>1, <1>b
<1>t. \A i \in 1..Len(t) : t[i] = s[d + i]
  OBVIOUS
<1>2. b[1] = d /\ \A k \in 1..m : b[k] \in d..l
  <2>1. 1 \in 1..m /\ 1 - 1 = 0 /\ 1 \in 0..m
    BY <1>1
  <2>2. b[1] = b[0] + d
    BY <2>1, <1>d, Zenon
  <2>3. b[1] = d
    BY <2>2, <1>d, <1>dn
  <2> HIDE DEF m, l, d
  <2> QED
    BY <2>1, <2>3, <1>d, <1>l, <1>dn, <1>1
<1> HIDE DEF m, l, d, gs
<1>c. /\ c \in [0..(m - 1) -> 0..(l - d)]
      /\ \A k \in 0..(m - 1) : c[k] = b[k + 1] - d
  <2>1. \A k \in 0..(m - 1) : b[k + 1] - d \in 0..(l - d)
    <3> TAKE k \in 0..(m - 1)
    <3>1. b[k + 1] \in d..l
      BY <1>2, <1>1
    <3> QED
      BY <3>1, <1>l, <1>dn
  <2> QED
    BY <2>1, Zenon
<1> HIDE DEF c
<1>3. c[0] = 0
  BY <1>c, <1>2, <1>1, <1>dn
<1>4. \A j, k \in 0..(m - 1) : j <= k => c[j] <= c[k]
  <2> TAKE j, k \in 0..(m - 1)
  <2> HAVE j <= k
  <2>1. /\ j + 1 \in 0..m /\ k + 1 \in 0..m /\ j + 1 <= k + 1
        /\ j + 1 \in 1..m /\ k + 1 \in 1..m
    BY <1>1
  <2>2. b[j + 1] <= b[k + 1]
    BY <2>1, <1>d
  <2>3. b[j + 1] \in d..l /\ b[k + 1] \in d..l
    BY <2>1, <1>2
  <2> QED
    BY <2>2, <2>3, <1>c, <1>dn, <1>l
<1>5. ASSUME NEW k \in 1..(m - 1)
      PROVE  /\ c[k] = c[k - 1] + Len(P[gs[k]])
             /\ \A i \in 1..Len(P[gs[k]]) : t[c[k - 1] + i] = P[gs[k]][i]
  <2> DEFINE h == k + 1
  <2>1. /\ h \in 1..m /\ h - 1 = k /\ k \in 0..(m - 1) /\ k \in 1..m
        /\ k - 1 \in 0..(m - 1) /\ (k - 1) + 1 = k
    BY <1>1
  <2>2. gs[k] = fs[h]
    BY <1>1
  <2>3. c[k] = b[h] - d /\ c[k - 1] = b[k] - d
    BY <2>1, <1>c
  <2>4. b[h] \in d..l /\ b[k] \in d..l /\ Len(P[fs[h]]) \in Nat
    BY <2>1, <1>2, <1>b
  <2>5. /\ b[h] = b[k] + Len(P[fs[h]])
        /\ \A i \in 1..Len(P[fs[h]]) : s[b[k] + i] = P[fs[h]][i]
    BY <2>1, <1>d
  <2> HIDE DEF h
  <2>6. c[k] = c[k - 1] + Len(P[gs[k]])
    BY <2>2, <2>3, <2>4, <2>5, <1>dn, <1>l
  <2>7. \A i \in 1..Len(P[gs[k]]) : t[c[k - 1] + i] = P[gs[k]][i]
    <3> TAKE i \in 1..Len(P[gs[k]])
    <3>0. /\ i \in 1..Len(P[fs[h]]) /\ b[h] = b[k] + Len(P[fs[h]])
          /\ c[k - 1] = b[k] - d
      BY <2>2, <2>3, <2>5
    <3>1. /\ c[k - 1] + i \in 1..(l - d)
          /\ d + (c[k - 1] + i) = b[k] + i
      <4> DEFINE x == b[k]
                 y == b[h]
                 z == Len(P[fs[h]])
                 w == c[k - 1]
      <4>1. /\ x \in d..l /\ y \in d..l /\ z \in Nat /\ i \in 1..z
            /\ y = x + z /\ w = x - d
        BY <3>0, <2>4
      <4> HIDE DEF x, y, z, w
      <4>2. w + i \in 1..(l - d) /\ d + (w + i) = x + i
        BY <4>1, <1>dn, <1>l
      <4> QED
        BY <4>2 DEF x, w
    <3>2. t[c[k - 1] + i] = s[b[k] + i]
      BY <3>1, <1>t, <1>l
    <3> QED
      BY <3>2, <2>2, <2>5
  <2> QED
    BY <2>6, <2>7
<1>6. Framed(P, t, gs, c)
  BY <1>c, <1>3, <1>4, <1>5, <1>1, <1>l, Zenon DEF Framed
<1>7. c[m - 1] = b[m] - d
  <2>1. m - 1 \in 0..(m - 1) /\ (m - 1) + 1 = m
    BY <1>1
  <2> QED
    BY <2>1, <1>c
<1> QED
  BY <1>6, <1>7 DEF gs, m, d

(***************************************************************************)
(* What becomes of a stream that is cut into frames.                       *)
(***************************************************************************)
LEMMA CutBy ==
  ASSUME NEW P, NEW s \in Seq(AnyPart), NEW fs \in Seq(Frame), NEW r,
         NEW ragged, NEW b, Framed(P, s, fs, b),
         ~ragged => Continued(P, s, b[Len(fs)], r)
  PROVE  IsCut(P, s, fs, r, ragged)
BY DEF IsCut, Framed

\* After a tear only whole frames count, whatever else is written.
LEMMA CutTorn ==
  ASSUME NEW P, Cutting(P), NEW s \in Seq(AnyPart), NEW fs \in Seq(Frame),
         NEW r, NEW ragged, IsCut(P, s, fs, r, ragged), NEW q,
         NEW p \in AnyPart
  PROVE  IsCut(P, s, fs, q, TRUE) /\ IsCut(P, Append(s, p), fs, q, TRUE)
<1>1. PICK b : Framed(P, s, fs, b)
  BY DEF IsCut
<1>2. Framed(P, Append(s, p), fs, b) /\ Append(s, p) \in Seq(AnyPart)
  BY <1>1, FramedGrows, AppendProperties
<1> QED
  BY <1>1, <1>2, CutBy

LEMMA TornCut ==
  ASSUME NEW P, NEW s \in Seq(AnyPart), NEW r
  PROVE  IsCut(P, s, <<>>, r, TRUE)
<1>1. Framed(P, s, <<>>, [k \in 0..0 |-> 0]) /\ <<>> \in Seq(Frame)
  BY EmptyFramed
<1> QED
  BY <1>1, CutBy

LEMMA CutEmpty == ASSUME NEW P PROVE IsCut(P, <<>>, <<>>, <<>>, FALSE)
<1> DEFINE b == [k \in 0..0 |-> 0]
<1>1. Framed(P, <<>>, <<>>, b) /\ <<>> \in Seq(Frame) /\ <<>> \in Seq(AnyPart)
  BY EmptyFramed, EmptySeq
<1>2. b[Len(<<>>)] = 0
  BY EmptySeq
<1> HIDE DEF b
<1>3. Continued(P, <<>>, b[Len(<<>>)], <<>>)
  BY <1>2 DEF Continued
<1> QED
  BY <1>1, <1>3, CutBy

LEMMA CutBegins ==
  ASSUME NEW P, Cutting(P), NEW s \in Seq(AnyPart), NEW fs \in Seq(Frame),
         NEW ragged, IsCut(P, s, fs, <<>>, ragged), NEW f \in Frame
  PROVE  IsCut(P, s, fs, P[f], ragged)
<1>1. PICK b : /\ Framed(P, s, fs, b)
               /\ ~ragged => Len(s) = b[Len(fs)]
  BY DEF IsCut, Continued
<1>2. /\ P[f] \in Seq(AnyPart) /\ Len(P[f]) \in Nat /\ Len(P[f]) >= 2
      /\ P[f] # <<>> /\ P[f][1].frame = f
  <2>1. P[f] \in Seq(AnyPart) /\ Len(P[f]) \in Nat /\ Len(P[f]) >= 2
    BY LenProperties DEF Cutting
  <2> QED
    BY <2>1, EmptySeq DEF Cutting
<1>3. Continued(P, s, Len(s), P[f])
  <2>1. Len(s) \in Nat /\ Len(s) - Len(s) = 0
    BY LenProperties
  <2> QED
    BY <1>2, <2>1 DEF Continued
<1> QED
  BY <1>1, <1>3, CutBy

LEMMA CutGrows ==
  ASSUME NEW P, Cutting(P), NEW s \in Seq(AnyPart), NEW fs \in Seq(Frame),
         NEW r \in Seq(AnyPart), Len(r) > 1, NEW ragged,
         IsCut(P, s, fs, r, ragged)
  PROVE  IsCut(P, Append(s, Head(r)), fs, Tail(r), ragged)
<1>1. PICK b : /\ Framed(P, s, fs, b)
               /\ ~ragged => Continued(P, s, b[Len(fs)], r)
  BY DEF IsCut
<1>2. Head(r) \in AnyPart
  BY HeadTailProperties, EmptySeq
<1>3. Framed(P, Append(s, Head(r)), fs, b) /\ Append(s, Head(r)) \in Seq(AnyPart)
  BY <1>1, <1>2, FramedGrows, AppendProperties
<1>4. b[Len(fs)] \in 0..Len(s)
  BY <1>1, LenProperties DEF Framed
<1>5. ~ragged => Continued(P, Append(s, Head(r)), b[Len(fs)], Tail(r))
  BY <1>1, <1>4, ContinuedGrows
<1> QED
  BY <1>3, <1>5, CutBy

LEMMA CutGains ==
  ASSUME NEW P, Cutting(P), NEW s \in Seq(AnyPart), NEW fs \in Seq(Frame),
         NEW p \in AnyPart, IsCut(P, s, fs, <<p>>, FALSE)
  PROVE  IsCut(P, Append(s, p), Append(fs, p.frame), <<>>, FALSE)
<1>1. PICK b : Framed(P, s, fs, b) /\ Continued(P, s, b[Len(fs)], <<p>>)
  BY DEF IsCut
<1>2. PICK c : /\ Framed(P, Append(s, p), Append(fs, p.frame), c)
               /\ c[Len(fs) + 1] = Len(s) + 1
  BY <1>1, FramedGains
<1>3. /\ Append(s, p) \in Seq(AnyPart) /\ Len(Append(s, p)) = Len(s) + 1
      /\ Append(fs, p.frame) \in Seq(Frame)
      /\ Len(Append(fs, p.frame)) = Len(fs) + 1
  BY AppendProperties DEF AnyPart
<1>4. Continued(P, Append(s, p), c[Len(Append(fs, p.frame))], <<>>)
  BY <1>2, <1>3 DEF Continued
<1> QED
  BY <1>2, <1>3, <1>4, CutBy

\* A call that has written nothing of its frame leaves nothing behind.
LEMMA CutDropped ==
  ASSUME NEW P, Cutting(P), NEW s \in Seq(AnyPart), NEW fs \in Seq(Frame),
         NEW r \in Seq(AnyPart), r # <<>>, r[1].name = "first",
         NEW ragged, IsCut(P, s, fs, r, ragged)
  PROVE  IsCut(P, s, fs, <<>>, ragged)
<1>1. PICK b : /\ Framed(P, s, fs, b)
               /\ ~ragged => Continued(P, s, b[Len(fs)], r)
  BY DEF IsCut
<1> DEFINE e == b[Len(fs)]
<1>2. /\ e \in 0..Len(s) /\ Len(s) \in Nat
      /\ Len(r) \in Nat \ {0} /\ r[1].frame \in Frame
  <2>1. Len(r) \in Nat \ {0}
    BY EmptySeq
  <2>2. r[1] \in AnyPart
    BY <2>1, ElementOfSeq
  <2> QED
    BY <1>1, <2>1, <2>2, LenProperties DEF Framed, AnyPart
<1>3. ASSUME ~ragged PROVE Continued(P, s, e, <<>>)
  <2> DEFINE f == r[1].frame
             n == Len(s) - e
  <2>1. /\ Len(P[f]) = n + Len(r)
        /\ \A i \in 1..Len(r) : r[i] = P[f][n + i]
    BY <1>1, <1>3 DEF Continued
  <2>2. n \in Nat /\ f \in Frame
    BY <1>2
  <2> HIDE DEF n, f, e
  <2>3. r[1] = P[f][n + 1] /\ n + 1 \in 1..Len(P[f])
    BY <1>2, <2>1, <2>2
  <2>4. n + 1 = 1
    BY <2>2, <2>3 DEF Cutting
  <2>5. Len(s) = e
    BY <2>4, <2>2, <1>2 DEF n
  <2> QED
    BY <2>5 DEF Continued
<1> QED
  BY <1>1, <1>3, CutBy

\* The stream begins with its first frame ...
LEMMA CutFirst ==
  ASSUME NEW P, Cutting(P), NEW s \in Seq(AnyPart), NEW fs \in Seq(Frame),
         NEW r, NEW ragged, IsCut(P, s, fs, r, ragged), fs # <<>>
  PROVE  /\ fs[1] \in Frame
         /\ Len(P[fs[1]]) <= Len(s)
         /\ \A i \in 1..Len(P[fs[1]]) : s[i] = P[fs[1]][i]
<1>1. PICK b : Framed(P, s, fs, b)
  BY DEF IsCut
<1>2. /\ Len(fs) \in Nat \ {0} /\ fs[1] \in Frame /\ Len(s) \in Nat
      /\ Len(P[fs[1]]) \in Nat
  <2>1. Len(fs) \in Nat \ {0}
    BY EmptySeq
  <2>2. fs[1] \in Frame
    BY <2>1, ElementOfSeq
  <2> QED
    BY <2>1, <2>2, LenProperties DEF Cutting
<1>3. 1 \in 1..Len(fs) /\ 1 \in 0..Len(fs) /\ 1 - 1 = 0
  BY <1>2
<1>4. /\ b[1] = b[0] + Len(P[fs[1]]) /\ b[0] = 0 /\ b[1] \in 0..Len(s)
      /\ \A i \in 1..Len(P[fs[1]]) : s[b[0] + i] = P[fs[1]][i]
  <2>1. b[1] \in 0..Len(s) /\ b[0] = 0
    BY <1>1, <1>3 DEF Framed
  <2>2. /\ b[1] = b[1 - 1] + Len(P[fs[1]])
        /\ \A i \in 1..Len(P[fs[1]]) : s[b[1 - 1] + i] = P[fs[1]][i]
    BY <1>1, <1>3, Zenon DEF Framed
  <2> QED
    BY <2>1, <2>2, <1>3
<1> QED
  BY <1>2, <1>4

\* ... or, if it has none, with what has been written of the next.
LEMMA CutPending ==
  ASSUME NEW P, Cutting(P), NEW s \in Seq(AnyPart), NEW r \in Seq(AnyPart),
         IsCut(P, s, <<>>, r, FALSE), s # <<>>
  PROVE  \E f \in Frame : /\ Len(s) < Len(P[f])
                          /\ \A i \in 1..Len(s) : s[i] = P[f][i]
<1>1. PICK b : Framed(P, s, <<>>, b) /\ Continued(P, s, b[Len(<<>>)], r)
  BY DEF IsCut
<1>2. b[Len(<<>>)] = 0
  BY <1>1, EmptySeq DEF Framed
<1>3. Len(s) \in Nat \ {0}
  BY EmptySeq
<1>4. r # <<>>
  BY <1>1, <1>2, <1>3 DEF Continued
<1>5. Len(r) \in Nat \ {0}
  BY <1>4, EmptySeq
<1>6. r[1].frame \in Frame
  <2>1. r[1] \in AnyPart
    BY <1>5, ElementOfSeq
  <2> QED
    BY <2>1 DEF AnyPart
<1> DEFINE f == r[1].frame
           n == Len(s) - 0
<1>7. /\ Len(P[f]) = n + Len(r)
      /\ \A i \in 1..n : s[0 + i] = P[f][i]
  BY <1>1, <1>2, <1>4 DEF Continued
<1>8. n = Len(s)
  BY <1>3
<1> HIDE DEF f, n
<1>9. /\ Len(s) < Len(P[f])
      /\ \A i \in 1..Len(s) : s[i] = P[f][i]
  BY <1>3, <1>5, <1>7, <1>8
<1> QED
  BY <1>6, <1>9 DEF f

\* The first frame is taken from it.
LEMMA CutLoses ==
  ASSUME NEW P, Cutting(P), NEW s \in Seq(AnyPart), NEW fs \in Seq(Frame),
         NEW r, NEW ragged, IsCut(P, s, fs, r, ragged), fs # <<>>,
         NEW t \in Seq(AnyPart), Len(t) = Len(s) - Len(P[fs[1]]),
         \A i \in 1..Len(t) : t[i] = s[Len(P[fs[1]]) + i]
  PROVE  IsCut(P, t, Tail(fs), r, ragged)
<1>1. PICK b : /\ Framed(P, s, fs, b)
               /\ ~ragged => Continued(P, s, b[Len(fs)], r)
  BY DEF IsCut
<1> DEFINE d == Len(P[fs[1]])
           e == b[Len(fs)]
<1>2. PICK c : /\ Framed(P, t, Tail(fs), c)
               /\ c[Len(fs) - 1] = e - d
  BY <1>1, FramedLoses
<1>3. /\ Tail(fs) \in Seq(Frame) /\ Len(Tail(fs)) = Len(fs) - 1
      /\ Len(fs) \in Nat \ {0} /\ Len(s) \in Nat /\ Len(t) \in Nat
      /\ d \in Nat
  <2>1. /\ Tail(fs) \in Seq(Frame) /\ Len(Tail(fs)) = Len(fs) - 1
        /\ Len(fs) \in Nat \ {0}
    BY HeadTailProperties, EmptySeq
  <2>2. fs[1] \in Frame
    BY <2>1, ElementOfSeq
  <2> QED
    BY <2>1, <2>2, LenProperties DEF Cutting
<1>4. e \in 0..Len(s) /\ e - d \in 0..Len(t)
  <2>1. e \in 0..Len(s)
    BY <1>1, <1>3 DEF Framed
  <2>2. c[Len(fs) - 1] \in 0..Len(t)
    <3> DEFINE m == Len(fs) - 1
    <3>1. c \in [0..m -> 0..Len(t)] /\ m \in 0..m
      BY <1>2, <1>3 DEF Framed
    <3> HIDE DEF m
    <3>2. c[m] \in 0..Len(t)
      BY <3>1
    <3> QED
      BY <3>2 DEF m
  <2> QED
    BY <2>1, <2>2, <1>2
<1>5. /\ Len(t) - (e - d) = Len(s) - e
      /\ \A i \in 1..(Len(s) - e) : t[(e - d) + i] = s[e + i]
  <2> DEFINE l == Len(s)
             k == Len(t)
  <2>1. /\ l \in Nat /\ k \in Nat /\ d \in Nat /\ k = l - d
        /\ e \in 0..l /\ e - d \in 0..k
        /\ \A i \in 1..k : t[i] = s[d + i]
    BY <1>3, <1>4
  <2> HIDE DEF l, k, d, e
  <2>2. k - (e - d) = l - e
    BY <2>1
  <2>3. ASSUME NEW i \in 1..(l - e) PROVE t[(e - d) + i] = s[e + i]
    <3>1. (e - d) + i \in 1..k /\ d + ((e - d) + i) = e + i
      BY <2>1
    <3> QED
      BY <3>1, <2>1
  <2> QED
    BY <2>2, <2>3 DEF l, k
<1>6. ASSUME ~ragged PROVE Continued(P, t, e - d, r)
  <2>1. Continued(P, s, e, r)
    BY <1>1, <1>6
  <2>2. CASE r = <<>>
    BY <2>1, <2>2, <1>3, <1>4, <1>5 DEF Continued
  <2>3. CASE r # <<>>
    <3> DEFINE f == r[1].frame
               n == Len(s) - e
    <3>1. /\ Len(P[f]) = n + Len(r)
          /\ \A i \in 1..n : s[e + i] = P[f][i]
          /\ \A i \in 1..Len(r) : r[i] = P[f][n + i]
      BY <2>1, <2>3 DEF Continued
    <3>2. /\ Len(t) - (e - d) = n
          /\ \A i \in 1..n : t[(e - d) + i] = s[e + i]
      BY <1>5
    <3> HIDE DEF n, d, e
    <3>3. \A i \in 1..n : t[(e - d) + i] = P[f][i]
      BY <3>1, <3>2
    <3> QED
      BY <2>3, <3>1, <3>2, <3>3, Zenon DEF Continued
  <2> QED
    BY <2>2, <2>3
<1>7. ~ragged => Continued(P, t, c[Len(Tail(fs))], r)
  BY <1>2, <1>3, <1>6
<1> QED
  BY <1>2, <1>3, <1>7, CutBy

(***************************************************************************)
(* The inductive invariant.                                                *)
(***************************************************************************)

\* What has not made a frame yet, and the frames the other end is to make
\* of it.
Stream == (taken \o wire) \o buffer
Due == SubSeq(sent, Len(got) + 1, Len(sent))
Pending == IF lock = "free" THEN <<>> ELSE rest[lock]

TypeInv ==
    /\ kind \in {"Client", "Server"} /\ secure \in BOOLEAN
    /\ torn \in BOOLEAN
    /\ lock \in Task \cup {"free"}
    /\ begun \in [Task -> 0..MaxFrames]
    /\ rest \in [Task -> Seq(AnyPart)]
    /\ taken \in Seq(AnyPart) /\ wire \in Seq(AnyPart)
    /\ buffer \in Seq(AnyPart)
    /\ sent \in Seq(Frame) /\ got \in Seq(Frame \cup {Garbage})

\* Only a TLS stream holds anything back.
BufferInv == Len(wire) <= TcpCap /\ (~secure => buffer = <<>>)

\* The mutex is with the task that has begun a frame.
LockInv == \A t \in Task : lock = t <=> rest[t] # <<>>

GotInv ==
    /\ ~torn => Len(got) <= Len(sent)
    /\ \A i \in 1..Len(got) : i <= Len(sent) => got[i] = sent[i]

\* As long as a frame is due, the reader is inside it and knows its length.
TakenInv ==
    (Due # <<>> \/ ~torn) /\ taken # <<>>
        => /\ Len(taken) < Len(Cut[taken[1].frame])
           /\ Len(taken) >= 2 => need = Len(Cut[taken[1].frame])

StreamInv == IsCut(Cut, Stream, Due, Pending, torn)

StreamsInv == BufferInv /\ LockInv /\ GotInv /\ TakenInv /\ StreamInv

LEMMA StreamType ==
  ASSUME TypeInv
  PROVE  /\ Stream \in Seq(AnyPart)
         /\ Len(Stream) = Len(taken) + Len(wire) + Len(buffer)
         /\ Len(taken) \in Nat /\ Len(wire) \in Nat /\ Len(buffer) \in Nat
<1>1. taken \in Seq(AnyPart) /\ wire \in Seq(AnyPart) /\ buffer \in Seq(AnyPart)
  BY DEF TypeInv
<1>2. /\ taken \o wire \in Seq(AnyPart)
      /\ Len(taken \o wire) = Len(taken) + Len(wire)
  BY <1>1, ConcatProperties
<1>3. /\ Stream \in Seq(AnyPart)
      /\ Len(Stream) = Len(taken \o wire) + Len(buffer)
  BY <1>1, <1>2, ConcatProperties DEF Stream
<1> QED
  BY <1>1, <1>2, <1>3, LenProperties

\* What is left of a sequence after its first n elements.
LEMMA AfterType ==
  ASSUME NEW s \in Seq(Frame), NEW n \in Nat
  PROVE  LET rem == SubSeq(s, n + 1, Len(s))
         IN /\ rem \in Seq(Frame)
            /\ Len(rem) = IF n < Len(s) THEN Len(s) - n ELSE 0
            /\ \A i \in 1..Len(rem) : rem[i] = s[n + i]
            /\ Len(s) \in Nat
<1> DEFINE m == n + 1
           l == Len(s)
<1>1. l \in Nat
  BY LenProperties
<1>2. m \in Int /\ l \in Int /\ \A i \in m..l : s[i] \in Frame
  BY <1>1, ElementOfSeq
<1> DEFINE rem == SubSeq(s, m, l)
<1>3. /\ rem \in Seq(Frame)
      /\ Len(rem) = IF m <= l THEN l - m + 1 ELSE 0
      /\ \A i \in 1..(l - m + 1) : rem[i] = s[m + i - 1]
  BY <1>2, SubSeqProperties
<1> HIDE DEF rem, l
<1>4. /\ Len(rem) = IF n < l THEN l - n ELSE 0
      /\ \A i \in 1..Len(rem) : rem[i] = s[n + i]
  BY <1>1, <1>3
<1> QED
  BY <1>1, <1>3, <1>4 DEF rem, l

LEMMA DueType ==
  ASSUME TypeInv
  PROVE  /\ Due \in Seq(Frame)
         /\ Len(Due) = IF Len(got) < Len(sent) THEN Len(sent) - Len(got) ELSE 0
         /\ \A i \in 1..Len(Due) : Due[i] = sent[Len(got) + i]
         /\ Len(got) \in Nat /\ Len(sent) \in Nat
<1>1. /\ sent \in Seq(Frame) /\ got \in Seq(Frame \cup {Garbage})
      /\ Len(got) \in Nat
  BY LenProperties DEF TypeInv
<1> QED
  BY <1>1, AfterType DEF Due

LEMMA DueGains ==
  ASSUME TypeInv, NEW f \in Frame, sent' = Append(sent, f), got' = got,
         Len(got) <= Len(sent)
  PROVE  Due' = Append(Due, f)
<1>1. /\ sent \in Seq(Frame) /\ sent' \in Seq(Frame)
      /\ Len(got) \in Nat /\ Len(sent) \in Nat
      /\ Len(sent') = Len(sent) + 1 /\ sent'[Len(sent) + 1] = f
      /\ \A i \in 1..Len(sent) : sent'[i] = sent[i]
  BY DueType, AppendProperties DEF TypeInv
<1>3. /\ Due' \in Seq(Frame)
      /\ Len(Due') = IF Len(got) < Len(sent') THEN Len(sent') - Len(got) ELSE 0
      /\ \A i \in 1..Len(Due') : Due'[i] = sent'[Len(got) + i]
  BY <1>1, AfterType DEF Due
<1>4. /\ Due \in Seq(Frame) /\ Len(Due) = Len(sent) - Len(got)
      /\ \A i \in 1..Len(Due) : Due[i] = sent[Len(got) + i]
  BY DueType, <1>1
<1>5. /\ Append(Due, f) \in Seq(Frame)
      /\ Len(Append(Due, f)) = Len(Due) + 1
      /\ Append(Due, f)[Len(Due) + 1] = f
      /\ \A i \in 1..Len(Due) : Append(Due, f)[i] = Due[i]
  BY <1>4, AppendProperties
<1>6. Len(Due') = Len(Due) + 1 /\ Len(Due) \in Nat
  BY <1>1, <1>3, <1>4
<1>7. \A i \in 1..Len(Due') : Due'[i] = Append(Due, f)[i]
  <2> TAKE i \in 1..Len(Due')
  <2>1. Due'[i] = sent'[Len(got) + i]
    BY <1>1, <1>3
  <2>2. CASE i = Len(Due) + 1
    <3>1. Len(got) + i = Len(sent) + 1
      BY <2>2, <1>1, <1>4
    <3> QED
      BY <3>1, <2>1, <2>2, <1>1, <1>5
  <2>3. CASE i \in 1..Len(Due)
    <3>1. Len(got) + i \in 1..Len(sent)
      BY <2>3, <1>1, <1>4
    <3> QED
      BY <3>1, <2>1, <2>3, <1>1, <1>4, <1>5
  <2> QED
    BY <2>2, <2>3, <1>6
<1> QED
  BY <1>3, <1>5, <1>6, <1>7, SeqEqual

LEMMA DueLoses ==
  ASSUME TypeInv, TypeInv', sent' = sent, Len(got') = Len(got) + 1, Due # <<>>
  PROVE  Due' = Tail(Due)
<1>1. /\ Due \in Seq(Frame) /\ Len(Due) = Len(sent) - Len(got)
      /\ \A i \in 1..Len(Due) : Due[i] = sent[Len(got) + i]
      /\ Len(got) \in Nat /\ Len(sent) \in Nat /\ Len(got) < Len(sent)
  BY DueType, EmptySeq
<1>2. /\ Due' \in Seq(Frame)
      /\ Len(Due') = IF Len(got') < Len(sent') THEN Len(sent') - Len(got') ELSE 0
      /\ \A i \in 1..Len(Due') : Due'[i] = sent'[Len(got') + i]
  <2>1. sent' \in Seq(Frame) /\ Len(got') \in Nat
    BY <1>1 DEF TypeInv
  <2> QED
    BY <2>1, AfterType DEF Due
<1>3. /\ Tail(Due) \in Seq(Frame) /\ Len(Tail(Due)) = Len(Due) - 1
      /\ \A i \in 1..Len(Tail(Due)) : Tail(Due)[i] = Due[i + 1]
  BY <1>1, HeadTailProperties
<1>4. Len(Due') = Len(Tail(Due)) /\ Len(Due') \in Nat
  <2> DEFINE a == Len(got)
             n == Len(sent)
             x == Len(Due')
             y == Len(Due)
             z == Len(Tail(Due))
  <2>1. /\ a \in Nat /\ n \in Nat /\ a < n /\ y = n - a /\ z = y - 1
        /\ x = IF a + 1 < n THEN n - (a + 1) ELSE 0
    BY <1>1, <1>2, <1>3, Zenon
  <2> HIDE DEF a, n, x, y, z
  <2>2. x = z /\ x \in Nat
    BY <2>1
  <2> QED
    BY <2>2 DEF x, z
<1>5. \A i \in 1..Len(Due') : Due'[i] = Tail(Due)[i]
  <2> TAKE i \in 1..Len(Due')
  <2>1. Due'[i] = sent[Len(got) + (i + 1)]
    BY <1>1, <1>2
  <2>2. i + 1 \in 1..Len(Due) /\ i \in 1..Len(Tail(Due))
    BY <1>1, <1>3, <1>4
  <2> QED
    BY <2>1, <2>2, <1>1, <1>3
<1> QED
  BY <1>2, <1>3, <1>4, <1>5, SeqEqual

LEMMA CutStep == ASSUME kind' = kind PROVE Cut' = Cut
BY DEF Cut, Parts, Mask, Payload, Part

\* Whatever a part that is written passes through, it is last in the stream.
LEMMA WriteAppends ==
  ASSUME TypeInv, BufferInv, NEW part \in AnyPart, WriteAll(part),
         taken' = taken, secure' = secure
  PROVE  /\ Stream' = Append(Stream, part)
         /\ wire' \in Seq(AnyPart) /\ buffer' \in Seq(AnyPart)
         /\ BufferInv'
<1>1. /\ taken \in Seq(AnyPart) /\ wire \in Seq(AnyPart) /\ buffer \in Seq(AnyPart)
      /\ secure \in BOOLEAN
      /\ Len(taken) \in Nat /\ Len(wire) \in Nat /\ Len(buffer) \in Nat
      /\ Len(wire) <= TcpCap /\ TcpCap \in Nat
  BY StreamType, WriterAssumption DEF TypeInv, BufferInv
<1>2. /\ wire' \in Seq(AnyPart) /\ buffer' \in Seq(AnyPart)
      /\ wire' \o buffer' = Append(wire \o buffer, part)
      /\ Len(wire') <= TcpCap
      /\ ~secure => buffer' = <<>>
  <2>1. CASE secure
    <3> DEFINE all == Append(buffer, part)
               n == IF Room < Len(all) THEN Room ELSE Len(all)
    <3>1. wire' = wire \o SubSeq(all, 1, n) /\ buffer' = SubSeq(all, n + 1, Len(all))
      BY <2>1 DEF WriteAll, Holds
    <3>2. /\ all \in Seq(AnyPart) /\ Len(all) = Len(buffer) + 1
          /\ Len(all) \in Nat
      BY <1>1, AppendProperties
    <3>3. n \in 0..Len(all) /\ n <= TcpCap - Len(wire)
      BY <1>1, <3>2 DEF Room
    <3> DEFINE front == SubSeq(all, 1, n)
               back == SubSeq(all, n + 1, Len(all))
    <3>4. all = buffer \o <<part>>
      BY <1>1, AppendIsConcat
    <3> HIDE DEF all, n
    <3>5. /\ front \in Seq(AnyPart) /\ Len(front) = n
          /\ \A i \in 1..n : front[i] = all[i]
      <4>1. \A i \in 1..n : all[i] \in AnyPart
        BY <3>2, <3>3, ElementOfSeq
      <4>2. n \in Int /\ 1 \in Int
        BY <3>2, <3>3
      <4>3. /\ front \in Seq(AnyPart)
            /\ Len(front) = IF 1 <= n THEN n - 1 + 1 ELSE 0
            /\ \A i \in 1..(n - 1 + 1) : front[i] = all[1 + i - 1]
        BY <4>1, <4>2, SubSeqProperties
      <4> QED
        BY <4>3, <3>3, <3>2
    <3>6. /\ back \in Seq(AnyPart) /\ Len(back) = Len(all) - n
          /\ \A i \in 1..(Len(all) - n) : back[i] = all[n + i]
      <4>1. \A i \in (n + 1)..Len(all) : all[i] \in AnyPart
        BY <3>2, <3>3, ElementOfSeq
      <4>2. n + 1 \in Int /\ Len(all) \in Int
        BY <3>2, <3>3
      <4>3. /\ back \in Seq(AnyPart)
            /\ Len(back) = IF n + 1 <= Len(all) THEN Len(all) - (n + 1) + 1 ELSE 0
            /\ \A i \in 1..(Len(all) - (n + 1) + 1) : back[i] = all[n + 1 + i - 1]
        BY <4>1, <4>2, SubSeqProperties
      <4> QED
        BY <4>3, <3>3, <3>2
    <3> HIDE DEF front, back
    <3>7. front \o back = all
      <4>1. /\ 1 \in 1..(Len(all) + 1) /\ n \in (1 - 1)..Len(all)
            /\ Len(all) \in n..Len(all)
        BY <3>2, <3>3
      <4>2. front \o back = SubSeq(all, 1, Len(all))
        BY <4>1, <3>2, ConcatAdjacentSubSeq DEF front, back
      <4> QED
        BY <4>2, <3>2, SubSeqFull
    <3>8. wire' = wire \o front /\ buffer' = back
      BY <3>1 DEF front, back
    <3>9. wire' \o buffer' = wire \o all
      <4>1. (wire \o front) \o back = wire \o (front \o back)
        <5>1. /\ front \in Seq(AnyPart) /\ back \in Seq(AnyPart)
              /\ wire \in Seq(AnyPart)
          BY <3>5, <3>6, <1>1
        <5> QED
          BY <5>1, ConcatAssociative
      <4> QED
        BY <4>1, <3>7, <3>8
    <3>10. wire \o all = (wire \o buffer) \o <<part>>
      BY <3>4, <1>1, ConcatAssociative
    <3>11. (wire \o buffer) \o <<part>> = Append(wire \o buffer, part)
      BY <1>1, ConcatProperties, AppendIsConcat
    <3>12. wire' \in Seq(AnyPart) /\ Len(wire') <= TcpCap
      <4>1. /\ wire \o front \in Seq(AnyPart)
            /\ Len(wire \o front) = Len(wire) + Len(front)
        BY <1>1, <3>5, ConcatProperties
      <4> QED
        BY <4>1, <3>8, <3>5, <3>3, <3>2, <1>1
    <3> QED
      BY <2>1, <3>6, <3>8, <3>9, <3>10, <3>11, <3>12
  <2>2. CASE ~secure
    <3>1. wire' = Append(wire, part) /\ buffer' = buffer /\ buffer = <<>> /\ Room > 0
      BY <2>2 DEF WriteAll, BufferInv
    <3>2. /\ wire' \in Seq(AnyPart) /\ Len(wire') = Len(wire) + 1
      BY <3>1, <1>1, AppendProperties
    <3>3. wire' \o buffer' = wire' /\ wire \o buffer = wire
      BY <3>1, <3>2, <1>1, ConcatEmptySeq
    <3> QED
      BY <3>1, <3>2, <3>3, <1>1 DEF Room
  <2> QED
    BY <2>1, <2>2
<1>3. Stream = taken \o (wire \o buffer) /\ Stream' = taken \o (wire' \o buffer')
  <2>1. (taken \o wire) \o buffer = taken \o (wire \o buffer)
    BY <1>1, ConcatAssociative
  <2>2. (taken \o wire') \o buffer' = taken \o (wire' \o buffer')
    <3>1. /\ taken \in Seq(AnyPart) /\ wire' \in Seq(AnyPart)
          /\ buffer' \in Seq(AnyPart)
      BY <1>1, <1>2
    <3> QED
      BY <3>1, ConcatAssociative
  <2> QED
    BY <2>1, <2>2, Zenon DEF Stream
<1>4. wire \o buffer \in Seq(AnyPart)
  BY <1>1, ConcatProperties
<1>5. /\ Append(wire \o buffer, part) = (wire \o buffer) \o <<part>>
      /\ <<part>> \in Seq(AnyPart)
  BY <1>4, AppendIsConcat
<1>6. taken \o ((wire \o buffer) \o <<part>>)
        = (taken \o (wire \o buffer)) \o <<part>>
  BY <1>1, <1>4, <1>5, ConcatAssociative
<1>7. Stream \o <<part>> = Append(Stream, part)
  BY StreamType, AppendIsConcat
<1> QED
  BY <1>2, <1>3, <1>5, <1>6, <1>7 DEF BufferInv

(***************************************************************************)
(* Every step preserves it.                                                *)
(***************************************************************************)
LEMMA InvInit == Init => TypeInv /\ StreamsInv
<1> SUFFICES ASSUME Init PROVE TypeInv /\ StreamsInv
  OBVIOUS
<1>1. /\ <<>> \in Seq(AnyPart) /\ <<>> \in Seq(Frame)
      /\ <<>> \in Seq(Frame \cup {Garbage}) /\ Len(<<>>) = 0
  BY EmptySeq
<1>2. TypeInv
  <2>1. /\ begun = [t \in Task |-> 0] /\ 0 \in 0..MaxFrames
        /\ rest = [t \in Task |-> <<>>]
    BY WriterAssumption DEF Init
  <2>2. begun \in [Task -> 0..MaxFrames] /\ rest \in [Task -> Seq(AnyPart)]
    BY <1>1, <2>1
  <2> QED
    BY <1>1, <2>2 DEF Init, TypeInv
<1>3. BufferInv /\ LockInv /\ GotInv /\ TakenInv
  BY <1>1, WriterAssumption
  DEF Init, BufferInv, LockInv, GotInv, TakenInv, Task
<1>4. Stream = <<>> /\ Due = <<>>
  <2>1. /\ taken = <<>> /\ wire = <<>> /\ buffer = <<>>
        /\ sent = <<>> /\ got = <<>>
    BY DEF Init
  <2>2. <<>> \o <<>> = <<>>
    BY <1>1, ConcatEmptySeq
  <2>3. Len(Due) = 0 /\ Due \in Seq(Frame)
    BY <1>1, <1>2, <2>1, DueType
  <2> QED
    BY <2>1, <2>2, <2>3, EmptySeq DEF Stream
<1>5. StreamInv
  BY <1>4, CutEmpty DEF StreamInv, Pending, Init
<1> QED
  BY <1>2, <1>3, <1>5 DEF StreamsInv

LEMMA InvBegin ==
  ASSUME TypeInv, StreamsInv, NEW t \in Task, Begin(t)
  PROVE  TypeInv' /\ StreamsInv'
<1>1. /\ lock = "free" /\ lock' = t /\ begun[t] < MaxFrames
      /\ begun' = [begun EXCEPT ![t] = @ + 1]
      /\ UNCHANGED <<kind, secure, buffer, wire, sent, torn, peer, need,
                     taken, got>>
  BY DEF Begin, Acquire, readVars
<1>2. PICK size \in 0..MaxSize :
         rest' = [rest EXCEPT ![t] =
                    Parts([from |-> t, no |-> begun'[t], size |-> size])]
  BY DEF Begin
<1> DEFINE f == [from |-> t, no |-> begun'[t], size |-> size]
<1>3. begun'[t] = begun[t] + 1 /\ begun' \in [Task -> 0..MaxFrames]
  BY <1>1, WriterAssumption DEF TypeInv
<1>4. f \in Frame
  BY <1>1, <1>3, WriterAssumption DEF Frame, TypeInv
<1> HIDE DEF f
<1>5. Cutting(Cut) /\ Cut' = Cut /\ Cut[f] = Parts(f)
  BY <1>1, <1>4, CutCuts, CutStep DEF TypeInv, Cut
<1>6. /\ Parts(f) \in Seq(AnyPart) /\ Parts(f) # <<>>
      /\ rest' = [rest EXCEPT ![t] = Parts(f)]
  BY <1>2, <1>4, <1>5, EmptySeq DEF Cutting, f
<1>7. rest' \in [Task -> Seq(AnyPart)] /\ rest'[t] = Parts(f)
      /\ \A u \in Task : u # t => rest'[u] = rest[u]
  BY <1>6 DEF TypeInv
<1>8. TypeInv'
  BY <1>1, <1>3, <1>7 DEF TypeInv
<1>9. LockInv'
  <2>1. \A u \in Task : rest[u] = <<>>
    BY <1>1 DEF StreamsInv, LockInv, Task
  <2> QED
    BY <1>1, <1>6, <1>7, <2>1 DEF LockInv
<1>10. Stream' = Stream /\ Due' = Due
  BY <1>1 DEF Stream, Due
<1>11. BufferInv' /\ GotInv' /\ TakenInv'
  BY <1>1, <1>5, <1>10 DEF StreamsInv, BufferInv, GotInv, TakenInv
<1>12. StreamInv'
  <2>1. Pending = <<>> /\ Pending' = Cut[f]
    BY <1>1, <1>5, <1>7 DEF Pending, Task
  <2>2. IsCut(Cut, Stream, Due, Cut[f], torn)
    BY <2>1, <1>4, <1>5, StreamType, DueType, CutBegins
    DEF StreamsInv, StreamInv
  <2> QED
    BY <1>1, <1>5, <1>10, <2>1, <2>2 DEF StreamInv
<1> QED
  BY <1>8, <1>9, <1>11, <1>12 DEF StreamsInv

LEMMA PendingOf ==
  ASSUME TypeInv, LockInv, NEW t \in Task, rest[t] # <<>>
  PROVE  /\ lock = t /\ Pending = rest[t] /\ rest[t] \in Seq(AnyPart)
         /\ Len(rest[t]) \in Nat \ {0}
         /\ Head(rest[t]) = rest[t][1] /\ Head(rest[t]) \in AnyPart
         /\ Head(rest[t]).frame \in Frame
         /\ Tail(rest[t]) \in Seq(AnyPart)
         /\ Len(Tail(rest[t])) = Len(rest[t]) - 1
<1>1. rest[t] \in Seq(AnyPart) /\ lock = t
  BY DEF TypeInv, LockInv
<1>2. Pending = rest[t]
  BY <1>1 DEF Pending, Task
<1>3. /\ Len(rest[t]) \in Nat \ {0}
      /\ Head(rest[t]) \in AnyPart /\ Tail(rest[t]) \in Seq(AnyPart)
      /\ Len(Tail(rest[t])) = Len(rest[t]) - 1
  BY <1>1, HeadTailProperties, EmptySeq
<1>4. Head(rest[t]).frame \in Frame
  BY <1>3 DEF AnyPart
<1> QED
  BY <1>1, <1>2, <1>3, <1>4

LEMMA InvWrite ==
  ASSUME TypeInv, StreamsInv, NEW t \in Task, WritePart(t)
  PROVE  TypeInv' /\ StreamsInv'
<1> DEFINE part == Head(rest[t])
<1>1. /\ rest[t] # <<>> /\ WriteAll(part)
      /\ rest' = [rest EXCEPT ![t] = Tail(rest[t])]
      /\ IF Len(rest[t]) > 1 THEN lock' = lock /\ sent' = sent
         ELSE /\ lock' = "free"
              /\ sent' = IF torn THEN sent ELSE Append(sent, part.frame)
      /\ UNCHANGED <<kind, secure, begun, torn, peer, need, taken, got>>
  BY DEF WritePart, readVars
<1>2. BufferInv /\ LockInv /\ GotInv /\ TakenInv /\ StreamInv
  BY DEF StreamsInv
<1>3. /\ lock = t /\ Pending = rest[t] /\ rest[t] \in Seq(AnyPart)
      /\ Len(rest[t]) \in Nat \ {0}
      /\ part = rest[t][1] /\ part \in AnyPart /\ part.frame \in Frame
      /\ Tail(rest[t]) \in Seq(AnyPart)
      /\ Len(Tail(rest[t])) = Len(rest[t]) - 1
  BY <1>1, <1>2, PendingOf
<1> HIDE DEF part
<1>4. /\ Stream' = Append(Stream, part) /\ BufferInv'
      /\ wire' \in Seq(AnyPart) /\ buffer' \in Seq(AnyPart)
  BY <1>1, <1>2, <1>3, WriteAppends
<1>5. /\ rest' \in [Task -> Seq(AnyPart)] /\ rest'[t] = Tail(rest[t])
      /\ \A u \in Task : u # t => rest'[u] = rest[u]
  BY <1>1, <1>3 DEF TypeInv
<1>6. /\ Cutting(Cut) /\ Cut' = Cut
      /\ Stream \in Seq(AnyPart) /\ Due \in Seq(Frame)
      /\ Len(got) \in Nat /\ Len(sent) \in Nat
      /\ IsCut(Cut, Stream, Due, rest[t], torn)
  BY <1>1, <1>2, <1>3, CutCuts, CutStep, StreamType, DueType
  DEF TypeInv, StreamInv
<1>7. CASE Len(rest[t]) > 1
  <2>1. lock' = t /\ sent' = sent /\ Due' = Due
    BY <1>1, <1>3, <1>7 DEF Due
  <2>2. TypeInv'
    BY <1>1, <1>4, <1>5, <2>1 DEF TypeInv
  <2>3. LockInv'
    <3>1. rest'[t] # <<>>
      BY <1>3, <1>5, <1>7, EmptySeq
    <3> QED
      BY <1>2, <1>3, <1>5, <2>1, <3>1 DEF LockInv
  <2>4. GotInv' /\ TakenInv'
    BY <1>1, <1>2, <1>6, <2>1 DEF GotInv, TakenInv
  <2>5. StreamInv'
    <3>1. IsCut(Cut, Append(Stream, Head(rest[t])), Due, Tail(rest[t]), torn)
      BY <1>3, <1>6, <1>7, CutGrows
    <3>2. Pending' = Tail(rest[t])
      BY <1>5, <2>1 DEF Pending, Task
    <3> QED
      BY <1>1, <1>4, <1>6, <2>1, <3>1, <3>2 DEF StreamInv, part
  <2> QED
    BY <1>4, <2>2, <2>3, <2>4, <2>5 DEF StreamsInv
<1>8. CASE ~(Len(rest[t]) > 1)
  <2>1. /\ lock' = "free"
        /\ sent' = IF torn THEN sent ELSE Append(sent, part.frame)
    BY <1>1, <1>8
  <2>2. rest'[t] = <<>> /\ rest[t] = <<part>>
    <3>1. Len(rest[t]) = 1 /\ Len(Tail(rest[t])) = 0
      <4> DEFINE x == Len(rest[t])
                 y == Len(Tail(rest[t]))
      <4>1. x \in Nat \ {0} /\ y = x - 1 /\ ~(x > 1)
        BY <1>3, <1>8
      <4> HIDE DEF x, y
      <4>2. x = 1 /\ y = 0
        BY <4>1
      <4> QED
        BY <4>2 DEF x, y
    <3>2. rest'[t] = <<>>
      BY <3>1, <1>3, <1>5, EmptySeq
    <3>3. <<part>> \in Seq(AnyPart) /\ Len(<<part>>) = 1 /\ <<part>>[1] = part
      BY <1>3
    <3>4. rest[t] = <<part>>
      BY <3>1, <3>3, <1>3, SeqEqual
    <3> QED
      BY <3>2, <3>4
  <2>3. sent' \in Seq(Frame)
    BY <1>3, <2>1, AppendProperties DEF TypeInv
  <2>4. TypeInv'
    BY <1>1, <1>4, <1>5, <2>1, <2>3 DEF TypeInv
  <2>5. LockInv'
    BY <1>2, <1>3, <1>5, <2>1, <2>2 DEF LockInv, Task
  <2>6. Pending' = <<>>
    BY <2>1 DEF Pending
  <2>7. CASE torn
    <3>1. sent' = sent /\ Due' = Due /\ torn' = TRUE
      BY <1>1, <2>1, <2>7 DEF Due, TypeInv
    <3>2. GotInv' /\ TakenInv'
      BY <1>1, <1>2, <1>6, <3>1 DEF GotInv, TakenInv
    <3>3. IsCut(Cut, Append(Stream, part), Due, <<>>, TRUE)
      BY <1>3, <1>6, CutTorn
    <3>4. StreamInv'
      BY <1>4, <1>6, <2>6, <3>1, <3>3 DEF StreamInv
    <3> QED
      BY <1>4, <2>4, <2>5, <3>2, <3>4 DEF StreamsInv
  <2>8. CASE ~torn
    <3>1. /\ sent' = Append(sent, part.frame) /\ torn = FALSE /\ torn' = FALSE
          /\ got' = got /\ Len(got) <= Len(sent)
      BY <1>1, <1>2, <2>1, <2>8 DEF GotInv, TypeInv
    <3>2. Due' = Append(Due, part.frame)
      BY <1>3, <3>1, DueGains
    <3>3. /\ Len(sent') = Len(sent) + 1
          /\ \A i \in 1..Len(sent) : sent'[i] = sent[i]
      BY <1>3, <3>1, AppendProperties DEF TypeInv
    <3>4. GotInv'
      BY <1>2, <1>6, <3>1, <3>3 DEF GotInv
    <3>5. TakenInv'
      BY <1>1, <1>2, <1>6, <2>8 DEF TakenInv
    <3>6. IsCut(Cut, Append(Stream, part), Append(Due, part.frame), <<>>, FALSE)
      BY <1>3, <1>6, <2>2, <3>1, CutGains
    <3>7. StreamInv'
      BY <1>4, <1>6, <2>6, <3>1, <3>2, <3>6 DEF StreamInv
    <3> QED
      BY <1>4, <2>4, <2>5, <3>4, <3>5, <3>7 DEF StreamsInv
  <2> QED
    BY <2>7, <2>8
<1> QED
  BY <1>7, <1>8

LEMMA InvDrop ==
  ASSUME TypeInv, StreamsInv, DropCall
  PROVE  TypeInv' /\ StreamsInv'
<1> DEFINE t == "user"
<1>1. /\ t \in Task /\ rest[t] # <<>> /\ lock' = "free"
      /\ torn' = (torn \/ Head(rest[t]).name # "first")
      /\ rest' = [rest EXCEPT ![t] = <<>>]
      /\ UNCHANGED <<kind, secure, begun, buffer, wire, sent, peer, need,
                     taken, got>>
  BY DEF DropCall, readVars, Task
<1> HIDE DEF t
<1>2. BufferInv /\ LockInv /\ GotInv /\ TakenInv /\ StreamInv
  BY DEF StreamsInv
<1>3. /\ lock = t /\ Pending = rest[t] /\ rest[t] \in Seq(AnyPart)
      /\ Head(rest[t]) = rest[t][1] /\ Head(rest[t]) \in AnyPart
  BY <1>1, <1>2, PendingOf
<1>4. /\ rest' \in [Task -> Seq(AnyPart)] /\ rest'[t] = <<>>
      /\ \A u \in Task : u # t => rest'[u] = rest[u]
  BY <1>1, EmptySeq DEF TypeInv
<1>5. TypeInv'
  BY <1>1, <1>4 DEF TypeInv
<1>6. LockInv'
  BY <1>1, <1>2, <1>3, <1>4 DEF LockInv, Task
<1>7. Stream' = Stream /\ Due' = Due /\ Cut' = Cut /\ Pending' = <<>>
  BY <1>1, CutStep DEF Stream, Due, Pending
<1>8. BufferInv' /\ GotInv' /\ TakenInv'
  BY <1>1, <1>2, <1>7 DEF BufferInv, GotInv, TakenInv
<1>9. /\ Cutting(Cut) /\ Stream \in Seq(AnyPart) /\ Due \in Seq(Frame)
      /\ IsCut(Cut, Stream, Due, rest[t], torn)
  BY <1>2, <1>3, CutCuts, StreamType, DueType DEF TypeInv, StreamInv
<1>10. CASE Head(rest[t]).name = "first"
  <2>1. torn' = torn
    BY <1>1, <1>10 DEF TypeInv
  <2>2. IsCut(Cut, Stream, Due, <<>>, torn)
    BY <1>1, <1>3, <1>9, <1>10, CutDropped
  <2> QED
    BY <1>5, <1>6, <1>7, <1>8, <2>1, <2>2 DEF StreamsInv, StreamInv
<1>11. CASE Head(rest[t]).name # "first"
  <2>1. torn' = TRUE
    BY <1>1, <1>11
  <2>2. IsCut(Cut, Stream, Due, <<>>, TRUE)
    BY <1>3, <1>9, CutTorn
  <2> QED
    BY <1>5, <1>6, <1>7, <1>8, <2>1, <2>2 DEF StreamsInv, StreamInv
<1> QED
  BY <1>10, <1>11

\* The parts the reader has with the next.
Parted == Append(taken, Head(wire))

LEMMA PartedType ==
  ASSUME TypeInv, wire # <<>>
  PROVE  /\ Parted \in Seq(AnyPart) /\ Len(Parted) = Len(taken) + 1
         /\ \A i \in 1..Len(taken) : Parted[i] = taken[i]
         /\ Len(taken) \in Nat
         /\ Len(Parted) <= Len(Stream)
         /\ \A i \in 1..Len(Parted) : Stream[i] = Parted[i]
         /\ Tail(wire) \in Seq(AnyPart) /\ Len(Tail(wire)) = Len(wire) - 1
         /\ Stream = (Parted \o Tail(wire)) \o buffer
<1>1. /\ taken \in Seq(AnyPart) /\ wire \in Seq(AnyPart) /\ buffer \in Seq(AnyPart)
      /\ Len(taken) \in Nat /\ Len(buffer) \in Nat /\ Len(wire) \in Nat
      /\ Head(wire) \in AnyPart /\ Tail(wire) \in Seq(AnyPart)
      /\ Len(Tail(wire)) = Len(wire) - 1
      /\ \A i \in 1..Len(Tail(wire)) : Tail(wire)[i] = wire[i + 1]
  BY StreamType, HeadTailProperties DEF TypeInv
<1>2. /\ Parted \in Seq(AnyPart) /\ Len(Parted) = Len(taken) + 1
      /\ \A i \in 1..Len(taken) : Parted[i] = taken[i]
      /\ Parted = taken \o <<Head(wire)>>
  BY <1>1, AppendProperties, AppendIsConcat DEF Parted
<1> DEFINE h == Head(wire)
           w == Tail(wire)
<1>3. wire = <<h>> \o w
  <2>1. /\ 1 \in 1..Len(wire) /\ Len(wire) \in 1..Len(wire)
    BY <1>1, EmptySeq
  <2>2. SubSeq(wire, 1, Len(wire)) = <<wire[1]>> \o SubSeq(wire, 1 + 1, Len(wire))
    BY <1>1, <2>1, SubSeqRecursiveFirst
  <2>3. SubSeq(wire, 1, Len(wire)) = wire /\ SubSeq(wire, 2, Len(wire)) = w
    BY <1>1, SubSeqFull, TailIsSubSeq
  <2>4. h = wire[1]
    BY <1>1
  <2> QED
    BY <2>2, <2>3, <2>4
<1> HIDE DEF h, w
<1>4. /\ <<h>> \in Seq(AnyPart) /\ w \in Seq(AnyPart)
      /\ taken \in Seq(AnyPart)
  BY <1>1 DEF h, w
<1>5. taken \o wire = Parted \o w
  <2>1. (taken \o <<h>>) \o w = taken \o (<<h>> \o w)
    BY <1>4, ConcatAssociative
  <2> QED
    BY <2>1, <1>2, <1>3 DEF h
<1>6. Stream = (Parted \o w) \o buffer
  BY <1>5 DEF Stream
<1>7. (Parted \o w) \o buffer = Parted \o (w \o buffer)
  <2>1. Parted \in Seq(AnyPart) /\ w \in Seq(AnyPart) /\ buffer \in Seq(AnyPart)
    BY <1>1, <1>2, <1>4
  <2> QED
    BY <2>1, ConcatAssociative
<1> DEFINE z == w \o buffer
<1>8. z \in Seq(AnyPart)
  BY <1>1, <1>4, ConcatProperties
<1> HIDE DEF z
<1>9. /\ Stream = Parted \o z
      /\ Len(Parted) \in Nat /\ Len(z) \in Nat
  BY <1>2, <1>6, <1>7, <1>8, LenProperties DEF z
<1>10. /\ Len(Parted \o z) = Len(Parted) + Len(z)
       /\ \A i \in 1..Len(Parted) + Len(z) :
             (Parted \o z)[i] = IF i <= Len(Parted) THEN Parted[i]
                                ELSE z[i - Len(Parted)]
  BY <1>2, <1>8, ConcatProperties
<1>11. /\ Len(Parted) <= Len(Stream)
       /\ \A i \in 1..Len(Parted) : Stream[i] = Parted[i]
  BY <1>9, <1>10
<1> QED
  BY <1>1, <1>2, <1>6, <1>11 DEF w

\* A frame that has been read leaves the rest of the stream.
LEMMA StreamLoses ==
  ASSUME TypeInv, wire # <<>>, taken' = <<>>, wire' = Tail(wire),
         buffer' = buffer
  PROVE  /\ Stream' \in Seq(AnyPart)
         /\ Len(Stream') = Len(Stream) - Len(Parted)
         /\ \A i \in 1..Len(Stream') : Stream'[i] = Stream[Len(Parted) + i]
<1> DEFINE w == Tail(wire)
           z == w \o buffer
<1>1. /\ Parted \in Seq(AnyPart) /\ w \in Seq(AnyPart) /\ buffer \in Seq(AnyPart)
      /\ Stream = (Parted \o w) \o buffer
  BY PartedType DEF TypeInv
<1>2. Stream' = z
  <2>1. <<>> \o w = w
    BY <1>1, ConcatEmptySeq
  <2> QED
    BY <2>1 DEF Stream
<1>3. Stream = Parted \o z
  BY <1>1, ConcatAssociative
<1>4. z \in Seq(AnyPart)
  BY <1>1, ConcatProperties
<1> HIDE DEF z
<1>5. /\ Len(Parted) \in Nat /\ Len(z) \in Nat
      /\ Len(Parted \o z) = Len(Parted) + Len(z)
      /\ \A i \in 1..Len(Parted) + Len(z) :
            (Parted \o z)[i] = IF i <= Len(Parted) THEN Parted[i]
                               ELSE z[i - Len(Parted)]
  BY <1>1, <1>4, ConcatProperties, LenProperties
<1>6. \A i \in 1..Len(z) : z[i] = (Parted \o z)[Len(Parted) + i]
  <2> DEFINE n == Len(Parted)
             m == Len(z)
             s == Parted \o z
  <2>1. /\ n \in Nat /\ m \in Nat
        /\ \A i \in 1..(n + m) : s[i] = IF i <= n THEN Parted[i] ELSE z[i - n]
    BY <1>5
  <2> HIDE DEF n, m, s
  <2>2. \A i \in 1..m : z[i] = s[n + i]
    <3> TAKE i \in 1..m
    <3>1. n + i \in 1..(n + m) /\ ~(n + i <= n) /\ (n + i) - n = i
      BY <2>1
    <3> QED
      BY <3>1, <2>1
  <2> QED
    BY <2>2 DEF n, m, s
<1>7. Len(z) = Len(Parted \o z) - Len(Parted)
  BY <1>5
<1> QED
  BY <1>2, <1>3, <1>4, <1>6, <1>7

\* While the stream goes on with a frame f, the reader takes f and no more.
LEMMA ReadsInside ==
  ASSUME TypeInv, TakenInv, Due # <<>> \/ ~torn, ReadPart, Cutting(Cut),
         NEW f \in Frame,
         \A i \in 1..Len(Stream) :
             i <= Len(Cut[f]) => Stream[i] = Cut[f][i]
  PROVE  /\ Len(Parted) <= Len(Cut[f]) /\ Parted[1].frame = f
         /\ IF Len(Parted) < Len(Cut[f])
            THEN /\ taken' = Parted /\ got' = got
                 /\ Len(Parted) >= 2 => need' = Len(Cut[f])
            ELSE /\ taken' = <<>> /\ got' = Append(got, f)
                 /\ Len(Parted) = Len(Cut[f])
<1> DEFINE n == Len(Cut[f])
           m == Len(taken)
           l == Len(Parted)
<1>1. /\ need' \in Needs(Parted)
      /\ IF l < need' THEN taken' = Parted /\ got' = got
         ELSE taken' = <<>> /\ got' = Append(got, Read(Parted))
      /\ wire # <<>>
  BY DEF ReadPart, Parted
<1>2. /\ n \in Nat /\ n >= 2 /\ Cut[f] \in Seq(AnyPart)
      /\ Cut[f][2].name = "length"
      /\ \A i \in 1..n : Cut[f][i].frame = f
  BY LenProperties DEF Cutting
<1>3. /\ m \in Nat /\ l = m + 1 /\ l <= Len(Stream) /\ Len(Stream) \in Nat
      /\ Parted \in Seq(AnyPart)
      /\ \A i \in 1..m : Parted[i] = taken[i]
      /\ \A i \in 1..l : Stream[i] = Parted[i]
  BY <1>1, PartedType, StreamType
<1> HIDE DEF n, m, l
<1>4. \A i \in 1..l : i <= n => Parted[i] = Cut[f][i]
  BY <1>3 DEF n
<1>5. Parted[1].frame = f
  <2>1. 1 \in 1..l /\ 1 \in 1..n /\ 1 <= n
    BY <1>2, <1>3
  <2> QED
    BY <2>1, <1>2, <1>4
<1>6. m < n /\ (m >= 2 => need = n)
  <2>1. CASE m = 0
    BY <2>1, <1>2
  <2>2. CASE m # 0
    <3>1. 1 \in 1..m /\ taken # <<>>
      BY <2>2, <1>3, EmptySeq DEF m
    <3>2. taken[1].frame = f
      BY <3>1, <1>3, <1>5
    <3> QED
      BY <3>1, <3>2 DEF TakenInv, m, n
  <2> QED
    BY <2>1, <2>2
<1>7. l <= n
  BY <1>2, <1>3, <1>6
<1>8. \A i \in 1..l : Parted[i] = Cut[f][i]
  BY <1>3, <1>4, <1>7, <1>2
<1>9. IF l < 2 THEN need' = 2 ELSE need' = n
  <2>1. CASE l < 2
    BY <2>1, <1>1 DEF Needs, l
  <2>2. CASE l > 2
    <3>1. need' = need /\ m >= 2
      BY <2>2, <1>1, <1>3 DEF Needs, l
    <3> QED
      BY <3>1, <2>2, <1>6, <1>3
  <2>3. CASE l = 2
    <3>1. 2 \in 1..l /\ 2 \in 1..n
      BY <2>3, <1>2
    <3>2. Parted[2].name = "length" /\ Parted[2].frame = f
      BY <3>1, <1>2, <1>8
    <3>3. need' = Len(Parts(f))
      BY <2>3, <1>1, <3>2 DEF Needs, l
    <3>4. Len(Parts(f)) = n
      BY DEF n, Cut
    <3> QED
      BY <2>3, <3>3, <3>4
  <2> QED
    BY <2>1, <2>2, <2>3, <1>3
<1>10. CASE l < n
  <2>1. l < need' /\ (l >= 2 => need' = n)
    BY <1>9, <1>10, <1>3
  <2> QED
    BY <1>1, <1>5, <1>7, <1>10, <2>1 DEF l, n
<1>11. CASE ~(l < n)
  <2>1. l = n /\ l >= 2
    BY <1>2, <1>3, <1>7, <1>11
  <2>2. ~(l < need')
    BY <2>1, <1>9, <1>2
  <2>3. Parted = Cut[f]
    BY <2>1, <1>2, <1>3, <1>8, SeqEqual DEF l, n
  <2>4. Read(Parted) = f
    BY <2>3, <1>5 DEF Read, Cut
  <2> QED
    BY <1>1, <1>5, <1>7, <1>11, <2>1, <2>2, <2>4 DEF l, n
<1> QED
  BY <1>10, <1>11

LEMMA InvRead ==
  ASSUME TypeInv, StreamsInv, ReadPart
  PROVE  TypeInv' /\ StreamsInv'
<1>1. /\ wire # <<>> /\ wire' = Tail(wire)
      /\ UNCHANGED <<kind, secure, lock, begun, rest, buffer, sent, torn>>
      /\ \/ taken' = Parted /\ got' = got
         \/ taken' = <<>> /\ got' = Append(got, Read(Parted))
  BY DEF ReadPart, Parted, writeVars
<1>2. BufferInv /\ LockInv /\ GotInv /\ TakenInv /\ StreamInv
  BY DEF StreamsInv
<1>3. /\ Parted \in Seq(AnyPart) /\ Parted # <<>> /\ Len(Parted) \in Nat
      /\ Len(Parted) <= Len(Stream) /\ Len(Stream) \in Nat
      /\ Tail(wire) \in Seq(AnyPart) /\ Len(Tail(wire)) <= Len(wire)
      /\ Stream = (Parted \o Tail(wire)) \o buffer
  <2>1. /\ Parted \in Seq(AnyPart) /\ Len(Parted) = Len(taken) + 1
        /\ Len(taken) \in Nat /\ Len(wire) \in Nat
        /\ Len(Parted) <= Len(Stream)
        /\ Tail(wire) \in Seq(AnyPart) /\ Len(Tail(wire)) = Len(wire) - 1
        /\ Stream = (Parted \o Tail(wire)) \o buffer
    BY <1>1, PartedType, StreamType
  <2> QED
    BY <2>1, StreamType, LenProperties, EmptySeq
<1>4. Read(Parted) \in Frame \cup {Garbage}
  <2>1. Parted[1] \in AnyPart
    BY <1>3, ElementOfSeq, EmptySeq
  <2> QED
    BY <2>1 DEF Read, AnyPart
<1>5. got' \in Seq(Frame \cup {Garbage}) /\ taken' \in Seq(AnyPart)
  <2>1. /\ got \in Seq(Frame \cup {Garbage}) /\ <<>> \in Seq(AnyPart)
        /\ Append(got, Read(Parted)) \in Seq(Frame \cup {Garbage})
    BY <1>4, AppendProperties, EmptySeq DEF TypeInv
  <2> QED
    BY <1>1, <1>3, <2>1, Zenon
<1>6. TypeInv'
  BY <1>1, <1>3, <1>5 DEF TypeInv
<1>7. BufferInv' /\ LockInv'
  <2>1. Len(wire') <= TcpCap
    <3>1. Len(wire) \in Nat /\ Len(Tail(wire)) \in Nat /\ TcpCap \in Nat
      BY <1>3, StreamType, LenProperties, WriterAssumption
    <3> QED
      BY <1>1, <1>2, <1>3, <3>1 DEF BufferInv
  <2> QED
    BY <1>1, <1>2, <2>1 DEF BufferInv, LockInv
<1>8. Cutting(Cut) /\ Cut' = Cut /\ Pending' = Pending
  BY <1>1, CutCuts, CutStep DEF TypeInv, Pending
<1>9. /\ Stream \in Seq(AnyPart) /\ Due \in Seq(Frame)
      /\ Len(Due) = IF Len(got) < Len(sent) THEN Len(sent) - Len(got) ELSE 0
      /\ \A i \in 1..Len(Due) : Due[i] = sent[Len(got) + i]
      /\ Len(got) \in Nat /\ Len(sent) \in Nat
      /\ IsCut(Cut, Stream, Due, Pending, torn)
  BY <1>2, StreamType, DueType DEF StreamInv
<1>10. ASSUME taken' = Parted, got' = got
       PROVE  Stream' = Stream /\ Due' = Due /\ GotInv' /\ StreamInv'
  <2>1. Stream' = Stream /\ Due' = Due
    BY <1>1, <1>3, <1>10 DEF Stream, Due
  <2> QED
    BY <1>1, <1>2, <1>8, <1>9, <1>10, <2>1 DEF GotInv, StreamInv
\* A frame is due.
<1>11. CASE Due # <<>>
  <2> DEFINE f == Due[1]
  <2>1. /\ f \in Frame /\ Len(Cut[f]) <= Len(Stream)
        /\ \A i \in 1..Len(Cut[f]) : Stream[i] = Cut[f][i]
    BY <1>8, <1>9, <1>11, CutFirst
  <2>2. \A i \in 1..Len(Stream) : i <= Len(Cut[f]) => Stream[i] = Cut[f][i]
    <3>1. Len(Cut[f]) \in Nat
      BY <1>8, <2>1, LenProperties DEF Cutting
    <3> QED
      BY <2>1, <3>1, <1>3
  <2> HIDE DEF f
  <2>3. /\ Len(Parted) <= Len(Cut[f]) /\ Parted[1].frame = f
        /\ IF Len(Parted) < Len(Cut[f])
           THEN /\ taken' = Parted /\ got' = got
                /\ Len(Parted) >= 2 => need' = Len(Cut[f])
           ELSE /\ taken' = <<>> /\ got' = Append(got, f)
                /\ Len(Parted) = Len(Cut[f])
    BY <1>2, <1>8, <1>11, <2>1, <2>2, ReadsInside
  <2>4. CASE Len(Parted) < Len(Cut[f])
    <3>1. TakenInv'
      BY <1>8, <2>3, <2>4 DEF TakenInv
    <3> QED
      BY <1>6, <1>7, <1>10, <2>3, <2>4, <3>1 DEF StreamsInv
  <2>5. CASE ~(Len(Parted) < Len(Cut[f]))
    <3>1. /\ taken' = <<>> /\ got' = Append(got, f)
          /\ Len(Parted) = Len(Cut[f])
      BY <2>3, <2>5
    <3>2. /\ Len(got') = Len(got) + 1 /\ got'[Len(got) + 1] = f
          /\ \A i \in 1..Len(got) : got'[i] = got[i]
      BY <2>1, <3>1, AppendProperties DEF TypeInv
    <3>3. Len(got) < Len(sent) /\ f = sent[Len(got) + 1]
      <4>1. Len(Due) # 0
        BY <1>9, <1>11, EmptySeq
      <4>2. Len(got) < Len(sent)
        BY <1>9, <4>1
      <4>3. 1 \in 1..Len(Due)
        BY <1>9, <4>2
      <4> QED
        BY <1>9, <4>2, <4>3 DEF f
    <3>4. GotInv'
      <4>1. Len(got') <= Len(sent')
        BY <1>1, <1>9, <3>2, <3>3
      <4>2. \A i \in 1..Len(got') : i <= Len(sent') => got'[i] = sent'[i]
        <5> TAKE i \in 1..Len(got')
        <5>1. CASE i = Len(got) + 1
          BY <5>1, <1>1, <3>2, <3>3
        <5>2. CASE i \in 1..Len(got)
          <6>1. i <= Len(sent)
            BY <5>2, <1>9, <3>3
          <6> QED
            BY <5>2, <6>1, <1>1, <1>2, <3>2 DEF GotInv
        <5> QED
          BY <5>1, <5>2, <1>9, <3>2
      <4> QED
        BY <4>1, <4>2 DEF GotInv
    <3>5. Due' = Tail(Due)
      BY <1>1, <1>6, <1>11, <3>2, DueLoses
    <3>6. /\ Stream' \in Seq(AnyPart)
          /\ Len(Stream') = Len(Stream) - Len(Cut[f])
          /\ \A i \in 1..Len(Stream') : Stream'[i] = Stream[Len(Cut[f]) + i]
      BY <1>1, <3>1, StreamLoses
    <3>7. IsCut(Cut, Stream', Tail(Due), Pending, torn)
      BY <1>8, <1>9, <1>11, <3>6, CutLoses DEF f
    <3>8. StreamInv'
      BY <1>1, <1>8, <3>5, <3>7 DEF StreamInv
    <3>9. TakenInv'
      BY <3>1 DEF TakenInv
    <3> QED
      BY <1>6, <1>7, <3>4, <3>8, <3>9 DEF StreamsInv
  <2> QED
    BY <2>4, <2>5
\* The frame that is being written is read.
<1>12. CASE Due = <<>> /\ ~torn
  <2>1. /\ IsCut(Cut, Stream, <<>>, Pending, FALSE) /\ Stream # <<>>
        /\ Pending \in Seq(AnyPart)
    <3>1. torn = FALSE
      BY <1>12 DEF TypeInv
    <3>2. Pending \in Seq(AnyPart)
      BY EmptySeq DEF Pending, TypeInv
    <3>3. Len(Stream) # 0
      BY <1>3, EmptySeq
    <3> QED
      BY <1>9, <1>12, <3>1, <3>2, <3>3, EmptySeq
  <2>2. PICK f \in Frame : /\ Len(Stream) < Len(Cut[f])
                          /\ \A i \in 1..Len(Stream) : Stream[i] = Cut[f][i]
    BY <1>8, <1>9, <2>1, CutPending
  <2>3. /\ Parted[1].frame = f
        /\ IF Len(Parted) < Len(Cut[f])
           THEN /\ taken' = Parted /\ got' = got
                /\ Len(Parted) >= 2 => need' = Len(Cut[f])
           ELSE /\ taken' = <<>> /\ got' = Append(got, f)
                /\ Len(Parted) = Len(Cut[f])
    BY <1>2, <1>8, <1>12, <2>2, ReadsInside
  <2>4. Len(Parted) < Len(Cut[f])
    <3>1. Len(Cut[f]) \in Nat
      BY <1>8, LenProperties DEF Cutting
    <3> QED
      BY <1>3, <2>2, <3>1
  <2>5. TakenInv'
    BY <1>8, <2>3, <2>4 DEF TakenInv
  <2> QED
    BY <1>6, <1>7, <1>10, <2>3, <2>4, <2>5 DEF StreamsInv
\* All that was whole has been read.
<1>13. CASE Due = <<>> /\ torn
  <2>1. Len(got) >= Len(sent)
    BY <1>9, <1>13, EmptySeq
  <2>2. /\ Len(got') \in Nat /\ Len(got') >= Len(got)
        /\ \A i \in 1..Len(got) : got'[i] = got[i]
    <3> DEFINE g == Append(got, Read(Parted))
    <3>1. /\ got \in Seq(Frame \cup {Garbage})
          /\ Len(g) = Len(got) + 1
          /\ \A i \in 1..Len(got) : g[i] = got[i]
      BY <1>4, AppendProperties DEF TypeInv
    <3>2. got' = got \/ got' = g
      BY <1>1
    <3> HIDE DEF g
    <3>3. CASE got' = got
      BY <3>3, <1>9
    <3>4. CASE got' = g
      BY <3>1, <3>4, <1>9
    <3> QED
      BY <3>2, <3>3, <3>4
  <2>3. Due' = <<>>
    <3>1. sent' \in Seq(Frame) /\ sent' = sent
      BY <1>1 DEF TypeInv
    <3>2. Due' \in Seq(Frame) /\ Len(Due') = 0
      <4> DEFINE n == Len(got')
                 rem == SubSeq(sent, n + 1, Len(sent))
      <4>1. n \in Nat /\ n >= Len(sent) /\ Len(sent) \in Nat /\ sent \in Seq(Frame)
        BY <1>9, <2>1, <2>2, <3>1
      <4>2. Due' = rem
        BY <3>1 DEF Due
      <4> HIDE DEF n
      <4>3. rem \in Seq(Frame) /\ Len(rem) = IF n < Len(sent) THEN Len(sent) - n ELSE 0
        BY <4>1, AfterType
      <4> HIDE DEF rem
      <4>4. Len(rem) = 0
        BY <4>1, <4>3
      <4> QED
        BY <4>2, <4>3, <4>4
    <3> QED
      BY <3>2, EmptySeq
  <2>4. GotInv'
    <3>1. \A i \in 1..Len(got') : i <= Len(sent) => i \in 1..Len(got)
      BY <1>9, <2>1, <2>2
    <3> QED
      BY <1>1, <1>2, <1>13, <2>2, <3>1 DEF GotInv
  <2>5. TakenInv'
    BY <1>1, <1>13, <2>3 DEF TakenInv
  <2>6. StreamInv'
    <3>1. Stream' \in Seq(AnyPart)
      <4>1. /\ taken' \in Seq(AnyPart) /\ wire' \in Seq(AnyPart)
            /\ buffer' \in Seq(AnyPart)
        BY <1>6 DEF TypeInv
      <4>2. taken' \o wire' \in Seq(AnyPart)
        BY <4>1, ConcatProperties
      <4> QED
        BY <4>1, <4>2, ConcatProperties DEF Stream
    <3>2. torn' = TRUE
      BY <1>1, <1>13 DEF TypeInv
    <3> QED
      BY <2>3, <3>1, <3>2, TornCut DEF StreamInv
  <2> QED
    BY <1>6, <1>7, <2>4, <2>5, <2>6 DEF StreamsInv
<1> QED
  BY <1>11, <1>12, <1>13

LEMMA InvOthers ==
  ASSUME TypeInv, StreamsInv,
         UNCHANGED <<kind, secure, wire, writeVars, need, taken, got>>
  PROVE  TypeInv' /\ StreamsInv'
<1>1. /\ UNCHANGED <<kind, secure, lock, begun, rest, buffer, wire, sent, torn>>
      /\ UNCHANGED <<need, taken, got>>
  BY DEF writeVars
<1>2. /\ Cut' = Cut /\ Stream' = Stream /\ Due' = Due /\ Pending' = Pending
  BY <1>1, CutStep DEF Stream, Due, Pending
<1> QED
  BY <1>1, <1>2
  DEF TypeInv, StreamsInv, BufferInv, LockInv, GotInv, TakenInv, StreamInv

LEMMA InvStep == TypeInv /\ StreamsInv /\ [Next]_vars => TypeInv' /\ StreamsInv'
<1> SUFFICES ASSUME TypeInv, StreamsInv, [Next]_vars
             PROVE  TypeInv' /\ StreamsInv'
  OBVIOUS
<1>1. CASE \E t \in Task : Begin(t) \/ WritePart(t)
  BY <1>1, InvBegin, InvWrite
<1>2. CASE DropCall
  BY <1>2, InvDrop
<1>3. CASE ReadPart
  BY <1>3, InvRead
<1>4. CASE RefusePart
  BY <1>4, InvOthers DEF RefusePart
<1>5. CASE PayloadTimesOut
  BY <1>5, InvOthers DEF PayloadTimesOut
<1>6. CASE UNCHANGED vars
  BY <1>6, InvOthers DEF vars, readVars
<1> QED
  BY <1>1, <1>2, <1>3, <1>4, <1>5, <1>6 DEF Next

(***************************************************************************)
(* The steps of Writer are steps of MessagePipe.                           *)
(***************************************************************************)

\* The frames that have come out whole.
LEMMA WholeOf ==
  ASSUME NEW s \in Seq(Frame), NEW g \in Seq(Frame \cup {Garbage}),
         NEW ragged, ~ragged => Len(g) <= Len(s),
         \A i \in 1..Len(g) : i <= Len(s) => g[i] = s[i]
  PROVE  LET w == IF ragged /\ Len(g) > Len(s) THEN SubSeq(g, 1, Len(s)) ELSE g
         IN /\ Len(g) \in Nat /\ Len(s) \in Nat
            /\ Len(g) <= Len(s) => w = g
            /\ Len(g) >= Len(s) => w = s
<1> DEFINE w == IF ragged /\ Len(g) > Len(s) THEN SubSeq(g, 1, Len(s)) ELSE g
           n == Len(s)
<1>1. s \in Seq(Frame \cup {Garbage}) /\ Len(g) \in Nat /\ n \in Nat
  BY SeqMonotonic, LenProperties
<1>2. ASSUME Len(g) <= n PROVE w = g
  BY <1>1, <1>2
<1>3. ASSUME Len(g) = n PROVE w = s
  <2>1. \A i \in 1..Len(g) : g[i] = s[i]
    BY <1>1, <1>3
  <2>2. g = s
    BY <1>1, <1>3, <2>1, SeqEqual
  <2> QED
    BY <1>1, <1>2, <1>3, <2>2
<1>4. ASSUME Len(g) > n PROVE w = s
  <2> DEFINE v == SubSeq(g, 1, n)
  <2>1. ragged
    BY <1>1, <1>4
  <2>2. w = v
    BY <1>4, <2>1
  <2>3. \A i \in 1..n : i \in 1..Len(g) /\ i <= n
    BY <1>1, <1>4
  <2>4. /\ v \in Seq(Frame \cup {Garbage})
        /\ Len(v) = IF 1 <= n THEN n - 1 + 1 ELSE 0
        /\ \A i \in 1..(n - 1 + 1) : v[i] = g[1 + i - 1]
    <3>1. \A i \in 1..n : g[i] \in Frame \cup {Garbage}
      BY <1>1, <2>3, ElementOfSeq
    <3>2. 1 \in Int /\ n \in Int
      BY <1>1
    <3> QED
      BY <3>1, <3>2, SubSeqProperties
  <2>5. \A i \in 1..n : g[i] = s[i]
    BY <2>3
  <2> HIDE DEF v, n
  <2>6. Len(v) = n /\ \A i \in 1..n : v[i] = g[i]
    BY <1>1, <2>4
  <2>7. v = s
    BY <1>1, <2>4, <2>5, <2>6, SeqEqual DEF n
  <2> QED
    BY <2>2, <2>7
<1> QED
  BY <1>1, <1>2, <1>3, <1>4

LEMMA WholeIs ==
  ASSUME TypeInv, GotInv
  PROVE  /\ Len(got) \in Nat /\ Len(sent) \in Nat
         /\ Len(got) <= Len(sent) => Whole = got
         /\ Len(got) >= Len(sent) => Whole = sent
<1>1. /\ sent \in Seq(Frame) /\ got \in Seq(Frame \cup {Garbage})
      /\ ~torn => Len(got) <= Len(sent)
      /\ \A i \in 1..Len(got) : i <= Len(sent) => got[i] = sent[i]
  BY DEF TypeInv, GotInv
<1> QED
  BY <1>1, WholeOf DEF Whole

LEMMA WholeNext ==
  ASSUME TypeInv', GotInv'
  PROVE  /\ Len(got') <= Len(sent') => Whole' = got'
         /\ Len(got') >= Len(sent') => Whole' = sent'
<1>1. /\ sent' \in Seq(Frame) /\ got' \in Seq(Frame \cup {Garbage})
      /\ ~torn' => Len(got') <= Len(sent')
      /\ \A i \in 1..Len(got') : i <= Len(sent') => got'[i] = sent'[i]
  BY DEF TypeInv, GotInv
<1> QED
  BY <1>1, WholeOf DEF Whole

LEMMA ReadType ==
  ASSUME TypeInv, wire # <<>>
  PROVE  Read(Parted) \in Frame \cup {Garbage}
<1>1. Parted \in Seq(AnyPart) /\ 1 \in 1..Len(Parted)
  BY PartedType
<1>2. Parted[1] \in AnyPart
  BY <1>1, ElementOfSeq
<1> QED
  BY <1>2 DEF Read, AnyPart

LEMMA WriterMapsInit == Init => Frames!Init
<1> SUFFICES ASSUME Init PROVE Whole = <<>> /\ sent = <<>>
  BY DEF Frames!Init
<1> QED
  BY DEF Init, Whole

LEMMA WriterMapsStep ==
  TypeInv /\ StreamsInv /\ TypeInv' /\ StreamsInv' /\ [Next]_vars
    => [Frames!Send \/ Frames!Receive]_<<sent, Whole>>
<1> SUFFICES ASSUME TypeInv, StreamsInv, TypeInv', StreamsInv', [Next]_vars
             PROVE  [Frames!Send \/ Frames!Receive]_<<sent, Whole>>
  OBVIOUS
<1>1. /\ Len(got) \in Nat /\ Len(sent) \in Nat
      /\ Len(got) <= Len(sent) => Whole = got
      /\ Len(got) >= Len(sent) => Whole = sent
      /\ ~torn => Len(got) <= Len(sent)
  BY WholeIs DEF StreamsInv, GotInv
<1>2. ASSUME UNCHANGED <<sent, got, torn>>
      PROVE  UNCHANGED <<sent, Whole>>
  BY <1>2 DEF Whole
<1>3. ASSUME NEW t \in Task, WritePart(t)
      PROVE  Frames!Send \/ UNCHANGED <<sent, Whole>>
  <2>1. CASE sent' = sent
    BY <1>2, <1>3, <2>1 DEF WritePart, readVars
  <2>2. CASE sent' # sent
    <3>1. /\ ~torn /\ ~torn' /\ got' = got /\ rest[t] # <<>>
          /\ sent' = Append(sent, Head(rest[t]).frame)
      BY <1>3, <2>2 DEF WritePart, readVars
    <3>2. Head(rest[t]).frame \in Frame
      BY <3>1, PendingOf DEF StreamsInv
    <3>3. Whole' = Whole
      BY <3>1 DEF Whole
    <3> QED
      BY <3>1, <3>2, <3>3 DEF Frames!Send
  <2> QED
    BY <2>1, <2>2
<1>4. ASSUME DropCall
      PROVE  UNCHANGED <<sent, Whole>>
  <2>1. sent' = sent /\ got' = got /\ (torn => torn')
    BY <1>4 DEF DropCall, readVars
  <2>2. CASE torn
    BY <2>1, <2>2 DEF Whole
  <2>3. CASE ~torn
    <3>1. ~(Len(got) > Len(sent))
      BY <2>3, <1>1
    <3> QED
      BY <2>1, <3>1 DEF Whole
  <2> QED
    BY <2>2, <2>3
<1>5. ASSUME ReadPart
      PROVE  Frames!Receive \/ UNCHANGED <<sent, Whole>>
  <2>1. /\ sent' = sent /\ torn' = torn
        /\ got' = got \/ got' = Append(got, Read(Parted))
    BY <1>5 DEF ReadPart, writeVars, Parted
  <2>2. CASE got' = got
    BY <2>1, <2>2, <1>2
  <2>3. CASE got' # got
    <3>1. /\ Len(got') = Len(got) + 1
          /\ \A i \in 1..Len(got) : got'[i] = got[i]
      BY <2>1, <2>3, AppendProperties, ReadType DEF TypeInv
    <3>2. /\ Len(got') <= Len(sent) => Whole' = got'
          /\ Len(got') >= Len(sent) => Whole' = sent
      BY <2>1, WholeNext DEF StreamsInv
    <3>3. CASE Len(got) < Len(sent)
      <4>1. Whole = got /\ Whole' = got' /\ Len(got) + 1 <= Len(sent)
        BY <1>1, <3>1, <3>2, <3>3
      <4>2. got'[Len(got) + 1] = sent[Len(got) + 1]
        <5>1. Len(got) + 1 \in 1..Len(got')
          BY <1>1, <3>1
        <5> QED
          BY <2>1, <4>1, <5>1 DEF StreamsInv, GotInv
      <4>3. got'[Len(got) + 1] = Read(Parted)
        BY <2>1, <2>3, <1>5, AppendProperties, ReadType DEF TypeInv
      <4>4. got' = Append(got, sent[Len(got) + 1])
        BY <2>1, <2>3, <4>2, <4>3
      <4> QED
        BY <2>1, <3>3, <4>1, <4>4 DEF Frames!Receive
    <3>4. CASE ~(Len(got) < Len(sent))
      BY <1>1, <2>1, <3>1, <3>2, <3>4
    <3> QED
      BY <3>3, <3>4
  <2> QED
    BY <2>2, <2>3
<1>6. ASSUME NEW t \in Task, Begin(t) PROVE UNCHANGED <<sent, Whole>>
  BY <1>2, <1>6 DEF Begin, readVars
<1>7. ASSUME RefusePart \/ PayloadTimesOut \/ UNCHANGED vars
      PROVE  UNCHANGED <<sent, Whole>>
  BY <1>2, <1>7 DEF RefusePart, PayloadTimesOut, vars, writeVars, readVars
<1> QED
  BY <1>3, <1>4, <1>5, <1>6, <1>7 DEF Next

\* Every frame that is written comes out whole, once and in its order,
\* whichever task wrote it and whatever the stream holds back, until a call
\* is dropped inside a frame; and then those written before still do
\* (write.rs:30-131, read.rs:168-290, split.rs:225-230).
THEOREM FramesImplemented == Spec => FramesStayWhole
<1>1. Init => Frames!Init
  BY WriterMapsInit
<1>2. Init => TypeInv /\ StreamsInv
  BY InvInit
<1> QED
  BY <1>1, <1>2, InvStep, WriterMapsStep, PTL
  DEF Spec, FramesStayWhole, Frames!Spec
=============================================================================
