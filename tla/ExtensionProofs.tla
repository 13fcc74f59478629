-------------------------- MODULE ExtensionProofs --------------------------
(***************************************************************************)
(* What the negotiation of extensions computes, for any settings of the    *)
(* two users: a header that was written is read as it was meant, and what  *)
(* the server has agreed to reaches its client as it is.                   *)
(***************************************************************************)
EXTENDS Extensions, WellFoundedInduction, SequenceTheorems, TLAPS

(***************************************************************************)
(* Indices: a set of natural numbers has a least element, and a set of     *)
(* indices a greatest.                                                     *)
(***************************************************************************)

\* The order of the natural numbers, as a set of pairs, has no infinite
\* descent.
LEMMA NumbersDescend == IsWellFoundedOn({p \in Nat \X Nat : p[1] < p[2]}, Nat)
  BY NatLessThanWellFounded DEF OpToRel

\* A set of numbers has a least one.
LEMMA Least ==
  ASSUME NEW S, S \subseteq Nat, S # {}
  PROVE  \E x \in S : \A y \in S : x <= y
<1> DEFINE R == {p \in Nat \X Nat : p[1] < p[2]}
<1>1. IsWellFoundedOn(R, Nat)
  BY NumbersDescend
<1> HIDE DEF R
<1>2. PICK x \in S : \A y \in S : <<y, x>> \notin R
  BY <1>1, WFMin
<1>3. \A y \in S : ~ (y < x)
  BY <1>2 DEF R
<1> QED
  BY <1>3

\* A set of indices has a greatest one, and Max is that.
LEMMA Greatest ==
  ASSUME NEW n \in Nat, NEW S, S \subseteq 1..n, S # {}
  PROVE  /\ Max(S) \in S
         /\ \A y \in S : y <= Max(S)
<1> DEFINE T == {m \in Nat : n - m \in S}
<1>1. T # {}
  <2>1. PICK x \in S : TRUE
    OBVIOUS
  <2>2. n - x \in Nat /\ n - (n - x) = x
    OBVIOUS
  <2> QED
    BY <2>1, <2>2
<1>2. PICK d \in T : \A m \in T : d <= m
  BY <1>1, Least
<1>3. \A y \in S : y <= n - d
  <2>1. ASSUME NEW y \in S PROVE y <= n - d
    <3>1. y \in 1..n /\ n - y \in Nat /\ n - (n - y) = y
      OBVIOUS
    <3>2. n - y \in T
      BY <3>1
    <3> QED
      BY <1>2, <3>1, <3>2
  <2> QED
    BY <2>1
<1>4. \E x \in S : \A y \in S : x >= y
  BY <1>2, <1>3
<1>5. Max(S) \in S /\ \A y \in S : Max(S) >= y
  BY <1>4 DEF Max
<1> QED
  BY <1>5

(***************************************************************************)
(* Headers: the last of a name counts.                                     *)
(***************************************************************************)
LEMMA LastNamedType ==
  ASSUME NEW S, NEW s \in Seq(S), NEW name
  PROVE  LastNamed(s, name) = None
           \/ (LastNamed(s, name) \in S /\ LastNamed(s, name).name = name)
<1> DEFINE I == {i \in 1..Len(s) : s[i].name = name}
<1>1. ASSUME I # {} PROVE Max(I) \in I
  BY <1>1, Greatest, Len(s) \in Nat, I \subseteq 1..Len(s)
<1>2. LastNamed(s, name) = IF I = {} THEN None ELSE s[Max(I)]
  BY DEF LastNamed
<1> HIDE DEF I
<1>3. \A i \in I : s[i] \in S /\ s[i].name = name
  BY DEF I
<1> QED
  BY <1>1, <1>2, <1>3

LEMMA LastNamedEmpty ==
  ASSUME NEW name
  PROVE  LastNamed(<<>>, name) = None
  BY DEF LastNamed

\* An element that is appended is found, and hides no other.
LEMMA LastNamedAppend ==
  ASSUME NEW S, NEW s \in Seq(S), NEW p \in S
  PROVE  /\ s \o <<p>> \in Seq(S)
         /\ \A name :
              LastNamed(s \o <<p>>, name) = IF p.name = name THEN p
                                           ELSE LastNamed(s, name)
<1> DEFINE t == s \o <<p>>
<1>1. /\ t \in Seq(S) /\ Len(t) = Len(s) + 1 /\ t[Len(s) + 1] = p
      /\ \A i \in 1..Len(s) : t[i] = s[i]
      /\ Len(s) \in Nat
  OBVIOUS
<1> HIDE DEF t
<1>2. ASSUME NEW name
      PROVE  LastNamed(t, name) = IF p.name = name THEN p
                                  ELSE LastNamed(s, name)
  <2> DEFINE I == {i \in 1..Len(s) : s[i].name = name}
             J == {i \in 1..Len(t) : t[i].name = name}
  <2>1. LastNamed(t, name) = IF J = {} THEN None ELSE t[Max(J)]
    BY DEF LastNamed
  <2>2. LastNamed(s, name) = IF I = {} THEN None ELSE s[Max(I)]
    BY DEF LastNamed
  <2>3. I \subseteq 1..Len(s) /\ J \subseteq 1..(Len(s) + 1)
    BY <1>1
  <2>4. J = I \cup (IF p.name = name THEN {Len(s) + 1} ELSE {})
    <3>1. ASSUME NEW i \in 1..Len(s) PROVE i \in J <=> i \in I
      BY <1>1, <3>1
    <3>2. Len(s) + 1 \in J <=> p.name = name
      BY <1>1
    <3>3. Len(s) + 1 \notin I
      BY <1>1
    <3> HIDE DEF I, J
    <3>4. ASSUME NEW i PROVE i \in J => i \in 1..Len(s) \/ i = Len(s) + 1
      BY <1>1, <2>3
    <3> QED
      BY <1>1, <2>3, <3>1, <3>2, <3>3, <3>4
  <2> HIDE DEF I, J
  <2>5. CASE p.name = name
    <3>1. Len(s) + 1 \in J /\ Len(s) + 1 \in Nat
      BY <1>1, <2>4, <2>5
    <3>2. Max(J) \in J /\ Len(s) + 1 <= Max(J)
      BY <2>3, <3>1, Greatest
    <3>3. Max(J) \in 1..(Len(s) + 1)
      BY <2>3, <3>2
    <3>4. Max(J) = Len(s) + 1
      BY <1>1, <3>2, <3>3
    <3> QED
      BY <1>1, <2>1, <2>5, <3>1, <3>4
  <2>6. CASE p.name # name
    <3>1. J = I
      BY <2>4, <2>6
    <3>2. I # {} => Max(I) \in 1..Len(s)
      BY <1>1, <2>3, Greatest
    <3> QED
      BY <1>1, <2>1, <2>2, <2>6, <3>1, <3>2
  <2> QED
    BY <2>5, <2>6
<1> QED
  BY <1>1, <1>2 DEF t

(***************************************************************************)
(* What is written into a header is read there again: flags as Some(true)  *)
(* or nothing, widths as they are.                                         *)
(***************************************************************************)
OnlyTrue(flag) == IF IsTrue(flag) THEN TRUE ELSE None

AsRead(e) ==
    [permessage_deflate |-> TRUE,
     client_no_context_takeover |-> OnlyTrue(e.client_no_context_takeover),
     server_no_context_takeover |-> OnlyTrue(e.server_no_context_takeover),
     client_max_window_bits |-> e.client_max_window_bits,
     server_max_window_bits |-> e.server_max_window_bits]

\* A flag that is set is found, and nothing else than before.
LEMMA FlagPushed ==
  ASSUME NEW s \in Seq(Param), NEW flag,
         NEW key \in {"client_no_context_takeover",
                      "server_no_context_takeover"}
  PROVE  /\ s \o IfTrue(flag, key) \in Seq(Param)
         /\ \A name :
              LastNamed(s \o IfTrue(flag, key), name)
                = IF IsTrue(flag) /\ name = key THEN P(key, None)
                  ELSE LastNamed(s, name)
<1>1. P(key, None) \in Param /\ P(key, None).name = key
  BY DEF P, Param, Width
<1>2. s \o <<>> = s
  OBVIOUS
<1>3. CASE IsTrue(flag)
  BY <1>1, <1>3, LastNamedAppend DEF IfTrue
<1>4. CASE ~IsTrue(flag)
  BY <1>2, <1>4 DEF IfTrue
<1> QED
  BY <1>3, <1>4

\* The same of a width.
LEMMA WidthPushed ==
  ASSUME NEW s \in Seq(Param), NEW width \in Width,
         NEW key \in {"client_max_window_bits", "server_max_window_bits"}
  PROVE  /\ s \o IfSome(width, key) \in Seq(Param)
         /\ \A name :
              LastNamed(s \o IfSome(width, key), name)
                = IF width # None /\ name = key THEN P(key, width)
                  ELSE LastNamed(s, name)
<1>1. P(key, width) \in Param /\ P(key, width).name = key
  BY DEF P, Param
<1>2. s \o <<>> = s
  OBVIOUS
<1>3. CASE width # None
  BY <1>1, <1>3, LastNamedAppend DEF IfSome
<1>4. CASE width = None
  BY <1>2, <1>4 DEF IfSome
<1> QED
  BY <1>3, <1>4

LEMMA ReadsBack ==
  ASSUME NEW e \in Settings
  PROVE  /\ HeaderValue(e) \in Seq(Param)
         /\ parse_extensions(HeaderValue(e)) = AsRead(e)
<1> DEFINE
      a == P("permessage-deflate", None)
      h1 == <<a>>
      h2 == h1 \o IfTrue(e.client_no_context_takeover,
                         "client_no_context_takeover")
      h3 == h2 \o IfTrue(e.server_no_context_takeover,
                         "server_no_context_takeover")
      h4 == h3 \o IfSome(e.client_max_window_bits, "client_max_window_bits")
      h5 == h4 \o IfSome(e.server_max_window_bits, "server_max_window_bits")
<1>1. /\ e.client_max_window_bits \in Width
      /\ e.server_max_window_bits \in Width
  BY DEF Settings
<1>2. \A key \in {"permessage-deflate", "client_no_context_takeover",
                  "server_no_context_takeover", "client_max_window_bits",
                  "server_max_window_bits"}, w \in Width :
         /\ P(key, w) \in Param /\ P(key, w) # None
         /\ P(key, w).name = key /\ P(key, w).value = w
  <2>1. None \notin Param
    BY AbsentAssumption
  <2> QED
    BY <2>1 DEF P, Param
<1>3. None \in Width
  BY DEF Width
<1>4. HeaderValue(e) = h5
  BY DEF HeaderValue
<1>5. /\ h1 \in Seq(Param)
      /\ \A n : LastNamed(h1, n) = IF n = "permessage-deflate" THEN a
                                   ELSE None
  <2>1. <<>> \in Seq(Param) /\ <<>> \o <<a>> = h1
    OBVIOUS
  <2>2. a \in Param /\ a.name = "permessage-deflate"
    BY <1>2, <1>3
  <2> HIDE DEF a, h1
  <2> QED
    <3>1. /\ <<>> \o <<a>> \in Seq(Param)
          /\ \A n : LastNamed(<<>> \o <<a>>, n)
                     = IF a.name = n THEN a ELSE LastNamed(<<>>, n)
      BY <2>1, <2>2, LastNamedAppend
    <3> QED
      BY <2>1, <2>2, <3>1, LastNamedEmpty
<1> HIDE DEF h1
<1>6. /\ h2 \in Seq(Param)
      /\ \A n : LastNamed(h2, n) =
                   IF IsTrue(e.client_no_context_takeover)
                      /\ n = "client_no_context_takeover"
                   THEN P("client_no_context_takeover", None)
                   ELSE LastNamed(h1, n)
  BY <1>5, FlagPushed
<1> HIDE DEF h2
<1>7. /\ h3 \in Seq(Param)
      /\ \A n : LastNamed(h3, n) =
                   IF IsTrue(e.server_no_context_takeover)
                      /\ n = "server_no_context_takeover"
                   THEN P("server_no_context_takeover", None)
                   ELSE LastNamed(h2, n)
  BY <1>6, FlagPushed
<1> HIDE DEF h3
<1>8. /\ h4 \in Seq(Param)
      /\ \A n : LastNamed(h4, n) =
                   IF e.client_max_window_bits # None
                      /\ n = "client_max_window_bits"
                   THEN P("client_max_window_bits", e.client_max_window_bits)
                   ELSE LastNamed(h3, n)
  BY <1>1, <1>7, WidthPushed
<1> HIDE DEF h4
<1>9. /\ h5 \in Seq(Param)
      /\ \A n : LastNamed(h5, n) =
                   IF e.server_max_window_bits # None
                      /\ n = "server_max_window_bits"
                   THEN P("server_max_window_bits", e.server_max_window_bits)
                   ELSE LastNamed(h4, n)
  BY <1>1, <1>8, WidthPushed
<1> HIDE DEF h5
<1>10. /\ LastNamed(h5, "permessage-deflate") = a
       /\ LastNamed(h5, "client_no_context_takeover")
             = IF IsTrue(e.client_no_context_takeover)
               THEN P("client_no_context_takeover", None) ELSE None
       /\ LastNamed(h5, "server_no_context_takeover")
             = IF IsTrue(e.server_no_context_takeover)
               THEN P("server_no_context_takeover", None) ELSE None
       /\ LastNamed(h5, "client_max_window_bits")
             = IF e.client_max_window_bits # None
               THEN P("client_max_window_bits", e.client_max_window_bits)
               ELSE None
       /\ LastNamed(h5, "server_max_window_bits")
             = IF e.server_max_window_bits # None
               THEN P("server_max_window_bits", e.server_max_window_bits)
               ELSE None
  BY <1>5, <1>6, <1>7, <1>8, <1>9
<1>11. /\ FlagIn(h5, "client_no_context_takeover")
             = OnlyTrue(e.client_no_context_takeover)
       /\ FlagIn(h5, "server_no_context_takeover")
             = OnlyTrue(e.server_no_context_takeover)
  <2>1. /\ P("client_no_context_takeover", None) # None
        /\ P("server_no_context_takeover", None) # None
    BY <1>2, <1>3
  <2> QED
    BY <2>1, <1>10 DEF FlagIn, OnlyTrue
<1>12. \A w \in Width : w = None \/ w # Garbled
  BY DEF Width, Garbled
<1>13. WidthIn(h5, "client_max_window_bits") = e.client_max_window_bits
  BY <1>1, <1>2, <1>10, <1>12 DEF WidthIn
<1>14. WidthIn(h5, "server_max_window_bits") = e.server_max_window_bits
  BY <1>1, <1>2, <1>10, <1>12 DEF WidthIn
<1>15. a # None
  BY <1>2, <1>3
<1>16. parse_extensions(h5) = AsRead(e)
  BY <1>10, <1>11, <1>13, <1>14, <1>15 DEF parse_extensions, AsRead
<1> QED
  BY <1>4, <1>9, <1>16

\* What is read is a setting with compression on, or nothing.
LEMMA ParseType ==
  ASSUME NEW params \in Seq(Param)
  PROVE  /\ parse_extensions(params) \in {None} \cup Settings
         /\ parse_extensions(params) # None
              => /\ parse_extensions(params).permessage_deflate
                 /\ parse_extensions(params).client_no_context_takeover
                      \in {None, TRUE}
                 /\ parse_extensions(params).server_no_context_takeover
                      \in {None, TRUE}
<1>1. \A name : FlagIn(params, name) \in {None, TRUE}
  BY DEF FlagIn
<1>2. \A name : WidthIn(params, name) \in Width
  <2> SUFFICES ASSUME NEW name PROVE WidthIn(params, name) \in Width
    OBVIOUS
  <2> DEFINE p == LastNamed(params, name)
  <2>1. p = None \/ p \in Param
    BY LastNamedType
  <2> HIDE DEF p
  <2>2. p \in Param => p.value \in Width \cup {Garbled}
    BY DEF Param
  <2>3. 15 \in Width /\ None \in Width
    BY DEF Width
  <2>4. WidthIn(params, name) =
          IF p = None THEN None
          ELSE IF p.value = None THEN 15
          ELSE IF p.value = Garbled THEN None
          ELSE p.value
    BY DEF WidthIn, p
  <2> QED
    BY <2>1, <2>2, <2>3, <2>4
<1> QED
  BY <1>1, <1>2 DEF parse_extensions, Settings, Flag

LEMMA ReadsType ==
  ASSUME NEW e \in {None} \cup Settings
  PROVE  /\ Reads(e) \in {None} \cup Settings
         /\ Reads(e) = IF Deflates(e) THEN AsRead(e) ELSE None
  BY ReadsBack, ParseType DEF Reads, Deflates

LEMMA MergeType ==
  ASSUME NEW a \in {None} \cup Settings, NEW b \in {None} \cup Settings
  PROVE  merge_extensions(a, b) \in {None} \cup Settings
<1>1. \A u, v \in Flag : And(u, v) \in Flag
  BY DEF And, Flag
<1>2. \A u, v \in Width : Narrower(u, v) \in Width
  BY DEF Narrower
<1> QED
  BY <1>1, <1>2 DEF merge_extensions, Settings

(***************************************************************************)
(* The agreement.                                                          *)
(***************************************************************************)

\* What a server agrees to reaches its client as it is.
LEMMA AgreedReadsBack ==
  ASSUME NEW own \in {None} \cup Settings, NEW asked \in {None} \cup Settings
  PROVE  LET e == merge_extensions(own, Reads(asked))
         IN /\ Deflates(e) => Reads(e) = e
            /\ ~Deflates(e) => Reads(e) = None
<1>1. PICK e : e = merge_extensions(own, Reads(asked))
  OBVIOUS
<1>2. Reads(asked) \in {None} \cup Settings /\ e \in {None} \cup Settings
  BY <1>1, ReadsType, MergeType
<1>3. ASSUME Deflates(e) PROVE Reads(e) = e
  <2>1. own # None /\ Reads(asked) # None
    BY <1>1, <1>3 DEF Deflates, merge_extensions
  <2>2. Reads(asked) = AsRead(asked)
    BY <2>1, ReadsType
  <2>3. /\ e.permessage_deflate = TRUE
        /\ e.client_no_context_takeover
             = And(own.client_no_context_takeover,
                   OnlyTrue(asked.client_no_context_takeover))
        /\ e.server_no_context_takeover
             = And(own.server_no_context_takeover,
                   OnlyTrue(asked.server_no_context_takeover))
    <3>1. e = [permessage_deflate |->
                   Reads(asked).permessage_deflate /\ own.permessage_deflate,
               client_no_context_takeover |->
                   And(own.client_no_context_takeover,
                       Reads(asked).client_no_context_takeover),
               server_no_context_takeover |->
                   And(own.server_no_context_takeover,
                       Reads(asked).server_no_context_takeover),
               client_max_window_bits |->
                   Narrower(own.client_max_window_bits,
                            Reads(asked).client_max_window_bits),
               server_max_window_bits |->
                   Narrower(own.server_max_window_bits,
                            Reads(asked).server_max_window_bits)]
      BY <1>1, <2>1 DEF merge_extensions
    <3>2. e.permessage_deflate
      BY <1>3 DEF Deflates
    <3>3. e.permessage_deflate \in BOOLEAN
      BY <1>2, <1>3 DEF Deflates, Settings
    <3> QED
      BY <2>2, <3>1, <3>2, <3>3 DEF AsRead
  <2>4. \A f, g : OnlyTrue(And(f, OnlyTrue(g))) = And(f, OnlyTrue(g))
    BY AbsentAssumption DEF OnlyTrue, And, IsTrue
  <2>5. Reads(e) = AsRead(e)
    BY <1>2, <1>3, ReadsType
  <2>6. AsRead(e) = [permessage_deflate |-> e.permessage_deflate,
                     client_no_context_takeover |-> e.client_no_context_takeover,
                     server_no_context_takeover |-> e.server_no_context_takeover,
                     client_max_window_bits |-> e.client_max_window_bits,
                     server_max_window_bits |-> e.server_max_window_bits]
    BY <2>3, <2>4 DEF AsRead
  <2>7. e \in Settings
    BY <1>2, <1>3 DEF Deflates
  <2>8. e = [permessage_deflate |-> e.permessage_deflate,
             client_no_context_takeover |-> e.client_no_context_takeover,
             server_no_context_takeover |-> e.server_no_context_takeover,
             client_max_window_bits |-> e.client_max_window_bits,
             server_max_window_bits |-> e.server_max_window_bits]
    BY <2>7 DEF Settings
  <2> QED
    BY <2>5, <2>6, <2>8
<1>4. ~Deflates(e) => Reads(e) = None
  BY <1>2, ReadsType
<1> QED
  BY <1>1, <1>3, <1>4
=============================================================================
