---------------------------- MODULE OseBundleProofs ----------------------------
(***************************************************************************)
(* Lemmas about sequences, and about the operations of libose on them,     *)
(* that the proofs about what works on a bundle need.                      *)
(***************************************************************************)
EXTENDS OseBundle, SequenceTheorems, WellFoundedInduction, TLAPS

-----------------------------------------------------------------------------
(* Sequences of whatever they hold: elements have no type of their own.    *)
IsSeq(s) == s \in Seq(Range(s))

LEMMA SeqIsSeq ==
    ASSUME NEW S, NEW s \in Seq(S)
    PROVE  /\ IsSeq(s) /\ Len(s) \in Nat /\ DOMAIN s = 1 .. Len(s)
<1>1. Len(s) \in Nat /\ DOMAIN s = 1 .. Len(s) /\ s \in [1 .. Len(s) -> S]
  BY LenProperties
<1>2. s \in [1 .. Len(s) -> Range(s)]
  BY <1>1 DEF Range
<1>3. s \in Seq(Range(s))
  BY <1>1, <1>2, SeqDef
<1> QED BY <1>1, <1>3 DEF IsSeq

LEMMA SeqType ==
    ASSUME NEW s, IsSeq(s)
    PROVE  Len(s) \in Nat /\ DOMAIN s = 1 .. Len(s)
BY LenProperties DEF IsSeq

(* Two sequences are sequences over what both hold. *)
LEMMA CommonElements ==
    ASSUME NEW s, NEW t, IsSeq(s), IsSeq(t)
    PROVE  \E S : s \in Seq(S) /\ t \in Seq(S)
<1> DEFINE S == Range(s) \union Range(t)
<1>1. s \in Seq(S) /\ t \in Seq(S)
  BY SeqMonotonic DEF IsSeq
<1> QED BY <1>1

LEMMA ConcatSeq ==
    ASSUME NEW s, NEW t, IsSeq(s), IsSeq(t)
    PROVE  /\ IsSeq(s \o t) /\ Len(s \o t) = Len(s) + Len(t)
           /\ \A i \in 1 .. Len(s) : (s \o t)[i] = s[i]
           /\ \A i \in 1 .. Len(t) : (s \o t)[Len(s) + i] = t[i]
<1>1. PICK S : s \in Seq(S) /\ t \in Seq(S)
  BY CommonElements
<1>2. /\ s \o t \in Seq(S) /\ Len(s \o t) = Len(s) + Len(t)
      /\ \A i \in 1 .. Len(s) + Len(t) :
            (s \o t)[i] = IF i <= Len(s) THEN s[i] ELSE t[i - Len(s)]
  BY <1>1, ConcatProperties
<1>3. Len(s) \in Nat /\ Len(t) \in Nat
  BY SeqType
<1>4. IsSeq(s \o t)
  BY <1>2, SeqIsSeq
<1>5. ASSUME NEW i \in 1 .. Len(s) PROVE (s \o t)[i] = s[i]
  BY <1>2, <1>3
<1>6. ASSUME NEW i \in 1 .. Len(t) PROVE (s \o t)[Len(s) + i] = t[i]
  <2>1. Len(s) + i \in 1 .. Len(s) + Len(t) /\ ~(Len(s) + i <= Len(s))
        /\ Len(s) + i - Len(s) = i
    BY <1>3
  <2> QED BY <1>2, <2>1
<1> QED BY <1>2, <1>4, <1>5, <1>6

LEMMA AppendSeq ==
    ASSUME NEW s, NEW e, IsSeq(s)
    PROVE  /\ IsSeq(Append(s, e)) /\ Len(Append(s, e)) = Len(s) + 1
           /\ \A i \in 1 .. Len(s) : Append(s, e)[i] = s[i]
           /\ Append(s, e)[Len(s) + 1] = e
<1> DEFINE S == Range(s) \union {e}
<1>1. s \in Seq(S) /\ e \in S
  BY SeqMonotonic DEF IsSeq
<1> HIDE DEF S
<1>2. /\ Append(s, e) \in Seq(S) /\ Len(Append(s, e)) = Len(s) + 1
      /\ \A i \in 1 .. Len(s) : Append(s, e)[i] = s[i]
      /\ Append(s, e)[Len(s) + 1] = e
  BY <1>1, AppendProperties
<1> QED BY <1>2, SeqIsSeq

LEMMA DropSeq ==
    ASSUME NEW s, IsSeq(s), NEW n \in Nat, n <= Len(s)
    PROVE  /\ IsSeq(DropTop(s, n)) /\ Len(DropTop(s, n)) = Len(s) - n
           /\ \A i \in 1 .. Len(s) - n : DropTop(s, n)[i] = s[i]
<1>1. Len(s) \in Nat
  BY SeqType
<1> DEFINE m == Len(s) - n
           t == SubSeq(s, 1, m)
<1>2. m \in Nat /\ m <= Len(s)
  BY <1>1
<1>3. \A i \in 1 .. m : s[i] \in Range(s)
  BY <1>1, <1>2, ElementOfSeq DEF IsSeq
<1> HIDE DEF m
<1>4. /\ t \in Seq(Range(s)) /\ Len(t) = IF 1 <= m THEN m - 1 + 1 ELSE 0
      /\ \A i \in 1 .. m - 1 + 1 : t[i] = s[1 + i - 1]
  BY <1>2, <1>3, SubSeqProperties
<1> HIDE DEF t
<1>5. IsSeq(t) /\ Len(t) = m /\ \A i \in 1 .. m : t[i] = s[i]
  BY <1>2, <1>4, SeqIsSeq
<1> QED BY <1>5 DEF t, m, DropTop

LEMMA FrontSeq ==
    ASSUME NEW s, IsSeq(s), s # <<>>
    PROVE  /\ IsSeq(Front(s)) /\ Len(Front(s)) = Len(s) - 1 /\ Len(s) \in Nat \ {0}
           /\ \A i \in 1 .. Len(s) - 1 : Front(s)[i] = s[i]
<1>1. Len(s) \in Nat \ {0}
  BY EmptySeq DEF IsSeq
<1>2. Front(s) = DropTop(s, 1)
  BY DEF Front, DropTop
<1>3. 1 \in Nat /\ 1 <= Len(s)
  BY <1>1
<1>4. /\ IsSeq(DropTop(s, 1)) /\ Len(DropTop(s, 1)) = Len(s) - 1
      /\ \A i \in 1 .. Len(s) - 1 : DropTop(s, 1)[i] = s[i]
  BY <1>3, DropSeq
<1> QED BY <1>1, <1>2, <1>4

LEMMA EmptyIsSeq == IsSeq(<<>>) /\ Len(<<>>) = 0
BY EmptySeq DEF IsSeq

LEMMA OneIsSeq == ASSUME NEW e PROVE IsSeq(<<e>>) /\ Len(<<e>>) = 1 /\ <<e>>[1] = e
<1>1. <<e>> \in Seq({e}) /\ Len(<<e>>) = 1 /\ <<e>>[1] = e
  OBVIOUS
<1> QED BY <1>1, SeqIsSeq

LEMMA NotEmpty ==
    ASSUME NEW s, IsSeq(s), s # <<>>
    PROVE  Len(s) \in Nat /\ Len(s) >= 1 /\ Last(s) = s[Len(s)] /\ Head(s) = s[1]
<1>1. Len(s) \in Nat \ {0}
  BY EmptySeq DEF IsSeq
<1> QED BY <1>1 DEF Last

LEMMA TailSeq ==
    ASSUME NEW s, IsSeq(s), s # <<>>
    PROVE  /\ IsSeq(Tail(s)) /\ Len(Tail(s)) = Len(s) - 1
           /\ \A i \in 1 .. Len(s) - 1 : Tail(s)[i] = s[i + 1]
<1>1. /\ Tail(s) \in Seq(Range(s)) /\ Len(Tail(s)) = Len(s) - 1
      /\ \A i \in 1 .. Len(Tail(s)) : Tail(s)[i] = s[i + 1]
  BY HeadTailProperties DEF IsSeq
<1> QED BY <1>1, SeqIsSeq

LEMMA PrefixIs ==
    ASSUME NEW s, NEW t, IsSeq(s), IsSeq(t)
    PROVE  IsPrefix(s, t) <=> Len(s) <= Len(t) /\ \A i \in 1 .. Len(s) : s[i] = t[i]
<1>1. Len(s) \in Nat /\ Len(t) \in Nat
  BY SeqType
<1>2. CASE Len(s) <= Len(t)
  <2> DEFINE u == SubSeq(t, 1, Len(s))
             v == SubSeq(s, 1, Len(s))
  <2>1. v = s
    BY SubSeqFull DEF IsSeq
  <2>2. u = DropTop(t, Len(t) - Len(s))
    BY <1>1 DEF DropTop
  <2>3. IsSeq(u) /\ Len(u) = Len(s) /\ \A i \in 1 .. Len(s) : u[i] = t[i]
    <3> DEFINE n == Len(t) - Len(s)
    <3>1. n \in Nat /\ n <= Len(t) /\ Len(t) - n = Len(s)
      BY <1>1, <1>2
    <3> HIDE DEF n, u
    <3> QED BY <2>2, <3>1, DropSeq DEF n
  <2> HIDE DEF u, v
  <2>4. (\A i \in 1 .. Len(s) : s[i] = t[i]) => s = u
    <3>1. PICK S : s \in Seq(S) /\ u \in Seq(S)
      BY <2>3, CommonElements
    <3> QED BY <2>3, <3>1, SeqEqual
  <2>5. s = u => \A i \in 1 .. Len(s) : s[i] = t[i]
    BY <2>3
  <2> QED BY <1>2, <2>1, <2>4, <2>5 DEF IsPrefix, u, v
<1> QED BY <1>2 DEF IsPrefix

(* The elements up to the n-th are all that a prefix of n is about. *)
LEMMA PrefixKept ==
    ASSUME NEW s, NEW t, NEW u, IsSeq(s), IsSeq(t), IsSeq(u), IsPrefix(s, t),
           NEW n \in Nat, Len(s) <= n, n <= Len(u),
           \A i \in 1 .. n : u[i] = t[i]
    PROVE  IsPrefix(s, u)
<1>1. Len(s) \in Nat /\ Len(t) \in Nat /\ Len(u) \in Nat
  BY SeqType
<1>2. \A i \in 1 .. Len(s) : s[i] = t[i]
  BY PrefixIs
<1>3. Len(s) <= Len(u) /\ \A i \in 1 .. Len(s) : s[i] = u[i]
  BY <1>1, <1>2
<1> QED BY <1>3, PrefixIs

LEMMA PrefixItself == ASSUME NEW s, IsSeq(s) PROVE IsPrefix(s, s)
BY SeqType, PrefixIs

(* A nonempty set of numbers has a least one. *)
LEMMA LeastNumber ==
    ASSUME NEW T, T \subseteq Nat, T # {}
    PROVE  \E n \in T : \A m \in T : n <= m
<1> DEFINE Less == {ss \in Nat \X Nat : ss[1] < ss[2]}
<1>1. IsWellFoundedOn(Less, Nat)
  BY NatLessThanWellFounded, Zenon DEF OpToRel
<1> HIDE DEF Less
<1>2. PICK n \in T : \A m \in T : ~(<<m, n>> \in Less)
  BY <1>1, WFMin, Zenon
<1>3. \A m \in T : ~(m < n)
  BY <1>2 DEF Less
<1> QED BY <1>3

(* Sequences written out, put together. *)
LEMMA ConcatGroups ==
    ASSUME NEW r, NEW s, NEW t, IsSeq(r), IsSeq(s), IsSeq(t)
    PROVE  (r \o s) \o t = r \o (s \o t)
<1>1. PICK S : r \in Seq(S) /\ s \in Seq(S)
  BY CommonElements
<1> DEFINE U == S \union Range(t)
<1>2. r \in Seq(U) /\ s \in Seq(U) /\ t \in Seq(U)
  BY <1>1, SeqMonotonic DEF IsSeq
<1> HIDE DEF U
<1> QED BY <1>2, ConcatAssociative

LEMMA TwoIs == ASSUME NEW a, NEW b PROVE <<a, b>> = <<a>> \o <<b>>
<1> DEFINE s == <<a, b>>
           t == <<a>> \o <<b>>
<1>1. s \in Seq({a, b}) /\ Len(s) = 2 /\ s[1] = a /\ s[2] = b
  OBVIOUS
<1>2. Len(<<a>>) = 1 /\ Len(<<b>>) = 1 /\ <<a>>[1] = a /\ <<b>>[1] = b
  BY OneIsSeq
<1>3. <<a>> \in Seq({a, b}) /\ <<b>> \in Seq({a, b})
  OBVIOUS
<1>4. /\ t \in Seq({a, b}) /\ Len(t) = Len(<<a>>) + Len(<<b>>)
      /\ \A i \in 1 .. Len(<<a>>) + Len(<<b>>) :
            t[i] = IF i <= Len(<<a>>) THEN <<a>>[i] ELSE <<b>>[i - Len(<<a>>)]
  BY <1>3, ConcatProperties
<1> HIDE DEF s, t
<1>5. Len(t) = 2 /\ t[1] = a /\ t[2] = b
  BY <1>2, <1>4
<1>6. \A i \in 1 .. Len(s) : s[i] = t[i]
  BY <1>1, <1>5
<1>7. s = t
  BY <1>1, <1>4, <1>5, <1>6, SeqEqual
<1> QED BY <1>7 DEF s, t

LEMMA ThreeIs ==
    ASSUME NEW a, NEW b, NEW c PROVE <<a, b, c>> = (<<a>> \o <<b>>) \o <<c>>
<1>1. <<a, b, c>> = <<a, b>> \o <<c>>
  OBVIOUS
<1>2. <<a, b>> = <<a>> \o <<b>>
  BY TwoIs
<1> QED BY <1>1, <1>2, Zenon

LEMMA FourIs ==
    ASSUME NEW a, NEW b, NEW c, NEW d
    PROVE  <<a, b, c, d>> = ((<<a>> \o <<b>>) \o <<c>>) \o <<d>>
<1>1. <<a, b, c, d>> = <<a, b, c>> \o <<d>>
  OBVIOUS
<1>2. <<a, b, c>> = (<<a>> \o <<b>>) \o <<c>>
  BY ThreeIs
<1> QED BY <1>1, <1>2, Zenon

LEMMA TwoBehind ==
    ASSUME NEW s, IsSeq(s), NEW a, NEW b
    PROVE  s \o <<a, b>> = (s \o <<a>>) \o <<b>>
<1>1. IsSeq(<<a>>) /\ IsSeq(<<b>>)
  BY OneIsSeq
<1>2. (s \o <<a>>) \o <<b>> = s \o (<<a>> \o <<b>>)
  BY <1>1, ConcatGroups
<1>3. <<a, b>> = <<a>> \o <<b>>
  BY TwoIs
<1> QED BY <1>2, <1>3, Zenon

LEMMA ThreeBehind ==
    ASSUME NEW s, IsSeq(s), NEW a, NEW b, NEW c
    PROVE  s \o <<a, b, c>> = ((s \o <<a>>) \o <<b>>) \o <<c>>
<1>1. IsSeq(<<a>>) /\ IsSeq(<<b>>) /\ IsSeq(<<c>>)
  BY OneIsSeq
<1>2. IsSeq(<<a>> \o <<b>>)
  BY <1>1, ConcatSeq
<1>3. s \o ((<<a>> \o <<b>>) \o <<c>>) = (s \o (<<a>> \o <<b>>)) \o <<c>>
  BY <1>1, <1>2, ConcatGroups
<1>4. s \o (<<a>> \o <<b>>) = (s \o <<a>>) \o <<b>>
  BY <1>1, ConcatGroups
<1>5. <<a, b, c>> = (<<a>> \o <<b>>) \o <<c>>
  BY ThreeIs
<1> QED BY <1>3, <1>4, <1>5, Zenon

LEMMA EmptyBehind == ASSUME NEW s, IsSeq(s) PROVE s \o <<>> = s /\ <<>> \o s = s
BY ConcatEmptySeq DEF IsSeq

LEMMA AppendIs == ASSUME NEW s, IsSeq(s), NEW e PROVE Append(s, e) = s \o <<e>>
<1> DEFINE S == Range(s) \union {e}
<1>1. s \in Seq(S) /\ e \in S
  BY SeqMonotonic DEF IsSeq
<1> HIDE DEF S
<1> QED BY <1>1, AppendIsConcat
-----------------------------------------------------------------------------
(* What a sequence holds.                                                  *)
LEMMA RangeIs ==
    ASSUME NEW s, IsSeq(s)
    PROVE  /\ \A i \in 1 .. Len(s) : s[i] \in Range(s)
           /\ \A x \in Range(s) : \E i \in 1 .. Len(s) : x = s[i]
BY SeqType DEF Range

LEMMA ConcatRange ==
    ASSUME NEW s, NEW t, IsSeq(s), IsSeq(t)
    PROVE  Range(s \o t) = Range(s) \union Range(t)
<1> DEFINE u == s \o t
<1>1. /\ IsSeq(u) /\ Len(u) = Len(s) + Len(t)
      /\ \A i \in 1 .. Len(s) : u[i] = s[i]
      /\ \A i \in 1 .. Len(t) : u[Len(s) + i] = t[i]
  BY ConcatSeq
<1> HIDE DEF u
<1>2. Len(s) \in Nat /\ Len(t) \in Nat
  BY SeqType
<1>3. ASSUME NEW x \in Range(u) PROVE x \in Range(s) \union Range(t)
  <2>1. PICK i \in 1 .. Len(u) : x = u[i]
    BY <1>1, RangeIs
  <2>2. CASE i <= Len(s)
    BY <1>1, <1>2, <2>1, <2>2, RangeIs
  <2>3. CASE i > Len(s)
    <3>1. i - Len(s) \in 1 .. Len(t) /\ Len(s) + (i - Len(s)) = i
      BY <1>1, <1>2, <2>3
    <3>2. u[i] = t[i - Len(s)]
      BY <1>1, <3>1
    <3> QED BY <2>1, <3>1, <3>2, RangeIs
  <2> QED BY <1>2, <2>2, <2>3
<1>4. ASSUME NEW x \in Range(s) PROVE x \in Range(u)
  <2>1. PICK i \in 1 .. Len(s) : x = s[i]
    BY RangeIs
  <2>2. i \in 1 .. Len(u) /\ u[i] = x
    BY <1>1, <1>2, <2>1
  <2> QED BY <1>1, <2>2, RangeIs
<1>5. ASSUME NEW x \in Range(t) PROVE x \in Range(u)
  <2>1. PICK i \in 1 .. Len(t) : x = t[i]
    BY RangeIs
  <2>2. Len(s) + i \in 1 .. Len(u) /\ u[Len(s) + i] = x
    BY <1>1, <1>2, <2>1
  <2> QED BY <1>1, <2>2, RangeIs
<1> QED BY <1>3, <1>4, <1>5 DEF u

LEMMA OneRange == ASSUME NEW e PROVE Range(<<e>>) = {e}
BY OneIsSeq, RangeIs

LEMMA EmptyRange == Range(<<>>) = {}
BY EmptyIsSeq, RangeIs

LEMMA AppendRange ==
    ASSUME NEW s, IsSeq(s), NEW e
    PROVE  /\ IsSeq(Append(s, e)) /\ Append(s, e) # <<>>
           /\ Range(Append(s, e)) = Range(s) \union {e}
           /\ Last(Append(s, e)) = e /\ Front(Append(s, e)) = s
<1> DEFINE u == Append(s, e)
<1>1. /\ IsSeq(u) /\ Len(u) = Len(s) + 1 /\ u[Len(s) + 1] = e
      /\ \A i \in 1 .. Len(s) : u[i] = s[i]
  BY AppendSeq
<1>2. u = s \o <<e>>
  BY AppendIs
<1>3. Range(u) = Range(s) \union {e}
  <2>1. Range(s \o <<e>>) = Range(s) \union Range(<<e>>)
    BY OneIsSeq, ConcatRange
  <2> QED BY <1>2, <2>1, OneRange
<1> HIDE DEF u
<1>4. Len(s) \in Nat
  BY SeqType
<1>5. u # <<>>
  BY <1>1, <1>4, EmptyIsSeq
<1>6. Last(u) = e
  BY <1>1 DEF Last
<1>7. Front(u) = s
  <2>1. /\ IsSeq(Front(u)) /\ Len(Front(u)) = Len(s)
        /\ \A i \in 1 .. Len(s) : Front(u)[i] = s[i]
    BY <1>1, <1>4, <1>5, FrontSeq
  <2>2. PICK S : s \in Seq(S) /\ Front(u) \in Seq(S)
    BY <2>1, CommonElements
  <2> QED BY <2>1, <2>2, SeqEqual
<1> QED BY <1>1, <1>3, <1>5, <1>6, <1>7 DEF u

LEMMA FrontRange ==
    ASSUME NEW s, IsSeq(s), s # <<>>
    PROVE  /\ IsSeq(Front(s)) /\ s = Append(Front(s), Last(s))
           /\ Range(s) = Range(Front(s)) \union {Last(s)}
<1> DEFINE u == Front(s)
           v == Append(u, Last(s))
<1>1. /\ IsSeq(u) /\ Len(u) = Len(s) - 1 /\ Len(s) \in Nat \ {0}
      /\ \A i \in 1 .. Len(s) - 1 : u[i] = s[i]
  BY FrontSeq
<1>2. Last(s) = s[Len(s)]
  BY DEF Last
<1> HIDE DEF u
<1>3. /\ IsSeq(v) /\ Len(v) = Len(u) + 1 /\ v[Len(u) + 1] = Last(s)
      /\ \A i \in 1 .. Len(u) : v[i] = u[i]
  BY <1>1, AppendSeq
<1>4. PICK S : s \in Seq(S) /\ v \in Seq(S)
  BY <1>3, CommonElements
<1>5. Range(v) = Range(u) \union {Last(s)}
  BY <1>1, AppendRange
<1> HIDE DEF v
<1>6. ASSUME NEW i \in 1 .. Len(s) PROVE s[i] = v[i]
  <2>1. CASE i = Len(s)
    BY <1>1, <1>2, <1>3, <2>1
  <2>2. CASE i # Len(s)
    <3>1. i \in 1 .. Len(s) - 1 /\ i \in 1 .. Len(u)
      BY <1>1, <2>2
    <3> QED BY <1>1, <1>3, <3>1
  <2> QED BY <2>1, <2>2
<1>7. s = v
  <2>1. Len(s) = Len(v)
    BY <1>1, <1>3
  <2> QED BY <1>4, <1>6, <2>1, SeqEqual
<1> QED BY <1>1, <1>5, <1>7 DEF u, v

LEMMA ReverseSeq ==
    ASSUME NEW s, IsSeq(s)
    PROVE  /\ IsSeq(Reverse(s)) /\ Len(Reverse(s)) = Len(s)
           /\ \A i \in 1 .. Len(s) : Reverse(s)[i] = s[(Len(s) - i) + 1]
           /\ Range(Reverse(s)) = Range(s)
<1> DEFINE r == Reverse(s)
<1>1. Len(s) \in Nat
  BY SeqType
<1>2. \A i \in 1 .. Len(s) : s[(Len(s) - i) + 1] \in Range(s)
  BY <1>1, RangeIs
<1>3. r = [i \in 1 .. Len(s) |-> s[(Len(s) - i) + 1]]
  BY DEF Reverse
<1> HIDE DEF r
<1>4. r \in [1 .. Len(s) -> Range(s)]
  BY <1>2, <1>3
<1>5. r \in Seq(Range(s)) /\ Len(r) = Len(s)
  BY <1>1, <1>4
<1>6. IsSeq(r)
  BY <1>5, SeqIsSeq
<1>7. \A i \in 1 .. Len(s) : r[i] = s[(Len(s) - i) + 1]
  BY <1>3
<1>8. Range(r) = Range(s)
  <2>1. ASSUME NEW x \in Range(r) PROVE x \in Range(s)
    <3>1. PICK i \in 1 .. Len(s) : x = r[i]
      BY <1>5, <1>6, RangeIs
    <3> QED BY <1>2, <1>7, <3>1
  <2>2. ASSUME NEW x \in Range(s) PROVE x \in Range(r)
    <3>1. PICK i \in 1 .. Len(s) : x = s[i]
      BY RangeIs
    <3> DEFINE j == (Len(s) - i) + 1
    <3>2. j \in 1 .. Len(s) /\ (Len(s) - j) + 1 = i
      BY <1>1, <3>1
    <3> HIDE DEF j
    <3>3. r[j] = x
      BY <1>7, <3>1, <3>2
    <3> QED BY <1>5, <1>6, <3>2, <3>3, RangeIs
  <2> QED BY <2>1, <2>2
<1> QED BY <1>5, <1>6, <1>7, <1>8 DEF r

LEMMA SubSeqRange ==
    ASSUME NEW s, IsSeq(s), NEW m \in Int, NEW n \in Int, 1 <= m, n <= Len(s)
    PROVE  /\ IsSeq(SubSeq(s, m, n)) /\ Range(SubSeq(s, m, n)) \subseteq Range(s)
           /\ Len(SubSeq(s, m, n)) = IF m <= n THEN (n - m) + 1 ELSE 0
           /\ \A i \in 1 .. (n - m) + 1 : SubSeq(s, m, n)[i] = s[(m + i) - 1]
<1> DEFINE u == SubSeq(s, m, n)
<1>1. Len(s) \in Nat
  BY SeqType
<1>2. \A i \in m .. n : s[i] \in Range(s)
  <2> SUFFICES ASSUME NEW i \in m .. n PROVE s[i] \in Range(s)
    OBVIOUS
  <2>1. i \in 1 .. Len(s)
    BY <1>1
  <2> QED BY <2>1, RangeIs
<1>3. /\ u \in Seq(Range(s)) /\ Len(u) = IF m <= n THEN n - m + 1 ELSE 0
      /\ \A i \in 1 .. n - m + 1 : u[i] = s[m + i - 1]
  BY <1>2, SubSeqProperties
<1> HIDE DEF u
<1>4. IsSeq(u) /\ \A i \in 1 .. Len(u) : u[i] \in Range(s)
  BY <1>3, SeqIsSeq, ElementOfSeq
<1>5. Range(u) \subseteq Range(s)
  BY <1>4, RangeIs
<1>6. Len(u) = (IF m <= n THEN (n - m) + 1 ELSE 0)
      /\ \A i \in 1 .. (n - m) + 1 : u[i] = s[(m + i) - 1]
  BY <1>3
<1> QED BY <1>4, <1>5, <1>6 DEF u

(* Sequences of the same elements in the same places are the same. *)
LEMMA SameSeq ==
    ASSUME NEW s, NEW t, IsSeq(s), IsSeq(t), Len(s) = Len(t),
           \A i \in 1 .. Len(s) : s[i] = t[i]
    PROVE  s = t
<1>1. PICK S : s \in Seq(S) /\ t \in Seq(S)
  BY CommonElements
<1> QED BY <1>1, SeqEqual

(* A function on the numbers up to n is a sequence.                        *)
LEMMA MappedSeq ==
    ASSUME NEW n \in Nat, NEW u, DOMAIN u = 1 .. n, u = [i \in 1 .. n |-> u[i]]
    PROVE  IsSeq(u) /\ Len(u) = n
<1>1. u \in [1 .. n -> Range(u)]
  BY DEF Range
<1>2. u \in Seq(Range(u))
  BY <1>1, SeqDef
<1>3. Len(u) \in Nat /\ DOMAIN u = 1 .. Len(u)
  BY <1>2, LenProperties
<1>4. Len(u) = n
  BY <1>3
<1> QED BY <1>2, <1>4 DEF IsSeq

(* Sequences, one after the other: what FlattenSeq computes step by step.  *)
LEMMA FlattenSteps ==
    ASSUME NEW S, NEW ss, IsSeq(ss), ss # <<>>, \A s \in Range(ss) : s \in Seq(S)
    PROVE  \E f : /\ \A i \in 1 .. Len(ss) :
                        f[i] \in Seq(S) /\ f[i] = IF i = 1 THEN ss[i] ELSE f[i - 1] \o ss[i]
                 /\ FlattenSeq(ss) = f[Len(ss)]
<1> DEFINE n == Len(ss)
           Next1(g, i) == IF i = 1 THEN ss[i] ELSE g[i - 1] \o ss[i]
           UpTo(g, k) == g \in [1 .. k -> Seq(S)] /\ \A i \in 1 .. k : g[i] = Next1(g, i)
           Missing == {k \in 1 .. n : ~ \E g : UpTo(g, k)}
<1>1. n \in Nat /\ \A i \in 1 .. n : ss[i] \in Seq(S)
  BY SeqType, RangeIs
<1> HIDE DEF n
<1>2. \A s, t \in Seq(S) : s \o t \in Seq(S)
  BY ConcatProperties
<1>3. Missing = {}
  <2> SUFFICES ASSUME Missing # {} PROVE FALSE
    OBVIOUS
  <2>1. Missing \subseteq Nat
    BY <1>1
  <2>2. PICK k \in Missing : \A m \in Missing : k <= m
    BY <2>1, LeastNumber
  <2>3. k \in 1 .. n /\ ~ \E g : UpTo(g, k)
    BY <2>2
  <2>4. CASE k = 1
    <3>1. UpTo([i \in 1 .. 1 |-> ss[1]], 1)
      BY <1>1, <2>3, <2>4
    <3> QED BY <2>3, <2>4, <3>1
  <2>5. CASE k # 1
    <3>1. k - 1 \in 1 .. n /\ ~(k <= k - 1) /\ k - 1 \in Nat
      BY <1>1, <2>3, <2>5
    <3>2. PICK g : UpTo(g, k - 1)
      BY <2>2, <3>1
    <3> DEFINE h == [i \in 1 .. k |-> IF i = k THEN g[k - 1] \o ss[k] ELSE g[i]]
    <3>3. g[k - 1] \o ss[k] \in Seq(S)
      BY <1>1, <1>2, <2>3, <3>1, <3>2
    <3>4. h \in [1 .. k -> Seq(S)]
      BY <2>3, <3>1, <3>2, <3>3
    <3>5. ASSUME NEW i \in 1 .. k PROVE h[i] = Next1(h, i)
      <4>1. CASE i = k
        <5>1. h[k - 1] = g[k - 1]
          BY <2>3, <2>5, <3>1
        <5> QED BY <2>3, <2>5, <4>1, <5>1
      <4>2. CASE i # k
        <5>1. i \in 1 .. k - 1 /\ (i # 1 => i - 1 \in 1 .. k /\ i - 1 # k)
          BY <2>3, <4>2
        <5>2. h[i] = g[i] /\ (i # 1 => h[i - 1] = g[i - 1])
          BY <4>2, <5>1
        <5> QED BY <3>2, <5>1, <5>2
      <4> QED BY <4>1, <4>2
    <3> QED BY <2>3, <3>4, <3>5
  <2> QED BY <2>4, <2>5
<1>4. n # 0
  BY NotEmpty DEF n
<1>5. QED
  <2>1. PICK g : UpTo(g, n)
    BY <1>1, <1>3, <1>4
  <2> DEFINE flatten[i \in 1 .. Len(ss)] ==
                IF i = 1 THEN ss[i] ELSE flatten[i - 1] \o ss[i]
  <2>2. g = [i \in 1 .. Len(ss) |-> IF i = 1 THEN ss[i] ELSE g[i - 1] \o ss[i]]
    BY <2>1 DEF n
  <2>3. flatten = [i \in 1 .. Len(ss) |-> IF i = 1 THEN ss[i] ELSE flatten[i - 1] \o ss[i]]
    BY <2>2
  <2>4. FlattenSeq(ss) = flatten[n]
    BY <1>4 DEF FlattenSeq, n
  <2> HIDE DEF flatten
  <2> DEFINE Wrong == {i \in 1 .. n : flatten[i] \notin Seq(S)}
  <2>5. Wrong = {}
    <3> SUFFICES ASSUME Wrong # {} PROVE FALSE
      OBVIOUS
    <3>1. Wrong \subseteq Nat
      BY <1>1
    <3>2. PICK k \in Wrong : \A m \in Wrong : k <= m
      BY <3>1, LeastNumber
    <3>3. k \in 1 .. n /\ flatten[k] \notin Seq(S)
      BY <3>2
    <3>4. CASE k = 1
      BY <1>1, <2>3, <3>3, <3>4 DEF n
    <3>5. CASE k # 1
      <4>1. k - 1 \in 1 .. n /\ ~(k <= k - 1)
        BY <1>1, <3>3, <3>5
      <4>2. flatten[k - 1] \in Seq(S)
        BY <3>2, <4>1
      <4>3. flatten[k] = flatten[k - 1] \o ss[k]
        BY <2>3, <3>3, <3>5 DEF n
      <4> QED BY <1>1, <1>2, <3>3, <4>2, <4>3
    <3> QED BY <3>4, <3>5
  <2>6. \A i \in 1 .. n : flatten[i] = IF i = 1 THEN ss[i] ELSE flatten[i - 1] \o ss[i]
    BY <2>3 DEF n
  <2> QED BY <2>4, <2>5, <2>6 DEF n

LEMMA FlattenEmpty == FlattenSeq(<<>>) = <<>>
BY EmptyIsSeq DEF FlattenSeq

LEMMA FlattenIsSeq ==
    ASSUME NEW S, NEW ss, IsSeq(ss), \A s \in Range(ss) : s \in Seq(S)
    PROVE  FlattenSeq(ss) \in Seq(S)
<1>1. CASE ss = <<>>
  BY <1>1, FlattenEmpty, EmptySeq
<1>2. CASE ss # <<>>
  <2>1. Len(ss) \in 1 .. Len(ss)
    BY <1>2, NotEmpty
  <2> QED BY <1>2, <2>1, FlattenSteps
<1> QED BY <1>1, <1>2

(* The first of the sequences, and the others behind it.                   *)
LEMMA FlattenHead ==
    ASSUME NEW S, NEW ss, IsSeq(ss), ss # <<>>, \A s \in Range(ss) : s \in Seq(S)
    PROVE  FlattenSeq(ss) = ss[1] \o FlattenSeq(Tail(ss))
<1> DEFINE n == Len(ss)
           tt == Tail(ss)
<1>1. n \in Nat /\ n >= 1 /\ \A i \in 1 .. n : ss[i] \in Seq(S)
  BY NotEmpty, RangeIs
<1>2. IsSeq(tt) /\ Len(tt) = n - 1 /\ \A i \in 1 .. n - 1 : tt[i] = ss[i + 1]
  BY TailSeq
<1>3. PICK f : /\ \A i \in 1 .. n :
                     f[i] \in Seq(S) /\ f[i] = IF i = 1 THEN ss[i] ELSE f[i - 1] \o ss[i]
               /\ FlattenSeq(ss) = f[n]
  BY FlattenSteps
<1> HIDE DEF n, tt
<1>4. CASE n = 1
  <2>1. tt = <<>>
    BY <1>2, <1>4, SameSeq, EmptyIsSeq
  <2>2. FlattenSeq(ss) = ss[1] /\ ss[1] \in Seq(S)
    BY <1>1, <1>3, <1>4
  <2>3. ss[1] \o <<>> = ss[1]
    BY <2>2, SeqIsSeq, EmptyBehind
  <2> QED BY <2>1, <2>2, <2>3, FlattenEmpty, Zenon DEF tt
<1>5. CASE n # 1
  <2>1. tt # <<>> /\ n - 1 \in 1 .. n - 1
    BY <1>1, <1>2, <1>5, EmptyIsSeq
  <2>2. \A s \in Range(tt) : s \in Seq(S)
    <3>1. ASSUME NEW i \in 1 .. Len(tt) PROVE tt[i] \in Seq(S)
      <4>1. i \in 1 .. n - 1 /\ i + 1 \in 1 .. n
        BY <1>1, <1>2
      <4> QED BY <4>1, <1>1, <1>2
    <3> QED BY <3>1, <1>2, RangeIs
  <2>3. PICK g : /\ \A i \in 1 .. Len(tt) :
                       g[i] \in Seq(S) /\ g[i] = IF i = 1 THEN tt[i] ELSE g[i - 1] \o tt[i]
                 /\ FlattenSeq(tt) = g[Len(tt)]
    BY <1>2, <2>1, <2>2, FlattenSteps
  <2> DEFINE Wrong == {i \in 1 .. n - 1 : f[i + 1] # ss[1] \o g[i]}
  <2>4. ASSUME Wrong # {} PROVE FALSE
    <3>1. Wrong \subseteq Nat
      <4>1. 1 .. n - 1 \subseteq Nat
        BY <1>1
      <4> QED BY <4>1
    <3>2. PICK i \in Wrong : \A m \in Wrong : i <= m
      BY <2>4, <3>1, LeastNumber
    <3>9. i \in 1 .. n - 1 /\ f[i + 1] # ss[1] \o g[i]
      BY <3>2
    <3> DEFINE j == i + 1
               h == i - 1
    <3>3. /\ i \in 1 .. n - 1 /\ i \in 1 .. Len(tt) /\ j \in 1 .. n /\ j # 1 /\ j - 1 = i
          /\ tt[i] = ss[j] /\ f[j] # ss[1] \o g[i]
          /\ i \in 1 .. n /\ 1 \in 1 .. n
      <4>1. /\ i \in 1 .. Len(tt) /\ j \in 1 .. n /\ j # 1 /\ j - 1 = i
            /\ i \in 1 .. n /\ 1 \in 1 .. n
        BY <3>9, <1>1, <1>2
      <4>2. tt[i] = ss[j]
        BY <3>9, <1>2
      <4> QED BY <3>9, <4>1, <4>2
    <3>4. i # 1 => h \in 1 .. n - 1 /\ h \in 1 .. Len(tt) /\ h + 1 = i /\ ~(i <= h)
      BY <3>3, <1>1, <1>2
    <3>5. i # 1 => f[h + 1] = ss[1] \o g[h]
      BY <3>2, <3>4
    <3> HIDE DEF j, Wrong
    <3>6. f[j] = f[i] \o ss[j]
      BY <1>3, <3>3
    <3>7. CASE i = 1
      <4>1. f[i] = ss[1] /\ g[i] = tt[i]
        BY <1>3, <2>3, <3>3, <3>7
      <4> QED BY <3>3, <3>6, <4>1
    <3>8. CASE i # 1
      <4>1. g[i] = g[h] \o tt[i] /\ g[h] \in Seq(S) /\ f[i] = ss[1] \o g[h]
        BY <2>3, <3>3, <3>4, <3>5, <3>8
      <4> HIDE DEF h
      <4>2. ss[1] \in Seq(S) /\ ss[j] \in Seq(S)
        BY <1>1, <3>3
      <4>3. (ss[1] \o g[h]) \o ss[j] = ss[1] \o (g[h] \o ss[j])
        <5>1. \A x, y, z \in Seq(S) : (x \o y) \o z = x \o (y \o z)
          BY ConcatAssociative
        <5> QED BY <4>1, <4>2, <5>1
      <4> QED BY <3>3, <3>6, <4>1, <4>3
    <3> QED BY <3>7, <3>8
  <2>5. f[n] = ss[1] \o g[n - 1]
    <3> DEFINE m == n - 1
    <3>1. m \in 1 .. n - 1 /\ m + 1 = n
      BY <1>1, <2>1
    <3> HIDE DEF m
    <3>2. f[m + 1] = ss[1] \o g[m]
      BY <2>4, <3>1
    <3> QED BY <3>1, <3>2 DEF m
  <2> QED BY <1>2, <1>3, <2>3, <2>5 DEF tt
<1> QED BY <1>4, <1>5
=============================================================================
