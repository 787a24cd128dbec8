-------------------------- MODULE ExecFramesProofs --------------------------
(***************************************************************************)
(* Theorems about ExecFrames, for every set of bindings and files and for  *)
(* every bound.                                                            *)
(***************************************************************************)
EXTENDS ExecFrames, SequenceTheorems, TLAPS

-----------------------------------------------------------------------------
(* Type correctness.                                                       *)

(* One element in front of an environment moves every other by one place. *)
LEMMA ConsProperties ==
    ASSUME NEW S, NEW e \in Seq(S), NEW b \in S
    PROVE  /\ <<b>> \o e \in Seq(S)
           /\ Len(<<b>> \o e) = Len(e) + 1
           /\ (<<b>> \o e)[1] = b
           /\ \A i \in 1..Len(e) : (<<b>> \o e)[i + 1] = e[i]
<1>1. <<b>> \in Seq(S) /\ Len(<<b>>) = 1 /\ <<b>>[1] = b
  OBVIOUS
<1>2. Len(e) \in Nat
  BY LenProperties
<1> QED
  BY <1>1, <1>2, ConcatProperties

(* The semaphores enclose the environment. *)
LEMMA PushSemaphoresProperties ==
    ASSUME NEW e \in Seq(Elem)
    PROVE  /\ PushSemaphores(e) \in Seq(Elem)
           /\ Len(PushSemaphores(e)) = Len(e) + 2
           /\ PushSemaphores(e)[1] = BEG
           /\ PushSemaphores(e)[Len(e) + 2] = END
<1>1. BEG \in Elem /\ END \in Elem
  BY DEF Elem
<1>2. /\ <<BEG>> \o e \in Seq(Elem)
      /\ Len(<<BEG>> \o e) = Len(e) + 1
      /\ (<<BEG>> \o e)[1] = BEG
  BY <1>1, ConsProperties
<1>3. <<END>> \in Seq(Elem) /\ Len(<<END>>) = 1 /\ <<END>>[1] = END
  BY <1>1
<1>4. Len(e) \in Nat
  BY LenProperties
<1>5. PushSemaphores(e) = (<<BEG>> \o e) \o <<END>>
  BY DEF PushSemaphores
<1> QED
  BY <1>2, <1>3, <1>4, <1>5, ConcatProperties

(* A file's elements are elements of an environment. *)
LEMMA FileType == \A bs \in Files : bs \in Seq(Binding) /\ bs \in Seq(Elem)
<1>1. Binding \subseteq Elem
  BY DEF Elem
<1> QED
  BY <1>1, FilesAssumption, SeqMonotonic

(* Leaving a frame drops the last one of the dump. *)
LEMMA PrefixProperties ==
    ASSUME NEW S, NEW s \in Seq(S), NEW n \in Nat, n <= Len(s)
    PROVE  /\ SubSeq(s, 1, n) \in Seq(S)
           /\ Len(SubSeq(s, 1, n)) = n
           /\ \A i \in 1..n : SubSeq(s, 1, n)[i] = s[i]
<1> DEFINE t == SubSeq(s, 1, n)
<1>1. \A i \in 1..n : s[i] \in S
  BY ElementOfSeq, LenProperties
<1>2. /\ t \in Seq(S)
      /\ Len(t) = IF 1 <= n THEN n - 1 + 1 ELSE 0
      /\ \A i \in 1..(n - 1 + 1) : t[i] = s[1 + i - 1]
  BY <1>1, SubSeqProperties
<1> HIDE DEF t
<1>3. Len(t) = n /\ \A i \in 1..n : t[i] = s[i]
  BY <1>2
<1> QED
  BY <1>2, <1>3 DEF t

(* The elements in front of the last one make a sequence. *)
LEMMA FrontProperties ==
    ASSUME NEW S, NEW s \in Seq(S), s # <<>>
    PROVE  /\ Len(s) \in Nat \ {0}
           /\ s[Len(s)] \in S
           /\ SubSeq(s, 1, Len(s) - 1) \in Seq(S)
           /\ Len(SubSeq(s, 1, Len(s) - 1)) = Len(s) - 1
           /\ \A i \in 1..(Len(s) - 1) : SubSeq(s, 1, Len(s) - 1)[i] = s[i]
<1>1. Len(s) \in Nat \ {0}
  BY EmptySeq
<1>2. Len(s) - 1 \in Nat /\ Len(s) - 1 <= Len(s)
  BY <1>1
<1>3. s[Len(s)] \in S
  BY <1>1, ElementOfSeq
<1> QED
  BY <1>1, <1>2, <1>3, PrefixProperties

(* Reversing moves the i-th element to the i-th place from the end. *)
LEMMA ReverseProperties ==
    ASSUME NEW S, NEW s \in Seq(S)
    PROVE  /\ Reverse(s) \in Seq(S)
           /\ Len(Reverse(s)) = Len(s)
           /\ \A i \in 1..Len(s) : Reverse(s)[i] = s[Len(s) - i + 1]
<1>1. Len(s) \in Nat
  BY LenProperties
<1>2. \A i \in 1..Len(s) : s[i] \in S
  BY ElementOfSeq
<1>3. Reverse(s) = [i \in 1..Len(s) |-> s[(Len(s) - i) + 1]]
  BY DEF Reverse
<1>4. Reverse(s) \in [1..Len(s) -> S]
  BY <1>1, <1>2, <1>3
<1> QED
  BY <1>1, <1>3, <1>4
-----------------------------------------------------------------------------
(* The brackets of an environment.                                         *)

(* In a bracketed environment the two scans stop at its own semaphores.    *)
LEMMA ScansFindBrackets ==
    ASSUME NEW e \in Seq(Elem), NEW p, NEW q, BracketedBy(e, p, q)
    PROVE  FirstBEG(e) = p /\ LastEND(e) = q
<1>1. /\ p \in 1..Len(e) /\ q \in 1..Len(e) /\ p < q
      /\ e[p] = BEG /\ e[q] = END
      /\ \A i \in 1..(p - 1) : e[i] \in Binding
      /\ \A i \in (q + 1)..Len(e) : e[i] \in Binding
  BY LenProperties DEF BracketedBy
<1>2. Len(e) \in Nat /\ DOMAIN e = 1..Len(e)
  BY LenProperties
<1>3. \A i \in 1..(p - 1) : e[i] # BEG
  BY <1>1, SemaphoreAssumption
<1>4. \A i \in (q + 1)..Len(e) : e[i] # END
  BY <1>1, SemaphoreAssumption
<1>5. FirstBEG(e) = p
  <2>1. \A r \in DOMAIN e :
            e[r] = BEG /\ (\A i \in 1..(r - 1) : e[i] # BEG) => r = p
    BY <1>1, <1>2, <1>3
  <2> QED
    BY <1>1, <1>2, <1>3, <2>1 DEF FirstBEG
<1>6. LastEND(e) = q
  <2>1. \A r \in DOMAIN e :
            e[r] = END /\ (\A i \in (r + 1)..Len(e) : e[i] # END) => r = q
    BY <1>1, <1>2, <1>4
  <2> QED
    BY <1>1, <1>2, <1>4, <2>1 DEF LastEND
<1> QED
  BY <1>5, <1>6

(* oscript_exec brackets the environment, whatever it held. *)
LEMMA EnterBrackets ==
    ASSUME NEW e \in Seq(Elem)
    PROVE  BracketedBy(PushSemaphores(e), 1, Len(e) + 2)
<1>1. Len(e) \in Nat
  BY LenProperties
<1>2. DOMAIN PushSemaphores(e) = 1..(Len(e) + 2)
  BY PushSemaphoresProperties, LenProperties
<1> QED
  BY <1>1, <1>2, PushSemaphoresProperties DEF BracketedBy

(* A binding put in front moves the brackets and keeps them outermost. *)
LEMMA BindBrackets ==
    ASSUME NEW e \in Seq(Elem), NEW p, NEW q, BracketedBy(e, p, q),
           NEW b \in Binding
    PROVE  BracketedBy(<<b>> \o e, p + 1, q + 1)
<1> DEFINE f == <<b>> \o e
<1>1. /\ f \in Seq(Elem)
      /\ Len(f) = Len(e) + 1
      /\ f[1] = b
      /\ \A i \in 1..Len(e) : f[i + 1] = e[i]
  BY ConsProperties DEF Elem
<1>2. /\ Len(e) \in Nat /\ DOMAIN e = 1..Len(e)
      /\ DOMAIN f = 1..(Len(e) + 1)
  BY <1>1, LenProperties
<1> HIDE DEF f
<1>3. /\ p \in 1..Len(e) /\ q \in 1..Len(e) /\ p < q
      /\ e[p] = BEG /\ e[q] = END
      /\ \A i \in 1..(p - 1) : e[i] \in Binding
      /\ \A i \in (q + 1)..Len(e) : e[i] \in Binding
  BY <1>2 DEF BracketedBy
<1>4. f[p + 1] = BEG /\ f[q + 1] = END
  BY <1>1, <1>3
<1>5. \A i \in 1..((p + 1) - 1) : f[i] \in Binding
  <2> SUFFICES ASSUME NEW i \in 1..((p + 1) - 1) PROVE f[i] \in Binding
    OBVIOUS
  <2>1. CASE i = 1
    BY <1>1, <2>1
  <2>2. CASE i # 1
    <3>1. i - 1 \in 1..(p - 1) /\ i - 1 \in 1..Len(e) /\ i = (i - 1) + 1
      BY <1>2, <1>3, <2>2
    <3> QED
      BY <1>1, <1>3, <3>1
  <2> QED
    BY <2>1, <2>2
<1>6. \A i \in ((q + 1) + 1)..Len(f) : f[i] \in Binding
  <2> SUFFICES ASSUME NEW i \in ((q + 1) + 1)..Len(f) PROVE f[i] \in Binding
    OBVIOUS
  <2>1. i - 1 \in (q + 1)..Len(e) /\ i - 1 \in 1..Len(e) /\ i = (i - 1) + 1
    BY <1>1, <1>2, <1>3
  <2> QED
    BY <1>1, <1>3, <2>1
<1> QED
  BY <1>1, <1>2, <1>3, <1>4, <1>5, <1>6 DEF BracketedBy, f

(* A file's elements put at the back leave the brackets where they were. *)
LEMMA LoadBrackets ==
    ASSUME NEW e \in Seq(Elem), NEW p, NEW q, BracketedBy(e, p, q),
           NEW bs \in Files
    PROVE  BracketedBy(e \o bs, p, q)
<1> DEFINE f == e \o bs
<1>0. bs \in Seq(Binding) /\ bs \in Seq(Elem)
  BY FileType
<1>1. /\ f \in Seq(Elem)
      /\ Len(f) = Len(e) + Len(bs)
      /\ \A i \in 1..(Len(e) + Len(bs)) :
            f[i] = IF i <= Len(e) THEN e[i] ELSE bs[i - Len(e)]
  BY <1>0, ConcatProperties
<1>2. /\ Len(e) \in Nat /\ DOMAIN e = 1..Len(e)
      /\ Len(bs) \in Nat
      /\ DOMAIN f = 1..(Len(e) + Len(bs))
      /\ \A i \in 1..Len(bs) : bs[i] \in Binding
  BY <1>0, <1>1, LenProperties, ElementOfSeq
<1> HIDE DEF f
<1>3. /\ p \in 1..Len(e) /\ q \in 1..Len(e) /\ p < q
      /\ e[p] = BEG /\ e[q] = END
      /\ \A i \in 1..(p - 1) : e[i] \in Binding
      /\ \A i \in (q + 1)..Len(e) : e[i] \in Binding
  BY <1>2 DEF BracketedBy
<1>4. f[p] = BEG /\ f[q] = END
  BY <1>1, <1>2, <1>3
<1>5. \A i \in 1..(p - 1) : f[i] \in Binding
  BY <1>1, <1>2, <1>3
<1>6. \A i \in (q + 1)..Len(f) : f[i] \in Binding
  <2> SUFFICES ASSUME NEW i \in (q + 1)..Len(f) PROVE f[i] \in Binding
    OBVIOUS
  <2>1. CASE i <= Len(e)
    BY <1>1, <1>2, <1>3, <2>1
  <2>2. CASE i > Len(e)
    <3>1. i - Len(e) \in 1..Len(bs)
      BY <1>1, <1>2, <2>2
    <3> QED
      BY <1>1, <1>2, <1>3, <2>2, <3>1
  <2> QED
    BY <1>1, <1>2, <1>3, <2>1, <2>2
<1> QED
  BY <1>1, <1>2, <1>3, <1>4, <1>5, <1>6 DEF BracketedBy, f

-----------------------------------------------------------------------------
(* What a bracketed environment holds for its frame.                       *)

(* The two parts of an environment that belong to the innermost frame.     *)
LEMMA OwnParts ==
    ASSUME NEW e \in Seq(Elem), NEW p, NEW q, BracketedBy(e, p, q)
    PROVE  /\ Before(e) \in Seq(Binding)
           /\ Len(Before(e)) = p - 1
           /\ \A i \in 1..(p - 1) : Before(e)[i] = e[i]
           /\ After(e) \in Seq(Binding)
           /\ Len(After(e)) = Len(e) - q
           /\ \A i \in 1..(Len(e) - q) : After(e)[i] = e[q + i]
<1>1. /\ p \in 1..Len(e) /\ q \in 1..Len(e)
      /\ \A i \in 1..(p - 1) : e[i] \in Binding
      /\ \A i \in (q + 1)..Len(e) : e[i] \in Binding
      /\ Len(e) \in Nat
  BY LenProperties DEF BracketedBy
<1>2. Before(e) = SubSeq(e, 1, p - 1) /\ After(e) = SubSeq(e, q + 1, Len(e))
  BY ScansFindBrackets DEF Before, After
<1>3. PICK m \in Nat : m = p - 1
  BY <1>1
<1>4. PICK n \in Int : n = q + 1
  BY <1>1
<1>5. /\ SubSeq(e, 1, m) \in Seq(Binding)
      /\ Len(SubSeq(e, 1, m)) = IF 1 <= m THEN m - 1 + 1 ELSE 0
      /\ \A i \in 1..(m - 1 + 1) : SubSeq(e, 1, m)[i] = e[1 + i - 1]
  <2>1. \A i \in 1..m : e[i] \in Binding
    BY <1>1, <1>3
  <2> QED
    BY <2>1, SubSeqProperties
<1>6. /\ SubSeq(e, n, Len(e)) \in Seq(Binding)
      /\ Len(SubSeq(e, n, Len(e)))
            = IF n <= Len(e) THEN Len(e) - n + 1 ELSE 0
      /\ \A i \in 1..(Len(e) - n + 1) : SubSeq(e, n, Len(e))[i] = e[n + i - 1]
  <2>1. \A i \in n..Len(e) : e[i] \in Binding
    BY <1>1, <1>4
  <2> QED
    BY <1>1, <2>1, SubSeqProperties
<1> DEFINE f == SubSeq(e, 1, m)
<1> DEFINE g == SubSeq(e, n, Len(e))
<1>7. Before(e) = f /\ After(e) = g
  BY <1>2, <1>3, <1>4
<1>8. /\ f \in Seq(Binding)
      /\ Len(f) = IF 1 <= m THEN m - 1 + 1 ELSE 0
      /\ \A i \in 1..(m - 1 + 1) : f[i] = e[1 + i - 1]
      /\ g \in Seq(Binding)
      /\ Len(g) = IF n <= Len(e) THEN Len(e) - n + 1 ELSE 0
      /\ \A i \in 1..(Len(e) - n + 1) : g[i] = e[n + i - 1]
  BY <1>5, <1>6
<1> HIDE DEF f, g
<1>9. Len(f) = p - 1 /\ \A i \in 1..(p - 1) : f[i] = e[i]
  BY <1>1, <1>3, <1>8
<1>10. Len(g) = Len(e) - q
  BY <1>1, <1>4, <1>8
<1>11. \A i \in 1..(Len(e) - q) : g[i] = e[q + i]
  <2> TAKE i \in 1..(Len(e) - q)
  <2>1. i \in 1..(Len(e) - n + 1) /\ n + i - 1 = q + i
    BY <1>1, <1>4
  <2> QED
    BY <1>8, <2>1
<1> QED
  BY <1>7, <1>8, <1>9, <1>10, <1>11

(* oscript_exec opens a scope that holds nothing yet. *)
LEMMA EnterScope ==
    ASSUME NEW e \in Seq(Elem)
    PROVE  ScopeOf("exec", PushSemaphores(e))
              = [kind |-> "exec", bound |-> <<>>, loaded |-> <<>>]
<1> DEFINE f == PushSemaphores(e)
<1>1. f \in Seq(Elem) /\ Len(f) = Len(e) + 2 /\ Len(e) \in Nat
  BY PushSemaphoresProperties, LenProperties
<1>2. BracketedBy(f, 1, Len(e) + 2)
  BY EnterBrackets
<1> HIDE DEF f
<1>3. /\ Before(f) \in Seq(Binding) /\ Len(Before(f)) = 0
      /\ After(f) \in Seq(Binding) /\ Len(After(f)) = 0
  <2>1. 1 - 1 = 0 /\ Len(f) - (Len(e) + 2) = 0
    BY <1>1
  <2> QED
    BY <1>1, <1>2, <2>1, OwnParts
<1>4. Before(f) = <<>> /\ After(f) = <<>>
  BY <1>3, EmptySeq
<1>5. Reverse(Before(f)) = <<>>
  <2>1. /\ Reverse(Before(f)) \in Seq(Binding)
        /\ Len(Reverse(Before(f))) = 0
    BY <1>3, ReverseProperties
  <2> QED
    BY <2>1, EmptySeq
<1>6. ScopeOf("exec", f)
        = [kind |-> "exec", bound |-> Reverse(Before(f)), loaded |-> After(f)]
  BY DEF ScopeOf
<1> QED
  BY <1>4, <1>5, <1>6 DEF f

(* A binding put in front is the newest the scope collected. *)
LEMMA BindScope ==
    ASSUME NEW e \in Seq(Elem), Bracketed(e), NEW b \in Binding
    PROVE  /\ ScopeOf("exec", <<b>> \o e).bound
                 = Append(ScopeOf("exec", e).bound, b)
           /\ ScopeOf("exec", <<b>> \o e).loaded = ScopeOf("exec", e).loaded
<1>1. PICK p, q \in DOMAIN e : BracketedBy(e, p, q)
  BY DEF Bracketed
<1> DEFINE f == <<b>> \o e
<1>2. BracketedBy(f, p + 1, q + 1)
  BY <1>1, BindBrackets
<1>3. /\ f \in Seq(Elem)
      /\ Len(f) = Len(e) + 1
      /\ f[1] = b
      /\ \A i \in 1..Len(e) : f[i + 1] = e[i]
  BY ConsProperties DEF Elem
<1>4. Len(e) \in Nat /\ p \in 1..Len(e) /\ q \in 1..Len(e)
  BY LenProperties
<1> HIDE DEF f
<1> DEFINE B == Before(e)
<1> DEFINE A == After(e)
<1> DEFINE C == Before(f)
<1> DEFINE D == After(f)
<1>5. /\ B \in Seq(Binding) /\ Len(B) = p - 1
      /\ \A i \in 1..(p - 1) : B[i] = e[i]
      /\ A \in Seq(Binding) /\ Len(A) = Len(e) - q
      /\ \A i \in 1..(Len(e) - q) : A[i] = e[q + i]
  BY <1>1, OwnParts
<1>6. /\ C \in Seq(Binding) /\ Len(C) = (p + 1) - 1
      /\ \A i \in 1..((p + 1) - 1) : C[i] = f[i]
      /\ D \in Seq(Binding) /\ Len(D) = Len(f) - (q + 1)
      /\ \A i \in 1..(Len(f) - (q + 1)) : D[i] = f[(q + 1) + i]
  BY <1>2, <1>3, OwnParts
<1>7. /\ Reverse(B) \in Seq(Binding) /\ Len(Reverse(B)) = Len(B)
      /\ \A i \in 1..Len(B) : Reverse(B)[i] = B[Len(B) - i + 1]
      /\ Reverse(C) \in Seq(Binding) /\ Len(Reverse(C)) = Len(C)
      /\ \A i \in 1..Len(C) : Reverse(C)[i] = C[Len(C) - i + 1]
  BY <1>5, <1>6, ReverseProperties
<1>8. ScopeOf("exec", f).bound = Reverse(C) /\ ScopeOf("exec", f).loaded = D
      /\ ScopeOf("exec", e).bound = Reverse(B) /\ ScopeOf("exec", e).loaded = A
  BY DEF ScopeOf
<1> DEFINE R == Reverse(B)
<1> DEFINE S == Reverse(C)
<1>9. /\ Append(R, b) \in Seq(Binding)
      /\ Len(Append(R, b)) = Len(R) + 1
      /\ \A i \in 1..Len(R) : Append(R, b)[i] = R[i]
      /\ Append(R, b)[Len(R) + 1] = b
  BY <1>7, AppendProperties
<1> HIDE DEF A, B, C, D, R, S
<1>10. S = Append(R, b)
  <2>1. Len(S) = p /\ Len(R) = p - 1 /\ Len(B) = p - 1 /\ Len(C) = p
    BY <1>4, <1>5, <1>6, <1>7 DEF R, S
  <2>2. \A i \in 1..p : S[i] = Append(R, b)[i]
    <3> SUFFICES ASSUME NEW i \in 1..p PROVE S[i] = Append(R, b)[i]
      OBVIOUS
    <3>1. S[i] = C[p - i + 1] /\ p - i + 1 \in 1..((p + 1) - 1)
      BY <1>4, <1>7, <2>1 DEF S
    <3>2. S[i] = f[p - i + 1]
      BY <1>6, <3>1
    <3>3. CASE i = p
      <4>1. p - p + 1 = 1 /\ (p - 1) + 1 = p
        BY <1>4
      <4>2. S[p] = f[1]
        BY <3>2, <3>3, <4>1
      <4>3. Append(R, b)[p] = b
        BY <1>9, <2>1, <4>1
      <4> QED
        BY <1>3, <3>3, <4>2, <4>3
    <3>4. CASE i # p
      <4>1. i \in 1..(p - 1) /\ p - i \in 1..(p - 1) /\ p - i \in 1..Len(e)
            /\ p - i + 1 = (p - i) + 1
        BY <1>4, <3>4
      <4>2. S[i] = e[p - i]
        BY <1>3, <3>2, <4>1
      <4>3. R[i] = B[(p - 1) - i + 1] /\ (p - 1) - i + 1 = p - i
        BY <1>4, <1>7, <2>1, <4>1 DEF R
      <4>4. R[i] = e[p - i]
        BY <1>5, <4>1, <4>3
      <4> QED
        BY <1>9, <2>1, <4>1, <4>2, <4>4
    <3> QED
      BY <3>3, <3>4
  <2>3. S \in Seq(Binding) /\ Append(R, b) \in Seq(Binding)
        /\ Len(Append(R, b)) = p /\ 1..Len(S) = 1..p
    BY <1>4, <1>7, <1>9, <2>1 DEF S
  <2> QED
    BY <2>1, <2>2, <2>3, SeqEqual
<1>11. D = A
  <2>1. Len(D) = Len(A) /\ Len(A) = Len(e) - q
    BY <1>3, <1>4, <1>5, <1>6
  <2>2. \A i \in 1..Len(D) : D[i] = A[i]
    <3> TAKE i \in 1..Len(D)
    <3>1. /\ i \in 1..(Len(f) - (q + 1)) /\ i \in 1..(Len(e) - q)
          /\ q + i \in 1..Len(e) /\ (q + 1) + i = (q + i) + 1
      BY <1>3, <1>4, <1>6, <2>1
    <3>2. D[i] = f[(q + 1) + i] /\ A[i] = e[q + i]
      BY <1>5, <1>6, <3>1
    <3>3. f[(q + i) + 1] = e[q + i]
      BY <1>3, <3>1
    <3> QED
      BY <3>1, <3>2, <3>3
  <2> QED
    BY <1>5, <1>6, <2>1, <2>2, SeqEqual
<1> QED
  BY <1>8, <1>10, <1>11 DEF f, A, B, C, D, R, S

(* A file's elements come after those loaded before. *)
LEMMA LoadScope ==
    ASSUME NEW e \in Seq(Elem), Bracketed(e), NEW bs \in Files
    PROVE  /\ ScopeOf("exec", e \o bs).bound = ScopeOf("exec", e).bound
           /\ ScopeOf("exec", e \o bs).loaded
                 = ScopeOf("exec", e).loaded \o bs
<1>1. PICK p, q \in DOMAIN e : BracketedBy(e, p, q)
  BY DEF Bracketed
<1> DEFINE f == e \o bs
<1>2. BracketedBy(f, p, q)
  BY <1>1, LoadBrackets
<1>3. bs \in Seq(Binding) /\ bs \in Seq(Elem)
  BY FileType
<1>4. /\ f \in Seq(Elem)
      /\ Len(f) = Len(e) + Len(bs)
      /\ \A i \in 1..(Len(e) + Len(bs)) :
            f[i] = IF i <= Len(e) THEN e[i] ELSE bs[i - Len(e)]
  BY <1>3, ConcatProperties
<1>5. /\ Len(e) \in Nat /\ Len(bs) \in Nat
      /\ p \in 1..Len(e) /\ q \in 1..Len(e)
  BY <1>3, LenProperties
<1> HIDE DEF f
<1> DEFINE B == Before(e)
<1> DEFINE A == After(e)
<1> DEFINE C == Before(f)
<1> DEFINE D == After(f)
<1>6. /\ B \in Seq(Binding) /\ Len(B) = p - 1
      /\ \A i \in 1..(p - 1) : B[i] = e[i]
      /\ A \in Seq(Binding) /\ Len(A) = Len(e) - q
      /\ \A i \in 1..(Len(e) - q) : A[i] = e[q + i]
  BY <1>1, OwnParts
<1>7. /\ C \in Seq(Binding) /\ Len(C) = p - 1
      /\ \A i \in 1..(p - 1) : C[i] = f[i]
      /\ D \in Seq(Binding) /\ Len(D) = Len(f) - q
      /\ \A i \in 1..(Len(f) - q) : D[i] = f[q + i]
  BY <1>2, <1>4, OwnParts
<1>8. /\ A \o bs \in Seq(Binding)
      /\ Len(A \o bs) = Len(A) + Len(bs)
      /\ \A i \in 1..(Len(A) + Len(bs)) :
            (A \o bs)[i] = IF i <= Len(A) THEN A[i] ELSE bs[i - Len(A)]
  BY <1>3, <1>6, ConcatProperties
<1>9. ScopeOf("exec", f).bound = Reverse(C) /\ ScopeOf("exec", f).loaded = D
      /\ ScopeOf("exec", e).bound = Reverse(B) /\ ScopeOf("exec", e).loaded = A
  BY DEF ScopeOf
<1> HIDE DEF A, B, C, D
<1>10. C = B
  <2>1. Len(C) = Len(B)
    BY <1>6, <1>7
  <2>2. \A i \in 1..Len(C) : C[i] = B[i]
    <3> TAKE i \in 1..Len(C)
    <3>1. i \in 1..(p - 1) /\ i \in 1..(Len(e) + Len(bs)) /\ i <= Len(e)
      BY <1>5, <1>7
    <3> QED
      BY <1>4, <1>6, <1>7, <3>1
  <2> QED
    BY <1>6, <1>7, <2>1, <2>2, SeqEqual
<1>11. D = A \o bs
  <2>1. Len(D) = Len(A) + Len(bs) /\ Len(D) = Len(e) - q + Len(bs)
    BY <1>4, <1>5, <1>6, <1>7
  <2>2. \A i \in 1..Len(D) : D[i] = (A \o bs)[i]
    <3> SUFFICES ASSUME NEW i \in 1..Len(D) PROVE D[i] = (A \o bs)[i]
      OBVIOUS
    <3>1. /\ i \in 1..(Len(f) - q) /\ i \in 1..(Len(A) + Len(bs))
          /\ q + i \in 1..(Len(e) + Len(bs))
      BY <1>4, <1>5, <1>6, <2>1
    <3>2. D[i] = IF q + i <= Len(e) THEN e[q + i] ELSE bs[(q + i) - Len(e)]
      BY <1>4, <1>7, <3>1
    <3>3. CASE i <= Len(A)
      <4>1. i \in 1..(Len(e) - q) /\ q + i <= Len(e)
        BY <1>5, <1>6, <3>1, <3>3
      <4> QED
        BY <1>6, <1>8, <3>1, <3>2, <3>3, <4>1
    <3>4. CASE ~(i <= Len(A))
      <4>0. Len(A) = Len(e) - q
        BY <1>6
      <4>1. ~(q + i <= Len(e)) /\ (q + i) - Len(e) = i - Len(A)
        BY <1>5, <3>4, <4>0
      <4> QED
        BY <1>8, <3>1, <3>2, <3>4, <4>1
    <3> QED
      BY <3>3, <3>4
  <2>3. Len(D) = Len(A \o bs)
    BY <1>8, <2>1
  <2> QED
    BY <1>7, <1>8, <2>2, <2>3, SeqEqual
<1> QED
  BY <1>9, <1>10, <1>11 DEF f, A, B, C, D

-----------------------------------------------------------------------------
(* What a step does to the environments of the open frames.                *)

(* Entering a frame saves the environment the enclosing frame works on. *)
LEMMA EnterKeepsOuter ==
    ASSUME TypeOK, NEW kind \in {"exec", "plain"},
           dump' = Append(dump, [kind |-> kind, env |-> env])
    PROVE  /\ dump' \in Seq(Frame)
           /\ Len(dump) \in Nat
           /\ Len(dump') = Len(dump) + 1
           /\ dump'[Len(dump) + 1].kind = kind
           /\ \A i \in Nat : i = Len(dump) + 1 => EnvIn(i)' = env'
           /\ \A i \in 1..Len(dump) :
                  dump'[i].kind = dump[i].kind /\ EnvIn(i)' = EnvIn(i)
<1> DEFINE fr == [kind |-> kind, env |-> env]
<1>1. fr \in Frame /\ fr.kind = kind /\ fr.env = env
  BY DEF TypeOK, Frame
<1>2. /\ dump' \in Seq(Frame)
      /\ Len(dump') = Len(dump) + 1
      /\ \A i \in 1..Len(dump) : dump'[i] = dump[i]
      /\ dump'[Len(dump) + 1] = fr
  BY <1>1, AppendProperties DEF TypeOK
<1>3. Len(dump) \in Nat
  BY LenProperties DEF TypeOK
<1> HIDE DEF fr
<1>4. \A i \in Nat : i = Len(dump) + 1 => EnvIn(i)' = env'
  BY <1>2 DEF EnvIn
<1>5. \A i \in 1..Len(dump) : EnvIn(i)' = EnvIn(i)
  <2> SUFFICES ASSUME NEW i \in 1..Len(dump) PROVE EnvIn(i)' = EnvIn(i)
    OBVIOUS
  <2>1. EnvIn(i)' = dump'[i + 1].env
    BY <1>2, <1>3 DEF EnvIn
  <2>2. CASE i = Len(dump)
    BY <1>1, <1>2, <2>1, <2>2 DEF EnvIn
  <2>3. CASE i # Len(dump)
    <3>1. i + 1 \in 1..Len(dump)
      BY <1>3, <2>3
    <3> QED
      BY <1>2, <2>1, <2>3, <3>1 DEF EnvIn
  <2> QED
    BY <2>2, <2>3
<1> QED
  BY <1>1, <1>2, <1>3, <1>4, <1>5

(* Returning restores the environment the enclosing frame works on. *)
LEMMA ReturnKeepsOuter ==
    ASSUME TypeOK, dump # <<>>,
           env' = dump[Len(dump)].env,
           dump' = SubSeq(dump, 1, Len(dump) - 1)
    PROVE  /\ dump' \in Seq(Frame)
           /\ Len(dump) \in Nat \ {0}
           /\ dump[Len(dump)] \in Frame
           /\ Len(dump') = Len(dump) - 1
           /\ \A i \in 1..(Len(dump) - 1) :
                  dump'[i].kind = dump[i].kind /\ EnvIn(i)' = EnvIn(i)
<1>1. /\ Len(dump) \in Nat \ {0}
      /\ dump[Len(dump)] \in Frame
      /\ dump' \in Seq(Frame)
      /\ Len(dump') = Len(dump) - 1
      /\ \A i \in 1..(Len(dump) - 1) : dump'[i] = dump[i]
  BY FrontProperties DEF TypeOK
<1>2. \A i \in 1..(Len(dump) - 1) : EnvIn(i)' = EnvIn(i)
  <2> SUFFICES ASSUME NEW i \in 1..(Len(dump) - 1) PROVE EnvIn(i)' = EnvIn(i)
    OBVIOUS
  <2>1. EnvIn(i) = dump[i + 1].env
    BY <1>1 DEF EnvIn
  <2>2. CASE i = Len(dump) - 1
    <3>1. i + 1 = Len(dump) /\ i = Len(dump')
      BY <1>1, <2>2
    <3> QED
      BY <2>1, <3>1 DEF EnvIn
  <2>3. CASE i # Len(dump) - 1
    <3>1. i + 1 \in 1..(Len(dump) - 1) /\ i # Len(dump')
      BY <1>1, <2>3
    <3> QED
      BY <1>1, <2>1, <3>1 DEF EnvIn
  <2> QED
    BY <2>2, <2>3
<1> QED
  BY <1>1, <1>2

(* A binding and a load reach the innermost frame's environment only. *)
LEMMA StepKeepsOuter ==
    ASSUME UNCHANGED dump
    PROVE  \A i \in DOMAIN dump :
              EnvIn(i)' = IF i = Len(dump) THEN env' ELSE EnvIn(i)
  BY DEF EnvIn

(* Environments in use are sequences of elements. *)
LEMMA EnvInType ==
    ASSUME TypeOK, NEW i \in 1..Len(dump)
    PROVE  EnvIn(i) \in Seq(Elem) /\ dump[i].kind \in {"exec", "plain"}
<1>1. Len(dump) \in Nat /\ \A j \in 1..Len(dump) : dump[j] \in Frame
  BY LenProperties, ElementOfSeq DEF TypeOK
<1>2. CASE i = Len(dump)
  BY <1>1, <1>2 DEF TypeOK, EnvIn, Frame
<1>3. CASE i # Len(dump)
  <2>1. i + 1 \in 1..Len(dump)
    BY <1>1, <1>3
  <2> QED
    BY <1>1, <1>3, <2>1 DEF EnvIn, Frame
<1> QED
  BY <1>2, <1>3

-----------------------------------------------------------------------------
(* The inductive invariant.  That a value holds no semaphore rests on the  *)
(* environment it is taken from being bracketed, and that one on the       *)
(* environments of all enclosing frames being so: returning makes the      *)
(* environment of the enclosing frame the current one again.               *)
Inv == TypeOK /\ Brackets /\ NoSemaphoreEscapes

(* A bracketed environment, its brackets named. *)
LEMMA BracketedIntro ==
    ASSUME NEW e, NEW p, NEW q, BracketedBy(e, p, q)
    PROVE  Bracketed(e)
  BY DEF Bracketed, BracketedBy

(* oscript_exec keeps the invariant: the enclosing frames keep their       *)
(* environments, and the new frame starts between its semaphores.          *)
LEMMA EnterExecInv ==
    ASSUME Inv, EnterExec
    PROVE  Inv'
<1> USE DEF Inv, EnterExec
<1>1. /\ env' \in Seq(Elem)
      /\ Bracketed(env')
  BY PushSemaphoresProperties, EnterBrackets, BracketedIntro DEF TypeOK
<1>2. /\ dump' \in Seq(Frame)
      /\ Len(dump) \in Nat
      /\ Len(dump') = Len(dump) + 1
      /\ dump'[Len(dump) + 1].kind = "exec"
      /\ \A i \in Nat : i = Len(dump) + 1 => EnvIn(i)' = env'
      /\ \A i \in 1..Len(dump) :
            dump'[i].kind = dump[i].kind /\ EnvIn(i)' = EnvIn(i)
  BY EnterKeepsOuter
<1>3. TypeOK'
  BY <1>1, <1>2 DEF TypeOK
<1>4. DOMAIN dump = 1..Len(dump) /\ DOMAIN dump' = 1..(Len(dump) + 1)
  BY <1>2, LenProperties DEF TypeOK
<1>5. Brackets'
  <2>1. \A i \in DOMAIN dump' : dump'[i].kind = "exec" => Bracketed(EnvIn(i)')
    <3> SUFFICES ASSUME NEW i \in 1..(Len(dump) + 1), dump'[i].kind = "exec"
                 PROVE  Bracketed(EnvIn(i)')
      BY <1>4
    <3>1. CASE i = Len(dump) + 1
      BY <1>1, <1>2, <3>1
    <3>2. CASE i # Len(dump) + 1
      <4>1. i \in 1..Len(dump)
        BY <1>2, <3>2
      <4> QED
        BY <1>2, <1>4, <4>1 DEF Brackets
    <3> QED
      BY <3>1, <3>2
  <2> QED
    BY <2>1 DEF Brackets, Bracketed, BracketedBy
<1> QED
  BY <1>3, <1>5 DEF NoSemaphoreEscapes

(* A frame without semaphores keeps the invariant: it works on the         *)
(* environment of the frame that opened it.                                *)
LEMMA EnterPlainInv ==
    ASSUME Inv, EnterPlain
    PROVE  Inv'
<1> USE DEF Inv, EnterPlain
<1>1. /\ dump' \in Seq(Frame)
      /\ Len(dump) \in Nat
      /\ Len(dump') = Len(dump) + 1
      /\ dump'[Len(dump) + 1].kind = "plain"
      /\ \A i \in 1..Len(dump) :
            dump'[i].kind = dump[i].kind /\ EnvIn(i)' = EnvIn(i)
  BY EnterKeepsOuter
<1>2. TypeOK'
  BY <1>1 DEF TypeOK
<1>3. DOMAIN dump = 1..Len(dump) /\ DOMAIN dump' = 1..(Len(dump) + 1)
  BY <1>1, LenProperties DEF TypeOK
<1>4. Brackets'
  <2>1. \A i \in DOMAIN dump' : dump'[i].kind = "exec" => Bracketed(EnvIn(i)')
    <3> SUFFICES ASSUME NEW i \in 1..(Len(dump) + 1), dump'[i].kind = "exec"
                 PROVE  Bracketed(EnvIn(i)')
      BY <1>3
    <3>1. i # Len(dump) + 1
      BY <1>1
    <3>2. i \in 1..Len(dump)
      BY <1>1, <3>1
    <3> QED
      BY <1>1, <1>3, <3>2 DEF Brackets
  <2> QED
    BY <2>1 DEF Brackets, Bracketed, BracketedBy
<1> QED
  BY <1>2, <1>4 DEF NoSemaphoreEscapes

(* A step that keeps the dump keeps the brackets if it keeps env's. *)
LEMMA SameDumpBrackets ==
    ASSUME Inv, UNCHANGED <<dump, returned>>,
           ASSUME Collecting, Bracketed(env) PROVE Bracketed(env')
    PROVE  Brackets'
<1>1. \A i \in DOMAIN dump' : dump'[i].kind = "exec" => Bracketed(EnvIn(i)')
  <2> SUFFICES ASSUME NEW i \in DOMAIN dump, dump[i].kind = "exec"
               PROVE  Bracketed(EnvIn(i)')
    OBVIOUS
  <2>1. Bracketed(EnvIn(i))
    BY DEF Inv, Brackets
  <2>2. EnvIn(i)' = IF i = Len(dump) THEN env' ELSE EnvIn(i)
    BY StepKeepsOuter
  <2>3. CASE i = Len(dump)
    <3>1. EnvIn(i) = env
      BY <2>3 DEF EnvIn
    <3>2. Collecting
      BY <2>3 DEF Collecting
    <3> QED
      BY <2>1, <2>2, <2>3, <3>1, <3>2
  <2>4. CASE i # Len(dump)
    BY <2>1, <2>2, <2>4
  <2> QED
    BY <2>3, <2>4
<1>2. \A i \in DOMAIN returned' : Bracketed(returned'[i])
  BY DEF Inv, Brackets
<1> QED
  BY <1>1, <1>2 DEF Brackets, Bracketed, BracketedBy

(* Binding an element keeps the invariant: it lands in front of #BEG.      *)
LEMMA BindInv ==
    ASSUME Inv, NEW b \in Bindable, Bind(b)
    PROVE  Inv'
<1> USE DEF Inv, Bind
<1>1. b \in Elem /\ (Collecting => b \in Binding)
  BY DEF Elem, Bindable
<1>2. env' \in Seq(Elem)
  BY <1>1, ConsProperties DEF TypeOK
<1>3. TypeOK'
  BY <1>2 DEF TypeOK
<1>4. ASSUME Collecting, Bracketed(env) PROVE Bracketed(env')
  <2>1. PICK p, q \in DOMAIN env : BracketedBy(env, p, q)
    BY <1>4 DEF Bracketed
  <2>2. BracketedBy(<<b>> \o env, p + 1, q + 1)
    BY <1>1, <1>4, <2>1, BindBrackets DEF TypeOK
  <2> QED
    BY <2>2, BracketedIntro
<1>5. Brackets'
  BY <1>4, SameDumpBrackets
<1> QED
  BY <1>3, <1>5 DEF NoSemaphoreEscapes

(* Loading a file keeps the invariant: its elements land behind #END.      *)
LEMMA LoadInv ==
    ASSUME Inv, NEW bs \in Files, Load(bs)
    PROVE  Inv'
<1> USE DEF Inv, Load
<1>1. env' \in Seq(Elem)
  BY FileType, ConcatProperties DEF TypeOK
<1>2. TypeOK'
  BY <1>1 DEF TypeOK
<1>3. ASSUME Bracketed(env) PROVE Bracketed(env')
  <2>1. PICK p, q \in DOMAIN env : BracketedBy(env, p, q)
    BY <1>3 DEF Bracketed
  <2>2. BracketedBy(env \o bs, p, q)
    BY <2>1, LoadBrackets DEF TypeOK
  <2> QED
    BY <2>2, BracketedIntro
<1>4. Brackets'
  BY <1>3, SameDumpBrackets
<1> QED
  BY <1>2, <1>4 DEF NoSemaphoreEscapes

(* Returning keeps the invariant: the environment handed to the finalizer  *)
(* is bracketed, and the one restored is the one that was saved.           *)
LEMMA ReturnInv ==
    ASSUME Inv, Return
    PROVE  Inv'
<1> USE DEF Inv, Return
<1>1. /\ dump' \in Seq(Frame)
      /\ Len(dump) \in Nat \ {0}
      /\ dump[Len(dump)] \in Frame
      /\ Len(dump') = Len(dump) - 1
      /\ \A i \in 1..(Len(dump) - 1) :
            dump'[i].kind = dump[i].kind /\ EnvIn(i)' = EnvIn(i)
  BY ReturnKeepsOuter
<1>2. /\ DOMAIN dump = 1..Len(dump) /\ DOMAIN dump' = 1..(Len(dump) - 1)
      /\ Len(dump) \in DOMAIN dump
  BY <1>1, LenProperties DEF TypeOK
<1>3. env' \in Seq(Elem)
  BY <1>1 DEF Frame
<1>4. returned' \in Seq(Seq(Elem)) /\ Len(returned') <= 1
  BY DEF TypeOK
<1>5. TypeOK'
  BY <1>1, <1>3, <1>4 DEF TypeOK
<1>6. \A i \in DOMAIN dump' : dump'[i].kind = "exec" => Bracketed(EnvIn(i)')
  <2> SUFFICES ASSUME NEW i \in 1..(Len(dump) - 1), dump'[i].kind = "exec"
               PROVE  Bracketed(EnvIn(i)')
    BY <1>2
  <2>1. i \in DOMAIN dump
    BY <1>1, <1>2
  <2> QED
    BY <1>1, <2>1 DEF Brackets
<1>7. \A i \in DOMAIN returned' : Bracketed(returned'[i])
  <2>1. CASE dump[Len(dump)].kind = "exec"
    <3>1. Bracketed(EnvIn(Len(dump))) /\ EnvIn(Len(dump)) = env
      BY <1>2, <2>1 DEF Brackets, EnvIn
    <3>2. returned' = <<env>>
      BY <2>1
    <3> QED
      BY <3>1, <3>2
  <2>2. CASE dump[Len(dump)].kind # "exec"
    <3>1. returned' = <<>> /\ DOMAIN returned' = {}
      BY <2>2
    <3> QED
      BY <3>1
  <2> QED
    BY <2>1, <2>2
<1>8. Brackets'
  BY <1>6, <1>7 DEF Brackets, Bracketed, BracketedBy
<1> QED
  BY <1>5, <1>8 DEF NoSemaphoreEscapes

(* The value of a bracketed environment holds bindings only. *)
LEMMA OwnElemsType ==
    ASSUME NEW e \in Seq(Elem), Bracketed(e)
    PROVE  OwnElems(e) \in Seq(Binding)
<1>1. PICK p, q \in DOMAIN e : BracketedBy(e, p, q)
  BY DEF Bracketed
<1>2. Before(e) \in Seq(Binding) /\ After(e) \in Seq(Binding)
  BY <1>1, OwnParts
<1>3. Reverse(Before(e)) \in Seq(Binding)
  BY <1>2, ReverseProperties
<1> QED
  BY <1>2, <1>3, ConcatProperties DEF OwnElems

(* oscript_finalizeExec keeps the invariant: it leaves no semaphore.       *)
LEMMA FinalizeExecInv ==
    ASSUME Inv, FinalizeExec
    PROVE  Inv'
<1> USE DEF Inv, FinalizeExec
<1>1. 1 \in DOMAIN returned /\ returned[1] \in Seq(Elem)
  BY EmptySeq, LenProperties, ElementOfSeq DEF TypeOK
<1>2. value' \in Seq(Binding)
  BY <1>1, OwnElemsType DEF Brackets
<1>3. value' \in Seq(Elem)
  BY <1>2, SeqMonotonic DEF Elem
<1>4. TypeOK'
  BY <1>3 DEF TypeOK
<1>5. NoSemaphoreEscapes'
  BY <1>2, LenProperties, ElementOfSeq DEF NoSemaphoreEscapes
<1>6. Brackets'
  <2>1. DOMAIN returned' = {}
    OBVIOUS
  <2>2. \A i \in DOMAIN dump : EnvIn(i)' = EnvIn(i)
    BY DEF EnvIn
  <2> QED
    BY <2>1, <2>2 DEF Brackets, Bracketed, BracketedBy
<1> QED
  BY <1>4, <1>5, <1>6

(* The invariant holds in every state of every behaviour of the machine of *)
(* oscript_exec.c.                                                         *)
THEOREM Invariance == Spec => []Inv
<1>1. Init => Inv
  <2> SUFFICES ASSUME Init PROVE Inv
    OBVIOUS
  <2>1. TypeOK
    BY DEF Init, TypeOK
  <2>2. DOMAIN dump = {} /\ DOMAIN returned = {} /\ DOMAIN value = {}
    BY DEF Init
  <2> QED
    BY <2>1, <2>2 DEF Inv, Brackets, NoSemaphoreEscapes
<1>2. Inv /\ [Next]_vars => Inv'
  <2> SUFFICES ASSUME Inv, [Next]_vars PROVE Inv'
    OBVIOUS
  <2>1. CASE EnterExec
    BY <2>1, EnterExecInv
  <2>2. CASE EnterPlain
    BY <2>2, EnterPlainInv
  <2>3. CASE \E b \in Bindable : Bind(b)
    BY <2>3, BindInv
  <2>4. CASE \E bs \in Files : Load(bs)
    BY <2>4, LoadInv
  <2>5. CASE Return
    BY <2>5, ReturnInv
  <2>6. CASE FinalizeExec
    BY <2>6, FinalizeExecInv
  <2>7. CASE UNCHANGED vars
    BY <2>7 DEF vars, Inv, TypeOK, Brackets, NoSemaphoreEscapes, EnvIn,
                Bracketed, BracketedBy
  <2> QED
    BY <2>1, <2>2, <2>3, <2>4, <2>5, <2>6, <2>7 DEF Next
<1> QED
  BY <1>1, <1>2, PTL DEF Spec

(* Type correctness of the machine. *)
THEOREM TypeCorrect == Spec => []TypeOK
  BY Invariance, PTL DEF Inv

(* Every bundle under evaluation works on an environment whose first #BEG  *)
(* and last #END are its own: oscript_finalizeExec always finds them.      *)
THEOREM FramesBracketed == Spec => []Brackets
  BY Invariance, PTL DEF Inv

(* No value left by oscript_finalizeExec holds a semaphore. *)
THEOREM SemaphoresStayInside == Spec => []NoSemaphoreEscapes
  BY Invariance, PTL DEF Inv

-----------------------------------------------------------------------------
(* The machine implements ExecScopes.                                      *)

(* A function on 1..n is a sequence of its own values. *)
LEMMA FunctionIsSeq ==
    ASSUME NEW n \in Nat, NEW s, s = [i \in 1..n |-> s[i]],
           NEW S, \A i \in 1..n : s[i] \in S
    PROVE  s \in Seq(S) /\ Len(s) = n /\ DOMAIN s = 1..n
<1>1. s \in [1..n -> S]
  OBVIOUS
<1> QED
  BY <1>1

(* One more place, the others as they were: something was appended. *)
LEMMA GrownIsAppend ==
    ASSUME NEW n \in Nat, NEW s, NEW t, NEW x,
           s = [i \in 1..n |-> s[i]],
           t = [i \in 1..(n + 1) |-> t[i]],
           \A i \in 1..n : t[i] = s[i],
           t[n + 1] = x
    PROVE  t = Append(s, x)
<1> DEFINE S == {s[i] : i \in 1..n} \union {x}
<1>1. s \in Seq(S) /\ Len(s) = n
  BY FunctionIsSeq
<1>2. \A i \in 1..(n + 1) : t[i] \in S
  <2> SUFFICES ASSUME NEW i \in 1..(n + 1) PROVE t[i] \in S
    OBVIOUS
  <2>1. i \in 1..n \/ i = n + 1
    OBVIOUS
  <2>2. CASE i \in 1..n
    <3>1. t[i] = s[i]
      BY <2>2
    <3> QED
      BY <2>2, <3>1
  <2>3. CASE i = n + 1
    BY <2>3
  <2> QED
    BY <2>1, <2>2, <2>3
<1>3. t \in Seq(S) /\ Len(t) = n + 1
  <2>1. n + 1 \in Nat
    OBVIOUS
  <2> QED
    BY <1>2, <2>1, FunctionIsSeq
<1>4. x \in S
  OBVIOUS
<1> HIDE DEF S
<1>5. /\ Append(s, x) \in Seq(S)
      /\ Len(Append(s, x)) = n + 1
      /\ \A i \in 1..n : Append(s, x)[i] = s[i]
      /\ Append(s, x)[n + 1] = x
  BY <1>1, <1>4, AppendProperties
<1>6. \A i \in 1..Len(t) : t[i] = Append(s, x)[i]
  BY <1>3, <1>5
<1> QED
  BY <1>3, <1>5, <1>6, SeqEqual

(* One place fewer, the others as they were: the last one was dropped. *)
LEMMA ShrunkIsFront ==
    ASSUME NEW n \in Nat \ {0}, NEW s, NEW t,
           s = [i \in 1..n |-> s[i]],
           t = [i \in 1..(n - 1) |-> t[i]],
           \A i \in 1..(n - 1) : t[i] = s[i]
    PROVE  t = SubSeq(s, 1, Len(s) - 1)
<1> DEFINE S == {s[i] : i \in 1..n}
<1>1. s \in Seq(S) /\ Len(s) = n
  BY FunctionIsSeq
<1>2. t \in Seq(S) /\ Len(t) = n - 1
  <2>1. n - 1 \in Nat
    OBVIOUS
  <2>2. \A i \in 1..(n - 1) : t[i] \in S
    <3> SUFFICES ASSUME NEW i \in 1..(n - 1) PROVE t[i] \in S
      OBVIOUS
    <3>1. i \in 1..n
      OBVIOUS
    <3>2. t[i] = s[i]
      OBVIOUS
    <3> QED
      BY <3>1, <3>2
  <2> QED
    BY <2>1, <2>2, FunctionIsSeq
<1> HIDE DEF S
<1>3. s # <<>>
  BY <1>1
<1>4. /\ SubSeq(s, 1, Len(s) - 1) \in Seq(S)
      /\ Len(SubSeq(s, 1, Len(s) - 1)) = n - 1
      /\ \A i \in 1..(n - 1) : SubSeq(s, 1, Len(s) - 1)[i] = s[i]
  BY <1>1, <1>3, FrontProperties
<1> DEFINE u == SubSeq(s, 1, Len(s) - 1)
<1> HIDE DEF u
<1>5. \A i \in 1..Len(t) : t[i] = u[i]
  BY <1>2, <1>4 DEF u
<1>6. u \in Seq(S) /\ Len(t) = Len(u)
  BY <1>2, <1>4 DEF u
<1>7. t = u
  BY <1>2, <1>5, <1>6, SeqEqual
<1> QED
  BY <1>7 DEF u

(* The scopes read off the dump, as a function of its places. *)
LEMMA OpenScopesShape ==
    ASSUME TypeOK
    PROVE  /\ Len(dump) \in Nat
           /\ DOMAIN dump = 1..Len(dump)
           /\ Len(OpenScopes) = Len(dump)
           /\ OpenScopes = [i \in 1..Len(dump) |-> OpenScopes[i]]
           /\ \A i \in 1..Len(dump) :
                 OpenScopes[i] = ScopeOf(dump[i].kind, EnvIn(i))
           /\ dump = <<>> <=> OpenScopes = <<>>
           /\ returned = <<>> <=> ClosingScopes = <<>>
<1>1. Len(dump) \in Nat /\ DOMAIN dump = 1..Len(dump)
  BY LenProperties DEF TypeOK
<1>2. Len(returned) \in Nat
  BY LenProperties DEF TypeOK
<1>3. /\ OpenScopes = [i \in 1..Len(dump) |-> OpenScopes[i]]
      /\ \A i \in 1..Len(dump) :
            OpenScopes[i] = ScopeOf(dump[i].kind, EnvIn(i))
  BY DEF OpenScopes
<1>4. OpenScopes \in Seq({OpenScopes[i] : i \in 1..Len(dump)})
      /\ Len(OpenScopes) = Len(dump)
  BY <1>1, <1>3, FunctionIsSeq
<1>5. /\ ClosingScopes \in Seq({ClosingScopes[i] : i \in 1..Len(returned)})
      /\ Len(ClosingScopes) = Len(returned)
  <2>1. ClosingScopes = [i \in 1..Len(returned) |-> ClosingScopes[i]]
    BY DEF ClosingScopes
  <2> QED
    BY <1>2, <2>1, FunctionIsSeq
<1>6. dump = <<>> <=> OpenScopes = <<>>
  BY <1>1, <1>4, EmptySeq DEF TypeOK
<1>7. returned = <<>> <=> ClosingScopes = <<>>
  BY <1>2, <1>5, EmptySeq DEF TypeOK
<1> QED
  BY <1>1, <1>3, <1>4, <1>6, <1>7

(* oscript_exec opens an empty scope of kind exec.                         *)
LEMMA EnterExecRefines ==
    ASSUME Inv, EnterExec
    PROVE  Scopes!Open("exec")
<1> USE DEF EnterExec, Inv
<1>1. /\ Len(dump) \in Nat
      /\ OpenScopes = [i \in 1..Len(dump) |-> OpenScopes[i]]
      /\ \A i \in 1..Len(dump) :
            OpenScopes[i] = ScopeOf(dump[i].kind, EnvIn(i))
      /\ returned = <<>> <=> ClosingScopes = <<>>
  BY OpenScopesShape
<1>2. /\ Len(dump') = Len(dump) + 1
      /\ dump'[Len(dump) + 1].kind = "exec"
      /\ \A i \in Nat : i = Len(dump) + 1 => EnvIn(i)' = env'
      /\ \A i \in 1..Len(dump) :
            dump'[i].kind = dump[i].kind /\ EnvIn(i)' = EnvIn(i)
  BY EnterKeepsOuter
<1>3. /\ OpenScopes' = [i \in 1..(Len(dump) + 1) |-> OpenScopes'[i]]
      /\ \A i \in 1..(Len(dump) + 1) :
            OpenScopes'[i] = ScopeOf(dump'[i].kind, EnvIn(i)')
  BY <1>2 DEF OpenScopes, ScopeOf, Before, After, FirstBEG, LastEND
<1>4. \A i \in 1..Len(dump) : OpenScopes'[i] = OpenScopes[i]
  BY <1>1, <1>2, <1>3
<1>5. OpenScopes'[Len(dump) + 1]
        = [kind |-> "exec", bound |-> <<>>, loaded |-> <<>>]
  <2>1. OpenScopes'[Len(dump) + 1] = ScopeOf("exec", env')
    BY <1>1, <1>2, <1>3
  <2> QED
    BY <2>1, EnterScope DEF TypeOK
<1>6. OpenScopes' = Append(OpenScopes, Scopes!Scope("exec"))
  BY <1>1, <1>3, <1>4, <1>5, GrownIsAppend DEF Scopes!Scope
<1>7. UNCHANGED <<ClosingScopes, value>>
  BY DEF ClosingScopes, ScopeOf, Before, After, FirstBEG, LastEND
<1> QED
  BY <1>1, <1>6, <1>7 DEF Scopes!Open, Running

(* exec1 and oscript_execLambdaApplication open a scope that collects nothing. *)
LEMMA EnterPlainRefines ==
    ASSUME Inv, EnterPlain
    PROVE  Scopes!Open("plain")
<1> USE DEF EnterPlain, Inv
<1>1. /\ Len(dump) \in Nat
      /\ OpenScopes = [i \in 1..Len(dump) |-> OpenScopes[i]]
      /\ \A i \in 1..Len(dump) :
            OpenScopes[i] = ScopeOf(dump[i].kind, EnvIn(i))
      /\ returned = <<>> <=> ClosingScopes = <<>>
  BY OpenScopesShape
<1>2. /\ Len(dump') = Len(dump) + 1
      /\ dump'[Len(dump) + 1].kind = "plain"
      /\ \A i \in 1..Len(dump) :
            dump'[i].kind = dump[i].kind /\ EnvIn(i)' = EnvIn(i)
  BY EnterKeepsOuter
<1>3. /\ OpenScopes' = [i \in 1..(Len(dump) + 1) |-> OpenScopes'[i]]
      /\ \A i \in 1..(Len(dump) + 1) :
            OpenScopes'[i] = ScopeOf(dump'[i].kind, EnvIn(i)')
  BY <1>2 DEF OpenScopes, ScopeOf, Before, After, FirstBEG, LastEND
<1>4. \A i \in 1..Len(dump) : OpenScopes'[i] = OpenScopes[i]
  BY <1>1, <1>2, <1>3
<1>5. OpenScopes'[Len(dump) + 1]
        = [kind |-> "plain", bound |-> <<>>, loaded |-> <<>>]
  BY <1>1, <1>2, <1>3 DEF ScopeOf
<1>6. OpenScopes' = Append(OpenScopes, Scopes!Scope("plain"))
  BY <1>1, <1>3, <1>4, <1>5, GrownIsAppend DEF Scopes!Scope
<1>7. UNCHANGED <<ClosingScopes, value>>
  BY DEF ClosingScopes, ScopeOf, Before, After, FirstBEG, LastEND
<1> QED
  BY <1>1, <1>6, <1>7 DEF Scopes!Open, Running

(* A step inside the innermost frame reaches that frame's scope only. *)
LEMMA InnermostScope ==
    ASSUME Inv, UNCHANGED <<dump, returned>>
    PROVE  /\ OpenScopes' = [i \in 1..Len(dump) |-> OpenScopes'[i]]
           /\ \A i \in 1..Len(dump) :
                 OpenScopes'[i] = ScopeOf(dump[i].kind,
                                          IF i = Len(dump) THEN env'
                                          ELSE EnvIn(i))
           /\ UNCHANGED ClosingScopes
<1>1. \A i \in 1..Len(dump) :
          EnvIn(i)' = IF i = Len(dump) THEN env' ELSE EnvIn(i)
  BY StepKeepsOuter, LenProperties DEF Inv, TypeOK
<1>2. OpenScopes' = [i \in 1..Len(dump) |-> ScopeOf(dump[i].kind, EnvIn(i)')]
  BY DEF OpenScopes, ScopeOf, Before, After, FirstBEG, LastEND
<1>3. UNCHANGED ClosingScopes
  BY DEF ClosingScopes, ScopeOf, Before, After, FirstBEG, LastEND
<1> QED
  BY <1>1, <1>2, <1>3

(* If that frame collects nothing, no scope changes. *)
LEMMA NothingCollected ==
    ASSUME Inv, UNCHANGED <<dump, returned>>,
           dump = <<>> \/ dump[Len(dump)].kind # "exec"
    PROVE  UNCHANGED OpenScopes /\ ~Scopes!Collects
<1>1. /\ Len(dump) \in Nat
      /\ Len(OpenScopes) = Len(dump)
      /\ OpenScopes = [i \in 1..Len(dump) |-> OpenScopes[i]]
      /\ \A i \in 1..Len(dump) :
            OpenScopes[i] = ScopeOf(dump[i].kind, EnvIn(i))
      /\ dump = <<>> <=> OpenScopes = <<>>
  BY OpenScopesShape DEF Inv
<1>2. /\ OpenScopes' = [i \in 1..Len(dump) |-> OpenScopes'[i]]
      /\ \A i \in 1..Len(dump) :
            OpenScopes'[i] = ScopeOf(dump[i].kind,
                                     IF i = Len(dump) THEN env' ELSE EnvIn(i))
  BY InnermostScope
<1>3. dump # <<>> => Len(dump) \in 1..Len(dump)
  BY EmptySeq DEF Inv, TypeOK
<1>4. \A i \in 1..Len(dump) : OpenScopes'[i] = OpenScopes[i]
  <2> SUFFICES ASSUME NEW i \in 1..Len(dump)
               PROVE  OpenScopes'[i] = OpenScopes[i]
    OBVIOUS
  <2>1. CASE i = Len(dump)
    <3>1. dump[i].kind # "exec"
      <4>1. dump # <<>>
        BY <1>1, <2>1
      <4> QED
        BY <2>1, <4>1
    <3> QED
      BY <1>1, <1>2, <3>1 DEF ScopeOf
  <2>2. CASE i # Len(dump)
    BY <1>1, <1>2, <2>2
  <2> QED
    BY <2>1, <2>2
<1>5. UNCHANGED OpenScopes
  BY <1>1, <1>2, <1>4
<1>6. ~Scopes!Collects
  BY <1>1, <1>3 DEF Scopes!Collects, ScopeOf
<1> QED
  BY <1>5, <1>6

(* The fields of an exec scope, and what changing one of them leaves. *)
LEMMA ExecScopeRecord ==
    ASSUME NEW e, NEW x
    PROVE  /\ ScopeOf("exec", e)
                 = [kind |-> "exec", bound |-> ScopeOf("exec", e).bound,
                    loaded |-> ScopeOf("exec", e).loaded]
           /\ [ScopeOf("exec", e) EXCEPT !.bound = x]
                 = [kind |-> "exec", bound |-> x,
                    loaded |-> ScopeOf("exec", e).loaded]
           /\ [ScopeOf("exec", e) EXCEPT !.loaded = x]
                 = [kind |-> "exec", bound |-> ScopeOf("exec", e).bound,
                    loaded |-> x]
<1>1. PICK B, L : ScopeOf("exec", e)
                    = [kind |-> "exec", bound |-> B, loaded |-> L]
  BY DEF ScopeOf
<1>2. /\ [[kind |-> "exec", bound |-> B, loaded |-> L] EXCEPT !.bound = x]
            = [kind |-> "exec", bound |-> x, loaded |-> L]
      /\ [[kind |-> "exec", bound |-> B, loaded |-> L] EXCEPT !.loaded = x]
            = [kind |-> "exec", bound |-> B, loaded |-> x]
  OBVIOUS
<1> QED
  BY <1>1, <1>2

(* If it collects, its scope is the last one and changes as env does. *)
LEMMA InnermostCollects ==
    ASSUME Inv, dump # <<>>, dump[Len(dump)].kind = "exec"
    PROVE  /\ Scopes!Collects
           /\ Len(dump) \in 1..Len(dump)
           /\ OpenScopes[Len(dump)] = ScopeOf("exec", env)
           /\ Len(OpenScopes) = Len(dump)
           /\ Bracketed(env)
           /\ env \in Seq(Elem)
<1>1. Len(dump) \in 1..Len(dump)
  BY EmptySeq DEF Inv, TypeOK
<1>2. /\ Len(OpenScopes) = Len(dump)
      /\ OpenScopes[Len(dump)] = ScopeOf(dump[Len(dump)].kind, EnvIn(Len(dump)))
      /\ OpenScopes # <<>>
      /\ DOMAIN dump = 1..Len(dump)
  BY <1>1, OpenScopesShape DEF Inv
<1>3. EnvIn(Len(dump)) = env
  BY DEF EnvIn
<1>4. Bracketed(env)
  BY <1>1, <1>2, <1>3 DEF Inv, Brackets
<1>5. Scopes!Collects
  BY <1>2 DEF Scopes!Collects, ScopeOf
<1> QED
  BY <1>1, <1>2, <1>3, <1>4, <1>5 DEF Inv, TypeOK

(* An element bound is what the innermost scope collected last, if it      *)
(* collects.                                                               *)
LEMMA BindRefines ==
    ASSUME Inv, NEW b \in Bindable, Bind(b)
    PROVE  IF Collecting THEN b \in Binding /\ Scopes!Bind(b)
           ELSE UNCHANGED Scopes!vars
<1> USE DEF Bind, Running
<1>1. ClosingScopes = <<>> /\ UNCHANGED <<ClosingScopes, value>>
  BY OpenScopesShape, InnermostScope DEF Inv
<1>2. CASE dump = <<>> \/ dump[Len(dump)].kind # "exec"
  BY <1>1, <1>2, NothingCollected DEF Scopes!vars, Collecting
<1>3. CASE dump # <<>> /\ dump[Len(dump)].kind = "exec"
  <2>0. Collecting /\ b \in Binding
    BY <1>3 DEF Collecting, Bindable
  <2>1. /\ Scopes!Collects
        /\ Len(dump) \in 1..Len(dump)
        /\ OpenScopes[Len(dump)] = ScopeOf("exec", env)
        /\ Len(OpenScopes) = Len(dump)
        /\ Bracketed(env)
        /\ env \in Seq(Elem)
    BY <1>3, InnermostCollects
  <2>2. /\ OpenScopes = [i \in 1..Len(dump) |-> OpenScopes[i]]
        /\ \A i \in 1..Len(dump) :
              OpenScopes[i] = ScopeOf(dump[i].kind, EnvIn(i))
    BY OpenScopesShape DEF Inv
  <2>3. /\ OpenScopes' = [i \in 1..Len(dump) |-> OpenScopes'[i]]
        /\ \A i \in 1..Len(dump) :
              OpenScopes'[i] = ScopeOf(dump[i].kind,
                                       IF i = Len(dump) THEN env' ELSE EnvIn(i))
    BY InnermostScope
  <2>4. /\ ScopeOf("exec", env').bound
                = Append(ScopeOf("exec", env).bound, b)
        /\ ScopeOf("exec", env').loaded = ScopeOf("exec", env).loaded
    BY <2>0, <2>1, BindScope
  <2>5. OpenScopes'[Len(dump)]
          = [OpenScopes[Len(dump)] EXCEPT
                !.bound = Append(OpenScopes[Len(dump)].bound, b)]
    <3>1. OpenScopes'[Len(dump)] = ScopeOf("exec", env')
      BY <1>3, <2>1, <2>3
    <3>2. OpenScopes'[Len(dump)]
            = [kind |-> "exec", bound |-> Append(ScopeOf("exec", env).bound, b),
                loaded |-> ScopeOf("exec", env).loaded]
      BY <2>4, <3>1, ExecScopeRecord
    <3> QED
      BY <2>1, <3>2, ExecScopeRecord
  <2>6. \A i \in 1..Len(dump) : i # Len(dump) => OpenScopes'[i] = OpenScopes[i]
    BY <2>2, <2>3
  <2>7. OpenScopes' = [OpenScopes EXCEPT ![Len(OpenScopes)].bound = Append(@, b)]
    BY <2>1, <2>2, <2>3, <2>5, <2>6
  <2> QED
    BY <1>1, <2>0, <2>1, <2>7 DEF Scopes!Bind
<1> QED
  BY <1>2, <1>3

(* A file loaded is collected behind everything else of the scope.         *)
LEMMA LoadRefines ==
    ASSUME Inv, NEW bs \in Files, Load(bs)
    PROVE  Scopes!Load(bs)
<1> USE DEF Load, Running
<1>1. ClosingScopes = <<>> /\ UNCHANGED <<ClosingScopes, value>>
  BY OpenScopesShape, InnermostScope DEF Inv
<1>2. CASE dump = <<>> \/ dump[Len(dump)].kind # "exec"
  BY <1>1, <1>2, NothingCollected DEF Scopes!Load
<1>3. CASE dump # <<>> /\ dump[Len(dump)].kind = "exec"
  <2>1. /\ Scopes!Collects
        /\ Len(dump) \in 1..Len(dump)
        /\ OpenScopes[Len(dump)] = ScopeOf("exec", env)
        /\ Len(OpenScopes) = Len(dump)
        /\ Bracketed(env)
        /\ env \in Seq(Elem)
    BY <1>3, InnermostCollects
  <2>2. /\ OpenScopes = [i \in 1..Len(dump) |-> OpenScopes[i]]
        /\ \A i \in 1..Len(dump) :
              OpenScopes[i] = ScopeOf(dump[i].kind, EnvIn(i))
    BY OpenScopesShape DEF Inv
  <2>3. /\ OpenScopes' = [i \in 1..Len(dump) |-> OpenScopes'[i]]
        /\ \A i \in 1..Len(dump) :
              OpenScopes'[i] = ScopeOf(dump[i].kind,
                                       IF i = Len(dump) THEN env' ELSE EnvIn(i))
    BY InnermostScope
  <2>4. /\ ScopeOf("exec", env').bound = ScopeOf("exec", env).bound
        /\ ScopeOf("exec", env').loaded
                = ScopeOf("exec", env).loaded \o bs
    BY <2>1, LoadScope
  <2>5. OpenScopes'[Len(dump)]
          = [OpenScopes[Len(dump)] EXCEPT
                !.loaded = OpenScopes[Len(dump)].loaded \o bs]
    <3>1. OpenScopes'[Len(dump)] = ScopeOf("exec", env')
      BY <1>3, <2>1, <2>3
    <3>2. OpenScopes'[Len(dump)]
            = [kind |-> "exec", bound |-> ScopeOf("exec", env).bound,
                loaded |-> ScopeOf("exec", env).loaded \o bs]
      BY <2>4, <3>1, ExecScopeRecord
    <3> QED
      BY <2>1, <3>2, ExecScopeRecord
  <2>6. \A i \in 1..Len(dump) : i # Len(dump) => OpenScopes'[i] = OpenScopes[i]
    BY <2>2, <2>3
  <2>7. OpenScopes' = [OpenScopes EXCEPT ![Len(OpenScopes)].loaded = @ \o bs]
    BY <2>1, <2>2, <2>3, <2>5, <2>6
  <2> QED
    BY <1>1, <2>1, <2>7 DEF Scopes!Load
<1> QED
  BY <1>2, <1>3

(* The scope of the one environment that waits for its finalizer. *)
LEMMA OneClosing ==
    ASSUME NEW e, returned' = <<e>>
    PROVE  ClosingScopes' = <<ScopeOf("exec", e)>>
<1>1. ClosingScopes'
        = [i \in 1..Len(returned') |-> ScopeOf("exec", returned'[i])]
  BY DEF ClosingScopes, ScopeOf, Before, After, FirstBEG, LastEND
<1>2. Len(<<e>>) = 1 /\ <<e>>[1] = e
  OBVIOUS
<1>3. ClosingScopes' = [i \in 1..1 |-> ScopeOf("exec", <<e>>[i])]
  BY <1>1, <1>2
<1>4. [i \in 1..1 |-> ScopeOf("exec", <<e>>[i])] = <<ScopeOf("exec", <<e>>[1])>>
  OBVIOUS
<1> QED
  BY <1>2, <1>3, <1>4

(* A frame that returns closes its scope, and disturbs no other.           *)
LEMMA ReturnRefines ==
    ASSUME Inv, Return
    PROVE  Scopes!Close
<1> USE DEF Return, Running
<1>1. /\ Len(dump') = Len(dump) - 1
      /\ Len(dump) \in Nat \ {0}
      /\ dump[Len(dump)] \in Frame
      /\ \A i \in 1..(Len(dump) - 1) :
            dump'[i].kind = dump[i].kind /\ EnvIn(i)' = EnvIn(i)
  BY ReturnKeepsOuter DEF Inv
<1>2. /\ Len(OpenScopes) = Len(dump)
      /\ OpenScopes = [i \in 1..Len(dump) |-> OpenScopes[i]]
      /\ \A i \in 1..Len(dump) :
            OpenScopes[i] = ScopeOf(dump[i].kind, EnvIn(i))
      /\ OpenScopes # <<>>
      /\ ClosingScopes = <<>>
  BY OpenScopesShape DEF Inv
<1>3. /\ OpenScopes' = [i \in 1..(Len(dump) - 1) |-> OpenScopes'[i]]
      /\ \A i \in 1..(Len(dump) - 1) :
            OpenScopes'[i] = ScopeOf(dump'[i].kind, EnvIn(i)')
  BY <1>1 DEF OpenScopes, ScopeOf, Before, After, FirstBEG, LastEND
<1>4. \A i \in 1..(Len(dump) - 1) : OpenScopes'[i] = OpenScopes[i]
  <2> SUFFICES ASSUME NEW i \in 1..(Len(dump) - 1)
               PROVE  OpenScopes'[i] = OpenScopes[i]
    OBVIOUS
  <2>1. i \in 1..Len(dump)
    BY <1>1
  <2> QED
    BY <1>1, <1>2, <1>3, <2>1
<1>5. OpenScopes' = SubSeq(OpenScopes, 1, Len(OpenScopes) - 1)
  BY <1>1, <1>2, <1>3, <1>4, ShrunkIsFront
<1>6. ClosingScopes'
        = IF Scopes!Collects THEN <<OpenScopes[Len(OpenScopes)]>> ELSE <<>>
  <2>1. CASE dump[Len(dump)].kind = "exec"
    <3>1. Scopes!Collects /\ OpenScopes[Len(OpenScopes)] = ScopeOf("exec", env)
      BY <2>1, InnermostCollects
    <3>2. returned' = <<env>>
      BY <2>1
    <3>3. ClosingScopes' = <<ScopeOf("exec", env)>>
      BY <3>2, OneClosing
    <3> QED
      BY <3>1, <3>3
  <2>2. CASE dump[Len(dump)].kind # "exec"
    <3>1. OpenScopes[Len(OpenScopes)].kind = "plain"
      BY <1>1, <1>2, <2>2 DEF ScopeOf, Frame
    <3>2. ~Scopes!Collects
      BY <3>1 DEF Scopes!Collects
    <3>3. ClosingScopes' = <<>>
      BY <2>2 DEF ClosingScopes
    <3> QED
      BY <3>2, <3>3
  <2> QED
    BY <2>1, <2>2
<1> QED
  BY <1>2, <1>5, <1>6 DEF Scopes!Close

(* oscript_finalizeExec delivers what the closed scope collected.          *)
LEMMA FinalizeExecRefines ==
    ASSUME Inv, FinalizeExec
    PROVE  Scopes!Deliver
<1> USE DEF FinalizeExec
<1>1. Len(returned) \in Nat \ {0}
  BY EmptySeq DEF Inv, TypeOK
<1>2. ClosingScopes # <<>>
  BY OpenScopesShape DEF Inv
<1>3. ClosingScopes[1] = ScopeOf("exec", returned[1])
  BY <1>1 DEF ClosingScopes
<1>4. value' = Scopes!Own(ClosingScopes[1])
  BY <1>3 DEF Scopes!Own, ScopeOf, OwnElems
<1>5. ClosingScopes' = <<>>
  BY DEF ClosingScopes
<1>6. UNCHANGED OpenScopes
  BY DEF OpenScopes, ScopeOf, EnvIn, Before, After, FirstBEG, LastEND
<1> QED
  BY <1>2, <1>4, <1>5, <1>6 DEF Scopes!Deliver

(* oscript_exec, its finalizers and the machine's return, with semaphores  *)
(* in one shared environment, implement the promise of ExecScopes: the     *)
(* value of a bundle is exactly what its own scope collected, in the order *)
(* it was evaluated, the loaded elements last.                             *)
THEOREM ImplementsExecScopes == Spec => ImplementsScopes
<1>1. Init => Scopes!Init
  <2> SUFFICES ASSUME Init PROVE Scopes!Init
    OBVIOUS
  <2> QED
    BY DEF Init, Scopes!Init, OpenScopes, ClosingScopes
<1>2. Inv /\ [Next]_vars => [Scopes!Next]_(Scopes!vars)
  <2> SUFFICES ASSUME Inv, [Next]_vars PROVE [Scopes!Next]_(Scopes!vars)
    OBVIOUS
  <2>1. CASE EnterExec
    BY <2>1, EnterExecRefines DEF Scopes!Next
  <2>2. CASE EnterPlain
    BY <2>2, EnterPlainRefines DEF Scopes!Next
  <2>3. CASE \E b \in Bindable : Bind(b)
    BY <2>3, BindRefines DEF Scopes!Next
  <2>4. CASE \E bs \in Files : Load(bs)
    BY <2>4, LoadRefines DEF Scopes!Next
  <2>5. CASE Return
    BY <2>5, ReturnRefines DEF Scopes!Next
  <2>6. CASE FinalizeExec
    BY <2>6, FinalizeExecRefines DEF Scopes!Next
  <2>7. CASE UNCHANGED vars
    BY <2>7 DEF vars, Scopes!vars, OpenScopes, ClosingScopes, ScopeOf, EnvIn,
                Before, After, FirstBEG, LastEND
  <2> QED
    BY <2>1, <2>2, <2>3, <2>4, <2>5, <2>6, <2>7 DEF Next
<1> QED
  BY <1>1, <1>2, Invariance, PTL DEF Spec, ImplementsScopes, Scopes!Spec
=============================================================================
