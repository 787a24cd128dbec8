--------------------------- MODULE OscriptLibProofs ---------------------------
(***************************************************************************)
(* What the natives of oscript_lib.c promise for any values, arguments and *)
(* lists, not only for the few that TLC gives them: sort_cb is a           *)
(* comparison, a sort orders as far as integer parts tell, and each native *)
(* replaces its arguments by its results or leaves an error.               *)
(***************************************************************************)
EXTENDS OscriptLib, OseBundleProofs, FiniteSetTheorems

-----------------------------------------------------------------------------
(* The comparison.                                                         *)
(*                                                                         *)
(* The integer part of a number is less than one away from it, on the side *)
(* of 0.                                                                   *)
LEMMA TruncatedBounds ==
    ASSUME NEW tenths \in Int
    PROVE  /\ Truncated(tenths) \in Int
           /\ tenths >= 0 => /\ 10 * Truncated(tenths) <= tenths
                             /\ tenths < 10 * Truncated(tenths) + 10
           /\ tenths <= 0 => /\ tenths <= 10 * Truncated(tenths)
                             /\ 10 * Truncated(tenths) - 10 < tenths
<1>1. CASE tenths >= 0
  <2>1. /\ tenths \div 10 \in Int
        /\ 10 * (tenths \div 10) <= tenths
        /\ tenths < 10 * (tenths \div 10) + 10
    BY <1>1, SMT
  <2>2. Truncated(tenths) = tenths \div 10
    BY <1>1 DEF Truncated
  <2> QED BY <1>1, <2>1, <2>2
<1>2. CASE tenths < 0
  <2> DEFINE n == -tenths
  <2>1. /\ n \div 10 \in Int
        /\ 10 * (n \div 10) <= n
        /\ n < 10 * (n \div 10) + 10
    BY <1>2, SMT
  <2>2. Truncated(tenths) = -(n \div 10)
    BY <1>2 DEF Truncated
  <2> QED BY <1>2, <2>1, <2>2
<1> QED BY <1>1, <1>2

LEMMA NumToIntType ==
    ASSUME NEW item, Sortable(item) PROVE NumToInt(item) \in Int
BY TruncatedBounds DEF Sortable, NumToInt

(* sort_cb is a comparison as qsort asks for one: total, antisymmetric in  *)
(* sign and transitive, on strings, numbers and everything else together.  *)
THEOREM SortCbIsComparison ==
    ASSUME NEW S, \A item \in S : Sortable(item) PROVE IsComparison(S)
<1> SUFFICES ASSUME NEW a \in S, NEW b \in S, NEW c \in S
             PROVE  /\ Compare(a, b) <= 0 \/ Compare(b, a) <= 0
                    /\ Compare(a, b) < 0 => Compare(b, a) > 0
                    /\ Compare(a, b) <= 0 /\ Compare(b, c) <= 0 => Compare(a, c) <= 0
    BY DEF IsComparison
<1> DEFINE na == NumToInt(a)  nb == NumToInt(b)  nc == NumToInt(c)
<1>1. na \in Int /\ nb \in Int /\ nc \in Int
    BY NumToIntType
<1>2. /\ IsText(a) => a.val \in Int
      /\ IsText(b) => b.val \in Int
      /\ IsText(c) => c.val \in Int
    BY DEF IsText, Sortable
<1> QED BY <1>1, <1>2 DEF Compare

NumberBounds(x) ==
    /\ Tenths(x) >= 0 => /\ 10 * NumToInt(x) <= Tenths(x)
                         /\ Tenths(x) < 10 * NumToInt(x) + 10
    /\ Tenths(x) <= 0 => /\ Tenths(x) <= 10 * NumToInt(x)
                         /\ 10 * NumToInt(x) - 10 < Tenths(x)

LEMMA NumToIntBounds ==
    ASSUME NEW x, Sortable(x), x.tt \in {"i", "f"} PROVE NumberBounds(x)
<1>1. x.val \in Int
  BY DEF Sortable
<1>2. CASE x.tt = "i"
  <2>1. Tenths(x) = 10 * x.val /\ NumToInt(x) = x.val
    BY <1>2 DEF Tenths, NumToInt
  <2> QED BY <1>1, <2>1 DEF NumberBounds
<1>3. CASE x.tt = "f"
  <2>1. Tenths(x) = x.val /\ NumToInt(x) = Truncated(x.val)
    BY <1>3 DEF Tenths, NumToInt
  <2> QED BY <1>1, <2>1, TruncatedBounds DEF NumberBounds
<1> QED BY <1>2, <1>3

(* Of two items in order, strings are the later ones and in order, and a   *)
(* number comes behind a smaller one only where both have the same integer *)
(* part, so less than 1 apart, or 2 if 0 lies between them.                *)
LEMMA OrderByIntegerPart ==
    ASSUME NEW a, NEW b, Sortable(a), Sortable(b), Compare(a, b) <= 0
    PROVE  /\ IsText(a) => IsText(b) /\ a.val <= b.val
           /\ {a.tt, b.tt} \subseteq {"i", "f"} =>
                 Tenths(a) - Tenths(b) <
                     IF Tenths(a) > 0 /\ Tenths(b) < 0 THEN 20 ELSE 10
<1>1. NumToInt(a) \in Int /\ NumToInt(b) \in Int
    BY NumToIntType
<1>2. IsText(a) => IsText(b) /\ a.val <= b.val
  <2>1. /\ IsText(a) => a.val \in Int
        /\ IsText(b) => b.val \in Int
    BY DEF IsText, Sortable
  <2> QED BY <1>1, <2>1 DEF Compare
<1>3. ASSUME a.tt \in {"i", "f"}, b.tt \in {"i", "f"}
      PROVE  Tenths(a) - Tenths(b) <
                 IF Tenths(a) > 0 /\ Tenths(b) < 0 THEN 20 ELSE 10
  <2>1. NumToInt(a) <= NumToInt(b)
    BY <1>1, <1>3 DEF Compare, IsText
  <2>2. NumberBounds(a) /\ NumberBounds(b)
    BY <1>3, NumToIntBounds
  <2>3. Tenths(a) \in Int /\ Tenths(b) \in Int
    BY <1>3 DEF Tenths, Sortable
  <2> QED BY <1>1, <2>1, <2>2, <2>3 DEF NumberBounds
<1> QED BY <1>2, <1>3

-----------------------------------------------------------------------------
(* Elements, and sequences of them.                                        *)
AllElems(s) == IsSeq(s) /\ \A i \in 1 .. Len(s) : IsElem(s[i])

LEMMA MsgIsElem ==
    ASSUME NEW addr, NEW items, IsSeq(items),
           \A i \in 1 .. Len(items) : IsItem(items[i])
    PROVE  IsElem(Msg(addr, items)) /\ ~IsBndl(Msg(addr, items))
<1>1. DOMAIN items = 1 .. Len(items)
  BY SeqType
<1> QED BY <1>1 DEF Msg, IsElem, IsBndl, IsSeq

LEMMA BndlIsElem ==
    ASSUME NEW elems \in Contents PROVE IsElem(Bndl(elems)) /\ IsBndl(Bndl(elems))
BY DEF Bndl, IsElem, IsBndl

LEMMA OneItem ==
    ASSUME NEW addr, NEW item, IsItem(item)
    PROVE  IsElem(Msg(addr, <<item>>)) /\ ~IsBndl(Msg(addr, <<item>>))
<1>1. IsSeq(<<item>>) /\ Len(<<item>>) = 1 /\ <<item>>[1] = item
  BY OneIsSeq
<1>2. \A i \in 1 .. Len(<<item>>) : IsItem(<<item>>[i])
  BY <1>1
<1> HIDE DEF IsItem
<1> QED BY <1>1, <1>2, MsgIsElem

LEMMA NumIsItem == ASSUME NEW n \in Int PROVE IsItem(Num(n))
BY DEF IsItem, Num, Sortable

(* A bundle is a sequence of elements, a message one of items. *)
LEMMA BndlHas ==
    ASSUME NEW e, IsElem(e), IsBndl(e) PROVE e.elems \in Contents /\ AllElems(e.elems)
<1>1. e.elems \in Seq(Data)
  BY DEF IsElem, IsBndl, Contents
<1>2. /\ IsSeq(e.elems) /\ Len(e.elems) \in Nat
      /\ \A i \in 1 .. Len(e.elems) : e.elems[i] \in Data
  BY <1>1, SeqIsSeq, ElementOfSeq
<1> QED BY <1>1, <1>2, DataAssumption DEF AllElems, Contents

LEMMA MsgHas ==
    ASSUME NEW e, IsElem(e), ~IsBndl(e)
    PROVE  IsSeq(e.items) /\ \A i \in 1 .. Len(e.items) : IsItem(e.items[i])
<1>1. e.items \in Seq(Range(e.items)) /\ \A i \in DOMAIN e.items : IsItem(e.items[i])
  BY DEF IsElem
<1>2. DOMAIN e.items = 1 .. Len(e.items)
  BY <1>1, SeqType DEF IsSeq
<1> QED BY <1>1, <1>2 DEF IsSeq

LEMMA PartsElems ==
    ASSUME NEW e, IsElem(e)
    PROVE  /\ AllElems(Parts(e))
           /\ IsBndl(e) => Parts(e) = e.elems
<1>1. CASE IsBndl(e)
  BY <1>1, BndlHas DEF Parts
<1>2. CASE ~IsBndl(e)
  <2> DEFINE items == e.items
             n == Len(items)
             s == [i \in 1 .. n |-> Msg("", <<items[i]>>)]
  <2>1. /\ IsSeq(items) /\ n \in Nat /\ DOMAIN items = 1 .. n
        /\ \A i \in 1 .. n : IsItem(items[i])
    BY <1>2, MsgHas, SeqType
  <2>2. Parts(e) = s
    BY <1>2, <2>1 DEF Parts
  <2>3. s \in Seq(Range(s)) /\ Len(s) = n
    <3>1. s \in [1 .. n -> Range(s)]
      BY <2>1 DEF Range
    <3>2. DOMAIN s = 1 .. n
      OBVIOUS
    <3> HIDE DEF s
    <3>3. s \in Seq(Range(s))
      BY <2>1, <3>1, SeqDef
    <3>4. Len(s) \in Nat /\ DOMAIN s = 1 .. Len(s)
      BY <3>3, LenProperties
    <3> HIDE DEF n
    <3> QED BY <2>1, <3>2, <3>3, <3>4
  <2>4. \A i \in 1 .. n : IsElem(s[i])
    BY <2>1, OneItem
  <2> HIDE DEF s, n
  <2> QED BY <1>2, <2>2, <2>3, <2>4 DEF AllElems, IsSeq
<1> QED BY <1>1, <1>2

LEMMA ConcatElems ==
    ASSUME NEW s, NEW t, AllElems(s), AllElems(t)
    PROVE  AllElems(s \o t) /\ Len(s \o t) = Len(s) + Len(t)
<1>1. /\ IsSeq(s) /\ IsSeq(t) /\ Len(s) \in Nat /\ Len(t) \in Nat
      /\ \A i \in 1 .. Len(s) : IsElem(s[i])
      /\ \A i \in 1 .. Len(t) : IsElem(t[i])
  BY SeqType DEF AllElems
<1> DEFINE u == s \o t
<1>2. IsSeq(u) /\ Len(u) = Len(s) + Len(t)
  BY <1>1, ConcatSeq
<1>3. \A i \in 1 .. Len(s) : u[i] = s[i]
  BY <1>1, ConcatSeq
<1>4. \A i \in 1 .. Len(t) : u[Len(s) + i] = t[i]
  BY <1>1, ConcatSeq
<1> HIDE DEF u
<1>5. ASSUME NEW i \in 1 .. Len(u) PROVE IsElem(u[i])
  <2>1. CASE i <= Len(s)
    BY <1>1, <1>3, <2>1
  <2>2. CASE i > Len(s)
    <3> DEFINE j == i - Len(s)
    <3>1. j \in 1 .. Len(t) /\ Len(s) + j = i
      BY <1>1, <1>2, <2>2
    <3> HIDE DEF j
    <3>2. u[i] = t[j]
      BY <1>4, <3>1
    <3> QED BY <1>1, <3>1, <3>2
  <2> QED BY <1>1, <1>2, <2>1, <2>2
<1> QED BY <1>2, <1>5 DEF AllElems, u

LEMMA AppendElems ==
    ASSUME NEW s, NEW e, AllElems(s), IsElem(e)
    PROVE  AllElems(Append(s, e)) /\ Len(Append(s, e)) = Len(s) + 1 /\ Append(s, e) # <<>>
           /\ Last(Append(s, e)) = e
<1>1. IsSeq(s) /\ Len(s) \in Nat /\ \A i \in 1 .. Len(s) : IsElem(s[i])
  BY SeqType DEF AllElems
<1> DEFINE u == Append(s, e)
<1>2. IsSeq(u) /\ Len(u) = Len(s) + 1 /\ u[Len(s) + 1] = e
  BY <1>1, AppendSeq
<1>3. \A i \in 1 .. Len(s) : u[i] = s[i]
  BY <1>1, AppendSeq
<1> HIDE DEF u
<1>4. \A i \in 1 .. Len(u) : IsElem(u[i])
  BY <1>1, <1>2, <1>3
<1>5. u # <<>>
  BY <1>1, <1>2, EmptySeq
<1>6. Last(u) = e
  BY <1>2, <1>5, NotEmpty
<1> QED BY <1>2, <1>4, <1>5, <1>6 DEF AllElems, u

LEMMA DropElems ==
    ASSUME NEW s, AllElems(s), NEW n \in Nat, n <= Len(s)
    PROVE  AllElems(DropTop(s, n)) /\ Len(DropTop(s, n)) = Len(s) - n
<1>1. IsSeq(s) /\ Len(s) \in Nat /\ \A i \in 1 .. Len(s) : IsElem(s[i])
  BY SeqType DEF AllElems
<1> DEFINE u == DropTop(s, n)
<1>2. IsSeq(u) /\ Len(u) = Len(s) - n
  BY <1>1, DropSeq
<1>3. \A i \in 1 .. Len(s) - n : u[i] = s[i]
  BY <1>1, DropSeq
<1> HIDE DEF u
<1>4. \A i \in 1 .. Len(u) : IsElem(u[i])
  BY <1>1, <1>2, <1>3
<1> QED BY <1>2, <1>4 DEF AllElems, u

LEMMA FrontElems ==
    ASSUME NEW s, AllElems(s), s # <<>>
    PROVE  AllElems(Front(s)) /\ Len(Front(s)) = Len(s) - 1
<1>1. IsSeq(s) /\ Len(s) \in Nat /\ \A i \in 1 .. Len(s) : IsElem(s[i])
  BY SeqType DEF AllElems
<1> DEFINE u == Front(s)
<1>2. IsSeq(u) /\ Len(u) = Len(s) - 1
  BY <1>1, FrontSeq
<1>3. \A i \in 1 .. Len(s) - 1 : u[i] = s[i]
  BY <1>1, FrontSeq
<1> HIDE DEF u
<1>4. \A i \in 1 .. Len(u) : IsElem(u[i])
  BY <1>1, <1>2, <1>3
<1> QED BY <1>2, <1>4 DEF AllElems, u

(* The n-th element below the top, the top among them. *)
LEMMA TopElem ==
    ASSUME NEW s, AllElems(s), NEW n \in Nat, n < Len(s)
    PROVE  IsElem(FromTop(s, n)) /\ IsElem(Last(s)) /\ s # <<>>
<1>1. IsSeq(s) /\ Len(s) \in Nat /\ \A i \in 1 .. Len(s) : IsElem(s[i])
  BY SeqType DEF AllElems
<1>2. s # <<>>
  BY <1>1, EmptySeq
<1>3. Last(s) = s[Len(s)]
  BY <1>1, <1>2, NotEmpty
<1> QED BY <1>1, <1>2, <1>3 DEF FromTop

LEMMA ReverseElems ==
    ASSUME NEW s, AllElems(s)
    PROVE  AllElems(Reverse(s)) /\ Len(Reverse(s)) = Len(s)
<1> DEFINE n == Len(s)
           u == [i \in 1 .. n |-> s[(n - i) + 1]]
<1>1. n \in Nat /\ \A i \in 1 .. n : IsElem(s[i])
  BY SeqType DEF AllElems
<1>2. Reverse(s) = u
  BY DEF Reverse
<1>3. u \in [1 .. n -> Range(u)] /\ DOMAIN u = 1 .. n
  BY DEF Range
<1>4. \A i \in 1 .. n : IsElem(u[i])
  BY <1>1
<1> HIDE DEF u, n
<1>5. u \in Seq(Range(u))
  BY <1>1, <1>3, SeqDef
<1>6. Len(u) \in Nat /\ DOMAIN u = 1 .. Len(u)
  BY <1>5, LenProperties
<1>7. Len(u) = n
  BY <1>1, <1>3, <1>6
<1> QED BY <1>2, <1>4, <1>5, <1>7 DEF AllElems, IsSeq, n

-----------------------------------------------------------------------------
(* The arguments on the stack, taken apart.                                *)
TakenApart(s, stack) ==
    /\ AllElems(s) /\ AllElems(Last(stack).elems)
    /\ stack # <<>> /\ Len(s) = Len(Front(stack)) + Len(Last(stack).elems)
    /\ Len(Front(stack)) = Len(stack) - 1
    /\ IsPrefix(Front(stack), s)

LEMMA ConcatTakesApart ==
    ASSUME NEW stack, AllElems(stack), stack # <<>>, Last(stack) \in Arguments,
           NEW parts, AllElems(parts), Len(parts) = Len(Last(stack).elems)
    PROVE  TakenApart(Front(stack) \o parts, stack)
<1> DEFINE below == Front(stack)
           s == below \o parts
<1>1. AllElems(below) /\ Len(below) = Len(stack) - 1
  BY FrontElems
<1> HIDE DEF below
<1>2. AllElems(Last(stack).elems)
  BY DataAssumption, BndlHas
<1>3. AllElems(s) /\ Len(s) = Len(below) + Len(parts)
  BY <1>1, ConcatElems
<1>4. IsSeq(below) /\ IsSeq(parts) /\ IsSeq(s) /\ Len(below) \in Nat /\ Len(parts) \in Nat
  BY <1>1, <1>3, SeqType DEF AllElems
<1>5. \A i \in 1 .. Len(below) : s[i] = below[i]
  BY <1>4, ConcatSeq
<1> HIDE DEF s
<1>6. IsPrefix(below, s)
  BY <1>3, <1>4, <1>5, PrefixIs
<1> QED BY <1>1, <1>2, <1>3, <1>6 DEF TakenApart, s, below

LEMMA ArgumentsTakenApart ==
    ASSUME NEW stack, AllElems(stack), stack # <<>>, Last(stack) \in Arguments
    PROVE  TakenApart(UnpackDrop(stack), stack) /\ TakenApart(PopAllDrop(stack), stack)
<1> DEFINE args == Last(stack)
<1>1. IsElem(args) /\ IsBndl(args)
  BY DataAssumption
<1>2. AllElems(Parts(args)) /\ Parts(args) = args.elems
  BY <1>1, PartsElems
<1>3. AllElems(Reverse(Parts(args))) /\ Len(Reverse(Parts(args))) = Len(args.elems)
  BY <1>2, ReverseElems
<1>4. TakenApart(Front(stack) \o Parts(args), stack)
  BY <1>2, ConcatTakesApart
<1>5. TakenApart(Front(stack) \o Reverse(Parts(args)), stack)
  BY <1>3, ConcatTakesApart
<1> QED BY <1>4, <1>5 DEF UnpackDrop, PopAllDrop

(* What drops no more than arguments leaves what is below them. *)
Below(s, stack) == AllElems(s) /\ IsPrefix(Front(stack), s)

LEMMA DropKeepsBelow ==
    ASSUME NEW s, NEW stack, TakenApart(s, stack), AllElems(stack),
           NEW n \in Nat, n <= Len(Last(stack).elems)
    PROVE  /\ Below(DropTop(s, n), stack)
           /\ Len(DropTop(s, n)) = Len(stack) - 1 + Len(Last(stack).elems) - n
<1> DEFINE u == DropTop(s, n)
           below == Front(stack)
           m == Len(s) - n
<1>1. AllElems(below) /\ AllElems(s)
  BY FrontElems DEF TakenApart
<1>2. IsSeq(s) /\ IsSeq(below) /\ IsPrefix(below, s) /\ Len(below) \in Nat
      /\ Len(s) = Len(below) + Len(Last(stack).elems) /\ Len(below) = Len(stack) - 1
  BY <1>1, SeqType DEF AllElems, TakenApart
<1>3. Len(Last(stack).elems) \in Nat
  BY SeqType DEF AllElems, TakenApart
<1>4. m \in Nat /\ Len(below) <= m /\ n <= Len(s) /\ m = Len(below) + Len(Last(stack).elems) - n
  BY <1>2, <1>3
<1>5. AllElems(u) /\ Len(u) = m /\ IsSeq(u)
  BY <1>1, <1>4, DropElems DEF AllElems
<1>6. \A i \in 1 .. m : u[i] = s[i]
  BY <1>2, <1>4, DropSeq
<1>7. m <= Len(u)
  BY <1>4, <1>5
<1> HIDE DEF u, below, m
<1>8. IsPrefix(below, u)
  BY <1>2, <1>4, <1>5, <1>6, <1>7, PrefixKept
<1> QED BY <1>2, <1>3, <1>4, <1>5, <1>8 DEF Below, u, below

LEMMA AppendKeepsBelow ==
    ASSUME NEW s, NEW stack, Below(s, stack), AllElems(stack), stack # <<>>,
           NEW e, IsElem(e)
    PROVE  Below(Append(s, e), stack)
<1> DEFINE u == Append(s, e)
           below == Front(stack)
<1>1. AllElems(below) /\ AllElems(s) /\ AllElems(u) /\ Len(u) = Len(s) + 1
  BY FrontElems, AppendElems DEF Below
<1>2. /\ IsSeq(s) /\ IsSeq(u) /\ IsSeq(below) /\ IsPrefix(below, s)
      /\ Len(below) \in Nat /\ Len(s) \in Nat /\ Len(u) \in Nat
  BY <1>1, SeqType DEF AllElems, Below
<1>3. \A i \in 1 .. Len(s) : u[i] = s[i]
  BY <1>2, AppendSeq
<1>4. Len(below) <= Len(s)
  BY <1>2, PrefixIs
<1> HIDE DEF u, below
<1>5. IsPrefix(below, u)
  BY <1>1, <1>2, <1>3, <1>4, PrefixKept
<1> QED BY <1>1, <1>5 DEF Below, u, below

LEMMA ApartLength ==
    ASSUME NEW s, NEW stack, TakenApart(s, stack), AllElems(stack)
    PROVE  /\ AllElems(s) /\ stack # <<>> /\ IsPrefix(Front(stack), s)
           /\ Len(s) \in Nat /\ Len(stack) \in Nat /\ Len(Last(stack).elems) \in Nat
           /\ Len(stack) >= 1
           /\ Len(s) = Len(stack) - 1 + Len(Last(stack).elems)
<1>1. /\ Len(s) \in Nat /\ Len(stack) \in Nat /\ Len(Last(stack).elems) \in Nat
      /\ stack # <<>> /\ IsSeq(stack)
  BY SeqType DEF TakenApart, AllElems
<1>2. Len(stack) >= 1
  BY <1>1, NotEmpty
<1> QED BY <1>1, <1>2 DEF TakenApart

(* A result in the place of n elements, of the arguments if there are as   *)
(* many.                                                                   *)
LEMMA ResultReplaces ==
    ASSUME NEW s, NEW stack, TakenApart(s, stack), AllElems(stack),
           NEW n \in Nat, n <= Len(s), NEW e, IsElem(e)
    PROVE  /\ AllElems(Append(DropTop(s, n), e))
           /\ Len(Append(DropTop(s, n), e)) = Len(s) - n + 1
           /\ Len(Last(stack).elems) >= n => Below(Append(DropTop(s, n), e), stack)
<1>1. AllElems(s) /\ stack # <<>> /\ Len(s) \in Nat
  BY ApartLength
<1>2. AllElems(DropTop(s, n)) /\ Len(DropTop(s, n)) = Len(s) - n
  BY <1>1, DropElems
<1>3. AllElems(Append(DropTop(s, n), e)) /\ Len(Append(DropTop(s, n), e)) = Len(s) - n + 1
  BY <1>2, AppendElems
<1>4. ASSUME Len(Last(stack).elems) >= n PROVE Below(Append(DropTop(s, n), e), stack)
  <2>1. Len(Last(stack).elems) \in Nat
    BY ApartLength
  <2>2. n <= Len(Last(stack).elems)
    BY <1>4, <2>1
  <2>3. Below(DropTop(s, n), stack)
    BY <2>2, DropKeepsBelow
  <2> QED BY <1>1, <2>3, AppendKeepsBelow
<1> QED BY <1>3, <1>4

-----------------------------------------------------------------------------
(* Items in an order.                                                      *)
LEMMA OrderIs ==
    ASSUME NEW items, IsSeq(items), NEW p \in Orders(items)
    PROVE  /\ p \in Surjection(1 .. Len(items), 1 .. Len(items))
           /\ Ordered([i \in 1 .. Len(items) |-> items[p[i]]])
<1>1. DOMAIN items = 1 .. Len(items) /\ Len(items) \in Nat
  BY SeqType
<1> DEFINE D == 1 .. Len(items)
<1>2. DOMAIN items = D
  BY <1>1
<1> HIDE DEF D
<1>3. /\ p \in [D -> D] /\ Range(p) = D /\ DOMAIN p = D
      /\ Ordered([i \in D |-> items[p[i]]])
  BY <1>2 DEF Orders
<1>4. p \in Surjection(D, D)
  BY <1>3 DEF Surjection, Range
<1> QED BY <1>3, <1>4 DEF D

LEMMA SortedAre ==
    ASSUME NEW items, IsSeq(items), \A i \in 1 .. Len(items) : IsItem(items[i]),
           NEW p \in Orders(items)
    PROVE  /\ IsSeq(SortedVals(items, p)) /\ Len(SortedVals(items, p)) = Len(items)
           /\ \A i \in 1 .. Len(items) : SortedVals(items, p)[i] = items[p[i]]
           /\ \A i \in 1 .. Len(items) : IsItem(SortedVals(items, p)[i])
<1> DEFINE n == Len(items)
           u == [i \in 1 .. n |-> items[p[i]]]
<1>1. DOMAIN items = 1 .. n /\ n \in Nat
  BY SeqType
<1>2. SortedVals(items, p) = u
  BY <1>1 DEF SortedVals
<1>3. p \in [1 .. n -> 1 .. n]
  BY OrderIs DEF Surjection
<1>4. \A i \in 1 .. n : u[i] = items[p[i]] /\ IsItem(u[i])
  BY <1>3
<1>5. DOMAIN u = 1 .. n /\ u = [i \in 1 .. n |-> u[i]]
  OBVIOUS
<1> HIDE DEF u, n
<1>6. IsSeq(u) /\ Len(u) = n
  BY <1>1, <1>5, MappedSeq
<1> QED BY <1>2, <1>4, <1>6 DEF n

LEMMA SortedIdxsAre ==
    ASSUME NEW items, IsSeq(items), NEW p \in Orders(items)
    PROVE  /\ IsSeq(SortedIdxs(items, p)) /\ Len(SortedIdxs(items, p)) = Len(items)
           /\ \A i \in 1 .. Len(items) : SortedIdxs(items, p)[i] = Num(p[i] - 1)
           /\ \A i \in 1 .. Len(items) : IsItem(SortedIdxs(items, p)[i])
<1> DEFINE n == Len(items)
           u == [i \in 1 .. n |-> Num(p[i] - 1)]
<1>1. DOMAIN items = 1 .. n /\ n \in Nat
  BY SeqType
<1>2. SortedIdxs(items, p) = u
  BY <1>1 DEF SortedIdxs
<1>3. p \in [1 .. n -> 1 .. n]
  BY OrderIs DEF Surjection
<1>4. ASSUME NEW i \in 1 .. n PROVE u[i] = Num(p[i] - 1) /\ IsItem(u[i])
  <2>1. p[i] - 1 \in Int
    BY <1>1, <1>3
  <2>2. IsItem(Num(p[i] - 1))
    BY <2>1, NumIsItem
  <2> QED BY <2>2
<1>5. DOMAIN u = 1 .. n /\ u = [i \in 1 .. n |-> u[i]]
  OBVIOUS
<1> HIDE DEF u, n
<1>6. IsSeq(u) /\ Len(u) = n
  BY <1>1, <1>5, MappedSeq
<1> QED BY <1>2, <1>4, <1>6 DEF n

(* An order has each item as often as the list has it. *)
Places(s, item) == { i \in DOMAIN s : s[i] = item }

LEMMA SameOccurrences ==
    ASSUME NEW items, IsSeq(items), NEW p \in Orders(items), NEW after,
           DOMAIN after = 1 .. Len(items),
           \A i \in 1 .. Len(items) : after[i] = items[p[i]],
           NEW item
    PROVE  Cardinality(Places(items, item)) = Cardinality(Places(after, item))
<1> DEFINE n == Len(items)
           D == 1 .. n
           A == { i \in D : after[i] = item }
           B == { i \in D : items[i] = item }
           f == [i \in A |-> p[i]]
<1>1. DOMAIN items = D /\ n \in Nat /\ DOMAIN after = D
  BY SeqType
<1>2. IsFiniteSet(D)
  BY <1>1, FS_Interval
<1>3. p \in Surjection(D, D)
  BY OrderIs
<1>4. \A i \in D : after[i] = items[p[i]]
  OBVIOUS
<1> HIDE DEF D
<1>5. p \in Injection(D, D)
  BY <1>2, <1>3, FS_SurjSameCardinalityImpliesInj
<1>6. f \in Bijection(A, B)
  <2>1. p \in [D -> D] /\ (\A i, j \in D : p[i] = p[j] => i = j)
    BY <1>5 DEF Injection, IsInjective
  <2>2. \A j \in D : \E i \in D : p[i] = j
    BY <1>3 DEF Surjection
  <2>3. f \in [A -> B]
    BY <1>4, <2>1
  <2>4. f \in Injection(A, B)
    BY <2>1, <2>3 DEF Injection, IsInjective
  <2>5. \A j \in B : \E i \in A : f[i] = j
    BY <1>4, <2>2
  <2> QED BY <2>3, <2>4, <2>5 DEF Bijection, Surjection
<1>7. IsFiniteSet(A)
  BY <1>2, FS_Subset
<1> HIDE DEF A, B, f
<1>8. Cardinality(B) = Cardinality(A)
  BY <1>6, <1>7, FS_Bijection DEF ExistsBijection
<1>9. Places(items, item) = B /\ Places(after, item) = A
  BY <1>1 DEF A, B, Places
<1> QED BY <1>8, <1>9

-----------------------------------------------------------------------------
(* The inductive invariant: elements on the stack, and the arguments on    *)
(* top of it when a native is called.                                      *)
Errors == {NoError, CountError, TypeError}

Inv ==
    /\ AllElems(vm_s)
    /\ errno_s \in Errors /\ errno \in Errors
    /\ called = "push" => vm_s # <<>> /\ Last(vm_s) \in Arguments

(* What a native does to the stack, if it takes and leaves so many.        *)
Replaced(taken, left) ==
    Len(Last(vm_s).elems) >= taken =>
        /\ IsPrefix(Front(vm_s), vm_s')
        /\ errno_s' = NoError /\ errno' = NoError =>
              Len(vm_s') = Len(vm_s) - 1 + Len(Last(vm_s).elems) - taken + left

Errs == errno_s' \in Errors /\ errno' \in Errors

LEMMA ErrorsDiffer == NoError # CountError /\ NoError # TypeError
BY DEF NoError, CountError, TypeError

(* A native that is called finds a bundle on the stack: the checks made    *)
(* before its arguments are taken apart do not fail.                       *)
LEMMA ArgumentsFound ==
    ASSUME Inv, called = "push"
    PROVE  /\ \A vals \in BOOLEAN : SortImpl(vals) => SortArguments(vals)
           /\ Route => RouteArguments
<1>1. vm_s # <<>> /\ IsBndl(Last(vm_s))
  BY DataAssumption DEF Inv
<1>2. ASSUME NEW vals \in BOOLEAN, SortImpl(vals) PROVE SortArguments(vals)
  BY <1>1, <1>2 DEF SortImpl
<1>3. ASSUME Route PROVE RouteArguments
  BY <1>1, <1>3 DEF Route
<1> QED BY <1>2, <1>3

LEMMA SortImplWorks ==
    ASSUME Inv, called = "push", NEW vals \in BOOLEAN, SortImpl(vals)
    PROVE  AllElems(vm_s') /\ Errs /\ Replaced(1, 1)
<1> SortArguments(vals)
  BY ArgumentsFound
<1> DEFINE s == UnpackDrop(vm_s)
           list == Last(s)
           n == Len(Last(vm_s).elems)
<1>1. AllElems(vm_s) /\ vm_s # <<>> /\ Last(vm_s) \in Arguments
  BY DEF Inv
<1>2. TakenApart(s, vm_s)
  BY <1>1, ArgumentsTakenApart
<1>3. s # <<>>
  BY DEF SortArguments, FailVM
<1>4. errno_s' = errno_s /\ errno_s \in Errors /\ errno \in Errors
  BY DEF SortArguments, FailVM, Inv
<1>5. CASE IsBndl(list)
  <2>1. vm_s' = s /\ errno' = TypeError
    BY <1>5 DEF SortArguments, FailVM
  <2> HIDE DEF s
  <2>2. AllElems(s) /\ IsPrefix(Front(vm_s), s)
    BY <1>1, <1>2, ApartLength
  <2>3. Errs /\ errno' # NoError
    BY <1>4, <2>1, ErrorsDiffer DEF Errs, Errors
  <2> QED BY <2>1, <2>2, <2>3 DEF Replaced
<1>6. CASE ~IsBndl(list)
  <2> DEFINE Sorted(p) == IF vals THEN SortedVals(list.items, p) ELSE SortedIdxs(list.items, p)
  <2>1. PICK p \in Orders(list.items) : vm_s' = ReplaceList(s, Msg(list.addr, Sorted(p)))
    BY <1>6 DEF SortArguments, FailVM
  <2>2. errno' = errno
    BY <1>6 DEF SortArguments, FailVM
  <2> DEFINE e == Msg(list.addr, Sorted(p))
  <2>3. AllElems(s) /\ Len(s) \in Nat /\ IsSeq(s)
    BY <1>1, <1>2, ApartLength DEF AllElems
  <2>4. 1 <= Len(s)
    BY <1>3, <2>3, NotEmpty
  <2>5. IsElem(list)
    <3> HIDE DEF s
    <3>1. 0 < Len(s)
      BY <2>3, <2>4
    <3> QED BY <2>3, <3>1, TopElem
  <2>6. IsSeq(list.items) /\ \A i \in 1 .. Len(list.items) : IsItem(list.items[i])
    BY <1>6, <2>5, MsgHas
  <2> HIDE DEF s, list
  <2>7. IsSeq(Sorted(p)) /\ \A i \in 1 .. Len(Sorted(p)) : IsItem(Sorted(p)[i])
    BY <2>6, SortedAre, SortedIdxsAre
  <2> HIDE DEF Sorted
  <2>8. IsElem(e)
    BY <2>7, MsgIsElem
  <2> HIDE DEF e
  <2>9. vm_s' = Append(DropTop(s, 1), e)
    BY <2>1 DEF ReplaceList, Front, DropTop, e
  <2>10. /\ AllElems(vm_s') /\ Len(vm_s') = Len(s) - 1 + 1
         /\ n >= 1 => Below(vm_s', vm_s)
    BY <1>1, <1>2, <2>3, <2>4, <2>8, <2>9, ResultReplaces
  <2>11. /\ Len(s) = Len(vm_s) - 1 + n
         /\ n \in Nat /\ Len(vm_s) \in Nat
    BY <1>1, <1>2, ApartLength
  <2> HIDE DEF n
  <2>12. n >= 1 => IsPrefix(Front(vm_s), vm_s') /\ Len(vm_s') = Len(vm_s) - 1 + n - 1 + 1
    BY <2>10, <2>11 DEF Below
  <2>13. Replaced(1, 1)
    BY <2>12 DEF Replaced, n
  <2> QED BY <1>4, <2>2, <2>10, <2>13 DEF Errs
<1> QED BY <1>5, <1>6

LEMMA RouteWorks ==
    ASSUME Inv, Route
    PROVE  AllElems(vm_s') /\ Errs /\ Replaced(2, 1)
<1> DEFINE s == UnpackDrop(vm_s)
           routed == FromTop(s, 1)
           list == Last(s)
           n == Len(Last(vm_s).elems)
<1>1. /\ AllElems(vm_s) /\ vm_s # <<>> /\ Last(vm_s) \in Arguments
      /\ errno_s \in Errors /\ errno \in Errors /\ called = "push"
  BY DEF Inv, Route, Runs
<1>2. TakenApart(s, vm_s)
  BY <1>1, ArgumentsTakenApart
<1>3. /\ AllElems(s) /\ IsPrefix(Front(vm_s), s) /\ Len(s) \in Nat
      /\ Len(s) = Len(vm_s) - 1 + n /\ n \in Nat /\ Len(vm_s) \in Nat
  BY <1>1, <1>2, ApartLength
<1> DEFINE Fails == Fail(s, CountError) \/ Fail(s, TypeError)
           Succeeds2 == /\ Len(s) >= 2 /\ ~IsBndl(list) /\ (IsBndl(routed) \/ Holds(routed))
                        /\ vm_s' = Append(DropTop(s, 2), Delegated(Routed(routed)))
                        /\ UNCHANGED <<errno_s, errno>>
<1>4. Fails \/ Succeeds2
  <2>1. RouteArguments
    BY <1>1, ArgumentsFound
  <2> QED BY <1>3, <2>1 DEF RouteArguments
<1>5. CASE Fails
  <2>1. vm_s' = s /\ errno_s' \in {CountError, TypeError} /\ errno' = errno
    BY <1>5 DEF Fail
  <2> HIDE DEF s, Fails
  <2>2. Errs /\ errno_s' # NoError
    BY <1>1, <2>1, ErrorsDiffer DEF Errs, Errors
  <2> QED BY <1>3, <2>1, <2>2 DEF Replaced
<1>6. CASE Succeeds2
  <2>1. 2 <= Len(s)
    BY <1>3, <1>6
  <2>2. IsElem(list) /\ IsElem(routed)
    <3> HIDE DEF s
    <3>1. 1 < Len(s)
      BY <1>3, <2>1
    <3> QED BY <1>3, <3>1, TopElem
  <2> HIDE DEF s, list, routed
  <2>3. IsElem(Routed(routed))
    <3>1. CASE Holds(routed)
      <4> DEFINE items == routed.items
      <4>1. IsSeq(items) /\ \A i \in 1 .. Len(items) : IsItem(items[i])
        BY <2>2, <3>1, MsgHas DEF Holds
      <4>2. items # <<>> /\ Last(items).tt \in {"B", "b"}
        BY <3>1 DEF Holds, ArgType
      <4>3. Len(items) \in Nat /\ Len(items) >= 1 /\ Last(items) = items[Len(items)]
        BY <4>1, <4>2, NotEmpty
      <4>4. IsItem(Last(items))
        BY <4>1, <4>3
      <4>5. Last(items).elems \in Contents
        BY <4>2, <4>4 DEF IsItem
      <4>6. Routed(routed) = Bndl(Last(items).elems)
        BY <3>1 DEF Routed, BlobToElem
      <4> QED BY <4>5, <4>6, BndlIsElem
    <3>2. CASE ~Holds(routed)
      BY <2>2, <3>2 DEF Routed
    <3> QED BY <3>1, <3>2
  <2> DEFINE e == Delegated(Routed(routed))
  <2>4. IsElem(e) /\ vm_s' = Append(DropTop(s, 2), e)
    BY <1>6, <2>3 DEF Delegated
  <2> HIDE DEF e
  <2>5. /\ AllElems(vm_s') /\ Len(vm_s') = Len(s) - 2 + 1
        /\ n >= 2 => Below(vm_s', vm_s)
    BY <1>1, <1>2, <2>1, <2>4, ResultReplaces
  <2> HIDE DEF n
  <2>6. n >= 2 => IsPrefix(Front(vm_s), vm_s') /\ Len(vm_s') = Len(vm_s) - 1 + n - 2 + 1
    BY <1>3, <2>5 DEF Below
  <2>7. Replaced(2, 1)
    BY <2>6 DEF Replaced, n
  <2>8. Errs
    BY <1>1, <1>6 DEF Errs
  <2> QED BY <2>5, <2>7, <2>8
<1> QED BY <1>4, <1>5, <1>6

(* An error of the builtin leaves its arguments; that one, or one that was *)
(* there before, becomes the machine's.                                    *)
LEMMA WrappedWorks ==
    ASSUME Inv, called = "push", NEW s, TakenApart(s, vm_s), NEW failed \in BOOLEAN, NEW result,
           Wrapped(s, failed, result),
           ~failed => /\ AllElems(result) /\ Len(result) = Len(s) - 2 + 1
                      /\ Len(Last(vm_s).elems) >= 2 => Below(result, vm_s)
    PROVE  /\ AllElems(vm_s') /\ Errs /\ Replaced(2, 1)
           /\ errno_s' = NoError
           /\ (errno # NoError \/ errno_s # NoError => errno' # NoError)
<1> DEFINE n == Len(Last(vm_s).elems)
           error == IF failed THEN CountError ELSE errno_s
<1>1. AllElems(vm_s) /\ errno_s \in Errors /\ errno \in Errors
  BY DEF Inv
<1>2. /\ AllElems(s) /\ IsPrefix(Front(vm_s), s) /\ Len(s) \in Nat
      /\ Len(s) = Len(vm_s) - 1 + n /\ n \in Nat /\ Len(vm_s) \in Nat
  BY <1>1, ApartLength
<1>3. /\ vm_s' = (IF failed THEN s ELSE result)
      /\ errno' = (IF error = NoError THEN errno ELSE error)
      /\ errno_s' = NoError
  BY DEF Wrapped
<1>4. error \in Errors
  BY <1>1 DEF Errors
<1>5. Errs /\ (errno # NoError \/ errno_s # NoError => errno' # NoError)
  BY <1>1, <1>3, <1>4, ErrorsDiffer DEF Errs, Errors
<1>6. CASE failed
  <2>1. vm_s' = s /\ errno' # NoError
    BY <1>3, <1>6, ErrorsDiffer
  <2> QED BY <1>2, <1>3, <1>5, <2>1 DEF Replaced
<1>7. CASE ~failed
  <2>1. /\ vm_s' = result /\ AllElems(vm_s') /\ Len(vm_s') = Len(s) - 2 + 1
        /\ n >= 2 => Below(vm_s', vm_s)
    BY <1>3, <1>7
  <2> HIDE DEF n
  <2>2. n >= 2 => IsPrefix(Front(vm_s), vm_s') /\ Len(vm_s') = Len(vm_s) - 1 + n - 2 + 1
    BY <1>2, <2>1 DEF Below
  <2>3. Replaced(2, 1)
    BY <2>2 DEF Replaced, n
  <2> QED BY <1>3, <1>5, <2>1, <2>3
<1> QED BY <1>6, <1>7

WrappedErrors ==
    /\ errno_s' = NoError
    /\ (errno # NoError \/ errno_s # NoError => errno' # NoError)

LEMMA BinopWorks ==
    ASSUME Inv, Binop
    PROVE  AllElems(vm_s') /\ Errs /\ Replaced(2, 1) /\ WrappedErrors
<1> DEFINE s == PopAllDrop(vm_s)
           equal == IF Last(s) = FromTop(s, 1) THEN 1 ELSE 0
           e == Msg("", <<Num(equal)>>)
           result == Append(DropTop(s, 2), e)
           failed == Len(s) < 2
<1>1. AllElems(vm_s) /\ vm_s # <<>> /\ Last(vm_s) \in Arguments /\ called = "push"
  BY DEF Inv, Binop, Runs
<1>2. TakenApart(s, vm_s)
  BY <1>1, ArgumentsTakenApart
<1>3. Wrapped(s, failed, result)
  BY DEF Binop
<1>4. IsElem(e)
  <2>1. IsItem(Num(equal))
    BY NumIsItem
  <2> QED BY <2>1, OneItem
<1>5. Len(s) \in Nat
  BY <1>1, <1>2, ApartLength
<1>6. ~failed => /\ AllElems(result) /\ Len(result) = Len(s) - 2 + 1
                 /\ Len(Last(vm_s).elems) >= 2 => Below(result, vm_s)
  <2> HIDE DEF s, e
  <2>1. SUFFICES ASSUME ~failed
                 PROVE  /\ AllElems(result) /\ Len(result) = Len(s) - 2 + 1
                        /\ Len(Last(vm_s).elems) >= 2 => Below(result, vm_s)
    OBVIOUS
  <2>2. 2 <= Len(s)
    BY <1>5, <2>1
  <2> QED BY <1>1, <1>2, <1>4, <2>2, ResultReplaces
<1>7. failed \in BOOLEAN
  OBVIOUS
<1> HIDE DEF s, result, failed
<1> QED BY <1>1, <1>2, <1>3, <1>6, <1>7, WrappedWorks DEF WrappedErrors

LEMMA NthWorks ==
    ASSUME Inv, Nth
    PROVE  AllElems(vm_s') /\ Errs /\ Replaced(2, 1) /\ WrappedErrors
<1> DEFINE s == UnpackDrop(vm_s)
           place == Last(s).items[1].val + 1
           list == Parts(FromTop(s, 1))
           result == Append(DropTop(s, 2), list[place])
           failed == Len(s) < 2 \/ place \notin DOMAIN list
<1>1. AllElems(vm_s) /\ vm_s # <<>> /\ Last(vm_s) \in Arguments /\ called = "push"
  BY DEF Inv, Nth, Runs
<1>2. TakenApart(s, vm_s)
  BY <1>1, ArgumentsTakenApart
<1>3. Wrapped(s, failed, result)
  BY DEF Nth
<1>4. Len(s) \in Nat /\ AllElems(s)
  BY <1>1, <1>2, ApartLength
<1>5. ~failed => /\ AllElems(result) /\ Len(result) = Len(s) - 2 + 1
                 /\ Len(Last(vm_s).elems) >= 2 => Below(result, vm_s)
  <2> HIDE DEF s, place
  <2>1. SUFFICES ASSUME ~failed
                 PROVE  /\ AllElems(result) /\ Len(result) = Len(s) - 2 + 1
                        /\ Len(Last(vm_s).elems) >= 2 => Below(result, vm_s)
    OBVIOUS
  <2>2. 2 <= Len(s) /\ 1 < Len(s) /\ place \in DOMAIN list
    BY <1>4, <2>1
  <2>3. IsElem(FromTop(s, 1))
    BY <1>4, <2>2, TopElem
  <2>4. AllElems(list)
    BY <2>3, PartsElems
  <2> HIDE DEF list
  <2>5. DOMAIN list = 1 .. Len(list)
    BY <2>4, SeqType DEF AllElems
  <2>6. IsElem(list[place])
    BY <2>2, <2>4, <2>5 DEF AllElems
  <2> QED BY <1>1, <1>2, <2>2, <2>6, ResultReplaces
<1>6. failed \in BOOLEAN
  OBVIOUS
<1> HIDE DEF s, result, failed
<1> QED BY <1>1, <1>2, <1>3, <1>5, <1>6, WrappedWorks DEF WrappedErrors

-----------------------------------------------------------------------------
LEMMA InitSafe == ASSUME Init PROVE Inv
<1>1. AllElems(vm_s)
  <2>1. CASE vm_s = <<>>
    BY <2>1, EmptyIsSeq DEF AllElems
  <2>2. CASE \E v \in Values : vm_s = <<v>>
    <3>1. PICK v \in Values : vm_s = <<v>>
      BY <2>2
    <3>2. IsElem(v)
      BY DataAssumption
    <3>3. IsSeq(vm_s) /\ Len(vm_s) = 1 /\ vm_s[1] = v
      BY <3>1, OneIsSeq
    <3> QED BY <3>2, <3>3 DEF AllElems
  <2> QED BY <2>1, <2>2 DEF Init
<1> QED BY <1>1 DEF Init, Inv, Errors

LEMMA PushWorks ==
    ASSUME Inv, Push
    PROVE  AllElems(vm_s') /\ Errs /\ vm_s' # <<>> /\ Last(vm_s') \in Arguments
<1>1. PICK args \in Arguments : vm_s' = Append(vm_s, args)
  BY DEF Push
<1>2. IsElem(args) /\ AllElems(vm_s)
  BY DataAssumption DEF Inv
<1>3. AllElems(vm_s') /\ vm_s' # <<>> /\ Last(vm_s') = args
  BY <1>1, <1>2, AppendElems
<1> QED BY <1>3 DEF Inv, Push, Errs

LEMMA NextSafe == ASSUME Inv, [Next]_vars PROVE Inv'
<1> USE DEF Runs
<1>1. CASE Push
  BY <1>1, PushWorks DEF Inv, Errs, Push
<1>2. CASE Sort
  BY <1>2, SortImplWorks DEF Inv, Errs, Sort
<1>3. CASE SortIdxs
  BY <1>3, SortImplWorks DEF Inv, Errs, SortIdxs
<1>4. CASE Route
  BY <1>4, RouteWorks DEF Inv, Errs, Route
<1>5. CASE Binop
  BY <1>5, BinopWorks DEF Inv, Errs, Binop
<1>6. CASE Nth
  BY <1>6, NthWorks DEF Inv, Errs, Nth
<1>7. CASE UNCHANGED vars
  <2>1. vm_s' = vm_s /\ errno_s' = errno_s /\ errno' = errno /\ called' = called
    BY <1>7 DEF vars
  <2> QED BY <2>1 DEF Inv, AllElems
<1> QED BY <1>1, <1>2, <1>3, <1>4, <1>5, <1>6, <1>7 DEF Next

LEMMA Invariance == Spec => []Inv
<1>1. Init => Inv
  BY InitSafe
<1>2. Inv /\ [Next]_vars => Inv'
  BY NextSafe
<1> QED BY <1>1, <1>2, PTL DEF Spec

(* Whatever natives are called in a row, with whatever arguments, the      *)
(* stack holds elements libose can read, and errors are those they set.    *)
THEOREM TypeCorrect == Spec => []TypeOK
<1>1. Inv => TypeOK
  <2>1. ASSUME Inv PROVE TypeOK
    <3>1. DOMAIN vm_s = 1 .. Len(vm_s) /\ \A i \in 1 .. Len(vm_s) : IsElem(vm_s[i])
      BY <2>1, SeqType DEF Inv, AllElems
    <3> QED BY <2>1, <3>1 DEF Inv, Errors, TypeOK
  <2> QED BY <2>1
<1> QED BY <1>1, Invariance, PTL

-----------------------------------------------------------------------------
(* The arities of the natives, as they are used.                           *)
LEMMA Arities ==
    /\ Arity["sort"] = 1 /\ Arity["sortidxs"] = 1 /\ Arity["route"] = 2
    /\ Arity["eql"] = 2 /\ Arity["nth"] = 2
    /\ Results["sort"] = 1 /\ Results["sortidxs"] = 1 /\ Results["route"] = 1
    /\ Results["eql"] = 1 /\ Results["nth"] = 1
BY DEF Arity, Results

(* With as many arguments as it needs a native leaves what is below them,  *)
(* and unless it sets an error its results are in their place.             *)
THEOREM ArgumentsReplaced == Spec => ReplacesArguments
<1> DEFINE Step ==
        called = "push" /\ Len(Last(vm_s).elems) >= Arity[called'] =>
          /\ IsPrefix(Front(vm_s), vm_s')
          /\ <<errno_s', errno'>> = <<NoError, NoError>> =>
                Len(vm_s') = Len(vm_s) - 1 + Len(Last(vm_s).elems)
                                - Arity[called'] + Results[called']
<1>1. ASSUME Inv, Next PROVE Step
  <2> USE DEF Runs
  <2>1. SUFFICES ASSUME called = "push" PROVE Replaced(Arity[called'], Results[called'])
    BY DEF Replaced
  <2>2. CASE Sort
    BY <1>1, <2>2, SortImplWorks, Arities DEF Sort
  <2>3. CASE SortIdxs
    BY <1>1, <2>3, SortImplWorks, Arities DEF SortIdxs
  <2>4. CASE Route
    BY <1>1, <2>4, RouteWorks, Arities DEF Route
  <2>5. CASE Binop
    BY <1>1, <2>5, BinopWorks, Arities DEF Binop
  <2>6. CASE Nth
    BY <1>1, <2>6, NthWorks, Arities DEF Nth
  <2> QED BY <1>1, <2>1, <2>2, <2>3, <2>4, <2>5, <2>6 DEF Next, Push
<1>2. Inv /\ [Next]_vars => [Step]_vars
  BY <1>1
<1> QED BY <1>2, Invariance, PTL DEF Spec, ReplacesArguments

(* No error is lost: it stays where it is, or moves to the machine.        *)
THEOREM ErrorsKept == Spec => ErrorsMove
<1> DEFINE Step ==
        /\ errno # NoError => errno' # NoError
        /\ errno_s # NoError => {errno_s', errno'} # {NoError}
        /\ called' \in {"eql", "nth"} => errno_s' = NoError
<1>1. ASSUME Inv, Next PROVE Step
  <2> USE DEF Runs
  <2>1. CASE Push
    BY <2>1 DEF Push
  <2>2. CASE Sort \/ SortIdxs
    BY <2>2, ErrorsDiffer DEF Sort, SortIdxs, SortImpl, SortArguments, FailVM
  <2>3. CASE Route
    BY <2>3, ErrorsDiffer DEF Route, RouteArguments, Fail
  <2>4. CASE Binop \/ Nth
    BY <1>1, <2>4, BinopWorks, NthWorks DEF WrappedErrors
  <2> QED BY <1>1, <2>1, <2>2, <2>3, <2>4 DEF Next
<1>2. Inv /\ [Next]_vars => [Step]_vars
  BY <1>1
<1> QED BY <1>2, Invariance, PTL DEF Spec, ErrorsMove

(* A sort that succeeds puts a message in the place of the list, which it  *)
(* has found on top of its arguments.                                      *)
LEMMA SortFinds ==
    ASSUME Inv, called = "push", NEW vals \in BOOLEAN, SortImpl(vals), ~IsBndl(ListOf(vm_s))
    PROVE  LET list == ListOf(vm_s)
           IN  /\ IsSeq(list.items) /\ \A i \in 1 .. Len(list.items) : IsItem(list.items[i])
               /\ \E p \in Orders(list.items) :
                     Last(vm_s') = Msg(list.addr, IF vals THEN SortedVals(list.items, p)
                                                  ELSE SortedIdxs(list.items, p))
<1> DEFINE s == UnpackDrop(vm_s)
           list == Last(s)
           Sorted(p) == IF vals THEN SortedVals(list.items, p) ELSE SortedIdxs(list.items, p)
<1> SortArguments(vals)
  BY ArgumentsFound
<1>1. AllElems(vm_s) /\ vm_s # <<>> /\ Last(vm_s) \in Arguments
  BY DEF Inv
<1>2. TakenApart(s, vm_s)
  BY <1>1, ArgumentsTakenApart
<1>3. AllElems(s) /\ Len(s) \in Nat /\ IsSeq(s) /\ s # <<>>
  BY <1>1, <1>2, ApartLength DEF AllElems, SortArguments
<1>4. PICK p \in Orders(list.items) : vm_s' = ReplaceList(s, Msg(list.addr, Sorted(p)))
  BY DEF SortArguments, ListOf
<1>5. IsElem(list) /\ ~IsBndl(list) /\ list = ListOf(vm_s)
  <2>1. ~IsBndl(list) /\ list = ListOf(vm_s)
    BY DEF ListOf
  <2> HIDE DEF s
  <2>2. 0 < Len(s)
    BY <1>3, NotEmpty
  <2> QED BY <1>3, <2>1, <2>2, TopElem
<1>6. AllElems(Front(s))
  BY <1>3, FrontElems
<1> HIDE DEF s, list
<1>7. IsSeq(list.items) /\ \A i \in 1 .. Len(list.items) : IsItem(list.items[i])
  BY <1>5, MsgHas
<1>8. IsElem(Msg(list.addr, Sorted(p)))
  <2>1. IsSeq(Sorted(p)) /\ \A i \in 1 .. Len(Sorted(p)) : IsItem(Sorted(p)[i])
    BY <1>7, SortedAre, SortedIdxsAre
  <2> QED BY <2>1, MsgIsElem
<1>9. Last(vm_s') = Msg(list.addr, Sorted(p))
  <2> HIDE DEF Sorted
  <2> QED BY <1>4, <1>6, <1>8, AppendElems DEF ReplaceList
<1> QED BY <1>5, <1>7, <1>9

(* The indexes are each place of the list once, in the order of a sort.    *)
THEOREM IndexesAreOrder == Spec => IndexesSort
<1> DEFINE Step ==
        Succeeds("sortidxs") =>
          LET items == ListOf(vm_s).items
              indexes == [i \in DOMAIN Last(vm_s').items |-> Last(vm_s').items[i].val]
          IN /\ Range(indexes) = 0 .. Len(items) - 1
             /\ Len(indexes) = Len(items)
             /\ Ordered([i \in DOMAIN indexes |-> items[indexes[i] + 1]])
<1>1. ASSUME Inv, Next, Succeeds("sortidxs") PROVE Step
  <2> DEFINE list == ListOf(vm_s)
             items == list.items
             n == Len(items)
             top == Last(vm_s')
             indexes == [i \in DOMAIN top.items |-> top.items[i].val]
  <2>1. called = "push" /\ called' = "sortidxs" /\ ~IsBndl(list)
    BY <1>1 DEF Succeeds
  <2>2. SortImpl(FALSE)
    BY <1>1, <2>1 DEF Next, Push, Sort, SortIdxs, Route, Binop, Nth, Runs
  <2>3. IsSeq(items) /\ \E p \in Orders(items) : top = Msg(list.addr, SortedIdxs(items, p))
    BY <1>1, <2>1, <2>2, SortFinds
  <2>4. PICK p \in Orders(items) : top = Msg(list.addr, SortedIdxs(items, p))
    BY <2>3
  <2>5. n \in Nat
    BY <2>3, SeqType
  <2>6. /\ p \in Surjection(1 .. n, 1 .. n)
        /\ Ordered([i \in 1 .. n |-> items[p[i]]])
    BY <2>3, OrderIs
  <2>7. top.items = SortedIdxs(items, p)
    BY <2>4 DEF Msg
  <2>8. DOMAIN top.items = 1 .. n /\ \A i \in 1 .. n : top.items[i] = Num(p[i] - 1)
    <3>1. IsSeq(SortedIdxs(items, p)) /\ Len(SortedIdxs(items, p)) = n
      BY <2>3, SortedIdxsAre
    <3>2. \A i \in 1 .. n : SortedIdxs(items, p)[i] = Num(p[i] - 1)
      BY <2>3, SortedIdxsAre
    <3> HIDE DEF items, n, top
    <3> QED BY <2>7, <3>1, <3>2, SeqType
  <2> HIDE DEF items, list, top
  <2>9. DOMAIN indexes = 1 .. n /\ \A i \in 1 .. n : indexes[i] = p[i] - 1
    <3> DEFINE found == top.items
    <3>1. indexes = [i \in DOMAIN found |-> found[i].val]
      OBVIOUS
    <3>2. DOMAIN found = 1 .. n /\ \A i \in 1 .. n : found[i] = Num(p[i] - 1)
      BY <2>8
    <3> HIDE DEF found, n
    <3>3. DOMAIN [i \in DOMAIN found |-> found[i].val] = 1 .. n
      BY <3>2
    <3>4. ASSUME NEW i \in 1 .. n
          PROVE  [j \in DOMAIN found |-> found[j].val][i] = p[i] - 1
      <4>1. Num(p[i] - 1).val = p[i] - 1
        BY DEF Num
      <4> QED BY <3>2, <4>1
    <3> HIDE DEF indexes
    <3> QED BY <3>1, <3>3, <3>4
  <2>10. indexes = [i \in 1 .. n |-> indexes[i]]
    BY <2>9
  <2> HIDE DEF indexes, n
  <2>11. Len(indexes) = n
    BY <2>5, <2>9, <2>10, MappedSeq
  <2>12. p \in [1 .. n -> 1 .. n] /\ \A j \in 1 .. n : \E i \in 1 .. n : p[i] = j
    BY <2>6 DEF Surjection
  <2>13. ASSUME NEW i \in 1 .. n
         PROVE  indexes[i] \in 0 .. n - 1 /\ indexes[i] + 1 = p[i]
    <3>1. p[i] \in 1 .. n
      BY <2>12
    <3>2. indexes[i] = p[i] - 1
      BY <2>9
    <3> QED BY <2>5, <3>1, <3>2
  <2>14. ASSUME NEW k \in 0 .. n - 1 PROVE \E i \in 1 .. n : indexes[i] = k
    <3>1. k + 1 \in 1 .. n
      BY <2>5
    <3>2. PICK i \in 1 .. n : p[i] = k + 1
      BY <2>12, <3>1
    <3>3. indexes[i] = k
      BY <2>9, <3>2
    <3> QED BY <3>3
  <2>15. Range(indexes) = 0 .. n - 1
    BY <2>9, <2>13, <2>14 DEF Range
  <2>16. [i \in DOMAIN indexes |-> items[indexes[i] + 1]] = [i \in 1 .. n |-> items[p[i]]]
    BY <2>9, <2>13
  <2>17. Ordered([i \in DOMAIN indexes |-> items[indexes[i] + 1]])
    BY <2>6, <2>16
  <2> QED BY <2>11, <2>15, <2>17 DEF indexes, n, items, list, top
<1>2. Inv /\ [Next]_vars => [Step]_vars
  BY <1>1
<1> QED BY <1>2, Invariance, PTL DEF Spec, IndexesSort

(* A sort keeps every item and the name of the list, and orders as far as  *)
(* integer parts tell.                                                     *)
THEOREM SortedByIntegerPart == Spec => SortsByIntegerPart
<1> DEFINE InOrder(a, b) ==
        /\ IsText(a) => IsText(b) /\ a.val <= b.val
        /\ {a.tt, b.tt} \subseteq {"i", "f"} =>
              Tenths(a) - Tenths(b) < IF Tenths(a) > 0 /\ Tenths(b) < 0 THEN 20 ELSE 10
           SameNumber(item, s, t) ==
        Cardinality({ i \in DOMAIN s : s[i] = item }) = Cardinality({ i \in DOMAIN t : t[i] = item })
           Step ==
        Succeeds("sort") =>
          LET before == ListOf(vm_s)
              after == Last(vm_s')
          IN /\ after.addr = before.addr
             /\ \A item \in Range(before.items) \union Range(after.items) :
                   SameNumber(item, before.items, after.items)
             /\ \A i, j \in DOMAIN after.items :
                   i < j => InOrder(after.items[i], after.items[j])
<1>1. ASSUME Inv, Next, Succeeds("sort") PROVE Step
  <2> DEFINE list == ListOf(vm_s)
             items == list.items
             n == Len(items)
             top == Last(vm_s')
             sorted == top.items
  <2>1. called = "push" /\ called' = "sort" /\ ~IsBndl(list)
    BY <1>1 DEF Succeeds
  <2>2. SortImpl(TRUE)
    BY <1>1, <2>1 DEF Next, Push, Sort, SortIdxs, Route, Binop, Nth, Runs
  <2>3. /\ IsSeq(items) /\ \A i \in 1 .. n : IsItem(items[i])
        /\ \E p \in Orders(items) : top = Msg(list.addr, SortedVals(items, p))
    BY <1>1, <2>1, <2>2, SortFinds
  <2>4. PICK p \in Orders(items) : top = Msg(list.addr, SortedVals(items, p))
    BY <2>3
  <2>5. top.addr = list.addr /\ sorted = SortedVals(items, p)
    BY <2>4 DEF Msg
  <2>6. /\ DOMAIN sorted = 1 .. n
        /\ \A i \in 1 .. n : sorted[i] = items[p[i]]
        /\ \A i \in 1 .. n : IsItem(sorted[i])
    <3> DEFINE u == SortedVals(items, p)
    <3>1. IsSeq(u) /\ Len(u) = n
      BY <2>3, SortedAre
    <3>2. \A i \in 1 .. n : u[i] = items[p[i]]
      BY <2>3, SortedAre
    <3>3. \A i \in 1 .. n : IsItem(u[i])
      BY <2>3, SortedAre
    <3> HIDE DEF items, n, sorted, u
    <3>4. DOMAIN u = 1 .. n
      BY <3>1, SeqType
    <3> QED BY <2>5, <3>2, <3>3, <3>4 DEF u
  <2>7. Ordered([i \in 1 .. n |-> items[p[i]]])
    BY <2>3, OrderIs
  <2> HIDE DEF items, list, top, sorted, n
  <2>8. ASSUME NEW item PROVE SameNumber(item, items, sorted)
    <3>1. DOMAIN sorted = 1 .. Len(items) /\ \A i \in 1 .. Len(items) : sorted[i] = items[p[i]]
      BY <2>6 DEF n
    <3>2. IsSeq(items)
      BY <2>3
    <3>3. Cardinality(Places(items, item)) = Cardinality(Places(sorted, item))
      BY <3>1, <3>2, SameOccurrences
    <3> QED BY <3>3 DEF Places
  <2>9. ASSUME NEW i \in 1 .. n, NEW j \in 1 .. n, i < j PROVE InOrder(sorted[i], sorted[j])
    <3>1. Compare(sorted[i], sorted[j]) <= 0
      BY <2>6, <2>7, <2>9 DEF Ordered
    <3>2. Sortable(sorted[i]) /\ Sortable(sorted[j])
      BY <2>6 DEF IsItem
    <3> QED BY <3>1, <3>2, OrderByIntegerPart
  <2> HIDE DEF SameNumber, InOrder
  <2> QED BY <2>5, <2>6, <2>8, <2>9 DEF items, list, top, sorted
<1>2. Inv /\ [Next]_vars => [Step]_vars
  BY <1>1
<1> QED BY <1>2, Invariance, PTL DEF Spec, SortsByIntegerPart
=============================================================================
