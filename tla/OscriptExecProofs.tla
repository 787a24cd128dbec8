--------------------------- MODULE OscriptExecProofs ---------------------------
(***************************************************************************)
(* Theorems about OscriptExec, for all programs, files and environments    *)
(* that a text can give, and however deep they nest: as long as the        *)
(* natives find the operands they read, the machine keeps the environment  *)
(* discipline of ExecFrames, the finalizer of an element finds its         *)
(* address, and no value holds a semaphore.                                *)
(***************************************************************************)
EXTENDS OscriptExec, OseBundleProofs

-----------------------------------------------------------------------------
(* Data.  What the machine makes of data is data again; for the elements   *)
(* of a program this is a matter of Syntax, in general of any set that     *)
(* holds the parts of its elements.                                        *)
Good(e) == \E elems : IsData(elems) /\ e \in elems
GoodItem(x) == \E elems : IsData(elems) /\ IsItem(x, elems)

GoodSeq(s) == IsSeq(s) /\ \A e \in Range(s) : Good(e)
GoodItems(s) == IsSeq(s) /\ \A x \in Range(s) : GoodItem(x)

LEMMA ItemInMore ==
    ASSUME NEW S, NEW T, S \subseteq T, NEW x, IsItem(x, S) PROVE IsItem(x, T)
<1>1. \A s : s \in Seq(S) => s \in Seq(T)
  BY SeqMonotonic
<1> QED BY <1>1 DEF IsItem

LEMMA DataTogether ==
    ASSUME NEW F, \A S \in F : IsData(S) PROVE IsData(UNION F)
<1> SUFFICES ASSUME NEW e \in UNION F
             PROVE  IF IsBndl(e) THEN e = Bndl(e.elems) /\ e.elems \in Seq(UNION F)
                    ELSE /\ e = Msg(e.addr, e.items)
                         /\ e.addr \notin Natives \union SemaphoreNames
                         /\ e.items \in Seq(Range(e.items))
                         /\ \A i \in DOMAIN e.items : IsItem(e.items[i], UNION F)
  BY DEF IsData
<1>1. PICK S \in F : e \in S
  OBVIOUS
<1>2. IF IsBndl(e) THEN e = Bndl(e.elems) /\ e.elems \in Seq(S)
      ELSE /\ e = Msg(e.addr, e.items)
           /\ e.addr \notin Natives \union SemaphoreNames
           /\ e.items \in Seq(Range(e.items))
           /\ \A i \in DOMAIN e.items : IsItem(e.items[i], S)
  BY <1>1 DEF IsData
<1>3. S \subseteq UNION F
  OBVIOUS
<1>4. IsBndl(e) => e.elems \in Seq(UNION F)
  BY <1>2, <1>3, SeqMonotonic
<1>5. ~IsBndl(e) => \A i \in DOMAIN e.items : IsItem(e.items[i], UNION F)
  BY <1>2, <1>3, ItemInMore
<1> QED BY <1>2, <1>4, <1>5

LEMMA GoodSeqData ==
    ASSUME NEW s, GoodSeq(s) PROVE \E S : IsData(S) /\ s \in Seq(S)
<1> DEFINE D(e) == CHOOSE S : IsData(S) /\ e \in S
           F == {D(e) : e \in Range(s)}
<1>1. ASSUME NEW e \in Range(s) PROVE IsData(D(e)) /\ e \in D(e)
  BY DEF GoodSeq, Good
<1> HIDE DEF D
<1>2. IsData(UNION F)
  BY <1>1, DataTogether
<1>3. Range(s) \subseteq UNION F
  BY <1>1
<1>4. s \in Seq(UNION F)
  BY <1>3, SeqMonotonic DEF GoodSeq, IsSeq
<1> QED BY <1>2, <1>4

LEMMA GoodItemsData ==
    ASSUME NEW s, GoodItems(s)
    PROVE  \E S : IsData(S) /\ \A x \in Range(s) : IsItem(x, S)
<1> DEFINE D(x) == CHOOSE S : IsData(S) /\ IsItem(x, S)
           F == {D(x) : x \in Range(s)}
<1>1. ASSUME NEW x \in Range(s) PROVE IsData(D(x)) /\ IsItem(x, D(x))
  BY DEF GoodItems, GoodItem
<1> HIDE DEF D
<1>2. IsData(UNION F)
  BY <1>1, DataTogether
<1>3. ASSUME NEW x \in Range(s) PROVE IsItem(x, UNION F)
  <2>1. D(x) \subseteq UNION F
    OBVIOUS
  <2> QED BY <1>1, <2>1, ItemInMore
<1> QED BY <1>2, <1>3

LEMMA DataGood ==
    ASSUME NEW S, IsData(S), NEW s \in Seq(S) PROVE GoodSeq(s)
<1>1. IsSeq(s)
  BY SeqIsSeq
<1>2. \A x \in Range(s) : x \in S
  BY <1>1, RangeIs, ElementOfSeq
<1> QED BY <1>1, <1>2 DEF GoodSeq, Good

LEMMA BndlKind == ASSUME NEW es PROVE IsBndl(Bndl(es)) /\ Bndl(es).elems = es
BY DEF IsBndl, Bndl

LEMMA MsgKind ==
    ASSUME NEW a, NEW items
    PROVE  ~IsBndl(Msg(a, items)) /\ Msg(a, items).addr = a /\ Msg(a, items).items = items
BY DEF IsBndl, Msg

(* A bundle is good if what it holds is. *)
LEMMA GoodBndl == ASSUME NEW s PROVE Good(Bndl(s)) <=> GoodSeq(s)
<1>1. ASSUME Good(Bndl(s)) PROVE GoodSeq(s)
  <2>1. PICK S : IsData(S) /\ Bndl(s) \in S
    BY <1>1 DEF Good
  <2>2. s \in Seq(S)
    BY <2>1, BndlKind DEF IsData
  <2> QED BY <2>1, <2>2, DataGood
<1>2. ASSUME GoodSeq(s) PROVE Good(Bndl(s))
  <2>1. PICK S : IsData(S) /\ s \in Seq(S)
    BY <1>2, GoodSeqData
  <2> DEFINE T == S \union {Bndl(s)}
  <2>2. s \in Seq(T)
    BY <2>1, SeqMonotonic
  <2>3. ASSUME NEW e \in S
        PROVE  IF IsBndl(e) THEN e = Bndl(e.elems) /\ e.elems \in Seq(T)
               ELSE /\ e = Msg(e.addr, e.items)
                    /\ e.addr \notin Natives \union SemaphoreNames
                    /\ e.items \in Seq(Range(e.items))
                    /\ \A i \in DOMAIN e.items : IsItem(e.items[i], T)
    <3>1. S \subseteq T
      OBVIOUS
    <3> HIDE DEF T
    <3>2. IF IsBndl(e) THEN e = Bndl(e.elems) /\ e.elems \in Seq(S)
          ELSE /\ e = Msg(e.addr, e.items)
               /\ e.addr \notin Natives \union SemaphoreNames
               /\ e.items \in Seq(Range(e.items))
               /\ \A i \in DOMAIN e.items : IsItem(e.items[i], S)
      BY <2>1 DEF IsData
    <3>3. IsBndl(e) => e.elems \in Seq(T)
      BY <3>1, <3>2, SeqMonotonic
    <3>4. ~IsBndl(e) => \A i \in DOMAIN e.items : IsItem(e.items[i], T)
      BY <3>1, <3>2, ItemInMore
    <3> QED BY <3>2, <3>3, <3>4
  <2>4. IsBndl(Bndl(s)) /\ Bndl(s) = Bndl(Bndl(s).elems) /\ Bndl(s).elems \in Seq(T)
    BY <2>2, BndlKind
  <2>5. IsData(T)
    BY <2>3, <2>4 DEF IsData
  <2> QED BY <2>5 DEF Good
<1> QED BY <1>1, <1>2

LEMMA GoodMsg ==
    ASSUME NEW a, NEW items
    PROVE  Good(Msg(a, items)) <=>
              a \notin Natives \union SemaphoreNames /\ GoodItems(items)
<1> DEFINE e == Msg(a, items)
<1>0. ~IsBndl(e) /\ e.addr = a /\ e.items = items
  BY MsgKind
<1> HIDE DEF e
<1>1. ASSUME Good(e) PROVE a \notin Natives \union SemaphoreNames /\ GoodItems(items)
  <2>1. PICK S : IsData(S) /\ e \in S
    BY <1>1 DEF Good
  <2>2. /\ a \notin Natives \union SemaphoreNames
        /\ items \in Seq(Range(items))
        /\ \A i \in DOMAIN items : IsItem(items[i], S)
    BY <1>0, <2>1 DEF IsData
  <2>3. \A x \in Range(items) : GoodItem(x)
    BY <2>1, <2>2 DEF Range, GoodItem
  <2> QED BY <2>2, <2>3 DEF GoodItems, IsSeq
<1>2. ASSUME a \notin Natives \union SemaphoreNames, GoodItems(items) PROVE Good(e)
  <2>1. PICK S : IsData(S) /\ \A x \in Range(items) : IsItem(x, S)
    BY <1>2, GoodItemsData
  <2> DEFINE T == S \union {e}
  <2>2. S \subseteq T
    OBVIOUS
  <2>3. \A x : IsItem(x, S) => IsItem(x, T)
    BY <2>2, ItemInMore
  <2>4. \A s : s \in Seq(S) => s \in Seq(T)
    BY <2>2, SeqMonotonic
  <2>5. \A i \in DOMAIN items : IsItem(items[i], T)
    BY <2>1, <2>3 DEF Range
  <2>6. items \in Seq(Range(items))
    BY <1>2 DEF GoodItems, IsSeq
  <2>7. e = Msg(e.addr, e.items)
    BY <1>0 DEF e
  <2> HIDE DEF T
  <2>8. ASSUME NEW d \in S
        PROVE  IF IsBndl(d) THEN d = Bndl(d.elems) /\ d.elems \in Seq(T)
               ELSE /\ d = Msg(d.addr, d.items)
                    /\ d.addr \notin Natives \union SemaphoreNames
                    /\ d.items \in Seq(Range(d.items))
                    /\ \A i \in DOMAIN d.items : IsItem(d.items[i], T)
    BY <2>1, <2>3, <2>4 DEF IsData
  <2>9. /\ ~IsBndl(e) /\ e = Msg(e.addr, e.items)
        /\ e.addr \notin Natives \union SemaphoreNames
        /\ e.items \in Seq(Range(e.items))
        /\ \A i \in DOMAIN e.items : IsItem(e.items[i], T)
    BY <1>0, <1>2, <2>5, <2>6, <2>7
  <2>10. ASSUME NEW d \in T
         PROVE  IF IsBndl(d) THEN d = Bndl(d.elems) /\ d.elems \in Seq(T)
                ELSE /\ d = Msg(d.addr, d.items)
                     /\ d.addr \notin Natives \union SemaphoreNames
                     /\ d.items \in Seq(Range(d.items))
                     /\ \A i \in DOMAIN d.items : IsItem(d.items[i], T)
    <3>1. d \in S \/ d = e
      BY DEF T
    <3> QED BY <2>8, <2>9, <3>1
  <2>11. IsData(T) /\ e \in T
    BY <2>10 DEF IsData, T
  <2> QED BY <2>11 DEF Good
<1> QED BY <1>1, <1>2 DEF e

(* There are no other good elements. *)
LEMMA GoodForm ==
    ASSUME NEW e, Good(e)
    PROVE  /\ IsBndl(e) => e = Bndl(e.elems) /\ GoodSeq(e.elems)
           /\ ~IsBndl(e) => /\ e = Msg(e.addr, e.items)
                            /\ e.addr \notin Natives \union SemaphoreNames
                            /\ GoodItems(e.items)
<1>1. PICK S : IsData(S) /\ e \in S
  BY DEF Good
<1>2. IF IsBndl(e) THEN e = Bndl(e.elems) ELSE e = Msg(e.addr, e.items)
  BY <1>1 DEF IsData
<1> QED BY <1>2, GoodBndl, GoodMsg

LEMMA GoodStr == ASSUME NEW s PROVE GoodItem(Str(s)) <=> s \notin Internal
<1>1. Str(s).tt = "s" /\ Str(s).val = s /\ DOMAIN Str(s) = {"tt", "val"}
      /\ Str(s) = [tt |-> Str(s).tt, val |-> Str(s).val]
  BY DEF Str
<1>2. \A S : IsItem(Str(s), S) <=> s \notin Internal
  BY <1>1 DEF IsItem
<1>3. IsData({})
  BY DEF IsData
<1> QED BY <1>2, <1>3 DEF GoodItem

LEMMA GoodNum == ASSUME NEW n PROVE GoodItem(Num(n))
<1>1. Num(n).tt = "i" /\ DOMAIN Num(n) = {"tt", "val"}
      /\ Num(n) = [tt |-> Num(n).tt, val |-> Num(n).val]
  BY DEF Num
<1>2. IsItem(Num(n), {})
  BY <1>1 DEF IsItem
<1>3. IsData({})
  BY DEF IsData
<1> QED BY <1>2, <1>3 DEF GoodItem

LEMMA GoodElems ==
    ASSUME NEW t \in {"b", "B", "L"}, NEW s, GoodSeq(s)
    PROVE  GoodItem([tt |-> t, elems |-> s])
<1>1. PICK S : IsData(S) /\ s \in Seq(S)
  BY GoodSeqData
<1> DEFINE x == [tt |-> t, elems |-> s]
<1>2. x.tt = t /\ x.elems = s /\ DOMAIN x = {"tt", "elems"}
      /\ x = [tt |-> x.tt, elems |-> x.elems]
  OBVIOUS
<1>3. IsItem(x, S)
  BY <1>1, <1>2 DEF IsItem
<1> QED BY <1>1, <1>3 DEF GoodItem

LEMMA GoodItemForm ==
    ASSUME NEW x, GoodItem(x)
    PROVE  \/ x = [tt |-> x.tt, elems |-> x.elems] /\ x.tt \in {"b", "B", "L"}
              /\ GoodSeq(x.elems)
           \/ x = [tt |-> x.tt, val |-> x.val]
              /\ (x.tt = "i" \/ (x.tt = "s" /\ x = Str(x.val) /\ x.val \notin Internal))
<1>1. PICK S : IsData(S) /\ IsItem(x, S)
  BY DEF GoodItem
<1>2. CASE x = [tt |-> x.tt, elems |-> x.elems] /\ x.tt \in {"b", "B", "L"}
           /\ x.elems \in Seq(S)
  BY <1>1, <1>2, DataGood
<1>3. CASE x = [tt |-> x.tt, val |-> x.val]
           /\ (x.tt = "i" \/ (x.tt = "s" /\ x.val \notin Internal))
  BY <1>3 DEF Str
<1> QED BY <1>1, <1>2, <1>3 DEF IsItem

-----------------------------------------------------------------------------
(* Elements of an environment: as data, or with the name of a semaphore.   *)
Loose(e) ==
    IF IsBndl(e) THEN Good(e)
    ELSE e = Msg(e.addr, e.items) /\ e.addr \notin Natives /\ GoodItems(e.items)

LooseSeq(s) == IsSeq(s) /\ \A e \in Range(s) : Loose(e)

LEMMA LooseMsg ==
    ASSUME NEW a, NEW items
    PROVE  Loose(Msg(a, items)) <=> a \notin Natives /\ GoodItems(items)
BY MsgKind DEF Loose

LEMMA GoodLoose == ASSUME NEW e, Good(e) PROVE Loose(e)
BY GoodForm DEF Loose

LEMMA LooseGood ==
    ASSUME NEW e, Loose(e), IsBndl(e) \/ e.addr \notin SemaphoreNames PROVE Good(e)
<1>1. CASE ~IsBndl(e)
  <2>1. e = Msg(e.addr, e.items) /\ e.addr \notin Natives \union SemaphoreNames
        /\ GoodItems(e.items)
    BY <1>1 DEF Loose
  <2>2. Good(Msg(e.addr, e.items))
    BY <2>1, GoodMsg
  <2> QED BY <2>1, <2>2
<1> QED BY <1>1 DEF Loose

LEMMA GoodSeqLoose == ASSUME NEW s, GoodSeq(s) PROVE LooseSeq(s)
BY GoodLoose DEF GoodSeq, LooseSeq

-----------------------------------------------------------------------------
(* Sequences of them.                                                      *)
LEMMA GoodSeqs ==
    /\ GoodSeq(<<>>)
    /\ \A e : GoodSeq(<<e>>) <=> Good(e)
    /\ \A s, t : GoodSeq(s) /\ GoodSeq(t) => GoodSeq(s \o t)
    /\ \A s, e : GoodSeq(s) /\ Good(e) => GoodSeq(Append(s, e))
    /\ \A s : GoodSeq(s) => GoodSeq(Reverse(s))
    /\ \A s : GoodSeq(s) /\ s # <<>> => GoodSeq(Front(s)) /\ Good(Last(s))
<1>1. GoodSeq(<<>>)
  BY EmptyIsSeq, EmptyRange DEF GoodSeq
<1>2. ASSUME NEW e PROVE GoodSeq(<<e>>) <=> Good(e)
  BY OneIsSeq, OneRange DEF GoodSeq
<1>3. ASSUME NEW s, NEW t, GoodSeq(s), GoodSeq(t) PROVE GoodSeq(s \o t)
  BY <1>3, ConcatSeq, ConcatRange DEF GoodSeq
<1>4. ASSUME NEW s, NEW e, GoodSeq(s), Good(e) PROVE GoodSeq(Append(s, e))
  BY <1>4, AppendRange DEF GoodSeq
<1>5. ASSUME NEW s, GoodSeq(s) PROVE GoodSeq(Reverse(s))
  BY <1>5, ReverseSeq DEF GoodSeq
<1>6. ASSUME NEW s, GoodSeq(s), s # <<>> PROVE GoodSeq(Front(s)) /\ Good(Last(s))
  BY <1>6, FrontRange DEF GoodSeq
<1> QED BY <1>1, <1>2, <1>3, <1>4, <1>5, <1>6

LEMMA GoodItemsSeqs ==
    /\ GoodItems(<<>>)
    /\ \A e : GoodItems(<<e>>) <=> GoodItem(e)
    /\ \A s, t : GoodItems(s) /\ GoodItems(t) => GoodItems(s \o t)
    /\ \A s, e : GoodItems(s) /\ GoodItem(e) => GoodItems(Append(s, e))
    /\ \A s : GoodItems(s) /\ s # <<>> => GoodItem(Last(s)) /\ GoodItem(s[1])
<1>1. GoodItems(<<>>)
  BY EmptyIsSeq, EmptyRange DEF GoodItems
<1>2. ASSUME NEW e PROVE GoodItems(<<e>>) <=> GoodItem(e)
  BY OneIsSeq, OneRange DEF GoodItems
<1>3. ASSUME NEW s, NEW t, GoodItems(s), GoodItems(t) PROVE GoodItems(s \o t)
  BY <1>3, ConcatSeq, ConcatRange DEF GoodItems
<1>4. ASSUME NEW s, NEW e, GoodItems(s), GoodItem(e) PROVE GoodItems(Append(s, e))
  BY <1>4, AppendRange DEF GoodItems
<1>5. ASSUME NEW s, GoodItems(s), s # <<>> PROVE GoodItem(Last(s)) /\ GoodItem(s[1])
  <2>1. 1 \in 1 .. Len(s)
    BY <1>5, NotEmpty DEF GoodItems
  <2> QED BY <1>5, <2>1, FrontRange, RangeIs DEF GoodItems
<1> QED BY <1>1, <1>2, <1>3, <1>4, <1>5

LEMMA LooseSeqs ==
    /\ LooseSeq(<<>>)
    /\ \A e : LooseSeq(<<e>>) <=> Loose(e)
    /\ \A s, t : LooseSeq(s) /\ LooseSeq(t) => LooseSeq(s \o t)
    /\ \A s, e : LooseSeq(s) /\ Loose(e) => LooseSeq(Append(s, e))
    /\ \A s : LooseSeq(s) => LooseSeq(Reverse(s))
    /\ \A s : LooseSeq(s) => \A i \in 1 .. Len(s) : Loose(s[i])
<1>1. LooseSeq(<<>>)
  BY EmptyIsSeq, EmptyRange DEF LooseSeq
<1>2. ASSUME NEW e PROVE LooseSeq(<<e>>) <=> Loose(e)
  BY OneIsSeq, OneRange DEF LooseSeq
<1>3. ASSUME NEW s, NEW t, LooseSeq(s), LooseSeq(t) PROVE LooseSeq(s \o t)
  BY <1>3, ConcatSeq, ConcatRange DEF LooseSeq
<1>4. ASSUME NEW s, NEW e, LooseSeq(s), Loose(e) PROVE LooseSeq(Append(s, e))
  BY <1>4, AppendRange DEF LooseSeq
<1>5. ASSUME NEW s, LooseSeq(s) PROVE LooseSeq(Reverse(s))
  BY <1>5, ReverseSeq DEF LooseSeq
<1>6. ASSUME NEW s, LooseSeq(s) PROVE \A i \in 1 .. Len(s) : Loose(s[i])
  BY <1>6, RangeIs DEF LooseSeq
<1> QED BY <1>1, <1>2, <1>3, <1>4, <1>5, <1>6

(* The strings on control and input. *)
LEMMA StringKind ==
    ASSUME NEW x
    PROVE  /\ ~IsBndl(String(x)) /\ String(x).addr = "" /\ String(x).items = <<Str(x)>>
           /\ Len(String(x).items) = 1 /\ String(x).items[1].val = x
           /\ \A y : String(y) = String(x) => y = x
<1>1. ASSUME NEW z
      PROVE  /\ ~IsBndl(String(z)) /\ String(z).addr = ""
             /\ String(z).items = <<Str(z)>> /\ String(z).items[1].val = z
  <2>1. Str(z).val = z
    BY DEF Str
  <2>2. ~IsBndl(String(z)) /\ String(z).addr = "" /\ String(z).items = <<Str(z)>>
    BY MsgKind DEF String
  <2>3. <<Str(z)>>[1] = Str(z)
    OBVIOUS
  <2> QED BY <2>1, <2>2, <2>3
<1>2. ASSUME NEW y, String(y) = String(x) PROVE y = x
  <2>1. String(y).items[1].val = y /\ String(x).items[1].val = x
    BY <1>1
  <2> QED BY <1>2, <2>1
<1> QED BY <1>1, <1>2, OneIsSeq

LEMMA NativeNames ==
    Natives = {FinalizeElemName, FinalizeExecName, FinalizeLambdaName,
               FinalizeTopLevelName, "/!/o/exec", "/!/o/execlambdaapp",
               "/!/o/apply", "/!/o/funcall", "/!/o/parse", "/!/$", "/!/apply",
               "/!/exec1", "/!/drop", "/!/o/defn", "/!/o/load", "/!/o/if",
               "/!/o/first", "/!/o/last", "/!/o/rest", "/!/o/butlast"}
<1>1. /\ NativeOf["/o/defn"] = "/!/o/defn" /\ NativeOf["/o/load"] = "/!/o/load"
      /\ NativeOf["/o/if"] = "/!/o/if" /\ NativeOf["/o/first"] = "/!/o/first"
      /\ NativeOf["/o/last"] = "/!/o/last" /\ NativeOf["/o/rest"] = "/!/o/rest"
      /\ NativeOf["/o/butlast"] = "/!/o/butlast"
  BY DEF NativeOf
<1>2. DOMAIN NativeOf = {"/o/defn", "/o/load", "/o/if", "/o/first", "/o/last",
                         "/o/rest", "/o/butlast"}
  BY DEF NativeOf
<1>3. { NativeOf[n] : n \in DOMAIN NativeOf } =
        {"/!/o/defn", "/!/o/load", "/!/o/if", "/!/o/first", "/!/o/last",
         "/!/o/rest", "/!/o/butlast"}
  BY <1>1, <1>2
<1> QED BY <1>3 DEF Natives

LEMMA NoName == "" \notin Natives \union SemaphoreNames
BY NativeNames DEF SemaphoreNames, FinalizeElemName, FinalizeExecName,
       FinalizeLambdaName, FinalizeTopLevelName

LEMMA GoodString == ASSUME NEW x PROVE Good(String(x)) <=> x \notin Internal
<1>1. GoodItems(<<Str(x)>>) <=> x \notin Internal
  BY GoodItemsSeqs, GoodStr
<1> QED BY <1>1, NoName, GoodMsg DEF String

LEMMA InternalNatives == Internal \subseteq Natives
BY DEF Internal, Natives

-----------------------------------------------------------------------------
(* What the operations of libose make of them.                             *)

(* Each item of a message in a message of its own. *)
Each(items) == [i \in DOMAIN items |-> Msg("", <<items[i]>>)]

LEMMA EachIs ==
    ASSUME NEW items, IsSeq(items)
    PROVE  /\ IsSeq(Each(items)) /\ Len(Each(items)) = Len(items)
           /\ \A i \in 1 .. Len(items) : Each(items)[i] = Msg("", <<items[i]>>)
<1> DEFINE u == Each(items)
<1>1. Len(items) \in Nat /\ DOMAIN items = 1 .. Len(items)
  BY SeqType
<1>2. u = [i \in 1 .. Len(items) |-> Msg("", <<items[i]>>)]
  BY <1>1 DEF Each
<1> HIDE DEF u
<1>3. u \in [1 .. Len(items) -> Range(u)]
  BY <1>2 DEF Range
<1>4. u \in Seq(Range(u)) /\ Len(u) = Len(items)
  BY <1>1, <1>3
<1> QED BY <1>2, <1>4 DEF IsSeq, u

LEMMA GoodEach ==
    ASSUME NEW items, GoodItems(items) PROVE GoodSeq(Each(items))
<1>1. IsSeq(items)
  BY DEF GoodItems
<1>2. ASSUME NEW i \in 1 .. Len(items) PROVE Good(Msg("", <<items[i]>>))
  <2>1. GoodItem(items[i])
    BY <1>1, RangeIs DEF GoodItems
  <2>2. GoodItems(<<items[i]>>)
    BY <2>1, GoodItemsSeqs
  <2> QED BY <2>2, GoodMsg, NoName
<1>3. /\ IsSeq(Each(items)) /\ Len(Each(items)) = Len(items)
      /\ \A i \in 1 .. Len(items) : Each(items)[i] = Msg("", <<items[i]>>)
  BY <1>1, EachIs
<1>4. ASSUME NEW e \in Range(Each(items)) PROVE Good(e)
  <2>1. PICK i \in 1 .. Len(Each(items)) : e = Each(items)[i]
    BY <1>3, RangeIs
  <2> QED BY <1>2, <1>3, <2>1
<1> QED BY <1>3, <1>4 DEF GoodSeq

LEMMA GoodParts ==
    ASSUME NEW e, Good(e)
    PROVE  GoodSeq(Parts(e)) /\ \A i \in 1 .. Len(Parts(e)) : Good(Parts(e)[i])
<1>1. GoodSeq(Parts(e))
  BY GoodForm, GoodEach DEF Parts, Each
<1> QED BY <1>1, RangeIs DEF GoodSeq

LEMMA GoodSub ==
    ASSUME NEW e, Good(e), NEW m \in Int, NEW n \in Int, 1 <= m, n <= Len(Parts(e))
    PROVE  Good(SubElem(e, m, n))
<1>1. CASE IsBndl(e)
  <2>1. GoodSeq(e.elems) /\ Parts(e) = e.elems
    BY <1>1, GoodForm DEF Parts
  <2>2. GoodSeq(SubSeq(e.elems, m, n))
    BY <2>1, SubSeqRange DEF GoodSeq
  <2> QED BY <1>1, <2>2, GoodBndl DEF SubElem
<1>2. CASE ~IsBndl(e)
  <2>1. GoodItems(e.items) /\ Parts(e) = Each(e.items)
        /\ e.addr \notin Natives \union SemaphoreNames
    BY <1>2, GoodForm DEF Parts, Each
  <2>2. n <= Len(e.items)
    BY <2>1, EachIs DEF GoodItems
  <2>3. GoodItems(SubSeq(e.items, m, n))
    BY <2>1, <2>2, SubSeqRange DEF GoodItems
  <2> QED BY <1>2, <2>1, <2>3, GoodMsg DEF SubElem
<1> QED BY <1>1, <1>2

LEMMA GoodAsItems ==
    ASSUME NEW e, Loose(e) PROVE GoodItems(AsItems(e))
<1>1. CASE IsBndl(e)
  <2>1. GoodSeq(e.elems)
    BY <1>1, GoodForm DEF Loose
  <2>2. GoodItem(Bundle(e.elems))
    BY <2>1, GoodElems DEF Bundle
  <2> QED BY <1>1, <2>2, GoodItemsSeqs DEF AsItems
<1> QED BY <1>1 DEF Loose, AsItems

LEMMA GoodJoin ==
    ASSUME NEW es, GoodSeq(es) PROVE GoodItems(JoinItems(es))
<1> DEFINE ss == [i \in DOMAIN es |-> AsItems(es[i])]
           S == UNION {Range(ss[i]) : i \in DOMAIN ss}
<1>1. IsSeq(es) /\ Len(es) \in Nat /\ DOMAIN es = 1 .. Len(es)
  BY SeqType DEF GoodSeq
<1>2. ASSUME NEW i \in 1 .. Len(es) PROVE GoodItems(ss[i])
  BY <1>1, GoodLoose, GoodAsItems, RangeIs DEF GoodSeq
<1>3. ss = [i \in 1 .. Len(es) |-> ss[i]] /\ DOMAIN ss = 1 .. Len(es)
  BY <1>1
<1>4. JoinItems(es) = FlattenSeq(ss)
  BY DEF JoinItems
<1> HIDE DEF ss
<1>5. IsSeq(ss)
  <2>1. ss \in [1 .. Len(es) -> Range(ss)]
    BY <1>3 DEF Range
  <2> QED BY <1>1, <2>1 DEF IsSeq
<1>6. ASSUME NEW i \in 1 .. Len(es) PROVE ss[i] \in Seq(S)
  <2>1. Range(ss[i]) \subseteq S
    BY <1>3
  <2>2. ss[i] \in Seq(Range(ss[i]))
    BY <1>2 DEF GoodItems, IsSeq
  <2> QED BY <2>1, <2>2, SeqMonotonic
<1>7. ASSUME NEW x \in S PROVE GoodItem(x)
  BY <1>2, <1>3 DEF GoodItems
<1> HIDE DEF S
<1>8. \A s \in Range(ss) : s \in Seq(S)
  BY <1>3, <1>6 DEF Range
<1>9. FlattenSeq(ss) \in Seq(S)
  BY <1>5, <1>8, FlattenIsSeq
<1>10. \A x \in Range(FlattenSeq(ss)) : x \in S
  BY <1>9, SeqIsSeq, RangeIs, ElementOfSeq
<1> QED BY <1>4, <1>7, <1>9, <1>10, SeqIsSeq DEF GoodItems

-----------------------------------------------------------------------------
(* What a frame still has to do: the input and, on top of it, the control. *)
(* A frame evaluates a bundle ("exec", within semaphores) or anything else *)
(* ("plain"), and kind says which; in the first nothing has the name of a  *)
(* semaphore.                                                              *)
Kinds == {"exec", "plain"}

Item(kind, e) == Loose(e) /\ (kind = "exec" => Good(e))

ItemsOnly(kind, w) == IsSeq(w) /\ \A e \in Range(w) : Item(kind, e)

FE == String(FinalizeElemName)
TL == String(FinalizeTopLevelName)
Marks == {FE, TL}

(* A name an element can be bound to. *)
IsName(kind, e) ==
    \E name : /\ e = String(name) /\ name \notin Natives
              /\ kind = "exec" => name \notin SemaphoreNames

(* An element that ends with its address. *)
Addressed(kind, e) ==
    /\ ~IsBndl(e) /\ e.addr = "" /\ e.items # <<>>
    /\ IsName(kind, Msg("", <<Last(e.items)>>))

(* Items, and one finalizer at most, that of an element above it or of a   *)
(* loaded file.                                                            *)
Work(kind, w) ==
    /\ IsSeq(w)
    /\ \A n \in 1 .. Len(w) : Item(kind, w[n]) \/ w[n] \in Marks
    /\ \A n, p \in 1 .. Len(w) : n # p => Item(kind, w[n]) \/ Item(kind, w[p])
    /\ \A n \in 1 .. Len(w) : n < Len(w) /\ w[n] = FE => Addressed(kind, w[n + 1])

NotFE(w) == w # <<>> => Last(w) # FE

(* The control holds items one by one. *)
Piece(e) == IsBndl(e) \/ (e.addr = "" /\ Len(e.items) = 1)
Pieces(c) == IsSeq(c) /\ \A e \in Range(c) : Piece(e)

-----------------------------------------------------------------------------
LEMMA StringPiece == ASSUME NEW x PROVE Piece(String(x))
BY StringKind DEF Piece

LEMMA PiecesSeqs ==
    /\ Pieces(<<>>)
    /\ \A e : Piece(e) => Pieces(<<e>>)
    /\ \A c, d : Pieces(c) /\ Pieces(d) => Pieces(c \o d)
    /\ \A c, e : Pieces(c) /\ Piece(e) => Pieces(Append(c, e))
    /\ \A c : Pieces(c) /\ c # <<>> => Pieces(Front(c)) /\ Piece(Last(c))
<1>1. Pieces(<<>>)
  BY EmptyIsSeq, EmptyRange DEF Pieces
<1>2. ASSUME NEW e, Piece(e) PROVE Pieces(<<e>>)
  BY <1>2, OneIsSeq, OneRange DEF Pieces
<1>3. ASSUME NEW c, NEW d, Pieces(c), Pieces(d) PROVE Pieces(c \o d)
  BY <1>3, ConcatSeq, ConcatRange DEF Pieces
<1>4. ASSUME NEW c, NEW e, Pieces(c), Piece(e) PROVE Pieces(Append(c, e))
  BY <1>4, AppendRange DEF Pieces
<1>5. ASSUME NEW c, Pieces(c), c # <<>> PROVE Pieces(Front(c)) /\ Piece(Last(c))
  BY <1>5, FrontRange DEF Pieces
<1> QED BY <1>1, <1>2, <1>3, <1>4, <1>5

LEMMA LooseString == ASSUME NEW x PROVE Loose(String(x)) <=> x \notin Internal
<1>1. GoodItems(<<Str(x)>>) <=> x \notin Internal
  BY GoodItemsSeqs, GoodStr
<1> QED BY <1>1, NoName, LooseMsg DEF String

LEMMA ItemString ==
    ASSUME NEW kind, NEW x PROVE Item(kind, String(x)) <=> x \notin Internal
BY LooseString, GoodString DEF Item

LEMMA GoodIsItem == ASSUME NEW kind, NEW e, Good(e) PROVE Item(kind, e)
BY GoodLoose DEF Item

LEMMA MarkNames ==
    /\ FinalizeElemName \in Internal /\ FinalizeTopLevelName \in Internal
    /\ FE # TL /\ FE \in Marks /\ TL \in Marks
    /\ \A kind, e : e \in Marks => ~Item(kind, e)
<1>1. FinalizeElemName \in Internal /\ FinalizeTopLevelName \in Internal
  BY DEF Internal
<1>2. FE # TL
  BY StringKind DEF FE, TL, FinalizeElemName, FinalizeTopLevelName
<1>3. \A kind : ~Item(kind, FE) /\ ~Item(kind, TL)
  BY <1>1, ItemString DEF FE, TL
<1> QED BY <1>1, <1>2, <1>3 DEF Marks

(* A native is no name. *)
LEMMA AddressedString ==
    ASSUME NEW kind, NEW x, Addressed(kind, String(x)) PROVE x \notin Natives
<1>1. String(x).items = <<Str(x)>>
  BY StringKind
<1>2. Last(<<Str(x)>>) = Str(x)
  BY OneIsSeq DEF Last
<1>3. IsName(kind, Msg("", <<Str(x)>>))
  BY <1>1, <1>2 DEF Addressed
<1>4. PICK name : String(x) = String(name) /\ name \notin Natives
  BY <1>3 DEF IsName, String
<1> QED BY <1>4, StringKind

LEMMA ItemsOnlySeqs ==
    ASSUME NEW kind
    PROVE  /\ ItemsOnly(kind, <<>>)
           /\ \A s : GoodSeq(s) => ItemsOnly(kind, s)
           /\ \A s, t : ItemsOnly(kind, s) /\ ItemsOnly(kind, t) => ItemsOnly(kind, s \o t)
           /\ \A s, e : ItemsOnly(kind, s) /\ Item(kind, e) => ItemsOnly(kind, Append(s, e))
           /\ \A s : ItemsOnly(kind, s) /\ s # <<>> =>
                 ItemsOnly(kind, Front(s)) /\ Item(kind, Last(s))
<1>1. ItemsOnly(kind, <<>>)
  BY EmptyIsSeq, EmptyRange DEF ItemsOnly
<1>2. ASSUME NEW s, GoodSeq(s) PROVE ItemsOnly(kind, s)
  BY <1>2, GoodIsItem DEF ItemsOnly, GoodSeq
<1>3. ASSUME NEW s, NEW t, ItemsOnly(kind, s), ItemsOnly(kind, t)
      PROVE  ItemsOnly(kind, s \o t)
  BY <1>3, ConcatSeq, ConcatRange DEF ItemsOnly
<1>4. ASSUME NEW s, NEW e, ItemsOnly(kind, s), Item(kind, e)
      PROVE  ItemsOnly(kind, Append(s, e))
  BY <1>4, AppendRange DEF ItemsOnly
<1>5. ASSUME NEW s, ItemsOnly(kind, s), s # <<>>
      PROVE  ItemsOnly(kind, Front(s)) /\ Item(kind, Last(s))
  BY <1>5, FrontRange DEF ItemsOnly
<1> QED BY <1>1, <1>2, <1>3, <1>4, <1>5

LEMMA ItemsOnlyWork ==
    ASSUME NEW kind, NEW w, ItemsOnly(kind, w) PROVE Work(kind, w) /\ NotFE(w)
<1>1. IsSeq(w) /\ \A n \in 1 .. Len(w) : Item(kind, w[n])
  BY RangeIs DEF ItemsOnly
<1>2. \A n \in 1 .. Len(w) : w[n] \notin Marks
  BY <1>1, MarkNames
<1>3. \A n \in 1 .. Len(w) : w[n] # FE
  BY <1>2, MarkNames
<1>4. NotFE(w)
  BY <1>1, <1>3, NotEmpty DEF NotFE
<1> QED BY <1>1, <1>3, <1>4 DEF Work

(* On top of what is left to do. *)
LEMMA WorkItems ==
    ASSUME NEW kind, NEW w, NEW t, Work(kind, w), ItemsOnly(kind, t), t # <<>>,
           NotFE(w) \/ Addressed(kind, t[1])
    PROVE  Work(kind, w \o t) /\ NotFE(w \o t)
<1> DEFINE u == w \o t
<1>1. IsSeq(w) /\ IsSeq(t) /\ Len(w) \in Nat /\ Len(t) \in Nat /\ Len(t) >= 1
  BY SeqType, NotEmpty DEF Work, ItemsOnly
<1>2. /\ IsSeq(u) /\ Len(u) = Len(w) + Len(t)
      /\ \A n \in 1 .. Len(w) : u[n] = w[n]
      /\ \A n \in 1 .. Len(t) : u[Len(w) + n] = t[n]
  BY <1>1, ConcatSeq
<1>3. \A n \in 1 .. Len(t) : Item(kind, t[n])
  BY <1>1, RangeIs DEF ItemsOnly
<1> HIDE DEF u
<1>4. ASSUME NEW n \in 1 .. Len(u), ~(n \in 1 .. Len(w)) PROVE Item(kind, u[n]) /\ u[n] # FE
  <2>1. n - Len(w) \in 1 .. Len(t) /\ n = Len(w) + (n - Len(w))
    BY <1>1, <1>2, <1>4
  <2>2. u[n] = t[n - Len(w)]
    BY <1>2, <2>1
  <2> QED BY <1>3, <2>1, <2>2, MarkNames
<1>5. \A n \in 1 .. Len(u) : Item(kind, u[n]) \/ u[n] \in Marks
  BY <1>2, <1>4 DEF Work
<1>6. \A n, p \in 1 .. Len(u) : n # p => Item(kind, u[n]) \/ Item(kind, u[p])
  BY <1>2, <1>4 DEF Work
<1>7. ASSUME NEW n \in 1 .. Len(u), n < Len(u), u[n] = FE
      PROVE  Addressed(kind, u[n + 1])
  <2>1. n \in 1 .. Len(w) /\ w[n] = FE
    BY <1>2, <1>4, <1>7
  <2>2. CASE n < Len(w)
    <3>1. n + 1 \in 1 .. Len(w)
      BY <1>1, <2>1, <2>2
    <3> QED BY <1>2, <2>1, <2>2, <3>1 DEF Work
  <2>3. CASE n = Len(w)
    <3>1. w # <<>> /\ Last(w) = FE
      BY <1>1, <2>1, <2>3, EmptyIsSeq DEF Last
    <3>2. Addressed(kind, t[1])
      BY <3>1 DEF NotFE
    <3>3. 1 \in 1 .. Len(t)
      BY <1>1
    <3>4. u[n + 1] = t[1]
      BY <1>2, <2>3, <3>3
    <3> QED BY <3>2, <3>4
  <2> QED BY <1>1, <2>1, <2>2, <2>3
<1>8. Work(kind, u)
  BY <1>2, <1>5, <1>6, <1>7 DEF Work
<1>9. Len(u) \in 1 .. Len(u) /\ ~(Len(u) \in 1 .. Len(w))
  BY <1>1, <1>2
<1>10. NotFE(u)
  BY <1>4, <1>9 DEF NotFE, Last
<1> QED BY <1>8, <1>10 DEF u

(* Off the top of it. *)
LEMMA WorkFront ==
    ASSUME NEW kind, NEW w, Work(kind, w), w # <<>>
    PROVE  /\ Work(kind, Front(w)) /\ IsSeq(Front(w))
           /\ Item(kind, Last(w)) \/ Last(w) \in Marks
           /\ ~NotFE(Front(w)) => Addressed(kind, Last(w))
<1> DEFINE u == Front(w)
<1>1. IsSeq(w) /\ Len(w) \in Nat /\ Len(w) >= 1 /\ Last(w) = w[Len(w)]
  BY NotEmpty DEF Work
<1>2. /\ IsSeq(u) /\ Len(u) = Len(w) - 1
      /\ \A n \in 1 .. Len(w) - 1 : u[n] = w[n]
  BY <1>1, FrontSeq
<1> HIDE DEF u
<1>3. \A n \in 1 .. Len(u) : n \in 1 .. Len(w) /\ u[n] = w[n]
  BY <1>1, <1>2
<1>4. Work(kind, u)
  <2>1. ASSUME NEW n \in 1 .. Len(u), n < Len(u), u[n] = FE
        PROVE  Addressed(kind, u[n + 1])
    <3>1. n + 1 \in 1 .. Len(u) /\ n < Len(w)
      BY <1>1, <1>2, <2>1
    <3>2. w[n] = FE /\ u[n + 1] = w[n + 1]
      BY <1>3, <2>1, <3>1
    <3> QED BY <1>3, <3>1, <3>2 DEF Work
  <2> QED BY <1>2, <1>3, <2>1 DEF Work
<1>5. Item(kind, Last(w)) \/ Last(w) \in Marks
  <2>1. Len(w) \in 1 .. Len(w)
    BY <1>1
  <2> QED BY <1>1, <2>1 DEF Work
<1>6. ASSUME ~NotFE(u) PROVE Addressed(kind, Last(w))
  <2>1. u # <<>> /\ Last(u) = FE
    BY <1>6 DEF NotFE
  <2>2. Len(u) >= 1 /\ Len(u) \in Nat /\ u[Len(u)] = FE
    BY <1>2, <2>1, NotEmpty
  <2>3. Len(u) \in 1 .. Len(w) /\ Len(u) < Len(w) /\ Len(u) + 1 = Len(w)
    BY <1>1, <1>2, <2>2
  <2>4. Len(u) \in 1 .. Len(u)
    BY <2>2
  <2>5. w[Len(u)] = FE
    BY <1>3, <2>2, <2>4
  <2>6. Addressed(kind, w[Len(u) + 1])
    BY <2>3, <2>5 DEF Work
  <2> QED BY <1>1, <2>3, <2>6
<1> QED BY <1>2, <1>4, <1>5, <1>6 DEF u

LEMMA WorkMark ==
    ASSUME NEW kind, NEW w, Work(kind, w), w # <<>>, Last(w) \in Marks
    PROVE  ItemsOnly(kind, Front(w))
<1> DEFINE u == Front(w)
<1>1. IsSeq(w) /\ Len(w) \in Nat /\ Len(w) >= 1 /\ Last(w) = w[Len(w)]
  BY NotEmpty DEF Work
<1>2. /\ IsSeq(u) /\ Len(u) = Len(w) - 1
      /\ \A n \in 1 .. Len(w) - 1 : u[n] = w[n]
  BY <1>1, FrontSeq
<1> HIDE DEF u
<1>3. ~Item(kind, w[Len(w)]) /\ Len(w) \in 1 .. Len(w)
  BY <1>1, MarkNames
<1>4. ASSUME NEW n \in 1 .. Len(u) PROVE Item(kind, u[n])
  <2>1. n \in 1 .. Len(w) /\ n # Len(w) /\ u[n] = w[n]
    BY <1>1, <1>2
  <2> QED BY <1>3, <2>1 DEF Work
<1> QED BY <1>2, <1>4, RangeIs DEF ItemsOnly, u

LEMMA MarkWork ==
    ASSUME NEW kind, NEW w, ItemsOnly(kind, w), NEW mark \in Marks
    PROVE  Work(kind, Append(w, mark))
<1> DEFINE u == Append(w, mark)
<1>1. IsSeq(w) /\ Len(w) \in Nat /\ \A n \in 1 .. Len(w) : Item(kind, w[n])
  BY RangeIs, SeqType DEF ItemsOnly
<1>2. /\ IsSeq(u) /\ Len(u) = Len(w) + 1
      /\ \A n \in 1 .. Len(w) : u[n] = w[n]
      /\ u[Len(w) + 1] = mark
  BY <1>1, AppendSeq
<1> HIDE DEF u
<1>3. \A n \in 1 .. Len(u) : n \in 1 .. Len(w) \/ n = Len(w) + 1
  BY <1>1, <1>2
<1>4. \A n \in 1 .. Len(w) : Item(kind, u[n]) /\ u[n] # FE
  BY <1>1, <1>2, MarkNames
<1>5. \A n \in 1 .. Len(u) : n < Len(u) => u[n] # FE
  BY <1>1, <1>2, <1>4
<1>6. \A n, p \in 1 .. Len(u) : n # p => Item(kind, u[n]) \/ Item(kind, u[p])
  BY <1>3, <1>4
<1> QED BY <1>2, <1>3, <1>4, <1>5, <1>6 DEF Work, u

-----------------------------------------------------------------------------
(* From the input to the control.                                          *)
LEMMA OneExpands == ASSUME NEW x PROVE Reverse(Each(<<x>>)) = <<Msg("", <<x>>)>>
<1> DEFINE t == Each(<<x>>)
           u == <<Msg("", <<x>>)>>
<1>1. IsSeq(<<x>>) /\ Len(<<x>>) = 1 /\ <<x>>[1] = x
  BY OneIsSeq
<1>2. IsSeq(t) /\ Len(t) = 1 /\ t[1] = Msg("", <<x>>)
  <2> DEFINE items == <<x>>
  <2> HIDE DEF items
  <2>1. IsSeq(items) /\ Len(items) = 1 /\ items[1] = x
    BY <1>1 DEF items
  <2>2. /\ IsSeq(Each(items)) /\ Len(Each(items)) = Len(items)
        /\ \A i \in 1 .. Len(items) : Each(items)[i] = Msg("", <<items[i]>>)
    BY <2>1, EachIs
  <2>3. 1 \in 1 .. Len(items)
    BY <2>1
  <2> QED BY <2>1, <2>2, <2>3 DEF items
<1>3. IsSeq(u) /\ Len(u) = 1 /\ u[1] = Msg("", <<x>>)
  BY OneIsSeq
<1> HIDE DEF t, u
<1>4. IsSeq(Reverse(t)) /\ Len(Reverse(t)) = Len(t) /\ Reverse(t)[1] = t[1]
  <2>1. /\ IsSeq(Reverse(t)) /\ Len(Reverse(t)) = Len(t)
        /\ \A i \in 1 .. Len(t) : Reverse(t)[i] = t[(Len(t) - i) + 1]
    BY <1>2, ReverseSeq
  <2>2. \A n : n = 1 => 1 \in 1 .. n /\ (n - 1) + 1 = 1
    OBVIOUS
  <2>3. 1 \in 1 .. Len(t) /\ (Len(t) - 1) + 1 = 1
    BY <1>2, <2>2
  <2> QED BY <2>1, <2>3
<1>5. \A i \in 1 .. Len(Reverse(t)) : Reverse(t)[i] = u[i]
  <2>1. \A n : n = 1 => \A i \in 1 .. n : i = 1
    OBVIOUS
  <2>2. \A i \in 1 .. Len(Reverse(t)) : i = 1
    BY <1>2, <1>4, <2>1
  <2>3. Reverse(t)[1] = u[1]
    BY <1>2, <1>3, <1>4
  <2> QED BY <2>2, <2>3
<1>6. Reverse(t) = u
  <2>1. Len(Reverse(t)) = Len(u)
    BY <1>2, <1>3, <1>4
  <2> QED BY <1>3, <1>4, <1>5, <2>1, SameSeq
<1> QED BY <1>6 DEF t, u

LEMMA ExpandString == ASSUME NEW x PROVE Expand(String(x)) = <<String(x)>>
<1>1. ~IsBndl(String(x)) /\ String(x).addr = "" /\ String(x).items = <<Str(x)>>
  BY StringKind
<1>2. Expand(String(x)) = Reverse(Each(<<Str(x)>>))
  BY <1>1 DEF Expand, Each
<1> QED BY <1>2, OneExpands DEF String

LEMMA ExpandFinalizer == Expand(Msg(FinalizeElemName, <<>>)) = <<FE>>
<1>1. FinalizeElemName # ""
  BY DEF FinalizeElemName
<1>2. Append(<<>>, Str(FinalizeElemName)) = <<Str(FinalizeElemName)>>
  OBVIOUS
<1> DEFINE e == Msg(FinalizeElemName, <<>>)
<1>3. ~IsBndl(e) /\ e.addr = FinalizeElemName /\ e.items = <<>>
  BY MsgKind
<1> HIDE DEF e
<1>4. Expand(e) = Reverse(Each(Append(e.items, Str(e.addr))))
  BY <1>1, <1>3 DEF Expand, Each
<1>5. Expand(e) = Reverse(Each(<<Str(FinalizeElemName)>>))
  BY <1>2, <1>3, <1>4
<1> QED BY <1>5, OneExpands DEF String, FE, e

(* An item is expanded into items. *)
LEMMA ExpandItem ==
    ASSUME NEW kind, NEW e, Item(kind, e)
    PROVE  GoodSeq(Expand(e)) /\ Pieces(Expand(e))
<1>1. CASE IsBndl(e)
  <2>1. Good(e) /\ Piece(e) /\ Expand(e) = <<e>>
    BY <1>1 DEF Item, Loose, Piece, Expand
  <2> QED BY <2>1, GoodSeqs, PiecesSeqs
<1>2. CASE ~IsBndl(e)
  <2>1. e.addr \notin Natives /\ GoodItems(e.items)
    BY <1>2 DEF Item, Loose
  <2> DEFINE parts == IF e.addr = "" THEN e.items ELSE Append(e.items, Str(e.addr))
  <2>2. Expand(e) = Reverse(Each(parts))
    BY <1>2 DEF Expand, Each
  <2>3. GoodItem(Str(e.addr))
    BY <2>1, InternalNatives, GoodStr
  <2>4. GoodItems(parts)
    BY <2>1, <2>3, GoodItemsSeqs
  <2> HIDE DEF parts
  <2>5. GoodSeq(Each(parts))
    BY <2>4, GoodEach
  <2>6. IsSeq(Each(parts)) /\ \A x \in Range(Each(parts)) : Piece(x)
    <3>1. IsSeq(parts)
      BY <2>4 DEF GoodItems
    <3>2. /\ IsSeq(Each(parts)) /\ Len(Each(parts)) = Len(parts)
          /\ \A i \in 1 .. Len(parts) : Each(parts)[i] = Msg("", <<parts[i]>>)
      BY <3>1, EachIs
    <3>3. \A x : Piece(Msg("", <<x>>))
      <4> SUFFICES ASSUME NEW x PROVE Piece(Msg("", <<x>>))
        OBVIOUS
      <4> DEFINE items == <<x>>
      <4>1. Len(items) = 1
        OBVIOUS
      <4> HIDE DEF items
      <4>2. Piece(Msg("", items))
        BY <4>1, MsgKind DEF Piece
      <4> QED BY <4>2 DEF items
    <3>4. ASSUME NEW x \in Range(Each(parts))
          PROVE  \E i \in 1 .. Len(parts) : x = Msg("", <<parts[i]>>)
      <4>1. PICK i \in 1 .. Len(Each(parts)) : x = Each(parts)[i]
        BY <3>2, RangeIs
      <4> QED BY <3>2, <4>1
    <3> QED BY <3>2, <3>3, <3>4
  <2>7. GoodSeq(Reverse(Each(parts)))
    BY <2>5, GoodSeqs
  <2>8. Pieces(Reverse(Each(parts)))
    BY <2>6, ReverseSeq DEF Pieces
  <2> QED BY <2>2, <2>7, <2>8
<1> QED BY <1>1, <1>2

(* The address comes first, to lie at the bottom. *)
LEMMA ExpandAddressed ==
    ASSUME NEW kind, NEW e, Item(kind, e), Addressed(kind, e)
    PROVE  Expand(e) # <<>> /\ Addressed(kind, Expand(e)[1])
<1>1. ~IsBndl(e) /\ e.addr = "" /\ e.items # <<>> /\ GoodItems(e.items)
  BY DEF Addressed, Item, Loose
<1>2. IsSeq(e.items) /\ Len(e.items) \in Nat /\ Len(e.items) >= 1
      /\ Last(e.items) = e.items[Len(e.items)]
  BY <1>1, NotEmpty DEF GoodItems
<1> DEFINE n == Len(e.items)
           t == Each(e.items)
           name == Msg("", <<Last(e.items)>>)
<1>3. Expand(e) = Reverse(t)
  BY <1>1 DEF Expand, Each
<1>4. IsSeq(t) /\ Len(t) = n /\ t[n] = name
  <2>1. /\ IsSeq(t) /\ Len(t) = n
        /\ \A i \in 1 .. n : t[i] = Msg("", <<e.items[i]>>)
    BY <1>2, EachIs
  <2>2. n \in 1 .. n
    BY <1>2
  <2> QED BY <1>2, <2>1, <2>2
<1>5. IsName(kind, name)
  BY DEF Addressed
<1> HIDE DEF t, n, name
<1>6. /\ IsSeq(Reverse(t)) /\ Len(Reverse(t)) = Len(t)
      /\ \A i \in 1 .. Len(t) : Reverse(t)[i] = t[(Len(t) - i) + 1]
  BY <1>4, ReverseSeq
<1>7. 1 \in 1 .. Len(t) /\ (Len(t) - 1) + 1 = n
  <2>1. n \in Nat /\ n >= 1
    BY <1>2 DEF n
  <2> QED BY <1>4, <2>1
<1>8. Reverse(t)[1] = name
  BY <1>4, <1>6, <1>7
<1>9. Reverse(t) # <<>>
  BY <1>6, <1>7, EmptyIsSeq
<1>10. ~IsBndl(name) /\ name.addr = "" /\ name.items = <<Last(e.items)>>
  BY MsgKind DEF name
<1>11. Last(<<Last(e.items)>>) = Last(e.items) /\ <<Last(e.items)>> # <<>>
  BY OneIsSeq, EmptyIsSeq DEF Last
<1>12. Addressed(kind, name)
  BY <1>5, <1>10, <1>11 DEF Addressed, name
<1> QED BY <1>3, <1>8, <1>9, <1>12

(* A name of one item is the string that names it. *)
LEMMA AddressedPiece ==
    ASSUME NEW kind, NEW e, Loose(e), Piece(e), Addressed(kind, e)
    PROVE  IsName(kind, e) /\ ~IsBndl(e) /\ ArgType(e) = "s"
<1>1. ~IsBndl(e) /\ e.addr = "" /\ Len(e.items) = 1 /\ e.items # <<>>
      /\ e = Msg("", e.items) /\ GoodItems(e.items)
  BY DEF Addressed, Piece, Loose
<1>2. IsSeq(e.items) /\ Last(e.items) = e.items[1]
  BY <1>1 DEF GoodItems, Last
<1>3. e.items = <<Last(e.items)>>
  <2> DEFINE items == <<Last(e.items)>>
  <2>1. IsSeq(items) /\ Len(items) = 1 /\ items[1] = Last(e.items)
    BY OneIsSeq
  <2> HIDE DEF items
  <2>2. \A i \in 1 .. 1 : e.items[i] = items[i]
    BY <1>2, <2>1
  <2>3. e.items = items
    BY <1>1, <1>2, <2>1, <2>2, SameSeq
  <2> QED BY <2>3 DEF items
<1>4. IsName(kind, e)
  BY <1>1, <1>3 DEF Addressed
<1>5. PICK name : e = String(name)
  BY <1>4 DEF IsName
<1>6. e.items[1] = Str(name) /\ Str(name).tt = "s"
  <2>1. e.items = <<Str(name)>>
    BY <1>5, StringKind
  <2>2. Str(name).tt = "s"
    BY DEF Str
  <2> QED BY <2>1, <2>2
<1>7. ArgType(e) = "s"
  BY <1>1, <1>2, <1>6 DEF ArgType
<1> QED BY <1>1, <1>4, <1>7

LEMMA NameIsString ==
    ASSUME NEW kind, NEW e, IsName(kind, e)
    PROVE  /\ IsString(e) /\ e = String(e.items[1].val) /\ e.items[1].val \notin Natives
           /\ kind = "exec" => e.items[1].val \notin SemaphoreNames
<1>1. PICK name : /\ e = String(name) /\ name \notin Natives
                  /\ kind = "exec" => name \notin SemaphoreNames
  BY DEF IsName
<1>2. ~IsBndl(e) /\ e.items = <<Str(name)>> /\ e.items[1].val = name
  BY <1>1, StringKind
<1>3. Last(<<Str(name)>>) = Str(name) /\ <<Str(name)>> # <<>> /\ Str(name).tt = "s"
  BY OneIsSeq, EmptyIsSeq DEF Last, Str
<1> QED BY <1>1, <1>2, <1>3 DEF IsString, ArgType

-----------------------------------------------------------------------------
(* The environment of a frame.  In one that evaluates a bundle there is a  *)
(* #BEG and behind it an #END, and outside them nothing named like them.   *)
Enclosed(e) ==
    \E p, q \in 1 .. Len(e) :
        /\ p < q /\ e[p] = BEG /\ e[q] = END
        /\ \A n \in 1 .. Len(e) : n < p \/ n > q => Good(e[n])

EnvOK(kind, e) == LooseSeq(e) /\ (kind = "exec" => Enclosed(e))

LEMMA GoodBinding ==
    ASSUME NEW e, Good(e) PROVE IsBinding(e) /\ e # BEG /\ e # END
<1>1. ~IsBndl(BEG) /\ BEG.addr = "#BEG" /\ ~IsBndl(END) /\ END.addr = "#END"
  BY MsgKind DEF BEG, END
<1>2. ~IsBndl(e) => e.addr \notin SemaphoreNames
  BY GoodForm
<1> QED BY <1>1, <1>2 DEF IsBinding, IsSemaphore, SemaphoreNames

LEMMA Semaphores ==
    /\ Loose(BEG) /\ Loose(END)
    /\ IsSemaphore(BEG, "#BEG") /\ IsSemaphore(END, "#END")
<1>1. ASSUME NEW a, NEW n
      PROVE  /\ GoodItems(<<Num(n)>>)
             /\ IsSemaphore(Msg(a, <<Num(n)>>), a)
  <2>1. GoodItems(<<Num(n)>>)
    BY GoodNum, GoodItemsSeqs
  <2> DEFINE items == <<Num(n)>>
  <2>2. Len(items) = 1 /\ items[1].tt = "i"
    BY DEF Num
  <2> HIDE DEF items
  <2>3. IsSemaphore(Msg(a, items), a)
    BY <2>2, MsgKind DEF IsSemaphore, FourBytes
  <2> QED BY <2>1, <2>3 DEF items
<1>2. "#BEG" \notin Natives /\ "#END" \notin Natives
  BY NativeNames DEF FinalizeElemName, FinalizeExecName, FinalizeLambdaName,
         FinalizeTopLevelName
<1>3. Loose(BEG) /\ Loose(END)
  BY <1>1, <1>2, LooseMsg DEF BEG, END
<1>4. IsSemaphore(BEG, "#BEG") /\ IsSemaphore(END, "#END")
  BY <1>1 DEF BEG, END
<1> QED BY <1>3, <1>4

LEMMA ConsSeq ==
    ASSUME NEW s, IsSeq(s), NEW e
    PROVE  /\ IsSeq(<<e>> \o s) /\ Len(<<e>> \o s) = Len(s) + 1
           /\ (<<e>> \o s)[1] = e
           /\ \A i \in 1 .. Len(s) : (<<e>> \o s)[i + 1] = s[i]
<1> DEFINE t == <<e>>
<1>0. IsSeq(t)
  BY OneIsSeq
<1>1. Len(t) = 1 /\ t[1] = e
  BY OneIsSeq
<1> HIDE DEF t
<1>2. /\ IsSeq(t \o s) /\ Len(t \o s) = Len(t) + Len(s)
      /\ \A i \in 1 .. Len(t) : (t \o s)[i] = t[i]
      /\ \A i \in 1 .. Len(s) : (t \o s)[Len(t) + i] = s[i]
  BY <1>0, ConcatSeq
<1>3. Len(s) \in Nat /\ 1 \in 1 .. Len(t)
  BY <1>1, SeqType
<1>4. /\ IsSeq(t \o s) /\ Len(t \o s) = Len(s) + 1
      /\ (t \o s)[1] = e
      /\ \A i \in 1 .. Len(s) : (t \o s)[i + 1] = s[i]
  BY <1>1, <1>2, <1>3
<1> QED BY <1>4 DEF t

LEMMA EnvPush ==
    ASSUME NEW e, LooseSeq(e) PROVE EnvOK("exec", PushSemaphores(e))
<1> DEFINE b == <<BEG>> \o e
           u == b \o <<END>>
<1>1. LooseSeq(<<BEG>>) /\ LooseSeq(<<END>>)
  BY Semaphores, LooseSeqs
<1>2. LooseSeq(b) /\ LooseSeq(u)
  BY <1>1, LooseSeqs
<1>3. /\ IsSeq(<<BEG>>) /\ Len(<<BEG>>) = 1 /\ <<BEG>>[1] = BEG
      /\ IsSeq(<<END>>) /\ Len(<<END>>) = 1 /\ <<END>>[1] = END
  BY OneIsSeq
<1>4. IsSeq(e) /\ Len(e) \in Nat
  BY SeqType DEF LooseSeq
<1>5. IsSeq(b) /\ Len(b) = 1 + Len(e) /\ b[1] = BEG
  BY <1>3, <1>4, ConcatSeq
<1> HIDE DEF b
<1>6. Len(u) = Len(b) + 1 /\ u[Len(b) + 1] = END /\ \A n \in 1 .. Len(b) : u[n] = b[n]
  <2>1. u = Append(b, END)
    BY <1>5, AppendIs
  <2> QED BY <1>5, <2>1, AppendSeq
<1> HIDE DEF u
<1>7. u[1] = BEG /\ u[Len(u)] = END /\ 1 \in 1 .. Len(u) /\ Len(u) \in 1 .. Len(u)
      /\ 1 < Len(u)
  BY <1>4, <1>5, <1>6
<1>8. \A n \in 1 .. Len(u) : ~(n < 1 \/ n > Len(u))
  BY <1>4, <1>5, <1>6
<1>9. Enclosed(u)
  BY <1>7, <1>8 DEF Enclosed
<1> QED BY <1>2, <1>9 DEF EnvOK, PushSemaphores, u, b

LEMMA EnvBind ==
    ASSUME NEW kind, NEW e, EnvOK(kind, e), NEW b, Item(kind, b)
    PROVE  EnvOK(kind, <<b>> \o e)
<1> DEFINE u == <<b>> \o e
<1>1. LooseSeq(u)
  BY LooseSeqs DEF EnvOK, Item
<1>2. IsSeq(e) /\ Len(e) \in Nat
  BY SeqType DEF LooseSeq, EnvOK
<1>3. Len(u) = Len(e) + 1 /\ u[1] = b /\ \A n \in 1 .. Len(e) : u[n + 1] = e[n]
  BY <1>2, ConsSeq
<1> HIDE DEF u
<1>4. ASSUME kind = "exec" PROVE Enclosed(u)
  <2>1. PICK p, q \in 1 .. Len(e) :
           /\ p < q /\ e[p] = BEG /\ e[q] = END
           /\ \A n \in 1 .. Len(e) : n < p \/ n > q => Good(e[n])
    BY <1>4 DEF EnvOK, Enclosed
  <2>2. Good(b)
    BY <1>4 DEF Item
  <2>3. ASSUME NEW n \in 1 .. Len(u), n < p + 1 \/ n > q + 1 PROVE Good(u[n])
    <3>1. CASE n = 1
      BY <1>3, <2>2, <3>1
    <3>2. CASE n # 1
      <4>1. (n - 1) \in 1 .. Len(e) /\ n = (n - 1) + 1 /\ (n - 1 < p \/ n - 1 > q)
        BY <1>2, <1>3, <2>3, <3>2
      <4>2. u[n] = e[n - 1]
        BY <1>3, <4>1
      <4> QED BY <2>1, <4>1, <4>2
    <3> QED BY <3>1, <3>2
  <2>4. p + 1 \in 1 .. Len(u) /\ q + 1 \in 1 .. Len(u) /\ p + 1 < q + 1
        /\ u[p + 1] = BEG /\ u[q + 1] = END
    BY <1>2, <1>3, <2>1
  <2> QED BY <2>3, <2>4 DEF Enclosed
<1> QED BY <1>1, <1>4 DEF EnvOK, u

LEMMA EnvLoad ==
    ASSUME NEW kind, NEW e, EnvOK(kind, e), NEW bs, GoodSeq(bs)
    PROVE  EnvOK(kind, e \o bs)
<1> DEFINE u == e \o bs
<1>1. LooseSeq(u)
  BY LooseSeqs, GoodSeqLoose DEF EnvOK
<1>2. IsSeq(e) /\ Len(e) \in Nat /\ IsSeq(bs) /\ Len(bs) \in Nat
      /\ \A n \in 1 .. Len(bs) : Good(bs[n])
  BY SeqType, RangeIs DEF LooseSeq, EnvOK, GoodSeq
<1>3. /\ Len(u) = Len(e) + Len(bs)
      /\ \A n \in 1 .. Len(e) : u[n] = e[n]
      /\ \A n \in 1 .. Len(bs) : u[Len(e) + n] = bs[n]
  BY <1>2, ConcatSeq
<1> HIDE DEF u
<1>4. ASSUME kind = "exec" PROVE Enclosed(u)
  <2>1. PICK p, q \in 1 .. Len(e) :
           /\ p < q /\ e[p] = BEG /\ e[q] = END
           /\ \A n \in 1 .. Len(e) : n < p \/ n > q => Good(e[n])
    BY <1>4 DEF EnvOK, Enclosed
  <2>2. ASSUME NEW n \in 1 .. Len(u), n < p \/ n > q PROVE Good(u[n])
    <3>1. CASE n <= Len(e)
      <4>1. n \in 1 .. Len(e)
        BY <1>2, <3>1
      <4> QED BY <1>3, <2>1, <2>2, <4>1
    <3>2. CASE n > Len(e)
      <4>1. (n - Len(e)) \in 1 .. Len(bs) /\ n = Len(e) + (n - Len(e))
        BY <1>2, <1>3, <3>2
      <4>2. u[n] = bs[n - Len(e)]
        BY <1>3, <4>1
      <4> QED BY <1>2, <4>1, <4>2
    <3> QED BY <1>2, <3>1, <3>2
  <2>3. p \in 1 .. Len(u) /\ q \in 1 .. Len(u) /\ u[p] = BEG /\ u[q] = END
    BY <1>2, <1>3, <2>1
  <2> QED BY <2>1, <2>2, <2>3 DEF Enclosed
<1> QED BY <1>1, <1>4 DEF EnvOK, u

(* The two scans of oscript_finalizeExec find the frame's own semaphores,  *)
(* and those of ExecFrames the same ones.                                  *)
LEMMA ScansFind ==
    ASSUME NEW e, IsSeq(e), NEW p \in 1 .. Len(e), NEW q \in 1 .. Len(e),
           p < q, e[p] = BEG, e[q] = END,
           \A n \in 1 .. Len(e) : n < p \/ n > q => Good(e[n])
    PROVE  /\ FirstBEG(e) = p /\ LastEND(e) = q
           /\ Frames!FirstBEG(e) = p /\ Frames!LastEND(e) = q
<1>1. DOMAIN e = 1 .. Len(e) /\ Len(e) \in Nat
  BY SeqType
<1>2. IsSemaphore(e[p], "#BEG") /\ IsSemaphore(e[q], "#END")
  BY Semaphores
<1>3. \A n \in 1 .. Len(e) : n < p => ~IsSemaphore(e[n], "#BEG") /\ e[n] # BEG
  BY GoodBinding DEF IsBinding
<1>4. \A n \in 1 .. Len(e) : n > q => ~IsSemaphore(e[n], "#END") /\ e[n] # END
  BY GoodBinding DEF IsBinding
<1>5. FirstBEG(e) = p
  <2> DEFINE I == {n \in 1 .. Len(e) : IsSemaphore(e[n], "#BEG")}
  <2>1. p \in I /\ \A n \in I : p <= n
    BY <1>1, <1>2, <1>3
  <2>2. FirstBEG(e) = Min(I)
    BY <2>1 DEF FirstBEG, SelectInSeq
  <2> HIDE DEF I
  <2>3. I \subseteq Nat
    BY <1>1 DEF I
  <2>4. Min(I) \in I /\ \A n \in I : Min(I) <= n
    BY <2>1 DEF Min
  <2> DEFINE k == Min(I)
  <2> HIDE DEF k
  <2>5. k \in Nat /\ p <= k /\ k <= p
    BY <2>1, <2>3, <2>4 DEF k
  <2>6. Min(I) = p
    BY <1>1, <2>5 DEF k
  <2> QED BY <2>2, <2>6
<1>6. LastEND(e) = q
  <2> DEFINE I == {n \in 1 .. Len(e) : IsSemaphore(e[n], "#END")}
  <2>1. q \in I /\ \A n \in I : q >= n
    BY <1>1, <1>2, <1>4
  <2>2. LastEND(e) = Max(I)
    BY <2>1 DEF LastEND, SelectLastInSeq
  <2> HIDE DEF I
  <2>3. I \subseteq Nat
    BY <1>1 DEF I
  <2>4. Max(I) \in I /\ \A n \in I : Max(I) >= n
    BY <2>1 DEF Max
  <2> DEFINE k == Max(I)
  <2> HIDE DEF k
  <2>5. k \in Nat /\ q >= k /\ k >= q
    BY <2>1, <2>3, <2>4 DEF k
  <2>6. Max(I) = q
    BY <1>1, <2>5 DEF k
  <2> QED BY <2>2, <2>6
<1>7. Frames!FirstBEG(e) = p
  <2> DEFINE First(n) == e[n] = BEG /\ \A i \in 1 .. (n - 1) : e[i] # BEG
  <2>1. p \in DOMAIN e /\ First(p)
    BY <1>1, <1>3
  <2>2. ASSUME NEW n \in DOMAIN e, First(n) PROVE n = p
    <3>1. ~(n < p)
      BY <1>1, <1>3, <2>2
    <3>2. ~(p < n)
      BY <1>1, <2>2
    <3> QED BY <1>1, <3>1, <3>2
  <2>3. Frames!FirstBEG(e) = CHOOSE n \in DOMAIN e : First(n)
    BY DEF Frames!FirstBEG
  <2> HIDE DEF First
  <2> QED BY <2>1, <2>2, <2>3
<1>8. Frames!LastEND(e) = q
  <2> DEFINE Final(n) == e[n] = END /\ \A i \in (n + 1) .. Len(e) : e[i] # END
  <2>1. q \in DOMAIN e /\ Final(q)
    BY <1>1, <1>4
  <2>2. ASSUME NEW n \in DOMAIN e, Final(n) PROVE n = q
    <3>1. ~(n > q)
      BY <1>1, <1>4, <2>2
    <3>2. ~(q > n)
      BY <1>1, <2>2
    <3> QED BY <1>1, <3>1, <3>2
  <2>3. Frames!LastEND(e) = CHOOSE n \in DOMAIN e : Final(n)
    BY DEF Frames!LastEND
  <2> HIDE DEF Final
  <2> QED BY <2>1, <2>2, <2>3
<1> QED BY <1>5, <1>6, <1>7, <1>8

LEMMA EnvOwn ==
    ASSUME NEW e, EnvOK("exec", e)
    PROVE  GoodSeq(OwnElems(e)) /\ OwnElems(e) = Frames!OwnElems(e)
<1>1. IsSeq(e) /\ Len(e) \in Nat
  BY SeqType DEF EnvOK, LooseSeq
<1>2. PICK p, q \in 1 .. Len(e) :
         /\ p < q /\ e[p] = BEG /\ e[q] = END
         /\ \A n \in 1 .. Len(e) : n < p \/ n > q => Good(e[n])
  BY DEF EnvOK, Enclosed
<1>3. /\ FirstBEG(e) = p /\ LastEND(e) = q
      /\ Frames!FirstBEG(e) = p /\ Frames!LastEND(e) = q
  BY <1>1, <1>2, ScansFind
<1> DEFINE front == SubSeq(e, 1, p - 1)
           back == SubSeq(e, q + 1, Len(e))
<1>4. GoodSeq(front)
  <2>1. p - 1 \in Int /\ p - 1 <= Len(e) /\ ((p - 1) - 1) + 1 = p - 1 /\ p - 1 \in Nat
    BY <1>1
  <2>2. /\ IsSeq(front) /\ Len(front) = IF 1 <= p - 1 THEN ((p - 1) - 1) + 1 ELSE 0
        /\ \A i \in 1 .. ((p - 1) - 1) + 1 : front[i] = e[(1 + i) - 1]
    BY <1>1, <2>1, SubSeqRange
  <2> HIDE DEF front
  <2>3. Len(front) = p - 1 /\ \A i \in 1 .. (p - 1) : front[i] = e[i]
    BY <1>1, <2>1, <2>2
  <2>4. \A i \in 1 .. Len(front) : Good(front[i])
    BY <1>1, <1>2, <2>3
  <2> QED BY <2>2, <2>4, RangeIs DEF GoodSeq
<1>5. GoodSeq(back)
  <2>1. q + 1 \in Int /\ Len(e) \in Int /\ 1 <= q + 1
    BY <1>1
  <2>2. /\ IsSeq(back) /\ Len(back) = IF q + 1 <= Len(e) THEN (Len(e) - (q + 1)) + 1 ELSE 0
        /\ \A i \in 1 .. (Len(e) - (q + 1)) + 1 : back[i] = e[((q + 1) + i) - 1]
    BY <1>1, <2>1, SubSeqRange
  <2> HIDE DEF back
  <2>3. Len(back) = Len(e) - q /\ \A i \in 1 .. (Len(e) - q) : back[i] = e[q + i]
    BY <1>1, <2>1, <2>2
  <2>4. \A i \in 1 .. Len(back) : Good(back[i])
    BY <1>1, <1>2, <2>3
  <2> QED BY <2>2, <2>4, RangeIs DEF GoodSeq
<1>6. OwnElems(e) = Reverse(front) \o back
  BY <1>3 DEF OwnElems
<1>7. Frames!OwnElems(e) = Reverse(front) \o back
  BY <1>3 DEF Frames!OwnElems, Frames!Before, Frames!After, Frames!Reverse, Reverse
<1> HIDE DEF front, back
<1> QED BY <1>4, <1>5, <1>6, <1>7, GoodSeqs

-----------------------------------------------------------------------------
(* The phases a frame goes through.                                        *)
FinalizerOf(kind) ==
    IF kind = "exec" THEN FinalizeExecName ELSE FinalizeLambdaName

(* What is left to do, with no finalizer on top of it. *)
Pending(kind, i, c) ==
    IsSeq(i) /\ Pieces(c) /\ Work(kind, i \o c) /\ NotFE(i \o c)

(* Values, and on top of them an environment: that of a frame of the given *)
(* kind, or the arguments of a lambda.                                     *)
Dirty(kind, s) ==
    /\ s # <<>> /\ IsSeq(s) /\ GoodSeq(Front(s))
    /\ Last(s) = Bndl(Last(s).elems) /\ EnvOK(kind, Last(s).elems)

(* The elements and items of a program are worked off; when the finalizer  *)
(* of an element runs, the address is on top of the stack.                 *)
Idle(kind, i, c, s) ==
    /\ IsSeq(i) /\ Pieces(c) /\ GoodSeq(s) /\ Work(kind, i \o c)
    /\ ~NotFE(i \o c) /\ s # <<>> => IsName(kind, Last(s))

(* A bundle's frame is open, its first element not reached. *)
Starting(kind, i, c, s) ==
    /\ c = <<>> /\ s = <<>>
    /\ \E j : ItemsOnly(kind, j) /\ i = Append(j, Msg(FinalizeElemName, <<>>))

(* A frame returned into this one, and its finalizer waits on the input,   *)
(* or on the control; or there is no finalizer, and it is dropped.         *)
Returned(kind, i, c, s) ==
    /\ c = <<>>
    /\ \E k \in Kinds : \E j : /\ i = Append(j, String(FinalizerOf(k)))
                                /\ Pending(kind, j, <<>>) /\ Dirty(k, s)

Finalizing(kind, i, c, s) ==
    \E k \in Kinds : /\ c = Append(<<>>, String(FinalizerOf(k)))
                     /\ Pending(kind, i, <<>>) /\ Dirty(k, s)

Dropping(kind, i, c, s) ==
    \E d : /\ c = Append(d, String("/!/drop"))
           /\ Pending(kind, i, d) /\ Dirty("plain", s)

(* A lambda's arguments are bound. *)
Applying(kind, i, c, s) ==
    \E d : /\ c = Append(d, String("/!/o/execlambdaapp"))
           /\ Pending(kind, i, d) /\ Dirty("plain", s)

(* A file is about to be evaluated, or to be parsed before. *)
ToEvaluate(d) == Append(Append(d, String("/!/drop")), String("/!/exec1"))

Evaluating(kind, i, c, s) ==
    \E d : /\ c = ToEvaluate(d) /\ Pending(kind, i, d)
           /\ GoodSeq(s) /\ s # <<>> /\ IsBndl(Last(s))

Parsing(kind, i, c, s) ==
    \E d : /\ c = Append(ToEvaluate(d), String("/!/o/parse"))
           /\ Pending(kind, i, d)
           /\ GoodSeq(s) /\ s # <<>> /\ Last(s).items[1].val \in DOMAIN ParsedFile

Phase(kind, i, c, s) ==
    \/ Idle(kind, i, c, s) \/ Starting(kind, i, c, s)
    \/ Returned(kind, i, c, s) \/ Finalizing(kind, i, c, s)
    \/ Dropping(kind, i, c, s) \/ Applying(kind, i, c, s)
    \/ Evaluating(kind, i, c, s) \/ Parsing(kind, i, c, s)

(* A frame of the dump, saved in a frame of the given kind. *)
FrameOK(kind, frame) ==
    /\ frame = [input |-> frame.input, env |-> frame.env,
                stack |-> frame.stack, control |-> frame.control]
    /\ GoodSeq(frame.stack) /\ EnvOK(kind, frame.env)
    /\ \/ /\ frame.control = <<>>
          /\ \E k \in Kinds : \E j :
                /\ frame.input = Append(j, String(FinalizerOf(k)))
                /\ Pending(kind, j, <<>>)
       \/ \E d : /\ frame.control = Append(d, String("/!/drop"))
                 /\ Pending(kind, frame.input, d)

(* The kind of the frame in which the n-th one of the dump was saved, and  *)
(* of the one that is evaluated.                                           *)
KindIn(dump, n) == IF n > 1 THEN KindOf(dump[n - 1]) ELSE "plain"
KindNow(dump) == KindIn(dump, Len(dump) + 1)

DumpOK(dump) ==
    IsSeq(dump) /\ \A n \in 1 .. Len(dump) : FrameOK(KindIn(dump, n), dump[n])

Errors == {"OSE_ERR_NONE", "OSE_ERR_ELEM_COUNT", "OSE_ERR_ELEM_TYPE",
           "OSE_ERR_ITEM_TYPE"}

Inv ==
    /\ DumpOK(vm_d)
    /\ EnvOK(KindNow(vm_d), vm_e)
    /\ Phase(KindNow(vm_d), vm_i, vm_c, vm_s)
    /\ LooseSeq(vm_x) /\ GoodSeq(value)
    /\ vm_errno \in Errors
    /\ trapped \in BOOLEAN

-----------------------------------------------------------------------------
LEMMA TopConcat ==
    ASSUME NEW i, NEW c, IsSeq(i), IsSeq(c), c # <<>>
    PROVE  /\ IsSeq(i \o c) /\ i \o c # <<>> /\ Last(i \o c) = Last(c)
           /\ Front(i \o c) = i \o Front(c)
<1> DEFINE d == Front(c)
           e == Last(c)
<1>1. IsSeq(d) /\ c = Append(d, e)
  BY FrontRange
<1>2. c = d \o <<e>>
  BY <1>1, AppendIs
<1>3. IsSeq(<<e>>)
  BY OneIsSeq
<1> HIDE DEF d, e
<1>4. i \o c = (i \o d) \o <<e>>
  BY <1>1, <1>2, <1>3, ConcatGroups
<1>5. IsSeq(i \o d)
  BY <1>1, ConcatSeq
<1>6. i \o c = Append(i \o d, e)
  BY <1>4, <1>5, AppendIs
<1>7. /\ IsSeq(Append(i \o d, e)) /\ Append(i \o d, e) # <<>>
      /\ Last(Append(i \o d, e)) = e /\ Front(Append(i \o d, e)) = i \o d
  BY <1>5, AppendRange
<1> QED BY <1>6, <1>7 DEF d, e

LEMMA AppendConcat ==
    ASSUME NEW i, NEW c, NEW e, IsSeq(i), IsSeq(c)
    PROVE  i \o Append(c, e) = Append(i \o c, e)
<1>1. IsSeq(<<e>>)
  BY OneIsSeq
<1>2. Append(c, e) = c \o <<e>>
  BY AppendIs
<1>3. IsSeq(i \o c)
  BY ConcatSeq
<1>4. Append(i \o c, e) = (i \o c) \o <<e>>
  BY <1>3, AppendIs
<1> QED BY <1>1, <1>2, <1>4, ConcatGroups

(* A native on top of a control. *)
LEMMA NativeOnTop ==
    ASSUME NEW d, NEW x, IsSeq(d)
    PROVE  /\ IsSeq(Append(d, String(x))) /\ Append(d, String(x)) # <<>>
           /\ Front(Append(d, String(x))) = d
           /\ Last(Append(d, String(x))) = String(x)
           /\ \A y : Last(Append(d, String(x))) = String(y) => y = x
<1>1. /\ IsSeq(Append(d, String(x))) /\ Append(d, String(x)) # <<>>
      /\ Front(Append(d, String(x))) = d
      /\ Last(Append(d, String(x))) = String(x)
  BY AppendRange
<1>2. \A y : String(x) = String(y) => y = x
  BY StringKind
<1> QED BY <1>1, <1>2

LEMMA PendingIdle ==
    ASSUME NEW kind, NEW i, NEW c, NEW s, Pending(kind, i, c), GoodSeq(s)
    PROVE  Idle(kind, i, c, s)
BY DEF Pending, Idle

(* The phase that a native runs in.                                        *)
LEMMA InternalRuns ==
    ASSUME NEW kind, NEW i, NEW c, NEW s, Idle(kind, i, c, s),
           c # <<>>, NEW x \in Internal, Last(c) = String(x)
    PROVE  x \in {FinalizeElemName, FinalizeTopLevelName}
<1>1. IsSeq(i) /\ IsSeq(c) /\ Work(kind, i \o c)
  BY DEF Idle, Pieces
<1>2. i \o c # <<>> /\ Last(i \o c) = String(x)
  BY <1>1, TopConcat
<1>3. Item(kind, String(x)) \/ String(x) \in Marks
  BY <1>1, <1>2, WorkFront
<1>4. String(x) = FE \/ String(x) = TL
  BY <1>3, ItemString DEF Marks
<1> QED BY <1>4, StringKind DEF FE, TL

LEMMA NativeRuns ==
    ASSUME NEW kind, NEW i, NEW c, NEW s, Idle(kind, i, c, s),
           c # <<>>, NEW x \in Natives, x \notin Internal, Last(c) = String(x)
    PROVE  Pending(kind, i, Front(c)) /\ GoodSeq(s)
<1>1. IsSeq(i) /\ IsSeq(c) /\ Work(kind, i \o c) /\ Pieces(c) /\ GoodSeq(s)
  BY DEF Idle, Pieces
<1>2. i \o c # <<>> /\ Last(i \o c) = String(x) /\ Front(i \o c) = i \o Front(c)
  BY <1>1, TopConcat
<1>3. ~Addressed(kind, String(x))
  BY AddressedString
<1>4. Work(kind, i \o Front(c)) /\ NotFE(i \o Front(c))
  BY <1>1, <1>2, <1>3, WorkFront
<1>5. Pieces(Front(c))
  BY <1>1, PiecesSeqs
<1> QED BY <1>1, <1>4, <1>5 DEF Pending

LEMMA MarkRuns ==
    ASSUME NEW kind, NEW i, NEW c, NEW s, Idle(kind, i, c, s),
           c # <<>>, Last(c) \in Marks
    PROVE  /\ ItemsOnly(kind, i \o Front(c)) /\ Pieces(Front(c)) /\ IsSeq(i)
           /\ GoodSeq(s)
           /\ Last(c) = FE /\ s # <<>> => IsName(kind, Last(s))
<1>1. IsSeq(i) /\ IsSeq(c) /\ Work(kind, i \o c) /\ Pieces(c) /\ GoodSeq(s)
  BY DEF Idle, Pieces
<1>2. i \o c # <<>> /\ Last(i \o c) = Last(c) /\ Front(i \o c) = i \o Front(c)
  BY <1>1, TopConcat
<1>3. ItemsOnly(kind, i \o Front(c))
  BY <1>1, <1>2, WorkMark
<1>4. Pieces(Front(c))
  BY <1>1, PiecesSeqs
<1>5. Last(c) = FE /\ s # <<>> => IsName(kind, Last(s))
  BY <1>2 DEF Idle, NotFE
<1> QED BY <1>1, <1>3, <1>4, <1>5

(* Which of them leave no choice. *)
LEMMA PhaseOf ==
    ASSUME NEW kind, NEW i, NEW c, NEW s, Phase(kind, i, c, s),
           c # <<>>, NEW x, Last(c) = String(x)
    PROVE  /\ x \notin Internal \/ x \in {FinalizeElemName, FinalizeTopLevelName} =>
                 Idle(kind, i, c, s)
           /\ x \in {FinalizeExecName, FinalizeLambdaName} => Finalizing(kind, i, c, s)
           /\ x = "/!/drop" => Dropping(kind, i, c, s)
           /\ x = "/!/o/execlambdaapp" => Applying(kind, i, c, s)
           /\ x = "/!/exec1" => Evaluating(kind, i, c, s)
           /\ x = "/!/o/parse" => Parsing(kind, i, c, s)
<1>1. Finalizing(kind, i, c, s) => x \in {FinalizeExecName, FinalizeLambdaName}
  <2>1. ASSUME NEW k \in Kinds, c = Append(<<>>, String(FinalizerOf(k)))
        PROVE  x = FinalizerOf(k)
    BY <2>1, NativeOnTop, EmptyIsSeq
  <2> QED BY <2>1 DEF Finalizing, FinalizerOf
<1>2. ASSUME NEW d, NEW y, Pieces(d), c = Append(d, String(y)) PROVE x = y
  BY <1>2, NativeOnTop DEF Pieces
<1>3. Dropping(kind, i, c, s) => x = "/!/drop"
  BY <1>2 DEF Dropping, Pending
<1>4. Applying(kind, i, c, s) => x = "/!/o/execlambdaapp"
  BY <1>2 DEF Applying, Pending
<1>5. ASSUME NEW d, Pieces(d) PROVE Pieces(ToEvaluate(d))
  BY <1>5, PiecesSeqs, StringPiece DEF ToEvaluate
<1>6. Evaluating(kind, i, c, s) => x = "/!/exec1"
  <2>1. ASSUME NEW d, Pieces(d), c = ToEvaluate(d) PROVE x = "/!/exec1"
    <3>1. Pieces(Append(d, String("/!/drop")))
      BY <2>1, PiecesSeqs, StringPiece
    <3> QED BY <1>2, <2>1, <3>1 DEF ToEvaluate
  <2> QED BY <2>1 DEF Evaluating, Pending
<1>7. Parsing(kind, i, c, s) => x = "/!/o/parse"
  BY <1>2, <1>5 DEF Parsing, Pending
<1>8. ~Starting(kind, i, c, s) /\ ~Returned(kind, i, c, s)
  BY DEF Starting, Returned
<1>9. x \in Internal /\ Idle(kind, i, c, s) =>
         x \in {FinalizeElemName, FinalizeTopLevelName}
  BY InternalRuns
<1>10. /\ FinalizeExecName \in Internal /\ FinalizeLambdaName \in Internal
       /\ "/!/drop" \in Internal /\ "/!/o/execlambdaapp" \in Internal
       /\ "/!/exec1" \in Internal /\ "/!/o/parse" \in Internal
  BY DEF Internal
<1>11. \A y \in {FinalizeExecName, FinalizeLambdaName, "/!/drop", "/!/o/execlambdaapp",
                 "/!/exec1", "/!/o/parse"} :
          y \notin {FinalizeElemName, FinalizeTopLevelName}
  BY DEF FinalizeElemName, FinalizeExecName, FinalizeLambdaName, FinalizeTopLevelName
<1>12. x \in {FinalizeExecName, FinalizeLambdaName} =>
          x \notin {"/!/drop", "/!/o/execlambdaapp", "/!/exec1", "/!/o/parse"}
  BY DEF FinalizeExecName, FinalizeLambdaName
<1>13. \/ Idle(kind, i, c, s) \/ Finalizing(kind, i, c, s)
       \/ Dropping(kind, i, c, s) \/ Applying(kind, i, c, s)
       \/ Evaluating(kind, i, c, s) \/ Parsing(kind, i, c, s)
  BY <1>8 DEF Phase
<1>14. x \notin Internal \/ x \in {FinalizeElemName, FinalizeTopLevelName} =>
          Idle(kind, i, c, s)
  BY <1>1, <1>3, <1>4, <1>6, <1>7, <1>10, <1>11, <1>13
<1>15. x \in {FinalizeExecName, FinalizeLambdaName} => Finalizing(kind, i, c, s)
  BY <1>3, <1>4, <1>6, <1>7, <1>9, <1>10, <1>11, <1>12, <1>13
<1>16. x = "/!/drop" => Dropping(kind, i, c, s)
  BY <1>1, <1>4, <1>6, <1>7, <1>9, <1>10, <1>11, <1>12, <1>13
<1>17. x = "/!/o/execlambdaapp" => Applying(kind, i, c, s)
  BY <1>1, <1>3, <1>6, <1>7, <1>9, <1>10, <1>11, <1>12, <1>13
<1>18. x = "/!/exec1" => Evaluating(kind, i, c, s)
  BY <1>1, <1>3, <1>4, <1>7, <1>9, <1>10, <1>11, <1>12, <1>13
<1>19. x = "/!/o/parse" => Parsing(kind, i, c, s)
  BY <1>1, <1>3, <1>4, <1>6, <1>9, <1>10, <1>11, <1>12, <1>13
<1> QED BY <1>14, <1>15, <1>16, <1>17, <1>18, <1>19

-----------------------------------------------------------------------------
(* What ExecFrames sees of the dump, and of an environment returned.       *)
ShownFrame(frame) == [kind |-> KindOf(frame), env |-> frame.env]
Shown(dump) == [n \in DOMAIN dump |-> ShownFrame(dump[n])]

Waits(i, c) ==
    \/ c # <<>> /\ Last(c) = String(FinalizeExecName)
    \/ c = <<>> /\ i # <<>> /\ Last(i) = String(FinalizeExecName)

LEMMA ShownIs ==
    ASSUME NEW d, IsSeq(d)
    PROVE  /\ IsSeq(Shown(d)) /\ Len(Shown(d)) = Len(d)
           /\ \A n \in 1 .. Len(d) : Shown(d)[n] = ShownFrame(d[n])
<1> DEFINE u == Shown(d)
<1>1. Len(d) \in Nat /\ DOMAIN d = 1 .. Len(d)
  BY SeqType
<1>2. u = [n \in 1 .. Len(d) |-> ShownFrame(d[n])]
  BY <1>1 DEF Shown
<1> HIDE DEF u
<1>3. u \in [1 .. Len(d) -> Range(u)]
  BY <1>2 DEF Range
<1>4. u \in Seq(Range(u)) /\ Len(u) = Len(d)
  BY <1>1, <1>3
<1> QED BY <1>2, <1>4 DEF IsSeq, u

LEMMA KindsPush ==
    ASSUME NEW d, IsSeq(d), NEW frame
    PROVE  /\ \A n \in 1 .. Len(d) + 1 : KindIn(Append(d, frame), n) = KindIn(d, n)
           /\ KindNow(Append(d, frame)) = KindOf(frame)
<1> DEFINE e == Append(d, frame)
<1>1. /\ Len(d) \in Nat /\ Len(e) = Len(d) + 1
      /\ \A n \in 1 .. Len(d) : e[n] = d[n]
      /\ e[Len(d) + 1] = frame
  BY AppendSeq, SeqType
<1> HIDE DEF e
<1>2. ASSUME NEW n \in 1 .. Len(d) + 1 PROVE KindIn(e, n) = KindIn(d, n)
  <2>1. n > 1 => (n - 1) \in 1 .. Len(d)
    BY <1>1
  <2> QED BY <1>1, <2>1 DEF KindIn
<1>3. KindNow(e) = KindOf(frame)
  <2>1. Len(e) + 1 > 1 /\ (Len(e) + 1) - 1 = Len(d) + 1
    BY <1>1
  <2> QED BY <1>1, <2>1 DEF KindNow, KindIn
<1> QED BY <1>2, <1>3 DEF e

LEMMA KindsPop ==
    ASSUME NEW d, IsSeq(d), d # <<>>
    PROVE  \A n \in 1 .. Len(d) : KindIn(Front(d), n) = KindIn(d, n)
<1> DEFINE e == Front(d)
<1>1. Len(d) \in Nat /\ \A n \in 1 .. Len(d) - 1 : e[n] = d[n]
  BY FrontSeq
<1> HIDE DEF e
<1>2. ASSUME NEW n \in 1 .. Len(d) PROVE KindIn(e, n) = KindIn(d, n)
  <2>1. n > 1 => (n - 1) \in 1 .. Len(d) - 1
    BY <1>1
  <2> QED BY <1>1, <2>1 DEF KindIn
<1> QED BY <1>2 DEF e

LEMMA DumpPush ==
    ASSUME NEW d, DumpOK(d), NEW frame, FrameOK(KindNow(d), frame)
    PROVE  /\ DumpOK(Append(d, frame))
           /\ KindNow(Append(d, frame)) = KindOf(frame)
           /\ Shown(Append(d, frame)) = Append(Shown(d), ShownFrame(frame))
<1> DEFINE e == Append(d, frame)
<1>1. IsSeq(d) /\ Len(d) \in Nat
  BY SeqType DEF DumpOK
<1>2. /\ IsSeq(e) /\ Len(e) = Len(d) + 1
      /\ \A n \in 1 .. Len(d) : e[n] = d[n]
      /\ e[Len(d) + 1] = frame
  BY <1>1, AppendSeq
<1>3. /\ \A n \in 1 .. Len(d) + 1 : KindIn(e, n) = KindIn(d, n)
      /\ KindNow(e) = KindOf(frame)
  BY <1>1, KindsPush
<1> HIDE DEF e
<1>4. KindIn(e, Len(d) + 1) = KindNow(d) /\ \A n \in 1 .. Len(d) : n \in 1 .. Len(d) + 1
  BY <1>1, <1>3 DEF KindNow
<1>5. ASSUME NEW n \in 1 .. Len(e) PROVE FrameOK(KindIn(e, n), e[n])
  <2>1. n \in 1 .. Len(d) \/ n = Len(d) + 1
    BY <1>1, <1>2
  <2> QED BY <1>2, <1>3, <1>4, <2>1 DEF DumpOK
<1>6. DumpOK(e)
  BY <1>2, <1>5 DEF DumpOK
<1>7. Shown(e) = Append(Shown(d), ShownFrame(frame))
  <2> DEFINE u == Append(Shown(d), ShownFrame(frame))
  <2>1. /\ IsSeq(Shown(d)) /\ Len(Shown(d)) = Len(d)
        /\ \A n \in 1 .. Len(d) : Shown(d)[n] = ShownFrame(d[n])
    BY <1>1, ShownIs
  <2>2. /\ IsSeq(Shown(e)) /\ Len(Shown(e)) = Len(e)
        /\ \A n \in 1 .. Len(e) : Shown(e)[n] = ShownFrame(e[n])
    BY <1>2, ShownIs
  <2>3. /\ IsSeq(u) /\ Len(u) = Len(Shown(d)) + 1
        /\ \A n \in 1 .. Len(Shown(d)) : u[n] = Shown(d)[n]
        /\ u[Len(Shown(d)) + 1] = ShownFrame(frame)
    BY <2>1, AppendSeq
  <2> HIDE DEF u
  <2>4. ASSUME NEW n \in 1 .. Len(e) PROVE Shown(e)[n] = u[n]
    <3>1. n \in 1 .. Len(d) \/ n = Len(d) + 1
      BY <1>1, <1>2
    <3> QED BY <1>2, <2>1, <2>2, <2>3, <3>1
  <2>5. Len(u) = Len(Shown(e))
    BY <1>2, <2>1, <2>2, <2>3
  <2>6. Shown(e) = u
    BY <2>2, <2>3, <2>4, <2>5, SameSeq
  <2> QED BY <2>6 DEF u
<1> QED BY <1>3, <1>6, <1>7 DEF e

LEMMA DumpPop ==
    ASSUME NEW d, DumpOK(d), d # <<>>
    PROVE  /\ DumpOK(Front(d))
           /\ FrameOK(KindNow(Front(d)), Last(d))
           /\ KindNow(d) = KindOf(Last(d))
           /\ Shown(d) # <<>> /\ Shown(d)[Len(Shown(d))] = ShownFrame(Last(d))
           /\ SubSeq(Shown(d), 1, Len(Shown(d)) - 1) = Shown(Front(d))
<1> DEFINE e == Front(d)
<1>1. IsSeq(d) /\ Len(d) \in Nat /\ Len(d) >= 1 /\ Last(d) = d[Len(d)]
  BY NotEmpty DEF DumpOK
<1>2. /\ IsSeq(e) /\ Len(e) = Len(d) - 1
      /\ \A n \in 1 .. Len(d) - 1 : e[n] = d[n]
  BY <1>1, FrontSeq
<1>3. \A n \in 1 .. Len(d) : KindIn(e, n) = KindIn(d, n)
  BY <1>1, KindsPop
<1> HIDE DEF e
<1>4. \A n \in 1 .. Len(e) : n \in 1 .. Len(d) /\ e[n] = d[n]
  BY <1>1, <1>2
<1>5. DumpOK(e)
  BY <1>2, <1>3, <1>4 DEF DumpOK
<1>6. FrameOK(KindNow(e), Last(d))
  <2>1. Len(d) \in 1 .. Len(d) /\ Len(e) + 1 = Len(d)
    BY <1>1, <1>2
  <2> QED BY <1>1, <1>3, <2>1 DEF KindNow, DumpOK
<1>7. KindNow(d) = KindOf(Last(d))
  <2>1. Len(d) + 1 > 1 /\ (Len(d) + 1) - 1 = Len(d)
    BY <1>1
  <2> QED BY <1>1, <2>1 DEF KindNow, KindIn
<1>8. /\ IsSeq(Shown(d)) /\ Len(Shown(d)) = Len(d)
      /\ \A n \in 1 .. Len(d) : Shown(d)[n] = ShownFrame(d[n])
  BY <1>1, ShownIs
<1>9. Shown(d) # <<>> /\ Shown(d)[Len(Shown(d))] = ShownFrame(Last(d))
  <2>1. Len(d) \in 1 .. Len(d)
    BY <1>1
  <2> QED BY <1>1, <1>8, <2>1, EmptyIsSeq
<1>10. SubSeq(Shown(d), 1, Len(Shown(d)) - 1) = Shown(e)
  <2> DEFINE u == Front(Shown(d))
  <2>1. /\ IsSeq(u) /\ Len(u) = Len(Shown(d)) - 1
        /\ \A n \in 1 .. Len(Shown(d)) - 1 : u[n] = Shown(d)[n]
    BY <1>8, <1>9, FrontSeq
  <2>2. /\ IsSeq(Shown(e)) /\ Len(Shown(e)) = Len(e)
        /\ \A n \in 1 .. Len(e) : Shown(e)[n] = ShownFrame(e[n])
    BY <1>2, ShownIs
  <2>3. u = SubSeq(Shown(d), 1, Len(Shown(d)) - 1)
    BY DEF Front
  <2> HIDE DEF u
  <2>4. Len(u) = Len(Shown(e)) /\ \A n \in 1 .. Len(u) : u[n] = Shown(e)[n]
    BY <1>2, <1>4, <1>8, <2>1, <2>2
  <2> QED BY <2>1, <2>2, <2>3, <2>4, SameSeq
<1> QED BY <1>5, <1>6, <1>7, <1>9, <1>10 DEF e

LEMMA KindOfFrames ==
    /\ \A frame : KindOf(frame) \in Kinds
    /\ \A d : KindNow(d) \in Kinds
    /\ \A k \in Kinds : \A j, frame :
          IsSeq(j) /\ frame.input = Append(j, String(FinalizerOf(k))) =>
             KindOf(frame) = k
    /\ \A kind, d, frame : Pending(kind, frame.input, d) => KindOf(frame) = "plain"
<1>1. \A frame : KindOf(frame) \in Kinds
  BY DEF KindOf, Kinds
<1>2. \A d : KindNow(d) \in Kinds
  BY <1>1 DEF KindNow, KindIn, Kinds
<1>3. ASSUME NEW k \in Kinds, NEW j, NEW frame, IsSeq(j),
             frame.input = Append(j, String(FinalizerOf(k)))
      PROVE  KindOf(frame) = k
  <2>1. frame.input # <<>> /\ Last(frame.input) = String(FinalizerOf(k))
    BY <1>3, NativeOnTop
  <2>2. String(FinalizerOf(k)) = String(FinalizeExecName) => FinalizerOf(k) = FinalizeExecName
    BY StringKind
  <2>3. FinalizerOf(k) = FinalizeExecName <=> k = "exec"
    BY DEF FinalizerOf, Kinds, FinalizeExecName, FinalizeLambdaName
  <2> QED BY <2>1, <2>2, <2>3 DEF KindOf, Kinds
<1>4. ASSUME NEW kind, NEW d, NEW frame, Pending(kind, frame.input, d)
      PROVE  KindOf(frame) = "plain"
  <2> DEFINE i == frame.input
             f == String(FinalizeExecName)
  <2> HIDE DEF i, f
  <2>1. IsSeq(i) /\ IsSeq(d) /\ Work(kind, i \o d)
    BY <1>4 DEF Pending, Pieces, i
  <2>2. f \notin Marks /\ ~Item(kind, f)
    BY ItemString, StringKind DEF Marks, f, FE, TL, Internal, FinalizeExecName,
           FinalizeElemName, FinalizeTopLevelName
  <2>3. ASSUME i # <<>>, Last(i) = f PROVE FALSE
    <3>1. Len(i) \in 1 .. Len(i) /\ i[Len(i)] = f
      BY <2>1, <2>3, NotEmpty
    <3>2. (i \o d)[Len(i)] = f /\ Len(i) \in 1 .. Len(i \o d)
      <4>1. Len(i) \in Nat /\ Len(d) \in Nat /\ Len(i \o d) = Len(i) + Len(d)
            /\ \A n \in 1 .. Len(i) : (i \o d)[n] = i[n]
        BY <2>1, ConcatSeq, SeqType
      <4> QED BY <3>1, <4>1
    <3> QED BY <2>1, <2>2, <3>2 DEF Work
  <2> QED BY <2>3 DEF KindOf, i, f
<1> QED BY <1>1, <1>2, <1>3, <1>4

-----------------------------------------------------------------------------
(* No environment was returned. *)
LEMMA Calm ==
    ASSUME NEW kind, NEW i, NEW c, NEW s,
           \/ Idle(kind, i, c, s) \/ Starting(kind, i, c, s)
           \/ Dropping(kind, i, c, s) \/ Applying(kind, i, c, s)
           \/ Evaluating(kind, i, c, s) \/ Parsing(kind, i, c, s)
    PROVE  ~Waits(i, c)
<1> DEFINE f == String(FinalizeExecName)
<1>0. f \notin Marks /\ ~Item(kind, f)
  BY ItemString, StringKind DEF Marks, FE, TL, Internal, FinalizeExecName,
         FinalizeElemName, FinalizeTopLevelName
<1>f. f.addr = ""
  BY StringKind
<1> HIDE DEF f
<1>1. CASE Idle(kind, i, c, s)
  <2>1. IsSeq(i) /\ IsSeq(c) /\ Work(kind, i \o c)
    BY <1>1 DEF Idle, Pieces
  <2>2. \A w : Work(kind, w) /\ w # <<>> => Last(w) # f
    BY <1>0, WorkFront
  <2>3. c # <<>> => Last(c) # f
    <3>1. c # <<>> => i \o c # <<>> /\ Last(i \o c) = Last(c)
      BY <2>1, TopConcat
    <3> QED BY <2>1, <2>2, <3>1
  <2>4. c = <<>> /\ i # <<>> => Last(i) # f
    BY <2>1, <2>2, EmptyBehind
  <2> QED BY <2>3, <2>4 DEF Waits, f
<1>2. CASE Starting(kind, i, c, s)
  <2>1. PICK j : ItemsOnly(kind, j) /\ i = Append(j, Msg(FinalizeElemName, <<>>))
    BY <1>2 DEF Starting
  <2>2. Last(i) = Msg(FinalizeElemName, <<>>)
    BY <2>1, AppendRange DEF ItemsOnly
  <2>3. Last(i).addr = FinalizeElemName
    BY <2>2, MsgKind
  <2>4. Last(i) # f
    BY <1>f, <2>3 DEF FinalizeElemName
  <2> QED BY <1>2, <2>4 DEF Starting, Waits, f
<1>3. ASSUME NEW d, NEW x, Pieces(d), c = Append(d, String(x)), x # FinalizeExecName
      PROVE  ~Waits(i, c)
  BY <1>3, NativeOnTop DEF Waits, Pieces
<1>4. /\ "/!/drop" # FinalizeExecName /\ "/!/o/execlambdaapp" # FinalizeExecName
      /\ "/!/exec1" # FinalizeExecName /\ "/!/o/parse" # FinalizeExecName
  BY DEF FinalizeExecName
<1>5. ASSUME NEW d, Pieces(d)
      PROVE  Pieces(Append(d, String("/!/drop"))) /\ Pieces(ToEvaluate(d))
  BY <1>5, PiecesSeqs, StringPiece DEF ToEvaluate
<1>6. CASE Dropping(kind, i, c, s)
  BY <1>3, <1>4, <1>6 DEF Dropping, Pending
<1>7. CASE Applying(kind, i, c, s)
  BY <1>3, <1>4, <1>7 DEF Applying, Pending
<1>8. CASE Evaluating(kind, i, c, s)
  <2>1. PICK d : c = ToEvaluate(d) /\ Pieces(d)
    BY <1>8 DEF Evaluating, Pending
  <2> QED BY <1>3, <1>4, <1>5, <2>1 DEF ToEvaluate
<1>9. CASE Parsing(kind, i, c, s)
  <2>1. PICK d : c = Append(ToEvaluate(d), String("/!/o/parse")) /\ Pieces(d)
    BY <1>9 DEF Parsing, Pending
  <2> QED BY <1>3, <1>4, <1>5, <2>1
<1> QED BY <1>1, <1>2, <1>6, <1>7, <1>8, <1>9

(* Nothing on the control. *)
LEMMA EmptyPhase ==
    ASSUME NEW kind, NEW i, NEW s, Phase(kind, i, <<>>, s)
    PROVE  \/ Idle(kind, i, <<>>, s) \/ Starting(kind, i, <<>>, s)
           \/ Returned(kind, i, <<>>, s)
<1>1. ASSUME NEW d, NEW x, Pieces(d) PROVE <<>> # Append(d, String(x))
  BY <1>1, NativeOnTop DEF Pieces
<1>2. ~Finalizing(kind, i, <<>>, s)
  BY <1>1, PiecesSeqs DEF Finalizing
<1>3. ~Dropping(kind, i, <<>>, s) /\ ~Applying(kind, i, <<>>, s)
  BY <1>1 DEF Dropping, Applying, Pending
<1>4. \A d : Pieces(d) => Pieces(Append(d, String("/!/drop"))) /\ Pieces(ToEvaluate(d))
  BY PiecesSeqs, StringPiece DEF ToEvaluate
<1>5. ~Evaluating(kind, i, <<>>, s) /\ ~Parsing(kind, i, <<>>, s)
  BY <1>1, <1>4 DEF Evaluating, Parsing, Pending, ToEvaluate
<1> QED BY <1>2, <1>3, <1>5 DEF Phase

(* PopInput *)
LEMMA PopPhase ==
    ASSUME NEW kind, NEW i, NEW s, Phase(kind, i, <<>>, s), i # <<>>
    PROVE  /\ Phase(kind, Front(i), Expand(Last(i)), s)
           /\ Waits(Front(i), Expand(Last(i))) <=> Waits(i, <<>>)
<1>1. CASE Idle(kind, i, <<>>, s)
  <2> DEFINE j == Front(i)
             e == Last(i)
             t == Expand(e)
  <2>1. IsSeq(i) /\ Work(kind, i) /\ GoodSeq(s) /\ i \o <<>> = i
        /\ (~NotFE(i) /\ s # <<>> => IsName(kind, Last(s)))
    BY <1>1, EmptyBehind DEF Idle
  <2>2. /\ IsSeq(j) /\ Work(kind, j) /\ i = Append(j, e)
        /\ Item(kind, e) \/ e \in Marks
        /\ ~NotFE(j) => Addressed(kind, e)
    BY <2>1, WorkFront, FrontRange
  <2> HIDE DEF j, e
  <2>3. ASSUME e \in Marks PROVE Idle(kind, j, t, s)
    <3>1. t = <<e>>
      BY <2>3, ExpandString DEF Marks, FE, TL
    <3>2. j \o <<e>> = i
      BY <2>2, AppendIs
    <3>3. Pieces(<<e>>)
      BY <2>3, PiecesSeqs, StringPiece DEF Marks, FE, TL
    <3> QED BY <2>1, <2>2, <3>1, <3>2, <3>3 DEF Idle
  <2>4. ASSUME Item(kind, e) PROVE Idle(kind, j, t, s)
    <3>1. GoodSeq(t) /\ Pieces(t) /\ ItemsOnly(kind, t)
      BY <2>4, ExpandItem, ItemsOnlySeqs
    <3>2. ~NotFE(j) => t # <<>> /\ Addressed(kind, t[1])
      BY <2>2, <2>4, ExpandAddressed
    <3> HIDE DEF t
    <3>3. ASSUME t = <<>> PROVE Idle(kind, j, t, s)
      <4>1. j \o t = j
        BY <2>2, <3>3, EmptyBehind
      <4> QED BY <2>1, <2>2, <3>1, <3>2, <3>3, <4>1 DEF Idle
    <3>4. ASSUME t # <<>> PROVE Idle(kind, j, t, s)
      <4>1. Work(kind, j \o t) /\ NotFE(j \o t)
        BY <2>2, <3>1, <3>2, <3>4, WorkItems
      <4> QED BY <2>1, <2>2, <3>1, <4>1 DEF Idle
    <3>5. Idle(kind, j, t, s)
      BY <3>3, <3>4
    <3> QED BY <3>5 DEF t
  <2>5. Idle(kind, j, t, s)
    BY <2>2, <2>3, <2>4
  <2>6. ~Waits(i, <<>>) /\ ~Waits(j, t)
    BY <1>1, <2>5, Calm
  <2> QED BY <2>5, <2>6 DEF Phase, j, e
<1>2. CASE Starting(kind, i, <<>>, s)
  <2>1. PICK j : ItemsOnly(kind, j) /\ i = Append(j, Msg(FinalizeElemName, <<>>))
    BY <1>2 DEF Starting
  <2>2. Front(i) = j /\ Expand(Last(i)) = <<FE>> /\ IsSeq(j)
    BY <2>1, AppendRange, ExpandFinalizer DEF ItemsOnly
  <2>3. Work(kind, Append(j, FE)) /\ Append(j, FE) = j \o <<FE>>
    BY <2>1, <2>2, MarkWork, MarkNames, AppendIs
  <2>4. Pieces(<<FE>>) /\ GoodSeq(s) /\ s = <<>>
    BY <1>2, PiecesSeqs, StringPiece, GoodSeqs DEF FE, Starting
  <2>5. Idle(kind, j, <<FE>>, s)
    BY <2>2, <2>3, <2>4 DEF Idle
  <2>6. ~Waits(i, <<>>) /\ ~Waits(j, <<FE>>)
    BY <1>2, <2>5, Calm
  <2> QED BY <2>2, <2>5, <2>6 DEF Phase
<1>3. CASE Returned(kind, i, <<>>, s)
  <2>0. PICK k \in Kinds : \E j : /\ i = Append(j, String(FinalizerOf(k)))
                                   /\ Pending(kind, j, <<>>) /\ Dirty(k, s)
    BY <1>3 DEF Returned
  <2>1. PICK j : /\ i = Append(j, String(FinalizerOf(k)))
                 /\ Pending(kind, j, <<>>) /\ Dirty(k, s)
    BY <2>0
  <2> DEFINE f == String(FinalizerOf(k))
  <2>2. IsSeq(j) /\ Front(i) = j /\ Last(i) = f /\ Expand(f) = <<f>>
    BY <2>1, AppendRange, ExpandString DEF Pending
  <2>3. <<f>> = Append(<<>>, f)
    OBVIOUS
  <2>4. Finalizing(kind, j, <<f>>, s)
    BY <2>1, <2>3 DEF Finalizing
  <2>5. <<f>> # <<>> /\ Last(<<f>>) = f
    BY OneIsSeq, EmptyIsSeq DEF Last
  <2>6. Waits(i, <<>>) <=> f = String(FinalizeExecName)
    BY <2>2 DEF Waits
  <2>7. Waits(j, <<f>>) <=> f = String(FinalizeExecName)
    BY <2>5 DEF Waits
  <2> QED BY <2>2, <2>4, <2>6, <2>7 DEF Phase
<1> QED BY <1>1, <1>2, <1>3, EmptyPhase

-----------------------------------------------------------------------------
(* What the natives leave on the stack.                                    *)
LEMMA GoodDrop ==
    ASSUME NEW s, GoodSeq(s), NEW n \in Nat PROVE GoodSeq(DropTop(s, n))
<1>1. IsSeq(s) /\ Len(s) \in Nat /\ (Len(s) - n) \in Int /\ Len(s) - n <= Len(s)
  BY SeqType DEF GoodSeq
<1>2. IsSeq(SubSeq(s, 1, Len(s) - n)) /\ Range(SubSeq(s, 1, Len(s) - n)) \subseteq Range(s)
  BY <1>1, SubSeqRange
<1> QED BY <1>2 DEF GoodSeq, DropTop

LEMMA GoodFront == ASSUME NEW s, GoodSeq(s) PROVE GoodSeq(Front(s))
<1>1. Front(s) = DropTop(s, 1)
  BY DEF Front, DropTop
<1> QED BY <1>1, GoodDrop

LEMMA GoodFromTop ==
    ASSUME NEW s, GoodSeq(s), NEW n \in Nat, n < Len(s) PROVE Good(FromTop(s, n))
<1>1. IsSeq(s) /\ (Len(s) - n) \in 1 .. Len(s)
  BY SeqType DEF GoodSeq
<1>2. s[Len(s) - n] \in Range(s)
  BY <1>1, RangeIs
<1> QED BY <1>2 DEF GoodSeq, FromTop

(* What a message carries as a blob, a bundle or a lambda. *)
LEMMA GoodCarried ==
    ASSUME NEW e, Good(e), ~IsBndl(e), ArgType(e) \in {"b", "B", "L"}
    PROVE  e.items # <<>> /\ GoodSeq(Last(e.items).elems)
<1>1. e.items # <<>> /\ ArgType(e) = Last(e.items).tt
  BY DEF ArgType
<1>2. GoodItem(Last(e.items))
  BY <1>1, GoodForm, GoodItemsSeqs
<1> QED BY <1>1, <1>2, GoodItemForm

LEMMA GoodFirstCarried ==
    ASSUME NEW e, Good(e), ~IsBndl(e), e.items # <<>>, e.items[1].tt \in {"b", "B", "L"}
    PROVE  GoodSeq(e.items[1].elems)
<1>1. GoodItem(e.items[1])
  BY GoodForm, GoodItemsSeqs
<1> QED BY <1>1, GoodItemForm

LEMMA GoodUnpack ==
    ASSUME NEW s, GoodSeq(s), s # <<>> PROVE GoodSeq(UnpackDrop(s))
BY GoodSeqs, GoodParts DEF UnpackDrop

LEMMA GoodPop ==
    ASSUME NEW s, GoodSeq(s), s # <<>>, Parts(Last(s)) # <<>>
    PROVE  GoodSeq(Pop(s)) /\ Len(Pop(s)) >= 2 /\ Pop(s) # <<>>
<1> DEFINE e == Last(s)
           n == Len(Parts(e))
           u == SubElem(e, 1, n - 1)
           v == Parts(e)[n]
           t == Front(s)
<1>1. GoodSeq(t) /\ Good(e) /\ IsSeq(t) /\ Len(t) \in Nat
  BY GoodSeqs, SeqType DEF GoodSeq
<1>2. GoodSeq(Parts(e)) /\ \A i \in 1 .. Len(Parts(e)) : Good(Parts(e)[i])
  BY <1>1, GoodParts
<1>3. n \in Nat /\ n >= 1
  BY <1>2, NotEmpty DEF GoodSeq
<1>4. Good(v)
  BY <1>2, <1>3
<1>5. Good(u)
  <2>1. n - 1 \in Int /\ n - 1 <= n
    BY <1>3
  <2> QED BY <1>1, <2>1, GoodSub
<1>6. Pop(s) = t \o <<u, v>>
  BY DEF Pop
<1> HIDE DEF u, v, t
<1>7. t \o <<u, v>> = (t \o <<u>>) \o <<v>>
  BY <1>1, TwoBehind
<1>8. t \o <<u>> = Append(t, u)
  BY <1>1, AppendIs
<1>9. GoodSeq(Append(t, u)) /\ IsSeq(Append(t, u)) /\ Len(Append(t, u)) = Len(t) + 1
  BY <1>1, <1>5, GoodSeqs, AppendSeq
<1> DEFINE w == Append(t, u)
<1> HIDE DEF w
<1>10. w \o <<v>> = Append(w, v)
  BY <1>9, AppendIs DEF w
<1>11. GoodSeq(Append(w, v)) /\ IsSeq(Append(w, v)) /\ Len(Append(w, v)) = Len(w) + 1
  BY <1>4, <1>9, GoodSeqs, AppendSeq DEF w
<1>12. Pop(s) = Append(w, v)
  BY <1>6, <1>7, <1>8, <1>10 DEF w
<1>13. Len(Append(w, v)) >= 2
  BY <1>1, <1>9, <1>11 DEF w
<1>14. Append(w, v) # <<>>
  BY <1>13, EmptyIsSeq
<1> QED BY <1>11, <1>12, <1>13, <1>14

LEMMA GoodNip ==
    ASSUME NEW s, GoodSeq(s), s # <<>>
    PROVE  GoodSeq(Nip(s)) /\ Nip(s) # <<>> /\ Last(Nip(s)) = Last(s)
<1>1. GoodSeq(DropTop(s, 2)) /\ Good(Last(s))
  BY GoodDrop, GoodSeqs
<1>2. GoodSeq(Append(DropTop(s, 2), Last(s)))
  BY <1>1, GoodSeqs
<1>3. Append(DropTop(s, 2), Last(s)) # <<>> /\ Last(Append(DropTop(s, 2), Last(s))) = Last(s)
  BY <1>1, AppendRange DEF GoodSeq
<1> QED BY <1>2, <1>3 DEF Nip

LEMMA GoodReversed ==
    ASSUME NEW s, GoodSeq(s), s # <<>>, Parts(Last(s)) # <<>>
    PROVE  LET u == PopAllDropBundle(s)
           IN  GoodSeq(u) /\ u # <<>> /\ Parts(Last(u)) # <<>>
<1> DEFINE p == Reverse(Parts(Last(s)))
           u == Append(Front(s), Bndl(p))
<1>1. GoodSeq(Front(s)) /\ GoodSeq(Parts(Last(s))) /\ GoodSeq(p)
  BY GoodSeqs, GoodParts
<1>2. p # <<>>
  <2>1. IsSeq(Parts(Last(s))) /\ Len(Parts(Last(s))) >= 1
    BY <1>1, NotEmpty DEF GoodSeq
  <2>2. Len(p) >= 1
    BY <2>1, ReverseSeq
  <2> QED BY <2>2, EmptyIsSeq
<1> HIDE DEF p
<1>3. GoodSeq(u) /\ u # <<>> /\ Last(u) = Bndl(p)
  BY <1>1, GoodSeqs, GoodBndl, AppendRange DEF GoodSeq
<1>4. Parts(Last(u)) = p
  BY <1>3, BndlKind DEF Parts
<1> HIDE DEF u
<1>5. PopAllDropBundle(s) = u
  BY DEF PopAllDropBundle, p, u
<1> QED BY <1>2, <1>3, <1>4, <1>5

LEMMA GoodSplit ==
    ASSUME NEW s, GoodSeq(s), s # <<>>, Parts(Last(s)) # <<>>
    PROVE  GoodSeq(Split(s, 1)) /\ Split(s, 1) # <<>>
<1> DEFINE e == Last(s)
           n == Len(Parts(e))
           u == SubElem(e, 1, 1)
           v == SubElem(e, 1 + 1, n)
           t == Front(s)
<1>1. GoodSeq(t) /\ Good(e) /\ IsSeq(t)
  BY GoodSeqs DEF GoodSeq
<1>2. n \in Nat /\ n >= 1
  BY <1>1, GoodParts, NotEmpty DEF GoodSeq
<1>3. Good(u) /\ Good(v)
  BY <1>1, <1>2, GoodSub
<1>4. Split(s, 1) = t \o <<u, v>>
  BY DEF Split
<1> HIDE DEF u, v, t
<1>5. t \o <<u, v>> = (t \o <<u>>) \o <<v>>
  BY <1>1, TwoBehind
<1>6. GoodSeq(<<u>>) /\ GoodSeq(<<v>>)
  BY <1>3, GoodSeqs
<1>7. GoodSeq((t \o <<u>>) \o <<v>>)
  BY <1>1, <1>6, GoodSeqs
<1>8. (t \o <<u>>) \o <<v>> # <<>>
  <2>1. IsSeq(t \o <<u>>)
    BY <1>1, <1>6, GoodSeqs DEF GoodSeq
  <2> QED BY <2>1, AppendIs, AppendRange
<1> QED BY <1>4, <1>5, <1>7, <1>8

LEMMA GoodBranch == ASSUME NEW e, Good(e) PROVE Good(Branch(e))
<1> DEFINE b == IF ~IsBndl(e) /\ ArgType(e) = "b" THEN BlobToElem(e) ELSE e
<1>1. Good(b)
  BY GoodCarried, GoodBndl DEF BlobToElem
<1>2. Branch(e) = IF IsBndl(b) /\ Len(b.elems) = 1 THEN b.elems[1] ELSE b
  BY DEF Branch
<1> HIDE DEF b
<1>3. ASSUME IsBndl(b), Len(b.elems) = 1 PROVE Good(b.elems[1])
  <2>1. GoodSeq(b.elems) /\ 1 \in 1 .. Len(b.elems)
    BY <1>1, <1>3, GoodForm
  <2> QED BY <2>1, RangeIs DEF GoodSeq
<1> QED BY <1>1, <1>2, <1>3

LEMMA GoodUnthunk == ASSUME NEW e, Good(e) PROVE Good(Unthunk(e))
<1>1. ASSUME IsBndl(e), Len(e.elems) = 1 PROVE Good(e.elems[1])
  <2>1. GoodSeq(e.elems) /\ 1 \in 1 .. Len(e.elems)
    BY <1>1, GoodForm
  <2> QED BY <2>1, RangeIs DEF GoodSeq
<1> QED BY <1>1 DEF Unthunk

(* Each of oscript_lib.c's parts of a list. *)
LEMMA GoodPartOfList ==
    ASSUME NEW s, GoodSeq(s), s # <<>>, HasParts(s), HasParts(Pop(s))
    PROVE  GoodSeq(FirstOf(s)) /\ GoodSeq(LastOf(s)) /\ GoodSeq(RestOf(s))
           /\ GoodSeq(ButlastOf(s))
<1> DEFINE u == Unwrapped(s)
<1>1. GoodSeq(Pop(s)) /\ Pop(s) # <<>>
  BY GoodPop DEF HasParts
<1>2. GoodSeq(u) /\ u # <<>> /\ Parts(Last(u)) # <<>>
  BY <1>1, GoodNip DEF Unwrapped, HasParts
<1> HIDE DEF u
<1>3. GoodSeq(Pop(u)) /\ Pop(u) # <<>>
  BY <1>2, GoodPop
<1> DEFINE r == PopAllDropBundle(u)
<1>4. GoodSeq(r) /\ r # <<>> /\ Parts(Last(r)) # <<>>
  BY <1>2, GoodReversed
<1> HIDE DEF r
<1>5. GoodSeq(Pop(r)) /\ Pop(r) # <<>>
  BY <1>4, GoodPop
<1>6. GoodSeq(Split(u, 1)) /\ Split(u, 1) # <<>>
  BY <1>2, GoodSplit
<1>7. GoodSeq(Nip(Pop(r))) /\ GoodSeq(Nip(Pop(u))) /\ GoodSeq(Nip(Split(u, 1)))
  BY <1>3, <1>5, <1>6, GoodNip
<1>8. GoodSeq(Front(Pop(u)))
  BY <1>3, GoodFront
<1> QED BY <1>7, <1>8 DEF FirstOf, LastOf, RestOf, ButlastOf, u, r

-----------------------------------------------------------------------------
(* Arguments bound to names that are none of a native. *)
LEMMA LooseArgs ==
    ASSUME NEW params, Good(params), ~IsBndl(params),
           \A i \in DOMAIN params.items : params.items[i].val \notin Natives,
           NEW args, GoodSeq(args)
    PROVE  LooseSeq(BindFnArgs(params, args))
<1> DEFINE read == args \o <<params, Bndl(<<>>)>>
           items == params.items
           Bound(i) == Msg(items[i].val, AsItems(read[((i - 1) % Len(read)) + 1]))
           u == [i \in DOMAIN items |-> Bound(i)]
<1>1. IsSeq(items) /\ Len(items) \in Nat /\ DOMAIN items = 1 .. Len(items)
  BY GoodForm, SeqType DEF GoodItems
<1>2. BindFnArgs(params, args) = u
  BY DEF BindFnArgs
<1>3. GoodSeq(read) /\ Len(read) >= 1
  <2>1. IsSeq(args) /\ Good(Bndl(<<>>))
    BY GoodSeqs, GoodBndl DEF GoodSeq
  <2>2. read = (args \o <<params>>) \o <<Bndl(<<>>)>>
    BY <2>1, TwoBehind
  <2>3. GoodSeq(<<params>>) /\ GoodSeq(<<Bndl(<<>>)>>)
    BY <2>1, GoodSeqs
  <2>4. GoodSeq(args \o <<params>>)
    BY <2>3, GoodSeqs
  <2>5. GoodSeq((args \o <<params>>) \o <<Bndl(<<>>)>>)
    BY <2>3, <2>4, GoodSeqs
  <2>6. (args \o <<params>>) \o <<Bndl(<<>>)>> # <<>>
    BY <2>4, AppendIs, AppendRange DEF GoodSeq
  <2> HIDE DEF read
  <2>7. GoodSeq(read) /\ read # <<>>
    BY <2>2, <2>5, <2>6
  <2> QED BY <2>7, NotEmpty DEF GoodSeq
<1> HIDE DEF read
<1>4. ASSUME NEW i \in 1 .. Len(items) PROVE Loose(Bound(i))
  <2>1. Len(read) \in Nat /\ Len(read) >= 1 /\ i - 1 \in Int
    BY <1>1, <1>3, SeqType DEF GoodSeq
  <2>2. ((i - 1) % Len(read)) + 1 \in 1 .. Len(read)
    BY <2>1
  <2>3. Good(read[((i - 1) % Len(read)) + 1])
    BY <1>3, <2>2, RangeIs DEF GoodSeq
  <2>4. GoodItems(AsItems(read[((i - 1) % Len(read)) + 1]))
    BY <2>3, GoodLoose, GoodAsItems
  <2>5. items[i].val \notin Natives
    BY <1>1
  <2> QED BY <2>4, <2>5, LooseMsg
<1> HIDE DEF Bound
<1>5. u = [i \in 1 .. Len(items) |-> Bound(i)] /\ DOMAIN u = 1 .. Len(items)
  BY <1>1
<1> HIDE DEF u
<1>6. IsSeq(u)
  <2>1. u \in [1 .. Len(items) -> Range(u)]
    BY <1>5 DEF Range
  <2> QED BY <1>1, <2>1 DEF IsSeq
<1>7. \A e \in Range(u) : Loose(e)
  BY <1>4, <1>5 DEF Range
<1> QED BY <1>2, <1>6, <1>7 DEF LooseSeq

(* The stack that an application of a lambda leaves. *)
LambdaStack(s) ==
    LET lambda == Last(s).items[1].elems
    IN  Append(DropTop(s, 2),
               Bndl(Append(BindFnArgs(lambda[2], FromTop(s, 1).elems),
                           Msg("", <<Bundle(Last(lambda[1].items).elems)>>))))

LEMMA LambdaDirty ==
    ASSUME NEW s, GoodSeq(s), Len(s) > 1, IsLambda(Last(s)), LambdaFits(s),
           LET body == Last(s).items[1].elems[1]
           IN  ~IsBndl(body) /\ ArgType(body) \in {"b", "B"}
    PROVE  Dirty("plain", LambdaStack(s))
<1> DEFINE top == Last(s)
           lambda == top.items[1].elems
           params == lambda[2]
           body == lambda[1]
           args == FromTop(s, 1).elems
           bound == BindFnArgs(params, args)
           inner == Msg("", <<Bundle(Last(body.items).elems)>>)
           t == DropTop(s, 2)
<1>1. IsSeq(s) /\ Len(s) \in Nat /\ s # <<>>
  BY SeqType, EmptyIsSeq DEF GoodSeq
<1>2. Good(top) /\ ~IsBndl(top) /\ ArgType(top) = "L" /\ top.items # <<>>
  <2>1. Good(top) /\ ~IsBndl(top) /\ ArgType(top) = "L"
    BY <1>1, GoodSeqs DEF IsLambda
  <2> QED BY <2>1, GoodCarried
<1>3. /\ top.items[1].tt = "L"
      /\ Len(lambda) = 2 /\ ~IsBndl(params)
      /\ \A i \in DOMAIN params.items :
            params.items[i].tt = "s" /\ params.items[i].val \notin Natives
      /\ IsBndl(FromTop(s, 1))
  BY DEF LambdaFits
<1>4. GoodSeq(lambda)
  BY <1>2, <1>3, GoodFirstCarried
<1> HIDE DEF lambda
<1>5. Good(body) /\ Good(params)
  <2>1. 1 \in 1 .. Len(lambda) /\ 2 \in 1 .. Len(lambda)
    BY <1>3
  <2> QED BY <1>4, <2>1, RangeIs DEF GoodSeq
<1>6. ~IsBndl(body) /\ ArgType(body) \in {"b", "B"}
  BY DEF lambda
<1>7. GoodSeq(Last(body.items).elems)
  BY <1>5, <1>6, GoodCarried
<1>8. Good(inner)
  <2>1. GoodItem(Bundle(Last(body.items).elems))
    BY <1>7, GoodElems DEF Bundle
  <2>2. GoodItems(<<Bundle(Last(body.items).elems)>>)
    BY <2>1, GoodItemsSeqs
  <2> QED BY <2>2, GoodMsg, NoName
<1>9. GoodSeq(args)
  <2>1. 1 \in Nat /\ 1 < Len(s)
    OBVIOUS
  <2>2. Good(FromTop(s, 1))
    BY <2>1, GoodFromTop
  <2> QED BY <1>3, <2>2, GoodForm
<1> HIDE DEF args, params, body
<1>10. LooseSeq(bound)
  BY <1>3, <1>5, <1>9, LooseArgs
<1> HIDE DEF bound, inner
<1>11. LooseSeq(Append(bound, inner))
  BY <1>8, <1>10, GoodLoose, LooseSeqs
<1>12. GoodSeq(t) /\ IsSeq(t)
  BY GoodDrop DEF GoodSeq
<1> DEFINE b == Bndl(Append(bound, inner))
           u == Append(t, b)
<1>13. b.elems = Append(bound, inner)
  BY BndlKind
<1> HIDE DEF t, b
<1>14. u # <<>> /\ IsSeq(u) /\ Front(u) = t /\ Last(u) = b
  BY <1>12, AppendRange
<1> HIDE DEF u
<1>15. Last(u) = Bndl(Last(u).elems) /\ EnvOK("plain", Last(u).elems)
  BY <1>11, <1>13, <1>14 DEF EnvOK, b
<1>16. Dirty("plain", u)
  BY <1>12, <1>14, <1>15 DEF Dirty
<1>17. LambdaStack(s) = u
  BY DEF LambdaStack, u, t, b, bound, inner, args, params, body, lambda
<1> QED BY <1>16, <1>17

(* What parsing a file gives. *)
LEMMA GoodParsed ==
    ASSUME NEW file \in DOMAIN ParsedFile
    PROVE  GoodSeq(ParsedFile[file]) /\ Good(V!TopLevelBundle(ParsedFile[file]))
<1>1. GoodSeq(ParsedFile[file])
  BY SyntaxAssumption, ProgramsAssumption, DataGood
<1>2. Good(Bndl(ParsedFile[file]))
  BY <1>1, GoodBndl
<1>3. Good(Bndl(<<Bndl(ParsedFile[file])>>))
  BY <1>2, GoodSeqs, GoodBndl
<1> QED BY <1>1, <1>3 DEF V!TopLevelBundle, V!Bndl, Bndl

-----------------------------------------------------------------------------
(* EvalType *)
LEMMA EvalPhase ==
    ASSUME NEW kind, NEW i, NEW c, NEW s, Phase(kind, i, c, s),
           c # <<>>, ~IsNative(Last(c))
    PROVE  LET e == Last(c)
               isBundle == IsBndl(e) \/ ArgType(e) = "B"
           IN  Idle(kind, i,
                    IF isBundle THEN Append(Front(c), String("/!/o/exec")) ELSE Front(c),
                    Append(s, IF ~IsBndl(e) /\ ArgType(e) = "B"
                              THEN Bndl(e.items[1].elems) ELSE e))
<1> DEFINE e == Last(c)
           d == Front(c)
           isBundle == IsBndl(e) \/ ArgType(e) = "B"
           v == IF ~IsBndl(e) /\ ArgType(e) = "B" THEN Bndl(e.items[1].elems) ELSE e
<1>1. \A x \in Natives : e # String(x)
  BY DEF IsNative
<1>2. Idle(kind, i, c, s)
  <2>1. ASSUME NEW b, NEW x \in Natives, Pieces(b), c = Append(b, String(x)) PROVE FALSE
    BY <1>1, <2>1, NativeOnTop DEF Pieces
  <2>2. \A b : Pieces(b) => Pieces(Append(b, String("/!/drop"))) /\ Pieces(ToEvaluate(b))
    BY PiecesSeqs, StringPiece DEF ToEvaluate
  <2>3. /\ FinalizerOf("exec") \in Natives /\ FinalizerOf("plain") \in Natives
        /\ "/!/drop" \in Natives /\ "/!/o/execlambdaapp" \in Natives
        /\ "/!/exec1" \in Natives /\ "/!/o/parse" \in Natives
    BY DEF FinalizerOf, Natives
  <2>4. ~Finalizing(kind, i, c, s)
    BY <2>1, <2>3, PiecesSeqs DEF Finalizing, Kinds
  <2>5. ~Dropping(kind, i, c, s) /\ ~Applying(kind, i, c, s)
    BY <2>1, <2>3 DEF Dropping, Applying, Pending
  <2>6. ~Evaluating(kind, i, c, s) /\ ~Parsing(kind, i, c, s)
    BY <2>1, <2>2, <2>3 DEF Evaluating, Parsing, Pending, ToEvaluate
  <2>7. ~Starting(kind, i, c, s) /\ ~Returned(kind, i, c, s)
    BY DEF Starting, Returned
  <2> QED BY <2>4, <2>5, <2>6, <2>7 DEF Phase
<1>3. IsSeq(i) /\ IsSeq(c) /\ Work(kind, i \o c) /\ Pieces(c) /\ GoodSeq(s)
  BY <1>2 DEF Idle, Pieces
<1>4. i \o c # <<>> /\ Last(i \o c) = e /\ Front(i \o c) = i \o d
  BY <1>3, TopConcat
<1>5. Pieces(d) /\ Piece(e)
  BY <1>3, PiecesSeqs
<1> HIDE DEF e, d
<1>6. Work(kind, i \o d) /\ (Item(kind, e) \/ e \in Marks)
      /\ (~NotFE(i \o d) => Addressed(kind, e))
  BY <1>3, <1>4, WorkFront
<1>7. e \notin Marks
  BY <1>1 DEF Marks, FE, TL, Natives
<1>8. Loose(e) /\ Good(e)
  <2>1. Loose(e)
    BY <1>6, <1>7 DEF Item
  <2>2. IsBndl(e) \/ e.addr \notin SemaphoreNames
    BY <1>5, NoName DEF Piece
  <2> QED BY <2>1, <2>2, LooseGood
<1>9. Good(v)
  <2>1. ASSUME ~IsBndl(e), ArgType(e) = "B" PROVE GoodSeq(e.items[1].elems)
    <3>1. e.items # <<>> /\ GoodSeq(Last(e.items).elems)
      BY <1>8, <2>1, GoodCarried
    <3>2. Len(e.items) = 1
      BY <1>5, <2>1 DEF Piece
    <3> QED BY <3>1, <3>2 DEF Last
  <2> QED BY <1>8, <2>1, GoodBndl
<1>10. GoodSeq(Append(s, v)) /\ Append(s, v) # <<>> /\ Last(Append(s, v)) = v
  BY <1>3, <1>9, GoodSeqs, AppendRange DEF GoodSeq
<1>11. ~NotFE(i \o d) => IsName(kind, e) /\ ~isBundle
  <2>1. ~NotFE(i \o d) => IsName(kind, e) /\ ~IsBndl(e) /\ ArgType(e) = "s"
    BY <1>5, <1>6, <1>8, AddressedPiece
  <2> QED BY <2>1
<1> DEFINE u == Append(s, v)
           x == String("/!/o/exec")
<1>12. ASSUME isBundle PROVE Idle(kind, i, Append(d, x), u)
  <2>1. NotFE(i \o d)
    BY <1>11, <1>12
  <2>2. Item(kind, x) /\ Piece(x)
    BY ItemString, StringPiece DEF Internal, FinalizeElemName, FinalizeExecName,
           FinalizeLambdaName, FinalizeTopLevelName
  <2> HIDE DEF x, u
  <2>3. ItemsOnly(kind, <<x>>) /\ <<x>> # <<>>
    BY <2>2, OneIsSeq, OneRange, EmptyIsSeq DEF ItemsOnly
  <2>4. Work(kind, (i \o d) \o <<x>>) /\ NotFE((i \o d) \o <<x>>)
    BY <1>6, <2>1, <2>3, WorkItems
  <2>5. (i \o d) \o <<x>> = i \o Append(d, x)
    <3>1. IsSeq(d) /\ IsSeq(i \o d)
      BY <1>3, <1>5, ConcatSeq DEF Pieces
    <3>2. i \o Append(d, x) = Append(i \o d, x)
      BY <1>3, <3>1, AppendConcat
    <3>3. Append(i \o d, x) = (i \o d) \o <<x>>
      BY <3>1, AppendIs
    <3> QED BY <3>2, <3>3
  <2>6. Pieces(Append(d, x))
    BY <1>5, <2>2, PiecesSeqs
  <2> QED BY <1>3, <1>10, <2>4, <2>5, <2>6 DEF Idle, u
<1>13. ASSUME ~isBundle PROVE Idle(kind, i, d, u)
  <2>1. v = e
    BY <1>13
  <2> QED BY <1>3, <1>5, <1>6, <1>10, <1>11, <2>1 DEF Idle
<1> QED BY <1>12, <1>13 DEF d, e

-----------------------------------------------------------------------------
(* What the natives leave to do.                                           *)
LEMMA ItemsOnlyParts ==
    ASSUME NEW kind, NEW i, NEW c, IsSeq(i), IsSeq(c), ItemsOnly(kind, i \o c)
    PROVE  ItemsOnly(kind, i) /\ ItemsOnly(kind, c)
BY ConcatRange DEF ItemsOnly

LEMMA ItemsPending ==
    ASSUME NEW kind, NEW i, NEW c, IsSeq(i), Pieces(c), ItemsOnly(kind, i \o c)
    PROVE  Pending(kind, i, c)
BY ItemsOnlyWork DEF Pending

(* Items behind the last finalizer. *)
LEMMA WorkMore ==
    ASSUME NEW kind, NEW w, NEW d, Work(kind, w), NotFE(w), ItemsOnly(kind, d)
    PROVE  Work(kind, w \o d) /\ NotFE(w \o d)
<1>1. CASE d = <<>>
  <2>1. w \o d = w
    BY <1>1, EmptyBehind DEF Work
  <2> QED BY <2>1
<1>2. CASE d # <<>>
  BY <1>2, WorkItems
<1> QED BY <1>1, <1>2

LEMMA PendingNative ==
    ASSUME NEW kind, NEW i, NEW d, Pending(kind, i, d), NEW x, x \notin Internal
    PROVE  Pending(kind, i, Append(d, String(x)))
<1> DEFINE e == String(x)
<1>1. Item(kind, e) /\ Piece(e)
  BY ItemString, StringPiece
<1> HIDE DEF e
<1>2. ItemsOnly(kind, <<e>>)
  BY <1>1, OneIsSeq, OneRange DEF ItemsOnly
<1>3. IsSeq(i) /\ IsSeq(d) /\ Pieces(d) /\ Work(kind, i \o d) /\ NotFE(i \o d)
  BY DEF Pending, Pieces
<1>4. Work(kind, (i \o d) \o <<e>>) /\ NotFE((i \o d) \o <<e>>)
  BY <1>2, <1>3, WorkMore
<1>5. (i \o d) \o <<e>> = i \o Append(d, e)
  <2>1. IsSeq(i \o d)
    BY <1>3, ConcatSeq
  <2> QED BY <1>3, <2>1, AppendConcat, AppendIs
<1>6. Pieces(Append(d, e))
  BY <1>1, <1>3, PiecesSeqs
<1> QED BY <1>3, <1>4, <1>5, <1>6 DEF Pending, e

(* /o/load takes the address and the finalizer off the input. *)
LEMMA LoadPending ==
    ASSUME NEW kind, NEW i, NEW d, Pending(kind, i, d), Len(i) > 1, FromTop(i, 1) = FE
    PROVE  Pending(kind, Append(DropTop(i, 2), TL), d)
<1> DEFINE j == DropTop(i, 2)
           w == i \o d
           m == Len(i) - 1
<1>1. IsSeq(i) /\ IsSeq(d) /\ Len(i) \in Nat /\ Len(d) \in Nat /\ Pieces(d) /\ Work(kind, w)
  BY SeqType DEF Pending, Pieces
<1>2. /\ IsSeq(w) /\ Len(w) = Len(i) + Len(d)
      /\ \A n \in 1 .. Len(i) : w[n] = i[n]
      /\ \A n \in 1 .. Len(d) : w[Len(i) + n] = d[n]
  BY <1>1, ConcatSeq
<1>3. /\ IsSeq(j) /\ Len(j) = Len(i) - 2
      /\ \A n \in 1 .. Len(i) - 2 : j[n] = i[n]
  <2>1. 2 \in Nat /\ 2 <= Len(i) /\ IsSeq(i)
    BY <1>1
  <2> HIDE DEF j
  <2> QED BY <2>1, DropSeq DEF j
<1> HIDE DEF w, j
<1>4. m \in 1 .. Len(i) /\ m \in 1 .. Len(w) /\ w[m] = FE
  BY <1>1, <1>2 DEF FromTop
<1>5. ASSUME NEW n \in 1 .. Len(w), n # m PROVE Item(kind, w[n])
  <2>1. Item(kind, w[m]) \/ Item(kind, w[n])
    BY <1>1, <1>4, <1>5 DEF Work
  <2>2. ~Item(kind, FE)
    BY MarkNames
  <2> QED BY <1>4, <2>1, <2>2
<1>6. ItemsOnly(kind, j)
  <2>1. ASSUME NEW n \in 1 .. Len(j) PROVE Item(kind, j[n])
    <3>1. n \in 1 .. Len(w) /\ n # m /\ j[n] = w[n]
      BY <1>1, <1>2, <1>3
    <3> QED BY <1>5, <3>1
  <2> QED BY <1>3, <2>1, RangeIs DEF ItemsOnly
<1>7. ItemsOnly(kind, d)
  <2>1. ASSUME NEW n \in 1 .. Len(d) PROVE Item(kind, d[n])
    <3>1. Len(i) + n \in 1 .. Len(w) /\ Len(i) + n # m /\ d[n] = w[Len(i) + n]
      BY <1>1, <1>2
    <3> QED BY <1>5, <3>1
  <2> QED BY <1>1, <2>1, RangeIs DEF ItemsOnly
<1> DEFINE u == Append(j, TL)
<1>8. Work(kind, u)
  BY <1>6, MarkWork, MarkNames
<1>9. IsSeq(u) /\ NotFE(u)
  BY <1>3, AppendRange, MarkNames DEF NotFE
<1> HIDE DEF u
<1>10. Work(kind, u \o d) /\ NotFE(u \o d)
  BY <1>7, <1>8, <1>9, WorkMore
<1> QED BY <1>1, <1>9, <1>10 DEF Pending, u, j

(* oscript_finalizeElem prepares the next element. *)
LEMMA PreparedPhase ==
    ASSUME NEW kind, NEW i, NEW d, IsSeq(i), Pieces(d), ItemsOnly(kind, i \o d)
    PROVE  Idle(kind, PrepareNext(i), d, <<>>)
<1>1. ItemsOnly(kind, i) /\ ItemsOnly(kind, d)
  BY ItemsOnlyParts DEF Pieces
<1>2. ASSUME NEW p, IsSeq(p), Work(kind, p), NotFE(p) PROVE Idle(kind, p, d, <<>>)
  <2>1. Work(kind, p \o d) /\ NotFE(p \o d)
    BY <1>1, <1>2, WorkMore
  <2> QED BY <1>2, <2>1, GoodSeqs DEF Idle
<1>3. CASE i = <<>>
  BY <1>1, <1>2, <1>3, ItemsOnlyWork DEF PrepareNext
<1>4. CASE i # <<>>
  <2> DEFINE j == Front(i)
             e == Last(i)
             named == Msg("", Append(e.items, Str(e.addr)))
             t == IF IsBndl(e) THEN <<String(""), e>> ELSE <<named>>
             p == Append(j, FE)
  <2>1. ItemsOnly(kind, j) /\ Item(kind, e)
    BY <1>1, <1>4, ItemsOnlySeqs
  <2>2. PrepareNext(i) = (j \o <<FE>>) \o t
    BY <1>4 DEF PrepareNext, FE
  <2> HIDE DEF j, e
  <2>3. p = j \o <<FE>>
    BY <2>1, AppendIs DEF ItemsOnly
  <2>4. Work(kind, p)
    BY <2>1, MarkWork, MarkNames
  <2>5. ItemsOnly(kind, t) /\ t # <<>> /\ Addressed(kind, t[1])
    <3>1. CASE IsBndl(e)
      <4> DEFINE n == String("")
      <4>1. Item(kind, n)
        BY NoName, InternalNatives, ItemString
      <4>2. Addressed(kind, n)
        <5>1. ~IsBndl(n) /\ n.addr = "" /\ n.items = <<Str("")>>
          BY StringKind
        <5>2. Last(<<Str("")>>) = Str("") /\ <<Str("")>> # <<>>
          BY OneIsSeq, EmptyIsSeq DEF Last
        <5>3. IsName(kind, n)
          BY NoName DEF IsName
        <5>4. Msg("", <<Last(n.items)>>) = n
          BY <5>1, <5>2 DEF String
        <5> HIDE DEF n
        <5> QED BY <5>1, <5>2, <5>3, <5>4 DEF Addressed
      <4> HIDE DEF n
      <4>3. t = <<n>> \o <<e>>
        BY <3>1, TwoIs DEF n
      <4>4. ItemsOnly(kind, <<n>>) /\ ItemsOnly(kind, <<e>>)
        BY <2>1, <4>1, OneIsSeq, OneRange DEF ItemsOnly
      <4>5. ItemsOnly(kind, <<n>> \o <<e>>)
        BY <4>4, ItemsOnlySeqs
      <4>6. t # <<>> /\ t[1] = n
        BY <3>1 DEF n
      <4> QED BY <4>2, <4>3, <4>5, <4>6
    <3>2. CASE ~IsBndl(e)
      <4>1. GoodItems(e.items) /\ e.addr \notin Natives
            /\ (kind = "exec" => e.addr \notin SemaphoreNames)
        BY <2>1, <3>2, GoodForm DEF Item, Loose
      <4> DEFINE items == Append(e.items, Str(e.addr))
      <4>2. GoodItems(items)
        BY <4>1, InternalNatives, GoodStr, GoodItemsSeqs
      <4>3. items # <<>> /\ Last(items) = Str(e.addr)
        BY <4>1, AppendRange DEF GoodItems
      <4> HIDE DEF items
      <4>4. ~IsBndl(named) /\ named.addr = "" /\ named.items = items
        BY MsgKind DEF items
      <4>5. Good(named)
        BY <4>2, NoName, GoodMsg DEF items
      <4> HIDE DEF named
      <4>6. IsName(kind, Msg("", <<Str(e.addr)>>))
        <5>1. Msg("", <<Str(e.addr)>>) = String(e.addr)
          BY DEF String
        <5> QED BY <4>1, <5>1 DEF IsName
      <4>7. Addressed(kind, named)
        BY <4>3, <4>4, <4>6 DEF Addressed
      <4>8. t = <<named>> /\ t # <<>> /\ t[1] = named
        BY <3>2
      <4>9. ItemsOnly(kind, <<named>>)
        BY <4>5, GoodIsItem, OneIsSeq, OneRange DEF ItemsOnly
      <4> QED BY <4>7, <4>8, <4>9
    <3> QED BY <3>1, <3>2
  <2> HIDE DEF t, p
  <2>6. Work(kind, p \o t) /\ NotFE(p \o t)
    BY <2>4, <2>5, WorkItems
  <2>7. IsSeq(p \o t)
    BY <2>6 DEF Work
  <2> QED BY <1>2, <2>2, <2>3, <2>6, <2>7
<1> QED BY <1>3, <1>4

-----------------------------------------------------------------------------
(* Frames opened.                                                          *)
Opened(i, d, kind, env, stack) ==
    [input |-> i \o d \o <<String(FinalizerOf(kind))>>, env |-> env,
     stack |-> stack, control |-> <<>>]

LEMMA FrameFields ==
    ASSUME NEW i, NEW env, NEW stack, NEW control
    PROVE  LET frame == [input |-> i, env |-> env, stack |-> stack, control |-> control]
           IN  /\ frame.input = i /\ frame.env = env
               /\ frame.stack = stack /\ frame.control = control
               /\ frame = [input |-> frame.input, env |-> frame.env,
                           stack |-> frame.stack, control |-> frame.control]
OBVIOUS

LEMMA OpenedFrame ==
    ASSUME NEW kind, NEW i, NEW d, Pending(kind, i, d), NEW k \in Kinds,
           NEW env, EnvOK(kind, env), NEW stack, GoodSeq(stack)
    PROVE  /\ FrameOK(kind, Opened(i, d, k, env, stack))
           /\ KindOf(Opened(i, d, k, env, stack)) = k
           /\ Opened(i, d, k, env, stack).env = env
<1> DEFINE f == String(FinalizerOf(k))
           w == i \o d
           frame == Opened(i, d, k, env, stack)
<1>1. IsSeq(w) /\ Work(kind, w) /\ NotFE(w)
  BY DEF Pending, Work
<1>2. w \o <<f>> = Append(w, f)
  BY <1>1, AppendIs
<1>3. /\ frame.input = w \o <<f>> /\ frame.env = env
      /\ frame.stack = stack /\ frame.control = <<>>
      /\ frame = [input |-> frame.input, env |-> frame.env,
                  stack |-> frame.stack, control |-> frame.control]
  BY FrameFields DEF Opened
<1> HIDE DEF frame
<1>4. w \o <<>> = w
  BY <1>1, EmptyBehind
<1>5. Pending(kind, w, <<>>)
  BY <1>1, <1>4, PiecesSeqs DEF Pending
<1> HIDE DEF w
<1>6. FrameOK(kind, frame)
  BY <1>2, <1>3, <1>5 DEF FrameOK
<1>7. KindOf(frame) = k
  BY <1>1, <1>2, <1>3, KindOfFrames
<1> QED BY <1>3, <1>6, <1>7 DEF frame

(* The bundle's elements, the first on top, and its finalizer. *)
LEMMA StartPhase ==
    ASSUME NEW kind, NEW top,
           IF IsBndl(top) THEN ItemsOnly(kind, Reverse(top.elems)) ELSE Item(kind, top)
    PROVE  Starting(kind, Append(IF IsBndl(top) THEN Reverse(top.elems) ELSE <<top>>,
                                 Msg(FinalizeElemName, <<>>)), <<>>, <<>>)
<1>1. ~IsBndl(top) => ItemsOnly(kind, <<top>>)
  BY OneIsSeq, OneRange DEF ItemsOnly
<1> QED BY <1>1 DEF Starting

LEMMA StartGood ==
    ASSUME NEW kind, NEW top, Good(top)
    PROVE  Starting(kind, Append(IF IsBndl(top) THEN Reverse(top.elems) ELSE <<top>>,
                                 Msg(FinalizeElemName, <<>>)), <<>>, <<>>)
<1>1. IsBndl(top) => ItemsOnly(kind, Reverse(top.elems))
  BY GoodForm, GoodSeqs, ItemsOnlySeqs
<1>2. Item(kind, top)
  BY GoodIsItem
<1> QED BY <1>1, <1>2, StartPhase

LEMMA StartLoose ==
    ASSUME NEW top, top = Bndl(top.elems), LooseSeq(top.elems)
    PROVE  Starting("plain", Append(IF IsBndl(top) THEN Reverse(top.elems) ELSE <<top>>,
                                    Msg(FinalizeElemName, <<>>)), <<>>, <<>>)
<1>1. IsBndl(top)
  BY BndlKind
<1>2. LooseSeq(Reverse(top.elems))
  BY LooseSeqs
<1>3. ItemsOnly("plain", Reverse(top.elems))
  BY <1>2 DEF ItemsOnly, LooseSeq, Item
<1> QED BY <1>1, <1>3, StartPhase

(* Frames left. *)
LEMMA ReturnPhase ==
    ASSUME NEW kind, NEW frame, FrameOK(kind, frame),
           NEW s, GoodSeq(s), NEW env, EnvOK(KindOf(frame), env)
    PROVE  LET t == frame.stack \o s \o <<Bndl(env)>>
           IN  /\ Phase(kind, frame.input, frame.control, t)
               /\ Waits(frame.input, frame.control) <=> KindOf(frame) = "exec"
               /\ Last(t).elems = env
<1> DEFINE u == frame.stack \o s
           b == Bndl(env)
           t == u \o <<b>>
<1>1. GoodSeq(u) /\ IsSeq(u)
  BY GoodSeqs DEF FrameOK, GoodSeq
<1>2. b = Bndl(b.elems) /\ b.elems = env
  BY BndlKind
<1> HIDE DEF u, b
<1>3. t = Append(u, b)
  BY <1>1, AppendIs
<1> HIDE DEF t
<1>4. t # <<>> /\ IsSeq(t) /\ Front(t) = u /\ Last(t) = b
  BY <1>1, <1>3, AppendRange
<1>5. \A k : EnvOK(k, env) => Dirty(k, t)
  BY <1>1, <1>2, <1>4 DEF Dirty
<1>6. CASE /\ frame.control = <<>>
           /\ \E k \in Kinds : \E j :
                 /\ frame.input = Append(j, String(FinalizerOf(k)))
                 /\ Pending(kind, j, <<>>)
  <2>0. PICK k \in Kinds : \E j : /\ frame.input = Append(j, String(FinalizerOf(k)))
                                   /\ Pending(kind, j, <<>>)
    BY <1>6
  <2>1. PICK j : /\ frame.input = Append(j, String(FinalizerOf(k)))
                 /\ Pending(kind, j, <<>>)
    BY <2>0
  <2>2. KindOf(frame) = k /\ IsSeq(j)
    BY <2>1, KindOfFrames DEF Pending
  <2>3. Returned(kind, frame.input, <<>>, t)
    BY <1>5, <2>1, <2>2 DEF Returned
  <2>4. Waits(frame.input, <<>>) <=> KindOf(frame) = "exec"
    BY DEF Waits, KindOf
  <2> QED BY <1>2, <1>4, <1>6, <2>3, <2>4 DEF Phase, t, u, b
<1>7. CASE \E d : /\ frame.control = Append(d, String("/!/drop"))
                  /\ Pending(kind, frame.input, d)
  <2>1. PICK d : /\ frame.control = Append(d, String("/!/drop"))
                 /\ Pending(kind, frame.input, d)
    BY <1>7
  <2>2. KindOf(frame) = "plain"
    BY <2>1, KindOfFrames
  <2>3. Dropping(kind, frame.input, frame.control, t)
    BY <1>5, <2>1, <2>2 DEF Dropping
  <2>4. ~Waits(frame.input, frame.control)
    BY <2>3, Calm
  <2> QED BY <1>2, <1>4, <2>2, <2>3, <2>4 DEF Phase, t, u, b
<1> QED BY <1>6, <1>7 DEF FrameOK

-----------------------------------------------------------------------------
(* Steps that leave the environments alone.                                *)
LEMMA Quiet ==
    ASSUME Inv, UNCHANGED <<vm_e, vm_d, vm_x, value>>,
           Phase(KindNow(vm_d), vm_i', vm_c', vm_s'),
           ~Waits(vm_i, vm_c), ~Waits(vm_i', vm_c'),
           vm_errno' \in Errors, trapped' \in BOOLEAN
    PROVE  Inv' /\ FrameStep
<1>1. Inv'
  BY DEF Inv
<1>2. ~FinalizerWaits /\ ~FinalizerWaits'
  BY DEF FinalizerWaits, Runs, Waits
<1>3. UNCHANGED Frames!vars
  BY <1>2 DEF Frames!vars
<1> QED BY <1>1, <1>3 DEF FrameStep

LEMMA NativeIdle ==
    ASSUME Inv, NEW x \in Natives, x \notin Internal, Runs(x)
    PROVE  /\ Pending(KindNow(vm_d), vm_i, Front(vm_c)) /\ GoodSeq(vm_s)
           /\ ~Waits(vm_i, vm_c)
<1>1. vm_c # <<>> /\ Last(vm_c) = String(x)
  BY DEF Runs
<1>2. Idle(KindNow(vm_d), vm_i, vm_c, vm_s)
  BY <1>1, PhaseOf DEF Inv
<1> QED BY <1>1, <1>2, NativeRuns, Calm

(* A native that works on the stack alone, and may leave another to run. *)
LEMMA NativeDone ==
    ASSUME Inv, NEW x \in Natives, x \notin Internal, Runs(x),
           UNCHANGED <<vm_i, vm_e, vm_d, vm_x, value>>, GoodSeq(vm_s'),
           \/ vm_c' = Front(vm_c)
           \/ \E y : y \notin Internal /\ vm_c' = Append(Front(vm_c), String(y)),
           vm_errno' \in Errors, trapped' \in BOOLEAN
    PROVE  Inv' /\ FrameStep
<1> DEFINE kind == KindNow(vm_d)
<1>1. Pending(kind, vm_i, Front(vm_c)) /\ ~Waits(vm_i, vm_c)
  BY NativeIdle
<1>2. Pending(kind, vm_i, vm_c')
  BY <1>1, PendingNative
<1>3. Idle(kind, vm_i', vm_c', vm_s')
  BY <1>2, PendingIdle
<1>4. ~Waits(vm_i', vm_c')
  BY <1>3, Calm
<1>5. Phase(kind, vm_i', vm_c', vm_s')
  BY <1>3 DEF Phase
<1> QED BY <1>1, <1>4, <1>5, Quiet

LEMMA NoInternal ==
    \A x \in Natives :
       x \in {"/!/$", "/!/apply", "/!/o/exec", "/!/o/apply", "/!/o/funcall",
              "/!/o/defn", "/!/o/load", "/!/o/if", "/!/o/first", "/!/o/last",
              "/!/o/rest", "/!/o/butlast"} => x \notin Internal
BY DEF Internal, FinalizeElemName, FinalizeExecName, FinalizeLambdaName,
       FinalizeTopLevelName

LEMMA ProgramNatives ==
    {"/!/$", "/!/apply", "/!/o/exec", "/!/o/apply", "/!/o/funcall",
     "/!/o/defn", "/!/o/load", "/!/o/if", "/!/o/first", "/!/o/last",
     "/!/o/rest", "/!/o/butlast"} \subseteq Natives \ Internal
BY NoInternal, NativeNames

-----------------------------------------------------------------------------
(* The machine.                                                            *)
LEMMA InitInv == Init => Inv
<1> SUFFICES ASSUME Init PROVE Inv
  OBVIOUS
<1>1. DumpOK(vm_d) /\ KindNow(vm_d) = "plain"
  <2>1. vm_d = <<>>
    BY DEF Init
  <2>2. ~(Len(<<>>) + 1 > 1) /\ \A n \in 1 .. Len(<<>>) : FALSE
    BY EmptyIsSeq
  <2> QED BY <2>1, <2>2, EmptyIsSeq DEF DumpOK, KindNow, KindIn
<1>2. EnvOK("plain", vm_e)
  <2>1. GoodSeq(Env0)
    BY SyntaxAssumption, ProgramsAssumption, DataGood
  <2> QED BY <2>1, GoodSeqLoose DEF Init, EnvOK
<1>3. Evaluating("plain", vm_i, vm_c, vm_s)
  <2>1. GoodSeq(program)
    BY SyntaxAssumption, ProgramsAssumption, DataGood DEF Init
  <2>2. Good(Bndl(<<Bndl(program)>>))
    BY <2>1, GoodSeqs, GoodBndl
  <2> DEFINE top == Bndl(<<Bndl(program)>>)
  <2>3. vm_s = <<top>>
    BY DEF Init, V!TopLevelBundle, V!Bndl, Bndl
  <2>4. IsBndl(top)
    BY BndlKind
  <2> HIDE DEF top
  <2>5. GoodSeq(vm_s)
    BY <2>2, <2>3, GoodSeqs DEF top
  <2>6. vm_s # <<>> /\ Last(vm_s) = top
    BY <2>3, OneIsSeq, EmptyIsSeq DEF Last
  <2>7. vm_c = ToEvaluate(<<>>)
    BY DEF Init, ToEvaluate
  <2>8. Pending("plain", vm_i, <<>>)
    <3>1. vm_i = <<>> /\ <<>> \o <<>> = <<>>
      BY EmptyBehind, EmptyIsSeq DEF Init
    <3>2. Work("plain", <<>>) /\ NotFE(<<>>)
      BY ItemsOnlySeqs, ItemsOnlyWork
    <3> QED BY <3>1, <3>2, PiecesSeqs, EmptyIsSeq DEF Pending
  <2> QED BY <2>4, <2>5, <2>6, <2>7, <2>8 DEF Evaluating
<1>4. LooseSeq(vm_x) /\ GoodSeq(value) /\ vm_errno \in Errors /\ trapped \in BOOLEAN
  BY LooseSeqs, GoodSeqs DEF Init, Errors
<1> QED BY <1>1, <1>2, <1>3, <1>4 DEF Inv, Phase

LEMMA PopInputStep == ASSUME Inv, PopInput PROVE Inv' /\ FrameStep
<1> DEFINE kind == KindNow(vm_d)
<1>1. /\ vm_c = <<>> /\ vm_i # <<>> /\ vm_c' = Expand(Last(vm_i)) /\ vm_i' = Front(vm_i)
      /\ vm_s' = vm_s /\ vm_e' = vm_e /\ vm_d' = vm_d /\ vm_x' = vm_x
      /\ vm_errno' = vm_errno /\ trapped' = trapped /\ value' = value /\ ~trapped
  BY DEF PopInput, others
<1>2. Phase(kind, vm_i, <<>>, vm_s)
  BY <1>1 DEF Inv
<1>3. Phase(kind, vm_i', vm_c', vm_s') /\ (Waits(vm_i', vm_c') <=> Waits(vm_i, vm_c))
  BY <1>1, <1>2, PopPhase
<1>4. Inv'
  BY <1>1, <1>3 DEF Inv
<1>5. FinalizerWaits' <=> FinalizerWaits
  BY <1>1, <1>3 DEF FinalizerWaits, Runs, Waits
<1>6. UNCHANGED Frames!vars
  BY <1>1, <1>5 DEF Frames!vars
<1> QED BY <1>4, <1>6 DEF FrameStep

LEMMA EvalTypeStep == ASSUME Inv, EvalType PROVE Inv' /\ FrameStep
<1> DEFINE kind == KindNow(vm_d)
           e == Last(vm_c)
           isBundle == IsBndl(e) \/ ArgType(e) = "B"
<1>1. Phase(kind, vm_i, vm_c, vm_s) /\ vm_c # <<>> /\ ~IsNative(Last(vm_c))
  BY DEF Inv, EvalType
<1>2. /\ vm_s' = Append(vm_s, IF ~IsBndl(e) /\ ArgType(e) = "B"
                              THEN Bndl(e.items[1].elems) ELSE e)
      /\ vm_c' = IF isBundle THEN Append(Front(vm_c), String("/!/o/exec"))
                 ELSE Front(vm_c)
      /\ vm_i' = vm_i /\ UNCHANGED <<vm_e, vm_d, vm_x, value>>
      /\ vm_errno' = vm_errno /\ trapped' = trapped
  BY DEF EvalType, others
<1>3. Idle(kind, vm_i', vm_c', vm_s')
  BY <1>1, <1>2, EvalPhase
<1>4. ~Waits(vm_i', vm_c') /\ Phase(kind, vm_i', vm_c', vm_s')
  BY <1>3, Calm DEF Phase
<1>5. ~Waits(vm_i, vm_c)
  <2>1. \A k \in Kinds : IsNative(String(FinalizerOf(k)))
    BY DEF IsNative, FinalizerOf, Natives
  <2>2. IsNative(String(FinalizeExecName))
    BY <2>1 DEF Kinds, FinalizerOf
  <2> QED BY <1>1, <2>2 DEF Waits
<1> QED BY <1>2, <1>4, <1>5, Quiet DEF Inv

LEMMA LookupStep == ASSUME Inv, Lookup, OperandsFound PROVE Inv' /\ FrameStep
<1> DEFINE name == Last(vm_s).items[1].val
           at == SelectInSeq(vm_e, LAMBDA e : ~IsBndl(e) /\ e.addr = name)
<1>1. Runs("/!/$") /\ vm_s # <<>>
  BY DEF Lookup, OperandsFound, Reads
<1>2. /\ vm_s' = IF at = 0 THEN vm_s
                 ELSE Front(vm_s) \o Each(vm_e[at].items)
      /\ vm_c' = Front(vm_c)
      /\ UNCHANGED <<vm_i, vm_e, vm_d, vm_x, value>>
      /\ vm_errno' = vm_errno /\ trapped' = trapped
  BY DEF Lookup, others, Each
<1>3. "/!/$" \in Natives \ Internal
  BY ProgramNatives
<1>4. GoodSeq(vm_s)
  BY <1>1, <1>3, NativeIdle
<1>5. at = 0 \/ (at \in 1 .. Len(vm_e) /\ ~IsBndl(vm_e[at]))
  <2> DEFINE I == {n \in 1 .. Len(vm_e) : ~IsBndl(vm_e[n]) /\ vm_e[n].addr = name}
  <2>1. at = IF I # {} THEN Min(I) ELSE 0
    BY DEF SelectInSeq
  <2>2. Len(vm_e) \in Nat
    BY SeqType DEF Inv, EnvOK, LooseSeq
  <2>3. I # {} => Min(I) \in I
    <3>1. I \subseteq Nat
      BY <2>2
    <3> HIDE DEF I
    <3>2. I # {} => \E n \in I : \A m \in I : n <= m
      BY <3>1, LeastNumber
    <3> QED BY <3>2 DEF Min
  <2> QED BY <2>1, <2>3
<1> HIDE DEF at
<1>6. GoodSeq(vm_s')
  <2>1. CASE at # 0
    <3>1. Loose(vm_e[at])
      BY <1>5, <2>1, LooseSeqs DEF Inv, EnvOK
    <3>2. GoodSeq(Each(vm_e[at].items))
      BY <1>5, <2>1, <3>1, GoodEach DEF Loose
    <3>3. GoodSeq(Front(vm_s))
      BY <1>4, GoodFront
    <3> QED BY <1>2, <2>1, <3>2, <3>3, GoodSeqs
  <2> QED BY <1>2, <1>4, <2>1
<1> QED BY <1>1, <1>2, <1>3, <1>6, NativeDone DEF Inv

LEMMA ApplyNativeStep == ASSUME Inv, ApplyNative PROVE Inv' /\ FrameStep
<1> DEFINE n == Last(vm_s).items[1].val
<1>1. /\ Runs("/!/apply") /\ n \in DOMAIN NativeOf
      /\ vm_c' = Append(Front(vm_c), String(NativeOf[n])) /\ vm_s' = Front(vm_s)
      /\ UNCHANGED <<vm_i, vm_e, vm_d, vm_x, value>>
      /\ vm_errno' = vm_errno /\ trapped' = trapped
  BY DEF ApplyNative, others
<1> HIDE DEF n
<1>2. "/!/apply" \in Natives \ Internal
  BY ProgramNatives
<1>3. NativeOf[n] \notin Internal
  <2>1. NativeOf[n] \in {"/!/o/defn", "/!/o/load", "/!/o/if", "/!/o/first",
                         "/!/o/last", "/!/o/rest", "/!/o/butlast"}
    BY <1>1 DEF NativeOf
  <2> QED BY <2>1, ProgramNatives
<1>4. GoodSeq(vm_s')
  BY <1>1, <1>2, NativeIdle, GoodFront
<1> QED BY <1>1, <1>2, <1>3, <1>4, NativeDone DEF Inv

-----------------------------------------------------------------------------
(* Steps that open a frame. *)
LEMMA Opens ==
    ASSUME Inv, NEW frame, FrameOK(KindNow(vm_d), frame), frame.env = vm_e,
           vm_d' = Append(vm_d, frame), EnvOK(KindOf(frame), vm_e'),
           vm_e' = IF KindOf(frame) = "exec" THEN PushSemaphores(vm_e) ELSE vm_e,
           Phase(KindOf(frame), vm_i', vm_c', vm_s'),
           ~Waits(vm_i, vm_c), ~Waits(vm_i', vm_c'),
           UNCHANGED <<vm_x, vm_errno, trapped, value>>
    PROVE  Inv' /\ FrameStep
<1>1. /\ DumpOK(vm_d') /\ KindNow(vm_d') = KindOf(frame)
      /\ Shown(vm_d') = Append(Shown(vm_d), [kind |-> KindOf(frame), env |-> vm_e])
  BY DumpPush DEF Inv, ShownFrame
<1>2. Inv'
  BY <1>1 DEF Inv
<1>3. ~FinalizerWaits /\ ~FinalizerWaits'
  BY DEF FinalizerWaits, Runs, Waits
<1>4. KindOf(frame) \in Kinds
  BY KindOfFrames
<1>5. CASE KindOf(frame) = "exec"
  <2>1. Frames!EnterExec
    BY <1>1, <1>3, <1>5 DEF Frames!EnterExec, Frames!Running, Shown, ShownFrame,
           Frames!PushSemaphores, PushSemaphores
  <2> QED BY <1>2, <2>1 DEF FrameStep
<1>6. CASE KindOf(frame) = "plain"
  <2>1. Frames!EnterPlain
    BY <1>1, <1>3, <1>6 DEF Frames!EnterPlain, Frames!Running, Shown, ShownFrame
  <2> QED BY <1>2, <2>1 DEF FrameStep
<1> QED BY <1>2, <1>4, <1>5, <1>6 DEF Kinds

LEMMA Exec1Step == ASSUME Inv, Exec1 PROVE Inv' /\ FrameStep
<1> DEFINE kind == KindNow(vm_d)
           frame == Saved(vm_i, Front(vm_c))
<1>1. /\ vm_c # <<>> /\ Last(vm_c) = String("/!/exec1")
      /\ vm_d' = Append(vm_d, frame) /\ vm_i' = Reverse(Last(vm_s).elems)
      /\ vm_s' = <<>> /\ vm_c' = <<>> /\ vm_e' = vm_e
      /\ UNCHANGED <<vm_x, vm_errno, trapped, value>>
  BY DEF Exec1, Runs, others
<1>2. Evaluating(kind, vm_i, vm_c, vm_s)
  BY <1>1, PhaseOf DEF Inv
<1>3. PICK d : /\ vm_c = ToEvaluate(d) /\ Pending(kind, vm_i, d)
               /\ GoodSeq(vm_s) /\ vm_s # <<>> /\ IsBndl(Last(vm_s))
  BY <1>2 DEF Evaluating
<1>4. Front(vm_c) = Append(d, String("/!/drop"))
  <2>1. Pieces(Append(d, String("/!/drop")))
    BY <1>3, PiecesSeqs, StringPiece DEF Pending
  <2> QED BY <1>3, <2>1, NativeOnTop DEF ToEvaluate, Pieces
<1>5. /\ frame.input = vm_i /\ frame.env = vm_e
      /\ frame.stack = Front(vm_s) /\ frame.control = Front(vm_c)
      /\ frame = [input |-> frame.input, env |-> frame.env,
                  stack |-> frame.stack, control |-> frame.control]
  BY FrameFields DEF Saved
<1> HIDE DEF frame
<1>6. GoodSeq(Front(vm_s)) /\ GoodSeq(Last(vm_s).elems)
  BY <1>3, GoodFront, GoodSeqs, GoodForm
<1>7. FrameOK(kind, frame)
  BY <1>3, <1>4, <1>5, <1>6 DEF FrameOK, Inv
<1>8. KindOf(frame) = "plain"
  BY <1>3, <1>5, KindOfFrames
<1>9. EnvOK("plain", vm_e')
  BY <1>1 DEF Inv, EnvOK
<1>10. Idle("plain", vm_i', vm_c', vm_s')
  <2>1. GoodSeq(vm_i')
    BY <1>1, <1>6, GoodSeqs
  <2>2. vm_i' \o <<>> = vm_i' /\ IsSeq(vm_i')
    BY <2>1, EmptyBehind DEF GoodSeq
  <2>3. Work("plain", vm_i') /\ NotFE(vm_i')
    BY <2>1, ItemsOnlySeqs, ItemsOnlyWork
  <2> QED BY <1>1, <2>2, <2>3, PiecesSeqs, GoodSeqs DEF Idle
<1>11. ~Waits(vm_i, vm_c) /\ ~Waits(vm_i', vm_c') /\ Phase("plain", vm_i', vm_c', vm_s')
  BY <1>2, <1>10, Calm DEF Phase
<1>12. KindOf(frame) # "exec"
  BY <1>8
<1> QED BY <1>1, <1>5, <1>7, <1>8, <1>9, <1>11, <1>12, Opens

LEMMA DropStep == ASSUME Inv, Drop PROVE Inv' /\ FrameStep
<1> DEFINE kind == KindNow(vm_d)
<1>1. /\ vm_c # <<>> /\ Last(vm_c) = String("/!/drop")
      /\ vm_s' = Front(vm_s) /\ vm_c' = Front(vm_c) /\ vm_i' = vm_i
      /\ UNCHANGED <<vm_e, vm_d, vm_x, value>>
      /\ vm_errno' = vm_errno /\ trapped' = trapped
  BY DEF Drop, Runs, others
<1>2. Dropping(kind, vm_i, vm_c, vm_s)
  BY <1>1, PhaseOf DEF Inv
<1>3. PICK d : /\ vm_c = Append(d, String("/!/drop"))
               /\ Pending(kind, vm_i, d) /\ Dirty("plain", vm_s)
  BY <1>2 DEF Dropping
<1>4. vm_c' = d /\ GoodSeq(vm_s')
  BY <1>1, <1>3, NativeOnTop DEF Pending, Pieces, Dirty
<1>5. Idle(kind, vm_i', vm_c', vm_s')
  BY <1>1, <1>3, <1>4, PendingIdle
<1>6. ~Waits(vm_i, vm_c) /\ ~Waits(vm_i', vm_c') /\ Phase(kind, vm_i', vm_c', vm_s')
  BY <1>2, <1>5, Calm DEF Phase
<1> QED BY <1>1, <1>6, Quiet DEF Inv

LEMMA ReturnStep == ASSUME Inv, Return PROVE Inv' /\ FrameStep
<1> DEFINE frame == Last(vm_d)
<1>1. /\ ~trapped /\ vm_i = <<>> /\ vm_c = <<>> /\ vm_d # <<>>
      /\ vm_i' = frame.input /\ vm_e' = frame.env /\ vm_c' = frame.control
      /\ vm_s' = frame.stack \o vm_s \o <<Bndl(vm_e)>>
      /\ vm_d' = Front(vm_d)
      /\ UNCHANGED <<vm_x, vm_errno, trapped, value>>
  BY DEF Return, ReadyToReturn, others
<1> HIDE DEF frame
<1>2. /\ DumpOK(vm_d') /\ FrameOK(KindNow(vm_d'), frame)
      /\ KindNow(vm_d) = KindOf(frame)
      /\ Shown(vm_d) # <<>>
      /\ Shown(vm_d)[Len(Shown(vm_d))] = ShownFrame(frame)
      /\ SubSeq(Shown(vm_d), 1, Len(Shown(vm_d)) - 1) = Shown(vm_d')
  BY <1>1, DumpPop DEF Inv, frame
<1>3. Idle(KindNow(vm_d), vm_i, vm_c, vm_s)
  <2>1. Phase(KindNow(vm_d), vm_i, <<>>, vm_s)
    BY <1>1 DEF Inv
  <2>2. ASSUME NEW j, NEW x, IsSeq(j) PROVE <<>> # Append(j, x)
    BY <2>2, AppendRange
  <2>3. ~Starting(KindNow(vm_d), vm_i, <<>>, vm_s)
    BY <1>1, <2>2 DEF Starting, ItemsOnly
  <2>4. ~Returned(KindNow(vm_d), vm_i, <<>>, vm_s)
    BY <1>1, <2>2 DEF Returned, Pending
  <2> QED BY <1>1, <2>1, <2>3, <2>4, EmptyPhase
<1>4. GoodSeq(vm_s) /\ ~Waits(vm_i, vm_c)
  BY <1>3, Calm DEF Idle
<1>5. EnvOK(KindOf(frame), vm_e)
  BY <1>2 DEF Inv
<1>6. /\ Phase(KindNow(vm_d'), vm_i', vm_c', vm_s')
      /\ Waits(vm_i', vm_c') <=> KindOf(frame) = "exec"
      /\ Last(vm_s').elems = vm_e
  BY <1>1, <1>2, <1>4, <1>5, ReturnPhase
<1>7. EnvOK(KindNow(vm_d'), vm_e')
  BY <1>1, <1>2 DEF FrameOK
<1>8. Inv'
  BY <1>1, <1>2, <1>6, <1>7 DEF Inv
<1>9. ~FinalizerWaits /\ (FinalizerWaits' <=> KindOf(frame) = "exec")
  BY <1>1, <1>4, <1>6 DEF FinalizerWaits, Runs, Waits
<1>10. Frames!Return
  <2>1. ShownFrame(frame).kind = KindOf(frame) /\ ShownFrame(frame).env = frame.env
    BY DEF ShownFrame
  <2> QED BY <1>1, <1>2, <1>6, <1>9, <2>1 DEF Frames!Return, Frames!Running, Shown, ShownFrame
<1> QED BY <1>8, <1>10 DEF FrameStep

-----------------------------------------------------------------------------
(* The natives of oscript_exec.c. *)
LEMMA OpenFrameIs ==
    ASSUME NEW k \in Kinds, OpenFrame(FinalizerOf(k))
    PROVE  /\ vm_d' = Append(vm_d, Opened(vm_i, Front(vm_c), k, vm_e, Front(vm_s)))
           /\ vm_i' = Append(IF IsBndl(Last(vm_s)) THEN Reverse(Last(vm_s).elems)
                             ELSE <<Last(vm_s)>>, Msg(FinalizeElemName, <<>>))
           /\ vm_s' = <<>> /\ vm_c' = <<>>
BY DEF OpenFrame, Saved, Opened

LEMMA ExecStep == ASSUME Inv, Exec, OperandsFound PROVE Inv' /\ FrameStep
<1> DEFINE kind == KindNow(vm_d)
           frame == Opened(vm_i, Front(vm_c), "exec", vm_e, Front(vm_s))
<1>1. /\ Runs("/!/o/exec") /\ vm_s # <<>> /\ OpenFrame(FinalizeExecName)
      /\ vm_e' = PushSemaphores(vm_e) /\ UNCHANGED <<vm_x, vm_errno, trapped, value>>
  BY DEF Exec, OperandsFound, Reads, others
<1>2. "exec" \in Kinds /\ FinalizerOf("exec") = FinalizeExecName
  BY DEF Kinds, FinalizerOf
<1>3. Pending(kind, vm_i, Front(vm_c)) /\ GoodSeq(vm_s) /\ ~Waits(vm_i, vm_c)
  BY <1>1, NativeIdle, ProgramNatives
<1>4. /\ vm_d' = Append(vm_d, frame)
      /\ Starting("exec", vm_i', vm_c', vm_s')
  <2>1. Good(Last(vm_s))
    BY <1>1, <1>3, GoodSeqs
  <2> QED BY <1>1, <1>2, <2>1, OpenFrameIs, StartGood
<1>5. FrameOK(kind, frame) /\ KindOf(frame) = "exec" /\ frame.env = vm_e
  BY <1>2, <1>3, GoodFront, OpenedFrame DEF Inv
<1> HIDE DEF frame
<1>6. EnvOK("exec", vm_e')
  BY <1>1, EnvPush DEF Inv, EnvOK
<1>7. ~Waits(vm_i', vm_c') /\ Phase("exec", vm_i', vm_c', vm_s')
  BY <1>4, Calm DEF Phase
<1> QED BY <1>1, <1>3, <1>4, <1>5, <1>6, <1>7, Opens

LEMMA ExecEmptyStep == ASSUME Inv, ExecEmpty PROVE Inv' /\ FrameStep
<1>1. /\ Runs("/!/o/exec") /\ vm_c' = Front(vm_c)
      /\ UNCHANGED <<vm_i, vm_e, vm_d, vm_x, value>> /\ vm_s' = vm_s
      /\ vm_errno' = vm_errno /\ trapped' = trapped
  BY DEF ExecEmpty, others
<1>2. "/!/o/exec" \in Natives \ Internal
  BY ProgramNatives
<1>3. GoodSeq(vm_s')
  BY <1>1, <1>2, NativeIdle
<1> QED BY <1>1, <1>2, <1>3, NativeDone DEF Inv

LEMMA ExecLambdaApplicationStep ==
    ASSUME Inv, ExecLambdaApplication PROVE Inv' /\ FrameStep
<1> DEFINE kind == KindNow(vm_d)
           frame == Opened(vm_i, Front(vm_c), "plain", vm_e, Front(vm_s))
<1>1. /\ vm_c # <<>> /\ Last(vm_c) = String("/!/o/execlambdaapp")
      /\ OpenFrame(FinalizeLambdaName)
      /\ vm_e' = vm_e /\ UNCHANGED <<vm_x, vm_errno, trapped, value>>
  BY DEF ExecLambdaApplication, Runs, others
<1>2. "plain" \in Kinds /\ FinalizerOf("plain") = FinalizeLambdaName
  BY DEF Kinds, FinalizerOf
<1>3. Applying(kind, vm_i, vm_c, vm_s)
  BY <1>1, PhaseOf DEF Inv
<1>4. PICK d : /\ vm_c = Append(d, String("/!/o/execlambdaapp"))
               /\ Pending(kind, vm_i, d) /\ Dirty("plain", vm_s)
  BY <1>3 DEF Applying
<1>5. Front(vm_c) = d
  BY <1>4, NativeOnTop DEF Pending, Pieces
<1>6. /\ vm_d' = Append(vm_d, frame)
      /\ Starting("plain", vm_i', vm_c', vm_s')
  BY <1>1, <1>2, <1>4, OpenFrameIs, StartLoose DEF Dirty, EnvOK
<1>7. FrameOK(kind, frame) /\ KindOf(frame) = "plain" /\ frame.env = vm_e
  BY <1>2, <1>4, <1>5, OpenedFrame DEF Inv, Dirty
<1> HIDE DEF frame
<1>8. EnvOK("plain", vm_e')
  BY <1>1 DEF Inv, EnvOK
<1>9. ~Waits(vm_i, vm_c) /\ ~Waits(vm_i', vm_c') /\ Phase("plain", vm_i', vm_c', vm_s')
  BY <1>3, <1>6, Calm DEF Phase
<1>10. KindOf(frame) # "exec"
  BY <1>7
<1> QED BY <1>1, <1>6, <1>7, <1>8, <1>9, <1>10, Opens

-----------------------------------------------------------------------------
(* Steps that bind what an element left. *)
LEMMA Binds ==
    ASSUME Inv, NEW b, Item(KindNow(vm_d), b), vm_e' = <<b>> \o vm_e,
           UNCHANGED <<vm_d, vm_x, value>>,
           Phase(KindNow(vm_d), vm_i', vm_c', vm_s'),
           ~Waits(vm_i, vm_c), ~Waits(vm_i', vm_c'),
           vm_errno' \in Errors, trapped' \in BOOLEAN
    PROVE  Inv' /\ FrameStep
<1> DEFINE kind == KindNow(vm_d)
<1>1. Inv'
  BY EnvBind DEF Inv
<1>2. Head(vm_e') = b
  <2>1. IsSeq(vm_e)
    BY DEF Inv, EnvOK, LooseSeq
  <2>2. IsSeq(vm_e') /\ Len(vm_e') = Len(vm_e) + 1 /\ vm_e'[1] = b /\ Len(vm_e) \in Nat
    BY <2>1, ConsSeq, SeqType
  <2>3. vm_e' # <<>>
    BY <2>2, EmptyIsSeq
  <2> QED BY <2>2, <2>3, NotEmpty
<1>3. ~FinalizerWaits /\ ~FinalizerWaits'
  BY DEF FinalizerWaits, Runs, Waits
<1>4. Frames!Bind(Head(vm_e'))
  BY <1>2, <1>3 DEF Frames!Bind, Frames!Running
<1>5. ASSUME Frames!Collecting PROVE IsBinding(b)
  <2>1. Shown(vm_d) # <<>> /\ Shown(vm_d)[Len(Shown(vm_d))].kind = "exec"
    BY <1>5 DEF Frames!Collecting, Shown, ShownFrame
  <2>2. vm_d # <<>>
    <3>1. IsSeq(vm_d) /\ IsSeq(Shown(vm_d)) /\ Len(Shown(vm_d)) = Len(vm_d)
      BY ShownIs DEF Inv, DumpOK
    <3> QED BY <2>1, <3>1, EmptyIsSeq, NotEmpty
  <2>3. KindOf(Last(vm_d)) = "exec"
    <3>1. Shown(vm_d)[Len(Shown(vm_d))] = ShownFrame(Last(vm_d))
      BY <2>2, DumpPop DEF Inv
    <3>2. ShownFrame(Last(vm_d)).kind = KindOf(Last(vm_d))
      BY DEF ShownFrame
    <3> QED BY <2>1, <3>1, <3>2
  <2>4. Good(b)
    BY <2>2, <2>3, DumpPop DEF Inv, Item
  <2> QED BY <2>4, GoodBinding
<1> QED BY <1>1, <1>2, <1>4, <1>5 DEF FrameStep

(* Or that bind it in a context bundle, or not at all. *)
LEMMA BindsElsewhere ==
    ASSUME Inv, UNCHANGED <<vm_e, vm_d, value>>, LooseSeq(vm_x'),
           Phase(KindNow(vm_d), vm_i', vm_c', vm_s'),
           ~Waits(vm_i, vm_c), ~Waits(vm_i', vm_c'),
           vm_errno' \in Errors, trapped' \in BOOLEAN
    PROVE  Inv' /\ FrameStep
<1>1. Inv'
  BY DEF Inv
<1>2. ~FinalizerWaits /\ ~FinalizerWaits'
  BY DEF FinalizerWaits, Runs, Waits
<1>3. UNCHANGED Frames!vars
  BY <1>2 DEF Frames!vars
<1> QED BY <1>1, <1>3 DEF FrameStep

LEMMA FinalizeElemStep == ASSUME Inv, FinalizeElem PROVE Inv' /\ FrameStep
<1> DEFINE kind == KindNow(vm_d)
           name == Last(vm_s).items[1].val
<1>1. /\ vm_c # <<>> /\ Last(vm_c) = FE /\ Last(vm_c) = String(FinalizeElemName)
      /\ vm_s' = <<>> /\ vm_i' = PrepareNext(vm_i) /\ vm_c' = Front(vm_c)
      /\ UNCHANGED <<vm_d, vm_errno, trapped, value>>
  BY DEF FinalizeElem, Runs, FE
<1>2. Idle(kind, vm_i, vm_c, vm_s)
  BY <1>1, PhaseOf DEF Inv
<1>3. /\ ItemsOnly(kind, vm_i \o Front(vm_c)) /\ Pieces(Front(vm_c)) /\ IsSeq(vm_i)
      /\ GoodSeq(vm_s)
      /\ vm_s # <<>> => IsName(kind, Last(vm_s))
  BY <1>1, <1>2, MarkRuns, MarkNames
<1>4. Idle(kind, vm_i', vm_c', vm_s')
  BY <1>1, <1>3, PreparedPhase
<1>5. ~Waits(vm_i, vm_c) /\ ~Waits(vm_i', vm_c') /\ Phase(kind, vm_i', vm_c', vm_s')
  BY <1>2, <1>4, Calm DEF Phase
<1>6. vm_errno' \in Errors /\ trapped' \in BOOLEAN
  BY <1>1 DEF Inv
<1>7. ASSUME vm_s # <<>>
      PROVE  /\ name \notin Natives
             /\ kind = "exec" => name \notin SemaphoreNames
             /\ Good(vm_s[1])
  <2>1. Len(vm_s) \in Nat /\ Len(vm_s) >= 1 /\ IsSeq(vm_s)
    BY <1>3, <1>7, NotEmpty DEF GoodSeq
  <2>2. vm_s[1] \in Range(vm_s)
    BY <2>1, RangeIs
  <2> QED BY <1>3, <1>7, <2>2, NameIsString DEF GoodSeq
<1>8. ASSUME vm_s # <<>>, NEW items, GoodItems(items)
      PROVE  Item(kind, Msg(name, items))
  BY <1>7, <1>8, LooseMsg, GoodMsg DEF Item
<1>9. Len(vm_s) \in Nat
  BY <1>3, SeqType DEF GoodSeq
<1>10. CASE Len(vm_s) >= 2
  <2> DEFINE bound == IF Len(vm_s) = 2 /\ name = "" /\ IsBndl(vm_s[1])
                      THEN vm_s[1]
                      ELSE Msg(name, JoinItems(Front(vm_s)))
  <2>1. IF name \in ContextNames
        THEN vm_x' = <<bound>> \o vm_x /\ vm_e' = vm_e
        ELSE vm_e' = <<bound>> \o vm_e /\ vm_x' = vm_x
    <3>1. Len(vm_s) # 1
      BY <1>9, <1>10
    <3>2. BindElem
      BY <1>10, <3>1, Zenon DEF FinalizeElem
    <3> QED BY <3>2 DEF BindElem
  <2>2. vm_s # <<>>
    BY <1>10, EmptyIsSeq
  <2>3. Item(kind, bound)
    <3>1. GoodItems(JoinItems(Front(vm_s)))
      BY <1>3, GoodFront, GoodJoin
    <3> QED BY <1>7, <1>8, <2>2, <3>1, GoodIsItem
  <2> HIDE DEF bound
  <2>4. LooseSeq(<<bound>> \o vm_x)
    BY <2>3, LooseSeqs DEF Inv, Item
  <2> QED BY <1>1, <1>5, <1>6, <2>1, <2>3, <2>4, Binds, BindsElsewhere DEF Inv
<1>11. CASE Len(vm_s) = 1
  <2>1. BindSingle /\ vm_x' = vm_x
    <3>1. BindSingle
      BY <1>9, <1>11 DEF FinalizeElem
    <3> QED BY <3>1 DEF BindSingle
  <2>2. vm_s # <<>> /\ vm_s[1] = Last(vm_s)
    BY <1>11, EmptyIsSeq DEF Last
  <2> DEFINE bound == IF IsString(vm_s[1]) THEN Msg(name, <<>>) ELSE vm_s[1]
  <2>3. vm_e' = vm_e \/ vm_e' = <<bound>> \o vm_e
    BY <2>1, <2>2 DEF BindSingle
  <2>4. Item(kind, bound)
    BY <1>7, <1>8, <2>2, GoodItemsSeqs, GoodIsItem
  <2> HIDE DEF bound
  <2>5. CASE vm_e' = vm_e
    BY <1>1, <1>5, <1>6, <2>1, <2>5, BindsElsewhere DEF Inv
  <2>6. CASE vm_e' = <<bound>> \o vm_e
    BY <1>1, <1>5, <1>6, <2>1, <2>4, <2>6, Binds
  <2> QED BY <2>3, <2>5, <2>6
<1>12. CASE ~(Len(vm_s) >= 2) /\ Len(vm_s) # 1
  <2>1. vm_e' = vm_e /\ vm_x' = vm_x
    BY <1>12 DEF FinalizeElem
  <2> QED BY <1>1, <1>5, <1>6, <2>1, BindsElsewhere DEF Inv
<1> QED BY <1>10, <1>11, <1>12

(* Finalizers of a frame. *)
LEMMA FinalizerIs ==
    ASSUME Inv, NEW k \in Kinds, vm_c # <<>>, Last(vm_c) = String(FinalizerOf(k))
    PROVE  /\ Pending(KindNow(vm_d), vm_i, <<>>) /\ Dirty(k, vm_s)
           /\ Front(vm_c) = <<>>
<1> DEFINE kind == KindNow(vm_d)
<1>1. FinalizerOf(k) \in {FinalizeExecName, FinalizeLambdaName}
  BY DEF Kinds, FinalizerOf
<1>2. Finalizing(kind, vm_i, vm_c, vm_s)
  BY <1>1, PhaseOf DEF Inv
<1>3. PICK l \in Kinds : /\ vm_c = Append(<<>>, String(FinalizerOf(l)))
                         /\ Pending(kind, vm_i, <<>>) /\ Dirty(l, vm_s)
  BY <1>2 DEF Finalizing
<1>4. Front(vm_c) = <<>> /\ FinalizerOf(k) = FinalizerOf(l)
  BY <1>3, EmptyIsSeq, NativeOnTop
<1>5. k = l
  BY <1>4 DEF Kinds, FinalizerOf, FinalizeExecName, FinalizeLambdaName
<1> QED BY <1>3, <1>4, <1>5

LEMMA FinalizeExecStep == ASSUME Inv, FinalizeExec PROVE Inv' /\ FrameStep
<1> DEFINE kind == KindNow(vm_d)
           own == OwnElems(Last(vm_s).elems)
<1>1. /\ vm_c # <<>> /\ Last(vm_c) = String(FinalizeExecName)
      /\ value' = own /\ vm_s' = Append(Front(vm_s), Bndl(own)) /\ vm_c' = Front(vm_c)
      /\ vm_i' = vm_i /\ UNCHANGED <<vm_e, vm_d, vm_x, vm_errno, trapped>> /\ ~trapped
  BY DEF FinalizeExec, Runs
<1>2. "exec" \in Kinds /\ FinalizerOf("exec") = FinalizeExecName
  BY DEF Kinds, FinalizerOf
<1>3. Pending(kind, vm_i, <<>>) /\ Dirty("exec", vm_s) /\ Front(vm_c) = <<>>
  BY <1>1, <1>2, FinalizerIs
<1>4. GoodSeq(own) /\ own = Frames!OwnElems(Last(vm_s).elems)
  BY <1>3, EnvOwn DEF Dirty
<1> HIDE DEF own
<1>5. GoodSeq(vm_s')
  BY <1>1, <1>3, <1>4, GoodBndl, GoodSeqs DEF Dirty
<1>6. Idle(kind, vm_i', vm_c', vm_s')
  BY <1>1, <1>3, <1>5, PendingIdle
<1>7. ~Waits(vm_i', vm_c') /\ Phase(kind, vm_i', vm_c', vm_s')
  BY <1>6, Calm DEF Phase
<1>8. Inv'
  BY <1>1, <1>4, <1>7 DEF Inv
<1>9. FinalizerWaits /\ ~FinalizerWaits'
  BY <1>1, <1>7 DEF FinalizerWaits, Runs, Waits
<1>10. <<Last(vm_s).elems>> # <<>> /\ <<Last(vm_s).elems>>[1] = Last(vm_s).elems
  BY OneIsSeq, EmptyIsSeq
<1>11. Frames!FinalizeExec
  BY <1>1, <1>4, <1>9, <1>10 DEF Frames!FinalizeExec
<1> QED BY <1>8, <1>11 DEF FrameStep

(* The value of a lambda. *)
LEMMA FinalizeLambdaStep ==
    ASSUME Inv, FinalizeExecLambdaApplication, OperandsFound PROVE Inv' /\ FrameStep
<1> DEFINE kind == KindNow(vm_d)
           env == Last(vm_s).elems
<1>1. /\ vm_c # <<>> /\ Last(vm_c) = String(FinalizeLambdaName)
      /\ vm_s' = Append(Front(vm_s), LambdaValue(env)) /\ vm_c' = Front(vm_c)
      /\ vm_i' = vm_i /\ UNCHANGED <<vm_e, vm_d, vm_x, value>>
      /\ vm_errno' = vm_errno /\ trapped' = trapped
  BY DEF FinalizeExecLambdaApplication, Runs, others
<1>2. /\ env # <<>> /\ IsBndl(env[1])
      /\ env[1] = Bndl(<<>>) =>
            Len(env) > 1 /\ (IsBndl(env[2]) \/ env[2].addr \notin SemaphoreNames)
  BY DEF FinalizeExecLambdaApplication, OperandsFound
<1>3. "plain" \in Kinds /\ FinalizerOf("plain") = FinalizeLambdaName
  BY DEF Kinds, FinalizerOf
<1>4. Pending(kind, vm_i, <<>>) /\ Dirty("plain", vm_s) /\ Front(vm_c) = <<>>
  BY <1>1, <1>3, FinalizerIs
<1>5. LooseSeq(env) /\ IsSeq(env)
  BY <1>4 DEF Dirty, EnvOK, LooseSeq
<1> HIDE DEF env
<1>6. Good(LambdaValue(env))
  <2>1. Len(env) \in Nat /\ Len(env) >= 1
    BY <1>2, <1>5, NotEmpty
  <2>2. \A n \in 1 .. Len(env) : Loose(env[n])
    BY <1>5, LooseSeqs
  <2>3. CASE env[1] = Bndl(<<>>)
    <3>1. 2 \in 1 .. Len(env)
      BY <1>2, <2>1, <2>3
    <3>2. Good(env[2])
      BY <1>2, <2>2, <2>3, <3>1, LooseGood
    <3> QED BY <2>3, <3>2 DEF LambdaValue
  <2>4. CASE env[1] # Bndl(<<>>)
    <3>1. 1 \in 1 .. Len(env)
      BY <2>1
    <3>2. Good(env[1])
      BY <1>2, <2>2, <3>1, LooseGood
    <3>3. GoodSeq(env[1].elems) /\ env[1].elems # <<>>
      BY <1>2, <2>4, <3>2, GoodForm
    <3> QED BY <2>4, <3>3, GoodSeqs DEF LambdaValue
  <2> QED BY <2>3, <2>4
<1>7. GoodSeq(vm_s')
  BY <1>1, <1>4, <1>6, GoodSeqs DEF Dirty
<1>8. Idle(kind, vm_i', vm_c', vm_s')
  BY <1>1, <1>4, <1>7, PendingIdle
<1>9. ~Waits(vm_i', vm_c') /\ Phase(kind, vm_i', vm_c', vm_s')
  BY <1>8, Calm DEF Phase
<1>10. ~Waits(vm_i, vm_c)
  <2>1. FinalizeLambdaName # FinalizeExecName
    BY DEF FinalizeLambdaName, FinalizeExecName
  <2> QED BY <1>1, <2>1, StringKind DEF Waits
<1> QED BY <1>1, <1>9, <1>10, Quiet DEF Inv

(* What a file left, behind the environment. *)
LEMMA FinalizeTopLevelStep ==
    ASSUME Inv, FinalizeTopLevelExec, OperandsFound PROVE Inv' /\ FrameStep
<1> DEFINE kind == KindNow(vm_d)
           bs == Last(vm_s).elems
           loaded == SubSeq(vm_e', Len(vm_e) + 1, Len(vm_e'))
<1>1. /\ vm_c # <<>> /\ Last(vm_c) = TL /\ Last(vm_c) = String(FinalizeTopLevelName)
      /\ vm_e' = vm_e \o bs /\ vm_s' = Front(vm_s) /\ vm_c' = Front(vm_c)
      /\ vm_i' = vm_i /\ UNCHANGED <<vm_d, vm_x, value, vm_errno, trapped>>
  BY DEF FinalizeTopLevelExec, Runs, others, TL
<1>2. vm_s # <<>> /\ IsBndl(Last(vm_s))
  BY DEF FinalizeTopLevelExec, OperandsFound, Reads
<1>3. Idle(kind, vm_i, vm_c, vm_s)
  BY <1>1, PhaseOf DEF Inv
<1>4. /\ ItemsOnly(kind, vm_i \o Front(vm_c)) /\ Pieces(Front(vm_c)) /\ IsSeq(vm_i)
      /\ GoodSeq(vm_s)
  BY <1>1, <1>3, MarkRuns, MarkNames
<1>5. Good(Last(vm_s)) /\ GoodSeq(vm_s')
  BY <1>1, <1>2, <1>4, GoodSeqs
<1>6. GoodSeq(bs)
  BY <1>2, <1>5, GoodForm
<1> HIDE DEF bs
<1>7. Idle(kind, vm_i', vm_c', vm_s')
  BY <1>1, <1>4, <1>5, ItemsPending, PendingIdle
<1>8. ~Waits(vm_i, vm_c) /\ ~Waits(vm_i', vm_c') /\ Phase(kind, vm_i', vm_c', vm_s')
  BY <1>3, <1>7, Calm DEF Phase
<1>9. EnvOK(kind, vm_e')
  BY <1>1, <1>6, EnvLoad DEF Inv
<1>10. Inv'
  BY <1>1, <1>8, <1>9 DEF Inv
<1>11. loaded = bs
  <2>1. IsSeq(vm_e) /\ IsSeq(bs)
    BY <1>6 DEF Inv, EnvOK, LooseSeq, GoodSeq
  <2>2. /\ IsSeq(vm_e') /\ Len(vm_e') = Len(vm_e) + Len(bs)
        /\ \A n \in 1 .. Len(bs) : vm_e'[Len(vm_e) + n] = bs[n]
    BY <1>1, <2>1, ConcatSeq
  <2>3. Len(vm_e) \in Nat /\ Len(bs) \in Nat /\ Len(vm_e') \in Nat
    BY <2>1, <2>2, SeqType
  <2>4. /\ IsSeq(loaded)
        /\ Len(loaded) = IF Len(vm_e) + 1 <= Len(vm_e')
                         THEN (Len(vm_e') - (Len(vm_e) + 1)) + 1 ELSE 0
        /\ \A n \in 1 .. (Len(vm_e') - (Len(vm_e) + 1)) + 1 :
              loaded[n] = vm_e'[((Len(vm_e) + 1) + n) - 1]
    BY <2>2, <2>3, SubSeqRange
  <2> HIDE DEF loaded
  <2>5. Len(loaded) = Len(bs)
    BY <2>2, <2>3, <2>4
  <2>6. ASSUME NEW n \in 1 .. Len(bs) PROVE loaded[n] = bs[n]
    <3>1. /\ n \in 1 .. (Len(vm_e') - (Len(vm_e) + 1)) + 1
          /\ ((Len(vm_e) + 1) + n) - 1 = Len(vm_e) + n
      BY <2>2, <2>3
    <3> QED BY <2>2, <2>4, <3>1
  <2> QED BY <2>1, <2>4, <2>5, <2>6, SameSeq
<1> HIDE DEF loaded
<1>12. ~FinalizerWaits /\ ~FinalizerWaits'
  BY <1>8 DEF FinalizerWaits, Runs, Waits
<1>13. Frames!Load(loaded)
  BY <1>1, <1>11, <1>12 DEF Frames!Load, Frames!Running
<1>14. \A n \in DOMAIN loaded : IsBinding(loaded[n])
  <2>1. IsSeq(bs) /\ \A e \in Range(bs) : IsBinding(e)
    BY <1>6, GoodBinding DEF GoodSeq
  <2> QED BY <1>11, <2>1, RangeIs, SeqType
<1> QED BY <1>10, <1>13, <1>14 DEF FrameStep, loaded

-----------------------------------------------------------------------------
(* Application. *)
LEMMA ApplyTopStep ==
    ASSUME Inv, NEW x \in {"/!/o/apply", "/!/o/funcall"}, Runs(x),
           NEW s, GoodSeq(s), s # <<>>, ApplyTop(s), LambdaFits(s),
           UNCHANGED <<vm_i, vm_e, vm_d, vm_x, vm_errno, value>>
    PROVE  Inv' /\ FrameStep
<1> DEFINE kind == KindNow(vm_d)
           top == Last(s)
           tt == IF IsBndl(top) THEN "" ELSE ArgType(top)
           e == Unthunk(IF tt = "B" THEN BlobToElem(top) ELSE top)
<1>1. x \in Natives \ Internal
  BY ProgramNatives
<1>2. Pending(kind, vm_i, Front(vm_c)) /\ ~Waits(vm_i, vm_c)
  BY <1>1, NativeIdle
<1>3. vm_errno' \in Errors
  BY DEF Inv
<1>4. Good(top) /\ IsSeq(s)
  BY GoodSeqs DEF GoodSeq
<1>5. ASSUME trapped' = TRUE, UNCHANGED <<vm_s, vm_c>> PROVE Inv' /\ FrameStep
  <2>1. Phase(kind, vm_i', vm_c', vm_s') /\ ~Waits(vm_i', vm_c')
    BY <1>2, <1>5 DEF Inv
  <2> QED BY <1>2, <1>3, <1>5, <2>1, Quiet
<1>6. CASE Len(s) = 1
  BY <1>5, <1>6 DEF ApplyTop
<1>7. CASE Len(s) # 1 /\ tt = "L"
  <2>1. IsLambda(top)
    BY <1>7 DEF IsLambda
  <2>2. Len(s) > 1
    <3>1. Len(s) \in Nat /\ Len(s) >= 1
      BY <1>4, NotEmpty
    <3>2. \A n \in Nat : n >= 1 /\ n # 1 => n > 1
      OBVIOUS
    <3> QED BY <1>7, <3>1, <3>2
  <2>3. ApplyLambda(s)
    BY <1>7 DEF ApplyTop
  <2> DEFINE body == top.items[1].elems[1]
  <2>4. CASE IsBndl(body) \/ ArgType(body) \notin {"b", "B"}
    BY <1>5, <2>3, <2>4 DEF ApplyLambda
  <2>5. CASE ~(IsBndl(body) \/ ArgType(body) \notin {"b", "B"})
    <3>1. /\ vm_s' = LambdaStack(s) /\ trapped' = trapped
          /\ vm_c' = Append(Front(vm_c), String("/!/o/execlambdaapp"))
      BY <2>3, <2>5 DEF ApplyLambda, LambdaStack
    <3>2. Dirty("plain", vm_s')
      BY <2>1, <2>2, <2>5, <3>1, LambdaDirty
    <3>3. Applying(kind, vm_i', vm_c', vm_s')
      BY <1>2, <3>1, <3>2 DEF Applying
    <3>4. ~Waits(vm_i', vm_c') /\ Phase(kind, vm_i', vm_c', vm_s')
      BY <3>3, Calm DEF Phase
    <3>5. trapped' \in BOOLEAN
      BY <3>1 DEF Inv
    <3> QED BY <1>2, <1>3, <3>4, <3>5, Quiet
  <2> QED BY <2>4, <2>5
<1>8. CASE Len(s) # 1 /\ tt # "L"
  <2>1. /\ vm_s' = Append(Front(s), e) /\ trapped' = trapped
        /\ vm_c' = Append(Front(vm_c), String("/!/apply"))
    BY <1>8 DEF ApplyTop
  <2>2. tt = "B" => Good(BlobToElem(top))
    BY <1>4, GoodCarried, GoodBndl DEF BlobToElem
  <2>3. Good(e)
    BY <1>4, <2>2, GoodUnthunk
  <2> HIDE DEF e
  <2>4. GoodSeq(vm_s')
    BY <2>1, <2>3, GoodFront, GoodSeqs
  <2>5. "/!/apply" \notin Internal
    BY ProgramNatives
  <2>6. trapped' \in BOOLEAN
    BY <2>1 DEF Inv
  <2> QED BY <1>1, <1>3, <2>1, <2>4, <2>5, <2>6, NativeDone
<1> QED BY <1>6, <1>7, <1>8

LEMMA ApplyStep == ASSUME Inv, Apply, OperandsFound PROVE Inv' /\ FrameStep
<1>1. /\ Runs("/!/o/apply") /\ ApplyTop(vm_s) /\ vm_s # <<>> /\ LambdaFits(vm_s)
      /\ UNCHANGED <<vm_i, vm_e, vm_d, vm_x, vm_errno, value>>
  BY DEF Apply, OperandsFound, Reads
<1>2. GoodSeq(vm_s)
  BY <1>1, ProgramNatives, NativeIdle
<1> QED BY <1>1, <1>2, ApplyTopStep

LEMMA FuncallStep == ASSUME Inv, Funcall, OperandsFound PROVE Inv' /\ FrameStep
<1> DEFINE a == Bndl(Front(vm_s))
           b == Last(vm_s)
           s == <<a, b>>
<1>1. /\ Runs("/!/o/funcall") /\ ApplyTop(s) /\ vm_s # <<>> /\ LambdaFits(s)
      /\ UNCHANGED <<vm_i, vm_e, vm_d, vm_x, vm_errno, value>>
  BY DEF Funcall, OperandsFound, Reads
<1>2. GoodSeq(vm_s)
  BY <1>1, ProgramNatives, NativeIdle
<1>3. Good(a) /\ Good(b)
  BY <1>1, <1>2, GoodFront, GoodBndl, GoodSeqs
<1>4. s = <<a>> \o <<b>>
  BY TwoIs
<1> HIDE DEF a, b
<1>5. s # <<>>
  BY EmptyIsSeq
<1> HIDE DEF s
<1>6. GoodSeq(s)
  BY <1>3, <1>4, GoodSeqs
<1> QED BY <1>1, <1>5, <1>6, ApplyTopStep

LEMMA DefnStep == ASSUME Inv, Defn, OperandsFound PROVE Inv' /\ FrameStep
<1> DEFINE e == Msg("", <<Lambda(Last(vm_s).elems)>>)
<1>1. /\ Runs("/!/o/defn") /\ vm_s' = Append(Front(vm_s), e) /\ vm_c' = Front(vm_c)
      /\ UNCHANGED <<vm_i, vm_e, vm_d, vm_x, value>>
      /\ vm_errno' = vm_errno /\ trapped' = trapped
      /\ vm_s # <<>> /\ IsBndl(Last(vm_s))
  BY DEF Defn, others, OperandsFound, Reads
<1>2. "/!/o/defn" \in Natives \ Internal
  BY ProgramNatives
<1>3. GoodSeq(vm_s)
  BY <1>1, <1>2, NativeIdle
<1>4. Good(e)
  <2>1. GoodSeq(Last(vm_s).elems)
    BY <1>1, <1>3, GoodSeqs, GoodForm
  <2>2. GoodItem(Lambda(Last(vm_s).elems))
    BY <2>1, GoodElems DEF Lambda
  <2> QED BY <2>2, GoodItemsSeqs, GoodMsg, NoName
<1> HIDE DEF e
<1>5. GoodSeq(vm_s')
  BY <1>1, <1>3, <1>4, GoodFront, GoodSeqs
<1> QED BY <1>1, <1>2, <1>5, NativeDone DEF Inv

(* The natives of oscript_lib.c. *)
LEMMA IfTooFewStep == ASSUME Inv, IfTooFew PROVE Inv' /\ FrameStep
<1>1. /\ Runs("/!/o/if") /\ vm_errno' = "OSE_ERR_ELEM_COUNT" /\ vm_c' = Front(vm_c)
      /\ vm_s' = IF vm_s = <<>> THEN vm_s ELSE UnpackDrop(vm_s)
      /\ UNCHANGED <<vm_i, vm_e, vm_d, vm_x, value>> /\ trapped' = trapped
  BY DEF IfTooFew
<1>2. "/!/o/if" \in Natives \ Internal
  BY ProgramNatives
<1>3. GoodSeq(vm_s')
  BY <1>1, <1>2, NativeIdle, GoodUnpack
<1>4. vm_errno' \in Errors /\ trapped' \in BOOLEAN
  BY <1>1 DEF Inv, Errors
<1> QED BY <1>1, <1>2, <1>3, <1>4, NativeDone

LEMMA IfStep == ASSUME Inv, If PROVE Inv' /\ FrameStep
<1> DEFINE s == UnpackDrop(vm_s)
<1>1. /\ Runs("/!/o/if") /\ vm_s # <<>> /\ Len(s) >= 3
      /\ \E n \in {1, 2} : vm_s' = Append(DropTop(s, 3), Branch(FromTop(s, n)))
      /\ vm_c' = Append(Front(vm_c), String("/!/o/exec"))
      /\ UNCHANGED <<vm_i, vm_e, vm_d, vm_x, value>>
      /\ vm_errno' = vm_errno /\ trapped' = trapped
  BY DEF If, others
<1>2. "/!/o/if" \in Natives \ Internal /\ "/!/o/exec" \notin Internal
  BY ProgramNatives
<1>3. GoodSeq(s)
  BY <1>1, <1>2, NativeIdle, GoodUnpack
<1> HIDE DEF s
<1>4. PICK n \in {1, 2} : vm_s' = Append(DropTop(s, 3), Branch(FromTop(s, n)))
  BY <1>1
<1>5. n \in Nat /\ n < Len(s) /\ 3 \in Nat
  BY <1>1, <1>3, <1>4, SeqType DEF GoodSeq
<1>6. Good(Branch(FromTop(s, n))) /\ GoodSeq(DropTop(s, 3))
  BY <1>3, <1>5, GoodFromTop, GoodBranch, GoodDrop
<1>7. GoodSeq(vm_s')
  BY <1>4, <1>6, GoodSeqs
<1> QED BY <1>1, <1>2, <1>7, NativeDone DEF Inv

LEMMA PartOfListStep == ASSUME Inv, PartOfList, OperandsFound PROVE Inv' /\ FrameStep
<1>1. PICK x \in {"/!/o/first", "/!/o/last", "/!/o/rest", "/!/o/butlast"} :
         /\ Runs(x)
         /\ vm_s' \in {FirstOf(vm_s), LastOf(vm_s), RestOf(vm_s), ButlastOf(vm_s)}
  BY DEF PartOfList
<1>2. /\ vm_c' = Front(vm_c) /\ UNCHANGED <<vm_i, vm_e, vm_d, vm_x, value>>
      /\ vm_errno' = vm_errno /\ trapped' = trapped
  BY DEF PartOfList, others
<1>3. x \in Natives \ Internal
  BY ProgramNatives
<1>4. vm_s # <<>> /\ HasParts(vm_s) /\ HasParts(Pop(vm_s))
  BY <1>1 DEF OperandsFound, Reads
<1>5. GoodSeq(vm_s')
  BY <1>1, <1>3, <1>4, NativeIdle, GoodPartOfList
<1> QED BY <1>1, <1>2, <1>3, <1>5, NativeDone DEF Inv

-----------------------------------------------------------------------------
(* /o/load *)
LEMMA LoadStackGood ==
    ASSUME GoodSeq(vm_s) PROVE GoodSeq(LoadStack)
<1>1. CASE vm_s # <<>> /\ IsBndl(Last(vm_s))
  <2>1. GoodSeq(Last(vm_s).elems)
    BY <1>1, GoodSeqs, GoodForm
  <2> QED BY <1>1, <2>1, GoodFront, GoodSeqs DEF LoadStack
<1> QED BY <1>1 DEF LoadStack

LEMMA LoadFailsStep == ASSUME Inv, LoadFails PROVE Inv' /\ FrameStep
<1>1. /\ Runs("/!/o/load") /\ vm_errno' = LoadChecks /\ vm_c' = Front(vm_c)
      /\ vm_s' = LoadStack
      /\ UNCHANGED <<vm_i, vm_e, vm_d, vm_x, value>> /\ trapped' = trapped
  BY DEF LoadFails
<1>2. "/!/o/load" \in Natives \ Internal
  BY ProgramNatives
<1>3. GoodSeq(vm_s')
  BY <1>1, <1>2, NativeIdle, LoadStackGood
<1>4. vm_errno' \in Errors /\ trapped' \in BOOLEAN
  <2>1. \A s : LoadError(s) \in Errors
    BY DEF LoadError, Errors
  <2> QED BY <1>1, <2>1 DEF Inv, LoadChecks, Errors
<1> QED BY <1>1, <1>2, <1>3, <1>4, NativeDone

LEMMA LoadStep == ASSUME Inv, Load, OperandsFound PROVE Inv' /\ FrameStep
<1> DEFINE kind == KindNow(vm_d)
           d == Front(vm_c)
           a == String("/!/drop")
           b == String("/!/exec1")
           c == String("/!/o/parse")
<1>1. /\ Runs("/!/o/load") /\ LoadChecks = "OSE_ERR_NONE"
      /\ Last(LoadStack).items[1].val \in DOMAIN ParsedFile
      /\ vm_s' = LoadStack /\ vm_c' = d \o <<a, b, c>>
      /\ vm_i' = Append(DropTop(vm_i, 2), TL)
      /\ UNCHANGED <<vm_e, vm_d, vm_x, value>>
      /\ vm_errno' = vm_errno /\ trapped' = trapped
  BY DEF Load, others, TL
<1>2. Len(vm_i) > 1 /\ FromTop(vm_i, 1) = FE
  BY <1>1 DEF OperandsFound, FE
<1>3. "/!/o/load" \in Natives \ Internal
  BY ProgramNatives
<1>4. Pending(kind, vm_i, d) /\ GoodSeq(vm_s) /\ ~Waits(vm_i, vm_c)
  BY <1>1, <1>3, NativeIdle
<1>5. Pending(kind, vm_i', d)
  BY <1>1, <1>2, <1>4, LoadPending
<1>6. vm_c' = Append(ToEvaluate(d), String("/!/o/parse"))
  <2>1. IsSeq(d)
    BY <1>4 DEF Pending, Pieces
  <2> HIDE DEF a, b, c, d
  <2>2. vm_c' = ((d \o <<a>>) \o <<b>>) \o <<c>>
    BY <1>1, <2>1, ThreeBehind
  <2>3. Append(d, a) = d \o <<a>> /\ IsSeq(Append(d, a))
    BY <2>1, AppendIs, AppendSeq
  <2>4. /\ Append(Append(d, a), b) = Append(d, a) \o <<b>>
        /\ IsSeq(Append(Append(d, a), b))
    BY <2>3, AppendIs, AppendSeq
  <2>5. Append(Append(Append(d, a), b), c) = Append(Append(d, a), b) \o <<c>>
    BY <2>4, AppendIs
  <2>6. vm_c' = Append(Append(Append(d, a), b), c)
    BY <2>2, <2>3, <2>4, <2>5
  <2> QED BY <2>6 DEF ToEvaluate, a, b, c
<1>7. GoodSeq(vm_s') /\ vm_s' # <<>>
  <2>1. LoadStack # <<>>
    <3>1. vm_s # <<>> /\ IsBndl(Last(vm_s)) => LoadError(LoadStack) = "OSE_ERR_NONE"
      BY <1>1 DEF LoadChecks
    <3>2. LoadError(<<>>) = "OSE_ERR_ELEM_COUNT"
      BY DEF LoadError
    <3>3. vm_s # <<>> /\ ~IsBndl(Last(vm_s)) => LoadChecks = "OSE_ERR_ELEM_TYPE"
      BY DEF LoadChecks
    <3>4. vm_s = <<>> => LoadChecks = LoadError(<<>>)
      BY DEF LoadChecks, LoadStack
    <3> QED BY <1>1, <3>1, <3>2, <3>3, <3>4
  <2> QED BY <1>1, <1>4, <2>1, LoadStackGood
<1>8. Last(vm_s').items[1].val \in DOMAIN ParsedFile
  BY <1>1
<1>9. Parsing(kind, vm_i', vm_c', vm_s')
  BY <1>5, <1>6, <1>7, <1>8 DEF Parsing
<1>10. ~Waits(vm_i', vm_c') /\ Phase(kind, vm_i', vm_c', vm_s')
  BY <1>9, Calm DEF Phase
<1> QED BY <1>1, <1>4, <1>10, Quiet DEF Inv

LEMMA ParseStep == ASSUME Inv, Parse PROVE Inv' /\ FrameStep
<1> DEFINE kind == KindNow(vm_d)
           file == Last(vm_s).items[1].val
           e == Parsed(file)
<1>1. /\ vm_c # <<>> /\ Last(vm_c) = String("/!/o/parse")
      /\ vm_s' = Append(Front(vm_s), e) /\ vm_c' = Front(vm_c) /\ vm_i' = vm_i
      /\ UNCHANGED <<vm_e, vm_d, vm_x, value>>
      /\ vm_errno' = vm_errno /\ trapped' = trapped
  BY DEF Parse, Runs, others
<1>2. Parsing(kind, vm_i, vm_c, vm_s)
  BY <1>1, PhaseOf DEF Inv
<1>3. PICK d : /\ vm_c = Append(ToEvaluate(d), String("/!/o/parse"))
               /\ Pending(kind, vm_i, d)
               /\ GoodSeq(vm_s) /\ vm_s # <<>> /\ file \in DOMAIN ParsedFile
  BY <1>2 DEF Parsing
<1>4. Good(e) /\ IsBndl(e)
  <2>1. Good(Bndl(<<>>)) /\ IsBndl(Bndl(<<>>))
    BY GoodBndl, GoodSeqs, BndlKind
  <2>2. Good(V!TopLevelBundle(ParsedFile[file])) /\ IsBndl(V!TopLevelBundle(ParsedFile[file]))
    BY <1>3, GoodParsed DEF V!TopLevelBundle, V!Bndl, IsBndl
  <2> QED BY <2>1, <2>2 DEF Parsed
<1> HIDE DEF e
<1>5. vm_c' = ToEvaluate(d)
  <2>1. Pieces(ToEvaluate(d))
    BY <1>3, PiecesSeqs, StringPiece DEF Pending, ToEvaluate
  <2> QED BY <1>1, <1>3, <2>1, NativeOnTop DEF Pieces
<1>6. GoodSeq(vm_s') /\ vm_s' # <<>> /\ Last(vm_s') = e
  <2>1. GoodSeq(Front(vm_s)) /\ IsSeq(Front(vm_s))
    BY <1>3, GoodFront DEF GoodSeq
  <2> QED BY <1>1, <1>4, <2>1, GoodSeqs, AppendRange
<1>7. Evaluating(kind, vm_i', vm_c', vm_s')
  BY <1>1, <1>3, <1>4, <1>5, <1>6 DEF Evaluating
<1>8. ~Waits(vm_i, vm_c) /\ ~Waits(vm_i', vm_c') /\ Phase(kind, vm_i', vm_c', vm_s')
  BY <1>2, <1>7, Calm DEF Phase
<1> QED BY <1>1, <1>8, Quiet DEF Inv

LEMMA StutterStep == ASSUME Inv, UNCHANGED vars PROVE Inv' /\ FrameStep
<1>1. Inv'
  BY DEF vars, others, Inv
<1>2. UNCHANGED Frames!vars
  BY DEF vars, others, Frames!vars, FinalizerWaits, Runs
<1> QED BY <1>1, <1>2 DEF FrameStep

LEMMA NextStep == ASSUME Inv, [Next]_vars, OperandsFound PROVE Inv' /\ FrameStep
<1>1. CASE PopInput \/ EvalType \/ Lookup \/ ApplyNative \/ Exec1 \/ Drop \/ Return
  BY <1>1, PopInputStep, EvalTypeStep, LookupStep, ApplyNativeStep, Exec1Step,
     DropStep, ReturnStep
<1>2. CASE Exec \/ ExecEmpty \/ ExecLambdaApplication
  BY <1>2, ExecStep, ExecEmptyStep, ExecLambdaApplicationStep
<1>3. CASE \/ FinalizeElem \/ FinalizeExec \/ FinalizeExecLambdaApplication
           \/ FinalizeTopLevelExec
  BY <1>3, FinalizeElemStep, FinalizeExecStep, FinalizeLambdaStep, FinalizeTopLevelStep
<1>4. CASE Apply \/ Funcall \/ Defn
  BY <1>4, ApplyStep, FuncallStep, DefnStep
<1>5. CASE If \/ IfTooFew \/ PartOfList \/ Load \/ LoadFails \/ Parse
  BY <1>5, IfStep, IfTooFewStep, PartOfListStep, LoadStep, LoadFailsStep, ParseStep
<1>6. CASE UNCHANGED vars
  BY <1>6, StutterStep
<1> QED BY <1>1, <1>2, <1>3, <1>4, <1>5, <1>6 DEF Next, Step, Finished

-----------------------------------------------------------------------------
(* What the five bundles hold. *)
Elems(s) == IsSeq(s) /\ \A e \in Range(s) : IsElem(e)

LEMMA ElemForms ==
    /\ \A es : IsElem(Bndl(es))
    /\ \A a, items : GoodItems(items) => IsElem(Msg(a, items))
    /\ \A x : IsElem(String(x))
    /\ IsElem(Msg(FinalizeElemName, <<>>))
<1>1. \A es : DOMAIN Bndl(es) = {"elems"}
  BY DEF Bndl
<1>2. \A a, items : /\ DOMAIN Msg(a, items) = {"addr", "items"}
                    /\ Msg(a, items).items = items
  BY DEF Msg
<1>3. ASSUME NEW x, GoodItem(x)
      PROVE  "tt" \in DOMAIN x /\ x.tt \in {"s", "i", "b", "B", "L"}
  BY <1>3, GoodItemForm
<1>4. ASSUME NEW a, NEW items,
             \A n \in DOMAIN items :
                "tt" \in DOMAIN items[n] /\ items[n].tt \in {"s", "i", "b", "B", "L"}
      PROVE  IsElem(Msg(a, items))
  BY <1>2, <1>4 DEF IsElem
<1>5. ASSUME NEW a, NEW items, GoodItems(items) PROVE IsElem(Msg(a, items))
  <2>1. \A n \in DOMAIN items : GoodItem(items[n])
    BY <1>5, SeqType, RangeIs DEF GoodItems
  <2> QED BY <1>3, <1>4, <2>1
<1>6. ASSUME NEW x PROVE IsElem(String(x))
  <2>1. "tt" \in DOMAIN Str(x) /\ Str(x).tt = "s"
    BY DEF Str
  <2> DEFINE items == <<Str(x)>>
  <2>2. \A n \in DOMAIN items : items[n] = Str(x)
    OBVIOUS
  <2>3. String(x) = Msg("", items)
    BY DEF String
  <2> HIDE DEF items
  <2>4. \A n \in DOMAIN items :
           "tt" \in DOMAIN items[n] /\ items[n].tt \in {"s", "i", "b", "B", "L"}
    BY <2>1, <2>2
  <2>5. IsElem(Msg("", items))
    BY <1>4, <2>4
  <2> QED BY <2>3, <2>5
<1>7. IsElem(Msg(FinalizeElemName, <<>>))
  BY <1>5, GoodItemsSeqs
<1> QED BY <1>1, <1>5, <1>6, <1>7 DEF IsElem

LEMMA LooseElem == ASSUME NEW e, Loose(e) PROVE IsElem(e)
<1>1. CASE IsBndl(e)
  BY <1>1, GoodForm, ElemForms DEF Loose
<1>2. CASE ~IsBndl(e)
  BY <1>2, ElemForms DEF Loose
<1> QED BY <1>1, <1>2

LEMMA ElemsSeqs ==
    /\ Elems(<<>>)
    /\ \A s, e : Elems(s) /\ IsElem(e) => Elems(Append(s, e))
    /\ \A s : GoodSeq(s) => Elems(s)
    /\ \A s : LooseSeq(s) => Elems(s)
    /\ \A kind, s : ItemsOnly(kind, s) => Elems(s)
    /\ \A s : Elems(s) => \A n \in DOMAIN s : IsElem(s[n])
<1>1. Elems(<<>>)
  BY EmptyIsSeq, EmptyRange DEF Elems
<1>2. \A s, e : Elems(s) /\ IsElem(e) => Elems(Append(s, e))
  BY AppendRange DEF Elems
<1>3. \A s : LooseSeq(s) => Elems(s)
  BY LooseElem DEF Elems, LooseSeq
<1>4. \A s : GoodSeq(s) => Elems(s)
  BY <1>3, GoodSeqLoose
<1>5. \A kind, s : ItemsOnly(kind, s) => Elems(s)
  BY LooseElem DEF Elems, ItemsOnly, Item
<1>6. \A s : Elems(s) => \A n \in DOMAIN s : IsElem(s[n])
  BY SeqType, RangeIs DEF Elems
<1> QED BY <1>1, <1>2, <1>3, <1>4, <1>5, <1>6

LEMMA WorkElems ==
    ASSUME NEW kind, NEW i, NEW c, IsSeq(i), Pieces(c), Work(kind, i \o c)
    PROVE  Elems(i) /\ Elems(c)
<1> DEFINE w == i \o c
<1>1. IsSeq(i) /\ IsSeq(c) /\ IsSeq(w) /\ Range(w) = Range(i) \union Range(c)
  BY ConcatRange DEF Pieces, Work
<1> HIDE DEF w
<1>2. \A e \in Marks : IsElem(e)
  BY ElemForms DEF Marks, FE, TL
<1>3. \A n \in 1 .. Len(w) : IsElem(w[n])
  BY <1>2, LooseElem DEF Work, Item, w
<1>4. \A e \in Range(w) : IsElem(e)
  BY <1>1, <1>3, RangeIs
<1> QED BY <1>1, <1>4 DEF Elems

LEMMA PendingElems ==
    ASSUME NEW kind, NEW i, NEW c, Pending(kind, i, c) PROVE Elems(i) /\ Elems(c)
BY WorkElems DEF Pending

LEMMA DirtyElems == ASSUME NEW kind, NEW s, Dirty(kind, s) PROVE Elems(s)
<1>1. s # <<>> /\ IsSeq(s) /\ GoodSeq(Front(s)) /\ Last(s) = Bndl(Last(s).elems)
  BY DEF Dirty
<1>2. s = Append(Front(s), Last(s))
  BY <1>1, FrontRange
<1>3. Elems(Front(s)) /\ IsElem(Last(s))
  BY <1>1, ElemsSeqs, ElemForms
<1> QED BY <1>2, <1>3, ElemsSeqs

LEMMA PhaseElems ==
    ASSUME NEW kind, NEW i, NEW c, NEW s, Phase(kind, i, c, s)
    PROVE  Elems(i) /\ Elems(c) /\ Elems(s)
<1>1. \A d, x : Elems(d) => Elems(Append(d, String(x)))
  BY ElemsSeqs, ElemForms
<1>2. CASE Idle(kind, i, c, s)
  BY <1>2, WorkElems, ElemsSeqs DEF Idle
<1>3. CASE Starting(kind, i, c, s)
  BY <1>3, ElemsSeqs, ElemForms DEF Starting
<1>4. CASE Returned(kind, i, c, s)
  BY <1>1, <1>4, PendingElems, DirtyElems, ElemsSeqs DEF Returned
<1>5. CASE Finalizing(kind, i, c, s)
  BY <1>1, <1>5, PendingElems, DirtyElems, ElemsSeqs DEF Finalizing
<1>6. CASE Dropping(kind, i, c, s)
  BY <1>1, <1>6, PendingElems, DirtyElems DEF Dropping
<1>7. CASE Applying(kind, i, c, s)
  BY <1>1, <1>7, PendingElems, DirtyElems DEF Applying
<1>8. CASE Evaluating(kind, i, c, s)
  BY <1>1, <1>8, PendingElems, ElemsSeqs DEF Evaluating, ToEvaluate
<1>9. CASE Parsing(kind, i, c, s)
  BY <1>1, <1>9, PendingElems, ElemsSeqs DEF Parsing, ToEvaluate
<1> QED BY <1>2, <1>3, <1>4, <1>5, <1>6, <1>7, <1>8, <1>9 DEF Phase

LEMMA InvType == Inv => TypeOK
<1> SUFFICES ASSUME Inv PROVE TypeOK
  OBVIOUS
<1>1. Elems(vm_i) /\ Elems(vm_c) /\ Elems(vm_s)
  BY PhaseElems DEF Inv
<1>2. Elems(vm_e) /\ Elems(vm_x)
  BY ElemsSeqs DEF Inv, EnvOK
<1>3. ASSUME NEW n \in DOMAIN vm_d
      PROVE  DOMAIN vm_d[n] = {"input", "env", "stack", "control"}
  <2>1. FrameOK(KindIn(vm_d, n), vm_d[n])
    BY <1>3, SeqType DEF Inv, DumpOK
  <2> QED BY <2>1 DEF FrameOK
<1>4. \A bundle \in {vm_i, vm_s, vm_e, vm_c, vm_x} :
         \A n \in DOMAIN bundle : IsElem(bundle[n])
  BY <1>1, <1>2, ElemsSeqs
<1> QED BY <1>3, <1>4 DEF TypeOK, Inv, Errors

LEMMA InvAddress == Inv => FinalizerSeesAddress
<1> SUFFICES ASSUME Inv, Runs(FinalizeElemName), vm_s # <<>> PROVE IsString(Last(vm_s))
  BY DEF FinalizerSeesAddress
<1>1. vm_c # <<>> /\ Last(vm_c) = FE /\ Last(vm_c) = String(FinalizeElemName)
  BY DEF Runs, FE
<1>2. Idle(KindNow(vm_d), vm_i, vm_c, vm_s)
  BY <1>1, PhaseOf DEF Inv
<1>3. IsName(KindNow(vm_d), Last(vm_s))
  BY <1>1, <1>2, MarkRuns, MarkNames
<1> QED BY <1>3, NameIsString

LEMMA InvValue == Inv => NoSemaphoreInValue
<1> SUFFICES ASSUME Inv PROVE NoSemaphoreInValue
  OBVIOUS
<1>1. IsSeq(value) /\ \A e \in Range(value) : IsBinding(e)
  BY GoodBinding DEF Inv, GoodSeq
<1> QED BY <1>1, SeqType, RangeIs DEF NoSemaphoreInValue

-----------------------------------------------------------------------------
(* What is left on the stack.  Until the elements of a bundle are finalized*)
(* there is a finalizer on the input or the control of its frame; it is    *)
(* alone on the control.  It is not put back once a /o/load has taken it   *)
(* away, in the frame that loads and in no other.                          *)
FM == Msg(FinalizeElemName, <<>>)
Finalizers == {FE, FM}
Holds(w) == \E e \in Range(w) : e \in Finalizers

Alone(c) == ~Holds(c) \/ c = <<FE>>

Tidy(kind, loads, i, c, s) ==
    kind = "exec" =>
        loads \/ Holds(i) \/ Holds(c) \/ (i = <<>> /\ c = <<>> /\ s = <<>>)

TidyFrame(kind, loads, frame) ==
    /\ ~Holds(frame.control)
    /\ kind = "exec" => loads \/ Holds(frame.input)

(* The n-th frame of the dump was opened when n - 1 were in it. *)
TidyDump(dump, loads) ==
    \A n \in 1 .. Len(dump) : TidyFrame(KindIn(dump, n), n - 1 \in loads, dump[n])

LoadedNow == Len(vm_d) \in loadedIn

InvTidy ==
    /\ Alone(vm_c)
    /\ Tidy(KindNow(vm_d), LoadedNow, vm_i, vm_c, vm_s)
    /\ TidyDump(vm_d, loadedIn)

LEMMA HoldsSeqs ==
    /\ ~Holds(<<>>)
    /\ \A e : Holds(<<e>>) <=> e \in Finalizers
    /\ \A s, t : IsSeq(s) /\ IsSeq(t) => (Holds(s \o t) <=> Holds(s) \/ Holds(t))
    /\ \A s, e : IsSeq(s) => (Holds(Append(s, e)) <=> Holds(s) \/ e \in Finalizers)
    /\ \A s : IsSeq(s) /\ s # <<>> => (Holds(s) <=> Holds(Front(s)) \/ Last(s) \in Finalizers)
<1>1. ~Holds(<<>>)
  BY EmptyRange DEF Holds
<1>2. \A e : Holds(<<e>>) <=> e \in Finalizers
  BY OneRange DEF Holds
<1>3. \A s, t : IsSeq(s) /\ IsSeq(t) => (Holds(s \o t) <=> Holds(s) \/ Holds(t))
  BY ConcatRange DEF Holds
<1>4. \A s, e : IsSeq(s) => (Holds(Append(s, e)) <=> Holds(s) \/ e \in Finalizers)
  BY AppendRange DEF Holds
<1>5. \A s : IsSeq(s) /\ s # <<>> => (Holds(s) <=> Holds(Front(s)) \/ Last(s) \in Finalizers)
  BY FrontRange DEF Holds
<1> QED BY <1>1, <1>2, <1>3, <1>4, <1>5

(* Nothing else passes for a finalizer. *)
LEMMA NoFinalizer ==
    /\ \A e : Loose(e) => e \notin Finalizers
    /\ \A x : String(x) \in Finalizers <=> x = FinalizeElemName
    /\ FE \in Finalizers
<1>1. FinalizeElemName \in Internal /\ FinalizeElemName \in Natives
  BY InternalNatives DEF Internal
<1>2. ~Loose(FE)
  BY <1>1, LooseString DEF FE
<1>3. ~Loose(FM)
  BY <1>1, LooseMsg DEF FM
<1>4. \A x : String(x) # FM
  <2>1. \A x : String(x).addr = ""
    BY StringKind
  <2>2. FM.addr = FinalizeElemName /\ FinalizeElemName # ""
    BY MsgKind DEF FM, FinalizeElemName
  <2> QED BY <2>1, <2>2
<1>5. \A x, y : String(x) = String(y) <=> x = y
  BY StringKind
<1> QED BY <1>2, <1>3, <1>4, <1>5 DEF Finalizers, FE

LEMMA GoodHolds == ASSUME NEW s, GoodSeq(s) PROVE ~Holds(s)
BY GoodLoose, NoFinalizer DEF GoodSeq, Holds

LEMMA InvSeqs ==
    ASSUME Inv
    PROVE  IsSeq(vm_i) /\ IsSeq(vm_c) /\ IsSeq(vm_s) /\ IsSeq(vm_e) /\ IsSeq(vm_d)
<1>1. Elems(vm_i) /\ Elems(vm_c) /\ Elems(vm_s) /\ Elems(vm_e)
  BY PhaseElems, ElemsSeqs DEF Inv, EnvOK
<1> QED BY <1>1 DEF Elems, Inv, DumpOK

(* As long as anything else is on the control there is a finalizer on the  *)
(* input, or something has been loaded.                                    *)
LEMMA Busy ==
    ASSUME Inv, InvTidy, vm_c # <<>>, Last(vm_c) # FE
    PROVE  /\ ~Holds(Front(vm_c))
           /\ KindNow(vm_d) = "exec" => LoadedNow \/ Holds(vm_i)
<1>1. IsSeq(vm_c)
  BY InvSeqs
<1>2. ~Holds(vm_c)
  <2>1. vm_c # <<FE>>
    BY OneIsSeq DEF Last
  <2> QED BY <2>1 DEF InvTidy, Alone
<1> QED BY <1>1, <1>2, HoldsSeqs DEF InvTidy, Tidy

(* A native, or an element that goes to the stack. *)
LEMMA TidyOn ==
    ASSUME Inv, InvTidy, vm_c # <<>>, Last(vm_c) # FE,
           UNCHANGED <<vm_i, vm_d, loadedIn>>,
           \/ vm_c' = Front(vm_c)
           \/ vm_c' = vm_c
           \/ \E x : /\ vm_c' = Append(Front(vm_c), String(x))
                     /\ x # FinalizeElemName
    PROVE  InvTidy'
<1>1. IsSeq(vm_c) /\ IsSeq(Front(vm_c))
  BY InvSeqs, FrontRange
<1>2. ~Holds(Front(vm_c)) /\ (KindNow(vm_d) = "exec" => LoadedNow \/ Holds(vm_i))
  BY Busy
<1>3. Alone(vm_c')
  <2>1. vm_c' # vm_c => ~Holds(vm_c')
    BY <1>1, <1>2, HoldsSeqs, NoFinalizer
  <2> QED BY <2>1 DEF InvTidy, Alone
<1> QED BY <1>2, <1>3 DEF InvTidy, Tidy, LoadedNow

LEMMA StringFE ==
    \A x : String(x) = FE <=> x = FinalizeElemName
<1>1. \A x, y : String(x) = String(y) <=> x = y
  BY StringKind
<1> QED BY <1>1 DEF FE

LEMMA RunsTidy ==
    ASSUME Inv, InvTidy, NEW x, x # FinalizeElemName,
           Runs(x), UNCHANGED <<vm_i, vm_d, loadedIn>>,
           \/ vm_c' = Front(vm_c)
           \/ vm_c' = vm_c
           \/ \E y : /\ vm_c' = Append(Front(vm_c), String(y))
                     /\ y # FinalizeElemName
    PROVE  InvTidy'
<1>1. vm_c # <<>> /\ Last(vm_c) # FE
  BY StringFE DEF Runs
<1> QED BY <1>1, TidyOn

LEMMA TidyPush ==
    ASSUME NEW d, IsSeq(d), NEW loads, TidyDump(d, loads),
           NEW frame, TidyFrame(KindNow(d), Len(d) \in loads, frame)
    PROVE  TidyDump(Append(d, frame), loads)
<1> DEFINE e == Append(d, frame)
<1>1. /\ Len(d) \in Nat /\ Len(e) = Len(d) + 1
      /\ \A n \in 1 .. Len(d) : e[n] = d[n]
      /\ e[Len(d) + 1] = frame
      /\ \A n \in 1 .. Len(d) + 1 : KindIn(e, n) = KindIn(d, n)
  BY AppendSeq, SeqType, KindsPush
<1> HIDE DEF e
<1>2. ASSUME NEW n \in 1 .. Len(e) PROVE TidyFrame(KindIn(e, n), n - 1 \in loads, e[n])
  <2>1. n \in 1 .. Len(d) \/ (n = Len(d) + 1 /\ n - 1 = Len(d))
    BY <1>1
  <2> QED BY <1>1, <2>1 DEF TidyDump, KindNow
<1> QED BY <1>2 DEF TidyDump, e

LEMMA TidyPop ==
    ASSUME NEW d, IsSeq(d), NEW loads, TidyDump(d, loads), d # <<>>
    PROVE  LET kept == loads \ {Len(d)}
           IN  /\ TidyDump(Front(d), kept)
               /\ TidyFrame(KindNow(Front(d)), Len(Front(d)) \in kept, Last(d))
<1> DEFINE e == Front(d)
           kept == loads \ {Len(d)}
<1>1. /\ Len(d) \in Nat /\ Len(d) >= 1 /\ Last(d) = d[Len(d)]
      /\ Len(e) = Len(d) - 1
      /\ \A n \in 1 .. Len(d) - 1 : e[n] = d[n]
      /\ \A n \in 1 .. Len(d) : KindIn(e, n) = KindIn(d, n)
  BY NotEmpty, FrontSeq, KindsPop
<1> HIDE DEF e
<1>2. ASSUME NEW n \in 1 .. Len(e) PROVE TidyFrame(KindIn(e, n), n - 1 \in kept, e[n])
  <2>1. n \in 1 .. Len(d) - 1 /\ n \in 1 .. Len(d) /\ n - 1 # Len(d)
    BY <1>1
  <2> QED BY <1>1, <2>1 DEF TidyDump
<1>3. TidyFrame(KindNow(e), Len(e) \in kept, Last(d))
  <2>1. /\ Len(d) \in 1 .. Len(d) /\ Len(e) + 1 = Len(d)
        /\ Len(d) - 1 = Len(e) /\ Len(e) # Len(d)
    BY <1>1
  <2> QED BY <1>1, <2>1 DEF TidyDump, KindNow
<1> QED BY <1>2, <1>3 DEF TidyDump, e

LEMMA InitTidy == ASSUME Init PROVE InvTidy
<1>1. vm_d = <<>> /\ Len(vm_d) = 0 /\ vm_c = <<String("/!/drop"), String("/!/exec1")>>
  BY EmptyIsSeq DEF Init
<1>2. KindNow(vm_d) = "plain"
  BY <1>1 DEF KindNow, KindIn
<1>3. ~Holds(vm_c)
  <2>1. vm_c = <<String("/!/drop")>> \o <<String("/!/exec1")>>
    BY <1>1, TwoIs
  <2>2. String("/!/drop") \notin Finalizers /\ String("/!/exec1") \notin Finalizers
    BY NoFinalizer DEF FinalizeElemName
  <2> QED BY <2>1, <2>2, OneIsSeq, HoldsSeqs
<1> QED BY <1>1, <1>2, <1>3 DEF InvTidy, Alone, Tidy, TidyDump

LEMMA PopInputTidy == ASSUME Inv, InvTidy, PopInput PROVE InvTidy'
<1> DEFINE kind == KindNow(vm_d)
           j == Front(vm_i)
           e == Last(vm_i)
<1>1. /\ vm_c = <<>> /\ vm_i # <<>> /\ vm_c' = Expand(e) /\ vm_i' = j
      /\ vm_s' = vm_s /\ vm_d' = vm_d /\ loadedIn' = loadedIn
  BY DEF PopInput, others
<1>2. kind = "exec" => LoadedNow \/ Holds(vm_i)
  BY <1>1, HoldsSeqs DEF InvTidy, Tidy
<1>3. Holds(vm_i) <=> Holds(j) \/ e \in Finalizers
  BY <1>1, InvSeqs, HoldsSeqs
<1>4. \/ Item(kind, e) \/ e \in Marks \/ e = FM
      \/ \E k \in Kinds : e = String(FinalizerOf(k))
  <2> DEFINE Shown1 == \/ Item(kind, e) \/ e \in Marks \/ e = FM
                       \/ \E k \in Kinds : e = String(FinalizerOf(k))
  <2>1. ASSUME Idle(kind, vm_i, <<>>, vm_s) PROVE Item(kind, e) \/ e \in Marks
    <3>1. IsSeq(vm_i) /\ Work(kind, vm_i)
      BY <2>1, EmptyBehind DEF Idle
    <3> QED BY <1>1, <3>1, WorkFront
  <2>2. ASSUME Starting(kind, vm_i, <<>>, vm_s) PROVE e = FM
    <3>1. PICK w : ItemsOnly(kind, w) /\ vm_i = Append(w, FM)
      BY <2>2 DEF Starting, FM
    <3> QED BY <3>1, AppendRange DEF ItemsOnly
  <2>3. ASSUME Returned(kind, vm_i, <<>>, vm_s)
        PROVE  \E k \in Kinds : e = String(FinalizerOf(k))
    <3>1. PICK k \in Kinds : \E w : vm_i = Append(w, String(FinalizerOf(k))) /\ IsSeq(w)
      BY <2>3 DEF Returned, Pending
    <3> QED BY <3>1, AppendRange
  <2>4. Phase(kind, vm_i, <<>>, vm_s)
    BY <1>1 DEF Inv
  <2> QED BY <2>1, <2>2, <2>3, <2>4, EmptyPhase DEF Shown1
<1> HIDE DEF j, e
<1>5. CASE Item(kind, e)
  <2>1. ~Holds(Expand(e)) /\ e \notin Finalizers
    BY <1>5, ExpandItem, GoodHolds, NoFinalizer DEF Item
  <2> QED BY <1>1, <1>2, <1>3, <2>1 DEF InvTidy, Alone, Tidy, LoadedNow
<1>6. CASE e = FE
  <2>1. Expand(e) = <<e>>
    BY <1>6, ExpandString DEF FE
  <2>2. Holds(Expand(e))
    BY <1>6, <2>1, HoldsSeqs, NoFinalizer
  <2> QED BY <1>1, <1>6, <2>1, <2>2 DEF InvTidy, Alone, Tidy
<1>7. CASE e = FM
  <2>1. Expand(e) = <<FE>>
    BY <1>7, ExpandFinalizer DEF FM
  <2>2. Holds(Expand(e))
    BY <2>1, HoldsSeqs, NoFinalizer
  <2> QED BY <1>1, <2>1, <2>2 DEF InvTidy, Alone, Tidy
<1>8. ASSUME e = TL \/ \E k \in Kinds : e = String(FinalizerOf(k)) PROVE InvTidy'
  <2>1. Expand(e) = <<e>>
    BY <1>8, ExpandString DEF TL
  <2>2. e \notin Finalizers
    BY <1>8, NoFinalizer DEF FinalizerOf, FinalizeElemName, FinalizeTopLevelName,
       FinalizeExecName, FinalizeLambdaName, TL
  <2>3. ~Holds(Expand(e))
    BY <2>1, <2>2, HoldsSeqs
  <2> QED BY <1>1, <1>2, <1>3, <2>2, <2>3 DEF InvTidy, Alone, Tidy, LoadedNow
<1> QED BY <1>4, <1>5, <1>6, <1>7, <1>8 DEF Marks

LEMMA EvalTypeTidy == ASSUME Inv, InvTidy, EvalType PROVE InvTidy'
<1>1. /\ vm_c # <<>> /\ ~IsNative(Last(vm_c)) /\ UNCHANGED <<vm_i, vm_d, loadedIn>>
      /\ vm_c' = Front(vm_c) \/ vm_c' = Append(Front(vm_c), String("/!/o/exec"))
  BY DEF EvalType, others
<1>2. Last(vm_c) # FE
  BY <1>1 DEF IsNative, Natives, FE
<1>3. "/!/o/exec" # FinalizeElemName
  BY DEF FinalizeElemName
<1> QED BY <1>1, <1>2, <1>3, TidyOn

(* A frame is opened, of which the control is saved or put on the input. *)
LEMMA OpensTidy ==
    ASSUME Inv, InvTidy, vm_c # <<>>, Last(vm_c) # FE,
           NEW frame, vm_d' = Append(vm_d, frame), loadedIn' = loadedIn,
           frame.control \in {<<>>, Front(vm_c)},
           Holds(vm_i) => Holds(frame.input),
           vm_c' = <<>>, KindOf(frame) = "exec" => Holds(vm_i')
    PROVE  InvTidy'
<1>1. ~Holds(Front(vm_c)) /\ (KindNow(vm_d) = "exec" => LoadedNow \/ Holds(vm_i))
  BY Busy
<1>2. TidyFrame(KindNow(vm_d), LoadedNow, frame)
  BY <1>1, HoldsSeqs DEF TidyFrame
<1>3. TidyDump(vm_d', loadedIn')
  BY <1>2, InvSeqs, TidyPush DEF InvTidy, LoadedNow
<1>4. KindNow(vm_d') = KindOf(frame)
  BY InvSeqs, KindsPush
<1> QED BY <1>3, <1>4, HoldsSeqs DEF InvTidy, Alone, Tidy

(* oscript_exec and the application of a lambda. *)
LEMMA OpenFrameTidy ==
    ASSUME Inv, InvTidy, NEW x, x # FinalizeElemName, Runs(x),
           NEW k \in Kinds, OpenFrame(FinalizerOf(k)), loadedIn' = loadedIn,
           Pending(KindNow(vm_d), vm_i, Front(vm_c)), GoodSeq(Front(vm_s)),
           Starting(k, vm_i', vm_c', vm_s')
    PROVE  InvTidy'
<1> DEFINE frame == Opened(vm_i, Front(vm_c), k, vm_e, Front(vm_s))
           w == vm_i \o Front(vm_c)
           f == String(FinalizerOf(k))
<1>1. vm_c # <<>> /\ Last(vm_c) # FE
  BY StringFE DEF Runs
<1>2. FrameOK(KindNow(vm_d), frame) /\ KindOf(frame) = k
  BY OpenedFrame DEF Inv
<1>3. frame.input = w \o <<f>> /\ frame.control = <<>>
  BY FrameFields DEF Opened
<1>4. vm_d' = Append(vm_d, frame) /\ vm_c' = <<>> /\ Holds(vm_i')
  <2>1. PICK j : IsSeq(j) /\ vm_i' = Append(j, FM)
    BY DEF Starting, ItemsOnly, FM
  <2> QED BY <2>1, OpenFrameIs, HoldsSeqs DEF Finalizers
<1>5. Holds(vm_i) => Holds(frame.input)
  <2>1. IsSeq(vm_i) /\ IsSeq(Front(vm_c)) /\ IsSeq(w) /\ IsSeq(<<f>>)
    BY InvSeqs, <1>1, FrontRange, ConcatSeq, OneIsSeq
  <2> HIDE DEF f
  <2>2. Holds(vm_i) => Holds(w)
    BY <2>1, HoldsSeqs
  <2> HIDE DEF w, frame
  <2> QED BY <1>3, <2>1, <2>2, HoldsSeqs
<1> HIDE DEF frame
<1> QED BY <1>1, <1>2, <1>3, <1>4, <1>5, OpensTidy

LEMMA ExecTidy == ASSUME Inv, InvTidy, Exec, OperandsFound PROVE InvTidy'
<1>1. /\ Runs("/!/o/exec") /\ vm_s # <<>> /\ OpenFrame(FinalizeExecName)
      /\ loadedIn' = loadedIn
  BY DEF Exec, OperandsFound, Reads, others
<1>2. "exec" \in Kinds /\ FinalizerOf("exec") = FinalizeExecName
  BY DEF Kinds, FinalizerOf
<1>3. Pending(KindNow(vm_d), vm_i, Front(vm_c)) /\ GoodSeq(vm_s)
  BY <1>1, NativeIdle, ProgramNatives
<1>4. Starting("exec", vm_i', vm_c', vm_s')
  <2>1. Good(Last(vm_s))
    BY <1>1, <1>3, GoodSeqs
  <2> QED BY <1>1, <1>2, <2>1, OpenFrameIs, StartGood
<1>5. GoodSeq(Front(vm_s))
  BY <1>3, GoodFront
<1>6. "/!/o/exec" # FinalizeElemName
  BY DEF FinalizeElemName
<1> QED BY <1>1, <1>2, <1>3, <1>4, <1>5, <1>6, OpenFrameTidy

LEMMA ExecLambdaTidy ==
    ASSUME Inv, InvTidy, ExecLambdaApplication PROVE InvTidy'
<1>1. /\ Runs("/!/o/execlambdaapp") /\ OpenFrame(FinalizeLambdaName)
      /\ vm_c # <<>> /\ Last(vm_c) = String("/!/o/execlambdaapp")
      /\ loadedIn' = loadedIn
  BY DEF ExecLambdaApplication, Runs, others
<1>2. "plain" \in Kinds /\ FinalizerOf("plain") = FinalizeLambdaName
  BY DEF Kinds, FinalizerOf
<1>3. Applying(KindNow(vm_d), vm_i, vm_c, vm_s)
  BY <1>1, PhaseOf DEF Inv
<1>4. PICK d : /\ vm_c = Append(d, String("/!/o/execlambdaapp"))
               /\ Pending(KindNow(vm_d), vm_i, d) /\ Dirty("plain", vm_s)
  BY <1>3 DEF Applying
<1>5. Front(vm_c) = d
  BY <1>4, NativeOnTop DEF Pending, Pieces
<1>6. Starting("plain", vm_i', vm_c', vm_s')
  BY <1>1, <1>2, <1>4, OpenFrameIs, StartLoose DEF Dirty, EnvOK
<1>7. "/!/o/execlambdaapp" # FinalizeElemName
  BY DEF FinalizeElemName
<1>8. OpenFrame(FinalizerOf("plain")) /\ Pending(KindNow(vm_d), vm_i, Front(vm_c))
      /\ GoodSeq(Front(vm_s))
  BY <1>1, <1>2, <1>4, <1>5 DEF Dirty
<1> QED BY <1>1, <1>2, <1>6, <1>7, <1>8, OpenFrameTidy

LEMMA Exec1Tidy == ASSUME Inv, InvTidy, Exec1 PROVE InvTidy'
<1> DEFINE frame == Saved(vm_i, Front(vm_c))
<1>1. /\ vm_c # <<>> /\ Last(vm_c) = String("/!/exec1")
      /\ vm_d' = Append(vm_d, frame) /\ vm_c' = <<>> /\ loadedIn' = loadedIn
  BY DEF Exec1, Runs, others
<1>2. Last(vm_c) # FE
  BY <1>1, StringFE DEF FinalizeElemName
<1>3. frame.input = vm_i /\ frame.control = Front(vm_c)
  BY FrameFields DEF Saved
<1> HIDE DEF frame
<1>4. KindOf(frame) = "plain"
  <2>1. Evaluating(KindNow(vm_d), vm_i, vm_c, vm_s)
    BY <1>1, PhaseOf DEF Inv
  <2> QED BY <1>3, <2>1, KindOfFrames DEF Evaluating
<1> QED BY <1>1, <1>2, <1>3, <1>4, OpensTidy

LEMMA ReturnTidy == ASSUME Inv, InvTidy, Return PROVE InvTidy'
<1> DEFINE frame == Last(vm_d)
<1>1. /\ vm_d # <<>> /\ vm_d' = Front(vm_d)
      /\ vm_i' = frame.input /\ vm_c' = frame.control
      /\ loadedIn' = loadedIn \ {Len(vm_d)}
  BY DEF Return, ReadyToReturn
<1>2. /\ TidyDump(vm_d', loadedIn')
      /\ TidyFrame(KindNow(vm_d'), Len(vm_d') \in loadedIn', frame)
  BY <1>1, InvSeqs, TidyPop DEF InvTidy
<1> QED BY <1>1, <1>2 DEF InvTidy, Alone, Tidy, TidyFrame, LoadedNow

LEMMA FinalizerAlone ==
    ASSUME Inv, InvTidy, vm_c # <<>>, Last(vm_c) = FE PROVE Front(vm_c) = <<>>
<1>1. Holds(vm_c)
  BY InvSeqs, HoldsSeqs, NoFinalizer
<1>2. vm_c = <<FE>>
  BY <1>1 DEF InvTidy, Alone
<1>3. \A m : Front(<<m>>) = <<>>
  <2>1. \A m : <<m>> = Append(<<>>, m)
    OBVIOUS
  <2> QED BY <2>1, EmptyIsSeq, AppendRange
<1> QED BY <1>2, <1>3

(* The finalizer is put under the next element, or nothing is left. *)
LEMMA FinalizeElemTidy == ASSUME Inv, InvTidy, FinalizeElem PROVE InvTidy'
<1>1. /\ vm_c # <<>> /\ Last(vm_c) = FE /\ vm_c' = Front(vm_c)
      /\ vm_s' = <<>> /\ vm_i' = PrepareNext(vm_i) /\ vm_d' = vm_d
      /\ loadedIn' = loadedIn
  BY DEF FinalizeElem, Runs, FE
<1>2. vm_c' = <<>>
  BY <1>1, FinalizerAlone
<1>3. vm_i' = <<>> \/ Holds(vm_i')
  <2>1. CASE vm_i = <<>>
    BY <1>1, <2>1 DEF PrepareNext
  <2>2. CASE vm_i # <<>>
    <3> DEFINE j == Front(vm_i)
               e == Last(vm_i)
               t == IF IsBndl(e) THEN <<String(""), e>>
                    ELSE <<Msg("", Append(e.items, Str(e.addr)))>>
    <3>1. vm_i' = j \o <<FE>> \o t
      BY <1>1, <2>2 DEF PrepareNext, FE
    <3>2. IsSeq(j) /\ IsSeq(<<FE>>)
      BY <2>2, InvSeqs, FrontRange, OneIsSeq
    <3>3. IsSeq(t)
      <4>1. <<String(""), e>> = <<String("")>> \o <<e>>
        BY TwoIs
      <4>2. IsSeq(<<String(""), e>>)
        BY <4>1, OneIsSeq, ConcatSeq
      <4> QED BY <4>2, OneIsSeq
    <3> HIDE DEF j, t
    <3>4. FE \in Finalizers
      BY DEF Finalizers
    <3>5. Holds(j \o <<FE>>) /\ IsSeq(j \o <<FE>>)
      BY <3>2, <3>4, HoldsSeqs, ConcatSeq
    <3> QED BY <3>1, <3>3, <3>5, HoldsSeqs
  <2> QED BY <2>1, <2>2
<1> QED BY <1>1, <1>2, <1>3, HoldsSeqs DEF InvTidy, Alone, Tidy

(* From now on something may be left in this frame, and only in it. *)
LEMMA LoadTidy == ASSUME Inv, InvTidy, Load PROVE InvTidy'
<1> DEFINE d == Front(vm_c)
           a == String("/!/drop")
           b == String("/!/exec1")
           c == String("/!/o/parse")
<1>1. /\ vm_c # <<>> /\ Last(vm_c) = String("/!/o/load") /\ vm_c' = d \o <<a, b, c>>
      /\ vm_d' = vm_d /\ loadedIn' = loadedIn \union {Len(vm_d)}
  BY DEF Load, Runs
<1>2. LoadedNow' /\ TidyDump(vm_d', loadedIn')
  BY <1>1 DEF InvTidy, LoadedNow, TidyDump, TidyFrame
<1>3. IsSeq(d) /\ ~Holds(d)
  <2>1. Last(vm_c) # FE
    BY <1>1, StringFE DEF FinalizeElemName
  <2> QED BY <1>1, <2>1, Busy, InvSeqs, FrontRange
<1>4. ~Holds(vm_c')
  <2>1. a \notin Finalizers /\ b \notin Finalizers /\ c \notin Finalizers
    BY NoFinalizer DEF FinalizeElemName
  <2> HIDE DEF a, b, c, d
  <2>2. vm_c' = ((d \o <<a>>) \o <<b>>) \o <<c>>
    BY <1>1, <1>3, ThreeBehind
  <2>3. IsSeq(d \o <<a>>) /\ ~Holds(d \o <<a>>)
    BY <1>3, <2>1, OneIsSeq, ConcatSeq, HoldsSeqs
  <2>4. IsSeq((d \o <<a>>) \o <<b>>) /\ ~Holds((d \o <<a>>) \o <<b>>)
    BY <2>1, <2>3, OneIsSeq, ConcatSeq, HoldsSeqs
  <2> QED BY <2>1, <2>2, <2>4, OneIsSeq, HoldsSeqs
<1> QED BY <1>2, <1>4 DEF InvTidy, Alone, Tidy

(* The natives that leave input and dump as they are. *)
LEMMA OthersTidy ==
    ASSUME Inv, InvTidy,
           \/ Lookup \/ ApplyNative \/ Drop \/ ExecEmpty
           \/ FinalizeExec \/ FinalizeExecLambdaApplication \/ FinalizeTopLevelExec
           \/ Apply \/ Funcall \/ Defn
           \/ If \/ IfTooFew \/ PartOfList \/ LoadFails \/ Parse
    PROVE  InvTidy'
<1> DEFINE On(x) == /\ Runs(x) /\ UNCHANGED <<vm_i, vm_d, loadedIn>>
                    /\ \/ vm_c' = Front(vm_c)
                       \/ vm_c' = vm_c
                       \/ \E y : vm_c' = Append(Front(vm_c), String(y)) /\ y # FinalizeElemName
<1>0. /\ FinalizeElemName \notin
         {"/!/$", "/!/apply", "/!/drop", "/!/o/exec", "/!/o/apply", "/!/o/funcall",
          "/!/o/defn", "/!/o/if", "/!/o/first", "/!/o/last", "/!/o/rest",
          "/!/o/butlast", "/!/o/load", "/!/o/parse", "/!/o/execlambdaapp",
          FinalizeExecName, FinalizeLambdaName, FinalizeTopLevelName}
      /\ \A n \in DOMAIN NativeOf : NativeOf[n] # FinalizeElemName
  BY DEF FinalizeElemName, FinalizeTopLevelName, FinalizeExecName, FinalizeLambdaName, NativeOf
<1>1. ASSUME NEW x, x # FinalizeElemName, On(x) PROVE InvTidy'
  BY <1>1, RunsTidy
<1>2. Lookup => On("/!/$")
  BY DEF Lookup, others
<1>3. ApplyNative => On("/!/apply")
  BY <1>0 DEF ApplyNative, others
<1>4. (Drop => On("/!/drop")) /\ (ExecEmpty => On("/!/o/exec"))
  BY DEF Drop, ExecEmpty, others
<1>5. (FinalizeExec => On(FinalizeExecName))
      /\ (FinalizeExecLambdaApplication => On(FinalizeLambdaName))
      /\ (FinalizeTopLevelExec => On(FinalizeTopLevelName))
  BY DEF FinalizeExec, FinalizeExecLambdaApplication, FinalizeTopLevelExec, others
<1>6. ASSUME NEW s, ApplyTop(s)
      PROVE  vm_c' = vm_c \/ \E y : vm_c' = Append(Front(vm_c), String(y)) /\ y # FinalizeElemName
  BY <1>0, <1>6 DEF ApplyTop, ApplyLambda
<1>7. (Apply => On("/!/o/apply")) /\ (Funcall => On("/!/o/funcall"))
  BY <1>6 DEF Apply, Funcall
<1>8. (Defn => On("/!/o/defn")) /\ (LoadFails => On("/!/o/load"))
      /\ (Parse => On("/!/o/parse"))
  BY DEF Defn, LoadFails, Parse, others
<1>9. (IfTooFew => On("/!/o/if")) /\ (If => On("/!/o/if"))
  BY <1>0 DEF IfTooFew, If, others
<1>10. PartOfList => \E x \in {"/!/o/first", "/!/o/last", "/!/o/rest", "/!/o/butlast"} : On(x)
  BY DEF PartOfList, others
<1> HIDE DEF On
<1> QED BY <1>0, <1>1, <1>2, <1>3, <1>4, <1>5, <1>7, <1>8, <1>9, <1>10

LEMMA NextTidy ==
    ASSUME Inv, InvTidy, [Next]_vars, OperandsFound PROVE InvTidy'
<1>1. CASE UNCHANGED vars
  BY <1>1 DEF vars, others, InvTidy, LoadedNow
<1> QED BY <1>1, PopInputTidy, EvalTypeTidy, ExecTidy, ExecLambdaTidy, Exec1Tidy, ReturnTidy,
       FinalizeElemTidy, LoadTidy, OthersTidy DEF Next, Step, Finished

LEMMA InvReturn == Inv /\ InvTidy => CleanReturn
<1> SUFFICES ASSUME Inv, InvTidy, ReadyToReturn, KindOf(Last(vm_d)) = "exec", vm_s # <<>>
             PROVE  Len(vm_d) \in loadedIn
  BY DEF CleanReturn
<1>1. vm_i = <<>> /\ vm_c = <<>> /\ vm_d # <<>>
  BY DEF ReadyToReturn
<1>2. KindNow(vm_d) = "exec"
  BY <1>1, DumpPop DEF Inv
<1> QED BY <1>1, <1>2, HoldsSeqs DEF InvTidy, Tidy, LoadedNow

-----------------------------------------------------------------------------
(* The theorems.  They are about every run in which the natives find the   *)
(* operands they read without looking: OperandsFound, which is checked on  *)
(* a small instance and depends on the program.                            *)

(* Every frame goes through the phases above, and nothing but its own      *)
(* finalizer finds the environment that it returned.                       *)
THEOREM PhasesKept == Spec /\ []OperandsFound => []Inv
<1>1. Init => Inv
  BY InitInv
<1>2. Inv /\ OperandsFound /\ [Next]_vars => Inv'
  BY NextStep
<1> QED BY <1>1, <1>2, PTL DEF Spec

(* oscript_exec, the finalizers, the lambdas and /o/load change vm_e, the  *)
(* environments of the dump and the value of a bundle in no other way than *)
(* ExecFrames allows, and what they bind in a bundle, or load, never       *)
(* passes for a semaphore: the safety of ExecFrames is that of the machine.*)
THEOREM ImplementsExecFrames == Spec /\ []OperandsFound => ImplementsFrames
<1>1. Inv /\ OperandsFound /\ [Next]_vars => [FrameStep]_vars
  BY NextStep
<1>2. Spec /\ []OperandsFound => [][FrameStep]_vars
  BY <1>1, PhasesKept, PTL DEF Spec
<1> QED BY <1>2 DEF ImplementsFrames

(* The five bundles hold elements only, and the dump frames only. *)
THEOREM TypeCorrect == Spec /\ []OperandsFound => []TypeOK
BY PhasesKept, InvType, PTL

(* What oscript_finalizeElem reads as the address of the element it binds  *)
(* is one, however deep the element was nested and whatever it called.     *)
THEOREM AddressSeen == Spec /\ []OperandsFound => []FinalizerSeesAddress
BY PhasesKept, InvAddress, PTL

(* The value oscript_finalizeExec leaves of a bundle holds no semaphore,   *)
(* neither its own nor an enclosing one's.                                 *)
THEOREM ValueHoldsNoSemaphore == Spec /\ []OperandsFound => []NoSemaphoreInValue
BY PhasesKept, InvValue, PTL

(* When a bundle's frame returns, nothing is left on the stack for the     *)
(* enclosing element to take for its own, unless /o/load has run in that   *)
(* frame: a finalizer waits for whatever is still to be evaluated, and     *)
(* only a load takes one away, none but one of the frame it runs in.       *)
THEOREM StackIsClean == Spec /\ []OperandsFound => []CleanReturn
<1>1. Init => InvTidy
  BY InitTidy
<1>2. Inv /\ InvTidy /\ OperandsFound /\ [Next]_vars => InvTidy'
  BY NextTidy
<1>3. Inv /\ InvTidy => CleanReturn
  BY InvReturn
<1> QED BY <1>1, <1>2, <1>3, PhasesKept, PTL DEF Spec
=============================================================================
