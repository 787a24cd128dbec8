-------------------------- MODULE ElemRewriteProofs --------------------------
(***************************************************************************)
(* oscript_finalizeElem prepares the next element whatever its bytes are:  *)
(* proofs of the invariants of ElemRewrite for every layout, by following  *)
(* the parts of the element through each of the moves.                     *)
(***************************************************************************)
EXTENDS ElemRewrite, TLAPS

-----------------------------------------------------------------------------
(* Parts of the memory: n bytes from at on are the first n of f.           *)
Holds(m, at, n, f) ==
    \A i \in 0 .. Total - 1 : at <= i /\ i < at + n => m[i] = f[i - at]

Bytes == [Nat -> Nat]
NULs == [k \in Nat |-> 0]
Tag == [k \in Nat |-> StringTag]

(* What an operation on bytes does: it writes n of them from at on and no  *)
(* others, ...                                                             *)
Keeps(m, new, at, n) ==
    \A i \in 0 .. Total - 1 : i < at \/ at + n <= i => new[i] = m[i]

(* ... and the n bytes from from on arrive d bytes further on. *)
Carries(m, new, from, n, d) ==
    \A i \in 0 .. Total - 1 : from + d <= i /\ i < from + n + d => new[i] = m[i - d]

LEMMA TotalType == Cap \in Nat /\ Total \in Nat /\ Cap <= Total /\ 2 * Cap <= Total
BY CapAssumption

LEMMA MoveBytes ==
    ASSUME NEW m \in Memory, NEW to \in Nat, NEW from \in Nat, NEW n \in Nat,
           from + n <= Total
    PROVE  /\ Move(m, to, from, n) \in Memory
           /\ Keeps(m, Move(m, to, from, n), to, n)
           /\ Carries(m, Move(m, to, from, n), from, n, to - from)
<1>1. DOMAIN m = 0 .. Total - 1
  BY DEF Memory
<1>2. ASSUME NEW i \in 0 .. Total - 1, i \in to .. to + n - 1
      PROVE  i - to + from \in 0 .. Total - 1 /\ i - (to - from) = i - to + from
  BY <1>2, TotalType
<1> QED BY <1>1, <1>2, TotalType DEF Move, Memory, Keeps, Carries

LEMMA ClearBytes ==
    ASSUME NEW m \in Memory, NEW at \in Nat, NEW n \in Nat
    PROVE  /\ Clear(m, at, n) \in Memory
           /\ Keeps(m, Clear(m, at, n), at, n)
           /\ \A i \in 0 .. Total - 1 : at <= i /\ i < at + n => Clear(m, at, n)[i] = 0
BY TotalType DEF Clear, Memory, Keeps

LEMMA PutInt32Bytes ==
    ASSUME NEW m \in Memory, NEW at \in Nat, NEW n \in Nat, at + 4 <= Total
    PROVE  /\ PutInt32(m, at, n) \in Memory
           /\ Keeps(m, PutInt32(m, at, n), at, 4)
           /\ Int32(PutInt32(m, at, n), at) = n
<1> DEFINE c == Clear(m, at, 3)
<1>1. c \in Memory /\ Keeps(m, c, at, 3)
  BY ClearBytes
<1>2. PutInt32(m, at, n) = [c EXCEPT ![at + 3] = n] /\ at + 3 \in 0 .. Total - 1
  BY TotalType DEF PutInt32
<1> HIDE DEF c
<1> QED BY <1>1, <1>2, TotalType DEF Memory, Keeps, Int32

LEMMA StrLenIs ==
    ASSUME NEW m, NEW at \in Nat, NEW n \in Nat, at + n < Total, IsText(m, at, n)
    PROVE  StrLen(m, at) = n
<1> DEFINE Q(x) == m[at + x] = 0 /\ \A k \in 0 .. x - 1 : m[at + k] # 0
<1>1. n \in 0 .. Total - at - 1 /\ Q(n)
  BY TotalType DEF IsText
<1>2. ASSUME NEW x \in 0 .. Total - at - 1, Q(x) PROVE x = n
  <2>1. CASE x < n
    BY <1>1, <1>2, <2>1
  <2>2. CASE n < x
    BY <1>1, <1>2, <2>2
  <2> QED BY <2>1, <2>2, TotalType
<1>3. StrLen(m, at) = CHOOSE x \in 0 .. Total - at - 1 : Q(x)
  BY DEF StrLen
<1> HIDE DEF Q
<1> QED BY <1>1, <1>2, <1>3

-----------------------------------------------------------------------------
(* The parts of a layout l that holds a message, and where they go.        *)
AddressBytes(l) == PnBytes(l.addressLen)
TagBytes(l) == PnBytes(l.tagsLen)
NewTagBytes(l) == PnBytes(l.tagsLen + 1)
PayloadAt(l) == l.last + 4 + AddressBytes(l) + TagBytes(l)
PayloadBytes(l) == l.size - PayloadAt(l)

AddressOf(l) == [k \in Nat |-> l.mem[l.last + 4 + k]]
TagsOf(l) == [k \in Nat |-> l.mem[l.last + 4 + AddressBytes(l) + k]]
PayloadOf(l) == [k \in Nat |-> l.mem[PayloadAt(l) + k]]
BehindOf(l) == [k \in Nat |-> l.mem[Cap + k]]

NewElem(l) == l.last + 32
EndWithAddress(l) ==
    NewElem(l) + 4 + AddressBytes(l) + NewTagBytes(l) + PayloadBytes(l)

(* The provisos of the invariants. *)
Reaches(l) == AddressBytes(l) <= NewElem(l) + 4
ReachesAll(l) == /\ 2 * AddressBytes(l) <= NewElem(l) + 12
                 /\ EndWithAddress(l) + NewElem(l) + 8 <= Cap
StaysInside(l) ==
    /\ Reaches(l)
    /\ EndWithAddress(l) + 8 + NewElem(l) - AddressBytes(l) <= Cap
    /\ EndWithAddress(l) + 4 + 2 * AddressBytes(l) <= Cap

FrontKept(l, m) == Holds(m, 0, l.last, l.mem)
BehindKept(l, m) == Holds(m, Cap, Total - Cap, BehindOf(l))
FreeFrom(m, at) == Holds(m, at, Cap - at, NULs)

AddressIn(l, m, at) == Holds(m, at, AddressBytes(l), AddressOf(l))

(* The typetags with the one for the address, and the payload. *)
ItemsIn(l, m, at) ==
    /\ Holds(m, at, l.tagsLen, TagsOf(l))
    /\ Holds(m, at + l.tagsLen, 1, Tag)
    /\ Holds(m, at + l.tagsLen + 1, NewTagBytes(l) - l.tagsLen - 1, NULs)
    /\ Holds(m, at + NewTagBytes(l), PayloadBytes(l), PayloadOf(l))

(* The memory m before each step. *)
BeforeBundle(l, m) ==
    FrontKept(l, m) /\ BehindKept(l, m) /\ FreeFrom(m, l.size + 32)

BeforeTags(l, m) ==
    /\ FrontKept(l, m) /\ BehindKept(l, m) /\ FreeFrom(m, l.size + 32)
    /\ AddressIn(l, m, NewElem(l) + 4)
    /\ Holds(m, NewElem(l) + 4 + AddressBytes(l), TagBytes(l), TagsOf(l))
    /\ Holds(m, l.size + 32 - PayloadBytes(l), PayloadBytes(l), PayloadOf(l))

BeforeCopy(l, m) ==
    /\ FrontKept(l, m) /\ BehindKept(l, m) /\ FreeFrom(m, EndWithAddress(l))
    /\ AddressIn(l, m, NewElem(l) + 4)
    /\ ItemsIn(l, m, NewElem(l) + 4 + AddressBytes(l))

BeforeShift(l, m) ==
    /\ FrontKept(l, m) /\ BehindKept(l, m)
    /\ FreeFrom(m, EndWithAddress(l) + AddressBytes(l))
    /\ AddressIn(l, m, EndWithAddress(l))
    /\ ItemsIn(l, m, NewElem(l) + 4 + AddressBytes(l))

BeforeAnonymous(l, m) ==
    /\ FrontKept(l, m)
    /\ StaysInside(l) => BehindKept(l, m)
    /\ ReachesAll(l) =>
          /\ Holds(m, EndWithAddress(l) + 4, AddressBytes(l) - 8, NULs)
          /\ FreeFrom(m, EndWithAddress(l) + AddressBytes(l))
    /\ Reaches(l) =>
          AddressIn(l, m, EndWithAddress(l) + 4 - AddressBytes(l))
    /\ ItemsIn(l, m, NewElem(l) + 8)

BeforeClear(l, m) ==
    BeforeAnonymous(l, m) /\ Holds(m, NewElem(l) + 4, 4, NULs)

AtEnd(l, m) ==
    /\ FrontKept(l, m)
    /\ StaysInside(l) => BehindKept(l, m)
    /\ ReachesAll(l) => FreeFrom(m, EndWithAddress(l) + 4)
    /\ Reaches(l) =>
          AddressIn(l, m, EndWithAddress(l) + 4 - AddressBytes(l))
    /\ ItemsIn(l, m, NewElem(l) + 8)
    /\ Holds(m, NewElem(l) + 4, 4, NULs)
    /\ Int32(m, NewElem(l)) = EndWithAddress(l) - NewElem(l)

(* The inductive invariant: where the parts are when each step is next,    *)
(* and what the sizes are.                                                 *)
Sizes(of, end, len) == o = of /\ size = end /\ s = len

Inv ==
    /\ start \in Layouts /\ mem \in Memory /\ as \in Nat
    /\ pc \in {"finalizer", "bundle", "tags", "short", "copy", "shift",
                "anonymous", "behind", "done"}
    /\ pc \in {"finalizer", "bundle"} => as = 0
    /\ pc = "finalizer" =>
          /\ mem = start.mem
          /\ Sizes(start.last, start.size, start.size - start.last - 4)
    /\ pc = "bundle" =>
          /\ ~start.isMessage /\ BeforeBundle(start, mem)
          /\ Sizes(start.last + 32, start.size + 32, start.size - start.last - 4)
    /\ pc \in {"tags", "short", "copy", "shift", "anonymous", "behind"} =>
          start.isMessage /\ o = NewElem(start)
    /\ pc = "tags" =>
          /\ BeforeTags(start, mem) /\ as = 0
          /\ size = start.size + 32 /\ s = start.size - start.last - 4
    /\ pc \in {"short", "copy", "shift", "anonymous", "behind"} =>
          /\ as = AddressBytes(start) /\ (pc = "short") = (as = AnonSize)
          /\ s = EndWithAddress(start) - NewElem(start) - 4
    /\ pc \in {"short", "copy"} =>
          BeforeCopy(start, mem) /\ size = EndWithAddress(start)
    /\ pc \in {"shift", "anonymous", "behind"} =>
          size = EndWithAddress(start) + AddressBytes(start)
    /\ pc = "shift" => BeforeShift(start, mem)
    /\ pc = "anonymous" => BeforeAnonymous(start, mem)
    /\ pc = "behind" => BeforeClear(start, mem)
    /\ pc = "done" /\ start.isMessage =>
          /\ AtEnd(start, mem) /\ as = AddressBytes(start)
          /\ Sizes(NewElem(start), EndWithAddress(start) + 4,
                   EndWithAddress(start) - NewElem(start))
    /\ pc = "done" /\ ~start.isMessage =>
          /\ FrontKept(start, mem) /\ BehindKept(start, mem)
          /\ FreeFrom(mem, size) /\ as = 0
          /\ Sizes(start.last + 48, start.size + 48, start.size - start.last - 4)

-----------------------------------------------------------------------------
(* The lengths of the parts.                                               *)
LEMMA Padding ==
    ASSUME NEW n \in Nat
    PROVE  /\ PnBytes(n) \in Nat /\ n < PnBytes(n) /\ PnBytes(n) <= n + 4
           /\ PnBytes(n) = 4 \/ PnBytes(n) >= 8
           /\ PnBytes(n + 1) = PnBytes(n) \/ PnBytes(n + 1) = PnBytes(n) + 4
           /\ n + 1 < PnBytes(n + 1)
BY DEF PnBytes

LEMMA LayoutType ==
    ASSUME NEW l \in Layouts
    PROVE  /\ l.mem \in Memory /\ l.last \in Nat /\ l.size \in Nat
           /\ l.last >= 16 /\ l.size >= l.last + 4
           /\ l.size + 48 <= Cap /\ l.isMessage \in BOOLEAN
           /\ Int32(l.mem, l.last) = l.size - l.last - 4
           /\ FreeFrom(l.mem, l.size) /\ BehindKept(l, l.mem)
<1>1. /\ l.mem \in Memory /\ l.last \in Nat /\ l.last >= 16 /\ l.size \in Nat
      /\ l.last + 4 <= l.size
      /\ l.size = l.last + 4 + Int32(l.mem, l.last)
      /\ l.size + 28 + 12 + 8 <= Cap /\ l.isMessage \in BOOLEAN
      /\ \A i \in l.size .. Cap - 1 : l.mem[i] = 0
  BY LayoutAssumption DEF FinalizerLen, AnonSize, EmptyStringLen, HeaderLen
<1>2. Int32(l.mem, l.last) \in Nat
  <2>1. l.last + 3 \in 0 .. Total - 1
    BY <1>1, TotalType
  <2> QED BY <1>1, <2>1 DEF Memory, Int32
<1>3. FreeFrom(l.mem, l.size)
  BY <1>1, TotalType DEF FreeFrom, Holds, NULs
<1>4. BehindKept(l, l.mem)
  BY <1>1, TotalType DEF BehindKept, BehindOf, Holds
<1> QED BY <1>1, <1>2, <1>3, <1>4

LEMMA MessageType ==
    ASSUME NEW l \in Layouts, l.isMessage
    PROVE  /\ l.addressLen \in Nat /\ l.tagsLen \in Nat
           /\ AddressBytes(l) \in Nat /\ TagBytes(l) \in Nat
           /\ NewTagBytes(l) \in Nat /\ PayloadBytes(l) \in Nat
           /\ NewElem(l) \in Nat /\ EndWithAddress(l) \in Nat
           /\ NewElem(l) = l.last + 32
           /\ AddressBytes(l) = 4 \/ AddressBytes(l) >= 8
           /\ l.addressLen < AddressBytes(l) /\ l.tagsLen < TagBytes(l)
           /\ NewTagBytes(l) = TagBytes(l) \/ NewTagBytes(l) = TagBytes(l) + 4
           /\ l.tagsLen + 1 < NewTagBytes(l)
           /\ l.size = l.last + 4 + AddressBytes(l) + TagBytes(l) + PayloadBytes(l)
           /\ EndWithAddress(l) = NewElem(l) + 4 + AddressBytes(l)
                                    + NewTagBytes(l) + PayloadBytes(l)
           /\ l.size + 36 + AddressBytes(l) <= Cap
           /\ IsText(l.mem, l.last + 4, l.addressLen)
           /\ IsText(l.mem, l.last + 4 + AddressBytes(l), l.tagsLen)
           /\ \A i \in l.last + 4 + AddressBytes(l) + l.tagsLen .. PayloadAt(l) - 1 :
                 l.mem[i] = 0
<1>1. /\ l.addressLen \in Nat /\ l.tagsLen \in Nat
      /\ IsText(l.mem, l.last + 4, l.addressLen)
      /\ IsText(l.mem, l.last + 4 + AddressBytes(l), l.tagsLen)
      /\ \A i \in l.last + 4 + AddressBytes(l) + l.tagsLen .. PayloadAt(l) - 1 :
            l.mem[i] = 0
      /\ PayloadAt(l) <= l.size
      /\ l.size + 28 + 8 + AddressBytes(l) <= Cap
  BY LayoutAssumption DEF FinalizerLen, AnonSize, AddressBytes, TagBytes, PayloadAt
<1>2. /\ AddressBytes(l) \in Nat /\ l.addressLen < AddressBytes(l)
      /\ AddressBytes(l) = 4 \/ AddressBytes(l) >= 8
  BY <1>1, Padding DEF AddressBytes
<1>3. /\ TagBytes(l) \in Nat /\ l.tagsLen < TagBytes(l)
      /\ NewTagBytes(l) = TagBytes(l) \/ NewTagBytes(l) = TagBytes(l) + 4
      /\ l.tagsLen + 1 < NewTagBytes(l)
  BY <1>1, Padding DEF TagBytes, NewTagBytes
<1>4. PayloadBytes(l) \in Nat /\ PayloadBytes(l) = l.size - PayloadAt(l)
  BY <1>1, <1>2, <1>3, LayoutType DEF PayloadBytes, PayloadAt
<1>5. PayloadAt(l) = l.last + 4 + AddressBytes(l) + TagBytes(l)
  BY DEF PayloadAt
<1>6. NewElem(l) \in Nat /\ NewElem(l) = l.last + 32
  BY LayoutType DEF NewElem
<1>7. EndWithAddress(l) = NewElem(l) + 4 + AddressBytes(l)
                             + NewTagBytes(l) + PayloadBytes(l)
  BY DEF EndWithAddress
<1> QED BY <1>1, <1>2, <1>3, <1>4, <1>5, <1>6, <1>7, LayoutType, TotalType

(* The parts are where they were found. *)
LEMMA PartsFound ==
    ASSUME NEW l \in Layouts, l.isMessage
    PROVE  /\ AddressIn(l, l.mem, l.last + 4)
           /\ Holds(l.mem, l.last + 4 + AddressBytes(l), TagBytes(l), TagsOf(l))
           /\ Holds(l.mem, PayloadAt(l), PayloadBytes(l), PayloadOf(l))
<1>1. PayloadAt(l) \in Nat /\ l.last + 4 \in Nat /\ l.last + 4 + AddressBytes(l) \in Nat
  BY LayoutType, MessageType DEF PayloadAt
<1>2. AddressIn(l, l.mem, l.last + 4)
  BY <1>1, TotalType DEF AddressIn, Holds, AddressOf
<1>3. Holds(l.mem, l.last + 4 + AddressBytes(l), TagBytes(l), TagsOf(l))
  BY <1>1, TotalType DEF Holds, TagsOf
<1>4. Holds(l.mem, PayloadAt(l), PayloadBytes(l), PayloadOf(l))
  BY <1>1, TotalType DEF Holds, PayloadOf
<1> QED BY <1>2, <1>3, <1>4

-----------------------------------------------------------------------------
LEMMA InsertedBytes ==
    ASSUME NEW m \in Memory, NEW at \in Nat, NEW n \in Nat, NEW len \in Nat,
           NEW f \in Bytes, at + n + 8 + len <= Total
    PROVE  /\ Insert(m, at, n, len, f) \in Memory
           /\ Keeps(m, Insert(m, at, n, len, f), at, n + 8 + len)
           /\ Carries(m, Insert(m, at, n, len, f), at, n + 4, len + 4)
<1> DEFINE moved == Move(m, at + 4 + len, at, n + 4)
           put == PutInt32(moved, at, len)
           new == Insert(m, at, n, len, f)
<1>1. /\ moved \in Memory /\ Keeps(m, moved, at + 4 + len, n + 4)
      /\ Carries(m, moved, at, n + 4, len + 4)
  <2>1. at + (n + 4) <= Total /\ at + 4 + len \in Nat /\ n + 4 \in Nat
    BY TotalType
  <2>2. (at + 4 + len) - at = len + 4
    OBVIOUS
  <2>3. Carries(m, moved, at, n + 4, (at + 4 + len) - at)
    BY <2>1, MoveBytes
  <2>4. moved \in Memory /\ Keeps(m, moved, at + 4 + len, n + 4)
    BY <2>1, MoveBytes
  <2> HIDE DEF moved
  <2> QED BY <2>2, <2>3, <2>4
<1>2. put \in Memory /\ Keeps(moved, put, at, 4)
  <2>1. at + 4 <= Total
    BY TotalType
  <2> HIDE DEF moved
  <2> QED BY <1>1, <2>1, PutInt32Bytes
<1>3. new = [i \in 0 .. Total - 1 |->
                IF i \in at + 4 .. at + 3 + len THEN f[i - at - 4] ELSE put[i]]
  BY DEF Insert, Memory
<1> HIDE DEF moved, put, new
<1>4. new \in Memory
  BY <1>2, <1>3, TotalType DEF Memory, Bytes
<1>5. ASSUME NEW i \in 0 .. Total - 1, i < at \/ at + (n + 8 + len) <= i
      PROVE  new[i] = m[i]
  <2>1. i \notin at + 4 .. at + 3 + len
    BY <1>5
  <2>2. new[i] = put[i]
    BY <1>3, <2>1
  <2>3. put[i] = moved[i]
    BY <1>2, <1>5 DEF Keeps
  <2>4. moved[i] = m[i]
    BY <1>1, <1>5 DEF Keeps
  <2> QED BY <2>2, <2>3, <2>4
<1>6. ASSUME NEW i \in 0 .. Total - 1, at + (len + 4) <= i,
             i < at + (n + 4) + (len + 4)
      PROVE  new[i] = m[i - (len + 4)]
  BY <1>1, <1>2, <1>3, <1>6, TotalType DEF Keeps, Carries
<1> QED BY <1>4, <1>5, <1>6 DEF new, Keeps, Carries

-----------------------------------------------------------------------------
(* The items of the message stay if they are not written, and arrive if    *)
(* they are carried.                                                       *)
LEMMA ItemsKept ==
    ASSUME NEW l \in Layouts, l.isMessage, NEW m, NEW new,
           NEW at \in Nat, NEW n \in Nat, Keeps(m, new, at, n),
           NEW a \in Nat, ItemsIn(l, m, a),
           a + NewTagBytes(l) + PayloadBytes(l) <= at \/ at + n <= a
    PROVE  ItemsIn(l, new, a)
BY MessageType, TotalType DEF Keeps, ItemsIn, Holds

LEMMA ItemsCarried ==
    ASSUME NEW l \in Layouts, l.isMessage, NEW m, NEW new,
           NEW from \in Nat, NEW n \in Nat, NEW d \in Int,
           Carries(m, new, from, n, d),
           NEW at \in Nat, ItemsIn(l, m, at), from <= at,
           at + NewTagBytes(l) + PayloadBytes(l) <= from + n, from + n <= Total,
           at + d \in Nat
    PROVE  ItemsIn(l, new, at + d)
<1> DEFINE T == NewTagBytes(l)
           P == PayloadBytes(l)
           t == l.tagsLen
<1>1. /\ T \in Nat /\ P \in Nat /\ t \in Nat /\ t + 1 < T
      /\ at + T + P <= from + n
  BY MessageType
<1>2. /\ Holds(m, at, t, TagsOf(l)) /\ Holds(m, at + t, 1, Tag)
      /\ Holds(m, at + t + 1, T - t - 1, NULs) /\ Holds(m, at + T, P, PayloadOf(l))
  BY DEF ItemsIn
<1> HIDE DEF T, P, t
<1>3. Holds(new, at + d, t, TagsOf(l))
  BY <1>1, <1>2, TotalType DEF Carries, Holds
<1>4. Holds(new, (at + d) + t, 1, Tag)
  BY <1>1, <1>2, TotalType DEF Carries, Holds
<1>5. Holds(new, (at + d) + t + 1, T - t - 1, NULs)
  BY <1>1, <1>2, TotalType DEF Carries, Holds
<1>6. Holds(new, (at + d) + T, P, PayloadOf(l))
  <2>1. Holds(m, at + T, P, PayloadOf(l)) /\ at + T + P <= from + n
    BY <1>1, <1>2
  <2> QED BY <1>1, <2>1, TotalType DEF Carries, Holds
<1> QED BY <1>3, <1>4, <1>5, <1>6 DEF ItemsIn, T, P, t

-----------------------------------------------------------------------------
(* The steps, on a layout and a memory.  First, the two insertions.        *)
LEMMA InsertFinalizerBytes ==
    ASSUME NEW l \in Layouts, NEW f \in Bytes, NEW new,
           new = Insert(l.mem, l.last, l.size - l.last - 4, 28, f)
    PROVE  /\ new \in Memory /\ BeforeBundle(l, new)
           /\ l.isMessage => BeforeTags(l, new)
<1> DEFINE n == l.size - l.last - 4
           old == l.mem
           from == l.last
           end == l.size
<1>1. /\ n \in Nat /\ old \in Memory /\ from \in Nat /\ end \in Nat
      /\ from + 4 + n = end /\ end + 48 <= Cap
      /\ FreeFrom(old, end) /\ BehindKept(l, old)
  BY LayoutType
<1>2. FrontKept(l, old)
  BY LayoutType DEF FrontKept, Holds
<1>3. new = Insert(old, from, n, 28, f)
  OBVIOUS
<1>4. from = l.last /\ end = l.size
  OBVIOUS
<1> HIDE DEF n, old, from, end
<1>5. /\ new \in Memory /\ Keeps(old, new, from, n + 8 + 28)
      /\ Carries(old, new, from, n + 4, 28 + 4)
  <2> DEFINE len == 28
  <2>1. len \in Nat /\ len = 28 /\ from + n + 8 + len <= Total
    BY <1>1, TotalType
  <2>2. new = Insert(old, from, n, len, f)
    BY <1>3
  <2> HIDE DEF len
  <2>3. /\ new \in Memory /\ Keeps(old, new, from, n + 8 + len)
        /\ Carries(old, new, from, n + 4, len + 4)
    BY <1>1, <2>1, <2>2, InsertedBytes
  <2> QED BY <2>1, <2>3
<1>6. BeforeBundle(l, new)
  <2>1. Keeps(old, new, from, end + 32 - from)
    <3>1. n + 8 + 28 = end + 32 - from
      BY <1>1
    <3> QED BY <1>5, <3>1
  <2>2. FrontKept(l, new) /\ BehindKept(l, new)
    BY <1>1, <1>2, <1>4, <2>1, TotalType DEF Keeps, FrontKept, BehindKept, Holds
  <2>3. FreeFrom(new, end + 32)
    BY <1>1, <2>1, TotalType DEF Keeps, FreeFrom, Holds, NULs
  <2> QED BY <1>4, <2>2, <2>3 DEF BeforeBundle
<1>7. ASSUME l.isMessage PROVE BeforeTags(l, new)
  <2> DEFINE A == AddressBytes(l)
             T == TagBytes(l)
             P == PayloadBytes(l)
  <2>1. /\ A \in Nat /\ T \in Nat /\ P \in Nat
        /\ end = from + 4 + A + T + P /\ PayloadAt(l) = from + 4 + A + T
        /\ NewElem(l) = from + 32
    BY <1>4, <1>7, MessageType DEF PayloadAt
  <2>2. /\ Holds(old, from + 4, A, AddressOf(l))
        /\ Holds(old, from + 4 + A, T, TagsOf(l))
        /\ Holds(old, from + 4 + A + T, P, PayloadOf(l))
    BY <1>4, <1>7, <2>1, PartsFound DEF AddressIn, old
  <2>3. Carries(old, new, from, end - from, 32)
    <3>1. n + 4 = end - from /\ 28 + 4 = 32
      BY <1>1
    <3> QED BY <1>5, <3>1
  <2> HIDE DEF A, T, P
  <2>4. Holds(new, from + 32 + 4, A, AddressOf(l))
    BY <1>1, <2>1, <2>2, <2>3, TotalType DEF Carries, Holds
  <2>5. Holds(new, from + 32 + 4 + A, T, TagsOf(l))
    BY <1>1, <2>1, <2>2, <2>3, TotalType DEF Carries, Holds
  <2>6. Holds(new, from + 32 + 4 + A + T, P, PayloadOf(l))
    BY <1>1, <2>1, <2>2, <2>3, TotalType DEF Carries, Holds
  <2>7. from + 32 + 4 + A + T = end + 32 - P
    BY <1>1, <2>1
  <2> QED BY <1>4, <1>6, <2>1, <2>4, <2>5, <2>6, <2>7
          DEF BeforeBundle, BeforeTags, AddressIn, A, T, P
<1> QED BY <1>5, <1>6, <1>7

LEMMA BundleElemBytes ==
    ASSUME NEW l \in Layouts, NEW m \in Memory, BeforeBundle(l, m),
           NEW f \in Bytes, NEW new,
           new = Insert(m, l.last + 32, l.size - l.last - 4, 12, f)
    PROVE  /\ new \in Memory /\ FrontKept(l, new) /\ BehindKept(l, new)
           /\ FreeFrom(new, l.size + 48)
<1> DEFINE n == l.size - l.last - 4
           from == l.last + 32
           end == l.size + 32
<1>1. /\ n \in Nat /\ from \in Nat /\ end \in Nat /\ l.last <= from
      /\ from + 4 + n = end /\ end + 16 <= Cap /\ end + 16 = l.size + 48
  BY LayoutType
<1>2. FrontKept(l, m) /\ BehindKept(l, m) /\ FreeFrom(m, end)
  BY DEF BeforeBundle
<1>3. new = Insert(m, from, n, 12, f)
  OBVIOUS
<1> HIDE DEF n, from, end
<1>4. new \in Memory /\ Keeps(m, new, from, n + 8 + 12)
  <2> DEFINE len == 12
  <2>1. len \in Nat /\ len = 12 /\ from + n + 8 + len <= Total
    BY <1>1, TotalType
  <2>2. new = Insert(m, from, n, len, f)
    BY <1>3
  <2> HIDE DEF len
  <2>3. new \in Memory /\ Keeps(m, new, from, n + 8 + len)
    BY <1>1, <2>1, <2>2, InsertedBytes
  <2> QED BY <2>1, <2>3
<1>5. Keeps(m, new, from, end + 16 - from)
  <2>1. n + 8 + 12 = end + 16 - from
    BY <1>1
  <2> QED BY <1>4, <2>1
<1>6. FrontKept(l, new) /\ BehindKept(l, new)
  BY <1>1, <1>2, <1>5, LayoutType, TotalType
     DEF Keeps, FrontKept, BehindKept, Holds
<1>7. FreeFrom(new, end + 16)
  BY <1>1, <1>2, <1>5, TotalType DEF Keeps, FreeFrom, Holds, NULs
<1> QED BY <1>1, <1>4, <1>6, <1>7

(* The address and the typetags are read where they are.                   *)
LEMMA TextsFound ==
    ASSUME NEW l \in Layouts, l.isMessage, NEW m \in Memory, BeforeTags(l, m)
    PROVE  /\ StrLen(m, NewElem(l) + 4) = l.addressLen
           /\ StrLen(m, NewElem(l) + 4 + AddressBytes(l)) = l.tagsLen
<1> DEFINE at == l.last + 4
           A == AddressBytes(l)
           T == TagBytes(l)
           a == l.addressLen
           t == l.tagsLen
           at2 == NewElem(l) + 4
           old == l.mem
<1>1. /\ at \in Nat /\ A \in Nat /\ T \in Nat /\ a \in Nat /\ t \in Nat
      /\ a < A /\ t < T /\ at2 \in Nat /\ at2 + A + T <= Total
      /\ IsText(old, at, a) /\ IsText(old, at + A, t)
  BY MessageType, LayoutType, TotalType
<1>2. /\ Holds(m, at2, A, AddressOf(l)) /\ AddressOf(l) = [k \in Nat |-> old[at + k]]
      /\ Holds(m, at2 + A, T, TagsOf(l)) /\ TagsOf(l) = [k \in Nat |-> old[at + A + k]]
  BY DEF BeforeTags, AddressIn, AddressOf, TagsOf
<1> HIDE DEF at, A, T, a, t, at2, old
<1>3. IsText(m, at2, a)
  <2>1. ASSUME NEW k \in 0 .. a PROVE m[at2 + k] = old[at + k]
    <3>1. at2 + k \in 0 .. Total - 1 /\ at2 <= at2 + k /\ at2 + k < at2 + A
          /\ (at2 + k) - at2 = k /\ k \in Nat
      BY <1>1, TotalType
    <3>2. m[at2 + k] = AddressOf(l)[(at2 + k) - at2]
      BY <1>2, <3>1 DEF Holds
    <3> QED BY <1>2, <3>1, <3>2
  <2>2. a \in 0 .. a /\ \A k \in 0 .. a - 1 : k \in 0 .. a
    BY <1>1
  <2> QED BY <1>1, <2>1, <2>2 DEF IsText
<1>4. IsText(m, at2 + A, t)
  <2>1. ASSUME NEW k \in 0 .. t PROVE m[at2 + A + k] = old[at + A + k]
    <3>1. at2 + A + k \in 0 .. Total - 1 /\ at2 + A <= at2 + A + k
          /\ at2 + A + k < at2 + A + T /\ (at2 + A + k) - (at2 + A) = k /\ k \in Nat
      BY <1>1, TotalType
    <3>2. m[at2 + A + k] = TagsOf(l)[(at2 + A + k) - (at2 + A)]
      BY <1>2, <3>1 DEF Holds
    <3> QED BY <1>2, <3>1, <3>2
  <2>2. t \in 0 .. t /\ \A k \in 0 .. t - 1 : k \in 0 .. t
    BY <1>1
  <2> QED BY <1>1, <2>1, <2>2 DEF IsText
<1>5. StrLen(m, at2) = a
  <2>1. at2 + a < Total
    BY <1>1, TotalType
  <2> QED BY <1>1, <1>3, <2>1, StrLenIs
<1>6. StrLen(m, at2 + A) = t
  <2> DEFINE tags == at2 + A
  <2>1. tags \in Nat /\ tags + t < Total /\ IsText(m, tags, t)
    BY <1>1, <1>4, TotalType
  <2> HIDE DEF tags
  <2>2. StrLen(m, tags) = t
    BY <1>1, <2>1, StrLenIs
  <2> QED BY <2>2 DEF tags
<1> QED BY <1>5, <1>6 DEF at2, A, a, t

(* Room for the typetag of the address is made in the typetags, or between *)
(* them and the payload.                                                   *)
RoomForTag(l, m, n) ==
    LET plo == NewElem(l) + 4 + AddressBytes(l) + TagBytes(l)
    IN  IF NewTagBytes(l) = TagBytes(l) THEN m
        ELSE PutInt32(Clear(Move(m, plo + 4, plo, PayloadBytes(l)), plo, 4),
                      NewElem(l), n)

LEMMA TagAddressBytes ==
    ASSUME NEW l \in Layouts, l.isMessage, NEW m \in Memory, BeforeTags(l, m),
           NEW n \in Nat, NEW new,
           new = [RoomForTag(l, m, n) EXCEPT
                     ![NewElem(l) + 4 + AddressBytes(l) + l.tagsLen] = StringTag]
    PROVE  new \in Memory /\ BeforeCopy(l, new)
<1> DEFINE N == NewElem(l)
           A == AddressBytes(l)
           T == TagBytes(l)
           T1 == NewTagBytes(l)
           P == PayloadBytes(l)
           t == l.tagsLen
           tags == N + 4 + A
           plo == tags + T
           end == plo + P
           room == RoomForTag(l, m, n)
<1>1. /\ N \in Nat /\ A \in Nat /\ T \in Nat /\ T1 \in Nat /\ P \in Nat /\ t \in Nat
      /\ tags \in Nat /\ plo \in Nat /\ end \in Nat
      /\ t < T /\ t + 1 < T1 /\ (T1 = T \/ T1 = T + 4) /\ l.last + 32 = N
      /\ end + 4 <= Cap /\ end = l.size + 32 /\ l.last \in Nat
      /\ EndWithAddress(l) = tags + T1 + P
  BY MessageType, LayoutType, TotalType
<1>2. /\ FrontKept(l, m) /\ BehindKept(l, m) /\ FreeFrom(m, end)
      /\ Holds(m, N + 4, A, AddressOf(l))
      /\ Holds(m, tags, T, TagsOf(l)) /\ Holds(m, plo, P, PayloadOf(l))
  <2>1. l.size + 32 - P = plo
    BY <1>1, LayoutType
  <2> QED BY <1>1, <2>1 DEF BeforeTags, AddressIn
<1>3. Holds(m, tags + t + 1, T - t - 1, NULs)
  <2>1. \A k \in Nat : t <= k /\ k < T => TagsOf(l)[k] = 0
    <3>1. \A i \in l.last + 4 + A + t .. PayloadAt(l) - 1 : l.mem[i] = 0
      BY MessageType
    <3>2. PayloadAt(l) = l.last + 4 + A + T
      BY DEF PayloadAt
    <3> QED BY <1>1, <3>1, <3>2 DEF TagsOf
  <2> HIDE DEF N, A, T, T1, P, t, tags, plo, end, room
  <2> QED BY <1>1, <1>2, <2>1, TotalType DEF Holds, NULs
<1>4. new = [room EXCEPT ![tags + t] = StringTag]
  OBVIOUS
<1>5. /\ T1 = T => room = m
      /\ T1 # T => room = PutInt32(Clear(Move(m, plo + 4, plo, P), plo, 4), N, n)
  BY DEF RoomForTag
<1>6. tags = N + 4 + A /\ plo = tags + T /\ end = plo + P /\ t = l.tagsLen
  OBVIOUS
<1> HIDE DEF N, A, T, T1, P, t, tags, plo, end, room
(* All parts are in room, the payload behind it. *)
<1>7. /\ room \in Memory /\ FrontKept(l, room) /\ BehindKept(l, room)
      /\ FreeFrom(room, tags + T1 + P)
      /\ Holds(room, N + 4, A, AddressOf(l)) /\ Holds(room, tags, t, TagsOf(l))
      /\ Holds(room, tags + t + 1, T1 - t - 1, NULs)
      /\ Holds(room, tags + T1, P, PayloadOf(l))
  <2>1. CASE T1 = T
    <3>1. Holds(m, tags, t, TagsOf(l))
      BY <1>1, <1>2, <1>6, TotalType DEF Holds
    <3> QED BY <1>2, <1>3, <1>5, <1>6, <2>1, <3>1
  <2>2. CASE T1 # T
    <3> DEFINE moved == Move(m, plo + 4, plo, P)
               cleared == Clear(moved, plo, 4)
    <3>1. /\ moved \in Memory /\ Keeps(m, moved, plo + 4, P)
          /\ Carries(m, moved, plo, P, 4)
      <4> DEFINE to == plo + 4
      <4>1. to \in Nat /\ to - plo = 4 /\ plo + P <= Total
        BY <1>1, <1>6, TotalType
      <4> HIDE DEF to
      <4>2. /\ Move(m, to, plo, P) \in Memory /\ Keeps(m, Move(m, to, plo, P), to, P)
            /\ Carries(m, Move(m, to, plo, P), plo, P, to - plo)
        BY <1>1, <4>1, MoveBytes
      <4> QED BY <4>1, <4>2 DEF to
    <3> HIDE DEF moved
    <3>2. /\ cleared \in Memory /\ Keeps(moved, cleared, plo, 4)
          /\ \A i \in 0 .. Total - 1 : plo <= i /\ i < plo + 4 => cleared[i] = 0
      BY <1>1, <3>1, ClearBytes
    <3> HIDE DEF cleared
    <3>3. room \in Memory /\ Keeps(cleared, room, N, 4)
      <4>1. room = PutInt32(cleared, N, n) /\ N + 4 <= Total
        BY <1>1, <1>5, <1>6, <2>2, TotalType DEF cleared, moved
      <4> QED BY <1>1, <3>2, <4>1, PutInt32Bytes
    <3>4. /\ \A i \in 0 .. Total - 1 :
                i < N \/ (N + 4 <= i /\ i < plo) \/ end + 4 <= i => room[i] = m[i]
          /\ \A i \in 0 .. Total - 1 : plo <= i /\ i < plo + 4 => room[i] = 0
          /\ \A i \in 0 .. Total - 1 :
                plo + 4 <= i /\ i < end + 4 => room[i] = m[i - 4]
      BY <1>1, <1>6, <3>1, <3>2, <3>3, TotalType DEF Keeps, Carries
    <3>5. T1 = T + 4
      BY <1>1, <2>2
    <3>6. FrontKept(l, room) /\ BehindKept(l, room)
      BY <1>1, <1>2, <3>4, TotalType DEF FrontKept, BehindKept, Holds
    <3>7. FreeFrom(room, tags + T1 + P)
      BY <1>1, <1>2, <1>6, <3>4, <3>5, TotalType DEF FreeFrom, Holds, NULs
    <3>8. Holds(room, N + 4, A, AddressOf(l)) /\ Holds(room, tags, t, TagsOf(l))
      BY <1>1, <1>2, <1>6, <3>4, TotalType DEF Holds
    <3>9. Holds(room, tags + t + 1, T1 - t - 1, NULs)
      BY <1>1, <1>3, <1>6, <3>4, <3>5, TotalType DEF Holds, NULs
    <3>10. Holds(room, tags + T1, P, PayloadOf(l))
      BY <1>1, <1>2, <1>6, <3>4, <3>5, TotalType DEF Holds
    <3> QED BY <3>3, <3>6, <3>7, <3>8, <3>9, <3>10
  <2> QED BY <2>1, <2>2
<1>8. new \in Memory /\ \A i \in 0 .. Total - 1 :
                              new[i] = IF i = tags + t THEN StringTag ELSE room[i]
  <2> DEFINE at == tags + t
  <2>1. new = [room EXCEPT ![at] = StringTag] /\ StringTag \in Nat
    BY <1>4 DEF StringTag
  <2> HIDE DEF at
  <2>2. room \in [0 .. Total - 1 -> Nat]
    BY <1>7 DEF Memory
  <2>3. new \in [0 .. Total - 1 -> Nat]
        /\ \A i \in 0 .. Total - 1 : new[i] = IF i = at THEN StringTag ELSE room[i]
    BY <2>1, <2>2
  <2> QED BY <2>3 DEF Memory, at
<1>9. FrontKept(l, new) /\ BehindKept(l, new)
  BY <1>1, <1>6, <1>7, <1>8, TotalType DEF FrontKept, BehindKept, Holds
<1>10. FreeFrom(new, tags + T1 + P)
  BY <1>1, <1>6, <1>7, <1>8, TotalType DEF FreeFrom, Holds
<1>11. Holds(new, N + 4, A, AddressOf(l))
  BY <1>1, <1>6, <1>7, <1>8, TotalType DEF Holds
<1>12. ItemsIn(l, new, tags)
  <2>1. Holds(new, tags, t, TagsOf(l)) /\ Holds(new, tags + t, 1, Tag)
    BY <1>1, <1>7, <1>8, TotalType DEF Holds, Tag
  <2>2. Holds(new, tags + t + 1, T1 - t - 1, NULs)
    BY <1>1, <1>7, <1>8, TotalType DEF Holds
  <2>3. Holds(new, tags + T1, P, PayloadOf(l))
    BY <1>1, <1>7, <1>8, TotalType DEF Holds
  <2> QED BY <2>1, <2>2, <2>3 DEF ItemsIn, T1, P, t
<1> QED BY <1>1, <1>6, <1>8, <1>9, <1>10, <1>11, <1>12
        DEF BeforeCopy, AddressIn, N, A

(* The address is taken behind the message, ...                            *)
LEMMA ShortAddressBytes ==
    ASSUME NEW l \in Layouts, l.isMessage, AddressBytes(l) = 4,
           NEW m \in Memory, BeforeCopy(l, m), NEW n \in Nat,
           n = EndWithAddress(l) - NewElem(l), NEW new,
           new = Clear(Move(PutInt32(m, NewElem(l), n), EndWithAddress(l),
                            NewElem(l) + 4, 4),
                       NewElem(l) + 4, 4)
    PROVE  new \in Memory /\ AtEnd(l, new)
<1> DEFINE N == NewElem(l)
           E == EndWithAddress(l)
           address == N + 4
           tags == N + 8
           put == PutInt32(m, N, n)
           moved == Move(put, E, address, 4)
<1>1. /\ N \in Nat /\ E \in Nat /\ address \in Nat /\ tags \in Nat /\ l.last <= N
      /\ N + 8 + NewTagBytes(l) + PayloadBytes(l) = E /\ N + 8 <= E /\ E + 4 <= Cap
      /\ l.last \in Nat /\ NewTagBytes(l) \in Nat /\ PayloadBytes(l) \in Nat
      /\ E + 4 - AddressBytes(l) = E /\ N + 4 + AddressBytes(l) = tags
  BY MessageType, LayoutType, TotalType
<1>2. /\ FrontKept(l, m) /\ BehindKept(l, m) /\ FreeFrom(m, E)
      /\ Holds(m, address, 4, AddressOf(l)) /\ ItemsIn(l, m, tags)
  BY <1>1 DEF BeforeCopy, AddressIn
<1>3. new = Clear(moved, address, 4) /\ n = E - N
  OBVIOUS
<1>4. address = N + 4 /\ tags = N + 8
  OBVIOUS
<1>5. n \in Nat /\ N = NewElem(l) /\ E = EndWithAddress(l)
  OBVIOUS
<1> HIDE DEF N, E, address, tags
<1>6. put \in Memory /\ Keeps(m, put, N, 4) /\ Int32(put, N) = n
  BY <1>1, <1>5, PutInt32Bytes, TotalType
<1> HIDE DEF put
<1>7. /\ moved \in Memory /\ Keeps(put, moved, E, 4)
      /\ Carries(put, moved, address, 4, E - address)
  <2>1. address + 4 <= Total /\ 4 \in Nat
    BY <1>1, <1>4, TotalType
  <2> QED BY <1>1, <1>6, <2>1, MoveBytes
<1> HIDE DEF moved
<1>8. /\ new \in Memory /\ Keeps(moved, new, address, 4)
      /\ \A i \in 0 .. Total - 1 : address <= i /\ i < address + 4 => new[i] = 0
  <2> DEFINE len == 4
  <2>1. len \in Nat /\ new = Clear(moved, address, len)
    BY <1>3
  <2>3. len = 4
    OBVIOUS
  <2> HIDE DEF len
  <2>4. address \in Nat /\ moved \in Memory
    BY <1>1, <1>7
  <2>5. /\ Clear(moved, address, len) \in Memory
        /\ Keeps(moved, Clear(moved, address, len), address, len)
        /\ \A i \in 0 .. Total - 1 :
              address <= i /\ i < address + len => Clear(moved, address, len)[i] = 0
    BY <2>1, <2>4, ClearBytes
  <2>2. /\ new \in Memory /\ Keeps(moved, new, address, len)
        /\ \A i \in 0 .. Total - 1 : address <= i /\ i < address + len => new[i] = 0
    BY <2>1, <2>5
  <2> QED BY <2>3, <2>2
<1>9. FrontKept(l, new) /\ BehindKept(l, new)
  BY <1>1, <1>2, <1>4, <1>6, <1>7, <1>8, TotalType
     DEF Keeps, FrontKept, BehindKept, Holds
<1>10. FreeFrom(new, E + 4)
  BY <1>1, <1>2, <1>4, <1>6, <1>7, <1>8, TotalType DEF Keeps, FreeFrom, Holds, NULs
<1>11. Holds(new, E, 4, AddressOf(l))
  <2>1. Holds(put, address, 4, AddressOf(l))
    BY <1>1, <1>2, <1>4, <1>6, TotalType DEF Keeps, Holds
  <2>2. Holds(moved, E, 4, AddressOf(l))
    BY <1>1, <1>4, <1>7, <2>1, TotalType DEF Carries, Holds
  <2> QED BY <1>1, <1>4, <1>8, <2>2, TotalType DEF Keeps, Holds
<1>12. ItemsIn(l, new, tags)
  <2>1. ItemsIn(l, put, tags)
    BY <1>1, <1>2, <1>4, <1>6, ItemsKept
  <2>2. ItemsIn(l, moved, tags)
    BY <1>1, <1>4, <1>7, <2>1, ItemsKept
  <2> QED BY <1>1, <1>4, <1>8, <2>2, ItemsKept
<1>13. Holds(new, address, 4, NULs)
  BY <1>1, <1>8, TotalType DEF Holds, NULs
<1>14. Int32(new, N) = E - N
  <2>1. N + 3 \in 0 .. Total - 1 /\ N + 3 < address /\ N + 3 < E
    BY <1>1, <1>4, TotalType
  <2> QED BY <1>3, <1>6, <1>7, <1>8, <2>1 DEF Keeps, Int32
<1> QED BY <1>1, <1>4, <1>5, <1>8, <1>9, <1>10, <1>11, <1>12, <1>13, <1>14
        DEF AtEnd, AddressIn

LEMMA CopyAddressBytes ==
    ASSUME NEW l \in Layouts, l.isMessage, NEW m \in Memory, BeforeCopy(l, m),
           NEW new,
           new = Move(m, EndWithAddress(l), NewElem(l) + 4, AddressBytes(l))
    PROVE  new \in Memory /\ BeforeShift(l, new)
<1> DEFINE N == NewElem(l)
           A == AddressBytes(l)
           E == EndWithAddress(l)
           address == N + 4
           tags == N + 4 + A
<1>1. /\ N \in Nat /\ A \in Nat /\ E \in Nat /\ address \in Nat /\ tags \in Nat
      /\ l.last <= N /\ tags + NewTagBytes(l) + PayloadBytes(l) = E /\ tags <= E
      /\ E + A <= Cap /\ E + A \in Nat /\ l.last \in Nat
  BY MessageType, LayoutType, TotalType
<1>2. /\ FrontKept(l, m) /\ BehindKept(l, m) /\ FreeFrom(m, E)
      /\ Holds(m, address, A, AddressOf(l)) /\ ItemsIn(l, m, tags)
  BY DEF BeforeCopy, AddressIn
<1>3. /\ new = Move(m, E, address, A) /\ address = N + 4 /\ tags = N + 4 + A
      /\ E = EndWithAddress(l) /\ A = AddressBytes(l) /\ N = NewElem(l)
  OBVIOUS
<1> HIDE DEF N, A, E, address, tags
<1>4. /\ new \in Memory /\ Keeps(m, new, E, A)
      /\ Carries(m, new, address, A, E - address)
  <2>1. address + A <= Total
    BY <1>1, <1>3, TotalType
  <2> QED BY <1>1, <1>3, <2>1, MoveBytes
<1>5. FrontKept(l, new) /\ BehindKept(l, new)
  BY <1>1, <1>2, <1>3, <1>4, TotalType DEF Keeps, FrontKept, BehindKept, Holds
<1>6. FreeFrom(new, E + A)
  BY <1>1, <1>2, <1>4, TotalType DEF Keeps, FreeFrom, Holds, NULs
<1>7. Holds(new, E, A, AddressOf(l))
  BY <1>1, <1>2, <1>3, <1>4, TotalType DEF Carries, Holds
<1>8. ItemsIn(l, new, tags)
  BY <1>1, <1>2, <1>4, ItemsKept
<1> QED BY <1>3, <1>4, <1>5, <1>6, <1>7, <1>8 DEF BeforeShift, AddressIn

(* ... or, when it is longer, copied there and the rest shifted left.      *)
LEMMA ShiftLeftBytes ==
    ASSUME NEW l \in Layouts, l.isMessage, AddressBytes(l) # 4,
           NEW m \in Memory, BeforeShift(l, m), NEW new,
           new = Move(m, NewElem(l) + 8, NewElem(l) + 4 + AddressBytes(l),
                      EndWithAddress(l) - AddressBytes(l))
    PROVE  new \in Memory /\ BeforeAnonymous(l, new)
<1> DEFINE N == NewElem(l)
           A == AddressBytes(l)
           E == EndWithAddress(l)
           to == N + 8
           from == N + 4 + A
           n == E - A
           len == NewTagBytes(l) + PayloadBytes(l)
<1>1. /\ N \in Nat /\ A \in Nat /\ E \in Nat /\ to \in Nat /\ from \in Nat
      /\ n \in Nat /\ len \in Nat /\ l.last \in Nat
      /\ l.last <= N /\ from + len = E /\ E + A <= Cap /\ A >= 8
      /\ len = NewTagBytes(l) + PayloadBytes(l)
      /\ NewTagBytes(l) \in Nat /\ PayloadBytes(l) \in Nat
  BY MessageType, LayoutType, TotalType
<1>2. /\ FrontKept(l, m) /\ BehindKept(l, m) /\ FreeFrom(m, E + A)
      /\ Holds(m, E, A, AddressOf(l)) /\ ItemsIn(l, m, from)
  BY DEF BeforeShift, AddressIn
<1>3. /\ new = Move(m, to, from, n) /\ to = N + 8 /\ from = N + 4 + A /\ n = E - A
      /\ E = EndWithAddress(l) /\ A = AddressBytes(l) /\ N = NewElem(l)
  OBVIOUS
<1>4. /\ Reaches(l) <=> A <= N + 4
      /\ ReachesAll(l) <=> 2 * A <= N + 12 /\ E + N + 8 <= Cap
      /\ StaysInside(l) <=>
            A <= N + 4 /\ E + 8 + N - A <= Cap /\ E + 4 + 2 * A <= Cap
  BY DEF Reaches, ReachesAll, StaysInside
<1> HIDE DEF N, A, E, to, from, n, len
(* The last byte moved is at E + N + 3, and arrives at E + N + 7 - A.      *)
<1>5. /\ from + n = E + N + 4 /\ to + n = E + N + 8 - A /\ to - from = 4 - A
      /\ from + (4 - A) = N + 8 /\ from + n + (4 - A) = E + N + 8 - A
  BY <1>1, <1>3
<1>6. /\ new \in Memory /\ Keeps(m, new, to, n) /\ Carries(m, new, from, n, 4 - A)
  <2>1. from + n <= Total
    BY <1>1, <1>3, <1>5, TotalType
  <2>2. /\ new \in Memory /\ Keeps(m, new, to, n)
        /\ Carries(m, new, from, n, to - from)
    <3>1. new = Move(m, to, from, n)
      BY <1>3
    <3> QED BY <1>1, <2>1, <3>1, MoveBytes
  <2> QED BY <1>5, <2>2
<1>7. ASSUME NEW i \in 0 .. Total - 1, i < N + 8 \/ E + N + 8 - A <= i
      PROVE  new[i] = m[i]
  BY <1>1, <1>3, <1>5, <1>6, <1>7, TotalType DEF Keeps
<1>14. ASSUME NEW i \in 0 .. Total - 1, N + 8 <= i, i < E + N + 8 - A
       PROVE  new[i] = m[i + (A - 4)]
  <2>1. from + (4 - A) <= i /\ i < from + n + (4 - A) /\ i - (4 - A) = i + (A - 4)
    BY <1>1, <1>5, <1>14
  <2> QED BY <1>6, <2>1 DEF Carries
<1>8. FrontKept(l, new)
  BY <1>1, <1>2, <1>7, TotalType DEF FrontKept, Holds
<1>9. ASSUME StaysInside(l) PROVE BehindKept(l, new)
  BY <1>1, <1>2, <1>4, <1>7, <1>9, TotalType DEF BehindKept, Holds
<1>10. ASSUME ReachesAll(l),
              NEW i \in 0 .. Total - 1, E + 4 <= i, i < Cap,
              i < E + A - 4 \/ E + A <= i
       PROVE  new[i] = 0
  <2>1. CASE i < E + N + 8 - A
    <3>1. /\ N + 8 <= i /\ i + (A - 4) \in 0 .. Total - 1
          /\ E + A <= i + (A - 4) /\ i + (A - 4) < Cap
      BY <1>1, <1>3, <1>4, <1>10, <2>1, TotalType
    <3>2. m[i + (A - 4)] = 0
      BY <1>1, <1>2, <3>1, TotalType DEF FreeFrom, Holds, NULs
    <3> QED BY <1>14, <2>1, <3>1, <3>2
  <2>2. CASE E + N + 8 - A <= i
    <3>1. E + A <= i
      BY <1>1, <1>4, <1>10, <2>2
    <3>2. m[i] = 0
      BY <1>1, <1>2, <1>10, <3>1, TotalType DEF FreeFrom, Holds, NULs
    <3> QED BY <1>7, <2>2, <3>2
  <2> QED BY <1>1, <2>1, <2>2
<1>11. ReachesAll(l) => Holds(new, E + 4, A - 8, NULs) /\ FreeFrom(new, E + A)
  BY <1>1, <1>10, TotalType DEF FreeFrom, Holds, NULs
<1>12. ASSUME Reaches(l) PROVE Holds(new, E + 4 - A, A, AddressOf(l))
  <2> SUFFICES ASSUME NEW i \in 0 .. Total - 1, E + 4 - A <= i, i < E + 4
               PROVE  new[i] = AddressOf(l)[i - (E + 4 - A)]
    BY <1>1 DEF Holds
  <2>1. /\ N + 8 <= i /\ i < E + N + 8 - A /\ i + (A - 4) \in 0 .. Total - 1
        /\ E <= i + (A - 4) /\ i + (A - 4) < E + A
        /\ (i + (A - 4)) - E = i - (E + 4 - A)
    BY <1>1, <1>3, <1>4, <1>12, TotalType
  <2>2. m[i + (A - 4)] = AddressOf(l)[(i + (A - 4)) - E]
    BY <1>2, <2>1 DEF Holds
  <2> QED BY <1>14, <2>1, <2>2
<1>13. ItemsIn(l, new, N + 8)
  <2> DEFINE d == 4 - A
  <2>1. d \in Int /\ from + d = N + 8 /\ from + d \in Nat /\ from <= from
    BY <1>1, <1>5
  <2>4. from + NewTagBytes(l) + PayloadBytes(l) = E /\ E <= from + n
    BY <1>1, <1>5
  <2>5. from + n <= Total
    BY <1>1, <1>3, <1>5, TotalType
  <2>2. Carries(m, new, from, n, d)
    BY <1>6
  <2> HIDE DEF d
  <2>3. ItemsIn(l, new, from + d)
    BY <1>1, <1>2, <2>1, <2>2, <2>4, <2>5, ItemsCarried
  <2> QED BY <2>1, <2>3
<1> QED BY <1>3, <1>6, <1>8, <1>9, <1>11, <1>12, <1>13
        DEF BeforeAnonymous, AddressIn

LEMMA AnonymousAddressBytes ==
    ASSUME NEW l \in Layouts, l.isMessage, NEW m \in Memory, BeforeAnonymous(l, m),
           NEW new, new = Clear(m, NewElem(l) + 4, 4)
    PROVE  new \in Memory /\ BeforeClear(l, new)
<1> DEFINE N == NewElem(l)
           A == AddressBytes(l)
           E == EndWithAddress(l)
           address == N + 4
<1>1. /\ N \in Nat /\ A \in Nat /\ E \in Nat /\ address \in Nat /\ l.last \in Nat
      /\ l.last <= N /\ N + 8 <= E + 4 - A /\ N + 8 <= E /\ E <= Cap
  BY MessageType, LayoutType, TotalType
<1>2. /\ FrontKept(l, m) /\ (StaysInside(l) => BehindKept(l, m))
      /\ ReachesAll(l) => Holds(m, E + 4, A - 8, NULs) /\ FreeFrom(m, E + A)
      /\ Reaches(l) => Holds(m, E + 4 - A, A, AddressOf(l))
      /\ ItemsIn(l, m, N + 8)
  BY DEF BeforeAnonymous, AddressIn
<1>3. /\ new = Clear(m, address, 4) /\ address = N + 4
      /\ E = EndWithAddress(l) /\ A = AddressBytes(l) /\ N = NewElem(l)
  OBVIOUS
<1> HIDE DEF N, A, E, address
<1>4. /\ new \in Memory /\ Keeps(m, new, address, 4)
      /\ \A i \in 0 .. Total - 1 : address <= i /\ i < address + 4 => new[i] = 0
  <2> DEFINE len == 4
  <2>1. len \in Nat /\ new = Clear(m, address, len)
    BY <1>3
  <2>3. len = 4
    OBVIOUS
  <2> HIDE DEF len
  <2>4. address \in Nat
    BY <1>1
  <2>5. /\ Clear(m, address, len) \in Memory
        /\ Keeps(m, Clear(m, address, len), address, len)
        /\ \A i \in 0 .. Total - 1 :
              address <= i /\ i < address + len => Clear(m, address, len)[i] = 0
    BY <2>1, <2>4, ClearBytes
  <2>2. /\ new \in Memory /\ Keeps(m, new, address, len)
        /\ \A i \in 0 .. Total - 1 : address <= i /\ i < address + len => new[i] = 0
    BY <2>1, <2>5
  <2> QED BY <2>3, <2>2
<1>5. FrontKept(l, new) /\ (StaysInside(l) => BehindKept(l, new))
  BY <1>1, <1>2, <1>3, <1>4, TotalType DEF Keeps, FrontKept, BehindKept, Holds
<1>6. ReachesAll(l) => Holds(new, E + 4, A - 8, NULs) /\ FreeFrom(new, E + A)
  BY <1>1, <1>2, <1>3, <1>4, TotalType DEF Keeps, FreeFrom, Holds
<1>7. Reaches(l) => Holds(new, E + 4 - A, A, AddressOf(l))
  BY <1>1, <1>2, <1>3, <1>4, TotalType DEF Keeps, Holds
<1>8. ItemsIn(l, new, N + 8)
  <2> DEFINE a == N + 8
  <2>1. a \in Nat /\ address + 4 <= a /\ ItemsIn(l, m, a)
    BY <1>1, <1>2, <1>3
  <2> HIDE DEF a
  <2>2. ItemsIn(l, new, a)
    BY <1>1, <1>4, <2>1, ItemsKept
  <2> QED BY <2>2 DEF a
<1>9. Holds(new, address, 4, NULs)
  BY <1>1, <1>4, TotalType DEF Holds, NULs
<1> QED BY <1>3, <1>4, <1>5, <1>6, <1>7, <1>8, <1>9
        DEF BeforeClear, BeforeAnonymous, AddressIn

LEMMA ClearBehindBytes ==
    ASSUME NEW l \in Layouts, l.isMessage, AddressBytes(l) # 4,
           NEW m \in Memory, BeforeClear(l, m), NEW n \in Nat,
           n = EndWithAddress(l) - NewElem(l), NEW new,
           new = PutInt32(Clear(m, EndWithAddress(l) + (AddressBytes(l) - 4),
                                AddressBytes(l) - 4),
                          NewElem(l), n)
    PROVE  new \in Memory /\ AtEnd(l, new)
<1> DEFINE N == NewElem(l)
           A == AddressBytes(l)
           E == EndWithAddress(l)
           at == E + (A - 4)
           len == A - 4
           cleared == Clear(m, at, len)
<1>1. /\ N \in Nat /\ A \in Nat /\ E \in Nat /\ at \in Nat /\ len \in Nat
      /\ l.last \in Nat /\ l.last <= N /\ N + 8 <= E + 4 - A /\ N + 8 <= E
      /\ E + A <= Cap /\ A >= 8
      /\ N + 8 + NewTagBytes(l) + PayloadBytes(l) = E + 4 - A
  BY MessageType, LayoutType, TotalType
<1>2. /\ FrontKept(l, m) /\ (StaysInside(l) => BehindKept(l, m))
      /\ ReachesAll(l) => Holds(m, E + 4, A - 8, NULs) /\ FreeFrom(m, E + A)
      /\ Reaches(l) => Holds(m, E + 4 - A, A, AddressOf(l))
      /\ ItemsIn(l, m, N + 8) /\ Holds(m, N + 4, 4, NULs)
  BY DEF BeforeClear, BeforeAnonymous, AddressIn
<1>3. /\ new = PutInt32(cleared, N, n) /\ at = E + A - 4 /\ len = A - 4 /\ n = E - N
      /\ E = EndWithAddress(l) /\ A = AddressBytes(l) /\ N = NewElem(l)
  BY <1>1
<1>4. StaysInside(l) => E + 4 + 2 * A <= Cap
  BY DEF StaysInside
<1> HIDE DEF N, A, E, at, len
<1>5. /\ cleared \in Memory /\ Keeps(m, cleared, at, len)
      /\ \A i \in 0 .. Total - 1 : at <= i /\ i < at + len => cleared[i] = 0
  BY <1>1, ClearBytes
<1> HIDE DEF cleared
<1>6. new \in Memory /\ Keeps(cleared, new, N, 4) /\ Int32(new, N) = n
  BY <1>1, <1>3, <1>5, PutInt32Bytes, TotalType
<1>7. /\ \A i \in 0 .. Total - 1 :
            i < N \/ (N + 4 <= i /\ i < E + A - 4) \/ E + 2 * A - 8 <= i =>
                new[i] = m[i]
      /\ \A i \in 0 .. Total - 1 :
            E + A - 4 <= i /\ i < E + 2 * A - 8 => new[i] = 0
  BY <1>1, <1>3, <1>5, <1>6, TotalType DEF Keeps
<1>8. FrontKept(l, new)
  BY <1>1, <1>2, <1>7, TotalType DEF FrontKept, Holds
<1>9. StaysInside(l) => BehindKept(l, new)
  BY <1>1, <1>2, <1>4, <1>7, TotalType DEF BehindKept, Holds
<1>10. ReachesAll(l) => FreeFrom(new, E + 4)
  BY <1>1, <1>2, <1>7, TotalType DEF FreeFrom, Holds, NULs
<1>11. Reaches(l) => Holds(new, E + 4 - A, A, AddressOf(l))
  BY <1>1, <1>2, <1>7, TotalType DEF Holds
<1>12. ItemsIn(l, new, N + 8)
  <2> DEFINE a == N + 8
  <2>1. a \in Nat /\ N + 4 <= a /\ ItemsIn(l, m, a)
        /\ a + NewTagBytes(l) + PayloadBytes(l) <= at
    BY <1>1, <1>2, <1>3
  <2> HIDE DEF a
  <2>2. ItemsIn(l, cleared, a)
    BY <1>1, <1>5, <2>1, ItemsKept
  <2>3. ItemsIn(l, new, a)
    BY <1>1, <1>6, <2>1, <2>2, ItemsKept
  <2> QED BY <2>3 DEF a
<1>13. Holds(new, N + 4, 4, NULs)
  BY <1>1, <1>2, <1>7, TotalType DEF Holds, NULs
<1> QED BY <1>3, <1>6, <1>8, <1>9, <1>10, <1>11, <1>12, <1>13 DEF AtEnd, AddressIn

-----------------------------------------------------------------------------
(* The actions.                                                            *)
LEMMA InitInv == Init => Inv
<1> SUFFICES ASSUME Init PROVE Inv
  OBVIOUS
<1>1. start \in Layouts /\ mem \in Memory
  BY LayoutType DEF Init
<1>2. s = start.size - start.last - 4
  BY LayoutType DEF Init
<1>3. pc = "finalizer" /\ as = 0 /\ mem = start.mem
      /\ o = start.last /\ size = start.size
  BY DEF Init
<1> QED BY <1>1, <1>2, <1>3 DEF Inv, Sizes

LEMMA InsertFinalizerInv == ASSUME Inv, InsertFinalizer PROVE Inv'
<1> DEFINE f == FinalizerBytes
<1>1. /\ start \in Layouts /\ start' = start /\ as = 0 /\ as' = as
      /\ mem = start.mem /\ o = start.last /\ size = start.size
      /\ s = start.size - start.last - 4 /\ s' = s
      /\ size' = size + 32 /\ o' = o + 32
      /\ pc' = IF start.isMessage THEN "tags" ELSE "bundle"
  <2>1. start \in Layouts
    BY DEF Inv
  <2> QED BY <2>1, LayoutType
          DEF Inv, Sizes, InsertFinalizer, Insert, FinalizerLen, AnonSize
<1>2. f \in Bytes
  BY DEF FinalizerBytes, NameChar, Comma, StringTag, Bytes
<1>3. mem' = Insert(start.mem, start.last, start.size - start.last - 4, 28, f)
  BY <1>1 DEF InsertFinalizer, FinalizerLen, AnonSize
<1> HIDE DEF f
<1>4. /\ mem' \in Memory /\ BeforeBundle(start, mem')
      /\ start.isMessage => BeforeTags(start, mem')
  BY <1>1, <1>2, <1>3, InsertFinalizerBytes
<1>5. start.isMessage \in BOOLEAN
  BY <1>1, LayoutType
<1> QED BY <1>1, <1>4, <1>5 DEF Inv, Sizes, NewElem

LEMMA BundleElemInv == ASSUME Inv, BundleElem PROVE Inv'
<1> DEFINE f == EmptyStringBytes
<1>1. /\ start \in Layouts /\ start' = start /\ as = 0 /\ as' = as
      /\ mem \in Memory /\ o = start.last + 32 /\ size = start.size + 32
      /\ ~start.isMessage /\ BeforeBundle(start, mem)
      /\ s = start.size - start.last - 4 /\ s' = s
      /\ size' = size + 16 /\ o' = o + 16 /\ pc' = "done"
  <2>1. start \in Layouts
    BY DEF Inv
  <2> QED BY <2>1, LayoutType DEF Inv, Sizes, BundleElem, Insert, EmptyStringLen
<1>2. f \in Bytes
  BY DEF EmptyStringBytes, Comma, StringTag, Bytes
<1>3. mem' = Insert(mem, o, s, 12, f)
  BY DEF BundleElem, EmptyStringLen
<1> HIDE DEF f
<1>4. /\ mem' \in Memory /\ FrontKept(start, mem') /\ BehindKept(start, mem')
      /\ FreeFrom(mem', start.size + 48)
  BY <1>1, <1>2, <1>3, BundleElemBytes
<1>5. start.size + 48 = size' /\ start.last + 48 = o'
  BY <1>1, LayoutType
<1> QED BY <1>1, <1>4, <1>5 DEF Inv, Sizes

LEMMA TagAddressInv == ASSUME Inv, TagAddress PROVE Inv'
<1> DEFINE N == NewElem(start)
           A == AddressBytes(start)
           T == TagBytes(start)
           T1 == NewTagBytes(start)
           P == PayloadBytes(start)
           t == start.tagsLen
           tto == N + 4 + A
           plo == tto + T
           grow == IF T1 # T THEN 4 ELSE 0
<1>1. /\ start \in Layouts /\ start.isMessage /\ start' = start /\ mem \in Memory
      /\ BeforeTags(start, mem) /\ pc = "tags" /\ o = N /\ o' = o
      /\ size = start.size + 32 /\ s = start.size - start.last - 4
  BY DEF Inv, TagAddress
<1>2. StrLen(mem, o + 4) = start.addressLen
  BY <1>1, TextsFound
<1>3. as' = A
  BY <1>2 DEF TagAddress, AddressBytes
<1>4. StrLen(mem, o + 4 + as') = t
  BY <1>1, <1>3, TextsFound
<1>5. /\ N \in Nat /\ A \in Nat /\ T \in Nat /\ T1 \in Nat /\ P \in Nat /\ t \in Nat
      /\ T1 = T \/ T1 = T + 4
      /\ start.size = start.last + 4 + A + T + P /\ N = start.last + 32
      /\ EndWithAddress(start) = N + 4 + A + T1 + P
      /\ start.last \in Nat
  BY <1>1, MessageType, LayoutType
<1>6. PnBytes(t) = T /\ PnBytes(t + 1) = T1
  BY DEF TagBytes, NewTagBytes
<1>7. /\ o + 4 + as' = tto /\ (tto + T) - tto = T /\ s - (plo - (o + 4)) = P
  BY <1>1, <1>3, <1>5
<1>8. /\ size' = size + grow /\ s' = s + grow
      /\ pc' = IF as' = AnonSize THEN "short" ELSE "copy"
  BY <1>4, <1>6, <1>7 DEF TagAddress
<1>9. mem' = [RoomForTag(start, mem, s + 4) EXCEPT ![tto + t] = StringTag]
  <2>1. mem' = [(IF grow = 0 THEN mem
                 ELSE PutInt32(Clear(Move(mem, plo + 4, plo, P), plo, 4), o, s + 4))
                   EXCEPT ![tto + t] = StringTag]
    BY <1>4, <1>6, <1>7 DEF TagAddress
  <2>2. (grow = 0) <=> (T1 = T)
    OBVIOUS
  <2> HIDE DEF grow
  <2> QED BY <1>1, <2>1, <2>2 DEF RoomForTag
<1>10. /\ s' = EndWithAddress(start) - N - 4 /\ size' = EndWithAddress(start)
       /\ s + 4 \in Nat
  BY <1>1, <1>5, <1>8
<1>11. mem' \in Memory /\ BeforeCopy(start, mem')
  BY <1>1, <1>9, <1>10, TagAddressBytes
<1>12. as' \in Nat /\ pc' \in {"short", "copy"} /\ ((pc' = "short") = (as' = AnonSize))
  BY <1>3, <1>5, <1>8
<1> HIDE DEF grow, N, A
<1> QED BY <1>1, <1>3, <1>10, <1>11, <1>12 DEF Inv, N, A

(* What the remaining steps on a message have in common. *)
LEMMA MessageInv ==
    ASSUME Inv, pc \in {"short", "copy", "shift", "anonymous", "behind"}
    PROVE  /\ start \in Layouts /\ start.isMessage /\ mem \in Memory
           /\ o = NewElem(start) /\ as = AddressBytes(start)
           /\ (pc = "short") = (AddressBytes(start) = 4)
           /\ s \in Nat /\ o \in Nat /\ as \in Nat
           /\ s = EndWithAddress(start) - NewElem(start) - 4
           /\ o + 4 + s = EndWithAddress(start)
           /\ s + 4 = EndWithAddress(start) - NewElem(start)
           /\ AddressBytes(start) <= s
           /\ EndWithAddress(start) \in Nat
<1>1. /\ start \in Layouts /\ start.isMessage /\ mem \in Memory
      /\ o = NewElem(start) /\ as = AddressBytes(start)
      /\ (pc = "short") = (AddressBytes(start) = 4)
      /\ s = EndWithAddress(start) - NewElem(start) - 4
  BY DEF Inv, AnonSize
<1> QED BY <1>1, MessageType

LEMMA ShortAddressInv == ASSUME Inv, ShortAddress PROVE Inv'
<1> DEFINE N == NewElem(start)
           E == EndWithAddress(start)
           n == E - N
<1>1. /\ pc = "short" /\ start' = start /\ o' = o /\ as' = as /\ pc' = "done"
      /\ size' = size + 4 /\ s' = s + 4
      /\ mem' = Clear(Move(PutInt32(mem, o, s'), o + s', o + 4, 4), o + 4, 4)
  BY DEF ShortAddress, AnonSize
<1>2. size = E /\ BeforeCopy(start, mem)
  BY <1>1 DEF Inv
<1>3. /\ start \in Layouts /\ start.isMessage /\ mem \in Memory /\ E \in Nat
      /\ o = N /\ as = AddressBytes(start) /\ AddressBytes(start) = 4
      /\ s \in Nat /\ o \in Nat /\ o + 4 + s = E /\ s + 4 = n
  BY <1>1, MessageInv
<1>4. s' = n /\ o + s' = E /\ n \in Nat
  BY <1>1, <1>3
<1>5. mem' = Clear(Move(PutInt32(mem, N, n), E, N + 4, 4), N + 4, 4)
  BY <1>1, <1>3, <1>4
<1>6. mem' \in Memory /\ AtEnd(start, mem')
  BY <1>2, <1>3, <1>4, <1>5, ShortAddressBytes
<1> QED BY <1>1, <1>2, <1>3, <1>4, <1>6 DEF Inv, Sizes

LEMMA CopyAddressInv == ASSUME Inv, CopyAddress PROVE Inv'
<1>1. /\ pc = "copy" /\ start' = start /\ o' = o /\ as' = as /\ s' = s
      /\ pc' = "shift" /\ size' = size + as
      /\ mem' = Move(mem, o + s + 4, o + 4, as)
  BY DEF CopyAddress
<1>2. size = EndWithAddress(start) /\ BeforeCopy(start, mem)
  BY <1>1 DEF Inv
<1>3. o + s + 4 = EndWithAddress(start)
  BY <1>1, MessageInv
<1>4. mem' \in Memory /\ BeforeShift(start, mem')
  BY <1>1, <1>2, <1>3, MessageInv, CopyAddressBytes
<1> QED BY <1>1, <1>2, <1>4, MessageInv DEF Inv, AnonSize

LEMMA ShiftLeftInv == ASSUME Inv, ShiftLeft PROVE Inv'
<1>1. /\ pc = "shift" /\ start' = start /\ o' = o /\ as' = as /\ s' = s
      /\ pc' = "anonymous" /\ size' = size
      /\ mem' = Move(mem, o + 4 + 4, o + 4 + as, (s - as) + (o + 4))
  BY DEF ShiftLeft, AnonSize
<1>2. BeforeShift(start, mem)
  BY <1>1 DEF Inv
<1>3. /\ o + 4 + 4 = NewElem(start) + 8
      /\ (s - as) + (o + 4) = EndWithAddress(start) - AddressBytes(start)
  BY <1>1, MessageInv
<1>4. mem' = Move(mem, NewElem(start) + 8, NewElem(start) + 4 + AddressBytes(start),
                  EndWithAddress(start) - AddressBytes(start))
  BY <1>1, <1>3, MessageInv
<1>5. mem' \in Memory /\ BeforeAnonymous(start, mem')
  BY <1>1, <1>2, <1>4, MessageInv, ShiftLeftBytes
<1> QED BY <1>1, <1>5, MessageInv DEF Inv, AnonSize

LEMMA AnonymousAddressInv == ASSUME Inv, AnonymousAddress PROVE Inv'
<1>1. /\ pc = "anonymous" /\ start' = start /\ o' = o /\ as' = as /\ s' = s
      /\ pc' = "behind" /\ size' = size /\ mem' = Clear(mem, o + 4, 4)
  BY DEF AnonymousAddress, AnonSize
<1>2. BeforeAnonymous(start, mem)
  BY <1>1 DEF Inv
<1>3. mem' \in Memory /\ BeforeClear(start, mem')
  BY <1>1, <1>2, MessageInv, AnonymousAddressBytes
<1> QED BY <1>1, <1>3, MessageInv DEF Inv, AnonSize

LEMMA ClearBehindInv == ASSUME Inv, ClearBehind PROVE Inv'
<1> DEFINE N == NewElem(start)
           A == AddressBytes(start)
           E == EndWithAddress(start)
           n == E - N
<1>1. /\ pc = "behind" /\ start' = start /\ o' = o /\ as' = as /\ pc' = "done"
      /\ size' = size - (as - 4) /\ s' = s + 4
      /\ mem' = PutInt32(Clear(mem, o + s + 4 + (as - 4), as - 4), o, s')
  BY DEF ClearBehind, AnonSize
<1>2. size = E + A /\ BeforeClear(start, mem)
  BY <1>1 DEF Inv
<1>3. /\ start \in Layouts /\ start.isMessage /\ mem \in Memory /\ E \in Nat
      /\ o = N /\ as = A /\ A # 4 /\ A \in Nat
      /\ s \in Nat /\ o \in Nat /\ o + 4 + s = E /\ s + 4 = n
  BY <1>1, MessageInv
<1>4. s' = n /\ o + s + 4 = E /\ n \in Nat /\ size' = E + 4
  BY <1>1, <1>2, <1>3
<1>5. mem' = PutInt32(Clear(mem, E + (A - 4), A - 4), N, n)
  BY <1>1, <1>3, <1>4
<1>6. mem' \in Memory /\ AtEnd(start, mem')
  BY <1>2, <1>3, <1>4, <1>5, ClearBehindBytes
<1> QED BY <1>1, <1>3, <1>4, <1>6 DEF Inv, Sizes

(* The parts are where Inv says at every moment: it holds at first and is  *)
(* kept by each step.                                                      *)
THEOREM InvHolds == Spec => []Inv
<1>1. Inv /\ [Next]_vars => Inv'
  <2> SUFFICES ASSUME Inv, [Next]_vars PROVE Inv'
    OBVIOUS
  <2>1. CASE InsertFinalizer
    BY <2>1, InsertFinalizerInv
  <2>2. CASE BundleElem
    BY <2>2, BundleElemInv
  <2>3. CASE TagAddress
    BY <2>3, TagAddressInv
  <2>4. CASE ShortAddress
    BY <2>4, ShortAddressInv
  <2>5. CASE CopyAddress
    BY <2>5, CopyAddressInv
  <2>6. CASE ShiftLeft
    BY <2>6, ShiftLeftInv
  <2>7. CASE AnonymousAddress
    BY <2>7, AnonymousAddressInv
  <2>8. CASE ClearBehind
    BY <2>8, ClearBehindInv
  <2>9. CASE UNCHANGED vars
    BY <2>9 DEF vars, Inv, Sizes
  <2> QED BY <2>1, <2>2, <2>3, <2>4, <2>5, <2>6, <2>7, <2>8, <2>9 DEF Next, Done
<1> QED BY InitInv, <1>1, PTL DEF Spec

-----------------------------------------------------------------------------
(* What the invariant says of the properties.                              *)
LEMMA Places ==
    ASSUME start \in Layouts, start.isMessage
    PROVE  /\ oldAs = AddressBytes(start) /\ ntt = start.tagsLen
           /\ oldTags = start.last + 4 + AddressBytes(start)
           /\ oldPayload = PayloadAt(start) /\ payloadLen = PayloadBytes(start)
           /\ newElem = NewElem(start) /\ addressAt = NewElem(start) + 4
           /\ newTags = NewElem(start) + 8
           /\ newPayload = NewElem(start) + 8 + NewTagBytes(start)
           /\ newAddress = EndWithAddress(start) + 4 - AddressBytes(start)
           /\ newEnd = EndWithAddress(start) + 4
<1>1. oldAs = AddressBytes(start) /\ ntt = start.tagsLen
  BY DEF oldAs, ntt, AddressBytes
<1>2. oldTags = start.last + 4 + AddressBytes(start)
  BY <1>1 DEF oldTags
<1>3. oldPayload = PayloadAt(start)
  BY <1>1, <1>2 DEF oldPayload, PayloadAt, TagBytes
<1>4. payloadLen = PayloadBytes(start)
  BY <1>3 DEF payloadLen, PayloadBytes
<1>5. newElem = NewElem(start)
  BY LayoutType DEF newElem, NewElem, FinalizerLen, AnonSize
<1>6. addressAt = NewElem(start) + 4 /\ newTags = NewElem(start) + 8
  BY <1>5, MessageType DEF addressAt, newTags, AnonSize
<1>7. newPayload = NewElem(start) + 8 + NewTagBytes(start)
  BY <1>1, <1>6 DEF newPayload, NewTagBytes
<1>8. newAddress = EndWithAddress(start) + 4 - AddressBytes(start)
  BY <1>4, <1>7, MessageType DEF newAddress
<1>9. newEnd = EndWithAddress(start) + 4
  BY <1>1, <1>8, MessageType DEF newEnd
<1> QED BY <1>1, <1>2, <1>3, <1>4, <1>5, <1>6, <1>7, <1>8, <1>9

LEMMA InvType == Inv => TypeOK
<1> SUFFICES ASSUME Inv PROVE TypeOK
  OBVIOUS
<1> DEFINE last == start.last
           sz == start.size
           E == EndWithAddress(start)
           N == NewElem(start)
           A == AddressBytes(start)
<1>1. /\ start \in Layouts /\ mem \in Memory
      /\ pc \in {"finalizer", "bundle", "tags", "short", "copy", "shift",
                  "anonymous", "behind", "done"}
  BY DEF Inv
<1>2. /\ last \in Nat /\ sz \in Nat /\ sz >= last + 4 /\ sz + 48 <= Cap /\ Cap \in Nat
  BY <1>1, LayoutType, TotalType
<1>3. start.isMessage =>
         /\ E \in Nat /\ N \in Nat /\ A \in Nat /\ N + 4 + A <= E
         /\ E + A <= Cap /\ A >= 4 /\ N = last + 32
  BY <1>1, MessageType, LayoutType, TotalType
<1>4. CASE pc \in {"finalizer", "bundle"}
  <2>1. /\ as = 0 /\ s = sz - last - 4
        /\ \/ o = last /\ size = sz
           \/ o = last + 32 /\ size = sz + 32
    BY <1>4 DEF Inv, Sizes
  <2> HIDE DEF last, sz
  <2> QED BY <1>1, <1>2, <1>4, <2>1 DEF TypeOK
<1>5. CASE pc = "tags"
  <2>1. /\ start.isMessage /\ o = N /\ as = 0 /\ size = sz + 32 /\ s = sz - last - 4
    BY <1>5 DEF Inv
  <2> HIDE DEF last, sz, E, N, A
  <2> QED BY <1>1, <1>2, <1>3, <1>5, <2>1 DEF TypeOK
<1>6. CASE pc \in {"short", "copy", "shift", "anonymous", "behind"}
  <2>1. /\ start.isMessage /\ o = N /\ as = A /\ s = E - N - 4
        /\ pc \in {"short", "copy"} => size = E
        /\ pc \in {"shift", "anonymous", "behind"} => size = E + A
    BY <1>6 DEF Inv
  <2> HIDE DEF last, sz, E, N, A
  <2> QED BY <1>1, <1>2, <1>3, <1>6, <2>1 DEF TypeOK
<1>7. CASE pc = "done" /\ start.isMessage
  <2>1. o = N /\ as = A /\ size = E + 4 /\ s = E - N
    BY <1>7 DEF Inv, Sizes
  <2> HIDE DEF last, sz, E, N, A
  <2> QED BY <1>1, <1>2, <1>3, <1>7, <2>1 DEF TypeOK
<1>8. CASE pc = "done" /\ ~start.isMessage
  <2>1. as = 0 /\ o = last + 48 /\ size = sz + 48 /\ s = sz - last - 4
    BY <1>8 DEF Inv, Sizes
  <2> HIDE DEF last, sz
  <2> QED BY <1>1, <1>2, <1>8, <2>1 DEF TypeOK
<1> QED BY <1>1, <1>4, <1>5, <1>6, <1>7, <1>8

LEMMA InvPrepared == Inv => Prepared
<1> SUFFICES ASSUME Inv, pc = "done", start.isMessage, oldAs <= addressAt
             PROVE  MessageIsPrepared
  BY DEF Prepared
<1> DEFINE N == NewElem(start)
           A == AddressBytes(start)
           T1 == NewTagBytes(start)
           P == PayloadBytes(start)
           E == EndWithAddress(start)
           t == start.tagsLen
           old == start.mem
<1>1. start \in Layouts /\ AtEnd(start, mem) /\ size = E + 4
  BY DEF Inv, Sizes
<1>2. /\ oldAs = A /\ ntt = t /\ oldTags = start.last + 4 + A
      /\ oldPayload = PayloadAt(start) /\ payloadLen = P
      /\ newElem = N /\ addressAt = N + 4 /\ newTags = N + 8
      /\ newPayload = N + 8 + T1 /\ newAddress = E + 4 - A /\ newEnd = E + 4
  BY <1>1, Places
<1>3. /\ N \in Nat /\ A \in Nat /\ T1 \in Nat /\ P \in Nat /\ E \in Nat /\ t \in Nat
      /\ E = N + 4 + A + T1 + P /\ E + 4 <= Total /\ t + 1 < T1
  BY <1>1, MessageType, LayoutType, TotalType
<1>4. /\ Holds(mem, E + 4 - A, A, AddressOf(start))
      /\ Holds(mem, N + 4, 4, NULs) /\ Int32(mem, N) = E - N
      /\ Holds(mem, N + 8, t, TagsOf(start)) /\ Holds(mem, N + 8 + t, 1, Tag)
      /\ Holds(mem, N + 8 + t + 1, T1 - t - 1, NULs)
      /\ Holds(mem, N + 8 + T1, P, PayloadOf(start))
  BY <1>1, <1>2 DEF AtEnd, AddressIn, ItemsIn, Reaches
<1>5. /\ \A k \in Nat : AddressOf(start)[k] = old[start.last + 4 + k]
      /\ \A k \in Nat : TagsOf(start)[k] = old[start.last + 4 + A + k]
      /\ \A k \in Nat : PayloadOf(start)[k] = old[PayloadAt(start) + k]
  BY DEF AddressOf, TagsOf, PayloadOf
<1> HIDE DEF N, A, T1, P, E, t, old
<1>6. Int32(mem, N) = (E + 4) - N - 4
  BY <1>3, <1>4
<1>7. \A k \in 0 .. AnonSize - 1 : mem[(N + 4) + k] = 0
  BY <1>3, <1>4, TotalType DEF Holds, NULs, AnonSize
<1>8. \A k \in 0 .. t - 1 : mem[(N + 8) + k] = old[(start.last + 4 + A) + k]
  <2> SUFFICES ASSUME NEW k \in 0 .. t - 1
               PROVE  mem[(N + 8) + k] = old[(start.last + 4 + A) + k]
    OBVIOUS
  <2>1. /\ (N + 8) + k \in 0 .. Total - 1 /\ N + 8 <= (N + 8) + k
        /\ (N + 8) + k < N + 8 + t /\ ((N + 8) + k) - (N + 8) = k /\ k \in Nat
    BY <1>3, TotalType
  <2>2. mem[(N + 8) + k] = TagsOf(start)[((N + 8) + k) - (N + 8)]
    BY <1>4, <2>1 DEF Holds
  <2> QED BY <1>5, <2>1, <2>2
<1>9. mem[(N + 8) + t] = StringTag
  <2>1. (N + 8) + t \in 0 .. Total - 1
    BY <1>3, TotalType
  <2> QED BY <1>3, <1>4, <2>1 DEF Holds, Tag
<1>10. \A k \in (N + 8) + t + 1 .. (N + 8 + T1) - 1 : mem[k] = 0
  BY <1>3, <1>4, TotalType DEF Holds, NULs
<1>11. \A k \in 0 .. P - 1 : mem[(N + 8 + T1) + k] = old[PayloadAt(start) + k]
  <2> SUFFICES ASSUME NEW k \in 0 .. P - 1
               PROVE  mem[(N + 8 + T1) + k] = old[PayloadAt(start) + k]
    OBVIOUS
  <2> DEFINE at == N + 8 + T1
  <2>1. /\ at + k \in 0 .. Total - 1 /\ at <= at + k
        /\ at + k < at + P /\ (at + k) - at = k /\ k \in Nat
    BY <1>3, TotalType
  <2>2. mem[at + k] = PayloadOf(start)[(at + k) - at]
    BY <1>4, <2>1 DEF Holds
  <2> QED BY <1>5, <2>1, <2>2
<1>12. \A k \in 0 .. A - 1 : mem[(E + 4 - A) + k] = old[start.last + 4 + k]
  <2> SUFFICES ASSUME NEW k \in 0 .. A - 1
               PROVE  mem[(E + 4 - A) + k] = old[start.last + 4 + k]
    OBVIOUS
  <2> DEFINE at == E + 4 - A
  <2>1. /\ at + k \in 0 .. Total - 1 /\ at <= at + k
        /\ at + k < at + A /\ (at + k) - at = k /\ k \in Nat
    BY <1>3, TotalType
  <2>2. mem[at + k] = AddressOf(start)[(at + k) - at]
    BY <1>4, <2>1 DEF Holds
  <2> QED BY <1>5, <2>1, <2>2
<1> QED BY <1>1, <1>2, <1>6, <1>7, <1>8, <1>9, <1>10, <1>11, <1>12
        DEF MessageIsPrepared, old

LEMMA InvClean == Inv => CleanBehind
<1> SUFFICES ASSUME Inv, pc = "done",
                    start.isMessage => /\ 2 * oldAs <= addressAt + 8
                                       /\ newEnd + addressAt <= Cap
             PROVE  \A i \in size .. Cap - 1 : mem[i] = 0
  BY DEF CleanBehind
<1>1. start \in Layouts
  BY DEF Inv
<1>2. FreeFrom(mem, size)
  <2>1. CASE start.isMessage
    <3>1. ReachesAll(start)
      BY <1>1, <2>1, Places, MessageType DEF ReachesAll
    <3> QED BY <2>1, <3>1 DEF Inv, AtEnd, Sizes
  <2>2. CASE ~start.isMessage
    BY <2>2 DEF Inv
  <2> QED BY <2>1, <2>2
<1>3. size \in Nat
  BY InvType, TotalType DEF TypeOK
<1> QED BY <1>2, <1>3, TotalType DEF FreeFrom, Holds, NULs

LEMMA InvOthers == Inv => OthersIntact
<1> SUFFICES ASSUME Inv PROVE OthersIntact
  OBVIOUS
<1> DEFINE Safe == start.isMessage => /\ oldAs <= addressAt
                                      /\ newEnd + (addressAt - oldAs) <= Cap
                                      /\ newEnd + 2 * oldAs <= Cap
<1>1. start \in Layouts
  BY DEF Inv
<1>2. FrontKept(start, start.mem) /\ BehindKept(start, start.mem)
  BY <1>1, LayoutType DEF FrontKept, Holds
<1>3. FrontKept(start, mem)
  BY <1>2 DEF Inv, BeforeBundle, BeforeTags, BeforeCopy, BeforeShift,
              BeforeAnonymous, BeforeClear, AtEnd
<1>4. ASSUME Safe PROVE BehindKept(start, mem)
  <2>1. start.isMessage => StaysInside(start)
    BY <1>1, <1>4, Places, MessageType DEF StaysInside, Reaches
  <2> QED BY <1>2, <2>1 DEF Inv, BeforeBundle, BeforeTags, BeforeCopy, BeforeShift,
                            BeforeAnonymous, BeforeClear, AtEnd
<1>5. \A i \in 0 .. start.last - 1 : mem[i] = start.mem[i]
  BY <1>1, <1>3, LayoutType, TotalType DEF FrontKept, Holds
<1>6. BehindKept(start, mem) => \A i \in Cap .. Total - 1 : mem[i] = start.mem[i]
  BY TotalType DEF BehindKept, BehindOf, Holds
<1> QED BY <1>4, <1>5, <1>6 DEF OthersIntact

-----------------------------------------------------------------------------
(* Every byte is a number, the bundle stays within its region, and its     *)
(* last element ends where it does but while the address is being moved.   *)
THEOREM TypeCorrect == Spec => []TypeOK
BY InvHolds, InvType, PTL

(* Whatever the bytes of the element: if its address is no longer than its *)
(* offset, the message that is left has the items, one typetag more, and   *)
(* the address as its last item.                                           *)
THEOREM MessagePrepared == Spec => []Prepared
BY InvHolds, InvPrepared, PTL

(* Under the proviso of CleanBehind no byte of the copy of the address is  *)
(* left behind the end of vm_i.                                            *)
THEOREM NothingLeftBehind == Spec => []CleanBehind
BY InvHolds, InvClean, PTL

(* The elements in front of the one that is rewritten stay as they are at  *)
(* every moment, and so does what lies behind the region, if enough of it  *)
(* is free.                                                                *)
THEOREM OthersStayIntact == Spec => []OthersIntact
BY InvHolds, InvOthers, PTL
=============================================================================
