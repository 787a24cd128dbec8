-------------------------- MODULE VisitorStackProofs --------------------------
(***************************************************************************)
(* Theorems about the visit of a syntax tree, for every tree of the        *)
(* grammar and every stack: a visit leaves one element and touches nothing *)
(* of what it found.  The invariant gives each task that remains the       *)
(* height of the stack it will find and the number of elements it keeps.   *)
(* And the element is the one its construct stands for: a second invariant *)
(* gives each task what it makes of the stack.                             *)
(***************************************************************************)
EXTENDS VisitorStack, OseBundleProofs

(* The height of the stack after a task that finds n elements, and how     *)
(* many of them it leaves as they are. *)
HeightAfter(task, n) ==
    CASE task.op = "visit" -> n + 1
      [] task.op \in {"push", "nip"} -> n - 1
      [] task.op = "end" -> task.arg
      [] OTHER -> n

Keeps(task, n) ==
    CASE task.op \in {"visit", "return"} -> n
      [] task.op \in {"push", "nip"} -> n - 2
      [] task.op = "end" -> task.arg - 1
      [] OTHER -> n - 1

(* A visit that ends, and an open bundle, rely on what the tasks before    *)
(* them keep: that many elements. *)
Marked(task) == task.op \in {"return", "end"}
Mark(task) == IF task.op = "return" THEN Len(task.arg.below) ELSE task.arg

IsTask(task) ==
    /\ task.op = "visit" => task.arg \in Syntax
    /\ task.op = "rest" => task.arg \in Seq(Syntax)
    /\ task.op = "end" => task.arg \in Nat
    /\ task.op = "return" => IsSeq(task.arg.below)

(* h[i] is the height the i-th of the tasks t finds. *)
Heights(t, h) ==
    /\ h \in [1 .. Len(t) + 1 -> Nat]
    /\ \A i \in 1 .. Len(t) :
          /\ h[i + 1] = HeightAfter(t[i], h[i])
          /\ Keeps(t[i], h[i]) >= 0
          /\ t[i].op = "return" => h[i] = Len(t[i].arg.below) + 1
          /\ t[i].op = "end" => 1 <= t[i].arg /\ t[i].arg <= h[i]

MarksKept(t, h) ==
    \A j \in 1 .. Len(t) : Marked(t[j]) =>
        \A i \in 1 .. j - 1 : Mark(t[j]) <= Keeps(t[i], h[i])

(* What stands on the stack where a task counts on it. *)
Placed(task, s) ==
    /\ task.op = "return" => IsPrefix(task.arg.below, s)
    /\ task.op = "end" => task.arg <= Len(s) /\ s[task.arg] = Bndl(<<>>)

Tasks(t) == IsSeq(t) /\ \A i \in 1 .. Len(t) : IsTask(t[i])

(* On the stack s the tasks t bring a height of n elements to one of n2,   *)
(* and keep k of them. *)
Runs(t, s, n, n2, k) ==
    /\ Tasks(t)
    /\ \A i \in 1 .. Len(t) : Placed(t[i], s)
    /\ \E h : /\ Heights(t, h)
              /\ MarksKept(t, h)
              /\ h[1] = n
              /\ h[Len(t) + 1] = n2
              /\ \A i \in 1 .. Len(t) : k <= Keeps(t[i], h[i])

(* What the tasks t count on lies within k elements. *)
MarksWithin(t, k) == \A i \in 1 .. Len(t) : Marked(t[i]) => Mark(t[i]) <= k

Elements(s) == IsSeq(s) /\ \A i \in 1 .. Len(s) : IsElem(s[i])

(* What remains to be done puts one element on what was there at first. *)
Sound(t, s) ==
    /\ Elements(s)
    /\ \E s0 \in Stacks :
          /\ IsPrefix(s0, s)
          /\ Runs(t, s, Len(s), Len(s0) + 1, Len(s0))

Inv == Sound(todo, bundle)

(* The stack u has the first k elements of s. *)
Agrees(u, s, k) == k <= Len(u) /\ \A i \in 1 .. k : u[i] = s[i]

-----------------------------------------------------------------------------
(* The numbers are numbers. *)
LEMMA TaskNumbers ==
    ASSUME NEW task, IsTask(task), NEW n \in Nat
    PROVE  /\ HeightAfter(task, n) \in Int /\ Keeps(task, n) \in Int
           /\ Marked(task) => Mark(task) \in Nat
<1>1. CASE task.op = "return"
  BY <1>1, SeqType DEF IsTask, HeightAfter, Keeps, Marked, Mark
<1>2. CASE task.op # "return"
  BY <1>2 DEF IsTask, HeightAfter, Keeps, Marked, Mark
<1> QED BY <1>1, <1>2

(* One run behind another. *)
LEMMA RunsConcat ==
    ASSUME NEW r, NEW t, NEW s, NEW n1 \in Nat, NEW n2 \in Nat, NEW n3 \in Nat,
           NEW k \in Int, NEW k2 \in Int, k2 <= k,
           Runs(r, s, n1, n2, k), Runs(t, s, n2, n3, k2), MarksWithin(t, k)
    PROVE  Runs(r \o t, s, n1, n3, k2)
<1>1. PICK g : /\ Heights(r, g) /\ MarksKept(r, g) /\ g[1] = n1 /\ g[Len(r) + 1] = n2
               /\ \A i \in 1 .. Len(r) : k <= Keeps(r[i], g[i])
  BY DEF Runs
<1>2. PICK h : /\ Heights(t, h) /\ MarksKept(t, h) /\ h[1] = n2 /\ h[Len(t) + 1] = n3
               /\ \A i \in 1 .. Len(t) : k2 <= Keeps(t[i], h[i])
  BY DEF Runs
<1> DEFINE n == Len(r)
           m == Len(t)
           rt == r \o t
           hh == [i \in 1 .. n + m + 1 |-> IF i <= n + 1 THEN g[i] ELSE h[i - n]]
<1>3. /\ n \in Nat /\ m \in Nat /\ IsSeq(rt) /\ Len(rt) = n + m
      /\ \A i \in 1 .. n : rt[i] = r[i]
      /\ \A i \in 1 .. m : rt[n + i] = t[i]
  <2>1. IsSeq(t) /\ IsSeq(r)
    BY DEF Runs, Tasks
  <2> QED BY <2>1, SeqType, ConcatSeq
<1>4. g \in [1 .. n + 1 -> Nat] /\ h \in [1 .. m + 1 -> Nat]
  BY <1>1, <1>2 DEF Heights
<1> HIDE DEF rt
<1>5. /\ \A i \in 1 .. n + 1 : hh[i] = g[i]
      /\ \A i \in 1 .. m + 1 : hh[n + i] = h[i]
      /\ hh \in [1 .. n + m + 1 -> Nat]
  <2> HIDE DEF n, m
  <2>1. \A i \in 1 .. n + 1 : hh[i] = g[i]
    BY <1>3
  <2>2. ASSUME NEW i \in 1 .. m + 1 PROVE hh[n + i] = h[i]
    <3> DEFINE x == n + i
    <3>1. x \in 1 .. n + m + 1 /\ x - n = i /\ (i = 1 => x = n + 1) /\ (x <= n + 1 => i = 1)
      BY <1>3
    <3> HIDE DEF x
    <3>2. CASE i = 1
      <4>1. hh[n + 1] = g[n + 1]
        BY <3>1, <3>2, <2>1, <1>3
      <4>2. g[n + 1] = n2 /\ h[1] = n2
        BY <1>1, <1>2 DEF n
      <4> QED BY <4>1, <4>2, <3>1, <3>2 DEF x
    <3>3. CASE i # 1
      <4>1. hh[x] = h[x - n]
        BY <3>1, <3>3
      <4> QED BY <4>1, <3>1 DEF x
    <3> QED BY <3>2, <3>3
  <2>3. ASSUME NEW i \in 1 .. n + m + 1 PROVE (IF i <= n + 1 THEN g[i] ELSE h[i - n]) \in Nat
    <3>1. CASE i <= n + 1
      BY <3>1, <1>3, <1>4
    <3>2. CASE ~(i <= n + 1)
      <4>1. i - n \in 1 .. m + 1
        BY <3>2, <1>3
      <4> QED BY <3>2, <4>1, <1>4
    <3> QED BY <3>1, <3>2
  <2>4. hh \in [1 .. n + m + 1 -> Nat]
    BY <2>3
  <2> QED BY <2>1, <2>2, <2>4
<1> HIDE DEF hh
<1>6. \A i \in 1 .. n : Keeps(r[i], g[i]) \in Int
  <2>1. \A i \in 1 .. n : IsTask(r[i])
    BY DEF Runs, Tasks
  <2> HIDE DEF n
  <2>2. \A i \in 1 .. n : g[i] \in Nat
    BY <1>3, <1>4
  <2> QED BY <2>1, <2>2, TaskNumbers
<1>14. \A i \in 1 .. m : Marked(t[i]) => Mark(t[i]) \in Nat
  <2>1. \A i \in 1 .. m : IsTask(t[i])
    BY DEF Runs, Tasks
  <2> QED BY <2>1, TaskNumbers
(* Each task stands where it stood in one of the two. *)
<1>7. ASSUME NEW i \in 1 .. Len(rt)
      PROVE  \/ i \in 1 .. n /\ rt[i] = r[i] /\ hh[i] = g[i] /\ hh[i + 1] = g[i + 1]
             \/ \E j \in 1 .. m : /\ i = n + j /\ rt[i] = t[j]
                                  /\ hh[i] = h[j] /\ hh[i + 1] = h[j + 1]
  <2> HIDE DEF n, m
  <2>1. CASE i <= n
    <3>1. i \in 1 .. n /\ i \in 1 .. n + 1 /\ i + 1 \in 1 .. n + 1
      BY <2>1, <1>3
    <3> QED BY <3>1, <1>3, <1>5
  <2>2. CASE ~(i <= n)
    <3> DEFINE j == i - n
               b == j + 1
    <3>1. /\ j \in 1 .. m /\ j \in 1 .. m + 1 /\ b \in 1 .. m + 1
          /\ n + j = i /\ n + b = i + 1
      BY <2>2, <1>3
    <3>2. b = j + 1
      OBVIOUS
    <3> HIDE DEF j, b
    <3>3. rt[n + j] = t[j]
      BY <3>1, <1>3
    <3>4. hh[n + j] = h[j]
      BY <3>1, <1>5
    <3>5. hh[n + b] = h[b]
      BY <3>1, <1>5
    <3> QED BY <3>1, <3>2, <3>3, <3>4, <3>5
  <2> QED BY <2>1, <2>2
<1>8. Tasks(rt) /\ \A i \in 1 .. Len(rt) : Placed(rt[i], s)
  <2>1. /\ \A i \in 1 .. n : IsTask(r[i]) /\ Placed(r[i], s)
        /\ \A i \in 1 .. m : IsTask(t[i]) /\ Placed(t[i], s)
    BY DEF Runs, Tasks
  <2> QED BY <2>1, <1>3, <1>7 DEF Tasks
<1>9. Heights(rt, hh)
  <2>1. hh \in [1 .. Len(rt) + 1 -> Nat]
    BY <1>3, <1>5
  <2>2. ASSUME NEW i \in 1 .. Len(rt)
        PROVE  /\ hh[i + 1] = HeightAfter(rt[i], hh[i])
               /\ Keeps(rt[i], hh[i]) >= 0
               /\ rt[i].op = "return" => hh[i] = Len(rt[i].arg.below) + 1
               /\ rt[i].op = "end" => 1 <= rt[i].arg /\ rt[i].arg <= hh[i]
    <3>1. CASE i \in 1 .. n /\ rt[i] = r[i] /\ hh[i] = g[i] /\ hh[i + 1] = g[i + 1]
      BY <3>1, <1>1 DEF Heights
    <3>2. ASSUME NEW j \in 1 .. m, rt[i] = t[j], hh[i] = h[j], hh[i + 1] = h[j + 1]
          PROVE  /\ hh[i + 1] = HeightAfter(rt[i], hh[i])
                 /\ Keeps(rt[i], hh[i]) >= 0
                 /\ rt[i].op = "return" => hh[i] = Len(rt[i].arg.below) + 1
                 /\ rt[i].op = "end" => 1 <= rt[i].arg /\ rt[i].arg <= hh[i]
      BY <3>2, <1>2 DEF Heights
    <3> QED BY <3>1, <3>2, <1>7
  <2> QED BY <2>1, <2>2 DEF Heights
<1>10. MarksKept(rt, hh)
  <2> SUFFICES ASSUME NEW j \in 1 .. Len(rt), Marked(rt[j]), NEW i \in 1 .. j - 1
               PROVE  Mark(rt[j]) <= Keeps(rt[i], hh[i])
    BY DEF MarksKept
  <2>1. i \in 1 .. Len(rt) /\ i \in Int /\ j \in Int /\ i <= j - 1 /\ 1 <= i
    BY <1>3
  <2>2. CASE j \in 1 .. n /\ rt[j] = r[j]
    <3>1. i \in 1 .. n /\ i \in 1 .. n + 1 /\ i \in 1 .. j - 1
      BY <2>1, <2>2, <1>3
    <3>2. rt[i] = r[i] /\ hh[i] = g[i]
      BY <3>1, <1>3, <1>5
    <3> QED BY <2>2, <3>1, <3>2, <1>1 DEF MarksKept
  <2>3. ASSUME NEW b \in 1 .. m, j = n + b, rt[j] = t[b]
        PROVE  Mark(rt[j]) <= Keeps(rt[i], hh[i])
    <3>0. Mark(t[b]) <= k
      BY <2>3 DEF MarksWithin
    <3>1. CASE i \in 1 .. n /\ rt[i] = r[i] /\ hh[i] = g[i]
      <4>1. Mark(t[b]) \in Nat /\ Mark(t[b]) <= k
        BY <2>3, <3>0, <1>14
      <4>2. k <= Keeps(r[i], g[i]) /\ Keeps(r[i], g[i]) \in Int
        BY <3>1, <1>1, <1>6
      <4> QED BY <4>1, <4>2, <2>3, <3>1
    <3>2. ASSUME NEW a \in 1 .. m, i = n + a, rt[i] = t[a], hh[i] = h[a]
          PROVE  Mark(rt[j]) <= Keeps(rt[i], hh[i])
      <4>1. a \in Int /\ b \in Int /\ 1 <= a /\ n + a <= n + b - 1
        BY <2>1, <2>3, <3>2, <1>3
      <4>2. a \in 1 .. b - 1
        BY <4>1, <1>3
      <4> QED BY <4>2, <2>3, <3>2, <1>2 DEF MarksKept
    <3> QED BY <3>1, <3>2, <2>1, <1>7
  <2> QED BY <2>2, <2>3, <1>7
<1>11. \A i \in 1 .. Len(rt) : k2 <= Keeps(rt[i], hh[i])
  <2>1. \A i \in 1 .. n : k2 <= Keeps(r[i], g[i])
    BY <1>1, <1>6
  <2> QED BY <2>1, <1>2, <1>7
<1>12. hh[1] = n1 /\ hh[Len(rt) + 1] = n3
  <2>1. 1 \in 1 .. n + 1 /\ m + 1 \in 1 .. m + 1 /\ n + (m + 1) = Len(rt) + 1
    BY <1>3
  <2>2. hh[1] = g[1] /\ hh[n + (m + 1)] = h[m + 1]
    BY <2>1, <1>5
  <2> QED BY <2>1, <2>2, <1>1, <1>2
<1>13. Runs(rt, s, n1, n3, k2)
  BY <1>8, <1>9, <1>10, <1>11, <1>12 DEF Runs
<1> QED BY <1>13 DEF rt

(* What remains of a run when its first task is done, and has left what    *)
(* it keeps as it was. *)
LEMMA RunsTail ==
    ASSUME NEW t, NEW s, NEW n \in Nat, NEW n2 \in Nat, NEW k \in Nat,
           Runs(t, s, n, n2, k), t # <<>>, IsSeq(s),
           NEW u, IsSeq(u), Agrees(u, s, Keeps(Head(t), n))
    PROVE  /\ Runs(Tail(t), u, HeightAfter(Head(t), n), n2, k)
           /\ MarksWithin(Tail(t), Keeps(Head(t), n))
           /\ k <= Keeps(Head(t), n) /\ Keeps(Head(t), n) \in Nat
           /\ HeightAfter(Head(t), n) \in Nat
<1>1. PICK h : /\ Heights(t, h) /\ MarksKept(t, h) /\ h[1] = n /\ h[Len(t) + 1] = n2
               /\ \A i \in 1 .. Len(t) : k <= Keeps(t[i], h[i])
  BY DEF Runs
<1> DEFINE m == Len(t)
           tt == Tail(t)
           hh == [i \in 1 .. m |-> h[i + 1]]
           q == Keeps(Head(t), n)
<1>2. /\ m \in Nat /\ m >= 1 /\ Head(t) = t[1] /\ IsSeq(tt) /\ Len(tt) = m - 1
      /\ \A i \in 1 .. m - 1 : tt[i] = t[i + 1]
  BY NotEmpty, TailSeq DEF Runs, Tasks
<1> HIDE DEF tt
<1>3. h \in [1 .. m + 1 -> Nat]
  BY <1>1 DEF Heights
<1>4. hh \in [1 .. m -> Nat] /\ \A i \in 1 .. m : hh[i] = h[i + 1]
  BY <1>2, <1>3
<1> HIDE DEF hh
<1>5. \A i \in 1 .. m : IsTask(t[i]) /\ h[i] \in Nat /\ Placed(t[i], s)
  BY <1>2, <1>3 DEF Runs, Tasks
<1>6. q \in Nat /\ k <= q /\ HeightAfter(Head(t), n) = h[2] /\ h[2] \in Nat
  <2>1. 1 \in 1 .. m
    BY <1>2
  <2>2. q = Keeps(t[1], h[1]) /\ q \in Int
    BY <2>1, <1>1, <1>2, <1>5, TaskNumbers
  <2>3. q >= 0 /\ k <= q /\ h[1 + 1] = HeightAfter(t[1], h[1])
    BY <2>1, <2>2, <1>1 DEF Heights
  <2> QED BY <2>2, <2>3, <1>1, <1>2, <1>3
<1> HIDE DEF q, m
(* The tasks behind the first one. *)
<1>7. ASSUME NEW i \in 1 .. Len(tt)
      PROVE  /\ i \in Nat /\ i + 1 \in 1 .. m /\ tt[i] = t[i + 1]
             /\ hh[i] = h[i + 1] /\ hh[i + 1] = h[i + 1 + 1]
  <2>1. i \in 1 .. m - 1 /\ i \in 1 .. m /\ i + 1 \in 1 .. m /\ i \in Nat
    BY <1>2
  <2> QED BY <2>1, <1>2, <1>4
<1>8. \A j \in 2 .. m : Marked(t[j]) => Mark(t[j]) \in Nat /\ Mark(t[j]) <= q
  <2>1. \A j \in 2 .. m : j \in 1 .. m /\ 1 \in 1 .. j - 1
    BY <1>2
  <2>2. \A j \in 2 .. m : Marked(t[j]) => Mark(t[j]) <= Keeps(t[1], h[1])
    BY <2>1, <1>1 DEF MarksKept, m
  <2>3. \A j \in 2 .. m : Marked(t[j]) => Mark(t[j]) \in Nat
    BY <2>1, <1>5, TaskNumbers
  <2> QED BY <2>2, <2>3, <1>1, <1>2 DEF q
<1>9. MarksWithin(tt, q)
  <2>1. \A i \in 1 .. Len(tt) : tt[i] = t[i + 1] /\ i + 1 \in 2 .. m
    BY <1>7
  <2> QED BY <2>1, <1>8 DEF MarksWithin
<1>10. Tasks(tt)
  <2>1. \A i \in 1 .. Len(tt) : IsTask(tt[i])
    BY <1>5, <1>7
  <2> QED BY <2>1, <1>2 DEF Tasks
<1>11. ASSUME NEW i \in 1 .. Len(tt) PROVE Placed(tt[i], u)
  <2> DEFINE j == i + 1
  <2>1. j \in 2 .. m /\ j \in 1 .. m /\ tt[i] = t[j]
    BY <1>7
  <2> HIDE DEF j
  <2>2. Placed(t[j], s) /\ IsTask(t[j])
    BY <2>1, <1>5
  <2>3. Len(u) \in Nat /\ Len(s) \in Nat /\ q <= Len(u) /\ \A x \in 1 .. q : u[x] = s[x]
    BY SeqType DEF Agrees, q
  <2>4. ASSUME t[j].op = "return" PROVE IsPrefix(t[j].arg.below, u)
    <3>1. Len(t[j].arg.below) \in Nat /\ Len(t[j].arg.below) <= q
      BY <2>1, <2>4, <1>8 DEF Marked, Mark
    <3>2. IsSeq(t[j].arg.below) /\ IsPrefix(t[j].arg.below, s)
      BY <2>2, <2>4 DEF Placed, IsTask
    <3> QED BY <3>1, <3>2, <2>3, <1>6, PrefixKept
  <2>5. ASSUME t[j].op = "end" PROVE t[j].arg <= Len(u) /\ u[t[j].arg] = Bndl(<<>>)
    <3>1. t[j].arg \in Nat /\ t[j].arg <= q
      BY <2>1, <2>5, <1>8 DEF Marked, Mark
    <3>2. 1 <= t[j].arg
      BY <2>1, <2>5, <1>1 DEF Heights, m
    <3>3. t[j].arg \in 1 .. q
      BY <3>1, <3>2, <1>6
    <3>4. u[t[j].arg] = s[t[j].arg]
      BY <3>3, <2>3
    <3>5. s[t[j].arg] = Bndl(<<>>)
      BY <2>2, <2>5 DEF Placed
    <3>6. t[j].arg <= Len(u)
      BY <3>1, <2>3, <1>6
    <3> QED BY <3>4, <3>5, <3>6
  <2> QED BY <2>1, <2>4, <2>5 DEF Placed
<1>12. Heights(tt, hh)
  <2>1. hh \in [1 .. Len(tt) + 1 -> Nat]
    BY <1>2, <1>4
  <2>2. ASSUME NEW i \in 1 .. Len(tt)
        PROVE  /\ hh[i + 1] = HeightAfter(tt[i], hh[i])
               /\ Keeps(tt[i], hh[i]) >= 0
               /\ tt[i].op = "return" => hh[i] = Len(tt[i].arg.below) + 1
               /\ tt[i].op = "end" => 1 <= tt[i].arg /\ tt[i].arg <= hh[i]
    <3> DEFINE j == i + 1
    <3>1. j \in 1 .. m /\ tt[i] = t[j] /\ hh[i] = h[j] /\ hh[i + 1] = h[j + 1]
      BY <1>7
    <3> HIDE DEF j
    <3> QED BY <3>1, <1>1 DEF Heights, m
  <2> QED BY <2>1, <2>2 DEF Heights
<1>13. MarksKept(tt, hh)
  <2> SUFFICES ASSUME NEW j \in 1 .. Len(tt), Marked(tt[j]), NEW i \in 1 .. j - 1
               PROVE  Mark(tt[j]) <= Keeps(tt[i], hh[i])
    BY DEF MarksKept
  <2> DEFINE b == j + 1
             a == i + 1
  <2>1. i \in 1 .. Len(tt) /\ a \in 1 .. b - 1
    BY <1>2, <1>7
  <2>2. b \in 1 .. m /\ tt[j] = t[b] /\ tt[i] = t[a] /\ hh[i] = h[a]
    BY <2>1, <1>7
  <2> HIDE DEF a, b
  <2> QED BY <2>1, <2>2, <1>1 DEF MarksKept, m
<1>14. hh[1] = h[2] /\ hh[Len(tt) + 1] = n2
  <2>1. 1 \in 1 .. m /\ m \in 1 .. m /\ Len(tt) + 1 = m
    BY <1>2
  <2> QED BY <2>1, <1>1, <1>4 DEF m
<1>15. \A i \in 1 .. Len(tt) : k <= Keeps(tt[i], hh[i])
  <2>1. \A i \in 1 .. m : k <= Keeps(t[i], h[i])
    BY <1>1 DEF m
  <2> QED BY <2>1, <1>7
<1>16. Runs(tt, u, h[2], n2, k)
  BY <1>10, <1>11, <1>12, <1>13, <1>14, <1>15 DEF Runs
<1> QED BY <1>6, <1>9, <1>16 DEF tt, q

(* One task as a run. *)
LEMMA OneRun ==
    ASSUME NEW task, IsTask(task), NEW s, Placed(task, s), NEW n \in Nat,
           HeightAfter(task, n) \in Nat, Keeps(task, n) >= 0,
           task.op = "return" => n = Len(task.arg.below) + 1,
           task.op = "end" => 1 <= task.arg /\ task.arg <= n,
           NEW k, k <= Keeps(task, n)
    PROVE  Runs(<<task>>, s, n, HeightAfter(task, n), k)
<1> DEFINE t == <<task>>
           h == [i \in 1 .. 2 |-> IF i = 1 THEN n ELSE HeightAfter(task, n)]
<1>1. IsSeq(t) /\ Len(t) = 1 /\ t[1] = task
  BY OneIsSeq
<1> HIDE DEF t
<1>2. h \in [1 .. 2 -> Nat] /\ h[1] = n /\ h[2] = HeightAfter(task, n)
  OBVIOUS
<1> HIDE DEF h
<1>3. \A i \in 1 .. Len(t) : i = 1
  BY <1>1
<1>4. Tasks(t) /\ \A i \in 1 .. Len(t) : Placed(t[i], s)
  BY <1>1, <1>3 DEF Tasks
<1>5. Heights(t, h)
  BY <1>1, <1>2, <1>3 DEF Heights
<1>6. MarksKept(t, h)
  BY <1>3 DEF MarksKept
<1>7. \A i \in 1 .. Len(t) : k <= Keeps(t[i], h[i])
  BY <1>1, <1>2, <1>3
<1>8. h[1] = n /\ h[Len(t) + 1] = HeightAfter(task, n)
  BY <1>1, <1>2
<1>9. Runs(t, s, n, HeightAfter(task, n), k)
  BY <1>4, <1>5, <1>6, <1>7, <1>8 DEF Runs
<1> QED BY <1>9 DEF t

(* No task at all. *)
LEMMA NoRun ==
    ASSUME NEW s, NEW n \in Nat, NEW k
    PROVE  Runs(<<>>, s, n, n, k)
<1> DEFINE h == [i \in 1 .. 1 |-> n]
<1>1. h \in [1 .. 1 -> Nat] /\ h[1] = n
  OBVIOUS
<1> HIDE DEF h
<1>2. IsSeq(<<>>) /\ Len(<<>>) = 0 /\ \A i \in 1 .. Len(<<>>) : FALSE
  BY EmptyIsSeq
<1>3. Heights(<<>>, h) /\ MarksKept(<<>>, h) /\ h[Len(<<>>) + 1] = n
  BY <1>1, <1>2 DEF Heights, MarksKept
<1> QED BY <1>1, <1>2, <1>3 DEF Runs, Tasks

(* A run with one task more, behind which nothing counts on the stack. *)
LEMMA RunThen ==
    ASSUME NEW t, NEW s, NEW n \in Nat, NEW n2 \in Nat, NEW k \in Nat, Runs(t, s, n, n2, k),
           NEW task, IsTask(task), ~Marked(task),
           HeightAfter(task, n2) \in Nat, k <= Keeps(task, n2)
    PROVE  Runs(t \o <<task>>, s, n, HeightAfter(task, n2), k)
<1>1. Placed(task, s) /\ task.op # "return" /\ task.op # "end"
  BY DEF Placed, Marked
<1>2. Keeps(task, n2) >= 0
  BY TaskNumbers
<1>3. Runs(<<task>>, s, n2, HeightAfter(task, n2), k)
  BY <1>1, <1>2, OneRun
<1>4. MarksWithin(<<task>>, k)
  BY OneIsSeq DEF MarksWithin
<1> QED BY <1>3, <1>4, RunsConcat

(* The visits of the parts of a tree, one element each. *)
LEMMA VisitsRun ==
    ASSUME NEW parts \in Seq(Syntax), NEW s, NEW n \in Nat, NEW k \in Nat, k <= n
    PROVE  Runs(Visits(parts), s, n, n + Len(parts), k) /\ Len(parts) \in Nat
<1> DEFINE t == Visits(parts)
           m == Len(parts)
           h == [i \in 1 .. m + 1 |-> n + i - 1]
<1>1. m \in Nat /\ DOMAIN parts = 1 .. m /\ \A i \in 1 .. m : parts[i] \in Syntax
  BY LenProperties
<1>2. t = [i \in 1 .. m |-> Visit(parts[i])]
  BY <1>1 DEF Visits
<1>3. /\ IsSeq(t) /\ Len(t) = m
      /\ \A i \in 1 .. m : t[i] = Visit(parts[i])
  <2> DEFINE S == { Visit(parts[i]) : i \in 1 .. m }
  <2>1. t \in [1 .. m -> S]
    BY <1>2
  <2>2. \A i \in 1 .. m : t[i] = Visit(parts[i])
    BY <1>2
  <2>3. DOMAIN t = 1 .. m
    BY <1>2
  <2> HIDE DEF t, S
  <2>4. t \in Seq(S)
    BY <1>1, <2>1, SeqDef
  <2>5. IsSeq(t) /\ Len(t) \in Nat /\ DOMAIN t = 1 .. Len(t)
    BY <2>4, SeqIsSeq
  <2>6. Len(t) = m
    BY <2>3, <2>5, <1>1
  <2> QED BY <2>2, <2>5, <2>6
<1> HIDE DEF t
<1>4. h \in [1 .. m + 1 -> Nat] /\ \A i \in 1 .. m + 1 : h[i] = n + i - 1
  BY <1>1
<1> HIDE DEF h, m
<1>5. \A i \in 1 .. Len(t) :
         /\ IsTask(t[i]) /\ ~Marked(t[i]) /\ t[i].op = "visit"
         /\ i \in 1 .. m /\ i \in 1 .. m + 1 /\ i + 1 \in 1 .. m + 1
  BY <1>1, <1>3 DEF Visit, Task, IsTask, Marked
<1>6. \A i \in 1 .. Len(t) : /\ HeightAfter(t[i], h[i]) = h[i] + 1
                             /\ Keeps(t[i], h[i]) = h[i]
  BY <1>5 DEF HeightAfter, Keeps
<1>7. \A i \in 1 .. Len(t) : h[i + 1] = h[i] + 1 /\ h[i] >= n /\ h[i] \in Nat
  <2> TAKE i \in 1 .. Len(t)
  <2>1. i \in Nat /\ i >= 1 /\ h[i] = n + i - 1 /\ h[i + 1] = n + (i + 1) - 1
    BY <1>1, <1>4, <1>5
  <2> QED BY <2>1
<1>8. Heights(t, h)
  <2>1. h \in [1 .. Len(t) + 1 -> Nat]
    BY <1>3, <1>4
  <2>2. \A i \in 1 .. Len(t) :
           /\ h[i + 1] = HeightAfter(t[i], h[i]) /\ Keeps(t[i], h[i]) >= 0
           /\ t[i].op # "return" /\ t[i].op # "end"
    BY <1>5, <1>6, <1>7
  <2> QED BY <2>1, <2>2 DEF Heights
<1>9. MarksKept(t, h) /\ Tasks(t) /\ \A i \in 1 .. Len(t) : Placed(t[i], s)
  BY <1>3, <1>5 DEF MarksKept, Tasks, Placed
<1>10. h[1] = n /\ h[Len(t) + 1] = n + m
  <2>1. 1 \in 1 .. m + 1 /\ m + 1 \in 1 .. m + 1
    BY <1>1
  <2>2. h[1] = n + 1 - 1 /\ h[m + 1] = n + (m + 1) - 1
    BY <2>1, <1>4
  <2> QED BY <2>2, <1>1, <1>3
<1>11. \A i \in 1 .. Len(t) : k <= Keeps(t[i], h[i])
  BY <1>6, <1>7
<1>12. Runs(t, s, n, n + m, k)
  BY <1>8, <1>9, <1>10, <1>11 DEF Runs
<1> QED BY <1>1, <1>12 DEF t, m

-----------------------------------------------------------------------------
(* What the next task can rely on. *)
LEMMA HeadTask ==
    ASSUME NEW t, NEW s, Sound(t, s), t # <<>>
    PROVE  /\ Len(s) \in Nat /\ IsTask(Head(t)) /\ Placed(Head(t), s)
           /\ Keeps(Head(t), Len(s)) \in Nat
           /\ HeightAfter(Head(t), Len(s)) \in Nat
           /\ Head(t).op = "return" => Len(s) = Len(Head(t).arg.below) + 1
           /\ Head(t).op = "end" => 1 <= Head(t).arg /\ Head(t).arg <= Len(s)
<1>1. PICK s0 \in Stacks : IsPrefix(s0, s) /\ Runs(t, s, Len(s), Len(s0) + 1, Len(s0))
  BY DEF Sound
<1>2. PICK h : Heights(t, h) /\ h[1] = Len(s)
  BY <1>1 DEF Runs
<1>3. Len(s) \in Nat
  BY SeqType DEF Sound, Elements
<1>4. IsSeq(t)
  BY <1>1 DEF Runs, Tasks
<1>5. Head(t) = t[1] /\ 1 \in 1 .. Len(t)
  BY <1>4, NotEmpty
<1>6. IsTask(Head(t)) /\ Placed(Head(t), s)
  BY <1>1, <1>5 DEF Runs, Tasks
<1>7. /\ Keeps(t[1], h[1]) >= 0
      /\ h[2] = HeightAfter(t[1], h[1]) /\ h[2] \in Nat
      /\ t[1].op = "return" => h[1] = Len(t[1].arg.below) + 1
      /\ t[1].op = "end" => 1 <= t[1].arg /\ t[1].arg <= h[1]
  <2>1. 2 \in 1 .. Len(t) + 1
    BY <1>4, <1>5, SeqType
  <2> QED BY <2>1, <1>2, <1>5 DEF Heights
<1>8. Keeps(Head(t), Len(s)) \in Int
  BY <1>3, <1>6, TaskNumbers
<1> QED BY <1>2, <1>3, <1>5, <1>6, <1>7, <1>8

(* The next task is replaced by others that keep as much, and come to the  *)
(* same height. *)
LEMMA ReplaceTask ==
    ASSUME NEW t, NEW s, Sound(t, s), t # <<>>, NEW r, NEW u, Elements(u),
           Agrees(u, s, Keeps(Head(t), Len(s))),
           Runs(r, u, Len(u), HeightAfter(Head(t), Len(s)), Keeps(Head(t), Len(s)))
    PROVE  Sound(r \o Tail(t), u)
<1>1. PICK s0 \in Stacks : IsPrefix(s0, s) /\ Runs(t, s, Len(s), Len(s0) + 1, Len(s0))
  BY DEF Sound
<1> DEFINE k == Keeps(Head(t), Len(s))
           n == HeightAfter(Head(t), Len(s))
<1>2. IsSeq(s0) /\ Len(s0) \in Nat /\ Len(s0) + 1 \in Nat
  BY <1>1, StacksAssumption, SeqType DEF IsSeq
<1>3. IsSeq(s) /\ IsSeq(u) /\ Len(s) \in Nat /\ Len(u) \in Nat
  BY SeqType DEF Sound, Elements
<1>4. /\ Runs(Tail(t), u, n, Len(s0) + 1, Len(s0))
      /\ MarksWithin(Tail(t), k) /\ Len(s0) <= k /\ k \in Nat /\ n \in Nat
  BY <1>1, <1>2, <1>3, RunsTail
<1>5. IsPrefix(s0, u)
  BY <1>1, <1>2, <1>3, <1>4, PrefixKept DEF Agrees
<1>6. Runs(r \o Tail(t), u, Len(u), Len(s0) + 1, Len(s0))
  <2> HIDE DEF k, n
  <2>1. Runs(r, u, Len(u), n, k)
    BY DEF k, n
  <2>2. k \in Int /\ Len(s0) \in Int
    BY <1>2, <1>4
  <2> QED BY <2>1, <2>2, <1>2, <1>3, <1>4, RunsConcat
<1> QED BY <1>5, <1>6 DEF Sound

(* Which number a task adds, and how many elements it keeps. *)
LEMMA TaskHeights ==
    ASSUME NEW task, NEW n \in Nat
    PROVE  /\ task.op = "visit" => HeightAfter(task, n) = n + 1 /\ Keeps(task, n) = n
           /\ task.op = "return" => HeightAfter(task, n) = n /\ Keeps(task, n) = n
           /\ task.op \in {"push", "nip"} =>
                 HeightAfter(task, n) = n - 1 /\ Keeps(task, n) = n - 2
           /\ task.op = "end" => HeightAfter(task, n) = task.arg /\ Keeps(task, n) = task.arg - 1
           /\ task.op \in {"unbundle", "name", "blob", "thunk", "apply", "wrap", "rest"} =>
                 HeightAfter(task, n) = n /\ Keeps(task, n) = n - 1
BY DEF HeightAfter, Keeps

(* A step that goes on with the tasks behind the next one. *)
LEMMA ContinueSound ==
    ASSUME Inv, todo # <<>>, NEW u, Continue(u), Elements(u),
           Len(u) = HeightAfter(Head(todo), Len(bundle)),
           Agrees(u, bundle, Keeps(Head(todo), Len(bundle)))
    PROVE  Inv'
<1>1. HeightAfter(Head(todo), Len(bundle)) \in Nat
  BY HeadTask DEF Inv
<1>2. Runs(<<>>, u, Len(u), HeightAfter(Head(todo), Len(bundle)), Keeps(Head(todo), Len(bundle)))
  BY <1>1, NoRun
<1>3. Sound(<<>> \o Tail(todo), u)
  BY <1>2, ReplaceTask DEF Inv
<1>4. <<>> \o Tail(todo) = Tail(todo)
  <2>1. IsSeq(todo)
    BY DEF Inv, Sound, Runs, Tasks
  <2> QED BY <2>1, TailSeq, EmptyBehind
<1> QED BY <1>3, <1>4 DEF Inv, Continue

(* A step that goes on with a visit: its tasks leave one element, and the  *)
(* visit ends behind them. *)
LEMMA EnterSound ==
    ASSUME Inv, At("visit"), NEW tasks, NEW u, Enter(tasks, u), Elements(u),
           Runs(tasks, u, Len(u), Len(bundle) + 1, Len(bundle)),
           Agrees(u, bundle, Len(bundle))
    PROVE  Inv'
<1> DEFINE n == Len(bundle)
           ret == Task("return", [tree |-> Tree, below |-> bundle])
           r == tasks \o <<ret>>
<1>1. n \in Nat /\ todo # <<>> /\ Head(todo).op = "visit"
  BY HeadTask DEF Inv, At
<1>2. HeightAfter(Head(todo), n) = n + 1 /\ Keeps(Head(todo), n) = n
  BY <1>1, TaskHeights
<1>3. IsSeq(bundle) /\ IsSeq(u) /\ Len(u) \in Nat
  BY SeqType DEF Inv, Sound, Elements
<1>4. /\ ret.op = "return" /\ ret.arg.below = bundle /\ IsTask(ret)
      /\ Mark(ret) = n
  BY <1>3 DEF Task, IsTask, Mark
<1> HIDE DEF ret
<1>5. IsPrefix(bundle, u)
  BY <1>1, <1>3, PrefixItself, PrefixKept DEF Agrees
<1>6. Placed(ret, u)
  BY <1>4, <1>5 DEF Placed
<1>7. Runs(<<ret>>, u, n + 1, n + 1, n)
  <2>1. HeightAfter(ret, n + 1) = n + 1 /\ Keeps(ret, n + 1) = n + 1 /\ n + 1 \in Nat
    BY <1>1, <1>4, TaskHeights
  <2>2. n <= Keeps(ret, n + 1) /\ Keeps(ret, n + 1) >= 0 /\ HeightAfter(ret, n + 1) \in Nat
    BY <1>1, <2>1
  <2>3. Runs(<<ret>>, u, n + 1, HeightAfter(ret, n + 1), n)
    BY <1>4, <1>6, <2>1, <2>2, OneRun
  <2> QED BY <2>1, <2>3
<1>8. MarksWithin(<<ret>>, n)
  <2>1. \A i \in 1 .. Len(<<ret>>) : <<ret>>[i] = ret
    BY OneIsSeq
  <2> QED BY <1>1, <1>4, <2>1 DEF MarksWithin
<1>9. Runs(r, u, Len(u), n + 1, n)
  <2> HIDE DEF n
  <2>1. Runs(tasks, u, Len(u), n + 1, n) /\ n \in Int /\ n + 1 \in Nat
    BY <1>1 DEF n
  <2> QED BY <2>1, <1>3, <1>7, <1>8, RunsConcat
<1>10. Sound(r \o Tail(todo), u)
  <2> HIDE DEF r
  <2> QED BY <1>1, <1>2, <1>9, ReplaceTask DEF Inv
<1>11. todo' = r \o Tail(todo) /\ bundle' = u
  BY DEF Enter, ret
<1> QED BY <1>10, <1>11 DEF Inv

-----------------------------------------------------------------------------
(* The operations on the stack. *)
LEMMA MessageIsElem == \A address, items : IsElem(Msg(address, items))
BY DEF IsElem, Msg

LEMMA BundleIsElem == \A es : IsElem(Bndl(es)) /\ IsBndl(Bndl(es))
BY DEF IsElem, IsBndl, Bndl

LEMMA AgreesLess ==
    ASSUME NEW u, NEW v, NEW s, NEW k \in Int, NEW k2 \in Int, IsSeq(v), IsSeq(u),
           Agrees(v, u, k), Agrees(u, s, k2)
    PROVE  \A j \in Int : j <= k /\ j <= k2 => Agrees(v, s, j)
<1> SUFFICES ASSUME NEW j \in Int, j <= k, j <= k2 PROVE Agrees(v, s, j)
  OBVIOUS
<1>1. Len(v) \in Nat /\ j <= Len(v)
  BY SeqType DEF Agrees
<1>2. \A i \in 1 .. j : i \in 1 .. k /\ i \in 1 .. k2
  OBVIOUS
<1>3. \A i \in 1 .. j : v[i] = s[i]
  BY <1>2 DEF Agrees
<1> QED BY <1>1, <1>3 DEF Agrees

LEMMA AppendElement ==
    ASSUME NEW s, Elements(s), NEW e, IsElem(e)
    PROVE  /\ Elements(Append(s, e)) /\ Len(Append(s, e)) = Len(s) + 1
           /\ Len(s) \in Nat
           /\ Agrees(Append(s, e), s, Len(s))
<1> DEFINE u == Append(s, e)
<1>1. Len(s) \in Nat
  BY SeqType DEF Elements
<1>2. IsSeq(u) /\ Len(u) = Len(s) + 1 /\ (\A i \in 1 .. Len(s) : u[i] = s[i]) /\ u[Len(s) + 1] = e
  BY AppendSeq DEF Elements
<1> HIDE DEF u
<1>3. ASSUME NEW i \in 1 .. Len(u) PROVE IsElem(u[i])
  <2>1. i \in 1 .. Len(s) \/ i = Len(s) + 1
    BY <1>1, <1>2
  <2> QED BY <1>2, <2>1 DEF Elements
<1>4. Elements(u) /\ Agrees(u, s, Len(s))
  BY <1>1, <1>2, <1>3 DEF Elements, Agrees
<1> QED BY <1>1, <1>2, <1>4 DEF u

LEMMA DropElements ==
    ASSUME NEW s, Elements(s), NEW n \in Nat, n <= Len(s)
    PROVE  /\ Elements(DropTop(s, n)) /\ Len(DropTop(s, n)) = Len(s) - n
           /\ Len(s) \in Nat
           /\ Agrees(DropTop(s, n), s, Len(s) - n)
<1> DEFINE u == DropTop(s, n)
<1>1. Len(s) \in Nat
  BY SeqType DEF Elements
<1>2. IsSeq(u) /\ Len(u) = Len(s) - n /\ (\A i \in 1 .. Len(s) - n : u[i] = s[i])
  BY DropSeq DEF Elements
<1> HIDE DEF u
<1>3. \A i \in 1 .. Len(u) : i \in 1 .. Len(s) /\ u[i] = s[i]
  BY <1>1, <1>2
<1>4. Elements(u) /\ Agrees(u, s, Len(s) - n)
  BY <1>1, <1>2, <1>3 DEF Elements, Agrees
<1> QED BY <1>1, <1>2, <1>4 DEF u

(* Some elements on top make room for one. *)
LEMMA ReplaceTop ==
    ASSUME NEW s, Elements(s), NEW n \in Nat, n <= Len(s), NEW e, IsElem(e)
    PROVE  /\ Elements(Append(DropTop(s, n), e))
           /\ Len(Append(DropTop(s, n), e)) = Len(s) - n + 1
           /\ Agrees(Append(DropTop(s, n), e), s, Len(s) - n)
<1> DEFINE u == DropTop(s, n)
           v == Append(u, e)
<1>1. Elements(u) /\ Len(u) = Len(s) - n /\ Len(s) \in Nat /\ Agrees(u, s, Len(s) - n)
  BY DropElements
<1> HIDE DEF u
<1>2. Elements(v) /\ Len(v) = Len(u) + 1 /\ Agrees(v, u, Len(u))
  BY <1>1, AppendElement
<1> HIDE DEF v
<1>3. Agrees(v, s, Len(s) - n)
  BY <1>1, <1>2, AgreesLess DEF Elements
<1>4. Elements(v) /\ Len(v) = Len(s) - n + 1 /\ Agrees(v, s, Len(s) - n)
  BY <1>1, <1>2, <1>3
<1> QED BY <1>4 DEF u, v

LEMMA PushElement ==
    ASSUME NEW s, Elements(s), Len(s) >= 2
    PROVE  Elements(Push(s)) /\ Len(Push(s)) = Len(s) - 1 /\ Agrees(Push(s), s, Len(s) - 2)
<1>1. Len(s) \in Nat
  BY SeqType DEF Elements
<1>2. PICK e : IsElem(e) /\ Push(s) = Append(DropTop(s, 2), e)
  BY MessageIsElem, BundleIsElem DEF Push
<1>3. 2 \in Nat /\ 2 <= Len(s) /\ Len(s) - 2 + 1 = Len(s) - 1
  BY <1>1
<1> QED BY <1>2, <1>3, ReplaceTop

(* The top gives way to another element. *)
LEMMA ReplaceLast ==
    ASSUME NEW s, Elements(s), Len(s) >= 1, NEW e, IsElem(e)
    PROVE  /\ Elements(Append(Front(s), e)) /\ Len(Append(Front(s), e)) = Len(s)
           /\ Agrees(Append(Front(s), e), s, Len(s) - 1)
<1>1. Len(s) \in Nat
  BY SeqType DEF Elements
<1>2. Front(s) = DropTop(s, 1)
  BY DEF Front, DropTop
<1>3. 1 \in Nat /\ 1 <= Len(s) /\ Len(s) - 1 + 1 = Len(s)
  BY <1>1
<1> QED BY <1>2, <1>3, ReplaceTop

LEMMA PushStringElement ==
    ASSUME NEW s, Elements(s), NEW string
    PROVE  /\ Elements(PushString(s, string)) /\ Len(PushString(s, string)) = Len(s) + 1
           /\ Len(s) \in Nat
           /\ Agrees(PushString(s, string), s, Len(s))
BY MessageIsElem, AppendElement DEF PushString, String

(* Of a string pushed and put into what was the top. *)
LEMMA PushedString ==
    ASSUME NEW s, Elements(s), NEW string, Len(s) >= 1
    PROVE  LET u == Push(PushString(s, string))
           IN  Elements(u) /\ Len(u) = Len(s) /\ Len(s) \in Nat /\ Agrees(u, s, Len(s) - 1)
<1> DEFINE v == PushString(s, string)
           u == Push(v)
<1>1. Elements(v) /\ Len(v) = Len(s) + 1 /\ Len(s) \in Nat /\ Agrees(v, s, Len(s))
  BY PushStringElement
<1> HIDE DEF v
<1>2. Elements(u) /\ Len(u) = Len(v) - 1 /\ Agrees(u, v, Len(v) - 2)
  BY <1>1, PushElement
<1> HIDE DEF u
<1>3. Agrees(u, s, Len(s) - 1)
  BY <1>1, <1>2, AgreesLess DEF Elements
<1>4. Elements(u) /\ Len(u) = Len(s) /\ Len(s) \in Nat /\ Agrees(u, s, Len(s) - 1)
  BY <1>1, <1>2, <1>3
<1> QED BY <1>4 DEF u, v

LEMMA MovedString ==
    ASSUME NEW s, Elements(s), Len(s) >= 1
    PROVE  LET u == MoveStringToAddress(s)
           IN  Elements(u) /\ Len(u) = Len(s) /\ Agrees(u, s, Len(s) - 1)
BY MessageIsElem, ReplaceLast DEF MoveStringToAddress

LEMMA Blobs ==
    ASSUME NEW s, Elements(s), Len(s) >= 1, NEW tt
    PROVE  LET u == ElemToBlob(s, tt)
           IN  Elements(u) /\ Len(u) = Len(s) /\ Agrees(u, s, Len(s) - 1)
BY MessageIsElem, ReplaceLast DEF ElemToBlob, Packed

-----------------------------------------------------------------------------
(* The runs the visits are made of, task by task. *)
Others == {"unbundle", "name", "blob", "thunk", "apply", "wrap", "rest"}

LEMMA ThenOther ==
    ASSUME NEW t, NEW s, NEW n \in Nat, NEW n2 \in Nat, NEW k \in Nat, Runs(t, s, n, n2, k),
           NEW task, task.op \in Others, task.op = "rest" => task.arg \in Seq(Syntax),
           k <= n2 - 1
    PROVE  Runs(t \o <<task>>, s, n, n2, k)
<1>1. HeightAfter(task, n2) = n2 /\ Keeps(task, n2) = n2 - 1
  BY TaskHeights DEF Others
<1>2. IsTask(task) /\ ~Marked(task)
  BY DEF Others, IsTask, Marked
<1> QED BY <1>1, <1>2, RunThen

LEMMA ThenPush ==
    ASSUME NEW t, NEW s, NEW n \in Nat, NEW n2 \in Nat, NEW k \in Nat, Runs(t, s, n, n2, k),
           NEW task, task.op \in {"push", "nip"}, k <= n2 - 2
    PROVE  Runs(t \o <<task>>, s, n, n2 - 1, k)
<1>1. HeightAfter(task, n2) = n2 - 1 /\ Keeps(task, n2) = n2 - 2 /\ n2 - 1 \in Nat
  BY TaskHeights
<1>2. IsTask(task) /\ ~Marked(task)
  BY DEF IsTask, Marked
<1> QED BY <1>1, <1>2, RunThen

LEMMA ThenVisit ==
    ASSUME NEW t, NEW s, NEW n \in Nat, NEW n2 \in Nat, NEW k \in Nat, Runs(t, s, n, n2, k),
           NEW tree \in Syntax, k <= n2
    PROVE  Runs(t \o <<Visit(tree)>>, s, n, n2 + 1, k)
<1>1. Visit(tree).op = "visit" /\ Visit(tree).arg = tree
  BY DEF Visit, Task
<1>2. HeightAfter(Visit(tree), n2) = n2 + 1 /\ Keeps(Visit(tree), n2) = n2
  BY <1>1, TaskHeights
<1>3. IsTask(Visit(tree)) /\ ~Marked(Visit(tree))
  BY <1>1 DEF IsTask, Marked
<1> QED BY <1>2, <1>3, RunThen

LEMMA FirstVisit ==
    ASSUME NEW s, NEW n \in Nat, NEW k \in Nat, k <= n, NEW tree \in Syntax
    PROVE  Runs(<<Visit(tree)>>, s, n, n + 1, k)
<1>1. Runs(<<>> \o <<Visit(tree)>>, s, n, n + 1, k)
  BY NoRun, ThenVisit
<1> QED BY <1>1, OneIsSeq, EmptyBehind

LEMMA Ops ==
    /\ \A op : Do(op).op = op
    /\ \A op, arg : Task(op, arg).op = op /\ Task(op, arg).arg = arg
    /\ \A tree : Visit(tree).op = "visit" /\ Visit(tree).arg = tree
BY DEF Do, Task, Visit

(* The tasks of a list, from the first element or from one behind it. *)
LEMMA ListRun ==
    ASSUME NEW parts \in Seq(Syntax), parts # <<>>, NEW s, NEW n \in Nat
    PROVE  Runs(ListTasks(parts), s, n, n + 1, n)
<1> DEFINE a == Visit(Head(parts))
           b == Do("unbundle")
           c == Task("rest", Tail(parts))
           t1 == <<a>>
           t2 == t1 \o <<b>>
           t3 == t2 \o <<c>>
           m == n + 1
<1>1. Head(parts) \in Syntax /\ Tail(parts) \in Seq(Syntax)
  BY HeadTailProperties
<1>2. m \in Nat /\ n <= n /\ n <= m - 1
  OBVIOUS
<1>3. b.op \in Others /\ b.op # "rest" /\ c.op \in Others /\ c.arg = Tail(parts)
  BY Ops DEF Others
<1>4. Runs(t1, s, n, m, n)
  BY <1>1, <1>2, FirstVisit
<1> HIDE DEF a, b, c, m, t1
<1>5. Runs(t2, s, n, m, n)
  BY <1>2, <1>3, <1>4, ThenOther
<1> HIDE DEF t2
<1>6. Runs(t3, s, n, m, n)
  BY <1>1, <1>2, <1>3, <1>5, ThenOther
<1>7. t3 = <<a, b, c>>
  <2>1. <<a, b, c>> = (<<a>> \o <<b>>) \o <<c>>
    BY ThreeIs
  <2> QED BY <2>1, Zenon DEF t1, t2
<1>8. Runs(<<a, b, c>>, s, n, m, n)
  BY <1>6, <1>7, Zenon
<1> QED BY <1>8 DEF ListTasks, a, b, c, m

LEMMA RestRun ==
    ASSUME NEW parts \in Seq(Syntax), NEW s, NEW n \in Nat \ {0}
    PROVE  Runs(RestTasks(parts), s, n, n, n - 1)
<1>1. CASE parts = <<>>
  BY <1>1, NoRun DEF RestTasks
<1>2. CASE parts # <<>>
  <2> DEFINE a == Visit(Head(parts))
             b == Do("unbundle")
             c == Do("push")
             d == Task("rest", Tail(parts))
             t1 == <<a>>
             t2 == t1 \o <<b>>
             t3 == t2 \o <<c>>
             t4 == t3 \o <<d>>
             k == n - 1
             m == n + 1
  <2>1. Head(parts) \in Syntax /\ Tail(parts) \in Seq(Syntax)
    BY <1>2, HeadTailProperties
  <2>2. /\ k \in Nat /\ m \in Nat /\ n \in Nat
        /\ k <= n /\ k <= m - 1 /\ k <= n - 1
    OBVIOUS
  <2>10. k <= m - 2 /\ m - 1 = n
    OBVIOUS
  <2>3. /\ b.op \in Others /\ b.op # "rest" /\ c.op \in {"push", "nip"}
        /\ d.op \in Others /\ d.arg = Tail(parts)
    BY Ops DEF Others
  <2>4. Runs(t1, s, n, m, k)
    BY <2>1, <2>2, FirstVisit
  <2> HIDE DEF a, b, c, d, k, m, t1
  <2>5. Runs(t2, s, n, m, k)
    BY <2>2, <2>3, <2>4, ThenOther
  <2> HIDE DEF t2
  <2>11. Runs(t3, s, n, m - 1, k)
    <3>1. k \in Nat /\ m \in Nat /\ n \in Nat /\ k <= m - 2
      BY <2>2, <2>10
    <3> QED BY <3>1, <2>3, <2>5, ThenPush
  <2>6. Runs(t3, s, n, n, k)
    BY <2>10, <2>11, Zenon
  <2> HIDE DEF t3
  <2>7. Runs(t4, s, n, n, k)
    BY <2>1, <2>2, <2>3, <2>6, ThenOther
  <2>8. t4 = <<a, b, c, d>>
    <3>1. <<a, b, c, d>> = ((<<a>> \o <<b>>) \o <<c>>) \o <<d>>
      BY FourIs
    <3> QED BY <3>1, Zenon DEF t1, t2, t3
  <2>9. Runs(<<a, b, c, d>>, s, n, n, k)
    BY <2>7, <2>8, Zenon
  <2> QED BY <1>2, <2>9 DEF RestTasks, a, b, c, d, k
<1> QED BY <1>1, <1>2

(* The tasks of a call. *)
LEMMA FuncallRun ==
    ASSUME NEW args \in Syntax, NEW fn \in Syntax, NEW s, NEW n \in Nat
    PROVE  Runs(ArgsTasks(args) \o <<Visit(fn), Do("apply"), Do("push")>>, s, n, n + 1, n)
<1> DEFINE t1 == ArgsTasks(args)
           a == Visit(fn)
           b == Do("apply")
           c == Do("push")
           t2 == t1 \o <<a>>
           t3 == t2 \o <<b>>
           t4 == t3 \o <<c>>
           m == n + 1
           m2 == n + 2
<1>1. /\ m \in Nat /\ m2 \in Nat /\ m + 1 = m2 /\ m2 - 1 = m
      /\ n <= n /\ n <= m /\ n <= m - 1 /\ n <= m2 - 1 /\ n <= m2 - 2
  OBVIOUS
<1>2. b.op \in Others /\ b.op # "rest" /\ c.op \in {"push", "nip"}
  BY Ops DEF Others
<1>3. Runs(t1, s, n, m, n)
  <2>1. Runs(<<Visit(args)>>, s, n, m, n)
    BY <1>1, FirstVisit
  <2> HIDE DEF m
  <2>2. Runs(<<Visit(args)>> \o <<>>, s, n, m, n)
    BY <2>1, OneIsSeq, EmptyBehind
  <2>3. Runs(<<Visit(args)>> \o <<Do("thunk")>>, s, n, m, n)
    BY <1>1, <2>1, ThenOther, Ops DEF Others
  <2> QED BY <2>2, <2>3 DEF ArgsTasks
<1>4. IsSeq(t1)
  BY <1>3 DEF Runs, Tasks
<1> HIDE DEF t1, b, c, m, m2
<1>5. Runs(t2, s, n, m + 1, n)
  BY <1>1, <1>3, ThenVisit
<1> HIDE DEF a, t2
<1>6. Runs(t3, s, n, m2, n)
  BY <1>1, <1>2, <1>5, ThenOther
<1> HIDE DEF t3
<1>7. Runs(t4, s, n, m2 - 1, n)
  BY <1>1, <1>2, <1>6, ThenPush
<1>8. t4 = t1 \o <<a, b, c>>
  <2>1. t1 \o <<a, b, c>> = ((t1 \o <<a>>) \o <<b>>) \o <<c>>
    BY <1>4, ThreeBehind
  <2> QED BY <2>1, Zenon DEF t2, t3
<1>9. Runs(t1 \o <<a, b, c>>, s, n, m, n)
  BY <1>1, <1>7, <1>8, Zenon
<1> QED BY <1>9 DEF t1, a, b, c, m

(* The tasks of what stands behind a name. *)
LEMMA BindRun ==
    ASSUME NEW parts \in Seq(Syntax), Len(parts) = 1, NEW name, NEW s, NEW n \in Nat
    PROVE  Runs(Visits(parts) \o <<Do("unbundle"), Task("name", name)>>, s, n, n + 1, n)
<1> DEFINE t1 == Visits(parts)
           a == Do("unbundle")
           b == Task("name", name)
           t2 == t1 \o <<a>>
           t3 == t2 \o <<b>>
           m == n + 1
<1>1. m \in Nat /\ n <= n /\ n <= m - 1
  OBVIOUS
<1>2. Runs(t1, s, n, m, n)
  <2>1. Runs(t1, s, n, n + Len(parts), n)
    BY <1>1, VisitsRun
  <2> QED BY <2>1
<1>3. IsSeq(t1)
  BY <1>2 DEF Runs, Tasks
<1>4. a.op \in Others /\ a.op # "rest" /\ b.op \in Others /\ b.op # "rest"
  BY Ops DEF Others
<1> HIDE DEF t1, a, b, m
<1>5. Runs(t2, s, n, m, n)
  BY <1>1, <1>2, <1>4, ThenOther
<1> HIDE DEF t2
<1>6. Runs(t3, s, n, m, n)
  BY <1>1, <1>4, <1>5, ThenOther
<1>7. t3 = t1 \o <<a, b>>
  BY <1>3, TwoBehind DEF t2
<1>8. Runs(t1 \o <<a, b>>, s, n, m, n)
  BY <1>6, <1>7, Zenon
<1> QED BY <1>8 DEF t1, a, b, m

(* The tasks of a bundle, which is open in the place n + 1. *)
LEMMA BundleRun ==
    ASSUME NEW parts \in Seq(Syntax), NEW s, NEW n \in Nat,
           Len(s) = n + 1, s[n + 1] = Bndl(<<>>)
    PROVE  Runs(Visits(parts) \o <<Task("end", n + 1)>>, s, n + 1, n + 1, n)
<1> DEFINE t == Visits(parts)
           end == Task("end", n + 1)
           m == n + 1 + Len(parts)
<1>1. Runs(t, s, n + 1, m, n + 1) /\ m \in Nat /\ n + 1 <= m
  <2>1. n + 1 \in Nat /\ n + 1 <= n + 1
    OBVIOUS
  <2>2. Runs(t, s, n + 1, n + 1 + Len(parts), n + 1) /\ Len(parts) \in Nat
    BY <2>1, VisitsRun
  <2> QED BY <2>2
<1>2. end.op = "end" /\ end.arg = n + 1
  BY Ops
<1> HIDE DEF t, end, m
<1>3. IsTask(end) /\ Placed(end, s) /\ Mark(end) = n + 1
  BY <1>2 DEF IsTask, Placed, Mark
<1>4. HeightAfter(end, m) = n + 1 /\ Keeps(end, m) = n
  BY <1>1, <1>2, TaskHeights
<1>5. Runs(<<end>>, s, m, n + 1, n)
  BY <1>1, <1>2, <1>3, <1>4, OneRun
<1>6. MarksWithin(<<end>>, n + 1)
  BY <1>3, OneIsSeq DEF MarksWithin
<1>7. Runs(t \o <<end>>, s, n + 1, n + 1, n)
  <2>1. n \in Int /\ n + 1 \in Int /\ n <= n + 1 /\ n + 1 \in Nat
    OBVIOUS
  <2> QED BY <1>1, <1>5, <1>6, <2>1, RunsConcat
<1> QED BY <1>7 DEF t, end

-----------------------------------------------------------------------------
(* What a step knows of the next task, by its operation. *)
LEMMA NextTask ==
    ASSUME Inv, NEW op, At(op)
    PROVE  /\ todo # <<>> /\ Head(todo).op = op /\ Elements(bundle) /\ Len(bundle) \in Nat
           /\ op = "visit" => Tree \in Syntax /\ Tree.parts \in Seq(Syntax)
           /\ op = "rest" => Head(todo).arg \in Seq(Syntax)
           /\ op \in Others => Len(bundle) >= 1
           /\ op \in {"push", "nip"} => Len(bundle) >= 2
<1>1. todo # <<>> /\ Head(todo).op = op /\ Elements(bundle)
  BY DEF At, Inv, Sound
<1>2. Len(bundle) \in Nat /\ IsTask(Head(todo)) /\ Keeps(Head(todo), Len(bundle)) \in Nat
  BY <1>1, HeadTask DEF Inv
<1>3. op \in Others => Len(bundle) >= 1
  <2> SUFFICES ASSUME op \in Others PROVE Len(bundle) >= 1
    OBVIOUS
  <2>1. Keeps(Head(todo), Len(bundle)) = Len(bundle) - 1
    BY <1>1, <1>2, TaskHeights DEF Others
  <2> QED BY <1>2, <2>1
<1>4. op \in {"push", "nip"} => Len(bundle) >= 2
  <2> SUFFICES ASSUME op \in {"push", "nip"} PROVE Len(bundle) >= 2
    OBVIOUS
  <2>1. Keeps(Head(todo), Len(bundle)) = Len(bundle) - 2
    BY <1>1, <1>2, TaskHeights
  <2> QED BY <1>2, <2>1
<1>5. op = "visit" => Tree \in Syntax /\ Tree.parts \in Seq(Syntax)
  BY <1>1, <1>2, SyntaxAssumption DEF IsTask, Tree
<1>6. op = "rest" => Head(todo).arg \in Seq(Syntax)
  BY <1>1, <1>2 DEF IsTask
<1> QED BY <1>1, <1>2, <1>3, <1>4, <1>5, <1>6

(* Steps whose task changes nothing but the top, or two elements on top,   *)
(* and visits that only leave their element. *)
LEMMA TopStep ==
    ASSUME Inv, NEW op \in Others, At(op), NEW u, Continue(u),
           Elements(u), Len(u) = Len(bundle), Agrees(u, bundle, Len(bundle) - 1)
    PROVE  Inv'
<1>1. todo # <<>> /\ Head(todo).op = op /\ Len(bundle) \in Nat
  BY NextTask
<1>2. /\ HeightAfter(Head(todo), Len(bundle)) = Len(bundle)
      /\ Keeps(Head(todo), Len(bundle)) = Len(bundle) - 1
  BY <1>1, TaskHeights DEF Others
<1> QED BY <1>1, <1>2, ContinueSound

LEMMA TwoStep ==
    ASSUME Inv, NEW op \in {"push", "nip"}, At(op), NEW u, Continue(u),
           Elements(u), Len(u) = Len(bundle) - 1, Agrees(u, bundle, Len(bundle) - 2)
    PROVE  Inv'
<1>1. todo # <<>> /\ Head(todo).op = op /\ Len(bundle) \in Nat
  BY NextTask
<1>2. /\ HeightAfter(Head(todo), Len(bundle)) = Len(bundle) - 1
      /\ Keeps(Head(todo), Len(bundle)) = Len(bundle) - 2
  BY <1>1, TaskHeights
<1> QED BY <1>1, <1>2, ContinueSound

LEMMA LeafStep ==
    ASSUME Inv, At("visit"), NEW u, Enter(<<>>, u),
           Elements(u), Len(u) = Len(bundle) + 1, Agrees(u, bundle, Len(bundle))
    PROVE  Inv'
<1>1. Len(u) \in Nat
  BY SeqType DEF Elements
<1>2. Runs(<<>>, u, Len(u), Len(bundle) + 1, Len(bundle))
  BY <1>1, NoRun
<1> QED BY <1>2, EnterSound

LEMMA ElementStep ==
    ASSUME Inv, At("visit"), NEW e, IsElem(e), Enter(<<>>, Append(bundle, e))
    PROVE  Inv'
BY AppendElement, LeafStep, NextTask

LEMMA LookupSafe == ASSUME Inv, LookupElem PROVE Inv'
<1> DEFINE v == PushString(bundle, Tree.text)
           u == Push(PushString(v, "/!/$"))
<1>1. At("visit") /\ Enter(<<>>, u)
  BY DEF LookupElem, AtNode, Lookup
<1>2. Elements(bundle) /\ Len(bundle) \in Nat
  BY <1>1, NextTask
<1>3. Elements(v) /\ Len(v) = Len(bundle) + 1 /\ Agrees(v, bundle, Len(bundle))
  BY <1>2, PushStringElement
<1> HIDE DEF v
<1>4. Len(v) >= 1
  BY <1>2, <1>3
<1>5. Elements(u) /\ Len(u) = Len(v) /\ Agrees(u, v, Len(v) - 1)
  BY <1>3, <1>4, PushedString
<1> HIDE DEF u
<1>6. Agrees(u, bundle, Len(bundle))
  BY <1>2, <1>3, <1>5, AgreesLess DEF Elements
<1> QED BY <1>1, <1>3, <1>5, <1>6, LeafStep

LEMMA LiteralSafe == ASSUME Inv, Literal PROVE Inv'
BY MessageIsElem, ElementStep DEF Literal, AtNode

LEMMA EmptyTextSafe == ASSUME Inv, EmptyText PROVE Inv'
BY BundleIsElem, ElementStep DEF EmptyText, AtNode

LEMMA BindSafe == ASSUME Inv, Bind PROVE Inv'
<1>1. At("visit") /\ Tree.node = "bind"
  BY DEF Bind, AtNode, Tree
<1>2. Elements(bundle) /\ Len(bundle) \in Nat /\ Tree \in Syntax /\ Tree.parts \in Seq(Syntax)
  BY <1>1, NextTask
<1>3. ASSUME Enter(<<>>, MoveStringToAddress(PushString(bundle, Tree.text))) PROVE Inv'
  <2> DEFINE v == PushString(bundle, Tree.text)
             u == MoveStringToAddress(v)
  <2>1. Elements(v) /\ Len(v) = Len(bundle) + 1 /\ Agrees(v, bundle, Len(bundle))
    BY <1>2, PushStringElement
  <2> HIDE DEF v
  <2>2. Elements(u) /\ Len(u) = Len(v) /\ Agrees(u, v, Len(v) - 1)
    BY <1>2, <2>1, MovedString
  <2>3. Enter(<<>>, u)
    BY <1>3 DEF v
  <2> HIDE DEF u
  <2>4. Agrees(u, bundle, Len(bundle))
    BY <1>2, <2>1, <2>2, AgreesLess DEF Elements
  <2> QED BY <1>1, <2>1, <2>2, <2>3, <2>4, LeafStep
<1>4. ASSUME Tree.parts # <<>>,
             Enter(Visits(Tree.parts) \o <<Do("unbundle"), Task("name", Tree.text)>>, bundle)
      PROVE  Inv'
  <2>1. Len(Tree.parts) = 1
    <3> DEFINE m == Len(Tree.parts)
    <3>1. m <= 1
      BY <1>1, <1>2, SyntaxAssumption
    <3>2. m \in Nat /\ m # 0
      BY <1>2, <1>4, EmptySeq
    <3> HIDE DEF m
    <3>3. m = 1
      BY <3>1, <3>2
    <3> QED BY <3>3 DEF m
  <2>2. Runs(Visits(Tree.parts) \o <<Do("unbundle"), Task("name", Tree.text)>>,
             bundle, Len(bundle), Len(bundle) + 1, Len(bundle))
    BY <1>2, <2>1, BindRun
  <2>3. Agrees(bundle, bundle, Len(bundle))
    BY <1>2 DEF Agrees
  <2> QED BY <1>1, <1>2, <1>4, <2>2, <2>3, EnterSound
<1> QED BY <1>3, <1>4 DEF Bind

LEMMA NameRhsSafe == ASSUME Inv, NameRhs PROVE Inv'
<1> DEFINE v == Push(PushString(bundle, Head(todo).arg))
           u == MoveStringToAddress(v)
<1>1. At("name") /\ Continue(u) /\ "name" \in Others
  BY DEF NameRhs, Others
<1>2. Elements(bundle) /\ Len(bundle) \in Nat /\ Len(bundle) >= 1
  BY <1>1, NextTask
<1>3. Elements(v) /\ Len(v) = Len(bundle) /\ Agrees(v, bundle, Len(bundle) - 1)
  BY <1>2, PushedString
<1> HIDE DEF v
<1>4. Elements(u) /\ Len(u) = Len(v) /\ Agrees(u, v, Len(v) - 1)
  BY <1>2, <1>3, MovedString
<1> HIDE DEF u
<1>5. Agrees(u, bundle, Len(bundle) - 1)
  BY <1>2, <1>3, <1>4, AgreesLess DEF Elements
<1> QED BY <1>1, <1>3, <1>4, <1>5, TopStep

LEMMA ListSafe == ASSUME Inv, List PROVE Inv'
<1>1. At("visit")
  BY DEF List, AtNode
<1>2. Elements(bundle) /\ Len(bundle) \in Nat /\ Tree.parts \in Seq(Syntax)
  BY <1>1, NextTask
<1>3. ASSUME Enter(<<>>, Append(bundle, Msg("", <<>>))) PROVE Inv'
  BY <1>1, <1>3, MessageIsElem, ElementStep
<1>4. ASSUME Tree.parts # <<>>, Enter(ListTasks(Tree.parts), bundle) PROVE Inv'
  <2>1. Runs(ListTasks(Tree.parts), bundle, Len(bundle), Len(bundle) + 1, Len(bundle))
    BY <1>2, <1>4, ListRun
  <2>2. Agrees(bundle, bundle, Len(bundle))
    BY <1>2 DEF Agrees
  <2> QED BY <1>1, <1>2, <1>4, <2>1, <2>2, EnterSound
<1> QED BY <1>3, <1>4 DEF List

LEMMA ListRestSafe == ASSUME Inv, ListRest PROVE Inv'
<1> DEFINE n == Len(bundle)
           r == RestTasks(Head(todo).arg)
<1>1. At("rest") /\ todo' = r \o Tail(todo) /\ bundle' = bundle /\ "rest" \in Others
  BY DEF ListRest, Others
<1>2. /\ todo # <<>> /\ Head(todo).op = "rest" /\ Elements(bundle) /\ n \in Nat /\ n >= 1
      /\ Head(todo).arg \in Seq(Syntax)
  BY <1>1, NextTask
<1>3. HeightAfter(Head(todo), n) = n /\ Keeps(Head(todo), n) = n - 1
  BY <1>2, TaskHeights
<1>4. Runs(r, bundle, n, n, n - 1)
  <2>1. n \in Nat \ {0}
    BY <1>2
  <2> HIDE DEF n
  <2> QED BY <1>2, <2>1, RestRun
<1>5. Agrees(bundle, bundle, n - 1)
  BY <1>2 DEF Agrees
<1>6. Sound(r \o Tail(todo), bundle)
  <2> HIDE DEF r
  <2> QED BY <1>2, <1>3, <1>4, <1>5, ReplaceTask DEF Inv
<1> QED BY <1>1, <1>6 DEF Inv

LEMMA UnbundleSafe == ASSUME Inv, Unbundle PROVE Inv'
<1>1. At("unbundle") /\ "unbundle" \in Others
  BY DEF Unbundle, Others
<1>2. Elements(bundle) /\ Len(bundle) \in Nat /\ Len(bundle) >= 1
  BY <1>1, NextTask
<1>3. ASSUME Continue(ElemToBlob(bundle, "B")) PROVE Inv'
  BY <1>1, <1>2, <1>3, Blobs, TopStep
<1>4. ASSUME Continue(bundle) PROVE Inv'
  <2>1. Agrees(bundle, bundle, Len(bundle) - 1)
    BY <1>2 DEF Agrees
  <2> QED BY <1>1, <1>2, <1>4, <2>1, TopStep
<1> QED BY <1>3, <1>4 DEF Unbundle

LEMMA BlobbedSafe == ASSUME Inv, Blobbed PROVE Inv'
<1>1. At("blob") /\ "blob" \in Others /\ Continue(ElemToBlob(bundle, "b"))
  BY DEF Blobbed, Others
<1>2. Elements(bundle) /\ Len(bundle) >= 1
  BY <1>1, NextTask
<1> QED BY <1>1, <1>2, Blobs, TopStep

LEMMA ThunkSafe == ASSUME Inv, Thunk PROVE Inv'
<1>1. At("thunk") /\ "thunk" \in Others /\ Continue(ElemToBlob(bundle, "B"))
  BY DEF Thunk, Others
<1>2. Elements(bundle) /\ Len(bundle) >= 1
  BY <1>1, NextTask
<1> QED BY <1>1, <1>2, Blobs, TopStep

LEMMA ApplyFnSafe == ASSUME Inv, ApplyFn PROVE Inv'
<1>1. At("apply") /\ "apply" \in Others /\ Continue(Push(PushString(bundle, "/!/o/apply")))
  BY DEF ApplyFn, Others
<1>2. Elements(bundle) /\ Len(bundle) >= 1
  BY <1>1, NextTask
<1> QED BY <1>1, <1>2, PushedString, TopStep

LEMMA PushTopSafe == ASSUME Inv, PushTop PROVE Inv'
<1>1. At("push") /\ Continue(Push(bundle))
  BY DEF PushTop
<1>2. Elements(bundle) /\ Len(bundle) >= 2
  BY <1>1, NextTask
<1> QED BY <1>1, <1>2, PushElement, TwoStep

LEMMA DropTextSafe == ASSUME Inv, DropText PROVE Inv'
<1>1. At("nip") /\ Continue(Nip(bundle))
  BY DEF DropText
<1>2. Elements(bundle) /\ Len(bundle) \in Nat /\ Len(bundle) >= 2
  BY <1>1, NextTask
<1>3. IsElem(Last(bundle))
  BY <1>2 DEF Last, Elements
<1>4. 2 \in Nat /\ 2 <= Len(bundle) /\ Len(bundle) - 2 + 1 = Len(bundle) - 1
  BY <1>2
<1>5. /\ Elements(Nip(bundle)) /\ Len(Nip(bundle)) = Len(bundle) - 2 + 1
      /\ Agrees(Nip(bundle), bundle, Len(bundle) - 2)
  BY <1>2, <1>3, <1>4, ReplaceTop DEF Nip
<1> QED BY <1>1, <1>4, <1>5, TwoStep

LEMMA WrapSafe == ASSUME Inv, Wrap PROVE Inv'
<1> DEFINE v == Append(Front(bundle), Bndl(<<>>))
           w == v \o <<Last(bundle)>>
           u == Push(w)
<1>1. At("wrap") /\ "wrap" \in Others /\ Continue(u)
  BY DEF Wrap, Others
<1>2. Elements(bundle) /\ Len(bundle) \in Nat /\ Len(bundle) >= 1
  BY <1>1, NextTask
<1>3. IsElem(Last(bundle))
  BY <1>2 DEF Last, Elements
<1>4. Elements(v) /\ Len(v) = Len(bundle) /\ Agrees(v, bundle, Len(bundle) - 1)
  BY <1>2, BundleIsElem, ReplaceLast
<1> HIDE DEF v
<1>5. w = Append(v, Last(bundle))
  BY <1>4, AppendIs DEF Elements
<1>6. Elements(w) /\ Len(w) = Len(v) + 1 /\ Agrees(w, v, Len(v))
  BY <1>3, <1>4, <1>5, AppendElement
<1> HIDE DEF w
<1>7. Len(w) >= 2
  BY <1>2, <1>4, <1>6
<1>8. Elements(u) /\ Len(u) = Len(w) - 1 /\ Agrees(u, w, Len(w) - 2)
  BY <1>6, <1>7, PushElement
<1> HIDE DEF u
<1>9. Agrees(w, bundle, Len(bundle) - 1)
  BY <1>2, <1>4, <1>6, AgreesLess DEF Elements
<1>10. Agrees(u, bundle, Len(bundle) - 1)
  BY <1>2, <1>4, <1>6, <1>8, <1>9, AgreesLess DEF Elements
<1>11. Len(u) = Len(bundle)
  BY <1>2, <1>4, <1>6, <1>8
<1> QED BY <1>1, <1>8, <1>10, <1>11, TopStep

LEMMA OpenBundleSafe == ASSUME Inv, OpenBundle PROVE Inv'
<1> DEFINE n == Len(bundle)
           u == Append(bundle, Bndl(<<>>))
           r == Visits(Tree.parts) \o <<Task("end", n + 1)>>
<1>1. At("visit") /\ Tree.node \in {"lazy", "eager", "top"}
  BY DEF OpenBundle, AtNode, Tree
<1>2. Elements(bundle) /\ n \in Nat /\ n + 1 \in Nat /\ n <= n + 1 - 1 /\ Tree.parts \in Seq(Syntax)
  BY <1>1, NextTask
<1>3. Elements(u) /\ Len(u) = n + 1 /\ Agrees(u, bundle, n) /\ u[n + 1] = Bndl(<<>>)
  BY <1>2, BundleIsElem, AppendElement, AppendSeq DEF Elements
<1> HIDE DEF u, n
<1>4. Runs(r, u, n + 1, n + 1, n)
  BY <1>2, <1>3, BundleRun
<1>5. IsSeq(r)
  BY <1>4 DEF Runs, Tasks
<1>6. r \o <<>> = r
  BY <1>5, EmptyBehind
<1>7. /\ Runs(r \o <<Do("blob")>>, u, n + 1, n + 1, n)
      /\ Runs(r \o <<Do("wrap")>>, u, n + 1, n + 1, n)
  <2> HIDE DEF r
  <2>1. /\ Do("blob").op \in Others /\ Do("blob").op # "rest"
        /\ Do("wrap").op \in Others /\ Do("wrap").op # "rest"
    BY Ops DEF Others
  <2> QED BY <1>2, <1>4, <2>1, ThenOther
<1>8. \A tasks : /\ Enter(tasks, u)
                 /\ tasks \in {r, r \o <<Do("blob")>>, r \o <<Do("wrap")>>}
                 => Inv'
  <2> SUFFICES ASSUME NEW tasks, Enter(tasks, u), Runs(tasks, u, n + 1, n + 1, n) PROVE Inv'
    BY <1>4, <1>7
  <2> QED BY <1>1, <1>3, EnterSound DEF n
<1>9. \/ Enter(r \o <<Do("blob")>>, u)
      \/ Enter(r \o <<>>, u)
      \/ Enter(r \o <<Do("wrap")>>, u)
  <2>1. CASE Tree.node = "lazy"
    BY <2>1 DEF OpenBundle, u, n
  <2>2. CASE Tree.node = "eager"
    BY <2>2 DEF OpenBundle, u, n
  <2>3. CASE Tree.node = "top"
    BY <2>3 DEF OpenBundle, u, n
  <2> QED BY <1>1, <2>1, <2>2, <2>3
<1> HIDE DEF r
<1> QED BY <1>6, <1>8, <1>9

LEMMA EndBundleSafe == ASSUME Inv, EndBundle PROVE Inv'
<1> DEFINE n == Len(bundle)
           at == Head(todo).arg
           d == n - at + 1
<1>1. At("end") /\ \E e : IsElem(e) /\ Continue(Append(SubSeq(bundle, 1, at - 1), e))
  BY BundleIsElem DEF EndBundle
<1>2. PICK e : IsElem(e) /\ Continue(Append(SubSeq(bundle, 1, at - 1), e))
  BY <1>1
<1>3. todo # <<>> /\ Head(todo).op = "end" /\ Elements(bundle) /\ n \in Nat
  BY <1>1, NextTask
<1>4. at \in Nat /\ 1 <= at /\ at <= n
  BY <1>3, HeadTask DEF Inv, IsTask
<1>5. HeightAfter(Head(todo), n) = at /\ Keeps(Head(todo), n) = at - 1
  BY <1>3, TaskHeights
<1> DEFINE u == Append(DropTop(bundle, d), e)
<1> HIDE DEF n, at
<1>6. d \in Nat /\ d <= n /\ n - d = at - 1 /\ n - d + 1 = at
  BY <1>3, <1>4
<1>7. u = Append(SubSeq(bundle, 1, at - 1), e)
  <2>1. DropTop(bundle, d) = SubSeq(bundle, 1, n - d)
    BY DEF DropTop, n
  <2> HIDE DEF d
  <2> QED BY <1>6, <2>1
<1> HIDE DEF d
<1>8. Elements(u) /\ Len(u) = n - d + 1 /\ Agrees(u, bundle, n - d)
  BY <1>2, <1>3, <1>6, ReplaceTop DEF n
<1> HIDE DEF u
<1>9. Continue(u) /\ Len(u) = at /\ Agrees(u, bundle, at - 1)
  BY <1>2, <1>6, <1>7, <1>8
<1> QED BY <1>3, <1>5, <1>8, <1>9, ContinueSound DEF n, at

LEMMA FuncallSafe == ASSUME Inv, Funcall PROVE Inv'
<1> DEFINE r == ArgsTasks(Tree.parts[1]) \o <<Visit(Tree.parts[2]), Do("apply"), Do("push")>>
<1>1. At("visit") /\ Tree.node = "funcall" /\ Enter(r, bundle)
  BY DEF Funcall, AtNode, Tree
<1>2. Elements(bundle) /\ Len(bundle) \in Nat /\ Tree \in Syntax /\ Tree.parts \in Seq(Syntax)
  BY <1>1, NextTask
<1>3. Len(Tree.parts) = 2
  BY <1>1, <1>2, SyntaxAssumption
<1>4. Tree.parts[1] \in Syntax /\ Tree.parts[2] \in Syntax
  <2>1. 1 \in 1 .. Len(Tree.parts) /\ 2 \in 1 .. Len(Tree.parts)
    BY <1>3
  <2> QED BY <1>2, <2>1, ElementOfSeq
<1>5. Runs(r, bundle, Len(bundle), Len(bundle) + 1, Len(bundle))
  BY <1>2, <1>4, FuncallRun
<1>6. Agrees(bundle, bundle, Len(bundle))
  BY <1>2 DEF Agrees
<1> HIDE DEF r
<1> QED BY <1>1, <1>2, <1>5, <1>6, EnterSound

LEMMA ReturnSafe == ASSUME Inv, Return PROVE Inv'
<1>1. At("return") /\ Continue(bundle)
  BY DEF Return
<1>2. todo # <<>> /\ Head(todo).op = "return" /\ Elements(bundle) /\ Len(bundle) \in Nat
  BY <1>1, NextTask
<1>3. /\ HeightAfter(Head(todo), Len(bundle)) = Len(bundle)
      /\ Keeps(Head(todo), Len(bundle)) = Len(bundle)
  BY <1>2, TaskHeights
<1>4. Agrees(bundle, bundle, Len(bundle))
  BY <1>2 DEF Agrees
<1> QED BY <1>1, <1>2, <1>3, <1>4, ContinueSound

-----------------------------------------------------------------------------
LEMMA InitSafe == ASSUME Init PROVE Inv
<1>1. PICK tree \in Trees, s0 \in Stacks :
         todo = <<Visit(tree), Do("nip")>> /\ bundle = Append(s0, String("text"))
  BY DEF Init
<1> DEFINE n == Len(s0)
           m == n + 1
           m2 == n + 2
           t == <<Visit(tree)>> \o <<Do("nip")>>
<1>2. Elements(s0) /\ IsSeq(s0) /\ n \in Nat
  BY <1>1, StacksAssumption, SeqType DEF Elements, IsSeq
<1>3. Elements(bundle) /\ Len(bundle) = m /\ Agrees(bundle, s0, n)
  BY <1>1, <1>2, MessageIsElem, AppendElement DEF String
<1>4. IsPrefix(s0, bundle)
  BY <1>2, <1>3, PrefixItself, PrefixKept DEF Agrees, Elements
<1>5. tree \in Syntax
  BY <1>1, SyntaxAssumption
<1>6. /\ m \in Nat /\ m2 \in Nat /\ m + 1 = m2 /\ m2 - 1 = m
      /\ n <= m /\ n <= m2 - 2
  BY <1>2
<1>7. Runs(<<Visit(tree)>>, bundle, m, m + 1, n)
  <2> HIDE DEF n, m, m2
  <2> QED BY <1>2, <1>5, <1>6, FirstVisit
<1>8. Do("nip").op \in {"push", "nip"}
  BY Ops
<1>9. Runs(t, bundle, m, m2 - 1, n)
  <2> HIDE DEF n, m, m2
  <2> DEFINE t1 == <<Visit(tree)>>
             task == Do("nip")
  <2>1. Runs(t1, bundle, m, m2, n) /\ task.op \in {"push", "nip"}
    BY <1>6, <1>7, <1>8
  <2> HIDE DEF t1, task
  <2>2. Runs(t1 \o <<task>>, bundle, m, m2 - 1, n)
    BY <1>2, <1>6, <2>1, ThenPush
  <2> QED BY <2>2 DEF t1, task
<1>10. todo = t
  <2>1. <<Visit(tree), Do("nip")>> = t
    BY TwoIs
  <2> QED BY <1>1, <2>1
<1> HIDE DEF t
<1>11. Runs(todo, bundle, Len(bundle), n + 1, n)
  BY <1>3, <1>6, <1>9, <1>10
<1> QED BY <1>3, <1>4, <1>11 DEF Inv, Sound

LEMMA NextSafe == ASSUME Inv, [Next]_vars PROVE Inv'
<1>1. CASE UNCHANGED vars
  BY <1>1 DEF vars, Inv
<1> QED BY <1>1, LookupSafe, LiteralSafe, BindSafe, NameRhsSafe, ListSafe, ListRestSafe,
           UnbundleSafe, OpenBundleSafe, EndBundleSafe, BlobbedSafe, WrapSafe, FuncallSafe,
           ThunkSafe, ApplyFnSafe, PushTopSafe, ReturnSafe, EmptyTextSafe, DropTextSafe
           DEF Next

LEMMA Invariance == Spec => []Inv
BY InitSafe, NextSafe, PTL DEF Spec

-----------------------------------------------------------------------------
(* What the invariant says of the tasks and of the stack. *)
LEMMA InvType == ASSUME Inv PROVE TypeOK
<1>1. PICK s0 \in Stacks : Runs(todo, bundle, Len(bundle), Len(s0) + 1, Len(s0))
  BY DEF Inv, Sound
<1>2. PICK h : Heights(todo, h) /\ MarksKept(todo, h)
  BY <1>1 DEF Runs
<1>3. /\ IsSeq(todo) /\ Len(todo) \in Nat /\ DOMAIN todo = 1 .. Len(todo)
      /\ IsSeq(bundle) /\ Len(bundle) \in Nat /\ DOMAIN bundle = 1 .. Len(bundle)
      /\ \A i \in 1 .. Len(bundle) : IsElem(bundle[i])
  BY <1>1, SeqType DEF Runs, Tasks, Inv, Sound, Elements
<1>4. ASSUME NEW i \in 1 .. Len(todo), todo[i].op = "end"
      PROVE  /\ todo[i].arg \in 1 .. Len(bundle)
             /\ bundle[todo[i].arg] = Bndl(<<>>)
             /\ \A j \in 1 .. i - 1 : todo[j].op = "end" => todo[j].arg > todo[i].arg
  <2>1. IsTask(todo[i]) /\ Placed(todo[i], bundle)
    BY <1>1 DEF Runs, Tasks
  <2>2. todo[i].arg \in Nat /\ 1 <= todo[i].arg
    BY <1>2, <1>4, <2>1 DEF Heights, IsTask
  <2>3. todo[i].arg <= Len(bundle) /\ bundle[todo[i].arg] = Bndl(<<>>)
    BY <1>4, <2>1 DEF Placed
  <2>4. ASSUME NEW j \in 1 .. i - 1, todo[j].op = "end" PROVE todo[j].arg > todo[i].arg
    <3>1. j \in 1 .. Len(todo)
      BY <1>3
    <3>2. IsTask(todo[j]) /\ todo[j].arg \in Nat
      BY <1>1, <2>4, <3>1 DEF Runs, Tasks, IsTask
    <3>3. todo[i].arg <= Keeps(todo[j], h[j])
      BY <1>2, <1>4 DEF MarksKept, Marked, Mark
    <3>4. Keeps(todo[j], h[j]) = todo[j].arg - 1
      BY <2>4 DEF Keeps
    <3> QED BY <2>2, <3>2, <3>3, <3>4
  <2> QED BY <1>3, <2>2, <2>3, <2>4
<1> QED BY <1>3, <1>4 DEF TypeOK

LEMMA InvBelow == ASSUME Inv PROVE BelowUntouched
<1>1. PICK s0 \in Stacks : Runs(todo, bundle, Len(bundle), Len(s0) + 1, Len(s0))
  BY DEF Inv, Sound
<1>2. DOMAIN todo = 1 .. Len(todo)
  BY <1>1, SeqType DEF Runs, Tasks
<1> QED BY <1>1, <1>2 DEF Runs, Placed, BelowUntouched

-----------------------------------------------------------------------------
(* The stack holds elements, and open bundles are where their ends wait    *)
(* for them, the innermost one first, for every tree of the grammar.       *)
THEOREM TypeCorrect == Spec => []TypeOK
BY Invariance, InvType, PTL

(* No visit touches what stood on the stack before it (oscriptVisitorImpl  *)
(* works on the one bundle of the machine). *)
THEOREM BelowStaysUntouched == Spec => []BelowUntouched
BY Invariance, InvBelow, PTL

-----------------------------------------------------------------------------
(* f gives the trees in T their elements. *)
Gives(f, T) ==
    \A t \in T : f[t] = Construct(t, [i \in DOMAIN t.parts |-> f[t.parts[i]]])

Shallow(n) == {t \in Syntax : Depth[t] < n}

LEMMA PartsAre ==
    ASSUME NEW t \in Syntax, NEW i \in DOMAIN t.parts
    PROVE  /\ t.parts[i] \in Syntax /\ Depth[t.parts[i]] \in Nat /\ Depth[t] \in Nat
           /\ Depth[t.parts[i]] < Depth[t]
<1>1. t.parts \in Seq(Syntax)
  BY SyntaxAssumption
<1>2. i \in 1 .. Len(t.parts)
  BY <1>1, LenProperties
<1>3. t.parts[i] \in Syntax
  BY <1>1, <1>2, ElementOfSeq
<1> QED BY <1>3, DepthAssumption

(* Trees are finite: a set of them has a shallowest. *)
LEMMA Shallowest ==
    ASSUME NEW T, T \subseteq Syntax, T # {}
    PROVE  \E t \in T : \A i \in DOMAIN t.parts : t.parts[i] \notin T
<1> DEFINE D == {Depth[t] : t \in T}
<1>1. D \subseteq Nat /\ D # {}
  BY DepthAssumption
<1>2. PICK n \in D : \A m \in D : n <= m
  BY <1>1, LeastNumber
<1>3. PICK t \in T : n = Depth[t]
  BY <1>2
<1>4. ASSUME NEW i \in DOMAIN t.parts, t.parts[i] \in T PROVE FALSE
  <2>1. n <= Depth[t.parts[i]]
    BY <1>2, <1>4
  <2> QED BY <2>1, <1>3, <1>4, PartsAre
<1> QED BY <1>4

(* Such functions agree, and there is one for every depth. *)
LEMMA GivesAgree ==
    ASSUME NEW f, NEW g, NEW n \in Nat, NEW m \in Nat,
           Gives(f, Shallow(n)), Gives(g, Shallow(m)),
           NEW t \in Shallow(n), t \in Shallow(m)
    PROVE  f[t] = g[t]
<1> DEFINE T == {u \in Shallow(n) \cap Shallow(m) : f[u] # g[u]}
<1> SUFFICES ASSUME T # {} PROVE FALSE
  OBVIOUS
<1>1. T \subseteq Syntax
  BY DEF Shallow
<1>2. PICK u \in T : \A i \in DOMAIN u.parts : u.parts[i] \notin T
  BY <1>1, Shallowest, Zenon
<1>3. u \in Shallow(n) /\ u \in Shallow(m) /\ f[u] # g[u] /\ u \in Syntax
  BY <1>1, <1>2
<1>4. ASSUME NEW i \in DOMAIN u.parts PROVE f[u.parts[i]] = g[u.parts[i]]
  <2>1. u.parts[i] \in Shallow(n) /\ u.parts[i] \in Shallow(m)
    BY <1>3, PartsAre DEF Shallow
  <2> QED BY <2>1, <1>2
<1>5. [i \in DOMAIN u.parts |-> f[u.parts[i]]] = [i \in DOMAIN u.parts |-> g[u.parts[i]]]
  BY <1>4, Zenon
<1> QED BY <1>3, <1>5, Zenon DEF Gives

LEMMA SomeGives == ASSUME NEW n \in Nat PROVE \E f : Gives(f, Shallow(n))
<1> DEFINE Missing == {k \in Nat : ~ \E f : Gives(f, Shallow(k))}
<1> SUFFICES ASSUME Missing # {} PROVE FALSE
  OBVIOUS
<1>1. PICK k \in Missing : \A m \in Missing : k <= m
  <2>1. Missing \subseteq Nat
    OBVIOUS
  <2> HIDE DEF Missing
  <2> QED BY <2>1, LeastNumber, Zenon
<1>2. k # 0
  <2>1. Shallow(0) = {}
    BY DepthAssumption DEF Shallow
  <2>2. Gives([t \in {} |-> 0], Shallow(0))
    BY <2>1 DEF Gives
  <2> QED BY <1>1, <2>2, Zenon
<1>3. PICK g : Gives(g, Shallow(k - 1))
  BY <1>1, <1>2
<1> DEFINE f == [t \in Syntax |-> Construct(t, [i \in DOMAIN t.parts |-> g[t.parts[i]]])]
<1>4. ASSUME NEW t \in Shallow(k)
      PROVE  f[t] = Construct(t, [i \in DOMAIN t.parts |-> f[t.parts[i]]])
  <2>1. t \in Syntax
    BY DEF Shallow
  <2>2. ASSUME NEW i \in DOMAIN t.parts PROVE f[t.parts[i]] = g[t.parts[i]]
    <3>1. t.parts[i] \in Shallow(k - 1) /\ t.parts[i] \in Syntax
      BY <1>1, <1>2, <2>1, PartsAre DEF Shallow
    <3> QED BY <3>1, <1>3, Zenon DEF Gives
  <2>3. f[t] = Construct(t, [i \in DOMAIN t.parts |-> g[t.parts[i]]])
    BY <2>1, Zenon
  <2> HIDE DEF f
  <2>4. [i \in DOMAIN t.parts |-> f[t.parts[i]]] = [i \in DOMAIN t.parts |-> g[t.parts[i]]]
    BY <2>2, Zenon
  <2> QED BY <2>3, <2>4, Zenon
<1> HIDE DEF f
<1>5. Gives(f, Shallow(k))
  BY <1>4, Zenon DEF Gives
<1> QED BY <1>1, <1>5, Zenon

(* What is generated for a tree is made of what is generated for its parts. *)
LEMMA GeneratedIs ==
    ASSUME NEW t \in Syntax
    PROVE  Generated[t] = Construct(t, [i \in DOMAIN t.parts |-> Generated[t.parts[i]]])
<1> DEFINE Of(n) == CHOOSE f : Gives(f, Shallow(n))
           g == [u \in Syntax |-> Of(Depth[u] + 1)[u]]
<1>1. ASSUME NEW n \in Nat PROVE Gives(Of(n), Shallow(n))
  BY SomeGives, Zenon
<1> HIDE DEF Of
<1>2. ASSUME NEW u \in Syntax
      PROVE  g[u] = Construct(u, [i \in DOMAIN u.parts |-> g[u.parts[i]]])
  <2>1. Depth[u] + 1 \in Nat /\ u \in Shallow(Depth[u] + 1)
    BY DepthAssumption DEF Shallow
  <2> DEFINE f == Of(Depth[u] + 1)
  <2>2. Gives(f, Shallow(Depth[u] + 1))
    BY <1>1, <2>1, Zenon
  <2>3. ASSUME NEW i \in DOMAIN u.parts PROVE g[u.parts[i]] = f[u.parts[i]]
    <3> DEFINE p == u.parts[i]
    <3>1. p \in Syntax /\ Depth[p] + 1 \in Nat /\ p \in Shallow(Depth[p] + 1)
          /\ p \in Shallow(Depth[u] + 1)
      BY PartsAre DEF Shallow
    <3>2. g[p] = Of(Depth[p] + 1)[p]
      BY <3>1, Zenon
    <3>3. Gives(Of(Depth[p] + 1), Shallow(Depth[p] + 1))
      BY <1>1, <3>1, Zenon
    <3> HIDE DEF p, f
    <3>4. Of(Depth[p] + 1)[p] = f[p]
      BY <2>1, <2>2, <3>1, <3>3, GivesAgree, Zenon
    <3> QED BY <3>2, <3>4 DEF p
  <2>4. f[u] = Construct(u, [i \in DOMAIN u.parts |-> f[u.parts[i]]])
    BY <2>1, <2>2, Zenon DEF Gives
  <2>5. g[u] = f[u]
    BY Zenon
  <2> HIDE DEF g, f
  <2>6. [i \in DOMAIN u.parts |-> g[u.parts[i]]] = [i \in DOMAIN u.parts |-> f[u.parts[i]]]
    BY <2>3, Zenon
  <2> QED BY <2>4, <2>5, <2>6, Zenon
<1>3. g = [u \in Syntax |-> Construct(u, [i \in DOMAIN u.parts |-> g[u.parts[i]]])]
  <2>1. g = [u \in Syntax |-> g[u]]
    BY Zenon
  <2> HIDE DEF g
  <2> QED BY <1>2, <2>1, Zenon
<1> HIDE DEF g
<1>4. Generated = [u \in Syntax |->
                     Construct(u, [i \in DOMAIN u.parts |-> Generated[u.parts[i]]])]
  BY <1>3 DEF Generated
<1> QED BY <1>4, Zenon

-----------------------------------------------------------------------------
(* The items elements are joined to, one after the other. *)
LEMMA JoinNone == JoinItems(<<>>) = <<>>
<1>1. DOMAIN <<>> = 1 .. 0
  BY EmptyIsSeq, SeqType
<1> DEFINE ss == [i \in DOMAIN <<>> |-> AsItems(<<>>[i])]
<1>2. DOMAIN ss = 1 .. 0 /\ ss = [i \in 1 .. 0 |-> ss[i]]
  BY <1>1
<1>3. JoinItems(<<>>) = FlattenSeq(ss)
  BY DEF JoinItems
<1> HIDE DEF ss
<1>4. 0 \in Nat
  OBVIOUS
<1>5. IsSeq(ss) /\ Len(ss) = 0
  BY <1>2, <1>4, MappedSeq
<1>6. ss = <<>>
  BY <1>5, EmptyIsSeq, SameSeq
<1> QED BY <1>3, <1>6, FlattenEmpty

LEMMA JoinFirst ==
    ASSUME NEW es, IsSeq(es), es # <<>>, \A i \in 1 .. Len(es) : IsSeq(AsItems(es[i]))
    PROVE  /\ IsSeq(JoinItems(es)) /\ IsSeq(JoinItems(Tail(es)))
           /\ JoinItems(es) = AsItems(es[1]) \o JoinItems(Tail(es))
<1> DEFINE Of(u) == [i \in DOMAIN u |-> AsItems(u[i])]
           ss == Of(es)
           tt == Of(Tail(es))
           n == Len(es)
           S == UNION {Range(ss[i]) : i \in 1 .. n}
<1>1. n \in Nat /\ n >= 1 /\ DOMAIN es = 1 .. n
  BY NotEmpty, SeqType
<1>2. /\ IsSeq(Tail(es)) /\ Len(Tail(es)) = n - 1 /\ DOMAIN Tail(es) = 1 .. n - 1
      /\ \A i \in 1 .. n - 1 : Tail(es)[i] = es[i + 1]
  BY <1>1, TailSeq, SeqType
<1>3. JoinItems(es) = FlattenSeq(ss) /\ JoinItems(Tail(es)) = FlattenSeq(tt)
  BY DEF JoinItems
<1>4. DOMAIN ss = 1 .. n /\ ss = [i \in 1 .. n |-> ss[i]] /\ \A i \in 1 .. n : ss[i] = AsItems(es[i])
  BY <1>1
<1>5. /\ DOMAIN tt = 1 .. n - 1 /\ tt = [i \in 1 .. n - 1 |-> tt[i]]
      /\ \A i \in 1 .. n - 1 : tt[i] = AsItems(Tail(es)[i])
  BY <1>2
<1> HIDE DEF ss, tt, n
<1>6. IsSeq(ss) /\ Len(ss) = n
  BY <1>1, <1>4, MappedSeq
<1>7. IsSeq(tt) /\ Len(tt) = n - 1
  <2>1. n - 1 \in Nat
    BY <1>1
  <2> QED BY <2>1, <1>5, MappedSeq
<1>8. ss # <<>>
  BY <1>1, <1>6, EmptyIsSeq
<1>9. tt = Tail(ss)
  <2>1. /\ IsSeq(Tail(ss)) /\ Len(Tail(ss)) = n - 1
        /\ \A i \in 1 .. n - 1 : Tail(ss)[i] = ss[i + 1]
    BY <1>6, <1>8, TailSeq
  <2>2. \A i \in 1 .. n - 1 : i + 1 \in 1 .. n
    BY <1>1
  <2>3. \A i \in 1 .. n - 1 : tt[i] = Tail(ss)[i]
    BY <2>1, <2>2, <1>2, <1>4, <1>5
  <2> QED BY <2>1, <2>3, <1>7, SameSeq
<1>10. ASSUME NEW i \in 1 .. n PROVE ss[i] \in Seq(S)
  <2>1. Range(ss[i]) \subseteq S
    OBVIOUS
  <2>2. ss[i] \in Seq(Range(ss[i]))
    BY <1>4 DEF IsSeq, n
  <2> QED BY <2>1, <2>2, SeqMonotonic
<1> HIDE DEF S
<1>11. \A s \in Range(ss) : s \in Seq(S)
  BY <1>6, <1>10, RangeIs
<1>12. \A s \in Range(tt) : s \in Seq(S)
  <2>1. \A i \in 1 .. n - 1 : i + 1 \in 1 .. n /\ tt[i] = ss[i + 1]
    BY <1>1, <1>6, <1>8, <1>9, TailSeq
  <2> QED BY <2>1, <1>7, <1>10, RangeIs
<1>13. IsSeq(FlattenSeq(ss)) /\ IsSeq(FlattenSeq(tt))
  BY <1>6, <1>7, <1>11, <1>12, FlattenIsSeq, SeqIsSeq
<1>14. FlattenSeq(ss) = ss[1] \o FlattenSeq(Tail(ss))
  BY <1>6, <1>8, <1>11, FlattenHead
<1>15. ss[1] = AsItems(es[1])
  BY <1>1, <1>4
<1> QED BY <1>3, <1>9, <1>13, <1>14, <1>15

-----------------------------------------------------------------------------
(* What is generated: a message or a bundle, and for most trees a message. *)
Elems(parts) == [i \in DOMAIN parts |-> Generated[parts[i]]]

Message(e) == e = Msg(e.addr, e.items) /\ IsSeq(e.items)
Grouped(e) == e = Bndl(e.elems) /\ IsSeq(e.elems)

Nameless == {"lookup", "lazy", "funcall"}
MessageNodes == Nameless \union {"literal", "bind", "list"}

Form(t) ==
    /\ Message(Generated[t]) \/ Grouped(Generated[t])
    /\ t.node \in MessageNodes => Message(Generated[t])
    /\ t.node \in Nameless => Generated[t].addr = ""

LEMMA MessageIs ==
    ASSUME NEW address, NEW items
    PROVE  /\ Msg(address, items).addr = address /\ Msg(address, items).items = items
           /\ ~IsBndl(Msg(address, items)) /\ AsItems(Msg(address, items)) = items
           /\ IsSeq(items) => Message(Msg(address, items))
<1>1. "addr" \in DOMAIN Msg(address, items) /\ "addr" \notin {"elems"}
  BY DEF Msg
<1>2. ~IsBndl(Msg(address, items))
  BY <1>1 DEF IsBndl
<1> QED BY <1>2 DEF Msg, AsItems, Message

LEMMA GroupIs ==
    ASSUME NEW es
    PROVE  /\ Bndl(es).elems = es /\ IsBndl(Bndl(es)) /\ AsItems(Bndl(es)) = <<Bundle(es)>>
           /\ IsSeq(es) => Grouped(Bndl(es))
<1>1. IsBndl(Bndl(es))
  BY DEF Bndl, IsBndl
<1> QED BY <1>1 DEF Bndl, AsItems, Grouped

LEMMA ItemsAre ==
    ASSUME NEW e, Message(e) \/ Grouped(e)
    PROVE  /\ IsSeq(AsItems(e))
           /\ IsBndl(e) <=> Grouped(e)
           /\ IsBndl(e) => AsItems(e) = <<Bundle(e.elems)>>
           /\ ~IsBndl(e) => Message(e) /\ AsItems(e) = e.items
<1>1. CASE Message(e)
  <2>1. ~IsBndl(e) /\ AsItems(e) = e.items
    <3> DEFINE m == Msg(e.addr, e.items)
    <3>1. ~IsBndl(m) /\ AsItems(m) = e.items /\ e = m
      BY <1>1, MessageIs DEF Message
    <3> HIDE DEF m
    <3> QED BY <3>1
  <2>2. ~Grouped(e)
    BY <2>1, GroupIs DEF Grouped
  <2> QED BY <1>1, <2>1, <2>2 DEF Message
<1>2. CASE Grouped(e)
  <2> DEFINE b == Bndl(e.elems)
  <2>1. IsBndl(b) /\ AsItems(b) = <<Bundle(e.elems)>> /\ e = b
    BY <1>2, GroupIs DEF Grouped
  <2> HIDE DEF b
  <2>2. IsSeq(<<Bundle(e.elems)>>)
    BY OneIsSeq
  <2> QED BY <1>2, <2>1, <2>2
<1> QED BY <1>1, <1>2

LEMMA ElemsAre ==
    ASSUME NEW parts \in Seq(Syntax)
    PROVE  /\ IsSeq(Elems(parts)) /\ Len(Elems(parts)) = Len(parts) /\ Len(parts) \in Nat
           /\ \A i \in 1 .. Len(parts) : /\ parts[i] \in Syntax
                                         /\ Elems(parts)[i] = Generated[parts[i]]
           /\ Elems(parts) = <<>> <=> parts = <<>>
<1> DEFINE u == Elems(parts)
           n == Len(parts)
<1>1. IsSeq(parts) /\ n \in Nat /\ DOMAIN parts = 1 .. n /\ \A i \in 1 .. n : parts[i] \in Syntax
  BY SeqIsSeq, ElementOfSeq
<1>2. DOMAIN u = 1 .. n /\ u = [i \in 1 .. n |-> u[i]] /\ \A i \in 1 .. n : u[i] = Generated[parts[i]]
  BY <1>1 DEF Elems
<1> HIDE DEF u, n
<1>3. IsSeq(u) /\ Len(u) = n
  BY <1>1, <1>2, MappedSeq
<1>4. u = <<>> => parts = <<>>
  BY <1>1, <1>3, EmptyIsSeq, SameSeq DEF n
<1>5. parts = <<>> => u = <<>>
  BY <1>3, EmptyIsSeq, SameSeq DEF n
<1> QED BY <1>1, <1>2, <1>3, <1>4, <1>5 DEF u, n

(* OscriptVisitor speaks of the same elements. *)
LEMMA SameElements ==
    /\ \A a, b : V!Msg(a, b) = Msg(a, b)
    /\ \A a : /\ V!Bndl(a) = Bndl(a) /\ V!Str(a) = Str(a) /\ V!Blob(a) = Blob(a)
              /\ V!IsBndl(a) = IsBndl(a)
              /\ V!AsItems(a) = AsItems(a)
<1>1. \A a, b : V!Msg(a, b) = Msg(a, b)
  BY Zenon DEF V!Msg, Msg
<1>2. \A a : V!Bndl(a) = Bndl(a) /\ V!Str(a) = Str(a) /\ V!Blob(a) = Blob(a)
  BY Zenon DEF V!Bndl, Bndl, V!Str, Str, V!Blob, Blob
<1>3. \A a : V!IsBndl(a) = IsBndl(a)
  BY Zenon DEF V!IsBndl, IsBndl
<1>4. \A a : V!AsItems(a) = AsItems(a)
  BY Zenon DEF V!AsItems, AsItems, V!IsBndl, IsBndl, V!Bundle, Bundle
<1> QED BY <1>1, <1>2, <1>3, <1>4, Zenon

LEMMA SameFlatten == \A ss : V!FlattenSeq(ss) = FlattenSeq(ss)
BY Zenon DEF V!FlattenSeq, FlattenSeq

LEMMA SameJoin == \A es : V!JoinItems(es) = JoinItems(es)
<1> TAKE es
<1>1. [i \in DOMAIN es |-> V!AsItems(es[i])] = [i \in DOMAIN es |-> AsItems(es[i])]
  BY SameElements, Zenon
<1> QED BY <1>1, SameFlatten, Zenon DEF V!JoinItems, JoinItems

(* What stands for each construct (oscriptVisitorImpl::visitName and so on). *)
LEMMA Made ==
    ASSUME NEW t \in Syntax
    PROVE  /\ t.node = "lookup" => Generated[t] = Msg("", <<Str(t.text), Str("/!/$")>>)
           /\ t.node = "literal" => Generated[t] = Msg("", <<t.text>>)
           /\ t.node = "bind" =>
                 Generated[t] = IF t.parts = <<>> THEN Msg(t.text, <<>>)
                                ELSE Msg(t.text, AsItems(Generated[t.parts[1]]))
           /\ t.node = "list" =>
                 Generated[t] = Msg(IF t.parts = <<>> \/ IsBndl(Generated[t.parts[1]]) THEN ""
                                    ELSE Generated[t.parts[1]].addr,
                                    JoinItems(Elems(t.parts)))
           /\ t.node = "eager" => Generated[t] = Bndl(Elems(t.parts))
           /\ t.node = "lazy" => Generated[t] = Msg("", <<Blob(Elems(t.parts))>>)
           /\ t.node = "funcall" =>
                 Generated[t] =
                    Msg("", AsItems(IF t.parts[1].node = "lazy"
                                    THEN Msg("", <<[tt |-> "B", elem |-> Generated[t.parts[1]]]>>)
                                    ELSE Generated[t.parts[1]])
                            \o Generated[t.parts[2]].items \o <<Str("/!/o/apply")>>)
           /\ t.node = "top" => Generated[t] = Bndl(<<Bndl(Elems(t.parts))>>)
           /\ t.node = "empty" => Generated[t] = Bndl(<<>>)
<1> DEFINE es == Elems(t.parts)
<1>1. Generated[t] = Construct(t, es)
  BY GeneratedIs DEF Elems
<1>2. t.parts \in Seq(Syntax) /\ (t.node = "funcall" => Len(t.parts) = 2)
  BY SyntaxAssumption
<1>3. /\ es = <<>> <=> t.parts = <<>>
      /\ Len(t.parts) \in Nat
      /\ \A i \in 1 .. Len(t.parts) : es[i] = Generated[t.parts[i]]
  BY <1>2, ElemsAre
<1>4. t.parts # <<>> => es[1] = Generated[t.parts[1]]
  <2>1. t.parts # <<>> => 1 \in 1 .. Len(t.parts)
    BY <1>2, EmptySeq
  <2> QED BY <1>3, <2>1
<1> HIDE DEF es
<1>5. ASSUME t.node = "lookup" PROVE Generated[t] = Msg("", <<Str(t.text), Str("/!/$")>>)
  BY <1>1, <1>5, SameElements DEF Construct, V!LookupElem
<1>6. ASSUME t.node = "literal" PROVE Generated[t] = Msg("", <<t.text>>)
  BY <1>1, <1>6, SameElements DEF Construct, V!Literal
<1>7. ASSUME t.node = "bind"
      PROVE  Generated[t] = IF t.parts = <<>> THEN Msg(t.text, <<>>)
                            ELSE Msg(t.text, AsItems(Generated[t.parts[1]]))
  BY <1>1, <1>3, <1>4, <1>7, SameElements DEF Construct, V!Bind, V!BindNothing
<1>8. ASSUME t.node = "list"
      PROVE  Generated[t] = Msg(IF t.parts = <<>> \/ IsBndl(Generated[t.parts[1]]) THEN ""
                                ELSE Generated[t.parts[1]].addr, JoinItems(es))
  BY <1>1, <1>3, <1>4, <1>8, SameElements, SameJoin DEF Construct, V!List
<1>9. ASSUME t.node = "eager" PROVE Generated[t] = Bndl(es)
  BY <1>1, <1>9, SameElements DEF Construct, V!EagerBundle
<1>10. ASSUME t.node = "lazy" PROVE Generated[t] = Msg("", <<Blob(es)>>)
  BY <1>1, <1>10, SameElements DEF Construct, V!LazyBundle
<1>11. ASSUME t.node = "funcall"
       PROVE  Generated[t] =
                 Msg("", AsItems(IF t.parts[1].node = "lazy"
                                 THEN Msg("", <<[tt |-> "B", elem |-> Generated[t.parts[1]]]>>)
                                 ELSE Generated[t.parts[1]])
                         \o Generated[t.parts[2]].items \o <<Str("/!/o/apply")>>)
  <2>1. 1 \in 1 .. Len(t.parts) /\ 2 \in 1 .. Len(t.parts)
    <3>1. Len(t.parts) = 2
      BY <1>2, <1>11
    <3> QED BY <3>1
  <2>2. es[1] = Generated[t.parts[1]] /\ es[2] = Generated[t.parts[2]]
    BY <1>3, <2>1
  <2> QED BY <1>1, <1>11, <2>2, SameElements DEF Construct, V!Funcall
<1>12. ASSUME t.node = "top" PROVE Generated[t] = Bndl(<<Bndl(es)>>)
  BY <1>1, <1>12, SameElements DEF Construct, V!TopLevelBundle
<1>13. ASSUME t.node = "empty" PROVE Generated[t] = Bndl(<<>>)
  BY <1>1, <1>13 DEF Construct
<1> QED BY <1>5, <1>6, <1>7, <1>8, <1>9, <1>10, <1>11, <1>12, <1>13 DEF es

(* Of the parts of a tree. *)
LEMMA PartsForm ==
    ASSUME NEW parts \in Seq(Syntax), \A i \in 1 .. Len(parts) : Form(parts[i])
    PROVE  /\ \A i \in 1 .. Len(parts) : IsSeq(AsItems(Elems(parts)[i]))
           /\ IsSeq(JoinItems(Elems(parts)))
<1>1. \A i \in 1 .. Len(parts) : IsSeq(AsItems(Elems(parts)[i]))
  BY ElemsAre, ItemsAre DEF Form
<1>2. IsSeq(JoinItems(Elems(parts)))
  <2> DEFINE es == Elems(parts)
  <2>1. IsSeq(es) /\ Len(es) = Len(parts)
    BY ElemsAre
  <2> HIDE DEF es
  <2>2. CASE es = <<>>
    BY <2>2, JoinNone, EmptyIsSeq DEF es
  <2>3. CASE es # <<>>
    <3>1. \A i \in 1 .. Len(es) : IsSeq(AsItems(es[i]))
      BY <1>1, <2>1 DEF es
    <3>2. IsSeq(JoinItems(es))
      BY <2>1, <2>3, <3>1, JoinFirst
    <3> QED BY <3>2 DEF es
  <2> QED BY <2>2, <2>3
<1> QED BY <1>1, <1>2

LEMMA FormStep ==
    ASSUME NEW t \in Syntax, \A i \in DOMAIN t.parts : Form(t.parts[i])
    PROVE  Form(t)
<1> DEFINE g == Generated[t]
           es == Elems(t.parts)
<1>1. /\ t.parts \in Seq(Syntax) /\ DOMAIN t.parts = 1 .. Len(t.parts) /\ Len(t.parts) \in Nat
      /\ t.node \in {"lookup", "literal", "bind", "list", "lazy", "eager", "funcall", "top", "empty"}
  BY SyntaxAssumption, SeqIsSeq
<1>2. \A i \in 1 .. Len(t.parts) : Form(t.parts[i])
  BY <1>1
<1>3. IsSeq(es) /\ IsSeq(JoinItems(es))
  BY <1>1, <1>2, ElemsAre, PartsForm
<1>4. t.parts # <<>> => IsSeq(AsItems(Generated[t.parts[1]]))
  <2>1. t.parts # <<>> => 1 \in 1 .. Len(t.parts)
    BY <1>1, EmptySeq
  <2> QED BY <1>2, <2>1, ItemsAre DEF Form
<1> HIDE DEF es
<1>5. ASSUME NEW a, NEW items, g = Msg(a, items), IsSeq(items), t.node \in Nameless => a = ""
      PROVE  Form(t)
  <2>1. Message(Msg(a, items)) /\ Msg(a, items).addr = a
    BY <1>5, MessageIs
  <2>2. Message(g) /\ g.addr = a
    BY <1>5, <2>1, Zenon
  <2> QED BY <1>5, <2>2 DEF Form
<1>6. ASSUME NEW u, g = Bndl(u), IsSeq(u), t.node \notin MessageNodes PROVE Form(t)
  BY <1>6, GroupIs DEF Form, MessageNodes
<1>7. CASE t.node = "lookup"
  <2>1. g = Msg("", <<Str(t.text), Str("/!/$")>>)
    BY <1>7, Made
  <2>2. IsSeq(<<Str(t.text), Str("/!/$")>>)
    BY OneIsSeq, TwoIs, ConcatSeq
  <2> HIDE DEF g
  <2> QED BY <1>5, <2>1, <2>2
<1>8. CASE t.node = "literal"
  <2>1. g = Msg("", <<t.text>>) /\ IsSeq(<<t.text>>)
    BY <1>8, Made, OneIsSeq
  <2> HIDE DEF g
  <2> QED BY <1>5, <2>1
<1>9. CASE t.node = "bind"
  <2>1. \E items : g = Msg(t.text, items) /\ IsSeq(items)
    BY <1>4, <1>9, Made, EmptyIsSeq
  <2> HIDE DEF g
  <2> QED BY <1>5, <1>9, <2>1 DEF Nameless
<1>10. CASE t.node = "list"
  <2>1. \E a : g = Msg(a, JoinItems(es))
    BY <1>10, Made DEF es
  <2> HIDE DEF g
  <2> QED BY <1>3, <1>5, <1>10, <2>1 DEF Nameless
<1>11. CASE t.node = "eager"
  <2>1. g = Bndl(es)
    BY <1>11, Made DEF es
  <2> HIDE DEF g
  <2> QED BY <1>3, <1>6, <1>11, <2>1 DEF Nameless, MessageNodes
<1>12. CASE t.node = "lazy"
  <2>1. g = Msg("", <<Blob(es)>>) /\ IsSeq(<<Blob(es)>>)
    BY <1>12, Made, OneIsSeq DEF es
  <2> HIDE DEF g
  <2> QED BY <1>5, <2>1
<1>13. CASE t.node = "funcall"
  <2>1. Len(t.parts) = 2 /\ t.parts[2].node \in Nameless
    BY <1>13, SyntaxAssumption DEF Nameless
  <2>2. 1 \in 1 .. Len(t.parts) /\ 2 \in 1 .. Len(t.parts)
    BY <2>1
  <2> DEFINE fn == Generated[t.parts[2]]
             args == IF t.parts[1].node = "lazy"
                     THEN Msg("", <<[tt |-> "B", elem |-> Generated[t.parts[1]]]>>)
                     ELSE Generated[t.parts[1]]
             items == AsItems(args) \o fn.items \o <<Str("/!/o/apply")>>
  <2>3. g = Msg("", items)
    BY <1>13, Made
  <2>4. IsSeq(fn.items)
    BY <1>2, <2>1, <2>2 DEF Form, Message, MessageNodes
  <2>5. IsSeq(AsItems(args))
    <3>1. IsSeq(<<[tt |-> "B", elem |-> Generated[t.parts[1]]]>>)
      BY OneIsSeq
    <3>2. IsSeq(AsItems(Generated[t.parts[1]]))
      BY <1>2, <2>2, ItemsAre DEF Form
    <3>3. CASE t.parts[1].node = "lazy"
      <4>1. args = Msg("", <<[tt |-> "B", elem |-> Generated[t.parts[1]]]>>)
        BY <3>3
      <4> HIDE DEF args
      <4> QED BY <3>1, <4>1, MessageIs, Zenon
    <3>4. CASE t.parts[1].node # "lazy"
      BY <3>2, <3>4
    <3> QED BY <3>3, <3>4
  <2> HIDE DEF g, fn, args
  <2>6. IsSeq(items)
    BY <2>4, <2>5, ConcatSeq, OneIsSeq
  <2> HIDE DEF items
  <2> QED BY <1>5, <2>3, <2>6
<1>14. CASE t.node = "top"
  <2>1. g = Bndl(<<Bndl(es)>>) /\ IsSeq(<<Bndl(es)>>)
    BY <1>14, Made, OneIsSeq DEF es
  <2> HIDE DEF g
  <2> QED BY <1>6, <1>14, <2>1 DEF Nameless, MessageNodes
<1>15. CASE t.node = "empty"
  <2>1. g = Bndl(<<>>)
    BY <1>15, Made
  <2> HIDE DEF g
  <2> QED BY <1>6, <1>15, <2>1, EmptyIsSeq DEF Nameless, MessageNodes
<1> QED BY <1>1, <1>7, <1>8, <1>9, <1>10, <1>11, <1>12, <1>13, <1>14, <1>15

LEMMA GeneratedForm == \A t \in Syntax : Form(t)
<1> DEFINE Wrong == {t \in Syntax : ~Form(t)}
<1> SUFFICES ASSUME Wrong # {} PROVE FALSE
  OBVIOUS
<1>1. Wrong \subseteq Syntax
  OBVIOUS
<1>2. PICK t \in Wrong : \A i \in DOMAIN t.parts : t.parts[i] \notin Wrong
  BY <1>1, Shallowest, Zenon
<1>3. \A i \in DOMAIN t.parts : Form(t.parts[i])
  BY <1>2, PartsAre
<1> QED BY <1>3, FormStep

-----------------------------------------------------------------------------
(* What a task makes of the stack, with all that it puts in its place: a   *)
(* visit leaves what is generated for its tree, and the rest of a list is  *)
(* joined to its first element. *)
Effect(task, s) ==
    CASE task.op = "visit" -> Append(s, Generated[task.arg])
      [] task.op = "rest" ->
            Append(Front(s), Msg(Last(s).addr, Last(s).items \o JoinItems(Elems(task.arg))))
      [] task.op = "name" -> MoveStringToAddress(Push(PushString(s, task.arg)))
      [] task.op = "unbundle" -> IF IsBndl(Last(s)) THEN ElemToBlob(s, "B") ELSE s
      [] task.op = "end" ->
            Append(SubSeq(s, 1, task.arg - 1),
                   Bndl(s[task.arg].elems \o SubSeq(s, task.arg + 1, Len(s))))
      [] task.op = "blob" -> ElemToBlob(s, "b")
      [] task.op = "thunk" -> ElemToBlob(s, "B")
      [] task.op = "wrap" -> Push(Append(Front(s), Bndl(<<>>)) \o <<Last(s)>>)
      [] task.op = "apply" -> Push(PushString(s, "/!/o/apply"))
      [] task.op = "push" -> Push(s)
      [] task.op = "nip" -> Nip(s)
      [] OTHER -> s

(* What a task relies on: the end of a visit on the element of its tree,   *)
(* and the rest of a list on the message of the elements before. *)
Ready(task, s) ==
    /\ task.op = "return" => s = Append(task.arg.below, Generated[task.arg.tree])
    /\ task.op = "rest" => IsSeq(s) /\ s # <<>> /\ Message(Last(s))

(* The tasks t bring the stack from s to u. *)
Leads(t, s, u) ==
    /\ IsSeq(t)
    /\ \E c : /\ c[1] = s
              /\ c[Len(t) + 1] = u
              /\ \A i \in 1 .. Len(t) : c[i + 1] = Effect(t[i], c[i]) /\ Ready(t[i], c[i])

LEMMA LeadsNone == ASSUME NEW s PROVE Leads(<<>>, s, s)
<1> DEFINE c == [i \in {1} |-> s]
<1>1. c[1] = s
  OBVIOUS
<1> HIDE DEF c
<1>2. Len(<<>>) + 1 = 1 /\ \A i \in 1 .. Len(<<>>) : FALSE
  BY EmptyIsSeq
<1>3. c[Len(<<>>) + 1] = s
  BY <1>1, <1>2
<1> QED BY <1>1, <1>2, <1>3, EmptyIsSeq DEF Leads

LEMMA LeadsOne ==
    ASSUME NEW task, NEW s, Ready(task, s)
    PROVE  Leads(<<task>>, s, Effect(task, s))
<1> DEFINE t == <<task>>
           u == Effect(task, s)
           c == [i \in {1, 2} |-> IF i = 1 THEN s ELSE u]
<1>1. IsSeq(t) /\ Len(t) = 1 /\ t[1] = task
  BY OneIsSeq
<1> HIDE DEF t
<1>2. c[1] = s /\ c[2] = u
  OBVIOUS
<1> HIDE DEF c
<1>3. \A i \in 1 .. Len(t) : i = 1
  BY <1>1
<1>4. \A i \in 1 .. Len(t) : c[i + 1] = Effect(t[i], c[i]) /\ Ready(t[i], c[i])
  <2>1. c[1 + 1] = Effect(t[1], c[1]) /\ Ready(t[1], c[1])
    BY <1>1, <1>2
  <2> QED BY <1>3, <2>1
<1>5. Leads(t, s, u)
  BY <1>1, <1>2, <1>4 DEF Leads
<1> QED BY <1>5 DEF t

LEMMA LeadsConcat ==
    ASSUME NEW r, NEW t, NEW s, NEW u, NEW v, Leads(r, s, u), Leads(t, u, v)
    PROVE  Leads(r \o t, s, v)
<1> DEFINE n == Len(r)
           m == Len(t)
           rt == r \o t
<1>1. PICK g : /\ g[1] = s /\ g[n + 1] = u
               /\ \A i \in 1 .. n : g[i + 1] = Effect(r[i], g[i]) /\ Ready(r[i], g[i])
  BY DEF Leads
<1>2. PICK h : /\ h[1] = u /\ h[m + 1] = v
               /\ \A i \in 1 .. m : h[i + 1] = Effect(t[i], h[i]) /\ Ready(t[i], h[i])
  BY DEF Leads
<1>3. /\ n \in Nat /\ m \in Nat /\ IsSeq(rt) /\ Len(rt) = n + m
      /\ \A i \in 1 .. n : rt[i] = r[i]
      /\ \A i \in 1 .. m : rt[n + i] = t[i]
  BY SeqType, ConcatSeq DEF Leads
<1> DEFINE c == [i \in 1 .. n + m + 1 |-> IF i <= n + 1 THEN g[i] ELSE h[i - n]]
<1> HIDE DEF n, m, rt
<1>4. \A i \in 1 .. n + 1 : c[i] = g[i]
  BY <1>3
<1>5. ASSUME NEW i \in 1 .. m + 1 PROVE c[n + i] = h[i]
  <2> DEFINE x == n + i
  <2>1. x \in 1 .. n + m + 1 /\ x - n = i /\ (i = 1 => x = n + 1) /\ (x <= n + 1 => i = 1)
    BY <1>3
  <2> HIDE DEF x
  <2>2. CASE i = 1
    <3>1. c[n + 1] = g[n + 1] /\ x = n + 1
      BY <1>3, <1>4, <2>1, <2>2
    <3> HIDE DEF c
    <3>2. c[x] = h[1]
      BY <1>1, <1>2, <3>1
    <3> QED BY <2>2, <3>2 DEF x
  <2>3. CASE i # 1
    <3>1. c[x] = h[x - n]
      BY <2>1, <2>3
    <3> QED BY <2>1, <3>1 DEF x
  <2> QED BY <2>2, <2>3
<1> HIDE DEF c
<1>6. ASSUME NEW i \in 1 .. Len(rt)
      PROVE  c[i + 1] = Effect(rt[i], c[i]) /\ Ready(rt[i], c[i])
  <2>1. CASE i <= n
    <3>1. i \in 1 .. n /\ i \in 1 .. n + 1 /\ i + 1 \in 1 .. n + 1
      BY <1>3, <2>1
    <3>2. rt[i] = r[i] /\ c[i] = g[i] /\ c[i + 1] = g[i + 1]
      BY <1>3, <1>4, <3>1
    <3> QED BY <1>1, <3>1, <3>2
  <2>2. CASE ~(i <= n)
    <3> DEFINE j == i - n
               b == j + 1
    <3>1. /\ j \in 1 .. m /\ j \in 1 .. m + 1 /\ b \in 1 .. m + 1
          /\ n + j = i /\ n + b = i + 1
      BY <1>3, <2>2
    <3>2. h[b] = Effect(t[j], h[j]) /\ Ready(t[j], h[j])
      BY <1>2, <3>1
    <3> HIDE DEF j, b
    <3>3. rt[n + j] = t[j] /\ c[n + j] = h[j] /\ c[n + b] = h[b]
      BY <1>3, <1>5, <3>1
    <3>4. rt[i] = t[j] /\ c[i] = h[j] /\ c[i + 1] = h[b]
      BY <3>1, <3>3
    <3> QED BY <3>2, <3>4
  <2> QED BY <2>1, <2>2
<1>7. c[1] = s /\ c[Len(rt) + 1] = v
  <2>1. 1 \in 1 .. n + 1 /\ m + 1 \in 1 .. m + 1 /\ n + (m + 1) = Len(rt) + 1
    BY <1>3
  <2>2. c[1] = g[1] /\ c[n + (m + 1)] = h[m + 1]
    BY <1>4, <1>5, <2>1
  <2> QED BY <1>1, <1>2, <2>1, <2>2
<1>8. Leads(rt, s, v)
  BY <1>3, <1>6, <1>7 DEF Leads
<1> QED BY <1>8 DEF rt

LEMMA LeadsThen ==
    ASSUME NEW t, NEW s, NEW u, Leads(t, s, u), NEW task, Ready(task, u)
    PROVE  Leads(t \o <<task>>, s, Effect(task, u))
BY LeadsOne, LeadsConcat

LEMMA LeadsTail ==
    ASSUME NEW t, NEW s, NEW v, Leads(t, s, v), t # <<>>
    PROVE  Ready(Head(t), s) /\ Leads(Tail(t), Effect(Head(t), s), v)
<1> DEFINE m == Len(t)
           tt == Tail(t)
<1>1. PICK c : /\ c[1] = s /\ c[m + 1] = v
               /\ \A i \in 1 .. m : c[i + 1] = Effect(t[i], c[i]) /\ Ready(t[i], c[i])
  BY DEF Leads
<1> DEFINE d == [i \in 1 .. m |-> c[i + 1]]
<1>2. /\ m \in Nat /\ m >= 1 /\ Head(t) = t[1] /\ IsSeq(tt) /\ Len(tt) = m - 1
      /\ \A i \in 1 .. m - 1 : tt[i] = t[i + 1]
  BY NotEmpty, TailSeq DEF Leads
<1> HIDE DEF tt, m
<1>3. Ready(Head(t), s) /\ c[2] = Effect(Head(t), s)
  <2>1. 1 \in 1 .. m /\ 1 + 1 = 2
    BY <1>2
  <2> QED BY <1>1, <1>2, <2>1
<1>4. \A i \in 1 .. m : d[i] = c[i + 1]
  OBVIOUS
<1> HIDE DEF d
<1>5. d[1] = c[2] /\ d[Len(tt) + 1] = v
  <2>1. 1 \in 1 .. m /\ 1 + 1 = 2 /\ m \in 1 .. m /\ Len(tt) + 1 = m
    BY <1>2
  <2> QED BY <1>1, <1>4, <2>1
<1>6. ASSUME NEW i \in 1 .. Len(tt)
      PROVE  d[i + 1] = Effect(tt[i], d[i]) /\ Ready(tt[i], d[i])
  <2> DEFINE j == i + 1
  <2>1. i \in 1 .. m /\ i \in 1 .. m - 1 /\ j \in 1 .. m
    BY <1>2
  <2>2. tt[i] = t[j] /\ d[i] = c[j] /\ d[j] = c[j + 1]
    BY <1>2, <1>4, <2>1
  <2> HIDE DEF j
  <2>3. d[j] = Effect(tt[i], d[i]) /\ Ready(tt[i], d[i])
    BY <1>1, <2>1, <2>2
  <2> QED BY <2>3 DEF j
<1>7. Leads(tt, c[2], v)
  BY <1>2, <1>5, <1>6 DEF Leads
<1> QED BY <1>3, <1>7 DEF tt

(* Steps that do what their task is to do. *)
LEMMA Follows ==
    ASSUME NEW v, Leads(todo, bundle, v), todo # <<>>,
           Continue(Effect(Head(todo), bundle))
    PROVE  Leads(todo', bundle', v)
BY LeadsTail DEF Continue

(* Visits whose tasks leave what is generated for the tree. *)
LEMMA Enters ==
    ASSUME NEW v, Leads(todo, bundle, v), At("visit"), NEW tasks, NEW u, Enter(tasks, u),
           Leads(tasks, u, Append(bundle, Generated[Tree]))
    PROVE  Leads(todo', bundle', v)
<1> DEFINE ret == Task("return", [tree |-> Tree, below |-> bundle])
           w == Append(bundle, Generated[Tree])
<1>1. todo # <<>> /\ Effect(Head(todo), bundle) = w
  BY DEF At, Effect, Tree
<1>2. Leads(Tail(todo), w, v)
  BY <1>1, LeadsTail
<1>3. ret.op = "return" /\ ret.arg = [tree |-> Tree, below |-> bundle]
  BY Ops
<1>4. ret.arg.tree = Tree /\ ret.arg.below = bundle
  BY <1>3
<1>5. Ready(ret, w) /\ Effect(ret, w) = w
  BY <1>3, <1>4 DEF Ready, Effect
<1>6. todo' = (tasks \o <<ret>>) \o Tail(todo) /\ bundle' = u
  BY DEF Enter
<1> HIDE DEF ret, w
<1>7. Leads(tasks \o <<ret>>, u, w)
  <2>1. Leads(tasks, u, w)
    BY DEF w
  <2>2. Leads(tasks \o <<ret>>, u, Effect(ret, w))
    BY <1>5, <2>1, LeadsThen
  <2> QED BY <1>5, <2>2
<1>8. Leads((tasks \o <<ret>>) \o Tail(todo), u, v)
  BY <1>2, <1>7, LeadsConcat
<1> QED BY <1>6, <1>8

-----------------------------------------------------------------------------
(* The operations on what a visit left on top of s. *)
LEMMA PushOn ==
    ASSUME NEW s, IsSeq(s), NEW a, NEW b
    PROVE  /\ Push(Append(Append(s, a), b)) =
                 Append(s, IF IsBndl(a) THEN Bndl(Append(a.elems, b))
                           ELSE Msg(a.addr, a.items \o b.items))
           /\ Nip(Append(Append(s, a), b)) = Append(s, b)
<1> DEFINE u == Append(s, a)
           v == Append(u, b)
           n == Len(s)
<1>1. /\ n \in Nat /\ IsSeq(u) /\ Len(u) = n + 1 /\ u[n + 1] = a
      /\ \A i \in 1 .. n : u[i] = s[i]
  BY SeqType, AppendSeq
<1> HIDE DEF u
<1>2. /\ IsSeq(v) /\ Len(v) = n + 2 /\ Last(v) = b
      /\ \A i \in 1 .. n + 1 : v[i] = u[i]
  <2>1. /\ IsSeq(v) /\ Len(v) = Len(u) + 1 /\ Last(v) = b
        /\ \A i \in 1 .. Len(u) : v[i] = u[i]
    BY <1>1, AppendSeq, AppendRange
  <2> QED BY <1>1, <2>1
<1> HIDE DEF v, n
<1>3. FromTop(v, 1) = a
  <2>1. n + 1 \in 1 .. n + 1 /\ (n + 2) - 1 = n + 1
    BY <1>1
  <2> QED BY <1>1, <1>2, <2>1 DEF FromTop
<1>4. DropTop(v, 2) = s
  <2>1. 2 \in Nat /\ 2 <= Len(v) /\ Len(v) - 2 = n
    BY <1>1, <1>2
  <2>2. /\ IsSeq(DropTop(v, 2)) /\ Len(DropTop(v, 2)) = n
        /\ \A i \in 1 .. n : DropTop(v, 2)[i] = v[i]
    BY <1>2, <2>1, DropSeq
  <2>3. \A i \in 1 .. n : i \in 1 .. n + 1
    BY <1>1
  <2>4. \A i \in 1 .. n : DropTop(v, 2)[i] = s[i]
    BY <1>1, <1>2, <2>2, <2>3
  <2> QED BY <2>2, <2>4, SameSeq DEF n
<1>5. /\ Push(v) = Append(s, IF IsBndl(a) THEN Bndl(Append(a.elems, b))
                             ELSE Msg(a.addr, a.items \o b.items))
      /\ Nip(v) = Append(s, b)
  BY <1>2, <1>3, <1>4, Zenon DEF Push, Nip
<1> QED BY <1>5 DEF u, v

LEMMA StringOn ==
    ASSUME NEW s, IsSeq(s), NEW address, NEW items, NEW string
    PROVE  Push(PushString(Append(s, Msg(address, items)), string)) =
              Append(s, Msg(address, items \o <<Str(string)>>))
<1> DEFINE a == Msg(address, items)
           b == String(string)
<1>1. ~IsBndl(a) /\ a.addr = address /\ a.items = items
  BY MessageIs
<1>2. b.items = <<Str(string)>>
  BY MessageIs DEF String
<1>3. PushString(Append(s, a), string) = Append(Append(s, a), b)
  BY DEF PushString
<1> HIDE DEF a, b
<1>4. Push(Append(Append(s, a), b)) = Append(s, Msg(a.addr, a.items \o b.items))
  <2>1. Push(Append(Append(s, a), b)) =
           Append(s, IF IsBndl(a) THEN Bndl(Append(a.elems, b)) ELSE Msg(a.addr, a.items \o b.items))
    BY PushOn
  <2> QED BY <1>1, <2>1
<1> QED BY <1>1, <1>2, <1>3, <1>4, Zenon DEF a

LEMMA MoveOn ==
    ASSUME NEW s, IsSeq(s), NEW address, NEW items, IsSeq(items), NEW string
    PROVE  MoveStringToAddress(Append(s, Msg(address, items \o <<Str(string)>>))) =
              Append(s, Msg(string, items))
<1> DEFINE u == items \o <<Str(string)>>
           a == Msg(address, u)
<1>1. u = Append(items, Str(string))
  BY AppendIs
<1>2. Last(u) = Str(string) /\ Front(u) = items
  BY <1>1, AppendRange, Zenon
<1>3. Str(string).val = string
  BY DEF Str
<1> HIDE DEF u
<1>4. a.items = u
  BY MessageIs
<1> HIDE DEF a
<1>5. Last(Append(s, a)) = a /\ Front(Append(s, a)) = s
  BY AppendRange
<1>6. MoveStringToAddress(Append(s, a)) = Append(s, Msg(string, items))
  BY <1>2, <1>3, <1>4, <1>5, Zenon DEF MoveStringToAddress
<1> QED BY <1>6 DEF a, u

LEMMA BlobOn ==
    ASSUME NEW s, IsSeq(s), NEW e, NEW tt
    PROVE  ElemToBlob(Append(s, e), tt) = Append(s, Packed(e, tt))
BY AppendRange, Zenon DEF ElemToBlob

LEMMA PackedIs ==
    ASSUME NEW es, NEW tt
    PROVE  Packed(Bndl(es), tt) = Msg("", <<[tt |-> tt, elems |-> es]>>)
BY GroupIs DEF Packed

LEMMA UnbundleOn ==
    ASSUME NEW s, IsSeq(s), NEW e, Message(e) \/ Grouped(e)
    PROVE  Effect(Do("unbundle"), Append(s, e)) =
              Append(s, Msg(IF IsBndl(e) THEN "" ELSE e.addr, AsItems(e)))
<1>1. Do("unbundle").op = "unbundle"
  BY Ops
<1>2. Effect(Do("unbundle"), Append(s, e)) =
         IF IsBndl(e) THEN Append(s, Packed(e, "B")) ELSE Append(s, e)
  <2>1. Last(Append(s, e)) = e /\ ElemToBlob(Append(s, e), "B") = Append(s, Packed(e, "B"))
    BY AppendRange, BlobOn
  <2> QED BY <1>1, <2>1 DEF Effect
<1>3. CASE IsBndl(e)
  <2>1. e = Bndl(e.elems) /\ AsItems(e) = <<Bundle(e.elems)>>
    BY <1>3, ItemsAre DEF Grouped
  <2>2. Packed(e, "B") = Msg("", <<[tt |-> "B", elems |-> e.elems]>>)
    BY <2>1, PackedIs
  <2> QED BY <1>2, <1>3, <2>1, <2>2 DEF Bundle
<1>4. CASE ~IsBndl(e)
  <2>1. e = Msg(e.addr, e.items) /\ AsItems(e) = e.items
    BY <1>4, ItemsAre DEF Message
  <2> QED BY <1>2, <1>4, <2>1
<1> QED BY <1>3, <1>4

LEMMA ReadyIs ==
    ASSUME NEW task, task.op \notin {"return", "rest"}, NEW s
    PROVE  Ready(task, s)
BY DEF Ready

LEMMA VisitLeads ==
    ASSUME NEW tree, NEW s
    PROVE  /\ Leads(<<Visit(tree)>>, s, Append(s, Generated[tree]))
           /\ Effect(Visit(tree), s) = Append(s, Generated[tree])
           /\ Ready(Visit(tree), s)
<1> DEFINE task == Visit(tree)
<1>1. task.op = "visit" /\ task.arg = tree
  BY Ops
<1> HIDE DEF task
<1>2. Effect(task, s) = Append(s, Generated[tree]) /\ Ready(task, s)
  BY <1>1 DEF Effect, Ready
<1>3. Leads(<<task>>, s, Append(s, Generated[tree]))
  BY <1>2, LeadsOne
<1> QED BY <1>2, <1>3 DEF task

-----------------------------------------------------------------------------
(* The first k + 1 elements are the first k and one more. *)
LEMMA PrefixGrows ==
    ASSUME NEW s, IsSeq(s), NEW k \in Nat, k < Len(s)
    PROVE  SubSeq(s, 1, k + 1) = SubSeq(s, 1, k) \o <<s[k + 1]>> /\ IsSeq(SubSeq(s, 1, k))
<1> DEFINE a == SubSeq(s, 1, k)
           b == SubSeq(s, 1, k + 1)
           c == Append(a, s[k + 1])
<1>1. Len(s) \in Nat /\ k + 1 \in Int /\ k \in Int /\ 1 \in Int /\ k <= Len(s) /\ k + 1 <= Len(s)
  BY SeqType
<1>2. IsSeq(a) /\ Len(a) = k /\ \A i \in 1 .. k : a[i] = s[i]
  <2>1. /\ IsSeq(a) /\ Len(a) = IF 1 <= k THEN (k - 1) + 1 ELSE 0
        /\ \A i \in 1 .. (k - 1) + 1 : a[i] = s[(1 + i) - 1]
    BY <1>1, SubSeqRange
  <2> HIDE DEF a
  <2> QED BY <2>1
<1>3. IsSeq(b) /\ Len(b) = k + 1 /\ \A i \in 1 .. k + 1 : b[i] = s[i]
  <2>1. /\ IsSeq(b) /\ Len(b) = IF 1 <= k + 1 THEN ((k + 1) - 1) + 1 ELSE 0
        /\ \A i \in 1 .. ((k + 1) - 1) + 1 : b[i] = s[(1 + i) - 1]
    BY <1>1, SubSeqRange
  <2> HIDE DEF b
  <2> QED BY <2>1
<1> HIDE DEF a, b
<1>4. /\ IsSeq(c) /\ Len(c) = k + 1 /\ c[k + 1] = s[k + 1]
      /\ \A i \in 1 .. k : c[i] = a[i]
  BY <1>2, AppendSeq
<1>5. c = a \o <<s[k + 1]>>
  BY <1>2, AppendIs
<1> HIDE DEF c
<1>6. \A i \in 1 .. k + 1 : b[i] = c[i]
  <2>1. \A i \in 1 .. k + 1 : i \in 1 .. k \/ i = k + 1
    OBVIOUS
  <2> QED BY <2>1, <1>2, <1>3, <1>4
<1>7. b = c
  BY <1>3, <1>4, <1>6, SameSeq
<1> QED BY <1>2, <1>5, <1>7 DEF a, b

(* The visits of the parts of a tree leave what is generated for each. *)
LEMMA VisitsLead ==
    ASSUME NEW parts \in Seq(Syntax), NEW s, IsSeq(s)
    PROVE  Leads(Visits(parts), s, s \o Elems(parts))
<1> DEFINE es == Elems(parts)
           n == Len(parts)
           t == Visits(parts)
           c == [i \in 1 .. n + 1 |-> s \o SubSeq(es, 1, i - 1)]
<1>1. /\ IsSeq(es) /\ Len(es) = n /\ n \in Nat
      /\ \A i \in 1 .. n : es[i] = Generated[parts[i]]
  BY ElemsAre
<1>2. IsSeq(t) /\ Len(t) = n /\ \A i \in 1 .. n : t[i] = Visit(parts[i])
  <2>1. DOMAIN parts = 1 .. n
    BY LenProperties
  <2>2. DOMAIN t = 1 .. n /\ t = [i \in 1 .. n |-> t[i]] /\ \A i \in 1 .. n : t[i] = Visit(parts[i])
    BY <2>1 DEF Visits
  <2> HIDE DEF t, n
  <2> QED BY <1>1, <2>2, MappedSeq
<1> HIDE DEF es, n, t
<1>3. \A i \in 1 .. n + 1 : c[i] = s \o SubSeq(es, 1, i - 1)
  OBVIOUS
<1> HIDE DEF c
<1>4. c[1] = s
  <2>1. 1 \in 1 .. n + 1 /\ 1 - 1 = 0
    BY <1>1
  <2>2. SubSeq(es, 1, 0) = <<>>
    <3>1. 0 \in Int /\ 1 \in Int /\ 1 <= 1 /\ 0 <= Len(es)
      BY <1>1
    <3>2. IsSeq(SubSeq(es, 1, 0)) /\ Len(SubSeq(es, 1, 0)) = 0
      BY <1>1, <3>1, SubSeqRange
    <3> QED BY <3>2, EmptyIsSeq, SameSeq
  <2> QED BY <1>3, <2>1, <2>2, EmptyBehind
<1>5. c[n + 1] = s \o es
  <2>1. n + 1 \in 1 .. n + 1 /\ (n + 1) - 1 = n
    BY <1>1
  <2>2. SubSeq(es, 1, n) = es
    BY <1>1, SubSeqFull DEF IsSeq
  <2> QED BY <1>3, <2>1, <2>2
<1>6. ASSUME NEW i \in 1 .. n PROVE c[i + 1] = Effect(t[i], c[i]) /\ Ready(t[i], c[i])
  <2> DEFINE k == i - 1
             p == SubSeq(es, 1, k)
  <2>1. k \in Nat /\ k < Len(es) /\ k + 1 = i /\ i \in 1 .. n + 1 /\ i + 1 \in 1 .. n + 1
        /\ (i + 1) - 1 = i
    BY <1>1
  <2>2. c[i] = s \o p /\ c[i + 1] = s \o SubSeq(es, 1, k + 1)
    BY <1>3, <2>1
  <2> HIDE DEF k
  <2>3. SubSeq(es, 1, k + 1) = p \o <<es[k + 1]>> /\ IsSeq(p)
    BY <1>1, <2>1, PrefixGrows
  <2> HIDE DEF p
  <2>4. s \o (p \o <<es[i]>>) = (s \o p) \o <<es[i]>>
    BY <2>3, OneIsSeq, ConcatGroups
  <2>5. (s \o p) \o <<es[i]>> = Append(s \o p, es[i])
    BY <2>3, ConcatSeq, AppendIs
  <2>6. c[i + 1] = Append(c[i], Generated[parts[i]])
    BY <1>1, <2>1, <2>2, <2>3, <2>4, <2>5
  <2> QED BY <1>2, <2>6, VisitLeads
<1>7. Leads(t, s, s \o es)
  BY <1>2, <1>4, <1>5, <1>6 DEF Leads
<1> QED BY <1>7 DEF t, es

(* The items of the first of some parts, and those of the others. *)
LEMMA JoinParts ==
    ASSUME NEW parts \in Seq(Syntax), parts # <<>>
    PROVE  /\ Head(parts) \in Syntax /\ Tail(parts) \in Seq(Syntax)
           /\ parts[1] = Head(parts)
           /\ IsSeq(AsItems(Generated[Head(parts)])) /\ IsSeq(JoinItems(Elems(Tail(parts))))
           /\ JoinItems(Elems(parts)) =
                 AsItems(Generated[Head(parts)]) \o JoinItems(Elems(Tail(parts)))
<1> DEFINE es == Elems(parts)
           ts == Elems(Tail(parts))
           n == Len(parts)
<1>1. /\ Head(parts) \in Syntax /\ Tail(parts) \in Seq(Syntax) /\ Len(Tail(parts)) = n - 1
      /\ \A i \in 1 .. n - 1 : Tail(parts)[i] = parts[i + 1]
  BY HeadTailProperties
<1>2. /\ IsSeq(es) /\ Len(es) = n /\ n \in Nat /\ es # <<>>
      /\ \A i \in 1 .. n : parts[i] \in Syntax /\ es[i] = Generated[parts[i]]
  BY ElemsAre
<1>3. /\ IsSeq(ts) /\ Len(ts) = n - 1
      /\ \A i \in 1 .. n - 1 : ts[i] = Generated[Tail(parts)[i]]
  BY <1>1, ElemsAre
<1>4. n >= 1 /\ parts[1] = Head(parts)
  BY SeqIsSeq, NotEmpty
<1>5. \A i \in 1 .. n : IsSeq(AsItems(es[i]))
  BY PartsForm, <1>2, GeneratedForm
<1> HIDE DEF es, ts, n
<1>6. ts = Tail(es)
  <2>1. /\ IsSeq(Tail(es)) /\ Len(Tail(es)) = n - 1
        /\ \A i \in 1 .. n - 1 : Tail(es)[i] = es[i + 1]
    BY <1>2, TailSeq
  <2>2. \A i \in 1 .. n - 1 : i + 1 \in 1 .. n
    BY <1>2
  <2>3. \A i \in 1 .. n - 1 : ts[i] = Tail(es)[i]
    BY <1>1, <1>2, <1>3, <2>1, <2>2
  <2> QED BY <1>3, <2>1, <2>3, SameSeq
<1>7. /\ IsSeq(JoinItems(Tail(es)))
      /\ JoinItems(es) = AsItems(es[1]) \o JoinItems(Tail(es))
  BY <1>2, <1>5, JoinFirst
<1>8. 1 \in 1 .. n
  BY <1>2, <1>4
<1>9. es[1] = Generated[Head(parts)] /\ IsSeq(AsItems(es[1]))
  BY <1>2, <1>4, <1>5, <1>8
<1> QED BY <1>1, <1>4, <1>6, <1>7, <1>9 DEF es, ts

(* What the rest of a list does to the message of the elements before. *)
LEMMA RestOn ==
    ASSUME NEW s, IsSeq(s), NEW address, NEW items, IsSeq(items), NEW parts
    PROVE  LET task == Task("rest", parts)
               u == Append(s, Msg(address, items))
           IN  /\ Ready(task, u)
               /\ Effect(task, u) = Append(s, Msg(address, items \o JoinItems(Elems(parts))))
<1> DEFINE task == Task("rest", parts)
           m == Msg(address, items)
           u == Append(s, m)
<1>1. task.op = "rest" /\ task.arg = parts
  BY Ops
<1>2. Message(m) /\ m.addr = address /\ m.items = items
  BY MessageIs
<1> HIDE DEF m, task
<1>3. IsSeq(u) /\ u # <<>> /\ Last(u) = m /\ Front(u) = s
  BY AppendRange
<1> HIDE DEF u
<1>4. Ready(task, u)
  BY <1>1, <1>2, <1>3 DEF Ready
<1>5. Effect(task, u) =
         Append(Front(u), Msg(Last(u).addr, Last(u).items \o JoinItems(Elems(task.arg))))
  BY <1>1 DEF Effect
<1>6. Effect(task, u) = Append(s, Msg(address, items \o JoinItems(Elems(parts))))
  BY <1>1, <1>2, <1>3, <1>5, Zenon
<1> QED BY <1>4, <1>6 DEF task, u, m

(* A list is joined to its first element. *)
LEMMA ListLeads ==
    ASSUME NEW t \in Syntax, t.node = "list", t.parts # <<>>, NEW s, IsSeq(s)
    PROVE  Leads(ListTasks(t.parts), s, Append(s, Generated[t]))
<1> DEFINE h == Head(t.parts)
           e == Generated[h]
           address == IF IsBndl(e) THEN "" ELSE e.addr
           a == Visit(h)
           b == Do("unbundle")
           c == Task("rest", Tail(t.parts))
           join == JoinItems(Elems(Tail(t.parts)))
           t1 == <<a>>
           t2 == t1 \o <<b>>
           t3 == t2 \o <<c>>
<1>1. /\ t.parts \in Seq(Syntax) /\ h \in Syntax /\ t.parts[1] = h
      /\ IsSeq(AsItems(e))
      /\ JoinItems(Elems(t.parts)) = AsItems(e) \o join
  BY SyntaxAssumption, JoinParts
<1>2. Message(e) \/ Grouped(e)
  BY <1>1, GeneratedForm DEF Form
<1>3. Generated[t] = Msg(address, AsItems(e) \o join)
  <2>1. Generated[t] = Msg(IF t.parts = <<>> \/ IsBndl(Generated[t.parts[1]]) THEN ""
                           ELSE Generated[t.parts[1]].addr, JoinItems(Elems(t.parts)))
    BY Made
  <2> HIDE DEF h, join
  <2> QED BY <1>1, <2>1
<1>4. Leads(t1, s, Append(s, e))
  BY VisitLeads
<1>5. Effect(b, Append(s, e)) = Append(s, Msg(address, AsItems(e)))
  BY <1>2, UnbundleOn
<1>6. Ready(b, Append(s, e))
  BY ReadyIs, Ops
<1>7. LET u == Append(s, Msg(address, AsItems(e)))
      IN  Ready(c, u) /\ Effect(c, u) = Append(s, Msg(address, AsItems(e) \o join))
  <2> DEFINE items == AsItems(e)
             rest == Tail(t.parts)
  <2>1. IsSeq(items)
    BY <1>1
  <2> HIDE DEF items, address, rest
  <2>2. LET u == Append(s, Msg(address, items))
        IN  /\ Ready(Task("rest", rest), u)
            /\ Effect(Task("rest", rest), u) = Append(s, Msg(address, items \o JoinItems(Elems(rest))))
    BY <2>1, RestOn
  <2> QED BY <2>2 DEF items, rest
<1> HIDE DEF h, e, address, a, b, c, join, t1
<1>8. Leads(t2, s, Append(s, Msg(address, AsItems(e))))
  BY <1>4, <1>5, <1>6, LeadsThen
<1> HIDE DEF t2
<1>9. Leads(t3, s, Append(s, Generated[t]))
  BY <1>3, <1>7, <1>8, LeadsThen
<1>10. t3 = <<a, b, c>>
  <2>1. <<a, b, c>> = (<<a>> \o <<b>>) \o <<c>>
    BY ThreeIs
  <2> QED BY <2>1, Zenon DEF t1, t2
<1>11. Leads(<<a, b, c>>, s, Append(s, Generated[t]))
  BY <1>9, <1>10, Zenon
<1> QED BY <1>11 DEF ListTasks, a, b, c, h

(* A turn of the loop does what the loop is to do. *)
LEMMA RestLeads ==
    ASSUME NEW parts \in Seq(Syntax), NEW s, IsSeq(s), s # <<>>, Message(Last(s))
    PROVE  Leads(RestTasks(parts), s, Effect(Task("rest", parts), s))
<1> DEFINE f == Front(s)
           address == Last(s).addr
           items == Last(s).items
<1>1. IsSeq(f) /\ IsSeq(items) /\ s = Append(f, Msg(address, items))
  BY FrontRange DEF Message
<1> HIDE DEF f, address, items
<1>2. Effect(Task("rest", parts), s) =
         Append(f, Msg(address, items \o JoinItems(Elems(parts))))
  BY <1>1, RestOn
<1>3. CASE parts = <<>>
  <2>1. Elems(parts) = <<>>
    BY <1>3, ElemsAre
  <2>2. items \o JoinItems(Elems(parts)) = items
    BY <1>1, <2>1, JoinNone, EmptyBehind
  <2>3. Effect(Task("rest", parts), s) = s
    BY <1>1, <1>2, <2>2, Zenon
  <2> QED BY <1>3, <2>3, LeadsNone DEF RestTasks
<1>4. CASE parts # <<>>
  <2> DEFINE h == Head(parts)
             e == Generated[h]
             m == Msg(IF IsBndl(e) THEN "" ELSE e.addr, AsItems(e))
             a == Visit(h)
             b == Do("unbundle")
             c == Do("push")
             d == Task("rest", Tail(parts))
             join == JoinItems(Elems(Tail(parts)))
             t1 == <<a>>
             t2 == t1 \o <<b>>
             t3 == t2 \o <<c>>
             t4 == t3 \o <<d>>
  <2>1. /\ h \in Syntax /\ IsSeq(AsItems(e)) /\ IsSeq(join)
        /\ JoinItems(Elems(parts)) = AsItems(e) \o join
    BY <1>4, JoinParts
  <2>2. Message(e) \/ Grouped(e)
    BY <2>1, GeneratedForm DEF Form
  <2>3. m.items = AsItems(e)
    BY MessageIs
  <2>4. Leads(t1, s, Append(s, e))
    BY VisitLeads
  <2>5. Effect(b, Append(s, e)) = Append(s, m) /\ Ready(b, Append(s, e))
    BY <2>2, UnbundleOn, ReadyIs, Ops
  <2>6. /\ Effect(c, Append(s, m)) = Append(f, Msg(address, items \o AsItems(e)))
        /\ Ready(c, Append(s, m))
    <3> DEFINE top == Msg(address, items)
    <3>1. ~IsBndl(top) /\ top.addr = address /\ top.items = items
      BY MessageIs
    <3> HIDE DEF m, top
    <3>2. Push(Append(Append(f, top), m)) =
             Append(f, IF IsBndl(top) THEN Bndl(Append(top.elems, m))
                       ELSE Msg(top.addr, top.items \o m.items))
      BY <1>1, PushOn
    <3>3. c.op = "push"
      BY Ops
    <3>4. Effect(c, Append(s, m)) = Push(Append(s, m))
      BY <3>3 DEF Effect
    <3>5. s = Append(f, top)
      BY <1>1 DEF top
    <3>6. Ready(c, Append(s, m))
      BY <3>3, ReadyIs
    <3> QED BY <2>3, <3>1, <3>2, <3>4, <3>5, <3>6
  <2>7. IsSeq(items \o AsItems(e))
    BY <1>1, <2>1, ConcatSeq
  <2>8. LET u == Append(f, Msg(address, items \o AsItems(e)))
        IN  /\ Ready(d, u)
            /\ Effect(d, u) = Append(f, Msg(address, (items \o AsItems(e)) \o join))
    <3> DEFINE i2 == items \o AsItems(e)
    <3>1. IsSeq(i2)
      BY <2>7
    <3> HIDE DEF i2
    <3>2. LET u == Append(f, Msg(address, i2))
          IN  Ready(d, u) /\ Effect(d, u) = Append(f, Msg(address, i2 \o join))
      BY <1>1, <3>1, RestOn
    <3> QED BY <3>2 DEF i2
  <2>9. (items \o AsItems(e)) \o join = items \o JoinItems(Elems(parts))
    BY <1>1, <2>1, ConcatGroups
  <2> HIDE DEF h, e, m, a, b, c, d, join, t1
  <2>10. Leads(t2, s, Append(s, m))
    BY <2>4, <2>5, LeadsThen
  <2> HIDE DEF t2
  <2>11. Leads(t3, s, Append(f, Msg(address, items \o AsItems(e))))
    BY <2>6, <2>10, LeadsThen
  <2> HIDE DEF t3
  <2>12. Leads(t4, s, Effect(Task("rest", parts), s))
    BY <1>2, <2>8, <2>9, <2>11, LeadsThen
  <2>13. t4 = <<a, b, c, d>>
    <3>1. <<a, b, c, d>> = ((<<a>> \o <<b>>) \o <<c>>) \o <<d>>
      BY FourIs
    <3> QED BY <3>1, Zenon DEF t1, t2, t3
  <2>14. Leads(<<a, b, c, d>>, s, Effect(Task("rest", parts), s))
    BY <2>12, <2>13, Zenon
  <2> QED BY <1>4, <2>14 DEF RestTasks, a, b, c, d, h
<1> QED BY <1>3, <1>4

(* The element behind a name takes the name as its address. *)
LEMMA BindLeads ==
    ASSUME NEW t \in Syntax, t.node = "bind", t.parts # <<>>, NEW s, IsSeq(s)
    PROVE  Leads(Visits(t.parts) \o <<Do("unbundle"), Task("name", t.text)>>,
                 s, Append(s, Generated[t]))
<1> DEFINE e == Generated[t.parts[1]]
           address == IF IsBndl(e) THEN "" ELSE e.addr
           a == Do("unbundle")
           b == Task("name", t.text)
           t1 == Visits(t.parts)
           t2 == t1 \o <<a>>
           t3 == t2 \o <<b>>
           items == AsItems(e)
           name == t.text
<1>1. t.parts \in Seq(Syntax) /\ Len(t.parts) = 1
  <2> DEFINE m == Len(t.parts)
  <2>1. t.parts \in Seq(Syntax) /\ m <= 1
    BY SyntaxAssumption
  <2>2. m \in Nat /\ m >= 1
    BY <2>1, SeqIsSeq, NotEmpty
  <2> HIDE DEF m
  <2>3. m = 1
    BY <2>1, <2>2
  <2> QED BY <2>1, <2>3 DEF m
<1>2. /\ t.parts[1] \in Syntax /\ IsSeq(Elems(t.parts)) /\ Len(Elems(t.parts)) = 1
      /\ Elems(t.parts)[1] = e
  BY <1>1, ElemsAre
<1>3. Message(e) \/ Grouped(e)
  BY <1>2, GeneratedForm DEF Form
<1>4. Generated[t] = Msg(name, items)
  BY Made
<1>5. Leads(t1, s, Append(s, e)) /\ IsSeq(t1)
  <2>1. Leads(t1, s, s \o Elems(t.parts))
    BY <1>1, VisitsLead
  <2>2. Elems(t.parts) = <<e>>
    <3> DEFINE es == Elems(t.parts)
    <3>1. IsSeq(es) /\ Len(es) = 1 /\ es[1] = e
      BY <1>2
    <3> DEFINE one == <<e>>
    <3>2. IsSeq(one) /\ Len(one) = 1 /\ one[1] = e
      BY OneIsSeq
    <3> HIDE DEF es, e, one
    <3>3. \A i \in 1 .. Len(es) : es[i] = one[i]
      BY <3>1, <3>2
    <3>4. es = one
      BY <3>1, <3>2, <3>3, SameSeq
    <3> QED BY <3>4 DEF es, one
  <2>3. s \o <<e>> = Append(s, e)
    BY AppendIs
  <2> QED BY <2>1, <2>2, <2>3 DEF Leads
<1>6. Effect(a, Append(s, e)) = Append(s, Msg(address, items)) /\ Ready(a, Append(s, e))
  BY <1>3, UnbundleOn, ReadyIs, Ops
<1>7. IsSeq(items)
  BY <1>3, ItemsAre
<1>8. /\ Effect(b, Append(s, Msg(address, items))) = Append(s, Msg(name, items))
      /\ Ready(b, Append(s, Msg(address, items)))
  <2> HIDE DEF address, items, name
  <2>1. b.op = "name" /\ b.arg = name
    BY Ops DEF name
  <2> HIDE DEF b
  <2> DEFINE u == Append(s, Msg(address, items))
  <2>2. Effect(b, u) = MoveStringToAddress(Push(PushString(u, name)))
    BY <2>1 DEF Effect
  <2>3. Push(PushString(u, name)) = Append(s, Msg(address, items \o <<Str(name)>>))
    <3>1. \A x, y, z : Push(PushString(Append(s, Msg(x, y)), z)) = Append(s, Msg(x, y \o <<Str(z)>>))
      BY StringOn
    <3> QED BY <3>1
  <2>4. MoveStringToAddress(Append(s, Msg(address, items \o <<Str(name)>>)))
           = Append(s, Msg(name, items))
    BY <1>7, MoveOn
  <2>5. Ready(b, u)
    BY <2>1, ReadyIs
  <2> QED BY <2>2, <2>3, <2>4, <2>5
<1> HIDE DEF e, address, items, name, a, b, t1
<1>9. Leads(t2, s, Append(s, Msg(address, items)))
  BY <1>5, <1>6, LeadsThen
<1> HIDE DEF t2
<1>10. Leads(t3, s, Append(s, Generated[t]))
  BY <1>4, <1>8, <1>9, LeadsThen
<1>11. t3 = t1 \o <<a, b>>
  BY <1>5, TwoBehind DEF t2
<1>12. Leads(t1 \o <<a, b>>, s, Append(s, Generated[t]))
  BY <1>10, <1>11, Zenon
<1> QED BY <1>12 DEF t1, a, b

(* The elements of a bundle stand behind it, and its end puts them into it. *)
LEMMA BundleLeads ==
    ASSUME NEW parts \in Seq(Syntax), NEW s, IsSeq(s)
    PROVE  Leads(Visits(parts) \o <<Task("end", Len(s) + 1)>>,
                 Append(s, Bndl(<<>>)), Append(s, Bndl(Elems(parts))))
<1> DEFINE n == Len(s)
           es == Elems(parts)
           m == Len(es)
           u == Append(s, Bndl(<<>>))
           v == u \o es
           end == Task("end", n + 1)
           t == Visits(parts)
<1>1. IsSeq(es) /\ m \in Nat /\ n \in Nat
  BY ElemsAre, SeqType
<1>2. /\ IsSeq(u) /\ Len(u) = n + 1 /\ u[n + 1] = Bndl(<<>>)
      /\ \A i \in 1 .. n : u[i] = s[i]
  BY AppendSeq
<1>3. Leads(t, u, v)
  BY <1>2, VisitsLead
<1> HIDE DEF u, es
<1>4. /\ IsSeq(v) /\ Len(v) = n + 1 + m
      /\ \A i \in 1 .. n + 1 : v[i] = u[i]
      /\ \A i \in 1 .. m : v[n + 1 + i] = es[i]
  BY <1>1, <1>2, ConcatSeq
<1> HIDE DEF v, m, n
<1>5. v[n + 1] = Bndl(<<>>) /\ v[n + 1].elems = <<>>
  <2>1. n + 1 \in 1 .. n + 1
    BY <1>1
  <2> QED BY <1>2, <1>4, <2>1, GroupIs
<1>6. SubSeq(v, 1, n) = s
  <2>1. /\ n \in Int /\ 1 \in Int /\ 1 <= 1 /\ n <= Len(v) /\ (n - 1) + 1 = n
        /\ (IF 1 <= n THEN (n - 1) + 1 ELSE 0) = n
    BY <1>1, <1>4
  <2>2. /\ IsSeq(SubSeq(v, 1, n)) /\ Len(SubSeq(v, 1, n)) = n
        /\ \A i \in 1 .. n : SubSeq(v, 1, n)[i] = v[(1 + i) - 1]
    BY <1>4, <2>1, SubSeqRange
  <2>3. \A i \in 1 .. n : (1 + i) - 1 = i /\ i \in 1 .. n + 1
    BY <1>1
  <2>4. \A i \in 1 .. n : SubSeq(v, 1, n)[i] = s[i]
    BY <1>2, <1>4, <2>2, <2>3
  <2> QED BY <2>2, <2>4, SameSeq DEF n
<1>7. SubSeq(v, n + 2, Len(v)) = es
  <2> DEFINE k == Len(v)
  <2>1. /\ n + 2 \in Int /\ k \in Int /\ 1 <= n + 2 /\ k <= Len(v) /\ (k - (n + 2)) + 1 = m
        /\ (IF n + 2 <= k THEN (k - (n + 2)) + 1 ELSE 0) = m
    BY <1>1, <1>4
  <2> HIDE DEF k
  <2>2. /\ IsSeq(SubSeq(v, n + 2, k)) /\ Len(SubSeq(v, n + 2, k)) = m
        /\ \A i \in 1 .. m : SubSeq(v, n + 2, k)[i] = v[((n + 2) + i) - 1]
    BY <1>4, <2>1, SubSeqRange
  <2>3. \A i \in 1 .. m : ((n + 2) + i) - 1 = n + 1 + i
    BY <1>1
  <2>4. \A i \in 1 .. m : SubSeq(v, n + 2, k)[i] = es[i]
    BY <1>4, <2>2, <2>3
  <2>5. SubSeq(v, n + 2, k) = es
    BY <1>1, <2>2, <2>4, SameSeq DEF m
  <2> QED BY <2>5 DEF k
<1>8. Effect(end, v) = Append(s, Bndl(es)) /\ Ready(end, v)
  <2>1. end.op = "end" /\ end.arg = n + 1
    BY Ops
  <2> HIDE DEF end
  <2>2. Effect(end, v) = Append(SubSeq(v, 1, (n + 1) - 1),
                                Bndl(v[n + 1].elems \o SubSeq(v, (n + 1) + 1, Len(v))))
    BY <2>1 DEF Effect
  <2>3. (n + 1) - 1 = n /\ (n + 1) + 1 = n + 2
    BY <1>1
  <2>4. <<>> \o es = es
    BY <1>1, EmptyBehind
  <2>5. Effect(end, v) = Append(s, Bndl(es))
    BY <1>5, <1>6, <1>7, <2>2, <2>3, <2>4
  <2> QED BY <2>1, <2>5, ReadyIs
<1> HIDE DEF end, t
<1>9. Leads(t \o <<end>>, u, Append(s, Bndl(es)))
  BY <1>3, <1>8, LeadsThen
<1> QED BY <1>9 DEF t, end, u, es, n

(* Lazy bundles become blobs, and that of a whole text is in another one.  *)
LEMMA BundlesLead ==
    ASSUME NEW t \in Syntax, NEW s, IsSeq(s)
    PROVE  LET tasks == Visits(t.parts) \o <<Task("end", Len(s) + 1)>>
               u == Append(s, Bndl(<<>>))
           IN  /\ t.node = "lazy" => Leads(tasks \o <<Do("blob")>>, u, Append(s, Generated[t]))
               /\ t.node = "eager" => Leads(tasks \o <<>>, u, Append(s, Generated[t]))
               /\ t.node = "top" => Leads(tasks \o <<Do("wrap")>>, u, Append(s, Generated[t]))
<1> DEFINE tasks == Visits(t.parts) \o <<Task("end", Len(s) + 1)>>
           u == Append(s, Bndl(<<>>))
           es == Elems(t.parts)
           e == Bndl(es)
           v == Append(s, e)
<1>1. Leads(tasks, u, v)
  BY SyntaxAssumption, BundleLeads
<1>2. /\ t.node = "lazy" => Generated[t] = Msg("", <<[tt |-> "b", elems |-> es]>>)
      /\ t.node = "eager" => Generated[t] = e
      /\ t.node = "top" => Generated[t] = Bndl(<<e>>)
  BY Made DEF Blob
<1> HIDE DEF tasks, u, es
<1>3. Leads(tasks \o <<>>, u, v)
  BY <1>1, EmptyBehind DEF Leads
<1>4. Leads(tasks \o <<Do("blob")>>, u, Append(s, Msg("", <<[tt |-> "b", elems |-> es]>>)))
  <2> DEFINE task == Do("blob")
  <2>1. task.op = "blob"
    BY Ops
  <2> HIDE DEF task
  <2>2. Effect(task, v) = Append(s, Msg("", <<[tt |-> "b", elems |-> es]>>))
    <3>1. Effect(task, v) = ElemToBlob(v, "b")
      BY <2>1 DEF Effect
    <3>2. ElemToBlob(v, "b") = Append(s, Packed(e, "b"))
      BY BlobOn
    <3> QED BY <3>1, <3>2, PackedIs
  <2>3. Ready(task, v)
    BY <2>1, ReadyIs
  <2> HIDE DEF v
  <2>4. Leads(tasks \o <<task>>, u, Effect(task, v))
    BY <1>1, <2>3, LeadsThen
  <2> QED BY <2>2, <2>4 DEF task
<1>5. Leads(tasks \o <<Do("wrap")>>, u, Append(s, Bndl(<<e>>)))
  <2> DEFINE task == Do("wrap")
             empty == Bndl(<<>>)
  <2>1. task.op = "wrap"
    BY Ops
  <2> HIDE DEF task
  <2>2. IsSeq(v) /\ Last(v) = e /\ Front(v) = s
    BY AppendRange
  <2> HIDE DEF v, e
  <2>3. Effect(task, v) = Push(Append(s, empty) \o <<e>>)
    <3>1. Effect(task, v) = Push(Append(Front(v), empty) \o <<Last(v)>>)
      BY <2>1 DEF Effect
    <3> QED BY <2>2, <3>1
  <2>4. Append(s, empty) \o <<e>> = Append(Append(s, empty), e)
    BY AppendSeq, AppendIs
  <2>5. IsBndl(empty) /\ empty.elems = <<>> /\ Append(<<>>, e) = <<e>>
    <3>1. Append(<<>>, e) = <<>> \o <<e>>
      BY EmptyIsSeq, AppendIs
    <3>2. <<>> \o <<e>> = <<e>>
      BY OneIsSeq, EmptyBehind
    <3> QED BY <3>1, <3>2, GroupIs
  <2> HIDE DEF empty
  <2>6. Push(Append(Append(s, empty), e)) = Append(s, Bndl(<<e>>))
    <3>1. Push(Append(Append(s, empty), e)) =
             Append(s, IF IsBndl(empty) THEN Bndl(Append(empty.elems, e))
                       ELSE Msg(empty.addr, empty.items \o e.items))
      BY PushOn
    <3> QED BY <2>5, <3>1
  <2>7. Ready(task, v)
    BY <2>1, ReadyIs
  <2>8. Leads(tasks \o <<task>>, u, Effect(task, v))
    BY <1>1, <2>7, LeadsThen
  <2> QED BY <2>3, <2>4, <2>6, <2>8 DEF task
<1> HIDE DEF e, v
<1>6. /\ t.node = "lazy" => Leads(tasks \o <<Do("blob")>>, u, Append(s, Generated[t]))
      /\ t.node = "eager" => Leads(tasks \o <<>>, u, Append(s, Generated[t]))
      /\ t.node = "top" => Leads(tasks \o <<Do("wrap")>>, u, Append(s, Generated[t]))
  BY <1>2, <1>3, <1>4, <1>5 DEF v
<1> QED BY <1>6 DEF tasks, u

(* The arguments of a call, whichever they are, are one message. *)
LEMMA ArgsLead ==
    ASSUME NEW args \in Syntax, args.node \in {"lookup", "eager", "lazy"}, NEW s, IsSeq(s)
    PROVE  LET e == IF args.node = "lazy" THEN Msg("", <<[tt |-> "B", elem |-> Generated[args]]>>)
                    ELSE Generated[args]
           IN  IsSeq(AsItems(e)) /\ Leads(ArgsTasks(args), s, Append(s, Msg("", AsItems(e))))
<1> DEFINE g == Generated[args]
           lazy == Msg("", <<[tt |-> "B", elem |-> g]>>)
           thunk == Do("thunk")
           v == Append(s, g)
<1>1. Leads(<<Visit(args)>>, s, v)
  BY VisitLeads
<1>2. Form(args)
  BY GeneratedForm
<1>3. Leads(<<Visit(args)>> \o <<thunk>>, s, Append(s, Packed(g, "B")))
  <2>1. thunk.op = "thunk"
    BY Ops
  <2> HIDE DEF thunk
  <2>2. Effect(thunk, v) = Append(s, Packed(g, "B")) /\ Ready(thunk, v)
    BY <2>1, BlobOn, ReadyIs DEF Effect
  <2> QED BY <1>1, <2>2, LeadsThen
<1>4. CASE args.node = "lookup"
  <2>1. Message(g) /\ g.addr = ""
    BY <1>2, <1>4 DEF Form, Nameless, MessageNodes
  <2> HIDE DEF g
  <2>2. IsSeq(AsItems(g)) /\ g = Msg("", AsItems(g))
    <3>1. ~Grouped(g) /\ AsItems(g) = g.items
      <4>1. ~IsBndl(Msg(g.addr, g.items)) /\ AsItems(Msg(g.addr, g.items)) = g.items
        BY MessageIs
      <4> QED BY <2>1, <4>1, ItemsAre DEF Message
    <3> QED BY <2>1, <3>1 DEF Message
  <2>3. ArgsTasks(args) = <<Visit(args)>>
    BY <1>4, OneIsSeq, EmptyBehind DEF ArgsTasks
  <2>4. Leads(ArgsTasks(args), s, Append(s, Msg("", AsItems(g))))
    BY <1>1, <2>2, <2>3
  <2> QED BY <1>4, <2>2, <2>4 DEF g
<1>5. CASE args.node = "eager"
  <2>1. g = Bndl(Elems(args.parts))
    BY <1>5, Made
  <2> HIDE DEF g
  <2>2. /\ Packed(g, "B") = Msg("", <<[tt |-> "B", elems |-> Elems(args.parts)]>>)
        /\ AsItems(g) = <<[tt |-> "B", elems |-> Elems(args.parts)]>>
    BY <2>1, PackedIs, GroupIs DEF Bundle
  <2>3. IsSeq(AsItems(g)) /\ Packed(g, "B") = Msg("", AsItems(g))
    BY <2>2, OneIsSeq
  <2>4. Leads(ArgsTasks(args), s, Append(s, Msg("", AsItems(g))))
    BY <1>3, <1>5, <2>3 DEF ArgsTasks
  <2> QED BY <1>5, <2>3, <2>4 DEF g
<1>6. CASE args.node = "lazy"
  <2>1. Message(g)
    BY <1>2, <1>6 DEF Form, Nameless, MessageNodes
  <2> HIDE DEF g
  <2>2. ~IsBndl(g)
    BY <2>1, MessageIs DEF Message
  <2>3. Packed(g, "B") = lazy
    BY <2>2 DEF Packed
  <2>4. AsItems(lazy) = <<[tt |-> "B", elem |-> g]>> /\ lazy = Msg("", AsItems(lazy))
    BY MessageIs
  <2>5. IsSeq(AsItems(lazy))
    BY <2>4, OneIsSeq
  <2> HIDE DEF lazy
  <2>6. Leads(ArgsTasks(args), s, Append(s, Msg("", AsItems(lazy))))
    BY <1>3, <1>6, <2>3, <2>4 DEF ArgsTasks
  <2> QED BY <1>6, <2>5, <2>6 DEF g, lazy
<1> QED BY <1>4, <1>5, <1>6

LEMMA FuncallLeads ==
    ASSUME NEW t \in Syntax, t.node = "funcall", NEW s, IsSeq(s)
    PROVE  Leads(ArgsTasks(t.parts[1]) \o <<Visit(t.parts[2]), Do("apply"), Do("push")>>,
                 s, Append(s, Generated[t]))
<1> DEFINE args == t.parts[1]
           fn == t.parts[2]
           arg == IF args.node = "lazy" THEN Msg("", <<[tt |-> "B", elem |-> Generated[args]]>>)
                  ELSE Generated[args]
           items == AsItems(arg)
           m == Msg("", items)
           g == Generated[fn]
           call == <<Str("/!/o/apply")>>
           t1 == ArgsTasks(args)
           a == Visit(fn)
           b == Do("apply")
           c == Do("push")
           t2 == t1 \o <<a>>
           t3 == t2 \o <<b>>
           t4 == t3 \o <<c>>
           u == Append(s, m)
<1>1. /\ args \in Syntax /\ args.node \in {"lookup", "eager", "lazy"}
      /\ fn \in Syntax /\ fn.node \in Nameless
  <2>1. /\ t.parts \in Seq(Syntax) /\ Len(t.parts) = 2
        /\ args.node \in {"lookup", "eager", "lazy"} /\ fn.node \in Nameless
    BY SyntaxAssumption DEF Nameless
  <2>2. 1 \in 1 .. Len(t.parts) /\ 2 \in 1 .. Len(t.parts)
    BY <2>1
  <2> QED BY <2>1, <2>2, ElementOfSeq
<1>2. g = Msg(g.addr, g.items) /\ IsSeq(g.items)
  BY <1>1, GeneratedForm DEF Form, Message, MessageNodes
<1>3. Generated[t] = Msg("", (items \o g.items) \o call)
  BY Made
<1>4. IsSeq(items) /\ Leads(t1, s, u) /\ IsSeq(t1)
  <2>1. IsSeq(items) /\ Leads(t1, s, u)
    <3> HIDE DEF args
    <3> QED BY <1>1, ArgsLead
  <2> QED BY <2>1 DEF Leads
<1>5. /\ Effect(a, u) = Append(u, g) /\ Ready(a, u)
  BY VisitLeads
<1>6. IsSeq(u)
  BY AppendSeq
<1>7. b.op = "apply" /\ c.op = "push"
  BY Ops
<1>8. ~IsBndl(m) /\ m.addr = "" /\ m.items = items
  <2> HIDE DEF items
  <2> QED BY MessageIs
<1>9. IsSeq(call)
  BY OneIsSeq
<1> DEFINE m2 == Msg(g.addr, g.items \o call)
<1>10. m2.items = g.items \o call
  BY MessageIs
<1> HIDE DEF items, g, t1, a, b, c
<1>11. /\ Effect(b, Append(u, g)) = Append(u, m2)
       /\ Ready(b, Append(u, g))
  <2> HIDE DEF u
  <2>1. \A x, y, z : Push(PushString(Append(u, Msg(x, y)), z)) = Append(u, Msg(x, y \o <<Str(z)>>))
    BY <1>6, StringOn
  <2>2. Push(PushString(Append(u, g), "/!/o/apply")) = Append(u, m2)
    <3>1. Push(PushString(Append(u, Msg(g.addr, g.items)), "/!/o/apply")) =
             Append(u, Msg(g.addr, g.items \o <<Str("/!/o/apply")>>))
      BY <2>1
    <3> QED BY <1>2, <3>1
  <2> HIDE DEF m2, call
  <2> QED BY <1>7, <2>2, ReadyIs DEF Effect
<1> HIDE DEF call, m, m2
<1>12. /\ Effect(c, Append(u, m2)) = Append(s, Msg("", items \o (g.items \o call)))
       /\ Ready(c, Append(u, m2))
  <2>1. Push(Append(Append(s, m), m2)) =
           Append(s, IF IsBndl(m) THEN Bndl(Append(m.elems, m2)) ELSE Msg(m.addr, m.items \o m2.items))
    BY PushOn
  <2>2. Effect(c, Append(u, m2)) = Push(Append(u, m2))
    BY <1>7 DEF Effect
  <2>3. Ready(c, Append(u, m2))
    BY <1>7, ReadyIs
  <2> QED BY <1>8, <1>10, <2>1, <2>2, <2>3
<1>13. (items \o g.items) \o call = items \o (g.items \o call)
  <2> DEFINE fnItems == g.items
  <2>1. IsSeq(fnItems)
    BY <1>2
  <2> HIDE DEF fnItems
  <2>2. (items \o fnItems) \o call = items \o (fnItems \o call)
    BY <2>1, <1>4, <1>9, ConcatGroups
  <2> QED BY <2>2 DEF fnItems
<1> HIDE DEF u
<1>14. Leads(t2, s, Append(u, g))
  BY <1>4, <1>5, LeadsThen
<1> HIDE DEF t2
<1>15. Leads(t3, s, Append(u, m2))
  BY <1>11, <1>14, LeadsThen
<1> HIDE DEF t3
<1>16. Leads(t4, s, Append(s, Generated[t]))
  BY <1>3, <1>12, <1>13, <1>15, LeadsThen
<1>17. t4 = t1 \o <<a, b, c>>
  <2>1. t1 \o <<a, b, c>> = ((t1 \o <<a>>) \o <<b>>) \o <<c>>
    BY <1>4, ThreeBehind
  <2> QED BY <2>1, Zenon DEF t2, t3
<1>18. Leads(t1 \o <<a, b, c>>, s, Append(s, Generated[t]))
  BY <1>16, <1>17, Zenon
<1> QED BY <1>18 DEF t1, a, b, c

-----------------------------------------------------------------------------
(* Every step leaves tasks that lead to the same stack. *)
LEMMA ContinueLeads ==
    ASSUME NEW v, Leads(todo, bundle, v),
           NameRhs \/ Unbundle \/ EndBundle \/ Blobbed \/ Wrap \/ Thunk \/ ApplyFn \/ PushTop
              \/ Return \/ DropText
    PROVE  Leads(todo', bundle', v)
<1> SUFFICES todo # <<>> /\ Continue(Effect(Head(todo), bundle))
  BY Follows
<1>1. CASE NameRhs
  BY <1>1 DEF NameRhs, At, Effect
<1>2. CASE Unbundle
  BY <1>2 DEF Unbundle, At, Effect
<1>3. CASE EndBundle
  BY <1>3 DEF EndBundle, At, Effect
<1>4. CASE Blobbed
  BY <1>4 DEF Blobbed, At, Effect
<1>5. CASE Wrap
  BY <1>5 DEF Wrap, At, Effect
<1>6. CASE Thunk
  BY <1>6 DEF Thunk, At, Effect
<1>7. CASE ApplyFn
  BY <1>7 DEF ApplyFn, At, Effect
<1>8. CASE PushTop
  BY <1>8 DEF PushTop, At, Effect
<1>9. CASE Return
  BY <1>9 DEF Return, At, Effect
<1>10. CASE DropText
  BY <1>10 DEF DropText, At, Effect
<1> QED BY <1>1, <1>2, <1>3, <1>4, <1>5, <1>6, <1>7, <1>8, <1>9, <1>10

(* Visits that only leave their element. *)
LEMMA LeafLeads ==
    ASSUME Inv, NEW v, Leads(todo, bundle, v), At("visit"),
           Enter(<<>>, Append(bundle, Generated[Tree]))
    PROVE  Leads(todo', bundle', v)
BY LeadsNone, Enters

LEMMA LookupLeads ==
    ASSUME Inv, NEW v, Leads(todo, bundle, v), LookupElem PROVE Leads(todo', bundle', v)
<1> DEFINE name == Tree.text
<1>1. At("visit") /\ Tree.node = "lookup" /\ Enter(<<>>, Lookup(bundle, name))
  BY DEF LookupElem, AtNode, Tree
<1>2. Tree \in Syntax /\ IsSeq(bundle)
  BY <1>1, NextTask DEF Elements
<1>3. Generated[Tree] = Msg("", <<Str(name), Str("/!/$")>>)
  BY <1>1, <1>2, Made
<1> HIDE DEF name
<1>4. Lookup(bundle, name) = Append(bundle, Msg("", <<Str(name), Str("/!/$")>>))
  <2>1. Push(PushString(Append(bundle, Msg("", <<Str(name)>>)), "/!/$")) =
           Append(bundle, Msg("", <<Str(name)>> \o <<Str("/!/$")>>))
    <3>1. \A x, y, z : Push(PushString(Append(bundle, Msg(x, y)), z))
                          = Append(bundle, Msg(x, y \o <<Str(z)>>))
      BY <1>2, StringOn
    <3> QED BY <3>1
  <2>2. <<Str(name), Str("/!/$")>> = <<Str(name)>> \o <<Str("/!/$")>>
    BY TwoIs
  <2>3. PushString(bundle, name) = Append(bundle, Msg("", <<Str(name)>>))
    BY DEF PushString, String
  <2> QED BY <2>1, <2>2, <2>3, Zenon DEF Lookup
<1> QED BY <1>1, <1>3, <1>4, LeafLeads

LEMMA LiteralLeads ==
    ASSUME Inv, NEW v, Leads(todo, bundle, v), Literal PROVE Leads(todo', bundle', v)
<1>1. At("visit") /\ Tree.node = "literal" /\ Enter(<<>>, Append(bundle, Msg("", <<Tree.text>>)))
  BY DEF Literal, AtNode, Tree
<1>2. Generated[Tree] = Msg("", <<Tree.text>>)
  BY <1>1, NextTask, Made
<1> QED BY <1>1, <1>2, LeafLeads

LEMMA EmptyTextLeads ==
    ASSUME Inv, NEW v, Leads(todo, bundle, v), EmptyText PROVE Leads(todo', bundle', v)
<1>1. At("visit") /\ Tree.node = "empty" /\ Enter(<<>>, Append(bundle, Bndl(<<>>)))
  BY DEF EmptyText, AtNode, Tree
<1>2. Generated[Tree] = Bndl(<<>>)
  BY <1>1, NextTask, Made
<1> QED BY <1>1, <1>2, LeafLeads

LEMMA BindLeadsOn ==
    ASSUME Inv, NEW v, Leads(todo, bundle, v), Bind PROVE Leads(todo', bundle', v)
<1> DEFINE name == Tree.text
<1>1. At("visit") /\ Tree.node = "bind"
  BY DEF Bind, AtNode, Tree
<1>2. Tree \in Syntax /\ IsSeq(bundle)
  BY <1>1, NextTask DEF Elements
<1>3. ASSUME Tree.parts = <<>>, Enter(<<>>, MoveStringToAddress(PushString(bundle, name)))
      PROVE  Leads(todo', bundle', v)
  <2>1. Generated[Tree] = Msg(name, <<>>)
    BY <1>1, <1>2, <1>3, Made
  <2> HIDE DEF name
  <2>2. MoveStringToAddress(Append(bundle, Msg("", <<>> \o <<Str(name)>>))) =
           Append(bundle, Msg(name, <<>>))
    BY <1>2, EmptyIsSeq, MoveOn
  <2>3. PushString(bundle, name) = Append(bundle, Msg("", <<>> \o <<Str(name)>>))
    <3>1. <<>> \o <<Str(name)>> = <<Str(name)>>
      BY OneIsSeq, EmptyBehind
    <3> QED BY <3>1, Zenon DEF PushString, String
  <2> QED BY <1>1, <1>3, <2>1, <2>2, <2>3, LeafLeads
<1>4. ASSUME Tree.parts # <<>>,
             Enter(Visits(Tree.parts) \o <<Do("unbundle"), Task("name", name)>>, bundle)
      PROVE  Leads(todo', bundle', v)
  <2>1. Leads(Visits(Tree.parts) \o <<Do("unbundle"), Task("name", name)>>,
              bundle, Append(bundle, Generated[Tree]))
    BY <1>1, <1>2, <1>4, BindLeads
  <2> QED BY <1>1, <1>4, <2>1, Enters
<1> QED BY <1>3, <1>4 DEF Bind

LEMMA ListLeadsOn ==
    ASSUME Inv, NEW v, Leads(todo, bundle, v), List PROVE Leads(todo', bundle', v)
<1>1. At("visit") /\ Tree.node = "list"
  BY DEF List, AtNode, Tree
<1>2. Tree \in Syntax /\ Tree.parts \in Seq(Syntax) /\ IsSeq(bundle)
  BY <1>1, NextTask DEF Elements
<1>3. ASSUME Tree.parts = <<>>, Enter(<<>>, Append(bundle, Msg("", <<>>)))
      PROVE  Leads(todo', bundle', v)
  <2>1. Elems(Tree.parts) = <<>>
    BY <1>2, <1>3, ElemsAre
  <2>2. Generated[Tree] = Msg("", JoinItems(Elems(Tree.parts)))
    BY <1>1, <1>2, <1>3, Made
  <2>3. Generated[Tree] = Msg("", <<>>)
    BY <2>1, <2>2, JoinNone
  <2> QED BY <1>1, <1>3, <2>3, LeafLeads
<1>4. ASSUME Tree.parts # <<>>, Enter(ListTasks(Tree.parts), bundle)
      PROVE  Leads(todo', bundle', v)
  <2>1. Leads(ListTasks(Tree.parts), bundle, Append(bundle, Generated[Tree]))
    BY <1>1, <1>2, <1>4, ListLeads
  <2> QED BY <1>1, <1>4, <2>1, Enters
<1> QED BY <1>3, <1>4 DEF List

LEMMA ListRestLeads ==
    ASSUME Inv, NEW v, Leads(todo, bundle, v), ListRest PROVE Leads(todo', bundle', v)
<1> DEFINE task == Head(todo)
<1>1. /\ todo # <<>> /\ task.op = "rest"
      /\ todo' = RestTasks(task.arg) \o Tail(todo) /\ bundle' = bundle
  BY DEF ListRest, At
<1>2. task.arg \in Seq(Syntax)
  BY NextTask DEF ListRest
<1>3. Ready(task, bundle) /\ Leads(Tail(todo), Effect(task, bundle), v)
  BY <1>1, LeadsTail
<1> HIDE DEF task
<1>4. Effect(task, bundle) = Effect(Task("rest", task.arg), bundle)
  BY <1>1, Ops DEF Effect
<1>5. Leads(RestTasks(task.arg), bundle, Effect(task, bundle))
  BY <1>1, <1>2, <1>3, <1>4, RestLeads DEF Ready
<1> QED BY <1>1, <1>3, <1>5, LeadsConcat

LEMMA OpenBundleLeads ==
    ASSUME Inv, NEW v, Leads(todo, bundle, v), OpenBundle PROVE Leads(todo', bundle', v)
<1> DEFINE r == Visits(Tree.parts) \o <<Task("end", Len(bundle) + 1)>>
           u == Append(bundle, Bndl(<<>>))
           w == Append(bundle, Generated[Tree])
<1>1. At("visit") /\ Tree.node \in {"lazy", "eager", "top"}
  BY DEF OpenBundle, AtNode, Tree
<1>2. Tree \in Syntax /\ IsSeq(bundle)
  BY <1>1, NextTask DEF Elements
<1>3. /\ Tree.node = "lazy" => Leads(r \o <<Do("blob")>>, u, w)
      /\ Tree.node = "eager" => Leads(r \o <<>>, u, w)
      /\ Tree.node = "top" => Leads(r \o <<Do("wrap")>>, u, w)
  BY <1>2, BundlesLead
<1>4. CASE Tree.node = "lazy"
  <2>1. Enter(r \o <<Do("blob")>>, u)
    BY <1>4 DEF OpenBundle
  <2> QED BY <1>1, <1>3, <1>4, <2>1, Enters
<1>5. CASE Tree.node = "eager"
  <2>1. Enter(r \o <<>>, u)
    BY <1>5 DEF OpenBundle
  <2> QED BY <1>1, <1>3, <1>5, <2>1, Enters
<1>6. CASE Tree.node = "top"
  <2>1. Enter(r \o <<Do("wrap")>>, u)
    BY <1>6 DEF OpenBundle
  <2> QED BY <1>1, <1>3, <1>6, <2>1, Enters
<1> QED BY <1>1, <1>4, <1>5, <1>6

LEMMA FuncallLeadsOn ==
    ASSUME Inv, NEW v, Leads(todo, bundle, v), Funcall PROVE Leads(todo', bundle', v)
<1> DEFINE r == ArgsTasks(Tree.parts[1]) \o <<Visit(Tree.parts[2]), Do("apply"), Do("push")>>
<1>1. At("visit") /\ Tree.node = "funcall" /\ Enter(r, bundle)
  BY DEF Funcall, AtNode, Tree
<1>2. Tree \in Syntax /\ IsSeq(bundle)
  BY <1>1, NextTask DEF Elements
<1>3. Leads(r, bundle, Append(bundle, Generated[Tree]))
  BY <1>1, <1>2, FuncallLeads
<1> QED BY <1>1, <1>3, Enters

-----------------------------------------------------------------------------
(* What is left in the end is what stands for the text, in its place. *)
Ends(t, s) ==
    \E s0 \in Stacks, tree \in Trees : Leads(t, s, Append(s0, Generated[tree]))

LEMMA InitEnds == ASSUME Init PROVE Ends(todo, bundle)
<1>1. PICK tree \in Trees, s0 \in Stacks :
         todo = <<Visit(tree), Do("nip")>> /\ bundle = Append(s0, String("text"))
  BY DEF Init
<1> DEFINE g == Generated[tree]
           t1 == <<Visit(tree)>>
           task == Do("nip")
           u == Append(bundle, g)
<1>2. IsSeq(s0)
  BY StacksAssumption DEF IsSeq
<1>3. Leads(t1, bundle, u)
  BY VisitLeads
<1>4. task.op = "nip"
  BY Ops
<1>5. todo = t1 \o <<task>>
  BY <1>1, TwoIs
<1> HIDE DEF t1, task
<1>6. Effect(task, u) = Append(s0, g)
  <2>1. Effect(task, u) = Nip(Append(Append(s0, String("text")), g))
    BY <1>1, <1>4 DEF Effect
  <2> QED BY <1>2, <2>1, PushOn
<1>7. Ready(task, u)
  BY <1>4, ReadyIs
<1> HIDE DEF u, g
<1>8. Leads(t1 \o <<task>>, bundle, Append(s0, g))
  BY <1>3, <1>6, <1>7, LeadsThen
<1> QED BY <1>5, <1>8 DEF Ends, g

LEMMA NextEnds == ASSUME Inv, Ends(todo, bundle), [Next]_vars PROVE Ends(todo', bundle')
<1>1. PICK s0 \in Stacks, tree \in Trees : Leads(todo, bundle, Append(s0, Generated[tree]))
  BY DEF Ends
<1> DEFINE v == Append(s0, Generated[tree])
<1> SUFFICES Leads(todo', bundle', v)
  BY DEF Ends
<1>2. Leads(todo, bundle, v)
  BY <1>1
<1> HIDE DEF v
<1>3. CASE UNCHANGED vars
  BY <1>2, <1>3 DEF vars
<1>4. CASE Next
  BY <1>2, <1>4, ContinueLeads, LookupLeads, LiteralLeads, EmptyTextLeads, BindLeadsOn,
     ListLeadsOn, ListRestLeads, OpenBundleLeads, FuncallLeadsOn DEF Next
<1> QED BY <1>3, <1>4

LEMMA EndsInvariance == Spec => [](Inv /\ Ends(todo, bundle))
<1>1. Init => Inv /\ Ends(todo, bundle)
  BY InitSafe, InitEnds
<1>2. (Inv /\ Ends(todo, bundle)) /\ [Next]_vars => (Inv /\ Ends(todo, bundle))'
  BY NextSafe, NextEnds
<1> QED BY <1>1, <1>2, PTL DEF Spec

LEMMA EndsEach == ASSUME Ends(todo, bundle) PROVE OneElementEach
<1>1. PICK s0 \in Stacks, tree \in Trees : Leads(todo, bundle, Append(s0, Generated[tree]))
  BY DEF Ends
<1>2. ASSUME At("return")
      PROVE  bundle = Append(Head(todo).arg.below, Generated[Head(todo).arg.tree])
  <2>1. todo # <<>> /\ Head(todo).op = "return"
    BY <1>2 DEF At
  <2>2. Ready(Head(todo), bundle)
    BY <1>1, <2>1, LeadsTail
  <2> QED BY <2>1, <2>2 DEF Ready
<1>3. ASSUME todo = <<>> PROVE bundle = Append(s0, Generated[tree])
  <2>1. Len(todo) + 1 = 1
    BY <1>3, EmptyIsSeq
  <2> QED BY <1>1, <2>1 DEF Leads
<1> QED BY <1>2, <1>3 DEF OneElementEach

(* However constructs are nested in one another, the visit of each leaves  *)
(* the element that stands for it, and oscript_parse what stands for the   *)
(* whole text in the place of the text. *)
THEOREM VisitGenerates == Spec => []OneElementEach
BY EndsInvariance, EndsEach, PTL
=============================================================================
