--------------------------- MODULE OscriptMapProofs ---------------------------
(***************************************************************************)
(* Theorems about maps within maps, of any depth and over any rows: what   *)
(* /o/maprest finds on control and stack is what /o/map left there, and    *)
(* every step is, for the maps that go on, a step of ZipMap or none.       *)
(***************************************************************************)
EXTENDS MapColumns, OseBundleProofs, FiniteSetTheorems

-----------------------------------------------------------------------------
(* Kinds of elements. *)
LEMMA CommandsDiffer ==
    /\ MapCommand # MapRestCommand /\ MapCommand # ApplyCommand
    /\ MapRestCommand # ApplyCommand
<1>1. \A x, y : String(x) = String(y) => x = y
  <2> SUFFICES ASSUME NEW x, NEW y, String(x) = String(y) PROVE x = y
    OBVIOUS
  <2>1. String(x).items[1].val = x /\ String(y).items[1].val = y
    BY DEF String, Msg, Str
  <2> QED BY <2>1
<1> QED BY <1>1 DEF MapCommand, MapRestCommand, ApplyCommand

LEMMA CommandKind ==
    ASSUME NEW c \in Commands PROVE ~IsSaved(c) /\ ~IsBndl(c) /\ ~IsPlain(c)
<1>1. DOMAIN c = {"addr", "items"}
  BY DEF Commands, MapCommand, MapRestCommand, ApplyCommand, String, Msg
<1> QED BY <1>1 DEF IsSaved, IsBndl, IsPlain

LEMMA BndlKind == ASSUME NEW es PROVE IsPlain(Bndl(es)) /\ IsBndl(Bndl(es)) /\ Bndl(es).elems = es
<1>1. DOMAIN Bndl(es) = {"elems"} /\ Bndl(es).elems = es
  BY DEF Bndl
<1>2. ~IsSaved(Bndl(es)) /\ IsBndl(Bndl(es))
  BY <1>1 DEF IsSaved, IsBndl
<1> QED BY <1>1, <1>2, CommandKind DEF IsPlain

LEMMA SavedKind ==
    ASSUME NEW x PROVE IsSaved(Saved(x)) /\ Saved(x).blob = x /\ Saved(x) \notin Commands
<1>1. DOMAIN Saved(x) = {"blob"} /\ Saved(x).blob = x
  BY DEF Saved
<1> QED BY <1>1, CommandKind DEF IsSaved

-----------------------------------------------------------------------------
(* The inductive invariant.  A map that waits has three elements on the    *)
(* control: its function on top, its state, and the command to go on.      *)
(* Above k of them is what is done next, and the stack has what it takes.  *)
Frames(c, k) ==
    \A j \in 1 .. k :
        /\ c[3 * j - 2] = MapRestCommand
        /\ IsSaved(c[3 * j - 1]) /\ IsState(c[3 * j - 1].blob)
        /\ IsPlain(c[3 * j])

Failed == errno_s # "OSE_ERR_NONE" \/ errno_vm # "OSE_ERR_NONE"

(* What may be left on the stack when no map is at work on it. *)
IsValue(e) == IsPlain(e) /\ (IsBndl(e) \/ Failed)

Values(n) == \A i \in 1 .. n : IsValue(vm_s[i])

(* /o/map is next, its arguments on the stack. *)
Called(k) ==
    /\ Len(vm_c) = 3 * k + 1 /\ vm_c[3 * k + 1] = MapCommand
    /\ Len(vm_s) >= 1 /\ Values(Len(vm_s) - 1)
    /\ \E arg \in Arguments \union {<<>>} : vm_s[Len(vm_s)] = Bndl(arg)

(* The function and its application are on the control, ... *)
Scheduled(k) ==
    /\ Len(vm_c) = 3 * k + 2
    /\ vm_c[3 * k + 1] = ApplyCommand /\ IsPlain(vm_c[3 * k + 2])
    /\ Len(vm_s) >= 1 /\ Values(Len(vm_s))

(* ... the function is on the stack, above its arguments, ... *)
Applying(k) ==
    /\ Len(vm_c) = 3 * k + 1 /\ vm_c[3 * k + 1] = ApplyCommand
    /\ Len(vm_s) >= 2 /\ Values(Len(vm_s) - 1) /\ IsPlain(vm_s[Len(vm_s)])

(* ... and it is done, as is everything when no map waits. *)
Returned(k) ==
    /\ Len(vm_c) = 3 * k
    /\ Values(Len(vm_s))

(* The function of a map comes back on the stack, and its state. *)
FunctionBack(k) ==
    /\ Len(vm_c) = 3 * k + 2
    /\ vm_c[3 * k + 1] = MapRestCommand
    /\ IsSaved(vm_c[3 * k + 2]) /\ IsState(vm_c[3 * k + 2].blob)
    /\ Len(vm_s) >= 1 /\ Values(Len(vm_s) - 1) /\ IsPlain(vm_s[Len(vm_s)])

StateBack(k) ==
    /\ Len(vm_c) = 3 * k + 1 /\ vm_c[3 * k + 1] = MapRestCommand
    /\ Len(vm_s) >= 2 /\ Values(Len(vm_s) - 2)
    /\ IsPlain(vm_s[Len(vm_s) - 1])
    /\ IsSaved(vm_s[Len(vm_s)]) /\ IsState(vm_s[Len(vm_s)].blob)

Phase(k) ==
    /\ Frames(vm_c, k)
    /\ \/ Called(k) \/ Scheduled(k) \/ Applying(k)
       \/ Returned(k) \/ FunctionBack(k) \/ StateBack(k)

Errors ==
    /\ errno_s \in {"OSE_ERR_NONE", "OSE_ERR_ELEM_COUNT"}
    /\ errno_vm \in {"OSE_ERR_NONE", "OSE_ERR_ITEM_TYPE", "OSE_ERR_ELEM_TYPE"}

Inv ==
    /\ IsSeq(vm_s) /\ IsSeq(vm_c) /\ Errors
    /\ \E k \in 0 .. Len(vm_c) : Phase(k)

(* Which phase it is shows in the top of the control. *)
LEMMA PhaseTop ==
    ASSUME Inv, vm_c # <<>>, NEW k \in Nat, Phase(k)
    PROVE  /\ Called(k) => Last(vm_c) = MapCommand
           /\ Scheduled(k) => IsPlain(Last(vm_c))
           /\ Applying(k) => Last(vm_c) = ApplyCommand
           /\ Returned(k) => k >= 1 /\ IsPlain(Last(vm_c))
           /\ FunctionBack(k) => IsSaved(Last(vm_c))
           /\ StateBack(k) => Last(vm_c) = MapRestCommand
<1>1. Len(vm_c) \in Nat \ {0}
  BY EmptySeq DEF Inv, IsSeq
<1>2. Last(vm_c) = vm_c[Len(vm_c)]
  BY DEF Last
<1>3. Frames(vm_c, k)
  BY DEF Phase
<1>4. ASSUME Returned(k) PROVE k >= 1 /\ IsPlain(Last(vm_c))
  BY <1>1, <1>2, <1>3, <1>4 DEF Returned, Frames
<1> QED BY <1>2, <1>4 DEF Called, Scheduled, Applying, FunctionBack, StateBack

LEMMA PhaseOfInv == Inv => \E k \in Nat : Phase(k)
BY SeqType DEF Inv

LEMMA AtMap ==
    ASSUME Inv, Runs(MapCommand) PROVE \E k \in Nat : Frames(vm_c, k) /\ Called(k)
<1>1. PICK k \in Nat : Phase(k)
  BY PhaseOfInv
<1>2. vm_c # <<>> /\ Last(vm_c) = MapCommand
  BY DEF Runs
<1>3. ~IsSaved(MapCommand) /\ ~IsPlain(MapCommand)
  BY CommandKind DEF Commands
<1> QED BY <1>1, <1>2, <1>3, PhaseTop, CommandsDiffer DEF Phase

LEMMA AtApply ==
    ASSUME Inv, Runs(ApplyCommand) PROVE \E k \in Nat : Frames(vm_c, k) /\ Applying(k)
<1>1. PICK k \in Nat : Phase(k)
  BY PhaseOfInv
<1>2. vm_c # <<>> /\ Last(vm_c) = ApplyCommand
  BY DEF Runs
<1>3. ~IsSaved(ApplyCommand) /\ ~IsPlain(ApplyCommand)
  BY CommandKind DEF Commands
<1> QED BY <1>1, <1>2, <1>3, PhaseTop, CommandsDiffer DEF Phase

LEMMA AtMapRest ==
    ASSUME Inv, Runs(MapRestCommand) PROVE \E k \in Nat : Frames(vm_c, k) /\ StateBack(k)
<1>1. PICK k \in Nat : Phase(k)
  BY PhaseOfInv
<1>2. vm_c # <<>> /\ Last(vm_c) = MapRestCommand
  BY DEF Runs
<1>3. ~IsSaved(MapRestCommand) /\ ~IsPlain(MapRestCommand)
  BY CommandKind DEF Commands
<1> QED BY <1>1, <1>2, <1>3, PhaseTop, CommandsDiffer DEF Phase

LEMMA AtPush ==
    ASSUME Inv, vm_c # <<>>, Last(vm_c) \notin Commands
    PROVE  \E k \in Nat : /\ Frames(vm_c, k)
                          /\ \/ Scheduled(k) \/ FunctionBack(k)
                             \/ k >= 1 /\ Returned(k)
<1>1. PICK k \in Nat : Phase(k)
  BY PhaseOfInv
<1> QED BY <1>1, PhaseTop DEF Phase, Commands

-----------------------------------------------------------------------------
LEMMA ArgumentsType ==
    ASSUME NEW arg \in Arguments \union {<<>>}
    PROVE  /\ IsSeq(arg) /\ Len(arg) \in Nat /\ Len(arg) <= 2
           /\ \A i \in 1 .. Len(arg) : IsPlain(arg[i])
<1>1. CASE arg \in Arguments
  <2>1. arg \in Seq(Range(arg)) /\ Len(arg) <= 2 /\ \A i \in DOMAIN arg : IsPlain(arg[i])
    BY <1>1, ArgumentsAssumption
  <2>2. IsSeq(arg)
    BY <2>1 DEF IsSeq
  <2>3. Len(arg) \in Nat /\ DOMAIN arg = 1 .. Len(arg)
    BY <2>2, SeqType
  <2> QED BY <2>1, <2>2, <2>3
<1>2. CASE arg = <<>>
  BY <1>2, EmptyIsSeq
<1> QED BY <1>1, <1>2

LEMMA InitInv == Init => Inv
<1> SUFFICES ASSUME Init PROVE Inv
  OBVIOUS
<1>1. /\ IsSeq(vm_s) /\ Len(vm_s) = 1 /\ vm_s[1] = Bndl(argument)
      /\ IsSeq(vm_c) /\ Len(vm_c) = 1 /\ vm_c[1] = MapCommand
  BY OneIsSeq DEF Init
<1>2. Called(0)
  BY <1>1 DEF Init, Called, Values
<1>3. Frames(vm_c, 0)
  BY DEF Frames
<1> QED BY <1>1, <1>2, <1>3 DEF Init, Inv, Errors, Phase

(* The arguments replace their bundle. *)
LEMMA UnpackedSeq ==
    ASSUME Inv, NEW k \in Nat, Called(k)
    PROVE  /\ IsSeq(Unpacked) /\ Len(Unpacked) <= Len(vm_s) + 1
           /\ \A i \in 1 .. Len(Unpacked) : IsPlain(Unpacked[i])
           /\ \A i \in 1 .. Len(vm_s) - 1 : i <= Len(Unpacked) /\ IsValue(Unpacked[i])
<1>1. PICK arg \in Arguments \union {<<>>} : vm_s[Len(vm_s)] = Bndl(arg)
  BY DEF Called
<1>2. /\ IsSeq(arg) /\ Len(arg) \in Nat /\ Len(arg) <= 2
      /\ \A i \in 1 .. Len(arg) : IsPlain(arg[i])
  BY ArgumentsType
<1>3. IsSeq(vm_s) /\ Len(vm_s) \in Nat /\ Len(vm_s) >= 1 /\ Values(Len(vm_s) - 1)
  BY SeqType DEF Inv, Called
<1>4. vm_s # <<>>
  BY <1>3, EmptyIsSeq
<1> DEFINE below == Front(vm_s)
<1>5. /\ IsSeq(below) /\ Len(below) = Len(vm_s) - 1
      /\ \A i \in 1 .. Len(vm_s) - 1 : below[i] = vm_s[i]
  BY <1>3, <1>4, FrontSeq
<1>6. Unpacked = below \o arg
  BY <1>1, BndlKind DEF Unpacked, Last
<1> HIDE DEF below
<1>7. /\ IsSeq(Unpacked) /\ Len(Unpacked) = Len(below) + Len(arg)
      /\ \A i \in 1 .. Len(below) : Unpacked[i] = below[i]
      /\ \A i \in 1 .. Len(arg) : Unpacked[Len(below) + i] = arg[i]
  BY <1>2, <1>5, <1>6, ConcatSeq
<1>8. ASSUME NEW i \in 1 .. Len(vm_s) - 1 PROVE i <= Len(Unpacked) /\ IsValue(Unpacked[i])
  BY <1>2, <1>3, <1>5, <1>7 DEF Values
<1>9. ASSUME NEW i \in 1 .. Len(Unpacked) PROVE IsPlain(Unpacked[i])
  <2>1. CASE i <= Len(below)
    BY <1>3, <1>5, <1>8, <2>1 DEF IsValue
  <2>2. CASE i > Len(below)
    <3>1. i - Len(below) \in 1 .. Len(arg) /\ Len(below) + (i - Len(below)) = i
      BY <1>2, <1>3, <1>5, <1>7, <2>2
    <3> QED BY <1>2, <1>7, <3>1
  <2> QED BY <1>3, <1>5, <2>1, <2>2
<1>10. Len(Unpacked) <= Len(vm_s) + 1
  <2>1. Len(Unpacked) = Len(vm_s) - 1 + Len(arg) /\ Len(arg) \in Nat /\ Len(arg) <= 2
    BY <1>2, <1>5, <1>7
  <2> QED BY <1>3, <2>1
<1> QED BY <1>7, <1>8, <1>9, <1>10

-----------------------------------------------------------------------------
LEMMA ScheduleSeq ==
    ASSUME NEW fn, NEW state
    PROVE  LET t == Schedule(fn, state)
           IN  /\ IsSeq(t) /\ Len(t) = 5
               /\ t[1] = MapRestCommand /\ t[2] = Saved(state) /\ t[3] = fn
               /\ t[4] = ApplyCommand /\ t[5] = fn
<1> DEFINE S == {MapRestCommand, Saved(state), fn, ApplyCommand}
           t == Schedule(fn, state)
<1>1. /\ t \in Seq(S) /\ Len(t) = 5
      /\ t[1] = MapRestCommand /\ t[2] = Saved(state) /\ t[3] = fn
      /\ t[4] = ApplyCommand /\ t[5] = fn
  BY DEF Schedule
<1> QED BY <1>1, SeqIsSeq

(* A map that goes on puts three elements on the control, and two to apply *)
(* its function; one that ends takes nothing with it.                      *)
GoesOn(c, fn, state) == Front(c) \o Schedule(fn, state)

WillApply(new, k, c, fn, state) ==
    /\ IsSeq(new) /\ Len(new) = 3 * (k + 1) + 2 /\ Frames(new, k + 1)
    /\ \A i \in 1 .. 3 * k : new[i] = c[i]
    /\ new[3 * k + 2] = Saved(state)
    /\ new[3 * (k + 1) + 1] = ApplyCommand /\ new[3 * (k + 1) + 2] = fn

LEMMA ControlSchedule ==
    ASSUME NEW c, IsSeq(c), NEW k \in Nat, Len(c) = 3 * k + 1, Frames(c, k),
           NEW fn, NEW state, IsPlain(fn), IsState(state)
    PROVE  WillApply(GoesOn(c, fn, state), k, c, fn, state)
<1>1. c # <<>>
  BY EmptyIsSeq
<1> DEFINE below == Front(c)  t == Schedule(fn, state)
           new == GoesOn(c, fn, state)
<1>2. IsSeq(below) /\ Len(below) = 3 * k /\ \A i \in 1 .. 3 * k : below[i] = c[i]
  <2>1. /\ IsSeq(below) /\ Len(below) = Len(c) - 1
        /\ \A i \in 1 .. Len(c) - 1 : below[i] = c[i]
    BY <1>1, FrontSeq
  <2>2. Len(c) - 1 = 3 * k
    OBVIOUS
  <2> QED BY <2>1, <2>2
<1>3. /\ IsSeq(t) /\ Len(t) = 5
      /\ t[1] = MapRestCommand /\ t[2] = Saved(state) /\ t[3] = fn
      /\ t[4] = ApplyCommand /\ t[5] = fn
  BY ScheduleSeq
<1>4. new = below \o t
  BY DEF GoesOn
<1> HIDE DEF below, t, new
<1>5. /\ IsSeq(new) /\ Len(new) = 3 * k + 5
      /\ \A i \in 1 .. 3 * k : new[i] = c[i]
      /\ \A i \in 1 .. 5 : new[3 * k + i] = t[i]
  <2>1. /\ IsSeq(new) /\ Len(new) = Len(below) + Len(t)
        /\ \A i \in 1 .. Len(below) : new[i] = below[i]
        /\ \A i \in 1 .. Len(t) : new[Len(below) + i] = t[i]
    <3>1. IsSeq(below) /\ IsSeq(t)
      BY <1>2, <1>3
    <3> QED BY <1>4, <3>1, ConcatSeq
  <2>2. Len(below) = 3 * k /\ Len(t) = 5
    BY <1>2, <1>3
  <2> QED BY <1>2, <2>1, <2>2
<1>6. /\ new[3 * k + 1] = MapRestCommand /\ new[3 * k + 2] = Saved(state)
      /\ new[3 * k + 3] = fn
      /\ new[3 * k + 4] = ApplyCommand /\ new[3 * k + 5] = fn
  <2>1. 1 \in 1 .. 5 /\ 2 \in 1 .. 5 /\ 3 \in 1 .. 5 /\ 4 \in 1 .. 5 /\ 5 \in 1 .. 5
    OBVIOUS
  <2> QED BY <1>3, <1>5, <2>1
<1>7. ASSUME NEW j \in 1 .. k + 1
      PROVE  /\ new[3 * j - 2] = MapRestCommand
             /\ IsSaved(new[3 * j - 1]) /\ IsState(new[3 * j - 1].blob)
             /\ IsPlain(new[3 * j])
  <2>1. CASE j <= k
    <3>1. 3 * j - 2 \in 1 .. 3 * k /\ 3 * j - 1 \in 1 .. 3 * k /\ 3 * j \in 1 .. 3 * k
      BY <2>1
    <3>2. /\ new[3 * j - 2] = c[3 * j - 2] /\ new[3 * j - 1] = c[3 * j - 1]
          /\ new[3 * j] = c[3 * j]
      BY <1>5, <3>1
    <3>3. j \in 1 .. k
      BY <2>1
    <3> QED BY <3>2, <3>3 DEF Frames
  <2>2. CASE j = k + 1
    <3>1. 3 * j - 2 = 3 * k + 1 /\ 3 * j - 1 = 3 * k + 2 /\ 3 * j = 3 * k + 3
      BY <2>2
    <3> QED BY <1>6, <3>1, SavedKind
  <2>3. j <= k \/ j = k + 1
    OBVIOUS
  <2> QED BY <2>1, <2>2, <2>3
<1>8. 3 * (k + 1) + 1 = 3 * k + 4 /\ 3 * (k + 1) + 2 = 3 * k + 5
  OBVIOUS
<1> QED BY <1>5, <1>6, <1>7, <1>8 DEF Frames, WillApply, new

LEMMA ControlFront ==
    ASSUME NEW c, IsSeq(c), c # <<>>, NEW k \in Nat, 3 * k < Len(c), Frames(c, k)
    PROVE  Frames(Front(c), k)
<1>1. Len(c) \in Nat /\ \A i \in 1 .. 3 * k : Front(c)[i] = c[i]
  BY FrontSeq
<1> QED BY <1>1 DEF Frames

LEMMA AdvancedState ==
    ASSUME NEW state, IsState(state) PROVE IsState(Advanced(state))
BY DEF IsState, Advanced, MapState

(* A step of a map, whoever called it. *)
LEMMA MapStepInv ==
    ASSUME Inv, NEW k \in Nat, Len(vm_c) = 3 * k + 1, Frames(vm_c, k),
           NEW s, IsSeq(s), \A i \in 1 .. Len(s) : IsValue(s[i]),
           NEW fn, IsPlain(fn), NEW state, IsState(state),
           MapStep(s, fn, state), UNCHANGED <<errno_s, errno_vm>>
    PROVE  Inv'
<1>1. IsSeq(vm_c) /\ Errors
  BY DEF Inv
<1>2. vm_c # <<>>
  BY EmptyIsSeq
<1>3. Errors' /\ \A e : IsValue(e)' = IsValue(e)
  BY <1>1 DEF Errors, IsValue, Failed
<1>4. CASE Exhausted(state)
  <2>1. vm_s' = s /\ vm_c' = Front(vm_c)
    BY <1>4 DEF MapStep
  <2>2. IsSeq(vm_c') /\ Len(vm_c') = 3 * k /\ Frames(vm_c', k)
    BY <1>1, <1>2, <2>1, FrontSeq, ControlFront
  <2>3. Returned(k)'
    BY <1>3, <2>1, <2>2 DEF Returned, Values
  <2>4. k \in 0 .. Len(vm_c')
    BY <2>2
  <2> QED BY <1>3, <2>1, <2>2, <2>3, <2>4 DEF Inv, Phase
<1>5. CASE ~Exhausted(state)
  <2> DEFINE args == Bndl(NextColumn(state))
  <2>1. vm_s' = Append(s, args) /\ vm_c' = Front(vm_c) \o Schedule(fn, Advanced(state))
    BY <1>5 DEF MapStep
  <2>2. /\ IsSeq(vm_c') /\ Len(vm_c') = 3 * (k + 1) + 2 /\ Frames(vm_c', k + 1)
        /\ vm_c'[3 * (k + 1) + 1] = ApplyCommand /\ vm_c'[3 * (k + 1) + 2] = fn
    <3> DEFINE next == Advanced(state)
    <3>1. IsState(next) /\ vm_c' = GoesOn(vm_c, fn, next)
      BY <2>1, AdvancedState DEF GoesOn
    <3> HIDE DEF next
    <3>2. WillApply(vm_c', k, vm_c, fn, next)
      BY <1>1, <3>1, ControlSchedule
    <3> QED BY <3>2 DEF WillApply
  <2>3. IsValue(args)
    BY BndlKind DEF IsValue
  <2> HIDE DEF args
  <2>4. /\ IsSeq(vm_s') /\ Len(vm_s') = Len(s) + 1
        /\ \A i \in 1 .. Len(s) : vm_s'[i] = s[i]
        /\ vm_s'[Len(s) + 1] = args
    BY <2>1, AppendSeq
  <2>5. Len(s) \in Nat
    BY SeqType
  <2>6. \A i \in 1 .. Len(vm_s') : IsValue(vm_s'[i])
    BY <2>3, <2>4, <2>5
  <2>7. Scheduled(k + 1)'
    BY <1>3, <2>2, <2>4, <2>5, <2>6 DEF Scheduled, Values
  <2>8. k + 1 \in 0 .. Len(vm_c')
    BY <2>2
  <2> QED BY <1>3, <2>2, <2>4, <2>7, <2>8 DEF Inv, Phase
<1> QED BY <1>4, <1>5

(* Elements of a stack from which n were taken are elements of the stack. *)
LEMMA ValuesBelow ==
    ASSUME NEW s, IsSeq(s), NEW n \in Nat, n <= Len(s),
           \A i \in 1 .. Len(s) - n : IsValue(s[i])
    PROVE  /\ IsSeq(DropTop(s, n))
           /\ \A i \in 1 .. Len(DropTop(s, n)) : IsValue(DropTop(s, n)[i])
<1>1. /\ IsSeq(DropTop(s, n)) /\ Len(DropTop(s, n)) = Len(s) - n
      /\ \A i \in 1 .. Len(s) - n : DropTop(s, n)[i] = s[i]
  BY DropSeq
<1> QED BY <1>1

LEMMA MapInv == ASSUME Inv, Map PROVE Inv'
<1>1. PICK k \in Nat : Frames(vm_c, k) /\ Called(k)
  BY AtMap DEF Map
<1> DEFINE u == Unpacked
           n == Len(u)
<1>2. /\ IsSeq(u) /\ Len(u) <= Len(vm_s) + 1
      /\ \A i \in 1 .. Len(u) : IsPlain(u[i])
      /\ \A i \in 1 .. Len(vm_s) - 1 : i <= Len(u) /\ IsValue(u[i])
  BY <1>1, UnpackedSeq
<1>3. n \in Nat /\ n >= 2 /\ Len(vm_s) \in Nat
  BY <1>2, SeqType DEF Map, Inv
<1> DEFINE bundle == FromTop(u, 1)
           rows == RowsOf(bundle)
           state == MapState(rows, [j \in DOMAIN rows |-> 1], 0)
           s == DropTop(u, 2)
           fn == Last(u)
<1>4. MapStep(s, fn, state) /\ UNCHANGED <<errno_s, errno_vm>>
  BY DEF Map
<1>5. IsState(state)
  BY DEF IsState, MapState
<1>6. IsPlain(fn)
  BY <1>2, <1>3 DEF Last
<1>7. IsSeq(s) /\ \A i \in 1 .. Len(s) : IsValue(s[i])
  <2>1. \A i \in 1 .. Len(u) - 2 : IsValue(u[i])
    <3> HIDE DEF u
    <3> QED BY <1>2, <1>3 DEF n
  <2> HIDE DEF u
  <2> QED BY <1>2, <1>3, <2>1, ValuesBelow DEF n
<1> HIDE DEF fn, s, state
<1> QED BY <1>1, <1>4, <1>5, <1>6, <1>7, MapStepInv DEF Called

LEMMA MapRestInv == ASSUME Inv, MapRest PROVE Inv'
<1>1. PICK k \in Nat : Frames(vm_c, k) /\ StateBack(k)
  BY AtMapRest DEF MapRest
<1> DEFINE state == Last(vm_s).blob
           s == DropTop(vm_s, 2)
           fn == FromTop(vm_s, 1)
<1>2. IsSeq(vm_s) /\ Len(vm_s) \in Nat /\ Len(vm_s) >= 2
  BY <1>1, SeqType DEF Inv, StateBack
<1>3. MapStep(s, fn, state) /\ UNCHANGED <<errno_s, errno_vm>>
  BY <1>2 DEF MapRest
<1>4. IsState(state) /\ IsPlain(fn)
  BY <1>1 DEF StateBack, Last, FromTop
<1>5. IsSeq(s) /\ \A i \in 1 .. Len(s) : IsValue(s[i])
  <2>1. \A i \in 1 .. Len(vm_s) - 2 : IsValue(vm_s[i])
    BY <1>1 DEF StateBack, Values
  <2> QED BY <1>2, <2>1, ValuesBelow
<1> HIDE DEF fn, s, state
<1> QED BY <1>1, <1>3, <1>4, <1>5, MapStepInv DEF StateBack

(* A map that fails leaves its arguments, and a value may be anything now. *)
AllPlain(s) == IsSeq(s) /\ \A i \in 1 .. Len(s) : IsPlain(s[i])

LEMMA MapFailsInv ==
    ASSUME Inv, Runs(MapCommand), AllPlain(vm_s'), vm_c' = Front(vm_c),
           Errors', Failed'
    PROVE  Inv'
<1>1. PICK k \in Nat : Frames(vm_c, k) /\ Called(k)
  BY AtMap
<1>2. IsSeq(vm_c) /\ vm_c # <<>> /\ Len(vm_c) = 3 * k + 1
  BY <1>1 DEF Inv, Runs, Called
<1>3. IsSeq(vm_c') /\ Len(vm_c') = 3 * k /\ Frames(vm_c', k)
  BY <1>1, <1>2, FrontSeq, ControlFront
<1>4. IsSeq(vm_s') /\ \A i \in 1 .. Len(vm_s') : IsPlain(vm_s'[i])
  BY DEF AllPlain
<1>5. Returned(k)'
  BY <1>3, <1>4 DEF Returned, Values, IsValue
<1>6. k \in 0 .. Len(vm_c')
  BY <1>3
<1> QED BY <1>3, <1>4, <1>5, <1>6 DEF Inv, Phase

LEMMA PlainUnpacked ==
    ASSUME Inv, Runs(MapCommand) PROVE vm_s # <<>> /\ AllPlain(Unpacked)
<1>1. PICK k \in Nat : Called(k)
  BY AtMap
<1>2. vm_s # <<>>
  BY <1>1, EmptyIsSeq DEF Called
<1> QED BY <1>1, <1>2, UnpackedSeq DEF AllPlain

(* The message in a blob: neither a command, nor a state, nor a bundle. *)
LEMMA MessageKind ==
    ASSUME NEW e
    PROVE  /\ IsPlain(MessageIn(e)) /\ ~IsSaved(MessageIn(e))
           /\ ~IsMappable(MessageIn(e))
<1> DEFINE n == Num(Last(e.items).number)
           m == Msg("", <<n>>)
<1>1. MessageIn(e) = m /\ n.tt = "i"
  BY DEF MessageIn, Num
<1> HIDE DEF n
<1>2. /\ DOMAIN m = {"addr", "items"} /\ m.items = <<n>>
      /\ Last(<<n>>) = n /\ <<n>> # <<>>
  BY OneIsSeq DEF Msg, Last
<1> HIDE DEF m
<1>3. ~IsBndl(m) /\ ~IsSaved(m) /\ ArgType(m) = "i"
  BY <1>1, <1>2 DEF IsBndl, IsSaved, ArgType
<1>4. \A x : String(x) # m
  <2>1. \A x : String(x).items[1].tt = "s"
    BY DEF String, Msg, Str
  <2>2. m.items[1].tt = "i"
    BY <1>1, <1>2
  <2> QED BY <2>1, <2>2
<1>5. m \notin Commands
  BY <1>4 DEF Commands, MapCommand, MapRestCommand, ApplyCommand
<1> QED BY <1>1, <1>3, <1>5 DEF IsPlain, IsMappable, IsBlob

(* It takes the place of the argument. *)
LEMMA MessageLeft ==
    ASSUME Inv, MapGetsMessageBlob
    PROVE  \E m : /\ IsPlain(m) /\ ~IsSaved(m) /\ ~IsMappable(m)
                  /\ IsSeq(vm_s') /\ Len(vm_s') = Len(Unpacked)
                  /\ \A i \in 1 .. Len(vm_s') :
                        vm_s'[i] = IF i = Len(Unpacked) - 1 THEN m ELSE Unpacked[i]
<1> DEFINE u == Unpacked
           s == DropTop(u, 2)
           m == MessageIn(FromTop(u, 1))
           t == <<m, Last(u)>>
<1>1. IsPlain(m) /\ ~IsSaved(m) /\ ~IsMappable(m)
  BY MessageKind
<1>2. IsSeq(u) /\ Len(u) \in Nat /\ Len(u) >= 2 /\ vm_s' = s \o t
  BY PlainUnpacked, SeqType DEF AllPlain, MapGetsMessageBlob
<1> HIDE DEF u, m
<1>3. IsSeq(s) /\ Len(s) = Len(u) - 2 /\ \A i \in 1 .. Len(u) - 2 : s[i] = u[i]
  BY <1>2, DropSeq
<1>4. IsSeq(t) /\ Len(t) = 2 /\ t[1] = m /\ t[2] = u[Len(u)]
  <2>1. t \in Seq({m, Last(u)}) /\ Len(t) = 2 /\ t[1] = m /\ t[2] = Last(u)
    OBVIOUS
  <2> QED BY <2>1, SeqIsSeq DEF Last
<1> HIDE DEF s, t
<1>5. /\ IsSeq(vm_s') /\ Len(vm_s') = Len(u)
      /\ \A i \in 1 .. Len(s) : vm_s'[i] = s[i]
      /\ \A i \in 1 .. 2 : vm_s'[Len(s) + i] = t[i]
  <2>1. /\ IsSeq(vm_s') /\ Len(vm_s') = Len(s) + Len(t)
        /\ \A i \in 1 .. Len(s) : vm_s'[i] = s[i]
        /\ \A i \in 1 .. Len(t) : vm_s'[Len(s) + i] = t[i]
    <3>1. IsSeq(s) /\ IsSeq(t)
      BY <1>3, <1>4
    <3> QED BY <1>2, <3>1, ConcatSeq
  <2>2. Len(s) + Len(t) = Len(u) /\ Len(t) = 2
    BY <1>2, <1>3, <1>4
  <2> QED BY <2>1, <2>2
<1>6. ASSUME NEW i \in 1 .. Len(vm_s')
      PROVE  vm_s'[i] = IF i = Len(u) - 1 THEN m ELSE u[i]
  <2>1. CASE i <= Len(u) - 2
    BY <1>2, <1>3, <1>5, <2>1
  <2>2. vm_s'[Len(u) - 1] = m /\ vm_s'[Len(u)] = u[Len(u)]
    <3>1. Len(s) + 1 = Len(u) - 1 /\ Len(s) + 2 = Len(u) /\ 1 \in 1 .. 2 /\ 2 \in 1 .. 2
      BY <1>2, <1>3
    <3> QED BY <1>4, <1>5, <3>1
  <2>3. i <= Len(u) - 2 \/ i = Len(u) - 1 \/ (i = Len(u) /\ i # Len(u) - 1)
    BY <1>2, <1>5
  <2> QED BY <2>1, <2>2, <2>3
<1> QED BY <1>1, <1>5, <1>6 DEF u

LEMMA MapLacksElemsInv == ASSUME Inv, MapLacksElems PROVE Inv'
<1>1. Errors' /\ Failed'
  BY DEF Inv, MapLacksElems, Errors, Failed
<1>2. AllPlain(vm_s')
  BY PlainUnpacked DEF MapLacksElems
<1> QED BY <1>1, <1>2, MapFailsInv DEF MapLacksElems

LEMMA MapGetsMessageInv == ASSUME Inv, MapGetsMessage PROVE Inv'
<1>1. Errors' /\ Failed'
  BY DEF Inv, MapGetsMessage, Errors, Failed
<1>2. AllPlain(vm_s')
  BY PlainUnpacked DEF MapGetsMessage
<1> QED BY <1>1, <1>2, MapFailsInv DEF MapGetsMessage

LEMMA MapGetsMessageBlobInv == ASSUME Inv, MapGetsMessageBlob PROVE Inv'
<1>1. Errors' /\ Failed'
  BY DEF Inv, MapGetsMessageBlob, Errors, Failed
<1>2. AllPlain(Unpacked)
  BY PlainUnpacked DEF MapGetsMessageBlob
<1>3. AllPlain(vm_s')
  BY <1>2, MessageLeft DEF AllPlain
<1> QED BY <1>1, <1>3, MapFailsInv DEF MapGetsMessageBlob

LEMMA PushInv == ASSUME Inv, Push PROVE Inv'
<1>1. PICK k \in Nat : /\ Frames(vm_c, k)
                       /\ Scheduled(k) \/ FunctionBack(k) \/ (k >= 1 /\ Returned(k))
  BY AtPush DEF Push
<1>2. /\ IsSeq(vm_s) /\ Len(vm_s) \in Nat /\ IsSeq(vm_c) /\ vm_c # <<>>
      /\ Errors' /\ \A e : IsValue(e)' = IsValue(e)
  BY SeqType DEF Inv, Push, Errors, IsValue, Failed
<1>3. /\ IsSeq(vm_c') /\ Len(vm_c') = Len(vm_c) - 1 /\ Len(vm_c) \in Nat \ {0}
      /\ \A i \in 1 .. Len(vm_c) - 1 : vm_c'[i] = vm_c[i]
  BY <1>2, FrontSeq DEF Push
<1>4. /\ IsSeq(vm_s') /\ Len(vm_s') = Len(vm_s) + 1
      /\ \A i \in 1 .. Len(vm_s) : vm_s'[i] = vm_s[i]
      /\ vm_s'[Len(vm_s) + 1] = vm_c[Len(vm_c)]
  BY <1>2, AppendSeq DEF Push, Last
<1>5. CASE Scheduled(k)
  <2>1. Frames(vm_c', k)
    BY <1>1, <1>2, <1>5, ControlFront DEF Push, Scheduled
  <2>2. Applying(k)'
    BY <1>2, <1>3, <1>4, <1>5 DEF Scheduled, Applying, Values
  <2>3. k \in 0 .. Len(vm_c')
    BY <2>2 DEF Applying
  <2> QED BY <1>2, <1>3, <1>4, <2>1, <2>2, <2>3 DEF Inv, Phase
<1>6. CASE FunctionBack(k)
  <2>1. Frames(vm_c', k)
    BY <1>1, <1>2, <1>6, ControlFront DEF Push, FunctionBack
  <2>2. StateBack(k)'
    BY <1>2, <1>3, <1>4, <1>6 DEF FunctionBack, StateBack, Values
  <2>3. k \in 0 .. Len(vm_c')
    BY <2>2 DEF StateBack
  <2> QED BY <1>2, <1>3, <1>4, <2>1, <2>2, <2>3 DEF Inv, Phase
<1>7. CASE k >= 1 /\ Returned(k)
  <2> DEFINE m == k - 1
  <2>1. m \in Nat /\ k = m + 1 /\ Len(vm_c) = 3 * m + 3
    BY <1>7 DEF Returned
  <2> HIDE DEF m
  <2>2. /\ vm_c[3 * m + 1] = MapRestCommand
        /\ IsSaved(vm_c[3 * m + 2]) /\ IsState(vm_c[3 * m + 2].blob)
        /\ IsPlain(vm_c[3 * m + 3])
    <3>1. /\ 3 * k - 2 = 3 * m + 1 /\ 3 * k - 1 = 3 * m + 2 /\ 3 * k = 3 * m + 3
          /\ k \in 1 .. k
      BY <2>1
    <3> QED BY <1>1, <3>1 DEF Frames
  <2>3. Frames(vm_c', m)
    <3>1. Frames(vm_c, m)
      BY <1>1, <2>1 DEF Frames
    <3>2. 3 * m < Len(vm_c)
      BY <2>1
    <3> QED BY <1>2, <2>1, <3>1, <3>2, ControlFront DEF Push
  <2>4. /\ Len(vm_c') = 3 * m + 2
        /\ vm_c'[3 * m + 1] = vm_c[3 * m + 1] /\ vm_c'[3 * m + 2] = vm_c[3 * m + 2]
    BY <1>3, <2>1
  <2>5. FunctionBack(m)'
    BY <1>2, <1>4, <1>7, <2>1, <2>2, <2>4 DEF FunctionBack, Returned, Values
  <2>6. m \in 0 .. Len(vm_c')
    BY <2>1, <2>4
  <2> QED BY <1>2, <1>3, <1>4, <2>3, <2>5, <2>6 DEF Inv, Phase
<1> QED BY <1>1, <1>5, <1>6, <1>7

LEMMA ApplyLeavesInv == ASSUME Inv, ApplyLeaves PROVE Inv'
<1>1. PICK k \in Nat : Frames(vm_c, k) /\ Applying(k)
  BY AtApply DEF ApplyLeaves
<1>2. /\ IsSeq(vm_s) /\ Len(vm_s) \in Nat /\ Len(vm_s) >= 2 /\ IsSeq(vm_c) /\ vm_c # <<>>
      /\ Len(vm_c) = 3 * k + 1
      /\ Errors' /\ \A e : IsValue(e)' = IsValue(e)
  BY <1>1, SeqType DEF Inv, ApplyLeaves, Applying, Runs, Errors, IsValue, Failed
<1>3. IsSeq(vm_c') /\ Len(vm_c') = 3 * k /\ Frames(vm_c', k)
  BY <1>1, <1>2, FrontSeq, ControlFront DEF ApplyLeaves
<1>4. \A i \in 1 .. Len(vm_s) - 1 : IsValue(vm_s[i])
  BY <1>1 DEF Applying, Values
<1>5. PICK n \in {1, 2} : vm_s' = DropTop(vm_s, n)
  BY DEF ApplyLeaves, Front, DropTop
<1>6. /\ n \in Nat /\ n <= Len(vm_s)
      /\ \A i \in 1 .. Len(vm_s) - n : IsValue(vm_s[i])
  BY <1>2, <1>4
<1>7. /\ IsSeq(vm_s') /\ \A i \in 1 .. Len(vm_s') : IsValue(vm_s'[i])
  BY <1>2, <1>5, <1>6, ValuesBelow
<1>8. Returned(k)'
  BY <1>2, <1>3, <1>7 DEF Returned, Values
<1>9. k \in 0 .. Len(vm_c')
  BY <1>3
<1> QED BY <1>2, <1>3, <1>7, <1>8, <1>9 DEF Inv, Phase

LEMMA ApplyMapsInv == ASSUME Inv, NEW arg \in Arguments, ApplyMaps(arg) PROVE Inv'
<1>1. PICK k \in Nat : Frames(vm_c, k) /\ Applying(k)
  BY AtApply DEF ApplyMaps
<1>2. /\ IsSeq(vm_s) /\ Len(vm_s) \in Nat /\ Len(vm_s) >= 2 /\ IsSeq(vm_c) /\ vm_c # <<>>
      /\ Len(vm_c) = 3 * k + 1
      /\ Errors' /\ \A e : IsValue(e)' = IsValue(e)
  BY <1>1, SeqType DEF Inv, ApplyMaps, Applying, Runs, Errors, IsValue, Failed
<1> DEFINE below == Front(vm_c)
           s == DropTop(vm_s, 2)
<1>3. /\ IsSeq(below) /\ Len(below) = 3 * k
      /\ \A i \in 1 .. 3 * k : below[i] = vm_c[i]
  <2>1. /\ IsSeq(below) /\ Len(below) = Len(vm_c) - 1
        /\ \A i \in 1 .. Len(vm_c) - 1 : below[i] = vm_c[i]
    BY <1>2, FrontSeq
  <2>2. Len(vm_c) - 1 = 3 * k
    BY <1>2
  <2> QED BY <2>1, <2>2
<1>4. /\ IsSeq(s) /\ \A i \in 1 .. Len(s) : IsValue(s[i])
  <2>1. \A i \in 1 .. Len(vm_s) - 2 : IsValue(vm_s[i])
    BY <1>1, <1>2 DEF Applying, Values
  <2> QED BY <1>2, <2>1, ValuesBelow
<1>5. vm_c' = Append(below, MapCommand) /\ vm_s' = Append(s, Bndl(arg))
  BY DEF ApplyMaps
<1> HIDE DEF below, s
<1>6. /\ IsSeq(vm_c') /\ Len(vm_c') = 3 * k + 1 /\ vm_c'[3 * k + 1] = MapCommand
      /\ \A i \in 1 .. 3 * k : vm_c'[i] = vm_c[i]
  BY <1>3, <1>5, AppendSeq
<1>7. Frames(vm_c', k)
  BY <1>1, <1>6 DEF Frames
<1>8. /\ IsSeq(vm_s') /\ Len(s) \in Nat /\ Len(vm_s') = Len(s) + 1
      /\ vm_s'[Len(s) + 1] = Bndl(arg)
      /\ \A i \in 1 .. Len(s) : vm_s'[i] = s[i]
  BY <1>4, <1>5, AppendSeq, SeqType
<1>9. Called(k)'
  BY <1>2, <1>4, <1>6, <1>8 DEF Called, Values
<1>10. k \in 0 .. Len(vm_c')
  BY <1>6
<1> QED BY <1>2, <1>6, <1>7, <1>8, <1>9, <1>10 DEF Inv, Phase

LEMMA StutterInv == ASSUME Inv, UNCHANGED vars PROVE Inv'
BY DEF Inv, vars, Errors, Phase, Called, Scheduled, Applying, Returned,
       FunctionBack, StateBack, Values, IsValue, Failed

LEMMA NextInv == Inv /\ [Next]_vars => Inv'
<1> SUFFICES ASSUME Inv, [Next]_vars PROVE Inv'
  OBVIOUS
<1>1. CASE Map
  BY <1>1, MapInv
<1>2. CASE MapLacksElems
  BY <1>2, MapLacksElemsInv
<1>3. CASE MapGetsMessage
  BY <1>3, MapGetsMessageInv
<1>4. CASE MapGetsMessageBlob
  BY <1>4, MapGetsMessageBlobInv
<1>9. CASE MapRest
  BY <1>9, MapRestInv
<1>5. CASE Push
  BY <1>5, PushInv
<1>6. CASE ApplyLeaves
  BY <1>6, ApplyLeavesInv
<1>7. ASSUME NEW arg \in Arguments, ApplyMaps(arg) PROVE Inv'
  BY <1>7, ApplyMapsInv
<1>8. CASE UNCHANGED vars
  BY <1>8, StutterInv
<1> QED BY <1>1, <1>2, <1>3, <1>4, <1>5, <1>6, <1>7, <1>8, <1>9 DEF Next, Step, Finished

(* The states of maps wait on the control in frames of three, each under   *)
(* its function, and what is above them is what the stack is ready for.    *)
THEOREM InvHolds == Spec => []Inv
<1>1. Init => Inv
  BY InitInv
<1>2. Inv /\ [Next]_vars => Inv'
  BY NextInv
<1> QED BY <1>1, <1>2, PTL DEF Spec

-----------------------------------------------------------------------------
(* Above the frames is a command, with what it needs on top of it or on    *)
(* the stack.                                                              *)
LEMMA PhaseShape ==
    ASSUME Inv, NEW k \in Nat, Phase(k)
    PROVE  /\ Len(vm_c) = 3 * k \/ Len(vm_c) = 3 * k + 1 \/ Len(vm_c) = 3 * k + 2
           /\ Len(vm_c) # 3 * k => vm_c[3 * k + 1] \in Commands
           /\ Len(vm_c) = 3 * k + 2 =>
                 IsPlain(vm_c[3 * k + 2]) \/ IsState(vm_c[3 * k + 2].blob)
           /\ \A i \in 1 .. Len(vm_s) : IsPlain(vm_s[i]) \/ IsState(vm_s[i].blob)
<1>1. Len(vm_s) \in Nat /\ Len(vm_c) \in Nat
  BY SeqType DEF Inv
<1>2. CASE Called(k)
  BY <1>1, <1>2, BndlKind DEF Called, Values, IsValue, Commands
<1>3. CASE Scheduled(k)
  BY <1>1, <1>3 DEF Scheduled, Values, IsValue, Commands
<1>4. CASE Applying(k)
  BY <1>1, <1>4 DEF Applying, Values, IsValue, Commands
<1>5. CASE Returned(k)
  BY <1>1, <1>5 DEF Returned, Values, IsValue, Commands
<1>6. CASE FunctionBack(k)
  BY <1>1, <1>6 DEF FunctionBack, Values, IsValue, Commands
<1>7. CASE StateBack(k)
  BY <1>1, <1>7 DEF StateBack, Values, IsValue, Commands
<1> QED BY <1>2, <1>3, <1>4, <1>5, <1>6, <1>7 DEF Phase

(* What is on control and stack is well formed.                            *)
LEMMA SavedIsState ==
    ASSUME Inv
    PROVE  /\ \A i \in DOMAIN vm_c : IsSaved(vm_c[i]) => IsState(vm_c[i].blob)
           /\ \A i \in DOMAIN vm_s : IsSaved(vm_s[i]) => IsState(vm_s[i].blob)
<1>1. PICK k \in Nat : Phase(k)
  BY PhaseOfInv
<1>2. /\ Len(vm_c) \in Nat /\ DOMAIN vm_c = 1 .. Len(vm_c)
      /\ Len(vm_s) \in Nat /\ DOMAIN vm_s = 1 .. Len(vm_s)
  BY SeqType DEF Inv
<1>3. \A i \in 1 .. Len(vm_s) : IsSaved(vm_s[i]) => IsState(vm_s[i].blob)
  BY <1>1, PhaseShape DEF IsPlain
<1>4. ASSUME NEW i \in 1 .. Len(vm_c), IsSaved(vm_c[i]) PROVE IsState(vm_c[i].blob)
  <2>1. CASE i <= 3 * k
    <3>1. PICK j \in 1 .. k : i = 3 * j - 2 \/ i = 3 * j - 1 \/ i = 3 * j
      <4> DEFINE q == (i + 2) \div 3
      <4>1. q \in 1 .. k /\ (i = 3 * q - 2 \/ i = 3 * q - 1 \/ i = 3 * q)
        BY <1>2, <2>1
      <4> QED BY <4>1
    <3>2. /\ vm_c[3 * j - 2] = MapRestCommand
          /\ IsState(vm_c[3 * j - 1].blob) /\ IsPlain(vm_c[3 * j])
      BY <1>1 DEF Phase, Frames
    <3> QED BY <1>4, <3>1, <3>2, CommandKind DEF Commands, IsPlain
  <2>2. CASE i > 3 * k
    <3> DEFINE n == Len(vm_c)
    <3>0. n \in Nat /\ i \in 1 .. n /\ (n = 3 * k \/ n = 3 * k + 1 \/ n = 3 * k + 2)
      BY <1>1, <1>2, PhaseShape
    <3> HIDE DEF n
    <3>1. n # 3 * k /\ (i = 3 * k + 1 \/ (i = 3 * k + 2 /\ n = 3 * k + 2))
      BY <2>2, <3>0
    <3>2. CASE i = 3 * k + 1
      <4>1. vm_c[i] \in Commands
        BY <1>1, <3>1, <3>2, PhaseShape DEF n
      <4> QED BY <1>4, <4>1, CommandKind
    <3>3. CASE i = 3 * k + 2 /\ n = 3 * k + 2
      BY <1>1, <1>4, <3>3, PhaseShape DEF IsPlain, n
    <3> QED BY <3>1, <3>2, <3>3
  <2> QED BY <1>2, <2>1, <2>2
<1> QED BY <1>2, <1>3, <1>4

(* States are states of maps, and errors those of a map, on any control.   *)
THEOREM TypeCorrect == Spec => []TypeOK
<1>1. Inv => TypeOK
  BY SavedIsState DEF Inv, Errors, TypeOK
<1> QED BY <1>1, InvHolds, PTL

(* /!/o/maprest may take its function and its state unseen: when it runs,  *)
(* the state is on top of the stack, and there is no other on it.          *)
THEOREM StateIsFound == Spec => []MapRestFindsState
<1>1. ASSUME Inv PROVE MapRestFindsState
  <2> SUFFICES ASSUME Runs(MapRestCommand)
               PROVE  /\ Len(vm_s) >= 2
                      /\ \A i \in DOMAIN vm_s : IsSaved(vm_s[i]) <=> i = Len(vm_s)
    BY DEF MapRestFindsState
  <2>1. PICK k \in Nat : StateBack(k)
    BY <1>1, AtMapRest
  <2>2. Len(vm_s) \in Nat /\ DOMAIN vm_s = 1 .. Len(vm_s)
    BY <1>1, SeqType DEF Inv
  <2> QED BY <2>1, <2>2 DEF StateBack, Values, IsValue, IsPlain
<1> QED BY <1>1, InvHolds, PTL

(* When everything has returned, the stack holds results, no state and,    *)
(* unless a map failed, no function.                                       *)
THEOREM NothingElseLeft == Spec => []OnlyResultsLeft
<1>1. ASSUME Inv PROVE OnlyResultsLeft
  <2> SUFFICES ASSUME vm_c = <<>>, NEW i \in DOMAIN vm_s
               PROVE  ~IsSaved(vm_s[i]) /\ (IsBndl(vm_s[i]) \/ Failed)
    BY DEF OnlyResultsLeft, Halted, Failed
  <2>1. PICK k \in Nat : Phase(k)
    BY <1>1, PhaseOfInv
  <2>2. Len(vm_c) = 0
    BY EmptyIsSeq
  <2>3. Returned(k)
    BY <2>1, <2>2 DEF Phase, Called, Scheduled, Applying, FunctionBack, StateBack
  <2>4. DOMAIN vm_s = 1 .. Len(vm_s)
    BY <1>1, SeqType DEF Inv
  <2> QED BY <2>3, <2>4 DEF Returned, Values, IsValue, IsPlain
<1> QED BY <1>1, InvHolds, PTL

-----------------------------------------------------------------------------
(* The states on a sequence, if they are found in the places f.            *)
Places(s, k, f) ==
    /\ f \in [1 .. k -> 1 .. Len(s)]
    /\ \A i, j \in 1 .. k : i < j => f[i] < f[j]
    /\ \A i \in 1 .. Len(s) : IsSaved(s[i]) <=> \E j \in 1 .. k : i = f[j]

LEMMA StatesAt ==
    ASSUME NEW s, IsSeq(s), NEW k \in Nat, NEW f, Places(s, k, f)
    PROVE  States(s) = [n \in 1 .. k |-> s[f[n]].blob]
<1> DEFINE saved == {i \in DOMAIN s : IsSaved(s[i])}
           before(i) == Cardinality({j \in saved : j <= i})
           place(n) == CHOOSE i \in saved : before(i) = n
           upTo(n) == {f[j] : j \in 1 .. n}
<1> USE DEF Places
<1>1. Len(s) \in Nat /\ DOMAIN s = 1 .. Len(s)
  BY SeqType
<1>2. ASSUME NEW n \in Nat, n <= k PROVE Cardinality(upTo(n)) = n
  <2> DEFINE g == [j \in 1 .. n |-> f[j]]
  <2>1. \A i, j \in 1 .. n : i # j => f[i] # f[j]
    <3> SUFFICES ASSUME NEW i \in 1 .. n, NEW j \in 1 .. n, i # j PROVE f[i] # f[j]
      OBVIOUS
    <3>1. i \in 1 .. k /\ j \in 1 .. k /\ f[i] \in Nat /\ f[j] \in Nat
      BY <1>1, <1>2
    <3> QED BY <3>1
  <2>2. g \in Bijection(1 .. n, upTo(n))
    BY <2>1 DEF Bijection, Injection, Surjection, IsInjective
  <2>3. ExistsBijection(1 .. n, upTo(n))
    BY <2>2 DEF ExistsBijection
  <2> HIDE DEF upTo
  <2> QED BY <1>2, <2>3, FS_CountingElements
<1>3. saved = upTo(k)
  BY <1>1
<1>4. ASSUME NEW m \in 1 .. k PROVE {j \in saved : j <= f[m]} = upTo(m)
  <2>1. ASSUME NEW j \in 1 .. k PROVE f[j] <= f[m] <=> j <= m
    <3>1. f[j] \in Nat /\ f[m] \in Nat
      BY <1>1
    <3>2. j < m => f[j] < f[m]
      OBVIOUS
    <3>3. m < j => f[m] < f[j]
      OBVIOUS
    <3> QED BY <3>1, <3>2, <3>3
  <2>2. ASSUME NEW x \in upTo(k), x <= f[m] PROVE x \in upTo(m)
    <3>1. PICK j \in 1 .. k : x = f[j]
      OBVIOUS
    <3>2. j \in 1 .. m
      BY <2>1, <2>2, <3>1
    <3> QED BY <3>1, <3>2
  <2>3. ASSUME NEW x \in upTo(m) PROVE x \in upTo(k) /\ x <= f[m]
    <3>1. PICK j \in 1 .. m : x = f[j]
      OBVIOUS
    <3>2. j \in 1 .. k /\ f[j] <= f[m]
      BY <2>1
    <3> QED BY <3>1, <3>2
  <2> HIDE DEF upTo, saved
  <2> QED BY <1>3, <2>2, <2>3
<1>5. ASSUME NEW n \in 1 .. k PROVE place(n) = f[n]
  <2>1. f[n] \in saved /\ before(f[n]) = n
    <3>1. Cardinality(upTo(n)) = n
      BY <1>2
    <3>2. f[n] \in saved
      BY <1>3
    <3> HIDE DEF saved, upTo
    <3> QED BY <1>4, <3>1, <3>2
  <2>2. ASSUME NEW i \in saved, before(i) = n PROVE i = f[n]
    <3>1. PICK m \in 1 .. k : i = f[m]
      BY <1>3
    <3> HIDE DEF saved, upTo
    <3>2. Cardinality(upTo(m)) = m
      <4>1. m \in Nat /\ m <= k
        OBVIOUS
      <4> QED BY <1>2, <4>1
    <3>3. before(i) = m
      BY <1>4, <3>1, <3>2
    <3> QED BY <2>2, <3>1, <3>3
  <2> HIDE DEF saved, before
  <2> QED BY <2>1, <2>2
<1>6. Cardinality(saved) = k
  <2> HIDE DEF saved, upTo
  <2> QED BY <1>2, <1>3
<1>7. States(s) = [n \in 1 .. Cardinality(saved) |-> s[place(n)].blob]
  BY DEF States
<1> HIDE DEF saved, place
<1> QED BY <1>5, <1>6, <1>7

(* The maps that wait in frames on a control. *)
Waiting(c, k) == [j \in 1 .. k |-> c[3 * j - 1].blob]

LEMMA WaitingSeq ==
    ASSUME NEW c, NEW k \in Nat
    PROVE  /\ IsSeq(Waiting(c, k)) /\ Len(Waiting(c, k)) = k
           /\ DOMAIN Waiting(c, k) = 1 .. k
           /\ \A j \in 1 .. k : Waiting(c, k)[j] = c[3 * j - 1].blob
<1> DEFINE S == {c[3 * j - 1].blob : j \in 1 .. k}
           w == Waiting(c, k)
<1>1. w \in [1 .. k -> S]
  BY DEF Waiting
<1>2. DOMAIN w = 1 .. k /\ \A j \in 1 .. k : w[j] = c[3 * j - 1].blob
  BY DEF Waiting
<1> HIDE DEF S, w
<1>3. w \in Seq(S)
  BY <1>1, SeqDef
<1>4. IsSeq(w) /\ Len(w) \in Nat /\ DOMAIN w = 1 .. Len(w)
  BY <1>3, SeqIsSeq
<1>5. Len(w) = k
  BY <1>2, <1>4
<1> QED BY <1>2, <1>4, <1>5 DEF w

LEMMA SameWaiting ==
    ASSUME NEW c, NEW d, NEW k \in Nat, \A i \in 1 .. 3 * k - 1 : c[i] = d[i]
    PROVE  Waiting(c, k) = Waiting(d, k)
<1>1. ASSUME NEW j \in 1 .. k PROVE c[3 * j - 1] = d[3 * j - 1]
  <2>1. 3 * j - 1 \in 1 .. 3 * k - 1
    OBVIOUS
  <2> QED BY <2>1
<1> QED BY <1>1 DEF Waiting

(* In frames, the states are in the middle. *)
LEMMA FrameSaved ==
    ASSUME NEW c, NEW k \in Nat, Frames(c, k), NEW i \in 1 .. 3 * k
    PROVE  IsSaved(c[i]) <=> \E j \in 1 .. k : i = 3 * j - 1
<1>1. PICK j \in 1 .. k : i = 3 * j - 2 \/ i = 3 * j - 1 \/ i = 3 * j
  <2> DEFINE q == (i + 2) \div 3
  <2>1. q \in 1 .. k /\ (i = 3 * q - 2 \/ i = 3 * q - 1 \/ i = 3 * q)
    OBVIOUS
  <2> QED BY <2>1
<1>2. /\ c[3 * j - 2] = MapRestCommand
      /\ IsSaved(c[3 * j - 1]) /\ IsPlain(c[3 * j])
  BY DEF Frames
<1>3. ~IsSaved(MapRestCommand)
  BY CommandKind DEF Commands
<1>4. CASE i = 3 * j - 1
  BY <1>2, <1>4
<1>5. CASE i # 3 * j - 1
  <2>1. ~IsSaved(c[i])
    BY <1>1, <1>2, <1>3, <1>5 DEF IsPlain
  <2>2. \A m \in 1 .. k : i # 3 * m - 1
    BY <1>1, <1>5
  <2> QED BY <2>1, <2>2
<1> QED BY <1>4, <1>5

(* The states on a control of k frames, and of one that its function has   *)
(* left already.                                                           *)
LEMMA ControlStates ==
    ASSUME NEW c, IsSeq(c), NEW k \in Nat, Frames(c, k), 3 * k <= Len(c),
           \A i \in 3 * k + 1 .. Len(c) : ~IsSaved(c[i])
    PROVE  States(c) = Waiting(c, k)
<1> DEFINE f == [j \in 1 .. k |-> 3 * j - 1]
<1>1. Len(c) \in Nat
  BY SeqType
<1>2. \A i \in 1 .. 3 * k : IsSaved(c[i]) <=> \E j \in 1 .. k : i = 3 * j - 1
  BY FrameSaved, Zenon
<1>3. f \in [1 .. k -> 1 .. Len(c)]
  BY <1>1
<1>4. \A i, j \in 1 .. k : i < j => f[i] < f[j]
  OBVIOUS
<1>5. \A j \in 1 .. k : f[j] = 3 * j - 1
  OBVIOUS
<1> HIDE DEF f
<1>6. ASSUME NEW i \in 1 .. Len(c)
      PROVE  IsSaved(c[i]) <=> \E j \in 1 .. k : i = f[j]
  <2>1. CASE i <= 3 * k
    <3>1. i \in 1 .. 3 * k
      BY <2>1
    <3>2. IsSaved(c[i]) <=> \E j \in 1 .. k : i = 3 * j - 1
      BY <1>2, <3>1
    <3> QED BY <1>5, <3>2
  <2>2. CASE i > 3 * k
    <3>1. i \in 3 * k + 1 .. Len(c) /\ \A j \in 1 .. k : i # 3 * j - 1
      BY <1>1, <2>2
    <3> QED BY <1>5, <3>1
  <2> QED BY <1>1, <2>1, <2>2
<1>7. States(c) = [n \in 1 .. k |-> c[f[n]].blob]
  <2>1. Places(c, k, f)
    BY <1>3, <1>4, <1>6 DEF Places
  <2> QED BY <2>1, StatesAt
<1> QED BY <1>5, <1>7 DEF Waiting

LEMMA ControlStatesBack ==
    ASSUME NEW c, IsSeq(c), NEW k \in Nat, Frames(c, k), Len(c) = 3 * k + 2,
           c[3 * k + 1] = MapRestCommand, IsSaved(c[3 * k + 2])
    PROVE  States(c) = Waiting(c, k + 1)
<1> DEFINE n == k + 1
           f == [j \in 1 .. n |-> 3 * j - 1]
<1>1. n \in Nat /\ Len(c) \in Nat
  OBVIOUS
<1>2. f \in [1 .. n -> 1 .. Len(c)]
  BY <1>1
<1>3. \A i, j \in 1 .. n : i < j => f[i] < f[j]
  OBVIOUS
<1>4. \A j \in 1 .. n : f[j] = 3 * j - 1
  OBVIOUS
<1> HIDE DEF f
<1>5. ASSUME NEW i \in 1 .. Len(c)
      PROVE  IsSaved(c[i]) <=> \E j \in 1 .. n : i = 3 * j - 1
  <2>1. CASE i <= 3 * k
    <3>1. i \in 1 .. 3 * k
      BY <2>1
    <3>2. IsSaved(c[i]) <=> \E j \in 1 .. k : i = 3 * j - 1
      BY <3>1, FrameSaved
    <3>3. \A j \in 1 .. n : i = 3 * j - 1 => j \in 1 .. k
      BY <2>1
    <3>4. \A j \in 1 .. k : j \in 1 .. n
      OBVIOUS
    <3> HIDE DEF n
    <3> QED BY <3>2, <3>3, <3>4
  <2>2. CASE i = 3 * k + 1
    <3>1. ~IsSaved(c[i])
      BY <2>2, CommandKind DEF Commands
    <3>2. \A j \in 1 .. n : i # 3 * j - 1
      BY <2>2
    <3> QED BY <3>1, <3>2
  <2>3. CASE i = 3 * k + 2
    <3>1. n \in 1 .. n /\ 3 * n - 1 = i
      BY <2>3
    <3> HIDE DEF n
    <3> QED BY <2>3, <3>1
  <2>4. i <= 3 * k \/ i = 3 * k + 1 \/ i = 3 * k + 2
    OBVIOUS
  <2> QED BY <2>1, <2>2, <2>3, <2>4
<1> HIDE DEF n
<1>6. \A i \in 1 .. Len(c) : IsSaved(c[i]) <=> \E j \in 1 .. n : i = f[j]
  BY <1>4, <1>5
<1>7. States(c) = [m \in 1 .. n |-> c[f[m]].blob]
  <2>1. Places(c, n, f)
    BY <1>2, <1>3, <1>6 DEF Places
  <2> QED BY <1>1, <2>1, StatesAt
<1> QED BY <1>4, <1>7 DEF Waiting, n

(* On the stack there is no state, or one on top. *)
LEMMA StackStates ==
    ASSUME NEW s, IsSeq(s), \A i \in 1 .. Len(s) : ~IsSaved(s[i])
    PROVE  States(s) = <<>>
<1> DEFINE f == [j \in 1 .. 0 |-> 0]
<1>1. f \in [1 .. 0 -> 1 .. Len(s)] /\ \A i, j \in 1 .. 0 : i < j => f[i] < f[j]
  OBVIOUS
<1>2. \A i \in 1 .. Len(s) : IsSaved(s[i]) <=> \E j \in 1 .. 0 : i = f[j]
  OBVIOUS
<1> HIDE DEF f
<1>3. 0 \in Nat
  OBVIOUS
<1>4. States(s) = [n \in 1 .. 0 |-> s[f[n]].blob]
  <2>1. Places(s, 0, f)
    BY <1>1, <1>2 DEF Places
  <2> QED BY <1>3, <2>1, StatesAt
<1> QED BY <1>4

LEMMA StackStatesTop ==
    ASSUME NEW s, IsSeq(s), Len(s) >= 1, IsSaved(s[Len(s)]),
           \A i \in 1 .. Len(s) - 1 : ~IsSaved(s[i])
    PROVE  States(s) = <<Last(s).blob>>
<1>1. PICK n \in Nat : n = 1
  OBVIOUS
<1> DEFINE f == [j \in 1 .. n |-> Len(s)]
<1>2. Len(s) \in Nat
  BY SeqType
<1>3. f \in [1 .. n -> 1 .. Len(s)] /\ \A i, j \in 1 .. n : ~(i < j)
  BY <1>1, <1>2
<1>4. \A i \in 1 .. Len(s) : IsSaved(s[i]) <=> i = Len(s)
  BY <1>2
<1>5. 1 \in 1 .. n /\ \A j \in 1 .. n : j = 1 /\ f[j] = Len(s)
  BY <1>1
<1>6. \A i \in 1 .. Len(s) : IsSaved(s[i]) <=> \E j \in 1 .. n : i = f[j]
  BY <1>4, <1>5
<1> HIDE DEF f
<1>7. States(s) = [j \in 1 .. n |-> s[f[j]].blob]
  <2>1. Places(s, n, f)
    BY <1>3, <1>6 DEF Places
  <2> QED BY <2>1, StatesAt
<1> QED BY <1>1, <1>5, <1>7 DEF Last
-----------------------------------------------------------------------------
LEMMA ConcatOne ==
    ASSUME NEW w, IsSeq(w), NEW one, IsSeq(one), Len(one) = 1
    PROVE  w \o one = Append(w, one[1])
<1> DEFINE t == w \o one
           u == Append(w, one[1])
<1>1. /\ IsSeq(t) /\ Len(t) = Len(w) + Len(one)
      /\ \A i \in 1 .. Len(w) : t[i] = w[i]
      /\ \A i \in 1 .. Len(one) : t[Len(w) + i] = one[i]
  <2>1. IsSeq(t)
    BY ConcatSeq
  <2>2. Len(t) = Len(w) + Len(one)
    BY ConcatSeq
  <2>3. \A i \in 1 .. Len(w) : t[i] = w[i]
    BY ConcatSeq
  <2>4. \A i \in 1 .. Len(one) : t[Len(w) + i] = one[i]
    BY ConcatSeq
  <2> QED BY <2>1, <2>2, <2>3, <2>4
<1>2. /\ IsSeq(u) /\ Len(u) = Len(w) + 1
      /\ \A i \in 1 .. Len(w) : u[i] = w[i]
      /\ u[Len(w) + 1] = one[1]
  BY AppendSeq
<1> HIDE DEF t, u
<1>3. Len(w) \in Nat
  BY SeqType
<1>4. ASSUME NEW i \in 1 .. Len(t) PROVE t[i] = u[i]
  BY <1>1, <1>2, <1>3
<1>5. PICK S : t \in Seq(S) /\ u \in Seq(S)
  BY <1>1, <1>2, CommonElements
<1>6. t = u
  BY <1>1, <1>2, <1>4, <1>5, SeqEqual
<1> QED BY <1>6 DEF t, u

LEMMA ConcatTop ==
    ASSUME NEW w, IsSeq(w), NEW x PROVE w \o <<x>> = Append(w, x)
<1>1. PICK one : one = <<x>>
  OBVIOUS
<1>2. IsSeq(one) /\ Len(one) = 1 /\ one[1] = x
  BY <1>1, OneIsSeq
<1>3. w \o one = Append(w, one[1])
  BY <1>2, ConcatOne
<1> QED BY <1>1, <1>2, <1>3

LEMMA ConcatNone ==
    ASSUME NEW w, IsSeq(w) PROVE w \o <<>> = w
BY ConcatEmptySeq DEF IsSeq

(* One map more waits. *)
LEMMA WaitingMore ==
    ASSUME NEW c, NEW d, NEW k \in Nat, \A i \in 1 .. 3 * k : d[i] = c[i]
    PROVE  Waiting(d, k + 1) = Append(Waiting(c, k), d[3 * k + 2].blob)
<1> DEFINE n == k + 1
           x == d[3 * k + 2].blob
           t == Waiting(d, n)
           u == Append(Waiting(c, k), x)
<1>1. n \in Nat
  OBVIOUS
<1> HIDE DEF n
<1>2. /\ IsSeq(t) /\ Len(t) = n
      /\ \A j \in 1 .. n : t[j] = d[3 * j - 1].blob
  BY <1>1, WaitingSeq
<1>3. /\ IsSeq(Waiting(c, k)) /\ Len(Waiting(c, k)) = k
      /\ \A j \in 1 .. k : Waiting(c, k)[j] = c[3 * j - 1].blob
  BY WaitingSeq
<1>4. /\ IsSeq(u) /\ Len(u) = n /\ u[n] = x
      /\ \A j \in 1 .. k : u[j] = c[3 * j - 1].blob
  <2> HIDE DEF x
  <2> QED BY <1>3, AppendSeq DEF n
<1>5. ASSUME NEW j \in 1 .. n PROVE t[j] = u[j]
  <2>1. CASE j = n
    <3>1. 3 * j - 1 = 3 * k + 2
      BY <2>1 DEF n
    <3> QED BY <1>2, <1>4, <2>1, <3>1
  <2>2. CASE j # n
    <3>1. j \in 1 .. k /\ 3 * j - 1 \in 1 .. 3 * k
      BY <2>2 DEF n
    <3>2. d[3 * j - 1] = c[3 * j - 1]
      BY <3>1
    <3> QED BY <1>2, <1>4, <3>1, <3>2
  <2> QED BY <2>1, <2>2
<1> HIDE DEF t, u
<1>6. PICK S : t \in Seq(S) /\ u \in Seq(S)
  BY <1>2, <1>4, CommonElements
<1>7. t = u
  BY <1>2, <1>4, <1>5, <1>6, SeqEqual
<1> QED BY <1>7 DEF t, u, n

(* A map joins the others, and what becomes of it. *)
Progress(state) == [arg |-> state.rows, done |-> state.count]

LEMMA MapsOfSeq ==
    ASSUME NEW w, IsSeq(w)
    PROVE  /\ IsSeq(MapsOf(w)) /\ Len(MapsOf(w)) = Len(w)
           /\ \A i \in 1 .. Len(w) : MapsOf(w)[i] = Progress(w[i])
<1> DEFINE m == MapsOf(w)
           S == {Progress(w[i]) : i \in 1 .. Len(w)}
<1>1. Len(w) \in Nat /\ DOMAIN w = 1 .. Len(w)
  BY SeqType
<1>2. m = [i \in 1 .. Len(w) |-> Progress(w[i])]
  BY <1>1 DEF MapsOf, Progress
<1> HIDE DEF m
<1>3. m \in [1 .. Len(w) -> S] /\ \A i \in 1 .. Len(w) : m[i] = Progress(w[i])
  BY <1>2
<1> HIDE DEF S
<1>4. m \in Seq(S)
  BY <1>1, <1>3, SeqDef
<1>5. IsSeq(m) /\ DOMAIN m = 1 .. Len(m) /\ Len(m) \in Nat
  BY <1>4, SeqIsSeq
<1>6. Len(m) = Len(w)
  BY <1>1, <1>3, <1>5
<1> QED BY <1>3, <1>5, <1>6 DEF m

LEMMA MapsOfMore ==
    ASSUME NEW w, IsSeq(w), NEW state
    PROVE  MapsOf(Append(w, state)) = Append(MapsOf(w), Progress(state))
<1> DEFINE v == Append(w, state)
           t == MapsOf(v)
           u == Append(MapsOf(w), Progress(state))
<1>1. Len(w) \in Nat
  BY SeqType
<1>2. /\ IsSeq(v) /\ Len(v) = Len(w) + 1
      /\ \A i \in 1 .. Len(w) : v[i] = w[i]
      /\ v[Len(w) + 1] = state
  BY AppendSeq
<1> HIDE DEF v
<1>3. /\ IsSeq(t) /\ Len(t) = Len(v)
      /\ \A i \in 1 .. Len(v) : t[i] = Progress(v[i])
  BY <1>2, MapsOfSeq
<1>4. /\ IsSeq(MapsOf(w)) /\ Len(MapsOf(w)) = Len(w)
      /\ \A i \in 1 .. Len(w) : MapsOf(w)[i] = Progress(w[i])
  BY MapsOfSeq
<1>5. /\ IsSeq(u) /\ Len(u) = Len(w) + 1 /\ u[Len(w) + 1] = Progress(state)
      /\ \A i \in 1 .. Len(w) : u[i] = Progress(w[i])
  BY <1>4, AppendSeq
<1> HIDE DEF t, u
<1>6. ASSUME NEW i \in 1 .. Len(t) PROVE t[i] = u[i]
  BY <1>1, <1>2, <1>3, <1>5
<1>7. PICK S : t \in Seq(S) /\ u \in Seq(S)
  BY <1>3, <1>5, CommonElements
<1>8. t = u
  BY <1>2, <1>3, <1>5, <1>6, <1>7, SeqEqual
<1> QED BY <1>8 DEF t, u, v
-----------------------------------------------------------------------------
(* What waits, or may be mapped over, has rows that are mapped over; the   *)
(* cursors of a state all stand at the column after the last one applied.  *)
GoodState(state) ==
    /\ IsState(state) /\ state.rows \in RowSets
    /\ state.cursors = [j \in DOMAIN state.rows |-> state.count + 1]

Good(e) ==
    /\ IsSaved(e) => GoodState(e.blob)
    /\ IsPlain(e) /\ IsMappable(e) => RowsOf(e) \in RowSets

LEMMA GoodRows ==
    ASSUME NEW rows \in RowSets
    PROVE  /\ rows # <<>> /\ IsSeq(rows) /\ 1 \in DOMAIN rows
           /\ \A j \in DOMAIN rows : IsSeq(rows[j])
           /\ \A n \in DOMAIN rows[1] :
                 Maps!HasColumn(rows, n) => Rows(Maps!Column(rows, n)) \in RowSets
<1>1. /\ rows # <<>> /\ IsSeq(rows)
      /\ \A j \in DOMAIN rows : IsSeq(rows[j])
      /\ \A n \in DOMAIN rows[1] :
            Maps!HasColumn(rows, n) => Rows(Maps!Column(rows, n)) \in RowSets
  BY RowsAssumption DEF IsSeq
<1>2. Len(rows) \in Nat \ {0} /\ DOMAIN rows = 1 .. Len(rows)
  BY <1>1, EmptySeq, SeqType DEF IsSeq
<1> QED BY <1>1, <1>2

(* A map that goes on is applied to its next column, ... *)
LEMMA NextColumnGood ==
    ASSUME NEW state, GoodState(state), ~Exhausted(state)
    PROVE  /\ Maps!HasColumn(state.rows, state.count + 1)
           /\ NextColumn(state) = Maps!Column(state.rows, state.count + 1)
           /\ Good(Bndl(NextColumn(state)))
           /\ GoodState(Advanced(state))
<1> DEFINE rows == state.rows
           n == state.count + 1
<1>1. /\ rows \in RowSets /\ n \in Nat /\ n >= 1
      /\ state.cursors = [j \in DOMAIN rows |-> n]
  BY DEF GoodState, IsState
<1>2. \A j \in DOMAIN rows : state.cursors[j] = n
  BY <1>1
<1>3. /\ rows # <<>> /\ 1 \in DOMAIN rows
      /\ \A j \in DOMAIN rows : Len(rows[j]) \in Nat /\ DOMAIN rows[j] = 1 .. Len(rows[j])
  BY <1>1, GoodRows, SeqType
<1>4. \A j \in DOMAIN rows : ~(n > Len(rows[j]))
  BY <1>2 DEF Exhausted
<1>5. Maps!HasColumn(rows, n)
  <2> HIDE DEF rows, n
  <2> QED BY <1>1, <1>3, <1>4 DEF Maps!HasColumn
<1>6. NextColumn(state) = Maps!Column(rows, n)
  BY <1>2 DEF NextColumn, Maps!Column
<1>7. Rows(Maps!Column(rows, n)) \in RowSets
  <2> HIDE DEF rows, n
  <2>1. n \in DOMAIN rows[1]
    BY <1>1, <1>3, <1>4
  <2> QED BY <1>1, <1>5, <2>1, GoodRows
<1>8. Good(Bndl(NextColumn(state)))
  <2> DEFINE e == Bndl(NextColumn(state))
  <2>1. ~IsSaved(e) /\ RowsOf(e) = Rows(NextColumn(state))
    BY BndlKind DEF RowsOf, IsPlain
  <2> QED BY <1>6, <1>7, <2>1 DEF Good
<1>9. GoodState(Advanced(state))
  <2> DEFINE next == Advanced(state)
  <2>1. next.rows = rows /\ next.count = n
        /\ next.cursors = [j \in DOMAIN rows |-> state.cursors[j] + 1]
    BY DEF Advanced, MapState
  <2>2. next.cursors = [j \in DOMAIN rows |-> n + 1]
    BY <1>2, <2>1
  <2>3. IsState(next)
    BY AdvancedState DEF GoodState
  <2>4. rows \in RowSets
    BY <1>1
  <2> HIDE DEF next, rows, n
  <2>5. /\ next.rows \in RowSets
        /\ next.cursors = [j \in DOMAIN next.rows |-> next.count + 1]
    BY <2>1, <2>2, <2>4
  <2>6. GoodState(next)
    BY <2>3, <2>5 DEF GoodState
  <2> QED BY <2>6 DEF next
<1> QED BY <1>5, <1>6, <1>8, <1>9

(* ... and one that ends has none. *)
LEMMA ExhaustedGood ==
    ASSUME NEW state, GoodState(state), Exhausted(state)
    PROVE  ~Maps!HasColumn(state.rows, state.count + 1)
<1>1. PICK j \in DOMAIN state.rows : state.cursors[j] > Len(state.rows[j])
  BY DEF Exhausted
<1>2. state.cursors[j] = state.count + 1 /\ state.count + 1 \in Nat
  BY DEF GoodState, IsState
<1>3. Len(state.rows[j]) \in Nat
  BY GoodRows, SeqType DEF GoodState
<1>4. ~(state.count + 1 <= Len(state.rows[j]))
  <2> DEFINE n == state.count + 1  m == Len(state.rows[j])
  <2>1. n \in Nat /\ m \in Nat /\ n > m
    BY <1>1, <1>2, <1>3
  <2> HIDE DEF n, m
  <2>2. ~(n <= m)
    BY <2>1
  <2> QED BY <2>2 DEF n, m
<1> QED BY <1>4 DEF Maps!HasColumn

LEMMA CommandGood == ASSUME NEW e \in Commands PROVE Good(e)
BY CommandKind DEF Good

LEMMA SavedGood == ASSUME NEW state, GoodState(state) PROVE Good(Saved(state))
<1>1. Saved(state).blob = state /\ ~IsPlain(Saved(state))
  BY SavedKind DEF IsPlain
<1> QED BY <1>1 DEF Good

AllGood(s) == \A i \in 1 .. Len(s) : Good(s[i])

(* The argument bundle is good when its arguments are unpacked. *)
RowsInv ==
    /\ AllGood(vm_c)
    /\ \A i \in 1 .. Len(vm_s) : (i = Len(vm_s) /\ Runs(MapCommand)) \/ Good(vm_s[i])

(* Elements of good sequences are good. *)
LEMMA GoodFront ==
    ASSUME NEW s, IsSeq(s), s # <<>>, AllGood(s) PROVE AllGood(Front(s))
<1>1. /\ Len(Front(s)) = Len(s) - 1 /\ Len(s) \in Nat
      /\ \A i \in 1 .. Len(s) - 1 : Front(s)[i] = s[i]
  BY FrontSeq
<1> QED BY <1>1 DEF AllGood

LEMMA GoodDrop ==
    ASSUME NEW s, IsSeq(s), NEW n \in Nat, n <= Len(s),
           \A i \in 1 .. Len(s) - n : Good(s[i])
    PROVE  AllGood(DropTop(s, n))
<1>1. /\ Len(DropTop(s, n)) = Len(s) - n
      /\ \A i \in 1 .. Len(s) - n : DropTop(s, n)[i] = s[i]
  BY DropSeq
<1> QED BY <1>1 DEF AllGood

LEMMA GoodAppend ==
    ASSUME NEW s, IsSeq(s), AllGood(s), NEW e, Good(e) PROVE AllGood(Append(s, e))
<1>1. /\ Len(Append(s, e)) = Len(s) + 1 /\ Append(s, e)[Len(s) + 1] = e
      /\ \A i \in 1 .. Len(s) : Append(s, e)[i] = s[i]
  BY AppendSeq
<1>2. Len(s) \in Nat
  BY SeqType
<1> QED BY <1>1, <1>2 DEF AllGood

LEMMA GoodConcat ==
    ASSUME NEW s, NEW t, IsSeq(s), IsSeq(t), AllGood(s), AllGood(t)
    PROVE  AllGood(s \o t)
<1> DEFINE u == s \o t
<1>1. Len(s) \in Nat /\ Len(t) \in Nat
  BY SeqType
<1>2. Len(u) = Len(s) + Len(t)
  BY ConcatSeq
<1>3. \A i \in 1 .. Len(s) : u[i] = s[i]
  BY ConcatSeq
<1>4. \A i \in 1 .. Len(t) : u[Len(s) + i] = t[i]
  BY ConcatSeq
<1> HIDE DEF u
<1>5. ASSUME NEW i \in 1 .. Len(u) PROVE Good(u[i])
  <2>1. CASE i <= Len(s)
    BY <1>1, <1>3, <2>1 DEF AllGood
  <2>2. CASE i > Len(s)
    <3>1. i - Len(s) \in 1 .. Len(t) /\ Len(s) + (i - Len(s)) = i
      BY <1>1, <1>2, <2>2
    <3> QED BY <1>4, <3>1 DEF AllGood
  <2> QED BY <1>1, <2>1, <2>2
<1> QED BY <1>5 DEF AllGood, u

LEMMA GoodSchedule ==
    ASSUME NEW fn, NEW state, Good(fn), GoodState(state)
    PROVE  AllGood(Schedule(fn, state))
<1>1. Good(MapRestCommand) /\ Good(ApplyCommand) /\ Good(Saved(state))
  BY CommandGood, SavedGood DEF Commands
<1>2. LET t == Schedule(fn, state)
      IN  /\ IsSeq(t) /\ Len(t) = 5
          /\ t[1] = MapRestCommand /\ t[2] = Saved(state) /\ t[3] = fn
          /\ t[4] = ApplyCommand /\ t[5] = fn
  BY ScheduleSeq
<1> DEFINE t == Schedule(fn, state)
<1> HIDE DEF t
<1>3. ASSUME NEW i \in 1 .. Len(t) PROVE Good(t[i])
  <2>1. i \in 1 .. 5
    BY <1>2 DEF t
  <2>2. i = 1 \/ i = 2 \/ i = 3 \/ i = 4 \/ i = 5
    BY <2>1
  <2> QED BY <1>1, <1>2, <2>2 DEF t
<1> QED BY <1>3 DEF AllGood, t

(* The arguments of a map are good, whatever is below them. *)
LEMMA GoodUnpacked ==
    ASSUME Inv, RowsInv, NEW k \in Nat, Called(k) PROVE AllGood(Unpacked)
<1>1. PICK arg \in Arguments \union {<<>>} : vm_s[Len(vm_s)] = Bndl(arg)
  BY DEF Called
<1>2. IsSeq(arg)
  BY ArgumentsType
<1>3. AllGood(arg)
  <2>1. CASE arg \in Arguments
    <3>1. \A i \in DOMAIN arg : IsPlain(arg[i]) /\ (IsMappable(arg[i]) => RowsOf(arg[i]) \in RowSets)
      BY <2>1, ArgumentsAssumption, RowsAssumption
    <3>2. DOMAIN arg = 1 .. Len(arg)
      BY <1>2, SeqType
    <3> QED BY <3>1, <3>2 DEF AllGood, Good, IsPlain
  <2>2. CASE arg = <<>>
    BY <2>2, EmptyIsSeq DEF AllGood
  <2> QED BY <2>1, <2>2
<1>4. IsSeq(vm_s) /\ Len(vm_s) \in Nat /\ Len(vm_s) >= 1 /\ vm_s # <<>>
  BY SeqType, EmptyIsSeq DEF Inv, Called
<1>5. IsSeq(Front(vm_s))
  BY <1>4, FrontSeq
<1>6. AllGood(Front(vm_s))
  <2>1. /\ Len(Front(vm_s)) = Len(vm_s) - 1
        /\ \A i \in 1 .. Len(vm_s) - 1 : Front(vm_s)[i] = vm_s[i]
    BY <1>4, FrontSeq
  <2> QED BY <1>4, <2>1 DEF AllGood, RowsInv
<1>7. Unpacked = Front(vm_s) \o arg
  BY <1>1, BndlKind DEF Unpacked, Last
<1> QED BY <1>2, <1>3, <1>5, <1>6, <1>7, GoodConcat

-----------------------------------------------------------------------------
(* The maps going on before and after a step, told by the frames. *)
LEMMA ActivePlain ==
    ASSUME NEW c, IsSeq(c), NEW k \in Nat, Frames(c, k), 3 * k <= Len(c),
           \A i \in 3 * k + 1 .. Len(c) : ~IsSaved(c[i]),
           NEW s, IsSeq(s), \A i \in 1 .. Len(s) : ~IsSaved(s[i])
    PROVE  States(c) \o States(s) = Waiting(c, k)
<1>1. States(c) = Waiting(c, k)
  BY ControlStates
<1>2. States(s) = <<>>
  BY StackStates
<1>3. Waiting(c, k) \o <<>> = Waiting(c, k)
  BY WaitingSeq, ConcatNone
<1> QED BY <1>1, <1>2, <1>3

LEMMA ActiveBack ==
    ASSUME NEW c, IsSeq(c), NEW k \in Nat, Frames(c, k), 3 * k <= Len(c),
           \A i \in 3 * k + 1 .. Len(c) : ~IsSaved(c[i]),
           NEW s, IsSeq(s), Len(s) >= 1, IsSaved(s[Len(s)]),
           \A i \in 1 .. Len(s) - 1 : ~IsSaved(s[i])
    PROVE  States(c) \o States(s) = Append(Waiting(c, k), Last(s).blob)
<1>1. States(c) = Waiting(c, k)
  BY ControlStates
<1>2. States(s) = <<Last(s).blob>>
  BY StackStatesTop
<1> DEFINE x == Last(s).blob
<1> HIDE DEF x
<1>3. Waiting(c, k) \o <<x>> = Append(Waiting(c, k), x)
  BY WaitingSeq, ConcatTop
<1> QED BY <1>1, <1>2, <1>3 DEF x

(* A map begins, or goes on, or ends: whatever of it is added to those     *)
(* that wait, is applied to its next column.                               *)
LEMMA MapStepActive ==
    ASSUME Inv, RowsInv, NEW k \in Nat, Len(vm_c) = 3 * k + 1, Frames(vm_c, k),
           NEW s, IsSeq(s), AllGood(s), \A i \in 1 .. Len(s) : IsPlain(s[i]),
           NEW fn, IsPlain(fn), Good(fn), NEW state, GoodState(state),
           MapStep(s, fn, state)
    PROVE  /\ AllGood(vm_c') /\ AllGood(vm_s')
           /\ IF Exhausted(state)
              THEN Active' = Waiting(vm_c, k) /\ applied' = applied
              ELSE /\ Active' = Append(Waiting(vm_c, k), Advanced(state))
                   /\ applied' = NextColumn(state)
<1>1. IsSeq(vm_c) /\ AllGood(vm_c) /\ vm_c # <<>>
  BY EmptyIsSeq DEF Inv, RowsInv
<1>2. /\ IsSeq(Front(vm_c)) /\ Len(Front(vm_c)) = 3 * k /\ AllGood(Front(vm_c))
      /\ \A i \in 1 .. 3 * k : Front(vm_c)[i] = vm_c[i]
  <2>1. /\ IsSeq(Front(vm_c)) /\ Len(Front(vm_c)) = Len(vm_c) - 1
        /\ \A i \in 1 .. Len(vm_c) - 1 : Front(vm_c)[i] = vm_c[i]
    BY <1>1, FrontSeq
  <2>2. Len(vm_c) - 1 = 3 * k
    OBVIOUS
  <2> QED BY <1>1, <2>1, <2>2, GoodFront
<1>3. CASE Exhausted(state)
  <2>1. vm_s' = s /\ vm_c' = Front(vm_c) /\ applied' = applied
    BY <1>3 DEF MapStep
  <2> DEFINE c == Front(vm_c)
  <2>2. Frames(c, k)
    BY <1>1, ControlFront
  <2>3. /\ IsSeq(c) /\ 3 * k <= Len(c)
        /\ \A i \in 3 * k + 1 .. Len(c) : ~IsSaved(c[i])
    BY <1>2
  <2>4. \A i \in 1 .. Len(s) : ~IsSaved(s[i])
    BY DEF IsPlain
  <2>5. Waiting(c, k) = Waiting(vm_c, k)
    <3>1. \A i \in 1 .. 3 * k - 1 : c[i] = vm_c[i]
      BY <1>2
    <3> QED BY <3>1, SameWaiting
  <2>6. Active' = States(c) \o States(s)
    BY <2>1 DEF Active
  <2> HIDE DEF c
  <2>7. Active' = Waiting(vm_c, k)
    BY <2>2, <2>3, <2>4, <2>5, <2>6, ActivePlain
  <2> QED BY <1>2, <1>3, <2>1, <2>7
<1>4. CASE ~Exhausted(state)
  <2> DEFINE args == Bndl(NextColumn(state))
             next == Advanced(state)
             c == GoesOn(vm_c, fn, next)
             t == Append(s, args)
  <2>1. vm_s' = t /\ vm_c' = c /\ applied' = NextColumn(state)
    BY <1>4 DEF MapStep, GoesOn
  <2>2. GoodState(next) /\ IsState(next) /\ Good(args)
    BY <1>4, NextColumnGood DEF GoodState
  <2>3. IsPlain(args)
    BY BndlKind
  <2> HIDE DEF args, next
  <2>4. WillApply(c, k, vm_c, fn, next)
    BY <1>1, <2>2, ControlSchedule
  <2>5. AllGood(c)
    <3>1. IsSeq(Schedule(fn, next)) /\ AllGood(Schedule(fn, next))
      BY <2>2, ScheduleSeq, GoodSchedule
    <3> QED BY <1>2, <3>1, GoodConcat DEF GoesOn
  <2>6. /\ IsSeq(t) /\ AllGood(t) /\ Len(t) = Len(s) + 1 /\ t[Len(s) + 1] = args
        /\ \A i \in 1 .. Len(s) : t[i] = s[i]
    BY <2>2, AppendSeq, GoodAppend
  <2>7. \A i \in 1 .. Len(t) : ~IsSaved(t[i])
    <3>1. Len(s) \in Nat
      BY SeqType
    <3> HIDE DEF t
    <3> QED BY <2>3, <2>6, <3>1 DEF IsPlain
  <2>8. Active' = States(c) \o States(t)
    BY <2>1 DEF Active
  <2> HIDE DEF c, t
  <2> DEFINE m == k + 1
  <2>9. /\ IsSeq(c) /\ m \in Nat /\ Frames(c, m) /\ 3 * m <= Len(c)
        /\ \A i \in 3 * m + 1 .. Len(c) : ~IsSaved(c[i])
    <3>1. /\ IsSeq(c) /\ Len(c) = 3 * m + 2 /\ Frames(c, m)
          /\ c[3 * m + 1] = ApplyCommand /\ c[3 * m + 2] = fn /\ m \in Nat
      BY <2>4 DEF WillApply
    <3> HIDE DEF m
    <3>2. ~IsSaved(ApplyCommand) /\ ~IsSaved(fn)
      BY CommandKind DEF Commands, IsPlain
    <3>3. \A i \in 3 * m + 1 .. Len(c) : i = 3 * m + 1 \/ i = 3 * m + 2
      BY <3>1
    <3>4. \A i \in 3 * m + 1 .. Len(c) : ~IsSaved(c[i])
      BY <3>1, <3>2, <3>3
    <3> QED BY <3>1, <3>4
  <2> HIDE DEF m
  <2>10. Active' = Waiting(c, m)
    BY <2>6, <2>7, <2>8, <2>9, ActivePlain
  <2>11. Waiting(c, m) = Append(Waiting(vm_c, k), next)
    <3>1. \A i \in 1 .. 3 * k : c[i] = vm_c[i]
      BY <2>4 DEF WillApply
    <3>2. c[3 * k + 2].blob = next
      BY <2>4, SavedKind DEF WillApply
    <3>3. Waiting(c, k + 1) = Append(Waiting(vm_c, k), c[3 * k + 2].blob)
      BY <3>1, WaitingMore
    <3> QED BY <3>2, <3>3 DEF m
  <2> QED BY <1>4, <2>1, <2>5, <2>6, <2>10, <2>11 DEF next
<1> QED BY <1>3, <1>4

LEMMA ActiveNow ==
    ASSUME Inv, NEW k \in Nat, Frames(vm_c, k),
           Called(k) \/ Scheduled(k) \/ Applying(k) \/ Returned(k)
    PROVE  Active = Waiting(vm_c, k)
<1>1. IsSeq(vm_c) /\ IsSeq(vm_s) /\ Len(vm_s) \in Nat
  BY SeqType DEF Inv
<1>2. ~IsSaved(MapCommand) /\ ~IsSaved(ApplyCommand)
  BY CommandKind DEF Commands
<1>3. 3 * k <= Len(vm_c) /\ \A i \in 3 * k + 1 .. Len(vm_c) : ~IsSaved(vm_c[i])
  BY <1>2 DEF Called, Scheduled, Applying, Returned, IsPlain
<1>4. \A i \in 1 .. Len(vm_s) : ~IsSaved(vm_s[i])
  <2>1. \A e : IsValue(e) => ~IsSaved(e)
    BY DEF IsValue, IsPlain
  <2>2. CASE Called(k)
    <3>1. ~IsSaved(vm_s[Len(vm_s)])
      BY <2>2, BndlKind DEF Called, IsPlain
    <3> QED BY <1>1, <2>1, <2>2, <3>1 DEF Called, Values
  <2>3. CASE Scheduled(k) \/ Returned(k)
    BY <2>1, <2>3 DEF Scheduled, Returned, Values
  <2>4. CASE Applying(k)
    BY <1>1, <2>1, <2>4 DEF Applying, Values, IsPlain
  <2> QED BY <2>2, <2>3, <2>4
<1>5. States(vm_c) \o States(vm_s) = Waiting(vm_c, k)
  BY <1>1, <1>3, <1>4, ActivePlain
<1> QED BY <1>5 DEF Active

LEMMA ActiveStateBack ==
    ASSUME Inv, NEW k \in Nat, Frames(vm_c, k), StateBack(k)
    PROVE  Active = Append(Waiting(vm_c, k), Last(vm_s).blob)
<1>1. IsSeq(vm_c) /\ IsSeq(vm_s) /\ Len(vm_s) \in Nat
  BY SeqType DEF Inv
<1>2. ~IsSaved(MapRestCommand)
  BY CommandKind DEF Commands
<1>3. 3 * k <= Len(vm_c) /\ \A i \in 3 * k + 1 .. Len(vm_c) : ~IsSaved(vm_c[i])
  BY <1>2 DEF StateBack
<1>4. Len(vm_s) >= 1 /\ IsSaved(vm_s[Len(vm_s)])
  BY <1>1 DEF StateBack
<1>5. \A i \in 1 .. Len(vm_s) - 1 : ~IsSaved(vm_s[i])
  BY <1>1 DEF StateBack, Values, IsValue, IsPlain
<1>6. States(vm_c) \o States(vm_s) = Append(Waiting(vm_c, k), Last(vm_s).blob)
  BY <1>1, <1>3, <1>4, <1>5, ActiveBack
<1> QED BY <1>6 DEF Active

(* A control with no more on top of its frames than a command. *)
LEMMA StillWaiting ==
    ASSUME NEW k \in Nat, Frames(vm_c, k), Active = Waiting(vm_c, k),
           IsSeq(vm_c'), 3 * k <= Len(vm_c'),
           \A i \in 1 .. 3 * k : vm_c'[i] = vm_c[i],
           \A i \in 3 * k + 1 .. Len(vm_c') : ~IsSaved(vm_c'[i]),
           IsSeq(vm_s'), \A i \in 1 .. Len(vm_s') : ~IsSaved(vm_s'[i])
    PROVE  Active' = Active
<1>1. Frames(vm_c', k)
  BY DEF Frames
<1>2. States(vm_c') \o States(vm_s') = Waiting(vm_c', k)
  BY <1>1, ActivePlain
<1>3. Waiting(vm_c', k) = Waiting(vm_c, k)
  <2>1. \A i \in 1 .. 3 * k - 1 : vm_c'[i] = vm_c[i]
    OBVIOUS
  <2> QED BY <2>1, SameWaiting
<1> QED BY <1>2, <1>3 DEF Active

(* What is shown of every step. *)
StepKeepsPromise == RowsInv' /\ [Maps!Next]_(Maps!vars)

LEMMA NoStep ==
    ASSUME Active' = Active, UNCHANGED applied PROVE UNCHANGED Maps!vars
BY DEF Maps!vars

LEMMA AllGoodRows ==
    ASSUME AllGood(vm_c'), AllGood(vm_s') PROVE RowsInv'
BY DEF RowsInv, AllGood

LEMMA InitRows == Init => RowsInv /\ Maps!Init
<1> SUFFICES ASSUME Init PROVE RowsInv /\ Maps!Init
  OBVIOUS
<1>1. /\ IsSeq(vm_s) /\ Len(vm_s) = 1 /\ vm_s[1] = Bndl(argument)
      /\ IsSeq(vm_c) /\ Len(vm_c) = 1 /\ vm_c[1] = MapCommand
  BY OneIsSeq DEF Init
<1>2. Runs(MapCommand)
  BY <1>1, EmptyIsSeq DEF Runs, Last
<1>3. RowsInv
  <2>1. \A i \in 1 .. Len(vm_s) : i = Len(vm_s)
    BY <1>1
  <2>2. \A i \in 1 .. Len(vm_c) : i = 1
    BY <1>1
  <2>3. Good(MapCommand)
    BY CommandGood DEF Commands
  <2> QED BY <1>1, <1>2, <2>1, <2>2, <2>3 DEF RowsInv, AllGood
<1>4. Called(0) /\ Frames(vm_c, 0) /\ 0 \in Nat
  BY <1>1 DEF Init, Called, Values, Frames
<1>5. Active = Waiting(vm_c, 0)
  BY <1>4, InitInv, ActiveNow
<1>6. MapsOf(Active) = <<>>
  <2> DEFINE w == Waiting(vm_c, 0)
  <2>1. IsSeq(w) /\ Len(w) = 0
    BY WaitingSeq
  <2> HIDE DEF w
  <2>2. IsSeq(MapsOf(w)) /\ Len(MapsOf(w)) = 0
    BY <2>1, MapsOfSeq
  <2>3. MapsOf(w) = <<>>
    BY <2>2, EmptySeq DEF IsSeq
  <2> QED BY <1>5, <2>3 DEF w
<1> QED BY <1>3, <1>6 DEF Init, Maps!Init

-----------------------------------------------------------------------------
LEMMA AdvancedProgress ==
    ASSUME NEW state
    PROVE  Progress(Advanced(state)) = [arg |-> state.rows, done |-> state.count + 1]
BY DEF Progress, Advanced, MapState

LEMMA MapKeeps == ASSUME Inv, RowsInv, Map PROVE StepKeepsPromise
<1>1. PICK k \in Nat : Frames(vm_c, k) /\ Called(k)
  BY AtMap DEF Map
<1> DEFINE u == Unpacked
           n == Len(u)
<1>2. /\ IsSeq(u) /\ AllGood(u)
      /\ \A i \in 1 .. Len(u) : IsPlain(u[i])
  BY <1>1, UnpackedSeq, GoodUnpacked
<1>3. n \in Nat /\ n >= 2
  BY <1>2, SeqType DEF Map
<1> DEFINE bundle == FromTop(u, 1)
           rows == RowsOf(bundle)
           state == MapState(rows, [j \in DOMAIN rows |-> 1], 0)
           s == DropTop(u, 2)
           fn == Last(u)
<1>4. MapStep(s, fn, state) /\ IsMappable(bundle)
  BY DEF Map
<1>5. IsPlain(fn) /\ Good(fn) /\ IsPlain(bundle) /\ Good(bundle)
  <2>1. fn = u[n] /\ bundle = u[n - 1] /\ n \in 1 .. n /\ n - 1 \in 1 .. n
    BY <1>3 DEF Last, FromTop
  <2> HIDE DEF u
  <2> QED BY <1>2, <2>1 DEF AllGood
<1>6. rows \in RowSets
  BY <1>4, <1>5 DEF Good
<1>7. state.rows = rows /\ state.count = 0 /\ state.cursors = [j \in DOMAIN rows |-> 1]
  BY DEF MapState
<1>8. GoodState(state)
  <2>1. IsState(state)
    BY DEF IsState, MapState
  <2>2. 0 + 1 = 1
    OBVIOUS
  <2> HIDE DEF state, rows
  <2> QED BY <1>6, <1>7, <2>1, <2>2 DEF GoodState
<1>9. IsSeq(s) /\ AllGood(s) /\ \A i \in 1 .. Len(s) : IsPlain(s[i])
  <2> HIDE DEF u
  <2>1. 2 \in Nat /\ 2 <= Len(u) /\ Len(u) \in Nat
    BY <1>3 DEF n
  <2>2. \A i \in 1 .. Len(u) - 2 : Good(u[i])
    BY <1>2, <2>1 DEF AllGood
  <2>3. /\ IsSeq(s) /\ Len(s) = Len(u) - 2
        /\ \A i \in 1 .. Len(u) - 2 : s[i] = u[i]
    BY <1>2, <2>1, DropSeq
  <2>4. AllGood(s)
    BY <1>2, <2>1, <2>2, GoodDrop
  <2> QED BY <1>2, <2>1, <2>3, <2>4
<1> HIDE DEF u, bundle, rows, s, fn
<1>10. /\ AllGood(vm_c') /\ AllGood(vm_s')
       /\ IF Exhausted(state)
          THEN Active' = Waiting(vm_c, k) /\ applied' = applied
          ELSE /\ Active' = Append(Waiting(vm_c, k), Advanced(state))
               /\ applied' = NextColumn(state)
  <2> HIDE DEF state
  <2> QED BY <1>1, <1>4, <1>5, <1>8, <1>9, MapStepActive DEF Called
<1>11. Active = Waiting(vm_c, k)
  BY <1>1, ActiveNow
<1>12. CASE Exhausted(state)
  BY <1>10, <1>11, <1>12, AllGoodRows, NoStep DEF StepKeepsPromise
<1>13. CASE ~Exhausted(state)
  <2>1. /\ Active' = Append(Active, Advanced(state))
        /\ applied' = NextColumn(state)
    BY <1>10, <1>11, <1>13
  <2>2. /\ Maps!HasColumn(rows, 1) /\ NextColumn(state) = Maps!Column(rows, 1)
    <3>1. state.count + 1 = 1
      BY <1>7
    <3> HIDE DEF state
    <3> QED BY <1>7, <1>8, <1>13, <3>1, NextColumnGood
  <2>3. Progress(Advanced(state)) = [arg |-> rows, done |-> 1]
    <3>1. state.count + 1 = 1
      BY <1>7
    <3> HIDE DEF state
    <3> QED BY <1>7, <3>1, AdvancedProgress
  <2> HIDE DEF state
  <2>4. MapsOf(Active') = Append(MapsOf(Active), Progress(Advanced(state)))
    <3>1. IsSeq(Active)
      BY <1>11, WaitingSeq
    <3> QED BY <2>1, <3>1, MapsOfMore
  <2>5. Maps!Begin(rows)
    BY <2>1, <2>2, <2>3, <2>4 DEF Maps!Begin
  <2>6. Maps!Next
    BY <1>6, <2>5 DEF Maps!Next
  <2> QED BY <1>10, <2>6, AllGoodRows DEF StepKeepsPromise
<1> QED BY <1>12, <1>13

(* The innermost of the maps that ZipMap sees. *)
LEMMA Innermost ==
    ASSUME NEW w, IsSeq(w), NEW state, NEW m, m = MapsOf(Append(w, state))
    PROVE  /\ m # <<>> /\ Len(m) = Len(w) + 1 /\ IsSeq(m)
           /\ m[Len(m)] = Progress(state)
           /\ SubSeq(m, 1, Len(m) - 1) = MapsOf(w)
           /\ [m EXCEPT ![Len(m)].done = @ + 1] =
                  Append(MapsOf(w), [arg |-> state.rows, done |-> state.count + 1])
<1>1. IsSeq(MapsOf(w)) /\ Len(MapsOf(w)) = Len(w) /\ Len(w) \in Nat
  BY MapsOfSeq, SeqType
<1> DEFINE v == MapsOf(w)
           p == Progress(state)
<1> HIDE DEF v, p
<1>2. m = Append(v, p) /\ IsSeq(v) /\ Len(v) = Len(w)
  BY <1>1, MapsOfMore DEF v, p
<1>3. /\ IsSeq(m) /\ Len(m) = Len(v) + 1 /\ m[Len(v) + 1] = p
      /\ \A i \in 1 .. Len(v) : m[i] = v[i]
  BY <1>2, AppendSeq
<1>4. m # <<>>
  BY <1>1, <1>2, <1>3, EmptyIsSeq
<1>5. SubSeq(m, 1, Len(m) - 1) = v
  <2> DEFINE t == SubSeq(m, 1, Len(m) - 1)
  <2>1. t = DropTop(m, 1)
    BY DEF DropTop
  <2>2. 1 \in Nat /\ 1 <= Len(m)
    BY <1>1, <1>2, <1>3
  <2> HIDE DEF t
  <2>3. /\ IsSeq(t) /\ Len(t) = Len(m) - 1 /\ \A i \in 1 .. Len(m) - 1 : t[i] = m[i]
    BY <1>3, <2>1, <2>2, DropSeq
  <2>4. Len(t) = Len(v) /\ \A i \in 1 .. Len(t) : t[i] = v[i]
    BY <1>1, <1>2, <1>3, <2>3
  <2>5. PICK S : t \in Seq(S) /\ v \in Seq(S)
    BY <1>2, <2>3, CommonElements
  <2>6. t = v
    BY <2>4, <2>5, SeqEqual
  <2> QED BY <2>6 DEF t
<1>6. [m EXCEPT ![Len(m)].done = @ + 1] =
         Append(v, [arg |-> state.rows, done |-> state.count + 1])
  <2> DEFINE q == [arg |-> state.rows, done |-> state.count + 1]
             t == [m EXCEPT ![Len(m)].done = @ + 1]
             a == Append(v, q)
  <2>1. p = [arg |-> state.rows, done |-> state.count]
    BY DEF p, Progress
  <2>2. [p EXCEPT !.done = @ + 1] = q
    BY <2>1
  <2>3. DOMAIN m = 1 .. Len(m) /\ Len(m) \in Nat /\ Len(m) \in DOMAIN m
    BY <1>1, <1>2, <1>3, SeqType
  <2>4. t = [i \in 1 .. Len(m) |->
               IF i = Len(m) THEN [m[Len(m)] EXCEPT !.done = @ + 1] ELSE m[i]]
    BY <2>3
  <2> HIDE DEF q, t
  <2>5. /\ IsSeq(a) /\ Len(a) = Len(v) + 1 /\ a[Len(v) + 1] = q
        /\ \A i \in 1 .. Len(v) : a[i] = v[i]
    BY <1>2, AppendSeq
  <2> HIDE DEF a
  <2>6. t = [i \in 1 .. Len(m) |-> IF i = Len(m) THEN q ELSE m[i]]
    BY <1>3, <2>2, <2>4
  <2>7. ASSUME NEW i \in 1 .. Len(m) PROVE t[i] = a[i]
    BY <1>1, <1>2, <1>3, <2>3, <2>5, <2>6
  <2>8. a = [i \in 1 .. Len(m) |-> a[i]]
    <3>1. Len(a) = Len(m) /\ a \in [1 .. Len(a) -> Range(a)]
      BY <1>3, <2>5, LenProperties DEF IsSeq
    <3> QED BY <3>1
  <2>9. t = a
    BY <2>6, <2>7, <2>8
  <2> QED BY <2>9 DEF t, a, q
<1> QED BY <1>1, <1>2, <1>3, <1>4, <1>5, <1>6 DEF v, p

LEMMA MapRestKeeps == ASSUME Inv, RowsInv, MapRest PROVE StepKeepsPromise
<1>1. PICK k \in Nat : Frames(vm_c, k) /\ StateBack(k)
  BY AtMapRest DEF MapRest
<1> DEFINE state == Last(vm_s).blob
           s == DropTop(vm_s, 2)
           fn == FromTop(vm_s, 1)
           w == Waiting(vm_c, k)
<1>2. IsSeq(vm_s) /\ Len(vm_s) \in Nat /\ Len(vm_s) >= 2
  BY <1>1, SeqType DEF Inv, StateBack
<1>3. \A i \in 1 .. Len(vm_s) : Good(vm_s[i])
  <2>1. ~Runs(MapCommand)
    BY CommandsDiffer DEF MapRest, Runs
  <2> QED BY <2>1 DEF RowsInv
<1>4. MapStep(s, fn, state)
  BY <1>2 DEF MapRest
<1>5. IsPlain(fn) /\ Good(fn) /\ GoodState(state)
  <2>1. Len(vm_s) \in 1 .. Len(vm_s) /\ Len(vm_s) - 1 \in 1 .. Len(vm_s)
    BY <1>2
  <2> QED BY <1>1, <1>3, <2>1 DEF StateBack, FromTop, Last, Good
<1>6. IsSeq(s) /\ AllGood(s) /\ \A i \in 1 .. Len(s) : IsPlain(s[i])
  <2>1. 2 \in Nat /\ 2 <= Len(vm_s)
    BY <1>2
  <2>2. \A i \in 1 .. Len(vm_s) - 2 : Good(vm_s[i]) /\ IsValue(vm_s[i])
    BY <1>1, <1>2, <1>3 DEF StateBack, Values
  <2>3. AllGood(s) /\ IsSeq(s) /\ \A i \in 1 .. Len(s) : IsValue(s[i])
    BY <1>2, <2>1, <2>2, GoodDrop, ValuesBelow
  <2> QED BY <2>3 DEF IsValue
<1>7. Active = Append(w, state)
  BY <1>1, ActiveStateBack
<1> HIDE DEF state, s, fn
<1>8. /\ AllGood(vm_c') /\ AllGood(vm_s')
      /\ IF Exhausted(state)
         THEN Active' = w /\ applied' = applied
         ELSE /\ Active' = Append(w, Advanced(state))
              /\ applied' = NextColumn(state)
  BY <1>1, <1>4, <1>5, <1>6, MapStepActive DEF StateBack
<1>9. IsSeq(w)
  BY WaitingSeq
<1> HIDE DEF w
<1> DEFINE m == MapsOf(Active)
<1>10. m = MapsOf(Append(w, state))
  BY <1>7
<1> HIDE DEF m
<1>11. /\ m # <<>> /\ m[Len(m)] = Progress(state)
       /\ SubSeq(m, 1, Len(m) - 1) = MapsOf(w)
       /\ [m EXCEPT ![Len(m)].done = @ + 1] =
              Append(MapsOf(w), [arg |-> state.rows, done |-> state.count + 1])
  BY <1>9, <1>10, Innermost
<1>12. m[Len(m)].arg = state.rows /\ m[Len(m)].done = state.count
  BY <1>11 DEF Progress
<1>13. CASE Exhausted(state)
  <2>1. MapsOf(Active') = SubSeq(m, 1, Len(m) - 1) /\ applied' = applied
    BY <1>8, <1>11, <1>13
  <2>2. ~Maps!HasColumn(m[Len(m)].arg, m[Len(m)].done + 1)
    BY <1>5, <1>12, <1>13, ExhaustedGood
  <2>3. Maps!Finish
    BY <1>11, <2>1, <2>2 DEF Maps!Finish, m
  <2> QED BY <1>8, <2>3, AllGoodRows DEF StepKeepsPromise, Maps!Next
<1>14. CASE ~Exhausted(state)
  <2>1. /\ Maps!HasColumn(m[Len(m)].arg, m[Len(m)].done + 1)
        /\ applied' = Maps!Column(m[Len(m)].arg, m[Len(m)].done + 1)
    BY <1>5, <1>8, <1>12, <1>14, NextColumnGood
  <2>2. MapsOf(Active') = [m EXCEPT ![Len(m)].done = @ + 1]
    <3>1. MapsOf(Append(w, Advanced(state))) =
             Append(MapsOf(w), Progress(Advanced(state)))
      BY <1>9, MapsOfMore
    <3> QED BY <1>8, <1>11, <1>14, <3>1, AdvancedProgress
  <2>3. Maps!Advance
    BY <1>11, <2>1, <2>2 DEF Maps!Advance, m
  <2> QED BY <1>8, <2>3, AllGoodRows DEF StepKeepsPromise, Maps!Next
<1> QED BY <1>13, <1>14

LEMMA AllGoodUnpacked ==
    ASSUME Inv, RowsInv, Runs(MapCommand) PROVE AllGood(Unpacked)
BY AtMap, GoodUnpacked

(* The other steps begin, advance and end no map. *)
LEMMA MapFailsKeeps ==
    ASSUME Inv, RowsInv, Runs(MapCommand), AllPlain(vm_s'), AllGood(vm_s'),
           vm_c' = Front(vm_c), UNCHANGED applied
    PROVE  StepKeepsPromise
<1>1. PICK k \in Nat : Frames(vm_c, k) /\ Called(k)
  BY AtMap
<1>2. IsSeq(vm_c) /\ vm_c # <<>> /\ Len(vm_c) = 3 * k + 1 /\ AllGood(vm_c)
  BY <1>1 DEF Inv, Runs, Called, RowsInv
<1>3. /\ IsSeq(vm_c') /\ Len(vm_c') = 3 * k
      /\ \A i \in 1 .. 3 * k : vm_c'[i] = vm_c[i]
  <2>1. /\ IsSeq(vm_c') /\ Len(vm_c') = Len(vm_c) - 1
        /\ \A i \in 1 .. Len(vm_c) - 1 : vm_c'[i] = vm_c[i]
    BY <1>2, FrontSeq
  <2>2. Len(vm_c) - 1 = 3 * k
    BY <1>2
  <2> QED BY <2>1, <2>2
<1>4. AllGood(vm_c')
  BY <1>2, GoodFront
<1>5. /\ IsSeq(vm_s') /\ AllGood(vm_s')
      /\ \A i \in 1 .. Len(vm_s') : ~IsSaved(vm_s'[i])
  BY DEF AllPlain, IsPlain
<1>6. 3 * k <= Len(vm_c') /\ \A i \in 3 * k + 1 .. Len(vm_c') : ~IsSaved(vm_c'[i])
  BY <1>3
<1>7. Active' = Active
  BY <1>1, <1>3, <1>5, <1>6, ActiveNow, StillWaiting
<1> QED BY <1>4, <1>5, <1>7, AllGoodRows, NoStep DEF StepKeepsPromise

LEMMA ApplyLeavesKeeps == ASSUME Inv, RowsInv, ApplyLeaves PROVE StepKeepsPromise
<1>1. PICK k \in Nat : Frames(vm_c, k) /\ Applying(k)
  BY AtApply DEF ApplyLeaves
<1>2. /\ IsSeq(vm_s) /\ Len(vm_s) \in Nat /\ Len(vm_s) >= 2
      /\ IsSeq(vm_c) /\ vm_c # <<>> /\ Len(vm_c) = 3 * k + 1 /\ AllGood(vm_c)
  BY <1>1, SeqType DEF Inv, ApplyLeaves, Applying, Runs, RowsInv
<1>3. /\ IsSeq(vm_c') /\ Len(vm_c') = 3 * k
      /\ \A i \in 1 .. 3 * k : vm_c'[i] = vm_c[i]
  <2>1. /\ IsSeq(vm_c') /\ Len(vm_c') = Len(vm_c) - 1
        /\ \A i \in 1 .. Len(vm_c) - 1 : vm_c'[i] = vm_c[i]
    BY <1>2, FrontSeq DEF ApplyLeaves
  <2>2. Len(vm_c) - 1 = 3 * k
    BY <1>2
  <2> QED BY <2>1, <2>2
<1>4. AllGood(vm_c')
  BY <1>2, GoodFront DEF ApplyLeaves
<1>5. \A i \in 1 .. Len(vm_s) - 1 : Good(vm_s[i]) /\ IsValue(vm_s[i])
  BY <1>1, <1>2 DEF Applying, Values, RowsInv
<1>6. PICK n \in {1, 2} : vm_s' = DropTop(vm_s, n)
  BY DEF ApplyLeaves, Front, DropTop
<1>7. /\ n \in Nat /\ n <= Len(vm_s)
      /\ \A i \in 1 .. Len(vm_s) - n : Good(vm_s[i]) /\ IsValue(vm_s[i])
  BY <1>2, <1>5
<1>8. /\ IsSeq(vm_s') /\ AllGood(vm_s')
      /\ \A i \in 1 .. Len(vm_s') : IsValue(vm_s'[i])
  BY <1>2, <1>6, <1>7, ValuesBelow, GoodDrop
<1>9. \A i \in 1 .. Len(vm_s') : ~IsSaved(vm_s'[i])
  BY <1>8 DEF IsValue, IsPlain
<1>10. 3 * k <= Len(vm_c') /\ \A i \in 3 * k + 1 .. Len(vm_c') : ~IsSaved(vm_c'[i])
  BY <1>3
<1>11. Active' = Active
  BY <1>1, <1>3, <1>8, <1>9, <1>10, ActiveNow, StillWaiting
<1>12. UNCHANGED applied
  BY DEF ApplyLeaves
<1> QED BY <1>4, <1>8, <1>11, <1>12, AllGoodRows, NoStep DEF StepKeepsPromise

LEMMA ApplyMapsKeeps ==
    ASSUME Inv, RowsInv, NEW arg \in Arguments, ApplyMaps(arg) PROVE StepKeepsPromise
<1>1. PICK k \in Nat : Frames(vm_c, k) /\ Applying(k)
  BY AtApply DEF ApplyMaps
<1>2. /\ IsSeq(vm_s) /\ Len(vm_s) \in Nat /\ Len(vm_s) >= 2
      /\ IsSeq(vm_c) /\ vm_c # <<>> /\ Len(vm_c) = 3 * k + 1 /\ AllGood(vm_c)
  BY <1>1, SeqType DEF Inv, ApplyMaps, Applying, Runs, RowsInv
<1> DEFINE below == Front(vm_c)
           s == DropTop(vm_s, 2)
<1>3. /\ IsSeq(below) /\ Len(below) = 3 * k /\ AllGood(below)
      /\ \A i \in 1 .. 3 * k : below[i] = vm_c[i]
  <2>1. /\ IsSeq(below) /\ Len(below) = Len(vm_c) - 1
        /\ \A i \in 1 .. Len(vm_c) - 1 : below[i] = vm_c[i]
    BY <1>2, FrontSeq
  <2>2. Len(vm_c) - 1 = 3 * k
    BY <1>2
  <2> QED BY <1>2, <2>1, <2>2, GoodFront
<1>4. IsSeq(s) /\ AllGood(s) /\ \A i \in 1 .. Len(s) : IsValue(s[i])
  <2>1. \A i \in 1 .. Len(vm_s) - 2 : Good(vm_s[i]) /\ IsValue(vm_s[i])
    BY <1>1, <1>2 DEF Applying, Values, RowsInv
  <2> QED BY <1>2, <2>1, ValuesBelow, GoodDrop
<1>5. vm_c' = Append(below, MapCommand) /\ vm_s' = Append(s, Bndl(arg))
      /\ UNCHANGED applied
  BY DEF ApplyMaps
<1> HIDE DEF below, s
<1>6. /\ IsSeq(vm_c') /\ Len(vm_c') = 3 * k + 1 /\ vm_c'[3 * k + 1] = MapCommand
      /\ \A i \in 1 .. 3 * k : vm_c'[i] = vm_c[i]
  <2>1. /\ IsSeq(vm_c') /\ Len(vm_c') = Len(below) + 1
        /\ vm_c'[Len(below) + 1] = MapCommand
        /\ \A i \in 1 .. Len(below) : vm_c'[i] = below[i]
    BY <1>3, <1>5, AppendSeq
  <2> QED BY <1>3, <2>1
<1>7. AllGood(vm_c')
  <2>1. Good(MapCommand)
    BY CommandGood DEF Commands
  <2> QED BY <1>3, <1>5, <2>1, GoodAppend
<1>8. /\ IsSeq(vm_s') /\ Len(s) \in Nat /\ Len(vm_s') = Len(s) + 1
      /\ vm_s'[Len(s) + 1] = Bndl(arg)
      /\ \A i \in 1 .. Len(s) : vm_s'[i] = s[i]
  BY <1>4, <1>5, AppendSeq, SeqType
<1>9. \A i \in 1 .. Len(vm_s') : ~IsSaved(vm_s'[i])
  <2>1. ~IsSaved(Bndl(arg))
    BY BndlKind DEF IsPlain
  <2> QED BY <1>4, <1>8, <2>1 DEF IsValue, IsPlain
<1>10. /\ 3 * k <= Len(vm_c')
       /\ \A i \in 3 * k + 1 .. Len(vm_c') : ~IsSaved(vm_c'[i])
  <2>1. ~IsSaved(MapCommand)
    BY CommandKind DEF Commands
  <2> QED BY <1>6, <2>1
<1>11. Active' = Active
  BY <1>1, <1>6, <1>8, <1>9, <1>10, ActiveNow, StillWaiting
<1>12. Runs(MapCommand)'
  <2>1. vm_c' # <<>>
    BY <1>6, EmptyIsSeq
  <2> QED BY <1>6, <2>1 DEF Runs, Last
<1>13. RowsInv'
  <2>1. \A i \in 1 .. Len(vm_s') : i = Len(vm_s') \/ i \in 1 .. Len(s)
    BY <1>8
  <2>2. \A i \in 1 .. Len(s) : Good(vm_s'[i])
    BY <1>4, <1>8 DEF AllGood
  <2>3. \A i \in 1 .. Len(vm_s') : (i = Len(vm_s') /\ Runs(MapCommand)') \/ Good(vm_s'[i])
    BY <1>12, <2>1, <2>2
  <2> QED BY <1>7, <2>3 DEF RowsInv
<1> QED BY <1>5, <1>11, <1>13, NoStep DEF StepKeepsPromise

LEMMA PushKeeps == ASSUME Inv, RowsInv, Push PROVE StepKeepsPromise
<1>1. PICK k \in Nat : /\ Frames(vm_c, k)
                       /\ Scheduled(k) \/ FunctionBack(k) \/ (k >= 1 /\ Returned(k))
  BY AtPush DEF Push
<1> DEFINE e == Last(vm_c)
<1>2. /\ IsSeq(vm_s) /\ Len(vm_s) \in Nat /\ IsSeq(vm_c) /\ AllGood(vm_c)
      /\ vm_c # <<>> /\ Len(vm_c) \in Nat \ {0} /\ e = vm_c[Len(vm_c)]
  BY SeqType, EmptySeq DEF Inv, Push, RowsInv, Last, IsSeq
<1>3. /\ IsSeq(vm_c') /\ Len(vm_c') = Len(vm_c) - 1 /\ AllGood(vm_c')
      /\ \A i \in 1 .. Len(vm_c) - 1 : vm_c'[i] = vm_c[i]
  BY <1>2, FrontSeq, GoodFront DEF Push
<1>4. AllGood(vm_s)
  <2>1. ~Runs(MapCommand)
    BY DEF Push, Runs, Commands
  <2> QED BY <2>1 DEF RowsInv, AllGood
<1>5. Good(e)
  <2>1. Len(vm_c) \in 1 .. Len(vm_c)
    BY <1>2
  <2> QED BY <1>2, <2>1 DEF AllGood
<1>6. vm_s' = Append(vm_s, e) /\ UNCHANGED applied
  BY DEF Push
<1> HIDE DEF e
<1>7. /\ IsSeq(vm_s') /\ Len(vm_s') = Len(vm_s) + 1 /\ AllGood(vm_s')
      /\ \A i \in 1 .. Len(vm_s) : vm_s'[i] = vm_s[i]
      /\ vm_s'[Len(vm_s) + 1] = e
  BY <1>2, <1>4, <1>5, <1>6, AppendSeq, GoodAppend
<1>8. ASSUME Values(Len(vm_s)), IsPlain(e)
      PROVE  \A i \in 1 .. Len(vm_s') : ~IsSaved(vm_s'[i])
  BY <1>2, <1>7, <1>8 DEF Values, IsValue, IsPlain
<1>9. ASSUME Scheduled(k) PROVE Active' = Active
  <2>1. Len(vm_c) = 3 * k + 2 /\ Values(Len(vm_s)) /\ IsPlain(e)
        /\ vm_c[3 * k + 1] = ApplyCommand
    BY <1>2, <1>9 DEF Scheduled
  <2>2. /\ 3 * k <= Len(vm_c') /\ \A i \in 1 .. 3 * k : vm_c'[i] = vm_c[i]
        /\ \A i \in 3 * k + 1 .. Len(vm_c') : vm_c'[i] = ApplyCommand
    BY <1>3, <2>1
  <2>3. \A i \in 3 * k + 1 .. Len(vm_c') : ~IsSaved(vm_c'[i])
    BY <2>2, CommandKind DEF Commands
  <2>4. Active = Waiting(vm_c, k)
    BY <1>1, <1>9, ActiveNow
  <2> QED BY <1>1, <1>3, <1>7, <1>8, <2>1, <2>2, <2>3, <2>4, StillWaiting
<1>10. ASSUME FunctionBack(k) PROVE Active' = Active
  <2>1. /\ Len(vm_c) = 3 * k + 2 /\ vm_c[3 * k + 1] = MapRestCommand
        /\ IsSaved(vm_c[3 * k + 2]) /\ e = vm_c[3 * k + 2]
        /\ Len(vm_s) >= 1 /\ Values(Len(vm_s) - 1) /\ IsPlain(vm_s[Len(vm_s)])
    BY <1>2, <1>10 DEF FunctionBack
  <2>2. \A i \in 1 .. Len(vm_s) : ~IsSaved(vm_s[i])
    BY <1>2, <2>1 DEF Values, IsValue, IsPlain
  <2>3. Active = Append(Waiting(vm_c, k), e.blob)
    <3>1. States(vm_c) = Waiting(vm_c, k + 1)
      BY <1>1, <1>2, <2>1, ControlStatesBack
    <3>2. States(vm_s) = <<>>
      BY <1>2, <2>2, StackStates
    <3>3. Waiting(vm_c, k + 1) = Append(Waiting(vm_c, k), e.blob)
      BY <2>1, WaitingMore
    <3>4. IsSeq(Waiting(vm_c, k + 1))
      <4>1. k + 1 \in Nat
        OBVIOUS
      <4> QED BY <4>1, WaitingSeq
    <3>5. Waiting(vm_c, k + 1) \o <<>> = Waiting(vm_c, k + 1)
      BY <3>4, ConcatNone
    <3> QED BY <3>1, <3>2, <3>3, <3>5 DEF Active
  <2>4. /\ 3 * k <= Len(vm_c') /\ \A i \in 1 .. 3 * k : vm_c'[i] = vm_c[i]
        /\ \A i \in 3 * k + 1 .. Len(vm_c') : vm_c'[i] = MapRestCommand
    BY <1>3, <2>1
  <2>5. \A i \in 3 * k + 1 .. Len(vm_c') : ~IsSaved(vm_c'[i])
    BY <2>4, CommandKind DEF Commands
  <2>6. Frames(vm_c', k)
    BY <1>1, <2>4 DEF Frames
  <2>7. /\ Len(vm_s') >= 1 /\ IsSaved(vm_s'[Len(vm_s')]) /\ Last(vm_s') = e
        /\ \A i \in 1 .. Len(vm_s') - 1 : ~IsSaved(vm_s'[i])
    BY <1>2, <1>7, <2>1, <2>2 DEF Last
  <2>8. States(vm_c') \o States(vm_s') = Append(Waiting(vm_c', k), Last(vm_s').blob)
    BY <1>3, <1>7, <2>4, <2>5, <2>6, <2>7, ActiveBack
  <2>9. Waiting(vm_c', k) = Waiting(vm_c, k)
    <3>1. \A i \in 1 .. 3 * k - 1 : vm_c'[i] = vm_c[i]
      BY <2>4
    <3> QED BY <3>1, SameWaiting
  <2> QED BY <2>3, <2>7, <2>8, <2>9 DEF Active
<1>11. ASSUME k >= 1, Returned(k) PROVE Active' = Active
  <2>1. Len(vm_c) = 3 * k /\ Values(Len(vm_s))
    BY <1>11 DEF Returned
  <2>2. /\ vm_c[3 * k - 2] = MapRestCommand
        /\ IsSaved(vm_c[3 * k - 1]) /\ IsPlain(vm_c[3 * k])
    <3>1. k \in 1 .. k
      BY <1>11
    <3> QED BY <1>1, <3>1 DEF Frames
  <2> DEFINE m == k - 1
  <2>3. /\ m \in Nat /\ k = m + 1 /\ Len(vm_c') = 3 * m + 2
        /\ 3 * k - 2 = 3 * m + 1 /\ 3 * k - 1 = 3 * m + 2
    BY <1>3, <1>11, <2>1
  <2> HIDE DEF m
  <2>4. \A i \in 1 .. 3 * k - 1 : vm_c'[i] = vm_c[i]
    BY <1>3, <2>1
  <2>5. Frames(vm_c', m)
    <3>1. \A j \in 1 .. m : /\ j \in 1 .. k /\ 3 * j - 2 \in 1 .. 3 * k - 1
                            /\ 3 * j - 1 \in 1 .. 3 * k - 1 /\ 3 * j \in 1 .. 3 * k - 1
      BY <2>3
    <3> QED BY <1>1, <2>4, <3>1 DEF Frames
  <2>6. vm_c'[3 * m + 1] = MapRestCommand /\ IsSaved(vm_c'[3 * m + 2])
    <3>1. 3 * k - 2 \in 1 .. 3 * k - 1 /\ 3 * k - 1 \in 1 .. 3 * k - 1
      BY <1>11
    <3> QED BY <2>2, <2>3, <2>4, <3>1
  <2>7. States(vm_c') = Waiting(vm_c', k)
    BY <1>3, <2>3, <2>5, <2>6, ControlStatesBack
  <2>8. States(vm_s') = <<>>
    <3>1. IsPlain(e)
      BY <1>2, <2>1, <2>2
    <3> QED BY <1>7, <1>8, <2>1, <3>1, StackStates
  <2>9. Waiting(vm_c', k) = Waiting(vm_c, k)
    BY <2>4, SameWaiting
  <2>10. Waiting(vm_c', k) \o <<>> = Waiting(vm_c', k)
    BY WaitingSeq, ConcatNone
  <2>11. Active = Waiting(vm_c, k)
    BY <1>1, <1>11, ActiveNow
  <2> QED BY <2>7, <2>8, <2>9, <2>10, <2>11 DEF Active
<1>12. Active' = Active
  BY <1>1, <1>9, <1>10, <1>11
<1> QED BY <1>3, <1>6, <1>7, <1>12, AllGoodRows, NoStep DEF StepKeepsPromise

LEMMA StutterKeeps == ASSUME RowsInv, UNCHANGED vars PROVE StepKeepsPromise
<1>1. RowsInv' /\ Active' = Active /\ UNCHANGED applied
  BY DEF vars, RowsInv, Runs, Active
<1> QED BY <1>1, NoStep DEF StepKeepsPromise

LEMMA NextKeeps == ASSUME Inv, RowsInv, [Next]_vars PROVE StepKeepsPromise
<1>1. CASE Map
  BY <1>1, MapKeeps
<1>2. CASE MapLacksElems
  BY <1>2, AllGoodUnpacked, PlainUnpacked, MapFailsKeeps DEF MapLacksElems
<1>3. CASE MapGetsMessage
  BY <1>3, AllGoodUnpacked, PlainUnpacked, MapFailsKeeps DEF MapGetsMessage
<1>4. CASE MapGetsMessageBlob
  <2>1. AllPlain(Unpacked) /\ AllGood(Unpacked)
    BY <1>4, AllGoodUnpacked, PlainUnpacked DEF MapGetsMessageBlob
  <2>2. AllPlain(vm_s')
    BY <1>4, <2>1, MessageLeft DEF AllPlain
  <2>3. AllGood(vm_s')
    BY <1>4, <2>1, MessageLeft DEF AllGood, Good
  <2> QED BY <1>4, <2>2, <2>3, MapFailsKeeps DEF MapGetsMessageBlob
<1>9. CASE MapRest
  BY <1>9, MapRestKeeps
<1>5. CASE Push
  BY <1>5, PushKeeps
<1>6. CASE ApplyLeaves
  BY <1>6, ApplyLeavesKeeps
<1>7. ASSUME NEW arg \in Arguments, ApplyMaps(arg) PROVE StepKeepsPromise
  BY <1>7, ApplyMapsKeeps
<1>8. CASE UNCHANGED vars
  BY <1>8, StutterKeeps
<1> QED BY <1>1, <1>2, <1>3, <1>4, <1>5, <1>6, <1>7, <1>8, <1>9 DEF Next, Step, Finished

(* Whatever is mapped, and however deeply maps are nested in functions of  *)
(* other maps, /o/map and /!/o/maprest, which share stack and control with *)
(* all of them, apply each function to the columns of its own rows.        *)
THEOREM ImplementsZip == Spec => ImplementsZipMap
<1>1. Init => RowsInv /\ Maps!Init
  BY InitRows
<1>2. Inv /\ RowsInv /\ [Next]_vars => RowsInv' /\ [Maps!Next]_(Maps!vars)
  BY NextKeeps DEF StepKeepsPromise
<1> QED BY <1>1, <1>2, InvHolds, PTL DEF Spec, ImplementsZipMap, Maps!Spec
=============================================================================
