----------------------------- MODULE OscriptMap -----------------------------
(***************************************************************************)
(* /o/map of oscript_lib.c.  A map has no frame of its own: what it needs  *)
(* to go on after the function returns, the rows with a cursor into each   *)
(* of them, travels as a blob on the control, under the function, and      *)
(* comes back on the stack for /!/o/maprest.  The function runs in         *)
(* between, on the same stack and the same control, and may map itself.    *)
(*                                                                         *)
(* One action models one native.  A map is called by an application, whose *)
(* argument bundle is on the stack.  What the function does is external:   *)
(* it consumes its arguments and leaves a result, or nothing, or maps.     *)
(***************************************************************************)
EXTENDS OseBundle

CONSTANTS Arguments,     \* what the argument bundle of a map may hold,
                         \* the name of the function last
          MaxDepth       \* bound on maps within maps

VARIABLES vm_s, vm_c,    \* stack, control
          errno_s,       \* the errors set on the stack ...
          errno_vm,      \* ... and on the machine
          applied,       \* history: what the function was applied to last
          argument       \* the argument of the outermost map

vars == <<vm_s, vm_c, errno_s, errno_vm, applied, argument>>

(* The state of a map: its rows, how much of each is used, applications.   *)
MapState(rows, cursors, count) ==
    [rows |-> rows, cursors |-> cursors, count |-> count]

(* On the control, and on the way back, the state is a blob. *)
Saved(state) == [blob |-> state]
IsSaved(e) == DOMAIN e = {"blob"}

MapCommand == String("/!/o/map")
MapRestCommand == String("/!/o/maprest")
ApplyCommand == String("/!/o/apply")
Commands == {MapCommand, MapRestCommand, ApplyCommand}

(* An element of a program; a command is found on the control only. *)
IsPlain(e) == ~IsSaved(e) /\ e \notin Commands

(* A map is called with what it maps over, if anything, and its function. *)
ASSUME ArgumentsAssumption ==
    \A arg \in Arguments :
        /\ arg \in Seq(Range(arg)) /\ Len(arg) <= 2
        /\ \A i \in DOMAIN arg : IsPlain(arg[i])

Runs(command) == vm_c # <<>> /\ Last(vm_c) = command

Init ==
    /\ argument \in Arguments \union {<<>>}
    /\ vm_s = <<Bndl(argument)>>
    /\ vm_c = <<MapCommand>>
    /\ errno_s = "OSE_ERR_NONE"
    /\ errno_vm = "OSE_ERR_NONE"
    /\ applied = <<>>

-----------------------------------------------------------------------------
(* A row is what a message's items, each in a message without an address,  *)
(* or a bundle's elements are taken from.                                  *)
Row(e) ==
    IF IsBndl(e) THEN e.elems
    ELSE [i \in DOMAIN e.items |-> Msg("", <<e.items[i]>>)]

Rows(es) == [j \in DOMAIN es |-> Row(es[j])]

(* One row at its end ends the map. *)
Exhausted(state) ==
    \E j \in DOMAIN state.rows : state.cursors[j] > Len(state.rows[j])

NextColumn(state) ==
    [j \in DOMAIN state.rows |-> state.rows[j][state.cursors[j]]]

(* Variants: only the first row goes on, or none. *)
AdvancedFirst(state) ==
    MapState(state.rows, [state.cursors EXCEPT ![1] = @ + 1], state.count + 1)

NotAdvanced(state) == MapState(state.rows, state.cursors, state.count)

Advanced(state) ==
    MapState(state.rows, [j \in DOMAIN state.rows |-> state.cursors[j] + 1],
             state.count + 1)

(* A variant that swaps the function and the state. *)
ScheduleStateFirst(fn, state) ==
    <<MapRestCommand, fn, Saved(state), ApplyCommand, fn>>

(* Behind the function's application: the function, the state and the      *)
(* command that goes on with them.                                         *)
Schedule(fn, state) ==
    <<MapRestCommand, Saved(state), fn, ApplyCommand, fn>>

(* A variant of the next operator that drops the state only. *)
MapStepDropsOne(s, fn, state) ==
    IF Exhausted(state)
    THEN /\ vm_s' = Append(s, fn)
         /\ vm_c' = Front(vm_c)
         /\ UNCHANGED applied
    ELSE /\ vm_s' = Append(s, Bndl(NextColumn(state)))
         /\ vm_c' = Front(vm_c) \o Schedule(fn, Advanced(state))
         /\ applied' = NextColumn(state)

(* oscript_mapRest_impl, for a stack s with the function below the state. *)
MapStep(s, fn, state) ==
    IF Exhausted(state)
    THEN /\ vm_s' = s
         /\ vm_c' = Front(vm_c)
         /\ UNCHANGED applied
    ELSE /\ vm_s' = Append(s, Bndl(NextColumn(state)))
         /\ vm_c' = Front(vm_c) \o Schedule(fn, Advanced(state))
         /\ applied' = NextColumn(state)

(* The argument bundle is unpacked first: whatever is missing in it is     *)
(* looked for on the stack below.                                          *)
Unpacked == Front(vm_s) \o Last(vm_s).elems

(* A blob may hold a message instead of a bundle, here one of a number,    *)
(* which ose_blobToElem then leaves.                                       *)
MessageBlob(n) == [tt |-> "b", number |-> n]

IsBlob(e) == ~IsBndl(e) /\ ArgType(e) = "b"
HoldsMessage(e) == IsBlob(e) /\ "number" \in DOMAIN Last(e.items)
MessageIn(e) == Msg("", <<Num(Last(e.items).number)>>)

IsMappable(e) == IsBndl(e) \/ (IsBlob(e) /\ ~HoldsMessage(e))

RowsOf(e) == Rows(IF IsBndl(e) THEN e.elems ELSE Last(e.items).elems)

Map ==
    /\ Runs(MapCommand)
    /\ vm_s # <<>>
    /\ Len(Unpacked) >= 2
    /\ LET bundle == FromTop(Unpacked, 1)
           rows == RowsOf(bundle)
       IN /\ IsMappable(bundle)
          /\ MapStep(DropTop(Unpacked, 2), Last(Unpacked),
                     MapState(rows, [j \in DOMAIN rows |-> 1], 0))
    /\ UNCHANGED <<errno_s, errno_vm, argument>>

(* An error ends the map; the arguments stay on the stack, unpacked.  What *)
(* is missing is an error of the stack, a wrong type one of the machine.   *)
MapLacksElems ==
    /\ Runs(MapCommand)
    /\ vm_s # <<>> => Len(Unpacked) < 2
    /\ errno_s' = "OSE_ERR_ELEM_COUNT"
    /\ vm_s' = IF vm_s = <<>> THEN vm_s ELSE Unpacked
    /\ vm_c' = Front(vm_c)
    /\ UNCHANGED <<errno_vm, applied, argument>>

(* A variant that sets its error on the stack, as the others do. *)
MapGetsMessageOnStack ==
    /\ Runs(MapCommand)
    /\ vm_s # <<>>
    /\ Len(Unpacked) >= 2
    /\ ~IsBndl(FromTop(Unpacked, 1)) /\ ~IsBlob(FromTop(Unpacked, 1))
    /\ errno_s' = "OSE_ERR_ITEM_TYPE"
    /\ vm_s' = Unpacked
    /\ vm_c' = Front(vm_c)
    /\ UNCHANGED <<errno_vm, applied, argument>>

MapGetsMessage ==
    /\ Runs(MapCommand)
    /\ vm_s # <<>>
    /\ Len(Unpacked) >= 2
    /\ ~IsBndl(FromTop(Unpacked, 1)) /\ ~IsBlob(FromTop(Unpacked, 1))
    /\ errno_vm' = "OSE_ERR_ITEM_TYPE"
    /\ vm_s' = Unpacked
    /\ vm_c' = Front(vm_c)
    /\ UNCHANGED <<errno_s, applied, argument>>

(* What was in the blob is left in its place. *)
MapGetsMessageBlob ==
    /\ Runs(MapCommand)
    /\ vm_s # <<>>
    /\ Len(Unpacked) >= 2
    /\ HoldsMessage(FromTop(Unpacked, 1))
    /\ errno_vm' = "OSE_ERR_ELEM_TYPE"
    /\ vm_s' = DropTop(Unpacked, 2)
                 \o <<MessageIn(FromTop(Unpacked, 1)), Last(Unpacked)>>
    /\ vm_c' = Front(vm_c)
    /\ UNCHANGED <<errno_s, applied, argument>>

MapRest ==
    /\ Runs(MapRestCommand)
    /\ IF Len(vm_s) >= 2
       THEN /\ MapStep(DropTop(vm_s, 2), FromTop(vm_s, 1), Last(vm_s).blob)
            /\ UNCHANGED errno_s
       ELSE /\ errno_s' = "OSE_ERR_ELEM_COUNT"
            /\ vm_c' = Front(vm_c)
            /\ UNCHANGED <<vm_s, applied>>
    /\ UNCHANGED <<errno_vm, argument>>

-----------------------------------------------------------------------------
(* The machine, and the function.                                          *)
Push ==
    /\ vm_c # <<>>
    /\ Last(vm_c) \notin Commands
    /\ vm_s' = Append(vm_s, Last(vm_c))
    /\ vm_c' = Front(vm_c)
    /\ UNCHANGED <<errno_s, errno_vm, applied, argument>>

(* The function takes itself and its arguments off the stack; its result,  *)
(* if it leaves one, is what it was applied to.                            *)
ApplyLeaves ==
    /\ Runs(ApplyCommand)
    /\ vm_s' \in {DropTop(vm_s, 2), Front(vm_s)}
    /\ vm_c' = Front(vm_c)
    /\ UNCHANGED <<errno_s, errno_vm, applied, argument>>

(* The maps going on: the state of an outer one lies on the control below  *)
(* that of an inner one, the innermost state may be on the stack.          *)
States(s) ==
    LET saved == {i \in DOMAIN s : IsSaved(s[i])}
        place(n) == CHOOSE i \in saved : Cardinality({j \in saved : j <= i}) = n
    IN  [n \in 1 .. Cardinality(saved) |-> s[place(n)].blob]

Active == States(vm_c) \o States(vm_s)

ApplyMaps(arg) ==
    /\ Runs(ApplyCommand)
    /\ Len(Active) < MaxDepth
    /\ vm_s' = Append(DropTop(vm_s, 2), Bndl(arg))
    /\ vm_c' = Append(Front(vm_c), MapCommand)
    /\ UNCHANGED <<errno_s, errno_vm, applied, argument>>

-----------------------------------------------------------------------------
Halted == vm_c = <<>>

Finished == Halted /\ UNCHANGED vars

Step ==
    \/ Map \/ MapLacksElems \/ MapGetsMessage \/ MapGetsMessageBlob \/ MapRest
    \/ Push \/ ApplyLeaves
    \/ \E arg \in Arguments : ApplyMaps(arg)

Next == Step \/ Finished

(* The machine is one loop that steps until nothing is left to do. *)
Spec == Init /\ [][Next]_vars /\ WF_vars(Step)

-----------------------------------------------------------------------------
IsState(state) ==
    /\ DOMAIN state.cursors = DOMAIN state.rows
    /\ state.count \in Nat

(* The states on control and stack are states of maps; the errors are      *)
(* those a map can set, each on its own bundle.                            *)
TypeOK ==
    /\ \A i \in DOMAIN vm_c : IsSaved(vm_c[i]) => IsState(vm_c[i].blob)
    /\ \A i \in DOMAIN vm_s : IsSaved(vm_s[i]) => IsState(vm_s[i].blob)
    /\ errno_s \in {"OSE_ERR_NONE", "OSE_ERR_ELEM_COUNT"}
    /\ errno_vm \in {"OSE_ERR_NONE", "OSE_ERR_ITEM_TYPE", "OSE_ERR_ELEM_TYPE"}

(* /!/o/maprest takes its state and its function off the stack without a   *)
(* look at them ("no need to check args", oscript_lib.c:255): whatever the *)
(* function did in between, they are there, and everything below them is   *)
(* somebody's value.                                                       *)
MapRestFindsState ==
    Runs(MapRestCommand) =>
        /\ Len(vm_s) >= 2
        /\ \A i \in DOMAIN vm_s : IsSaved(vm_s[i]) <=> i = Len(vm_s)

(* A map cleans up after itself: when everything has returned, nothing is  *)
(* on the stack but results, no state and, unless a map failed and left    *)
(* its arguments, no function.                                             *)
OnlyResultsLeft ==
    Halted => \A i \in DOMAIN vm_s :
        /\ ~IsSaved(vm_s[i])
        /\ IsBndl(vm_s[i]) \/ errno_s # "OSE_ERR_NONE" \/ errno_vm # "OSE_ERR_NONE"

(* A map over a bundle that holds something comes to an end. *)
Terminates == <>Halted

-----------------------------------------------------------------------------
(* "/o/map maps a function (2nd arg) onto each item of each elem of a      *)
(* bundle" (oscript_lib.c:516): where there is no item, it is not applied. *)
AppliedToItems == \A i \in DOMAIN Active : Active[i].rows # <<>>

(* "if it's a message, it's equivalent to that message being wrapped in a  *)
(* bundle" (oscript_lib.c:533): then its first item is applied to.         *)
MessageIsWrapped ==
    Halted /\ Len(argument) = 2 /\ ~IsBndl(argument[1])
           /\ argument[1].items # <<>> => applied # <<>>
=============================================================================
