----------------------------- MODULE OscriptLib -----------------------------
(***************************************************************************)
(* Natives of oscript_lib.c that work on the bundle of their arguments on  *)
(* top of the stack and leave the rest of the machine alone: /o/sort,      *)
(* /o/sortidxs, /o/route, and the builtins of libose that are wrapped, of  *)
(* which /o/eql and /o/nth stand for the two ways arguments are unpacked.  *)
(* What fails says so by an error on the stack's bundle or on the whole    *)
(* machine's.                                                              *)
(***************************************************************************)
EXTENDS OseBundle, SortOrder, FiniteSets

CONSTANTS Data,       \* the elements within others
          Values,     \* elements an evaluation may leave below the arguments
          Arguments,  \* bundles of arguments
          MaxStack    \* bound: no arguments are put on a longer stack

(* What may be in a bundle, and what items and elements are. *)
Contents == Seq(Data)

IsItem(item) ==
    /\ Sortable(item)
    /\ item.tt \in {"b", "B", "L"} => item.elems \in Contents

IsElem(e) ==
    \/ IsBndl(e) /\ e.elems \in Contents
    \/ /\ DOMAIN e = {"addr", "items"}
       /\ e.items \in Seq(Range(e.items))
       /\ \A i \in DOMAIN e.items : IsItem(e.items[i])

ASSUME DataAssumption ==
    /\ \A e \in Data \union Values \union Arguments : IsElem(e)
    /\ \A args \in Arguments : IsBndl(args)

VARIABLES vm_s,       \* the stack
          errno_s,    \* the error set on vm_s
          errno,      \* the error set on osevm
          called      \* history: what was done last

vars == <<vm_s, errno_s, errno, called>>

CountError == "OSE_ERR_ELEM_COUNT"
TypeError == "OSE_ERR_ELEM_TYPE"
NoError == "OSE_ERR_NONE"

Init ==
    /\ vm_s \in { <<v>> : v \in Values } \union {<<>>}
    /\ errno_s \in {NoError, CountError}      \* of a /o/if or a /o/load before
    /\ errno = NoError
    /\ called = "nothing"

(* The machine has evaluated the arguments of a function. *)
Push ==
    /\ called # "push"
    /\ Len(vm_s) < MaxStack
    /\ \E args \in Arguments : vm_s' = Append(vm_s, args)
    /\ called' = "push"
    /\ UNCHANGED <<errno_s, errno>>

Runs(name) == called = "push" /\ called' = name

(* An error on osevm, and one on vm_s. *)
FailVM(s, error) == vm_s' = s /\ errno' = error /\ UNCHANGED errno_s

Fail(s, error) == vm_s' = s /\ errno_s' = error /\ UNCHANGED errno

-----------------------------------------------------------------------------
(* Sorting.                                                                *)
Orders(items) ==
    { p \in [DOMAIN items -> DOMAIN items] :
        Range(p) = DOMAIN items /\ Ordered([i \in DOMAIN items |-> items[p[i]]]) }

(* A variant that leaves the list below its sorted copy. *)
KeepList(s, sorted) == Append(s, sorted)

(* The sorted copy is made behind the list and moved over it. *)
ReplaceList(s, sorted) == Append(Front(s), sorted)

(* The items of a list in the order p. *)
SortedVals(items, p) == [i \in DOMAIN items |-> items[p[i]]]

(* A variant that counts from 1. *)
SortedIdxsFromOne(items, p) == [i \in DOMAIN items |-> Num(p[i])]

(* Where, from 0, the list has the items of the sorted one. *)
SortedIdxs(items, p) == [i \in DOMAIN items |-> Num(p[i] - 1)]

(* The list is the last argument.  If it is none the arguments are left    *)
(* unpacked.                                                               *)
SortArguments(vals) ==
    LET s == UnpackDrop(vm_s)
        list == Last(s)
        Sorted(p) == IF vals THEN SortedVals(list.items, p) ELSE SortedIdxs(list.items, p)
    IN /\ s # <<>>
       /\ IF IsBndl(list)
          THEN FailVM(s, TypeError)
          ELSE /\ \E p \in Orders(list.items) :
                     vm_s' = ReplaceList(s, Msg(list.addr, Sorted(p)))
               /\ UNCHANGED <<errno_s, errno>>

(* What is on the stack is checked first: an apply has put a bundle there, *)
(* and neither check fails.                                                *)
SortImpl(vals) ==
    CASE vm_s = <<>> -> FailVM(vm_s, CountError)
      [] vm_s # <<>> /\ ~IsBndl(Last(vm_s)) -> FailVM(vm_s, TypeError)
      [] OTHER -> SortArguments(vals)

Sort == Runs("sort") /\ SortImpl(TRUE)

SortIdxs == Runs("sortidxs") /\ SortImpl(FALSE)

-----------------------------------------------------------------------------
(* /o/route: the last two arguments are a bundle, or a message that holds  *)
(* one, and a message of addresses.                                        *)
Holds(e) == ~IsBndl(e) /\ ArgType(e) \in {"B", "b"}

(* A variant that leaves the item as it is. *)
RoutedItem(e) == IF Holds(e) THEN Last(e.items) ELSE e

Routed(e) == IF Holds(e) THEN BlobToElem(e) ELSE e

(* ose_routeWithDelegation puts one bundle in the place of both: the       *)
(* messages by the addresses they match.  Which ones do is left out.       *)
Delegated(bundle) == bundle

RouteArguments ==
    LET s == UnpackDrop(vm_s)
        routed == FromTop(s, 1)
    IN CASE Len(s) < 2 -> Fail(s, CountError)
         [] Len(s) >= 2 /\ IsBndl(Last(s)) -> Fail(s, TypeError)
         [] Len(s) >= 2 /\ ~IsBndl(Last(s)) /\ ~IsBndl(routed) /\ ~Holds(routed) ->
               Fail(s, TypeError)
         [] OTHER ->
               /\ vm_s' = Append(DropTop(s, 2), Delegated(Routed(routed)))
               /\ UNCHANGED <<errno_s, errno>>

(* The first checks are those of SortImpl, with errors on vm_s. *)
Route ==
    /\ Runs("route")
    /\ CASE vm_s = <<>> -> Fail(vm_s, CountError)
         [] vm_s # <<>> /\ ~IsBndl(Last(vm_s)) -> Fail(vm_s, TypeError)
         [] OTHER -> RouteArguments

-----------------------------------------------------------------------------
(* A variant that forgets that the error was moved. *)
WrappedKeepsError(s, failed, result) ==
    LET error == IF failed THEN CountError ELSE errno_s
    IN /\ vm_s' = IF failed THEN s ELSE result
       /\ errno' = IF error = NoError THEN errno ELSE error
       /\ errno_s' = error

(* Wrapped builtins: an error of the builtin on vm_s, or one that was      *)
(* there before, is moved to osevm.                                        *)
Wrapped(s, failed, result) ==
    LET error == IF failed THEN CountError ELSE errno_s
    IN /\ vm_s' = IF failed THEN s ELSE result
       /\ errno' = IF error = NoError THEN errno ELSE error
       /\ errno_s' = NoError

(* Builtins of two operands find the first one on top. *)
Binop ==
    /\ Runs("eql")
    /\ LET s == PopAllDrop(vm_s)
           equal == IF Last(s) = FromTop(s, 1) THEN 1 ELSE 0
       IN  Wrapped(s, Len(s) < 2, Append(DropTop(s, 2), Msg("", <<Num(equal)>>)))

(* /o/nth finds the list below the number, which counts from 0. *)
Nth ==
    /\ Runs("nth")
    /\ LET s == UnpackDrop(vm_s)
           n == Last(s).items[1].val
           list == Parts(FromTop(s, 1))
       IN  /\ Len(s) >= 2 => ~IsBndl(Last(s)) /\ ArgType(Last(s)) = "i"
           /\ Wrapped(s, Len(s) < 2 \/ n + 1 \notin DOMAIN list,
                      Append(DropTop(s, 2), list[n + 1]))

Next == Push \/ Sort \/ SortIdxs \/ Route \/ Binop \/ Nth

Spec == Init /\ [][Next]_vars

-----------------------------------------------------------------------------
TypeOK ==
    /\ \A i \in DOMAIN vm_s : IsElem(vm_s[i])
    /\ {errno_s, errno} \subseteq {NoError, CountError, TypeError}

(* The arguments each native works on, and what it leaves of them. *)
Arity == [sort |-> 1, sortidxs |-> 1, route |-> 2, eql |-> 2, nth |-> 2]
Results == [Arity EXCEPT !.route = 1, !.eql = 1, !.nth = 1]

(* Natives count their arguments together with what an evaluation left     *)
(* below them.  With as many as they need they do not touch what is below, *)
(* and without an error the arguments are gone and the results are there.  *)
ReplacesArguments ==
    [][ called = "push" /\ Len(Last(vm_s).elems) >= Arity[called'] =>
          /\ IsPrefix(Front(vm_s), vm_s')
          /\ <<errno_s', errno'>> = <<NoError, NoError>> =>
                Len(vm_s') = Len(vm_s) - 1 + Len(Last(vm_s).elems)
                                - Arity[called'] + Results[called']
      ]_vars

ListOf(s) == Last(UnpackDrop(s))
Succeeds(native) == called = "push" /\ called' = native /\ ~IsBndl(ListOf(vm_s))

Tenths(item) == IF item.tt = "i" THEN 10 * item.val ELSE item.val

(* /o/sort keeps all items and the name of the list; strings come last, in *)
(* order, and numbers in order as far as sort_numToDouble sees: a number   *)
(* comes behind a smaller one only if both have the same integer part, and *)
(* so never if they are 2 apart, nor 1 apart on one side of 0.             *)
SortsByIntegerPart ==
    [][ Succeeds("sort") =>
          LET before == ListOf(vm_s)
              after == Last(vm_s')
          IN /\ after.addr = before.addr
             /\ \A item \in Range(before.items) \union Range(after.items) :
                   Cardinality({ i \in DOMAIN before.items : before.items[i] = item })
                      = Cardinality({ i \in DOMAIN after.items : after.items[i] = item })
             /\ \A i, j \in DOMAIN after.items : i < j =>
                   LET a == after.items[i]
                       b == after.items[j]
                   IN /\ IsText(a) => IsText(b) /\ a.val <= b.val
                      /\ {a.tt, b.tt} \subseteq {"i", "f"} =>
                            Tenths(a) - Tenths(b) <
                               IF Tenths(a) > 0 /\ Tenths(b) < 0 THEN 20 ELSE 10
      ]_vars

(* The indexes /o/sortidxs gives for a list are a way to sort it: each     *)
(* item once, and in the order of /o/sort.                                 *)
IndexesSort ==
    [][ Succeeds("sortidxs") =>
          LET items == ListOf(vm_s).items
              indexes == [i \in DOMAIN Last(vm_s').items |-> Last(vm_s').items[i].val]
          IN /\ Range(indexes) = 0 .. Len(items) - 1
             /\ Len(indexes) = Len(items)
             /\ Ordered([i \in DOMAIN indexes |-> items[indexes[i] + 1]])
      ]_vars

(* No error is forgotten; and after a wrapped builtin, whatever it did,    *)
(* vm_s has none: even one that was set before it ran is osevm's now.      *)
ErrorsMove ==
    [][ /\ errno # NoError => errno' # NoError
        /\ errno_s # NoError => {errno_s', errno'} # {NoError}
        /\ called' \in {"eql", "nth"} => errno_s' = NoError
      ]_vars
=============================================================================
