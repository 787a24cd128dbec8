------------------------------ MODULE SortOrder ------------------------------
(***************************************************************************)
(* sort_cb (oscript_lib.c), by which qsort compares the items of a list:   *)
(* strings come behind everything else, and numbers are compared by what   *)
(* sort_numToDouble returns, which is an int.                              *)
(*                                                                         *)
(* A float is given in tenths, a string by its place in the order of       *)
(* strcmp.                                                                 *)
(***************************************************************************)
EXTENDS Integers

(* Conversion of a float to an int cuts off its fraction. *)
Truncated(tenths) ==
    IF tenths >= 0 THEN tenths \div 10 ELSE -((-tenths) \div 10)

(* Anything but an int32 or a float counts as 0. *)
NumToInt(item) ==
    IF item.tt = "i" THEN item.val
    ELSE IF item.tt = "f" THEN Truncated(item.val) ELSE 0

IsText(item) == item.tt = "s"

(* A variant that knows two kinds of pairs only. *)
CompareLikes(a, b) ==
    IF IsText(a) /\ IsText(b) THEN a.val - b.val ELSE NumToInt(a) - NumToInt(b)

(* The sign is what sort_cb returns. *)
Compare(a, b) ==
    IF IsText(a) /\ IsText(b) THEN a.val - b.val
    ELSE IF IsText(a) THEN 1
    ELSE IF IsText(b) THEN -1
    ELSE NumToInt(a) - NumToInt(b)

(* What qsort, given a comparison of that kind, may make of a sequence:    *)
(* items that compare equal end up in any order.                           *)
Ordered(items) ==
    \A i, j \in DOMAIN items : i < j => Compare(items[i], items[j]) <= 0

(* What is compared by a value has one. *)
Sortable(item) == item.tt \in {"i", "f", "s"} => item.val \in Int

(* qsort asks for a comparison that is one: no item is both before and     *)
(* behind another, and items between two others stay between them.         *)
IsComparison(S) ==
    \A a, b, c \in S :
        /\ Compare(a, b) <= 0 \/ Compare(b, a) <= 0
        /\ Compare(a, b) < 0 => Compare(b, a) > 0
        /\ Compare(a, b) <= 0 /\ Compare(b, c) <= 0 => Compare(a, c) <= 0
=============================================================================
