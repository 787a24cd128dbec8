------------------------------- MODULE ZipMap -------------------------------
(***************************************************************************)
(* What /o/map promises, whatever the machine does in between: a function  *)
(* is applied to the columns of a bundle of rows, the first items of all   *)
(* rows, then the second ones, until the shortest row is exhausted.  The   *)
(* function may map, too.                                                  *)
(***************************************************************************)
EXTENDS Naturals, Sequences

CONSTANT Args            \* what may be mapped over: sequences of rows

VARIABLES active,        \* the maps going on, the innermost last
          applied        \* what the function was applied to last

vars == <<active, applied>>

HasColumn(arg, n) == arg # <<>> /\ \A j \in DOMAIN arg : n <= Len(arg[j])

Column(arg, n) == [j \in DOMAIN arg |-> arg[j][n]]

-----------------------------------------------------------------------------
Init == active = <<>> /\ applied = <<>>

(* A map over no column at all is over at once, and is not seen here. *)
Begin(arg) ==
    /\ HasColumn(arg, 1)
    /\ applied' = Column(arg, 1)
    /\ active' = Append(active, [arg |-> arg, done |-> 1])

Advance ==
    /\ active # <<>>
    /\ LET m == active[Len(active)]
       IN /\ HasColumn(m.arg, m.done + 1)
          /\ active' = [active EXCEPT ![Len(active)].done = @ + 1]
          /\ applied' = Column(m.arg, m.done + 1)

Finish ==
    /\ active # <<>>
    /\ LET m == active[Len(active)] IN ~HasColumn(m.arg, m.done + 1)
    /\ active' = SubSeq(active, 1, Len(active) - 1)
    /\ UNCHANGED applied

Next == (\E arg \in Args : Begin(arg)) \/ Advance \/ Finish

Spec == Init /\ [][Next]_vars
=============================================================================
