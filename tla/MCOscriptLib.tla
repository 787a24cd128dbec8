----------------------------- MODULE MCOscriptLib -----------------------------
(***************************************************************************)
(* OscriptLib on a stack of up to two elements and the arguments, for two  *)
(* calls in a row: lists of up to four items, numbers on both sides of 0   *)
(* and of an integer, strings, a timetag, and arguments of wrong number    *)
(* and kind.                                                               *)
(***************************************************************************)
EXTENDS OscriptLib

Float(tenths) == [tt |-> "f", val |-> tenths]
Timetag == [tt |-> "t", val |-> 7]

MCItems == { Num(-1), Num(0), Num(1), Float(-9), Float(9), Float(11), Float(19),
             Str(1), Str(2), Timetag }

List(items) == Msg("", items)

Lists ==
    { List(<<a, b>>) : a, b \in MCItems }
    \union { List(<<a, b, c>>) : a, b, c \in {Num(1), Float(-9), Float(9), Str(1), Str(2)} }
    \union { Msg("named", <<a, a, b, b>>) : a \in {Num(1), Str(1)}, b \in {Num(1), Float(9)} }
    \union { List(<<>>) }

Blobbed == Msg("", <<Blob(<<List(<<Num(1)>>)>>)>>)

MCValues == { List(<<Num(2), Num(1)>>), Bndl(<<List(<<Num(1)>>)>>) }

MCArguments ==
    { Bndl(<<list>>) : list \in Lists }
    \union { Bndl(<<a, b>>) :
                a, b \in { List(<<Num(1)>>), List(<<Str(1), Num(0)>>), Blobbed, Bndl(<<>>) } }
    \union { Bndl(<<>>), Bndl(<<Bndl(<<>>)>>), Bndl(<<Blobbed>>) }
    \union { Bndl(<<List(<<Str(3)>>), List(<<Num(5), Num(6)>>), List(<<Num(n)>>)>>) :
                n \in 0 .. 2 }

(* What is within an argument is within these as well. *)
MCData == UNION { Range(args.elems) : args \in MCArguments }
=============================================================================
