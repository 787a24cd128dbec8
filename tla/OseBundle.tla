----------------------------- MODULE OseBundle -----------------------------
(***************************************************************************)
(* The data oscript works on, and the operations of libose it calls.  A    *)
(* bundle is a sequence of elements whose last one is the top of the       *)
(* stack; an element is a message (an address and typed items) or a        *)
(* bundle; an item is a string, a number, or a bundle carried as a blob,   *)
(* as a bundle to be evaluated, or as a lambda.  libose is no part of      *)
(* this repository: the operations are modelled from how it calls them.    *)
(***************************************************************************)
EXTENDS Naturals, SequencesExt

(* Items: their typetag tt, and what they carry. *)
Str(s) == [tt |-> "s", val |-> s]
Num(n) == [tt |-> "i", val |-> n]
Blob(es) == [tt |-> "b", elems |-> es]
Bundle(es) == [tt |-> "B", elems |-> es]
Lambda(es) == [tt |-> "L", elems |-> es]

(* Elements. *)
Msg(address, items) == [addr |-> address, items |-> items]
Bndl(es) == [elems |-> es]

IsBndl(e) == DOMAIN e = {"elems"}

(* ose_pushString: a string is a message without an address. *)
String(s) == Msg("", <<Str(s)>>)

(* ose_peekMessageArgType reads the type of the last item. *)
ArgType(e) == IF e.items = <<>> THEN "" ELSE Last(e.items).tt

IsString(e) == ~IsBndl(e) /\ ArgType(e) = "s"

(* What an element is when it becomes part of a message: a message's items *)
(* or, for a bundle, one item to be evaluated (OSETT_BUNDLE).              *)
AsItems(e) == IF IsBndl(e) THEN <<Bundle(e.elems)>> ELSE e.items

JoinItems(es) == FlattenSeq([i \in DOMAIN es |-> AsItems(es[i])])

(* The n-th element below the top, the top being the 0-th. *)
FromTop(s, n) == s[Len(s) - n]

DropTop(s, n) == SubSeq(s, 1, Len(s) - n)

(* The parts of an element, and what is done to the top of a stack with    *)
(* them: ose_pop puts the last one on top of what remains, ose_nip drops   *)
(* the element below the top, ose_unpackDrop leaves the parts, the last    *)
(* one on top, ose_popAllDrop with the first one on top, as oscript_first  *)
(* takes it, and ose_popAllDropBundle these in a bundle; ose_split cuts    *)
(* the top in two.                                                         *)
Parts(e) ==
    IF IsBndl(e) THEN e.elems ELSE [i \in DOMAIN e.items |-> Msg("", <<e.items[i]>>)]

SubElem(e, first, last) ==
    IF IsBndl(e) THEN Bndl(SubSeq(e.elems, first, last))
    ELSE Msg(e.addr, SubSeq(e.items, first, last))

Pop(s) ==
    LET n == Len(Parts(Last(s)))
    IN  Front(s) \o <<SubElem(Last(s), 1, n - 1), Parts(Last(s))[n]>>

Nip(s) == Append(DropTop(s, 2), Last(s))

UnpackDrop(s) == Front(s) \o Parts(Last(s))

PopAllDrop(s) == Front(s) \o Reverse(Parts(Last(s)))

PopAllDropBundle(s) == Append(Front(s), Bndl(Reverse(Parts(Last(s)))))

Split(s, n) ==
    Front(s) \o <<SubElem(Last(s), 1, n),
                  SubElem(Last(s), n + 1, Len(Parts(Last(s))))>>

(* ose_blobToElem: a blob is the bundle it carries. *)
BlobToElem(e) == Bndl(Last(e.items).elems)
=============================================================================
