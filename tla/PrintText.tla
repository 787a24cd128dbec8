----------------------------- MODULE PrintText -----------------------------
(***************************************************************************)
(* What oscript_print.c prints for an element: the pieces of text its      *)
(* functions hand to snprintf, in order.  Neither a piece nor which one    *)
(* comes next depends on the buffer, so that a function is the sequence of *)
(* its pieces; PrintPasses writes them.  What a number or a timetag looks  *)
(* like is given with the item.                                            *)
(*                                                                         *)
(* Used by TLC runs only: it has RECURSIVE operators and takes strings for *)
(* sequences of characters.                                                *)
(***************************************************************************)
EXTENDS OseBundle, Integers

(* Items that only the printer tells apart: bytes, a timetag, a type it    *)
(* does not know (with what the hook of libose has for it, or nothing),    *)
(* and a type without a payload.                                           *)
Bytes(b) == [tt |-> "b", bytes |-> b]
Timetag(date) == [tt |-> "t", val |-> date]
Unknown(hook) == [tt |-> "?", hook |-> hook]
Pointer(hook) == [tt |-> "A", hook |-> hook]
Flag == [tt |-> "T", hook |-> "<>"]

(* The size of an item in the payload; it is negative for an unknown type, *)
(* and more than 0 for bundles and lambdas, which carry theirs.            *)
HasPayload(item) == item.tt # "T"
HasSize(item) == item.tt # "?"

Characters(s) == [i \in 1 .. Len(s) |-> SubSeq(s, i, i)]

(* A piece begins with text that is read where there is none, or not.      *)
Piece(s) == [text |-> Characters(s), unread |-> FALSE]
Unread(s) == [text |-> Characters(s), unread |-> TRUE]

PaddedSize(s) == 4 * (Len(s) \div 4) + 4

Spaces(n) == SubSeq("          ", 1, n)

(* %02X of a char: its sign is extended to an int. *)
Hex(byte) == IF byte < 128 THEN "7F" ELSE "FFFFFF80"

-----------------------------------------------------------------------------
(* The parameters of a lambda, one after the other, padded: the offsets of *)
(* the first ones are kept, the others are found by walking.               *)
CacheSize == 12     \* OSCRIPT_LAMBDA_PARAMS_CACHE_SIZE

OffsetOf(params, n) ==
    FoldLeft(LAMBDA sum, p : sum + PaddedSize(p), 0, SubSeq(params, 1, n))

GetParams(params) ==
    [nparams |-> Len(params), params |-> params,
     cache |-> [i \in 0 .. Len(params) - 1 \cap 0 .. CacheSize - 1 |->
                    OffsetOf(params, i)]]

StringAt(params, offset) ==
    params[CHOOSE i \in DOMAIN params : OffsetOf(params, i - 1) = offset]

(* A variant that walks one parameter too far. *)
GetParamWalksOn(p, n) ==
    StringAt(p.params, IF n < CacheSize THEN p.cache[n]
                       ELSE OffsetOf(p.params, n - 1))

GetParam(p, n) ==
    StringAt(p.params, IF n < CacheSize THEN p.cache[n]
                       ELSE OffsetOf(p.params, n))

(* The last parameter of none is read at index -1 of the cache. *)
FmtLambda(params) ==
    LET p == GetParams(params)
        Param(i) == GetParam(p, i - 1) \o (IF i < p.nparams THEN ", " ELSE ")>")
    IN  <<Piece("<fn: (")>>
        \o (IF p.nparams = 0 THEN <<Unread(")>")>>
            ELSE [i \in 1 .. p.nparams |-> Piece(Param(i))])

RECURSIVE FmtBundleElem(_, _)

FmtMessageArg(item, indent) ==
    CASE item.tt \in {"i", "t"} -> <<Piece(item.val)>>
      [] item.tt = "s" -> <<Piece("\"" \o item.val \o "\"")>>
      [] item.tt = "b" ->
            <<Piece("b")>> \o [k \in DOMAIN item.bytes |-> Piece(Hex(item.bytes[k]))]
      [] item.tt = "B" -> FmtBundleElem(Bndl(item.elems), indent)
      [] item.tt = "L" ->
            FmtLambda([i \in DOMAIN item.elems[2].items |->
                          item.elems[2].items[i].val])
      [] OTHER -> <<Piece("<" \o item.tt \o ":" \o item.hook \o ">")>>

(* The loop over the items of a message ends where its payload does; an    *)
(* item without a size ends it, too.                                       *)
Reached(items) ==
    { i \in DOMAIN items :
        /\ \A k \in 1 .. i - 1 : HasSize(items[k])
        /\ \E j \in i .. Len(items) : HasPayload(items[j]) }

FmtItems(items, indent) ==
    FlattenSeq([i \in 1 .. Cardinality(Reached(items)) |->
        FmtMessageArg(items[i], indent)
        \o (IF i < Len(items) THEN <<Piece(", ")>> ELSE <<>>)])

FmtBundleElemMsg(e, indent) ==
    <<Piece(e.addr), Piece(IF e.addr = "" THEN ": " ELSE " : ")>>
    \o CASE Len(e.items) = 0 -> <<>>
         [] Len(e.items) = 1 -> FmtMessageArg(e.items[1], indent)
         [] OTHER -> <<Piece("[ ")>> \o FmtItems(e.items, indent) \o <<Piece(" ]")>>

FmtBundle(es, indent) ==
    FlattenSeq([i \in DOMAIN es |->
        <<Piece(Spaces(indent))>> \o FmtBundleElem(es[i], indent)
        \o (IF i < Len(es) THEN <<Piece(",\n")>> ELSE <<>>)])

FmtBundleElem(e, indent) ==
    IF ~IsBndl(e) THEN FmtBundleElemMsg(e, indent)
    ELSE IF e.elems = <<>> THEN <<Piece("{}")>>
    ELSE <<Piece("{\n")>> \o FmtBundle(e.elems, indent + 1)
         \o <<Piece("\n" \o Spaces(indent) \o "}")>>

-----------------------------------------------------------------------------
(* What a text is meant to be. *)
RECURSIVE TextOf(_, _), TextOfItem(_, _)

Joined(texts, sep) ==
    IF texts = <<>> THEN ""
    ELSE FoldLeft(LAMBDA acc, t : acc \o sep \o t, Head(texts), Tail(texts))

TextOfItem(item, indent) ==
    CASE item.tt \in {"i", "t"} -> item.val
      [] item.tt = "s" -> "\"" \o item.val \o "\""
      [] item.tt = "b" ->
            "b" \o Joined([k \in DOMAIN item.bytes |-> Hex(item.bytes[k])], "")
      [] item.tt = "B" -> TextOf(Bndl(item.elems), indent)
      [] item.tt = "L" ->
            "<fn: (" \o Joined([i \in DOMAIN item.elems[2].items |->
                                   item.elems[2].items[i].val], ", ") \o ")>"
      [] OTHER -> "<" \o item.tt \o ":" \o item.hook \o ">"

TextOf(e, indent) ==
    IF IsBndl(e)
    THEN IF e.elems = <<>> THEN "{}"
         ELSE "{\n" \o
              Joined([i \in DOMAIN e.elems |->
                 Spaces(indent + 1) \o TextOf(e.elems[i], indent + 1)], ",\n")
              \o "\n" \o Spaces(indent) \o "}"
    ELSE LET items == [i \in DOMAIN e.items |-> TextOfItem(e.items[i], indent)]
         IN  (IF e.addr = "" THEN ": " ELSE e.addr \o " : ") \o
             (IF Len(items) < 2 THEN Joined(items, "")
              ELSE "[ " \o Joined(items, ", ") \o " ]")

(* In every message with several items the last one has a payload and the  *)
(* others have sizes.                                                      *)
RECURSIVE HasSizes(_)
HasSizes(e) ==
    IF IsBndl(e) THEN \A i \in DOMAIN e.elems : HasSizes(e.elems[i])
    ELSE /\ Len(e.items) > 1 => /\ HasPayload(Last(e.items))
                                /\ \A i \in 1 .. Len(e.items) - 1 : HasSize(e.items[i])
         /\ \A item \in Range(e.items) :
               item.tt = "B" => HasSizes(Bndl(item.elems))
=============================================================================
