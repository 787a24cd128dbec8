---------------------------- MODULE MCElemRewrite ----------------------------
(***************************************************************************)
(* ElemRewrite on a message of up to three items, a number or a text of    *)
(* five characters, with an address of a length from every side of a       *)
(* boundary, and on a bundle, above up to two messages; and the elements   *)
(* read off the bytes, to be compared with what OscriptExec does to them.  *)
(***************************************************************************)
EXTENDS ElemRewrite, OseBundle

CONSTANTS AddressLens, Below

(* The elements of OscriptExec; only its PrepareNext is used. *)
X == INSTANCE OscriptExec
        WITH Syntax <- {}, Programs <- {}, Env0 <- <<>>, ParsedFile <- <<>>,
             ContextNames <- {},
             vm_i <- <<>>, vm_s <- <<>>, vm_e <- <<>>, vm_c <- <<>>, vm_d <- <<>>,
             vm_x <- <<>>, vm_errno <- "", trapped <- FALSE, program <- <<>>,
             value <- <<>>, loadedIn <- {}

-----------------------------------------------------------------------------
(* Writing elements.                                                       *)
NumberTag == 105

Padded(bytes) == bytes \o [k \in 1 .. 4 - (Len(bytes) % 4) |-> 0]
Word(n) == <<0, 0, 0, n>>
Sized(bytes) == Word(Len(bytes)) \o bytes

AddressChars(n) == [k \in 1 .. n |-> 100 + k]
Text == [k \in 1 .. 5 |-> 200 + k]
Number(i) == [k \in 1 .. 4 |-> 300 + 10 * i + k]

Message(address, tags) ==
    Sized(Padded(address) \o Padded(<<Comma>> \o tags) \o
          FlattenSeq([i \in DOMAIN tags |->
              IF tags[i] = NumberTag THEN Number(i) ELSE Padded(Text)]))

Header == [k \in 1 .. HeaderLen |-> 500 + k]

Layout(below, e, isMessage, addressLen, tagsLen) ==
    LET bytes == Header \o FlattenSeq([i \in 1 .. below |-> Message(<<>>, <<>>)])
        inUse == bytes \o e
    IN  [mem |-> [i \in 0 .. Total - 1 |->
                    IF i < Len(inUse) THEN inUse[i + 1]
                    ELSE IF i < Cap THEN 0 ELSE 600 + i],
         size |-> Len(inUse), last |-> Len(bytes), isMessage |-> isMessage,
         addressLen |-> addressLen, tagsLen |-> tagsLen]

Tags == SeqOf({NumberTag, StringTag}, 3)

MCLayouts ==
    { Layout(below, Message(AddressChars(n), tags), TRUE, n, Len(tags) + 1) :
        below \in Below, n \in AddressLens, tags \in Tags }
    \union
    { Layout(below, Sized(Header \o e), FALSE, 0, 0) :
        below \in Below, e \in {<<>>, Message(<<>>, <<>>)} }

-----------------------------------------------------------------------------
(* Reading elements.                                                       *)
Chars(m, at) == [k \in 1 .. StrLen(m, at) |-> m[at + k - 1]]

Name(m, at) ==
    LET chars == Chars(m, at)
    IN  CASE chars = <<>> -> ""
          [] chars = [k \in 1 .. 18 |-> NameChar(k - 1)] -> X!FinalizeElemName
          [] chars = Text -> "text"
          [] chars = Chars(start.mem, start.last + 4) -> "address"
          [] OTHER -> "something else"

RECURSIVE ReadItems(_, _, _)
ReadItems(m, tag, at) ==
    CASE m[tag] = NumberTag ->
            <<Num(ToString(m[at]))>> \o ReadItems(m, tag + 1, at + 4)
      [] m[tag] = StringTag ->
            <<Str(Name(m, at))>> \o
                ReadItems(m, tag + 1, at + PnBytes(StrLen(m, at)))
      [] OTHER -> <<>>

ReadElem(m, at) ==
    IF m[at + 4] = Header[1] THEN Bndl(<<>>)
    ELSE LET tags == at + 4 + PnBytes(StrLen(m, at + 4))
         IN  Msg(Name(m, at + 4),
                 ReadItems(m, tags + 1, tags + PnBytes(StrLen(m, tags))))

RECURSIVE ReadElems(_, _, _)
ReadElems(m, at, end) ==
    IF at >= end THEN <<>>
    ELSE <<ReadElem(m, at)>> \o ReadElems(m, at + 4 + Int32(m, at), end)

(* The bytes of vm_i, read as elements, are those OscriptExec's            *)
(* PrepareNext makes of the elements that were there, under the same       *)
(* proviso as Prepared.                                                    *)
IsPrepareNext ==
    pc = "done" /\ (start.isMessage => oldAs <= addressAt) =>
        ReadElems(mem, HeaderLen, size) =
            X!PrepareNext(ReadElems(start.mem, HeaderLen, start.size))
=============================================================================
