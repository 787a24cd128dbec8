---------------------------- MODULE MCPrintPasses ----------------------------
(***************************************************************************)
(* PrintPasses on messages of up to three items out of all types, alone    *)
(* and in nested bundles; names and numbers of one to four characters give *)
(* texts of every length modulo four, and lambdas have parameters on both  *)
(* sides of the size of the cache.                                         *)
(***************************************************************************)
EXTENDS PrintPasses, PrintText

LambdaWith(n) ==
    Lambda(<<Msg("", <<>>),
             Msg("", [i \in 1 .. n |-> Str(IF i % 3 = 0 THEN "third" ELSE ToString(i))])>>)

Lambdas == { LambdaWith(n) : n \in {0, 1, 2, 11, 12, 13, 14} }

one == Msg("", <<Num("1")>>)

Items ==
    { Num("7"), Num("1234"), Str(""), Str("ab"), Bytes(<<>>), Bytes(<<127, 128>>),
      Timetag("2000-01-01T00:00:00.0Z"), Bundle(<<>>), Bundle(<<one, Msg("ab", <<>>)>>),
      Unknown("<>"), Pointer("ptr"), Flag } \union Lambdas

Few == { Num("7"), Str("abc"), Bundle(<<one>>), LambdaWith(0), LambdaWith(13),
         Unknown("<>"), Flag }

Messages ==
    { Msg(a, <<>>) : a \in {"", "/abc"} }
    \union { Msg(a, <<x>>) : a \in {"", "a", "/ab"}, x \in Items }
    \union { Msg("", <<x, y>>) : x, y \in Items }
    \union { Msg("/a", <<x, y, z>>) : x, y, z \in Few }

Bundles ==
    { Bndl(<<>>), Bndl(<<Bndl(<<>>)>>), Bndl(<<Bndl(<<one>>), Bndl(<<one, one>>)>>) }
    \union { Bndl(<<m, Bndl(<<one, m>>)>>) : m \in { Msg("xy", <<x>>) : x \in Items } }

Elements == Messages \union Bundles

MCElems == Elements

Texts == [e \in Elements |-> FmtBundleElem(e, 0)]

MCPieces == Texts

MCAlphabet == STRING

MCGarbage == { Characters(s) : s \in {"", "g", "garbage read"} }

(* The text of every element with payloads and parameters is whole, and    *)
(* the newline of /o/formatln is its last character.                       *)
WholeText ==
    pc = "done" /\ Len(stack) = 2 /\ HasParams(stack[1]) /\ HasSizes(stack[1]) =>
        stack[2] = String(Characters(TextOf(stack[1], 0))
                             \o (IF newline THEN <<"\n">> ELSE <<>>))
=============================================================================
