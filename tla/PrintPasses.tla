----------------------------- MODULE PrintPasses -----------------------------
(***************************************************************************)
(* /o/format and /o/formatln (oscript_print.c): the element on top of the  *)
(* stack is formatted twice by the same functions, without a buffer, to    *)
(* measure the text, and into a blob of that size on top of the element.   *)
(* The blob becomes a string.  Every piece of the text is written by a     *)
(* snprintf, which returns the length of the piece whether or not there    *)
(* was room for all of it.  PrintText says what the pieces are.            *)
(***************************************************************************)
EXTENDS OseBundle, Integers

CONSTANTS Elems,      \* the elements that are printed
          Pieces,     \* the pieces of the text of each
          Garbage,    \* what may be read where a lambda has no parameter
          Alphabet    \* the characters of texts

(* A text is a sequence of characters.  A piece is a text, or begins with  *)
(* what is read where there is none.                                       *)
Text == Seq(Alphabet)

ArePieces ==
    /\ "\n" \in Alphabet
    /\ Garbage \subseteq Text
    /\ \A e \in Elems : Pieces[e] \in Seq([text : Text, unread : BOOLEAN])

ASSUME PiecesAssumption == ArePieces

VARIABLES stack,      \* vm_s
          newline,    \* whether the native is /o/formatln
          pc,         \* the next step
          done,       \* how many pieces were written in this pass
          len,        \* the measured length of the text
          room,       \* the bytes of the blob
          out         \* the text being measured or written

printVars == <<stack, newline, pc, done, len, room, out>>

-----------------------------------------------------------------------------
(* A text being written: whether there is a buffer, the bytes left of it,  *)
(* the text in it, the length of all pieces, and whether anything was      *)
(* written behind the buffer.                                              *)
NoBuffer == [buf |-> FALSE, left |-> 0, text |-> <<>>, n |-> 0, over |-> FALSE]
Buffer(size) == [NoBuffer EXCEPT !.buf = TRUE, !.left = size]

(* snprintf and what follows it: the pointer and the room left advance by  *)
(* the length of the piece, even past the end; a negative room is a huge   *)
(* one to the next snprintf.                                               *)
Emit(w, piece) ==
    LET n == Len(piece)
        fits == IF n < w.left THEN n ELSE w.left - 1
    IN IF ~w.buf THEN [w EXCEPT !.n = @ + n]
       ELSE [w EXCEPT !.n = @ + n,
                      !.left = @ - n,
                      !.text = IF w.left > 0 THEN @ \o SubSeq(piece, 1, fits) ELSE @,
                      !.over = @ \/ w.left < 0]

PnBytes(n) == 4 * (n \div 4) + 4

Read(piece, garbage) == IF piece.unread THEN garbage \o piece.text ELSE piece.text

-----------------------------------------------------------------------------
PrintInit ==
    /\ stack \in { <<e>> : e \in Elems } \union {<<>>}
    /\ newline \in BOOLEAN
    /\ stack = <<>> => newline      \* /o/format asserts that there is something
    /\ pc = "measure"
    /\ done = 0
    /\ len = 0
    /\ room = 0
    /\ out = NoBuffer

FormatlnNothing ==
    /\ pc = "measure"
    /\ stack = <<>>
    /\ stack' = <<String(<<"\n">>)>>
    /\ pc' = "done"
    /\ UNCHANGED <<newline, done, len, room, out>>

(* The next piece, in either pass. *)
Snprintf ==
    /\ pc \in {"measure", "write"}
    /\ stack # <<>>
    /\ done < Len(Pieces[Last(stack)])
    /\ \E garbage \in Garbage :
          out' = Emit(out, Read(Pieces[Last(stack)][done + 1], garbage))
    /\ done' = done + 1
    /\ UNCHANGED <<stack, newline, pc, len, room>>

AllPrinted == stack # <<>> /\ done = Len(Pieces[Last(stack)])

(* A variant without room for the newline. *)
PushBlobNoNewline ==
    /\ pc = "measure"
    /\ AllPrinted
    /\ len' = out.n
    /\ room' = PnBytes(len')
    /\ out' = Buffer(room')
    /\ done' = 0
    /\ pc' = "write"
    /\ UNCHANGED <<stack, newline>>

(* A variant that gives snprintf the measured length for a size. *)
PushBlobMeasured ==
    /\ pc = "measure"
    /\ AllPrinted
    /\ len' = out.n
    /\ room' = PnBytes(IF newline THEN len' + 1 ELSE len')
    /\ out' = Buffer(len')
    /\ done' = 0
    /\ pc' = "write"
    /\ UNCHANGED <<stack, newline>>

(* ose_pushBlob: the blob's bytes are NULs. *)
PushBlob ==
    /\ pc = "measure"
    /\ AllPrinted
    /\ len' = out.n
    /\ room' = PnBytes(IF newline THEN len' + 1 ELSE len')
    /\ out' = Buffer(room')
    /\ done' = 0
    /\ pc' = "write"
    /\ UNCHANGED <<stack, newline>>

(* p[tlen] = '\n': a character of the text if that got longer, and behind  *)
(* its NUL if it got shorter.                                              *)
Newline ==
    /\ pc = "write"
    /\ AllPrinted
    /\ newline
    /\ LET text == out.text
       IN  out' = [out EXCEPT !.text =
                     IF Len(text) < len THEN text
                     ELSE SubSeq(text, 1, len) \o <<"\n">> \o
                             SubSeq(text, len + 2, Len(text))]
    /\ pc' = "string"
    /\ UNCHANGED <<stack, newline, done, len, room>>

BlobToString ==
    /\ pc = "string" \/ (pc = "write" /\ AllPrinted /\ ~newline)
    /\ stack' = Append(stack, String(out.text))
    /\ pc' = "done"
    /\ UNCHANGED <<newline, done, len, room, out>>

Done == pc = "done" /\ UNCHANGED printVars

PrintNext ==
    \/ FormatlnNothing \/ Snprintf \/ PushBlob \/ Newline \/ BlobToString
    \/ Done

PrintSpec == PrintInit /\ [][PrintNext]_printVars

-----------------------------------------------------------------------------
(* The blob is made of words; whatever was measured and written, with its  *)
(* newline, it ends with a NUL in the blob and is a string.                *)
PrintTypeOK ==
    /\ Len(stack) \in 0 .. 2
    /\ pc \in {"measure", "write", "string", "done"}
    /\ done \in Nat /\ len \in Nat /\ room \in Nat /\ room % 4 = 0
    /\ out.buf => Len(out.text) < room

(* Every lambda in it has a parameter. *)
HasParams(e) == \A i \in DOMAIN Pieces[e] : ~Pieces[e][i].unread

(* The two passes agree: nothing is written behind the blob, and the blob  *)
(* has the size of a string of that length, which ose_blobToType takes     *)
(* from it unseen.  Only for a lambda without parameters, where each pass  *)
(* reads what happens to be there, can they differ.                        *)
StringFillsBlob ==
    pc = "done" /\ Len(stack) = 2 /\ HasParams(stack[1]) =>
        /\ ~out.over
        /\ out.n = len
        /\ room = PnBytes(Len(out.text))
=============================================================================
