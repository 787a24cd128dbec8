--------------------------- MODULE OscriptVisitor ---------------------------
(***************************************************************************)
(* The elements oscriptVisitorImpl generates for the constructs of the     *)
(* grammar, each from the elements it generated for the parts.  Names are  *)
(* identifiers, OSC addresses and OSC patterns alike.                      *)
(***************************************************************************)
EXTENDS OseBundle

(* x *)
LookupElem(name) == Msg("", <<Str(name), Str("/!/$")>>)

(* 12, 1.5 and "text" *)
Literal(item) == Msg("", <<item>>)

(* x : e -- the address is empty when there is no name *)
Bind(name, e) == Msg(name, AsItems(e))

(* x : *)
BindNothing(name) == Msg(name, <<>>)

(* [a, b, c]: the message of the first element, with the items of the      *)
(* others pushed onto it; bundles become items to be evaluated             *)
List(es) ==
    Msg(IF es = <<>> \/ IsBndl(es[1]) THEN "" ELSE es[1].addr, JoinItems(es))

(* (a, b, c): a bundle evaluated where it stands *)
EagerBundle(es) == Bndl(es)

(* {a, b, c}: a blob, not evaluated *)
LazyBundle(es) == Msg("", <<Blob(es)>>)

(* (a, b) f and (a, b) (c) f, with f a name: the arguments, what gives the *)
(* function, a lookup or an application, and /!/o/apply                    *)
Funcall(args, fn) ==
    Msg("", AsItems(args) \o fn.items \o <<Str("/!/o/apply")>>)

(* A whole text: its elements, in a bundle in a bundle. *)
TopLevelBundle(es) == Bndl(<<Bndl(es)>>)
=============================================================================
