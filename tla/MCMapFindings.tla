---------------------------- MODULE MCMapFindings ----------------------------
(* A map over one message, and a map over a bundle with nothing in it. *)
EXTENDS OscriptMap

V == INSTANCE OscriptVisitor

fn == String("/o/println")

OnlyMessage == {<<V!Literal(Num("1")), fn>>}
OnlyEmpty == {<<V!LazyBundle(<<>>), fn>>}
=============================================================================
