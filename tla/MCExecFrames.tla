---------------------------- MODULE MCExecFrames ----------------------------
(* A small instance of ExecFrames: two bindings, one file, three frames.  *)
EXTENDS ExecFrames

CONSTANTS b1, b2

MCBinding == {b1, b2}
MCFiles == {<<b2, b1>>}
=============================================================================
