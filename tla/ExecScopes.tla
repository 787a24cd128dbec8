----------------------------- MODULE ExecScopes -----------------------------
(***************************************************************************)
(* What evaluating nested oscript bundles promises, with no environment    *)
(* and no semaphores in it.  Evaluating a bundle opens a scope; every      *)
(* element evaluated in it adds a binding to the scope, /o/load adds the   *)
(* bindings of a file; when the bundle is finished the value it leaves is  *)
(* what its own scope collected, in the order it was evaluated, the loaded *)
(* bindings last.  Nothing of an enclosing or of a nested scope is in it.  *)
(*                                                                         *)
(* A lambda application and exec1 open a "plain" scope: the value they     *)
(* leave is not collected, so a plain scope keeps nothing.                 *)
(***************************************************************************)
EXTENDS Naturals, SequencesExt

CONSTANTS Binding,     \* what an evaluated element leaves in a scope
          Files        \* what evaluating a file can leave: sequences of them

VARIABLES scopes,      \* the open scopes, the innermost one last
          closing,     \* scopes closed and not delivered yet (at most one)
          value        \* the value the last finished bundle left

vars == <<scopes, closing, value>>

Scope(kind) == [kind |-> kind, bound |-> <<>>, loaded |-> <<>>]

Own(scope) == scope.bound \o scope.loaded

Init ==
    /\ scopes = <<>>
    /\ closing = <<>>
    /\ value = <<>>

Open(kind) ==
    /\ closing = <<>>
    /\ scopes' = Append(scopes, Scope(kind))
    /\ UNCHANGED <<closing, value>>

(* The innermost scope collects; a plain one, or none, keeps nothing. *)
Collects == scopes # <<>> /\ scopes[Len(scopes)].kind = "exec"

Bind(b) ==
    /\ closing = <<>>
    /\ scopes' = IF Collects
                 THEN [scopes EXCEPT ![Len(scopes)].bound = Append(@, b)]
                 ELSE scopes
    /\ UNCHANGED <<closing, value>>

Load(bs) ==
    /\ closing = <<>>
    /\ scopes' = IF Collects
                 THEN [scopes EXCEPT ![Len(scopes)].loaded = @ \o bs]
                 ELSE scopes
    /\ UNCHANGED <<closing, value>>

Close ==
    /\ closing = <<>>
    /\ scopes # <<>>
    /\ closing' = IF Collects THEN <<scopes[Len(scopes)]>> ELSE <<>>
    /\ scopes' = SubSeq(scopes, 1, Len(scopes) - 1)
    /\ UNCHANGED value

Deliver ==
    /\ closing # <<>>
    /\ value' = Own(closing[1])
    /\ closing' = <<>>
    /\ UNCHANGED scopes

Next ==
    \/ \E kind \in {"exec", "plain"} : Open(kind)
    \/ \E b \in Binding : Bind(b)
    \/ \E bs \in Files : Load(bs)
    \/ Close
    \/ Deliver

Spec == Init /\ [][Next]_vars
=============================================================================
