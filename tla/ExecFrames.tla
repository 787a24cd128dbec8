----------------------------- MODULE ExecFrames -----------------------------
(***************************************************************************)
(* The environment discipline of oscript_exec.c.  Every bundle under       *)
(* evaluation works on the one environment vm_e: oscript_exec saves it in  *)
(* the dump and encloses it in the semaphores #BEG and #END, evaluated     *)
(* elements are put in front of #BEG, loaded ones behind #END, and when    *)
(* the frame returns oscript_finalizeExec seeks forward in the returned    *)
(* environment to the first #BEG and on to the last #END to tell its own   *)
(* elements from the enclosing ones.  The enclosing ones hold semaphores   *)
(* too: those of every bundle that encloses this one.                      *)
(*                                                                         *)
(* OscriptExec models the rest of the machine; here an element of the      *)
(* environment is a value of Binding or a semaphore.                       *)
(***************************************************************************)
EXTENDS Naturals, SequencesExt

CONSTANTS Binding,     \* elements evaluated in a bundle
          BEG, END,    \* the two semaphore messages
          Files,       \* what evaluating a file can leave: sequences of them
          MaxDepth,    \* bound on nested frames
          MaxEnv       \* bound on the elements bound and loaded in vm_e

(* No name in a bundle starts with #: an element evaluated in one never    *)
(* passes for a semaphore.                                                 *)
ASSUME SemaphoreAssumption ==
    BEG # END /\ BEG \notin Binding /\ END \notin Binding

ASSUME FilesAssumption == Files \subseteq Seq(Binding)

ASSUME BoundsAssumption == MaxDepth \in Nat /\ MaxEnv \in Nat

VARIABLES env,         \* vm_e
          dump,        \* vm_d: who pushed the frame, and the vm_e it saved
          returned,    \* environments returned, their finalizer not run yet
          value        \* the bundle the last oscript_finalizeExec left

vars == <<env, dump, returned, value>>

Elem == Binding \union {BEG, END}
Frame == [kind : {"exec", "plain"}, env : Seq(Elem)]

TypeOK ==
    /\ env \in Seq(Elem)
    /\ dump \in Seq(Frame)
    /\ returned \in Seq(Seq(Elem))
    /\ Len(returned) <= 1
    /\ value \in Seq(Elem)

-----------------------------------------------------------------------------
(* The scans of oscript_finalizeExec. *)
FirstBEG(e) ==
    CHOOSE p \in DOMAIN e : e[p] = BEG /\ \A i \in 1..(p - 1) : e[i] # BEG

(* A variant that stops at the first #END behind #BEG. *)
FirstEND(e) ==
    CHOOSE q \in DOMAIN e :
        e[q] = END /\ \A i \in 1..(q - 1) : e[i] # END

LastEND(e) ==
    CHOOSE q \in DOMAIN e :
        e[q] = END /\ \A i \in (q + 1)..Len(e) : e[i] # END

(* Our stuff, before the first semaphore, the newest first ... *)
Before(e) == SubSeq(e, 1, FirstBEG(e) - 1)

(* ... and more of our stuff, after the last one. *)
After(e) == SubSeq(e, LastEND(e) + 1, Len(e))

(* A variant that keeps the first part as it lies. *)
OwnElemsUnreversed(e) == Before(e) \o After(e)

(* ose_popAllDropBundle reverses the first part, the second is appended. *)
OwnElems(e) == Reverse(Before(e)) \o After(e)

-----------------------------------------------------------------------------
Init ==
    /\ env = <<>>
    /\ dump = <<>>
    /\ returned = <<>>
    /\ value = <<>>

Running == returned = <<>>

(* A bound: room for n more elements beside the semaphores of the frames. *)
Room(n) ==
    Len(env) + n <= MaxEnv + 2 * Cardinality({i \in DOMAIN dump : dump[i].kind = "exec"})

(* Variants: the bundled environment not unpacked, and #END forgotten. *)
PushSemaphoresPacked(e) == <<BEG, e, END>>
PushSemaphoresNoEND(e) == <<BEG>> \o e

PushSemaphores(e) == <<BEG>> \o e \o <<END>>

(* oscript_exec *)
EnterExec ==
    /\ Running
    /\ dump' = Append(dump, [kind |-> "exec", env |-> env])
    /\ env' = PushSemaphores(env)
    /\ UNCHANGED <<returned, value>>

(* oscript_execLambdaApplication, exec1: no semaphores *)
EnterPlain ==
    /\ Running
    /\ dump' = Append(dump, [kind |-> "plain", env |-> env])
    /\ UNCHANGED <<env, returned, value>>

(* The parameters of a lambda are bound in a plain frame, and a parameter  *)
(* may have any name, even that of a semaphore.                            *)
Collecting == dump # <<>> /\ dump[Len(dump)].kind = "exec"
Bindable == IF Collecting THEN Binding ELSE Elem

(* oscript_finalizeElem: the evaluated element goes to the front of vm_e *)
Bind(b) ==
    /\ Running
    /\ env' = <<b>> \o env
    /\ UNCHANGED <<dump, returned, value>>

(* oscript_finalizeTopLevelExec: the file's elements go to the back *)
Load(bs) ==
    /\ Running
    /\ env' = env \o bs
    /\ UNCHANGED <<dump, returned, value>>

(* Input and control are empty: the machine restores the dumped bundles    *)
(* and leaves the frame's environment to the finalizer that waits for it.  *)
Return ==
    /\ Running
    /\ dump # <<>>
    /\ LET frame == dump[Len(dump)]
       IN /\ returned' = IF frame.kind = "exec" THEN <<env>> ELSE <<>>
          /\ env' = frame.env
    /\ dump' = SubSeq(dump, 1, Len(dump) - 1)
    /\ UNCHANGED value

(* oscript_finalizeExec *)
FinalizeExec ==
    /\ returned # <<>>
    /\ value' = OwnElems(returned[1])
    /\ returned' = <<>>
    /\ UNCHANGED <<env, dump>>

Next ==
    \/ Len(dump) < MaxDepth /\ (EnterExec \/ EnterPlain)
    \/ \E b \in Bindable : Room(1) /\ Bind(b)
    \/ \E bs \in Files : Room(Len(bs)) /\ Load(bs)
    \/ Return
    \/ FinalizeExec

Spec == Init /\ [][Next]_vars

-----------------------------------------------------------------------------
(* The environment in use inside the i-th frame of the dump. *)
EnvIn(i) == IF i = Len(dump) THEN env ELSE dump[i + 1].env

(* e holds a first #BEG and a last #END, and outside them only bindings. *)
BracketedBy(e, p, q) ==
    /\ p \in DOMAIN e /\ q \in DOMAIN e /\ p < q
    /\ e[p] = BEG /\ e[q] = END
    /\ \A i \in 1..(p - 1) : e[i] \in Binding
    /\ \A i \in (q + 1)..Len(e) : e[i] \in Binding

Bracketed(e) == \E p, q \in DOMAIN e : BracketedBy(e, p, q)

(* In every evaluation of a bundle, however deep, the environment is       *)
(* bracketed: the two scans of oscript_finalizeExec find a #BEG, and after *)
(* it an #END, and stop at this frame's own semaphores and not at those of *)
(* an enclosing bundle.                                                    *)
Brackets ==
    /\ \A i \in DOMAIN dump : dump[i].kind = "exec" => Bracketed(EnvIn(i))
    /\ \A i \in DOMAIN returned : Bracketed(returned[i])

(* The bundle that oscript_finalizeExec leaves as a value never holds a    *)
(* semaphore: neither the frame's own nor one of an enclosing bundle.      *)
NoSemaphoreEscapes == \A i \in DOMAIN value : value[i] \in Binding

-----------------------------------------------------------------------------
(* What a frame promises, read off the environment it works on. *)
ScopeOf(kind, e) ==
    [kind   |-> kind,
     bound  |-> IF kind = "exec" THEN Reverse(Before(e)) ELSE <<>>,
     loaded |-> IF kind = "exec" THEN After(e) ELSE <<>>]

OpenScopes == [i \in 1..Len(dump) |-> ScopeOf(dump[i].kind, EnvIn(i))]

ClosingScopes ==
    [i \in 1..Len(returned) |-> ScopeOf("exec", returned[i])]

Scopes == INSTANCE ExecScopes
          WITH scopes <- OpenScopes, closing <- ClosingScopes

(* Every step of the machine is a step of ExecScopes: a finished bundle's  *)
(* value is what its own scope collected, in the order it was evaluated,   *)
(* and no step disturbs an enclosing scope.                                *)
ImplementsScopes == Scopes!Spec
=============================================================================
