---------------------------- MODULE OscriptExec ----------------------------
(***************************************************************************)
(* oscript_exec.c and what it shares the machine with: evaluation of an    *)
(* oscript program by the SECD machine of libose.  The machine takes       *)
(* elements from the input to the control and from the control to the      *)
(* stack; a string /!/name on the control runs a native, and the natives   *)
(* of oscript_exec.c rearrange all five bundles.  One action models one    *)
(* native, with the drop of the native's own name from the control that    *)
(* follows it; the actions of the machine itself are external.             *)
(***************************************************************************)
EXTENDS OseBundle

CONSTANTS Syntax,        \* the elements programs are made of, with their parts
          Programs,      \* the element sequences a run may start from
          Env0,          \* vm_e before the program runs
          ParsedFile,    \* what parsing the text of a file gives, by file name
          ContextNames   \* names whose first three characters, followed by /,
                         \* name a context bundle (/_x/...)

VARIABLES vm_i, vm_s, vm_e, vm_c, vm_d,   \* input stack env control dump
          vm_x,          \* the context bundle /_x
          vm_errno,      \* the error set last on vm_s
          trapped,       \* __builtin_debugtrap() was reached
          program,       \* the program being evaluated
          value,         \* history: the bundle oscript_finalizeExec left last
          loadedIn       \* history: the open frames /o/load has run in, by
                         \* the length of the dump

V == INSTANCE OscriptVisitor

others == <<vm_x, vm_errno, trapped, program, value, loadedIn>>
vars == <<vm_i, vm_s, vm_e, vm_c, vm_d, others>>

FinalizeElemName == "/!/o/finalize/elem"
FinalizeExecName == "/!/o/finalize/exec"
FinalizeLambdaName == "/!/o/finalize/execlambdaapp"
FinalizeTopLevelName == "/!/o/finalize/toplevelexec"

(* Natives a program reaches by name, and the commands the machine runs. *)
NativeOf ==
    [n \in {"/o/defn", "/o/load", "/o/if", "/o/first", "/o/last", "/o/rest",
            "/o/butlast"} |->
        CASE n = "/o/defn" -> "/!/o/defn"
          [] n = "/o/load" -> "/!/o/load"
          [] n = "/o/if" -> "/!/o/if"
          [] n = "/o/first" -> "/!/o/first"
          [] n = "/o/last" -> "/!/o/last"
          [] n = "/o/rest" -> "/!/o/rest"
          [] n = "/o/butlast" -> "/!/o/butlast"]

Natives == {FinalizeElemName, FinalizeExecName, FinalizeLambdaName,
            FinalizeTopLevelName, "/!/o/exec", "/!/o/execlambdaapp",
            "/!/o/apply", "/!/o/funcall", "/!/o/parse",
            "/!/$", "/!/apply", "/!/exec1", "/!/drop"}
           \union { NativeOf[n] : n \in DOMAIN NativeOf }

IsNative(e) == \E c \in Natives : e = String(c)

(* Those that only the natives themselves, or the machine, leave to run.   *)
Internal == {FinalizeElemName, FinalizeExecName, FinalizeLambdaName,
             FinalizeTopLevelName, "/!/o/execlambdaapp", "/!/o/parse",
             "/!/exec1", "/!/drop"}

SemaphoreNames == {"#BEG", "#END"}

(* Elements that a text can give: no name in it is that of a native or a   *)
(* semaphore, and no string is one of the natives it knows nothing of.     *)
IsItem(x, elems) ==
    \/ /\ "elems" \in DOMAIN x
       /\ x = [tt |-> x.tt, elems |-> x.elems]
       /\ x.tt \in {"b", "B", "L"}
       /\ x.elems \in Seq(elems)
    \/ /\ "val" \in DOMAIN x
       /\ x = [tt |-> x.tt, val |-> x.val]
       /\ x.tt = "i" \/ (x.tt = "s" /\ x.val \notin Internal)

IsData(elems) ==
    \A e \in elems :
       IF IsBndl(e) THEN e = Bndl(e.elems) /\ e.elems \in Seq(elems)
       ELSE /\ e = Msg(e.addr, e.items)
            /\ e.addr \notin Natives \union SemaphoreNames
            /\ e.items \in Seq(Range(e.items))
            /\ \A i \in DOMAIN e.items : IsItem(e.items[i], elems)

ASSUME SyntaxAssumption == IsData(Syntax)

ASSUME ProgramsAssumption ==
    /\ Programs \subseteq Seq(Syntax)
    /\ Env0 \in Seq(Syntax)
    /\ \A file \in DOMAIN ParsedFile : ParsedFile[file] \in Seq(Syntax)

-----------------------------------------------------------------------------
(* The semaphores of oscript_exec: messages of 16 bytes.                   *)
BEG == Msg("#BEG", <<Num("0x23424547")>>)
END == Msg("#END", <<Num("0x23454E44")>>)

(* Recognised by address and size: one item of four bytes, a number or a   *)
(* string of at most three characters.                                     *)
FourBytes(item) == item.tt = "i" \/ (item.tt = "s" /\ Len(item.val) < 4)

IsSemaphore(e, address) ==
    ~IsBndl(e) /\ e.addr = address /\ Len(e.items) = 1 /\ FourBytes(e.items[1])

PushSemaphores(e) == <<BEG>> \o e \o <<END>>

(* A variant that stops at the first #END. *)
FirstEND(e) == SelectInSeq(e, LAMBDA x : IsSemaphore(x, "#END"))

FirstBEG(e) == SelectInSeq(e, LAMBDA x : IsSemaphore(x, "#BEG"))
LastEND(e) == SelectLastInSeq(e, LAMBDA x : IsSemaphore(x, "#END"))

(* Our stuff is in front of the first semaphore, the newest first, and     *)
(* behind the last one; it is combined in the order it was evaluated.      *)
OwnElems(e) ==
    Reverse(SubSeq(e, 1, FirstBEG(e) - 1)) \o SubSeq(e, LastEND(e) + 1, Len(e))

-----------------------------------------------------------------------------
Init ==
    /\ program \in Programs
    /\ vm_s = <<V!TopLevelBundle(program)>>
    /\ vm_c = <<String("/!/drop"), String("/!/exec1")>>
    /\ vm_e = Env0
    /\ vm_i = <<>>
    /\ vm_d = <<>>
    /\ vm_x = <<>>
    /\ vm_errno = "OSE_ERR_NONE"
    /\ trapped = FALSE
    /\ value = <<>>
    /\ loadedIn = {}

Runs(c) == ~trapped /\ vm_c # <<>> /\ Last(vm_c) = String(c)

Halted == vm_i = <<>> /\ vm_c = <<>> /\ vm_d = <<>>

Saved(input, control) ==
    [input |-> input, env |-> vm_e, stack |-> Front(vm_s), control |-> control]

-----------------------------------------------------------------------------
(* The machine.                                                            *)

(* An element popped from the input is expanded on the control: the items  *)
(* of a message, the first one on top, its address below them.             *)
Expand(e) ==
    IF IsBndl(e) THEN <<e>>
    ELSE LET parts == IF e.addr = "" THEN e.items
                      ELSE Append(e.items, Str(e.addr))
         IN  Reverse([i \in DOMAIN parts |-> Msg("", <<parts[i]>>)])

PopInput ==
    /\ ~trapped
    /\ vm_c = <<>>
    /\ vm_i # <<>>
    /\ vm_c' = Expand(Last(vm_i))
    /\ vm_i' = Front(vm_i)
    /\ UNCHANGED <<vm_s, vm_e, vm_d, others>>

(* Anything but a native goes to the stack, where oscript_evalType asks    *)
(* for a bundle, or an item that is one, to be evaluated.                  *)
EvalType ==
    /\ ~trapped
    /\ vm_c # <<>>
    /\ ~IsNative(Last(vm_c))
    /\ LET e == Last(vm_c)
           isBundle == IsBndl(e) \/ ArgType(e) = "B"
       IN /\ vm_s' = Append(vm_s, IF ~IsBndl(e) /\ ArgType(e) = "B"
                                  THEN Bndl(e.items[1].elems) ELSE e)
          /\ vm_c' = IF isBundle THEN Append(Front(vm_c), String("/!/o/exec"))
                     ELSE Front(vm_c)
    /\ UNCHANGED <<vm_i, vm_e, vm_d, others>>

(* /!/$: the name on the stack is replaced by the items bound to it, the   *)
(* first match in vm_e; an unbound name stays.                             *)
Lookup ==
    /\ Runs("/!/$")
    /\ LET name == Last(vm_s).items[1].val
           at == SelectInSeq(vm_e, LAMBDA e : ~IsBndl(e) /\ e.addr = name)
       IN  vm_s' = IF at = 0 THEN vm_s
                   ELSE Front(vm_s) \o
                        [i \in DOMAIN vm_e[at].items |->
                            Msg("", <<vm_e[at].items[i]>>)]
    /\ vm_c' = Front(vm_c)
    /\ UNCHANGED <<vm_i, vm_e, vm_d, others>>

(* /!/apply on the name of a native: the native runs next. *)
ApplyNative ==
    /\ Runs("/!/apply")
    /\ IsString(Last(vm_s))
    /\ Last(vm_s).items[1].val \in DOMAIN NativeOf
    /\ vm_c' = Append(Front(vm_c), String(NativeOf[Last(vm_s).items[1].val]))
    /\ vm_s' = Front(vm_s)
    /\ UNCHANGED <<vm_i, vm_e, vm_d, others>>

(* /!/exec1: the top bundle becomes the input of a new frame. *)
Exec1 ==
    /\ Runs("/!/exec1")
    /\ vm_d' = Append(vm_d, Saved(vm_i, Front(vm_c)))
    /\ vm_i' = Reverse(Last(vm_s).elems)
    /\ vm_s' = <<>>
    /\ vm_c' = <<>>
    /\ UNCHANGED <<vm_e, others>>

Drop ==
    /\ Runs("/!/drop")
    /\ vm_s' = Front(vm_s)
    /\ vm_c' = Front(vm_c)
    /\ UNCHANGED <<vm_i, vm_e, vm_d, others>>

(* Nothing left to do in a frame: the dumped bundles are restored, what is *)
(* on the stack stays on top of the restored one, and above it the         *)
(* environment of the frame as a bundle.                                   *)
ReadyToReturn == ~trapped /\ vm_i = <<>> /\ vm_c = <<>> /\ vm_d # <<>>

Return ==
    /\ ReadyToReturn
    /\ LET frame == Last(vm_d)
       IN /\ vm_i' = frame.input
          /\ vm_s' = frame.stack \o vm_s \o <<Bndl(vm_e)>>
          /\ vm_e' = frame.env
          /\ vm_c' = frame.control
    /\ vm_d' = Front(vm_d)
    /\ loadedIn' = loadedIn \ {Len(vm_d)}
    /\ UNCHANGED <<vm_x, vm_errno, trapped, program, value>>

-----------------------------------------------------------------------------
(* oscript_exec.c                                                          *)

(* Open a frame for the elements of the top bundle.  What the control      *)
(* still holds goes back to the input, to be done after the finalizer.     *)
OpenFrame(finalizer) ==
    LET top == Last(vm_s)
        elems == IF IsBndl(top) THEN Reverse(top.elems) ELSE <<top>>
    IN /\ vm_d' = Append(vm_d, Saved(vm_i \o Front(vm_c) \o <<String(finalizer)>>,
                                     <<>>))
       /\ vm_i' = Append(elems, Msg(FinalizeElemName, <<>>))
       /\ vm_s' = <<>>
       /\ vm_c' = <<>>

Exec ==
    /\ Runs("/!/o/exec")
    /\ Last(vm_s) # Bndl(<<>>)
    /\ OpenFrame(FinalizeExecName)
    /\ vm_e' = PushSemaphores(vm_e)
    /\ UNCHANGED others

(* The empty bundle is its own value. *)
ExecEmpty ==
    /\ Runs("/!/o/exec")
    /\ Last(vm_s) = Bndl(<<>>)
    /\ vm_c' = Front(vm_c)
    /\ UNCHANGED <<vm_i, vm_s, vm_e, vm_d, others>>

ExecLambdaApplication ==
    /\ Runs("/!/o/execlambdaapp")
    /\ OpenFrame(FinalizeLambdaName)
    /\ UNCHANGED <<vm_e, others>>

(* The element that was evaluated left its values and, above them, its     *)
(* address: it is bound in the environment, in the context its name        *)
(* belongs to, or dropped if nothing is left.                              *)
BindElem ==
    LET name == Last(vm_s).items[1].val
        bound == IF Len(vm_s) = 2 /\ name = "" /\ IsBndl(vm_s[1])
                 THEN vm_s[1]
                 ELSE Msg(name, JoinItems(Front(vm_s)))
    IN IF name \in ContextNames
       THEN vm_x' = <<bound>> \o vm_x /\ UNCHANGED vm_e
       ELSE vm_e' = <<bound>> \o vm_e /\ UNCHANGED vm_x

BindSingle ==
    /\ vm_e' = IF vm_s[1] = String("") THEN vm_e
               ELSE IF IsString(vm_s[1])
                    THEN <<Msg(vm_s[1].items[1].val, <<>>)>> \o vm_e
                    ELSE <<vm_s[1]>> \o vm_e
    /\ UNCHANGED vm_x

(* Variants of the next operator: no address behind a bundle, no finalizer *)
(* for a bundle, and a finalizer where no element is left.                 *)
PrepareNextNoAddress(input) ==
    IF input = <<>> THEN <<>>
    ELSE LET e == Last(input)
         IN  Front(input) \o <<String(FinalizeElemName)>> \o
             IF IsBndl(e) THEN <<e>>
             ELSE <<Msg("", Append(e.items, Str(e.addr)))>>

PrepareNextNoFinalizer(input) ==
    IF input = <<>> THEN <<>>
    ELSE LET e == Last(input)
         IN  Front(input) \o
             IF IsBndl(e) THEN <<String(""), e>>
             ELSE <<String(FinalizeElemName), Msg("", Append(e.items, Str(e.addr)))>>

PrepareNextAlways(input) ==
    IF input = <<>> THEN <<String(FinalizeElemName)>>
    ELSE LET e == Last(input)
         IN  Front(input) \o <<String(FinalizeElemName)>> \o
             IF IsBndl(e) THEN <<String(""), e>>
             ELSE <<Msg("", Append(e.items, Str(e.addr)))>>

(* The finalizer is put under the next element of the input, and the       *)
(* element's address behind its items, or an empty one behind a bundle, so *)
(* that the finalizer finds it on top of the stack.                        *)
PrepareNext(input) ==
    IF input = <<>> THEN <<>>
    ELSE LET e == Last(input)
         IN  Front(input) \o <<String(FinalizeElemName)>> \o
             IF IsBndl(e) THEN <<String(""), e>>
             ELSE <<Msg("", Append(e.items, Str(e.addr)))>>

FinalizeElem ==
    /\ Runs(FinalizeElemName)
    /\ CASE Len(vm_s) >= 2 -> BindElem
         [] Len(vm_s) = 1 -> BindSingle
         [] OTHER -> UNCHANGED <<vm_e, vm_x>>
    /\ vm_s' = <<>>
    /\ vm_i' = PrepareNext(vm_i)
    /\ vm_c' = Front(vm_c)
    /\ UNCHANGED <<vm_d, vm_errno, trapped, program, value, loadedIn>>

FinalizeExec ==
    /\ Runs(FinalizeExecName)
    /\ value' = OwnElems(Last(vm_s).elems)
    /\ vm_s' = Append(Front(vm_s), Bndl(value'))
    /\ vm_c' = Front(vm_c)
    /\ UNCHANGED <<vm_i, vm_e, vm_d, vm_x, vm_errno, trapped, program, loadedIn>>

(* A variant that takes the first element. *)
LambdaValueFirst(env) ==
    IF env[1] = Bndl(<<>>) THEN env[2] ELSE Head(env[1].elems)

(* The value of a lambda application: of the environment of its frame, the *)
(* last element of the first one, the bundle its body left; if that is     *)
(* empty, the search ends on the element behind it.                        *)
LambdaValue(env) ==
    IF env[1] = Bndl(<<>>) THEN env[2] ELSE Last(env[1].elems)

FinalizeExecLambdaApplication ==
    /\ Runs(FinalizeLambdaName)
    /\ vm_s' = Append(Front(vm_s), LambdaValue(Last(vm_s).elems))
    /\ vm_c' = Front(vm_c)
    /\ UNCHANGED <<vm_i, vm_e, vm_d, others>>

(* A variant that puts them in front. *)
FinalizeTopLevelExecInFront ==
    /\ Runs(FinalizeTopLevelName)
    /\ vm_e' = Last(vm_s).elems \o vm_e
    /\ vm_s' = Front(vm_s)
    /\ vm_c' = Front(vm_c)
    /\ UNCHANGED <<vm_i, vm_d, others>>

(* The bundle a file left is unpacked at the end of the environment. *)
FinalizeTopLevelExec ==
    /\ Runs(FinalizeTopLevelName)
    /\ vm_e' = vm_e \o Last(vm_s).elems
    /\ vm_s' = Front(vm_s)
    /\ vm_c' = Front(vm_c)
    /\ UNCHANGED <<vm_i, vm_d, others>>

-----------------------------------------------------------------------------
(* Application.                                                            *)

(* A variant that binds what is no message as it is. *)
BindFnArgsAsTheyAre(params, args) ==
    [i \in DOMAIN params.items |->
        Msg(params.items[i].val,
            IF i > Len(args) THEN params.items
            ELSE IF IsBndl(args[i]) THEN <<args[i]>> ELSE args[i].items)]

(* Arguments are bound by position, with no check of their number.  The    *)
(* elements are read off the stack one after the other: behind the last    *)
(* argument lie the parameter list, the header of the bundle being made,   *)
(* and the bindings made so far, which are read as they were bound.        *)
BindFnArgs(params, args) ==
    LET read == args \o <<params, Bndl(<<>>)>>
    IN  [i \in DOMAIN params.items |->
            Msg(params.items[i].val, AsItems(read[((i - 1) % Len(read)) + 1]))]

(* The arguments, bound, and the body make the bundle of a new frame. *)
ApplyLambda(s) ==
    LET lambda == Last(s).items[1].elems        \* the body, the parameters
        body == lambda[1]
    IN IF IsBndl(body) \/ ArgType(body) \notin {"b", "B"}
       THEN trapped' = TRUE /\ UNCHANGED <<vm_s, vm_c>>
       ELSE /\ vm_s' = Append(DropTop(s, 2),
                   Bndl(Append(BindFnArgs(lambda[2], FromTop(s, 1).elems),
                               Msg("", <<Bundle(Last(body.items).elems)>>))))
            /\ vm_c' = Append(Front(vm_c), String("/!/o/execlambdaapp"))
            /\ UNCHANGED trapped

(* A bundle that only holds a bundle is probably a thunk. *)
Unthunk(e) ==
    IF IsBndl(e) /\ Len(e.elems) = 1 /\ IsBndl(e.elems[1])
    THEN e.elems[1] ELSE e

ApplyTop(s) ==
    LET top == Last(s)
        tt == IF IsBndl(top) THEN "" ELSE ArgType(top)
    IN IF Len(s) = 1
       THEN trapped' = TRUE /\ UNCHANGED <<vm_s, vm_c>>
       ELSE IF tt = "L" THEN ApplyLambda(s)
       ELSE /\ vm_s' = Append(Front(s),
                         Unthunk(IF tt = "B" THEN BlobToElem(top) ELSE top))
            /\ vm_c' = Append(Front(vm_c), String("/!/apply"))
            /\ UNCHANGED trapped

Apply ==
    /\ Runs("/!/o/apply")
    /\ ApplyTop(vm_s)
    /\ UNCHANGED <<vm_i, vm_e, vm_d, vm_x, vm_errno, program, value, loadedIn>>

(* /o/funcall applies the top element to all the others. *)
Funcall ==
    /\ Runs("/!/o/funcall")
    /\ ApplyTop(<<Bndl(Front(vm_s)), Last(vm_s)>>)
    /\ UNCHANGED <<vm_i, vm_e, vm_d, vm_x, vm_errno, program, value, loadedIn>>

(* /o/defn makes a lambda of its arguments, unevaluated body first. *)
Defn ==
    /\ Runs("/!/o/defn")
    /\ vm_s' = Append(Front(vm_s), Msg("", <<Lambda(Last(vm_s).elems)>>))
    /\ vm_c' = Front(vm_c)
    /\ UNCHANGED <<vm_i, vm_e, vm_d, others>>

-----------------------------------------------------------------------------
(* The natives of oscript_lib.c that choose what is evaluated next.        *)

(* What /o/if is given: the value otherwise, the one if the condition is   *)
(* not 0, the condition.  They are counted with all that is on the stack.  *)
IfTooFew ==
    /\ Runs("/!/o/if")
    /\ vm_s # <<>> => Len(UnpackDrop(vm_s)) < 3
    /\ vm_errno' = "OSE_ERR_ELEM_COUNT"
    /\ vm_s' = IF vm_s = <<>> THEN vm_s ELSE UnpackDrop(vm_s)
    /\ vm_c' = Front(vm_c)
    /\ UNCHANGED <<vm_i, vm_e, vm_d, vm_x, trapped, program, value, loadedIn>>

(* A branch in a blob is the blob's bundle, a bundle of one element that   *)
(* element.                                                                *)
Branch(e) ==
    LET b == IF ~IsBndl(e) /\ ArgType(e) = "b" THEN BlobToElem(e) ELSE e
    IN  IF IsBndl(b) /\ Len(b.elems) = 1 THEN b.elems[1] ELSE b

(* Whether the condition is 0.  What ose_builtin_toInt32 makes of one that *)
(* is no int32 is left open.                                               *)
IsZero(e) == IF ~IsBndl(e) /\ ArgType(e) = "i" THEN {Last(e.items).val = "0"}
             ELSE BOOLEAN

If ==
    /\ Runs("/!/o/if")
    /\ vm_s # <<>>
    /\ LET s == UnpackDrop(vm_s)
       IN /\ Len(s) >= 3
          /\ \E isZero \in IsZero(Last(s)) :
                vm_s' = Append(DropTop(s, 3),
                               Branch(FromTop(s, IF isZero THEN 2 ELSE 1)))
    /\ vm_c' = Append(Front(vm_c), String("/!/o/exec"))
    /\ UNCHANGED <<vm_i, vm_e, vm_d, others>>

(* The last argument is the list; the others are dropped with what held    *)
(* them.                                                                   *)
Unwrapped(s) == Nip(Pop(s))

FirstOf(s) == Nip(Pop(PopAllDropBundle(Unwrapped(s))))
LastOf(s) == Nip(Pop(Unwrapped(s)))
RestOf(s) == Nip(Split(Unwrapped(s), 1))
ButlastOf(s) == Front(Pop(Unwrapped(s)))

PartOfList ==
    /\ \/ Runs("/!/o/first") /\ vm_s' = FirstOf(vm_s)
       \/ Runs("/!/o/last") /\ vm_s' = LastOf(vm_s)
       \/ Runs("/!/o/rest") /\ vm_s' = RestOf(vm_s)
       \/ Runs("/!/o/butlast") /\ vm_s' = ButlastOf(vm_s)
    /\ vm_c' = Front(vm_c)
    /\ UNCHANGED <<vm_i, vm_e, vm_d, others>>

-----------------------------------------------------------------------------
(* /o/load (oscript_parser.cpp)                                            *)

(* The argument bundle is unpacked where it lies, and checked as it goes. *)
LoadError(s) ==
    CASE s = <<>> -> "OSE_ERR_ELEM_COUNT"
      [] s # <<>> /\ IsBndl(Last(s)) -> "OSE_ERR_ELEM_TYPE"
      [] s # <<>> /\ ~IsBndl(Last(s)) /\ ArgType(Last(s)) # "s" ->
            "OSE_ERR_ITEM_TYPE"
      [] OTHER -> "OSE_ERR_NONE"

LoadStack ==
    IF vm_s # <<>> /\ IsBndl(Last(vm_s))
    THEN Front(vm_s) \o Last(vm_s).elems
    ELSE vm_s

LoadChecks ==
    IF vm_s # <<>> /\ ~IsBndl(Last(vm_s)) THEN "OSE_ERR_ELEM_TYPE"
    ELSE LoadError(LoadStack)

LoadFails ==
    /\ Runs("/!/o/load")
    /\ LoadChecks # "OSE_ERR_NONE"
    /\ vm_errno' = LoadChecks
    /\ vm_s' = LoadStack
    /\ vm_c' = Front(vm_c)
    /\ UNCHANGED <<vm_i, vm_e, vm_d, vm_x, trapped, program, value, loadedIn>>

(* The text is left to /o/parse, exec1 and drop, in that order; the        *)
(* address and the finalizer of the element that called are taken off the  *)
(* input, and the finalizer of a loaded bundle is put there instead.       *)
Load ==
    /\ Runs("/!/o/load")
    /\ LoadChecks = "OSE_ERR_NONE"
    /\ Last(LoadStack).items[1].val \in DOMAIN ParsedFile
    /\ vm_s' = LoadStack
    /\ vm_c' = Front(vm_c) \o
                <<String("/!/drop"), String("/!/exec1"), String("/!/o/parse")>>
    /\ vm_i' = Append(DropTop(vm_i, 2), String(FinalizeTopLevelName))
    /\ loadedIn' = loadedIn \union {Len(vm_d)}
    /\ UNCHANGED <<vm_e, vm_d, vm_x, vm_errno, trapped, program, value>>

(* The parser replaces a text by its elements, in a bundle in a bundle, or *)
(* by the empty bundle if there is no text.                                *)
Parsed(file) ==
    IF ParsedFile[file] = <<>> THEN Bndl(<<>>) ELSE V!TopLevelBundle(ParsedFile[file])

Parse ==
    /\ Runs("/!/o/parse")
    /\ vm_s' = Append(Front(vm_s), Parsed(Last(vm_s).items[1].val))
    /\ vm_c' = Front(vm_c)
    /\ UNCHANGED <<vm_i, vm_e, vm_d, others>>

-----------------------------------------------------------------------------
Finished == (Halted \/ trapped) /\ UNCHANGED vars

Step ==
    \/ PopInput \/ EvalType \/ Lookup \/ ApplyNative \/ Exec1 \/ Drop \/ Return
    \/ Exec \/ ExecEmpty \/ ExecLambdaApplication
    \/ FinalizeElem \/ FinalizeExec \/ FinalizeExecLambdaApplication
    \/ FinalizeTopLevelExec
    \/ Apply \/ Funcall \/ Defn
    \/ If \/ IfTooFew \/ PartOfList
    \/ Load \/ LoadFails \/ Parse

Next == Step \/ Finished

(* The machine is one loop that steps until nothing is left to do. *)
Spec == Init /\ [][Next]_vars /\ WF_vars(Step)

-----------------------------------------------------------------------------
(* All five bundles are made of messages with items and of bundles, the    *)
(* dump is made of frames; the errors are those /o/load sets.              *)
IsElem(e) ==
    \/ DOMAIN e = {"elems"}
    \/ /\ DOMAIN e = {"addr", "items"}
       /\ \A i \in DOMAIN e.items :
             "tt" \in DOMAIN e.items[i] /\ e.items[i].tt \in {"s", "i", "b", "B", "L"}

TypeOK ==
    /\ \A bundle \in {vm_i, vm_s, vm_e, vm_c, vm_x} :
          \A i \in DOMAIN bundle : IsElem(bundle[i])
    /\ \A i \in DOMAIN vm_d :
          DOMAIN vm_d[i] = {"input", "env", "stack", "control"}
    /\ vm_errno \in {"OSE_ERR_NONE", "OSE_ERR_ELEM_COUNT",
                     "OSE_ERR_ELEM_TYPE", "OSE_ERR_ITEM_TYPE"}
    /\ trapped \in BOOLEAN

(* What the natives read without looking whether it is there is there.  A  *)
(* lambda has a body and parameters, whose names are none of a native; the *)
(* application of one that leaves nothing has the value of a parameter not *)
(* named like a semaphore; and nothing stands between /o/load and the name *)
(* and the finalizer of the element it is called in.                       *)
Reads == {"/!/$", "/!/o/exec", "/!/o/apply", "/!/o/funcall", "/!/o/defn",
          "/!/o/first", "/!/o/last", "/!/o/rest", "/!/o/butlast",
          FinalizeTopLevelName}

IsLambda(e) == ~IsBndl(e) /\ ArgType(e) = "L"

LambdaFits(s) ==
    Len(s) > 1 /\ IsLambda(Last(s)) =>
        /\ Last(s).items[1].tt = "L"
        /\ LET lambda == Last(s).items[1].elems
           IN  /\ Len(lambda) = 2 /\ ~IsBndl(lambda[2])
               /\ \A i \in DOMAIN lambda[2].items :
                     /\ lambda[2].items[i].tt = "s"
                     /\ lambda[2].items[i].val \notin Natives
        /\ IsBndl(FromTop(s, 1))

HasParts(s) == Parts(Last(s)) # <<>>

OperandsFound ==
    /\ \A native \in Reads : Runs(native) => vm_s # <<>>
    /\ Runs("/!/o/apply") => LambdaFits(vm_s)
    /\ Runs("/!/o/funcall") => LambdaFits(<<Bndl(Front(vm_s)), Last(vm_s)>>)
    /\ Runs("/!/o/defn") \/ Runs(FinalizeTopLevelName) => IsBndl(Last(vm_s))
    /\ Runs(FinalizeLambdaName) =>
          LET env == Last(vm_s).elems
          IN  /\ env # <<>> /\ IsBndl(env[1])
              /\ env[1] = Bndl(<<>>) =>
                    /\ Len(env) > 1
                    /\ IsBndl(env[2]) \/ env[2].addr \notin SemaphoreNames
    /\ \A part \in {"/!/o/first", "/!/o/last", "/!/o/rest", "/!/o/butlast"} :
          Runs(part) => HasParts(vm_s) /\ HasParts(Pop(vm_s))
    /\ Runs("/!/o/load") /\ LoadChecks = "OSE_ERR_NONE" =>
          Len(vm_i) > 1 /\ FromTop(vm_i, 1) = String(FinalizeElemName)

(* oscript_finalizeElem reads the top of the stack as the address of the   *)
(* element that was evaluated, without looking at its type: whatever the   *)
(* element was, and however often the machine moved the rest of it between *)
(* input and control on the way, its address is there.                     *)
FinalizerSeesAddress ==
    Runs(FinalizeElemName) /\ vm_s # <<>> => IsString(Last(vm_s))

(* The frame on top of the dump evaluates a bundle's elements. *)
KindOf(frame) ==
    IF frame.input # <<>> /\ Last(frame.input) = String(FinalizeExecName)
    THEN "exec" ELSE "plain"

(* When a bundle's frame returns, every element of it has been finalized   *)
(* and the stack is empty: what is left on it would pass for values of the *)
(* enclosing element.  Only where /o/load has run in the same frame, and   *)
(* taken the finalizer of the elements after it off the input, can values  *)
(* be left behind, whatever was loaded, and neither in the frames around   *)
(* it nor in those opened afterwards.                                      *)
CleanReturn ==
    ReadyToReturn /\ KindOf(Last(vm_d)) = "exec" /\ vm_s # <<>> =>
        Len(vm_d) \in loadedIn

-----------------------------------------------------------------------------
(* The environment discipline of ExecFrames.  An environment is returned   *)
(* from the step that pops its frame to the step of its finalizer.         *)
FinalizerWaits ==
    \/ Runs(FinalizeExecName)
    \/ vm_c = <<>> /\ vm_i # <<>> /\ Last(vm_i) = String(FinalizeExecName)

Frames == INSTANCE ExecFrames
    WITH env <- vm_e,
         dump <- [i \in DOMAIN vm_d |->
                     [kind |-> KindOf(vm_d[i]), env |-> vm_d[i].env]],
         returned <- IF FinalizerWaits THEN <<Last(vm_s).elems>> ELSE <<>>,
         Binding <- {}, Files <- {},        \* the witnesses are given below
         MaxDepth <- 0, MaxEnv <- 0         \* the bounds are those of its Next

IsBinding(e) == ~IsSemaphore(e, "#BEG") /\ ~IsSemaphore(e, "#END")

(* The value of a bundle holds what was evaluated in it, and no semaphore: *)
(* neither its own, nor one of a bundle or a lambda around it.             *)
NoSemaphoreInValue == \A i \in DOMAIN value : IsBinding(value[i])

(* Every step of the machine is a step of ExecFrames: it changes the       *)
(* environment, the environments saved in the dump and the value of a      *)
(* bundle in no other way than the one that module allows, and what it     *)
(* loads, or binds in a bundle, never passes for a semaphore, not even if  *)
(* a lambda has a parameter of that name.                                  *)
FrameStep ==
    \/ Frames!EnterExec
    \/ Frames!EnterPlain
    \/ Frames!Bind(Head(vm_e')) /\ (Frames!Collecting => IsBinding(Head(vm_e')))
    \/ LET loaded == SubSeq(vm_e', Len(vm_e) + 1, Len(vm_e'))
       IN  Frames!Load(loaded) /\ \A i \in DOMAIN loaded : IsBinding(loaded[i])
    \/ Frames!Return
    \/ Frames!FinalizeExec
    \/ UNCHANGED Frames!vars

ImplementsFrames == [][FrameStep]_vars

(* Evaluation comes to an end. *)
Terminates == <>(Halted \/ trapped)
=============================================================================
