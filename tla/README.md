# o.se.oscript: models, checks and proofs

oscript is a small language that is evaluated by the SECD machine of libose.
This directory holds TLA+ models of the parts of the repository that carry its
logic, the TLC configurations that check them, and proofs, checked by TLAPS,
about the parts everything else rests on. `src/` is the reference throughout:
`PROJECT.json` gives, for every definition, the lines it models.

    tlc -workers 2 -config MCExecFrames.cfg MCExecFrames
    tlapm ExecFramesProofs.tla
    tlapm ElemRewriteProofs.tla
    tlapm OscriptExecProofs.tla
    tlapm OscriptMapProofs.tla
    tlapm OscriptLibProofs.tla
    tlapm VisitorStackProofs.tla
    tlapm PrinterProofs.tla

## 1. The system

A program's text is parsed to OSC bundles (`oscript_parser.cpp`,
`oscriptVisitorImpl.cpp`), and the machine evaluates them. The machine works on
bundles: **input** `vm_i`, **stack** `vm_s`, **environment** `vm_e`, **control**
`vm_c`, **dump** `vm_d`, and context bundles such as `/_x`. It pops an element
off the input, spreads its items over the control, and moves these to the
stack; an item `/!/name` calls a *native*, a C function that may rearrange all
of the bundles. Everything oscript does is in its natives, and they cooperate
only through what they leave in the bundles: "what happens next" is data. That
is what makes the code hard to test: a native that leaves one element too many
does no harm until another one, many steps later, takes it for something else.

There are no threads, no messages and nothing that persists: the machine is one
loop. The hazards are long sequences of legal calls, nesting, reading state
that an inner evaluation moved, partial failure, integers at a boundary, and
bytes that are moved within a region of fixed size.

| Component | Source | State it keeps | Operations | Interacts with | Hard behaviour | Correct when |
|---|---|---|---|---|---|---|
| evaluator | `oscript_exec.c` | none of its own: frames in the dump, semaphores `#BEG`, `#END` in the environment, finalizers in the input | `exec`, `execlambdaapp`, `apply`, `funcall`, the four finalizers | every other native, through the five bundles | all nested bundles share one environment; the rest of a message moves between control and input | a bundle's value is what its own elements left, in their order; a frame leaves everything else as it was |
| parser glue | `oscript_parser.cpp` | a queue of tokens while parsing | `/o/parse`, `/o/load` | evaluator: `/o/load` takes elements off the input which `oscript_finalizeElem` put there | arguments unpacked before they are checked; loads in the middle of a bundle | what a file binds is visible behind what the program binds |
| code generator | `oscriptVisitorImpl.cpp` | bundles under construction, on top of the machine's stack | one visit for each construct | fixes the shapes the evaluator relies on | order of arguments, function and `/!/o/apply`; visits share one stack with everything below | a visit leaves one element, its construct's, and touches nothing else |
| library | `oscript_lib.c` | the state of a map, a blob on the control | `/o/map`, `/o/maprest`, `/o/defn`, `/o/if`, `/o/route`, `/o/first`..., `/o/sort`, wrapped builtins | functions run between two steps of a map, on the same stack and control | nested maps; functions that leave nothing; errors after part of the work | functions see the columns of their own rows, each once; a native takes its arguments and nothing below |
| types | `oscript_types.c` | a cache of the offsets of a lambda's first parameters | evaluating an item by its type, payload sizes, reading a lambda's parameters | evaluator, printer | parameters behind the cache; lambdas without parameters | an item that is a bundle is evaluated, everything else is its own value; every parameter is found |
| printer | `oscript_print.c` | none | format an element: measure, allocate, write; the date of a timetag | types (parameters, payload sizes) | two passes that must agree; arithmetic on unsigned seconds | the blob holds the whole text; the date of a timetag |
| entry point | `ose_oscript.c` | none | registers natives | | | |
| grammar, generated parser | `oscript.g4`, `oscriptLexer.*`, `oscriptParser.*`, `oscriptVisitor.*`, `oscriptBaseVisitor.*` | ANTLR's | | code generator | | generated code |
| startup script, build | `oscript.ose`, `Makefile`, `make_antlr4_Cpp_runtime.sh` | | a program for libose's machine that wraps builtins | library | | |

libose (the bundles, their operations and the loop of the machine) and the
ANTLR runtime are not in the repository. Their operations are modelled from how
the code here uses them and marked `external` in `PROJECT.json`.

The hazards of each component, with the properties that would catch them, are
listed in `PROJECT.json`.

## 2. Modules

| Module | Models | Role |
|---|---|---|
| `ExecScopes` | | what nested evaluation promises: scopes that collect bindings |
| `ExecFrames` | the environment discipline of `oscript_exec.c` | frames and semaphores; implements `ExecScopes` |
| `ExecFramesProofs` | | theorems about `ExecFrames` |
| `ElemRewrite` | the end of `oscript_finalizeElem` | the bytes it moves in the input; `PrepareNext` of `OscriptExec` step by step |
| `ElemRewriteProofs` | | theorems about `ElemRewrite` |
| `OseBundle` | the bundles of libose | data, no state |
| `OseBundleProofs` | | lemmas about sequences and the operations of `OseBundle`, for the proofs about what uses them |
| `OscriptVisitor` | `oscriptVisitorImpl.cpp` | the elements generated for each construct, as operators |
| `VisitorStack` | `oscriptVisitorImpl.cpp`, `/o/parse` | the visits as they run on the machine's stack; each leaves the element of `OscriptVisitor` |
| `VisitorStackProofs` | | theorems about `VisitorStack` |
| `OscriptExec` | `oscript_exec.c`, `/o/load`, `/o/parse`, `/o/defn`, `/o/if`, `/o/first`, `/o/last`, `/o/rest`, `/o/butlast`, `oscript_evalType` | the machine, one action for each native; every step is a step of `ExecFrames` |
| `OscriptExecProofs` | | theorems about `OscriptExec` |
| `OscriptEval` | | what a program means, as a recursive function |
| `ZipMap` | | what `/o/map` promises |
| `OscriptMap` | `/o/map`, `/o/maprest` | the protocol between a map and its function |
| `MapColumns` | | what `OscriptMap` has on control and stack, read as maps of `ZipMap`; `OscriptMap` implements it |
| `OscriptMapProofs` | | theorems about `OscriptMap`, and the refinement |
| `SortOrder` | `sort_cb` | the order `/o/sort` sorts by, as operators |
| `OscriptLib` | `/o/sort`, `/o/sortidxs`, `/o/route`, the wrapped builtins | the natives that only work on the arguments on the stack, and their errors |
| `OscriptLibProofs` | | theorems about `OscriptLib` and `SortOrder` |
| `PrintText` | the formatting functions of `oscript_print.c`, the parameters and payloads of `oscript_types.c` | the pieces of text of an element, as operators |
| `PrintPasses` | `/o/format`, `/o/formatln` | the measuring and the writing pass over these pieces |
| `TimetagDate` | the date of a timetag in `oscript_print.c` | unsigned arithmetic, against the calendar |
| `PrinterProofs` | | theorems about `TimetagDate` and `PrintPasses` |
| `MC...` | | the constants of each, for TLC |

    ExecScopes  <-- refines --  ExecFrames  <-- steps of --  OscriptExec -- uses --> OscriptVisitor
                                    ^                        ^    ^    ^                  ^
                            ExecFramesProofs        OscriptEval   |   PrepareNext         | each visit's
                                                (value of a run)  |    = ElemRewrite      | element
                                                                  |        ^              |
                                                             OseBundle     |         VisitorStack
                                                                  |   ElemRewriteProofs   ^
                  +--------------------+--------------------------+             VisitorStackProofs
                  |                    |                |
              OscriptMap           OscriptLib       PrintPasses
               ^      ^             |     ^
              |     MapColumns      |  OscriptLibProofs
              |      ^       |   SortOrder
      OscriptMapProofs       +-- refines --> ZipMap

      TimetagDate  <--  PrinterProofs  --> PrintPasses  <-- pieces of each element --  PrintText

`OscriptExecProofs`, `OscriptMapProofs`, `OscriptLibProofs` and `VisitorStackProofs` rest
on the lemmas of `OseBundleProofs`.

### ExecFrames, and its abstract specification

All bundles under evaluation share `vm_e`. `oscript_exec` saves it in the dump
and encloses it between `#BEG` and `#END`. An evaluated element goes to the
front, a loaded one to the back. When the frame is done the machine hands the
frame's environment to `oscript_finalizeExec`, which scans forward to the first
`#BEG`, then on to the *last* `#END`, reverses what is in front, appends what is
behind, and that is the value. In between lie the semaphores of all enclosing
bundles, and elements their files left; the scans have to stop at the right
ones. `env`, `dump`, `returned` and `value` are `vm_e`, the frames in `vm_d`, the
environment on the stack between the machine's return and the finalizer, and
the bundle the finalizer leaves.

`ExecScopes` says the same with no environment: a stack of scopes, each with
what was bound and what was loaded in it. The refinement mapping reads a scope
off its environment: `bound` is the reverse of the part before the brackets,
`loaded` the part behind them. A lambda application and `exec1` push a frame
without semaphores ("plain"); nothing they bind is collected. What is bound in a
bundle has a name of the grammar, none of which starts with `#`; but a lambda's
parameter is named by a string and may be called `#BEG`, so that in a plain
frame a binding can be a semaphore (`Bindable`). It ends up between the
semaphores of any bundle in the body, where the scans do not see it.

### OscriptExec

Five bundles, all with their elements as data (`OseBundle`), and one action for
each native, which includes the drop of the native's own name from the control.
`PopInput`, `EvalType`, `Return`, `Exec1`, `Lookup`, `Drop` and `ApplyNative` are the
machine's. A bundle is a sequence, the last element on top of the stack; the
bytes of elements are abstracted (`ElemRewrite` has them for the one native that
moves them itself). What is kept: every early return and trap,
the order in which natives read and write, the address behind an element's
items, the unchecked reads of `oscript_bindFnArgs` past the argument bundle, the
search of `oscript_finalizeExecLambdaApplication` that runs on to the element
behind an empty body, and `/o/load` taking two elements off the input.

`OscriptEval` is the reference: the value of a bundle is the sequence of what its
elements leave, each evaluated where the earlier ones are visible. It has no
stack, no frames and no finalizers. It states what the machine does with too
few arguments and with an empty body too, so that the run covers them. `/o/if`
puts its branch under `/!/exec1`, so that a branch is a frame of its own; lambdas
that call themselves from a branch are among the programs.

`Syntax` holds the elements programs, files and the first environment are made of,
with the elements in them, so that the assumptions about a program reach to any
depth: addresses are those of no native and no semaphore, and no string is one
of the natives in `Internal`, which only natives themselves, or the machine,
leave on the control. (In the code such a string runs the native like any other, on
whatever is there; `/!/o/apply` and `/!/o/funcall`, which programs use, are not
among them.)

Natives read their operands unchecked, and a program may give them any.
`OperandsFound` says where they rely on something: an operand there at all, a
bundle where `/o/defn` and the finalizer of a file read one, a body and parameters in
a lambda, the parts of a list, an element behind an empty body, and, for `/o/load`,
the name and the finalizer of its own element on top of the input. Without the last
of these, as in `[("lib") /o/load, 5]`, `/o/load` takes a rest of its element
off the input, and a later finalizer finds no address.

`loadedIn` is a history variable: the open frames in which `/o/load` has run, each by
the length of the dump while it is the innermost. `CleanReturn` says with it that the
lost finalizer only shows in the very frame of the load, whether the file leaves
elements, an empty bundle or nothing. A condition of `/o/if` that is no int32 is
converted by libose, into a number that is 0 or is not (`IsZero`).

### ElemRewrite

`oscript_finalizeElem` works on the element that is next, at offset `o` with `s`
bytes, which is the last of the input, `mem` from 0 to `size`. `InsertFinalizer`
is the insertion of its own name for the next round (`oscript_exec.c:469-487`);
`BundleElem` and `TagAddress` are the cases of the next element; an address of up
to three characters takes `ShortAddress`, a longer one `CopyAddress`, `ShiftLeft`,
`AnonymousAddress` and `ClearBehind`, one action for each `memmove`, `memcpy` or
`memset`. `Cap` is the end of the input's region, what lies behind it up to `Total`
belongs to the next bundle. An int32 keeps its place and its four bytes, the
last of which holds the whole number. The properties state the conditions the
code relies on and does not check: the move to the left takes as many bytes
from behind the message as lie in front of it, so that

- the address arrives if it is no longer than its offset (`Prepared`);
- nothing of its copy stays behind if it takes no more than half of that offset
  and eight bytes (`CleanBehind`);
- a neighbour's bytes move, and others are cleared, unless the offset and twice
  the address fit behind the result (`OthersIntact`); a region at most half full
  is always enough.

### VisitorStack

ANTLR calls a visit for each node of the tree, and each visit works on the top
of the machine's stack with `ose_push` and its kind. `todo` is the C++ stack: the
calls that remain, a visit's own end (`return`) with the stack it began with. A
bundle under construction is an empty element whose size is written last
(`EndBundle`), so that whatever a visit leaves too many or takes too few goes into
it unnoticed. `BelowUntouched` is what every visit may rely on of every other;
`OneElementEach` says that it leaves exactly one element there, and which one
(`Generated`, put together from the elements of the parts the way `OscriptVisitor`
says), and that at the end what stands for the whole text is in the place of the text.
`Syntax` holds all constructs that are part of another one, of any depth; a
tree is finite, so that it has a `Depth`.

### OscriptLib, SortOrder

The natives that unpack their arguments, the bundle on top of the stack, compute
and leave a result. They count their arguments after unpacking them, together
with whatever an evaluation left below, and some return in the middle when a
check fails. Errors are set on the stack's bundle or on the machine; a wrapped
builtin moves the former to the latter, whoever set it. `SortImpl` and `Route` also
check that a bundle is there before they unpack it, in arms of their own; an apply
has put one there, and `ArgumentsFound` in the proofs says so. `/o/route` ends with
`ose_routeWithDelegation`, libose's, of which only its place is modelled: one bundle
where two arguments were (`Delegated`), whatever its messages are. `/o/eql` and `/o/nth` stand
for the two macros all builtins are wrapped by. What `qsort` makes of a list is any
order `sort_cb` allows: numbers are compared by what `sort_numToDouble` returns,
which is an `int`.

### PrintPasses

The same functions format an element without a buffer, to measure it, and with
one. They are a sequence of `snprintf`s, and neither what one of them prints nor
which is next depends on the buffer. `PrintText` is that sequence: a function of the
code is an operator that gives the pieces it prints (`FmtBundleElem`, `FmtMessageArg`).
`PrintPasses` writes any sequence of pieces, one `Snprintf` a step. `Emit` is a `snprintf`
and the `INCP`, `INCL` behind it: the pointer advances by the length of the piece
whether or not it was written, and the room left may become negative. Parameters
are strings one behind the other: the first twelve by their cached offsets, the
others by walking on. Where a lambda has no parameter (`oscript_print.c:392`), a
piece begins with what the printer finds there (`unread`), a text of `Garbage`, maybe
another one in each pass.

### OscriptMap

A map has no frame. Its state, the rows, a cursor into each and a count, goes to
the control as a blob, below the function and `/!/o/apply`; `/!/o/maprest` picks
both up from the stack after the function ran, without a look at them
(`MapRestFindsState`). What the function does is left
open: it consumes its arguments, leaves a result or none, or calls `/o/map`. The
messages that hold the state, addressed by offsets in the code, are a record
here; `ZipMap` only knows rows, how many columns are done, and the column the
function was applied to last.

A map that cannot begin is one of three actions: too few elements are an error of
the stack (`MapLacksElems`), a message without a blob (`MapGetsMessage`) and a blob that
holds a message (`MapGetsMessageBlob`) are errors of the machine, and the latter leaves what
was in the blob. That the stack is empty, or that `/!/o/maprest` finds fewer than two
elements, cannot happen (`MapRestFindsState`), but the checks for it are there.

`MapColumns` holds the mapping: the states on the control, from the bottom, and the
one on the stack are the maps that go on, the innermost last.

### TimetagDate

`YearElapses` is a turn of the loop at `oscript_print.c:285`, `Format` the rest. A
number of unsigned 32 bit seconds is written as days and seconds of a day, and
subtraction wraps as it does in the code: 2^32 seconds are 49710 days and
23296 seconds. The calendar it is compared with is defined by counting days.

## 3. What TLC checks

| Run | Properties | Bounds | Shows |
|---|---|---|---|
| `exec_frames` | `TypeOK`, `Brackets`, `NoSemaphoreEscapes`, `ImplementsScopes` | 3 frames, 4 elements in `vm_e` beside the frames' semaphores, 2 bindings, a file of 2 | the scans find their own brackets under any interleaving of binding, loading, nesting and returning; values are what scopes collected |
| `oscript_exec` | `TypeOK`, `OperandsFound`, `FinalizerSeesAddress`, `NoSemaphoreInValue`, `CleanReturn`, `ResultIsEval`, `ImplementsFrames`, `Terminates` | about 2000 programs of one or two of 30 elements, alone, next to, and within a nested bundle, with loads of three files, one of which leaves nothing, and of one without text | each program ends with the value `OscriptEval` gives and the environment as it was, or in a trap; natives find their operands and the finalizer its address; values are left on the stack in frames of a load only; no value holds a semaphore; every step respects `ExecFrames` |
| `elem_rewrite` | `TypeOK`, `Prepared`, `CleanBehind`, `OthersIntact`, `IsPrepareNext` | a region of 256 bytes and as many behind it; messages of up to 3 items with addresses of 20 lengths from 0 to 60, and bundles, above up to 2 messages | the bytes moved leave what `PrepareNext` of `OscriptExec` says, and nobody else's change |
| `elem_rewrite_long` | `AddressAtEndOfMessage` | | a finding, below |
| `visitor_stack` | `TypeOK`, `BelowUntouched`, `OneElementEach` | texts of one element of any kind with parts of any kind, and of up to two; calls as functions of calls | visits never disturb each other, and generate what `OscriptVisitor` says |
| `oscript_lib` | `TypeOK`, `ReplacesArguments`, `SortsByIntegerPart`, `IndexesSort`, `ErrorsMove` | lists of up to 4 items out of 10, two calls in a row, up to two elements below, an error set before | natives take their arguments and nothing else, sort by integer parts, and lose no error |
| `print_passes` | `PrintTypeOK`, `WholeText`, `StringFillsBlob` | messages of up to 3 items of 18 kinds, alone and in nested bundles, lambdas of 0 to 14 parameters | the two passes agree, and the string is the whole text |
| `oscript_map` | `TypeOK`, `MapRestFindsState`, `OnlyResultsLeft`, `ImplementsZipMap`, `Terminates` | maps nested 3 deep, rows of up to 2 items; a message, a blob that holds one, and missing arguments | nested maps never mix up their states; nothing but results stays on the stack |
| `map_empty_bundle` | `AppliedToItems` | | a finding, below |
| `map_message` | `MessageIsWrapped` | | a finding, below |
| `timetag_date` | `TypeOK`, `DateInReach`, `Terminates` | first and last days of all years and of their first months, midnight and evening, the last second of the clock | the date is right for 1900 and from 2001 on except for the last day of leap years; the loop ends even where the seconds wrap |
| `timetag_date_always` | `DateAlways` | | a finding, below |

Why the bounds are enough. *Frames*: with three frames and four elements an
environment holds up to three pairs of semaphores, with bindings before,
between and behind them and parameters named like semaphores among them, which
is every position the scans can confuse; the theorems remove the bound. *Programs*: each construct of the generator is
there, inside and beside each other, so that a rest of a message is moved to
the input and back at each place it can be; arity too small, an empty body, a
lambda whose body is no bundle, parameters named like semaphores, curried and redefined functions, an empty
list, names in a context bundle, conditionals with too few arguments, with
conditions that are no numbers and with branches that bind, and a lambda that calls itself are among them. *Bytes*: the
lengths of addresses lie on both sides of every multiple of four up to past
the offsets they have, so that all three provisos are met and missed; that the
rest is the same for any length is proved. *Visits*: a visit only sees its own
parts and what it found on the stack; all pairs of constructs are there.
*Library*: one call can only disturb what is below or leave an error to the
next. *Printing*: texts of every length modulo four, and parameters on both sides
of the cache. *Maps*: three deep, an inner map
sees one state below its own and one above. *Timetags*: the arithmetic only
differs at the ends of years and months and at a wrap.

`MaxDepth` and `MaxEnv` (in `Room`) bound the steps of `ExecFrames` in its `Next`, `MaxDepth`
those of `ApplyMaps`, `MaxStack` those of `Push` in `OscriptLib`; nothing else is capped. The
steps `OscriptExec` is compared with are the actions of `ExecFrames`, which have no bound. Where the
machine halts there is a stuttering disjunct (`Finished`, `Printed`, `Done`),
enabled only there, and deadlock is checked; but in `oscript_lib` and
`visitor_stack`, whose models end when the last call returned or, in
`oscript_lib`, a native asserts that it has an argument.

**Fairness.** `WF_vars(Step)` in `OscriptExec` and `OscriptMap`: libose's machine is a
single loop that takes a step while anything is left in the input, the control
or the dump, and steps never wait for anything. `WF` of the two loops' steps in
`TimetagDate`: C loops run on. `Terminates` is about programs that do not recurse
for ever: the lambda of the run that calls itself stops at 0, and in `OscriptMap`
maps within maps are bounded by `MaxDepth`. A mapped function that maps for ever
would not end, in the model or in the code.

**Preconditions in properties.** `ResultIsEval` leaves out programs in which an
element follows a `/o/load` in the same bundle, because the finalizer of that
element is lost (`oscript_parser.cpp:194`); those programs are in the run, and all
other properties cover them. `CleanReturn` names the same exception. In
`OnlyResultsLeft` a map that failed has left its arguments on the stack. The
provisos of `Prepared`, `CleanBehind` and `OthersIntact`, above, are lengths the code
relies on; layouts on both sides of each are in the run. `ReplacesArguments` is
about calls with enough arguments: a native counts them together with what is
below, so that with fewer it takes what is not its own. `WholeText` and
`StringFillsBlob` leave out lambdas without parameters, for which the printer reads
the cache in front of its first entry, and `WholeText` messages whose last item has
no payload or which hold an item of unknown size: the loop over the items ends
there (`oscript_print.c:485`), in both passes alike.

### Findings

1. **A map over an empty bundle never ends** (`map_empty_bundle`). The end is only
   noticed in the loop over the rows (`oscript_lib.c:267`); without rows the
   function is applied to no arguments again and again. The comment at
   `oscript_lib.c:516` maps the function "onto each item of each elem".
2. **A map over a message is refused** (`map_message`) with an item type error,
   set on the machine and not on the stack (`oscript_lib.c:565`). The comment at
   `oscript_lib.c:533` says a message is equivalent to one wrapped in a bundle.
3. **Dates** (`timetag_date_always`). The loop at `oscript_print.c:285` tests for
   365 days and subtracts the leap day afterwards, so that on the last day of a
   leap year the unsigned seconds wrap to another century; and `isleap` is asked
   about years counted from 0, so that 1900 is taken for a leap year and 2000
   is not, and dates from 1901 to 2000 lag one day behind.
4. **A long address is cut** (`elem_rewrite_long`). `oscript_finalizeElem` moves the
   message to the left by the offset of its address, and what it moves is that
   offset more than the message (`oscript_exec.c:541`), where the copy behind it is
   as long as the address. An address longer than its offset in the input does
   not arrive whole, and its rest stays behind the bundle. The comment at
   `oscript_exec.c:536` says "copy address to end of message".

Facts the models state which no document contradicts: a byte of a blob from 128
on is printed with eight hexadecimal digits, its sign extended; the error a
wrapped builtin moves to the machine may be one an earlier native left on the
stack; lists are sorted by integer parts; integers in hexadecimal, octal or
binary are converted as decimal ones.

## 4. What is proved

### ExecFramesProofs

For any sets of bindings and files and any bounds:

| Theorem | States |
|---|---|
| `TypeCorrect` | `Spec => []TypeOK` |
| `FramesBracketed` | `Spec => []Brackets`: inside every frame that evaluates a bundle, however deep, and in every environment returned from one, the first `#BEG` and the last `#END` have only bindings outside them |
| `SemaphoresStayInside` | `Spec => []NoSemaphoreEscapes`: no value holds a semaphore |
| `ImplementsExecScopes` | `Spec => ImplementsScopes`: the frames implement scopes |

**Assumptions.** `SemaphoreAssumption`: the semaphores are not among `Binding`, the
elements bound in a bundle. They are recognised by address and size
(`oscript_exec.c:263-293`), and no name of the grammar starts with `#`. In plain
frames nothing is assumed.
`FilesAssumption`: a file leaves bindings. `BoundsAssumption`: the bounds are
natural numbers. TLC evaluates all of them. `ImplementsFrames` of `OscriptExec`
checks for every step of the machine that what is loaded, or bound in a bundle,
is indeed no semaphore, and `OscriptExecProofs` proves it.

**Argument.** `NoSemaphoreEscapes` is not inductive: whether the finalizer's value
is free of semaphores depends on the environment it is given, and that on the
whole dump. The inductive invariant is `Inv == TypeOK /\ Brackets /\
NoSemaphoreEscapes`. `Brackets` speaks of all frames at once through `EnvIn(i)`,
the environment in use in the i-th frame: the saved environment of the next
frame or, in the innermost one, `vm_e`. Entering makes brackets around anything
(`EnterBrackets`). Binding and loading change `vm_e` only outside the brackets
(`BindBrackets`, `LoadBrackets`). Returning makes the saved environment current,
which by `Brackets` is itself bracketed for the frame that gets it back
(`ReturnInv`). In a bracketed environment `CHOOSE` in the scans has exactly one
candidate (`ScansFindBrackets`), so what the finalizer cuts out is bindings
(`OwnParts`).

The refinement uses `Inv` and shows how each action changes the mapped scopes:
entering appends an empty scope (`EnterScope`), binding and loading change the
innermost one and no other (`BindScope`, `LoadScope`, `StepKeepsOuter`), a return
moves it from open to closing (`ReturnRefines`), the finalizer delivers it
(`FinalizeExecRefines`). Steps in a plain frame or outside of any frame, where
nothing is collected, map to stuttering or to steps that change nothing.

### OscriptExecProofs

For any programs, environments and files, nested to any depth:

| Theorem | States |
|---|---|
| `PhasesKept` | `Spec /\ []OperandsFound => []Inv`, below |
| `ImplementsExecFrames` | `Spec /\ []OperandsFound => ImplementsFrames`: every step of the machine is a step of `ExecFrames`, whose theorems are therefore about the machine, and what is bound in a bundle, or loaded, is no semaphore |
| `AddressSeen` | `Spec /\ []OperandsFound => []FinalizerSeesAddress`: `oscript_finalizeElem` finds an address on top of the stack |
| `ValueHoldsNoSemaphore` | `Spec /\ []OperandsFound => []NoSemaphoreInValue`: no value holds a semaphore, also where lambdas have parameters of that name |
| `TypeCorrect` | `Spec /\ []OperandsFound => []TypeOK` |
| `StackIsClean` | `Spec /\ []OperandsFound => []CleanReturn`: when a bundle returns, its stack is empty or `/o/load` has run in its frame |

**Assumptions.** `SyntaxAssumption`, `ProgramsAssumption`: what programs are made of,
above. TLC evaluates both for the run. `OperandsFound` is a hypothesis and not an
assumption on constants, because it is about how a program behaves: a program that
applies `/o/first` to an empty list makes libose work on an element that is not
there, and nothing can be said of what it does then. The run checks
that it holds of each of its programs, and a mutant that it is not idle. Nothing is
assumed of what a file holds.

**Argument.** None of the properties is inductive. Which native runs next, and what it
finds, is in the control and the input, and they are rearranged whenever a bundle is
evaluated in the middle of a message: the rest of the control goes to the input,
and comes back. `Inv` sees both as one sequence, the input with the control on
top of it (`Work`), which that move does not change. It holds items and one
finalizer at most, and what is above a finalizer, `FE`, ends with a name
(`Addressed`), at whatever place between input and control it is. So when the
finalizer comes on top (`NotFE`), the name was the last to go to the stack.
That is the phase `Idle`; the others are those in which a native leaves more to
do than items: a frame is open (`Starting`), has returned (`Returned`,
`Finalizing`, `Dropping`), a lambda is about to be evaluated (`Applying`) or a file
(`Parsing`, `Evaluating`). Each native runs in one of these phases only (`PhaseOf`), and
leads to another or back to `Idle`.

The dump is frames saved in a phase, each with a finalizer on top of the input or a
drop on the control (`FrameOK`), which tells what kind of frame it opened
(`KindOfFrames`); the environment saved in it is that of a frame of the kind below
it. In a frame that evaluates a bundle, the environment is `Enclosed`: a `#BEG` and behind
it an `#END`, and outside of them no element named like one. `EnvBind` and `EnvLoad`
keep it so, because in such a frame whatever an element can be bound to is no such
name (`IsName`); in a lambda application parameters may have any name but that of a
native, and its environment is not scanned. The scans of `oscript_finalizeExec` then
find what those of `ExecFrames` find (`ScansFind`), so that the value is the one
`ExecFrames` delivers (`EnvOwn`).

What libose's operations and the natives make of data is data (`GoodPop`, `GoodSplit`,
`GoodBranch` and others); `Good` is membership in any set that, like `Syntax`, holds the
parts of its elements, so that no induction over elements is needed. `NextStep` puts the actions
together, one lemma for each (`ExecStep` to `ParseStep`).

`CleanReturn` needs more: that an element of a bundle is finalized before the
bundle returns, or else that `/o/load` has run in its frame. `InvTidy` adds it to `Inv`. In a
bundle's frame a finalizer waits on the input or on the control, or nothing is
left at all, or the frame is in `loadedIn` (`Tidy`); the frames of
the dump are the same (`TidyFrame`), with the finalizer on the input: a finalizer on
the control is alone there (`Alone`), so none is on it when another bundle is
evaluated. A return takes its frame out of `loadedIn`, so that one that opens later at
the same depth is not taken for it. A frame returns with input and control
empty, so it has no finalizer, and `CleanReturn` follows (`InvReturn`). A finalizer leaves
only by running; `/o/load` is where one is lost, and marks its frame. Each action has
its lemma (`PopInputTidy` to `OthersTidy`).

### ElemRewriteProofs

For regions of any size and any layouts of OSC in them:

| Theorem | States |
|---|---|
| `TypeCorrect` | `Spec => []TypeOK` |
| `InvHolds` | `Spec => []Inv`: where each part of the element is between any two steps |
| `MessagePrepared` | `Spec => []Prepared`: an address no longer than its offset arrives as the last item, the other items in their order |
| `NothingLeftBehind` | `Spec => []CleanBehind`: what is behind the end of the input is NULs again |
| `OthersStayIntact` | `Spec => []OthersIntact`: no byte of a neighbour changes |

**Assumptions.** `CapAssumption`: as much memory is behind the region as is in it,
so that the bytes moved from behind are some. `LayoutAssumption`: the layouts are
OSC's (an element that ends where the bundle does; an address and typetags
padded with NULs, a comma first) and behind them are NULs, enough for what is
inserted. Both hold of every input the machine makes; TLC evaluates them for
the layouts of the runs. Sizes are not bounded, so that a size that does not fit
an int32 is outside the theorems.

**Argument.** None of the three properties is inductive: they speak of the last
step, and what it leaves depends on where the four moves before it put things.
`Inv` names, for each value of `pc`, the place of each part: finalizer, address,
typetags, items, the copy of the address, the bytes in front, and how far behind
there may be something other than NULs (`BeforeTags`, `BeforeCopy`, `BeforeShift`,
`BeforeAnonymous`, `BeforeClear`, `AtEnd`). A `memmove`, a `memset` or an int32 is
described once by what it keeps and what it carries where (`MoveBytes`,
`ClearBytes`, `PutInt32Bytes`). On top of these is one lemma for each step, about
any layout and memory (`InsertFinalizerBytes` to `ClearBehindBytes`), and one for
each action (`InsertFinalizerInv` to `ClearBehindInv`). The end of a string is
where `strlen` stops, which is one place (`StrLenIs`, `TextsFound`).

### OscriptMapProofs

For any arguments, rows of any number and length, and maps nested in functions
of maps to any depth:

| Theorem | States |
|---|---|
| `TypeCorrect` | `Spec => []TypeOK`: the states on control and stack are states of maps, and the errors are the three a map sets, each on the bundle it sets it on |
| `StateIsFound` | `Spec => []MapRestFindsState`: when `/!/o/maprest` runs, its state is on top of the stack and no other state is on it |
| `NothingElseLeft` | `Spec => []OnlyResultsLeft`: no state, and unless a map failed no function, outlives the maps |
| `ImplementsZip` | `Spec => ImplementsZipMap`: every function is applied to the columns of its own rows, each once, in order, and no more |

**Assumptions.** `ArgumentsAssumption`: the bundle a map is applied to holds at most
two elements, what is mapped over and the function, and neither is a state or
the name of one of the commands. More would stay on the stack below the map, as
in any application with too many arguments. `RowsAssumption`, for the refinement only:
what is mapped over, an argument or a column of one that was left on the stack,
has at least one row. An empty bundle has none, and such a map never ends
(finding 1): it cannot implement anything. TLC evaluates both for the run.

**Argument.** That the state is where `/!/o/maprest` takes it from is not inductive:
it depends on what lies below the function's application on the control while
the function runs, which may map in its turn. `Inv` says that the control is k
frames of three (the command to go on, a state, a function on top of it) with at
most two elements above, and that what is there and the stack are in one of six
phases: a map called, its function scheduled, the function being applied, it has returned,
the function back on the stack, the state back on the stack. The phase shows in
the top of the control (`PhaseTop`), and each action leads from its phase to the
next (`MapStepInv`, `PushInv`, ...); a map that begins or goes on adds a frame
(`ControlSchedule`), one that returns uncovers the frame below.

For the refinement, the maps going on are read off the frames (`ActiveNow`,
`ActiveStateBack`): the states are the middle elements of the frames, and one on the
stack comes last (`StatesAt` ties this to the cardinalities by which `States`
counts). `RowsInv` adds that all rows on control and stack are rows that may be
mapped over and that all cursors of a state stand one behind its count, so that
`NextColumn` is the column `ZipMap` means (`NextColumnGood`) and a row at its end
is the end of the columns (`ExhaustedGood`). Then a map that is called is `Begin`, `/!/o/maprest` is
`Advance` or `Finish`, and every other step leaves the maps alone.

### OscriptLibProofs

For any values on the stack, any bundles of arguments and lists of any length:

| Theorem | States |
|---|---|
| `SortCbIsComparison` | `sort_cb` is what `qsort` asks for, on any set of strings, numbers and other items mixed; otherwise sorting would be undefined |
| `TypeCorrect` | `Spec => []TypeOK`: natives leave well-formed elements and errors of their kinds |
| `ArgumentsReplaced` | `Spec => ReplacesArguments`: with enough arguments what is below them stays, and without an error the results are in their place |
| `ErrorsKept` | `Spec => ErrorsMove`: no error is lost |
| `SortedByIntegerPart` | `Spec => SortsByIntegerPart`: each item as often as before, in the order integer parts tell |
| `IndexesAreOrder` | `Spec => IndexesSort`: each place of the list once, in an order of `/o/sort` |

**Assumption.** `DataAssumption`: what the stack holds and natives are given is OSC: an
element is a bundle of elements or a message of items, an item that is compared
has a value. `Data` are the elements within others, so that the assumption reaches
to any depth; TLC evaluates it for the constants of the run.

**Argument.** `Inv`: the stack is a sequence of well-formed elements; when a native is
called, a bundle of arguments is on top of it, so that the checks made before it is
unpacked do not fail (`ArgumentsFound`). A native takes its arguments apart in one of two orders
(`ArgumentsTakenApart`), which leaves what was below in front of the parts, and
drops no more elements than there are parts if it has enough arguments, so that what
was below is below its results too (`DropKeepsBelow`, `ResultReplaces`). For
every native one lemma says so, and which errors it sets (`SortImplWorks`,
`RouteWorks`, `WrappedWorks` for both ways of wrapping). An order of a list is a
surjection of its places onto themselves, and so a bijection, as they are
finite: it has every item as often as the list (`SameOccurrences`). That it is
`Ordered` says how two items compare, and the integer part of a number is less
than 1 from the number, on the side of 0 (`TruncatedBounds`, `OrderByIntegerPart`).

### VisitorStackProofs

For any programs, constructs in one another to any depth, and any stacks:

| Theorem | States |
|---|---|
| `TypeCorrect` | `Spec => []TypeOK` |
| `BelowStaysUntouched` | `Spec => []BelowUntouched`: at no time has a visit changed an element that was on the stack when it began |
| `VisitGenerates` | `Spec => []OneElementEach`: it is the element `OscriptVisitor` gives for its construct, and the visit of a text leaves what stands for the text in its place |

**Assumptions.** `SyntaxAssumption`: programs are made of the constructs of the
grammar, each with as many parts as its rule gives it, and a call with an argument
and a function of the kinds its rule allows. `DepthAssumption`: a construct is
deeper than its parts, by some natural number for each, as the trees of ANTLR are
finite. `StacksAssumption`: the stacks at the beginning are sequences of elements.
TLC evaluates all three.

**Argument.** The properties speak of a visit that ends, and what it leaves is the
sum of what all visits within it did. `Inv` looks ahead instead: every task that
remains changes the height of the stack in a way that does not depend on what
it works on (`HeightAfter`: a visit adds one element, a push takes one, the end of a bundle
takes all above its header), and leaves the lowest elements alone (`Keeps`). `Runs`
says that there are heights, one for each task, that lead from the height the stack has to the
one at the end; that a `return` finds one element more than its visit began with;
and that no task before a `return` or the end of a bundle touches what
these count on (`MarksKept`), which is on the stack now (`Placed`). `Sound` says
that what is left to do runs from the height of the stack to one more than at
first. For each construct, the tasks that take the place of its visit are such a run (one lemma each);
runs concatenate (`RunsConcat`), so that what remains behind them stays sound
(`EnterSound`), and so it does behind a task that is done (`ContinueSound`). At a
`return` the stack is then one element higher than its visit found it.

For `VisitGenerates` the invariant looks ahead at the elements themselves. `Effect` is what
a task makes of a stack, a visit an `Append` of the element it generates; `Ready` is
what it must find there, and for a `return` that is what the property says of it. `Leads` gives
each task left a stack, `Ready` for it, the last being the one at the end, and
`Ends` says that `todo` leads from the stack there is to the one the text began with
and the element of the whole text. There is again one lemma for each construct, that its
tasks lead to what its visit is said to do (`ListLeads` to `FuncallLeads`); they
are put in the place of the visit by `Follows` and `Enters`. Items that are joined one by one
are the elements joined at once because flattening a sequence is flattening its
rest behind its head (`FlattenHead` in `OseBundleProofs`).

`Generated` is a recursive function, of which the provers know nothing but that it is a
`CHOOSE`. `GeneratedIs` proves that such a function exists, and so that it is what its
definition says: there is one on the trees of less than any given depth (`SomeGives`),
and two of them agree where both are defined (`GivesAgree`). Where this is induction
over trees, a least counterexample takes its place (`Shallowest`): of the trees that are
not as claimed take one of least depth; all its parts are as claimed. So follows
`GeneratedForm`, that whatever is generated is a message or a bundle.

### PrinterProofs

For every timetag the 32 bits can hold, and for texts of any length and number of
pieces:

| Theorem | States |
|---|---|
| `TypeCorrect` | `Spec => []TypeOK`: the years counted stay below two turns of the clock, and the month printed is a month |
| `DateIsRight` | `Spec => []DateInReach`: in 1900 and from 2001 on, but for the last day of a leap year, the date and the time printed are those of the timetag |
| `PassesTypeCorrect` | `PrintSpec => []PrintTypeOK`: whatever either pass reads, the text in the blob ends with a NUL in the blob |
| `PassesMatch` | `PrintSpec => []StringFillsBlob`: for texts of any pieces, unless a lambda without parameters is among them, nothing is cut, nothing is written behind the blob, and the blob has the size of the string |

**Assumptions.** `TimetagsAssumption`: a timetag is a number of seconds of 32 bits,
49710 days and 23296 seconds at most. `ArePieces`, which `PrintPasses` assumes and TLC
evaluates for the pieces `PrintText` gives: pieces are texts. Nothing else is said of
them, so that the theorems do not depend on the recursion of `PrintText`. Lengths are
not bounded: a text whose length does not fit an int32 is outside of them.

**Argument for dates.** `Inv` has two cases. `Accounted`: the years counted, with a leap day for
each that is taken for a leap year (`Leaps`, in closed form), and the days left
make up the timetag. `Wrapped`: on the last day of a leap year the loop subtracts a
leap day that is not there; the years after that year and the days left make
up 49710 days, or one less. From the second case there is no way to wrap
again: a whole number of years that ends with a missing leap day is 49640 days and
at most 36 leap days, or hundreds of days less (`YearElapsesInv`), which is why the loop
ends after two turns of the clock at the latest.

`DaysBeforeIs` puts the calendar, which is defined by counting, in closed form; a
bijection counts the leap years. The two forms differ by one for the years from
1901 to 2000, because the loop takes the year 0 of its count, 1900, for a leap year
and the year 100, 2000, for none, and by nothing before and after. So an `Accounted`
timetag outside of these years has the year that was counted, and the day left
is its day of the year (`AccountedIsCivil`), of which `getmonth` finds the month
(`DateFound`); and a `Wrapped` one is of the last day of a leap year, or of the first
day of a year in the twentieth century (`WrappedNotInReach`), neither `InReach`.

**Argument for the passes.** That both advance alike relates a step of the writing pass to
one of the measuring pass, which is over. `PassesInv` has the link: each length is
the number of characters in the pieces done so far (`Chars`, `Counts`), a set that only
depends on the pieces. What is written so far is part of what was measured
(`FewerChars`), so there is room for the next piece and its NUL (`Room`), and `snprintf`
writes all of it (`EmitInto`, `SnprintfPasses`). The set needs no recursion, and so no
induction; that it is finite is kept step by step (`MoreChars`). With something unread
the lengths may differ, and only `InBlob` holds: a `snprintf` leaves a byte for the NUL
as long as there is room.

### Only model-checked

Liveness (`Terminates`): TLAPS does not do fairness and `ENABLED` here. `ResultIsEval`
and `IsPrepareNext` compare with `RECURSIVE` operators, of an evaluation that need not
end and of a layout that is read item by item; a module that holds such an operator
has no SMT prover. `WholeText` compares the pieces of `PrintText`, likewise `RECURSIVE`,
with the text an element should have; that nothing of them is cut is proved. `OperandsFound`
is about what programs do, and holds of those of the run.

## 5. What is not modelled

- The sizes of the regions of stack, environment and dump, which libose sets: a
  recursion that fills the dump, and the bytes moved behind the environment when
  room is made in front of it (`oscript_exec.c:423`).
- Reads outside of a bundle: a lambda without parameters has no parameter
  message, and offsets into it point into what is behind (`oscript_exec.c:36`); a
  file without text leaves an empty bundle, of which libose asserts or reads
  what is in front. `PrintPasses` has the former as any text.
- What each wrapped builtin computes, and `oscript.ose`: they are libose's.
- The conversion of characters to numbers and blobs and back, and the layout of
  numbers and of the time of day.
- A bundle to be evaluated at once in the place of a function's name; the trees
  ANTLR builds of texts with syntax errors; `visitBlob`, since the lexer takes a
  blob such as `b00` for an identifier.
- Reading files, the lexer and parser ANTLR generates, the registration of
  natives, the build.

## 6. Plan

Done, in this order: `ExecScopes`, `ExecFrames` and its proofs; `OseBundle`,
`OscriptVisitor`, `OscriptExec` with `OscriptEval`; `ZipMap`, `OscriptMap`; `TimetagDate`;
`ElemRewrite`; the natives for lists and conditionals in `OscriptExec`; `OscriptLib`,
`SortOrder`; `PrintText`, `PrintPasses`; `VisitorStack`; the proofs of `ElemRewrite`;
the proofs of `OscriptMap` and of its refinement; the proofs of `TimetagDate`, of `PrintPasses`, of
`VisitorStack`, of `OscriptLib` and of `OscriptExec`.

Left, modelling: a map called by a program whose function is a lambda, that is
`OscriptMap` as steps of `OscriptExec`, and `/o/route` and `/o/sort` among them.

Left, proving: that a program in which every `/o/load` is the last of its element and every
native has the operands it needs keeps `OperandsFound`.
