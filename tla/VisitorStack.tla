---------------------------- MODULE VisitorStack ----------------------------
(***************************************************************************)
(* oscriptVisitorImpl as it runs: a recursive visit of the syntax tree, in *)
(* which every visit works on top of the one bundle it is given, the stack *)
(* of the machine.  A bundle under construction is an empty element whose  *)
(* size is written once its elements stand behind it, so that a visit that *)
(* left two elements, or took one of another visit's, would go unnoticed   *)
(* there.                                                                  *)
(*                                                                         *)
(* A tree is a record of its node, what is written in it, and its parts:   *)
(* of a call the arguments and the function, which is a name, a lazy       *)
(* bundle or a call.  The C++ stack is todo, the calls that remain; with a *)
(* history: a visit that ends is marked by its tree and by the bundle it   *)
(* began with.                                                             *)
(***************************************************************************)
EXTENDS OseBundle

CONSTANTS Syntax,   \* the trees texts are made of, with all their parts
          Depth,    \* how deep each of them is
          Trees,    \* whole texts
          Stacks    \* what the machine's stack holds below a text

IsElem(e) == IsBndl(e) \/ DOMAIN e = {"addr", "items"}

V == INSTANCE OscriptVisitor

(* The parts the grammar gives a tree: a call has two, and behind a name   *)
(* there is one or none.  A tree that ANTLR built is finite.               *)
ASSUME SyntaxAssumption ==
    /\ Trees \subseteq Syntax
    /\ \A t \in Syntax :
          /\ t.node \in {"lookup", "literal", "bind", "list", "lazy", "eager",
                         "funcall", "top", "empty"}
          /\ t.parts \in Seq(Syntax)
          /\ t.node = "bind" => Len(t.parts) <= 1
          /\ t.node = "funcall" =>
                /\ Len(t.parts) = 2
                /\ t.parts[1].node \in {"lookup", "eager", "lazy"}
                /\ t.parts[2].node \in {"lookup", "lazy", "funcall"}

ASSUME DepthAssumption ==
    /\ Depth \in [Syntax -> Nat]
    /\ \A t \in Syntax : \A i \in DOMAIN t.parts : Depth[t.parts[i]] < Depth[t]

ASSUME StacksAssumption ==
    \A s \in Stacks : s \in Seq(Range(s)) /\ \A i \in DOMAIN s : IsElem(s[i])

VARIABLES todo,     \* what remains to be done, as a sequence of tasks
          bundle    \* the stack

vars == <<todo, bundle>>

Task(op, arg) == [op |-> op, arg |-> arg]
Do(op) == Task(op, "")
Visit(tree) == Task("visit", tree)
Visits(trees) == [i \in DOMAIN trees |-> Visit(trees[i])]

(* oscript_parse: the text is on top of the stack, and dropped afterwards. *)
Init ==
    /\ todo \in { <<Visit(tree), Do("nip")>> : tree \in Trees }
    /\ bundle \in { Append(s, String("text")) : s \in Stacks }

At(op) == todo # <<>> /\ Head(todo).op = op
AtNode(nodes) == At("visit") /\ Head(todo).arg.node \in nodes
Tree == Head(todo).arg

(* Go on with a visit. *)
Enter(tasks, s) ==
    /\ todo' = tasks \o <<Task("return", [tree |-> Tree, below |-> bundle])>> \o Tail(todo)
    /\ bundle' = s

Continue(s) == todo' = Tail(todo) /\ bundle' = s

-----------------------------------------------------------------------------
(* Operations of libose on top of the stack. *)
PushString(s, string) == Append(s, String(string))

(* ose_push: the top goes into the element below it, a message's items     *)
(* into a message. *)
Push(s) ==
    LET into == FromTop(s, 1)
    IN  Append(DropTop(s, 2),
               IF IsBndl(into) THEN Bndl(Append(into.elems, Last(s)))
               ELSE Msg(into.addr, into.items \o Last(s).items))

(* ose_elemToBlob, also of a message, and of a bundle to be evaluated. *)
Packed(e, tt) ==
    Msg("", <<IF IsBndl(e) THEN [tt |-> tt, elems |-> e.elems]
              ELSE [tt |-> tt, elem |-> e]>>)

ElemToBlob(s, tt) == Append(Front(s), Packed(Last(s), tt))

(* The last item becomes the address. *)
MoveStringToAddress(s) ==
    Append(Front(s), Msg(Last(Last(s).items).val, Front(Last(s).items)))

-----------------------------------------------------------------------------
(* Visits. *)
Lookup(s, name) == Push(PushString(PushString(s, name), "/!/$"))

LookupElem == AtNode({"lookup"}) /\ Enter(<<>>, Lookup(bundle, Tree.text))

(* visitInt, visitFloat, visitString, visitComment *)
Literal == AtNode({"literal"}) /\ Enter(<<>>, Append(bundle, Msg("", <<Tree.text>>)))

Bind ==
    /\ AtNode({"bind"})
    /\ \/ /\ Tree.parts = <<>>
          /\ Enter(<<>>, MoveStringToAddress(PushString(bundle, Tree.text)))
       \/ /\ Tree.parts # <<>>
          /\ Enter(Visits(Tree.parts) \o <<Do("unbundle"), Task("name", Tree.text)>>, bundle)

NameRhs ==
    /\ At("name")
    /\ Continue(MoveStringToAddress(Push(PushString(bundle, Head(todo).arg))))

(* A variant that pushes the first element, too. *)
ListTasksPushFirst(parts) ==
    <<Visit(Head(parts)), Do("unbundle"), Do("push"), Task("rest", Tail(parts))>>

ListTasks(parts) ==
    <<Visit(Head(parts)), Do("unbundle"), Task("rest", Tail(parts))>>

List ==
    /\ AtNode({"list"})
    /\ \/ Tree.parts = <<>> /\ Enter(<<>>, Append(bundle, Msg("", <<>>)))
       \/ Tree.parts # <<>> /\ Enter(ListTasks(Tree.parts), bundle)

(* A turn of the loop: elements after the first are pushed onto it. *)
RestTasks(parts) ==
    IF parts = <<>> THEN <<>>
    ELSE <<Visit(Head(parts)), Do("unbundle"), Do("push"), Task("rest", Tail(parts))>>

ListRest ==
    /\ At("rest")
    /\ todo' = RestTasks(Head(todo).arg) \o Tail(todo)
    /\ UNCHANGED bundle

(* In a list or behind a name a bundle becomes an item. *)
Unbundle ==
    /\ At("unbundle")
    /\ Continue(IF IsBndl(Last(bundle)) THEN ElemToBlob(bundle, "B") ELSE bundle)

(* visitLazyBundle and visitEagerBundle, closed or not. *)
OpenBundle ==
    /\ AtNode({"lazy", "eager", "top"})
    /\ Enter(Visits(Tree.parts) \o <<Task("end", Len(bundle) + 1)>>
               \o CASE Tree.node = "lazy"  -> <<Do("blob")>>
                    [] Tree.node = "eager" -> <<>>
                    [] Tree.node = "top"   -> <<Do("wrap")>>,
             Append(bundle, Bndl(<<>>)))

(* OSE_END_BUNDLE: what stands behind the bundle is in it. *)
EndBundle ==
    /\ At("end")
    /\ LET at == Head(todo).arg
       IN  Continue(Append(SubSeq(bundle, 1, at - 1),
                           Bndl(bundle[at].elems \o SubSeq(bundle, at + 1, Len(bundle)))))

Blobbed == At("blob") /\ Continue(ElemToBlob(bundle, "b"))

(* The bundle of a whole text is put into another one. *)
Wrap ==
    /\ At("wrap")
    /\ Continue(Push(Append(Front(bundle), Bndl(<<>>)) \o <<Last(bundle)>>))

(* A variant that leaves lazy arguments as they are. *)
ArgsTasksEager(args) ==
    <<Visit(args)>> \o IF args.node = "eager" THEN <<Do("thunk")>> ELSE <<>>

(* visitArgs: a bundle of arguments is to be evaluated, whichever it is.   *)
ArgsTasks(args) ==
    <<Visit(args)>> \o IF args.node = "lookup" THEN <<>> ELSE <<Do("thunk")>>

Thunk == At("thunk") /\ Continue(ElemToBlob(bundle, "B"))

Funcall ==
    /\ AtNode({"funcall"})
    /\ Enter(ArgsTasks(Tree.parts[1]) \o <<Visit(Tree.parts[2]), Do("apply"), Do("push")>>,
             bundle)

(* At the end of visitFn, or after a call in its place. *)
ApplyFn == At("apply") /\ Continue(Push(PushString(bundle, "/!/o/apply")))

PushTop == At("push") /\ Continue(Push(bundle))

Return == At("return") /\ Continue(bundle)

(* oscript_parseExpr of an empty text. *)
EmptyText == AtNode({"empty"}) /\ Enter(<<>>, Append(bundle, Bndl(<<>>)))

DropText == At("nip") /\ Continue(Nip(bundle))

Next ==
    \/ LookupElem \/ Literal \/ Bind \/ NameRhs \/ List \/ ListRest \/ Unbundle
    \/ OpenBundle \/ EndBundle \/ Blobbed \/ Wrap
    \/ Funcall \/ Thunk \/ ApplyFn \/ PushTop \/ Return \/ EmptyText \/ DropText

Spec == Init /\ [][Next]_vars

-----------------------------------------------------------------------------
(* A bundle is only open, as an element still empty, where its end waits;  *)
(* its end is the innermost one first.                                     *)
TypeOK ==
    /\ \A i \in DOMAIN bundle : IsElem(bundle[i])
    /\ \A i \in DOMAIN todo : todo[i].op = "end" =>
          /\ todo[i].arg \in DOMAIN bundle
          /\ bundle[todo[i].arg] = Bndl(<<>>)
          /\ \A j \in 1 .. i - 1 : todo[j].op = "end" => todo[j].arg > todo[i].arg

(* While a visit runs, however deep the visits it makes, nothing of what   *)
(* stood on the stack before is touched: not the elements of the bundles   *)
(* around it, not the text, and nothing of the machine's.                  *)
BelowUntouched ==
    \A i \in DOMAIN todo :
        todo[i].op = "return" => IsPrefix(todo[i].arg.below, bundle)

-----------------------------------------------------------------------------
(* The element OscriptVisitor gives for a tree, from those of its parts.   *)
Construct(tree, es) ==
    CASE tree.node = "lookup" -> V!LookupElem(tree.text)
      [] tree.node = "literal" -> V!Literal(tree.text)
      [] tree.node = "bind" ->
            IF es = <<>> THEN V!BindNothing(tree.text) ELSE V!Bind(tree.text, es[1])
      [] tree.node = "list" -> V!List(es)
      [] tree.node = "eager" -> V!EagerBundle(es)
      [] tree.node = "lazy" -> V!LazyBundle(es)
      [] tree.node = "funcall" ->
            V!Funcall(IF tree.parts[1].node = "lazy"
                      THEN Msg("", <<[tt |-> "B", elem |-> es[1]]>>) ELSE es[1],
                      es[2])
      [] tree.node = "top" -> V!TopLevelBundle(es)
      [] tree.node = "empty" -> Bndl(<<>>)

Generated[tree \in Syntax] ==
    Construct(tree, [i \in DOMAIN tree.parts |-> Generated[tree.parts[i]]])

(* Every visit leaves exactly one element on what it found, and that is    *)
(* the one its construct stands for; what the whole text stands for is     *)
(* left in the place of the text.                                          *)
OneElementEach ==
    /\ At("return") =>
          bundle = Append(Head(todo).arg.below, Generated[Head(todo).arg.tree])
    /\ todo = <<>> =>
          \E s \in Stacks, tree \in Trees : bundle = Append(s, Generated[tree])
=============================================================================
