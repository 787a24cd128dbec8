--------------------------- MODULE MCOscriptExec ---------------------------
(***************************************************************************)
(* OscriptExec on the programs made of one or two of the elements below,   *)
(* as the visitor generates them, in an environment that binds x, yes, and *)
(* lambdas: of one parameter, of two, with parameters named like the       *)
(* semaphores, one that calls itself as long as its first argument is not  *)
(* 0, one with an empty body and one whose body is no bundle.  They load   *)
(* files of two elements, of one, of nothing but an empty list, and one    *)
(* without text.                                                           *)
(***************************************************************************)
EXTENDS OscriptExec

E == INSTANCE OscriptEval

one == V!Literal(Num("1"))
two == V!Literal(Num("2"))
x == V!LookupElem("x")

zero == V!Literal(Num("0"))

IfElse(otherwise, then, condition) ==
    V!Funcall(V!EagerBundle(<<otherwise, then, condition>>), V!LookupElem("/o/if"))

LambdaOf(params, body) == Lambda(<<V!LazyBundle(body), Msg("", params)>>)

MCEnv0 == <<Msg("x", <<Num("0")>>),
            Msg("yes", <<Num("1")>>),
            Msg("id", <<LambdaOf(<<Str("p")>>, <<V!LookupElem("p")>>)>>),
            Msg("shadow", <<LambdaOf(<<Str("x"), Str("y")>>,
                              <<V!Bind("z", V!LookupElem("y")), x>>)>>),
            Msg("beg", <<LambdaOf(<<Str("#BEG"), Str("#END")>>,
                            <<V!EagerBundle(<<x>>), x>>)>>),
            Msg("loop", <<LambdaOf(<<Str("c"), Str("d")>>,
                <<IfElse(V!LazyBundle(<<two>>),
                         V!LazyBundle(<<V!Funcall(V!EagerBundle(<<V!LookupElem("d"), zero>>),
                                                  V!LookupElem("loop"))>>),
                         V!LookupElem("c"))>>)>>),
            Msg("nothing", <<LambdaOf(<<Str("p")>>, <<>>)>>),
            Msg("wrong", <<Lambda(<<one, Msg("", <<Str("p")>>)>>)>>)>>

(* A file of nothing but an empty list leaves nothing to be loaded, and    *)
(* one without text not even that.                                         *)
MCParsedFile ==
    [f \in {"lib", "twice", "void", "empty"} |->
        CASE f = "lib" -> <<V!Bind("l", two), V!EagerBundle(<<x>>)>>
          [] f = "twice" -> <<V!Bind("x", V!Literal(Num("7")))>>
          [] f = "void" -> <<V!List(<<>>)>>
          [] f = "empty" -> <<>>]

MCContextNames == {"/_x/c"}

f(name) == V!LookupElem(name)
args1 == V!EagerBundle(<<one>>)
args2 == V!EagerBundle(<<V!Bind("n", one), V!EagerBundle(<<x, two>>)>>)

Elements == {
    one, x,
    V!Bind("x", two),
    V!BindNothing("y"),
    V!Bind("/_x/c", two),
    V!Bind("x", V!EagerBundle(<<V!Bind("x", one), x>>)),
    V!List(<<>>),
    V!List(<<one, V!EagerBundle(<<x>>), x>>),
    V!LazyBundle(<<x>>),
    V!EagerBundle(<<>>),
    V!EagerBundle(<<V!EagerBundle(<<x>>), V!Bind("x", one), V!EagerBundle(<<x>>)>>),
    V!Funcall(args1, f("id")),
    V!Bind("x", V!Funcall(args2, f("shadow"))),
    V!Funcall(V!EagerBundle(<<V!Funcall(args1, f("id")), x>>), f("shadow")),
    V!Funcall(args1, f("shadow")),
    V!Funcall(V!EagerBundle(<<one, two>>), f("beg")),
    V!Funcall(args1, f("nothing")),
    V!Funcall(args1, V!Funcall(V!EagerBundle(<<V!LazyBundle(<<x, V!LookupElem("q")>>),
                                               V!Literal(Str("q"))>>),
                               f("/o/defn"))),
    V!List(<<one, f("id"), V!Literal(Str("/!/o/funcall"))>>),
    V!Bind("id", V!Funcall(V!EagerBundle(<<V!LazyBundle(<<two>>),
                                           V!Literal(Str("q"))>>),
                           f("/o/defn"))),
    IfElse(V!LazyBundle(<<one>>), V!LazyBundle(<<two, x>>), f("yes")),
    V!Bind("x", IfElse(V!LazyBundle(<<V!Bind("x", two)>>), V!LazyBundle(<<>>), zero)),
    V!List(<<V!Literal(Str("below")),
             V!Funcall(V!EagerBundle(<<V!LazyBundle(<<two>>), zero>>), f("/o/if"))>>),
    V!Funcall(V!EagerBundle(<<two>>), f("/o/if")),
    V!Funcall(V!EagerBundle(<<one, one>>), f("loop")),
    V!Funcall(V!EagerBundle(<<V!List(<<x, two>>)>>), f("/o/first")),
    V!Funcall(V!EagerBundle(<<V!EagerBundle(<<one, V!EagerBundle(<<x>>), two>>)>>),
              f("/o/rest")),
    V!List(<<V!Funcall(V!EagerBundle(<<V!List(<<one, x>>)>>), f("/o/last")),
             V!Funcall(V!EagerBundle(<<V!EagerBundle(<<one, x>>)>>), f("/o/butlast"))>>),
    V!Funcall(V!EagerBundle(<<one>>), f("/o/load")),
    V!Funcall(V!EagerBundle(<<>>), f("/o/load")) }

Loads == {
    V!Funcall(V!EagerBundle(<<V!Literal(Str(file))>>), f("/o/load")) :
        file \in {"lib", "twice", "void"} }

(* An application that stops the machine in a debug trap. *)
Traps == { V!Funcall(args1, f("wrong")),
           V!List(<<f("id"), V!Literal(Str("/!/o/apply"))>>) }

LoadsLast ==
    { <<a>> : a \in Elements \union Loads \union Traps }
    \union { <<a, b>> : a \in Elements, b \in Elements \union Loads }
    \union { <<a, V!EagerBundle(<<b, x>>), x>> : a, b \in Elements }
    \union { <<V!EagerBundle(<<a, l>>), x>> : a \in Elements, l \in Loads }

LoadsEarly == { <<l, a>> : l \in Loads, a \in Elements }

(* A load that takes a bundle below it for that of the file, which left    *)
(* none, and a condition that is no number.                                *)
LoadsBelow ==
    { <<V!List(<<V!EagerBundle(<<one>>),
                 V!Funcall(V!EagerBundle(<<V!Literal(Str("empty"))>>), f("/o/load"))>>)>> }

Conditions ==
    { <<IfElse(V!LazyBundle(<<one>>), V!LazyBundle(<<two, x>>), c)>> :
        c \in {V!Literal(Str("q")), V!EagerBundle(<<x>>)} }

MCPrograms == LoadsLast \union LoadsEarly \union LoadsBelow \union Conditions

(* Their elements, those of the environment and of the files, and the      *)
(* elements in these.                                                      *)
RECURSIVE Within(_)
Within(e) ==
    {e} \union
    IF IsBndl(e) THEN UNION { Within(e.elems[i]) : i \in DOMAIN e.elems }
    ELSE UNION { IF item.tt \in {"b", "B", "L"} THEN Within(Bndl(item.elems)) ELSE {} :
                    item \in Range(e.items) }

MCSyntax ==
    UNION { UNION { Within(es[i]) : i \in DOMAIN es } :
                es \in MCPrograms \union {MCEnv0} \union Range(MCParsedFile) }

-----------------------------------------------------------------------------
(* A program that runs to its end leaves one bundle on the stack, its      *)
(* value by the recursive definition of OscriptEval, and the environment   *)
(* as it found it.  In the programs in question no element follows a       *)
(* /o/load in its bundle: such an element is not finalized.                *)
ResultIsEval ==
    Halted /\ ~trapped /\ program \in LoadsLast =>
        /\ vm_s = <<Bndl(E!EvalElems(program, Env0))>>
        /\ vm_e = Env0
=============================================================================
