---------------------------- MODULE OscriptEval ----------------------------
(***************************************************************************)
(* What an oscript program means, as a recursive function of the program   *)
(* and its environment, with no machine in it: the value of a bundle is    *)
(* the sequence of what its elements leave, each evaluated in an           *)
(* environment where what the earlier ones left comes first.  Scoping is   *)
(* dynamic: a lambda's body sees its arguments, then whatever its caller   *)
(* sees.                                                                   *)
(*                                                                         *)
(* Used by TLC runs only: its operators are RECURSIVE.                     *)
(***************************************************************************)
EXTENDS OseBundle

CONSTANTS ParsedFile, ContextNames

RECURSIVE EvalElems(_, _), EvalItems(_, _, _), Call(_, _, _), Choose(_, _)

(* A scope: what the elements evaluated in it left, and what files did. *)
Leaves(scope) == scope.own \o scope.loaded
Visible(scope, env) == Reverse(scope.own) \o env \o scope.loaded

Find(name, env) ==
    LET at == SelectInSeq(env, LAMBDA e : ~IsBndl(e) /\ e.addr = name)
    IN  IF at = 0 THEN <<String(name)>>
        ELSE [i \in DOMAIN env[at].items |-> Msg("", <<env[at].items[i]>>)]

(* What an element leaves in its scope, given its values: nothing, the     *)
(* bundle it is, or its values under its name.                             *)
Left(name, values) ==
    IF name \in ContextNames \/ (name = "" /\ values = <<>>) THEN <<>>
    ELSE IF name = "" /\ Len(values) = 1 /\ IsBndl(values[1]) THEN values
    ELSE <<Msg(name, JoinItems(values))>>

IsLoad(e) == ~IsBndl(e) /\ Len(e.items) = 4
                /\ SubSeq(e.items, 2, 4) =
                      <<Str("/o/load"), Str("/!/$"), Str("/!/o/apply")>>

EvalElem(e, scope, env) ==
    LET visible == Visible(scope, env)
    IN IF IsBndl(e)
       THEN [scope EXCEPT !.own = Append(@, Bndl(EvalElems(e.elems, visible)))]
       ELSE LET values == EvalItems(e.items, <<>>, visible)
                file == IF values = <<>> THEN Num("") ELSE Last(Last(values).items)
            IN IF IsLoad(e) /\ file.tt = "s"
               THEN [scope EXCEPT !.loaded =
                        @ \o EvalElems(ParsedFile[file.val], visible)]
               ELSE [scope EXCEPT !.own = @ \o Left(e.addr, values)]

EvalElems(es, env) ==
    Leaves(FoldLeft(LAMBDA scope, e : EvalElem(e, scope, env),
                    [own |-> <<>>, loaded |-> <<>>], es))

(* The items of a message, from the first on, over a stack of values.  The *)
(* arguments of a load are left for the element to look at.                *)
EvalItems(items, values, env) ==
    IF items = <<>> THEN values
    ELSE LET item == Head(items)
             next == CASE item.tt = "B" ->
                            Append(values, Bndl(EvalElems(item.elems, env)))
                       [] item = Str("/!/$") ->
                            Front(values) \o Find(Last(values).items[1].val, env)
                       [] item = Str("/!/o/apply") ->
                            Call(Last(values), Front(values), env)
                       [] item = Str("/!/o/funcall") ->
                            Call(Last(values), <<Bndl(Front(values))>>, env)
                       [] OTHER -> Append(values, Msg("", <<item>>))
         IN  EvalItems(Tail(items), next, env)

(* Of the last three values the first or the second, evaluated; a bundle   *)
(* that holds one element only stands for that element.                    *)
Choose(values, env) ==
    IF Len(values) < 3 THEN values
    ELSE LET branch == FromTop(values, IF Last(values).items = <<Num("0")>> THEN 2 ELSE 1)
             bundle == IF ~IsBndl(branch) /\ ArgType(branch) = "b"
                       THEN BlobToElem(branch) ELSE branch
             e == IF IsBndl(bundle) /\ Len(bundle.elems) = 1
                  THEN bundle.elems[1] ELSE bundle
         IN  Append(DropTop(values, 3),
                    Bndl(EvalElems(IF IsBndl(e) THEN e.elems ELSE <<e>>, env)))

PartOf(f, list) ==
    LET n == Len(Parts(list))
    IN  CASE f = String("/o/first") -> Parts(list)[1]
          [] f = String("/o/last") -> Parts(list)[n]
          [] f = String("/o/rest") -> SubElem(list, 2, n)
          [] f = String("/o/butlast") -> SubElem(list, 1, n - 1)

(* f applied to the top value.  A body without a value is transparent: the *)
(* application has the value of the last parameter.                        *)
Call(f, values, env) ==
    LET args == Last(values).elems
    IN IF f = String("/o/defn")
       THEN Append(Front(values), Msg("", <<Lambda(args)>>))
       ELSE IF f = String("/o/load") THEN Front(values) \o args
       ELSE IF f = String("/o/if") THEN Choose(Front(values) \o args, env)
       ELSE IF IsString(f) THEN Append(Front(values), PartOf(f, Last(args)))
       ELSE LET body == Last(f.items[1].elems[1].items).elems
                params == f.items[1].elems[2]
                given(i) ==
                    IF i <= Len(args) THEN args[i]
                    ELSE IF i = Len(args) + 1 THEN params
                    ELSE IF i = Len(args) + 2 THEN Bndl(<<>>)
                    ELSE args[i - Len(args) - 2]
                bound == [i \in DOMAIN params.items |->
                             Msg(params.items[i].val, AsItems(given(i)))]
                inner == EvalElems(bound, env)
                result == EvalElems(body, Reverse(inner) \o env)
            IN Append(Front(values),
                      IF result = <<>> THEN Last(inner) ELSE Last(result))
=============================================================================
