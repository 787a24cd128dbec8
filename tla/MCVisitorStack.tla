--------------------------- MODULE MCVisitorStack ---------------------------
(***************************************************************************)
(* VisitorStack on all texts of one element, the element being of any kind *)
(* with parts that are themselves of any kind, and on some of none or two; *)
(* each visit compared with the element OscriptVisitor gives for its tree. *)
(***************************************************************************)
EXTENDS VisitorStack

Node(node, text, parts) == [node |-> node, text |-> text, parts |-> parts]

Name(n) == Node("lookup", n, <<>>)
Comment == Node("literal", Str("/#/ text"), <<>>)
One == Node("literal", Num("1"), <<>>)
Leaves == {Name("x"), One, Comment, Node("bind", "n", <<>>), Node("list", "", <<>>)}

Tuples(S) == {<<>>} \union { <<a>> : a \in S } \union { <<a, b>> : a, b \in S }

(* Bundles, closed or not. *)
Bundles(parts) == { Node(kind, "", p) : kind \in {"lazy", "eager"}, p \in parts }

Calls(args, fns) == { Node("funcall", "", <<a, f>>) : a \in args, f \in fns }

(* What may be made of given parts. *)
Composites(S) ==
    LET all == Bundles(Tuples(S))
        args == {Name("a")} \union { b \in all : Len(b.parts) <= 1 }
        fns == {Name("f")} \union { b \in args : b.node = "lazy" }
    IN all \union { Node("list", "", p) : p \in Tuples(S) }
           \union { Node("bind", name, <<e>>) : name \in {"", "y"}, e \in S }
           \union Calls(args, fns)
           \union Calls(args, Calls({Name("b")}, fns))

Some == {Name("x"), Node("bind", "x", <<One>>), Node("list", "", <<One, One>>),
         Node("eager", "", <<One, Name("x")>>), Node("lazy", "", <<One>>)}
            \union Calls({Node("eager", "", <<Name("x")>>)}, {Name("f")})

Top(parts) == Node("top", "", parts)

MCTrees ==
    { Top(<<e>>) : e \in Composites(Leaves) \union Composites(Some) }
    \union { Top(p) : p \in Tuples(Some) }
    \union { Node("empty", "", <<>>) }

(* A tree and all its parts. *)
RECURSIVE Within(_)
Within(tree) == {tree} \union UNION { Within(tree.parts[i]) : i \in DOMAIN tree.parts }

MCSyntax == UNION { Within(tree) : tree \in MCTrees }

MCStacks == { <<>>, <<Msg("below", <<>>), Bndl(<<String("below")>>)>> }

(* Parts are never deeper than their tree. *)
RECURSIVE DepthOf(_)
DepthOf(tree) ==
    1 + Max({0} \union { DepthOf(tree.parts[i]) : i \in DOMAIN tree.parts })

MCDepth == [tree \in MCSyntax |-> DepthOf(tree)]
=============================================================================
