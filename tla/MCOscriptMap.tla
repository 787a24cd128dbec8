---------------------------- MODULE MCOscriptMap ----------------------------
(* Maps over two rows, a short one among them, over the elements of a      *)
(* bundle, over an empty row; with a message, with a blob that holds one,  *)
(* or with nothing to map over.                                            *)
EXTENDS MapColumns

V == INSTANCE OscriptVisitor

numbers(a, b) == V!List(<<V!Literal(Num(a)), V!Literal(Num(b))>>)
fn == String("/o/println")

twoRows == V!EagerBundle(<<numbers("1", "2"), numbers("3", "4")>>)
shortRow == V!LazyBundle(<<numbers("1", "2"), V!Literal(Num("3"))>>)
bundleRow == V!EagerBundle(<<V!EagerBundle(<<numbers("1", "2"),
                                             numbers("3", "4")>>)>>)
emptyRow == V!EagerBundle(<<V!List(<<>>)>>)

MCArguments ==
    {<<e, fn>> : e \in {twoRows, shortRow, bundleRow, emptyRow}}
    \union {<<fn>>, <<numbers("1", "2"), fn>>,
             <<V!Literal(MessageBlob("1")), fn>>}

(* What is mapped over: the rows of an argument, or those of a result that *)
(* is picked up from the stack, a column of an argument.                   *)
FromArguments ==
    {RowsOf(a[1]) : a \in {b \in MCArguments : Len(b) = 2 /\ IsMappable(b[1])}}

Columns(rowSets) ==
    UNION {{Rows([j \in DOMAIN rows |-> rows[j][n]]) :
              n \in {k \in 1..2 : \A j \in DOMAIN rows : k <= Len(rows[j])}} :
           rows \in rowSets}

MCRowSets ==
    FromArguments \union Columns(FromArguments)
                  \union Columns(Columns(FromArguments))
=============================================================================
