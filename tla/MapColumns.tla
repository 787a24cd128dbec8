----------------------------- MODULE MapColumns -----------------------------
(***************************************************************************)
(* /o/map keeps the promise of ZipMap: what OscriptMap has on control and  *)
(* stack, read as the maps that go on and how far they are.                *)
(***************************************************************************)
EXTENDS OscriptMap

CONSTANT RowSets         \* what may be mapped over, as sequences of rows

MapsOf(states) ==
    [i \in DOMAIN states |-> [arg |-> states[i].rows, done |-> states[i].count]]

Maps == INSTANCE ZipMap WITH active <- MapsOf(Active), Args <- RowSets

(* What is mapped over is an argument, a column that a function left on    *)
(* the stack, or an argument that a map which failed left there; it has a  *)
(* row (oscript_mapRest_impl ends at the end of a row).                    *)
ASSUME RowsAssumption ==
    /\ \A arg \in Arguments : \A i \in DOMAIN arg :
          IsMappable(arg[i]) => RowsOf(arg[i]) \in RowSets
    /\ \A rows \in RowSets :
          /\ rows # <<>> /\ rows \in Seq(Range(rows))
          /\ \A j \in DOMAIN rows : rows[j] \in Seq(Range(rows[j]))
          /\ \A n \in DOMAIN rows[1] :
                Maps!HasColumn(rows, n) => Rows(Maps!Column(rows, n)) \in RowSets

(* The function of every map, however deeply it is nested in functions of  *)
(* other maps, is applied to the columns of its own rows, each once and in *)
(* their order, and the map ends with its shortest row.                    *)
ImplementsZipMap == Maps!Spec
=============================================================================
