------------------------------ MODULE MCVentas ------------------------------
(* Instances of Ventas for TLC: one sale of two units, on one line or two, *)
(* paid in cash, in part, or with change.                                  *)
EXTENDS Ventas, TLC

CONSTANTS l1, l2

MCCarritos == {[l \in Lineas |-> 1], [l \in Lineas |-> IF l = l1 THEN 2 ELSE 0]}
MCDosLineas == {[l \in Lineas |-> 1]}
MCPagos == {[efectivo |-> 2, otros |-> 0], [efectivo |-> 1, otros |-> 0],
            [efectivo |-> 0, otros |-> 2]}
MCDosPagos == {[efectivo |-> 2, otros |-> 0], [efectivo |-> 0, otros |-> 1]}
MCUnPago == {[efectivo |-> 2, otros |-> 0]}
MCUsoMaximo == [m \in Promos |-> 1]
MCPocasExistencias == [l \in Lineas |-> 2]
MCExistencias == [l \in Lineas |-> 3]

MCSimetria == Permutations(Sesiones) \cup Permutations(Claves) \cup Permutations(Devs)
                \cup Permutations(Procesos)
=============================================================================
