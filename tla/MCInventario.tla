---------------------------- MODULE MCInventario ----------------------------
(* Instances of Inventario for TLC: ids of one kind are interchangeable.   *)
EXTENDS Inventario, TLC

MCSimetria == Permutations(Almacenes) \cup Permutations(Claves) \cup Permutations(Procesos)
                \cup Permutations(Reservas) \cup Permutations(Transferencias)
=============================================================================
