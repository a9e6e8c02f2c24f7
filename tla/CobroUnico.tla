----------------------------- MODULE CobroUnico -----------------------------
(***************************************************************************)
(* What a restaurant order promises: it is charged once or cancelled, and  *)
(* never both.  An order whose charge or cancellation overlapped another,  *)
(* or whose charge was interrupted, is out of the promise (expuesta).      *)
(***************************************************************************)
CONSTANT Comandas

VARIABLE fase  \* per order

Fases == {"abierta", "cobrada", "cancelada", "expuesta"}

Init == fase = [c \in Comandas |-> "abierta"]

Pasar(c, f) == fase' = [fase EXCEPT ![c] = f]

Cobrar(c) == fase[c] = "abierta" /\ Pasar(c, "cobrada")
Cancelar(c) == fase[c] = "abierta" /\ Pasar(c, "cancelada")
Exponer(c) == fase[c] # "expuesta" /\ Pasar(c, "expuesta")

Next == \E c \in Comandas : Cobrar(c) \/ Cancelar(c) \/ Exponer(c)

Spec == Init /\ [][Next]_fase
=============================================================================
