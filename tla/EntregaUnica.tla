---------------------------- MODULE EntregaUnica ----------------------------
(***************************************************************************)
(* What a transactional outbox with an inbox promises: an event recorded   *)
(* with its cause takes effect once, is marked published only after that,  *)
(* and neither is left undone.  The promise of an event ends when somebody *)
(* else takes a unique name that its effect needs.                         *)
(***************************************************************************)
CONSTANT Eventos

VARIABLE fase  \* per event

Fases == {"ausente", "pendiente", "hecho", "publicado", "sin promesa"}

Init == fase = [e \in Eventos |-> "ausente"]

\* The events of P lose the promise.
Sin(P, f) == [e \in Eventos |-> IF e \in P THEN "sin promesa" ELSE f[e]]

\* One event takes a step, and others may lose the promise by it.
Pasar(e, de, a) ==
  fase[e] = de /\ \E P \in SUBSET (Eventos \ {e}) : fase' = Sin(P, [fase EXCEPT ![e] = a])

Registrar(e) == Pasar(e, "ausente", "pendiente")
Aplicar(e) == Pasar(e, "pendiente", "hecho")
Publicar(e) == Pasar(e, "hecho", "publicado")
Perder == \E P \in SUBSET Eventos : fase' = Sin(P, fase)

Next == Perder \/ \E e \in Eventos : Registrar(e) \/ Aplicar(e) \/ Publicar(e)

\* What may happen, and what must.
Segura == Init /\ [][Next]_fase

Spec ==
  /\ Segura
  /\ \A e \in Eventos : WF_fase(Aplicar(e)) /\ WF_fase(Publicar(e))
=============================================================================
