------------------------------ MODULE MCFiscal ------------------------------
(* Instances of Fiscal for TLC: one series of each document type, and the  *)
(* symmetry of ids, requests and worker instances.                         *)
EXTENDS Fiscal, TLC

CONSTANTS B1, F1, C1

MCTipoDeSerie == [s \in Series |-> IF s = B1 THEN "BOLETA"
                                   ELSE IF s = F1 THEN "FACTURA" ELSE "NOTA_CREDITO"]

MCSimetria == Permutations(Documentos) \cup Permutations(Solicitudes)
                \cup Permutations(Trabajadores)
=============================================================================
