----------------------------- MODULE MCCuentas ------------------------------
(* Instances of Cuentas for TLC.                                           *)
EXTENDS Cuentas, TLC

MCMontos == {-1, 1, 2}

MCSimetria == Permutations(Claves) \cup Permutations(Procesos) \cup Permutations(PorCobrar)
=============================================================================
