------------------------------- MODULE MCAlta -------------------------------
(* Instances of Alta for TLC.                                              *)
EXTENDS Alta, TLC

MCSimetria == Permutations(Inquilinos) \cup Permutations(Registros) \cup Permutations(Relays)
=============================================================================
