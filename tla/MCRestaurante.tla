--------------------------- MODULE MCRestaurante ----------------------------
(* Instances of Restaurante for TLC.  A behaviour is left once races have  *)
(* reached two tables and orders, or one order in two ways.                *)
EXTENDS Restaurante, TLC

MCPocasCarreras == Cardinality(tocadas) + Cardinality(expuestas) + Cardinality(revueltas) <= 1

MCSimetria == Permutations(Comandas) \cup Permutations(Items) \cup Permutations(Ventas)
                \cup Permutations(Procesos)
=============================================================================
