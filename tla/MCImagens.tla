------------------------------ MODULE MCImagens ------------------------------
(***************************************************************************)
(* Three requests on images whose longest side is within the first limit,  *)
(* within the second, or above both.                                       *)
(***************************************************************************)
EXTENDS Imagens, TLC

LimitePorTipo == [t \in Tipo |-> IF t = "comum" THEN 1 ELSE 2]
Simetria == Permutations(Requisicao)
=============================================================================
