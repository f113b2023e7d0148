---------------------------- MODULE MCCadastros ----------------------------
(***************************************************************************)
(* A few rows, values and requests on a pool of three connections for TLC. *)
(***************************************************************************)
EXTENDS Cadastros, TLC

Simetria == Permutations(Requisicao) \cup Permutations(Chave) \cup Permutations(Condominio)
=============================================================================
