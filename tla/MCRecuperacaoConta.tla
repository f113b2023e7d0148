------------------------- MODULE MCRecuperacaoConta -------------------------
(***************************************************************************)
(* A few accounts, requests and codes for TLC.                             *)
(***************************************************************************)
EXTENDS RecuperacaoConta, TLC

Simetria == Permutations(Requisicao) \cup Permutations(Usuario) \cup Permutations(Codigo)
=============================================================================
