------------------------------ MODULE MCSessoes ------------------------------
(***************************************************************************)
(* One account, a day of a few seconds and every pair of cut-offs.         *)
(***************************************************************************)
EXTENDS Sessoes, TLC

Simetria == Permutations(Requisicao)
=============================================================================
