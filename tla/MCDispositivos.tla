--------------------------- MODULE MCDispositivos ---------------------------
(***************************************************************************)
(* A few accounts, tokens and requests for TLC.                            *)
(***************************************************************************)
EXTENDS Dispositivos, TLC

Simetria == Permutations(Requisicao) \cup Permutations(Usuario) \cup Permutations(Token)
=============================================================================
