---------------------------- MODULE MCIsolamento ----------------------------
(***************************************************************************)
(* The population of MCEncomendas for Isolamento.                          *)
(***************************************************************************)
EXTENDS Isolamento, MCEncomendas
=============================================================================
