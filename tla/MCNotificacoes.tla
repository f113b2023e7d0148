---------------------------- MODULE MCNotificacoes ----------------------------
(***************************************************************************)
(* A super s1, an admin a1 and a morador m1, with a parcel of the morador  *)
(* and one of the admin, and at first a single notice, of the morador      *)
(* about its parcel, for TLC.                                              *)
(***************************************************************************)
EXTENDS Notificacoes, TLC

CONSTANTS s1, a1, m1, n1, e1, e2

PerfilDosUsuarios == [u \in Usuario |->
    CASE u = s1 -> "super" [] u = a1 -> "admin" [] OTHER -> "morador"]

TitularDasEncomendas == [e \in Encomenda |-> IF e = e1 THEN m1 ELSE a1]

UmAviso == [n \in Notificacao |->
    IF n = n1 THEN [dono |-> m1, encomenda |-> e1, lida |-> FALSE, removida |-> FALSE] ELSE Nulo]

Simetria == Permutations(Requisicao)
=============================================================================
