---------------------------- MODULE MCEncomendas ----------------------------
(***************************************************************************)
(* Small populations for TLC. Condominium c1: moradores m1 and m2 share    *)
(* unit u1, m3 and the admin a1 live in u2, p1 works at the gate.          *)
(* Condominium c2: morador m4 and portaria p2. s1 is the super, who        *)
(* belongs to no condominium. Every run takes the users it needs.          *)
(***************************************************************************)
EXTENDS Encomendas, TLC

CONSTANTS m1, m2, m3, m4, p1, p2, a1, s1, c1, c2, u1, u2, u3

PopulacaoPerfil == [u \in Usuario |->
    CASE u \in {m1, m2, m3, m4} -> "morador"
      [] u \in {p1, p2} -> "portaria"
      [] u = a1 -> "admin"
      [] u = s1 -> "super"]

PopulacaoCondominio == [u \in Usuario |->
    CASE u \in {m4, p2} -> c2
      [] u = s1 -> Nulo
      [] OTHER -> c1]

PopulacaoUnidade == [u \in Usuario |->
    CASE u \in {m1, m2} -> u1
      [] u \in {m3, a1} -> u2
      [] u = m4 -> u3
      [] OTHER -> Nulo]

Simetria == Permutations(Requisicao)
=============================================================================
