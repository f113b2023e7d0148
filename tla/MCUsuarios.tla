----------------------------- MODULE MCUsuarios -----------------------------
(***************************************************************************)
(* Small populations for TLC: the super s1, who belongs to no condominium, *)
(* the admin a1 and the approved morador m1 of condominium k1. n1 and n2   *)
(* are uuids not drawn yet. The units q1 and q3 are of k1, q2 is of k2.    *)
(***************************************************************************)
EXTENDS Usuarios, TLC

CONSTANTS s1, a1, m1, n1, n2, k1, k2, q1, q2, q3, d1, d2, d3, d4, x1, x2, x3, x4

CondominioDasUnidades == [n \in Unidade |-> IF n = q2 THEN k2 ELSE k1]

\* As the seed has it, whose accounts share documents.
Populacao == [u \in Usuario |->
    CASE u = s1 -> NovaLinha("super", Nulo, Nulo, d1, x1)
      [] u = a1 -> NovaLinha("admin", k1, Nulo, d1, x2)
      [] u = m1 -> [NovaLinha("morador", k1, q1, d1, x3) EXCEPT !.aprovado = TRUE]
      [] OTHER -> Nulo]

\* As the API alone would have built it.
PopulacaoSemRepeticao == [u \in Usuario |->
    IF Populacao[u] = Nulo THEN Nulo
    ELSE [Populacao[u] EXCEPT !.cpf = CASE u = s1 -> d1 [] u = a1 -> d2 [] OTHER -> d3]]

Simetria == Permutations(Requisicao)
=============================================================================
