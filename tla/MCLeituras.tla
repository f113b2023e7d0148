----------------------------- MODULE MCLeituras -----------------------------
(***************************************************************************)
(* Two accounts, three units of two condominios and a few parcels for TLC. *)
(***************************************************************************)
EXTENDS Leituras, TLC

CONSTANTS u1, u2, u3, admin, porteiro, morador

DoisPredios == (u1 :> "norte") @@ (u2 :> "norte") @@ (u3 :> "sul")
UmDeCada == (admin :> "admin") @@ (porteiro :> "portaria") @@ (morador :> "morador")

\* No filter, or a text that only the name of one morador contains.
SemFiltro == [titular |-> Nulo, busca |-> Nulo]
PeloNome(p) == [SemFiltro EXCEPT !.busca = [nomes |-> {p}, unidades |-> {}, encomendas |-> {}]]
FiltrosTentados == {SemFiltro} \cup {PeloNome(p) : p \in Pessoa}
\* The two units of the north are alike.
Simetria == Permutations(Encomenda) \cup Permutations(Pessoa) \cup Permutations({u1, u2})
=============================================================================
