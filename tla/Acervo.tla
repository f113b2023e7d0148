------------------------------- MODULE Acervo -------------------------------
(***************************************************************************)
(* What the reading handlers read: the parcels and the accounts, as the    *)
(* writing handlers of the other modules leave them, and the clock. A      *)
(* change is one step here: the readers only see what was committed.       *)
(* Of a parcel the columns that decide who sees it and may collect it are  *)
(* kept, with the second of its creation; of an account the unit (that     *)
(* says the condominium), whether perfil is morador and aproved_at is set, *)
(* and the removal. An account of no unit, such as a super's, is not here. *)
(***************************************************************************)
EXTENDS Naturals, FiniteSets, Sequences, SequencesExt

CONSTANTS
    Encomenda,      \* parcels
    Pessoa,         \* accounts that have a unit: moradores, and what they become
    Unidade,        \* units
    CondominioDa,   \* unit |-> its condominium
    Nulo,           \* no row, no value
    Mudancas        \* how many changes of the world a behaviour has (a bound)

Predios == {CondominioDa[u] : u \in Unidade}

ASSUME MudancasNatural == Mudancas \in Nat
ASSUME TabelaFinita == IsFiniteSet(Encomenda)

\* relogio counts instants that created_at tells apart.
EncomendaLinha == [titular: Pessoa, unidade: Unidade, condominio: Predios,
                   restricao: {"pessoal", "unidade"}, removida: BOOLEAN, criada: Nat]
PessoaLinha == [unidade: Unidade, morador: BOOLEAN, aprovada: BOOLEAN, removida: BOOLEAN]

ASSUME NuloNaoEhLinha == Nulo \notin EncomendaLinha

VARIABLES
    encomendas,    \* parcel |-> its row
    pessoas,       \* account |-> its row
    relogio,       \* the time
    mudancas       \* changes so far

acervo == <<encomendas, pessoas, relogio, mudancas>>

AcervoInit ==
    /\ encomendas = [e \in Encomenda |-> Nulo]
    /\ pessoas \in [Pessoa -> [unidade: Unidade, morador: {TRUE}, aprovada: {TRUE}, removida: {FALSE}]]
    /\ relogio = 0
    /\ mudancas = 0

AcervoTypeOK ==
    /\ encomendas \in [Encomenda -> EncomendaLinha \cup {Nulo}]
    /\ pessoas \in [Pessoa -> PessoaLinha]
    /\ relogio \in Nat
    /\ mudancas \in 0..Mudancas

Existe(e) == encomendas[e] # Nulo /\ ~encomendas[e].removida

\* A parcel is registered for p by someone of the condominium c: its unit is p's, which
\* need not be a morador when p or another admin registers it. It may have the
\* created_at of the one before.
Registrar(e) ==
    /\ encomendas[e] = Nulo
    /\ relogio' \in {relogio, relogio + 1}
    /\ \E p \in Pessoa, c \in Predios, r \in {"pessoal", "unidade"} :
          /\ pessoas[p].aprovada /\ ~pessoas[p].removida
          /\ encomendas' = [encomendas EXCEPT ![e] =
                [titular |-> p, unidade |-> pessoas[p].unidade, condominio |-> c,
                 restricao |-> r, removida |-> FALSE, criada |-> relogio']]
    /\ UNCHANGED pessoas

\* update of restricao_retirada, remove and restore.
AlterarEncomenda(e) ==
    /\ encomendas[e] # Nulo
    /\ \/ \E r \in {"pessoal", "unidade"} \ {encomendas[e].restricao} :
             Existe(e) /\ encomendas' = [encomendas EXCEPT ![e].restricao = r]
       \/ encomendas' = [encomendas EXCEPT ![e].removida = ~@]
    /\ UNCHANGED <<pessoas, relogio>>

\* The account moves or is removed; the parcels keep the unit.
AlterarPessoa(p) ==
    /\ ~pessoas[p].removida
    /\ \/ \E u \in Unidade \ {pessoas[p].unidade} : pessoas' = [pessoas EXCEPT ![p].unidade = u]
       \/ pessoas' = [pessoas EXCEPT ![p].removida = TRUE]
    /\ UNCHANGED <<encomendas, relogio>>

\* The account is revoked, or approved again.
AlterarAcesso(p) ==
    /\ ~pessoas[p].removida
    /\ pessoas' = [pessoas EXCEPT ![p].aprovada = ~@]
    /\ UNCHANGED <<encomendas, relogio>>

\* updateRole makes an admin, say, of a morador, or a morador again.
AlterarPerfil(p) ==
    /\ ~pessoas[p].removida
    /\ pessoas' = [pessoas EXCEPT ![p].morador = ~@]
    /\ UNCHANGED <<encomendas, relogio>>

Passar == relogio' = relogio + 1 /\ UNCHANGED <<encomendas, pessoas>>

Mudar == mudancas < Mudancas /\ mudancas' = mudancas + 1

\* The changes that a list of parcels can tell, and the others.
AcervoNext ==
    /\ Mudar
    /\ \/ \E e \in Encomenda : Registrar(e) \/ AlterarEncomenda(e)
       \/ \E p \in Pessoa : AlterarPessoa(p)
AcessoNext == Mudar /\ ((\E p \in Pessoa : AlterarAcesso(p) \/ AlterarPerfil(p)) \/ Passar)

=============================================================================
