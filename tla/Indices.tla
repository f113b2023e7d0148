------------------------------- MODULE Indices -------------------------------
(***************************************************************************)
(* The numbers of the dashboard (dashboard.service.ts): the general        *)
(* indices and the summary of a period. Each is answered by several        *)
(* queries that Promise.all sends together outside any transaction: they   *)
(* run on connections of their own, in any order, each on the rows of its  *)
(* own moment, while parcels and accounts change. The images are left out. *)
(***************************************************************************)
EXTENDS Acervo

CONSTANTS
    Conta,        \* accounts
    PerfilDe,     \* usuarios.perfil
    UltimaData    \* the last day there is (a bound)

ASSUME DatasNaturais == UltimaData \in Nat /\ Nulo \notin Nat
ASSUME Perfis ==
    /\ IsFiniteSet(Conta)
    /\ PerfilDe \in [Conta -> {"super", "admin", "portaria", "morador"}]

Dia == 0..UltimaData
StatusContado == {"prevista", "aguardando", "retirada", "cancelada"}

\* The columns the numbers are made of; "recebida" is never committed.
Parcela == [status: StatusContado, titular: Conta, criada: Dia, removida: BOOLEAN,
            recebedor: Conta \cup {Nulo}, recebida: Dia \cup {Nulo},
            entregador: Conta \cup {Nulo}, entregue: Dia \cup {Nulo}]
Pergunta == [tipo: {"indices", "resumo"}, inicio: Dia, fim: Dia]

ASSUME NuloForaDosIndices == Nulo \notin Parcela /\ Nulo \notin Pergunta

VARIABLES
    dia,          \* today
    parcelas,     \* parcel |-> its row
    ativas,       \* the accounts that are not removed
    pergunta,     \* what is asked, the period for a summary; or nothing yet
    respostas,    \* query |-> its answer, of those that have run
    entradas,     \* parcels that came or went since the first answer (history)
    escritas,     \* parcels written since the first answer (history)
    cadastros     \* accounts removed or restored since the first answer (history)

indicesVars == <<dia, parcelas, ativas, pergunta, respostas, entradas, escritas, cadastros>>

IndicesInit ==
    /\ dia = 0
    /\ parcelas = [e \in Encomenda |-> Nulo]
    /\ ativas = Conta
    /\ pergunta = Nulo /\ respostas = <<>>
    /\ entradas = 0 /\ escritas = 0 /\ cadastros = 0

IndicesTypeOK ==
    /\ dia \in Dia
    /\ parcelas \in [Encomenda -> Parcela \cup {Nulo}]
    /\ ativas \subseteq Conta
    /\ pergunta \in Pergunta \cup {Nulo}
    /\ {entradas, escritas, cadastros} \subseteq Nat

DePerfil(f) == {c \in ativas : PerfilDe[c] = f}
Equipe == {c \in ativas : PerfilDe[c] # "morador"}
Guardada(e) == parcelas[e] # Nulo /\ ~parcelas[e].removida

-----------------------------------------------------------------------------
(* The world. Each change writes one row.                                  *)

\* One more, once the first query has been answered.
Desde(n) == IF respostas = <<>> THEN n ELSE n + 1

Escrever(e, linha, entra) ==
    /\ parcelas' = [parcelas EXCEPT ![e] = linha]
    /\ escritas' = Desde(escritas)
    /\ entradas' = IF entra THEN Desde(entradas) ELSE entradas
    /\ UNCHANGED <<dia, ativas, cadastros>>

\* create: announced by its morador, received at the lodge, or received and handed over.
Criar(e) ==
    /\ parcelas[e] = Nulo
    /\ \E t \in DePerfil("morador"), r \in DePerfil("portaria") :
          LET prevista == [status |-> "prevista", titular |-> t, criada |-> dia, removida |-> FALSE,
                           recebedor |-> Nulo, recebida |-> Nulo, entregador |-> Nulo, entregue |-> Nulo]
              recebida == [prevista EXCEPT !.status = "aguardando", !.recebedor = r, !.recebida = dia]
          IN  \/ Escrever(e, prevista, TRUE)
              \/ Escrever(e, recebida, TRUE)
              \/ \E p \in DePerfil("portaria") :
                    Escrever(e, [recebida EXCEPT !.status = "retirada", !.entregador = p,
                                                 !.entregue = dia], TRUE)

\* updateStatus: received, handed over, or put into another status, which keeps the dates.
Receber(e) ==
    /\ Guardada(e) /\ parcelas[e].status = "prevista"
    /\ \E c \in Equipe :
          Escrever(e, [parcelas[e] EXCEPT !.status = "aguardando", !.recebedor = c,
                                          !.recebida = dia], FALSE)
Entregar(e) ==
    /\ Guardada(e) /\ parcelas[e].status = "aguardando"
    /\ \E c \in Equipe :
          Escrever(e, [parcelas[e] EXCEPT !.status = "retirada", !.entregador = c,
                                          !.entregue = dia], FALSE)
Recolocar(e) ==
    /\ Guardada(e)
    /\ \E s \in {"aguardando", "cancelada"} \ {parcelas[e].status} :
          Escrever(e, [parcelas[e] EXCEPT !.status = s], FALSE)

\* baixaAdministrativa: collected on a day up to today, or cancelled.
DarBaixa(e) ==
    /\ Guardada(e) /\ parcelas[e].status \in {"prevista", "aguardando"}
    /\ \/ \E c \in Equipe, d \in 0..dia :
             Escrever(e, [parcelas[e] EXCEPT !.status = "retirada", !.entregador = c,
                                             !.entregue = d], FALSE)
       \/ Escrever(e, [parcelas[e] EXCEPT !.status = "cancelada"], FALSE)

\* remove and restore
TirarOuRepor(e) ==
    parcelas[e] # Nulo /\ Escrever(e, [parcelas[e] EXCEPT !.removida = ~@], TRUE)

\* remove and restore of an account
MudarConta(c) ==
    /\ ativas' = IF c \in ativas THEN ativas \ {c} ELSE ativas \cup {c}
    /\ cadastros' = Desde(cadastros)
    /\ UNCHANGED <<dia, parcelas, entradas, escritas>>

Amanhecer ==
    /\ dia < UltimaData /\ dia' = dia + 1
    /\ UNCHANGED <<parcelas, ativas, entradas, escritas, cadastros>>

-----------------------------------------------------------------------------
(* The queries.                                                            *)

Na(data, p) == data # Nulo /\ data \in p.inicio..p.fim

\* countEncomendasPorCampoData
ContarPorData(campo, p) == Cardinality({e \in Encomenda : Guardada(e) /\ Na(parcelas[e][campo], p)})

\* getTopMoradores and getTopPortarias: how many parcels name each account of a profile;
\* the ten first are all there are here.
Ranking(perfil, quem, quando, p) ==
    [c \in DePerfil(perfil) |->
        Cardinality({e \in Encomenda : Guardada(e) /\ parcelas[e][quem] = c /\ Na(parcelas[e][quando], p)})]

\* getIndicesGerais: COUNT, and COUNT GROUP BY, of accounts and of parcels.
Indice(q) ==
    CASE q = "ativos" -> Cardinality({c \in ativas : PerfilDe[c] # "super"})
      [] q = "porPerfil" -> [f \in {"admin", "portaria", "morador"} |-> Cardinality(DePerfil(f))]
      [] q = "registradas" -> Cardinality({e \in Encomenda : Guardada(e)})
      [] q = "porStatus" ->
            [s \in StatusContado |-> Cardinality({e \in Encomenda : Guardada(e) /\ parcelas[e].status = s})]

\* getResumoPorPeriodo
Resumo(q, p) ==
    CASE q = "recebidas" -> ContarPorData("recebida", p)
      [] q = "retiradas" -> ContarPorData("entregue", p)
      [] q = "topMoradores" -> Ranking("morador", "titular", "criada", p)
      [] q = "topRecebimentos" -> Ranking("portaria", "recebedor", "recebida", p)
      [] q = "topEntregas" -> Ranking("portaria", "entregador", "entregue", p)

Consultas(tipo) ==
    IF tipo = "indices" THEN {"ativos", "porPerfil", "registradas", "porStatus"}
    ELSE {"recebidas", "retiradas", "topMoradores", "topRecebimentos", "topEntregas"}

\* resolvePeriodoPersonalizado refuses an end before the beginning.
Perguntar ==
    /\ pergunta = Nulo
    /\ pergunta' \in {p \in Pergunta : IF p.tipo = "resumo" THEN p.inicio <= p.fim ELSE p.inicio + p.fim = 0}
    /\ UNCHANGED <<respostas, dia, parcelas, ativas, entradas, escritas, cadastros>>

Responder(q) ==
    /\ pergunta # Nulo /\ q \in Consultas(pergunta.tipo) \ DOMAIN respostas
    /\ LET resposta == IF pergunta.tipo = "indices" THEN Indice(q) ELSE Resumo(q, pergunta)
       IN  respostas' = [r \in DOMAIN respostas \cup {q} |-> IF r = q THEN resposta ELSE respostas[r]]
    /\ UNCHANGED <<pergunta, dia, parcelas, ativas, entradas, escritas, cadastros>>

Respondida == pergunta # Nulo /\ DOMAIN respostas = Consultas(pergunta.tipo)

\* A change of the world, while some query is still to run.
IndicesMundo ==
    /\ ~Respondida
    /\ \/ \E e \in Encomenda : \/ Criar(e) \/ Receber(e) \/ Entregar(e) \/ Recolocar(e)
                               \/ DarBaixa(e) \/ TirarOuRepor(e)
       \/ \E c \in Conta : MudarConta(c)
       \/ Amanhecer
    /\ UNCHANGED <<pergunta, respostas>>

Consultar == Perguntar \/ (pergunta # Nulo /\ \E q \in Consultas(pergunta.tipo) : Responder(q))

=============================================================================
