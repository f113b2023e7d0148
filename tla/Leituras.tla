------------------------------ MODULE Leituras ------------------------------
(***************************************************************************)
(* The reading side of the system beside a world that changes under it. A  *)
(* behaviour follows one client: a code from its request to the hand-over  *)
(* (QrCodes), a walk over the pages of a list (Listagens), the history of  *)
(* one parcel (Historico), the periods of the dashboard (Painel) or its    *)
(* numbers (Indices).                                                      *)
(***************************************************************************)
EXTENDS QrCodes, Acessos, Historico, Painel, Indices

VARIABLE cliente    \* what this behaviour follows

vars == <<cliente, acervo, qrVars, listaVars, histVars, hoje, indicesVars>>

Init ==
    /\ cliente \in {"codigo", "lista", "historico", "painel", "indices"}
    /\ AcervoInit /\ QrInit /\ ListaInit /\ HistInit /\ PainelInit /\ IndicesInit
    \* the other three do not look at this world: one is enough
    /\ cliente \notin {"codigo", "lista"} =>
          \A p \in Pessoa : CondominioDa[pessoas[p].unidade] # CondominioPortaria

\* The world changes until the client is served, or until nothing is promised to the
\* reader of the list any more; the histories take note.
Mundo ==
    /\ \/ cliente = "codigo" /\ faseQr \notin {"entregue", "recusado"} /\ (AcervoNext \/ AcessoNext)
       \/ cliente = "lista" /\ fasePagina \notin {"fim", "recusada"} /\ ~desencontro /\ AcervoNext
    /\ intacto' = (intacto /\ (faseQr = "nenhum" \/ (encomendas' = encomendas /\ pessoas' = pessoas)))
    /\ UNCHANGED <<cliente, faseQr, portador, lidas, aConferir, codigo, histVars, hoje, indicesVars>>
    /\ Acompanhar

Codigo == cliente = "codigo" /\ QrNext /\ UNCHANGED <<cliente, acervo, listaVars, histVars, hoje, indicesVars>>
Lista == cliente = "lista" /\ ListaNext /\ UNCHANGED <<cliente, acervo, qrVars, histVars, hoje, indicesVars>>
Historia == cliente = "historico" /\ HistNext /\ UNCHANGED <<cliente, acervo, qrVars, listaVars, hoje, indicesVars>>
Calendario == cliente = "painel" /\ VirarDia /\ UNCHANGED <<cliente, acervo, qrVars, listaVars, histVars, indicesVars>>
Numeros ==
    /\ cliente = "indices"
    /\ (IndicesMundo /\ Mudar) \/ (Consultar /\ UNCHANGED mudancas)
    /\ UNCHANGED <<cliente, encomendas, pessoas, relogio, qrVars, listaVars, histVars, hoje>>

Next == Mundo \/ Codigo \/ Lista \/ Historia \/ Calendario \/ Numeros

Spec == Init /\ [][Next]_vars

-----------------------------------------------------------------------------
(* Properties.                                                             *)

\* Every variable holds a value of its kind.
TypeOK ==
    /\ cliente \in {"codigo", "lista", "historico", "painel", "indices"}
    /\ AcervoTypeOK /\ QrTypeOK /\ ListaTypeOK /\ HistTypeOK /\ PainelTypeOK /\ IndicesTypeOK

\* What is shown, what may be opened and what may be done are judged by different pieces
\* of code. Of codes: one signed for a bearer of its condominium is accepted at the lodge
\* until it expires, if no row has changed since its parcels were read; of one that is
\* accepted every parcel is handed over if its bearer is approved and a morador, and
\* none if not, as when an admin has a code signed for the parcel it holds.
CodigosConcordam ==
    /\ faseQr = "assinado" /\ intacto /\ relogio < codigo.expira
       /\ CondominioDa[pessoas[portador].unidade] = codigo.condominio => LeituraAceita
    /\ faseQr = "assinado" /\ LeituraAceita =>
          \A e \in DOMAIN lidas :
              EntregaAceita(portador, e) <=> pessoas[portador].aprovada /\ pessoas[portador].morador

\* Of lists: a reader's list of parcels is what the reader may open, the announced ones
\* what the reader may change, the list of events what may be opened of them; and the
\* events that a morador may look for are, of the parcels not removed, those of the
\* parcels in the list.
ListasConcordam ==
    \A l \in Leitor : (l \in Pessoa => ~pessoas[l].removida) =>
        /\ Visiveis(l) = {e \in Encomenda : Existe(e) /\ AssertReadAccess(l, encomendas[e])}
        /\ Proprias(l) = {e \in Encomenda : Existe(e) /\ AssertWriteAccess(l, encomendas[e])}
        /\ EventosListados(l) = {e \in ComEventos : AbreEvento(l, e)}
        /\ l \in Pessoa => {e \in EventosFiltrados(l) : Existe(e)} = Visiveis(l)

\* Of moradores: whom the lodge is offered it may register a parcel for, and nobody else;
\* the queue of an admin and the offer of the lodge share out the admin's list of them;
\* and the accounts listed are those that may be opened, the removed ones apart.
MoradoresConcordam ==
    /\ FindMoradores("portaria") = {p \in Pessoa : RegistroAceito("portaria", p)}
    /\ FindMoradores("admin") \ FindMoradoresPendentes("admin") = FindMoradores("portaria")
    /\ \A perfil \in {"super", "admin"} :
          /\ FindAll(perfil) = {p \in Pessoa : AbreUsuario(perfil, p)}
          /\ FindMoradores(perfil) = FindMoradoresPendentes(perfil)
                 \cup {p \in FindAll(perfil) : pessoas[p].morador /\ RegistroAceito(perfil, p)}
          /\ FindAll(perfil) \cap FindRemoved(perfil) = {}

\* The three together; the worlds that a code sees hold those that a list sees.
RegrasConcordam == CodigosConcordam /\ (cliente = "codigo" => ListasConcordam /\ MoradoresConcordam)

SemRepeticao(s) == \A i, j \in DOMAIN s : i # j => s[i] # s[j]
DatasDistintas ==
    \A e, f \in Encomenda : e # f /\ encomendas[e] # Nulo /\ encomendas[f] # Nulo =>
        encomendas[e].criada # encomendas[f].criada

\* A walk over the pages, each counted and selected apart, shows nothing twice unless
\* something came into view meanwhile, and misses nothing of what was there unless
\* something left; neither is promised when something came between the count of a page
\* and its rows, when the reader moved within a page, or of parcels of one instant.
PercursoCompleto ==
    fasePagina = "fim" /\ DatasDistintas /\ ~desencontro =>
        /\ ~entraram => SemRepeticao(vistas)
        /\ ~sairam => \A e \in noInicio : \E i \in DOMAIN vistas : vistas[i] = e

\* The event that the history lists first tells the status of the parcel, whichever
\* the database puts first of equal dates, when every reception took less than a
\* minute and every movement came more than a minute after the one before; whatever
\* events were removed, deleted or restored, as long as the last one inserted is listed.
HistoriaContaOStatus ==
    ~apressada /\ (\E e \in Listados : e.ordem = inseridos) => \A e \in MaisRecentes : e.status = situacao

\* The periods: one holds its date of reference, is the same for every date it holds,
\* and so cuts the calendar without gaps or overlaps; a week has seven days from a Monday
\* and a month all days of that month.
PeriodoCerto ==
    LET semana == ResolverSemanal(hoje)  mes == ResolverMensal(hoje)
    IN  /\ ResolverDiario(hoje) = [inicio |-> hoje, fim |-> hoje]
        /\ hoje \in semana.inicio..semana.fim /\ hoje \in mes.inicio..mes.fim
        /\ semana.fim = semana.inicio + 6 /\ DiaDaSemana(semana.inicio) = 1
        /\ \A d \in semana.inicio..semana.fim : ResolverSemanal(d) = semana
        /\ mes.fim - mes.inicio + 1 = DiasDoMes(Mes(hoje))
        /\ \A d \in mes.inicio..mes.fim : ResolverMensal(d) = mes /\ Mes(d) = Mes(hoje)

\* The sum of the values of f: what there is in all if each x has f[x].
Soma(f) == Cardinality(UNION {{x} \X (1..f[x]) : x \in DOMAIN f})
Perto(n, m, folga) == n <= m + folga /\ m <= n + folga

\* The numbers of one answer add up, to within the changes committed between its
\* queries: the accounts by profile to the accounts; the parcels by status to the
\* parcels, whatever moved from one status to another meanwhile; and no ranking of the
\* lodge counts more than was received or handed over.
NumerosFecham ==
    Respondida =>
        IF pergunta.tipo = "indices"
        THEN /\ Perto(Soma(respostas["porPerfil"]), respostas["ativos"], cadastros)
             /\ Perto(Soma(respostas["porStatus"]), respostas["registradas"], entradas)
        ELSE /\ Soma(respostas["topRecebimentos"]) <= respostas["recebidas"] + escritas
             /\ Soma(respostas["topEntregas"]) <= respostas["retiradas"] + escritas

\* Every parcel that was collected counts in the summary of one day so far.
RetiradasContadas ==
    Soma([d \in 0..dia |-> ContarPorData("entregue", [inicio |-> d, fim |-> d])])
        >= Indice("porStatus")["retirada"]

\* The dashboard: its periods are right, its numbers add up and none is lost.
PainelCerto ==
    /\ cliente = "painel" => PeriodoCerto
    /\ cliente = "indices" => NumerosFecham /\ RetiradasContadas

=============================================================================
