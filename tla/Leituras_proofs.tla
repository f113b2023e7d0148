---------------------------- MODULE Leituras_proofs ----------------------------
(***************************************************************************)
(* Proofs about the reading side: that the rules of codes, lists and       *)
(* moradores agree, that a walk over the pages is complete, that the       *)
(* newest event tells the status of its parcel, and that the periods and   *)
(* the numbers of the dashboard are right, for every number of parcels,    *)
(* moradores, events, accounts and days. Each client has an invariant of   *)
(* its own (QrInv, ListaInv, HistInv, IndicesInv); the calendar needs      *)
(* arithmetic only.                                                        *)
(***************************************************************************)
EXTENDS Leituras, FiniteSetTheorems, FunctionTheorems, TLAPS

-----------------------------------------------------------------------------
(* Types.                                                                  *)

\* The world keeps its types, and no parcel goes or changes its date.
LEMMA AcervoTipo ==
    ASSUME AcervoTypeOK, AcervoNext \/ AcessoNext
    PROVE  /\ AcervoTypeOK'
           /\ \A e \in Encomenda : encomendas[e] # Nulo =>
                 encomendas'[e] # Nulo /\ encomendas'[e].criada = encomendas[e].criada
<1> USE DEF AcervoTypeOK
<1>m. ASSUME Mudar PROVE mudancas' \in 0..Mudancas
  BY <1>m, MudancasNatural DEF Mudar
<1>1. ASSUME NEW e \in Encomenda, Mudar, Registrar(e) PROVE AcervoTypeOK' /\ encomendas[e] = Nulo
          /\ encomendas'[e] \in EncomendaLinha /\ encomendas' = [encomendas EXCEPT ![e] = encomendas'[e]]
  <2>1. relogio' \in Nat /\ pessoas' = pessoas
    BY <1>1 DEF Registrar
  <2>2. PICK p \in Pessoa, c \in Predios, r \in {"pessoal", "unidade"} :
            encomendas' = [encomendas EXCEPT ![e] =
                [titular |-> p, unidade |-> pessoas[p].unidade, condominio |-> c,
                 restricao |-> r, removida |-> FALSE, criada |-> relogio']]
    BY <1>1 DEF Registrar
  <2>3. encomendas'[e] \in EncomendaLinha
    BY <2>1, <2>2 DEF EncomendaLinha, PessoaLinha
  <2> QED BY <1>1, <1>m, <2>1, <2>2, <2>3 DEF Registrar
<1>2. ASSUME NEW e \in Encomenda, Mudar, AlterarEncomenda(e)
      PROVE  /\ AcervoTypeOK'
             /\ encomendas[e] # Nulo /\ encomendas'[e] \in EncomendaLinha
             /\ encomendas'[e].criada = encomendas[e].criada
             /\ encomendas' = [encomendas EXCEPT ![e] = encomendas'[e]]
  <2>1. encomendas[e] \in EncomendaLinha
    BY <1>2 DEF AlterarEncomenda
  <2>2. CASE \E r \in {"pessoal", "unidade"} : encomendas' = [encomendas EXCEPT ![e].restricao = r]
    BY <1>2, <1>m, <2>1, <2>2 DEF AlterarEncomenda, EncomendaLinha
  <2>3. CASE encomendas' = [encomendas EXCEPT ![e].removida = ~@]
    BY <1>2, <1>m, <2>1, <2>3 DEF AlterarEncomenda, EncomendaLinha
  <2> QED BY <1>2, <2>2, <2>3 DEF AlterarEncomenda
<1>3. ASSUME NEW p \in Pessoa, Mudar, AlterarPessoa(p) \/ AlterarAcesso(p) \/ AlterarPerfil(p)
      PROVE  AcervoTypeOK' /\ encomendas' = encomendas
  <2>1. pessoas[p] \in PessoaLinha /\ encomendas' = encomendas /\ relogio' = relogio
    BY <1>3 DEF AlterarPessoa, AlterarAcesso, AlterarPerfil
  <2>2. ASSUME NEW u \in Unidade, pessoas' = [pessoas EXCEPT ![p].unidade = u]
        PROVE  pessoas' \in [Pessoa -> PessoaLinha]
    BY <2>1, <2>2 DEF PessoaLinha
  <2>3. ASSUME pessoas' = [pessoas EXCEPT ![p].removida = TRUE]
        PROVE  pessoas' \in [Pessoa -> PessoaLinha]
    BY <2>1, <2>3 DEF PessoaLinha
  <2>4. ASSUME pessoas' = [pessoas EXCEPT ![p].aprovada = ~@]
        PROVE  pessoas' \in [Pessoa -> PessoaLinha]
    BY <2>1, <2>4 DEF PessoaLinha
  <2>5. ASSUME pessoas' = [pessoas EXCEPT ![p].morador = ~@]
        PROVE  pessoas' \in [Pessoa -> PessoaLinha]
    BY <2>1, <2>5 DEF PessoaLinha
  <2> QED BY <1>3, <1>m, <2>1, <2>2, <2>3, <2>4, <2>5 DEF AlterarPessoa, AlterarAcesso, AlterarPerfil
<1>4. ASSUME Mudar, Passar PROVE AcervoTypeOK' /\ encomendas' = encomendas
  BY <1>4, <1>m DEF Passar
<1>5. CASE AcervoNext
  BY <1>1, <1>2, <1>3, <1>5, NuloNaoEhLinha DEF AcervoNext
<1>6. CASE AcessoNext
  BY <1>3, <1>4, <1>6 DEF AcessoNext
<1> QED BY <1>5, <1>6

\* The code keeps its types: the one condominium of its parcels is one of the system.
LEMMA QrTipo ==
    ASSUME AcervoTypeOK, QrTypeOK, QrNext
    PROVE  QrTypeOK'
<1> USE DEF QrTypeOK
<1>1. CASE LerEncomendas
  BY <1>1 DEF LerEncomendas, AcervoTypeOK, Existe
<1>2. CASE AssinarCodigo
  <2> DEFINE cs == {lidas[e].condominio : e \in DOMAIN lidas}
  <2>1. UNCHANGED <<portador, lidas, aConferir, intacto>> /\ faseQr' \in {"assinado", "recusado"}
    BY <1>2 DEF AssinarCodigo
  <2>2. CASE Cardinality(cs) = 1
    <3>1. IsFiniteSet(DOMAIN lidas)
      BY TabelaFinita, FS_Subset
    <3>2. IsFiniteSet(cs)
      <4> DEFINE f == [e \in DOMAIN lidas |-> lidas[e].condominio]
      <4>1. f \in Surjection(DOMAIN lidas, cs)
        BY DEF Surjection
      <4> QED BY <3>1, <4>1, FS_Surjection
    <3>3. \E c : cs = {c}
      BY <2>2, <3>2, FS_Singleton
    <3>4. cs \subseteq Predios
      BY DEF EncomendaLinha
    <3>5. (CHOOSE c \in cs : TRUE) \in Predios
      BY <3>3, <3>4
    <3>6. relogio + Validade \in Nat
      BY ValidadeNatural DEF AcervoTypeOK
    <3>7. codigo' = [condominio |-> CHOOSE c \in cs : TRUE, expira |-> relogio + Validade]
      BY <1>2, <2>2 DEF AssinarCodigo
    <3> QED BY <2>1, <3>5, <3>6, <3>7
  <2>3. CASE Cardinality(cs) # 1
    BY <1>2, <2>1, <2>3 DEF AssinarCodigo
  <2> QED BY <2>2, <2>3
<1>3. CASE LerCodigo
  BY <1>3 DEF LerCodigo
<1>4. ASSUME NEW e \in Encomenda, ConferirAcesso(e) \/ EntregarPorCodigo(e) PROVE QrTypeOK'
  BY <1>4 DEF ConferirAcesso, EntregarPorCodigo
<1> QED BY <1>1, <1>2, <1>3, <1>4 DEF QrNext

\* The orders of a set of parcels: sequences that have each of them once.
LEMMA OrdensSaoEnumeracoes ==
    ASSUME NEW V \in SUBSET Encomenda, NEW s \in Ordens(V)
    PROVE  /\ Cardinality(V) \in Nat
           /\ s \in [1..Cardinality(V) -> V]
           /\ s \in Seq(Encomenda) /\ Len(s) = Cardinality(V) /\ DOMAIN s = 1..Cardinality(V)
           /\ \A i, j \in DOMAIN s : i # j => s[i] # s[j]
           /\ \A e \in V : \E i \in DOMAIN s : s[i] = e
<1>1. IsFiniteSet(V) /\ Cardinality(V) \in Nat
  BY TabelaFinita, FS_Subset, FS_CardinalityType
<1>2. /\ s \in [1..Cardinality(V) -> V]
      /\ \A i, j \in 1..Cardinality(V) : i # j => s[i] # s[j]
  BY DEF Ordens, SetToSeqs
<1>3. s \in Injection(1..Cardinality(V), V)
  BY <1>2, Fun_IsInj
<1>4. Cardinality(1..Cardinality(V)) = Cardinality(V)
  BY <1>1, FS_Interval
<1>5. s \in Surjection(1..Cardinality(V), V)
  BY <1>1, <1>3, <1>4, FS_Injection
<1>6. \A e \in V : \E i \in 1..Cardinality(V) : s[i] = e
  BY <1>5 DEF Surjection
<1>7. s \in Seq(Encomenda) /\ Len(s) = Cardinality(V)
  BY <1>1, <1>2
<1> QED BY <1>1, <1>2, <1>6, <1>7

\* The walk keeps its types.
LEMMA ListaTipo ==
    ASSUME AcervoTypeOK, ListaTypeOK, ListaNext
    PROVE  ListaTypeOK'
<1> USE DEF ListaTypeOK
<1>1. CASE Percorrer
  BY <1>1 DEF Percorrer, Visiveis, NoEscopo, Leitor
<1>2. CASE LerEscopo
  BY <1>2 DEF LerEscopo, AcervoTypeOK, PessoaLinha
<1>3. CASE Contar
  <2>1. Procuradas(escopo) \in SUBSET Encomenda
    BY DEF Procuradas, NoEscopo
  <2>2. Cardinality(Procuradas(escopo)) \in Nat
    BY <2>1, TabelaFinita, FS_Subset, FS_CardinalityType
  <2> QED BY <1>3, <2>2 DEF Contar
<1>4. CASE Selecionar
  <2> DEFINE de == Deslocamento(pagina)
             ate(s) == IF de + Tamanho < Len(s) THEN de + Tamanho ELSE Len(s)
  <2>1. PICK s \in Ordens(Procuradas(escopo)) : vistas' = vistas \o SubSeq(s, de + 1, ate(s))
    BY <1>4 DEF Selecionar
  <2>2. Procuradas(escopo) \in SUBSET Encomenda
    BY DEF Procuradas, NoEscopo
  <2>3. s \in Seq(Encomenda) /\ Len(s) \in Nat
    BY <2>2, OrdensSaoEnumeracoes
  <2>4. de \in Nat
    BY TamanhoNatural DEF Deslocamento
  <2>5. ate(s) \in Nat /\ ate(s) <= Len(s)
    BY <2>3, <2>4, TamanhoNatural
  <2>6. SubSeq(s, de + 1, ate(s)) \in Seq(Encomenda)
    BY <2>3, <2>4, <2>5
  <2>7. vistas' \in Seq(Encomenda)
    BY <2>1, <2>6
  <2>8. pagina' \in Nat \ {0} /\ fasePagina' \in {"pedida", "fim"}
    BY <1>4 DEF Selecionar
  <2> QED BY <1>4, <2>7, <2>8 DEF Selecionar
<1> QED BY <1>1, <1>2, <1>3, <1>4 DEF ListaNext

\* The note that is taken of a change keeps the types of the walk.
LEMMA AcompanharTipo ==
    ASSUME ListaTypeOK, Acompanhar
    PROVE  ListaTypeOK'
<1>1. CASE fasePagina \in {"pedida", "comEscopo", "contada"}
  BY <1>1 DEF Acompanhar, ListaTypeOK
<1>2. CASE fasePagina \notin {"pedida", "comEscopo", "contada"}
  BY <1>2 DEF Acompanhar, ListaTypeOK, listaVars
<1> QED BY <1>1, <1>2

\* What Acrescentar of one event leaves.
LEMMA AcrescentarUm ==
    ASSUME NEW s, NEW d, Acrescentar(<<<<s, d>>>>)
    PROVE  /\ inseridos' = inseridos + 1 /\ inseridos' <= MaxEventos
           /\ situacao' = s /\ ultimoMov' = agora
           /\ eventos' = eventos \cup
                 {[ordem |-> inseridos + 1, status |-> s, data |-> d, removido |-> FALSE]}
BY DEF Acrescentar

\* The same of the two events of a reception.
LEMMA AcrescentarDois ==
    ASSUME NEW s, NEW d, NEW z, NEW f, Acrescentar(<<<<s, d>>, <<z, f>>>>)
    PROVE  /\ inseridos' = inseridos + 2 /\ inseridos' <= MaxEventos
           /\ situacao' = z /\ ultimoMov' = agora
           /\ eventos' = eventos \cup
                 {[ordem |-> inseridos + 1, status |-> s, data |-> d, removido |-> FALSE],
                  [ordem |-> inseridos + 2, status |-> z, data |-> f, removido |-> FALSE]}
BY DEF Acrescentar

-----------------------------------------------------------------------------
(* The history of a parcel.                                                *)

\* An event is numbered in the order of its insertion, and none is dated more than a
\* minute after the last movement; while a parcel is only announced, none is dated after
\* it. A reception under way began after the announcement. And, while nothing was hurried,
\* the event inserted last has the status of the parcel and comes after all others.
HistInv ==
    /\ situacao = "nenhuma" => eventos = {}
    /\ situacao # "nenhuma" => ultimoMov \in Nat /\ ultimoMov <= agora
    /\ \A e \in eventos : e.ordem <= inseridos /\ e.data <= ultimoMov + Minuto
    /\ situacao = "prevista" => \A e \in eventos : e.data <= ultimoMov
    /\ recepcao # SemData => /\ situacao \in {"nenhuma", "prevista"}
                             /\ recepcao <= agora
                             /\ situacao = "prevista" => ultimoMov <= recepcao
    /\ ~apressada => \A e \in eventos : e.ordem = inseridos =>
          /\ e.status = situacao
          /\ \A f \in eventos : f.ordem < inseridos => f.data < e.data

\* The removal, the restoration or the deletion of an event.
LEMMA HistEdicao ==
    ASSUME HistTypeOK, HistInv, NEW e \in eventos,
           RemoverEvento(e) \/ RestaurarEvento(e) \/ ExcluirEvento(e)
    PROVE  HistTypeOK' /\ HistInv'
<1>1. UNCHANGED <<agora, situacao, inseridos, recepcao, ultimoMov, apressada>>
  BY DEF RemoverEvento, RestaurarEvento, ExcluirEvento, ManterParcela
<1>2. e \in Evento
  BY DEF HistTypeOK
<1>3. \A r \in BOOLEAN : /\ [e EXCEPT !.removido = r] \in Evento
                         /\ [e EXCEPT !.removido = r].ordem = e.ordem
                         /\ [e EXCEPT !.removido = r].data = e.data
                         /\ [e EXCEPT !.removido = r].status = e.status
  BY <1>2 DEF Evento
<1>4. \E r \in BOOLEAN : eventos' \subseteq eventos \cup {[e EXCEPT !.removido = r]}
  BY DEF RemoverEvento, RestaurarEvento, ExcluirEvento
<1>5. \A f \in eventos' : f \in Evento /\ \E g \in eventos :
          f.ordem = g.ordem /\ f.data = g.data /\ f.status = g.status
  BY <1>3, <1>4 DEF HistTypeOK
<1>6. HistTypeOK'
  BY <1>1, <1>5 DEF HistTypeOK
<1>7. situacao # "nenhuma"
  BY DEF HistInv
<1> QED BY <1>1, <1>5, <1>6, <1>7 DEF HistInv

\* Every step of the history keeps its types and its invariant.
LEMMA HistPasso ==
    ASSUME HistTypeOK, HistInv, HistNext
    PROVE  HistTypeOK' /\ HistInv'
<1>m. Minuto \in Nat /\ UltimoInstante \in Nat /\ MaxEventos \in Nat /\ SemData \notin Nat
  BY Tempos
<1>t. /\ agora \in Nat /\ inseridos \in Nat /\ apressada \in BOOLEAN
      /\ \A e \in eventos : e.ordem \in Nat /\ e.data \in Nat
  BY <1>m DEF HistTypeOK, Evento
<1>1. CASE Anunciar
  <2>0. PICK s \in {"prevista", "retirada"} : Acrescentar(<<<<s, agora>>>>)
    BY <1>1 DEF Anunciar
  <2>1. UNCHANGED <<agora, recepcao, apressada>> /\ Acrescentar(<<<<s, agora>>>>)
        /\ situacao = "nenhuma" /\ recepcao = SemData
    BY <1>1, <2>0 DEF Anunciar
  <2>2. eventos = {}
    BY <2>1 DEF HistInv
  <2> DEFINE n == [ordem |-> inseridos + 1, status |-> s, data |-> agora, removido |-> FALSE]
  <2>3. /\ inseridos' = inseridos + 1 /\ inseridos' <= MaxEventos
        /\ situacao' = s /\ ultimoMov' = agora /\ eventos' = {n}
    BY <2>1, <2>2, AcrescentarUm
  <2>4. n \in Evento
    BY <1>m, <1>t, <2>3 DEF Evento, Situacao
  <2>5. HistTypeOK'
    BY <1>m, <1>t, <2>1, <2>3, <2>4 DEF HistTypeOK, Situacao
  <2> QED BY <1>m, <1>t, <2>1, <2>3, <2>5 DEF HistInv
<1>2. CASE IniciarRecepcao
  BY <1>2, <1>m, <1>t DEF IniciarRecepcao, HistTypeOK, HistInv
<1>3. CASE ConcluirRecepcao
  <2> DEFINE d2 == recepcao + Minuto
             a == [ordem |-> inseridos + 1, status |-> "recebida", data |-> agora, removido |-> FALSE]
             b == [ordem |-> inseridos + 2, status |-> "aguardando", data |-> d2, removido |-> FALSE]
  <2>1. /\ recepcao # SemData /\ recepcao' = SemData /\ agora' = agora
        /\ apressada' = (apressada \/ agora >= recepcao + Minuto)
        /\ Acrescentar(<<<<"recebida", agora>>, <<"aguardando", d2>>>>)
    BY <1>3 DEF ConcluirRecepcao, DataSegundoEvento
  <2>2. /\ inseridos' = inseridos + 2 /\ inseridos' <= MaxEventos
        /\ situacao' = "aguardando" /\ ultimoMov' = agora /\ eventos' = eventos \cup {a, b}
    BY <2>1, AcrescentarDois, Zenon
  <2>3. recepcao \in Nat /\ recepcao <= agora /\ d2 \in Nat
    BY <1>m, <2>1 DEF HistTypeOK, HistInv
  <2>4. a \in Evento /\ b \in Evento
    BY <1>m, <1>t, <2>2, <2>3 DEF Evento, Situacao
  <2>b. apressada' \in BOOLEAN
    BY <2>1, Zenon
  <2>c. agora' \in 0..UltimoInstante /\ recepcao' \in Nat \cup {SemData}
    BY <2>1 DEF HistTypeOK
  <2>d. eventos' \subseteq Evento
    BY <2>2, <2>4 DEF HistTypeOK
  <2>e. inseridos' \in 0..MaxEventos /\ ultimoMov' \in Nat /\ situacao' \in Situacao
    BY <1>m, <1>t, <2>2 DEF Situacao
  <2>5. HistTypeOK'
    BY <2>b, <2>c, <2>d, <2>e DEF HistTypeOK
  <2>6. \A e \in eventos : e.ordem <= inseridos /\ e.data <= recepcao
    <3>1. CASE situacao = "nenhuma"
      BY <3>1 DEF HistInv
    <3>2. CASE situacao = "prevista"
      <4>1. ultimoMov \in Nat /\ ultimoMov <= recepcao
        BY <2>1, <3>2 DEF HistInv
      <4> QED BY <1>t, <2>3, <3>2, <4>1 DEF HistInv
    <3> QED BY <2>1, <3>1, <3>2 DEF HistInv
  <2>7. /\ a.ordem = inseridos + 1 /\ a.data = agora
        /\ b.ordem = inseridos + 2 /\ b.data = recepcao + Minuto /\ b.status = "aguardando"
    OBVIOUS
  <2> HIDE DEF a, b, d2
  <2>8. \A e \in eventos' : e.ordem <= inseridos' /\ e.data <= ultimoMov' + Minuto
    BY <1>m, <1>t, <2>2, <2>3, <2>6, <2>7
  <2>9. ASSUME ~apressada', NEW e \in eventos', e.ordem = inseridos'
        PROVE  e.status = situacao' /\ \A f \in eventos' : f.ordem < inseridos' => f.data < e.data
    <3>1. e = b
      BY <1>t, <2>2, <2>6, <2>7, <2>9
    <3>c. ~(agora >= recepcao + Minuto)
      BY <2>1, <2>9, Zenon
    <3>2. agora < recepcao + Minuto
      BY <1>t, <1>m, <2>3, <3>c
    <3>3. ASSUME NEW f \in eventos', f.ordem < inseridos' PROVE f.data < e.data
      <4>1. f \in eventos \/ f = a
        BY <1>t, <2>2, <2>7, <3>3
      <4> QED BY <1>t, <1>m, <2>3, <2>6, <2>7, <3>1, <3>2, <4>1
    <3> QED BY <2>2, <2>7, <3>1, <3>3
  <2> QED BY <1>t, <2>1, <2>2, <2>5, <2>8, <2>9 DEF HistInv
<1>4. CASE Movimentar
  <2>1. PICK s \in {"aguardando", "retirada", "cancelada"} : Acrescentar(<<<<s, agora>>>>)
    BY <1>4 DEF Movimentar
  <2>2. /\ situacao # "nenhuma" /\ recepcao = SemData /\ UNCHANGED <<agora, recepcao>>
        /\ apressada' = (apressada \/ agora <= ultimoMov + Minuto)
    BY <1>4 DEF Movimentar
  <2> DEFINE n == [ordem |-> inseridos + 1, status |-> s, data |-> agora, removido |-> FALSE]
  <2>3. /\ inseridos' = inseridos + 1 /\ inseridos' <= MaxEventos
        /\ situacao' = s /\ ultimoMov' = agora /\ eventos' = eventos \cup {n}
    BY <2>1, AcrescentarUm
  <2>4. n \in Evento
    BY <1>m, <1>t, <2>3 DEF Evento, Situacao
  <2>b. apressada' \in BOOLEAN
    BY <2>2, Zenon
  <2>c. agora' \in 0..UltimoInstante /\ recepcao' \in Nat \cup {SemData}
    BY <2>2 DEF HistTypeOK
  <2>d. eventos' \subseteq Evento
    BY <2>3, <2>4 DEF HistTypeOK
  <2>e. inseridos' \in 0..MaxEventos /\ ultimoMov' \in Nat /\ situacao' \in Situacao
    BY <1>m, <1>t, <2>3 DEF Situacao
  <2>5. HistTypeOK'
    BY <2>b, <2>c, <2>d, <2>e DEF HistTypeOK
  <2>6. n.ordem = inseridos + 1 /\ n.data = agora /\ n.status = s
    OBVIOUS
  <2> HIDE DEF n
  <2>7. ultimoMov \in Nat /\ ultimoMov <= agora
    BY <2>2 DEF HistInv
  <2>8. \A e \in eventos : e.ordem <= inseridos /\ e.data <= ultimoMov + Minuto
    BY DEF HistInv
  <2>9. \A e \in eventos' : e.ordem <= inseridos' /\ e.data <= ultimoMov' + Minuto
    BY <1>m, <1>t, <2>3, <2>6, <2>7, <2>8
  <2>10. ASSUME ~apressada', NEW e \in eventos', e.ordem = inseridos'
         PROVE  e.status = situacao' /\ \A f \in eventos' : f.ordem < inseridos' => f.data < e.data
    <3>1. e = n
      BY <1>t, <2>3, <2>6, <2>8, <2>10
    <3>c. ~(agora <= ultimoMov + Minuto)
      BY <2>2, <2>10, Zenon
    <3>2. agora > ultimoMov + Minuto
      BY <1>t, <1>m, <2>7, <3>c
    <3>3. ASSUME NEW f \in eventos', f.ordem < inseridos' PROVE f.data < e.data
      <4>1. f \in eventos
        BY <1>t, <2>3, <2>6, <3>3
      <4> QED BY <1>t, <1>m, <2>6, <2>7, <2>8, <3>1, <3>2, <4>1
    <3> QED BY <2>3, <2>6, <3>1, <3>3
  <2> QED BY <1>t, <2>2, <2>3, <2>5, <2>9, <2>10 DEF HistInv
<1>5. CASE CorrerTempo
  BY <1>5, <1>m, <1>t DEF CorrerTempo, HistTypeOK, HistInv
<1>6. CASE \E e \in eventos : RemoverEvento(e) \/ RestaurarEvento(e) \/ ExcluirEvento(e)
  BY <1>6, HistEdicao
<1> QED BY <1>1, <1>2, <1>3, <1>4, <1>5, <1>6 DEF HistNext

\* What the history then tells.
LEMMA HistConta ==
    ASSUME HistTypeOK, HistInv
    PROVE  HistoriaContaOStatus
<1> SUFFICES ASSUME ~apressada, NEW u \in Listados, u.ordem = inseridos, NEW e \in MaisRecentes
             PROVE  e.status = situacao
  BY DEF HistoriaContaOStatus
<1>1. u \in eventos /\ e \in eventos /\ u.data <= e.data
  BY DEF Listados, MaisRecentes
<1>2. /\ e.ordem \in Nat /\ inseridos \in Nat /\ e.ordem <= inseridos
      /\ e.data \in Nat /\ u.data \in Nat
  BY <1>1 DEF HistTypeOK, HistInv, Evento
<1>3. e.ordem = inseridos
  BY <1>1, <1>2 DEF HistInv
<1> QED BY <1>1, <1>3 DEF HistInv

-----------------------------------------------------------------------------
(* The codes, and the rules that agree.                                    *)

\* While no row has changed since they were read, the parcels of a code are as they were
\* read, and the right to those already judged still stands; the parcels of a code that
\* was signed were all judged, and are of its condominium.
QrInv ==
    /\ faseQr \in {"conferindo", "assinado"} => portador \in Pessoa
    /\ faseQr \in {"conferindo", "assinado"} /\ intacto =>
          /\ ~pessoas[portador].removida
          /\ \A e \in DOMAIN lidas :
                /\ encomendas[e] = lidas[e] /\ Existe(e)
                /\ e \notin aConferir => AssertQrCodeAccess(portador, lidas[e])
    /\ faseQr = "assinado" =>
          aConferir = {} /\ \A e \in DOMAIN lidas : lidas[e].condominio = codigo.condominio

\* A change of the world keeps it.
LEMMA QrMundo ==
    ASSUME QrInv, UNCHANGED <<faseQr, portador, lidas, aConferir, codigo>>,
           intacto' => intacto /\ (faseQr = "nenhum" \/ (encomendas' = encomendas /\ pessoas' = pessoas))
    PROVE  QrInv'
<1>1. CASE faseQr \in {"conferindo", "assinado"} /\ intacto'
  BY <1>1 DEF QrInv, Existe, AssertQrCodeAccess, Vinculado
<1> QED BY <1>1 DEF QrInv

\* Every step of the code keeps it.
LEMMA QrPasso ==
    ASSUME AcervoTypeOK, QrTypeOK, QrInv, QrNext, UNCHANGED acervo
    PROVE  QrInv'
<1> USE DEF acervo
<1>1. CASE LerEncomendas
  BY <1>1 DEF LerEncomendas, QrInv, Existe
<1>2. CASE AssinarCodigo
  <2> DEFINE cs == {lidas[e].condominio : e \in DOMAIN lidas}
  <2>1. /\ UNCHANGED <<portador, lidas, aConferir, intacto>>
        /\ faseQr = "conferindo" /\ aConferir = {} /\ faseQr' \in {"assinado", "recusado"}
    BY <1>2 DEF AssinarCodigo
  <2>2. ASSUME faseQr' = "assinado", NEW e \in DOMAIN lidas
        PROVE  lidas[e].condominio = codigo'.condominio
    <3>1. Cardinality(cs) = 1 /\ codigo' = [condominio |-> CHOOSE c \in cs : TRUE, expira |-> relogio + Validade]
      BY <1>2, <2>2 DEF AssinarCodigo
    <3>2. IsFiniteSet(DOMAIN lidas)
      BY TabelaFinita, FS_Subset DEF QrTypeOK
    <3>3. IsFiniteSet(cs)
      <4> DEFINE f == [x \in DOMAIN lidas |-> lidas[x].condominio]
      <4>1. f \in Surjection(DOMAIN lidas, cs)
        BY DEF Surjection
      <4> QED BY <3>2, <4>1, FS_Surjection
    <3>4. \E c : cs = {c}
      BY <3>1, <3>3, FS_Singleton
    <3>5. lidas[e].condominio \in cs
      OBVIOUS
    <3>6. lidas[e].condominio = CHOOSE c \in cs : TRUE
      BY <3>4, <3>5
    <3> QED BY <3>1, <3>6
  <2>3. ASSUME intacto, NEW e \in DOMAIN lidas
        PROVE  encomendas[e] = lidas[e] /\ Existe(e) /\ AssertQrCodeAccess(portador, lidas[e])
    BY <2>1, <2>3 DEF QrInv
  <2> QED BY <2>1, <2>2, <2>3 DEF QrInv, Existe, AssertQrCodeAccess, Vinculado
<1>3. CASE LerCodigo
  BY <1>3 DEF LerCodigo, QrInv
<1>4. ASSUME NEW e \in Encomenda, ConferirAcesso(e) PROVE QrInv'
  <2>1. CASE AssertQrCodeAccess(portador, lidas[e])
    BY <1>4, <2>1 DEF ConferirAcesso, QrInv, Existe, AssertQrCodeAccess, Vinculado
  <2>2. CASE ~AssertQrCodeAccess(portador, lidas[e])
    BY <1>4, <2>2 DEF ConferirAcesso, QrInv
  <2> QED BY <2>1, <2>2
<1>5. ASSUME NEW e \in Encomenda, EntregarPorCodigo(e) PROVE QrInv'
  BY <1>5 DEF EntregarPorCodigo, QrInv
<1> QED BY <1>1, <1>2, <1>3, <1>4, <1>5 DEF QrNext

\* A code whose rows stand is accepted, and what it leads to is accepted.
LEMMA CodigosAcertam ==
    ASSUME QrInv
    PROVE  CodigosConcordam
BY DEF QrInv, CodigosConcordam, LeituraAceita, EntregaAceita, CodigoValido, AssertQrCodeAccess,
       Vinculado, Existe

\* The rules of the lists of parcels and events agree in every world.
LEMMA ListasAcertam ==
    ASSUME AcervoTypeOK
    PROVE  ListasConcordam
<1> SUFFICES ASSUME NEW l \in Leitor, l \in Pessoa => ~pessoas[l].removida
             PROVE  /\ Visiveis(l) = {e \in Encomenda : Existe(e) /\ AssertReadAccess(l, encomendas[e])}
                    /\ Proprias(l) = {e \in Encomenda : Existe(e) /\ AssertWriteAccess(l, encomendas[e])}
                    /\ EventosListados(l) = {e \in ComEventos : AbreEvento(l, e)}
                    /\ l \in Pessoa => {e \in EventosFiltrados(l) : Existe(e)} = Visiveis(l)
  BY DEF ListasConcordam
<1>1. \A e \in ComEventos : AbreEvento(l, e) <=> (l \in Pessoa => encomendas[e].titular = l)
  BY DEF AbreEvento
<1>2. \A e \in Encomenda : Existe(e) => e \in ComEventos
  BY DEF Existe, ComEventos
<1>3. CASE l = "super"
  <2>1. l \notin Pessoa /\ l # "portaria"
    BY <1>3, PerfilNaoEhPessoa
  <2> QED BY <1>1, <1>3, <2>1 DEF Visiveis, NoEscopo, AssertReadAccess, Proprias, AssertWriteAccess, EventosListados
<1>4. CASE l = "portaria"
  <2>1. l \notin Pessoa /\ l # "super"
    BY <1>4, PerfilNaoEhPessoa
  <2> QED BY <1>1, <1>4, <2>1 DEF Visiveis, NoEscopo, AssertReadAccess, Proprias, AssertWriteAccess, EventosListados
<1>5. CASE l \in Pessoa
  <2>1. l # "portaria" /\ l # "super"
    BY <1>5, PerfilNaoEhPessoa
  <2>2. Visiveis(l) = {e \in Encomenda : Existe(e) /\
            (\/ encomendas[e].titular = l
             \/ encomendas[e].unidade = pessoas[l].unidade /\ encomendas[e].restricao = "unidade")}
    BY <1>5, <2>1 DEF Visiveis, NoEscopo
  <2>3. Visiveis(l) = {e \in Encomenda : Existe(e) /\ AssertReadAccess(l, encomendas[e])}
    BY <1>5, <2>1, <2>2 DEF AssertReadAccess
  <2>4. Proprias(l) = {e \in Encomenda : Existe(e) /\ AssertWriteAccess(l, encomendas[e])}
    BY <1>5, <2>1 DEF Proprias, AssertWriteAccess
  <2>5. {e \in EventosFiltrados(l) : Existe(e)} = Visiveis(l)
    BY <1>2, <1>5, <2>2 DEF EventosFiltrados, ComEventos
  <2> QED BY <1>1, <1>5, <2>3, <2>4, <2>5 DEF EventosListados
<1> QED BY <1>3, <1>4, <1>5 DEF Leitor

\* So do the rules of the lists of moradores.
LEMMA MoradoresAcertam == MoradoresConcordam
BY DEF MoradoresConcordam, FindMoradores, FindMoradoresPendentes, FindAll, FindRemoved, NoCondominio,
       RegistroAceito, AbreUsuario

-----------------------------------------------------------------------------
(* The walk over the pages.                                                *)

\* The offset of the next page, and a number of pages that covers all the rows counted.
LEMMA PaginasCobrem ==
    /\ \A p \in Nat \ {0} : /\ Deslocamento(p) \in Nat
                            /\ Deslocamento(p + 1) = Deslocamento(p) + Tamanho
    /\ \A p \in Nat \ {0}, n \in Nat : Paginas(n) <= p => n <= Deslocamento(p) + Tamanho
<1>t. Tamanho \in Nat /\ Tamanho >= 1
  BY TamanhoNatural
<1>1. ASSUME NEW p \in Nat \ {0}
      PROVE  /\ Deslocamento(p) \in Nat /\ Deslocamento(p + 1) = Deslocamento(p) + Tamanho
             /\ Deslocamento(p) + Tamanho = p * Tamanho
  <2>1. p - 1 \in Nat /\ (p + 1) - 1 = p
    OBVIOUS
  <2>2. (p - 1) * Tamanho \in Nat
    BY <1>t, <2>1
  <2>3. p * Tamanho = (p - 1) * Tamanho + Tamanho
    BY <1>t
  <2> QED BY <1>t, <2>1, <2>2, <2>3 DEF Deslocamento
<1>2. ASSUME NEW p \in Nat \ {0}, NEW n \in Nat, Paginas(n) <= p
      PROVE  n <= Deslocamento(p) + Tamanho
  <2>1. CASE n = 0
    BY <1>t, <1>1, <2>1
  <2>2. CASE n # 0
    <3> DEFINE q == (n + Tamanho - 1) \div Tamanho
               r == (n + Tamanho - 1) % Tamanho
    <3>1. q <= p
      BY <1>2, <2>2 DEF Paginas
    <3>2. q \in Int /\ r \in Int /\ r < Tamanho /\ n + Tamanho - 1 = Tamanho * q + r
      BY <1>t
    <3> HIDE DEF q, r
    <3>3. n <= Tamanho * q
      BY <1>t, <3>2
    <3>4. Tamanho * q <= Tamanho * p
      BY <1>t, <3>1, <3>2
    <3>5. n <= Tamanho * p
      BY <1>t, <3>2, <3>3, <3>4
    <3> QED BY <1>t, <1>1, <3>5
  <2> QED BY <2>1, <2>2
<1> QED BY <1>1, <1>2

\* How many parcels the reader sees up to e in the order of the list.
Antes(e) == {x \in AVista : encomendas[x].criada >= encomendas[e].criada}
Posicao(e) == Cardinality(Antes(e))

\* Positions count from one.
LEMMA PosicaoNatural ==
    ASSUME AcervoTypeOK, NEW e \in AVista
    PROVE  Posicao(e) \in Nat \ {0} /\ IsFiniteSet(Antes(e))
<1>1. Antes(e) \in SUBSET Encomenda /\ e \in Antes(e)
  BY DEF Antes, AVista, Visiveis, NoEscopo, Existe, AcervoTypeOK, EncomendaLinha
<1>2. IsFiniteSet(Antes(e)) /\ Cardinality(Antes(e)) \in Nat
  BY <1>1, TabelaFinita, FS_Subset, FS_CardinalityType
<1>3. Cardinality(Antes(e)) # 0
  BY <1>1, <1>2, FS_EmptySet
<1> QED BY <1>2, <1>3 DEF Posicao

\* Without equal dates the database has one order, and each parcel its place in it.
LEMMA PosicaoNaOrdem ==
    ASSUME AcervoTypeOK, DatasDistintas, NEW s \in Ordens(AVista), NEW i \in DOMAIN s
    PROVE  Posicao(s[i]) = i
<1>1. AVista \in SUBSET Encomenda
  BY DEF AVista, Visiveis, NoEscopo
<1>2. /\ Cardinality(AVista) \in Nat /\ DOMAIN s = 1..Cardinality(AVista)
      /\ s \in [1..Cardinality(AVista) -> AVista]
      /\ \A j, k \in DOMAIN s : j # k => s[j] # s[k]
      /\ \A e \in AVista : \E j \in DOMAIN s : s[j] = e
  BY <1>1, OrdensSaoEnumeracoes
<1>3. i \in Nat /\ 1..i \subseteq DOMAIN s
  BY <1>2
<1>4. \A j \in DOMAIN s : encomendas[s[j]].criada \in Nat /\ encomendas[s[j]] # Nulo /\ s[j] \in Encomenda
  BY <1>1, <1>2 DEF AVista, Visiveis, NoEscopo, Existe, AcervoTypeOK, EncomendaLinha
<1>5. \A j, k \in DOMAIN s : j < k => encomendas[s[j]].criada >= encomendas[s[k]].criada
  BY DEF Ordens
<1>6. \A j \in DOMAIN s : s[j] \in Antes(s[i]) <=> j <= i
  <2> TAKE j \in DOMAIN s
  <2>1. CASE j < i
    BY <1>2, <1>5, <2>1 DEF Antes
  <2>2. CASE j = i
    BY <1>2, <1>4, <2>2 DEF Antes
  <2>3. CASE j > i
    <3>1. encomendas[s[i]].criada >= encomendas[s[j]].criada
      BY <1>2, <1>5, <2>3
    <3>2. encomendas[s[i]].criada # encomendas[s[j]].criada
      BY <1>2, <1>4, <2>3 DEF DatasDistintas
    <3> QED BY <1>2, <1>4, <2>3, <3>1, <3>2 DEF Antes
  <2> QED BY <1>2, <2>1, <2>2, <2>3
<1> DEFINE f == [j \in 1..i |-> s[j]]
<1>7. f \in [1..i -> Antes(s[i])] /\ \A j, k \in 1..i : f[j] = f[k] => j = k
  BY <1>2, <1>3, <1>6
<1>8. \A e \in Antes(s[i]) : \E j \in 1..i : f[j] = e
  <2> TAKE e \in Antes(s[i])
  <2>1. PICK j \in DOMAIN s : s[j] = e
    BY <1>2 DEF Antes
  <2>2. j \in 1..i
    BY <1>2, <1>6, <2>1
  <2> QED BY <2>1, <2>2
<1>9. f \in Bijection(1..i, Antes(s[i]))
  BY <1>7, <1>8 DEF Bijection, Injection, Surjection, IsInjective
<1>10. ExistsBijection(1..i, Antes(s[i]))
  BY <1>9 DEF ExistsBijection
<1> QED BY <1>3, <1>10, FS_CountingElements DEF Posicao

\* Between the pages, and within one: what was shown and is still there lies before the
\* rows of the next page unless something came into view, and what was there at the start
\* and was not shown lies among them or after them unless something left. The scope of a
\* page is that of its reader, and its count covers what there is, unless they fell out
\* of step.
Caminhando == fasePagina \in {"pedida", "comEscopo", "contada"}
Mostrada(e) == \E i \in DOMAIN vistas : vistas[i] = e
EscopoCerto ==
    fasePagina \in {"comEscopo", "contada"} /\ ~desencontro =>
        escopo = IF leitor \in Pessoa THEN pessoas[leitor].unidade ELSE Nulo
ContagemCobre == fasePagina = "contada" /\ ~desencontro => Cardinality(AVista) <= total
SemSobra ==
    Caminhando /\ DatasDistintas /\ ~desencontro /\ ~entraram =>
        /\ SemRepeticao(vistas)
        /\ \A e \in AVista : Mostrada(e) => Posicao(e) <= Deslocamento(pagina)
SemFalta ==
    Caminhando /\ DatasDistintas /\ ~desencontro /\ ~sairam =>
        /\ noInicio \subseteq AVista
        /\ \A e \in noInicio : Mostrada(e) \/ Posicao(e) > Deslocamento(pagina)
ListaInv ==
    /\ fasePagina = "parada" => vistas = <<>> /\ pagina = 1
    /\ EscopoCerto /\ ContagemCobre /\ SemSobra /\ SemFalta
    /\ PercursoCompleto

\* What is in view is a set of parcels that exist, with dates.
LEMMA AVistaExiste ==
    ASSUME AcervoTypeOK
    PROVE  /\ AVista \in SUBSET Encomenda /\ IsFiniteSet(AVista) /\ Cardinality(AVista) \in Nat
           /\ \A e \in AVista : encomendas[e] # Nulo /\ encomendas[e].criada \in Nat
<1>1. AVista \in SUBSET Encomenda
  BY DEF AVista, Visiveis, NoEscopo
<1>2. \A e \in AVista : encomendas[e] # Nulo /\ encomendas[e].criada \in Nat
  BY <1>1 DEF AVista, Visiveis, NoEscopo, Existe, AcervoTypeOK, EncomendaLinha
<1> QED BY <1>1, <1>2, TabelaFinita, FS_Subset, FS_CardinalityType

\* A change of the world keeps it.
LEMMA ListaMundo ==
    ASSUME AcervoTypeOK, AcervoTypeOK', ListaTypeOK, ListaInv, Acompanhar,
           fasePagina \notin {"fim", "recusada"},
           \A e \in Encomenda : encomendas[e] # Nulo =>
              encomendas'[e] # Nulo /\ encomendas'[e].criada = encomendas[e].criada
    PROVE  ListaInv'
<1>1. CASE fasePagina = "parada"
  <2>1. UNCHANGED listaVars
    BY <1>1 DEF Acompanhar
  <2> QED BY <1>1, <2>1 DEF listaVars, ListaInv, EscopoCerto, ContagemCobre, SemSobra, SemFalta,
             Caminhando, PercursoCompleto
<1>2. CASE Caminhando
  <2>1. UNCHANGED <<fasePagina, leitor, filtro, pagina, escopo, total, vistas, noInicio>>
    BY <1>2 DEF Acompanhar, Caminhando
  <2> DEFINE chegam == AVista' \ AVista
  <2>2. /\ entraram' = (entraram \/ chegam # {})
        /\ sairam' = (sairam \/ ~(AVista \subseteq AVista'))
        /\ desencontro' = \/ desencontro
                          \/ fasePagina = "contada" /\ chegam # {}
                          \/ /\ fasePagina # "pedida" /\ leitor \in Pessoa
                             /\ pessoas'[leitor].unidade # escopo
    BY <1>2, Zenon DEF Acompanhar, Caminhando
  <2>3. ASSUME ~entraram' PROVE ~entraram /\ AVista' \subseteq AVista
    BY <2>2, <2>3, Zenon
  <2>4. ASSUME ~sairam' PROVE ~sairam /\ AVista \subseteq AVista'
    BY <2>2, <2>4, Zenon
  <2>5. ASSUME ~desencontro'
        PROVE  /\ ~desencontro /\ (fasePagina = "contada" => AVista' \subseteq AVista)
               /\ fasePagina # "pedida" /\ leitor \in Pessoa => pessoas'[leitor].unidade = escopo
    BY <2>2, <2>5, Zenon
  <2>6. DatasDistintas' => DatasDistintas
    BY DEF DatasDistintas
  <2>7. /\ AVista \in SUBSET Encomenda /\ IsFiniteSet(AVista) /\ Cardinality(AVista) \in Nat
        /\ \A e \in AVista : encomendas[e] # Nulo /\ encomendas[e].criada \in Nat
    BY AVistaExiste
  <2>8. /\ AVista' \in SUBSET Encomenda /\ IsFiniteSet(AVista') /\ Cardinality(AVista') \in Nat
        /\ \A e \in AVista' : encomendas'[e] # Nulo /\ encomendas'[e].criada \in Nat
    <3>1. AVista' \in SUBSET Encomenda
      BY DEF AVista, Visiveis, NoEscopo
    <3>2. \A e \in AVista' : encomendas'[e] # Nulo /\ encomendas'[e].criada \in Nat
      BY <3>1 DEF AVista, Visiveis, NoEscopo, Existe, AcervoTypeOK, EncomendaLinha
    <3> QED BY <3>1, <3>2, TabelaFinita, FS_Subset, FS_CardinalityType
  <2>9. \A e \in AVista \cap AVista' : /\ IsFiniteSet(Antes(e)) /\ IsFiniteSet(Antes(e)')
                                       /\ Posicao(e) \in Nat /\ Posicao(e)' \in Nat
    <3> TAKE e \in AVista \cap AVista'
    <3>1. Antes(e) \in SUBSET AVista /\ Antes(e)' \in SUBSET AVista'
      BY DEF Antes
    <3> QED BY <2>7, <2>8, <3>1, FS_Subset, FS_CardinalityType DEF Posicao
  <2>10. EscopoCerto'
    <3> SUFFICES ASSUME fasePagina' \in {"comEscopo", "contada"}, ~desencontro'
                 PROVE  escopo' = IF leitor' \in Pessoa THEN pessoas'[leitor'].unidade ELSE Nulo
      BY DEF EscopoCerto
    <3>1. fasePagina \in {"comEscopo", "contada"} /\ fasePagina # "pedida"
      BY <2>1
    <3> QED BY <2>1, <2>5, <3>1 DEF ListaInv, EscopoCerto
  <2>11. ContagemCobre'
    <3> SUFFICES ASSUME fasePagina' = "contada", ~desencontro'
                 PROVE  Cardinality(AVista') <= total'
      BY DEF ContagemCobre
    <3>1. AVista' \subseteq AVista /\ ~desencontro
      BY <2>1, <2>5
    <3>2. Cardinality(AVista) <= total
      BY <2>1, <3>1 DEF ListaInv, ContagemCobre
    <3>3. Cardinality(AVista') <= Cardinality(AVista)
      BY <2>7, <3>1, FS_Subset
    <3> QED BY <2>1, <2>7, <2>8, <3>2, <3>3 DEF ListaTypeOK
  <2>d. Deslocamento(pagina) \in Nat /\ Deslocamento(pagina)' = Deslocamento(pagina)
    BY <2>1, PaginasCobrem DEF ListaTypeOK, Deslocamento
  <2>12. SemSobra'
    <3> SUFFICES ASSUME DatasDistintas', ~desencontro', ~entraram'
                 PROVE  /\ SemRepeticao(vistas')
                        /\ \A e \in AVista' : Mostrada(e)' => Posicao(e)' <= Deslocamento(pagina)'
      BY DEF SemSobra, SemRepeticao
    <3>1. ~entraram /\ ~desencontro /\ DatasDistintas /\ AVista' \subseteq AVista
      BY <2>3, <2>5, <2>6
    <3>2. /\ SemRepeticao(vistas)
          /\ \A e \in AVista : Mostrada(e) => Posicao(e) <= Deslocamento(pagina)
      BY <1>2, <3>1 DEF ListaInv, SemSobra
    <3>3. \A e \in AVista' : Posicao(e)' <= Posicao(e)
      <4> TAKE e \in AVista'
      <4>1. Antes(e)' \subseteq Antes(e)
        BY <2>7, <2>8, <3>1 DEF Antes
      <4> QED BY <2>9, <3>1, <4>1, FS_Subset DEF Posicao
    <3>4. ASSUME NEW e \in AVista', Mostrada(e) PROVE Posicao(e)' <= Deslocamento(pagina)
      BY <2>9, <2>d, <3>1, <3>2, <3>3, <3>4
    <3>5. \A e : Mostrada(e)' <=> Mostrada(e)
      BY <2>1 DEF Mostrada
    <3> QED BY <2>1, <2>d, <3>2, <3>4, <3>5
  <2>13. SemFalta'
    <3> SUFFICES ASSUME DatasDistintas', ~desencontro', ~sairam'
                 PROVE  /\ noInicio' \subseteq AVista'
                        /\ \A e \in noInicio' : Mostrada(e)' \/ Posicao(e)' > Deslocamento(pagina)'
      BY DEF SemFalta
    <3>1. ~sairam /\ ~desencontro /\ DatasDistintas /\ AVista \subseteq AVista'
      BY <2>4, <2>5, <2>6
    <3>2. /\ noInicio \subseteq AVista
          /\ \A e \in noInicio : Mostrada(e) \/ Posicao(e) > Deslocamento(pagina)
      BY <1>2, <3>1 DEF ListaInv, SemFalta
    <3>3. \A e \in AVista : Posicao(e) <= Posicao(e)'
      <4> TAKE e \in AVista
      <4>1. Antes(e) \subseteq Antes(e)'
        BY <2>7, <2>8, <3>1 DEF Antes
      <4> QED BY <2>9, <3>1, <4>1, FS_Subset DEF Posicao
    <3>4. ASSUME NEW e \in noInicio PROVE Mostrada(e) \/ Posicao(e)' > Deslocamento(pagina)
      BY <2>9, <2>d, <3>1, <3>2, <3>3
    <3>5. \A e : Mostrada(e)' <=> Mostrada(e)
      BY <2>1 DEF Mostrada
    <3> QED BY <2>1, <2>d, <3>1, <3>2, <3>4, <3>5
  <2> QED BY <1>2, <2>1, <2>10, <2>11, <2>12, <2>13 DEF ListaInv, PercursoCompleto, Caminhando
<1> QED BY <1>1, <1>2 DEF ListaTypeOK, Caminhando

\* The rows of a page, and what is shown once they are added.
LEMMA PaginaMostrada ==
    ASSUME AcervoTypeOK, ListaTypeOK, Selecionar, Procuradas(escopo) = AVista
    PROVE  \E s \in Ordens(AVista) :
              LET de == Deslocamento(pagina)
                  k  == Len(vistas)
                  ate == IF de + Tamanho < Len(s) THEN de + Tamanho ELSE Len(s)
              IN  /\ vistas' \in Seq(Encomenda)
                  /\ DOMAIN vistas = 1..k /\ k \in Nat
                  /\ \A i \in DOMAIN vistas' :
                        \/ i \in 1..k /\ vistas'[i] = vistas[i]
                        \/ /\ i > k /\ de + (i - k) \in de + 1 .. ate
                           /\ de + (i - k) \in DOMAIN s
                           /\ vistas'[i] = s[de + (i - k)]
                  /\ \A i \in DOMAIN vistas : i \in DOMAIN vistas' /\ vistas'[i] = vistas[i]
                  /\ \A j \in DOMAIN s : j > de /\ j <= de + Tamanho =>
                        k + (j - de) \in DOMAIN vistas' /\ vistas'[k + (j - de)] = s[j]
<1> DEFINE de == Deslocamento(pagina)
           k  == Len(vistas)
           fim(s) == IF de + Tamanho < Len(s) THEN de + Tamanho ELSE Len(s)
<1>1. PICK s \in Ordens(AVista) : vistas' = vistas \o SubSeq(s, de + 1, fim(s))
  BY DEF Selecionar
<1>2. s \in Seq(Encomenda) /\ Len(s) \in Nat /\ DOMAIN s = 1..Len(s)
  BY AVistaExiste, OrdensSaoEnumeracoes
<1>3. de \in Nat /\ Tamanho \in Nat /\ k \in Nat /\ DOMAIN vistas = 1..k
  <2>1. pagina \in Nat \ {0} /\ vistas \in Seq(Encomenda)
    BY DEF ListaTypeOK
  <2>2. de \in Nat
    BY <2>1, PaginasCobrem
  <2> QED BY <2>1, <2>2, TamanhoNatural
<1> DEFINE ate == fim(s)
<1>4. ate \in Nat /\ ate <= Len(s) /\ ate <= de + Tamanho /\ (ate < Len(s) => ate = de + Tamanho)
  BY <1>2, <1>3
<1> DEFINE q == SubSeq(s, de + 1, ate)
<1> HIDE DEF ate, de
<1>5. q \in Seq(Encomenda)
  BY <1>2, <1>3, <1>4
<1>6. Len(q) = IF de + 1 <= ate THEN ate - de ELSE 0
  BY <1>2, <1>3, <1>4
<1>7. \A m \in 1..Len(q) : q[m] = s[de + m] /\ de + m \in DOMAIN s /\ de + m \in de + 1 .. ate
  <2> TAKE m \in 1..Len(q)
  <2>1. de + 1 <= ate /\ m \in 1..(ate - de)
    BY <1>3, <1>4, <1>6
  <2>2. q[m] = s[(de + 1) + m - 1]
    BY <1>2, <1>3, <1>4, <2>1
  <2> QED BY <1>2, <1>3, <1>4, <2>1, <2>2
<1>8. vistas' = vistas \o q
  BY <1>1 DEF ate
<1>9. vistas \in Seq(Encomenda)
  BY DEF ListaTypeOK
<1> HIDE DEF q
<1>10. /\ vistas' \in Seq(Encomenda) /\ DOMAIN vistas' = 1..(k + Len(q))
       /\ \A i \in 1..k : vistas'[i] = vistas[i]
       /\ \A m \in 1..Len(q) : vistas'[k + m] = q[m]
  BY <1>5, <1>8, <1>9
<1> HIDE DEF k
<1>11. Len(q) \in Nat
  BY <1>5
<1>12. ASSUME NEW i \in DOMAIN vistas'
       PROVE  \/ i \in 1..k /\ vistas'[i] = vistas[i]
              \/ /\ i > k /\ de + (i - k) \in de + 1 .. ate
                 /\ de + (i - k) \in DOMAIN s
                 /\ vistas'[i] = s[de + (i - k)]
  <2>1. CASE i <= k
    BY <1>3, <1>10, <1>11, <2>1
  <2>2. CASE i > k
    <3>1. i - k \in 1..Len(q) /\ k + (i - k) = i
      BY <1>3, <1>10, <1>11, <2>2
    <3>2. vistas'[i] = q[i - k]
      BY <1>10, <3>1
    <3> QED BY <1>7, <2>2, <3>1, <3>2
  <2> QED BY <1>3, <1>10, <1>11, <2>1, <2>2
<1>13. ASSUME NEW j \in DOMAIN s, j > de, j <= de + Tamanho
       PROVE  k + (j - de) \in DOMAIN vistas' /\ vistas'[k + (j - de)] = s[j]
  <2>1. j <= ate
    BY <1>2, <1>3, <1>4, <1>13
  <2>2. j - de \in 1..Len(q) /\ de + (j - de) = j
    BY <1>2, <1>3, <1>4, <1>6, <1>13, <2>1
  <2>3. q[j - de] = s[j] /\ vistas'[k + (j - de)] = q[j - de]
    BY <1>7, <1>10, <2>2
  <2>4. k + (j - de) \in 1..(k + Len(q))
    BY <1>3, <1>11, <2>2
  <2> QED BY <1>10, <2>3, <2>4
<1>14. \A i \in DOMAIN vistas : i \in DOMAIN vistas' /\ vistas'[i] = vistas[i]
  BY <1>3, <1>10, <1>11
<1> QED BY <1>3, <1>10, <1>12, <1>13, <1>14 DEF k, ate, de

\* The selection of a page keeps it: the rows it adds are those at the next positions.
LEMMA ListaSelecionar ==
    ASSUME AcervoTypeOK, ListaTypeOK, ListaInv, Selecionar, UNCHANGED acervo
    PROVE  ListaInv'
<1>1. /\ UNCHANGED <<leitor, filtro, escopo, total, noInicio, entraram, sairam, desencontro>>
      /\ UNCHANGED <<encomendas, pessoas>>
      /\ fasePagina = "contada" /\ fasePagina' \in {"pedida", "fim"}
      /\ fasePagina' = "pedida" => pagina' = pagina + 1
      /\ fasePagina' = "fim" => ~(pagina < Paginas(total))
  BY DEF Selecionar, acervo
<1>2. AVista' = AVista
  BY <1>1 DEF AVista, Visiveis, NoEscopo, Filtra, Existe
<1>3. \A e : Posicao(e)' = Posicao(e)
  BY <1>1, <1>2 DEF Posicao, Antes
<1>4. DatasDistintas' <=> DatasDistintas
  BY <1>1 DEF DatasDistintas
<1>5. CASE desencontro
  BY <1>1, <1>5 DEF ListaInv, EscopoCerto, ContagemCobre, SemSobra, SemFalta, PercursoCompleto
<1>6. CASE ~desencontro /\ ~DatasDistintas
  BY <1>1, <1>4, <1>6 DEF ListaInv, EscopoCerto, ContagemCobre, SemSobra, SemFalta, PercursoCompleto
<1>7. CASE ~desencontro /\ DatasDistintas
  <2>1. Procuradas(escopo) = AVista
    BY <1>1, <1>7 DEF ListaInv, EscopoCerto, Procuradas, AVista, Visiveis
  <2> DEFINE de == Deslocamento(pagina)
             k  == Len(vistas)
             fim(s) == IF de + Tamanho < Len(s) THEN de + Tamanho ELSE Len(s)
  <2>2. PICK s \in Ordens(AVista) :
            /\ vistas' \in Seq(Encomenda)
            /\ DOMAIN vistas = 1..k /\ k \in Nat
            /\ \A i \in DOMAIN vistas' :
                  \/ i \in 1..k /\ vistas'[i] = vistas[i]
                  \/ /\ i > k /\ de + (i - k) \in de + 1 .. fim(s)
                     /\ de + (i - k) \in DOMAIN s
                     /\ vistas'[i] = s[de + (i - k)]
            /\ \A i \in DOMAIN vistas : i \in DOMAIN vistas' /\ vistas'[i] = vistas[i]
            /\ \A j \in DOMAIN s : j > de /\ j <= de + Tamanho =>
                  k + (j - de) \in DOMAIN vistas' /\ vistas'[k + (j - de)] = s[j]
    BY <2>1, PaginaMostrada
  <2>3. /\ DOMAIN s = 1..Len(s) /\ Len(s) = Cardinality(AVista) /\ Len(s) \in Nat
        /\ \A i, j \in DOMAIN s : i # j => s[i] # s[j]
        /\ \A i \in DOMAIN s : s[i] \in AVista
        /\ \A e \in AVista : \E i \in DOMAIN s : s[i] = e
    BY AVistaExiste, OrdensSaoEnumeracoes
  <2>4. \A i \in DOMAIN s : Posicao(s[i]) = i
    BY <1>7, PosicaoNaOrdem
  <2>5. /\ de \in Nat /\ Tamanho \in Nat /\ pagina \in Nat \ {0} /\ total \in Nat
        /\ Deslocamento(pagina + 1) = de + Tamanho
        /\ Paginas(total) <= pagina => total <= de + Tamanho
    BY PaginasCobrem, TamanhoNatural DEF ListaTypeOK
  <2>6. DOMAIN vistas' \subseteq Nat
    BY <2>2
  <2> HIDE DEF de, k
  \* nothing twice
  <2>7. ASSUME ~entraram
        PROVE  /\ SemRepeticao(vistas)'
               /\ \A e \in AVista : Mostrada(e)' => Posicao(e) <= de + Tamanho
    <3>1. /\ SemRepeticao(vistas)
          /\ \A e \in AVista : Mostrada(e) => Posicao(e) <= de
      BY <1>1, <1>7, <2>7 DEF ListaInv, SemSobra, Caminhando, de
    <3>2. \A i \in DOMAIN vistas' :
             i \in 1..k => vistas'[i] = vistas[i] /\ (vistas[i] \in AVista => Posicao(vistas[i]) <= de)
      BY <2>2, <3>1 DEF Mostrada
    <3>3. \A i \in DOMAIN vistas' :
             i \notin 1..k => /\ i > k /\ de + (i - k) \in DOMAIN s /\ vistas'[i] = s[de + (i - k)]
                              /\ vistas'[i] \in AVista
                              /\ Posicao(vistas'[i]) = de + (i - k)
                              /\ de + (i - k) <= de + Tamanho
      <4> TAKE i \in DOMAIN vistas'
      <4> HAVE i \notin 1..k
      <4>1. i > k /\ de + (i - k) \in de + 1 .. fim(s) /\ de + (i - k) \in DOMAIN s
            /\ vistas'[i] = s[de + (i - k)]
        BY <2>2
      <4>2. fim(s) <= de + Tamanho
        BY <2>3, <2>5
      <4> QED BY <2>2, <2>3, <2>4, <2>5, <2>6, <4>1, <4>2
    <3>4. ASSUME NEW i \in DOMAIN vistas', NEW j \in DOMAIN vistas', i # j
          PROVE  vistas'[i] # vistas'[j]
      <4>1. CASE i \in 1..k /\ j \in 1..k
        BY <2>2, <3>1, <3>2, <3>4, <4>1 DEF SemRepeticao
      <4>2. CASE i \in 1..k /\ j \notin 1..k
        BY <2>2, <2>5, <2>6, <3>2, <3>3, <4>2
      <4>3. CASE i \notin 1..k /\ j \in 1..k
        BY <2>2, <2>5, <2>6, <3>2, <3>3, <4>3
      <4>4. CASE i \notin 1..k /\ j \notin 1..k
        <5>1. de + (i - k) # de + (j - k)
          BY <2>2, <2>5, <2>6, <3>4
        <5>2. Posicao(vistas'[i]) = de + (i - k) /\ Posicao(vistas'[j]) = de + (j - k)
          BY <3>3, <4>4
        <5> QED BY <5>1, <5>2
      <4> QED BY <4>1, <4>2, <4>3, <4>4
    <3>5. ASSUME NEW e \in AVista, Mostrada(e)' PROVE Posicao(e) <= de + Tamanho
      <4>1. PICK i \in DOMAIN vistas' : vistas'[i] = e
        BY <3>5 DEF Mostrada
      <4>2. CASE i \in 1..k
        <5>1. Posicao(e) <= de /\ Posicao(e) \in Nat
          BY <3>2, <3>5, <4>1, <4>2, PosicaoNatural
        <5> QED BY <2>5, <5>1
      <4>3. CASE i \notin 1..k
        BY <3>3, <4>1, <4>3
      <4> QED BY <4>2, <4>3
    <3> QED BY <3>4, <3>5 DEF SemRepeticao
  \* nothing missed
  <2>8. ASSUME ~sairam
        PROVE  /\ noInicio \subseteq AVista
               /\ \A e \in noInicio : Mostrada(e)' \/ Posicao(e) > de + Tamanho
    <3>1. /\ noInicio \subseteq AVista
          /\ \A e \in noInicio : Mostrada(e) \/ Posicao(e) > de
      BY <1>1, <1>7, <2>8 DEF ListaInv, SemFalta, Caminhando, de
    <3>2. ASSUME NEW e \in noInicio, ~(Posicao(e) > de + Tamanho) PROVE Mostrada(e)'
      <4>1. CASE Mostrada(e)
        BY <2>2, <4>1 DEF Mostrada
      <4>2. CASE ~Mostrada(e)
        <5>1. PICK j \in DOMAIN s : s[j] = e
          BY <2>3, <3>1
        <5>2. Posicao(e) = j /\ j \in Nat /\ j > de /\ j <= de + Tamanho
          BY <2>3, <2>4, <2>5, <3>1, <3>2, <4>2, <5>1
        <5>3. k + (j - de) \in DOMAIN vistas' /\ vistas'[k + (j - de)] = e
          BY <2>2, <5>1, <5>2
        <5> QED BY <5>3 DEF Mostrada
      <4> QED BY <4>1, <4>2
    <3> QED BY <3>1, <3>2
  <2>9. CASE fasePagina' = "pedida"
    <3>1. Deslocamento(pagina)' = de + Tamanho
      BY <1>1, <2>5, <2>9 DEF Deslocamento
    <3>2. SemSobra'
      BY <1>1, <1>2, <1>3, <2>7, <3>1 DEF SemSobra
    <3>3. SemFalta'
      BY <1>1, <1>2, <1>3, <2>8, <3>1 DEF SemFalta
    <3> QED BY <2>9, <3>2, <3>3 DEF ListaInv, EscopoCerto, ContagemCobre, PercursoCompleto
  <2>10. CASE fasePagina' = "fim"
    <3>1. total <= de + Tamanho
      <4>1. Paginas(total) \in Int
        BY <2>5, TamanhoNatural DEF Paginas
      <4> QED BY <1>1, <2>5, <2>10, <4>1
    <3>2. Cardinality(AVista) <= total
      BY <1>1, <1>7 DEF ListaInv, ContagemCobre
    <3>3. \A e \in AVista : Posicao(e) <= de + Tamanho /\ Posicao(e) \in Nat
      <4> TAKE e \in AVista
      <4>1. PICK j \in DOMAIN s : s[j] = e
        BY <2>3
      <4> QED BY <2>3, <2>4, <2>5, <3>1, <3>2, <4>1
    <3>4. ~sairam => \A e \in noInicio : Mostrada(e)'
      BY <2>5, <2>8, <3>3
    <3>5. PercursoCompleto'
      BY <1>1, <2>7, <3>4 DEF PercursoCompleto, Mostrada
    <3> QED BY <2>10, <3>5 DEF ListaInv, EscopoCerto, ContagemCobre, SemSobra, SemFalta, Caminhando
  <2> QED BY <1>1, <2>9, <2>10
<1> QED BY <1>5, <1>6, <1>7

\* Every step of the walk keeps it.
LEMMA ListaPasso ==
    ASSUME AcervoTypeOK, ListaTypeOK, ListaInv, ListaNext, UNCHANGED acervo
    PROVE  ListaInv'
<1>a. UNCHANGED <<encomendas, pessoas>>
  BY DEF acervo
<1>1. CASE Percorrer
  <2>1. PICK l \in Leitor, f \in Filtros :
            /\ leitor' = l /\ filtro' = f
            /\ noInicio' = {e \in Visiveis(l) : Filtra(f, e)}
    BY <1>1 DEF Percorrer
  <2>2. /\ fasePagina = "parada" /\ fasePagina' = "pedida"
        /\ UNCHANGED <<pagina, vistas>> /\ vistas = <<>> /\ pagina = 1
    BY <1>1 DEF Percorrer, ListaInv
  <2>3. noInicio' = AVista'
    BY <1>a, <2>1 DEF AVista, Visiveis, NoEscopo, Filtra, Existe
  <2>4. \A e \in AVista' : Posicao(e)' > Deslocamento(pagina)'
    <3> TAKE e \in AVista'
    <3>1. /\ e \in Encomenda /\ encomendas'[e] \in EncomendaLinha
      BY <1>a DEF AVista, Visiveis, NoEscopo, Existe, AcervoTypeOK
    <3>2. Antes(e)' \in SUBSET Encomenda /\ e \in Antes(e)'
      BY <3>1 DEF Antes, AVista, Visiveis, NoEscopo, EncomendaLinha
    <3>3. IsFiniteSet(Antes(e)') /\ Cardinality(Antes(e)') \in Nat
      BY <3>2, TabelaFinita, FS_Subset, FS_CardinalityType
    <3>4. Cardinality(Antes(e)') # 0
      BY <3>2, <3>3, FS_EmptySet
    <3>5. Deslocamento(pagina)' = 0
      BY <2>2, TamanhoNatural DEF Deslocamento
    <3> QED BY <3>3, <3>4, <3>5 DEF Posicao
  <2>5. \A e : ~Mostrada(e)'
    BY <2>2 DEF Mostrada
  <2>6. SemRepeticao(vistas)'
    BY <2>2 DEF SemRepeticao
  <2> QED BY <2>2, <2>3, <2>4, <2>5, <2>6 DEF ListaInv, EscopoCerto, ContagemCobre, SemSobra, SemFalta,
             PercursoCompleto
<1>2. CASE LerEscopo
  <2>1. /\ fasePagina = "pedida" /\ fasePagina' \in {"recusada", "comEscopo"}
        /\ UNCHANGED <<leitor, filtro, pagina, total, vistas, noInicio, entraram, sairam, desencontro>>
        /\ fasePagina' = "comEscopo" =>
              escopo' = IF leitor \in Pessoa THEN pessoas[leitor].unidade ELSE Nulo
    BY <1>2 DEF LerEscopo
  <2>2. AVista' = AVista
    BY <1>a, <2>1 DEF AVista, Visiveis, NoEscopo, Filtra, Existe
  <2>3. \A e : Posicao(e)' = Posicao(e) /\ (Mostrada(e)' <=> Mostrada(e))
    BY <1>a, <2>1, <2>2 DEF Posicao, Antes, Mostrada
  <2>4. DatasDistintas' <=> DatasDistintas
    BY <1>a DEF DatasDistintas
  <2>5. SemSobra' /\ SemFalta'
    BY <2>1, <2>2, <2>3, <2>4 DEF ListaInv, SemSobra, SemFalta, Caminhando, Deslocamento, SemRepeticao
  <2>6. EscopoCerto'
    BY <1>a, <2>1 DEF EscopoCerto
  <2> QED BY <2>1, <2>5, <2>6 DEF ListaInv, ContagemCobre, PercursoCompleto
<1>3. CASE Contar
  <2>1. /\ fasePagina = "comEscopo" /\ fasePagina' = "contada"
        /\ UNCHANGED <<leitor, filtro, pagina, escopo, vistas, noInicio, entraram, sairam, desencontro>>
        /\ total' = Cardinality(Procuradas(escopo))
    BY <1>3 DEF Contar
  <2>2. AVista' = AVista
    BY <1>a, <2>1 DEF AVista, Visiveis, NoEscopo, Filtra, Existe
  <2>3. \A e : Posicao(e)' = Posicao(e) /\ (Mostrada(e)' <=> Mostrada(e))
    BY <1>a, <2>1, <2>2 DEF Posicao, Antes, Mostrada
  <2>4. DatasDistintas' <=> DatasDistintas
    BY <1>a DEF DatasDistintas
  <2>5. SemSobra' /\ SemFalta'
    BY <2>1, <2>2, <2>3, <2>4 DEF ListaInv, SemSobra, SemFalta, Caminhando, Deslocamento, SemRepeticao
  <2>6. EscopoCerto'
    BY <1>a, <2>1 DEF ListaInv, EscopoCerto
  <2>7. ~desencontro => Procuradas(escopo) = AVista
    BY <2>1 DEF ListaInv, EscopoCerto, Procuradas, AVista, Visiveis
  <2>8. ContagemCobre'
    BY <2>1, <2>2, <2>7, AVistaExiste DEF ContagemCobre
  <2> QED BY <2>1, <2>5, <2>6, <2>8 DEF ListaInv, PercursoCompleto
<1>4. CASE Selecionar
  BY <1>4, ListaSelecionar
<1> QED BY <1>1, <1>2, <1>3, <1>4 DEF ListaNext

-----------------------------------------------------------------------------
(* The periods.                                                            *)

\* The days before year a, the leap days among them, and the days before its month k.
AntesDoAno(a) == 365 * a + (a + 3) \div 4
DiasAntes(k) ==
    CASE k = 0 -> 0    [] k = 1 -> 31   [] k = 2 -> 59   [] k = 3 -> 90
      [] k = 4 -> 120  [] k = 5 -> 151  [] k = 6 -> 181  [] k = 7 -> 212
      [] k = 8 -> 243  [] k = 9 -> 273  [] k = 10 -> 304 [] OTHER -> 334
Bissexto(a) == IF a % 4 = 0 THEN 1 ELSE 0
AntesDoMes(a, k) == DiasAntes(k) + (IF k > 1 THEN Bissexto(a) ELSE 0)
Dias(a, k) == IF k = 1 THEN 28 + Bissexto(a) ELSE IF k \in {3, 5, 8, 10} THEN 30 ELSE 31

\* The start and the length of month k of year a.
LEMMA MesDoAno ==
    ASSUME NEW a \in Nat, NEW k \in 0..11, NEW m, m = 12 * a + k
    PROVE  InicioDoMes(m) = AntesDoAno(a) + AntesDoMes(a, k) /\ DiasDoMes(m) = Dias(a, k)
<1>1. m \div 12 = a /\ m % 12 = k
  OBVIOUS
<1>2. InicioDoMes(m) = 365 * (m \div 12) + ((m \div 12) + 3) \div 4
          + (IF m % 12 > 1 /\ (m \div 12) % 4 = 0 THEN 1 ELSE 0) + DiasAntes(m % 12)
  BY DEF InicioDoMes, DiasAntes
<1>3. DiasAntes(k) \in Nat
  BY DEF DiasAntes
<1>4. InicioDoMes(m) = AntesDoAno(a) + AntesDoMes(a, k)
  BY <1>1, <1>2, <1>3 DEF AntesDoAno, AntesDoMes, Bissexto
<1>5. CASE k = 1
  BY <1>1, <1>4, <1>5 DEF DiasDoMes, Dias, Bissexto
<1>6. CASE k \in {3, 5, 8, 10}
  BY <1>1, <1>4, <1>6 DEF DiasDoMes, Dias
<1>7. CASE k # 1 /\ k \notin {3, 5, 8, 10}
  BY <1>1, <1>4, <1>7 DEF DiasDoMes, Dias
<1> QED BY <1>5, <1>6, <1>7

\* A year has 365 days, or one more.
LEMMA AnoSeguinte ==
    ASSUME NEW a \in Nat
    PROVE  /\ AntesDoAno(a) \in Nat /\ AntesDoAno(a) >= 12 * a
           /\ Bissexto(a) \in 0..1
           /\ AntesDoAno(a + 1) = AntesDoAno(a) + 365 + Bissexto(a)
           /\ \A b \in Nat : a < b => AntesDoAno(a) + 365 + Bissexto(a) <= AntesDoAno(b)
BY DEF AntesDoAno, Bissexto

\* The table of a year.
LEMMA TabelaDoAno ==
    /\ \A k \in 0..11 : DiasAntes(k) \in Nat /\ DiasAntes(k) >= k /\ DiasAntes(k) <= 334
    /\ \A k \in 0..10 : DiasAntes(k + 1) = DiasAntes(k) +
          (IF k = 1 THEN 28 ELSE IF k \in {3, 5, 8, 10} THEN 30 ELSE 31)
    /\ DiasAntes(0) = 0 /\ DiasAntes(11) = 334
    /\ \A j, k \in 0..11 : j < k => DiasAntes(j) <= DiasAntes(k)
<1> USE DEF DiasAntes
<1>1. \A k \in 0..11 : k = 0 \/ k = 1 \/ k = 2 \/ k = 3 \/ k = 4 \/ k = 5 \/ k = 6 \/ k = 7 \/ k = 8
                       \/ k = 9 \/ k = 10 \/ k = 11
  OBVIOUS
<1>2. /\ DiasAntes(0) = 0 /\ DiasAntes(1) = 31 /\ DiasAntes(2) = 59 /\ DiasAntes(3) = 90
      /\ DiasAntes(4) = 120 /\ DiasAntes(5) = 151 /\ DiasAntes(6) = 181 /\ DiasAntes(7) = 212
      /\ DiasAntes(8) = 243 /\ DiasAntes(9) = 273 /\ DiasAntes(10) = 304 /\ DiasAntes(11) = 334
  OBVIOUS
<1> HIDE DEF DiasAntes
<1> QED BY <1>1, <1>2

\* A number of months is a year and a month of it.
LEMMA AnoEMes ==
    ASSUME NEW m \in Nat
    PROVE  \E a \in Nat, k \in 0..11 : m = 12 * a + k
<1>1. m \div 12 \in Nat /\ m % 12 \in 0..11 /\ m = 12 * (m \div 12) + (m % 12)
  OBVIOUS
<1> QED BY <1>1

\* A month begins when the one before ends.
LEMMA MesSeguinte ==
    ASSUME NEW m \in Nat
    PROVE  /\ InicioDoMes(m) \in Nat /\ InicioDoMes(m) >= m
           /\ DiasDoMes(m) \in 28..31
           /\ InicioDoMes(m + 1) = InicioDoMes(m) + DiasDoMes(m)
<1>1. PICK a \in Nat, k \in 0..11 : m = 12 * a + k
  BY AnoEMes
<1>2. InicioDoMes(m) = AntesDoAno(a) + AntesDoMes(a, k) /\ DiasDoMes(m) = Dias(a, k)
  BY <1>1, MesDoAno
<1>3. /\ AntesDoAno(a) \in Nat /\ AntesDoAno(a) >= 12 * a /\ Bissexto(a) \in 0..1
      /\ AntesDoAno(a + 1) = AntesDoAno(a) + 365 + Bissexto(a)
  BY AnoSeguinte
<1>4. DiasAntes(k) \in Nat /\ DiasAntes(k) >= k /\ DiasAntes(0) = 0 /\ DiasAntes(11) = 334
  BY TabelaDoAno
<1>5. InicioDoMes(m) \in Nat /\ InicioDoMes(m) >= m /\ DiasDoMes(m) \in 28..31
  BY <1>1, <1>2, <1>3, <1>4 DEF AntesDoMes, Dias
<1>6. CASE k < 11
  <2>1. k + 1 \in 0..11 /\ m + 1 = 12 * a + (k + 1)
    BY <1>1, <1>6
  <2>2. InicioDoMes(m + 1) = AntesDoAno(a) + AntesDoMes(a, k + 1)
    BY <2>1, MesDoAno
  <2>3. DiasAntes(k + 1) = DiasAntes(k) + (IF k = 1 THEN 28 ELSE IF k \in {3, 5, 8, 10} THEN 30 ELSE 31)
    BY <1>6, TabelaDoAno
  <2>4. AntesDoMes(a, k + 1) = AntesDoMes(a, k) + Dias(a, k)
    BY <1>3, <1>4, <1>6, <2>3 DEF AntesDoMes, Dias
  <2>5. AntesDoMes(a, k) \in Nat /\ Dias(a, k) \in Nat
    BY <1>3, <1>4 DEF AntesDoMes, Dias
  <2> QED BY <1>2, <1>3, <1>5, <2>2, <2>4, <2>5
<1>7. CASE k = 11
  <2>1. m + 1 = 12 * (a + 1) + 0 /\ a + 1 \in Nat /\ 0 \in 0..11
    BY <1>1, <1>7
  <2>2. InicioDoMes(m + 1) = AntesDoAno(a + 1) + AntesDoMes(a + 1, 0)
    BY <2>1, MesDoAno
  <2>3. AntesDoMes(a + 1, 0) = 0 /\ AntesDoMes(a, k) = 334 + Bissexto(a) /\ Dias(a, k) = 31
    BY <1>3, <1>4, <1>7 DEF AntesDoMes, Dias
  <2> QED BY <1>2, <1>3, <1>5, <2>2, <2>3
<1> QED BY <1>5, <1>6, <1>7

\* Months begin in their order.
LEMMA MesesEmOrdem ==
    ASSUME NEW m \in Nat, NEW n \in Nat, m <= n
    PROVE  InicioDoMes(m) <= InicioDoMes(n)
<1>1. PICK a \in Nat, j \in 0..11 : m = 12 * a + j
  BY AnoEMes
<1>2. PICK b \in Nat, k \in 0..11 : n = 12 * b + k
  BY AnoEMes
<1>3. /\ InicioDoMes(m) = AntesDoAno(a) + AntesDoMes(a, j)
      /\ InicioDoMes(n) = AntesDoAno(b) + AntesDoMes(b, k)
  BY <1>1, <1>2, MesDoAno
<1>4. /\ DiasAntes(j) \in 0..334 /\ DiasAntes(k) \in 0..334
      /\ Bissexto(a) \in 0..1 /\ Bissexto(b) \in 0..1
      /\ AntesDoAno(a) \in Nat /\ AntesDoAno(b) \in Nat
  <2>1. DiasAntes(j) \in 0..334 /\ DiasAntes(k) \in 0..334
    BY TabelaDoAno
  <2>2. \A x \in Nat : Bissexto(x) \in 0..1 /\ AntesDoAno(x) \in Nat
    BY AnoSeguinte
  <2> QED BY <1>1, <1>2, <2>1, <2>2
<1>5. a < b \/ (a = b /\ j <= k)
  BY <1>1, <1>2
<1>6. CASE a < b
  <2>1. AntesDoAno(a) + 365 + Bissexto(a) <= AntesDoAno(b)
    BY <1>6, AnoSeguinte
  <2>2. AntesDoMes(a, j) <= 334 + Bissexto(a) /\ AntesDoMes(a, j) \in Nat /\ AntesDoMes(b, k) \in Nat
    BY <1>4 DEF AntesDoMes
  <2> QED BY <1>3, <1>4, <2>1, <2>2
<1>7. CASE a = b /\ j <= k
  <2>1. DiasAntes(j) <= DiasAntes(k)
    BY <1>7, TabelaDoAno
  <2> DEFINE z == Bissexto(a)
  <2>2. z \in 0..1 /\ AntesDoMes(a, j) = DiasAntes(j) + (IF j > 1 THEN z ELSE 0)
                  /\ AntesDoMes(b, k) = DiasAntes(k) + (IF k > 1 THEN z ELSE 0)
    BY <1>4, <1>7 DEF AntesDoMes
  <2> HIDE DEF z
  <2>3. AntesDoMes(a, j) <= AntesDoMes(b, k) /\ AntesDoMes(a, j) \in Nat /\ AntesDoMes(b, k) \in Nat
    <3>1. j <= k /\ (IF j > 1 THEN z ELSE 0) <= (IF k > 1 THEN z ELSE 0)
          /\ (IF j > 1 THEN z ELSE 0) \in 0..1 /\ (IF k > 1 THEN z ELSE 0) \in 0..1
      BY <1>7, <2>2
    <3> DEFINE zj == IF j > 1 THEN z ELSE 0
               zk == IF k > 1 THEN z ELSE 0
    <3>2. zj <= zk /\ zj \in 0..1 /\ zk \in 0..1 /\ AntesDoMes(a, j) = DiasAntes(j) + zj
          /\ AntesDoMes(b, k) = DiasAntes(k) + zk
      BY <2>2, <3>1
    <3> HIDE DEF zj, zk
    <3>3. DiasAntes(j) \in Nat /\ DiasAntes(k) \in Nat
      BY <1>4
    <3> QED BY <2>1, <3>2, <3>3
  <2> QED BY <1>3, <1>4, <1>7, <2>3
<1> QED BY <1>5, <1>6, <1>7

\* Every date is of one month.
LEMMA MesUnico ==
    ASSUME NEW d \in Nat, NEW m \in Nat, InicioDoMes(m) <= d, d < InicioDoMes(m + 1)
    PROVE  Mes(d) = m
<1>1. m \in 0..d
  BY MesSeguinte
<1>2. ASSUME NEW n \in 0..d, InicioDoMes(n) <= d, d < InicioDoMes(n + 1) PROVE n = m
  <2>1. InicioDoMes(m) \in Nat /\ InicioDoMes(n) \in Nat /\ InicioDoMes(m + 1) \in Nat /\ InicioDoMes(n + 1) \in Nat
    BY MesSeguinte
  <2>2. ~(n < m)
    <3>1. n < m => InicioDoMes(n + 1) <= InicioDoMes(m)
      BY <1>1, MesesEmOrdem
    <3> QED BY <2>1, <3>1, <1>2
  <2>3. ~(m < n)
    <3>1. m < n => InicioDoMes(m + 1) <= InicioDoMes(n)
      BY <1>1, MesesEmOrdem
    <3> QED BY <2>1, <3>1, <1>2
  <2> QED BY <2>2, <2>3
<1> QED BY <1>1, <1>2 DEF Mes

\* Every date is of a year, of which four together have 1461 days,
LEMMA AnoDaData ==
    ASSUME NEW d \in Nat
    PROVE  \E a \in Nat : AntesDoAno(a) <= d /\ d < AntesDoAno(a) + 365 + Bissexto(a)
<1> DEFINE q == d \div 1461
           r == d % 1461
<1>1. q \in Nat /\ r \in 0..1460 /\ d = 1461 * q + r
  OBVIOUS
<1> HIDE DEF q, r
<1>2. CASE r < 366
  <2>1. 4 * q \in Nat /\ (4 * q) % 4 = 0 /\ (4 * q + 3) \div 4 = q
    BY <1>1
  <2>2. AntesDoAno(4 * q) = 1461 * q /\ Bissexto(4 * q) = 1
    BY <1>1, <2>1 DEF AntesDoAno, Bissexto
  <2> QED BY <1>1, <1>2, <2>1, <2>2
<1>3. ASSUME NEW y \in 1..3, 365 * y + 1 <= r, r < 365 * y + 366
      PROVE  \E a \in Nat : AntesDoAno(a) <= d /\ d < AntesDoAno(a) + 365 + Bissexto(a)
  <2>1. 4 * q + y \in Nat /\ (4 * q + y) % 4 = y /\ (4 * q + y + 3) \div 4 = q + 1
    BY <1>1
  <2>2. AntesDoAno(4 * q + y) = 1461 * q + 365 * y + 1 /\ Bissexto(4 * q + y) = 0
    BY <1>1, <2>1 DEF AntesDoAno, Bissexto
  <2> QED BY <1>1, <1>3, <2>1, <2>2
<1>4. \E y \in 1..3 : r >= 366 => 365 * y + 1 <= r /\ r < 365 * y + 366
  <2>1. r >= 366 => \/ 365 * 1 + 1 <= r /\ r < 365 * 1 + 366
                    \/ 365 * 2 + 1 <= r /\ r < 365 * 2 + 366
                    \/ 365 * 3 + 1 <= r /\ r < 365 * 3 + 366
    BY <1>1
  <2> QED BY <2>1
<1> QED BY <1>1, <1>2, <1>3, <1>4

\* and of a month.
LEMMA MesDaData ==
    ASSUME NEW d \in Nat
    PROVE  \E m \in Nat : InicioDoMes(m) <= d /\ d < InicioDoMes(m + 1)
<1>1. PICK a \in Nat : AntesDoAno(a) <= d /\ d < AntesDoAno(a) + 365 + Bissexto(a)
  BY AnoDaData
<1>2. AntesDoAno(a) \in Nat /\ Bissexto(a) \in 0..1
  BY AnoSeguinte
<1> DEFINE x == d - AntesDoAno(a)
<1>3. x \in Nat /\ x < 365 + Bissexto(a)
  BY <1>1, <1>2
<1> HIDE DEF x
<1>4. /\ DiasAntes(0) = 0 /\ DiasAntes(1) = 31 /\ DiasAntes(2) = 59 /\ DiasAntes(3) = 90
      /\ DiasAntes(4) = 120 /\ DiasAntes(5) = 151 /\ DiasAntes(6) = 181 /\ DiasAntes(7) = 212
      /\ DiasAntes(8) = 243 /\ DiasAntes(9) = 273 /\ DiasAntes(10) = 304 /\ DiasAntes(11) = 334
  BY DEF DiasAntes
<1>5. \E k \in 0..11 : AntesDoMes(a, k) <= x /\ x < AntesDoMes(a, k) + Dias(a, k)
  <2> DEFINE b == Bissexto(a)
  <2>1. /\ AntesDoMes(a, 0) = 0 /\ AntesDoMes(a, 1) = 31 /\ AntesDoMes(a, 2) = 59 + b
        /\ AntesDoMes(a, 3) = 90 + b /\ AntesDoMes(a, 4) = 120 + b /\ AntesDoMes(a, 5) = 151 + b
        /\ AntesDoMes(a, 6) = 181 + b /\ AntesDoMes(a, 7) = 212 + b /\ AntesDoMes(a, 8) = 243 + b
        /\ AntesDoMes(a, 9) = 273 + b /\ AntesDoMes(a, 10) = 304 + b /\ AntesDoMes(a, 11) = 334 + b
    BY <1>2, <1>4 DEF AntesDoMes
  <2>2. /\ Dias(a, 0) = 31 /\ Dias(a, 1) = 28 + b /\ Dias(a, 2) = 31 /\ Dias(a, 3) = 30
        /\ Dias(a, 4) = 31 /\ Dias(a, 5) = 30 /\ Dias(a, 6) = 31 /\ Dias(a, 7) = 31
        /\ Dias(a, 8) = 30 /\ Dias(a, 9) = 31 /\ Dias(a, 10) = 30 /\ Dias(a, 11) = 31
    BY <1>2 DEF Dias
  <2>3. b \in 0..1 /\ x < 365 + b
    BY <1>2, <1>3
  <2> HIDE DEF b
  <2>4. CASE x < 59 + b
    BY <1>3, <2>1, <2>2, <2>3, <2>4
  <2>5. CASE 59 + b <= x /\ x < 151 + b
    BY <1>3, <2>1, <2>2, <2>3, <2>5
  <2>6. CASE 151 + b <= x /\ x < 243 + b
    BY <1>3, <2>1, <2>2, <2>3, <2>6
  <2>7. CASE 243 + b <= x
    BY <1>3, <2>1, <2>2, <2>3, <2>7
  <2> QED BY <1>3, <2>3, <2>4, <2>5, <2>6, <2>7
<1>6. PICK k \in 0..11 : AntesDoMes(a, k) <= x /\ x < AntesDoMes(a, k) + Dias(a, k)
  BY <1>5
<1> DEFINE m == 12 * a + k
<1>7. m \in Nat /\ m = 12 * a + k
  OBVIOUS
<1> HIDE DEF m
<1>8. InicioDoMes(m) = AntesDoAno(a) + AntesDoMes(a, k) /\ DiasDoMes(m) = Dias(a, k)
  BY <1>7, MesDoAno
<1>9. InicioDoMes(m) \in Nat /\ DiasDoMes(m) \in 28..31 /\ InicioDoMes(m + 1) = InicioDoMes(m) + DiasDoMes(m)
  BY <1>7, MesSeguinte
<1>10. AntesDoMes(a, k) \in Nat /\ d = AntesDoAno(a) + x
  <2>1. DiasAntes(k) \in Nat
    BY TabelaDoAno
  <2> QED BY <1>1, <1>2, <2>1 DEF AntesDoMes, x
<1>11. InicioDoMes(m) <= d /\ d < InicioDoMes(m + 1)
  BY <1>2, <1>3, <1>6, <1>8, <1>9, <1>10
<1> QED BY <1>7, <1>11

\* The periods of every date are right.
LEMMA PeriodosCertos ==
    ASSUME hoje \in Nat
    PROVE  PeriodoCerto
<1> DEFINE semana == ResolverSemanal(hoje)
           mes == ResolverMensal(hoje)
<1>1. ResolverDiario(hoje) = [inicio |-> hoje, fim |-> hoje]
  BY DEF ResolverDiario
<1>2. PICK m \in Nat : InicioDoMes(m) <= hoje /\ hoje < InicioDoMes(m + 1)
  BY MesDaData
<1>3. Mes(hoje) = m
  BY <1>2, MesUnico
<1>4. /\ InicioDoMes(m) \in Nat /\ DiasDoMes(m) \in 28..31
      /\ InicioDoMes(m + 1) = InicioDoMes(m) + DiasDoMes(m)
  BY MesSeguinte
<1>5. \A d : Mes(d) = m => ResolverMensal(d) = [inicio |-> InicioDoMes(m), fim |-> InicioDoMes(m + 1) - 1]
  BY <1>4 DEF ResolverMensal, Data
<1>6. mes.inicio = InicioDoMes(m) /\ mes.fim = InicioDoMes(m + 1) - 1
  BY <1>3, <1>5
<1>7. \A d \in mes.inicio..mes.fim : ResolverMensal(d) = mes /\ Mes(d) = Mes(hoje)
  <2> TAKE d \in mes.inicio..mes.fim
  <2>1. d \in Nat /\ InicioDoMes(m) <= d /\ d < InicioDoMes(m + 1)
    BY <1>4, <1>6
  <2>2. Mes(d) = m
    BY <2>1, MesUnico
  <2> QED BY <1>3, <1>5, <2>2
<1>8. hoje \in mes.inicio..mes.fim /\ mes.fim - mes.inicio + 1 = DiasDoMes(Mes(hoje))
  BY <1>2, <1>3, <1>4, <1>6
<1>9. \A d \in Int : \E k \in 0..6 :
          /\ DiaDaSemana(d) = k
          /\ ResolverSemanal(d) = [inicio |-> d - (IF k = 0 THEN 6 ELSE k - 1),
                                   fim |-> d - (IF k = 0 THEN 6 ELSE k - 1) + 6]
  <2> TAKE d \in Int
  <2>1. DiaDaSemana(d) \in 0..6
    BY DEF DiaDaSemana
  <2>2. d + (IF DiaDaSemana(d) = 0 THEN -6 ELSE 1 - DiaDaSemana(d))
            = d - (IF DiaDaSemana(d) = 0 THEN 6 ELSE DiaDaSemana(d) - 1)
    BY <2>1
  <2> QED BY <2>1, <2>2 DEF ResolverSemanal
<1>10. PICK k \in 0..6 :
          /\ DiaDaSemana(hoje) = k
          /\ semana = [inicio |-> hoje - (IF k = 0 THEN 6 ELSE k - 1),
                       fim |-> hoje - (IF k = 0 THEN 6 ELSE k - 1) + 6]
  BY <1>9
<1> DEFINE i == hoje - (IF k = 0 THEN 6 ELSE k - 1)
<1>11. /\ i \in Int /\ semana = [inicio |-> i, fim |-> i + 6]
       /\ i <= hoje /\ hoje <= i + 6 /\ i % 7 = 0
  BY <1>10 DEF DiaDaSemana
<1> HIDE DEF i
<1>12. DiaDaSemana(i) = 1
  BY <1>11 DEF DiaDaSemana
<1>13. \A d \in i..(i + 6) : ResolverSemanal(d) = [inicio |-> i, fim |-> i + 6]
  <2> TAKE d \in i..(i + 6)
  <2>1. PICK j \in 0..6 :
          /\ DiaDaSemana(d) = j
          /\ ResolverSemanal(d) = [inicio |-> d - (IF j = 0 THEN 6 ELSE j - 1),
                                   fim |-> d - (IF j = 0 THEN 6 ELSE j - 1) + 6]
    BY <1>9, <1>11
  <2>2. d - (IF j = 0 THEN 6 ELSE j - 1) = i
    BY <1>11, <2>1 DEF DiaDaSemana
  <2> QED BY <2>1, <2>2
<1> QED BY <1>1, <1>6, <1>7, <1>8, <1>11, <1>12, <1>13 DEF PeriodoCerto

-----------------------------------------------------------------------------
(* The numbers.                                                            *)

\* Counts by a key add up to the count of what has one of its values.
LEMMA SomaContagem ==
    ASSUME NEW D, NEW E, IsFiniteSet(E), NEW k, NEW f, DOMAIN f = D,
           \A x \in D : f[x] = Cardinality({e \in E : k[e] = x})
    PROVE  /\ Soma(f) \in Nat /\ Soma(f) <= Cardinality(E)
           /\ (\A e \in E : k[e] \in D) => Soma(f) = Cardinality(E)
<1> DEFINE P(x) == {e \in E : k[e] = x}
           F == {e \in E : k[e] \in D}
           B == [x \in D |-> CHOOSE b : b \in Bijection(1..f[x], P(x))]
           U == UNION {{x} \X (1..f[x]) : x \in DOMAIN f}
           g == [u \in U |-> B[u[1]][u[2]]]
<1>1. \A x \in D : f[x] \in Nat /\ B[x] \in Bijection(1..f[x], P(x))
  <2> TAKE x \in D
  <2>1. IsFiniteSet(P(x))
    BY FS_Subset
  <2>2. f[x] \in Nat /\ ExistsBijection(1..f[x], P(x))
    BY <2>1, FS_CardinalityType
  <2>3. \E b : b \in Bijection(1..f[x], P(x))
    BY <2>2 DEF ExistsBijection
  <2> QED BY <2>2, <2>3
<1>2. \A x \in D : /\ B[x] \in [1..f[x] -> P(x)]
                   /\ \A i, j \in 1..f[x] : B[x][i] = B[x][j] => i = j
                   /\ \A e \in P(x) : \E i \in 1..f[x] : B[x][i] = e
  <2> TAKE x \in D
  <2>1. B[x] \in Bijection(1..f[x], P(x))
    BY <1>1
  <2> HIDE DEF B, P
  <2> QED BY <2>1 DEF Bijection, Injection, Surjection, IsInjective
<1>3. \A u \in U : u[1] \in D /\ u[2] \in 1..f[u[1]] /\ u = <<u[1], u[2]>>
  OBVIOUS
<1>4. \A x \in D : \A i \in 1..f[x] : <<x, i>> \in U
  OBVIOUS
<1> HIDE DEF B, U
<1>5. \A u \in U : g[u] \in E /\ k[g[u]] = u[1] /\ g[u] \in F
  <2> TAKE u \in U
  <2>1. u[1] \in D /\ u[2] \in 1..f[u[1]] /\ g[u] = B[u[1]][u[2]]
    BY <1>3
  <2>2. B[u[1]][u[2]] \in P(u[1])
    <3> DEFINE Q == P(u[1])
    <3>1. B[u[1]] \in [1..f[u[1]] -> Q]
      BY <1>2, <2>1
    <3> HIDE DEF Q
    <3>2. B[u[1]][u[2]] \in Q
      BY <2>1, <3>1
    <3> QED BY <3>2 DEF Q
  <2> QED BY <2>1, <2>2
<1>6. \A u, v \in U : g[u] = g[v] => u = v
  <2> TAKE u, v \in U
  <2> HAVE g[u] = g[v]
  <2>1. u[1] = v[1]
    BY <1>5
  <2>2. u[2] = v[2]
    BY <1>2, <1>3, <2>1
  <2> QED BY <1>3, <2>1, <2>2
<1>7. \A e \in F : \E u \in U : g[u] = e
  <2> TAKE e \in F
  <2>1. k[e] \in D /\ e \in P(k[e])
    OBVIOUS
  <2>2. PICK i \in 1..f[k[e]] : B[k[e]][i] = e
    BY <1>2, <2>1
  <2>3. <<k[e], i>> \in U /\ g[<<k[e], i>>] = e
    BY <1>4, <2>1, <2>2
  <2> QED BY <2>3
<1>8. g \in Injection(U, F) /\ g \in Surjection(U, F)
  BY <1>5, <1>6, <1>7 DEF Injection, Surjection, IsInjective
<1>9. F \in SUBSET E /\ IsFiniteSet(F) /\ Cardinality(F) \in Nat /\ Cardinality(F) <= Cardinality(E)
  BY FS_Subset, FS_CardinalityType
<1>10. Cardinality(U) = Cardinality(F)
  BY <1>8, <1>9, FS_Injection
<1>11. Soma(f) = Cardinality(F)
  BY <1>10 DEF Soma, U
<1>12. (\A e \in E : k[e] \in D) => F = E
  OBVIOUS
<1> QED BY <1>9, <1>11, <1>12

\* Two sets that one element tells apart.
LEMMA UmElemento ==
    ASSUME NEW S, NEW T, IsFiniteSet(S), IsFiniteSet(T), NEW x, S \ {x} = T \ {x}
    PROVE  /\ Cardinality(S) \in Nat /\ Cardinality(T) \in Nat
           /\ Perto(Cardinality(S), Cardinality(T), 1)
<1>1. Cardinality(S) \in Nat /\ Cardinality(T) \in Nat
  BY FS_CardinalityType
<1>2. /\ Cardinality(S \ {x}) = IF x \in S THEN Cardinality(S) - 1 ELSE Cardinality(S)
      /\ Cardinality(T \ {x}) = IF x \in T THEN Cardinality(T) - 1 ELSE Cardinality(T)
  BY FS_RemoveElement
<1> QED BY <1>1, <1>2 DEF Perto

\* The rows that the queries count.
Ativos == {c \in ativas : PerfilDe[c] # "super"}
Guardadas == {e \in Encomenda : Guardada(e)}
NoPeriodo(campo, p) == {e \in Encomenda : Guardada(e) /\ Na(parcelas[e][campo], p)}

\* They are finite.
LEMMA ContagensFinitas ==
    ASSUME IndicesTypeOK
    PROVE  /\ IsFiniteSet(Ativos) /\ Cardinality(Ativos) \in Nat
           /\ IsFiniteSet(Guardadas) /\ Cardinality(Guardadas) \in Nat
           /\ \A campo, p : /\ IsFiniteSet(NoPeriodo(campo, p))
                            /\ Cardinality(NoPeriodo(campo, p)) \in Nat
<1>1. Ativos \in SUBSET Conta /\ Guardadas \in SUBSET Encomenda
  BY DEF IndicesTypeOK, Ativos, Guardadas
<1>2. \A campo, p : NoPeriodo(campo, p) \in SUBSET Encomenda
  BY DEF NoPeriodo
<1>3. \A S \in SUBSET Encomenda : IsFiniteSet(S) /\ Cardinality(S) \in Nat
  BY TabelaFinita, FS_Subset, FS_CardinalityType
<1>4. IsFiniteSet(Ativos) /\ Cardinality(Ativos) \in Nat
  BY <1>1, Perfis, FS_Subset, FS_CardinalityType
<1> QED BY <1>1, <1>2, <1>3, <1>4

\* The invariant of the numbers: what was collected was collected on a day up to today;
\* and each answer is as far from what it counts as it has been written since.
Entregues == \A e \in Encomenda : parcelas[e] # Nulo /\ parcelas[e].status = "retirada" =>
                parcelas[e].entregue \in 0..dia
Respondeu(q) == q \in DOMAIN respostas
ContasPerto ==
    /\ Respondeu("ativos") => /\ respostas["ativos"] \in Nat
                              /\ Perto(respostas["ativos"], Cardinality(Ativos), cadastros)
    /\ Respondeu("porPerfil") => /\ Soma(respostas["porPerfil"]) \in Nat
                                 /\ Perto(Soma(respostas["porPerfil"]), Cardinality(Ativos), cadastros)
    /\ Respondeu("ativos") /\ Respondeu("porPerfil") =>
          Perto(Soma(respostas["porPerfil"]), respostas["ativos"], cadastros)
ParcelasPerto ==
    /\ Respondeu("registradas") => /\ respostas["registradas"] \in Nat
                                   /\ Perto(respostas["registradas"], Cardinality(Guardadas), entradas)
    /\ Respondeu("porStatus") => /\ Soma(respostas["porStatus"]) \in Nat
                                 /\ Perto(Soma(respostas["porStatus"]), Cardinality(Guardadas), entradas)
    /\ Respondeu("registradas") /\ Respondeu("porStatus") =>
          Perto(Soma(respostas["porStatus"]), respostas["registradas"], entradas)
RankingPerto(contagem, ranking, campo) ==
    /\ Respondeu(contagem) => /\ respostas[contagem] \in Nat
                              /\ Cardinality(NoPeriodo(campo, pergunta)) <= respostas[contagem] + escritas
    /\ Respondeu(ranking) => /\ Soma(respostas[ranking]) \in Nat
                             /\ Soma(respostas[ranking]) <= Cardinality(NoPeriodo(campo, pergunta)) + escritas
    /\ Respondeu(contagem) /\ Respondeu(ranking) =>
          Soma(respostas[ranking]) <= respostas[contagem] + escritas
IndicesInv ==
    /\ Entregues
    /\ pergunta = Nulo => DOMAIN respostas = {}
    /\ pergunta # Nulo => DOMAIN respostas \subseteq Consultas(pergunta.tipo)
    /\ pergunta # Nulo /\ pergunta.tipo = "indices" => ContasPerto /\ ParcelasPerto
    /\ pergunta # Nulo /\ pergunta.tipo = "resumo" =>
          /\ RankingPerto("recebidas", "topRecebimentos", "recebida")
          /\ RankingPerto("retiradas", "topEntregas", "entregue")

\* What a change of the world does to the counts, once a query has been answered: none
\* moves by more than the changes noted.
PoucoMudou ==
    /\ cadastros <= cadastros' /\ entradas <= entradas' /\ escritas <= escritas'
    /\ Perto(Cardinality(Ativos'), Cardinality(Ativos), cadastros' - cadastros)
    /\ Perto(Cardinality(Guardadas'), Cardinality(Guardadas), entradas' - entradas)
    /\ \A campo, p : Perto(Cardinality(NoPeriodo(campo, p)'), Cardinality(NoPeriodo(campo, p)), escritas' - escritas)

\* The counts are finite after a step that keeps the types.
LEMMA ContagensFinitasDepois ==
    ASSUME IndicesTypeOK'
    PROVE  /\ IsFiniteSet(Ativos') /\ Cardinality(Ativos') \in Nat
           /\ IsFiniteSet(Guardadas') /\ Cardinality(Guardadas') \in Nat
           /\ \A campo, p : /\ IsFiniteSet(NoPeriodo(campo, p)')
                            /\ Cardinality(NoPeriodo(campo, p)') \in Nat
<1>1. Ativos' \in SUBSET Conta /\ Guardadas' \in SUBSET Encomenda
  BY DEF IndicesTypeOK, Ativos, Guardadas
<1>2. \A campo, p : NoPeriodo(campo, p)' \in SUBSET Encomenda
  BY DEF NoPeriodo
<1>3. \A S \in SUBSET Encomenda : IsFiniteSet(S) /\ Cardinality(S) \in Nat
  BY TabelaFinita, FS_Subset, FS_CardinalityType
<1>4. IsFiniteSet(Ativos') /\ Cardinality(Ativos') \in Nat
  BY <1>1, Perfis, FS_Subset, FS_CardinalityType
<1> QED BY <1>1, <1>2, <1>3, <1>4

\* A row that is written: of the row only its types matter, that a parcel that stays is
\* counted as before, and that a parcel collected has its day.
LEMMA EscritaVale ==
    ASSUME IndicesTypeOK, Entregues, UNCHANGED <<pergunta, respostas>>,
           NEW e \in Encomenda, NEW linha \in Parcela, NEW entra \in BOOLEAN,
           Escrever(e, linha, entra),
           ~entra => Guardada(e) /\ ~linha.removida,
           linha.status = "retirada" => linha.entregue \in 0..dia
    PROVE  IndicesTypeOK' /\ Entregues' /\ (respostas # <<>> => PoucoMudou)
<1>1. /\ parcelas' = [parcelas EXCEPT ![e] = linha]
      /\ escritas' = Desde(escritas) /\ entradas' = IF entra THEN Desde(entradas) ELSE entradas
      /\ UNCHANGED <<dia, ativas, cadastros>>
  BY DEF Escrever
<1>2. /\ parcelas' \in [Encomenda -> Parcela \cup {Nulo}]
      /\ parcelas'[e] = linha /\ linha # Nulo
      /\ \A f \in Encomenda \ {e} : parcelas'[f] = parcelas[f]
  BY <1>1, NuloForaDosIndices DEF IndicesTypeOK
<1>3. IndicesTypeOK'
  BY <1>1, <1>2 DEF IndicesTypeOK, Desde
<1>4. Entregues'
  BY <1>1, <1>2 DEF Entregues
<1>5. ASSUME respostas # <<>> PROVE PoucoMudou
  <2>1. /\ {entradas, escritas, cadastros} \subseteq Nat /\ cadastros' = cadastros
        /\ escritas' = escritas + 1 /\ entradas' = IF entra THEN entradas + 1 ELSE entradas
    BY <1>1, <1>5 DEF Desde, IndicesTypeOK
  <2>2. Ativos' = Ativos
    BY <1>1 DEF Ativos
  <2>3. Guardadas' \ {e} = Guardadas \ {e}
    BY <1>2 DEF Guardadas, Guardada
  <2>4. ~entra => Guardadas' = Guardadas
    BY <1>2 DEF Guardadas, Guardada
  <2>5. \A campo, p : NoPeriodo(campo, p)' \ {e} = NoPeriodo(campo, p) \ {e}
    BY <1>2 DEF NoPeriodo, Guardada, Na
  <2>6. Perto(Cardinality(Ativos'), Cardinality(Ativos), cadastros' - cadastros)
    BY <2>1, <2>2, ContagensFinitas DEF Perto
  <2>7. Perto(Cardinality(Guardadas'), Cardinality(Guardadas), entradas' - entradas)
    <3>1. CASE entra
      <4>1. Perto(Cardinality(Guardadas'), Cardinality(Guardadas), 1)
        BY <1>3, <2>3, ContagensFinitas, ContagensFinitasDepois, UmElemento
      <4>2. entradas' - entradas = 1
        BY <2>1, <3>1
      <4> QED BY <4>1, <4>2
    <3>2. CASE ~entra
      BY <2>1, <2>4, <3>2, ContagensFinitas DEF Perto
    <3> QED BY <3>1, <3>2
  <2>8. ASSUME NEW campo, NEW p
        PROVE  Perto(Cardinality(NoPeriodo(campo, p)'), Cardinality(NoPeriodo(campo, p)), escritas' - escritas)
    <3>1. IsFiniteSet(NoPeriodo(campo, p)) /\ IsFiniteSet(NoPeriodo(campo, p)')
      BY <1>3, ContagensFinitas, ContagensFinitasDepois
    <3>2. Perto(Cardinality(NoPeriodo(campo, p)'), Cardinality(NoPeriodo(campo, p)), 1)
      BY <2>5, <3>1, UmElemento
    <3>3. escritas' - escritas = 1
      BY <2>1
    <3> QED BY <3>2, <3>3
  <2> QED BY <2>1, <2>6, <2>7, <2>8 DEF PoucoMudou
<1> QED BY <1>3, <1>4, <1>5

\* Every change of the world is such a row, an account, or a new day.
LEMMA IndicesMundoVale ==
    ASSUME IndicesTypeOK, Entregues, IndicesMundo
    PROVE  IndicesTypeOK' /\ Entregues' /\ (respostas # <<>> => PoucoMudou)
<1>u. UNCHANGED <<pergunta, respostas>>
  BY DEF IndicesMundo
<1>d. /\ dia \in Nat /\ dia <= UltimaData /\ UltimaData \in Nat /\ dia \in Dia /\ 0..dia \subseteq Dia
      /\ Equipe \subseteq Conta /\ \A f : DePerfil(f) \subseteq Conta
  BY DatasNaturais DEF IndicesTypeOK, Dia, Equipe, DePerfil
<1>1. ASSUME NEW e \in Encomenda, Criar(e)
      PROVE  IndicesTypeOK' /\ Entregues' /\ (respostas # <<>> => PoucoMudou)
  <2>1. PICK t \in DePerfil("morador"), r \in DePerfil("portaria") :
          LET prevista == [status |-> "prevista", titular |-> t, criada |-> dia, removida |-> FALSE,
                           recebedor |-> Nulo, recebida |-> Nulo, entregador |-> Nulo, entregue |-> Nulo]
              recebida == [prevista EXCEPT !.status = "aguardando", !.recebedor = r, !.recebida = dia]
          IN  \/ Escrever(e, prevista, TRUE)
              \/ Escrever(e, recebida, TRUE)
              \/ \E p \in DePerfil("portaria") :
                    Escrever(e, [recebida EXCEPT !.status = "retirada", !.entregador = p,
                                                 !.entregue = dia], TRUE)
    BY <1>1 DEF Criar
  <2> DEFINE prevista == [status |-> "prevista", titular |-> t, criada |-> dia, removida |-> FALSE,
                          recebedor |-> Nulo, recebida |-> Nulo, entregador |-> Nulo, entregue |-> Nulo]
             recebida == [prevista EXCEPT !.status = "aguardando", !.recebedor = r, !.recebida = dia]
             entregue(p) == [recebida EXCEPT !.status = "retirada", !.entregador = p, !.entregue = dia]
  <2>2. t \in Conta /\ r \in Conta
    BY <1>d
  <2>3. prevista \in Parcela /\ prevista.status = "prevista"
    BY <1>d, <2>2 DEF Parcela, StatusContado
  <2>4. recebida \in Parcela /\ recebida.status = "aguardando"
    BY <1>d, <2>2 DEF Parcela, StatusContado
  <2>5. \A p \in Conta : entregue(p) \in Parcela /\ entregue(p).entregue = dia
    BY <1>d, <2>2 DEF Parcela, StatusContado
  <2>6. \/ Escrever(e, prevista, TRUE) \/ Escrever(e, recebida, TRUE)
        \/ \E p \in Conta : Escrever(e, entregue(p), TRUE)
    BY <1>d, <2>1
  <2> HIDE DEF prevista, recebida, entregue
  <2>7. CASE Escrever(e, prevista, TRUE)
    BY <1>u, <2>3, <2>7, EscritaVale
  <2>8. CASE Escrever(e, recebida, TRUE)
    BY <1>u, <2>4, <2>8, EscritaVale
  <2>9. ASSUME NEW p \in Conta, Escrever(e, entregue(p), TRUE)
        PROVE  IndicesTypeOK' /\ Entregues' /\ (respostas # <<>> => PoucoMudou)
    <3> DEFINE linha == entregue(p)
    <3>1. linha \in Parcela /\ linha.entregue = dia
      BY <2>5
    <3>2. Escrever(e, linha, TRUE)
      BY <2>9
    <3>3. dia \in 0..dia
      BY <1>d
    <3> HIDE DEF linha
    <3> QED BY <1>u, <3>1, <3>2, <3>3, EscritaVale
  <2> QED BY <2>6, <2>7, <2>8, <2>9
<1>2. ASSUME NEW e \in Encomenda, NEW linha, Guardada(e),
             \/ \E c \in Equipe : linha = [parcelas[e] EXCEPT !.status = "aguardando", !.recebedor = c,
                                                              !.recebida = dia]
             \/ \E c \in Equipe, d \in 0..dia :
                   linha = [parcelas[e] EXCEPT !.status = "retirada", !.entregador = c, !.entregue = d]
             \/ \E s \in {"aguardando", "cancelada"} : linha = [parcelas[e] EXCEPT !.status = s]
      PROVE  /\ linha \in Parcela /\ ~linha.removida
             /\ linha.status = "retirada" => linha.entregue \in 0..dia
  <2>1. parcelas[e] \in Parcela /\ ~parcelas[e].removida
    BY <1>2 DEF IndicesTypeOK, Guardada
  <2>2. CASE \E c \in Equipe : linha = [parcelas[e] EXCEPT !.status = "aguardando", !.recebedor = c,
                                                           !.recebida = dia]
    <3>1. PICK c \in Equipe :
            linha = [parcelas[e] EXCEPT !.status = "aguardando", !.recebedor = c, !.recebida = dia]
      BY <2>2
    <3>2. c \in Conta /\ dia \in Dia
      BY <1>d
    <3> QED BY <2>1, <3>1, <3>2 DEF Parcela, StatusContado
  <2>3. CASE \E c \in Equipe, d \in 0..dia :
                   linha = [parcelas[e] EXCEPT !.status = "retirada", !.entregador = c, !.entregue = d]
    <3>1. PICK c \in Equipe, d \in 0..dia :
            linha = [parcelas[e] EXCEPT !.status = "retirada", !.entregador = c, !.entregue = d]
      BY <2>3
    <3>2. c \in Conta /\ d \in Dia
      BY <1>d
    <3>3. linha \in Parcela
      BY <2>1, <3>1, <3>2 DEF Parcela, StatusContado
    <3>4. ~linha.removida /\ linha.entregue = d
      BY <2>1, <3>1 DEF Parcela
    <3> QED BY <3>3, <3>4
  <2>4. CASE \E s \in {"aguardando", "cancelada"} : linha = [parcelas[e] EXCEPT !.status = s]
    BY <2>1, <2>4 DEF Parcela, StatusContado
  <2> QED BY <1>2, <2>2, <2>3, <2>4
<1>3. ASSUME NEW e \in Encomenda, Receber(e) \/ Entregar(e) \/ Recolocar(e) \/ DarBaixa(e)
      PROVE  IndicesTypeOK' /\ Entregues' /\ (respostas # <<>> => PoucoMudou)
  <2>1. Guardada(e)
    BY <1>3 DEF Receber, Entregar, Recolocar, DarBaixa
  <2>2. PICK linha :
          /\ Escrever(e, linha, FALSE)
          /\ \/ \E c \in Equipe : linha = [parcelas[e] EXCEPT !.status = "aguardando", !.recebedor = c,
                                                              !.recebida = dia]
             \/ \E c \in Equipe, d \in 0..dia :
                   linha = [parcelas[e] EXCEPT !.status = "retirada", !.entregador = c, !.entregue = d]
             \/ \E s \in {"aguardando", "cancelada"} : linha = [parcelas[e] EXCEPT !.status = s]
    <3>1. CASE Receber(e)
      BY <3>1 DEF Receber
    <3>2. CASE Entregar(e)
      <4>1. PICK c \in Equipe : Escrever(e, [parcelas[e] EXCEPT !.status = "retirada", !.entregador = c,
                                                                 !.entregue = dia], FALSE)
        BY <3>2 DEF Entregar
      <4>2. dia \in 0..dia
        BY <1>d
      <4> QED BY <4>1, <4>2
    <3>3. CASE Recolocar(e)
      BY <3>3 DEF Recolocar
    <3>4. CASE DarBaixa(e)
      BY <3>4 DEF DarBaixa
    <3> QED BY <1>3, <3>1, <3>2, <3>3, <3>4
  <2>3. linha \in Parcela /\ ~linha.removida /\ (linha.status = "retirada" => linha.entregue \in 0..dia)
    BY <1>2, <2>1, <2>2
  <2> QED BY <1>u, <2>1, <2>2, <2>3, EscritaVale
<1>4. ASSUME NEW e \in Encomenda, TirarOuRepor(e)
      PROVE  IndicesTypeOK' /\ Entregues' /\ (respostas # <<>> => PoucoMudou)
  <2> DEFINE linha == [parcelas[e] EXCEPT !.removida = ~@]
  <2>1. parcelas[e] \in Parcela /\ Escrever(e, linha, TRUE)
    BY <1>4 DEF TirarOuRepor, IndicesTypeOK
  <2>2. linha \in Parcela /\ (linha.status = "retirada" => linha.entregue \in 0..dia)
    BY <1>4, <2>1 DEF Parcela, Entregues, TirarOuRepor
  <2> HIDE DEF linha
  <2> QED BY <1>u, <2>1, <2>2, EscritaVale
<1>5. ASSUME NEW c \in Conta, MudarConta(c)
      PROVE  IndicesTypeOK' /\ Entregues' /\ (respostas # <<>> => PoucoMudou)
  <2>1. /\ ativas' = IF c \in ativas THEN ativas \ {c} ELSE ativas \cup {c}
        /\ cadastros' = Desde(cadastros) /\ UNCHANGED <<dia, parcelas, entradas, escritas>>
    BY <1>5 DEF MudarConta
  <2>2. IndicesTypeOK'
    BY <1>u, <2>1 DEF IndicesTypeOK, Desde
  <2>3. Entregues'
    BY <2>1 DEF Entregues
  <2>4. ASSUME respostas # <<>> PROVE PoucoMudou
    <3>1. {entradas, escritas, cadastros} \subseteq Nat /\ cadastros' = cadastros + 1
      BY <2>1, <2>4 DEF Desde, IndicesTypeOK
    <3>2. Ativos' \ {c} = Ativos \ {c}
      BY <2>1 DEF Ativos
    <3>3. Perto(Cardinality(Ativos'), Cardinality(Ativos), 1)
      BY <2>2, <3>2, ContagensFinitas, ContagensFinitasDepois, UmElemento
    <3>4. Guardadas' = Guardadas /\ \A campo, p : NoPeriodo(campo, p)' = NoPeriodo(campo, p)
      BY <2>1 DEF Guardadas, NoPeriodo, Guardada
    <3>5. Perto(Cardinality(Guardadas'), Cardinality(Guardadas), entradas' - entradas)
      BY <2>1, <3>1, <3>4, ContagensFinitas DEF Perto
    <3>6. \A campo, p : Perto(Cardinality(NoPeriodo(campo, p)'), Cardinality(NoPeriodo(campo, p)), escritas' - escritas)
      BY <2>1, <3>1, <3>4, ContagensFinitas DEF Perto
    <3>7. cadastros' - cadastros = 1 /\ cadastros <= cadastros' /\ entradas <= entradas' /\ escritas <= escritas'
      BY <2>1, <3>1
    <3> QED BY <3>3, <3>5, <3>6, <3>7 DEF PoucoMudou
  <2> QED BY <2>2, <2>3, <2>4
<1>6. CASE Amanhecer
  <2>1. dia' = dia + 1 /\ dia < UltimaData /\ UNCHANGED <<parcelas, ativas, entradas, escritas, cadastros>>
    BY <1>6 DEF Amanhecer
  <2>2. IndicesTypeOK'
    BY <1>u, <1>d, <2>1 DEF IndicesTypeOK, Dia
  <2>3. Entregues'
    BY <1>d, <2>1 DEF Entregues
  <2>4. Ativos' = Ativos /\ Guardadas' = Guardadas /\ \A campo, p : NoPeriodo(campo, p)' = NoPeriodo(campo, p)
    BY <2>1 DEF Ativos, Guardadas, NoPeriodo, Guardada
  <2>5. {entradas, escritas, cadastros} \subseteq Nat
    BY DEF IndicesTypeOK
  <2>6. PoucoMudou
    BY <2>1, <2>4, <2>5, ContagensFinitas DEF PoucoMudou, Perto
  <2> QED BY <2>2, <2>3, <2>6
<1> QED BY <1>1, <1>3, <1>4, <1>5, <1>6 DEF IndicesMundo

\* What the queries answer now, in terms of the rows they count.
LEMMA RespostasAgora ==
    ASSUME IndicesTypeOK
    PROVE  /\ Indice("ativos") = Cardinality(Ativos)
           /\ Soma(Indice("porPerfil")) = Cardinality(Ativos)
           /\ Indice("registradas") = Cardinality(Guardadas)
           /\ Soma(Indice("porStatus")) = Cardinality(Guardadas)
           /\ \A p : /\ Resumo("recebidas", p) = Cardinality(NoPeriodo("recebida", p))
                     /\ Resumo("retiradas", p) = Cardinality(NoPeriodo("entregue", p))
                     /\ Soma(Resumo("topRecebimentos", p)) \in Nat
                     /\ Soma(Resumo("topRecebimentos", p)) <= Cardinality(NoPeriodo("recebida", p))
                     /\ Soma(Resumo("topEntregas", p)) \in Nat
                     /\ Soma(Resumo("topEntregas", p)) <= Cardinality(NoPeriodo("entregue", p))
<1>f. /\ IsFiniteSet(Ativos) /\ IsFiniteSet(Guardadas)
      /\ \A campo, p : IsFiniteSet(NoPeriodo(campo, p))
  BY ContagensFinitas
<1>1. Indice("ativos") = Cardinality(Ativos) /\ Indice("registradas") = Cardinality(Guardadas)
  BY DEF Indice, Ativos, Guardadas
<1>2. Soma(Indice("porPerfil")) = Cardinality(Ativos)
  <2> DEFINE D == {"admin", "portaria", "morador"}
             f == Indice("porPerfil")
  <2>1. f = [x \in D |-> Cardinality(DePerfil(x))]
    BY DEF Indice
  <2>2. \A x \in D : DePerfil(x) = {c \in Ativos : PerfilDe[c] = x}
    BY DEF DePerfil, Ativos
  <2>3. DOMAIN f = D /\ \A x \in D : f[x] = Cardinality({c \in Ativos : PerfilDe[c] = x})
    BY <2>1, <2>2
  <2>4. \A c \in Ativos : PerfilDe[c] \in D
    BY Perfis DEF Ativos, IndicesTypeOK
  <2> HIDE DEF f, D
  <2>5. Soma(f) = Cardinality(Ativos)
    BY <1>f, <2>3, <2>4, SomaContagem
  <2> QED BY <2>5 DEF f
<1>3. Soma(Indice("porStatus")) = Cardinality(Guardadas)
  <2> DEFINE D == StatusContado
             k == [e \in Guardadas |-> parcelas[e].status]
             f == Indice("porStatus")
  <2>1. f = [s \in D |-> Cardinality({e \in Encomenda : Guardada(e) /\ parcelas[e].status = s})]
    BY DEF Indice
  <2>2. \A s \in D : {e \in Encomenda : Guardada(e) /\ parcelas[e].status = s} = {e \in Guardadas : k[e] = s}
    BY DEF Guardadas
  <2>3. DOMAIN f = D /\ \A s \in D : f[s] = Cardinality({e \in Guardadas : k[e] = s})
    BY <2>1, <2>2
  <2>4. \A e \in Guardadas : k[e] \in D
    BY DEF Guardadas, Guardada, IndicesTypeOK, Parcela
  <2> HIDE DEF f, D, k
  <2>5. Soma(f) = Cardinality(Guardadas)
    BY <1>f, <2>3, <2>4, SomaContagem
  <2> QED BY <2>5 DEF f
<1>4. ASSUME NEW p, NEW quem, NEW quando
      PROVE  /\ Soma(Ranking("portaria", quem, quando, p)) \in Nat
             /\ Soma(Ranking("portaria", quem, quando, p)) <= Cardinality(NoPeriodo(quando, p))
  <2> DEFINE D == DePerfil("portaria")
             E == NoPeriodo(quando, p)
             k == [e \in E |-> parcelas[e][quem]]
             f == Ranking("portaria", quem, quando, p)
  <2>1. f = [c \in D |-> Cardinality({e \in Encomenda : Guardada(e) /\ parcelas[e][quem] = c
                                                      /\ Na(parcelas[e][quando], p)})]
    BY DEF Ranking
  <2>2. \A c \in D : {e \in Encomenda : Guardada(e) /\ parcelas[e][quem] = c /\ Na(parcelas[e][quando], p)}
                        = {e \in E : k[e] = c}
    BY DEF NoPeriodo
  <2>3. DOMAIN f = D /\ \A c \in D : f[c] = Cardinality({e \in E : k[e] = c})
    BY <2>1, <2>2
  <2>4. IsFiniteSet(E)
    BY <1>f
  <2> HIDE DEF f, D, k, E
  <2>5. Soma(f) \in Nat /\ Soma(f) <= Cardinality(E)
    BY <2>3, <2>4, SomaContagem
  <2> QED BY <2>5 DEF f, E
<1>5. \A p : /\ Resumo("recebidas", p) = Cardinality(NoPeriodo("recebida", p))
             /\ Resumo("retiradas", p) = Cardinality(NoPeriodo("entregue", p))
  BY DEF Resumo, ContarPorData, NoPeriodo
<1>6. \A p : /\ Resumo("topRecebimentos", p) = Ranking("portaria", "recebedor", "recebida", p)
             /\ Resumo("topEntregas", p) = Ranking("portaria", "entregador", "entregue", p)
  BY DEF Resumo
<1> QED BY <1>1, <1>2, <1>3, <1>4, <1>5, <1>6

\* A change of the world keeps the invariant of the numbers.
LEMMA NumerosMundo ==
    ASSUME IndicesTypeOK, IndicesInv, IndicesMundo
    PROVE  IndicesTypeOK' /\ IndicesInv'
<1>1. IndicesTypeOK' /\ Entregues' /\ (respostas # <<>> => PoucoMudou)
  BY IndicesMundoVale DEF IndicesInv
<1>2. UNCHANGED <<pergunta, respostas>>
  BY DEF IndicesMundo
<1>3. \A q : /\ Respondeu(q)' <=> Respondeu(q)
             /\ respostas'[q] = respostas[q]
  BY <1>2 DEF Respondeu
<1>4. \A q : Respondeu(q) => PoucoMudou
  BY <1>1 DEF Respondeu
<1>5. /\ Cardinality(Ativos) \in Nat /\ Cardinality(Ativos') \in Nat
      /\ Cardinality(Guardadas) \in Nat /\ Cardinality(Guardadas') \in Nat
      /\ {entradas, escritas, cadastros} \subseteq Nat /\ {entradas', escritas', cadastros'} \subseteq Nat
  BY <1>1, ContagensFinitas, ContagensFinitasDepois DEF IndicesTypeOK
<1>6. ASSUME ContasPerto PROVE ContasPerto'
  <2>1. ASSUME NEW n \in Nat, Perto(n, Cardinality(Ativos), cadastros), PoucoMudou
        PROVE  Perto(n, Cardinality(Ativos'), cadastros')
    BY <1>5, <2>1 DEF Perto, PoucoMudou
  <2>2. ASSUME NEW n \in Nat, NEW m \in Nat, Perto(n, m, cadastros), PoucoMudou PROVE Perto(n, m, cadastros')
    BY <1>5, <2>2 DEF Perto, PoucoMudou
  <2> QED BY <1>2, <1>3, <1>4, <1>6, <2>1, <2>2 DEF ContasPerto
<1>7. ASSUME ParcelasPerto PROVE ParcelasPerto'
  <2>1. ASSUME NEW n \in Nat, Perto(n, Cardinality(Guardadas), entradas), PoucoMudou
        PROVE  Perto(n, Cardinality(Guardadas'), entradas')
    BY <1>5, <2>1 DEF Perto, PoucoMudou
  <2>2. ASSUME NEW n \in Nat, NEW m \in Nat, Perto(n, m, entradas), PoucoMudou PROVE Perto(n, m, entradas')
    BY <1>5, <2>2 DEF Perto, PoucoMudou
  <2> QED BY <1>2, <1>3, <1>4, <1>7, <2>1, <2>2 DEF ParcelasPerto
<1>8. ASSUME NEW c, NEW r, NEW campo, RankingPerto(c, r, campo) PROVE RankingPerto(c, r, campo)'
  <2> DEFINE N == Cardinality(NoPeriodo(campo, pergunta))
             M == Cardinality(NoPeriodo(campo, pergunta)')
  <2>1. N \in Nat /\ M \in Nat
    <3> DEFINE p == pergunta
    <3>1. Cardinality(NoPeriodo(campo, p)) \in Nat
      BY ContagensFinitas
    <3>2. \A x : Cardinality(NoPeriodo(campo, x)') \in Nat
      BY <1>1, ContagensFinitasDepois
    <3>3. NoPeriodo(campo, pergunta)' = {e \in Encomenda : Guardada(e)' /\ Na(parcelas'[e][campo], pergunta')}
      BY DEF NoPeriodo
    <3>4. \A x : NoPeriodo(campo, x)' = {e \in Encomenda : Guardada(e)' /\ Na(parcelas'[e][campo], x)}
      BY DEF NoPeriodo
    <3> QED BY <1>2, <3>1, <3>2, <3>3, <3>4
  <2>2. PoucoMudou => Perto(M, N, escritas' - escritas) /\ escritas <= escritas'
    <3>1. NoPeriodo(campo, pergunta)' = {e \in Encomenda : Guardada(e)' /\ Na(parcelas'[e][campo], pergunta')}
      BY DEF NoPeriodo
    <3>2. \A x : NoPeriodo(campo, x)' = {e \in Encomenda : Guardada(e)' /\ Na(parcelas'[e][campo], x)}
      BY DEF NoPeriodo
    <3>3. PoucoMudou => \A x : Perto(Cardinality(NoPeriodo(campo, x)'), Cardinality(NoPeriodo(campo, x)), escritas' - escritas)
      BY DEF PoucoMudou
    <3>4. PoucoMudou => escritas <= escritas'
      BY DEF PoucoMudou
    <3> QED BY <1>2, <3>1, <3>2, <3>3, <3>4
  <2> HIDE DEF N, M
  <2>3. /\ Respondeu(c) => respostas[c] \in Nat /\ N <= respostas[c] + escritas
        /\ Respondeu(r) => Soma(respostas[r]) \in Nat /\ Soma(respostas[r]) <= N + escritas
        /\ Respondeu(c) /\ Respondeu(r) => Soma(respostas[r]) <= respostas[c] + escritas
    BY <1>8 DEF RankingPerto, N
  <2>4. /\ Respondeu(c) => M <= respostas[c] + escritas'
        /\ Respondeu(r) => Soma(respostas[r]) <= M + escritas'
        /\ Respondeu(c) /\ Respondeu(r) => Soma(respostas[r]) <= respostas[c] + escritas'
    BY <1>4, <1>5, <2>1, <2>2, <2>3 DEF Perto
  <2> QED BY <1>2, <1>3, <2>3, <2>4 DEF RankingPerto, M
<1> QED BY <1>1, <1>2, <1>6, <1>7, <1>8 DEF IndicesInv

\* An answer keeps it: it counts the rows as they are.
LEMMA NumerosConsulta ==
    ASSUME IndicesTypeOK, IndicesInv, Consultar
    PROVE  IndicesTypeOK' /\ IndicesInv'
<1>1. CASE Perguntar
  <2>1. /\ pergunta = Nulo /\ pergunta' \in Pergunta
        /\ UNCHANGED <<respostas, dia, parcelas, ativas, entradas, escritas, cadastros>>
    BY <1>1 DEF Perguntar
  <2>2. IndicesTypeOK' /\ Entregues'
    BY <2>1 DEF IndicesTypeOK, IndicesInv, Entregues
  <2>3. DOMAIN respostas' = {} /\ pergunta' # Nulo
    BY <2>1, NuloForaDosIndices DEF IndicesInv
  <2>4. \A q : ~Respondeu(q)'
    BY <2>3 DEF Respondeu
  <2> QED BY <2>2, <2>3, <2>4 DEF IndicesInv, ContasPerto, ParcelasPerto, RankingPerto
<1>2. ASSUME pergunta # Nulo, NEW q, Responder(q)
      PROVE  IndicesTypeOK' /\ IndicesInv'
  <2>1. /\ q \in Consultas(pergunta.tipo) \ DOMAIN respostas
        /\ UNCHANGED <<pergunta, dia, parcelas, ativas, entradas, escritas, cadastros>>
    BY <1>2 DEF Responder
  <2> DEFINE resposta == IF pergunta.tipo = "indices" THEN Indice(q) ELSE Resumo(q, pergunta)
  <2>2. respostas' = [r \in DOMAIN respostas \cup {q} |-> IF r = q THEN resposta ELSE respostas[r]]
    BY <1>2 DEF Responder
  <2>3. respostas'[q] = resposta /\ \A r : Respondeu(r)' => r = q \/ (Respondeu(r) /\ respostas'[r] = respostas[r])
    BY <2>2 DEF Respondeu
  <2>4. pergunta.tipo = "indices" => resposta = Indice(q)
    OBVIOUS
  <2>5. pergunta.tipo = "resumo" => resposta = Resumo(q, pergunta)
    OBVIOUS
  <2> HIDE DEF resposta
  <2>6. IndicesTypeOK' /\ Entregues'
    BY <2>1 DEF IndicesTypeOK, IndicesInv, Entregues
  <2>7. DOMAIN respostas' \subseteq Consultas(pergunta'.tipo)
    BY <1>2, <2>1, <2>2 DEF IndicesInv
  <2>8. Ativos' = Ativos /\ Guardadas' = Guardadas /\ \A campo, p : NoPeriodo(campo, p)' = NoPeriodo(campo, p)
    BY <2>1 DEF Ativos, Guardadas, NoPeriodo, Guardada
  <2>9. {entradas, escritas, cadastros} \subseteq Nat
    BY DEF IndicesTypeOK
  <2>10. ASSUME pergunta.tipo = "indices" PROVE ContasPerto' /\ ParcelasPerto'
    <3>1. ContasPerto /\ ParcelasPerto
      BY <1>2, <2>10 DEF IndicesInv
    <3>2. /\ Respondeu("ativos")' => /\ respostas'["ativos"] \in Nat
                                     /\ Perto(respostas'["ativos"], Cardinality(Ativos), cadastros)
          /\ Respondeu("porPerfil")' => /\ Soma(respostas'["porPerfil"]) \in Nat
                                        /\ Perto(Soma(respostas'["porPerfil"]), Cardinality(Ativos), cadastros)
      BY <2>3, <2>4, <2>9, <2>10, <3>1, RespostasAgora, ContagensFinitas DEF ContasPerto, Perto
    <3>3. /\ Respondeu("registradas")' => /\ respostas'["registradas"] \in Nat
                                          /\ Perto(respostas'["registradas"], Cardinality(Guardadas), entradas)
          /\ Respondeu("porStatus")' => /\ Soma(respostas'["porStatus"]) \in Nat
                                        /\ Perto(Soma(respostas'["porStatus"]), Cardinality(Guardadas), entradas)
      BY <2>3, <2>4, <2>9, <2>10, <3>1, RespostasAgora, ContagensFinitas DEF ParcelasPerto, Perto
    <3>4. Respondeu("ativos")' /\ Respondeu("porPerfil")' =>
              Perto(Soma(respostas'["porPerfil"]), respostas'["ativos"], cadastros)
      BY <2>3, <2>4, <2>10, <3>1, <3>2, RespostasAgora DEF ContasPerto, Perto
    <3>5. Respondeu("registradas")' /\ Respondeu("porStatus")' =>
              Perto(Soma(respostas'["porStatus"]), respostas'["registradas"], entradas)
      BY <2>3, <2>4, <2>10, <3>1, <3>3, RespostasAgora DEF ParcelasPerto, Perto
    <3> QED BY <2>1, <2>8, <3>2, <3>3, <3>4, <3>5 DEF ContasPerto, ParcelasPerto
  <2>11. ASSUME NEW c, NEW r, NEW campo, RankingPerto(c, r, campo), c # r,
                q = c => resposta = Cardinality(NoPeriodo(campo, pergunta)),
                q = r => Soma(resposta) \in Nat /\ Soma(resposta) <= Cardinality(NoPeriodo(campo, pergunta))
         PROVE  RankingPerto(c, r, campo)'
    <3> DEFINE N == Cardinality(NoPeriodo(campo, pergunta))
    <3>1. N \in Nat
      BY ContagensFinitas
    <3>2. Cardinality(NoPeriodo(campo, pergunta)') = N
      <4>1. NoPeriodo(campo, pergunta)' = {e \in Encomenda : Guardada(e)' /\ Na(parcelas'[e][campo], pergunta')}
        BY DEF NoPeriodo
      <4>2. NoPeriodo(campo, pergunta) = {e \in Encomenda : Guardada(e) /\ Na(parcelas[e][campo], pergunta)}
        BY DEF NoPeriodo
      <4> QED BY <2>1, <4>1, <4>2 DEF Guardada
    <3> HIDE DEF N
    <3>3. /\ Respondeu(c) => respostas[c] \in Nat /\ N <= respostas[c] + escritas
          /\ Respondeu(r) => Soma(respostas[r]) \in Nat /\ Soma(respostas[r]) <= N + escritas
          /\ Respondeu(c) /\ Respondeu(r) => Soma(respostas[r]) <= respostas[c] + escritas
      BY <2>11 DEF RankingPerto, N
    <3>4. /\ q = c => resposta = N
          /\ q = r => Soma(resposta) \in Nat /\ Soma(resposta) <= N
      BY <2>11 DEF N
    <3>5. /\ Respondeu(c)' => respostas'[c] \in Nat /\ N <= respostas'[c] + escritas
          /\ Respondeu(r)' => Soma(respostas'[r]) \in Nat /\ Soma(respostas'[r]) <= N + escritas
      BY <2>3, <2>9, <3>1, <3>3, <3>4
    <3>6. Respondeu(c)' /\ Respondeu(r)' => Soma(respostas'[r]) <= respostas'[c] + escritas
      BY <2>3, <2>9, <2>11, <3>1, <3>3, <3>4
    <3> QED BY <2>1, <3>2, <3>5, <3>6 DEF RankingPerto
  <2>12. ASSUME pergunta.tipo = "resumo"
         PROVE  /\ RankingPerto("recebidas", "topRecebimentos", "recebida")'
                /\ RankingPerto("retiradas", "topEntregas", "entregue")'
    <3>1. /\ RankingPerto("recebidas", "topRecebimentos", "recebida")
          /\ RankingPerto("retiradas", "topEntregas", "entregue")
      BY <1>2, <2>12 DEF IndicesInv
    <3>2. /\ q = "recebidas" => resposta = Cardinality(NoPeriodo("recebida", pergunta))
          /\ q = "retiradas" => resposta = Cardinality(NoPeriodo("entregue", pergunta))
          /\ q = "topRecebimentos" => /\ Soma(resposta) \in Nat
                                      /\ Soma(resposta) <= Cardinality(NoPeriodo("recebida", pergunta))
          /\ q = "topEntregas" => /\ Soma(resposta) \in Nat
                                  /\ Soma(resposta) <= Cardinality(NoPeriodo("entregue", pergunta))
      BY <2>5, <2>12, RespostasAgora
    <3>3. RankingPerto("recebidas", "topRecebimentos", "recebida")'
      BY <2>11, <3>1, <3>2
    <3>4. RankingPerto("retiradas", "topEntregas", "entregue")'
      BY <2>11, <3>1, <3>2
    <3> QED BY <3>3, <3>4
  <2> QED BY <1>2, <2>1, <2>6, <2>7, <2>10, <2>12 DEF IndicesInv
<1> QED BY <1>1, <1>2 DEF Consultar

\* What the numbers promise follows.
LEMMA NumerosCertos ==
    ASSUME IndicesTypeOK, IndicesInv
    PROVE  NumerosFecham /\ RetiradasContadas
<1>1. NumerosFecham
  <2> SUFFICES ASSUME Respondida PROVE IF pergunta.tipo = "indices"
        THEN /\ Perto(Soma(respostas["porPerfil"]), respostas["ativos"], cadastros)
             /\ Perto(Soma(respostas["porStatus"]), respostas["registradas"], entradas)
        ELSE /\ Soma(respostas["topRecebimentos"]) <= respostas["recebidas"] + escritas
             /\ Soma(respostas["topEntregas"]) <= respostas["retiradas"] + escritas
    BY DEF NumerosFecham
  <2>1. pergunta # Nulo /\ pergunta \in Pergunta /\ DOMAIN respostas = Consultas(pergunta.tipo)
    BY DEF Respondida, IndicesTypeOK
  <2>2. CASE pergunta.tipo = "indices"
    <3>1. Respondeu("ativos") /\ Respondeu("porPerfil") /\ Respondeu("registradas") /\ Respondeu("porStatus")
      BY <2>1, <2>2 DEF Respondeu, Consultas
    <3> QED BY <2>1, <2>2, <3>1 DEF IndicesInv, ContasPerto, ParcelasPerto
  <2>3. CASE pergunta.tipo = "resumo"
    <3>1. /\ Respondeu("recebidas") /\ Respondeu("topRecebimentos")
          /\ Respondeu("retiradas") /\ Respondeu("topEntregas")
      BY <2>1, <2>3 DEF Respondeu, Consultas
    <3> QED BY <2>1, <2>3, <3>1 DEF IndicesInv, RankingPerto
  <2> QED BY <2>1, <2>2, <2>3 DEF Pergunta
<1>2. RetiradasContadas
  <2> DEFINE D == 0..dia
             E == {e \in Encomenda : Guardada(e) /\ parcelas[e].entregue \in D}
             k == [e \in E |-> parcelas[e].entregue]
             f == [d \in 0..dia |-> ContarPorData("entregue", [inicio |-> d, fim |-> d])]
             R == {e \in Encomenda : Guardada(e) /\ parcelas[e].status = "retirada"}
  <2>1. dia \in Nat /\ Nulo \notin Nat
    BY DatasNaturais DEF IndicesTypeOK, Dia
  <2>2. IsFiniteSet(E) /\ Cardinality(E) \in Nat
    <3>1. E \in SUBSET Encomenda
      OBVIOUS
    <3> QED BY <3>1, TabelaFinita, FS_Subset, FS_CardinalityType
  <2>3. \A d \in D : \A e \in Encomenda :
            Guardada(e) /\ Na(parcelas[e]["entregue"], [inicio |-> d, fim |-> d]) <=> e \in E /\ k[e] = d
    <3> TAKE d \in D
    <3> TAKE e \in Encomenda
    <3>1. Guardada(e) => parcelas[e].entregue \in Nat \cup {Nulo}
      BY DEF Guardada, IndicesTypeOK, Parcela, Dia
    <3>2. Guardada(e) => (Na(parcelas[e]["entregue"], [inicio |-> d, fim |-> d]) <=> parcelas[e].entregue = d)
      BY <2>1, <3>1 DEF Na
    <3> QED BY <3>2
  <2>4. \A d \in D : f[d] = Cardinality({e \in E : k[e] = d})
    <3> TAKE d \in D
    <3>1. {e \in Encomenda : Guardada(e) /\ Na(parcelas[e]["entregue"], [inicio |-> d, fim |-> d])}
            = {e \in E : k[e] = d}
      BY <2>3
    <3>2. f[d] = ContarPorData("entregue", [inicio |-> d, fim |-> d])
      OBVIOUS
    <3> QED BY <3>1, <3>2 DEF ContarPorData
  <2>5. DOMAIN f = D /\ \A e \in E : k[e] \in D
    OBVIOUS
  <2>6. R \subseteq E
    BY DEF IndicesInv, Entregues, Guardada
  <2>7. Cardinality(R) \in Nat /\ Cardinality(R) <= Cardinality(E)
    BY <2>2, <2>6, FS_Subset, FS_CardinalityType
  <2>8. Indice("porStatus")["retirada"] = Cardinality(R)
    <3>1. Indice("porStatus") =
            [s \in StatusContado |-> Cardinality({e \in Encomenda : Guardada(e) /\ parcelas[e].status = s})]
      BY DEF Indice
    <3>2. "retirada" \in StatusContado
      BY DEF StatusContado
    <3> QED BY <3>1, <3>2
  <2>9. RetiradasContadas <=> Soma(f) >= Indice("porStatus")["retirada"]
    BY DEF RetiradasContadas
  <2> HIDE DEF f, k, D, E, R
  <2>10. Soma(f) = Cardinality(E)
    BY <2>2, <2>4, <2>5, SomaContagem
  <2> QED BY <2>2, <2>7, <2>8, <2>9, <2>10
<1> QED BY <1>1, <1>2

-----------------------------------------------------------------------------
(* The client and its world.                                               *)

\* Only who reads a list has pages.
SoUmaLista == cliente # "lista" => fasePagina = "parada"

IInv == TypeOK /\ SoUmaLista /\ HistInv /\ QrInv /\ ListaInv /\ IndicesInv

\* What a step leaves alone keeps its invariant.
LEMMA ListaParada ==
    ASSUME ListaTypeOK, ListaInv, UNCHANGED <<encomendas, pessoas, listaVars>>
    PROVE  ListaTypeOK' /\ ListaInv'
<1>1. /\ UNCHANGED <<encomendas, pessoas, fasePagina, leitor, filtro, pagina, escopo, total>>
      /\ UNCHANGED <<vistas, noInicio, entraram, sairam, desencontro>>
  BY DEF listaVars
<1>2. ListaTypeOK'
  BY <1>1 DEF ListaTypeOK
<1>3. AVista' = AVista
  BY <1>1 DEF AVista, Visiveis, NoEscopo, Existe, Filtra
<1>4. \A e : Posicao(e)' = Posicao(e) /\ (Mostrada(e)' <=> Mostrada(e))
  BY <1>1, <1>3 DEF Posicao, Antes, Mostrada
<1>5. (DatasDistintas' <=> DatasDistintas) /\ (Caminhando' <=> Caminhando)
  BY <1>1 DEF DatasDistintas, Caminhando
<1>6. Deslocamento(pagina)' = Deslocamento(pagina) /\ (SemRepeticao(vistas)' <=> SemRepeticao(vistas))
  BY <1>1 DEF Deslocamento, SemRepeticao
<1>7. EscopoCerto' /\ ContagemCobre'
  BY <1>1, <1>3 DEF ListaInv, EscopoCerto, ContagemCobre
<1>8. SemSobra' /\ SemFalta'
  BY <1>1, <1>3, <1>4, <1>5, <1>6 DEF ListaInv, SemSobra, SemFalta
<1>9. PercursoCompleto'
  BY <1>1, <1>5, <1>6 DEF ListaInv, PercursoCompleto
<1> QED BY <1>1, <1>2, <1>7, <1>8, <1>9 DEF ListaInv

\* The same of the code.
LEMMA QrParado ==
    ASSUME QrTypeOK, QrInv, UNCHANGED <<encomendas, pessoas, qrVars>>
    PROVE  QrTypeOK' /\ QrInv'
<1>1. UNCHANGED <<encomendas, pessoas, faseQr, portador, lidas, aConferir, codigo, intacto>>
  BY DEF qrVars
<1>2. QrTypeOK'
  BY <1>1 DEF QrTypeOK
<1>3. intacto' => intacto /\ (faseQr = "nenhum" \/ (encomendas' = encomendas /\ pessoas' = pessoas))
  BY <1>1
<1> QED BY <1>1, <1>2, <1>3, QrMundo

\* The same of the history.
LEMMA HistParada ==
    ASSUME HistTypeOK, HistInv, UNCHANGED histVars
    PROVE  HistTypeOK' /\ HistInv'
BY DEF histVars, HistTypeOK, HistInv

\* The same of the numbers.
LEMMA IndicesParados ==
    ASSUME IndicesTypeOK, IndicesInv, UNCHANGED indicesVars
    PROVE  IndicesTypeOK' /\ IndicesInv'
<1>1. UNCHANGED <<dia, parcelas, ativas, pergunta, respostas, entradas, escritas, cadastros>>
  BY DEF indicesVars
<1>2. IndicesTypeOK'
  BY <1>1 DEF IndicesTypeOK
<1>3. Entregues' /\ Ativos' = Ativos /\ Guardadas' = Guardadas /\ \A q : Respondeu(q)' <=> Respondeu(q)
  BY <1>1 DEF IndicesInv, Entregues, Ativos, Guardadas, Guardada, Respondeu
<1>4. (ContasPerto' <=> ContasPerto) /\ (ParcelasPerto' <=> ParcelasPerto)
  BY <1>1, <1>3 DEF ContasPerto, ParcelasPerto
<1>5. \A c, r, campo : RankingPerto(c, r, campo)' <=> RankingPerto(c, r, campo)
  BY <1>1, <1>3 DEF RankingPerto, NoPeriodo, Guardada
<1> QED BY <1>1, <1>2, <1>3, <1>4, <1>5 DEF IndicesInv

\* The invariant holds at the start.
LEMMA IInvInicio == Init => IInv
<1> SUFFICES ASSUME Init PROVE IInv
  OBVIOUS
<1>0. /\ cliente \in {"codigo", "lista", "historico", "painel", "indices"}
      /\ AcervoInit /\ QrInit /\ ListaInit /\ HistInit /\ PainelInit /\ IndicesInit
  BY DEF Init
<1>1. AcervoTypeOK
  <2>1. encomendas = [e \in Encomenda |-> Nulo] /\ relogio = 0 /\ mudancas \in 0..Mudancas
    BY <1>0, MudancasNatural DEF AcervoInit
  <2>2. pessoas \in [Pessoa -> PessoaLinha]
    BY <1>0 DEF AcervoInit, PessoaLinha
  <2> QED BY <2>1, <2>2 DEF AcervoTypeOK
<1>2. QrTypeOK /\ QrInv
  BY <1>0 DEF QrInit, QrTypeOK, QrInv
<1>3. ListaTypeOK /\ fasePagina = "parada" /\ vistas = <<>> /\ pagina = 1
  <2>1. /\ fasePagina = "parada" /\ leitor = Nulo /\ filtro = Nulo /\ pagina = 1 /\ escopo = Nulo
        /\ total = 0 /\ vistas = <<>> /\ noInicio = {}
    BY <1>0 DEF ListaInit
  <2>2. {entraram, sairam, desencontro} \subseteq BOOLEAN
    BY <1>0, Zenon DEF ListaInit
  <2> QED BY <2>1, <2>2 DEF ListaTypeOK
<1>4. ListaInv
  BY <1>3 DEF ListaInv, EscopoCerto, ContagemCobre, SemSobra, SemFalta, Caminhando, PercursoCompleto
<1>5. HistTypeOK /\ HistInv
  <2>1. /\ agora = 0 /\ situacao = "nenhuma" /\ eventos = {} /\ inseridos = 0
        /\ recepcao = SemData /\ ultimoMov = SemData
    BY <1>0 DEF HistInit
  <2>2. apressada \in BOOLEAN
    BY <1>0, Zenon DEF HistInit
  <2>3. HistTypeOK
    BY <2>1, <2>2, Tempos DEF HistTypeOK
  <2> QED BY <2>1, <2>3 DEF HistInv
<1>6. PainelTypeOK
  BY <1>0, UltimoDiaNatural DEF PainelInit, PainelTypeOK
<1>7. IndicesTypeOK /\ IndicesInv
  <2>1. /\ dia = 0 /\ parcelas = [e \in Encomenda |-> Nulo] /\ ativas = Conta
        /\ pergunta = Nulo /\ respostas = <<>> /\ entradas = 0 /\ escritas = 0 /\ cadastros = 0
    BY <1>0 DEF IndicesInit
  <2>2. IndicesTypeOK
    BY <2>1, DatasNaturais DEF IndicesTypeOK, Dia
  <2>3. Entregues
    BY <2>1 DEF Entregues
  <2>4. DOMAIN respostas = {}
    BY <2>1
  <2> QED BY <2>1, <2>2, <2>3, <2>4 DEF IndicesInv
<1> QED BY <1>0, <1>1, <1>2, <1>3, <1>4, <1>5, <1>6, <1>7 DEF IInv, TypeOK, SoUmaLista

\* Every step keeps it.
LEMMA IInvPasso == IInv /\ [Next]_vars => IInv'
<1> SUFFICES ASSUME IInv, [Next]_vars PROVE IInv'
  OBVIOUS
<1>i. /\ cliente \in {"codigo", "lista", "historico", "painel", "indices"}
      /\ AcervoTypeOK /\ QrTypeOK /\ ListaTypeOK /\ HistTypeOK /\ PainelTypeOK /\ IndicesTypeOK
      /\ SoUmaLista /\ HistInv /\ QrInv /\ ListaInv /\ IndicesInv
  BY DEF IInv, TypeOK
<1>a. UNCHANGED acervo => AcervoTypeOK' /\ UNCHANGED <<encomendas, pessoas>>
  BY <1>i DEF acervo, AcervoTypeOK
<1>p. UNCHANGED hoje => PainelTypeOK'
  BY <1>i DEF PainelTypeOK
<1>s. UNCHANGED <<cliente, listaVars>> => SoUmaLista'
  BY <1>i DEF SoUmaLista, listaVars
<1>1. CASE Mundo
  <2>1. /\ AcervoNext \/ AcessoNext
        /\ cliente \in {"codigo", "lista"} /\ Acompanhar
        /\ cliente = "lista" => fasePagina \notin {"fim", "recusada"}
        /\ UNCHANGED <<cliente, faseQr, portador, lidas, aConferir, codigo, histVars, hoje, indicesVars>>
        /\ intacto' = (intacto /\ (faseQr = "nenhum" \/ (encomendas' = encomendas /\ pessoas' = pessoas)))
    BY <1>1 DEF Mundo
  <2>2. fasePagina \notin {"fim", "recusada"}
    BY <1>i, <2>1 DEF SoUmaLista
  <2>3. /\ AcervoTypeOK'
        /\ \A e \in Encomenda : encomendas[e] # Nulo =>
              encomendas'[e] # Nulo /\ encomendas'[e].criada = encomendas[e].criada
    BY <1>i, <2>1, AcervoTipo
  <2>4. ListaTypeOK' /\ ListaInv'
    BY <1>i, <2>1, <2>2, <2>3, AcompanharTipo, ListaMundo
  <2>5. SoUmaLista'
    BY <1>i, <2>1 DEF SoUmaLista, Acompanhar, listaVars
  <2>6. QrInv'
    BY <1>i, <2>1, QrMundo
  <2>7. intacto' \in BOOLEAN
    BY <2>1
  <2>8. QrTypeOK'
    BY <1>i, <2>1, <2>7 DEF QrTypeOK
  <2>9. HistTypeOK' /\ HistInv' /\ IndicesTypeOK' /\ IndicesInv'
    BY <1>i, <2>1, HistParada, IndicesParados
  <2> QED BY <1>i, <1>p, <2>1, <2>3, <2>4, <2>5, <2>6, <2>8, <2>9 DEF IInv, TypeOK
<1>2. CASE Codigo
  <2>1. QrNext /\ UNCHANGED <<cliente, acervo, listaVars, histVars, hoje, indicesVars>>
    BY <1>2 DEF Codigo
  <2>2. QrTypeOK' /\ QrInv'
    BY <1>i, <2>1, QrTipo, QrPasso
  <2>3. ListaTypeOK' /\ ListaInv'
    BY <1>i, <1>a, <2>1, ListaParada
  <2>4. HistTypeOK' /\ HistInv' /\ IndicesTypeOK' /\ IndicesInv'
    BY <1>i, <2>1, HistParada, IndicesParados
  <2> QED BY <1>i, <1>a, <1>p, <1>s, <2>1, <2>2, <2>3, <2>4 DEF IInv, TypeOK
<1>3. CASE Lista
  <2>1. ListaNext /\ cliente = "lista" /\ UNCHANGED <<cliente, acervo, qrVars, histVars, hoje, indicesVars>>
    BY <1>3 DEF Lista
  <2>2. ListaTypeOK' /\ ListaInv'
    BY <1>i, <2>1, ListaTipo, ListaPasso
  <2>3. QrTypeOK' /\ QrInv'
    BY <1>i, <1>a, <2>1, QrParado
  <2>4. HistTypeOK' /\ HistInv' /\ IndicesTypeOK' /\ IndicesInv'
    BY <1>i, <2>1, HistParada, IndicesParados
  <2>5. SoUmaLista'
    BY <2>1 DEF SoUmaLista
  <2> QED BY <1>i, <1>a, <1>p, <2>1, <2>2, <2>3, <2>4, <2>5 DEF IInv, TypeOK
<1>4. CASE Historia
  <2>1. HistNext /\ UNCHANGED <<cliente, acervo, qrVars, listaVars, hoje, indicesVars>>
    BY <1>4 DEF Historia
  <2>2. HistTypeOK' /\ HistInv'
    BY <1>i, <2>1, HistPasso
  <2>3. QrTypeOK' /\ QrInv' /\ ListaTypeOK' /\ ListaInv'
    BY <1>i, <1>a, <2>1, QrParado, ListaParada
  <2>4. IndicesTypeOK' /\ IndicesInv'
    BY <1>i, <2>1, IndicesParados
  <2> QED BY <1>i, <1>a, <1>p, <1>s, <2>1, <2>2, <2>3, <2>4 DEF IInv, TypeOK
<1>5. CASE Calendario
  <2>1. VirarDia /\ UNCHANGED <<cliente, acervo, qrVars, listaVars, histVars, indicesVars>>
    BY <1>5 DEF Calendario
  <2>2. PainelTypeOK'
    BY <1>i, <2>1, UltimoDiaNatural DEF VirarDia, PainelTypeOK
  <2>3. QrTypeOK' /\ QrInv' /\ ListaTypeOK' /\ ListaInv'
    BY <1>i, <1>a, <2>1, QrParado, ListaParada
  <2>4. HistTypeOK' /\ HistInv' /\ IndicesTypeOK' /\ IndicesInv'
    BY <1>i, <2>1, HistParada, IndicesParados
  <2> QED BY <1>i, <1>a, <1>s, <2>1, <2>2, <2>3, <2>4 DEF IInv, TypeOK
<1>6. CASE Numeros
  <2>1. /\ (IndicesMundo /\ Mudar) \/ (Consultar /\ UNCHANGED mudancas)
        /\ UNCHANGED <<cliente, encomendas, pessoas, relogio, qrVars, listaVars, histVars, hoje>>
    BY <1>6 DEF Numeros
  <2>2. IndicesTypeOK' /\ IndicesInv'
    BY <1>i, <2>1, NumerosMundo, NumerosConsulta
  <2>3. mudancas' \in 0..Mudancas
    BY <1>i, <2>1, MudancasNatural DEF AcervoTypeOK, Mudar
  <2>4. AcervoTypeOK'
    BY <1>i, <2>1, <2>3 DEF AcervoTypeOK
  <2>5. QrTypeOK' /\ QrInv' /\ ListaTypeOK' /\ ListaInv'
    BY <1>i, <2>1, QrParado, ListaParada
  <2>6. HistTypeOK' /\ HistInv'
    BY <1>i, <2>1, HistParada
  <2> QED BY <1>i, <1>p, <1>s, <2>1, <2>2, <2>4, <2>5, <2>6 DEF IInv, TypeOK
<1>7. CASE UNCHANGED vars
  <2>1. UNCHANGED <<cliente, acervo, qrVars, listaVars, histVars, hoje, indicesVars>>
    BY <1>7 DEF vars
  <2>2. QrTypeOK' /\ QrInv' /\ ListaTypeOK' /\ ListaInv'
    BY <1>i, <1>a, <2>1, QrParado, ListaParada
  <2>3. HistTypeOK' /\ HistInv' /\ IndicesTypeOK' /\ IndicesInv'
    BY <1>i, <2>1, HistParada, IndicesParados
  <2> QED BY <1>i, <1>a, <1>p, <1>s, <2>1, <2>2, <2>3 DEF IInv, TypeOK
<1> QED BY <1>1, <1>2, <1>3, <1>4, <1>5, <1>6, <1>7 DEF Next

\* The client and the world of every reachable state satisfy the inductive invariant.
THEOREM Indutivo == Spec => []IInv
BY IInvInicio, IInvPasso, PTL DEF Spec

\* Every variable of the reading side holds a value of its kind.
THEOREM Tipos == Spec => []TypeOK
<1>1. IInv => TypeOK
  BY DEF IInv
<1> QED BY <1>1, Indutivo, PTL

\* What the QR codes, the lists of parcels and of events, and the lists of moradores
\* accept or show is what the handlers they lead to accept, however the parcels, the
\* accounts and the clock changed between the steps of a code.
THEOREM RegrasValem == Spec => []RegrasConcordam
<1>1. IInv => RegrasConcordam
  BY CodigosAcertam, ListasAcertam, MoradoresAcertam DEF IInv, TypeOK, RegrasConcordam
<1> QED BY <1>1, Indutivo, PTL

\* A walk over the pages of a list shows nothing twice and misses nothing, whatever
\* changed between its pages, with the exceptions that PercursoCompleto names.
THEOREM PercursoVale == Spec => []PercursoCompleto
<1>1. IInv => PercursoCompleto
  BY DEF IInv, ListaInv
<1> QED BY <1>1, Indutivo, PTL

\* The newest event of a history tells the status of its parcel, for every length of the
\* clock and every number of events.
THEOREM HistoriaVale == Spec => []HistoriaContaOStatus
<1>1. IInv => HistoriaContaOStatus
  BY HistConta DEF IInv, TypeOK
<1> QED BY <1>1, Indutivo, PTL

\* The periods of the dashboard are right on every date, and its numbers add up to within
\* what was written between its queries, for every number of parcels, accounts and days.
THEOREM PainelVale == Spec => []PainelCerto
<1>1. IInv => PainelCerto
  <2>1. IInv => hoje \in Nat
    BY UltimoDiaNatural DEF IInv, TypeOK, PainelTypeOK
  <2> QED BY <2>1, PeriodosCertos, NumerosCertos DEF IInv, TypeOK, PainelCerto
<1> QED BY <1>1, Indutivo, PTL

=============================================================================
