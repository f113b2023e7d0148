------------------------------ MODULE Historico ------------------------------
(***************************************************************************)
(* The history of one parcel as encomendas-eventos lists it: by created_at *)
(* alone, newest first. Events are dated when they are inserted, except    *)
(* the second one of a reception, which is dated a minute after the start  *)
(* of the handler so that it comes after the first. A super or an admin    *)
(* may remove an event, restore it, or delete its row.                     *)
(***************************************************************************)
EXTENDS Naturals, FiniteSets, Sequences

CONSTANTS
    Minuto,          \* instants in a minute
    UltimoInstante,  \* when the clock stops (a bound)
    MaxEventos,      \* how many events the parcel gets (a bound)
    SemData          \* no date

ASSUME Tempos == {Minuto, UltimoInstante, MaxEventos} \subseteq Nat /\ SemData \notin Nat

Situacao == {"prevista", "recebida", "aguardando", "retirada", "cancelada"}

VARIABLES
    agora,          \* the time
    situacao,       \* status of the parcel, or "nenhuma"
    eventos,        \* its rows of encomendas_eventos
    inseridos,      \* how many rows were inserted
    recepcao,       \* when the reception under way began (const now)
    ultimoMov,      \* when the last movement was registered (history)
    apressada       \* a reception lasted a minute, or a movement came within one of the last (history)

histVars == <<agora, situacao, eventos, inseridos, recepcao, ultimoMov, apressada>>

Evento == [ordem: 1..MaxEventos, status: Situacao, data: Nat, removido: BOOLEAN]

HistInit ==
    /\ agora = 0 /\ situacao = "nenhuma" /\ eventos = {} /\ inseridos = 0
    /\ recepcao = SemData /\ ultimoMov = SemData /\ apressada = FALSE

HistTypeOK ==
    /\ agora \in 0..UltimoInstante
    /\ situacao \in Situacao \cup {"nenhuma"}
    /\ eventos \subseteq Evento /\ inseridos \in 0..MaxEventos
    /\ recepcao \in Nat \cup {SemData} /\ ultimoMov \in Nat \cup {SemData}
    /\ apressada \in BOOLEAN

\* registrarEventoEmTrx of the events <<status, date>> of ds, in their order.
Acrescentar(ds) ==
    /\ inseridos' = inseridos + Len(ds)
    /\ inseridos' <= MaxEventos
    /\ eventos' = eventos \cup {[ordem |-> inseridos + i, status |-> ds[i][1], data |-> ds[i][2],
                                  removido |-> FALSE] : i \in DOMAIN ds}
    /\ situacao' = ds[Len(ds)][1]
    /\ ultimoMov' = agora

\* A morador announces the parcel, or a super or an admin registers it already handed
\* over: one event.
Anunciar ==
    /\ situacao = "nenhuma" /\ recepcao = SemData
    /\ \E s \in {"prevista", "retirada"} : Acrescentar(<<<<s, agora>>>>)
    /\ UNCHANGED <<agora, recepcao, apressada>>

\* A reception begins: on a parcel announced, or with the parcel.
IniciarRecepcao ==
    /\ situacao \in {"nenhuma", "prevista"} /\ recepcao = SemData
    /\ recepcao' = agora
    /\ UNCHANGED <<agora, situacao, eventos, inseridos, ultimoMov, apressada>>

\* Mutant of DataSegundoEvento: the second event is dated like the first.
DataSegundoEvento_MesmaHora(inicio) == agora

\* new Date(now.getTime() + 60_000).
DataSegundoEvento(inicio) == inicio + Minuto

\* Its images are saved, its two events inserted and its transaction committed.
ConcluirRecepcao ==
    /\ recepcao # SemData
    /\ Acrescentar(<<<<"recebida", agora>>, <<"aguardando", DataSegundoEvento(recepcao)>>>>)
    /\ apressada' = (apressada \/ agora >= recepcao + Minuto)
    /\ recepcao' = SemData
    /\ UNCHANGED agora

\* A later movement: collected from the lodge or written off, announced or not yet
\* collected; cancelled; or put back.
Movimentar ==
    /\ situacao # "nenhuma" /\ recepcao = SemData
    /\ \E s \in {"aguardando", "retirada", "cancelada"} :
          /\ s = "retirada" => situacao \in {"prevista", "aguardando"}
          /\ Acrescentar(<<<<s, agora>>>>)
    /\ apressada' = (apressada \/ agora <= ultimoMov + Minuto)
    /\ UNCHANGED <<agora, recepcao>>

ManterParcela == UNCHANGED <<agora, situacao, inseridos, recepcao, ultimoMov, apressada>>

\* remove, of an event that is not removed, and restore, of one that is.
RemoverEvento(e) ==
    /\ ~e.removido
    /\ eventos' = (eventos \ {e}) \cup {[e EXCEPT !.removido = TRUE]}
    /\ ManterParcela
RestaurarEvento(e) ==
    /\ e.removido
    /\ eventos' = (eventos \ {e}) \cup {[e EXCEPT !.removido = FALSE]}
    /\ ManterParcela

\* hardRemove, of any event; the status of the parcel stays.
ExcluirEvento(e) == eventos' = eventos \ {e} /\ ManterParcela

CorrerTempo ==
    /\ agora < UltimoInstante
    /\ agora' = agora + 1
    /\ UNCHANGED <<situacao, eventos, inseridos, recepcao, ultimoMov, apressada>>

HistNext ==
    \/ Anunciar \/ IniciarRecepcao \/ ConcluirRecepcao \/ Movimentar \/ CorrerTempo
    \/ \E e \in eventos : RemoverEvento(e) \/ RestaurarEvento(e) \/ ExcluirEvento(e)

\* The rows listed, and those that ORDER BY created_at DESC may put first.
Listados == {e \in eventos : ~e.removido}
MaisRecentes == {e \in Listados : \A f \in Listados : f.data <= e.data}

=============================================================================
