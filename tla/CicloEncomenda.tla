--------------------------- MODULE CicloEncomenda ---------------------------
(***************************************************************************)
(* What the API promises about the life of a parcel to whoever only sees   *)
(* committed rows: a uuid is drawn once and either becomes a parcel or is  *)
(* lost with its request; "recebida" is never seen; a soft-deleted parcel  *)
(* keeps its status; a recorded hand-over is never erased; and a parcel    *)
(* that was hard-removed does not come back. Nothing here says which       *)
(* status may follow which: encomendas.service.ts only enforces that for   *)
(* requests that do not overlap.                                           *)
(***************************************************************************)
CONSTANT Encomenda

VARIABLES
    sorteados,   \* the uuids randomUUID has returned
    emCriacao,   \* those of them whose create has not ended
    situacao     \* uuid |-> what a reader sees of the parcel

cicloVars == <<sorteados, emCriacao, situacao>>

Visto == {"prevista", "aguardando", "retirada", "cancelada"}
Ausente == [status |-> "ausente", removida |-> FALSE, entregue |-> FALSE]

CicloTypeOK ==
    /\ sorteados \subseteq Encomenda
    /\ emCriacao \subseteq sorteados
    /\ situacao \in [Encomenda -> [status: Visto \cup {"ausente"},
                                   removida: BOOLEAN, entregue: BOOLEAN]]

CicloInit ==
    /\ sorteados = {}
    /\ emCriacao = {}
    /\ situacao = [e \in Encomenda |-> Ausente]

Passa(e, s) == situacao' = [situacao EXCEPT ![e] = s]

Sortear(e) ==
    /\ e \notin sorteados
    /\ sorteados' = sorteados \cup {e}
    /\ emCriacao' = emCriacao \cup {e}
    /\ UNCHANGED situacao

\* create commits; a parcel created as handed over has its hand-over recorded.
Registrar(e) ==
    /\ e \in emCriacao
    /\ emCriacao' = emCriacao \ {e}
    /\ \E s \in {"prevista", "aguardando", "retirada"} :
          Passa(e, [status |-> s, removida |-> FALSE, entregue |-> s = "retirada"])
    /\ UNCHANGED sorteados

Desistir(e) ==
    /\ e \in emCriacao
    /\ emCriacao' = emCriacao \ {e}
    /\ UNCHANGED <<sorteados, situacao>>

\* updateStatus or baixaAdministrativa commits.
Mover(e) ==
    /\ situacao[e].status # "ausente"
    /\ ~situacao[e].removida
    /\ \E s \in {"aguardando", "retirada", "cancelada"} :
          Passa(e, [status |-> s, removida |-> FALSE,
                    entregue |-> situacao[e].entregue \/ s = "retirada"])
    /\ UNCHANGED <<sorteados, emCriacao>>

\* remove or restore commits.
Marcar(e) ==
    /\ situacao[e].status # "ausente"
    /\ \E b \in BOOLEAN : Passa(e, [situacao[e] EXCEPT !.removida = b])
    /\ UNCHANGED <<sorteados, emCriacao>>

\* hardRemove commits.
Apagar(e) ==
    /\ situacao[e].status # "ausente"
    /\ Passa(e, Ausente)
    /\ UNCHANGED <<sorteados, emCriacao>>

CicloNext ==
    \E e \in Encomenda :
        \/ Sortear(e) \/ Registrar(e) \/ Desistir(e)
        \/ Mover(e) \/ Marcar(e) \/ Apagar(e)

CicloSpec == CicloInit /\ [][CicloNext]_cicloVars

=============================================================================
