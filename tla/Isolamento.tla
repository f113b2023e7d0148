----------------------------- MODULE Isolamento -----------------------------
(***************************************************************************)
(* Encomendas with a history variable that tells which requests ran alone. *)
(* Each check of encomendas.service.ts judges a snapshot that no UPDATE    *)
(* repeats, so what it promises of the row it writes holds for a request   *)
(* that nothing overlaps, whatever ran before it.                          *)
(***************************************************************************)
EXTENDS Encomendas

VARIABLE sozinha    \* request |-> no other was open while it was

varsIsoladas == <<vars, sozinha>>

Acompanhar ==
    sozinha' = [r \in Requisicao |->
        NoAberto(r)' => /\ NoAberto(r) => sozinha[r]
                        /\ \A s \in Requisicao \ {r} : ~NoAberto(s)']

SpecIsolada ==
    /\ Init /\ sozinha = [r \in Requisicao |-> TRUE]
    /\ [][Next /\ Acompanhar]_varsIsoladas

\* A request that runs alone confirms only what its checks allow of the row it
\* changes: a reception of a parcel that was announced, a hand-over of one that was
\* waiting, a write-off of one still open, a deletion by a portaria of one that it
\* received or registered and that nobody collected. An earlier request, one that
\* was interrupted or a deletion must not leave a row that defeats them.
GuardasSeIsolada ==
    [][\A r \in Requisicao : Confirma(r) /\ sozinha[r] =>
          LET antes == encomendas[pedido[r].e]
              op    == pedido[r].op
          IN  /\ op = "recebida" => antes.status = "prevista"
              /\ op = "retirada" => antes.status = "aguardando"
              /\ op = "baixa" => antes.status \in {"prevista", "recebida", "aguardando"}
              /\ op = "remove" /\ PerfilDe[pedido[r].ator] = "portaria" =>
                    PortariaPodeRemover(antes, pedido[r].ator)]_varsIsoladas

=============================================================================
