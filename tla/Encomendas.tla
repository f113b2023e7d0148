----------------------------- MODULE Encomendas -----------------------------
(***************************************************************************)
(* The parcels of a condominium and the HTTP handlers that change them:    *)
(* encomendas.controller.ts opens one MySQL transaction per request,       *)
(* encomendas.service.ts does the reads, checks and writes in it, and      *)
(* encomendas-eventos.service.ts and notificacoes.service.ts insert the    *)
(* history row and the notices of each movement in the same transaction.   *)
(*                                                                         *)
(* A request reads its parcel first and checks it; that read is an InnoDB  *)
(* snapshot (REPEATABLE READ) and locks nothing. Its later                 *)
(* UPDATE ... WHERE uuid acts on the row as last committed, waits for the  *)
(* writer that holds the row and keeps the row to the end of the           *)
(* transaction. No UPDATE repeats the check, so requests interleave        *)
(* between "lida" (read and checked) and "gravada" (row written).          *)
(*                                                                         *)
(* The users are reference data here. A request is handled once, so the    *)
(* set Requisicao is the whole workload; what a request refuses before it  *)
(* writes changes nothing and is no step of this module.                   *)
(***************************************************************************)
EXTENDS Naturals, Sequences, FiniteSets

CONSTANTS
    Encomenda,       \* the uuids randomUUID may hand out
    Requisicao,      \* the HTTP requests of the workload, each handled once
    Usuario,         \* the rows of usuarios that are not soft-deleted
    Ativo,           \* those of them with aproved_at set
    PerfilDe,        \* usuarios.perfil
    CondominioDe,    \* usuarios.uuid_condominio, Nulo for a super
    UnidadeDe,       \* usuarios.uuid_unidade, Nulo when not linked
    Nulo,            \* SQL NULL, and "no row"
    TemPromessa,     \* the transactions carry an executionPromise (those of Knex do)
    Operacoes,       \* the operations the workload uses (a bound; Operacao is all)
    Simultaneas      \* how many requests may be open at a time (a bound)

Perfil == {"super", "admin", "portaria", "morador"}
Status == {"prevista", "recebida", "aguardando", "retirada", "cancelada"}
Restricao == {"pessoal", "unidade"}
Operacao == {"create", "update", "recebida", "retirada", "outroStatus",
             "baixa", "restore", "remove", "hardRemove"}

UsuarioOuNulo == Usuario \cup {Nulo}
Condominio == {CondominioDe[u] : u \in Usuario} \ {Nulo}

\* One row of the table encomendas. A date that is always set together with
\* the user of the same movement is that user: recebido_por stands for
\* recebido_em too, entregue_por for entregue_em. baixa stands for
\* justificativa_baixa_administrativa and baixa_administrativa_em.
Linha == [uuid_usuario: Usuario, uuid_condominio: Condominio,
          restricao: Restricao, status: Status, created_by: Usuario,
          recebido_por: UsuarioOuNulo, entregue_por: UsuarioOuNulo,
          entregue_para: UsuarioOuNulo, baixa: BOOLEAN, deleted: BOOLEAN]

\* A row of encomendas_eventos: "Encomenda <acao> com status <status>."
Evento == [acao: {"criada", "atualizada"}, status: Status]

TipoAviso == {"prevista", "recebida", "lembrete", "entregue", "cancelada"}

\* What a request asks for; pessoa is recebido_por_uuid_usuario or
\* entregue_para_uuid_usuario of the body, alvo its status.
Pedido == [op: Operacao, ator: Usuario, e: Encomenda, pessoa: UsuarioOuNulo,
           alvo: Status, restricao: Restricao]

Aberta == {"lida", "gravada", "recebida", "registrada", "filhosApagados"}
Fase == {"nova", "confirmada", "desfeita"} \cup Aberta

ASSUME DadosDosUsuarios ==
    /\ PerfilDe \in [Usuario -> Perfil]
    /\ DOMAIN CondominioDe = Usuario
    /\ DOMAIN UnidadeDe = Usuario
    /\ Ativo \subseteq Usuario
    /\ TemPromessa \in BOOLEAN
    /\ Operacoes \subseteq Operacao
    /\ Simultaneas \in Nat

ASSUME NuloForaDasTabelas == Nulo \notin Usuario /\ Nulo \notin Linha /\ Nulo \notin Pedido

VARIABLES
    encomendas,      \* the committed table: uuid |-> row, or Nulo
    eventos,         \* uuid |-> its committed history rows, in commit order
    notificacoes,    \* the committed notices about parcels
    emitidos,        \* the uuids randomUUID has returned
    fase,            \* request |-> where its transaction stands
    pedido,          \* request |-> what it asks for, Nulo when not open
    imagem,          \* request |-> the row as its transaction has written it
    registro,        \* request |-> the history rows it has inserted
    pushes           \* the pushes scheduled, by request, and which were sent

vars == <<encomendas, eventos, notificacoes, emitidos, fase, pedido, imagem, registro, pushes>>
tabelas == <<encomendas, eventos, notificacoes>>

Init ==
    /\ encomendas = [e \in Encomenda |-> Nulo]
    /\ eventos = [e \in Encomenda |-> <<>>]
    /\ notificacoes = {}
    /\ emitidos = {}
    /\ fase = [r \in Requisicao |-> "nova"]
    /\ pedido = [r \in Requisicao |-> Nulo]
    /\ imagem = [r \in Requisicao |-> Nulo]
    /\ registro = [r \in Requisicao |-> <<>>]
    /\ pushes = {}

-----------------------------------------------------------------------------
(* The checks of the service.                                              *)

\* findActiveByUuid: the row exists and is not soft-deleted.
Visivel(e) == encomendas[e] # Nulo /\ ~encomendas[e].deleted

\* assertWriteAccess: the holder, a super, or staff of the same condominium.
PodeEscrever(l, u) ==
    \/ PerfilDe[u] = "morador" /\ l.uuid_usuario = u
    \/ PerfilDe[u] = "super"
    \/ PerfilDe[u] \in {"admin", "portaria"} /\ CondominioDe[u] = l.uuid_condominio

\* The active users with one of the profiles ps (RolesGuard, and the checks of
\* the users a body names).
Com(ps) == {u \in Ativo : PerfilDe[u] \in ps}
Morador == Com({"morador"})
Portaria == Com({"portaria"})
Equipe == Com({"super", "admin", "portaria"})

\* Mutant of PodeRetirar: any morador of the condominium may collect.
PodeRetirar_SemUnidade(u, titular, condominio, restricao) ==
    u \in Ativo /\ PerfilDe[u] = "morador" /\ CondominioDe[u] = condominio

\* validateEntregueParaUsuario: an active morador of the parcel's condominium,
\* who is the holder or, unless the parcel is "pessoal", lives in the holder's unit.
PodeRetirar(u, titular, condominio, restricao) ==
    /\ u \in Ativo
    /\ PerfilDe[u] = "morador"
    /\ CondominioDe[u] = condominio
    /\ u = titular \/ (restricao = "unidade" /\ UnidadeDe[u] = UnidadeDe[titular])

\* Mutant of Avisos: a cancellation by a portaria is not announced.
Avisos_SemCancelada(ev, perfil, titular) ==
    IF ev.status = "cancelada" /\ perfil # "portaria"
    THEN {[destino |-> titular, tipo |-> "cancelada"]}
    ELSE IF ev.acao = "atualizada" /\ ev.status = "retirada"
         THEN {[destino |-> titular, tipo |-> "entregue"]} ELSE {}

\* The notices of one movement: to every portaria when a parcel is announced,
\* to the holder of the parcel otherwise. A parcel created as already handed
\* over, and the passing status "recebida" of an update, notify nobody.
Avisos(ev, perfil, titular) ==
    LET ao(tipo) == {[destino |-> titular, tipo |-> tipo]}
        equipe   == perfil # "morador"
    IN  CASE ev.acao = "criada" /\ ev.status = "prevista" /\ perfil # "portaria" ->
                 [destino: {u \in Usuario : PerfilDe[u] = "portaria"}, tipo: {"prevista"}]
          [] ev.acao = "criada" /\ ev.status = "recebida" /\ equipe -> ao("recebida")
          [] ev.acao = "atualizada" /\ ev.status = "aguardando" /\ equipe -> ao("lembrete")
          [] ev.acao = "atualizada" /\ ev.status = "retirada" /\ equipe -> ao("entregue")
          [] ev.acao = "atualizada" /\ ev.status = "cancelada" -> ao("cancelada")
          [] OTHER -> {}

\* The notices that are pushed to the holder's devices as well.
ComPush == {"recebida", "lembrete"}

Push == [r: Requisicao, e: Encomenda, destino: Usuario, tipo: TipoAviso, enviado: BOOLEAN]

-----------------------------------------------------------------------------
(* Opening a transaction and reading the parcel.                           *)

NoAberto(r) == fase[r] \in Aberta

Vaga(r) ==
    /\ fase[r] = "nova"
    /\ Cardinality({s \in Requisicao : NoAberto(s)}) < Simultaneas

\* The request has read its parcel and every check of the handler has passed.
Ler(r, p) ==
    /\ p.op \in Operacoes
    /\ fase' = [fase EXCEPT ![r] = "lida"]
    /\ pedido' = [pedido EXCEPT ![r] = p]
    /\ UNCHANGED <<tabelas, emitidos, imagem, registro, pushes>>

\* create reads and checks the users only, then inserts a row nobody else sees;
\* its uuid_condominio and uuid_unidade are NOT NULL columns.
Inserir(r, p, l) ==
    /\ "create" \in Operacoes
    /\ CondominioDe[p.ator] # Nulo
    /\ UnidadeDe[l.uuid_usuario] # Nulo
    /\ fase' = [fase EXCEPT ![r] = "gravada"]
    /\ pedido' = [pedido EXCEPT ![r] = p]
    /\ imagem' = [imagem EXCEPT ![r] = l]
    /\ emitidos' = emitidos \cup {p.e}
    /\ UNCHANGED <<tabelas, registro, pushes>>

NovaLinha(u, titular, restricao, status, recebedor) ==
    [uuid_usuario |-> titular, uuid_condominio |-> CondominioDe[u],
     restricao |-> restricao, status |-> status, created_by |-> u,
     recebido_por |-> recebedor, entregue_por |-> Nulo,
     entregue_para |-> Nulo, baixa |-> FALSE, deleted |-> FALSE]

PedidoDe(op, u, e, pessoa, alvo, restricao) ==
    [op |-> op, ator |-> u, e |-> e, pessoa |-> pessoa, alvo |-> alvo, restricao |-> restricao]

\* A morador announces a parcel of their own.
CreateMorador(r) ==
    \E u \in Morador, e \in Encomenda \ emitidos, x \in Restricao :
        Inserir(r, PedidoDe("create", u, e, Nulo, "prevista", x),
                NovaLinha(u, u, x, "prevista", Nulo))

\* A portaria registers a parcel for an active morador of its condominium.
CreatePortaria(r) ==
    \E u, p \in Portaria, t \in Morador, e \in Encomenda \ emitidos, x \in Restricao :
        /\ CondominioDe[t] = CondominioDe[u]
        /\ Inserir(r, PedidoDe("create", u, e, p, "recebida", x),
                   NovaLinha(u, t, x, "recebida", p))

\* A super or admin registers a parcel for any active user, or for itself.
CreateAdmin(r) ==
    \E u \in Com({"super", "admin"}), t \in Ativo, p \in Portaria,
       e \in Encomenda \ emitidos, x \in Restricao :
        Inserir(r, PedidoDe("create", u, e, p, "recebida", x),
                NovaLinha(u, t, x, "recebida", p))

\* The same request with entregue_por_uuid_usuario: received and handed over at
\* once, to a resident entitled to it or to a person left unnamed.
CreateEntregue(r) ==
    \E u \in Com({"super", "admin"}), t \in Ativo, p, q \in Portaria,
       e \in Encomenda \ emitidos, x \in Restricao, para \in Ativo \cup {Nulo} :
        /\ para # Nulo => PodeRetirar(para, t, CondominioDe[u], x)
        /\ Inserir(r, PedidoDe("create", u, e, p, "retirada", x),
                   [NovaLinha(u, t, x, "retirada", p) EXCEPT
                       !.entregue_por = q, !.entregue_para = para])

\* PATCH /encomendas/:id, the free fields; restricao_retirada is the one that
\* matters to the other operations.
LerUpdate(r) ==
    \E u \in Ativo, e \in Encomenda, x \in Restricao :
        /\ Visivel(e)
        /\ PodeEscrever(encomendas[e], u)
        /\ Ler(r, PedidoDe("update", u, e, Nulo, "prevista", x))

\* PATCH /encomendas/:id/update-status, status recebida.
LerRecebida(r) ==
    \E u \in Equipe, e \in Encomenda : \E p \in Portaria \cup {u} :
        /\ Visivel(e)
        /\ PodeEscrever(encomendas[e], u)
        /\ encomendas[e].status = "prevista"
        /\ Ler(r, PedidoDe("recebida", u, e, p, "recebida", "unidade"))

\* PATCH /encomendas/:id/update-status, status retirada.
LerRetirada(r) ==
    \E u \in Equipe, e \in Encomenda, para \in Ativo :
        /\ Visivel(e)
        /\ PodeEscrever(encomendas[e], u)
        /\ encomendas[e].status = "aguardando"
        /\ PodeRetirar(para, encomendas[e].uuid_usuario,
                       encomendas[e].uuid_condominio, encomendas[e].restricao)
        /\ Ler(r, PedidoDe("retirada", u, e, para, "retirada", "unidade"))

\* PATCH /encomendas/:id/update-status, the other two statuses: the status the
\* parcel has is not looked at.
LerOutroStatus(r) ==
    \E u \in Equipe, e \in Encomenda, alvo \in {"aguardando", "cancelada"} :
        /\ Visivel(e)
        /\ PodeEscrever(encomendas[e], u)
        /\ Ler(r, PedidoDe("outroStatus", u, e, Nulo, alvo, "unidade"))

\* Mutant of LerBaixa: the source status is not checked.
LerBaixa_SemOrigem(r) ==
    \E u \in Com({"admin"}), e \in Encomenda, alvo \in {"retirada", "cancelada"} :
        /\ Visivel(e)
        /\ PodeEscrever(encomendas[e], u)
        /\ Ler(r, PedidoDe("baixa", u, e, encomendas[e].uuid_usuario, alvo, "unidade"))

\* PATCH /encomendas/:id/baixa-administrativa; the holder read from the
\* snapshot becomes entregue_para.
LerBaixa(r) ==
    \E u \in Com({"admin"}), e \in Encomenda, alvo \in {"retirada", "cancelada"} :
        /\ Visivel(e)
        /\ PodeEscrever(encomendas[e], u)
        /\ encomendas[e].status \in {"prevista", "recebida", "aguardando"}
        /\ Ler(r, PedidoDe("baixa", u, e, encomendas[e].uuid_usuario, alvo, "unidade"))

\* PATCH /encomendas/:id/restore
LerRestore(r) ==
    \E u \in Com({"super", "admin"}), e \in Encomenda :
        /\ encomendas[e] # Nulo /\ encomendas[e].deleted
        /\ PodeEscrever(encomendas[e], u)
        /\ Ler(r, PedidoDe("restore", u, e, Nulo, "prevista", "unidade"))

\* What a portaria must find before it may soft-delete a parcel.
PortariaPodeRemover(l, u) ==
    /\ l.recebido_por = u \/ l.created_by = u
    /\ l.status # "retirada"
    /\ l.entregue_por = Nulo
    /\ ~l.baixa

\* DELETE /encomendas/:id
LerRemove(r) ==
    \E u \in Ativo, e \in Encomenda :
        /\ Visivel(e)
        /\ PodeEscrever(encomendas[e], u)
        /\ PerfilDe[u] = "portaria" => PortariaPodeRemover(encomendas[e], u)
        /\ Ler(r, PedidoDe("remove", u, e, Nulo, "prevista", "unidade"))

\* DELETE /encomendas/:id/hard
LerHardRemove(r) ==
    \E u \in Com({"super"}), e \in Encomenda :
        /\ encomendas[e] # Nulo
        /\ Ler(r, PedidoDe("hardRemove", u, e, Nulo, "prevista", "unidade"))

-----------------------------------------------------------------------------
(* Writing the row.                                                        *)

\* r has an uncommitted change of the row of e, so it holds the row.
Segura(r, e) == imagem[r] # Nulo /\ pedido[r].e = e

RowLivre(r, e) == \A s \in Requisicao \ {r} : ~Segura(s, e)

\* UPDATE encomendas ... WHERE uuid: finds the row as last committed.
Gravar(r, op, nova, proxima) ==
    /\ fase[r] = "lida"
    /\ pedido[r].op = op
    /\ encomendas[pedido[r].e] # Nulo
    /\ RowLivre(r, pedido[r].e)
    /\ imagem' = [imagem EXCEPT ![r] = nova]
    /\ fase' = [fase EXCEPT ![r] = proxima]
    /\ UNCHANGED <<tabelas, emitidos, pedido, registro, pushes>>

GravarUpdate(r) ==
    Gravar(r, "update", [encomendas[pedido[r].e] EXCEPT !.restricao = pedido[r].restricao],
           "registrada")

GravarRecebida(r) ==
    Gravar(r, "recebida", [encomendas[pedido[r].e] EXCEPT
                              !.status = "recebida", !.recebido_por = pedido[r].pessoa],
           "gravada")

GravarRetirada(r) ==
    Gravar(r, "retirada", [encomendas[pedido[r].e] EXCEPT
                              !.status = "retirada", !.entregue_por = pedido[r].ator,
                              !.entregue_para = pedido[r].pessoa],
           "gravada")

\* Mutant of GravarOutroStatus: leaving "retirada" erases the hand-over.
GravarOutroStatus_LimpaEntrega(r) ==
    Gravar(r, "outroStatus", [encomendas[pedido[r].e] EXCEPT
                                 !.status = pedido[r].alvo, !.entregue_por = Nulo],
           "gravada")

GravarOutroStatus(r) ==
    Gravar(r, "outroStatus", [encomendas[pedido[r].e] EXCEPT !.status = pedido[r].alvo],
           "gravada")

GravarBaixaRetirada(r) ==
    /\ pedido[r] # Nulo /\ pedido[r].alvo = "retirada"
    /\ Gravar(r, "baixa", [encomendas[pedido[r].e] EXCEPT
                              !.status = "retirada", !.baixa = TRUE,
                              !.entregue_por = pedido[r].ator,
                              !.entregue_para = pedido[r].pessoa],
              "gravada")

\* Mutant of GravarBaixaCancelada: the write-off inserts no event.
GravarBaixaCancelada_SemEvento(r) ==
    /\ pedido[r] # Nulo /\ pedido[r].alvo = "cancelada"
    /\ Gravar(r, "baixa", [encomendas[pedido[r].e] EXCEPT
                              !.status = "cancelada", !.baixa = TRUE],
              "registrada")

GravarBaixaCancelada(r) ==
    /\ pedido[r] # Nulo /\ pedido[r].alvo = "cancelada"
    /\ Gravar(r, "baixa", [encomendas[pedido[r].e] EXCEPT
                              !.status = "cancelada", !.baixa = TRUE],
              "gravada")

GravarRestore(r) ==
    Gravar(r, "restore", [encomendas[pedido[r].e] EXCEPT !.deleted = FALSE], "registrada")

\* Mutant of GravarRemove: deleted_by is written into deleted_at.
GravarRemove_ColunaTrocada(r) ==
    Gravar(r, "remove", [encomendas[pedido[r].e] EXCEPT !.deleted = pedido[r].ator], "registrada")

GravarRemove(r) ==
    Gravar(r, "remove", [encomendas[pedido[r].e] EXCEPT !.deleted = TRUE], "registrada")

\* Mutant of RegistrarEvento: the handler returns after the event "recebida".
RegistrarEvento_SemPromocao(r) ==
    /\ fase[r] = "gravada"
    /\ registro' = [registro EXCEPT ![r] = Append(@,
                       [acao |-> "atualizada", status |-> imagem[r].status])]
    /\ fase' = [fase EXCEPT ![r] = "registrada"]
    /\ UNCHANGED <<tabelas, emitidos, pedido, imagem, pushes>>

\* schedulePushAfterCommit of the notices of ev, while their transaction is open.
AgendarPush(r, ev) ==
    pushes' = pushes \cup
        {[r |-> r, e |-> pedido[r].e, destino |-> a.destino, tipo |-> a.tipo, enviado |-> FALSE] :
            a \in {b \in Avisos(ev, PerfilDe[pedido[r].ator], imagem[r].uuid_usuario) :
                     b.tipo \in ComPush}}

\* The event of the row's status and its notices, in the same transaction.
\* The insert waits for a hardRemove that has deleted the history of e.
RegistrarEvento(r) ==
    /\ fase[r] = "gravada"
    /\ \A s \in Requisicao \ {r} :
          ~(fase[s] = "filhosApagados" /\ pedido[s].e = pedido[r].e)
    /\ LET primeiro == pedido[r].op = "create" /\ registro[r] = <<>>
           ev == [acao |-> IF primeiro THEN "criada" ELSE "atualizada", status |-> imagem[r].status]
       IN  registro' = [registro EXCEPT ![r] = Append(@, ev)] /\ AgendarPush(r, ev)
    /\ fase' = [fase EXCEPT ![r] = IF imagem[r].status = "recebida"
                                      THEN "recebida" ELSE "registrada"]
    /\ UNCHANGED <<tabelas, emitidos, pedido, imagem>>

\* "recebida" lasts until the next statement of the same transaction.
Promover(r) ==
    /\ fase[r] = "recebida"
    /\ imagem' = [imagem EXCEPT ![r].status = "aguardando"]
    /\ fase' = [fase EXCEPT ![r] = "gravada"]
    /\ UNCHANGED <<tabelas, emitidos, pedido, registro, pushes>>

-----------------------------------------------------------------------------
(* Ending the transaction.                                                 *)

\* The transaction of r is over; its uncommitted work and its locks are gone.
Encerrar(r, fim) ==
    /\ fase' = [fase EXCEPT ![r] = fim]
    /\ pedido' = [pedido EXCEPT ![r] = Nulo]
    /\ imagem' = [imagem EXCEPT ![r] = Nulo]
    /\ registro' = [registro EXCEPT ![r] = <<>>]
    /\ UNCHANGED emitidos

AvisosDe(r) ==
    UNION {Avisos(registro[r][i], PerfilDe[pedido[r].ator], imagem[r].uuid_usuario) :
              i \in DOMAIN registro[r]}

\* Mutant of Releitura: the handler returns without reading again.
Releitura_Dispensada(r) == TRUE

\* findActiveByUuid once more: the transaction sees the row it has written,
\* deleted_at included, whoever set it. remove does not read again.
Releitura(r) == pedido[r].op = "remove" \/ ~imagem[r].deleted

\* The handler returns: the audit row is inserted and the transaction commits.
Confirmar(r) ==
    LET e == pedido[r].e
    IN  /\ fase[r] = "registrada"
        /\ Releitura(r)
        /\ encomendas' = [encomendas EXCEPT ![e] = imagem[r]]
        /\ eventos' = [eventos EXCEPT ![e] = @ \o registro[r]]
        /\ notificacoes' = notificacoes \cup
               {[e |-> e, destino |-> a.destino, tipo |-> a.tipo, r |-> r] : a \in AvisosDe(r)}
        /\ Encerrar(r, "confirmada")
        /\ UNCHANGED pushes

\* The transaction is rolled back. Its promise is rejected, so that the callbacks
\* that waited for it only write a warning; without a promise nothing stops them.
Desfazer(r) ==
    /\ Encerrar(r, "desfeita")
    /\ pushes' = IF TemPromessa THEN {p \in pushes : p.r # r} ELSE pushes
    /\ UNCHANGED tabelas

\* Mutant of FalharReleitura: the error is swallowed, the transaction stays open.
FalharReleitura_Engolida(r) ==
    fase[r] = "registrada" /\ ~Releitura(r) /\ UNCHANGED vars

\* The last read does not find the parcel: NotFoundException, rollback.
FalharReleitura(r) ==
    /\ fase[r] = "registrada"
    /\ ~Releitura(r)
    /\ Desfazer(r)

\* Mutant of GravarSemLinha: no foreign key, the movement of a parcel that is
\* gone inserts its event and commits.
GravarSemLinha_SemChave(r) ==
    /\ fase[r] = "lida"
    /\ pedido[r].op # "hardRemove"
    /\ encomendas[pedido[r].e] = Nulo
    /\ eventos' = [eventos EXCEPT ![pedido[r].e] =
                      Append(@, [acao |-> "atualizada", status |-> pedido[r].alvo])]
    /\ Encerrar(r, "confirmada")
    /\ UNCHANGED <<encomendas, notificacoes, pushes>>

\* The parcel was hard-removed after it was read: the UPDATE matches no row.
\* update and remove end well, restore finds nothing to return and a movement
\* fails on the foreign key of its event.
GravarSemLinha(r) ==
    /\ fase[r] = "lida"
    /\ pedido[r].op # "hardRemove"
    /\ encomendas[pedido[r].e] = Nulo
    /\ Encerrar(r, IF pedido[r].op \in {"update", "remove"} THEN "confirmada" ELSE "desfeita")
    /\ UNCHANGED <<tabelas, pushes>>

\* hardRemove deletes the history and the notices first. The delete waits for
\* movements of e that are not committed and keeps new ones out.
ApagarFilhos(r) ==
    /\ fase[r] = "lida"
    /\ pedido[r].op = "hardRemove"
    /\ \A s \in Requisicao \ {r} :
          ~(/\ NoAberto(s)
            /\ pedido[s].e = pedido[r].e
            /\ fase[s] = "filhosApagados" \/ registro[s] # <<>>)
    /\ fase' = [fase EXCEPT ![r] = "filhosApagados"]
    /\ UNCHANGED <<tabelas, emitidos, pedido, imagem, registro, pushes>>

\* Then the row, which no child refers to any more, and commits.
ApagarLinha(r) ==
    LET e == pedido[r].e
    IN  /\ fase[r] = "filhosApagados"
        /\ RowLivre(r, e)
        /\ encomendas' = [encomendas EXCEPT ![e] = Nulo]
        /\ eventos' = [eventos EXCEPT ![e] = <<>>]
        /\ notificacoes' = {n \in notificacoes : n.e # e}
        /\ Encerrar(r, "confirmada")
        /\ UNCHANGED pushes

\* The transaction fails between two statements: an invalid image, a lost
\* connection, a lock wait that timed out, the API process killed.
Abortar(r) == NoAberto(r) /\ Desfazer(r)

\* r holds what s waits for and s what r waits for: a movement has the row and
\* wants to insert its event, a hardRemove has the events and wants the row.
Impasse(r, s) ==
    /\ fase[r] = "gravada"
    /\ fase[s] = "filhosApagados"
    /\ pedido[r].e = pedido[s].e

\* InnoDB rolls back one of the two.
VitimaDeImpasse ==
    \E r, s \in Requisicao : Impasse(r, s) /\ (Desfazer(r) \/ Desfazer(s))

\* A scheduled push goes to Firebase.
Enviar(p) ==
    /\ p \in pushes /\ ~p.enviado
    /\ pushes' = (pushes \ {p}) \cup {[p EXCEPT !.enviado = TRUE]}
    /\ UNCHANGED <<tabelas, emitidos, fase, pedido, imagem, registro>>

\* Mutant of DespacharPush: setImmediate, whatever becomes of the transaction.
DespacharPush_SemEspera == \E p \in pushes : Enviar(p)

\* A callback runs: that of the promise, which the commit resolves, or that of
\* setImmediate if there is none. Whatever comes of it, or if the process dies
\* first, it is not tried again.
DespacharPush == \E p \in pushes : (TemPromessa => fase[p.r] = "confirmada") /\ Enviar(p)

\* No transaction is open and the API waits for the next request.
Ocioso ==
    /\ \A r \in Requisicao : ~NoAberto(r)
    /\ UNCHANGED vars

Comeca(r) ==
    /\ Vaga(r)
    /\ \/ CreateMorador(r) \/ CreatePortaria(r) \/ CreateAdmin(r) \/ CreateEntregue(r)
       \/ LerUpdate(r) \/ LerRecebida(r) \/ LerRetirada(r) \/ LerOutroStatus(r)
       \/ LerBaixa(r) \/ LerRestore(r) \/ LerRemove(r) \/ LerHardRemove(r)

Prossegue(r) ==
    \/ GravarUpdate(r) \/ GravarRecebida(r) \/ GravarRetirada(r) \/ GravarOutroStatus(r)
    \/ GravarBaixaRetirada(r) \/ GravarBaixaCancelada(r)
    \/ GravarRestore(r) \/ GravarRemove(r) \/ GravarSemLinha(r)
    \/ RegistrarEvento(r) \/ Promover(r)
    \/ Confirmar(r) \/ FalharReleitura(r) \/ ApagarFilhos(r) \/ ApagarLinha(r)

Next ==
    \/ \E r \in Requisicao : Comeca(r) \/ Prossegue(r) \/ Abortar(r)
    \/ VitimaDeImpasse
    \/ DespacharPush
    \/ Ocioso

Spec == Init /\ [][Next]_vars

\* Node runs every pending continuation, InnoDB grants a free lock and breaks
\* a deadlock; nobody promises that another request arrives.
Justica ==
    /\ \A r \in Requisicao : WF_vars(Prossegue(r))
    /\ WF_vars(VitimaDeImpasse)

FairSpec == Spec /\ Justica

-----------------------------------------------------------------------------
(* Properties.                                                             *)

\* Every variable holds a value of its kind.
TypeOK ==
    /\ encomendas \in [Encomenda -> Linha \cup {Nulo}]
    /\ eventos \in [Encomenda -> Seq(Evento)]
    /\ notificacoes \subseteq [e: Encomenda, destino: Usuario, tipo: TipoAviso, r: Requisicao]
    /\ emitidos \subseteq Encomenda
    /\ fase \in [Requisicao -> Fase]
    /\ pedido \in [Requisicao -> Pedido \cup {Nulo}]
    /\ imagem \in [Requisicao -> Linha \cup {Nulo}]
    /\ registro \in [Requisicao -> Seq(Evento)]
    /\ pushes \subseteq Push

\* The last history row of a parcel tells the status the parcel has, however
\* requests interleave and wherever they fail: registerStatusEvent runs in the
\* transaction of the status change, under the lock of the row, and no other
\* operation writes the status.
UltimoEventoContaOStatus ==
    \A e \in Encomenda : encomendas[e] # Nulo =>
        /\ eventos[e] # <<>>
        /\ eventos[e][Len(eventos[e])].status = encomendas[e].status

\* A reader of committed rows never meets the passing status "recebida", a
\* parcel seen as picked up has its hand-over recorded (entregue_em, entregue_por).
EstadoConfirmado ==
    \A e \in Encomenda : encomendas[e] # Nulo =>
        /\ encomendas[e].status # "recebida"
        /\ encomendas[e].status = "retirada" => encomendas[e].entregue_por # Nulo

\* Whoever a parcel was handed over to is its holder or a morador of its
\* condominium and of the holder's unit: validateEntregueParaUsuario judged the
\* snapshot, and neither a concurrent write-off nor another hand-over may put
\* somebody else there.
EntregueAQuemPodia ==
    \A e \in Encomenda :
        LET l == encomendas[e]
            u == l.entregue_para
        IN  l # Nulo /\ u # Nulo =>
                \/ u = l.uuid_usuario
                \/ /\ PerfilDe[u] = "morador"
                   /\ CondominioDe[u] = l.uuid_condominio
                   /\ UnidadeDe[u] = UnidadeDe[l.uuid_usuario]

\* The holder was told of a hand-over or a cancellation exactly when the
\* history records it: both inserts share the transaction of the movement.
AvisoAcompanhaEvento ==
    \A e \in Encomenda :
        /\ (\E i \in DOMAIN eventos[e] : eventos[e][i] = [acao |-> "atualizada", status |-> "retirada"])
               <=> (\E n \in notificacoes : n.e = e /\ n.tipo = "entregue")
        /\ (\E i \in DOMAIN eventos[e] : eventos[e][i].status = "cancelada")
               <=> (\E n \in notificacoes : n.e = e /\ n.tipo = "cancelada")

\* No history row and no notice of a parcel that does not exist, whatever order
\* a hardRemove and the movements it overlaps with end in (foreign keys of
\* encomendas_eventos and notificacoes).
SemOrfaos ==
    \A e \in Encomenda : encomendas[e] = Nulo =>
        /\ eventos[e] = <<>>
        /\ \A n \in notificacoes : n.e # e

\* What the phones are told is in the table: a push that was sent was scheduled by a
\* movement that did commit afterwards, and its notice is there to be opened unless a
\* hardRemove deleted the parcel since; every notice of a reception has its push
\* scheduled. A push is scheduled in the middle of a transaction that may yet fail,
\* before its row is promoted, read again or audited (schedulePushAfterCommit).
PushAcompanhaAviso ==
    LET Do(p) == [e |-> p.e, destino |-> p.destino, tipo |-> p.tipo, r |-> p.r]
    IN  /\ \A p \in pushes : p.enviado =>
              Do(p) \in notificacoes \/ (fase[p.r] = "confirmada" /\ encomendas[p.e] = Nulo)
        /\ \A n \in notificacoes : n.tipo \in ComPush => \E p \in pushes : Do(p) = n

Confirma(r) == fase[r] = "registrada" /\ fase'[r] = "confirmada"

\* While a parcel is soft-deleted no request changes its status or its
\* hand-over, also one that had read it before the deletion committed: the last
\* findActiveByUuid of the handler then fails and rolls it back.
RemovidaNaoMuda ==
    [][\A e \in Encomenda :
          (encomendas[e] # Nulo /\ encomendas'[e] # Nulo /\ encomendas[e].deleted) =>
              /\ encomendas'[e].status = encomendas[e].status
              /\ encomendas'[e].entregue_para = encomendas[e].entregue_para]_vars

\* A hand-over is recorded only over a parcel that was waiting for it.
RetiradaSoDeAguardando ==
    [][\A r \in Requisicao : Confirma(r) /\ pedido[r].op = "retirada" =>
          encomendas[pedido[r].e].status = "aguardando"]_vars

\* Every transaction that was opened ends, whatever it waits for.
TodaRequisicaoTermina == \A r \in Requisicao : NoAberto(r) ~> ~NoAberto(r)

\* The committed tables follow the life of a parcel of CicloEncomenda.
Situacao(e) ==
    IF encomendas[e] = Nulo
    THEN [status |-> "ausente", removida |-> FALSE, entregue |-> FALSE]
    ELSE [status |-> encomendas[e].status, removida |-> encomendas[e].deleted,
          entregue |-> encomendas[e].entregue_por # Nulo]

EmCriacao == {e \in Encomenda : \E r \in Requisicao :
                 pedido[r] # Nulo /\ pedido[r].op = "create" /\ pedido[r].e = e}

Ciclo == INSTANCE CicloEncomenda WITH
    sorteados <- emitidos, emCriacao <- EmCriacao,
    situacao <- [e \in Encomenda |-> Situacao(e)]

CicloDaEncomenda == Ciclo!CicloSpec

=============================================================================
