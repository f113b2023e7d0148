---------------------------- MODULE Dispositivos ----------------------------
(***************************************************************************)
(* The phones that receive pushes: device_tokens, with the two handlers of *)
(* device-tokens.service.ts, and what PushService makes of the answer of   *)
(* Firebase (push.service.ts).                                             *)
(*                                                                         *)
(* No handler opens a transaction. upsert and removeByToken read a row and *)
(* then write by its uuid; sendToUsers reads the tokens of its recipients, *)
(* waits for Firebase and then writes by token. Every statement commits at *)
(* once. What Firebase answers of a token is arbitrary: its codes also     *)
(* cover a bad message. Platform, version, dates and texts are left out.   *)
(***************************************************************************)
EXTENDS Naturals, FiniteSets

CONSTANTS
    Usuario,       \* accounts
    Token,         \* FCM tokens, one per installation of the app
    Requisicao,    \* the requests and pushes of the workload; also the uuids they draw
    Nulo,          \* no row, and no value
    Simultaneas    \* how many of them may be under way at a time (a bound)

ASSUME Valores == Simultaneas \in Nat /\ Nulo \notin Requisicao

\* valido is invalido_em IS NULL, removido is deleted_at IS NOT NULL.
DeviceToken == [uuid: Requisicao, dono: Usuario, valido: BOOLEAN, removido: BOOLEAN]

ASSUME NuloNaoEhLinha == Nulo \notin DeviceToken

Pedido == [op: {"upsert", "remove"}, user: Usuario, token: Token]
          \cup [op: {"push"}, users: SUBSET Usuario]

ASSUME NuloNaoEhPedido == Nulo \notin Pedido

VARIABLES
    registros,    \* token |-> its row, or Nulo; the column is unique
    existentes,   \* the accounts that are still in the table usuarios
    fase,         \* request |-> how far it is
    pedido,       \* request |-> what it asks for
    existente,    \* request |-> the row it has read
    destinos,     \* push |-> the tokens to send to, then those Firebase refused
    isolada       \* request |-> nothing else happened while it was open (history)

vars == <<registros, existentes, fase, pedido, existente, destinos, isolada>>
mundo == <<registros, existentes>>

Init ==
    /\ registros = [t \in Token |-> Nulo]
    /\ existentes = Usuario
    /\ fase = [r \in Requisicao |-> "nova"]
    /\ pedido = [r \in Requisicao |-> Nulo]
    /\ existente = [r \in Requisicao |-> Nulo]
    /\ destinos = [r \in Requisicao |-> {}]
    /\ isolada = [r \in Requisicao |-> TRUE]

Abertas == {r \in Requisicao : fase[r] \in {"lida", "gravada", "enviada"}}

\* The row that r has read is still the one of its token.
Acha(r) ==
    LET l == registros[pedido[r].token]
    IN  l # Nulo /\ existente[r] # Nulo /\ l.uuid = existente[r].uuid

-----------------------------------------------------------------------------
(* Opening.                                                                *)

Ler(r, p, linha, tokens) ==
    /\ fase[r] = "nova"
    /\ Cardinality(Abertas) < Simultaneas
    /\ fase' = [fase EXCEPT ![r] = "lida"]
    /\ pedido' = [pedido EXCEPT ![r] = p]
    /\ existente' = [existente EXCEPT ![r] = linha]
    /\ destinos' = [destinos EXCEPT ![r] = tokens]
    /\ isolada' = [s \in Requisicao |->
          IF s = r THEN Abertas = {} ELSE isolada[s] /\ s \notin Abertas]
    /\ UNCHANGED mundo

\* POST /device-tokens: the row of the token, whosever it is, removed or not.
LerUpsert(r) ==
    \E u \in existentes, t \in Token :
        Ler(r, [op |-> "upsert", user |-> u, token |-> t], registros[t], {})

\* DELETE /device-tokens/:token: only a row of the caller's own.
LerRemocao(r) ==
    \E u \in existentes, t \in Token :
        /\ registros[t] # Nulo
        /\ registros[t].dono = u
        /\ ~registros[t].removido
        /\ Ler(r, [op |-> "remove", user |-> u, token |-> t], registros[t], {})

\* The tokens of the accounts us that a push is sent to.
Alcancaveis(us) ==
    {t \in Token : /\ registros[t] # Nulo
                   /\ registros[t].dono \in us
                   /\ registros[t].valido
                   /\ ~registros[t].removido}

\* sendToUsers, which gives up when there is nobody to send to.
LerDestinos(r) ==
    \E us \in SUBSET Usuario :
        /\ Alcancaveis(us) # {}
        /\ Ler(r, [op |-> "push", users |-> us], Nulo, Alcancaveis(us))

-----------------------------------------------------------------------------
(* Going on.                                                               *)

Passo(r, op, de, a) ==
    /\ fase[r] = de
    /\ pedido[r].op = op
    /\ fase' = [fase EXCEPT ![r] = a]
    /\ UNCHANGED <<existentes, pedido, isolada>>

\* Mutant of Ativa: a registration that was removed or invalid stays so.
Ativa_SemReativar(r, uuid) ==
    [uuid |-> uuid, dono |-> pedido[r].user,
     valido |-> existente[r] = Nulo \/ existente[r].valido,
     removido |-> existente[r] # Nulo /\ existente[r].removido]

\* The row as a registration writes it: of the caller, valid, not removed.
Ativa(r, uuid) == [uuid |-> uuid, dono |-> pedido[r].user, valido |-> TRUE, removido |-> FALSE]

\* UPDATE by the uuid read, which may match no row any more.
Atualizar(r) ==
    /\ Passo(r, "upsert", "lida", "gravada")
    /\ existente[r] # Nulo
    /\ Acha(r) => pedido[r].user \in existentes
    /\ registros' = IF Acha(r)
                    THEN [registros EXCEPT ![pedido[r].token] = Ativa(r, existente[r].uuid)]
                    ELSE registros
    /\ UNCHANGED <<existente, destinos>>

\* INSERT of a new row, whose uuid is r.
Inserir(r) ==
    /\ Passo(r, "upsert", "lida", "gravada")
    /\ existente[r] = Nulo
    /\ registros[pedido[r].token] = Nulo
    /\ pedido[r].user \in existentes
    /\ registros' = [registros EXCEPT ![pedido[r].token] = Ativa(r, r)]
    /\ existente' = [existente EXCEPT ![r] = Ativa(r, r)]
    /\ UNCHANGED destinos

\* The unique index on token or the foreign key on uuid_usuario refuses.
ViolarChave(r) ==
    /\ Passo(r, "upsert", "lida", "falhou")
    /\ \/ existente[r] = Nulo /\ registros[pedido[r].token] # Nulo
       \/ (existente[r] = Nulo \/ Acha(r)) /\ pedido[r].user \notin existentes
    /\ UNCHANGED <<registros, existente, destinos>>

\* Mutant of Responder: the answer is the row alone, or nothing said of it.
Responder_SemProcurar(r) ==
    /\ Passo(r, "upsert", "gravada", "respondida")
    /\ existente' = [existente EXCEPT ![r] = [uuid |-> @.uuid]]
    /\ UNCHANGED <<registros, destinos>>

\* findByUuid, the answer of upsert; 404 when the row is gone.
Responder(r) ==
    /\ Passo(r, "upsert", "gravada", IF Acha(r) THEN "respondida" ELSE "falhou")
    /\ existente' = [existente EXCEPT ![r] = IF Acha(r) THEN registros[pedido[r].token] ELSE Nulo]
    /\ UNCHANGED <<registros, destinos>>

\* Mutant of MarcarRemovido: the row is written back as it was read.
MarcarRemovido_GravaOLido(r) ==
    /\ Passo(r, "remove", "lida", "respondida")
    /\ registros' = IF Acha(r)
                    THEN [registros EXCEPT ![pedido[r].token] = [existente[r] EXCEPT !.removido = TRUE]]
                    ELSE registros
    /\ UNCHANGED <<existente, destinos>>

\* UPDATE ... SET deleted_at WHERE uuid.
MarcarRemovido(r) ==
    /\ Passo(r, "remove", "lida", "respondida")
    /\ registros' = IF Acha(r)
                    THEN [registros EXCEPT ![pedido[r].token].removido = TRUE] ELSE registros
    /\ UNCHANGED <<existente, destinos>>

\* Firebase takes the message and refuses some of the tokens.
Enviar(r) ==
    \E recusados \in SUBSET destinos[r] :
        /\ Passo(r, "push", "lida", IF recusados = {} THEN "respondida" ELSE "enviada")
        /\ destinos' = [destinos EXCEPT ![r] = recusados]
        /\ UNCHANGED <<registros, existente>>

\* markTokensInvalid, by token.
Invalidar(r) ==
    /\ Passo(r, "push", "enviada", "respondida")
    /\ registros' = [t \in Token |-> IF t \in destinos[r] /\ registros[t] # Nulo
                                     THEN [registros[t] EXCEPT !.valido = FALSE] ELSE registros[t]]
    /\ UNCHANGED <<existente, destinos>>

\* A statement or the call to Firebase fails, or the process stops.
Interromper(r) ==
    /\ r \in Abertas
    /\ fase' = [fase EXCEPT ![r] = "falhou"]
    /\ UNCHANGED <<mundo, pedido, existente, destinos, isolada>>

-----------------------------------------------------------------------------
(* hardRemove of an account: the foreign key takes its devices along.      *)

Apagar(u, linhas) ==
    /\ u \in existentes
    /\ existentes' = existentes \ {u}
    /\ registros' = linhas
    /\ isolada' = [r \in Requisicao |-> isolada[r] /\ r \notin Abertas]
    /\ UNCHANGED <<fase, pedido, existente, destinos>>

ApagarConta(u) ==
    Apagar(u, [t \in Token |-> IF registros[t] # Nulo /\ registros[t].dono = u
                               THEN Nulo ELSE registros[t]])

Ocioso == Abertas = {} /\ UNCHANGED vars

Comeca(r) == LerUpsert(r) \/ LerRemocao(r) \/ LerDestinos(r)

Prossegue(r) ==
    \/ Atualizar(r) \/ Inserir(r) \/ ViolarChave(r) \/ Responder(r)
    \/ MarcarRemovido(r) \/ Enviar(r) \/ Invalidar(r) \/ Interromper(r)

Next ==
    \/ \E r \in Requisicao : Comeca(r) \/ Prossegue(r)
    \/ \E u \in Usuario : ApagarConta(u)
    \/ Ocioso

Spec == Init /\ [][Next]_vars

-----------------------------------------------------------------------------
(* Properties.                                                             *)

\* Every variable holds a value of its kind.
TypeOK ==
    /\ registros \in [Token -> DeviceToken \cup {Nulo}]
    /\ existentes \subseteq Usuario
    /\ fase \in [Requisicao -> {"nova", "lida", "gravada", "enviada", "respondida", "falhou"}]
    /\ pedido \in [Requisicao -> Pedido \cup {Nulo}]
    /\ existente \in [Requisicao -> DeviceToken \cup {Nulo}]
    /\ destinos \in [Requisicao -> SUBSET Token]
    /\ isolada \in [Requisicao -> BOOLEAN]

\* A device belongs to an account that exists, and a registration that had read
\* a device of an account deleted meanwhile does not bring it back.
SoDeContasExistentes ==
    \A t \in Token : registros[t] # Nulo => registros[t].dono \in existentes

\* A device changes hands only by a registration of the account that gets it,
\* and comes back from removal or invalidity only so: a removal or an
\* invalidation that is late writes its own column and never the owner.
DonoSoPorRegistro ==
    [][\A t \in Token :
          LET l == registros[t]  m == registros'[t]
          IN  (l # Nulo /\ m # Nulo /\ (m.dono # l.dono \/ (m.valido /\ ~l.valido)
                                       \/ (l.removido /\ ~m.removido))) =>
                 \E r \in Requisicao :
                    /\ fase[r] = "lida" /\ fase'[r] = "gravada"
                    /\ pedido[r].token = t /\ pedido[r].user = m.dono]_vars

\* What r must have achieved or respected when it takes this step.
Cumpre(r) ==
    CASE pedido[r].op = "upsert" /\ fase'[r] = "respondida" ->
            LET l == registros'[pedido[r].token]
            IN  l.dono = pedido[r].user /\ l.valido /\ ~l.removido
      [] pedido[r].op = "remove" /\ fase'[r] = "respondida" ->
            /\ registros[pedido[r].token].dono = pedido[r].user
            /\ registros'[pedido[r].token].removido
      [] pedido[r].op = "push" /\ fase[r] = "lida" ->
            destinos[r] \subseteq Alcancaveis(pedido[r].users)
      [] pedido[r].op = "push" /\ fase[r] = "enviada" /\ fase'[r] = "respondida" ->
            \A t \in destinos[r] : registros'[t] # Nulo => ~registros'[t].valido
      [] OTHER -> TRUE

\* Without overlap, an answered registration leaves the device active and the
\* caller's, a removal takes a device of the caller's out, a push goes to
\* active devices of its recipients only, and what Firebase refused gets no
\* further push. With overlap a device may change hands between read and write,
\* and then all four fail.
IsoladaCumpre ==
    [][\A r \in Requisicao : isolada[r] /\ fase[r] # "nova" /\ fase'[r] # fase[r]
          /\ fase'[r] # "falhou" => Cumpre(r)]_vars

=============================================================================
