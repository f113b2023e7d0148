----------------------------- MODULE Notificacoes -----------------------------
(***************************************************************************)
(* The notices after they were written: the handlers of                    *)
(* notificacoes.controller.ts, each in a transaction, and the daily        *)
(* reminder of notificacoes.service.ts, which reads the parcels that wait, *)
(* inserts a notice for each, commits and then pushes.                     *)
(*                                                                         *)
(* As elsewhere a handler reads on a snapshot, checks in JavaScript and    *)
(* writes UPDATE ... WHERE uuid, which acts on the rows as last committed  *)
(* and keeps them locked to the end of the transaction. A statement on     *)
(* several rows takes them at once here.                                   *)
(*                                                                         *)
(* Parcels are what the reminder sees of them: those that exist and those  *)
(* that wait. Texts, dates and the audit row are left out.                 *)
(***************************************************************************)
EXTENDS Naturals, FiniteSets, Functions

CONSTANTS
    Notificacao,   \* uuids of notices
    Usuario,       \* accounts
    PerfilDe,      \* usuarios.perfil
    Encomenda,     \* parcels
    TitularDe,     \* encomendas.uuid_usuario
    Requisicao,    \* requests, and runs of the reminder job
    Nulo,          \* no row, no parcel
    Semente,       \* the notices there are at first
    Simultaneas    \* how many requests may be open at a time (a bound)

Perfil == {"super", "admin", "portaria", "morador"}
Operacao == {"marcar", "marcarVarias", "marcarTodas", "restaurar", "remover", "apagar",
             "novoMorador", "lembrete"}

\* A row: lida is lido_em IS NOT NULL, removida is deleted_at IS NOT NULL.
Linha == [dono: Usuario, encomenda: Encomenda \cup {Nulo}, lida: BOOLEAN, removida: BOOLEAN]

Pedido == [op: Operacao, ator: Usuario \cup {Nulo}, alvos: SUBSET Notificacao]

ASSUME Tabelas ==
    /\ PerfilDe \in [Usuario -> Perfil]
    /\ TitularDe \in [Encomenda -> Usuario]
    /\ Semente \in [Notificacao -> Linha \cup {Nulo}]
    /\ Simultaneas \in Nat
    /\ Nulo \notin Linha /\ Nulo \notin Pedido /\ Nulo \notin Encomenda /\ Nulo \notin Usuario

VARIABLES
    notificacoes,   \* the committed table: uuid |-> row, or Nulo
    emitidas,       \* the uuids randomUUID has returned
    existentes,     \* parcels that are in the table encomendas
    aguardando,     \* those of them that wait for their owner and are not removed
    fase,           \* request |-> where it stands
    pedido,         \* request |-> what it asks for
    imagem,         \* request |-> the rows it has written and not committed
    pendentes,      \* reminder |-> the parcels it has read
    avisados        \* reminder |-> the users it has pushed to

mundo == <<existentes, aguardando>>
vars == <<notificacoes, emitidas, mundo, fase, pedido, imagem, pendentes, avisados>>

Nenhuma == [n \in {} |-> Nulo]

Init ==
    /\ notificacoes = Semente
    /\ emitidas = {n \in Notificacao : Semente[n] # Nulo}
    /\ existentes = Encomenda
    /\ aguardando \in SUBSET Encomenda
    /\ fase = [r \in Requisicao |-> "nova"]
    /\ pedido = [r \in Requisicao |-> Nulo]
    /\ imagem = [r \in Requisicao |-> Nenhuma]
    /\ pendentes = [r \in Requisicao |-> {}]
    /\ avisados = [r \in Requisicao |-> {}]

-----------------------------------------------------------------------------
(* Reading and checking.                                                   *)

Com(ps) == {u \in Usuario : PerfilDe[u] \in ps}
Existe(n) == notificacoes[n] # Nulo

\* findActiveByUuid
Ativa(n) == Existe(n) /\ ~notificacoes[n].removida

\* assertWriteAccess: the own notices, or a super.
PodeEscrever(n, u) == PerfilDe[u] = "super" \/ notificacoes[n].dono = u

Aberta(r) == fase[r] \in {"lida", "gravada"}

Abrir(r, p, proxima) ==
    /\ fase[r] = "nova"
    /\ Cardinality({s \in Requisicao : Aberta(s)}) < Simultaneas
    /\ fase' = [fase EXCEPT ![r] = proxima]
    /\ pedido' = [pedido EXCEPT ![r] = p]
    /\ UNCHANGED <<notificacoes, mundo, avisados>>

Ler(r, op, u, ns) ==
    /\ Abrir(r, [op |-> op, ator |-> u, alvos |-> ns], "lida")
    /\ UNCHANGED <<emitidas, imagem, pendentes>>

\* PATCH :id/mark-as-read and DELETE :id
LerUma(r) ==
    \E op \in {"marcar", "remover"}, u \in Usuario, n \in Notificacao :
        Ativa(n) /\ PodeEscrever(n, u) /\ Ler(r, op, u, {n})

\* Mutant of LerVarias: one notice of the caller's own is enough.
LerVarias_Alguma(r) ==
    \E u \in Usuario, ns \in (SUBSET Notificacao) \ {{}} :
        /\ \A n \in ns : Ativa(n)
        /\ \E n \in ns : PodeEscrever(n, u)
        /\ Ler(r, "marcarVarias", u, ns)

\* PATCH mark-as-read: different uuids (ArrayUnique), all found and all the caller's.
LerVarias(r) ==
    \E u \in Usuario, ns \in (SUBSET Notificacao) \ {{}} :
        /\ \A n \in ns : Ativa(n) /\ PodeEscrever(n, u)
        /\ Ler(r, "marcarVarias", u, ns)

\* PATCH :id/restore, whosever the notice is.
LerRestore(r) ==
    \E u \in Com({"super", "admin"}), n \in Notificacao :
        Existe(n) /\ notificacoes[n].removida /\ Ler(r, "restaurar", u, {n})

\* DELETE :id/hard
LerHardRemove(r) ==
    \E u \in Com({"super"}), n \in Notificacao : Existe(n) /\ Ler(r, "apagar", u, {n})

-----------------------------------------------------------------------------
(* Writing.                                                                *)

Segura(r, n) == n \in DOMAIN imagem[r]
Livres(r, ns) == \A s \in Requisicao \ {r}, n \in ns : ~Segura(s, n)

\* What a WHERE uuid finds of the notices asked for: the rows that are still there.
Achadas(r) == {n \in pedido[r].alvos : Existe(n)}

\* UPDATE or DELETE ... WHERE uuid, which leaves the rows found as in novas.
Gravar(r, ops, novas) ==
    /\ fase[r] = "lida"
    /\ pedido[r].op \in ops
    /\ Livres(r, Achadas(r))
    /\ imagem' = [imagem EXCEPT ![r] = novas]
    /\ fase' = [fase EXCEPT ![r] = "gravada"]
    /\ UNCHANGED <<notificacoes, emitidas, mundo, pedido, pendentes, avisados>>

GravarLeitura(r) ==
    Gravar(r, {"marcar", "marcarVarias"},
           [n \in Achadas(r) |-> [notificacoes[n] EXCEPT !.lida = TRUE]])

GravarRemocao(r) ==
    Gravar(r, {"remover"}, [n \in Achadas(r) |-> [notificacoes[n] EXCEPT !.removida = TRUE]])

GravarRestauro(r) ==
    Gravar(r, {"restaurar"}, [n \in Achadas(r) |-> [notificacoes[n] EXCEPT !.removida = FALSE]])

GravarApagamento(r) == Gravar(r, {"apagar"}, [n \in Achadas(r) |-> Nulo])

\* PATCH mark-all-as-read: one UPDATE, which reads and checks nothing before.
MarcarTodas(r) ==
    \E u \in Usuario :
        LET ns == {n \in Notificacao : Ativa(n) /\ notificacoes[n].dono = u /\ ~notificacoes[n].lida}
        IN  /\ Livres(r, {n \in Notificacao : Existe(n) /\ notificacoes[n].dono = u})
            /\ Abrir(r, [op |-> "marcarTodas", ator |-> u, alvos |-> ns], "gravada")
            /\ imagem' = [imagem EXCEPT ![r] = [n \in ns |-> [notificacoes[n] EXCEPT !.lida = TRUE]]]
            /\ UNCHANGED <<emitidas, pendentes>>

\* The notices of a reminder: of each parcel it has read, to the owner of the parcel.
Lembretes(r) == {[dono |-> TitularDe[e], encomenda |-> e] : e \in pendentes[r]}

\* insertManyInTrx: a new row for each of the notices.
Novas(r, avisos) ==
    \E ns \in SUBSET (Notificacao \ emitidas) :
        /\ Cardinality(ns) = Cardinality(avisos)
        /\ \E aviso \in Bijection(ns, avisos) :
              imagem' = [imagem EXCEPT ![r] = [n \in ns |->
                  [dono |-> aviso[n].dono, encomenda |-> aviso[n].encomenda,
                   lida |-> FALSE, removida |-> FALSE]]]
        /\ emitidas' = emitidas \cup ns

\* registrarNotificacoesNovoMoradorEmTrx, of a sign-up: every admin, of any condominium.
InserirNovoMorador(r) ==
    /\ Abrir(r, [op |-> "novoMorador", ator |-> Nulo, alvos |-> {}], "gravada")
    /\ Novas(r, {[dono |-> a, encomenda |-> Nulo] : a \in Com({"admin"})})
    /\ UNCHANGED pendentes

\* criarLembretesDiariosPendenciasRetirada: the parcels that wait.
LerPendentes(r) ==
    /\ aguardando # {}
    /\ Abrir(r, [op |-> "lembrete", ator |-> Nulo, alvos |-> {}], "lida")
    /\ pendentes' = [pendentes EXCEPT ![r] = aguardando]
    /\ UNCHANGED <<emitidas, imagem>>

\* The notices of all of them, to their owners. The foreign key refuses the batch when
\* a parcel of it was deleted since it was read.
InserirLembretes(r) ==
    /\ fase[r] = "lida"
    /\ pedido[r].op = "lembrete"
    /\ pendentes[r] \subseteq existentes
    /\ Novas(r, Lembretes(r))
    /\ fase' = [fase EXCEPT ![r] = "gravada"]
    /\ UNCHANGED <<notificacoes, mundo, pedido, pendentes, avisados>>

-----------------------------------------------------------------------------
(* Ending.                                                                 *)

\* Mutant of Releitura: the answer is not looked up.
Releitura_Dispensada(r) == TRUE

\* What the last statement of a handler must find. A row that is gone is still
\* in the snapshot of the transaction, as it was when it was read.
Releitura(r) ==
    CASE pedido[r].op = "marcar" -> \A n \in DOMAIN imagem[r] : ~imagem[r][n].removida
      [] pedido[r].op = "restaurar" -> pedido[r].alvos \subseteq DOMAIN imagem[r]
      [] OTHER -> TRUE

Encerrar(r, como) ==
    /\ fase' = [fase EXCEPT ![r] = como]
    /\ imagem' = [imagem EXCEPT ![r] = Nenhuma]
    /\ UNCHANGED <<emitidas, mundo, pedido, pendentes, avisados>>

Confirmar(r) ==
    /\ fase[r] = "gravada"
    /\ Releitura(r)
    /\ notificacoes' = [n \in Notificacao |->
          IF Segura(r, n) THEN imagem[r][n] ELSE notificacoes[n]]
    /\ Encerrar(r, "confirmada")

\* The 404 of findActiveByUuid, or the foreign key of a reminder whose parcel
\* was deleted since it was read, which takes the whole batch with it.
Recusar(r) ==
    /\ \/ fase[r] = "gravada" /\ ~Releitura(r)
       \/ fase[r] = "lida" /\ pedido[r].op = "lembrete" /\ ~(pendentes[r] \subseteq existentes)
    /\ Encerrar(r, "desfeita")
    /\ UNCHANGED notificacoes

\* A statement fails, the process dies, or InnoDB takes the transaction as a victim.
Abortar(r) ==
    /\ Aberta(r)
    /\ Encerrar(r, "desfeita")
    /\ UNCHANGED notificacoes

\* Mutant of EnviarPush: the transaction is not awaited.
EnviarPush_SemEspera(r) ==
    /\ fase[r] \in {"gravada", "confirmada"} /\ pedido[r].op = "lembrete" /\ avisados[r] = {}
    /\ avisados' = [avisados EXCEPT ![r] = {TitularDe[e] : e \in pendentes[r]}]
    /\ UNCHANGED <<notificacoes, emitidas, mundo, fase, pedido, imagem, pendentes>>

\* sendToUsers, after the commit: each owner once.
EnviarPush(r) ==
    /\ fase[r] = "confirmada"
    /\ pedido[r].op = "lembrete"
    /\ avisados[r] = {}
    /\ avisados' = [avisados EXCEPT ![r] = {TitularDe[e] : e \in pendentes[r]}]
    /\ UNCHANGED <<notificacoes, emitidas, mundo, fase, pedido, imagem, pendentes>>

-----------------------------------------------------------------------------
(* The parcels (Encomendas), each movement one step.                       *)

\* A parcel is received, or is collected, cancelled or soft-deleted.
Movimentar(e) ==
    /\ e \in existentes
    /\ aguardando' = IF e \in aguardando THEN aguardando \ {e} ELSE aguardando \cup {e}
    /\ UNCHANGED <<notificacoes, emitidas, existentes, fase, pedido, imagem, pendentes, avisados>>

\* hardRemove of a parcel: its notices first, then the row, which an
\* uncommitted reminder of it keeps locked.
ApagarEncomenda(e) ==
    LET ns == {n \in Notificacao : Existe(n) /\ notificacoes[n].encomenda = e}
    IN  /\ e \in existentes
        /\ \A r \in Requisicao : \A n \in DOMAIN imagem[r] :
              n \notin ns /\ (imagem[r][n] # Nulo => imagem[r][n].encomenda # e)
        /\ existentes' = existentes \ {e}
        /\ aguardando' = aguardando \ {e}
        /\ notificacoes' = [n \in Notificacao |-> IF n \in ns THEN Nulo ELSE notificacoes[n]]
        /\ UNCHANGED <<emitidas, fase, pedido, imagem, pendentes, avisados>>

Ocioso == (\A r \in Requisicao : ~Aberta(r)) /\ UNCHANGED vars

Comeca(r) ==
    \/ LerUma(r) \/ LerVarias(r) \/ LerRestore(r) \/ LerHardRemove(r)
    \/ MarcarTodas(r) \/ InserirNovoMorador(r) \/ LerPendentes(r)

Prossegue(r) ==
    \/ GravarLeitura(r) \/ GravarRemocao(r) \/ GravarRestauro(r) \/ GravarApagamento(r)
    \/ InserirLembretes(r) \/ Confirmar(r) \/ Recusar(r) \/ Abortar(r) \/ EnviarPush(r)

Next ==
    \/ \E r \in Requisicao : Comeca(r) \/ Prossegue(r)
    \/ \E e \in Encomenda : Movimentar(e) \/ ApagarEncomenda(e)
    \/ Ocioso

Spec == Init /\ [][Next]_vars

-----------------------------------------------------------------------------
(* Properties.                                                             *)

\* Every variable holds a value of its kind.
TypeOK ==
    /\ notificacoes \in [Notificacao -> Linha \cup {Nulo}]
    /\ emitidas \subseteq Notificacao
    /\ existentes \subseteq Encomenda
    /\ aguardando \subseteq existentes
    /\ fase \in [Requisicao -> {"nova", "lida", "gravada", "confirmada", "desfeita"}]
    /\ pedido \in [Requisicao -> Pedido \cup {Nulo}]
    /\ DOMAIN imagem = Requisicao
    /\ \A r \in Requisicao : imagem[r] \in [DOMAIN imagem[r] -> Linha \cup {Nulo}]
                             /\ DOMAIN imagem[r] \subseteq Notificacao
    /\ pendentes \in [Requisicao -> SUBSET Encomenda]
    /\ avisados \in [Requisicao -> SUBSET Usuario]

\* The state in which a handler that answers leaves the notices it was asked for.
Cumpre(r) ==
    \A n \in pedido[r].alvos : notificacoes'[n] # Nulo =>
        CASE pedido[r].op = "marcar" -> notificacoes'[n].lida /\ ~notificacoes'[n].removida
          [] pedido[r].op \in {"marcarVarias", "marcarTodas"} -> notificacoes'[n].lida
          [] pedido[r].op = "restaurar" -> ~notificacoes'[n].removida
          [] pedido[r].op = "remover" -> notificacoes'[n].removida
          [] pedido[r].op = "apagar" -> FALSE

\* An answer is true when it is given: although every check is done on a
\* snapshot, the notices are then read, restored, removed or gone as it says,
\* and one that somebody removed meanwhile is not answered as marked.
RespostaVerdadeira ==
    [][\A r \in Requisicao : fase[r] = "gravada" /\ fase'[r] = "confirmada" => Cumpre(r)]_vars

\* Whatever overlaps, a notice stays the same person's about the same parcel, and one
\* that was read is never unread again: every handler writes its own columns on the
\* row as it is, none writes back what it read. Only its owner or a super marks or
\* removes it, only a super deletes it (but with its parcel), and only a super or an
\* admin brings it back.
SoQuemPode ==
    [][\A n \in Notificacao : notificacoes[n] # Nulo /\ notificacoes'[n] # notificacoes[n] =>
          LET l == notificacoes[n]  m == notificacoes'[n]
          IN  \/ m = Nulo /\ existentes' # existentes
              \/ \E r \in Requisicao :
                    /\ fase[r] = "gravada" /\ fase'[r] = "confirmada" /\ n \in pedido[r].alvos
                    /\ m # Nulo =>
                          /\ m.dono = l.dono /\ m.encomenda = l.encomenda
                          /\ l.lida => m.lida
                    /\ PerfilDe[pedido[r].ator] # "super" =>
                          /\ m # Nulo
                          /\ (m.lida # l.lida \/ (m.removida /\ ~l.removida)) => l.dono = pedido[r].ator
                          /\ (l.removida /\ ~m.removida) => PerfilDe[pedido[r].ator] = "admin"]_vars

Lembra(l, e) == l # Nulo /\ l.dono = TitularDe[e] /\ l.encomenda = e

\* A super has deleted a notice with DELETE :id/hard.
Apagou == \E s \in Requisicao : fase[s] = "confirmada" /\ pedido[s].op = "apagar"

\* Whoever is reminded finds a parcel. No notice is about a parcel that was deleted,
\* be it deleted while the reminder of it is being written; and a run of the job that
\* committed, or pushed to anybody, has pushed to owners only, and left each owner a
\* notice of each parcel it had read. What others mark, remove or restore meanwhile
\* takes none of them away: only hardRemove of the parcel does, or of a notice.
LembreteEncontrado ==
    /\ \A n \in Notificacao :
          Existe(n) => notificacoes[n].encomenda \in existentes \cup {Nulo}
    /\ \A r \in Requisicao : fase[r] = "confirmada" \/ avisados[r] # {} =>
          /\ avisados[r] \subseteq {TitularDe[e] : e \in pendentes[r]}
          /\ \A e \in pendentes[r] \cap existentes :
                Apagou \/ \E n \in Notificacao : Lembra(notificacoes[n], e)

=============================================================================
