------------------------- MODULE Encomendas_proofs -------------------------
(***************************************************************************)
(* Proofs about Encomendas, for any set of users, parcels and requests and *)
(* any number of requests at a time. The argument has three layers:        *)
(*   - Passo sorts the actions of Next into a few kinds of step, so that   *)
(*     each invariant is looked at once per kind;                          *)
(*   - Base (types, phases, row locks, uuids) says who holds which row;    *)
(*   - Vinculos ties what an open transaction has read or written to the   *)
(*     committed row. The two together are inductive, and the properties   *)
(*     of committed rows follow.                                           *)
(* Three more invariants stand on them: Relato, what the history rows and  *)
(* notices of an open request will tell, from which the refinement of      *)
(* CicloEncomenda follows; PushInv, the pushes that wait beside those      *)
(* notices; and Isoladas, of the requests that nothing overlaps.           *)
(***************************************************************************)
EXTENDS Isolamento, SequenceTheorems, TLAPS

-----------------------------------------------------------------------------
(* The inductive invariant.                                                *)

ComLinha == {"gravada", "recebida", "registrada"}
Movimento == {"create", "recebida", "retirada", "outroStatus", "baixa"}
Marcacao == {"update", "restore", "remove"}

\* A request is open exactly while it has something to do, and holds a row
\* exactly between its first write and its end.
Fases ==
    \A r \in Requisicao :
        /\ NoAberto(r) <=> pedido[r] # Nulo
        /\ fase[r] \in ComLinha <=> imagem[r] # Nulo
        /\ imagem[r] = Nulo => registro[r] = <<>>
        /\ fase[r] = "filhosApagados" => pedido[r].op = "hardRemove"

\* One writer of a row at a time.
Trancas ==
    \A r, s \in Requisicao :
        r # s /\ imagem[r] # Nulo /\ imagem[s] # Nulo => pedido[r].e # pedido[s].e

\* Every parcel that exists or is worked on has a uuid that was drawn.
Emissao ==
    /\ \A e \in Encomenda : encomendas[e] # Nulo => e \in emitidos
    /\ \A r \in Requisicao : pedido[r] # Nulo => pedido[r].e \in emitidos

\* A parcel being created is not in the table, and nobody else can name it.
Criacoes ==
    \A r \in Requisicao : pedido[r] # Nulo /\ pedido[r].op = "create" =>
        /\ encomendas[pedido[r].e] = Nulo
        /\ \A s \in Requisicao \ {r} : pedido[s] # Nulo => pedido[s].e # pedido[r].e

Base == TypeOK /\ Fases /\ Trancas /\ Emissao /\ Criacoes

\* u may stand as entregue_para of the row l.
Habilitado(u, l) ==
    \/ u = l.uuid_usuario
    \/ /\ PerfilDe[u] = "morador"
       /\ CondominioDe[u] = l.uuid_condominio
       /\ UnidadeDe[u] = UnidadeDe[l.uuid_usuario]

MesmoDono(l, m) ==
    l.uuid_usuario = m.uuid_usuario /\ l.uuid_condominio = m.uuid_condominio

\* A hand-over on record names who did it and somebody entitled to it.
EntregaRegular(l) ==
    /\ l.status = "retirada" => l.entregue_por # Nulo
    /\ l.entregue_para # Nulo => Habilitado(l.entregue_para, l)

\* What a request that has read its parcel relies on, while the parcel exists.
\* None of it depends on a column that another request may change.
LidoValido(p) ==
    /\ p.op # "create"
    /\ p.op = "outroStatus" => p.alvo \in {"aguardando", "cancelada"}
    /\ p.op \in {"retirada", "baixa"} /\ encomendas[p.e] # Nulo =>
           p.pessoa # Nulo /\ Habilitado(p.pessoa, encomendas[p.e])

\* The row a movement has written next to the committed one.
MovimentoValido(r) ==
    LET l == imagem[r]
        c == encomendas[pedido[r].e]
    IN  /\ pedido[r].op # "create" => c # Nulo /\ MesmoDono(l, c) /\ l.deleted = c.deleted
        /\ fase[r] # "gravada" =>
               /\ registro[r] # <<>>
               /\ registro[r][Len(registro[r])].status = l.status
        /\ fase[r] = "registrada" => l.status # "recebida"

\* The row an update, a restore or a remove has written.
MarcacaoValida(r) ==
    LET l == imagem[r]
        c == encomendas[pedido[r].e]
    IN  /\ fase[r] = "registrada"
        /\ registro[r] = <<>>
        /\ c # Nulo
        /\ MesmoDono(l, c)
        /\ l.status = c.status
        /\ l.entregue_por = c.entregue_por
        /\ l.entregue_para = c.entregue_para

AbertoValido(r) ==
    /\ fase[r] = "lida" => LidoValido(pedido[r])
    /\ imagem[r] # Nulo =>
           /\ EntregaRegular(imagem[r])
           /\ \/ pedido[r].op \in Movimento /\ MovimentoValido(r)
              \/ pedido[r].op \in Marcacao /\ MarcacaoValida(r)

Abertos == \A r \in Requisicao : AbertoValido(r)

Gravados == \A e \in Encomenda : encomendas[e] # Nulo => EntregaRegular(encomendas[e])

Vinculos ==
    /\ Abertos
    /\ Gravados
    /\ UltimoEventoContaOStatus
    /\ EstadoConfirmado
    /\ SemOrfaos

IInv == Base /\ Vinculos

-----------------------------------------------------------------------------
(* What the holder and later readers are told of: inductive next to IInv.  *)

\* A movement of a parcel that exists is the staff's.
DaEquipe(p) == p.op \in Movimento \ {"create"} => PerfilDe[p.ator] # "morador"

\* A parcel as create inserts it.
LinhaNova(l) ==
    /\ ~l.deleted
    /\ l.status # "cancelada"
    /\ l.status = "retirada" <=> l.entregue_por # Nulo

\* What a movement makes of the status and of the hand-over on record.
EntregaConta(l, c) ==
    /\ l.status # "prevista"
    /\ l.entregue_por # Nulo <=> (c.entregue_por # Nulo \/ l.status = "retirada")

\* The holder is told of ev when it is a hand-over or a cancellation.
EventoAnunciado(ev, perfil) ==
    /\ ev.status = "cancelada" => ev.acao = "atualizada"
    /\ ev = [acao |-> "atualizada", status |-> "retirada"] => perfil # "morador"

RelatoValido(r) ==
    LET p == pedido[r]
        l == imagem[r]
    IN  /\ p # Nulo => DaEquipe(p)
        /\ l # Nulo /\ p.op = "create" =>
              /\ LinhaNova(l)
              /\ fase[r] = "gravada" /\ registro[r] # <<>> => l.status = "aguardando"
        /\ l # Nulo /\ fase[r] = "recebida" => l.status = "recebida"
        /\ l # Nulo /\ p.op \in Movimento \ {"create"} => EntregaConta(l, encomendas[p.e])
        /\ \A i \in DOMAIN registro[r] : EventoAnunciado(registro[r][i], PerfilDe[p.ator])

Relato == (\A r \in Requisicao : RelatoValido(r)) /\ AvisoAcompanhaEvento

-----------------------------------------------------------------------------
(* What stands behind a push, while its request is open and afterwards:    *)
(* inductive next to IInv where transactions have a promise.               *)

\* The notice that p repeats.
AvisoDo(p) == [e |-> p.e, destino |-> p.destino, tipo |-> p.tipo, r |-> p.r]

\* A push of an open request waits, beside a notice the request has inserted; that of
\* a request that has ended is of one that committed, and so was its notice.
PushValido(p) ==
    /\ fase[p.r] \in Aberta \cup {"confirmada"}
    /\ fase[p.r] \in Aberta =>
          /\ ~p.enviado
          /\ pedido[p.r].e = p.e
          /\ [destino |-> p.destino, tipo |-> p.tipo] \in AvisosDe(p.r)
    /\ fase[p.r] = "confirmada" =>
          /\ p.e \in emitidos \ EmCriacao
          /\ AvisoDo(p) \in notificacoes \/ encomendas[p.e] = Nulo

\* Some push repeats the notice of the kind tipo to destino, of r about e.
Agendado(r, e, destino, tipo) ==
    \E p \in pushes : p.r = r /\ p.e = e /\ p.destino = destino /\ p.tipo = tipo

\* Every notice that is pushed has its push, from before its commit on.
AvisosAgendados ==
    /\ \A r \in Requisicao : NoAberto(r) =>
          \A a \in AvisosDe(r) : a.tipo \in ComPush => Agendado(r, pedido[r].e, a.destino, a.tipo)
    /\ \A n \in notificacoes : fase[n.r] = "confirmada"
                               /\ (n.tipo \in ComPush => Agendado(n.r, n.e, n.destino, n.tipo))

PushInv == (\A p \in pushes : PushValido(p)) /\ AvisosAgendados

-----------------------------------------------------------------------------
(* What a request that runs alone still knows: inductive next to IInv.     *)

\* The checks of p hold of its parcel as it is now.
Guarda(p) ==
    LET antes == encomendas[p.e]
    IN  /\ p.op = "recebida" => antes.status = "prevista"
        /\ p.op = "retirada" => antes.status = "aguardando"
        /\ p.op = "baixa" => antes.status \in {"prevista", "recebida", "aguardando"}
        /\ p.op = "remove" /\ PerfilDe[p.ator] = "portaria" =>
              PortariaPodeRemover(antes, p.ator)

Isoladas ==
    \A r \in Requisicao : NoAberto(r) /\ sozinha[r] =>
        /\ \A s \in Requisicao \ {r} : ~NoAberto(s)
        /\ Guarda(pedido[r])

-----------------------------------------------------------------------------
(* The kinds of step.                                                      *)

\* r has read the parcel of p and every check has passed.
Leitura(r, p) ==
    /\ fase[r] = "nova"
    /\ p \in Pedido
    /\ encomendas[p.e] # Nulo
    /\ LidoValido(p)
    /\ DaEquipe(p)
    /\ Guarda(p)
    /\ Ler(r, p)

\* r has inserted the new row l.
Insercao(r, p, l) ==
    /\ fase[r] = "nova"
    /\ p \in Pedido
    /\ p.op = "create"
    /\ p.e \notin emitidos
    /\ l \in Linha
    /\ EntregaRegular(l)
    /\ LinhaNova(l)
    /\ Inserir(r, p, l)

\* r has written l over the row of its parcel.
Escrita(r, op, l, proxima) ==
    LET c == encomendas[pedido[r].e]
    IN  /\ Gravar(r, op, l, proxima)
        /\ l \in Linha
        /\ MesmoDono(l, c)
        /\ \/ /\ op \in Movimento \ {"create"}
              /\ proxima = "gravada"
              /\ l.deleted = c.deleted
              /\ l.status = "retirada" => l.entregue_por # Nulo
              /\ EntregaConta(l, c)
              /\ l.entregue_para = c.entregue_para \/ Habilitado(l.entregue_para, l)
           \/ /\ op \in Marcacao
              /\ proxima = "registrada"
              /\ l.status = c.status
              /\ l.entregue_por = c.entregue_por
              /\ l.entregue_para = c.entregue_para

\* The transaction of r ends and leaves the tables as they were.
FimSemEfeito(r) ==
    /\ NoAberto(r)
    /\ \E fim \in {"confirmada", "desfeita"} : Encerrar(r, fim)
    /\ UNCHANGED tabelas
    /\ \/ fase[r] = "lida" /\ pushes' = pushes
       \/ pushes' = IF TemPromessa THEN {p \in pushes : p.r # r} ELSE pushes

\* Every request that reads a parcel ends up in Leitura.
LEMMA LeituraDe ==
    ASSUME Base, NEW r \in Requisicao, fase[r] = "nova",
           LerUpdate(r) \/ LerRecebida(r) \/ LerRetirada(r) \/ LerOutroStatus(r)
               \/ LerBaixa(r) \/ LerRestore(r) \/ LerRemove(r) \/ LerHardRemove(r)
    PROVE  \E p \in Pedido : Leitura(r, p)
<1> USE DadosDosUsuarios, NuloForaDasTabelas DEF Base, TypeOK
<1>1. CASE LerUpdate(r)
  <2>1. PICK u \in Ativo, e \in Encomenda, x \in Restricao :
            /\ Visivel(e)
            /\ Ler(r, PedidoDe("update", u, e, Nulo, "prevista", x))
    BY <1>1 DEF LerUpdate
  <2> DEFINE p == PedidoDe("update", u, e, Nulo, "prevista", x)
  <2>2. p \in Pedido /\ p.op = "update" /\ p.e = e
    BY DEF PedidoDe, Pedido, Operacao, Status, UsuarioOuNulo
  <2>3. encomendas[p.e] # Nulo /\ LidoValido(p)
    BY <2>1, <2>2 DEF Visivel, LidoValido
  <2>e. DaEquipe(p)
    BY DEF PedidoDe, DaEquipe, Movimento, Equipe, Com
  <2>g. Guarda(p)
    BY <2>1 DEF PedidoDe, Guarda
  <2> QED BY <2>e, <2>g, <2>1, <2>2, <2>3 DEF Leitura
<1>2. CASE LerRecebida(r)
  <2>1. PICK u \in Equipe, e \in Encomenda : \E p \in Portaria \cup {u} :
            /\ Visivel(e)
            /\ encomendas[e].status = "prevista"
            /\ Ler(r, PedidoDe("recebida", u, e, p, "recebida", "unidade"))
    BY <1>2 DEF LerRecebida
  <2>2. PICK q \in Portaria \cup {u} :
            /\ Visivel(e)
            /\ encomendas[e].status = "prevista"
            /\ Ler(r, PedidoDe("recebida", u, e, q, "recebida", "unidade"))
    BY <2>1
  <2> DEFINE p == PedidoDe("recebida", u, e, q, "recebida", "unidade")
  <2>3. p \in Pedido /\ p.op = "recebida" /\ p.e = e
    BY DEF PedidoDe, Pedido, Operacao, Status, Restricao, UsuarioOuNulo, Equipe, Portaria, Com
  <2>4. encomendas[p.e] # Nulo /\ LidoValido(p)
    BY <2>2, <2>3 DEF Visivel, LidoValido
  <2>e. DaEquipe(p)
    BY DEF PedidoDe, DaEquipe, Movimento, Equipe, Com
  <2>g. Guarda(p)
    BY <2>2 DEF PedidoDe, Guarda
  <2> QED BY <2>e, <2>g, <2>2, <2>3, <2>4 DEF Leitura
<1>3. CASE LerRetirada(r)
  <2>1. PICK u \in Equipe, e \in Encomenda, para \in Ativo :
            /\ Visivel(e)
            /\ encomendas[e].status = "aguardando"
            /\ PodeRetirar(para, encomendas[e].uuid_usuario,
                           encomendas[e].uuid_condominio, encomendas[e].restricao)
            /\ Ler(r, PedidoDe("retirada", u, e, para, "retirada", "unidade"))
    BY <1>3 DEF LerRetirada
  <2> DEFINE p == PedidoDe("retirada", u, e, para, "retirada", "unidade")
  <2>2. p \in Pedido /\ p.op = "retirada" /\ p.e = e /\ p.pessoa = para
    BY DEF PedidoDe, Pedido, Operacao, Status, Restricao, UsuarioOuNulo, Equipe, Com
  <2>3. encomendas[p.e] # Nulo
    BY <2>1, <2>2 DEF Visivel
  <2>4. para # Nulo /\ Habilitado(para, encomendas[e])
    BY <2>1 DEF PodeRetirar, Habilitado
  <2>5. LidoValido(p)
    BY <2>2, <2>4 DEF LidoValido
  <2>e. DaEquipe(p)
    BY DEF PedidoDe, DaEquipe, Movimento, Equipe, Com
  <2>g. Guarda(p)
    BY <2>1 DEF PedidoDe, Guarda
  <2> QED BY <2>e, <2>g, <2>1, <2>2, <2>3, <2>5 DEF Leitura
<1>4. CASE LerOutroStatus(r)
  <2>1. PICK u \in Equipe, e \in Encomenda, alvo \in {"aguardando", "cancelada"} :
            /\ Visivel(e)
            /\ Ler(r, PedidoDe("outroStatus", u, e, Nulo, alvo, "unidade"))
    BY <1>4 DEF LerOutroStatus
  <2> DEFINE p == PedidoDe("outroStatus", u, e, Nulo, alvo, "unidade")
  <2>2. p \in Pedido /\ p.op = "outroStatus" /\ p.e = e /\ p.alvo = alvo
    BY DEF PedidoDe, Pedido, Operacao, Status, Restricao, UsuarioOuNulo, Equipe, Com
  <2>3. encomendas[p.e] # Nulo /\ LidoValido(p)
    BY <2>1, <2>2 DEF Visivel, LidoValido
  <2>e. DaEquipe(p)
    BY DEF PedidoDe, DaEquipe, Movimento, Equipe, Com
  <2>g. Guarda(p)
    BY <2>1 DEF PedidoDe, Guarda
  <2> QED BY <2>e, <2>g, <2>1, <2>2, <2>3 DEF Leitura
<1>5. CASE LerBaixa(r)
  <2>1. PICK u \in Com({"admin"}), e \in Encomenda, alvo \in {"retirada", "cancelada"} :
            /\ Visivel(e)
            /\ encomendas[e].status \in {"prevista", "recebida", "aguardando"}
            /\ Ler(r, PedidoDe("baixa", u, e, encomendas[e].uuid_usuario, alvo, "unidade"))
    BY <1>5 DEF LerBaixa
  <2> DEFINE p == PedidoDe("baixa", u, e, encomendas[e].uuid_usuario, alvo, "unidade")
  <2>2. encomendas[e] # Nulo /\ encomendas[e].uuid_usuario \in Usuario
    BY <2>1 DEF Visivel, Linha
  <2>3. p \in Pedido /\ p.op = "baixa" /\ p.e = e /\ p.pessoa = encomendas[e].uuid_usuario
    BY <2>2 DEF PedidoDe, Pedido, Operacao, Status, Restricao, UsuarioOuNulo, Com
  <2>4. LidoValido(p)
    BY <2>2, <2>3 DEF LidoValido, Habilitado
  <2>e. DaEquipe(p)
    BY DEF PedidoDe, DaEquipe, Movimento, Equipe, Com
  <2>g. Guarda(p)
    BY <2>1 DEF PedidoDe, Guarda
  <2> QED BY <2>e, <2>g, <2>1, <2>2, <2>3, <2>4 DEF Leitura
<1>6. CASE LerRestore(r)
  <2>1. PICK u \in Com({"super", "admin"}), e \in Encomenda :
            /\ encomendas[e] # Nulo
            /\ Ler(r, PedidoDe("restore", u, e, Nulo, "prevista", "unidade"))
    BY <1>6 DEF LerRestore
  <2> DEFINE p == PedidoDe("restore", u, e, Nulo, "prevista", "unidade")
  <2>2. p \in Pedido /\ p.op = "restore" /\ p.e = e
    BY DEF PedidoDe, Pedido, Operacao, Status, Restricao, UsuarioOuNulo, Com
  <2>3. LidoValido(p)
    BY <2>2 DEF LidoValido
  <2>e. DaEquipe(p)
    BY DEF PedidoDe, DaEquipe, Movimento, Equipe, Com
  <2>g. Guarda(p)
    BY <2>1 DEF PedidoDe, Guarda
  <2> QED BY <2>e, <2>g, <2>1, <2>2, <2>3 DEF Leitura
<1>7. CASE LerRemove(r)
  <2>1. PICK u \in Ativo, e \in Encomenda :
            /\ Visivel(e)
            /\ PerfilDe[u] = "portaria" => PortariaPodeRemover(encomendas[e], u)
            /\ Ler(r, PedidoDe("remove", u, e, Nulo, "prevista", "unidade"))
    BY <1>7 DEF LerRemove
  <2> DEFINE p == PedidoDe("remove", u, e, Nulo, "prevista", "unidade")
  <2>2. p \in Pedido /\ p.op = "remove" /\ p.e = e
    BY DEF PedidoDe, Pedido, Operacao, Status, Restricao, UsuarioOuNulo
  <2>3. encomendas[p.e] # Nulo /\ LidoValido(p)
    BY <2>1, <2>2 DEF Visivel, LidoValido
  <2>e. DaEquipe(p)
    BY DEF PedidoDe, DaEquipe, Movimento, Equipe, Com
  <2>g. Guarda(p)
    BY <2>1 DEF PedidoDe, Guarda
  <2> QED BY <2>e, <2>g, <2>1, <2>2, <2>3 DEF Leitura
<1>8. CASE LerHardRemove(r)
  <2>1. PICK u \in Com({"super"}), e \in Encomenda :
            /\ encomendas[e] # Nulo
            /\ Ler(r, PedidoDe("hardRemove", u, e, Nulo, "prevista", "unidade"))
    BY <1>8 DEF LerHardRemove
  <2> DEFINE p == PedidoDe("hardRemove", u, e, Nulo, "prevista", "unidade")
  <2>2. p \in Pedido /\ p.op = "hardRemove" /\ p.e = e
    BY DEF PedidoDe, Pedido, Operacao, Status, Restricao, UsuarioOuNulo, Com
  <2>3. LidoValido(p)
    BY <2>2 DEF LidoValido
  <2>e. DaEquipe(p)
    BY DEF PedidoDe, DaEquipe, Movimento, Equipe, Com
  <2>g. Guarda(p)
    BY <2>1 DEF PedidoDe, Guarda
  <2> QED BY <2>e, <2>g, <2>1, <2>2, <2>3 DEF Leitura
<1> QED BY <1>1, <1>2, <1>3, <1>4, <1>5, <1>6, <1>7, <1>8

\* Every create ends up in Insercao.
LEMMA InsercaoDe ==
    ASSUME Base, NEW r \in Requisicao, fase[r] = "nova",
           CreateMorador(r) \/ CreatePortaria(r) \/ CreateAdmin(r) \/ CreateEntregue(r)
    PROVE  \E p \in Pedido, l \in Linha : Insercao(r, p, l)
<1> USE DadosDosUsuarios, NuloForaDasTabelas
<1>a. ASSUME NEW u \in Usuario, NEW t \in Usuario, NEW x \in Restricao, NEW s \in Status,
             NEW q \in UsuarioOuNulo, CondominioDe[u] # Nulo
      PROVE  NovaLinha(u, t, x, s, q) \in Linha
  BY <1>a DEF NovaLinha, Linha, UsuarioOuNulo, Condominio
<1>b. ASSUME NEW u \in Usuario, NEW e \in Encomenda, NEW q \in UsuarioOuNulo,
             NEW s \in Status, NEW x \in Restricao
      PROVE  /\ PedidoDe("create", u, e, q, s, x) \in Pedido
             /\ PedidoDe("create", u, e, q, s, x).op = "create"
             /\ PedidoDe("create", u, e, q, s, x).e = e
             /\ PedidoDe("create", u, e, q, s, x).ator = u
  BY DEF PedidoDe, Pedido, Operacao
<1>1. CASE CreateMorador(r)
  <2>1. PICK u \in Morador, e \in Encomenda \ emitidos, x \in Restricao :
            Inserir(r, PedidoDe("create", u, e, Nulo, "prevista", x),
                    NovaLinha(u, u, x, "prevista", Nulo))
    BY <1>1 DEF CreateMorador
  <2> DEFINE p == PedidoDe("create", u, e, Nulo, "prevista", x)
             l == NovaLinha(u, u, x, "prevista", Nulo)
  <2>2. p \in Pedido /\ p.op = "create" /\ p.e = e /\ p.ator = u
    BY <1>b DEF Morador, Com, UsuarioOuNulo, Status
  <2>3. CondominioDe[u] # Nulo
    BY <2>1, <2>2 DEF Inserir
  <2>4. l \in Linha
    BY <1>a, <2>3 DEF Morador, Com, UsuarioOuNulo, Status
  <2>5. EntregaRegular(l)
    BY DEF EntregaRegular, NovaLinha
  <2>e. LinhaNova(l)
    BY DEF LinhaNova, NovaLinha, Portaria, Com
  <2> QED BY <2>e, <2>1, <2>2, <2>4, <2>5 DEF Insercao
<1>2. CASE CreatePortaria(r)
  <2>1. PICK u \in Portaria, q \in Portaria, t \in Morador, e \in Encomenda \ emitidos,
             x \in Restricao :
            Inserir(r, PedidoDe("create", u, e, q, "recebida", x),
                    NovaLinha(u, t, x, "recebida", q))
    BY <1>2 DEF CreatePortaria
  <2> DEFINE p == PedidoDe("create", u, e, q, "recebida", x)
             l == NovaLinha(u, t, x, "recebida", q)
  <2>2. p \in Pedido /\ p.op = "create" /\ p.e = e /\ p.ator = u
    BY <1>b DEF Portaria, Com, UsuarioOuNulo, Status
  <2>3. CondominioDe[u] # Nulo
    BY <2>1, <2>2 DEF Inserir
  <2>4. l \in Linha
    BY <1>a, <2>3 DEF Morador, Portaria, Com, UsuarioOuNulo, Status
  <2>5. EntregaRegular(l)
    BY DEF EntregaRegular, NovaLinha
  <2>e. LinhaNova(l)
    BY DEF LinhaNova, NovaLinha, Portaria, Com
  <2> QED BY <2>e, <2>1, <2>2, <2>4, <2>5 DEF Insercao
<1>3. CASE CreateAdmin(r)
  <2>1. PICK u \in Com({"super", "admin"}), t \in Ativo, q \in Portaria,
             e \in Encomenda \ emitidos, x \in Restricao :
            Inserir(r, PedidoDe("create", u, e, q, "recebida", x),
                    NovaLinha(u, t, x, "recebida", q))
    BY <1>3 DEF CreateAdmin
  <2> DEFINE p == PedidoDe("create", u, e, q, "recebida", x)
             l == NovaLinha(u, t, x, "recebida", q)
  <2>2. p \in Pedido /\ p.op = "create" /\ p.e = e /\ p.ator = u
    BY <1>b DEF Portaria, Com, UsuarioOuNulo, Status
  <2>3. CondominioDe[u] # Nulo
    BY <2>1, <2>2 DEF Inserir
  <2>4. l \in Linha
    BY <1>a, <2>3 DEF Portaria, Com, UsuarioOuNulo, Status
  <2>5. EntregaRegular(l)
    BY DEF EntregaRegular, NovaLinha
  <2>e. LinhaNova(l)
    BY DEF LinhaNova, NovaLinha, Portaria, Com
  <2> QED BY <2>e, <2>1, <2>2, <2>4, <2>5 DEF Insercao
<1>4. CASE CreateEntregue(r)
  <2>1. PICK u \in Com({"super", "admin"}), t \in Ativo, q \in Portaria, d \in Portaria,
             e \in Encomenda \ emitidos, x \in Restricao, para \in Ativo \cup {Nulo} :
            /\ para # Nulo => PodeRetirar(para, t, CondominioDe[u], x)
            /\ Inserir(r, PedidoDe("create", u, e, q, "retirada", x),
                       [NovaLinha(u, t, x, "retirada", q) EXCEPT
                           !.entregue_por = d, !.entregue_para = para])
    BY <1>4 DEF CreateEntregue
  <2> DEFINE p == PedidoDe("create", u, e, q, "retirada", x)
             n == NovaLinha(u, t, x, "retirada", q)
             l == [n EXCEPT !.entregue_por = d, !.entregue_para = para]
  <2>2. p \in Pedido /\ p.op = "create" /\ p.e = e /\ p.ator = u
    BY <1>b DEF Portaria, Com, UsuarioOuNulo, Status
  <2>3. CondominioDe[u] # Nulo
    BY <2>1, <2>2 DEF Inserir
  <2>4. n \in Linha
    BY <1>a, <2>3 DEF Portaria, Com, UsuarioOuNulo, Status
  <2>5. l \in Linha
    BY <2>4 DEF Linha, UsuarioOuNulo, Portaria, Com
  <2>6. l.uuid_usuario = t /\ l.uuid_condominio = CondominioDe[u]
            /\ l.entregue_por = d /\ l.entregue_para = para
    BY DEF NovaLinha
  <2>7. EntregaRegular(l)
    BY <2>1, <2>6 DEF EntregaRegular, Habilitado, PodeRetirar, Portaria, Com
  <2>e. LinhaNova(l)
    BY DEF LinhaNova, NovaLinha, Portaria, Com
  <2> QED BY <2>e, <2>1, <2>2, <2>5, <2>7 DEF Insercao
<1> QED BY <1>1, <1>2, <1>3, <1>4

\* Every UPDATE of a row ends up in Escrita.
LEMMA EscritaDe ==
    ASSUME Base, Abertos, NEW r \in Requisicao,
           GravarUpdate(r) \/ GravarRecebida(r) \/ GravarRetirada(r) \/ GravarOutroStatus(r)
               \/ GravarBaixaRetirada(r) \/ GravarBaixaCancelada(r)
               \/ GravarRestore(r) \/ GravarRemove(r)
    PROVE  \E op \in Operacao, l \in Linha, f \in ComLinha : Escrita(r, op, l, f)
<1> DEFINE p == pedido[r]
           c == encomendas[p.e]
<1>1. fase[r] = "lida" /\ c # Nulo
  BY DEF GravarUpdate, GravarRecebida, GravarRetirada, GravarOutroStatus,
         GravarBaixaRetirada, GravarBaixaCancelada, GravarRestore, GravarRemove, Gravar
<1>2. p \in Pedido /\ c \in Linha
  <2>1. p # Nulo
    BY <1>1 DEF Base, Fases, NoAberto, Aberta
  <2>2. p \in Pedido
    BY <2>1 DEF Base, TypeOK
  <2> QED BY <1>1, <2>2 DEF Base, TypeOK, Pedido
<1>3. /\ p.ator \in Usuario /\ p.ator # Nulo
      /\ p.pessoa \in UsuarioOuNulo /\ p.restricao \in Restricao /\ p.alvo \in Status
  BY <1>2, NuloForaDasTabelas DEF Pedido
<1>4. p.op = "outroStatus" => p.alvo \in {"aguardando", "cancelada"}
  BY <1>1 DEF Abertos, AbertoValido, LidoValido
<1>5. p.op \in {"retirada", "baixa"} => Habilitado(p.pessoa, c)
  BY <1>1 DEF Abertos, AbertoValido, LidoValido
<1>6. CASE GravarUpdate(r)
  <2> DEFINE l == [c EXCEPT !.restricao = p.restricao]
  <2>1. l \in Linha
    BY <1>2, <1>3 DEF Linha
  <2>2. Gravar(r, "update", l, "registrada")
    BY <1>6 DEF GravarUpdate
  <2>3. Escrita(r, "update", l, "registrada")
    BY <1>2, <2>1, <2>2 DEF Escrita, MesmoDono, Marcacao, Linha
  <2> QED BY <2>1, <2>3 DEF Operacao, ComLinha
<1>7. CASE GravarRecebida(r)
  <2> DEFINE l == [c EXCEPT !.status = "recebida", !.recebido_por = p.pessoa]
  <2>1. l \in Linha
    BY <1>2, <1>3 DEF Linha, Status
  <2>2. Gravar(r, "recebida", l, "gravada")
    BY <1>7 DEF GravarRecebida
  <2>3. Escrita(r, "recebida", l, "gravada")
    BY <1>2, <2>1, <2>2 DEF Escrita, MesmoDono, EntregaConta, Movimento, Linha
  <2> QED BY <2>1, <2>3 DEF Operacao, ComLinha
<1>8. CASE GravarRetirada(r)
  <2> DEFINE l == [c EXCEPT !.status = "retirada", !.entregue_por = p.ator,
                            !.entregue_para = p.pessoa]
  <2>1. l \in Linha
    BY <1>2, <1>3 DEF Linha, Status, UsuarioOuNulo
  <2>2. Gravar(r, "retirada", l, "gravada")
    BY <1>8 DEF GravarRetirada
  <2>3. p.op = "retirada"
    BY <2>2 DEF Gravar
  <2>4. Habilitado(l.entregue_para, l)
    BY <1>2, <1>5, <2>3 DEF Habilitado, Linha
  <2>5. Escrita(r, "retirada", l, "gravada")
    BY <1>2, <1>3, <2>1, <2>2, <2>4 DEF Escrita, MesmoDono, EntregaConta, Movimento, Linha
  <2> QED BY <2>1, <2>5 DEF Operacao, ComLinha
<1>9. CASE GravarOutroStatus(r)
  <2> DEFINE l == [c EXCEPT !.status = p.alvo]
  <2>1. l \in Linha
    BY <1>2, <1>3 DEF Linha
  <2>2. Gravar(r, "outroStatus", l, "gravada")
    BY <1>9 DEF GravarOutroStatus
  <2>3. l.status \notin {"retirada", "prevista"}
    BY <1>2, <1>4, <2>2 DEF Gravar, Linha
  <2>4. EntregaConta(l, c) /\ MesmoDono(l, c) /\ l.deleted = c.deleted
        /\ l.entregue_para = c.entregue_para
    BY <1>2, <2>3 DEF EntregaConta, MesmoDono, Linha
  <2>5. Escrita(r, "outroStatus", l, "gravada")
    BY <2>1, <2>2, <2>3, <2>4 DEF Escrita, Movimento
  <2> QED BY <2>1, <2>5 DEF Operacao, ComLinha
<1>10. CASE GravarBaixaRetirada(r)
  <2> DEFINE l == [c EXCEPT !.status = "retirada", !.baixa = TRUE,
                            !.entregue_por = p.ator, !.entregue_para = p.pessoa]
  <2>1. l \in Linha
    BY <1>2, <1>3 DEF Linha, Status, UsuarioOuNulo
  <2>2. Gravar(r, "baixa", l, "gravada")
    BY <1>10 DEF GravarBaixaRetirada
  <2>3. p.op = "baixa"
    BY <2>2 DEF Gravar
  <2>4. Habilitado(l.entregue_para, l)
    BY <1>2, <1>5, <2>3 DEF Habilitado, Linha
  <2>5. Escrita(r, "baixa", l, "gravada")
    BY <1>2, <1>3, <2>1, <2>2, <2>4 DEF Escrita, MesmoDono, EntregaConta, Movimento, Linha
  <2> QED BY <2>1, <2>5 DEF Operacao, ComLinha
<1>11. CASE GravarBaixaCancelada(r)
  <2> DEFINE l == [c EXCEPT !.status = "cancelada", !.baixa = TRUE]
  <2>1. l \in Linha
    BY <1>2 DEF Linha, Status
  <2>2. Gravar(r, "baixa", l, "gravada")
    BY <1>11 DEF GravarBaixaCancelada
  <2>3. Escrita(r, "baixa", l, "gravada")
    BY <1>2, <2>1, <2>2 DEF Escrita, MesmoDono, EntregaConta, Movimento, Linha
  <2> QED BY <2>1, <2>3 DEF Operacao, ComLinha
<1>12. CASE GravarRestore(r)
  <2> DEFINE l == [c EXCEPT !.deleted = FALSE]
  <2>1. l \in Linha
    BY <1>2 DEF Linha
  <2>2. Gravar(r, "restore", l, "registrada")
    BY <1>12 DEF GravarRestore
  <2>3. Escrita(r, "restore", l, "registrada")
    BY <1>2, <2>1, <2>2 DEF Escrita, MesmoDono, Marcacao, Linha
  <2> QED BY <2>1, <2>3 DEF Operacao, ComLinha
<1>13. CASE GravarRemove(r)
  <2> DEFINE l == [c EXCEPT !.deleted = TRUE]
  <2>1. l \in Linha
    BY <1>2 DEF Linha
  <2>2. Gravar(r, "remove", l, "registrada")
    BY <1>13 DEF GravarRemove
  <2>3. Escrita(r, "remove", l, "registrada")
    BY <1>2, <2>1, <2>2 DEF Escrita, MesmoDono, Marcacao, Linha
  <2> QED BY <2>1, <2>3 DEF Operacao, ComLinha
<1> QED BY <1>6, <1>7, <1>8, <1>9, <1>10, <1>11, <1>12, <1>13

\* The steps of one request.
PassoDe(r) ==
    \/ \E p \in Pedido : Leitura(r, p)
    \/ \E p \in Pedido, l \in Linha : Insercao(r, p, l)
    \/ \E op \in Operacao, l \in Linha, f \in ComLinha : Escrita(r, op, l, f)
    \/ RegistrarEvento(r) \/ Promover(r) \/ Confirmar(r)
    \/ ApagarFilhos(r) \/ ApagarLinha(r)
    \/ FimSemEfeito(r)

\* Every step is one of these.
LEMMA Passo ==
    ASSUME Base, Abertos, [Next]_vars
    PROVE  (\E r \in Requisicao : PassoDe(r)) \/ DespacharPush \/ UNCHANGED vars
<1>1. ASSUME NEW r \in Requisicao, Comeca(r) PROVE PassoDe(r)
  <2>1. fase[r] = "nova"
    BY <1>1 DEF Comeca, Vaga
  <2> QED BY <1>1, <2>1, LeituraDe, InsercaoDe DEF Comeca, PassoDe
<1>2. ASSUME NEW r \in Requisicao, Prossegue(r) PROVE PassoDe(r)
  <2>1. CASE GravarSemLinha(r)
    BY <2>1 DEF GravarSemLinha, FimSemEfeito, PassoDe, NoAberto, Aberta
  <2>2. CASE FalharReleitura(r)
    BY <2>2 DEF FalharReleitura, Desfazer, FimSemEfeito, PassoDe, NoAberto, Aberta
  <2> QED BY <1>2, <2>1, <2>2, EscritaDe DEF Prossegue, PassoDe
<1>3. ASSUME NEW r \in Requisicao, Abortar(r) PROVE PassoDe(r)
  BY <1>3 DEF Abortar, Desfazer, FimSemEfeito, PassoDe
<1>4. ASSUME VitimaDeImpasse PROVE \E r \in Requisicao : PassoDe(r)
  BY <1>4 DEF VitimaDeImpasse, Impasse, Desfazer, FimSemEfeito, PassoDe, NoAberto, Aberta
<1> QED BY <1>1, <1>2, <1>3, <1>4 DEF Next, Ocioso

-----------------------------------------------------------------------------
(* Base is inductive.                                                      *)

\* The empty database satisfies Base.
LEMMA BaseInit == Init => Base
BY NuloForaDasTabelas
DEF Init, Base, TypeOK, Fases, Trancas, Emissao, Criacoes, NoAberto, Aberta, Fase, ComLinha

\* The notices of a movement have a kind and go to users.
LEMMA AvisosTipo ==
    ASSUME NEW ev \in Evento, NEW f, NEW u \in Usuario
    PROVE  Avisos(ev, f, u) \subseteq [destino: Usuario, tipo: TipoAviso]
BY DEF Avisos, Evento, TipoAviso

\* So have all the notices a commit of r inserts.
LEMMA AvisosDeTipo ==
    ASSUME Base, NEW r \in Requisicao, fase[r] = "registrada"
    PROVE  AvisosDe(r) \subseteq [destino: Usuario, tipo: TipoAviso]
<1>1. imagem[r] \in Linha /\ registro[r] \in Seq(Evento)
  BY DEF Base, TypeOK, Fases, ComLinha
<1>2. imagem[r].uuid_usuario \in Usuario
  BY <1>1 DEF Linha
<1>3. \A i \in DOMAIN registro[r] : registro[r][i] \in Evento
  BY <1>1
<1> QED BY <1>2, <1>3, AvisosTipo DEF AvisosDe

\* Base is kept when a request reads its parcel (LerUpdate ... LerHardRemove).
LEMMA BaseLeitura ==
    ASSUME Base, NEW r \in Requisicao, NEW p \in Pedido, Leitura(r, p)
    PROVE  Base'
<1> USE DEF Base, Leitura, Ler, tabelas
<1>0. p # Nulo /\ p.e \in Encomenda
  BY NuloForaDasTabelas DEF Pedido
<1>1. pedido[r] = Nulo /\ imagem[r] = Nulo
  BY DEF Fases, NoAberto, Aberta, ComLinha
<1>2. TypeOK'
  BY DEF TypeOK, Fase, Aberta
<1>3. Fases'
  BY <1>0, <1>1 DEF Fases, NoAberto, Aberta, ComLinha, TypeOK
<1>4. Trancas'
  BY <1>1 DEF Trancas, TypeOK
<1>5. Emissao'
  BY <1>0 DEF Emissao, TypeOK
<1>6. Criacoes'
  BY <1>0 DEF Criacoes, TypeOK, LidoValido
<1> QED BY <1>2, <1>3, <1>4, <1>5, <1>6

\* Base is kept when create inserts a row: its uuid is fresh, so nobody holds it.
LEMMA BaseInsercao ==
    ASSUME Base, NEW r \in Requisicao, NEW p \in Pedido, NEW l \in Linha, Insercao(r, p, l)
    PROVE  Base'
<1> USE DEF Base, Insercao, Inserir, tabelas
<1>0. p # Nulo /\ p.e \in Encomenda /\ l # Nulo
  BY NuloForaDasTabelas DEF Pedido
<1>1. pedido[r] = Nulo /\ imagem[r] = Nulo /\ registro[r] = <<>>
  BY DEF Fases, NoAberto, Aberta, ComLinha
<1>2. TypeOK'
  BY <1>0 DEF TypeOK, Fase, Aberta
<1>3. Fases'
  BY <1>0, <1>1 DEF Fases, NoAberto, Aberta, ComLinha, TypeOK
<1>4. \A s \in Requisicao : pedido[s] # Nulo => pedido[s].e # p.e
  BY DEF Emissao
<1>5. \A s \in Requisicao : imagem[s] # Nulo => pedido[s] # Nulo
  BY DEF Fases, NoAberto, Aberta, ComLinha
<1>6. Trancas'
  BY <1>4, <1>5 DEF Trancas, TypeOK
<1>7. Emissao'
  BY <1>0 DEF Emissao, TypeOK
<1>8. Criacoes'
  <2>1. encomendas[p.e] = Nulo
    BY <1>0 DEF Emissao
  <2> QED BY <1>0, <1>4, <2>1 DEF Criacoes, TypeOK
<1> QED BY <1>2, <1>3, <1>6, <1>7, <1>8

\* Base is kept by an UPDATE: RowLivre makes the writer the only holder of the row.
LEMMA BaseEscrita ==
    ASSUME Base, NEW r \in Requisicao, NEW op \in Operacao, NEW l \in Linha, NEW f \in ComLinha,
           Escrita(r, op, l, f)
    PROVE  Base'
<1> USE DEF Base, Escrita, Gravar, tabelas
<1>0. l # Nulo /\ f \in Fase /\ f # "filhosApagados" /\ f \in Aberta
  BY NuloForaDasTabelas DEF ComLinha, Fase, Aberta
<1>1. pedido[r] # Nulo
  BY DEF Fases, NoAberto, Aberta
<1>2. TypeOK'
  BY <1>0 DEF TypeOK
<1>3. Fases'
  BY <1>0, <1>1 DEF Fases, NoAberto, TypeOK
<1>4. Trancas'
  BY DEF Trancas, TypeOK, RowLivre, Segura
<1>5. Emissao' /\ Criacoes'
  BY DEF Emissao, Criacoes
<1> QED BY <1>2, <1>3, <1>4, <1>5

\* Base is kept by the insert of a history row (registrarEventoEmTrx).
LEMMA BaseRegistrarEvento ==
    ASSUME Base, NEW r \in Requisicao, RegistrarEvento(r)
    PROVE  Base'
<1> USE DEF Base, RegistrarEvento, tabelas
<1> DEFINE ev == [acao |-> IF pedido[r].op = "create" /\ registro[r] = <<>>
                             THEN "criada" ELSE "atualizada",
                  status |-> imagem[r].status]
<1>1. imagem[r] \in Linha /\ imagem[r] # Nulo /\ pedido[r] # Nulo
  BY DEF TypeOK, Fases, NoAberto, Aberta, ComLinha
<1>2. ev \in Evento
  BY <1>1 DEF Evento, Linha
<1>3. registro' = [registro EXCEPT ![r] = Append(@, ev)]
  OBVIOUS
<1>4. registro' \in [Requisicao -> Seq(Evento)]
  BY <1>2, <1>3 DEF TypeOK
<1>p. pushes' \subseteq Push
  <2>1. AgendarPush(r, ev)
    OBVIOUS
  <2>2. imagem[r].uuid_usuario \in Usuario /\ pedido[r].e \in Encomenda
    BY <1>1 DEF Linha, TypeOK, Pedido
  <2> HIDE DEF ev
  <2>3. Avisos(ev, PerfilDe[pedido[r].ator], imagem[r].uuid_usuario)
            \subseteq [destino: Usuario, tipo: TipoAviso]
    BY <1>2, <2>2, AvisosTipo
  <2>4. ASSUME NEW x \in pushes', x \notin pushes PROVE x \in Push
    <3>1. PICK a \in Avisos(ev, PerfilDe[pedido[r].ator], imagem[r].uuid_usuario) :
              x = [r |-> r, e |-> pedido[r].e, destino |-> a.destino, tipo |-> a.tipo,
                   enviado |-> FALSE]
      BY <2>1, <2>4 DEF AgendarPush
    <3> QED BY <2>2, <2>3, <3>1 DEF Push
  <2> QED BY <2>4 DEF TypeOK
<1>5. TypeOK'
  BY <1>4, <1>p DEF TypeOK, Fase, Aberta
<1>6. Fases'
  BY <1>1, <1>3 DEF Fases, NoAberto, Aberta, ComLinha, TypeOK
<1>7. Trancas' /\ Emissao' /\ Criacoes'
  BY DEF Trancas, Emissao, Criacoes
<1> QED BY <1>5, <1>6, <1>7

\* Base is kept by the second UPDATE of a reception.
LEMMA BasePromover ==
    ASSUME Base, NEW r \in Requisicao, Promover(r)
    PROVE  Base'
<1> USE DEF Base, Promover, tabelas
<1> DEFINE l == [imagem[r] EXCEPT !.status = "aguardando"]
<1>1. imagem[r] \in Linha /\ imagem[r] # Nulo /\ pedido[r] # Nulo
  BY DEF TypeOK, Fases, NoAberto, Aberta, ComLinha
<1>2. l \in Linha /\ l # Nulo
  BY <1>1, NuloForaDasTabelas DEF Linha, Status
<1>3. imagem' = [imagem EXCEPT ![r] = l]
  OBVIOUS
<1>4. TypeOK'
  BY <1>2, <1>3 DEF TypeOK, Fase, Aberta
<1>5. Fases'
  BY <1>1, <1>2, <1>3 DEF Fases, NoAberto, Aberta, ComLinha, TypeOK
<1>6. Trancas'
  BY <1>1, <1>2, <1>3 DEF Trancas, TypeOK
<1>7. Emissao' /\ Criacoes'
  BY DEF Emissao, Criacoes
<1> QED BY <1>4, <1>5, <1>6, <1>7

\* Ending r keeps what Base says of phases, locks and uuids.
LEMMA BaseEncerrar ==
    ASSUME Base, NEW r \in Requisicao, NEW fim \in {"confirmada", "desfeita"}, Encerrar(r, fim),
           encomendas' \in [Encomenda -> Linha \cup {Nulo}],
           eventos' \in [Encomenda -> Seq(Evento)],
           notificacoes' \subseteq [e: Encomenda, destino: Usuario, tipo: TipoAviso, r: Requisicao],
           pushes' \subseteq Push,
           \A e \in Encomenda : encomendas'[e] # encomendas[e] => pedido[r].e = e /\ pedido[r] # Nulo
    PROVE  Base'
<1> USE DEF Base, Encerrar
<1>1. TypeOK'
  BY DEF TypeOK, Fase
<1>2. Fases'
  BY DEF Fases, NoAberto, Aberta, ComLinha, TypeOK
<1>3. Trancas'
  BY DEF Trancas, TypeOK
<1>4. Emissao'
  BY DEF Emissao, TypeOK
<1>5. Criacoes'
  <2> SUFFICES ASSUME NEW q \in Requisicao, pedido'[q] # Nulo, pedido'[q].op = "create"
               PROVE  /\ encomendas'[pedido'[q].e] = Nulo
                      /\ \A s \in Requisicao \ {q} : pedido'[s] # Nulo => pedido'[s].e # pedido'[q].e
    BY DEF Criacoes
  <2>1. q # r /\ pedido'[q] = pedido[q]
    BY DEF TypeOK
  <2>2. pedido[q].e \in Encomenda
    BY <2>1 DEF TypeOK, Pedido
  <2>3. /\ encomendas[pedido[q].e] = Nulo
        /\ \A s \in Requisicao \ {q} : pedido[s] # Nulo => pedido[s].e # pedido[q].e
    BY <2>1 DEF Criacoes
  <2>4. encomendas'[pedido[q].e] = encomendas[pedido[q].e]
    BY <2>1, <2>2, <2>3
  <2>5. \A s \in Requisicao : pedido'[s] # Nulo => pedido'[s] = pedido[s]
    BY DEF TypeOK
  <2> QED BY <2>1, <2>3, <2>4, <2>5
<1> QED BY <1>1, <1>2, <1>3, <1>4, <1>5

\* Base is kept by the commit of a handler.
LEMMA BaseConfirmar ==
    ASSUME Base, NEW r \in Requisicao, Confirmar(r)
    PROVE  Base'
<1> DEFINE e == pedido[r].e
<1>1. fase[r] = "registrada" /\ Encerrar(r, "confirmada")
  BY DEF Confirmar
<1>2. imagem[r] \in Linha /\ pedido[r] # Nulo /\ e \in Encomenda
  BY <1>1 DEF Base, TypeOK, Fases, NoAberto, Aberta, ComLinha, Pedido
<1>3. encomendas' = [encomendas EXCEPT ![e] = imagem[r]]
  BY DEF Confirmar
<1>4. eventos' \in [Encomenda -> Seq(Evento)]
  BY <1>2 DEF Confirmar, Base, TypeOK
<1>5. notificacoes' \subseteq [e: Encomenda, destino: Usuario, tipo: TipoAviso, r: Requisicao]
  <2>1. \A a \in AvisosDe(r) : a.destino \in Usuario /\ a.tipo \in TipoAviso
    BY <1>1, AvisosDeTipo
  <2> QED BY <1>2, <2>1 DEF Confirmar, Base, TypeOK
<1>6. pushes' \subseteq Push
  BY DEF Confirmar, Base, TypeOK
<1>7. encomendas' \in [Encomenda -> Linha \cup {Nulo}]
  BY <1>2, <1>3 DEF Base, TypeOK
<1>8. \A d \in Encomenda : encomendas'[d] # encomendas[d] => e = d
  BY <1>3 DEF Base, TypeOK
<1> QED BY <1>1, <1>2, <1>4, <1>5, <1>6, <1>7, <1>8, BaseEncerrar

\* Base is kept by the commit of hardRemove.
LEMMA BaseApagarLinha ==
    ASSUME Base, NEW r \in Requisicao, ApagarLinha(r)
    PROVE  Base'
<1> DEFINE e == pedido[r].e
<1>1. Encerrar(r, "confirmada") /\ UNCHANGED pushes
  BY DEF ApagarLinha
<1>2. pedido[r] # Nulo /\ e \in Encomenda
  BY DEF ApagarLinha, Base, TypeOK, Fases, NoAberto, Aberta, Pedido
<1>3. encomendas' = [encomendas EXCEPT ![e] = Nulo] /\ eventos' = [eventos EXCEPT ![e] = <<>>]
  BY DEF ApagarLinha
<1>4. notificacoes' \subseteq notificacoes
  BY DEF ApagarLinha
<1>5. encomendas' \in [Encomenda -> Linha \cup {Nulo}] /\ eventos' \in [Encomenda -> Seq(Evento)]
  <2>1. <<>> \in Seq(Evento)
    OBVIOUS
  <2> QED BY <1>3, <2>1 DEF Base, TypeOK
<1>6. /\ notificacoes' \subseteq [e: Encomenda, destino: Usuario, tipo: TipoAviso, r: Requisicao]
      /\ pushes' \subseteq Push
  BY <1>1, <1>4 DEF Base, TypeOK
<1>7. \A d \in Encomenda : encomendas'[d] # encomendas[d] => e = d
  BY <1>3 DEF Base, TypeOK
<1> QED BY <1>1, <1>2, <1>5, <1>6, <1>7, BaseEncerrar

\* Every step keeps Base; that a movement only writes a row that exists
\* (Abertos) is what a commit needs.
LEMMA BaseStep ==
    ASSUME Base, Abertos, [Next]_vars
    PROVE  Base'
<1>1. ASSUME NEW r \in Requisicao, PassoDe(r) PROVE Base'
  <2>1. CASE ApagarFilhos(r)
    <3> USE <2>1 DEF ApagarFilhos, Base, tabelas
    <3>1. TypeOK'
      BY DEF TypeOK, Fase, Aberta
    <3>2. Fases'
      BY DEF Fases, NoAberto, Aberta, ComLinha, TypeOK
    <3>3. Trancas' /\ Emissao' /\ Criacoes'
      BY DEF Trancas, Emissao, Criacoes
    <3> QED BY <3>1, <3>2, <3>3
  <2>2. CASE FimSemEfeito(r)
    BY <2>2, BaseEncerrar DEF FimSemEfeito, tabelas, Base, TypeOK
  <2> QED BY <1>1, <2>1, <2>2, BaseLeitura, BaseInsercao, BaseEscrita, BaseRegistrarEvento,
             BasePromover, BaseConfirmar, BaseApagarLinha DEF PassoDe
<1>2. CASE DespacharPush
  <2>1. PICK p \in pushes : Enviar(p)
    BY <1>2 DEF DespacharPush
  <2>2. [p EXCEPT !.enviado = TRUE] \in Push
    BY DEF Base, TypeOK, Push
  <2>3. pushes' \subseteq Push /\ UNCHANGED <<tabelas, emitidos, fase, pedido, imagem, registro>>
    BY <2>1, <2>2 DEF Enviar, Base, TypeOK
  <2> QED BY <2>3 DEF tabelas, Base, TypeOK, Fases, Trancas, Emissao, Criacoes, NoAberto
<1>3. CASE UNCHANGED vars
  BY <1>3 DEF vars, Base, TypeOK, Fases, Trancas, Emissao, Criacoes, NoAberto
<1> QED BY <1>1, <1>2, <1>3, Passo

-----------------------------------------------------------------------------
(* Vinculos is inductive together with Base.                               *)

Confirmados == Gravados /\ UltimoEventoContaOStatus /\ EstadoConfirmado /\ SemOrfaos

\* The empty database satisfies Vinculos.
LEMMA VinculosInit == Init => Vinculos
BY DEF Init, Vinculos, Abertos, AbertoValido, Gravados, UltimoEventoContaOStatus, EstadoConfirmado, SemOrfaos

\* Only Confirmar and ApagarLinha touch the committed tables.
LEMMA TabelasIguais ==
    ASSUME Confirmados, UNCHANGED tabelas
    PROVE  Confirmados'
BY DEF tabelas, Confirmados, Gravados, UltimoEventoContaOStatus, EstadoConfirmado, SemOrfaos

\* A step that leaves s and its row alone keeps the links of s.
LEMMA OutroAberto ==
    ASSUME NEW s \in Requisicao, AbertoValido(s),
           fase'[s] = fase[s], pedido'[s] = pedido[s], imagem'[s] = imagem[s],
           registro'[s] = registro[s],
           encomendas'[pedido[s].e] = encomendas[pedido[s].e]
    PROVE  AbertoValido(s)'
BY DEF AbertoValido, LidoValido, MovimentoValido, MarcacaoValida, EntregaRegular, Habilitado, MesmoDono

\* The links of the open requests are kept when r reads a parcel.
LEMMA AbertosLeitura ==
    ASSUME Base, Abertos, NEW r \in Requisicao, NEW p \in Pedido, Leitura(r, p)
    PROVE  Abertos'
<1> USE DEF Base, Leitura, Ler, tabelas
<1>1. imagem[r] = Nulo
  BY DEF Fases, ComLinha
<1>2. \A s \in Requisicao : s # r => fase'[s] = fase[s] /\ pedido'[s] = pedido[s]
  BY DEF TypeOK
<1>3. pedido'[r] = p /\ LidoValido(p)'
  BY DEF TypeOK, LidoValido
<1>4. AbertoValido(r)'
  BY <1>1, <1>3 DEF AbertoValido
<1>5. ASSUME NEW s \in Requisicao, s # r PROVE AbertoValido(s)'
  BY <1>2, <1>5, OutroAberto DEF Abertos
<1> QED BY <1>4, <1>5 DEF Abertos

\* They are kept when create inserts a row no other request refers to.
LEMMA AbertosInsercao ==
    ASSUME Base, Abertos, NEW r \in Requisicao, NEW p \in Pedido, NEW l \in Linha,
           Insercao(r, p, l)
    PROVE  Abertos'
<1> USE DEF Base, Insercao, Inserir, tabelas
<1>1. \A s \in Requisicao : s # r =>
          fase'[s] = fase[s] /\ pedido'[s] = pedido[s] /\ imagem'[s] = imagem[s]
  BY DEF TypeOK
<1>2. fase'[r] = "gravada" /\ pedido'[r] = p /\ imagem'[r] = l
  BY DEF TypeOK
<1>3. p.op \in Movimento /\ MovimentoValido(r)'
  BY <1>2 DEF Movimento, MovimentoValido
<1>4. AbertoValido(r)'
  BY <1>2, <1>3 DEF AbertoValido
<1>5. ASSUME NEW s \in Requisicao, s # r PROVE AbertoValido(s)'
  BY <1>1, <1>5, OutroAberto DEF Abertos
<1> QED BY <1>4, <1>5 DEF Abertos

\* They are kept by an UPDATE: what it writes keeps the owner of the parcel.
LEMMA AbertosEscrita ==
    ASSUME Base, Abertos, Gravados, NEW r \in Requisicao, NEW op \in Operacao, NEW l \in Linha,
           NEW f \in ComLinha, Escrita(r, op, l, f)
    PROVE  Abertos'
<1> DEFINE c == encomendas[pedido[r].e]
<1>1. /\ fase[r] = "lida" /\ pedido[r].op = op /\ c # Nulo
      /\ imagem' = [imagem EXCEPT ![r] = l] /\ fase' = [fase EXCEPT ![r] = f]
      /\ UNCHANGED <<encomendas, pedido, registro>>
  BY DEF Escrita, Gravar, tabelas
<1>2. registro[r] = <<>> /\ pedido[r] # Nulo
  BY <1>1 DEF Base, Fases, ComLinha, NoAberto, Aberta
<1>3. fase'[r] = f /\ imagem'[r] = l /\ f # "lida"
  BY <1>1 DEF Base, TypeOK, ComLinha
<1>4. EntregaRegular(c)
  BY <1>1, <1>2 DEF Gravados, Base, TypeOK, Pedido
<1>5. EntregaRegular(l)
  BY <1>4 DEF Escrita, EntregaRegular, MesmoDono, Habilitado
<1>6. (op \in Movimento /\ MovimentoValido(r)') \/ (op \in Marcacao /\ MarcacaoValida(r)')
  BY <1>1, <1>2, <1>3 DEF Escrita, MovimentoValido, MarcacaoValida, MesmoDono
<1>7. AbertoValido(r)'
  BY <1>1, <1>3, <1>5, <1>6 DEF AbertoValido
<1>8. ASSUME NEW s \in Requisicao, s # r PROVE AbertoValido(s)'
  <2>1. fase'[s] = fase[s] /\ imagem'[s] = imagem[s]
    BY <1>1, <1>8 DEF Base, TypeOK
  <2> QED BY <1>1, <2>1, OutroAberto DEF Abertos
<1> QED BY <1>7, <1>8 DEF Abertos

\* They are kept by the insert of a history row.
LEMMA AbertosRegistrarEvento ==
    ASSUME Base, Abertos, NEW r \in Requisicao, RegistrarEvento(r)
    PROVE  Abertos'
<1> DEFINE a == IF pedido[r].op = "create" /\ registro[r] = <<>> THEN "criada" ELSE "atualizada"
           ev == [acao |-> a, status |-> imagem[r].status]
           f == IF imagem[r].status = "recebida" THEN "recebida" ELSE "registrada"
<1>1. /\ fase[r] = "gravada"
      /\ registro' = [registro EXCEPT ![r] = Append(@, ev)]
      /\ fase' = [fase EXCEPT ![r] = f]
      /\ UNCHANGED <<encomendas, pedido, imagem>>
  BY DEF RegistrarEvento, tabelas
<1>2. imagem[r] \in Linha /\ imagem[r] # Nulo
  BY <1>1 DEF Base, TypeOK, Fases, ComLinha
<1>3. pedido[r].op \in Movimento /\ MovimentoValido(r) /\ EntregaRegular(imagem[r])
  BY <1>1, <1>2 DEF Abertos, AbertoValido, MarcacaoValida
<1>4. registro[r] \in Seq(Evento) /\ ev \in Evento
  BY <1>2 DEF Base, TypeOK, Evento, Linha
<1>5. registro'[r] = Append(registro[r], ev) /\ fase'[r] = f
  BY <1>1 DEF Base, TypeOK
<1>6. registro'[r] # <<>> /\ registro'[r][Len(registro'[r])] = ev
  BY <1>4, <1>5
<1>7. MovimentoValido(r)'
  BY <1>1, <1>3, <1>5, <1>6 DEF MovimentoValido
<1>8. AbertoValido(r)'
  BY <1>1, <1>3, <1>5, <1>7 DEF AbertoValido
<1>9. ASSUME NEW s \in Requisicao, s # r PROVE AbertoValido(s)'
  <2>1. fase'[s] = fase[s] /\ registro'[s] = registro[s]
    BY <1>1, <1>9 DEF Base, TypeOK
  <2> QED BY <1>1, <2>1, OutroAberto DEF Abertos
<1> QED BY <1>8, <1>9 DEF Abertos

\* They are kept by the second UPDATE of a reception.
LEMMA AbertosPromover ==
    ASSUME Base, Abertos, NEW r \in Requisicao, Promover(r)
    PROVE  Abertos'
<1> DEFINE l == [imagem[r] EXCEPT !.status = "aguardando"]
<1>1. /\ fase[r] = "recebida"
      /\ imagem' = [imagem EXCEPT ![r] = l]
      /\ fase' = [fase EXCEPT ![r] = "gravada"]
      /\ UNCHANGED <<encomendas, pedido, registro>>
  BY DEF Promover, tabelas
<1>2. imagem[r] \in Linha /\ imagem[r] # Nulo
  BY <1>1 DEF Base, TypeOK, Fases, ComLinha
<1>3. pedido[r].op \in Movimento /\ MovimentoValido(r) /\ EntregaRegular(imagem[r])
  BY <1>1, <1>2 DEF Abertos, AbertoValido, MarcacaoValida
<1>4. imagem'[r] = l /\ fase'[r] = "gravada"
  BY <1>1 DEF Base, TypeOK
<1>5. /\ l.status = "aguardando" /\ l.deleted = imagem[r].deleted /\ MesmoDono(l, imagem[r])
      /\ l.entregue_para = imagem[r].entregue_para
  BY <1>2 DEF Linha, MesmoDono
<1>6. MovimentoValido(r)'
  BY <1>1, <1>3, <1>4, <1>5 DEF MovimentoValido, MesmoDono
<1>7. EntregaRegular(l)
  BY <1>3, <1>5 DEF EntregaRegular, Habilitado, MesmoDono
<1>8. AbertoValido(r)'
  BY <1>1, <1>3, <1>4, <1>6, <1>7 DEF AbertoValido
<1>9. ASSUME NEW s \in Requisicao, s # r PROVE AbertoValido(s)'
  <2>1. fase'[s] = fase[s] /\ imagem'[s] = imagem[s]
    BY <1>1, <1>9 DEF Base, TypeOK
  <2> QED BY <1>1, <2>1, OutroAberto DEF Abertos
<1> QED BY <1>8, <1>9 DEF Abertos

\* What ending a transaction may do to a row that others have read: nothing,
\* delete it, or replace it by a row of the same owner. Nobody else may have
\* written a row that changes.
Sucede(antes, depois) ==
    depois = Nulo \/ (antes # Nulo /\ MesmoDono(depois, antes))

\* They are kept by the end of r when each committed row is left with its
\* owner or removed.
LEMMA AbertosEncerrar ==
    ASSUME Base, Abertos, NEW r \in Requisicao, NEW fim \in {"confirmada", "desfeita"},
           Encerrar(r, fim),
           \A s \in Requisicao \ {r} : pedido[s] # Nulo =>
               \/ encomendas'[pedido[s].e] = encomendas[pedido[s].e]
               \/ /\ imagem[s] = Nulo
                  /\ Sucede(encomendas[pedido[s].e], encomendas'[pedido[s].e])
    PROVE  Abertos'
<1>1. /\ fase' = [fase EXCEPT ![r] = fim] /\ pedido' = [pedido EXCEPT ![r] = Nulo]
      /\ imagem' = [imagem EXCEPT ![r] = Nulo] /\ registro' = [registro EXCEPT ![r] = <<>>]
  BY DEF Encerrar
<1>2. AbertoValido(r)'
  BY <1>1 DEF Base, TypeOK, AbertoValido
<1>3. ASSUME NEW s \in Requisicao, s # r PROVE AbertoValido(s)'
  <2>1. /\ fase'[s] = fase[s] /\ pedido'[s] = pedido[s]
        /\ imagem'[s] = imagem[s] /\ registro'[s] = registro[s]
    BY <1>1, <1>3 DEF Base, TypeOK
  <2>2. AbertoValido(s)
    BY DEF Abertos
  <2>3. CASE encomendas'[pedido[s].e] = encomendas[pedido[s].e]
    BY <2>1, <2>2, <2>3, OutroAberto
  <2>4. CASE fase[s] # "lida" /\ imagem[s] = Nulo
    BY <2>1, <2>4 DEF AbertoValido
  <2>5. CASE /\ fase[s] = "lida" /\ imagem[s] = Nulo
             /\ Sucede(encomendas[pedido[s].e], encomendas'[pedido[s].e])
    <3>1. LidoValido(pedido[s])
      BY <2>2, <2>5 DEF AbertoValido
    <3>2. LidoValido(pedido[s])'
      BY <2>1, <2>5, <3>1 DEF LidoValido, Sucede, MesmoDono, Habilitado
    <3> QED BY <2>1, <2>5, <3>2 DEF AbertoValido
  <2>6. fase[s] = "lida" \/ imagem[s] # Nulo => pedido[s] # Nulo
    BY DEF Base, Fases, NoAberto, Aberta, ComLinha
  <2> QED BY <1>3, <2>3, <2>4, <2>5, <2>6
<1> QED BY <1>2, <1>3 DEF Abertos

\* Confirmar: what the row of r becomes.
LEMMA LinhaConfirmada ==
    ASSUME Base, Abertos, NEW r \in Requisicao, Confirmar(r)
    PROVE  LET e == pedido[r].e
               l == imagem[r]
           IN  /\ e \in Encomenda /\ pedido[r] # Nulo
               /\ l \in Linha /\ l # Nulo /\ EntregaRegular(l)
               /\ fase[r] = "registrada" /\ Encerrar(r, "confirmada")
               /\ registro[r] \in Seq(Evento)
               /\ encomendas' = [encomendas EXCEPT ![e] = l]
               /\ eventos' = [eventos EXCEPT ![e] = @ \o registro[r]]
               /\ \/ pedido[r].op \in Movimento /\ MovimentoValido(r)
                  \/ pedido[r].op \in Marcacao /\ MarcacaoValida(r)
<1>1. fase[r] = "registrada" /\ Encerrar(r, "confirmada")
  BY DEF Confirmar
<1>2. pedido[r] # Nulo /\ imagem[r] # Nulo
  BY <1>1 DEF Base, Fases, NoAberto, Aberta, ComLinha
<1>3. pedido[r].e \in Encomenda /\ imagem[r] \in Linha /\ registro[r] \in Seq(Evento)
  BY <1>2 DEF Base, TypeOK, Pedido
<1>4. AbertoValido(r)
  BY DEF Abertos
<1> QED BY <1>1, <1>2, <1>3, <1>4 DEF Confirmar, AbertoValido

\* They are kept by the commit of a handler.
LEMMA AbertosConfirmar ==
    ASSUME Base, Abertos, NEW r \in Requisicao, Confirmar(r)
    PROVE  Abertos'
<1> DEFINE e == pedido[r].e
<1>1. /\ e \in Encomenda /\ pedido[r] # Nulo /\ imagem[r] # Nulo
      /\ encomendas' = [encomendas EXCEPT ![e] = imagem[r]]
      /\ Encerrar(r, "confirmada")
      /\ pedido[r].op = "create" \/ Sucede(encomendas[e], imagem[r])
  BY LinhaConfirmada DEF MovimentoValido, MarcacaoValida, Sucede
<1>2. ASSUME NEW s \in Requisicao \ {r}, pedido[s] # Nulo
      PROVE  \/ encomendas'[pedido[s].e] = encomendas[pedido[s].e]
             \/ /\ imagem[s] = Nulo
                /\ Sucede(encomendas[pedido[s].e], encomendas'[pedido[s].e])
  <2>1. CASE pedido[s].e # e
    BY <1>1, <2>1 DEF Base, TypeOK
  <2>2. CASE pedido[s].e = e
    <3>1. imagem[s] = Nulo
      BY <1>1, <2>2 DEF Base, Trancas
    <3>2. pedido[r].op # "create"
      BY <1>1, <1>2, <2>2 DEF Base, Criacoes
    <3>3. encomendas'[e] = imagem[r]
      BY <1>1 DEF Base, TypeOK
    <3> QED BY <1>1, <2>2, <3>1, <3>2, <3>3
  <2> QED BY <2>1, <2>2
<1> QED BY <1>1, <1>2, AbertosEncerrar

\* They are kept by the commit of hardRemove.
LEMMA AbertosApagarLinha ==
    ASSUME Base, Abertos, NEW r \in Requisicao, ApagarLinha(r)
    PROVE  Abertos'
<1> DEFINE e == pedido[r].e
<1>1. /\ Encerrar(r, "confirmada") /\ RowLivre(r, e)
      /\ encomendas' = [encomendas EXCEPT ![e] = Nulo]
  BY DEF ApagarLinha
<1>2. ASSUME NEW s \in Requisicao \ {r}, pedido[s] # Nulo
      PROVE  \/ encomendas'[pedido[s].e] = encomendas[pedido[s].e]
             \/ /\ imagem[s] = Nulo
                /\ Sucede(encomendas[pedido[s].e], encomendas'[pedido[s].e])
  <2>1. CASE pedido[s].e # e
    BY <1>1, <2>1 DEF Base, TypeOK
  <2>2. CASE pedido[s].e = e
    <3>1. imagem[s] = Nulo
      BY <1>1, <2>2 DEF RowLivre, Segura
    <3>2. pedido[s].e \in Encomenda
      BY <1>2 DEF Base, TypeOK, Pedido
    <3>3. encomendas'[pedido[s].e] = Nulo
      BY <1>1, <2>2, <3>2 DEF Base, TypeOK
    <3> QED BY <3>1, <3>3 DEF Sucede
  <2> QED BY <2>1, <2>2
<1> QED BY <1>1, <1>2, AbertosEncerrar

\* Every step keeps the links of the open requests.
LEMMA AbertosStep ==
    ASSUME Base, Abertos, Gravados, [Next]_vars
    PROVE  Abertos'
<1>1. ASSUME NEW r \in Requisicao, PassoDe(r) PROVE Abertos'
  <2>1. CASE ApagarFilhos(r)
    <3>1. /\ fase[r] = "lida" /\ fase' = [fase EXCEPT ![r] = "filhosApagados"]
          /\ UNCHANGED <<encomendas, pedido, imagem, registro>>
      BY <2>1 DEF ApagarFilhos, tabelas
    <3>2. imagem[r] = Nulo
      BY <3>1 DEF Base, Fases, ComLinha
    <3>3. AbertoValido(r)'
      BY <3>1, <3>2 DEF Base, TypeOK, AbertoValido
    <3>4. ASSUME NEW s \in Requisicao, s # r PROVE AbertoValido(s)'
      BY <3>1, <3>4, OutroAberto DEF Abertos, Base, TypeOK
    <3> QED BY <3>3, <3>4 DEF Abertos
  <2>2. CASE FimSemEfeito(r)
    BY <2>2, AbertosEncerrar DEF FimSemEfeito, tabelas
  <2> QED BY <1>1, <2>1, <2>2, AbertosLeitura, AbertosInsercao, AbertosEscrita,
             AbertosRegistrarEvento, AbertosPromover, AbertosConfirmar, AbertosApagarLinha
          DEF PassoDe
<1>2. ASSUME DespacharPush \/ UNCHANGED vars PROVE Abertos'
  BY <1>2, OutroAberto DEF DespacharPush, Enviar, vars, tabelas, Abertos
<1> QED BY <1>1, <1>2, Passo

\* The last element of s \o t is the last of t.
LEMMA UltimoDaConcatenacao ==
    ASSUME NEW S, NEW s \in Seq(S), NEW t \in Seq(S), t # <<>>
    PROVE  s \o t # <<>> /\ (s \o t)[Len(s \o t)] = t[Len(t)]
<1>1. Len(s) \in Nat /\ Len(t) \in Nat
  BY LenProperties
<1>2. Len(t) # 0
  BY EmptySeq
<1>3. ASSUME NEW m \in Nat, NEW n \in Nat, n # 0
      PROVE  m + n \in 1 .. m + n /\ ~(m + n <= m) /\ (m + n) - m = n
  BY <1>3
<1>4. Len(s \o t) = Len(s) + Len(t)
  BY ConcatProperties
<1>5. (s \o t)[Len(s) + Len(t)] = t[Len(t)]
  BY <1>1, <1>2, <1>3, ConcatProperties
<1>6. s \o t # <<>>
  BY ConcatEqualIffEmpty
<1> QED BY <1>4, <1>5, <1>6

\* The rows, the history and the notices after a commit.
LEMMA ConfirmadosConfirmar ==
    ASSUME Base, Abertos, Confirmados, NEW r \in Requisicao, Confirmar(r)
    PROVE  Confirmados'
<1> DEFINE e == pedido[r].e
           l == imagem[r]
           c == encomendas[e]
<1>1. /\ e \in Encomenda
      /\ l \in Linha /\ l # Nulo /\ EntregaRegular(l)
      /\ fase[r] = "registrada"
      /\ registro[r] \in Seq(Evento)
      /\ encomendas' = [encomendas EXCEPT ![e] = l]
      /\ eventos' = [eventos EXCEPT ![e] = @ \o registro[r]]
      /\ \/ pedido[r].op \in Movimento /\ MovimentoValido(r)
         \/ pedido[r].op \in Marcacao /\ MarcacaoValida(r)
  BY LinhaConfirmada
<1>2. /\ encomendas'[e] = l
      /\ eventos'[e] = eventos[e] \o registro[r]
      /\ \A d \in Encomenda : d # e => encomendas'[d] = encomendas[d] /\ eventos'[d] = eventos[d]
  BY <1>1 DEF Base, TypeOK
<1>3. Gravados'
  <2> SUFFICES ASSUME NEW d \in Encomenda, encomendas'[d] # Nulo
               PROVE  EntregaRegular(encomendas'[d])
    BY DEF Gravados, EntregaRegular, Habilitado
  <2>1. CASE d = e
    BY <1>1, <1>2, <2>1
  <2>2. CASE d # e
    BY <1>2, <2>2 DEF Confirmados, Gravados
  <2> QED BY <2>1, <2>2
<1>4. eventos[e] \in Seq(Evento)
  BY <1>1 DEF Base, TypeOK
<1>5. UltimoEventoContaOStatus'
  <2>1. eventos'[e] # <<>> /\ eventos'[e][Len(eventos'[e])].status = l.status
    <3>1. CASE MovimentoValido(r)
      <4>1. registro[r] # <<>> /\ registro[r][Len(registro[r])].status = l.status
        BY <1>1, <3>1 DEF MovimentoValido
      <4> DEFINE h == eventos[e] \o registro[r]
      <4>2. h # <<>> /\ h[Len(h)] = registro[r][Len(registro[r])]
        BY <1>1, <1>4, <4>1, UltimoDaConcatenacao
      <4>3. eventos'[e] = h
        BY <1>2
      <4> QED BY <4>1, <4>2, <4>3
    <3>2. CASE MarcacaoValida(r)
      <4>1. registro[r] = <<>> /\ c # Nulo /\ l.status = c.status
        BY <3>2 DEF MarcacaoValida
      <4>2. eventos'[e] = eventos[e]
        BY <1>2, <1>4, <4>1
      <4>3. eventos[e] # <<>> /\ eventos[e][Len(eventos[e])].status = c.status
        BY <1>1, <4>1 DEF Confirmados, UltimoEventoContaOStatus
      <4> QED BY <4>1, <4>2, <4>3
    <3> QED BY <1>1, <3>1, <3>2
  <2> QED BY <1>2, <2>1 DEF Confirmados, UltimoEventoContaOStatus
<1>6. EstadoConfirmado'
  <2>1. l.status # "recebida"
    <3>1. CASE MovimentoValido(r)
      BY <1>1, <3>1 DEF MovimentoValido
    <3>2. CASE MarcacaoValida(r)
      BY <1>1, <3>2 DEF MarcacaoValida, Confirmados, EstadoConfirmado
    <3> QED BY <1>1, <3>1, <3>2
  <2> QED BY <1>1, <1>2, <2>1 DEF Confirmados, EstadoConfirmado, EntregaRegular
<1>7. SemOrfaos'
  <2>1. notificacoes' = notificacoes \cup
            {[e |-> e, destino |-> a.destino, tipo |-> a.tipo, r |-> r] : a \in AvisosDe(r)}
    BY DEF Confirmar
  <2>2. \A n \in notificacoes' : n \in notificacoes \/ n.e = e
    BY <2>1
  <2> QED BY <1>1, <1>2, <2>2 DEF Confirmados, SemOrfaos
<1> QED BY <1>3, <1>5, <1>6, <1>7 DEF Confirmados

\* hardRemove leaves neither history nor notice of the row it deletes.
LEMMA ConfirmadosApagarLinha ==
    ASSUME Base, Confirmados, NEW r \in Requisicao, ApagarLinha(r)
    PROVE  Confirmados'
<1> DEFINE e == pedido[r].e
<1>1. /\ encomendas' = [encomendas EXCEPT ![e] = Nulo]
      /\ eventos' = [eventos EXCEPT ![e] = <<>>]
      /\ notificacoes' = {n \in notificacoes : n.e # e}
  BY DEF ApagarLinha
<1>2. \A d \in Encomenda :
          \/ d # e /\ encomendas'[d] = encomendas[d] /\ eventos'[d] = eventos[d]
          \/ d = e /\ encomendas'[d] = Nulo /\ eventos'[d] = <<>>
  BY <1>1 DEF Base, TypeOK
<1>3. Gravados' /\ UltimoEventoContaOStatus' /\ EstadoConfirmado'
  BY <1>2 DEF Confirmados, Gravados, UltimoEventoContaOStatus, EstadoConfirmado,
              EntregaRegular, Habilitado
<1>4. SemOrfaos'
  BY <1>1, <1>2 DEF Confirmados, SemOrfaos
<1> QED BY <1>3, <1>4 DEF Confirmados

\* Every step keeps what is said of the committed tables.
LEMMA ConfirmadosStep ==
    ASSUME Base, Abertos, Confirmados, [Next]_vars
    PROVE  Confirmados'
<1>1. ASSUME NEW r \in Requisicao, PassoDe(r), ~Confirmar(r), ~ApagarLinha(r)
      PROVE  UNCHANGED tabelas
  BY <1>1 DEF PassoDe, Leitura, Ler, Insercao, Inserir, Escrita, Gravar, RegistrarEvento,
              Promover, ApagarFilhos, FimSemEfeito, tabelas
<1>2. DespacharPush \/ UNCHANGED vars => UNCHANGED tabelas
  BY DEF DespacharPush, Enviar, vars, tabelas
<1> QED BY <1>1, <1>2, Passo, TabelasIguais, ConfirmadosConfirmar, ConfirmadosApagarLinha

-----------------------------------------------------------------------------
(* Relato is inductive next to IInv.                                       *)

\* The last element of Append(s, v) is v, the others are those of s.
LEMMA ElementosDoAnexo ==
    ASSUME NEW S, NEW s \in Seq(S), NEW v \in S, NEW i \in DOMAIN Append(s, v)
    PROVE  Append(s, v)[i] = v \/ (i \in DOMAIN s /\ Append(s, v)[i] = s[i])
BY AppendProperties, LenProperties

\* Which movements announce a hand-over and which a cancellation.
LEMMA AvisosDeFim ==
    ASSUME NEW ev \in Evento, NEW f, NEW u
    PROVE  /\ (\E a \in Avisos(ev, f, u) : a.tipo = "entregue")
                  <=> ev.acao = "atualizada" /\ ev.status = "retirada" /\ f # "morador"
           /\ (\E a \in Avisos(ev, f, u) : a.tipo = "cancelada")
                  <=> ev.acao = "atualizada" /\ ev.status = "cancelada"
<1>1. CASE ev.acao = "atualizada" /\ ev.status = "retirada" /\ f # "morador"
  <2>1. Avisos(ev, f, u) = {[destino |-> u, tipo |-> "entregue"]}
    BY <1>1 DEF Avisos, Evento
  <2>2. /\ \A a \in Avisos(ev, f, u) : a.tipo = "entregue"
        /\ \E a \in Avisos(ev, f, u) : a.tipo = "entregue"
    BY ONLY <2>1
  <2> QED BY ONLY <1>1, <2>2
<1>2. CASE ev.acao = "atualizada" /\ ev.status = "cancelada"
  <2>1. Avisos(ev, f, u) = {[destino |-> u, tipo |-> "cancelada"]}
    BY <1>2 DEF Avisos, Evento
  <2>2. /\ \A a \in Avisos(ev, f, u) : a.tipo = "cancelada"
        /\ \E a \in Avisos(ev, f, u) : a.tipo = "cancelada"
    BY ONLY <2>1
  <2> QED BY ONLY <1>2, <2>2
<1>3. CASE ~(ev.acao = "atualizada" /\ ev.status = "retirada" /\ f # "morador")
               /\ ~(ev.acao = "atualizada" /\ ev.status = "cancelada")
  <2>1. \A a \in Avisos(ev, f, u) : a.tipo \in {"prevista", "recebida", "lembrete"}
    BY <1>3 DEF Avisos, Evento
  <2> QED BY ONLY <1>3, <2>1
<1> QED BY <1>1, <1>2, <1>3

\* The empty database satisfies Relato.
LEMMA RelatoInit == Init => Relato
BY DEF Init, Relato, RelatoValido, AvisoAcompanhaEvento

\* A step that leaves s and its row alone keeps what s will tell.
LEMMA OutroRelato ==
    ASSUME NEW s \in Requisicao, RelatoValido(s),
           fase'[s] = fase[s], pedido'[s] = pedido[s], imagem'[s] = imagem[s],
           registro'[s] = registro[s],
           imagem[s] # Nulo /\ pedido[s].op # "create" =>
               encomendas'[pedido[s].e] = encomendas[pedido[s].e]
    PROVE  RelatoValido(s)'
BY DEF RelatoValido, DaEquipe, LinhaNova, EntregaConta, EventoAnunciado

\* A row that an open request has written is changed by nobody else.
LEMMA LinhaPresa ==
    ASSUME Base, Abertos, NEW r \in Requisicao, NEW s \in Requisicao \ {r},
           Confirmar(r) \/ ApagarLinha(r), imagem[s] # Nulo
    PROVE  encomendas'[pedido[s].e] = encomendas[pedido[s].e]
<1>1. CASE Confirmar(r)
  <2>1. /\ pedido[r].e \in Encomenda /\ imagem[r] # Nulo
        /\ encomendas' = [encomendas EXCEPT ![pedido[r].e] = imagem[r]]
    BY <1>1, LinhaConfirmada
  <2>2. pedido[s].e # pedido[r].e
    BY <2>1 DEF Base, Trancas
  <2> QED BY <2>1, <2>2 DEF Base, TypeOK
<1>2. CASE ApagarLinha(r)
  BY <1>2 DEF ApagarLinha, RowLivre, Segura, Base, TypeOK
<1> QED BY <1>1, <1>2

\* A step of r leaves what the other requests have done as it is.
LEMMA SoDeUm ==
    ASSUME Base, NEW r \in Requisicao, PassoDe(r), NEW s \in Requisicao \ {r}
    PROVE  /\ fase'[s] = fase[s] /\ pedido'[s] = pedido[s]
           /\ imagem'[s] = imagem[s] /\ registro'[s] = registro[s]
<1>1. CASE (\E p \in Pedido : Leitura(r, p)) \/ (\E p \in Pedido, l \in Linha : Insercao(r, p, l))
  BY <1>1 DEF Leitura, Ler, Insercao, Inserir, Base, TypeOK
<1>2. CASE \E op \in Operacao, l \in Linha, f \in ComLinha : Escrita(r, op, l, f)
  BY <1>2 DEF Escrita, Gravar, Base, TypeOK
<1>3. CASE RegistrarEvento(r) \/ Promover(r) \/ ApagarFilhos(r)
  BY <1>3 DEF RegistrarEvento, Promover, ApagarFilhos, Base, TypeOK
<1>4. CASE Confirmar(r) \/ ApagarLinha(r) \/ FimSemEfeito(r)
  BY <1>4 DEF Confirmar, ApagarLinha, FimSemEfeito, Encerrar, Base, TypeOK
<1> QED BY <1>1, <1>2, <1>3, <1>4 DEF PassoDe

\* What the open requests will tell is kept by every step of a request.
LEMMA RelatosDosAbertos ==
    ASSUME IInv, \A s \in Requisicao : RelatoValido(s), NEW r \in Requisicao, PassoDe(r)
    PROVE  \A s \in Requisicao : RelatoValido(s)'
<1>b. Base /\ Abertos
  BY DEF IInv, Vinculos
<1>1. ASSUME NEW s \in Requisicao, s # r PROVE RelatoValido(s)'
  <2>1. /\ fase'[s] = fase[s] /\ pedido'[s] = pedido[s]
        /\ imagem'[s] = imagem[s] /\ registro'[s] = registro[s]
    BY <1>1, <1>b, SoDeUm
  <2>2. ~Confirmar(r) /\ ~ApagarLinha(r) => encomendas' = encomendas
    BY DEF PassoDe, Leitura, Ler, Insercao, Inserir, Escrita, Gravar, RegistrarEvento,
           Promover, ApagarFilhos, FimSemEfeito, tabelas
  <2> QED BY <1>1, <1>b, <2>1, <2>2, LinhaPresa, OutroRelato
<1>2. ASSUME NEW p \in Pedido, Leitura(r, p) PROVE RelatoValido(r)'
  <2>1. pedido'[r] = p /\ imagem'[r] = Nulo /\ registro'[r] = <<>>
    BY <1>2, <1>b DEF Leitura, Ler, Base, TypeOK, Fases, ComLinha
  <2>2. DOMAIN registro'[r] = {}
    BY <2>1
  <2> QED BY <1>2, <2>1, <2>2 DEF Leitura, RelatoValido, DaEquipe
<1>3. ASSUME NEW p \in Pedido, NEW l \in Linha, Insercao(r, p, l) PROVE RelatoValido(r)'
  <2>1. pedido'[r] = p /\ imagem'[r] = l /\ fase'[r] = "gravada" /\ registro'[r] = <<>>
    BY <1>3, <1>b DEF Insercao, Inserir, Base, TypeOK, Fases, ComLinha
  <2>2. DOMAIN registro'[r] = {}
    BY <2>1
  <2> QED BY <1>3, <2>1, <2>2 DEF Insercao, RelatoValido, DaEquipe, LinhaNova
<1>4. ASSUME NEW op \in Operacao, NEW l \in Linha, NEW f \in ComLinha, Escrita(r, op, l, f)
      PROVE  RelatoValido(r)'
  <2>1. /\ pedido' = pedido /\ imagem'[r] = l /\ registro'[r] = <<>> /\ encomendas' = encomendas
        /\ pedido[r].op = op /\ pedido[r] # Nulo
    BY <1>4, <1>b DEF Escrita, Gravar, Base, TypeOK, Fases, ComLinha, tabelas, NoAberto, Aberta
  <2>2. pedido[r].op \in Movimento \ {"create"} => EntregaConta(l, encomendas[pedido[r].e])
    BY <1>4, <2>1 DEF Escrita, Movimento, Marcacao
  <2>3. pedido[r].op # "create"
    BY <1>4, <2>1 DEF Escrita, Movimento, Marcacao
  <2>4. DOMAIN registro'[r] = {}
    BY <2>1
  <2>5. fase'[r] = f /\ f # "recebida"
    BY <1>4, <1>b DEF Escrita, Gravar, Base, TypeOK, Movimento, Marcacao
  <2> QED BY <2>1, <2>2, <2>3, <2>4, <2>5 DEF RelatoValido, DaEquipe, EntregaConta
<1>5. ASSUME RegistrarEvento(r) PROVE RelatoValido(r)'
  <2> DEFINE a == IF pedido[r].op = "create" /\ registro[r] = <<>> THEN "criada" ELSE "atualizada"
             ev == [acao |-> a, status |-> imagem[r].status]
             f == IF imagem[r].status = "recebida" THEN "recebida" ELSE "registrada"
  <2>1. /\ fase[r] = "gravada"
        /\ registro' = [registro EXCEPT ![r] = Append(@, ev)]
        /\ fase' = [fase EXCEPT ![r] = f]
        /\ UNCHANGED <<encomendas, pedido, imagem>>
    BY <1>5 DEF RegistrarEvento, tabelas
  <2>2. imagem[r] \in Linha /\ imagem[r] # Nulo /\ pedido[r] # Nulo
    BY <2>1, <1>b DEF Base, TypeOK, Fases, ComLinha, NoAberto, Aberta
  <2>3. pedido[r].op \in Movimento
    BY <1>b, <2>1, <2>2 DEF Abertos, AbertoValido, MarcacaoValida
  <2>4. registro[r] \in Seq(Evento) /\ ev \in Evento
    BY <1>b, <2>2 DEF Base, TypeOK, Evento, Linha
  <2>5. registro'[r] = Append(registro[r], ev) /\ fase'[r] = f
    BY <1>b, <2>1 DEF Base, TypeOK
  <2>6. EventoAnunciado(ev, PerfilDe[pedido[r].ator])
    <3>1. CASE pedido[r].op = "create"
      BY <2>1, <2>2, <3>1 DEF RelatoValido, LinhaNova, EventoAnunciado
    <3>2. CASE pedido[r].op # "create"
      BY <2>2, <2>3, <3>2 DEF RelatoValido, DaEquipe, EventoAnunciado
    <3> QED BY <3>1, <3>2
  <2>7. \A i \in DOMAIN registro'[r] : EventoAnunciado(registro'[r][i], PerfilDe[pedido[r].ator])
    BY <2>4, <2>5, <2>6, ElementosDoAnexo DEF RelatoValido
  <2> QED BY <2>1, <2>5, <2>7 DEF RelatoValido, DaEquipe, LinhaNova, EntregaConta, EventoAnunciado
<1>6. ASSUME Promover(r) PROVE RelatoValido(r)'
  <2> DEFINE l == [imagem[r] EXCEPT !.status = "aguardando"]
  <2>1. /\ fase[r] = "recebida"
        /\ imagem' = [imagem EXCEPT ![r] = l]
        /\ UNCHANGED <<encomendas, pedido, registro>>
    BY <1>6 DEF Promover, tabelas
  <2>2. imagem[r] \in Linha /\ imagem[r] # Nulo /\ pedido[r] # Nulo
    BY <2>1, <1>b DEF Base, TypeOK, Fases, ComLinha, NoAberto, Aberta
  <2>3. imagem'[r] = l /\ fase'[r] = "gravada" /\ registro'[r] = registro[r]
    BY <1>6, <1>b, <2>1 DEF Promover, Base, TypeOK
  <2>4. /\ l.status = "aguardando" /\ l.deleted = imagem[r].deleted
        /\ l.entregue_por = imagem[r].entregue_por
    BY <2>2 DEF Linha
  <2>5. imagem[r].status = "recebida"
    BY <2>1, <2>2 DEF RelatoValido
  <2>6. pedido' = pedido /\ encomendas' = encomendas
    BY <2>1
  <2>7. pedido[r].op = "create" => LinhaNova(l)
    BY <2>2, <2>4, <2>5 DEF RelatoValido, LinhaNova
  <2>8. pedido[r].op \in Movimento \ {"create"} => EntregaConta(l, encomendas[pedido[r].e])
    BY <2>2, <2>4, <2>5 DEF RelatoValido, EntregaConta
  <2>9. /\ DaEquipe(pedido[r])
        /\ \A i \in DOMAIN registro[r] : EventoAnunciado(registro[r][i], PerfilDe[pedido[r].ator])
    BY <2>2 DEF RelatoValido
  <2> HIDE DEF l
  <2> QED BY <2>3, <2>4, <2>6, <2>7, <2>8, <2>9 DEF RelatoValido, LinhaNova, EntregaConta, EventoAnunciado, DaEquipe
<1>7. ASSUME Confirmar(r) \/ ApagarLinha(r) \/ FimSemEfeito(r) PROVE RelatoValido(r)'
  <2>1. pedido'[r] = Nulo /\ imagem'[r] = Nulo /\ DOMAIN registro'[r] = {}
    BY <1>7, <1>b DEF Confirmar, ApagarLinha, FimSemEfeito, Encerrar, Base, TypeOK
  <2> QED BY <2>1 DEF RelatoValido
<1>8. ASSUME ApagarFilhos(r) PROVE RelatoValido(r)'
  <2>1. /\ UNCHANGED <<encomendas, pedido, imagem, registro>>
        /\ imagem[r] = Nulo /\ pedido'[r] = pedido[r] /\ imagem'[r] = Nulo
        /\ registro'[r] = registro[r]
    BY <1>8, <1>b DEF ApagarFilhos, tabelas, Base, Fases, ComLinha
  <2> QED BY <2>1 DEF RelatoValido, DaEquipe, EventoAnunciado
<1> QED BY <1>1, <1>2, <1>3, <1>4, <1>5, <1>6, <1>7, <1>8 DEF PassoDe

\* The two facts of a history that the holder is told of.
ContaEntrega(h) == \E i \in DOMAIN h : h[i] = [acao |-> "atualizada", status |-> "retirada"]
ContaCancelamento(h) == \E i \in DOMAIN h : h[i].status = "cancelada"

\* The history of a parcel after a commit tells what it told and what the commit adds.
LEMMA HistoriaSomada ==
    ASSUME NEW s \in Seq(Evento), NEW h \in Seq(Evento)
    PROVE  /\ ContaEntrega(s \o h) <=> ContaEntrega(s) \/ ContaEntrega(h)
           /\ ContaCancelamento(s \o h) <=> ContaCancelamento(s) \/ ContaCancelamento(h)
<1> DEFINE t == s \o h
<1>1. /\ Len(s) \in Nat /\ Len(h) \in Nat
      /\ DOMAIN s = 1 .. Len(s) /\ DOMAIN h = 1 .. Len(h)
  BY LenProperties
<1>2. DOMAIN t = 1 .. (Len(s) + Len(h))
  <2>1. t \in Seq(Evento) /\ Len(t) = Len(s) + Len(h)
    BY ConcatProperties
  <2> QED BY <2>1, LenProperties
<1>3. \A i \in 1 .. (Len(s) + Len(h)) : t[i] = IF i <= Len(s) THEN s[i] ELSE h[i - Len(s)]
  BY ConcatProperties
<1> HIDE DEF t
<1>4. \A i \in DOMAIN t : (\E k \in DOMAIN s : s[k] = t[i]) \/ (\E k \in DOMAIN h : h[k] = t[i])
  <2> SUFFICES ASSUME NEW i \in DOMAIN t
               PROVE  (\E k \in DOMAIN s : s[k] = t[i]) \/ (\E k \in DOMAIN h : h[k] = t[i])
    OBVIOUS
  <2>1. CASE i <= Len(s)
    BY <1>1, <1>2, <1>3, <2>1
  <2>2. CASE ~(i <= Len(s))
    <3>1. i - Len(s) \in DOMAIN h
      BY <1>1, <1>2, <2>2
    <3> QED BY <1>2, <1>3, <2>2, <3>1
  <2> QED BY <2>1, <2>2
<1>5. \A k \in DOMAIN s : \E i \in DOMAIN t : t[i] = s[k]
  BY <1>1, <1>2, <1>3
<1>6. \A k \in DOMAIN h : \E i \in DOMAIN t : t[i] = h[k]
  <2> SUFFICES ASSUME NEW k \in DOMAIN h PROVE \E i \in DOMAIN t : t[i] = h[k]
    OBVIOUS
  <2>1. /\ k + Len(s) \in 1 .. (Len(s) + Len(h))
        /\ ~(k + Len(s) <= Len(s)) /\ (k + Len(s)) - Len(s) = k
    BY <1>1
  <2> QED BY <1>2, <1>3, <2>1
<1>7. /\ ContaEntrega(t) <=> ContaEntrega(s) \/ ContaEntrega(h)
      /\ ContaCancelamento(t) <=> ContaCancelamento(s) \/ ContaCancelamento(h)
  BY ONLY <1>4, <1>5, <1>6 DEF ContaEntrega, ContaCancelamento
<1> QED BY <1>7 DEF t

\* The notices a commit inserts tell what its history rows tell.
LEMMA AvisosContam ==
    ASSUME Base, NEW r \in Requisicao, RelatoValido(r)
    PROVE  /\ (\E a \in AvisosDe(r) : a.tipo = "entregue") <=> ContaEntrega(registro[r])
           /\ (\E a \in AvisosDe(r) : a.tipo = "cancelada") <=> ContaCancelamento(registro[r])
<1> DEFINE f == PerfilDe[pedido[r].ator]
           u == imagem[r].uuid_usuario
           h == registro[r]
<1>1. \A i \in DOMAIN h : h[i] \in Evento /\ EventoAnunciado(h[i], f)
  BY DEF Base, TypeOK, RelatoValido
<1>2. \A a : a \in AvisosDe(r) <=> \E i \in DOMAIN h : a \in Avisos(h[i], f, u)
  BY DEF AvisosDe
<1>3. ASSUME NEW i \in DOMAIN h
      PROVE  /\ (\E a \in Avisos(h[i], f, u) : a.tipo = "entregue")
                    <=> h[i] = [acao |-> "atualizada", status |-> "retirada"]
             /\ (\E a \in Avisos(h[i], f, u) : a.tipo = "cancelada")
                    <=> h[i].status = "cancelada"
  <2>1. h[i] \in Evento /\ EventoAnunciado(h[i], f)
    BY <1>1
  <2>2. h[i] = [acao |-> "atualizada", status |-> "retirada"]
            <=> h[i].acao = "atualizada" /\ h[i].status = "retirada"
    BY <2>1 DEF Evento
  <2>3. /\ (\E a \in Avisos(h[i], f, u) : a.tipo = "entregue")
                  <=> h[i].acao = "atualizada" /\ h[i].status = "retirada" /\ f # "morador"
        /\ (\E a \in Avisos(h[i], f, u) : a.tipo = "cancelada")
                  <=> h[i].acao = "atualizada" /\ h[i].status = "cancelada"
    BY <2>1, AvisosDeFim
  <2> HIDE DEF h, f, u
  <2> QED BY ONLY <2>1, <2>2, <2>3 DEF EventoAnunciado
<1> HIDE DEF h, f, u
<1>4. (\E a \in AvisosDe(r) : a.tipo = "entregue") <=> ContaEntrega(h)
  BY <1>2, <1>3 DEF ContaEntrega
<1>5. (\E a \in AvisosDe(r) : a.tipo = "cancelada") <=> ContaCancelamento(h)
  BY <1>2, <1>3 DEF ContaCancelamento
<1> QED BY <1>4, <1>5 DEF h

\* The holder has been told of what the history records, after a commit.
LEMMA AvisoConfirmar ==
    ASSUME IInv, Relato, NEW r \in Requisicao, Confirmar(r)
    PROVE  AvisoAcompanhaEvento'
<1>b. Base /\ Abertos
  BY DEF IInv, Vinculos
<1> DEFINE e == pedido[r].e
           Lembra(ns, d, tipo) == \E n \in ns : n.e = d /\ n.tipo = tipo
           Inserido(tipo) == \E a \in AvisosDe(r) : a.tipo = tipo
<1>1. /\ e \in Encomenda
      /\ registro[r] \in Seq(Evento)
      /\ eventos' = [eventos EXCEPT ![e] = @ \o registro[r]]
  BY <1>b, LinhaConfirmada
<1>2. eventos[e] \in Seq(Evento)
  BY <1>1, <1>b DEF Base, TypeOK
<1>3. /\ eventos'[e] = eventos[e] \o registro[r]
      /\ \A d \in Encomenda : d # e => eventos'[d] = eventos[d]
  BY <1>1, <1>b DEF Base, TypeOK
<1>4. notificacoes' = notificacoes \cup
          {[e |-> e, destino |-> a.destino, tipo |-> a.tipo, r |-> r] : a \in AvisosDe(r)}
  BY DEF Confirmar
<1>5. \A tipo : Lembra(notificacoes', e, tipo) <=> Lembra(notificacoes, e, tipo) \/ Inserido(tipo)
  <2> SUFFICES ASSUME NEW tipo
               PROVE  (\E n \in notificacoes' : n.e = e /\ n.tipo = tipo)
                          <=> Lembra(notificacoes, e, tipo) \/ Inserido(tipo)
    OBVIOUS
  <2>1. ASSUME NEW n \in notificacoes', n.e = e, n.tipo = tipo
        PROVE  Lembra(notificacoes, e, tipo) \/ Inserido(tipo)
    <3>1. CASE n \in notificacoes
      BY <2>1, <3>1
    <3>2. CASE n \notin notificacoes
      <4>1. PICK a \in AvisosDe(r) :
                n = [e |-> e, destino |-> a.destino, tipo |-> a.tipo, r |-> r]
        BY <1>4, <3>2
      <4>2. a.tipo = tipo
        BY <2>1, <4>1
      <4> QED BY <4>2
    <3> QED BY <3>1, <3>2
  <2>2. ASSUME NEW a \in AvisosDe(r), a.tipo = tipo
        PROVE  \E n \in notificacoes' : n.e = e /\ n.tipo = tipo
    <3> DEFINE n == [e |-> e, destino |-> a.destino, tipo |-> a.tipo, r |-> r]
    <3>1. n \in notificacoes' /\ n.e = e /\ n.tipo = tipo
      BY <1>4, <2>2
    <3> QED BY <3>1
  <2>3. notificacoes \subseteq notificacoes'
    BY <1>4
  <2> QED BY <2>1, <2>2, <2>3
<1>6. ASSUME NEW d \in Encomenda, d # e, NEW tipo PROVE Lembra(notificacoes', d, tipo) <=> Lembra(notificacoes, d, tipo)
  <2>1. \A n : n.e = d => (n \in notificacoes' <=> n \in notificacoes)
    BY <1>4, <1>6
  <2> QED BY <2>1
<1>7. /\ Inserido("entregue") <=> ContaEntrega(registro[r])
      /\ Inserido("cancelada") <=> ContaCancelamento(registro[r])
  BY <1>b, AvisosContam DEF Relato
<1>8. /\ ContaEntrega(eventos'[e]) <=> ContaEntrega(eventos[e]) \/ ContaEntrega(registro[r])
      /\ ContaCancelamento(eventos'[e])
             <=> ContaCancelamento(eventos[e]) \/ ContaCancelamento(registro[r])
  <2> DEFINE s == eventos[e]
             h == registro[r]
  <2>1. s \in Seq(Evento) /\ h \in Seq(Evento) /\ eventos'[e] = s \o h
    BY <1>1, <1>2, <1>3
  <2> HIDE DEF s, h
  <2>2. /\ ContaEntrega(s \o h) <=> ContaEntrega(s) \/ ContaEntrega(h)
        /\ ContaCancelamento(s \o h) <=> ContaCancelamento(s) \/ ContaCancelamento(h)
    BY ONLY <2>1, HistoriaSomada
  <2> QED BY <2>1, <2>2 DEF s, h
<1>9. \A d \in Encomenda : /\ ContaEntrega(eventos[d]) <=> Lembra(notificacoes, d, "entregue")
                           /\ ContaCancelamento(eventos[d]) <=> Lembra(notificacoes, d, "cancelada")
  BY DEF Relato, AvisoAcompanhaEvento, ContaEntrega, ContaCancelamento
<1>10. ASSUME NEW d \in Encomenda
       PROVE  /\ ContaEntrega(eventos'[d]) <=> Lembra(notificacoes', d, "entregue")
              /\ ContaCancelamento(eventos'[d]) <=> Lembra(notificacoes', d, "cancelada")
  <2> HIDE DEF Lembra, Inserido
  <2>1. CASE d = e
    BY <1>5, <1>7, <1>8, <1>9, <2>1
  <2>2. CASE d # e
    <3>1. Lembra(notificacoes', d, "entregue") <=> Lembra(notificacoes, d, "entregue")
      BY <1>6, <2>2
    <3>2. Lembra(notificacoes', d, "cancelada") <=> Lembra(notificacoes, d, "cancelada")
      BY <1>6, <2>2
    <3> QED BY <1>3, <1>9, <2>2, <3>1, <3>2
  <2> QED BY <2>1, <2>2
<1> QED BY <1>10 DEF AvisoAcompanhaEvento, ContaEntrega, ContaCancelamento

\* A step keeps what open requests will tell and what the holder was told.
LEMMA RelatoStep ==
    ASSUME IInv, Relato, [Next]_vars
    PROVE  Relato'
<1>b. Base /\ Abertos
  BY DEF IInv, Vinculos
<1>1. ASSUME NEW r \in Requisicao, PassoDe(r) PROVE Relato'
  <2>1. \A s \in Requisicao : RelatoValido(s)'
    BY <1>1, RelatosDosAbertos DEF Relato
  <2>2. CASE Confirmar(r)
    BY <2>1, <2>2, AvisoConfirmar DEF Relato
  <2>3. CASE ApagarLinha(r)
    <3> DEFINE e == pedido[r].e
    <3>1. /\ eventos' = [eventos EXCEPT ![e] = <<>>]
          /\ notificacoes' = {n \in notificacoes : n.e # e}
      BY <2>3 DEF ApagarLinha
    <3>2. \A d \in Encomenda : eventos'[d] = IF d = e THEN <<>> ELSE eventos[d]
      BY <3>1, <1>b DEF Base, TypeOK
    <3>3. AvisoAcompanhaEvento'
      BY <3>1, <3>2 DEF Relato, AvisoAcompanhaEvento
    <3> QED BY <2>1, <3>3 DEF Relato
  <2>4. CASE ~Confirmar(r) /\ ~ApagarLinha(r)
    <3>1. eventos' = eventos /\ notificacoes' = notificacoes
      BY <1>1, <2>4 DEF PassoDe, Leitura, Ler, Insercao, Inserir, Escrita, Gravar,
                        RegistrarEvento, Promover, ApagarFilhos, FimSemEfeito, tabelas
    <3> QED BY <2>1, <3>1 DEF Relato, AvisoAcompanhaEvento
  <2> QED BY <2>2, <2>3, <2>4
<1>2. ASSUME DespacharPush \/ UNCHANGED vars PROVE Relato'
  BY <1>2, OutroRelato DEF DespacharPush, Enviar, vars, tabelas, Relato, AvisoAcompanhaEvento
<1> QED BY <1>b, <1>1, <1>2, Passo

-----------------------------------------------------------------------------
(* PushInv is inductive next to IInv.                                      *)

\* A request that has inserted no history row has no notice, and so no push.
LEMMA SemAvisos ==
    ASSUME Base, PushInv, NEW r \in Requisicao, fase[r] \in Fase \ (ComLinha \cup {"confirmada"})
    PROVE  AvisosDe(r) = {} /\ \A p \in pushes : p.r # r
<1>1. registro[r] = <<>>
  BY DEF Base, Fases
<1>2. DOMAIN registro[r] = {}
  BY <1>1
<1>3. AvisosDe(r) = {}
  BY <1>2 DEF AvisosDe
<1> QED BY <1>3 DEF PushInv, PushValido

\* The pushes of the requests other than r, and those of ended ones, stay valid when r
\* leaves the tables alone and starts to create no parcel that was drawn before.
LEMMA OutroPush ==
    ASSUME Base, PushInv, NEW r \in Requisicao, PassoDe(r), NEW p \in pushes, p.r # r,
           encomendas[p.e] = Nulo => encomendas'[p.e] = Nulo,
           AvisoDo(p) \in notificacoes => AvisoDo(p) \in notificacoes' \/ encomendas'[p.e] = Nulo,
           emitidos \subseteq emitidos', EmCriacao' \cap emitidos \subseteq EmCriacao
    PROVE  PushValido(p)'
<1>1. p.r \in Requisicao \ {r}
  BY DEF Base, TypeOK, Push
<1>2. /\ fase'[p.r] = fase[p.r] /\ pedido'[p.r] = pedido[p.r]
      /\ imagem'[p.r] = imagem[p.r] /\ registro'[p.r] = registro[p.r]
  BY <1>1, SoDeUm
<1>3. AvisosDe(p.r)' = AvisosDe(p.r)
  BY <1>2 DEF AvisosDe
<1>4. PushValido(p)
  BY DEF PushInv
<1> QED BY <1>2, <1>3, <1>4 DEF PushValido, AvisoDo

\* The notices of the requests other than r stay scheduled.
LEMMA OutrosAgendados ==
    ASSUME Base, PushInv, NEW r \in Requisicao, PassoDe(r), fase[r] # "confirmada",
           \A p \in pushes : p.r # r => p \in pushes'
    PROVE  /\ \A s \in Requisicao \ {r} : NoAberto(s)' =>
                 \A a \in AvisosDe(s)' : a.tipo \in ComPush => Agendado(s, pedido[s].e, a.destino, a.tipo)'
           /\ \A n \in notificacoes : fase'[n.r] = "confirmada"
                  /\ (n.tipo \in ComPush => Agendado(n.r, n.e, n.destino, n.tipo)')
<1>1. ASSUME NEW s \in Requisicao \ {r}, NoAberto(s)', NEW a \in AvisosDe(s)', a.tipo \in ComPush
      PROVE  Agendado(s, pedido[s].e, a.destino, a.tipo)'
  <2>1. /\ fase'[s] = fase[s] /\ pedido'[s] = pedido[s]
        /\ imagem'[s] = imagem[s] /\ registro'[s] = registro[s]
    BY SoDeUm
  <2>2. NoAberto(s) /\ a \in AvisosDe(s)
    BY <1>1, <2>1 DEF NoAberto, AvisosDe
  <2>3. Agendado(s, pedido[s].e, a.destino, a.tipo)
    BY <1>1, <2>2 DEF PushInv, AvisosAgendados
  <2> QED BY <2>1, <2>3 DEF Agendado
<1>2. ASSUME NEW n \in notificacoes
      PROVE  fase'[n.r] = "confirmada"
             /\ (n.tipo \in ComPush => Agendado(n.r, n.e, n.destino, n.tipo)')
  <2>1. n.r \in Requisicao /\ fase[n.r] = "confirmada"
    BY DEF Base, TypeOK, PushInv, AvisosAgendados
  <2>2. fase'[n.r] = "confirmada" /\ n.r # r
    BY <2>1, SoDeUm
  <2>3. n.tipo \in ComPush => Agendado(n.r, n.e, n.destino, n.tipo)
    BY DEF PushInv, AvisosAgendados
  <2> QED BY <2>2, <2>3 DEF Agendado
<1> QED BY <1>1, <1>2

\* The steps of r that leave the tables, the pushes and the notices of r as they are.
LEMMA PushParado ==
    ASSUME Base, PushInv, NEW r \in Requisicao, PassoDe(r), NoAberto(r), NoAberto(r)',
           UNCHANGED <<tabelas, emitidos, pedido, pushes>>, AvisosDe(r)' = AvisosDe(r)
    PROVE  PushInv'
<1>1. EmCriacao' = EmCriacao /\ fase[r] # "confirmada" /\ fase'[r] \in Aberta
  BY DEF EmCriacao, NoAberto, Aberta
<1>2. \A p \in pushes' : PushValido(p)'
  <2> SUFFICES ASSUME NEW p \in pushes PROVE PushValido(p)'
    OBVIOUS
  <2>1. CASE p.r = r
    <3>1. PushValido(p) /\ fase[p.r] \in Aberta
      BY <2>1 DEF PushInv, NoAberto
    <3> QED BY <1>1, <2>1, <3>1 DEF PushValido, Aberta
  <2>2. CASE p.r # r
    BY <1>1, <2>2, OutroPush DEF tabelas
  <2> QED BY <2>1, <2>2
<1>3. \A a \in AvisosDe(r)' : a.tipo \in ComPush => Agendado(r, pedido[r].e, a.destino, a.tipo)'
  BY DEF PushInv, AvisosAgendados, Agendado
<1>4. AvisosAgendados'
  BY <1>1, <1>3, OutrosAgendados DEF AvisosAgendados, tabelas
<1> QED BY <1>2, <1>4 DEF PushInv

\* The steps by which r begins.
LEMMA PushComeca ==
    ASSUME Base, PushInv, NEW r \in Requisicao, NEW p \in Pedido,
           Leitura(r, p) \/ \E l \in Linha : Insercao(r, p, l)
    PROVE  PushInv'
<1>1. /\ fase[r] = "nova" /\ pedido' = [pedido EXCEPT ![r] = p] /\ registro' = registro
      /\ emitidos \subseteq emitidos' /\ UNCHANGED <<tabelas, pushes>>
      /\ p.op = "create" => p.e \notin emitidos
  BY DEF Leitura, Insercao, Ler, Inserir, LidoValido
<1>2. AvisosDe(r) = {} /\ \A q \in pushes : q.r # r
  BY <1>1, SemAvisos DEF Fase, Aberta, ComLinha
<1>3. DOMAIN registro'[r] = {}
  BY <1>1 DEF Base, Fases, ComLinha
<1>4. AvisosDe(r)' = {}
  BY <1>3 DEF AvisosDe
<1>5. EmCriacao' \cap emitidos \subseteq EmCriacao
  BY <1>1 DEF EmCriacao, Base, TypeOK
<1>6. PassoDe(r)
  BY DEF PassoDe
<1>7. \A q \in pushes' : PushValido(q)'
  BY <1>1, <1>2, <1>5, <1>6, OutroPush DEF tabelas
<1>8. AvisosAgendados'
  BY <1>1, <1>4, <1>6, OutrosAgendados DEF AvisosAgendados, tabelas
<1> QED BY <1>7, <1>8 DEF PushInv

\* A history row and the pushes of its notices.
LEMMA PushRegistrarEvento ==
    ASSUME Base, PushInv, NEW r \in Requisicao, RegistrarEvento(r)
    PROVE  PushInv'
<1> DEFINE primeiro == pedido[r].op = "create" /\ registro[r] = <<>>
           ev == [acao |-> IF primeiro THEN "criada" ELSE "atualizada", status |-> imagem[r].status]
           novos == Avisos(ev, PerfilDe[pedido[r].ator], imagem[r].uuid_usuario)
<1>1. /\ fase[r] = "gravada" /\ AgendarPush(r, ev)
      /\ registro' = [registro EXCEPT ![r] = Append(@, ev)]
      /\ fase' = [fase EXCEPT ![r] = IF imagem[r].status = "recebida" THEN "recebida" ELSE "registrada"]
      /\ UNCHANGED <<tabelas, emitidos, pedido, imagem>>
  BY DEF RegistrarEvento
<1>2. imagem[r] \in Linha /\ pedido[r] # Nulo /\ registro[r] \in Seq(Evento) /\ ev \in Evento
  BY <1>1 DEF Base, TypeOK, Fases, ComLinha, NoAberto, Aberta, Evento, Linha
<1>3. registro'[r] = Append(registro[r], ev) /\ fase'[r] \in {"recebida", "registrada"}
  BY <1>1 DEF Base, TypeOK
<1> HIDE DEF ev
<1>4. AvisosDe(r)' = AvisosDe(r) \cup novos
  <2> DEFINE f == PerfilDe[pedido[r].ator]
             u == imagem[r].uuid_usuario
             h == registro[r]
             g == Append(h, ev)
  <2>1. /\ DOMAIN h = 1 .. Len(h) /\ DOMAIN g = 1 .. (Len(h) + 1) /\ Len(h) \in Nat
        /\ g[Len(h) + 1] = ev /\ \A i \in 1 .. Len(h) : g[i] = h[i]
    BY <1>2, AppendProperties, LenProperties
  <2>2. AvisosDe(r)' = UNION {Avisos(g[i], f, u) : i \in DOMAIN g}
    BY <1>1, <1>3 DEF AvisosDe
  <2>3. AvisosDe(r) = UNION {Avisos(h[i], f, u) : i \in DOMAIN h}
    BY DEF AvisosDe
  <2> HIDE DEF f, u, h, g
  <2>4. UNION {Avisos(g[i], f, u) : i \in DOMAIN g}
            = (UNION {Avisos(h[i], f, u) : i \in DOMAIN h}) \cup Avisos(ev, f, u)
    <3>1. ASSUME NEW x, NEW i \in DOMAIN g, x \in Avisos(g[i], f, u)
          PROVE  x \in Avisos(ev, f, u) \/ \E k \in DOMAIN h : x \in Avisos(h[k], f, u)
      <4>1. i = Len(h) + 1 \/ i \in 1 .. Len(h)
        BY <2>1
      <4> QED BY <2>1, <3>1, <4>1
    <3>2. Len(h) + 1 \in DOMAIN g /\ \A k \in DOMAIN h : k \in DOMAIN g /\ g[k] = h[k]
      BY <2>1
    <3> QED BY <2>1, <3>1, <3>2
  <2> QED BY <2>2, <2>3, <2>4 DEF f, u
<1> HIDE DEF novos
<1>5. /\ \A p \in pushes : p \in pushes'
      /\ \A p \in pushes' : p \in pushes
            \/ \E a \in novos : p = [r |-> r, e |-> pedido[r].e, destino |-> a.destino,
                                     tipo |-> a.tipo, enviado |-> FALSE]
      /\ \A a \in novos : a.tipo \in ComPush =>
            [r |-> r, e |-> pedido[r].e, destino |-> a.destino, tipo |-> a.tipo, enviado |-> FALSE]
                \in pushes'
  BY <1>1 DEF AgendarPush, novos
<1>6. novos \subseteq [destino: Usuario, tipo: TipoAviso]
  BY <1>2, AvisosTipo DEF novos, Linha
<1>7. EmCriacao' = EmCriacao /\ fase[r] \in Aberta /\ fase'[r] \in Aberta
  BY <1>1, <1>3 DEF EmCriacao, Aberta
<1>8. PassoDe(r)
  BY DEF PassoDe
<1>9. \A p \in pushes' : PushValido(p)'
  <2> SUFFICES ASSUME NEW p \in pushes' PROVE PushValido(p)'
    OBVIOUS
  <2>1. CASE p \in pushes /\ p.r = r
    <3>1. PushValido(p)
      BY <2>1 DEF PushInv
    <3> QED BY <1>1, <1>4, <1>7, <2>1, <3>1 DEF PushValido, Aberta
  <2>2. CASE p \in pushes /\ p.r # r
    BY <1>1, <1>7, <1>8, <2>2, OutroPush DEF tabelas
  <2>3. CASE p \notin pushes
    <3>1. PICK a \in novos : p = [r |-> r, e |-> pedido[r].e, destino |-> a.destino,
                                  tipo |-> a.tipo, enviado |-> FALSE]
      BY <1>5, <2>3
    <3>2. [destino |-> p.destino, tipo |-> p.tipo] = a
      BY <1>6, <3>1
    <3> QED BY <1>1, <1>4, <1>7, <3>1, <3>2 DEF PushValido, Aberta
  <2> QED BY <2>1, <2>2, <2>3
<1>10. ASSUME NEW a \in AvisosDe(r)', a.tipo \in ComPush
       PROVE  Agendado(r, pedido[r].e, a.destino, a.tipo)'
  <2>1. CASE a \in AvisosDe(r)
    <3>1. Agendado(r, pedido[r].e, a.destino, a.tipo)
      BY <1>7, <1>10, <2>1 DEF PushInv, AvisosAgendados, NoAberto
    <3> QED BY <1>1, <1>5, <3>1 DEF Agendado
  <2>2. CASE a \in novos
    BY <1>1, <1>5, <1>10, <2>2 DEF Agendado
  <2> QED BY <1>4, <1>10, <2>1, <2>2
<1>11. AvisosAgendados'
  <2>1. fase[r] # "confirmada" /\ notificacoes' = notificacoes
    BY <1>1 DEF tabelas
  <2> QED BY <1>5, <1>8, <1>10, <2>1, OutrosAgendados DEF AvisosAgendados
<1> QED BY <1>9, <1>11 DEF PushInv

\* The end of r takes its parcel out of those being created.
LEMMA CriandoMenos ==
    ASSUME Base, NEW r \in Requisicao, NEW fim, Encerrar(r, fim)
    PROVE  /\ EmCriacao' \subseteq EmCriacao
           /\ pedido[r] # Nulo /\ pedido[r].op = "create" => pedido[r].e \notin EmCriacao'
<1>1. \A s \in Requisicao : pedido'[s] = IF s = r THEN Nulo ELSE pedido[s]
  BY DEF Encerrar, Base, TypeOK
<1> QED BY <1>1 DEF EmCriacao, Base, Criacoes

\* A commit leaves the pushes of r beside their notices.
LEMMA PushConfirmar ==
    ASSUME Base, Abertos, PushInv, NEW r \in Requisicao, Confirmar(r)
    PROVE  PushInv'
<1> DEFINE e == pedido[r].e
<1>1. /\ e \in Encomenda /\ pedido[r] # Nulo /\ fase[r] = "registrada" /\ imagem[r] # Nulo
      /\ Encerrar(r, "confirmada") /\ encomendas' = [encomendas EXCEPT ![e] = imagem[r]]
      /\ pedido[r].op = "create" \/ encomendas[e] # Nulo
  BY LinhaConfirmada DEF MovimentoValido, MarcacaoValida
<1>2. /\ pushes' = pushes /\ emitidos' = emitidos /\ fase'[r] = "confirmada"
      /\ notificacoes' = notificacoes \cup
            {[e |-> e, destino |-> a.destino, tipo |-> a.tipo, r |-> r] : a \in AvisosDe(r)}
  BY DEF Confirmar, Encerrar, Base, TypeOK
<1>3. PassoDe(r) /\ NoAberto(r) /\ fase[r] # "confirmada" /\ ~NoAberto(r)'
  BY <1>1, <1>2 DEF PassoDe, NoAberto, Aberta
<1>4. EmCriacao' \subseteq EmCriacao /\ e \in emitidos /\ e \notin EmCriacao'
  <2>1. e \notin EmCriacao'
    <3>1. CASE pedido[r].op = "create"
      BY <1>1, <3>1, CriandoMenos
    <3>2. CASE pedido[r].op # "create"
      <4>1. e \notin EmCriacao
        BY <1>1, <3>2 DEF EmCriacao, Base, Criacoes
      <4> QED BY <1>1, <4>1, CriandoMenos
    <3> QED BY <3>1, <3>2
  <2> QED BY <1>1, <2>1, CriandoMenos DEF Base, Emissao
<1>5. \A p \in pushes' : PushValido(p)'
  <2> SUFFICES ASSUME NEW p \in pushes PROVE PushValido(p)'
    BY <1>2
  <2>1. CASE p.r = r
    <3>1. p.e = e /\ [destino |-> p.destino, tipo |-> p.tipo] \in AvisosDe(r)
      BY <1>1, <2>1 DEF PushInv, PushValido, Aberta
    <3>2. AvisoDo(p) \in notificacoes'
      BY <1>2, <2>1, <3>1 DEF AvisoDo
    <3> QED BY <1>2, <1>4, <2>1, <3>1, <3>2 DEF PushValido, Aberta, AvisoDo
  <2>2. CASE p.r # r
    <3>1. CASE fase[p.r] = "confirmada"
      <4>1. p.e \in emitidos \ EmCriacao
        BY <3>1 DEF PushInv, PushValido
      <4>2. encomendas[p.e] = Nulo => p.e # e
        BY <1>1, <4>1 DEF EmCriacao
      <4>3. encomendas[p.e] = Nulo => encomendas'[p.e] = Nulo
        BY <1>1, <4>2 DEF Base, TypeOK, Push
      <4> QED BY <1>2, <1>3, <1>4, <2>2, <4>3, OutroPush
    <3>2. CASE fase[p.r] # "confirmada"
      <4>1. p.r \in Requisicao \ {r}
        BY <2>2 DEF Base, TypeOK, Push
      <4>2. /\ fase'[p.r] = fase[p.r] /\ pedido'[p.r] = pedido[p.r]
            /\ imagem'[p.r] = imagem[p.r] /\ registro'[p.r] = registro[p.r]
        BY <1>3, <4>1, SoDeUm
      <4>3. AvisosDe(p.r)' = AvisosDe(p.r)
        BY <4>2 DEF AvisosDe
      <4> QED BY <3>2, <4>2, <4>3 DEF PushInv, PushValido
    <3> QED BY <3>1, <3>2
  <2> QED BY <2>1, <2>2
<1>6. ASSUME NEW n \in notificacoes', n \notin notificacoes
      PROVE  fase'[n.r] = "confirmada" /\ (n.tipo \in ComPush => Agendado(n.r, n.e, n.destino, n.tipo)')
  <2>1. PICK a \in AvisosDe(r) : n = [e |-> e, destino |-> a.destino, tipo |-> a.tipo, r |-> r]
    BY <1>2, <1>6
  <2>2. a.tipo \in ComPush => Agendado(r, e, a.destino, a.tipo)
    BY <1>3 DEF PushInv, AvisosAgendados
  <2> QED BY <1>2, <2>1, <2>2 DEF Agendado
<1>7. AvisosAgendados'
  BY <1>2, <1>3, <1>6, OutrosAgendados DEF AvisosAgendados
<1> QED BY <1>5, <1>7 DEF PushInv

\* hardRemove deletes notices, and their parcel with them.
LEMMA PushApagarLinha ==
    ASSUME Base, PushInv, NEW r \in Requisicao, ApagarLinha(r)
    PROVE  PushInv'
<1> DEFINE e == pedido[r].e
<1>1. /\ fase[r] = "filhosApagados" /\ Encerrar(r, "confirmada")
      /\ encomendas' = [encomendas EXCEPT ![e] = Nulo]
      /\ notificacoes' = {n \in notificacoes : n.e # e} /\ pushes' = pushes /\ emitidos' = emitidos
  BY DEF ApagarLinha, Encerrar
<1>2. PassoDe(r) /\ fase[r] # "confirmada" /\ fase'[r] = "confirmada"
  BY <1>1 DEF PassoDe, Encerrar, Base, TypeOK
<1>3. \A p \in pushes : p.r # r
  BY <1>1, SemAvisos DEF Fase, Aberta, ComLinha
<1>4. EmCriacao' \subseteq EmCriacao
  BY <1>1, CriandoMenos
<1>5. \A p \in pushes' : PushValido(p)'
  <2> SUFFICES ASSUME NEW p \in pushes PROVE PushValido(p)'
    BY <1>1
  <2>1. p.e \in Encomenda
    BY DEF Base, TypeOK, Push
  <2>2. encomendas'[p.e] = IF p.e = e THEN Nulo ELSE encomendas[p.e]
    BY <1>1, <2>1 DEF Base, TypeOK
  <2> QED BY <1>1, <1>2, <1>3, <1>4, <2>2, OutroPush DEF AvisoDo
<1>6. AvisosAgendados'
  <2>1. ~NoAberto(r)'
    BY <1>2 DEF NoAberto, Aberta
  <2> QED BY <1>1, <1>2, <2>1, OutrosAgendados DEF AvisosAgendados
<1> QED BY <1>5, <1>6 DEF PushInv

\* A transaction that ends without effect drops the pushes it had scheduled.
LEMMA PushFim ==
    ASSUME TemPromessa, Base, PushInv, NEW r \in Requisicao, FimSemEfeito(r)
    PROVE  PushInv'
<1>1. PICK fim \in {"confirmada", "desfeita"} : Encerrar(r, fim)
  BY DEF FimSemEfeito
<1>2. /\ NoAberto(r) /\ UNCHANGED tabelas /\ emitidos' = emitidos /\ PassoDe(r)
      /\ fase[r] # "confirmada"
  BY <1>1 DEF FimSemEfeito, Encerrar, PassoDe, NoAberto, Aberta
<1>3. fase'[r] = fim /\ ~NoAberto(r)'
  BY <1>1 DEF Encerrar, Base, TypeOK, NoAberto, Aberta
<1>4. /\ \A p \in pushes' : p \in pushes /\ p.r # r
      /\ \A p \in pushes : p.r # r => p \in pushes'
  <2>1. CASE fase[r] = "lida" /\ pushes' = pushes
    BY <2>1, SemAvisos DEF Fase, Aberta, ComLinha
  <2>2. CASE pushes' = {p \in pushes : p.r # r}
    BY <2>2
  <2> QED BY <2>1, <2>2 DEF FimSemEfeito
<1>5. EmCriacao' \subseteq EmCriacao
  BY <1>1, CriandoMenos
<1>6. \A p \in pushes' : PushValido(p)'
  BY <1>2, <1>4, <1>5, OutroPush DEF tabelas
<1>7. AvisosAgendados'
  BY <1>2, <1>3, <1>4, OutrosAgendados DEF AvisosAgendados, tabelas
<1> QED BY <1>6, <1>7 DEF PushInv

\* A push that is sent is of a transaction that committed.
LEMMA PushEnviado ==
    ASSUME TemPromessa, Base, PushInv, DespacharPush
    PROVE  PushInv'
<1>1. PICK p \in pushes : fase[p.r] = "confirmada" /\ Enviar(p)
  BY DEF DespacharPush
<1> DEFINE q == [p EXCEPT !.enviado = TRUE]
<1>2. /\ p \in Push /\ pushes' = (pushes \ {p}) \cup {q}
      /\ UNCHANGED <<encomendas, notificacoes, emitidos, fase, pedido, imagem, registro>>
  BY <1>1 DEF Enviar, Base, TypeOK, tabelas
<1>3. q.r = p.r /\ q.e = p.e /\ q.destino = p.destino /\ q.tipo = p.tipo
  BY <1>2 DEF Push
<1> HIDE DEF q
<1>4. EmCriacao' = EmCriacao /\ \A s : AvisosDe(s)' = AvisosDe(s) /\ (NoAberto(s)' <=> NoAberto(s))
  BY <1>2 DEF EmCriacao, AvisosDe, NoAberto
<1>5. \A x \in pushes : PushValido(x)'
  BY <1>2, <1>4 DEF PushInv, PushValido, AvisoDo
<1>6. PushValido(q)'
  <2>1. /\ p.e \in emitidos \ EmCriacao
        /\ AvisoDo(p) \in notificacoes \/ encomendas[p.e] = Nulo
    BY <1>1 DEF PushInv, PushValido
  <2>2. AvisoDo(q) = AvisoDo(p)
    BY <1>3 DEF AvisoDo
  <2>3. fase'[q.r] = "confirmada"
    BY <1>1, <1>2, <1>3
  <2> QED BY <1>2, <1>3, <1>4, <2>1, <2>2, <2>3 DEF PushValido, AvisoDo, Aberta
<1>7. \A s, e, d, t : Agendado(s, e, d, t) => Agendado(s, e, d, t)'
  BY <1>2, <1>3 DEF Agendado
<1>8. AvisosAgendados'
  BY <1>2, <1>4, <1>7 DEF PushInv, AvisosAgendados
<1> QED BY <1>2, <1>5, <1>6, <1>8 DEF PushInv

\* Every step keeps what stands behind the pushes.
LEMMA PushStep ==
    ASSUME TemPromessa, IInv, PushInv, [Next]_vars
    PROVE  PushInv'
<1>b. Base /\ Abertos
  BY DEF IInv, Vinculos
<1>1. ASSUME NEW r \in Requisicao, PassoDe(r) PROVE PushInv'
  <2>1. CASE \E op \in Operacao, l \in Linha, f \in ComLinha : Escrita(r, op, l, f)
    <3>1. PICK op \in Operacao, l \in Linha, f \in ComLinha : Escrita(r, op, l, f)
      BY <2>1
    <3>2. /\ fase[r] = "lida" /\ fase'[r] = f /\ registro' = registro
          /\ UNCHANGED <<tabelas, emitidos, pedido, pushes>>
      BY <1>b, <3>1 DEF Escrita, Gravar, Base, TypeOK
    <3>3. AvisosDe(r) = {}
      BY <1>b, <3>2, SemAvisos DEF Fase, Aberta, ComLinha
    <3>4. DOMAIN registro'[r] = {}
      BY <1>b, <3>2 DEF Base, Fases, ComLinha
    <3>5. AvisosDe(r)' = AvisosDe(r)
      BY <3>3, <3>4 DEF AvisosDe
    <3> QED BY <1>1, <1>b, <3>2, <3>5, PushParado DEF NoAberto, Aberta, ComLinha
  <2>2. CASE Promover(r)
    <3>1. /\ fase[r] = "recebida" /\ fase'[r] = "gravada" /\ registro' = registro
          /\ imagem' = [imagem EXCEPT ![r].status = "aguardando"]
          /\ UNCHANGED <<tabelas, emitidos, pedido, pushes>>
      BY <1>b, <2>2 DEF Promover, Base, TypeOK
    <3>2. imagem[r] \in Linha
      BY <1>b, <3>1 DEF Base, TypeOK, Fases, ComLinha
    <3>3. imagem'[r].uuid_usuario = imagem[r].uuid_usuario
      BY <1>b, <3>1, <3>2 DEF Base, TypeOK, Linha
    <3>4. AvisosDe(r)' = AvisosDe(r)
      BY <3>1, <3>3 DEF AvisosDe
    <3> QED BY <1>1, <1>b, <3>1, <3>4, PushParado DEF NoAberto, Aberta
  <2>3. CASE ApagarFilhos(r)
    <3>1. /\ fase[r] = "lida" /\ fase'[r] = "filhosApagados"
          /\ UNCHANGED <<tabelas, emitidos, pedido, imagem, registro, pushes>>
      BY <1>b, <2>3 DEF ApagarFilhos, Base, TypeOK
    <3>2. AvisosDe(r)' = AvisosDe(r)
      BY <3>1 DEF AvisosDe
    <3> QED BY <1>1, <1>b, <3>1, <3>2, PushParado DEF NoAberto, Aberta
  <2> QED BY <1>1, <1>b, <2>1, <2>2, <2>3, PushComeca, PushRegistrarEvento, PushConfirmar,
             PushApagarLinha, PushFim DEF PassoDe
<1>2. ASSUME UNCHANGED vars PROVE PushInv'
  BY <1>2 DEF vars, PushInv, PushValido, AvisosAgendados, Agendado, AvisoDo, AvisosDe, EmCriacao, NoAberto
<1> QED BY <1>1, <1>2, <1>b, Passo, PushEnviado

-----------------------------------------------------------------------------
(* The committed tables refine CicloEncomenda.                             *)

Situacoes == [e \in Encomenda |-> Situacao(e)]

\* A step that leaves the tables, the uuids and who creates what is a stutter.
LEMMA CicloParado ==
    ASSUME encomendas' = encomendas, emitidos' = emitidos, EmCriacao' = EmCriacao
    PROVE  UNCHANGED Ciclo!cicloVars
BY DEF Ciclo!cicloVars, Situacao

\* Only who is a create of whom matters to EmCriacao.
LEMMA CriandoIgual ==
    ASSUME \A r \in Requisicao : pedido'[r] = pedido[r]
    PROVE  EmCriacao' = EmCriacao
BY DEF EmCriacao

\* The end of a request takes its parcel out of EmCriacao when it was a create, and
\* changes nothing there when it was not.
LEMMA CriandoAposFim ==
    ASSUME Base, NEW r \in Requisicao, pedido[r] # Nulo, pedido' = [pedido EXCEPT ![r] = Nulo]
    PROVE  /\ pedido[r].op = "create" => /\ pedido[r].e \in EmCriacao
                                         /\ EmCriacao' = EmCriacao \ {pedido[r].e}
           /\ pedido[r].op # "create" => EmCriacao' = EmCriacao
<1>1. pedido'[r] = Nulo /\ \A s \in Requisicao : s # r => pedido'[s] = pedido[s]
  BY DEF Base, TypeOK
<1>2. pedido[r].e \in Encomenda
  BY DEF Base, TypeOK, Pedido
<1>3. \A s \in Requisicao \ {r} :
          pedido[s] # Nulo /\ pedido[s].op = "create" => pedido[s].e # pedido[r].e
  BY DEF Base, Criacoes
<1>4. pedido[r].op = "create" => pedido[r].e \in EmCriacao
  BY <1>2 DEF EmCriacao
<1>5. ASSUME NEW e \in Encomenda
      PROVE  e \in EmCriacao' <=> \E s \in Requisicao \ {r} :
                 pedido[s] # Nulo /\ pedido[s].op = "create" /\ pedido[s].e = e
  BY <1>1 DEF EmCriacao
<1>6. EmCriacao' \subseteq Encomenda /\ EmCriacao \subseteq Encomenda
  BY DEF EmCriacao
<1>7. CASE pedido[r].op = "create"
  <2>1. \A e \in Encomenda : e \in EmCriacao' <=> e \in EmCriacao /\ e # pedido[r].e
    BY <1>3, <1>5, <1>7 DEF EmCriacao
  <2>2. EmCriacao' = EmCriacao \ {pedido[r].e}
    BY <1>6, <2>1
  <2> QED BY <1>4, <1>7, <2>2
<1>8. CASE pedido[r].op # "create"
  <2>1. \A e \in Encomenda : e \in EmCriacao' <=> e \in EmCriacao
    BY <1>5, <1>8 DEF EmCriacao
  <2>2. EmCriacao' = EmCriacao
    BY <1>6, <2>1
  <2> QED BY <1>8, <2>2
<1> QED BY <1>7, <1>8

\* What a reader sees of the row l.
Vista(l) ==
    IF l = Nulo THEN [status |-> "ausente", removida |-> FALSE, entregue |-> FALSE]
    ELSE [status |-> l.status, removida |-> l.deleted, entregue |-> l.entregue_por # Nulo]

\* What a reader sees when one row has changed.
LEMMA SituacoesApos ==
    ASSUME Base, NEW e \in Encomenda, NEW l \in Linha \cup {Nulo},
           encomendas' = [encomendas EXCEPT ![e] = l]
    PROVE  /\ Situacoes' = [Situacoes EXCEPT ![e] = Vista(l)]
           /\ Situacoes[e] = Vista(encomendas[e])
<1>1. \A d \in Encomenda : Situacao(d)' = IF d = e THEN Vista(l) ELSE Situacao(d)
  BY DEF Situacao, Vista, Base, TypeOK
<1>2. Situacoes' = [d \in Encomenda |-> Situacao(d)']
  BY DEF Situacoes
<1>3. [Situacoes EXCEPT ![e] = Vista(l)] =
          [d \in Encomenda |-> IF d = e THEN Vista(l) ELSE Situacao(d)]
  BY DEF Situacoes
<1>4. Situacoes[e] = Vista(encomendas[e])
  BY DEF Situacoes, Situacao, Vista
<1> QED BY <1>1, <1>2, <1>3, <1>4

\* The insert of create draws a uuid.
LEMMA CicloInsercao ==
    ASSUME Base, NEW r \in Requisicao, NEW p \in Pedido, NEW l \in Linha, Insercao(r, p, l)
    PROVE  p.e \in Encomenda /\ Ciclo!Sortear(p.e)
<1> USE DEF Insercao, Inserir, tabelas
<1>1. p.e \in Encomenda /\ p # Nulo /\ pedido[r] = Nulo
  BY NuloForaDasTabelas DEF Pedido, Base, Fases, NoAberto, Aberta
<1>2. pedido'[r] = p /\ \A s \in Requisicao : s # r => pedido'[s] = pedido[s]
  BY DEF Base, TypeOK
<1>3. \A e \in Encomenda : e \in EmCriacao' <=> e \in EmCriacao \/ e = p.e
  BY <1>1, <1>2 DEF EmCriacao
<1>4. EmCriacao' \subseteq Encomenda /\ EmCriacao \subseteq Encomenda
  BY DEF EmCriacao
<1>5. EmCriacao' = EmCriacao \cup {p.e}
  BY <1>1, <1>3, <1>4
<1>6. Situacoes' = Situacoes
  BY DEF Situacoes, Situacao
<1> QED BY <1>1, <1>5, <1>6 DEF Ciclo!Sortear, Situacoes

\* A transaction that ends without effect gives up the uuid it drew, if it drew one.
LEMMA CicloFim ==
    ASSUME Base, NEW r \in Requisicao, FimSemEfeito(r)
    PROVE  (\E e \in Encomenda : Ciclo!Desistir(e)) \/ UNCHANGED Ciclo!cicloVars
<1>1. /\ pedido[r] # Nulo /\ pedido' = [pedido EXCEPT ![r] = Nulo]
      /\ encomendas' = encomendas /\ emitidos' = emitidos
  BY DEF FimSemEfeito, Encerrar, tabelas, Base, Fases
<1>2. pedido[r].e \in Encomenda
  BY <1>1 DEF Base, TypeOK, Pedido
<1>3. Situacoes' = Situacoes
  BY <1>1 DEF Situacoes, Situacao
<1>4. CASE pedido[r].op = "create"
  <2>1. pedido[r].e \in EmCriacao /\ EmCriacao' = EmCriacao \ {pedido[r].e}
    BY <1>1, <1>4, CriandoAposFim
  <2>2. Ciclo!Desistir(pedido[r].e)
    BY <1>1, <1>3, <2>1 DEF Ciclo!Desistir, Situacoes
  <2> QED BY <1>2, <2>2
<1>5. CASE pedido[r].op # "create"
  BY <1>1, <1>5, CriandoAposFim, CicloParado
<1> QED BY <1>4, <1>5

\* A commit registers the parcel of a create, and moves or marks another one.
LEMMA CicloConfirmar ==
    ASSUME IInv, Relato, NEW r \in Requisicao, Confirmar(r)
    PROVE  \E e \in Encomenda : Ciclo!Registrar(e) \/ Ciclo!Mover(e) \/ Ciclo!Marcar(e)
<1>b. Base /\ Abertos /\ RelatoValido(r)
  BY DEF IInv, Vinculos, Relato
<1> DEFINE e == pedido[r].e
           l == imagem[r]
           c == encomendas[e]
           s == Vista(c)
           n == [status |-> l.status, removida |-> l.deleted, entregue |-> l.entregue_por # Nulo]
<1>1. /\ e \in Encomenda /\ pedido[r] # Nulo
      /\ l \in Linha /\ l # Nulo
      /\ fase[r] = "registrada" /\ Encerrar(r, "confirmada")
      /\ encomendas' = [encomendas EXCEPT ![e] = l]
      /\ \/ pedido[r].op \in Movimento /\ MovimentoValido(r)
         \/ pedido[r].op \in Marcacao /\ MarcacaoValida(r)
  BY <1>b, LinhaConfirmada
<1>2. pedido' = [pedido EXCEPT ![r] = Nulo] /\ emitidos' = emitidos
  BY <1>1 DEF Encerrar
<1>3. Releitura(r)
  BY DEF Confirmar
<1>4. Vista(l) = n
  BY <1>1 DEF Vista
<1>5. Situacoes' = [Situacoes EXCEPT ![e] = n] /\ Situacoes[e] = s
  <2>1. l \in Linha \cup {Nulo}
    BY <1>1
  <2>2. Situacoes' = [Situacoes EXCEPT ![e] = Vista(l)] /\ Situacoes[e] = Vista(c)
    BY <1>1, <1>b, <2>1, SituacoesApos
  <2> QED BY <1>4, <2>2
<1>6. Situacoes[e] = s
  BY <1>5
<1>7. CASE pedido[r].op = "create"
  <2>1. e \in EmCriacao /\ EmCriacao' = EmCriacao \ {e}
    BY <1>b, <1>1, <1>2, <1>7, CriandoAposFim
  <2>2. LinhaNova(l) /\ MovimentoValido(r)
    BY <1>b, <1>1, <1>7 DEF RelatoValido, Marcacao
  <2>3. l.status \in {"prevista", "aguardando", "retirada"}
    BY <1>1, <2>2 DEF LinhaNova, MovimentoValido, Linha, Status
  <2>4. n = [status |-> l.status, removida |-> FALSE, entregue |-> l.status = "retirada"]
    BY <1>1, <2>2 DEF LinhaNova, Linha
  <2>5. Ciclo!Passa(e, [status |-> l.status, removida |-> FALSE,
                        entregue |-> l.status = "retirada"])
    BY <1>5, <2>4 DEF Ciclo!Passa, Situacoes
  <2>6. Ciclo!Registrar(e)
    BY <1>2, <2>1, <2>3, <2>5 DEF Ciclo!Registrar
  <2> QED BY <1>1, <2>6
<1>8. CASE pedido[r].op \in Movimento \ {"create"}
  <2>1. EmCriacao' = EmCriacao
    BY <1>b, <1>1, <1>2, <1>8, CriandoAposFim
  <2>2. /\ MovimentoValido(r) /\ EntregaConta(l, c) /\ c # Nulo
        /\ l.deleted = c.deleted
    BY <1>b, <1>1, <1>8 DEF RelatoValido, Marcacao, MovimentoValido, Movimento
  <2>3. ~l.deleted
    BY <1>3, <1>8 DEF Releitura, Movimento
  <2>4. l.status \in {"aguardando", "retirada", "cancelada"}
    BY <1>1, <2>2 DEF EntregaConta, MovimentoValido, Linha, Status
  <2>5. s = [status |-> c.status, removida |-> c.deleted, entregue |-> c.entregue_por # Nulo]
    BY <2>2 DEF Vista
  <2>6. c.status # "ausente"
    BY <1>b, <1>1, <2>2 DEF Base, TypeOK, Linha, Status
  <2>7. n = [status |-> l.status, removida |-> FALSE,
             entregue |-> s.entregue \/ l.status = "retirada"]
    <3>1. (l.entregue_por # Nulo) = (s.entregue \/ l.status = "retirada")
      <4>1. s.entregue = (c.entregue_por # Nulo)
        BY <2>5
      <4>2. (l.entregue_por # Nulo) = (c.entregue_por # Nulo \/ l.status = "retirada")
        BY <2>2 DEF EntregaConta
      <4> QED BY <4>1, <4>2
    <3>2. l.deleted = FALSE
      BY <1>1, <2>3 DEF Linha
    <3> QED BY <3>1, <3>2
  <2>8. Ciclo!Passa(e, [status |-> l.status, removida |-> FALSE,
                        entregue |-> Situacoes[e].entregue \/ l.status = "retirada"])
    BY <1>5, <1>6, <2>7 DEF Ciclo!Passa, Situacoes
  <2>9. Situacoes[e].status # "ausente" /\ ~Situacoes[e].removida
    BY <1>6, <2>2, <2>3, <2>5, <2>6
  <2>10. Ciclo!Mover(e)
    BY <1>2, <2>1, <2>4, <2>8, <2>9 DEF Ciclo!Mover, Situacoes
  <2> QED BY <1>1, <2>10
<1>9. CASE pedido[r].op \in Marcacao
  <2>1. EmCriacao' = EmCriacao
    BY <1>b, <1>1, <1>2, <1>9, CriandoAposFim DEF Marcacao
  <2>2. c # Nulo /\ l.status = c.status /\ l.entregue_por = c.entregue_por
    BY <1>1, <1>9 DEF MarcacaoValida, Marcacao, Movimento
  <2>3. s = [status |-> c.status, removida |-> c.deleted, entregue |-> c.entregue_por # Nulo]
    BY <2>2 DEF Vista
  <2>4. n = [s EXCEPT !.removida = l.deleted]
    BY <2>2, <2>3
  <2>5. l.deleted \in BOOLEAN /\ c.status # "ausente"
    BY <1>b, <1>1, <2>2 DEF Base, TypeOK, Linha, Status
  <2>6. Ciclo!Passa(e, [Situacoes[e] EXCEPT !.removida = l.deleted])
    BY <1>5, <1>6, <2>4 DEF Ciclo!Passa, Situacoes
  <2>7. Situacoes[e].status # "ausente"
    BY <1>6, <2>3, <2>5
  <2>8. Ciclo!Marcar(e)
    BY <1>2, <2>1, <2>5, <2>6, <2>7 DEF Ciclo!Marcar, Situacoes
  <2> QED BY <1>1, <2>8
<1> QED BY <1>1, <1>7, <1>8, <1>9

\* The commit of hardRemove deletes the parcel, unless another one has.
LEMMA CicloApagar ==
    ASSUME Base, NEW r \in Requisicao, ApagarLinha(r)
    PROVE  (\E e \in Encomenda : Ciclo!Apagar(e)) \/ UNCHANGED Ciclo!cicloVars
<1> DEFINE e == pedido[r].e
<1>1. /\ pedido[r] # Nulo /\ e \in Encomenda /\ pedido[r].op # "create"
      /\ pedido' = [pedido EXCEPT ![r] = Nulo] /\ emitidos' = emitidos
      /\ encomendas' = [encomendas EXCEPT ![e] = Nulo]
  BY DEF ApagarLinha, Encerrar, Base, Fases, NoAberto, Aberta, TypeOK, Pedido
<1>2. EmCriacao' = EmCriacao
  BY <1>1, CriandoAposFim
<1>3. Situacoes' = [Situacoes EXCEPT ![e] = Vista(Nulo)] /\ Situacoes[e] = Vista(encomendas[e])
  BY <1>1, SituacoesApos
<1>4. Vista(Nulo) = Ciclo!Ausente
  BY DEF Vista, Ciclo!Ausente
<1>5. CASE encomendas[e] # Nulo
  <2>1. Situacoes[e].status # "ausente"
    <3>1. encomendas[e].status # "ausente"
      BY <1>1, <1>5 DEF Base, TypeOK, Linha, Status
    <3>2. Situacoes[e].status = encomendas[e].status
      BY <1>3, <1>5 DEF Vista
    <3> QED BY <3>1, <3>2
  <2>2. Ciclo!Apagar(e)
    BY <1>1, <1>2, <1>3, <1>4, <2>1 DEF Ciclo!Apagar, Ciclo!Passa, Situacoes
  <2> QED BY <1>1, <2>2
<1>6. CASE encomendas[e] = Nulo
  <2>1. encomendas' = encomendas
    BY <1>1, <1>6 DEF Base, TypeOK
  <2> QED BY <1>1, <1>2, <2>1, CicloParado
<1> QED BY <1>5, <1>6

\* Every step is one of CicloEncomenda, or changes nothing that a reader sees.
LEMMA CicloStep ==
    ASSUME IInv, Relato, [Next]_vars
    PROVE  [Ciclo!CicloNext]_(Ciclo!cicloVars)
<1>b. Base /\ Abertos
  BY DEF IInv, Vinculos
<1>1. ASSUME NEW r \in Requisicao, PassoDe(r) PROVE [Ciclo!CicloNext]_(Ciclo!cicloVars)
  <2>1. ASSUME NEW p \in Pedido, Leitura(r, p) PROVE UNCHANGED Ciclo!cicloVars
    <3>1. pedido'[r] = p /\ \A s \in Requisicao : s # r => pedido'[s] = pedido[s]
      BY <1>b, <2>1 DEF Leitura, Ler, Base, TypeOK
    <3>2. p.op # "create" /\ pedido[r] = Nulo
      BY <1>b, <2>1 DEF Leitura, LidoValido, Base, Fases, NoAberto, Aberta
    <3>3. EmCriacao' = EmCriacao
      BY <3>1, <3>2 DEF EmCriacao
    <3> QED BY <2>1, <3>3, CicloParado DEF Leitura, Ler, tabelas
  <2>2. ASSUME \/ \E op \in Operacao, l \in Linha, f \in ComLinha : Escrita(r, op, l, f)
               \/ RegistrarEvento(r) \/ Promover(r) \/ ApagarFilhos(r)
        PROVE  UNCHANGED Ciclo!cicloVars
    BY <2>2, CicloParado, CriandoIgual
       DEF Escrita, Gravar, RegistrarEvento, Promover, ApagarFilhos, tabelas
  <2> QED BY <1>1, <1>b, <2>1, <2>2, CicloInsercao, CicloFim, CicloConfirmar, CicloApagar
          DEF PassoDe, Ciclo!CicloNext
<1>2. ASSUME DespacharPush \/ UNCHANGED vars PROVE UNCHANGED Ciclo!cicloVars
  BY <1>2, CicloParado, CriandoIgual DEF DespacharPush, Enviar, vars, tabelas
<1> QED BY <1>b, <1>1, <1>2, Passo

-----------------------------------------------------------------------------
(* Requests that run alone.                                                *)

\* While r is open and stays open its request is the same, and only other requests that
\* were open change a row.
LEMMA SegueAberta ==
    ASSUME Base, Abertos, [Next]_vars, NEW r \in Requisicao, NoAberto(r), NoAberto(r)',
           \A s \in Requisicao \ {r} : ~NoAberto(s)
    PROVE  pedido'[r] = pedido[r] /\ encomendas' = encomendas
<1>1. ASSUME NEW q \in Requisicao, PassoDe(q) PROVE pedido'[r] = pedido[r] /\ encomendas' = encomendas
  <2>1. CASE Confirmar(q) \/ ApagarLinha(q) \/ FimSemEfeito(q)
    <3>1. NoAberto(q) /\ ~NoAberto(q)'
      BY <2>1 DEF Confirmar, ApagarLinha, FimSemEfeito, Encerrar, NoAberto, Aberta, Base, TypeOK
    <3> QED BY <3>1
  <2>2. CASE (\E p \in Pedido : Leitura(q, p)) \/ (\E p \in Pedido, l \in Linha : Insercao(q, p, l))
    <3>1. q # r
      BY <2>2 DEF Leitura, Insercao, NoAberto, Aberta
    <3> QED BY <2>2, <3>1 DEF Leitura, Ler, Insercao, Inserir, tabelas, Base, TypeOK
  <2>3. CASE \/ \E op \in Operacao, l \in Linha, f \in ComLinha : Escrita(q, op, l, f)
             \/ RegistrarEvento(q) \/ Promover(q) \/ ApagarFilhos(q)
    BY <2>3 DEF Escrita, Gravar, RegistrarEvento, Promover, ApagarFilhos, tabelas
  <2> QED BY <1>1, <2>1, <2>2, <2>3 DEF PassoDe
<1>2. ASSUME DespacharPush \/ UNCHANGED vars PROVE pedido' = pedido /\ encomendas' = encomendas
  BY <1>2 DEF DespacharPush, Enviar, vars, tabelas
<1> QED BY <1>1, <1>2, Passo

\* A request that opens has just passed its checks.
LEMMA AbreComGuarda ==
    ASSUME Base, Abertos, [Next]_vars, NEW r \in Requisicao, ~NoAberto(r), NoAberto(r)'
    PROVE  Guarda(pedido[r])'
<1>1. ASSUME NEW q \in Requisicao, PassoDe(q) PROVE Guarda(pedido[r])'
  <2>1. q = r
    <3>1. ASSUME q # r PROVE fase'[r] = fase[r]
      BY <1>1, <3>1 DEF PassoDe, Leitura, Ler, Insercao, Inserir, Escrita, Gravar, RegistrarEvento,
                 Promover, Confirmar, ApagarFilhos, ApagarLinha, FimSemEfeito, Encerrar, Base, TypeOK
    <3> QED BY <3>1 DEF NoAberto
  <2>2. ASSUME NEW p \in Pedido, Leitura(r, p) PROVE Guarda(pedido[r])'
    BY <2>2 DEF Leitura, Ler, Guarda, tabelas, Base, TypeOK
  <2>3. ASSUME NEW p \in Pedido, NEW l \in Linha, Insercao(r, p, l) PROVE Guarda(pedido[r])'
    BY <2>3 DEF Insercao, Inserir, Guarda, Base, TypeOK
  <2>4. (\E p \in Pedido : Leitura(r, p)) \/ (\E p \in Pedido, l \in Linha : Insercao(r, p, l))
    BY <1>1, <2>1 DEF PassoDe, Escrita, Gravar, RegistrarEvento, Promover, Confirmar,
                      ApagarFilhos, ApagarLinha, FimSemEfeito, NoAberto, Aberta
  <2> QED BY <2>2, <2>3, <2>4
<1>2. ASSUME DespacharPush \/ UNCHANGED vars PROVE FALSE
  BY <1>2 DEF DespacharPush, Enviar, vars, NoAberto
<1> QED BY <1>1, <1>2, Passo

\* A request that has been alone since it read still finds what it checked.
LEMMA IsoladasStep ==
    ASSUME IInv, Isoladas, [Next /\ Acompanhar]_varsIsoladas
    PROVE  Isoladas'
<1>b. Base /\ Abertos /\ [Next]_vars
  BY DEF IInv, Vinculos, varsIsoladas
<1>1. CASE UNCHANGED varsIsoladas
  BY <1>1 DEF varsIsoladas, vars, Isoladas, NoAberto, Guarda
<1>2. CASE Acompanhar
  <2> SUFFICES ASSUME NEW r \in Requisicao, NoAberto(r)', sozinha'[r]
               PROVE  (\A s \in Requisicao \ {r} : ~NoAberto(s)') /\ Guarda(pedido[r])'
    BY DEF Isoladas
  <2>1. /\ NoAberto(r) => sozinha[r]
        /\ \A s \in Requisicao \ {r} : ~NoAberto(s)'
    BY <1>2 DEF Acompanhar
  <2>2. CASE NoAberto(r)
    <3>1. (\A s \in Requisicao \ {r} : ~NoAberto(s)) /\ Guarda(pedido[r])
      BY <2>1, <2>2 DEF Isoladas
    <3>2. pedido'[r] = pedido[r] /\ encomendas' = encomendas
      BY <1>b, <2>2, <3>1, SegueAberta
    <3> QED BY <2>1, <3>1, <3>2 DEF Guarda
  <2>3. CASE ~NoAberto(r)
    BY <1>b, <2>1, <2>3, AbreComGuarda
  <2> QED BY <2>2, <2>3
<1> QED BY <1>1, <1>2

-----------------------------------------------------------------------------
(* The theorems.                                                           *)

\* No step breaks the inductive invariant.
LEMMA IInvStep ==
    ASSUME IInv, [Next]_vars
    PROVE  IInv'
<1>1. Base /\ Abertos /\ Gravados /\ Confirmados
  BY DEF IInv, Vinculos, Confirmados
<1>2. Base' /\ Abertos' /\ Confirmados'
  BY <1>1, BaseStep, AbertosStep, ConfirmadosStep
<1> QED BY <1>2 DEF IInv, Vinculos, Confirmados

\* Every behaviour keeps the inductive invariant.
THEOREM Indutivo == Spec => []IInv
<1>1. Init => IInv
  BY BaseInit, VinculosInit DEF IInv
<1>2. IInv /\ [Next]_vars => IInv'
  BY IInvStep
<1> QED BY <1>1, <1>2, PTL DEF Spec

\* Each variable keeps its kind of value (types of the rows the handlers write).
THEOREM Tipos == Spec => []TypeOK
<1>1. IInv => TypeOK
  BY DEF IInv, Base
<1> QED BY <1>1, Indutivo, PTL

\* The last history row tells the status of the parcel (registerStatusEvent in
\* the transaction of every status change).
THEOREM HistoricoEmDia == Spec => []UltimoEventoContaOStatus
<1>1. IInv => UltimoEventoContaOStatus
  BY DEF IInv, Vinculos
<1> QED BY <1>1, Indutivo, PTL

\* Nobody reads the passing status "recebida", and a parcel picked up has its
\* hand-over recorded (the two UPDATEs of a reception share a transaction).
THEOREM SoEstadosFinais == Spec => []EstadoConfirmado
<1>1. IInv => EstadoConfirmado
  BY DEF IInv, Vinculos
<1> QED BY <1>1, Indutivo, PTL

\* A hand-over on record went to the holder or to a morador of the holder's
\* unit and condominium (validateEntregueParaUsuario, baixaAdministrativa).
THEOREM EntregaAutorizada == Spec => []EntregueAQuemPodia
<1>1. IInv => EntregueAQuemPodia
  BY DEF IInv, Vinculos, Gravados, EntregaRegular, Habilitado, EntregueAQuemPodia
<1> QED BY <1>1, Indutivo, PTL

\* A parcel that is gone leaves no history and no notice (hardRemove).
THEOREM NadaOrfao == Spec => []SemOrfaos
<1>1. IInv => SemOrfaos
  BY DEF IInv, Vinculos
<1> QED BY <1>1, Indutivo, PTL

\* Where transactions carry a promise, what stands behind the pushes is part of the
\* inductive invariant.
THEOREM PushIndutivo == TemPromessa => (Spec => []PushInv)
<1> SUFFICES ASSUME TemPromessa PROVE Spec => []PushInv
  OBVIOUS
<1>1. Init => PushInv
  <2> SUFFICES ASSUME Init PROVE PushInv
    OBVIOUS
  <2>1. pushes = {} /\ notificacoes = {} /\ \A r \in Requisicao : ~NoAberto(r)
    BY DEF Init, NoAberto, Aberta
  <2> QED BY <2>1 DEF PushInv, AvisosAgendados
<1>2. IInv /\ PushInv /\ [Next]_vars => PushInv'
  BY PushStep
<1> QED BY <1>1, <1>2, Indutivo, PTL DEF Spec

\* What the phones are told was committed and is in the table unless its parcel was
\* deleted since, and every notice of a reception has its push (schedulePushAfterCommit
\* in a transaction that carries an executionPromise).
THEOREM PushesValem == TemPromessa => (Spec => []PushAcompanhaAviso)
<1> SUFFICES ASSUME TemPromessa PROVE Spec => []PushAcompanhaAviso
  OBVIOUS
<1>1. IInv /\ PushInv => PushAcompanhaAviso
  <2> SUFFICES ASSUME IInv, PushInv PROVE PushAcompanhaAviso
    OBVIOUS
  <2>1. \A n \in notificacoes : n \in [e: Encomenda, destino: Usuario, tipo: TipoAviso, r: Requisicao]
    BY DEF IInv, Base, TypeOK
  <2>2. \A n \in notificacoes : n.tipo \in ComPush => \E p \in pushes : AvisoDo(p) = n
    BY <2>1 DEF PushInv, AvisosAgendados, Agendado, AvisoDo
  <2> QED BY <2>2 DEF PushInv, PushValido, AvisoDo, PushAcompanhaAviso
<1>2. Spec => []IInv
  BY Indutivo
<1>3. Spec => []PushInv
  BY PushIndutivo
<1> QED BY <1>1, <1>2, <1>3, PTL

\* The status and the hand-over of a soft-deleted parcel stay as they are: the
\* row a movement has written is as deleted as the committed one, so its last
\* read fails (findActiveByUuid).
THEOREM RemovidaIntocada == Spec => RemovidaNaoMuda
<1> DEFINE A == \A e \in Encomenda :
               (encomendas[e] # Nulo /\ encomendas'[e] # Nulo /\ encomendas[e].deleted) =>
                   /\ encomendas'[e].status = encomendas[e].status
                   /\ encomendas'[e].entregue_para = encomendas[e].entregue_para
<1>1. IInv /\ [Next]_vars => [A]_vars
  <2> SUFFICES ASSUME IInv, [Next]_vars PROVE A
    OBVIOUS
  <2>1. Base /\ Abertos
    BY DEF IInv, Vinculos
  <2>2. ASSUME NEW r \in Requisicao, Confirmar(r) PROVE A
    <3> DEFINE e == pedido[r].e
               l == imagem[r]
    <3>1. /\ e \in Encomenda
          /\ encomendas' = [encomendas EXCEPT ![e] = l]
          /\ \/ pedido[r].op \in Movimento /\ MovimentoValido(r)
             \/ pedido[r].op \in Marcacao /\ MarcacaoValida(r)
          /\ pedido[r] # Nulo
      BY <2>1, <2>2, LinhaConfirmada
    <3>2. Releitura(r)
      BY <2>2 DEF Confirmar
    <3>3. encomendas'[e] = l /\ \A d \in Encomenda : d # e => encomendas'[d] = encomendas[d]
      BY <2>1, <3>1 DEF Base, TypeOK
    <3>4. CASE pedido[r].op \in Movimento /\ MovimentoValido(r)
      <4>1. ~l.deleted
        BY <3>2, <3>4 DEF Releitura, Movimento
      <4>2. encomendas[e] # Nulo => pedido[r].op # "create"
        BY <2>1, <3>1 DEF Base, Criacoes
      <4>3. encomendas[e] # Nulo => ~encomendas[e].deleted
        BY <3>4, <4>1, <4>2 DEF MovimentoValido
      <4> QED BY <3>3, <4>3
    <3>5. CASE MarcacaoValida(r)
      BY <3>3, <3>5 DEF MarcacaoValida
    <3> QED BY <3>1, <3>4, <3>5
  <2>3. ASSUME NEW r \in Requisicao, ApagarLinha(r) PROVE A
    <3>1. encomendas' = [encomendas EXCEPT ![pedido[r].e] = Nulo]
      BY <2>3 DEF ApagarLinha
    <3> QED BY <2>1, <3>1 DEF Base, TypeOK
  <2>4. ASSUME NEW r \in Requisicao, PassoDe(r), ~Confirmar(r), ~ApagarLinha(r)
        PROVE  encomendas' = encomendas
    BY <2>4 DEF PassoDe, Leitura, Ler, Insercao, Inserir, Escrita, Gravar, RegistrarEvento,
                Promover, ApagarFilhos, FimSemEfeito, tabelas
  <2>5. DespacharPush \/ UNCHANGED vars => encomendas' = encomendas
    BY DEF DespacharPush, Enviar, vars, tabelas
  <2> QED BY <2>1, <2>2, <2>3, <2>4, <2>5, Passo
<1> QED BY <1>1, Indutivo, PTL DEF Spec, RemovidaNaoMuda

\* What open requests will tell is part of the inductive invariant.
THEOREM RelatoIndutivo == Spec => []Relato
<1>1. Init => Relato
  BY RelatoInit
<1>2. IInv /\ Relato /\ [Next]_vars => Relato'
  BY RelatoStep
<1> QED BY <1>1, <1>2, Indutivo, PTL DEF Spec

\* The holder was told of a hand-over or a cancellation exactly when the history
\* records it (registerStatusEvent inserts both in the transaction of the movement).
THEOREM AvisoComEvento == Spec => []AvisoAcompanhaEvento
<1>1. Relato => AvisoAcompanhaEvento
  BY DEF Relato
<1> QED BY <1>1, RelatoIndutivo, PTL

\* What a reader of committed rows sees of the parcels is a behaviour of CicloEncomenda:
\* Confirmar maps to Registrar, Mover or Marcar, ApagarLinha to Apagar, the insert of
\* create to Sortear, the loss of such a request to Desistir, all else to a stutter.
THEOREM CicloCumprido == Spec => CicloDaEncomenda
<1>1. Init => Ciclo!CicloInit
  BY DEF Init, Ciclo!CicloInit, Ciclo!Ausente, EmCriacao, Situacao
<1>2. IInv /\ Relato /\ [Next]_vars => [Ciclo!CicloNext]_(Ciclo!cicloVars)
  BY CicloStep
<1> QED BY <1>1, <1>2, Indutivo, RelatoIndutivo, PTL DEF Spec, CicloDaEncomenda, Ciclo!CicloSpec

\* A request that nothing overlaps confirms only what its checks allow of the parcel as
\* it is then: nobody has changed it since they passed, and an earlier request that was
\* interrupted has left nothing behind.
THEOREM GuardasValem == SpecIsolada => GuardasSeIsolada
<1>1. Init /\ sozinha = [r \in Requisicao |-> TRUE] => IInv /\ Isoladas
  BY BaseInit, VinculosInit DEF IInv, Init, Isoladas, NoAberto, Aberta
<1>2. IInv /\ Isoladas /\ [Next /\ Acompanhar]_varsIsoladas => (IInv /\ Isoladas)'
  <2>1. [Next /\ Acompanhar]_varsIsoladas => [Next]_vars
    BY DEF varsIsoladas
  <2> QED BY <2>1, IInvStep, IsoladasStep
<1> DEFINE A == \A r \in Requisicao : Confirma(r) /\ sozinha[r] =>
                    LET antes == encomendas[pedido[r].e]
                        op    == pedido[r].op
                    IN  /\ op = "recebida" => antes.status = "prevista"
                        /\ op = "retirada" => antes.status = "aguardando"
                        /\ op = "baixa" => antes.status \in {"prevista", "recebida", "aguardando"}
                        /\ op = "remove" /\ PerfilDe[pedido[r].ator] = "portaria" =>
                              PortariaPodeRemover(antes, pedido[r].ator)
<1>3. IInv /\ Isoladas /\ [Next /\ Acompanhar]_varsIsoladas => [A]_varsIsoladas
  <2> SUFFICES ASSUME Isoladas PROVE A
    OBVIOUS
  <2>1. \A r \in Requisicao : Confirma(r) => NoAberto(r)
    BY DEF Confirma, NoAberto, Aberta
  <2> QED BY <2>1 DEF Isoladas, Guarda
<1> QED BY <1>1, <1>2, <1>3, PTL DEF SpecIsolada, GuardasSeIsolada

=============================================================================
