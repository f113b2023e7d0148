------------------------------ MODULE Cadastros ------------------------------
(***************************************************************************)
(* The two catalogues of the system, transportadoras and condominios, and  *)
(* the pool of connections that their handlers share with everything else. *)
(*                                                                         *)
(* Each handler is a transaction of its controller that ends with a row of *)
(* auditoria. update and remove of a transportadora, and update of a       *)
(* condominio, first read their row through the pool and not through the   *)
(* transaction; so does a movement of a parcel by the staff, which is here *)
(* for the connections it holds. Uniqueness (nome of a transportadora,     *)
(* telefone or e-mail of a condominio, removed rows included) is asked for *)
(* by SELECT and enforced by an index. A transaction reads the snapshot of *)
(* its first SELECT, and its own writes.                                   *)
(***************************************************************************)
EXTENDS Conexoes

CONSTANTS
    Transportadora,  \* the transportadoras there may be at the start
    Condominio,      \* the condominios
    Chave,           \* values of the unique columns
    Nulo,            \* no row, no value
    Simultaneas      \* how many requests may be under way at a time (a bound)

ASSUME SimultaneasNatural == Simultaneas \in Nat

\* A row created by r has r for its uuid.
Registro == Transportadora \cup Condominio \cup Requisicao
Tabela(g) == IF g \in Condominio THEN Condominio ELSE Registro \ Condominio

Linha == [chave: Chave \cup {Nulo}, removida: BOOLEAN]
Pedido ==
    [op: {"create"}, alvo: Requisicao, chave: Chave]
    \cup [op: {"update"}, alvo: Registro, chave: Chave \cup {Nulo}]
    \cup [op: {"remove", "restore", "hardRemove", "movimento", "leitura"}, alvo: Registro, chave: {Nulo}]

ASSUME NuloEhOutro == Nulo \notin Linha \cup Pedido \cup Registro \cup Chave

VARIABLES
    registros,    \* uuid |-> its committed row
    auditoria,    \* the requests whose audit row is committed
    fase,         \* request |-> how far it is
    pedido,       \* request |-> what it asks for
    visto,        \* request |-> the row of its target in the snapshot of its transaction
    novo          \* request |-> that row as the transaction has written it

vars == <<registros, auditoria, fase, pedido, visto, novo, posse, fila>>
pool == <<posse, fila>>

Fase == {"nova", "espera_trx", "iniciada", "espera_leitura", "lendo", "lida", "conferida",
         "escrita", "auditada", "respondida", "recusada"}
Encerrada == {"nova", "respondida", "recusada"}
Abertas == {r \in Requisicao : fase[r] \notin Encerrada}
\* The handlers that read through the pool while they hold a transaction.
Aninhada(r) == pedido[r].op \in {"update", "remove", "movimento"}

Init ==
    /\ registros \in [Registro -> Linha \cup {Nulo}]
    /\ \A g \in Requisicao : registros[g] = Nulo
    /\ \A g \in Condominio : registros[g] # Nulo /\ ~registros[g].removida
    /\ \A g \in Transportadora : registros[g] # Nulo /\ registros[g].chave # Nulo
    /\ \A g, h \in Registro : g # h /\ Tabela(g) = Tabela(h) /\ registros[g] # Nulo
          /\ registros[h] # Nulo /\ registros[g].chave # Nulo => registros[g].chave # registros[h].chave
    /\ auditoria = {}
    /\ fase = [r \in Requisicao |-> "nova"]
    /\ pedido = [r \in Requisicao |-> Nulo]
    /\ visto = [r \in Requisicao |-> Nulo]
    /\ novo = [r \in Requisicao |-> Nulo]
    /\ PoolInit

-----------------------------------------------------------------------------
(* Opening, and connections.                                               *)

\* The phase that begins with the connection waited for, if it is there already.
AoPedir(espera) ==
    CASE HaLivre /\ espera = "espera_trx" -> "iniciada"
      [] HaLivre /\ espera = "espera_leitura" -> "lendo"
      [] OTHER -> espera

\* What it is waited for.
UsoDe(espera) == IF espera = "espera_trx" THEN "trx" ELSE "leitura"

\* A transaction of a controller, or a GET, asks the pool for a connection.
Abrir(r) ==
    /\ fase[r] = "nova"
    /\ Cardinality(Abertas) < Simultaneas
    /\ \E p \in Pedido : LET espera == IF p.op = "leitura" THEN "espera_leitura" ELSE "espera_trx" IN
          /\ p.op = "create" => p.alvo = r
          /\ p.op \in {"update", "remove", "restore", "hardRemove"} => registros[p.alvo] # Nulo
          /\ p.op \in {"remove", "restore", "hardRemove"} => p.alvo \notin Condominio
          /\ p.op \in {"movimento", "leitura"} => p.alvo = r
          /\ pedido' = [pedido EXCEPT ![r] = p]
          /\ fase' = [fase EXCEPT ![r] = AoPedir(espera)]
          /\ Pedir(r, UsoDe(espera))
    /\ UNCHANGED <<registros, auditoria, visto, novo>>

\* The connection waited for comes: BEGIN, or the SELECT of a read through the pool goes out.
Conectar(r) ==
    /\ Atender(r, UsoDe(fase[r]))
    /\ fase' = [fase EXCEPT ![r] = IF fase[r] = "espera_trx" THEN "iniciada" ELSE "lendo"]
    /\ UNCHANGED <<registros, auditoria, pedido, visto, novo>>

\* findOne, or findUsuarioAtivo, inside a transaction and not through it.
PedirLeitura(r) ==
    /\ fase[r] = "iniciada" /\ Aninhada(r)
    /\ fase' = [fase EXCEPT ![r] = AoPedir("espera_leitura")]
    /\ Pedir(r, "leitura")
    /\ UNCHANGED <<registros, auditoria, pedido, visto, novo>>

-----------------------------------------------------------------------------
(* Steps of a transaction.                                                 *)

Passo(r, de, a) == fase[r] = de /\ fase' = [fase EXCEPT ![r] = a]

\* The read through the pool is answered; a target that is not there, or removed,
\* refuses (through Falhar). A GET ends here.
LerPelaConexao(r) ==
    LET l == registros[pedido[r].alvo]
        so == pedido[r].op = "leitura"
    IN  /\ fase[r] = "lendo"
        /\ pedido[r].op \in {"update", "remove"} => l # Nulo /\ ~l.removida
        /\ fase' = [fase EXCEPT ![r] = IF so THEN "respondida" ELSE "lida"]
        /\ Soltar(r)
        /\ UNCHANGED <<registros, auditoria, pedido, visto, novo>>

\* Another row of the table g has that value of its unique column.
EmUso(chave, g, rs) == \E h \in Tabela(g) \ {g} : rs[h] # Nulo /\ rs[h].chave = chave

\* assertNomeDisponivel, telefoneEmUso and emailEmUso, when there is a value to ask for.
Conferir(r) ==
    LET p == pedido[r]
        chave == IF p.op = "restore" THEN registros[p.alvo].chave ELSE p.chave
    IN  /\ fase[r] \in {"iniciada", "lida"}
        /\ Aninhada(r) <=> fase[r] = "lida"
        /\ p.op \in {"restore", "hardRemove"} => registros[p.alvo] # Nulo
        /\ p.op = "restore" => registros[p.alvo].removida
        /\ chave # Nulo => ~EmUso(chave, p.alvo, registros)
        /\ fase' = [fase EXCEPT ![r] = "conferida"]
        /\ visto' = [visto EXCEPT ![r] = IF chave # Nulo THEN registros[p.alvo] ELSE Nulo]
        /\ UNCHANGED <<registros, auditoria, pedido, novo, pool>>

\* The rows of the index that r has locked: of its target, with the old and new value.
Tranca(r) ==
    IF fase[r] \notin {"escrita", "auditada"} THEN {}
    ELSE LET g == pedido[r].alvo
         IN  {<<g, "linha">>}
             \cup {<<Tabela(g), l.chave>> : l \in {novo[r], registros[g]} \ {Nulo}}

\* The row of its target after the statement of r, which acts on the latest version.
Escrita(r) ==
    LET p == pedido[r]  l == registros[p.alvo]
    IN  CASE p.op = "create" -> [chave |-> p.chave, removida |-> FALSE]
          [] p.op = "update" /\ l # Nulo -> [l EXCEPT !.chave = IF p.chave = Nulo THEN @ ELSE p.chave]
          [] p.op = "remove" /\ l # Nulo -> [l EXCEPT !.removida = TRUE]
          [] p.op = "restore" /\ l # Nulo -> [l EXCEPT !.removida = FALSE]
          [] OTHER -> Nulo

\* Who holds a lock that the statement of r needs.
Bloqueiam(r) ==
    LET g == pedido[r].alvo
        quer == {<<g, "linha">>}
                \cup {<<Tabela(g), l.chave>> : l \in {Escrita(r), registros[g]} \ {Nulo}}
    IN  {s \in Requisicao \ {r} : Tranca(s) \cap quer # {}}

\* INSERT, UPDATE or DELETE by uuid: it waits for locks and obeys the index.
Escrever(r) ==
    /\ Passo(r, "conferida", "escrita")
    /\ pedido[r].op # "movimento"
    /\ Bloqueiam(r) = {}
    /\ Escrita(r) # Nulo /\ Escrita(r).chave # Nulo =>
          ~EmUso(Escrita(r).chave, pedido[r].alvo, registros)
    /\ novo' = [novo EXCEPT ![r] = Escrita(r)]
    /\ UNCHANGED <<registros, auditoria, pedido, visto, pool>>

\* What the SELECT at the end of update and restore sees: the own write, or else
\* the snapshot.
Relida(r) ==
    CASE novo[r] # Nulo -> novo[r]
      [] novo[r] = Nulo /\ visto[r] # Nulo -> visto[r]
      [] OTHER -> registros[pedido[r].alvo]

\* Mutant of Auditar: the row is read again whether removed or not.
Auditar_SemFiltro(r) ==
    /\ Passo(r, "escrita", "auditada")
    /\ pedido[r].op \in {"create", "update", "restore"} => Relida(r) # Nulo
    /\ UNCHANGED <<registros, auditoria, pedido, visto, novo, pool>>

\* Mutant of Auditar: the audit row is inserted on a connection of its own.
Auditar_ForaDaTransacao(r) ==
    /\ Passo(r, "escrita", "auditada")
    /\ pedido[r].op \in {"create", "update", "restore"} =>
          Relida(r) # Nulo /\ ~Relida(r).removida
    /\ auditoria' = auditoria \cup {r}
    /\ UNCHANGED <<registros, pedido, visto, novo, pool>>

\* The row is read again, not removed, and registrarEmTrx inserts the audit row.
Auditar(r) ==
    /\ Passo(r, "escrita", "auditada")
    /\ pedido[r].op \in {"create", "update", "restore"} =>
          Relida(r) # Nulo /\ ~Relida(r).removida
    /\ UNCHANGED <<registros, auditoria, pedido, visto, novo, pool>>

\* The transaction is over, and the request with it.
Encerrar(r, a) ==
    /\ fase' = [fase EXCEPT ![r] = a]
    /\ visto' = [visto EXCEPT ![r] = Nulo]
    /\ novo' = [novo EXCEPT ![r] = Nulo]
    /\ SoltarTudo(r)
    /\ UNCHANGED pedido

\* COMMIT.
Confirmar(r) ==
    /\ fase[r] = "auditada"
    /\ registros' = IF novo[r] # Nulo \/ pedido[r].op = "hardRemove"
                    THEN [registros EXCEPT ![pedido[r].alvo] = novo[r]] ELSE registros
    /\ auditoria' = auditoria \cup {r}
    /\ Encerrar(r, "respondida")

\* The rest of a movement, which other modules tell.
ConcluirMovimento(r) ==
    /\ fase[r] = "conferida" /\ pedido[r].op = "movimento"
    /\ Encerrar(r, "respondida")
    /\ UNCHANGED <<registros, auditoria>>

\* A refusal, an error of the database, the end of a wait for a lock or of one for a
\* connection: the transaction, if there is one, rolls back.
Falhar(r) ==
    /\ r \in Abertas
    /\ Encerrar(r, "recusada")
    /\ UNCHANGED <<registros, auditoria>>

Ocioso == Abertas = {} /\ UNCHANGED vars

Prossegue(r) ==
    \/ Conectar(r) \/ PedirLeitura(r) \/ LerPelaConexao(r) \/ Conferir(r) \/ Escrever(r)
    \/ Auditar(r) \/ Confirmar(r) \/ ConcluirMovimento(r)

Next == (\E r \in Requisicao : Abrir(r) \/ Prossegue(r) \/ Falhar(r)) \/ Ocioso

Spec == Init /\ [][Next]_vars

-----------------------------------------------------------------------------
(* Properties.                                                             *)

\* Every variable holds a value of its kind.
TypeOK ==
    /\ registros \in [Registro -> Linha \cup {Nulo}]
    /\ auditoria \subseteq Requisicao
    /\ fase \in [Requisicao -> Fase]
    /\ pedido \in [Requisicao -> Pedido \cup {Nulo}]
    /\ visto \in [Requisicao -> Linha \cup {Nulo}]
    /\ novo \in [Requisicao -> Linha \cup {Nulo}]
    /\ PoolTypeOK

\* All connections are lent, and no request under way that holds one can go on
\* without another.
Travado ==
    /\ Emprestadas = Maximo
    /\ \A r \in Abertas : (\E uso \in Uso : <<r, uso>> \in posse) => Esperando(r)

\* The pool gives a connection back unless Maximo transactions that read through it
\* hold one each: fewer of them, in whatever company, never stop the system.
TravaSoNoLimite ==
    Travado => Cardinality({r \in Abertas : Aninhada(r) /\ fase[r] = "espera_leitura"}) >= Maximo

\* The nome of a removed transportadora never changes, not even by an update that
\* had read it before the removal, and it comes back by a restoration only.
RemovidaFica ==
    [][\A g \in Registro :
          registros[g] # Nulo /\ registros[g].removida /\ registros'[g] \notin {Nulo, registros[g]} =>
             /\ registros'[g].chave = registros[g].chave
             /\ \E r \in Requisicao : /\ pedido[r].op = "restore" /\ pedido[r].alvo = g
                                      /\ fase[r] = "auditada" /\ fase'[r] = "respondida"]_vars

\* What the audit row of r says, unless its target was hard-removed after r read it.
Feito(r) ==
    LET p == pedido[r]  l == registros'[p.alvo]
    IN  /\ p.op = "hardRemove" => l = Nulo
        /\ p.op # "hardRemove" /\ l = Nulo =>
              /\ p.op # "create"
              /\ \E s \in auditoria : pedido[s] = [op |-> "hardRemove", alvo |-> p.alvo, chave |-> Nulo]
        /\ p.op = "remove" /\ l # Nulo => l.removida
        /\ p.op \notin {"hardRemove", "remove"} /\ l # Nulo => ~l.removida /\ p.chave \in {l.chave, Nulo}

\* A row of the audit trail is committed exactly with the change it tells of: whatever
\* overlapped, the transportadora or condominio is then as the row says.
EfeitoAuditado ==
    [][/\ \A r \in auditoria' \ auditoria : Feito(r)
       /\ registros' # registros => \E r \in auditoria' \ auditoria :
             \A g \in Registro : registros'[g] # registros[g] => g = pedido[r].alvo]_vars

=============================================================================
