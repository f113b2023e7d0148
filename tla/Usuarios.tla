------------------------------ MODULE Usuarios ------------------------------
(***************************************************************************)
(* The accounts: who exists, with which profile, in which condominium and  *)
(* unit, approved or not (usuarios.service.ts, usuarios.controller.ts and  *)
(* signUp and signIn of auth.service.ts), and the units they are linked to *)
(* (unidades.service.ts).                                                  *)
(*                                                                         *)
(* A handler reads its target, mostly on a connection of its own, compares *)
(* condominiums and profiles, hashes a password if there is one, and only  *)
(* then writes UPDATE ... WHERE uuid or INSERT. The write acts on the row  *)
(* as last committed; only the e-mail has a unique index. The profile of   *)
(* the caller comes from the token and is as old as the token.             *)
(*                                                                         *)
(* Left out: names, passwords, activation, and the approver's uuid. cpf    *)
(* stands for cpf_cnpj, celular and rg, which are treated alike.           *)
(***************************************************************************)
EXTENDS Naturals, FiniteSets

CONSTANTS
    Usuario,        \* the uuids of accounts
    Requisicao,     \* the requests of the workload, each handled once
    Condominio,     \* the rows of condominios
    Unidade,        \* the uuids of units
    CondominioDa,   \* unidades.uuid_condominio
    Documento,      \* values of cpf_cnpj
    Email,          \* values of email
    Nulo,           \* SQL NULL, and "no row"
    Semente,        \* the rows the seed inserts
    Operacoes,      \* the operations the workload uses (a bound; Operacao is all)
    Simultaneas     \* how many requests may be open at a time (a bound)

Perfil == {"super", "admin", "portaria", "morador"}
Gestor == {"super", "admin"}
Operacao == {"signUp", "create", "update", "aprovar", "revogar", "updateRole",
             "updateUnidade", "remove", "restore", "hardRemove", "unidade"}

\* A row of usuarios; aprovado stands for aproved_at.
Linha == [perfil: Perfil, condominio: Condominio \cup {Nulo}, unidade: Unidade \cup {Nulo},
          aprovado: BOOLEAN, cpf: Documento, email: Email, deleted: BOOLEAN]

\* What a request writes: a new row, or some columns of one.
Mudanca == Linha \cup [perfil: Perfil] \cup [aprovado: BOOLEAN] \cup [deleted: BOOLEAN]
                 \cup [condominio: Condominio, unidade: Unidade]
                 \cup [cpf: Documento] \cup [email: Email] \cup [cpf: Documento, email: Email]

\* perfil is the one of the caller's token; a sign-up has neither caller nor token.
Pedido == [op: Operacao, ator: Usuario \cup {Nulo}, perfil: Perfil \cup {Nulo},
           alvo: Usuario, muda: Mudanca]

\* An admin, portaria or morador belongs to a condominium and a unit to the
\* condominium of its user.
Vinculado(l) ==
    l.perfil # "super" =>
        /\ l.condominio # Nulo
        /\ l.unidade # Nulo => l.condominio = CondominioDa[l.unidade]

ASSUME Tabelas ==
    /\ CondominioDa \in [Unidade -> Condominio]
    /\ Operacoes \subseteq Operacao
    /\ Simultaneas \in Nat
    /\ Nulo \notin Usuario /\ Nulo \notin Condominio /\ Nulo \notin Unidade /\ Nulo \notin Perfil
    /\ Nulo \notin Linha /\ Nulo \notin Pedido /\ Nulo \notin Email

ASSUME SementeCoerente ==
    /\ Semente \in [Usuario -> Linha \cup {Nulo}]
    /\ \A u \in Usuario : Semente[u] # Nulo => Vinculado(Semente[u])

VARIABLES
    usuarios,     \* the committed table: uuid |-> row, or Nulo
    unidades,     \* uuid of a unit |-> "ativa", "removida" (soft) or "apagada"
    emitidos,     \* the uuids randomUUID has returned
    sessoes,      \* the access tokens in circulation: [sub, perfil]
    fase,         \* request |-> where its transaction stands
    pedido,       \* request |-> what it asks for, Nulo when not open
    imagem        \* request |-> the row as its transaction has written it

vars == <<usuarios, unidades, emitidos, sessoes, fase, pedido, imagem>>
tabelas == <<usuarios, unidades>>

Init ==
    /\ usuarios = Semente
    /\ unidades = [n \in Unidade |-> "ativa"]
    /\ emitidos = {u \in Usuario : Semente[u] # Nulo}
    /\ sessoes = {}
    /\ fase = [r \in Requisicao |-> "nova"]
    /\ pedido = [r \in Requisicao |-> Nulo]
    /\ imagem = [r \in Requisicao |-> Nulo]

-----------------------------------------------------------------------------
(* Sessions and checks.                                                    *)

Visivel(u) == usuarios[u] # Nulo /\ ~usuarios[u].deleted

\* signIn and refreshTokens: an approved account gets a token that carries the
\* profile of the row. Tokens do not expire here: nothing else takes time.
Entrar(u) ==
    /\ Visivel(u)
    /\ usuarios[u].aprovado
    /\ sessoes' = sessoes \cup {[sub |-> u, perfil |-> usuarios[u].perfil]}
    /\ UNCHANGED <<tabelas, emitidos, fase, pedido, imagem>>

\* The tokens a request may come with: JwtStrategy reads the account again.
Autenticadas == {t \in sessoes : Visivel(t.sub) /\ usuarios[t.sub].aprovado}
DeGestor == {t \in Autenticadas : t.perfil \in Gestor}

\* Mutant of Alcanca: an admin reaches every condominium.
Alcanca_TodoGestor(t, c) == t.perfil \in Gestor

\* resolverEscopoCondominio and assertDentroDoEscopo: a super reaches every
\* condominium, others their own as the table has it now, if they have one.
Alcanca(t, c) ==
    \/ t.perfil = "super"
    \/ usuarios[t.sub].condominio # Nulo /\ usuarios[t.sub].condominio = c

\* Mutant of Subordinado: a super may change a super.
Subordinado_SuperAlcancaSuper(f, g) == ~(f = "admin" /\ g \in Gestor)

\* Nobody changes a super, an admin does not change an admin.
Subordinado(f, g) == g # "super" /\ ~(f = "admin" /\ g = "admin")

\* The uniqueness checks, as SELECTs over the committed rows: create looks at
\* removed accounts too, update does not.
Livre(coluna, valor, us) == \A v \in us : usuarios[v] # Nulo => usuarios[v][coluna] # valor

-----------------------------------------------------------------------------
(* Opening a transaction: the reads and checks of a handler.               *)

NoAberto(r) == fase[r] \in {"lida", "gravada"}

Vaga(r) ==
    /\ fase[r] = "nova"
    /\ Cardinality({s \in Requisicao : NoAberto(s)}) < Simultaneas

Ler(r, op, t, alvo, muda) ==
    /\ op \in Operacoes
    /\ fase' = [fase EXCEPT ![r] = "lida"]
    /\ pedido' = [pedido EXCEPT ![r] =
          [op |-> op, ator |-> t.sub, perfil |-> t.perfil, alvo |-> alvo, muda |-> muda]]
    /\ emitidos' = emitidos \cup {alvo}
    /\ UNCHANGED <<tabelas, sessoes, imagem>>

NovaLinha(perfil, condominio, unidade, cpf, email) ==
    [perfil |-> perfil, condominio |-> condominio, unidade |-> unidade,
     aprovado |-> perfil # "morador", cpf |-> cpf, email |-> email, deleted |-> FALSE]

\* The bodies: what an account may say of itself at first and later, and what is said
\* of an employee.
CreateUsuarioDto == [unidade: Unidade, cpf: Documento, email: Email]
UpdateUsuarioDto == [cpf: Documento] \cup [email: Email] \cup [cpf: Documento, email: Email]
CreateFuncionarioDto ==
    [perfil: Perfil \ {"morador"}, condominio: Condominio \cup {Nulo},
     unidade: Unidade \cup {Nulo}, cpf: Documento, email: Email]

\* POST /auth/sign-up: a morador of the unit named, to be approved.
LerSignUp(r) ==
    \E u \in Usuario \ emitidos, dto \in CreateUsuarioDto :
        /\ Livre("email", dto.email, Usuario)
        /\ Livre("cpf", dto.cpf, Usuario)
        /\ unidades[dto.unidade] = "ativa"
        /\ Ler(r, "signUp", [sub |-> Nulo, perfil |-> Nulo], u,
               NovaLinha("morador", CondominioDa[dto.unidade], dto.unidade, dto.cpf, dto.email))

\* resolverVinculoCadastroAdministrativo: where a new account of profile f may
\* belong. A super belongs nowhere but may have any unit.
VinculoPermitido(t, f, c, n) ==
    /\ n # Nulo => unidades[n] = "ativa"
    /\ IF f = "super"
       THEN c = Nulo /\ t.perfil = "super"
       ELSE /\ c \in Condominio
            /\ Alcanca(t, c)
            /\ n # Nulo => CondominioDa[n] = c

\* POST /usuarios, by an admin or a super.
LerCreate(r) ==
    \E t \in DeGestor, u \in Usuario \ emitidos, dto \in CreateFuncionarioDto :
        /\ Livre("email", dto.email, Usuario)
        /\ Livre("cpf", dto.cpf, Usuario)
        /\ VinculoPermitido(t, dto.perfil, dto.condominio, dto.unidade)
        /\ Ler(r, "create", t, u,
               NovaLinha(dto.perfil, dto.condominio, dto.unidade, dto.cpf, dto.email))

\* PATCH /usuarios/:id, by the account itself.
LerUpdate(r) ==
    \E t \in Autenticadas, dto \in UpdateUsuarioDto :
        /\ \A coluna \in DOMAIN dto :
              Livre(coluna, dto[coluna], {v \in Usuario \ {t.sub} : Visivel(v)})
        /\ Ler(r, "update", t, t.sub, dto)

\* PATCH /usuarios/:id/aprove-user and /revoke-user
LerAprovacao(r) ==
    \E t \in DeGestor, u \in Usuario, op \in {"aprovar", "revogar"} :
        /\ Visivel(u)
        /\ Alcanca(t, usuarios[u].condominio)
        /\ Subordinado(t.perfil, usuarios[u].perfil)
        /\ Ler(r, op, t, u, [aprovado |-> op = "aprovar"])

\* PATCH /usuarios/:id/update-role
LerUpdateRole(r) ==
    \E t \in DeGestor, u \in Usuario, f \in Perfil :
        /\ Visivel(u)
        /\ Alcanca(t, usuarios[u].condominio)
        /\ Subordinado(t.perfil, usuarios[u].perfil)
        /\ t.perfil = "admin" => f # "super"
        /\ Ler(r, "updateRole", t, u, [perfil |-> f])

\* PATCH /usuarios/:id/unidade
LerUpdateUnidade(r) ==
    \E t \in DeGestor, u \in Usuario, n \in Unidade :
        /\ Visivel(u)
        /\ Alcanca(t, usuarios[u].condominio)
        /\ Subordinado(t.perfil, usuarios[u].perfil)
        /\ unidades[n] = "ativa"
        /\ Alcanca(t, CondominioDa[n])
        /\ Ler(r, "updateUnidade", t, u, [condominio |-> CondominioDa[n], unidade |-> n])

\* DELETE /usuarios/:id
LerRemove(r) ==
    \E t \in Autenticadas, u \in Usuario :
        /\ Visivel(u)
        /\ \/ u = t.sub
           \/ /\ t.perfil \in Gestor
              /\ Alcanca(t, usuarios[u].condominio)
              /\ Subordinado(t.perfil, usuarios[u].perfil)
        /\ Ler(r, "remove", t, u, [deleted |-> TRUE])

\* PATCH /usuarios/:id/restore: neither the profile of the target nor the
\* uniqueness of what it brings back is looked at.
LerRestore(r) ==
    \E t \in DeGestor, u \in Usuario :
        /\ usuarios[u] # Nulo /\ usuarios[u].deleted
        /\ Alcanca(t, usuarios[u].condominio)
        /\ Ler(r, "restore", t, u, [deleted |-> FALSE])

\* DELETE /usuarios/:id/hard
LerHardRemove(r) ==
    \E t \in DeGestor, u \in Usuario :
        /\ t.perfil = "super"
        /\ usuarios[u] # Nulo
        /\ Ler(r, "hardRemove", t, u, [deleted |-> TRUE])

-----------------------------------------------------------------------------
(* Writing.                                                                *)

Criacao == {"signUp", "create"}
Alteracao == {"update", "aprovar", "revogar", "updateRole", "updateUnidade"}
Marcacao == {"remove", "restore"}

RowLivre(r, u) == \A s \in Requisicao \ {r} : ~(imagem[s] # Nulo /\ pedido[s].alvo = u)

EmailDe(u) == IF usuarios[u] = Nulo THEN Nulo ELSE usuarios[u].email

\* s has inserted or taken out the entry x of the unique index, uncommitted.
MexeNoEmail(s, x) ==
    /\ imagem[s] # Nulo
    /\ imagem[s].email # EmailDe(pedido[s].alvo)
    /\ x \in {imagem[s].email, EmailDe(pedido[s].alvo)}

\* Every unique and foreign key the request writes is free of waiting.
SemEspera(r) ==
    LET m == pedido[r].muda
    IN  "email" \in DOMAIN m => \A s \in Requisicao \ {r} : ~MexeNoEmail(s, m.email)

\* The unique index on email, over removed accounts too, and the foreign key
\* on uuid_unidade.
ChavesValidas(r) ==
    LET m == pedido[r].muda
        u == pedido[r].alvo
    IN  /\ "email" \in DOMAIN m => \A v \in Usuario \ {u} : EmailDe(v) # m.email
        /\ "unidade" \in DOMAIN m /\ m.unidade # Nulo => unidades[m.unidade] # "apagada"

Escreve(r, l) ==
    /\ SemEspera(r)
    /\ ChavesValidas(r)
    /\ imagem' = [imagem EXCEPT ![r] = l]
    /\ fase' = [fase EXCEPT ![r] = "gravada"]
    /\ UNCHANGED <<tabelas, emitidos, sessoes, pedido>>

Inserir(r) ==
    /\ fase[r] = "lida"
    /\ pedido[r].op \in Criacao
    /\ Escreve(r, pedido[r].muda)

\* Mutant of Aplicar: the columns not named are lost.
Aplicar_SoAMudanca(l, m) == m

\* The columns of m replace those of l.
Aplicar(l, m) == [c \in DOMAIN l |-> IF c \in DOMAIN m THEN m[c] ELSE l[c]]

Gravar(r) ==
    LET u == pedido[r].alvo
    IN  /\ fase[r] = "lida"
        /\ pedido[r].op \in Alteracao \cup Marcacao
        /\ usuarios[u] # Nulo
        /\ RowLivre(r, u)
        /\ Escreve(r, Aplicar(usuarios[u], pedido[r].muda))

-----------------------------------------------------------------------------
(* Ending the transaction.                                                 *)

Encerrar(r, fim) ==
    /\ fase' = [fase EXCEPT ![r] = fim]
    /\ pedido' = [pedido EXCEPT ![r] = Nulo]
    /\ imagem' = [imagem EXCEPT ![r] = Nulo]
    /\ UNCHANGED <<emitidos, sessoes>>

Desfazer(r) == Encerrar(r, "desfeita") /\ UNCHANGED tabelas

\* The INSERT or UPDATE breaks a key.
ViolarChave(r) ==
    /\ fase[r] = "lida"
    /\ pedido[r].op \in Criacao \/ usuarios[pedido[r].alvo] # Nulo
    /\ pedido[r].op # "hardRemove"
    /\ SemEspera(r)
    /\ ~ChavesValidas(r)
    /\ Desfazer(r)

\* The account was hard-removed in between: the UPDATE matches no row. remove and
\* restore end well; the others read the row back, and answer with it when a read of
\* the same transaction has fixed an earlier snapshot, or fail when none has.
GravarSemLinha(r) ==
    /\ fase[r] = "lida"
    /\ pedido[r].op \in Alteracao \cup Marcacao
    /\ usuarios[pedido[r].alvo] = Nulo
    /\ \E fim \in {"confirmada"} \cup IF pedido[r].op \in Marcacao THEN {} ELSE {"desfeita"} :
          Encerrar(r, fim)
    /\ UNCHANGED tabelas

\* Mutant of Releitura: omitSenha gets along with a row that is not there.
Releitura_Tolerante(r) == TRUE

\* The handlers that return the account read it once more and only find it
\* when it is not removed; without it omitSenha throws.
Releitura(r) == pedido[r].op \in Marcacao \/ ~imagem[r].deleted

Confirmar(r) ==
    /\ fase[r] = "gravada"
    /\ Releitura(r)
    /\ usuarios' = [usuarios EXCEPT ![pedido[r].alvo] = imagem[r]]
    /\ Encerrar(r, "confirmada")
    /\ UNCHANGED unidades

FalharReleitura(r) == fase[r] = "gravada" /\ ~Releitura(r) /\ Desfazer(r)

\* DELETE FROM usuarios, and commit; a row that others refer to (parcels,
\* history, notices) makes it fail, which is Abortar.
Apagar(r) ==
    /\ fase[r] = "lida"
    /\ pedido[r].op = "hardRemove"
    /\ RowLivre(r, pedido[r].alvo)
    /\ usuarios' = [usuarios EXCEPT ![pedido[r].alvo] = Nulo]
    /\ Encerrar(r, "confirmada")
    /\ UNCHANGED unidades

\* Any failure between two statements.
Abortar(r) == NoAberto(r) /\ Desfazer(r)

-----------------------------------------------------------------------------
(* Units. The write of such a request is all it does, so it is one step.   *)

\* A request on the unit n, from its read to its commit.
SobreUnidade(r, n) ==
    /\ "unidade" \in Operacoes
    /\ Vaga(r)
    /\ unidades[n] # "apagada"
    /\ fase' = [fase EXCEPT ![r] = "confirmada"]
    /\ UNCHANGED <<emitidos, sessoes, pedido, imagem>>

\* remove of a unit that is active, restore of one that is not.
MarcarUnidade(r, n) ==
    /\ SobreUnidade(r, n)
    /\ unidades' = [unidades EXCEPT ![n] = IF @ = "ativa" THEN "removida" ELSE "ativa"]
    /\ UNCHANGED usuarios

\* hardRemove of a unit: its users stay, without a unit (ON DELETE SET NULL).
\* It waits for transactions that have such a row or write the unit into one.
ApagarUnidade(r, n) ==
    /\ SobreUnidade(r, n)
    /\ \A s \in Requisicao : imagem[s] # Nulo =>
          /\ imagem[s].unidade # n
          /\ usuarios[pedido[s].alvo] # Nulo => usuarios[pedido[s].alvo].unidade # n
    /\ unidades' = [unidades EXCEPT ![n] = "apagada"]
    /\ usuarios' = [u \in Usuario |->
          IF usuarios[u] # Nulo /\ usuarios[u].unidade = n
          THEN [usuarios[u] EXCEPT !.unidade = Nulo] ELSE usuarios[u]]

\* No transaction is open and the API waits for the next request.
Ocioso ==
    /\ \A r \in Requisicao : ~NoAberto(r)
    /\ UNCHANGED vars

Comeca(r) ==
    /\ Vaga(r)
    /\ \/ LerSignUp(r) \/ LerCreate(r) \/ LerUpdate(r) \/ LerAprovacao(r)
       \/ LerUpdateRole(r) \/ LerUpdateUnidade(r) \/ LerRemove(r) \/ LerRestore(r)
       \/ LerHardRemove(r)

Prossegue(r) ==
    \/ Inserir(r) \/ Gravar(r) \/ ViolarChave(r) \/ GravarSemLinha(r)
    \/ Confirmar(r) \/ FalharReleitura(r) \/ Apagar(r) \/ Abortar(r)

Next ==
    \/ \E u \in Usuario : Entrar(u)
    \/ \E r \in Requisicao : Comeca(r) \/ Prossegue(r)
    \/ \E r \in Requisicao, n \in Unidade : MarcarUnidade(r, n) \/ ApagarUnidade(r, n)
    \/ Ocioso

Spec == Init /\ [][Next]_vars

-----------------------------------------------------------------------------
(* Properties.                                                             *)

\* Every variable holds a value of its kind.
TypeOK ==
    /\ usuarios \in [Usuario -> Linha \cup {Nulo}]
    /\ unidades \in [Unidade -> {"ativa", "removida", "apagada"}]
    /\ emitidos \subseteq Usuario
    /\ sessoes \subseteq [sub: Usuario, perfil: Perfil]
    /\ fase \in [Requisicao -> {"nova", "lida", "gravada", "confirmada", "desfeita"}]
    /\ pedido \in [Requisicao -> Pedido \cup {Nulo}]
    /\ imagem \in [Requisicao -> Linha \cup {Nulo}]

\* Every account but a super's has a condominium, and its unit, if it has one,
\* is of that condominium and exists, whatever changes of profile, unit and
\* units overlap. A super has neither by birth, so it rests on updateRole never
\* touching a super (card #167, resolverVinculoCadastroAdministrativo).
VinculoCoerente ==
    \A u \in Usuario : usuarios[u] # Nulo =>
        /\ Vinculado(usuarios[u])
        /\ usuarios[u].unidade # Nulo => unidades[usuarios[u].unidade] # "apagada"

\* A removed account keeps profile, approval and credentials until it is
\* restored: a handler that had read it before the removal committed is undone
\* because the row it reads back is missing.
RemovidoNaoMuda ==
    [][\A u \in Usuario :
          (usuarios[u] # Nulo /\ usuarios'[u] # Nulo /\ usuarios[u].deleted) =>
              \A c \in DOMAIN usuarios[u] \ {"deleted", "unidade"} :
                  usuarios'[u][c] = usuarios[u][c]]_vars

\* The cpf, with which one may sign in, belongs to one account.
CpfUnico ==
    \A u, v \in Usuario : u # v /\ Visivel(u) /\ Visivel(v) => usuarios[u].cpf # usuarios[v].cpf

\* r writes its change of somebody else's account.
MudaOutro(r) ==
    /\ fase[r] = "lida" /\ fase'[r] = "gravada"
    /\ pedido[r].op \notin Criacao
    /\ pedido[r].ator # pedido[r].alvo

\* What an admin changes belongs to the admin's condominium, as the tables are
\* when the change is written.
AdminSoNoCondominio ==
    [][\A r \in Requisicao : MudaOutro(r) /\ pedido[r].perfil = "admin" =>
          LET a == usuarios[pedido[r].ator]
          IN  a # Nulo /\ a.condominio = usuarios[pedido[r].alvo].condominio]_vars

\* Nobody changes a super and no admin an admin, as the table is when the
\* change is written; restore and hardRemove have no such rule.
HierarquiaRespeitada ==
    [][\A r \in Requisicao : MudaOutro(r) /\ pedido[r].op # "restore" =>
          LET g == usuarios[pedido[r].alvo].perfil
          IN  g # "super" /\ ~(pedido[r].perfil = "admin" /\ g = "admin")]_vars

\* Requests that do not overlap keep the three rules, as long as nothing is
\* restored.
RegrasSemSobreposicao ==
    /\ []CpfUnico
    /\ AdminSoNoCondominio
    /\ HierarquiaRespeitada

=============================================================================
