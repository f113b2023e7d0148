---------------------------- MODULE Usuarios_proofs ----------------------------
(***************************************************************************)
(* Proofs about Usuarios, for any accounts, units, seed and workload.      *)
(*                                                                         *)
(* VinculoCoerente speaks of three columns that different handlers write,  *)
(* each after a check on a snapshot. It is inductive together with         *)
(*   - Base: types, phases, row locks and uuids;                           *)
(*   - Pedidos: what an open request still knows of its target, which is   *)
(*     that whoever changes profile has a condominium;                     *)
(*   - Imagens: a row that was written and not committed is the committed  *)
(*     row with the columns of the request replaced, because the lock      *)
(*     keeps everybody else from it.                                       *)
(*                                                                         *)
(* The rules of RegrasSemSobreposicao hold only of requests that do not    *)
(* overlap. Their invariant SInv, in the second half, adds that one        *)
(* request at most is open and that what it has checked is still so.       *)
(***************************************************************************)
EXTENDS Usuarios, FiniteSetTheorems, TLAPS

-----------------------------------------------------------------------------
(* The inductive invariant.                                                *)

\* A request is open exactly while it has something to do, and has written its
\* row from its write to its end.
Fases ==
    \A r \in Requisicao :
        /\ NoAberto(r) <=> pedido[r] # Nulo
        /\ fase[r] = "gravada" <=> imagem[r] # Nulo

\* One writer of a row at a time.
Trancas ==
    \A r, s \in Requisicao :
        r # s /\ imagem[r] # Nulo /\ imagem[s] # Nulo => pedido[r].alvo # pedido[s].alvo

\* Every account that exists or is worked on has a uuid that was drawn.
Emissao ==
    /\ \A u \in Usuario : usuarios[u] # Nulo => u \in emitidos
    /\ \A r \in Requisicao : pedido[r] # Nulo => pedido[r].alvo \in emitidos

\* An account being created is not in the table, and nobody else can name it.
Criacoes ==
    \A r \in Requisicao : pedido[r] # Nulo /\ pedido[r].op \in Criacao =>
        /\ usuarios[pedido[r].alvo] = Nulo
        /\ \A s \in Requisicao \ {r} : pedido[s] # Nulo => pedido[s].alvo # pedido[r].alvo

Base == TypeOK /\ Fases /\ Trancas /\ Emissao /\ Criacoes

\* l belongs to a condominium, and its unit to that one.
Ligado(l) ==
    /\ l.condominio # Nulo
    /\ l.unidade # Nulo => l.condominio = CondominioDa[l.unidade]

\* What a request writes, by its operation.
MudancaValida(p) ==
    \/ p.op \in Criacao /\ p.muda \in Linha /\ Vinculado(p.muda)
    \/ p.op = "update" /\ p.muda \in UpdateUsuarioDto
    \/ p.op \in {"aprovar", "revogar"} /\ p.muda \in [aprovado: BOOLEAN]
    \/ p.op = "updateRole" /\ p.muda \in [perfil: Perfil]
    \/ /\ p.op = "updateUnidade"
       /\ p.muda \in [condominio: Condominio, unidade: Unidade]
       /\ p.muda.condominio = CondominioDa[p.muda.unidade]
    \/ p.op \in Marcacao /\ p.muda \in [deleted: BOOLEAN]
    \/ p.op = "hardRemove"

\* Who changes profile was no super when it was looked at, so it had a condominium,
\* and no request takes that away while the account exists.
PedidoValido(p) ==
    /\ MudancaValida(p)
    /\ p.op = "updateRole" /\ usuarios[p.alvo] # Nulo => Ligado(usuarios[p.alvo])

Pedidos == \A r \in Requisicao : pedido[r] # Nulo => PedidoValido(pedido[r])

UnidadeExiste(l) == l.unidade # Nulo => unidades[l.unidade] # "apagada"

\* The row that r has written next to the committed one.
ImagemValida(r) ==
    LET p == pedido[r]
    IN  /\ p.op # "hardRemove"
        /\ p.op \in Criacao => imagem[r] = p.muda
        /\ p.op \notin Criacao =>
              usuarios[p.alvo] # Nulo /\ imagem[r] = Aplicar(usuarios[p.alvo], p.muda)
        /\ UnidadeExiste(imagem[r])

Imagens == \A r \in Requisicao : imagem[r] # Nulo => ImagemValida(r)

IInv == Base /\ Pedidos /\ Imagens /\ VinculoCoerente

-----------------------------------------------------------------------------
(* What Aplicar does with each body.                                       *)

\* Each body replaces the columns it names and no other.
LEMMA AplicarColunas ==
    ASSUME NEW l \in Linha
    PROVE  /\ \A m \in [perfil: Perfil] : Aplicar(l, m) = [l EXCEPT !.perfil = m.perfil]
           /\ \A m \in [aprovado: BOOLEAN] : Aplicar(l, m) = [l EXCEPT !.aprovado = m.aprovado]
           /\ \A m \in [deleted: BOOLEAN] : Aplicar(l, m) = [l EXCEPT !.deleted = m.deleted]
           /\ \A m \in [condominio: Condominio, unidade: Unidade] :
                 Aplicar(l, m) = [l EXCEPT !.condominio = m.condominio, !.unidade = m.unidade]
           /\ \A m \in [cpf: Documento] : Aplicar(l, m) = [l EXCEPT !.cpf = m.cpf]
           /\ \A m \in [email: Email] : Aplicar(l, m) = [l EXCEPT !.email = m.email]
           /\ \A m \in [cpf: Documento, email: Email] :
                 Aplicar(l, m) = [l EXCEPT !.cpf = m.cpf, !.email = m.email]
<1> USE DEF Linha, Aplicar
<1>1. \A m \in [perfil: Perfil] : Aplicar(l, m) = [l EXCEPT !.perfil = m.perfil]
  OBVIOUS
<1>2. \A m \in [aprovado: BOOLEAN] : Aplicar(l, m) = [l EXCEPT !.aprovado = m.aprovado]
  OBVIOUS
<1>3. \A m \in [deleted: BOOLEAN] : Aplicar(l, m) = [l EXCEPT !.deleted = m.deleted]
  OBVIOUS
<1>4. \A m \in [condominio: Condominio, unidade: Unidade] :
          Aplicar(l, m) = [l EXCEPT !.condominio = m.condominio, !.unidade = m.unidade]
  OBVIOUS
<1>5. \A m \in [cpf: Documento] : Aplicar(l, m) = [l EXCEPT !.cpf = m.cpf]
  OBVIOUS
<1>6. \A m \in [email: Email] : Aplicar(l, m) = [l EXCEPT !.email = m.email]
  OBVIOUS
<1>7. \A m \in [cpf: Documento, email: Email] :
          Aplicar(l, m) = [l EXCEPT !.cpf = m.cpf, !.email = m.email]
  OBVIOUS
<1> QED BY <1>1, <1>2, <1>3, <1>4, <1>5, <1>6, <1>7

\* A change of a row keeps its type and what binds condominium, unit and profile.
LEMMA AplicarMantem ==
    ASSUME NEW l \in Linha, NEW p, MudancaValida(p), p.op \in Alteracao \cup Marcacao,
           Vinculado(l), p.op = "updateRole" => Ligado(l)
    PROVE  LET n == Aplicar(l, p.muda)
           IN  /\ n \in Linha
               /\ Vinculado(n)
               /\ Ligado(l) => Ligado(n)
               /\ p.op \in Alteracao => n.deleted = l.deleted
               /\ p.op \in Marcacao => n = [l EXCEPT !.deleted = n.deleted]
               /\ \/ n.unidade = l.unidade
                  \/ "unidade" \in DOMAIN p.muda /\ n.unidade = p.muda.unidade
<1> DEFINE n == Aplicar(l, p.muda)
<1> USE Tabelas DEF Linha, Vinculado, Ligado, Alteracao, Marcacao, Criacao
<1>1. CASE p.op = "update" /\ p.muda \in UpdateUsuarioDto
  <2>1. CASE p.muda \in [cpf: Documento]
    <3>1. n = [l EXCEPT !.cpf = p.muda.cpf]
      BY <2>1, AplicarColunas
    <3> QED BY <1>1, <2>1, <3>1
  <2>2. CASE p.muda \in [email: Email]
    <3>1. n = [l EXCEPT !.email = p.muda.email]
      BY <2>2, AplicarColunas
    <3> QED BY <1>1, <2>2, <3>1
  <2>3. CASE p.muda \in [cpf: Documento, email: Email]
    <3>1. n = [l EXCEPT !.cpf = p.muda.cpf, !.email = p.muda.email]
      BY <2>3, AplicarColunas
    <3> QED BY <1>1, <2>3, <3>1
  <2> QED BY <1>1, <2>1, <2>2, <2>3 DEF UpdateUsuarioDto
<1>2. CASE p.op \in {"aprovar", "revogar"} /\ p.muda \in [aprovado: BOOLEAN]
  <2>1. n = [l EXCEPT !.aprovado = p.muda.aprovado]
    BY <1>2, AplicarColunas
  <2> QED BY <1>2, <2>1
<1>3. CASE p.op = "updateRole" /\ p.muda \in [perfil: Perfil]
  <2>1. n = [l EXCEPT !.perfil = p.muda.perfil]
    BY <1>3, AplicarColunas
  <2> QED BY <1>3, <2>1
<1>4. CASE /\ p.op = "updateUnidade"
           /\ p.muda \in [condominio: Condominio, unidade: Unidade]
           /\ p.muda.condominio = CondominioDa[p.muda.unidade]
  <2>1. n = [l EXCEPT !.condominio = p.muda.condominio, !.unidade = p.muda.unidade]
    BY <1>4, AplicarColunas
  <2> DEFINE c == p.muda.condominio
             q == p.muda.unidade
  <2>a. c \in Condominio /\ q \in Unidade /\ c = CondominioDa[q]
    BY <1>4
  <2>b. [l EXCEPT !.condominio = c, !.unidade = q] \in Linha
    BY <2>a
  <2>c. n.condominio = c /\ n.unidade = q
    BY <2>1
  <2>2. n \in Linha /\ n.condominio # Nulo /\ n.condominio = CondominioDa[n.unidade]
    BY <2>1, <2>a, <2>b, <2>c
  <2>3. "unidade" \in DOMAIN p.muda /\ n.unidade = p.muda.unidade
    BY <1>4, <2>1
  <2>4. n.deleted = l.deleted /\ p.op \notin Marcacao
    BY <1>4, <2>1
  <2> HIDE DEF n
  <2> QED BY <2>2, <2>3, <2>4 DEF n
<1>5. CASE p.op \in Marcacao /\ p.muda \in [deleted: BOOLEAN]
  <2>1. n = [l EXCEPT !.deleted = p.muda.deleted]
    BY <1>5, AplicarColunas
  <2> QED BY <1>5, <2>1
<1> QED BY <1>1, <1>2, <1>3, <1>4, <1>5 DEF MudancaValida

-----------------------------------------------------------------------------
(* The kinds of step.                                                      *)

\* r has read what p is about, and every check has passed.
Leitura(r, p) ==
    /\ fase[r] = "nova"
    /\ p \in Pedido
    /\ PedidoValido(p)
    /\ IF p.op \in Criacao THEN p.alvo \notin emitidos ELSE usuarios[p.alvo] # Nulo
    /\ fase' = [fase EXCEPT ![r] = "lida"]
    /\ pedido' = [pedido EXCEPT ![r] = p]
    /\ emitidos' = emitidos \cup {p.alvo}
    /\ UNCHANGED <<tabelas, sessoes, imagem>>

\* r has written the row l.
Escrita(r, l) ==
    /\ fase[r] = "lida"
    /\ pedido[r].op # "hardRemove"
    /\ IF pedido[r].op \in Criacao THEN l = pedido[r].muda
       ELSE /\ usuarios[pedido[r].alvo] # Nulo
            /\ RowLivre(r, pedido[r].alvo)
            /\ l = Aplicar(usuarios[pedido[r].alvo], pedido[r].muda)
    /\ Escreve(r, l)

\* The transaction of r ends and leaves the tables as they were.
FimSemEfeito(r) ==
    /\ NoAberto(r)
    /\ \E fim \in {"confirmada", "desfeita"} : Encerrar(r, fim)
    /\ UNCHANGED tabelas

Continua(r) ==
    \/ \E l \in Linha : Escrita(r, l)
    \/ FimSemEfeito(r) \/ Confirmar(r) \/ Apagar(r)

PassoDe(r) == (\E p \in Pedido : Leitura(r, p)) \/ Continua(r)

Outro ==
    \/ \E u \in Usuario : Entrar(u)
    \/ \E r \in Requisicao, n \in Unidade : MarcarUnidade(r, n) \/ ApagarUnidade(r, n)

\* A read that passed its checks is a Leitura.
LEMMA LerEhLeitura ==
    ASSUME TypeOK, NEW r \in Requisicao, fase[r] = "nova",
           NEW op \in Operacao, NEW t, t.sub \in Usuario \cup {Nulo}, t.perfil \in Perfil \cup {Nulo},
           NEW u \in Usuario, NEW m \in Mudanca, Ler(r, op, t, u, m),
           PedidoValido([op |-> op, ator |-> t.sub, perfil |-> t.perfil, alvo |-> u, muda |-> m]),
           IF op \in Criacao THEN u \notin emitidos ELSE usuarios[u] # Nulo
    PROVE  \E p \in Pedido : Leitura(r, p)
<1> DEFINE p == [op |-> op, ator |-> t.sub, perfil |-> t.perfil, alvo |-> u, muda |-> m]
<1>1. p \in Pedido
  BY DEF Pedido
<1>2. Leitura(r, p)
  BY <1>1 DEF Leitura, Ler
<1> QED BY <1>1, <1>2

\* Every read of a handler ends up in Leitura. Whoever changes profile is no super when
\* it is read, and so has a condominium.
LEMMA LeituraDe ==
    ASSUME IInv, NEW r \in Requisicao, fase[r] = "nova",
           LerSignUp(r) \/ LerCreate(r) \/ LerUpdate(r) \/ LerAprovacao(r) \/ LerUpdateRole(r)
               \/ LerUpdateUnidade(r) \/ LerRemove(r) \/ LerRestore(r) \/ LerHardRemove(r)
    PROVE  \E p \in Pedido : Leitura(r, p)
<1> USE Tabelas DEF IInv, Base
<1>t. ASSUME NEW t \in Autenticadas
      PROVE  t.sub \in Usuario /\ t.perfil \in Perfil /\ usuarios[t.sub] # Nulo
  BY <1>t DEF Autenticadas, TypeOK, Visivel
<1>g. DeGestor \subseteq Autenticadas
  BY DEF DeGestor
<1>1. CASE LerSignUp(r)
  <2>1. PICK u \in Usuario \ emitidos, dto \in CreateUsuarioDto :
            Ler(r, "signUp", [sub |-> Nulo, perfil |-> Nulo], u,
                NovaLinha("morador", CondominioDa[dto.unidade], dto.unidade, dto.cpf, dto.email))
    BY <1>1 DEF LerSignUp
  <2> DEFINE m == NovaLinha("morador", CondominioDa[dto.unidade], dto.unidade, dto.cpf, dto.email)
             t == [sub |-> Nulo, perfil |-> Nulo]
  <2>2. dto.unidade \in Unidade /\ dto.cpf \in Documento /\ dto.email \in Email
    BY DEF CreateUsuarioDto
  <2>3. m \in Linha /\ Vinculado(m)
    BY <2>2 DEF NovaLinha, Linha, Perfil, Vinculado
  <2>4. m \in Mudanca
    BY <2>3 DEF Mudanca
  <2>5. PedidoValido([op |-> "signUp", ator |-> t.sub, perfil |-> t.perfil, alvo |-> u, muda |-> m])
    BY <2>3 DEF PedidoValido, MudancaValida, Criacao
  <2> QED BY <2>1, <2>4, <2>5, LerEhLeitura DEF Operacao, Criacao
<1>2. CASE LerCreate(r)
  <2>1. PICK t \in DeGestor, u \in Usuario \ emitidos, dto \in CreateFuncionarioDto :
            /\ VinculoPermitido(t, dto.perfil, dto.condominio, dto.unidade)
            /\ Ler(r, "create", t, u,
                   NovaLinha(dto.perfil, dto.condominio, dto.unidade, dto.cpf, dto.email))
    BY <1>2 DEF LerCreate
  <2> DEFINE m == NovaLinha(dto.perfil, dto.condominio, dto.unidade, dto.cpf, dto.email)
  <2>2. /\ dto.perfil \in Perfil /\ dto.condominio \in Condominio \cup {Nulo}
        /\ dto.unidade \in Unidade \cup {Nulo} /\ dto.cpf \in Documento /\ dto.email \in Email
    BY DEF CreateFuncionarioDto
  <2>3. m \in Linha /\ Vinculado(m)
    BY <2>1, <2>2 DEF NovaLinha, Linha, Vinculado, VinculoPermitido
  <2>4. m \in Mudanca
    BY <2>3 DEF Mudanca
  <2>5. PedidoValido([op |-> "create", ator |-> t.sub, perfil |-> t.perfil, alvo |-> u, muda |-> m])
    BY <2>3 DEF PedidoValido, MudancaValida, Criacao
  <2> QED BY <1>t, <1>g, <2>1, <2>4, <2>5, LerEhLeitura DEF Operacao, Criacao
<1>3. CASE LerUpdate(r)
  <2>1. PICK t \in Autenticadas, dto \in UpdateUsuarioDto : Ler(r, "update", t, t.sub, dto)
    BY <1>3 DEF LerUpdate
  <2>2. dto \in Mudanca
    BY DEF Mudanca, UpdateUsuarioDto
  <2>3. PedidoValido([op |-> "update", ator |-> t.sub, perfil |-> t.perfil,
                      alvo |-> t.sub, muda |-> dto])
    BY DEF PedidoValido, MudancaValida, Criacao
  <2> QED BY <1>t, <2>1, <2>2, <2>3, LerEhLeitura DEF Operacao, Criacao
<1>4. CASE LerAprovacao(r)
  <2>1. PICK t \in DeGestor, u \in Usuario, op \in {"aprovar", "revogar"} :
            Visivel(u) /\ Ler(r, op, t, u, [aprovado |-> op = "aprovar"])
    BY <1>4 DEF LerAprovacao
  <2> DEFINE m == [aprovado |-> op = "aprovar"]
  <2>2. m \in [aprovado: BOOLEAN] /\ m \in Mudanca
    BY DEF Mudanca
  <2>3. PedidoValido([op |-> op, ator |-> t.sub, perfil |-> t.perfil, alvo |-> u, muda |-> m])
    BY <2>2 DEF PedidoValido, MudancaValida, Criacao
  <2> QED BY <1>t, <1>g, <2>1, <2>2, <2>3, LerEhLeitura DEF Operacao, Criacao, Visivel
<1>5. CASE LerUpdateRole(r)
  <2>1. PICK t \in DeGestor, u \in Usuario, f \in Perfil :
            /\ Visivel(u)
            /\ Subordinado(t.perfil, usuarios[u].perfil)
            /\ Ler(r, "updateRole", t, u, [perfil |-> f])
    BY <1>5 DEF LerUpdateRole
  <2> DEFINE m == [perfil |-> f]
  <2>2. m \in [perfil: Perfil] /\ m \in Mudanca
    BY DEF Mudanca
  <2>3. Ligado(usuarios[u])
    BY <2>1 DEF VinculoCoerente, Vinculado, Ligado, Visivel, Subordinado
  <2>4. PedidoValido([op |-> "updateRole", ator |-> t.sub, perfil |-> t.perfil,
                      alvo |-> u, muda |-> m])
    BY <2>2, <2>3 DEF PedidoValido, MudancaValida, Criacao
  <2> QED BY <1>t, <1>g, <2>1, <2>2, <2>4, LerEhLeitura DEF Operacao, Criacao, Visivel
<1>6. CASE LerUpdateUnidade(r)
  <2>1. PICK t \in DeGestor, u \in Usuario, n \in Unidade :
            /\ Visivel(u)
            /\ Ler(r, "updateUnidade", t, u, [condominio |-> CondominioDa[n], unidade |-> n])
    BY <1>6 DEF LerUpdateUnidade
  <2> DEFINE m == [condominio |-> CondominioDa[n], unidade |-> n]
  <2>2. m \in [condominio: Condominio, unidade: Unidade] /\ m \in Mudanca
    BY DEF Mudanca
  <2>3. PedidoValido([op |-> "updateUnidade", ator |-> t.sub, perfil |-> t.perfil,
                      alvo |-> u, muda |-> m])
    BY <2>2 DEF PedidoValido, MudancaValida, Criacao
  <2> QED BY <1>t, <1>g, <2>1, <2>2, <2>3, LerEhLeitura DEF Operacao, Criacao, Visivel
<1>7. CASE LerRemove(r)
  <2>1. PICK t \in Autenticadas, u \in Usuario :
            Visivel(u) /\ Ler(r, "remove", t, u, [deleted |-> TRUE])
    BY <1>7 DEF LerRemove
  <2>2. [deleted |-> TRUE] \in [deleted: BOOLEAN] /\ [deleted |-> TRUE] \in Mudanca
    BY DEF Mudanca
  <2>3. PedidoValido([op |-> "remove", ator |-> t.sub, perfil |-> t.perfil, alvo |-> u,
                      muda |-> [deleted |-> TRUE]])
    BY <2>2 DEF PedidoValido, MudancaValida, Criacao, Marcacao
  <2> QED BY <1>t, <2>1, <2>2, <2>3, LerEhLeitura DEF Operacao, Criacao, Visivel
<1>8. CASE LerRestore(r)
  <2>1. PICK t \in DeGestor, u \in Usuario :
            usuarios[u] # Nulo /\ Ler(r, "restore", t, u, [deleted |-> FALSE])
    BY <1>8 DEF LerRestore
  <2>2. [deleted |-> FALSE] \in [deleted: BOOLEAN] /\ [deleted |-> FALSE] \in Mudanca
    BY DEF Mudanca
  <2>3. PedidoValido([op |-> "restore", ator |-> t.sub, perfil |-> t.perfil, alvo |-> u,
                      muda |-> [deleted |-> FALSE]])
    BY <2>2 DEF PedidoValido, MudancaValida, Criacao, Marcacao
  <2> QED BY <1>t, <1>g, <2>1, <2>2, <2>3, LerEhLeitura DEF Operacao, Criacao
<1>9. CASE LerHardRemove(r)
  <2>1. PICK t \in DeGestor, u \in Usuario :
            usuarios[u] # Nulo /\ Ler(r, "hardRemove", t, u, [deleted |-> TRUE])
    BY <1>9 DEF LerHardRemove
  <2>2. [deleted |-> TRUE] \in Mudanca
    BY DEF Mudanca
  <2>3. PedidoValido([op |-> "hardRemove", ator |-> t.sub, perfil |-> t.perfil, alvo |-> u,
                      muda |-> [deleted |-> TRUE]])
    BY DEF PedidoValido, MudancaValida
  <2> QED BY <1>t, <1>g, <2>1, <2>2, <2>3, LerEhLeitura DEF Operacao, Criacao
<1> QED BY <1>1, <1>2, <1>3, <1>4, <1>5, <1>6, <1>7, <1>8, <1>9

\* The row that a request in "lida" may write is a row, and in order.
LEMMA LinhaEscrita ==
    ASSUME IInv, NEW r \in Requisicao, fase[r] = "lida",
           pedido[r].op \in Alteracao \cup Marcacao, usuarios[pedido[r].alvo] # Nulo
    PROVE  LET l == usuarios[pedido[r].alvo]
           IN  /\ l \in Linha /\ Vinculado(l)
               /\ pedido[r] \in Pedido /\ PedidoValido(pedido[r])
               /\ Aplicar(l, pedido[r].muda) \in Linha
               /\ Vinculado(Aplicar(l, pedido[r].muda))
<1> DEFINE p == pedido[r]
           l == usuarios[p.alvo]
<1>1. p \in Pedido /\ PedidoValido(p)
  BY DEF IInv, Base, TypeOK, Fases, NoAberto, Pedidos
<1>2. l \in Linha /\ Vinculado(l)
  BY <1>1 DEF IInv, Base, TypeOK, VinculoCoerente, Pedido
<1>3. MudancaValida(p) /\ (p.op = "updateRole" => Ligado(l))
  BY <1>1 DEF PedidoValido
<1> QED BY <1>1, <1>2, <1>3, AplicarMantem

\* What follows a read is a write, an end without effect, a commit or a hard removal.
LEMMA Prosseguimento ==
    ASSUME IInv, NEW r \in Requisicao, Prossegue(r)
    PROVE  Continua(r)
<1>1. CASE Inserir(r)
  <2>1. pedido[r] \in Pedido /\ PedidoValido(pedido[r])
    BY <1>1 DEF IInv, Base, TypeOK, Fases, NoAberto, Pedidos, Inserir
  <2>2. pedido[r].muda \in Linha
    BY <1>1, <2>1 DEF Inserir, PedidoValido, MudancaValida, Criacao, Marcacao
  <2>3. Escrita(r, pedido[r].muda)
    BY <1>1 DEF Escrita, Inserir, Criacao
  <2> QED BY <2>2, <2>3 DEF Continua
<1>2. CASE Gravar(r)
  <2>1. Aplicar(usuarios[pedido[r].alvo], pedido[r].muda) \in Linha
    BY <1>2, LinhaEscrita DEF Gravar
  <2>2. Escrita(r, Aplicar(usuarios[pedido[r].alvo], pedido[r].muda))
    BY <1>2 DEF Escrita, Gravar, Criacao, Alteracao, Marcacao
  <2> QED BY <2>1, <2>2 DEF Continua
<1>3. CASE ViolarChave(r) \/ GravarSemLinha(r) \/ FalharReleitura(r) \/ Abortar(r)
  BY <1>3 DEF ViolarChave, GravarSemLinha, FalharReleitura, Abortar, Desfazer, NoAberto,
              FimSemEfeito, Continua
<1> QED BY <1>1, <1>2, <1>3 DEF Prossegue, Continua

\* Every step of the system is of one of the kinds.
LEMMA Passos ==
    ASSUME IInv, [Next]_vars
    PROVE  (\E r \in Requisicao : PassoDe(r)) \/ Outro \/ UNCHANGED vars
<1>1. ASSUME NEW r \in Requisicao, Comeca(r) PROVE PassoDe(r)
  <2>1. fase[r] = "nova"
    BY <1>1 DEF Comeca, Vaga
  <2> QED BY <1>1, <2>1, LeituraDe DEF Comeca, PassoDe
<1>2. ASSUME NEW r \in Requisicao, Prossegue(r) PROVE PassoDe(r)
  BY <1>2, Prosseguimento DEF PassoDe
<1> QED BY <1>1, <1>2 DEF Next, Outro, Ocioso

-----------------------------------------------------------------------------
(* The invariant is inductive.                                             *)

\* The seed and no open request satisfy it.
LEMMA InvInit == Init => IInv
<1> SUFFICES ASSUME Init PROVE IInv
  OBVIOUS
<1> USE Tabelas, SementeCoerente DEF Init
<1>1. TypeOK
  BY DEF TypeOK
<1>2. Fases /\ Trancas /\ Emissao /\ Criacoes
  BY DEF Fases, NoAberto, Trancas, Emissao, Criacoes
<1>3. Pedidos /\ Imagens
  BY DEF Pedidos, Imagens
<1>4. VinculoCoerente
  BY DEF VinculoCoerente, Linha
<1> QED BY <1>1, <1>2, <1>3, <1>4 DEF IInv, Base

\* Opening a request changes no row.
LEMMA PreservaLeitura ==
    ASSUME IInv, NEW r \in Requisicao, NEW p \in Pedido, Leitura(r, p)
    PROVE  IInv'
<1> USE Tabelas DEF IInv, Base, Leitura, tabelas
<1>p. p.alvo \in Usuario /\ p # Nulo
  BY DEF Pedido
<1>n. imagem[r] = Nulo /\ pedido[r] = Nulo
  BY DEF Fases, NoAberto, TypeOK
<1>o. /\ fase'[r] = "lida" /\ pedido'[r] = p
      /\ \A s \in Requisicao : s # r => fase'[s] = fase[s] /\ pedido'[s] = pedido[s]
  BY DEF TypeOK
<1>1. TypeOK'
  BY <1>p DEF TypeOK
<1>2. Fases'
  BY <1>p, <1>n, <1>o DEF Fases, NoAberto
<1>3. Trancas'
  BY <1>n, <1>o DEF Trancas
<1>4. Emissao'
  BY <1>o DEF Emissao
<1>5. Criacoes'
  BY <1>p, <1>o DEF Criacoes, Emissao
<1>6. Pedidos'
  BY <1>o DEF Pedidos, PedidoValido
<1>7. Imagens'
  BY <1>n, <1>o DEF Imagens, ImagemValida, UnidadeExiste
<1>8. VinculoCoerente'
  BY DEF VinculoCoerente
<1> QED BY <1>1, <1>2, <1>3, <1>4, <1>5, <1>6, <1>7, <1>8

\* A write: the unit it names exists, the one it keeps does because the row has it.
LEMMA PreservaEscrita ==
    ASSUME IInv, NEW r \in Requisicao, NEW l \in Linha, Escrita(r, l)
    PROVE  IInv'
<1> USE Tabelas DEF IInv, Base, Escrita, Escreve, tabelas
<1>p. pedido[r] \in Pedido /\ pedido[r] # Nulo /\ PedidoValido(pedido[r]) /\ l # Nulo
  BY DEF TypeOK, Fases, NoAberto, Pedidos, Linha
<1>o. /\ fase'[r] = "gravada" /\ imagem'[r] = l
      /\ \A s \in Requisicao : s # r => fase'[s] = fase[s] /\ imagem'[s] = imagem[s]
      /\ usuarios' = usuarios /\ unidades' = unidades /\ pedido' = pedido /\ emitidos' = emitidos
  BY DEF TypeOK
<1>1. TypeOK'
  BY DEF TypeOK
<1>2. Fases'
  BY <1>p, <1>o DEF Fases, NoAberto
<1>3. Trancas'
  <2>1. \A s \in Requisicao \ {r} : imagem[s] # Nulo => pedido[s].alvo # pedido[r].alvo
    BY <1>p DEF RowLivre, Criacoes, Fases, NoAberto
  <2> QED BY <1>o, <2>1 DEF Trancas
<1>4. Emissao' /\ Criacoes' /\ Pedidos' /\ VinculoCoerente'
  BY <1>o DEF Emissao, Criacoes, Pedidos, PedidoValido, VinculoCoerente
<1>5. UnidadeExiste(l)
  <2>1. CASE pedido[r].op \in Criacao
    <3>1. "unidade" \in DOMAIN l
      BY DEF Linha
    <3> QED BY <2>1, <3>1 DEF ChavesValidas, UnidadeExiste
  <2>2. CASE pedido[r].op \notin Criacao
    <3> DEFINE c == usuarios[pedido[r].alvo]
               m == pedido[r].muda
    <3>1. /\ c \in Linha /\ Vinculado(c) /\ MudancaValida(pedido[r])
          /\ pedido[r].op = "updateRole" => Ligado(c)
          /\ c.unidade # Nulo => unidades[c.unidade] # "apagada"
      BY <1>p, <2>2 DEF TypeOK, Pedido, PedidoValido, VinculoCoerente
    <3>2. pedido[r].op \in Alteracao \cup Marcacao
      BY <1>p, <2>2, <3>1 DEF MudancaValida, Alteracao, Marcacao
    <3>3. LET n == Aplicar(c, m)
          IN  n.unidade = c.unidade \/ ("unidade" \in DOMAIN m /\ n.unidade = m.unidade)
      BY ONLY <3>1, <3>2, AplicarMantem
    <3> QED BY <2>2, <3>1, <3>3 DEF ChavesValidas, UnidadeExiste
  <2> QED BY <2>1, <2>2
<1>6. Imagens'
  <2>1. ImagemValida(r)'
    BY <1>o, <1>5 DEF ImagemValida, UnidadeExiste
  <2>2. ASSUME NEW s \in Requisicao, s # r, imagem'[s] # Nulo PROVE ImagemValida(s)'
    BY <1>o, <2>2 DEF Imagens, ImagemValida, UnidadeExiste
  <2> QED BY <2>1, <2>2 DEF Imagens
<1> QED BY <1>1, <1>2, <1>3, <1>4, <1>6

\* A request that ends takes nothing from the others.
LEMMA PreservaFim ==
    ASSUME IInv, NEW r \in Requisicao, FimSemEfeito(r)
    PROVE  IInv'
<1> USE Tabelas DEF IInv, Base, FimSemEfeito, Encerrar, tabelas
<1>o. /\ fase'[r] \in {"confirmada", "desfeita"} /\ imagem'[r] = Nulo /\ pedido'[r] = Nulo
      /\ \A s \in Requisicao : s # r =>
            fase'[s] = fase[s] /\ imagem'[s] = imagem[s] /\ pedido'[s] = pedido[s]
      /\ usuarios' = usuarios /\ unidades' = unidades /\ emitidos' = emitidos
  BY DEF TypeOK
<1>1. TypeOK'
  BY DEF TypeOK
<1>2. Fases'
  BY <1>o DEF Fases, NoAberto
<1>3. Trancas' /\ Emissao' /\ Criacoes'
  BY <1>o DEF Trancas, Emissao, Criacoes
<1>4. Pedidos' /\ VinculoCoerente'
  BY <1>o DEF Pedidos, PedidoValido, VinculoCoerente
<1>5. Imagens'
  BY <1>o DEF Imagens, ImagemValida, UnidadeExiste
<1> QED BY <1>1, <1>2, <1>3, <1>4, <1>5

\* What the commit of r makes of the table.
LEMMA LinhaConfirmada ==
    ASSUME IInv, NEW r \in Requisicao, Confirmar(r)
    PROVE  LET p == pedido[r]
               u == pedido[r].alvo
               l == imagem[r]
           IN  /\ p \in Pedido /\ u \in Usuario /\ PedidoValido(p) /\ ImagemValida(r)
               /\ l \in Linha /\ l # Nulo /\ Vinculado(l)
               /\ p.op \notin Criacao =>
                     /\ p.op \in Alteracao \cup Marcacao
                     /\ usuarios[u] \in Linha
                     /\ Ligado(usuarios[u]) => Ligado(l)
               /\ usuarios'[u] = l
               /\ \A v \in Usuario : v # u => usuarios'[v] = usuarios[v]
               /\ fase'[r] = "confirmada" /\ imagem'[r] = Nulo /\ pedido'[r] = Nulo
               /\ \A s \in Requisicao : s # r =>
                     fase'[s] = fase[s] /\ imagem'[s] = imagem[s] /\ pedido'[s] = pedido[s]
               /\ unidades' = unidades /\ emitidos' = emitidos /\ sessoes' = sessoes
<1> USE Tabelas DEF IInv, Base, Confirmar, Encerrar
<1> DEFINE p == pedido[r]
           u == pedido[r].alvo
           l == imagem[r]
<1>1. l # Nulo /\ p # Nulo
  BY DEF Fases, NoAberto
<1>2. l \in Linha /\ p \in Pedido /\ PedidoValido(p) /\ ImagemValida(r)
  BY <1>1 DEF TypeOK, Pedidos, Imagens
<1>3. u \in Usuario
  BY <1>2 DEF Pedido
<1>4. p.op \in Criacao => Vinculado(l)
  BY <1>2 DEF ImagemValida, PedidoValido, MudancaValida, Criacao, Alteracao, Marcacao
<1>5. ASSUME p.op \notin Criacao
      PROVE  /\ p.op \in Alteracao \cup Marcacao
             /\ usuarios[u] \in Linha
             /\ Vinculado(l)
             /\ Ligado(usuarios[u]) => Ligado(l)
  <2>1. p.op \in Alteracao \cup Marcacao
    BY <1>2, <1>5 DEF ImagemValida, PedidoValido, MudancaValida, Alteracao, Marcacao
  <2>2. usuarios[u] \in Linha /\ Vinculado(usuarios[u]) /\ l = Aplicar(usuarios[u], p.muda)
    BY <1>2, <1>3, <1>5 DEF ImagemValida, TypeOK, VinculoCoerente
  <2>3. MudancaValida(p) /\ (p.op = "updateRole" => Ligado(usuarios[u]))
    BY <1>2, <2>2 DEF PedidoValido, Linha
  <2>4. LET n == Aplicar(usuarios[u], p.muda)
        IN  Vinculado(n) /\ (Ligado(usuarios[u]) => Ligado(n))
    BY ONLY AplicarMantem, <2>1, <2>2, <2>3
  <2> QED BY <2>1, <2>2, <2>4
<1>6. /\ usuarios'[u] = l
      /\ \A v \in Usuario : v # u => usuarios'[v] = usuarios[v]
      /\ fase'[r] = "confirmada" /\ imagem'[r] = Nulo /\ pedido'[r] = Nulo
      /\ \A s \in Requisicao : s # r =>
            fase'[s] = fase[s] /\ imagem'[s] = imagem[s] /\ pedido'[s] = pedido[s]
      /\ unidades' = unidades /\ emitidos' = emitidos /\ sessoes' = sessoes
  BY <1>3 DEF TypeOK
<1> QED BY <1>1, <1>2, <1>3, <1>4, <1>5, <1>6

\* A commit: the row was in order when it was written and nobody has touched it.
LEMMA PreservaConfirmar ==
    ASSUME IInv, NEW r \in Requisicao, Confirmar(r)
    PROVE  IInv'
<1> DEFINE p == pedido[r]
           u == pedido[r].alvo
           l == imagem[r]
<1>c. /\ p \in Pedido /\ u \in Usuario /\ PedidoValido(p) /\ ImagemValida(r)
      /\ l \in Linha /\ l # Nulo /\ Vinculado(l)
      /\ p.op \notin Criacao =>
            usuarios[u] \in Linha /\ (Ligado(usuarios[u]) => Ligado(l))
      /\ usuarios'[u] = l
      /\ \A v \in Usuario : v # u => usuarios'[v] = usuarios[v]
      /\ fase'[r] = "confirmada" /\ imagem'[r] = Nulo /\ pedido'[r] = Nulo
      /\ \A s \in Requisicao : s # r =>
            fase'[s] = fase[s] /\ imagem'[s] = imagem[s] /\ pedido'[s] = pedido[s]
      /\ unidades' = unidades /\ emitidos' = emitidos
  BY LinhaConfirmada
<1>b. Base /\ Pedidos /\ Imagens /\ VinculoCoerente /\ p # Nulo
  BY <1>c, Tabelas DEF IInv
<1>1. TypeOK'
  BY <1>b, <1>c DEF Base, TypeOK, Confirmar, Encerrar
<1>2. Fases'
  BY <1>b, <1>c DEF Base, Fases, NoAberto
<1>3. Trancas' /\ Emissao'
  BY <1>b, <1>c DEF Base, Trancas, Emissao
<1>4. Criacoes'
  BY <1>b, <1>c DEF Base, Criacoes, TypeOK, Pedido
<1>5. ASSUME NEW s \in Requisicao, pedido'[s] # Nulo PROVE PedidoValido(pedido[s])'
  <2>1. s # r /\ pedido'[s] = pedido[s] /\ PedidoValido(pedido[s]) /\ pedido[s] \in Pedido
    BY <1>b, <1>c, <1>5 DEF Pedidos, Base, TypeOK
  <2>2. ASSUME pedido[s].op = "updateRole", usuarios'[pedido[s].alvo] # Nulo
        PROVE  Ligado(usuarios'[pedido[s].alvo])
    <3>1. CASE pedido[s].alvo # u
      BY <1>c, <2>1, <2>2, <3>1 DEF PedidoValido, Pedido
    <3>2. CASE pedido[s].alvo = u
      <4>1. p.op \notin Criacao
        <5> SUFFICES ASSUME p.op \in Criacao PROVE FALSE
          OBVIOUS
        <5>1. pedido[s] # Nulo
          BY <1>5, <2>1
        <5>2. \A q \in Requisicao \ {r} : pedido[q] # Nulo => pedido[q].alvo # p.alvo
          BY <1>b DEF Base, Criacoes
        <5> QED BY <2>1, <3>2, <5>1, <5>2
      <4>2. usuarios[u] # Nulo
        BY <1>c, <4>1, Tabelas
      <4> QED BY <1>c, <2>1, <2>2, <3>2, <4>1, <4>2 DEF PedidoValido
    <3> QED BY <3>1, <3>2
  <2> QED BY <2>1, <2>2 DEF PedidoValido
<1>6. ASSUME NEW s \in Requisicao, imagem'[s] # Nulo PROVE ImagemValida(s)'
  <2>1. /\ s # r /\ imagem'[s] = imagem[s] /\ pedido'[s] = pedido[s] /\ ImagemValida(s)
        /\ pedido[s] \in Pedido
    BY <1>b, <1>c, <1>6 DEF Imagens, Base, TypeOK, Fases, NoAberto
  <2>2. pedido[s].alvo # u
    BY <1>b, <1>c, <2>1, <1>6 DEF Base, Trancas
  <2>3. usuarios'[pedido[s].alvo] = usuarios[pedido[s].alvo]
    BY <1>c, <2>1, <2>2 DEF Pedido
  <2> QED BY <1>c, <2>1, <2>3 DEF ImagemValida, UnidadeExiste
<1>7. VinculoCoerente'
  BY <1>b, <1>c DEF VinculoCoerente, ImagemValida, UnidadeExiste
<1> QED BY <1>1, <1>2, <1>3, <1>4, <1>5, <1>6, <1>7 DEF IInv, Base, Pedidos, Imagens

\* A hard removal: nobody holds the row, and who had read it will find none.
LEMMA PreservaApagar ==
    ASSUME IInv, NEW r \in Requisicao, Apagar(r)
    PROVE  IInv'
<1> DEFINE p == pedido[r]
           u == pedido[r].alvo
<1>b. Base /\ Pedidos /\ Imagens /\ VinculoCoerente
  BY DEF IInv
<1>c. /\ p \in Pedido /\ p # Nulo /\ u \in Usuario /\ imagem[r] = Nulo
      /\ usuarios'[u] = Nulo
      /\ \A v \in Usuario : v # u => usuarios'[v] = usuarios[v]
      /\ fase'[r] = "confirmada" /\ imagem'[r] = Nulo /\ pedido'[r] = Nulo
      /\ \A s \in Requisicao : s # r =>
            fase'[s] = fase[s] /\ imagem'[s] = imagem[s] /\ pedido'[s] = pedido[s]
      /\ unidades' = unidades /\ emitidos' = emitidos
      /\ \A s \in Requisicao : imagem[s] # Nulo => pedido[s].alvo # u
  <2>1. p \in Pedido /\ p # Nulo /\ u \in Usuario /\ imagem[r] = Nulo
    BY <1>b DEF Base, TypeOK, Fases, NoAberto, Apagar, Pedido
  <2> QED BY <1>b, <2>1 DEF Base, TypeOK, Apagar, Encerrar, RowLivre
<1>1. TypeOK'
  BY <1>b, <1>c DEF Base, TypeOK, Apagar, Encerrar
<1>2. Fases'
  BY <1>b, <1>c DEF Base, Fases, NoAberto
<1>3. Trancas' /\ Emissao'
  BY <1>b, <1>c DEF Base, Trancas, Emissao
<1>4. Criacoes'
  BY <1>b, <1>c DEF Base, Criacoes, TypeOK, Pedido
<1>5. ASSUME NEW s \in Requisicao, pedido'[s] # Nulo PROVE PedidoValido(pedido[s])'
  <2>1. s # r /\ pedido'[s] = pedido[s] /\ PedidoValido(pedido[s]) /\ pedido[s] \in Pedido
    BY <1>b, <1>c, <1>5 DEF Pedidos, Base, TypeOK
  <2> QED BY <1>c, <2>1 DEF PedidoValido, Pedido
<1>6. ASSUME NEW s \in Requisicao, imagem'[s] # Nulo PROVE ImagemValida(s)'
  <2>1. /\ s # r /\ imagem'[s] = imagem[s] /\ pedido'[s] = pedido[s] /\ ImagemValida(s)
        /\ pedido[s] \in Pedido
    BY <1>b, <1>c, <1>6 DEF Imagens, Base, TypeOK, Fases, NoAberto
  <2>2. usuarios'[pedido[s].alvo] = usuarios[pedido[s].alvo]
    BY <1>c, <1>6, <2>1 DEF Pedido
  <2> QED BY <1>c, <2>1, <2>2 DEF ImagemValida, UnidadeExiste
<1>7. VinculoCoerente'
  BY <1>b, <1>c DEF VinculoCoerente
<1> QED BY <1>1, <1>2, <1>3, <1>4, <1>5, <1>6, <1>7 DEF IInv, Base, Pedidos, Imagens

\* A unit is marked, or deleted and taken from its users; a row that is being written is
\* not among them, because the deletion waits for it.
LEMMA PreservaUnidade ==
    ASSUME IInv, NEW r \in Requisicao, NEW n \in Unidade, MarcarUnidade(r, n) \/ ApagarUnidade(r, n)
    PROVE  IInv'
<1>b. Base /\ Pedidos /\ Imagens /\ VinculoCoerente
  BY DEF IInv
<1>f. /\ fase[r] = "nova" /\ fase' = [fase EXCEPT ![r] = "confirmada"]
      /\ pedido' = pedido /\ imagem' = imagem /\ emitidos' = emitidos /\ sessoes' = sessoes
      /\ unidades[n] # "apagada"
  BY DEF MarcarUnidade, ApagarUnidade, SobreUnidade, Vaga
<1>1. CASE MarcarUnidade(r, n)
  <2>1. /\ usuarios' = usuarios
        /\ unidades' \in [Unidade -> {"ativa", "removida", "apagada"}]
        /\ \A q \in Unidade : unidades[q] # "apagada" => unidades'[q] # "apagada"
    BY <1>1, <1>b DEF MarcarUnidade, Base, TypeOK
  <2>2. Base'
    BY <1>b, <1>f, <2>1 DEF Base, TypeOK, Fases, NoAberto, Trancas, Emissao, Criacoes
  <2>3. Pedidos'
    BY <1>b, <1>f, <2>1 DEF Pedidos, PedidoValido
  <2>4. Imagens'
    BY <1>b, <1>f, <2>1 DEF Imagens, ImagemValida, UnidadeExiste, Base, TypeOK, Linha
  <2>5. VinculoCoerente'
    BY <1>b, <2>1 DEF VinculoCoerente, Base, TypeOK, Linha
  <2> QED BY <2>2, <2>3, <2>4, <2>5 DEF IInv
<1>2. CASE ApagarUnidade(r, n)
  <2>1. /\ unidades' = [unidades EXCEPT ![n] = "apagada"]
        /\ \A u \in Usuario : usuarios'[u] =
              IF usuarios[u] # Nulo /\ usuarios[u].unidade = n
              THEN [usuarios[u] EXCEPT !.unidade = Nulo] ELSE usuarios[u]
        /\ \A s \in Requisicao : imagem[s] # Nulo =>
              /\ imagem[s].unidade # n
              /\ usuarios[pedido[s].alvo] # Nulo => usuarios[pedido[s].alvo].unidade # n
    BY <1>2 DEF ApagarUnidade
  <2>2. usuarios' \in [Usuario -> Linha \cup {Nulo}]
    BY <1>2, <1>b DEF ApagarUnidade, Base, TypeOK, Linha
  <2>3. ASSUME NEW u \in Usuario
        PROVE  /\ usuarios'[u] = Nulo <=> usuarios[u] = Nulo
               /\ usuarios[u] # Nulo =>
                     /\ usuarios'[u].perfil = usuarios[u].perfil
                     /\ usuarios'[u].condominio = usuarios[u].condominio
                     /\ usuarios'[u].unidade \in {usuarios[u].unidade, Nulo} \ {n}
    <3>1. usuarios[u] \in Linha \cup {Nulo} /\ n # Nulo
      BY <1>b, Tabelas DEF Base, TypeOK
    <3>2. CASE usuarios[u] # Nulo /\ usuarios[u].unidade = n
      <4>1. usuarios'[u] = [usuarios[u] EXCEPT !.unidade = Nulo]
        BY <2>1, <3>2
      <4>2. [usuarios[u] EXCEPT !.unidade = Nulo] \in Linha
        BY <3>1, <3>2 DEF Linha
      <4>3. usuarios'[u].unidade = Nulo
        BY <3>1, <3>2, <4>1 DEF Linha
      <4> QED BY <3>1, <3>2, <4>1, <4>2, <4>3, Tabelas DEF Linha
    <3>3. CASE ~(usuarios[u] # Nulo /\ usuarios[u].unidade = n)
      <4>1. usuarios'[u] = usuarios[u]
        BY <2>1, <3>3
      <4> QED BY <3>3, <4>1
    <3> QED BY <3>2, <3>3
  <2>4. Base'
    BY <1>b, <1>f, <2>1, <2>2, <2>3 DEF Base, TypeOK, Fases, NoAberto, Trancas, Emissao, Criacoes, Pedido
  <2>5. Pedidos'
    BY <1>b, <1>f, <2>3 DEF Pedidos, PedidoValido, Ligado, Base, TypeOK, Pedido
  <2>6. ASSUME NEW s \in Requisicao, imagem[s] # Nulo PROVE ImagemValida(s)'
    <3>1. ImagemValida(s) /\ pedido[s].alvo \in Usuario /\ imagem[s] \in Linha
      BY <1>b, <2>6 DEF Imagens, Base, TypeOK, Fases, NoAberto, Pedido
    <3>2. usuarios'[pedido[s].alvo] = usuarios[pedido[s].alvo]
      BY <2>1, <2>6, <3>1
    <3>3. UnidadeExiste(imagem[s])'
      BY <1>b, <1>f, <2>1, <2>6, <3>1 DEF ImagemValida, UnidadeExiste, Base, TypeOK
    <3> QED BY <1>f, <3>1, <3>2, <3>3 DEF ImagemValida
  <2>7. VinculoCoerente'
    BY <1>b, <2>1, <2>3 DEF VinculoCoerente, Vinculado, Base, TypeOK
  <2> QED BY <1>f, <2>4, <2>5, <2>6, <2>7 DEF IInv, Imagens
<1> QED BY <1>1, <1>2

\* No step of any kind breaks the invariant.
LEMMA Preserva ==
    ASSUME IInv, [Next]_vars
    PROVE  IInv'
<1>1. ASSUME NEW u \in Usuario, Entrar(u) PROVE IInv'
  BY <1>1 DEF Entrar, IInv, Base, TypeOK, Fases, NoAberto, Trancas, Emissao, Criacoes, tabelas,
              Pedidos, PedidoValido, Imagens, ImagemValida, UnidadeExiste, VinculoCoerente,
              Visivel, Linha
<1>2. ASSUME UNCHANGED vars PROVE IInv'
  BY <1>2 DEF vars, IInv, Base, TypeOK, Fases, NoAberto, Trancas, Emissao, Criacoes,
              Pedidos, PedidoValido, Imagens, ImagemValida, UnidadeExiste, VinculoCoerente
<1> QED BY <1>1, <1>2, Passos, PreservaLeitura, PreservaEscrita, PreservaFim, PreservaConfirmar,
           PreservaApagar, PreservaUnidade DEF PassoDe, Continua, Outro

-----------------------------------------------------------------------------
(* Theorems.                                                               *)

\* The invariant holds in every reachable state.
THEOREM Indutivo == Spec => []IInv
<1>1. Init => IInv
  BY InvInit
<1>2. IInv /\ [Next]_vars => IInv'
  BY Preserva
<1> QED BY <1>1, <1>2, PTL DEF Spec

\* Every variable keeps its type.
THEOREM Tipos == Spec => []TypeOK
<1>1. IInv => TypeOK
  BY DEF IInv, Base
<1> QED BY <1>1, Indutivo, PTL

\* Every account but a super's has a condominium and a unit of it that exists, whatever
\* registrations, changes of profile and of unit and removals of units overlap.
THEOREM VinculosCoerentes == Spec => []VinculoCoerente
<1>1. IInv => VinculoCoerente
  BY DEF IInv
<1> QED BY <1>1, Indutivo, PTL

\* A removed account is not changed but by its restoration. A handler that had read it
\* before may still write its row, but the row it reads back is missing and it is undone.
THEOREM RemovidoIntocado == Spec => RemovidoNaoMuda
<1> DEFINE A == \A u \in Usuario :
                   (usuarios[u] # Nulo /\ usuarios'[u] # Nulo /\ usuarios[u].deleted) =>
                       \A c \in DOMAIN usuarios[u] \ {"deleted", "unidade"} :
                           usuarios'[u][c] = usuarios[u][c]
<1>1. ASSUME IInv, [Next]_vars PROVE A
  <2> SUFFICES ASSUME NEW u \in Usuario,
                      usuarios[u] # Nulo, usuarios'[u] # Nulo, usuarios[u].deleted,
                      NEW c \in DOMAIN usuarios[u] \ {"deleted", "unidade"}
               PROVE  usuarios'[u][c] = usuarios[u][c]
    BY DEF A
  <2>1. ASSUME NEW r \in Requisicao, Confirmar(r) PROVE usuarios'[u][c] = usuarios[u][c]
    <3> DEFINE p == pedido[r]
               l == imagem[r]
    <3>1. /\ p \in Pedido /\ PedidoValido(p) /\ ImagemValida(r)
          /\ p.op \notin Criacao => p.op \in Alteracao \cup Marcacao
          /\ usuarios'[p.alvo] = l
          /\ \A v \in Usuario : v # p.alvo => usuarios'[v] = usuarios[v]
      BY <1>1, <2>1, LinhaConfirmada
    <3>2. CASE u = p.alvo
      <4>1. p.op \notin Criacao
        BY <1>1, <2>1, <3>2, Tabelas DEF IInv, Base, Criacoes, Fases, NoAberto, Confirmar
      <4>2. p.op \in Alteracao \cup Marcacao /\ l = Aplicar(usuarios[u], p.muda)
        BY <3>1, <3>2, <4>1 DEF ImagemValida
      <4>3. /\ usuarios[u] \in Linha /\ Vinculado(usuarios[u]) /\ MudancaValida(p)
            /\ p.op = "updateRole" => Ligado(usuarios[u])
        BY <1>1, <3>1, <3>2 DEF IInv, Base, TypeOK, VinculoCoerente, PedidoValido
      <4>4. LET n == Aplicar(usuarios[u], p.muda)
            IN  /\ p.op \in Alteracao => n.deleted = usuarios[u].deleted
                /\ p.op \in Marcacao => n = [usuarios[u] EXCEPT !.deleted = n.deleted]
        BY ONLY AplicarMantem, <4>2, <4>3
      <4>5. p.op \in Marcacao
        BY <2>1, <4>2, <4>4 DEF Confirmar, Releitura
      <4>6. l = [usuarios[u] EXCEPT !.deleted = l.deleted]
        BY <4>2, <4>4, <4>5
      <4> QED BY <3>1, <3>2, <4>6
    <3>3. CASE u # p.alvo
      BY <3>1, <3>3
    <3> QED BY <3>2, <3>3
  <2>2. ASSUME NEW r \in Requisicao, Apagar(r) PROVE usuarios'[u] = usuarios[u]
    BY <1>1, <2>2 DEF Apagar, IInv, Base, TypeOK
  <2>3. ASSUME NEW r \in Requisicao, NEW n \in Unidade, ApagarUnidade(r, n)
        PROVE  usuarios'[u][c] = usuarios[u][c]
    BY <2>3 DEF ApagarUnidade
  <2>4. ASSUME UNCHANGED usuarios PROVE usuarios'[u][c] = usuarios[u][c]
    BY <2>4
  <2> QED BY <1>1, <2>1, <2>2, <2>3, <2>4, Passos
          DEF PassoDe, Continua, Outro, Leitura, Escrita, Escreve, FimSemEfeito, Entrar, MarcarUnidade,
              tabelas, vars
<1> QED BY <1>1, Indutivo, PTL DEF Spec, RemovidoNaoMuda

-----------------------------------------------------------------------------
(* Requests that do not overlap. With one open request at a time and       *)
(* nothing restored, what a handler has checked is still so when it        *)
(* writes: the cpf is free, and the target is below the caller and, for an *)
(* admin, in the same condominium.                                         *)

\* The accounts of the seed that are not removed share no cpf.
SementeSemRepeticao ==
    \A u, v \in Usuario :
        /\ u # v
        /\ Semente[u] # Nulo /\ ~Semente[u].deleted
        /\ Semente[v] # Nulo /\ ~Semente[v].deleted
        => Semente[u].cpf # Semente[v].cpf

Sozinha == \A r, s \in Requisicao : NoAberto(r) /\ NoAberto(s) => r = s

CpfLivre(p) ==
    /\ p.op \in Criacao => Livre("cpf", p.muda.cpf, Usuario)
    /\ p.op = "update" /\ "cpf" \in DOMAIN p.muda =>
          Livre("cpf", p.muda.cpf, {v \in Usuario \ {p.alvo} : Visivel(v)})

\* Caller and target of a change of somebody else's account, as they were compared.
AlvoPermitido(p) ==
    p.op \notin Criacao \cup {"hardRemove"} /\ p.ator # p.alvo =>
        /\ usuarios[p.alvo] # Nulo
        /\ Subordinado(p.perfil, usuarios[p.alvo].perfil)
        /\ p.perfil = "admin" =>
              /\ usuarios[p.ator] # Nulo
              /\ usuarios[p.ator].condominio = usuarios[p.alvo].condominio

PedidoJusto(p) ==
    /\ p.op \in Operacoes
    /\ p.op = "remove" => p.muda = [deleted |-> TRUE]
    /\ CpfLivre(p)
    /\ AlvoPermitido(p)

Justos == \A r \in Requisicao : pedido[r] # Nulo => PedidoJusto(pedido[r])

SInv == IInv /\ Sozinha /\ Justos /\ CpfUnico

\* A request begins only when no other is open.
LEMMA VagaSozinha ==
    ASSUME Sozinha, Simultaneas = 1, NEW r \in Requisicao, Vaga(r)
    PROVE  \A s \in Requisicao : ~NoAberto(s)
<1> SUFFICES ASSUME NEW s \in Requisicao, NoAberto(s) PROVE FALSE
  OBVIOUS
<1>1. {q \in Requisicao : NoAberto(q)} = {s}
  BY DEF Sozinha
<1>2. Cardinality({s}) = 1
  BY FS_Singleton
<1>3. Cardinality({q \in Requisicao : NoAberto(q)}) < 1
  BY DEF Vaga
<1> QED BY ONLY <1>1, <1>2, <1>3

\* A read leaves r with a request whose checks have passed.
LEMMA LeituraJusta ==
    ASSUME IInv, "restore" \notin Operacoes, NEW r \in Requisicao, Comeca(r)
    PROVE  /\ fase' = [fase EXCEPT ![r] = "lida"]
           /\ usuarios' = usuarios
           /\ \E p : pedido' = [pedido EXCEPT ![r] = p] /\ PedidoJusto(p)
<1> DEFINE P(op, t, u, m) ==
        [op |-> op, ator |-> t.sub, perfil |-> t.perfil, alvo |-> u, muda |-> m]
<1>1. ASSUME NEW op, NEW t, NEW u, NEW m, Ler(r, op, t, u, m),
             op \in Operacoes => PedidoJusto(P(op, t, u, m))
      PROVE  /\ fase' = [fase EXCEPT ![r] = "lida"]
             /\ usuarios' = usuarios
             /\ \E p : pedido' = [pedido EXCEPT ![r] = p] /\ PedidoJusto(p)
  BY <1>1 DEF Ler, tabelas
<1>2. CASE LerSignUp(r)
  <2>1. PICK u \in Usuario \ emitidos, dto \in CreateUsuarioDto :
            /\ Livre("cpf", dto.cpf, Usuario)
            /\ Ler(r, "signUp", [sub |-> Nulo, perfil |-> Nulo], u,
                   NovaLinha("morador", CondominioDa[dto.unidade], dto.unidade, dto.cpf, dto.email))
    BY <1>2 DEF LerSignUp
  <2> DEFINE m == NovaLinha("morador", CondominioDa[dto.unidade], dto.unidade, dto.cpf, dto.email)
             t == [sub |-> Nulo, perfil |-> Nulo]
  <2>2. m.cpf = dto.cpf
    BY DEF NovaLinha
  <2>3. "signUp" \in Operacoes => PedidoJusto(P("signUp", t, u, m))
    BY <2>1, <2>2 DEF PedidoJusto, CpfLivre, AlvoPermitido, Criacao
  <2> QED BY <1>1, <2>1, <2>3
<1>3. CASE LerCreate(r)
  <2>1. PICK t \in DeGestor, u \in Usuario \ emitidos, dto \in CreateFuncionarioDto :
            /\ Livre("cpf", dto.cpf, Usuario)
            /\ Ler(r, "create", t, u,
                   NovaLinha(dto.perfil, dto.condominio, dto.unidade, dto.cpf, dto.email))
    BY <1>3 DEF LerCreate
  <2> DEFINE m == NovaLinha(dto.perfil, dto.condominio, dto.unidade, dto.cpf, dto.email)
  <2>2. m.cpf = dto.cpf
    BY DEF NovaLinha
  <2>3. "create" \in Operacoes => PedidoJusto(P("create", t, u, m))
    BY <2>1, <2>2 DEF PedidoJusto, CpfLivre, AlvoPermitido, Criacao
  <2> QED BY <1>1, <2>1, <2>3
<1>4. CASE LerUpdate(r)
  <2>1. PICK t \in Autenticadas, dto \in UpdateUsuarioDto :
            /\ \A coluna \in DOMAIN dto :
                  Livre(coluna, dto[coluna], {v \in Usuario \ {t.sub} : Visivel(v)})
            /\ Ler(r, "update", t, t.sub, dto)
    BY <1>4 DEF LerUpdate
  <2>2. "cpf" \in DOMAIN dto => Livre("cpf", dto.cpf, {v \in Usuario \ {t.sub} : Visivel(v)})
    BY <2>1
  <2>3. "update" \in Operacoes => PedidoJusto(P("update", t, t.sub, dto))
    BY <2>2 DEF PedidoJusto, CpfLivre, AlvoPermitido, Criacao
  <2> QED BY <1>1, <2>1, <2>3
<1>5. ASSUME NEW t \in Autenticadas, NEW u \in Usuario, Visivel(u),
             Alcanca(t, usuarios[u].condominio), Subordinado(t.perfil, usuarios[u].perfil),
             NEW op \in {"aprovar", "revogar", "updateRole", "updateUnidade", "remove"}, NEW m,
             op = "remove" => m = [deleted |-> TRUE]
      PROVE  op \in Operacoes => PedidoJusto(P(op, t, u, m))
  <2>1. t.perfil = "admin" => usuarios[t.sub] # Nulo /\ usuarios[t.sub].condominio = usuarios[u].condominio
    BY <1>5 DEF Alcanca, Autenticadas, Visivel
  <2> QED BY <1>5, <2>1 DEF PedidoJusto, CpfLivre, AlvoPermitido, Criacao, Visivel
<1>g. DeGestor \subseteq Autenticadas
  BY DEF DeGestor
<1>6. CASE LerAprovacao(r)
  <2>1. PICK t \in DeGestor, u \in Usuario, op \in {"aprovar", "revogar"} :
            /\ Visivel(u)
            /\ Alcanca(t, usuarios[u].condominio)
            /\ Subordinado(t.perfil, usuarios[u].perfil)
            /\ Ler(r, op, t, u, [aprovado |-> op = "aprovar"])
    BY <1>6 DEF LerAprovacao
  <2> DEFINE m == [aprovado |-> op = "aprovar"]
  <2>2. op \in Operacoes => PedidoJusto(P(op, t, u, m))
    BY <1>5, <1>g, <2>1
  <2> QED BY <1>1, <2>1, <2>2
<1>7. CASE LerUpdateRole(r)
  <2>1. PICK t \in DeGestor, u \in Usuario, f \in Perfil :
            /\ Visivel(u)
            /\ Alcanca(t, usuarios[u].condominio)
            /\ Subordinado(t.perfil, usuarios[u].perfil)
            /\ Ler(r, "updateRole", t, u, [perfil |-> f])
    BY <1>7 DEF LerUpdateRole
  <2> DEFINE m == [perfil |-> f]
  <2>2. "updateRole" \in Operacoes => PedidoJusto(P("updateRole", t, u, m))
    BY <1>5, <1>g, <2>1
  <2> QED BY <1>1, <2>1, <2>2
<1>8. CASE LerUpdateUnidade(r)
  <2>1. PICK t \in DeGestor, u \in Usuario, n \in Unidade :
            /\ Visivel(u)
            /\ Alcanca(t, usuarios[u].condominio)
            /\ Subordinado(t.perfil, usuarios[u].perfil)
            /\ Ler(r, "updateUnidade", t, u, [condominio |-> CondominioDa[n], unidade |-> n])
    BY <1>8 DEF LerUpdateUnidade
  <2> DEFINE m == [condominio |-> CondominioDa[n], unidade |-> n]
  <2>2. "updateUnidade" \in Operacoes => PedidoJusto(P("updateUnidade", t, u, m))
    BY <1>5, <1>g, <2>1
  <2> QED BY <1>1, <2>1, <2>2
<1>9. CASE LerRemove(r)
  <2>1. PICK t \in Autenticadas, u \in Usuario :
            /\ Visivel(u)
            /\ \/ u = t.sub
               \/ Alcanca(t, usuarios[u].condominio) /\ Subordinado(t.perfil, usuarios[u].perfil)
            /\ Ler(r, "remove", t, u, [deleted |-> TRUE])
    BY <1>9 DEF LerRemove
  <2> DEFINE m == [deleted |-> TRUE]
  <2>2. "remove" \in Operacoes => PedidoJusto(P("remove", t, u, m))
    <3>1. CASE u = t.sub
      BY <3>1 DEF PedidoJusto, CpfLivre, AlvoPermitido, Criacao
    <3>2. CASE u # t.sub
      BY <1>5, <2>1, <3>2
    <3> QED BY <3>1, <3>2
  <2> QED BY <1>1, <2>1, <2>2
<1>10. CASE LerRestore(r)
  BY <1>10 DEF LerRestore, Ler
<1>11. CASE LerHardRemove(r)
  <2>1. PICK t \in DeGestor, u \in Usuario : Ler(r, "hardRemove", t, u, [deleted |-> TRUE])
    BY <1>11 DEF LerHardRemove
  <2> DEFINE m == [deleted |-> TRUE]
  <2>2. "hardRemove" \in Operacoes => PedidoJusto(P("hardRemove", t, u, m))
    BY DEF PedidoJusto, CpfLivre, AlvoPermitido, Criacao
  <2> QED BY <1>1, <2>1, <2>2
<1> QED BY <1>2, <1>3, <1>4, <1>6, <1>7, <1>8, <1>9, <1>10, <1>11 DEF Comeca

\* The seed shares no cpf and no request is open.
LEMMA JustoInit ==
    ASSUME SementeSemRepeticao
    PROVE  Init => SInv
<1> SUFFICES ASSUME Init PROVE SInv
  OBVIOUS
<1>1. IInv
  BY InvInit
<1>2. Sozinha /\ Justos
  BY DEF Init, Sozinha, Justos, NoAberto
<1>3. CpfUnico
  BY DEF Init, CpfUnico, Visivel, SementeSemRepeticao
<1> QED BY <1>1, <1>2, <1>3 DEF SInv

\* Where the accounts stay as they are and nothing opens, every open request stays in order.
LEMMA JustoParado ==
    ASSUME SInv, IInv', usuarios' = usuarios,
           \A s \in Requisicao : pedido'[s] = pedido[s] \/ pedido'[s] = Nulo
    PROVE  SInv'
<1>1. \A s \in Requisicao : NoAberto(s) <=> pedido[s] # Nulo
  BY DEF SInv, IInv, Base, Fases
<1>2. \A s \in Requisicao : NoAberto(s)' <=> pedido'[s] # Nulo
  BY DEF IInv, Base, Fases
<1>3. Sozinha'
  BY <1>1, <1>2 DEF SInv, Sozinha
<1>4. Justos'
  BY DEF SInv, Justos, PedidoJusto, CpfLivre, AlvoPermitido, Livre, Visivel
<1>5. CpfUnico'
  BY DEF SInv, CpfUnico, Visivel
<1> QED BY <1>3, <1>4, <1>5 DEF SInv

\* A beginning: r is the only one open, and its checks have just passed.
LEMMA JustoComeca ==
    ASSUME SInv, IInv', Simultaneas = 1, "restore" \notin Operacoes,
           NEW r \in Requisicao, Comeca(r)
    PROVE  SInv'
<1>1. PICK p : /\ fase' = [fase EXCEPT ![r] = "lida"]
               /\ usuarios' = usuarios
               /\ pedido' = [pedido EXCEPT ![r] = p]
               /\ PedidoJusto(p)
  BY LeituraJusta DEF SInv
<1>2. \A s \in Requisicao : ~NoAberto(s)
  BY VagaSozinha DEF SInv, Comeca
<1>3. \A s \in Requisicao : s # r => ~NoAberto(s)' /\ pedido'[s] = Nulo
  BY <1>1, <1>2 DEF SInv, IInv, Base, TypeOK, Fases, NoAberto
<1>4. Sozinha'
  BY <1>3 DEF Sozinha
<1>5. pedido'[r] = p
  BY <1>1 DEF SInv, IInv, Base, TypeOK
<1>6. Justos'
  BY <1>1, <1>3, <1>5 DEF Justos, PedidoJusto, CpfLivre, AlvoPermitido, Livre, Visivel
<1>7. CpfUnico'
  BY <1>1 DEF SInv, CpfUnico, Visivel
<1> QED BY <1>4, <1>6, <1>7 DEF SInv

\* A change that r commits leaves the account removed, or with a cpf that was free or its
\* own before.
LEMMA CpfConfirmado ==
    ASSUME SInv, "restore" \notin Operacoes, NEW r \in Requisicao, Confirmar(r),
           pedido[r].op \notin Criacao,
           NEW v \in Usuario \ {pedido[r].alvo}, Visivel(v), ~imagem[r].deleted
    PROVE  imagem[r].cpf # usuarios[v].cpf
<1> DEFINE p == pedido[r]
           u == pedido[r].alvo
           k == usuarios[u]
           l == imagem[r]
<1>1. /\ p \in Pedido /\ u \in Usuario /\ PedidoValido(p) /\ ImagemValida(r)
      /\ k \in Linha /\ p.op \in Alteracao \cup Marcacao
  BY LinhaConfirmada DEF SInv
<1>2. p # Nulo /\ PedidoJusto(p)
  BY <1>1, Tabelas DEF SInv, Justos
<1>3. MudancaValida(p) /\ l = Aplicar(k, p.muda)
  BY <1>1 DEF PedidoValido, ImagemValida
<1>4. k # Nulo
  BY <1>1, Tabelas
<1>5. CASE p.op = "update" /\ "cpf" \in DOMAIN p.muda
  <2>1. l.cpf = p.muda.cpf
    BY <1>1, <1>3, <1>5 DEF Aplicar, Linha
  <2>2. Livre("cpf", p.muda.cpf, {w \in Usuario \ {u} : Visivel(w)})
    BY <1>2, <1>5 DEF PedidoJusto, CpfLivre
  <2> QED BY <2>1, <2>2 DEF Livre, Visivel
<1>6. CASE p.op \in Marcacao
  <2>1. p.muda = [deleted |-> TRUE]
    BY <1>2, <1>6 DEF PedidoJusto, Marcacao
  <2>2. l.deleted
    BY <1>1, <1>3, <2>1 DEF Aplicar, Linha
  <2> QED BY <2>2
<1>7. CASE p.op \in Alteracao /\ ~(p.op = "update" /\ "cpf" \in DOMAIN p.muda)
  <2>1. "cpf" \notin DOMAIN p.muda /\ "deleted" \notin DOMAIN p.muda
    BY <1>3, <1>7 DEF MudancaValida, UpdateUsuarioDto, Criacao, Alteracao, Marcacao
  <2>2. l.cpf = k.cpf /\ l.deleted = k.deleted
    BY <1>1, <1>3, <2>1 DEF Aplicar, Linha
  <2>3. Visivel(u)
    BY <1>4, <2>2 DEF Visivel
  <2> QED BY <1>1, <2>2, <2>3 DEF SInv, CpfUnico
<1> QED BY <1>1, <1>5, <1>6, <1>7

\* A commit, by the only open request.
LEMMA JustoConfirmar ==
    ASSUME SInv, IInv', "restore" \notin Operacoes, NEW r \in Requisicao, Confirmar(r)
    PROVE  SInv'
<1> DEFINE p == pedido[r]
           u == pedido[r].alvo
           l == imagem[r]
<1>1. /\ p \in Pedido /\ u \in Usuario /\ ImagemValida(r)
      /\ usuarios'[u] = l
      /\ \A v \in Usuario : v # u => usuarios'[v] = usuarios[v]
      /\ fase'[r] = "confirmada"
      /\ \A s \in Requisicao : s # r => fase'[s] = fase[s]
  BY LinhaConfirmada DEF SInv
<1>2. ASSUME NEW s \in Requisicao PROVE ~NoAberto(s)'
  <2>1. NoAberto(r)
    BY DEF Confirmar, NoAberto
  <2> QED BY <1>1, <2>1 DEF SInv, Sozinha, NoAberto
<1>3. Sozinha' /\ Justos'
  BY <1>2 DEF IInv, Base, Fases, Sozinha, Justos
<1>4. ASSUME NEW v \in Usuario \ {u}, Visivel(v), ~l.deleted PROVE l.cpf # usuarios[v].cpf
  <2>1. CASE p.op \in Criacao
    <3>1. l = p.muda
      BY <1>1, <2>1 DEF ImagemValida
    <3>2. p # Nulo /\ PedidoJusto(p)
      BY <1>1, Tabelas DEF SInv, Justos
    <3>3. Livre("cpf", p.muda.cpf, Usuario)
      BY <2>1, <3>2 DEF PedidoJusto, CpfLivre
    <3> QED BY <1>4, <3>1, <3>3 DEF Livre, Visivel
  <2>2. CASE p.op \notin Criacao
    BY <1>4, <2>2, CpfConfirmado
  <2> QED BY <2>1, <2>2
<1>5. CpfUnico'
  <2> SUFFICES ASSUME NEW v \in Usuario, NEW w \in Usuario, v # w, Visivel(v)', Visivel(w)'
               PROVE  usuarios'[v].cpf # usuarios'[w].cpf
    BY DEF CpfUnico
  <2>1. CASE v = u
    BY <1>1, <1>4, <2>1 DEF Visivel
  <2>2. CASE w = u
    BY <1>1, <1>4, <2>2 DEF Visivel
  <2>3. CASE v # u /\ w # u
    BY <1>1, <2>3 DEF SInv, CpfUnico, Visivel
  <2> QED BY <2>1, <2>2, <2>3
<1> QED BY <1>3, <1>5 DEF SInv

\* A hard removal takes one account away.
LEMMA JustoApagar ==
    ASSUME SInv, IInv', NEW r \in Requisicao, Apagar(r)
    PROVE  SInv'
<1>1. NoAberto(r) /\ fase' = [fase EXCEPT ![r] = "confirmada"]
  BY DEF Apagar, Encerrar, NoAberto
<1>2. ASSUME NEW s \in Requisicao PROVE ~NoAberto(s)'
  BY <1>1 DEF SInv, IInv, Base, TypeOK, Sozinha, NoAberto
<1>3. Sozinha' /\ Justos'
  BY <1>2 DEF IInv, Base, Fases, Sozinha, Justos
<1>4. \A v \in Usuario : usuarios'[v] # Nulo => usuarios'[v] = usuarios[v]
  BY DEF Apagar, SInv, IInv, Base, TypeOK
<1>5. CpfUnico'
  BY <1>4 DEF SInv, CpfUnico, Visivel
<1> QED BY <1>3, <1>5 DEF SInv

\* A unit is marked or deleted while nothing is open; no cpf changes.
LEMMA JustoUnidade ==
    ASSUME SInv, IInv', Simultaneas = 1, NEW r \in Requisicao, NEW n \in Unidade,
           MarcarUnidade(r, n) \/ ApagarUnidade(r, n)
    PROVE  SInv'
<1>1. Vaga(r) /\ fase' = [fase EXCEPT ![r] = "confirmada"]
  BY DEF MarcarUnidade, ApagarUnidade, SobreUnidade
<1>2. \A s \in Requisicao : ~NoAberto(s)
  BY <1>1, VagaSozinha DEF SInv
<1>3. ASSUME NEW s \in Requisicao PROVE ~NoAberto(s)'
  BY <1>1, <1>2 DEF SInv, IInv, Base, TypeOK, NoAberto
<1>4. Sozinha' /\ Justos'
  BY <1>3 DEF IInv, Base, Fases, Sozinha, Justos
<1>5. ASSUME NEW v \in Usuario
      PROVE  /\ usuarios'[v] # Nulo <=> usuarios[v] # Nulo
             /\ usuarios[v] # Nulo => /\ usuarios'[v].cpf = usuarios[v].cpf
                                      /\ usuarios'[v].deleted = usuarios[v].deleted
  <2>1. usuarios[v] \in Linha \cup {Nulo}
    BY DEF SInv, IInv, Base, TypeOK
  <2>2. CASE usuarios[v] # Nulo /\ usuarios'[v] = [usuarios[v] EXCEPT !.unidade = Nulo]
    <3>1. usuarios'[v] \in Linha
      BY <2>1, <2>2 DEF Linha
    <3> QED BY <2>1, <2>2, <3>1, Tabelas DEF Linha
  <2>3. CASE usuarios'[v] = usuarios[v]
    BY <2>3
  <2> QED BY <2>2, <2>3 DEF MarcarUnidade, ApagarUnidade
<1>6. CpfUnico'
  BY <1>5 DEF SInv, CpfUnico, Visivel
<1> QED BY <1>4, <1>6 DEF SInv

\* No step breaks the invariant of requests that do not overlap.
LEMMA JustoPreserva ==
    ASSUME SInv, [Next]_vars, Simultaneas = 1, "restore" \notin Operacoes
    PROVE  SInv'
<1>i. IInv'
  BY Preserva DEF SInv
<1>1. ASSUME NEW u \in Usuario, Entrar(u) PROVE SInv'
  BY <1>i, <1>1, JustoParado DEF Entrar, tabelas
<1>2. ASSUME UNCHANGED vars PROVE SInv'
  BY <1>i, <1>2, JustoParado DEF vars
<1>3. ASSUME NEW r \in Requisicao, Prossegue(r) PROVE SInv'
  <2>1. Continua(r)
    BY <1>3, Prosseguimento DEF SInv
  <2>2. CASE \E l \in Linha : Escrita(r, l)
    BY <1>i, <2>2, JustoParado DEF Escrita, Escreve, tabelas
  <2>3. CASE FimSemEfeito(r)
    <3>1. usuarios' = usuarios /\ pedido' = [pedido EXCEPT ![r] = Nulo]
      BY <2>3 DEF FimSemEfeito, Encerrar, tabelas
    <3>2. \A s \in Requisicao : pedido'[s] = pedido[s] \/ pedido'[s] = Nulo
      BY <3>1 DEF SInv, IInv, Base, TypeOK
    <3> QED BY <1>i, <3>1, <3>2, JustoParado
  <2> QED BY <1>i, <2>1, <2>2, <2>3, JustoConfirmar, JustoApagar DEF Continua
<1> QED BY <1>i, <1>1, <1>2, <1>3, JustoComeca, JustoUnidade DEF Next, Ocioso

\* A request that writes somebody else's account is one whose checks hold.
LEMMA MudaOutroJusto ==
    ASSUME SInv, [Next]_vars, NEW r \in Requisicao, MudaOutro(r)
    PROVE  PedidoJusto(pedido[r]) /\ pedido[r].op \notin Criacao \cup {"hardRemove"}
<1>1. PedidoJusto(pedido[r])
  BY DEF SInv, IInv, Base, Fases, NoAberto, Justos, MudaOutro
<1>2. fase \in [Requisicao -> {"nova", "lida", "gravada", "confirmada", "desfeita"}]
  BY DEF SInv, IInv, Base, TypeOK
<1>3. pedido[r].op # "hardRemove"
  <2>1. ASSUME NEW s \in Requisicao, PassoDe(s) PROVE pedido[r].op # "hardRemove"
    <3>1. CASE \E l \in Linha : Escrita(s, l)
      BY <1>2, <3>1 DEF Escrita, Escreve, MudaOutro
    <3>2. CASE ~\E l \in Linha : Escrita(s, l)
      BY <1>2, <2>1, <3>2 DEF PassoDe, Continua, Leitura, FimSemEfeito, Confirmar, Apagar,
                             Encerrar, MudaOutro
    <3> QED BY <3>1, <3>2
  <2>2. ASSUME Outro \/ UNCHANGED vars PROVE FALSE
    BY <1>2, <2>2 DEF Outro, Entrar, MarcarUnidade, ApagarUnidade, SobreUnidade, vars, MudaOutro
  <2> QED BY <2>1, <2>2, Passos DEF SInv
<1> QED BY <1>1, <1>3 DEF MudaOutro

\* Where requests do not overlap and nothing is restored, and the seed gives every cpf to
\* one account, no two accounts get the same cpf, an admin changes only accounts of the
\* own condominium, and nobody changes a super nor an admin an admin.
THEOREM RegrasValem ==
    ASSUME Simultaneas = 1, "restore" \notin Operacoes, SementeSemRepeticao
    PROVE  Spec => RegrasSemSobreposicao
<1>1. Init => SInv
  BY JustoInit
<1>2. SInv /\ [Next]_vars => SInv'
  BY JustoPreserva
<1>3. SInv => CpfUnico
  BY DEF SInv
<1>4. SInv /\ [Next]_vars =>
          \A r \in Requisicao : MudaOutro(r) /\ pedido[r].perfil = "admin" =>
              LET a == usuarios[pedido[r].ator]
              IN  a # Nulo /\ a.condominio = usuarios[pedido[r].alvo].condominio
  BY MudaOutroJusto DEF PedidoJusto, AlvoPermitido, MudaOutro
<1>5. SInv /\ [Next]_vars =>
          \A r \in Requisicao : MudaOutro(r) /\ pedido[r].op # "restore" =>
              LET g == usuarios[pedido[r].alvo].perfil
              IN  g # "super" /\ ~(pedido[r].perfil = "admin" /\ g = "admin")
  BY MudaOutroJusto DEF PedidoJusto, AlvoPermitido, MudaOutro, Subordinado
<1>6. Spec => []SInv
  BY <1>1, <1>2, PTL DEF Spec
<1>7. Spec => []CpfUnico
  BY <1>3, <1>6, PTL
<1>8. Spec => AdminSoNoCondominio
  BY <1>4, <1>6, PTL DEF Spec, AdminSoNoCondominio
<1>9. Spec => HierarquiaRespeitada
  BY <1>5, <1>6, PTL DEF Spec, HierarquiaRespeitada
<1> QED BY <1>7, <1>8, <1>9 DEF RegrasSemSobreposicao

=============================================================================
