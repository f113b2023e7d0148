------------------------- MODULE Dispositivos_proofs -------------------------
(***************************************************************************)
(* Proofs about Dispositivos, for any accounts, tokens and requests.       *)
(*                                                                         *)
(* The foreign key is kept by each write alone. What a handler achieves    *)
(* when nothing overlaps it rests on Sozinhas: while a request is isolated *)
(* no other is open and what it has read is still so.                      *)
(***************************************************************************)
EXTENDS Dispositivos, TLAPS

\* A request has been asked exactly when it is not new, and some phases belong
\* to some operations.
Formas ==
    \A r \in Requisicao :
        /\ fase[r] # "nova" <=> pedido[r] # Nulo
        /\ fase[r] = "gravada" => pedido[r].op = "upsert"
        /\ fase[r] = "enviada" => pedido[r].op = "push"

\* What r has read of the table or written to it is still there.
Vale(r) ==
    /\ fase[r] = "lida" /\ pedido[r].op = "upsert" =>
          existente[r] = registros[pedido[r].token] /\ pedido[r].user \in existentes
    /\ fase[r] = "lida" /\ pedido[r].op = "remove" =>
          /\ existente[r] = registros[pedido[r].token]
          /\ existente[r] # Nulo
          /\ existente[r].dono = pedido[r].user
    /\ fase[r] = "lida" /\ pedido[r].op = "push" =>
          destinos[r] \subseteq Alcancaveis(pedido[r].users)
    /\ fase[r] = "gravada" =>
          LET l == registros[pedido[r].token]
          IN  l # Nulo /\ l.dono = pedido[r].user /\ l.valido /\ ~l.removido

\* An isolated request is the only one open and what it knows is true.
Sozinhas ==
    \A r \in Requisicao : isolada[r] /\ r \in Abertas => Abertas = {r} /\ Vale(r)

IInv == TypeOK /\ Formas /\ Sozinhas /\ SoDeContasExistentes

-----------------------------------------------------------------------------
(* Init and reads.                                                         *)

\* The initial state satisfies the invariant.
LEMMA Inicio == Init => IInv
BY Valores, NuloNaoEhPedido
   DEF Init, IInv, TypeOK, Formas, Sozinhas, Abertas, SoDeContasExistentes

\* A first read, of which linha and tokens are what the table has.
Lido(p, linha, tokens) ==
    /\ p \in Pedido
    /\ p.op \in {"upsert", "remove"} =>
          linha = registros[p.token] /\ p.user \in existentes
    /\ p.op = "remove" => linha # Nulo /\ linha.dono = p.user
    /\ p.op = "push" => linha = Nulo
    /\ p.op = "push" => tokens = Alcancaveis(p.users)
    /\ p.op # "push" => tokens = {}

\* Every first read is one.
LEMMA Leitura ==
    ASSUME IInv, NEW r \in Requisicao, Comeca(r)
    PROVE  \E p, linha, tokens : Lido(p, linha, tokens) /\ Ler(r, p, linha, tokens)
<1> USE DEF Lido, Pedido
<1>0. existentes \subseteq Usuario BY DEF IInv, TypeOK
<1>1. CASE LerUpsert(r) BY <1>0, <1>1 DEF LerUpsert
<1>2. CASE LerRemocao(r) BY <1>0, <1>2 DEF LerRemocao
<1>3. CASE LerDestinos(r) BY <1>3 DEF LerDestinos
<1> QED BY <1>1, <1>2, <1>3 DEF Comeca

\* A first read keeps the invariant.
LEMMA PreservaLer ==
    ASSUME IInv, NEW r \in Requisicao, NEW p, NEW linha, NEW tokens,
           Lido(p, linha, tokens), Ler(r, p, linha, tokens)
    PROVE  IInv'
<1> USE DEF IInv
<1>1. /\ fase[r] = "nova" /\ registros' = registros /\ existentes' = existentes
      /\ \A s \in Requisicao : s # r =>
            /\ fase'[s] = fase[s] /\ pedido'[s] = pedido[s]
            /\ existente'[s] = existente[s] /\ destinos'[s] = destinos[s]
            /\ isolada'[s] = (isolada[s] /\ s \notin Abertas)
      /\ fase'[r] = "lida" /\ pedido'[r] = p /\ existente'[r] = linha /\ destinos'[r] = tokens
      /\ isolada'[r] = (Abertas = {})
  BY DEF Ler, TypeOK, mundo
<1>2. p \in Pedido /\ p # Nulo
  BY NuloNaoEhPedido DEF Lido
<1>3. linha \in DeviceToken \cup {Nulo} /\ tokens \in SUBSET Token
  <2>1. CASE p.op = "push"
    BY <2>1 DEF Lido, Alcancaveis
  <2>2. CASE p.op # "push"
    BY <1>2, <2>2 DEF Lido, Pedido, TypeOK
  <2> QED BY <2>1, <2>2
<1>4. TypeOK'
  BY <1>2, <1>3 DEF Ler, TypeOK, mundo
<1>5. Formas'
  BY <1>1, <1>2 DEF Formas
<1>6. Abertas' = Abertas \cup {r}
  BY <1>1 DEF Abertas
<1>7. Sozinhas'
  <2> SUFFICES ASSUME NEW s \in Requisicao, isolada'[s], s \in Abertas'
               PROVE  Abertas' = {s} /\ Vale(s)'
    BY DEF Sozinhas
  <2>1. s = r /\ Abertas = {}
    BY <1>1, <1>6
  <2>2. Vale(r)'
    BY <1>1, <1>2 DEF Lido, Vale, Alcancaveis, Pedido
  <2> QED BY <1>6, <2>1, <2>2
<1>8. SoDeContasExistentes'
  BY <1>1 DEF SoDeContasExistentes
<1> QED BY <1>4, <1>5, <1>7, <1>8

-----------------------------------------------------------------------------
(* Going on.                                                               *)

\* A step of r keeps the invariant if what it writes has its type and an owner
\* that exists and, r being isolated, is what r then believes. No other open
\* request is isolated.
LEMMA Avanco ==
    ASSUME IInv, NEW r \in Requisicao, r \in Abertas,
           NEW a \in {"gravada", "enviada", "respondida", "falhou"},
           fase' = [fase EXCEPT ![r] = a],
           UNCHANGED <<existentes, pedido, isolada>>,
           a = "gravada" => pedido[r].op = "upsert",
           a = "enviada" => pedido[r].op = "push",
           registros' \in [Token -> DeviceToken \cup {Nulo}],
           existente' \in [Requisicao -> DeviceToken \cup {Nulo}],
           destinos' \in [Requisicao -> SUBSET Token],
           SoDeContasExistentes',
           a = "gravada" /\ isolada[r] /\ Vale(r) => Vale(r)'
    PROVE  IInv'
<1> USE DEF IInv
<1>1. /\ \A s \in Requisicao : s # r => fase'[s] = fase[s]
      /\ fase'[r] = a /\ fase[r] # "nova"
  BY DEF TypeOK, Abertas
<1>2. TypeOK'
  BY DEF TypeOK
<1>3. Formas'
  BY <1>1 DEF Formas
<1>4. Sozinhas'
  <2> SUFFICES ASSUME NEW s \in Requisicao, isolada[s], s \in Abertas'
               PROVE  Abertas' = {s} /\ Vale(s)'
    BY DEF Sozinhas
  <2>1. s \in Abertas
    BY <1>1 DEF Abertas
  <2>2. Abertas = {s} /\ Vale(s)
    BY <2>1 DEF Sozinhas
  <2>3. s = r
    BY <2>2
  <2>4. Abertas' = {r}
    BY <1>1, <2>2, <2>3 DEF Abertas
  <2>5. a \in {"gravada", "enviada"}
    BY <1>1, <2>3, <2>4 DEF Abertas
  <2>6. Vale(r)'
    <3>1. CASE a = "gravada" BY <2>2, <2>3, <3>1
    <3>2. CASE a = "enviada" BY <1>1, <3>2 DEF Vale
    <3> QED BY <2>5, <3>1, <3>2
  <2> QED BY <2>3, <2>4, <2>6
<1> QED BY <1>2, <1>3, <1>4

\* What Passo says in these terms.
LEMMA PassoAvanca ==
    ASSUME IInv, NEW r \in Requisicao, NEW op, NEW de \in {"lida", "gravada", "enviada"}, NEW a,
           Passo(r, op, de, a)
    PROVE  /\ r \in Abertas /\ fase[r] = de /\ pedido[r].op = op /\ pedido[r] \in Pedido
           /\ fase' = [fase EXCEPT ![r] = a]
           /\ UNCHANGED <<existentes, pedido, isolada>>
BY DEF Passo, Abertas, IInv, Formas, TypeOK

\* A registration writes a row of its caller, who exists.
LEMMA PreservaAtualizar ==
    ASSUME IInv, NEW r \in Requisicao, Atualizar(r) PROVE IInv'
<1>1. /\ r \in Abertas /\ fase[r] = "lida" /\ pedido[r].op = "upsert" /\ pedido[r] \in Pedido
      /\ fase' = [fase EXCEPT ![r] = "gravada"]
      /\ UNCHANGED <<existentes, pedido, isolada>>
  BY PassoAvanca DEF Atualizar
<1> DEFINE t == pedido[r].token  l == Ativa(r, existente[r].uuid)
<1>2. t \in Token /\ l \in DeviceToken
  BY <1>1 DEF Pedido, Ativa, DeviceToken, Atualizar, IInv, TypeOK
<1>3. /\ registros' \in [Token -> DeviceToken \cup {Nulo}]
      /\ existente' = existente /\ destinos' = destinos
  BY <1>2 DEF Atualizar, IInv, TypeOK
<1>4. SoDeContasExistentes'
  BY <1>1, <1>2 DEF Atualizar, SoDeContasExistentes, IInv, TypeOK, Ativa
<1>5. Vale(r) => Vale(r)'
  <2> SUFFICES ASSUME Vale(r) PROVE Vale(r)'
    OBVIOUS
  <2>1. Acha(r)
    BY <1>1 DEF Vale, Acha, Atualizar
  <2>2. registros'[t] = l /\ l # Nulo
    BY <1>2, <2>1, NuloNaoEhLinha DEF Atualizar, IInv, TypeOK
  <2>3. fase'[r] = "gravada"
    BY <1>1 DEF IInv, TypeOK
  <2> QED BY <1>1, <2>2, <2>3 DEF Vale, Ativa
<1> QED BY <1>1, <1>3, <1>4, <1>5, Avanco DEF IInv, TypeOK

\* So does a first registration.
LEMMA PreservaInserir ==
    ASSUME IInv, NEW r \in Requisicao, Inserir(r) PROVE IInv'
<1>1. /\ r \in Abertas /\ fase[r] = "lida" /\ pedido[r].op = "upsert" /\ pedido[r] \in Pedido
      /\ fase' = [fase EXCEPT ![r] = "gravada"]
      /\ UNCHANGED <<existentes, pedido, isolada>>
  BY PassoAvanca DEF Inserir
<1> DEFINE t == pedido[r].token  l == Ativa(r, r)
<1>2. t \in Token /\ l \in DeviceToken
  BY <1>1 DEF Pedido, Ativa, DeviceToken
<1>3. /\ registros' \in [Token -> DeviceToken \cup {Nulo}]
      /\ existente' \in [Requisicao -> DeviceToken \cup {Nulo}]
      /\ destinos' = destinos
      /\ registros'[t] = l /\ l # Nulo
  BY <1>2, NuloNaoEhLinha DEF Inserir, IInv, TypeOK
<1>4. SoDeContasExistentes'
  BY <1>1, <1>2 DEF Inserir, SoDeContasExistentes, IInv, TypeOK, Ativa
<1>5. Vale(r)'
  <2>1. fase'[r] = "gravada"
    BY <1>1 DEF IInv, TypeOK
  <2>2. pedido'[r] = pedido[r]
    BY <1>1
  <2>3. l.dono = pedido[r].user /\ l.valido /\ ~l.removido
    BY DEF Ativa
  <2> HIDE DEF l
  <2> QED BY <1>3, <2>1, <2>2, <2>3 DEF Vale
<1> QED BY <1>1, <1>3, <1>4, <1>5, Avanco DEF IInv, TypeOK

\* The steps that write no owner.
LEMMA PreservaResto ==
    ASSUME IInv, NEW r \in Requisicao,
           \/ ViolarChave(r) \/ Responder(r) \/ MarcarRemovido(r)
           \/ Enviar(r) \/ Invalidar(r) \/ Interromper(r)
    PROVE  IInv'
<1> USE DEF IInv
<1>0. /\ registros \in [Token -> DeviceToken \cup {Nulo}]
      /\ existente \in [Requisicao -> DeviceToken \cup {Nulo}]
      /\ destinos \in [Requisicao -> SUBSET Token]
      /\ SoDeContasExistentes
  BY DEF TypeOK
<1>1. CASE ViolarChave(r)
  <2>1. /\ r \in Abertas /\ fase' = [fase EXCEPT ![r] = "falhou"]
        /\ UNCHANGED <<existentes, pedido, isolada>>
    BY <1>1, PassoAvanca DEF ViolarChave
  <2>2. UNCHANGED <<registros, existente, destinos>>
    BY <1>1 DEF ViolarChave
  <2>3. SoDeContasExistentes'
    BY <1>0, <2>1, <2>2 DEF SoDeContasExistentes
  <2> QED BY <1>0, <2>1, <2>2, <2>3, Avanco
<1>2. CASE Responder(r)
  <2> DEFINE a == IF Acha(r) THEN "respondida" ELSE "falhou"
  <2>1. /\ r \in Abertas /\ fase' = [fase EXCEPT ![r] = a] /\ pedido[r] \in Pedido
        /\ UNCHANGED <<existentes, pedido, isolada>> /\ pedido[r].op = "upsert"
    BY <1>2, PassoAvanca DEF Responder
  <2>2. /\ UNCHANGED <<registros, destinos>>
        /\ existente' \in [Requisicao -> DeviceToken \cup {Nulo}]
    BY <1>0, <1>2, <2>1 DEF Responder, Pedido
  <2>3. SoDeContasExistentes'
    BY <1>0, <2>1, <2>2 DEF SoDeContasExistentes
  <2> QED BY <1>0, <2>1, <2>2, <2>3, Avanco
<1>3. CASE MarcarRemovido(r)
  <2>1. /\ r \in Abertas /\ fase' = [fase EXCEPT ![r] = "respondida"] /\ pedido[r] \in Pedido
        /\ UNCHANGED <<existentes, pedido, isolada>> /\ pedido[r].op = "remove"
    BY <1>3, PassoAvanca DEF MarcarRemovido
  <2>2. pedido[r].token \in Token
    BY <2>1 DEF Pedido
  <2>3. /\ UNCHANGED <<existente, destinos>>
        /\ registros' \in [Token -> DeviceToken \cup {Nulo}]
        /\ \A t \in Token : registros'[t] # Nulo =>
              registros[t] # Nulo /\ registros'[t].dono = registros[t].dono
    BY <1>0, <1>3, <2>2 DEF MarcarRemovido, Acha, DeviceToken
  <2>4. SoDeContasExistentes'
    BY <1>0, <2>1, <2>3 DEF SoDeContasExistentes
  <2> QED BY <1>0, <2>1, <2>3, <2>4, Avanco
<1>4. CASE Enviar(r)
  <2>1. PICK recusados \in SUBSET destinos[r] :
           /\ Passo(r, "push", "lida", IF recusados = {} THEN "respondida" ELSE "enviada")
           /\ destinos' = [destinos EXCEPT ![r] = recusados]
           /\ UNCHANGED <<registros, existente>>
    BY <1>4 DEF Enviar
  <2> DEFINE a == IF recusados = {} THEN "respondida" ELSE "enviada"
  <2>2. /\ r \in Abertas /\ fase' = [fase EXCEPT ![r] = a] /\ pedido[r].op = "push"
        /\ UNCHANGED <<existentes, pedido, isolada>>
    BY <2>1, PassoAvanca
  <2>3. destinos' \in [Requisicao -> SUBSET Token]
    BY <1>0, <2>1
  <2>4. SoDeContasExistentes'
    BY <1>0, <2>1, <2>2 DEF SoDeContasExistentes
  <2> QED BY <1>0, <2>1, <2>2, <2>3, <2>4, Avanco
<1>5. CASE Invalidar(r)
  <2>1. /\ r \in Abertas /\ fase' = [fase EXCEPT ![r] = "respondida"]
        /\ UNCHANGED <<existentes, pedido, isolada>>
    BY <1>5, PassoAvanca DEF Invalidar
  <2>2. /\ UNCHANGED <<existente, destinos>>
        /\ registros' \in [Token -> DeviceToken \cup {Nulo}]
        /\ \A t \in Token : registros'[t] # Nulo =>
              registros[t] # Nulo /\ registros'[t].dono = registros[t].dono
    <3>1. ASSUME NEW t \in Token, registros[t] # Nulo
          PROVE  /\ [registros[t] EXCEPT !.valido = FALSE] \in DeviceToken
                 /\ [registros[t] EXCEPT !.valido = FALSE].dono = registros[t].dono
      <4>1. registros[t] \in DeviceToken
        BY <1>0, <3>1
      <4> QED BY <4>1 DEF DeviceToken
    <3> QED BY <1>0, <1>5, <3>1 DEF Invalidar
  <2>3. SoDeContasExistentes'
    BY <1>0, <2>1, <2>2 DEF SoDeContasExistentes
  <2> QED BY <1>0, <2>1, <2>2, <2>3, Avanco
<1>6. CASE Interromper(r)
  <2>1. /\ r \in Abertas /\ fase' = [fase EXCEPT ![r] = "falhou"]
        /\ UNCHANGED <<registros, existentes, pedido, existente, destinos, isolada>>
    BY <1>6 DEF Interromper, mundo
  <2>2. SoDeContasExistentes'
    BY <1>0, <2>1 DEF SoDeContasExistentes
  <2> QED BY <1>0, <2>1, <2>2, Avanco
<1> QED BY <1>1, <1>2, <1>3, <1>4, <1>5, <1>6

-----------------------------------------------------------------------------
(* The deletion of an account, and the invariant.                          *)

\* It takes the devices of the account along and ends every isolation.
LEMMA PreservaApagar ==
    ASSUME IInv, NEW u \in Usuario, ApagarConta(u) PROVE IInv'
<1> USE DEF IInv
<1>1. /\ existentes' = existentes \ {u}
      /\ isolada' = [r \in Requisicao |-> isolada[r] /\ r \notin Abertas]
      /\ UNCHANGED <<fase, pedido, existente, destinos>>
  BY DEF ApagarConta, Apagar
<1>2. registros' = [t \in Token |-> IF registros[t] # Nulo /\ registros[t].dono = u
                                    THEN Nulo ELSE registros[t]]
  BY DEF ApagarConta, Apagar
<1>3. TypeOK'
  BY <1>1, <1>2 DEF TypeOK
<1>4. Formas'
  BY <1>1 DEF Formas
<1>5. Sozinhas'
  BY <1>1 DEF Sozinhas, Abertas
<1>6. SoDeContasExistentes'
  BY <1>1, <1>2 DEF SoDeContasExistentes
<1> QED BY <1>3, <1>4, <1>5, <1>6

\* Every step keeps the invariant.
LEMMA Preserva == IInv /\ [Next]_vars => IInv'
<1> SUFFICES ASSUME IInv, [Next]_vars PROVE IInv'
  OBVIOUS
<1>1. ASSUME NEW r \in Requisicao, Comeca(r) PROVE IInv'
  BY <1>1, Leitura, PreservaLer
<1>2. ASSUME NEW r \in Requisicao, Prossegue(r) PROVE IInv'
  BY <1>2, PreservaAtualizar, PreservaInserir, PreservaResto DEF Prossegue
<1>3. ASSUME NEW u \in Usuario, ApagarConta(u) PROVE IInv'
  BY <1>3, PreservaApagar
<1>4. CASE UNCHANGED vars
  BY <1>4 DEF vars, IInv, TypeOK, Formas, Sozinhas, Abertas, Vale, Alcancaveis,
     SoDeContasExistentes
<1>5. CASE Ocioso
  BY <1>4, <1>5 DEF Ocioso
<1> QED BY <1>1, <1>2, <1>3, <1>4, <1>5 DEF Next

\* The invariant holds in every reachable state.
THEOREM Indutivo == Spec => []IInv
BY Inicio, Preserva, PTL DEF Spec

\* Types, whatever the accounts, tokens and requests.
THEOREM Tipos == Spec => []TypeOK
BY Indutivo, PTL DEF IInv

\* A device belongs to an account that exists, although upsert has read both
\* before it writes (the foreign key of device_tokens and its cascade).
THEOREM ContasExistentes == Spec => []SoDeContasExistentes
BY Indutivo, PTL DEF IInv

-----------------------------------------------------------------------------
(* What a step does to a device.                                           *)

\* A device changes hands or comes back only by a registration of upsert;
\* removeByToken and markTokensInvalid write their own column.
THEOREM DonoPorRegistro == Spec => DonoSoPorRegistro
<1> DEFINE Mudou(t) ==
        /\ registros[t] # Nulo /\ registros'[t] # Nulo
        /\ \/ registros'[t].dono # registros[t].dono
           \/ registros'[t].valido /\ ~registros[t].valido
           \/ registros[t].removido /\ ~registros'[t].removido
      Registrou(t) ==
        \E r \in Requisicao :
            /\ fase[r] = "lida" /\ fase'[r] = "gravada"
            /\ pedido[r].token = t /\ pedido[r].user = registros'[t].dono
<1>1. IInv /\ [Next]_vars => [\A t \in Token : Mudou(t) => Registrou(t)]_vars
  <2> SUFFICES ASSUME IInv, Next, NEW t \in Token, Mudou(t) PROVE Registrou(t)
    OBVIOUS
  <2>0. /\ registros \in [Token -> DeviceToken \cup {Nulo}]
        /\ fase \in [Requisicao -> {"nova", "lida", "gravada", "enviada", "respondida", "falhou"}]
        /\ pedido \in [Requisicao -> Pedido \cup {Nulo}]
    BY DEF IInv, TypeOK
  <2>1. registros'[t] # registros[t]
    OBVIOUS
  <2>2. ASSUME NEW r \in Requisicao, Comeca(r) PROVE FALSE
    BY <2>1, <2>2 DEF Comeca, LerUpsert, LerRemocao, LerDestinos, Ler, mundo
  <2>3. ASSUME NEW r \in Requisicao, Atualizar(r) \/ Inserir(r) PROVE Registrou(t)
    <3>1. /\ fase[r] = "lida" /\ fase'[r] = "gravada"
      BY <2>0, <2>3 DEF Atualizar, Inserir, Passo
    <3>2. \E uuid : registros' = [registros EXCEPT ![pedido[r].token] = Ativa(r, uuid)]
      BY <2>1, <2>3 DEF Atualizar, Inserir
    <3>3. pedido[r].token = t /\ \E uuid : registros'[t] = Ativa(r, uuid)
      BY <2>0, <2>1, <3>2
    <3>4. registros'[t].dono = pedido[r].user
      BY <3>3 DEF Ativa
    <3> QED BY <3>1, <3>3, <3>4
  <2>4. ASSUME NEW r \in Requisicao,
               ViolarChave(r) \/ Responder(r) \/ Enviar(r) \/ Interromper(r)
        PROVE  FALSE
    BY <2>1, <2>4 DEF ViolarChave, Responder, Enviar, Interromper, mundo
  <2>5. ASSUME NEW r \in Requisicao, MarcarRemovido(r) PROVE FALSE
    BY <2>0, <2>5 DEF MarcarRemovido, DeviceToken
  <2>6. ASSUME NEW r \in Requisicao, Invalidar(r) PROVE FALSE
    BY <2>0, <2>6 DEF Invalidar, DeviceToken
  <2>7. ASSUME NEW u \in Usuario, ApagarConta(u) PROVE FALSE
    BY <2>0, <2>1, <2>7 DEF ApagarConta, Apagar
  <2>8. ~Ocioso
    BY <2>1 DEF Ocioso, vars
  <2> QED BY <2>2, <2>3, <2>4, <2>5, <2>6, <2>7, <2>8 DEF Next, Prossegue
<1>2. IInv /\ [Next]_vars => [\A t \in Token :
          LET l == registros[t]  m == registros'[t]
          IN  (l # Nulo /\ m # Nulo /\ (m.dono # l.dono \/ (m.valido /\ ~l.valido)
                                       \/ (l.removido /\ ~m.removido))) =>
                 \E r \in Requisicao :
                    /\ fase[r] = "lida" /\ fase'[r] = "gravada"
                    /\ pedido[r].token = t /\ pedido[r].user = m.dono]_vars
  BY <1>1
<1> QED BY <1>2, Indutivo, PTL DEF Spec, DonoSoPorRegistro

\* The steps after which Cumpre asks for nothing.
LEMMA NadaDevido ==
    ASSUME NEW r, pedido[r].op = "upsert", fase'[r] # "respondida"
    PROVE  Cumpre(r)
BY DEF Cumpre

\* An isolated request that goes on has what it read, and achieves what the
\* caller of upsert, removeByToken or sendToUsers expects.
LEMMA PassoIsolado ==
    ASSUME IInv, NEW r \in Requisicao, Prossegue(r), isolada[r], fase'[r] # "falhou"
    PROVE  Cumpre(r)
<1>1. /\ registros \in [Token -> DeviceToken \cup {Nulo}]
      /\ fase \in [Requisicao -> {"nova", "lida", "gravada", "enviada", "respondida", "falhou"}]
      /\ pedido \in [Requisicao -> Pedido \cup {Nulo}]
      /\ r \in Abertas => Vale(r)
  BY DEF IInv, TypeOK, Sozinhas
<1>2. CASE Atualizar(r) \/ Inserir(r)
  BY <1>1, <1>2, NadaDevido DEF Atualizar, Inserir, Passo
<1>3. CASE ViolarChave(r) \/ Interromper(r)
  BY <1>1, <1>3 DEF ViolarChave, Interromper, Passo
<1>4. CASE Responder(r)
  <2>1. /\ r \in Abertas /\ fase[r] = "gravada" /\ pedido[r].op = "upsert"
        /\ pedido' = pedido /\ registros' = registros
    BY <1>4, PassoAvanca DEF Responder
  <2>2. LET l == registros[pedido[r].token]
        IN  l.dono = pedido[r].user /\ l.valido /\ ~l.removido
    BY <1>1, <2>1 DEF Vale
  <2> QED BY <2>1, <2>2 DEF Cumpre
<1>5. CASE MarcarRemovido(r)
  <2>1. /\ r \in Abertas /\ fase[r] = "lida" /\ pedido[r].op = "remove"
        /\ pedido[r] \in Pedido /\ fase' = [fase EXCEPT ![r] = "respondida"]
    BY <1>5, PassoAvanca DEF MarcarRemovido
  <2> DEFINE t == pedido[r].token
  <2>2. t \in Token
    BY <2>1 DEF Pedido
  <2>3. /\ existente[r] = registros[t] /\ registros[t] # Nulo
        /\ registros[t].dono = pedido[r].user
    BY <1>1, <2>1 DEF Vale
  <2>4. registros' = [registros EXCEPT ![t].removido = TRUE]
    BY <1>5, <2>3 DEF MarcarRemovido, Acha
  <2>5. registros'[t].removido
    BY <1>1, <2>2, <2>3, <2>4 DEF DeviceToken
  <2> QED BY <2>1, <2>3, <2>5 DEF Cumpre
<1>6. CASE Enviar(r)
  <2>1. /\ r \in Abertas /\ fase[r] = "lida" /\ pedido[r].op = "push"
    BY <1>6, PassoAvanca DEF Enviar
  <2>2. destinos[r] \subseteq Alcancaveis(pedido[r].users)
    BY <1>1, <2>1 DEF Vale
  <2> QED BY <2>1, <2>2 DEF Cumpre
<1>7. CASE Invalidar(r)
  <2>1. /\ r \in Abertas /\ fase[r] = "enviada" /\ pedido[r].op = "push"
    BY <1>7, PassoAvanca DEF Invalidar
  <2>2. \A t \in destinos[r] \cap Token : registros'[t] # Nulo => ~registros'[t].valido
    BY <1>1, <1>7 DEF Invalidar, DeviceToken
  <2>3. destinos[r] \subseteq Token
    BY DEF IInv, TypeOK
  <2> QED BY <2>1, <2>2, <2>3 DEF Cumpre
<1> QED BY <1>2, <1>3, <1>4, <1>5, <1>6, <1>7 DEF Prossegue

\* Without overlap, registration, removal, push and invalidation do what they
\* promise (the four handlers of device-tokens.service.ts and push.service.ts).
THEOREM CumpridoSemSobreposicao == Spec => IsoladaCumpre
<1>1. IInv /\ [Next]_vars =>
        [\A r \in Requisicao : isolada[r] /\ fase[r] # "nova" /\ fase'[r] # fase[r]
            /\ fase'[r] # "falhou" => Cumpre(r)]_vars
  <2> SUFFICES ASSUME IInv, Next, NEW r \in Requisicao, isolada[r], fase[r] # "nova",
                      fase'[r] # fase[r], fase'[r] # "falhou"
               PROVE  Cumpre(r)
    OBVIOUS
  <2>0. fase \in [Requisicao -> {"nova", "lida", "gravada", "enviada", "respondida", "falhou"}]
    BY DEF IInv, TypeOK
  <2>1. ASSUME NEW s \in Requisicao, Comeca(s) PROVE FALSE
    BY <2>0, <2>1 DEF Comeca, LerUpsert, LerRemocao, LerDestinos, Ler
  <2>2. ASSUME NEW s \in Requisicao, Prossegue(s) PROVE s = r
    BY <2>0, <2>2 DEF Prossegue, Atualizar, Inserir, ViolarChave, Responder, MarcarRemovido,
       Enviar, Invalidar, Interromper, Passo
  <2>3. ASSUME NEW u \in Usuario, ApagarConta(u) PROVE FALSE
    BY <2>3 DEF ApagarConta, Apagar
  <2>4. ~Ocioso
    BY DEF Ocioso, vars
  <2> QED BY <2>1, <2>2, <2>3, <2>4, PassoIsolado DEF Next
<1> QED BY <1>1, Indutivo, PTL DEF Spec, IsoladaCumpre
=============================================================================
