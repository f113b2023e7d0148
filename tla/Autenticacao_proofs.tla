------------------------- MODULE Autenticacao_proofs -------------------------
(***************************************************************************)
(* Proofs about the two halves of auth.service.ts, for any accounts,       *)
(* requests, codes and times: first RecuperacaoConta, then Sessoes.        *)
(*                                                                         *)
(* A token in a row was stored there by a finished request of that row's   *)
(* account, a code likewise. A confirmation carries that fact from its     *)
(* read to its UPDATE: a finished request stays finished, whatever becomes *)
(* of the row meanwhile. A request that nothing overlaps knows more: the   *)
(* row is still as it was read (Isoladas).                                 *)
(***************************************************************************)
EXTENDS RecuperacaoConta, Sessoes, TLAPS


\* The request s is finished and stored for the account u.
Atendida(s, op, u) == fase[s] = "feita" /\ pedido[s].op = op /\ pedido[s].alvo = u

\* The activation code c has been stored for the account u.
CodigoDe(c, u) ==
    \E s \in Requisicao : Atendida(s, "requestActivation", u) /\ pedido[s].codigo = c

\* A request has been asked exactly when it is not new, and some phases belong
\* to some operations.
Fases ==
    \A r \in Requisicao :
        /\ fase[r] # "nova" <=> pedido[r] # Nulo
        /\ fase[r] = "conferida" => pedido[r].op = "confirmActivation"
        /\ fase[r] \in {"trocada", "semLimpar"} => pedido[r].op = "confirmResetPassword"

\* The token of a row was drawn by a finished request of its account.
Tokens ==
    \A u \in Usuario : contas[u].token # Nulo =>
        Atendida(contas[u].token, "requestResetPassword", u)

\* So was the code.
Codigos == \A u \in Usuario : contas[u].codigo # Nulo => CodigoDe(contas[u].codigo, u)

\* What a request has read about its token or code outlives the row.
Pedidos ==
    \A r \in Requisicao : fase[r] # "nova" =>
        /\ pedido[r].op = "confirmResetPassword" =>
              /\ pedido[r].token # Nulo
              /\ Atendida(pedido[r].token, "requestResetPassword", pedido[r].alvo)
        /\ pedido[r].op = "confirmActivation" => pedido[r].codigo # Nulo
        /\ fase[r] = "conferida" \/ (fase[r] = "feita" /\ pedido[r].op = "confirmActivation") =>
              CodigoDe(pedido[r].codigo, pedido[r].alvo)

\* s has set a password of the account u, or is the first that u had.
Trocou(s, u) ==
    s # Nulo => /\ fase[s] \in {"trocada", "feita", "semLimpar"}
                /\ SenhaDe(s, u)

\* A password was written by the request it is named by.
Senhas == \A u \in Usuario : Trocou(contas[u].senha, u)

\* So was the one that updatePassword has been shown.
Mostradas ==
    \A r \in Requisicao : (fase[r] # "nova" /\ pedido[r].op = "updatePassword") =>
        Trocou(pedido[r].antes, pedido[r].alvo)

\* An active account was activated by a finished confirmation of its own.
Ativas ==
    \A u \in Usuario : contas[u].ativada =>
        \E r \in Requisicao : Atendida(r, "confirmActivation", u)

IInv ==
    /\ TypeOK /\ Fases /\ Tokens /\ Codigos /\ Pedidos /\ Senhas /\ Mostradas /\ Ativas
    /\ TokenGastoNaoVolta

\* A finished request stays as it is, and one that has set a password has.
Duram == \A s \in Requisicao :
    /\ fase[s] = "feita" => fase'[s] = "feita" /\ pedido'[s] = pedido[s]
    /\ fase[s] \in {"trocada", "feita", "semLimpar"} =>
          fase'[s] \in {"trocada", "feita", "semLimpar"} /\ pedido'[s] = pedido[s]

\* What finished requests have stored stays stored by them.
LEMMA Permanece ==
    ASSUME Duram
    PROVE  /\ \A op, u : \A s \in Requisicao : Atendida(s, op, u) => Atendida(s, op, u)'
           /\ \A c, u : CodigoDe(c, u) => CodigoDe(c, u)'
           /\ \A u : \A s \in Requisicao \cup {Nulo} : Trocou(s, u) => Trocou(s, u)'
<1>1. \A op, u : \A s \in Requisicao : Atendida(s, op, u) => Atendida(s, op, u)'
  BY DEF Duram, Atendida
<1>2. ASSUME NEW c, NEW u, CodigoDe(c, u) PROVE CodigoDe(c, u)'
  BY <1>2 DEF Duram, Atendida, CodigoDe
<1>3. \A u : \A s \in Requisicao \cup {Nulo} : Trocou(s, u) => Trocou(s, u)'
  BY DEF Duram, Trocou, SenhaDe
<1> QED BY <1>1, <1>2, <1>3

-----------------------------------------------------------------------------
(* Init.                                                                   *)

\* The initial state satisfies the invariant.
LEMMA Inicio == Init => IInv
BY Valores, NuloNaoEhPedido
   DEF Init, IInv, TypeOK, Fases, Tokens, Codigos, Pedidos, Senhas, Mostradas, Trocou, SenhaDe,
       Ativas, TokenGastoNaoVolta, Redefiniu, Conta

-----------------------------------------------------------------------------
(* Reading.                                                                *)

\* A first read asks for p, of which the following is true.
Lido(p) ==
    /\ p \in Pedido
    /\ p.op = "confirmResetPassword" => p.token # Nulo /\ contas[p.alvo].token = p.token
    /\ p.op = "confirmActivation" => p.codigo # Nulo
    /\ p.op = "updatePassword" => p.antes = contas[p.alvo].senha

\* Every first read is one.
LEMMA Leitura ==
    ASSUME IInv, NEW r \in Requisicao, Comeca(r)
    PROVE  \E p : Lido(p) /\ Ler(r, p)
<1> USE DEF Lido, Pedido, Operacao, Novo
<1>0. TypeOK BY DEF IInv
<1>1. CASE LerRequestActivation(r) BY <1>1 DEF LerRequestActivation
<1>2. CASE LerConfirmActivation(r) BY <1>2, Valores DEF LerConfirmActivation
<1>3. CASE LerRequestReset(r) BY <1>3 DEF LerRequestReset
<1>4. CASE LerConfirmReset(r) BY <1>0, <1>4 DEF LerConfirmReset, TypeOK, Conta
<1>5. CASE LerUpdatePassword(r) BY <1>0, <1>5 DEF LerUpdatePassword, TypeOK, Conta
<1>6. CASE LerUpdate(r) BY <1>6 DEF LerUpdate
<1> QED BY <1>1, <1>2, <1>3, <1>4, <1>5, <1>6 DEF Comeca

\* A first read changes phase and request of r only, which was new.
LEMMA PreservaLer ==
    ASSUME IInv, NEW r \in Requisicao, NEW p, Lido(p), Ler(r, p)
    PROVE  IInv'
<1> USE DEF IInv
<1>1. /\ fase[r] = "nova" /\ fase' = [fase EXCEPT ![r] = "lida"]
      /\ pedido' = [pedido EXCEPT ![r] = p] /\ contas' = contas
  BY DEF Ler
<1>2. p \in Pedido /\ p # Nulo
  BY NuloNaoEhPedido DEF Lido
<1>3. TypeOK'
  BY <1>1, <1>2 DEF TypeOK, Ler
<1>4. \A s \in Requisicao : s # r => fase'[s] = fase[s] /\ pedido'[s] = pedido[s]
  BY <1>1 DEF TypeOK
<1>5. fase'[r] = "lida" /\ pedido'[r] = p
  BY <1>1 DEF TypeOK
<1>6. Duram
  BY <1>1, <1>4 DEF Duram
<1>7. Fases'
  BY <1>2, <1>4, <1>5 DEF Fases
<1>8. \A u \in Usuario : contas[u] \in Conta
  BY DEF TypeOK
<1>9. Tokens'
  BY <1>1, <1>6, <1>8, Permanece DEF Tokens, Conta
<1>10. Codigos'
  BY <1>1, <1>6, Permanece DEF Codigos
<1>11. Pedidos'
  <2> SUFFICES ASSUME NEW s \in Requisicao, fase'[s] # "nova" PROVE Pedidos!(s)!2'
    BY DEF Pedidos
  <2>1. CASE s = r
    <3>1. p.op = "confirmResetPassword" =>
             p.token # Nulo /\ Atendida(p.token, "requestResetPassword", p.alvo)
      BY <1>2 DEF Lido, Tokens, Pedido
    <3>2. p.op = "confirmResetPassword" => p.token \in Requisicao
      BY <1>2, <3>1 DEF Pedido
    <3> QED BY <2>1, <1>5, <1>6, <3>1, <3>2, Permanece DEF Lido
  <2>2. CASE s # r
    <3>1. fase'[s] = fase[s] /\ pedido'[s] = pedido[s] /\ pedido[s] \in Pedido
      BY <2>2, <1>4 DEF Fases, TypeOK
    <3> QED BY <3>1, <1>6, Permanece DEF Pedidos, Pedido
  <2> QED BY <2>1, <2>2
<1>12. Senhas' /\ Mostradas'
  <2>1. \A u \in Usuario : contas[u].senha \in Requisicao \cup {Nulo}
    BY <1>8 DEF Conta
  <2>2. Senhas'
    BY <1>1, <1>6, <2>1, Permanece DEF Senhas
  <2> SUFFICES ASSUME NEW s \in Requisicao, fase'[s] # "nova", pedido'[s].op = "updatePassword"
               PROVE  Trocou(pedido[s].antes, pedido[s].alvo)'
    BY <2>2 DEF Mostradas
  <2>3. CASE s = r
    <3>1. p.alvo \in Usuario /\ p.antes = contas[p.alvo].senha
      BY <1>2, <1>5, <2>3 DEF Lido, Pedido
    <3>2. Trocou(p.antes, p.alvo)'
      BY <1>6, <2>1, <3>1, Permanece DEF Senhas
    <3> QED BY <1>5, <2>3, <3>2 DEF Trocou, SenhaDe
  <2>4. CASE s # r
    <3>1. fase[s] # "nova" /\ pedido'[s] = pedido[s] /\ pedido[s] \in Pedido
      BY <2>4, <1>4 DEF Fases, TypeOK
    <3>2. Trocou(pedido[s].antes, pedido[s].alvo)
      BY <3>1 DEF Mostradas
    <3>3. pedido[s].antes \in Requisicao \cup {Nulo}
      BY <3>1 DEF Pedido
    <3> QED BY <1>6, <3>1, <3>2, <3>3, Permanece DEF Trocou, SenhaDe
  <2> QED BY <2>3, <2>4
<1>13. Ativas'
  BY <1>1, <1>6, Permanece DEF Ativas
<1>14. TokenGastoNaoVolta'
  BY <1>1, <1>4, <1>5 DEF TokenGastoNaoVolta, Redefiniu
<1> QED BY <1>3, <1>7, <1>9, <1>10, <1>11, <1>12, <1>13, <1>14

-----------------------------------------------------------------------------
(* Going on.                                                               *)

\* r, at phase de, goes on to phase a and nobody else does.
Avanca(r, de, a) ==
    /\ fase[r] = de
    /\ de \in {"lida", "conferida", "trocada"}
    /\ a \in {"conferida", "trocada", "feita", "recusada", "interrompida", "semLimpar"}
    /\ a = "conferida" => pedido[r].op = "confirmActivation"
    /\ de = "trocada" => a \in {"feita", "semLimpar"}
    /\ a \in {"trocada", "semLimpar"} => pedido[r].op = "confirmResetPassword"
    /\ fase' = [fase EXCEPT ![r] = a]
    /\ UNCHANGED <<pedido, isolada>>

\* What such a step keeps, whatever it writes to the accounts.
LEMMA Avanco ==
    ASSUME TypeOK, Fases, NEW r \in Requisicao, NEW de, NEW a, Avanca(r, de, a)
    PROVE  /\ \A s \in Requisicao : s # r => fase'[s] = fase[s]
           /\ fase'[r] = a
           /\ pedido' = pedido /\ pedido[r] \in Pedido
           /\ Duram /\ Fases'
           /\ contas' \in [Usuario -> Conta] => TypeOK'
<1> USE DEF Avanca
<1>1. /\ \A s \in Requisicao : s # r => fase'[s] = fase[s]
      /\ fase'[r] = a
  BY DEF TypeOK
<1>2. pedido[r] \in Pedido
  BY DEF TypeOK, Fases
<1>3. Duram
  BY <1>1 DEF Duram
<1>4. Fases'
  BY <1>1 DEF Fases
<1>5. contas' \in [Usuario -> Conta] => TypeOK'
  BY DEF TypeOK
<1> QED BY <1>1, <1>2, <1>3, <1>4, <1>5

\* The parts of the invariant about requests that such a step keeps, if what it
\* does to the request r itself is in order.
LEMMA AvancoPedidos ==
    ASSUME IInv, NEW r \in Requisicao, NEW de, NEW a, Avanca(r, de, a),
           a = "conferida" \/ (a = "feita" /\ pedido[r].op = "confirmActivation") =>
               CodigoDe(pedido[r].codigo, pedido[r].alvo)
    PROVE  Pedidos' /\ Mostradas'
<1>1. /\ \A s \in Requisicao : s # r => fase'[s] = fase[s]
      /\ fase'[r] = a
      /\ pedido' = pedido /\ Duram
  BY Avanco DEF IInv
<1>2. fase[r] # "nova"
  BY DEF Avanca
<1> SUFFICES ASSUME NEW s \in Requisicao, fase'[s] # "nova"
             PROVE  /\ Pedidos!(s)!2'
                    /\ pedido[s].op = "updatePassword" => Trocou(pedido[s].antes, pedido[s].alvo)'
  BY <1>1 DEF Pedidos, Mostradas
<1>3. fase[s] # "nova" /\ pedido[s] \in Pedido
  BY <1>1, <1>2 DEF IInv, TypeOK, Fases
<1>4. /\ pedido[s].op = "confirmResetPassword" =>
            /\ pedido[s].token # Nulo
            /\ Atendida(pedido[s].token, "requestResetPassword", pedido[s].alvo)
      /\ pedido[s].op = "confirmActivation" => pedido[s].codigo # Nulo
  BY <1>3 DEF IInv, Pedidos
<1>5. pedido[s].token # Nulo => pedido[s].token \in Requisicao
  BY <1>3 DEF Pedido
<1>6. fase'[s] = "conferida" \/ (fase'[s] = "feita" /\ pedido[s].op = "confirmActivation") =>
          CodigoDe(pedido[s].codigo, pedido[s].alvo)
  BY <1>1, <1>3 DEF IInv, Pedidos
<1>7. pedido[s].op = "updatePassword" => Trocou(pedido[s].antes, pedido[s].alvo)'
  <2>1. pedido[s].op = "updatePassword" => Trocou(pedido[s].antes, pedido[s].alvo)
    BY <1>3 DEF IInv, Mostradas
  <2>2. pedido[s].antes \in Requisicao \cup {Nulo}
    BY <1>3 DEF Pedido
  <2>3. Trocou(pedido[s].antes, pedido[s].alvo) => Trocou(pedido[s].antes, pedido[s].alvo)'
    BY <1>1, <2>2, Permanece DEF Trocou, SenhaDe
  <2> QED BY <2>1, <2>3
<1> QED BY <1>1, <1>4, <1>5, <1>6, <1>7, Permanece

\* Such a step that leaves the accounts alone.
LEMMA PreservaSemEscrita ==
    ASSUME IInv, NEW r \in Requisicao, NEW de, NEW a, Avanca(r, de, a),
           UNCHANGED contas, a # "feita",
           a = "conferida" => CodigoDe(pedido[r].codigo, pedido[r].alvo)
    PROVE  IInv'
<1>1. /\ \A s \in Requisicao : s # r => fase'[s] = fase[s]
      /\ fase'[r] = a
      /\ pedido' = pedido /\ Duram /\ Fases' /\ TypeOK'
  BY Avanco DEF IInv, TypeOK
<1>2. Pedidos' /\ Mostradas'
  BY AvancoPedidos
<1>3. Tokens' /\ Codigos' /\ Ativas'
  BY <1>1, Permanece DEF IInv, Tokens, Codigos, Ativas, TypeOK, Conta
<1>4. Senhas'
  BY <1>1 DEF IInv, Senhas, Trocou, SenhaDe, TypeOK, Conta, Avanca
<1>5. TokenGastoNaoVolta'
  BY <1>1 DEF IInv, TokenGastoNaoVolta, Redefiniu
<1> QED BY <1>1, <1>2, <1>3, <1>4, <1>5 DEF IInv


\* saveCodigoAtivacao: the code is the one of the request itself.
LEMMA PreservaSalvarCodigo ==
    ASSUME IInv, NEW r \in Requisicao, SalvarCodigo(r) PROVE IInv'
<1>1. Avanca(r, "lida", "feita") /\ pedido[r].op = "requestActivation"
  BY DEF SalvarCodigo, Passo, Avanca
<1>2. /\ \A s \in Requisicao : s # r => fase'[s] = fase[s]
      /\ fase'[r] = "feita"
      /\ pedido' = pedido /\ pedido[r] \in Pedido /\ Duram /\ Fases'
      /\ contas' \in [Usuario -> Conta] => TypeOK'
  BY <1>1, Avanco DEF IInv
<1> DEFINE u == pedido[r].alvo
<1>3. /\ u \in Usuario /\ contas' \in [Usuario -> Conta]
      /\ contas'[u].codigo = pedido[r].codigo
      /\ \A v \in Usuario : v # u => contas'[v] = contas[v]
      /\ \A v \in Usuario : /\ contas'[v].token = contas[v].token
                            /\ contas'[v].senha = contas[v].senha
                            /\ contas'[v].ativada = contas[v].ativada
  BY <1>2 DEF IInv, TypeOK, Conta, Pedido, SalvarCodigo
<1>4. Pedidos' /\ Mostradas'
  BY <1>1, AvancoPedidos
<1>5. Tokens' /\ Ativas'
  BY <1>2, <1>3, Permanece DEF IInv, Tokens, Ativas, TypeOK, Conta
<1>6. CodigoDe(pedido[r].codigo, u)'
  BY <1>1, <1>2 DEF CodigoDe, Atendida
<1>7. Codigos'
  BY <1>2, <1>3, <1>6, Permanece DEF IInv, Codigos
<1>8. Senhas'
  BY <1>1, <1>2, <1>3 DEF IInv, Senhas, Trocou, SenhaDe, TypeOK, Conta, Avanca
<1>9. TokenGastoNaoVolta'
  BY <1>1, <1>2, <1>3 DEF IInv, TokenGastoNaoVolta, Redefiniu
<1> QED BY <1>2, <1>3, <1>4, <1>5, <1>7, <1>8, <1>9 DEF IInv

\* ativarUsuario: the code compared before had been stored for the account.
LEMMA PreservaAtivar ==
    ASSUME IInv, NEW r \in Requisicao, Ativar(r) PROVE IInv'
<1>1. Avanca(r, "conferida", "feita") /\ pedido[r].op = "confirmActivation"
  BY DEF Ativar, Passo, Avanca
<1>2. /\ \A s \in Requisicao : s # r => fase'[s] = fase[s]
      /\ fase'[r] = "feita"
      /\ pedido' = pedido /\ pedido[r] \in Pedido /\ Duram /\ Fases'
      /\ contas' \in [Usuario -> Conta] => TypeOK'
  BY <1>1, Avanco DEF IInv
<1> DEFINE u == pedido[r].alvo
<1>3. /\ u \in Usuario /\ contas' \in [Usuario -> Conta]
      /\ contas'[u].codigo = Nulo
      /\ \A v \in Usuario : v # u => contas'[v] = contas[v]
      /\ \A v \in Usuario : /\ contas'[v].token = contas[v].token
                            /\ contas'[v].senha = contas[v].senha
  <2> DEFINE l == [contas[u] EXCEPT !.ativada = TRUE, !.codigo = Nulo, !.codigoVale = FALSE]
  <2>1. u \in Usuario /\ contas \in [Usuario -> Conta]
    BY <1>2 DEF IInv, TypeOK, Pedido
  <2>2. contas' = [contas EXCEPT ![u] = l]
    BY DEF Ativar
  <2>a. contas[u] \in Conta
    BY <2>1
  <2>b. l \in Conta
    BY <2>a DEF Conta
  <2>3. /\ l \in Conta /\ l.codigo = Nulo
        /\ l.token = contas[u].token /\ l.senha = contas[u].senha
    BY <2>a, <2>b DEF Conta
  <2> HIDE DEF l
  <2> QED BY <2>1, <2>2, <2>3
<1>4. Pedidos' /\ Mostradas'
  <2>1. CodigoDe(pedido[r].codigo, u)
    BY <1>1 DEF IInv, Pedidos, Avanca
  <2> QED BY <1>1, <2>1, AvancoPedidos
<1>5. Tokens' /\ Codigos'
  BY <1>2, <1>3, Permanece DEF IInv, Tokens, Codigos, TypeOK, Conta
<1>6. Ativas'
  <2>1. Atendida(r, "confirmActivation", u)'
    BY <1>1, <1>2 DEF Atendida
  <2> QED BY <1>2, <1>3, <2>1, Permanece DEF IInv, Ativas
<1>7. Senhas'
  BY <1>1, <1>2, <1>3 DEF IInv, Senhas, Trocou, SenhaDe, TypeOK, Conta, Avanca
<1>8. TokenGastoNaoVolta'
  BY <1>1, <1>2, <1>3 DEF IInv, TokenGastoNaoVolta, Redefiniu
<1> QED BY <1>2, <1>3, <1>4, <1>5, <1>6, <1>7, <1>8 DEF IInv

\* saveResetToken: the token is new, so no finished reset has used it.
LEMMA PreservaSalvarToken ==
    ASSUME IInv, NEW r \in Requisicao, SalvarToken(r) PROVE IInv'
<1>1. Avanca(r, "lida", "feita") /\ pedido[r].op = "requestResetPassword"
  BY DEF SalvarToken, Passo, Avanca
<1>2. /\ \A s \in Requisicao : s # r => fase'[s] = fase[s]
      /\ fase'[r] = "feita"
      /\ pedido' = pedido /\ pedido[r] \in Pedido /\ Duram /\ Fases'
      /\ contas' \in [Usuario -> Conta] => TypeOK'
  BY <1>1, Avanco DEF IInv
<1> DEFINE u == pedido[r].alvo
<1>3. /\ u \in Usuario /\ contas' \in [Usuario -> Conta]
      /\ contas'[u].token = r
      /\ \A v \in Usuario : v # u => contas'[v] = contas[v]
      /\ \A v \in Usuario : /\ contas'[v].codigo = contas[v].codigo
                            /\ contas'[v].senha = contas[v].senha
                            /\ contas'[v].ativada = contas[v].ativada
  BY <1>2 DEF IInv, TypeOK, Conta, Pedido, SalvarToken
<1>4. Pedidos' /\ Mostradas'
  BY <1>1, AvancoPedidos
<1>5. Codigos' /\ Ativas'
  BY <1>2, <1>3, Permanece DEF IInv, Codigos, Ativas
<1>6. Tokens'
  <2>1. Atendida(r, "requestResetPassword", u)'
    BY <1>1, <1>2 DEF Atendida
  <2>2. ASSUME NEW v \in Usuario, v # u, contas[v].token # Nulo
        PROVE  Atendida(contas[v].token, "requestResetPassword", v)'
    <3>1. contas'[v] = contas[v] /\ contas[v].token \in Requisicao
      BY <1>3, <2>2 DEF IInv, TypeOK, Conta
    <3>2. Atendida(contas[v].token, "requestResetPassword", v)
      BY <2>2 DEF IInv, Tokens
    <3>3. fase'[contas[v].token] = "feita" /\ pedido' = pedido
      BY <1>2, <3>1, <3>2 DEF Duram, Atendida
    <3> QED BY <3>1, <3>2, <3>3 DEF Atendida
  <2>3. \A v \in Usuario \ {u} : contas'[v].token = contas[v].token
    BY <1>3
  <2>4. Atendida(contas[u].token, "requestResetPassword", u)'
    BY <1>2, <1>3, <2>1 DEF Atendida
  <2> SUFFICES ASSUME NEW v \in Usuario, contas'[v].token # Nulo
               PROVE  Atendida(contas[v].token, "requestResetPassword", v)'
    BY DEF Tokens
  <2>5. CASE v = u
    BY <1>2, <2>4, <2>5
  <2>6. CASE v # u
    <3>1. contas[v].token # Nulo
      BY <2>3, <2>6
    <3> QED BY <2>2, <2>6, <3>1
  <2> QED BY <2>5, <2>6
<1>7. Senhas'
  BY <1>1, <1>2, <1>3 DEF IInv, Senhas, Trocou, SenhaDe, TypeOK, Conta, Avanca
<1>8. TokenGastoNaoVolta'
  <2> SUFFICES ASSUME NEW s \in Requisicao, (Redefiniu(s) /\ fase[s] = "feita")', NEW v \in Usuario
               PROVE  contas'[v].token # pedido[s].token
    BY <1>2 DEF TokenGastoNaoVolta
  <2>1. s # r /\ Redefiniu(s) /\ fase[s] = "feita"
    BY <1>1, <1>2 DEF Redefiniu
  <2>2. fase[pedido[s].token] = "feita"
    BY <2>1 DEF IInv, Pedidos, Redefiniu, Atendida
  <2>3. pedido[s].token # r
    BY <1>1, <2>2 DEF Avanca
  <2>4. contas[v].token # pedido[s].token
    BY <2>1 DEF IInv, TokenGastoNaoVolta
  <2> QED BY <1>3, <2>3, <2>4
<1> QED BY <1>2, <1>3, <1>4, <1>5, <1>6, <1>7, <1>8 DEF IInv

\* The password is written: by a reset, a change of password or an update.
LEMMA PreservaSenha ==
    ASSUME IInv, NEW r \in Requisicao, RedefinirSenha(r) \/ TrocarSenha(r) \/ AtualizarConta(r)
    PROVE  IInv'
<1>1. PICK a \in {"trocada", "feita"} :
         /\ Avanca(r, "lida", a)
         /\ a = "trocada" => pedido[r].op = "confirmResetPassword"
         /\ a = "feita" => pedido[r].op \in {"updatePassword", "update"}
  BY DEF RedefinirSenha, TrocarSenha, AtualizarConta, Passo, Avanca
<1>2. /\ \A s \in Requisicao : s # r => fase'[s] = fase[s]
      /\ fase'[r] = a
      /\ pedido' = pedido /\ pedido[r] \in Pedido /\ Duram /\ Fases'
      /\ contas' \in [Usuario -> Conta] => TypeOK'
  BY <1>1, Avanco DEF IInv
<1> DEFINE u == pedido[r].alvo
<1>3. /\ u \in Usuario /\ contas' \in [Usuario -> Conta]
      /\ contas'[u].senha = r
      /\ \A v \in Usuario : v # u => contas'[v] = contas[v]
      /\ \A v \in Usuario : /\ contas'[v].codigo = contas[v].codigo
                            /\ contas'[v].token = contas[v].token
                            /\ contas'[v].ativada = contas[v].ativada
  <2> DEFINE l == [contas[u] EXCEPT !.senha = r]
  <2>1. u \in Usuario /\ contas \in [Usuario -> Conta]
    BY <1>2 DEF IInv, TypeOK, Pedido
  <2>2. contas' = [contas EXCEPT ![u] = l]
    BY DEF RedefinirSenha, TrocarSenha, AtualizarConta, Senha
  <2>3. contas[u] \in Conta
    BY <2>1
  <2>4. l \in Conta
    BY <2>3 DEF Conta
  <2>5. /\ l.senha = r /\ l.codigo = contas[u].codigo
        /\ l.token = contas[u].token /\ l.ativada = contas[u].ativada
    BY <2>3 DEF Conta
  <2> HIDE DEF l
  <2> QED BY <2>1, <2>2, <2>4, <2>5
<1>4. Pedidos' /\ Mostradas'
  BY <1>1, AvancoPedidos
<1>5. Tokens' /\ Codigos' /\ Ativas'
  BY <1>2, <1>3, Permanece DEF IInv, Tokens, Codigos, Ativas, TypeOK, Conta
<1>6. Senhas'
  BY <1>1, <1>2, <1>3 DEF IInv, Senhas, Trocou, SenhaDe, TypeOK, Conta, Avanca
<1>7. TokenGastoNaoVolta'
  BY <1>1, <1>2, <1>3 DEF IInv, TokenGastoNaoVolta, Redefiniu
<1> QED BY <1>2, <1>3, <1>4, <1>5, <1>6, <1>7 DEF IInv

\* clearResetToken: the token just used is in no other row, since it was drawn
\* for this account.
LEMMA PreservaLimparToken ==
    ASSUME IInv, NEW r \in Requisicao, LimparToken(r) PROVE IInv'
<1>1. Avanca(r, "trocada", "feita") /\ pedido[r].op = "confirmResetPassword"
  BY DEF LimparToken, Passo, Avanca
<1>2. /\ \A s \in Requisicao : s # r => fase'[s] = fase[s]
      /\ fase'[r] = "feita"
      /\ pedido' = pedido /\ pedido[r] \in Pedido /\ Duram /\ Fases'
      /\ contas' \in [Usuario -> Conta] => TypeOK'
  BY <1>1, Avanco DEF IInv
<1> DEFINE u == pedido[r].alvo
<1>3. /\ u \in Usuario /\ contas' \in [Usuario -> Conta]
      /\ contas'[u].token = Nulo
      /\ \A v \in Usuario : v # u => contas'[v] = contas[v]
      /\ \A v \in Usuario : /\ contas'[v].codigo = contas[v].codigo
                            /\ contas'[v].senha = contas[v].senha
                            /\ contas'[v].ativada = contas[v].ativada
  BY <1>2 DEF IInv, TypeOK, Conta, Pedido, LimparToken
<1>4. Pedidos' /\ Mostradas'
  BY <1>1, AvancoPedidos
<1>5. Codigos' /\ Ativas'
  BY <1>2, <1>3, Permanece DEF IInv, Codigos, Ativas
<1>6. Tokens'
  BY <1>2, <1>3, Permanece DEF IInv, Tokens, TypeOK, Conta
<1>7. Senhas'
  BY <1>1, <1>2, <1>3 DEF IInv, Senhas, Trocou, SenhaDe, TypeOK, Conta, Avanca
<1>8. TokenGastoNaoVolta'
  <2> SUFFICES ASSUME NEW s \in Requisicao, (Redefiniu(s) /\ fase[s] = "feita")', NEW v \in Usuario
               PROVE  contas'[v].token # pedido[s].token
    BY <1>2 DEF TokenGastoNaoVolta
  <2>1. fase[s] # "nova" /\ pedido[s].op = "confirmResetPassword"
    BY <1>1, <1>2 DEF Redefiniu, Avanca
  <2>2. /\ pedido[s].token # Nulo
        /\ Atendida(pedido[s].token, "requestResetPassword", pedido[s].alvo)
    BY <2>1 DEF IInv, Pedidos
  <2>3. CASE v = u
    BY <1>3, <2>2, <2>3
  <2>4. CASE v # u /\ s # r
    <3>1. Redefiniu(s) /\ fase[s] = "feita"
      BY <1>2, <2>4 DEF Redefiniu
    <3> QED BY <1>3, <2>4, <3>1 DEF IInv, TokenGastoNaoVolta
  <2>5. CASE v # u /\ s = r
    BY <1>3, <2>2, <2>5 DEF IInv, Tokens, Atendida
  <2> QED BY <2>3, <2>4, <2>5
<1> QED BY <1>2, <1>3, <1>4, <1>5, <1>6, <1>7, <1>8 DEF IInv

\* Expiry, removal and restoration touch none of the columns concerned.
LEMMA PreservaDeFora ==
    ASSUME IInv, NEW u \in Usuario, NEW l \in Conta, DeFora(u, l),
           l.token = contas[u].token, l.codigo = contas[u].codigo,
           l.senha = contas[u].senha, l.ativada = contas[u].ativada
    PROVE  IInv'
<1>1. /\ contas' \in [Usuario -> Conta] /\ fase' = fase /\ pedido' = pedido
      /\ \A v \in Usuario : /\ contas'[v].codigo = contas[v].codigo
                            /\ contas'[v].token = contas[v].token
                            /\ contas'[v].senha = contas[v].senha
                            /\ contas'[v].ativada = contas[v].ativada
  BY DEF DeFora, IInv, TypeOK
<1>2. isolada' \in [Requisicao -> BOOLEAN]
  BY DEF DeFora, IInv, TypeOK
<1>3. TypeOK' /\ Fases'
  BY <1>1, <1>2 DEF IInv, TypeOK, Fases
<1>4. Tokens' /\ Codigos' /\ Pedidos' /\ Senhas' /\ Mostradas' /\ Ativas'
  BY <1>1 DEF IInv, Tokens, Codigos, Pedidos, Senhas, Mostradas, Trocou, SenhaDe, Ativas,
              Atendida, CodigoDe
<1>5. TokenGastoNaoVolta'
  BY <1>1 DEF IInv, TokenGastoNaoVolta, Redefiniu
<1> QED BY <1>3, <1>4, <1>5 DEF IInv

-----------------------------------------------------------------------------
(* Requests that nothing overlaps.                                         *)

\* What entitles a request p, at phase f, to go on, in terms of the row l.
Justo(f, p, l) ==
    /\ ~l.removida
    /\ p.op = "requestActivation" => ~l.ativada
    /\ p.op = "confirmActivation" =>
          ~l.ativada /\ l.codigoVale /\ (f = "conferida" => l.codigo = p.codigo)
    /\ p.op = "confirmResetPassword" => l.tokenVale /\ l.token = p.token
    /\ p.op = "updatePassword" /\ f = "lida" => l.senha = p.antes

\* An open request that is still alone is entitled, on the row as it is now, to what
\* it read.
Isoladas ==
    \A r \in Abertas : isolada[r] =>
        Abertas = {r} /\ Justo(fase[r], pedido[r], contas[pedido[r].alvo])

\* Every first read finds what entitles its request.
LEMMA LeituraJusta ==
    ASSUME IInv, NEW r \in Requisicao, Comeca(r)
    PROVE  \E p \in Pedido : Justo("lida", p, contas[p.alvo]) /\ Ler(r, p)
<1>0. \A u \in Usuario : contas[u] \in Conta
  BY DEF IInv, TypeOK
<1> USE DEF Pedido, Operacao, Novo, Justo
<1>1. CASE LerRequestActivation(r) BY <1>1 DEF LerRequestActivation
<1>2. CASE LerConfirmActivation(r) BY <1>2 DEF LerConfirmActivation
<1>3. CASE LerRequestReset(r) BY <1>3 DEF LerRequestReset
<1>4. CASE LerConfirmReset(r) BY <1>0, <1>4 DEF LerConfirmReset, Conta
<1>5. CASE LerUpdatePassword(r) BY <1>0, <1>5 DEF LerUpdatePassword, Conta
<1>6. CASE LerUpdate(r) BY <1>6 DEF LerUpdate
<1> QED BY <1>1, <1>2, <1>3, <1>4, <1>5, <1>6 DEF Comeca

\* Who is alone when a request begins was not there before.
LEMMA LerIsoladas ==
    ASSUME IInv, Isoladas, NEW r \in Requisicao, NEW p \in Pedido,
           Justo("lida", p, contas[p.alvo]), Ler(r, p)
    PROVE  Isoladas'
<1>1. /\ fase[r] = "nova" /\ fase' = [fase EXCEPT ![r] = "lida"]
      /\ pedido' = [pedido EXCEPT ![r] = p] /\ contas' = contas
      /\ \A s \in Requisicao : isolada'[s] <=> s = r /\ Abertas = {}
  BY DEF Ler
<1>2. /\ fase'[r] = "lida" /\ pedido'[r] = p
      /\ \A s \in Requisicao : s # r => fase'[s] = fase[s]
  BY <1>1 DEF IInv, TypeOK
<1>3. Abertas' = Abertas \cup {r}
  BY <1>2 DEF Abertas
<1>4. \A s \in Abertas' : s \in Requisicao /\ (s # r => s \in Abertas)
  BY <1>3 DEF Abertas
<1>5. \A s \in Abertas' : isolada'[s] => s = r /\ Abertas = {}
  BY <1>1, <1>4
<1> QED BY <1>1, <1>2, <1>3, <1>5 DEF Isoladas

\* A request that goes on is the one that is alone, if there is one.
LEMMA AvancoIsoladas ==
    ASSUME IInv, Isoladas, NEW r \in Requisicao, NEW de, NEW a, Avanca(r, de, a),
           a \in {"conferida", "trocada"} =>
               (Justo(de, pedido[r], contas[pedido[r].alvo]) =>
                   Justo(a, pedido[r], contas'[pedido[r].alvo]))
    PROVE  Isoladas'
<1>1. /\ \A s \in Requisicao : s # r => fase'[s] = fase[s]
      /\ fase'[r] = a /\ pedido' = pedido /\ isolada' = isolada
  BY Avanco DEF IInv, Avanca
<1>2. r \in Abertas /\ fase[r] = de
  BY DEF Avanca, Abertas
<1>3. Abertas' \subseteq Abertas /\ (r \in Abertas' => a \in {"conferida", "trocada"})
  BY <1>1, <1>2 DEF Abertas, Avanca
<1> SUFFICES ASSUME NEW s \in Abertas', isolada[s]
             PROVE  Abertas' = {s} /\ Justo(fase'[s], pedido[s], contas'[pedido[s].alvo])
  BY <1>1 DEF Isoladas
<1>4. Abertas = {s} /\ Justo(fase[s], pedido[s], contas[pedido[s].alvo])
  BY <1>3 DEF Isoladas
<1>5. s = r
  BY <1>2, <1>4
<1> QED BY <1>1, <1>2, <1>3, <1>4, <1>5

\* Isoladas is kept by every step.
LEMMA PreservaIsoladas == IInv /\ Isoladas /\ [Next]_vars => Isoladas'
<1> SUFFICES ASSUME IInv, Isoladas, [Next]_vars PROVE Isoladas'
  OBVIOUS
<1>1. ASSUME NEW r \in Requisicao, Comeca(r) PROVE Isoladas'
  BY <1>1, LeituraJusta, LerIsoladas
<1>2. ASSUME NEW r \in Requisicao, Prossegue(r) PROVE Isoladas'
  <2>1. CASE Conferir(r)
    <3>1. Avanca(r, "lida", "conferida")
      BY <2>1 DEF Conferir, Passo, Avanca
    <3>2. contas' = contas /\ contas[pedido[r].alvo].codigo = pedido[r].codigo
          /\ pedido[r].op = "confirmActivation"
      BY <2>1 DEF Conferir, Passo
    <3> QED BY <3>1, <3>2, AvancoIsoladas DEF Justo
  <2>2. CASE RedefinirSenha(r)
    <3>1. Avanca(r, "lida", "trocada") /\ pedido[r].op = "confirmResetPassword"
      BY <2>2 DEF RedefinirSenha, Passo, Avanca
    <3>2. pedido[r].alvo \in Usuario /\ contas \in [Usuario -> Conta]
      BY <3>1, Avanco DEF IInv, TypeOK, Pedido
    <3>3. /\ contas'[pedido[r].alvo].removida = contas[pedido[r].alvo].removida
          /\ contas'[pedido[r].alvo].token = contas[pedido[r].alvo].token
          /\ contas'[pedido[r].alvo].tokenVale = contas[pedido[r].alvo].tokenVale
      BY <2>2, <3>2 DEF RedefinirSenha, Senha, Conta
    <3> QED BY <3>1, <3>3, AvancoIsoladas DEF Justo
  <2>3. CASE \/ SalvarCodigo(r) \/ RecusarCodigo(r) \/ Ativar(r) \/ SalvarToken(r)
             \/ LimparToken(r) \/ TrocarSenha(r) \/ AtualizarConta(r) \/ FalharReleitura(r)
    <3>1. \E de \in {"lida", "conferida", "trocada"}, a \in {"feita", "recusada"} : Avanca(r, de, a)
      BY <2>3 DEF SalvarCodigo, RecusarCodigo, Ativar, SalvarToken, LimparToken, TrocarSenha,
                  AtualizarConta, FalharReleitura, Passo, Avanca
    <3> QED BY <3>1, AvancoIsoladas
  <2>4. CASE Interromper(r)
    <3>1. \E de \in {"lida", "conferida", "trocada"}, a \in {"interrompida", "semLimpar"} :
             Avanca(r, de, a)
      BY <2>4 DEF Interromper, Abertas, Avanca, IInv, Fases
    <3> QED BY <3>1, AvancoIsoladas
  <2> QED BY <1>2, <2>1, <2>2, <2>3, <2>4 DEF Prossegue
<1>3. ASSUME NEW u \in Usuario, VencerCodigo(u) \/ VencerToken(u) \/ RemoverOuRestaurar(u)
      PROVE  Isoladas'
  <2>1. /\ isolada' = [r \in Requisicao |-> FALSE]
        /\ fase' = fase
    BY <1>3 DEF VencerCodigo, VencerToken, RemoverOuRestaurar, DeFora
  <2>2. Abertas' = Abertas /\ \A r \in Abertas : r \in Requisicao /\ ~isolada'[r]
    BY <2>1 DEF Abertas
  <2> QED BY <2>2 DEF Isoladas
<1>4. CASE UNCHANGED vars
  BY <1>4 DEF vars, Isoladas, Abertas
<1> QED BY <1>1, <1>2, <1>3, <1>4 DEF Next

-----------------------------------------------------------------------------
(* The theorems.                                                           *)

\* Every step keeps the invariant.
LEMMA Preserva == IInv /\ [Next]_vars => IInv'
<1> SUFFICES ASSUME IInv, [Next]_vars PROVE IInv'
  OBVIOUS
<1>1. ASSUME NEW r \in Requisicao, Comeca(r) PROVE IInv'
  BY <1>1, Leitura, PreservaLer
<1>2. ASSUME NEW r \in Requisicao, Prossegue(r) PROVE IInv'
  <2>1. CASE SalvarCodigo(r) BY <2>1, PreservaSalvarCodigo
  <2>2. CASE Conferir(r)
    <3>1. Avanca(r, "lida", "conferida") /\ pedido[r].op = "confirmActivation"
      BY <2>2 DEF Conferir, Passo, Avanca
    <3>2. pedido[r].codigo # Nulo /\ pedido[r].alvo \in Usuario
      BY <3>1 DEF Avanca, IInv, Pedidos, TypeOK, Fases, Pedido
    <3>3. CodigoDe(pedido[r].codigo, pedido[r].alvo)
      BY <2>2, <3>2 DEF Conferir, IInv, Codigos
    <3> QED BY <2>2, <3>1, <3>3, PreservaSemEscrita DEF Conferir
  <2>3. CASE RecusarCodigo(r)
    BY <2>3, PreservaSemEscrita DEF RecusarCodigo, Passo, Avanca
  <2>4. CASE Ativar(r) BY <2>4, PreservaAtivar
  <2>5. CASE SalvarToken(r) BY <2>5, PreservaSalvarToken
  <2>6. CASE RedefinirSenha(r) BY <2>6, PreservaSenha
  <2>7. CASE LimparToken(r) BY <2>7, PreservaLimparToken
  <2>8. CASE TrocarSenha(r) BY <2>8, PreservaSenha
  <2>9. CASE Interromper(r)
    <3> DEFINE a == IF fase[r] = "trocada" THEN "semLimpar" ELSE "interrompida"
    <3>1. Avanca(r, fase[r], a)
      BY <2>9 DEF Interromper, Abertas, Avanca, IInv, Fases, TypeOK
    <3>2. UNCHANGED contas
      BY <2>9 DEF Interromper
    <3> QED BY <3>1, <3>2, PreservaSemEscrita
  <2>10. CASE AtualizarConta(r) BY <2>10, PreservaSenha
  <2>11. CASE FalharReleitura(r)
    BY <2>11, PreservaSemEscrita DEF FalharReleitura, Passo, Avanca
  <2> QED BY <1>2, <2>1, <2>2, <2>3, <2>4, <2>5, <2>6, <2>7, <2>8, <2>9, <2>10, <2>11 DEF Prossegue
<1>3. ASSUME NEW u \in Usuario, VencerCodigo(u) \/ VencerToken(u) \/ RemoverOuRestaurar(u)
      PROVE  IInv'
  <2>1. contas[u] \in Conta
    BY DEF IInv, TypeOK
  <2>2. CASE VencerCodigo(u)
    BY <2>1, <2>2, PreservaDeFora DEF VencerCodigo, Conta
  <2>3. CASE VencerToken(u)
    BY <2>1, <2>3, PreservaDeFora DEF VencerToken, Conta
  <2>4. CASE RemoverOuRestaurar(u)
    BY <2>1, <2>4, PreservaDeFora DEF RemoverOuRestaurar, Conta
  <2> QED BY <1>3, <2>2, <2>3, <2>4
<1>4. CASE UNCHANGED vars
  BY <1>4 DEF vars, IInv, TypeOK, Fases, Tokens, Codigos, Pedidos, Senhas, Mostradas, Trocou,
      SenhaDe, Ativas, TokenGastoNaoVolta, Redefiniu, Atendida, CodigoDe
<1> QED BY <1>1, <1>2, <1>3, <1>4 DEF Next

\* The invariant holds in every reachable state.
THEOREM Indutivo == Spec => []IInv
BY Inicio, Preserva, PTL DEF Spec

\* Types, whatever the accounts, requests and codes.
THEOREM Tipos == Spec => []TypeOK
BY Indutivo, PTL DEF IInv

\* A password was set for its own account, by a session of it or by a token stored for
\* it (confirmResetPassword, updatePassword, update).
THEOREM SenhaAutorizada == Spec => []SenhaPorQuemPodia
<1>1. IInv => SenhaPorQuemPodia
  <2> SUFFICES ASSUME IInv, NEW u \in Usuario PROVE SenhaPorQuemPodia!(u)
    BY DEF SenhaPorQuemPodia
  <2> DEFINE r == contas[u].senha
  <2>1. SenhaDe(r, u)
    BY DEF IInv, Senhas, Trocou, SenhaDe
  <2>2. ASSUME r # Nulo
        PROVE  /\ r \in Requisicao /\ fase[r] \in {"trocada", "feita", "semLimpar"}
               /\ pedido[r].alvo = u
    BY <2>2 DEF IInv, Senhas, Trocou, SenhaDe, TypeOK, Conta
  <2>3. ASSUME r # Nulo, pedido[r].op = "confirmResetPassword" PROVE TokenDe(r, u)
    BY <2>2, <2>3 DEF IInv, Pedidos, TokenDe, Atendida
  <2>4. ASSUME r # Nulo, pedido[r].op = "updatePassword" PROVE SenhaDe(pedido[r].antes, u)
    BY <2>2, <2>4 DEF IInv, Mostradas, Trocou, SenhaDe
  <2> QED BY <2>1, <2>3, <2>4
<1> QED BY <1>1, Indutivo, PTL

\* The token of an answered reset is in no row any more (clearResetToken).
THEOREM TokenGasto == Spec => []TokenGastoNaoVolta
BY Indutivo, PTL DEF IInv

\* An active account was activated by a code stored for it (confirmActivation).
THEOREM AtivacaoComCodigo == Spec => []AtivadaPorCodigo
<1>1. IInv => AtivadaPorCodigo
  <2> SUFFICES ASSUME IInv, NEW u \in Usuario, contas[u].ativada
               PROVE  AtivadaPorCodigo!(u)!2
    BY DEF AtivadaPorCodigo
  <2>1. PICK r \in Requisicao : Atendida(r, "confirmActivation", u)
    BY DEF IInv, Ativas
  <2>2. CodigoDe(pedido[r].codigo, u)
    BY <2>1 DEF IInv, Pedidos, Atendida
  <2> QED BY <2>1, <2>2 DEF Atendida, CodigoDe
<1> QED BY <1>1, Indutivo, PTL

\* Isoladas holds in every reachable state.
THEOREM IsoladasValem == Spec => []Isoladas
<1>1. Init => Isoladas
  BY DEF Init, Isoladas, Abertas
<1> QED BY <1>1, PreservaIsoladas, Indutivo, PTL DEF Spec

\* A request during which nothing else happens writes only what the row as it is
\* then entitles it to (the handlers of auth.service.ts, statement by statement).
THEOREM JustificadasValem == Spec => JustificadaSeIsolada
<1> DEFINE A == \A r \in Requisicao :
                    (isolada[r] /\ contas' # contas /\ fase'[r] # fase[r]) =>
                        Justificada(r, contas[pedido[r].alvo])
<1>1. IInv /\ Isoladas /\ [Next]_vars => [A]_vars
  <2> SUFFICES ASSUME IInv, Isoladas, [Next]_vars, NEW r \in Requisicao, isolada[r],
                      contas' # contas, fase'[r] # fase[r]
               PROVE  Justificada(r, contas[pedido[r].alvo])
    OBVIOUS
  <2>1. PICK q \in Requisicao : \/ SalvarCodigo(q) \/ Ativar(q) \/ SalvarToken(q)
                                \/ RedefinirSenha(q) \/ LimparToken(q) \/ TrocarSenha(q)
                                \/ AtualizarConta(q)
    BY DEF Next, vars, Comeca, Prossegue, LerRequestActivation, LerConfirmActivation,
           LerRequestReset, LerConfirmReset, LerUpdatePassword, LerUpdate, Ler, Conferir,
           RecusarCodigo, FalharReleitura, Interromper, VencerCodigo, VencerToken, RemoverOuRestaurar, DeFora
  <2>2. q = r
    BY <2>1 DEF SalvarCodigo, Ativar, SalvarToken, RedefinirSenha, LimparToken, TrocarSenha,
                AtualizarConta, Passo, IInv, TypeOK
  <2>3. \/ pedido[r].op \in {"requestActivation", "requestResetPassword", "updatePassword",
                             "update", "confirmResetPassword"} /\ fase[r] = "lida"
        \/ pedido[r].op = "confirmActivation" /\ fase[r] = "conferida"
        \/ pedido[r].op = "confirmResetPassword" /\ fase[r] = "trocada"
    BY <2>1, <2>2 DEF SalvarCodigo, Ativar, SalvarToken, RedefinirSenha, LimparToken,
                      TrocarSenha, AtualizarConta, Passo
  <2>4. Justo(fase[r], pedido[r], contas[pedido[r].alvo])
    BY <2>3 DEF Isoladas, Abertas
  <2> QED BY <2>3, <2>4 DEF Justo, Justificada
<1> QED BY <1>1, Indutivo, IsoladasValem, PTL DEF Spec, JustificadaSeIsolada

-----------------------------------------------------------------------------
(* Sessions. A token says nothing of the account it was signed for, so the *)
(* invariant follows a session from the reading of the account (Abertos)   *)
(* over the first reading of the clock (Calculados) to the token           *)
(* (Emitidos).                                                             *)


Seg == SegundosAteProximoCorte(hora)

\* Until when u has had profile p.
Ate(u, p) == IF perfil[u] = p THEN agora ELSE deixou[u][p]

Relogio ==
    /\ \A c \in cortados : c <= agora
    /\ \A u \in Usuario : senhaEm[u] <= agora /\ \A p \in Perfil : deixou[u][p] <= agora

Aberto(r) ==
    /\ conta[r] # Nulo
    /\ inicio[r] <= agora /\ agora <= inicio[r] + Demora
    /\ inicio[r] <= Ate(conta[r].sub, conta[r].perfil)
    /\ conta[r].perfil = "portaria" => inicio[r] <= senhaEm[conta[r].sub]

Abertos == \A r \in Requisicao : Aberta(r) => Aberto(r)

Calculado(r) ==
    /\ prazo[r] \in Nat /\ prazo[r] <= Vida(conta[r].perfil)
    /\ inicio[r] <= lido[r] /\ lido[r] <= agora /\ agora <= lido[r] + Atraso
    /\ conta[r].perfil = "portaria" =>
          /\ lido[r] + prazo[r] <= agora + Seg
          /\ \A c \in cortados : c <= lido[r] \/ lido[r] + prazo[r] <= c

Calculados == \A r \in Requisicao : etapa[r] = "calculada" => Calculado(r)

Emitido(t) ==
    /\ t.exp <= Ate(t.sub, t.perfil) + Demora + Vida(t.perfil)
    /\ t.perfil = "portaria" =>
          /\ t.exp <= agora + Seg + Atraso
          /\ \A c \in cortados : c + Atraso < t.exp => c <= senhaEm[t.sub] + Demora

Emitidos == \A t \in tokens : t.tipo = "acesso" => Emitido(t)

SessoesInv == SessoesTypeOK /\ Relogio /\ Abertos /\ Calculados /\ Emitidos

-----------------------------------------------------------------------------
(* The cut-off.                                                            *)

\* The smaller of two numbers, and of those of them that are left.
LEMMA MenorDeDois ==
    ASSUME NEW a \in Nat, NEW b \in Nat, NEW S \in SUBSET {a, b}, S # {}
    PROVE  Menor(S) \in S /\ \A y \in S : Menor(S) <= y
<1>1. \E x \in S : \A y \in S : x <= y
  <2>1. CASE a \in S /\ (b \in S => a <= b)
    BY <2>1
  <2>2. CASE b \in S /\ (a \in S => b <= a)
    BY <2>2
  <2>3. a \in S \/ b \in S
    OBVIOUS
  <2>4. a <= b \/ b <= a
    OBVIOUS
  <2>. QED
    BY <2>1, <2>2, <2>3, <2>4
<1>. QED
  BY <1>1 DEF Menor

\* What the prazo to the next cut-off is at any second of the day.
LEMMA Prazo ==
    ASSUME SessoesTypeOK, NEW s \in 0..(Dia - 1)
    PROVE  LET n == SegundosAteProximoCorte(s)
           IN  /\ n \in 1..Dia
               /\ (s + n < Dia /\ s + n \in cortes)
                  \/ (s + n >= Dia /\ s + n - Dia \in cortes)
               /\ \A c \in cortes : c <= s \/ s + n <= c
               /\ \A c \in cortes : s + n <= c + Dia
<1>. DEFINE depois == {c \in cortes : s < c}
<1>1. PICK c1 \in Horario, c2 \in Horario : cortes = {c1, c2}
  BY DEF SessoesTypeOK
<1>2. Dia \in Nat /\ s \in Nat /\ s < Dia /\ \A c \in cortes : c \in Nat /\ c < Dia
  BY <1>1, Tempos
<1>3. Menor(cortes) \in cortes /\ \A y \in cortes : Menor(cortes) <= y
  BY <1>1, <1>2, MenorDeDois
<1>4. CASE depois # {}
  <2>1. Menor(depois) \in depois /\ \A y \in depois : Menor(depois) <= y
    BY <1>1, <1>2, <1>4, MenorDeDois
  <2>2. SegundosAteProximoCorte(s) = Menor(depois) - s
    BY <1>2, <1>4, <2>1 DEF SegundosAteProximoCorte, AoMenosUm
  <2>. QED
    BY <1>2, <2>1, <2>2
<1>5. CASE depois = {}
  <2>1. SegundosAteProximoCorte(s) = Dia - s + Menor(cortes)
    BY <1>2, <1>3, <1>5 DEF SegundosAteProximoCorte, AoMenosUm
  <2>2. \A c \in cortes : c <= s
    BY <1>2, <1>5
  <2>. QED
    BY <1>2, <1>3, <2>1, <2>2
<1>. QED
  BY <1>4, <1>5

\* The time to the cut-off ends on a cut-off and skips none.
LEMMA Exato == SessoesTypeOK => PrazoExato
<1>. SUFFICES ASSUME SessoesTypeOK PROVE PrazoExato
  OBVIOUS
<1>. DEFINE s == SegundosAteProximoCorte(hora)
            noDia(t) == IF t < Dia THEN t ELSE t - Dia
<1>1. hora \in 0..(Dia - 1) /\ Dia \in Nat
  BY Tempos DEF SessoesTypeOK
<1>2. \A c \in cortes : c \in 0..(Dia - 1)
  BY Tempos DEF SessoesTypeOK
<1>3. /\ s \in 1..Dia
      /\ (hora + s < Dia /\ hora + s \in cortes) \/ (hora + s >= Dia /\ hora + s - Dia \in cortes)
      /\ \A c \in cortes : c <= hora \/ hora + s <= c
      /\ \A c \in cortes : hora + s <= c + Dia
  BY <1>1, Prazo
<1>4. noDia(hora + s) \in cortes
  BY <1>1, <1>2, <1>3
<1>5. ASSUME NEW k \in 1..(s - 1) PROVE noDia(hora + k) \notin cortes
  <2>. HIDE DEF s
  <2>. QED
    BY <1>1, <1>2, <1>3, <1>5
<1>. QED
  BY <1>3, <1>4, <1>5 DEF PrazoExato

\* A second later the next cut-off is a second closer, unless it was reached.
LEMMA AvancaHora ==
    ASSUME SessoesTypeOK, Passar
    PROVE  /\ hora' \in 0..(Dia - 1)
           /\ SegundosAteProximoCorte(hora') \in 1..Dia
           /\ hora' \in cortes => Seg = 1
           /\ hora' \notin cortes => Seg = SegundosAteProximoCorte(hora') + 1
<1>. DEFINE m == hora'
<1>1. hora \in 0..(Dia - 1) /\ Dia \in Nat \ {0}
  BY Tempos DEF SessoesTypeOK
<1>2. m = IF hora + 1 = Dia THEN 0 ELSE hora + 1
  BY DEF Passar
<1>3. m \in 0..(Dia - 1)
  BY <1>1, <1>2
<1>4. \A c \in cortes : c \in 0..(Dia - 1)
  BY Tempos DEF SessoesTypeOK
<1>. DEFINE n == SegundosAteProximoCorte(hora)  k == SegundosAteProximoCorte(m)
<1>5. /\ n \in 1..Dia
      /\ (hora + n < Dia /\ hora + n \in cortes) \/ (hora + n >= Dia /\ hora + n - Dia \in cortes)
      /\ \A c \in cortes : c <= hora \/ hora + n <= c
      /\ \A c \in cortes : hora + n <= c + Dia
  BY <1>1, Prazo
<1>6. /\ k \in 1..Dia
      /\ (m + k < Dia /\ m + k \in cortes) \/ (m + k >= Dia /\ m + k - Dia \in cortes)
      /\ \A c \in cortes : c <= m \/ m + k <= c
      /\ \A c \in cortes : m + k <= c + Dia
  BY <1>3, Prazo
<1>. HIDE DEF n, k, m
<1>7. m \in cortes => n = 1
  BY <1>1, <1>2, <1>3, <1>5
<1>8. m \notin cortes => n = k + 1
  <2>. SUFFICES ASSUME m \notin cortes PROVE n = k + 1
    OBVIOUS
  <2>1. n # 1
    BY <1>1, <1>2, <1>3, <1>4, <1>5
  <2>2. CASE hora + 1 = Dia
    BY <2>1, <2>2, <1>1, <1>2, <1>4, <1>5, <1>6
  <2>3. CASE hora + 1 # Dia
    BY <2>1, <2>3, <1>1, <1>2, <1>4, <1>5, <1>6
  <2>. QED
    BY <2>2, <2>3
<1>. QED
  BY <1>3, <1>6, <1>7, <1>8 DEF n, k, m, Seg

-----------------------------------------------------------------------------
(* The invariant.                                                          *)

\* Numbers the arithmetic of the steps relies on.
LEMMA Numeros ==
    ASSUME SessoesTypeOK
    PROVE  /\ Dia \in Nat /\ Demora \in Nat /\ Atraso \in Nat
           /\ Validade \in Nat /\ Renovacao \in Nat
           /\ agora \in Nat /\ Seg \in 1..Dia
           /\ \A u \in Usuario, p \in Perfil : Ate(u, p) \in Nat /\ Vida(p) \in Nat
<1>1. hora \in 0..(Dia - 1) /\ Dia \in Nat
  BY Tempos DEF SessoesTypeOK
<1>. QED
  BY <1>1, Prazo, Tempos DEF SessoesTypeOK, Ate, Vida, Seg

\* The first second of the first day, without tokens.
LEMMA SessoesInicio == SessoesInit => SessoesInv
<1>. SUFFICES ASSUME SessoesInit PROVE SessoesInv
  OBVIOUS
<1>1. SessoesTypeOK
  BY Tempos DEF SessoesInit, SessoesTypeOK
<1>. QED
  BY <1>1 DEF SessoesInit, SessoesInv, Relogio, Abertos, Aberta, Calculados, Emitidos

\* A step that moves no clock and takes nothing back: what holds of the tokens
\* and of the requests it does not touch goes on holding.
Continua ==
    /\ SessoesTypeOK'
    /\ UNCHANGED relogio
    /\ \A u \in Usuario : senhaEm[u] <= senhaEm'[u] /\ senhaEm'[u] <= agora
    /\ \A u \in Usuario : \A p \in Perfil :
          Ate(u, p) <= Ate(u, p)' /\ deixou'[u][p] <= agora

\* Clock and second of the day stay in step while a request goes on.
LEMMA ContinuaRelogio == SessoesInv /\ Continua => Relogio'
  BY DEF SessoesInv, Continua, Relogio, relogio

\* The time to the cut-off is a function of the clock alone.
LEMMA ContinuaSeg == Continua => Seg' = Seg
  BY DEF Continua, relogio, Seg, SegundosAteProximoCorte

\* What dates an open request stays true while others go on.
LEMMA ContinuaAberto ==
    ASSUME SessoesInv, Continua, NEW r \in Requisicao, Aberto(r),
           conta'[r] = conta[r], inicio'[r] = inicio[r]
    PROVE  Aberto(r)'
<1>1. conta[r] \in Identidade
  BY DEF SessoesInv, SessoesTypeOK, Aberto
<1>2. conta[r].sub \in Usuario /\ conta[r].perfil \in Perfil
  BY <1>1 DEF Identidade
<1>3. /\ Ate(conta[r].sub, conta[r].perfil) <= Ate(conta[r].sub, conta[r].perfil)'
      /\ senhaEm[conta[r].sub] <= senhaEm'[conta[r].sub]
      /\ agora' = agora
  BY <1>2 DEF Continua, relogio, Ate
<1>4. /\ Ate(conta[r].sub, conta[r].perfil) \in Nat
      /\ Ate(conta[r].sub, conta[r].perfil)' \in Nat
      /\ inicio[r] \in Nat /\ senhaEm[conta[r].sub] \in Nat /\ senhaEm'[conta[r].sub] \in Nat
  BY <1>2 DEF SessoesInv, Continua, SessoesTypeOK, Ate
<1>. QED
  BY <1>3, <1>4 DEF Aberto

\* What was computed for a token stays true while others go on.
LEMMA ContinuaCalculado ==
    ASSUME Continua, NEW r \in Requisicao, Calculado(r),
           conta'[r] = conta[r], inicio'[r] = inicio[r], prazo'[r] = prazo[r], lido'[r] = lido[r]
    PROVE  Calculado(r)'
  BY ContinuaSeg DEF Calculado, Vida, Continua, relogio

\* What dates a token stays true while requests go on.
LEMMA ContinuaEmitido ==
    ASSUME SessoesInv, Continua, NEW t \in tokens, Emitido(t)
    PROVE  Emitido(t)'
<1>1. t \in Token
  BY DEF SessoesInv, SessoesTypeOK
<1>2. t.sub \in Usuario /\ t.perfil \in Perfil /\ t.exp \in Nat
  BY <1>1 DEF Token
<1>3. /\ Ate(t.sub, t.perfil) <= Ate(t.sub, t.perfil)'
      /\ senhaEm[t.sub] <= senhaEm'[t.sub]
      /\ agora' = agora /\ cortados' = cortados /\ Seg' = Seg
  BY <1>2, ContinuaSeg DEF Continua, relogio
<1>4. /\ Ate(t.sub, t.perfil) \in Nat /\ Ate(t.sub, t.perfil)' \in Nat
      /\ senhaEm[t.sub] \in Nat /\ senhaEm'[t.sub] \in Nat
      /\ cortados \subseteq Nat
  BY <1>2 DEF SessoesInv, Continua, SessoesTypeOK, Ate
<1>5. Vida(t.perfil)' = Vida(t.perfil) /\ Vida(t.perfil) \in Nat /\ Demora \in Nat /\ Atraso \in Nat
  BY Tempos DEF Vida
<1>6. t.exp <= Ate(t.sub, t.perfil)' + Demora + Vida(t.perfil)
  <2>1. t.exp <= Ate(t.sub, t.perfil) + Demora + Vida(t.perfil)
    BY DEF Emitido
  <2>. QED
    BY <1>2, <1>3, <1>4, <1>5, <2>1
<1>7. ASSUME t.perfil = "portaria", NEW c \in cortados, c + Atraso < t.exp
      PROVE  c <= senhaEm'[t.sub] + Demora
  <2>1. c <= senhaEm[t.sub] + Demora
    BY <1>7 DEF Emitido
  <2>. QED
    BY <1>3, <1>4, <1>5, <2>1
<1>8. t.perfil = "portaria" => t.exp <= agora + Seg + Atraso
  BY DEF Emitido
<1>. QED
  BY <1>3, <1>5, <1>6, <1>7, <1>8 DEF Emitido

\* A sign-in or a renewal reads the account.
LEMMA LerContinua ==
    ASSUME SessoesInv, NEW r \in Requisicao, NEW u \in Usuario, NEW por \in {"senha", "renovacao"},
           NEW s, s \in {senhaEm, [senhaEm EXCEPT ![u] = agora]}, LerConta(r, u, por, s)
    PROVE  Continua
<1>. USE DEF SessoesInv
<1>1. s \in [Usuario -> Nat] /\ \A v \in Usuario : senhaEm[v] <= s[v] /\ s[v] <= agora
  BY DEF SessoesTypeOK, Relogio
<1>2. SessoesTypeOK'
  BY <1>1 DEF LerConta, SessoesTypeOK, Identidade, relogio, perfis
<1>3. \A v \in Usuario : \A p \in Perfil : Ate(v, p)' = Ate(v, p) /\ Ate(v, p) \in Nat
  BY DEF LerConta, relogio, perfis, Ate, SessoesTypeOK
<1>. QED
  BY <1>1, <1>2, <1>3 DEF LerConta, Continua, Relogio, relogio, perfis

\* A sign-in or renewal has read an account of this moment.
LEMMA LerPreserva ==
    ASSUME SessoesInv, NEW r \in Requisicao, LerSignIn(r) \/ LerRefresh(r)
    PROVE  SessoesInv'
<1>1. PICK u \in Usuario, por \in {"senha", "renovacao"} :
        \E s \in {senhaEm, [senhaEm EXCEPT ![u] = agora]} :
          /\ LerConta(r, u, por, s)
          /\ perfil[u] = "portaria" => s = [senhaEm EXCEPT ![u] = agora]
  BY DEF LerSignIn, LerRefresh, SessoesInv, SessoesTypeOK, Token
<1>2. PICK s \in {senhaEm, [senhaEm EXCEPT ![u] = agora]} :
          /\ LerConta(r, u, por, s)
          /\ perfil[u] = "portaria" => s = [senhaEm EXCEPT ![u] = agora]
  BY <1>1
<1>3. Continua
  BY <1>2, LerContinua
<1>4. Relogio'
  BY <1>3, ContinuaRelogio
<1>5. ASSUME NEW q \in Requisicao, Aberta(q)' PROVE Aberto(q)'
  <2>1. CASE q = r
    <3>1. /\ conta'[r] = [sub |-> u, perfil |-> perfil[u], por |-> por]
          /\ inicio'[r] = agora /\ agora' = agora /\ perfil' = perfil /\ agora \in Nat
          /\ senhaEm' = s
      BY <1>2 DEF LerConta, SessoesInv, SessoesTypeOK, relogio, perfis
    <3>2. conta'[r] \in Identidade
      BY <3>1 DEF SessoesInv, SessoesTypeOK, Identidade
    <3>3. conta'[r] # Nulo
      BY <3>2, NuloForaDosTokens
    <3>4. perfil[u] = "portaria" => senhaEm'[u] = agora
      BY <1>2, <3>1 DEF SessoesInv, SessoesTypeOK
    <3>. QED
      BY <2>1, <3>1, <3>3, <3>4, Tempos DEF Aberto, Ate
  <2>2. CASE q # r
    <3>1. Aberta(q) /\ conta'[q] = conta[q] /\ inicio'[q] = inicio[q]
      BY <1>2, <1>5, <2>2 DEF LerConta, Aberta, SessoesInv, SessoesTypeOK
    <3>. QED
      BY <1>3, <3>1, ContinuaAberto DEF SessoesInv, Abertos
  <2>. QED
    BY <2>1, <2>2
<1>6. ASSUME NEW q \in Requisicao, etapa'[q] = "calculada" PROVE Calculado(q)'
  <2>1. q # r /\ etapa[q] = "calculada" /\ conta'[q] = conta[q] /\ inicio'[q] = inicio[q]
        /\ prazo'[q] = prazo[q] /\ lido'[q] = lido[q]
    BY <1>2, <1>6 DEF LerConta, SessoesInv, SessoesTypeOK
  <2>. QED
    BY <1>3, <2>1, ContinuaCalculado DEF SessoesInv, Calculados
<1>7. Emitidos'
  <2>1. tokens' = tokens
    BY <1>2 DEF LerConta
  <2>. QED
    BY <1>3, <2>1, ContinuaEmitido DEF SessoesInv, Emitidos
<1>. QED
  BY <1>3, <1>4, <1>5, <1>6, <1>7 DEF SessoesInv, Continua, Abertos, Calculados

\* The life of the token is computed from the clock as it is now.
LEMMA CalcularPreserva ==
    ASSUME SessoesInv, NEW r \in Requisicao, Calcular(r)
    PROVE  SessoesInv'
<1>1. Aberto(r) /\ conta[r] \in Identidade /\ conta[r].perfil \in Perfil
  BY DEF SessoesInv, Abertos, Aberta, Calcular, SessoesTypeOK, Aberto, Identidade
<1>2. ExpiraEm(conta[r].perfil) \in Nat /\ ExpiraEm(conta[r].perfil) <= Vida(conta[r].perfil)
  BY Numeros DEF SessoesInv, ExpiraEm, Vida, Seg
<1>3. SessoesTypeOK'
  BY <1>2 DEF Calcular, SessoesInv, SessoesTypeOK, relogio, perfis
<1>4. Continua
  <2>1. \A v \in Usuario : \A p \in Perfil : Ate(v, p)' = Ate(v, p) /\ Ate(v, p) \in Nat
    BY DEF Calcular, relogio, perfis, Ate, SessoesInv, SessoesTypeOK
  <2>. QED
    BY <1>3, <2>1 DEF Continua, Calcular, SessoesInv, Relogio, SessoesTypeOK, relogio, perfis
<1>5. Relogio'
  BY <1>4, ContinuaRelogio
<1>6. ASSUME NEW q \in Requisicao, Aberta(q)' PROVE Aberto(q)'
  <2>1. Aberta(q) /\ conta'[q] = conta[q] /\ inicio'[q] = inicio[q]
    BY <1>6 DEF Calcular, Aberta, SessoesInv, SessoesTypeOK
  <2>. QED
    BY <1>4, <2>1, ContinuaAberto DEF SessoesInv, Abertos
<1>7. ASSUME NEW q \in Requisicao, etapa'[q] = "calculada" PROVE Calculado(q)'
  <2>1. CASE q = r
    <3>1. /\ prazo'[r] = ExpiraEm(conta[r].perfil) /\ lido'[r] = agora
          /\ conta' = conta /\ inicio' = inicio /\ agora' = agora /\ cortados' = cortados
      BY DEF Calcular, SessoesInv, SessoesTypeOK, relogio
    <3>2. agora \in Nat /\ Atraso \in Nat /\ Seg' = Seg
      BY <1>4, ContinuaSeg, Tempos DEF SessoesInv, SessoesTypeOK
    <3>3. inicio[r] <= agora
      BY <1>1 DEF Aberto
    <3>4. conta[r].perfil = "portaria" => ExpiraEm(conta[r].perfil) = Seg
      BY DEF ExpiraEm, Seg
    <3>5. Seg \in Nat
      BY Numeros DEF SessoesInv
    <3>6. \A c \in cortados : c <= agora
      BY DEF SessoesInv, Relogio
    <3>. QED
      BY <1>2, <2>1, <3>1, <3>2, <3>3, <3>4, <3>5, <3>6 DEF Calculado, Vida
  <2>2. CASE q # r
    <3>1. etapa[q] = "calculada" /\ conta'[q] = conta[q] /\ inicio'[q] = inicio[q]
          /\ prazo'[q] = prazo[q] /\ lido'[q] = lido[q]
      BY <1>7, <2>2 DEF Calcular, SessoesInv, SessoesTypeOK
    <3>. QED
      BY <1>4, <3>1, ContinuaCalculado DEF SessoesInv, Calculados
  <2>. QED
    BY <2>1, <2>2
<1>8. Emitidos'
  <2>1. tokens' = tokens
    BY DEF Calcular
  <2>. QED
    BY <1>4, <2>1, ContinuaEmitido DEF SessoesInv, Emitidos
<1>. QED
  BY <1>3, <1>5, <1>6, <1>7, <1>8 DEF SessoesInv, Abertos, Calculados

\* The access token a request signs is bounded by what the request has read.
LEMMA Assinado ==
    ASSUME SessoesInv, NEW r \in Requisicao, etapa[r] = "calculada", NEW t \in Assinados(r)
    PROVE  t \in Token /\ (t.tipo = "acesso" => Emitido(t))
<1>1. /\ Aberto(r) /\ Calculado(r)
      /\ conta[r] \in Identidade /\ conta[r].perfil \in Perfil /\ conta[r].sub \in Usuario
  BY DEF SessoesInv, Abertos, Aberta, Calculados, SessoesTypeOK, Aberto, Identidade
<1>2. /\ prazo[r] \in Nat /\ inicio[r] \in Nat /\ lido[r] \in Nat /\ agora \in Nat
      /\ cortados \subseteq Nat /\ senhaEm[conta[r].sub] \in Nat
      /\ Ate(conta[r].sub, conta[r].perfil) \in Nat /\ Vida(conta[r].perfil) \in Nat
      /\ Seg \in Nat /\ Demora \in Nat /\ Atraso \in Nat /\ Renovacao \in Nat
  BY <1>1, Numeros DEF SessoesInv, SessoesTypeOK, Calculado
<1>3. t \in Token
  BY <1>1, <1>2 DEF Assinados, Token
<1>4. ASSUME t.tipo = "acesso" PROVE Emitido(t)
  <2>1. t.sub = conta[r].sub /\ t.perfil = conta[r].perfil /\ t.exp = agora + prazo[r]
    BY <1>4 DEF Assinados
  <2>2. t.exp <= Ate(t.sub, t.perfil) + Demora + Vida(t.perfil)
    BY <1>1, <1>2, <2>1 DEF Aberto, Calculado
  <2>3. ASSUME t.perfil = "portaria" PROVE t.exp <= agora + Seg + Atraso
    BY <1>1, <1>2, <2>1, <2>3 DEF Calculado
  <2>4. ASSUME t.perfil = "portaria", NEW c \in cortados, c + Atraso < t.exp
        PROVE  c <= senhaEm[t.sub] + Demora
    <3>1. c < lido[r] + prazo[r]
      BY <1>1, <1>2, <2>1, <2>4 DEF Calculado
    <3>2. c <= lido[r]
      BY <1>1, <1>2, <2>1, <2>4, <3>1 DEF Calculado
    <3>. QED
      BY <1>1, <1>2, <2>1, <2>4, <3>2 DEF Calculado, Aberto
  <2>. QED
    BY <2>2, <2>3, <2>4 DEF Emitido
<1>. QED
  BY <1>3, <1>4

\* The token that is signed is dated as the invariant says.
LEMMA AssinarPreserva ==
    ASSUME SessoesInv, NEW r \in Requisicao, Assinar(r)
    PROVE  SessoesInv'
<1>1. \A t \in Assinados(r) : t \in Token /\ (t.tipo = "acesso" => Emitido(t))
  BY Assinado DEF Assinar
<1>2. SessoesTypeOK'
  BY <1>1 DEF Assinar, SessoesInv, SessoesTypeOK, relogio, perfis
<1>3. \A v \in Usuario : \A p \in Perfil : Ate(v, p)' = Ate(v, p) /\ Ate(v, p) \in Nat
  BY DEF Assinar, relogio, perfis, Ate, SessoesInv, SessoesTypeOK
<1>4. Continua
  BY <1>2, <1>3 DEF Continua, Assinar, SessoesInv, Relogio, SessoesTypeOK, relogio, perfis
<1>5. Relogio'
  BY <1>4, ContinuaRelogio
<1>6. ASSUME NEW q \in Requisicao, Aberta(q)' PROVE Aberto(q)'
  <2>1. Aberta(q) /\ conta'[q] = conta[q] /\ inicio'[q] = inicio[q]
    BY <1>6 DEF Assinar, Aberta, SessoesInv, SessoesTypeOK
  <2>. QED
    BY <1>4, <2>1, ContinuaAberto DEF SessoesInv, Abertos
<1>7. ASSUME NEW q \in Requisicao, etapa'[q] = "calculada" PROVE Calculado(q)'
  <2>1. etapa[q] = "calculada" /\ conta'[q] = conta[q] /\ inicio'[q] = inicio[q]
        /\ prazo'[q] = prazo[q] /\ lido'[q] = lido[q]
    BY <1>7 DEF Assinar, SessoesInv, SessoesTypeOK
  <2>. QED
    BY <1>4, <2>1, ContinuaCalculado DEF SessoesInv, Calculados
<1>8. ASSUME NEW t \in tokens', t.tipo = "acesso" PROVE Emitido(t)'
  <2>1. CASE t \in tokens
    BY <1>4, <1>8, <2>1, ContinuaEmitido DEF SessoesInv, Emitidos
  <2>2. CASE t \in Assinados(r)
    <3>1. Emitido(t) /\ t.sub \in Usuario /\ t.perfil \in Perfil
      BY <1>1, <1>8, <2>2 DEF Token
    <3>2. Seg' = Seg
      BY <1>4, ContinuaSeg
    <3>3. Ate(t.sub, t.perfil)' = Ate(t.sub, t.perfil)
      BY <1>3, <3>1
    <3>. QED
      BY <3>1, <3>2, <3>3 DEF Emitido, Assinar, relogio, Vida
  <2>. QED
    BY <1>8, <2>1, <2>2 DEF Assinar
<1>. QED
  BY <1>2, <1>5, <1>6, <1>7, <1>8 DEF SessoesInv, Abertos, Calculados, Emitidos

\* A change of profile or of approval, by anybody.
LEMMA MundoPreserva ==
    ASSUME SessoesInv, NEW u \in Usuario, MudarPerfil(u) \/ AprovarOuRevogar(u)
    PROVE  SessoesInv'
<1>1. UNCHANGED <<relogio, pedidos, tokens, senhaEm>>
  BY DEF MudarPerfil, AprovarOuRevogar
<1>2. SessoesTypeOK'
  <2>1. CASE MudarPerfil(u)
    BY <2>1 DEF MudarPerfil, SessoesInv, SessoesTypeOK, relogio, pedidos
  <2>2. CASE AprovarOuRevogar(u)
    BY <2>2 DEF AprovarOuRevogar, SessoesInv, SessoesTypeOK, relogio, pedidos
  <2>. QED
    BY <2>1, <2>2
<1>3. \A v \in Usuario : \A p \in Perfil : Ate(v, p) <= Ate(v, p)' /\ deixou'[v][p] <= agora
  <2>1. CASE MudarPerfil(u)
    BY <2>1 DEF MudarPerfil, Ate, SessoesInv, SessoesTypeOK, Relogio, relogio
  <2>2. CASE AprovarOuRevogar(u)
    BY <2>2 DEF AprovarOuRevogar, Ate, SessoesInv, SessoesTypeOK, Relogio, relogio
  <2>. QED
    BY <2>1, <2>2
<1>4. Continua
  BY <1>1, <1>2, <1>3 DEF Continua, SessoesInv, Relogio, SessoesTypeOK
<1>5. Relogio'
  BY <1>4, ContinuaRelogio
<1>6. Abertos'
  BY <1>1, <1>4, ContinuaAberto DEF SessoesInv, Abertos, Aberta, pedidos
<1>7. Calculados'
  BY <1>1, <1>4, ContinuaCalculado DEF SessoesInv, Calculados, pedidos
<1>8. Emitidos'
  BY <1>1, <1>4, ContinuaEmitido DEF SessoesInv, Emitidos
<1>. QED
  BY <1>2, <1>5, <1>6, <1>7, <1>8 DEF SessoesInv

\* A second passes.
LEMMA PassarPreserva == SessoesInv /\ Passar => SessoesInv'
<1>. SUFFICES ASSUME SessoesInv, Passar PROVE SessoesInv'
  OBVIOUS
<1>1. /\ agora' = agora + 1 /\ agora \in Nat
      /\ cortes' = cortes
      /\ UNCHANGED <<perfis, pedidos, senhaEm>>
      /\ tokens' \subseteq tokens /\ \A t \in tokens' : agora' < t.exp
      /\ cortados' = IF hora' \in cortes THEN cortados \cup {agora'} ELSE cortados
  BY DEF Passar, SessoesInv, SessoesTypeOK
<1>2. /\ hora' \in 0..(Dia - 1)
      /\ Seg' \in 1..Dia
      /\ hora' \in cortes => Seg = 1
      /\ hora' \notin cortes => Seg = Seg' + 1
  <2>1. Seg' = SegundosAteProximoCorte(hora')
    BY <1>1 DEF Seg, SegundosAteProximoCorte
  <2>. QED
    BY <2>1, AvancaHora DEF SessoesInv
<1>3. SessoesTypeOK'
  BY <1>1, <1>2 DEF SessoesInv, SessoesTypeOK, perfis, pedidos
<1>4. /\ Dia \in Nat /\ Demora \in Nat /\ Atraso \in Nat /\ Seg \in Nat /\ Seg' \in Nat
  BY <1>2, Numeros DEF SessoesInv
<1>5. Relogio'
  <2>1. \A c \in cortados' : c \in Nat /\ c <= agora + 1
    BY <1>1 DEF SessoesInv, SessoesTypeOK, Relogio
  <2>2. \A v \in Usuario : senhaEm[v] <= agora + 1 /\ \A p \in Perfil : deixou[v][p] <= agora + 1
    BY <1>1 DEF SessoesInv, SessoesTypeOK, Relogio
  <2>. QED
    BY <1>1, <2>1, <2>2 DEF Relogio, perfis
<1>6. \A v \in Usuario : \A p \in Perfil :
         Ate(v, p) <= Ate(v, p)' /\ Ate(v, p) \in Nat /\ Ate(v, p)' \in Nat
  BY <1>1 DEF SessoesInv, SessoesTypeOK, Ate, perfis
<1>7. ASSUME NEW q \in Requisicao, Aberta(q)' PROVE Aberto(q)'
  <2>1. Aberta(q) /\ conta'[q] = conta[q] /\ inicio'[q] = inicio[q]
    BY <1>1, <1>7 DEF Aberta, pedidos
  <2>2. Aberto(q) /\ agora < inicio[q] + Demora /\ inicio[q] \in Nat
    BY <2>1 DEF SessoesInv, Abertos, Passar, SessoesTypeOK
  <2>3. conta[q] \in Identidade
    BY <2>2 DEF Aberto, SessoesInv, SessoesTypeOK
  <2>4. conta[q].sub \in Usuario /\ conta[q].perfil \in Perfil
    BY <2>3 DEF Identidade
  <2>5. Ate(conta[q].sub, conta[q].perfil) <= Ate(conta[q].sub, conta[q].perfil)'
    BY <1>1, <2>1, <2>4 DEF SessoesInv, SessoesTypeOK, Ate, perfis
  <2>6. Ate(conta[q].sub, conta[q].perfil) \in Nat /\ Ate(conta[q].sub, conta[q].perfil)' \in Nat
    BY <1>1, <2>1, <2>4 DEF SessoesInv, SessoesTypeOK, Ate, perfis
  <2>7. inicio[q] <= Ate(conta[q].sub, conta[q].perfil)'
    BY <2>2, <2>5, <2>6 DEF Aberto
  <2>. QED
    BY <1>1, <1>4, <2>1, <2>2, <2>7 DEF Aberto
<1>8. ASSUME NEW q \in Requisicao, etapa'[q] = "calculada" PROVE Calculado(q)'
  <2>1. /\ etapa[q] = "calculada" /\ conta'[q] = conta[q] /\ inicio'[q] = inicio[q]
        /\ prazo'[q] = prazo[q] /\ lido'[q] = lido[q]
    BY <1>1, <1>8 DEF pedidos
  <2>2. /\ Calculado(q) /\ agora < lido[q] + Atraso
        /\ lido[q] \in Nat /\ inicio[q] \in Nat /\ prazo[q] \in Nat
    BY <2>1 DEF SessoesInv, Calculados, Calculado, Passar, SessoesTypeOK
  <2>3. ASSUME conta[q].perfil = "portaria"
        PROVE  /\ lido[q] + prazo[q] <= agora' + Seg'
               /\ \A c \in cortados' : c <= lido[q] \/ lido[q] + prazo[q] <= c
    <3>1. lido[q] + prazo[q] <= agora + Seg
      BY <2>2, <2>3 DEF Calculado
    <3>2. hora' \in cortes => lido[q] + prazo[q] <= agora'
      BY <1>1, <1>2, <2>2, <3>1
    <3>3. lido[q] + prazo[q] <= agora' + Seg'
      <4>1. CASE hora' \in cortes
        BY <4>1, <1>1, <1>4, <2>2, <3>2
      <4>2. CASE hora' \notin cortes
        <5>1. Seg = Seg' + 1
          BY <4>2, <1>2
        <5>. HIDE DEF Seg
        <5>. QED
          BY <5>1, <1>1, <1>4, <2>2, <3>1
      <4>. QED
        BY <4>1, <4>2
    <3>4. \A c \in cortados : c <= lido[q] \/ lido[q] + prazo[q] <= c
      BY <2>2, <2>3 DEF Calculado
    <3>. QED
      BY <1>1, <3>2, <3>3, <3>4
  <2>. QED
    BY <1>1, <1>4, <2>1, <2>2, <2>3 DEF Calculado, Vida
<1>9. ASSUME NEW t \in tokens', t.tipo = "acesso" PROVE Emitido(t)'
  <2>1. /\ t \in tokens /\ Emitido(t)
        /\ t.sub \in Usuario /\ t.perfil \in Perfil /\ t.exp \in Nat
    BY <1>1, <1>9 DEF SessoesInv, Emitidos, SessoesTypeOK, Token
  <2>2. t.exp <= Ate(t.sub, t.perfil)' + Demora + Vida(t.perfil)
    <3>1. t.exp <= Ate(t.sub, t.perfil) + Demora + Vida(t.perfil) /\ Vida(t.perfil) \in Nat
      BY <2>1, Tempos DEF Emitido, Vida
    <3>. QED
      BY <1>4, <1>6, <2>1, <3>1
  <2>3. ASSUME t.perfil = "portaria"
        PROVE  /\ t.exp <= agora' + Seg' + Atraso
               /\ \A c \in cortados' : c + Atraso < t.exp => c <= senhaEm[t.sub] + Demora
    <3>1. t.exp <= agora + Seg + Atraso
      BY <2>1, <2>3 DEF Emitido
    <3>2. hora' \in cortes => t.exp <= agora' + Atraso
      BY <1>1, <1>2, <1>4, <2>1, <3>1
    <3>3. t.exp <= agora' + Seg' + Atraso
      <4>1. CASE hora' \in cortes
        BY <4>1, <1>1, <1>4, <2>1, <3>2
      <4>2. CASE hora' \notin cortes
        <5>1. Seg = Seg' + 1
          BY <4>2, <1>2
        <5>. HIDE DEF Seg
        <5>. QED
          BY <5>1, <1>1, <1>4, <2>1, <3>1
      <4>. QED
        BY <4>1, <4>2
    <3>4. \A c \in cortados : c + Atraso < t.exp => c <= senhaEm[t.sub] + Demora
      BY <2>1, <2>3 DEF Emitido
    <3>5. ASSUME hora' \in cortes PROVE ~(agora' + Atraso < t.exp)
      BY <1>1, <1>4, <2>1, <3>2, <3>5
    <3>. QED
      BY <1>1, <3>3, <3>4, <3>5
  <2>. QED
    BY <1>1, <2>2, <2>3 DEF Emitido, Vida
<1>. QED
  BY <1>3, <1>5, <1>7, <1>8, <1>9 DEF SessoesInv, Abertos, Calculados, Emitidos

\* No step breaks the invariant.
LEMMA SessoesPreserva == SessoesInv /\ [SessoesNext]_sessoesVars => SessoesInv'
<1>. SUFFICES ASSUME SessoesInv, [SessoesNext]_sessoesVars PROVE SessoesInv'
  OBVIOUS
<1>1. ASSUME NEW r \in Requisicao, LerSignIn(r) \/ LerRefresh(r) PROVE SessoesInv'
  BY <1>1, LerPreserva
<1>2. ASSUME NEW r \in Requisicao, Calcular(r) PROVE SessoesInv'
  BY <1>2, CalcularPreserva
<1>3. ASSUME NEW r \in Requisicao, Assinar(r) PROVE SessoesInv'
  BY <1>3, AssinarPreserva
<1>4. ASSUME NEW u \in Usuario, MudarPerfil(u) \/ AprovarOuRevogar(u) PROVE SessoesInv'
  BY <1>4, MundoPreserva
<1>5. CASE Passar
  BY <1>5, PassarPreserva
<1>6. CASE UNCHANGED sessoesVars
  <2>1. Continua
    <3>1. \A u \in Usuario : \A p \in Perfil :
             Ate(u, p) <= Ate(u, p)' /\ deixou'[u][p] <= agora
      BY <1>6 DEF sessoesVars, relogio, perfis, SessoesInv, SessoesTypeOK, Ate, Relogio
    <3>. QED
      BY <1>6, <3>1
      DEF sessoesVars, relogio, perfis, pedidos, SessoesInv, SessoesTypeOK, Continua, Relogio
  <2>. QED
    BY <1>6, <2>1, ContinuaRelogio, ContinuaAberto, ContinuaCalculado, ContinuaEmitido
       DEF sessoesVars, pedidos, SessoesInv, Abertos, Aberta, Calculados, Emitidos, Continua
<1>. QED
  BY <1>1, <1>2, <1>3, <1>4, <1>5, <1>6 DEF SessoesNext, Parado

-----------------------------------------------------------------------------
(* The theorems.                                                           *)

\* The inductive invariant.
THEOREM SessoesIndutivo == SessoesSpec => []SessoesInv
<1>. QED
  BY SessoesInicio, SessoesPreserva, PTL DEF SessoesSpec

\* Type correctness.
THEOREM SessoesTipos == SessoesSpec => []SessoesTypeOK
<1>1. SessoesInv => SessoesTypeOK
  BY DEF SessoesInv
<1>. QED
  BY <1>1, SessoesIndutivo, PTL

\* The session of a portaria is computed to the next cut-off exactly, whatever
\* the two cut-offs are (segundosAteProximoCortePortaria).
THEOREM CorteExato == SessoesSpec => []PrazoExato
<1>1. SessoesInv => PrazoExato
  BY Exato DEF SessoesInv
<1>. QED
  BY <1>1, SessoesIndutivo, PTL

\* Nobody works with a portaria's rights whose password is older than the last
\* cut-off, but for Demora and Atraso.
THEOREM CortePedeSenha == SessoesSpec => []SenhaDesdeOCorte
<1>1. SessoesInv => SenhaDesdeOCorte
  <2>. SUFFICES ASSUME SessoesInv, NEW t \in Aceitos, t.perfil = "portaria",
                       NEW c \in cortados, c + Atraso <= agora
                PROVE  c <= senhaEm[t.sub] + Demora
    BY DEF SenhaDesdeOCorte
  <2>1. Emitido(t) /\ agora < t.exp /\ t.exp \in Nat
    BY DEF Aceitos, SessoesInv, Emitidos, SessoesTypeOK, Token
  <2>2. c + Atraso < t.exp
    BY <2>1, Tempos DEF SessoesInv, SessoesTypeOK
  <2>. QED
    BY <2>1, <2>2 DEF Emitido
<1>. QED
  BY <1>1, SessoesIndutivo, PTL

\* A profile withdrawn from an account is used for a bounded time only.
THEOREM RetiradoTemPrazo == SessoesSpec => []PerfilRetiradoTemPrazo
<1>1. SessoesInv => PerfilRetiradoTemPrazo
  <2>. SUFFICES ASSUME SessoesInv, NEW t \in Aceitos, perfil[t.sub] # t.perfil
                PROVE  agora < deixou[t.sub][t.perfil] + Demora + Vida(t.perfil)
    BY DEF PerfilRetiradoTemPrazo
  <2>1. /\ Emitido(t) /\ agora < t.exp /\ t.exp \in Nat
        /\ t.sub \in Usuario /\ t.perfil \in Perfil
    BY DEF Aceitos, SessoesInv, Emitidos, SessoesTypeOK, Token
  <2>2. t.exp <= deixou[t.sub][t.perfil] + Demora + Vida(t.perfil)
    BY <2>1 DEF Emitido, Ate
  <2>3. deixou[t.sub][t.perfil] \in Nat /\ Vida(t.perfil) \in Nat /\ Demora \in Nat /\ agora \in Nat
    BY <2>1, Tempos DEF SessoesInv, SessoesTypeOK, Vida
  <2>. QED
    BY <2>1, <2>2, <2>3
<1>. QED
  BY <1>1, SessoesIndutivo, PTL

=============================================================================
