-------------------------- MODULE RecuperacaoConta --------------------------
(***************************************************************************)
(* How an account is activated by a code and gets a new password: the      *)
(* second half of auth.service.ts with the statements of                   *)
(* usuarios.service.ts that it uses, and the two other handlers that write *)
(* a password, updatePassword and update.                                  *)
(*                                                                         *)
(* But for update none of these handlers opens a transaction. Each reads   *)
(* the account, compares, may hash a password for a while and then issues  *)
(* one or two UPDATE ... WHERE uuid, each committed at once, whatever has  *)
(* become of the row. The process may stop between two of them.            *)
(*                                                                         *)
(* A reset token is 32 random bytes and is named by the request that drew  *)
(* it, a password by the request that set it. Codes have six digits and    *)
(* repeat. The e-mail that carries them comes after the last UPDATE and    *)
(* its failure is swallowed, so it is left out. Every account is approved. *)
(***************************************************************************)
EXTENDS Naturals, FiniteSets, Autenticacao

CONSTANTS
    Codigo,        \* values of an activation code
    Simultaneas    \* how many requests may be open at a time (a bound)

ASSUME Valores ==
    /\ Simultaneas \in Nat
    /\ Nulo \notin Requisicao /\ Nulo \notin Codigo

Operacao == {"requestActivation", "confirmActivation", "requestResetPassword",
             "confirmResetPassword", "updatePassword", "update"}

\* codigoVale and tokenVale: the expiry next to code and token is still ahead.
Conta == [ativada: BOOLEAN, codigo: Codigo \cup {Nulo}, codigoVale: BOOLEAN,
          token: Requisicao \cup {Nulo}, tokenVale: BOOLEAN,
          senha: Requisicao \cup {Nulo}, removida: BOOLEAN]

\* codigo: drawn or typed in; token: typed in; antes: the password compared.
Pedido == [op: Operacao, alvo: Usuario, codigo: Codigo \cup {Nulo},
           token: Requisicao \cup {Nulo}, antes: Requisicao \cup {Nulo}]

ASSUME NuloNaoEhPedido == Nulo \notin Pedido

VARIABLES
    contas,     \* account |-> its columns
    fase,       \* request |-> how far its handler is
    pedido,     \* request |-> what it asks for; kept when it has ended
    isolada     \* request |-> it began last and nothing else has happened since (history)

vars == <<contas, fase, pedido, isolada>>

Init ==
    /\ contas = [u \in Usuario |->
          [ativada |-> FALSE, codigo |-> Nulo, codigoVale |-> FALSE, token |-> Nulo,
           tokenVale |-> FALSE, senha |-> Nulo, removida |-> FALSE]]
    /\ fase = [r \in Requisicao |-> "nova"]
    /\ pedido = [r \in Requisicao |-> Nulo]
    /\ isolada = [r \in Requisicao |-> FALSE]

Abertas == {r \in Requisicao : fase[r] \in {"lida", "conferida", "trocada"}}

-----------------------------------------------------------------------------
(* The first read of a handler, with what it refuses.                      *)

Novo(op, u) == [op |-> op, alvo |-> u, codigo |-> Nulo, token |-> Nulo, antes |-> Nulo]

Ler(r, p) ==
    /\ fase[r] = "nova"
    /\ Cardinality(Abertas) < Simultaneas
    /\ fase' = [fase EXCEPT ![r] = "lida"]
    /\ pedido' = [pedido EXCEPT ![r] = p]
    /\ isolada' = [s \in Requisicao |-> s = r /\ Abertas = {}]
    /\ UNCHANGED contas

LerRequestActivation(r) ==
    \E u \in Usuario, c \in Codigo :
        /\ ~contas[u].removida
        /\ ~contas[u].ativada
        /\ Ler(r, [Novo("requestActivation", u) EXCEPT !.codigo = c])

LerConfirmActivation(r) ==
    \E u \in Usuario, c \in Codigo :
        /\ ~contas[u].removida
        /\ ~contas[u].ativada
        /\ contas[u].codigo # Nulo
        /\ contas[u].codigoVale
        /\ Ler(r, [Novo("confirmActivation", u) EXCEPT !.codigo = c])

LerRequestReset(r) ==
    \E u \in Usuario :
        /\ ~contas[u].removida
        /\ Ler(r, Novo("requestResetPassword", u))

\* Mutant of LerConfirmReset: any account with a token will do.
LerConfirmReset_QualquerConta(r) ==
    \E u \in Usuario, t \in Requisicao :
        /\ ~contas[u].removida
        /\ contas[u].token # Nulo
        /\ contas[u].tokenVale
        /\ Ler(r, [Novo("confirmResetPassword", u) EXCEPT !.token = t])

\* Mutant of LerConfirmReset: the expiry is not looked at.
LerConfirmReset_SemValidade(r) ==
    \E u \in Usuario :
        /\ ~contas[u].removida
        /\ contas[u].token # Nulo
        /\ Ler(r, [Novo("confirmResetPassword", u) EXCEPT !.token = contas[u].token])

\* The account is the one that holds the token.
LerConfirmReset(r) ==
    \E u \in Usuario :
        /\ ~contas[u].removida
        /\ contas[u].token # Nulo
        /\ contas[u].tokenVale
        /\ Ler(r, [Novo("confirmResetPassword", u) EXCEPT !.token = contas[u].token])

\* The caller has shown the password that the account has now.
LerUpdatePassword(r) ==
    \E u \in Usuario :
        /\ ~contas[u].removida
        /\ Ler(r, [Novo("updatePassword", u) EXCEPT !.antes = contas[u].senha])

\* PATCH /usuarios/:id with a senha: the caller is the account itself, and shows
\* neither its password nor a token.
LerUpdate(r) ==
    \E u \in Usuario :
        /\ ~contas[u].removida
        /\ Ler(r, Novo("update", u))

-----------------------------------------------------------------------------
(* What comes after it, a statement at a time.                             *)

\* r, at phase de of the operation op, goes on to phase a.
Passo(r, op, de, a) ==
    /\ fase[r] = de
    /\ pedido[r].op = op
    /\ fase' = [fase EXCEPT ![r] = a]
    /\ UNCHANGED <<pedido, isolada>>

SalvarCodigo(r) ==
    /\ Passo(r, "requestActivation", "lida", "feita")
    /\ contas' = [contas EXCEPT ![pedido[r].alvo].codigo = pedido[r].codigo,
                                ![pedido[r].alvo].codigoVale = TRUE]

\* Mutant of Conferir: the code is not compared.
Conferir_SemCodigo(r) ==
    /\ Passo(r, "confirmActivation", "lida", "conferida")
    /\ ~contas[pedido[r].alvo].removida
    /\ UNCHANGED contas

\* validarCodigoAtivacao reads the account again.
Conferir(r) ==
    /\ Passo(r, "confirmActivation", "lida", "conferida")
    /\ ~contas[pedido[r].alvo].removida
    /\ contas[pedido[r].alvo].codigo = pedido[r].codigo
    /\ UNCHANGED contas

\* 401: the second read finds no account or another code.
RecusarCodigo(r) ==
    /\ Passo(r, "confirmActivation", "lida", "recusada")
    /\ \/ contas[pedido[r].alvo].removida
       \/ contas[pedido[r].alvo].codigo # pedido[r].codigo
    /\ UNCHANGED contas

Ativar(r) ==
    /\ Passo(r, "confirmActivation", "conferida", "feita")
    /\ contas' = [contas EXCEPT ![pedido[r].alvo].ativada = TRUE,
                                ![pedido[r].alvo].codigo = Nulo,
                                ![pedido[r].alvo].codigoVale = FALSE]

SalvarToken(r) ==
    /\ Passo(r, "requestResetPassword", "lida", "feita")
    /\ contas' = [contas EXCEPT ![pedido[r].alvo].token = r,
                                ![pedido[r].alvo].tokenVale = TRUE]

\* updateSenha, after the hash.
Senha(r) == contas' = [contas EXCEPT ![pedido[r].alvo].senha = r]

RedefinirSenha(r) == Passo(r, "confirmResetPassword", "lida", "trocada") /\ Senha(r)

\* Mutant of LimparToken: the token stays until it expires.
LimparToken_Esquece(r) ==
    /\ Passo(r, "confirmResetPassword", "trocada", "feita")
    /\ UNCHANGED contas

\* Mutant of LimparToken: the two columns are mixed up.
LimparToken_ColunasTrocadas(r) ==
    /\ Passo(r, "confirmResetPassword", "trocada", "feita")
    /\ contas' = [contas EXCEPT ![pedido[r].alvo].token = FALSE,
                                ![pedido[r].alvo].tokenVale = Nulo]

LimparToken(r) ==
    /\ Passo(r, "confirmResetPassword", "trocada", "feita")
    /\ contas' = [contas EXCEPT ![pedido[r].alvo].token = Nulo,
                                ![pedido[r].alvo].tokenVale = FALSE]

TrocarSenha(r) == Passo(r, "updatePassword", "lida", "feita") /\ Senha(r)

\* The UPDATE of update, its last read and the commit. They are one step: the
\* transaction holds the row from the first to the last, so that another UPDATE of
\* it waits and a reader finds it as it was.
AtualizarConta(r) ==
    /\ Passo(r, "update", "lida", "feita")
    /\ ~contas[pedido[r].alvo].removida
    /\ Senha(r)

\* The last read looks for an account that is not removed and finds none: rollback.
FalharReleitura(r) ==
    /\ Passo(r, "update", "lida", "recusada")
    /\ contas[pedido[r].alvo].removida
    /\ UNCHANGED contas

\* A failing statement or the end of the process; what was written stays.
Interromper(r) ==
    /\ r \in Abertas
    /\ fase' = [fase EXCEPT ![r] = IF @ = "trocada" THEN "semLimpar" ELSE "interrompida"]
    /\ UNCHANGED <<contas, pedido, isolada>>

-----------------------------------------------------------------------------
(* What happens to the account meanwhile.                                  *)

DeFora(u, conta) ==
    /\ contas' = [contas EXCEPT ![u] = conta]
    /\ isolada' = [r \in Requisicao |-> FALSE]
    /\ UNCHANGED <<fase, pedido>>

VencerCodigo(u) == contas[u].codigoVale /\ DeFora(u, [contas[u] EXCEPT !.codigoVale = FALSE])
VencerToken(u) == contas[u].tokenVale /\ DeFora(u, [contas[u] EXCEPT !.tokenVale = FALSE])

\* remove and restore of usuarios.service.ts, which leave these columns alone.
RemoverOuRestaurar(u) == DeFora(u, [contas[u] EXCEPT !.removida = ~@])

Comeca(r) ==
    \/ LerRequestActivation(r) \/ LerConfirmActivation(r)
    \/ LerRequestReset(r) \/ LerConfirmReset(r) \/ LerUpdatePassword(r)
    \/ LerUpdate(r)

Prossegue(r) ==
    \/ SalvarCodigo(r) \/ Conferir(r) \/ RecusarCodigo(r) \/ Ativar(r)
    \/ SalvarToken(r) \/ RedefinirSenha(r) \/ LimparToken(r) \/ TrocarSenha(r)
    \/ AtualizarConta(r) \/ FalharReleitura(r) \/ Interromper(r)

Next ==
    \/ \E r \in Requisicao : Comeca(r) \/ Prossegue(r)
    \/ \E u \in Usuario : VencerCodigo(u) \/ VencerToken(u) \/ RemoverOuRestaurar(u)

Spec == Init /\ [][Next]_vars

-----------------------------------------------------------------------------
(* Properties.                                                             *)

\* Every variable holds a value of its kind.
TypeOK ==
    /\ contas \in [Usuario -> Conta]
    /\ fase \in [Requisicao ->
          {"nova", "lida", "conferida", "trocada", "feita", "recusada",
           "interrompida", "semLimpar"}]
    /\ pedido \in [Requisicao -> Pedido \cup {Nulo}]
    /\ isolada \in [Requisicao -> BOOLEAN]

\* r has set a password by virtue of a reset token.
Redefiniu(r) ==
    /\ fase[r] \in {"trocada", "feita", "semLimpar"}
    /\ pedido[r].op = "confirmResetPassword"

\* The token that r showed was drawn and stored for the account u.
TokenDe(r, u) ==
    LET t == pedido[r].token
    IN  t # Nulo /\ fase[t] = "feita" /\ pedido[t].alvo = u

\* s is the first password of an account, or one that was set for the account u.
SenhaDe(s, u) ==
    s # Nulo => /\ pedido[s].alvo = u
                /\ pedido[s].op \in {"confirmResetPassword", "updatePassword", "update"}

\* The password of an account was set for this very account, whatever other resets
\* and changes were under way: by its own session, which updatePassword asks for a
\* password that the account has had and update asks for nothing, or by who had a
\* token sent for the account (findByResetToken, updateSenha, update).
SenhaPorQuemPodia ==
    \A u \in Usuario :
        LET r == contas[u].senha
        IN  /\ SenhaDe(r, u)
            /\ r # Nulo =>
                  CASE pedido[r].op = "confirmResetPassword" -> TokenDe(r, u)
                    [] pedido[r].op = "updatePassword" -> SenhaDe(pedido[r].antes, u)
                    [] OTHER -> TRUE

\* Once a reset has been answered its token is in no row and never again,
\* however requests, resets and interruptions overlap (clearResetToken).
TokenGastoNaoVolta ==
    \A r \in Requisicao : Redefiniu(r) /\ fase[r] = "feita" =>
        \A u \in Usuario : contas[u].token # pedido[r].token

\* An account is active only by a code that had been stored for it: the expiry
\* and the code are compared on two reads, between which the code may be
\* replaced (confirmActivation).
AtivadaPorCodigo ==
    \A u \in Usuario : contas[u].ativada =>
        \E r, s \in Requisicao :
            /\ fase[r] = "feita" /\ pedido[r].op = "confirmActivation" /\ pedido[r].alvo = u
            /\ fase[s] = "feita" /\ pedido[s].op = "requestActivation" /\ pedido[s].alvo = u
            /\ pedido[s].codigo = pedido[r].codigo

\* What entitles r to the UPDATE it is about to issue is true of the row l now.
Justificada(r, l) ==
    /\ ~l.removida
    /\ CASE pedido[r].op = "requestActivation" -> ~l.ativada
         [] pedido[r].op = "confirmActivation" ->
                ~l.ativada /\ l.codigoVale /\ l.codigo = pedido[r].codigo
         [] pedido[r].op = "confirmResetPassword" -> l.tokenVale /\ l.token = pedido[r].token
         [] pedido[r].op = "updatePassword" -> l.senha = pedido[r].antes
         [] OTHER -> TRUE

\* A request during which nothing else happens writes only what the row as it is
\* then entitles it to: no expired or cleared token, no code of an active
\* account, no password in place of one that was not shown. With overlap none of
\* this holds, since every UPDATE names the uuid only.
JustificadaSeIsolada ==
    [][\A r \in Requisicao :
          (isolada[r] /\ contas' # contas /\ fase'[r] # fase[r]) =>
              Justificada(r, contas[pedido[r].alvo])]_vars

=============================================================================
