------------------------------- MODULE Sessoes -------------------------------
(***************************************************************************)
(* The sessions of auth.service.ts: access tokens, which carry a profile   *)
(* and end by the clock, and refresh tokens. The session of a portaria has *)
(* no refresh token and ends at the next cut-off of the day; every other   *)
(* one is renewed for as long as its refresh token is valid.               *)
(*                                                                         *)
(* A sign-in reads the account, compares the password and writes an audit  *)
(* row, which takes time, and only then looks at the clock. The time to    *)
(* the cut-off and the instant the token counts from are two readings of   *)
(* the clock: a second may pass between them. The unit of time is the      *)
(* second; a request takes at most Demora, the two readings are at most    *)
(* Atraso apart. The local clock is taken to be without daylight saving.   *)
(*                                                                         *)
(* Usuarios has what the handlers do with a token; here profile and        *)
(* approval are changed by anybody at any time.                            *)
(***************************************************************************)
EXTENDS Naturals, FiniteSets, Autenticacao

CONSTANTS
    Perfil,        \* profiles, of which only "portaria" is looked at here
    Dia,           \* seconds of a day
    Horario,       \* what JWT_PORTARIA_CUTOFF_1 and _2 may be set to
    Validade,      \* JWT_EXPIRES_IN
    Renovacao,     \* JWT_REFRESH_EXPIRES_IN
    Demora,        \* how long a request takes at most (a bound)
    Atraso,        \* how far the two readings of the clock are apart at most (a bound)
    Fim            \* when the clock stops (a bound)

ASSUME Tempos ==
    /\ "portaria" \in Perfil
    /\ Dia \in Nat \ {0}
    /\ Horario \subseteq 0..(Dia - 1)
    /\ Validade \in Nat /\ Renovacao \in Nat /\ Demora \in Nat /\ Atraso \in Nat /\ Fim \in Nat

\* What a request knows of the account; por is how it has shown who it is.
Identidade == [sub: Usuario, perfil: Perfil, por: {"senha", "renovacao"}]

\* A signed token, valid before the second exp.
Token == [sub: Usuario, perfil: Perfil, tipo: {"acesso", "renovacao"}, exp: Nat]

ASSUME NuloForaDosTokens == Nulo \notin Identidade /\ Nulo \notin Nat

VARIABLES
    cortes,      \* the cut-offs the process is configured with, once
    agora,       \* the clock
    hora,        \* the second of the day
    perfil,      \* account |-> usuarios.perfil
    aprovada,    \* account |-> approved and not removed
    tokens,      \* the tokens handed out
    etapa,       \* request |-> how far it is
    conta,       \* request |-> the account as it has read it
    inicio,      \* request |-> when it read the account
    prazo,       \* request |-> expiresIn, computed and not signed yet
    lido,        \* request |-> when it computed that
    cortados,    \* the instants of the cut-offs so far (history)
    deixou,      \* account |-> profile |-> when it last lost that profile (history)
    senhaEm      \* account |-> when it last signed in with its password (history)

relogio == <<cortes, agora, hora, cortados>>
perfis == <<perfil, aprovada, deixou>>
pedidos == <<etapa, conta, inicio, prazo, lido>>
sessoesVars == <<relogio, perfis, pedidos, tokens, senhaEm>>

SessoesInit ==
    /\ \E c1, c2 \in Horario : cortes = {c1, c2}
    /\ agora = 0
    /\ hora \in {0, Dia - 1}
    /\ perfil \in [Usuario -> Perfil]
    /\ aprovada = [u \in Usuario |-> TRUE]
    /\ tokens = {}
    /\ etapa = [r \in Requisicao |-> "nova"]
    /\ conta = [r \in Requisicao |-> Nulo]
    /\ inicio = [r \in Requisicao |-> 0]
    /\ prazo = [r \in Requisicao |-> Nulo]
    /\ lido = [r \in Requisicao |-> 0]
    /\ cortados = {}
    /\ deixou = [u \in Usuario |-> [p \in Perfil |-> 0]]
    /\ senhaEm = [u \in Usuario |-> 0]

-----------------------------------------------------------------------------
(* The cut-off.                                                            *)

Menor(S) == CHOOSE x \in S : \A y \in S : x <= y
AoMenosUm(n) == IF n < 1 THEN 1 ELSE n

\* Mutant of SegundosAteProximoCorte: the cut-off of this very second counts.
SegundosAteProximoCorte_Inclusivo(s) ==
    LET depois == {c \in cortes : s <= c}
    IN  AoMenosUm(IF depois # {} THEN Menor(depois) - s ELSE Dia - s + Menor(cortes))

\* Mutant of SegundosAteProximoCorte: after the last cut-off, the one of today.
SegundosAteProximoCorte_SemAmanha(s) ==
    LET depois == {c \in cortes : s < c}
    IN  (IF depois # {} THEN Menor(depois) ELSE Menor(cortes)) - s

\* segundosAteProximoCortePortaria at second s of the day: to the first cut-off
\* after s today, else to the first of tomorrow.
SegundosAteProximoCorte(s) ==
    LET depois == {c \in cortes : s < c}
    IN  AoMenosUm(IF depois # {} THEN Menor(depois) - s ELSE Dia - s + Menor(cortes))

\* gerarAccessToken: expiresIn of a token with profile p.
ExpiraEm(p) == IF p = "portaria" THEN SegundosAteProximoCorte(hora) ELSE Validade

-----------------------------------------------------------------------------
(* Sign-in and renewal.                                                    *)

Aberta(r) == etapa[r] \in {"lida", "calculada"}

LerConta(r, u, por, senhas) ==
    /\ etapa[r] = "nova"
    /\ aprovada[u]
    /\ etapa' = [etapa EXCEPT ![r] = "lida"]
    /\ conta' = [conta EXCEPT ![r] = [sub |-> u, perfil |-> perfil[u], por |-> por]]
    /\ inicio' = [inicio EXCEPT ![r] = agora]
    /\ senhaEm' = senhas
    /\ UNCHANGED <<relogio, perfis, prazo, lido, tokens>>

\* signIn: the account of the login, whose password is right.
LerSignIn(r) == \E u \in Usuario : LerConta(r, u, "senha", [senhaEm EXCEPT ![u] = agora])

\* Mutant of LerRefresh: the profile of the portaria is renewed as well.
LerRefresh_Portaria(r) ==
    \E t \in tokens : /\ t.tipo = "renovacao" /\ agora < t.exp
                      /\ LerConta(r, t.sub, "renovacao", senhaEm)

\* Mutant of LerRefresh: the new tokens take the profile of the old one.
LerRefresh_PerfilDoToken(r) ==
    \E t \in tokens :
        /\ t.tipo = "renovacao" /\ agora < t.exp
        /\ etapa[r] = "nova" /\ aprovada[t.sub] /\ perfil[t.sub] # "portaria"
        /\ etapa' = [etapa EXCEPT ![r] = "lida"]
        /\ conta' = [conta EXCEPT ![r] = [sub |-> t.sub, perfil |-> t.perfil, por |-> "renovacao"]]
        /\ inicio' = [inicio EXCEPT ![r] = agora]
        /\ UNCHANGED <<relogio, perfis, prazo, lido, tokens, senhaEm>>

\* refreshTokens: a refresh token that has not expired; the account is read again.
LerRefresh(r) ==
    \E t \in tokens :
        /\ t.tipo = "renovacao"
        /\ agora < t.exp
        /\ perfil[t.sub] # "portaria"
        /\ LerConta(r, t.sub, "renovacao", senhaEm)

\* The first reading of the clock.
Calcular(r) ==
    /\ etapa[r] = "lida"
    /\ etapa' = [etapa EXCEPT ![r] = "calculada"]
    /\ prazo' = [prazo EXCEPT ![r] = ExpiraEm(conta[r].perfil)]
    /\ lido' = [lido EXCEPT ![r] = agora]
    /\ UNCHANGED <<relogio, perfis, conta, inicio, tokens, senhaEm>>

\* The tokens of the answer: no refresh token for a portaria.
Assinados(r) ==
    LET c == conta[r]
    IN  {[sub |-> c.sub, perfil |-> c.perfil, tipo |-> "acesso", exp |-> agora + prazo[r]]}
        \cup IF c.perfil = "portaria" THEN {}
             ELSE {[sub |-> c.sub, perfil |-> c.perfil, tipo |-> "renovacao",
                    exp |-> agora + Renovacao]}

\* jwtService.sign takes iat, and with it exp, from its own reading of the clock.
Assinar(r) ==
    /\ etapa[r] = "calculada"
    /\ etapa' = [etapa EXCEPT ![r] = "respondida"]
    /\ tokens' = tokens \cup Assinados(r)
    /\ conta' = [conta EXCEPT ![r] = Nulo]
    /\ prazo' = [prazo EXCEPT ![r] = Nulo]
    /\ inicio' = [inicio EXCEPT ![r] = 0]
    /\ lido' = [lido EXCEPT ![r] = 0]
    /\ UNCHANGED <<relogio, perfis, senhaEm>>

\* What JwtStrategy lets through: not expired, and the account still approved.
\* The profile is the token's (RolesGuard).
Aceitos == {t \in tokens : t.tipo = "acesso" /\ agora < t.exp /\ aprovada[t.sub]}

-----------------------------------------------------------------------------
(* The world.                                                              *)

MudarPerfil(u) ==
    \E p \in Perfil \ {perfil[u]} :
        /\ perfil' = [perfil EXCEPT ![u] = p]
        /\ deixou' = [deixou EXCEPT ![u][perfil[u]] = agora]
        /\ UNCHANGED <<relogio, aprovada, pedidos, tokens, senhaEm>>

AprovarOuRevogar(u) ==
    /\ aprovada' = [aprovada EXCEPT ![u] = ~@]
    /\ UNCHANGED <<relogio, perfil, deixou, pedidos, tokens, senhaEm>>

\* A second passes. Expired tokens open nothing any more and are dropped.
Passar ==
    /\ agora < Fim
    /\ \A r \in Requisicao : /\ Aberta(r) => agora < inicio[r] + Demora
                             /\ etapa[r] = "calculada" => agora < lido[r] + Atraso
    /\ agora' = agora + 1
    /\ hora' = IF hora + 1 = Dia THEN 0 ELSE hora + 1
    /\ cortados' = IF hora' \in cortes THEN cortados \cup {agora'} ELSE cortados
    /\ tokens' = {t \in tokens : agora' < t.exp}
    /\ UNCHANGED <<cortes, perfis, pedidos, senhaEm>>

Parado == agora = Fim /\ UNCHANGED sessoesVars

SessoesNext ==
    \/ \E r \in Requisicao : LerSignIn(r) \/ LerRefresh(r) \/ Calcular(r) \/ Assinar(r)
    \/ \E u \in Usuario : MudarPerfil(u) \/ AprovarOuRevogar(u)
    \/ Passar
    \/ Parado

SessoesSpec == SessoesInit /\ [][SessoesNext]_sessoesVars

-----------------------------------------------------------------------------
(* Properties.                                                             *)

\* Every variable holds a value of its kind.
SessoesTypeOK ==
    /\ \E c1, c2 \in Horario : cortes = {c1, c2}
    /\ agora \in Nat
    /\ hora \in 0..(Dia - 1)
    /\ perfil \in [Usuario -> Perfil]
    /\ aprovada \in [Usuario -> BOOLEAN]
    /\ tokens \subseteq Token
    /\ etapa \in [Requisicao -> {"nova", "lida", "calculada", "respondida"}]
    /\ conta \in [Requisicao -> Identidade \cup {Nulo}]
    /\ inicio \in [Requisicao -> Nat]
    /\ prazo \in [Requisicao -> Nat \cup {Nulo}]
    /\ lido \in [Requisicao -> Nat]
    /\ cortados \subseteq Nat
    /\ deixou \in [Usuario -> [Perfil -> Nat]]
    /\ senhaEm \in [Usuario -> Nat]

\* The time to the cut-off ends on a cut-off and skips none, whether the two
\* cut-offs are equal, at midnight or this very second, and is never zero.
PrazoExato ==
    LET s == SegundosAteProximoCorte(hora)
        noDia(t) == IF t < Dia THEN t ELSE t - Dia
    IN  /\ s \in 1..Dia
        /\ noDia(hora + s) \in cortes
        /\ \A k \in 1..(s - 1) : noDia(hora + k) \notin cortes

\* Whoever works with the rights of a portaria has given the password since the
\* last cut-off, but for the second a token may be signed late and the time a
\* sign-in takes: no renewal and no signature around the cut-off carries a
\* gate's session into the next shift.
SenhaDesdeOCorte ==
    \A t \in Aceitos : t.perfil = "portaria" =>
        \A c \in cortados : c + Atraso <= agora => c <= senhaEm[t.sub] + Demora

\* How long a token with profile p may last.
Vida(p) == IF p = "portaria" THEN Dia ELSE Validade

\* A profile that was withdrawn keeps its rights (the guard looks at the token)
\* for the life of one access token at most: renewing does not prolong them.
PerfilRetiradoTemPrazo ==
    \A t \in Aceitos : perfil[t.sub] # t.perfil =>
        agora < deixou[t.sub][t.perfil] + Demora + Vida(t.perfil)

=============================================================================
