------------------------------- MODULE QrCodes -------------------------------
(***************************************************************************)
(* The QR code by which one or several parcels are collected:              *)
(* generateQrCodeToken and generateQrCodeBatchToken sign the parcels, the  *)
(* bearer and the condominium for twelve hours; readQrCodeToken, at the    *)
(* porter's lodge, judges them again on the rows of that moment; the       *)
(* hand-over that follows judges its recipient once more. A code is not    *)
(* used up and nothing is kept of it. The routes let moradores, admins and *)
(* super ask for a code, by the profile of the token, which outlives a     *)
(* change of the row: a bearer here is an account of whatever profile.     *)
(***************************************************************************)
EXTENDS Acervo

CONSTANTS
    Validade       \* instants a code lives

ASSUME ValidadeNatural == Validade \in Nat

VARIABLES
    faseQr,        \* how far the code is
    portador,      \* who asks for it
    lidas,         \* the parcels asked for, as read
    aConferir,     \* those of them whose right is still to be judged
    codigo,        \* what was signed
    intacto        \* no row has changed since the parcels were read (history)

qrVars == <<faseQr, portador, lidas, aConferir, codigo, intacto>>

QrInit ==
    /\ faseQr = "nenhum" /\ portador = Nulo
    /\ lidas = <<>> /\ aConferir = {}
    /\ codigo = Nulo /\ intacto = TRUE

QrTypeOK ==
    /\ faseQr \in {"nenhum", "conferindo", "assinado", "lido", "entregue", "recusado"}
    /\ portador \in Pessoa \cup {Nulo}
    /\ DOMAIN lidas \subseteq Encomenda /\ \A e \in DOMAIN lidas : lidas[e] \in EncomendaLinha
    /\ aConferir \subseteq DOMAIN lidas
    /\ codigo \in [condominio: Predios, expira: Nat] \cup {Nulo}
    /\ intacto \in BOOLEAN

\* The SELECT of the parcels, one or a batch: all there and none removed. Nothing is
\* asked of the profile of the bearer, who may be the admin that registered a parcel
\* for itself.
LerEncomendas ==
    /\ faseQr = "nenhum"
    /\ \E p \in Pessoa, es \in (SUBSET Encomenda) \ {{}} :
          /\ ~pessoas[p].removida
          /\ \A e \in es : Existe(e)
          /\ portador' = p
          /\ lidas' = [e \in es |-> encomendas[e]]
          /\ aConferir' = es
    /\ faseQr' = "conferindo"
    /\ UNCHANGED <<codigo, intacto>>

\* Holder of the parcel, or of the unit of a parcel that anyone of the unit may collect.
Vinculado(p, linha) ==
    \/ linha.titular = p
    \/ linha.restricao = "unidade" /\ pessoas[p].unidade = linha.unidade

\* Mutant of AssertQrCodeAccess: the restriction of the parcel is not looked at.
AssertQrCodeAccess_SemRestricao(p, linha) ==
    \/ linha.titular = p
    \/ ~pessoas[p].removida /\ pessoas[p].unidade = linha.unidade

\* assertQrCodeAccess, which reads its user only when not the holder.
AssertQrCodeAccess(p, linha) ==
    linha.titular = p \/ (~pessoas[p].removida /\ Vinculado(p, linha))

ConferirAcesso(e) ==
    /\ faseQr = "conferindo" /\ e \in aConferir
    /\ IF AssertQrCodeAccess(portador, lidas[e])
       THEN aConferir' = aConferir \ {e} /\ UNCHANGED faseQr
       ELSE faseQr' = "recusado" /\ UNCHANGED aConferir
    /\ UNCHANGED <<portador, lidas, codigo, intacto>>

\* All of one condominium: the code is signed.
AssinarCodigo ==
    LET cs == {lidas[e].condominio : e \in DOMAIN lidas}
    IN  /\ faseQr = "conferindo" /\ aConferir = {}
        /\ IF Cardinality(cs) = 1
           THEN /\ faseQr' = "assinado"
                /\ codigo' = [condominio |-> CHOOSE c \in cs : TRUE, expira |-> relogio + Validade]
           ELSE faseQr' = "recusado" /\ UNCHANGED codigo
        /\ UNCHANGED <<portador, lidas, aConferir, intacto>>

\* verifyQrCodeToken, of a code that was signed here.
CodigoValido == relogio < codigo.expira

\* What readQrCodeToken demands of the code now: of the bearer neither access nor profile.
LeituraAceita ==
    LET p == portador
    IN  /\ CodigoValido
        /\ ~pessoas[p].removida /\ CondominioDa[pessoas[p].unidade] = codigo.condominio
        /\ \A e \in DOMAIN lidas : /\ Existe(e)
                                   /\ encomendas[e].condominio = codigo.condominio
                                   /\ Vinculado(p, encomendas[e])

LerCodigo ==
    /\ faseQr = "assinado"
    /\ faseQr' = IF LeituraAceita THEN "lido" ELSE "recusado"
    /\ UNCHANGED <<portador, lidas, aConferir, codigo, intacto>>

\* What validateEntregueParaUsuario demands of the recipient of a hand-over.
EntregaAceita(p, e) ==
    /\ Existe(e)
    /\ ~pessoas[p].removida /\ pessoas[p].aprovada /\ pessoas[p].morador
    /\ CondominioDa[pessoas[p].unidade] = encomendas[e].condominio
    /\ Vinculado(p, encomendas[e])

\* The porter hands a parcel of the code over to its bearer.
EntregarPorCodigo(e) ==
    /\ faseQr = "lido" /\ e \in DOMAIN lidas
    /\ faseQr' = IF EntregaAceita(portador, e) THEN "entregue" ELSE "recusado"
    /\ UNCHANGED <<portador, lidas, aConferir, codigo, intacto>>

QrNext ==
    \/ LerEncomendas \/ AssinarCodigo \/ LerCodigo
    \/ \E e \in Encomenda : ConferirAcesso(e) \/ EntregarPorCodigo(e)

=============================================================================
