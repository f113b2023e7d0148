-------------------------- MODULE Notificacoes_proofs --------------------------
(***************************************************************************)
(* Proofs about Notificacoes, for any notices, accounts, parcels and       *)
(* number of requests.                                                     *)
(*                                                                         *)
(* Both action properties speak of a commit, and a commit installs what    *)
(* was computed earlier. What links the two moments is inductive:          *)
(*   - Lidos: what a request read about the notices asked for is still     *)
(*     true of those that are still there, because a uuid is never drawn   *)
(*     twice and no handler changes the owner;                             *)
(*   - Gravados: the rows written and not committed are the committed rows *)
(*     with the columns of the operation replaced, because the row locks   *)
(*     (Trancas) keep everybody else from them, and a row that is new is   *)
(*     known to nobody.                                                    *)
(* What a reminder leaves has an invariant of its own, LInv, on top.       *)
(***************************************************************************)
EXTENDS Notificacoes, TLAPS

-----------------------------------------------------------------------------
(* The inductive invariant.                                                *)

Leitura == {"marcar", "marcarVarias", "marcarTodas"}
Alteracao == Leitura \cup {"restaurar", "remover", "apagar"}
Insercao == {"novoMorador", "lembrete"}

\* What the operation leaves of the row l.
Efeito(op, l) ==
    CASE op \in Leitura -> [l EXCEPT !.lida = TRUE]
      [] op = "remover" -> [l EXCEPT !.removida = TRUE]
      [] op = "restaurar" -> [l EXCEPT !.removida = FALSE]
      [] OTHER -> Nulo

\* Who asks for p may do it to the row l.
Direito(p, l) ==
    /\ p.op \in Leitura \cup {"remover"} => PerfilDe[p.ator] = "super" \/ l.dono = p.ator
    /\ p.op = "restaurar" => PerfilDe[p.ator] \in {"super", "admin"}
    /\ p.op = "apagar" => PerfilDe[p.ator] = "super"

\* What p knows of the notices it names, in a table t with the uuids em drawn.
Lido(p, em, t) ==
    /\ p \in Pedido
    /\ p.alvos \subseteq em
    /\ p.op \in Insercao => p.alvos = {}
    /\ \A n \in p.alvos : t[n] # Nulo => Direito(p, t[n])

\* What p has written is, in a table t.
Gravado(p, im, t) ==
    /\ p.op \in Insercao => \A n \in DOMAIN im : t[n] = Nulo /\ im[n] \in Linha
    /\ p.op \in Alteracao =>
          /\ \A n \in DOMAIN im : n \in p.alvos /\ t[n] \in Linha /\ im[n] = Efeito(p.op, t[n])
          /\ \A n \in p.alvos : n \notin DOMAIN im => t[n] = Nulo

Lidos == \A r \in Requisicao : Aberta(r) => Lido(pedido[r], emitidas, notificacoes)

Gravados ==
    \A r \in Requisicao :
        IF fase[r] = "gravada"
        THEN Gravado(pedido[r], imagem[r], notificacoes) /\ DOMAIN imagem[r] \subseteq emitidas
        ELSE DOMAIN imagem[r] = {}

\* Every notice that exists has a uuid that was drawn.
Emissao == \A n \in Notificacao : notificacoes[n] # Nulo => n \in emitidas

\* One writer of a row at a time.
Trancas == \A r, s \in Requisicao : r # s => DOMAIN imagem[r] \cap DOMAIN imagem[s] = {}

\* Nobody has read a row that is not committed yet.
Desconhecidas ==
    \A r, s \in Requisicao :
        fase[r] = "gravada" /\ pedido[r].op \in Insercao /\ Aberta(s) =>
            DOMAIN imagem[r] \cap pedido[s].alvos = {}

IInv == TypeOK /\ Lidos /\ Gravados /\ Emissao /\ Trancas /\ Desconhecidas

-----------------------------------------------------------------------------
(* What the effects are.                                                   *)

\* An operation on a row leaves a row of the same person about the same parcel, never
\* less read than it was, or none when it deletes.
LEMMA EfeitoTipo ==
    ASSUME NEW l \in Linha, NEW op \in Alteracao
    PROVE  /\ op = "apagar" => Efeito(op, l) = Nulo
           /\ op # "apagar" =>
                 /\ Efeito(op, l) \in Linha
                 /\ Efeito(op, l).dono = l.dono
                 /\ Efeito(op, l).encomenda = l.encomenda
                 /\ op \in Leitura => Efeito(op, l).lida
                 /\ op \notin Leitura => Efeito(op, l).lida = l.lida
                 /\ op = "remover" => Efeito(op, l).removida
                 /\ op = "restaurar" => ~Efeito(op, l).removida
                 /\ op \in Leitura => Efeito(op, l).removida = l.removida
<1>1. CASE op \in Leitura
  BY <1>1 DEF Efeito, Leitura, Linha
<1>2. CASE op = "remover"
  BY <1>2 DEF Efeito, Leitura, Linha
<1>3. CASE op = "restaurar"
  BY <1>3 DEF Efeito, Leitura, Linha
<1>4. CASE op = "apagar"
  BY <1>4 DEF Efeito, Leitura
<1> QED BY <1>1, <1>2, <1>3, <1>4 DEF Alteracao

\* Whoever may act on a row still may after any operation that leaves it.
LEMMA DireitoFica ==
    ASSUME NEW p, NEW l \in Linha, Direito(p, l), NEW op \in Alteracao, Efeito(op, l) # Nulo
    PROVE  Direito(p, Efeito(op, l))
<1>1. op # "apagar"
  BY EfeitoTipo
<1>2. Efeito(op, l).dono = l.dono
  BY ONLY <1>1, EfeitoTipo, l \in Linha, op \in Alteracao
<1> QED BY <1>2 DEF Direito

\* A fact about p and a table stays when more uuids are drawn and rows go.
LEMMA LidoFica ==
    ASSUME NEW p, NEW em, NEW em2, NEW t, NEW t2, Lido(p, em, t), em \subseteq em2,
           \A n \in p.alvos : t2[n] # Nulo => Direito(p, t2[n])
    PROVE  Lido(p, em2, t2)
BY DEF Lido

-----------------------------------------------------------------------------
(* The kinds of step.                                                      *)

\* r asks for p, of which it has read notices that exist.
AoLer(r, p) ==
    /\ fase[r] = "nova"
    /\ fase' = [fase EXCEPT ![r] = "lida"]
    /\ pedido' = [pedido EXCEPT ![r] = p]
    /\ pendentes' \in [Requisicao -> SUBSET Encomenda]
    /\ \A s \in Requisicao : s # r => pendentes'[s] = pendentes[s]
    /\ UNCHANGED <<notificacoes, emitidas, existentes, aguardando, imagem, avisados>>
    /\ Lido(p, emitidas, notificacoes)
    /\ \A n \in p.alvos : notificacoes[n] # Nulo

\* r, which asks for p, writes the rows im and draws uuids for those that are new.
AoGravar(r, p, im) ==
    /\ fase[r] \in {"nova", "lida"}
    /\ fase' = [fase EXCEPT ![r] = "gravada"]
    /\ pedido' = [pedido EXCEPT ![r] = p]
    /\ imagem' = [imagem EXCEPT ![r] = im]
    /\ im \in [DOMAIN im -> Linha \cup {Nulo}]
    /\ emitidas \subseteq emitidas' /\ emitidas' \subseteq Notificacao
    /\ DOMAIN im \subseteq emitidas'
    /\ UNCHANGED <<notificacoes, existentes, aguardando, pendentes, avisados>>
    /\ Lido(p, emitidas', notificacoes)
    /\ Gravado(p, im, notificacoes)
    /\ \A s \in Requisicao \ {r} :
          /\ DOMAIN im \cap DOMAIN imagem[s] = {}
          /\ p.op \in Insercao /\ Aberta(s) => DOMAIN im \cap pedido[s].alvos = {}
          /\ fase[s] = "gravada" /\ pedido[s].op \in Insercao => DOMAIN imagem[s] \cap p.alvos = {}

\* r ends.
AoEncerrar(r, como) ==
    /\ Aberta(r)
    /\ como \in {"confirmada", "desfeita"}
    /\ Encerrar(r, como)

-----------------------------------------------------------------------------
(* Each kind keeps the invariant.                                          *)

\* A handler that has read its notices knows of them what Lido says.
LEMMA LerMantem ==
    ASSUME IInv, NEW r \in Requisicao, NEW p, AoLer(r, p)
    PROVE  IInv'
<1> USE DEF IInv, AoLer
<1>o. /\ fase'[r] = "lida" /\ pedido'[r] = p
      /\ \A s \in Requisicao : s # r => fase'[s] = fase[s] /\ pedido'[s] = pedido[s]
  BY DEF TypeOK
<1>p. p \in Pedido
  BY DEF Lido
<1>1. TypeOK'
  BY <1>p DEF TypeOK
<1>2. Lidos'
  <2> SUFFICES ASSUME NEW s \in Requisicao, Aberta(s)'
               PROVE  Lido(pedido[s], emitidas, notificacoes)'
    BY DEF Lidos
  <2>1. CASE s = r
    BY <1>o, <2>1 DEF Lido, Direito
  <2>2. CASE s # r
    <3>1. Aberta(s) /\ pedido'[s] = pedido[s]
      BY <1>o, <2>2 DEF Aberta
    <3> QED BY <3>1 DEF Lidos, Lido, Direito
  <2> QED BY <2>1, <2>2
<1>3. Gravados'
  <2> SUFFICES ASSUME NEW s \in Requisicao
               PROVE  (IF fase[s] = "gravada"
                       THEN Gravado(pedido[s], imagem[s], notificacoes)
                            /\ DOMAIN imagem[s] \subseteq emitidas
                       ELSE DOMAIN imagem[s] = {})'
    BY DEF Gravados
  <2>1. CASE s = r
    BY <1>o, <2>1 DEF Gravados
  <2>2. CASE s # r
    BY <1>o, <2>2 DEF Gravados, Gravado
  <2> QED BY <2>1, <2>2
<1>4. Emissao'
  BY DEF Emissao
<1>5. Trancas'
  BY DEF Trancas
<1>6. Desconhecidas'
  <2> SUFFICES ASSUME NEW s \in Requisicao, NEW q \in Requisicao,
                      fase'[s] = "gravada", pedido'[s].op \in Insercao, Aberta(q)'
               PROVE  DOMAIN imagem'[s] \cap pedido'[q].alvos = {}
    BY DEF Desconhecidas
  <2>1. s # r /\ fase[s] = "gravada" /\ pedido[s].op \in Insercao
    BY <1>o
  <2>2. \A n \in DOMAIN imagem[s] : notificacoes[n] = Nulo
    BY <2>1 DEF Gravados, Gravado
  <2>3. CASE q = r
    BY <1>o, <2>2, <2>3
  <2>4. CASE q # r
    <3>1. Aberta(q) /\ pedido'[q] = pedido[q]
      BY <1>o, <2>4 DEF Aberta
    <3> QED BY <2>1, <3>1 DEF Desconhecidas
  <2> QED BY <2>3, <2>4
<1> QED BY <1>1, <1>2, <1>3, <1>4, <1>5, <1>6

\* A handler writes rows that nobody holds, with the effect of its operation.
LEMMA GravarMantem ==
    ASSUME IInv, NEW r \in Requisicao, NEW p, NEW im, AoGravar(r, p, im)
    PROVE  IInv'
<1> USE DEF IInv, AoGravar
<1>o. /\ fase'[r] = "gravada" /\ pedido'[r] = p /\ imagem'[r] = im
      /\ \A s \in Requisicao : s # r => /\ fase'[s] = fase[s]
                                        /\ pedido'[s] = pedido[s]
                                        /\ imagem'[s] = imagem[s]
  BY DEF TypeOK
<1>p. p \in Pedido
  BY DEF Lido
<1>1. TypeOK'
  <2>1. fase' \in [Requisicao -> {"nova", "lida", "gravada", "confirmada", "desfeita"}]
        /\ pedido' \in [Requisicao -> Pedido \cup {Nulo}]
        /\ DOMAIN imagem' = Requisicao
    BY <1>p DEF TypeOK
  <2>2. \A s \in Requisicao : imagem'[s] \in [DOMAIN imagem'[s] -> Linha \cup {Nulo}]
                              /\ DOMAIN imagem'[s] \subseteq Notificacao
    <3> TAKE s \in Requisicao
    <3>1. CASE s = r
      BY <1>o, <3>1
    <3>2. CASE s # r
      BY <1>o, <3>2 DEF TypeOK
    <3> QED BY <3>1, <3>2
  <2> QED BY <2>1, <2>2 DEF TypeOK
<1>2. Lidos'
  <2> SUFFICES ASSUME NEW s \in Requisicao, Aberta(s)'
               PROVE  Lido(pedido'[s], emitidas', notificacoes)
    BY DEF Lidos
  <2>1. CASE s = r
    BY <1>o, <2>1
  <2>2. CASE s # r
    <3>1. Aberta(s) /\ pedido'[s] = pedido[s]
      BY <1>o, <2>2 DEF Aberta
    <3> QED BY <3>1 DEF Lidos, Lido
  <2> QED BY <2>1, <2>2
<1>3. Gravados'
  <2> SUFFICES ASSUME NEW s \in Requisicao
               PROVE  IF fase'[s] = "gravada"
                      THEN Gravado(pedido'[s], imagem'[s], notificacoes)
                           /\ DOMAIN imagem'[s] \subseteq emitidas'
                      ELSE DOMAIN imagem'[s] = {}
    BY DEF Gravados
  <2>1. CASE s = r
    BY <1>o, <2>1
  <2>2. CASE s # r
    BY <1>o, <2>2 DEF Gravados
  <2> QED BY <2>1, <2>2
<1>4. Emissao'
  BY DEF Emissao
<1>5. Trancas'
  <2> SUFFICES ASSUME NEW s \in Requisicao, NEW q \in Requisicao, s # q
               PROVE  DOMAIN imagem'[s] \cap DOMAIN imagem'[q] = {}
    BY DEF Trancas
  <2>1. CASE s = r
    BY <1>o, <2>1
  <2>2. CASE q = r
    BY <1>o, <2>2
  <2>3. CASE s # r /\ q # r
    BY <1>o, <2>3 DEF Trancas
  <2> QED BY <2>1, <2>2, <2>3
<1>6. Desconhecidas'
  <2> SUFFICES ASSUME NEW s \in Requisicao, NEW q \in Requisicao,
                      fase'[s] = "gravada", pedido'[s].op \in Insercao, Aberta(q)'
               PROVE  DOMAIN imagem'[s] \cap pedido'[q].alvos = {}
    BY DEF Desconhecidas
  <2>0. q # r => Aberta(q)
    BY <1>o DEF Aberta
  <2>1. CASE s = r /\ q = r
    BY <1>o, <2>1 DEF Lido
  <2>2. CASE s = r /\ q # r
    BY <1>o, <2>0, <2>2
  <2>3. CASE s # r /\ q = r
    BY <1>o, <2>3
  <2>4. CASE s # r /\ q # r
    BY <1>o, <2>0, <2>4 DEF Desconhecidas
  <2> QED BY <2>1, <2>2, <2>3, <2>4
<1> QED BY <1>1, <1>2, <1>3, <1>4, <1>5, <1>6

\* What an end does to the requests: r closes and lets go of its rows.
LEMMA EncerrarPassos ==
    ASSUME IInv, NEW r \in Requisicao, NEW como, AoEncerrar(r, como)
    PROVE  /\ fase'[r] = como /\ DOMAIN imagem'[r] = {} /\ ~Aberta(r)'
           /\ \A s \in Requisicao : s # r => /\ fase'[s] = fase[s]
                                             /\ imagem'[s] = imagem[s]
                                             /\ Aberta(s)' <=> Aberta(s)
<1> USE DEF AoEncerrar, Encerrar, IInv
<1>1. fase'[r] = como /\ \A s \in Requisicao : s # r => fase'[s] = fase[s]
  BY DEF TypeOK
<1>2. imagem'[r] = Nenhuma /\ \A s \in Requisicao : s # r => imagem'[s] = imagem[s]
  BY DEF TypeOK
<1>3. DOMAIN imagem'[r] = {}
  BY <1>2 DEF Nenhuma
<1>4. ~Aberta(r)' /\ \A s \in Requisicao : s # r => (Aberta(s)' <=> Aberta(s))
  BY <1>1 DEF Aberta
<1> QED BY <1>1, <1>2, <1>3, <1>4

\* The end of r keeps the invariant, if what it does to the table leaves alone what
\* the others know and hold.
LEMMA EncerrarMantem ==
    ASSUME IInv, NEW r \in Requisicao, NEW como, AoEncerrar(r, como),
           notificacoes' \in [Notificacao -> Linha \cup {Nulo}],
           \A n \in Notificacao : notificacoes'[n] # Nulo => n \in emitidas,
           \A s \in Requisicao \ {r} :
               /\ Aberta(s) => Lido(pedido[s], emitidas, notificacoes')
               /\ fase[s] = "gravada" => Gravado(pedido[s], imagem[s], notificacoes')
    PROVE  IInv'
<1> USE DEF AoEncerrar, Encerrar, IInv
<1>o. /\ fase'[r] = como /\ DOMAIN imagem'[r] = {} /\ ~Aberta(r)'
      /\ \A s \in Requisicao : s # r => /\ fase'[s] = fase[s]
                                        /\ imagem'[s] = imagem[s]
                                        /\ Aberta(s)' <=> Aberta(s)
  BY EncerrarPassos
<1>u. UNCHANGED <<emitidas, existentes, aguardando, pedido, pendentes, avisados>>
  BY DEF mundo
<1>1. TypeOK'
  <2>1. fase' \in [Requisicao -> {"nova", "lida", "gravada", "confirmada", "desfeita"}]
        /\ DOMAIN imagem' = Requisicao
    BY DEF TypeOK
  <2>2. \A s \in Requisicao : imagem'[s] \in [DOMAIN imagem'[s] -> Linha \cup {Nulo}]
                              /\ DOMAIN imagem'[s] \subseteq Notificacao
    <3> TAKE s \in Requisicao
    <3>1. CASE s = r
      <4>1. imagem'[r] = Nenhuma
        BY DEF TypeOK
      <4> QED BY <4>1, <3>1 DEF Nenhuma
    <3>2. CASE s # r
      BY <1>o, <3>2 DEF TypeOK
    <3> QED BY <3>1, <3>2
  <2> QED BY <1>u, <2>1, <2>2 DEF TypeOK
<1>2. Lidos'
  <2> SUFFICES ASSUME NEW s \in Requisicao, Aberta(s)'
               PROVE  Lido(pedido'[s], emitidas', notificacoes')
    BY DEF Lidos
  <2>1. s \in Requisicao \ {r} /\ Aberta(s)
    BY <1>o
  <2> QED BY <1>u, <2>1
<1>3. Gravados'
  <2> SUFFICES ASSUME NEW s \in Requisicao
               PROVE  IF fase'[s] = "gravada"
                      THEN Gravado(pedido'[s], imagem'[s], notificacoes')
                           /\ DOMAIN imagem'[s] \subseteq emitidas'
                      ELSE DOMAIN imagem'[s] = {}
    BY DEF Gravados
  <2>1. CASE s = r
    BY <1>o, <2>1
  <2>2. CASE s # r
    BY <1>o, <1>u, <2>2 DEF Gravados
  <2> QED BY <2>1, <2>2
<1>4. Emissao'
  BY <1>u DEF Emissao
<1>5. Trancas'
  <2> SUFFICES ASSUME NEW s \in Requisicao, NEW q \in Requisicao, s # q
               PROVE  DOMAIN imagem'[s] \cap DOMAIN imagem'[q] = {}
    BY DEF Trancas
  <2>1. CASE s = r \/ q = r
    BY <1>o, <2>1
  <2>2. CASE s # r /\ q # r
    BY <1>o, <2>2 DEF Trancas
  <2> QED BY <2>1, <2>2
<1>6. Desconhecidas'
  <2> SUFFICES ASSUME NEW s \in Requisicao, NEW q \in Requisicao,
                      fase'[s] = "gravada", pedido[s].op \in Insercao, Aberta(q)'
               PROVE  DOMAIN imagem'[s] \cap pedido[q].alvos = {}
    BY <1>u DEF Desconhecidas
  <2>1. s # r /\ q # r
    BY <1>o
  <2> QED BY <1>o, <2>1 DEF Desconhecidas
<1> QED BY <1>1, <1>2, <1>3, <1>4, <1>5, <1>6

\* A request that is undone leaves the table alone.
LEMMA DesfazerMantem ==
    ASSUME IInv, NEW r \in Requisicao, AoEncerrar(r, "desfeita"), UNCHANGED notificacoes
    PROVE  IInv'
BY EncerrarMantem DEF IInv, TypeOK, Emissao, Lidos, Gravados

\* What another request's commit of r does to a notice that s names or holds.
LEMMA ConfirmarAlheio ==
    ASSUME IInv, NEW r \in Requisicao, Confirmar(r), NEW s \in Requisicao, s # r
    PROVE  /\ Aberta(s) => Lido(pedido[s], emitidas, notificacoes')
           /\ fase[s] = "gravada" => Gravado(pedido[s], imagem[s], notificacoes')
<1> USE DEF IInv
<1>r. Gravado(pedido[r], imagem[r], notificacoes) /\ pedido[r] \in Pedido
  BY DEF Confirmar, Gravados, Lidos, Lido, Aberta
<1>t. \A n \in Notificacao : notificacoes'[n] = IF Segura(r, n) THEN imagem[r][n] ELSE notificacoes[n]
  BY DEF Confirmar
<1>1. ASSUME NEW n \in Notificacao, Aberta(s), n \in pedido[s].alvos, notificacoes'[n] # Nulo
      PROVE  Direito(pedido[s], notificacoes'[n])
  <2>l. Lido(pedido[s], emitidas, notificacoes)
    BY <1>1 DEF Lidos
  <2>1. CASE ~Segura(r, n)
    BY <1>1, <1>t, <2>1, <2>l DEF Lido
  <2>2. CASE Segura(r, n) /\ pedido[r].op \in Alteracao
    <3>1. /\ notificacoes[n] \in Linha
          /\ notificacoes'[n] = Efeito(pedido[r].op, notificacoes[n])
      BY <1>r, <1>t, <2>2 DEF Gravado, Segura
    <3>2. Direito(pedido[s], notificacoes[n])
      BY <1>1, <2>l, <3>1, Tabelas DEF Lido
    <3> QED BY <1>1, <2>2, <3>1, <3>2, DireitoFica
  <2>3. CASE Segura(r, n) /\ pedido[r].op \in Insercao
    <3>1. DOMAIN imagem[r] \cap pedido[s].alvos = {}
      BY <1>1, <2>3 DEF Desconhecidas, Confirmar
    <3> QED BY <1>1, <2>3, <3>1 DEF Segura
  <2> QED
    BY <1>r, <2>1, <2>2, <2>3 DEF Pedido, Operacao, Alteracao, Leitura, Insercao
<1>2. ASSUME Aberta(s) PROVE Lido(pedido[s], emitidas, notificacoes')
  <2>1. Lido(pedido[s], emitidas, notificacoes) /\ pedido[s].alvos \subseteq Notificacao
    BY <1>2 DEF Lidos, Lido, Pedido
  <2> QED BY <1>1, <1>2, <2>1 DEF Lido
<1>3. ASSUME fase[s] = "gravada" PROVE Gravado(pedido[s], imagem[s], notificacoes')
  <2>1. /\ Gravado(pedido[s], imagem[s], notificacoes) /\ Aberta(s)
        /\ DOMAIN imagem[s] \subseteq Notificacao
    BY <1>3 DEF Gravados, Aberta, TypeOK
  <2>2. \A n \in DOMAIN imagem[s] : ~Segura(r, n)
    BY DEF Trancas, Segura
  <2>3. \A n \in DOMAIN imagem[s] : notificacoes'[n] = notificacoes[n]
    BY <1>t, <2>1, <2>2
  <2>4. pedido[s].alvos \subseteq Notificacao
    BY <2>1 DEF Lidos, Lido, Pedido
  <2>5. ASSUME NEW n \in pedido[s].alvos, notificacoes[n] = Nulo
        PROVE  notificacoes'[n] = Nulo
    <3>1. CASE ~Segura(r, n)
      BY <1>t, <2>4, <2>5, <3>1
    <3>2. CASE Segura(r, n)
      <4>1. pedido[r].op \notin Alteracao
        BY <1>r, <2>5, <3>2, Tabelas DEF Gravado, Segura
      <4>2. pedido[r].op \in Insercao
        BY <1>r, <4>1 DEF Pedido, Operacao, Alteracao, Leitura, Insercao
      <4> QED BY <2>1, <3>2, <4>2 DEF Desconhecidas, Confirmar, Segura
    <3> QED BY <3>1, <3>2
  <2> QED BY <2>1, <2>3, <2>5 DEF Gravado
<1> QED BY <1>2, <1>3

\* A commit installs what was written; what others have read of those notices stays
\* true, since an operation keeps the owner and uuids are not drawn twice.
LEMMA ConfirmarMantem ==
    ASSUME IInv, NEW r \in Requisicao, Confirmar(r)
    PROVE  IInv'
<1> USE DEF IInv
<1>1. AoEncerrar(r, "confirmada")
  BY DEF Confirmar, AoEncerrar, Aberta
<1>2. notificacoes' \in [Notificacao -> Linha \cup {Nulo}]
  BY DEF Confirmar, TypeOK, Segura
<1>3. \A n \in Notificacao : notificacoes'[n] # Nulo => n \in emitidas
  BY DEF Confirmar, Emissao, Gravados, Segura
<1>4. \A s \in Requisicao \ {r} :
          /\ Aberta(s) => Lido(pedido[s], emitidas, notificacoes')
          /\ fase[s] = "gravada" => Gravado(pedido[s], imagem[s], notificacoes')
  BY ConfirmarAlheio
<1> QED BY <1>1, <1>2, <1>3, <1>4, EncerrarMantem

\* A parcel that is deleted takes notices with it that nobody holds.
LEMMA ApagarMantem ==
    ASSUME IInv, NEW e \in Encomenda, ApagarEncomenda(e)
    PROVE  IInv'
<1> USE DEF IInv
<1> DEFINE ns == {n \in Notificacao : Existe(n) /\ notificacoes[n].encomenda = e}
<1>t. /\ notificacoes' = [n \in Notificacao |-> IF n \in ns THEN Nulo ELSE notificacoes[n]]
      /\ UNCHANGED <<emitidas, fase, pedido, imagem, pendentes, avisados>>
      /\ existentes' = existentes \ {e} /\ aguardando' = aguardando \ {e}
      /\ \A r \in Requisicao : \A n \in DOMAIN imagem[r] : n \notin ns
  BY DEF ApagarEncomenda
<1> HIDE DEF ns
<1>n. \A n \in Notificacao : notificacoes'[n] \in {Nulo, notificacoes[n]}
  BY <1>t
<1>1. TypeOK'
  BY <1>t DEF TypeOK
<1>2. Lidos'
  <2> SUFFICES ASSUME NEW s \in Requisicao, Aberta(s)
               PROVE  Lido(pedido[s], emitidas, notificacoes')
    BY <1>t DEF Lidos, Aberta
  <2>1. Lido(pedido[s], emitidas, notificacoes) /\ pedido[s].alvos \subseteq Notificacao
    BY DEF Lidos, Lido, Pedido
  <2> QED BY <1>n, <2>1 DEF Lido
<1>3. Gravados'
  <2> SUFFICES ASSUME NEW s \in Requisicao, fase[s] = "gravada"
               PROVE  Gravado(pedido[s], imagem[s], notificacoes')
    BY <1>t DEF Gravados
  <2>1. /\ Gravado(pedido[s], imagem[s], notificacoes)
        /\ DOMAIN imagem[s] \subseteq Notificacao
        /\ pedido[s].alvos \subseteq Notificacao
    BY DEF Gravados, TypeOK, Lidos, Lido, Pedido, Aberta
  <2>2. \A n \in DOMAIN imagem[s] : notificacoes'[n] = notificacoes[n]
    BY <1>t, <2>1
  <2> QED BY <1>n, <2>1, <2>2 DEF Gravado
<1>4. Emissao'
  BY <1>t, <1>n DEF Emissao
<1>5. Trancas' /\ Desconhecidas'
  BY <1>t DEF Trancas, Desconhecidas, Aberta
<1> QED BY <1>1, <1>2, <1>3, <1>4, <1>5

\* The push of a reminder changes no row.
LEMMA EnviarMantem ==
    ASSUME IInv, NEW r \in Requisicao, EnviarPush(r)
    PROVE  IInv'
<1> USE DEF IInv, EnviarPush
<1>1. TypeOK'
  <2>1. pendentes[r] \subseteq Encomenda
    BY DEF TypeOK
  <2>2. {TitularDe[e] : e \in pendentes[r]} \subseteq Usuario
    BY <2>1, Tabelas
  <2> QED BY <2>2 DEF TypeOK, mundo
<1>2. Lidos' /\ Gravados' /\ Emissao' /\ Trancas' /\ Desconhecidas'
  BY DEF Lidos, Gravados, Emissao, Trancas, Desconhecidas, Aberta, mundo
<1> QED BY <1>1, <1>2

-----------------------------------------------------------------------------
(* Which action is of which kind.                                          *)

\* A handler that reads and has found what it needs.
LEMMA LerDeTipo ==
    ASSUME IInv, NEW r \in Requisicao, NEW op \in Alteracao, NEW u \in Usuario,
           NEW ns \in SUBSET Notificacao, Ler(r, op, u, ns),
           \A n \in ns : Existe(n) /\ Direito([op |-> op, ator |-> u, alvos |-> ns], notificacoes[n])
    PROVE  IInv'
<1> DEFINE p == [op |-> op, ator |-> u, alvos |-> ns]
<1>1. p \in Pedido
  BY DEF Pedido, Operacao, Alteracao, Leitura
<1>2. ns \subseteq emitidas
  BY DEF Existe, IInv, Emissao
<1>3. op \notin Insercao
  BY DEF Alteracao, Leitura, Insercao
<1>4. p.op = op /\ p.ator = u /\ p.alvos = ns
  OBVIOUS
<1>5. Lido(p, emitidas, notificacoes)
  <2> HIDE DEF p
  <2>1. \A n \in ns : Direito(p, notificacoes[n])
    BY DEF p
  <2> QED BY <1>1, <1>2, <1>3, <1>4, <2>1 DEF Lido
<1>6. AoLer(r, p)
  <2>1. /\ fase[r] = "nova" /\ fase' = [fase EXCEPT ![r] = "lida"]
        /\ pedido' = [pedido EXCEPT ![r] = p]
        /\ UNCHANGED <<notificacoes, existentes, aguardando, avisados, emitidas, imagem, pendentes>>
    BY DEF Ler, Abrir, mundo
  <2>2. pendentes \in [Requisicao -> SUBSET Encomenda]
    BY DEF IInv, TypeOK
  <2> QED BY <1>4, <1>5, <2>1, <2>2 DEF AoLer, Existe
<1> QED BY <1>6, LerMantem

\* Every first read is one of those of LerMantem.
LEMMA ComecaLendo ==
    ASSUME IInv, NEW r \in Requisicao,
           LerUma(r) \/ LerVarias(r) \/ LerRestore(r) \/ LerHardRemove(r) \/ LerPendentes(r)
    PROVE  IInv'
<1>1. CASE LerUma(r)
  <2>1. PICK op \in {"marcar", "remover"}, u \in Usuario, n \in Notificacao :
            Ativa(n) /\ PodeEscrever(n, u) /\ Ler(r, op, u, {n})
    BY <1>1 DEF LerUma
  <2>2. op \in Alteracao /\ op \notin {"restaurar", "apagar"}
    BY DEF Alteracao, Leitura
  <2>3. \A m \in {n} : Existe(m) /\ Direito([op |-> op, ator |-> u, alvos |-> {n}], notificacoes[m])
    BY <2>1, <2>2 DEF Ativa, PodeEscrever, Direito
  <2> QED BY <2>1, <2>2, <2>3, LerDeTipo
<1>2. CASE LerVarias(r)
  <2>1. PICK u \in Usuario, ns \in (SUBSET Notificacao) \ {{}} :
            /\ \A n \in ns : Ativa(n) /\ PodeEscrever(n, u)
            /\ Ler(r, "marcarVarias", u, ns)
    BY <1>2 DEF LerVarias
  <2>2. "marcarVarias" \in Alteracao
    BY DEF Alteracao, Leitura
  <2>3. \A m \in ns : /\ Existe(m)
                      /\ Direito([op |-> "marcarVarias", ator |-> u, alvos |-> ns], notificacoes[m])
    BY <2>1 DEF Ativa, PodeEscrever, Direito
  <2> QED BY <2>1, <2>2, <2>3, LerDeTipo
<1>3. CASE LerRestore(r)
  <2>1. PICK u \in Com({"super", "admin"}), n \in Notificacao :
            Existe(n) /\ notificacoes[n].removida /\ Ler(r, "restaurar", u, {n})
    BY <1>3 DEF LerRestore
  <2>2. u \in Usuario /\ PerfilDe[u] \in {"super", "admin"}
    BY DEF Com
  <2>3. "restaurar" \in Alteracao /\ "restaurar" \notin Leitura \cup {"remover", "apagar"}
    BY DEF Alteracao, Leitura
  <2>4. \A m \in {n} : /\ Existe(m)
                       /\ Direito([op |-> "restaurar", ator |-> u, alvos |-> {n}], notificacoes[m])
    BY <2>1, <2>2, <2>3 DEF Direito
  <2> QED BY <2>1, <2>2, <2>3, <2>4, LerDeTipo
<1>4. CASE LerHardRemove(r)
  <2>1. PICK u \in Com({"super"}), n \in Notificacao : Existe(n) /\ Ler(r, "apagar", u, {n})
    BY <1>4 DEF LerHardRemove
  <2>2. u \in Usuario /\ PerfilDe[u] = "super"
    BY DEF Com
  <2>3. "apagar" \in Alteracao /\ "apagar" \notin Leitura \cup {"remover", "restaurar"}
    BY DEF Alteracao, Leitura
  <2>4. \A m \in {n} : /\ Existe(m)
                       /\ Direito([op |-> "apagar", ator |-> u, alvos |-> {n}], notificacoes[m])
    BY <2>1, <2>2, <2>3 DEF Direito
  <2>5. {n} \in SUBSET Notificacao
    OBVIOUS
  <2>6. Ler(r, "apagar", u, {n})
    BY <2>1
  <2> QED BY ONLY IInv, r \in Requisicao, <2>2, <2>3, <2>4, <2>5, <2>6, LerDeTipo
<1>5. CASE LerPendentes(r)
  <2> DEFINE p == [op |-> "lembrete", ator |-> Nulo, alvos |-> {}]
  <2>1. Lido(p, emitidas, notificacoes)
    BY DEF Lido, Pedido, Operacao
  <2>2. /\ fase[r] = "nova" /\ fase' = [fase EXCEPT ![r] = "lida"]
        /\ pedido' = [pedido EXCEPT ![r] = p]
        /\ pendentes' = [pendentes EXCEPT ![r] = aguardando]
        /\ UNCHANGED <<notificacoes, existentes, aguardando, avisados, emitidas, imagem>>
    BY <1>5 DEF LerPendentes, Abrir, mundo
  <2>3. /\ pendentes' \in [Requisicao -> SUBSET Encomenda]
        /\ \A s \in Requisicao : s # r => pendentes'[s] = pendentes[s]
    BY <2>2 DEF IInv, TypeOK
  <2>4. AoLer(r, p)
    BY <2>1, <2>2, <2>3 DEF AoLer
  <2> QED BY <2>4, LerMantem
<1> QED BY <1>1, <1>2, <1>3, <1>4, <1>5

\* An UPDATE or DELETE of the rows found, by the operation of the request.
LEMMA GravarDeTipo ==
    ASSUME IInv, NEW r \in Requisicao, NEW ops \in SUBSET Alteracao, NEW novas,
           Gravar(r, ops, novas), DOMAIN novas = Achadas(r), novas \in [DOMAIN novas -> Linha \cup {Nulo}],
           \A n \in Achadas(r) : novas[n] = Efeito(pedido[r].op, notificacoes[n])
    PROVE  IInv'
<1> USE DEF IInv
<1> DEFINE p == pedido[r]
<1>1. /\ fase[r] = "lida" /\ p.op \in Alteracao /\ Livres(r, Achadas(r))
      /\ imagem' = [imagem EXCEPT ![r] = novas]
      /\ fase' = [fase EXCEPT ![r] = "gravada"]
      /\ UNCHANGED <<notificacoes, emitidas, existentes, aguardando, pedido, pendentes, avisados>>
  BY DEF Gravar, mundo
<1>2. Lido(p, emitidas, notificacoes) /\ Aberta(r)
  BY <1>1 DEF Lidos, Aberta
<1>3. Achadas(r) \subseteq p.alvos /\ p.alvos \subseteq Notificacao
  BY <1>2 DEF Achadas, Lido, Pedido
<1>4. p.op \notin Insercao
  BY <1>1 DEF Alteracao, Leitura, Insercao
<1>5. Gravado(p, novas, notificacoes)
  <2>1. \A n \in Achadas(r) : notificacoes[n] \in Linha
    BY <1>3 DEF Achadas, Existe, TypeOK
  <2>2. \A n \in p.alvos : n \notin Achadas(r) => notificacoes[n] = Nulo
    BY DEF Achadas, Existe
  <2> QED BY <1>3, <1>4, <2>1, <2>2 DEF Gravado
<1>6. \A s \in Requisicao \ {r} :
          /\ DOMAIN novas \cap DOMAIN imagem[s] = {}
          /\ fase[s] = "gravada" /\ pedido[s].op \in Insercao => DOMAIN imagem[s] \cap p.alvos = {}
  BY <1>1, <1>2 DEF Livres, Segura, Desconhecidas
<1>7. pedido' = [pedido EXCEPT ![r] = p] /\ emitidas \subseteq Notificacao
  BY <1>1 DEF TypeOK
<1>8. DOMAIN novas \subseteq emitidas
  BY <1>2, <1>3 DEF Lido
<1>9. AoGravar(r, p, novas)
  BY <1>1, <1>2, <1>4, <1>5, <1>6, <1>7, <1>8 DEF AoGravar
<1> QED BY <1>9, GravarMantem

\* Every write of a notice that was read is one of those of GravarMantem.
LEMMA ProssegueGravando ==
    ASSUME IInv, NEW r \in Requisicao,
           GravarLeitura(r) \/ GravarRemocao(r) \/ GravarRestauro(r) \/ GravarApagamento(r)
    PROVE  IInv'
<1>0. \A n \in Achadas(r) : fase[r] = "lida" => notificacoes[n] \in Linha
  BY DEF Achadas, Existe, IInv, TypeOK, Lidos, Lido, Pedido, Aberta
<1>1. CASE GravarLeitura(r)
  <2> DEFINE novas == [n \in Achadas(r) |-> [notificacoes[n] EXCEPT !.lida = TRUE]]
  <2>1. Gravar(r, {"marcar", "marcarVarias"}, novas) /\ fase[r] = "lida" /\ pedido[r].op \in Leitura
    BY <1>1 DEF GravarLeitura, Gravar, Leitura
  <2>2. \A n \in Achadas(r) : novas[n] \in Linha /\ novas[n] = Efeito(pedido[r].op, notificacoes[n])
    BY <1>0, <2>1 DEF Efeito, Leitura, Linha
  <2>3. {"marcar", "marcarVarias"} \in SUBSET Alteracao
    BY DEF Alteracao, Leitura
  <2>4. DOMAIN novas = Achadas(r) /\ novas \in [DOMAIN novas -> Linha \cup {Nulo}]
    BY <2>2
  <2> HIDE DEF novas
  <2> QED BY <2>1, <2>2, <2>3, <2>4, GravarDeTipo
<1>2. CASE GravarRemocao(r)
  <2> DEFINE novas == [n \in Achadas(r) |-> [notificacoes[n] EXCEPT !.removida = TRUE]]
  <2>1. Gravar(r, {"remover"}, novas) /\ fase[r] = "lida" /\ pedido[r].op = "remover"
    BY <1>2 DEF GravarRemocao, Gravar
  <2>2. \A n \in Achadas(r) : novas[n] \in Linha /\ novas[n] = Efeito(pedido[r].op, notificacoes[n])
    BY <1>0, <2>1 DEF Efeito, Leitura, Linha
  <2>3. {"remover"} \in SUBSET Alteracao
    BY DEF Alteracao
  <2>4. DOMAIN novas = Achadas(r) /\ novas \in [DOMAIN novas -> Linha \cup {Nulo}]
    BY <2>2
  <2> HIDE DEF novas
  <2> QED BY <2>1, <2>2, <2>3, <2>4, GravarDeTipo
<1>3. CASE GravarRestauro(r)
  <2> DEFINE novas == [n \in Achadas(r) |-> [notificacoes[n] EXCEPT !.removida = FALSE]]
  <2>1. Gravar(r, {"restaurar"}, novas) /\ fase[r] = "lida" /\ pedido[r].op = "restaurar"
    BY <1>3 DEF GravarRestauro, Gravar
  <2>2. \A n \in Achadas(r) : novas[n] \in Linha /\ novas[n] = Efeito(pedido[r].op, notificacoes[n])
    BY <1>0, <2>1 DEF Efeito, Leitura, Linha
  <2>3. {"restaurar"} \in SUBSET Alteracao
    BY DEF Alteracao
  <2>4. DOMAIN novas = Achadas(r) /\ novas \in [DOMAIN novas -> Linha \cup {Nulo}]
    BY <2>2
  <2> HIDE DEF novas
  <2> QED BY <2>1, <2>2, <2>3, <2>4, GravarDeTipo
<1>4. CASE GravarApagamento(r)
  <2> DEFINE novas == [n \in Achadas(r) |-> Nulo]
  <2>1. Gravar(r, {"apagar"}, novas) /\ fase[r] = "lida" /\ pedido[r].op = "apagar"
    BY <1>4 DEF GravarApagamento, Gravar
  <2>2. \A n \in Achadas(r) : novas[n] = Efeito(pedido[r].op, notificacoes[n])
    BY <2>1 DEF Efeito, Leitura
  <2>3. {"apagar"} \in SUBSET Alteracao
    BY DEF Alteracao
  <2>4. DOMAIN novas = Achadas(r) /\ novas \in [DOMAIN novas -> Linha \cup {Nulo}]
    OBVIOUS
  <2> HIDE DEF novas
  <2> QED BY <2>1, <2>2, <2>3, <2>4, GravarDeTipo
<1> QED BY <1>1, <1>2, <1>3, <1>4

\* markAllAsRead writes what its owner has at that moment, without a read before.
LEMMA MarcarTodasMantem ==
    ASSUME IInv, NEW r \in Requisicao, MarcarTodas(r)
    PROVE  IInv'
<1> USE DEF IInv
<1>1. PICK u \in Usuario :
          LET ns == {n \in Notificacao : Ativa(n) /\ notificacoes[n].dono = u /\ ~notificacoes[n].lida}
          IN  /\ Livres(r, {n \in Notificacao : Existe(n) /\ notificacoes[n].dono = u})
              /\ Abrir(r, [op |-> "marcarTodas", ator |-> u, alvos |-> ns], "gravada")
              /\ imagem' = [imagem EXCEPT ![r] = [n \in ns |-> [notificacoes[n] EXCEPT !.lida = TRUE]]]
              /\ UNCHANGED <<emitidas, pendentes>>
  BY DEF MarcarTodas
<1> DEFINE ns == {n \in Notificacao : Ativa(n) /\ notificacoes[n].dono = u /\ ~notificacoes[n].lida}
           p == [op |-> "marcarTodas", ator |-> u, alvos |-> ns]
           im == [n \in ns |-> [notificacoes[n] EXCEPT !.lida = TRUE]]
<1>2. /\ fase[r] = "nova" /\ fase' = [fase EXCEPT ![r] = "gravada"]
      /\ pedido' = [pedido EXCEPT ![r] = p]
      /\ imagem' = [imagem EXCEPT ![r] = im]
      /\ UNCHANGED <<notificacoes, existentes, aguardando, avisados, emitidas, pendentes>>
  BY <1>1 DEF Abrir, mundo
<1>3. /\ ns \subseteq Notificacao
      /\ \A n \in ns : notificacoes[n] \in Linha /\ notificacoes[n].dono = u
      /\ \A n \in ns, s \in Requisicao \ {r} : n \notin DOMAIN imagem[s]
  BY <1>1 DEF Ativa, Existe, TypeOK, Livres, Segura
<1>4. ns \subseteq emitidas /\ \A n \in ns : notificacoes[n] # Nulo
  BY DEF Ativa, Existe, Emissao
<1>5. p.op = "marcarTodas" /\ p.ator = u /\ p.alvos = ns /\ p \in Pedido
  BY DEF Pedido, Operacao
<1>6. p.op \notin Insercao /\ p.op \in Leitura
  BY <1>5 DEF Insercao, Leitura
<1>7. DOMAIN im = ns /\ \A n \in ns : im[n] = Efeito("marcarTodas", notificacoes[n]) /\ im[n] \in Linha
  BY <1>3 DEF Efeito, Leitura, Linha
<1> HIDE DEF ns, p, im
<1>8. im \in [DOMAIN im -> Linha \cup {Nulo}]
  BY <1>7 DEF im
<1>9. Lido(p, emitidas, notificacoes)
  <2>1. \A n \in ns : Direito(p, notificacoes[n])
    BY <1>3, <1>5 DEF Direito
  <2> QED BY <1>4, <1>5, <1>6, <2>1 DEF Lido
<1>10. Gravado(p, im, notificacoes)
  BY <1>3, <1>5, <1>6, <1>7 DEF Gravado
<1>11. \A s \in Requisicao \ {r} :
          /\ DOMAIN im \cap DOMAIN imagem[s] = {}
          /\ fase[s] = "gravada" /\ pedido[s].op \in Insercao => DOMAIN imagem[s] \cap p.alvos = {}
  BY <1>3, <1>5, <1>7
<1>12. AoGravar(r, p, im)
  BY <1>2, <1>4, <1>6, <1>7, <1>8, <1>9, <1>10, <1>11 DEF AoGravar, TypeOK
<1> QED BY <1>12, GravarMantem

\* Rows that are inserted, each for one of the notices avisos, by a request for p.
LEMMA InserirMantem ==
    ASSUME IInv, NEW r \in Requisicao, NEW p \in Pedido, p.op \in Insercao, p.alvos = {},
           NEW avisos \in SUBSET [dono: Usuario, encomenda: Encomenda \cup {Nulo}],
           fase[r] \in {"nova", "lida"}, fase' = [fase EXCEPT ![r] = "gravada"],
           pedido' = [pedido EXCEPT ![r] = p], Novas(r, avisos),
           UNCHANGED <<notificacoes, existentes, aguardando, pendentes, avisados>>
    PROVE  IInv'
<1> USE DEF IInv
<1>1. PICK ns \in SUBSET (Notificacao \ emitidas) :
          /\ \E aviso \in Bijection(ns, avisos) :
                imagem' = [imagem EXCEPT ![r] = [n \in ns |->
                    [dono |-> aviso[n].dono, encomenda |-> aviso[n].encomenda,
                     lida |-> FALSE, removida |-> FALSE]]]
          /\ emitidas' = emitidas \cup ns
  BY DEF Novas
<1>2. PICK aviso \in Bijection(ns, avisos) :
          imagem' = [imagem EXCEPT ![r] = [n \in ns |->
              [dono |-> aviso[n].dono, encomenda |-> aviso[n].encomenda,
               lida |-> FALSE, removida |-> FALSE]]]
  BY <1>1
<1>3. aviso \in [ns -> avisos]
  BY DEF Bijection, Injection
<1> DEFINE im == [n \in ns |-> [dono |-> aviso[n].dono, encomenda |-> aviso[n].encomenda,
                                lida |-> FALSE, removida |-> FALSE]]
<1>4. DOMAIN im = ns /\ im \in [ns -> Linha]
  BY <1>3 DEF Linha
<1>5. imagem' = [imagem EXCEPT ![r] = im]
  BY <1>2
<1> HIDE DEF im
<1>6. Lido(p, emitidas', notificacoes)
  BY <1>1 DEF Lido
<1>7. \A n \in ns : notificacoes[n] = Nulo
  BY DEF Emissao
<1>8. Gravado(p, im, notificacoes)
  <2>1. p.op \notin Alteracao
    BY DEF Insercao, Alteracao, Leitura
  <2> QED BY <1>4, <1>7, <2>1 DEF Gravado
<1>9. \A s \in Requisicao \ {r} :
          /\ DOMAIN im \cap DOMAIN imagem[s] = {}
          /\ Aberta(s) => DOMAIN im \cap pedido[s].alvos = {}
  <2> TAKE s \in Requisicao \ {r}
  <2>1. DOMAIN imagem[s] \subseteq emitidas
    BY DEF Gravados
  <2>2. Aberta(s) => pedido[s].alvos \subseteq emitidas
    BY DEF Lidos, Lido
  <2> QED BY <1>4, <2>1, <2>2
<1>10. emitidas \subseteq emitidas' /\ emitidas' \subseteq Notificacao /\ DOMAIN im \subseteq emitidas'
  BY <1>1, <1>4 DEF TypeOK
<1>11. im \in [DOMAIN im -> Linha \cup {Nulo}]
  BY <1>4
<1>12. AoGravar(r, p, im)
  BY <1>5, <1>6, <1>8, <1>9, <1>10, <1>11 DEF AoGravar
<1> QED BY <1>12, GravarMantem

\* New notices take uuids that nobody has seen.
LEMMA InsercoesMantem ==
    ASSUME IInv, NEW r \in Requisicao, InserirNovoMorador(r) \/ InserirLembretes(r)
    PROVE  IInv'
<1> USE DEF IInv
<1>1. CASE InserirNovoMorador(r)
  <2> DEFINE p == [op |-> "novoMorador", ator |-> Nulo, alvos |-> {}]
             avisos == {[dono |-> a, encomenda |-> Nulo] : a \in Com({"admin"})}
  <2>1. p \in Pedido /\ p.op \in Insercao /\ p.alvos = {}
    BY DEF Pedido, Operacao, Insercao
  <2>2. avisos \in SUBSET [dono: Usuario, encomenda: Encomenda \cup {Nulo}]
    BY DEF Com
  <2>3. /\ fase[r] \in {"nova", "lida"} /\ fase' = [fase EXCEPT ![r] = "gravada"]
        /\ pedido' = [pedido EXCEPT ![r] = p] /\ Novas(r, avisos)
        /\ UNCHANGED <<notificacoes, existentes, aguardando, pendentes, avisados>>
    BY <1>1 DEF InserirNovoMorador, Abrir, mundo
  <2> HIDE DEF p, avisos
  <2> QED BY <2>1, <2>2, <2>3, InserirMantem
<1>2. CASE InserirLembretes(r)
  <2>1. /\ fase[r] = "lida" /\ pedido[r].op = "lembrete" /\ Novas(r, Lembretes(r))
        /\ fase' = [fase EXCEPT ![r] = "gravada"]
        /\ UNCHANGED <<notificacoes, existentes, aguardando, pedido, pendentes, avisados>>
    BY <1>2 DEF InserirLembretes, mundo
  <2>2. pedido[r] \in Pedido /\ pedido[r].op \in Insercao /\ pedido[r].alvos = {}
    BY <2>1 DEF Lidos, Lido, Aberta, Insercao
  <2>3. Lembretes(r) \in SUBSET [dono: Usuario, encomenda: Encomenda \cup {Nulo}]
    <3>1. pendentes[r] \subseteq Encomenda
      BY DEF TypeOK
    <3> QED BY <3>1, Tabelas DEF Lembretes
  <2>4. pedido' = [pedido EXCEPT ![r] = pedido[r]]
    BY <2>1 DEF TypeOK
  <2> QED BY <2>1, <2>2, <2>3, <2>4, InserirMantem
<1> QED BY <1>1, <1>2

\* A movement of a parcel touches no notice.
LEMMA MovimentarMantem ==
    ASSUME IInv, NEW e \in Encomenda, Movimentar(e)
    PROVE  IInv'
<1>1. UNCHANGED <<notificacoes, emitidas, existentes, fase, pedido, imagem, pendentes, avisados>>
      /\ aguardando' \subseteq existentes
  BY DEF Movimentar, IInv, TypeOK
<1> QED
  BY <1>1 DEF IInv, TypeOK, Lidos, Gravados, Emissao, Trancas, Desconhecidas, Aberta

-----------------------------------------------------------------------------
(* The theorems.                                                           *)

\* At first nothing is open and every notice there is has its uuid.
LEMMA InitIndutivo == Init => IInv
<1> SUFFICES ASSUME Init PROVE IInv
  OBVIOUS
<1>1. DOMAIN Nenhuma = {}
  BY DEF Nenhuma
<1>2. \A r \in Requisicao : fase[r] = "nova" /\ imagem[r] = Nenhuma
  BY DEF Init
<1>3. TypeOK
  <2>1. \A r \in Requisicao : imagem[r] \in [DOMAIN imagem[r] -> Linha \cup {Nulo}]
                              /\ DOMAIN imagem[r] \subseteq Notificacao
    BY <1>2 DEF Nenhuma
  <2> QED BY <2>1, Tabelas DEF Init, TypeOK
<1>4. Lidos /\ Gravados /\ Trancas /\ Desconhecidas
  BY <1>1, <1>2 DEF Lidos, Gravados, Trancas, Desconhecidas, Aberta
<1>5. Emissao
  BY DEF Init, Emissao
<1> QED BY <1>3, <1>4, <1>5 DEF IInv

\* No step breaks the invariant.
LEMMA NextIndutivo == IInv /\ [Next]_vars => IInv'
<1> SUFFICES ASSUME IInv, [Next]_vars PROVE IInv'
  OBVIOUS
<1>1. CASE UNCHANGED vars
  BY <1>1 DEF vars, mundo, IInv, TypeOK, Lidos, Gravados, Emissao, Trancas, Desconhecidas, Aberta
<1>2. ASSUME NEW r \in Requisicao, Comeca(r) PROVE IInv'
  <2>1. CASE LerUma(r) \/ LerVarias(r) \/ LerRestore(r) \/ LerHardRemove(r) \/ LerPendentes(r)
    BY <2>1, ComecaLendo
  <2>2. CASE MarcarTodas(r)
    BY <2>2, MarcarTodasMantem
  <2>3. CASE InserirNovoMorador(r)
    BY <2>3, InsercoesMantem
  <2> QED BY <1>2, <2>1, <2>2, <2>3 DEF Comeca
<1>3. ASSUME NEW r \in Requisicao, Prossegue(r) PROVE IInv'
  <2>1. CASE GravarLeitura(r) \/ GravarRemocao(r) \/ GravarRestauro(r) \/ GravarApagamento(r)
    BY <2>1, ProssegueGravando
  <2>2. CASE InserirLembretes(r)
    BY <2>2, InsercoesMantem
  <2>3. CASE Confirmar(r)
    BY <2>3, ConfirmarMantem
  <2>4. CASE Recusar(r) \/ Abortar(r)
    <3>1. AoEncerrar(r, "desfeita") /\ UNCHANGED notificacoes
      BY <2>4 DEF Recusar, Abortar, AoEncerrar, Aberta
    <3> QED BY <3>1, DesfazerMantem
  <2>5. CASE EnviarPush(r)
    BY <2>5, EnviarMantem
  <2> QED BY <1>3, <2>1, <2>2, <2>3, <2>4, <2>5 DEF Prossegue
<1>4. ASSUME NEW e \in Encomenda, Movimentar(e) \/ ApagarEncomenda(e) PROVE IInv'
  BY <1>4, MovimentarMantem, ApagarMantem
<1>5. CASE Ocioso
  BY <1>1, <1>5 DEF Ocioso
<1> QED BY <1>1, <1>2, <1>3, <1>4, <1>5 DEF Next

\* IInv is inductive: at every moment, whatever handlers, reminders and deletions of
\* parcels overlap, what was read about an owner still holds, and what was written is
\* the committed row with the columns of the operation replaced.
THEOREM Indutivo == Spec => []IInv
BY InitIndutivo, NextIndutivo, PTL DEF Spec

\* Every variable holds a value of its kind.
THEOREM Tipos == Spec => []TypeOK
<1>1. IInv => TypeOK
  BY DEF IInv
<1> QED BY <1>1, Indutivo, PTL

\* Only its own commit confirms a request.
LEMMA SoConfirmarConfirma ==
    ASSUME IInv, [Next]_vars, NEW r \in Requisicao, fase[r] = "gravada", fase'[r] = "confirmada"
    PROVE  Confirmar(r)
<1>f. fase \in [Requisicao -> {"nova", "lida", "gravada", "confirmada", "desfeita"}]
  BY DEF IInv, TypeOK
<1>1. CASE UNCHANGED vars
  BY <1>1 DEF vars
<1>2. ASSUME NEW s \in Requisicao, Comeca(s) PROVE FALSE
  <2>1. fase[s] = "nova" /\ \E x \in {"lida", "gravada"} : fase' = [fase EXCEPT ![s] = x]
    BY <1>2 DEF Comeca, LerUma, LerVarias, LerRestore, LerHardRemove, LerPendentes, Ler, Abrir,
                MarcarTodas, InserirNovoMorador
  <2> QED BY <1>f, <2>1
<1>3. ASSUME NEW s \in Requisicao, Prossegue(s) PROVE Confirmar(r)
  <2>1. CASE Confirmar(s)
    <3>1. fase' = [fase EXCEPT ![s] = "confirmada"]
      BY <2>1 DEF Confirmar, Encerrar
    <3>2. s = r
      BY <1>f, <3>1
    <3> QED BY <2>1, <3>2
  <2>2. CASE ~Confirmar(s)
    <3>1. fase' = fase \/ \E x \in {"gravada", "desfeita"} : fase' = [fase EXCEPT ![s] = x]
      BY <1>3, <2>2 DEF Prossegue, GravarLeitura, GravarRemocao, GravarRestauro, GravarApagamento,
                Gravar, InserirLembretes, Recusar, Abortar, Encerrar, EnviarPush
    <3> QED BY <1>f, <3>1
  <2> QED BY <2>1, <2>2
<1>4. ASSUME NEW e \in Encomenda, Movimentar(e) \/ ApagarEncomenda(e) PROVE FALSE
  BY <1>4 DEF Movimentar, ApagarEncomenda
<1>5. CASE Ocioso
  BY <1>1, <1>5 DEF Ocioso
<1> QED BY <1>1, <1>2, <1>3, <1>4, <1>5 DEF Next

\* The table after the commit of r, notice by notice, is what r did to it.
LEMMA ConfirmarTabela ==
    ASSUME IInv, NEW r \in Requisicao, Confirmar(r), NEW n \in Notificacao
    PROVE  /\ pedido[r] \in Pedido
           /\ Segura(r, n) /\ notificacoes[n] # Nulo =>
                 /\ pedido[r].op \in Alteracao /\ n \in pedido[r].alvos
                 /\ notificacoes[n] \in Linha
                 /\ notificacoes'[n] = Efeito(pedido[r].op, notificacoes[n])
                 /\ Direito(pedido[r], notificacoes[n])
           /\ ~Segura(r, n) => notificacoes'[n] = notificacoes[n]
           /\ n \in pedido[r].alvos /\ notificacoes'[n] # Nulo => Segura(r, n) /\ notificacoes[n] # Nulo
<1>1. Gravado(pedido[r], imagem[r], notificacoes) /\ Lido(pedido[r], emitidas, notificacoes)
  BY DEF Confirmar, IInv, Gravados, Lidos, Aberta
<1>2. notificacoes'[n] = IF Segura(r, n) THEN imagem[r][n] ELSE notificacoes[n]
  BY DEF Confirmar
<1>3. pedido[r].op \in Alteracao \/ pedido[r].op \in Insercao
  BY <1>1 DEF Lido, Pedido, Operacao, Alteracao, Leitura, Insercao
<1>4. Segura(r, n) /\ notificacoes[n] # Nulo =>
          /\ pedido[r].op \in Alteracao /\ n \in pedido[r].alvos
          /\ notificacoes[n] \in Linha
          /\ imagem[r][n] = Efeito(pedido[r].op, notificacoes[n])
  BY <1>1, <1>3 DEF Gravado, Segura
<1>5. n \in pedido[r].alvos => pedido[r].op \in Alteracao
  BY <1>1, <1>3 DEF Lido
<1>6. n \in pedido[r].alvos /\ ~Segura(r, n) => notificacoes[n] = Nulo
  BY <1>1, <1>5 DEF Gravado, Segura
<1>7. n \in pedido[r].alvos /\ Segura(r, n) => notificacoes[n] # Nulo
  BY <1>1, <1>5, Tabelas DEF Gravado, Segura
<1> QED BY <1>1, <1>2, <1>4, <1>6, <1>7 DEF Lido

\* An answer is true when it is given: the notices a handler was asked for are, after
\* its commit, as it says, although it checked them on a snapshot.
THEOREM RespostasVerdadeiras == Spec => RespostaVerdadeira
<1>1. ASSUME IInv, [Next]_vars, NEW r \in Requisicao, fase[r] = "gravada", fase'[r] = "confirmada"
      PROVE  Cumpre(r)
  <2>1. Confirmar(r)
    BY <1>1, SoConfirmarConfirma
  <2>2. pedido[r] \in Pedido /\ pedido[r].alvos \subseteq Notificacao
    BY <1>1, <2>1 DEF IInv, Lidos, Lido, Pedido, Aberta, Confirmar
  <2> SUFFICES ASSUME NEW n \in pedido[r].alvos, notificacoes'[n] # Nulo
               PROVE  CASE pedido[r].op = "marcar" -> notificacoes'[n].lida /\ ~notificacoes'[n].removida
                        [] pedido[r].op \in {"marcarVarias", "marcarTodas"} -> notificacoes'[n].lida
                        [] pedido[r].op = "restaurar" -> ~notificacoes'[n].removida
                        [] pedido[r].op = "remover" -> notificacoes'[n].removida
                        [] pedido[r].op = "apagar" -> FALSE
    BY DEF Cumpre
  <2> DEFINE op == pedido[r].op
             l == notificacoes[n]
             m == notificacoes'[n]
  <2>3. /\ n \in Notificacao /\ Segura(r, n)
        /\ op \in Alteracao /\ l \in Linha /\ m = Efeito(op, l)
    BY <1>1, <2>1, <2>2, ConfirmarTabela
  <2>4. op = "marcar" => ~m.removida
    BY <2>1, <2>3 DEF Confirmar, Releitura, Segura
  <2> HIDE DEF op, l, m
  <2>5. op # "apagar"
    BY <2>3, EfeitoTipo DEF m
  <2>6. /\ op \in Leitura => m.lida
        /\ op = "restaurar" => ~m.removida
        /\ op = "remover" => m.removida
    BY <2>3, <2>5, EfeitoTipo
  <2> QED BY <2>3, <2>4, <2>5, <2>6 DEF Alteracao, Leitura, op, m
<1>2. IInv /\ [Next]_vars =>
        [\A r \in Requisicao : fase[r] = "gravada" /\ fase'[r] = "confirmada" => Cumpre(r)]_vars
  BY <1>1
<1> QED BY <1>2, Indutivo, PTL DEF Spec, RespostaVerdadeira

\* A change of a notice that exists, as SoQuemPode allows it.
Permitida(n) ==
    LET l == notificacoes[n]  m == notificacoes'[n]
    IN  \/ m = Nulo /\ existentes' # existentes
        \/ \E r \in Requisicao :
              /\ fase[r] = "gravada" /\ fase'[r] = "confirmada" /\ n \in pedido[r].alvos
              /\ m # Nulo =>
                    /\ m.dono = l.dono /\ m.encomenda = l.encomenda
                    /\ l.lida => m.lida
              /\ PerfilDe[pedido[r].ator] # "super" =>
                    /\ m # Nulo
                    /\ (m.lida # l.lida \/ (m.removida /\ ~l.removida)) => l.dono = pedido[r].ator
                    /\ (l.removida /\ ~m.removida) => PerfilDe[pedido[r].ator] = "admin"

\* What the commit of r does to a notice it is allowed to.
LEMMA ConfirmarPermitida ==
    ASSUME IInv, NEW r \in Requisicao, Confirmar(r), NEW n \in Notificacao,
           notificacoes[n] # Nulo, notificacoes'[n] # notificacoes[n]
    PROVE  Permitida(n)
<1> DEFINE p == pedido[r]
           l == notificacoes[n]
           m == notificacoes'[n]
<1>1. /\ p.op \in Alteracao /\ n \in p.alvos /\ l \in Linha
      /\ m = Efeito(p.op, l) /\ Direito(p, l)
  BY ConfirmarTabela
<1>2. fase[r] = "gravada" /\ fase'[r] = "confirmada"
  BY DEF Confirmar, Encerrar, IInv, TypeOK
<1> HIDE DEF p, l, m
<1>3. m # Nulo => p.op # "apagar"
  BY <1>1, EfeitoTipo
<1>4. p.op # "apagar" =>
          /\ m \in Linha /\ m.dono = l.dono /\ m.encomenda = l.encomenda
          /\ p.op \in Leitura => m.lida /\ m.removida = l.removida
          /\ p.op \notin Leitura => m.lida = l.lida
          /\ p.op = "remover" => m.removida
          /\ p.op = "restaurar" => ~m.removida
  BY <1>1, EfeitoTipo
<1>5. l.lida \in BOOLEAN /\ l.removida \in BOOLEAN
  BY <1>1 DEF Linha
<1>6. m # Nulo => m.dono = l.dono /\ m.encomenda = l.encomenda /\ (l.lida => m.lida)
  BY <1>3, <1>4, <1>5
<1>7. ASSUME PerfilDe[p.ator] # "super"
      PROVE  /\ m # Nulo
             /\ (m.lida # l.lida \/ (m.removida /\ ~l.removida)) => l.dono = p.ator
             /\ (l.removida /\ ~m.removida) => PerfilDe[p.ator] = "admin"
  <2>1. p.op # "apagar"
    BY <1>1, <1>7 DEF Direito
  <2>2. m # Nulo
    BY <1>4, <2>1, Tabelas
  <2>3. CASE p.op \in Leitura
    BY <1>1, <1>4, <1>7, <2>1, <2>2, <2>3 DEF Direito
  <2>4. CASE p.op = "remover"
    <3>1. p.op \notin Leitura
      BY <2>4 DEF Leitura
    <3> QED BY <1>1, <1>4, <1>7, <2>1, <2>2, <2>4, <3>1 DEF Direito
  <2>5. CASE p.op = "restaurar"
    <3>1. p.op \notin Leitura
      BY <2>5 DEF Leitura
    <3> QED BY <1>1, <1>4, <1>7, <2>1, <2>2, <2>5, <3>1 DEF Direito
  <2> QED BY <1>1, <2>1, <2>3, <2>4, <2>5 DEF Alteracao
<1> QED BY <1>1, <1>2, <1>6, <1>7 DEF Permitida, p, l, m

\* Whatever overlaps, a notice stays the same person's about the same parcel and is
\* never unread again, and only who may marks, removes, restores or deletes it.
THEOREM SoQuemPodeMuda == Spec => SoQuemPode
<1>1. ASSUME IInv, [Next]_vars, NEW n \in Notificacao,
             notificacoes[n] # Nulo, notificacoes'[n] # notificacoes[n]
      PROVE  Permitida(n)
  <2>1. CASE UNCHANGED vars
    BY <1>1, <2>1 DEF vars
  <2>2. ASSUME NEW r \in Requisicao, Comeca(r) PROVE FALSE
    BY <1>1, <2>2 DEF Comeca, LerUma, LerVarias, LerRestore, LerHardRemove, LerPendentes, Ler, Abrir,
                MarcarTodas, InserirNovoMorador
  <2>3. ASSUME NEW r \in Requisicao, Prossegue(r) PROVE Permitida(n)
    <3>1. CASE Confirmar(r)
      BY <1>1, <3>1, ConfirmarPermitida
    <3>2. CASE ~Confirmar(r)
      BY <1>1, <2>3, <3>2 DEF Prossegue, GravarLeitura, GravarRemocao, GravarRestauro,
            GravarApagamento, Gravar, InserirLembretes, Recusar, Abortar, EnviarPush
    <3> QED BY <3>1, <3>2
  <2>4. ASSUME NEW e \in Encomenda, Movimentar(e) PROVE FALSE
    BY <1>1, <2>4 DEF Movimentar
  <2>5. ASSUME NEW e \in Encomenda, ApagarEncomenda(e) PROVE Permitida(n)
    <3>1. notificacoes'[n] = Nulo
      BY <1>1, <2>5 DEF ApagarEncomenda
    <3>2. existentes' # existentes
      BY <2>5 DEF ApagarEncomenda
    <3> QED BY <3>1, <3>2 DEF Permitida
  <2>6. CASE Ocioso
    BY <2>1, <2>6 DEF Ocioso
  <2> QED BY <1>1, <2>1, <2>2, <2>3, <2>4, <2>5, <2>6 DEF Next
<1>2. IInv /\ [Next]_vars =>
        [\A n \in Notificacao : notificacoes[n] # Nulo /\ notificacoes'[n] # notificacoes[n] =>
            LET l == notificacoes[n]  m == notificacoes'[n]
            IN  \/ m = Nulo /\ existentes' # existentes
                \/ \E r \in Requisicao :
                      /\ fase[r] = "gravada" /\ fase'[r] = "confirmada" /\ n \in pedido[r].alvos
                      /\ m # Nulo =>
                            /\ m.dono = l.dono /\ m.encomenda = l.encomenda
                            /\ l.lida => m.lida
                      /\ PerfilDe[pedido[r].ator] # "super" =>
                            /\ m # Nulo
                            /\ (m.lida # l.lida \/ (m.removida /\ ~l.removida)) => l.dono = pedido[r].ator
                            /\ (l.removida /\ ~m.removida) => PerfilDe[pedido[r].ator] = "admin"]_vars
  BY <1>1 DEF Permitida
<1> QED BY <1>2, Indutivo, PTL DEF Spec, SoQuemPode

-----------------------------------------------------------------------------
(* What is left of a reminder.                                             *)

\* A row that is about no parcel but one that exists.
Sobre(l) == l # Nulo => l.encomenda \in existentes \cup {Nulo}

Lembrado(e) == Apagou \/ \E n \in Notificacao : Lembra(notificacoes[n], e)

\* A request that has read parcels is a reminder; when it has written, there is a row for
\* each of them, and when it has committed the table keeps it.
LInv ==
    /\ \A n \in Notificacao : Sobre(notificacoes[n])
    /\ \A r \in Requisicao :
          /\ \A n \in DOMAIN imagem[r] : Sobre(imagem[r][n])
          /\ fase[r] = "nova" => pendentes[r] = {}
          /\ pendentes[r] # {} => pedido[r].op = "lembrete"
          /\ fase[r] = "gravada" =>
                \A e \in pendentes[r] : \E n \in DOMAIN imagem[r] : Lembra(imagem[r][n], e)
          /\ fase[r] = "confirmada" => \A e \in pendentes[r] \cap existentes : Lembrado(e)
          /\ avisados[r] # {} =>
                fase[r] = "confirmada" /\ avisados[r] \subseteq {TitularDe[e] : e \in pendentes[r]}

\* A step of r, not a commit, that leaves the table and the other requests alone.
LEMMA LembretePasso ==
    ASSUME IInv, LInv, NEW r \in Requisicao,
           UNCHANGED <<notificacoes, existentes, avisados>>,
           \A s \in Requisicao \ {r} : /\ fase'[s] = fase[s] /\ pedido'[s] = pedido[s]
                                       /\ imagem'[s] = imagem[s] /\ pendentes'[s] = pendentes[s],
           fase[r] # "confirmada", fase'[r] \in {"lida", "gravada", "desfeita"},
           \A n \in DOMAIN imagem'[r] : Sobre(imagem'[r][n]),
           pendentes'[r] # {} => pedido'[r].op = "lembrete",
           fase'[r] = "gravada" =>
               \A e \in pendentes'[r] : \E n \in DOMAIN imagem'[r] : Lembra(imagem'[r][n], e)
    PROVE  LInv'
<1>1. avisados[r] = {}
  BY DEF LInv
<1>2. Apagou => Apagou'
  BY DEF Apagou
<1>3. \A e : Lembrado(e) => Lembrado(e)'
  BY <1>2 DEF Lembrado, Lembra
<1>4. \A n \in Notificacao : Sobre(notificacoes[n])'
  BY DEF LInv, Sobre
<1>5. ASSUME NEW s \in Requisicao
      PROVE  /\ \A n \in DOMAIN imagem'[s] : Sobre(imagem[s][n])'
             /\ fase'[s] = "nova" => pendentes'[s] = {}
             /\ pendentes'[s] # {} => pedido'[s].op = "lembrete"
             /\ fase'[s] = "gravada" =>
                   \A e \in pendentes'[s] : \E n \in DOMAIN imagem'[s] : Lembra(imagem'[s][n], e)
             /\ fase'[s] = "confirmada" => \A e \in pendentes'[s] \cap existentes : Lembrado(e)'
             /\ avisados[s] # {} =>
                   fase'[s] = "confirmada" /\ avisados[s] \subseteq {TitularDe[e] : e \in pendentes'[s]}
  <2>1. CASE s = r
    BY <1>1, <2>1 DEF Sobre
  <2>2. CASE s # r
    <3>1. /\ fase'[s] = fase[s] /\ pedido'[s] = pedido[s]
          /\ imagem'[s] = imagem[s] /\ pendentes'[s] = pendentes[s]
      BY <2>2
    <3> QED BY <1>3, <3>1 DEF LInv, Sobre
  <2> QED BY <2>1, <2>2
<1> QED BY <1>4, <1>5 DEF LInv, Lembra

\* Requests begin: nobody has reminded anybody yet.
LEMMA LembreteComeca ==
    ASSUME IInv, LInv, NEW r \in Requisicao, Comeca(r)
    PROVE  LInv'
<1>t. /\ fase \in [Requisicao -> {"nova", "lida", "gravada", "confirmada", "desfeita"}]
      /\ pedido \in [Requisicao -> Pedido \cup {Nulo}]
      /\ pendentes \in [Requisicao -> SUBSET Encomenda]
      /\ DOMAIN imagem = Requisicao
  BY DEF IInv, TypeOK
<1>1. CASE LerUma(r) \/ LerVarias(r) \/ LerRestore(r) \/ LerHardRemove(r)
  <2>1. /\ fase[r] = "nova" /\ fase' = [fase EXCEPT ![r] = "lida"]
        /\ \E p : pedido' = [pedido EXCEPT ![r] = p]
        /\ UNCHANGED <<notificacoes, existentes, avisados, imagem, pendentes>>
    BY <1>1 DEF LerUma, LerVarias, LerRestore, LerHardRemove, Ler, Abrir, mundo
  <2>2. pendentes'[r] = {} /\ \A n \in DOMAIN imagem'[r] : Sobre(imagem'[r][n])
    BY <2>1 DEF LInv
  <2>3. fase'[r] = "lida" /\ \A s \in Requisicao \ {r} : fase'[s] = fase[s] /\ pedido'[s] = pedido[s]
    BY <1>t, <2>1
  <2> QED BY <2>1, <2>2, <2>3, LembretePasso
<1>2. CASE LerPendentes(r)
  <2>1. /\ fase[r] = "nova" /\ fase' = [fase EXCEPT ![r] = "lida"]
        /\ pedido' = [pedido EXCEPT ![r] = [op |-> "lembrete", ator |-> Nulo, alvos |-> {}]]
        /\ pendentes' = [pendentes EXCEPT ![r] = aguardando]
        /\ UNCHANGED <<notificacoes, existentes, avisados, imagem>>
    BY <1>2 DEF LerPendentes, Abrir, mundo
  <2>2. pedido'[r].op = "lembrete" /\ \A n \in DOMAIN imagem'[r] : Sobre(imagem'[r][n])
    BY <1>t, <2>1 DEF LInv
  <2>3. fase'[r] = "lida" /\ \A s \in Requisicao \ {r} :
            fase'[s] = fase[s] /\ pedido'[s] = pedido[s] /\ pendentes'[s] = pendentes[s]
    BY <1>t, <2>1
  <2> QED BY <2>1, <2>2, <2>3, LembretePasso
<1>3. CASE MarcarTodas(r)
  <2>0. PICK u \in Usuario :
            LET ns == {n \in Notificacao : Ativa(n) /\ notificacoes[n].dono = u
                                          /\ ~notificacoes[n].lida}
            IN  /\ Abrir(r, [op |-> "marcarTodas", ator |-> u, alvos |-> ns], "gravada")
                /\ imagem' = [imagem EXCEPT ![r] =
                                [n \in ns |-> [notificacoes[n] EXCEPT !.lida = TRUE]]]
                /\ UNCHANGED <<emitidas, pendentes>>
    BY <1>3, Zenon DEF MarcarTodas
  <2> DEFINE ns == {n \in Notificacao : Ativa(n) /\ notificacoes[n].dono = u
                                        /\ ~notificacoes[n].lida}
  <2>1. /\ ns \subseteq {n \in Notificacao : Existe(n)}
        /\ fase[r] = "nova" /\ fase' = [fase EXCEPT ![r] = "gravada"]
        /\ pedido' = [pedido EXCEPT ![r] = [op |-> "marcarTodas", ator |-> u, alvos |-> ns]]
        /\ imagem' = [imagem EXCEPT ![r] = [n \in ns |-> [notificacoes[n] EXCEPT !.lida = TRUE]]]
        /\ UNCHANGED <<notificacoes, existentes, avisados, pendentes>>
    BY <2>0 DEF Abrir, mundo, Ativa
  <2> HIDE DEF ns
  <2>2. /\ fase'[r] = "gravada"
        /\ imagem'[r] = [n \in ns |-> [notificacoes[n] EXCEPT !.lida = TRUE]]
        /\ \A s \in Requisicao \ {r} : /\ fase'[s] = fase[s] /\ pedido'[s] = pedido[s]
                                       /\ imagem'[s] = imagem[s]
    BY <1>t, <2>1
  <2>3. \A n \in ns : notificacoes[n] \in Linha /\ Sobre(notificacoes[n])
    BY <2>1 DEF LInv, Existe, IInv, TypeOK
  <2>4. \A n \in DOMAIN imagem'[r] : Sobre(imagem'[r][n])
    <3> TAKE n \in DOMAIN imagem'[r]
    <3>1. n \in ns /\ imagem'[r][n] = [notificacoes[n] EXCEPT !.lida = TRUE]
      BY <2>2
    <3> QED BY <2>3, <3>1, Tabelas DEF Sobre, Linha
  <2>5. pendentes'[r] = {}
    BY <2>1 DEF LInv
  <2> QED BY <2>1, <2>2, <2>4, <2>5, LembretePasso
<1>4. CASE InserirNovoMorador(r)
  <2>1. PICK ns \in SUBSET Notificacao :
            /\ fase[r] = "nova" /\ fase' = [fase EXCEPT ![r] = "gravada"]
            /\ \E p : pedido' = [pedido EXCEPT ![r] = p]
            /\ \E aviso \in Bijection(ns, {[dono |-> a, encomenda |-> Nulo] : a \in Com({"admin"})}) :
                  imagem' = [imagem EXCEPT ![r] = [n \in ns |->
                      [dono |-> aviso[n].dono, encomenda |-> aviso[n].encomenda,
                       lida |-> FALSE, removida |-> FALSE]]]
            /\ UNCHANGED <<notificacoes, existentes, avisados, pendentes>>
    BY <1>4 DEF InserirNovoMorador, Abrir, Novas, mundo
  <2>2. PICK aviso \in Bijection(ns, {[dono |-> a, encomenda |-> Nulo] : a \in Com({"admin"})}) :
            imagem' = [imagem EXCEPT ![r] = [n \in ns |->
                [dono |-> aviso[n].dono, encomenda |-> aviso[n].encomenda,
                 lida |-> FALSE, removida |-> FALSE]]]
    BY <2>1
  <2>3. \A n \in ns : aviso[n].encomenda = Nulo
    BY DEF Bijection, Injection
  <2>4. /\ fase'[r] = "gravada" /\ DOMAIN imagem'[r] = ns
        /\ \A n \in ns : imagem'[r][n].encomenda = Nulo
        /\ \A s \in Requisicao \ {r} : /\ fase'[s] = fase[s] /\ pedido'[s] = pedido[s]
                                       /\ imagem'[s] = imagem[s]
    BY <1>t, <2>1, <2>2, <2>3
  <2>5. pendentes'[r] = {} /\ \A n \in DOMAIN imagem'[r] : Sobre(imagem'[r][n])
    BY <2>1, <2>4 DEF LInv, Sobre
  <2> QED BY <2>1, <2>4, <2>5, LembretePasso
<1> QED BY <1>1, <1>2, <1>3, <1>4 DEF Comeca

\* A row that changes stays about its parcel; the request that changes it reminds nobody.
LEMMA LembreteGrava ==
    ASSUME IInv, LInv, NEW r \in Requisicao,
           GravarLeitura(r) \/ GravarRemocao(r) \/ GravarRestauro(r) \/ GravarApagamento(r)
    PROVE  LInv'
<1>t. /\ fase \in [Requisicao -> {"nova", "lida", "gravada", "confirmada", "desfeita"}]
      /\ DOMAIN imagem = Requisicao
  BY DEF IInv, TypeOK
<1>1. PICK novas :
          /\ fase[r] = "lida" /\ pedido[r].op # "lembrete"
          /\ DOMAIN novas = Achadas(r)
          /\ \A n \in Achadas(r) : \/ novas[n] = Nulo
                                   \/ \E b \in BOOLEAN : novas[n] = [notificacoes[n] EXCEPT !.lida = b]
                                   \/ \E b \in BOOLEAN : novas[n] = [notificacoes[n] EXCEPT !.removida = b]
          /\ imagem' = [imagem EXCEPT ![r] = novas] /\ fase' = [fase EXCEPT ![r] = "gravada"]
          /\ UNCHANGED <<notificacoes, existentes, avisados, pedido, pendentes>>
  <2>1. CASE GravarLeitura(r)
    <3> DEFINE novas == [n \in Achadas(r) |-> [notificacoes[n] EXCEPT !.lida = TRUE]]
    <3>1. Gravar(r, {"marcar", "marcarVarias"}, novas)
      BY <2>1 DEF GravarLeitura
    <3>2. WITNESS novas
    <3> QED BY <3>1 DEF Gravar, mundo
  <2>2. CASE GravarRemocao(r)
    <3> DEFINE novas == [n \in Achadas(r) |-> [notificacoes[n] EXCEPT !.removida = TRUE]]
    <3>1. Gravar(r, {"remover"}, novas)
      BY <2>2 DEF GravarRemocao
    <3>2. WITNESS novas
    <3> QED BY <3>1 DEF Gravar, mundo
  <2>3. CASE GravarRestauro(r)
    <3> DEFINE novas == [n \in Achadas(r) |-> [notificacoes[n] EXCEPT !.removida = FALSE]]
    <3>1. Gravar(r, {"restaurar"}, novas)
      BY <2>3 DEF GravarRestauro
    <3>2. WITNESS novas
    <3> QED BY <3>1 DEF Gravar, mundo
  <2>4. CASE GravarApagamento(r)
    <3> DEFINE novas == [n \in Achadas(r) |-> Nulo]
    <3>1. Gravar(r, {"apagar"}, novas)
      BY <2>4 DEF GravarApagamento
    <3>2. WITNESS novas
    <3> QED BY <3>1 DEF Gravar, mundo
  <2> QED BY <2>1, <2>2, <2>3, <2>4
<1>2. \A n \in Achadas(r) : notificacoes[n] \in Linha /\ Sobre(notificacoes[n])
  BY <1>1 DEF LInv, Achadas, Existe, IInv, TypeOK, Lidos, Lido, Pedido, Aberta
<1>3. \A n \in Achadas(r) : Sobre(novas[n])
  BY <1>1, <1>2, Tabelas DEF Sobre, Linha
<1>4. /\ fase'[r] = "gravada" /\ imagem'[r] = novas
      /\ \A s \in Requisicao \ {r} : fase'[s] = fase[s] /\ imagem'[s] = imagem[s]
  BY <1>t, <1>1
<1>5. pendentes'[r] = {}
  BY <1>1 DEF LInv
<1> QED BY <1>1, <1>3, <1>4, <1>5, LembretePasso

\* The batch of a reminder has a row for each parcel that was read.
LEMMA LembreteInsere ==
    ASSUME IInv, LInv, NEW r \in Requisicao, InserirLembretes(r)
    PROVE  LInv'
<1>t. /\ fase \in [Requisicao -> {"nova", "lida", "gravada", "confirmada", "desfeita"}]
      /\ DOMAIN imagem = Requisicao
  BY DEF IInv, TypeOK
<1>1. /\ fase[r] = "lida" /\ pedido[r].op = "lembrete" /\ pendentes[r] \subseteq existentes
      /\ Novas(r, Lembretes(r)) /\ fase' = [fase EXCEPT ![r] = "gravada"]
      /\ UNCHANGED <<notificacoes, existentes, avisados, pedido, pendentes>>
  BY DEF InserirLembretes, mundo
<1>n. PICK ns \in SUBSET Notificacao :
          \E aviso \in Bijection(ns, Lembretes(r)) :
              imagem' = [imagem EXCEPT ![r] = [n \in ns |->
                  [dono |-> aviso[n].dono, encomenda |-> aviso[n].encomenda,
                   lida |-> FALSE, removida |-> FALSE]]]
  BY <1>1 DEF Novas
<1>2. PICK aviso \in Bijection(ns, Lembretes(r)) :
          imagem' = [imagem EXCEPT ![r] = [n \in ns |->
              [dono |-> aviso[n].dono, encomenda |-> aviso[n].encomenda,
               lida |-> FALSE, removida |-> FALSE]]]
  BY <1>n
<1>3. /\ \A n \in ns : aviso[n] \in Lembretes(r)
      /\ \A l \in Lembretes(r) : \E n \in ns : aviso[n] = l
  BY DEF Bijection, Injection, Surjection
<1>4. /\ fase'[r] = "gravada"
      /\ imagem'[r] = [n \in ns |-> [dono |-> aviso[n].dono, encomenda |-> aviso[n].encomenda,
                                     lida |-> FALSE, removida |-> FALSE]]
      /\ \A s \in Requisicao \ {r} : fase'[s] = fase[s] /\ imagem'[s] = imagem[s]
  BY <1>t, <1>1, <1>2
<1>5. \A n \in DOMAIN imagem'[r] : Sobre(imagem'[r][n])
  <2> TAKE n \in DOMAIN imagem'[r]
  <2>1. n \in ns /\ imagem'[r][n].encomenda = aviso[n].encomenda
    BY <1>4
  <2>2. PICK e \in pendentes[r] : aviso[n] = [dono |-> TitularDe[e], encomenda |-> e]
    BY <1>3, <2>1 DEF Lembretes
  <2> QED BY <1>1, <2>1, <2>2 DEF Sobre
<1>6. ASSUME NEW e \in pendentes[r]
      PROVE  \E n \in DOMAIN imagem'[r] : Lembra(imagem'[r][n], e)
  <2>1. PICK n \in ns : aviso[n] = [dono |-> TitularDe[e], encomenda |-> e]
    BY <1>3 DEF Lembretes
  <2>2. /\ n \in DOMAIN imagem'[r]
        /\ imagem'[r][n] = [dono |-> TitularDe[e], encomenda |-> e, lida |-> FALSE, removida |-> FALSE]
    <3>1. aviso[n].dono = TitularDe[e] /\ aviso[n].encomenda = e
      BY <2>1
    <3>2. imagem'[r] = [m \in ns |-> [dono |-> aviso[m].dono, encomenda |-> aviso[m].encomenda,
                                     lida |-> FALSE, removida |-> FALSE]]
      BY <1>4
    <3>3. n \in DOMAIN imagem'[r] /\ imagem'[r][n] = [dono |-> aviso[n].dono,
              encomenda |-> aviso[n].encomenda, lida |-> FALSE, removida |-> FALSE]
      BY <3>2, Zenon
    <3> QED BY <3>1, <3>3, Zenon
  <2>3. e \in Encomenda
    BY DEF IInv, TypeOK
  <2>4. imagem'[r][n] \in Linha
    BY <2>2, <2>3, Tabelas DEF Linha
  <2> QED BY <2>2, <2>4, Tabelas DEF Lembra
<1> QED BY <1>1, <1>4, <1>5, <1>6, LembretePasso

\* A commit brings its rows; what it changes of others' it leaves about the same parcel.
LEMMA LembreteConfirma ==
    ASSUME IInv, LInv, NEW r \in Requisicao, Confirmar(r)
    PROVE  LInv'
<1>1. /\ fase[r] = "gravada" /\ AoEncerrar(r, "confirmada")
      /\ UNCHANGED <<existentes, avisados, pedido, pendentes>>
      /\ \A n \in Notificacao :
            notificacoes'[n] = IF Segura(r, n) THEN imagem[r][n] ELSE notificacoes[n]
      /\ DOMAIN imagem[r] \subseteq Notificacao
  BY DEF Confirmar, Encerrar, AoEncerrar, Aberta, mundo, IInv, TypeOK
<1>2. /\ fase'[r] = "confirmada" /\ DOMAIN imagem'[r] = {}
      /\ \A s \in Requisicao : s # r => fase'[s] = fase[s] /\ imagem'[s] = imagem[s]
  BY <1>1, EncerrarPassos
<1>3. Apagou => Apagou'
  BY <1>1, <1>2 DEF Apagou
<1>4. ASSUME NEW e, NEW n \in Notificacao, Lembra(notificacoes[n], e)
      PROVE  Lembrado(e)'
  <2>1. CASE ~Segura(r, n)
    BY <1>1, <1>4, <2>1 DEF Lembrado, Lembra
  <2>2. CASE Segura(r, n)
    <3>1. /\ pedido[r].op \in Alteracao /\ notificacoes[n] \in Linha
          /\ notificacoes'[n] = Efeito(pedido[r].op, notificacoes[n])
      BY <1>4, <2>2, ConfirmarTabela DEF Lembra
    <3>2. CASE pedido[r].op = "apagar"
      BY <1>1, <1>2, <3>2 DEF Lembrado, Apagou
    <3>3. CASE pedido[r].op # "apagar"
      <4>1. /\ notificacoes'[n] \in Linha /\ notificacoes'[n].dono = notificacoes[n].dono
            /\ notificacoes'[n].encomenda = notificacoes[n].encomenda
        BY <3>1, <3>3, EfeitoTipo
      <4> QED BY <1>4, <4>1, Tabelas DEF Lembrado, Lembra
    <3> QED BY <3>2, <3>3
  <2> QED BY <2>1, <2>2
<1>5. \A e : Lembrado(e) => Lembrado(e)'
  BY <1>3, <1>4 DEF Lembrado
<1>6. \A n \in Notificacao : Sobre(notificacoes[n])'
  BY <1>1 DEF LInv, Sobre, Segura
<1>7. ASSUME NEW e \in pendentes[r] PROVE Lembrado(e)'
  <2>1. PICK n \in DOMAIN imagem[r] : Lembra(imagem[r][n], e)
    BY <1>1 DEF LInv
  <2>2. n \in Notificacao /\ notificacoes'[n] = imagem[r][n]
    BY <1>1 DEF Segura
  <2> QED BY <2>1, <2>2 DEF Lembrado, Lembra
<1>8. ASSUME NEW s \in Requisicao
      PROVE  /\ \A n \in DOMAIN imagem'[s] : Sobre(imagem[s][n])'
             /\ fase'[s] = "nova" => pendentes[s] = {}
             /\ pendentes[s] # {} => pedido[s].op = "lembrete"
             /\ fase'[s] = "gravada" =>
                   \A e \in pendentes[s] : \E n \in DOMAIN imagem'[s] : Lembra(imagem'[s][n], e)
             /\ fase'[s] = "confirmada" => \A e \in pendentes[s] \cap existentes : Lembrado(e)'
             /\ avisados[s] # {} =>
                   fase'[s] = "confirmada" /\ avisados[s] \subseteq {TitularDe[e] : e \in pendentes[s]}
  <2>1. CASE s = r
    BY <1>1, <1>2, <1>7, <2>1 DEF LInv
  <2>2. CASE s # r
    <3>1. fase'[s] = fase[s] /\ imagem'[s] = imagem[s]
      BY <1>2, <2>2
    <3> QED BY <1>1, <1>5, <3>1 DEF LInv, Sobre
  <2> QED BY <2>1, <2>2
<1> QED BY <1>1, <1>6, <1>8 DEF LInv, Lembra

\* A parcel that is deleted takes the notices about it, those of others stay.
LEMMA LembreteApaga ==
    ASSUME IInv, LInv, NEW e \in Encomenda, ApagarEncomenda(e)
    PROVE  LInv'
<1> DEFINE ns == {n \in Notificacao : Existe(n) /\ notificacoes[n].encomenda = e}
<1>1. /\ notificacoes' = [n \in Notificacao |-> IF n \in ns THEN Nulo ELSE notificacoes[n]]
      /\ existentes' = existentes \ {e}
      /\ UNCHANGED <<fase, pedido, imagem, pendentes, avisados>>
      /\ \A r \in Requisicao : \A n \in DOMAIN imagem[r] :
            imagem[r][n] # Nulo => imagem[r][n].encomenda # e
  BY DEF ApagarEncomenda
<1>2. Apagou => Apagou'
  BY <1>1 DEF Apagou
<1>3. \A d \in existentes' : Lembrado(d) => Lembrado(d)'
  BY <1>1, <1>2 DEF Lembrado, Lembra, Existe
<1>4. \A n \in Notificacao : Sobre(notificacoes[n])'
  BY <1>1 DEF LInv, Sobre, Existe
<1>5. \A r \in Requisicao : \A n \in DOMAIN imagem[r] : Sobre(imagem[r][n])'
  BY <1>1 DEF LInv, Sobre
<1> QED BY <1>1, <1>3, <1>4, <1>5 DEF LInv, Lembra

\* Every step keeps what is left of a reminder.
LEMMA LembreteStep ==
    ASSUME IInv, LInv, [Next]_vars
    PROVE  LInv'
<1>1. CASE UNCHANGED vars
  BY <1>1 DEF vars, mundo, LInv, Sobre, Lembrado, Lembra, Apagou
<1>2. ASSUME NEW r \in Requisicao, Prossegue(r) PROVE LInv'
  <2>1. CASE GravarLeitura(r) \/ GravarRemocao(r) \/ GravarRestauro(r) \/ GravarApagamento(r)
    BY <2>1, LembreteGrava
  <2>2. CASE InserirLembretes(r)
    BY <2>2, LembreteInsere
  <2>3. CASE Confirmar(r)
    BY <2>3, LembreteConfirma
  <2>4. CASE Recusar(r) \/ Abortar(r)
    <3>1. AoEncerrar(r, "desfeita") /\ UNCHANGED <<notificacoes, existentes, avisados, pedido, pendentes>>
      BY <2>4 DEF Recusar, Abortar, AoEncerrar, Aberta, Encerrar, mundo
    <3>2. /\ fase'[r] = "desfeita" /\ DOMAIN imagem'[r] = {} /\ fase[r] # "confirmada"
          /\ \A s \in Requisicao : s # r => fase'[s] = fase[s] /\ imagem'[s] = imagem[s]
      BY <3>1, EncerrarPassos DEF AoEncerrar, Aberta
    <3>3. pendentes[r] # {} => pedido[r].op = "lembrete"
      BY DEF LInv
    <3> QED BY <3>1, <3>2, <3>3, LembretePasso
  <2>5. CASE EnviarPush(r)
    <3>1. /\ fase[r] = "confirmada" /\ avisados'[r] = {TitularDe[e] : e \in pendentes[r]}
          /\ \A s \in Requisicao : s # r => avisados'[s] = avisados[s]
          /\ UNCHANGED <<notificacoes, existentes, fase, pedido, imagem, pendentes>>
      BY <2>5 DEF EnviarPush, mundo, IInv, TypeOK
    <3>2. \A s \in Requisicao : avisados'[s] # {} =>
              fase[s] = "confirmada" /\ avisados'[s] \subseteq {TitularDe[e] : e \in pendentes[s]}
      BY <3>1 DEF LInv
    <3>3. \A e : Lembrado(e)' = Lembrado(e)
      BY <3>1 DEF Lembrado, Lembra, Apagou
    <3> QED BY <3>1, <3>2, <3>3 DEF LInv, Sobre, Lembra
  <2> QED BY <1>2, <2>1, <2>2, <2>3, <2>4, <2>5 DEF Prossegue
<1>3. ASSUME NEW e \in Encomenda, Movimentar(e) PROVE LInv'
  BY <1>3 DEF Movimentar, LInv, Sobre, Lembrado, Lembra, Apagou
<1> QED BY <1>1, <1>2, <1>3, LembreteComeca, LembreteApaga DEF Next, Ocioso

\* Whoever is reminded finds it: no notice outlives its parcel, and a run of the reminder
\* that committed leaves each owner a notice of each parcel it had read, whatever is
\* marked, removed, restored or deleted beside it.
THEOREM LembretesEncontrados == Spec => []LembreteEncontrado
<1>1. Init => LInv
  <2> SUFFICES ASSUME Init PROVE LInv
    OBVIOUS
  <2>1. /\ notificacoes = Semente /\ existentes = Encomenda
        /\ \A r \in Requisicao : /\ fase[r] = "nova" /\ imagem[r] = Nenhuma
                                 /\ pendentes[r] = {} /\ avisados[r] = {}
    BY DEF Init
  <2>2. \A n \in Notificacao : Sobre(notificacoes[n])
    BY <2>1, Tabelas DEF Sobre, Linha
  <2> QED BY <2>1, <2>2 DEF LInv, Nenhuma
<1>2. IInv /\ LInv /\ [Next]_vars => LInv'
  BY LembreteStep
<1>3. IInv /\ LInv => LembreteEncontrado
  <2> SUFFICES ASSUME LInv PROVE LembreteEncontrado
    OBVIOUS
  <2>1. \A n \in Notificacao : Existe(n) => notificacoes[n].encomenda \in existentes \cup {Nulo}
    BY DEF LInv, Sobre, Existe
  <2> QED BY <2>1 DEF LInv, Lembrado, LembreteEncontrado
<1> QED BY <1>1, <1>2, <1>3, Indutivo, PTL DEF Spec

=============================================================================
