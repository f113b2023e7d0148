---------------------------- MODULE Imagens_proofs ----------------------------
(***************************************************************************)
(* Proofs about Imagens, for any requests, limits and bounds.              *)
(*                                                                         *)
(* The three invariants compare two stores that no transaction joins, the  *)
(* disk and the table. They follow from one that says, for each request    *)
(* and each of its phases, what there is of its images on the disk, in the *)
(* table and in the transaction that is still open: Situacao. A request    *)
(* touches its own images only, but for the mark of removal, which none of *)
(* this depends on.                                                        *)
(***************************************************************************)
EXTENDS Imagens, TLAPS

-----------------------------------------------------------------------------
(* The inductive invariant.                                                *)

\* A row that tells the truth of the file arq, of the image o[t].
Conta(linha, arq, o, t) == linha \in Linha /\ Descreve(linha, arq, o[t], Limite[t])

\* The image t of a movement that is at a in phase f is in its transaction.
Pronta(t, f, a) == (t = "comum" /\ a = "dano") \/ (t = a /\ f \in {"inserida", "salva"})

\* Of a movement in phase f that brings o and is at a: pen are the rows in its
\* transaction, arq and lin its files and its committed rows, res the last result.
Movimento(f, o, a, res, pen, arq, lin) ==
    /\ a \in DOMAIN o
    /\ \A t \in Tipo : t \notin DOMAIN o => arq[t] = Nulo /\ lin[t] = Nulo /\ pen[t] = Nulo
    /\ \/ /\ f \in {"processando", "gravada", "inserida", "salva"}
          /\ \A t \in DOMAIN o :
                /\ lin[t] = Nulo
                /\ IF Pronta(t, f, a) THEN Conta(pen[t], arq[t], o, t) ELSE pen[t] = Nulo
                /\ ~Pronta(t, f, a) => arq[t] = Nulo \/ (t = a /\ f = "gravada")
          /\ f = "gravada" => res \in Processar(o[a], a) /\ arq[a] = res.gravado
          /\ f = "salva" => a = "dano" \/ "dano" \notin DOMAIN o
       \/ /\ f \in {"recusada", "nao_apagada", "desfeita", "nao_escrita", "interrompida"}
          /\ \A t \in Tipo : pen[t] = Nulo /\ lin[t] = Nulo
          /\ f = "recusada" => arq[a] = Nulo
       \/ /\ f \in {"respondida", "desfeita", "interrompida"}
          /\ \A t \in Tipo : pen[t] = Nulo
          /\ \A t \in DOMAIN o : Conta(lin[t], arq[t], o, t)

\* The same of an upload, for which multer has left ori.
Upload(f, o, a, res, ori, pen, arq, lin) ==
    /\ a = "comum" /\ DOMAIN o = {"comum"}
    /\ \A t \in Tipo : pen[t] = Nulo
    /\ arq["dano"] = Nulo /\ lin["dano"] = Nulo
    /\ ori # Nulo => f \in {"processando", "desfeita", "nao_escrita", "interrompida"}
    /\ \/ f \in {"processando", "desfeita"} /\ arq["comum"] = Nulo /\ lin["comum"] = Nulo
       \/ /\ f = "gravada" /\ lin["comum"] = Nulo
          /\ res \in Processar(o["comum"], "comum") /\ arq["comum"] = res.gravado
       \/ f \in {"inserida", "respondida", "interrompida"} /\ Conta(lin["comum"], arq["comum"], o, "comum")
       \/ f = "recusada" /\ arq["comum"] = Nulo
       \/ f = "nao_apagada" /\ Conta(lin["comum"], arq["comum"], o, "comum")
       \/ f \in {"nao_escrita", "interrompida", "nao_apagada"} /\ lin["comum"] = Nulo

\* A request that has not begun, or only changes a row, has no images.
SemImagem(pen, arq, lin) == \A t \in Tipo : pen[t] = Nulo /\ arq[t] = Nulo /\ lin[t] = Nulo

Situacao(f, p, a, res, ori, pen, arq, lin) ==
    \/ p = Nulo /\ f = "nova" /\ ori = Nulo /\ SemImagem(pen, arq, lin)
    \/ /\ p # Nulo /\ p.op \in {"excluir", "restaurar"}
       /\ f \in {"lida", "alterada", "respondida", "recusada", "interrompida"}
       /\ ori = Nulo /\ SemImagem(pen, arq, lin)
    \/ /\ p # Nulo /\ p.op = "movimento"
       /\ ori = Nulo /\ Movimento(f, p.original, a, res, pen, arq, lin)
    \/ p # Nulo /\ p.op = "upload" /\ Upload(f, p.original, a, res, ori, pen, arq, lin)

\* What the table has under the names of r.
Da(tabela, r) == [t \in Tipo |-> tabela[<<r, t>>]]

Situacoes ==
    \A r \in Requisicao :
        Situacao(fase[r], pedido[r], atual[r], resultado[r], origens[r], pendentes[r],
                 Da(arquivos, r), Da(linhas, r))

\* A row that somebody is about to change is there.
Alvos ==
    \A r \in Requisicao :
        pedido[r] # Nulo /\ pedido[r].op \in {"excluir", "restaurar"} => linhas[pedido[r].alvo] # Nulo

IInv == TypeOK /\ Situacoes /\ Alvos

-----------------------------------------------------------------------------
(* The shape of a request, and what processing an image gives.             *)

\* A request brings images or names a row, by its operation.
LEMMA PedidoForma ==
    ASSUME NEW p \in Pedido
    PROVE  /\ p.op \in {"movimento", "upload", "excluir", "restaurar"}
           /\ p.op \in {"movimento", "upload"} =>
                 /\ DOMAIN p.original \subseteq Tipo
                 /\ \A t \in DOMAIN p.original : p.original[t] \in Lado
           /\ p.op \in {"excluir", "restaurar"} => p.alvo \in Nome
<1>1. CASE p \in [op: {"movimento", "upload"}, original: Originais]
  <2>1. p.op \in {"movimento", "upload"} /\ p.original \in Originais
    BY <1>1
  <2>2. PICK ts \in (SUBSET Tipo) \ {{}} : p.original \in [ts -> Lado]
    BY <2>1 DEF Originais
  <2> QED BY <2>1, <2>2
<1>2. CASE p \in [op: {"excluir", "restaurar"}, alvo: Nome]
  BY <1>2
<1> QED BY <1>1, <1>2 DEF Pedido

\* Whatever sharp does, what is stored and what is told of it agree.
LEMMA ProcessarConta ==
    ASSUME NEW o, NEW t \in Tipo, o[t] \in Lado, NEW res \in Processar(o[t], t)
    PROVE  /\ res \in Resultado /\ res.gravado \in Lado
           /\ Conta([lado |-> res.medido, comprimida |-> res.comprimida, removida |-> FALSE],
                    res.gravado, o, t)
<1> DEFINE x == o[t]
           m == Limite[t]
           novo == [lado |-> res.medido, comprimida |-> res.comprimida, removida |-> FALSE]
<1>1. x \in Nat /\ x >= 1 /\ x <= LadoMaximo /\ m \in Nat /\ m >= 1 /\ LadoMaximo \in Nat
  BY Valores DEF Lado
<1>2. \/ res = [gravado |-> x, medido |-> Nulo, comprimida |-> FALSE]
      \/ x > m /\ res = [gravado |-> m, medido |-> m, comprimida |-> TRUE]
      \/ ~(x > m) /\ res = [gravado |-> x, medido |-> x, comprimida |-> FALSE]
  BY DEF Processar
<1> HIDE DEF x, m
<1>3. CASE res = [gravado |-> x, medido |-> Nulo, comprimida |-> FALSE]
  <2>1. res \in Resultado /\ res.gravado \in Lado /\ novo \in Linha
    BY <1>1, <1>3, Valores DEF Resultado, Linha, Lado
  <2>2. Descreve(novo, res.gravado, x, m)
    BY <1>1, <1>3, Valores DEF Descreve
  <2> QED BY <2>1, <2>2 DEF Conta, x, m
<1>4. CASE x > m /\ res = [gravado |-> m, medido |-> m, comprimida |-> TRUE]
  <2>1. res \in Resultado /\ res.gravado \in Lado /\ novo \in Linha
    BY <1>1, <1>4, Valores DEF Resultado, Linha, Lado
  <2>2. Descreve(novo, res.gravado, x, m)
    BY <1>1, <1>4, Valores DEF Descreve
  <2> QED BY <2>1, <2>2 DEF Conta, x, m
<1>5. CASE ~(x > m) /\ res = [gravado |-> x, medido |-> x, comprimida |-> FALSE]
  <2>1. res \in Resultado /\ res.gravado \in Lado /\ novo \in Linha
    BY <1>1, <1>5, Valores DEF Resultado, Linha, Lado
  <2>2. Descreve(novo, res.gravado, x, m)
    BY <1>1, <1>5, Valores DEF Descreve
  <2> QED BY <2>1, <2>2 DEF Conta, x, m
<1> QED BY <1>2, <1>3, <1>4, <1>5

-----------------------------------------------------------------------------
(* The mark of removal does not matter.                                    *)

\* m is l, or l with another mark.
Parecida(l, m) ==
    l = m \/ (l \in Linha /\ m \in Linha /\ m.lado = l.lado /\ m.comprimida = l.comprimida)

\* A row and the same row with another mark of removal tell the same of a file.
LEMMA ParecidaConta ==
    ASSUME NEW l, NEW m, Parecida(l, m)
    PROVE  /\ l = Nulo <=> m = Nulo
           /\ \A arq, o, t : Conta(l, arq, o, t) => Conta(m, arq, o, t)
<1>1. l = Nulo <=> m = Nulo
  BY NuloEhOutro DEF Parecida
<1>2. \A arq, o, t : Conta(l, arq, o, t) => Conta(m, arq, o, t)
  BY DEF Parecida, Conta, Descreve
<1> QED BY <1>1, <1>2

\* What is said of a request stays true while its files stay and its rows change
\* in their mark of removal at most.
LEMMA SituacaoFica ==
    ASSUME NEW f, NEW p \in Pedido \cup {Nulo}, NEW a, NEW res, NEW ori, NEW pen, NEW arq, NEW arq2,
           NEW lin, NEW lin2,
           \A t \in Tipo : arq2[t] = arq[t] /\ Parecida(lin[t], lin2[t]),
           Situacao(f, p, a, res, ori, pen, arq, lin)
    PROVE  Situacao(f, p, a, res, ori, pen, arq2, lin2)
<1>1. \A t \in Tipo : /\ arq2[t] = arq[t]
                      /\ lin2[t] = Nulo <=> lin[t] = Nulo
                      /\ \A x, o : Conta(lin[t], x, o, t) => Conta(lin2[t], x, o, t)
  BY ParecidaConta
<1>2. SemImagem(pen, arq, lin) => SemImagem(pen, arq2, lin2)
  BY <1>1 DEF SemImagem
<1>3. ASSUME p # Nulo, p.op = "movimento", Movimento(f, p.original, a, res, pen, arq, lin)
      PROVE  Movimento(f, p.original, a, res, pen, arq2, lin2)
  <2>1. DOMAIN p.original \subseteq Tipo
    BY <1>3, PedidoForma
  <2> DEFINE o == p.original
  <2>2. Movimento(f, o, a, res, pen, arq, lin) /\ DOMAIN o \subseteq Tipo
    BY <1>3, <2>1
  <2> HIDE DEF o
  <2>3. Movimento(f, o, a, res, pen, arq2, lin2)
    <3>1. a \in Tipo
      BY <2>2 DEF Movimento
    <3> QED BY <1>1, <2>2, <3>1 DEF Movimento
  <2> QED BY <2>3 DEF o
<1>4. ASSUME Upload(f, p.original, a, res, ori, pen, arq, lin)
      PROVE  Upload(f, p.original, a, res, ori, pen, arq2, lin2)
  <2>1. "comum" \in Tipo /\ "dano" \in Tipo
    BY DEF Tipo
  <2> QED BY <1>1, <1>4, <2>1 DEF Upload
<1> QED BY <1>2, <1>3, <1>4 DEF Situacao

-----------------------------------------------------------------------------
(* A step of one request.                                                  *)

Sit(r) ==
    Situacao(fase[r], pedido[r], atual[r], resultado[r], origens[r], pendentes[r],
             Da(arquivos, r), Da(linhas, r))

\* Of the other requests, and of their images, a step changes at most a mark.
SoDe(r) ==
    \A s \in Requisicao : s # r =>
        /\ fase'[s] = fase[s] /\ pedido'[s] = pedido[s] /\ atual'[s] = atual[s]
        /\ resultado'[s] = resultado[s] /\ origens'[s] = origens[s] /\ pendentes'[s] = pendentes[s]
        /\ \A t \in Tipo : /\ arquivos'[<<s, t>>] = arquivos[<<s, t>>]
                           /\ Parecida(linhas[<<s, t>>], linhas'[<<s, t>>])

\* A step of r leaves what is said of any other request as it was.
LEMMA OutraSituacao ==
    ASSUME IInv, NEW r \in Requisicao, SoDe(r), NEW s \in Requisicao, s # r
    PROVE  Sit(s)'
<1>1. Sit(s) /\ pedido[s] \in Pedido \cup {Nulo}
  BY DEF IInv, Situacoes, Sit, TypeOK
<1>2. \A t \in Tipo : /\ Da(arquivos', s)[t] = Da(arquivos, s)[t]
                      /\ Parecida(Da(linhas, s)[t], Da(linhas', s)[t])
  BY DEF SoDe, Da
<1>3. Situacao(fase[s], pedido[s], atual[s], resultado[s], origens[s], pendentes[s],
               Da(arquivos', s), Da(linhas', s))
  BY <1>1, <1>2, SituacaoFica DEF Sit
<1> QED BY <1>3 DEF Sit, SoDe

\* A step of r keeps the invariant if it keeps what it says of r, and no row goes.
LEMMA UmPasso ==
    ASSUME IInv, NEW r \in Requisicao, SoDe(r), TypeOK', Sit(r)',
           \A n \in Nome : linhas[n] # Nulo => linhas'[n] # Nulo,
           pedido'[r] = pedido[r] \/ (pedido'[r].op \in {"excluir", "restaurar"} =>
                                         pedido'[r].alvo \in Nome /\ linhas[pedido'[r].alvo] # Nulo)
    PROVE  IInv'
<1>1. Situacoes'
  <2>1. \A s \in Requisicao : Sit(s)'
    BY OutraSituacao
  <2> QED BY <2>1 DEF Situacoes, Sit
<1>2. Alvos'
  <2> SUFFICES ASSUME NEW s \in Requisicao, pedido'[s] # Nulo,
                      pedido'[s].op \in {"excluir", "restaurar"}
               PROVE  linhas'[pedido'[s].alvo] # Nulo
    BY DEF Alvos
  <2>1. CASE pedido'[s] = pedido[s]
    <3>1. pedido[s] \in Pedido /\ linhas[pedido[s].alvo] # Nulo
      BY <2>1 DEF IInv, Alvos, TypeOK
    <3>2. pedido[s].alvo \in Nome
      BY <2>1, <3>1, PedidoForma
    <3> QED BY <2>1, <3>1, <3>2
  <2>2. CASE pedido'[s] # pedido[s]
    BY <2>2 DEF SoDe
  <2> QED BY <2>1, <2>2
<1> QED BY <1>1, <1>2 DEF IInv

\* Who is saving images brought them, and is at one of them.
LEMMA EmCurso ==
    ASSUME IInv, NEW r \in Requisicao, fase[r] \in {"processando", "gravada", "inserida", "salva"}
    PROVE  /\ pedido[r] \in Pedido /\ pedido[r] # Nulo
           /\ \/ /\ pedido[r].op = "movimento" /\ origens[r] = Nulo
                 /\ Movimento(fase[r], pedido[r].original, atual[r], resultado[r], pendentes[r],
                              Da(arquivos, r), Da(linhas, r))
              \/ /\ pedido[r].op = "upload" /\ fase[r] # "salva"
                 /\ Upload(fase[r], pedido[r].original, atual[r], resultado[r], origens[r],
                           pendentes[r], Da(arquivos, r), Da(linhas, r))
           /\ DOMAIN pedido[r].original \subseteq Tipo
           /\ atual[r] \in DOMAIN pedido[r].original /\ atual[r] \in Tipo
           /\ pedido[r].original[atual[r]] \in Lado
<1>1. Sit(r) /\ pedido[r] \in Pedido \cup {Nulo}
  BY DEF IInv, Situacoes, Sit, TypeOK
<1>2. pedido[r] \in Pedido /\ pedido[r] # Nulo
  BY <1>1, NuloNaoEhPedido DEF Sit, Situacao
<1>3. \/ /\ pedido[r].op = "movimento" /\ origens[r] = Nulo
         /\ Movimento(fase[r], pedido[r].original, atual[r], resultado[r], pendentes[r],
                      Da(arquivos, r), Da(linhas, r))
      \/ /\ pedido[r].op = "upload"
         /\ Upload(fase[r], pedido[r].original, atual[r], resultado[r], origens[r],
                   pendentes[r], Da(arquivos, r), Da(linhas, r))
  BY <1>1, <1>2 DEF Sit, Situacao
<1>4. pedido[r].op = "upload" => fase[r] # "salva"
  BY <1>3 DEF Upload
<1>5. DOMAIN pedido[r].original \subseteq Tipo /\ atual[r] \in DOMAIN pedido[r].original
  BY <1>2, <1>3, PedidoForma DEF Movimento, Upload
<1>6. atual[r] \in Tipo /\ pedido[r].original[atual[r]] \in Lado
  BY <1>2, <1>3, <1>5, PedidoForma
<1> QED BY <1>2, <1>3, <1>4, <1>5, <1>6

\* The same name, one table or the other.
LEMMA NomeTipo == \A r \in Requisicao, t \in Tipo : <<r, t>> \in Nome
BY DEF Nome

\* A step of a single request that leaves both tables of the others alone.
LEMMA SoDeDireto ==
    ASSUME IInv, NEW r \in Requisicao,
           \A s \in Requisicao : s # r =>
               /\ fase'[s] = fase[s] /\ pedido'[s] = pedido[s] /\ atual'[s] = atual[s]
               /\ resultado'[s] = resultado[s] /\ origens'[s] = origens[s]
               /\ pendentes'[s] = pendentes[s],
           \A n \in Nome : n[1] # r => arquivos'[n] = arquivos[n] /\ linhas'[n] = linhas[n]
    PROVE  SoDe(r)
BY NomeTipo DEF SoDe, Parecida

-----------------------------------------------------------------------------
(* Saving an image.                                                        *)

\* The file of the image that a movement is at is written.
LEMMA MovimentoGrava ==
    ASSUME NEW o, NEW a, NEW res, NEW pen, NEW arq, NEW arq2, NEW lin,
           DOMAIN o \subseteq Tipo, NEW res2 \in Processar(o[a], a),
           Movimento("processando", o, a, res, pen, arq, lin),
           \A t \in Tipo : arq2[t] = IF t = a THEN res2.gravado ELSE arq[t]
    PROVE  Movimento("gravada", o, a, res2, pen, arq2, lin)
<1>1. a \in Tipo /\ ~Pronta(a, "processando", a) /\ ~Pronta(a, "gravada", a)
  BY DEF Movimento, Pronta, Tipo
<1>2. \A t \in Tipo : Pronta(t, "processando", a) <=> Pronta(t, "gravada", a)
  BY DEF Pronta
<1> QED BY <1>1, <1>2 DEF Movimento

\* A movement ends before its commit, and takes its rows with it.
LEMMA MovimentoFalha ==
    ASSUME NEW f, NEW o, NEW a, NEW res, NEW pen, NEW arq, NEW arq2, NEW lin, NEW fim,
           DOMAIN o \subseteq Tipo, f \in {"processando", "gravada", "inserida", "salva"},
           Movimento(f, o, a, res, pen, arq, lin),
           fim \in {"recusada", "nao_apagada", "desfeita", "nao_escrita", "interrompida"},
           \A t \in Tipo : t # a => arq2[t] = arq[t],
           fim = "recusada" => arq2[a] = Nulo
    PROVE  Movimento(fim, o, a, res, [t \in Tipo |-> Nulo], arq2, lin)
<1>1. a \in Tipo /\ a \in DOMAIN o
  BY DEF Movimento
<1>2. \A t \in Tipo : lin[t] = Nulo
  BY DEF Movimento
<1> QED BY <1>1, <1>2 DEF Movimento

\* The file is written, whole or reduced as the processing decided.
LEMMA EscreverMantem ==
    ASSUME IInv, NEW r \in Requisicao, Escrever(r)
    PROVE  IInv'
<1>1. PICK p \in Processar(pedido[r].original[atual[r]], atual[r]) :
          /\ arquivos' = [arquivos EXCEPT ![<<r, atual[r]>>] = p.gravado]
          /\ resultado' = [resultado EXCEPT ![r] = p]
  BY DEF Escrever
<1>2. /\ fase[r] = "processando" /\ fase' = [fase EXCEPT ![r] = "gravada"]
      /\ origens' = [origens EXCEPT ![r] = Nulo]
      /\ UNCHANGED <<linhas, pedido, atual, pendentes>>
  BY DEF Escrever, Passo
<1> DEFINE o == pedido[r].original
           a == atual[r]
<1>3. /\ DOMAIN o \subseteq Tipo /\ a \in Tipo /\ o[a] \in Lado
  BY <1>2, EmCurso
<1>4. p \in Resultado /\ p.gravado \in Lado
  BY <1>3, ProcessarConta
<1>5. TypeOK'
  <2>1. Lado \subseteq Arquivo /\ <<r, a>> \in Nome
    BY <1>3, NomeTipo, Valores DEF Lado, Arquivo
  <2>2. /\ arquivos' \in [Nome -> Arquivo \cup {Nulo}] /\ resultado' \in [Requisicao -> Resultado \cup {Nulo}]
    BY <1>1, <1>4, <2>1 DEF IInv, TypeOK
  <2> QED BY <1>2, <2>2 DEF IInv, TypeOK, Fase
<1>6. /\ fase'[r] = "gravada" /\ resultado'[r] = p /\ origens'[r] = Nulo
      /\ \A t \in Tipo : Da(arquivos', r)[t] = IF t = a THEN p.gravado ELSE Da(arquivos, r)[t]
      /\ Da(linhas', r) = Da(linhas, r)
  <2>1. \A t \in Tipo : <<r, t>> \in Nome
    BY NomeTipo
  <2> QED BY <1>1, <1>2, <2>1 DEF IInv, TypeOK, Da
<1>7. SoDe(r)
  <2>1. \A n \in Nome : n[1] # r => arquivos'[n] = arquivos[n] /\ linhas'[n] = linhas[n]
    BY <1>1, <1>2 DEF IInv, TypeOK
  <2> QED BY <1>1, <1>2, <2>1, SoDeDireto DEF IInv, TypeOK
<1>8. Sit(r)'
  <2>1. CASE pedido[r].op = "movimento"
    <3>1. Movimento("processando", o, a, resultado[r], pendentes[r], Da(arquivos, r), Da(linhas, r))
      BY <1>2, <2>1, EmCurso
    <3>2. Movimento("gravada", o, a, p, pendentes[r], Da(arquivos', r), Da(linhas, r))
      BY <1>3, <1>6, <3>1, MovimentoGrava
    <3> QED BY <1>2, <1>6, <2>1, <3>2, EmCurso DEF Sit, Situacao
  <2>2. CASE pedido[r].op = "upload"
    <3>1. Upload("processando", o, a, resultado[r], origens[r], pendentes[r], Da(arquivos, r), Da(linhas, r))
      BY <1>2, <2>2, EmCurso
    <3>2. Upload("gravada", o, a, p, Nulo, pendentes[r], Da(arquivos', r), Da(linhas, r))
      BY <1>6, <3>1 DEF Upload, Tipo
    <3> QED BY <1>2, <1>6, <2>2, <3>2, EmCurso DEF Sit, Situacao
  <2> QED BY <1>2, <2>1, <2>2, EmCurso
<1> QED BY <1>2, <1>5, <1>7, <1>8, UmPasso

\* What is left of an image is a file or nothing.
LEMMA RestosTipo ==
    ASSUME IInv, NEW r \in Requisicao, fase[r] = "processando"
    PROVE  Restos(r) \subseteq Arquivo \cup {Nulo}
<1>1. 0 \in Arquivo /\ Lado \subseteq Arquivo
  BY Valores DEF Arquivo, Lado
<1>2. \A p \in Processar(pedido[r].original[atual[r]], atual[r]) : p.gravado \in Lado
  BY EmCurso, ProcessarConta
<1> QED BY <1>1, <1>2 DEF Restos

\* The disk refuses the file, takes a part of it or keeps that of multer as well, and a
\* movement is undone.
LEMMA NaoEscreverMantem ==
    ASSUME IInv, NEW r \in Requisicao, NaoEscrever(r)
    PROVE  IInv'
<1>1. PICK x \in Restos(r) : arquivos' = [arquivos EXCEPT ![<<r, atual[r]>>] = x]
  BY DEF NaoEscrever
<1>2. /\ fase[r] = "processando" /\ fase' = [fase EXCEPT ![r] = "nao_escrita"]
      /\ pendentes' = [pendentes EXCEPT ![r] = [t \in Tipo |-> Nulo]]
      /\ UNCHANGED <<origens, linhas, pedido, atual, resultado>>
  BY DEF NaoEscrever, Passo
<1> DEFINE o == pedido[r].original
           a == atual[r]
<1>3. /\ DOMAIN o \subseteq Tipo /\ a \in Tipo
  BY <1>2, EmCurso
<1>5. TypeOK'
  <2>1. x \in Arquivo \cup {Nulo} /\ <<r, a>> \in Nome
    BY <1>2, <1>3, NomeTipo, RestosTipo
  <2>2. arquivos' \in [Nome -> Arquivo \cup {Nulo}]
    BY <1>1, <2>1 DEF IInv, TypeOK
  <2> QED BY <1>2, <2>2 DEF IInv, TypeOK, Fase
<1>6. /\ fase'[r] = "nao_escrita" /\ pendentes'[r] = [t \in Tipo |-> Nulo]
      /\ \A t \in Tipo : Da(arquivos', r)[t] = IF t = a THEN x ELSE Da(arquivos, r)[t]
      /\ Da(linhas', r) = Da(linhas, r)
  <2>1. \A t \in Tipo : <<r, t>> \in Nome
    BY NomeTipo
  <2> QED BY <1>1, <1>2, <2>1 DEF IInv, TypeOK, Da
<1>7. SoDe(r)
  <2>1. \A n \in Nome : n[1] # r => arquivos'[n] = arquivos[n] /\ linhas'[n] = linhas[n]
    BY <1>1, <1>2 DEF IInv, TypeOK
  <2> QED BY <1>1, <1>2, <2>1, SoDeDireto DEF IInv, TypeOK
<1>8. Sit(r)'
  <2>1. CASE pedido[r].op = "movimento"
    <3>1. Movimento("processando", o, a, resultado[r], pendentes[r], Da(arquivos, r), Da(linhas, r))
      BY <1>2, <2>1, EmCurso
    <3>2. Movimento("nao_escrita", o, a, resultado[r], [t \in Tipo |-> Nulo], Da(arquivos', r), Da(linhas, r))
      BY <1>3, <1>6, <3>1, MovimentoFalha
    <3> QED BY <1>2, <1>6, <2>1, <3>2, EmCurso DEF Sit, Situacao
  <2>2. CASE pedido[r].op = "upload"
    <3>1. Upload("processando", o, a, resultado[r], origens[r], pendentes[r], Da(arquivos, r), Da(linhas, r))
      BY <1>2, <2>2, EmCurso
    <3>2. Upload("nao_escrita", o, a, resultado[r], origens[r], [t \in Tipo |-> Nulo], Da(arquivos', r), Da(linhas, r))
      BY <1>6, <3>1 DEF Upload, Tipo
    <3> QED BY <1>2, <1>6, <2>2, <3>2, EmCurso DEF Sit, Situacao
  <2> QED BY <1>2, <2>1, <2>2, EmCurso
<1> QED BY <1>2, <1>5, <1>7, <1>8, UmPasso

\* An image is refused before anything of it is written, and a movement is undone.
LEMMA InvalidarMantem ==
    ASSUME IInv, NEW r \in Requisicao, Invalidar(r)
    PROVE  IInv'
<1>2. /\ fase[r] = "processando" /\ fase' = [fase EXCEPT ![r] = "desfeita"]
      /\ pendentes' = [pendentes EXCEPT ![r] = [t \in Tipo |-> Nulo]]
      /\ UNCHANGED <<arquivos, origens, linhas, pedido, atual, resultado>>
  BY DEF Invalidar, Passo, disco
<1> DEFINE o == pedido[r].original
           a == atual[r]
<1>5. TypeOK'
  BY <1>2 DEF IInv, TypeOK, Fase
<1>6. fase'[r] = "desfeita" /\ pendentes'[r] = [t \in Tipo |-> Nulo]
  BY <1>2 DEF IInv, TypeOK
<1>7. SoDe(r)
  BY <1>2, SoDeDireto DEF IInv, TypeOK
<1>8. Sit(r)'
  <2>1. CASE pedido[r].op = "movimento"
    <3>1. Movimento("processando", o, a, resultado[r], pendentes[r], Da(arquivos, r), Da(linhas, r))
          /\ DOMAIN o \subseteq Tipo
      BY <1>2, <2>1, EmCurso
    <3>2. Movimento("desfeita", o, a, resultado[r], [t \in Tipo |-> Nulo], Da(arquivos, r), Da(linhas, r))
      BY <3>1, MovimentoFalha
    <3> QED BY <1>2, <1>6, <2>1, <3>2, EmCurso DEF Sit, Situacao
  <2>2. CASE pedido[r].op = "upload"
    <3>1. Upload("processando", o, a, resultado[r], origens[r], pendentes[r], Da(arquivos, r), Da(linhas, r))
      BY <1>2, <2>2, EmCurso
    <3>2. Upload("desfeita", o, a, resultado[r], origens[r], [t \in Tipo |-> Nulo], Da(arquivos, r), Da(linhas, r))
      BY <3>1 DEF Upload, Tipo
    <3> QED BY <1>2, <1>6, <2>2, <3>2, EmCurso DEF Sit, Situacao
  <2> QED BY <1>2, <2>1, <2>2, EmCurso
<1> QED BY <1>2, <1>5, <1>7, <1>8, UmPasso

\* The row of the image joins the transaction.
LEMMA MovimentoInsere ==
    ASSUME NEW o, NEW a, NEW res, NEW pen, NEW pen2, NEW arq, NEW lin,
           DOMAIN o \subseteq Tipo, Movimento("gravada", o, a, res, pen, arq, lin),
           Conta(pen2[a], arq[a], o, a),
           \A t \in Tipo : t # a => pen2[t] = pen[t]
    PROVE  Movimento("inserida", o, a, res, pen2, arq, lin)
<1>1. a \in Tipo /\ a \in DOMAIN o /\ Pronta(a, "inserida", a)
  BY DEF Movimento, Pronta
<1>2. \A t \in Tipo : t # a => (Pronta(t, "gravada", a) <=> Pronta(t, "inserida", a))
  BY DEF Pronta
<1>3. \A t \in DOMAIN o :
          /\ lin[t] = Nulo
          /\ IF Pronta(t, "inserida", a) THEN Conta(pen2[t], arq[t], o, t) ELSE pen2[t] = Nulo
          /\ ~Pronta(t, "inserida", a) => arq[t] = Nulo
  <2> TAKE t \in DOMAIN o
  <2>1. CASE t = a
    BY <1>1, <2>1 DEF Movimento
  <2>2. CASE t # a
    BY <1>2, <2>2 DEF Movimento
  <2> QED BY <2>1, <2>2
<1>4. \A t \in Tipo : t \notin DOMAIN o => arq[t] = Nulo /\ lin[t] = Nulo /\ pen2[t] = Nulo
  BY <1>1 DEF Movimento
<1> QED BY <1>1, <1>3, <1>4 DEF Movimento

\* The row goes into the transaction of a movement, or is committed at once.
LEMMA InserirMantem ==
    ASSUME IInv, NEW r \in Requisicao, Inserir(r)
    PROVE  IInv'
<1> DEFINE o == pedido[r].original
           a == atual[r]
<1>1. /\ fase[r] = "gravada" /\ fase' = [fase EXCEPT ![r] = "inserida"]
      /\ UNCHANGED <<arquivos, origens, pedido, atual, resultado>>
  BY DEF Inserir, Passo, disco
<1>2. /\ DOMAIN o \subseteq Tipo /\ a \in Tipo /\ o[a] \in Lado /\ pedido[r] # Nulo
      /\ pedido[r].op \in {"movimento", "upload"}
  BY <1>1, EmCurso
<1>3. resultado[r] \in Processar(o[a], a) /\ Da(arquivos, r)[a] = resultado[r].gravado
  <2>1. CASE pedido[r].op = "movimento"
    <3>1. Movimento("gravada", o, a, resultado[r], pendentes[r], Da(arquivos, r), Da(linhas, r))
      BY <1>1, <2>1, EmCurso
    <3> QED BY <3>1 DEF Movimento
  <2>2. CASE pedido[r].op = "upload"
    <3>1. Upload("gravada", o, a, resultado[r], origens[r], pendentes[r], Da(arquivos, r), Da(linhas, r))
      BY <1>1, <2>2, EmCurso
    <3> QED BY <3>1 DEF Upload
  <2> QED BY <1>2, <2>1, <2>2
<1>4. NovaLinha(r) \in Linha /\ Conta(NovaLinha(r), Da(arquivos, r)[a], o, a)
  BY <1>2, <1>3, ProcessarConta DEF NovaLinha, Conta
<1>5. CASE pedido[r].op = "movimento"
  <2>1. pendentes' = [pendentes EXCEPT ![r][a] = NovaLinha(r)] /\ UNCHANGED linhas
    BY <1>5 DEF Inserir
  <2>2. TypeOK'
    <3>1. pendentes' \in [Requisicao -> [Tipo -> Linha \cup {Nulo}]]
      BY <1>2, <1>4, <2>1 DEF IInv, TypeOK
    <3> QED BY <1>1, <2>1, <3>1 DEF IInv, TypeOK, Fase
  <2>3. /\ fase'[r] = "inserida"
        /\ pendentes'[r][a] = NovaLinha(r)
        /\ \A t \in Tipo : t # a => pendentes'[r][t] = pendentes[r][t]
    BY <1>1, <1>2, <2>1 DEF IInv, TypeOK
  <2>4. SoDe(r)
    BY <1>1, <2>1, SoDeDireto DEF IInv, TypeOK
  <2>5. Movimento("gravada", o, a, resultado[r], pendentes[r], Da(arquivos, r), Da(linhas, r))
    BY <1>1, <1>5, EmCurso
  <2>6. Movimento("inserida", o, a, resultado[r], pendentes'[r], Da(arquivos, r), Da(linhas, r))
    BY <1>2, <1>4, <2>3, <2>5, MovimentoInsere
  <2>7. Sit(r)'
    BY <1>1, <1>2, <1>5, <2>1, <2>3, <2>6, EmCurso DEF Sit, Situacao
  <2> QED BY <1>1, <2>1, <2>2, <2>4, <2>7, UmPasso
<1>6. CASE pedido[r].op = "upload"
  <2>1. linhas' = [linhas EXCEPT ![<<r, a>>] = NovaLinha(r)] /\ UNCHANGED pendentes
    BY <1>6 DEF Inserir
  <2>2. TypeOK' /\ NovaLinha(r) # Nulo
    <3>1. linhas' \in [Nome -> Linha \cup {Nulo}]
      BY <1>2, <1>4, <2>1, NomeTipo DEF IInv, TypeOK
    <3> QED BY <1>1, <1>4, <2>1, <3>1, NuloEhOutro DEF IInv, TypeOK, Fase
  <2>3. /\ fase'[r] = "inserida"
        /\ \A t \in Tipo : Da(linhas', r)[t] = IF t = a THEN NovaLinha(r) ELSE Da(linhas, r)[t]
    <3>1. \A t \in Tipo : <<r, t>> \in Nome
      BY NomeTipo
    <3> QED BY <1>1, <2>1, <3>1 DEF IInv, TypeOK, Da
  <2>4. SoDe(r)
    <3>1. \A n \in Nome : n[1] # r => arquivos'[n] = arquivos[n] /\ linhas'[n] = linhas[n]
      BY <1>1, <2>1 DEF IInv, TypeOK
    <3> QED BY <1>1, <2>1, <3>1, SoDeDireto DEF IInv, TypeOK
  <2>5. Upload("gravada", o, a, resultado[r], origens[r], pendentes[r], Da(arquivos, r), Da(linhas, r))
    BY <1>1, <1>6, EmCurso
  <2>6. Upload("inserida", o, a, resultado[r], origens[r], pendentes[r], Da(arquivos, r), Da(linhas', r))
    BY <1>4, <2>3, <2>5 DEF Upload, Tipo
  <2>7. Sit(r)'
    BY <1>1, <1>2, <1>6, <2>1, <2>3, <2>6, EmCurso DEF Sit, Situacao
  <2>8. \A n \in Nome : linhas[n] # Nulo => linhas'[n] # Nulo
    BY <2>1, <2>2 DEF IInv, TypeOK
  <2> QED BY <1>1, <2>2, <2>4, <2>7, <2>8, UmPasso
<1> QED BY <1>2, <1>5, <1>6

\* The row is refused or cannot be read back: the file is deleted.
LEMMA DesistirMantem ==
    ASSUME IInv, NEW r \in Requisicao, Desistir(r)
    PROVE  IInv'
<1>1. PICK fim \in {"recusada", "nao_apagada"} :
          /\ fase' = [fase EXCEPT ![r] = fim]
          /\ arquivos' = [arquivos EXCEPT ![<<r, atual[r]>>] = IF fim = "recusada" THEN Nulo ELSE @]
  <2>1. CASE /\ Passo(r, fase[r], "recusada")
             /\ arquivos' = [arquivos EXCEPT ![<<r, atual[r]>>] = Nulo]
    BY <2>1 DEF Passo
  <2>2. CASE Passo(r, fase[r], "nao_apagada") /\ UNCHANGED arquivos
    <3>1. arquivos' = [arquivos EXCEPT ![<<r, atual[r]>>] = @]
      BY <2>2 DEF IInv, TypeOK
    <3> QED BY <2>2, <3>1 DEF Passo
  <2> QED BY <2>1, <2>2 DEF Desistir
<1>2. /\ fase[r] \in {"gravada", "inserida"}
      /\ pendentes' = [pendentes EXCEPT ![r] = [t \in Tipo |-> Nulo]]
      /\ UNCHANGED <<origens, linhas, pedido, atual, resultado>>
  BY DEF Desistir
<1> DEFINE o == pedido[r].original
           a == atual[r]
<1>3. /\ DOMAIN o \subseteq Tipo /\ a \in Tipo
  BY <1>2, EmCurso
<1>5. TypeOK'
  <2>1. arquivos' \in [Nome -> Arquivo \cup {Nulo}]
    BY <1>1 DEF IInv, TypeOK
  <2> QED BY <1>1, <1>2, <2>1 DEF IInv, TypeOK, Fase
<1>6. /\ fase'[r] = fim /\ pendentes'[r] = [t \in Tipo |-> Nulo]
      /\ \A t \in Tipo : Da(arquivos', r)[t] = IF t = a /\ fim = "recusada" THEN Nulo
                                                ELSE Da(arquivos, r)[t]
      /\ Da(linhas', r) = Da(linhas, r)
  <2>1. \A t \in Tipo : <<r, t>> \in Nome
    BY NomeTipo
  <2> QED BY <1>1, <1>2, <2>1 DEF IInv, TypeOK, Da
<1>7. SoDe(r)
  <2>1. \A n \in Nome : n[1] # r => arquivos'[n] = arquivos[n] /\ linhas'[n] = linhas[n]
    BY <1>1, <1>2 DEF IInv, TypeOK
  <2> QED BY <1>1, <1>2, <2>1, SoDeDireto DEF IInv, TypeOK
<1>8. Sit(r)'
  <2>1. CASE pedido[r].op = "movimento"
    <3>1. Movimento(fase[r], o, a, resultado[r], pendentes[r], Da(arquivos, r), Da(linhas, r))
      BY <1>2, <2>1, EmCurso
    <3>2. Movimento(fim, o, a, resultado[r], [t \in Tipo |-> Nulo], Da(arquivos', r), Da(linhas, r))
      BY <1>2, <1>3, <1>6, <3>1, MovimentoFalha
    <3> QED BY <1>2, <1>6, <2>1, <3>2, EmCurso DEF Sit, Situacao
  <2>2. CASE pedido[r].op = "upload"
    <3>1. Upload(fase[r], o, a, resultado[r], origens[r], pendentes[r], Da(arquivos, r), Da(linhas, r))
      BY <1>2, <2>2, EmCurso
    <3>2. Upload(fim, o, a, resultado[r], origens[r], [t \in Tipo |-> Nulo], Da(arquivos', r), Da(linhas, r))
      BY <1>2, <1>6, <3>1 DEF Upload, Tipo
    <3> QED BY <1>2, <1>6, <2>2, <3>2, EmCurso DEF Sit, Situacao
  <2> QED BY <1>2, <2>1, <2>2, EmCurso
<1> QED BY <1>2, <1>5, <1>7, <1>8, UmPasso

\* The image of the damage comes up.
LEMMA MovimentoSegue ==
    ASSUME NEW o, NEW res, NEW pen, NEW arq, NEW lin,
           DOMAIN o \subseteq Tipo, Movimento("inserida", o, "comum", res, pen, arq, lin),
           "dano" \in DOMAIN o
    PROVE  Movimento("processando", o, "dano", res, pen, arq, lin)
<1>1. \A t \in Tipo : Pronta(t, "inserida", "comum") <=> Pronta(t, "processando", "dano")
  BY DEF Pronta, Tipo
<1> QED BY <1>1 DEF Movimento

\* A step that only moves r on.
LEMMA SoFase ==
    ASSUME IInv, NEW r \in Requisicao, NEW f \in Fase, NEW a \in Tipo \cup {Nulo},
           fase' = [fase EXCEPT ![r] = f], atual' = [atual EXCEPT ![r] = a],
           UNCHANGED <<arquivos, origens, linhas, pedido, resultado, pendentes>>,
           Situacao(f, pedido[r], a, resultado[r], origens[r], pendentes[r],
                    Da(arquivos, r), Da(linhas, r))
    PROVE  IInv'
<1>1. TypeOK'
  BY DEF IInv, TypeOK
<1>2. SoDe(r)
  BY SoDeDireto DEF IInv, TypeOK
<1>3. Sit(r)'
  BY DEF Sit, IInv, TypeOK
<1> QED BY <1>1, <1>2, <1>3, UmPasso

\* After the common image of a movement comes the one of the damage.
LEMMA SeguirMantem ==
    ASSUME IInv, NEW r \in Requisicao, Seguir(r)
    PROVE  IInv'
<1> DEFINE o == pedido[r].original
<1>1. /\ fase[r] = "inserida" /\ fase' = [fase EXCEPT ![r] = "processando"]
      /\ pedido[r].op = "movimento" /\ atual[r] = "comum" /\ "dano" \in DOMAIN o
      /\ atual' = [atual EXCEPT ![r] = "dano"]
      /\ UNCHANGED <<arquivos, origens, linhas, pedido, resultado, pendentes>>
  BY DEF Seguir, Passo, disco
<1>2. /\ Movimento("inserida", o, "comum", resultado[r], pendentes[r], Da(arquivos, r), Da(linhas, r))
      /\ DOMAIN o \subseteq Tipo /\ pedido[r] # Nulo /\ origens[r] = Nulo
  BY <1>1, EmCurso
<1>3. Movimento("processando", o, "dano", resultado[r], pendentes[r], Da(arquivos, r), Da(linhas, r))
  BY <1>1, <1>2, MovimentoSegue
<1>4. Situacao("processando", pedido[r], "dano", resultado[r], origens[r], pendentes[r],
               Da(arquivos, r), Da(linhas, r))
  BY <1>1, <1>2, <1>3 DEF Situacao
<1>5. "processando" \in Fase /\ "dano" \in Tipo \cup {Nulo}
  BY DEF Fase, Tipo
<1> QED BY <1>1, <1>4, <1>5, SoFase

\* The last image of a movement is done.
LEMMA TerminarMantem ==
    ASSUME IInv, NEW r \in Requisicao, Terminar(r)
    PROVE  IInv'
<1> DEFINE o == pedido[r].original
           a == atual[r]
<1>1. /\ fase[r] = "inserida" /\ fase' = [fase EXCEPT ![r] = "salva"]
      /\ pedido[r].op = "movimento" /\ (a = "dano" \/ "dano" \notin DOMAIN o)
      /\ UNCHANGED <<arquivos, origens, linhas, pedido, atual, resultado, pendentes>>
  BY DEF Terminar, Passo, disco, locais
<1>2. /\ Movimento("inserida", o, a, resultado[r], pendentes[r], Da(arquivos, r), Da(linhas, r))
      /\ DOMAIN o \subseteq Tipo /\ pedido[r] # Nulo /\ origens[r] = Nulo /\ a \in Tipo
  BY <1>1, EmCurso
<1>3. Movimento("salva", o, a, resultado[r], pendentes[r], Da(arquivos, r), Da(linhas, r))
  <2>1. \A t \in Tipo : Pronta(t, "inserida", a) <=> Pronta(t, "salva", a)
    BY DEF Pronta
  <2> HIDE DEF o, a
  <2> QED BY <1>1, <1>2, <2>1 DEF Movimento
<1>4. Situacao("salva", pedido[r], a, resultado[r], origens[r], pendentes[r],
               Da(arquivos, r), Da(linhas, r))
  BY <1>1, <1>2, <1>3 DEF Situacao
<1>5. "salva" \in Fase /\ atual' = [atual EXCEPT ![r] = a]
  BY <1>1 DEF Fase, IInv, TypeOK
<1> QED BY <1>1, <1>2, <1>4, <1>5, SoFase

\* An upload is answered.
LEMMA ResponderMantem ==
    ASSUME IInv, NEW r \in Requisicao, Responder(r)
    PROVE  IInv'
<1> DEFINE o == pedido[r].original
           a == atual[r]
<1>1. /\ fase[r] = "inserida" /\ fase' = [fase EXCEPT ![r] = "respondida"]
      /\ pedido[r].op = "upload"
      /\ UNCHANGED <<arquivos, origens, linhas, pedido, atual, resultado, pendentes>>
  BY DEF Responder, Passo, disco, locais
<1>2. /\ Upload("inserida", o, a, resultado[r], origens[r], pendentes[r], Da(arquivos, r), Da(linhas, r))
      /\ pedido[r] # Nulo /\ a \in Tipo
  BY <1>1, EmCurso
<1>3. Upload("respondida", o, a, resultado[r], origens[r], pendentes[r], Da(arquivos, r), Da(linhas, r))
  BY <1>2 DEF Upload
<1>4. Situacao("respondida", pedido[r], a, resultado[r], origens[r], pendentes[r],
               Da(arquivos, r), Da(linhas, r))
  BY <1>1, <1>2, <1>3 DEF Situacao
<1>5. "respondida" \in Fase /\ atual' = [atual EXCEPT ![r] = a]
  BY <1>1 DEF Fase, IInv, TypeOK
<1> QED BY <1>1, <1>2, <1>4, <1>5, SoFase

-----------------------------------------------------------------------------
(* The end of a movement, and what the stop of the process leaves.         *)

\* What a commit makes of the rows of a movement whose images are all saved.
LEMMA MovimentoConfirma ==
    ASSUME NEW o, NEW a, NEW res, NEW pen, NEW arq, NEW lin, NEW lin2,
           DOMAIN o \subseteq Tipo, Movimento("salva", o, a, res, pen, arq, lin),
           \A t \in Tipo : lin2[t] = IF pen[t] # Nulo THEN pen[t] ELSE lin[t],
           NEW fim \in {"respondida", "desfeita", "interrompida"}
    PROVE  Movimento(fim, o, a, res, [t \in Tipo |-> Nulo], arq, lin2)
<1>1. \A t \in DOMAIN o : Pronta(t, "salva", a)
  BY DEF Movimento, Pronta, Tipo
<1>2. \A t \in DOMAIN o : Conta(pen[t], arq[t], o, t)
  BY <1>1 DEF Movimento
<1>3. \A t \in DOMAIN o : lin2[t] = pen[t] /\ Conta(lin2[t], arq[t], o, t)
  BY <1>2, NuloEhOutro DEF Conta
<1>4. \A t \in Tipo : t \notin DOMAIN o => arq[t] = Nulo /\ lin2[t] = Nulo
  BY DEF Movimento
<1> QED BY <1>3, <1>4 DEF Movimento

\* What a commit of the movements rs does to the table.
LEMMA PublicarTabela ==
    ASSUME IInv, NEW rs \in SUBSET Requisicao, linhas' = Publicar(rs)
    PROVE  /\ linhas' \in [Nome -> Linha \cup {Nulo}]
           /\ \A n \in Nome : linhas[n] # Nulo => linhas'[n] # Nulo
           /\ \A n \in Nome : n[1] \notin rs => linhas'[n] = linhas[n]
           /\ \A r \in rs, t \in Tipo :
                 Da(linhas', r)[t] = IF pendentes[r][t] # Nulo THEN pendentes[r][t] ELSE Da(linhas, r)[t]
<1>1. \A n \in Nome : n[1] \in Requisicao /\ n[2] \in Tipo
  BY DEF Nome
<1>2. linhas' \in [Nome -> Linha \cup {Nulo}]
  BY <1>1 DEF IInv, TypeOK, Publicar
<1>3. \A n \in Nome : linhas[n] # Nulo => linhas'[n] # Nulo
  BY DEF Publicar
<1>4. \A n \in Nome : n[1] \notin rs => linhas'[n] = linhas[n]
  BY DEF Publicar
<1>5. ASSUME NEW r \in rs, NEW t \in Tipo
      PROVE  Da(linhas', r)[t] = IF pendentes[r][t] # Nulo THEN pendentes[r][t] ELSE Da(linhas, r)[t]
  BY NomeTipo DEF Publicar, Da
<1> QED BY <1>2, <1>3, <1>4, <1>5

\* The commit of a movement publishes all its rows.
LEMMA ConfirmarMantem ==
    ASSUME IInv, NEW r \in Requisicao, Confirmar(r)
    PROVE  IInv'
<1> DEFINE o == pedido[r].original
           a == atual[r]
<1>1. PICK f \in {"respondida", "desfeita"} : fase[r] = "salva" /\ fase' = [fase EXCEPT ![r] = f]
  BY DEF Confirmar, Passo
<1>2. /\ linhas' = Publicar({r})
      /\ pendentes' = [pendentes EXCEPT ![r] = [t \in Tipo |-> Nulo]]
      /\ UNCHANGED <<arquivos, origens, pedido, atual, resultado>>
  BY DEF Confirmar, disco
<1>3. /\ Movimento("salva", o, a, resultado[r], pendentes[r], Da(arquivos, r), Da(linhas, r))
      /\ DOMAIN o \subseteq Tipo /\ pedido[r] # Nulo /\ pedido[r].op = "movimento" /\ origens[r] = Nulo
  BY <1>1, EmCurso
<1>4. /\ linhas' \in [Nome -> Linha \cup {Nulo}]
      /\ \A n \in Nome : linhas[n] # Nulo => linhas'[n] # Nulo
      /\ \A n \in Nome : n[1] # r => linhas'[n] = linhas[n]
      /\ \A t \in Tipo :
            Da(linhas', r)[t] = IF pendentes[r][t] # Nulo THEN pendentes[r][t] ELSE Da(linhas, r)[t]
  <2>1. {r} \in SUBSET Requisicao
    OBVIOUS
  <2> HIDE DEF o, a
  <2>2. /\ linhas' \in [Nome -> Linha \cup {Nulo}]
        /\ \A n \in Nome : linhas[n] # Nulo => linhas'[n] # Nulo
        /\ \A n \in Nome : n[1] \notin {r} => linhas'[n] = linhas[n]
        /\ \A q \in {r}, t \in Tipo :
              Da(linhas', q)[t] = IF pendentes[q][t] # Nulo THEN pendentes[q][t] ELSE Da(linhas, q)[t]
    BY ONLY IInv, <1>2, <2>1, PublicarTabela
  <2> QED BY <2>2
<1>5. TypeOK'
  BY <1>1, <1>2, <1>4 DEF IInv, TypeOK, Fase
<1>6. fase'[r] = f /\ pendentes'[r] = [t \in Tipo |-> Nulo]
  BY <1>1, <1>2 DEF IInv, TypeOK
<1>7. SoDe(r)
  BY <1>1, <1>2, <1>4, SoDeDireto DEF IInv, TypeOK
<1>8. Movimento(f, o, a, resultado[r], [t \in Tipo |-> Nulo], Da(arquivos, r), Da(linhas', r))
  <2> HIDE DEF o, a
  <2>1. f \in {"respondida", "desfeita", "interrompida"}
    OBVIOUS
  <2> QED BY ONLY <1>3, <1>4, <2>1, MovimentoConfirma
<1>9. Sit(r)'
  BY <1>2, <1>3, <1>6, <1>8 DEF Sit, Situacao
<1> QED BY <1>2, <1>4, <1>5, <1>7, <1>9, UmPasso

\* The rollback of a movement drops its rows and leaves its files.
LEMMA DesfazerMantem ==
    ASSUME IInv, NEW r \in Requisicao, Desfazer(r)
    PROVE  IInv'
<1> DEFINE o == pedido[r].original
           a == atual[r]
<1>1. /\ fase[r] = "salva" /\ fase' = [fase EXCEPT ![r] = "desfeita"]
      /\ pendentes' = [pendentes EXCEPT ![r] = [t \in Tipo |-> Nulo]]
      /\ UNCHANGED <<arquivos, origens, linhas, pedido, atual, resultado>>
  BY DEF Desfazer, Passo, disco
<1>2. /\ Movimento("salva", o, a, resultado[r], pendentes[r], Da(arquivos, r), Da(linhas, r))
      /\ DOMAIN o \subseteq Tipo /\ pedido[r] # Nulo /\ pedido[r].op = "movimento" /\ origens[r] = Nulo
  BY <1>1, EmCurso
<1>3. TypeOK' /\ fase'[r] = "desfeita" /\ pendentes'[r] = [t \in Tipo |-> Nulo]
  BY <1>1 DEF IInv, TypeOK, Fase
<1>4. SoDe(r)
  BY <1>1, SoDeDireto DEF IInv, TypeOK
<1>5. Movimento("desfeita", o, a, resultado[r], [t \in Tipo |-> Nulo], Da(arquivos, r), Da(linhas, r))
  BY <1>2, MovimentoFalha
<1>6. Sit(r)'
  BY <1>1, <1>2, <1>3, <1>5 DEF Sit, Situacao
<1> QED BY <1>1, <1>3, <1>4, <1>6, UmPasso

-----------------------------------------------------------------------------
(* Removing and restoring.                                                 *)

\* Who is to change a row has no images of its own, and the row is there.
LEMMA EmAlteracao ==
    ASSUME IInv, NEW r \in Requisicao, fase[r] \in {"lida", "alterada"}
    PROVE  /\ pedido[r] \in Pedido /\ pedido[r] # Nulo
           /\ pedido[r].op \in {"excluir", "restaurar"} /\ origens[r] = Nulo
           /\ SemImagem(pendentes[r], Da(arquivos, r), Da(linhas, r))
           /\ pedido[r].alvo \in Nome /\ linhas[pedido[r].alvo] \in Linha
<1>1. Sit(r) /\ pedido[r] \in Pedido \cup {Nulo}
  BY DEF IInv, Situacoes, Sit, TypeOK
<1>2. /\ pedido[r] # Nulo /\ pedido[r].op \in {"excluir", "restaurar"} /\ origens[r] = Nulo
      /\ SemImagem(pendentes[r], Da(arquivos, r), Da(linhas, r))
  BY <1>1 DEF Sit, Situacao, Movimento, Upload
<1>3. pedido[r].alvo \in Nome
  BY <1>1, <1>2, PedidoForma
<1> QED BY <1>1, <1>2, <1>3 DEF IInv, Alvos, TypeOK

\* A removal or restoration changes the mark of a row and no file.
LEMMA AlterarMantem ==
    ASSUME IInv, NEW r \in Requisicao, Alterar(r)
    PROVE  IInv'
<1> DEFINE alvo == pedido[r].alvo
           exclui == pedido[r].op = "excluir"
           nova == [linhas[alvo] EXCEPT !.removida = exclui]
<1>1. PICK f \in {"respondida", "alterada"} :
          /\ fase[r] = "lida" /\ fase' = [fase EXCEPT ![r] = f]
          /\ linhas' = [linhas EXCEPT ![alvo].removida = exclui]
          /\ UNCHANGED <<arquivos, origens, pedido, atual, resultado, pendentes>>
  BY DEF Alterar, disco, locais
<1>2. /\ pedido[r] # Nulo /\ pedido[r].op \in {"excluir", "restaurar"} /\ origens[r] = Nulo
      /\ SemImagem(pendentes[r], Da(arquivos, r), Da(linhas, r))
      /\ alvo \in Nome /\ linhas[alvo] \in Linha
  BY <1>1, EmAlteracao
<1>3. exclui \in BOOLEAN
  OBVIOUS
<1> HIDE DEF exclui
<1>4. nova \in Linha /\ nova.lado = linhas[alvo].lado /\ nova.comprimida = linhas[alvo].comprimida
  BY <1>2, <1>3 DEF Linha
<1>5. linhas' = [linhas EXCEPT ![alvo] = nova]
  BY <1>1
<1> HIDE DEF nova
<1>6. TypeOK' /\ fase'[r] = f
  BY <1>1, <1>2, <1>4, <1>5 DEF IInv, TypeOK, Fase
<1>7. \A n \in Nome : Parecida(linhas[n], linhas'[n]) /\ (linhas[n] # Nulo => linhas'[n] # Nulo)
  BY <1>2, <1>4, <1>5, NuloEhOutro DEF Parecida, IInv, TypeOK
<1>8. SoDe(r)
  BY <1>1, <1>7, NomeTipo DEF SoDe, IInv, TypeOK
<1>9. Sit(r)'
  <2>1. \A t \in Tipo : Da(linhas, r)[t] = linhas[<<r, t>>] /\ Da(linhas', r)[t] = linhas'[<<r, t>>]
    BY DEF Da
  <2>2. \A t \in Tipo : linhas[<<r, t>>] = Nulo => linhas'[<<r, t>>] = Nulo
    BY <1>7, NomeTipo, NuloEhOutro DEF Parecida
  <2>3. SemImagem(pendentes[r], Da(arquivos, r), Da(linhas', r))
    BY <1>2, <2>1, <2>2 DEF SemImagem
  <2> QED BY <1>1, <1>2, <1>6, <2>3 DEF Sit, Situacao
<1> QED BY <1>1, <1>6, <1>7, <1>8, <1>9, UmPasso

\* A removal or restoration ends or fails.
LEMMA EncerrarMantem ==
    ASSUME IInv, NEW r \in Requisicao, Encerrar(r)
    PROVE  IInv'
<1>1. PICK f \in {"recusada", "respondida"} :
          /\ fase[r] \in {"lida", "alterada"} /\ fase' = [fase EXCEPT ![r] = f]
          /\ UNCHANGED <<arquivos, origens, linhas, pedido, atual, resultado, pendentes>>
  BY DEF Encerrar, disco, locais
<1>2. Situacao(f, pedido[r], atual[r], resultado[r], origens[r], pendentes[r], Da(arquivos, r), Da(linhas, r))
  BY <1>1, EmAlteracao DEF Situacao
<1>3. f \in Fase /\ atual' = [atual EXCEPT ![r] = atual[r]] /\ atual[r] \in Tipo \cup {Nulo}
  BY <1>1 DEF Fase, IInv, TypeOK
<1> QED BY <1>1, <1>2, <1>3, SoFase

-----------------------------------------------------------------------------
(* Opening.                                                                *)

\* A request that has not begun has nothing anywhere.
LEMMA Intocada ==
    ASSUME IInv, NEW r \in Requisicao, fase[r] = "nova"
    PROVE  /\ pedido[r] = Nulo /\ origens[r] = Nulo
           /\ SemImagem(pendentes[r], Da(arquivos, r), Da(linhas, r))
BY DEF IInv, Situacoes, Situacao, Movimento, Upload

\* It begins with p at the image a, for which multer has left x.
LEMMA AbrirMantem ==
    ASSUME IInv, NEW r \in Requisicao, NEW p \in Pedido, NEW a \in Tipo \cup {Nulo},
           NEW f \in {"processando", "lida"}, NEW x \in Lado \cup {Nulo},
           Abrir(r, p, a, f), origens' = [origens EXCEPT ![r] = x],
           p.op \in {"excluir", "restaurar"} =>
               x = Nulo /\ f = "lida" /\ p.alvo \in Nome /\ linhas[p.alvo] # Nulo,
           p.op \in {"movimento", "upload"} => f = "processando" /\ a \in DOMAIN p.original,
           p.op = "movimento" => x = Nulo /\ (a = "dano" => "comum" \notin DOMAIN p.original),
           p.op = "upload" => DOMAIN p.original = {"comum"}
    PROVE  IInv'
<1>1. /\ fase[r] = "nova" /\ fase' = [fase EXCEPT ![r] = f] /\ pedido' = [pedido EXCEPT ![r] = p]
      /\ atual' = [atual EXCEPT ![r] = a]
      /\ UNCHANGED <<arquivos, linhas, resultado, pendentes>>
  BY DEF Abrir
<1>2. p # Nulo
  BY NuloNaoEhPedido
<1>3. TypeOK'
  BY <1>1 DEF IInv, TypeOK, Fase
<1>4. fase'[r] = f /\ pedido'[r] = p /\ atual'[r] = a /\ origens'[r] = x
  BY <1>1 DEF IInv, TypeOK
<1>5. SoDe(r)
  BY <1>1, SoDeDireto DEF IInv, TypeOK
<1>6. SemImagem(pendentes[r], Da(arquivos, r), Da(linhas, r))
  BY <1>1, Intocada
<1>7. Situacao(f, p, a, resultado[r], x, pendentes[r], Da(arquivos, r), Da(linhas, r))
  <2>1. CASE p.op \in {"excluir", "restaurar"}
    BY <1>2, <1>6, <2>1 DEF Situacao
  <2>2. CASE p.op = "movimento"
    <3>1. DOMAIN p.original \subseteq Tipo
      BY <2>2, PedidoForma
    <3>2. f = "processando" /\ a \in DOMAIN p.original /\ (a = "dano" => "comum" \notin DOMAIN p.original)
      BY <2>2
    <3> DEFINE o == p.original
    <3>3. DOMAIN o \subseteq Tipo /\ a \in DOMAIN o /\ (a = "dano" => "comum" \notin DOMAIN o)
      BY <3>1, <3>2
    <3> HIDE DEF o
    <3>4. \A t \in DOMAIN o : ~Pronta(t, "processando", a)
      BY <3>3 DEF Pronta
    <3>5. Movimento("processando", o, a, resultado[r], pendentes[r], Da(arquivos, r), Da(linhas, r))
      BY <1>6, <3>3, <3>4 DEF SemImagem, Movimento
    <3> QED BY <1>2, <2>2, <3>2, <3>5 DEF Situacao, o
  <2>3. CASE p.op = "upload"
    <3>1. Upload("processando", p.original, a, resultado[r], x, pendentes[r], Da(arquivos, r), Da(linhas, r))
      BY <1>6, <2>3 DEF SemImagem, Upload, Tipo
    <3> QED BY <1>2, <2>3, <3>1 DEF Situacao
  <2> QED BY <2>1, <2>2, <2>3, PedidoForma
<1>8. Sit(r)'
  BY <1>1, <1>4, <1>7 DEF Sit
<1> QED BY <1>1, <1>3, <1>4, <1>5, <1>8, UmPasso

\* A request begins; its names are drawn afresh and nothing is there under them.
LEMMA ComecaMantem ==
    ASSUME IInv, NEW r \in Requisicao, Comeca(r)
    PROVE  IInv'
<1>o. origens' = origens => origens' = [origens EXCEPT ![r] = Nulo] \/ fase[r] # "nova"
  BY Intocada DEF IInv, TypeOK
<1>1. CASE AbrirMovimento(r)
  <2>1. PICK o \in Originais :
            Abrir(r, [op |-> "movimento", original |-> o],
                  IF "comum" \in DOMAIN o THEN "comum" ELSE "dano", "processando")
    BY <1>1 DEF AbrirMovimento
  <2> DEFINE p == [op |-> "movimento", original |-> o]
             a == IF "comum" \in DOMAIN o THEN "comum" ELSE "dano"
  <2>2. p \in Pedido /\ p.op = "movimento" /\ p.original = o
    BY DEF Pedido
  <2>3. a \in DOMAIN o /\ a \in Tipo \cup {Nulo} /\ (a = "dano" => "comum" \notin DOMAIN o)
    <3>1. PICK ts \in (SUBSET Tipo) \ {{}} : o \in [ts -> Lado]
      BY DEF Originais
    <3> QED BY <3>1 DEF Tipo
  <2>4. Abrir(r, p, a, "processando") /\ origens' = [origens EXCEPT ![r] = Nulo]
    BY <1>1, <1>o, <2>1 DEF AbrirMovimento, Abrir
  <2> HIDE DEF p, a
  <2> QED BY <2>2, <2>3, <2>4, AbrirMantem
<1>2. CASE AbrirUpload(r)
  <2>1. PICK o \in [{"comum"} -> Lado] :
            /\ Abrir(r, [op |-> "upload", original |-> o], "comum", "processando")
            /\ origens' = [origens EXCEPT ![r] = o["comum"]]
    BY <1>2 DEF AbrirUpload
  <2> DEFINE p == [op |-> "upload", original |-> o]
  <2>2. p \in Pedido /\ p.op = "upload" /\ p.original = o
    <3>1. {"comum"} \in (SUBSET Tipo) \ {{}}
      BY DEF Tipo
    <3>2. o \in Originais
      BY <3>1 DEF Originais
    <3> QED BY <3>2 DEF Pedido
  <2>3. DOMAIN o = {"comum"} /\ o["comum"] \in Lado /\ "comum" \in Tipo
    BY DEF Tipo
  <2>4. Abrir(r, p, "comum", "processando") /\ origens' = [origens EXCEPT ![r] = o["comum"]]
    BY <2>1
  <2> HIDE DEF p
  <2> QED BY <2>2, <2>3, <2>4, AbrirMantem
<1>3. ASSUME NEW n \in Nome, LerExclusao(r, n) \/ LerRestauro(r, n) PROVE IInv'
  <2>1. PICK op \in {"excluir", "restaurar"} : Abrir(r, [op |-> op, alvo |-> n], Nulo, "lida")
    BY <1>3 DEF LerExclusao, LerRestauro
  <2> DEFINE p == [op |-> op, alvo |-> n]
  <2>2. p \in Pedido /\ p.op \in {"excluir", "restaurar"} /\ p.alvo = n
    BY DEF Pedido
  <2>3. Abrir(r, p, Nulo, "lida") /\ origens' = [origens EXCEPT ![r] = Nulo] /\ linhas[n] # Nulo
    BY <1>3, <1>o, <2>1 DEF LerExclusao, LerRestauro, Abrir
  <2> HIDE DEF p
  <2> QED BY <2>2, <2>3, AbrirMantem
<1> QED BY <1>1, <1>2, <1>3 DEF Comeca

-----------------------------------------------------------------------------
(* The process stops.                                                      *)

\* What a stop leaves of a request s, in a movement of which the commit may arrive.
LEMMA QuedaDeUma ==
    ASSUME IInv, NEW s \in Requisicao, s \in Abertas,
           NEW arq, NEW lin,
           \A t \in Tipo : arq[t] = Da(arquivos, s)[t]
                           \/ (fase[s] = "processando" /\ t = atual[s]),
           \/ \A t \in Tipo : lin[t] = Da(linhas, s)[t]
           \/ /\ fase[s] = "salva"
              /\ \A t \in Tipo : arq[t] = Da(arquivos, s)[t]
              /\ \A t \in Tipo : lin[t] = IF pendentes[s][t] # Nulo THEN pendentes[s][t]
                                          ELSE Da(linhas, s)[t]
    PROVE  Situacao("interrompida", pedido[s], atual[s], resultado[s], origens[s],
                    [t \in Tipo |-> Nulo], arq, lin)
<1> DEFINE o == pedido[s].original
           a == atual[s]
<1>1. CASE fase[s] \in {"lida", "alterada"}
  <2>1. /\ pedido[s] # Nulo /\ pedido[s].op \in {"excluir", "restaurar"} /\ origens[s] = Nulo
        /\ SemImagem(pendentes[s], Da(arquivos, s), Da(linhas, s))
    BY <1>1, EmAlteracao
  <2>2. SemImagem([t \in Tipo |-> Nulo], arq, lin)
    BY <1>1, <2>1 DEF SemImagem
  <2> QED BY <2>1, <2>2 DEF Situacao
<1>2. CASE fase[s] \in {"processando", "gravada", "inserida", "salva"}
  <2>1. /\ DOMAIN o \subseteq Tipo /\ a \in DOMAIN o /\ a \in Tipo /\ pedido[s] # Nulo
        /\ pedido[s].op \in {"movimento", "upload"}
        /\ pedido[s].op = "movimento" => origens[s] = Nulo
    BY <1>2, EmCurso
  <2>2. CASE pedido[s].op = "movimento"
    <3>1. Movimento(fase[s], o, a, resultado[s], pendentes[s], Da(arquivos, s), Da(linhas, s))
      BY <1>2, <2>2, EmCurso
    <3> HIDE DEF o, a
    <3>2. CASE \A t \in Tipo : lin[t] = Da(linhas, s)[t]
      <4>1. Movimento("interrompida", o, a, resultado[s], [t \in Tipo |-> Nulo], arq, Da(linhas, s))
        <5>1. \A t \in Tipo : t # a => arq[t] = Da(arquivos, s)[t]
          BY DEF a
        <5>2. "interrompida" \in {"recusada", "nao_apagada", "desfeita", "nao_escrita", "interrompida"}
          OBVIOUS
        <5> QED BY ONLY <1>2, <2>1, <3>1, <5>1, <5>2, MovimentoFalha
      <4>2. Movimento("interrompida", o, a, resultado[s], [t \in Tipo |-> Nulo], arq, lin)
        <5>1. \A t \in DOMAIN o : lin[t] = Da(linhas, s)[t]
          BY <2>1, <3>2
        <5> QED BY <3>2, <4>1, <5>1 DEF Movimento
      <4> QED BY <2>1, <2>2, <4>2 DEF Situacao, o, a
    <3>3. CASE /\ fase[s] = "salva"
               /\ \A t \in Tipo : arq[t] = Da(arquivos, s)[t]
               /\ \A t \in Tipo : lin[t] = IF pendentes[s][t] # Nulo THEN pendentes[s][t]
                                           ELSE Da(linhas, s)[t]
      <4>1. "interrompida" \in {"respondida", "desfeita", "interrompida"}
        OBVIOUS
      <4>2. Movimento("salva", o, a, resultado[s], pendentes[s], Da(arquivos, s), Da(linhas, s))
        BY <3>1, <3>3
      <4>3. Movimento("interrompida", o, a, resultado[s], [t \in Tipo |-> Nulo], Da(arquivos, s), lin)
        BY ONLY <2>1, <3>3, <4>1, <4>2, MovimentoConfirma
      <4>4. Movimento("interrompida", o, a, resultado[s], [t \in Tipo |-> Nulo], arq, lin)
        <5>1. \A t \in DOMAIN o : arq[t] = Da(arquivos, s)[t]
          BY <2>1, <3>3
        <5> QED BY <2>1, <3>3, <4>3, <5>1 DEF Movimento
      <4> QED BY <2>1, <2>2, <4>4 DEF Situacao, o, a
    <3> QED BY <3>2, <3>3
  <2>3. CASE pedido[s].op = "upload"
    <3>1. Upload(fase[s], o, a, resultado[s], origens[s], pendentes[s], Da(arquivos, s), Da(linhas, s))
          /\ fase[s] # "salva"
      BY <1>2, <2>3, EmCurso
    <3>2. \A t \in Tipo : lin[t] = Da(linhas, s)[t]
      BY <3>1
    <3>3. "comum" \in Tipo /\ "dano" \in Tipo
      BY DEF Tipo
    <3>4. /\ arq["dano"] = Nulo /\ lin["dano"] = Nulo /\ a = "comum" /\ DOMAIN o = {"comum"}
          /\ origens[s] # Nulo => fase[s] = "processando"
      BY <1>2, <3>1, <3>2, <3>3 DEF Upload
    <3>5. lin["comum"] = Nulo \/ Conta(lin["comum"], arq["comum"], o, "comum")
      <4>1. CASE fase[s] \in {"processando", "gravada"}
        BY <3>1, <3>2, <3>3, <4>1 DEF Upload
      <4>2. CASE fase[s] = "inserida"
        BY <3>1, <3>2, <3>3, <4>2 DEF Upload
      <4> QED BY <1>2, <3>1, <4>1, <4>2
    <3>6. Upload("interrompida", o, a, resultado[s], origens[s], [t \in Tipo |-> Nulo], arq, lin)
      BY <3>4, <3>5 DEF Upload
    <3> QED BY <2>1, <2>3, <3>6 DEF Situacao
  <2> QED BY <2>1, <2>2, <2>3
<1> QED BY <1>1, <1>2 DEF Abertas

\* The process stops: every transaction is rolled back, the disk stays as it is.
LEMMA QuedaMantem ==
    ASSUME IInv, Queda
    PROVE  IInv'
<1>1. PICK rs \in SUBSET {r \in Abertas : fase[r] = "salva"} : linhas' = Publicar(rs)
  BY DEF Queda
<1> DEFINE ps == {r \in Abertas : fase[r] = "processando"}
<1>2. PICK restos \in [ps -> Arquivo \cup {Nulo}] :
          arquivos' = [n \in Nome |-> IF n[1] \in ps /\ n[2] = atual[n[1]]
                                     THEN restos[n[1]] ELSE arquivos[n]]
  <2>1. PICK restos \in [ps -> Arquivo \cup {Nulo}] :
            arquivos' = [n \in Nome |-> IF n[1] \in DOMAIN restos /\ n[2] = atual[n[1]]
                                       THEN restos[n[1]] ELSE arquivos[n]]
    BY Zenon DEF Queda
  <2>2. DOMAIN restos = ps
    BY <2>1
  <2> QED BY <2>1, <2>2, Zenon
<1>3. /\ fase' = [r \in Requisicao |-> IF r \in Abertas THEN "interrompida" ELSE fase[r]]
      /\ pendentes' = [r \in Requisicao |-> [t \in Tipo |-> Nulo]]
      /\ UNCHANGED <<origens, pedido, atual, resultado>>
  BY DEF Queda
<1>4. rs \in SUBSET Requisicao /\ ps \in SUBSET Requisicao
  BY DEF Abertas
<1>5. /\ linhas' \in [Nome -> Linha \cup {Nulo}]
      /\ \A n \in Nome : linhas[n] # Nulo => linhas'[n] # Nulo
      /\ \A n \in Nome : n[1] \notin rs => linhas'[n] = linhas[n]
      /\ \A r \in rs, t \in Tipo :
            Da(linhas', r)[t] = IF pendentes[r][t] # Nulo THEN pendentes[r][t] ELSE Da(linhas, r)[t]
  BY <1>1, <1>4, PublicarTabela
<1>6. TypeOK'
  <2>1. arquivos' \in [Nome -> Arquivo \cup {Nulo}]
    BY <1>2 DEF IInv, TypeOK
  <2>2. fase' \in [Requisicao -> Fase]
    BY <1>3 DEF IInv, TypeOK, Fase
  <2> QED BY <1>3, <1>5, <2>1, <2>2 DEF IInv, TypeOK
<1>7. Situacoes'
  <2> SUFFICES ASSUME NEW s \in Requisicao PROVE Sit(s)'
    BY DEF Situacoes, Sit
  <2>1. \A t \in Tipo :
            Da(arquivos', s)[t] = IF s \in ps /\ t = atual[s] THEN restos[s] ELSE Da(arquivos, s)[t]
    BY <1>2, NomeTipo DEF Da
  <2>2. s \notin rs => \A t \in Tipo : Da(linhas', s)[t] = Da(linhas, s)[t]
    BY <1>5, NomeTipo DEF Da
  <2>3. CASE s \in Abertas
    <3>1. \A t \in Tipo : Da(arquivos', s)[t] = Da(arquivos, s)[t]
                          \/ (fase[s] = "processando" /\ t = atual[s])
      BY <2>1
    <3>2. \/ \A t \in Tipo : Da(linhas', s)[t] = Da(linhas, s)[t]
          \/ /\ fase[s] = "salva"
             /\ \A t \in Tipo : Da(arquivos', s)[t] = Da(arquivos, s)[t]
             /\ \A t \in Tipo : Da(linhas', s)[t] = IF pendentes[s][t] # Nulo THEN pendentes[s][t]
                                                    ELSE Da(linhas, s)[t]
      <4>1. CASE s \in rs
        <5>1. fase[s] = "salva" /\ s \notin ps
          BY <4>1
        <5> QED BY <1>5, <2>1, <4>1, <5>1
      <4>2. CASE s \notin rs
        BY <2>2, <4>2
      <4> QED BY <4>1, <4>2
    <3>3. Situacao("interrompida", pedido[s], atual[s], resultado[s], origens[s],
                   [t \in Tipo |-> Nulo], Da(arquivos', s), Da(linhas', s))
      BY ONLY IInv, s \in Requisicao, <2>3, <3>1, <3>2, QuedaDeUma
    <3> QED BY <1>3, <2>3, <3>3 DEF Sit
  <2>4. CASE s \notin Abertas
    <3>1. s \notin rs /\ s \notin ps
      BY <2>4
    <3>2. Sit(s) /\ pedido[s] \in Pedido \cup {Nulo}
      BY DEF IInv, Situacoes, Sit, TypeOK
    <3>3. \A t \in Tipo : pendentes[s][t] = Nulo
      BY <2>4, <3>2 DEF Sit, Situacao, SemImagem, Movimento, Upload, Abertas
    <3>4. pendentes'[s] = pendentes[s] /\ fase'[s] = fase[s]
      BY <1>3, <2>4, <3>3 DEF IInv, TypeOK
    <3>5. \A t \in Tipo : /\ Da(arquivos', s)[t] = Da(arquivos, s)[t]
                          /\ Parecida(Da(linhas, s)[t], Da(linhas', s)[t])
      BY <2>1, <2>2, <3>1 DEF Parecida
    <3>6. Situacao(fase[s], pedido[s], atual[s], resultado[s], origens[s], pendentes[s],
                   Da(arquivos', s), Da(linhas', s))
      BY <3>2, <3>5, SituacaoFica DEF Sit
    <3> QED BY <1>3, <3>4, <3>6 DEF Sit
  <2> QED BY <2>3, <2>4
<1>8. Alvos'
  <2> SUFFICES ASSUME NEW s \in Requisicao, pedido[s] # Nulo, pedido[s].op \in {"excluir", "restaurar"}
               PROVE  linhas'[pedido[s].alvo] # Nulo
    BY <1>3 DEF Alvos
  <2>1. pedido[s].alvo \in Nome /\ linhas[pedido[s].alvo] # Nulo
    BY PedidoForma DEF IInv, Alvos, TypeOK
  <2> QED BY <1>5, <2>1
<1> QED BY <1>6, <1>7, <1>8 DEF IInv

-----------------------------------------------------------------------------
(* The theorems.                                                           *)

\* At first there is neither file nor row.
LEMMA InitIndutivo == Init => IInv
<1> SUFFICES ASSUME Init PROVE IInv
  OBVIOUS
<1>1. TypeOK
  BY DEF Init, TypeOK, Fase
<1>2. Situacoes
  <2> SUFFICES ASSUME NEW r \in Requisicao PROVE Sit(r)
    BY DEF Situacoes, Sit
  <2>1. SemImagem(pendentes[r], Da(arquivos, r), Da(linhas, r))
    BY NomeTipo DEF Init, SemImagem, Da
  <2> QED BY <2>1 DEF Init, Sit, Situacao
<1>3. Alvos
  BY DEF Init, Alvos
<1> QED BY <1>1, <1>2, <1>3 DEF IInv

\* No step breaks the invariant.
LEMMA NextIndutivo == IInv /\ [Next]_vars => IInv'
<1> SUFFICES ASSUME IInv, [Next]_vars PROVE IInv'
  OBVIOUS
<1>1. CASE UNCHANGED vars
  BY <1>1 DEF vars, IInv, TypeOK, Situacoes, Alvos
<1>2. ASSUME NEW r \in Requisicao, Comeca(r) PROVE IInv'
  BY <1>2, ComecaMantem
<1>3. ASSUME NEW r \in Requisicao, Prossegue(r) PROVE IInv'
  BY <1>3, EscreverMantem, NaoEscreverMantem, InvalidarMantem, InserirMantem, DesistirMantem,
     SeguirMantem, TerminarMantem, ResponderMantem, ConfirmarMantem, DesfazerMantem,
     AlterarMantem, EncerrarMantem DEF Prossegue
<1>4. CASE Queda
  BY <1>4, QuedaMantem
<1>5. CASE Ocioso
  BY <1>1, <1>5 DEF Ocioso
<1> QED BY <1>1, <1>2, <1>3, <1>4, <1>5 DEF Next

\* IInv is inductive: in every phase of every request, through failures and stops, the
\* disk, the table and the open transaction have of its images what the phase says.
THEOREM Indutivo == Spec => []IInv
BY InitIndutivo, NextIndutivo, PTL DEF Spec

\* Every variable holds a value of its kind.
THEOREM Tipos == Spec => []TypeOK
<1>1. IInv => TypeOK
  BY DEF IInv
<1> QED BY <1>1, Indutivo, PTL

\* What IInv says of the image t of r, when there is a row or a file of it.
LEMMA DeUmaImagem ==
    ASSUME IInv, NEW r \in Requisicao, NEW t \in Tipo,
           linhas[<<r, t>>] # Nulo \/ arquivos[<<r, t>>] # Nulo
    PROVE  /\ pedido[r] \in Pedido /\ pedido[r] # Nulo
           /\ \/ /\ pedido[r].op = "movimento"
                 /\ Movimento(fase[r], pedido[r].original, atual[r], resultado[r], pendentes[r],
                              Da(arquivos, r), Da(linhas, r))
              \/ /\ pedido[r].op = "upload"
                 /\ Upload(fase[r], pedido[r].original, atual[r], resultado[r], origens[r],
                           pendentes[r], Da(arquivos, r), Da(linhas, r))
           /\ DOMAIN pedido[r].original \subseteq Tipo
<1>1. Sit(r) /\ pedido[r] \in Pedido \cup {Nulo}
  BY DEF IInv, Situacoes, Sit, TypeOK
<1>2. ~SemImagem(pendentes[r], Da(arquivos, r), Da(linhas, r))
  BY DEF SemImagem, Da
<1>3. pedido[r] # Nulo /\ pedido[r].op \in {"movimento", "upload"}
  BY <1>1, <1>2 DEF Sit, Situacao
<1> QED BY <1>1, <1>2, <1>3, PedidoForma DEF Sit, Situacao

\* Every committed row of an image tells the truth of its file, but that of an upload
\* that was refused once its row was there.
THEOREM LinhasComArquivo == Spec => []LinhaTemArquivo
<1>1. ASSUME IInv PROVE LinhaTemArquivo
  <2> SUFFICES ASSUME NEW n \in Nome, linhas[n] # Nulo
               PROVE  \/ Descreve(linhas[n], arquivos[n], pedido[n[1]].original[n[2]], Limite[n[2]])
                      \/ pedido[n[1]].op = "upload" /\ fase[n[1]] = "recusada" /\ arquivos[n] = Nulo
    BY DEF LinhaTemArquivo
  <2> DEFINE r == n[1]
             t == n[2]
             o == pedido[r].original
  <2>1. r \in Requisicao /\ t \in Tipo /\ n = <<r, t>>
    BY DEF Nome
  <2> HIDE DEF r, t
  <2>2. Da(linhas, r)[t] = linhas[n] /\ Da(arquivos, r)[t] = arquivos[n]
    BY <2>1 DEF Da
  <2>3. \/ /\ pedido[r].op = "movimento"
           /\ Movimento(fase[r], o, atual[r], resultado[r], pendentes[r], Da(arquivos, r), Da(linhas, r))
        \/ /\ pedido[r].op = "upload"
           /\ Upload(fase[r], o, atual[r], resultado[r], origens[r], pendentes[r], Da(arquivos, r), Da(linhas, r))
    BY <1>1, <2>1, DeUmaImagem
  <2> HIDE DEF o
  <2>4. \/ Conta(linhas[n], arquivos[n], o, t)
        \/ pedido[r].op = "upload" /\ fase[r] = "recusada" /\ arquivos[n] = Nulo
    <3>1. CASE Movimento(fase[r], o, atual[r], resultado[r], pendentes[r], Da(arquivos, r), Da(linhas, r))
      BY <2>1, <2>2, <3>1 DEF Movimento
    <3>2. CASE /\ pedido[r].op = "upload"
               /\ Upload(fase[r], o, atual[r], resultado[r], origens[r], pendentes[r], Da(arquivos, r), Da(linhas, r))
      BY <2>1, <2>2, <3>2 DEF Upload, Tipo
    <3> QED BY <2>3, <3>1, <3>2
  <2> QED BY <2>4 DEF Conta, r, t, o
<1> QED BY <1>1, Indutivo, PTL

\* A file that no row names is of a request under way or of one of the failures named.
THEOREM SobrasSoDeFalha == Spec => []SobraSoDeFalha
<1>1. ASSUME IInv PROVE SobraSoDeFalha
  <2> SUFFICES ASSUME NEW n \in Nome
               PROVE  /\ arquivos[n] # Nulo /\ linhas[n] = Nulo =>
                            \/ n[1] \in Abertas
                            \/ fase[n[1]] \in {"desfeita", "nao_escrita", "interrompida", "nao_apagada"}
                            \/ fase[n[1]] = "recusada" /\ n[2] # atual[n[1]]
                      /\ origens[n[1]] # Nulo =>
                            n[1] \in Abertas
                            \/ fase[n[1]] \in {"desfeita", "nao_escrita", "interrompida"}
    BY DEF SobraSoDeFalha
  <2> DEFINE r == n[1]
             t == n[2]
             o == pedido[r].original
  <2>1. r \in Requisicao /\ t \in Tipo /\ n = <<r, t>>
    BY DEF Nome
  <2>2. Sit(r) /\ fase[r] \in Fase
    BY <1>1, <2>1 DEF IInv, TypeOK, Situacoes, Sit
  <2> HIDE DEF r, t
  <2>3. Da(linhas, r)[t] = linhas[n] /\ Da(arquivos, r)[t] = arquivos[n]
    BY <2>1 DEF Da
  <2>4. ASSUME arquivos[n] # Nulo, linhas[n] = Nulo
        PROVE  \/ r \in Abertas
               \/ fase[r] \in {"desfeita", "nao_escrita", "interrompida", "nao_apagada"}
               \/ fase[r] = "recusada" /\ t # atual[r]
    <3>1. \/ /\ pedido[r].op = "movimento"
             /\ Movimento(fase[r], o, atual[r], resultado[r], pendentes[r], Da(arquivos, r), Da(linhas, r))
          \/ /\ pedido[r].op = "upload"
             /\ Upload(fase[r], o, atual[r], resultado[r], origens[r], pendentes[r], Da(arquivos, r), Da(linhas, r))
      BY <1>1, <2>1, <2>4, DeUmaImagem
    <3> HIDE DEF o
    <3>2. CASE Movimento(fase[r], o, atual[r], resultado[r], pendentes[r], Da(arquivos, r), Da(linhas, r))
      <4>1. t \in DOMAIN o
        BY <2>1, <2>3, <2>4, <3>2 DEF Movimento
      <4>2. fase[r] # "respondida"
        BY <2>3, <2>4, <3>2, <4>1, NuloEhOutro DEF Movimento, Conta
      <4>3. fase[r] = "recusada" => t # atual[r]
        BY <2>3, <2>4, <3>2 DEF Movimento
      <4> QED BY <2>1, <3>2, <4>2, <4>3 DEF Movimento, Abertas
    <3>3. CASE Upload(fase[r], o, atual[r], resultado[r], origens[r], pendentes[r], Da(arquivos, r), Da(linhas, r))
      <4>1. t = "comum"
        BY <2>1, <2>3, <2>4, <3>3 DEF Upload, Tipo
      <4>2. fase[r] \notin {"respondida", "recusada"}
        BY <2>3, <2>4, <3>3, <4>1, NuloEhOutro DEF Upload, Conta
      <4> QED BY <2>1, <3>3, <4>2 DEF Upload, Abertas
    <3> QED BY <3>1, <3>2, <3>3
  <2>5. ASSUME origens[r] # Nulo
        PROVE  r \in Abertas \/ fase[r] \in {"desfeita", "nao_escrita", "interrompida"}
    BY <2>1, <2>2, <2>5 DEF Sit, Situacao, Upload, Abertas
  <2> QED BY <2>4, <2>5 DEF r, t
<1> QED BY <1>1, Indutivo, PTL

\* The images of a movement are committed all or none.
THEOREM TudoOuNadaVale == Spec => []TudoOuNada
<1>1. ASSUME IInv PROVE TudoOuNada
  <2> SUFFICES ASSUME NEW r \in Requisicao, pedido[r] # Nulo, pedido[r].op = "movimento"
               PROVE  LET confirmadas == {t \in Tipo : linhas[<<r, t>>] # Nulo}
                      IN  /\ confirmadas \in {{}, DOMAIN pedido[r].original}
                          /\ fase[r] = "respondida" => confirmadas # {}
                          /\ r \in Abertas => confirmadas = {}
    BY DEF TudoOuNada
  <2> DEFINE o == pedido[r].original
             confirmadas == {t \in Tipo : linhas[<<r, t>>] # Nulo}
  <2>1. Movimento(fase[r], o, atual[r], resultado[r], pendentes[r], Da(arquivos, r), Da(linhas, r))
    BY <1>1 DEF IInv, Situacoes, Situacao
  <2>2. DOMAIN o \subseteq Tipo
    BY <1>1, PedidoForma DEF IInv, TypeOK
  <2>3. \A t \in Tipo : Da(linhas, r)[t] = linhas[<<r, t>>]
    BY DEF Da
  <2> HIDE DEF o
  <2>4. CASE \A t \in Tipo : linhas[<<r, t>>] = Nulo
    <3>1. fase[r] # "respondida"
      <4>1. SUFFICES ASSUME fase[r] = "respondida" PROVE FALSE
        OBVIOUS
      <4>2. /\ atual[r] \in DOMAIN o
            /\ \A t \in DOMAIN o : Conta(Da(linhas, r)[t], Da(arquivos, r)[t], o, t)
        BY <2>1, <4>1 DEF Movimento
      <4>3. atual[r] \in Tipo
        BY <2>2, <4>2
      <4>4. Da(linhas, r)[atual[r]] = Nulo
        BY <2>3, <2>4, <4>3
      <4>5. Da(linhas, r)[atual[r]] \in Linha
        BY <4>2 DEF Conta
      <4> QED BY <4>4, <4>5, NuloEhOutro
    <3> QED BY <2>4, <3>1 DEF o
  <2>5. CASE \E t \in Tipo : linhas[<<r, t>>] # Nulo
    <3>1. /\ fase[r] \in {"respondida", "desfeita", "interrompida"}
          /\ \A t \in DOMAIN o : Conta(Da(linhas, r)[t], Da(arquivos, r)[t], o, t)
      BY <2>1, <2>2, <2>3, <2>5 DEF Movimento
    <3>2. \A t \in Tipo : linhas[<<r, t>>] # Nulo <=> t \in DOMAIN o
      BY <2>1, <2>2, <2>3, <3>1, NuloEhOutro DEF Movimento, Conta
    <3>3. confirmadas = DOMAIN o
      BY <2>2, <3>2
    <3>4. r \notin Abertas
      BY <3>1 DEF Abertas
    <3> QED BY <2>5, <3>3, <3>4 DEF o
  <2> QED BY <2>4, <2>5
<1> QED BY <1>1, Indutivo, PTL

=============================================================================
