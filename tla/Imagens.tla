------------------------------- MODULE Imagens -------------------------------
(***************************************************************************)
(* The photographs of the parcels: a file on disk and a row of imagens for *)
(* each (imagens.service.ts, processamento-imagem.util.ts).                *)
(*                                                                         *)
(* A movement of a parcel saves up to two of them, of the parcel and of a  *)
(* damage, inside its transaction: each file is written before its row,    *)
(* and the rest of the movement comes after. The multipart route saves one *)
(* without a transaction, from a file that multer has put on disk already. *)
(* Removal and restoration only change the row. The disk takes no part in  *)
(* any rollback, and the process may stop at any step.                     *)
(*                                                                         *)
(* Of an image only its longest side is kept. Its row and file are named   *)
(* by the request that brought it and by its kind. Formats, metadata, the  *)
(* parcel referred to and who did it are left out.                         *)
(***************************************************************************)
EXTENDS Naturals, FiniteSets

CONSTANTS
    Requisicao,    \* the requests of the workload
    Nulo,          \* no file, no row, no value
    LadoMaximo,    \* the longest side of an image sent (a bound)
    Limite,        \* kind |-> the longest side stored without reduction
    Gravacoes,     \* how many requests may bring images (a bound)
    Simultaneas    \* how many requests may be under way at a time (a bound)

Tipo == {"comum", "dano"}
Nome == Requisicao \X Tipo
Lado == 1..LadoMaximo

ASSUME Valores == /\ {LadoMaximo, Gravacoes, Simultaneas} \subseteq Nat
                  /\ Limite \in [Tipo -> Nat \ {0}]
                  /\ Nulo \notin Nat

\* A file is an image of that side; 0 is the part that a failed write has left.
Arquivo == 0..LadoMaximo
Linha == [lado: Lado \cup {Nulo}, comprimida: BOOLEAN, removida: BOOLEAN]
\* What processarImagem returns: the side stored, the side measured, whether reduced.
Resultado == [gravado: Lado, medido: Lado \cup {Nulo}, comprimida: BOOLEAN]

ASSUME NuloEhOutro == Nulo \notin Arquivo /\ Nulo \notin Linha /\ Nulo \notin Resultado

\* The longest side of each image that a request brings.
Originais == UNION {[ts -> Lado] : ts \in (SUBSET Tipo) \ {{}}}

Pedido == [op: {"movimento", "upload"}, original: Originais]
          \cup [op: {"excluir", "restaurar"}, alvo: Nome]

ASSUME NuloNaoEhPedido == Nulo \notin Pedido

VARIABLES
    arquivos,      \* name |-> the file in its directory of the day
    origens,       \* upload |-> the file that multer has left
    linhas,        \* name |-> its committed row
    fase,          \* request |-> how far it is
    pedido,        \* request |-> what it asks for
    atual,         \* request |-> the kind of image it is at
    resultado,     \* request |-> that image as processed
    pendentes      \* movement |-> the kinds inserted and not committed, with their rows

vars == <<arquivos, origens, linhas, fase, pedido, atual, resultado, pendentes>>
disco == <<arquivos, origens>>
locais == <<pedido, atual, resultado, pendentes>>

Fase == {"nova", "processando", "gravada", "inserida", "salva", "lida", "alterada",
         "respondida", "recusada", "nao_apagada", "desfeita", "nao_escrita", "interrompida"}
Abertas == {r \in Requisicao :
               fase[r] \in {"processando", "gravada", "inserida", "salva", "lida", "alterada"}}

Init ==
    /\ arquivos = [n \in Nome |-> Nulo]
    /\ origens = [r \in Requisicao |-> Nulo]
    /\ linhas = [n \in Nome |-> Nulo]
    /\ fase = [r \in Requisicao |-> "nova"]
    /\ pedido = [r \in Requisicao |-> Nulo]
    /\ atual = [r \in Requisicao |-> Nulo]
    /\ resultado = [r \in Requisicao |-> Nulo]
    /\ pendentes = [r \in Requisicao |-> [t \in Tipo |-> Nulo]]

-----------------------------------------------------------------------------
(* Opening.                                                                *)

Abrir(r, p, tipo, a) ==
    /\ fase[r] = "nova"
    /\ Cardinality(Abertas) < Simultaneas
    /\ fase' = [fase EXCEPT ![r] = a]
    /\ pedido' = [pedido EXCEPT ![r] = p]
    /\ atual' = [atual EXCEPT ![r] = tipo]
    /\ UNCHANGED <<arquivos, linhas, resultado, pendentes>>

\* Requests that bring images, so far.
Gravadoras == {r \in Requisicao : pedido[r] # Nulo /\ pedido[r].op \in {"movimento", "upload"}}

\* The parcel is written in the transaction and its first image comes up.
AbrirMovimento(r) ==
    /\ Cardinality(Gravadoras) < Gravacoes
    /\ \E o \in Originais :
          Abrir(r, [op |-> "movimento", original |-> o],
                IF "comum" \in DOMAIN o THEN "comum" ELSE "dano", "processando")
    /\ UNCHANGED origens

\* multer stores the file before the body is validated.
AbrirUpload(r) ==
    /\ Cardinality(Gravadoras) < Gravacoes
    /\ \E o \in [{"comum"} -> Lado] :
          /\ Abrir(r, [op |-> "upload", original |-> o], "comum", "processando")
          /\ origens' = [origens EXCEPT ![r] = o["comum"]]

\* findOne of excluir: the row has to be there and not removed.
LerExclusao(r, n) ==
    /\ linhas[n] # Nulo /\ ~linhas[n].removida
    /\ Abrir(r, [op |-> "excluir", alvo |-> n], Nulo, "lida")
    /\ UNCHANGED origens

LerRestauro(r, n) ==
    /\ linhas[n] # Nulo /\ linhas[n].removida
    /\ Abrir(r, [op |-> "restaurar", alvo |-> n], Nulo, "lida")
    /\ UNCHANGED origens

-----------------------------------------------------------------------------
(* Saving an image.                                                        *)

Passo(r, de, a) == fase[r] = de /\ fase' = [fase EXCEPT ![r] = a]

\* Mutant of Processar: a failure of the reduction is told as a reduction.
Processar_Otimista(original, tipo) ==
    {[gravado |-> original, medido |-> IF original > Limite[tipo] THEN Limite[tipo] ELSE original,
      comprimida |-> original > Limite[tipo]]}

\* processarImagem: the image at its limit, as it came when it is within it, or
\* as it came and not measured when sharp fails at any point.
Processar(original, tipo) ==
    {[gravado |-> original, medido |-> Nulo, comprimida |-> FALSE]}
    \cup IF original > Limite[tipo]
         THEN {[gravado |-> Limite[tipo], medido |-> Limite[tipo], comprimida |-> TRUE]}
         ELSE {[gravado |-> original, medido |-> original, comprimida |-> FALSE]}

\* writeFileSync once processed and, of an upload, the unlink of multer's file.
Escrever(r) ==
    /\ Passo(r, "processando", "gravada")
    /\ \E p \in Processar(pedido[r].original[atual[r]], atual[r]) :
          /\ arquivos' = [arquivos EXCEPT ![<<r, atual[r]>>] = p.gravado]
          /\ resultado' = [resultado EXCEPT ![r] = p]
    /\ origens' = [origens EXCEPT ![r] = Nulo]
    /\ UNCHANGED <<linhas, pedido, atual, pendentes>>

\* What there may be of the image that r is at before its writing is over: nothing, a
\* part, or the whole of an upload whose multer file is not deleted yet.
Restos(r) ==
    {Nulo, 0} \cup IF pedido[r].op = "upload"
                  THEN {p.gravado : p \in Processar(pedido[r].original[atual[r]], atual[r])}
                  ELSE {}

\* writeFileSync or unlinkSync fails, outside the try. The transaction of a movement
\* rolls back.
NaoEscrever(r) ==
    /\ Passo(r, "processando", "nao_escrita")
    /\ \E f \in Restos(r) : arquivos' = [arquivos EXCEPT ![<<r, atual[r]>>] = f]
    /\ pendentes' = [pendentes EXCEPT ![r] = [t \in Tipo |-> Nulo]]
    /\ UNCHANGED <<origens, linhas, pedido, atual, resultado>>

\* Type, extension, size, emptiness or body refused: before anything is written of
\* this image, after all of the one before it.
Invalidar(r) ==
    /\ Passo(r, "processando", "desfeita")
    /\ pendentes' = [pendentes EXCEPT ![r] = [t \in Tipo |-> Nulo]]
    /\ UNCHANGED <<disco, linhas, pedido, atual, resultado>>

\* The row persistir writes, with what was measured of the file.
NovaLinha(r) ==
    [lado |-> resultado[r].medido, comprimida |-> resultado[r].comprimida, removida |-> FALSE]

\* Mutant of Inserir: the transaction is not handed on to the images.
Inserir_SemTrx(r) ==
    /\ Passo(r, "gravada", "inserida")
    /\ linhas' = [linhas EXCEPT ![<<r, atual[r]>>] = NovaLinha(r)]
    /\ UNCHANGED <<disco, locais>>

\* INSERT: in the transaction of the movement, or committed at once.
Inserir(r) ==
    /\ Passo(r, "gravada", "inserida")
    /\ IF pedido[r].op = "movimento"
       THEN /\ pendentes' = [pendentes EXCEPT ![r][atual[r]] = NovaLinha(r)]
            /\ UNCHANGED linhas
       ELSE /\ linhas' = [linhas EXCEPT ![<<r, atual[r]>>] = NovaLinha(r)]
            /\ UNCHANGED pendentes
    /\ UNCHANGED <<disco, pedido, atual, resultado>>

\* Mutant of Desistir: what failed is thrown without removing the file.
Desistir_SemApagar(r) ==
    /\ Passo(r, fase[r], "recusada")
    /\ fase[r] \in {"gravada", "inserida"}
    /\ pendentes' = [pendentes EXCEPT ![r] = [t \in Tipo |-> Nulo]]
    /\ UNCHANGED <<disco, linhas, pedido, atual, resultado>>

\* INSERT or the findOne after it fails: the file of this image is removed, unless
\* unlinkSync fails as well, and the transaction of a movement rolls back. Of an upload
\* the INSERT may be there.
Desistir(r) ==
    /\ fase[r] \in {"gravada", "inserida"}
    /\ \/ /\ Passo(r, fase[r], "recusada")
          /\ arquivos' = [arquivos EXCEPT ![<<r, atual[r]>>] = Nulo]
       \/ /\ Passo(r, fase[r], "nao_apagada")
          /\ UNCHANGED arquivos
    /\ pendentes' = [pendentes EXCEPT ![r] = [t \in Tipo |-> Nulo]]
    /\ UNCHANGED <<origens, linhas, pedido, atual, resultado>>

\* findOne gives the row back and the damage comes up, if there is one.
Seguir(r) ==
    /\ Passo(r, "inserida", "processando")
    /\ pedido[r].op = "movimento"
    /\ atual[r] = "comum" /\ "dano" \in DOMAIN pedido[r].original
    /\ atual' = [atual EXCEPT ![r] = "dano"]
    /\ UNCHANGED <<disco, linhas, pedido, resultado, pendentes>>

\* The last image of the movement is saved: events, notices and audit remain.
Terminar(r) ==
    /\ Passo(r, "inserida", "salva")
    /\ pedido[r].op = "movimento"
    /\ atual[r] = "dano" \/ "dano" \notin DOMAIN pedido[r].original
    /\ UNCHANGED <<disco, linhas, locais>>

\* findOne of an upload finds the row, still not removed: 201.
Responder(r) ==
    /\ Passo(r, "inserida", "respondida")
    /\ pedido[r].op = "upload"
    /\ ~linhas[<<r, "comum">>].removida
    /\ UNCHANGED <<disco, linhas, locais>>

-----------------------------------------------------------------------------
(* The end of the movement.                                                *)

\* The rows that the commit of the movements rs makes visible.
Publicar(rs) ==
    [n \in Nome |-> IF n[1] \in rs /\ pendentes[n[1]][n[2]] # Nulo
                    THEN pendentes[n[1]][n[2]] ELSE linhas[n]]

\* COMMIT, whose answer may be lost: the caller is then told of a failure.
Confirmar(r) ==
    /\ \E a \in {"respondida", "desfeita"} : Passo(r, "salva", a)
    /\ linhas' = Publicar({r})
    /\ pendentes' = [pendentes EXCEPT ![r] = [t \in Tipo |-> Nulo]]
    /\ UNCHANGED <<disco, pedido, atual, resultado>>

\* A later step of the movement refuses or fails: the files stay.
Desfazer(r) ==
    /\ Passo(r, "salva", "desfeita")
    /\ pendentes' = [pendentes EXCEPT ![r] = [t \in Tipo |-> Nulo]]
    /\ UNCHANGED <<disco, linhas, pedido, atual, resultado>>

-----------------------------------------------------------------------------
(* Removing and restoring.                                                 *)

\* UPDATE by uuid, whatever has become of the row; a restoration reads it again.
Alterar(r) ==
    LET exclui == pedido[r].op = "excluir"
    IN  /\ fase[r] = "lida"
        /\ fase' = [fase EXCEPT ![r] = IF exclui THEN "respondida" ELSE "alterada"]
        /\ linhas' = [linhas EXCEPT ![pedido[r].alvo].removida = exclui]
        /\ UNCHANGED <<disco, locais>>

\* The read at the end of a restoration, or a failure of any of its statements.
Encerrar(r) ==
    /\ fase[r] \in {"lida", "alterada"}
    /\ fase' = [fase EXCEPT ![r] =
                    IF fase[r] = "lida" \/ linhas[pedido[r].alvo].removida
                    THEN "recusada" ELSE "respondida"]
    /\ UNCHANGED <<disco, linhas, locais>>

\* The process stops: what was under way ends, in the middle of a write perhaps, and
\* a COMMIT on its way may arrive.
Queda ==
    /\ Abertas # {}
    /\ \E rs \in SUBSET {r \in Abertas : fase[r] = "salva"} : linhas' = Publicar(rs)
    /\ \E restos \in [{r \in Abertas : fase[r] = "processando"} -> Arquivo \cup {Nulo}] :
          /\ \A r \in DOMAIN restos : restos[r] \in Restos(r)
          /\ arquivos' = [n \in Nome |-> IF n[1] \in DOMAIN restos /\ n[2] = atual[n[1]]
                                         THEN restos[n[1]] ELSE arquivos[n]]
    /\ fase' = [r \in Requisicao |-> IF r \in Abertas THEN "interrompida" ELSE fase[r]]
    /\ pendentes' = [r \in Requisicao |-> [t \in Tipo |-> Nulo]]
    /\ UNCHANGED <<origens, pedido, atual, resultado>>

Ocioso == Abertas = {} /\ UNCHANGED vars

Comeca(r) ==
    \/ AbrirMovimento(r) \/ AbrirUpload(r)
    \/ \E n \in Nome : LerExclusao(r, n) \/ LerRestauro(r, n)

Prossegue(r) ==
    \/ Escrever(r) \/ NaoEscrever(r) \/ Invalidar(r) \/ Inserir(r) \/ Desistir(r)
    \/ Seguir(r) \/ Terminar(r) \/ Responder(r) \/ Confirmar(r) \/ Desfazer(r)
    \/ Alterar(r) \/ Encerrar(r)

Next ==
    \/ \E r \in Requisicao : Comeca(r) \/ Prossegue(r)
    \/ Queda
    \/ Ocioso

Spec == Init /\ [][Next]_vars

-----------------------------------------------------------------------------
(* Properties.                                                             *)

\* Every variable holds a value of its kind.
TypeOK ==
    /\ arquivos \in [Nome -> Arquivo \cup {Nulo}]
    /\ origens \in [Requisicao -> Lado \cup {Nulo}]
    /\ linhas \in [Nome -> Linha \cup {Nulo}]
    /\ fase \in [Requisicao -> Fase]
    /\ pedido \in [Requisicao -> Pedido \cup {Nulo}]
    /\ atual \in [Requisicao -> Tipo \cup {Nulo}]
    /\ resultado \in [Requisicao -> Resultado \cup {Nulo}]
    /\ pendentes \in [Requisicao -> [Tipo -> Linha \cup {Nulo}]]

\* A row tells the truth of its file.
Descreve(linha, arquivo, original, limite) ==
    /\ linha.lado \in {arquivo, Nulo}
    /\ linha.comprimida <=> arquivo # original
    /\ linha.lado # Nulo => arquivo <= limite

\* Every image of a movement that was committed, whatever came of its answer, has
\* its file, and its row tells its size; so has every image of an upload. Only an
\* upload that was refused after its row was there leaves a row without a file,
\* which a restoration may even bring back to the lists.
LinhaTemArquivo ==
    \A n \in Nome : linhas[n] # Nulo =>
        \/ Descreve(linhas[n], arquivos[n], pedido[n[1]].original[n[2]], Limite[n[2]])
        \/ pedido[n[1]].op = "upload" /\ fase[n[1]] = "recusada" /\ arquivos[n] = Nulo

\* A file that no row names is of a request still under way, of a movement undone
\* after the image was saved, of a failed write, of a process that stopped or of a
\* clean-up that failed too. An image whose own row was refused and whose clean-up
\* went well leaves none; the one before it does.
SobraSoDeFalha ==
    \A n \in Nome :
        LET r == n[1]
        IN  /\ arquivos[n] # Nulo /\ linhas[n] = Nulo =>
                  \/ r \in Abertas
                  \/ fase[r] \in {"desfeita", "nao_escrita", "interrompida", "nao_apagada"}
                  \/ fase[r] = "recusada" /\ n[2] # atual[r]
            /\ origens[r] # Nulo =>
                  r \in Abertas \/ fase[r] \in {"desfeita", "nao_escrita", "interrompida"}

\* The images of a movement are committed all or none, all when it was answered and
\* none while it is under way.
TudoOuNada ==
    \A r \in Requisicao : pedido[r] # Nulo /\ pedido[r].op = "movimento" =>
        LET confirmadas == {t \in Tipo : linhas[<<r, t>>] # Nulo}
        IN  /\ confirmadas \in {{}, DOMAIN pedido[r].original}
            /\ fase[r] = "respondida" => confirmadas # {}
            /\ r \in Abertas => confirmadas = {}

=============================================================================
