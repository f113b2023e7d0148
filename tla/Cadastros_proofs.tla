--------------------------- MODULE Cadastros_proofs ---------------------------
(***************************************************************************)
(* Proofs about Cadastros, for any rows, values, requests and size of the  *)
(* pool.                                                                   *)
(*                                                                         *)
(* Both action properties speak of a COMMIT and of what the transaction    *)
(* did before it. The row lock is what makes the two agree: the row that a *)
(* transaction has written stays its statement applied to the committed    *)
(* row (Escritas), because nobody else writes that row meanwhile           *)
(* (Trancas). A row that is not there any more was hard-removed by a       *)
(* request whose audit row is committed (Apagadas).                        *)
(*                                                                         *)
(* The third, on the pool, needs to know of each connection that is lent   *)
(* in which phase its request is (Posses). When the pool is exhausted for  *)
(* good, each is held by a request that waits in the queue (Filas), so it  *)
(* is one of a transaction that has asked for another to read through:     *)
(* from the connections to these requests there is an injection.           *)
(***************************************************************************)
EXTENDS Cadastros, SequenceTheorems, FiniteSetTheorems, TLAPS

-----------------------------------------------------------------------------
(* The inductive invariant.                                                *)

Cadastro == {"create", "update", "remove", "restore", "hardRemove"}

\* What TypeOK says but of the connections.
Tabelas ==
    /\ registros \in [Registro -> Linha \cup {Nulo}]
    /\ auditoria \subseteq Requisicao
    /\ fase \in [Requisicao -> Fase]
    /\ pedido \in [Requisicao -> Pedido \cup {Nulo}]
    /\ visto \in [Requisicao -> Linha \cup {Nulo}]
    /\ novo \in [Requisicao -> Linha \cup {Nulo}]
    /\ fila \in Seq(Requisicao)

\* Each request waits once, and where it asked for a connection.
Filas ==
    /\ \A i \in DOMAIN fila : fase[fila[i]] \in {"espera_trx", "espera_leitura"}
    /\ \A i, j \in DOMAIN fila : fila[i] = fila[j] => i = j

\* What a request asks for bounds how far it goes.
Fases ==
    \A r \in Requisicao :
        /\ fase[r] # "nova" => pedido[r] # Nulo
        /\ fase[r] \in {"escrita", "auditada"} => pedido[r].op \in Cadastro
        /\ pedido[r] # Nulo /\ pedido[r].op = "leitura" =>
              fase[r] \in {"espera_leitura", "lendo", "respondida", "recusada"}
        /\ pedido[r] # Nulo /\ pedido[r].op = "create" => pedido[r].alvo = r
        /\ r \in auditoria => fase[r] = "respondida"

\* The row of a create is there only once the create was answered, and nobody asks
\* for it before.
Criacoes ==
    /\ \A g \in Requisicao : registros[g] # Nulo => fase[g] = "respondida"
    /\ \A r \in Requisicao :
          /\ pedido[r] # Nulo /\ pedido[r].op \in Cadastro \ {"create"}
          /\ pedido[r].alvo \in Requisicao
          => fase[pedido[r].alvo] = "respondida"

\* One writer of a row at a time.
Trancas ==
    \A r, s \in Requisicao :
        r # s /\ fase[r] \in {"escrita", "auditada"} /\ fase[s] \in {"escrita", "auditada"} =>
            pedido[r].alvo # pedido[s].alvo

\* The row l after the statement of p.
Efeito(p, l) ==
    CASE p.op = "create" -> [chave |-> p.chave, removida |-> FALSE]
      [] p.op = "update" /\ l # Nulo -> [l EXCEPT !.chave = IF p.chave = Nulo THEN @ ELSE p.chave]
      [] p.op = "remove" /\ l # Nulo -> [l EXCEPT !.removida = TRUE]
      [] p.op = "restore" /\ l # Nulo -> [l EXCEPT !.removida = FALSE]
      [] OTHER -> Nulo

\* What was written is the statement on the row as committed, and what was read again
\* is not removed.
Escritas ==
    \A r \in Requisicao :
        /\ fase[r] \in {"escrita", "auditada"} => novo[r] = Efeito(pedido[r], registros[pedido[r].alvo])
        /\ fase[r] = "auditada" /\ pedido[r].op \in {"create", "update", "restore"} /\ novo[r] # Nulo =>
              ~novo[r].removida

\* The hardRemove of g.
Apagar(g) == [op |-> "hardRemove", alvo |-> g, chave |-> Nulo]

\* A row that somebody has asked for and that is gone was hard-removed, as the audit
\* trail says.
Apagadas ==
    \A r \in Requisicao :
        /\ pedido[r] # Nulo /\ pedido[r].op \in Cadastro \ {"create"}
        /\ registros[pedido[r].alvo] = Nulo
        => \E s \in auditoria : pedido[s] = Apagar(pedido[r].alvo)

IInv == Tabelas /\ Filas /\ Fases /\ Criacoes /\ Trancas /\ Escritas /\ Apagadas

\* Who may hold a connection for a transaction.
EmTransacao == {"iniciada", "espera_leitura", "lendo", "lida", "conferida", "escrita", "auditada"}

\* Each connection that is lent is held where its use is, and a request that waits to
\* read through the pool is one that does so.
Posses ==
    /\ posse \subseteq Requisicao \X Uso
    /\ IsFiniteSet(posse) /\ Cardinality(posse) <= Maximo
    /\ IsFiniteSet(Abertas)
    /\ \A r \in Requisicao :
          /\ <<r, "trx">> \in posse => fase[r] \in EmTransacao /\ pedido[r].op # "leitura"
          /\ <<r, "leitura">> \in posse => fase[r] = "lendo"
          /\ fase[r] = "espera_leitura" => Aninhada(r) \/ pedido[r].op = "leitura"

-----------------------------------------------------------------------------
(* The queue.                                                              *)

Espera == {"espera_trx", "espera_leitura"}

\* Without its i-th element a sequence keeps the others in their order.
LEMMA SemUm ==
    ASSUME NEW s \in Seq(Requisicao), NEW i \in DOMAIN s
    PROVE  /\ RemoveAt(s, i) \in Seq(Requisicao)
           /\ Len(RemoveAt(s, i)) = Len(s) - 1
           /\ \A j \in DOMAIN RemoveAt(s, i) : RemoveAt(s, i)[j] = s[IF j < i THEN j ELSE j + 1]
<1>1. i \in 1..Len(s) /\ Len(s) \in Nat
  OBVIOUS
<1>2. SubSeq(s, 1, i - 1) \in Seq(Requisicao) /\ Len(SubSeq(s, 1, i - 1)) = i - 1
      /\ \A j \in 1..(i - 1) : SubSeq(s, 1, i - 1)[j] = s[j]
  BY <1>1
<1>3. SubSeq(s, i + 1, Len(s)) \in Seq(Requisicao) /\ Len(SubSeq(s, i + 1, Len(s))) = Len(s) - i
      /\ \A j \in 1..(Len(s) - i) : SubSeq(s, i + 1, Len(s))[j] = s[i + j]
  BY <1>1
<1> DEFINE a == SubSeq(s, 1, i - 1)
           b == SubSeq(s, i + 1, Len(s))
<1>4. RemoveAt(s, i) = a \o b
  BY DEF RemoveAt
<1> HIDE DEF a, b
<1>5. a \in Seq(Requisicao) /\ b \in Seq(Requisicao) /\ Len(a) = i - 1 /\ Len(b) = Len(s) - i
      /\ \A j \in 1..(i - 1) : a[j] = s[j]
  BY <1>2, <1>3 DEF a, b
<1>10. \A j \in 1..(Len(s) - i) : b[j] = s[i + j]
  BY <1>3 DEF b
<1>6. /\ a \o b \in Seq(Requisicao) /\ Len(a \o b) = Len(a) + Len(b)
      /\ \A j \in 1..(Len(a) + Len(b)) : (a \o b)[j] = IF j <= Len(a) THEN a[j] ELSE b[j - Len(a)]
  BY ONLY <1>5, ConcatProperties
<1>7. Len(a) + Len(b) = Len(s) - 1 /\ Len(s) - 1 \in Nat
  BY <1>1, <1>5
<1>8. \A j \in 1..(Len(s) - 1) : (a \o b)[j] = s[IF j < i THEN j ELSE j + 1]
  <2> TAKE j \in 1..(Len(s) - 1)
  <2>1. CASE j < i
    <3>1. j \in 1..(i - 1) /\ j <= Len(a)
      BY <1>1, <1>5, <2>1
    <3> QED BY <1>5, <1>6, <1>7, <2>1, <3>1
  <2>2. CASE ~(j < i)
    <3>1. /\ ~(j <= Len(a)) /\ j - Len(a) = j - i + 1
          /\ j - i + 1 \in 1..(Len(s) - i) /\ i + (j - i + 1) = j + 1
      BY <1>1, <1>5, <2>2
    <3>2. (a \o b)[j] = b[j - i + 1]
      BY <1>6, <1>7, <3>1
    <3>3. PICK k \in 1..(Len(s) - i) : k = j - i + 1 /\ i + k = j + 1
      BY <3>1
    <3>4. b[k] = s[i + k]
      BY ONLY <1>10, Zenon
    <3>5. b[j - i + 1] = s[j + 1]
      BY ONLY <3>3, <3>4
    <3> QED BY <2>2, <3>2, <3>5
  <2> QED BY <2>1, <2>2
<1>9. DOMAIN (a \o b) = 1..(Len(s) - 1)
  BY <1>6, <1>7
<1> QED BY <1>4, <1>6, <1>7, <1>8, <1>9

\* Who does not wait is not in the queue.
LEMMA ForaDaFila ==
    ASSUME Tabelas, Filas, NEW r \in Requisicao, fase[r] \notin Espera
    PROVE  \A i \in DOMAIN fila : fila[i] # r
BY DEF Filas, Espera

\* Nobody enters or leaves, and only r moves on, who was not there.
LEMMA FilaParada ==
    ASSUME Tabelas, Filas, NEW r \in Requisicao, fase[r] \notin Espera, fila' = fila,
           \A s \in Requisicao : s # r => fase'[s] = fase[s]
    PROVE  Filas' /\ (fila \in Seq(Requisicao))'
<1>1. \A i \in DOMAIN fila : fila[i] \in Requisicao /\ fila[i] # r
  BY ForaDaFila DEF Tabelas
<1> QED BY <1>1 DEF Filas, Tabelas

\* r asks for a connection: it has it, or waits at the end of the queue.
LEMMA FilaPedir ==
    ASSUME Tabelas, Filas, NEW r \in Requisicao, NEW uso, fase[r] \notin Espera, Pedir(r, uso),
           ~HaLivre => fase'[r] \in Espera,
           \A s \in Requisicao : s # r => fase'[s] = fase[s]
    PROVE  Filas' /\ (fila \in Seq(Requisicao))'
<1>1. CASE HaLivre
  BY <1>1, FilaParada DEF Pedir
<1>2. CASE ~HaLivre
  <2>1. fila' = Append(fila, r) /\ fila \in Seq(Requisicao)
    BY <1>2 DEF Pedir, Tabelas
  <2>2. \A i \in DOMAIN fila : fila[i] \in Requisicao /\ fila[i] # r
    BY ForaDaFila DEF Tabelas
  <2>3. /\ fila' \in Seq(Requisicao) /\ Len(fila') = Len(fila) + 1
        /\ \A i \in DOMAIN fila : fila'[i] = fila[i]
        /\ fila'[Len(fila) + 1] = r
    BY <2>1
  <2>4. \A i \in DOMAIN fila' : i \in DOMAIN fila \/ i = Len(fila) + 1
    BY <2>1, <2>3
  <2>5. \A i \in DOMAIN fila' : fase'[fila'[i]] \in Espera
    BY <1>2, <2>2, <2>3, <2>4 DEF Filas, Espera
  <2>6. \A i, j \in DOMAIN fila' : fila'[i] = fila'[j] => i = j
    BY <2>2, <2>3, <2>4 DEF Filas
  <2> QED BY <2>3, <2>5, <2>6 DEF Filas, Espera
<1> QED BY <1>1, <1>2

\* The first of the queue goes on.
LEMMA FilaAtender ==
    ASSUME Tabelas, Filas, NEW r \in Requisicao, NEW uso, Atender(r, uso),
           \A s \in Requisicao : s # r => fase'[s] = fase[s]
    PROVE  Filas' /\ (fila \in Seq(Requisicao))' /\ fase[r] \in Espera
<1>1. fila \in Seq(Requisicao) /\ fila # <<>> /\ r = fila[1] /\ fila' = Tail(fila)
  BY DEF Atender, Tabelas
<1>2. /\ fila' \in Seq(Requisicao) /\ 1 \in DOMAIN fila
      /\ \A i \in DOMAIN fila' : i + 1 \in DOMAIN fila /\ fila'[i] = fila[i + 1] /\ i \in Nat /\ i > 0
  BY <1>1
<1>3. \A i \in DOMAIN fila' : fila'[i] \in Requisicao /\ fila'[i] # r
  <2> TAKE i \in DOMAIN fila'
  <2>1. i + 1 # 1 /\ i + 1 \in DOMAIN fila /\ fila'[i] = fila[i + 1]
    BY <1>2
  <2> QED BY <1>1, <1>2, <2>1 DEF Filas
<1>4. \A i \in DOMAIN fila' : fase'[fila'[i]] \in Espera
  BY <1>2, <1>3 DEF Filas, Espera
<1>5. \A i, j \in DOMAIN fila' : fila'[i] = fila'[j] => i = j
  <2> TAKE i, j \in DOMAIN fila'
  <2>1. fila'[i] = fila'[j] => i + 1 = j + 1
    BY <1>2 DEF Filas
  <2> QED BY <1>2, <2>1
<1>6. fase[r] \in Espera
  BY <1>1, <1>2 DEF Filas, Espera
<1> QED BY <1>2, <1>4, <1>5, <1>6 DEF Filas, Espera

\* r ends, and leaves the queue if it was there.
LEMMA FilaSair ==
    ASSUME Tabelas, Filas, NEW r \in Requisicao, SairDaFila(r),
           \A s \in Requisicao : s # r => fase'[s] = fase[s]
    PROVE  Filas' /\ (fila \in Seq(Requisicao))'
<1>0. fila \in Seq(Requisicao)
  BY DEF Tabelas
<1>1. CASE ~Esperando(r) /\ UNCHANGED fila
  <2>1. \A i \in DOMAIN fila : fila[i] \in Requisicao /\ fila[i] # r
    BY <1>0, <1>1 DEF Esperando, Contains
  <2> QED BY <1>0, <1>1, <2>1 DEF Filas
<1>2. CASE \E i \in DOMAIN fila : fila[i] = r /\ fila' = RemoveAt(fila, i)
  <2>1. PICK i \in DOMAIN fila : fila[i] = r /\ fila' = RemoveAt(fila, i)
    BY <1>2
  <2>2. /\ fila' \in Seq(Requisicao) /\ Len(fila') = Len(fila) - 1
        /\ \A j \in DOMAIN fila' : fila'[j] = fila[IF j < i THEN j ELSE j + 1]
    BY <1>0, <2>1, SemUm
  <2>3. \A j \in DOMAIN fila' : LET k == IF j < i THEN j ELSE j + 1
                                IN  k \in DOMAIN fila /\ k # i /\ fila'[j] = fila[k]
    BY <1>0, <2>2
  <2>4. \A j \in DOMAIN fila' : fila'[j] \in Requisicao /\ fila'[j] # r /\ fase[fila'[j]] \in Espera
    BY <1>0, <2>1, <2>3 DEF Filas, Espera
  <2>5. \A j, k \in DOMAIN fila' : fila'[j] = fila'[k] => j = k
    <3> TAKE j, k \in DOMAIN fila'
    <3>1. fila'[j] = fila'[k] => (IF j < i THEN j ELSE j + 1) = (IF k < i THEN k ELSE k + 1)
      BY <2>3 DEF Filas
    <3>2. j \in Nat /\ k \in Nat /\ i \in Nat
      BY <1>0, <2>2
    <3> QED BY <3>1, <3>2
  <2> QED BY <2>2, <2>4, <2>5 DEF Filas, Espera
<1> QED BY <1>1, <1>2 DEF SairDaFila

-----------------------------------------------------------------------------
(* Requests, and what they do to a row.                                    *)

\* What a request may look like: each operation comes with the values its body has.
LEMMA PedidoForma ==
    ASSUME NEW p \in Pedido
    PROVE  /\ p # Nulo
           /\ p.op \in Cadastro \cup {"movimento", "leitura"}
           /\ p.alvo \in Registro /\ p.chave \in Chave \cup {Nulo}
           /\ p.op \in {"remove", "restore", "hardRemove"} => p.chave = Nulo
           /\ p.op = "create" => p.chave \in Chave
           /\ p.op = "hardRemove" => p = Apagar(p.alvo)
<1>1. p # Nulo
  BY NuloEhOutro
<1>2. CASE p \in [op: {"create"}, alvo: Requisicao, chave: Chave]
  BY <1>1, <1>2 DEF Cadastro, Registro
<1>3. CASE p \in [op: {"update"}, alvo: Registro, chave: Chave \cup {Nulo}]
  BY <1>1, <1>3 DEF Cadastro
<1>4. CASE p \in [op: {"remove", "restore", "hardRemove", "movimento", "leitura"}, alvo: Registro,
                  chave: {Nulo}]
  BY <1>1, <1>4 DEF Cadastro, Apagar
<1> QED BY <1>2, <1>3, <1>4 DEF Pedido

\* What a statement makes of a row.
LEMMA EfeitoForma ==
    ASSUME NEW p \in Pedido, p.op \in Cadastro, NEW l \in Linha \cup {Nulo}
    PROVE  /\ Efeito(p, l) \in Linha \cup {Nulo}
           /\ Efeito(p, l) = Nulo => p.op = "hardRemove" \/ (p.op # "create" /\ l = Nulo)
           /\ p.op = "hardRemove" => Efeito(p, l) = Nulo
           /\ p.op = "create" => Efeito(p, l).chave = p.chave
           /\ l # Nulo =>
                 /\ p.op = "update" => /\ Efeito(p, l).removida = l.removida
                                       /\ p.chave \in {Efeito(p, l).chave, Nulo}
                 /\ p.op = "remove" => Efeito(p, l).removida /\ (l.removida => Efeito(p, l) = l)
                 /\ p.op = "restore" => Efeito(p, l).chave = l.chave
<1>1. Nulo \notin Linha
  BY NuloEhOutro
<1>2. p.chave \in Chave \cup {Nulo} /\ (p.op = "create" => p.chave \in Chave)
  BY PedidoForma
<1>3. CASE p.op = "create"
  <2> DEFINE nova == [chave |-> p.chave, removida |-> FALSE]
  <2>1. Efeito(p, l) = nova
    BY <1>3 DEF Efeito
  <2>2. nova \in Linha /\ nova.chave = p.chave
    BY <1>2, <1>3 DEF Linha
  <2> HIDE DEF nova
  <2> QED BY <1>1, <1>3, <2>1, <2>2
<1>4. CASE p.op = "hardRemove" \/ (p.op # "create" /\ l = Nulo)
  <2>1. Efeito(p, l) = Nulo
    BY <1>4 DEF Efeito
  <2> QED BY <1>1, <1>4, <2>1
<1>5. CASE p.op = "update" /\ l # Nulo
  <2>1. Efeito(p, l) = [l EXCEPT !.chave = IF p.chave = Nulo THEN l.chave ELSE p.chave]
    BY <1>5 DEF Efeito
  <2> QED BY <1>1, <1>2, <1>5, <2>1 DEF Linha
<1>6. CASE p.op = "remove" /\ l # Nulo
  <2>1. Efeito(p, l) = [l EXCEPT !.removida = TRUE]
    BY <1>6 DEF Efeito
  <2> QED BY <1>1, <1>6, <2>1 DEF Linha
<1>7. CASE p.op = "restore" /\ l # Nulo
  <2>1. Efeito(p, l) = [l EXCEPT !.removida = FALSE]
    BY <1>7 DEF Efeito
  <2> QED BY <1>1, <1>7, <2>1 DEF Linha
<1> QED BY <1>3, <1>4, <1>5, <1>6, <1>7 DEF Cadastro

\* The statement of a request that has got as far as one.
LEMMA EscritaEfeito ==
    ASSUME NEW r \in Requisicao
    PROVE  Escrita(r) = Efeito(pedido[r], registros[pedido[r].alvo])
BY DEF Escrita, Efeito

-----------------------------------------------------------------------------
(* A step that moves r on, to where it has written nothing or is through.  *)

\* A step between two phases in which nothing is written keeps the invariant, as long as
\* a plain read stays among the phases of a plain read.
LEMMA AvancaMantem ==
    ASSUME IInv, NEW r \in Requisicao, NEW a \in Fase, a \notin {"nova", "escrita", "auditada"},
           fase[r] \notin {"nova", "respondida"}, fase' = [fase EXCEPT ![r] = a],
           pedido[r].op = "leitura" => a \in {"espera_leitura", "lendo", "respondida", "recusada"},
           visto' \in [Requisicao -> Linha \cup {Nulo}],
           novo' \in [Requisicao -> Linha \cup {Nulo}],
           \A s \in Requisicao : s # r => novo'[s] = novo[s],
           UNCHANGED <<registros, auditoria, pedido>>, Filas', (fila \in Seq(Requisicao))'
    PROVE  IInv'
<1>1. fase'[r] = a /\ \A s \in Requisicao : s # r => fase'[s] = fase[s]
  BY DEF IInv, Tabelas
<1>2. pedido[r] # Nulo /\ r \notin auditoria
  BY DEF IInv, Fases
<1>3. Tabelas'
  BY DEF IInv, Tabelas
<1>4. Fases'
  BY <1>1, <1>2 DEF IInv, Fases
<1>5. Criacoes'
  BY <1>1 DEF IInv, Criacoes
<1>6. Trancas'
  BY <1>1 DEF IInv, Trancas
<1>7. Escritas'
  BY <1>1 DEF IInv, Escritas
<1>8. Apagadas'
  BY DEF IInv, Apagadas
<1> QED BY <1>3, <1>4, <1>5, <1>6, <1>7, <1>8 DEF IInv

\* What becomes of the others when the phase of r changes.
LEMMA FaseDeUm ==
    ASSUME Tabelas, NEW r \in Requisicao, NEW a, fase' = [fase EXCEPT ![r] = a]
    PROVE  fase'[r] = a /\ \A s \in Requisicao : s # r => fase'[s] = fase[s]
BY DEF Tabelas

\* A request that is over frees what it held and waits for nothing.
LEMMA EncerrarFila ==
    ASSUME IInv, NEW r \in Requisicao, NEW a, Encerrar(r, a)
    PROVE  /\ Filas' /\ (fila \in Seq(Requisicao))'
           /\ visto' \in [Requisicao -> Linha \cup {Nulo}]
           /\ novo' \in [Requisicao -> Linha \cup {Nulo}]
           /\ novo'[r] = Nulo /\ \A s \in Requisicao : s # r => novo'[s] = novo[s]
           /\ fase' = [fase EXCEPT ![r] = a] /\ fase'[r] = a
           /\ \A s \in Requisicao : s # r => fase'[s] = fase[s]
           /\ UNCHANGED pedido
<1>1. SairDaFila(r) /\ fase' = [fase EXCEPT ![r] = a]
  BY DEF Encerrar, SoltarTudo
<1>2. Tabelas /\ Filas
  BY DEF IInv
<1>3. fase'[r] = a /\ \A s \in Requisicao : s # r => fase'[s] = fase[s]
  BY <1>1, <1>2, FaseDeUm
<1>4. Filas' /\ (fila \in Seq(Requisicao))'
  BY <1>1, <1>2, <1>3, FilaSair
<1>5. /\ visto' = [visto EXCEPT ![r] = Nulo] /\ novo' = [novo EXCEPT ![r] = Nulo]
      /\ UNCHANGED pedido
  BY DEF Encerrar
<1> QED BY <1>1, <1>2, <1>3, <1>4, <1>5 DEF Tabelas

-----------------------------------------------------------------------------
(* The actions, one by one.                                                *)

\* AoPedir, arm by arm.
LEMMA AoPedirDa ==
    ASSUME NEW espera \in Espera
    PROVE  /\ AoPedir(espera) \in {"espera_trx", "espera_leitura", "iniciada", "lendo"}
           /\ ~HaLivre => AoPedir(espera) = espera
           /\ HaLivre => AoPedir(espera) = IF espera = "espera_trx" THEN "iniciada" ELSE "lendo"
           /\ espera = "espera_leitura" => AoPedir(espera) \in {"espera_leitura", "lendo"}
BY DEF AoPedir, Espera

\* A request begins: it names a row that is committed, or for a create its own.
LEMMA AbrirMantem ==
    ASSUME IInv, NEW r \in Requisicao, Abrir(r)
    PROVE  IInv'
<1>1. PICK p \in Pedido :
          /\ p.op = "create" => p.alvo = r
          /\ p.op \in {"update", "remove", "restore", "hardRemove"} => registros[p.alvo] # Nulo
          /\ pedido' = [pedido EXCEPT ![r] = p]
          /\ LET espera == IF p.op = "leitura" THEN "espera_leitura" ELSE "espera_trx"
             IN  fase' = [fase EXCEPT ![r] = AoPedir(espera)] /\ Pedir(r, UsoDe(espera))
  BY DEF Abrir
<1>2. /\ fase[r] = "nova" /\ \E uso : Pedir(r, uso)
      /\ UNCHANGED <<registros, auditoria, visto, novo>>
  BY DEF Abrir
<1> DEFINE a == AoPedir(IF p.op = "leitura" THEN "espera_leitura" ELSE "espera_trx")
<1>3. /\ a \in {"espera_trx", "espera_leitura", "iniciada", "lendo"}
      /\ ~HaLivre => a \in Espera
      /\ p.op = "leitura" => a \in {"espera_leitura", "lendo"}
  BY AoPedirDa DEF Espera
<1>4. fase' = [fase EXCEPT ![r] = a]
  BY <1>1
<1> HIDE DEF a
<1>5. /\ fase'[r] = a /\ \A s \in Requisicao : s # r => fase'[s] = fase[s]
      /\ pedido'[r] = p /\ \A s \in Requisicao : s # r => pedido'[s] = pedido[s]
  BY <1>1, <1>4 DEF IInv, Tabelas
<1>6. /\ p # Nulo /\ p.op \in Cadastro \cup {"movimento", "leitura"}
      /\ p.op \in Cadastro \ {"create"} => registros[p.alvo] # Nulo
  BY <1>1, PedidoForma DEF Cadastro
<1>7. r \notin auditoria
  BY <1>2 DEF IInv, Fases
<1>8. Filas' /\ (fila \in Seq(Requisicao))'
  <2>1. fase[r] \notin Espera
    BY <1>2 DEF Espera
  <2> QED BY <1>2, <1>3, <1>5, <2>1, FilaPedir DEF IInv
<1>9. Tabelas'
  BY <1>1, <1>2, <1>3, <1>4, <1>8 DEF IInv, Tabelas, Fase
<1>10. Fases'
  BY <1>1, <1>2, <1>3, <1>5, <1>6, <1>7 DEF IInv, Fases
<1>11. Criacoes'
  <2>1. \A g \in Requisicao : registros'[g] # Nulo => fase'[g] = "respondida"
    BY <1>2, <1>5 DEF IInv, Criacoes
  <2>2. ASSUME NEW s \in Requisicao, pedido'[s] # Nulo, pedido'[s].op \in Cadastro \ {"create"},
               pedido'[s].alvo \in Requisicao
        PROVE  fase'[pedido'[s].alvo] = "respondida"
    <3>1. CASE s = r
      BY <1>2, <1>5, <1>6, <2>1, <2>2, <3>1
    <3>2. CASE s # r
      BY <1>2, <1>5, <2>2, <3>2 DEF IInv, Criacoes
    <3> QED BY <3>1, <3>2
  <2> QED BY <2>1, <2>2 DEF Criacoes
<1>12. Trancas'
  BY <1>3, <1>5 DEF IInv, Trancas
<1>13. Escritas'
  BY <1>2, <1>3, <1>5 DEF IInv, Escritas
<1>14. Apagadas'
  <2> SUFFICES ASSUME NEW s \in Requisicao, pedido'[s] # Nulo,
                      pedido'[s].op \in Cadastro \ {"create"}, registros'[pedido'[s].alvo] = Nulo
               PROVE  \E w \in auditoria' : pedido'[w] = Apagar(pedido'[s].alvo)
    BY DEF Apagadas
  <2>1. s # r /\ pedido'[s] = pedido[s] /\ registros[pedido[s].alvo] = Nulo
    BY <1>2, <1>5, <1>6
  <2>2. PICK w \in auditoria : pedido[w] = Apagar(pedido[s].alvo)
    BY <2>1 DEF IInv, Apagadas
  <2>3. w \in Requisicao /\ w # r
    BY <1>7 DEF IInv, Tabelas
  <2> QED BY <1>2, <1>5, <2>1, <2>2, <2>3
<1> QED BY <1>8, <1>9, <1>10, <1>11, <1>12, <1>13, <1>14 DEF IInv

\* The oldest waiting request gets its connection.
LEMMA ConectarMantem ==
    ASSUME IInv, NEW r \in Requisicao, Conectar(r)
    PROVE  IInv'
<1> DEFINE a == IF fase[r] = "espera_trx" THEN "iniciada" ELSE "lendo"
<1>1. /\ Atender(r, UsoDe(fase[r])) /\ fase' = [fase EXCEPT ![r] = a]
      /\ UNCHANGED <<registros, auditoria, pedido, visto, novo>>
  BY DEF Conectar
<1>2. Filas' /\ (fila \in Seq(Requisicao))' /\ fase[r] \in Espera
  <2>1. \A s \in Requisicao : s # r => fase'[s] = fase[s]
    BY <1>1, FaseDeUm DEF IInv
  <2> QED BY <1>1, <2>1, FilaAtender DEF IInv
<1>3. a \in {"iniciada", "lendo"} /\ fase[r] \in {"espera_trx", "espera_leitura"}
  BY <1>2 DEF Espera
<1>4. pedido[r].op = "leitura" => a = "lendo"
  <2>1. pedido[r] # Nulo
    BY <1>3 DEF IInv, Fases
  <2> QED BY <1>3, <2>1 DEF IInv, Fases
<1> HIDE DEF a
<1> QED BY <1>1, <1>2, <1>3, <1>4, AvancaMantem DEF IInv, Tabelas, Fase

\* A transaction asks the pool for a connection to read on.
LEMMA PedirLeituraMantem ==
    ASSUME IInv, NEW r \in Requisicao, PedirLeitura(r)
    PROVE  IInv'
<1> DEFINE a == AoPedir("espera_leitura")
<1>1. /\ fase[r] = "iniciada" /\ Pedir(r, "leitura") /\ fase' = [fase EXCEPT ![r] = a]
      /\ UNCHANGED <<registros, auditoria, pedido, visto, novo>>
  BY DEF PedirLeitura
<1>2. a \in {"espera_leitura", "lendo"} /\ (~HaLivre => a \in Espera)
  BY AoPedirDa DEF Espera
<1> HIDE DEF a
<1>3. Filas' /\ (fila \in Seq(Requisicao))'
  <2>1. fase'[r] = a /\ \A s \in Requisicao : s # r => fase'[s] = fase[s]
    BY <1>1, FaseDeUm DEF IInv
  <2>2. fase[r] \notin Espera
    BY <1>1 DEF Espera
  <2> QED BY <1>1, <1>2, <2>1, <2>2, FilaPedir DEF IInv
<1> QED BY <1>1, <1>2, <1>3, AvancaMantem DEF IInv, Tabelas, Fase

\* The read through the pool, after which the connection goes back.
LEMMA LerPelaConexaoMantem ==
    ASSUME IInv, NEW r \in Requisicao, LerPelaConexao(r)
    PROVE  IInv'
<1> DEFINE a == IF pedido[r].op = "leitura" THEN "respondida" ELSE "lida"
<1>1. /\ fase[r] = "lendo" /\ UNCHANGED fila /\ fase' = [fase EXCEPT ![r] = a]
      /\ UNCHANGED <<registros, auditoria, pedido, visto, novo>>
  BY DEF LerPelaConexao, Soltar
<1>2. a \in {"respondida", "lida"} /\ (pedido[r].op = "leitura" => a = "respondida")
  OBVIOUS
<1> HIDE DEF a
<1>3. Filas' /\ (fila \in Seq(Requisicao))'
  <2>1. \A s \in Requisicao : s # r => fase'[s] = fase[s]
    BY <1>1, FaseDeUm DEF IInv
  <2>2. fase[r] \notin Espera
    BY <1>1 DEF Espera
  <2> QED BY <1>1, <2>1, <2>2, FilaParada DEF IInv
<1> QED BY <1>1, <1>2, <1>3, AvancaMantem DEF IInv, Tabelas, Fase

\* The checks of uniqueness have passed.
LEMMA ConferirMantem ==
    ASSUME IInv, NEW r \in Requisicao, Conferir(r)
    PROVE  IInv'
<1>1. /\ fase[r] \in {"iniciada", "lida"} /\ fase' = [fase EXCEPT ![r] = "conferida"]
      /\ UNCHANGED <<registros, auditoria, pedido, novo, fila>>
      /\ \E l \in {registros[pedido[r].alvo], Nulo} : visto' = [visto EXCEPT ![r] = l]
  BY DEF Conferir, pool
<1>2. pedido[r] \in Pedido /\ pedido[r].op # "leitura"
  BY <1>1 DEF IInv, Tabelas, Fases
<1>3. visto' \in [Requisicao -> Linha \cup {Nulo}]
  <2>1. registros[pedido[r].alvo] \in Linha \cup {Nulo}
    BY <1>2, PedidoForma DEF IInv, Tabelas
  <2> QED BY <1>1, <2>1 DEF IInv, Tabelas
<1>4. Filas' /\ (fila \in Seq(Requisicao))'
  <2>1. \A s \in Requisicao : s # r => fase'[s] = fase[s]
    BY <1>1, FaseDeUm DEF IInv
  <2>2. fase[r] \notin Espera
    BY <1>1 DEF Espera
  <2> QED BY <1>1, <2>1, <2>2, FilaParada DEF IInv
<1> QED BY <1>1, <1>2, <1>3, <1>4, AvancaMantem DEF IInv, Tabelas, Fase

\* A movement of a parcel ends and writes no catalogue.
LEMMA ConcluirMovimentoMantem ==
    ASSUME IInv, NEW r \in Requisicao, ConcluirMovimento(r)
    PROVE  IInv'
<1>1. /\ fase[r] = "conferida" /\ pedido[r].op = "movimento" /\ Encerrar(r, "respondida")
      /\ UNCHANGED <<registros, auditoria>>
  BY DEF ConcluirMovimento
<1>2. /\ Filas' /\ (fila \in Seq(Requisicao))'
      /\ visto' \in [Requisicao -> Linha \cup {Nulo}]
      /\ novo' \in [Requisicao -> Linha \cup {Nulo}]
      /\ \A s \in Requisicao : s # r => novo'[s] = novo[s]
      /\ fase' = [fase EXCEPT ![r] = "respondida"]
      /\ UNCHANGED pedido
  BY <1>1, EncerrarFila
<1> QED BY <1>1, <1>2, AvancaMantem DEF Fase

\* A failure leaves the tables as they were.
LEMMA FalharMantem ==
    ASSUME IInv, NEW r \in Requisicao, Falhar(r)
    PROVE  IInv'
<1>1. /\ fase[r] \notin {"nova", "respondida"} /\ Encerrar(r, "recusada")
      /\ UNCHANGED <<registros, auditoria>>
  BY DEF Falhar, Abertas, Encerrada
<1> QED BY <1>1, EncerrarFila, AvancaMantem DEF Fase

\* Who has the row of r written while r goes on to write: nobody.
LEMMA SoEuTranco ==
    ASSUME IInv, NEW r \in Requisicao, Escrever(r), NEW s \in Requisicao, s # r,
           fase[s] \in {"escrita", "auditada"}
    PROVE  pedido[s].alvo # pedido[r].alvo
<1>1. <<pedido[s].alvo, "linha">> \in Tranca(s)
  BY DEF Tranca
<1>2. s \notin Bloqueiam(r)
  BY DEF Escrever
<1> QED BY <1>1, <1>2 DEF Bloqueiam

\* A write computes its row from the committed one, under the lock of the row.
LEMMA EscreverMantem ==
    ASSUME IInv, NEW r \in Requisicao, Escrever(r)
    PROVE  IInv'
<1>1. /\ fase[r] = "conferida" /\ fase' = [fase EXCEPT ![r] = "escrita"]
      /\ pedido[r].op # "movimento" /\ novo' = [novo EXCEPT ![r] = Escrita(r)]
      /\ UNCHANGED <<registros, auditoria, pedido, visto, fila>>
  BY DEF Escrever, Passo, pool
<1>2. /\ pedido[r] \in Pedido /\ pedido[r] # Nulo /\ pedido[r].op \in Cadastro
      /\ r \notin auditoria
  <2>1. pedido[r] # Nulo /\ r \notin auditoria
    BY <1>1 DEF IInv, Fases
  <2>2. pedido[r] \in Pedido /\ pedido[r].op # "leitura"
    BY <1>1, <2>1 DEF IInv, Tabelas, Fases
  <2> QED BY <1>1, <2>1, <2>2, PedidoForma
<1>3. /\ Escrita(r) = Efeito(pedido[r], registros[pedido[r].alvo])
      /\ Escrita(r) \in Linha \cup {Nulo}
  <2>1. registros[pedido[r].alvo] \in Linha \cup {Nulo}
    BY <1>2, PedidoForma DEF IInv, Tabelas
  <2> QED BY <1>2, <2>1, EscritaEfeito, EfeitoForma
<1>4. /\ fase'[r] = "escrita" /\ \A s \in Requisicao : s # r => fase'[s] = fase[s]
      /\ novo'[r] = Escrita(r) /\ \A s \in Requisicao : s # r => novo'[s] = novo[s]
  BY <1>1 DEF IInv, Tabelas
<1>5. Filas' /\ (fila \in Seq(Requisicao))'
  <2>1. fase[r] \notin Espera
    BY <1>1 DEF Espera
  <2> QED BY <1>1, <1>4, <2>1, FilaParada DEF IInv
<1>6. Tabelas'
  BY <1>1, <1>3, <1>5 DEF IInv, Tabelas, Fase
<1>7. Fases'
  BY <1>1, <1>2, <1>4, PedidoForma DEF IInv, Fases, Cadastro
<1>8. Criacoes'
  BY <1>1, <1>4 DEF IInv, Criacoes
<1>9. Trancas'
  <2>1. \A s \in Requisicao : s # r /\ fase[s] \in {"escrita", "auditada"} =>
            pedido[s].alvo # pedido[r].alvo
    BY SoEuTranco
  <2> QED BY <1>1, <1>4, <2>1 DEF IInv, Trancas
<1>10. Escritas'
  BY <1>1, <1>3, <1>4 DEF IInv, Escritas
<1>11. Apagadas'
  BY <1>1 DEF IInv, Apagadas
<1> QED BY <1>5, <1>6, <1>7, <1>8, <1>9, <1>10, <1>11 DEF IInv

\* The audit row is inserted once the row was read back.
LEMMA AuditarMantem ==
    ASSUME IInv, NEW r \in Requisicao, Auditar(r)
    PROVE  IInv'
<1>1. /\ fase[r] = "escrita" /\ fase' = [fase EXCEPT ![r] = "auditada"]
      /\ pedido[r].op \in {"create", "update", "restore"} /\ novo[r] # Nulo => ~novo[r].removida
      /\ UNCHANGED <<registros, auditoria, pedido, visto, novo, fila>>
  BY DEF Auditar, Passo, Relida, pool
<1>2. fase'[r] = "auditada" /\ \A s \in Requisicao : s # r => fase'[s] = fase[s]
  BY <1>1 DEF IInv, Tabelas
<1>3. Filas' /\ (fila \in Seq(Requisicao))'
  <2>1. fase[r] \notin Espera
    BY <1>1 DEF Espera
  <2> QED BY <1>1, <1>2, <2>1, FilaParada DEF IInv
<1>4. Tabelas'
  BY <1>1, <1>3 DEF IInv, Tabelas, Fase
<1>5. Fases'
  BY <1>1, <1>2 DEF IInv, Fases
<1>6. Criacoes'
  BY <1>1, <1>2 DEF IInv, Criacoes
<1>7. Trancas'
  BY <1>1, <1>2 DEF IInv, Trancas
<1>8. Escritas'
  BY <1>1, <1>2 DEF IInv, Escritas
<1>9. Apagadas'
  BY <1>1 DEF IInv, Apagadas
<1> QED BY <1>3, <1>4, <1>5, <1>6, <1>7, <1>8, <1>9 DEF IInv

\* What a COMMIT does to the tables: the row of the request becomes the one it wrote.
LEMMA ConfirmarFaz ==
    ASSUME IInv, NEW r \in Requisicao, Confirmar(r)
    PROVE  /\ pedido[r] \in Pedido /\ pedido[r] # Nulo /\ pedido[r].op \in Cadastro
           /\ pedido[r].alvo \in Registro /\ registros[pedido[r].alvo] \in Linha \cup {Nulo}
           /\ novo[r] = Efeito(pedido[r], registros[pedido[r].alvo])
           /\ novo[r] \in Linha \cup {Nulo}
           /\ registros' = [registros EXCEPT ![pedido[r].alvo] = novo[r]]
           /\ registros'[pedido[r].alvo] = novo[r]
           /\ \A g \in Registro : g # pedido[r].alvo => registros'[g] = registros[g]
           /\ fase[r] = "auditada" /\ r \notin auditoria /\ auditoria' = auditoria \cup {r}
           /\ Encerrar(r, "respondida")
<1>1. /\ fase[r] = "auditada" /\ auditoria' = auditoria \cup {r} /\ Encerrar(r, "respondida")
      /\ registros' = IF novo[r] # Nulo \/ pedido[r].op = "hardRemove"
                      THEN [registros EXCEPT ![pedido[r].alvo] = novo[r]] ELSE registros
  BY DEF Confirmar
<1>2. /\ pedido[r] # Nulo /\ pedido[r].op \in Cadastro /\ r \notin auditoria
      /\ novo[r] = Efeito(pedido[r], registros[pedido[r].alvo])
  BY <1>1 DEF IInv, Fases, Escritas
<1>3. /\ pedido[r] \in Pedido /\ pedido[r].alvo \in Registro
      /\ registros[pedido[r].alvo] \in Linha \cup {Nulo} /\ novo[r] \in Linha \cup {Nulo}
  BY <1>2, PedidoForma DEF IInv, Tabelas
<1>4. novo[r] = Nulo /\ pedido[r].op # "hardRemove" => registros[pedido[r].alvo] = Nulo
  BY <1>2, <1>3, EfeitoForma
<1>5. registros' = [registros EXCEPT ![pedido[r].alvo] = novo[r]]
  BY <1>1, <1>3, <1>4 DEF IInv, Tabelas
<1>6. /\ registros'[pedido[r].alvo] = novo[r]
      /\ \A g \in Registro : g # pedido[r].alvo => registros'[g] = registros[g]
  BY <1>3, <1>5 DEF IInv, Tabelas
<1> QED BY <1>1, <1>2, <1>3, <1>5, <1>6

\* A commit installs a row that nobody else holds, with its row of the audit trail.
LEMMA ConfirmarMantem ==
    ASSUME IInv, NEW r \in Requisicao, Confirmar(r)
    PROVE  IInv'
<1> DEFINE g == pedido[r].alvo
<1>1. /\ pedido[r] \in Pedido /\ pedido[r] # Nulo /\ pedido[r].op \in Cadastro
      /\ g \in Registro /\ registros[g] \in Linha \cup {Nulo}
      /\ novo[r] = Efeito(pedido[r], registros[g]) /\ novo[r] \in Linha \cup {Nulo}
      /\ registros' = [registros EXCEPT ![g] = novo[r]] /\ registros'[g] = novo[r]
      /\ \A h \in Registro : h # g => registros'[h] = registros[h]
      /\ fase[r] = "auditada" /\ r \notin auditoria /\ auditoria' = auditoria \cup {r}
  BY ConfirmarFaz
<1>2. /\ Filas' /\ (fila \in Seq(Requisicao))'
      /\ visto' \in [Requisicao -> Linha \cup {Nulo}] /\ novo' \in [Requisicao -> Linha \cup {Nulo}]
      /\ \A s \in Requisicao : s # r => novo'[s] = novo[s]
      /\ fase' = [fase EXCEPT ![r] = "respondida"] /\ fase'[r] = "respondida"
      /\ \A s \in Requisicao : s # r => fase'[s] = fase[s]
      /\ UNCHANGED pedido
  BY ConfirmarFaz, EncerrarFila
<1>3. \A s \in Requisicao : pedido[s] # Nulo => pedido[s] \in Pedido /\ pedido[s].alvo \in Registro
  BY PedidoForma DEF IInv, Tabelas
<1>4. Tabelas'
  BY <1>1, <1>2 DEF IInv, Tabelas, Fase
<1>5. Fases'
  BY <1>1, <1>2 DEF IInv, Fases, Cadastro
<1>6. Criacoes'
  <2>1. ASSUME NEW h \in Requisicao, registros'[h] # Nulo
        PROVE  fase'[h] = "respondida"
    <3>1. CASE h = r
      BY <1>2, <3>1
    <3>2. CASE h # r /\ h = g
      <4>1. pedido[r].op # "create"
        BY <1>1, <3>2 DEF IInv, Fases
      <4> QED BY <1>1, <1>2, <3>2, <4>1 DEF IInv, Criacoes
    <3>3. CASE h # r /\ h # g
      <4>1. h \in Registro
        BY DEF Registro
      <4> QED BY <1>1, <1>2, <2>1, <3>3, <4>1 DEF IInv, Criacoes
    <3> QED BY <3>1, <3>2, <3>3
  <2>2. \A h \in Requisicao : fase[h] = "respondida" => fase'[h] = "respondida"
    BY <1>2
  <2> QED BY <1>2, <2>1, <2>2 DEF IInv, Criacoes
<1>7. Trancas'
  BY <1>2 DEF IInv, Trancas
<1>8. Escritas'
  <2> SUFFICES ASSUME NEW s \in Requisicao, fase'[s] \in {"escrita", "auditada"}
               PROVE  /\ novo'[s] = Efeito(pedido'[s], registros'[pedido'[s].alvo])
                      /\ /\ fase'[s] = "auditada" /\ pedido'[s].op \in {"create", "update", "restore"}
                         /\ novo'[s] # Nulo
                         => ~novo'[s].removida
    BY DEF Escritas
  <2>1. s # r /\ fase[s] = fase'[s] /\ novo'[s] = novo[s] /\ pedido'[s] = pedido[s]
    BY <1>2
  <2>2. pedido[s].alvo # g
    BY <1>1, <2>1 DEF IInv, Trancas
  <2>3. pedido[s] # Nulo
    BY <2>1 DEF IInv, Fases
  <2>4. registros'[pedido[s].alvo] = registros[pedido[s].alvo]
    BY <1>1, <1>3, <2>2, <2>3
  <2> QED BY <2>1, <2>4 DEF IInv, Escritas
<1>9. Apagadas'
  <2> SUFFICES ASSUME NEW s \in Requisicao, pedido[s] # Nulo, pedido[s].op \in Cadastro \ {"create"},
                      registros'[pedido[s].alvo] = Nulo
               PROVE  \E w \in auditoria' : pedido[w] = Apagar(pedido[s].alvo)
    BY <1>2 DEF Apagadas
  <2>1. CASE pedido[s].alvo # g
    <3>1. registros[pedido[s].alvo] = Nulo
      BY <1>1, <1>3, <2>1
    <3> QED BY <1>1, <3>1 DEF IInv, Apagadas
  <2>2. CASE pedido[s].alvo = g /\ pedido[r].op = "hardRemove"
    <3>1. pedido[r] = Apagar(g)
      BY <1>1, <2>2, PedidoForma
    <3> QED BY <1>1, <2>2, <3>1
  <2>3. CASE pedido[s].alvo = g /\ pedido[r].op # "hardRemove"
    <3>1. registros[g] = Nulo
      BY <1>1, <2>3, EfeitoForma
    <3> QED BY <1>1, <2>3, <3>1 DEF IInv, Apagadas
  <2> QED BY <2>1, <2>2, <2>3
<1> QED BY <1>2, <1>4, <1>5, <1>6, <1>7, <1>8, <1>9 DEF IInv

-----------------------------------------------------------------------------
(* The pool.                                                               *)

\* Lending one more while there is one to lend, or none.
LEMMA Cabe ==
    ASSUME Posses,
           posse' \subseteq posse
           \/ (Cardinality(posse) < Maximo /\ \E c \in Requisicao \X Uso : posse' = posse \cup {c})
    PROVE  posse' \subseteq Requisicao \X Uso /\ IsFiniteSet(posse') /\ Cardinality(posse') <= Maximo
<1>1. /\ posse \subseteq Requisicao \X Uso /\ IsFiniteSet(posse) /\ Cardinality(posse) <= Maximo
      /\ Maximo \in Nat
  BY MaximoNatural DEF Posses
<1>2. CASE posse' \subseteq posse
  <2>1. posse' \in SUBSET posse
    BY <1>2
  <2>2. IsFiniteSet(posse') /\ Cardinality(posse') <= Cardinality(posse)
    BY <1>1, <2>1, FS_Subset
  <2>3. Cardinality(posse) \in Nat /\ Cardinality(posse') \in Nat
    BY <1>1, <2>2, FS_CardinalityType
  <2> QED BY <1>1, <1>2, <2>2, <2>3
<1>3. CASE Cardinality(posse) < Maximo /\ \E c \in Requisicao \X Uso : posse' = posse \cup {c}
  <2>1. PICK c \in Requisicao \X Uso : posse' = posse \cup {c}
    BY <1>3
  <2>2. /\ IsFiniteSet(posse \cup {c})
        /\ Cardinality(posse \cup {c}) = IF c \in posse THEN Cardinality(posse) ELSE Cardinality(posse) + 1
    BY <1>1, FS_AddElement
  <2>3. Cardinality(posse) \in Nat
    BY <1>1, FS_CardinalityType
  <2> QED BY <1>1, <1>3, <2>1, <2>2, <2>3
<1> QED BY <1>2, <1>3

\* A step of r keeps Posses if the pool lends no more than it has, and to r only, and
\* what it lends r fits the phase that r is in then.
LEMMA PosseDeUm ==
    ASSUME Posses, NEW r \in Requisicao,
           \A s \in Requisicao : s # r => fase'[s] = fase[s] /\ pedido'[s] = pedido[s],
           posse' \subseteq posse
           \/ (Cardinality(posse) < Maximo /\ \E c \in Requisicao \X Uso : posse' = posse \cup {c}),
           \A c \in posse' : c \in posse \/ c[1] = r,
           <<r, "trx">> \in posse' => fase'[r] \in EmTransacao /\ pedido'[r].op # "leitura",
           <<r, "leitura">> \in posse' => fase'[r] = "lendo",
           fase'[r] = "espera_leitura" =>
               pedido'[r].op \in {"update", "remove", "movimento", "leitura"}
    PROVE  Posses'
<1>1. posse' \subseteq Requisicao \X Uso /\ IsFiniteSet(posse') /\ Cardinality(posse') <= Maximo
  BY Cabe
<1>2. IsFiniteSet(Abertas')
  <2>1. Abertas' \in SUBSET (Abertas \cup {r})
    BY DEF Abertas
  <2>2. IsFiniteSet(Abertas \cup {r})
    BY FS_AddElement DEF Posses
  <2> QED BY <2>1, <2>2, FS_Subset
<1>3. ASSUME NEW s \in Requisicao
      PROVE  /\ <<s, "trx">> \in posse' => fase'[s] \in EmTransacao /\ pedido'[s].op # "leitura"
             /\ <<s, "leitura">> \in posse' => fase'[s] = "lendo"
             /\ fase'[s] = "espera_leitura" => Aninhada(s)' \/ pedido'[s].op = "leitura"
  <2>1. CASE s = r
    BY <2>1 DEF Aninhada
  <2>2. CASE s # r
    <3>1. \A uso : <<s, uso>> \in posse' => <<s, uso>> \in posse
      BY <2>2
    <3> QED BY <2>2, <3>1 DEF Posses, Aninhada
  <2> QED BY <2>1, <2>2
<1> QED BY <1>1, <1>2, <1>3 DEF Posses

\* Asking for a connection, or being given one: r has it for its use if it goes on.
LEMMA PossePedir ==
    ASSUME NEW r \in Requisicao, NEW uso \in Uso, Pedir(r, uso)
    PROVE  /\ posse' \subseteq posse
              \/ (Cardinality(posse) < Maximo /\ \E c \in Requisicao \X Uso : posse' = posse \cup {c})
           /\ \A c \in posse' : c \in posse \/ c = <<r, uso>>
           /\ \A u \in Uso : <<r, u>> \in posse' => <<r, u>> \in posse \/ (HaLivre /\ u = uso)
<1>1. CASE HaLivre
  BY <1>1 DEF Pedir, HaLivre, Emprestadas
<1>2. CASE ~HaLivre
  BY <1>2 DEF Pedir
<1> QED BY <1>1, <1>2

\* Who ends has none.
LEMMA PosseEncerrar ==
    ASSUME IInv, Posses, NEW r \in Requisicao, NEW a \in {"respondida", "recusada"}, Encerrar(r, a)
    PROVE  Posses'
<1>1. /\ posse' = posse \ ({r} \X Uso)
      /\ fase'[r] = a /\ \A s \in Requisicao : s # r => fase'[s] = fase[s] /\ pedido'[s] = pedido[s]
  BY EncerrarFila DEF Encerrar, SoltarTudo
<1>2. <<r, "trx">> \notin posse' /\ <<r, "leitura">> \notin posse'
  BY <1>1 DEF Uso
<1>3. posse' \subseteq posse /\ \A c \in posse' : c \in posse
  BY <1>1
<1> QED BY <1>1, <1>2, <1>3, PosseDeUm

\* A step that leaves the pool alone and keeps r inside its transaction.
LEMMA PosseParada ==
    ASSUME IInv, Posses, NEW r \in Requisicao, NEW a \in EmTransacao \ {"espera_leitura"},
           fase[r] # "lendo", fase' = [fase EXCEPT ![r] = a], UNCHANGED <<pedido, posse>>
    PROVE  Posses'
<1>1. fase'[r] = a /\ \A s \in Requisicao : s # r => fase'[s] = fase[s] /\ pedido'[s] = pedido[s]
  BY FaseDeUm DEF IInv
<1>2. /\ <<r, "trx">> \in posse => pedido[r].op # "leitura"
      /\ <<r, "leitura">> \notin posse
  BY DEF Posses
<1> QED BY <1>1, <1>2, PosseDeUm

\* A request begins with a connection, or behind those that wait for one.
LEMMA AbrirPosse ==
    ASSUME IInv, Posses, NEW r \in Requisicao, Abrir(r)
    PROVE  Posses'
<1>1. PICK p \in Pedido :
          /\ pedido' = [pedido EXCEPT ![r] = p]
          /\ LET espera == IF p.op = "leitura" THEN "espera_leitura" ELSE "espera_trx"
             IN  fase' = [fase EXCEPT ![r] = AoPedir(espera)] /\ Pedir(r, UsoDe(espera))
  BY DEF Abrir
<1>2. fase[r] = "nova"
  BY DEF Abrir
<1> DEFINE espera == IF p.op = "leitura" THEN "espera_leitura" ELSE "espera_trx"
           a == AoPedir(espera)
           uso == UsoDe(espera)
<1>3. /\ espera \in Espera /\ uso \in Uso
      /\ uso = IF p.op = "leitura" THEN "leitura" ELSE "trx"
  BY DEF Espera, UsoDe, Uso
<1>4. /\ HaLivre => a = IF p.op = "leitura" THEN "lendo" ELSE "iniciada"
      /\ a = "espera_leitura" => p.op = "leitura"
  BY <1>3, AoPedirDa
<1>5. fase' = [fase EXCEPT ![r] = a] /\ Pedir(r, uso)
  BY <1>1
<1> HIDE DEF a, uso, espera
<1>6. /\ fase'[r] = a /\ pedido'[r] = p
      /\ \A s \in Requisicao : s # r => fase'[s] = fase[s] /\ pedido'[s] = pedido[s]
  BY <1>1, <1>5 DEF IInv, Tabelas
<1>7. <<r, "trx">> \notin posse /\ <<r, "leitura">> \notin posse
  BY <1>2 DEF Posses, EmTransacao
<1>8. /\ <<r, "trx">> \in posse' => HaLivre /\ p.op # "leitura"
      /\ <<r, "leitura">> \in posse' => HaLivre /\ p.op = "leitura"
      /\ \A c \in posse' : c \in posse \/ c[1] = r
      /\ posse' \subseteq posse
         \/ (Cardinality(posse) < Maximo /\ \E c \in Requisicao \X Uso : posse' = posse \cup {c})
  BY <1>3, <1>5, <1>7, PossePedir DEF Uso
<1> QED BY <1>4, <1>6, <1>8, PosseDeUm DEF EmTransacao

\* A second connection is lent, or waited for while the first is kept.
LEMMA PedirLeituraPosse ==
    ASSUME IInv, Posses, NEW r \in Requisicao, PedirLeitura(r)
    PROVE  Posses'
<1> DEFINE a == AoPedir("espera_leitura")
<1>1. /\ fase[r] = "iniciada" /\ Aninhada(r) /\ Pedir(r, "leitura")
      /\ fase' = [fase EXCEPT ![r] = a] /\ UNCHANGED pedido
  BY DEF PedirLeitura
<1>2. a \in {"espera_leitura", "lendo"} /\ (HaLivre => a = "lendo")
  BY AoPedirDa DEF Espera
<1> HIDE DEF a
<1>3. fase'[r] = a /\ \A s \in Requisicao : s # r => fase'[s] = fase[s] /\ pedido'[s] = pedido[s]
  BY <1>1, FaseDeUm DEF IInv
<1>4. pedido[r].op \in {"update", "remove", "movimento"} /\ <<r, "leitura">> \notin posse
  BY <1>1 DEF Aninhada, Posses
<1>5. /\ <<r, "leitura">> \in posse' => HaLivre
      /\ \A c \in posse' : c \in posse \/ c[1] = r
      /\ posse' \subseteq posse
         \/ (Cardinality(posse) < Maximo /\ \E c \in Requisicao \X Uso : posse' = posse \cup {c})
  <2>1. "leitura" \in Uso
    BY DEF Uso
  <2> QED BY ONLY <1>1, <1>4, <2>1, PossePedir, r \in Requisicao
<1> QED BY <1>1, <1>2, <1>3, <1>4, <1>5, PosseDeUm DEF EmTransacao

\* The one connection that is free goes to the oldest in the queue.
LEMMA ConectarPosse ==
    ASSUME IInv, Posses, NEW r \in Requisicao, Conectar(r)
    PROVE  Posses'
<1> DEFINE uso == UsoDe(fase[r])
           a == IF fase[r] = "espera_trx" THEN "iniciada" ELSE "lendo"
<1>1. /\ Atender(r, uso) /\ fase' = [fase EXCEPT ![r] = a] /\ UNCHANGED pedido
  BY DEF Conectar
<1>2. fase'[r] = a /\ \A s \in Requisicao : s # r => fase'[s] = fase[s] /\ pedido'[s] = pedido[s]
  BY <1>1, FaseDeUm DEF IInv
<1>3. fase[r] \in Espera
  BY <1>1, <1>2, FilaAtender DEF IInv
<1>4. Cardinality(posse) < Maximo /\ posse' = posse \cup {<<r, uso>>} /\ uso \in Uso
  BY <1>1 DEF Atender, Emprestadas, UsoDe, Uso
<1>5. fase[r] = "espera_trx" => /\ a = "iniciada" /\ uso = "trx" /\ <<r, "leitura">> \notin posse
                                /\ pedido[r].op # "leitura"
  <2>1. fase[r] = "espera_trx" => pedido[r] # Nulo
    BY DEF IInv, Fases
  <2> QED BY <2>1 DEF UsoDe, Posses, IInv, Fases
<1>6. fase[r] = "espera_leitura" => /\ a = "lendo" /\ uso = "leitura"
                                    /\ <<r, "trx">> \in posse => pedido[r].op # "leitura"
  BY DEF UsoDe, Posses
<1> HIDE DEF a, uso
<1>7. /\ <<r, "trx">> \in posse' => a \in EmTransacao /\ pedido[r].op # "leitura"
      /\ <<r, "leitura">> \in posse' => a = "lendo"
      /\ a # "espera_leitura"
  BY <1>3, <1>4, <1>5, <1>6 DEF Espera, EmTransacao
<1> QED BY <1>1, <1>2, <1>4, <1>7, PosseDeUm

\* A read gives back its connection; the one of the transaction stays.
LEMMA LerPelaConexaoPosse ==
    ASSUME IInv, Posses, NEW r \in Requisicao, LerPelaConexao(r)
    PROVE  Posses'
<1> DEFINE a == IF pedido[r].op = "leitura" THEN "respondida" ELSE "lida"
<1>1. /\ fase[r] = "lendo" /\ posse' = posse \ {<<r, "leitura">>}
      /\ fase' = [fase EXCEPT ![r] = a] /\ UNCHANGED pedido
  BY DEF LerPelaConexao, Soltar
<1>2. a = "lida" \/ (a = "respondida" /\ pedido[r].op = "leitura")
  OBVIOUS
<1> HIDE DEF a
<1>3. fase'[r] = a /\ \A s \in Requisicao : s # r => fase'[s] = fase[s] /\ pedido'[s] = pedido[s]
  BY <1>1, FaseDeUm DEF IInv
<1>4. /\ <<r, "leitura">> \notin posse'
      /\ <<r, "trx">> \in posse' => a = "lida" /\ pedido[r].op # "leitura"
      /\ posse' \subseteq posse
  BY <1>1, <1>2 DEF Posses
<1> QED BY <1>1, <1>2, <1>3, <1>4, PosseDeUm DEF EmTransacao

\* The rest of the steps leave the pool alone, or end.
LEMMA PosseFica ==
    ASSUME IInv, Posses, [Next]_vars
    PROVE  Posses'
<1>1. ASSUME NEW r \in Requisicao, Conferir(r) \/ Escrever(r) \/ Auditar(r)
      PROVE  Posses'
  <2>1. /\ fase[r] # "lendo" /\ UNCHANGED <<pedido, posse>>
        /\ \E a \in {"conferida", "escrita", "auditada"} : fase' = [fase EXCEPT ![r] = a]
    BY <1>1 DEF Conferir, Escrever, Auditar, Passo, pool
  <2> QED BY <2>1, PosseParada DEF EmTransacao
<1>2. ASSUME NEW r \in Requisicao, Confirmar(r) \/ ConcluirMovimento(r) \/ Falhar(r)
      PROVE  Posses'
  <2>1. \E a \in {"respondida", "recusada"} : Encerrar(r, a)
    BY <1>2 DEF Confirmar, ConcluirMovimento, Falhar
  <2> QED BY <2>1, PosseEncerrar
<1>3. ASSUME NEW r \in Requisicao, Abrir(r) \/ Conectar(r) \/ PedirLeitura(r) \/ LerPelaConexao(r)
      PROVE  Posses'
  BY <1>3, AbrirPosse, ConectarPosse, PedirLeituraPosse, LerPelaConexaoPosse
<1>4. CASE UNCHANGED vars
  BY <1>4 DEF vars, Posses, Abertas, Aninhada
<1> QED BY <1>1, <1>2, <1>3, <1>4 DEF Next, Prossegue, Ocioso

\* At first the pool has lent nothing.
LEMMA InitPosse == Init => Posses
<1> SUFFICES ASSUME Init PROVE Posses
  OBVIOUS
<1>1. posse = {} /\ fase = [r \in Requisicao |-> "nova"]
  BY DEF Init, PoolInit
<1>2. IsFiniteSet({}) /\ Cardinality({}) = 0
  BY FS_EmptySet
<1>3. Abertas = {}
  BY <1>1 DEF Abertas, Encerrada
<1> QED BY <1>1, <1>2, <1>3, MaximoNatural DEF Posses

-----------------------------------------------------------------------------
(* The theorems.                                                           *)

\* The first state: catalogues as seeded, nothing open, nobody waiting.
LEMMA InitIndutivo == Init => IInv
<1> SUFFICES ASSUME Init PROVE IInv
  OBVIOUS
<1>1. /\ fase = [r \in Requisicao |-> "nova"] /\ pedido = [r \in Requisicao |-> Nulo]
      /\ auditoria = {} /\ fila = <<>>
  BY DEF Init, PoolInit
<1>2. Tabelas
  BY <1>1 DEF Init, Tabelas, Fase
<1>3. Filas
  BY <1>1 DEF Filas
<1>4. Criacoes
  BY <1>1 DEF Init, Criacoes
<1>5. Fases /\ Trancas /\ Escritas /\ Apagadas
  BY <1>1 DEF Fases, Trancas, Escritas, Apagadas
<1> QED BY <1>2, <1>3, <1>4, <1>5 DEF IInv

\* No step of any handler breaks the invariant.
LEMMA NextIndutivo == IInv /\ [Next]_vars => IInv'
<1> SUFFICES ASSUME IInv, [Next]_vars PROVE IInv'
  OBVIOUS
<1>1. ASSUME NEW r \in Requisicao, Abrir(r) PROVE IInv'
  BY <1>1, AbrirMantem
<1>2. ASSUME NEW r \in Requisicao, Conectar(r) PROVE IInv'
  BY <1>2, ConectarMantem
<1>3. ASSUME NEW r \in Requisicao, PedirLeitura(r) PROVE IInv'
  BY <1>3, PedirLeituraMantem
<1>4. ASSUME NEW r \in Requisicao, LerPelaConexao(r) PROVE IInv'
  BY <1>4, LerPelaConexaoMantem
<1>5. ASSUME NEW r \in Requisicao, Conferir(r) PROVE IInv'
  BY <1>5, ConferirMantem
<1>6. ASSUME NEW r \in Requisicao, Escrever(r) PROVE IInv'
  BY <1>6, EscreverMantem
<1>7. ASSUME NEW r \in Requisicao, Auditar(r) PROVE IInv'
  BY <1>7, AuditarMantem
<1>8. ASSUME NEW r \in Requisicao, Confirmar(r) PROVE IInv'
  BY <1>8, ConfirmarMantem
<1>9. ASSUME NEW r \in Requisicao, ConcluirMovimento(r) PROVE IInv'
  BY <1>9, ConcluirMovimentoMantem
<1>10. ASSUME NEW r \in Requisicao, Falhar(r) PROVE IInv'
  BY <1>10, FalharMantem
<1>11. CASE UNCHANGED vars
  BY <1>11 DEF vars, IInv, Tabelas, Filas, Fases, Criacoes, Trancas, Escritas, Apagadas
<1> QED BY <1>1, <1>2, <1>3, <1>4, <1>5, <1>6, <1>7, <1>8, <1>9, <1>10, <1>11
        DEF Next, Prossegue, Ocioso

\* The inductive invariant holds in every state the program reaches.
THEOREM Indutivo == Spec => []IInv
<1> QED BY InitIndutivo, NextIndutivo, PTL DEF Spec

\* Only a COMMIT changes a table or the audit trail.
LEMMA SoConfirmarMuda ==
    ASSUME [Next]_vars
    PROVE  \/ \E r \in Requisicao : Confirmar(r)
           \/ UNCHANGED <<registros, auditoria>>
BY DEF Next, Prossegue, Ocioso, vars, Abrir, Conectar, PedirLeitura, LerPelaConexao, Conferir,
       Escrever, Auditar, ConcluirMovimento, Falhar

\* The nome of a removed transportadora never changes, not even by an update that
\* had read it before the removal, and it comes back by a restoration only.
THEOREM RemovidaMesmoFica == Spec => RemovidaFica
<1> DEFINE A == \A g \in Registro :
                    registros[g] # Nulo /\ registros[g].removida /\ registros'[g] \notin {Nulo, registros[g]} =>
                       /\ registros'[g].chave = registros[g].chave
                       /\ \E r \in Requisicao : /\ pedido[r].op = "restore" /\ pedido[r].alvo = g
                                                /\ fase[r] = "auditada" /\ fase'[r] = "respondida"
<1>1. IInv /\ [Next]_vars => [A]_vars
  <2> SUFFICES ASSUME IInv, [Next]_vars, NEW g \in Registro, registros[g] # Nulo, registros[g].removida,
                      registros'[g] \notin {Nulo, registros[g]}
               PROVE  /\ registros'[g].chave = registros[g].chave
                      /\ \E r \in Requisicao : /\ pedido[r].op = "restore" /\ pedido[r].alvo = g
                                               /\ fase[r] = "auditada" /\ fase'[r] = "respondida"
    OBVIOUS
  <2>1. PICK r \in Requisicao : Confirmar(r)
    BY SoConfirmarMuda
  <2>2. /\ pedido[r] \in Pedido /\ pedido[r] # Nulo /\ pedido[r].op \in Cadastro
        /\ pedido[r].alvo = g /\ registros[g] \in Linha \cup {Nulo}
        /\ novo[r] = Efeito(pedido[r], registros[g]) /\ registros'[g] = novo[r]
        /\ fase[r] = "auditada"
    BY <2>1, ConfirmarFaz
  <2>3. fase'[r] = "respondida"
    BY <2>1, ConfirmarFaz, EncerrarFila
  <2>4. pedido[r].op # "create"
    BY <2>2 DEF IInv, Fases, Criacoes
  <2>5. pedido[r].op # "update"
    BY <2>2, EfeitoForma DEF IInv, Escritas
  <2>6. pedido[r].op \notin {"remove", "hardRemove"}
    BY <2>2, EfeitoForma
  <2>7. pedido[r].op = "restore"
    BY <2>2, <2>4, <2>5, <2>6 DEF Cadastro
  <2> QED BY <2>2, <2>3, <2>7, EfeitoForma
<1> QED BY <1>1, Indutivo, PTL DEF Spec, RemovidaFica

\* A row of the audit trail is committed exactly with the change it tells of: whatever
\* overlapped, the transportadora or condominio is then as the row says.
THEOREM AuditoriaVerdadeira == Spec => EfeitoAuditado
<1> DEFINE A == /\ \A r \in auditoria' \ auditoria : Feito(r)
                /\ registros' # registros => \E r \in auditoria' \ auditoria :
                      \A g \in Registro : registros'[g] # registros[g] => g = pedido[r].alvo
<1>1. IInv /\ [Next]_vars => [A]_vars
  <2> SUFFICES ASSUME IInv, [Next]_vars, ~UNCHANGED <<registros, auditoria>> PROVE A
    OBVIOUS
  <2>1. PICK r \in Requisicao : Confirmar(r)
    BY SoConfirmarMuda
  <2> DEFINE p == pedido[r]
             l == registros[p.alvo]
  <2>2. /\ p \in Pedido /\ p # Nulo /\ p.op \in Cadastro /\ l \in Linha \cup {Nulo}
        /\ novo[r] = Efeito(p, l) /\ registros'[p.alvo] = novo[r]
        /\ \A g \in Registro : g # p.alvo => registros'[g] = registros[g]
        /\ fase[r] = "auditada" /\ r \notin auditoria /\ auditoria' = auditoria \cup {r}
    BY <2>1, ConfirmarFaz
  <2>3. Feito(r)
    <3>1. CASE p.op = "hardRemove"
      BY <2>2, <3>1, EfeitoForma DEF Feito
    <3>2. CASE p.op # "hardRemove" /\ novo[r] = Nulo
      <4>1. p.op # "create" /\ l = Nulo
        BY <2>2, <3>2, EfeitoForma
      <4>2. \E s \in auditoria : pedido[s] = Apagar(p.alvo)
        BY <2>2, <4>1 DEF IInv, Apagadas
      <4> QED BY <2>2, <3>2, <4>1, <4>2 DEF Feito, Apagar
    <3>3. CASE p.op = "remove" /\ novo[r] # Nulo
      <4>1. l # Nulo
        BY <2>2, <3>3 DEF Efeito
      <4> QED BY <2>2, <3>3, <4>1, EfeitoForma DEF Feito
    <3>4. CASE p.op \in {"create", "update", "restore"} /\ novo[r] # Nulo
      <4>1. ~novo[r].removida
        BY <2>2, <3>4 DEF IInv, Escritas
      <4>2. p.chave \in {novo[r].chave, Nulo}
        <5>1. p.op \in {"update", "restore"} => l # Nulo
          BY <2>2, <3>4 DEF Efeito
        <5> QED BY <2>2, <3>4, <5>1, EfeitoForma, PedidoForma
      <4> QED BY <2>2, <3>4, <4>1, <4>2 DEF Feito
    <3> QED BY <2>2, <3>1, <3>2, <3>3, <3>4 DEF Cadastro
  <2>4. auditoria' \ auditoria = {r}
    BY <2>2
  <2> QED BY <2>2, <2>3, <2>4
<1> QED BY <1>1, Indutivo, PTL DEF Spec, EfeitoAuditado

\* Whatever a request holds of the pool, and whether it waits, is what its phase says,
\* and the pool is never above its size.
THEOREM PossesValem == Spec => []Posses
<1> QED BY InitPosse, PosseFica, Indutivo, PTL DEF Spec

\* Every variable holds a value of its kind, and no more connections are lent than
\* there are.
THEOREM Tipos == Spec => []TypeOK
<1>1. IInv /\ Posses => TypeOK
  <2> SUFFICES ASSUME IInv, Posses PROVE TypeOK
    OBVIOUS
  <2>1. IsInjective(fila)
    BY DEF IInv, Filas, IsInjective
  <2> QED BY <2>1 DEF IInv, Tabelas, Posses, TypeOK, PoolTypeOK, Emprestadas
<1> QED BY <1>1, Indutivo, PossesValem, PTL

\* The pool gives a connection back unless Maximo transactions that read through it
\* hold one each: fewer of them, in whatever company, never stop the system.
THEOREM SoTravaNoLimite == Spec => []TravaSoNoLimite
<1>1. ASSUME IInv, Posses PROVE TravaSoNoLimite
  <2> DEFINE T == {r \in Abertas : Aninhada(r) /\ fase[r] = "espera_leitura"}
  <2> SUFFICES ASSUME Travado PROVE Cardinality(T) >= Maximo
    BY DEF TravaSoNoLimite
  <2>1. /\ posse \subseteq Requisicao \X Uso /\ IsFiniteSet(posse) /\ Cardinality(posse) = Maximo
    BY <1>1 DEF Posses, Travado, Emprestadas
  <2>2. ASSUME NEW c \in posse
        PROVE  c[1] \in T /\ c = <<c[1], "trx">>
    <3> DEFINE r == c[1]
    <3>1. r \in Requisicao /\ c[2] \in {"trx", "leitura"} /\ c = <<r, c[2]>>
      BY <2>1 DEF Uso
    <3> HIDE DEF r
    <3>2. /\ c[2] = "trx" => fase[r] \in EmTransacao /\ pedido[r].op # "leitura"
          /\ c[2] = "leitura" => fase[r] = "lendo"
          /\ fase[r] = "espera_leitura" => Aninhada(r) \/ pedido[r].op = "leitura"
      BY <1>1, <3>1 DEF Posses
    <3>3. r \in Abertas
      BY <3>1, <3>2 DEF EmTransacao, Abertas, Encerrada
    <3>4. Esperando(r)
      BY <3>1, <3>3 DEF Travado, Uso
    <3>5. fase[r] \in {"espera_trx", "espera_leitura"}
      <4>1. PICK i \in 1..Len(fila) : fila[i] = r
        BY <3>4 DEF Esperando, Contains
      <4>2. i \in DOMAIN fila
        BY <1>1, <4>1 DEF IInv, Tabelas
      <4> QED BY <1>1, <4>1, <4>2 DEF IInv, Filas
    <3>6. c[2] = "trx" /\ fase[r] = "espera_leitura" /\ Aninhada(r)
      BY <3>1, <3>2, <3>5 DEF EmTransacao
    <3> QED BY <3>1, <3>3, <3>6 DEF r
  <2> DEFINE f == [c \in posse |-> c[1]]
  <2>3. f \in [posse -> T] /\ \A c, d \in posse : f[c] = f[d] => c = d
    BY <2>2
  <2>4. IsFiniteSet(T)
    <3>1. T \in SUBSET Abertas
      OBVIOUS
    <3> QED BY <1>1, <3>1, FS_Subset DEF Posses
  <2> HIDE DEF f, T
  <2>5. f \in Injection(posse, T)
    BY <2>3 DEF Injection, IsInjective
  <2>6. Cardinality(posse) <= Cardinality(T)
    BY <2>4, <2>5, FS_Injection
  <2>7. Cardinality(T) \in Nat
    BY <2>4, FS_CardinalityType
  <2> QED BY <2>1, <2>6, <2>7, MaximoNatural
<1> QED BY <1>1, Indutivo, PossesValem, PTL

=============================================================================
