------------------------------ MODULE Conexoes ------------------------------
(***************************************************************************)
(* The pool of connections to the database (database.provider.ts): at most *)
(* Maximo connections, each lent to one request, and the requests that     *)
(* wait for one in the order in which they asked. A transaction keeps its  *)
(* connection from BEGIN to its end, and a request inside a transaction    *)
(* that reads through the pool asks for a second one meanwhile: a request  *)
(* holds at most one connection for each use.                              *)
(* The pool itself is a library: it is modelled as the code uses it.       *)
(***************************************************************************)
EXTENDS Naturals, Sequences, SequencesExt, FiniteSets

CONSTANTS
    Requisicao,    \* the requests
    Maximo         \* pool.max

ASSUME MaximoNatural == Maximo \in Nat \ {0}

VARIABLES
    posse,    \* the connections lent: to whom, and for what
    fila      \* the requests that wait for one, the oldest first

\* For a transaction, or for a read outside of one.
Uso == {"trx", "leitura"}

Emprestadas == Cardinality(posse)
Esperando(r) == Contains(fila, r)

PoolInit == posse = {} /\ fila = <<>>

PoolTypeOK ==
    /\ posse \subseteq Requisicao \X Uso
    /\ fila \in Seq(Requisicao)
    /\ IsInjective(fila)
    /\ Emprestadas <= Maximo

\* A connection is there for who asks now.
HaLivre == fila = <<>> /\ Emprestadas < Maximo

\* acquire: the request gets a connection or waits its turn.
Pedir(r, uso) ==
    /\ posse' = IF HaLivre THEN posse \cup {<<r, uso>>} ELSE posse
    /\ fila' = IF HaLivre THEN fila ELSE Append(fila, r)

\* The oldest that waits gets a connection as soon as there is one.
Atender(r, uso) ==
    /\ fila # <<>> /\ r = Head(fila)
    /\ Emprestadas < Maximo
    /\ posse' = posse \cup {<<r, uso>>}
    /\ fila' = Tail(fila)

\* release of the connection of a read.
Soltar(r) == posse' = posse \ {<<r, "leitura">>} /\ UNCHANGED fila

\* A request that waits, if it does, waits no more.
SairDaFila(r) ==
    \/ ~Esperando(r) /\ UNCHANGED fila
    \/ \E i \in DOMAIN fila : fila[i] = r /\ fila' = RemoveAt(fila, i)

\* Mutant of SoltarTudo: the connection of a transaction that fails is kept.
SoltarTudo_Vaza(r) == SairDaFila(r) /\ UNCHANGED posse

\* The request ends and with it its transaction, or its wait has timed out.
SoltarTudo(r) == posse' = posse \ ({r} \X Uso) /\ SairDaFila(r)

=============================================================================
