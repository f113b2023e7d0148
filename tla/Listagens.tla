------------------------------ MODULE Listagens ------------------------------
(***************************************************************************)
(* The paginated lists of parcels (findAll, findByFilters): each page is a *)
(* request of its own that reads the scope of its reader, counts and then  *)
(* selects, in three statements outside any transaction, ordered by        *)
(* created_at alone. A reader walks the pages until the last one counted.  *)
(***************************************************************************)
EXTENDS Acervo

CONSTANTS
    CondominioPortaria,   \* the condominium of the staff who reads
    Tamanho,              \* limit, rows of a page
    Filtros               \* the filters that are tried (a bound)

ASSUME TamanhoNatural == Tamanho \in Nat \ {0}

\* A filter names a value for some columns, uuid_usuario standing for them all, and a
\* text; of the text only matters what contains it.
Texto == [nomes: SUBSET Pessoa, unidades: SUBSET Unidade, encomendas: SUBSET Encomenda]
Filtro == [titular: Pessoa \cup {Nulo}, busca: Texto \cup {Nulo}]

ASSUME FiltrosPossiveis == Filtros \subseteq Filtro

Leitor == Pessoa \cup {"portaria", "super"}

ASSUME PerfilNaoEhPessoa == {"portaria", "super"} \cap Pessoa = {}

VARIABLES
    fasePagina,   \* how far the page is
    leitor,       \* who reads
    filtro,       \* what is looked for
    pagina,       \* the page asked for
    escopo,       \* the unit read by findUsuarioAtivo
    total,        \* what COUNT has answered
    vistas,       \* the rows shown so far, in order
    noInicio,     \* the parcels the reader could see when the walk began (history)
    entraram,     \* something became visible since (history)
    sairam,       \* something ceased to be visible since (history)
    desencontro   \* between the statements of a page: something came into view after its
                  \* COUNT, or the reader moved after the unit was read (history)

listaVars == <<fasePagina, leitor, filtro, pagina, escopo, total, vistas, noInicio, entraram, sairam, desencontro>>

ListaInit ==
    /\ fasePagina = "parada" /\ leitor = Nulo /\ filtro = Nulo /\ pagina = 1
    /\ escopo = Nulo /\ total = 0 /\ vistas = <<>>
    /\ noInicio = {} /\ entraram = FALSE /\ sairam = FALSE /\ desencontro = FALSE

ListaTypeOK ==
    /\ fasePagina \in {"parada", "pedida", "comEscopo", "contada", "fim", "recusada"}
    /\ leitor \in Leitor \cup {Nulo} /\ filtro \in Filtros \cup {Nulo}
    /\ pagina \in Nat \ {0} /\ total \in Nat
    /\ escopo \in Unidade \cup {Nulo}
    /\ vistas \in Seq(Encomenda)
    /\ noInicio \subseteq Encomenda
    /\ {entraram, sairam, desencontro} \subseteq BOOLEAN

\* scopedListQuery: all, those of the condominium, or one's own and those of the unit.
NoEscopo(l, unidade) ==
    {e \in Encomenda :
        /\ Existe(e)
        /\ CASE l = "super" -> TRUE
             [] l = "portaria" -> encomendas[e].condominio = CondominioPortaria
             [] OTHER -> \/ encomendas[e].titular = l
                         \/ encomendas[e].unidade = unidade /\ encomendas[e].restricao = "unidade"}

Visiveis(l) == NoEscopo(l, IF l \in Pessoa THEN pessoas[l].unidade ELSE Nulo)

\* applyFilters: every condition has to hold; a text is looked for in the parcel, in its
\* unit and in the name of its holder, while that row is not removed.
Filtra(f, e) ==
    /\ f.titular # Nulo => encomendas[e].titular = f.titular
    /\ f.busca # Nulo =>
          \/ e \in f.busca.encomendas
          \/ encomendas[e].titular \in f.busca.nomes /\ ~pessoas[encomendas[e].titular].removida
          \/ encomendas[e].unidade \in f.busca.unidades

\* What the reader looks for, with the unit that was read, and now.
Procuradas(unidade) == {e \in NoEscopo(leitor, unidade) : Filtra(filtro, e)}
AVista == {e \in Visiveis(leitor) : Filtra(filtro, e)}

\* assertReadAccess, which judges a parcel that is opened by its uuid.
AssertReadAccess(l, linha) ==
    \/ l = "super"
    \/ l = "portaria" /\ linha.condominio = CondominioPortaria
    \/ /\ l \notin {"super", "portaria"}
       /\ \/ linha.titular = l
          \/ /\ linha.restricao = "unidade"
             /\ ~pessoas[l].removida /\ pessoas[l].unidade = linha.unidade

Percorrer ==
    /\ fasePagina = "parada"
    /\ \E l \in Leitor, f \in Filtros :
          /\ l \in Pessoa => ~pessoas[l].removida
          /\ leitor' = l /\ filtro' = f
          /\ noInicio' = {e \in Visiveis(l) : Filtra(f, e)}
    /\ fasePagina' = "pedida"
    /\ UNCHANGED <<pagina, escopo, total, vistas, entraram, sairam, desencontro>>

\* findUsuarioAtivo refuses a reader who was removed meanwhile.
LerEscopo ==
    /\ fasePagina = "pedida"
    /\ IF leitor \in Pessoa /\ pessoas[leitor].removida
       THEN fasePagina' = "recusada" /\ UNCHANGED escopo
       ELSE /\ fasePagina' = "comEscopo"
            /\ escopo' = IF leitor \in Pessoa THEN pessoas[leitor].unidade ELSE Nulo
    /\ UNCHANGED <<leitor, filtro, pagina, total, vistas, noInicio, entraram, sairam, desencontro>>

Contar ==
    /\ fasePagina = "comEscopo"
    /\ fasePagina' = "contada"
    /\ total' = Cardinality(Procuradas(escopo))
    /\ UNCHANGED <<leitor, filtro, pagina, escopo, vistas, noInicio, entraram, sairam, desencontro>>

\* Mutant of Deslocamento: pages counted from zero.
Deslocamento_DeZero(p) == p * Tamanho

\* resolvePagination.
Deslocamento(p) == (p - 1) * Tamanho

\* Math.ceil(total / limit) || 1.
Paginas(n) == IF n = 0 THEN 1 ELSE (n + Tamanho - 1) \div Tamanho

\* The orders in which the database may return the rows es: newest first, equal dates
\* anyhow.
Ordens(es) ==
    {s \in SetToSeqs(es) :
        \A i, j \in DOMAIN s : i < j => encomendas[s[i]].criada >= encomendas[s[j]].criada}

Selecionar ==
    /\ fasePagina = "contada"
    /\ \E s \in Ordens(Procuradas(escopo)) :
          LET de == Deslocamento(pagina)
          IN  vistas' = vistas \o SubSeq(s, de + 1, IF de + Tamanho < Len(s) THEN de + Tamanho ELSE Len(s))
    /\ IF pagina < Paginas(total)
       THEN fasePagina' = "pedida" /\ pagina' = pagina + 1
       ELSE fasePagina' = "fim" /\ UNCHANGED pagina
    /\ UNCHANGED <<leitor, filtro, escopo, total, noInicio, entraram, sairam, desencontro>>

\* What a change of the world does to the history of the walk.
Acompanhar ==
    IF fasePagina \in {"pedida", "comEscopo", "contada"}
    THEN /\ UNCHANGED <<fasePagina, leitor, filtro, pagina, escopo, total, vistas, noInicio>>
         /\ LET chegam == AVista' \ AVista
            IN  /\ entraram' = (entraram \/ chegam # {})
                /\ sairam' = (sairam \/ ~(AVista \subseteq AVista'))
                /\ desencontro' = \/ desencontro
                                  \/ fasePagina = "contada" /\ chegam # {}
                                  \/ /\ fasePagina # "pedida" /\ leitor \in Pessoa
                                     /\ pessoas'[leitor].unidade # escopo
    ELSE UNCHANGED listaVars

ListaNext == Percorrer \/ LerEscopo \/ Contar \/ Selecionar

=============================================================================
