------------------------------- MODULE Acessos -------------------------------
(***************************************************************************)
(* Who is shown what besides the paginated lists of parcels, and who may   *)
(* open or change it: the announced parcels, the events of a parcel        *)
(* (encomendas-eventos) and the accounts (usuarios). Each rule is a piece  *)
(* of code of its own, evaluated on the rows of the moment; nothing here   *)
(* changes a row.                                                          *)
(***************************************************************************)
EXTENDS Listagens

\* The profiles that see accounts; admin and portaria are of CondominioPortaria.
Gestor == {"super", "admin", "portaria"}

-----------------------------------------------------------------------------
(* Parcels.                                                                *)

\* scopedQuery, from which the announced parcels are listed: one's own, those of the
\* condominium, or all.
Proprias(l) ==
    {e \in Encomenda :
        /\ Existe(e)
        /\ l \in Pessoa => encomendas[e].titular = l
        /\ l = "portaria" => encomendas[e].condominio = CondominioPortaria}

\* assertWriteAccess
AssertWriteAccess(l, linha) ==
    CASE l \in Pessoa -> linha.titular = l
      [] l = "super" -> TRUE
      [] OTHER -> linha.condominio = CondominioPortaria

-----------------------------------------------------------------------------
(* Events, named by their parcel: uuid_usuario of an event is its holder.  *)
(* A parcel that was removed keeps its events.                             *)

ComEventos == {e \in Encomenda : encomendas[e] # Nulo}

\* findAll: a morador's own, and all of every condominium for the others.
EventosListados(l) == {e \in ComEventos : l \in Pessoa => encomendas[e].titular = l}

\* findByFilters: for a morador also those of the parcels of the unit.
EventosFiltrados(l) ==
    {e \in ComEventos :
        l \in Pessoa =>
            \/ encomendas[e].titular = l
            \/ Existe(e) /\ encomendas[e].unidade = pessoas[l].unidade
                         /\ encomendas[e].restricao = "unidade"}

\* assertReadAccess of the events.
AbreEvento(l, e) == l \notin Pessoa \/ encomendas[e].titular = l

-----------------------------------------------------------------------------
(* Accounts.                                                               *)

\* resolverEscopoCondominio and aplicarEscopoCondominio
NoCondominio(perfil) ==
    {p \in Pessoa : perfil # "super" => CondominioDa[pessoas[p].unidade] = CondominioPortaria}

FindAll(perfil) == {p \in NoCondominio(perfil) : ~pessoas[p].removida}
FindRemoved(perfil) == {p \in NoCondominio(perfil) : pessoas[p].removida}

\* The porter's lodge is offered those with access only.
FindMoradores(perfil) ==
    {p \in FindAll(perfil) : pessoas[p].morador /\ (perfil = "portaria" => pessoas[p].aprovada)}

FindMoradoresPendentes(perfil) == {p \in FindAll(perfil) : pessoas[p].morador /\ ~pessoas[p].aprovada}

\* GET usuarios/:id of somebody else: found, and within the scope of the caller.
AbreUsuario(perfil, p) ==
    /\ perfil \in {"super", "admin"}
    /\ ~pessoas[p].removida
    /\ perfil # "super" => CondominioDa[pessoas[p].unidade] = CondominioPortaria

\* For whom create registers a parcel: anyone with access, and a morador of the own
\* condominium when the lodge registers it.
RegistroAceito(perfil, p) ==
    /\ ~pessoas[p].removida /\ pessoas[p].aprovada
    /\ perfil = "portaria" => /\ pessoas[p].morador
                              /\ CondominioDa[pessoas[p].unidade] = CondominioPortaria

=============================================================================
