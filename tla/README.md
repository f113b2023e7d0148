# A TLA+ model of encomendasrv-api

`encomendasrv-api` is the NestJS back end with which condominiums keep track of the
parcels ("encomendas") that arrive at their gate ("portaria"). This directory holds a
TLA+ model of it, the configurations with which TLC checks the model on small instances
and proofs, checked by TLAPS, of its main safety properties for instances of every size.
Paths below are relative to the repository's root; `ES` abbreviates
`src/encomendas/encomendas.service.ts`.

## 1. The system

### 1.1 How a request runs

The API is one Node process (or several) over one MySQL database (InnoDB, default
isolation REPEATABLE READ), reached through Knex with a pool of at most ten connections
(`src/database/database.provider.ts`). A request that changes something passes
`JwtAuthGuard` (which reads the user again), `RolesGuard` (which trusts the profile in the
token) and then a controller that opens `knex.transaction(...)`, calls one service
operation, inserts an audit row and returns; the transaction commits when the callback
returns and rolls back when it throws.

Three facts decide what can go wrong:

1. **Reads take a snapshot and no lock.** The service reads the row, checks it in
   JavaScript and then issues `UPDATE ... WHERE uuid = ?`. No statement says
   `FOR UPDATE`, and no `UPDATE` repeats the condition that was checked. Between the check
   and the write, another request may commit.
2. **Writes lock.** An `UPDATE` waits for the transaction that holds the row, acts on the
   row as last committed, and keeps the row until its own transaction ends. Columns it
   does not name keep their committed value.
3. **Reads after the write see the write**, so the `findActiveByUuid` with which most
   handlers end sees the row as it has become, `deleted_at` included.

### 1.2 Components

| component | state | operations | modelled in |
|---|---|---|---|
| `encomendas` | table `encomendas` | create, update, updateStatus, baixaAdministrativa, restore, remove, hardRemove; QR codes; lists | `Encomendas`; `QrCodes`; `Listagens`, `Acessos` |
| `encomendas-eventos` | history rows | an insert per movement, in its transaction; remove, restore, hardRemove; lists | `Encomendas`, `Historico`, `Acessos` |
| `notificacoes` | notices | inserts per movement; markAsRead, markManyAsRead, markAllAsRead, restore, remove, hardRemove, the notice of a new morador, the reminder at midnight | `Encomendas`, `Notificacoes` |
| `push` | pushes waiting for a commit; Firebase's refusals | dispatch after the commit, sendToUsers, markTokensInvalid | `Encomendas`, `Notificacoes`, `Dispositivos` |
| `device-tokens` | one row per FCM token | upsert, removeByToken | `Dispositivos` |
| `usuarios` | users: profile, approval, tenancy, credentials | create, update, updateRole, updateUnidade, aprovar, revogar, remove, restore, hardRemove; lists | `Usuarios`, `RecuperacaoConta`, `Acessos` |
| `unidades` | units and their removal mark | remove, restore, hardRemove | `Usuarios` |
| `auth` | activation code, reset token, password; sessions are signed tokens | signUp; signIn, refresh, the cut-off of the gate; activation, reset, change of password | `Usuarios`; `Sessoes`; `RecuperacaoConta` |
| `imagens` | files and the rows that name them | salvarDeBase64, salvarDeArquivo, excluir, restaurar | `Imagens` |
| `transportadoras`, `condominios` | reference tables with unique columns | create, update, remove, restore, hardRemove | `Cadastros` |
| `auditoria` | audit rows | insert in the transaction of a request | `Cadastros`, in part |
| `dashboard` | none | periods and numbers | `Painel`, `Indices` |
| `database` | pool, locks, foreign keys | acquire, release, begin, commit, rollback | `Conexoes` (the pool); the rest as each module needs it |
| `email`, `common`, `app` | none | none | no: I/O and wiring |

### 1.3 How they interact

A movement of a parcel is one transaction over three tables: `ES` updates the row,
`registerStatusEvent` inserts the history row and
`registrarNotificacoesMovimentacaoEncomendaEmTrx` the notices. A reception does this twice:
the parcel becomes `recebida` and, still in the transaction, `aguardando retirada`. A push
to the phone is scheduled with the notices, while the transaction may still fail, and leaves
when `executionPromise` of the transaction resolves (by `setImmediate` if it had none).
`hardRemove` deletes the children first (events, notices) and then the parcel.

The other components meet in the table `usuarios`: `auth` and `usuarios` write the same
row, a unit that is deleted leaves its users without a unit (`ON DELETE SET NULL`), an
account that is deleted takes its device tokens along (`ON DELETE CASCADE`). The password
has three writers: the reset by a token, `updatePassword`, which asks for the current one,
and `PATCH /usuarios/:id`, which asks for nothing but a session of the account. Activation,
password reset and the device tokens do *not* use a transaction: each statement commits
alone, and two of them may be separated by a bcrypt hash or by a call to Firebase.

### 1.4 What is hard, and what correct means

- *Overlap of check and write*: any two handlers on one parcel. Correct: the history, the
  hand-over columns and the deletion mark stay consistent; nobody unauthorised is
  recorded as the receiver; a deleted parcel is not moved.
- *Failure between statements*: the process dies, a connection is lost, an image is
  rejected, a lock wait times out. Correct: nothing of the request remains.
- *Locks taken in opposite orders*: `hardRemove` (children, row) and a movement (row,
  children). Correct: both end, and nothing refers to a parcel that is gone.
- *Effects outside the transaction*: a push is scheduled before its transaction is over.
  Correct: what was pushed is in the table afterwards, and what was to be pushed is.
- *Long sequences of legal calls*: the targets `aguardando` and `cancelada` of
  `updateStatus` are reachable from every status.

- *Accounts*: whoever is not a super belongs to a condominium and to a unit of it that
  exists; a removed account is not changed; a password is set only by a token mailed for that
  account, by somebody who showed a password of it, or within a session of it
  (`PATCH /usuarios/:id`); a token whose use was answered is gone.
- *Sessions*: the rights of a token are those of the moment it was signed; a gate's session
  ends with the shift, a withdrawn profile with the token.
- *Files*: a row names a file that is there; what fails leaves no half of a movement.
- *Readers*: what is listed, what may be opened and what may be done are decided by
  different pieces of code, on rows that change between two of them. Correct: they agree as
  long as nothing changes, and a reader who turns pages, counts or follows a history is told
  nothing that never was so.
- *A bounded pool*: a transaction that reads through the pool needs a second connection.
- *Devices*: a phone belongs to an existing account and changes hands only when somebody
  registers on it; what Firebase refuses is not used again.

`PROJECT.json` lists these per line under `hazards`.

## 2. Modules

### `Encomendas.tla`: the parcels and their handlers

State and code:

| variable | stands for |
|---|---|
| `encomendas` | the committed table: uuid to row, `Nulo` for no row |
| `eventos` | the committed history rows of each parcel, in commit order |
| `notificacoes` | the committed notices (parcel, recipient, kind, the request that wrote them) |
| `emitidos` | uuids `randomUUID` has returned, so that none is drawn twice |
| `fase`, `pedido` | where the transaction of each request stands and what it was asked |
| `imagem`, `registro` | the row and the history rows it has written and not committed |
| `pushes` | pushes scheduled by a transaction, each sent or not yet |

A date that is only ever set together with the user of the same movement is folded into
that user (`recebido_por` stands for `recebido_em` too). Texts, images, carriers and the
audit row are left out.

A request goes through these steps, each an action:

- `Ler*`: the read and every check of one handler. A request that is refused changes
  nothing and is no step. `create` reads users only and its first step (`Create*`, one
  action per branch of the code) is the `INSERT`.
- `Gravar*`: the `UPDATE`. Its guard `RowLivre` is InnoDB's row lock. What it writes is
  computed from the row *as committed then*, not from the row that was read.
- `RegistrarEvento`: the history row with its notices. `Promover`: the second `UPDATE` of
  a reception, after which `RegistrarEvento` runs again.
- `Confirmar`, `FalharReleitura`: the last read and the commit, or the rollback when the
  read fails. `GravarSemLinha`: the row is gone when the `UPDATE` comes.
- `ApagarFilhos`, `ApagarLinha`: the two halves of `hardRemove`.
- `Abortar`: any failure between two statements. `VitimaDeImpasse`: InnoDB breaks a
  deadlock.
- `AgendarPush` (in `RegistrarEvento`, like the code, before `Promover` and `Confirmar`) and
  `DespacharPush`: a push waits for the promise of its transaction, if it carries one. The
  rollback rejects the promise and its pushes are lost (`Desfazer`).

The constant `TemPromessa` says whether the transactions carry an `executionPromise`. Those of
`knex.transaction` do, so the runs take TRUE; FALSE is the `setImmediate` branch of the code,
which sends whatever becomes of the transaction.

Users are constants (`PerfilDe`, `CondominioDe`, `UnidadeDe`, `Ativo`): they change on
another time scale, and their own hazards belong to `Usuarios`.
`Operacoes` and `Simultaneas` bound the workload, `Requisicao` is all of it.

### `CicloEncomenda.tla`: what a reader may rely on

The abstract specification: a uuid is drawn, becomes a parcel or is lost, moves through
the four visible statuses, is marked and unmarked as deleted, keeps a recorded hand-over
and, once hard-removed, never returns. `Encomendas` implements it under the mapping
`Situacao` (property `CicloDaEncomenda`).

### `Usuarios.tla`: the accounts and the units

| variable | stands for |
|---|---|
| `usuarios`, `unidades` | the committed tables |
| `emitidos` | uuids already drawn |
| `sessoes` | access tokens in circulation: whose, and with which profile |
| `fase`, `pedido`, `imagem` | as in `Encomendas`: the open transactions |

The structure is that of `Encomendas`. `Ler*` is the read and every check of a handler, in
the controller (`resolverEscopoCondominio`, `assertDentroDoEscopo`) and in the service;
`Inserir` and `Gravar` write; `Confirmar`, `FalharReleitura`, `ViolarChave`, `Apagar`,
`Abortar` end. A caller is a token of `sessoes` whose account is still there and approved
(`JwtStrategy`), with the profile of the *token* (`RolesGuard`), which is as old as the
token. Only `email` has a unique index; `SemEspera` and `ChavesValidas` model it with its
waiting. `cpf` stands for the three columns that are checked by `SELECT` only. A request on
a unit writes once and is one step.

### `RecuperacaoConta.tla`: activation and passwords

`Autenticacao.tla` declares the accounts and requests that this module and `Sessoes.tla`,
the two halves of `auth.service.ts`, share.

Six handlers write the account: the two of an activation, the two of a reset,
`updatePassword` and `update` (`PATCH /usuarios/:id`). `contas` holds, for each account, the
activation code and the reset token with one Boolean each for "its expiry is still ahead",
the password (named by the request that set it) and the removal mark. Each `UPDATE` is an
action that commits at once; `Interromper` stops a request between two of them. `update` is
the one with a transaction: its read and check (`LerUpdate`), then its `UPDATE`, last read
and commit in one step, since it keeps the row from the first to the last
(`AtualizarConta`), or the rollback (`FalharReleitura`). `VencerCodigo`, `VencerToken` let
time pass and `RemoverOuRestaurar` is what `usuarios` may do meanwhile. Each handler reads
the account once before it writes (`Ler*`, with the guard's own read), except
`confirmActivation`, whose second read is `Conferir` or `RecusarCodigo`.

### `Dispositivos.tla`: device tokens and pushes

`registros` is the table `device_tokens`, `existentes` the accounts its foreign key
refers to. A registration reads (`LerUpsert`), updates by the uuid it read or inserts
(`Atualizar`, `Inserir`, `ViolarChave`) and reads back (`Responder`). A removal is
`LerRemocao`, `MarcarRemovido`. A push reads the devices of its recipients
(`LerDestinos`), hands them to Firebase, which refuses any subset (`Enviar`), and
invalidates those (`Invalidar`). `ApagarConta` is the cascade.

Both modules have a history variable `isolada`: a request is isolated as long as it is the
only one open and nothing else has happened since its first read. It lets one run say what
a handler achieves alone, next to what holds under every interleaving. `Isolamento.tla`
adds such a variable (`sozinha`) to `Encomendas` without touching it.

### `Sessoes.tla`: access tokens, renewal and the cut-off

The unit of time is the second. `cortes` are the two cut-offs of the day, `hora` the second
of the day, `tokens` the access and refresh tokens with the instants they were signed and
end. A sign-in or a renewal reads the account (`LerSignIn`, `LerRefresh`), computes the life
of the token from one reading of the clock (`Calcular`) and signs it with another
(`Assinar`). `MudarPerfil` and `AprovarOuRevogar` are what `usuarios` does meanwhile.

### `Notificacoes.tla`: notices after they were written

`notificacoes` is the table, `existentes` and `aguardando` what the reminder sees of the
parcels. The structure is that of `Encomendas`: `Ler*`, `Gravar*`, `Confirmar` or `Recusar`,
with an `imagem` per transaction that may hold several rows. `LerPendentes`,
`InserirLembretes`, the commit and `EnviarPush` are the four steps of the nightly job.

### `Imagens.tla`: photographs

`arquivos` and `origens` are the disk (what `imagens` wrote, what multer left), `linhas` the
committed rows, `pendentes` those of an open transaction. `Processar`, `Escrever`, `Inserir`
are the steps of one image. A write may fail half-way, and the deletion of multer's file after
it: `Restos` is what there may be on disk then, or when the process stops. `Desistir` is the
`catch` that deletes the file, which may fail too (phase `nao_apagada`), `Seguir` and
`Terminar` the rest of the movement; `Publicar` and `Desfazer` are its commit and rollback
and `Queda` the end of the process. The disk takes no part in a rollback.

### `Conexoes.tla`, `Cadastros.tla`: the pool, and what shares it

`Conexoes` is Knex's pool: `posse` (the connections lent, each with its request and whether
it is for a transaction or for one read) and `fila` (who waits, oldest first). `Cadastros`
runs the handlers of carriers and condominiums on it, with their snapshot (`visto`), their
write (`novo`) and their audit row, beside two kinds of requests that are there for the
connections they hold: movements of parcels and plain reads.

### The reading side

`Acervo.tla` is the world a reader sees: parcels and accounts that change in committed
steps (of an account the unit, the approval, the removal and whether its profile is morador).
On it stand, one client at a time,

- `QrCodes`: a code from the request (`LerEncomendas`, `ConferirAcesso`, `AssinarCodigo`) to
  the lodge (`LerCodigo`) and the hand-over (`EntregarPorCodigo`). Its bearer is any account
  with a unit, as the routes admit admins and super too; the hand-over alone looks at profile
  and approval;
- `Listagens`: a walk over the pages, each of which reads the scope (`LerEscopo`), counts
  (`Contar`) and selects (`Selecionar`), with any of the filters tried;
- `Acessos`: the rules of who is listed, may open or may change what, for parcels, events
  and moradores, as operators;
- `Historico`: the events of one parcel with their dates, some of them removed or deleted;
- `Painel`: the day, week and month of a date;
- `Indices`: the numbers of the dashboard, a query at a time, over parcels and accounts that
  change between two queries.

`Leituras.tla` composes them: its variable `cliente` says whom a behaviour follows, so that
the parts do not multiply each other's states.

### The MC modules and the configurations

`MCEncomendas` has two condominiums with eight users and `MCUsuarios` a super, an admin, a
morador and fresh uuids with three units, of which each run takes what it needs;
`MCLeituras` has two buildings, an account of each profile and the filters tried; the
others define small tables and the symmetry. The modules `*_proofs` hold the proofs
(section 5). `Notificacoes`, `Imagens`, `Cadastros` and `Leituras` define a `TypeOK` that
no run lists: their other properties fail at once where it does, and section 5 proves it.

## 3. Runs

| run | question | answer |
|---|---|---|
| `concorrente` | three overlapping requests of any kind on one parcel, failing anywhere | every safety property, the refinement and the rules of isolated requests hold |
| `termino` | does every transaction end? | yes, under the fairness of section 4 |
| `retirada_dupla` | is a hand-over recorded only over "aguardando"? | no: two overlapping ones both commit |
| `contas_concorrente` | three overlapping requests on accounts and units | types, `VinculoCoerente` and `RemovidoNaoMuda` hold |
| `contas_sequencial` | three requests one after the other, nothing restored | unique cpf, tenancy and hierarchy hold |
| `recuperacao` | four requests on two accounts, two at a time, expiring and interrupted | all rules hold |
| `dispositivos` | four requests, three at a time, on one phone of two accounts | all hold |
| `sessoes` | two days of every pair of cut-offs, profiles withdrawn and given back | all hold |
| `avisos` | three requests on three notices and two parcels, the reminder among them | all hold |
| `imagens` | three requests that bring, remove or restore images, failing at any step | all hold |
| `cadastros` | three requests on carriers, condominiums and a pool of three connections | all hold |
| `leituras` | one client of five beside a world that changes | all hold |

`retirada_dupla` is an expected violation: its property is a rule that the code's own message
states and that the model of the code breaks. `PROJECT.json` quotes it.

`GuardasSeIsolada`, the rules of `contas_sequencial` (`RegrasSemSobreposicao`) and those
stated for isolated requests elsewhere (`JustificadaSeIsolada`, `IsoladaCumpre`) hold *only*
without overlap: every write names a uuid and repeats no condition. `retirada_dupla` shows
one such overlap; the others have the same shape (two receptions, a write-off over a
hand-over, a removal of a parcel handed over, two registrations of one cpf, an approval
across condominiums after a move).

Some things the models do that a reader may not expect are no violation of anything the
repository states, and are listed under `hazards` instead: a super or admin may register a
parcel for the holder of another condominium; an announced parcel and a new morador are
announced in every condominium; two confirmations of one reset token, when they overlap or
when the first is interrupted, both set a password; an account removed, its cpf reused, and
restored gives two accounts of one cpf; a morador is shown, by the filter of events, events
that opening refuses.

The properties of `concorrente`:

- `UltimoEventoContaOStatus`: the history never disagrees with the row. It holds because
  the event is inserted under the row lock; a handler that changed the status without one,
  or after the commit, would break it.
- `EstadoConfirmado`: no reader sees `recebida`, nor a collected parcel without hand-over.
- `EntregueAQuemPodia`: whoever is recorded as receiver was entitled, although the check is
  done on a snapshot. It holds *only* because owner and condominium of a row never change
  and every operation that lists a person checks it against them.
- `AvisoAcompanhaEvento`: notices and history are written together or not at all.
- `SemOrfaos`: `hardRemove` against movements in every order.
- `PushAcompanhaAviso`: whoever is told by a push finds its notice in the table, unless the
  parcel was hard-removed since; and every notice of a reception has its push. A push is
  scheduled before the row is promoted, read again and audited, each of which may fail, so
  this rests on the wait for the promise; without one (`TemPromessa` FALSE) it does not hold.
- `RemovidaNaoMuda`: a movement that had read the parcel before it was deleted does not
  change it afterwards. It is the final read that protects it, not the first.
- `CicloDaEncomenda`: the refinement.

The properties of the accounts and devices:

- `VinculoCoerente`: profile, condominium and unit are written by different handlers
  (`updateRole`, `updateUnidade`, the deletion of a unit), none of which looks at the
  others' column. It holds because no handler takes a condominium away and no handler
  makes a super, who has none, into something else.
- `RemovidoNaoMuda`: as for parcels, the read after the write protects a removed account.
- `RegrasSemSobreposicao`: `CpfUnico`, an admin stays in the own condominium, nobody
  changes a super and no admin an admin.
- `SenhaPorQuemPodia`, `TokenGastoNaoVolta`, `AtivadaPorCodigo`: although every `UPDATE`
  names a uuid only, no interleaving lets a token, or a session with or without the old
  password, set the password of another account, keeps a token alive after the answer, or
  activates without a code.
- `DonoSoPorRegistro`: whichever of several registrations, removals and invalidations comes
  last, the device is of an account that registered it; late removals and invalidations hit
  their own column only.
- `JustificadaSeIsolada`, `IsoladaCumpre`: what each handler achieves alone.
- `PrazoExato`, `SenhaDesdeOCorte`: the life of a gate's token ends on the next cut-off and is
  never zero; the two readings of the clock let it live a moment longer and no shift longer.
- `PerfilRetiradoTemPrazo`: the guard trusts the token, so a withdrawn profile works on for
  the life of one token; that it is not longer is due to `refreshTokens` reading the account.

The properties of notices, images and catalogues:

- `RespostaVerdadeira`: every answer is true of the committed rows when it is given. A notice
  removed while it is being marked is marked all the same; the last `SELECT` keeps it out of
  the answer.
- `SoQuemPode`: rights are judged on a snapshot, and hold of the row that is written because
  the owner of a notice never changes.
- `LembreteEncontrado`: whoever the reminder was pushed to finds a notice of each parcel the job
  had read, and no notice is about a parcel that is gone, although parcels are deleted between
  the read of the job and its `INSERT` and notices are marked, removed and restored by others
  before the push. Only a hard removal, of the parcel or of a notice, takes it away.
- `LinhaTemArquivo`, `SobraSoDeFalha`, `TudoOuNada`: which rows may lack a file (an upload
  whose row was committed and could not be read back, since its `catch` deletes the file),
  which files may lack a row (the failures named, the failure of the clean-up itself among
  them), and that the images of a movement share its fate.
- `TravaSoNoLimite`: a request that holds a connection and asks for a second one can only
  stop the system in the company of as many of its kind as the pool is large.
- `RemovidaFica`, `EfeitoAuditado`: a row of the audit trail and the change it tells of are
  committed together, and it tells the truth although what was read may be stale.

The properties of the readers:

- `RegrasConcordam`: a code signed is accepted while nothing changes; of what the lodge
  accepts, the hand-over refuses exactly the bearers who are not approved moradores; what a
  list shows is what may be opened; what the lodge is offered is what it may register for.
  Each side is a function of its own in the code.
- `PercursoCompleto`: what a walk over the pages may promise although each page counts and
  selects at its own time: no repetition without an arrival, no omission without a departure.
  Its conditions say what may come between two pages without harm.
- `HistoriaContaOStatus`: the event on top of the history is the status, if receptions take
  less than the minute by which the second event is dated ahead and nothing follows within it.
- `PainelCerto`: periods partition the calendar; numbers of one answer differ by no more than
  what was committed between its queries; a parcel collected counts on some day.

**Bounds.** One parcel suffices for `concorrente`: no statement of one parcel's handlers
reads or locks another parcel, and the uuid of a create is fresh; three requests is the
least with which a parcel is created and two requests then overlap on it. `termino` has the
same requests of every kind, and of the people only a morador, an admin and a super, who
between them may start each of the operations that change a parcel: what a transaction waits
for does not depend on who opened it. `contas_concorrente` has a super, an approved morador
and a fresh uuid, two units of two condominiums and three requests open at once: a handler,
one that changes its target and one that changes what it refers to. `contas_sequencial` has
four accounts and three requests, as long as the shortest way to a repeated cpf.
`recuperacao` has two accounts (a token or code of the wrong one), two codes and four
requests (a code asked, replaced, confirmed, and one more). `dispositivos` has one phone,
since no handler relates two, and three requests at once: two that race for it and a push.
`sessoes` has a day of three seconds with cut-offs at any two of them, equal ones included,
and runs for two days: the functions of the clock only compare and wrap around. `avisos` has
one notice to begin with and two to insert, an account of each kind of right, a parcel of
the morador and one of the admin, and three requests: one that checks, one that changes what
it checked, and the job. `imagens` has three lengths of an image, within both limits,
between them and above both, and up to two images for each of two requests. `cadastros` has
as many requests as connections, which is what it takes to exhaust the pool, and two
condominiums and a carrier that share unique values. `leituras` has three changes of the
world, two parcels, two accounts and pages of one row, so that a change can come before,
between and after two pages; four events, with a minute of two instants; eight hundred days,
which hold a leap day and two ends of a year; and two days of the dashboard. The theorems of
section 5 do not depend on these bounds.

## 4. Fairness

`Justica` is weak fairness of `Prossegue(r)` for each request and of `VitimaDeImpasse`. Node
resumes every continuation whose statement has been answered, InnoDB hands a released lock
to a waiter and detects wait cycles. No fairness is assumed of the arrival of requests
(`Comeca`), of failures (`Abortar`) or of pushes. Weak fairness is enough because a request
that waits for a row is only passed over by requests that end themselves, and the workload
is finite.

## 5. Proofs

### Parcels

`Encomendas_proofs.tla` proves for all constants that satisfy the assumptions
`DadosDosUsuarios` and `NuloForaDasTabelas` (where a theorem needs more, its statement says so):

| theorem | statement |
|---|---|
| `Indutivo` | `Spec => []IInv` |
| `Tipos` | `Spec => []TypeOK` |
| `HistoricoEmDia` | `Spec => []UltimoEventoContaOStatus` |
| `SoEstadosFinais` | `Spec => []EstadoConfirmado` |
| `EntregaAutorizada` | `Spec => []EntregueAQuemPodia` |
| `NadaOrfao` | `Spec => []SemOrfaos` |
| `PushIndutivo` | `TemPromessa => (Spec => []PushInv)` |
| `PushesValem` | `TemPromessa => (Spec => []PushAcompanhaAviso)` |
| `RemovidaIntocada` | `Spec => RemovidaNaoMuda` |
| `RelatoIndutivo` | `Spec => []Relato` |
| `AvisoComEvento` | `Spec => []AvisoAcompanhaEvento` |
| `CicloCumprido` | `Spec => CicloDaEncomenda` |
| `GuardasValem` | `SpecIsolada => GuardasSeIsolada` |

None of the properties is inductive alone: each speaks of committed rows, and what a commit
writes depends on what the transaction has read and written before. `IInv` adds

- `Base`: types; a request holds a row exactly between its first write and its end
  (`Fases`); two requests never hold the same row (`Trancas`); every uuid in use was drawn
  (`Emissao`); a parcel under creation is unknown to everybody else (`Criacoes`);
- `Abertos`: for every open request, what it has read is still true as far as it relies on
  it (`LidoValido`: only owner and condominium, which never change), and the row it has
  written is the committed row but for the columns of its operation (`MovimentoValido`,
  `MarcacaoValida`), with its events in step;
- `Gravados`: a committed hand-over names who did it and somebody entitled.

The lemma `Passo` sorts the actions of `Next` into eight kinds (a read, an insert, an update,
an event, a promotion, a commit, the halves of a hard removal, an end without effect), and
there is one preservation lemma per kind for `Base`, `Abertos` and the committed tables.

Three more invariants stand on `IInv`:

- `Relato`: the history rows an open request holds are those its holder is told of
  (`EventoAnunciado`), and its row shows a hand-over exactly when the committed row did or
  the request is one (`EntregaConta`). When the request commits, rows, history and notices
  therefore change together, which is `AvisoAcompanhaEvento`. The refinement needs it too: it
  says which step of the life cycle a commit is.
- `PushInv`: the pushes of an open transaction are unsent and are those of the notices it will
  write, those of a committed one are those of its notices, and a transaction undone has
  none. It needs the promise: `TemPromessa` is a hypothesis, not an assumption, of `PushesValem`.
- `Isoladas`: a request that nothing has overlapped is the only one open and its checks still
  hold of the committed row, so that its commit obeys `GuardasSeIsolada`.

`CicloCumprido` is proved step by step (`CicloStep`): `Confirmar` maps to a registration, a
movement or a change of the mark of `CicloEncomenda`, the insert of `create` to the draw of
a uuid, the end of a `create` without a commit to its loss, `ApagarLinha` to the deletion, and
every other action leaves `Situacao` of every parcel as it is.

### Activation and passwords

`Autenticacao_proofs.tla`, first part, from `Valores` and `NuloNaoEhPedido`:

| theorem | statement |
|---|---|
| `Indutivo` | `Spec => []IInv` |
| `Tipos` | `Spec => []TypeOK` |
| `SenhaAutorizada` | `Spec => []SenhaPorQuemPodia` |
| `TokenGasto` | `Spec => []TokenGastoNaoVolta` |
| `AtivacaoComCodigo` | `Spec => []AtivadaPorCodigo` |
| `IsoladasValem` | `Spec => []Isoladas` |
| `JustificadasValem` | `Spec => JustificadaSeIsolada` |

A confirmation compares with a row that may have changed when it writes, so the invariant
cannot relate the request to the row. It relates both to the past: `Tokens` and `Codigos`
(what a row holds was stored by a finished request of its account), `Pedidos` (what an open
confirmation has seen was, too), `Senhas` and `Ativas` (what a row shows was written by a
request of its account). A finished request never changes (`Permanece`), so these facts
survive whatever becomes of the row. A request that nothing overlaps knows more: `Isoladas`
says that it is the only one open and that the row still entitles it to what it is about to
write (`Justo`).

### Devices

`Dispositivos_proofs.tla`, from `Valores`, `NuloNaoEhLinha` and `NuloNaoEhPedido`:

| theorem | statement |
|---|---|
| `Indutivo` | `Spec => []IInv` |
| `Tipos` | `Spec => []TypeOK` |
| `ContasExistentes` | `Spec => []SoDeContasExistentes` |
| `DonoPorRegistro` | `Spec => DonoSoPorRegistro` |
| `CumpridoSemSobreposicao` | `Spec => IsoladaCumpre` |

`IInv` adds `Formas` (which phases belong to which operation) and `Sozinhas`: an isolated
open request is the only one open, and what it has read or written is still so (`Vale`).
The lemma `Avanco` says once what any step of a handler must show; `PassoIsolado` draws
`IsoladaCumpre` from `Vale`.

### Sessions

`Autenticacao_proofs.tla`, second part, for any day, cut-offs, lifetimes and number of
requests:

| theorem | statement |
|---|---|
| `SessoesIndutivo` | `SessoesSpec => []SessoesInv` |
| `SessoesTipos` | `SessoesSpec => []SessoesTypeOK` |
| `CorteExato` | `SessoesSpec => []PrazoExato` |
| `CortePedeSenha` | `SessoesSpec => []SenhaDesdeOCorte` |
| `RetiradoTemPrazo` | `SessoesSpec => []PerfilRetiradoTemPrazo` |

`PrazoExato` is arithmetic of one state, over `hora` and `cortes`. The two others are about
tokens signed long before: `SessoesInv` dates every token and every open request (a gate's token
ends on a cut-off after the password was given, but for the time between the two readings of
the clock; a token's profile was the account's at most a request ago), and that date is kept
by every step because only the clock moves.

### Accounts

`Usuarios_proofs.tla`, from `Tabelas` and `SementeCoerente`:

| theorem | statement |
|---|---|
| `Indutivo` | `Spec => []IInv` |
| `Tipos` | `Spec => []TypeOK` |
| `VinculosCoerentes` | `Spec => []VinculoCoerente` |
| `RemovidoIntocado` | `Spec => RemovidoNaoMuda` |
| `RegrasValem` | `Spec => RegrasSemSobreposicao`, given the three hypotheses below |

`IInv` adds to `VinculoCoerente` the `Base` of types, phases, locks and uuids; `Pedidos`, the
little that an open request still knows of its target although the row may have changed (who
changes profile has a condominium); and `Imagens`, that a row written and not committed is
the committed row with the columns of its operation replaced.

`RegrasValem` assumes that one request is open at a time (`Simultaneas = 1`), that nothing is
restored (`"restore" \notin Operacoes`) and that no two accounts of the seed which are not
removed share a cpf (`SementeSemRepeticao`). Without any of the three the rules are false of
the code: see section 3. Its invariant `SInv` is `IInv` with `Sozinha` (one open request at
most), `Justos` (what that request has checked is still so: the cpf is free, the target is
below the caller and in the same condominium) and `CpfUnico`.

### Notices

`Notificacoes_proofs.tla`, from `Tabelas`:

| theorem | statement |
|---|---|
| `Indutivo` | `Spec => []IInv` |
| `Tipos` | `Spec => []TypeOK` |
| `LembretesEncontrados` | `Spec => []LembreteEncontrado` |
| `RespostasVerdadeiras` | `Spec => RespostaVerdadeira` |
| `SoQuemPodeMuda` | `Spec => SoQuemPode` |

A commit installs what was computed earlier. `Lidos` says what of a read outlasts it: the
caller's right to each notice asked for, since its owner never changes, as long as the row is
there. `Gravados` says that the rows written are the committed ones with the columns of the
operation replaced, which the locks (`Trancas`) guarantee; a row just inserted is known to
nobody (`Emissao`, `Desconhecidas`). `LInv` follows what a reminder leaves: the rows it has
written name parcels that exist, one for each parcel it read, and after its commit they stay.

### Images

`Imagens_proofs.tla`, from `Valores`, `NuloEhOutro` and `NuloNaoEhPedido`:

| theorem | statement |
|---|---|
| `Indutivo` | `Spec => []IInv` |
| `Tipos` | `Spec => []TypeOK` |
| `LinhasComArquivo` | `Spec => []LinhaTemArquivo` |
| `SobrasSoDeFalha` | `Spec => []SobraSoDeFalha` |
| `TudoOuNadaVale` | `Spec => []TudoOuNada` |

The disk and the table are two stores that no transaction joins. `Situacoes` tells, for each
request and each of its phases, what there is of its images in the one, in the other and in
the transaction that is still open; the three properties read off the cases. `Alvos` says
that a row somebody is about to mark or unmark is still there.

### Catalogues and the pool

`Cadastros_proofs.tla`, from `SimultaneasNatural`, `NuloEhOutro` and `MaximoNatural`:

| theorem | statement |
|---|---|
| `Indutivo` | `Spec => []IInv` |
| `Tipos` | `Spec => []TypeOK` |
| `SoTravaNoLimite` | `Spec => []TravaSoNoLimite` |
| `RemovidaMesmoFica` | `Spec => RemovidaFica` |
| `AuditoriaVerdadeira` | `Spec => EfeitoAuditado` |

`IInv` is made of the types (`Tabelas`), who waits for a connection (`Filas`), which phases
belong to which operation (`Fases`), the row locks (`Trancas`), what a transaction has written
(`Escritas`: its statement, applied to the row as committed) and rows that are gone
(`Apagadas`: by a hard removal that was audited). `Posses` adds which request has a
connection in which phase, and that the pool lends no more than it has. If the pool is stuck,
every connection is held by a transaction that waits for a second one: an injection from the
connections to such requests gives `SoTravaNoLimite` for every size of the pool.

### The reading side

`Leituras_proofs.tla`, for any parcels, moradores, units, accounts, size of a page, filters,
minute and bounds, from the assumptions of the modules it composes (the table of parcels is
finite, `TabelaFinita`; profiles are no moradores, `PerfilNaoEhPessoa`; the missing value is
none of the values, `NuloNaoEhLinha`, `Tempos`, `DatasNaturais`, `NuloForaDosIndices`; and the
kinds of the numbers, `Perfis`, `TamanhoNatural`, `ValidadeNatural`, `FiltrosPossiveis`):

| theorem | statement |
|---|---|
| `Indutivo` | `Spec => []IInv` |
| `Tipos` | `Spec => []TypeOK` |
| `RegrasValem` | `Spec => []RegrasConcordam` |
| `PercursoVale` | `Spec => []PercursoCompleto` |
| `HistoriaVale` | `Spec => []HistoriaContaOStatus` |
| `PainelVale` | `Spec => []PainelCerto` |

`IInv` has one part per client, and each part survives the steps of the others because they
leave its variables alone.

- **Codes** (`QrInv`): while no row has changed since the parcels were read, they are as they
  were read and the right to those already judged stands; the parcels of a signed code are of
  its condominium, since a set of condominiums with one member has no other. The rules of the
  lists and of the moradores (`ListasAcertam`, `MoradoresAcertam`) are compared in any one
  state of the right types and need no more.
- **Pages** (`ListaInv`): the rows of a page are a piece of a sequence into which a set is
  sorted, and induction over sequences is out of reach. What replaces it is the position of a
  parcel, the number of parcels in view that are not older (`Posicao`). `PosicaoNaOrdem` shows
  that, without equal dates, the position of the i-th parcel is i. Then: as long as nothing
  came into view, what was shown and is still there has a position within the pages already
  turned (`SemSobra`); as long as nothing left, what was there at the start was shown or has a
  position beyond them (`SemFalta`); and the count of a page covers what there is
  (`ContagemCobre`), so the last page counted is the last one (`PaginasCobrem`).
- **History** (`HistInv`): events are numbered as they are inserted and none is dated more than
  a minute after the last movement; as long as nothing was hurried, the one inserted last
  comes after all others and has the status of the parcel. Removal and restoration change
  neither number nor date.
- **Calendar**: `PeriodosCertos` is arithmetic. Month `12 * a + j` begins after the days of
  `a` years with their leap days and of `j` months (`MesDoAno`), so each month begins where the
  one before ends (`MesSeguinte`), months are in order (`MesesEmOrdem`), and every date is in
  exactly one (`MesUnico`, `MesDaData`).
- **Numbers** (`IndicesInv`): each answer is as far from the count of its rows as was written
  since. A change of the world moves no count by more than what it notes (`PoucoMudou`), and
  an answer is exact when given (`RespostasAgora`), a grouped one because counts by a key add
  up to the count (`SomaContagem`, by an injection instead of a sum over a set).

### Only model-checked

`TodaRequisicaoTermina` is the one property of a passing run without a theorem: TLAPS proves
neither liveness under fairness nor facts about `ENABLED`. `RegrasSemSobreposicao` is proved
under the hypotheses its run has.

## 6. What is not modelled

- Texts, formats and validation of the bodies beyond the fields a model has; the rows that
  `enrichWithRelacionamentos` joins to a list; the listings of notices, units and audit rows,
  which are a scope and a page like those of `Listagens`.
- Mails (`email`): a failure is caught and changes no table. The WhatsApp functions of
  `notificacoes.service.ts`, which nothing calls.
- Throttling, pipes, error pages, the start of the process and the provider of Firebase.
- The best-effort audit rows of `auth`, and the bytes of images in the dashboard.
- Migrations are read as the definition of the tables; seeds are data.
- Retries by clients: a repeated request is another request.

## 7. Plan

Done: the modules of section 2, and a theorem of section 5 for every safety and action
property that the runs check. What could follow: the listings that section 6 names, which are
a scope and a page like those of `Listagens`; and the progress of the other transactions,
which are shorter than those of `Encomendas` and wait for the same locks.
