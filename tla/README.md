# White House Village: a formal model of the house's back office

The repository is the back office and the public site of a holiday house with eight
apartments, sold one by one or, as *White House Completa*, all together. A Go API
(`src/apps/api`) over PostgreSQL holds all the state; a worker of the same program expires unpaid
pre-bookings; an admin panel (React) and a static site are its clients.

This directory holds TLA+ modules translated from that code, TLC configurations that
model-check them on small instances, and theorems checked by TLAPS. Names in the modules are
the code's own (in Portuguese) wherever TLA+ allows it. `PROJECT.json` maps every definition
to the lines it models.

## 1. The system

### Components, their state, and what makes each one correct

| Component | State | Operations | Hard behaviour | Correct when | Modules |
|---|---|---|---|---|---|
| Reservations engine (`modules/reservas`) | `reservations`, `reservation_units`, `reservation_pricing`, `reservation_events`, `stay_blocks` | create, confirm, cancel, no-show, rebook, check in and out, reassign the unit, extend a hold, block, release | ten handlers and a worker write two tables that duplicate status and deadline; `now()` is older than the row lock | no night sold twice; the calendar agrees with the sale; no cent is lost; every hold ends | `Reservas` |
| Calendar (`stay_blocks`, `stay_no_overlap`) | blocks: unit, half-open period, status, owner | insert, change status | the exclusion constraint is the only arbiter between sales | stays are taken, released and exchanged whole | `Exclusividade`, `RefinaExclusividade` |
| Automatic agenda (`domain/agenda`) | check-in, check-out and cleaning events of a reservation | hooks on confirm, check-in, check-out, cancel, rebook | early departure, cancellation with the guest inside | what is still to be done is scheduled, and nothing else | `AgendaDaReserva` |
| Worker (`reservas/expiracao.go`) | one advisory lock | expire batches, `SKIP LOCKED` | races with confirm, extend, rebook | only unpaid holds expire, and all of them do | in `Reservas` (batches) |
| Inventory (`modules/inventario`) | `unit_types`, `units`, `unit_type_members` | replace a composition, change `consumes` | READ COMMITTED statements against sales in flight; deferred triggers | a sale's units are those its product declares | `VendaConcorrente` |
| Idempotency (`platform/idempotencia`) | `idempotency_keys` | take, wait, repeat, store | double clicks, resends, crashes, lost acknowledgements | one effect per key; true replies; no poisoned key | `Idempotencia` |
| Transactions (`platform/db`) | one transaction per operation | begin, retry on 40001/40P01/55P03, roll back | crossed waits, budget of attempts | every request ends | in both of the above |
| Public pre-booking (`vitrine/prereserva.go`) | open holds of a phone, its contact | `POST /public/holds` | count, key, contact and hold are four steps | repetitions are recognised | `PreReserva` |
| Agenda (`modules/agenda`) | `agenda_events`, `agenda_settings` | mark, edit, finish, cancel; change the hours; fill; what each step of a reservation does to its events | four kinds of lock (reservation, event, unit, hours) taken in several orders; lists read before them | events follow their reservation and the hours in force; markings do not cross | `Agenda` |
| Maintenance (`modules/manutencao`, `domain/maintenance`) | `maintenance_orders`, their blocks, the damage report they come from | open, start, finish, cancel, block, release; resolve and delete a damage | order, block and report are three tables; midnight passes inside a transaction | a closed order frees the future and leaves the past | `Manutencao` |
| Goods (`modules/bens`) | placements, prices, counts and their lines, damage reports | place, copy, import, open, count, close and cancel a count, report, delete | phones count while somebody closes; two tabs close; a copy lands behind a count | a shortage opens one report; a closed count is final | `Conferencias` |
| Rates and policies (`modules/tarifario`) | rate tables, rates, versions of two policies, tiers | publish, save the grid, edit one rate, deactivate a table | whole-grid saves against single edits; check-then-act on the last table | versions tell their history; a save does what it declares | `Politicas`, `Cancelamento`, `Grade`, `Tabelas` |
| Pricing and search (`domain/booking`, `domain/calendar`, `modules/disponibilidade`) | none of its own | price a stay, days of a product, map of units | three questions over one configuration, asked by different statements | a quote adds up to the cent; the three answers agree | `Motor` |
| CRM and quotes (`modules/crm`, `disponibilidade/*orcamentos*`) | leads, cards, stages, automatic tasks, quotes | convert, move, lose, win, reopen, issue, send, sell a quote | a statement that waits for a row decides on what it saw before the wait | a won card and a sold quote are one sale | `Oportunidades` |
| Sessions (`internal/auth`) | `refresh_tokens`, `password_resets`, `users` | login, rotate, log out, recover, change password, deactivate | rotation races, reuse detection, crashes between statements | one live token per family; the alarm is only ever true | `Sessoes` |
| Users and roles (`modules/users`, `modules/roles`) | `users`, `roles`, the matrix, one advisory lock | create, edit, demote, deactivate; create, delete, replace the matrix | read and authorise before the lock, count after it | the house keeps somebody who can administer | `Administradores` |
| Live updates (`platform/realtime`, `modules/stream`, `lib/tempo-real`) | ring buffer, subscribers, cursors; in the tab two cursors, what was drawn, fetches | notify, replay, fan out, cut, refuse, renew, reconnect, fetch | gaps while reconnecting, backpressure, commits out of id order, owners that change, fetches that fail or reject | no silent loss but through five known holes | `TempoReal` |
| Contacts (`modules/contatos`) | people | register, anonymize | unique phone | – | only the record `PreReserva` needs |
| Site content, HTTP, audit, PII, tools, front ends | – | – | – | – | not modelled (section 6) |

### How the parts meet

- A sale (`emitir`) reads the product from the inventory, prices it, numbers the reservation
  (which locks the year's row of `reservation_code_counters` until the commit), inserts it,
  then inserts blocks until the exclusion constraint accepts. The agenda hooks run in the same
  transaction. A rebooking calls the same `emitir` after it released the old blocks.
- `TxManager.Do` wraps every operation and repeats it whole on contention. The idempotency key is
  taken and answered *inside* that transaction, so work and key are one fact.
- The pre-booking calls `reservas.Criar` as the site's service account, after reads and a
  contact creation that are *outside* that transaction.
- The worker meets the API only in the database.
- Winning a card sells its quote: `crm` calls `disponibilidade`, which calls `reservas.Criar`
  with the key `crm-win-quote-<id>`.
- A damage report may become a maintenance order; an order holds nights in the same calendar
  the sales do.
- Every commit on those tables notifies the hub, which tells the panels to fetch again.

## 2. The modules

| Module | What it is | Checked by | Theorems |
|---|---|---|---|
| `AgendaDaReserva` | `domain/agenda/reservation.go` as operators on the three events | with `Reservas` | |
| `Reservas` | the engine: one action is one committed transaction | `MCReservas` | `ReservasProofs` |
| `Exclusividade` | abstract calendar: take, release, exchange whole stays | with `Reservas` | |
| `RefinaExclusividade` | the refinement mapping from `Reservas` (`Calendario!Spec`) | `MCReservas` | `ReservasProofs` |
| `VendaConcorrente` | one action is one SQL statement: sales, blocks, compositions, `consumes` | `MCVendaConcorrente` | `VendaConcorrenteProofs` |
| `Idempotencia` | keys inside managed transactions, crashes, resends | `MCIdempotencia` | `RepeticaoProofs` |
| `PreReserva` | EXTENDS `Idempotencia`: the anonymous handler in front of it | `MCRepeticao` | `RepeticaoProofs` |
| `Sessoes` | tokens, families, recovery links, one statement at a time | `MCRepeticao` | `RepeticaoProofs` |
| `Agenda` | manual and automatic events, settings, and what reservations do to them | `MCAgenda` | `AgendaProofs` |
| `Oportunidades` | leads, cards and quotes, with stale reads after a wait | `MCOportunidades` | `PainelProofs` |
| `Manutencao` | orders, their block, their damage report, the days | `MCManutencao` | `ManutencaoProofs` |
| `Conferencias` | placements, counts, damage reports | `MCConferencias` | `ConferenciasProofs` |
| `Cancelamento`, `Politicas` | tiers; versions of the two policies under their advisory lock | `MCConfiguracao` | `ConfiguracaoProofs` |
| `Grade`, `Tabelas` | the grid of one table; the life of the tables | `MCConfiguracao` | `ConfiguracaoProofs` |
| `Motor` | prices and availability | `MCConfiguracao` | `ConfiguracaoProofs` |
| `Administradores` | users, roles, matrices and the lock of the last administrator | `MCConfiguracao` | `ConfiguracaoProofs` |
| `TempoReal` | commit to screen | `MCTempoReal` | `PainelProofs` |

`Reservas` is coarse in time and complete in operations; the others open the transaction. The
grain of `Reservas` is what its code pays for: every handler begins with `TravarReserva`
(`SELECT ... FOR UPDATE`), so handlers of one reservation run one after the other, and two
colliding INSERTs cannot both commit. What remains concurrent is modelled: `now()` is fixed when
the transaction begins and the lock may come later, so each action reads an instant up to
`EsperaMax` ticks old. `VendaConcorrente` checks that grain: `UnidadeDeUmSo` (a part of
`VendaInteiraESo`) is `SemSobreposicao` one statement at a time.

### How a transaction is written

In the statement-level modules a request is a record (`pedido`, `requer`, `edicao`, `mudancas`) that goes from step to step:

- A step is one or more statements between which nothing of others matters: a lock with what is read
  under it, a write that may wait, the COMMIT. Writes become visible at the commit, together.
- A lock is a name in the request's `travas` (or a column `trava`), and its absence in the
  others' the guard of the step. It goes with the transaction, however that ends.
- What a statement read and the code uses later is a field of the record (`lido`, `antes`,
  `periodo`, `dia`, `vistas`), so that stale uses are representable. Where PostgreSQL re-evaluates only the
  locked row after a wait (EvalPlanQual), the field keeps what the statement joined *before* the wait.
- `Cair` (`CairVisita`, `CairMudanca`, `CairEdicao`, `CairRequisicao`) is the client, the process, a deadline or `lock_timeout`: the transaction is undone from
  any step. A refusal that changes nothing is no step, or is `Cair`.
- Modules that share a run have names of their own for what they share in kind: `InitSite`, `NextGrade`, `SpecEquipe`.

### Correspondence with the code

`Reservas`:

| TLA+ | Code |
|---|---|
| `status`, `prazo`, `remarcadaDe` | `reservations.status`, `hold_expires_at`, `rebooked_from_id` |
| `estadia` | `unit_type_id`, `check_in`, `check_out` |
| `conta` | `reservation_pricing` and the money events (deposit, credit, refund, retention) |
| `extensoes`, `entrada`, `saida` | the `hold_extended`, `check_in`, `check_out` events |
| `unidadesDe`, `blocos`, `agenda` | `reservation_units`, `stay_blocks`, automatic agenda events |
| `agora` | the database clock |
| `Criar`, `Confirmar`, `Cancelar`, `Remarcar`, `RegistrarCheckIn`, `RegistrarCheckOut`, `Realocar`, `EstenderHold`, `Bloquear` | the handlers of `service.go`, `service_acoes.go`, with every call they make that changes state |
| `Expirar`, `Tique` | one batch of the worker; time |

Days and hours are one clock. Prices come from an arbitrary set `Totais`; the frozen cancellation
policy is the sequence `Faixas`; percentages round as `Cents.Pct`. The order of the candidate units
is a preference, so any free one may be chosen.

`VendaConcorrente`:

| TLA+ | Code or database |
|---|---|
| `membros`, `consome` | committed `unit_type_members`, `unit_types.consumes` |
| `passo`, `tentativas` | where a transaction is; attempts spent by `TxManager.Do` |
| `lido`, `lista`, `antes` | what it read: product, candidates, composition |
| `unidades`, `apagadas`, `alvo` | its uncommitted rows |
| `Numerar` | `proximo_codigo_reserva`, the default of `reservations.code` |
| `InserirBlocos`, `GanharUnidades`, `PerderUnidades` | `AlocarUmaUnidade`, `AlocarComposicaoCompleta`: insert, wait, 23P01 and savepoint |
| `ConferirVenda`, `ConferirTroca`, `ConferirConsumo` | the deferred constraint triggers |
| `EsperaPor`, `EstourarEspera` | lock waits; `lock_timeout` (55P03) and the deadlock detector (40P01), both repeated |

The rows of one statement are inserted together and then compared with the others', which allows every
wait row-by-row insertion allows. All sales ask for the same nights. The trigger
`unit_types_composicao_completa` only finds sales that `conferir_troca_de_consumes` has
already refused, so it is folded into `ConferirConsumo`. The product of a replacement is read before
its transaction (`SubstituirComposicao`), that of a sale inside it.

`Idempotencia`, `PreReserva`: `Tomar`, `Ler` and `EmVoo` are `Reservar`; `Publicar` is `Guardar` and COMMIT;
`Recusar` a rule's refusal; `Contender` a repeated attempt; `ComitarSemSaber` a COMMIT whose
acknowledgement is lost; `Perder` a client or process that goes away. A resend is another member of
`Pedidos` with the same key, so it may arrive before, during or after the first. The case `status IS NULL`
of `Reservar` is unreachable because the row is published with its reply (`ChaveSoComEfeito`).
`PreReserva` adds the handler's order: quote, count, key, contact, service. The hash includes the
contact's id (`Impressao`).

`Sessoes`: `tokens`, `resets`, `contas` are the three tables; a row inserted is `pendente` until the
commit and one updated is locked (`trava`). `Refresh` is `rotacionar` (the conditional UPDATE that
arbitrates the race), then `gravar`, or the reuse path `reuso`, `revogar`; `Logout` and the changes of
password revoke a family or all (`alvo` is what that UPDATE's snapshot saw); a recovery link goes
`consumir`, `senha`, `revogar`.

`Agenda`: `reserva` is a stay with its unit and state, `evento` a row of `agenda_events`, `horario` the
version of `agenda_settings`. `Criar`, `Editar`, `Vincular`, `ConferirUnidade`, `Gravar` are the manual
events; `TravarReserva`, `Preparar`, `TravarEventosDaRealocacao`, `Passo` the hooks (`AoConfirmar`,
`AoCancelar`, `AoRealocar`, check-in and out); `TravarConfiguracao`, `GravarConfiguracao` the hours;
`ReservasParaPreencher`, `PreencherReservasConfirmadas` the fill; `ExpirarLote` the worker, which
does not touch the agenda.

`Oportunidades`: `lead`, `card`, `orcamento` are the rows; `reserva` is what the key
`crm-win-quote-<id>` made; `ocupada` says the dates were sold to somebody else; `naEspera` and `trocados` are
histories: leads that were decided on after a wait, and leads whose card an edit took away. A PATCH or PUT of a card is
`AtualizarOportunidade`, after `TrocarLead` (the key of the new lead, which may be waited for) when it names another lead or none. Every `Travar...` has the branch of the waiter, which keeps
the joined rows of before. `Manutencao`: `ordem`, `bloco`, `avaria`, and `hoje`, the day of `now()`; the
pure rules `Next_`, `Replan`, `Liberavel` are `domain/maintenance`. `Conferencias`: a *good* is a pair (room,
item); `pedido[p].linhas` is what a request wrote or read before its commit.

`Politicas`, `Grade`, `Tabelas`, `Motor`: `versoes` are the rows of each policy; `celula` the rows of
`rates` of one table and `antes`/`vistas`/`grava` what a save read, saw and wrote; `tabela` the rows of
`rate_tables`. `Motor`: `Classify` is the kind of a night, `Inicios` the loop of `applyPackages` (for each night, where the turn that disposed of
it began), `Repartir` the price of a night of a package, `Build` and `Quote` the quote, in whole cents; `Orcar`, `DiaDoProduto`,
`Ocupacao` and `StatusDaCelula` are the questions of `modules/disponibilidade`.
`Administradores`: `usuarios`, `matriz`, `papeis`, the advisory lock `travaAdm`. A request reads and authorises in
`Atualizar`, `Desativar` or `SubstituirPermissoes`, and counts under the lock in `ExigirOutroAdministrador` or
`NaoTirarOUltimoAdministrador`.

`TempoReal`: `mudancas` are commits in order with their transaction id `v` and whose the row was and became, `dono` the owner of each row now
(`PodeEntregar` asks for it when it delivers), `escuta` the LISTEN connection, `hub` cursor, base and ring buffer, `con`, `presas`, `fio` each SSE
connection and what is on its wire, `furos` the history of changes no notice can bring. `tela` is the tab: `ultimoId`, the cursor last read,
which the browser sends when it reconnects by itself, and `url`, the cursor frozen in the address when the tab reopened, which the proxy
prefers (`Apresenta`); `fonte`, the `EventSource` (alive; closed by an answer that is not 2xx; off, when the renewal failed too); the
deduplicator and the fetches. `Recusar` is such an answer (no cookie, no API, too many connections), `Renovar` the
renewal and its timer, `ReabrirFonte` the button or the network that is back, `VoltarParaFrente` the tab shown again. `Executar` starts a fetch and
`Desenhar`, `Falhar`, `Rejeitar` end it: data, an error code that is shown, or a rejection that nothing catches.

## 3. Runs

Each run finishes in one to three and a half minutes on two workers. One run asks several questions of
one instance where the instance is right for all of them. `MCRepeticao` and `MCConfiguracao` hold several small
instances that share no row: `parte` names the one that moves, the others stand still.

| Run | Instance | What it shows |
|---|---|---|
| `calendario` | two reservations and a block, two units, apartment and house (2.5M states) | no night twice, the house whole, and every transaction takes, releases or exchanges whole stays of `Exclusividade` |
| `dinheiro` | three reservations in a chain, three refund tiers (1.7M) | every cent accounted for |
| `prazo` | two reservations, one unit, extensions, instants read before the lock (1.9M) | calendar rows, agenda and slept nights follow the reservation; every hold ends (liveness) |
| `venda` | two sales against a reclassification; or one sale, a block, a replacement and a reclassification (0.8M) | a sale is whole and its own; two sales never wait for each other; every transaction ends (liveness) |
| `idempotencia` | four requests of one key: an original, its resend, another body, another owner | one effect, true replies, no poisoned key, everything ends (liveness) |
| `repeticao` | three requests over three tokens, two families and two links; or three pre-bookings of one phone (0.4M) | one live token per family, true alarms, a link spent once, a logout lost only to a rotation; a resend is recognised |
| `temporeal` | a client with scope `own`, one row, two commits that may move its ownership, and any two faults or gestures: LISTEN dies, restart, cut, refusal, reopening, tab shown again (1.0M) | the wire is in order and loses only what the known holes lose; the screen catches up unless the tab is off for good (liveness) |
| `agenda` | one stay, two marked events, two units, two versions of the hours, two requests (2.3M) | events follow their reservation and the hours; markings do not cross |
| `comercial` | one lead and no quote, or two quotes and no lead; two cards, two contacts, two requests (4.1M) | won card and sold quote are one sale; origin lost only in a wait or to an edit; the history is a chain |
| `manutencao` | two orders, a damage report, two blocks, two days, two requests (3.1M) | a closed order frees the future, the past stays, only the deletion of a damage report can cross waits |
| `conferencias` | two goods, one count, two damage reports, two requests (0.7M) | a shortage opens one report, a closed count is final, no copy lands behind a count |
| `configuracao` | publications, tiers, the grid, the tables, the engine over a season edited row by row, or three users and three roles (0.7M) | versions tell their history, one tier per day, every quote of every stay adds up and calendar, map and quote agree, a save does what it declares, the last table and the last administrator are lost only to a race |

Each property of a run has a mutant: a plausible bug in one definition (the operators commented
*Mutant* in the modules) under which TLC finds the property violated.

### Bounds, and why they are enough

- Two requests at a time (three in `repeticao` and `idempotencia`): every hazard listed is a race of two, and
  the theorems of section 4 say the same of any number. A third request is there where a crash or a resend must overtake a race.
- `Ids`: two reservations give every pair of competing handlers; three give a chain original → rebooked →
  rebooked, the shortest in which a credit left by one rebooking must be carried by the next. In `dinheiro` a first sale
  costs two cents and a replacement one or two, so that what was paid may exceed the new total.
- `Unidades`: two, the smallest house that can be split. `VendaConcorrente` has a third to grow or exchange.
- `Horizonte` (2 or 3): a stay, the night after it, and a deadline passing in between; `HoldHoras`, `HorasExtra` make
  a hold overdue within it. `EsperaMax` 1: one deadline can pass between `now()` and the lock. `MaxExtensoes` 2: no
  extension, one left, none left. `MaxBloqueios` 1: a block of either unit against every sale.
- `MaxTentativas` 1 or 2 where the code has 12: one repetition distinguishes the first attempt from a later one.
- `manutencao`: one block is a sale, one order comes from no damage report, and an order opened from a report asks for its period later
  (`bloquear`), not when it is created; two days, so that midnight may pass at any step.
- `conferencias`: people place two of a good, a copy brings any quantity; a shortage of either good, of both, or of none.
- `configuracao`, the engine: four nights hold a package and a night on either side of it, or two packages of two; totals that do not divide by their
  nights; packages of one length for different kinds, and one of three nights that the two-night ones compete with; a
  discount the office closes and one the policy refuses.
- `configuracao`, the rest: two tables, two products and two values of a rate; three versions of the commercial
  policy and two of the cancellation one, published one at a time there; a PATCH of a user carries a role or an active flag, not both, and the right over
  accounts is granted along with the right over roles.
- `temporeal`: buffers of one event, which overflow at the second. One row, since the deduplicator, the owner and the order of `v` are per row and the
  theorem is for any rows; two commits in either order of `v`, each leaving the row to the broker or to somebody else. `MaxFaltas` counts together
  deaths of LISTEN, restarts, cuts, refusals, reopenings and the tab shown again: two allow every pair, such as a reopening (which freezes a
  cursor) and then a cut (after which the browser reconnects with that frozen cursor). Commits, renewals, failed look-ups and fetches that
  fail or reject are not counted.
- Reservations, requests, tokens, goods and so on are interchangeable and declared symmetric where the run says so;
  runs with liveness declare no symmetry.

`CHECK_DEADLOCK FALSE` is set because each instance really stops: the clock ends at its horizon,
transactions and requests end, identifiers are spent.

### Fairness

- `WF(Tique)` and `WF(Expirar)` (`prazo`): time passes, and the worker runs every minute; a failed round is
  logged and the loop goes on (`Loop` in `expiracao.go`). Nothing is assumed of people.
- `WF(Andar(x))` (`venda`): the server executes the statement it is given, or `lock_timeout`
  (400 ms) cuts the wait. Cancellations and releases (`Encerrar`) are not fair.
- `WF(Andar(p))` (`idempotencia`): a handler that started runs to an end. Arrivals and crashes are not fair.
- `temporeal`: the hub's loop (`Abrir`, `MarcarLacuna`, `Consumir`, `Publicar`, `Fechar`) and each SSE handler (`Repor`,
  `LerAviso`, `Bater`, `Cancelar`) run; the browser reconnects while its `EventSource` is alive (`Assinar`); a renewal ends, well or not (`Renovar`);
  the tab reads (`Receber`), its timer runs (`Executar`), and a fetch ends, in one of its three ways. Deaths, cuts, refusals, restarts, commits and
  what a person or the network does are not fair. A tab whose renewal failed is off, no step of it is fair, and `TelaAlcanca`
  promises it nothing while it stays so; refusals that never end are outside the bound `MaxFaltas`.

## 4. Proofs

The theorems hold for every value of the constants that satisfies the named assumption of the module (`ConstantesA`
and `FaixasA`, `ConcorrenciaA`, `IdempotenciaA`, `PreReservaA`, `NinguemDeFora`, `PapelRaiz`, `PoliticasAssumption`, `TabelasAssumption`,
`GradeAssumption`, `MotorAssumption`, `TempoRealAssumption`, `AgendaAssumption`, `OportunidadesAssumption`, `ManutencaoAssumption`, `ConferenciasAssumption`): well-typed tables,
positive deadlines, percentages from 0 to 100, days below the greatest integer a tier may name (`SemTeto`), a null that is no identifier, and finiteness where a cardinality or a sum is spoken of. TLC evaluates
each on the runs above.

| Theorem | Property |
|---|---|
| `ReservasProofs!Tipos` | the domains of the columns |
| `ReservasProofs!NenhumaNoiteDuasVezes` | `SemSobreposicao` |
| `ReservasProofs!CalendarioConcorda` | `CalendarioSegueReserva` |
| `ReservasProofs!CasaSempreInteira` | `CasaInteira` |
| `ReservasProofs!EstadiaSempreDeixaRastro` | `EstadiaDeixaRastro` |
| `ReservasProofs!CaixaSempreConfere` | `CaixaConfere` |
| `ReservasProofs!Implementa` | `ImplementaExclusividade`: `Spec => Calendario!Spec` |
| `RepeticaoProofs!TiposIdem`, `ChaveGastaPeloEfeito`, `UmSoEfeito`, `RespostasVerdadeiras` | types, `ChaveSoComEfeito`, `UmEfeitoPorChave`, `RespostaVerdadeira` |
| `RepeticaoProofs!SiteCumpreAChave`, `RepeticaoSempreReconhecida` | the three properties of the key also of the pre-booking (`SpecSite`), and `RepeticaoReconhecida` |
| `RepeticaoProofs!TiposDasSessoes`, `FamiliaTemUmElo`, `AlarmeSoDeReuso`, `UmLinkUmaSenha`, `SaidaPerdeSoParaRotacao` | types, `UmElo`, `ReusoSoComSucessor`, `LinkGastoUmaVez`, and the action property `SaidaSoPerdeParaRotacao` |
| `VendaConcorrenteProofs!VendaSempreInteira`, `VendasNaoSeCruzam` | `VendaInteiraESo`, `VendasNaoSeTravam` |
| `VendaConcorrenteProofs!SoBloqueioFechaOCirculo` | a ring of waits of any length has an operational block in it |
| `AgendaProofs!EventoSempreSegue`, `HorarioSempreOVigente`, `MarcacoesNuncaSeCruzam` | `EventoSegueReserva`, `AutomaticoNoHorario`, `MarcacoesNaoSeCruzam` |
| `PainelProofs!VendaEUmaSo`, `SoEsperaOuTrocaPerdeOrigem`, `CardSempreConta` | `VendaDoCard`, `OrigemSoSePerdeAssim`, `CardContaAHistoria` |
| `ManutencaoProofs!OrdemEncerradaSolta`, `PassadoFica`, `SoApagarCruza` | `EncerradaNaoBloqueia`, the action property `PassadoIntocado`, `SoApagarSeCruza` |
| `ManutencaoProofs!NinguemEmCirculo` | while no damage report is being deleted, no ring of waits of any length |
| `ConferenciasProofs!CadaFaltaUmaAvaria`, `ContagemSempreVe`, `FechadaNaoMuda` | `FaltaViraUmaAvaria`, `ContagemVeACopia`, the action property `ApuracaoCongelada` |
| `ConfiguracaoProofs!EquipeTipada`, `ContagemSoCaiSemTrava` | types, and the action property `SoMudancaSemTravaDesfazAContagem` |
| `PainelProofs!OFioEhHonesto` | `FioHonesto` |
| `ConfiguracaoProofs!VersoesSempreContam`, `TodoDiaTemUmaFaixa` | `VersoesContamAHistoria`, `FaixaUnica` |
| `ConfiguracaoProofs!VigenteNuncaRecua` | `VigenteNaoRecua`: no version in force is replaced by an older one (an action property) |
| `ConfiguracaoProofs!SoQuemCorreuFura`, `SalvaSempreComoDeclarou` | the action properties `SoCorridaFuraAsTabelas`, `GradeDeclarada` |
| `ConfiguracaoProofs!OrcamentoSempreFecha`, `ConsultasSempreConcordam` | `OrcamentoFecha`, `ConsultasConcordam` |

### The arguments

**Calendar (`ReservasProofs`).** `TypeOK` is inductive, one lemma per action. `SemSobreposicao` rests on lemmas about
sets of blocks: releasing, re-labelling and inserting where `Ocupada` is false keep `Exclusivos`, and the
handlers release before they insert. `CalendarioSegueReserva` is inductive with `TypeOK`; `CoerentePreservado` disposes of
the reservations a handler does not touch. `CasaInteira` needs the strengthening `CasaAlocada` (a sold house has all its
members allocated, which no handler undoes because `Realocar` refuses houses). `EstadiaDeixaRastro` needs
`PassagemRegistrada`: an arrival is on record exactly of those who arrived.

**Money (`CaixaSempreConfere`).** `Soma` is the fold of the community modules over the reservations; its definition is unfolded with the
least counterexample (`TemMenor`, every set of naturals that is not empty has a least element) instead of an induction schema, which gives `SomaMuda`: a sum
changes by what one of its terms changes. The invariant `Caixa` adds to the equality of the two sums what makes each
step keep it (`ContaCoerente`): a hold has no money, an unused id nothing at all, and whoever was rebooked is cancelled, so
its account is neither counted again nor cancelled again. A confirmation adds as much on both sides, a cancellation splits
an account without changing its total (`DevolucaoCabe` bounds the rounded refund by its base), a rebooking moves the balance whole (`ContaNovaGuarda`).

**Refinement (`Implementa`).** The occupations of `Exclusividade` are read from the active blocks. Given
the invariants above, what is read is one whole stay per live reservation and one per operational block
(`Lidas`), so each handler is one of three steps: it adds a set of stays nobody holds (`Criar`,
`Bloquear`), removes some (cancelling, leaving, a batch of expirations), or exchanges one (`Remarcar`, `Realocar`);
`Confirmar`, `EstenderHold` and `RegistrarCheckIn` change status and deadline of rows that stay active, and stutter. `VendaInteira` (every live
reservation has units its product sells) is the part of the invariant that makes what is taken sellable.

**Keys (`RepeticaoProofs`).** `ChaveSoComEfeito` is inductive with `PosseUnica` (one transaction at a time works under
a key, and only while it is unspent) and `LinhaDoPedido` (a row keeps the reply of a request that names it). One effect
per key follows: a row names one request, and both effects would be it. True replies need `SoConcluido` and
`SemRespostaAntes`: a request without effect was told nothing yet, so no later commit makes a reply false.

**Pre-booking (`RepeticaoProofs`).** A phone has one contact and those who reached the service have theirs (`ContatoInv`), so the hash of body and
contact tells apart exactly what the bodies do (`ImpressaoEhDoCorpo`). With that hash every step of `PreReserva` is a step of `Idempotencia`
(`NextCom(Impressao)`) or leaves the key alone: the invariants of the keys carry over, and a mismatch is only ever of another body.

**Sessions (`RepeticaoProofs`).** The invariant says who owns each uncommitted row (`NovosDeUmSo`, `FamiliaNova`), what a
request knows (`PedidosCoerentes`, `LinksExistem`), that the token being exchanged is locked and unspent (`Queimando`),
and `Alcance`: what a revocation in course will leave alive was born of a token it waited for, which is the
action property one step earlier.

**Sales by statement (`VendaConcorrenteProofs`).** In three layers. The counter of the year belongs to one sale
(`ContadorDeUma`), rows come only after it (`SemLinhas`), and who passed the exclusion constraint shares nothing (`Separadas`).
Then `Escolha` and `Contada` follow a sale from the list it read to the count of the deferred trigger; what
keeps them is `ConsumoEspera` (from its count on, a sale keeps a reclassification of its product from committing) and
`ComposicaoFica`. Last, each kind of transaction climbs `Degrau`, a fixed order of what it may wait for, so a ring
of waits would have to come down somewhere, and only an operational block does, being the one that takes nights without the counter.

**Agenda (`AgendaProofs`).** Requests hold no excluding locks together (`Exclusao`), and each *knows* something
its locks keep true until it commits (`TodosSabem`): the hours it read are in force; its reservation, or the
events of a queued reassignment, are as it saw them; what a marking cites stands because the reservation or the
event is locked; the units it queues for are free of other markings. The lemmas `Restou...` say what the pure rules
leave of an event, `OutroSabe` that what the others know survives a commit; one lemma per action puts them together.

**Funnel (`PainelProofs`).** The same shape: `Exclusao`, and `TodosSabem` made of `SabeOAlvo` (a request past its first
step has its card or lead), `DonoSabe` (the card it holds is still at the stage it read) and `QuemEscolheu` (the quote it chose
has the price and contact it read, and the card that contact). A card whose lead is not the one it was converted from is of a lead somebody waited for or an edit is on record for (`trocados`). `Vendido` and `GanhoPorUm` state `VendaDoCard` row by row; `FS_Singleton` turns
the second into the cardinality.

**Maintenance (`ManutencaoProofs`).** `Etapa` and `Travas` say where a request may be and what it holds there, `CalendarioDeUm` and
`OrdemDeUm` that those locks exclude, and `Leu` that what was read under them is still so, which is preserved because
of the other two. `BlocoProprio` and `SemOrfao` tie each order to its row of the calendar, both ways. `EncerradaNaoBloqueia`,
`PassadoIntocado` and the order of waits follow.

**Counts (`ConferenciasProofs`).** `Guardado` is what the lock of each request keeps true, `Sozinhos` which two requests never
meet; `CopiaSemContagem` and `Escrita` say that bulk and counts exclude each other, and `NascidaDeFechada` that the reports
counted by `FaltaViraUmaAvaria` are only born in a closing. The closing itself is a bijection between the shortages and the
new rows, whence the cardinalities.

**Users and roles (`ConfiguracaoProofs`).** The lock's holder knows that somebody outside its target sustains administration (`Sustentam`). Each
kind of step keeps that or is one of those the property names: what is written without the lock grants, or changes the role of
a user read as no administrator (`MudancaCoerente`).

**Policies.** A publication that passed the lock knows the last version (`PublicacaoCoerente`), which is what numbers follow dates by;
dates in order make the version in force one (`UmaSoVigente`), so the panel and a quote read the same. A version that is appended begins no
earlier than the last (`VigenteAvanca`), so the one in force only moves forward.

**Tiers (`TodoDiaTemUmaFaixa`).** Every published version passed `cobrituraCompleta` (`FaixasValidas`, inductive). In the order of their floors each
tier ends where the next begins; the last that begins by a day (the greatest element of a finite set) covers it, and any other ends
before or begins after it (`CobreUmaVez`). `Simulate` walks the tiers in the order they were sent and takes the first that applies, which is
therefore that one; `DevolveDoPago` bounds the rounded refund.

**Tables.** A request whose `mudou` is false read the tables as they are (`LeuAsTabelas`): the count it decided on is of now.

**Grid.** A row is written by one request (`Apartadas`, both ways: rows and keys), what a save locked is as it read it (`SalvaCoerente`), and
no key is twice among what a request sees (`VistaSemRepetir`). The summary is then true of the committed rows before and after.

**Quotes (`OrcamentoSempreFecha`).** The configuration changes one row at a time, so the invariant is only the types of the columns (`TiposMotor`); the
work is in the operators, and the lemmas are of every stay and every package list. The sum of the community modules is unfolded once (`ParcialExiste`, by the least
counterexample) into `ParteRetira`, one term set apart, whence a sum is the sum of its parts (`ParteUne`, `ParteAgrupa`) and grows with its terms (`ParteCresce`).
The loop of `applyPackages` is the function `Inicios`; `IniciosAndam` says its turns are intervals that follow each other, `PassadaAnda` that a turn ends inside the
stay. Each turn that took a package costs its total (`PacoteRepartido`: as many first nights get a cent more as the division leaves), less
than before, and the others cost what they did, so `PacotesAplicados` compares the stay turn by turn. The nights are then grouped a second
time, by line (`LinhasFecham`). Stating it for every value showed that an earlier clause was too strong: a line of packages of one length need
not cost a multiple of one total, because `rate_packages` is unique on length *and* kinds, so two packages of one length may differ in price;
`PacotesInteiros` says what is so, and the instance now has two of one length.

**Calendar and quote (`ConsultasSempreConcordam`).** A night is of the same kind in the calendar loaded for its stay and in that of the season (`MesmoTipo`: both keep
the holidays and periods of that day); `BuildResponde` is the order of the refusals, `MinimoPassa` that the greatest minimum passes a length exactly
when one does, `MotivoDoDia` the cases of `vendaveis` against the check of the composition. Map and counts agree because the busy units are
those with a block that is not finished (`CelulasConcordam`), and the rest is a difference of finite sets.

**Live updates (`OFioEhHonesto`).** A client is *owed* (`Deve`) a commit it has to see, has not drawn and will not get from a fetch under way or
from LISTEN, and that no known hole explains. What it is owed is on its connection, or still to be had: wherever the
connection is cut, the cursor it may present next is one from which the ring brings the commit, or one below the base, which is answered with a
resync (`Garantida`, `Alcance`). That must hold of three cursors at once, since the proxy may present either of two and the connection in course began at one of them: the one this connection has reached (`lido`), and the two
a reconnection may present (`VoltaGarantida`), the last read (`ultimoId`) and the one frozen in the URL (`url`). Order comes from `Caminho`:
what is on the socket, in the replay and in the channel follows `lido`, in that order, up to the last cursor given (`Teto`). A publication, a gap and a restart
move base, ring and `Teto` together, and the strengthening this needs is `HubCerto` (cursors in the ring are above the base, one after the
other). `Separar`, the loop of `reposicaoDe`, is unfolded by `PassagemExiste`; `PodaFaz` says what the window leaves.

### What stays with TLC

- Liveness (`HoldAcaba`, `TodasTerminam`, `TodoPedidoTermina`, `TelaAlcanca`): it needs ENABLED.

Every safety invariant and every action property of the runs is a theorem.

## 5. Where documents and code disagree

The models do what the code does. None of these has a run of its own; the properties named are defined in the modules, where TLC refutes them
on the instances above.

Reservations and inventory

1. `SaidaNaoPrecedeEstadia` (`Reservas`): check-in and check-out of a stay that has not begun are accepted and free
   its nights (`service_acoes.go:679`).
2. `ContagemDaCasa` (`VendaConcorrente`): a sale of the house and a growing composition pass each other's deferred check (write skew), and
   the counts the table's comment guarantees differ (`20260827100000_invariante_da_casa_inteira.up.sql:229`).
3. `UmaUnidadePorVenda`: the sale reads `consumes` before it locks the product (`reservas/service.go:267`); a change committed
   in between leaves a house sold under a product that is `one_member`. The opposite order is caught by the other trigger, which is why `CasaDeclarada` holds.
4. `ComposicaoPedida`: two concurrent replacements publish a union (`inventario/repository.go:376`).
5. `TetoPorTelefone` (`PreReserva`): the ceiling per phone is checked outside the transaction that creates the hold (`prereserva.go:245`).
   The ceiling is also counted before the key is looked up (`prereserva.go:248`), and editing a contact's phone changes the hash of a
   resend (`prereserva.go:256`).
6. A reschedule does not look at the deadline (`service_acoes.go:412`), so it revives an overdue hold that the comment of
   `Realocar` (`:772-778`) calls dead; it issues a new reservation, and with it the whole count of extensions (`:470`), although
   `openapi.yaml:4092-4095` says a human decides once they are used up. A reassignment after check-in cancels the whole old block, nights slept
   included (`repository_blocos.go:365`).
7. The deferred check compares sizes (`invariante_da_casa_inteira:120`), so a unit of the house exchanged for another
   during a sale goes through, although `inventario/service.go:583-587` calls that impossible.

Live updates

8. `openapi.yaml` and `hub.go` promise that nothing is lost in silence. `FioHonesto` and `TelaAlcanca` hold but for five holes, kept in `furos`:
   - `v` is the transaction id at its first write, so commits may invert it, and the panel's `Deduplicador` (`eventos.ts:84`, `<=`) discards the
     newer change, contrary to the migration `20260827120000` and to `openapi.yaml:10473`;
   - a client without a cursor gets neither a replay nor a resync (`hub.go`, `reposicaoDe`);
   - what happens before the first LISTEN of a process is never marked as a gap (`hub.go:241-247`);
   - a client with scope `own` is not told of a row that was deleted or given to somebody else before the delivery (`escopo.go:103-109`). The
     comment at `:74` leaves that to the screen's periodic fetch, and `lib/tempo-real` has none;
   - a fetch that rejects is caught by nobody (`atualizacao.ts:131-148`): no failure is shown and the notices that came during it are forgotten.

   Two more behaviours are no loss but belong here. The cursor of the URL wins over the browser's newer one (`proxy.ts:85`), so after a manual reopening
   each automatic reconnection replays what was read since; the deduplicator drops it (`eventos.ts:60-67`), and `CursoresEmOrdem` is stated from the cursor presented.
   A tab whose connection was refused and whose renewal failed is off (`sse.ts:266-269`) until it is shown again, the network returns or the button is pressed.

Users and roles

9. `SempreHaAdministrador` (`Administradores`) is what the comments promise (`users/service.go:248-250`, `roles/service.go:250-259`). A change of
   role read as no demotion is written without the lock, so it may land after its role was granted administration.

Maintenance and goods

10. Deleting a damage report while its order is closed may deadlock; `lock_timeout` and the retries resolve it (`SoApagarSeCruza` says it is the only one).
11. `nascidaNoFechamento` tells a report born in a closing by `reported_at = closed_at`, both `now()` of one transaction. Placements by hand,
    and switching a room or a good back on, do not take the unit's lock, so they may land behind an open count.

Agenda

12. `estadosQueAceitamVinculo` includes `hold`, but the worker that expires it never calls the agenda
    (`domain/agenda/reservation.go:22`). The fill lists reservations unlocked and may insert events for one cancelled meanwhile; `EventoSegueReserva` exempts
    exactly those (`semente`).
13. The comment in `AoRealocar` on the order of locks does not hold against `editar`.

CRM

14. The sub-select of `TravarLead` is as old as its wait (`repository_leads.go:193-221`): two simultaneous conversions make twin cards, contrary to
    `Converter`'s comment, and so does a PATCH that clears or changes `lead_id` between two conversions (`service_oportunidades.go:358-365`), with no race at all; a deletion that waited for a conversion deletes a converted lead. `TravarOportunidade` joins `crm_stages`, so a
    waiter gets 404 instead of 409 (`repository_oportunidades.go:234-262`).
15. `gravarEtapa` reads before it locks the funnel; `Concluir` repeated with `next_activity` creates it again although its comment says idempotent; a PATCH can
    reopen a cancelled automatic task on a lost card; `VincularAOportunidade` ignores that no row was updated.

Rates and quotes

16. Two concurrent saves of an empty scope merge into a grid neither sent; after a wait `CelulasDoEscopo` drops a row whose product changed, even if the new
    product is in the scope.
17. The last active table can be lost to two concurrent deactivations, or to a PATCH with `active=false`; `vigenciaCoerente` reads unlocked, and `rate_tables` has no
    CHECK, so two PATCHes can leave a table that ends before it begins.
18. A special period of kind `evento` is accepted but absent from `calendar.Precedence`, so on an ordinary day every quote answers `RATE_NOT_FOUND`.
19. `one_member` availability per day does not imply one unit free for the whole stay. The line of a package shows its first night's price.

## 6. What is not modelled

- *Inside the modelled parts.* Cadastral edits of a reservation (guests, notes, broker); window hours, people and notes of events; rescheduling and
  operational blocks seen from `Agenda`, and its swap of two events; `editar` of an order (title, supplier, costs); notes, photographs,
  quantity and outcome of damage reports, registration of rooms; administration of funnels and stages, expiry of quotes;
  moving a rate to another table; the ceiling of the panel's deduplicator, its `expiring` notice and offline flag; listings, audit rows. Each is a single-row write that no property here reads, or a refinement of data.
- *Rows of a matrix.* `Administradores` knows a cell of a role's matrix by its value: a cell that another replacement deleted and wrote again between the
  DELETE's snapshot and its end is taken as the row that was seen, where the code would leave the new one (or collide with it).
- *Times and limits.* The pool's limits, back-off times, throttling of logins; the worker's session lock across replicas
  (`expiracao.go:68`); activation of a unit against a sale in flight (`inventario/service.go:845`).
- *A quote over several statements.* `Motor` asks each question of one state of the configuration; the code reads it in several statements
  outside a transaction.
- *Components.* Contacts beyond the record `PreReserva` needs, site content and showcase (single-row CRUD), HTTP routing, audit, PII and
  configuration (transport and formatting), `cmd/seed`, `cmd/migrate` and the spreadsheet import's parsing (one-shot, sequential), the
  front ends but for `lib/tempo-real`.

Next: the lifecycle of the worker; edits of contacts under a pre-booking; a quote read in several statements.
