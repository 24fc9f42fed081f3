------------------------------ MODULE Reservas ------------------------------
(***************************************************************************)
(* The reservation engine (internal/modules/reservas): reservations, the   *)
(* stay_blocks rows that hold the calendar for them, their allocated       *)
(* units, the money their event log records, and the job that expires      *)
(* unpaid holds.                                                           *)
(*                                                                         *)
(* One action is one committed transaction.  That is the granularity the   *)
(* code buys with TravarReserva (SELECT ... FOR UPDATE) and with the       *)
(* exclusion constraint stay_no_overlap: two handlers of one reservation   *)
(* run one after the other, and two INSERTs of colliding blocks cannot     *)
(* both commit.  A refusal (409/422) rolls everything back and is a step   *)
(* that does not happen.  What is NOT atomic is time: now() is fixed when  *)
(* the transaction begins, and the handler may then wait for the row lock, *)
(* so every action reads an instant `t' that may be EsperaMax ticks old.   *)
(*                                                                         *)
(* One unit of the clock stands for a day and for the grain of a hold's    *)
(* deadline alike.                                                         *)
(***************************************************************************)
EXTENDS Integers, FiniteSets, FiniteSetsExt, Sequences, AgendaDaReserva

CONSTANTS
    Ids,            \* reservation ids
    Nenhuma,        \* SQL NULL where a reservation id is expected
    Unidades,       \* physical units
    Produtos,       \* sellable unit types
    Membros,        \* [Produtos -> SUBSET Unidades], unit_type_members
    Consome,        \* [Produtos -> {"one_member", "all_members"}]
    HoldHoras,      \* commercial_policies.hold_hours
    HorasExtra,     \* the hours an extend-hold may ask for
    MaxExtensoes,   \* commercial_policies.hold_max_extensions
    Faixas,         \* the frozen cancellation policy's tiers
    Totais,         \* totals the price engine may answer, in cents
    EsperaMax,      \* ticks a transaction may wait for a lock after now()
    Horizonte,      \* bound: last value of the clock and last day on sale
    MaxBloqueios    \* bound: operational blocks ever created

ASSUME ConstantesA ==
    /\ IsFiniteSet(Ids) /\ Nenhuma \notin Ids
    /\ Membros \in [Produtos -> SUBSET Unidades]
    /\ Consome \in [Produtos -> {"one_member", "all_members"}]
    /\ HoldHoras \in Nat \ {0}
    /\ HorasExtra \subseteq Nat \ {0}
    /\ MaxExtensoes \in Nat
    /\ Totais \subseteq Nat \ {0}
    /\ EsperaMax \in Nat
    /\ Horizonte \in Nat \ {0}
    /\ Produtos # {}
    /\ MaxBloqueios \in Nat

ASSUME FaixasA ==
    Faixas \in Seq([min : Int, max : Int, pct : 0..100])

-----------------------------------------------------------------------------
(* estados.go: the state machine of the contract.                          *)

Transicoes ==
    [inexistente |-> {"hold", "confirmed"},
     quote       |-> {"hold", "cancelled"},
     hold        |-> {"confirmed", "cancelled", "expired"},
     confirmed   |-> {"checked_in", "cancelled", "no_show"},
     checked_in  |-> {"checked_out", "no_show", "cancelled"},
     checked_out |-> {"closed"},
     closed      |-> {},
     cancelled   |-> {},
     expired     |-> {},
     no_show     |-> {}]

\* "inexistente" is an id no row uses yet.
Estados == DOMAIN Transicoes

PodeTransitar(de, para) == para \in Transicoes[de]

Cancelavel(e) ==
    e \notin {"inexistente", "cancelled", "expired", "no_show", "checked_out", "closed"}

\* The commercial states that hold a date.
Vivos == {"hold", "confirmed", "checked_in"}

\* The block statuses in the WHERE of stay_no_overlap.
Bloqueiam == {"hold", "confirmed"}

StatusDoBlocoPara(e) ==
    CASE e = "hold"                        -> "hold"
      [] e \in {"confirmed", "checked_in"} -> "confirmed"
      [] e \in {"checked_out", "closed"}   -> "completed"
      [] e = "expired"                     -> "expired"
      [] OTHER                             -> "cancelled"

-----------------------------------------------------------------------------
VARIABLES
    status,      \* reservations.status
    estadia,     \* reservations.unit_type_id, check_in, check_out
    prazo,       \* reservations.hold_expires_at
    extensoes,   \* number of hold_extended events
    remarcadaDe, \* reservations.rebooked_from_id
    conta,       \* reservation_pricing and the money events
    entrada,     \* day of the check_in event
    saida,       \* day of the check_out event
    unidadesDe,  \* reservation_units
    agenda,      \* automatic agenda events
    blocos,      \* stay_blocks
    agora        \* the database clock

vars == <<status, estadia, prazo, extensoes, remarcadaDe, conta, entrada,
          saida, unidadesDe, agenda, blocos, agora>>

SemPrazo == -1     \* hold_expires_at / expires_at IS NULL
SemDia   == -1     \* no such event recorded

Dias    == 0..Horizonte
Periodo == {p \in [de : Dias, ate : Dias] : p.de < p.ate}
Pedido  == {p \in [produto : Produtos, de : Dias, ate : Dias] : p.de < p.ate}
\* The value an id that no row uses yet happens to have.
SemEstadia == CHOOSE p \in Pedido : TRUE

Prazo   == Dias \cup {SemPrazo}

Bloco == [dono    : Ids \cup {Nenhuma},
          unidade : Unidades,
          de      : Dias,
          ate     : Dias,
          status  : {"hold", "confirmed", "cancelled", "expired", "completed"},
          expira  : Prazo,
          fonte   : {"reservation", "maintenance", "owner_hold"}]

\* total, deposit received, whether it was inherited from a rebooked
\* reservation, credit issued, and the outcome of a cancellation.
Conta == [total : Nat, pago : Nat, herdado : BOOLEAN, credito : Nat,
          devolvido : Int, retido : Int, aberto : Int]

ContaVazia == [total |-> 0, pago |-> 0, herdado |-> FALSE, credito |-> 0,
               devolvido |-> 0, retido |-> 0, aberto |-> 0]

Livres == {r \in Ids : status[r] = "inexistente"}

\* now() of a transaction that commits at `agora'.
Inicios == {t \in Dias : t <= agora /\ agora - t <= EsperaMax}

Menor(a, b) == IF a <= b THEN a ELSE b

-----------------------------------------------------------------------------
(* stay_blocks: half-open periods, the exclusion constraint, the moves.    *)

\* Mutant: only the first night of the new stay is looked at.
SobrepoeNaEntrada(p, q) == p.de <= q.de /\ q.de < p.ate

Sobrepoe(p, q) == p.de < q.ate /\ q.de < p.ate

Ativo(b) == b.status \in Bloqueiam

Ocupada(bs, u, p) == \E b \in bs : b.unidade = u /\ Ativo(b) /\ Sobrepoe(b, p)

BlocoDeReserva(r, u, p, st, exp) ==
    [dono |-> r, unidade |-> u, de |-> p.de, ate |-> p.ate,
     status |-> st, expira |-> exp, fonte |-> "reservation"]

\* Mutant: a block that stops being a hold keeps its deadline.
MoverComPrazo(bs, r, de, para) ==
    {IF b.dono = r /\ b.status \in de THEN [b EXCEPT !.status = para] ELSE b : b \in bs}

\* Mutant: the UPDATE reaches the row of one unit alone.
MoverUmaUnidade(bs, r, de, para) ==
    LET u == CHOOSE v \in unidadesDe[r] : TRUE
    IN  {IF b.dono = r /\ b.unidade = u /\ b.status \in de
         THEN [b EXCEPT !.status = para, !.expira = SemPrazo]
         ELSE b : b \in bs}

MoverBlocosDaReserva(bs, r, de, para) ==
    {IF b.dono = r /\ b.status \in de
     THEN [b EXCEPT !.status = para,
                    !.expira = IF para = "hold" THEN b.expira ELSE SemPrazo]
     ELSE b : b \in bs}

\* Mutant: the house is sold with whatever part of it is free.
AlocacoesParciais(bs, pedido) ==
    SUBSET {u \in Membros[pedido.produto] : ~Ocupada(bs, u, pedido)} \ {{}}

\* The sets of units a sale may be given.  all_members: the whole declared
\* composition or nothing.  one_member: any free member; the order in which
\* the candidates are tried is a preference, not a guarantee.
Alocacoes(bs, pedido) ==
    LET membros == Membros[pedido.produto]
        livres  == {u \in membros : ~Ocupada(bs, u, pedido)}
    IN  IF Consome[pedido.produto] = "all_members"
        THEN {us \in {membros} : us # {} /\ us \subseteq livres}
        ELSE {{u} : u \in livres}

Vencido(r, t) == prazo[r] # SemPrazo /\ prazo[r] < t

\* Bound: every deadline lies before the end of the clock.
CabeNoRelogio(instante) == instante < Horizonte

-----------------------------------------------------------------------------
Init ==
    /\ status      = [r \in Ids |-> "inexistente"]
    /\ estadia     = [r \in Ids |-> SemEstadia]
    /\ prazo       = [r \in Ids |-> SemPrazo]
    /\ extensoes   = [r \in Ids |-> 0]
    /\ remarcadaDe = [r \in Ids |-> Nenhuma]
    /\ conta       = [r \in Ids |-> ContaVazia]
    /\ entrada     = [r \in Ids |-> SemDia]
    /\ saida       = [r \in Ids |-> SemDia]
    /\ unidadesDe  = [r \in Ids |-> {}]
    /\ agenda      = [r \in Ids |-> SemAgenda]
    /\ blocos      = {}
    /\ agora       = 0

Atual == [status |-> status, prazo |-> prazo, agenda |-> agenda, blocos |-> blocos]

\* emitir: issue reservation r in state `estado' on top of `base', the rows as
\* the same transaction has already left them.  `saldo' is the guest's money
\* carried by a rebooking: what fits in the new total is applied, the rest
\* becomes credit.
Emitir(base, t, r, pedido, estado, origem, saldo) ==
    /\ r \in Livres
    /\ estado = "hold" => CabeNoRelogio(t + HoldHoras)
    /\ \E us \in Alocacoes(base.blocos, pedido), total \in Totais :
         LET expira   == IF estado = "hold" THEN t + HoldHoras ELSE SemPrazo
             aplicado == Menor(saldo, total)
         IN  /\ status' = [base.status EXCEPT ![r] = estado]
             /\ prazo' = [base.prazo EXCEPT ![r] = expira]
             /\ blocos' = base.blocos \cup
                    {BlocoDeReserva(r, u, pedido, StatusDoBlocoPara(estado), expira) : u \in us}
             /\ unidadesDe' = [unidadesDe EXCEPT ![r] = us]
             /\ conta' = [conta EXCEPT ![r] = [ContaVazia EXCEPT
                    !.total   = total,
                    !.pago    = aplicado,
                    !.herdado = (saldo > 0),
                    !.credito = saldo - aplicado]]
    /\ estadia' = [estadia EXCEPT ![r] = pedido]
    /\ remarcadaDe' = [remarcadaDe EXCEPT ![r] = origem]
    /\ agenda' = IF estado = "confirmed"
                 THEN [base.agenda EXCEPT ![r] = Plan(pedido)]
                 ELSE base.agenda
    /\ UNCHANGED <<extensoes, entrada, saida, agora>>

\* POST /reservations
Criar ==
    \E t \in Inicios, r \in Livres, pedido \in Pedido :
        Emitir(Atual, t, r, pedido, "hold", Nenhuma, 0)

\* POST /reservations/{id}/confirm
Confirmar(r, t, pago) ==
    /\ status[r] = "hold"
    /\ ~Vencido(r, t)
    /\ pago \in 1..conta[r].total
    /\ \E b \in blocos : b.dono = r /\ b.status = "hold"
    /\ blocos' = MoverBlocosDaReserva(blocos, r, {"hold"}, "confirmed")
    /\ status' = [status EXCEPT ![r] = "confirmed"]
    /\ prazo' = [prazo EXCEPT ![r] = SemPrazo]
    /\ agenda' = [agenda EXCEPT ![r] = Plan(estadia[r])]
    /\ conta' = [conta EXCEPT ![r].pago = pago]
    /\ UNCHANGED <<estadia, extensoes, remarcadaDe, entrada, saida, unidadesDe, agora>>

-----------------------------------------------------------------------------
(* The cancellation policy (domain/booking/cancellation.go).               *)

Aplicaveis(dias) ==
    {i \in DOMAIN Faixas :
        /\ Faixas[i].min >= 0 => dias >= Faixas[i].min
        /\ Faixas[i].max >= 0 => dias <= Faixas[i].max}

\* The first applicable tier decides; with none, nothing is refunded.
Decisivas(dias) == {i \in Aplicaveis(dias) : \A j \in Aplicaveis(dias) : i <= j}

Percentual(dias) ==
    IF Decisivas(dias) = {} THEN 0 ELSE Faixas[CHOOSE i \in Decisivas(dias) : TRUE].pct

\* Cents.Pct rounds half up.
Devolucao(base, dias) == (base * Percentual(dias) + 50) \div 100

\* The account after a cancellation: the base of the refund is what was paid,
\* capped at the total, and what the cap leaves over joins the open credit.
CalcularCancelamento(c, dias) ==
    LET base      == Menor(c.pago, c.total)
        devolvido == Devolucao(base, dias)
    IN  [c EXCEPT !.devolvido = devolvido,
                  !.retido    = base - devolvido,
                  !.aberto    = c.credito + (c.pago - base)]

\* Mutant: the calendar follows the commercial label alone.
SempreCancelado(hospedado) == "cancelled"

\* A guest who slept leaves a `completed' block, whatever the commercial label.
DestinoDoBloco(hospedado) == IF hospedado THEN "completed" ELSE "cancelled"

\* POST /reservations/{id}/cancel
Cancelar(r, t, destino) ==
    LET antecedencia == estadia[r].de - t
        diasDaFaixa  == IF destino = "no_show" THEN Menor(antecedencia, 0) ELSE antecedencia
        hospedado    == status[r] = "checked_in"
    IN  /\ destino \in {"cancelled", "no_show"}
        /\ Cancelavel(status[r])
        /\ PodeTransitar(status[r], destino)
        /\ conta' = [conta EXCEPT ![r] = CalcularCancelamento(conta[r], diasDaFaixa)]
        /\ blocos' = MoverBlocosDaReserva(blocos, r, Bloqueiam, DestinoDoBloco(hospedado))
        /\ status' = [status EXCEPT ![r] = destino]
        /\ prazo' = [prazo EXCEPT ![r] = SemPrazo]
        /\ agenda' = [agenda EXCEPT ![r] = OnCancel(agenda[r], hospedado, t)]
        /\ UNCHANGED <<estadia, extensoes, remarcadaDe, entrada, saida, unidadesDe, agora>>

\* Mutant: the credit left by an earlier rebooking is forgotten.
SaldoSemCredito(r) == IF status[r] = "confirmed" THEN conta[r].pago ELSE 0

\* What a confirmed reservation carries into its rebooking: the deposit
\* applied to it and the credit still open.
SaldoHerdado(r) ==
    IF status[r] = "confirmed" THEN conta[r].pago + conta[r].credito ELSE 0

\* Mutant: every rebooking has to be confirmed again.
SempreHold(r) == "hold"

\* The rebooked sale is issued in the state of the original.
EstadoDaNova(r) == status[r]

\* POST /reservations/{id}/reschedule: the original is released and cancelled,
\* and a new sale in the same state is issued, in one transaction.
Remarcar(r, t, nova, pedido) ==
    /\ status[r] \in {"hold", "confirmed"}
    /\ Emitir([status |-> [status EXCEPT ![r] = "cancelled"],
               prazo  |-> [prazo EXCEPT ![r] = SemPrazo],
               agenda |-> [agenda EXCEPT ![r] = OnCancel(agenda[r], FALSE, t)],
               blocos |-> MoverBlocosDaReserva(blocos, r, Bloqueiam, "cancelled")],
              t, nova, pedido, EstadoDaNova(r), r, SaldoHerdado(r))

-----------------------------------------------------------------------------
\* Mutant: arrivals are accepted from an unpaid hold.
PodeEntrarSemSinal(r) == status[r] \in {"hold", "confirmed"}

PodeEntrar(r) == status[r] = "confirmed"

\* POST /reservations/{id}/check-in, with the day of the instant it registers.
RegistrarCheckIn(r, dia) ==
    /\ PodeEntrar(r)
    /\ estadia[r].de <= dia /\ dia < estadia[r].ate
    /\ status' = [status EXCEPT ![r] = "checked_in"]
    /\ entrada' = [entrada EXCEPT ![r] = dia]
    /\ agenda' = [agenda EXCEPT ![r] = OnCheckIn(agenda[r])]
    /\ UNCHANGED <<estadia, prazo, extensoes, remarcadaDe, conta, saida,
                   unidadesDe, blocos, agora>>

\* POST /reservations/{id}/check-out
RegistrarCheckOut(r, dia) ==
    /\ status[r] = "checked_in"
    /\ estadia[r].de <= dia /\ dia <= estadia[r].ate
    /\ dia >= entrada[r]
    /\ blocos' = MoverBlocosDaReserva(blocos, r, Bloqueiam, "completed")
    /\ status' = [status EXCEPT ![r] = "checked_out"]
    /\ saida' = [saida EXCEPT ![r] = dia]
    /\ agenda' = [agenda EXCEPT ![r] = OnCheckOut(agenda[r], dia, estadia[r])]
    /\ UNCHANGED <<estadia, prazo, extensoes, remarcadaDe, conta, entrada,
                   unidadesDe, agora>>

\* The house already occupies every unit: there is nowhere to move it.
PodeRealocar(r) == Consome[estadia[r].produto] = "one_member"

\* POST /reservations/{id}/reassign-unit: close the block of the old unit, then
\* insert one for the new unit; an occupied destination rolls both back.
Realocar(r, t, de, para) ==
    LET soltos == {IF b.dono = r /\ b.unidade = de /\ Ativo(b)
                   THEN [b EXCEPT !.status = "cancelled", !.expira = SemPrazo]
                   ELSE b : b \in blocos}
    IN  /\ status[r] \in Vivos
        /\ ~Vencido(r, t)
        /\ PodeRealocar(r)
        /\ para \in Membros[estadia[r].produto]
        /\ de \in unidadesDe[r]
        /\ ~Ocupada(soltos, para, estadia[r])
        /\ blocos' = soltos \cup
               {BlocoDeReserva(r, para, estadia[r], StatusDoBlocoPara(status[r]), prazo[r])}
        /\ unidadesDe' = [unidadesDe EXCEPT ![r] = (@ \ {de}) \cup {para}]
        /\ UNCHANGED <<status, estadia, prazo, extensoes, remarcadaDe, conta,
                       entrada, saida, agenda, agora>>

\* POST /reservations/{id}/extend-hold: the new deadline counts from now().
EstenderHold(r, t, horas) ==
    /\ status[r] = "hold"
    /\ ~Vencido(r, t)
    /\ extensoes[r] < MaxExtensoes
    /\ CabeNoRelogio(t + horas)
    /\ prazo' = [prazo EXCEPT ![r] = t + horas]
    /\ blocos' = {IF b.dono = r /\ b.status = "hold"
                  THEN [b EXCEPT !.expira = t + horas]
                  ELSE b : b \in blocos}
    /\ extensoes' = [extensoes EXCEPT ![r] = @ + 1]
    /\ UNCHANGED <<status, estadia, remarcadaDe, conta, entrada, saida,
                   unidadesDe, agenda, agora>>

-----------------------------------------------------------------------------
(* The worker: one transaction expires a batch of overdue holds, skipping  *)
(* the rows another transaction has locked.                                *)

\* Mutant: only the holds that expired since the last round.
VencidasAgora(t) == {r \in Ids : t = agora /\ status[r] = "hold" /\ prazo[r] = t - 1}

Vencidas(t) == {r \in Ids : status[r] = "hold" /\ Vencido(r, t)}

ExpirarLote(t, lote) ==
    /\ lote # {}
    /\ lote \subseteq Vencidas(t)
    /\ status' = [r \in Ids |-> IF r \in lote THEN "expired" ELSE status[r]]
    /\ prazo' = [r \in Ids |-> IF r \in lote THEN SemPrazo ELSE prazo[r]]
    /\ blocos' = {IF b.dono \in lote /\ b.status = "hold"
                  THEN [b EXCEPT !.status = "expired", !.expira = SemPrazo]
                  ELSE b : b \in blocos}
    /\ UNCHANGED <<estadia, extensoes, remarcadaDe, conta, entrada, saida,
                   unidadesDe, agenda, agora>>

-----------------------------------------------------------------------------
(* Operational blocks: rows without a reservation, under the same          *)
(* constraint.                                                             *)

Operacionais == {b \in blocos : b.dono = Nenhuma}

CabeBloqueio(us, p) == \A u \in us : ~Ocupada(blocos, u, p)

\* POST /blocks: every unit of the request or none.
CriarBloqueio(us, p, fonte) ==
    /\ us # {}
    /\ Cardinality(Operacionais) + Cardinality(us) <= MaxBloqueios
    /\ CabeBloqueio(us, p)
    /\ blocos' = blocos \cup
           {[dono |-> Nenhuma, unidade |-> u, de |-> p.de, ate |-> p.ate,
             status |-> "confirmed", expira |-> SemPrazo, fonte |-> fonte] : u \in us}
    /\ UNCHANGED <<status, estadia, prazo, extensoes, remarcadaDe, conta,
                   entrada, saida, unidadesDe, agenda, agora>>

\* DELETE /blocks/{id}: never a reservation's block, never a closed one, and a
\* maintenance already over is history.
LiberarBloqueio(b, t) ==
    /\ b \in Operacionais
    /\ Ativo(b)
    /\ ~(b.fonte = "maintenance" /\ b.ate <= t)
    /\ blocos' = (blocos \ {b}) \cup {[b EXCEPT !.status = "cancelled", !.expira = SemPrazo]}
    /\ UNCHANGED <<status, estadia, prazo, extensoes, remarcadaDe, conta,
                   entrada, saida, unidadesDe, agenda, agora>>

-----------------------------------------------------------------------------
Tique ==
    /\ agora < Horizonte
    /\ agora' = agora + 1
    /\ UNCHANGED <<status, estadia, prazo, extensoes, remarcadaDe, conta,
                   entrada, saida, unidadesDe, agenda, blocos>>

Expirar == \E t \in Inicios : \E lote \in SUBSET Vencidas(t) : ExpirarLote(t, lote)

Acao(r) ==
    \/ \E t \in Inicios :
         \/ \E pago \in 1..conta[r].total : Confirmar(r, t, pago)
         \/ \E destino \in {"cancelled", "no_show"} : Cancelar(r, t, destino)
         \/ \E nova \in Livres, pedido \in Pedido : Remarcar(r, t, nova, pedido)
         \/ \E de, para \in Unidades : Realocar(r, t, de, para)
         \/ \E horas \in HorasExtra : EstenderHold(r, t, horas)
    \/ \E dia \in Dias :
         \/ RegistrarCheckIn(r, dia)
         \/ RegistrarCheckOut(r, dia)

Bloquear ==
    \/ \E us \in SUBSET Unidades, p \in Periodo, fonte \in {"maintenance", "owner_hold"} :
         CriarBloqueio(us, p, fonte)
    \/ \E b \in Operacionais, t \in Inicios : LiberarBloqueio(b, t)

Next ==
    \/ Criar
    \/ \E r \in Ids : Acao(r)
    \/ Expirar
    \/ Bloquear
    \/ Tique

\* Time passes, and the worker's loop runs every minute and survives a failed
\* round (Expirador.Loop), so an overdue hold is eventually swept.
Fairness == WF_vars(Tique) /\ WF_vars(Expirar)

Spec == Init /\ [][Next]_vars /\ Fairness

-----------------------------------------------------------------------------
(* Properties.                                                             *)

\* The columns keep their domains.
TypeOK ==
    /\ status \in [Ids -> Estados]
    /\ estadia \in [Ids -> Pedido]
    /\ prazo \in [Ids -> Prazo]
    /\ extensoes \in [Ids -> Nat]
    /\ remarcadaDe \in [Ids -> Ids \cup {Nenhuma}]
    /\ conta \in [Ids -> Conta]
    /\ entrada \in [Ids -> Dias \cup {SemDia}]
    /\ saida \in [Ids -> Dias \cup {SemDia}]
    /\ unidadesDe \in [Ids -> SUBSET Unidades]
    /\ agenda \in [Ids -> Agenda]
    /\ blocos \subseteq Bloco
    /\ agora \in Dias

DaNoite(b, d) == b.de <= d /\ d < b.ate

\* No two active blocks of one unit share a night.
Exclusivos(bs) ==
    \A b, c \in bs :
        (/\ Ativo(b) /\ Ativo(c) /\ b.unidade = c.unidade
         /\ \E d \in Dias : DaNoite(b, d) /\ DaNoite(c, d))
        => b = c

\* No night of a unit is promised twice, whatever sales, rebookings, unit
\* swaps, maintenance blocks and expirations came before: what stay_no_overlap
\* and the release-before-insert order of the handlers guarantee together.
SemSobreposicao == Exclusivos(blocos)

\* The active rows of reservation r among bs.
VivosDe(bs, r) == {b \in bs : b.dono = r /\ Ativo(b)}

\* The rows the calendar should have for a live reservation.
BlocosEsperados(r) ==
    {BlocoDeReserva(r, u, estadia[r], StatusDoBlocoPara(status[r]), prazo[r])
        : u \in unidadesDe[r]}

Coerente(r) ==
    IF status[r] \in Vivos
    THEN /\ unidadesDe[r] # {}
         /\ VivosDe(blocos, r) = BlocosEsperados(r)
         /\ (status[r] = "hold") <=> (prazo[r] # SemPrazo)
    ELSE /\ VivosDe(blocos, r) = {}
         /\ prazo[r] = SemPrazo

\* The calendar never disagrees with the sale: a live reservation holds one
\* block per allocated unit, with its period, the status its state calls for
\* and its deadline; any other reservation holds no date at all.  Every
\* handler moves the two tables separately and in its own order.
CalendarioSegueReserva == \A r \in Ids : Coerente(r)

AlugaTudo(r) == status[r] \in Vivos /\ Consome[estadia[r].produto] = "all_members"

\* The strengthening CasaInteira needs: the house is sold, and stays, whole.
CasaAlocada == \A r \in Ids : AlugaTudo(r) => unidadesDe[r] = Membros[estadia[r].produto]

\* Who rented the whole house has the whole house: every member unit is held
\* for every night of the stay, and nobody else holds any of them.
CasaInteira ==
    \A r \in Ids :
        AlugaTudo(r) =>
            \A u \in Membros[estadia[r].produto], d \in Dias :
                DaNoite(estadia[r], d) =>
                    {b.dono : b \in {c \in blocos : Ativo(c) /\ c.unidade = u /\ DaNoite(c, d)}}
                        = {r}

Remarcada(r) == \E q \in Ids : remarcadaDe[q] = r

\* What the house still owes or keeps for a reservation.  The account of a
\* rebooked one has moved to its successor.
Patrimonio(r) ==
    IF Remarcada(r) THEN 0
    ELSE IF status[r] \in {"cancelled", "no_show"}
         THEN conta[r].devolvido + conta[r].retido + conta[r].aberto
         ELSE conta[r].pago + conta[r].credito

\* What a guest really paid for it: a rebooking carries money, it does not bring any.
Entrou(r) == IF conta[r].herdado THEN 0 ELSE conta[r].pago

Soma(f) == MapThenSumSet(LAMBDA r : f[r], Ids)

\* No cent disappears or is counted twice: all the deposits guests really paid
\* equal what is applied, credited, refunded and retained, through any chain of
\* confirmations, rebookings and cancellations; and no refund is negative or
\* above what was paid.
CaixaConfere ==
    /\ Soma([r \in Ids |-> Entrou(r)]) = Soma([r \in Ids |-> Patrimonio(r)])
    /\ \A r \in Ids : conta[r].devolvido >= 0 /\ conta[r].retido >= 0

\* Nobody loses a paid stay to the clock: a reservation the worker expires
\* holds no money, not even what a rebooking carried into it.
ExpiradaNaoTemDinheiro ==
    \A r \in Ids : status[r] = "expired" => conta[r].pago = 0 /\ conta[r].credito = 0

\* The agenda tells what will happen at the house: before confirmation nothing;
\* after it the three events; and once a guest has slept there, a cleaning that
\* stays scheduled no later than the contracted day of leaving nor than the
\* registered departure.
AgendaSegueReserva(r) ==
    LET a == agenda[r] IN
    CASE status[r] \in {"inexistente", "hold", "expired"} -> a = SemAgenda
      [] status[r] = "confirmed"  -> a = Plan(estadia[r])
      [] status[r] = "checked_in" -> a = OnCheckIn(Plan(estadia[r]))
      [] OTHER ->
           IF entrada[r] = SemDia
           THEN "agendado" \notin {a.entrada, a.saida, a.limpeza}
           ELSE /\ a.entrada = "concluido"
                /\ a.saida # "agendado"
                /\ a.limpeza = "agendado"
                /\ a.diaLimpeza <= estadia[r].ate
                /\ saida[r] # SemDia => a.diaLimpeza <= saida[r]

\* A stay that happened stays on the map: whoever checked in keeps a block that
\* says the nights were slept, even if the sale ends cancelled.
EstadiaFicaNoMapa(r) ==
    entrada[r] # SemDia =>
        \E b \in blocos : b.dono = r /\ b.status \in {"confirmed", "completed"}

\* The strengthening EstadiaDeixaRastro needs: an arrival is on record exactly of those
\* who arrived, a departure of those who left.
PassagemRegistrada(r) ==
    /\ entrada[r] # SemDia => status[r] \in {"checked_in", "checked_out", "cancelled", "no_show"}
    /\ status[r] \in {"checked_in", "checked_out"} => entrada[r] # SemDia
    /\ saida[r] # SemDia => status[r] = "checked_out"

\* What happened to a stay can be read afterwards, on the agenda and on the map, by
\* whatever operations it went through (domain/agenda/reservation.go, service_acoes.go).
EstadiaDeixaRastro == \A r \in Ids : AgendaSegueReserva(r) /\ EstadiaFicaNoMapa(r)

\* The handlers take no edge the contract's state machine does not have.
TransicoesDeclaradas ==
    [][\A r \in Ids : status'[r] # status[r] => PodeTransitar(status[r], status'[r])]_vars

\* A hold is not forever: with the clock running and the worker alive, an
\* unpaid reservation stops holding its dates.
HoldAcaba == \A r \in Ids : (status[r] = "hold") ~> (status[r] # "hold")

-----------------------------------------------------------------------------
(* What a comment of the code says, and the code does not do.              *)

\* Check-in and check-out do not return a future sale to the stock.
SaidaNaoPrecedeEstadia ==
    \A r \in Ids : status[r] = "checked_out" => agora >= estadia[r].de
=============================================================================
