------------------------------- MODULE Agenda -------------------------------
(***************************************************************************)
(* The operational agenda (modules/agenda, domain/agenda): events marked   *)
(* by hand, the automatic check-in, check-out and cleaning of every        *)
(* reservation, the house's hours, and what each step of a reservation     *)
(* does to the events linked to it.                                        *)
(*                                                                         *)
(* Each request is a READ COMMITTED transaction: its statements are the    *)
(* steps below, its locks are in `travas' and its writes appear at once    *)
(* when it commits.  A window is a day and, for automatic events, the      *)
(* hours it follows: a version of agenda_settings, or Nenhum when a person *)
(* chose the hour.  A reservation occupies one unit.  What else occupies a *)
(* unit (stays, blocks, automatic events) may refuse any marking.          *)
(***************************************************************************)
EXTENDS Integers, FiniteSets

CONSTANTS Estadias,       \* rows of reservations
          Manuais,        \* rows of agenda_events with origin manual
          Unidades,
          Pedidos,        \* requests in course at the same time
          Nenhum,         \* NULL
          Periodo,        \* the days of arrival and of departure of each stay
          Tipos,          \* bound: types of automatic events (the code has three)
          Horarios,       \* bound: versions of agenda_settings
          UltimoDia,      \* bound: last day the clock reaches
          DiasMarcados    \* bound: the days people mark events on

ASSUME AgendaAssumption ==
    /\ UltimoDia \in Nat /\ DiasMarcados \subseteq 0..UltimoDia
    /\ Tipos \subseteq {"checkin", "checkout", "limpeza"} /\ {"checkout", "limpeza"} \subseteq Tipos
    /\ Periodo \in [Estadias -> {p \in [de : 0..UltimoDia, ate : 0..UltimoDia] : p.de < p.ate}]
    /\ Nenhum \notin Estadias \cup Manuais \cup Unidades \cup Pedidos \cup Horarios
    /\ (Manuais \cup {Nenhum}) \cap (Estadias \X Tipos) = {}

VARIABLES hoje, horario, reserva, evento, pedido

vars == <<hoje, horario, reserva, evento, pedido>>

Dias  == 0..UltimoDia
\* One automatic event per reservation and type (agenda_events_da_reserva_idx).
Automaticos == Estadias \X Tipos
Eventos == Manuais \cup Automaticos

EventoAusente == [estado |-> "ausente", reserva |-> Nenhum, unidade |-> Nenhum,
                  dia |-> 0, hora |-> Nenhum, semente |-> FALSE]
Livre == [op |-> "nenhuma", etapa |-> "livre", reserva |-> Nenhum, evento |-> Nenhum,
          unidade |-> Nenhum, alvo |-> EventoAusente, ocupa |-> {}, hora |-> Nenhum,
          lista |-> {}, dia |-> 0, travas |-> {}]

\* Reservations confirmed before the agenda existed have no events yet.
Init ==
    /\ hoje = 0
    /\ horario \in Horarios
    /\ reserva \in [Estadias -> [estado : {"hold", "confirmed"}, unidade : Unidades,
                                 realocada : {FALSE}, entrou : {FALSE}]]
    /\ evento = [x \in Eventos |-> EventoAusente]
    /\ pedido = [p \in Pedidos |-> Livre]

----------------------------------------------------------------------------
(* domain/agenda: pure rules.                                              *)

EstadosQueAceitamVinculo == {"hold", "confirmed", "checked_in"}
Agendado(e) == e.estado = "agendado"

\* A closed event keeps its row; of it only the day and the reservation of an
\* automatic one are read again, and the model keeps no more.
Fechar(x, e, estado) ==
    [e EXCEPT !.estado = estado, !.unidade = Nenhum, !.hora = Nenhum,
              !.reserva = IF x \in Manuais THEN Nenhum ELSE @]

\* The window of an automatic event on a day, by version `h' of the hours.
AutoWindow(e, dia, h) == [e EXCEPT !.dia = dia, !.hora = h]

\* The three events of a confirmed stay; a guest already inside has arrived.
Plan(r, h, hospedado) ==
    [t \in Tipos |->
        LET novo == [EventoAusente EXCEPT !.estado = "agendado", !.reserva = r]
        IN  CASE t = "checkin" /\ hospedado ->
                     Fechar(<<r, t>>, AutoWindow(novo, Periodo[r].de, h), "concluido")
              [] t = "checkin" /\ ~hospedado -> AutoWindow(novo, Periodo[r].de, h)
              [] OTHER -> AutoWindow(novo, Periodo[r].ate, h)]

\* A cleaning scheduled for after `dia' comes to `dia'.
TrazerLimpeza(e, dia, h) == IF e.dia > dia THEN AutoWindow(e, dia, h) ELSE e

OnCheckIn(x, e) ==
    IF x \in Manuais \/ ~Agendado(e) THEN e
    ELSE IF x[2] = "checkin" THEN Fechar(x, e, "concluido") ELSE e

\* Leaving early draws the check-out and the cleaning on the day the unit emptied.
OnCheckOut(x, e, dia, h) ==
    IF x \in Manuais \/ ~Agendado(e) THEN e
    ELSE LET cedo == dia < Periodo[e.reserva].ate IN
         CASE x[2] = "checkout" ->
                  Fechar(x, IF cedo THEN AutoWindow(e, dia, h) ELSE e, "concluido")
           [] x[2] = "limpeza" /\ cedo -> TrazerLimpeza(e, dia, h)
           [] OTHER -> e

\* Without the guest everything scheduled is cancelled; with the guest inside the
\* cleaning comes to today and what has begun by hand stays.
OnCancel(x, e, hospedado, dia, h) ==
    CASE ~Agendado(e) -> e
      [] Agendado(e) /\ x \in Manuais /\ hospedado /\ e.dia < dia -> e
      [] Agendado(e) /\ x \notin Manuais /\ hospedado /\ x[2] = "limpeza" ->
            TrazerLimpeza(e, dia, h)
      [] OTHER -> Fechar(x, e, "cancelado")

MovesOnReassign(x, e, de) == x \in Manuais /\ Agendado(e) /\ e.unidade = de

\* New hours move what is still exactly at the old ones, from `dia' on.
Retime(x, e, antiga, nova, dia) ==
    IF x \notin Manuais /\ Agendado(e) /\ e.dia >= dia /\ e.hora = antiga
    THEN AutoWindow(e, e.dia, nova) ELSE e

\* What /complete and DELETE accept; check-in and check-out follow the reservation.
Allowed(x, acao) ==
    IF x \in Manuais THEN TRUE ELSE acao = "concluir" /\ x[2] = "limpeza"

Accepts(x, e, acao, dia) ==
    /\ Agendado(e) /\ Allowed(x, acao)
    /\ acao = "concluir" => e.dia <= dia

----------------------------------------------------------------------------
(* What occupies a unit, among the events marked by hand.                  *)

UnidadesDaReserva(r) == IF r = Nenhum THEN {} ELSE {reserva[r].unidade}

\* The event's own unit or, without one, the unit of its reservation.
Candidato(e) == IF e.unidade # Nenhum THEN {e.unidade} ELSE UnidadesDaReserva(e.reserva)

\* CheckUnit against the other events scheduled by hand.
UnitConflicts(x, e, unidades) ==
    {y \in Manuais \ {x} :
        /\ Agendado(evento[y]) /\ evento[y].dia = e.dia
        /\ Candidato(evento[y]) \cap unidades # {}}

\* agenda_events_unidade_sem_sobreposicao: both events with a unit of their own.
Disputa(x, e) ==
    /\ e.unidade # Nenhum
    /\ \E y \in Manuais \ {x} : /\ Agendado(evento[y]) /\ evento[y].dia = e.dia
                                /\ evento[y].unidade = e.unidade

----------------------------------------------------------------------------
(* Locks.                                                                  *)

EventosDaReserva(r) ==
    {x \in Eventos : evento[x].estado # "ausente" /\ evento[x].reserva = r}
AutomaticosAgendadosDesde(dia) ==
    {x \in Automaticos : Agendado(evento[x]) /\ evento[x].dia >= dia}

TravarEventos(r) == {<<"evento", x, "exclusiva">> : x \in EventosDaReserva(r)}

\* Mutant: the state of the reservation is read without FOR KEY SHARE.
EstadoSemTrava(r) == {}

\* The reservation an event is linked to is read FOR KEY SHARE.
EstadoDaReserva(r) == {<<"reserva", r, "compartilhada">>}

\* Mutant: the steps of the reservation read the hours without a lock.
HorasSemTrava(op) == {<<"horario", Nenhum, "exclusiva">> : x \in {op} \cap {"configurar"}}

\* The hours: FOR UPDATE in PUT /agenda/settings, FOR SHARE in the reservation's steps.
Configuracao(op) ==
    {<<"horario", Nenhum, IF op = "configurar" THEN "exclusiva" ELSE "compartilhada">>}

\* Mutant: markings by hand on the same unit do not queue.
SemFila(unidades) == {}

\* The advisory locks of the units, until the transaction ends.
TravarUnidades(unidades) == {<<"unidade", u, "exclusiva">> : u \in unidades}

Choca(a, b) ==
    a[1] = b[1] /\ a[2] = b[2] /\ "exclusiva" \in {a[3], b[3]}

\* Nobody else holds what a statement of `p' wants.
Concedidas(p, travas) ==
    \A q \in Pedidos \ {p} : \A a \in travas : \A b \in pedido[q].travas : ~Choca(a, b)

\* The statement takes its locks and the request goes on to the next one.
Seguir(p, travas, novo) ==
    /\ Concedidas(p, travas)
    /\ pedido' = [pedido EXCEPT ![p] = [novo EXCEPT !.travas = @ \cup travas]]

\* The last statement takes its locks, and the transaction ends.
Terminar(p, travas) ==
    /\ Concedidas(p, travas)
    /\ pedido' = [pedido EXCEPT ![p] = Livre]
SoPedido == UNCHANGED <<hoje, horario, reserva, evento>>

\* A request appears when its first statement gets what it waited for; it may have
\* begun, and fixed now(), on an earlier day.
DiaDoPedido == 0..hoje

----------------------------------------------------------------------------
(* Marking, editing and closing by hand.                                   *)

\* What the event cites is standing: an open reservation, a unit of it.
ConferirVinculos(e) ==
    e.reserva # Nenhum =>
        /\ reserva[e.reserva].estado \in EstadosQueAceitamVinculo
        /\ e.unidade \in {Nenhum, reserva[e.reserva].unidade}

\* What a marking says: whose it is, where and when.
Marcar(e, r, u, d) ==
    [e EXCEPT !.estado = "agendado", !.reserva = r, !.unidade = u, !.dia = d]

\* An automatic event at the hour somebody chose.
Reagendar(e, d) == [e EXCEPT !.dia = d, !.hora = Nenhum]

\* The queue of the units the event would occupy comes next.
IrParaUnidades(r) == [r EXCEPT !.etapa = "unidades", !.ocupa = Candidato(r.alvo)]

Trava(tipo, x) == {<<tipo, x, "exclusiva">>}

\* POST /agenda/events: what it cites is locked and checked.
Criar(p) ==
    /\ pedido[p] = Livre
    /\ \E r \in Estadias \cup {Nenhum},
          u \in Unidades \cup {Nenhum}, d \in DiasMarcados :
          LET e == Marcar(EventoAusente, r, u, d)
          IN  /\ ConferirVinculos(e)
              /\ Seguir(p, IF r = Nenhum THEN {} ELSE EstadoDaReserva(r),
                     IrParaUnidades([Livre EXCEPT !.op = "criar", !.alvo = e]))
    /\ SoPedido

\* What an edit may turn the event into: all of a scheduled one marked by hand, the
\* hour of an automatic one, and the day of the cleaning, not before the check-out.
Editavel(x) ==
    LET e == evento[x] IN
    IF x \in Manuais
    THEN {Marcar(e, r, u, d) : r \in Estadias \cup {Nenhum},
                               u \in Unidades \cup {Nenhum}, d \in DiasMarcados}
    ELSE {Reagendar(e, d) :
            d \in IF x[2] = "limpeza"
                  THEN {n \in Dias : LET s == evento[<<x[1], "checkout">>]
                                     IN  s.estado = "cancelado" \/ n >= s.dia}
                  ELSE {e.dia}}

\* PUT and PATCH: the event's row is locked first and read then.  The reservation
\* is locked only when the link changes; without that the event's own lock keeps
\* the reservation's steps away from it.
Editar(p, x) ==
    /\ pedido[p] = Livre
    /\ Agendado(evento[x])
    /\ \E alvo \in Editavel(x) \ {evento[x]} :
          LET novo == [Livre EXCEPT !.op = "editar", !.evento = x, !.alvo = alvo]
              religa == alvo.reserva \notin {Nenhum, evento[x].reserva}
          IN  /\ \/ religa
                 \/ alvo.reserva = Nenhum
                 \/ alvo.unidade \in {Nenhum, evento[x].unidade} \cup UnidadesDaReserva(alvo.reserva)
              /\ Seguir(p, Trava("evento", x),
                     IF religa THEN [novo EXCEPT !.etapa = "vinculo"] ELSE IrParaUnidades(novo))
    /\ SoPedido

Vincular(p) ==
    /\ pedido[p].etapa = "vinculo"
    /\ LET r == pedido[p]
           travas == EstadoDaReserva(r.alvo.reserva)
       IN  IF ConferirVinculos(r.alvo) THEN Seguir(p, travas, IrParaUnidades(r))
           ELSE Terminar(p, travas)
    /\ SoPedido

\* /complete and DELETE decide on the locked row, at once.
Transitar(p, dia, x, acao) ==
    /\ pedido[p] = Livre
    /\ Accepts(x, evento[x], acao, dia)
    /\ Terminar(p, Trava("evento", x))
    /\ evento' = [evento EXCEPT ![x] =
                      Fechar(x, @, IF acao = "concluir" THEN "concluido" ELSE "cancelado")]
    /\ UNCHANGED <<hoje, horario, reserva>>

\* In the queue of the units, the conflicts are read; anything else that occupies
\* the unit refuses as well (Cair).
ConferirUnidade(p) ==
    /\ pedido[p].etapa = "unidades"
    /\ LET r == pedido[p]
           travas == TravarUnidades(r.ocupa)
       IN  IF r.evento \notin Automaticos /\ UnitConflicts(r.evento, r.alvo, r.ocupa) # {}
           THEN Terminar(p, travas)
           ELSE Seguir(p, travas, [r EXCEPT !.etapa = "gravar"])
    /\ SoPedido

\* INSERT or UPDATE, where the constraint has the last word, and COMMIT.
Gravar(p) ==
    /\ pedido[p].etapa = "gravar"
    /\ LET r == pedido[p] IN
       \E x \in IF r.op = "editar" THEN {r.evento}
               ELSE {y \in Manuais : evento[y].estado = "ausente"} :
          evento' = IF x \in Manuais /\ Disputa(x, r.alvo) THEN evento
                    ELSE [evento EXCEPT ![x] = r.alvo]
    /\ Terminar(p, {})
    /\ UNCHANGED <<hoje, horario, reserva>>

----------------------------------------------------------------------------
(* The steps of a reservation and its agenda, one transaction.             *)

DaReserva == {"confirmar", "cancelar", "entrada", "saida", "realocar"}

\* The states a step accepts.
Aceita(op, estado) ==
    CASE op = "confirmar" -> estado = "hold"
      [] op = "entrada"   -> estado = "confirmed"
      [] op = "saida"     -> estado = "checked_in"
      [] OTHER            -> estado \in EstadosQueAceitamVinculo

TravarReserva(p, dia, r, op) ==
    /\ pedido[p] = Livre
    /\ Aceita(op, reserva[r].estado)
    /\ \E u \in IF op = "realocar" THEN Unidades \ {reserva[r].unidade} ELSE {Nenhum} :
          Seguir(p, Trava("reserva", r),
             [Livre EXCEPT !.op = op, !.etapa = "horario", !.dia = dia,
                           !.reserva = r, !.unidade = u])
    /\ SoPedido

\* Every step of a reservation reads the hours before anything of the agenda.
Preparar(p) ==
    /\ pedido[p].etapa = "horario"
    /\ Seguir(p, Configuracao(pedido[p].op),
              [pedido[p] EXCEPT !.etapa = "eventos", !.hora = horario])
    /\ SoPedido

Leva(r) == {x \in EventosDaReserva(r.reserva) :
              MovesOnReassign(x, evento[x], reserva[r.reserva].unidade)}

\* A reassignment with events to take along queues on the unit of destination.
TravarEventosDaRealocacao(p) ==
    /\ pedido[p].etapa = "eventos" /\ pedido[p].op = "realocar"
    /\ Leva(pedido[p]) # {}
    /\ Seguir(p, TravarEventos(pedido[p].reserva),
              [pedido[p] EXCEPT !.etapa = "fila", !.ocupa = {pedido[p].unidade}])
    /\ SoPedido

\* A decision for each event linked to the reservation.
Aplicar(r, decisao) ==
    evento' = [x \in Eventos |-> IF x \in EventosDaReserva(r) THEN decisao[x] ELSE evento[x]]

\* INSERT without ON CONFLICT: a second automatic event of a type undoes it all.
InserirAutomaticos(r, s, planejado) ==
    [x \in Eventos |-> IF x \in Automaticos /\ x[1] = s THEN planejado[x[2]] ELSE r[x]]

AoConfirmar(r) ==
    /\ EventosDaReserva(r.reserva) \cap Automaticos = {}
    /\ evento' = InserirAutomaticos(evento, r.reserva, Plan(r.reserva, r.hora, FALSE))
    /\ reserva' = [reserva EXCEPT ![r.reserva].estado = "confirmed"]

AoCancelar(r) ==
    /\ reserva' = [reserva EXCEPT ![r.reserva].estado = "cancelled"]
    /\ Aplicar(r.reserva, [x \in EventosDaReserva(r.reserva) |->
          OnCancel(x, evento[x], reserva[r.reserva].estado = "checked_in", r.dia, r.hora)])

AoRegistrarEntrada(r) ==
    /\ Periodo[r.reserva].de <= r.dia /\ r.dia < Periodo[r.reserva].ate
    /\ reserva' = [reserva EXCEPT ![r.reserva].estado = "checked_in", ![r.reserva].entrou = TRUE]
    /\ Aplicar(r.reserva, [x \in EventosDaReserva(r.reserva) |-> OnCheckIn(x, evento[x])])

AoRegistrarSaida(r) ==
    /\ Periodo[r.reserva].de <= r.dia /\ r.dia <= Periodo[r.reserva].ate
    /\ reserva' = [reserva EXCEPT ![r.reserva].estado = "checked_out"]
    /\ Aplicar(r.reserva, [x \in EventosDaReserva(r.reserva) |->
          OnCheckOut(x, evento[x], r.dia, r.hora)])

\* Each event in its own savepoint: where the unit of destination is taken by
\* another marking, the event goes on without a unit of its own.
AoRealocar(r) ==
    LET de == reserva[r.reserva].unidade IN
    /\ reserva' = [reserva EXCEPT ![r.reserva].unidade = r.unidade,
                                  ![r.reserva].realocada = TRUE]
    /\ Aplicar(r.reserva, [x \in EventosDaReserva(r.reserva) |->
          LET junto == [evento[x] EXCEPT !.unidade = r.unidade] IN
          IF ~MovesOnReassign(x, evento[x], de) THEN evento[x]
          ELSE IF Disputa(x, junto) THEN [evento[x] EXCEPT !.unidade = Nenhum]
          ELSE junto])

\* The agenda's part and the reservation's are one commit.
Passo(p) ==
    /\ LET r == pedido[p] IN
       /\ IF r.op = "realocar" /\ Leva(r) # {} THEN r.etapa = "fila" ELSE r.etapa = "eventos"
       /\ Terminar(p, CASE r.op = "confirmar" -> {}
                        [] r.etapa = "fila" -> TravarUnidades(r.ocupa)
                        [] OTHER -> TravarEventos(r.reserva))
       /\ \/ r.op = "confirmar" /\ AoConfirmar(r)
          \/ r.op = "cancelar"  /\ AoCancelar(r)
          \/ r.op = "entrada"   /\ AoRegistrarEntrada(r)
          \/ r.op = "saida"     /\ AoRegistrarSaida(r)
          \/ r.op = "realocar"  /\ AoRealocar(r)
    /\ UNCHANGED <<hoje, horario>>

----------------------------------------------------------------------------
(* The house's hours, the fill and the rest.                               *)

TravarConfiguracao(p, dia, h) ==
    /\ pedido[p] = Livre
    /\ Seguir(p, Configuracao("configurar"),
              [Livre EXCEPT !.op = "configurar", !.etapa = "automaticos",
                            !.dia = dia, !.hora = h])
    /\ SoPedido

\* New hours and, in the same transaction, what was at the old ones.
GravarConfiguracao(p) ==
    /\ pedido[p].etapa = "automaticos"
    /\ LET r == pedido[p]
           xs == AutomaticosAgendadosDesde(r.dia)
       IN  /\ Terminar(p, {<<"evento", x, "exclusiva">> : x \in xs})
           /\ horario' = r.hora
           /\ evento' = [x \in Eventos |-> IF x \in xs
                           THEN Retime(x, evento[x], horario, r.hora, r.dia) ELSE evento[x]]
    /\ UNCHANGED <<hoje, reserva>>

\* The fill reads the hours and lists the reservations, without locking them.
ReservasParaPreencher(p, dia) ==
    /\ pedido[p] = Livre
    /\ Seguir(p, Configuracao("preencher"),
              [Livre EXCEPT !.op = "preencher", !.etapa = "semear", !.dia = dia, !.hora = horario,
                 !.lista = {<<s, reserva[s].estado>> :
                    s \in {t \in Estadias : /\ reserva[t].estado \in {"confirmed", "checked_in"}
                                           /\ Periodo[t].ate >= dia}}])
    /\ SoPedido

\* ON CONFLICT DO NOTHING: only the types that are missing.  The foreign key waits
\* for whoever has the reservation, and does not read its state again.
PreencherReservasConfirmadas(p) ==
    /\ pedido[p].etapa = "semear"
    /\ LET r == pedido[p] IN
       /\ Terminar(p, {<<"reserva", s[1], "compartilhada">> : s \in r.lista})
       /\ evento' = [x \in Eventos |->
             IF /\ x \in Automaticos /\ evento[x].estado = "ausente"
                /\ \E s \in r.lista : s[1] = x[1]
             THEN LET s == CHOOSE s \in r.lista : s[1] = x[1]
                  IN  [Plan(x[1], r.hora, s[2] = "checked_in")[x[2]] EXCEPT !.semente = TRUE]
             ELSE evento[x]]
    /\ UNCHANGED <<hoje, horario, reserva>>

\* A crash, a timeout, a refusal after all: everything is rolled back.  A retry of
\* TxManager.Do begins again with a new now(), like another request.
Cair(p) == pedido[p] # Livre /\ Terminar(p, {}) /\ SoPedido

\* The worker skips a locked hold, and does not call the agenda.
ExpirarLote(r) ==
    /\ reserva[r].estado = "hold"
    /\ \A p \in Pedidos : \A t \in pedido[p].travas : <<t[1], t[2]>> # <<"reserva", r>>
    /\ reserva' = [reserva EXCEPT ![r].estado = "expired"]
    /\ UNCHANGED <<hoje, horario, evento, pedido>>

Amanhecer ==
    /\ hoje < UltimoDia
    /\ hoje' = hoje + 1
    /\ UNCHANGED <<horario, reserva, evento, pedido>>

Next ==
    \/ \E p \in Pedidos :
         \/ Criar(p)
         \/ \E x \in Eventos : Editar(p, x)
         \/ \E dia \in DiaDoPedido :
              \/ \E x \in Eventos, acao \in {"concluir", "desmarcar"} : Transitar(p, dia, x, acao)
              \/ \E r \in Estadias, op \in DaReserva : TravarReserva(p, dia, r, op)
              \/ \E h \in Horarios : TravarConfiguracao(p, dia, h)
              \/ ReservasParaPreencher(p, dia)
         \/ Vincular(p) \/ ConferirUnidade(p) \/ Gravar(p)
         \/ Preparar(p) \/ TravarEventosDaRealocacao(p) \/ Passo(p)
         \/ GravarConfiguracao(p) \/ PreencherReservasConfirmadas(p) \/ Cair(p)
    \/ \E r \in Estadias : ExpirarLote(r)
    \/ Amanhecer

Spec == Init /\ [][Next]_vars

----------------------------------------------------------------------------
(* Properties.                                                             *)

\* A scheduled event marked by hand with a unit and a reservation is in the unit of
\* the reservation, moved or not; nothing stays scheduled for a reservation cancelled
\* before the guest entered, but what a fill inserted from a list read before the
\* cancellation; and no arrival or departure for one cancelled after it
\* (service_reserva.go, AoCancelar and AoRealocar; service_eventos.go, conferirVinculos).
EventoSegueReserva ==
    \A x \in Eventos :
        LET e == evento[x] IN
        Agendado(e) /\ e.reserva # Nenhum =>
            /\ e.unidade \in {Nenhum, reserva[e.reserva].unidade}
            /\ reserva[e.reserva].estado = "cancelled" =>
                 \/ e.semente
                 \/ /\ reserva[e.reserva].entrou
                    /\ x \in Manuais \/ x = <<e.reserva, "limpeza">>

\* An automatic event from today on, whose hour nobody chose, is at the hours in
\* force: none is born or moved with hours that PUT /agenda/settings has just
\* replaced (service_reserva.go, preparar; service_configuracao.go, GravarConfiguracao).
AutomaticoNoHorario ==
    \A x \in Automaticos :
        Agendado(evento[x]) /\ evento[x].dia >= hoje =>
            evento[x].hora \in {Nenhum, horario}

\* Two events marked by hand do not meet in a unit, even when one of them has no
\* unit of its own and the constraint does not see it, unless a reassignment
\* brought them together (repository_lista.go, TravarUnidades).
MarcacoesNaoSeCruzam ==
    \A x, y \in Manuais :
        LET e == evento[x]
            f == evento[y]
        IN  /\ x # y /\ Agendado(e) /\ Agendado(f) /\ e.dia = f.dia
            /\ Candidato(e) \cap Candidato(f) # {}
            => \E r \in {e.reserva, f.reserva} \ {Nenhum} : reserva[r].realocada
=============================================================================
